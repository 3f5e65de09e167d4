\* Startup: two servers on an empty database, two names, a password that is too long and
\* up to two faults.  Sessions: two tabs and one session.  Console: two executions with logs
\* of up to one entry, two requests in flight.
CONSTANTS
  Servers = {s1, s2}
  Workers = {}
  Names = {n1, n2}
  Passwords = {p1, long}
  TooLong = {long}
  Last = 2
  MaxFaults = 2
  t1 = t1
  t2 = t2
  u1 = u1
  e1 = e1
  e2 = e2
  f1 = f1
  f2 = f2
  None = None
SPECIFICATION ProgressSpec
INVARIANTS
  MigrationsAreSafe
  AccountToSignIn
PROPERTIES
  ServersComeUp
  SignedOutTabsLeave
  FollowCatchesUp
