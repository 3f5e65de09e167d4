\* Two hosts and two keys, two commands and a connection of the executor.
CONSTANTS
  Addresses = {a1, a2}
  Keys = {k1, k2}
  Commands = {c1, c2}
  Calls = {r1}
  None = None
CHECK_DEADLOCK FALSE
SPECIFICATION Spec
INVARIANTS
  TrustKept
  TrustDecides
