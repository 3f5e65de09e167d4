\* Detail: two jobs, one execution of either, two openings in flight.  Editor: a job and
\* room for another, two saves or one and a load in flight, one change of a field.  Selector:
\* the default project and one whose name may be the default one's, in two spellings.
\* Login: one browser with two tabs that signs in up to twice.
CONSTANTS
  Jobs = {j1, j2}
  Executions = {e1}
  Opens = {r1, r2}
  Initial = {j1}
  Loads = {l1}
  Saves = {r1, r2}
  Flights = 2
  MaxRev = 2
  Ids = {default, seed}
  Default = default
  SeedId = seed
  Spellings = {s1, s2}
  Fetches = {f1, f2}
  Tabs = {t1, t2}
  Visible = {t1}
  Tokens = {u1, u2}
  All = All
  None = None
SYMMETRY Interchangeable
SPECIFICATION Spec
INVARIANTS
  TypeOK
  ScreenOfOneJob
  SelectorShowsCurrent
  LiveSessionsHeld
PROPERTIES
  SavesAreSound
