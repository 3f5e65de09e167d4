\* One job, two targets, a credential and two updates of it at a time.
CONSTANTS
  c1 = c1
  Projects = {"default", "ops"}
  Jobs = {j1}
  Targets = {t1}
  Credentials = {c1, c2}
  Executions = {e1}
  Tags = {"web"}
  Keys = {"env", "ENV"}
  Fold <- LowerCase
  Values = {"", " ", "prod", "dev"}
  Blanks = {"", " "}
  Schemas = {"twice", "both"}
  List <- SmallLists
  SeedJobs <- OpsJobs
  SeedTargets <- OpsTargets
  Supplied <- SmallSupplied
  Secrets = {s1}
  Requests = {q1, q2}
  Runs = {r1}
  MaxChanges = 3
  None = None
SYMMETRY RequestSymmetry
CHECK_DEADLOCK FALSE
SPECIFICATION Spec
INVARIANTS
  TypeOK
  OptionsConform
  SpellingsAgree
  CredentialsUsable
PROPERTIES
  ExecutionsKept
  RenamesKeepSecrets
