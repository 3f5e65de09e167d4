----------------------------- MODULE MCWorkspace -----------------------------
(* Small instances of Workspace for TLC. *)
EXTENDS Workspace, TLC

CONSTANT c1      \* the credential of the target

\* One option in two spellings: "env" is what schemas declare first.
LowerCase == [k \in {"env", "ENV"} |-> "env"]

Opt(name, required, default, choices) ==
  [name |-> name, required |-> required, default |-> default, choices |-> choices]

\* An option declared twice, with other choices; and both spellings, one with a default.
SmallLists ==
  [twice |-> <<Opt("env", TRUE, "", {"prod"}), Opt("env", TRUE, "dev", {"prod", "dev"})>>,
   both  |-> <<Opt("env", FALSE, "prod", {"prod", "dev"}), Opt("ENV", FALSE, "", {"prod", "dev"})>>]

SmallSupplied == {[ENV |-> "dev"], [env |-> " ", ENV |-> "dev"]}

\* One target with a credential, matched by a job of the same project.
OpsJobs == {[project |-> "ops", filter |-> {"web"}, options |-> s] : s \in DOMAIN SmallLists}
OpsTargets == {[project |-> "ops", tags |-> {"web"}, cred |-> c1]}

RequestSymmetry == Permutations(Requests)
=============================================================================
