------------------------------- MODULE Startup -------------------------------
(***************************************************************************)
(* How the processes start on one database (cmd/server, cmd/executor,      *)
(* cmd/producer): each brings the schema up to date, the tables of the     *)
(* program and those of the queue, before it does anything else; a server  *)
(* then sees to it that there is an account to sign in with.  Processes    *)
(* start together, die in the middle, and are started again.               *)
(***************************************************************************)
EXTENDS Naturals, FiniteSets

CONSTANTS
  Servers, Workers,   \* processes of cmd/server; of cmd/executor and cmd/producer
  Names,              \* what ADMIN_USERNAME may be
  Passwords,          \* what ADMIN_PASSWORD may be
  TooLong,            \* the passwords bcrypt refuses
  None,               \* no name, password or process
  Last,               \* the number of migrations
  MaxFaults           \* bound: how often a process dies or a statement fails

ASSUME StartupAssumption ==
  /\ Servers \cap Workers = {} /\ None \notin Servers \cup Workers \cup Names \cup Passwords
  /\ TooLong \subseteq Passwords
  /\ Last \in Nat \ {0} /\ MaxFaults \in Nat

Processes == Servers \cup Workers

VARIABLES
  version, dirty,  \* the row of schema_migrations
  schema,          \* how many migrations the tables have had
  river,           \* whether the tables of the queue are there
  lock,            \* who holds the advisory lock of the migrations
  pc,              \* where each process is
  env,             \* ADMIN_USERNAME and ADMIN_PASSWORD of each server
  account,         \* the table users: the password of each name
  faults,          \* the faults so far
  excused,         \* history: servers whose attempt to create an account went wrong
  blind            \* history: a listing failed, or was done while another server creates

migration == <<version, dirty, schema, river, lock>>
vars == <<migration, pc, env, account, faults, excused, blind>>

TypeOK ==
  /\ version \in 0..Last /\ dirty \in BOOLEAN /\ schema \in 0..Last /\ river \in BOOLEAN
  /\ lock \in Processes \cup {None}
  /\ pc \in [Processes -> {"down", "lock", "migrate", "apply", "clean", "river",
                           "list", "create", "up"}]
  /\ env \in [Servers -> [name : Names \cup {None}, password : Passwords \cup {None}]]
  /\ account \in [Names -> (Passwords \ TooLong) \cup {None}]
  /\ faults \in 0..MaxFaults /\ excused \subseteq Servers /\ blind \in BOOLEAN

Init ==
  /\ version = 0 /\ dirty = FALSE /\ schema = 0 /\ river = FALSE /\ lock = None
  /\ pc = [p \in Processes |-> "down"]
  /\ env = [p \in Servers |-> [name |-> None, password |-> None]]
  /\ account = [n \in Names |-> None]
  /\ faults = 0 /\ excused = {} /\ blind = FALSE

GoTo(p, l) == pc' = [pc EXCEPT ![p] = l]
Accounts == {n \in Names : account[n] # None}

\* A server starts with the environment it is given this time.
Start(p) ==
  /\ pc[p] = "down"
  /\ GoTo(p, "lock")
  /\ IF p \in Servers
     THEN \E name \in Names, password \in Passwords \cup {None} :
            env' = [env EXCEPT ![p] = [name |-> name, password |-> password]]
     ELSE UNCHANGED env
  /\ excused' = excused \ {p}
  /\ UNCHANGED <<migration, account, faults, blind>>

----------------------------------------------------------------------------
(* RunMigrations: golang-migrate, one process at a time. *)

\* A process that waits for the lock too long gives up (see Die).
Lock(p) ==
  /\ pc[p] = "lock" /\ lock = None
  /\ lock' = p /\ GoTo(p, "migrate")
  /\ UNCHANGED <<version, dirty, schema, river, env, account, faults, excused, blind>>

\* Variant: the error of m.Up is only logged.
UpLogged(p) ==
  /\ pc[p] = "migrate"
  /\ IF dirty \/ version = Last
     THEN GoTo(p, "river") /\ lock' = None /\ UNCHANGED <<version, dirty>>
     ELSE version' = version + 1 /\ dirty' = TRUE /\ GoTo(p, "apply") /\ UNCHANGED lock
  /\ UNCHANGED <<schema, river, env, account, faults, excused, blind>>

\* Variant: a schema that is up to date is refused like a dirty one.
UpNoChange(p) ==
  /\ pc[p] = "migrate"
  /\ IF dirty \/ schema = Last THEN GoTo(p, "down") /\ lock' = None /\ UNCHANGED <<version, dirty>>
     ELSE version' = version + 1 /\ dirty' = TRUE /\ GoTo(p, "apply") /\ UNCHANGED lock
  /\ UNCHANGED <<schema, river, env, account, faults, excused, blind>>

\* m.Up: refuses a dirty schema, which ends the process; marks the next migration before
\* it runs it; with nothing left to do the process goes on.
Up(p) ==
  /\ pc[p] = "migrate"
  /\ IF dirty THEN GoTo(p, "down") /\ lock' = None /\ UNCHANGED <<version, dirty>>
     ELSE IF version = Last THEN GoTo(p, "river") /\ lock' = None /\ UNCHANGED <<version, dirty>>
     ELSE version' = version + 1 /\ dirty' = TRUE /\ GoTo(p, "apply") /\ UNCHANGED lock
  /\ UNCHANGED <<schema, river, env, account, faults, excused, blind>>

\* The statements of one file are one transaction.
Apply(p) ==
  /\ pc[p] = "apply"
  /\ schema' = version /\ GoTo(p, "clean")
  /\ UNCHANGED <<version, dirty, river, lock, env, account, faults, excused, blind>>

MarkClean(p) ==
  /\ pc[p] = "clean"
  /\ dirty' = FALSE /\ GoTo(p, "migrate")
  /\ UNCHANGED <<version, schema, river, lock, env, account, faults, excused, blind>>

\* queue.RunMigrations: in transactions, without the lock.
RiverMigrations(p) ==
  /\ pc[p] = "river"
  /\ river' = TRUE /\ GoTo(p, IF p \in Servers THEN "list" ELSE "up")
  /\ UNCHANGED <<version, dirty, schema, lock, env, account, faults, excused, blind>>

----------------------------------------------------------------------------
(* bootstrapAdminUser. *)

\* Variant: a server that cannot list the accounts takes it that there are some.
ListOrAssume(p) ==
  /\ pc[p] = "list"
  /\ \/ GoTo(p, IF Accounts # {} THEN "up" ELSE IF env[p].password = None THEN "down" ELSE "create")
        /\ UNCHANGED faults
     \/ faults < MaxFaults /\ faults' = faults + 1 /\ GoTo(p, "up")
  /\ UNCHANGED <<migration, env, account, excused, blind>>

\* With an account there is nothing to do.  Without one, and when the statement fails,
\* a password is needed.
ListUsers(p) ==
  /\ pc[p] = "list"
  /\ \/ Accounts # {} /\ GoTo(p, "up") /\ UNCHANGED <<faults, blind>>
     \/ /\ Accounts = {}
        /\ GoTo(p, IF env[p].password = None THEN "down" ELSE "create")
        /\ blind' = (blind \/ \E q \in Servers : pc[q] = "create") /\ UNCHANGED faults
     \/ /\ faults < MaxFaults
        /\ GoTo(p, IF env[p].password = None THEN "down" ELSE "create")
        /\ faults' = faults + 1 /\ blind' = TRUE
  /\ UNCHANGED <<migration, env, account, excused>>

\* The server goes on whatever happens: bcrypt refuses the password, the name exists, the
\* insert fails.  (By now another server may have created an account.)
CreateUser(p) ==
  /\ pc[p] = "create"
  /\ GoTo(p, "up")
  /\ LET e == env[p] IN
     \/ /\ e.password \in TooLong
        /\ excused' = excused \cup {p} /\ UNCHANGED <<account, faults, blind>>
     \/ /\ e.password \notin TooLong /\ account[e.name] # None
        /\ UNCHANGED <<account, faults, excused, blind>>
     \/ /\ e.password \notin TooLong /\ account[e.name] = None
        /\ account' = [account EXCEPT ![e.name] = e.password]
        /\ UNCHANGED <<faults, excused, blind>>
     \/ /\ faults < MaxFaults /\ faults' = faults + 1
        /\ excused' = excused \cup {p} /\ UNCHANGED <<account, blind>>
  /\ UNCHANGED <<migration, env>>

----------------------------------------------------------------------------
\* A crash, or an error that ends the process; the database frees the lock.
Die(p) ==
  /\ pc[p] # "down" /\ faults < MaxFaults
  /\ GoTo(p, "down") /\ faults' = faults + 1
  /\ lock' = IF lock = p THEN None ELSE lock
  /\ UNCHANGED <<version, dirty, schema, river, env, account, excused, blind>>

\* A producer that has done its work, or a process that is stopped.
Stop(p) ==
  /\ pc[p] = "up"
  /\ GoTo(p, "down")
  /\ UNCHANGED <<migration, env, account, faults, excused, blind>>

Go(p) ==
  \/ Lock(p) \/ Up(p) \/ Apply(p) \/ MarkClean(p) \/ RiverMigrations(p)
  \/ ListUsers(p) \/ CreateUser(p)

Next == \E p \in Processes : Start(p) \/ Go(p) \/ Die(p) \/ Stop(p)

Spec == Init /\ [][Next]_vars

\* A server goes on with its start as often as it can: while it waits for the lock, other
\* processes may take it in between.  One that is down is started again, with whatever
\* environment.  The other processes finish what they are at.
Fairness ==
  /\ \A p \in Servers : SF_vars(Go(p)) /\ WF_vars(Start(p))
  /\ \A p \in Workers : WF_vars(Go(p))

----------------------------------------------------------------------------
(* What a start promises. *)

\* Nobody works on tables that are not there or half-way: a process past its migrations
\* finds all of them applied, whoever applied them and wherever others died ...
WorksOnWholeSchema ==
  \A p \in Processes :
    pc[p] \in {"river", "list", "create", "up"} => schema = Last /\ ~dirty

\* ... and the schema never runs ahead of its version nor lags behind it unless marked so,
\* even if several processes migrate at once and die: no migration is skipped or repeated.
VersionTellsSchema ==
  /\ ~dirty => schema = version
  /\ dirty => schema \in {version - 1, version}

\* Processes that start together agree about the tables.
MigrationsAreSafe == WorksOnWholeSchema /\ VersionTellsSchema

\* A server that serves has an account to sign in with, unless creating it went wrong,
\* which it does not tell ...
ServingHasAccount ==
  \A p \in Servers : pc[p] = "up" /\ p \notin excused => Accounts # {}

\* ... and there is one account, unless a listing failed or servers started side by side.
OneAccount == ~blind => Cardinality(Accounts) <= 1

\* Servers that start see to one account between them.
AccountToSignIn == ServingHasAccount /\ OneAccount

\* Starting again, with any other environment, changes no password and removes no account.
PasswordsKept == [][\A n \in Accounts : account'[n] = account[n]]_vars

\* Whatever fails, each server that is not left without a password comes up in the end,
\* unless a process died within a migration: that takes an operator.
ServersComeUp ==
  \A p \in Servers :
    []<>(pc[p] = "up" \/ dirty \/ (pc[p] = "down" /\ env[p].password = None))
=============================================================================
