----------------------------- MODULE StartupProofs -----------------------------
(***************************************************************************)
(* Proofs about Startup, for any number of processes, migrations and       *)
(* faults: wherever processes die, nobody works on tables that are not     *)
(* whole, the schema is never out of step with its version unmarked, and   *)
(* a server that serves has an account, whose password no start changes.   *)
(***************************************************************************)
EXTENDS Startup, FiniteSetTheorems, TLAPS

\* A server on its way has its environment; only servers look for accounts, and they
\* create one only with a password.
Given ==
  /\ \A p \in Servers : pc[p] # "down" => env[p].name \in Names
  /\ \A p \in Servers : pc[p] = "create" => env[p].password # None
  /\ \A p \in Workers : pc[p] \notin {"list", "create"}

StartTypeInv == TypeOK /\ Given

LEMMA TypeInit == Init => StartTypeInv
<1> SUFFICES ASSUME Init PROVE StartTypeInv
    OBVIOUS
<1>1. TypeOK
  <2>1. 0 \in 0..Last /\ 0 \in 0..MaxFaults
        BY StartupAssumption
  <2> QED BY <2>1 DEF Init, TypeOK
<1>2. Given
      BY DEF Init, Given, Processes
<1> QED BY <1>1, <1>2 DEF StartTypeInv

\* Each step keeps the types, and takes a server to "create" only with a password.
LEMMA TypeStep == StartTypeInv /\ [Next]_vars => StartTypeInv'
<1> SUFFICES ASSUME StartTypeInv, [Next]_vars PROVE StartTypeInv'
    OBVIOUS
<1> USE StartupAssumption DEF StartTypeInv, TypeOK, Given, GoTo, Processes, migration
<1>1. ASSUME NEW p \in Processes, Start(p) PROVE StartTypeInv'
  <2>1. CASE p \in Servers
        BY <1>1, <2>1 DEF Start
  <2>2. CASE p \notin Servers
        BY <1>1, <2>2 DEF Start
  <2> QED BY <2>1, <2>2
<1>2. ASSUME NEW p \in Processes, Lock(p) PROVE StartTypeInv'
      BY <1>2 DEF Lock
<1>3. ASSUME NEW p \in Processes, Up(p) PROVE StartTypeInv'
  <2>1. CASE dirty \/ version = Last
        BY <1>3, <2>1 DEF Up
  <2>2. CASE ~dirty /\ version # Last
    <3>1. version + 1 \in 0..Last
          BY <2>2
    <3> QED BY <1>3, <2>2, <3>1 DEF Up
  <2> QED BY <2>1, <2>2
<1>4. ASSUME NEW p \in Processes, Apply(p) PROVE StartTypeInv'
      BY <1>4 DEF Apply
<1>5. ASSUME NEW p \in Processes, MarkClean(p) PROVE StartTypeInv'
      BY <1>5 DEF MarkClean
<1>6. ASSUME NEW p \in Processes, RiverMigrations(p) PROVE StartTypeInv'
      BY <1>6 DEF RiverMigrations
<1>7. ASSUME NEW p \in Processes, ListUsers(p) PROVE StartTypeInv'
  <2>1. PICK l \in {"up", "down", "create"} : pc' = [pc EXCEPT ![p] = l]
        BY <1>7 DEF ListUsers
  <2>2. l = "create" => p \in Servers /\ env[p].password # None
        BY <1>7, <2>1 DEF ListUsers
  <2>3. faults' \in 0..MaxFaults
        BY <1>7 DEF ListUsers
  <2>5. blind' \in BOOLEAN
    <3>1. blind' = blind \/ blind' = TRUE \/ blind' = (blind \/ \E q \in Servers : pc[q] = "create")
          BY <1>7 DEF ListUsers
    <3> QED BY <3>1, Zenon
  <2>4. Given'
        BY <1>7, <2>1, <2>2 DEF ListUsers
  <2> QED BY <1>7, <2>1, <2>3, <2>4, <2>5 DEF ListUsers
<1>8. ASSUME NEW p \in Processes, CreateUser(p) PROVE StartTypeInv'
  <2>1. p \in Servers /\ env[p].name \in Names /\ env[p].password \in Passwords
        BY <1>8 DEF CreateUser
  <2>2. account' = account \/
        \E w \in Passwords \ TooLong : account' = [account EXCEPT ![env[p].name] = w]
        BY <1>8, <2>1 DEF CreateUser
  <2>3. account' \in [Names -> (Passwords \ TooLong) \cup {None}]
        BY <2>1, <2>2
  <2>4. faults' \in 0..MaxFaults /\ excused' \subseteq Servers
        BY <1>8, <2>1 DEF CreateUser
  <2> QED BY <1>8, <2>3, <2>4 DEF CreateUser
<1>9. ASSUME NEW p \in Processes, Die(p) PROVE StartTypeInv'
      BY <1>9 DEF Die
<1>10. ASSUME NEW p \in Processes, Stop(p) PROVE StartTypeInv'
      BY <1>10 DEF Stop
<1>11. CASE UNCHANGED vars
      BY <1>11 DEF vars
<1> QED
    BY <1>1, <1>2, <1>3, <1>4, <1>5, <1>6, <1>7, <1>8, <1>9, <1>10, <1>11 DEF Next, Go

\* Every value of the variables is one of the schema, the accounts and the processes
\* that start on them (cmd/server, cmd/executor, cmd/producer).
THEOREM TypeCorrect == Spec => []TypeOK
<1>1. StartTypeInv => TypeOK
      BY DEF StartTypeInv
<1> QED BY <1>1, TypeInit, TypeStep, PTL DEF Spec

----------------------------------------------------------------------------
(* The schema. *)

\* Who is at the migrations holds the lock; version, mark and schema tell how far it is;
\* and whoever is past them has seen the last one.
Stages ==
  \A p \in Processes :
    /\ pc[p] \in {"migrate", "apply", "clean"} => lock = p
    /\ pc[p] = "apply" => dirty /\ schema = version - 1
    /\ pc[p] = "clean" => dirty /\ schema = version
    /\ pc[p] \in {"river", "list", "create", "up"} => version = Last

SchemaInv == Stages /\ VersionTellsSchema /\ WorksOnWholeSchema

LEMMA SchemaStep == StartTypeInv /\ SchemaInv /\ [Next]_vars => SchemaInv'
<1> SUFFICES ASSUME StartTypeInv, SchemaInv, [Next]_vars PROVE SchemaInv'
    OBVIOUS
<1>0. /\ version \in 0..Last /\ schema \in 0..Last /\ dirty \in BOOLEAN
      /\ DOMAIN pc = Processes /\ pc = [p \in Processes |-> pc[p]]
      /\ Last \in Nat /\ None \notin Processes
      BY StartupAssumption DEF StartTypeInv, TypeOK, Processes
<1> USE <1>0 DEF SchemaInv, Stages, VersionTellsSchema, WorksOnWholeSchema, GoTo, migration
<1>1. ASSUME NEW p \in Processes, Start(p) PROVE SchemaInv'
      BY <1>1 DEF Start
<1>2. ASSUME NEW p \in Processes, Lock(p) PROVE SchemaInv'
      BY <1>2 DEF Lock
<1>3. ASSUME NEW p \in Processes, Up(p) PROVE SchemaInv'
  <2>1. CASE dirty
        BY <1>3, <2>1 DEF Up
  <2>2. CASE ~dirty /\ version = Last
        BY <1>3, <2>2 DEF Up
  <2>3. CASE ~dirty /\ version # Last
        BY <1>3, <2>3 DEF Up
  <2> QED BY <2>1, <2>2, <2>3
<1>4. ASSUME NEW p \in Processes, Apply(p) PROVE SchemaInv'
      BY <1>4 DEF Apply
<1>5. ASSUME NEW p \in Processes, MarkClean(p) PROVE SchemaInv'
      BY <1>5 DEF MarkClean
<1>6. ASSUME NEW p \in Processes, RiverMigrations(p) PROVE SchemaInv'
      BY <1>6 DEF RiverMigrations
<1>7. ASSUME NEW p \in Processes, ListUsers(p) PROVE SchemaInv'
      BY <1>7 DEF ListUsers
<1>8. ASSUME NEW p \in Processes, CreateUser(p) PROVE SchemaInv'
      BY <1>8 DEF CreateUser
<1>9. ASSUME NEW p \in Processes, Die(p) PROVE SchemaInv'
      BY <1>9 DEF Die
<1>10. ASSUME NEW p \in Processes, Stop(p) PROVE SchemaInv'
      BY <1>10 DEF Stop
<1>11. CASE UNCHANGED vars
      BY <1>11 DEF vars
<1> QED
    BY <1>1, <1>2, <1>3, <1>4, <1>5, <1>6, <1>7, <1>8, <1>9, <1>10, <1>11 DEF Next, Go

LEMMA SchemaInvariant == Spec => []SchemaInv
<1>1. Init => SchemaInv
      BY DEF Init, SchemaInv, Stages, VersionTellsSchema, WorksOnWholeSchema, Processes
<1> QED BY <1>1, TypeInit, TypeStep, SchemaStep, PTL DEF Spec

\* Nobody serves, works or lists accounts on tables that are not there or half-way, and no
\* migration is skipped, repeated or left half-way unmarked (migrations.go:16-38), however
\* many start together and wherever they die.
THEOREM SchemaIsSafe == Spec => []MigrationsAreSafe
<1>1. SchemaInv => MigrationsAreSafe
      BY DEF SchemaInv, MigrationsAreSafe
<1> QED BY <1>1, SchemaInvariant, PTL

----------------------------------------------------------------------------
(* The accounts. *)

LEMMA AccountStep == StartTypeInv /\ ServingHasAccount /\ [Next]_vars => ServingHasAccount'
<1> SUFFICES ASSUME StartTypeInv, ServingHasAccount, [Next]_vars PROVE ServingHasAccount'
    OBVIOUS
<1>0. /\ pc = [p \in Processes |-> pc[p]] /\ account = [n \in Names |-> account[n]]
      /\ Servers \subseteq Processes /\ Servers \cap Workers = {} /\ None \notin Passwords
      BY StartupAssumption DEF StartTypeInv, TypeOK, Processes
<1> USE <1>0 DEF ServingHasAccount, GoTo, migration, Accounts
<1>1. ASSUME NEW p \in Processes, Start(p) PROVE ServingHasAccount'
      BY <1>1 DEF Start
<1>2. ASSUME NEW p \in Processes, Lock(p) \/ Apply(p) \/ MarkClean(p) PROVE ServingHasAccount'
      BY <1>2 DEF Lock, Apply, MarkClean
<1>3. ASSUME NEW p \in Processes, Up(p) PROVE ServingHasAccount'
      BY <1>3 DEF Up
<1>4. ASSUME NEW p \in Processes, RiverMigrations(p) PROVE ServingHasAccount'
      BY <1>4 DEF RiverMigrations
<1>5. ASSUME NEW p \in Processes, ListUsers(p) PROVE ServingHasAccount'
      BY <1>5 DEF ListUsers
<1>6. ASSUME NEW p \in Processes, CreateUser(p) PROVE ServingHasAccount'
  <2>1. p \in Servers /\ env[p].name \in Names
        /\ env[p].password \in Passwords
        BY <1>6, StartupAssumption DEF CreateUser, StartTypeInv, TypeOK, Given, Processes
  <2>2. Accounts \subseteq Accounts'
        BY <1>6, <2>1 DEF CreateUser
  <2>3. p \in excused' \/ Accounts' # {}
        BY <1>6, <2>1 DEF CreateUser
  <2>4. /\ \A q \in Processes \ {p} : pc'[q] = pc[q]
        /\ excused \subseteq excused'
        BY <1>6 DEF CreateUser
  <2> QED BY <2>2, <2>3, <2>4
<1>7. ASSUME NEW p \in Processes, Die(p) \/ Stop(p) PROVE ServingHasAccount'
      BY <1>7 DEF Die, Stop
<1>8. CASE UNCHANGED vars
      BY <1>8 DEF vars
<1> QED BY <1>1, <1>2, <1>3, <1>4, <1>5, <1>6, <1>7, <1>8 DEF Next, Go

\* A server that serves has an account.
LEMMA ServingHasOne == Spec => []ServingHasAccount
<1>1. Init => ServingHasAccount
      BY DEF Init, ServingHasAccount, Processes
<1> QED BY <1>1, TypeInit, TypeStep, AccountStep, PTL DEF Spec

\* No start changes the password of an account that is there (handlers.go:206-211), nor
\* does anything else.
THEOREM PasswordsAreKept == Spec => PasswordsKept
<1> DEFINE Kept == \A n \in Accounts : account'[n] = account[n]
<1>1. ASSUME StartTypeInv, [Next]_vars PROVE Kept
  <2>1. ASSUME NEW p \in Processes, CreateUser(p) PROVE Kept
    <3>1. account' = account \/
          \E m \in Names : account[m] = None /\ account' = [account EXCEPT ![m] = env[p].password]
          BY <1>1, <2>1, StartupAssumption
          DEF CreateUser, StartTypeInv, TypeOK, Given, Processes
    <3>2. account = [n \in Names |-> account[n]]
          BY <1>1 DEF StartTypeInv, TypeOK
    <3> QED BY <3>1, <3>2 DEF Accounts
  <2>2. ASSUME UNCHANGED account PROVE Kept
        BY <2>2
  <2> QED
      BY <1>1, <2>1, <2>2
      DEF Next, Go, Start, Lock, Up, Apply, MarkClean, RiverMigrations, ListUsers, Die, Stop, vars
<1>2. StartTypeInv /\ [Next]_vars => [Kept]_vars
      BY <1>1
<1> QED BY <1>2, TypeInit, TypeStep, PTL DEF Spec, PasswordsKept

\* As long as no listing failed or ran beside a creation, at most one server is about to
\* create an account, and only while there is none.
Alone ==
  ~blind =>
    /\ Accounts = {} \/ \E n \in Names : Accounts = {n}
    /\ \A p \in Servers :
         pc[p] = "create" => Accounts = {} /\ \A q \in Servers \ {p} : pc[q] # "create"

LEMMA AloneStep == StartTypeInv /\ Alone /\ [Next]_vars => Alone'
<1> SUFFICES ASSUME StartTypeInv, Alone, [Next]_vars PROVE Alone'
    OBVIOUS
<1>0. /\ pc = [p \in Processes |-> pc[p]] /\ account = [n \in Names |-> account[n]]
      /\ Servers \subseteq Processes /\ blind \in BOOLEAN
      BY DEF StartTypeInv, TypeOK, Processes
<1>1. ASSUME UNCHANGED <<account, blind>>,
             \A q \in Processes : pc'[q] = "create" => pc[q] = "create"
      PROVE Alone'
      BY <1>0, <1>1 DEF Alone, Accounts
<1>2. ASSUME NEW p \in Processes, Start(p) \/ Lock(p) \/ Up(p) \/ Apply(p) \/ MarkClean(p)
      PROVE Alone'
      BY <1>0, <1>1, <1>2 DEF Start, Lock, Up, Apply, MarkClean, GoTo
<1>3. ASSUME NEW p \in Processes, RiverMigrations(p) \/ Die(p) \/ Stop(p) PROVE Alone'
      BY <1>0, <1>1, <1>3 DEF RiverMigrations, Die, Stop, GoTo
<1>4. ASSUME NEW p \in Processes, ListUsers(p) PROVE Alone'
      BY <1>0, <1>4 DEF ListUsers, GoTo, Alone, Accounts
<1>5. ASSUME NEW p \in Processes, CreateUser(p) PROVE Alone'
  <2>1. p \in Servers /\ env[p].name \in Names /\ env[p].password \in Passwords
        /\ pc[p] = "create" /\ None \notin Passwords
        BY <1>5, StartupAssumption DEF CreateUser, StartTypeInv, TypeOK, Given, Processes
  <2>2. /\ blind' = blind /\ pc'[p] = "up"
        /\ \A q \in Processes \ {p} : pc'[q] = pc[q]
        BY <1>0, <1>5 DEF CreateUser, GoTo
  <2>3. CASE blind
        BY <2>2, <2>3 DEF Alone
  <2>4. CASE ~blind
    <3>1. Accounts = {} /\ \A q \in Servers \ {p} : pc[q] # "create"
          BY <2>1, <2>4 DEF Alone
    <3>2. Accounts' = {} \/ Accounts' = {env[p].name}
          BY <1>0, <1>5, <2>1, <3>1 DEF CreateUser, Accounts
    <3>3. \A q \in Servers : pc'[q] # "create"
          BY <1>0, <2>2, <3>1
    <3> QED BY <2>1, <3>2, <3>3 DEF Alone
  <2> QED BY <2>3, <2>4
<1>6. CASE UNCHANGED vars
      BY <1>0, <1>6 DEF vars, Alone, Accounts
<1> QED BY <1>2, <1>3, <1>4, <1>5, <1>6 DEF Next, Go

\* Servers that start one after the other create one account.
LEMMA OneIsCreated == Spec => []OneAccount
<1>1. Init => Alone
      BY DEF Init, Alone, Accounts, Processes
<1>2. Alone => OneAccount
      BY FS_EmptySet, FS_Singleton DEF Alone, OneAccount
<1> QED BY <1>1, <1>2, TypeInit, TypeStep, AloneStep, PTL DEF Spec

\* A server that serves has an account to sign in with, unless its own attempt to create
\* one went wrong, and servers that start one after the other, with whatever names and
\* passwords and dying wherever they do, create one between them (handlers.go:180-212).
THEOREM AccountIsThere == Spec => []AccountToSignIn
<1>1. ServingHasAccount /\ OneAccount => AccountToSignIn
      BY DEF AccountToSignIn
<1> QED BY <1>1, ServingHasOne, OneIsCreated, PTL
=============================================================================
