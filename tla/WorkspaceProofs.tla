--------------------------- MODULE WorkspaceProofs ---------------------------
(***************************************************************************)
(* Theorems about Workspace, for any tables, options, changes and requests.*)
(***************************************************************************)
EXTENDS Workspace, SequenceTheorems, WellFoundedInduction, TLAPS

(* What the merge of options computes. *)

\* An option that is declared has a last declaration.
LEMMA LastDeclaration ==
  ASSUME NEW list \in Seq(Option), NEW k \in Declared(list)
  PROVE  Last(list, k) \in DOMAIN list /\ list[Last(list, k)].name = k
<1> DEFINE behind == {n \in Nat : \E i \in DOMAIN list : list[i].name = k /\ n = Len(list) - i}
<1>1. PICK i \in DOMAIN list : list[i].name = k
  BY DEF Declared
<1>2. DOMAIN list = 1 .. Len(list) /\ Len(list) \in Nat
  OBVIOUS
<1>3. Len(list) - i \in behind
  BY <1>1, <1>2
<1>4. PICK n \in behind : \A m \in behind : ~ (<<m, n>> \in OpToRel(<, Nat))
  <2>1. behind \subseteq Nat /\ behind # {}
    BY <1>3
  <2> HIDE DEF behind
  <2> QED BY <2>1, NatLessThanWellFounded, WFMin
<1>5. \A m \in behind : n <= m
  <2> SUFFICES ASSUME NEW m \in behind
               PROVE  n <= m
    OBVIOUS
  <2>1. m \in Nat /\ n \in Nat
    OBVIOUS
  <2>2. ~ (m < n)
    BY <1>4, <2>1 DEF OpToRel
  <2> QED BY <2>1, <2>2
<1>6. PICK j \in DOMAIN list : list[j].name = k /\ n = Len(list) - j
  OBVIOUS
<1>7. \A l \in DOMAIN list : list[l].name = k => l <= j
  <2> SUFFICES ASSUME NEW l \in DOMAIN list, list[l].name = k
               PROVE  l <= j
    OBVIOUS
  <2>1. Len(list) - l \in behind
    BY <1>2
  <2> HIDE DEF behind
  <2> QED BY <1>2, <1>5, <1>6, <2>1
<1> HIDE DEF behind
<1> QED BY <1>6, <1>7 DEF Last

\* The last declaration of a name is an option, and its value one that was found.
LEMMA LastChoice ==
  ASSUME NEW list \in Seq(Option), NEW user, NEW vals \in Choices(list, user),
         NEW k \in Declared(list)
  PROVE  LET i == Last(list, k)
         IN /\ i \in DOMAIN list /\ list[i] \in Option /\ list[i].name = k
            /\ vals[i] \in Values /\ vals[i] \in Found(list[i], user)
<1>1. Last(list, k) \in DOMAIN list /\ list[Last(list, k)].name = k
  BY LastDeclaration
<1>2. list[Last(list, k)] \in Option
  BY <1>1
<1> QED BY <1>1, <1>2 DEF Choices

\* The merge is a map from spellings to values.
LEMMA MergedIsMap ==
  ASSUME NEW list \in Seq(Option), NEW user \in Maps, NEW vals \in Choices(list, user)
  PROVE  Merged(list, user, vals) \in Maps
<1> DEFINE K == Declared(list) \cup DOMAIN user
           m == Merged(list, user, vals)
<1>1. PICK U \in SUBSET Keys : user \in [U -> Values]
  BY DEF Maps
<1>2. K \subseteq Keys
  <2>1. \A i \in DOMAIN list : list[i] \in Option
    OBVIOUS
  <2>2. Declared(list) \subseteq Keys
    BY <2>1 DEF Declared, Option
  <2> QED BY <1>1, <2>2
<1>3. \A k \in K : m[k] \in Values
  <2> SUFFICES ASSUME NEW k \in K
               PROVE  m[k] \in Values
    OBVIOUS
  <2>1. CASE k \in Declared(list)
    <3>1. Taken(list[Last(list, k)], vals[Last(list, k)]) \in Values
      BY <2>1, LastChoice DEF Taken, Option
    <3> QED BY <2>1, <3>1 DEF Merged
  <2>2. CASE k \notin Declared(list)
    BY <1>1, <2>2 DEF Merged
  <2> QED BY <2>1, <2>2
<1>4. m \in [K -> Values]
  BY <1>3 DEF Merged
<1> QED BY <1>2, <1>4 DEF Maps

\* If every value found is accepted, the merge conforms to the list.
LEMMA MergedConforms ==
  ASSUME NEW list \in Seq(Option), NEW user, NEW vals \in Choices(list, user),
         \A i \in DOMAIN list : Accepted(list[i], vals[i])
  PROVE  Conforms(Merged(list, user, vals), list)
<1> DEFINE m == Merged(list, user, vals)
<1> SUFFICES ASSUME NEW k \in Declared(list)
             PROVE  /\ k \in DOMAIN m
                    /\ \E i \in DOMAIN list :
                         /\ list[i].name = k
                         /\ list[i].choices # {} => m[k] \in list[i].choices \cup {""}
                         /\ list[i].required => m[k] # ""
  BY DEF Conforms
<1> DEFINE opt == list[Last(list, k)]
           val == vals[Last(list, k)]
<1>1. Last(list, k) \in DOMAIN list /\ opt.name = k
  BY LastChoice
<1>2. Accepted(opt, val)
  BY <1>1
<1>3. k \in DOMAIN m /\ m[k] = Taken(opt, val)
  BY DEF Merged
<1>4. "" \in Blanks
  BY WorkspaceAssumption
<1> HIDE DEF m, opt, val
<1>5. opt.choices # {} => m[k] \in opt.choices \cup {""}
  BY <1>2, <1>3 DEF Accepted
<1>6. opt.required => m[k] # ""
  BY <1>2, <1>3, <1>4 DEF Accepted, Taken
<1> QED BY <1>1, <1>3, <1>5, <1>6 DEF opt

\* The options in another order are a list of options; what conforms to it conforms.
LEMMA OrderIsList ==
  ASSUME NEW schema \in Seq(Option), NEW order \in Orders(schema), NEW n \in 0 .. Len(schema)
  PROVE  /\ SubSeq(order, 1, n) \in Seq(Option)
         /\ n = Len(schema) => SubSeq(order, 1, n) = order
<1>1. DOMAIN schema = 1 .. Len(schema) /\ Len(schema) \in Nat
  OBVIOUS
<1>2. PICK f \in [DOMAIN schema -> DOMAIN schema] : order = [i \in DOMAIN schema |-> schema[f[i]]]
  BY DEF Orders
<1>3. \A i \in DOMAIN schema : schema[i] \in Option
  OBVIOUS
<1>4. \A i \in DOMAIN schema : order[i] \in Option
  BY <1>2, <1>3
<1>5. order \in Seq(Option) /\ Len(order) = Len(schema)
  BY <1>1, <1>2, <1>4
<1>6. SubSeq(order, 1, n) \in Seq(Option) /\ Len(SubSeq(order, 1, n)) = n
      /\ \A i \in 1 .. n : SubSeq(order, 1, n)[i] = order[i]
  <2>1. n \in Int /\ n \in Nat /\ \A i \in 1 .. n : order[i] \in Option
    BY <1>1, <1>4
  <2>2. /\ SubSeq(order, 1, n) \in Seq(Option)
        /\ Len(SubSeq(order, 1, n)) = IF 1 <= n THEN n - 1 + 1 ELSE 0
        /\ \A i \in 1 .. n - 1 + 1 : SubSeq(order, 1, n)[i] = order[1 + i - 1]
    BY <2>1, SubSeqProperties
  <2>3. \A i \in 1 .. n : i \in Int /\ 1 + i - 1 = i /\ n - 1 + 1 = n
    BY <2>1
  <2> QED BY <2>1, <2>2, <2>3
<1>7. n = Len(schema) => SubSeq(order, 1, n) = order
  BY <1>5, <1>6, SeqEqual
<1> QED BY <1>6, <1>7

LEMMA ConformsInOrder ==
  ASSUME NEW schema \in Seq(Option), NEW order \in Orders(schema), NEW options,
         Conforms(options, order)
  PROVE  Conforms(options, schema)
<1>1. PICK f \in [DOMAIN schema -> DOMAIN schema] :
        /\ order = [i \in DOMAIN schema |-> schema[f[i]]]
        /\ \A j \in DOMAIN schema : \E i \in DOMAIN schema : f[i] = j
  BY DEF Orders
<1>2. DOMAIN order = DOMAIN schema /\ \A i \in DOMAIN schema : order[i] = schema[f[i]]
  BY <1>1
<1>3. ASSUME NEW k \in Declared(schema)
      PROVE  k \in Declared(order)
  <2>1. PICK j \in DOMAIN schema : schema[j].name = k
    BY DEF Declared
  <2>2. PICK i \in DOMAIN schema : f[i] = j
    BY <1>1
  <2> QED BY <1>2, <2>1, <2>2 DEF Declared
<1>4. ASSUME NEW k \in Declared(schema)
      PROVE  /\ k \in DOMAIN options
             /\ \E i \in DOMAIN schema :
                  /\ schema[i].name = k
                  /\ schema[i].choices # {} => options[k] \in schema[i].choices \cup {""}
                  /\ schema[i].required => options[k] # ""
  <2> k \in Declared(order)
    BY <1>3
  <2>1. k \in DOMAIN options
    BY DEF Conforms
  <2>2. PICK i \in DOMAIN order :
          /\ order[i].name = k
          /\ order[i].choices # {} => options[k] \in order[i].choices \cup {""}
          /\ order[i].required => options[k] # ""
    BY Zenon DEF Conforms
  <2>3. f[i] \in DOMAIN schema /\ order[i] = schema[f[i]]
    BY <1>2
  <2> QED BY <2>1, <2>2, <2>3
<1> QED BY <1>4 DEF Conforms

\* What SpellingsAgree says of one request and the options made of it.
Agree(user, options) ==
  \A k \in Keys, v \in Values \ Blanks :
    {user[n] : n \in {n \in DOMAIN user : Fold[n] = Fold[k]}} = {v} => Resolve(k, options) \subseteq {v}

\* A value that was supplied in one way only is what every spelling resolves to.
LEMMA MergedAgrees ==
  ASSUME NEW list \in Seq(Option), NEW user, NEW vals \in Choices(list, user)
  PROVE  Agree(user, Merged(list, user, vals))
<1> DEFINE m == Merged(list, user, vals)
<1> SUFFICES ASSUME NEW k \in Keys, NEW v \in Values \ Blanks,
                    {user[n] : n \in {n \in DOMAIN user : Fold[n] = Fold[k]}} = {v}
             PROVE  Resolve(k, m) \subseteq {v}
  BY DEF Agree
<1>1. \A n \in DOMAIN user : Fold[n] = Fold[k] => user[n] = v
  OBVIOUS
<1>2. \E n \in DOMAIN user : Fold[n] = Fold[k]
  OBVIOUS
<1>3. DOMAIN m = Declared(list) \cup DOMAIN user
  BY DEF Merged
<1>4. ASSUME NEW n \in DOMAIN m, Fold[n] = Fold[k]
      PROVE  m[n] = v
  <2>1. CASE n \in Declared(list)
    <3> DEFINE opt == list[Last(list, n)]
               val == vals[Last(list, n)]
    <3>1. opt.name = n /\ val \in Found(opt, user)
      BY <2>1, LastChoice
    <3>2. m[n] = Taken(opt, val)
      BY <2>1 DEF Merged
    <3> HIDE DEF opt, val, m
    <3>3. val = v
      <4>1. CASE n \in DOMAIN user
        BY <1>1, <1>4, <3>1, <4>1 DEF Found
      <4>2. CASE n \notin DOMAIN user
        <5>1. {j \in DOMAIN user : Fold[j] = Fold[opt.name]} # {}
          BY <1>2, <1>4, <3>1
        <5>2. val \in {user[j] : j \in {j \in DOMAIN user : Fold[j] = Fold[opt.name]}}
          BY <3>1, <4>2, <5>1 DEF Found
        <5> QED BY <1>1, <1>4, <3>1, <5>2
      <4> QED BY <4>1, <4>2
    <3> QED BY <3>2, <3>3 DEF Taken
  <2>2. CASE n \notin Declared(list)
    BY <1>1, <1>3, <1>4, <2>2 DEF Merged
  <2> QED BY <2>1, <2>2
<1> HIDE DEF m
<1> QED BY <1>4 DEF Resolve

----------------------------------------------------------------------------
(* Types and references. *)

\* The parts of a step that change rows, one lemma each; what Change adds to them is
\* the counter.
LEMMA OwnersExist == Owners \subseteq projects
<1> DEFINE named == {ProjectOf(body, context) : body, context \in Projects \cup {""}}
<1>1. Owners = named \cap projects
  BY DEF Owners
<1> HIDE DEF named
<1> QED BY <1>1

LEMMA SeenHasType ==
  ASSUME TypeOK, NEW table \in [Jobs -> JobRow \cup {NoRow}]
  PROVE  SeenBy(table) \in [Executions -> SUBSET (JobRow \cup {NoRow})]
<1> SUFFICES ASSUME NEW e \in Executions
             PROVE  (IF enqueue[e].pc = "options" THEN versions[e] \cup {table[enqueue[e].job]}
                     ELSE versions[e]) \in SUBSET (JobRow \cup {NoRow})
  BY DEF SeenBy
<1>1. versions[e] \in SUBSET (JobRow \cup {NoRow})
  BY DEF TypeOK
<1>2. enqueue[e].pc = "options" => enqueue[e].job \in Jobs
  BY DEF TypeOK, Enqueue, Unbegun
<1> QED BY <1>1, <1>2

LEMMA TypeInit == Init => TypeOK
<1> SUFFICES ASSUME Init
             PROVE  TypeOK
  OBVIOUS
<1>1. job \in [Jobs -> JobRow] /\ target \in [Targets -> TargetRow]
  BY WorkspaceAssumption DEF Init
<1>2. PICK s \in Secrets : credential = [c \in Credentials |->
        IF \E t \in Targets : target[t].cred = c
        THEN [cipher |-> [secret |-> s, sealed |-> 0], nonce |-> 0] ELSE NoRow]
  BY DEF Init
<1>3. credential \in [Credentials -> CredentialRow \cup {NoRow, Gone}]
  <2>1. [cipher |-> [secret |-> s, sealed |-> 0], nonce |-> 0] \in CredentialRow
    BY DEF CredentialRow, Cipher
  <2> QED BY <1>2, <2>1
<1>4. ReferencesHold
  <2>1. \A j \in Jobs : job[j].project \in projects
    BY <1>1 DEF Init, JobRow
  <2>2. \A e \in Executions : ~ Exists(execution[e])
    BY DEF Init, Exists
  <2>3. ASSUME NEW t \in Targets
        PROVE  /\ target[t].project \in projects
               /\ target[t].cred # None => Exists(credential[target[t].cred])
    <3>1. target[t] \in TargetRow
      BY <1>1
    <3>2. target[t].project \in projects /\ target[t].cred \in Credentials \cup {None}
      BY <3>1 DEF Init, TargetRow
    <3>3. target[t].cred # None => credential[target[t].cred]
                                     = [cipher |-> [secret |-> s, sealed |-> 0], nonce |-> 0]
      BY <1>2, <3>2
    <3> QED BY <3>2, <3>3 DEF Exists, NoRow, Gone
  <2> QED BY <2>1, <2>2, <2>3 DEF ReferencesHold
<1>5. /\ request \in [Requests -> Request] /\ run \in [Runs -> Run]
      /\ enqueue \in [Executions -> Enqueue \cup {Unbegun}]
      /\ execution \in [Executions -> ExecutionRow \cup {NoRow}]
  BY DEF Init, Request, Run
<1> QED BY <1>1, <1>3, <1>4, <1>5 DEF Init, TypeOK

\* Saving or deleting a job or a target.
LEMMA TypeJobs ==
  ASSUME TypeOK, NEW j \in Jobs,
         \/ \E row \in JobRow : AddJob(j, row) \/ UpdateJob(j, row)
         \/ DeleteJob(j)
  PROVE  TypeOK'
<1>1. PICK r \in JobRow \cup {NoRow} :
        SaveJob(j, r) /\ (Exists(r) => r.project \in projects) /\ changes' = changes + 1
  BY OwnersExist DEF AddJob, UpdateJob, DeleteJob, Change, Exists
<1>2. job' \in [Jobs -> JobRow \cup {NoRow}]
  BY <1>1 DEF SaveJob, TypeOK
<1>3. versions' \in [Executions -> SUBSET (JobRow \cup {NoRow})]
  BY <1>1, <1>2, SeenHasType DEF SaveJob
<1>4. \A i \in Jobs : Exists(job'[i]) => job'[i].project \in projects
  BY <1>1 DEF SaveJob, TypeOK, ReferencesHold
<1>5. UNCHANGED <<projects, target, credential, execution, enqueue, request, run, nonces>>
  BY <1>1 DEF SaveJob, others
<1>6. ReferencesHold'
  BY <1>4, <1>5 DEF TypeOK, ReferencesHold
<1> QED BY <1>1, <1>2, <1>3, <1>5, <1>6 DEF TypeOK

LEMMA TypeTargets ==
  ASSUME TypeOK, NEW t \in Targets,
         (\E row \in TargetRow : WriteTarget(t, row)) \/ DeleteTarget(t)
  PROVE  TypeOK'
<1>1. PICK r \in TargetRow \cup {NoRow} :
        /\ SaveTarget(t, r) /\ changes' = changes + 1
        /\ Exists(r) => /\ r.project \in projects
                        /\ r.cred # None => Exists(credential[r.cred])
  BY OwnersExist DEF WriteTarget, DeleteTarget, Change, Exists
<1>2. target' \in [Targets -> TargetRow \cup {NoRow}]
  BY <1>1 DEF SaveTarget, TypeOK
<1>3. \A u \in Targets : Exists(target'[u]) =>
        /\ target'[u].project \in projects
        /\ target'[u].cred # None => Exists(credential[target'[u].cred])
  BY <1>1 DEF SaveTarget, TypeOK, ReferencesHold
<1> QED BY <1>1, <1>2, <1>3 DEF SaveTarget, others, TypeOK, ReferencesHold

LEMMA TypeProjects ==
  ASSUME TypeOK, NEW p \in Projects, CreateProject(p) \/ DeleteProject(p)
  PROVE  TypeOK'
<1>1. CASE CreateProject(p)
  BY <1>1 DEF CreateProject, Change, others, TypeOK, ReferencesHold
<1>2. CASE DeleteProject(p)
  <2>1. /\ job' \in [Jobs -> JobRow \cup {NoRow}]
        /\ target' \in [Targets -> TargetRow \cup {NoRow}]
        /\ execution' \in [Executions -> ExecutionRow \cup {NoRow}]
    BY <1>2 DEF DeleteProject, Cascade, Without, TypeOK
  <2>2. versions' \in [Executions -> SUBSET (JobRow \cup {NoRow})]
    BY <1>2, <2>1, SeenHasType DEF DeleteProject, Cascade
  <2>3. ~ Exists(NoRow)
    BY DEF Exists
  <2>4. \A j \in Jobs : Exists(job'[j]) => job'[j] = job[j] /\ job[j].project # p
    BY <1>2, <2>3 DEF DeleteProject, Cascade, Without, TypeOK
  <2>5. \A t \in Targets : Exists(target'[t]) => target'[t] = target[t] /\ target[t].project # p
    BY <1>2, <2>3 DEF DeleteProject, Cascade, Without, TypeOK
  <2>6. \A e \in Executions :
          Exists(execution'[e]) => execution'[e] = execution[e] /\ execution[e].project # p
    BY <1>2, <2>3 DEF DeleteProject, Cascade, Without, TypeOK
  <2>7. ReferencesHold'
    BY <1>2, <2>4, <2>5, <2>6 DEF DeleteProject, Cascade, TypeOK, ReferencesHold
  <2> QED BY <1>2, <2>1, <2>2, <2>7 DEF DeleteProject, Cascade, Change, others, TypeOK
<1> QED BY <1>1, <1>2

\* The steps of an enqueue.
LEMMA TypeEnqueue ==
  ASSUME TypeOK, NEW e \in Executions, EnqueueExecution(e)
  PROVE  TypeOK'
<1>1. <<>> \in Maps
  <2>1. {} \in SUBSET Keys /\ <<>> \in [{} -> Values]
    OBVIOUS
  <2> QED BY <2>1 DEF Maps
<1>2. ASSUME NEW next \in Enqueue, Advance(e, next), UNCHANGED <<projects, job, target, credential>>,
             execution' \in [Executions -> ExecutionRow \cup {NoRow}],
             versions' \in [Executions -> SUBSET (JobRow \cup {NoRow})],
             \A x \in Executions : Exists(execution'[x]) => execution'[x].project \in projects
      PROVE  TypeOK'
  <2>1. enqueue' \in [Executions -> Enqueue \cup {Unbegun}]
    BY <1>2 DEF Advance, TypeOK
  <2>2. ReferencesHold'
    BY <1>2 DEF TypeOK, ReferencesHold
  <2> QED BY <1>2, <2>1, <2>2 DEF Advance, TypeOK
<1>3. ASSUME NEW next \in Enqueue, Advance(e, next), UNCHANGED <<tables, versions>>
      PROVE  TypeOK'
  BY <1>2, <1>3 DEF tables, TypeOK, ReferencesHold
<1>4. ASSUME NEW j \in Jobs, NEW user \in Supplied, ReadJob(e, j, user)
      PROVE  TypeOK'
  <2>1. job[j] \in JobRow
    BY <1>4 DEF ReadJob, TypeOK, Exists
  <2>2. [pc |-> "options", job |-> j, user |-> user, project |-> job[j].project,
         filter |-> job[j].filter, options |-> <<>>, unread |-> FALSE, targets |-> {}] \in Enqueue
    BY <1>1, <2>1 DEF Enqueue, JobRow
  <2>3. versions' \in [Executions -> SUBSET (JobRow \cup {NoRow})]
    BY <1>4, <2>1 DEF ReadJob, TypeOK
  <2> QED BY <1>2, <1>4, <2>2, <2>3 DEF ReadJob, tables, TypeOK, ReferencesHold
<1>5. ASSUME ReadOptions(e)
      PROVE  TypeOK'
  <2>1. enqueue[e] \in Enqueue
    BY <1>5 DEF ReadOptions, TypeOK, Unbegun
  <2> DEFINE row == job[enqueue[e].job]
             schema == IF Exists(row) THEN List[row.options] ELSE <<>>
  <2>2. schema \in Seq(Option)
    <3>1. <<>> \in Seq(Option)
      OBVIOUS
    <3>2. row \in JobRow \cup {NoRow}
      BY <2>1 DEF Enqueue, TypeOK
    <3>3. Exists(row) => row.options \in Schemas
      BY <3>2 DEF Exists, JobRow
    <3> HIDE DEF row
    <3> QED BY <3>1, <3>3, WorkspaceAssumption
  <2>3. PICK order \in Orders(schema), n \in 0 .. Len(schema) :
          \E vals \in Choices(SubSeq(order, 1, n), enqueue[e].user) :
            Advance(e, Checked(e, SubSeq(order, 1, n), vals, n < Len(schema)))
    BY <1>5 DEF ReadOptions
  <2> DEFINE list == SubSeq(order, 1, n)
  <2> HIDE DEF schema
  <2>4. list \in Seq(Option)
    BY <2>2, OrderIsList
  <2> HIDE DEF list
  <2>5. PICK vals \in Choices(list, enqueue[e].user) :
          Advance(e, Checked(e, list, vals, n < Len(schema)))
    BY <2>3 DEF list
  <2>6. enqueue[e].user \in Maps
    BY <2>1, WorkspaceAssumption DEF Enqueue
  <2> DEFINE unread == n < Len(schema)
             pc == IF \A i \in DOMAIN list : Accepted(list[i], vals[i]) THEN "targets" ELSE "refused"
             merged == Merged(list, enqueue[e].user, vals)
             next == [enqueue[e] EXCEPT !.pc = pc, !.options = merged, !.unread = unread]
  <2>7. merged \in Maps /\ pc \in {"targets", "refused"} /\ unread \in BOOLEAN
    BY <2>4, <2>6, MergedIsMap
  <2>8. Advance(e, next)
    BY <2>5 DEF Checked
  <2> HIDE DEF merged, pc, unread
  <2>9. next \in Enqueue
    BY <2>1, <2>7 DEF Enqueue
  <2> HIDE DEF next
  <2> QED BY <1>3, <1>5, <2>8, <2>9 DEF ReadOptions
<1>6. ASSUME MatchTargets(e)
      PROVE  TypeOK'
  <2>1. enqueue[e] \in Enqueue
    BY <1>6 DEF MatchTargets, TypeOK, Unbegun
  <2>2. Matching(enqueue[e].filter) \in SUBSET Targets
    BY DEF Matching
  <2>3. [enqueue[e] EXCEPT
           !.pc = IF Matching(enqueue[e].filter) = {} THEN "refused" ELSE "create",
           !.targets = Matching(enqueue[e].filter)] \in Enqueue
    BY <2>1, <2>2 DEF Enqueue
  <2> QED BY <1>3, <1>6, <2>3 DEF MatchTargets
<1>7. ASSUME CreateExecution(e)
      PROVE  TypeOK'
  <2>1. enqueue[e] \in Enqueue
    BY <1>7 DEF CreateExecution, TypeOK, Unbegun
  <2>2. [enqueue[e] EXCEPT !.pc = "created"] \in Enqueue
    BY <2>1 DEF Enqueue
  <2> DEFINE row == [project |-> "default", job |-> enqueue[e].job,
                     options |-> enqueue[e].options, targets |-> enqueue[e].targets]
  <2>3. row \in ExecutionRow
    BY <2>1, WorkspaceAssumption DEF Enqueue, ExecutionRow
  <2>4. execution' = [execution EXCEPT ![e] = row] /\ row.project \in projects
    BY <1>7 DEF CreateExecution
  <2> HIDE DEF row
  <2>5. execution' \in [Executions -> ExecutionRow \cup {NoRow}]
    BY <2>3, <2>4 DEF TypeOK
  <2>6. \A x \in Executions : Exists(execution'[x]) => execution'[x].project \in projects
    BY <2>4 DEF TypeOK, ReferencesHold
  <2> QED BY <1>2, <1>7, <2>2, <2>5, <2>6 DEF CreateExecution, TypeOK
<1>8. ASSUME EnqueueFails(e)
      PROVE  TypeOK'
  <2>1. enqueue[e] \in Enqueue
    BY <1>8 DEF EnqueueFails, TypeOK, Unbegun
  <2>2. [enqueue[e] EXCEPT !.pc = "refused"] \in Enqueue
    BY <2>1 DEF Enqueue
  <2> QED BY <1>3, <1>8, <2>2 DEF EnqueueFails
<1> QED BY <1>4, <1>5, <1>6, <1>7, <1>8 DEF EnqueueExecution

\* The changes of credentials.
LEMMA EncryptsCredential ==
  ASSUME TypeOK, NEW secret \in Secrets
  PROVE  Encrypt(secret) \in CredentialRow
<1>1. nonces \in Nat
  BY DEF TypeOK
<1> QED BY <1>1 DEF Encrypt, CredentialRow, Cipher

LEMMA CountersGrow ==
  ASSUME TypeOK, Change, nonces' \in {nonces, nonces + 1}
  PROVE  nonces' \in Nat /\ changes' \in Nat
<1>1. nonces \in Nat /\ changes \in Nat
  BY DEF TypeOK
<1> QED BY <1>1 DEF Change

\* A row that exists is neither of the other two.
LEMMA RowsExist ==
  /\ \A row \in CredentialRow : Exists(row)
  /\ ~ Exists(NoRow) /\ ~ Exists(Gone)
BY DEF CredentialRow, Exists, NoRow, Gone

LEMMA TypeCredentials ==
  ASSUME TypeOK, ChangeCredentials
  PROVE  TypeOK'
<1>1. ASSUME NEW c \in Credentials, NEW secret \in Secrets, CreateCredential(c, secret)
      PROVE  TypeOK'
  <2>1. credential' \in [Credentials -> CredentialRow \cup {NoRow, Gone}]
    BY <1>1, EncryptsCredential DEF CreateCredential, TypeOK
  <2>2. \A d \in Credentials : Exists(credential[d]) => Exists(credential'[d])
    BY <1>1, EncryptsCredential, RowsExist DEF CreateCredential, TypeOK
  <2>3. ReferencesHold'
    <3>1. \A t \in Targets : Exists(target[t]) => target[t].cred \in Credentials \cup {None}
      BY DEF TypeOK, TargetRow, Exists
    <3> QED BY <1>1, <2>2, <3>1 DEF CreateCredential, TypeOK, ReferencesHold
  <2> QED BY <1>1, <2>1, <2>3 DEF CreateCredential, Change, TypeOK
<1>2. ASSUME NEW q \in Requests, NEW c \in Credentials, NEW payload \in Secrets \cup {""},
             BeginUpdate(q, c, payload)
      PROVE  TypeOK'
  <2> DEFINE to == IF payload # "" THEN Encrypt(payload) ELSE credential[c]
             next == [pc |-> "write", cred |-> c, rotates |-> payload # "",
                      overtaken |-> FALSE, to |-> to]
  <2>1. to \in CredentialRow
    BY <1>2, EncryptsCredential DEF BeginUpdate, TypeOK, Exists
  <2>2. request' = [request EXCEPT ![q] = next]
    BY <1>2 DEF BeginUpdate
  <2> HIDE DEF to
  <2>3. next \in Request
    BY <2>1 DEF Request
  <2> HIDE DEF next
  <2>4. request' \in [Requests -> Request]
    BY <2>2, <2>3 DEF TypeOK
  <2>5. nonces' \in Nat /\ changes' \in Nat
    <3>1. Change /\ nonces' \in {nonces, nonces + 1}
      BY <1>2 DEF BeginUpdate
    <3> QED BY <3>1, CountersGrow
  <2>6. ReferencesHold'
    BY <1>2 DEF BeginUpdate, tables, TypeOK, ReferencesHold
  <2> QED BY <1>2, <2>4, <2>5, <2>6 DEF BeginUpdate, tables, TypeOK
<1>3. ASSUME NEW q \in Requests, WriteCredential(q)
      PROVE  TypeOK'
  <2>1. request[q].cred \in Credentials /\ request[q].to \in CredentialRow
    BY <1>3 DEF WriteCredential, TypeOK, Request, Idle
  <2>2. credential' \in [Credentials -> CredentialRow \cup {NoRow, Gone}]
    BY <1>3, <2>1 DEF WriteCredential, TypeOK
  <2>3. \A d \in Credentials : Exists(credential[d]) => Exists(credential'[d])
    BY <1>3, <2>1, RowsExist DEF WriteCredential, TypeOK
  <2>4. request' \in [Requests -> Request]
    <3> SUFFICES ASSUME NEW p \in Requests
                 PROVE  (IF p = q THEN Idle
                         ELSE IF request[p].pc = "write"
                                 /\ credential'[request[p].cred] # credential[request[p].cred]
                              THEN [request[p] EXCEPT !.overtaken = TRUE]
                              ELSE request[p]) \in Request
      BY <1>3 DEF WriteCredential, Done
    <3>1. request[p] \in Request /\ Idle \in Request
      BY DEF TypeOK, Request
    <3>2. request[p].pc = "write" => [request[p] EXCEPT !.overtaken = TRUE] \in Request
      BY <3>1 DEF Request, Idle
    <3> QED BY <3>1, <3>2
  <2>5. ReferencesHold'
    <3>1. \A t \in Targets : Exists(target[t]) => target[t].cred \in Credentials \cup {None}
      BY DEF TypeOK, TargetRow, Exists
    <3> QED BY <1>3, <2>3, <3>1 DEF WriteCredential, TypeOK, ReferencesHold
  <2> QED BY <1>3, <2>2, <2>4, <2>5 DEF WriteCredential, TypeOK
<1>4. ASSUME NEW q \in Requests, AbandonUpdate(q)
      PROVE  TypeOK'
  <2>1. request' \in [Requests -> Request]
    BY <1>4 DEF AbandonUpdate, TypeOK, Request
  <2>2. ReferencesHold'
    BY <1>4 DEF AbandonUpdate, tables, TypeOK, ReferencesHold
  <2> QED BY <1>4, <2>1, <2>2 DEF AbandonUpdate, tables, TypeOK
<1>5. ASSUME NEW c \in Credentials, DeleteCredential(c)
      PROVE  TypeOK'
  <2>1. credential' \in [Credentials -> CredentialRow \cup {NoRow, Gone}]
    BY <1>5 DEF DeleteCredential, TypeOK
  <2>2. ASSUME NEW t \in Targets
        PROVE  /\ target'[t] \in TargetRow \cup {NoRow}
               /\ Exists(target'[t]) =>
                    /\ Exists(target[t]) /\ target'[t].project = target[t].project
                    /\ target'[t].cred # None => target'[t].cred = target[t].cred
                                                 /\ target'[t].cred # c
    <3>1. target'[t] = IF Exists(target[t]) /\ target[t].cred = c
                       THEN [target[t] EXCEPT !.cred = None] ELSE target[t]
      BY <1>5 DEF DeleteCredential
    <3>2. target[t] \in TargetRow \cup {NoRow}
      BY DEF TypeOK
    <3>3. CASE Exists(target[t]) /\ target[t].cred = c
      BY <3>1, <3>2, <3>3 DEF Exists, TargetRow
    <3>4. CASE ~ (Exists(target[t]) /\ target[t].cred = c)
      BY <3>1, <3>2, <3>4
    <3> QED BY <3>3, <3>4
  <2>3. target' \in [Targets -> TargetRow \cup {NoRow}]
    BY <1>5, <2>2 DEF DeleteCredential
  <2>4. \A d \in Credentials : d # c => credential'[d] = credential[d]
    BY <1>5 DEF DeleteCredential, TypeOK
  <2>5. \A t \in Targets : Exists(target[t]) => target[t].cred \in Credentials \cup {None}
    BY DEF TypeOK, TargetRow, Exists
  <2>6. ReferencesHold'
    BY <1>5, <2>2, <2>4, <2>5 DEF DeleteCredential, TypeOK, ReferencesHold
  <2> QED BY <1>5, <2>1, <2>3, <2>6 DEF DeleteCredential, Change, TypeOK
<1> QED BY <1>1, <1>2, <1>3, <1>4, <1>5 DEF ChangeCredentials

\* The steps of a run.
LEMMA TypeRun ==
  ASSUME TypeOK, NEW r \in Runs, RunTarget(r)
  PROVE  TypeOK'
<1>1. ASSUME NEW next \in Run, Running(r, next)
      PROVE  TypeOK'
  <2>1. ReferencesHold'
    BY <1>1 DEF Running, tables, TypeOK, ReferencesHold
  <2> QED BY <1>1, <2>1 DEF Running, tables, TypeOK
<1>2. ASSUME NEW t \in Targets, ReadTarget(r, t)
      PROVE  TypeOK'
  <2>1. [pc |-> "steps", cred |-> target[t].cred, auth |-> "none"] \in Run
    BY <1>2 DEF ReadTarget, TypeOK, TargetRow, Exists, Run
  <2> QED BY <1>1, <1>2, <2>1 DEF ReadTarget
<1>3. ASSUME ResolveCredential(r)
      PROVE  TypeOK'
  <2> DEFINE c == run[r].cred
             auth == CASE c = None -> "key_path"
                       [] c # None /\ ~ Exists(credential[c]) -> "missing"
                       [] c # None /\ Exists(credential[c]) ->
                            IF Decrypts(credential[c]) THEN "secret" ELSE "undecryptable"
  <2>1. Running(r, [run[r] EXCEPT !.auth = auth])
    BY <1>3 DEF ResolveCredential
  <2>2. auth \in {"key_path", "secret", "missing", "undecryptable"}
    OBVIOUS
  <2> HIDE DEF auth
  <2>3. [run[r] EXCEPT !.auth = auth] \in Run
    BY <1>3, <2>2 DEF ResolveCredential, TypeOK, Run, Idle
  <2> QED BY <1>1, <2>1, <2>3
<1>4. ASSUME EndRun(r)
      PROVE  TypeOK'
  BY <1>1, <1>4 DEF EndRun, Run
<1> QED BY <1>2, <1>3, <1>4 DEF RunTarget

LEMMA TypeStep == TypeOK /\ [Next]_vars => TypeOK'
<1> SUFFICES ASSUME TypeOK, [Next]_vars
             PROVE  TypeOK'
  OBVIOUS
<1>1. CASE ChangeRows
  BY <1>1, TypeJobs, TypeTargets, TypeProjects DEF ChangeRows
<1>2. CASE \E e \in Executions : EnqueueExecution(e)
  BY <1>2, TypeEnqueue
<1>3. CASE ChangeCredentials
  BY <1>3, TypeCredentials
<1>4. CASE \E r \in Runs : RunTarget(r)
  BY <1>4, TypeRun
<1>5. CASE UNCHANGED vars
  BY <1>5 DEF vars, tables, TypeOK, ReferencesHold
<1> QED BY <1>1, <1>2, <1>3, <1>4, <1>5 DEF Next

\* Every reference between rows leads to a row: saving checks it, the deletion of a
\* project or a credential follows it (migrations 000005 and 000007).
THEOREM TypeCorrect == Spec => []TypeOK
<1> QED BY TypeInit, TypeStep, PTL DEF Spec

-----------------------------------------------------------------------------
(* Enqueues: what one promises about the execution it creates, whatever is changed  *)
(* while it reads.                                                                 *)

\* The row of an execution is in "default", with the options its enqueue has merged.
RecordOf(e) ==
  Exists(execution[e]) =>
    /\ execution[e].project = "default" /\ execution[e].options = enqueue[e].options
    /\ enqueue[e].pc = "created"

\* The versions of the job are those the enqueue may have read.
FilterOf(e) ==
  enqueue[e].pc \in {"options", "targets", "create", "created"} =>
    \E v \in versions[e] : enqueue[e].filter = v.filter

Watched(e) == enqueue[e].pc = "options" => job[enqueue[e].job] \in versions[e]

\* What holds of the options once they are merged.
OptionsOf(e) ==
  enqueue[e].pc \in {"targets", "create", "created"} =>
    /\ Agree(enqueue[e].user, enqueue[e].options)
    /\ ~ enqueue[e].unread /\ NoRow \notin versions[e] =>
         \E v \in versions[e] : Conforms(enqueue[e].options, List[v.options])

EnqueueInv ==
  /\ TypeOK
  /\ \A e \in Executions : RecordOf(e) /\ FilterOf(e) /\ Watched(e) /\ OptionsOf(e)

----------------------------------------------------------------------------
LEMMA EnqueueInit == Init => EnqueueInv
<1> SUFFICES ASSUME Init
             PROVE  EnqueueInv
  OBVIOUS
<1>1. \A e \in Executions : enqueue[e].pc = "unbegun" /\ ~ Exists(execution[e])
  BY DEF Init, Unbegun, Exists
<1> QED BY <1>1, TypeInit DEF EnqueueInv, RecordOf, FilterOf, Watched, OptionsOf

\* A step that leaves the rows of executions and jobs and the enqueues alone.
LEMMA EnqueueUntouched ==
  ASSUME EnqueueInv, UNCHANGED <<job, execution, enqueue, versions>>
  PROVE  \A e \in Executions : (RecordOf(e) /\ FilterOf(e) /\ Watched(e) /\ OptionsOf(e))'
BY DEF EnqueueInv, RecordOf, FilterOf, Watched, OptionsOf

\* A step that changes jobs adds what they become to what enqueues may read.
LEMMA EnqueueSeesJobs ==
  ASSUME EnqueueInv, UNCHANGED <<execution, enqueue>>, versions' = SeenBy(job')
  PROVE  \A e \in Executions : (RecordOf(e) /\ FilterOf(e) /\ Watched(e) /\ OptionsOf(e))'
<1> SUFFICES ASSUME NEW e \in Executions
             PROVE  (RecordOf(e) /\ FilterOf(e) /\ Watched(e) /\ OptionsOf(e))'
  OBVIOUS
<1>1. RecordOf(e) /\ FilterOf(e) /\ Watched(e) /\ OptionsOf(e)
  BY DEF EnqueueInv
<1>2. versions'[e] = IF enqueue[e].pc = "options" THEN versions[e] \cup {job'[enqueue[e].job]}
                     ELSE versions[e]
  BY DEF SeenBy
<1>3. RecordOf(e)'
  BY <1>1 DEF RecordOf
<1>4. FilterOf(e)' /\ Watched(e)'
  BY <1>1, <1>2 DEF FilterOf, Watched
<1>5. OptionsOf(e)'
  BY <1>1, <1>2 DEF OptionsOf
<1> QED BY <1>3, <1>4, <1>5

\* Only a project other than "default" can be deleted, and no execution is in one.
LEMMA EnqueueRows ==
  ASSUME EnqueueInv, ChangeRows
  PROVE  /\ execution' = execution
         /\ \A e \in Executions : (RecordOf(e) /\ FilterOf(e) /\ Watched(e) /\ OptionsOf(e))'
<1>1. CASE \E j \in Jobs : DeleteJob(j) \/ \E row \in JobRow : AddJob(j, row) \/ UpdateJob(j, row)
  <2>1. UNCHANGED <<execution, enqueue>> /\ versions' = SeenBy(job')
    BY <1>1 DEF AddJob, UpdateJob, DeleteJob, SaveJob, others
  <2> QED BY <2>1, EnqueueSeesJobs
<1>2. CASE \E t \in Targets : DeleteTarget(t) \/ \E row \in TargetRow : WriteTarget(t, row)
  <2>1. UNCHANGED <<job, execution, enqueue, versions>>
    BY <1>2 DEF WriteTarget, DeleteTarget, SaveTarget, others
  <2> QED BY <2>1, EnqueueUntouched
<1>3. ASSUME NEW p \in Projects, CreateProject(p)
      PROVE  UNCHANGED <<job, execution, enqueue, versions>>
  BY <1>3 DEF CreateProject, others
<1>4. ASSUME NEW p \in Projects, DeleteProject(p)
      PROVE  UNCHANGED <<execution, enqueue>> /\ versions' = SeenBy(job')
  <2>1. UNCHANGED enqueue /\ versions' = SeenBy(job') /\ execution' = Without(execution, p)
    BY <1>4 DEF DeleteProject, Cascade, others
  <2>2. \A e \in Executions : Exists(execution[e]) => execution[e].project # p
    BY <1>4 DEF EnqueueInv, RecordOf, DeleteProject
  <2>3. execution \in [Executions -> ExecutionRow \cup {NoRow}]
    BY DEF EnqueueInv, TypeOK
  <2>4. Without(execution, p) = execution
    BY <2>2, <2>3 DEF Without
  <2> QED BY <2>1, <2>4
<1> QED BY <1>1, <1>2, <1>3, <1>4, EnqueueUntouched, EnqueueSeesJobs DEF ChangeRows

\* A step of one enqueue leaves the others as they are.
LEMMA EnqueueAlone ==
  ASSUME EnqueueInv, NEW e \in Executions, NEW next, Advance(e, next),
         NEW x \in Executions, x # e,
         job' = job, execution'[x] = execution[x], versions'[x] = versions[x]
  PROVE  (RecordOf(x) /\ FilterOf(x) /\ Watched(x) /\ OptionsOf(x))'
<1>1. enqueue'[x] = enqueue[x]
  BY DEF Advance, EnqueueInv, TypeOK
<1> QED BY <1>1 DEF EnqueueInv, RecordOf, FilterOf, Watched, OptionsOf

LEMMA JobsExist == \A row \in JobRow : Exists(row)
BY DEF JobRow, Exists, NoRow, Gone

LEMMA EnqueueSteps ==
  ASSUME EnqueueInv, NEW e \in Executions, EnqueueExecution(e)
  PROVE  \A x \in Executions : (RecordOf(x) /\ FilterOf(x) /\ Watched(x) /\ OptionsOf(x))'
<1>0. /\ RecordOf(e) /\ FilterOf(e) /\ Watched(e) /\ OptionsOf(e)
      /\ enqueue \in [Executions -> Enqueue \cup {Unbegun}]
      /\ execution \in [Executions -> ExecutionRow \cup {NoRow}]
      /\ versions \in [Executions -> SUBSET (JobRow \cup {NoRow})]
      /\ job \in [Jobs -> JobRow \cup {NoRow}]
  BY DEF EnqueueInv, TypeOK
<1>1. ASSUME NEW j \in Jobs, NEW user \in Supplied, ReadJob(e, j, user)
      PROVE  \A x \in Executions : (RecordOf(x) /\ FilterOf(x) /\ Watched(x) /\ OptionsOf(x))'
  <2> DEFINE next == [pc |-> "options", job |-> j, user |-> user, project |-> job[j].project,
                      filter |-> job[j].filter, options |-> <<>>, unread |-> FALSE, targets |-> {}]
  <2>1. /\ Advance(e, next) /\ UNCHANGED <<job, execution>>
        /\ versions' = [versions EXCEPT ![e] = {job[j]}]
        /\ enqueue[e].pc = "unbegun"
    BY <1>1 DEF ReadJob, tables
  <2>2. enqueue'[e] = next /\ versions'[e] = {job[j]}
    BY <1>0, <2>1 DEF Advance
  <2>3. RecordOf(e)'
    BY <1>0, <2>1 DEF RecordOf
  <2>4. FilterOf(e)' /\ Watched(e)' /\ OptionsOf(e)'
    BY <2>1, <2>2 DEF FilterOf, Watched, OptionsOf
  <2>5. \A x \in Executions : x # e => versions'[x] = versions[x]
    BY <1>0, <2>1
  <2> HIDE DEF next
  <2> QED BY <2>1, <2>3, <2>4, <2>5, EnqueueAlone
<1>2. ASSUME NEW next, Advance(e, next), UNCHANGED <<job, execution, versions>>,
             enqueue[e].pc # "created", (FilterOf(e) /\ Watched(e) /\ OptionsOf(e))'
      PROVE  \A x \in Executions : (RecordOf(x) /\ FilterOf(x) /\ Watched(x) /\ OptionsOf(x))'
  <2>1. RecordOf(e)'
    BY <1>0, <1>2 DEF RecordOf
  <2> QED BY <1>2, <2>1, EnqueueAlone
<1>3. ASSUME ReadOptions(e)
      PROVE  \A x \in Executions : (RecordOf(x) /\ FilterOf(x) /\ Watched(x) /\ OptionsOf(x))'
  <2>1. enqueue[e] \in Enqueue /\ enqueue[e].pc = "options"
    BY <1>0, <1>3 DEF ReadOptions, Unbegun
  <2> DEFINE row == job[enqueue[e].job]
             schema == IF Exists(row) THEN List[row.options] ELSE <<>>
  <2>2. row \in JobRow \cup {NoRow} /\ row \in versions[e]
    BY <1>0, <2>1 DEF Enqueue, Watched
  <2>3. schema \in Seq(Option)
    <3>1. <<>> \in Seq(Option)
      OBVIOUS
    <3>2. Exists(row) => row.options \in Schemas
      BY <2>2 DEF Exists, JobRow
    <3> HIDE DEF row
    <3> QED BY <3>1, <3>2, WorkspaceAssumption
  <2>4. NoRow \notin versions[e] => schema = List[row.options]
    <3>1. row # NoRow => Exists(row)
      BY <2>2, JobsExist
    <3> HIDE DEF row
    <3> QED BY <2>2, <3>1
  <2>5. PICK order \in Orders(schema), n \in 0 .. Len(schema) :
          \E vals \in Choices(SubSeq(order, 1, n), enqueue[e].user) :
            Advance(e, Checked(e, SubSeq(order, 1, n), vals, n < Len(schema)))
    BY <1>3 DEF ReadOptions
  <2> DEFINE list == SubSeq(order, 1, n)
             unread == n < Len(schema)
  <2> HIDE DEF schema
  <2>6. list \in Seq(Option) /\ (~ unread => list = order)
    <3>1. ~ unread => n = Len(schema)
      BY <2>3
    <3> QED BY <2>3, <3>1, OrderIsList
  <2> HIDE DEF list
  <2>7. PICK vals \in Choices(list, enqueue[e].user) :
          Advance(e, Checked(e, list, vals, unread))
    BY <2>5 DEF list
  <2> DEFINE pc == IF \A i \in DOMAIN list : Accepted(list[i], vals[i]) THEN "targets" ELSE "refused"
             merged == Merged(list, enqueue[e].user, vals)
             next == [enqueue[e] EXCEPT !.pc = pc, !.options = merged, !.unread = unread]
  <2>8. Agree(enqueue[e].user, merged)
    BY <2>6, MergedAgrees
  <2>9. pc = "targets" /\ ~ unread => Conforms(merged, schema)
    <3>1. pc = "targets" => \A i \in DOMAIN list : Accepted(list[i], vals[i])
      OBVIOUS
    <3> HIDE DEF pc, unread
    <3>2. pc = "targets" => Conforms(merged, list)
      BY <2>6, <3>1, MergedConforms
    <3> HIDE DEF merged
    <3> QED BY <2>3, <2>6, <3>2, ConformsInOrder
  <2>10. pc \in {"targets", "refused"}
    OBVIOUS
  <2>11. Advance(e, next)
    BY <2>7 DEF Checked
  <2> HIDE DEF pc, merged, unread
  <2>12. enqueue'[e] = next
    BY <1>0, <2>11 DEF Advance
  <2>13. /\ next.pc = pc /\ next.options = merged /\ next.unread = unread
         /\ next.user = enqueue[e].user /\ next.filter = enqueue[e].filter
    BY <2>1 DEF Enqueue
  <2> HIDE DEF next, row
  <2>14. UNCHANGED <<job, execution, versions>>
    BY <1>3 DEF ReadOptions, tables
  <2>15. FilterOf(e)' /\ Watched(e)'
    BY <1>0, <2>1, <2>10, <2>12, <2>13, <2>14 DEF FilterOf, Watched
  <2>16. OptionsOf(e)'
    BY <2>2, <2>4, <2>8, <2>9, <2>10, <2>12, <2>13, <2>14 DEF OptionsOf
  <2> QED BY <1>2, <2>1, <2>11, <2>14, <2>15, <2>16
<1>4. ASSUME MatchTargets(e) \/ EnqueueFails(e)
      PROVE  \A x \in Executions : (RecordOf(x) /\ FilterOf(x) /\ Watched(x) /\ OptionsOf(x))'
  <2>1. enqueue[e] \in Enqueue /\ enqueue[e].pc \in {"options", "targets", "create"}
    BY <1>0, <1>4 DEF MatchTargets, EnqueueFails, Unbegun
  <2>2. PICK next : /\ Advance(e, next) /\ next.pc \in {"create", "refused"}
                    /\ next.pc = "create" => enqueue[e].pc = "targets"
                    /\ next.user = enqueue[e].user /\ next.options = enqueue[e].options
                    /\ next.unread = enqueue[e].unread /\ next.filter = enqueue[e].filter
    <3>1. CASE MatchTargets(e)
      <4> DEFINE pc == IF Matching(enqueue[e].filter) = {} THEN "refused" ELSE "create"
                 next == [enqueue[e] EXCEPT !.pc = pc, !.targets = Matching(enqueue[e].filter)]
      <4>1. Advance(e, next) /\ enqueue[e].pc = "targets"
        BY <3>1 DEF MatchTargets
      <4>2. pc \in {"create", "refused"}
        OBVIOUS
      <4> HIDE DEF pc
      <4>3. /\ next.pc = pc /\ next.user = enqueue[e].user /\ next.options = enqueue[e].options
            /\ next.unread = enqueue[e].unread /\ next.filter = enqueue[e].filter
        BY <2>1 DEF Enqueue
      <4> HIDE DEF next
      <4> QED BY <4>1, <4>2, <4>3
    <3>2. CASE EnqueueFails(e)
      <4> DEFINE next == [enqueue[e] EXCEPT !.pc = "refused"]
      <4>1. Advance(e, next)
        BY <3>2 DEF EnqueueFails
      <4>2. /\ next.pc = "refused" /\ next.user = enqueue[e].user
            /\ next.options = enqueue[e].options
            /\ next.unread = enqueue[e].unread /\ next.filter = enqueue[e].filter
        BY <2>1 DEF Enqueue
      <4> HIDE DEF next
      <4> QED BY <4>1, <4>2
    <3> QED BY <1>4, <3>1, <3>2
  <2>3. enqueue'[e] = next
    BY <1>0, <2>2 DEF Advance
  <2>4. UNCHANGED <<job, execution, versions>>
    BY <1>4 DEF MatchTargets, EnqueueFails, tables
  <2>5. (FilterOf(e) /\ Watched(e) /\ OptionsOf(e))'
    BY <1>0, <2>2, <2>3, <2>4 DEF FilterOf, Watched, OptionsOf
  <2> QED BY <1>2, <2>1, <2>2, <2>4, <2>5
<1>5. ASSUME CreateExecution(e)
      PROVE  \A x \in Executions : (RecordOf(x) /\ FilterOf(x) /\ Watched(x) /\ OptionsOf(x))'
  <2>1. enqueue[e] \in Enqueue /\ enqueue[e].pc = "create"
    BY <1>0, <1>5 DEF CreateExecution, Unbegun
  <2>2. PICK next : /\ Advance(e, next) /\ next.pc = "created"
                    /\ next.user = enqueue[e].user /\ next.options = enqueue[e].options
                    /\ next.unread = enqueue[e].unread /\ next.filter = enqueue[e].filter
    BY <1>5, <2>1 DEF CreateExecution, Enqueue
  <2>3. enqueue'[e] = next
    BY <1>0, <2>2 DEF Advance
  <2>4. UNCHANGED <<job, versions>>
    BY <1>5 DEF CreateExecution
  <2>5. /\ execution'[e] = [project |-> "default", job |-> enqueue[e].job,
                            options |-> enqueue[e].options, targets |-> enqueue[e].targets]
        /\ \A x \in Executions : x # e => execution'[x] = execution[x]
    BY <1>0, <1>5 DEF CreateExecution
  <2>6. (RecordOf(e) /\ FilterOf(e) /\ Watched(e) /\ OptionsOf(e))'
    <3>1. RecordOf(e)'
      BY <2>2, <2>3, <2>5 DEF RecordOf
    <3>2. FilterOf(e)' /\ Watched(e)' /\ OptionsOf(e)'
      BY <1>0, <2>1, <2>2, <2>3, <2>4 DEF FilterOf, Watched, OptionsOf
    <3> QED BY <3>1, <3>2
  <2> QED BY <2>2, <2>4, <2>5, <2>6, EnqueueAlone
<1> QED BY <1>1, <1>3, <1>4, <1>5 DEF EnqueueExecution

LEMMA EnqueueInductive == EnqueueInv /\ [Next]_vars => EnqueueInv'
<1> SUFFICES ASSUME EnqueueInv, [Next]_vars
             PROVE  EnqueueInv'
  OBVIOUS
<1>1. TypeOK'
  BY TypeStep DEF EnqueueInv
<1>2. \A e \in Executions : (RecordOf(e) /\ FilterOf(e) /\ Watched(e) /\ OptionsOf(e))'
  <2>1. CASE ChangeRows
    BY <2>1, EnqueueRows
  <2>2. CASE \E e \in Executions : EnqueueExecution(e)
    BY <2>2, EnqueueSteps
  <2>3. CASE ChangeCredentials \/ (\E r \in Runs : RunTarget(r)) \/ UNCHANGED vars
    <3>1. UNCHANGED <<job, execution, enqueue, versions>>
      <4>1. CASE ChangeCredentials
        BY <4>1 DEF ChangeCredentials, CreateCredential, BeginUpdate, WriteCredential,
                    AbandonUpdate, DeleteCredential, tables
      <4>2. CASE \E r \in Runs : RunTarget(r)
        BY <4>2 DEF RunTarget, ReadTarget, ResolveCredential, EndRun, Running, tables
      <4> QED BY <2>3, <4>1, <4>2 DEF vars, tables
    <3> QED BY <3>1, EnqueueUntouched
  <2> QED BY <2>1, <2>2, <2>3 DEF Next
<1> QED BY <1>1, <1>2 DEF EnqueueInv

----------------------------------------------------------------------------
(* Theorems. *)

\* A step changes no row of an execution: the deletion of a project cannot reach it,
\* and an enqueue only creates its own.
LEMMA StepKeepsExecutions ==
  ASSUME EnqueueInv, [Next]_vars, NEW e \in Executions, Exists(execution[e])
  PROVE  execution'[e] = execution[e]
<1>1. CASE ChangeRows
  BY <1>1, EnqueueRows
<1>2. ASSUME NEW x \in Executions, EnqueueExecution(x)
      PROVE  execution'[e] = execution[e]
  <2>1. CASE CreateExecution(x)
    <3>1. enqueue[e].pc = "created" /\ enqueue[x].pc = "create"
      BY <2>1 DEF CreateExecution, EnqueueInv, RecordOf
    <3> QED BY <2>1, <3>1 DEF CreateExecution, EnqueueInv, TypeOK
  <2>2. CASE ~ CreateExecution(x)
    BY <1>2, <2>2 DEF EnqueueExecution, ReadJob, ReadOptions, MatchTargets, EnqueueFails, tables
  <2> QED BY <2>1, <2>2
<1>3. CASE ChangeCredentials
  BY <1>3 DEF ChangeCredentials, CreateCredential, BeginUpdate, WriteCredential,
              AbandonUpdate, DeleteCredential, tables
<1>4. CASE \E r \in Runs : RunTarget(r)
  BY <1>4 DEF RunTarget, ReadTarget, ResolveCredential, EndRun, Running, tables
<1>5. CASE UNCHANGED vars
  BY <1>5 DEF vars, tables
<1> QED BY <1>1, <1>2, <1>3, <1>4, <1>5 DEF Next

\* No change of the workspace removes or rewrites the row of an execution: each is in
\* "default", which cannot be deleted (postgres.go:92-105, 528-531).
THEOREM ExecutionsAreKept == Spec => ExecutionsKept
<1>1. EnqueueInv /\ [Next]_vars =>
        [\A e \in Executions : Exists(execution[e]) => execution'[e] = execution[e]]_vars
  BY StepKeepsExecutions
<1> QED BY <1>1, EnqueueInit, EnqueueInductive, PTL DEF Spec, ExecutionsKept

\* However often the job is saved or deleted while it is read, an execution has options
\* that conform to one list of the job, and a filter the job had (enqueue.go:60-108).
THEOREM OptionsDoConform == Spec => []OptionsConform
<1>1. EnqueueInv => OptionsConform
  <2> SUFFICES ASSUME EnqueueInv, NEW e \in Executions, Exists(execution[e]),
                      ~ enqueue[e].unread, NoRow \notin versions[e]
               PROVE  /\ \E v \in versions[e] : Conforms(execution[e].options, List[v.options])
                      /\ \E v \in versions[e] : enqueue[e].filter = v.filter
    BY DEF OptionsConform
  <2>1. RecordOf(e) /\ FilterOf(e) /\ OptionsOf(e)
    BY DEF EnqueueInv
  <2> QED BY <2>1 DEF RecordOf, FilterOf, OptionsOf
<1> QED BY <1>1, EnqueueInit, EnqueueInductive, PTL DEF Spec

\* Whatever the spellings of the schema, the request and the templates, a value that was
\* supplied once reaches every template (enqueue.go:70-108, resolver.go:62-71).
THEOREM SpellingsDoAgree == Spec => []SpellingsAgree
<1>1. EnqueueInv => SpellingsAgree
  <2> SUFFICES ASSUME EnqueueInv, NEW e \in Executions, NEW k \in Keys, Exists(execution[e]),
                      NEW v \in Values \ Blanks,
                      {enqueue[e].user[n] : n \in {n \in DOMAIN enqueue[e].user : Fold[n] = Fold[k]}}
                        = {v}
               PROVE  Resolve(k, execution[e].options) \subseteq {v}
    BY DEF SpellingsAgree
  <2>1. RecordOf(e) /\ OptionsOf(e)
    BY DEF EnqueueInv
  <2>2. Agree(enqueue[e].user, execution[e].options)
    BY <2>1 DEF RecordOf, OptionsOf
  <2> QED BY <2>2 DEF Agree
<1> QED BY <1>1, EnqueueInit, EnqueueInductive, PTL DEF Spec

-----------------------------------------------------------------------------
(* Credentials: what rotations, renames and deletions leave to the runs that use     *)
(* them.                                                                           *)

\* Cipher and nonce of a row belong together.
RowOpens(c) == Exists(credential[c]) => Decrypts(credential[c])

\* An update in progress: it will write a row that opens, and a rename that nobody has
\* overtaken will write what is there.
UpdateSound(q) ==
  request[q].pc = "write" =>
    /\ Decrypts(request[q].to) /\ credential[request[q].cred] # NoRow
    /\ ~ request[q].rotates /\ ~ request[q].overtaken /\ Exists(credential[request[q].cred])
       => credential[request[q].cred] = request[q].to

\* A run knows a credential that had a row when its target was read.
RunSound(r) ==
  run[r].pc = "steps" =>
    /\ run[r].cred # None => credential[run[r].cred] # NoRow
    /\ run[r].auth # "undecryptable"
    /\ run[r].auth = "missing" => run[r].cred # None /\ credential[run[r].cred] = Gone

CredentialInv ==
  /\ TypeOK
  /\ \A c \in Credentials : RowOpens(c)
  /\ \A q \in Requests : UpdateSound(q)
  /\ \A r \in Runs : RunSound(r)

----------------------------------------------------------------------------
LEMMA CredentialInit == Init => CredentialInv
<1> SUFFICES ASSUME Init
             PROVE  CredentialInv
  OBVIOUS
<1>1. \A c \in Credentials : RowOpens(c)
  <2>1. PICK s \in Secrets : credential = [c \in Credentials |->
          IF \E t \in Targets : target[t].cred = c
          THEN [cipher |-> [secret |-> s, sealed |-> 0], nonce |-> 0] ELSE NoRow]
    BY DEF Init
  <2>2. Decrypts([cipher |-> [secret |-> s, sealed |-> 0], nonce |-> 0])
    BY DEF Decrypts
  <2> QED BY <2>1, <2>2 DEF RowOpens, Exists
<1>2. /\ \A q \in Requests : request[q].pc # "write"
      /\ \A r \in Runs : run[r].pc # "steps"
  BY DEF Init, Idle
<1> QED BY <1>1, <1>2, TypeInit DEF CredentialInv, UpdateSound, RunSound

\* A step that leaves credentials, updates and runs alone.
LEMMA CredentialUntouched ==
  ASSUME CredentialInv, UNCHANGED <<credential, request, run>>
  PROVE  /\ \A c \in Credentials : RowOpens(c)'
         /\ \A q \in Requests : UpdateSound(q)'
         /\ \A r \in Runs : RunSound(r)'
BY DEF CredentialInv, RowOpens, UpdateSound, RunSound

\* What a step may do to the rows without disturbing a run: a row that opens may replace
\* one, or an id be used for the first time, or be freed for good.
LEMMA RunsUndisturbed ==
  ASSUME CredentialInv, UNCHANGED run,
         \A c \in Credentials : credential[c] # NoRow => credential'[c] # NoRow,
         \A c \in Credentials : credential[c] = Gone => credential'[c] = Gone
  PROVE  \A r \in Runs : RunSound(r)'
<1> SUFFICES ASSUME NEW r \in Runs
             PROVE  RunSound(r)'
  OBVIOUS
<1>1. RunSound(r)
  BY DEF CredentialInv
<1>2. run[r].pc = "steps" => run[r].cred \in Credentials \cup {None}
  BY DEF CredentialInv, TypeOK, Run, Idle
<1> QED BY <1>1, <1>2 DEF RunSound

LEMMA CredentialCreate ==
  ASSUME CredentialInv, NEW c \in Credentials, NEW secret \in Secrets, CreateCredential(c, secret)
  PROVE  /\ \A d \in Credentials : RowOpens(d)'
         /\ \A q \in Requests : UpdateSound(q)'
         /\ \A r \in Runs : RunSound(r)'
<1>1. /\ credential[c] = NoRow /\ credential'[c] = Encrypt(secret)
      /\ \A d \in Credentials : d # c => credential'[d] = credential[d]
      /\ UNCHANGED <<request, run>>
  BY DEF CreateCredential, CredentialInv, TypeOK
<1>2. Encrypt(secret) # NoRow /\ Decrypts(Encrypt(secret)) /\ NoRow # Gone
  <2>1. Exists(Encrypt(secret))
    BY EncryptsCredential, RowsExist DEF CredentialInv
  <2> QED BY <2>1 DEF Exists, Encrypt, Decrypts, NoRow, Gone
<1>3. \A d \in Credentials : RowOpens(d)'
  BY <1>1, <1>2 DEF CredentialInv, RowOpens
<1>4. ASSUME NEW q \in Requests
      PROVE  UpdateSound(q)'
  <2>1. request[q].pc = "write" => request[q].cred \in Credentials
    BY DEF CredentialInv, TypeOK, Request, Idle
  <2> QED BY <1>1, <1>2, <2>1 DEF CredentialInv, UpdateSound
<1>5. \A r \in Runs : RunSound(r)'
  BY <1>1, <1>2, RunsUndisturbed
<1> QED BY <1>3, <1>4, <1>5

LEMMA CredentialBegin ==
  ASSUME CredentialInv, NEW q \in Requests, NEW c \in Credentials,
         NEW payload \in Secrets \cup {""}, BeginUpdate(q, c, payload)
  PROVE  /\ \A d \in Credentials : RowOpens(d)'
         /\ \A p \in Requests : UpdateSound(p)'
         /\ \A r \in Runs : RunSound(r)'
<1> DEFINE to == IF payload # "" THEN Encrypt(payload) ELSE credential[c]
           next == [pc |-> "write", cred |-> c, rotates |-> payload # "",
                    overtaken |-> FALSE, to |-> to]
<1>1. /\ request' = [request EXCEPT ![q] = next] /\ Exists(credential[c])
      /\ UNCHANGED <<credential, run>>
  BY DEF BeginUpdate, tables
<1>2. Decrypts(to)
  BY <1>1 DEF CredentialInv, RowOpens, Encrypt, Decrypts
<1>3. ~ next.rotates => next.to = credential[c]
  OBVIOUS
<1>4. next.pc = "write" /\ next.cred = c /\ next.to = to
  OBVIOUS
<1>5. credential[c] # NoRow
  BY <1>1 DEF Exists
<1> HIDE DEF to, next
<1>6. request'[q] = next /\ \A p \in Requests : p # q => request'[p] = request[p]
  BY <1>1 DEF CredentialInv, TypeOK
<1>7. UpdateSound(q)'
  BY <1>1, <1>2, <1>3, <1>4, <1>5, <1>6 DEF UpdateSound
<1>8. \A p \in Requests : p # q => UpdateSound(p)'
  BY <1>1, <1>6 DEF CredentialInv, UpdateSound
<1>9. (\A d \in Credentials : RowOpens(d)') /\ \A r \in Runs : RunSound(r)'
  BY <1>1 DEF CredentialInv, RowOpens, RunSound
<1> QED BY <1>7, <1>8, <1>9

\* A write of a rename that nobody has overtaken changes nothing; any other marks the
\* updates it overtakes.
LEMMA CredentialWrite ==
  ASSUME CredentialInv, NEW q \in Requests, WriteCredential(q)
  PROVE  /\ ~ request[q].rotates /\ ~ request[q].overtaken => credential' = credential
         /\ \A c \in Credentials : RowOpens(c)'
         /\ \A p \in Requests : UpdateSound(p)' /\ (p # q => request'[p].pc = request[p].pc)
         /\ \A r \in Runs : RunSound(r)'
<1> DEFINE cred == request[q].cred
           to == request[q].to
<1>1. request[q].pc = "write" /\ cred \in Credentials /\ to \in CredentialRow /\ UpdateSound(q)
  BY DEF WriteCredential, CredentialInv, TypeOK, Request, Idle
<1>2. credential' = IF Exists(credential[cred]) THEN [credential EXCEPT ![cred] = to] ELSE credential
  BY DEF WriteCredential
<1>3. credential \in [Credentials -> CredentialRow \cup {NoRow, Gone}]
  BY DEF CredentialInv, TypeOK
<1>4. Decrypts(to) /\ Exists(to)
  BY <1>1, RowsExist DEF UpdateSound
<1>5. ~ request[q].rotates /\ ~ request[q].overtaken => credential' = credential
  BY <1>1, <1>2, <1>3 DEF UpdateSound
<1> HIDE DEF cred, to
<1>6. \A c \in Credentials : RowOpens(c)'
  BY <1>2, <1>3, <1>4 DEF CredentialInv, RowOpens
<1>7. \A r \in Runs : RunSound(r)'
  <2>1. \A c \in Credentials : credential[c] # NoRow => credential'[c] # NoRow
    BY <1>2, <1>3, <1>4 DEF Exists
  <2>2. \A c \in Credentials : credential[c] = Gone => credential'[c] = Gone
    BY <1>2, <1>3 DEF Exists
  <2> QED BY <2>1, <2>2, RunsUndisturbed DEF WriteCredential
<1>8. ASSUME NEW p \in Requests
      PROVE  UpdateSound(p)' /\ (p # q => request'[p].pc = request[p].pc)
  <2>1. request'[p] = IF p = q THEN Idle
                      ELSE IF request[p].pc = "write"
                              /\ credential'[request[p].cred] # credential[request[p].cred]
                           THEN [request[p] EXCEPT !.overtaken = TRUE]
                           ELSE request[p]
    BY DEF WriteCredential, Done
  <2>2. UpdateSound(p) /\ request[p] \in Request
    BY DEF CredentialInv, TypeOK
  <2>3. CASE p = q
    BY <2>1, <2>3 DEF UpdateSound, Idle
  <2>4. CASE p # q /\ request[p].pc # "write"
    BY <2>1, <2>4 DEF UpdateSound
  <2>5. CASE p # q /\ request[p].pc = "write"
    <3>1. request[p].cred \in Credentials /\ credential'[request[p].cred] # NoRow
      <4>1. request[p].cred \in Credentials /\ credential[request[p].cred] # NoRow
        BY <2>2, <2>5 DEF UpdateSound, Request, Idle
      <4> QED BY <1>2, <1>3, <1>4, <4>1 DEF Exists
    <3>2. CASE credential'[request[p].cred] = credential[request[p].cred]
      BY <2>1, <2>2, <2>5, <3>2 DEF UpdateSound
    <3>3. CASE credential'[request[p].cred] # credential[request[p].cred]
      <4>1. /\ request'[p].pc = request[p].pc /\ request'[p].cred = request[p].cred
            /\ request'[p].to = request[p].to /\ request'[p].overtaken
        BY <2>1, <2>2, <2>5, <3>3 DEF Request, Idle
      <4> QED BY <2>2, <2>5, <3>1, <4>1 DEF UpdateSound
    <3> QED BY <3>2, <3>3
  <2> QED BY <2>3, <2>4, <2>5
<1> QED BY <1>5, <1>6, <1>7, <1>8

LEMMA CredentialDelete ==
  ASSUME CredentialInv, NEW c \in Credentials, DeleteCredential(c)
  PROVE  /\ \A d \in Credentials : RowOpens(d)'
         /\ \A q \in Requests : UpdateSound(q)'
         /\ \A r \in Runs : RunSound(r)'
<1>1. /\ Exists(credential[c]) /\ credential'[c] = Gone
      /\ \A d \in Credentials : d # c => credential'[d] = credential[d]
      /\ UNCHANGED <<request, run>>
  BY DEF DeleteCredential, CredentialInv, TypeOK
<1>2. Gone # NoRow /\ ~ Exists(Gone)
  BY DEF Gone, NoRow, Exists
<1>3. \A d \in Credentials : RowOpens(d)'
  BY <1>1, <1>2 DEF CredentialInv, RowOpens
<1>4. ASSUME NEW q \in Requests
      PROVE  UpdateSound(q)'
  <2>1. request[q].pc = "write" => request[q].cred \in Credentials
    BY DEF CredentialInv, TypeOK, Request, Idle
  <2> QED BY <1>1, <1>2, <2>1 DEF CredentialInv, UpdateSound
<1>5. \A r \in Runs : RunSound(r)'
  BY <1>1, <1>2, RunsUndisturbed DEF Exists
<1> QED BY <1>3, <1>4, <1>5

LEMMA CredentialRuns ==
  ASSUME CredentialInv, NEW r \in Runs, RunTarget(r)
  PROVE  /\ UNCHANGED <<credential, request>>
         /\ \A x \in Runs : RunSound(x)'
<1>1. ASSUME NEW next, Running(r, next),
             next.pc = "steps" =>
               /\ next.cred # None => credential[next.cred] # NoRow
               /\ next.auth # "undecryptable"
               /\ next.auth = "missing" => next.cred # None /\ credential[next.cred] = Gone
      PROVE  \A x \in Runs : RunSound(x)'
  <2>1. run'[r] = next /\ \A x \in Runs : x # r => run'[x] = run[x]
    BY <1>1 DEF Running, CredentialInv, TypeOK
  <2>2. UNCHANGED credential
    BY <1>1 DEF Running, tables
  <2> QED BY <1>1, <2>1, <2>2 DEF CredentialInv, RunSound
<1>2. ASSUME NEW t \in Targets, ReadTarget(r, t)
      PROVE  \A x \in Runs : RunSound(x)'
  <2> DEFINE next == [pc |-> "steps", cred |-> target[t].cred, auth |-> "none"]
  <2>1. Running(r, next) /\ Exists(target[t])
    BY <1>2 DEF ReadTarget
  <2>2. target[t].cred # None => credential[target[t].cred] # NoRow
    BY <2>1 DEF CredentialInv, TypeOK, ReferencesHold, Exists
  <2>3. next.cred = target[t].cred /\ next.auth = "none"
    OBVIOUS
  <2> HIDE DEF next
  <2> QED BY <1>1, <2>1, <2>2, <2>3
<1>3. ASSUME ResolveCredential(r)
      PROVE  \A x \in Runs : RunSound(x)'
  <2> DEFINE c == run[r].cred
             auth == CASE c = None -> "key_path"
                       [] c # None /\ ~ Exists(credential[c]) -> "missing"
                       [] c # None /\ Exists(credential[c]) ->
                            IF Decrypts(credential[c]) THEN "secret" ELSE "undecryptable"
             next == [run[r] EXCEPT !.auth = auth]
  <2>1. Running(r, next) /\ run[r].pc = "steps"
    BY <1>3 DEF ResolveCredential
  <2>2. c \in Credentials \cup {None} /\ (c # None => credential[c] # NoRow)
    BY <2>1 DEF CredentialInv, TypeOK, Run, Idle, RunSound
  <2>3. c # None /\ Exists(credential[c]) => Decrypts(credential[c])
    BY <2>2 DEF CredentialInv, RowOpens
  <2>4. c # None /\ ~ Exists(credential[c]) => credential[c] = Gone
    BY <2>2 DEF Exists
  <2>5. /\ auth # "undecryptable"
        /\ auth = "missing" => c # None /\ credential[c] = Gone
    <3>1. CASE c = None
      BY <3>1
    <3>2. CASE c # None /\ ~ Exists(credential[c])
      BY <2>4, <3>2
    <3>3. CASE c # None /\ Exists(credential[c])
      BY <2>3, <3>3
    <3> QED BY <3>1, <3>2, <3>3
  <2> HIDE DEF auth
  <2>6. next.cred = c /\ next.auth = auth
    BY <2>1 DEF CredentialInv, TypeOK, Run, Idle
  <2> HIDE DEF next, c
  <2> QED BY <1>1, <2>1, <2>2, <2>5, <2>6
<1>4. ASSUME EndRun(r)
      PROVE  \A x \in Runs : RunSound(x)'
  BY <1>1, <1>4 DEF EndRun, Idle
<1>5. UNCHANGED <<credential, request>>
  BY DEF RunTarget, ReadTarget, ResolveCredential, EndRun, Running, tables
<1> QED BY <1>2, <1>3, <1>4, <1>5 DEF RunTarget

\* All of a step, and what it says of renames.
LEMMA CredentialStep ==
  ASSUME CredentialInv, [Next]_vars
  PROVE  /\ CredentialInv'
         /\ \A q \in Requests :
              /\ request[q].pc = "write" /\ request'[q].pc = "idle"
              /\ ~ request[q].rotates /\ ~ request[q].overtaken
              => credential' = credential
<1> DEFINE sound == /\ \A c \in Credentials : RowOpens(c)'
                    /\ \A q \in Requests : UpdateSound(q)'
                    /\ \A r \in Runs : RunSound(r)'
           keeps == \A q \in Requests :
                      /\ request[q].pc = "write" /\ request'[q].pc = "idle"
                      /\ ~ request[q].rotates /\ ~ request[q].overtaken
                      => credential' = credential
<1> SUFFICES sound /\ keeps
  BY TypeStep DEF CredentialInv
<1>1. CASE UNCHANGED <<credential, request, run>>
  BY <1>1, CredentialUntouched
<1>2. CASE \E r \in Runs : RunTarget(r)
  <2>1. UNCHANGED <<credential, request>> /\ \A x \in Runs : RunSound(x)'
    BY <1>2, CredentialRuns
  <2>2. (\A c \in Credentials : RowOpens(c)') /\ \A q \in Requests : UpdateSound(q)'
    BY <2>1 DEF CredentialInv, RowOpens, UpdateSound
  <2> QED BY <2>1, <2>2
<1>3. ASSUME ChangeCredentials
      PROVE  sound /\ keeps
  <2>1. ASSUME NEW c \in Credentials, NEW secret \in Secrets, CreateCredential(c, secret)
        PROVE  sound /\ keeps
    <3>1. UNCHANGED request
      BY <2>1 DEF CreateCredential
    <3> QED BY <2>1, <3>1, CredentialCreate
  <2>2. ASSUME NEW q \in Requests, NEW c \in Credentials, NEW payload \in Secrets \cup {""},
               BeginUpdate(q, c, payload)
        PROVE  sound /\ keeps
    <3>1. UNCHANGED credential
      BY <2>2 DEF BeginUpdate, tables
    <3> QED BY <2>2, <3>1, CredentialBegin
  <2>3. ASSUME NEW q \in Requests, WriteCredential(q)
        PROVE  sound /\ keeps
    <3>1. sound
      BY <2>3, CredentialWrite
    <3>2. keeps
      BY <2>3, CredentialWrite
    <3> QED BY <3>1, <3>2
  <2>4. ASSUME NEW q \in Requests, AbandonUpdate(q)
        PROVE  sound /\ keeps
    <3>1. /\ UNCHANGED <<credential, run>>
          /\ \A p \in Requests : request'[p] = IF p = q THEN Idle ELSE request[p]
      BY <2>4 DEF AbandonUpdate, tables, CredentialInv, TypeOK
    <3>2. \A p \in Requests : UpdateSound(p)'
      BY <3>1 DEF CredentialInv, UpdateSound, Idle
    <3>3. (\A c \in Credentials : RowOpens(c)') /\ \A r \in Runs : RunSound(r)'
      BY <3>1 DEF CredentialInv, RowOpens, RunSound
    <3> QED BY <3>1, <3>2, <3>3
  <2>5. ASSUME NEW c \in Credentials, DeleteCredential(c)
        PROVE  sound /\ keeps
    <3>1. UNCHANGED request
      BY <2>5 DEF DeleteCredential
    <3> QED BY <2>5, <3>1, CredentialDelete
  <2> HIDE DEF sound, keeps
  <2> QED BY <1>3, <2>1, <2>2, <2>3, <2>4, <2>5 DEF ChangeCredentials
<1>4. CASE ChangeRows \/ (\E e \in Executions : EnqueueExecution(e)) \/ UNCHANGED vars
  <2>1. UNCHANGED <<credential, request, run>>
    <3>1. CASE ChangeRows
      BY <3>1 DEF ChangeRows, AddJob, UpdateJob, DeleteJob, SaveJob, WriteTarget, DeleteTarget,
                  SaveTarget, CreateProject, DeleteProject, Cascade, others
    <3>2. CASE \E e \in Executions : EnqueueExecution(e)
      BY <3>2 DEF EnqueueExecution, ReadJob, ReadOptions, MatchTargets, CreateExecution,
                  EnqueueFails, Advance, tables
    <3> QED BY <1>4, <3>1, <3>2 DEF vars, tables
  <2> QED BY <2>1, CredentialUntouched
<1> HIDE DEF sound, keeps
<1> QED BY <1>1, <1>2, <1>3, <1>4 DEF Next

----------------------------------------------------------------------------
(* Theorems. *)

\* Every step of a run decrypts the credential of its target, unless the credential was
\* deleted since the run read its target (service.go:81-102).
THEOREM CredentialsAreUsable == Spec => []CredentialsUsable
<1>1. CredentialInv => CredentialsUsable
  BY DEF CredentialInv, RunSound, CredentialsUsable
<1>2. CredentialInv /\ [Next]_vars => CredentialInv'
  BY CredentialStep
<1> QED BY <1>1, <1>2, CredentialInit, PTL DEF Spec

\* A rename that no other update has overtaken changes no secret (handlers.go:1060-1061).
THEOREM RenamesDoKeepSecrets == Spec => RenamesKeepSecrets
<1>1. CredentialInv /\ [Next]_vars => CredentialInv'
  BY CredentialStep
<1>2. CredentialInv /\ [Next]_vars =>
        [\A q \in Requests :
           /\ request[q].pc = "write" /\ request'[q].pc = "idle"
           /\ ~ request[q].rotates /\ ~ request[q].overtaken
           => credential' = credential]_vars
  BY CredentialStep
<1> QED BY <1>1, <1>2, CredentialInit, PTL DEF Spec, RenamesKeepSecrets
=============================================================================
