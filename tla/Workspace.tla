------------------------------ MODULE Workspace ------------------------------
(***************************************************************************)
(* The rows of the projects and what an enqueue and a run make of them.    *)
(*                                                                         *)
(* API handlers change projects, jobs, targets and credentials, each with  *)
(* one statement or one transaction, except the update of a credential,    *)
(* which reads the row and writes it back.  An enqueue reads the job, its  *)
(* options and the targets with a statement each, merges the options, and  *)
(* creates the execution; a run reads its target once and the credential   *)
(* of the target again at every step.  What follows the creation of an     *)
(* execution is in Executions, the steps are in Steps.                     *)
(***************************************************************************)
EXTENDS Integers, Sequences

CONSTANTS
  Projects,     \* project ids, "default" among them
  Jobs, Targets, Credentials, Executions,   \* ids
  Tags,
  Keys,         \* spellings of option names
  Fold,         \* Fold[k]: k in lower case; strings.EqualFold compares these
  Values,       \* values of options, "" among them
  Blanks,       \* the values that are empty once trimmed, "" among them
  Schemas,      \* names of the lists of options jobs are saved with
  List,         \* List[s]: the list of options named s
  SeedJobs,     \* the jobs and targets the workspace starts with
  SeedTargets,
  Supplied,     \* the option maps that come with requests to run a job
  Secrets,      \* payloads of credentials
  Requests,     \* credential updates in progress at the same time
  Runs,         \* runs in progress at the same time
  MaxChanges,   \* bound: changes through the API
  None          \* no row, no credential

Maps == UNION {[K -> Values] : K \in SUBSET Keys}
Option == [name : Keys, required : BOOLEAN, default : Values, choices : SUBSET Values]

JobRow == [project : Projects, filter : SUBSET Tags, options : Schemas]
TargetRow == [project : Projects, tags : SUBSET Tags, cred : Credentials \cup {None}]

ASSUME WorkspaceAssumption ==
  /\ "default" \in Projects /\ "" \notin Projects
  /\ DOMAIN Fold = Keys
  /\ "" \in Blanks /\ Blanks \subseteq Values
  /\ DOMAIN List = Schemas /\ \A s \in Schemas : List[s] \in Seq(Option)
  /\ Supplied \subseteq Maps
  /\ SeedJobs \subseteq JobRow /\ SeedTargets \subseteq TargetRow
  /\ "" \notin Secrets
  /\ MaxChanges \in Nat
  /\ None \notin Credentials

VARIABLES
  projects,    \* the table projects: the ids that have a row
  job,         \* the tables jobs and job_options
  target,      \* the table targets
  credential,  \* the table credentials; ids are never used twice
  execution,   \* the table executions
  enqueue,     \* the enqueue of each execution
  versions,    \* history: the rows a job had while an enqueue was reading it
  request,     \* each credential update in progress
  run,         \* each run in progress
  nonces,      \* how often Encrypt has been called
  changes      \* how many changes clients have made

tables == <<projects, job, target, credential, execution>>
vars == <<tables, enqueue, versions, request, run, nonces, changes>>

----------------------------------------------------------------------------
NoRow == [row |-> "none"]
Gone == [row |-> "deleted"]

\* What Encrypt returns: the ciphertext, which only its own nonce opens, and the nonce.
Cipher == [secret : Secrets, sealed : Nat]
CredentialRow == [cipher : Cipher, nonce : Nat]

ExecutionRow == [project : Projects, job : Jobs, options : Maps, targets : SUBSET Targets]

Unbegun == [pc |-> "unbegun"]
Enqueue == [pc : {"options", "targets", "create", "created", "refused"}, job : Jobs,
            user : Supplied, project : Projects, filter : SUBSET Tags, options : Maps,
            unread : BOOLEAN, targets : SUBSET Targets]

Idle == [pc |-> "idle"]
Request == {Idle} \cup [pc : {"write"}, cred : Credentials, rotates : BOOLEAN,
                        to : CredentialRow, overtaken : BOOLEAN]
Run == {Idle} \cup [pc : {"steps"}, cred : Credentials \cup {None},
                    auth : {"none", "key_path", "secret", "missing", "undecryptable"}]

Exists(row) == row \notin {NoRow, Gone}

\* The foreign keys of the tables.
ReferencesHold ==
  /\ \A j \in Jobs : Exists(job[j]) => job[j].project \in projects
  /\ \A e \in Executions : Exists(execution[e]) => execution[e].project \in projects
  /\ \A t \in Targets : Exists(target[t]) =>
       /\ target[t].project \in projects
       /\ target[t].cred # None => Exists(credential[target[t].cred])

\* Every variable has its type, and the references between rows lead to rows.
TypeOK ==
  /\ projects \in SUBSET Projects
  /\ job \in [Jobs -> JobRow \cup {NoRow}]
  /\ target \in [Targets -> TargetRow \cup {NoRow}]
  /\ credential \in [Credentials -> CredentialRow \cup {NoRow, Gone}]
  /\ execution \in [Executions -> ExecutionRow \cup {NoRow}]
  /\ enqueue \in [Executions -> Enqueue \cup {Unbegun}]
  /\ versions \in [Executions -> SUBSET (JobRow \cup {NoRow})]
  /\ request \in [Requests -> Request]
  /\ run \in [Runs -> Run]
  /\ nonces \in Nat /\ changes \in Nat
  /\ ReferencesHold

Init ==
  /\ projects = Projects
  /\ job \in [Jobs -> SeedJobs]
  /\ target \in [Targets -> SeedTargets]
  /\ \E s \in Secrets : credential = [c \in Credentials |->
       IF \E t \in Targets : target[t].cred = c
       THEN [cipher |-> [secret |-> s, sealed |-> 0], nonce |-> 0] ELSE NoRow]
  /\ execution = [e \in Executions |-> NoRow]
  /\ enqueue = [e \in Executions |-> Unbegun]
  /\ versions = [e \in Executions |-> {}]
  /\ request = [q \in Requests |-> Idle]
  /\ run = [r \in Runs |-> Idle]
  /\ nonces = 1 /\ changes = 0

----------------------------------------------------------------------------
(* Options: what an enqueue merges and what a template is replaced by. *)

\* Variant: only the spelling of the schema counts.
FoundExactly(opt, user) == IF opt.name \in DOMAIN user THEN {user[opt.name]} ELSE {""}

\* The values the enqueue may find for an option: the one under its own name, or
\* the first one under another spelling, in the order of a map, which is any.
Found(opt, user) ==
  IF opt.name \in DOMAIN user THEN {user[opt.name]}
  ELSE LET spelled == {k \in DOMAIN user : Fold[k] = Fold[opt.name]}
       IN IF spelled = {} THEN {""} ELSE {user[k] : k \in spelled}

Taken(opt, val) == IF val \in Blanks THEN opt.default ELSE val

Accepted(opt, val) ==
  /\ ~ (val \in Blanks /\ opt.required /\ opt.default = "")
  /\ opt.choices # {} /\ Taken(opt, val) # "" => Taken(opt, val) \in opt.choices

\* The last option of a name, the one whose value stays in the map.
Last(schema, k) ==
  CHOOSE i \in DOMAIN schema :
    schema[i].name = k /\ \A j \in DOMAIN schema : schema[j].name = k => j <= i

Declared(schema) == {schema[i].name : i \in DOMAIN schema}

\* The values found for the options of a schema, one for each.
Choices(schema, user) ==
  {vals \in [DOMAIN schema -> Values] :
     \A i \in DOMAIN schema : vals[i] \in Found(schema[i], user)}

\* Variant: what the user supplied is copied over the validated options.
MergedUserLast(schema, user, vals) ==
  [k \in Declared(schema) \cup DOMAIN user |->
     IF k \in DOMAIN user THEN user[k]
     ELSE Taken(schema[Last(schema, k)], vals[Last(schema, k)])]

Merged(schema, user, vals) ==
  [k \in Declared(schema) \cup DOMAIN user |->
     IF k \in Declared(schema)
     THEN Taken(schema[Last(schema, k)], vals[Last(schema, k)])
     ELSE user[k]]

\* What ${option.k} may be replaced by; a template without a match stays as it is.
Resolve(k, options) ==
  IF k \in DOMAIN options THEN {options[k]}
  ELSE {options[n] : n \in {n \in DOMAIN options : Fold[n] = Fold[k]}}

----------------------------------------------------------------------------
(* Projects, jobs and targets: every row belongs to a project that exists. *)

Change == changes < MaxChanges /\ changes' = changes + 1
others == <<enqueue, request, run, nonces>>

\* The project of a row a client sends: its own, else the one of the page, else "default".
ProjectOf(body, context) ==
  CASE body # "" -> body [] context # "" -> context [] OTHER -> "default"

\* The projects a row may be saved in; a foreign key refuses all others.
Owners == {ProjectOf(body, context) : body, context \in Projects \cup {""}} \cap projects

\* The enqueues that have read the row of a job and not yet its options see it change.
SeenBy(table) ==
  [e \in Executions |->
     IF enqueue[e].pc = "options" THEN versions[e] \cup {table[enqueue[e].job]}
     ELSE versions[e]]

SaveJob(j, row) ==
  /\ job' = [job EXCEPT ![j] = row]
  /\ versions' = SeenBy(job')
  /\ UNCHANGED <<projects, target, credential, execution, others>>

\* In both cases a request that saves what is there already changes nothing.
AddJob(j, row) == Change /\ ~ Exists(job[j]) /\ row.project \in Owners /\ SaveJob(j, row)

UpdateJob(j, row) ==
  Change /\ Exists(job[j]) /\ row # job[j] /\ row.project \in Owners /\ SaveJob(j, row)

DeleteJob(j) == Change /\ Exists(job[j]) /\ SaveJob(j, NoRow)

SaveTarget(t, row) ==
  /\ target' = [target EXCEPT ![t] = row]
  /\ UNCHANGED <<projects, job, credential, execution, versions, others>>

\* AddTarget or UpdateTarget; a credential that does not exist is refused.
WriteTarget(t, row) ==
  /\ Change /\ row # target[t] /\ row.project \in Owners
  /\ row.cred # None => Exists(credential[row.cred])
  /\ SaveTarget(t, row)

DeleteTarget(t) == Change /\ Exists(target[t]) /\ SaveTarget(t, NoRow)

\* Two names with the same id are one project: a second insert only renames it.
CreateProject(p) ==
  /\ Change /\ p \notin projects
  /\ projects' = projects \cup {p}
  /\ UNCHANGED <<job, target, credential, execution, versions, others>>

Without(table, p) ==
  [x \in DOMAIN table |->
     IF Exists(table[x]) /\ table[x].project = p THEN NoRow ELSE table[x]]

\* The rows of the project go with it.
Cascade(p) ==
  /\ projects' = projects \ {p}
  /\ job' = Without(job, p) /\ target' = Without(target, p)
  /\ execution' = Without(execution, p)
  /\ versions' = SeenBy(job')
  /\ UNCHANGED <<credential, others>>

\* Variant: the default project may be deleted like any other.
DeleteAnyProject(p) == Change /\ p \in projects /\ Cascade(p)

DeleteProject(p) == Change /\ p \in projects /\ p # "default" /\ Cascade(p)

----------------------------------------------------------------------------
(* EnqueueExecutionWithOptions, up to the row of the execution. *)

Advance(e, next) ==
  /\ enqueue' = [enqueue EXCEPT ![e] = next]
  /\ UNCHANGED <<request, run, nonces, changes>>

\* The first statement of GetJobByID; a job without a row ends the request.
ReadJob(e, j, user) ==
  /\ enqueue[e].pc = "unbegun" /\ Exists(job[j])
  /\ Advance(e, [pc |-> "options", job |-> j, user |-> user, project |-> job[j].project,
                 filter |-> job[j].filter, options |-> <<>>, unread |-> FALSE, targets |-> {}])
  /\ versions' = [versions EXCEPT ![e] = {job[j]}]
  /\ UNCHANGED tables

\* The rows of job_options come in any order, and the last one of a name counts.
Orders(schema) ==
  {[i \in DOMAIN schema |-> schema[place[i]]] :
     place \in {f \in [DOMAIN schema -> DOMAIN schema] :
                  \A j \in DOMAIN schema : \E i \in DOMAIN schema : f[i] = j}}

\* The outcome of the checks and the merge, for the options that were read.
Checked(e, list, vals, unread) ==
  [enqueue[e] EXCEPT
     !.pc = IF \A i \in DOMAIN list : Accepted(list[i], vals[i]) THEN "targets" ELSE "refused",
     !.options = Merged(list, enqueue[e].user, vals),
     !.unread = unread]

\* Its last statement, and the merge.  A job deleted by now has no options left; an
\* error of the statement, or of one of its rows, is dropped and the rest not read.
ReadOptions(e) ==
  /\ enqueue[e].pc = "options"
  /\ LET row == job[enqueue[e].job]
         schema == IF Exists(row) THEN List[row.options] ELSE <<>>
     IN \E order \in Orders(schema), n \in 0 .. Len(schema) :
          LET list == SubSeq(order, 1, n)
          IN \E vals \in Choices(list, enqueue[e].user) :
               Advance(e, Checked(e, list, vals, n < Len(schema)))
  /\ UNCHANGED <<tables, versions>>

\* GetTargetByTags, over the targets of every project.
Matching(filter) == {t \in Targets : Exists(target[t]) /\ filter \subseteq target[t].tags}

MatchTargets(e) ==
  /\ enqueue[e].pc = "targets"
  /\ Advance(e, [enqueue[e] EXCEPT
       !.pc = IF Matching(enqueue[e].filter) = {} THEN "refused" ELSE "create",
       !.targets = Matching(enqueue[e].filter)])
  /\ UNCHANGED <<tables, versions>>

\* The row names no project, so it is put into "default".
CreateExecution(e) ==
  /\ enqueue[e].pc = "create" /\ "default" \in projects
  /\ Advance(e, [enqueue[e] EXCEPT !.pc = "created"])
  /\ execution' = [execution EXCEPT ![e] =
       [project |-> "default", job |-> enqueue[e].job, options |-> enqueue[e].options,
        targets |-> enqueue[e].targets]]
  /\ UNCHANGED <<projects, job, target, credential, versions>>

\* Any other statement that fails ends the request.
EnqueueFails(e) ==
  /\ enqueue[e].pc \in {"options", "targets", "create"}
  /\ Advance(e, [enqueue[e] EXCEPT !.pc = "refused"])
  /\ UNCHANGED <<tables, versions>>

----------------------------------------------------------------------------
(* Credentials: encrypted payloads that are created, rotated and renamed. *)

Encrypt(secret) == [cipher |-> [secret |-> secret, sealed |-> nonces], nonce |-> nonces]
Decrypts(row) == row.cipher.sealed = row.nonce

CreateCredential(c, secret) ==
  /\ Change /\ credential[c] = NoRow
  /\ credential' = [credential EXCEPT ![c] = Encrypt(secret)]
  /\ nonces' = nonces + 1
  /\ UNCHANGED <<projects, job, target, execution, enqueue, versions, request, run>>

\* Variant: a rename draws a nonce although it encrypts nothing.
BeginUpdateWithNonce(q, c, payload) ==
  /\ Change /\ request[q].pc = "idle" /\ Exists(credential[c])
  /\ request' = [request EXCEPT ![q] =
       [pc |-> "write", cred |-> c, rotates |-> payload # "", overtaken |-> FALSE,
        to |-> IF payload # "" THEN Encrypt(payload)
               ELSE [cipher |-> credential[c].cipher, nonce |-> nonces]]]
  /\ nonces' = nonces + 1
  /\ UNCHANGED <<tables, enqueue, versions, run>>

\* handleUpdateCredential reads the row; without a payload it keeps what it has read.
BeginUpdate(q, c, payload) ==
  /\ Change /\ request[q].pc = "idle" /\ Exists(credential[c])
  /\ request' = [request EXCEPT ![q] =
       [pc |-> "write", cred |-> c, rotates |-> payload # "", overtaken |-> FALSE,
        to |-> IF payload # "" THEN Encrypt(payload) ELSE credential[c]]]
  /\ nonces' = IF payload # "" THEN nonces + 1 ELSE nonces
  /\ UNCHANGED <<tables, enqueue, versions, run>>

\* The request is over; if it has changed the row, the others on it are overtaken.
Done(q) ==
  request' = [p \in Requests |->
    IF p = q THEN Idle
    ELSE IF request[p].pc = "write" /\ credential'[request[p].cred] # credential[request[p].cred]
         THEN [request[p] EXCEPT !.overtaken = TRUE]
         ELSE request[p]]

\* Variant: the UPDATE lacks its WHERE clause.
WriteEveryCredential(q) ==
  /\ request[q].pc = "write"
  /\ credential' = [c \in Credentials |->
       IF Exists(credential[c]) THEN request[q].to ELSE credential[c]]
  /\ Done(q)
  /\ UNCHANGED <<projects, job, target, execution, enqueue, versions, run, nonces, changes>>

\* The second statement changes nothing if the row is gone.
WriteCredential(q) ==
  /\ request[q].pc = "write"
  /\ credential' = IF Exists(credential[request[q].cred])
                   THEN [credential EXCEPT ![request[q].cred] = request[q].to]
                   ELSE credential
  /\ Done(q)
  /\ UNCHANGED <<projects, job, target, execution, enqueue, versions, run, nonces, changes>>

AbandonUpdate(q) ==
  /\ request[q].pc = "write"
  /\ request' = [request EXCEPT ![q] = Idle]
  /\ UNCHANGED <<tables, enqueue, versions, run, nonces, changes>>

\* Variant: the foreign key of targets does not act.
DeleteCredentialOnly(c) ==
  /\ Change /\ Exists(credential[c])
  /\ credential' = [credential EXCEPT ![c] = Gone]
  /\ UNCHANGED <<projects, job, target, execution, enqueue, versions, request, run, nonces>>

\* Targets that refer to the credential no longer do.
DeleteCredential(c) ==
  /\ Change /\ Exists(credential[c])
  /\ credential' = [credential EXCEPT ![c] = Gone]
  /\ target' = [t \in Targets |->
       IF Exists(target[t]) /\ target[t].cred = c
       THEN [target[t] EXCEPT !.cred = None] ELSE target[t]]
  /\ UNCHANGED <<projects, job, execution, enqueue, versions, request, run, nonces>>

----------------------------------------------------------------------------
(* Runs: the target is read once, its credential at every step. *)

Running(r, next) ==
  /\ run' = [run EXCEPT ![r] = next]
  /\ UNCHANGED <<tables, enqueue, versions, request, nonces, changes>>

ReadTarget(r, t) ==
  /\ run[r].pc = "idle" /\ Exists(target[t])
  /\ Running(r, [pc |-> "steps", cred |-> target[t].cred, auth |-> "none"])

ResolveCredential(r) ==
  /\ run[r].pc = "steps" /\ run[r].auth \notin {"missing", "undecryptable"}
  /\ LET c == run[r].cred
         auth == CASE c = None -> "key_path"
                   [] c # None /\ ~ Exists(credential[c]) -> "missing"
                   [] c # None /\ Exists(credential[c]) ->
                        IF Decrypts(credential[c]) THEN "secret" ELSE "undecryptable"
     IN Running(r, [run[r] EXCEPT !.auth = auth])

EndRun(r) == run[r].pc = "steps" /\ Running(r, Idle)

----------------------------------------------------------------------------
ChangeRows ==
  \/ \E j \in Jobs, row \in JobRow : AddJob(j, row) \/ UpdateJob(j, row)
  \/ \E t \in Targets, row \in TargetRow : WriteTarget(t, row)
  \/ \E j \in Jobs : DeleteJob(j)
  \/ \E t \in Targets : DeleteTarget(t)
  \/ \E p \in Projects : CreateProject(p) \/ DeleteProject(p)

EnqueueExecution(e) ==
  \/ \E j \in Jobs, user \in Supplied : ReadJob(e, j, user)
  \/ ReadOptions(e) \/ MatchTargets(e) \/ CreateExecution(e) \/ EnqueueFails(e)

ChangeCredentials ==
  \/ \E c \in Credentials, secret \in Secrets : CreateCredential(c, secret)
  \/ \E q \in Requests, c \in Credentials, payload \in Secrets \cup {""} : BeginUpdate(q, c, payload)
  \/ \E q \in Requests : WriteCredential(q) \/ AbandonUpdate(q)
  \/ \E c \in Credentials : DeleteCredential(c)

RunTarget(r) == (\E t \in Targets : ReadTarget(r, t)) \/ ResolveCredential(r) \/ EndRun(r)

Next ==
  \/ ChangeRows
  \/ \E e \in Executions : EnqueueExecution(e)
  \/ ChangeCredentials
  \/ \E r \in Runs : RunTarget(r)

Spec == Init /\ [][Next]_vars

----------------------------------------------------------------------------
(* Properties. *)

\* What a run can rely on for the options of a job: a value for each, which, for one
\* option of its name, is one of the choices if there are any, and not empty if required.
Conforms(options, schema) ==
  \A k \in Declared(schema) :
    /\ k \in DOMAIN options
    /\ \E i \in DOMAIN schema :
         /\ schema[i].name = k
         /\ schema[i].choices # {} => options[k] \in schema[i].choices \cup {""}
         /\ schema[i].required => options[k] # ""

\* Whatever changes while it is read, an execution is created with options that
\* conform to a list the job had in between, and from a filter it had, unless the
\* job was deleted or the error of a statement was dropped (enqueue.go:60-108).
OptionsConform ==
  \A e \in Executions :
    Exists(execution[e]) /\ ~ enqueue[e].unread /\ NoRow \notin versions[e] =>
      /\ \E v \in versions[e] : Conforms(execution[e].options, List[v.options])
      /\ \E v \in versions[e] : enqueue[e].filter = v.filter

\* An option that was supplied in one way only, and is not blank, reaches every
\* template as it was supplied, however schema, request and template spell it
\* (enqueue.go:70-78, 103-108, resolver.go:62-71), or not at all: where the run finds no
\* such option, or the statement that was to read the options failed, the template stays
\* as it is written.
SpellingsAgree ==
  \A e \in Executions, k \in Keys :
    LET user == enqueue[e].user
        supplied == {user[n] : n \in {n \in DOMAIN user : Fold[n] = Fold[k]}}
    IN Exists(execution[e]) =>
         \A v \in Values \ Blanks : supplied = {v} => Resolve(k, execution[e].options) \subseteq {v}

\* No change of the workspace removes or rewrites the row of an execution, which its
\* tasks and runs depend on (postgres.go:92-105, 528-531).
ExecutionsKept ==
  [][\A e \in Executions : Exists(execution[e]) => execution'[e] = execution[e]]_vars

\* Every step of a run finds the credential of its target and decrypts it, through
\* rotations, renames and their overlaps, unless the credential was deleted after
\* the run read its target (service.go:81-102).
CredentialsUsable ==
  \A r \in Runs :
    run[r].pc = "steps" =>
      /\ run[r].auth # "undecryptable"
      /\ run[r].auth = "missing" => credential[run[r].cred] = Gone

\* "An empty payload means 'rename/retype only'" (handlers.go:1060-1061): the write
\* of a rename changes no secret, unless another update wrote the row since it read it.
RenamesKeepSecrets ==
  [][\A q \in Requests :
       /\ request[q].pc = "write" /\ request'[q].pc = "idle"
       /\ ~ request[q].rotates /\ ~ request[q].overtaken
       => credential' = credential]_vars
=============================================================================
