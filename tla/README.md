# Gruntdeck in TLA+

Gruntdeck runs *jobs* (sequences of command, script, file-copy and job-reference
steps) on *targets* over SSH. A server enqueues one task per matched target in a
River queue on PostgreSQL; executors work the tasks off; a scheduler enqueues
jobs by cron. This directory models the parts of it whose correctness depends on
the order of things: who writes the shared execution row when, what a restart or
a timeout leaves behind, what the cron fires when the table changes under it,
how a remote command ends, who is let in, what a process that dies while it starts
leaves to the next, and what the browser shows and saves when answers come late.
`PROJECT.json` lists components, runs, mutants, the
map from definitions to source lines, findings, hazards and theorems.

## 1. Inventory

| Component | State it keeps | Operations | Talks to |
|---|---|---|---|
| Queue producer, `internal/queue/enqueue.go` | none of its own | `EnqueueExecutionWithOptions`: merge options, match targets, insert the execution row, insert the tasks in a transaction | tables `jobs`, `targets`, `executions`; River |
| Queue worker, `internal/queue/worker.go` | up to 100 runs per executor | `Work`; River claims, times out (1 min), retries (25 attempts), rescues (1 h) | River table, execution service |
| Execution service, `internal/execution` | the copy of the execution row each run holds | `ExecuteTarget`, `markExecutionFailed`, `ExecuteStep`, `executeJobRef`, `recordLog` | tables `executions`, `jobs`, `targets`, `credentials`, `log_entries`; SSH |
| SSH client, `internal/ssh/client.go` | connection, session, goroutines of a call | `RunCommandWithCredential`, `CopyFileWithCredential`, `RunScriptWithCredential` | the remote host |
| Scheduler, `internal/scheduler/service.go` | cron entries and the map `entryIDs`, per server process | `Start`, `AddScheduleToCron`, `RemoveScheduleFromCron`, the cron callback | table `schedules`, producer |
| Repository, `internal/repository/postgres.go` | the PostgreSQL tables | one statement or a few per method, transactions only in the job methods | PostgreSQL |
| HTTP API, `internal/api/handlers.go` | requests in progress, sessions in a table | CRUD of projects, jobs, targets, schedules, credentials; login; run | repository, scheduler, producer |
| Secrets, `internal/secrets`; variables, `internal/variables` | none | AES-GCM; `${namespace.key}` substitution | — |
| Processes, `cmd/server`, `cmd/executor`, `cmd/producer` | — | start-up, SIGTERM | all of the above |
| Migrations, `internal/migrations`, and the first account, `bootstrapAdminUser` | `schema_migrations`, tables, `users` | `RunMigrations`, `ListUsers`, `CreateUser` at every start | PostgreSQL, several processes at once |
| Sessions, `internal/api/handlers.go:180-350` | table `sessions`, the browser's cookie | login, logout, `RequireAuth`, expiry | browser |
| Host trust, `cmd/gruntdeck`, `internal/ssh/knownhosts.go` | the file `.gruntdeck/known_hosts` | `trust`, `scan-host`, the host key callback of every connection | the remote host, other processes |
| Browser UI, `web/app.js`, `web/login.html` | what each screen shows, what it is about to save | polling, editors, selectors | HTTP API |

What is hard here, and what would be correct:

* **The execution row is shared without a lock.** All tasks of an execution read
  the row and later write it back whole (`service.go:108-111`, `146-150`,
  `160-164`). Correct means: the counters never claim an outcome that did not
  happen, the row is exact when nothing overlaps, and `running` is a status some
  run will still change.
* **Errors of the final write are dropped**, and the write uses the context of the
  run, which a timeout or SIGTERM has cancelled by then.
* **The execution row is committed before its tasks** (`enqueue.go:119`, `131-156`).
* **At-least-once delivery**: retry, crash, rescue while the old run still hangs.
* **Table and cron are changed one after the other**, by several requests and
  several servers, and the table also by cascades and by statements whose handler
  has already answered with an error (`handlers.go:881-884`, `926-929`, `949-952`).
* **One remote command is five goroutines**, a context and a watchdog, and each line
  of its output an insert whose error is dropped (`logger.go:20`).
* **An enqueue reads with three statements and no transaction** the job, its options
  and the targets, each of which may be saved or deleted in between, and merges two
  maps whose keys differ in case only (`enqueue.go:60-116`, `postgres.go:256-308`).
* **A credential is updated by a read and a write** (`handlers.go:1043-1076`) while
  runs decrypt it at every step, and deletions spread along the foreign keys.
* **known_hosts is a file without a lock**, created, appended to and read by several
  processes, and a line may be written in part (`knownhosts.go:23-43`, `109-133`).
* **Processes start together on one database** and die within a migration or between
  the listing of the accounts and the creation of one (`migrations.go:28`,
  `handlers.go:180-212`).
* **A session ends by two clocks and in several tabs**: its row expires by the
  database's, its cookie by the browser's, and the answers to a login and a logout
  may cross (`postgres.go:1069-1084`, `handlers.go:255-328`).
* **The browser does not relate an answer to the screen it was asked for**: the log
  console polls with overlapping requests, the editor's form takes whatever job
  arrives and can be saved again before the first save is done, lists and statistics are separate requests (`app.js:397-502`, `504-608`,
  `1155-1273`).

Every such spot is listed under `hazards` with its line and the properties that
would notice it going wrong.

## 2. Modules

| Module | Contents |
|---|---|
| `Executions` | producers, River's task table, the runs of `ExecuteTarget`, executor processes |
| `TaskDelivery` | what the queue promises a producer; `Executions` is checked to implement it |
| `ExecutionsProofs` | theorems about `Executions`, and that it implements `TaskDelivery` |
| `Scheduler` | the table `schedules`, the cron of every server, the schedule handlers |
| `SchedulerProofs` | theorems about `Scheduler` |
| `Steps` | one run over the steps of its job: loops, job references, scripts, jobs that change meanwhile |
| `StepsProofs` | theorems about `Steps` |
| `RemoteCommand` | one call of `RunCommandWithCredential` with its goroutines and its host |
| `RemoteCommandProofs` | theorems about `RemoteCommand` |
| `Workspace` | the tables of projects, jobs, targets, credentials; what enqueues, updates and runs read of them |
| `WorkspaceProofs` | theorems about `Workspace` |
| `Startup` | migrations, the queue's tables and the first account, by processes that start together and die |
| `StartupProofs` | theorems about `Startup` |
| `HostTrust` | `known_hosts`, the commands that write it, the connections that read it, hosts that change keys |
| `HostTrustProofs` | theorems about `HostTrust` |
| `Sessions` | the table `sessions`, middleware and auth handlers, one browser with several tabs |
| `Projects` | the table `projects` and the browser's selector |
| `JobEditor` | the editor of a job: load, change, save, over jobs that others change |
| `JobDetail` | the detail screen of a job: statistics and list of its executions |
| `LogView` | the log console and its polls |
| `MCExecutions`, `MCScheduler`, `MCSteps`, `MCRemoteCommand`, `MCWorkspace` | small instances for TLC |
| `Screens` | `JobDetail`, `JobEditor`, `Projects` and `Sessions` side by side |
| `ScreensProofs` | theorems about `Screens`, hence about each of the four |
| `MCScreens` | a small instance of `Screens` for TLC |
| `MCProgress` | `Startup` and the liveness of `Sessions` and `LogView` side by side, for TLC |

`Executions` is the frame: what it calls the steps of a run (`StepsSucceed`,
`StepsFail`) is the walk of `Steps`, and what `Steps` calls a command
(`RunCommand`, `Chmod`, `RunScript`, `RemoveScript`) is one call of
`RemoteCommand`. What an `Executions` run takes for granted of the levels below,
that the steps end, is `WalkEnds` there and `CommandReturns` further down.
`Workspace` is what precedes an `Executions` enqueue (both have a `CreateExecution`,
the same step seen from either side), and it justifies what `Executions` relies on:
that nothing else removes an execution's row (`ExecutionsKept`). `Startup` is what
precedes all of them in every process (`MigrationsAreSafe`), and `HostTrust` is the
host key check within the dial of `RemoteCommand`. The modules of the browser stand on
the tables the others change; what others do to a table is there an action with the
effect on the rows it shows.

Each module also holds a few definitions marked *Variant*: a plausible bug in the
definition that follows them. No specification uses them; `mutants` in
`PROJECT.json` says which property each of them breaks.

### Executions

`execution` is the table, `enqueue` the progress of each producer, `task` the
River table, `run` what each worker slot does (`pc` names the point of
`ExecuteTarget` it has reached, `rec` is the local `execRecord`, `ctx` the context
River gave it), `executor` the processes. There is one action per database call:
a read and the write that follows it are two steps, since the code has no
transaction around them. A call fails when the context is cancelled, or at any
time if `DatabaseMayFail`; the code drops these errors, and so does the model.
`Claim`, `Finish`, `Rescue`, `Retry` and `JobTimeout` are River, an external
library: they follow the configuration `NewWorker` gives it, and River's rule that
the result of a run counts only while its task is still running. A rescue (one
hour) presupposes that the context of the run has ended (one minute). The steps of
a job are one action that succeeds or fails, or, in `HangingSpec`, never ends.

History variables (`oks`, `errs`, `overlapped`, `lost`) record what happened to
compare the row with; no action reads them.

### Scheduler

`row` is the table, `entries` and `entryIDs` are the two data structures of each
server's scheduler service, `request` the handlers in progress: a handler saves
the row (`Save`) and then, in a step of its own, registers or removes the entry
(`Register`). A statement ends with an error in one of two ways: it comes to nothing
(`Refuse`), or the client hangs up or the connection breaks (`Abandon`) and it may still
take effect, at once or later, without any cron being told (`TakesEffect`).
`StartCron`, `ListSchedules` and `RegisterListed` are `Start`;
`ListFails` is the error `cmd/server` only logs. `DeleteJob` is the cascade.
`disturbed` is history: the schedules that were changed where this server's
scheduler could not notice, which is each of them when a statement took effect behind an
error. Entry ids are reused in the model to keep it finite
(the library counts up): the model is thus less forgiving than the code.

### Steps

`jobs` and `steps` are the tables `jobs` and `job_steps`. `ReadRow` and `ReadSteps`
are the two statements of `GetJobByID`, with `UpdateJob` and `DeleteJob` free to
commit between them (each is one transaction, hence one action). `frames` is the
Go stack: the loop of `ExecuteTargetOnNode` and one loop of `executeJobRef` for
every reference being followed, each over the list it has read. `BeginStep` is
the head of a loop, `RefuseStep` any failure before the SSH client is called,
`RunCommand` and `CopyFile` a call that may fail before or after the command has
started, and `Upload`, `Chmod`, `RunScript`, `RemoveScript` the calls of
`RunScriptWithCredential`, the last one deferred. `ran` records what was started
on the host, `temps` counts the temporary scripts there. Log lines are left out,
as are the texts of commands and the substitution of variables in them.

`Traces` defines, without any walk, what a job consists of: the names of its
steps with the references replaced by what they refer to. It is built from `Chain`
(one member of each of the first n sets, one after the other) and `TracesWithin`
(references followed less than d deep), both recursive functions rather than
`RECURSIVE` operators, so that the theorems can speak of them. The properties compare
`ran` with it.

### RemoteCommand

`main` is the calling goroutine, `reader` the two `streamLog` goroutines, `waiter`
the one in `session.Wait`, `keepalive` and `probe` the watchdog, `conn` the client
connection, `pending` the output that has arrived and is not read. `logged` has, for every
line given to `recordLog`, whether it is in `log_entries` for sure (`"row"`) or its insert
reported an error (`"dropped"`), which may happen at any time and goes unnoticed. A line is *long* when it exceeds the scanner's buffer.
The host may fall silent in any state: no answer, no data, no reset.

### Workspace

`projects`, `job`, `target`, `credential` and `execution` are the tables; a job's row
carries the name of its list of options, since `AddJob` and `UpdateJob` save both in
one transaction. `ReferencesHold`, a part of the type, is the foreign keys: saving
checks them, `Cascade` and `DeleteCredential` follow them. Each handler that changes a
row is one action, because it is one statement or one transaction; the exception is
the update of a credential, `BeginUpdate` and `WriteCredential`.

`enqueue` is a call of `EnqueueExecutionWithOptions`: `ReadJob`, `ReadOptions` and
`MatchTargets` are its statements, with any change in between. `ReadOptions` is also
the loop over the options: `Found` is the lookup (a spelling of its own first, then any
that differs in case only, in the order of a Go map, which is any), `Accepted` the
checks, `Merged` the resulting map. The statement has no `ORDER BY` and its errors are
dropped, so the list it yields is any beginning of any order of the rows. `Resolve` is
the lookup of `${option.name}`.

A cipher is the pair of its secret and the nonce it was sealed with; `nonces` counts
the calls of `Encrypt`, so no two agree. `run` is a run as far as credentials go: the
target it has read, and the outcome of the last `ResolveCredential`. A failing statement
of a run ends it (`EndRun`), one of an enqueue refuses it (`EnqueueFails`).

`versions` is history: the rows a job had from the statement that read it to the one
that read its options. `overtaken` is history, too: another update has changed the
row since this one read it. An update that renames then undoes a rotation; the
properties say that this is the only way a rename changes a secret.

### Startup

`version` and `dirty` are the row of `schema_migrations`, `schema` is how many
migrations the tables really have had: a death between `Up`, `Apply` and `MarkClean`
takes them apart, as golang-migrate marks the version before it runs a file. `lock`
is its advisory lock, which goes when its holder dies. `ListUsers` and `CreateUser` are
`bootstrapAdminUser`: an error of the listing is taken for an empty table, and whatever
goes wrong with the creation is only logged. `faults` bounds deaths and failing
statements. `excused` and `blind` are history: a server whose creation went wrong; a
listing that failed, or that was done while another server was creating.

### HostTrust

`process` holds the commands (`Begin`, `ScanHostKey`, `Answer`, then the file) and the
connections (`Connect`, the file, `GetHostKeyCallback`, `Handshake`). `Stat` and `Create`
are the two steps of `GetKnownHostsPath`, which both run through. `Torn` is a line that
was written in part. The next key is appended to it and reported as added like any other,
and the two make one line that cannot be parsed (`Garbled`), or name some other host.
`knownhosts.New` refuses a file with either, until an operator repairs it (`Repair`,
external). A rotated host's old line stays,
so `Want` may have several keys. `recorded` and `trusted` are history: what commands were
told to trust, and what they reported as added, torn line or not; `torn` counts the
commands that failed in the middle of a line.

### Sessions

`session` is the table, `cookie` the browser's jar, `page` what each tab shows,
`request` what is under way: every tab has one slot for what the user does and, if it
is visible, one for its polls. `Send` takes the cookie of its moment; `RequireAuth`
looks the session up, the handlers act, `Receive` is the browser's reaction, `Lose` a
request or an answer that does not get through. `ExpireRow` and `ExpireCookie` are the
two clocks. `disturbed` and `replaced` are history: logins and logouts that crossed or
went wrong; tokens a login was sent over.

### Projects, JobEditor, JobDetail, LogView

One browser each, with the requests it has in flight (`fetch`, `load`, `save`, `open`;
their number is the bound, and `create` and `delete` of `Projects` are one each) and the tables they read; users, servers and other users
take steps in any order. The server's part of a request is one action per statement,
so `JobEditor` has `ReadSteps` and `ReadOptions` for the reads of `GetJobByID`. What the
browser does with an answer is one action: it is one JavaScript callback.

`Projects` has names as pairs of a lower case and a spelling, since the id of a project
is its name in lower case (`handlers.go:384`): `Put` is the insert that becomes an update
where the id exists. `JobEditor` tells the versions of steps and options apart by a
counter, and their rows' ids by the job they were first saved for (`Clash` is the
primary key). A form can be saved as often as there is room in `save`, before the answer to
the first save is there; `Commit` takes the saves in any order. `JobDetail` has, for the numbers shown, the sets of executions they stand
for. `LogView` has, for a log, how many of its entries are shown; `output` and `frame` are
the two elements of the page, one of which is hidden.

`crossed`, `disturbed`, `failed` and, in `JobEditor`, `standing` are history: that the user
opened something while an answer was on its way, that a request failed, that others have
changed what was loaded. `turn` is history, too: when each save was sent, until the server has
done it or a later one. The properties say what holds without that; the divergences below say what
happens with it. `LogView` needs none: whatever crosses, `FollowCatchesUp` says that it
does no lasting harm.

## 3. Runs

| Run | Instance | What it shows |
|---|---|---|
| `fleet` | 2 targets, 2 slots, 2 attempts | the row under overlapping runs: counters never exceed the outcomes, exact without overlap, tasks all or none, `running` has an owner, orphans stay queued |
| `retries` | 1 target, 2 executors, 2 attempts, failing database, copies may hang | two runs of a task only after a rescue; the record of an ended execution is final; every task ends |
| `live` | 2 targets, 1 slot, 2 attempts | every accepted execution settles; refinement of `TaskDelivery` with its fairness |
| `sigterm` | 1 target, 1 slot | **violation**: the shutdown announced as graceful leaves `running` behind |
| `schedule_many` | 1 server, 2 schedules, 3 definitions | no entry escapes the map; active schedules keep firing |
| `schedule_two` | 2 servers, 2 requests, 3 definitions | cron and table agree except where the code cannot know; only committed definitions fire |
| `steps` | 2 jobs, one referring to the other and maybe back, 6 lists of steps, references up to 3 deep | a success ran the whole job and nothing else, a failure a beginning of it; scripts are removed; a cycle ends with the context |
| `workspace` | 2 projects, 1 job, 1 target, 2 credentials, 2 lists of options, 2 updates, 3 changes | options that conform and agree under every spelling; credentials that open; executions that stay |
| `command` | 2 lines per stream, window of 2 | on success all output was given to the table, and lacks there only what an insert reported; nothing after the return, the call ends, no goroutine leaks |
| `trust` | 2 addresses, 2 keys, 2 commands, 1 connection | trust that was reported is lost only to a line that was torn before it, and it alone decides who is talked to: nobody else is accepted, and who has it is not refused |
| `screens` | 2 jobs, 1 execution, 2 openings; 2 jobs, 1 load, 2 saves, 2 of them in flight, 2 revisions; 2 ids of projects, 2 spellings, 2 listings; 2 tabs, 2 sessions | what is shown is of the thing selected, what is saved goes where it was loaded from and takes nothing back unless it was overtaken, the selector tells where new things go, no session stays open that nobody holds |
| `progress` | 2 servers, 2 names, 2 migrations, 2 faults; 2 tabs, 1 session; 2 logs of 1 entry, 2 requests | nobody works on a schema that is not whole; there is one account; servers come up, visible tabs leave an ended session, a console that stays on an execution catches up |

Why these bounds: two overlapping runs are what it takes to lose an update, and a
third adds only repetition; two attempts give a retry and a discard; two slots
let a rescued task run beside its old run. Two requests and two servers give
every order of two saves and two registrations; three entry ids leave a free one
for every schedule. A window of two lines is filled by the outputs chosen, so a
blocked command occurs. In `steps` three levels are a cycle gone round once and
entered again; a walk that would go deeper stands still until its context ends,
so `WalkEnds` asks what the code does at any depth. In `workspace`, `MaxChanges = 3` is
what it takes to begin two updates and delete, or to rotate under a rename that is
itself under a rename; the lists have a name declared twice with other choices, and two
spellings of one name, which is where order and case matter. Symmetry is used only in runs without liveness. Runs
switch the deadlock check off where the system ends (all tasks done, the call
returned, all commands and connections of `HostTrust` done).

`screens` and `progress` each check several components that share no variable.
`part`, chosen in the initial state, says which of them is at work; the others rest in
their initial state (`Startup`, in `progress`, in the state it reaches when everything is
up). A property speaks of one component only, so interleaving them would multiply the
states and show nothing more: the state graph is the union of the components' graphs,
each checked in full. In `progress` the two processes are servers, which take every step
an executor takes and two more; the proofs have any number of both. Two migrations give one that was applied before another fails,
two faults a death and a failing statement after it, or two deaths. Two requests in
flight are what it takes for answers to cross, and for saves: the editor has two saves, or a
save and a load (`Flights`); two tabs for one to end the session of
the other; a second key for a host that has changed it.

## 4. Fairness

* `QueueFairness`: executors that are up poll the queue and run River's maintenance;
  a run goes on from one database call to the next; a process that has stopped is
  started again (`restart: unless-stopped` in docker-compose.yml, or an operator).
  Nothing forces a producer to finish, a context to expire or a process to stop.
* `FairSpec` (Executions): in addition the steps of a job end. That is what
  `RunCommandWithCredential` does once the command is started (`CommandReturns`);
  on a host that falls silent earlier it may not (its second part).
* `HangingSpec`: the steps need not end. What is certain is River's timeout, and that
  a supervisor kills a process that does not stop.
* `FairSpec` (Scheduler): the cron loop fires, callbacks end.
* `FairSpec` (Steps): calls return and the timeout of the run comes; no statement has
  to fail.
* `FairSpec` (RemoteCommand): goroutines that can go on do so, hence an insert returns, maybe
  with an error; timers fire. The host, the network and the context owe nothing.
* `Fairness` (Startup): a server goes on with its start, one that waits for the lock gets
  it at last, and one that is down is started again (`restart: unless-stopped`), with
  whatever environment; other processes finish what they are at. Nobody has to repair a
  dirty schema or to set a password, so `ServersComeUp` excepts both.
* `Fairness` (Sessions): a visible tab polls every few seconds (`app.js:112-120`); what it
  sends again and again gets through at last, each way. Users, clocks, hidden tabs and
  all other requests owe nothing.
* `Fairness` (LogView): the interval of two seconds fires, answers that have come are
  shown, and requests that are made again and again do not all fail for ever.

## 5. Proofs

`ExecutionsProofs`, for any number of executions, targets, executors, slots and
attempts, from `BoundsAssumption` alone (finitely many targets, at least one slot
and one attempt):

* `TypeCorrect`: `Spec => []TypeOK`. The type is not inductive: that `Claim` never
  counts an attempt too many needs `AttemptLeft` (a task that can still be claimed
  has one left), which needs `NotInserted` (nothing is claimed before the producer
  commits), and that a slot's outcome is booked on an execution needs `BusyHasTask`.
* `RunningOwned`: `Spec => []RunningHasOwner`. Needs `CopiesMarked`: the copy a run is
  about to write says `running`, `succeeded` or `failed` according to its `pc`, so a
  `running` row is written only by a run that still has its final write before it.
* `CountersBacked`: `Spec => []CountersAreOutcomes`. The row alone is not inductive: a
  run may write back a copy as old as its run. `CopiesBacked` says of every copy in
  flight what the theorem says of the row, counting the outcome it is about to add
  (`oks` and `errs` are raised when the outcome happens, before it is written), and
  the counters of the history only grow, so an old copy stays backed.
* `OrphansQueued`: `Spec => []OrphanStaysQueued`. Needs `BusyClaimed` (a busy slot holds a
  task that is in the queue's table), and the lemmas that no step removes a task
  (`TaskStays`), that a slot keeps its task or claims one (`SlotStays`) and that a row
  changes only at its creation or under a run of its execution (`RowWriters`).
* `RunsAreSole`: `Spec => []SoleRunUnlessRescued`. `SoleInv` relates the task table to the
  slots: an idle slot holds nothing of an earlier run (`IdleHasNone`), and a task that is
  being run is `running` in the queue, or was rescued (`HeldIsRunning`). A claim takes no
  task that is `running`, so a second run of a task needs a rescue.
* `RecordsAreFinal`: `Spec => EndedRecordIsFinal`, an action property, from `TasksMatched`
  (the tasks there are belong to matched targets, and an execution that has one task has
  them all): once every task of an execution is completed or given up and no run of it is left,
  no task is added to it and none is claimed, and only a run writes the row.
* `RecordsAreExact`: `Spec => []SequentialRecordsExact`. As long as no runs of
  an execution overlapped and none missed its final write (`SequentialInv`), one run works at a time, the
  row counts what the history has unless that run is recording, and the copy it holds
  counts it, too. `TotalInv` keeps the total of the row and of every copy equal to the number of
  matched targets; `NothingRead`: a run that has yet to read the row holds no copy.
* `TasksAreDelivered`: `Spec => Delivery!Spec`. The initial state maps to an initial state
  of `TaskDelivery`, and each step of queue, executors and producers to one of its steps
  or a stutter: an attempt is given out once, a task never moves once it is settled.

`SchedulerProofs`, for any servers, schedules, definitions, requests and entry ids, from
`DefinitionsAssumption`:

* `TypeCorrect`. That an entry id is always free is the pigeonhole principle
  (`FreeIdIsFree`): there are no fewer ids than schedules, no two schedules have one entry, and
  the one to be added has none.
* `EntriesAreRemovable`: `Spec => []EntriesRemovable`, from `MapInv`: the entries of a cron and
  the map of its server are inverse to each other (`MapKnows`), a process that has not
  listed the schedules has an empty cron (`Fresh`), and a request under way is at a server
  that is up (`RequestSound`).
* `CronDoesFollow`: `Spec => []CronFollowsTable`. `FollowInv`: a schedule nobody has changed behind
  the back of a server is still to be registered there, by the start or by a request, or
  fires as its row says (`InStep`); a statement that takes effect behind an error changes it
  behind the back of all of them; a request about to register holds what is in the row
  (`RowOfRequest`); whatever a cron holds, or has fired, was once in the table and could be
  scheduled (`OnlySaved`).

`RemoteCommandProofs`, for any output, any window and any number of lines, from
`OutputsAssumption`:

* `TypeCorrect`.
* `OutputDoesComplete`: `Spec => OutputIsComplete`, an action property. `Lined`: the lines that are
  with the host or on their way are the rest of the output in order, and all that went
  before were short. `InTable`: every line a reader took was given to the table, which lacks only
  what an insert reported, whatever has become of the context. `EndsInTime`: a reader ends at a line that does not fit, or when no more
  can come. `CallInv` is what the call knows: that it reports success only of a command
  that succeeded, and returns only when both readers have ended. `OutputInv` is all of it.

`StepsProofs`, for any jobs, lists of steps and depth, from `StepsAssumption`:

* `TypeCorrect`: needs `InLoop` (a step in progress is the step begun last of the
  innermost loop) and, for the count of temporary scripts, `OnlyScriptInUse`.
* `ScriptsAreRemoved`: `Spec => []ScriptsRemoved`. The invariant `OnlyScriptInUse` counts: as
  long as nothing was disturbed there is exactly one temporary script from the
  upload to the removal and none elsewhere, so every way out must pass `RemoveScript`.
* `SuccessIsWhole`: `Spec => []SuccessRanWholeJob`, and `StartsAreAccounted`:
  `Spec => []LoopsAccountForStarts`, from one invariant, `WalkInv`. `Linked`: every loop runs
  a list its job has had, and the loop around it has begun a reference to that job.
  `Accounted`: what was started falls into consecutive pieces, one per loop, and the piece
  of the i-th loop is what `Done` allows for the steps it has finished, with references
  followed less than `MaxDepth - i` deep. Beginning a loop adds an empty piece, a step on
  the host extends the last one, the end of a loop joins its piece to that of the loop
  around it (`WalkOpens`, `WalkStarts`, `WalkReturns`). A job that is saved or deleted meanwhile
  can only add lists, and more lists, or a greater depth, take no trace away
  (`TracesGrow`).
* The lemmas about the recursive functions (`ChainIs`, `WithinIs`, `ChainGrows`, `TracesGrow`,
  `PiecesChain`) are inductions. The library's induction theorems take a predicate as a
  parameter, which the provers cannot instantiate; instead the set of counterexamples is
  formed and `Smallest` (from `WFMin`, which takes sets only) picks its least member. That a
  recursive function is what its definition says is shown in the same way.

`WorkspaceProofs`, for any tables, lists of options,
spellings, requests and runs, from `WorkspaceAssumption`:

* `TypeCorrect`: that every reference leads to a row is inductive together with the types;
  that a merge is a map needs `LastDeclaration` (a name that is declared has a last
  declaration, by the well-foundedness of the naturals).
* `OptionsDoConform` and `SpellingsDoAgree`: the merge itself is the lemmas `MergedConforms`
  and `MergedAgrees`. The invariant `EnqueueInv` carries them to the execution: until the
  options are read, the row the job has is among its versions (`Watched`), afterwards the
  merged options stand for one of them (`OptionsOf`), and the execution has what its
  enqueue has (`RecordOf`). `ConformsInOrder` makes the order of the rows irrelevant.
* `ExecutionsAreKept`: `RecordOf` again: the row is in `"default"`, and `"default"` stays.
* `CredentialsAreUsable` and `RenamesDoKeepSecrets`: rows open (`RowOpens`), so do those an
  update is about to write (`UpdateSound`), and a run knows only credentials that have
  had a row (`RunSound`). A rename nobody has overtaken holds what is in the table.

`StartupProofs`, for any number of processes, names, passwords, migrations and faults, from
`StartupAssumption`:

* `TypeCorrect`: needs `Given` (a server on its way has its environment, only servers look
  for accounts).
* `SchemaIsSafe`: `Spec => []MigrationsAreSafe`. Neither of its parts is inductive. `Stages`
  says who may be at the migrations (the holder of the lock, hence one) and how version,
  mark and schema are at each point; a process past its migrations has seen the last
  one, so nobody can begin another behind it.
* `AccountIsThere`: `Spec => []AccountToSignIn`, from `ServingHasOne` (the name is one, the
  password is there when an account is created) and `OneIsCreated`, which needs `Alone`
  (as long as nothing was done blindly, one server at most is about to create, and only
  while there is no account).
* `PasswordsAreKept`: no start changes a password or removes an account.

`HostTrustProofs`, for any commands, connections, hosts and keys, from
`HostTrustAssumption`:

* `TypeCorrect`: needs `Named` and `Asked` (who is at the file knows what for), and that every
  whole line was recorded first.
* `TrustIsKept`: `Spec => []TrustKept`, that no more reported keys are missing from the file
  than commands failed in the middle of a line. The count alone is not inductive:
  `Accounted` sets aside one key for a torn line as long as it is the last one, which the
  next key added takes (`AccountedAdd`), and says that a file without such a command has
  nothing in it that cannot be parsed.
* `TrustIsDecisive`: `Spec => []TrustDecides`. What a connection has read lies between what had been
  reported when it began and what was ever asked for (`Informed`); the verdict is then a
  matter of that connection alone (`OneMoves`). That no file is unreadable without a torn
  line is `Accounted` again.

`ScreensProofs`, for any jobs, executions, revisions, projects, names, tabs and tokens, and any
number of openings, loads, saves and listings in flight (a creation and a deletion of a
project are one at a time in the model, and a tab has one slot for its user and one for its
polls), from `ScreensAssumption`, which is those of the four modules. `part` is chosen once and only
its module moves, so `ScreensInv` is the conjunction of four invariants, each inductive by
itself:

* `ScreenIsOfOneJob`: `Spec => []ScreenOfOneJob`. As long as no job was opened while another was
  being opened and no answer failed, one opening at most is in flight, that of the selected job,
  and what it has shown and carries is of that job (`OpeningFits`); with all answers there
  the whole screen is (`ScreenFits`).
* `SavesDoSound`: `Spec => SavesAreSound`. Unless the editor was opened while an answer was under way,
  one load at most is out, no save with it, and the editor waits for it, hidden and empty; what
  is in the form, and in every save of it, is of the job that is edited (`OneEditor`). Unless
  the form is stale, what is loaded and shown is as new as the job, and a save that was not
  overtaken is as new as the job and as every save sent before it (`Fresh`); no field is
  newer than the last write (`NoneNewer`).
* `SelectorDoesShow`: `Spec => []SelectorShowsCurrent`. As long as no answers cross there is one
  request (`OneRequest`), the selector shows the current project unless its options are being
  renewed (`Shown`), and the answers have the projects that are selected with them
  (`AnswersFit`).
* `SessionsAreHeld`: `Spec => []LiveSessionsHeld`. `LoginShape` says what a slot can hold;
  `LoginAlone`: as long as logins and logouts neither cross nor go wrong there is one of them
  at most, and every live session that was not replaced is in the jar or in the answer
  to its login.
* `TypeCorrect` is the types of all four.

Every invariant, every action property and the step simulation of `TaskDelivery` is thus
proved. Only model-checked is liveness, which is out of the prover's reach (`WF_` stands for
`ENABLED`): `EveryTaskEnds`, `EveryExecutionSettles`, `DeliversTasks` (the refinement with the
fairness `TasksAreDelivered` leaves out), `ActiveSchedulesFire`, `CommandReturns`, `NothingLeaks`,
`WalkEnds`, `ServersComeUp`, `SignedOutTabsLeave` and `FollowCatchesUp`.

## 6. Where the code and its documentation part

`sigterm` is the run that refutes a sentence of the code: see `findings`. The following
were met while modelling. The models do what the code does in each case, which is why
the properties above are stated with the exceptions they have; no run refutes them.

* `README.md:124` and `133` place a worker in `cmd/server`; it starts none (`cmd/server/main.go:66`),
  so without an executor nothing is dispatched.
* `docs/guide.html:95` says that everything is isolated by project. Executions are created
  without the project of their job and land in `"default"`, and targets are matched
  across projects (`enqueue.go:110-119`).
* `README.md:126` says output is persisted per line. A line of more than 1 MB ends the
  reader of its stream, and the command succeeds without the rest (`client.go:154`). And a
  line whose insert fails, because the connection is lost or the column refuses its bytes, is
  missing from the record of a command that succeeds (`logger.go:20`, `postgres.go:667-680`).
* The schedule API answers 500 when its statement reports an error (`handlers.go:881-884`,
  `926-929`, `949-952`), also when the row was changed for all that. No cron is told, so a
  schedule that was deleted goes on firing, or a new one does not fire, until a restart or
  the next change of it.
* `gruntdeck trust` and `scan-host` print "Added" (`cmd/gruntdeck/main.go:81-87`, `102-109`) also
  when the key was written behind a line that was torn before (`knownhosts.go:128-132`), where
  no connection will find it.
* A job saved twice from one form, the second time before the first answer is there, may end
  up as the first save had it: the Save button stays enabled (`app.js:429-481`), and the
  server does not see which of two saves is the later one.
* `handlers.go:131` calls logout a public endpoint. `RequireAuth` (line 220) lets only the
  login past: with a session that has ended, a logout is answered 401 and the cookie
  stays.
* `knownhosts.go:67` tells the operator which command to run. For an IPv6 host on port 22 it
  names the host in brackets, to which `ScanHostKey` adds no port (line 77).
* `README.md:188` says that `ADMIN_PASSWORD` is used only at the very first start. When the
  listing of the accounts fails, a server creates another account (`handlers.go:185`).
* `README.md:59` calls the log view real-time. Answers that cross take entries away until
  the next poll (`app.js:1188`).
* The job editor saves a job with the project of the view, `"default"` in the view of all
  projects (`app.js:457`): an edit there moves the job.
* A project whose name yields an id that exists renames the project that is there
  (`postgres.go:41`), and the browser announces a creation (`app.js:298`).
* A success rate of zero is shown as 100 (`app.js:553`), and the list of executions looks
  for `completed_at` where the API sends `ended_at` (`app.js:576`, `models.go:89`).

## 7. Not modelled, and the plan

Left out for good: rendering and layout of the UI, the demonstration `test.go`, the
parsing of private keys, the cryptography itself, the text of the migrations, CORS and
static files, expiry of rows in River's table. Of the browser also: the lists and
editors of targets, schedules and credentials (their handlers are in `Workspace` and
`Scheduler`), the numbers of statistics and telemetry, the project of a job in the
editor. Sessions that expire or are replaced are never swept from their table; the
model keeps their rows, too, and states no bound.

Simplifications: in `Executions` the inventory's answer is any non-empty set of targets,
and no project is deleted (`ExecutionsKept` says why none needs to be); in `Workspace`
hosts, names and key paths are left out, and `EqualFold` is equality of lower case;
a statement whose context is cancelled either
took effect or did not, before the cancellation, except in `Scheduler`, where it may take
effect later; `Signal` in `RunCommandWithCredential`
does not block. In `HostTrust` a line that lacks
only its newline counts as torn, and two lines glued together are never the line of another
target. In `JobDetail` jobs are not deleted from a table, since executions outlive
them; in `Startup` a migration is one transaction, which holds of the files there are.

Order of the work to come:

1. Composition of `Startup` with `Executions`: an executor that is restarted migrates before
   it claims.
2. Theorems about `LogView`: what a console shows while answers cross.
3. The safety lemmas behind the liveness properties: that a run which goes on never waits
   for itself, and that what a fair step is to do stays possible until it is done.
