-------------------------------- MODULE Steps --------------------------------
(***************************************************************************)
(* The steps of a job on one target: what Executions calls "steps".        *)
(*                                                                         *)
(* ExecuteTarget loads the job with two statements (GetJobByID reads the   *)
(* row of jobs, then the rows of job_steps, outside any transaction) and   *)
(* ExecuteTargetOnNode runs the steps one after the other until one fails. *)
(* A job-ref step loads another job the same way and runs its steps in     *)
(* place; nothing keeps a job from referring to itself.  A script step     *)
(* copies the script to a temporary file of the host, runs it and removes  *)
(* the file.  Meanwhile the API changes and deletes the jobs.              *)
(***************************************************************************)
EXTENDS Integers, Sequences

CONSTANTS
  Jobs,        \* the jobs of the database
  Top,         \* the job of the execution
  Names,       \* what tells the steps of a job apart
  Bodies,      \* Bodies[j]: the lists of steps clients save for job j
  MaxDepth     \* bound: how deep job references are followed

Remote == {"command", "script", "file-copy"}
Step == [type : Remote \cup {"malformed"}, id : Names]
          \cup [type : {"job-ref"}, id : Jobs]

ASSUME StepsAssumption ==
  /\ Top \in Jobs
  /\ MaxDepth \in Nat \ {0}
  /\ DOMAIN Bodies = Jobs
  /\ \A j \in Jobs : Bodies[j] # {} /\ \A b \in Bodies[j] : b \in Seq(Step)

VARIABLES
  jobs,     \* the table jobs: the ids that have a row
  steps,    \* the table job_steps: the steps of each job, in order
  saved,    \* history: the lists of steps each job has had since the walk began
  frames,   \* the loops in progress, the innermost last: the job, its steps as
            \* they were read, and how many of them have been begun
  pc,       \* where the walk stands
  loading,  \* the job GetJobByID is reading
  outcome,  \* of the script, while its file is being removed
  ctx,      \* the context of the run
  host,     \* "well" until something on the host or on the way to it has failed
  ran,      \* history: the names of the steps that were started on the host
  temps     \* the temporary scripts on the host

tables == <<jobs, steps, saved>>
world == <<ctx, host>>
vars == <<tables, frames, pc, loading, outcome, world, ran, temps>>

AnyBody == {<<>>} \cup UNION {Bodies[j] : j \in Jobs}
Frame == [job : Jobs, steps : AnyBody, begun : Nat]

\* "row" and "body" are the two statements of GetJobByID; "next" is the head of
\* the innermost loop; "chmod", "script" and "rm" follow the upload of a script.
Points == {"row", "body", "next", "command", "file-copy", "upload", "chmod",
           "script", "rm", "ok", "err"}

TypeOK ==
  /\ jobs \in SUBSET Jobs
  /\ steps \in [Jobs -> AnyBody] /\ saved \in [Jobs -> SUBSET AnyBody]
  /\ \A j \in jobs : steps[j] \in saved[j]
  /\ frames \in Seq(Frame) /\ Len(frames) <= MaxDepth
  /\ \A i \in DOMAIN frames : frames[i].begun <= Len(frames[i].steps)
  /\ pc \in Points /\ loading \in Jobs /\ outcome \in {"none", "ok", "err"}
  /\ ctx \in {"live", "cancelled"} /\ host \in {"well", "failed"}
  /\ ran \in Seq(Names) /\ temps \in Nat

Init ==
  /\ jobs = Jobs
  /\ steps \in {b \in [Jobs -> AnyBody] : \A j \in Jobs : b[j] \in Bodies[j]}
  /\ saved = [j \in Jobs |-> {steps[j]}]
  /\ frames = <<>> /\ pc = "row" /\ loading = Top /\ outcome = "none"
  /\ ctx = "live" /\ host = "well"
  /\ ran = <<>> /\ temps = 0

Ended == pc \in {"ok", "err"}
Disturbed == ctx = "cancelled" \/ host = "failed"

----------------------------------------------------------------------------
(* LoadJob: GetJobByID, a statement at a time. *)

Fail == pc' = "err" /\ UNCHANGED <<tables, frames, loading, outcome, world, ran, temps>>

ReadRow ==
  /\ pc = "row"
  /\ \/ /\ ctx = "live" /\ loading \in jobs
        /\ pc' = "body"
        /\ UNCHANGED <<tables, frames, loading, outcome, world, ran, temps>>
     \/ (ctx = "cancelled" \/ loading \notin jobs) /\ Fail

\* Variant: the steps are read with a context of their own.
ReadStepsDetached ==
  /\ pc = "body" /\ Len(frames) < MaxDepth
  /\ frames' = Append(frames, [job |-> loading, steps |-> steps[loading], begun |-> 0])
  /\ pc' = "next"
  /\ UNCHANGED <<tables, loading, outcome, world, ran, temps>>

\* A job that was deleted since its row was read has no steps any more.
ReadSteps ==
  /\ pc = "body"
  /\ \/ /\ ctx = "live" /\ Len(frames) < MaxDepth
        /\ frames' = Append(frames, [job |-> loading, steps |-> steps[loading], begun |-> 0])
        /\ pc' = "next"
        /\ UNCHANGED <<tables, loading, outcome, world, ran, temps>>
     \/ ctx = "cancelled" /\ Fail

StatementFails == pc \in {"row", "body"} /\ Fail

----------------------------------------------------------------------------
(* The loop of ExecuteTargetOnNode and, one level further in, executeJobRef. *)

Inner == frames[Len(frames)]
Current == Inner.steps[Inner.begun]      \* the step begun last

\* Where ExecuteStep goes with a step of each type.
EntryPoint(step) ==
  CASE step.type = "script"  -> "upload"
    [] step.type = "job-ref" -> "row"
    [] OTHER -> step.type

\* The head of the loop: ExecuteStep and its handler take the next step up.
BeginStep ==
  /\ pc = "next" /\ Inner.begun < Len(Inner.steps)
  /\ LET step == Inner.steps[Inner.begun + 1]
     IN /\ step.type # "malformed"
        /\ pc' = EntryPoint(step)
        /\ loading' = IF step.type = "job-ref" THEN step.id ELSE loading
  /\ frames' = [frames EXCEPT ![Len(frames)].begun = @ + 1]
  /\ UNCHANGED <<tables, outcome, world, ran, temps>>

\* A step fails before anything leaves the process: its attributes do not parse or
\* lack a value, its type is unknown, its source path is refused or its credential
\* cannot be read.
RefuseStep ==
  /\ pc = "next" /\ Inner.begun < Len(Inner.steps)
  /\ Inner.steps[Inner.begun + 1].type # "job-ref"
  /\ Fail

\* Variant: the end of a referenced job ends the walk.
EndWalk ==
  /\ pc = "next" /\ Inner.begun = Len(Inner.steps)
  /\ frames' = <<>> /\ pc' = "ok"
  /\ UNCHANGED <<tables, loading, outcome, world, ran, temps>>

EndLoop ==
  /\ pc = "next" /\ Inner.begun = Len(Inner.steps)
  /\ frames' = SubSeq(frames, 1, Len(frames) - 1)
  /\ pc' = IF Len(frames) = 1 THEN "ok" ELSE "next"
  /\ UNCHANGED <<tables, loading, outcome, world, ran, temps>>

----------------------------------------------------------------------------
(* The calls of the SSH client. *)

StartOnHost == ran' = Append(ran, Current.id)

\* Variant: an error of the client is not returned.
SwallowError ==
  /\ StartOnHost \/ UNCHANGED ran
  /\ pc' = "next"
  /\ UNCHANGED <<tables, frames, loading, outcome, world, temps>>

\* A call on the host may fail before it is started or after.
Attempt ==
  /\ \/ StartOnHost /\ pc' \in {"next", "err"}
     \/ pc' = "err" /\ UNCHANGED ran
  /\ UNCHANGED <<tables, frames, loading, outcome, world, temps>>

\* A cancelled context does not keep a command that ends at once from succeeding:
\* the select may take either channel.
RunCommand == pc = "command" /\ Attempt

\* The copy of a file does not look at the context.
CopyFile == pc = "file-copy" /\ Attempt

\* RunScriptWithCredential: the copy.  When it fails the file may be there already.
Upload ==
  /\ pc = "upload"
  /\ \/ pc' = "chmod" /\ temps' = temps + 1
     \/ pc' = "err" /\ UNCHANGED temps
     \/ pc' = "err" /\ host = "failed" /\ temps' = temps + 1
  /\ UNCHANGED <<tables, frames, loading, outcome, world, ran>>

\* chmod +x on the file it has just written.
Chmod ==
  /\ pc = "chmod"
  /\ \/ pc' = "script" /\ UNCHANGED outcome
     \/ Disturbed /\ pc' = "rm" /\ outcome' = "err"
  /\ UNCHANGED <<tables, frames, loading, world, ran, temps>>

\* Variant: the removal is not deferred.
RunScriptAndReturn ==
  /\ pc = "script"
  /\ \/ StartOnHost /\ outcome' \in {"ok", "err"}
     \/ outcome' = "err" /\ UNCHANGED ran
  /\ pc' = IF outcome' = "ok" THEN "rm" ELSE "err"
  /\ UNCHANGED <<tables, frames, loading, world, temps>>

RunScript ==
  /\ pc = "script"
  /\ \/ StartOnHost /\ outcome' \in {"ok", "err"}
     \/ outcome' = "err" /\ UNCHANGED ran
  /\ pc' = "rm"
  /\ UNCHANGED <<tables, frames, loading, world, temps>>

\* The deferred rm -f, a command of its own with the context of the run; its error
\* is dropped.
RemoveScript ==
  /\ pc = "rm"
  /\ \/ temps' = temps - 1
     \/ Disturbed /\ UNCHANGED temps
  /\ pc' = IF outcome = "ok" THEN "next" ELSE "err"
  /\ outcome' = "none"
  /\ UNCHANGED <<tables, frames, loading, world, ran>>

----------------------------------------------------------------------------
(* What goes on around the walk. *)

\* The transaction of UpdateJob replaces the row and all of the steps.
UpdateJob(j, body) ==
  /\ ~Ended
  /\ j \in jobs
  /\ steps' = [steps EXCEPT ![j] = body]
  /\ saved' = [saved EXCEPT ![j] = @ \cup {body}]
  /\ UNCHANGED <<jobs, frames, pc, loading, outcome, world, ran, temps>>

DeleteJob(j) ==
  /\ ~Ended
  /\ j \in jobs
  /\ jobs' = jobs \ {j}
  /\ steps' = [steps EXCEPT ![j] = <<>>]
  /\ UNCHANGED <<saved, frames, pc, loading, outcome, world, ran, temps>>

\* River's timeout or the SIGTERM of the executor.
ContextEnds ==
  /\ ~Ended /\ ctx = "live"
  /\ ctx' = "cancelled"
  /\ UNCHANGED <<tables, frames, pc, loading, outcome, host, ran, temps>>

\* The host goes down, runs full or is cut off, for a while or for good.
HostFails ==
  /\ ~Ended /\ host = "well"
  /\ host' = "failed"
  /\ UNCHANGED <<tables, frames, pc, loading, outcome, ctx, ran, temps>>

Walk ==
  \/ ReadRow    \/ ReadSteps  \/ BeginStep \/ RefuseStep \/ EndLoop
  \/ RunCommand \/ CopyFile
  \/ Upload     \/ Chmod      \/ RunScript \/ RemoveScript

Next ==
  \/ Walk \/ StatementFails \/ ContextEnds \/ HostFails
  \/ \E j \in Jobs : DeleteJob(j) \/ \E body \in Bodies[j] : UpdateJob(j, body)

Spec == Init /\ [][Next]_vars

\* Calls return (RemoteCommand says on which hosts) and the timeout comes.  No
\* statement has to fail.
FairSpec == Spec /\ WF_vars(Walk) /\ WF_vars(ContextEnds)

----------------------------------------------------------------------------
(* What a walk leaves behind. *)

Cat(S, T) == {s \o t : s \in S, t \in T}

\* Chain(P)[n]: a member of each of the first n sets of P, one after the other.
Chain(P) ==
  LET f[n \in 0..Len(P)] == IF n = 0 THEN {<<>>} ELSE Cat(f[n - 1], P[n]) IN f

\* What a walk may leave of each step of a list, if traces[j] is what it may leave
\* of job j.
Parts(traces, body) ==
  [n \in 1..Len(body) |->
     CASE body[n].type = "job-ref"   -> traces[body[n].id]
       [] body[n].type = "malformed" -> {}
       [] OTHER -> {<<body[n].id>>}]

\* By the definition of a job and of a job reference, independently of the walk:
\* the steps each job consists of when its references are followed less than d deep,
\* every reference standing for any of the lists of the job referred to.
TracesWithin(lists) ==
  LET f[d \in 0..MaxDepth] ==
        [j \in Jobs |->
           IF d = 0 THEN {}
           ELSE UNION {Chain(Parts(f[d - 1], body))[Len(body)] : body \in lists[j]}]
  IN f

\* The lists of steps a walk may have read for a job: those it has had, or none
\* at all if it was deleted.
Readable == [j \in Jobs |-> saved[j] \cup (IF j \in jobs THEN {} ELSE {<<>>})]

Traces == TracesWithin(Readable)[MaxDepth]

\* A run that succeeds has done all of its job and nothing else: every step of
\* every list it met, in order, once, with the references in their places.  What it
\* cannot be trusted for is which list, and a job deleted between the two statements
\* of GetJobByID counts as one without steps.
SuccessRanWholeJob == pc = "ok" => ran \in Traces[Top]

\* How many steps of a loop are behind it: of a loop around another one, all but the
\* reference it is in.
Behind(i) == IF i = Len(frames) THEN frames[i].begun ELSE frames[i].begun - 1

\* Between two steps, what was started on the host is what the loops in progress
\* have behind them: no step is skipped or repeated on the way in or out of a
\* reference.  Every leaf of the loops' own lists accounts for one start, and a
\* finished reference for a whole trace of its job.
LoopsAccountForStarts ==
  pc = "next" =>
    LET piece == [i \in 1..Len(frames) |-> Chain(Parts(Traces, frames[i].steps))[Behind(i)]]
    IN ran \in Chain(piece)[Len(frames)]

\* A script step cleans up after itself on every path (client.go:283 says RunScript
\* "deletes it afterward"): when the walk has ended, a temporary script is left only
\* if the context was cancelled or the host failed.
ScriptsRemoved == Ended /\ temps > 0 => Disturbed

\* A job that refers to itself, directly or through another, is followed until the
\* context of the run ends, and then the walk ends with it.
WalkEnds == <>Ended
=============================================================================
