------------------------------ MODULE JobEditor ------------------------------
(***************************************************************************)
(* The job editor of the browser (web/app.js) and what it does to the      *)
(* table of jobs.  Opening the editor clears its form and asks for the     *)
(* job; the answer fills the form that is open by then.  Saving sends the  *)
(* form as a whole, to the job being edited or as a new one; the answer    *)
(* closes the editor that is open by then.  The form can be edited and     *)
(* saved again before the answer is there, and the server may come to the  *)
(* later save first.  Others save and delete jobs meanwhile                *)
(* (handleUpdateJob in internal/api/handlers.go, GetJobByID and UpdateJob  *)
(* in internal/repository/postgres.go).  The project of a job is left out. *)
(***************************************************************************)
EXTENDS Naturals, FiniteSets

CONSTANTS
  Jobs,      \* the ids jobs may have
  Initial,   \* the jobs there are in the beginning
  Loads,     \* bound: the requests for a job in flight
  Saves,     \* bound: the saves in flight
  Flights,   \* bound: the requests in flight, loads and saves together
  MaxRev,    \* bound: how often a field is written
  None       \* no job

JobEditorAssumption ==
  Initial \subseteq Jobs /\ None \notin Jobs /\ MaxRev \in Nat \ {0}

Fields == {"steps", "options"}

\* A field is what it was written as; 0 is empty.  The rows of steps and options have ids
\* of their own, which come from the job they were first saved for.
Value == [rev : 0..MaxRev, ids : Jobs \cup {None}]
Empty == [rev |-> 0, ids |-> None]
Content == [Fields -> Value]
Blank == [f \in Fields |-> Empty]

VARIABLES
  job,      \* the table: the content of each job, or NoRow
  shown,    \* whether the editor can be seen
  editing,  \* jobEditorEditingID
  form,     \* its fields
  load,     \* openJobEditor: the requests in flight
  save,     \* submitJobEditor: the requests in flight
  rev,      \* how often a field was written
  standing, \* history: the editor was opened while an answer was on its way ("crossed"), its
            \* form lacks something its job has by now ("stale"), or neither ("sound")
  turn      \* history: rev when a save of a sound form was sent; 0 as soon as the form is no
            \* longer sound, or the server has done this save or a later one

editor == <<shown, editing, form>>
history == <<standing, turn>>
vars == <<job, editor, load, save, rev, history>>

NoRow == [there |-> FALSE, content |-> Blank]
Rows == {j \in Jobs : job[j] # NoRow}
NoLoad == [pc |-> "idle", of |-> None, content |-> Blank]
NoSave == [pc |-> "idle", to |-> None, content |-> Blank]

TypeOK ==
  /\ job \in [Jobs -> [there : BOOLEAN, content : Content]] /\ shown \in BOOLEAN
  /\ editing \in Jobs \cup {None} /\ form \in Content
  /\ load \in [Loads -> [pc : {"idle", "steps", "options", "ok", "error"},
                         of : Jobs \cup {None}, content : Content]]
  /\ save \in [Saves -> [pc : {"idle", "sent", "ok"}, to : Jobs \cup {None},
                         content : Content]]
  /\ rev \in 0..MaxRev
  /\ standing \in {"sound", "stale", "crossed"} /\ turn \in [Saves -> 0..MaxRev]
  /\ \A j \in Rows, f \in Fields : job[j].content[f].ids \in {j, None}

Init ==
  /\ job = [j \in Jobs |->
              IF j \in Initial
              THEN [there |-> TRUE, content |-> [f \in Fields |-> [rev |-> 1, ids |-> j]]]
              ELSE NoRow]
  /\ shown = FALSE /\ editing = None /\ form = Blank
  /\ load = [l \in Loads |-> NoLoad] /\ save = [s \in Saves |-> NoSave]
  /\ rev = 1 /\ standing = "sound" /\ turn = [s \in Saves |-> 0]

Waiting == (\E s \in Saves : save[s] # NoSave) \/ \E l \in Loads : load[l] # NoLoad

Room ==
  Cardinality({s \in Saves : save[s] # NoSave}) + Cardinality({l \in Loads : load[l] # NoLoad})
    < Flights

Becomes(now) == standing' = now /\ turn' = [s \in Saves |-> 0]

\* The job has got something that is not in the form.
FormAges == Becomes(IF standing = "crossed" THEN "crossed" ELSE "stale")

----------------------------------------------------------------------------
(* Opening. *)

\* Variant: the form is left to the answer.
FormKept == UNCHANGED form

FormCleared == form' = Blank

\* A new job is shown at once, one to be edited when its answer is there.  (The modal
\* covers the list, but not while a request is on its way.)
openJobEditor(j) ==
  /\ ~shown
  /\ editing' = j /\ FormCleared
  /\ Becomes(IF Waiting THEN "crossed" ELSE "sound")
  /\ IF j = None THEN shown' = TRUE /\ UNCHANGED load
     ELSE /\ \E l \in Loads :
               /\ load[l] = NoLoad /\ Room
               /\ load' = [load EXCEPT ![l] = [NoLoad EXCEPT !.pc = "steps", !.of = j]]
          /\ UNCHANGED shown
  /\ UNCHANGED <<job, save, rev>>

Part(l, f) == [load[l].content EXCEPT ![f] = job[load[l].of].content[f]]

Loaded(l, pc, content) ==
  /\ load' = [load EXCEPT ![l].pc = pc, ![l].content = content]
  /\ UNCHANGED <<job, editor, save, rev>>

\* GetJobByID: the row and the steps of the job.  (What changes between these two statements
\* makes the form stale as much as what changes after them.)
ReadSteps(l) ==
  /\ load[l].pc = "steps"
  /\ \/ load[l].of \in Rows /\ Loaded(l, "options", Part(l, "steps"))
     \/ Loaded(l, "error", Blank)
  /\ UNCHANGED history

\* The third one: the options; an error leaves them out.
ReadOptions(l) ==
  /\ load[l].pc = "options"
  /\ \/ Loaded(l, "ok", Part(l, "options")) /\ UNCHANGED history
     \/ Loaded(l, "ok", load[l].content) /\ FormAges

\* An answer that is not ok shows the form empty.
LoadArrives(l) ==
  /\ load[l].pc \in {"ok", "error"}
  /\ load' = [load EXCEPT ![l] = NoLoad]
  /\ shown' = TRUE
  /\ IF load[l].pc = "ok"
     THEN form' = load[l].content /\ UNCHANGED history
     ELSE FormAges /\ UNCHANGED form
  /\ UNCHANGED <<job, editing, save, rev>>

\* Without an answer there is an alert and no editor, but editing stays.
LoadLost(l) ==
  /\ load[l] # NoLoad
  /\ load' = [load EXCEPT ![l] = NoLoad]
  /\ UNCHANGED <<job, editor, save, rev, history>>

----------------------------------------------------------------------------
(* Editing and saving. *)

Edit(f) ==
  /\ shown /\ rev < MaxRev
  /\ rev' = rev + 1
  /\ form' = [form EXCEPT ![f].rev = rev + 1]
  /\ UNCHANGED <<job, shown, editing, load, save, history>>

closeJobEditor ==
  /\ shown
  /\ shown' = FALSE /\ editing' = None
  /\ UNCHANGED <<job, form, load, save, rev, history>>

\* Saving is possible whatever is in flight.  (The form has a name by now, which the user
\* typed if it came up empty.)
submitJobEditor(s) ==
  /\ shown /\ save[s] = NoSave /\ Room
  /\ save' = [save EXCEPT ![s] = [pc |-> "sent", to |-> editing, content |-> form]]
  /\ turn' = [turn EXCEPT ![s] = IF standing = "sound" THEN rev ELSE 0]
  /\ UNCHANGED <<job, editor, load, rev, standing>>

\* The ids of steps and options are unique in their tables.
Clash(s, j) ==
  \E f \in Fields :
    LET v == save[s].content[f] IN
    /\ v.rev # 0 /\ v.ids \notin {j, None}
    /\ v.ids \in Rows /\ job[v.ids].content[f].rev # 0

\* job_id is set to the job that is saved.
Owned(s, j) ==
  [f \in Fields |->
     IF save[s].content[f].rev = 0 THEN Empty ELSE [save[s].content[f] EXCEPT !.ids = j]]

\* handleCreateJob gives a new job an id; handleUpdateJob needs a row.  One transaction
\* replaces row, steps and options; an error undoes it, and is an alert.  The server takes
\* the saves in any order, and none of them says what it was made from.
Commit(s) ==
  /\ save[s].pc = "sent"
  /\ \/ /\ \E j \in Jobs :
             /\ IF save[s].to = None THEN j \notin Rows ELSE j = save[s].to /\ j \in Rows
             /\ ~Clash(s, j)
             /\ job' = [job EXCEPT ![j] = [there |-> TRUE, content |-> Owned(s, j)]]
        /\ save' = [save EXCEPT ![s] = [NoSave EXCEPT !.pc = "ok"]]
        /\ turn' = [t \in Saves |-> IF t = s \/ turn[t] < turn[s] THEN 0 ELSE turn[t]]
     \/ /\ save' = [save EXCEPT ![s] = NoSave]
        /\ turn' = [turn EXCEPT ![s] = 0]
        /\ UNCHANGED job
  /\ UNCHANGED <<editor, load, rev, standing>>

\* A lost answer is an alert.  (If it is lost before the server comes to the save, this is on
\* its way until then.)
SaveArrives(s) ==
  /\ save[s].pc = "ok"
  /\ save' = [save EXCEPT ![s] = NoSave]
  /\ \/ shown' = FALSE /\ editing' = None
     \/ UNCHANGED <<shown, editing>>
  /\ UNCHANGED <<job, form, load, rev, history>>

----------------------------------------------------------------------------
(* Others. *)

Outdates(j) ==
  IF editing = j \/ (\E s \in Saves : save[s].to = j) \/ (\E l \in Loads : load[l].of = j)
  THEN FormAges ELSE UNCHANGED history

OtherSaves(j, f) ==
  /\ j \in Rows /\ rev < MaxRev
  /\ rev' = rev + 1
  /\ job' = [job EXCEPT ![j].content[f] = [rev |-> rev + 1, ids |-> j]]
  /\ Outdates(j)
  /\ UNCHANGED <<editor, load, save>>

OtherDeletes(j) ==
  /\ j \in Rows
  /\ job' = [job EXCEPT ![j] = NoRow]
  /\ Outdates(j)
  /\ UNCHANGED <<editor, load, save, rev>>

----------------------------------------------------------------------------
Next ==
  \/ \E j \in Jobs : (j \in Rows /\ openJobEditor(j)) \/ OtherDeletes(j)
  \/ openJobEditor(None) \/ closeJobEditor
  \/ \E s \in Saves : submitJobEditor(s) \/ Commit(s) \/ SaveArrives(s)
  \/ \E l \in Loads :
       ReadSteps(l) \/ ReadOptions(l) \/ LoadArrives(l) \/ LoadLost(l)
  \/ \E f \in Fields : Edit(f)
  \/ \E j \in Jobs, f \in Fields : OtherSaves(j, f)

Spec == Init /\ [][Next]_vars

----------------------------------------------------------------------------
(* What somebody who edits a job relies on. *)

\* As long as the editor was not opened while an answer was on its way: what is saved for
\* a job was loaded from that job, and a new job from none ...
OfOneJob(s) == \A f \in Fields : save[s].content[f].ids \in {None, save[s].to}

\* ... and the save takes nothing back: what the user did not touch stays as it is in the
\* table, and what was saved from the same form before is not undone, if the form was loaded
\* in full, nobody else has saved the job since, and the server has not done a later save of
\* the form before this one.
TakesNothingBack(s) ==
  save[s].to # None =>
    \A f \in Fields : job'[save[s].to].content[f].rev >= job[save[s].to].content[f].rev

\* Whatever form ends up in which job's editor: the steps and options of a job do not get
\* into another one while it has them.
PartsStay(s) ==
  \A f \in Fields, j \in Rows :
    save[s].content[f].rev # 0 /\ save[s].content[f].ids = j /\ job[j].content[f].rev # 0
      => \A k \in Jobs \ {j} : job'[k] = job[k]

\* Saving a form, once or again before the answer is there (submitJobEditor), does to the
\* table what its user has seen, and to no other job.
SavesAreSound ==
  [][\A s \in Saves :
       save[s].pc = "sent" /\ save'[s].pc = "ok" =>
         /\ standing # "crossed" => OfOneJob(s)
         /\ turn[s] # 0 => TakesNothingBack(s)
         /\ PartsStay(s)]_vars
=============================================================================
