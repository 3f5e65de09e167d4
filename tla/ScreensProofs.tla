---------------------------- MODULE ScreensProofs ----------------------------
(***************************************************************************)
(* What a user of the browser relies on, for any number of jobs, projects, *)
(* tabs and requests in flight.  Each part has an inductive invariant of   *)
(* its own: the types, the shape of what is in flight, and what holds as   *)
(* long as the histories say that nothing has crossed, failed or changed   *)
(* under the screen.  They are put together at the end.                    *)
(***************************************************************************)
EXTENDS Screens, TLAPS

----------------------------------------------------------------------------
(* JobDetail.                                                               *)

Owned(j) == {e \in Detail!Rows : execution[e].job = j}

OpenShape ==
  \A o \in Opens :
    /\ open[o].pc = "idle" => open[o] = Detail!NoOpen
    /\ open[o].pc # "idle" => open[o].of \in Jobs

\* One opening at most is in flight, that of the job that is selected; what it has shown and
\* what it carries is of this job, and its list has what has been counted.
OpeningFits ==
  /\ \A o, p \in Opens : open[o] # Detail!NoOpen /\ open[p] # Detail!NoOpen => o = p
  /\ \A o \in Opens : open[o] # Detail!NoOpen =>
       /\ selected \in {open[o].of, None}
       /\ open[o].pc \in {"stats", "statsHere", "list", "listHere"} => header = open[o].of
       /\ open[o].pc = "statsHere" => open[o].stats \subseteq Owned(open[o].of)
       /\ open[o].pc \in {"list", "listHere"} => stats \subseteq Owned(open[o].of)
       /\ open[o].pc = "listHere" =>
            stats \subseteq open[o].list /\ open[o].list \subseteq Owned(open[o].of)

\* With all answers there the screen is that of the job that is selected.
ScreenFits ==
  ~Detail!Waiting /\ selected # None =>
    header = selected /\ stats \subseteq activity /\ activity \subseteq Owned(selected)

DetailInv ==
  /\ Detail!TypeOK /\ OpenShape
  /\ ~reopened /\ ~failed => OpeningFits /\ ScreenFits

Openings ==
  [Opens -> [of : Jobs \cup {None},
             pc : {"idle", "job", "jobHere", "stats", "statsHere", "list", "listHere"},
             stats : SUBSET Executions, list : SUBSET Executions]]

LEMMA DetailInit == Detail!Init => DetailInv
<1> SUFFICES ASSUME Detail!Init
             PROVE  DetailInv
  OBVIOUS
<1>1. Detail!TypeOK /\ OpenShape
  BY DEF Detail!Init, Detail!TypeOK, Detail!NoOpen, Detail!NoRow, OpenShape
<1>2. OpeningFits /\ ScreenFits
  BY DEF Detail!Init, OpeningFits, ScreenFits
<1> QED BY <1>1, <1>2 DEF DetailInv

\* Executions keep their job.
LEMMA DetailTable ==
  ASSUME DetailInv, NEW e \in Executions,
         (\E j \in Jobs : Detail!CreateExecution(e, j)) \/ Detail!UpdateExecution(e)
         \/ Detail!runCurrentJobDetail(e)
  PROVE  DetailInv'
<1>0. /\ Detail!TypeOK /\ OpenShape
      /\ ~reopened /\ ~failed => OpeningFits /\ ScreenFits
      /\ UNCHANGED <<selected, header, stats, activity, open, deletion, reopened, failed>>
  BY DEF DetailInv, Detail!CreateExecution, Detail!UpdateExecution, Detail!runCurrentJobDetail,
     Detail!screen
<1>1. execution \in [Executions -> [job : Jobs, ended : BOOLEAN] \cup {Detail!NoRow}]
  BY <1>0 DEF Detail!TypeOK
<1>2. Detail!NoRow.job = None /\ None \notin Jobs
  BY ScreensAssumption DEF Detail!JobDetailAssumption, Detail!NoRow
<1>3. /\ execution' \in [Executions -> [job : Jobs, ended : BOOLEAN] \cup {Detail!NoRow}]
      /\ \A d \in Detail!Rows : execution'[d] # Detail!NoRow /\ execution'[d].job = execution[d].job
  <2>1. ASSUME NEW j \in Jobs, Detail!CreateExecution(e, j)
        PROVE  /\ execution' \in [Executions -> [job : Jobs, ended : BOOLEAN] \cup {Detail!NoRow}]
               /\ \A d \in Detail!Rows : execution'[d] # Detail!NoRow /\ execution'[d].job = execution[d].job
    BY <1>1, <2>1 DEF Detail!CreateExecution, Detail!Rows
  <2>2. CASE Detail!UpdateExecution(e)
    <3>1. execution[e] \in [job : Jobs, ended : BOOLEAN] /\ execution' = [execution EXCEPT ![e].ended = ~@]
      BY <1>1, <2>2 DEF Detail!UpdateExecution, Detail!Rows
    <3>2. execution'[e] \in [job : Jobs, ended : BOOLEAN] /\ execution'[e].job = execution[e].job
      BY <1>1, <3>1
    <3>3. \A d \in Executions : d # e => execution'[d] = execution[d]
      BY <1>1, <3>1
    <3>4. execution' = [d \in Executions |-> execution'[d]]
      BY <1>1, <3>1
    <3>5. execution' \in [Executions -> [job : Jobs, ended : BOOLEAN] \cup {Detail!NoRow}]
      BY <1>1, <3>2, <3>3, <3>4
    <3>6. execution'[e] # Detail!NoRow
      BY <1>2, <3>2
    <3> QED BY <3>2, <3>3, <3>5, <3>6 DEF Detail!Rows
  <2>3. CASE Detail!runCurrentJobDetail(e)
    <3>1. selected \in Jobs /\ Detail!CreateExecution(e, selected)
      BY <1>0, <2>3 DEF Detail!runCurrentJobDetail, Detail!TypeOK
    <3> QED BY <2>1, <3>1
  <2> QED BY <2>1, <2>2, <2>3
<1>4. \A j : Owned(j) \subseteq Owned(j)'
  BY <1>3 DEF Owned, Detail!Rows
<1>5. Detail!TypeOK' /\ OpenShape'
  BY <1>0, <1>3 DEF Detail!TypeOK, OpenShape
<1>6. ASSUME ~reopened', ~failed'
      PROVE  OpeningFits' /\ ScreenFits'
  <2>1. OpeningFits /\ ScreenFits
    BY <1>0, <1>6
  <2>2. OpeningFits'
    BY <1>0, <1>4, <2>1 DEF OpeningFits
  <2>3. ScreenFits'
    BY <1>0, <1>4, <2>1 DEF ScreenFits, Detail!Waiting
  <2> QED BY <2>2, <2>3
<1> QED BY <1>5, <1>6 DEF DetailInv

\* An opening makes one step; what is asked of its new record is what the step has to show.
LEMMA DetailServed ==
  ASSUME DetailInv, NEW o \in Opens,
         Detail!handleGetJob(o) \/ Detail!handleGetJobStats(o) \/ Detail!handleGetJobExecutions(o)
         \/ Detail!ShowJob(o) \/ Detail!loadJobStats(o)
  PROVE  DetailInv'
<1>0. /\ Detail!TypeOK /\ OpenShape
      /\ ~reopened /\ ~failed => OpeningFits /\ ScreenFits
      /\ UNCHANGED <<execution, selected, activity, deletion, reopened, failed>>
      /\ open \in Openings
  BY DEF DetailInv, Detail!TypeOK, Openings, Detail!screen, Detail!handleGetJob,
     Detail!handleGetJobStats,
     Detail!handleGetJobExecutions, Detail!ShowJob, Detail!loadJobStats
<1>1. \A j : Owned(j)' = Owned(j) /\ Owned(j) \subseteq Executions
  BY <1>0 DEF Owned, Detail!Rows
<1>2. /\ open[o].pc # "idle" /\ open[o] # Detail!NoOpen
      /\ open'[o].of = open[o].of /\ open'[o].pc # "idle" /\ open'[o] # Detail!NoOpen
      /\ \A p \in Opens : p # o => open'[p] = open[p]
      /\ open' \in Openings
  BY <1>0, <1>1 DEF Openings, Owned, Detail!Goto, Detail!NoOpen, Detail!handleGetJob,
     Detail!handleGetJobStats,
     Detail!handleGetJobExecutions, Detail!ShowJob, Detail!loadJobStats, Detail!Counted,
     Detail!Listed
<1>3. header' \in Jobs \cup {None} /\ stats' \subseteq Executions
  BY <1>0 DEF Openings, Detail!TypeOK, Detail!screen, Detail!handleGetJob,
     Detail!handleGetJobStats,
     Detail!handleGetJobExecutions, Detail!ShowJob, Detail!loadJobStats
<1>4. Detail!TypeOK'
  BY <1>0, <1>2, <1>3 DEF Detail!TypeOK, Openings
<1>5. OpenShape'
  BY <1>0, <1>2 DEF OpenShape
<1>6. ASSUME ~reopened', ~failed'
      PROVE  OpeningFits' /\ ScreenFits'
  <2>1. OpeningFits
    BY <1>0, <1>6
  <2>2. \A p \in Opens : p # o => open[p] = Detail!NoOpen
    BY <1>2, <2>1 DEF OpeningFits
  <2>3. \A p \in Opens : open'[p] # Detail!NoOpen => p = o
    BY <1>2, <2>2
  <2>4. /\ selected' \in {open'[o].of, None}
        /\ open'[o].pc \in {"stats", "statsHere", "list", "listHere"} => header' = open'[o].of
        /\ open'[o].pc = "statsHere" => open'[o].stats \subseteq Owned(open[o].of)'
        /\ open'[o].pc \in {"list", "listHere"} => stats' \subseteq Owned(open[o].of)'
        /\ open'[o].pc = "listHere" =>
            stats' \subseteq open'[o].list /\ open'[o].list \subseteq Owned(open[o].of)'
    <3>1. CASE Detail!handleGetJob(o)
      BY <1>0, <1>1, <1>2, <2>1, <3>1
         DEF OpeningFits, Openings, Detail!handleGetJob, Detail!Goto, Detail!screen
    <3>2. CASE Detail!handleGetJobStats(o)
      <4>1. open'[o].pc = "statsHere" /\ open'[o].stats = Owned(open[o].of)
            /\ open[o].pc = "stats" /\ UNCHANGED header
        BY <1>0, <3>2 DEF Openings, Detail!handleGetJobStats, Detail!Counted, Owned, Detail!screen
      <4> QED BY <1>0, <1>1, <1>2, <2>1, <4>1 DEF OpeningFits
    <3>3. CASE Detail!handleGetJobExecutions(o)
      <4>1. open'[o].pc = "listHere" /\ open'[o].list = Owned(open[o].of)
            /\ open[o].pc = "list" /\ UNCHANGED <<header, stats>>
        BY <1>0, <3>3
           DEF Openings, Detail!handleGetJobExecutions, Detail!Listed, Owned, Detail!screen
      <4> QED BY <1>0, <1>1, <1>2, <2>1, <4>1 DEF OpeningFits
    <3>4. CASE Detail!ShowJob(o)
      BY <1>0, <1>1, <1>2, <2>1, <3>4
         DEF OpeningFits, Openings, Detail!ShowJob, Detail!Goto, Detail!screen
    <3>5. CASE Detail!loadJobStats(o)
      <4>1. open'[o].pc = "list" /\ open[o].pc = "statsHere" /\ stats' = open[o].stats /\ UNCHANGED header
        BY <1>0, <3>5 DEF Openings, Detail!loadJobStats, Detail!Goto
      <4> QED BY <1>0, <1>1, <1>2, <2>1, <4>1 DEF OpeningFits
    <3> QED BY <3>1, <3>2, <3>3, <3>4, <3>5
  <2>5. OpeningFits'
    BY <2>3, <2>4 DEF OpeningFits
  <2>6. ScreenFits'
    BY <1>2 DEF ScreenFits, Detail!Waiting
  <2> QED BY <2>5, <2>6
<1> QED BY <1>4, <1>5, <1>6 DEF DetailInv

LEMMA DetailEnds ==
  ASSUME DetailInv, NEW o \in Opens, Detail!loadJobActivity(o) \/ Detail!RequestFails(o)
  PROVE  DetailInv'
<1>0. /\ Detail!TypeOK /\ OpenShape
      /\ ~reopened /\ ~failed => OpeningFits /\ ScreenFits
      /\ UNCHANGED <<execution, selected, header, stats, deletion, reopened>>
      /\ open \in Openings
  BY DEF DetailInv, Detail!TypeOK, Openings, Detail!loadJobActivity, Detail!RequestFails
<1>1. Detail!NoOpen \in [of : Jobs \cup {None},
             pc : {"idle", "job", "jobHere", "stats", "statsHere", "list", "listHere"},
             stats : SUBSET Executions, list : SUBSET Executions]
  BY DEF Detail!NoOpen
<1>2. CASE Detail!loadJobActivity(o)
  <2>1. /\ open[o].pc = "listHere" /\ activity' = open[o].list /\ failed' = failed
        /\ open' \in Openings /\ open'[o] = Detail!NoOpen
        /\ \A p \in Opens : p # o => open'[p] = open[p]
    BY <1>0, <1>1, <1>2 DEF Openings, Detail!loadJobActivity
  <2>2. Detail!TypeOK' /\ OpenShape'
    BY <1>0, <2>1 DEF Detail!TypeOK, OpenShape, Openings, Detail!NoOpen
  <2>3. ASSUME ~reopened', ~failed'
        PROVE  OpeningFits' /\ ScreenFits'
    <3>1. OpeningFits /\ open[o] # Detail!NoOpen
      BY <1>0, <2>1, <2>3 DEF Detail!NoOpen
    <3>2. \A p \in Opens : open'[p] = Detail!NoOpen
      BY <2>1, <3>1 DEF OpeningFits
    <3>3. \A j : Owned(j)' = Owned(j)
      BY <1>0 DEF Owned, Detail!Rows
    <3>4. ScreenFits'
      BY <1>0, <2>1, <3>1, <3>3 DEF ScreenFits, OpeningFits
    <3>5. OpeningFits'
      BY <3>2 DEF OpeningFits
    <3> QED BY <3>4, <3>5
  <2> QED BY <2>2, <2>3 DEF DetailInv
<1>3. CASE Detail!RequestFails(o)
  <2>1. /\ failed' = TRUE /\ activity' \subseteq Executions
        /\ open' \in Openings
        /\ open'[o] = Detail!NoOpen \/ (open'[o].of = open[o].of /\ open'[o].pc # "idle" /\ open[o].pc # "idle")
        /\ \A p \in Opens : p # o => open'[p] = open[p]
    BY <1>0, <1>1, <1>3 DEF Openings, Detail!RequestFails, Detail!TypeOK, Detail!Goto
  <2>2. Detail!TypeOK' /\ OpenShape'
    BY <1>0, <2>1 DEF Detail!TypeOK, OpenShape, Openings, Detail!NoOpen
  <2> QED BY <2>1, <2>2 DEF DetailInv
<1> QED BY <1>2, <1>3

LEMMA DetailUser ==
  ASSUME DetailInv,
         (\E j \in Jobs : Detail!openJobDetails(j)) \/ Detail!backToJobsList \/ Detail!deleteJob
         \/ Detail!DeleteArrives
  PROVE  DetailInv'
<1>0. /\ Detail!TypeOK /\ OpenShape
      /\ ~reopened /\ ~failed => OpeningFits /\ ScreenFits
      /\ UNCHANGED <<execution, header, stats, activity>>
      /\ open \in Openings
  BY DEF DetailInv, Detail!TypeOK, Openings, Detail!openJobDetails, Detail!backToJobsList,
     Detail!deleteJob,
     Detail!DeleteArrives, Detail!screen
<1>1. ASSUME NEW j \in Jobs, Detail!openJobDetails(j)
      PROVE  DetailInv'
  <2>1. PICK o \in Opens :
          /\ open[o] = Detail!NoOpen
          /\ open' = [open EXCEPT ![o] = [Detail!NoOpen EXCEPT !.of = j, !.pc = "job"]]
    BY <1>1 DEF Detail!openJobDetails
  <2>2. /\ open' \in Openings /\ open'[o].of = j /\ open'[o].pc = "job"
        /\ \A p \in Opens : p # o => open'[p] = open[p]
    BY <1>0, <2>1 DEF Openings, Detail!NoOpen
  <2>3. selected' = j /\ reopened' = Detail!Waiting /\ failed' = FALSE /\ UNCHANGED deletion
    BY <1>1 DEF Detail!openJobDetails
  <2>4. Detail!TypeOK' /\ OpenShape'
    BY <1>0, <2>2, <2>3 DEF Detail!TypeOK, OpenShape, Openings, Detail!Waiting
  <2>5. ASSUME ~reopened'
        PROVE  OpeningFits' /\ ScreenFits'
    <3>1. \A p \in Opens : p # o => open'[p] = Detail!NoOpen
      BY <2>2, <2>3, <2>5 DEF Detail!Waiting
    <3>2. OpeningFits'
      BY <2>2, <2>3, <3>1 DEF OpeningFits
    <3>3. Detail!Waiting'
      BY <2>2 DEF Detail!Waiting, Detail!NoOpen
    <3> QED BY <3>2, <3>3 DEF ScreenFits
  <2> QED BY <2>4, <2>5 DEF DetailInv
<1>2. CASE Detail!backToJobsList \/ Detail!deleteJob \/ Detail!DeleteArrives
  <2>1. /\ selected' \in {selected, None} /\ deletion' \in Jobs \cup {None}
        /\ UNCHANGED <<open, reopened, failed>>
    BY <1>0, <1>2 DEF Detail!backToJobsList, Detail!deleteJob, Detail!DeleteArrives, Detail!Left,
       Detail!screen, Detail!TypeOK
  <2>2. Detail!TypeOK' /\ OpenShape'
    BY <1>0, <2>1 DEF Detail!TypeOK, OpenShape
  <2>3. \A k : Owned(k)' = Owned(k)
    BY <1>0 DEF Owned, Detail!Rows
  <2>4. ASSUME ~reopened', ~failed'
        PROVE  OpeningFits' /\ ScreenFits'
    BY <1>0, <2>1, <2>3, <2>4 DEF OpeningFits, ScreenFits, Detail!Waiting
  <2> QED BY <2>2, <2>4 DEF DetailInv
<1> QED BY <1>1, <1>2

LEMMA DetailNext == DetailInv /\ [Detail!Next]_detail => DetailInv'
<1> SUFFICES ASSUME DetailInv, [Detail!Next]_detail
             PROVE  DetailInv'
  OBVIOUS
<1>1. CASE UNCHANGED detail
  BY <1>1 DEF detail, DetailInv, Detail!TypeOK, OpenShape, OpeningFits, ScreenFits,
     Detail!Waiting,
     Owned, Detail!Rows
<1> QED BY <1>1, DetailTable, DetailServed, DetailEnds, DetailUser DEF Detail!Next

LEMMA DetailOfOneJob == DetailInv => ScreenOfOneJob
BY DEF DetailInv, ScreenFits, Owned, Detail!Rows, ScreenOfOneJob, Detail!ScreenOfOneJob,
   Detail!Settled
----------------------------------------------------------------------------
(* JobEditor.                                                               *)

\* What is not in flight is as it was, and what is read is a job's.  A turn is that of a save
\* on its way, from a form that is sound.
EditorShape ==
  /\ \A l \in Loads : /\ load[l].pc = "idle" => load[l] = Editor!NoLoad
                      /\ load[l].pc # "idle" => load[l].of \in Jobs
  /\ \A s \in Saves : /\ save[s].pc = "idle" => save[s] = Editor!NoSave
                      /\ turn[s] # 0 => save[s].pc = "sent" /\ standing = "sound"

\* No field is newer than the last write.
NoneNewer ==
  /\ \A f \in Editor!Fields :
       /\ \A j \in Jobs : job[j].content[f].rev <= rev
       /\ form[f].rev <= rev
       /\ \A s \in Saves : save[s].content[f].rev <= rev
       /\ \A l \in Loads : load[l].content[f].rev <= rev
  /\ rev # 0 /\ \A s \in Saves : turn[s] <= rev

\* As long as the editor was not opened while an answer was on its way: a request for a job
\* is the only one and the editor waits for it, hidden and empty; what is in the form is of
\* the job that is edited, and so is what is saved from it, once or more often.
OneEditor ==
  /\ \A l, m \in Loads : load[l] # Editor!NoLoad /\ load[m] # Editor!NoLoad => l = m
  /\ \A l \in Loads : load[l] # Editor!NoLoad =>
       /\ ~shown /\ editing = load[l].of /\ form = Editor!Blank
       /\ \A s \in Saves : save[s] = Editor!NoSave
       /\ \A f \in Editor!Fields : load[l].content[f].ids \in {None, load[l].of}
  /\ shown => \A f \in Editor!Fields : form[f].ids \in {None, editing}
  /\ \A s \in Saves : save[s].pc = "sent" =>
       /\ \A f \in Editor!Fields : save[s].content[f].ids \in {None, save[s].to}
       /\ shown => editing = save[s].to
       /\ \A t \in Saves : save[t].pc = "sent" => save[t].to = save[s].to

\* Content c has all that content d has.
Covers(c, d) == \A f \in Editor!Fields : c[f].rev >= d[f].rev

\* As long as the form is sound: what is loaded and shown of a job is as new as the job, and
\* the form as new as its saves; a save that has its turn is as new as the job and as all
\* saves sent before it, and the form is still that of a save sent after the last write.
Fresh ==
  /\ shown /\ editing # None => Covers(form, job[editing].content)
  /\ \A s \in Saves : save[s].pc = "sent" =>
       /\ shown => Covers(form, save[s].content)
       /\ turn[s] # 0 =>
            /\ save[s].to # None => Covers(save[s].content, job[save[s].to].content)
            /\ shown /\ turn[s] = rev => Covers(save[s].content, form)
            /\ \A t \in Saves :
                 save[t].pc = "sent" /\ turn[t] <= turn[s] => Covers(save[s].content, save[t].content)
  /\ \A l \in Loads :
       /\ load[l].pc \in {"options", "ok"} =>
            load[l].content["steps"].rev >= job[load[l].of].content["steps"].rev
       /\ load[l].pc = "ok" =>
            load[l].content["options"].rev >= job[load[l].of].content["options"].rev

EditorInv ==
  /\ Editor!TypeOK /\ EditorShape /\ NoneNewer
  /\ standing # "crossed" => OneEditor
  /\ standing = "sound" => Fresh

Requested ==
  [Loads -> [pc : {"idle", "steps", "options", "ok", "error"}, of : Jobs \cup {None},
             content : Editor!Content]]

LoadOK(r) ==
  r \in [pc : {"idle", "steps", "options", "ok", "error"}, of : Jobs \cup {None},
         content : Editor!Content]

SaveOK(r) ==
  r \in [pc : {"idle", "sent", "ok"}, to : Jobs \cup {None}, content : Editor!Content]

Saving ==
  [Saves -> [pc : {"idle", "sent", "ok"}, to : Jobs \cup {None}, content : Editor!Content]]

LEMMA EditorBlank ==
  /\ Editor!Blank \in Editor!Content
  /\ \A f \in Editor!Fields : Editor!Blank[f].rev = 0 /\ Editor!Blank[f].ids = None
  /\ Editor!NoRow \in [there : BOOLEAN, content : Editor!Content]
  /\ Editor!NoRow.content = Editor!Blank
  /\ LoadOK(Editor!NoLoad) /\ Editor!NoLoad.pc = "idle" /\ Editor!NoLoad.of = None
  /\ SaveOK(Editor!NoSave) /\ Editor!NoSave.pc = "idle" /\ Editor!NoSave.to = None
  /\ Editor!NoLoad.content = Editor!Blank /\ Editor!NoSave.content = Editor!Blank
<1>1. MaxRev \in Nat
  BY ScreensAssumption DEF Editor!JobEditorAssumption
<1>2. Editor!Empty \in Editor!Value /\ Editor!Empty.rev = 0 /\ Editor!Empty.ids = None
  BY <1>1 DEF Editor!Empty, Editor!Value
<1>3. /\ Editor!Blank \in Editor!Content
      /\ \A f \in Editor!Fields : Editor!Blank[f].rev = 0 /\ Editor!Blank[f].ids = None
  BY <1>2 DEF Editor!Blank, Editor!Content
<1> QED BY <1>3 DEF Editor!NoRow, Editor!NoLoad, Editor!NoSave, LoadOK, SaveOK

LEMMA EditorContent ==
  ASSUME NEW c \in Editor!Content, NEW f \in Editor!Fields
  PROVE  c[f] \in Editor!Value /\ c[f].rev \in Nat /\ c[f].rev <= MaxRev /\ c[f].ids \in Jobs \cup {None}
BY ScreensAssumption DEF Editor!JobEditorAssumption, Editor!Content, Editor!Value

\* A row that is there or not: its ids are its own.
LEMMA EditorRows ==
  ASSUME Editor!TypeOK, NEW j \in Jobs, NEW f \in Editor!Fields
  PROVE  /\ job[j].content \in Editor!Content
         /\ job[j].content[f].ids \in {j, None}
         /\ job[j].content[f].rev \in Nat
BY EditorBlank, EditorContent DEF Editor!TypeOK, Editor!Rows

LEMMA EditorRevs == Editor!TypeOK => rev \in Nat /\ 0 <= rev
BY ScreensAssumption DEF Editor!JobEditorAssumption, Editor!TypeOK

\* The turns are numbers.
LEMMA EditorTurns ==
  ASSUME Editor!TypeOK, NEW s \in Saves
  PROVE  turn[s] \in Nat
BY ScreensAssumption DEF Editor!JobEditorAssumption, Editor!TypeOK

\* A content covers itself.
LEMMA CoversItself == \A c \in Editor!Content : Covers(c, c)
BY EditorContent DEF Covers

LEMMA EditorInit == Editor!Init => EditorInv
<1> SUFFICES ASSUME Editor!Init
             PROVE  EditorInv
  OBVIOUS
<1>0. MaxRev \in Nat \ {0} /\ Initial \subseteq Jobs /\ None \notin Jobs
  BY ScreensAssumption DEF Editor!JobEditorAssumption
<1>1. /\ shown = FALSE /\ editing = None /\ form = Editor!Blank
      /\ load = [l \in Loads |-> Editor!NoLoad] /\ save = [s \in Saves |-> Editor!NoSave]
      /\ rev = 1 /\ standing = "sound" /\ turn = [s \in Saves |-> 0]
  BY DEF Editor!Init
<1>2. \A j \in Jobs : [f \in Editor!Fields |-> [rev |-> 1, ids |-> j]] \in Editor!Content
  BY <1>0 DEF Editor!Content, Editor!Value
<1>3. /\ job \in [Jobs -> [there : BOOLEAN, content : Editor!Content]]
      /\ \A j \in Jobs, f \in Editor!Fields :
           job[j].content[f].ids \in {j, None} /\ job[j].content[f].rev \in {0, 1}
  BY <1>2, EditorBlank DEF Editor!Init
<1>4. Editor!TypeOK
  <2>1. rev \in 0..MaxRev /\ turn \in [Saves -> 0..MaxRev]
    BY <1>0, <1>1
  <2>2. load \in Requested /\ save \in Saving
    BY <1>1, EditorBlank DEF LoadOK, Requested, SaveOK, Saving
  <2>3. \A j \in Editor!Rows, f \in Editor!Fields : job[j].content[f].ids \in {j, None}
    BY <1>3 DEF Editor!Rows
  <2> QED BY <1>1, <1>3, <2>1, <2>2, <2>3, EditorBlank DEF Editor!TypeOK, Requested, Saving
<1>5. EditorShape
  BY <1>1, <1>3 DEF EditorShape, Editor!NoLoad
<1>6. NoneNewer
  BY <1>1, <1>3, EditorBlank DEF NoneNewer
<1>7. OneEditor /\ Fresh
  BY <1>1, EditorBlank DEF OneEditor, Fresh
<1> QED BY <1>4, <1>5, <1>6, <1>7 DEF EditorInv

LEMMA EditorOpens ==
  ASSUME EditorInv, NEW j \in Jobs \cup {None}, Editor!openJobEditor(j)
  PROVE  EditorInv'
<1>0. /\ Editor!TypeOK /\ EditorShape /\ NoneNewer /\ UNCHANGED <<job, save, rev>>
      /\ ~shown /\ editing' = j /\ form' = Editor!Blank
      /\ standing' = IF Editor!Waiting THEN "crossed" ELSE "sound"
      /\ turn' = [s \in Saves |-> 0]
  BY DEF EditorInv, Editor!openJobEditor, Editor!FormCleared, Editor!Becomes
<1>1. 0 <= rev /\ 0 \in 0..MaxRev /\ standing' \in {"sound", "stale", "crossed"}
  BY <1>0, EditorRevs, ScreensAssumption DEF Editor!JobEditorAssumption
<1>2. ASSUME standing' # "crossed"
      PROVE  /\ \A l \in Loads : load[l] = Editor!NoLoad
             /\ \A s \in Saves : save[s] = Editor!NoSave
  BY <1>0, <1>2 DEF Editor!Waiting
<1>3. CASE j = None
  <2>1. shown' = TRUE /\ UNCHANGED load
    BY <1>3 DEF Editor!openJobEditor
  <2>2. Editor!TypeOK' /\ EditorShape'
    BY <1>0, <1>1, <1>3, <2>1, EditorBlank DEF Editor!TypeOK, EditorShape, Editor!Rows
  <2>3. NoneNewer'
    BY <1>0, <1>1, <2>1, EditorBlank DEF NoneNewer
  <2>4. ASSUME standing' # "crossed"
        PROVE  OneEditor' /\ Fresh'
    BY <1>0, <1>2, <1>3, <2>1, <2>4, EditorBlank DEF OneEditor, Fresh
  <2> QED BY <2>2, <2>3, <2>4 DEF EditorInv
<1>4. CASE j # None
  <2>1. PICK l \in Loads :
          /\ load[l] = Editor!NoLoad
          /\ load' = [load EXCEPT ![l] = [Editor!NoLoad EXCEPT !.pc = "steps", !.of = j]]
    BY <1>4 DEF Editor!openJobEditor
  <2>2. /\ load'[l].pc = "steps" /\ load'[l].of = j /\ load'[l].content = Editor!Blank
        /\ LoadOK(load'[l])
        /\ \A m \in Loads : m # l => load'[m] = load[m]
        /\ load' = [m \in Loads |-> load'[m]]
        /\ UNCHANGED shown
    BY <1>0, <1>4, <2>1, EditorBlank
       DEF Editor!openJobEditor, Editor!TypeOK, Editor!NoLoad, LoadOK
  <2>3. load' \in Requested
    BY <1>0, <2>2 DEF Editor!TypeOK, LoadOK, Requested
  <2>4. Editor!TypeOK' /\ EditorShape'
    BY <1>0, <1>1, <1>4, <2>2, <2>3, EditorBlank
       DEF Editor!TypeOK, EditorShape, Editor!Rows, Requested
  <2>5. NoneNewer'
    BY <1>0, <1>1, <2>2, EditorBlank DEF NoneNewer
  <2>6. ASSUME standing' # "crossed"
        PROVE  OneEditor' /\ Fresh'
    BY <1>0, <1>2, <2>2, <2>6, EditorBlank DEF OneEditor, Fresh
  <2> QED BY <2>4, <2>5, <2>6 DEF EditorInv
<1> QED BY <1>3, <1>4

\* The form is what it was, or has aged: then there are no turns any more.
Aged == UNCHANGED <<standing, turn>> \/ Editor!FormAges

LEMMA EditorAges ==
  ASSUME Editor!TypeOK, Aged
  PROVE  /\ standing' \in {"sound", "stale", "crossed"} /\ turn' \in [Saves -> 0..MaxRev]
         /\ standing' = "crossed" <=> standing = "crossed"
         /\ \A s \in Saves : turn'[s] # 0 => turn'[s] = turn[s] /\ standing' = standing
         /\ \A s \in Saves : turn'[s] <= turn[s]
         /\ standing' = "sound" => standing = "sound" /\ turn' = turn
<1>1. 0 \in 0..MaxRev /\ \A s \in Saves : turn[s] \in Nat
  BY EditorTurns, ScreensAssumption DEF Editor!JobEditorAssumption
<1>2. CASE UNCHANGED <<standing, turn>>
  BY <1>1, <1>2 DEF Editor!TypeOK
<1>3. CASE Editor!FormAges
  <2>1. /\ standing' = IF standing = "crossed" THEN "crossed" ELSE "stale"
        /\ turn' = [s \in Saves |-> 0]
    BY <1>3 DEF Editor!FormAges, Editor!Becomes
  <2> QED BY <1>1, <2>1
<1> QED BY <1>2, <1>3 DEF Aged

\* A load makes a step: it and what comes of it in the form.
LEMMA EditorReads ==
  ASSUME EditorInv, NEW l \in Loads, Editor!ReadSteps(l) \/ Editor!ReadOptions(l)
  PROVE  EditorInv'
<1>0. /\ Editor!TypeOK /\ EditorShape /\ NoneNewer
      /\ UNCHANGED <<job, shown, editing, form, save, rev>>
  BY DEF EditorInv, Editor!ReadSteps, Editor!ReadOptions, Editor!Loaded, Editor!editor
<1>1. /\ load[l].pc \in {"steps", "options"} /\ load[l] # Editor!NoLoad
      /\ load[l].of \in Jobs /\ load[l].content \in Editor!Content
      /\ load \in Requested
  BY <1>0, EditorBlank
     DEF EditorShape, Editor!TypeOK, Editor!ReadSteps, Editor!ReadOptions, Requested
<1>2. ASSUME NEW f \in Editor!Fields
      PROVE  /\ Editor!Part(l, f) \in Editor!Content
             /\ Editor!Part(l, f)[f] = job[load[l].of].content[f]
             /\ \A g \in Editor!Fields : g # f => Editor!Part(l, f)[g] = load[l].content[g]
  <2>1. job[load[l].of].content[f] \in Editor!Value
    BY <1>0, <1>1, EditorRows, EditorContent
  <2> QED BY <1>1, <2>1 DEF Editor!Part, Editor!Content
<1>3. PICK pc \in {"options", "error", "ok"}, content \in Editor!Content :
        /\ load' = [load EXCEPT ![l].pc = pc, ![l].content = content]
        /\ \/ /\ pc = "options" /\ load[l].pc = "steps" /\ content = Editor!Part(l, "steps")
              /\ UNCHANGED <<standing, turn>>
           \/ pc = "error" /\ content = Editor!Blank /\ UNCHANGED <<standing, turn>>
           \/ /\ pc = "ok" /\ load[l].pc = "options" /\ content = Editor!Part(l, "options")
              /\ UNCHANGED <<standing, turn>>
           \/ pc = "ok" /\ content = load[l].content /\ Editor!FormAges
  <2>1. "steps" \in Editor!Fields /\ "options" \in Editor!Fields
    BY DEF Editor!Fields
  <2>2. CASE Editor!ReadSteps(l)
    BY <1>2, <2>1, <2>2, EditorBlank DEF Editor!ReadSteps, Editor!Loaded, Editor!history
  <2>3. CASE Editor!ReadOptions(l)
    BY <1>1, <1>2, <2>1, <2>3 DEF Editor!ReadOptions, Editor!Loaded, Editor!history
  <2> QED BY <2>2, <2>3
<1>4. /\ load'[l].pc = pc /\ load'[l].content = content /\ load'[l].of = load[l].of
      /\ \A m \in Loads : m # l => load'[m] = load[m]
      /\ load' \in Requested
  BY <1>1, <1>3 DEF Requested
<1>5. /\ Aged /\ standing' \in {"sound", "stale", "crossed"} /\ turn' \in [Saves -> 0..MaxRev]
      /\ standing' = "crossed" <=> standing = "crossed"
      /\ \A s \in Saves : turn'[s] # 0 => turn'[s] = turn[s] /\ standing' = standing
      /\ \A s \in Saves : turn'[s] <= turn[s]
      /\ standing' = "sound" => standing = "sound" /\ turn' = turn
  BY <1>0, <1>3, EditorAges DEF Aged
<1>6. Editor!TypeOK' /\ EditorShape'
  BY <1>0, <1>1, <1>4, <1>5 DEF Editor!TypeOK, Editor!Rows, EditorShape, Requested
<1>7. NoneNewer'
  <2>1. \A f \in Editor!Fields : content[f].rev <= rev
    BY <1>0, <1>1, <1>2, <1>3, EditorBlank, EditorRevs DEF NoneNewer, Editor!Fields
  <2>2. \A s \in Saves : turn'[s] <= rev
    BY <1>0, <1>5, EditorTurns, EditorRevs DEF NoneNewer
  <2> QED BY <1>0, <1>4, <2>1, <2>2 DEF NoneNewer
<1>8. \A f \in Editor!Fields : content[f].ids \in {None, load[l].of} \cup {load[l].content[f].ids}
  BY <1>0, <1>1, <1>2, <1>3, EditorRows, EditorBlank DEF Editor!Fields
<1>9. ASSUME standing' # "crossed"
      PROVE  OneEditor'
  <2>1. OneEditor
    BY <1>5, <1>9 DEF EditorInv
  <2>2. \A m \in Loads : m # l => load'[m] = Editor!NoLoad
    BY <1>1, <1>4, <2>1 DEF OneEditor
  <2>3. \A f \in Editor!Fields : load'[l].content[f].ids \in {None, load'[l].of}
    BY <1>1, <1>4, <1>8, <2>1 DEF OneEditor
  <2> QED BY <1>0, <1>1, <1>4, <2>1, <2>2, <2>3 DEF OneEditor
<1>10. ASSUME standing' = "sound"
       PROVE  Fresh'
  <2>1. /\ OneEditor /\ Fresh /\ turn' = turn
        /\ ~(pc = "ok" /\ content = load[l].content /\ Editor!FormAges)
    BY <1>5, <1>10 DEF EditorInv, Editor!FormAges, Editor!Becomes
  <2>2. /\ load'[l].pc \in {"options", "ok"} =>
             load'[l].content["steps"].rev >= job[load[l].of].content["steps"].rev
        /\ load'[l].pc = "ok" =>
             load'[l].content["options"].rev >= job[load[l].of].content["options"].rev
    <3>1. /\ job[load[l].of].content["steps"].rev \in Nat
          /\ job[load[l].of].content["options"].rev \in Nat
      BY <1>0, <1>1, EditorRows DEF Editor!Fields
    <3> QED BY <1>1, <1>2, <1>3, <1>4, <2>1, <3>1 DEF Fresh, Editor!Fields
  <2> QED BY <1>0, <1>4, <2>1, <2>2 DEF Fresh
<1> QED BY <1>6, <1>7, <1>9, <1>10 DEF EditorInv

LEMMA EditorAnswered ==
  ASSUME EditorInv, NEW l \in Loads, Editor!LoadArrives(l) \/ Editor!LoadLost(l)
  PROVE  EditorInv'
<1>0. /\ Editor!TypeOK /\ EditorShape /\ NoneNewer /\ UNCHANGED <<job, editing, save, rev>>
      /\ load' = [load EXCEPT ![l] = Editor!NoLoad]
      /\ load[l] # Editor!NoLoad
  BY EditorBlank DEF EditorInv, Editor!LoadArrives, Editor!LoadLost, Editor!editor
<1>1. /\ load'[l] = Editor!NoLoad
      /\ \A m \in Loads : m # l => load'[m] = load[m]
      /\ load' \in Requested
      /\ load[l].content \in Editor!Content /\ load[l].of \in Jobs
  BY <1>0, EditorBlank DEF Editor!TypeOK, EditorShape, LoadOK, Requested
<1>2. \/ /\ load[l].pc = "ok" /\ shown' = TRUE /\ form' = load[l].content
         /\ UNCHANGED <<standing, turn>>
      \/ /\ shown' = TRUE /\ Editor!FormAges /\ UNCHANGED form
      \/ UNCHANGED <<shown, form, standing, turn>>
  BY DEF Editor!LoadArrives, Editor!LoadLost, Editor!editor, Editor!history
<1>3. /\ Aged /\ standing' \in {"sound", "stale", "crossed"} /\ turn' \in [Saves -> 0..MaxRev]
      /\ standing' = "crossed" <=> standing = "crossed"
      /\ \A s \in Saves : turn'[s] # 0 => turn'[s] = turn[s] /\ standing' = standing
      /\ \A s \in Saves : turn'[s] <= turn[s]
      /\ standing' = "sound" => standing = "sound" /\ turn' = turn
  BY <1>0, <1>2, EditorAges DEF Aged
<1>4. Editor!TypeOK' /\ EditorShape'
  <2>1. shown' \in BOOLEAN /\ form' \in Editor!Content
    BY <1>0, <1>1, <1>2 DEF Editor!TypeOK
  <2>2. Editor!TypeOK'
    BY <1>0, <1>1, <1>3, <2>1 DEF Editor!TypeOK, Editor!Rows, Requested
  <2>3. EditorShape'
    BY <1>0, <1>1, <1>3, EditorBlank DEF EditorShape
  <2> QED BY <2>2, <2>3
<1>5. NoneNewer'
  <2>1. \A s \in Saves : turn'[s] <= rev
    BY <1>0, <1>3, EditorTurns, EditorRevs DEF NoneNewer
  <2> QED BY <1>0, <1>1, <1>2, <2>1, EditorBlank, EditorRevs DEF NoneNewer
<1>6. ASSUME standing' # "crossed"
      PROVE  OneEditor'
  <2>1. /\ OneEditor /\ ~shown /\ editing = load[l].of /\ form = Editor!Blank
        /\ \A s \in Saves : save[s] = Editor!NoSave
        /\ \A f \in Editor!Fields : load[l].content[f].ids \in {None, editing}
    BY <1>0, <1>3, <1>6 DEF EditorInv, OneEditor
  <2>2. \A m \in Loads : load'[m] = Editor!NoLoad
    BY <1>0, <1>1, <2>1 DEF OneEditor
  <2> QED BY <1>0, <1>2, <2>1, <2>2, EditorBlank DEF OneEditor
<1>7. ASSUME standing' = "sound"
      PROVE  Fresh'
  <2>1. /\ OneEditor /\ Fresh /\ ~shown /\ editing = load[l].of /\ turn' = turn
        /\ \A s \in Saves : save[s] = Editor!NoSave
        /\ ~Editor!FormAges
    BY <1>0, <1>3, <1>7 DEF EditorInv, OneEditor, Editor!FormAges, Editor!Becomes
  <2>2. \A m \in Loads : load'[m] = Editor!NoLoad
    BY <1>0, <1>1, <2>1 DEF OneEditor
  <2> QED BY <1>0, <1>2, <2>1, <2>2, EditorBlank DEF Fresh, Covers, Editor!Fields
<1> QED BY <1>4, <1>5, <1>6, <1>7 DEF EditorInv

LEMMA EditorEdits ==
  ASSUME EditorInv, (\E f \in Editor!Fields : Editor!Edit(f)) \/ Editor!closeJobEditor
  PROVE  EditorInv'
<1>0. /\ Editor!TypeOK /\ EditorShape /\ NoneNewer
      /\ UNCHANGED <<job, load, save, standing, turn>>
      /\ shown /\ form \in Editor!Content /\ editing \in Jobs \cup {None} /\ rev \in Nat
  BY ScreensAssumption
     DEF Editor!JobEditorAssumption, EditorInv, Editor!Edit, Editor!closeJobEditor,
     Editor!editor, Editor!history, Editor!TypeOK
<1>1. standing # "crossed" => \A l \in Loads : load[l] = Editor!NoLoad
  BY <1>0 DEF EditorInv, OneEditor
<1>2. ASSUME NEW f \in Editor!Fields, Editor!Edit(f)
      PROVE  EditorInv'
  <2>1. /\ rev < MaxRev /\ rev' = rev + 1 /\ form' = [form EXCEPT ![f].rev = rev + 1]
        /\ UNCHANGED <<shown, editing>>
    BY <1>2 DEF Editor!Edit
  <2>2. rev' \in 0..MaxRev /\ rev' > rev /\ rev' # 0
    BY <1>0, <2>1, ScreensAssumption DEF Editor!JobEditorAssumption
  <2>3. /\ form' \in Editor!Content
        /\ \A g \in Editor!Fields : form'[g].ids = form[g].ids
        /\ \A g \in Editor!Fields : form'[g] = form[g] \/ (form'[g].rev = rev + 1)
    BY <1>0, <2>1, <2>2 DEF Editor!Content, Editor!Value
  <2>4. Editor!TypeOK'
    BY <1>0, <2>1, <2>2, <2>3 DEF Editor!TypeOK, Editor!Rows
  <2>5. EditorShape'
    BY <1>0 DEF EditorShape
  <2>6. NoneNewer'
    <3>1. ASSUME NEW n \in Nat, n <= rev
          PROVE  n <= rev'
      BY <1>0, <2>1, <3>1
    <3>2. ASSUME NEW g \in Editor!Fields
          PROVE  form'[g].rev <= rev'
      BY <1>0, <2>1, <2>3, <3>1, EditorContent DEF NoneNewer
    <3>3. ASSUME NEW g \in Editor!Fields, NEW s \in Saves
          PROVE  save'[s].content[g].rev <= rev'
      BY <1>0, <3>1, EditorContent DEF NoneNewer, Editor!TypeOK
    <3>4. ASSUME NEW g \in Editor!Fields, NEW l \in Loads
          PROVE  load'[l].content[g].rev <= rev'
      BY <1>0, <3>1, EditorContent DEF NoneNewer, Editor!TypeOK
    <3>5. ASSUME NEW g \in Editor!Fields, NEW j \in Jobs
          PROVE  job'[j].content[g].rev <= rev'
      BY <1>0, <3>1, EditorRows DEF NoneNewer
    <3>6. ASSUME NEW s \in Saves
          PROVE  turn'[s] <= rev'
      BY <1>0, <3>1, EditorTurns DEF NoneNewer
    <3> QED BY <2>2, <3>2, <3>3, <3>4, <3>5, <3>6 DEF NoneNewer
  <2>7. ASSUME standing' # "crossed"
        PROVE  OneEditor'
    BY <1>0, <1>1, <2>1, <2>3, <2>7 DEF EditorInv, OneEditor
  <2>8. ASSUME standing' = "sound"
        PROVE  Fresh'
    <3>1. OneEditor /\ Fresh
      BY <1>0, <2>8 DEF EditorInv
    <3>2. ASSUME NEW c \in Editor!Content, Covers(form, c),
                 \A g \in Editor!Fields : c[g].rev <= rev
          PROVE  Covers(form', c)
      BY <1>0, <2>3, <3>2, EditorContent DEF Covers
    <3>3. editing # None => Covers(form', job[editing].content)
      BY <1>0, <3>1, <3>2, EditorRows DEF NoneNewer, Fresh
    <3>4. ASSUME NEW s \in Saves, save[s].pc = "sent"
          PROVE  Covers(form', save[s].content) /\ turn[s] # rev'
      <4>1. Covers(form', save[s].content)
        BY <1>0, <3>1, <3>2, <3>4 DEF Fresh, NoneNewer, Editor!TypeOK
      <4>2. turn[s] # rev'
        BY <1>0, <2>2, EditorTurns DEF NoneNewer
      <4> QED BY <4>1, <4>2
    <3> QED BY <1>0, <2>1, <3>1, <3>3, <3>4 DEF Fresh
  <2> QED BY <2>4, <2>5, <2>6, <2>7, <2>8 DEF EditorInv
<1>3. CASE Editor!closeJobEditor
  <2>1. shown' = FALSE /\ editing' = None /\ UNCHANGED <<form, rev>>
    BY <1>3 DEF Editor!closeJobEditor
  <2>2. Editor!TypeOK' /\ EditorShape'
    BY <1>0, <2>1 DEF Editor!TypeOK, EditorShape, Editor!Rows
  <2>3. NoneNewer'
    BY <1>0, <2>1 DEF NoneNewer
  <2>4. (standing' # "crossed" => OneEditor') /\ (standing' = "sound" => Fresh')
    BY <1>0, <1>1, <2>1 DEF EditorInv, OneEditor, Fresh
  <2> QED BY <2>2, <2>3, <2>4 DEF EditorInv
<1> QED BY <1>2, <1>3

\* The form is sent as it is: it covers what has been sent of it before.
LEMMA EditorSubmits ==
  ASSUME EditorInv, NEW s \in Saves, Editor!submitJobEditor(s)
  PROVE  EditorInv'
<1>0. /\ Editor!TypeOK /\ EditorShape /\ NoneNewer
      /\ shown /\ save[s] = Editor!NoSave
      /\ save' = [save EXCEPT ![s] = [pc |-> "sent", to |-> editing, content |-> form]]
      /\ turn' = [turn EXCEPT ![s] = IF standing = "sound" THEN rev ELSE 0]
      /\ UNCHANGED <<job, shown, editing, form, load, rev, standing>>
  BY DEF EditorInv, Editor!submitJobEditor, Editor!editor
<1>1. /\ form \in Editor!Content /\ editing \in Jobs \cup {None}
      /\ rev \in Nat /\ rev # 0 /\ 0 <= rev /\ rev \in 0..MaxRev /\ 0 \in 0..MaxRev
      /\ save \in Saving /\ turn \in [Saves -> 0..MaxRev]
  BY <1>0, EditorRevs, ScreensAssumption
     DEF Editor!JobEditorAssumption, Editor!TypeOK, NoneNewer, Saving
<1>2. /\ save'[s].pc = "sent" /\ save'[s].to = editing /\ save'[s].content = form
      /\ \A t \in Saves : t # s => save'[t] = save[t] /\ turn'[t] = turn[t]
      /\ turn'[s] = IF standing = "sound" THEN rev ELSE 0
      /\ save' \in Saving /\ turn' \in [Saves -> 0..MaxRev]
  BY <1>0, <1>1 DEF Saving
<1>3. standing # "crossed" => OneEditor /\ \A l \in Loads : load[l] = Editor!NoLoad
  BY <1>0 DEF EditorInv, OneEditor
<1>4. Editor!TypeOK' /\ EditorShape'
  BY <1>0, <1>2 DEF Editor!TypeOK, EditorShape, Editor!Rows, Saving
<1>5. NoneNewer'
  BY <1>0, <1>1, <1>2 DEF NoneNewer
<1>6. ASSUME standing' # "crossed"
      PROVE  OneEditor'
  BY <1>0, <1>2, <1>3, <1>6 DEF OneEditor
<1>7. ASSUME standing' = "sound"
      PROVE  Fresh'
  <2>1. /\ OneEditor /\ Fresh /\ turn'[s] = rev
        /\ \A l \in Loads : load[l] = Editor!NoLoad
    BY <1>0, <1>2, <1>3, <1>7 DEF EditorInv
  <2>2. Covers(form, form)
    BY <1>1, CoversItself
  <2>3. \A t \in Saves : save'[t].pc = "sent" =>
          Covers(form, save'[t].content) /\ save'[t].to = editing
    BY <1>0, <1>2, <2>1, <2>2 DEF Fresh, OneEditor
  <2>4. editing # None => Covers(form, job[editing].content)
    BY <1>0, <2>1 DEF Fresh
  <2>5. ASSUME NEW t \in Saves, save'[t].pc = "sent", turn'[t] # 0
        PROVE  /\ save'[t].to # None => Covers(save'[t].content, job[save'[t].to].content)
               /\ turn'[t] = rev => Covers(save'[t].content, form)
               /\ \A u \in Saves :
                    save'[u].pc = "sent" /\ turn'[u] <= turn'[t] =>
                      Covers(save'[t].content, save'[u].content)
    <3>1. CASE t = s
      BY <1>2, <2>2, <2>3, <2>4, <3>1
    <3>2. CASE t # s
      <4>1. save'[t] = save[t] /\ turn'[t] = turn[t]
        BY <1>2, <3>2
      <4>2. /\ save[t].to # None => Covers(save[t].content, job[save[t].to].content)
            /\ turn[t] = rev => Covers(save[t].content, form)
            /\ \A u \in Saves : save[u].pc = "sent" /\ turn[u] <= turn[t] =>
                  Covers(save[t].content, save[u].content)
        BY <1>0, <2>1, <2>5, <4>1 DEF Fresh
      <4>3. turn[t] <= rev /\ turn[t] \in Nat
        BY <1>0, EditorTurns DEF NoneNewer
      <4>4. rev <= turn[t] => Covers(save[t].content, form)
        BY <1>1, <4>2, <4>3
      <4>5. \A u \in Saves : save'[u].pc = "sent" /\ turn'[u] <= turn'[t] =>
              Covers(save'[t].content, save'[u].content)
        BY <1>2, <2>1, <4>1, <4>2, <4>4
      <4> QED BY <4>1, <4>2, <4>5
    <3> QED BY <3>1, <3>2
  <2> QED BY <1>0, <2>1, <2>3, <2>4, <2>5, EditorBlank DEF Fresh
<1> QED BY <1>4, <1>5, <1>6, <1>7 DEF EditorInv

\* What Commit makes of the form: its revisions, with ids of the job that is saved.
LEMMA EditorOwned ==
  ASSUME Editor!TypeOK, NEW s \in Saves, NEW j \in Jobs
  PROVE  /\ Editor!Owned(s, j) \in Editor!Content
         /\ \A f \in Editor!Fields : /\ Editor!Owned(s, j)[f].rev = save[s].content[f].rev
                                     /\ Editor!Owned(s, j)[f].ids \in {j, None}
<1>1. save[s].content \in Editor!Content
  BY DEF Editor!TypeOK
<1>2. ASSUME NEW f \in Editor!Fields
      PROVE  /\ Editor!Owned(s, j)[f] \in Editor!Value
             /\ Editor!Owned(s, j)[f].rev = save[s].content[f].rev
             /\ Editor!Owned(s, j)[f].ids \in {j, None}
  <2>1. save[s].content[f] \in Editor!Value
    BY <1>1, EditorContent
  <2>2. Editor!Empty \in Editor!Value /\ Editor!Empty.rev = 0 /\ Editor!Empty.ids = None
    BY ScreensAssumption DEF Editor!JobEditorAssumption, Editor!Empty, Editor!Value
  <2> QED BY <2>1, <2>2 DEF Editor!Owned, Editor!Value
<1> QED BY <1>2 DEF Editor!Owned, Editor!Content

\* What a Commit does to the saves: this one is through, and those that keep their turn come
\* after it if it has changed its job.
LEMMA EditorTurned ==
  ASSUME Editor!TypeOK, EditorShape, NEW s \in Saves, Editor!Commit(s)
  PROVE  /\ save' \in Saving /\ turn' \in [Saves -> 0..MaxRev]
         /\ save'[s].pc \in {"idle", "ok"} /\ save'[s].content = Editor!Blank
         /\ save'[s].pc = "idle" => save'[s] = Editor!NoSave
         /\ turn'[s] = 0 /\ \A t \in Saves : t # s => save'[t] = save[t]
         /\ \A t \in Saves : turn'[t] \in {0, turn[t]} /\ turn'[t] <= turn[t]
         /\ \A t, u \in Saves :
              turn'[t] # 0 /\ turn'[u] <= turn'[t] /\ u # s => turn[u] <= turn[t]
         /\ job' # job => \A t \in Saves : turn'[t] # 0 => turn[s] <= turn[t]
<1>0. /\ save \in Saving /\ turn \in [Saves -> 0..MaxRev]
      /\ 0 \in 0..MaxRev /\ \A t \in Saves : turn[t] \in Nat
  BY EditorTurns, ScreensAssumption DEF Editor!JobEditorAssumption, Editor!TypeOK, Saving
<1>1. /\ Editor!NoSave \in [pc : {"idle", "sent", "ok"}, to : Jobs \cup {None},
                             content : Editor!Content]
      /\ [Editor!NoSave EXCEPT !.pc = "ok"]
           \in [pc : {"idle", "sent", "ok"}, to : Jobs \cup {None}, content : Editor!Content]
      /\ [Editor!NoSave EXCEPT !.pc = "ok"].pc = "ok"
      /\ [Editor!NoSave EXCEPT !.pc = "ok"].content = Editor!Blank
  BY EditorBlank DEF SaveOK, Editor!NoSave
<1>2. CASE /\ save' = [save EXCEPT ![s] = [Editor!NoSave EXCEPT !.pc = "ok"]]
           /\ turn' = [t \in Saves |-> IF t = s \/ turn[t] < turn[s] THEN 0 ELSE turn[t]]
  <2>1. /\ save' \in Saving /\ save'[s] = [Editor!NoSave EXCEPT !.pc = "ok"]
        /\ \A t \in Saves : t # s => save'[t] = save[t]
    BY <1>0, <1>1, <1>2 DEF Saving
  <2>2. turn' \in [Saves -> 0..MaxRev]
    BY <1>0, <1>2
  <2>3. \A t \in Saves : /\ turn'[t] \in {0, turn[t]} /\ turn'[t] <= turn[t]
                         /\ turn'[t] # 0 => turn[s] <= turn[t] /\ turn'[t] = turn[t]
                         /\ t # s /\ turn'[t] = 0 => turn[t] = 0 \/ turn[t] < turn[s]
    BY <1>0, <1>2
  <2>4. ASSUME NEW t \in Saves, NEW u \in Saves, turn'[t] # 0, turn'[u] <= turn'[t], u # s
        PROVE  turn[u] <= turn[t]
    BY <1>0, <2>3, <2>4
  <2> QED BY <1>0, <1>1, <1>2, <2>1, <2>2, <2>3, <2>4
<1>3. CASE save' = [save EXCEPT ![s] = Editor!NoSave] /\ turn' = [turn EXCEPT ![s] = 0] /\ job' = job
  <2>1. /\ save' \in Saving /\ save'[s] = Editor!NoSave
        /\ \A t \in Saves : t # s => save'[t] = save[t]
    BY <1>0, <1>1, <1>3 DEF Saving
  <2>2. turn' \in [Saves -> 0..MaxRev] /\ turn'[s] = 0 /\ \A t \in Saves : t # s => turn'[t] = turn[t]
    BY <1>0, <1>3
  <2>3. \A t \in Saves : turn'[t] \in {0, turn[t]} /\ turn'[t] <= turn[t]
    BY <1>0, <2>2
  <2> QED BY <1>0, <1>3, <2>1, <2>2, <2>3, EditorBlank
<1> QED BY <1>2, <1>3 DEF Editor!Commit

LEMMA EditorCommits ==
  ASSUME EditorInv, NEW s \in Saves, Editor!Commit(s)
  PROVE  EditorInv'
<1>0. /\ Editor!TypeOK /\ EditorShape /\ NoneNewer /\ save[s].pc = "sent"
      /\ UNCHANGED <<shown, editing, form, load, rev, standing>>
  BY DEF EditorInv, Editor!Commit, Editor!editor
<1>1. /\ save' \in Saving /\ turn' \in [Saves -> 0..MaxRev]
      /\ save'[s].pc \in {"idle", "ok"} /\ save'[s].content = Editor!Blank
      /\ save'[s].pc = "idle" => save'[s] = Editor!NoSave
      /\ turn'[s] = 0 /\ \A t \in Saves : t # s => save'[t] = save[t]
      /\ \A t \in Saves : turn'[t] \in {0, turn[t]} /\ turn'[t] <= turn[t]
      /\ \A t, u \in Saves :
           turn'[t] # 0 /\ turn'[u] <= turn'[t] /\ u # s => turn[u] <= turn[t]
      /\ job' # job => \A t \in Saves : turn'[t] # 0 => turn[s] <= turn[t]
  BY <1>0, EditorTurned
<1>2. ASSUME standing # "crossed"
      PROVE  OneEditor /\ \A l \in Loads : load[l] = Editor!NoLoad
  BY <1>0, <1>2, EditorBlank DEF EditorInv, OneEditor
<1>3. ASSUME standing' # "crossed"
      PROVE  OneEditor'
  BY <1>0, <1>1, <1>2, <1>3 DEF OneEditor
<1>4. EditorShape'
  BY <1>0, <1>1 DEF EditorShape
<1>5. \/ UNCHANGED job
      \/ \E j \in Jobs :
           /\ IF save[s].to = None THEN j \notin Editor!Rows ELSE j = save[s].to
           /\ job' = [job EXCEPT ![j] = [there |-> TRUE, content |-> Editor!Owned(s, j)]]
  BY DEF Editor!Commit
<1>6. /\ job' \in [Jobs -> [there : BOOLEAN, content : Editor!Content]]
      /\ \A k \in Jobs, f \in Editor!Fields :
           job'[k].content[f].ids \in {k, None} /\ job'[k].content[f].rev <= rev
  <2>1. CASE UNCHANGED job
    BY <1>0, <2>1, EditorRows DEF Editor!TypeOK, NoneNewer
  <2>2. ASSUME NEW j \in Jobs,
               job' = [job EXCEPT ![j] = [there |-> TRUE, content |-> Editor!Owned(s, j)]]
        PROVE  /\ job' \in [Jobs -> [there : BOOLEAN, content : Editor!Content]]
               /\ \A k \in Jobs, f \in Editor!Fields :
                    job'[k].content[f].ids \in {k, None} /\ job'[k].content[f].rev <= rev
    <3>1. /\ job' \in [Jobs -> [there : BOOLEAN, content : Editor!Content]]
          /\ job'[j].content = Editor!Owned(s, j)
          /\ \A k \in Jobs : k # j => job'[k] = job[k]
      BY <1>0, <2>2, EditorOwned DEF Editor!TypeOK
    <3> QED BY <1>0, <3>1, EditorOwned, EditorRows DEF NoneNewer
  <2> QED BY <1>5, <2>1, <2>2
<1>7. Editor!TypeOK'
  BY <1>0, <1>1, <1>6 DEF Editor!TypeOK, Editor!Rows, Saving
<1>8. NoneNewer'
  <2>1. \A t \in Saves : turn'[t] <= rev
    BY <1>0, <1>1, EditorTurns, EditorRevs DEF NoneNewer
  <2>2. \A t \in Saves, f \in Editor!Fields : save'[t].content[f].rev <= rev
    BY <1>0, <1>1, EditorBlank, EditorRevs DEF NoneNewer
  <2> QED BY <1>0, <1>6, <2>1, <2>2 DEF NoneNewer
<1>9. ASSUME standing' = "sound"
      PROVE  Fresh'
  <2>1. /\ OneEditor /\ Fresh /\ \A l \in Loads : load'[l] = Editor!NoLoad
        /\ shown => editing = save[s].to /\ Covers(form, save[s].content)
    BY <1>0, <1>2, <1>9 DEF EditorInv, OneEditor, Fresh
  <2>2. ASSUME NEW c \in Editor!Content, Covers(c, save[s].content), NEW k \in Jobs,
               k = save[s].to, Covers(c, job[k].content)
        PROVE  Covers(c, job'[k].content)
    <3>1. CASE UNCHANGED job
      BY <2>2, <3>1
    <3>2. ASSUME NEW j \in Jobs,
                 IF save[s].to = None THEN j \notin Editor!Rows ELSE j = save[s].to,
                 job' = [job EXCEPT ![j] = [there |-> TRUE, content |-> Editor!Owned(s, j)]]
          PROVE  Covers(c, job'[k].content)
      <4>1. j = k
        BY <2>2, <3>2, ScreensAssumption DEF Editor!JobEditorAssumption
      <4>2. job'[k].content = Editor!Owned(s, k)
        BY <1>0, <3>2, <4>1 DEF Editor!TypeOK
      <4> QED BY <1>0, <2>2, <4>2, EditorOwned DEF Covers
    <3> QED BY <1>5, <3>1, <3>2
  <2>3. ASSUME shown, editing # None
        PROVE  Covers(form, job'[editing].content)
    BY <1>0, <2>1, <2>2, <2>3 DEF Fresh, Editor!TypeOK
  <2>4. ASSUME NEW t \in Saves, save'[t].pc = "sent"
        PROVE  /\ t # s /\ save'[t] = save[t] /\ save[t].to = save[s].to
               /\ shown => Covers(form, save'[t].content)
    BY <1>0, <1>1, <2>1, <2>4 DEF OneEditor, Fresh
  <2>5. ASSUME NEW t \in Saves, save'[t].pc = "sent", turn'[t] # 0
        PROVE  /\ save'[t].to # None => Covers(save'[t].content, job'[save'[t].to].content)
               /\ shown /\ turn'[t] = rev => Covers(save'[t].content, form)
               /\ \A u \in Saves : save'[u].pc = "sent" /\ turn'[u] <= turn'[t] =>
                    Covers(save'[t].content, save'[u].content)
    <3>1. /\ t # s /\ save'[t] = save[t] /\ save[t].to = save[s].to
          /\ turn'[t] = turn[t] /\ turn[t] # 0 /\ save[t].content \in Editor!Content
      BY <1>0, <1>1, <2>4, <2>5 DEF Editor!TypeOK
    <3>2. /\ save[t].to # None => Covers(save[t].content, job[save[t].to].content)
          /\ shown /\ turn[t] = rev => Covers(save[t].content, form)
          /\ \A u \in Saves : save[u].pc = "sent" /\ turn[u] <= turn[t] =>
               Covers(save[t].content, save[u].content)
      BY <2>1, <2>5, <3>1 DEF Fresh
    <3>3. save[t].to # None => Covers(save[t].content, job'[save[t].to].content)
      <4>1. CASE UNCHANGED job
        BY <3>2, <4>1
      <4>2. CASE job' # job
        <5>1. Covers(save[t].content, save[s].content)
          BY <1>0, <1>1, <2>5, <3>2, <4>2
        <5>2. save[t].to # None => save[t].to \in Jobs
          BY <1>0 DEF Editor!TypeOK
        <5> QED BY <2>2, <3>1, <3>2, <5>1, <5>2
      <4> QED BY <4>1, <4>2
    <3>4. ASSUME NEW u \in Saves, save'[u].pc = "sent", turn'[u] <= turn'[t]
          PROVE  Covers(save'[t].content, save'[u].content)
      BY <1>1, <2>4, <2>5, <3>1, <3>2, <3>4
    <3> QED BY <3>1, <3>2, <3>3, <3>4
  <2> QED BY <1>0, <2>1, <2>3, <2>4, <2>5, EditorBlank DEF Fresh
<1> QED BY <1>3, <1>4, <1>7, <1>8, <1>9 DEF EditorInv

LEMMA EditorSaved ==
  ASSUME EditorInv, NEW s \in Saves, Editor!SaveArrives(s)
  PROVE  EditorInv'
<1>0. /\ Editor!TypeOK /\ EditorShape /\ NoneNewer /\ save[s].pc = "ok"
      /\ save' = [save EXCEPT ![s] = Editor!NoSave]
      /\ UNCHANGED <<job, form, load, rev, standing, turn>>
      /\ (shown' = FALSE /\ editing' = None) \/ UNCHANGED <<shown, editing>>
  BY DEF EditorInv, Editor!SaveArrives, Editor!history
<1>1. /\ save'[s] = Editor!NoSave /\ \A t \in Saves : t # s => save'[t] = save[t]
      /\ save' \in Saving
  BY <1>0, EditorBlank DEF Editor!TypeOK, SaveOK, Saving
<1>2. Editor!TypeOK' /\ EditorShape'
  BY <1>0, <1>1, EditorBlank DEF Editor!TypeOK, EditorShape, Editor!Rows, Saving
<1>3. NoneNewer'
  BY <1>0, <1>1, EditorBlank, EditorRevs DEF NoneNewer
<1>4. ASSUME standing' # "crossed"
      PROVE  OneEditor'
  <2>1. OneEditor /\ \A l \in Loads : load[l] = Editor!NoLoad
    BY <1>0, <1>4, EditorBlank DEF EditorInv, OneEditor
  <2> QED BY <1>0, <1>1, <2>1, EditorBlank DEF OneEditor
<1>5. ASSUME standing' = "sound"
      PROVE  Fresh'
  <2>1. Fresh
    BY <1>0, <1>5 DEF EditorInv
  <2>2. ASSUME NEW t \in Saves, save'[t].pc = "sent"
        PROVE  t # s /\ save'[t] = save[t]
    BY <1>1, <2>2, EditorBlank
  <2> QED BY <1>0, <2>1, <2>2 DEF Fresh
<1> QED BY <1>2, <1>3, <1>4, <1>5 DEF EditorInv

LEMMA EditorOthers ==
  ASSUME EditorInv, NEW j \in Jobs,
         (\E f \in Editor!Fields : Editor!OtherSaves(j, f)) \/ Editor!OtherDeletes(j)
  PROVE  EditorInv'
<1>0. /\ Editor!TypeOK /\ EditorShape /\ NoneNewer
      /\ UNCHANGED <<shown, editing, form, load, save>>
      /\ Editor!Outdates(j) /\ Aged
      /\ job \in [Jobs -> [there : BOOLEAN, content : Editor!Content]]
  BY DEF EditorInv, Editor!TypeOK, Editor!OtherSaves, Editor!OtherDeletes, Editor!editor,
     Editor!Outdates, Editor!history, Aged
<1>1. /\ standing' \in {"sound", "stale", "crossed"} /\ turn' \in [Saves -> 0..MaxRev]
      /\ standing' = "crossed" <=> standing = "crossed"
      /\ \A s \in Saves : turn'[s] # 0 => turn'[s] = turn[s] /\ standing' = standing
      /\ \A s \in Saves : turn'[s] <= turn[s]
      /\ standing' = "sound" => standing = "sound" /\ turn' = turn
  BY <1>0, EditorAges
<1>2. /\ rev' \in 0..MaxRev /\ rev <= rev'
      /\ job' \in [Jobs -> [there : BOOLEAN, content : Editor!Content]]
      /\ \A k \in Jobs : k # j => job'[k] = job[k]
      /\ \A f \in Editor!Fields : job'[j].content[f].ids \in {j, None} /\ job'[j].content[f].rev <= rev'
  <2>1. ASSUME NEW f \in Editor!Fields, Editor!OtherSaves(j, f)
        PROVE  /\ rev' \in 0..MaxRev /\ rev <= rev'
               /\ job' \in [Jobs -> [there : BOOLEAN, content : Editor!Content]]
               /\ \A k \in Jobs : k # j => job'[k] = job[k]
               /\ \A g \in Editor!Fields :
                    job'[j].content[g].ids \in {j, None} /\ job'[j].content[g].rev <= rev'
    <3>1. /\ rev < MaxRev /\ rev' = rev + 1 /\ rev \in Nat /\ MaxRev \in Nat
          /\ job' = [job EXCEPT ![j].content[f] = [rev |-> rev + 1, ids |-> j]]
      BY <1>0, <2>1, EditorRevs, ScreensAssumption
         DEF Editor!JobEditorAssumption, Editor!OtherSaves
    <3>2. [rev |-> rev + 1, ids |-> j] \in Editor!Value /\ job[j].content \in Editor!Content
      BY <1>0, <3>1 DEF Editor!Value
    <3>3. /\ job'[j].content = [job[j].content EXCEPT ![f] = [rev |-> rev + 1, ids |-> j]]
          /\ job'[j].there = job[j].there
          /\ job' = [k \in Jobs |-> IF k = j THEN [job[j] EXCEPT !.content = job'[j].content] ELSE job[k]]
      BY <1>0, <3>1
    <3>4. job'[j].content \in Editor!Content
      BY <3>2, <3>3 DEF Editor!Content
    <3>5. job' \in [Jobs -> [there : BOOLEAN, content : Editor!Content]]
      BY <1>0, <3>3, <3>4
    <3>6. ASSUME NEW g \in Editor!Fields
          PROVE  job'[j].content[g].ids \in {j, None} /\ job'[j].content[g].rev <= rev'
      BY <1>0, <3>1, <3>2, <3>3, <3>6, EditorRows DEF NoneNewer, Editor!Content
    <3> QED BY <1>0, <3>1, <3>3, <3>5, <3>6
  <2>2. CASE Editor!OtherDeletes(j)
    <3>1. job' = [job EXCEPT ![j] = Editor!NoRow] /\ rev' = rev
      BY <2>2 DEF Editor!OtherDeletes
    <3> QED BY <1>0, <3>1, EditorBlank, EditorRevs DEF Editor!TypeOK
  <2> QED BY <2>1, <2>2
<1>3. Editor!TypeOK'
  <2>1. \A k \in Jobs, f \in Editor!Fields : job'[k].content[f].ids \in {k, None}
    BY <1>0, <1>2, EditorRows
  <2> QED BY <1>0, <1>1, <1>2, <2>1 DEF Editor!TypeOK, Editor!Rows
<1>4. EditorShape'
  BY <1>0, <1>1 DEF EditorShape
<1>5. NoneNewer'
  <2>1. rev \in Nat /\ rev' \in Nat /\ rev <= rev'
    BY <1>0, <1>2, EditorRevs
  <2>2. ASSUME NEW n \in Nat, n <= rev
        PROVE  n <= rev'
    BY <2>1, <2>2
  <2>3. ASSUME NEW f \in Editor!Fields
        PROVE  form'[f].rev <= rev' /\ \A s \in Saves : save'[s].content[f].rev <= rev'
    BY <1>0, <2>2, EditorContent DEF NoneNewer, Editor!TypeOK
  <2>4. ASSUME NEW f \in Editor!Fields, NEW l \in Loads
        PROVE  load'[l].content[f].rev <= rev'
    BY <1>0, <2>2, EditorContent DEF NoneNewer, Editor!TypeOK
  <2>5. ASSUME NEW f \in Editor!Fields, NEW k \in Jobs
        PROVE  job'[k].content[f].rev <= rev'
    BY <1>0, <1>2, <2>2, EditorRows DEF NoneNewer
  <2>6. ASSUME NEW s \in Saves
        PROVE  turn'[s] <= rev' /\ rev' # 0
    <3>1. turn'[s] \in Nat /\ turn[s] \in Nat /\ turn'[s] <= turn[s] /\ turn[s] <= rev /\ rev # 0
      BY <1>0, <1>1, EditorTurns DEF NoneNewer
    <3> QED BY <2>1, <3>1
  <2>7. rev' # 0
    BY <1>0, <2>1 DEF NoneNewer
  <2> QED BY <2>3, <2>4, <2>5, <2>6, <2>7 DEF NoneNewer
<1>6. ASSUME standing' # "crossed"
      PROVE  OneEditor'
  BY <1>0, <1>1, <1>6 DEF EditorInv, OneEditor
<1>7. ASSUME standing' = "sound"
      PROVE  Fresh'
  <2>1. /\ editing # j /\ \A l \in Loads : load[l].of # j
        /\ \A s \in Saves : save[s].to # j
    BY <1>0, <1>1, <1>7 DEF Editor!Outdates, Editor!FormAges, Editor!Becomes
  <2>2. Fresh /\ OneEditor /\ turn' = turn
    BY <1>1, <1>7 DEF EditorInv
  <2>3. /\ editing # None => job'[editing] = job[editing]
        /\ \A s \in Saves : save[s].to # None => job'[save[s].to] = job[save[s].to]
        /\ \A l \in Loads : load[l].pc # "idle" => job'[load[l].of] = job[load[l].of]
    BY <1>0, <1>2, <2>1 DEF Editor!TypeOK, EditorShape
  <2>4. ASSUME NEW s \in Saves, save[s].pc = "sent", turn[s] # 0, turn[s] = rev', shown
        PROVE  Covers(save[s].content, form)
    <3>1. turn[s] <= rev /\ turn[s] \in Nat /\ rev \in Nat /\ rev' \in Nat /\ rev <= rev'
      BY <1>0, <1>2, EditorTurns, EditorRevs DEF NoneNewer
    <3>2. turn[s] = rev
      BY <2>4, <3>1
    <3> QED BY <2>2, <2>4, <3>2 DEF Fresh
  <2> QED BY <1>0, <2>2, <2>3, <2>4 DEF Fresh
<1> QED BY <1>3, <1>4, <1>5, <1>6, <1>7 DEF EditorInv

LEMMA EditorNext == EditorInv /\ [Editor!Next]_editor => EditorInv'
<1> SUFFICES ASSUME EditorInv, [Editor!Next]_editor
             PROVE  EditorInv'
  OBVIOUS
<1>1. CASE UNCHANGED editor
  <2>1. UNCHANGED <<job, shown, editing, form, load, save, rev, standing, turn>>
    BY <1>1 DEF editor
  <2>2. Editor!TypeOK' /\ EditorShape' /\ NoneNewer'
    BY <2>1 DEF EditorInv, Editor!TypeOK, EditorShape, NoneNewer, Editor!Rows
  <2>3. (standing' # "crossed" => OneEditor') /\ (standing' = "sound" => Fresh')
    BY <2>1 DEF EditorInv, OneEditor, Fresh
  <2> QED BY <2>2, <2>3 DEF EditorInv
<1> QED BY <1>1, EditorOpens, EditorReads, EditorAnswered, EditorEdits, EditorSubmits,
           EditorCommits, EditorSaved, EditorOthers DEF Editor!Next

\* A save that goes through is a Commit of the first kind.
LEMMA EditorSound ==
  ASSUME EditorInv, [Editor!Next]_editor, NEW s \in Saves,
         save[s].pc = "sent", save'[s].pc = "ok"
  PROVE  /\ standing # "crossed" => Editor!OfOneJob(s)
         /\ turn[s] # 0 => Editor!TakesNothingBack(s)
         /\ Editor!PartsStay(s)
<1>0. Editor!TypeOK /\ save \in Saving /\ save' # save
  BY DEF EditorInv, Editor!TypeOK, Saving
<1>1. Editor!Commit(s)
  <2>1. PICK t \in Saves : Editor!submitJobEditor(t) \/ Editor!Commit(t) \/ Editor!SaveArrives(t)
    BY <1>0 DEF editor, Editor!Next, Editor!openJobEditor, Editor!OtherDeletes,
       Editor!closeJobEditor, Editor!ReadSteps, Editor!ReadOptions, Editor!Loaded,
       Editor!LoadArrives, Editor!LoadLost, Editor!Edit, Editor!OtherSaves
  <2>2. \/ /\ save' = [save EXCEPT ![t] = save'[t]]
           /\ save[t] = Editor!NoSave \/ save[t].pc = "ok"
        \/ Editor!Commit(t) /\ save' = [save EXCEPT ![t] = save'[t]]
    BY <1>0, <2>1
       DEF Editor!submitJobEditor, Editor!Commit, Editor!SaveArrives, Saving
  <2>3. t = s
    BY <1>0, <2>2 DEF Saving
  <2> QED BY <2>2, <2>3, EditorBlank
<1>2. PICK j \in Jobs :
        /\ IF save[s].to = None THEN j \notin Editor!Rows
           ELSE j = save[s].to /\ j \in Editor!Rows
        /\ ~Editor!Clash(s, j)
        /\ job' = [job EXCEPT ![j] = [there |-> TRUE, content |-> Editor!Owned(s, j)]]
  BY <1>0, <1>1, EditorBlank DEF Editor!Commit, Saving
<1>3. job'[j].content = Editor!Owned(s, j) /\ \A k : k # j => job'[k] = job[k]
  BY <1>0, <1>2 DEF Editor!TypeOK
<1>4. standing # "crossed" => Editor!OfOneJob(s)
  BY DEF EditorInv, OneEditor, Editor!OfOneJob
<1>5. turn[s] # 0 => Editor!TakesNothingBack(s)
  BY <1>0, <1>2, <1>3, EditorOwned
     DEF EditorInv, EditorShape, Fresh, Covers, Editor!TakesNothingBack
<1>6. Editor!PartsStay(s)
  <2> SUFFICES ASSUME NEW f \in Editor!Fields, NEW i \in Editor!Rows,
                      save[s].content[f].rev # 0, save[s].content[f].ids = i,
                      job[i].content[f].rev # 0, NEW k \in Jobs \ {i}
               PROVE  job'[k] = job[k]
    BY DEF Editor!PartsStay
  <2>1. i \in Jobs /\ i # None
    BY ScreensAssumption DEF Editor!JobEditorAssumption, Editor!Rows
  <2>2. i = j
    BY <1>2, <2>1 DEF Editor!Clash
  <2> QED BY <1>3, <2>2
<1> QED BY <1>4, <1>5, <1>6
----------------------------------------------------------------------------
(* Projects.                                                                *)

\* The project that is deleted already while the answer is on its way.
Gone == IF delete.pc = "ok" THEN {delete.id} ELSE {}

\* What is not in flight is as it was.
SelectorShape ==
  /\ \A f \in Fetches : fetch[f].pc = "idle" => fetch[f] = Selector!NoFetch
  /\ create.pc = "idle" => create = Selector!NoCreate
  /\ create.pc # "idle" => create.name \in Selector!Name
  /\ delete.pc = "idle" => delete = Selector!NoDelete
  /\ delete.pc # "idle" => delete.id \in Ids

\* As long as no answers cross there is one request in flight at most ...
OneRequest ==
  /\ \A f, g \in Fetches :
       fetch[f] # Selector!NoFetch /\ fetch[g] # Selector!NoFetch => f = g
  /\ Selector!Listing => create = Selector!NoCreate /\ delete = Selector!NoDelete
  /\ create # Selector!NoCreate => delete = Selector!NoDelete

\* ... the selector shows the current project unless its options are being renewed, and
\* both are of the table ...
Shown ==
  /\ current \in Selector!Rows \cup {All} \cup Gone
  /\ ~Selector!Listing =>
       selector.value = current /\ selector.options \subseteq Selector!Rows \cup Gone

\* ... and the answers have the projects that are selected with them.
AnswersFit ==
  /\ create.pc = "ok" => create.name.lower \in Selector!Rows
  /\ \A f \in Fetches :
       /\ fetch[f].pc # "error"
       /\ fetch[f].then # None => fetch[f].then \in Selector!Rows
       /\ fetch[f].pc = "ok" =>
            /\ fetch[f].ids \subseteq Selector!Rows
            /\ IF fetch[f].then = None THEN current \in fetch[f].ids \cup {All}
               ELSE fetch[f].then \in fetch[f].ids

Listings ==
  [Fetches -> [pc : {"idle", "sent", "ok", "error"}, ids : SUBSET Ids, then : Ids \cup {None}]]

SelectorInv ==
  /\ Selector!TypeOK /\ SelectorShape
  /\ ~mixed => OneRequest /\ Shown /\ AnswersFit

LEMMA SelectorInit == Selector!Init => SelectorInv
<1> SUFFICES ASSUME Selector!Init
             PROVE  SelectorInv
  OBVIOUS
<1>0. /\ project = [i \in Ids |-> IF i = Default THEN Selector!Seed ELSE Selector!NoRow]
      /\ current = All /\ selector = [options |-> {Default}, value |-> Default]
      /\ create = Selector!NoCreate /\ delete = Selector!NoDelete /\ mixed = FALSE
  BY DEF Selector!Init
<1>1. PICK f \in Fetches : fetch = [[g \in Fetches |-> Selector!NoFetch] EXCEPT ![f].pc = "sent"]
  BY DEF Selector!Init
<1>2. /\ fetch[f] = [pc |-> "sent", ids |-> {}, then |-> None]
      /\ \A g \in Fetches : g # f => fetch[g] = Selector!NoFetch
      /\ fetch \in Listings
  BY <1>1 DEF Selector!NoFetch, Listings
<1>3. Selector!Seed \in Selector!Name /\ Selector!Seed # Selector!NoRow /\ Default \in Ids
  BY ScreensAssumption
     DEF Selector!ProjectsAssumption, Selector!Seed, Selector!Name, Selector!NoRow
<1>4. /\ project \in [Ids -> Selector!Name \cup {Selector!NoRow}]
      /\ Default \in Selector!Rows
      /\ \A i \in Selector!Rows : project[i].lower = i \/ (i = Default /\ project[i] = Selector!Seed)
  BY <1>0, <1>3 DEF Selector!Rows
<1>5. Selector!TypeOK
  BY <1>0, <1>2, <1>3, <1>4 DEF Selector!TypeOK, Selector!NoCreate, Selector!NoDelete, Listings
<1>6. SelectorShape
  BY <1>0, <1>2 DEF SelectorShape, Selector!NoFetch, Selector!NoCreate, Selector!NoDelete
<1>7. Selector!Listing
  BY <1>2 DEF Selector!Listing, Selector!NoFetch
<1>8. OneRequest
  BY <1>0, <1>2 DEF OneRequest
<1>9. Shown
  BY <1>0, <1>7 DEF Shown
<1>10. AnswersFit
  BY <1>0, <1>2 DEF AnswersFit, Selector!NoCreate, Selector!NoFetch
<1> QED BY <1>5, <1>6, <1>8, <1>9, <1>10 DEF SelectorInv

\* What the table promises of itself, apart from TypeOK's other conjuncts.
TableOK ==
  /\ project \in [Ids -> Selector!Name \cup {Selector!NoRow}]
  /\ Default \in Selector!Rows
  /\ \A i \in Selector!Rows : project[i].lower = i \/ (i = Default /\ project[i] = Selector!Seed)

\* An upsert adds the id of its name, a deletion takes any but the default one away.
LEMMA RowPut ==
  ASSUME TableOK, NEW name \in Selector!Name, project' = [project EXCEPT ![name.lower] = name]
  PROVE  TableOK' /\ Selector!Rows' = Selector!Rows \cup {name.lower}
<1>1. name.lower \in Ids /\ name # Selector!NoRow
  BY ScreensAssumption DEF Selector!ProjectsAssumption, Selector!Name, Selector!NoRow
<1>2. /\ project' \in [Ids -> Selector!Name \cup {Selector!NoRow}]
      /\ project'[name.lower] = name
      /\ \A i \in Ids : i # name.lower => project'[i] = project[i]
  BY <1>1 DEF TableOK
<1>3. Selector!Rows' = Selector!Rows \cup {name.lower}
  BY <1>1, <1>2 DEF Selector!Rows
<1>4. \A i \in Selector!Rows : i \in Ids
  BY DEF Selector!Rows
<1> QED BY <1>1, <1>2, <1>3, <1>4 DEF TableOK

LEMMA RowDrop ==
  ASSUME TableOK, NEW i \in Ids, i # Default, project' = [project EXCEPT ![i] = Selector!NoRow]
  PROVE  TableOK' /\ Selector!Rows' = Selector!Rows \ {i}
<1>1. /\ project' \in [Ids -> Selector!Name \cup {Selector!NoRow}]
      /\ project'[i] = Selector!NoRow
      /\ \A j \in Ids : j # i => project'[j] = project[j]
  BY DEF TableOK
<1>2. Selector!Rows' = Selector!Rows \ {i}
  BY <1>1 DEF Selector!Rows
<1>3. \A j \in Selector!Rows : j \in Ids
  BY DEF Selector!Rows
<1> QED BY <1>1, <1>2, <1>3 DEF TableOK

\* The types of what is in flight and of what is shown.
FlightOK ==
  /\ current \in Ids \cup {All}
  /\ selector \in [options : SUBSET Ids, value : Ids \cup {All, None}]
  /\ fetch \in Listings
  /\ create \in [pc : {"idle", "sent", "ok", "error"}, name : Selector!Name \cup {Selector!NoRow}]
  /\ delete \in [pc : {"idle", "sent", "ok", "error"}, id : Ids \cup {None}]
  /\ mixed \in BOOLEAN

LEMMA SelectorTypes == Selector!TypeOK <=> TableOK /\ FlightOK
BY DEF Selector!TypeOK, TableOK, FlightOK, Listings

LEMMA SelectorTypesNext == Selector!TypeOK' <=> TableOK' /\ FlightOK'
BY DEF Selector!TypeOK, TableOK, FlightOK, Listings

LEMMA TableSame == TableOK /\ project' = project => TableOK' /\ Selector!Rows' = Selector!Rows
BY DEF TableOK, Selector!Rows

LEMMA SelectorAddsRow ==
  ASSUME SelectorInv,
         Selector!handleCreateProject \/ \E name \in Selector!Name : Selector!OtherCreates(name)
  PROVE  SelectorInv'
<1>0. /\ TableOK /\ FlightOK /\ SelectorShape
      /\ UNCHANGED <<current, selector, fetch, delete, mixed>>
  BY SelectorTypes DEF SelectorInv, Selector!handleCreateProject, Selector!OtherCreates,
     Selector!browser
<1>1. ASSUME NEW name \in Selector!Name, project' = [project EXCEPT ![name.lower] = name] \/ UNCHANGED project
      PROVE  /\ TableOK' /\ Selector!Rows \subseteq Selector!Rows'
             /\ project' # project => name.lower \in Selector!Rows'
  BY <1>0, <1>1, RowPut, TableSame
<1>2. /\ TableOK' /\ Selector!Rows \subseteq Selector!Rows'
      /\ create' \in [pc : {"idle", "sent", "ok", "error"}, name : Selector!Name \cup {Selector!NoRow}]
      /\ create'.pc = "idle" => create' = Selector!NoCreate
      /\ create'.pc # "idle" => create'.name \in Selector!Name
      /\ create' # create => create # Selector!NoCreate
      /\ create'.pc = "ok" => create'.name.lower \in Selector!Rows' \/ create' = create
  <2>1. CASE Selector!handleCreateProject
    <3>1. create.pc = "sent" /\ create # Selector!NoCreate /\ create.name \in Selector!Name
      BY <1>0, <2>1 DEF Selector!handleCreateProject, SelectorShape, Selector!NoCreate
    <3>2. \/ project' = [project EXCEPT ![create.name.lower] = create.name]
             /\ create' = [create EXCEPT !.pc = "ok"]
          \/ UNCHANGED project /\ create' = [create EXCEPT !.pc = "error"]
      BY <2>1 DEF Selector!handleCreateProject, Selector!Put
    <3>3. create'.name = create.name /\ create'.pc \in {"ok", "error"}
          /\ create' \in [pc : {"idle", "sent", "ok", "error"}, name : Selector!Name \cup {Selector!NoRow}]
      BY <1>0, <3>2 DEF FlightOK
    <3>4. create'.pc = "ok" => create.name.lower \in Selector!Rows'
      BY <1>0, <3>1, <3>2, <3>3, RowPut DEF FlightOK
    <3> QED BY <1>1, <3>1, <3>2, <3>3, <3>4
  <2>2. ASSUME NEW name \in Selector!Name, Selector!OtherCreates(name)
        PROVE  create' = create /\ TableOK' /\ Selector!Rows \subseteq Selector!Rows'
    BY <1>1, <2>2 DEF Selector!OtherCreates, Selector!Put
  <2> QED BY <1>0, <2>1, <2>2 DEF FlightOK, SelectorShape
<1>3. Selector!TypeOK'
  BY <1>0, <1>2, SelectorTypesNext DEF FlightOK
<1>4. SelectorShape'
  BY <1>0, <1>2 DEF SelectorShape
<1>5. ASSUME ~mixed'
      PROVE  OneRequest' /\ Shown' /\ AnswersFit'
  <2>1. OneRequest /\ Shown /\ AnswersFit
    BY <1>0, <1>5 DEF SelectorInv
  <2>2. OneRequest'
    BY <1>0, <1>2, <2>1 DEF OneRequest, Selector!Listing
  <2>3. Shown'
    BY <1>0, <1>2, <2>1 DEF Shown, Selector!Listing, Gone
  <2>4. AnswersFit'
    BY <1>0, <1>2, <2>1 DEF AnswersFit
  <2> QED BY <2>2, <2>3, <2>4
<1> QED BY <1>3, <1>4, <1>5 DEF SelectorInv

LEMMA SelectorDropsRow ==
  ASSUME SelectorInv, Selector!handleDeleteProject \/ Selector!Lose \/ \E i \in Ids : Selector!OtherDeletes(i)
  PROVE  SelectorInv'
<1>0. /\ TableOK /\ FlightOK /\ SelectorShape /\ UNCHANGED <<current, selector, fetch>>
  BY SelectorTypes DEF SelectorInv, Selector!handleDeleteProject, Selector!Lose,
     Selector!OtherDeletes,
     Selector!browser
<1>1. ASSUME NEW i \in Ids, Selector!OtherDeletes(i)
      PROVE  SelectorInv'
  <2>1. TableOK' /\ mixed' = TRUE /\ UNCHANGED <<create, delete>>
    BY <1>0, <1>1, RowDrop DEF Selector!OtherDeletes, Selector!Drop
  <2>2. FlightOK' /\ SelectorShape'
    BY <1>0, <2>1 DEF FlightOK, SelectorShape
  <2> QED BY <2>1, <2>2, SelectorTypesNext DEF SelectorInv
<1>2. CASE Selector!Lose
  <2>1. TableOK' /\ mixed' = TRUE
    BY <1>0, <1>2, TableSame DEF Selector!Lose
  <2>2. \/ create.pc = "ok" /\ create' = [create EXCEPT !.pc = "error"] /\ UNCHANGED delete
        \/ delete.pc = "ok" /\ delete' = [delete EXCEPT !.pc = "error"] /\ UNCHANGED create
    BY <1>2 DEF Selector!Lose
  <2>3. FlightOK' /\ SelectorShape'
    BY <1>0, <2>1, <2>2 DEF FlightOK, SelectorShape
  <2> QED BY <2>1, <2>3, SelectorTypesNext DEF SelectorInv
<1>3. CASE Selector!handleDeleteProject
  <2>1. delete.pc = "sent" /\ delete.id \in Ids /\ delete # Selector!NoDelete /\ UNCHANGED <<create, mixed>>
    BY <1>0, <1>3 DEF Selector!handleDeleteProject, SelectorShape, Selector!NoDelete
  <2>2. \/ delete.id # Default /\ project' = [project EXCEPT ![delete.id] = Selector!NoRow]
           /\ delete' = [delete EXCEPT !.pc = "ok"]
        \/ UNCHANGED project /\ delete' = [delete EXCEPT !.pc = "error"]
    BY <1>3 DEF Selector!handleDeleteProject, Selector!Drop
  <2>3. /\ delete'.id = delete.id /\ delete'.pc \in {"ok", "error"}
        /\ delete' \in [pc : {"idle", "sent", "ok", "error"}, id : Ids \cup {None}]
    BY <1>0, <2>2 DEF FlightOK
  <2>4. /\ TableOK'
        /\ Selector!Rows \subseteq Selector!Rows' \cup {delete.id}
        /\ delete'.pc = "error" => Selector!Rows' = Selector!Rows
    <3>1. CASE UNCHANGED project
      BY <1>0, <3>1, TableSame
    <3>2. CASE delete.id # Default /\ project' = [project EXCEPT ![delete.id] = Selector!NoRow]
               /\ delete' = [delete EXCEPT !.pc = "ok"]
      <4>1. delete'.pc = "ok"
        BY <1>0, <3>2 DEF FlightOK
      <4> QED BY <1>0, <2>1, <3>2, <4>1, RowDrop
    <3> QED BY <2>2, <3>1, <3>2
  <2>5. Selector!TypeOK'
    BY <1>0, <2>1, <2>3, <2>4, SelectorTypesNext DEF FlightOK
  <2>6. SelectorShape'
    BY <1>0, <2>1, <2>3 DEF SelectorShape
  <2>7. ASSUME ~mixed'
        PROVE  OneRequest' /\ Shown' /\ AnswersFit'
    <3>1. OneRequest /\ Shown /\ AnswersFit
      BY <2>1, <2>7 DEF SelectorInv
    <3>2. ~Selector!Listing /\ create = Selector!NoCreate
      BY <2>1, <3>1 DEF OneRequest
    <3>3. ~Selector!Listing'
      BY <1>0, <3>2 DEF Selector!Listing
    <3>4. OneRequest'
      BY <1>0, <2>1, <3>1, <3>2, <3>3 DEF OneRequest
    <3>5. Selector!Rows \cup Gone \subseteq Selector!Rows' \cup Gone'
      BY <2>1, <2>3, <2>4 DEF Gone
    <3>6. Shown'
      BY <1>0, <3>1, <3>2, <3>5 DEF Shown
    <3>7. \A f \in Fetches : fetch'[f] = Selector!NoFetch
      BY <3>3 DEF Selector!Listing
    <3>8. AnswersFit'
      BY <2>1, <3>2, <3>7 DEF AnswersFit, Selector!NoFetch, Selector!NoCreate
    <3> QED BY <3>4, <3>6, <3>8
  <2> QED BY <2>5, <2>6, <2>7 DEF SelectorInv
<1> QED BY <1>1, <1>2, <1>3

LEMMA SelectorListed ==
  ASSUME SelectorInv, NEW f \in Fetches,
         Selector!handleListProjects(f) \/ Selector!ListFails(f) \/ Selector!ListArrives(f)
  PROVE  SelectorInv'
<1>0. /\ TableOK /\ FlightOK /\ SelectorShape /\ UNCHANGED <<project, create, delete>>
      /\ TableOK' /\ Selector!Rows' = Selector!Rows
      /\ Selector!Rows \subseteq Ids
  BY SelectorTypes, TableSame DEF SelectorInv, Selector!handleListProjects, Selector!ListFails,
     Selector!ListArrives, Selector!Rows
<1>1. fetch[f] # Selector!NoFetch
  BY DEF Selector!handleListProjects, Selector!ListFails, Selector!ListArrives, Selector!NoFetch
<1>2. fetch[f].pc \in {"idle", "sent", "ok", "error"} /\ fetch[f].ids \subseteq Ids
      /\ fetch[f].then \in Ids \cup {None}
  BY <1>0 DEF FlightOK, Listings
<1>3. CASE Selector!handleListProjects(f)
  <2>1. /\ fetch'[f].pc = "ok" /\ fetch'[f].ids = Selector!Rows /\ fetch'[f].then = fetch[f].then
        /\ \A g \in Fetches : g # f => fetch'[g] = fetch[g]
        /\ fetch' \in Listings
        /\ UNCHANGED <<current, selector, mixed>>
    BY <1>0, <1>3 DEF Selector!handleListProjects, FlightOK, Selector!browser, Listings
  <2>2. Selector!TypeOK'
    BY <1>0, <2>1, SelectorTypesNext DEF FlightOK
  <2>3. SelectorShape'
    BY <1>0, <2>1 DEF SelectorShape
  <2>4. ASSUME ~mixed'
        PROVE  OneRequest' /\ Shown' /\ AnswersFit'
    <3>1. OneRequest /\ Shown /\ AnswersFit
      BY <2>1, <2>4 DEF SelectorInv
    <3>2. Selector!Listing /\ Selector!Listing' /\ fetch'[f] # Selector!NoFetch
      BY <1>1, <2>1 DEF Selector!Listing, Selector!NoFetch
    <3>3. OneRequest'
      BY <1>0, <1>1, <2>1, <3>1, <3>2 DEF OneRequest
    <3>4. Gone = {} /\ Gone' = {}
      BY <1>0, <3>1, <3>2 DEF OneRequest, Gone, Selector!NoDelete
    <3>5. Shown'
      BY <1>0, <2>1, <3>1, <3>2, <3>4 DEF Shown
    <3>6. AnswersFit'
      BY <1>0, <2>1, <3>1, <3>4 DEF AnswersFit, Shown
    <3> QED BY <3>3, <3>5, <3>6
  <2> QED BY <2>2, <2>3, <2>4 DEF SelectorInv
<1>4. CASE Selector!ListFails(f)
  <2>1. /\ fetch'[f].pc = "error" /\ \A g \in Fetches : g # f => fetch'[g] = fetch[g]
        /\ fetch' \in Listings
        /\ UNCHANGED <<current, selector>> /\ mixed' = TRUE
    BY <1>0, <1>4 DEF Selector!ListFails, FlightOK, Selector!browser, Listings
  <2>2. Selector!TypeOK'
    BY <1>0, <2>1, SelectorTypesNext DEF FlightOK
  <2>3. SelectorShape'
    BY <1>0, <2>1 DEF SelectorShape
  <2> QED BY <2>1, <2>2, <2>3 DEF SelectorInv
<1>5. CASE Selector!ListArrives(f)
  <2>1. /\ fetch'[f] = Selector!NoFetch /\ \A g \in Fetches : g # f => fetch'[g] = fetch[g]
        /\ fetch' \in Listings
        /\ mixed' = mixed
    BY <1>0, <1>5 DEF Selector!ListArrives, FlightOK, Selector!NoFetch, Listings
  <2>2. fetch[f].pc \in {"ok", "error"}
        /\ current' = IF fetch[f].then = None THEN current ELSE fetch[f].then
    BY <1>5 DEF Selector!ListArrives
  <2>3. PICK options, value :
          /\ options = IF fetch[f].pc = "ok" THEN fetch[f].ids ELSE selector.options
          /\ value = IF fetch[f].then = None
                     THEN IF fetch[f].pc = "error" THEN selector.value
                          ELSE IF current \in options THEN current ELSE All
                     ELSE IF fetch[f].then \in options THEN fetch[f].then ELSE None
          /\ selector' = [options |-> options, value |-> value]
    BY <1>5 DEF Selector!ListArrives
  <2>4. /\ selector' \in [options : SUBSET Ids, value : Ids \cup {All, None}]
        /\ current' \in Ids \cup {All}
    BY <1>0, <1>2, <2>2, <2>3 DEF FlightOK
  <2>5. Selector!TypeOK'
    BY <1>0, <2>1, <2>4, SelectorTypesNext DEF FlightOK
  <2>6. SelectorShape'
    BY <1>0, <2>1 DEF SelectorShape
  <2>7. ASSUME ~mixed'
        PROVE  OneRequest' /\ Shown' /\ AnswersFit'
    <3>1. OneRequest /\ Shown /\ AnswersFit
      BY <2>1, <2>7 DEF SelectorInv
    <3>2. Selector!Listing /\ ~Selector!Listing'
      BY <1>1, <2>1, <3>1 DEF Selector!Listing, OneRequest
    <3>3. OneRequest'
      BY <1>0, <1>1, <2>1, <3>1, <3>2 DEF OneRequest, Selector!Listing
    <3>4. Gone = {} /\ Gone' = {} /\ create = Selector!NoCreate
      BY <1>0, <3>1, <3>2 DEF OneRequest, Gone, Selector!NoDelete
    <3>5. fetch[f].pc = "ok" /\ fetch[f].ids \subseteq Selector!Rows
      BY <2>2, <3>1 DEF AnswersFit
    <3>6. Shown'
      <4>1. CASE fetch[f].then = None
        BY <1>0, <2>2, <2>3, <3>1, <3>4, <3>5, <4>1 DEF Shown, AnswersFit
      <4>2. CASE fetch[f].then # None
        BY <1>0, <2>2, <2>3, <3>1, <3>4, <3>5, <4>2 DEF Shown, AnswersFit
      <4> QED BY <4>1, <4>2
    <3>7. \A g \in Fetches : fetch'[g] = Selector!NoFetch
      BY <3>2 DEF Selector!Listing
    <3>8. AnswersFit'
      BY <1>0, <3>4, <3>7 DEF AnswersFit, Selector!NoFetch, Selector!NoCreate
    <3> QED BY <3>3, <3>6, <3>8
  <2> QED BY <2>5, <2>6, <2>7 DEF SelectorInv
<1> QED BY <1>3, <1>4, <1>5

\* A listing that sets out alone.
LEMMA SelectorLoads ==
  ASSUME FlightOK, SelectorShape, NEW then \in Ids \cup {None}, Selector!loadProjects(then)
  PROVE  /\ fetch' \in Listings
         /\ \A g \in Fetches : fetch'[g].pc = "idle" => fetch'[g] = Selector!NoFetch
         /\ Selector!Listing'
         /\ ~Selector!Listing =>
              /\ \A g, h \in Fetches :
                   fetch'[g] # Selector!NoFetch /\ fetch'[h] # Selector!NoFetch => g = h
              /\ \A g \in Fetches : fetch'[g].pc \in {"idle", "sent"} /\ fetch'[g].then \in {None, then}
<1>1. PICK f \in Fetches :
        /\ fetch[f] = Selector!NoFetch
        /\ fetch' = [fetch EXCEPT ![f] = [Selector!NoFetch EXCEPT !.pc = "sent", !.then = then]]
  BY DEF Selector!loadProjects
<1>2. /\ fetch'[f] = [pc |-> "sent", ids |-> {}, then |-> then]
      /\ \A g \in Fetches : g # f => fetch'[g] = fetch[g]
      /\ fetch' \in Listings
  BY <1>1 DEF FlightOK, Selector!NoFetch, Listings
<1>3. fetch'[f] # Selector!NoFetch
  BY <1>2 DEF Selector!NoFetch
<1>4. ~Selector!Listing => \A g \in Fetches : g # f => fetch'[g] = Selector!NoFetch
  BY <1>2 DEF Selector!Listing
<1>5. Selector!Listing'
  BY <1>3 DEF Selector!Listing
<1>6. Selector!NoFetch.pc = "idle" /\ Selector!NoFetch.then = None
  BY DEF Selector!NoFetch
<1>7. \A g \in Fetches : fetch'[g].pc = "idle" => fetch'[g] = Selector!NoFetch
  BY <1>2 DEF SelectorShape
<1> QED BY <1>2, <1>3, <1>4, <1>5, <1>6, <1>7

\* What the browser does on its own leaves the table alone.
LEMMA SelectorAsks ==
  ASSUME SelectorInv,
         \/ Selector!Refresh
         \/ \E i \in Ids \cup {All} : Selector!onSelectHeaderProject(i)
         \/ \E name \in Selector!Name : Selector!createProjectPrompt(name)
         \/ \E i \in Ids : Selector!deleteProject(i)
  PROVE  SelectorInv'
<1>0. /\ TableOK /\ FlightOK /\ SelectorShape /\ UNCHANGED project
      /\ TableOK' /\ Selector!Rows' = Selector!Rows
      /\ ~mixed => OneRequest /\ Shown /\ AnswersFit
  BY SelectorTypes, TableSame DEF SelectorInv, Selector!Refresh, Selector!onSelectHeaderProject,
     Selector!createProjectPrompt, Selector!deleteProject
<1>1. CASE Selector!Refresh
  <2>1. /\ Selector!loadProjects(None) /\ UNCHANGED <<current, selector, create, delete>>
        /\ mixed' = (mixed \/ Selector!Waiting)
    BY <1>1 DEF Selector!Refresh, Selector!browser
  <2>2. Selector!TypeOK' /\ SelectorShape'
    BY <1>0, <2>1, SelectorLoads, SelectorTypesNext DEF FlightOK, SelectorShape
  <2>3. ASSUME ~mixed'
        PROVE  OneRequest' /\ Shown' /\ AnswersFit'
    <3>1. /\ ~mixed /\ OneRequest /\ Shown /\ AnswersFit
          /\ ~Selector!Listing /\ create = Selector!NoCreate /\ delete = Selector!NoDelete
      BY <1>0, <2>1, <2>3 DEF Selector!Waiting
    <3>2. /\ Selector!Listing'
          /\ \A g, h \in Fetches :
               fetch'[g] # Selector!NoFetch /\ fetch'[h] # Selector!NoFetch => g = h
          /\ \A g \in Fetches : fetch'[g].pc \in {"idle", "sent"} /\ fetch'[g].then = None
      BY <1>0, <2>1, <3>1, SelectorLoads
    <3>3. OneRequest'
      BY <2>1, <3>1, <3>2 DEF OneRequest
    <3>4. Shown'
      BY <1>0, <2>1, <3>1, <3>2 DEF Shown, Gone
    <3>5. AnswersFit'
      BY <1>0, <2>1, <3>1, <3>2 DEF AnswersFit, Selector!NoCreate
    <3> QED BY <3>3, <3>4, <3>5
  <2> QED BY <2>2, <2>3 DEF SelectorInv
<1>2. ASSUME NEW i \in Ids \cup {All}, Selector!onSelectHeaderProject(i)
      PROVE  SelectorInv'
  <2>1. /\ current' = i /\ i \in selector.options \cup {All}
        /\ selector' = [selector EXCEPT !.value = i]
        /\ mixed' = (mixed \/ Selector!Listing)
        /\ UNCHANGED <<fetch, create, delete>>
    BY <1>2 DEF Selector!onSelectHeaderProject
  <2>2. /\ selector' \in [options : SUBSET Ids, value : Ids \cup {All, None}]
        /\ selector'.value = i /\ selector'.options = selector.options
    BY <1>0, <2>1 DEF FlightOK
  <2>3. Selector!TypeOK' /\ SelectorShape'
    BY <1>0, <2>1, <2>2, SelectorTypesNext DEF FlightOK, SelectorShape
  <2>4. ASSUME ~mixed'
        PROVE  OneRequest' /\ Shown' /\ AnswersFit'
    <3>1. /\ OneRequest /\ Shown /\ AnswersFit /\ ~Selector!Listing /\ ~Selector!Listing'
      BY <1>0, <2>1, <2>4 DEF Selector!Listing
    <3>2. OneRequest'
      BY <2>1, <3>1 DEF OneRequest
    <3>3. Shown'
      BY <1>0, <2>1, <2>2, <3>1 DEF Shown, Gone
    <3>4. \A g \in Fetches : fetch'[g] = Selector!NoFetch
      BY <3>1 DEF Selector!Listing
    <3>5. AnswersFit'
      BY <1>0, <2>1, <3>1, <3>4 DEF AnswersFit, Selector!NoFetch
    <3> QED BY <3>2, <3>3, <3>5
  <2> QED BY <2>3, <2>4 DEF SelectorInv
<1>3. ASSUME NEW name \in Selector!Name, Selector!createProjectPrompt(name)
      PROVE  SelectorInv'
  <2>1. /\ create' = [pc |-> "sent", name |-> name]
        /\ mixed' = (mixed \/ Selector!Waiting)
        /\ UNCHANGED <<current, selector, fetch, delete>>
    BY <1>3 DEF Selector!createProjectPrompt, Selector!browser
  <2>2. Selector!TypeOK' /\ SelectorShape'
    BY <1>0, <2>1, SelectorTypesNext DEF FlightOK, SelectorShape
  <2>3. ASSUME ~mixed'
        PROVE  OneRequest' /\ Shown' /\ AnswersFit'
    <3>1. /\ OneRequest /\ Shown /\ AnswersFit /\ ~Selector!Listing /\ ~Selector!Listing'
          /\ delete = Selector!NoDelete
      BY <1>0, <2>1, <2>3 DEF Selector!Listing, Selector!Waiting
    <3>2. OneRequest'
      BY <2>1, <3>1 DEF OneRequest
    <3>3. Shown'
      BY <1>0, <2>1, <3>1 DEF Shown, Gone
    <3>4. AnswersFit'
      BY <1>0, <2>1, <3>1 DEF AnswersFit
    <3> QED BY <3>2, <3>3, <3>4
  <2> QED BY <2>2, <2>3 DEF SelectorInv
<1>4. ASSUME NEW i \in Ids, Selector!deleteProject(i)
      PROVE  SelectorInv'
  <2>1. /\ delete' = [pc |-> "sent", id |-> i] /\ delete = Selector!NoDelete
        /\ mixed' = (mixed \/ Selector!Waiting)
        /\ UNCHANGED <<current, selector, fetch, create>>
    BY <1>4 DEF Selector!deleteProject, Selector!browser
  <2>2. Selector!TypeOK' /\ SelectorShape'
    BY <1>0, <2>1, SelectorTypesNext DEF FlightOK, SelectorShape
  <2>3. ASSUME ~mixed'
        PROVE  OneRequest' /\ Shown' /\ AnswersFit'
    <3>1. /\ OneRequest /\ Shown /\ AnswersFit /\ ~Selector!Listing /\ ~Selector!Listing'
          /\ create = Selector!NoCreate
      BY <1>0, <2>1, <2>3 DEF Selector!Listing, Selector!Waiting
    <3>2. OneRequest'
      BY <2>1, <3>1 DEF OneRequest
    <3>3. Shown'
      BY <1>0, <2>1, <3>1 DEF Shown, Gone, Selector!NoDelete
    <3>4. AnswersFit'
      BY <1>0, <2>1, <3>1 DEF AnswersFit
    <3> QED BY <3>2, <3>3, <3>4
  <2> QED BY <2>2, <2>3 DEF SelectorInv
<1> QED BY <1>1, <1>2, <1>3, <1>4

LEMMA SelectorAnswered ==
  ASSUME SelectorInv, Selector!CreateArrives \/ Selector!DeleteArrives
  PROVE  SelectorInv'
<1>0. /\ TableOK /\ FlightOK /\ SelectorShape /\ UNCHANGED <<project, selector, mixed>>
      /\ TableOK' /\ Selector!Rows' = Selector!Rows
      /\ ~mixed => OneRequest /\ Shown /\ AnswersFit
  BY SelectorTypes, TableSame DEF SelectorInv, Selector!CreateArrives, Selector!DeleteArrives,
     Selector!browser
<1>1. CASE Selector!CreateArrives
  <2>1. /\ create.pc \in {"ok", "error"} /\ create' = Selector!NoCreate /\ UNCHANGED <<current, delete>>
        /\ create.name.lower \in Ids
    BY <1>0, <1>1 DEF Selector!CreateArrives, Selector!browser, SelectorShape, Selector!Name
  <2>2. CASE create.pc = "ok"
    <3>1. Selector!loadProjects(create.name.lower)
      BY <1>1, <2>2 DEF Selector!CreateArrives
    <3>2. Selector!TypeOK' /\ SelectorShape'
      BY <1>0, <2>1, <3>1, SelectorLoads, SelectorTypesNext
         DEF FlightOK, SelectorShape, Selector!NoCreate
    <3>3. ASSUME ~mixed'
          PROVE  OneRequest' /\ Shown' /\ AnswersFit'
      <4>1. /\ OneRequest /\ Shown /\ AnswersFit /\ create # Selector!NoCreate
            /\ ~Selector!Listing /\ delete = Selector!NoDelete
        BY <1>0, <2>1, <3>3 DEF OneRequest, Selector!NoCreate
      <4>2. /\ Selector!Listing'
            /\ \A g, h \in Fetches :
                 fetch'[g] # Selector!NoFetch /\ fetch'[h] # Selector!NoFetch => g = h
            /\ \A g \in Fetches :
                 fetch'[g].pc \in {"idle", "sent"} /\ fetch'[g].then \in {None, create.name.lower}
        BY <1>0, <2>1, <3>1, <4>1, SelectorLoads
      <4>3. OneRequest'
        BY <2>1, <4>1, <4>2 DEF OneRequest
      <4>4. Shown'
        BY <1>0, <2>1, <4>1, <4>2 DEF Shown, Gone
      <4>5. AnswersFit'
        BY <1>0, <2>1, <2>2, <4>1, <4>2 DEF AnswersFit, Selector!NoCreate
      <4> QED BY <4>3, <4>4, <4>5
    <3> QED BY <3>2, <3>3 DEF SelectorInv
  <2>3. CASE create.pc = "error"
    <3>1. UNCHANGED fetch
      BY <1>1, <2>3 DEF Selector!CreateArrives
    <3>2. Selector!TypeOK' /\ SelectorShape'
      BY <1>0, <2>1, <3>1, SelectorTypesNext DEF FlightOK, SelectorShape, Selector!NoCreate
    <3>3. ASSUME ~mixed'
          PROVE  OneRequest' /\ Shown' /\ AnswersFit'
      <4>1. OneRequest /\ Shown /\ AnswersFit /\ (Selector!Listing' <=> Selector!Listing)
        BY <1>0, <3>1, <3>3 DEF Selector!Listing
      <4>2. OneRequest'
        BY <2>1, <3>1, <4>1 DEF OneRequest
      <4>3. Shown'
        BY <1>0, <2>1, <4>1 DEF Shown, Gone
      <4>4. AnswersFit'
        BY <1>0, <2>1, <3>1, <4>1 DEF AnswersFit, Selector!NoCreate
      <4> QED BY <4>2, <4>3, <4>4
    <3> QED BY <3>2, <3>3 DEF SelectorInv
  <2> QED BY <2>1, <2>2, <2>3
<1>2. CASE Selector!DeleteArrives
  <2>1. /\ delete.pc \in {"ok", "error"} /\ delete' = Selector!NoDelete /\ UNCHANGED create
    BY <1>2 DEF Selector!DeleteArrives
  <2>2. CASE delete.pc = "ok"
    <3>1. Selector!loadProjects(None) /\ current' = IF current = delete.id THEN All ELSE current
      BY <1>2, <2>2 DEF Selector!DeleteArrives, Selector!Deleted
    <3>2. Selector!TypeOK' /\ SelectorShape'
      BY <1>0, <2>1, <3>1, SelectorLoads, SelectorTypesNext
         DEF FlightOK, SelectorShape, Selector!NoDelete
    <3>3. ASSUME ~mixed'
          PROVE  OneRequest' /\ Shown' /\ AnswersFit'
      <4>1. /\ OneRequest /\ Shown /\ AnswersFit /\ create = Selector!NoCreate
            /\ ~Selector!Listing
        BY <1>0, <2>1, <3>3 DEF OneRequest, Selector!NoDelete
      <4>2. /\ Selector!Listing'
            /\ \A g, h \in Fetches :
                 fetch'[g] # Selector!NoFetch /\ fetch'[h] # Selector!NoFetch => g = h
            /\ \A g \in Fetches : fetch'[g].pc \in {"idle", "sent"} /\ fetch'[g].then = None
        BY <1>0, <3>1, <4>1, SelectorLoads
      <4>3. OneRequest'
        BY <2>1, <4>1, <4>2 DEF OneRequest
      <4>4. Shown'
        BY <1>0, <2>1, <2>2, <3>1, <4>1, <4>2 DEF Shown, Gone
      <4>5. AnswersFit'
        BY <1>0, <2>1, <4>1, <4>2 DEF AnswersFit, Selector!NoCreate
      <4> QED BY <4>3, <4>4, <4>5
    <3> QED BY <3>2, <3>3 DEF SelectorInv
  <2>3. CASE delete.pc = "error"
    <3>1. UNCHANGED <<current, fetch>>
      BY <1>2, <2>3 DEF Selector!DeleteArrives
    <3>2. Selector!TypeOK' /\ SelectorShape'
      BY <1>0, <2>1, <3>1, SelectorTypesNext DEF FlightOK, SelectorShape, Selector!NoDelete
    <3>3. ASSUME ~mixed'
          PROVE  OneRequest' /\ Shown' /\ AnswersFit'
      <4>1. OneRequest /\ Shown /\ AnswersFit /\ (Selector!Listing' <=> Selector!Listing)
        BY <1>0, <3>1, <3>3 DEF Selector!Listing
      <4>2. OneRequest'
        BY <2>1, <3>1, <4>1 DEF OneRequest
      <4>3. Shown'
        BY <1>0, <2>1, <2>3, <3>1, <4>1 DEF Shown, Gone
      <4>4. AnswersFit'
        BY <1>0, <2>1, <3>1, <4>1 DEF AnswersFit
      <4> QED BY <4>2, <4>3, <4>4
    <3> QED BY <3>2, <3>3 DEF SelectorInv
  <2> QED BY <2>1, <2>2, <2>3
<1> QED BY <1>1, <1>2

LEMMA SelectorNext == SelectorInv /\ [Selector!Next]_choice => SelectorInv'
<1> SUFFICES ASSUME SelectorInv, [Selector!Next]_choice
             PROVE  SelectorInv'
  OBVIOUS
<1>1. CASE UNCHANGED choice
  <2>1. UNCHANGED <<project, current, selector, fetch, create, delete, mixed>>
    BY <1>1 DEF choice
  <2>2. Selector!TypeOK' /\ SelectorShape'
    BY <2>1 DEF SelectorInv, Selector!TypeOK, SelectorShape, Selector!Rows
  <2>3. ~mixed' => OneRequest' /\ Shown' /\ AnswersFit'
    BY <2>1 DEF SelectorInv, OneRequest, Shown, AnswersFit, Selector!Rows, Selector!Listing, Gone
  <2> QED BY <2>2, <2>3 DEF SelectorInv
<1> QED BY <1>1, SelectorAddsRow, SelectorDropsRow, SelectorListed, SelectorAsks, SelectorAnswered
        DEF Selector!Next

LEMMA SelectorShows == SelectorInv => SelectorShowsCurrent
BY DEF SelectorInv, Shown, SelectorShowsCurrent, Selector!SelectorShowsCurrent, Selector!Waiting
----------------------------------------------------------------------------
(* Sessions.                                                                 *)

\* What is under way: a slot is free or has a request of its kind, polls are loads, and
\* a request carries a token that was created.
LoginShape ==
  \A s \in Login!Slots :
    /\ request[s].kind = "none" => request[s] = Login!Free
    /\ s[2] = "poll" => request[s].kind \in {"none", "load"}
    /\ request[s].token # None => session[request[s].token] # "none"
    /\ request[s].pc = "handle" => request[s].token \in Tokens
    /\ request[s].pc \in {"sent", "handle"} => request[s].answer = "none"

\* As long as logins and logouts neither cross nor go wrong there is one of them at most,
\* the cookie is the one it was sent with, and a logout that was answered well has
\* deleted its row.
LoginAlone ==
  ~disturbed =>
    /\ \A r, s \in Login!Slots : Login!InAuth(r) /\ Login!InAuth(s) => r = s
    /\ \A t \in Tokens \ replaced :
         session[t] = "live" =>
           \/ cookie = t
           \/ \E s \in Login!Slots : /\ request[s].kind = "login"
                                     /\ request[s].token = t /\ request[s].answer = "ok"
    /\ \A s \in Login!Slots :
         /\ request[s].kind = "login" => cookie \in replaced \cup {None}
         /\ request[s].kind = "logout" =>
              /\ cookie \in {request[s].token, None}
              /\ request[s].answer = "ok" =>
                   request[s].token \in Tokens /\ session[request[s].token] = "deleted"

Requests ==
  [Login!Slots -> [kind : Login!Kinds \cup {"none"}, token : Tokens \cup {None},
                   pc : {"idle", "sent", "handle", "answered"},
                   answer : {"none", "ok", "refused", "error"}]]

LoginInv == Login!TypeOK /\ LoginShape /\ LoginAlone

LEMMA LoginInit == Login!Init => LoginInv
<1> SUFFICES ASSUME Login!Init
             PROVE  LoginInv
  OBVIOUS
<1>1. \A s \in Login!Slots : request[s] = Login!Free
  BY DEF Login!Init
<1>2. Login!TypeOK
  BY DEF Login!Init, Login!TypeOK, Login!Free
<1>3. LoginShape
  BY <1>1 DEF LoginShape, Login!Free
<1>4. LoginAlone
  BY <1>1 DEF LoginAlone, Login!Free, Login!InAuth, Login!Init
<1> QED BY <1>2, <1>3, <1>4 DEF LoginInv

LEMMA LoginSend ==
  ASSUME LoginInv, NEW s \in Login!Slots, NEW kind \in Login!Kinds, Login!Send(s, kind),
         s[2] = "poll" => kind = "load"
  PROVE  LoginInv'
<1>0. Login!TypeOK /\ LoginShape /\ LoginAlone /\ request[s] = Login!Free
  BY DEF LoginInv, Login!Send
<1>1. /\ request'[s] = [kind |-> kind, token |-> cookie, pc |-> "sent", answer |-> "none"]
      /\ \A r \in Login!Slots : r # s => request'[r] = request[r]
      /\ UNCHANGED <<session, cookie, page>>
  BY <1>0 DEF Login!Send, Login!TypeOK, Login!Free
<1>2. Login!TypeOK'
  BY <1>0 DEF Login!Send, Login!TypeOK, Login!Free, Login!Kinds
<1>3. LoginShape'
  BY <1>0, <1>1 DEF LoginShape, Login!TypeOK, Login!Kinds
<1>4. LoginAlone'
  <2> SUFFICES ASSUME ~disturbed'
               PROVE  LoginAlone'
    BY DEF LoginAlone
  <2>1. ~disturbed /\ (kind \in {"login", "logout"} => \A r \in Login!Slots : ~Login!InAuth(r))
    BY DEF Login!Send
  <2>2. replaced' = IF kind = "login" THEN replaced \cup ({cookie} \ {None}) ELSE replaced
    BY DEF Login!Send
  <2>3. \A r \in Login!Slots : r # s => (Login!InAuth(r)' <=> Login!InAuth(r))
    BY <1>1 DEF Login!InAuth
  <2>4. Login!InAuth(s)' <=> kind \in {"login", "logout"}
    BY <1>1 DEF Login!InAuth
  <2>5. \A r, o \in Login!Slots : Login!InAuth(r)' /\ Login!InAuth(o)' => r = o
    BY <1>0, <2>1, <2>3, <2>4 DEF LoginAlone
  <2>6. ASSUME NEW t \in Tokens \ replaced', session'[t] = "live"
        PROVE  \/ cookie' = t
               \/ \E r \in Login!Slots : /\ request'[r].kind = "login"
                                         /\ request'[r].token = t /\ request'[r].answer = "ok"
    <3>1. t \in Tokens \ replaced /\ session[t] = "live"
      BY <1>1, <2>2, <2>6
    <3>2. request[s].kind # "login"
      BY <1>0 DEF Login!Free
    <3> QED BY <1>0, <1>1, <2>1, <3>1, <3>2 DEF LoginAlone
  <2>7. ASSUME NEW r \in Login!Slots
        PROVE  /\ request'[r].kind = "login" => cookie' \in replaced' \cup {None}
               /\ request'[r].kind = "logout" =>
                    /\ cookie' \in {request'[r].token, None}
                    /\ request'[r].answer = "ok" =>
                         request'[r].token \in Tokens /\ session'[request'[r].token] = "deleted"
    <3>1. CASE r = s
      BY <1>1, <2>2, <3>1
    <3>2. CASE r # s
      BY <1>0, <1>1, <2>1, <2>2, <3>2 DEF LoginAlone
    <3> QED BY <3>1, <3>2
  <2> QED BY <2>5, <2>6, <2>7 DEF LoginAlone
<1> QED BY <1>2, <1>3, <1>4 DEF LoginInv

LEMMA LoginServe ==
  ASSUME LoginInv, NEW s \in Login!Slots, Login!Serve(s)
  PROVE  LoginInv'
<1>0. /\ Login!TypeOK /\ LoginShape /\ LoginAlone
      /\ UNCHANGED <<cookie, page, replaced>>
  BY DEF LoginInv, Login!Serve, Login!RequireAuth, Login!handleLogin, Login!handleLogout,
         Login!handleGetMe, Login!Handle
<1>1. request \in Requests
  BY <1>0 DEF Login!TypeOK, Requests
<1>2. request[s].kind # "none" /\ request[s].pc \in {"sent", "handle"}
  BY <1>0 DEF LoginShape, Login!Free, Login!Serve, Login!RequireAuth, Login!handleLogin,
         Login!handleLogout, Login!handleGetMe, Login!Handle
<1>3. ASSUME NEW answer \in {"ok", "refused", "error"}, Login!Answer(s, answer)
      PROVE  /\ request'[s].kind = request[s].kind /\ request'[s].token = request[s].token
             /\ request'[s].pc = "answered" /\ request'[s].answer = answer
             /\ \A r \in Login!Slots : r # s => request'[r] = request[r]
             /\ request' \in Requests
  BY <1>1, <1>3 DEF Login!Answer, Requests
\* A step that only answers, or lets the request through.
<1>4. ASSUME UNCHANGED <<session, disturbed>>,
             request'[s].kind = request[s].kind, request'[s].token = request[s].token,
             request'[s].pc = "handle" => request[s].token \in Tokens,
             request[s].kind \in {"login", "logout"} => request'[s].answer # "ok",
             request'[s].pc \in {"sent", "handle"} => request'[s].answer = "none",
             \A r \in Login!Slots : r # s => request'[r] = request[r],
             request' \in Requests
      PROVE  LoginInv'
  <2>1. Login!TypeOK'
    BY <1>0, <1>4 DEF Login!TypeOK, Requests
  <2>2. LoginShape'
    BY <1>0, <1>2, <1>4 DEF LoginShape
  <2>3. \A r \in Login!Slots : Login!InAuth(r)' <=> Login!InAuth(r)
    BY <1>4 DEF Login!InAuth
  <2>4. request[s].answer = "none"
    BY <1>0, <1>2 DEF LoginShape
  <2>5. LoginAlone'
    BY <1>0, <1>4, <2>3, <2>4 DEF LoginAlone
  <2> QED BY <2>1, <2>2, <2>5 DEF LoginInv
<1>5. CASE Login!RequireAuth(s)
  <2>1. CASE Login!Answer(s, "refused")
    BY <1>3, <1>4, <1>5, <2>1 DEF Login!RequireAuth
  <2>2. CASE Login!Found(request[s].token) /\ request' = [request EXCEPT ![s].pc = "handle"]
    <3>1. request[s].token \in Tokens /\ request[s].answer = "none"
      BY <1>0, <1>1, <1>5, <2>2 DEF Login!RequireAuth, Login!Found, LoginShape, Requests
    <3>2. /\ request'[s].kind = request[s].kind /\ request'[s].token = request[s].token
          /\ request'[s].pc = "handle" /\ request'[s].answer = "none"
          /\ \A r \in Login!Slots : r # s => request'[r] = request[r]
          /\ request' \in Requests
      BY <1>1, <2>2, <3>1 DEF Requests
    <3> QED BY <1>4, <1>5, <3>1, <3>2 DEF Login!RequireAuth
  <2> QED BY <1>5, <2>1, <2>2 DEF Login!RequireAuth
<1>6. CASE Login!handleLogin(s)
  <2>1. CASE Login!Answer(s, "refused") /\ UNCHANGED <<session, disturbed>>
    BY <1>3, <1>4, <2>1
  <2>2. ASSUME NEW t \in Tokens, session[t] = "none", session' = [session EXCEPT ![t] = "live"],
               \/ /\ request' = [request EXCEPT ![s].pc = "answered", ![s].answer = "ok", ![s].token = t]
                  /\ UNCHANGED disturbed
               \/ Login!Answer(s, "error") /\ disturbed' = TRUE
        PROVE  LoginInv'
    <3>1. /\ request'[s].kind = "login" /\ request'[s].pc = "answered"
          /\ \A r \in Login!Slots : r # s => request'[r] = request[r]
          /\ request' \in Requests
      BY <1>1, <1>3, <1>6, <2>2 DEF Login!handleLogin, Requests
    <3>2. request'[s].token \in {t, request[s].token}
      BY <1>1, <1>3, <2>2 DEF Requests
    <3>3. session' \in [Tokens -> {"none", "live", "expired", "deleted"}] /\ session'[t] = "live"
          /\ \A u \in Tokens : u # t => session'[u] = session[u]
      BY <1>0, <2>2 DEF Login!TypeOK
    <3>4. Login!TypeOK'
      BY <1>0, <2>2, <3>1, <3>3 DEF Login!TypeOK, Requests
    <3>5. LoginShape'
      <4>1. ASSUME NEW u \in Tokens, session[u] # "none"
            PROVE  session'[u] # "none"
        BY <2>2, <3>3, <4>1
      <4>2. \A r \in Login!Slots : request[r].token \in Tokens \cup {None}
        BY <1>1 DEF Requests
      <4>3. request[s].kind = "login"
        BY <1>6 DEF Login!handleLogin
      <4> QED BY <1>0, <3>1, <3>2, <3>3, <4>1, <4>2, <4>3 DEF LoginShape
    <3>6. ASSUME ~disturbed'
          PROVE  LoginAlone'
      <4>1. ~disturbed /\ request'[s].answer = "ok" /\ request'[s].token = t
        BY <1>1, <2>2, <3>6 DEF Requests
      <4>2. \A r \in Login!Slots : Login!InAuth(r)' <=> Login!InAuth(r)
        BY <1>6, <3>1 DEF Login!InAuth, Login!handleLogin
      <4>3. request[s].kind = "login" /\ request[s].answer # "ok"
        BY <1>0, <1>6 DEF Login!handleLogin, LoginShape
      <4>4. ASSUME NEW u \in Tokens \ replaced', session'[u] = "live"
            PROVE  \/ cookie' = u
                   \/ \E r \in Login!Slots : /\ request'[r].kind = "login"
                                             /\ request'[r].token = u /\ request'[r].answer = "ok"
        <5>1. CASE u = t
          BY <3>1, <4>1, <5>1
        <5>2. CASE u # t
          BY <1>0, <3>1, <3>3, <4>1, <4>3, <4>4, <5>2 DEF LoginAlone
        <5> QED BY <5>1, <5>2
      <4>5. ASSUME NEW r \in Login!Slots
            PROVE  /\ request'[r].kind = "login" => cookie' \in replaced' \cup {None}
                   /\ request'[r].kind = "logout" =>
                        /\ cookie' \in {request'[r].token, None}
                        /\ request'[r].answer = "ok" =>
                             request'[r].token \in Tokens /\ session'[request'[r].token] = "deleted"
        <5>1. CASE r = s
          BY <1>0, <3>1, <4>1, <4>3, <5>1 DEF LoginAlone
        <5>2. CASE r # s
          BY <1>0, <2>2, <3>1, <3>3, <4>1, <5>2 DEF LoginAlone
        <5> QED BY <5>1, <5>2
      <4> QED BY <1>0, <4>1, <4>2, <4>4, <4>5 DEF LoginAlone
    <3> QED BY <3>4, <3>5, <3>6 DEF LoginInv, LoginAlone
  <2> QED BY <1>6, <2>1, <2>2 DEF Login!handleLogin
<1>7. CASE Login!handleLogout(s)
  <2>0. request[s].kind = "logout" /\ request[s].token \in Tokens
    BY <1>0, <1>7 DEF Login!handleLogout, LoginShape
  <2>1. /\ request'[s].kind = request[s].kind /\ request'[s].token = request[s].token
        /\ request'[s].pc = "answered" /\ request'[s].answer = "ok"
        /\ \A r \in Login!Slots : r # s => request'[r] = request[r]
        /\ request' \in Requests
    BY <1>3, <1>7 DEF Login!handleLogout
  <2>2. /\ session' \in [Tokens -> {"none", "live", "expired", "deleted"}] /\ disturbed' \in BOOLEAN
        /\ \A u \in Tokens : session'[u] \in {session[u], "deleted"}
        /\ \A u \in Tokens : session'[u] = "none" => session[u] = "none"
    BY <1>0, <1>7, <2>0 DEF Login!handleLogout, Login!TypeOK
  <2>3. Login!TypeOK'
    BY <1>0, <2>1, <2>2 DEF Login!TypeOK, Requests
  <2>4. LoginShape'
    <3>1. \A r \in Login!Slots : request[r].token \in Tokens \cup {None}
      BY <1>1 DEF Requests
    <3> QED BY <1>0, <1>2, <2>1, <2>2, <3>1 DEF LoginShape
  <2>5. ASSUME ~disturbed'
        PROVE  LoginAlone'
    <3>1. ~disturbed /\ session'[request[s].token] = "deleted"
      BY <1>0, <1>7, <2>0, <2>5 DEF Login!handleLogout, Login!TypeOK
    <3>2. \A r \in Login!Slots : Login!InAuth(r)' <=> Login!InAuth(r)
      BY <2>1 DEF Login!InAuth
    <3>3. ASSUME NEW u \in Tokens \ replaced', session'[u] = "live"
          PROVE  \/ cookie' = u
                 \/ \E r \in Login!Slots : /\ request'[r].kind = "login"
                                           /\ request'[r].token = u /\ request'[r].answer = "ok"
      BY <1>0, <2>0, <2>1, <2>2, <3>1, <3>3 DEF LoginAlone
    <3>4. ASSUME NEW r \in Login!Slots
          PROVE  /\ request'[r].kind = "login" => cookie' \in replaced' \cup {None}
                 /\ request'[r].kind = "logout" =>
                      /\ cookie' \in {request'[r].token, None}
                      /\ request'[r].answer = "ok" =>
                           request'[r].token \in Tokens /\ session'[request'[r].token] = "deleted"
      <4>1. CASE r = s
        BY <1>0, <2>0, <2>1, <3>1, <4>1 DEF LoginAlone
      <4>2. CASE r # s
        BY <1>0, <2>1, <2>2, <3>1, <4>2 DEF LoginAlone
      <4> QED BY <4>1, <4>2
    <3> QED BY <1>0, <3>1, <3>2, <3>3, <3>4 DEF LoginAlone
  <2> QED BY <2>3, <2>4, <2>5 DEF LoginInv, LoginAlone
<1>8. CASE Login!handleGetMe(s) \/ Login!Handle(s)
  <2>1. PICK answer \in {"ok", "refused", "error"} : Login!Answer(s, answer)
    BY <1>8 DEF Login!handleGetMe, Login!Handle
  <2>2. request[s].kind \notin {"login", "logout"} /\ UNCHANGED <<session, disturbed>>
    BY <1>8 DEF Login!handleGetMe, Login!Handle
  <2> QED BY <1>3, <1>4, <2>1, <2>2
<1> QED BY <1>5, <1>6, <1>7, <1>8 DEF Login!Serve

\* A page that is left gives up what it loads, never a login or a logout.
LEMMA LoginAfter ==
  ASSUME LoginInv, NEW s \in Login!Slots, NEW next, request' = Login!After(s, next)
  PROVE  /\ request'[s] = Login!Free
         /\ \A o \in Login!Slots : request'[o] \in {Login!Free, request[o]}
         /\ \A o \in Login!Slots : o # s /\ Login!InAuth(o) => request'[o] = request[o]
         /\ \A o \in Login!Slots : Login!InAuth(o)' => Login!InAuth(o) /\ o # s /\ request'[o] = request[o]
         /\ LoginShape' \/ session' # session
         /\ request' \in Requests
<1>0. /\ LoginShape
      /\ request \in Requests
  BY DEF LoginInv, Login!TypeOK, Requests
<1>1. /\ request'[s] = Login!Free
      /\ \A o \in Login!Slots : request'[o] \in {Login!Free, request[o]}
      /\ \A o \in Login!Slots : o # s /\ Login!InAuth(o) => request'[o] = request[o]
  BY DEF Login!After, Login!InAuth
<1>2. /\ Login!Free.kind = "none" /\ Login!Free.token = None /\ Login!Free.pc = "idle"
      /\ Login!Free.answer = "none"
      /\ Login!Free \in [kind : Login!Kinds \cup {"none"}, token : Tokens \cup {None},
                                   pc : {"idle", "sent", "handle", "answered"},
                                   answer : {"none", "ok", "refused", "error"}]
  BY DEF Login!Free
<1>3. \A o \in Login!Slots : Login!InAuth(o)' => Login!InAuth(o) /\ o # s /\ request'[o] = request[o]
  BY <1>1, <1>2 DEF Login!InAuth
<1>4. request' = [o \in Login!Slots |-> request'[o]]
  BY DEF Login!After
<1>5. request' \in Requests
  BY <1>0, <1>1, <1>2, <1>4 DEF Requests
<1>6. session' = session => LoginShape'
  BY <1>0, <1>1, <1>2 DEF LoginShape
<1> QED BY <1>1, <1>3, <1>5, <1>6

LEMMA LoginAnswered ==
  ASSUME LoginInv, NEW s \in Login!Slots, Login!Receive(s) \/ Login!Lose(s)
  PROVE  LoginInv'
<1>0. /\ Login!TypeOK /\ LoginShape /\ LoginAlone /\ UNCHANGED <<session, replaced>>
      /\ request[s].kind \in Login!Kinds /\ s[1] \in Tabs
  <2>1. request[s].pc # "idle"
    BY DEF Login!Receive, Login!Lose
  <2>2. request[s].kind # "none"
    BY <2>1 DEF LoginInv, LoginShape, Login!Free
  <2>3. request[s].kind \in Login!Kinds \cup {"none"}
    BY DEF LoginInv, Login!TypeOK
  <2>4. s[1] \in Tabs
    BY ScreensAssumption DEF Login!SessionsAssumption, Login!Slots
  <2>5. UNCHANGED <<session, replaced>>
    BY DEF Login!Receive, Login!Lose
  <2> QED BY <2>2, <2>3, <2>4, <2>5 DEF LoginInv
<1>1. PICK next : next \in {"login", "app"} /\ request' = Login!After(s, next) /\ page' = [page EXCEPT ![s[1]] = next]
  <2>1. page[s[1]] \in {"login", "app"}
    BY <1>0 DEF Login!TypeOK
  <2>2. CASE Login!Receive(s)
    <3>1. Login!NextPage(s) \in {"login", "app"}
      BY <1>0, <2>1 DEF Login!NextPage, Login!Kinds
    <3> QED BY <2>2, <3>1 DEF Login!Receive
  <2>3. CASE Login!Lose(s)
    BY <2>1, <2>3 DEF Login!Lose
  <2> QED BY <2>2, <2>3
<1>2. /\ request'[s] = Login!Free
      /\ \A o \in Login!Slots : o # s /\ Login!InAuth(o) => request'[o] = request[o]
      /\ \A o \in Login!Slots : Login!InAuth(o)' => Login!InAuth(o) /\ o # s /\ request'[o] = request[o]
      /\ LoginShape'
      /\ request' \in Requests
  BY <1>0, <1>1, LoginAfter
<1>3. /\ cookie' = IF Login!Receive(s) /\ request[s].kind = "login" /\ request[s].answer = "ok" THEN request[s].token
                   ELSE IF Login!Receive(s) /\ request[s].kind = "logout" /\ request[s].answer = "ok" THEN None
                   ELSE cookie
      /\ ~disturbed' => ~disturbed /\ (~Login!Receive(s) => ~Login!InAuth(s))
      /\ disturbed' \in BOOLEAN
  <2>1. CASE Login!Receive(s)
    BY <1>0, <2>1 DEF Login!Receive, Login!TypeOK
  <2>2. CASE ~Login!Receive(s)
    BY <1>0, <2>2 DEF Login!Lose, Login!TypeOK
  <2> QED BY <2>1, <2>2
<1>4. Login!TypeOK'
  <2>1. cookie' \in Tokens \cup {None} /\ (cookie' # None => session'[cookie'] # "none")
    BY <1>0, <1>3 DEF Login!TypeOK, LoginShape
  <2>2. page' \in [Tabs -> {"login", "app"}]
    BY <1>0, <1>1 DEF Login!TypeOK
  <2> QED BY <1>0, <1>2, <1>3, <2>1, <2>2 DEF Login!TypeOK, Requests
<1>5. ASSUME ~disturbed'
      PROVE  LoginAlone'
  <2>1. ~disturbed
    BY <1>3, <1>5
  <2>2. ASSUME NEW t \in Tokens \ replaced', session'[t] = "live"
        PROVE  \/ cookie' = t
               \/ \E r \in Login!Slots : /\ request'[r].kind = "login"
                                         /\ request'[r].token = t /\ request'[r].answer = "ok"
    <3>1. t \in Tokens \ replaced /\ session[t] = "live" /\ t # None
      BY <1>0, <2>2, ScreensAssumption DEF Login!SessionsAssumption
    <3>2. CASE cookie = t
      <4>1. request[s].kind = "login" => cookie \in replaced \cup {None}
        BY <1>0, <2>1 DEF LoginAlone
      <4>2. request[s].kind = "logout" /\ request[s].answer = "ok" =>
              cookie \in {request[s].token, None} /\ session[request[s].token] = "deleted"
        BY <1>0, <2>1 DEF LoginAlone
      <4> QED BY <1>3, <3>1, <3>2, <4>1, <4>2
    <3>3. ASSUME NEW r \in Login!Slots, request[r].kind = "login", request[r].token = t,
                 request[r].answer = "ok"
          PROVE  cookie' = t \/ (request'[r] = request[r])
      <4>1. Login!InAuth(r)
        BY <3>3 DEF Login!InAuth
      <4> QED BY <1>2, <1>3, <1>5, <3>3, <4>1
    <3> QED BY <1>0, <2>1, <3>1, <3>2, <3>3 DEF LoginAlone
  <2>3. ASSUME NEW r \in Login!Slots, Login!InAuth(r)'
        PROVE  cookie' = cookie /\ request'[r] = request[r]
    <3>1. Login!InAuth(r) /\ r # s /\ request'[r] = request[r]
      BY <1>2, <2>3
    <3>2. ~Login!InAuth(s)
      BY <1>0, <2>1, <3>1 DEF LoginAlone
    <3> QED BY <1>3, <3>1, <3>2 DEF Login!InAuth
  <2>4. \A r, o \in Login!Slots : Login!InAuth(r)' /\ Login!InAuth(o)' => r = o
    BY <1>0, <1>2, <2>1 DEF LoginAlone
  <2>5. ASSUME NEW r \in Login!Slots
        PROVE  /\ request'[r].kind = "login" => cookie' \in replaced' \cup {None}
               /\ request'[r].kind = "logout" =>
                    /\ cookie' \in {request'[r].token, None}
                    /\ request'[r].answer = "ok" =>
                         request'[r].token \in Tokens /\ session'[request'[r].token] = "deleted"
    BY <1>0, <2>1, <2>3 DEF LoginAlone, Login!InAuth
  <2> QED BY <2>2, <2>4, <2>5 DEF LoginAlone
<1> QED BY <1>2, <1>4, <1>5 DEF LoginInv, LoginAlone

\* The form is opened, or a clock runs out.
LEMMA LoginAround ==
  ASSUME LoginInv, (\E i \in Tabs : Login!OpenLogin(i)) \/ (\E t \in Tokens : Login!ExpireRow(t))
                   \/ Login!ExpireCookie
  PROVE  LoginInv'
<1>0. Login!TypeOK /\ LoginShape /\ LoginAlone
  BY DEF LoginInv
<1>1. ASSUME NEW i \in Tabs, Login!OpenLogin(i)
      PROVE  LoginInv'
  <2>1. \A s \in Login!Slots : s[1] = i => ~Login!InAuth(s)
    <3>1. \A s \in Login!Slots : s[1] = i => s = <<i, "act">> \/ s[2] = "poll"
      BY DEF Login!Slots
    <3> QED BY <1>0, <1>1, <3>1 DEF Login!OpenLogin, Login!InAuth, Login!Free, LoginShape
  <2>2. /\ \A s \in Login!Slots : request'[s] \in {Login!Free, request[s]}
        /\ \A s \in Login!Slots : Login!InAuth(s) => request'[s] = request[s]
        /\ request' = [s \in Login!Slots |-> request'[s]]
        /\ UNCHANGED <<session, cookie, disturbed, replaced>>
        /\ page' = [page EXCEPT ![i] = "login"]
    BY <1>1, <2>1 DEF Login!OpenLogin
  <2>3. /\ Login!Free.kind = "none" /\ Login!Free.token = None /\ Login!Free.pc = "idle"
        /\ Login!Free \in [kind : Login!Kinds \cup {"none"}, token : Tokens \cup {None},
                                   pc : {"idle", "sent", "handle", "answered"},
                                   answer : {"none", "ok", "refused", "error"}]
    BY DEF Login!Free
  <2>4. Login!TypeOK'
    BY <1>0, <2>2, <2>3 DEF Login!TypeOK
  <2>5. LoginShape'
    BY <1>0, <2>2, <2>3 DEF LoginShape
  <2>6. \A s \in Login!Slots : /\ Login!InAuth(s)' => Login!InAuth(s)
                               /\ request'[s].kind \in {"login", "logout"} => request'[s] = request[s]
                               /\ request[s].kind = "login" => request'[s] = request[s]
    BY <2>2, <2>3 DEF Login!InAuth
  <2>7. LoginAlone'
    BY <1>0, <2>2, <2>6 DEF LoginAlone
  <2> QED BY <2>4, <2>5, <2>7 DEF LoginInv
<1>2. ASSUME NEW t \in Tokens, Login!ExpireRow(t)
      PROVE  LoginInv'
  <2>1. /\ session' \in [Tokens -> {"none", "live", "expired", "deleted"}]
        /\ \A u \in Tokens : /\ session'[u] = "none" <=> session[u] = "none"
                             /\ session'[u] = "live" => session[u] = "live"
                             /\ session[u] = "deleted" => session'[u] = "deleted"
        /\ UNCHANGED <<cookie, page, request, disturbed, replaced>>
    BY <1>0, <1>2 DEF Login!ExpireRow, Login!TypeOK
  <2>2. \A r \in Login!Slots : request[r].token \in Tokens \cup {None}
    BY <1>0 DEF Login!TypeOK
  <2>3. Login!TypeOK' /\ LoginShape'
    BY <1>0, <2>1, <2>2 DEF Login!TypeOK, LoginShape
  <2>4. LoginAlone'
    BY <1>0, <2>1, <2>2 DEF LoginAlone, Login!InAuth
  <2> QED BY <2>3, <2>4 DEF LoginInv
<1>3. CASE Login!ExpireCookie
  <2>1. /\ cookie' = None /\ (~disturbed' => ~disturbed /\ session[cookie] # "live")
        /\ UNCHANGED <<session, page, request, replaced>>
        /\ disturbed' \in BOOLEAN
    BY <1>0, <1>3 DEF Login!ExpireCookie, Login!TypeOK
  <2>2. Login!TypeOK' /\ LoginShape'
    BY <1>0, <2>1 DEF Login!TypeOK, LoginShape
  <2>3. LoginAlone'
    BY <1>0, <2>1 DEF LoginAlone, Login!InAuth
  <2> QED BY <2>2, <2>3 DEF LoginInv
<1> QED BY <1>1, <1>2, <1>3

LEMMA LoginNext == LoginInv /\ [Login!Next]_login => LoginInv'
<1> SUFFICES ASSUME LoginInv, [Login!Next]_login
             PROVE  LoginInv'
  OBVIOUS
<1>1. \A i \in Tabs : <<i, "act">> \in Login!Slots /\ <<i, "act">>[2] # "poll"
  BY DEF Login!Slots
<1>2. \A i \in Visible : <<i, "poll">> \in Login!Slots
  BY DEF Login!Slots
<1>3. ASSUME NEW i \in Tabs,
             Login!handleLoginSubmit(i) \/ Login!SendLogout(i) \/ Login!checkUserSession(i)
               \/ Login!loadTelemetryStrip(i)
      PROVE  LoginInv'
  BY <1>1, <1>2, <1>3, LoginSend
     DEF Login!handleLoginSubmit, Login!SendLogout, Login!checkUserSession,
         Login!loadTelemetryStrip, Login!Kinds
<1>4. CASE UNCHANGED login
  BY <1>4 DEF login, LoginInv, Login!TypeOK, LoginShape, LoginAlone, Login!InAuth
<1> QED BY <1>3, <1>4, LoginServe, LoginAnswered, LoginAround DEF Login!Next, Login!Browse

LEMMA LoginHeld == LoginInv => LiveSessionsHeld
BY DEF LoginInv, LoginAlone, LiveSessionsHeld, Login!LiveSessionsHeld
----------------------------------------------------------------------------
(* All four.                                                                *)

ScreensInv == DetailInv /\ EditorInv /\ SelectorInv /\ LoginInv

\* One part makes a step, the others rest.
LEMMA ScreensParts ==
  ASSUME [Next]_vars
  PROVE  /\ [Detail!Next]_detail /\ [Editor!Next]_editor
         /\ [Selector!Next]_choice /\ [Login!Next]_login
BY DEF Next, vars, DetailStep, EditorStep, SelectorStep, LoginStep

LEMMA ScreensInvariant == Spec => []ScreensInv
<1>1. Init => ScreensInv
  BY DetailInit, EditorInit, SelectorInit, LoginInit DEF Init, ScreensInv
<1>2. ScreensInv /\ [Next]_vars => ScreensInv'
  BY ScreensParts, DetailNext, EditorNext, SelectorNext, LoginNext DEF ScreensInv
<1> QED BY <1>1, <1>2, PTL DEF Spec

\* The types of all four parts; of Projects and Sessions also that the default project stays
\* and that the cookie is of a session that was opened.
THEOREM TypeCorrect == Spec => []TypeOK
<1>1. ScreensInv => TypeOK
  BY DEF ScreensInv, DetailInv, EditorInv, SelectorInv, LoginInv, TypeOK
<1> QED BY <1>1, ScreensInvariant, PTL

\* Once the answers to openJobDetails are there, header, statistics and list are of the job
\* that is selected, unless an earlier opening was in flight or a request failed.
THEOREM ScreenIsOfOneJob == Spec => []ScreenOfOneJob
<1>1. ScreensInv => ScreenOfOneJob
  BY DetailOfOneJob DEF ScreensInv
<1> QED BY <1>1, ScreensInvariant, PTL

\* Whatever is listed, created, selected and deleted, once the answers are there the selector
\* shows the project that new jobs and targets go into (currentProjectID).
THEOREM SelectorDoesShow == Spec => []SelectorShowsCurrent
<1>1. ScreensInv => SelectorShowsCurrent
  BY SelectorShows DEF ScreensInv
<1> QED BY <1>1, ScreensInvariant, PTL

\* Where logins and logouts neither cross nor go wrong, every session RequireAuth would
\* accept is the browser's, on its way to it, or was left behind by a login over it.
THEOREM SessionsAreHeld == Spec => []LiveSessionsHeld
<1>1. ScreensInv => LiveSessionsHeld
  BY LoginHeld DEF ScreensInv
<1> QED BY <1>1, ScreensInvariant, PTL

\* What submitJobEditor saves for a job was loaded from it and, sent once or again before the
\* answer is there, takes nothing back, unless the server has done a later save of the form
\* before it; and the steps and options of a job do not get into another one.
THEOREM SavesDoSound == Spec => SavesAreSound
<1>1. ScreensInv /\ [Next]_vars =>
        [\A s \in Saves :
           save[s].pc = "sent" /\ save'[s].pc = "ok" =>
             /\ standing # "crossed" => Editor!OfOneJob(s)
             /\ turn[s] # 0 => Editor!TakesNothingBack(s)
             /\ Editor!PartsStay(s)]_(Editor!vars)
  BY ScreensParts, EditorSound DEF ScreensInv
<1> QED BY <1>1, ScreensInvariant, PTL DEF Spec, SavesAreSound, Editor!SavesAreSound
=============================================================================
