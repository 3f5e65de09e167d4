----------------------------- MODULE StepsProofs -----------------------------
(***************************************************************************)
(* Theorems about Steps, for any jobs, lists of steps and depth.           *)
(***************************************************************************)
EXTENDS Steps, SequenceTheorems, WellFoundedInduction, TLAPS

\* A step is in progress only inside a loop, and then a step of that loop has been
\* begun; a reference is loaded only for a job.
InLoop ==
  /\ pc \in {"next", "command", "file-copy", "upload", "chmod", "script", "rm"} => frames # <<>>
  /\ pc \in {"command", "file-copy", "upload", "chmod", "script", "rm"} =>
       /\ Inner.begun > 0
       /\ Current.type \in Remote

TypeInv == TypeOK /\ InLoop

\* Whatever list a loop runs, it is a list of steps.
LEMMA BodiesAreLists == AnyBody \subseteq Seq(Step)
<1>1. ASSUME NEW j \in Jobs, NEW b \in Bodies[j]
      PROVE  b \in Seq(Step)
  BY StepsAssumption
<1>2. <<>> \in Seq(Step)
  OBVIOUS
<1> QED BY <1>1, <1>2 DEF AnyBody

LEMMA TypeInit == Init => TypeInv
<1> SUFFICES ASSUME Init
             PROVE  TypeInv
  OBVIOUS
<1>1. steps \in [Jobs -> AnyBody] /\ saved \in [Jobs -> SUBSET AnyBody]
  BY DEF Init
<1>2. \A j \in jobs : steps[j] \in saved[j]
  BY DEF Init
<1>3. frames \in Seq(Frame) /\ Len(frames) <= MaxDepth /\ DOMAIN frames = {}
  BY StepsAssumption DEF Init
<1> QED BY <1>1, <1>2, <1>3, StepsAssumption DEF Init, TypeInv, TypeOK, InLoop, Points

\* Changes of the tables and of the world leave the walk where it is.
LEMMA TypeAround ==
  ASSUME TypeInv, UNCHANGED vars \/ ContextEnds \/ HostFails \/ StatementFails \/ RefuseStep
                  \/ \E j \in Jobs : DeleteJob(j) \/ \E body \in Bodies[j] : UpdateJob(j, body)
  PROVE  TypeInv'
<1> USE DEF TypeInv, TypeOK, InLoop, Inner, Current
<1>1. CASE UNCHANGED vars
  BY <1>1 DEF vars, tables, world
<1>2. CASE ContextEnds
  BY <1>2 DEF ContextEnds, tables
<1>3. CASE HostFails
  BY <1>3 DEF HostFails, tables
<1>4. CASE StatementFails \/ RefuseStep
  BY <1>4 DEF StatementFails, RefuseStep, Fail, tables, world, Points
<1>5. ASSUME NEW j \in Jobs, DeleteJob(j)
      PROVE  TypeInv'
  <2>1. steps' \in [Jobs -> AnyBody] /\ \A i \in jobs' : steps'[i] \in saved'[i]
    BY <1>5 DEF DeleteJob, AnyBody
  <2> QED BY <1>5, <2>1 DEF DeleteJob, world
<1>6. ASSUME NEW j \in Jobs, NEW body \in Bodies[j], UpdateJob(j, body)
      PROVE  TypeInv'
  <2>1. body \in AnyBody
    BY DEF AnyBody
  <2>2. /\ steps' \in [Jobs -> AnyBody] /\ saved' \in [Jobs -> SUBSET AnyBody]
        /\ \A i \in jobs' : steps'[i] \in saved'[i]
    BY <1>6, <2>1 DEF UpdateJob
  <2> QED BY <1>6, <2>2 DEF UpdateJob, world
<1> QED BY <1>1, <1>2, <1>3, <1>4, <1>5, <1>6

\* Loading a job opens a loop over a list of steps.
LEMMA TypeLoad ==
  ASSUME TypeInv, ReadRow \/ ReadSteps
  PROVE  TypeInv'
<1> USE DEF TypeInv, TypeOK, InLoop
<1>1. CASE ReadRow
  BY <1>1 DEF ReadRow, Fail, tables, world, Points, Inner, Current
<1>2. CASE ReadSteps /\ pc' = "err"
  BY <1>2 DEF ReadSteps, Fail, tables, world, Points
<1>3. CASE ReadSteps /\ pc' # "err"
  <2> DEFINE loop == [job |-> loading, steps |-> steps[loading], begun |-> 0]
  <2>1. loop \in Frame
    BY DEF Frame
  <2>2. frames' = Append(frames, loop) /\ Len(frames) < MaxDepth /\ pc' = "next"
    BY <1>3 DEF ReadSteps, Fail
  <2>3. /\ frames' \in Seq(Frame) /\ Len(frames') <= MaxDepth /\ frames' # <<>>
        /\ \A i \in DOMAIN frames' : frames'[i] = IF i \in DOMAIN frames THEN frames[i] ELSE loop
    BY <2>1, <2>2, StepsAssumption
  <2>4. loop.begun <= Len(loop.steps)
    BY <2>1, BodiesAreLists DEF Frame
  <2>5. \A i \in DOMAIN frames' : frames'[i].begun <= Len(frames'[i].steps)
    BY <2>3, <2>4
  <2>6. UNCHANGED <<tables, loading, outcome, world, ran, temps>>
    BY <1>3 DEF ReadSteps, Fail
  <2> QED BY <2>2, <2>3, <2>5, <2>6 DEF tables, world, Points
<1> QED BY <1>1, <1>2, <1>3

\* The innermost loop, while a step is taken up or its list is at its end.
LEMMA InnerLoop ==
  ASSUME TypeInv, frames # <<>>
  PROVE  /\ Len(frames) \in DOMAIN frames /\ Inner = frames[Len(frames)] /\ Inner \in Frame
         /\ frames \in Seq(Frame) /\ Len(frames) \in Nat \ {0}
         /\ Inner.steps \in AnyBody /\ Inner.steps \in Seq(Step) /\ Inner.begun \in Nat
<1>1. /\ frames \in Seq(Frame) /\ Len(frames) \in Nat \ {0}
      /\ Len(frames) \in DOMAIN frames /\ Inner \in Frame
  BY StepsAssumption DEF Inner, TypeInv, TypeOK
<1> QED BY <1>1, BodiesAreLists DEF Frame, Inner

\* Beginning a step counts it in the innermost loop ...
LEMMA LoopCounts ==
  ASSUME TypeInv, BeginStep
  PROVE  /\ frames # <<>>
         /\ frames' \in Seq(Frame) /\ Len(frames') = Len(frames)
         /\ \A i \in 1..Len(frames) :
              frames'[i] = IF i = Len(frames)
                           THEN [job |-> Inner.job, steps |-> Inner.steps, begun |-> Inner.begun + 1]
                           ELSE frames[i]
<1> DEFINE loop == [job |-> Inner.job, steps |-> Inner.steps, begun |-> Inner.begun + 1]
<1>1. frames # <<>>
  BY DEF BeginStep, TypeInv, InLoop
<1>2. loop \in Frame
  BY <1>1, InnerLoop DEF Frame
<1>3. [Inner EXCEPT !.begun = Inner.begun + 1] = loop
  BY <1>1, InnerLoop DEF Frame
<1>4. frames' = [frames EXCEPT ![Len(frames)] = [Inner EXCEPT !.begun = Inner.begun + 1]]
  BY DEF BeginStep, Inner
<1> QED BY <1>1, <1>2, <1>3, <1>4, InnerLoop, ExceptSeq

\* ... and the end of a loop closes it.
LEMMA LoopCloses ==
  ASSUME TypeInv, EndLoop
  PROVE  /\ frames # <<>>
         /\ frames' \in Seq(Frame) /\ Len(frames') = Len(frames) - 1
         /\ \A i \in 1..Len(frames) - 1 : frames'[i] = frames[i]
<1> DEFINE n == Len(frames)
<1>1. frames # <<>> /\ frames' = SubSeq(frames, 1, n - 1)
  BY DEF EndLoop, TypeInv, InLoop
<1>2. n \in Nat \ {0} /\ \A i \in 1..n - 1 : frames[i] \in Frame
  BY <1>1, InnerLoop
<1> HIDE DEF n
<1>3. /\ frames' \in Seq(Frame) /\ Len(frames') = n - 1
      /\ \A i \in 1..n - 1 : frames'[i] = frames[i]
  BY <1>1, <1>2, SubSeqProperties
<1> QED BY <1>1, <1>3 DEF n

LEMMA TypeLoops ==
  ASSUME TypeInv, BeginStep \/ EndLoop
  PROVE  TypeInv'
<1>1. CASE BeginStep
  <2> DEFINE step == Inner.steps[Inner.begun + 1]
  <2>1. frames # <<>>
    BY <1>1, LoopCounts
  <2>2. step \in Step
    BY <1>1, <2>1, InnerLoop DEF BeginStep
  <2>3. Inner' = [job |-> Inner.job, steps |-> Inner.steps, begun |-> Inner.begun + 1]
    BY <1>1, <2>1, LoopCounts, InnerLoop DEF Inner
  <2>4. Current' = step
    BY <2>3 DEF Current
  <2>5. \A i \in DOMAIN frames' : frames'[i].begun <= Len(frames'[i].steps)
    BY <1>1, <2>1, LoopCounts, InnerLoop DEF BeginStep, TypeInv, TypeOK
  <2>6. /\ pc' \in {"row", "command", "file-copy", "upload"}
        /\ pc' \in {"command", "file-copy", "upload"} => step.type \in Remote
    BY <1>1, <2>2 DEF BeginStep, EntryPoint, Step, Remote
  <2>7. loading' \in Jobs
    BY <1>1, <2>2 DEF BeginStep, Step, Remote, TypeInv, TypeOK
  <2>8. /\ frames' \in Seq(Frame) /\ Len(frames') = Len(frames) /\ frames' # <<>>
        /\ Inner'.begun > 0
    BY <1>1, <2>1, <2>3, LoopCounts, InnerLoop
  <2> QED BY <1>1, <2>4, <2>5, <2>6, <2>7, <2>8
          DEF BeginStep, tables, world, Points, TypeInv, TypeOK, InLoop
<1>2. CASE EndLoop
  <2> DEFINE n == Len(frames)
  <2>1. /\ n \in Nat \ {0} /\ frames' \in Seq(Frame) /\ Len(frames') = n - 1
        /\ \A i \in 1..n - 1 : frames'[i] = frames[i]
        /\ pc' = IF n = 1 THEN "ok" ELSE "next"
        /\ n <= MaxDepth /\ \A i \in 1..n : frames[i].begun <= Len(frames[i].steps)
    BY <1>2, LoopCloses, InnerLoop DEF EndLoop, TypeInv, TypeOK
  <2>2. DOMAIN frames' = 1..n - 1
    BY <2>1
  <2>3. UNCHANGED <<tables, loading, outcome, world, ran, temps>>
    BY <1>2 DEF EndLoop
  <2> HIDE DEF n
  <2>4. \A i \in DOMAIN frames' : frames'[i].begun <= Len(frames'[i].steps)
    BY <2>1, <2>2
  <2>5. pc' \in {"ok", "next"} /\ (pc' = "next" => frames' # <<>>)
    <3>1. frames' = <<>> => Len(frames') = 0
      OBVIOUS
    <3>2. n # 1 => n - 1 # 0
      BY <2>1
    <3> QED BY <2>1, <3>1, <3>2
  <2>6. Len(frames') <= MaxDepth
    BY <2>1, StepsAssumption
  <2> QED BY <2>1, <2>3, <2>4, <2>5, <2>6 DEF tables, world, Points, TypeInv, TypeOK, InLoop
<1> QED BY <1>1, <1>2

\* A temporary script exists while it is used, and no other one does as long as the
\* context is live and the host is well.
OnlyScriptInUse ==
  /\ pc \in {"chmod", "script", "rm"} => temps > 0
  /\ ~Disturbed => temps = (IF pc \in {"chmod", "script", "rm"} THEN 1 ELSE 0)

ScriptInv == TypeInv /\ OnlyScriptInUse

\* The calls of the SSH client.
LEMMA TypeRemote ==
  ASSUME ScriptInv, RunCommand \/ CopyFile \/ Upload \/ Chmod \/ RunScript \/ RemoveScript
  PROVE  TypeInv'
<1> USE DEF TypeInv, TypeOK, InLoop
<1>1. pc \in {"command", "file-copy", "upload", "chmod", "script", "rm"}
  BY DEF RunCommand, CopyFile, Attempt, Upload, Chmod, RunScript, RemoveScript
<1>2. Current.id \in Names
  <2>1. /\ Len(frames) \in DOMAIN frames /\ Inner \in Frame
        /\ Inner.begun > 0 /\ Current.type \in Remote
    BY <1>1 DEF ScriptInv, Inner
  <2>2. Inner.begun \in 1..Len(Inner.steps) /\ Inner.steps \in Seq(Step)
    BY <2>1, BodiesAreLists DEF ScriptInv, Inner, Frame
  <2>3. Current \in Step
    BY <2>2 DEF Current
  <2> QED BY <2>1, <2>3 DEF Step, Remote
<1>3. Append(ran, Current.id) \in Seq(Names)
  BY <1>2 DEF ScriptInv
<1>4. frames' = frames /\ Inner' = Inner /\ Current' = Current
  BY DEF RunCommand, CopyFile, Attempt, Upload, Chmod, RunScript, RemoveScript, Inner, Current
<1>5. ran' \in Seq(Names)
  BY <1>3 DEF RunCommand, CopyFile, Attempt, Upload, Chmod, RunScript, RemoveScript, StartOnHost,
     ScriptInv
<1>6. temps' \in Nat
  BY DEF RunCommand, CopyFile, Attempt, Upload, Chmod, RunScript, RemoveScript, ScriptInv,
     OnlyScriptInUse
<1>7. UNCHANGED <<tables, loading, world>>
  BY DEF RunCommand, CopyFile, Attempt, Upload, Chmod, RunScript, RemoveScript
<1>8. /\ pc' \in {"next", "err", "chmod", "script", "rm"}
      /\ outcome' \in {"none", "ok", "err"}
  BY DEF RunCommand, CopyFile, Attempt, Upload, Chmod, RunScript, RemoveScript, ScriptInv
<1> QED BY <1>1, <1>4, <1>5, <1>6, <1>7, <1>8 DEF ScriptInv, tables, world, Points

LEMMA TypeStep == ScriptInv /\ [Next]_vars => TypeInv'
BY TypeAround, TypeLoad, TypeLoops, TypeRemote DEF ScriptInv, Next, Walk

LEMMA ScriptStep == ScriptInv /\ [Next]_vars => OnlyScriptInUse'
<1> SUFFICES ASSUME ScriptInv, [Next]_vars
             PROVE  OnlyScriptInUse'
  OBVIOUS
<1> USE DEF ScriptInv, OnlyScriptInUse, Disturbed
<1>0. temps \in Nat
  BY DEF TypeInv, TypeOK
<1>1. CASE Upload
  BY <1>0, <1>1 DEF Upload, world
<1>2. CASE Chmod
  BY <1>0, <1>2 DEF Chmod, world
<1>3. CASE RunScript
  BY <1>0, <1>3 DEF RunScript, world
<1>4. CASE RemoveScript
  BY <1>0, <1>4 DEF RemoveScript, world
<1>5. CASE \/ RunCommand \/ CopyFile \/ ReadRow \/ ReadSteps \/ StatementFails \/ RefuseStep
           \/ EndLoop
  BY <1>5 DEF RunCommand, CopyFile, Attempt, ReadRow, ReadSteps, StatementFails, RefuseStep,
              Fail, EndLoop, world
<1>6. CASE BeginStep
  <2>1. pc' \in {"row", "command", "file-copy", "upload"}
    <3>1. frames # <<>> /\ Len(frames) \in DOMAIN frames /\ Inner \in Frame
      BY <1>6 DEF TypeInv, TypeOK, InLoop, BeginStep, Inner
    <3>2. Inner.steps[Inner.begun + 1] \in Step
      BY <1>6, <3>1, BodiesAreLists DEF BeginStep, Frame
    <3> QED BY <1>6, <3>2 DEF BeginStep, EntryPoint, Step, Remote
  <2> QED BY <1>6, <2>1 DEF BeginStep, world
<1>7. CASE \/ UNCHANGED vars \/ ContextEnds \/ HostFails
           \/ \E j \in Jobs : DeleteJob(j) \/ \E body \in Bodies[j] : UpdateJob(j, body)
  BY <1>7 DEF vars, world, ContextEnds, HostFails, DeleteJob, UpdateJob
<1> QED BY <1>1, <1>2, <1>3, <1>4, <1>5, <1>6, <1>7 DEF Next, Walk

LEMMA ScriptAlways == Spec => []ScriptInv
<1>1. Init => ScriptInv
  <2>1. Init => OnlyScriptInUse
    BY DEF Init, OnlyScriptInUse
  <2> QED BY <2>1, TypeInit DEF ScriptInv
<1>2. ScriptInv /\ [Next]_vars => ScriptInv'
  BY TypeStep, ScriptStep DEF ScriptInv
<1> QED BY <1>1, <1>2, PTL DEF Spec

\* The walk keeps its shape: loops over lists of steps, nested at most MaxDepth deep,
\* none of them past its end.
THEOREM TypeCorrect == Spec => []TypeOK
<1>1. ScriptInv => TypeOK
  BY DEF ScriptInv, TypeInv
<1> QED BY <1>1, ScriptAlways, PTL

\* However the walk ends, with a step that fails, a job that is gone or a success, it
\* leaves no temporary script behind on a host that was well the whole time, unless
\* the context was cancelled.
THEOREM ScriptsAreRemoved == Spec => []ScriptsRemoved
<1>1. ScriptInv => ScriptsRemoved
  BY DEF ScriptInv, OnlyScriptInUse, ScriptsRemoved, Ended
<1> QED BY <1>1, ScriptAlways, PTL
----------------------------------------------------------------------------
(* What Chain and TracesWithin compute.  Both are defined by recursion.    *)
(* That a function with the recursion's equation exists, and what holds of *)
(* it for all arguments, is shown by the smallest argument for which it    *)
(* would not be so: Smallest takes the place of an induction.              *)

LEMMA Smallest ==
  ASSUME NEW T \in SUBSET Nat, T # {}
  PROVE  \E x \in T : \A y \in T : x <= y
<1>1. PICK x \in T : \A y \in T : ~ (<<y, x>> \in OpToRel(<, Nat))
  BY WFMin, NatLessThanWellFounded
<1>2. \A y \in T : ~ (y < x)
  BY <1>1 DEF OpToRel
<1> QED BY <1>2

LEMMA ChainIs ==
  ASSUME NEW P, Len(P) \in Nat
  PROVE  /\ Chain(P)[0] = {<<>>}
         /\ \A n \in 1..Len(P) : Chain(P)[n] = Cat(Chain(P)[n - 1], P[n])
<1> DEFINE Is(f, n) == f = [i \in 0..n |-> IF i = 0 THEN {<<>>} ELSE Cat(f[i - 1], P[i])]
           T == {n \in 0..Len(P) : ~ \E f : Is(f, n)}
<1> HIDE DEF Is
<1>1. T = {}
  <2> SUFFICES ASSUME T # {}
               PROVE  FALSE
    OBVIOUS
  <2>1. PICK n \in T : \A y \in T : n <= y
    <3>1. T \in SUBSET Nat
      OBVIOUS
    <3> HIDE DEF T
    <3> QED BY <3>1, Smallest
  <2>2. n # 0
    <3> DEFINE g == [i \in 0..0 |-> {<<>>}]
    <3>1. Is(g, 0)
      BY DEF Is
    <3> QED BY <2>1, <3>1
  <2>3. n - 1 \in 0..Len(P) /\ n - 1 \notin T
    <3>1. n \in 0..Len(P) /\ n - 1 \in 0..Len(P) /\ ~ n <= n - 1
      BY <2>1, <2>2
    <3> HIDE DEF T
    <3> QED BY <2>1, <3>1
  <2>4. PICK f : Is(f, n - 1)
    BY <2>3
  <2> DEFINE g == [i \in 0..n |-> IF i = n THEN Cat(f[n - 1], P[n]) ELSE f[i]]
  <2>5. \A i \in 0..n : g[i] = IF i = 0 THEN {<<>>} ELSE Cat(g[i - 1], P[i])
    <3>1. \A i \in 0..n - 1 : f[i] = IF i = 0 THEN {<<>>} ELSE Cat(f[i - 1], P[i])
      BY <2>4 DEF Is
    <3>2. \A i \in 0..n - 1 : g[i] = f[i]
      BY <2>1, <2>2
    <3> QED BY <2>1, <2>2, <3>1, <3>2
  <2>6. Is(g, n)
    BY <2>5 DEF Is
  <2> QED BY <2>1, <2>6
<1>2. \E f : Is(f, Len(P))
  <2>1. Len(P) \in 0..Len(P)
    OBVIOUS
  <2> QED BY <1>1, <2>1
<1>3. Is(CHOOSE f : Is(f, Len(P)), Len(P))
  BY <1>2
<1>4. Chain(P) = [i \in 0..Len(P) |-> IF i = 0 THEN {<<>>} ELSE Cat(Chain(P)[i - 1], P[i])]
  BY <1>3 DEF Chain, Is
<1> HIDE DEF T
<1>5. \A i \in 0..Len(P) : Chain(P)[i] = IF i = 0 THEN {<<>>} ELSE Cat(Chain(P)[i - 1], P[i])
  BY <1>4
<1> QED BY <1>5

\* A whole list of job j leaves t, if traces[i] is what may be left of job i.
Leaves(traces, lists, j, t) ==
  \E body \in lists[j] : t \in Chain(Parts(traces, body))[Len(body)]

LEMMA WithinIs ==
  ASSUME NEW lists, NEW j \in Jobs
  PROVE  /\ TracesWithin(lists)[0][j] = {}
         /\ \A d \in 1..MaxDepth : \A t :
              t \in TracesWithin(lists)[d][j] <=> Leaves(TracesWithin(lists)[d - 1], lists, j, t)
<1> DEFINE Level(f, d) ==
             [i \in Jobs |->
                IF d = 0 THEN {}
                ELSE UNION {Chain(Parts(f[d - 1], body))[Len(body)] : body \in lists[i]}]
           Is(f, n) == f = [d \in 0..n |-> Level(f, d)]
           T == {n \in 0..MaxDepth : ~ \E f : Is(f, n)}
<1>0. MaxDepth \in Nat \ {0}
  BY StepsAssumption
<1> HIDE DEF Is
<1>1. T = {}
  <2> SUFFICES ASSUME T # {}
               PROVE  FALSE
    OBVIOUS
  <2>1. PICK n \in T : \A y \in T : n <= y
    <3>1. T \in SUBSET Nat
      BY <1>0
    <3> HIDE DEF T
    <3> QED BY <3>1, Smallest
  <2>2. n # 0
    <3> DEFINE g == [d \in 0..0 |-> [i \in Jobs |-> {}]]
    <3>1. Is(g, 0)
      BY DEF Is
    <3> QED BY <2>1, <3>1
  <2>3. n - 1 \in 0..MaxDepth /\ n - 1 \notin T
    <3>1. n \in 0..MaxDepth /\ n - 1 \in 0..MaxDepth /\ ~ n <= n - 1
      BY <1>0, <2>1, <2>2
    <3> HIDE DEF T
    <3> QED BY <2>1, <3>1
  <2>4. PICK f : Is(f, n - 1)
    BY <2>3
  <2> DEFINE g == [d \in 0..n |-> IF d = n THEN Level(f, n) ELSE f[d]]
  <2> HIDE DEF Level
  <2>5. \A d \in 0..n : g[d] = Level(g, d)
    <3>1. \A d \in 0..n - 1 : f[d] = Level(f, d)
      BY <2>4 DEF Is
    <3>2. ASSUME NEW d \in 0..n
          PROVE  Level(g, d) = Level(f, d)
      <4>1. CASE d = 0
        BY <4>1 DEF Level
      <4>2. CASE d # 0
        <5>1. g[d - 1] = f[d - 1]
          BY <1>0, <2>1, <2>2, <4>2
        <5> HIDE DEF g
        <5> QED BY <5>1 DEF Level
      <4> QED BY <4>1, <4>2
    <3>3. \A d \in 0..n : g[d] = Level(f, d)
      BY <2>1, <2>2, <3>1
    <3> HIDE DEF g
    <3> QED BY <3>2, <3>3
  <2>6. Is(g, n)
    BY <2>5 DEF Is
  <2> QED BY <2>1, <2>6
<1>2. \E f : Is(f, MaxDepth)
  <2>1. MaxDepth \in 0..MaxDepth
    BY <1>0
  <2> QED BY <1>1, <2>1
<1>3. Is(CHOOSE f : Is(f, MaxDepth), MaxDepth)
  BY <1>2
<1>4. TracesWithin(lists) = [d \in 0..MaxDepth |-> Level(TracesWithin(lists), d)]
  BY <1>3 DEF TracesWithin, Is
<1> HIDE DEF T
<1>5. \A d \in 0..MaxDepth : TracesWithin(lists)[d][j] = Level(TracesWithin(lists), d)[j]
  BY <1>4
<1>6. TracesWithin(lists)[0][j] = {}
  <2>1. 0 \in 0..MaxDepth
    BY <1>0
  <2> QED BY <1>5, <2>1
<1>7. ASSUME NEW d \in 1..MaxDepth, NEW t
      PROVE  t \in TracesWithin(lists)[d][j] <=> Leaves(TracesWithin(lists)[d - 1], lists, j, t)
  <2> DEFINE w == TracesWithin(lists)
  <2>1. d \in 0..MaxDepth /\ d # 0
    BY <1>0
  <2>2. w[d][j] = Level(w, d)[j]
    BY <1>5, <2>1
  <2> HIDE DEF w
  <2>3. Level(w, d)[j] = UNION {Chain(Parts(w[d - 1], body))[Len(body)] : body \in lists[j]}
    BY <2>1
  <2>4. t \in w[d][j] <=> Leaves(w[d - 1], lists, j, t)
    BY <2>2, <2>3 DEF Leaves
  <2> QED BY <2>4 DEF w
<1> QED BY <1>6, <1>7

LEMMA InCat ==
  ASSUME NEW S, NEW T, NEW s \in S, NEW t \in T
  PROVE  s \o t \in Cat(S, T)
BY DEF Cat

LEMMA CatGrows ==
  ASSUME NEW S1, NEW S2, NEW T1, NEW T2, S1 \subseteq S2, T1 \subseteq T2
  PROVE  Cat(S1, T1) \subseteq Cat(S2, T2)
<1> SUFFICES ASSUME NEW x \in Cat(S1, T1)
             PROVE  x \in Cat(S2, T2)
  OBVIOUS
<1>1. PICK s \in S1, t \in T1 : x = s \o t
  BY DEF Cat
<1> QED BY <1>1, InCat

\* More in every set makes more chains.
LEMMA ChainGrows ==
  ASSUME NEW P, NEW Q, Len(P) \in Nat, Len(Q) = Len(P), \A n \in 1..Len(P) : P[n] \subseteq Q[n]
  PROVE  \A n \in 0..Len(P) : Chain(P)[n] \subseteq Chain(Q)[n]
<1> DEFINE T == {n \in 0..Len(P) : ~ Chain(P)[n] \subseteq Chain(Q)[n]}
<1>1. T = {}
  <2> SUFFICES ASSUME T # {}
               PROVE  FALSE
    OBVIOUS
  <2>1. PICK n \in T : \A y \in T : n <= y
    <3>1. T \in SUBSET Nat
      OBVIOUS
    <3> HIDE DEF T
    <3> QED BY <3>1, Smallest
  <2>2. n # 0
    BY <2>1, ChainIs
  <2>3. n \in 1..Len(P) /\ n - 1 \in 0..Len(P) /\ ~ n <= n - 1
    BY <2>1, <2>2
  <2>4. Chain(P)[n - 1] \subseteq Chain(Q)[n - 1]
    BY <2>1, <2>3
  <2>5. Chain(P)[n] = Cat(Chain(P)[n - 1], P[n]) /\ Chain(Q)[n] = Cat(Chain(Q)[n - 1], Q[n])
    BY <2>3, ChainIs
  <2>6. P[n] \subseteq Q[n]
    BY <2>3
  <2>7. Chain(P)[n] \subseteq Chain(Q)[n]
    BY <2>4, <2>5, <2>6, CatGrows
  <2> QED BY <2>1, <2>7
<1> QED BY <1>1

LEMMA PartsAre ==
  ASSUME NEW traces, NEW body \in AnyBody
  PROVE  /\ Len(body) \in Nat /\ Len(Parts(traces, body)) = Len(body)
         /\ \A n \in 1..Len(body) :
              /\ body[n].type \in Remote =>
                   Parts(traces, body)[n] = {<<body[n].id>>} /\ body[n].id \in Names
              /\ body[n].type = "job-ref" =>
                   Parts(traces, body)[n] = traces[body[n].id] /\ body[n].id \in Jobs
              /\ body[n].type = "malformed" => Parts(traces, body)[n] = {}
              /\ body[n].type \in Remote \cup {"job-ref", "malformed"}
<1>1. body \in Seq(Step) /\ Len(body) \in Nat
  BY BodiesAreLists
<1>2. \A n \in 1..Len(body) : body[n] \in Step
  BY <1>1
<1>3. Len(Parts(traces, body)) = Len(body)
  BY <1>1 DEF Parts
<1>4. ASSUME NEW n \in 1..Len(body)
      PROVE  Parts(traces, body)[n] = CASE body[n].type = "job-ref"   -> traces[body[n].id]
                                        [] body[n].type = "malformed" -> {}
                                        [] OTHER -> {<<body[n].id>>}
  BY DEF Parts
<1> QED BY <1>1, <1>2, <1>3, <1>4 DEF Step, Remote

\* More lists, and references followed deeper, take no trace away.
LEMMA TracesGrow ==
  ASSUME NEW r, NEW s, \A j \in Jobs : r[j] \subseteq s[j] /\ s[j] \subseteq AnyBody
  PROVE  \A d \in 0..MaxDepth : \A e \in d..MaxDepth : \A j \in Jobs :
           TracesWithin(r)[d][j] \subseteq TracesWithin(s)[e][j]
<1> DEFINE Holds(d) == \A e \in d..MaxDepth : \A j \in Jobs :
                         TracesWithin(r)[d][j] \subseteq TracesWithin(s)[e][j]
           T == {d \in 0..MaxDepth : ~ Holds(d)}
<1>0. MaxDepth \in Nat \ {0}
  BY StepsAssumption
<1> HIDE DEF Holds
<1>1. T = {}
  <2> SUFFICES ASSUME T # {}
               PROVE  FALSE
    OBVIOUS
  <2>1. PICK d \in T : \A y \in T : d <= y
    <3>1. T \in SUBSET Nat
      BY <1>0
    <3> HIDE DEF T
    <3> QED BY <3>1, Smallest
  <2>2. d # 0
    <3>1. Holds(0)
      BY WithinIs DEF Holds
    <3> QED BY <2>1, <3>1
  <2>3. d \in 1..MaxDepth /\ d - 1 \in 0..MaxDepth /\ ~ d <= d - 1
    BY <1>0, <2>1, <2>2
  <2>4. Holds(d - 1)
    BY <2>1, <2>3
  <2>5. ASSUME NEW e \in d..MaxDepth, NEW j \in Jobs
        PROVE  TracesWithin(r)[d][j] \subseteq TracesWithin(s)[e][j]
    <3> DEFINE x == TracesWithin(r)[d - 1]
               y == TracesWithin(s)[e - 1]
    <3>1. e \in 1..MaxDepth /\ e - 1 \in d - 1..MaxDepth
      BY <1>0, <2>3
    <3>2. \A i \in Jobs : x[i] \subseteq y[i]
      BY <2>4, <3>1 DEF Holds
    <3>3. \A t : t \in TracesWithin(r)[d][j] <=> Leaves(x, r, j, t)
      BY <2>3, WithinIs
    <3>4. \A t : t \in TracesWithin(s)[e][j] <=> Leaves(y, s, j, t)
      BY <3>1, WithinIs
    <3> HIDE DEF x, y
    <3>5. ASSUME NEW body \in r[j]
          PROVE  Chain(Parts(x, body))[Len(body)] \subseteq Chain(Parts(y, body))[Len(body)]
      <4>1. body \in AnyBody
        OBVIOUS
      <4>2. /\ Len(body) \in Nat /\ Len(Parts(x, body)) = Len(body)
            /\ Len(Parts(y, body)) = Len(body)
            /\ Len(body) \in 0..Len(body)
        BY <4>1, PartsAre
      <4>3. \A n \in 1..Len(body) : Parts(x, body)[n] \subseteq Parts(y, body)[n]
        BY <3>2, <4>1, PartsAre
      <4> QED BY <4>2, <4>3, ChainGrows
    <3> QED BY <3>3, <3>4, <3>5 DEF Leaves
  <2>6. Holds(d)
    BY <2>5 DEF Holds
  <2> QED BY <2>1, <2>6
<1> QED BY <1>1 DEF Holds

----------------------------------------------------------------------------
(* What a walk has done of a list. *)

Done(d, lists, body, n, t) == t \in Chain(Parts(TracesWithin(lists)[d], body))[n]

\* Nothing at first; then what a step on the host is called, or a whole trace of the job
\* that is referred to, less deep by one; and what is done stays done.
LEMMA DoneNothing ==
  ASSUME NEW d, NEW lists, NEW body \in AnyBody
  PROVE  Done(d, lists, body, 0, <<>>)
BY PartsAre, ChainIs DEF Done

LEMMA DoneOnHost ==
  ASSUME NEW d, NEW lists, NEW body \in AnyBody, NEW n \in 1..Len(body), NEW t \in Seq(Names),
         Done(d, lists, body, n - 1, t), body[n].type \in Remote
  PROVE  Done(d, lists, body, n, Append(t, body[n].id))
<1> DEFINE P == Parts(TracesWithin(lists)[d], body)
<1>1. Len(P) = Len(body) /\ Len(body) \in Nat /\ P[n] = {<<body[n].id>>} /\ body[n].id \in Names
  BY PartsAre
<1> HIDE DEF P
<1>2. Chain(P)[n] = Cat(Chain(P)[n - 1], P[n])
  BY <1>1, ChainIs
<1>3. Append(t, body[n].id) = t \o <<body[n].id>>
  BY <1>1, AppendIsConcat
<1> QED BY <1>1, <1>2, <1>3, InCat DEF Done, P

LEMMA DoneReference ==
  ASSUME NEW d \in 1..MaxDepth, NEW lists, NEW body \in AnyBody, NEW n \in 1..Len(body), NEW t,
         Done(d, lists, body, n - 1, t), body[n].type = "job-ref",
         NEW c \in lists[body[n].id], NEW u, Done(d - 1, lists, c, Len(c), u)
  PROVE  Done(d, lists, body, n, t \o u)
<1> DEFINE P == Parts(TracesWithin(lists)[d], body)
           j == body[n].id
<1>1. Len(P) = Len(body) /\ Len(body) \in Nat /\ P[n] = TracesWithin(lists)[d][j] /\ j \in Jobs
  BY PartsAre
<1> HIDE DEF P
<1>2. Chain(P)[n] = Cat(Chain(P)[n - 1], P[n])
  BY <1>1, ChainIs
<1>3. u \in TracesWithin(lists)[d][j]
  BY <1>1, WithinIs DEF Done, Leaves
<1> QED BY <1>1, <1>2, <1>3, InCat DEF Done, P

LEMMA DoneStays ==
  ASSUME NEW r, NEW s, \A j \in Jobs : r[j] \subseteq s[j] /\ s[j] \subseteq AnyBody,
         NEW d \in 0..MaxDepth, NEW e \in d..MaxDepth,
         NEW body \in AnyBody, NEW n \in 0..Len(body), NEW t, Done(d, r, body, n, t)
  PROVE  Done(e, s, body, n, t)
<1> DEFINE x == TracesWithin(r)[d]
           y == TracesWithin(s)[e]
<1>1. \A j \in Jobs : x[j] \subseteq y[j]
  BY TracesGrow
<1> HIDE DEF x, y
<1>2. \A i \in 1..Len(body) : Parts(x, body)[i] \subseteq Parts(y, body)[i]
  BY <1>1, PartsAre
<1>3. /\ Len(Parts(x, body)) \in Nat /\ Len(Parts(x, body)) = Len(body)
      /\ Len(Parts(y, body)) = Len(body)
  BY PartsAre
<1>4. Chain(Parts(x, body))[n] \subseteq Chain(Parts(y, body))[n]
  BY <1>2, <1>3, ChainGrows
<1> QED BY <1>4 DEF Done, x, y

\* Jobs are changed and deleted, but what could be read of them stays known.
LEMMA ListsAreBodies ==
  ASSUME TypeOK
  PROVE  \A j \in Jobs : Readable[j] \subseteq AnyBody
BY DEF TypeOK, Readable, AnyBody

LEMMA ReadableGrows ==
  ASSUME TypeOK,
         \/ UNCHANGED tables
         \/ \E j \in Jobs : DeleteJob(j) \/ \E body \in Bodies[j] : UpdateJob(j, body)
  PROVE  \A j \in Jobs : Readable[j] \subseteq Readable'[j]
<1>1. CASE UNCHANGED tables
  BY <1>1 DEF tables, Readable
<1>2. ASSUME NEW i \in Jobs, DeleteJob(i)
      PROVE  \A j \in Jobs : Readable[j] \subseteq Readable'[j]
  BY <1>2 DEF DeleteJob, Readable
<1>3. ASSUME NEW i \in Jobs, NEW body \in Bodies[i], UpdateJob(i, body)
      PROVE  \A j \in Jobs : Readable[j] \subseteq Readable'[j]
  BY <1>3 DEF UpdateJob, Readable, TypeOK
<1> QED BY <1>1, <1>2, <1>3

LEMMA StepOfBody ==
  ASSUME NEW b \in AnyBody, NEW n \in 1..Len(b)
  PROVE  /\ b[n].type = "job-ref" => b[n].id \in Jobs
         /\ b[n].type \in Remote => b[n].id \in Names
<1>1. b \in Seq(Step)
  BY BodiesAreLists
<1>2. b[n] \in Step
  BY <1>1
<1> QED BY <1>2 DEF Step, Remote

----------------------------------------------------------------------------
(* What a walk has done. *)

RefersTo(frame, j) ==
  frame.begun > 0 /\ frame.steps[frame.begun].type = "job-ref" /\ frame.steps[frame.begun].id = j

\* The loops hang together: each runs a list its job has had, the job the loop around it
\* refers to, or the job of the execution; and so does the one that is being loaded.
Linked ==
  pc \notin {"ok", "err"} =>
    /\ \A i \in 1..Len(frames) : frames[i].steps \in Readable[frames[i].job]
    /\ frames # <<>> => frames[1].job = Top
    /\ \A i \in 1..Len(frames) - 1 : RefersTo(frames[i], frames[i + 1].job)
    /\ pc \in {"row", "body"} =>
         IF frames = <<>> THEN loading = Top ELSE RefersTo(frames[Len(frames)], loading)

\* A deleted job has no steps.
DeletedIsEmpty == \A j \in Jobs \ jobs : steps[j] = <<>>

\* How much of a loop's list has been done: the step begun last counts once it was started on
\* the host, or its job has come to its end.
StepStarted == pc = "next" \/ (pc = "rm" /\ outcome = "ok")
Finished(i) == IF i = Len(frames) /\ StepStarted THEN frames[i].begun ELSE frames[i].begun - 1

Going == pc \notin {"ok", "err"} /\ (pc = "rm" => outcome = "ok")

\* What was started on the host falls into consecutive pieces, one for each loop: what is
\* done of its list.
Cuts == [0..Len(frames) -> 0..Len(ran)]
Fits(cut) ==
  /\ cut[0] = 0 /\ cut[Len(frames)] = Len(ran)
  /\ \A i \in 1..Len(frames) :
       /\ cut[i - 1] <= cut[i]
       /\ Done(MaxDepth - i, Readable, frames[i].steps, Finished(i),
               SubSeq(ran, cut[i - 1] + 1, cut[i]))
Accounted == Going => \E cut \in Cuts : Fits(cut)

WalkInv == ScriptInv /\ Linked /\ DeletedIsEmpty /\ Accounted /\ SuccessRanWholeJob

LEMMA WalkInit == Init => WalkInv
<1> SUFFICES ASSUME Init
             PROVE  WalkInv
  OBVIOUS
<1>1. ScriptInv
  BY TypeInit DEF Init, ScriptInv, OnlyScriptInUse
<1>2. frames = <<>> /\ ran = <<>> /\ pc = "row" /\ loading = Top /\ jobs = Jobs
      /\ Len(frames) = 0 /\ Len(ran) = 0
  BY DEF Init
<1>3. Linked /\ DeletedIsEmpty /\ SuccessRanWholeJob
  BY <1>2 DEF Linked, DeletedIsEmpty, SuccessRanWholeJob
<1>4. Accounted
  <2> DEFINE cut == [i \in 0..0 |-> 0]
  <2>1. cut \in Cuts /\ Fits(cut)
    BY <1>2 DEF Cuts, Fits
  <2> QED BY <2>1 DEF Accounted
<1> QED BY <1>1, <1>3, <1>4 DEF WalkInv

\* What the loops are made of.
LEMMA FramesAreLoops ==
  ASSUME TypeInv
  PROVE  /\ frames \in Seq(Frame) /\ Len(frames) \in Nat /\ DOMAIN frames = 1..Len(frames)
         /\ ran \in Seq(Names) /\ Len(ran) \in Nat
         /\ \A i \in 1..Len(frames) :
              /\ frames[i] \in Frame /\ frames[i].job \in Jobs
              /\ frames[i].steps \in AnyBody /\ frames[i].steps \in Seq(Step)
              /\ frames[i].begun \in Nat /\ frames[i].begun <= Len(frames[i].steps)
<1>1. frames \in Seq(Frame) /\ ran \in Seq(Names)
  BY DEF TypeInv, TypeOK
<1>2. \A i \in 1..Len(frames) : frames[i] \in Frame /\ frames[i].begun <= Len(frames[i].steps)
  BY <1>1 DEF TypeInv, TypeOK
<1> QED BY <1>1, <1>2, BodiesAreLists DEF Frame

LEMMA FinishedWithin ==
  ASSUME WalkInv, Going, NEW i \in 1..Len(frames)
  PROVE  /\ MaxDepth - i \in 0..MaxDepth /\ MaxDepth - i \in MaxDepth - i..MaxDepth
         /\ frames[i].steps \in AnyBody /\ Finished(i) \in 0..Len(frames[i].steps)
<1>1. Len(frames) <= MaxDepth /\ MaxDepth \in Nat
  BY StepsAssumption DEF WalkInv, ScriptInv, TypeInv, TypeOK
<1>2. /\ Len(frames) \in Nat /\ frames[i].steps \in AnyBody /\ Len(frames[i].steps) \in Nat
      /\ frames[i].begun \in Nat /\ frames[i].begun <= Len(frames[i].steps)
  BY FramesAreLoops DEF WalkInv, ScriptInv
<1>3. (i = Len(frames) /\ StepStarted) \/ frames[i].begun > 0
  <2>1. CASE i # Len(frames)
    <3>1. i \in 1..Len(frames) - 1
      BY <1>2, <2>1
    <3> QED BY <3>1 DEF WalkInv, Linked, RefersTo, Going
  <2>2. CASE i = Len(frames) /\ pc \in {"row", "body"}
    <3>1. frames # <<>>
      BY <2>2
    <3> QED BY <2>2, <3>1 DEF WalkInv, Linked, RefersTo
  <2>3. CASE i = Len(frames) /\ pc \notin {"row", "body"}
    BY <2>3 DEF WalkInv, ScriptInv, TypeInv, TypeOK, Points, InLoop, Inner, Going, StepStarted
  <2> QED BY <2>1, <2>2, <2>3
<1> QED BY <1>1, <1>2, <1>3 DEF Finished

\* What was started is untouched by steps that leave the tables alone.
LEMMA TablesRest ==
  ASSUME WalkInv, UNCHANGED tables
  PROVE  /\ Readable' = Readable /\ \A j \in Jobs : Readable[j] \subseteq Readable'[j]
         /\ DeletedIsEmpty'
BY DEF WalkInv, DeletedIsEmpty, tables, Readable

\* A step that leaves loops and starts as they are, and as much done of each list.
LEMMA WalkRests ==
  ASSUME WalkInv, ScriptInv', UNCHANGED <<frames, ran>>,
         \A j \in Jobs : Readable[j] \subseteq Readable'[j], DeletedIsEmpty',
         Going' => Going /\ (StepStarted' <=> StepStarted),
         pc' = "ok" => pc = "ok",
         pc' \notin {"ok", "err"} => pc \notin {"ok", "err"},
         pc' \in {"row", "body"} => pc \in {"row", "body"} /\ loading' = loading
  PROVE  WalkInv'
<1>0. /\ TypeInv
      /\ \A j \in Jobs : Readable[j] \subseteq Readable'[j] /\ Readable'[j] \subseteq AnyBody
  <2>1. TypeInv /\ TypeOK'
    BY DEF WalkInv, ScriptInv, TypeInv
  <2>2. (\A j \in Jobs : Readable[j] \subseteq AnyBody)'
    BY <2>1 DEF TypeOK, Readable, AnyBody
  <2> QED BY <2>1, <2>2
<1>1. Accounted'
  <2> SUFFICES ASSUME Going'
               PROVE  \E cut \in Cuts' : Fits(cut)'
    BY DEF Accounted
  <2>1. PICK cut \in Cuts : Fits(cut)
    BY DEF WalkInv, Accounted
  <2>2. \A i \in 1..Len(frames) : Finished(i)' = Finished(i)
    BY DEF Finished
  <2>3. ASSUME NEW i \in 1..Len(frames)
        PROVE  Done(MaxDepth - i, Readable, frames[i].steps, Finished(i),
                    SubSeq(ran, cut[i - 1] + 1, cut[i]))'
    <3>1. Done(MaxDepth - i, Readable, frames[i].steps, Finished(i),
               SubSeq(ran, cut[i - 1] + 1, cut[i]))
      BY <2>1 DEF Fits
    <3>2. /\ MaxDepth - i \in 0..MaxDepth /\ MaxDepth - i \in MaxDepth - i..MaxDepth
          /\ frames[i].steps \in AnyBody /\ Finished(i) \in 0..Len(frames[i].steps)
      BY <1>0, FinishedWithin
    <3>3. Done(MaxDepth - i, Readable', frames[i].steps, Finished(i),
               SubSeq(ran, cut[i - 1] + 1, cut[i]))
      BY <1>0, <3>1, <3>2, DoneStays
    <3> QED BY <2>2, <3>3
  <2>4. Fits(cut)'
    BY <2>1, <2>2, <2>3 DEF Fits
  <2> QED BY <2>1, <2>4 DEF Cuts
<1>2. SuccessRanWholeJob'
  <2> SUFFICES ASSUME pc' = "ok"
               PROVE  ran' \in TracesWithin(Readable')[MaxDepth][Top]
    BY DEF SuccessRanWholeJob, Traces
  <2>1. ran \in TracesWithin(Readable)[MaxDepth][Top]
    BY DEF WalkInv, SuccessRanWholeJob, Traces
  <2>2. MaxDepth \in 0..MaxDepth /\ MaxDepth \in MaxDepth..MaxDepth /\ Top \in Jobs
    BY StepsAssumption
  <2> QED BY <1>0, <2>1, <2>2, TracesGrow
<1>3. Linked'
  <2> SUFFICES ASSUME pc' \notin {"ok", "err"}
               PROVE  Linked'
    BY DEF Linked
  <2>1. Linked /\ pc \notin {"ok", "err"}
    BY DEF WalkInv
  <2>2. \A i \in 1..Len(frames) : frames[i].job \in Jobs
    <3>1. frames \in Seq(Frame)
      BY DEF WalkInv, ScriptInv, TypeInv, TypeOK
    <3>2. \A i \in 1..Len(frames) : frames[i] \in Frame
      BY <3>1
    <3> QED BY <3>2 DEF Frame
  <2> QED BY <2>1, <2>2 DEF Linked, RefersTo
<1> QED BY <1>1, <1>2, <1>3 DEF WalkInv

LEMMA WalkAround ==
  ASSUME WalkInv, ScriptInv',
         \/ UNCHANGED vars \/ ContextEnds \/ HostFails \/ StatementFails \/ RefuseStep \/ ReadRow
         \/ Upload \/ Chmod \/ RemoveScript
         \/ \E j \in Jobs : DeleteJob(j) \/ \E body \in Bodies[j] : UpdateJob(j, body)
  PROVE  WalkInv'
<1>1. TypeOK /\ DeletedIsEmpty
  BY DEF WalkInv, ScriptInv, TypeInv
<1>2. UNCHANGED <<frames, ran>>
  BY DEF vars, ContextEnds, HostFails, StatementFails, RefuseStep, Fail, ReadRow, Upload, Chmod,
     RemoveScript, DeleteJob, UpdateJob
<1>3. (\A j \in Jobs : Readable[j] \subseteq Readable'[j]) /\ DeletedIsEmpty'
  <2>1. CASE UNCHANGED tables
    BY <1>1, <2>1, ReadableGrows DEF tables, DeletedIsEmpty
  <2>2. CASE \E j \in Jobs : DeleteJob(j) \/ \E body \in Bodies[j] : UpdateJob(j, body)
    <3>1. DeletedIsEmpty'
      BY <1>1, <2>2 DEF DeletedIsEmpty, DeleteJob, UpdateJob, TypeOK
    <3> QED BY <1>1, <2>2, <3>1, ReadableGrows
  <2> QED BY <2>1, <2>2 DEF vars, ContextEnds, HostFails, StatementFails, RefuseStep, Fail, ReadRow,
          Upload, Chmod, RemoveScript
<1>4. /\ Going' => Going /\ (StepStarted' <=> StepStarted)
      /\ pc' = "ok" => pc = "ok"
      /\ pc' \notin {"ok", "err"} => pc \notin {"ok", "err"}
      /\ pc' \in {"row", "body"} => pc \in {"row", "body"} /\ loading' = loading
  BY DEF Going, StepStarted, vars, ContextEnds, HostFails, StatementFails, RefuseStep, Fail,
     ReadRow,
     Upload, Chmod, RemoveScript, DeleteJob, UpdateJob
<1> QED BY <1>2, <1>3, <1>4, WalkRests

\* A loop that is opened has nothing behind it.
LEMMA WalkOpens ==
  ASSUME WalkInv, ScriptInv', ReadSteps
  PROVE  WalkInv'
<1>0. TypeInv /\ TypeOK /\ Linked /\ DeletedIsEmpty /\ Accounted /\ SuccessRanWholeJob
  BY DEF WalkInv, ScriptInv, TypeInv
<1>1. CASE pc' = "err"
  <2>1. UNCHANGED <<tables, frames, loading, ran>>
    BY <1>1 DEF ReadSteps, Fail
  <2> QED BY <1>1, <2>1, TablesRest, WalkRests DEF Going, StepStarted, ReadSteps
<1>2. CASE pc' # "err"
  <2> DEFINE n == Len(frames)
             loop == [job |-> loading, steps |-> steps[loading], begun |-> 0]
  <2>1. /\ pc = "body" /\ pc' = "next" /\ frames' = Append(frames, loop)
        /\ UNCHANGED <<tables, loading, outcome, world, ran, temps>>
    BY <1>2 DEF ReadSteps, Fail
  <2>2. /\ loop \in Frame /\ loading \in Jobs /\ steps[loading] \in AnyBody
        /\ steps[loading] \in Readable[loading]
    BY <1>0 DEF TypeOK, Frame, DeletedIsEmpty, Readable
  <2>3. /\ Len(frames') = n + 1 /\ n \in Nat
        /\ frames'[n + 1] = loop /\ \A i \in 1..n : frames'[i] = frames[i]
    BY <1>0, <2>1, <2>2, FramesAreLoops, AppendProperties
  <2> HIDE DEF n
  <2>4. Linked'
    <3>0. /\ \A i \in 1..n : frames[i].steps \in Readable[frames[i].job]
          /\ n # 0 => frames[1].job = Top
          /\ \A i \in 1..n - 1 : RefersTo(frames[i], frames[i + 1].job)
          /\ IF n = 0 THEN loading = Top ELSE RefersTo(frames[n], loading)
      BY <1>0, <2>1, FramesAreLoops DEF Linked, n
    <3>1. \A i \in 1..n + 1 : frames'[i].steps \in Readable[frames'[i].job]
      BY <2>2, <2>3, <3>0
    <3>2. frames'[1].job = Top
      BY <2>3, <3>0
    <3>3. ASSUME NEW i \in 1..n
          PROVE  RefersTo(frames'[i], frames'[i + 1].job)
      <4>1. CASE i = n
        BY <2>3, <3>0, <4>1
      <4>2. CASE i # n
        <5>1. i \in 1..n - 1 /\ i + 1 \in 1..n
          BY <2>3, <4>2
        <5> QED BY <2>3, <3>0, <5>1
      <4> QED BY <4>1, <4>2
    <3>4. n + 1 - 1 = n
      BY <2>3
    <3> QED BY <2>1, <2>3, <3>1, <3>2, <3>3, <3>4, TablesRest DEF Linked, RefersTo
  <2>5. Accounted'
    <3>1. PICK cut \in Cuts : Fits(cut)
      BY <1>0, <2>1 DEF Accounted, Going
    <3>2. PICK last \in Nat : last = Len(ran)
      BY <1>0, FramesAreLoops
    <3>3. /\ cut \in [0..n -> 0..last] /\ cut[n] = last /\ cut[0] = 0
          /\ \A i \in 1..n : cut[i - 1] <= cut[i]
      BY <3>1, <3>2 DEF Cuts, Fits, n
    <3>4. PICK new \in [0..n + 1 -> 0..last] :
            new[n + 1] = last /\ \A i \in 0..n : new[i] = cut[i]
      <4> DEFINE f == [i \in 0..n + 1 |-> IF i = n + 1 THEN last ELSE cut[i]]
      <4>1. f \in [0..n + 1 -> 0..last] /\ f[n + 1] = last /\ \A i \in 0..n : f[i] = cut[i]
        BY <2>3, <3>2, <3>3
      <4> QED BY <4>1
    <3>5. new[0] = 0 /\ \A i \in 1..n + 1 : new[i - 1] <= new[i]
      BY <2>3, <3>3, <3>4
    <3>6. ASSUME NEW i \in 1..n + 1
          PROVE  Done(MaxDepth - i, Readable, frames[i].steps, Finished(i),
                      SubSeq(ran, new[i - 1] + 1, new[i]))'
      <4>1. CASE i = n + 1
        <5>1. SubSeq(ran, last + 1, last) = <<>>
          BY <3>2, SubSeqEmpty
        <5>2. /\ frames'[i].steps = steps[loading] /\ Finished(i)' = 0
              /\ SubSeq(ran', new[i - 1] + 1, new[i]) = <<>>
          BY <2>1, <2>3, <3>3, <3>4, <4>1, <5>1 DEF Finished, StepStarted
        <5> QED BY <2>2, <5>2, DoneNothing
      <4>2. CASE i # n + 1
        <5>1. i \in 1..n /\ i - 1 \in 0..n /\ i \in 0..n /\ i # n + 1
          BY <2>3, <4>2
        <5>2. frames'[i] = frames[i]
          BY <2>3, <5>1
        <5>3. Finished(i)' = Finished(i)
          BY <2>1, <2>3, <5>1, <5>2 DEF Finished, StepStarted
        <5>4. new[i - 1] = cut[i - 1] /\ new[i] = cut[i] /\ ran' = ran
          BY <2>1, <3>4, <5>1
        <5>5. Done(MaxDepth - i, Readable, frames[i].steps, Finished(i),
                   SubSeq(ran, cut[i - 1] + 1, cut[i]))
          BY <3>1, <5>1 DEF Fits, n
        <5> QED BY <2>1, <5>2, <5>3, <5>4, <5>5, TablesRest
      <4> QED BY <4>1, <4>2
    <3>7. new \in Cuts' /\ Fits(new)'
      BY <2>1, <2>3, <3>2, <3>4, <3>5, <3>6 DEF Cuts, Fits
    <3> QED BY <3>7 DEF Accounted
  <2> QED BY <2>1, <2>4, <2>5, TablesRest DEF WalkInv, SuccessRanWholeJob
<1> QED BY <1>1, <1>2

\* A step that is begun is not behind its loop yet.
LEMMA WalkBegins ==
  ASSUME WalkInv, ScriptInv', BeginStep
  PROVE  WalkInv'
<1> DEFINE n == Len(frames)
           step == Inner.steps[Inner.begun + 1]
<1>0. TypeInv /\ TypeOK /\ Linked /\ DeletedIsEmpty /\ Accounted /\ SuccessRanWholeJob
  BY DEF WalkInv, ScriptInv, TypeInv
<1>1. /\ n \in Nat \ {0} /\ Len(frames') = n /\ Inner = frames[n]
      /\ frames'[n] = [job |-> Inner.job, steps |-> Inner.steps, begun |-> Inner.begun + 1]
      /\ \A i \in 1..n : i # n => frames'[i] = frames[i]
  BY <1>0, LoopCounts, InnerLoop
<1>2. /\ pc = "next" /\ pc' = EntryPoint(step)
      /\ loading' = IF step.type = "job-ref" THEN step.id ELSE loading
      /\ UNCHANGED <<tables, outcome, world, ran, temps>>
      /\ Inner.begun \in Nat /\ step \in Step
  BY <1>0, LoopCounts, InnerLoop DEF BeginStep
<1>3. /\ pc' \in {"row", "command", "file-copy", "upload"}
      /\ pc' = "row" => step.type = "job-ref" /\ loading' = step.id
  BY <1>2, <1>0 DEF BeginStep, EntryPoint, Step, Remote
<1>4. \A i \in 1..n : frames'[i].job = frames[i].job /\ frames'[i].steps = frames[i].steps
  BY <1>1
<1>5. Linked'
  <2>1. /\ \A i \in 1..n : frames[i].steps \in Readable[frames[i].job]
        /\ frames[1].job = Top
        /\ \A i \in 1..n - 1 : RefersTo(frames[i], frames[i + 1].job)
    BY <1>0, <1>1, <1>2 DEF Linked
  <2>2. ASSUME NEW i \in 1..n - 1
        PROVE  RefersTo(frames'[i], frames'[i + 1].job)
    <3>1. i \in 1..n /\ i + 1 \in 1..n /\ i # n
      BY <1>1
    <3> QED BY <1>1, <1>4, <2>1, <3>1
  <2>3. pc' = "row" => RefersTo(frames'[n], loading')
    BY <1>1, <1>2, <1>3 DEF RefersTo
  <2>4. frames' # <<>>
    BY <1>1
  <2>5. \A i \in 1..n : frames'[i].steps \in Readable[frames'[i].job]
    BY <1>4, <2>1
  <2>6. frames'[1].job = Top
    BY <1>1, <1>4, <2>1
  <2> HIDE DEF n
  <2> QED BY <1>1, <1>2, <1>3, <2>2, <2>3, <2>4, <2>5, <2>6 DEF Linked, RefersTo, Readable, tables
<1>6. Accounted'
  <2>1. PICK cut \in Cuts : Fits(cut)
    BY <1>0, <1>2 DEF Accounted, Going
  <2>2. ASSUME NEW i \in 1..n
        PROVE  Done(MaxDepth - i, Readable, frames[i].steps, Finished(i),
                    SubSeq(ran, cut[i - 1] + 1, cut[i]))'
    <3>1. Done(MaxDepth - i, Readable, frames[i].steps, Finished(i),
               SubSeq(ran, cut[i - 1] + 1, cut[i]))
      BY <2>1 DEF Fits
    <3>2. Finished(i)' = Finished(i)
      BY <1>1, <1>2, <1>3 DEF Finished, StepStarted
    <3> QED BY <1>2, <1>4, <3>1, <3>2, TablesRest
  <2>3. cut \in Cuts' /\ Fits(cut)'
    BY <1>1, <1>2, <2>1, <2>2 DEF Cuts, Fits
  <2> QED BY <2>3 DEF Accounted
<1> QED BY <1>2, <1>3, <1>5, <1>6, TablesRest DEF WalkInv, SuccessRanWholeJob

\* A loop that is at its end leaves its piece to the step that refers to it.
LEMMA WalkReturns ==
  ASSUME WalkInv, ScriptInv', EndLoop
  PROVE  WalkInv'
<1> DEFINE n == Len(frames)
<1>0. TypeInv /\ TypeOK /\ Linked /\ DeletedIsEmpty /\ Accounted /\ SuccessRanWholeJob
  BY DEF WalkInv, ScriptInv, TypeInv
<1>1. /\ n \in Nat \ {0} /\ Len(frames') = n - 1 /\ Inner = frames[n]
      /\ \A i \in 1..n - 1 : frames'[i] = frames[i]
  BY <1>0, LoopCloses, InnerLoop
<1>2. /\ pc = "next" /\ pc' = (IF n = 1 THEN "ok" ELSE "next")
      /\ UNCHANGED <<tables, loading, outcome, world, ran, temps>>
      /\ Inner.begun = Len(Inner.steps)
  BY DEF EndLoop
<1>3. PICK cut \in Cuts : Fits(cut)
  BY <1>0, <1>2 DEF Accounted, Going
<1>4. /\ \A i \in 1..n : frames[i].steps \in Readable[frames[i].job]
      /\ frames[1].job = Top
      /\ \A i \in 1..n - 1 : RefersTo(frames[i], frames[i + 1].job)
  BY <1>0, <1>1, <1>2 DEF Linked
<1>5. PICK last \in Nat : last = Len(ran)
  BY <1>0, FramesAreLoops
<1>6. /\ cut \in [0..n -> 0..last] /\ cut[n] = last /\ cut[0] = 0
      /\ \A i \in 1..n : cut[i - 1] <= cut[i]
  BY <1>3, <1>5 DEF Cuts, Fits
<1>7. Done(MaxDepth - n, Readable, Inner.steps, Len(Inner.steps), SubSeq(ran, cut[n - 1] + 1, last))
  BY <1>1, <1>2, <1>3, <1>6 DEF Fits, Finished, StepStarted
<1>8. ran \in Seq(Names)
  BY <1>0, FramesAreLoops
<1>9. \A i \in 1..n : /\ frames[i].job \in Jobs /\ frames[i].steps \in AnyBody
                      /\ frames[i].begun \in Nat /\ frames[i].begun <= Len(frames[i].steps)
                      /\ frames[i].steps \in Seq(Step)
  BY <1>0, FramesAreLoops
<1> HIDE DEF n
<1>10. CASE n = 1
  <2>1. SubSeq(ran, 1, last) = ran
    BY <1>5, <1>8, SubSeqFull
  <2>2. cut[n - 1] + 1 = 1
    BY <1>6, <1>10
  <2>3. SubSeq(ran, cut[n - 1] + 1, last) = ran
    BY <2>1, <2>2
  <2>4. Inner.steps \in Readable[Top]
    <3>1. Inner = frames[1] /\ 1 \in 1..n
      BY <1>1, <1>10
    <3> QED BY <1>4, <3>1
  <2>5. Done(MaxDepth - 1, Readable, Inner.steps, Len(Inner.steps), ran)
    BY <1>7, <1>10, <2>3
  <2>6. MaxDepth \in 1..MaxDepth
    BY StepsAssumption
  <2>7. ran \in Traces[Top]
    BY <2>4, <2>5, <2>6, WithinIs, StepsAssumption DEF Done, Leaves, Traces
  <2>8. Traces' = Traces
    BY <1>2, TablesRest DEF Traces
  <2> QED BY <1>2, <1>10, <2>7, <2>8, TablesRest DEF WalkInv, SuccessRanWholeJob, Linked,
             Accounted, Going
<1>11. CASE n # 1
  <2>1. /\ n - 1 \in Nat \ {0} /\ n - 1 \in 1..n - 1 /\ n - 1 \in 1..n /\ n - 1 \in 0..n
        /\ n - 2 \in 0..n
    BY <1>1, <1>11
  <2> DEFINE outer == frames[n - 1]
             t == SubSeq(ran, cut[n - 2] + 1, cut[n - 1])
             u == SubSeq(ran, cut[n - 1] + 1, last)
  <2>2. Linked'
    <3>1. \A i \in 1..n - 1 - 1 : RefersTo(frames'[i], frames'[i + 1].job)
      <4>1. ASSUME NEW i \in 1..n - 1 - 1
            PROVE  RefersTo(frames'[i], frames'[i + 1].job)
        <5>1. i \in 1..n - 1 /\ i + 1 \in 1..n - 1
          BY <1>1
        <5> QED BY <1>1, <1>4, <5>1
      <4> QED BY <4>1
    <3>2. \A i \in 1..n - 1 : frames'[i].steps \in Readable[frames'[i].job]
      BY <1>1, <1>4
    <3>3. frames'[1].job = Top
      BY <1>1, <1>4, <2>1
    <3>4. pc' = "next"
      BY <1>2, <1>11
    <3> QED BY <1>1, <1>2, <3>1, <3>2, <3>3, <3>4 DEF Linked, RefersTo, Readable, tables
  <2>3. Done(MaxDepth - (n - 1), Readable, outer.steps, outer.begun,
             SubSeq(ran, cut[n - 2] + 1, last))
    <3>1. /\ RefersTo(outer, Inner.job) /\ Inner.steps \in Readable[Inner.job]
          /\ outer.begun - 1 \in 0..Len(outer.steps) - 1
      <4>1. RefersTo(frames[n - 1], frames[n - 1 + 1].job) /\ n - 1 + 1 = n
        BY <1>1, <1>4, <2>1
      <4>2. RefersTo(outer, Inner.job) /\ outer.begun > 0
        BY <1>1, <4>1 DEF RefersTo
      <4> QED BY <1>1, <1>4, <1>9, <2>1, <4>2
    <3>2. Finished(n - 1) = outer.begun - 1
      BY <1>1 DEF Finished, n
    <3>3. Done(MaxDepth - (n - 1), Readable, outer.steps, outer.begun - 1, t)
      <4>1. Done(MaxDepth - (n - 1), Readable, frames[n - 1].steps, Finished(n - 1),
                 SubSeq(ran, cut[n - 1 - 1] + 1, cut[n - 1]))
        BY <1>3, <2>1 DEF Fits, n
      <4>2. n - 1 - 1 = n - 2
        BY <1>1
      <4> QED BY <3>2, <4>1, <4>2
    <3>4. /\ cut[n - 2] \in 0..last /\ cut[n - 1] \in 0..last /\ cut[n - 2] <= cut[n - 1]
      <4>1. n - 1 - 1 = n - 2
        BY <1>1
      <4> QED BY <1>6, <2>1, <4>1
    <3>5. t \in Seq(Names) /\ u \in Seq(Names)
      <4>1. \A i \in 1..last : ran[i] \in Names
        BY <1>5, <1>8
      <4>2. \A i \in cut[n - 2] + 1..cut[n - 1] : ran[i] \in Names
        BY <3>4, <4>1
      <4>3. \A i \in cut[n - 1] + 1..last : ran[i] \in Names
        BY <3>4, <4>1
      <4> QED BY <1>5, <3>4, <4>2, <4>3, SubSeqProperties
    <3>6. t \o u = SubSeq(ran, cut[n - 2] + 1, last)
      <4> DEFINE p == cut[n - 2] + 1
                 q == cut[n - 1]
      <4>2. p \in 1..Len(ran) + 1 /\ q \in p - 1..Len(ran) /\ last \in q..Len(ran)
        BY <1>5, <3>4
      <4> HIDE DEF p, q
      <4>3. SubSeq(ran, p, q) \o SubSeq(ran, q + 1, last) = SubSeq(ran, p, last)
        BY <1>8, <4>2, ConcatAdjacentSubSeq
      <4> QED BY <4>3 DEF p, q
    <3>7. outer.begun - 1 + 1 = outer.begun
      BY <1>9, <2>1
    <3>8. Done(MaxDepth - (n - 1), Readable, outer.steps, outer.begun, t \o u)
      <4>1. /\ outer.steps[outer.begun].type = "job-ref" /\ outer.steps[outer.begun].id = Inner.job
        BY <3>1 DEF RefersTo
      <4>2. outer.steps \in AnyBody /\ outer.begun \in 1..Len(outer.steps)
        BY <1>9, <2>1, <3>1
      <4>3. MaxDepth - (n - 1) \in 1..MaxDepth /\ MaxDepth - (n - 1) - 1 = MaxDepth - n
        <5>1. n <= MaxDepth
          BY <1>0 DEF TypeOK, n
        <5> QED BY <1>1, <5>1, StepsAssumption
      <4> DEFINE d == MaxDepth - (n - 1)
      <4>4. /\ Done(d, Readable, outer.steps, outer.begun - 1, t)
            /\ Done(d - 1, Readable, Inner.steps, Len(Inner.steps), u)
        BY <1>7, <3>3, <4>3
      <4>5. d \in 1..MaxDepth
        BY <4>3
      <4> HIDE DEF t, u, d, outer
      <4>6. Done(d, Readable, outer.steps, outer.begun, t \o u)
        BY <3>1, <4>1, <4>2, <4>4, <4>5, DoneReference
      <4> QED BY <4>6 DEF d
    <3> QED BY <3>6, <3>8
  <2>4. PICK new \in [0..n - 1 -> 0..last] :
          new[n - 1] = last /\ \A i \in 0..n - 2 : new[i] = cut[i]
    <3> DEFINE f == [i \in 0..n - 1 |-> IF i = n - 1 THEN last ELSE cut[i]]
    <3>1. f \in [0..n - 1 -> 0..last] /\ f[n - 1] = last /\ \A i \in 0..n - 2 : f[i] = cut[i]
      BY <1>1, <1>5, <1>6, <2>1
    <3> QED BY <3>1
  <2>5. new[0] = 0 /\ \A i \in 1..n - 1 : new[i - 1] <= new[i]
    <3>1. new[0] = 0
      BY <1>1, <1>6, <1>11, <2>4
    <3>2. ASSUME NEW i \in 1..n - 1
          PROVE  new[i - 1] <= new[i]
      <4>1. i - 1 \in 0..n - 2 /\ i \in 1..n /\ new[i - 1] = cut[i - 1]
        BY <1>1, <2>4
      <4>2. CASE i = n - 1
        BY <1>5, <1>6, <2>4, <4>1, <4>2
      <4>3. CASE i # n - 1
        <5>1. i \in 0..n - 2
          BY <1>1, <4>3
        <5> QED BY <1>6, <2>4, <4>1, <5>1
      <4> QED BY <4>2, <4>3
    <3> QED BY <3>1, <3>2
  <2>6. ASSUME NEW i \in 1..n - 1
        PROVE  Done(MaxDepth - i, Readable, frames[i].steps, Finished(i),
                    SubSeq(ran, new[i - 1] + 1, new[i]))'
    <3>1. CASE i = n - 1
      <4>1. i - 1 = n - 2 /\ i - 1 \in 0..n - 2
        BY <1>1, <2>1, <3>1
      <4>2. frames'[i] = outer /\ new[i - 1] = cut[n - 2] /\ new[i] = last
        BY <1>1, <2>4, <3>1, <4>1
      <4>3. Finished(i)' = outer.begun
        BY <1>1, <1>2, <1>11, <3>1, <4>2 DEF Finished, StepStarted
      <4> QED BY <1>2, <2>3, <3>1, <4>2, <4>3, TablesRest
    <3>2. CASE i # n - 1
      <4>1. i \in 1..n /\ i - 1 \in 0..n - 2 /\ i \in 0..n - 2 /\ i # n
        BY <1>1, <3>2
      <4>2. frames'[i] = frames[i] /\ new[i - 1] = cut[i - 1] /\ new[i] = cut[i]
        BY <1>1, <2>4, <4>1
      <4>3. Finished(i)' = Finished(i)
        BY <1>1, <3>2, <4>1, <4>2 DEF Finished, n
      <4>4. Done(MaxDepth - i, Readable, frames[i].steps, Finished(i),
                 SubSeq(ran, cut[i - 1] + 1, cut[i]))
        BY <1>3, <4>1 DEF Fits, n
      <4> QED BY <1>2, <4>2, <4>3, <4>4, TablesRest
    <3> QED BY <3>1, <3>2
  <2>7. new \in Cuts' /\ Fits(new)'
    BY <1>1, <1>2, <1>5, <2>4, <2>5, <2>6 DEF Cuts, Fits
  <2> QED BY <1>2, <1>11, <2>2, <2>7, TablesRest DEF WalkInv, SuccessRanWholeJob, Accounted
<1> QED BY <1>10, <1>11

\* A start adds to the last piece and leaves the others as they were.
LEMMA PiecesOfAppend ==
  ASSUME NEW S, NEW s \in Seq(S), NEW e \in S, NEW m \in 1..Len(s) + 1
  PROVE  /\ \A k \in 0..Len(s) : SubSeq(Append(s, e), m, k) = SubSeq(s, m, k)
         /\ SubSeq(Append(s, e), m, Len(s) + 1) = Append(SubSeq(s, m, Len(s)), e)
<1> DEFINE a == Append(s, e)
           z == Len(s)
<1>1. /\ z \in Nat /\ m \in 1..z + 1 /\ a \in Seq(S) /\ Len(a) = z + 1
      /\ \A i \in 1..z : a[i] = s[i] /\ a[i] \in S /\ s[i] \in S
      /\ a[z + 1] = e
  BY AppendProperties
<1> HIDE DEF a
<1>2. ASSUME NEW k \in 0..z
      PROVE  SubSeq(a, m, k) = SubSeq(s, m, k)
  <2> DEFINE x == SubSeq(a, m, k)
             y == SubSeq(s, m, k)
  <2>0. /\ \A i \in m..k : a[i] \in S /\ s[i] \in S /\ a[i] = s[i]
        /\ m \in Int /\ k \in Int
    BY <1>1
  <2>1. /\ x \in Seq(S) /\ Len(x) = IF m <= k THEN k - m + 1 ELSE 0
        /\ \A i \in 1..k - m + 1 : x[i] = a[m + i - 1]
    BY <2>0, SubSeqProperties
  <2>2. /\ y \in Seq(S) /\ Len(y) = IF m <= k THEN k - m + 1 ELSE 0
        /\ \A i \in 1..k - m + 1 : y[i] = s[m + i - 1]
    BY <2>0, SubSeqProperties
  <2>3. \A i \in 1..k - m + 1 : a[m + i - 1] = s[m + i - 1]
    BY <1>1
  <2> HIDE DEF x, y
  <2>4. Len(x) = Len(y) /\ \A i \in 1..Len(x) : x[i] = y[i]
    <3>1. Len(x) = Len(y) /\ Len(x) = IF m <= k THEN k - m + 1 ELSE 0
      BY <2>1, <2>2
    <3>2. \A i \in 1..Len(x) : i \in 1..k - m + 1
      BY <1>1, <3>1
    <3> QED BY <2>1, <2>2, <2>3, <3>1, <3>2
  <2>5. x = y
    BY <2>1, <2>2, <2>4, SeqEqual
  <2> QED BY <2>5 DEF x, y
<1>3. SubSeq(a, m, z + 1) = SubSeq(a, m, z) \o <<e>>
  <2>1. CASE m = z + 1
    <3>1. SubSeq(a, m, z) = <<>>
      BY <1>1, <2>1, SubSeqEmpty
    <3>2. SubSeq(a, z + 1, z + 1) = <<a[z + 1]>> \o SubSeq(a, z + 2, z + 1)
      BY <1>1, SubSeqRecursiveFirst
    <3>3. SubSeq(a, z + 2, z + 1) = <<>>
      BY <1>1, SubSeqEmpty
    <3> QED BY <1>1, <2>1, <3>1, <3>2, <3>3
  <2>2. CASE m # z + 1
    BY <1>1, <2>2, SubSeqRecursiveSecond
  <2> QED BY <2>1, <2>2
<1>4. SubSeq(s, m, z) \in Seq(S)
  BY <1>1, SubSeqProperties
<1>5. SubSeq(a, m, z + 1) = Append(SubSeq(s, m, z), e)
  <2> DEFINE y == SubSeq(s, m, z)
  <2>1. SubSeq(a, m, z + 1) = y \o <<e>>
    <3>1. z \in 0..z
      BY <1>1
    <3>2. SubSeq(a, m, z) = SubSeq(s, m, z)
      BY <1>2, <3>1
    <3> QED BY <1>3, <3>2
  <2> HIDE DEF y
  <2>2. Append(y, e) = y \o <<e>>
    BY <1>4, AppendIsConcat DEF y
  <2> QED BY <2>1, <2>2 DEF y
<1> QED BY <1>2, <1>5 DEF a

\* A step that is started on the host is behind its loop if it does not fail.
LEMMA WalkStarts ==
  ASSUME WalkInv, ScriptInv', RunCommand \/ CopyFile \/ RunScript
  PROVE  WalkInv'
<1> DEFINE n == Len(frames)
<1>0. TypeInv /\ TypeOK /\ Linked /\ DeletedIsEmpty /\ Accounted /\ SuccessRanWholeJob
  BY DEF WalkInv, ScriptInv, TypeInv
<1>1. /\ pc \in {"command", "file-copy", "script"} /\ pc' \in {"next", "rm", "err"}
      /\ UNCHANGED <<tables, frames, loading>>
      /\ Going' => StartOnHost /\ StepStarted'
  BY DEF RunCommand, CopyFile, RunScript, Attempt, Going, StepStarted
<1>2. Linked'
  BY <1>0, <1>1 DEF Linked, RefersTo, Readable, tables
<1>3. Accounted'
  <2> SUFFICES ASSUME Going'
               PROVE  \E cut \in Cuts' : Fits(cut)'
    BY DEF Accounted
  <2>1. /\ n \in Nat \ {0} /\ Inner = frames[n] /\ Inner.begun \in Nat /\ Inner.begun > 0
        /\ Inner.begun <= Len(Inner.steps) /\ Inner.steps \in AnyBody
        /\ Current = Inner.steps[Inner.begun] /\ Current.type \in Remote
        /\ ran \in Seq(Names)
    <3>1. frames # <<>> /\ Inner.begun > 0 /\ Current.type \in Remote
      BY <1>0, <1>1 DEF TypeInv, InLoop
    <3> QED BY <1>0, <3>1, InnerLoop, FramesAreLoops DEF Current
  <2>2. Current.id \in Names
    BY <2>1, StepOfBody
  <2>3. PICK cut \in Cuts : Fits(cut)
    BY <1>0, <1>1 DEF Accounted, Going
  <2>4. PICK last \in Nat : last = Len(ran)
    BY <2>1
  <2>5. /\ cut \in [0..n -> 0..last] /\ cut[n] = last /\ cut[0] = 0
        /\ \A i \in 1..n : cut[i - 1] <= cut[i]
    BY <2>3, <2>4 DEF Cuts, Fits
  <2>6. ran' = Append(ran, Current.id) /\ Len(ran') = last + 1
    BY <1>1, <2>1, <2>2, <2>4, AppendProperties DEF StartOnHost
  <2> HIDE DEF n
  <2>7. PICK new \in [0..n -> 0..last + 1] :
          new[n] = last + 1 /\ \A i \in 0..n - 1 : new[i] = cut[i]
    <3> DEFINE f == [i \in 0..n |-> IF i = n THEN last + 1 ELSE cut[i]]
    <3>1. f \in [0..n -> 0..last + 1] /\ f[n] = last + 1 /\ \A i \in 0..n - 1 : f[i] = cut[i]
      BY <2>1, <2>4, <2>5
    <3> QED BY <3>1
  <2>8. new[0] = 0
    BY <2>1, <2>5, <2>7
  <2>9. ASSUME NEW i \in 1..n
        PROVE  new[i - 1] <= new[i]
    <3>1. i - 1 \in 0..n - 1 /\ new[i - 1] = cut[i - 1] /\ cut[i - 1] \in 0..last
      BY <2>1, <2>5, <2>7
    <3>2. CASE i = n
      BY <2>4, <2>7, <3>1, <3>2
    <3>3. CASE i # n
      <4>1. i \in 0..n - 1
        BY <2>1, <3>3
      <4> QED BY <2>5, <2>7, <3>1, <4>1
    <3> QED BY <3>2, <3>3
  <2>10. ASSUME NEW i \in 1..n
         PROVE  Done(MaxDepth - i, Readable, frames[i].steps, Finished(i),
                     SubSeq(ran, new[i - 1] + 1, new[i]))'
    <3>0. /\ i - 1 \in 0..n - 1 /\ new[i - 1] = cut[i - 1]
          /\ cut[i - 1] \in 0..last /\ cut[i - 1] + 1 \in 1..Len(ran) + 1
      BY <2>1, <2>4, <2>5, <2>7
    <3>1. Done(MaxDepth - i, Readable, frames[i].steps, Finished(i),
               SubSeq(ran, cut[i - 1] + 1, cut[i]))
      BY <2>3 DEF Fits, n
    <3>2. CASE i = n
      <4> DEFINE b == Inner.steps
                 m == Inner.begun - 1
                 t == SubSeq(ran, cut[n - 1] + 1, last)
      <4>1. /\ Done(MaxDepth - n, Readable, b, m, t)
            /\ Finished(i)' = m + 1
        <5>1. Finished(i) = m
          BY <1>1, <2>1, <3>2 DEF Finished, StepStarted, n
        <5>2. Finished(i)' = m + 1
          BY <1>1, <2>1, <3>2 DEF Finished, n
        <5> QED BY <2>1, <2>5, <3>1, <3>2, <5>1, <5>2
      <4>2. t \in Seq(Names)
        <5>1. \A k \in cut[n - 1] + 1..last : ran[k] \in Names
          BY <2>1, <2>4, <3>0, <3>2
        <5> QED BY <2>4, <3>0, <3>2, <5>1, SubSeqProperties
      <4>3. b \in AnyBody /\ m \in 0..Len(b) - 1 /\ b[m + 1] = Current /\ m + 1 = Inner.begun
        <5>1. b \in Seq(Step) /\ Len(b) \in Nat
          BY <2>1, BodiesAreLists
        <5>2. m + 1 = Inner.begun /\ m \in 0..Len(b) - 1
          <6>1. Inner.begun \in Nat /\ Inner.begun > 0 /\ Inner.begun <= Len(b)
            BY <2>1
          <6> HIDE DEF b
          <6> QED BY <5>1, <6>1
        <5>3. b[m + 1] = Current
          BY <2>1, <5>2
        <5> QED BY <2>1, <5>2, <5>3
      <4>4. SubSeq(ran', new[i - 1] + 1, new[i]) = Append(t, Current.id)
        <5>1. cut[n - 1] + 1 \in 1..Len(ran) + 1 /\ new[i - 1] = cut[n - 1] /\ new[i] = Len(ran) + 1
          BY <2>4, <2>7, <3>0, <3>2
        <5> DEFINE p == cut[n - 1] + 1
        <5>2. p \in 1..Len(ran) + 1
          BY <5>1
        <5> HIDE DEF p
        <5>3. SubSeq(Append(ran, Current.id), p, Len(ran) + 1) =
                Append(SubSeq(ran, p, Len(ran)), Current.id)
          <6>1. ran \in Seq(Names)
            BY <2>1
          <6> QED BY <2>2, <5>2, <6>1, PiecesOfAppend
        <5> QED BY <2>4, <2>6, <5>1, <5>3 DEF p
      <4>5. Done(MaxDepth - n, Readable, b, m + 1, Append(t, Current.id))
        <5>1. m + 1 \in 1..Len(b) /\ m + 1 - 1 = m
          BY <4>3
        <5> DEFINE k == m + 1
        <5>2. /\ k \in 1..Len(b) /\ b \in AnyBody /\ b[k] = Current /\ b[k].type \in Remote
              /\ Done(MaxDepth - n, Readable, b, k - 1, t)
          BY <2>1, <4>1, <4>3, <5>1
        <5> HIDE DEF b, k, t
        <5>3. Done(MaxDepth - n, Readable, b, k, Append(t, b[k].id))
          BY <4>2, <5>2, DoneOnHost
        <5> QED BY <5>2, <5>3 DEF k
      <4>7. frames'[i].steps = b
        BY <1>1, <2>1, <3>2
      <4> QED BY <1>1, <3>2, <4>1, <4>4, <4>5, <4>7, TablesRest
    <3>3. CASE i # n
      <4>1. i \in 0..n - 1 /\ new[i] = cut[i] /\ cut[i] \in 0..Len(ran)
        BY <2>1, <2>4, <2>5, <2>7, <3>3
      <4>2. SubSeq(ran', new[i - 1] + 1, new[i]) = SubSeq(ran, cut[i - 1] + 1, cut[i])
        <5> DEFINE p == cut[i - 1] + 1
                   k == cut[i]
        <5>1. p \in 1..Len(ran) + 1 /\ k \in 0..Len(ran) /\ new[i - 1] + 1 = p /\ new[i] = k
          BY <3>0, <4>1
        <5> HIDE DEF p, k
        <5>2. SubSeq(Append(ran, Current.id), p, k) = SubSeq(ran, p, k)
          <6>1. ran \in Seq(Names)
            BY <2>1
          <6> QED BY <2>2, <5>1, <6>1, PiecesOfAppend
        <5> QED BY <2>6, <5>1, <5>2 DEF p, k
      <4>3. Finished(i)' = Finished(i) /\ frames' = frames
        BY <1>1, <3>3 DEF Finished, n
      <4> QED BY <1>1, <3>1, <4>2, <4>3, TablesRest
    <3> QED BY <3>2, <3>3
  <2>11. new \in Cuts' /\ Fits(new)'
    BY <1>1, <2>6, <2>7, <2>8, <2>9, <2>10 DEF Cuts, Fits, n
  <2> QED BY <2>11
<1> QED BY <1>1, <1>2, <1>3, TablesRest DEF WalkInv, SuccessRanWholeJob

LEMMA WalkAlways == Spec => []WalkInv
<1>1. ScriptInv /\ [Next]_vars => ScriptInv'
  BY TypeStep, ScriptStep DEF ScriptInv
<1>2. WalkInv /\ [Next]_vars => WalkInv'
  <2> SUFFICES ASSUME WalkInv, [Next]_vars
               PROVE  WalkInv'
    OBVIOUS
  <2>1. ScriptInv'
    BY <1>1 DEF WalkInv
  <2> QED BY <2>1, WalkAround, WalkOpens, WalkBegins, WalkReturns, WalkStarts DEF Next, Walk
<1> QED BY <1>2, WalkInit, PTL DEF Spec

\* A run that succeeds has left a trace of its job: all of the steps of lists the job
\* and those it refers to have had, in order, and nothing else.
THEOREM SuccessIsWhole == Spec => []SuccessRanWholeJob
<1>1. WalkInv => SuccessRanWholeJob
  BY DEF WalkInv
<1> QED BY <1>1, WalkAlways, PTL

\* A sequence that is cut into pieces is a chain of what the pieces are taken from.
LEMMA PiecesChain ==
  ASSUME NEW P, Len(P) \in Nat, NEW S, NEW s \in Seq(S), NEW cut \in [0..Len(P) -> 0..Len(s)],
         cut[0] = 0, cut[Len(P)] = Len(s),
         \A i \in 1..Len(P) : cut[i - 1] <= cut[i] /\ SubSeq(s, cut[i - 1] + 1, cut[i]) \in P[i]
  PROVE  s \in Chain(P)[Len(P)]
<1> DEFINE T == {i \in 0..Len(P) : SubSeq(s, 1, cut[i]) \notin Chain(P)[i]}
<1>1. T = {}
  <2> SUFFICES ASSUME T # {}
               PROVE  FALSE
    OBVIOUS
  <2>1. PICK i \in T : \A y \in T : i <= y
    <3>1. T \in SUBSET Nat
      OBVIOUS
    <3> HIDE DEF T
    <3> QED BY <3>1, Smallest
  <2>2. i # 0
    <3>1. SubSeq(s, 1, 0) = <<>>
      BY SubSeqEmpty
    <3> QED BY <2>1, <3>1, ChainIs
  <2>3. i \in 1..Len(P) /\ i - 1 \in 0..Len(P) /\ ~ i <= i - 1
    BY <2>1, <2>2
  <2>4. SubSeq(s, 1, cut[i - 1]) \in Chain(P)[i - 1]
    BY <2>1, <2>3
  <2>5. SubSeq(s, 1, cut[i - 1]) \o SubSeq(s, cut[i - 1] + 1, cut[i]) = SubSeq(s, 1, cut[i])
    <3> DEFINE k == cut[i - 1]
               n == cut[i]
    <3>1. k \in 0..Len(s) /\ n \in 0..Len(s) /\ k <= n /\ Len(s) \in Nat
      BY <2>3
    <3> HIDE DEF k, n
    <3>2. SubSeq(s, 1, k) \o SubSeq(s, k + 1, n) = SubSeq(s, 1, n)
      <4>1. 1 \in 1..Len(s) + 1 /\ k \in 1 - 1..Len(s) /\ n \in k..Len(s)
        BY <3>1
      <4> QED BY <4>1, ConcatAdjacentSubSeq
    <3> QED BY <3>2 DEF k, n
  <2>6. Chain(P)[i] = Cat(Chain(P)[i - 1], P[i])
    BY <2>3, ChainIs
  <2>7. SubSeq(s, 1, cut[i]) \in Chain(P)[i]
    <3>1. SubSeq(s, cut[i - 1] + 1, cut[i]) \in P[i]
      BY <2>3
    <3>2. SubSeq(s, 1, cut[i - 1]) \o SubSeq(s, cut[i - 1] + 1, cut[i])
            \in Cat(Chain(P)[i - 1], P[i])
      BY <2>4, <3>1, InCat
    <3> QED BY <2>5, <2>6, <3>2
  <2> QED BY <2>1, <2>7
<1>2. Len(P) \in 0..Len(P)
  OBVIOUS
<1>3. SubSeq(s, 1, Len(s)) = s
  BY SubSeqFull
<1> QED BY <1>1, <1>2, <1>3

\* Between two steps every start on the host is accounted for, in order, by what the
\* loops in progress have behind them.
THEOREM StartsAreAccounted == Spec => []LoopsAccountForStarts
<1>1. ASSUME WalkInv, pc = "next"
      PROVE  LoopsAccountForStarts
  <2> DEFINE n == Len(frames)
             piece == [i \in 1..n |-> Chain(Parts(Traces, frames[i].steps))[Behind(i)]]
  <2>1. Going /\ TypeInv /\ TypeOK
    BY <1>1 DEF WalkInv, ScriptInv, TypeInv, Going
  <2>2. PICK cut \in Cuts : Fits(cut)
    BY <1>1, <2>1 DEF WalkInv, Accounted
  <2>3. ASSUME NEW i \in 1..n
        PROVE  SubSeq(ran, cut[i - 1] + 1, cut[i]) \in piece[i]
    <3>1. Finished(i) = Behind(i)
      BY <1>1 DEF Finished, Behind, StepStarted
    <3>2. Done(MaxDepth - i, Readable, frames[i].steps, Behind(i),
               SubSeq(ran, cut[i - 1] + 1, cut[i]))
      BY <2>2, <3>1 DEF Fits
    <3>3. /\ MaxDepth - i \in 0..MaxDepth /\ MaxDepth \in MaxDepth - i..MaxDepth
          /\ frames[i].steps \in AnyBody /\ Behind(i) \in 0..Len(frames[i].steps)
      BY <1>1, <2>1, <3>1, FinishedWithin, StepsAssumption
    <3>4. Done(MaxDepth, Readable, frames[i].steps, Behind(i), SubSeq(ran, cut[i - 1] + 1, cut[i]))
      BY <2>1, <3>2, <3>3, ListsAreBodies, DoneStays
    <3> QED BY <3>4 DEF Done, Traces
  <2>4. n \in Nat /\ Len(piece) = n /\ ran \in Seq(Names)
    BY <2>1, FramesAreLoops
  <2>5. /\ cut \in [0..n -> 0..Len(ran)] /\ cut[0] = 0 /\ cut[n] = Len(ran)
        /\ \A i \in 1..n : cut[i - 1] <= cut[i]
    BY <2>2 DEF Cuts, Fits
  <2> HIDE DEF n, piece
  <2>6. ran \in Chain(piece)[n]
    BY <2>3, <2>4, <2>5, PiecesChain
  <2> QED BY <2>6 DEF LoopsAccountForStarts, n, piece
<1>2. WalkInv => LoopsAccountForStarts
  BY <1>1 DEF LoopsAccountForStarts
<1> QED BY <1>2, WalkAlways, PTL
=============================================================================
