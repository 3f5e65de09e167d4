---------------------------- MODULE HostTrustProofs ----------------------------
(***************************************************************************)
(* Proofs about HostTrust: whatever the number of commands, connections,   *)
(* addresses and keys, no more of the keys that were added are missing     *)
(* than commands failed in the middle of a line, a connection is accepted  *)
(* only under a key that somebody was asked about, and never turned away   *)
(* over one that had been added and was there.                             *)
(***************************************************************************)
EXTENDS HostTrust, FiniteSetTheorems, TLAPS

\* Commands go through the scan, connections through the handshake; both name an address.
Named ==
  /\ \A p \in Processes : ~At(p, "idle") => process[p].addr \in Addresses
  /\ \A p \in Commands : ~At(p, "handshake")
  /\ \A p \in Calls : ~At(p, "scan") /\ ~At(p, "ask")

\* A command at work on the file has the key it was told to trust.
Asked ==
  \A p \in Commands :
    /\ At(p, "ask") => process[p].key \in Keys
    /\ At(p, "stat") \/ At(p, "create") \/ At(p, "open") =>
         <<process[p].addr, process[p].key>> \in recorded

HostTypeInv == TypeOK /\ Named /\ Asked /\ lines \subseteq recorded \cup {Torn, Garbled}

LEMMA NoTrustUnreadable == Torn \notin Trust /\ Garbled \notin Trust /\ Torn # Garbled
  BY HostTrustAssumption DEF Torn, Garbled, Trust

\* The file and the processes keep to their types, and whoever touches the file knows
\* what for.
LEMMA TypeInit == Init => HostTypeInv
<1> SUFFICES ASSUME Init PROVE HostTypeInv
    OBVIOUS
<1> USE DEF Init, Idle, At, Processes
<1>1. TypeOK
      BY DEF TypeOK
<1>2. Named /\ Asked
      BY DEF Named, Asked
<1>3. lines \subseteq recorded \cup {Torn, Garbled}
      OBVIOUS
<1> QED BY <1>1, <1>2, <1>3 DEF HostTypeInv

LEMMA TypeStep == HostTypeInv /\ [Next]_vars => HostTypeInv'
<1> SUFFICES ASSUME HostTypeInv, [Next]_vars PROVE HostTypeInv'
    OBVIOUS
<1> USE HostTrustAssumption DEF HostTypeInv, TypeOK, Named, Asked, At, GoTo, Processes
<1>1. ASSUME NEW p \in Processes, Stat(p) PROVE HostTypeInv'
      BY <1>1 DEF Stat
<1>2. ASSUME NEW p \in Processes, Create(p) PROVE HostTypeInv'
  <2>1. CASE exists' = TRUE /\ GoTo(p, "open")
        BY <1>2, <2>1 DEF Create
  <2>2. CASE GoTo(p, "failed") /\ UNCHANGED exists
        BY <1>2, <2>2 DEF Create
  <2> QED BY <1>2, <2>1, <2>2 DEF Create
<1>3. ASSUME NEW p \in Processes, ScanHostKey(p) PROVE HostTypeInv'
      BY <1>3 DEF ScanHostKey
<1>4. ASSUME NEW p \in Processes, Answer(p) PROVE HostTypeInv'
      BY <1>4 DEF Answer, Trust
<1>5. ASSUME NEW p \in Processes, AddHostKey(p) PROVE HostTypeInv'
  <2> DEFINE line == <<process[p].addr, process[p].key>>
  <2>1. p \in Commands /\ At(p, "open") /\ line \in recorded
        BY <1>5 DEF AddHostKey
  <2>2. line \in Trust
        BY <2>1
  <2>3. CASE GoTo(p, "ok") /\ lines' \in Appended(line) /\ trusted' = trusted \cup {line}
             /\ UNCHANGED torn
        BY <1>5, <2>1, <2>2, <2>3 DEF AddHostKey, Appended
  <2>4. CASE GoTo(p, "failed") /\ UNCHANGED <<lines, trusted, torn>>
        BY <1>5, <2>1, <2>4 DEF AddHostKey
  <2>5. CASE GoTo(p, "failed") /\ lines' = lines \cup {Torn} /\ torn' = torn + 1
             /\ UNCHANGED trusted
        BY <1>5, <2>1, <2>5 DEF AddHostKey
  <2> QED BY <1>5, <2>3, <2>4, <2>5 DEF AddHostKey
<1>6. ASSUME NEW p \in Processes, GetHostKeyCallback(p) PROVE HostTypeInv'
  <2>1. CASE {Torn, Garbled} \cap lines # {}
        BY <1>6, <2>1 DEF GetHostKeyCallback
  <2>2. CASE {Torn, Garbled} \cap lines = {}
    <3>1. lines \in SUBSET Trust
          BY <2>2
    <3>2. process' = [process EXCEPT ![p].pc = "handshake", ![p].known = lines]
          BY <1>6, <2>2 DEF GetHostKeyCallback
    <3>3. TypeOK'
      <4>1. process' \in [Processes -> [pc : {"idle", "scan", "ask", "stat", "create", "open",
                                              "handshake", "ok", "rejected", "failed",
                                              "unreadable", "unknown", "mismatch"},
                                        addr : Addresses \cup {None}, key : Keys \cup {None},
                                        known : SUBSET Trust, before : SUBSET Trust]]
            BY <3>1, <3>2, Z3
      <4> QED BY <1>6, <3>2, <4>1 DEF GetHostKeyCallback
    <3>4. Named' /\ Asked'
          BY <1>6, <3>2 DEF GetHostKeyCallback
    <3> QED BY <1>6, <3>3, <3>4 DEF GetHostKeyCallback
  <2> QED BY <2>1, <2>2
<1>7. ASSUME NEW p \in Processes, Handshake(p) PROVE HostTypeInv'
      BY <1>7 DEF Handshake, Verdict
<1>8. ASSUME NEW p \in Processes, NEW a \in Addresses, Connect(p, a) PROVE HostTypeInv'
      BY <1>8 DEF Connect, Idle
<1>9. ASSUME NEW p \in Processes, NEW a \in Addresses, Begin(p, a) PROVE HostTypeInv'
      BY <1>9 DEF Begin, Idle
<1>10. ASSUME NEW a \in Addresses, NEW key \in Keys, Rotate(a, key) PROVE HostTypeInv'
      BY <1>10 DEF Rotate
<1>11. CASE Repair
      BY <1>11 DEF Repair
<1>12. CASE UNCHANGED vars
      BY <1>12 DEF vars
<1> QED
    BY <1>1, <1>2, <1>3, <1>4, <1>5, <1>6, <1>7, <1>8, <1>9, <1>10, <1>11, <1>12
    DEF Next, Command, Connection

\* Every value of the variables is one of the known_hosts file and of the commands and
\* connections that use it (knownhosts.go, cmd/gruntdeck).
THEOREM TypeCorrect == Spec => []TypeOK
<1>1. Spec => []HostTypeInv
      BY TypeInit, TypeStep, PTL DEF Spec
<1> QED BY <1>1, PTL DEF HostTypeInv

----------------------------------------------------------------------------
(* What was added stays. *)

\* The keys that were reported as added and are not in the file.
Missing == trusted \ lines

\* They are never more than the commands that failed in the middle of a line, one of which
\* is still to cost a key while its torn line is the last one; and without such a command
\* every line can be parsed.
Accounted ==
  /\ IsFiniteSet(Missing)
  /\ Cardinality(Missing) + (IF Torn \in lines THEN 1 ELSE 0) <= torn
  /\ {Torn, Garbled} \cap lines # {} => torn > 0

LEMMA AccountedInit == Init => Accounted
  BY FS_EmptySet DEF Init, Accounted, Missing

\* A step that leaves as many keys missing and no more of a torn line than before.
LEMMA NoneMissed ==
  ASSUME HostTypeInv, Accounted, Missing' = Missing, torn' = torn,
         {Torn, Garbled} \cap lines' \subseteq {Torn, Garbled} \cap lines
  PROVE  Accounted'
<1>1. Cardinality(Missing) \in Nat /\ torn \in Nat
      BY FS_CardinalityType DEF Accounted, HostTypeInv, TypeOK
<1> QED BY <1>1 DEF Accounted

\* One element makes a difference of one at most.
LEMMA CountOne ==
  ASSUME NEW S, NEW x, IsFiniteSet(S)
  PROVE  /\ Cardinality(S) \in Nat
         /\ IsFiniteSet(S \cup {x}) /\ Cardinality(S \cup {x}) <= Cardinality(S) + 1
         /\ IsFiniteSet(S \ {x}) /\ Cardinality(S \ {x}) <= Cardinality(S)
<1>1. Cardinality(S) \in Nat
      BY FS_CardinalityType
<1>2. /\ IsFiniteSet(S \cup {x})
      /\ Cardinality(S \cup {x}) = IF x \in S THEN Cardinality(S) ELSE Cardinality(S) + 1
      BY FS_AddElement
<1>3. /\ IsFiniteSet(S \ {x})
      /\ Cardinality(S \ {x}) = IF x \in S THEN Cardinality(S) - 1 ELSE Cardinality(S)
      BY FS_RemoveElement
<1> QED BY <1>1, <1>2, <1>3

\* Adding a key: behind a torn line it is the one that this line costs.
LEMMA AccountedAdd ==
  ASSUME HostTypeInv, Accounted, NEW p \in Processes, AddHostKey(p)
  PROVE  Accounted'
<1> DEFINE line == <<process[p].addr, process[p].key>>
<1>1. Cardinality(Missing) \in Nat /\ torn \in Nat /\ Torn # Garbled
      BY FS_CardinalityType, NoTrustUnreadable DEF Accounted, HostTypeInv, TypeOK
<1>2. line \in Trust /\ trusted \subseteq Trust
      BY DEF AddHostKey, HostTypeInv, Asked, TypeOK
<1>3. CASE lines' \in Appended(line) /\ trusted' = trusted \cup {line} /\ UNCHANGED torn
  <2>1. CASE Torn \in lines
    <3>1. lines' \in {lines \ {Torn}, (lines \ {Torn}) \cup {Garbled}}
          BY <1>3, <2>1 DEF Appended
    <3>2. Missing' = Missing \/ Missing' = Missing \cup {line}
          BY <1>2, <1>3, <3>1, NoTrustUnreadable DEF Missing
    <3>3. /\ IsFiniteSet(Missing \cup {line})
          /\ Cardinality(Missing \cup {line}) <= Cardinality(Missing) + 1
          BY CountOne DEF Accounted
    <3>4. IsFiniteSet(Missing') /\ Cardinality(Missing') <= Cardinality(Missing) + 1
          BY <1>1, <3>2, <3>3 DEF Accounted
    <3>5. Cardinality(Missing') \in Nat
          BY <3>4, FS_CardinalityType
    <3>6. Cardinality(Missing) + 1 <= torn
          BY <2>1 DEF Accounted
    <3>7. Torn \notin lines'
          BY <1>1, <3>1
    <3> QED BY <1>1, <1>3, <3>4, <3>5, <3>6, <3>7 DEF Accounted
  <2>2. CASE Torn \notin lines
    <3>1. lines' = lines \cup {line}
          BY <1>3, <2>2 DEF Appended
    <3>2. Missing' = Missing \ {line}
          BY <1>3, <3>1 DEF Missing
    <3>3. IsFiniteSet(Missing') /\ Cardinality(Missing') <= Cardinality(Missing)
      <4>1. IsFiniteSet(Missing \ {line}) /\ Cardinality(Missing \ {line}) <= Cardinality(Missing)
            BY CountOne DEF Accounted
      <4> QED BY <3>2, <4>1
    <3>5. Cardinality(Missing') \in Nat
          BY <3>3, FS_CardinalityType
    <3>4. Torn \notin lines' /\ {Torn, Garbled} \cap lines' = {Torn, Garbled} \cap lines
          BY <1>2, <2>2, <3>1, NoTrustUnreadable
    <3> QED BY <1>1, <1>3, <2>2, <3>3, <3>4, <3>5 DEF Accounted
  <2> QED BY <2>1, <2>2
<1>4. CASE UNCHANGED <<lines, trusted, torn>>
      BY <1>4, NoneMissed DEF Missing
<1>5. CASE lines' = lines \cup {Torn} /\ torn' = torn + 1 /\ UNCHANGED trusted
  <2>1. Missing' = Missing
        BY <1>2, <1>5, NoTrustUnreadable DEF Missing
  <2> QED BY <1>1, <1>5, <2>1 DEF Accounted
<1> QED BY <1>3, <1>4, <1>5 DEF AddHostKey

\* Creating the file and the repair of what cannot be parsed leave the lines that were
\* added.
LEMMA AccountedStep == HostTypeInv /\ Accounted /\ [Next]_vars => Accounted'
<1> SUFFICES ASSUME HostTypeInv, Accounted, [Next]_vars PROVE Accounted'
    OBVIOUS
<1>1. CASE UNCHANGED <<lines, trusted, torn>>
      BY <1>1, NoneMissed DEF Missing
<1>2. ASSUME NEW p \in Processes, AddHostKey(p) PROVE Accounted'
      BY <1>2, AccountedAdd
<1>3. CASE Repair
  <2>1. Missing' = Missing
        BY <1>3, NoTrustUnreadable DEF Repair, Missing, HostTypeInv, TypeOK
  <2> QED BY <1>3, <2>1, NoneMissed DEF Repair
<1>4. ASSUME NEW p \in Processes,
             Stat(p) \/ Create(p) \/ ScanHostKey(p) \/ Answer(p) \/ Connection(p)
      PROVE UNCHANGED <<lines, trusted, torn>>
      BY <1>4 DEF Stat, Create, ScanHostKey, Answer, Connection, GetHostKeyCallback, Handshake
<1>5. ASSUME NEW p \in Processes, NEW a \in Addresses, Connect(p, a) \/ Begin(p, a)
      PROVE UNCHANGED <<lines, trusted, torn>>
      BY <1>5 DEF Connect, Begin
<1>6. ASSUME NEW a \in Addresses, NEW key \in Keys, Rotate(a, key)
      PROVE UNCHANGED <<lines, trusted, torn>>
      BY <1>6 DEF Rotate
<1>7. UNCHANGED vars => UNCHANGED <<lines, trusted, torn>>
      BY DEF vars
<1> QED BY <1>1, <1>2, <1>3, <1>4, <1>5, <1>6, <1>7 DEF Next, Command

\* Of the keys that commands have reported as added, known_hosts lacks no more than there
\* were commands that failed in the middle of a line, however many of them look for the
\* file, create it and write to it (knownhosts.go:23-43, 109-133).
THEOREM TrustIsKept == Spec => []TrustKept
<1>1. HostTypeInv /\ Accounted => TrustKept
  <2> SUFFICES ASSUME HostTypeInv, Accounted PROVE TrustKept
      OBVIOUS
  <2>1. Cardinality(trusted \ lines) \in Nat /\ torn \in Nat
        BY FS_CardinalityType DEF Accounted, Missing, HostTypeInv, TypeOK
  <2> QED BY <2>1 DEF Accounted, Missing, TrustKept
<1> QED BY <1>1, TypeInit, TypeStep, AccountedInit, AccountedStep, PTL DEF Spec

----------------------------------------------------------------------------
(* What a connection knows. *)

\* A connection has read nothing but what commands were told to trust, and, once it has
\* read the file, everything that had been added, and was there, before it began.
Informed ==
  \A p \in Calls :
    /\ process[p].known \subseteq recorded
    /\ At(p, "stat") \/ At(p, "create") \/ At(p, "open") => process[p].before \subseteq lines
    /\ At(p, "handshake") => process[p].before \subseteq process[p].known

HostInv ==
  HostTypeInv /\ Accounted /\ Informed /\ OnlyTrustedKeys /\ TrustedNotRefused /\ ReadableUnlessTorn

\* No step takes a key from the file.
LEMMA KeysStay == HostTypeInv /\ [Next]_vars => lines \cap Trust \subseteq lines'
<1> SUFFICES ASSUME HostTypeInv, [Next]_vars PROVE lines \cap Trust \subseteq lines'
    OBVIOUS
<1>1. ASSUME NEW p \in Processes,
             Stat(p) \/ Create(p) \/ ScanHostKey(p) \/ Answer(p) \/ Connection(p)
      PROVE UNCHANGED lines
      BY <1>1 DEF Stat, Create, ScanHostKey, Answer, Connection, GetHostKeyCallback, Handshake
<1>2. ASSUME NEW p \in Processes, AddHostKey(p) PROVE lines \cap Trust \subseteq lines'
      BY <1>2, NoTrustUnreadable DEF AddHostKey, Appended
<1>3. ASSUME NEW p \in Processes, NEW a \in Addresses, Connect(p, a) \/ Begin(p, a)
      PROVE UNCHANGED lines
      BY <1>3 DEF Connect, Begin
<1>4. ASSUME NEW a \in Addresses, NEW key \in Keys, Rotate(a, key) PROVE UNCHANGED lines
      BY <1>4 DEF Rotate
<1>5. Repair => lines \cap Trust \subseteq lines'
      BY NoTrustUnreadable DEF Repair
<1>6. UNCHANGED vars => UNCHANGED lines
      BY DEF vars
<1> QED BY <1>1, <1>2, <1>3, <1>4, <1>5, <1>6 DEF Next, Command

\* A step that leaves a connection as it is takes nothing from what holds of it.
LEMMA OthersStay ==
  ASSUME HostInv, recorded \subseteq recorded', lines \cap Trust \subseteq lines',
         torn' \in {torn, torn + 1},
         \A p \in Calls : process'[p] = process[p]
  PROVE  Informed' /\ OnlyTrustedKeys' /\ TrustedNotRefused' /\ ReadableUnlessTorn'
<1>1. \A p \in Calls : process[p].before \subseteq Trust
      BY DEF HostInv, HostTypeInv, TypeOK, Processes
<1>2. Informed' /\ OnlyTrustedKeys' /\ TrustedNotRefused'
      BY <1>1 DEF HostInv, Informed, OnlyTrustedKeys, TrustedNotRefused, At
<1>3. torn \in Nat
      BY DEF HostInv, HostTypeInv, TypeOK
<1>4. ReadableUnlessTorn'
      BY <1>3 DEF HostInv, ReadableUnlessTorn, At
<1> QED BY <1>2, <1>4

\* A step of one connection is a matter of that connection alone.
LEMMA OneMoves ==
  ASSUME HostInv, NEW p \in Calls, UNCHANGED <<recorded, lines, torn>>,
         \A q \in Calls \ {p} : process'[q] = process[q],
         process'[p].known \subseteq recorded,
         process'[p].pc \in {"stat", "create", "open"} => process'[p].before \subseteq lines,
         process'[p].pc = "handshake" => process'[p].before \subseteq process'[p].known,
         process'[p].pc = "ok" => <<process'[p].addr, process'[p].key>> \in recorded,
         process'[p].pc \in {"unknown", "mismatch"} =>
           <<process'[p].addr, process'[p].key>> \notin process'[p].before,
         process'[p].pc = "unreadable" => torn > 0
  PROVE  Informed' /\ OnlyTrustedKeys' /\ TrustedNotRefused' /\ ReadableUnlessTorn'
<1>1. Informed' /\ OnlyTrustedKeys' /\ TrustedNotRefused'
      BY DEF HostInv, Informed, OnlyTrustedKeys, TrustedNotRefused, At
<1>2. ReadableUnlessTorn'
      BY DEF HostInv, ReadableUnlessTorn, At
<1> QED BY <1>1, <1>2

LEMMA InformedStep ==
  HostInv /\ [Next]_vars =>
    Informed' /\ OnlyTrustedKeys' /\ TrustedNotRefused' /\ ReadableUnlessTorn'
<1> DEFINE Goal == Informed' /\ OnlyTrustedKeys' /\ TrustedNotRefused' /\ ReadableUnlessTorn'
<1> SUFFICES ASSUME HostInv, [Next]_vars PROVE Goal
    OBVIOUS
<1>0. /\ process \in [Processes -> [pc : {"idle", "scan", "ask", "stat", "create", "open",
                                         "handshake", "ok", "rejected", "failed",
                                         "unreadable", "unknown", "mismatch"},
                                   addr : Addresses \cup {None}, key : Keys \cup {None},
                                   known : SUBSET Trust, before : SUBSET Trust]]
      /\ Calls \subseteq Processes /\ Calls \cap Commands = {}
      /\ lines \cap Trust \subseteq lines'
      BY HostTrustAssumption, KeysStay DEF HostInv, HostTypeInv, TypeOK, Processes
<1>1. ASSUME NEW p \in Calls, Stat(p) \/ Create(p) PROVE Goal
  <2>1. PICK l \in {"open", "create", "failed"} : process' = [process EXCEPT ![p].pc = l]
        BY <1>1 DEF Stat, Create, GoTo
  <2>2. /\ process'[p].known = process[p].known /\ process'[p].before = process[p].before
        /\ process'[p].pc \notin {"handshake", "ok", "unknown", "mismatch", "unreadable"}
        /\ \A q \in Calls \ {p} : process'[q] = process[q]
        BY <1>0, <2>1
  <2>3. process[p].before \subseteq lines
        BY <1>1 DEF Stat, Create, HostInv, Informed
  <2>4. UNCHANGED <<recorded, lines, torn>>
        BY <1>1 DEF Stat, Create
  <2>5. process'[p].known \subseteq recorded
        BY <2>2 DEF HostInv, Informed
  <2> QED BY <2>2, <2>3, <2>4, <2>5, OneMoves
<1>2. ASSUME NEW p \in Commands, Stat(p) \/ Create(p) PROVE Goal
      BY <1>0, <1>2, OthersStay DEF Stat, Create, GoTo
<1>3. ASSUME NEW p \in Commands, Command(p) PROVE Goal
      BY <1>0, <1>3, OthersStay DEF Command, ScanHostKey, Answer, AddHostKey, GoTo
<1>4. ASSUME NEW p \in Calls, Command(p) PROVE Goal
      BY <1>0, <1>4 DEF Command, ScanHostKey, Answer, AddHostKey, HostInv, HostTypeInv, Named
<1>5. ASSUME NEW p \in Processes, GetHostKeyCallback(p) PROVE Goal
  <2>1. CASE {Torn, Garbled} \cap lines # {}
    <3>1. /\ process'[p].known = process[p].known /\ process'[p].before = process[p].before
          /\ process'[p].pc = "unreadable"
          /\ \A q \in Calls \ {p} : process'[q] = process[q]
          BY <1>0, <1>5, <2>1 DEF GetHostKeyCallback
    <3>2. torn > 0
          BY <2>1 DEF HostInv, Accounted
    <3> QED BY <1>5, <3>1, <3>2, OneMoves DEF GetHostKeyCallback, HostInv, Informed
  <2>2. CASE {Torn, Garbled} \cap lines = {}
    <3>1. lines \subseteq recorded /\ process[p].before \subseteq lines
          BY <1>5, <2>2 DEF GetHostKeyCallback, HostInv, HostTypeInv, Informed
    <3>2. /\ process'[p].known = lines /\ process'[p].before = process[p].before
          /\ process'[p].pc = "handshake"
          /\ \A q \in Calls \ {p} : process'[q] = process[q]
          BY <1>0, <1>5, <2>2 DEF GetHostKeyCallback
    <3> QED BY <1>5, <3>1, <3>2, OneMoves DEF GetHostKeyCallback
  <2> QED BY <2>1, <2>2
<1>6. ASSUME NEW p \in Processes, Handshake(p) PROVE Goal
  <2>1. p \in Calls
        BY <1>6 DEF Handshake, HostInv, HostTypeInv, Named, Processes
  <2>2. CASE GoTo(p, "failed")
    <3>1. /\ process'[p].known = process[p].known /\ process'[p].before = process[p].before
          /\ process'[p].pc = "failed"
          /\ \A q \in Calls \ {p} : process'[q] = process[q]
          BY <1>0, <2>1, <2>2 DEF GoTo
    <3> QED BY <1>6, <2>1, <3>1, OneMoves DEF Handshake, HostInv, Informed
  <2>3. CASE process' = [process EXCEPT ![p].pc = Verdict(p, hostKey[process[p].addr]),
                                        ![p].key = hostKey[process[p].addr]]
    <3> DEFINE key == hostKey[process[p].addr]
    <3>1. Verdict(p, key) = "ok" => <<process[p].addr, key>> \in recorded
          BY <2>1 DEF Verdict, Want, HostInv, Informed
    <3>2. Verdict(p, key) # "ok" => <<process[p].addr, key>> \notin process[p].before
          BY <1>6, <2>1 DEF Handshake, Verdict, Want, HostInv, Informed
    <3>3. Verdict(p, key) \in {"ok", "unknown", "mismatch"}
          BY DEF Verdict
    <3>4. /\ process'[p].known = process[p].known /\ process'[p].before = process[p].before
          /\ process'[p].addr = process[p].addr /\ process'[p].key = key
          /\ process'[p].pc = Verdict(p, key)
          /\ \A q \in Calls \ {p} : process'[q] = process[q]
          BY <1>0, <2>1, <2>3
    <3> HIDE DEF key
    <3> QED
        BY <1>6, <2>1, <3>1, <3>2, <3>3, <3>4, OneMoves DEF Handshake, HostInv, Informed
  <2> QED BY <1>6, <2>2, <2>3 DEF Handshake
<1>7. ASSUME NEW p \in Processes, NEW a \in Addresses, Connect(p, a) PROVE Goal
  <2>1. /\ process'[p].known = {} /\ process'[p].before \subseteq lines /\ process'[p].pc = "stat"
        /\ \A q \in Calls \ {p} : process'[q] = process[q]
        BY <1>0, <1>7 DEF Connect, Idle
  <2> QED BY <1>7, <2>1, OneMoves DEF Connect
<1>8. ASSUME NEW p \in Processes, NEW a \in Addresses, Begin(p, a) PROVE Goal
      BY <1>0, <1>8, OthersStay DEF Begin
<1>9. ASSUME NEW a \in Addresses, NEW key \in Keys, Rotate(a, key) PROVE Goal
      BY <1>9, OthersStay DEF Rotate
<1>10. CASE Repair
      BY <1>0, <1>10, OthersStay DEF Repair
<1>11. CASE UNCHANGED vars
      BY <1>11, OthersStay DEF vars
<1> QED
    BY <1>0, <1>1, <1>2, <1>3, <1>4, <1>5, <1>6, <1>7, <1>8, <1>9, <1>10, <1>11
    DEF Next, Connection, Processes

LEMMA HostInvariant == Spec => []HostInv
<1>1. Init => Informed /\ OnlyTrustedKeys /\ TrustedNotRefused /\ ReadableUnlessTorn
      BY DEF Init, Informed, OnlyTrustedKeys, TrustedNotRefused, ReadableUnlessTorn, Idle, At,
             Processes
<1>2. HostInv /\ [Next]_vars => HostInv'
      BY TypeStep, AccountedStep, InformedStep DEF HostInv
<1>3. Init => HostInv
      BY TypeInit, AccountedInit, <1>1 DEF HostInv
<1> QED BY <1>2, <1>3, PTL DEF Spec

\* A connection is accepted only under a key that the operator was asked about for that
\* host (knownhosts.go:46-73), for any interleaving with commands and changes of keys; a
\* key that was added, and was in the file, before it began is accepted by it, however many
\* keys its host has had (knownhosts.go:57-73); and it fails over an unreadable file
\* (knownhosts.go:52-55) only after a command failed in the middle of its line.
THEOREM TrustIsDecisive == Spec => []TrustDecides
<1>1. HostInv => TrustDecides
      BY DEF HostInv, TrustDecides
<1> QED BY <1>1, HostInvariant, PTL
=============================================================================
