------------------------------ MODULE HostTrust ------------------------------
(***************************************************************************)
(* Which hosts are trusted: the file .gruntdeck/known_hosts of a working   *)
(* directory (internal/ssh/knownhosts.go), the commands that add keys to   *)
(* it (cmd/gruntdeck), and the connections of an executor, which read it   *)
(* anew each time.  Nothing locks the file, several processes use it, and  *)
(* a host may change its key at any moment.                                *)
(***************************************************************************)
EXTENDS Naturals, FiniteSets

CONSTANTS
  Addresses,  \* host and port of the targets
  Keys,       \* the keys hosts may have
  Commands,   \* the calls of "gruntdeck trust" and "gruntdeck scan-host"
  Calls,      \* the connections of the executor
  None        \* no address, no key

ASSUME HostTrustAssumption ==
  /\ None \notin Addresses \cup Keys /\ None # "line"
  /\ Commands \cap Calls = {}

Processes == Commands \cup Calls
Trust == Addresses \X Keys
Torn == <<None, None>>       \* the beginning of a line, at the end of the file
Garbled == <<None, "line">>  \* a line that ends, but cannot be parsed

VARIABLES
  exists,    \* whether the file exists
  lines,     \* its lines
  hostKey,   \* the key each host has
  process,   \* the commands and connections
  recorded,  \* history: what commands were told to trust
  trusted,   \* history: what they have reported as added
  torn       \* history: how many of them failed in the middle of a line

vars == <<exists, lines, hostKey, process, recorded, trusted, torn>>

Idle == [pc |-> "idle", addr |-> None, key |-> None, known |-> {}, before |-> {}]

TypeOK ==
  /\ exists \in BOOLEAN /\ lines \subseteq Trust \cup {Torn, Garbled}
  /\ hostKey \in [Addresses -> Keys]
  /\ process \in [Processes -> [pc : {"idle", "scan", "ask", "stat", "create", "open", "handshake",
                                      "ok", "rejected", "failed", "unreadable",
                                      "unknown", "mismatch"},
                                addr : Addresses \cup {None}, key : Keys \cup {None},
                                known : SUBSET Trust, before : SUBSET Trust]]
  /\ recorded \subseteq Trust /\ trusted \subseteq recorded /\ torn \in Nat
  /\ \A p \in Calls : process[p].pc \in {"open", "handshake"} => exists

Init ==
  /\ exists = FALSE /\ lines = {}
  /\ hostKey \in [Addresses -> Keys]
  /\ process = [p \in Processes |-> Idle]
  /\ recorded = {} /\ trusted = {} /\ torn = 0

At(p, pc) == process[p].pc = pc
GoTo(p, pc) == process' = [process EXCEPT ![p].pc = pc]

----------------------------------------------------------------------------
(* The file. *)

\* GetKnownHostsPath looks first, and creates an empty file in a second step if there
\* was none.  The directory may refuse either.
Stat(p) ==
  /\ At(p, "stat")
  /\ \/ GoTo(p, IF exists THEN "open" ELSE "create")
     \/ GoTo(p, "failed")
  /\ UNCHANGED <<exists, lines, hostKey, recorded, trusted, torn>>

\* Variant: the file is created with O_TRUNC.
CreateTruncated(p) ==
  /\ At(p, "create")
  /\ exists' = TRUE /\ lines' = {} /\ GoTo(p, "open")
  /\ UNCHANGED <<hostKey, recorded, trusted, torn>>

\* O_CREATE leaves a file that has come into being meanwhile as it is.
Create(p) ==
  /\ At(p, "create")
  /\ \/ exists' = TRUE /\ GoTo(p, "open")
     \/ GoTo(p, "failed") /\ UNCHANGED exists
  /\ UNCHANGED <<lines, hostKey, recorded, trusted, torn>>

\* The operator removes by hand what cannot be parsed.
Repair ==
  /\ {Torn, Garbled} \cap lines # {}
  /\ lines' = lines \ {Torn, Garbled}
  /\ UNCHANGED <<exists, hostKey, process, recorded, trusted, torn>>

----------------------------------------------------------------------------
(* cmd/gruntdeck. *)

Begin(p, a) ==
  /\ p \in Commands /\ process[p] = Idle
  /\ process' = [process EXCEPT ![p] = [Idle EXCEPT !.pc = "scan", !.addr = a]]
  /\ UNCHANGED <<exists, lines, hostKey, recorded, trusted, torn>>

\* The host shows its key, or is not reached under the name it was given.
ScanHostKey(p) ==
  /\ At(p, "scan")
  /\ \/ process' = [process EXCEPT ![p].pc = "ask", ![p].key = hostKey[process[p].addr]]
     \/ GoTo(p, "failed")
  /\ UNCHANGED <<exists, lines, hostKey, recorded, trusted, torn>>

\* The answer to the question, "yes" for scan-host.
Answer(p) ==
  /\ At(p, "ask")
  /\ \/ GoTo(p, "rejected") /\ UNCHANGED recorded
     \/ /\ GoTo(p, "stat")
        /\ recorded' = recorded \cup {<<process[p].addr, process[p].key>>}
  /\ UNCHANGED <<exists, lines, hostKey, trusted, torn>>

\* What one write at the end of the file makes of its lines.  Behind a torn line the new
\* one is but its continuation: together they make a line that cannot be parsed, or one
\* for a host of another name.
Appended(line) ==
  IF Torn \in lines THEN {lines \ {Torn}, (lines \ {Torn}) \cup {Garbled}}
  ELSE {lines \cup {line}}

\* The write goes through, and the command reports the key as added, whatever was there
\* before; or it fails altogether, or in the middle of the line.
AddHostKey(p) ==
  /\ p \in Commands /\ At(p, "open")
  /\ LET line == <<process[p].addr, process[p].key>> IN
     \/ /\ GoTo(p, "ok") /\ lines' \in Appended(line)
        /\ trusted' = trusted \cup {line} /\ UNCHANGED torn
     \/ GoTo(p, "failed") /\ UNCHANGED <<lines, trusted, torn>>
     \/ GoTo(p, "failed") /\ lines' = lines \cup {Torn} /\ torn' = torn + 1 /\ UNCHANGED trusted
  /\ UNCHANGED <<exists, hostKey, recorded>>

----------------------------------------------------------------------------
(* A connection of the executor: the callback is made, then the host is dialled. *)

Connect(p, a) ==
  /\ p \in Calls /\ process[p] = Idle
  /\ process' = [process EXCEPT ![p] = [Idle EXCEPT !.pc = "stat", !.addr = a, !.before = trusted \cap lines]]
  /\ UNCHANGED <<exists, lines, hostKey, recorded, trusted, torn>>

\* knownhosts.New refuses a file with a line it cannot parse.
GetHostKeyCallback(p) ==
  /\ p \in Calls /\ At(p, "open")
  /\ process' = IF {Torn, Garbled} \cap lines # {}
                THEN [process EXCEPT ![p].pc = "unreadable"]
                ELSE [process EXCEPT ![p].pc = "handshake", ![p].known = lines]
  /\ UNCHANGED <<exists, lines, hostKey, recorded, trusted, torn>>

Want(p) == {t \in process[p].known : t[1] = process[p].addr}

\* Variant: the key of a host nobody has named is accepted.
VerdictOnFirstUse(p, key) ==
  IF Want(p) = {} \/ <<process[p].addr, key>> \in Want(p) THEN "ok" ELSE "mismatch"

\* Any of the lines for the host may have the key.
Verdict(p, key) ==
  IF <<process[p].addr, key>> \in Want(p) THEN "ok"
  ELSE IF Want(p) = {} THEN "unknown" ELSE "mismatch"

Handshake(p) ==
  /\ At(p, "handshake")
  /\ LET key == hostKey[process[p].addr] IN
     \/ process' = [process EXCEPT ![p].pc = Verdict(p, key), ![p].key = key]
     \/ GoTo(p, "failed")
  /\ UNCHANGED <<exists, lines, hostKey, recorded, trusted, torn>>

----------------------------------------------------------------------------
Rotate(a, key) ==
  /\ hostKey[a] # key
  /\ hostKey' = [hostKey EXCEPT ![a] = key]
  /\ UNCHANGED <<exists, lines, process, recorded, trusted, torn>>

Command(p) == ScanHostKey(p) \/ Answer(p) \/ AddHostKey(p)
Connection(p) == GetHostKeyCallback(p) \/ Handshake(p)

Next ==
  \/ \E p \in Processes : Stat(p) \/ Create(p) \/ Command(p) \/ Connection(p)
  \/ \E p \in Processes, a \in Addresses : Connect(p, a) \/ Begin(p, a)
  \/ \E a \in Addresses, key \in Keys : Rotate(a, key)
  \/ Repair

Spec == Init /\ [][Next]_vars

----------------------------------------------------------------------------
(* What the operator and the executor rely on. *)

\* A key that a command has reported as added is in the file, whoever looks for the file,
\* creates it or adds another key at the same time - but for one such key, at most, for
\* every command that failed in the middle of its line, as the next key added is reported
\* like any other and continues that line.
TrustKept == Cardinality(trusted \ lines) <= torn

\* A connection is accepted only under a key that a command was told to trust for that
\* very host, even if the host had another key before or has one by now ...
OnlyTrustedKeys ==
  \A p \in Calls : At(p, "ok") => <<process[p].addr, process[p].key>> \in recorded

\* ... and not refused over a key that had been added, and was in the file, before it
\* began: neither as unknown nor, after the host has changed keys and been trusted again,
\* as a mismatch ...
TrustedNotRefused ==
  \A p \in Calls :
    At(p, "unknown") \/ At(p, "mismatch") => <<process[p].addr, process[p].key>> \notin process[p].before

\* ... nor over a file it cannot read, unless a command failed in the middle of its line.
ReadableUnlessTorn == \A p \in Calls : At(p, "unreadable") => torn > 0

\* The operator's answers, and they alone, decide which hosts an executor talks to.
TrustDecides == OnlyTrustedKeys /\ TrustedNotRefused /\ ReadableUnlessTorn
=============================================================================
