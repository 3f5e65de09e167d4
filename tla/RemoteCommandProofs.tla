------------------------- MODULE RemoteCommandProofs -------------------------
(***************************************************************************)
(* Theorems about RemoteCommand, for any output and any window: a success  *)
(* has given all the output that can be read to the table, whatever fails  *)
(* there, and no line comes after the call.                                *)
(***************************************************************************)
EXTENDS RemoteCommand, SequenceTheorems, WellFoundedInduction, TLAPS

LEMMA TypeInit == Init => TypeOK
<1> SUFFICES ASSUME Init
             PROVE  TypeOK
  OBVIOUS
<1>1. /\ unsent \in [Streams -> Seq(Lines)] /\ pending \in [Streams -> Seq(Lines)]
      /\ logged \in [Streams -> Seq(Fates)] /\ output \in Outputs
  BY OutputsAssumption DEF Init
<1>2. Unread = 0
  BY DEF Init, Unread, Streams
<1> QED BY <1>1, <1>2, OutputsAssumption DEF Init, TypeOK

\* The streams: what moves from the host to the reader, and from there to the table.
LEMMA TypeStreams ==
  ASSUME TypeOK, NEW i \in Streams, Write(i) \/ ReadLine(i) \/ ReadEnd(i)
  PROVE  TypeOK'
<1> USE DEF TypeOK
<1>1. CASE Write(i)
  <2>1. /\ unsent[i] # <<>> /\ unsent[i] \in Seq(Lines) /\ Unread < Window
        /\ unsent' = [unsent EXCEPT ![i] = Tail(@)]
        /\ pending' = [pending EXCEPT ![i] = Append(@, Head(unsent[i]))]
        /\ UNCHANGED <<main, result, ctx, conn, host, command, output, reader, logged, waiter, errCh, watchdog>>
    BY <1>1 DEF Write
  <2>2. /\ Head(unsent[i]) \in Lines /\ Tail(unsent[i]) \in Seq(Lines)
        /\ Append(pending[i], Head(unsent[i])) \in Seq(Lines)
        /\ Len(Append(pending[i], Head(unsent[i]))) = Len(pending[i]) + 1
    BY <2>1
  <2>3. Unread' = Unread + 1
    <3>1. \A s \in Streams :
            /\ Len(pending[s]) \in Nat
            /\ Len(pending'[s]) = IF s = i THEN Len(pending[s]) + 1 ELSE Len(pending[s])
      BY <2>1, <2>2
    <3> DEFINE before == [s \in Streams |-> Len(pending[s])]
               after == [s \in Streams |-> Len(pending'[s])]
    <3>2. /\ Unread = before["stdout"] + before["stderr"]
          /\ Unread' = after["stdout"] + after["stderr"]
      BY DEF Unread, Streams
    <3>3. /\ before \in [Streams -> Nat]
          /\ \A s \in Streams : after[s] = IF s = i THEN before[s] + 1 ELSE before[s]
      BY <3>1
    <3> HIDE DEF before, after
    <3>4. i = "stdout" \/ i = "stderr"
      BY DEF Streams
    <3> QED BY <3>2, <3>3, <3>4 DEF Streams
  <2>4. Unread \in Nat
    BY DEF Unread, Streams
  <2> QED BY <2>1, <2>2, <2>3, <2>4, OutputsAssumption DEF watchdog
<1>2. CASE ReadLine(i)
  <2>1. /\ pending[i] # <<>> /\ pending[i] \in Seq(Lines)
        /\ pending' = pending \/ pending' = [pending EXCEPT ![i] = Tail(@)]
        /\ logged' = logged \/ \E fate \in Fates : logged' = [logged EXCEPT ![i] = Append(@, fate)]
        /\ reader' = reader \/ reader' = [reader EXCEPT ![i] = "ended"]
        /\ UNCHANGED <<main, result, ctx, conn, peer, waiter, errCh, watchdog>>
    BY <1>2 DEF ReadLine, RecordLog, Fates
  <2>2. /\ Tail(pending[i]) \in Seq(Lines) /\ Len(Tail(pending[i])) <= Len(pending[i])
    BY <2>1
  <2>3. Unread' <= Unread /\ Unread \in Nat /\ Unread' \in Nat
    <3>1. \A s \in Streams :
            /\ Len(pending[s]) \in Nat /\ Len(pending'[s]) \in Nat
            /\ Len(pending'[s]) <= Len(pending[s])
      <4> SUFFICES ASSUME NEW s \in Streams
                   PROVE  /\ Len(pending[s]) \in Nat /\ Len(pending'[s]) \in Nat
                          /\ Len(pending'[s]) <= Len(pending[s])
        OBVIOUS
      <4>1. pending[s] \in Seq(Lines)
        OBVIOUS
      <4>2. pending'[s] = pending[s] \/ (s = i /\ pending'[s] = Tail(pending[i]))
        BY <2>1
      <4>3. Len(pending[s]) \in Nat
        BY <4>1
      <4>4. Len(Tail(pending[i])) \in Nat
        BY <2>2
      <4> QED BY <2>2, <4>2, <4>3, <4>4
    <3> DEFINE before == [s \in Streams |-> Len(pending[s])]
               after == [s \in Streams |-> Len(pending'[s])]
    <3>2. /\ Unread = before["stdout"] + before["stderr"]
          /\ Unread' = after["stdout"] + after["stderr"]
      BY DEF Unread, Streams
    <3>3. /\ before \in [Streams -> Nat] /\ after \in [Streams -> Nat]
          /\ \A s \in Streams : after[s] <= before[s]
      BY <3>1
    <3> HIDE DEF before, after
    <3> QED BY <3>2, <3>3 DEF Streams
  <2>4. pending' \in [Streams -> Seq(Lines)]
    BY <2>1, <2>2
  <2>5. logged' \in [Streams -> Seq(Fates)]
    <3>1. \A fate \in Fates : Append(logged[i], fate) \in Seq(Fates)
      OBVIOUS
    <3> QED BY <2>1, <3>1
  <2>6. reader' \in [Streams -> {"none", "reading", "ended"}]
    BY <2>1
  <2>7. Unread' <= Window
    BY <2>3, OutputsAssumption
  <2> QED BY <2>1, <2>4, <2>5, <2>6, <2>7 DEF peer, watchdog
<1>3. CASE ReadEnd(i)
  <2>1. Unread' = Unread
    BY <1>3 DEF ReadEnd, Unread
  <2> QED BY <1>3, <2>1 DEF ReadEnd, peer, watchdog
<1> QED BY <1>1, <1>2, <1>3

LEMMA TypeStep == TypeOK /\ [Next]_vars => TypeOK'
<1> SUFFICES ASSUME TypeOK, [Next]_vars
             PROVE  TypeOK'
  OBVIOUS
<1> USE DEF TypeOK, peer, readers, watchdog
<1>0. pending' = pending => Unread' = Unread
  BY DEF Unread
<1>1. CASE Main
  BY <1>0, <1>1 DEF Main, Dial, NewSession, StartCommand, Cancelled, Reap, Exited, WaitReaders, Return
<1>2. CASE SessionWait \/ Keepalive \/ ProbeReturns
  BY <1>0, <1>2 DEF SessionWait, Keepalive, Tick, ProbeAnswered, ProbeFails, KeepaliveStops, ProbeReturns
<1>3. CASE (\E status \in {"ok", "error"} : Exit(status)) \/ GoSilent \/ Break \/ CancelContext
  BY <1>0, <1>3 DEF Exit, GoSilent, Break, CancelContext
<1>4. CASE UNCHANGED vars
  BY <1>0, <1>4 DEF vars, peer, readers, watchdog
<1> QED BY <1>1, <1>2, <1>3, <1>4, TypeStreams DEF Next, Environment

\* The variables keep their types, and the output in flight never exceeds the window.
THEOREM TypeCorrect == Spec => []TypeOK
BY TypeInit, TypeStep, PTL DEF Spec

----------------------------------------------------------------------------
(* The lines of one stream, as sequences. *)

\* The number of lines the reader has taken.
Taken(out, uns, pen) == Len(out) - Len(uns) - Len(pen)

\* Every line is with the host, in flight or taken, in the order of the output, and
\* only lines that fit were taken.
Lined(out, uns, pen) ==
  /\ Taken(out, uns, pen) >= 0
  /\ \A k \in 1 .. Len(uns) : uns[k] = out[Taken(out, uns, pen) + Len(pen) + k]
  /\ \A k \in 1 .. Len(pen) : pen[k] = out[Taken(out, uns, pen) + k]
  /\ \A k \in 1 .. Taken(out, uns, pen) : out[k] = "short"

\* What Len and Seq give the solvers.
LEMMA Lengths ==
  ASSUME NEW seq \in Seq(Lines)
  PROVE  /\ Len(seq) \in Nat
         /\ seq = <<>> <=> Len(seq) = 0
         /\ seq # <<>> => Head(seq) = seq[1] /\ seq[1] \in Lines
         /\ \A k \in 1 .. Len(seq) : seq[k] \in Lines
OBVIOUS

\* One more line has been given to the table.
LEMMA OneMore ==
  ASSUME NEW seq \in Seq(Fates), NEW fate \in Fates
  PROVE  Len(seq) \in Nat /\ Len(Append(seq, fate)) = Len(seq) + 1
OBVIOUS

LEMMA TakenBounds ==
  ASSUME NEW out \in Seq(Lines), NEW uns \in Seq(Lines), NEW pen \in Seq(Lines)
  PROVE  /\ Taken(out, uns, pen) \in Int
         /\ Taken(out, uns, pen) <= Len(out)
<1>1. Len(out) \in Nat /\ Len(uns) \in Nat /\ Len(pen) \in Nat
  BY Lengths
<1>2. PICK a \in Nat, b \in Nat, c \in Nat : a = Len(out) /\ b = Len(uns) /\ c = Len(pen)
  BY <1>1
<1>3. Taken(out, uns, pen) = a - b - c
  BY <1>2 DEF Taken
<1>4. a - b - c \in Int /\ a - b - c <= a
  OBVIOUS
<1> QED BY <1>2, <1>3, <1>4

\* A line is sent: it leaves the host and is the last one in flight.
LEMMA LineSent ==
  ASSUME NEW out \in Seq(Lines), NEW uns \in Seq(Lines), NEW pen \in Seq(Lines),
         Lined(out, uns, pen), uns # <<>>
  PROVE  /\ Lined(out, Tail(uns), Append(pen, Head(uns)))
         /\ Taken(out, Tail(uns), Append(pen, Head(uns))) = Taken(out, uns, pen)
<1> DEFINE u == Tail(uns)
           p == Append(pen, Head(uns))
<1>1. /\ Len(u) = Len(uns) - 1 /\ \A k \in 1 .. Len(u) : u[k] = uns[k + 1]
      /\ Head(uns) \in Lines /\ Head(uns) = uns[1] /\ Len(uns) \in Nat /\ Len(uns) > 0
  BY HeadTailProperties, Lengths
<1>2. /\ Len(p) = Len(pen) + 1 /\ \A k \in 1 .. Len(pen) : p[k] = pen[k]
      /\ p[Len(pen) + 1] = uns[1] /\ Len(pen) \in Nat /\ Len(out) \in Nat
  BY <1>1, AppendProperties, Lengths
<1> HIDE DEF u, p
<1>3. Taken(out, u, p) = Taken(out, uns, pen) /\ Taken(out, uns, pen) \in Nat
  BY <1>1, <1>2 DEF Taken, Lined
<1>4. PICK t \in Nat : t = Taken(out, uns, pen)
  BY <1>3
<1>5. /\ \A k \in 1 .. Len(uns) : uns[k] = out[t + Len(pen) + k]
      /\ \A k \in 1 .. Len(pen) : pen[k] = out[t + k]
      /\ \A k \in 1 .. t : out[k] = "short"
  BY <1>4 DEF Lined
<1>6. \A k \in 1 .. Len(u) : u[k] = out[t + Len(p) + k]
  <2> SUFFICES ASSUME NEW k \in 1 .. Len(u)
               PROVE  u[k] = out[t + Len(p) + k]
    OBVIOUS
  <2>1. k + 1 \in 1 .. Len(uns) /\ t + Len(pen) + (k + 1) = t + Len(p) + k
    <3>1. Len(u) = Len(uns) - 1 /\ Len(p) = Len(pen) + 1
      BY <1>1, <1>2
    <3>2. Len(uns) \in Nat /\ Len(pen) \in Nat /\ t \in Nat /\ k \in Nat
      BY <1>1, <1>2, <1>5
    <3> QED BY <3>1, <3>2
  <2> QED BY <1>1, <1>5, <2>1
<1>7. \A k \in 1 .. Len(p) : p[k] = out[t + k]
  <2> SUFFICES ASSUME NEW k \in 1 .. Len(p)
               PROVE  p[k] = out[t + k]
    OBVIOUS
  <2>1. CASE k \in 1 .. Len(pen)
    BY <1>2, <1>5, <2>1
  <2>2. CASE k = Len(pen) + 1
    <3>1. uns[1] = out[t + Len(pen) + 1]
      BY <1>1, <1>5
    <3>2. t + k = t + Len(pen) + 1
      BY <1>2, <1>5, <2>2
    <3> QED BY <1>2, <2>2, <3>1, <3>2
  <2> QED BY <1>2, <2>1, <2>2
<1> QED BY <1>3, <1>4, <1>5, <1>6, <1>7 DEF Lined, u, p

\* A line that fits is taken from those in flight.
LEMMA LineTaken ==
  ASSUME NEW out \in Seq(Lines), NEW uns \in Seq(Lines), NEW pen \in Seq(Lines),
         Lined(out, uns, pen), pen # <<>>, Head(pen) = "short"
  PROVE  /\ Lined(out, uns, Tail(pen))
         /\ Taken(out, uns, Tail(pen)) = Taken(out, uns, pen) + 1
<1> DEFINE p == Tail(pen)
           t == Taken(out, uns, pen)
<1>1. /\ Len(p) = Len(pen) - 1 /\ \A k \in 1 .. Len(p) : p[k] = pen[k + 1]
      /\ pen[1] = "short" /\ Len(pen) \in Nat /\ Len(pen) > 0
      /\ Len(uns) \in Nat /\ Len(out) \in Nat
  BY HeadTailProperties, Lengths
<1> HIDE DEF p
<1>2. Taken(out, uns, p) = t + 1 /\ t \in Nat
  BY <1>1 DEF Taken, Lined
<1>3. /\ \A k \in 1 .. Len(uns) : uns[k] = out[t + Len(pen) + k]
      /\ \A k \in 1 .. Len(pen) : pen[k] = out[t + k]
      /\ \A k \in 1 .. t : out[k] = "short"
  BY DEF Lined
<1> HIDE DEF t
<1>4. t + 1 + Len(p) = t + Len(pen)
  BY <1>1, <1>2
<1>5. \A k \in 1 .. Len(p) : p[k] = out[t + 1 + k]
  <2> SUFFICES ASSUME NEW k \in 1 .. Len(p)
               PROVE  p[k] = out[t + 1 + k]
    OBVIOUS
  <2>1. k + 1 \in 1 .. Len(pen) /\ t + (k + 1) = t + 1 + k
    BY <1>1, <1>2
  <2> QED BY <1>1, <1>3, <2>1
<1>6. \A k \in 1 .. t + 1 : out[k] = "short"
  <2>1. out[t + 1] = "short"
    BY <1>1, <1>3
  <2> QED BY <1>2, <1>3, <2>1
<1> QED BY <1>2, <1>3, <1>4, <1>5, <1>6 DEF Lined, t, p

\* The number of lines that can be read: they all fit, and the one after them does not.
LEMMA ReadableIs ==
  ASSUME NEW i \in Streams, output[i] \in Seq(Lines)
  PROVE  /\ Readable(i) \in 0 .. Len(output[i])
         /\ \A k \in 1 .. Readable(i) : output[i][k] = "short"
         /\ Readable(i) < Len(output[i]) => output[i][Readable(i) + 1] = "long"
<1> DEFINE out == output[i]
           Upto(n) == /\ \A k \in 1 .. n : out[k] = "short"
                      /\ n < Len(out) => out[n + 1] = "long"
           long == {k \in 1 .. Len(out) : out[k] = "long"}
<1>0. Len(out) \in Nat /\ \A k \in 1 .. Len(out) : out[k] \in {"short", "long"}
  BY Lengths DEF Lines
<1>1. \E n \in 0 .. Len(out) : Upto(n)
  <2>1. CASE long = {}
    BY <1>0, <2>1
  <2>2. CASE long # {}
    <3>1. PICK m \in long : \A k \in long : ~ (<<k, m>> \in OpToRel(<, Nat))
      <4>1. long \subseteq Nat /\ long # {}
        BY <1>0, <2>2
      <4> HIDE DEF long
      <4> QED BY <4>1, NatLessThanWellFounded, WFMin
    <3> HIDE DEF out
    <3>2. m \in 1 .. Len(out) /\ out[m] = "long" /\ m \in Nat
      BY <1>0
    <3>3. ASSUME NEW k \in 1 .. m - 1
          PROVE  out[k] = "short"
      <4>1. k \in Nat /\ k \in 1 .. Len(out) /\ k < m
        BY <1>0, <3>2
      <4>2. k \notin long
        BY <3>1, <3>2, <4>1 DEF OpToRel
      <4> QED BY <1>0, <4>1, <4>2
    <3>4. m - 1 \in 0 .. Len(out) /\ (m - 1) + 1 = m
      BY <1>0, <3>2
    <3> QED BY <3>2, <3>3, <3>4
  <2> QED BY <2>1, <2>2
<1>2. Readable(i) = CHOOSE n \in 0 .. Len(out) : Upto(n)
  BY DEF Readable
<1> HIDE DEF Upto
<1>3. Readable(i) \in 0 .. Len(out) /\ Upto(Readable(i))
  BY <1>1, <1>2
<1> QED BY <1>3 DEF Upto

----------------------------------------------------------------------------
(* The output. *)

\* What was taken, and nothing else, has been given to the table.
InTable(i) == Len(logged[i]) = Taken(output[i], unsent[i], pending[i])

\* A reader ends at a line that does not fit, or when nothing more can come.
EndsInTime(i) ==
  reader[i] = "ended" =>
    \/ pending[i] # <<>> /\ Head(pending[i]) = "long"
    \/ pending[i] = <<>> /\ Ended

StreamInv(i) ==
  /\ Lined(output[i], unsent[i], pending[i])
  /\ InTable(i)
  /\ EndsInTime(i)

\* What the call knows of the command and of the readers.
CallInv ==
  /\ command = "none" => \A i \in Streams : pending[i] = <<>>
  /\ command \in {"ok", "error"} => \A i \in Streams : unsent[i] = <<>>
  /\ main \in {"dial", "session", "start"} => command = "none"
  /\ main \in {"dial", "session"} => \A i \in Streams : reader[i] = "none"
  /\ errCh = "ok" \/ result = "ok" => command = "ok"
  /\ main = "done" /\ command # "none" => \A i \in Streams : reader[i] = "ended"

OutputInv == TypeOK /\ CallInv /\ \A i \in Streams : StreamInv(i)

\* The sequences of a stream.
LEMMA StreamTypes ==
  ASSUME TypeOK, NEW i \in Streams
  PROVE  /\ output[i] \in Seq(Lines) /\ unsent[i] \in Seq(Lines)
         /\ pending[i] \in Seq(Lines) /\ logged[i] \in Seq(Fates)
BY OutputsAssumption DEF TypeOK

LEMMA OutputInit == Init => OutputInv
<1> SUFFICES ASSUME Init
             PROVE  OutputInv
  OBVIOUS
<1>1. ASSUME NEW i \in Streams
      PROVE  StreamInv(i)
  <2>1. /\ output[i] \in Seq(Lines) /\ unsent[i] = output[i] /\ pending[i] = <<>>
        /\ logged[i] = <<>> /\ reader[i] = "none"
    BY OutputsAssumption DEF Init
  <2>2. /\ Len(pending[i]) = 0 /\ Len(logged[i]) = 0
        /\ Len(unsent[i]) = Len(output[i]) /\ Len(output[i]) \in Nat
    BY <2>1, Lengths
  <2>3. Taken(output[i], unsent[i], pending[i]) = 0
    BY <2>2 DEF Taken
  <2>4. Lined(output[i], unsent[i], pending[i])
    BY <2>1, <2>2, <2>3 DEF Lined
  <2>5. InTable(i)
    BY <2>2, <2>3 DEF InTable
  <2> QED BY <2>1, <2>4, <2>5 DEF StreamInv, EndsInTime
<1> QED BY <1>1, TypeInit DEF OutputInv, CallInv, Init

\* A stream whose lines stay where they are.
LEMMA StreamKept ==
  ASSUME NEW i \in Streams, StreamInv(i), UNCHANGED <<output, unsent[i], pending[i], logged[i]>>,
         reader'[i] = "ended" => reader[i] = "ended" /\ (Ended => Ended')
  PROVE  StreamInv(i)'
<1>1. Lined(output[i], unsent[i], pending[i])'
  BY DEF StreamInv
<1>2. InTable(i)'
  BY DEF StreamInv, InTable
<1>3. EndsInTime(i)'
  BY DEF StreamInv, EndsInTime
<1> QED BY <1>1, <1>2, <1>3 DEF StreamInv

\* A line is sent.
LEMMA OutputWritten ==
  ASSUME OutputInv, NEW i \in Streams, Write(i)
  PROVE  OutputInv'
<1>1. /\ command = "running" /\ conn = "open" /\ unsent[i] # <<>>
      /\ UNCHANGED <<main, result, ctx, conn, command, output, reader, logged, errCh>>
  BY DEF Write, Reachable
<1>2. /\ unsent'[i] = Tail(unsent[i]) /\ pending'[i] = Append(pending[i], Head(unsent[i]))
      /\ \A s \in Streams \ {i} : unsent'[s] = unsent[s] /\ pending'[s] = pending[s]
  BY DEF Write, OutputInv, TypeOK
<1>3. StreamInv(i)'
  <2>1. /\ output[i] \in Seq(Lines) /\ unsent[i] \in Seq(Lines) /\ pending[i] \in Seq(Lines)
    BY StreamTypes DEF OutputInv
  <2>2. /\ Lined(output[i], Tail(unsent[i]), Append(pending[i], Head(unsent[i])))
        /\ Taken(output[i], Tail(unsent[i]), Append(pending[i], Head(unsent[i])))
             = Taken(output[i], unsent[i], pending[i])
    BY <1>1, <2>1, LineSent DEF OutputInv, StreamInv
  <2>3. Lined(output[i], unsent[i], pending[i])'
    BY <1>1, <1>2, <2>2
  <2>4. Taken(output'[i], unsent'[i], pending'[i]) = Taken(output[i], unsent[i], pending[i])
    BY <1>1, <1>2, <2>2
  <2>5. InTable(i)'
    <3>1. InTable(i)
      BY DEF OutputInv, StreamInv
    <3> QED BY <1>1, <2>4, <3>1 DEF InTable
  <2>6. EndsInTime(i)'
    <3>1. reader[i] = "ended" => pending[i] # <<>> /\ Head(pending[i]) = "long"
      BY <1>1 DEF OutputInv, StreamInv, EndsInTime, Ended
    <3>2. pending[i] # <<>> => pending'[i] # <<>> /\ Head(pending'[i]) = Head(pending[i])
      <4>1. Head(unsent[i]) \in Lines
        BY <1>1, <2>1, Lengths
      <4>2. Append(pending[i], Head(unsent[i])) # <<>>
        BY <2>1, <4>1, AppendProperties
      <4>3. pending[i] # <<>> => Head(Append(pending[i], Head(unsent[i]))) = Head(pending[i])
        BY <2>1, <4>1, HeadTailAppend
      <4> QED BY <1>2, <4>2, <4>3
    <3> QED BY <1>1, <3>1, <3>2 DEF EndsInTime
  <2> QED BY <2>3, <2>5, <2>6 DEF StreamInv
<1>4. ASSUME NEW s \in Streams \ {i}
      PROVE  StreamInv(s)'
  <2>1. StreamInv(s) /\ (Ended => Ended')
    BY <1>1 DEF OutputInv, Ended
  <2> QED BY <1>1, <1>2, <2>1, StreamKept
<1>5. CallInv'
  BY <1>1 DEF OutputInv, CallInv
<1>6. TypeOK'
  BY TypeStreams DEF OutputInv
<1> QED BY <1>3, <1>4, <1>5, <1>6 DEF OutputInv

\* A line is taken and given to the table; one that does not fit stays.
LEMMA OutputRead ==
  ASSUME OutputInv, NEW i \in Streams, ReadLine(i) \/ ReadEnd(i)
  PROVE  OutputInv'
<1>1. /\ reader[i] = "reading"
      /\ UNCHANGED <<main, result, ctx, conn, command, output, unsent, errCh>>
  BY DEF ReadLine, ReadEnd, peer
<1>2. \A s \in Streams \ {i} :
        pending'[s] = pending[s] /\ logged'[s] = logged[s] /\ reader'[s] = reader[s]
  BY DEF ReadLine, ReadEnd, RecordLog, OutputInv, TypeOK
<1>3. ASSUME NEW s \in Streams \ {i}
      PROVE  StreamInv(s)'
  <2>1. StreamInv(s) /\ (Ended => Ended')
    BY <1>1 DEF OutputInv, Ended
  <2> QED BY <1>1, <1>2, <2>1, StreamKept
<1>4. StreamInv(i)'
  <2>0. /\ output[i] \in Seq(Lines) /\ unsent[i] \in Seq(Lines) /\ pending[i] \in Seq(Lines)
        /\ logged[i] \in Seq(Fates) /\ StreamInv(i)
    BY StreamTypes DEF OutputInv
  <2>1. CASE UNCHANGED <<pending, logged>>
    <3>1. Lined(output[i], unsent[i], pending[i])'
      BY <1>1, <2>0, <2>1 DEF StreamInv
    <3>2. InTable(i)'
      BY <1>1, <2>0, <2>1 DEF StreamInv, InTable
    <3>3. EndsInTime(i)'
      <4>1. ReadLine(i) => pending[i] # <<>> /\ (Head(pending[i]) = "long" \/ reader' = reader)
        BY DEF ReadLine
      <4>2. ReadEnd(i) => pending[i] = <<>> /\ Ended
        BY DEF ReadEnd
      <4>3. Ended => Ended'
        BY <1>1 DEF Ended
      <4> QED BY <1>1, <2>1, <4>1, <4>2, <4>3 DEF EndsInTime
    <3> QED BY <3>1, <3>2, <3>3 DEF StreamInv
  <2>2. CASE /\ pending[i] # <<>> /\ Head(pending[i]) = "short"
             /\ pending' = [pending EXCEPT ![i] = Tail(@)]
             /\ \E fate \in Fates : logged' = [logged EXCEPT ![i] = Append(@, fate)]
             /\ UNCHANGED reader
    <3>1. /\ pending'[i] = Tail(pending[i])
          /\ \E fate \in Fates : logged'[i] = Append(logged[i], fate)
      BY <2>2 DEF OutputInv, TypeOK
    <3>2. /\ Lined(output[i], unsent[i], Tail(pending[i]))
          /\ Taken(output[i], unsent[i], Tail(pending[i]))
               = Taken(output[i], unsent[i], pending[i]) + 1
      BY <2>0, <2>2, LineTaken DEF StreamInv
    <3>3. Lined(output[i], unsent[i], pending[i])'
      BY <1>1, <3>1, <3>2
    <3>4. Taken(output'[i], unsent'[i], pending'[i]) = Taken(output[i], unsent[i], pending[i]) + 1
      BY <1>1, <3>1, <3>2
    <3>5. Len(logged'[i]) = Len(logged[i]) + 1
      BY <2>0, <3>1, OneMore
    <3>6. Len(logged[i]) = Taken(output[i], unsent[i], pending[i])
      BY <2>0 DEF StreamInv, InTable
    <3>7. InTable(i)'
      BY <3>4, <3>5, <3>6 DEF InTable
    <3>8. EndsInTime(i)'
      BY <1>1, <2>2 DEF EndsInTime
    <3> QED BY <3>3, <3>7, <3>8 DEF StreamInv
  <2>3. UNCHANGED <<pending, logged>> \/
          /\ pending[i] # <<>> /\ Head(pending[i]) = "short"
          /\ pending' = [pending EXCEPT ![i] = Tail(@)]
          /\ \E fate \in Fates : logged' = [logged EXCEPT ![i] = Append(@, fate)]
          /\ UNCHANGED reader
    BY DEF ReadLine, ReadEnd, RecordLog, Fates
  <2> QED BY <2>1, <2>2, <2>3
<1>5. CallInv'
  <2>1. reader[i] # "none" /\ main \notin {"dial", "session"}
    BY <1>1 DEF OutputInv, CallInv
  <2>2. command = "none" => \A s \in Streams : pending'[s] = <<>>
    BY <1>1, <1>2 DEF ReadLine, ReadEnd, OutputInv, CallInv
  <2>3. main = "done" /\ command # "none" => \A s \in Streams : reader'[s] = "ended"
    BY <1>1, <1>2 DEF OutputInv, CallInv
  <2> QED BY <1>1, <2>1, <2>2, <2>3 DEF OutputInv, CallInv
<1>6. TypeOK'
  BY TypeStreams DEF OutputInv
<1> QED BY <1>3, <1>4, <1>5, <1>6 DEF OutputInv

\* All other steps leave the lines where they are.
LEMMA OutputKept ==
  ASSUME OutputInv, UNCHANGED <<output, unsent, pending, logged>>, TypeOK', CallInv',
         \A i \in Streams : reader'[i] = "ended" => reader[i] = "ended" /\ (Ended => Ended')
  PROVE  OutputInv'
<1>1. \A i \in Streams : StreamInv(i)'
  BY StreamKept DEF OutputInv
<1> QED BY <1>1 DEF OutputInv

LEMMA OutputStep == OutputInv /\ [Next]_vars => OutputInv'
<1> SUFFICES ASSUME OutputInv, [Next]_vars
             PROVE  OutputInv'
  OBVIOUS
<1>0. TypeOK /\ TypeOK' /\ CallInv
  BY TypeStep DEF OutputInv
<1> USE DEF peer, readers, watchdog
<1>1. CASE Main
  <2>1. CallInv'
    BY <1>0, <1>1 DEF CallInv, TypeOK, Main, Dial, NewSession, StartCommand, Cancelled, Reap,
                      Exited, WaitReaders, Return
  <2>2. UNCHANGED <<output, unsent, pending, logged>>
    BY <1>1 DEF Main, Dial, NewSession, StartCommand, Cancelled, Reap, Exited, WaitReaders
  <2>3. \A i \in Streams : reader'[i] = "ended" => reader[i] = "ended" /\ (Ended => Ended')
    BY <1>0, <1>1 DEF CallInv, TypeOK, Ended, Main, Dial, NewSession, StartCommand, Cancelled,
                      Reap, Exited, WaitReaders, Return
  <2> QED BY <1>0, <2>1, <2>2, <2>3, OutputKept
<1>2. CASE SessionWait \/ Keepalive \/ ProbeReturns
  <2>1. CallInv'
    BY <1>0, <1>2 DEF CallInv, SessionWait, Keepalive, Tick, ProbeAnswered, ProbeFails,
                      KeepaliveStops, ProbeReturns
  <2>2. UNCHANGED <<output, unsent, pending, logged, reader>> /\ (Ended => Ended')
    BY <1>2 DEF Ended, SessionWait, Keepalive, Tick, ProbeAnswered, ProbeFails,
                KeepaliveStops, ProbeReturns
  <2> QED BY <1>0, <2>1, <2>2, OutputKept
<1>3. CASE (\E status \in {"ok", "error"} : Exit(status)) \/ GoSilent \/ Break \/ CancelContext
  <2>1. CallInv'
    BY <1>0, <1>3 DEF CallInv, Exit, GoSilent, Break, CancelContext
  <2>2. /\ UNCHANGED <<output, unsent, pending, logged, reader>>
        /\ (Ended => Ended')
    BY <1>3 DEF Ended, Exit, GoSilent, Break, CancelContext
  <2> QED BY <1>0, <2>1, <2>2, OutputKept
<1>4. CASE UNCHANGED vars
  <2>1. CallInv' /\ UNCHANGED <<output, unsent, pending, logged, reader>> /\ (Ended => Ended')
    BY <1>0, <1>4 DEF CallInv, vars, Ended
  <2> QED BY <1>0, <2>1, OutputKept
<1> QED BY <1>1, <1>2, <1>3, <1>4, OutputWritten, OutputRead DEF Next, Environment

\* No more than can be read has been given to the table, and after a success all of it.
LEMMA OutputShown == OutputInv => SuccessIsComplete
<1> SUFFICES ASSUME OutputInv
             PROVE  SuccessIsComplete
  OBVIOUS
<1>1. ASSUME NEW i \in Streams
      PROVE  /\ Len(logged[i]) <= Readable(i)
             /\ main = "done" /\ result = "ok" => Len(logged[i]) = Readable(i)
  <2> DEFINE t == Taken(output[i], unsent[i], pending[i])
             r == Readable(i)
  <2>1. /\ output[i] \in Seq(Lines) /\ unsent[i] \in Seq(Lines) /\ pending[i] \in Seq(Lines)
        /\ StreamInv(i)
    BY StreamTypes DEF OutputInv
  <2>2. Len(output[i]) \in Nat /\ Len(unsent[i]) \in Nat /\ Len(pending[i]) \in Nat
    BY <2>1, Lengths
  <2>3. t \in 0 .. Len(output[i]) /\ \A k \in 1 .. t : output[i][k] = "short"
    <3>1. t >= 0 /\ \A k \in 1 .. t : output[i][k] = "short"
      BY <2>1 DEF StreamInv, Lined
    <3>2. t \in Int /\ t <= Len(output[i])
      BY <2>1, TakenBounds
    <3> QED BY <2>2, <3>1, <3>2
  <2>4. /\ r \in 0 .. Len(output[i]) /\ \A k \in 1 .. r : output[i][k] = "short"
        /\ r < Len(output[i]) => output[i][r + 1] = "long"
    BY <2>1, ReadableIs
  <2>5. Len(logged[i]) = t
    BY <2>1 DEF StreamInv, InTable
  <2> HIDE DEF t, r
  <2>6. t <= r
    <3> SUFFICES ASSUME r < t
                 PROVE  FALSE
      BY <2>3, <2>4
    <3>1. r + 1 \in 1 .. t /\ r < Len(output[i])
      BY <2>2, <2>3, <2>4
    <3> QED BY <2>3, <2>4, <3>1
  <2>7. ASSUME main = "done", result = "ok"
        PROVE  Len(logged[i]) = r
    <3>1. unsent[i] = <<>> /\ reader[i] = "ended"
      BY <2>7 DEF OutputInv, CallInv
    <3>2. Len(unsent[i]) = 0
      BY <3>1
    <3>3. CASE pending[i] = <<>>
      <4>1. Len(pending[i]) = 0
        BY <3>3
      <4>2. t = Len(output[i])
        BY <2>2, <3>2, <4>1 DEF t, Taken
      <4> QED BY <2>3, <2>4, <2>5, <2>6, <2>7, <4>2
    <3>4. CASE pending[i] # <<>> /\ Head(pending[i]) = "long"
      <4>1. Head(pending[i]) = pending[i][1] /\ 1 \in 1 .. Len(pending[i])
        BY <2>1, <2>2, <3>4, Lengths
      <4>2. output[i][t + 1] = "long"
        BY <2>1, <3>4, <4>1 DEF t, StreamInv, Lined
      <4>3. r <= t
        BY <2>3, <2>4, <4>2
      <4> QED BY <2>3, <2>4, <2>5, <2>6, <2>7, <4>3
    <3> QED BY <2>1, <3>1, <3>3, <3>4 DEF StreamInv, EndsInTime
  <2> QED BY <2>5, <2>6, <2>7 DEF r
<1>2. main = "done" /\ result = "ok" => command = "ok"
  BY DEF OutputInv, CallInv
<1> QED BY <1>1, <1>2 DEF SuccessIsComplete

\* After the call has returned no reader takes a line.
LEMMA NoLateLinesStep == OutputInv /\ [Next]_vars => NoLateLines
<1> SUFFICES ASSUME OutputInv, [Next]_vars, main = "done"
             PROVE  logged' = logged
  BY DEF NoLateLines
<1>1. ASSUME NEW i \in Streams, ReadLine(i)
      PROVE  FALSE
  <2>1. reader[i] = "reading" /\ pending[i] # <<>>
    BY <1>1 DEF ReadLine
  <2> QED BY <2>1 DEF OutputInv, CallInv
<1> QED BY <1>1 DEF Next, Main, Dial, NewSession, StartCommand, Cancelled, Reap, Exited,
           WaitReaders, SessionWait, Keepalive, Tick, ProbeAnswered, ProbeFails, KeepaliveStops,
           ProbeReturns, ReadEnd, Environment, Write, Exit, GoSilent, Break, CancelContext,
           vars, readers

\* All the output of a successful command has been given to the table when its call
\* returns, up to a line that does not fit and whatever inserts failed or contexts ended
\* meanwhile, and nothing is added to it later.
THEOREM OutputDoesComplete == Spec => OutputIsComplete
<1>1. OutputInv /\ [Next]_vars => OutputInv' /\ NoLateLines
  BY OutputStep, NoLateLinesStep
<1>2. OutputInv' => SuccessIsComplete'
  BY OutputShown, PTL
<1> QED BY <1>1, <1>2, OutputInit, PTL DEF Spec, OutputIsComplete
=============================================================================
