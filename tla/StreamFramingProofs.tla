------------------------- MODULE StreamFramingProofs -------------------------
(***************************************************************************)
(* Framing is correct for every record size, any number of streams and     *)
(* any cut of the bytes into events.                                       *)
(***************************************************************************)
EXTENDS StreamFraming, SequenceTheorems, TLAPS

\* The bytes erased are those of the records delivered, and the records
\* delivered are the first ones written.
Aligned(s) ==
    /\ erased[s] = RecordSize * Len(delivered[s])
    /\ delivered[s] \in Seq(Record)
    /\ Len(delivered[s]) <= Len(written[s])
    /\ \A i \in 1..Len(delivered[s]) : delivered[s][i] = written[s][i]
    /\ stage[s] # "framing" => Pending(s) < RecordSize

IInv == TypeOK /\ \A s \in Stream : Aligned(s)

LEMMA WholeRecords ==
    ASSUME NEW k \in Nat, NEW n \in Nat, NEW size \in Nat \ {0},
           size * k + size <= size * n
    PROVE  k + 1 <= n
OBVIOUS

LEMMA WholeRecordsUp ==
    ASSUME NEW k \in Nat, NEW n \in Nat, NEW size \in Nat \ {0}, k <= n
    PROVE  size * k <= size * n
OBVIOUS

LEMMA RecordStart ==
    ASSUME NEW k \in Nat, NEW size \in Nat \ {0}
    PROVE  (size * k) % size = 0 /\ (size * k) \div size = k
OBVIOUS

\* One turn of the loop delivers exactly the next record written.
LEMMA FrameDelivers ==
    ASSUME IInv, NEW s \in Stream, Frame(s)
    PROVE  /\ Len(delivered[s]) < Len(written[s])
           /\ RecordAt(s, erased[s]) = written[s][Len(delivered[s]) + 1]
           /\ RecordAt(s, erased[s]) \in Record
<1> DEFINE k == Len(delivered[s])
           n == Len(written[s])
<1>1. /\ written[s] \in Seq(Record) /\ k \in Nat /\ n \in Nat
      /\ received[s] \in Nat /\ erased[s] = RecordSize * k
      /\ RecordSize \in Nat \ {0}
  BY SizeAssumption DEF IInv, TypeOK, Aligned
<1>2. received[s] - erased[s] >= RecordSize /\ RecordSize * n - received[s] >= 0
  BY DEF Frame, IInv, TypeOK, Pending, InFlight
<1>3. RecordSize * k + RecordSize <= RecordSize * n
  BY <1>1, <1>2
<1>4. k + 1 <= n
  BY <1>1, <1>3, WholeRecords
<1>5. RecordAt(s, erased[s]) = written[s][k + 1]
  <2>1. (RecordSize * k) % RecordSize = 0 /\ (RecordSize * k) \div RecordSize = k
    BY <1>1, RecordStart
  <2>2. erased[s] % RecordSize = 0 /\ erased[s] \div RecordSize = k
    BY <1>1, <2>1
  <2>3. QED
    BY <2>2 DEF RecordAt
<1>6. QED
  BY <1>1, <1>4, <1>5

LEMMA InitIInv == Init => IInv
<1> SUFFICES ASSUME Init PROVE IInv
  OBVIOUS
<1>1. TypeOK
  BY SizeAssumption DEF Init, TypeOK, Pending, InFlight
<1>2. ASSUME NEW s \in Stream PROVE Aligned(s)
  BY SizeAssumption DEF Init, Aligned, Pending
<1>3. QED
  BY <1>1, <1>2 DEF IInv

LEMMA WriteIInv ==
    ASSUME IInv, NEW s \in Stream, NEW r \in Record, Write(s, r)
    PROVE  IInv'
<1>1. written[s] \in Seq(Record) /\ Append(written[s], r) \in Seq(Record)
      /\ Len(Append(written[s], r)) = Len(written[s]) + 1
      /\ \A i \in 1..Len(written[s]) : Append(written[s], r)[i] = written[s][i]
  BY DEF IInv, TypeOK
<1>2. written' = [written EXCEPT ![s] = Append(written[s], r)]
      /\ UNCHANGED <<finished, received, erased, delivered, stage>>
  BY DEF Write
<1>3. TypeOK'
  <2>1. \A t \in Stream : Pending(t)' >= 0
    BY <1>2 DEF IInv, TypeOK, Pending
  <2>2. ASSUME NEW t \in Stream PROVE InFlight(t)' >= 0
    <3>1. CASE t = s
      <4>1. RecordSize * (Len(written[s]) + 1) = RecordSize * Len(written[s]) + RecordSize
        BY <1>1, SizeAssumption
      <4>2. QED
        BY <1>1, <1>2, <3>1, <4>1, SizeAssumption DEF IInv, TypeOK, InFlight
    <3>2. CASE t # s
      BY <1>2, <3>2 DEF IInv, TypeOK, InFlight
    <3>3. QED
      BY <3>1, <3>2
  <2>3. QED
    BY <1>1, <1>2, <2>1, <2>2 DEF IInv, TypeOK
<1>4. ASSUME NEW t \in Stream PROVE Aligned(t)'
  <2>1. CASE t = s
    <3>1. written'[s] = Append(written[s], r)
      BY <1>2 DEF IInv, TypeOK
    <3>2. QED
      BY <1>1, <1>2, <2>1, <3>1 DEF IInv, Aligned, Pending
  <2>2. CASE t # s
    <3>1. written'[t] = written[t]
      BY <1>2, <2>2 DEF IInv, TypeOK
    <3>2. QED
      BY <1>2, <3>1 DEF IInv, Aligned, Pending
  <2>3. QED
    BY <2>1, <2>2
<1>5. QED
  BY <1>3, <1>4 DEF IInv

LEMMA ReceiveIInv ==
    ASSUME IInv, NEW s \in Stream, NEW n \in Nat, Receive(s, n)
    PROVE  IInv'
<1>1. /\ received' = [received EXCEPT ![s] = received[s] + n]
      /\ stage' = [stage EXCEPT ![s] = "framing"]
      /\ n <= InFlight(s)
      /\ UNCHANGED <<written, finished, erased, delivered>>
  BY DEF Receive
<1>2. \A t \in Stream : written[t] \in Seq(Record) /\ Len(written[t]) \in Nat
                        /\ RecordSize * Len(written[t]) \in Nat
  BY SizeAssumption DEF IInv, TypeOK
<1>3. TypeOK'
  <2>1. ASSUME NEW t \in Stream PROVE Pending(t)' >= 0 /\ InFlight(t)' >= 0
    BY <1>1, <1>2 DEF IInv, TypeOK, Pending, InFlight
  <2>2. QED
    BY <1>1, <2>1 DEF IInv, TypeOK
<1>4. ASSUME NEW t \in Stream PROVE Aligned(t)'
  <2>1. stage'[t] # "framing" => t # s
    BY <1>1 DEF IInv, TypeOK
  <2>2. t # s => stage'[t] = stage[t] /\ received'[t] = received[t]
    BY <1>1 DEF IInv, TypeOK
  <2>3. QED
    BY <1>1, <2>1, <2>2 DEF IInv, Aligned, Pending
<1>5. QED
  BY <1>3, <1>4 DEF IInv

LEMMA FrameIInv ==
    ASSUME IInv, NEW s \in Stream, Frame(s)
    PROVE  IInv'
<1> DEFINE rec == RecordAt(s, erased[s])
           k == Len(delivered[s])
<1>1. k < Len(written[s]) /\ rec = written[s][k + 1] /\ rec \in Record
  BY FrameDelivers
<1>2. /\ delivered' = [delivered EXCEPT ![s] = Append(delivered[s], rec)]
      /\ erased' = [erased EXCEPT ![s] = erased[s] + RecordSize]
      /\ UNCHANGED <<written, finished, received, stage>>
      /\ stage[s] = "framing" /\ Pending(s) >= RecordSize
  BY DEF Frame
<1>3. delivered[s] \in Seq(Record) /\ k \in Nat
  BY DEF IInv, Aligned
<1> HIDE DEF rec
<1>4. /\ Append(delivered[s], rec) \in Seq(Record)
      /\ Len(Append(delivered[s], rec)) = k + 1
      /\ \A i \in 1..k : Append(delivered[s], rec)[i] = delivered[s][i]
      /\ Append(delivered[s], rec)[k + 1] = rec
  BY <1>1, <1>3
<1>5. TypeOK'
  <2>1. ASSUME NEW t \in Stream PROVE Pending(t)' >= 0
    <3>1. CASE t = s
      BY <1>2, <3>1, SizeAssumption DEF IInv, TypeOK, Pending
    <3>2. CASE t # s
      BY <1>2, <3>2 DEF IInv, TypeOK, Pending
    <3>3. QED
      BY <3>1, <3>2
  <2>2. \A t \in Stream : InFlight(t)' >= 0
    BY <1>2 DEF IInv, TypeOK, InFlight
  <2>3. delivered' \in [Stream -> Seq(Record \cup {Garbled})]
    BY <1>1, <1>2 DEF IInv, TypeOK
  <2>4. erased' \in [Stream -> Nat]
    BY <1>2, SizeAssumption DEF IInv, TypeOK
  <2>5. QED
    BY <1>2, <2>1, <2>2, <2>3, <2>4 DEF IInv, TypeOK
<1>6. ASSUME NEW t \in Stream PROVE Aligned(t)'
  <2>1. CASE t = s
    <3>1. delivered'[s] = Append(delivered[s], rec) /\ erased'[s] = erased[s] + RecordSize
      BY <1>2 DEF IInv, TypeOK
    <3>2. RecordSize * (k + 1) = RecordSize * k + RecordSize
      BY <1>3, SizeAssumption
    <3>3. erased'[s] = RecordSize * Len(delivered'[s])
      BY <1>4, <3>1, <3>2 DEF IInv, Aligned
    <3>4. \A i \in 1..k + 1 : delivered'[s][i] = written[s][i]
      BY <1>1, <1>3, <1>4, <3>1 DEF IInv, Aligned
    <3>5. k + 1 <= Len(written[s])
      BY <1>1, <1>3 DEF IInv, TypeOK
    <3>6. QED
      BY <1>2, <1>4, <2>1, <3>1, <3>3, <3>4, <3>5 DEF Aligned
  <2>2. CASE t # s
    <3>1. delivered'[t] = delivered[t] /\ erased'[t] = erased[t]
      BY <1>2, <2>2 DEF IInv, TypeOK
    <3>2. QED
      BY <1>2, <3>1 DEF IInv, Aligned, Pending
  <2>3. QED
    BY <2>1, <2>2
<1>7. QED
  BY <1>5, <1>6 DEF IInv

\* The end of the loop and the end of a stream move no bytes.
LEMMA StageIInv ==
    ASSUME IInv, NEW s \in Stream, Framed(s) \/ Close(s)
    PROVE  IInv'
<1>1. TypeOK'
  BY DEF IInv, TypeOK, Framed, Close, Pending, InFlight
<1>2. ASSUME NEW t \in Stream PROVE Aligned(t)'
  <2>1. UNCHANGED <<written, received, erased, delivered>>
    BY DEF Framed, Close
  <2>2. t # s => stage'[t] = stage[t]
    BY DEF IInv, TypeOK, Framed, Close
  <2>3. Pending(s) < RecordSize
    BY DEF IInv, Aligned, Framed, Close
  <2>4. QED
    BY <2>1, <2>2, <2>3 DEF IInv, Aligned, Pending
<1>3. QED
  BY <1>1, <1>2 DEF IInv

LEMMA StepIInv == IInv /\ [Next]_vars => IInv'
<1> SUFFICES ASSUME IInv, [Next]_vars PROVE IInv'
  OBVIOUS
<1>1. CASE Next
  <2>1. PICK s \in Stream :
           \/ \E r \in Record : Write(s, r)
           \/ Finish(s)
           \/ \E n \in 1..RecordSize * MaxWrites : Receive(s, n)
           \/ Frame(s)
           \/ Framed(s)
           \/ PeerSendShutdown(s)
           \/ ShutdownComplete(s)
    BY <1>1 DEF Next
  <2>2. CASE \E r \in Record : Write(s, r)
    BY <2>2, WriteIInv
  <2>3. CASE Finish(s)
    BY <2>3 DEF Finish, IInv, TypeOK, Aligned, Pending, InFlight
  <2>4. CASE \E n \in 1..RecordSize * MaxWrites : Receive(s, n)
    BY <2>4, ReceiveIInv, SizeAssumption
  <2>5. CASE Frame(s)
    BY <2>5, FrameIInv
  <2>6. CASE Framed(s) \/ PeerSendShutdown(s) \/ ShutdownComplete(s)
    BY <2>6, StageIInv DEF PeerSendShutdown, ShutdownComplete
  <2>7. QED
    BY <2>1, <2>2, <2>3, <2>4, <2>5, <2>6
<1>2. CASE UNCHANGED vars
  BY <1>2 DEF vars, IInv, TypeOK, Aligned, Pending, InFlight
<1>3. QED
  BY <1>1, <1>2

\* Every reachable state is typed and aligned.
THEOREM AlignedAlways == Spec => []IInv
BY InitIInv, StepIInv, PTL DEF Spec

\* Every reachable state is typed.
THEOREM TypeCorrect == Spec => []TypeOK
<1>1. IInv => TypeOK
  BY DEF IInv
<1>2. QED
  BY <1>1, AlignedAlways, PTL

\* No whole record is ever held back in the buffer.
THEOREM NothingHeldBackAlways == Spec => []NothingHeldBack
<1>1. IInv => NothingHeldBack
  BY DEF IInv, Aligned, NothingHeldBack
<1>2. QED
  BY <1>1, AlignedAlways, PTL

-----------------------------------------------------------------------------
\* A stream whose bytes have all come and whose loop has ended is delivered.
LEMMA AllDelivered ==
    ASSUME IInv, NEW s \in Stream, stage[s] = "open", InFlight(s) = 0
    PROVE  delivered[s] = written[s]
<1> DEFINE k == Len(delivered[s])
           n == Len(written[s])
<1>1. /\ written[s] \in Seq(Record) /\ delivered[s] \in Seq(Record)
      /\ k \in Nat /\ n \in Nat /\ k <= n
      /\ received[s] \in Nat /\ erased[s] = RecordSize * k
      /\ received[s] = RecordSize * n
      /\ received[s] - erased[s] < RecordSize
      /\ RecordSize \in Nat \ {0}
  <2>1. RecordSize * n \in Nat
    BY SizeAssumption DEF IInv, TypeOK
  <2>2. QED
    BY <2>1, SizeAssumption DEF IInv, TypeOK, Aligned, Pending, InFlight
<1>2. ~(RecordSize * k + RecordSize <= RecordSize * n)
  <2> DEFINE rk == RecordSize * k
             rn == RecordSize * n
  <2>1. rk \in Nat /\ rn \in Nat
    BY <1>1
  <2>2. rn - rk < RecordSize
    BY <1>1
  <2> HIDE DEF rk, rn
  <2>3. ~(rk + RecordSize <= rn)
    BY <1>1, <2>1, <2>2
  <2>4. QED
    BY <2>3 DEF rk, rn
<1>3. k = n
  <2>1. ASSUME k + 1 <= n
        PROVE  FALSE
    <3>1. RecordSize * (k + 1) <= RecordSize * n
      <4>1. k + 1 \in Nat /\ n \in Nat
        BY <1>1
      <4> HIDE DEF k, n
      <4>2. QED
        BY <1>1, <2>1, <4>1, WholeRecordsUp
    <3>2. RecordSize * (k + 1) = RecordSize * k + RecordSize
      BY <1>1
    <3>3. QED
      BY <1>2, <3>1, <3>2
  <2>2. QED
    BY <1>1, <2>1
<1>4. \A i \in 1..n : delivered[s][i] = written[s][i]
  BY <1>3 DEF IInv, Aligned
<1>5. QED
  BY <1>1, <1>3, <1>4, SeqEqual

\* An orderly close loses nothing.
THEOREM OrderlyCloseAlways == Spec => OrderlyCloseDelivers
<1>1. IInv /\ [Next]_vars
        => [\A s \in Stream : PeerSendShutdown(s) => delivered[s] = written[s]]_vars
  BY AllDelivered DEF PeerSendShutdown, Close
<1>2. QED
  BY <1>1, AlignedAlways, PTL DEF Spec, OrderlyCloseDelivers

-----------------------------------------------------------------------------
\* Framing implements the record channel.
THEOREM ChannelImplemented == Spec => ImplementsChannel
<1> USE DEF Channel!ChannelInit, Channel!ChannelNext, Channel!chan
<1>1. Init => Channel!ChannelInit
  BY DEF Init
<1>2. IInv /\ [Next]_vars => [Channel!ChannelNext]_(Channel!chan)
  <2> SUFFICES ASSUME IInv, [Next]_vars PROVE [Channel!ChannelNext]_(Channel!chan)
    OBVIOUS
  <2> DEFINE shut == {s \in Stream : stage[s] = "closed"}
  <2>1. ASSUME NEW s \in Stream, NEW r \in Record, Write(s, r)
        PROVE  Channel!ChannelWrite(s, r)
    BY <2>1 DEF Write, Channel!ChannelWrite
  <2>2. ASSUME NEW s \in Stream, Frame(s)
        PROVE  Channel!ChannelDeliver(s)
    <3>1. Len(delivered[s]) < Len(written[s])
          /\ RecordAt(s, erased[s]) = written[s][Len(delivered[s]) + 1]
      BY <2>2, FrameDelivers
    <3>2. delivered' = [delivered EXCEPT ![s] = Append(delivered[s], RecordAt(s, erased[s]))]
          /\ UNCHANGED <<written, stage>> /\ stage[s] = "framing"
      BY <2>2 DEF Frame
    <3>3. s \notin shut /\ shut' = shut
      BY <3>2
    <3>4. QED
      BY <3>1, <3>2, <3>3 DEF Channel!ChannelDeliver
  <2>3. ASSUME NEW s \in Stream, Close(s)
        PROVE  Channel!ChannelClose({s})
    <3>1. stage[s] = "open" /\ stage' = [stage EXCEPT ![s] = "closed"]
          /\ UNCHANGED <<written, delivered>>
      BY <2>3 DEF Close
    <3>2. shut' = shut \cup {s}
      BY <3>1 DEF IInv, TypeOK
    <3>3. QED
      BY <3>1, <3>2 DEF Channel!ChannelClose
  <2>4. ASSUME \/ UNCHANGED vars
               \/ \E s \in Stream :
                     \/ Finish(s)
                     \/ Framed(s)
                     \/ \E n \in 1..RecordSize * MaxWrites : Receive(s, n)
        PROVE  UNCHANGED <<written, delivered, shut>>
    <3>1. UNCHANGED <<written, delivered>>
      BY <2>4 DEF Finish, Framed, Receive, vars
    <3>2. \A t \in Stream : stage'[t] = "closed" <=> stage[t] = "closed"
      BY <2>4 DEF Finish, Framed, Receive, IInv, TypeOK, vars
    <3>3. QED
      BY <3>1, <3>2
  <2> QED BY <2>1, <2>2, <2>3, <2>4 DEF Next, PeerSendShutdown, ShutdownComplete
<1>3. QED
  BY <1>1, <1>2, AlignedAlways, PTL DEF Spec, ImplementsChannel, Channel!ChannelSpec

=============================================================================
