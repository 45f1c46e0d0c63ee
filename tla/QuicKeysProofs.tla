---------------------------- MODULE QuicKeysProofs ----------------------------
(***************************************************************************)
(* What holds of QuicKeys for every workload, delay, jitter, loss and      *)
(* snapshot rate: the outboxes keep the delay they advertise (OnTime), its *)
(* states are typed, and its daemon is the one of KeyDaemon.               *)
(*                                                                         *)
(* OnTime alone is not inductive.  A payload that waits in the heap is     *)
(* behind the one its task sleeps on, so the invariant says when that one  *)
(* goes: in time for every payload behind it (Ahead).  A payload that      *)
(* comes in later finds this true because the sleeping one was enqueued    *)
(* before it and got no more than the longest delay (Dated).               *)
(***************************************************************************)
EXTENDS QuicKeys, SequenceTheorems, TLAPS

MaxDelay == Base + Jitter

\* What was enqueued has a time in the past and is sent at most MaxDelay after it.
ItemDated(i) ==
    /\ i.born \in Nat /\ i.at \in Nat
    /\ i.born <= now
    /\ i.at <= i.born + MaxDelay

Dated == \A b \in Box : \A i \in Held(b) : ItemDated(i)

Ahead ==
    \A b \in Box : sleeping[b] # NoItem =>
        \A i \in pq[b] : sleeping[b].at <= i.born + MaxDelay

OutboxInv ==
    /\ now \in Nat
    /\ DOMAIN pq = Box /\ DOMAIN sleeping = Box
    /\ pq = [b \in Box |-> pq[b]] /\ sleeping = [b \in Box |-> sleeping[b]]
    /\ Dated /\ Ahead /\ OnTime
-----------------------------------------------------------------------------
\* A delay is at most base_ms plus jitter_ms.
LEMMA DelayRange == \A d \in Delay : d \in Nat /\ d <= MaxDelay
BY DelayAssumption DEF Delay, MaxDelay

\* A payload taken in keeps the invariant: it is dated now, and what sleeps ahead of
\* it was enqueued no later.
LEMMA PushKeeps ==
    ASSUME OutboxInv, NEW c \in Box, NEW n, NEW p, Push(c, n, p), now' = now
    PROVE  OutboxInv'
<1>1. PICK d \in Delay :
        pq' = [pq EXCEPT ![c] = @ \cup {[n |-> n, p |-> p, born |-> now, at |-> now + d]}]
  BY DEF Push
<1> DEFINE new == [n |-> n, p |-> p, born |-> now, at |-> now + d]
<1>2. new.born = now /\ new.at = now + d /\ d \in Nat /\ d <= MaxDelay /\ MaxDelay \in Nat
  BY DelayRange, DelayAssumption DEF MaxDelay
<1>3. now \in Nat /\ sleeping' = sleeping
  BY DEF OutboxInv, Push
<1>4. \A b \in Box : pq'[b] = IF b = c THEN pq[b] \cup {new} ELSE pq[b]
  BY <1>1 DEF OutboxInv
<1> HIDE DEF new
<1>5. \A b \in Box : \A i \in Held(b)' : i \in Held(b) \/ i = new
  BY <1>3, <1>4 DEF Held
<1>6. Dated'
  BY <1>2, <1>3, <1>5 DEF OutboxInv, Dated, ItemDated, MaxDelay
<1>7. Ahead'
  <2> SUFFICES ASSUME NEW b \in Box, sleeping[b] # NoItem, NEW i \in pq'[b]
               PROVE  sleeping[b].at <= i.born + MaxDelay
    BY <1>3 DEF Ahead, MaxDelay
  <2>1. CASE i \in pq[b]
    BY <2>1 DEF OutboxInv, Ahead
  <2>2. CASE i = new
    <3>1. ItemDated(sleeping[b])
      BY DEF OutboxInv, Dated, Held
    <3> QED BY <2>2, <3>1, <1>2, <1>3 DEF ItemDated
  <2> QED BY <2>1, <2>2, <1>4
<1>8. OnTime'
  <2> SUFFICES ASSUME NEW b \in Box, NEW i \in Held(b)'
               PROVE  now <= i.born + Base + Jitter
    BY DEF OnTime
  <2> QED BY <1>2, <1>3, <1>5, DelayAssumption DEF OutboxInv, OnTime
<1> QED BY <1>1, <1>3, <1>6, <1>7, <1>8 DEF OutboxInv

\* Taking the first item of the heap keeps the invariant: it is due before the
\* others, and each of those is due within MaxDelay of its own enqueuing.
LEMMA PopKeeps ==
    ASSUME OutboxInv, NEW c \in Box, Pop(c), now' = now
    PROVE  OutboxInv'
<1>1. PICK i \in pq[c] :
        /\ \A j \in pq[c] : Sooner(i, j)
        /\ sleeping' = [sleeping EXCEPT ![c] = i]
        /\ pq' = [pq EXCEPT ![c] = @ \ {i}]
    BY DEF Pop
<1>2. \A b \in Box : /\ sleeping'[b] = IF b = c THEN i ELSE sleeping[b]
                     /\ pq'[b] = IF b = c THEN pq[b] \ {i} ELSE pq[b]
    BY <1>1 DEF OutboxInv
<1>3. \A b \in Box : Held(b)' \subseteq Held(b)
    BY <1>2 DEF Held
<1>4. Dated'
    BY <1>3 DEF OutboxInv, Dated, ItemDated, MaxDelay
<1>5. Ahead'
    <2> SUFFICES ASSUME NEW b \in Box, sleeping'[b] # NoItem, NEW j \in pq'[b]
                 PROVE  sleeping'[b].at <= j.born + MaxDelay
        BY DEF Ahead, MaxDelay
    <2>1. CASE b = c
        <3>1. i.at <= j.at
            BY <1>1, <1>2, <2>1 DEF Sooner, OutboxInv, Dated, ItemDated, Held
        <3>2. ItemDated(i) /\ ItemDated(j)
            BY <1>2, <2>1 DEF OutboxInv, Dated, Held
        <3>3. sleeping'[b] = i
            BY <1>2, <2>1
        <3>4. MaxDelay \in Nat
            BY DelayAssumption DEF MaxDelay
        <3> QED BY <3>1, <3>2, <3>3, <3>4 DEF ItemDated
    <2>2. CASE b # c
        BY <1>2, <2>2 DEF OutboxInv, Ahead
    <2> QED BY <2>1, <2>2
<1>6. OnTime'
    BY <1>3 DEF OutboxInv, OnTime
<1> QED BY <1>1, <1>4, <1>5, <1>6 DEF OutboxInv

\* Sending the payload keeps the invariant, which then asks less.
LEMMA EmitKeeps ==
    ASSUME OutboxInv, NEW c \in Box, Emit(c), now' = now
    PROVE  OutboxInv'
<1>1. /\ sleeping' = [sleeping EXCEPT ![c] = NoItem]
      /\ pq' = pq
    BY DEF Emit
<1>2. \A b \in Box : Held(b)' \subseteq Held(b) /\ sleeping'[b] \in {NoItem, sleeping[b]}
    BY <1>1 DEF Held, OutboxInv
<1>3. Dated' /\ OnTime'
    BY <1>2 DEF OutboxInv, Dated, OnTime, ItemDated, MaxDelay
<1>4. Ahead'
    BY <1>1, <1>2 DEF OutboxInv, Ahead, MaxDelay
<1> QED BY <1>1, <1>3, <1>4 DEF OutboxInv

\* A step that leaves heap, task and time alone keeps the invariant.
LEMMA OthersKeep ==
    ASSUME OutboxInv, UNCHANGED <<now, pq, sleeping>>
    PROVE  OutboxInv'
BY DEF OutboxInv, Dated, Ahead, OnTime, Held, ItemDated, MaxDelay

\* Time passes only when every task sleeps on something due later, or on an
\* empty heap: what waits behind the sleeper is in time as well (Ahead).
LEMMA TickKeeps ==
    ASSUME OutboxInv, \A b \in Box : ~BoxDue(b), now' = now + 1, UNCHANGED outbox
    PROVE  OutboxInv'
<1>1. now \in Nat /\ pq' = pq /\ sleeping' = sleeping
    BY DEF OutboxInv, outbox
<1>2. \A b \in Box : Held(b)' = Held(b)
    BY <1>1 DEF Held
<1>3. Dated'
    BY <1>1, <1>2 DEF OutboxInv, Dated, ItemDated, MaxDelay
<1>4. Ahead'
    BY <1>1 DEF OutboxInv, Ahead, MaxDelay
<1>5. OnTime'
    <2> SUFFICES ASSUME NEW b \in Box, NEW i \in Held(b)
                 PROVE  now + 1 <= i.born + Base + Jitter
        BY <1>2 DEF OnTime
    <2>1. ItemDated(i)
        BY DEF OutboxInv, Dated
    <2>2. sleeping[b] # NoItem
        BY DEF BoxDue, Held
    <2>3. ItemDated(sleeping[b])
        BY <2>2 DEF OutboxInv, Dated, Held
    <2>4. now + 1 <= sleeping[b].at
        BY <1>1, <2>2, <2>3 DEF BoxDue, ItemDated
    <2>5. sleeping[b].at <= i.born + MaxDelay
        BY <2>1, <2>2 DEF OutboxInv, Ahead, Held, ItemDated
    <2> QED BY <1>1, <2>1, <2>3, <2>4, <2>5, DelayAssumption DEF ItemDated, MaxDelay
<1> QED BY <1>1, <1>3, <1>4, <1>5 DEF OutboxInv
-----------------------------------------------------------------------------
\* Every step of the client keeps the outboxes' invariant.
LEMMA ClientKeeps ==
    ASSUME OutboxInv, ClientStep, now' = now
    PROVE  OutboxInv'
<1> USE BoxAssumption
<1>1. CASE SendEdge
    <2> DEFINE i == at["udp"]
               p == [cmd |-> Cmd[i], key |-> KeyOf[i], stamp |-> now]
    <2>1. CASE Push("udp", i, p)
        BY <2>1, PushKeeps
    <2>2. CASE UNCHANGED outbox
        BY <2>2, OthersKeep DEF outbox
    <2> QED BY <1>1, <2>1, <2>2 DEF SendEdge, Lose
<1>2. CASE TakeSnapshot
    <2>1. CASE Push("quic", seq, held)
        BY <2>1, PushKeeps
    <2>2. CASE UNCHANGED outbox
        BY <2>2, OthersKeep DEF outbox
    <2> QED BY <1>2, <2>1, <2>2 DEF TakeSnapshot, Lose
<1>3. CASE SendDatagram \/ WriteSnapshot
    BY <1>3, EmitKeeps DEF SendDatagram, WriteSnapshot
<1>4. CASE \E b \in Box : PopNext(b)
    BY <1>4, PopKeeps DEF PopNext
<1>5. CASE CloseEdges \/ CloseSnapshots
    BY <1>5, OthersKeep DEF CloseEdges, CloseSnapshots, CloseBox
<1>6. CASE HoldKeys \/ EndRun
    BY <1>6, OthersKeep DEF HoldKeys, EndRun, outbox
<1>7. CASE StartFlush
    BY <1>7, OthersKeep DEF StartFlush
<1> QED BY <1>1, <1>2, <1>3, <1>4, <1>5, <1>6, <1>7 DEF ClientStep

\* The daemon's steps touch neither the outboxes nor the time.
LEMMA DaemonClock ==
    ReceiveEdge \/ DropLateEdge \/ ReceiveSnapshot \/ Handle => now' = now
<1>1. ReceiveEdge => now' = now
  BY DEF ReceiveEdge, D!UdpReceive, D!Stamped
<1>2. DropLateEdge => now' = now
  BY DEF DropLateEdge
<1>3. ReceiveSnapshot => now' = now
  BY DEF ReceiveSnapshot, D!SnapReceive, D!Stamped
<1>4. Handle => now' = now
  BY DEF Handle, SnapApply, D!UdpMark, D!UdpApply, D!SnapApply, D!Applied, D!BuildReport,
         D!SendReport
<1> QED BY <1>1, <1>2, <1>3, <1>4

LEMMA DaemonKeeps ==
    ASSUME OutboxInv, ReceiveEdge \/ DropLateEdge \/ ReceiveSnapshot \/ Handle
    PROVE  OutboxInv'
<1>1. UNCHANGED outbox
  BY DEF ReceiveEdge, DropLateEdge, ReceiveSnapshot, Handle
<1> QED BY <1>1, DaemonClock, OthersKeep DEF outbox

\* Nothing is enqueued at the start.
LEMMA InitEstablishes == Init => OutboxInv
BY DEF Init, ClientInit, OutboxInit, OutboxInv, Dated, Ahead, OnTime, Held

LEMMA NextKeeps == OutboxInv /\ [Next]_vars => OutboxInv'
<1> SUFFICES ASSUME OutboxInv, [Next]_vars PROVE OutboxInv'
    OBVIOUS
<1>1. CASE Client
    BY <1>1, ClientKeeps DEF Client
<1>2. CASE ReceiveEdge \/ DropLateEdge \/ ReceiveSnapshot \/ Handle
    BY <1>2, DaemonKeeps
<1>3. CASE Tick
    <2>1. \A b \in Box : ~BoxDue(b)
        BY <1>3 DEF Tick, Settled, ClientDue
    <2> QED BY <1>3, <2>1, TickKeeps DEF Tick
<1>4. CASE UNCHANGED vars
    BY <1>4, OthersKeep DEF vars, outbox
<1> QED BY <1>1, <1>2, <1>3, <1>4 DEF Next

\* A payload leaves its outbox within base_ms + jitter_ms of being enqueued,
\* although its task sleeps on one payload at a time (client/hybrid_run.py:98).
THEOREM OnTimeAlways == Spec => []OnTime
<1>1. OutboxInv => OnTime
    BY DEF OutboxInv
<1> QED BY <1>1, InitEstablishes, NextKeeps, PTL DEF Spec
-----------------------------------------------------------------------------
(* Types *)

\* What travels from the client to the daemon is what the client can make.
Edges == {e \in Datagram : e.stamp \in 1..now}

ClientTypeOK ==
    /\ now \in 1..MaxTime
    /\ at \in [Walker -> 1..Last + 1]
    /\ wake \in [Walker \cup {"snap"} -> Nat]
    /\ held \subseteq Key
    /\ phase \in Connection \cup {"done"}
    /\ seconds \in Seconds /\ begun \in Nat /\ seq \in Nat
    /\ lastSnap \in Int /\ (lastSnap <= now \/ lastSnap < begun)
    /\ released \in [Key -> 1..now]
    /\ closed \subseteq Box

PayloadsOK ==
    /\ \A b \in Box : Held(b) \subseteq Item
    /\ \A i \in Held("udp") : i.p \in Edges
    /\ \A i \in Held("quic") : i.p \subseteq Key
    /\ edges \subseteq Edges
    /\ streams \in [Connection -> Seq(SUBSET Key)]

ClientInv == OutboxInv /\ ClientTypeOK /\ PayloadsOK

\* The workload is made of key events.
LEMMA EventType ==
    /\ Last \in Nat
    /\ \A i \in 1..Last : Cmd[i] \in {"down", "mup", "up"} /\ KeyOf[i] \in Key
    /\ \A i \in Nat : Sleep(i) \in Nat
<1>1. Len(Text) \in Nat /\ Last = 3 * Len(Text) /\ Last \in Nat
  BY TextAssumption DEF Last
<1>2. ASSUME NEW i \in 1..Last
      PROVE  Cmd[i] \in {"down", "mup", "up"} /\ KeyOf[i] \in Key
  <2>1. (i - 1) % 3 \in {0, 1, 2}
    BY <1>1
  <2>2. Cmd[i] \in {"down", "mup", "up"}
    BY <2>1 DEF Cmd
  <2>3. (i - 1) \div 3 + 1 \in 1..Len(Text)
    BY <1>1
  <2>4. Text[(i - 1) \div 3 + 1] \in Key
    BY <2>3, TextAssumption
  <2> QED BY <2>2, <2>4 DEF KeyOf
<1>3. \A i \in Nat : Sleep(i) \in Nat
  BY ClientAssumption DEF Sleep
<1> QED BY <1>1, <1>2, <1>3

\* What each operation of an outbox does to what it holds.
LEMMA PushHeld ==
    ASSUME OutboxInv, NEW c \in Box, NEW n, NEW p, Push(c, n, p)
    PROVE  \E d \in Delay : \A b \in Box :
             Held(b)' = IF b = c
                        THEN Held(b) \cup {[n |-> n, p |-> p, born |-> now, at |-> now + d]}
                        ELSE Held(b)
BY DEF OutboxInv, Push, Held

LEMMA PopHeld ==
    ASSUME OutboxInv, PayloadsOK, NEW c \in Box, Pop(c)
    PROVE  \A b \in Box : Held(b)' = Held(b)
<1>1. PICK i \in pq[c] :
        /\ sleeping' = [sleeping EXCEPT ![c] = i]
        /\ pq' = [pq EXCEPT ![c] = @ \ {i}]
  BY DEF Pop
<1>2. i # NoItem
  BY ItemAssumption DEF PayloadsOK, Held
<1>3. sleeping[c] = NoItem
  BY DEF Pop
<1>4. \A b \in Box : /\ sleeping'[b] = IF b = c THEN i ELSE sleeping[b]
                     /\ pq'[b] = IF b = c THEN pq[b] \ {i} ELSE pq[b]
  BY <1>1 DEF OutboxInv
<1> QED BY <1>2, <1>3, <1>4 DEF Held

LEMMA EmitHeld ==
    ASSUME OutboxInv, NEW c \in Box, Emit(c)
    PROVE  /\ sleeping[c] \in Held(c) /\ sleeping[c].at <= now
           /\ \A b \in Box : Held(b)' \subseteq Held(b)
           /\ \A b \in Box : Held(b) \subseteq Held(b)' \cup (IF b = c THEN {sleeping[c]} ELSE {})
BY DEF OutboxInv, Emit, Held

\* A delay is within the jitter of base_ms.
LEMMA DelayType ==
    \A d \in Delay : d \in Nat /\ d >= Base - Jitter /\ d <= MaxDelay
BY DelayAssumption DEF Delay, MaxDelay

LEMMA InitClientInv == Init => ClientInv
<1> SUFFICES ASSUME Init PROVE ClientInv
  OBVIOUS
<1>1. OutboxInv
  BY InitEstablishes
<1>2. ClientTypeOK
  BY EventType, MaxTimeAssumption, ClientAssumption
     DEF Init, ClientInit, OutboxInit, ClientTypeOK, Walker, Connection
<1>3. PayloadsOK
  BY BoxAssumption DEF Init, ClientInit, OutboxInit, PayloadsOK, Held
<1> QED BY <1>1, <1>2, <1>3 DEF ClientInv

LEMMA PayloadsStay ==
    ASSUME PayloadsOK, now' = now, \A b \in Box : Held(b)' \subseteq Held(b),
           UNCHANGED channels
    PROVE  PayloadsOK'
BY BoxAssumption DEF PayloadsOK, Edges, channels

\* The walking tasks.
LEMMA WalkType ==
    ASSUME ClientTypeOK, NEW w \in Walker, Walk(w), now' = now
    PROVE  /\ at[w] \in 1..Last
           /\ at' \in [Walker -> 1..Last + 1]
           /\ wake' \in [Walker \cup {"snap"} -> Nat]
<1>1. at[w] \in 1..Last /\ at[w] + 1 \in 1..Last + 1 /\ Last \in Nat
  BY EventType DEF ClientTypeOK, Walk
<1>2. now + Sleep(at[w] + 1) \in Nat
  BY <1>1, EventType DEF ClientTypeOK
<1> QED BY <1>1, <1>2 DEF ClientTypeOK, Walk

LEMMA SendEdgeType ==
    ASSUME ClientInv, SendEdge, now' = now
    PROVE  ClientTypeOK' /\ PayloadsOK'
<1> DEFINE i == at["udp"]
           p == [cmd |-> Cmd[i], key |-> KeyOf[i], stamp |-> now]
<1> USE BoxAssumption
<1>1. /\ i \in 1..Last
      /\ at' \in [Walker -> 1..Last + 1]
      /\ wake' \in [Walker \cup {"snap"} -> Nat]
  BY WalkType DEF SendEdge, Walker, ClientInv
<1>2. /\ UNCHANGED <<held, phase, seconds, begun, seq, lastSnap, released, channels>>
      /\ UNCHANGED outbox \/ Push("udp", i, p)
      /\ UNCHANGED closed /\ UNCHANGED channels /\ UNCHANGED <<edges, streams>>
  BY DEF SendEdge, Lose, Push, outbox, channels
<1>3. ClientTypeOK'
  BY <1>1, <1>2 DEF ClientInv, ClientTypeOK
<1>4. ASSUME UNCHANGED outbox PROVE PayloadsOK'
  BY <1>2, <1>4, PayloadsStay DEF ClientInv, outbox, Held
<1>5. ASSUME Push("udp", i, p) PROVE PayloadsOK'
  <2>1. PICK d \in Delay : \A b \in Box :
          Held(b)' = IF b = "udp"
                     THEN Held(b) \cup {[n |-> i, p |-> p, born |-> now, at |-> now + d]}
                     ELSE Held(b)
    BY <1>5, PushHeld DEF ClientInv
  <2> DEFINE new == [n |-> i, p |-> p, born |-> now, at |-> now + d]
  <2>2. now \in Nat \ {0} /\ now + d \in Nat
    BY DelayType, MaxTimeAssumption DEF ClientInv, ClientTypeOK
  <2>3. p \in Edges /\ p \in Datagram
    BY <1>1, <2>2, EventType DEF Edges, Datagram
  <2>4. i \in Nat
    BY <1>1
  <2> HIDE DEF p
  <2>5. new \in Item /\ new.p = p
    BY <2>2, <2>3, <2>4 DEF Item
  <2> HIDE DEF new, i
  <2>6. \A b \in Box : Held(b)' \subseteq Item
    BY <2>1, <2>5 DEF ClientInv, PayloadsOK, new
  <2>7. /\ Held("udp")' = Held("udp") \cup {new}
        /\ Held("quic")' = Held("quic")
    BY <2>1 DEF new
  <2>8. now' = now /\ Edges' = Edges
    BY DEF Edges
  <2> QED BY <1>2, <2>3, <2>5, <2>6, <2>7, <2>8 DEF ClientInv, PayloadsOK
<1> QED BY <1>2, <1>3, <1>4, <1>5

LEMMA HoldKeysType ==
    ASSUME ClientInv, HoldKeys, now' = now
    PROVE  ClientTypeOK' /\ PayloadsOK'
<1> DEFINE i == at["state"]
<1>1. /\ i \in 1..Last
      /\ at' \in [Walker -> 1..Last + 1]
      /\ wake' \in [Walker \cup {"snap"} -> Nat]
  BY WalkType DEF HoldKeys, Walker, ClientInv
<1>2. /\ UNCHANGED <<phase, seconds, begun, seq, lastSnap, outbox, channels>>
      /\ held' \in {held, held \cup {KeyOf[i]}, held \ {KeyOf[i]}}
      /\ released' \in {released, [released EXCEPT ![KeyOf[i]] = now]}
  BY DEF HoldKeys
<1>3. KeyOf[i] \in Key
  BY <1>1, EventType
<1>4. released' \in [Key -> 1..now]
  BY <1>2, <1>3, MaxTimeAssumption DEF ClientInv, ClientTypeOK
<1>5. ClientTypeOK'
  BY <1>1, <1>2, <1>3, <1>4 DEF ClientInv, ClientTypeOK, outbox
<1>6. PayloadsOK'
  BY <1>2, PayloadsStay DEF ClientInv, outbox, Held
<1> QED BY <1>5, <1>6

LEMMA TakeSnapshotType ==
    ASSUME ClientInv, TakeSnapshot, now' = now
    PROVE  ClientTypeOK' /\ PayloadsOK'
<1> USE BoxAssumption
<1>1. /\ UNCHANGED <<at, held, phase, seconds, begun, released, channels, closed>>
      /\ seq' = seq + 1 /\ lastSnap' \in {now, lastSnap}
      /\ wake' = [wake EXCEPT !["snap"] = now + Interval]
      /\ UNCHANGED outbox \/ Push("quic", seq, held)
      /\ UNCHANGED channels /\ UNCHANGED <<edges, streams>>
  BY DEF TakeSnapshot, Lose, Push, outbox, channels
<1>2. ClientTypeOK'
  BY <1>1, MaxTimeAssumption, ClientAssumption DEF ClientInv, ClientTypeOK
<1>3. ASSUME UNCHANGED outbox PROVE PayloadsOK'
  BY <1>1, <1>3, PayloadsStay DEF ClientInv, outbox, Held
<1>4. ASSUME Push("quic", seq, held) PROVE PayloadsOK'
  <2>1. PICK d \in Delay : \A b \in Box :
          Held(b)' = IF b = "quic"
                     THEN Held(b) \cup {[n |-> seq, p |-> held, born |-> now, at |-> now + d]}
                     ELSE Held(b)
    BY <1>4, PushHeld DEF ClientInv
  <2> DEFINE new == [n |-> seq, p |-> held, born |-> now, at |-> now + d]
  <2>2. now \in Nat /\ now + d \in Nat
    BY DelayType, MaxTimeAssumption DEF ClientInv, ClientTypeOK
  <2>3. new \in Item /\ new.p = held /\ held \subseteq Key
    BY <2>2 DEF Item, ClientInv, ClientTypeOK
  <2> HIDE DEF new
  <2>4. \A b \in Box : Held(b)' \subseteq Item
    BY <2>1, <2>3 DEF ClientInv, PayloadsOK, new
  <2>5. /\ Held("quic")' = Held("quic") \cup {new}
        /\ Held("udp")' = Held("udp")
    BY <2>1 DEF new
  <2>6. Edges' = Edges
    BY DEF Edges
  <2> QED BY <1>1, <2>3, <2>4, <2>5, <2>6 DEF ClientInv, PayloadsOK
<1> QED BY <1>1, <1>2, <1>3, <1>4

LEMMA SendDatagramType ==
    ASSUME ClientInv, SendDatagram, now' = now
    PROVE  ClientTypeOK' /\ PayloadsOK'
<1> USE BoxAssumption
<1>1. /\ Emit("udp") /\ edges' = edges \cup {sleeping["udp"].p}
      /\ UNCHANGED <<client, streams>> /\ closed' = closed
  BY DEF SendDatagram, Emit
<1>2. /\ sleeping["udp"].p \in Edges
      /\ \A b \in Box : Held(b)' \subseteq Held(b)
  BY <1>1, EmitHeld DEF ClientInv, PayloadsOK
<1>3. ClientTypeOK'
  BY <1>1 DEF ClientInv, ClientTypeOK, client
<1> QED BY <1>1, <1>2, <1>3 DEF ClientInv, PayloadsOK, Edges

LEMMA WriteSnapshotType ==
    ASSUME ClientInv, WriteSnapshot, now' = now
    PROVE  ClientTypeOK' /\ PayloadsOK'
<1> USE BoxAssumption
<1>1. /\ Emit("quic") /\ UNCHANGED <<client, edges>> /\ closed' = closed
      /\ streams' = [streams EXCEPT ![phase] = Append(@, sleeping["quic"].p)]
  BY DEF WriteSnapshot, Emit
<1>2. /\ sleeping["quic"].p \in SUBSET Key
      /\ \A b \in Box : Held(b)' \subseteq Held(b)
  BY <1>1, EmitHeld DEF ClientInv, PayloadsOK
<1>3. ClientTypeOK'
  BY <1>1 DEF ClientInv, ClientTypeOK, client
<1>4. streams' \in [Connection -> Seq(SUBSET Key)]
  <2> HIDE DEF ClientInv
  <2>1. streams \in [Connection -> Seq(SUBSET Key)]
    BY DEF ClientInv, PayloadsOK
  <2>2. ASSUME NEW c \in Connection PROVE Append(streams[c], sleeping["quic"].p) \in Seq(SUBSET Key)
    BY <1>2, <2>1, AppendProperties
  <2> QED BY <1>1, <2>1, <2>2
<1> QED BY <1>1, <1>2, <1>3, <1>4 DEF ClientInv, PayloadsOK, Edges

LEMMA StartFlushType ==
    ASSUME ClientInv, StartFlush, now' = now
    PROVE  ClientTypeOK' /\ PayloadsOK'
<1>1. ClientTypeOK'
  BY MaxTimeAssumption, ClientAssumption DEF StartFlush, ClientInv, ClientTypeOK, Connection
<1>2. PayloadsOK'
  BY PayloadsStay DEF StartFlush, ClientInv, Held
<1> QED BY <1>1, <1>2

LEMMA OtherStepsType ==
    ASSUME ClientInv, CloseEdges \/ CloseSnapshots \/ EndRun \/ \E b \in Box : PopNext(b), now' = now
    PROVE  ClientTypeOK' /\ PayloadsOK'
<1> USE BoxAssumption
<1>1. CASE CloseEdges \/ CloseSnapshots
  <2>1. /\ UNCHANGED <<client, channels, pq, sleeping>>
        /\ closed' \in {closed \cup {"udp"}, closed \cup {"quic"}}
    BY <1>1 DEF CloseEdges, CloseSnapshots, CloseBox
  <2>2. ClientTypeOK'
    BY <2>1 DEF ClientInv, ClientTypeOK, client
  <2> QED BY <2>1, <2>2, PayloadsStay DEF ClientInv, Held
<1>2. CASE EndRun
  <2>1. ClientTypeOK'
    BY <1>2 DEF EndRun, ClientInv, ClientTypeOK, outbox
  <2> QED BY <1>2, <2>1, PayloadsStay DEF EndRun, ClientInv, Held, outbox
<1>3. CASE \E b \in Box : PopNext(b)
  <2>1. PICK c \in Box : Pop(c) /\ UNCHANGED <<client, channels>> /\ closed' = closed
    BY <1>3 DEF PopNext, Pop
  <2>2. ClientTypeOK'
    BY <2>1 DEF ClientInv, ClientTypeOK, client
  <2> QED BY <2>1, <2>2, PopHeld, PayloadsStay DEF ClientInv
<1> QED BY <1>1, <1>2, <1>3

LEMMA ClientStepInv == ASSUME ClientInv, ClientStep, now' = now PROVE ClientInv'
<1>1. OutboxInv'
  BY ClientKeeps DEF ClientInv
<1>2. ClientTypeOK' /\ PayloadsOK'
  BY SendEdgeType, HoldKeysType, TakeSnapshotType, SendDatagramType, WriteSnapshotType,
     StartFlushType, OtherStepsType DEF ClientStep
<1> QED BY <1>1, <1>2 DEF ClientInv

\* The daemon only takes what has arrived.
LEMMA DaemonStepInv ==
    ASSUME ClientInv, ReceiveEdge \/ DropLateEdge \/ ReceiveSnapshot \/ Handle
    PROVE  ClientInv'
<1>1. OutboxInv'
  BY DaemonKeeps DEF ClientInv
<1>2. UNCHANGED <<outbox, client>> /\ edges' \subseteq edges
  BY DEF ReceiveEdge, DropLateEdge, ReceiveSnapshot, Handle, channels
<1>3. now' = now
  BY DaemonClock
<1>4. streams' \in [Connection -> Seq(SUBSET Key)]
  <2>1. streams \in [Connection -> Seq(SUBSET Key)]
    BY DEF ClientInv, PayloadsOK
  <2>2. CASE ReceiveSnapshot
    <3>1. PICK c \in Connection : /\ streams[c] # <<>>
                                  /\ streams' = [streams EXCEPT ![c] = Tail(@)]
      BY <2>2 DEF ReceiveSnapshot
    <3>2. Tail(streams[c]) \in Seq(SUBSET Key)
      BY <2>1, <3>1, HeadTailProperties
    <3> QED BY <2>1, <3>1, <3>2
  <2>3. CASE ReceiveEdge \/ DropLateEdge \/ Handle
    BY <2>1, <2>3 DEF ReceiveEdge, DropLateEdge, Handle, channels
  <2> QED BY <2>2, <2>3
<1>5. ClientTypeOK'
  BY <1>2, <1>3 DEF ClientInv, ClientTypeOK, client, outbox
<1>6. PayloadsOK'
  BY <1>2, <1>3, <1>4, BoxAssumption DEF ClientInv, PayloadsOK, Held, Edges, outbox
<1> QED BY <1>1, <1>5, <1>6 DEF ClientInv

LEMMA NextClientInv == ClientInv /\ [Next]_vars => ClientInv'
<1> SUFFICES ASSUME ClientInv, [Next]_vars PROVE ClientInv'
  OBVIOUS
<1>1. CASE Client
  BY <1>1, ClientStepInv DEF Client
<1>2. CASE ReceiveEdge \/ DropLateEdge \/ ReceiveSnapshot \/ Handle
  BY <1>2, DaemonStepInv
<1>3. CASE Tick
  <2>1. OutboxInv'
    BY <1>3, NextKeeps DEF Next, ClientInv
  <2>2. UNCHANGED <<outbox, client, channels>> /\ now' = now + 1 /\ now < MaxTime
    BY <1>3 DEF Tick
  <2>3. ClientTypeOK'
    BY <2>2, MaxTimeAssumption DEF ClientInv, ClientTypeOK, client, outbox
  <2>4. PayloadsOK'
    BY <2>2, MaxTimeAssumption DEF ClientInv, ClientTypeOK, PayloadsOK, Edges, Held, outbox, channels
  <2> QED BY <2>1, <2>3, <2>4 DEF ClientInv
<1>4. CASE UNCHANGED vars
  <2>1. OutboxInv'
    BY <1>4, NextKeeps DEF ClientInv
  <2> QED BY <1>4, <2>1
          DEF ClientInv, ClientTypeOK, PayloadsOK, Edges, Held, vars, client, outbox, channels
<1> QED BY <1>1, <1>2, <1>3, <1>4 DEF Next
-----------------------------------------------------------------------------
(* The daemon in the composition *)

PC == {"idle", "stamped", "applied", "built"}

\* The daemon's threads here, and what each of them carries.
LEMMA DaemonThreads ==
    /\ D!Thread = {"udp", "watchdog", "main", "flush"}
    /\ D!InputOf("udp") = D!UdpEdge
    /\ \A c \in Connection : D!InputOf(c) = D!Snapshot
BY DEF D!Thread, D!InputOf, Connection

LEMMA MaxTimeType == MaxTime \in Nat \ {0} /\ DeadlineMs \in Nat
BY MaxTimeAssumption

\* What a thread carries into its critical section.
LEMMA CarriedInput ==
    ASSUME D!TypeOK, NEW t \in D!Thread, pc[t] = "stamped"
    PROVE  /\ job[t].at \in 1..now
           /\ t = "udp" => job[t] \in D!UdpEdge
           /\ t \in Connection => job[t] \in D!Snapshot
BY DaemonThreads DEF D!TypeOK, D!InputTypeOK

\* A thread that goes where its new job belongs keeps InputTypeOK.
LEMMA GotoKeepsInput ==
    ASSUME D!TypeOK, NEW t \in D!Thread, NEW from, NEW to \in PC, NEW w,
           D!Goto(t, from, to, w), now' = now,
           to = "stamped" => w \in D!InputOf(t) /\ w.at \in 1..now,
           to = "built" => w \in D!Report,
           to \in {"idle", "applied"} => w = NoJob
    PROVE  pc' \in [D!Thread -> PC] /\ DOMAIN job' = D!Thread /\ D!InputTypeOK'
<1>1. pc' \in [D!Thread -> PC] /\ DOMAIN job' = D!Thread
  BY DEF D!TypeOK, D!Goto, PC
<1>2. ASSUME NEW s \in D!Thread
      PROVE  /\ pc'[s] = "stamped" => job'[s] \in D!InputOf(s) /\ job'[s].at \in 1..now'
             /\ pc'[s] = "built" => job'[s] \in D!Report
             /\ pc'[s] \in {"idle", "applied"} => job'[s] = NoJob
  <2>1. CASE s = t
    <3>1. pc'[s] = to /\ job'[s] = w
      BY <2>1 DEF D!TypeOK, D!Goto
    <3> QED BY <2>1, <3>1
  <2>2. CASE s # t
    <3>1. pc'[s] = pc[s] /\ job'[s] = job[s]
      BY <2>2 DEF D!TypeOK, D!Goto
    <3> QED BY <3>1 DEF D!TypeOK, D!InputTypeOK
  <2> QED BY <2>1, <2>2
<1> QED BY <1>1, <1>2 DEF D!InputTypeOK

\* A record of keymeta that an edge, a marker or a snapshot has changed.
LEMMA MetaType ==
    ASSUME NEW old \in D!KeyMeta, NEW stamp \in Nat, NEW b \in BOOLEAN, NEW m \in BOOLEAN
    PROVE  /\ [old EXCEPT !.pressed = b, !.last_edge = stamp, !.stuck_reported = FALSE,
                          !.up_marker = m] \in D!KeyMeta
           /\ [old EXCEPT !.pressed = b, !.last_snapshot = stamp] \in D!KeyMeta
           /\ [old EXCEPT !.pressed = b, !.up_marker = m] \in D!KeyMeta
           /\ [old EXCEPT !.up_marker = m] \in D!KeyMeta
BY Zenon DEF D!KeyMeta

MetaOK ==
    /\ keymeta \in [Key -> D!KeyMeta]
    /\ \A k \in Key : keymeta[k].last_edge <= now /\ keymeta[k].last_snapshot <= now

\* One entry of keymeta changes.
LEMMA MetaEntry ==
    ASSUME MetaOK, now' = now, NEW k \in Key, NEW km \in D!KeyMeta,
           km.last_edge <= now, km.last_snapshot <= now,
           keymeta' = [keymeta EXCEPT ![k] = km]
    PROVE  MetaOK'
BY DEF MetaOK

LEMMA UdpMarkType ==
    ASSUME D!TypeOK, D!UdpMark
    PROVE  D!TypeOK'
<1> DEFINE k == job["udp"].usage
           old == keymeta[k]
           km == [old EXCEPT !.up_marker = TRUE]
<1>1. k \in Key
  BY CarriedInput, DaemonThreads DEF D!UdpMark, D!UdpEdge
<1>2. old \in D!KeyMeta /\ old.last_edge <= now /\ old.last_snapshot <= now
  BY <1>1 DEF D!TypeOK
<1>3. keymeta' = [keymeta EXCEPT ![k] = km]
  BY DEF D!UdpMark
<1> HIDE DEF old
<1>4. km \in D!KeyMeta
  BY <1>2, MetaType
<1>5. km.last_edge = old.last_edge /\ km.last_snapshot = old.last_snapshot
  BY <1>2 DEF D!KeyMeta
<1> HIDE DEF km
<1>6. MetaOK /\ now' = now
  BY DEF MetaOK, D!TypeOK, D!UdpMark
<1>7. MetaOK'
  BY <1>1, <1>2, <1>3, <1>4, <1>5, <1>6, MetaEntry
<1>8. pc' \in [D!Thread -> PC] /\ DOMAIN job' = D!Thread /\ D!InputTypeOK'
  BY <1>6, GotoKeepsInput, DaemonThreads DEF D!UdpMark, PC
<1> QED BY <1>7, <1>8 DEF D!TypeOK, D!UdpMark, PC, MetaOK

LEMMA AppliedType ==
    ASSUME D!TypeOK, NEW t \in D!Thread, D!Applied(t)
    PROVE  pc' \in [D!Thread -> PC] /\ DOMAIN job' = D!Thread /\ D!InputTypeOK'
BY GotoKeepsInput DEF D!Applied, PC

LEMMA UdpApplyType ==
    ASSUME D!TypeOK, D!UdpApply
    PROVE  D!TypeOK'
<1> DEFINE e == job["udp"]
           down == e.cmd = "down"
           old == keymeta[e.usage]
           mark == old.up_marker /\ down
           km == [old EXCEPT !.pressed = down, !.last_edge = e.at, !.stuck_reported = FALSE,
                             !.up_marker = mark]
<1>1. e.usage \in Key /\ e.at \in 1..now
  BY CarriedInput, DaemonThreads DEF D!UdpApply, D!UdpEdge
<1>2. now' = now /\ down \in BOOLEAN /\ mark \in BOOLEAN /\ e.at \in Nat /\ e.at <= now
  BY <1>1 DEF D!UdpApply, D!Applied, D!TypeOK
<1>3. old \in D!KeyMeta /\ old.last_edge <= now /\ old.last_snapshot <= now
  BY <1>1 DEF D!TypeOK
<1>4. keymeta' = [keymeta EXCEPT ![e.usage] = km]
  BY Zenon DEF D!UdpApply, D!Edge
<1>5. pressed' \subseteq Key /\ touched' \in [Key -> 0..now]
  BY <1>1 DEF D!TypeOK, D!UdpApply, D!Press, D!Touch
<1>6. pc' \in [D!Thread -> PC] /\ DOMAIN job' = D!Thread /\ D!InputTypeOK'
  BY AppliedType, DaemonThreads DEF D!UdpApply
<1>7. UNCHANGED <<now, sent, lastBuilt, modifiers, lastScan>>
  BY DEF D!UdpApply, D!Applied
<1>8. MetaOK
  BY DEF MetaOK, D!TypeOK
<1> HIDE DEF e, down, old, mark
<1>9. km \in D!KeyMeta
  BY <1>2, <1>3, MetaType
<1>10. km.last_edge = e.at /\ km.last_snapshot = old.last_snapshot
  BY <1>3 DEF D!KeyMeta
<1> HIDE DEF km
<1>11. MetaOK'
  BY <1>1, <1>2, <1>3, <1>4, <1>8, <1>9, <1>10, MetaEntry
<1> QED BY <1>5, <1>6, <1>7, <1>11 DEF D!TypeOK, PC, MetaOK

\* A snapshot's reconciliation keeps keymeta typed and its stamps in the past.
LEMMA ReconciledType ==
    ASSUME MetaOK, NEW s, s.at \in 1..now, now \in Nat, keymeta' = D!Reconciled(s), now' = now
    PROVE  MetaOK'
<1> SUFFICES ASSUME NEW v \in Key
             PROVE  /\ keymeta'[v] \in D!KeyMeta
                    /\ keymeta'[v].last_edge <= now' /\ keymeta'[v].last_snapshot <= now'
  BY DEF MetaOK, D!Reconciled
<1> DEFINE old == keymeta[v]
<1>1. old \in D!KeyMeta /\ old.last_edge <= now /\ old.last_snapshot <= now
  BY DEF MetaOK
<1>2. s.at \in Nat /\ s.at <= now
  OBVIOUS
<1>3. CASE v \in s.keys
  <2>1. keymeta'[v] = [old EXCEPT !.pressed = TRUE, !.last_snapshot = s.at]
    BY <1>3 DEF D!Reconciled
  <2> HIDE DEF old
  <2>2. keymeta'[v] \in D!KeyMeta
    BY <1>1, <1>2, <2>1, MetaType
  <2>3. keymeta'[v].last_edge = old.last_edge /\ keymeta'[v].last_snapshot = s.at
    BY <1>1, <2>1 DEF D!KeyMeta
  <2> QED BY <1>1, <1>2, <2>2, <2>3
<1>4. CASE v \notin s.keys /\ v \in pressed
  <2>1. keymeta'[v] = [old EXCEPT !.pressed = FALSE, !.up_marker = FALSE]
    BY <1>4 DEF D!Reconciled
  <2> HIDE DEF old
  <2>2. keymeta'[v] \in D!KeyMeta
    BY <1>1, <1>2, <2>1, MetaType
  <2>3. keymeta'[v].last_edge = old.last_edge /\ keymeta'[v].last_snapshot = old.last_snapshot
    BY <1>1, <2>1 DEF D!KeyMeta
  <2> QED BY <1>1, <2>2, <2>3
<1>5. CASE v \notin s.keys /\ v \notin pressed
  BY <1>1, <1>5 DEF D!Reconciled
<1> QED BY <1>3, <1>4, <1>5

LEMMA SnapApplyType ==
    ASSUME D!TypeOK, NEW c \in Connection, SnapApply(c)
    PROVE  D!TypeOK'
<1> DEFINE s == job[c]
<1>1. s.keys \subseteq Key /\ s.mods \in {NoModifier} /\ s.at \in 1..now /\ c \in D!Thread
  BY CarriedInput, DaemonThreads DEF SnapApply, D!SnapApply, D!Snapshot, Connection
<1>2. now' = now /\ MetaOK
  BY DEF SnapApply, D!SnapApply, D!Applied, MetaOK, D!TypeOK
<1>3. MetaOK'
  BY <1>1, <1>2, ReconciledType DEF SnapApply, D!SnapApply, D!TypeOK
<1>4. pc' \in [D!Thread -> PC] /\ DOMAIN job' = D!Thread /\ D!InputTypeOK'
  BY <1>1, AppliedType DEF SnapApply, D!SnapApply
<1>5. touched' \in [Key -> 0..now]
  BY DEF SnapApply, D!SnapApply, D!Touch, D!TypeOK
<1> QED BY <1>1, <1>2, <1>3, <1>4, <1>5 DEF D!TypeOK, SnapApply, D!SnapApply, D!Applied, PC, MetaOK

LEMMA ReportStepType ==
    ASSUME D!TypeOK, NEW t \in D!Thread, D!BuildReport(t) \/ D!SendReport(t)
    PROVE  D!TypeOK'
<1>1. CASE D!BuildReport(t)
  <2>1. PICK r \in D!ReportsOf(pressed, modifiers) :
          D!Goto(t, "applied", "built", r) /\ lastBuilt' = r
    BY <1>1 DEF D!BuildReport
  <2>2. r \in D!Report /\ now' = now
    BY <1>1 DEF D!BuildReport, D!TypeOK, D!ReportsOf, D!FirstSlots, D!Report
  <2>3. pc' \in [D!Thread -> PC] /\ DOMAIN job' = D!Thread /\ D!InputTypeOK'
    BY <2>1, <2>2, GotoKeepsInput DEF PC
  <2> QED BY <1>1, <2>1, <2>2, <2>3 DEF D!TypeOK, D!BuildReport, D!StateUnchanged, PC
<1>2. CASE D!SendReport(t)
  <2>1. job[t] \in D!Report /\ now' = now
    BY <1>2 DEF D!TypeOK, D!InputTypeOK, D!SendReport
  <2>2. pc' \in [D!Thread -> PC] /\ DOMAIN job' = D!Thread /\ D!InputTypeOK'
    BY <1>2, <2>1, GotoKeepsInput DEF D!SendReport, PC
  <2> QED BY <1>2, <2>1, <2>2 DEF D!TypeOK, D!SendReport, D!StateUnchanged, PC
<1> QED BY <1>1, <1>2

LEMMA StampedType ==
    ASSUME D!TypeOK, NEW t \in D!Thread, NEW w \in D!InputOf(t), w.at = now, D!Stamped(t, w)
    PROVE  D!TypeOK'
<1>1. now' = now /\ w.at \in 1..now
  BY DEF D!TypeOK, D!Stamped
<1>2. pc' \in [D!Thread -> PC] /\ DOMAIN job' = D!Thread /\ D!InputTypeOK'
  BY <1>1, GotoKeepsInput DEF D!Stamped, PC
<1> QED BY <1>1, <1>2 DEF D!TypeOK, D!Stamped, D!StateUnchanged, PC

\* A datagram that has arrived is one the daemon's UDP loop can take.
LEMMA ReceiveEdgeType ==
    ASSUME D!TypeOK, ClientInv, ReceiveEdge
    PROVE  D!TypeOK'
<1>1. PICK e \in edges : D!UdpReceive(e.cmd, e.key, e.stamp)
  BY DEF ReceiveEdge
<1> DEFINE w == [cmd |-> e.cmd, usage |-> e.key, at |-> now]
<1>2. e.cmd \in {"down", "mup", "up"} /\ e.key \in Key /\ now \in Nat
  BY MaxTimeType DEF ClientInv, ClientTypeOK, PayloadsOK, Edges, Datagram
<1>3. w \in D!InputOf("udp")
  BY <1>2, DaemonThreads DEF D!UdpEdge
<1>4. D!Stamped("udp", w) /\ w.at = now
  BY <1>1 DEF D!UdpReceive
<1> QED BY <1>3, <1>4, StampedType, DaemonThreads

LEMMA ReceiveSnapshotType ==
    ASSUME D!TypeOK, ClientInv, ReceiveSnapshot
    PROVE  D!TypeOK'
<1>1. PICK c \in Connection : streams[c] # <<>> /\ D!SnapReceive(c, Head(streams[c]), NoModifier)
  BY DEF ReceiveSnapshot
<1>2. streams[c] \in Seq(SUBSET Key)
  BY DEF ClientInv, PayloadsOK
<1>3. Head(streams[c]) \in SUBSET Key
  BY <1>1, <1>2, HeadTailProperties
<1> DEFINE w == [keys |-> Head(streams[c]) \cap Key, mods |-> NoModifier, at |-> now]
<1>4. w \in D!Snapshot
  BY <1>3 DEF D!Snapshot, ClientInv, ClientTypeOK
<1>5. D!Stamped(c, w) /\ w.at = now
  BY <1>1 DEF D!SnapReceive
<1> HIDE DEF w
<1> QED BY <1>4, <1>5, StampedType, DaemonThreads DEF Connection

LEMMA DaemonInit == Init => D!TypeOK
<1> SUFFICES ASSUME Init PROVE D!TypeOK
  OBVIOUS
<1>1. /\ keymeta \in [Key -> D!KeyMeta]
      /\ \A u \in Key : keymeta[u].last_edge = 0 /\ keymeta[u].last_snapshot = 0
  BY DEF Init, D!Init, D!KeyMeta
<1>2. sent \in D!Report /\ lastBuilt \in D!Report /\ modifiers \in {NoModifier}
  BY DEF Init, D!Init, D!Report
<1>3. D!InputTypeOK
  BY DEF Init, D!Init, D!InputTypeOK
<1> QED BY <1>1, <1>2, <1>3, MaxTimeType DEF Init, D!Init, D!TypeOK

\* Time passes, or nothing of the daemon changes.
LEMMA DaemonWaits ==
    ASSUME D!TypeOK, UNCHANGED daemon, now' \in {now, now + 1}, now' \in 1..MaxTime
    PROVE  D!TypeOK'
<1>1. now \in Nat /\ now <= now' /\ now' \in Nat
  BY MaxTimeType DEF D!TypeOK
<1>2. D!InputTypeOK'
  BY <1>1 DEF daemon, D!TypeOK, D!InputTypeOK
<1>3. \A u \in Key : keymeta[u].last_edge <= now' /\ keymeta[u].last_snapshot <= now'
  BY <1>1 DEF D!TypeOK, D!KeyMeta
<1> QED BY <1>1, <1>2, <1>3 DEF D!TypeOK, daemon

Typed == ClientInv /\ D!TypeOK

LEMMA NextTyped == Typed /\ [Next]_vars => Typed'
<1> SUFFICES ASSUME ClientInv, D!TypeOK, [Next]_vars PROVE ClientInv' /\ D!TypeOK'
  BY DEF Typed
<1>1. ClientInv'
  BY NextClientInv
<1>2. now \in 1..MaxTime /\ now' \in 1..MaxTime
  BY <1>1 DEF ClientInv, ClientTypeOK
<1>3. ASSUME Client \/ DropLateEdge \/ Tick \/ UNCHANGED vars PROVE D!TypeOK'
  BY <1>2, <1>3, DaemonWaits DEF Client, DropLateEdge, Tick, vars
<1>4. ASSUME ReceiveEdge PROVE D!TypeOK'
  BY <1>4, ReceiveEdgeType
<1>5. ASSUME ReceiveSnapshot PROVE D!TypeOK'
  BY <1>5, ReceiveSnapshotType
<1>6. ASSUME Handle PROVE D!TypeOK'
  BY <1>6, UdpMarkType, UdpApplyType, SnapApplyType, ReportStepType, DaemonThreads DEF Handle, Connection
<1> QED BY <1>1, <1>3, <1>4, <1>5, <1>6 DEF Next

LEMMA InitTyped == Init => Typed
BY InitClientInv, DaemonInit DEF Typed

\* Every reachable state of the pipeline is typed, and no stamp or
\* release lies in the future.
THEOREM TypeOKAlways == Spec => []TypeOK
<1>1. Typed => TypeOK
  BY DEF Typed, ClientInv, ClientTypeOK, PayloadsOK, Edges, Datagram, TypeOK
<1> QED BY <1>1, InitTyped, NextTyped, PTL DEF Spec

-----------------------------------------------------------------------------
(* The daemon in the composition is the daemon of KeyDaemon *)

\* What arrives from the client is input KeyDaemon provides for.
LEMMA ReceiveIsInput ==
    ASSUME Typed, ReceiveEdge \/ ReceiveSnapshot
    PROVE  D!Input
<1>1. now <= MaxTime /\ now \in Nat
  BY DEF Typed, ClientInv, ClientTypeOK
<1>2. CASE ReceiveEdge
  <2>1. PICK e \in edges : D!UdpReceive(e.cmd, e.key, e.stamp)
    BY <1>2 DEF ReceiveEdge
  <2>2. e.cmd \in {"down", "up", "mup"} /\ e.key \in Key /\ e.stamp \in 0..MaxTime
    BY MaxTimeType DEF Typed, ClientInv, ClientTypeOK, PayloadsOK, Edges, Datagram
  <2> QED BY <1>1, <2>1, <2>2 DEF D!Input
<1>3. CASE ReceiveSnapshot
  <2>1. PICK c \in Connection : streams[c] # <<>> /\ D!SnapReceive(c, Head(streams[c]), NoModifier)
    BY <1>3 DEF ReceiveSnapshot
  <2>2. Head(streams[c]) \in SUBSET Key
    BY <2>1, HeadTailProperties DEF Typed, ClientInv, PayloadsOK
  <2> QED BY <1>1, <2>1, <2>2 DEF D!Input
<1> QED BY <1>2, <1>3

\* Every step of the composition is a step of the daemon or leaves it alone.
LEMMA StepImplemented == Typed /\ [Next]_vars => [D!Next]_(D!vars)
<1> SUFFICES ASSUME Typed, [Next]_vars PROVE D!Next \/ UNCHANGED D!vars
  OBVIOUS
<1>1. CASE Client \/ DropLateEdge \/ UNCHANGED vars
  BY <1>1 DEF Client, DropLateEdge, vars, daemon, D!vars
<1>2. CASE ReceiveEdge \/ ReceiveSnapshot
  BY <1>2, ReceiveIsInput DEF D!Next
<1>3. CASE Handle
  <2>1. CASE D!UdpMark \/ D!UdpApply \/ \E c \in Connection : SnapApply(c)
    BY <2>1 DEF D!Next, D!Apply, SnapApply
  <2>2. CASE \E t \in {"udp"} \cup Connection : D!BuildReport(t) \/ D!SendReport(t)
    BY <2>2 DEF D!Next, D!Thread
  <2> QED BY <1>3, <2>1, <2>2 DEF Handle
<1>4. CASE Tick
  <2>1. now - lastScan < MaxTime /\ now < MaxTime /\ now' = now + 1 /\ UNCHANGED daemon
    BY <1>4, MaxTimeType DEF Tick, Typed, D!TypeOK
  <2>2. D!Tick
    BY <2>1 DEF D!Tick, D!StateUnchanged, daemon
  <2> QED BY <2>2 DEF D!Next
<1> QED BY <1>1, <1>2, <1>3, <1>4 DEF Next

\* Seen from the daemon, the pipeline is a behaviour of KeyDaemon: what its
\* proofs show of the daemon for every input (daemon/src/main.cpp) holds with
\* this client, whatever its network loses or delays.
THEOREM DaemonImplemented == Spec => D!Spec
<1>1. Init => D!Init
  BY DEF Init
<1> QED BY <1>1, InitTyped, NextTyped, StepImplemented, PTL DEF Spec, D!Spec
=============================================================================
