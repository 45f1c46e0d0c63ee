----------------------- MODULE QuicKeysHealingProofs -----------------------
(***************************************************************************)
(* Proof of what the snapshots achieve (HealingBound, FlushEmpties), for   *)
(* every workload, delay, jitter, snapshot rate and loss the bound MaxGap  *)
(* allows.                                                                 *)
(*                                                                         *)
(* What can press a key is a down edge or a snapshot that names it.  The   *)
(* argument follows both from the user to the daemon: those made before    *)
(* the user let go of the key arrive within MaxDelay of the release        *)
(* (NoLatePress), and a snapshot that cannot overtake them is sampled at   *)
(* most 2 * Jitter + MaxGap after it, or after the connection stands       *)
(* (CleanerComing).  In the flush no snapshot names a key, and one of them *)
(* is sent after everything older has been handled (FlushCleans).          *)
(***************************************************************************)
EXTENDS QuicKeysProofs

\* The two walking tasks are at the same event whenever time passes: the one that
\* is behind is due, and what lies between them takes no time.
LockStep ==
    \A v, w \in Walker :
        /\ at[v] = at[w] => wake[v] = wake[w]
        /\ at[v] < at[w] => /\ wake[v] <= now
                            /\ \A i \in at[v] + 1..at[w] - 1 : Sleep(i) = 0
                            /\ wake[w] = now + Sleep(at[w])

Presses(i, k) == Cmd[i] = "down" /\ KeyOf[i] = k

\* A key whose down udp_sender has still to send, while state_machine has pressed it
\* already, is held, or was let go of in this very millisecond.
LateDowns ==
    phase = "main" =>
        \A i \in at["udp"]..at["state"] - 1 :
            Cmd[i] = "down" /\ KeyOf[i] \notin held => released[KeyOf[i]] = now

\* The user does not hold k, and udp_sender is not ahead with its next press.
Free(k) ==
    /\ k \notin held
    /\ \A i \in at["state"]..at["udp"] - 1 : ~Presses(i, k)

\* Keys of the down edges, and the snapshots, that the daemon has yet to apply.
Downs ==
    {e.key : e \in {f \in edges : f.cmd = "down"}}
        \cup {k \in Key : pc["udp"] = "stamped" /\ job["udp"].cmd = "down" /\ job["udp"].usage = k}

Snaps ==
    {s \in SUBSET Key : \E c \in Connection :
        \/ \E n \in 1..Len(streams[c]) : streams[c][n] = s
        \/ pc[c] = "stamped" /\ job[c].keys = s}

Pressing(k) == k \in Downs \/ \E s \in Snaps : k \in s

\* What can press a key the user has let go of is from before the release.
NoneLate(k) ==
    /\ \A i \in Held("udp") : i.p.cmd = "down" /\ i.p.key = k => i.born <= released[k]
    /\ \A i \in Held("quic") : k \in i.p => i.born <= released[k]
    /\ Pressing(k) => now <= released[k] + MaxDelay

NoLatePress == phase = "main" => \A k \in Key : Free(k) => NoneLate(k)

\* The snapshot sender is never late, and a snapshot that is not dropped is never
\* more than MaxGap away.
Sampling ==
    phase \in Connection /\ "quic" \notin closed =>
        now <= wake["snap"] /\ wake["snap"] <= lastSnap + MaxGap

Delayed == \A b \in Box : \A i \in Held(b) : i.at >= i.born /\ i.at >= i.born + Base - Jitter

\* A snapshot without k that can overtake nothing that presses k is still to be
\* taken, waits in the outbox, or has left it.
Cleaner(k) ==
    \/ lastSnap <= Since(k) + 2 * Jitter
    \/ \E i \in Held("quic") :
          /\ k \notin i.p
          /\ i.born > Since(k) + 2 * Jitter
          /\ i.born <= Since(k) + 2 * Jitter + MaxGap
    \/ now > Since(k) + MaxDelay /\ \E s \in Snaps : k \notin s

Pressable(k) == k \in pressed \/ now <= Since(k) + MaxDelay

CleanerComing ==
    phase = "main" /\ "quic" \notin closed =>
        \A k \in Key : Free(k) /\ Pressable(k) => Cleaner(k)

HealingInv ==
    /\ Typed
    /\ LockStep /\ LateDowns
    /\ NoLatePress /\ Sampling /\ Delayed /\ CleanerComing

-----------------------------------------------------------------------------
Flushing == phase \in {"flush", "done"}

\* The flush starts with everything sent, and its snapshots name no key.
FlushState ==
    /\ "udp" \in closed => at["udp"] > Last
    /\ Flushing =>
          /\ "udp" \in closed /\ at["state"] > Last
          /\ Held("udp") = {} /\ held = {}
          /\ \A i \in Held("quic") : i.p = {}
          /\ \A k \in Key : Pressing(k) => now <= begun
    /\ phase = "done" => "quic" \in closed /\ Held("quic") = {}

\* A snapshot of the flush that no press can follow is still to be taken, waits,
\* is on its way, or has been applied.
FlushCleans ==
    Flushing =>
        \/ phase = "flush" /\ "quic" \notin closed /\ lastSnap <= begun
        \/ \E i \in Held("quic") : i.at > begun
        \/ now > begun /\ Snaps # {}
        \/ now > begun /\ pressed = {}

-----------------------------------------------------------------------------
(* What each step does to the state the argument is about *)

\* What the daemon has yet to apply depends on the channels and its own state.
LEMMA PendingStays ==
    ASSUME UNCHANGED <<channels, daemon>>
    PROVE  Downs' = Downs /\ Snaps' = Snaps
BY DEF Downs, Snaps, channels, daemon

\* The client's steps leave the daemon and the clock alone.
LEMMA SendEdgeEffect ==
    ASSUME Typed, SendEdge, UNCHANGED <<now, daemon>>
    PROVE  /\ at["udp"] \in 1..Last /\ Walk("udp")
           /\ UNCHANGED <<now, held, phase, begun, lastSnap, released, closed, pressed>>
           /\ Downs' = Downs /\ Snaps' = Snaps
           /\ Held("quic")' = Held("quic")
           /\ \A i \in Held("udp")' \ Held("udp") :
                 /\ i.born = now /\ \E d \in Delay : i.at = now + d
                 /\ i.p.cmd = Cmd[at["udp"]] /\ i.p.key = KeyOf[at["udp"]]
<1> DEFINE e == at["udp"]
           p == [cmd |-> Cmd[e], key |-> KeyOf[e], stamp |-> now]
<1>1. /\ UNCHANGED <<now, held, phase, begun, lastSnap, released, closed, pressed, channels>>
      /\ Walk("udp")
      /\ UNCHANGED outbox \/ Push("udp", e, p)
  BY DEF SendEdge, Lose, Push, outbox, daemon
<1>2. at["udp"] \in 1..Last
  BY <1>1, WalkType DEF Walker, Typed, ClientInv
<1>3. Downs' = Downs /\ Snaps' = Snaps
  BY <1>1, PendingStays
<1>4. ASSUME Push("udp", e, p)
      PROVE  /\ Held("quic")' = Held("quic")
             /\ \A i \in Held("udp")' \ Held("udp") :
                   /\ i.born = now /\ \E d \in Delay : i.at = now + d
                   /\ i.p.cmd = Cmd[at["udp"]] /\ i.p.key = KeyOf[at["udp"]]
  <2>1. PICK d \in Delay : \A b \in Box :
          Held(b)' = IF b = "udp"
                     THEN Held(b) \cup {[n |-> e, p |-> p, born |-> now, at |-> now + d]}
                     ELSE Held(b)
    BY <1>4, PushHeld, BoxAssumption DEF Typed, ClientInv
  <2> QED BY <2>1, BoxAssumption
<1>5. UNCHANGED outbox => Held("quic")' = Held("quic") /\ Held("udp")' = Held("udp")
  BY DEF outbox, Held
<1> QED BY <1>1, <1>2, <1>3, <1>4, <1>5

LEMMA HoldKeysEffect ==
    ASSUME Typed, HoldKeys, UNCHANGED <<now, daemon>>
    PROVE  /\ at["state"] \in 1..Last /\ Walk("state")
           /\ Cmd[at["state"]] \in {"down", "mup", "up"} /\ KeyOf[at["state"]] \in Key
           /\ UNCHANGED <<now, phase, begun, lastSnap, closed, pressed>>
           /\ Downs' = Downs /\ Snaps' = Snaps
           /\ \A b \in Box : Held(b)' = Held(b)
<1>1. /\ UNCHANGED <<now, phase, begun, lastSnap, closed, pressed, channels, outbox>>
      /\ Walk("state")
  BY DEF HoldKeys, outbox, daemon
<1>2. at["state"] \in 1..Last
  BY <1>1, WalkType DEF Walker, Typed, ClientInv
<1> QED BY <1>1, <1>2, PendingStays, EventType DEF Held, outbox

LEMMA TakeSnapshotEffect ==
    ASSUME Typed, TakeSnapshot, UNCHANGED <<now, daemon>>
    PROVE  /\ phase \in Connection /\ "quic" \notin closed
           /\ wake["snap"] <= now /\ now - begun < Span
           /\ wake' = [wake EXCEPT !["snap"] = now + Interval]
           /\ UNCHANGED <<now, at, held, phase, begun, released, closed, pressed>>
           /\ Downs' = Downs /\ Snaps' = Snaps
           /\ Held("udp")' = Held("udp")
           /\ \/ UNCHANGED lastSnap /\ now + Interval <= lastSnap + MaxGap
                 /\ Held("quic")' = Held("quic")
              \/ lastSnap' = now /\ \E new : \E d \in Delay :
                    /\ new.born = now /\ new.at = now + d /\ new.p = held
                    /\ Held("quic")' = Held("quic") \cup {new}
<1>1. /\ phase \in Connection /\ "quic" \notin closed
      /\ wake["snap"] <= now /\ now - begun < Span
      /\ wake' = [wake EXCEPT !["snap"] = now + Interval]
      /\ UNCHANGED <<now, at, held, phase, begun, released, closed, pressed, channels>>
  BY DEF TakeSnapshot, Lose, Push, outbox, daemon
<1>2. CASE Push("quic", seq, held) /\ lastSnap' = now
  <2>1. PICK d \in Delay : \A b \in Box :
          Held(b)' = IF b = "quic"
                     THEN Held(b) \cup {[n |-> seq, p |-> held, born |-> now, at |-> now + d]}
                     ELSE Held(b)
    BY <1>2, PushHeld, BoxAssumption DEF Typed, ClientInv
  <2> DEFINE new == [n |-> seq, p |-> held, born |-> now, at |-> now + d]
  <2>2. new.born = now /\ new.at = now + d /\ new.p = held
    OBVIOUS
  <2>3. Held("quic")' = Held("quic") \cup {new} /\ Held("udp")' = Held("udp")
    BY <2>1, BoxAssumption
  <2> HIDE DEF new
  <2> QED BY <1>1, <1>2, <2>2, <2>3, PendingStays
<1>3. CASE Lose("quic", now + Interval > lastSnap + MaxGap) /\ UNCHANGED lastSnap
  <2>1. UNCHANGED outbox /\ ~(now + Interval > lastSnap + MaxGap)
    BY <1>3 DEF Lose
  <2>2. now + Interval <= lastSnap + MaxGap
    BY <2>1, ClientAssumption, MaxTimeType DEF Typed, ClientInv, ClientTypeOK
  <2> QED BY <1>1, <1>3, <2>1, <2>2, PendingStays DEF outbox, Held
<1> QED BY <1>2, <1>3 DEF TakeSnapshot

LEMMA SendDatagramEffect ==
    ASSUME Typed, SendDatagram, UNCHANGED <<now, daemon>>
    PROVE  /\ UNCHANGED <<now, at, wake, held, phase, begun, lastSnap, released, closed, pressed>>
           /\ Snaps' = Snaps
           /\ Held("udp")' \subseteq Held("udp") /\ Held("quic")' = Held("quic")
           /\ \A k \in Downs' \ Downs :
                 \E i \in Held("udp") : i.p.cmd = "down" /\ i.p.key = k
<1>1. /\ Emit("udp") /\ edges' = edges \cup {sleeping["udp"].p}
      /\ UNCHANGED <<now, at, wake, held, phase, begun, lastSnap, released, closed, pressed>>
      /\ UNCHANGED <<streams, daemon, pc, job>>
  BY DEF SendDatagram, Emit, client, daemon
<1>2. /\ sleeping["udp"] \in Held("udp")
      /\ Held("udp")' \subseteq Held("udp") /\ Held("quic")' = Held("quic")
  BY <1>1, EmitHeld, BoxAssumption DEF Typed, ClientInv
<1>3. Snaps' = Snaps
  BY <1>1 DEF Snaps
<1>4. \A k \in Downs' \ Downs : sleeping["udp"].p.cmd = "down" /\ sleeping["udp"].p.key = k
  BY <1>1 DEF Downs
<1> QED BY <1>1, <1>2, <1>3, <1>4

LEMMA WriteSnapshotEffect ==
    ASSUME Typed, phase \in Connection, WriteSnapshot, UNCHANGED <<now, daemon>>
    PROVE  /\ UNCHANGED <<now, at, wake, held, phase, begun, lastSnap, released, closed, pressed>>
           /\ Downs' = Downs
           /\ Held("udp")' = Held("udp") /\ Held("quic")' \subseteq Held("quic")
           /\ \E i \in Held("quic") :
                 /\ i.at <= now
                 /\ Held("quic") \subseteq Held("quic")' \cup {i}
                 /\ Snaps' = Snaps \cup {i.p}
<1> DEFINE i == sleeping["quic"]
<1>1. /\ Emit("quic") /\ streams' = [streams EXCEPT ![phase] = Append(@, i.p)]
      /\ UNCHANGED <<now, at, wake, held, phase, begun, lastSnap, released, closed, pressed>>
      /\ UNCHANGED <<edges, pc, job>>
  BY DEF WriteSnapshot, Emit, client, daemon
<1>2. /\ i \in Held("quic") /\ i.at <= now
      /\ Held("udp")' = Held("udp") /\ Held("quic")' \subseteq Held("quic")
      /\ Held("quic") \subseteq Held("quic")' \cup {i}
  BY <1>1, EmitHeld, BoxAssumption DEF Typed, ClientInv
<1>3. Downs' = Downs
  BY <1>1 DEF Downs
<1>4. streams \in [Connection -> Seq(SUBSET Key)] /\ i.p \in SUBSET Key
  BY <1>2 DEF Typed, ClientInv, PayloadsOK
<1> HIDE DEF i
<1>5. ASSUME NEW c \in Connection, NEW s \in SUBSET Key
      PROVE  (\E n \in 1..Len(streams'[c]) : streams'[c][n] = s)
               <=> (\E n \in 1..Len(streams[c]) : streams[c][n] = s) \/ (c = phase /\ s = i.p)
  <2>1. CASE c = phase
    <3>1. /\ streams'[c] = Append(streams[c], i.p)
          /\ streams[c] \in Seq(SUBSET Key) /\ Len(streams[c]) \in Nat
      BY <1>1, <1>4, <2>1
    <3>2. /\ Len(streams'[c]) = Len(streams[c]) + 1
          /\ \A n \in 1..Len(streams[c]) : streams'[c][n] = streams[c][n]
          /\ streams'[c][Len(streams[c]) + 1] = i.p
      BY <3>1, <1>4, AppendProperties
    <3> QED BY <2>1, <3>1, <3>2
  <2>2. CASE c # phase
    BY <1>1, <1>4, <2>2
  <2> QED BY <2>1, <2>2
<1>6. Snaps' = Snaps \cup {i.p}
  BY <1>1, <1>4, <1>5 DEF Snaps
<1> QED BY <1>1, <1>2, <1>3, <1>6

\* Closing an outbox, taking from its heap, and the end of the run.
Quiet == CloseEdges \/ CloseSnapshots \/ EndRun \/ \E b \in Box : PopNext(b)

LEMMA QuietEffect ==
    ASSUME Typed, Quiet, UNCHANGED <<now, daemon>>
    PROVE  /\ UNCHANGED <<now, at, wake, held, begun, lastSnap, released, pressed>>
           /\ Downs' = Downs /\ Snaps' = Snaps
           /\ \A b \in Box : Held(b)' = Held(b)
           /\ closed \subseteq closed'
           /\ UNCHANGED phase \/ (phase = "flush" /\ phase' = "done")
<1>1. CASE CloseEdges \/ CloseSnapshots
  BY <1>1, PendingStays DEF CloseEdges, CloseSnapshots, CloseBox, client, daemon, Held
<1>2. CASE EndRun
  BY <1>2, PendingStays DEF EndRun, outbox, daemon, Held
<1>3. CASE \E b \in Box : PopNext(b)
  <2>1. PICK b \in Box : Pop(b) /\ UNCHANGED <<client, channels, closed>>
    BY <1>3 DEF PopNext, Pop
  <2> QED BY <2>1, PopHeld, PendingStays DEF Typed, ClientInv, client, daemon
<1> QED BY <1>1, <1>2, <1>3 DEF Quiet

\* Every step of the daemon presses what it has received, or replaces the keys by
\* a snapshot it has received.
LEMMA DaemonEffect ==
    ASSUME Typed, ReceiveEdge \/ DropLateEdge \/ ReceiveSnapshot \/ Handle
    PROVE  /\ UNCHANGED <<now, outbox, client>>
           /\ \A b \in Box : Held(b)' = Held(b)
           /\ Downs' \subseteq Downs /\ Snaps' \subseteq Snaps
           /\ \/ pressed' \subseteq pressed \cup Downs /\ Snaps' = Snaps
              \/ \E s \in Snaps : pressed' = s /\ Snaps \subseteq Snaps' \cup {s}
<1>1. UNCHANGED <<now, outbox, client>>
  BY DaemonClock DEF ReceiveEdge, DropLateEdge, ReceiveSnapshot, Handle
<1>2. \A b \in Box : Held(b)' = Held(b)
  BY <1>1 DEF outbox, Held
<1>3. D!TypeOK /\ "udp" \in D!Thread /\ Connection \subseteq D!Thread /\ "udp" \notin Connection
  BY DaemonThreads DEF Typed, Connection
<1>4. DOMAIN pc = D!Thread /\ DOMAIN job = D!Thread
  BY <1>3 DEF D!TypeOK
<1>5. ASSUME ReceiveEdge
      PROVE  Downs' \subseteq Downs /\ Snaps' = Snaps /\ pressed' = pressed
  <2>1. PICK e \in edges : /\ D!UdpReceive(e.cmd, e.key, e.stamp)
                           /\ edges' = edges \ {e} /\ UNCHANGED streams
    BY <1>5 DEF ReceiveEdge
  <2> DEFINE w == [cmd |-> e.cmd, usage |-> e.key, at |-> now]
  <2>2. /\ pc' = [pc EXCEPT !["udp"] = "stamped"] /\ job' = [job EXCEPT !["udp"] = w]
        /\ UNCHANGED pressed
    BY <2>1 DEF D!UdpReceive, D!Stamped, D!Goto, D!StateUnchanged
  <2>3. job'["udp"] = w /\ w.cmd = e.cmd /\ w.usage = e.key
    BY <1>3, <1>4, <2>2
  <2>4. \A c \in Connection : pc'[c] = pc[c] /\ job'[c] = job[c]
    BY <1>3, <1>4, <2>2
  <2>5. Snaps' = Snaps
    BY <2>1, <2>4 DEF Snaps
  <2>6. Downs' \subseteq Downs
    BY <2>1, <2>3 DEF Downs
  <2> QED BY <2>2, <2>5, <2>6
<1>6. ASSUME DropLateEdge
      PROVE  Downs' \subseteq Downs /\ Snaps' = Snaps /\ pressed' = pressed
  BY <1>6 DEF DropLateEdge, Downs, Snaps, daemon
<1>7. ASSUME ReceiveSnapshot
      PROVE  Downs' = Downs /\ Snaps' = Snaps /\ pressed' = pressed
  <2>1. PICK c \in Connection : /\ streams[c] # <<>>
                                /\ D!SnapReceive(c, Head(streams[c]), NoModifier)
                                /\ streams' = [streams EXCEPT ![c] = Tail(@)]
                                /\ UNCHANGED edges
    BY <1>7 DEF ReceiveSnapshot
  <2> DEFINE w == [keys |-> Head(streams[c]) \cap Key, mods |-> NoModifier, at |-> now]
  <2>2. /\ pc' = [pc EXCEPT ![c] = "stamped"] /\ job' = [job EXCEPT ![c] = w]
        /\ pc[c] = "idle" /\ UNCHANGED pressed
    BY <2>1 DEF D!SnapReceive, D!Stamped, D!Goto, D!StateUnchanged
  <2>3. streams \in [Connection -> Seq(SUBSET Key)]
    BY DEF Typed, ClientInv, PayloadsOK
  <2>4. /\ Head(streams[c]) = streams[c][1] /\ Head(streams[c]) \in SUBSET Key
        /\ Tail(streams[c]) \in Seq(SUBSET Key) /\ Len(streams[c]) \in Nat
        /\ Len(Tail(streams[c])) = Len(streams[c]) - 1 /\ Len(streams[c]) > 0
        /\ \A n \in 1..Len(Tail(streams[c])) : Tail(streams[c])[n] = streams[c][n + 1]
    BY <2>1, <2>3, HeadTailProperties, EmptySeq
  <2>5. pc'[c] = "stamped" /\ job'[c].keys = streams[c][1] /\ streams'[c] = Tail(streams[c])
    BY <1>3, <1>4, <2>1, <2>2, <2>3, <2>4
  <2>6. \A x \in D!Thread \ {c} : pc'[x] = pc[x] /\ job'[x] = job[x]
    BY <1>4, <2>2
  <2>7. \A x \in Connection \ {c} : streams'[x] = streams[x]
    BY <2>1, <2>3
  <2>8. ASSUME NEW s \in SUBSET Key
        PROVE  (\E n \in 1..Len(streams[c]) : streams[c][n] = s)
                 <=> (\E n \in 1..Len(streams'[c]) : streams'[c][n] = s) \/ s = streams[c][1]
    <3>1. ASSUME NEW n \in 1..Len(streams[c]), streams[c][n] = s, n # 1
          PROVE  \E m \in 1..Len(streams'[c]) : streams'[c][m] = s
      <4>1. n - 1 \in 1..Len(streams'[c]) /\ streams'[c][n - 1] = s
        BY <2>4, <2>5, <3>1
      <4> QED BY <4>1
    <3>2. ASSUME NEW m \in 1..Len(streams'[c]), streams'[c][m] = s
          PROVE  \E n \in 1..Len(streams[c]) : streams[c][n] = s
      <4>1. m + 1 \in 1..Len(streams[c]) /\ streams[c][m + 1] = s
        BY <2>4, <2>5, <3>2
      <4> QED BY <4>1
    <3>3. 1 \in 1..Len(streams[c])
      BY <2>4
    <3> QED BY <3>1, <3>2, <3>3
  <2> HIDE DEF w
  <2>9. ASSUME NEW s \in SUBSET Key, NEW x \in Connection
        PROVE  (\E n \in 1..Len(streams'[x]) : streams'[x][n] = s)
                    \/ (pc'[x] = "stamped" /\ job'[x].keys = s)
                 <=> (\E n \in 1..Len(streams[x]) : streams[x][n] = s)
                    \/ (pc[x] = "stamped" /\ job[x].keys = s)
    <3>1. CASE x = c
      BY <2>2, <2>5, <2>8, <3>1
    <3>2. CASE x # c
      BY <1>3, <2>6, <2>7, <3>2
    <3> QED BY <3>1, <3>2
  <2>10. Snaps' = Snaps
    BY <2>9 DEF Snaps
  <2>11. Downs' = Downs
    BY <1>3, <2>1, <2>6 DEF Downs
  <2> QED BY <2>2, <2>10, <2>11
<1>8. ASSUME Handle
      PROVE  /\ Downs' \subseteq Downs /\ Snaps' \subseteq Snaps
             /\ \/ pressed' \subseteq pressed \cup Downs /\ Snaps' = Snaps
                \/ \E s \in Snaps : pressed' = s /\ Snaps \subseteq Snaps' \cup {s}
  <2>1. UNCHANGED <<edges, streams>>
    BY <1>8 DEF Handle, channels
  <2>2. ASSUME NEW t \in D!Thread, NEW from, NEW to \in PC \ {"stamped"}, NEW w,
               D!Goto(t, from, to, w)
        PROVE  /\ pc'[t] # "stamped"
               /\ \A x \in D!Thread \ {t} : pc'[x] = pc[x] /\ job'[x] = job[x]
    BY <1>4, <2>2 DEF D!Goto
  <2>3. CASE D!UdpMark \/ D!UdpApply
    <3>1. /\ pc'["udp"] # "stamped" /\ pc["udp"] = "stamped"
          /\ \A c \in Connection : pc'[c] = pc[c] /\ job'[c] = job[c]
      BY <1>3, <2>2, <2>3 DEF D!UdpMark, D!UdpApply, D!Applied, PC, D!Goto
    <3>2. Snaps' = Snaps /\ Downs' \subseteq Downs
      BY <2>1, <3>1 DEF Snaps, Downs
    <3>3. job["udp"] \in D!UdpEdge
      BY <1>3, <3>1, CarriedInput
    <3>4. pressed' \subseteq pressed \cup Downs
      BY <2>3, <3>1, <3>3 DEF D!UdpMark, D!UdpApply, D!Press, Downs, D!UdpEdge
    <3> QED BY <3>2, <3>4
  <2>4. CASE \E c \in Connection : SnapApply(c)
    <3>1. PICK c \in Connection : SnapApply(c)
      BY <2>4
    <3>2. /\ pc[c] = "stamped" /\ pc'[c] # "stamped" /\ pressed' = job[c].keys
          /\ \A x \in D!Thread \ {c} : pc'[x] = pc[x] /\ job'[x] = job[x]
      BY <1>3, <2>2, <3>1 DEF SnapApply, D!SnapApply, D!Applied, PC
    <3>3. job[c].keys \in SUBSET Key
      BY <1>3, <3>2, CarriedInput DEF D!Snapshot
    <3>4. Downs' = Downs
      BY <1>3, <2>1, <3>2 DEF Downs
    <3>5. job[c].keys \in Snaps /\ Snaps' \subseteq Snaps /\ Snaps \subseteq Snaps' \cup {job[c].keys}
      BY <1>3, <2>1, <3>2, <3>3 DEF Snaps
    <3> QED BY <3>2, <3>4, <3>5
  <2>5. CASE \E t \in {"udp"} \cup Connection : D!BuildReport(t) \/ D!SendReport(t)
    <3>1. PICK t \in {"udp"} \cup Connection : D!BuildReport(t) \/ D!SendReport(t)
      BY <2>5
    <3>2. /\ pc'[t] # "stamped" /\ pc[t] # "stamped" /\ UNCHANGED pressed
          /\ \A x \in D!Thread \ {t} : pc'[x] = pc[x] /\ job'[x] = job[x]
      BY <1>3, <2>2, <3>1 DEF D!BuildReport, D!SendReport, D!StateUnchanged, PC, D!Goto
    <3>3. Downs' = Downs /\ Snaps' = Snaps
      BY <1>3, <2>1, <3>1, <3>2 DEF Downs, Snaps
    <3> QED BY <3>2, <3>3
  <2> QED BY <1>8, <2>3, <2>4, <2>5 DEF Handle
<1> QED BY <1>1, <1>2, <1>5, <1>6, <1>7, <1>8

\* When time passes the daemon has nothing left to apply.
LEMMA SettledEffect ==
    ASSUME Typed, Settled
    PROVE  /\ Downs = {} /\ Snaps = {}
           /\ \A w \in Walker : at[w] > Last \/ wake[w] > now
           /\ phase \in Connection /\ "quic" \notin closed => wake["snap"] > now
           /\ \A b \in Box : ~BoxDue(b)
<1>1. /\ edges = {} /\ \A c \in Connection : streams[c] = <<>>
      /\ \A t \in {"udp"} \cup Connection : pc[t] = "idle"
  BY DEF Settled, DaemonDue
<1>2. Downs = {} /\ Snaps = {}
  <2>1. \A c \in Connection : ~\E n \in 1..Len(streams[c]) : TRUE
    BY <1>1, EmptySeq
  <2> QED BY <1>1, <2>1 DEF Downs, Snaps
<1>3. now \in Nat /\ \A t \in Walker \cup {"snap"} : wake[t] \in Nat
  BY MaxTimeType DEF Typed, ClientInv, ClientTypeOK
<1>4. \A w \in Walker : at[w] \in 1..Last + 1
  BY DEF Typed, ClientInv, ClientTypeOK
<1> QED BY <1>2, <1>3, <1>4, EventType DEF Settled, ClientDue

LEMMA TickEffect ==
    ASSUME Typed, Tick
    PROVE  /\ now' = now + 1 /\ Settled
           /\ UNCHANGED <<outbox, client, channels, daemon, closed, pressed>>
           /\ UNCHANGED <<at, wake, held, phase, begun, lastSnap, released>>
           /\ Downs' = {} /\ Snaps' = {}
           /\ \A b \in Box : Held(b)' = Held(b)
BY SettledEffect, PendingStays DEF Tick, outbox, client, daemon, Held

LEMMA StartFlushEffect ==
    ASSUME Typed, StartFlush, UNCHANGED <<now, daemon>>
    PROVE  /\ phase = "main" /\ phase' = "flush"
           /\ Box \subseteq closed /\ closed' = closed \ {"quic"} /\ \A b \in Box : Held(b) = {}
           /\ at["state"] > Last /\ held' = {}
           /\ \E d \in ConnectTime :
                 /\ begun' = now + d /\ lastSnap' = now + d - Interval
                 /\ wake' = [wake EXCEPT !["snap"] = now + d]
           /\ UNCHANGED <<now, at, released, pressed>>
           /\ Downs' = Downs /\ Snaps' = Snaps /\ \A b \in Box : Held(b)' = Held(b)
BY PendingStays DEF StartFlush, Emptied, Held, daemon

-----------------------------------------------------------------------------
(* The two walking tasks *)

LEMMA ClockType ==
    ASSUME Typed
    PROVE  /\ now \in Nat /\ now <= MaxTime
           /\ \A w \in Walker : at[w] \in Nat /\ at[w] >= 1 /\ at[w] <= Last + 1 /\ wake[w] \in Nat
           /\ "udp" \in Walker /\ "state" \in Walker /\ Last \in Nat
           /\ \A k \in Key : released[k] \in Nat /\ released[k] <= now
           /\ lastSnap \in Int /\ (lastSnap <= now \/ lastSnap < begun)
           /\ wake["snap"] \in Nat /\ begun \in Nat
           /\ Base \in Nat /\ Jitter \in Nat /\ MaxDelay = Base + Jitter /\ MaxDelay \in Nat
           /\ MaxGap \in Nat /\ Interval \in Nat /\ Interval > 0 /\ MaxGap >= Interval
           /\ FlushSeconds \in Nat
<1>1. now \in 1..MaxTime /\ at \in [Walker -> 1..Last + 1] /\ wake \in [Walker \cup {"snap"} -> Nat]
      /\ released \in [Key -> 1..now] /\ lastSnap \in Int /\ (lastSnap <= now \/ lastSnap < begun)
      /\ begun \in Nat
  BY DEF Typed, ClientInv, ClientTypeOK
<1> QED BY <1>1, EventType, MaxTimeType, DelayAssumption, ClientAssumption DEF Walker, MaxDelay

LEMMA WalkEffect ==
    ASSUME Typed, NEW u \in Walker, Walk(u)
    PROVE  /\ at[u] <= Last /\ wake[u] <= now
           /\ at'[u] = at[u] + 1 /\ wake'[u] = now + Sleep(at[u] + 1)
           /\ \A w \in Walker \ {u} : at'[w] = at[w] /\ wake'[w] = wake[w]
           /\ wake'["snap"] = wake["snap"]
<1>1. at \in [Walker -> 1..Last + 1] /\ wake \in [Walker \cup {"snap"} -> Nat]
  BY DEF Typed, ClientInv, ClientTypeOK
<1>2. "snap" \notin Walker
  BY DEF Walker
<1> QED BY <1>1, <1>2 DEF Walk

LEMMA WalkLockStep ==
    ASSUME Typed, LockStep, NEW u \in Walker, Walk(u), now' = now
    PROVE  LockStep'
<1> SUFFICES ASSUME NEW v \in Walker, NEW w \in Walker
             PROVE  /\ at'[v] = at'[w] => wake'[v] = wake'[w]
                    /\ at'[v] < at'[w] => /\ wake'[v] <= now
                                          /\ \A i \in at'[v] + 1..at'[w] - 1 : Sleep(i) = 0
                                          /\ wake'[w] = now + Sleep(at'[w])
  BY DEF LockStep
<1>1. now \in Nat /\ \A x \in Walker : at[x] \in Nat /\ wake[x] \in Nat
  BY ClockType
<1>2. \A i \in Nat : Sleep(i) \in Nat
  BY EventType
<1>3. CASE v = w
  BY <1>1, <1>3, WalkEffect
<1>4. CASE v = u /\ w # u
  <2>1. /\ wake[v] <= now /\ at'[v] = at[v] + 1 /\ wake'[v] = now + Sleep(at[v] + 1)
        /\ at'[w] = at[w] /\ wake'[w] = wake[w]
    BY <1>4, WalkEffect
  <2>2. CASE at[v] < at[w]
    <3>1. (\A i \in at[v] + 1..at[w] - 1 : Sleep(i) = 0) /\ wake[w] = now + Sleep(at[w])
      BY <2>2 DEF LockStep
    <3>2. CASE at[v] + 1 = at[w]
      BY <1>1, <2>1, <3>1, <3>2
    <3>3. CASE at[v] + 1 < at[w]
      <4>1. Sleep(at[v] + 1) = 0
        BY <1>1, <3>1, <3>3
      <4> QED BY <1>1, <2>1, <3>1, <3>3, <4>1
    <3> QED BY <1>1, <2>2, <3>2, <3>3
  <2>3. CASE ~(at[v] < at[w])
    BY <1>1, <2>1, <2>3
  <2> QED BY <2>2, <2>3
<1>5. CASE v # u /\ w = u
  <2>1. /\ wake[w] <= now /\ at'[w] = at[w] + 1 /\ wake'[w] = now + Sleep(at[w] + 1)
        /\ at'[v] = at[v] /\ wake'[v] = wake[v]
    BY <1>5, WalkEffect
  <2>2. CASE at[v] < at[w]
    <3>1. /\ wake[v] <= now /\ wake[w] = now + Sleep(at[w])
          /\ \A i \in at[v] + 1..at[w] - 1 : Sleep(i) = 0
      BY <2>2 DEF LockStep
    <3>2. Sleep(at[w]) = 0
      BY <1>1, <1>2, <2>1, <3>1
    <3>3. \A i \in at[v] + 1..at[w] : Sleep(i) = 0
      BY <1>1, <3>1, <3>2
    <3> QED BY <1>1, <2>1, <2>2, <3>1, <3>3
  <2>3. CASE at[v] = at[w]
    <3>1. wake[v] = wake[w]
      BY <2>3 DEF LockStep
    <3> QED BY <1>1, <2>1, <2>3, <3>1
  <2>4. CASE at[v] > at[w]
    <3>1. /\ wake[v] = now + Sleep(at[v])
          /\ \A i \in at[w] + 1..at[v] - 1 : Sleep(i) = 0
      BY <2>4 DEF LockStep
    <3> QED BY <1>1, <2>1, <2>4, <3>1
  <2> QED BY <1>1, <2>2, <2>3, <2>4
<1>6. CASE v # u /\ w # u /\ v # w
  BY <1>6 DEF Walker
<1> QED BY <1>3, <1>4, <1>5, <1>6

\* Time does not pass while one of the walking tasks is behind the other.
LEMMA SettledEqual ==
    ASSUME Typed, LockStep, Settled
    PROVE  at["udp"] = at["state"]
<1>1. \A v, w \in Walker : ~(at[v] < at[w])
  <2> SUFFICES ASSUME NEW v \in Walker, NEW w \in Walker, at[v] < at[w] PROVE FALSE
    OBVIOUS
  <2>1. wake[v] <= now /\ at[v] <= Last
    BY ClockType DEF LockStep
  <2> QED BY <2>1, SettledEffect, ClockType
<1> QED BY <1>1, ClockType

LEMMA LockStepStays ==
    ASSUME LockStep, now' = now, at' = at, \A w \in Walker : wake'[w] = wake[w]
    PROVE  LockStep'
BY DEF LockStep

LEMMA LockStepKeeps ==
    ASSUME Typed, LockStep, [Next]_vars
    PROVE  LockStep'
<1> USE DEF Walker
<1>1. CASE Client
  <2>1. ClientStep /\ UNCHANGED <<now, daemon>>
    BY <1>1 DEF Client
  <2>2. CASE SendEdge \/ HoldKeys
    BY <2>1, <2>2, WalkLockStep DEF SendEdge, HoldKeys
  <2>3. CASE TakeSnapshot \/ StartFlush
    <3>1. now' = now /\ at' = at /\ \E x : wake' = [wake EXCEPT !["snap"] = x]
      BY <2>1, <2>3, TakeSnapshotEffect, StartFlushEffect
    <3>2. wake \in [Walker \cup {"snap"} -> Nat]
      BY DEF Typed, ClientInv, ClientTypeOK
    <3> QED BY <3>1, <3>2, LockStepStays
  <2>4. CASE SendDatagram
    BY <2>1, <2>4, SendDatagramEffect, LockStepStays
  <2>5. CASE WriteSnapshot
    BY <2>1, <2>5, LockStepStays DEF WriteSnapshot, client
  <2>6. CASE Quiet
    BY <2>1, <2>6, QuietEffect, LockStepStays
  <2> QED BY <2>1, <2>2, <2>3, <2>4, <2>5, <2>6 DEF ClientStep, Quiet
<1>2. CASE ReceiveEdge \/ DropLateEdge \/ ReceiveSnapshot \/ Handle
  BY <1>2, DaemonEffect, LockStepStays DEF client
<1>3. CASE Tick
  <2>1. Settled /\ at["udp"] = at["state"]
    BY <1>3, TickEffect, SettledEqual
  <2>2. wake["udp"] = wake["state"] /\ UNCHANGED <<at, wake>>
    BY <1>3, <2>1, TickEffect DEF LockStep
  <2>3. at["udp"] \in Nat
    BY ClockType
  <2> QED BY <2>1, <2>2, <2>3 DEF LockStep
<1>4. CASE UNCHANGED vars
  BY <1>4, LockStepStays DEF vars, client
<1> QED BY <1>1, <1>2, <1>3, <1>4 DEF Next

\* udp_sender gains on state_machine, or state_machine presses or lets go now.
LEMMA LateDownsKeeps ==
    ASSUME Typed, LockStep, LateDowns, [Next]_vars
    PROVE  LateDowns'
<1> DEFINE Late == at["udp"]..at["state"] - 1
<1> USE ClockType
<1>1. CASE Client
  <2>1. ClientStep /\ UNCHANGED <<now, daemon>>
    BY <1>1 DEF Client
  <2>2. CASE SendEdge
    <3>1. /\ UNCHANGED <<now, held, phase, released>>
          /\ at'["udp"] = at["udp"] + 1 /\ at'["state"] = at["state"]
      BY <2>1, <2>2, SendEdgeEffect, WalkEffect DEF Walker
    <3>2. Late' \subseteq Late
      BY <3>1
    <3> QED BY <3>1, <3>2 DEF LateDowns
  <2>3. CASE HoldKeys
    <3> DEFINE e == at["state"]
    <3>1. /\ UNCHANGED <<now, phase>> /\ Cmd[e] \in {"down", "mup", "up"} /\ KeyOf[e] \in Key
          /\ at'["udp"] = at["udp"] /\ at'["state"] = e + 1
      BY <2>1, <2>3, HoldKeysEffect, WalkEffect DEF Walker
    <3>2. Late' \subseteq Late \cup {e}
      BY <3>1
    <3>3. released \in [Key -> 1..now]
      BY DEF Typed, ClientInv, ClientTypeOK
    <3>4. CASE Cmd[e] = "down"
      <4>1. held' = held \cup {KeyOf[e]} /\ released' = released
        BY <2>3, <3>4 DEF HoldKeys
      <4> QED BY <3>1, <3>2, <4>1 DEF LateDowns
    <3>5. CASE Cmd[e] = "mup"
      <4>1. held' = held /\ released' = released
        BY <2>3, <3>5 DEF HoldKeys
      <4> QED BY <3>1, <3>2, <3>5, <4>1 DEF LateDowns
    <3>6. CASE Cmd[e] = "up"
      <4>1. held' = held \ {KeyOf[e]} /\ released' = [released EXCEPT ![KeyOf[e]] = now]
        BY <2>3, <3>6 DEF HoldKeys
      <4> SUFFICES ASSUME NEW i \in Late', phase = "main", Cmd[i] = "down", KeyOf[i] \notin held'
                   PROVE  released'[KeyOf[i]] = now
        BY <3>1 DEF LateDowns
      <4>2. i \in Late /\ i \in 1..Last
        BY <3>2, <3>1, <3>6
      <4>3. KeyOf[i] \in Key
        BY <4>2, EventType
      <4>4. CASE KeyOf[i] = KeyOf[e]
        BY <3>3, <4>1, <4>3, <4>4
      <4>5. CASE KeyOf[i] # KeyOf[e]
        BY <3>3, <4>1, <4>2, <4>3, <4>5 DEF LateDowns
      <4> QED BY <4>4, <4>5
    <3> QED BY <3>1, <3>4, <3>5, <3>6
  <2>4. CASE TakeSnapshot
    BY <2>1, <2>4, TakeSnapshotEffect DEF LateDowns
  <2>5. CASE StartFlush
    BY <2>1, <2>5, StartFlushEffect DEF LateDowns
  <2>6. CASE SendDatagram
    BY <2>1, <2>6, SendDatagramEffect DEF LateDowns
  <2>7. CASE WriteSnapshot
    BY <2>1, <2>7 DEF LateDowns, WriteSnapshot, client
  <2>8. CASE Quiet
    BY <2>1, <2>8, QuietEffect DEF LateDowns
  <2> QED BY <2>1, <2>2, <2>3, <2>4, <2>5, <2>6, <2>7, <2>8 DEF ClientStep, Quiet
<1>2. CASE ReceiveEdge \/ DropLateEdge \/ ReceiveSnapshot \/ Handle
  BY <1>2, DaemonEffect DEF client, LateDowns
<1>3. CASE Tick
  <2>1. at["udp"] = at["state"] /\ at' = at
    BY <1>3, TickEffect, SettledEqual
  <2> QED BY <2>1 DEF LateDowns
<1>4. CASE UNCHANGED vars
  BY <1>4 DEF vars, client, LateDowns
<1> QED BY <1>1, <1>2, <1>3, <1>4 DEF Next

-----------------------------------------------------------------------------
(* The snapshot sender and the delays *)

LEMMA NewDelay ==
    ASSUME Typed, NEW i, i.born = now, NEW d \in Delay, i.at = now + d
    PROVE  i.at >= i.born /\ i.at >= i.born + Base - Jitter
BY ClockType, DelayType

LEMMA DelayedKeeps ==
    ASSUME Typed, Delayed, [Next]_vars
    PROVE  Delayed'
<1> USE BoxAssumption
<1>1. CASE Client
  <2>1. ClientStep /\ UNCHANGED <<now, daemon>>
    BY <1>1 DEF Client
  <2>2. CASE SendEdge
    BY <2>1, <2>2, SendEdgeEffect, NewDelay DEF Delayed
  <2>3. CASE HoldKeys
    BY <2>1, <2>3, HoldKeysEffect DEF Delayed
  <2>4. CASE TakeSnapshot
    BY <2>1, <2>4, TakeSnapshotEffect, NewDelay DEF Delayed
  <2>5. CASE StartFlush
    BY <2>1, <2>5, StartFlushEffect DEF Delayed
  <2>6. CASE SendDatagram
    BY <2>1, <2>6, SendDatagramEffect DEF Delayed
  <2>7. CASE WriteSnapshot
    BY <2>1, <2>7, EmitHeld DEF WriteSnapshot, Typed, ClientInv, Delayed
  <2>8. CASE Quiet
    BY <2>1, <2>8, QuietEffect DEF Delayed
  <2> QED BY <2>1, <2>2, <2>3, <2>4, <2>5, <2>6, <2>7, <2>8 DEF ClientStep, Quiet
<1>2. CASE ReceiveEdge \/ DropLateEdge \/ ReceiveSnapshot \/ Handle
  BY <1>2, DaemonEffect DEF Delayed
<1>3. CASE Tick
  BY <1>3, TickEffect DEF Delayed
<1>4. CASE UNCHANGED vars
  BY <1>4 DEF vars, outbox, Held, Delayed
<1> QED BY <1>1, <1>2, <1>3, <1>4 DEF Next

LEMMA SamplingStays ==
    ASSUME Sampling, now' = now, wake'["snap"] = wake["snap"], lastSnap' = lastSnap,
           phase' \in Connection => phase = phase', closed \subseteq closed'
    PROVE  Sampling'
BY DEF Sampling

LEMMA SamplingKeeps ==
    ASSUME Typed, Sampling, [Next]_vars
    PROVE  Sampling'
<1> USE ClockType
<1>0. wake \in [Walker \cup {"snap"} -> Nat]
  BY DEF Typed, ClientInv, ClientTypeOK
<1>1. CASE Client
  <2>1. ClientStep /\ UNCHANGED <<now, daemon>>
    BY <1>1 DEF Client
  <2>2. CASE SendEdge \/ HoldKeys
    BY <2>1, <2>2, SendEdgeEffect, HoldKeysEffect, WalkEffect, SamplingStays
       DEF Walker, SendEdge, HoldKeys
  <2>3. CASE TakeSnapshot
    <3>1. wake'["snap"] = now + Interval
      BY <1>0, <2>1, <2>3, TakeSnapshotEffect
    <3> QED BY <2>1, <2>3, <3>1, TakeSnapshotEffect DEF Sampling
  <2>4. CASE StartFlush
    <3>1. PICK d \in ConnectTime :
            lastSnap' = now + d - Interval /\ wake' = [wake EXCEPT !["snap"] = now + d]
      BY <2>1, <2>4, StartFlushEffect
    <3>2. wake'["snap"] = now + d /\ d \in Nat
      BY <1>0, <3>1, ClientAssumption
    <3> QED BY <2>1, <3>1, <3>2 DEF Sampling
  <2>5. CASE SendDatagram
    BY <2>1, <2>5, SendDatagramEffect, SamplingStays
  <2>6. CASE WriteSnapshot
    BY <2>1, <2>6, SamplingStays DEF WriteSnapshot, client, Emit
  <2>7. CASE Quiet
    BY <2>1, <2>7, QuietEffect, SamplingStays DEF Connection
  <2> QED BY <2>1, <2>2, <2>3, <2>4, <2>5, <2>6, <2>7 DEF ClientStep, Quiet
<1>2. CASE ReceiveEdge \/ DropLateEdge \/ ReceiveSnapshot \/ Handle
  BY <1>2, DaemonEffect, SamplingStays DEF client, outbox
<1>3. CASE Tick
  <2>1. /\ now' = now + 1 /\ UNCHANGED <<wake, lastSnap, phase, closed>>
        /\ phase \in Connection /\ "quic" \notin closed => wake["snap"] > now
    BY <1>3, TickEffect, SettledEffect
  <2> QED BY <2>1 DEF Sampling
<1>4. CASE UNCHANGED vars
  BY <1>4, SamplingStays DEF vars, client, outbox
<1> QED BY <1>1, <1>2, <1>3, <1>4 DEF Next

-----------------------------------------------------------------------------
(* What can still press a key the user has let go of *)

\* What waits in an outbox was enqueued in the past and leaves it in time.
LEMMA HeldTimes ==
    ASSUME Typed, NEW b \in Box, NEW i \in Held(b)
    PROVE  i.born \in Nat /\ i.at \in Nat /\ i.born <= now /\ now <= i.born + MaxDelay
BY ClockType DEF Typed, ClientInv, OutboxInv, Dated, ItemDated, OnTime

\* A key that a step frees was free before, or is let go of in that step.
LEMMA FreeBefore ==
    ASSUME Typed, NEW k \in Key, Free(k)', held' = held, at'["state"] = at["state"],
           at'["udp"] \in {at["udp"], at["udp"] + 1}
    PROVE  Free(k)
BY ClockType DEF Free, Presses

LEMMA FreeBeforeHoldKeys ==
    ASSUME Typed, HoldKeys, UNCHANGED <<now, daemon>>, NEW k \in Key, Free(k)'
    PROVE  \/ released'[k] = now
           \/ released'[k] = released[k] /\ Free(k)
<1> DEFINE e == at["state"]
<1> USE ClockType
<1>1. /\ Cmd[e] \in {"down", "mup", "up"}
      /\ at'["udp"] = at["udp"] /\ at'["state"] = e + 1
  BY HoldKeysEffect, WalkEffect DEF Walker
<1>2. released \in [Key -> 1..now]
  BY DEF Typed, ClientInv, ClientTypeOK
<1>3. CASE Cmd[e] = "up" /\ KeyOf[e] = k
  BY <1>2, <1>3 DEF HoldKeys
<1>4. CASE Cmd[e] = "up" /\ KeyOf[e] # k
  <2>1. k \notin held /\ released'[k] = released[k]
    BY <1>2, <1>4 DEF HoldKeys, Free
  <2>2. ~Presses(e, k)
    BY <1>4 DEF Presses
  <2> QED BY <1>1, <2>1, <2>2 DEF Free, Presses
<1>5. CASE Cmd[e] = "down"
  <2>1. held' = held \cup {KeyOf[e]} /\ released' = released
    BY <1>5 DEF HoldKeys
  <2>2. k \notin held /\ ~Presses(e, k)
    BY <2>1 DEF Free, Presses
  <2> QED BY <1>1, <2>1, <2>2 DEF Free, Presses
<1>6. CASE Cmd[e] = "mup"
  <2>1. held' = held /\ released' = released
    BY <1>6 DEF HoldKeys
  <2>2. k \notin held /\ ~Presses(e, k)
    BY <1>6, <2>1 DEF Free, Presses
  <2> QED BY <1>1, <2>1, <2>2 DEF Free, Presses
<1> QED BY <1>1, <1>3, <1>4, <1>5, <1>6

LEMMA NoneLateStays ==
    ASSUME NEW k, NoneLate(k), now' = now, released'[k] = released[k],
           Held("udp")' \subseteq Held("udp"), Held("quic")' \subseteq Held("quic"),
           Downs' \subseteq Downs, Snaps' \subseteq Snaps
    PROVE  NoneLate(k)'
BY DEF NoneLate, Pressing, MaxDelay

LEMMA NoLatePressKeeps ==
    ASSUME Typed, LockStep, LateDowns, NoLatePress, [Next]_vars
    PROVE  NoLatePress'
<1> SUFFICES ASSUME phase' = "main", NEW k \in Key, Free(k)'
             PROVE  NoneLate(k)'
  BY DEF NoLatePress
<1> USE ClockType, BoxAssumption
<1>1. CASE Client
  <2>1. ClientStep /\ UNCHANGED <<now, daemon>>
    BY <1>1 DEF Client
  <2>2. CASE SendEdge
    <3> DEFINE e == at["udp"]
    <3>1. /\ UNCHANGED <<now, held, phase, released>> /\ Downs' = Downs /\ Snaps' = Snaps
          /\ Held("quic")' = Held("quic") /\ e \in 1..Last
          /\ at'["udp"] = e + 1 /\ at'["state"] = at["state"]
          /\ \A i \in Held("udp")' \ Held("udp") :
                i.born = now /\ i.p.cmd = Cmd[e] /\ i.p.key = KeyOf[e]
      BY <2>1, <2>2, SendEdgeEffect, WalkEffect DEF Walker
    <3>2. NoneLate(k)
      BY <3>1, FreeBefore DEF NoLatePress
    <3>3. ASSUME Presses(e, k)
          PROVE  released[k] = now
      <4>1. e \in at["udp"]..at["state"] - 1
        BY <3>1, <3>3 DEF Free, Presses
      <4> QED BY <3>1, <3>3, <4>1 DEF LateDowns, Presses, Free
    <3>4. ASSUME NEW i \in Held("udp")', i.p.cmd = "down", i.p.key = k
          PROVE  i.born <= released[k]
      <4>1. CASE i \in Held("udp")
        BY <3>2, <3>4, <4>1 DEF NoneLate
      <4>2. CASE i \notin Held("udp")
        BY <3>1, <3>3, <3>4, <4>2 DEF Presses
      <4> QED BY <4>1, <4>2
    <3> QED BY <3>1, <3>2, <3>4 DEF NoneLate, Pressing, MaxDelay
  <2>3. CASE HoldKeys
    <3>1. /\ UNCHANGED <<now, phase>> /\ Downs' = Downs /\ Snaps' = Snaps
          /\ Held("udp")' = Held("udp") /\ Held("quic")' = Held("quic")
      BY <2>1, <2>3, HoldKeysEffect
    <3>2. CASE released'[k] = now
      BY <3>1, <3>2, HeldTimes DEF NoneLate, MaxDelay
    <3>3. CASE released'[k] = released[k] /\ Free(k)
      BY <3>1, <3>3, NoneLateStays DEF NoLatePress
    <3> QED BY <2>1, <2>3, <3>2, <3>3, FreeBeforeHoldKeys
  <2>4. CASE TakeSnapshot
    <3>1. /\ UNCHANGED <<now, at, held, phase, released>> /\ Downs' = Downs /\ Snaps' = Snaps
          /\ Held("udp")' = Held("udp")
          /\ \A i \in Held("quic")' \ Held("quic") : i.p = held
      BY <2>1, <2>4, TakeSnapshotEffect
    <3>2. NoneLate(k) /\ k \notin held
      BY <3>1, FreeBefore DEF NoLatePress, Free
    <3> QED BY <3>1, <3>2 DEF NoneLate, Pressing, MaxDelay
  <2>5. CASE StartFlush
    BY <2>1, <2>5, StartFlushEffect
  <2>6. CASE SendDatagram
    <3>1. /\ UNCHANGED <<now, at, held, phase, released>> /\ Snaps' = Snaps
          /\ Held("udp")' \subseteq Held("udp") /\ Held("quic")' = Held("quic")
          /\ k \in Downs' \ Downs =>
                \E i \in Held("udp") : i.p.cmd = "down" /\ i.p.key = k
      BY <2>1, <2>6, SendDatagramEffect
    <3>2. NoneLate(k)
      BY <3>1, FreeBefore DEF NoLatePress
    <3>3. ASSUME Pressing(k)'
          PROVE  now <= released[k] + MaxDelay
      <4>1. CASE Pressing(k)
        BY <3>2, <4>1 DEF NoneLate
      <4>2. CASE ~Pressing(k)
        <5>1. PICK i \in Held("udp") : i.p.cmd = "down" /\ i.p.key = k
          BY <3>1, <3>3, <4>2 DEF Pressing
        <5>2. i.born <= released[k]
          BY <3>2, <5>1 DEF NoneLate
        <5> QED BY <5>2, HeldTimes
      <4> QED BY <4>1, <4>2
    <3> QED BY <3>1, <3>2, <3>3 DEF NoneLate, MaxDelay
  <2>7. CASE WriteSnapshot
    <3>1. phase = "main"
      BY <2>7 DEF WriteSnapshot, client
    <3>2. PICK i \in Held("quic") : Snaps' = Snaps \cup {i.p}
      BY <2>1, <2>7, <3>1, WriteSnapshotEffect DEF Connection
    <3>3. /\ UNCHANGED <<now, at, held, phase, released>> /\ Downs' = Downs
          /\ Held("udp")' = Held("udp") /\ Held("quic")' \subseteq Held("quic")
      BY <2>1, <2>7, <3>1, WriteSnapshotEffect DEF Connection
    <3>4. NoneLate(k)
      BY <3>1, <3>3, FreeBefore DEF NoLatePress
    <3>5. ASSUME Pressing(k)'
          PROVE  now <= released[k] + MaxDelay
      <4>1. CASE Pressing(k)
        BY <3>4, <4>1 DEF NoneLate
      <4>2. CASE ~Pressing(k)
        <5>1. k \in i.p
          BY <3>2, <3>3, <3>5, <4>2 DEF Pressing
        <5>2. i.born <= released[k]
          BY <3>4, <5>1 DEF NoneLate
        <5> QED BY <5>2, HeldTimes
      <4> QED BY <4>1, <4>2
    <3> QED BY <3>3, <3>4, <3>5 DEF NoneLate, MaxDelay
  <2>8. CASE Quiet
    <3>1. NoneLate(k)
      BY <2>1, <2>8, QuietEffect, FreeBefore DEF NoLatePress
    <3> QED BY <2>1, <2>8, <3>1, QuietEffect, NoneLateStays
  <2> QED BY <2>1, <2>2, <2>3, <2>4, <2>5, <2>6, <2>7, <2>8 DEF ClientStep, Quiet
<1>2. CASE ReceiveEdge \/ DropLateEdge \/ ReceiveSnapshot \/ Handle
  <2>1. NoneLate(k)
    BY <1>2, DaemonEffect, FreeBefore DEF NoLatePress, client
  <2> QED BY <1>2, <2>1, DaemonEffect, NoneLateStays DEF client
<1>3. CASE Tick
  <2>1. NoneLate(k)
    BY <1>3, TickEffect, FreeBefore DEF NoLatePress
  <2> QED BY <1>3, <2>1, TickEffect DEF NoneLate, Pressing
<1>4. CASE UNCHANGED vars
  <2>1. NoneLate(k) /\ Downs' = Downs /\ Snaps' = Snaps
    BY <1>4, FreeBefore, PendingStays DEF NoLatePress, vars, client
  <2> QED BY <1>4, <2>1, NoneLateStays DEF vars, client, outbox, Held
<1> QED BY <1>1, <1>2, <1>3, <1>4 DEF Next

-----------------------------------------------------------------------------
(* The snapshot that lets go of the key *)

\* The later of the release and the moment the snapshots begin.
LEMMA SinceType ==
    ASSUME Typed, NEW k \in Key
    PROVE  /\ Since(k) \in Nat /\ Since(k) >= released[k] /\ Since(k) >= begun
           /\ lastSnap <= now \/ lastSnap <= Since(k)
BY ClockType DEF Since

LEMMA SinceStays ==
    ASSUME NEW k, begun' = begun, released'[k] = released[k]
    PROVE  Since(k)' = Since(k)
BY DEF Since

LEMMA CleanerStays ==
    ASSUME NEW k, Cleaner(k), now' = now, lastSnap' = lastSnap, Since(k)' = Since(k),
           Held("quic") \subseteq Held("quic")', Snaps' = Snaps
    PROVE  Cleaner(k)'
BY DEF Cleaner, MaxDelay

\* A snapshot taken while no later one than the release has been taken is the one
\* that cleans, if it is late enough.
LEMMA CleanerTaken ==
    ASSUME Typed, Sampling, NEW k \in Key, k \notin held, Cleaner(k),
           TakeSnapshot, UNCHANGED <<now, daemon>>
    PROVE  Cleaner(k)'
<1> USE ClockType
<1>1. /\ phase \in Connection /\ "quic" \notin closed
      /\ UNCHANGED <<now, released, begun>> /\ Snaps' = Snaps
      /\ \/ UNCHANGED lastSnap /\ Held("quic")' = Held("quic")
         \/ lastSnap' = now /\ \E new :
                new.born = now /\ new.p = held /\ Held("quic")' = Held("quic") \cup {new}
  BY TakeSnapshotEffect
<1>2. Since(k)' = Since(k) /\ Since(k) \in Nat
  BY <1>1, SinceStays, SinceType
<1>3. CASE UNCHANGED lastSnap /\ Held("quic")' = Held("quic")
  BY <1>1, <1>2, <1>3, CleanerStays
<1>4. ASSUME NEW new, lastSnap' = now, new.born = now, new.p = held,
             Held("quic")' = Held("quic") \cup {new}
      PROVE  Cleaner(k)'
  <2>1. CASE lastSnap <= Since(k) + 2 * Jitter
    <3>1. now <= Since(k) + 2 * Jitter + MaxGap
      BY <1>1, <1>2, <2>1 DEF Sampling
    <3>2. CASE now <= Since(k) + 2 * Jitter
      BY <1>1, <1>2, <1>4, <3>2 DEF Cleaner
    <3>3. CASE now > Since(k) + 2 * Jitter
      BY <1>1, <1>2, <1>4, <3>1, <3>3 DEF Cleaner
    <3> QED BY <1>2, <3>2, <3>3
  <2>2. CASE ~(lastSnap <= Since(k) + 2 * Jitter)
    BY <1>1, <1>2, <1>4, <2>2 DEF Cleaner, MaxDelay
  <2> QED BY <2>1, <2>2
<1> QED BY <1>1, <1>2, <1>3, <1>4

\* When the cleaning snapshot leaves the outbox, no press can follow it any more.
LEMMA CleanerSent ==
    ASSUME Typed, Delayed, NEW k \in Key, Cleaner(k), phase \in Connection,
           WriteSnapshot, UNCHANGED <<now, daemon>>
    PROVE  Cleaner(k)'
<1> USE ClockType, BoxAssumption
<1>1. PICK e \in Held("quic") :
        e.at <= now /\ Held("quic") \subseteq Held("quic")' \cup {e} /\ Snaps' = Snaps \cup {e.p}
  BY WriteSnapshotEffect
<1>2. /\ UNCHANGED <<now, lastSnap>> /\ Since(k)' = Since(k)
      /\ Since(k) \in Nat /\ Since(k) >= released[k]
  BY WriteSnapshotEffect, SinceStays, SinceType
<1>3. CASE lastSnap <= Since(k) + 2 * Jitter
  BY <1>2, <1>3 DEF Cleaner
<1>4. CASE now > Since(k) + MaxDelay /\ \E s \in Snaps : k \notin s
  BY <1>1, <1>2, <1>4 DEF Cleaner, MaxDelay
<1>5. ASSUME NEW i \in Held("quic"), k \notin i.p,
             i.born > Since(k) + 2 * Jitter, i.born <= Since(k) + 2 * Jitter + MaxGap
      PROVE  Cleaner(k)'
  <2>1. CASE i \in Held("quic")'
    BY <1>2, <1>5, <2>1 DEF Cleaner
  <2>2. CASE i = e
    <3>1. now > Since(k) + MaxDelay
      BY <1>1, <1>2, <1>5, <2>2, HeldTimes DEF Delayed
    <3> QED BY <1>1, <1>2, <1>5, <2>2, <3>1 DEF Cleaner, MaxDelay
  <2> QED BY <1>1, <2>1, <2>2
<1> QED BY <1>3, <1>4, <1>5 DEF Cleaner

\* What the daemon applies presses a key only while its cleaner is still to come.
LEMMA CleanerApplied ==
    ASSUME Typed, NEW k \in Key, NoneLate(k), Pressable(k) => Cleaner(k), Pressable(k)',
           ReceiveEdge \/ DropLateEdge \/ ReceiveSnapshot \/ Handle
    PROVE  Cleaner(k)'
<1> USE ClockType, BoxAssumption
<1>1. UNCHANGED <<now, lastSnap>> /\ Held("quic")' = Held("quic") /\ Since(k)' = Since(k)
  BY DaemonEffect, SinceStays DEF client
<1>2. Since(k) \in Nat /\ Since(k) >= released[k]
  BY SinceType
<1>3. CASE pressed' \subseteq pressed \cup Downs /\ Snaps' = Snaps
  <2>1. Pressable(k)
    BY <1>1, <1>2, <1>3 DEF Pressable, NoneLate, Pressing, MaxDelay
  <2> QED BY <1>1, <1>3, <2>1, CleanerStays
<1>4. ASSUME NEW s \in Snaps, pressed' = s
      PROVE  Cleaner(k)'
  <2>1. now <= Since(k) + MaxDelay
    BY <1>1, <1>2, <1>4 DEF Pressable, NoneLate, Pressing, MaxDelay
  <2>2. Cleaner(k)
    BY <2>1 DEF Pressable
  <2> QED BY <1>1, <1>2, <2>1, <2>2 DEF Cleaner
<1> QED BY <1>3, <1>4, DaemonEffect

LEMMA CleanerComingKeeps ==
    ASSUME Typed, NoLatePress, Sampling, Delayed, CleanerComing, [Next]_vars
    PROVE  CleanerComing'
<1> SUFFICES ASSUME phase' = "main", "quic" \notin closed', NEW k \in Key, Free(k)', Pressable(k)'
             PROVE  Cleaner(k)'
  BY DEF CleanerComing
<1> USE ClockType, BoxAssumption
<1>1. CASE Client
  <2>1. ClientStep /\ UNCHANGED <<now, daemon, pressed>>
    BY <1>1 DEF Client, daemon
  <2>2. CASE SendEdge
    <3>1. /\ UNCHANGED <<held, phase, closed, released, begun, lastSnap>> /\ Snaps' = Snaps
          /\ Held("quic")' = Held("quic")
          /\ at'["udp"] = at["udp"] + 1 /\ at'["state"] = at["state"]
      BY <2>1, <2>2, SendEdgeEffect, WalkEffect DEF Walker
    <3>2. Free(k)
      BY <3>1, FreeBefore
    <3>3. Cleaner(k)
      BY <2>1, <3>1, <3>2, SinceStays DEF CleanerComing, Pressable, MaxDelay
    <3> QED BY <2>1, <3>1, <3>3, SinceStays, CleanerStays
  <2>3. CASE HoldKeys
    <3>1. /\ UNCHANGED <<phase, closed, begun, lastSnap>> /\ Snaps' = Snaps
          /\ Held("quic")' = Held("quic")
      BY <2>1, <2>3, HoldKeysEffect
    <3>2. CASE released'[k] = now
      <4>1. /\ Since(k)' \in Nat /\ Since(k)' >= now
            /\ lastSnap <= now \/ lastSnap <= Since(k)'
        BY <2>1, <3>1, <3>2 DEF Since
      <4> QED BY <3>1, <4>1 DEF Cleaner
    <3>3. CASE released'[k] = released[k] /\ Free(k)
      <4>1. Cleaner(k)
        BY <2>1, <3>1, <3>3, SinceStays DEF CleanerComing, Pressable, MaxDelay
      <4> QED BY <2>1, <3>1, <3>3, <4>1, SinceStays, CleanerStays
    <3> QED BY <2>1, <2>3, <3>2, <3>3, FreeBeforeHoldKeys
  <2>4. CASE TakeSnapshot
    <3>1. UNCHANGED <<at, held, phase, closed, released, begun>>
      BY <2>1, <2>4, TakeSnapshotEffect
    <3>2. Free(k) /\ k \notin held
      BY <3>1, FreeBefore DEF Free
    <3>3. Cleaner(k)
      BY <2>1, <3>1, <3>2, SinceStays DEF CleanerComing, Pressable, MaxDelay
    <3> QED BY <2>1, <2>4, <3>2, <3>3, CleanerTaken
  <2>5. CASE StartFlush
    BY <2>1, <2>5, StartFlushEffect
  <2>6. CASE SendDatagram
    <3>1. /\ UNCHANGED <<at, held, phase, closed, released, begun, lastSnap>> /\ Snaps' = Snaps
          /\ Held("quic")' = Held("quic")
      BY <2>1, <2>6, SendDatagramEffect
    <3>2. Free(k)
      BY <3>1, FreeBefore
    <3>3. Cleaner(k)
      BY <2>1, <3>1, <3>2, SinceStays DEF CleanerComing, Pressable, MaxDelay
    <3> QED BY <2>1, <3>1, <3>3, SinceStays, CleanerStays
  <2>7. CASE WriteSnapshot
    <3>1. UNCHANGED <<at, held, phase, closed, released, begun>>
      BY <2>7 DEF WriteSnapshot, client, Emit
    <3>2. Free(k)
      BY <3>1, FreeBefore
    <3>3. Cleaner(k)
      BY <2>1, <3>1, <3>2, SinceStays DEF CleanerComing, Pressable, MaxDelay
    <3> QED BY <2>1, <2>7, <3>1, <3>3, CleanerSent DEF Connection
  <2>8. CASE Quiet
    <3>1. /\ UNCHANGED <<at, held, phase, released, begun, lastSnap>> /\ "quic" \notin closed
          /\ Held("quic")' = Held("quic") /\ Snaps' = Snaps
      BY <2>1, <2>8, QuietEffect
    <3>2. Free(k)
      BY <3>1, FreeBefore
    <3>3. Cleaner(k)
      BY <2>1, <3>1, <3>2, SinceStays DEF CleanerComing, Pressable, MaxDelay
    <3> QED BY <2>1, <3>1, <3>3, SinceStays, CleanerStays
  <2> QED BY <2>1, <2>2, <2>3, <2>4, <2>5, <2>6, <2>7, <2>8 DEF ClientStep, Quiet
<1>2. CASE ReceiveEdge \/ DropLateEdge \/ ReceiveSnapshot \/ Handle
  <2>1. UNCHANGED <<at, held, phase, closed, released, begun>>
    BY <1>2, DaemonEffect DEF client, outbox
  <2>2. Free(k)
    BY <2>1, FreeBefore
  <2>3. NoneLate(k) /\ (Pressable(k) => Cleaner(k))
    BY <2>1, <2>2 DEF NoLatePress, CleanerComing
  <2> QED BY <1>2, <2>3, CleanerApplied
<1>3. CASE Tick
  <2>1. /\ now' = now + 1 /\ UNCHANGED <<at, held, phase, closed, released, begun, lastSnap, pressed>>
        /\ Held("quic")' = Held("quic") /\ Snaps = {}
    BY <1>3, TickEffect, SettledEffect
  <2>2. Free(k)
    BY <2>1, FreeBefore
  <2>3. Pressable(k)
    BY <2>1, SinceStays, SinceType DEF Pressable, MaxDelay
  <2>4. Cleaner(k)
    BY <2>1, <2>2, <2>3 DEF CleanerComing
  <2> QED BY <2>1, <2>4, SinceStays DEF Cleaner
<1>4. CASE UNCHANGED vars
  <2>1. UNCHANGED <<now, at, held, phase, closed, released, begun, lastSnap, pressed>> /\ Snaps' = Snaps
        /\ Held("quic")' = Held("quic")
    BY <1>4, PendingStays DEF vars, client, outbox, daemon, Held
  <2>2. Free(k)
    BY <2>1, FreeBefore
  <2>3. Cleaner(k)
    BY <2>1, <2>2, SinceStays DEF CleanerComing, Pressable, MaxDelay
  <2> QED BY <2>1, <2>3, SinceStays, CleanerStays
<1> QED BY <1>1, <1>2, <1>3, <1>4 DEF Next

-----------------------------------------------------------------------------
LEMMA InitHealing == Init => HealingInv
<1> SUFFICES ASSUME Init PROVE HealingInv
  OBVIOUS
<1> USE BoxAssumption
<1>1. Typed
  BY InitTyped
<1>2. /\ at = [w \in Walker |-> 1] /\ wake = [t \in Walker \cup {"snap"} |-> IF t = "snap" THEN begun ELSE now]
      /\ lastSnap = begun - Interval /\ now <= begun /\ pressed = {} /\ released = [k \in Key |-> now]
      /\ \A b \in Box : Held(b) = {}
      /\ edges = {} /\ \A c \in Connection : streams[c] = <<>>
      /\ \A t \in {"udp"} \cup Connection : pc[t] = "idle"
  BY DaemonThreads, ClientAssumption DEF Init, ClientInit, OutboxInit, D!Init, Held, Connection
<1>3. Downs = {} /\ Snaps = {}
  <2>1. \A c \in Connection : ~\E n \in 1..Len(streams[c]) : TRUE
    BY <1>2, EmptySeq
  <2> QED BY <1>2, <2>1 DEF Downs, Snaps
<1>4. LockStep /\ LateDowns
  BY <1>2 DEF LockStep, LateDowns, Walker
<1>5. NoLatePress /\ Delayed
  BY <1>2, <1>3 DEF NoLatePress, NoneLate, Pressing, Delayed
<1>6. Sampling
  BY <1>1, <1>2, ClockType DEF Sampling
<1>7. CleanerComing
  BY <1>1, <1>2, ClockType, SinceType DEF CleanerComing, Cleaner
<1> QED BY <1>1, <1>4, <1>5, <1>6, <1>7 DEF HealingInv

LEMMA NextHealing == HealingInv /\ [Next]_vars => HealingInv'
BY NextTyped, LockStepKeeps, LateDownsKeeps, NoLatePressKeeps, SamplingKeeps, DelayedKeeps,
   CleanerComingKeeps DEF HealingInv

\* What waits in an outbox when time passes is not yet at its longest delay.
LEMMA HeldBeyond ==
    ASSUME Typed, Settled, NEW b \in Box, NEW i \in Held(b)
    PROVE  now < i.born + MaxDelay
<1>1. ~BoxDue(b)
  BY SettledEffect
<1>2. sleeping[b] # NoItem
  BY <1>1 DEF BoxDue, Held
<1>3. sleeping[b] \in Held(b) /\ ItemDated(sleeping[b]) /\ ItemDated(i)
  BY <1>2 DEF Held, Typed, ClientInv, OutboxInv, Dated
<1>4. now < sleeping[b].at
  BY <1>1, <1>2, <1>3, ClockType DEF BoxDue, ItemDated
<1>5. sleeping[b].at <= i.born + MaxDelay
  BY <1>2, <1>3 DEF Typed, ClientInv, OutboxInv, Ahead, ItemDated, Held
<1> QED BY <1>3, <1>4, <1>5, ClockType DEF ItemDated

\* While the client samples snapshots, a key the user has let go of stays pressed in
\* the daemon for less than MaxGap + Base + 3 * Jitter, counted from the release or
\* from when the connection stands, for any loss of edges and any loss of snapshots
\* that MaxGap bounds: the healing that the snapshots are there for
\* (client/hybrid_run.py:283, daemon/src/main.cpp:199).
THEOREM HealingBoundAlways == Spec => []HealingBound
<1>1. HealingInv => HealingBound
  <2> SUFFICES ASSUME HealingInv, phase = "main", "quic" \notin closed, Settled,
                      NEW k \in pressed \ held
               PROVE  now < Since(k) + MaxGap + Base + 3 * Jitter
    BY DEF HealingBound
  <2> USE ClockType, BoxAssumption DEF HealingInv
  <2>1. k \in Key
    BY DEF Typed, D!TypeOK
  <2>2. at["udp"] = at["state"]
    BY SettledEqual
  <2>3. Free(k)
    BY <2>2 DEF Free
  <2>4. Cleaner(k)
    BY <2>1, <2>3 DEF CleanerComing, Pressable
  <2>5. CASE lastSnap <= Since(k) + 2 * Jitter
    <3>1. now < wake["snap"] /\ wake["snap"] <= lastSnap + MaxGap
      BY SettledEffect DEF Sampling, Connection
    <3> QED BY <2>1, <2>5, <3>1, SinceType
  <2>6. ASSUME NEW i \in Held("quic"), i.born <= Since(k) + 2 * Jitter + MaxGap
        PROVE  now < Since(k) + MaxGap + Base + 3 * Jitter
    BY <2>1, <2>6, HeldBeyond, HeldTimes, SinceType
  <2>7. Snaps = {}
    BY SettledEffect
  <2> QED BY <2>4, <2>5, <2>6, <2>7 DEF Cleaner
<1> QED BY <1>1, InitHealing, NextHealing, PTL DEF Spec

-----------------------------------------------------------------------------
(* The flush *)

LEMMA PhaseType ==
    ASSUME Typed
    PROVE  phase \in {"main", "flush", "done"}
BY DEF Typed, ClientInv, ClientTypeOK, Connection

LEMMA PressingKey ==
    ASSUME Typed
    PROVE  Downs \subseteq Key /\ \A s \in Snaps : s \subseteq Key
BY DEF Typed, ClientInv, PayloadsOK, Edges, Datagram, Downs, Snaps

\* The walking tasks have ended when the flush starts.
LEMMA NoWalk ==
    ASSUME Typed, FlushState, SendEdge \/ HoldKeys
    PROVE  ~Flushing
BY ClockType, WalkEffect DEF FlushState, SendEdge, HoldKeys, Walker

\* Only an open connection is written to.
LEMMA OpenWrite ==
    ASSUME Typed, FlushState, WriteSnapshot
    PROVE  phase \in Connection
<1>1. Held("quic") # {}
  BY DEF WriteSnapshot, Emit, Held
<1> QED BY <1>1, PhaseType DEF FlushState, Connection

LEMMA FlushStateStays ==
    ASSUME FlushState, UNCHANGED <<at, held, begun>>,
           phase' = phase, "udp" \in closed' <=> "udp" \in closed, "quic" \in closed => "quic" \in closed',
           Held("udp")' \subseteq Held("udp"), Held("quic")' \subseteq Held("quic"),
           \A k \in Key : Pressing(k)' => Pressing(k) /\ now' = now
    PROVE  FlushState'
BY DEF FlushState, Flushing

LEMMA FlushStateKeeps ==
    ASSUME Typed, FlushState, [Next]_vars
    PROVE  FlushState'
<1> USE ClockType, BoxAssumption, PhaseType
<1>1. CASE Client
  <2>1. ClientStep /\ UNCHANGED <<now, daemon, pressed>>
    BY <1>1 DEF Client, daemon
  <2>2. CASE SendEdge
    <3>1. ~Flushing /\ phase' = phase /\ closed' = closed /\ at'["udp"] = at["udp"] + 1
      BY <2>1, <2>2, NoWalk, SendEdgeEffect, WalkEffect DEF Walker
    <3> QED BY <3>1 DEF FlushState, Flushing
  <2>3. CASE HoldKeys
    <3>1. ~Flushing /\ phase' = phase /\ closed' = closed /\ at'["udp"] = at["udp"]
      BY <2>1, <2>3, NoWalk, HoldKeysEffect, WalkEffect DEF Walker
    <3> QED BY <3>1 DEF FlushState, Flushing
  <2>4. CASE TakeSnapshot
    <3>1. /\ UNCHANGED <<now, at, held, phase, begun, closed>> /\ phase \in Connection
          /\ Downs' = Downs /\ Snaps' = Snaps /\ Held("udp")' = Held("udp")
          /\ \A i \in Held("quic")' \ Held("quic") : i.p = held
      BY <2>1, <2>4, TakeSnapshotEffect
    <3>2. \A k \in Key : Pressing(k)' => Pressing(k)
      BY <3>1 DEF Pressing
    <3>3. phase # "done"
      BY <3>1 DEF Connection
    <3> QED BY <3>1, <3>2, <3>3 DEF FlushState, Flushing
  <2>5. CASE StartFlush
    <3>1. PICK d \in ConnectTime : begun' = now + d
      BY <2>1, <2>5, StartFlushEffect
    <3>2. now <= begun'
      BY <3>1, ClientAssumption
    <3> QED BY <2>1, <2>5, <3>2, StartFlushEffect DEF FlushState, Flushing
  <2>6. CASE SendDatagram
    <3>1. /\ UNCHANGED <<now, at, held, phase, begun, closed>> /\ Snaps' = Snaps
          /\ Held("udp")' \subseteq Held("udp") /\ Held("quic")' = Held("quic")
          /\ Downs' # Downs /\ ~(Downs' \subseteq Downs) => Held("udp") # {}
      BY <2>1, <2>6, SendDatagramEffect
    <3>2. CASE Flushing
      <4>1. \A k \in Key : Pressing(k)' => Pressing(k)
        BY <3>1, <3>2 DEF FlushState, Pressing
      <4> QED BY <3>1, <4>1, FlushStateStays
    <3>3. CASE ~Flushing
      BY <3>1, <3>3 DEF FlushState, Flushing
    <3> QED BY <3>2, <3>3
  <2>7. CASE WriteSnapshot
    <3>1. phase \in Connection
      BY <2>7, OpenWrite
    <3>2. /\ UNCHANGED <<now, at, held, phase, begun, closed>> /\ Downs' = Downs
          /\ Held("udp")' = Held("udp") /\ Held("quic")' \subseteq Held("quic")
      BY <2>1, <2>7, <3>1, WriteSnapshotEffect
    <3>3. PICK i \in Held("quic") : Snaps' = Snaps \cup {i.p}
      BY <2>1, <2>7, <3>1, WriteSnapshotEffect
    <3>4. CASE Flushing
      <4>1. i.p = {}
        BY <3>4 DEF FlushState
      <4>2. \A k \in Key : Pressing(k)' => Pressing(k)
        BY <3>2, <3>3, <4>1 DEF Pressing
      <4> QED BY <3>2, <4>2, FlushStateStays
    <3>5. CASE ~Flushing
      BY <3>2, <3>5 DEF FlushState, Flushing
    <3> QED BY <3>4, <3>5
  <2>8. CASE Quiet
    <3>1. /\ UNCHANGED <<now, at, held, begun>> /\ Downs' = Downs /\ Snaps' = Snaps
          /\ Held("udp")' = Held("udp") /\ Held("quic")' = Held("quic") /\ closed \subseteq closed'
      BY <2>1, <2>8, QuietEffect
    <3>2. \A k \in Key : Pressing(k)' => Pressing(k)
      BY <3>1 DEF Pressing
    <3>3. CASE CloseEdges
      <4>1. at["udp"] > Last /\ phase' = phase /\ "udp" \in closed'
        BY <3>3 DEF CloseEdges, CloseBox, client
      <4> QED BY <3>1, <3>2, <4>1 DEF FlushState, Flushing
    <3>4. CASE CloseSnapshots \/ \E b \in Box : PopNext(b)
      <4>1. phase' = phase /\ ("udp" \in closed' <=> "udp" \in closed)
        BY <3>4 DEF CloseSnapshots, CloseBox, PopNext, Pop, client
      <4> QED BY <3>1, <3>2, <4>1, FlushStateStays
    <3>5. CASE EndRun
      <4>1. phase = "flush" /\ phase' = "done" /\ "quic" \in closed /\ Held("quic") = {} /\ closed' = closed
        BY <3>5 DEF EndRun, Emptied, Held, outbox
      <4> QED BY <3>1, <3>2, <4>1 DEF FlushState, Flushing
    <3> QED BY <2>8, <3>3, <3>4, <3>5 DEF Quiet
  <2> QED BY <2>1, <2>2, <2>3, <2>4, <2>5, <2>6, <2>7, <2>8 DEF ClientStep, Quiet
<1>2. CASE ReceiveEdge \/ DropLateEdge \/ ReceiveSnapshot \/ Handle
  <2>1. /\ UNCHANGED <<now, at, held, phase, begun, closed>>
        /\ Held("udp")' = Held("udp") /\ Held("quic")' = Held("quic")
        /\ Downs' \subseteq Downs /\ Snaps' \subseteq Snaps
    BY <1>2, DaemonEffect DEF client, outbox
  <2>2. \A k \in Key : Pressing(k)' => Pressing(k)
    BY <2>1 DEF Pressing
  <2> QED BY <2>1, <2>2, FlushStateStays
<1>3. CASE Tick
  <2>1. /\ UNCHANGED <<at, held, phase, begun, closed>>
        /\ Held("udp")' = Held("udp") /\ Held("quic")' = Held("quic")
        /\ \A k \in Key : ~Pressing(k)'
    BY <1>3, TickEffect DEF Pressing
  <2> QED BY <2>1, FlushStateStays
<1>4. CASE UNCHANGED vars
  <2>1. /\ UNCHANGED <<now, at, held, phase, begun, closed>>
        /\ Held("udp")' = Held("udp") /\ Held("quic")' = Held("quic")
        /\ Downs' = Downs /\ Snaps' = Snaps
    BY <1>4, PendingStays DEF vars, client, outbox, Held
  <2>2. \A k \in Key : Pressing(k)' => Pressing(k)
    BY <2>1 DEF Pressing
  <2> QED BY <2>1, <2>2, FlushStateStays
<1> QED BY <1>1, <1>2, <1>3, <1>4 DEF Next

LEMMA FlushCleansStays ==
    ASSUME FlushCleans, UNCHANGED <<now, phase, begun, lastSnap, pressed>>,
           "quic" \in closed' <=> "quic" \in closed,
           Held("quic") \subseteq Held("quic")', Snaps' = Snaps
    PROVE  FlushCleans'
BY DEF FlushCleans, Flushing

\* The flush sends a snapshot after everything that is older has been handled, if it
\* lasts longer than the snapshots can be dropped in a row.
LEMMA FlushCleansKeeps ==
    ASSUME FlushSeconds > MaxGap, Typed, Sampling, FlushState, FlushCleans, [Next]_vars
    PROVE  FlushCleans'
<1> USE ClockType, BoxAssumption, PhaseType
<1>1. CASE Client
  <2>1. ClientStep /\ UNCHANGED <<now, daemon, pressed>>
    BY <1>1 DEF Client, daemon
  <2>2. CASE SendEdge \/ HoldKeys
    <3>1. ~Flushing /\ phase' = phase
      BY <2>1, <2>2, NoWalk, SendEdgeEffect, HoldKeysEffect
    <3> QED BY <3>1 DEF FlushCleans, Flushing
  <2>3. CASE TakeSnapshot
    <3>1. /\ UNCHANGED <<now, phase, begun, closed, pressed>> /\ Snaps' = Snaps
          /\ phase \in Connection /\ "quic" \notin closed
      BY <2>1, <2>3, TakeSnapshotEffect
    <3>2. CASE UNCHANGED lastSnap /\ Held("quic")' = Held("quic")
      BY <3>1, <3>2, FlushCleansStays
    <3>3. ASSUME NEW new, NEW d \in Delay, lastSnap' = now, new.born = now, new.at = now + d,
                 Held("quic")' = Held("quic") \cup {new}
          PROVE  FlushCleans'
      <4>1. new.at >= now
        BY <3>3, NewDelay
      <4>2. CASE now > begun
        BY <3>1, <3>3, <4>1, <4>2, DelayType DEF FlushCleans, Flushing
      <4>3. CASE now <= begun
        BY <3>1, <3>3, <4>3 DEF FlushCleans, Flushing, Connection
      <4> QED BY <4>2, <4>3
    <3> QED BY <2>1, <2>3, <3>2, <3>3, TakeSnapshotEffect
  <2>4. CASE StartFlush
    <3>1. phase' = "flush" /\ "quic" \notin closed'
      BY <2>1, <2>4, StartFlushEffect
    <3>2. PICK d \in ConnectTime : begun' = now + d /\ lastSnap' = now + d - Interval
      BY <2>1, <2>4, StartFlushEffect
    <3>3. lastSnap' <= begun'
      BY <3>2, ClientAssumption
    <3> QED BY <3>1, <3>3 DEF FlushCleans
  <2>5. CASE SendDatagram
    BY <2>1, <2>5, SendDatagramEffect, FlushCleansStays
  <2>6. CASE WriteSnapshot
    <3>1. phase \in Connection
      BY <2>6, OpenWrite
    <3>2. UNCHANGED <<now, phase, begun, lastSnap, closed, pressed>>
      BY <2>1, <2>6, <3>1, WriteSnapshotEffect
    <3>3. PICK e \in Held("quic") :
            e.at <= now /\ Held("quic") \subseteq Held("quic")' \cup {e} /\ Snaps' = Snaps \cup {e.p}
      BY <2>1, <2>6, <3>1, WriteSnapshotEffect
    <3>4. ASSUME NEW i \in Held("quic"), i.at > begun
          PROVE  FlushCleans'
      <4>1. CASE i = e
        BY <3>2, <3>3, <3>4, <4>1, HeldTimes DEF FlushCleans
      <4>2. CASE i # e
        BY <3>2, <3>3, <3>4, <4>2 DEF FlushCleans
      <4> QED BY <4>1, <4>2
    <3> QED BY <3>2, <3>3, <3>4 DEF FlushCleans, Flushing
  <2>7. CASE CloseSnapshots
    <3>1. /\ UNCHANGED <<now, phase, begun, lastSnap, pressed>> /\ Snaps' = Snaps
          /\ Held("quic")' = Held("quic")
      BY <2>1, <2>7, PendingStays DEF CloseSnapshots, CloseBox, client, Held
    <3>2. ~(phase = "flush" /\ "quic" \notin closed /\ lastSnap <= begun)
      <4> SUFFICES ASSUME phase = "flush", "quic" \notin closed, lastSnap <= begun PROVE FALSE
        OBVIOUS
      <4>1. now <= lastSnap + MaxGap
        BY DEF Sampling, Connection
      <4>2. now - begun >= FlushSeconds
        BY <2>7 DEF CloseSnapshots, Span
      <4> QED BY <4>1, <4>2
    <3> QED BY <3>1, <3>2 DEF FlushCleans, Flushing
  <2>8. CASE CloseEdges \/ \E b \in Box : PopNext(b)
    <3>1. /\ UNCHANGED <<now, phase, begun, lastSnap, pressed>> /\ Snaps' = Snaps
          /\ Held("quic")' = Held("quic")
      BY <2>1, <2>8, QuietEffect DEF Quiet, CloseEdges, PopNext, client
    <3>2. "quic" \in closed' <=> "quic" \in closed
      BY <2>8 DEF CloseEdges, CloseBox, PopNext, Pop
    <3> QED BY <3>1, <3>2, FlushCleansStays
  <2>9. CASE EndRun
    <3>1. /\ UNCHANGED <<now, begun, lastSnap, pressed>> /\ Snaps' = Snaps
          /\ Held("quic")' = Held("quic")
          /\ phase = "flush" /\ "quic" \in closed
      BY <2>1, <2>9, QuietEffect DEF Quiet, EndRun
    <3> QED BY <3>1 DEF FlushCleans, Flushing
  <2> QED BY <2>1, <2>2, <2>3, <2>4, <2>5, <2>6, <2>7, <2>8, <2>9 DEF ClientStep
<1>2. CASE ReceiveEdge \/ DropLateEdge \/ ReceiveSnapshot \/ Handle
  <2>1. UNCHANGED <<now, phase, begun, lastSnap, closed>> /\ Held("quic")' = Held("quic")
    BY <1>2, DaemonEffect DEF client, outbox
  <2> SUFFICES ASSUME Flushing, now > begun, pressed = {} \/ Snaps # {}
               PROVE  pressed' = {} \/ Snaps' # {}
    BY <2>1 DEF FlushCleans, Flushing
  <2>2. \A k \in Key : ~Pressing(k)
    BY DEF FlushState
  <2>3. Downs = {} /\ \A s \in Snaps : s = {}
    BY <2>2, PressingKey DEF Pressing
  <2>4. CASE pressed' \subseteq pressed \cup Downs /\ Snaps' = Snaps
    BY <2>3, <2>4
  <2>5. CASE \E s \in Snaps : pressed' = s
    BY <2>3, <2>5
  <2> QED BY <1>2, <2>4, <2>5, DaemonEffect
<1>3. CASE Tick
  <2>1. /\ now' = now + 1 /\ UNCHANGED <<phase, begun, lastSnap, closed, pressed>>
        /\ Held("quic")' = Held("quic") /\ Snaps = {}
    BY <1>3, TickEffect, SettledEffect
  <2> QED BY <2>1 DEF FlushCleans, Flushing
<1>4. CASE UNCHANGED vars
  <2>1. UNCHANGED <<now, phase, begun, lastSnap, closed, pressed>> /\ Snaps' = Snaps
        /\ Held("quic")' = Held("quic")
    BY <1>4, PendingStays DEF vars, client, outbox, daemon, Held
  <2> QED BY <2>1, FlushCleansStays
<1> QED BY <1>1, <1>2, <1>3, <1>4 DEF Next

\* When the flush outlasts every gap between snapshots, it leaves the daemon with no
\* key pressed (client/hybrid_run.py:310), whatever was lost, late or reordered.
THEOREM FlushEmptiesAlways ==
    ASSUME FlushSeconds > MaxGap
    PROVE  Spec => []FlushEmpties
<1> DEFINE FInv == HealingInv /\ FlushState /\ FlushCleans
<1>1. Init => FInv
  <2> SUFFICES ASSUME Init PROVE FlushState /\ FlushCleans
    BY InitHealing
  <2> QED BY DEF Init, ClientInit, OutboxInit, FlushState, FlushCleans, Flushing
<1>2. FInv /\ [Next]_vars => FInv'
  <2> SUFFICES ASSUME FInv, [Next]_vars PROVE FInv'
    OBVIOUS
  <2> QED BY NextHealing, FlushStateKeeps, FlushCleansKeeps DEF HealingInv
<1>3. FInv => FlushEmpties
  <2> SUFFICES ASSUME HealingInv, FlushState, FlushCleans, phase = "done", Settled
               PROVE  pressed = {}
    BY DEF FlushEmpties
  <2> QED BY SettledEffect DEF HealingInv, FlushState, FlushCleans, Flushing
<1> HIDE DEF FInv
<1> QED BY <1>1, <1>2, <1>3, PTL DEF Spec
=============================================================================
