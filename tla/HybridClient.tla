---------------------------- MODULE HybridClient ----------------------------
(***************************************************************************)
(* client/hybrid_run.py: a scripted user whose key events go out as UDP    *)
(* edges and whose set of held keys goes out in QUIC snapshots.            *)
(*                                                                         *)
(* Three tasks of one event loop work at the same time.  udp_sender and    *)
(* state_machine walk the same events, each with its own sleeps;           *)
(* quic_snapshot_sender samples the held keys at a fixed rate.  Both kinds *)
(* of message pass through an outbox.  When the events are over, main      *)
(* clears the held keys and sends snapshots on a second connection for a   *)
(* while (the flush).                                                      *)
(***************************************************************************)
EXTENDS DelayedOutbox, Sequences

CONSTANTS
    Key,            \* usages of the keys the workload types
    Text,           \* text * repeat: the keys in the order they are typed
    KeyDelay,       \* --key-delay-ms
    DropKeyup,      \* --drop-keyup: keys whose key-up edge is not sent
    Interval,       \* 1000 / --hz
    Seconds,        \* values of --seconds, in ms
    FlushSeconds,   \* --flush-seconds, in ms
    ConnectTime,    \* how long connect() may take, in ms
    MaxGap          \* bound: the time from one snapshot that is not dropped to the next

ASSUME TextAssumption == Text \in Seq(Key) /\ Len(Text) > 0
ASSUME BoxAssumption == Box = {"udp", "quic"}
ASSUME ClientAssumption ==
    /\ KeyDelay \in Nat
    /\ DropKeyup \subseteq Key
    /\ Interval \in Nat \ {0}
    /\ Seconds \subseteq Nat \ {0} /\ FlushSeconds \in Nat \ {0}
    /\ ConnectTime \subseteq Nat /\ ConnectTime # {}
    /\ MaxGap \in Nat /\ MaxGap >= Interval

\* What an outbox holds: edges as build_edge_msg makes them, or the held keys.
Datagram == [cmd : {"down", "mup", "up"}, key : Key, stamp : Nat]

Item == [n : Nat, p : Datagram \cup SUBSET Key, born : Nat, at : Nat]

ASSUME ItemAssumption == NoItem \notin Item

VARIABLES
    at,         \* the event each walking task comes to next
    wake,       \* when each task's sleep ends
    held,       \* pressed: the keys the user holds
    phase,      \* what main and its snapshot sender are doing
    seconds,    \* --seconds of this run; never changes
    begun,      \* t0 of the snapshot sender: ahead of now while it connects
    seq,        \* snapshots offered so far on this connection
    edges,      \* datagrams on their way to the daemon
    streams,    \* snapshots on their way, per connection
    lastSnap,   \* history: when a snapshot was last not dropped
    released    \* history: when the user last let go of each key

client == <<at, wake, held, phase, seconds, begun, seq, lastSnap, released>>
channels == <<edges, streams>>
-----------------------------------------------------------------------------
Walker == {"udp", "state"}

Connection == {"main", "flush"}

\* workload_events: each character is a down, the marker of its up, and its up.
Last == 3 * Len(Text)

Cmd == [i \in 1..Last |-> <<"down", "mup", "up">>[((i - 1) % 3) + 1]]

KeyOf == [i \in 1..Last |-> Text[((i - 1) \div 3) + 1]]

\* The sleep before event i: an "up" follows its marker at once, and nothing
\* comes before the first down.
Sleep(i) == IF i = 1 \/ i > Last \/ Cmd[i] = "up" THEN 0 ELSE KeyDelay

\* The three tasks start together; the snapshot sender connects first.
ClientInit ==
    /\ OutboxInit
    /\ at = [w \in Walker |-> 1]
    /\ \E d \in ConnectTime : begun = now + d
    /\ wake = [t \in Walker \cup {"snap"} |-> IF t = "snap" THEN begun ELSE now]
    /\ held = {}
    /\ phase = "main"
    /\ seconds \in Seconds
    /\ seq = 0
    /\ lastSnap = begun - Interval
    /\ edges = {}
    /\ streams = [c \in Connection |-> <<>>]
    /\ released = [k \in Key |-> now]

-----------------------------------------------------------------------------
\* A walking task handles its next event and sleeps until the one after it.
Walk(w) ==
    /\ at[w] <= Last
    /\ wake[w] <= now
    /\ at' = [at EXCEPT ![w] = @ + 1]
    /\ wake' = [wake EXCEPT ![w] = now + Sleep(at[w] + 1)]

\* Faulty: stamps an edge with the time it should leave at.
SendEdgePostdated ==
    LET i == at["udp"] IN
    /\ Walk("udp")
    /\ IF Cmd[i] = "up" /\ KeyOf[i] \in DropKeyup
       THEN UNCHANGED outbox
       ELSE \/ Lose("udp", Cmd[i] = "mup")
            \/ Push("udp", i, [cmd |-> Cmd[i], key |-> KeyOf[i], stamp |-> now + Base])
    /\ UNCHANGED <<held, phase, seconds, begun, seq, lastSnap, released, channels>>

\* udp_sender: the edge is stamped before the outbox delays it; markers are
\* never dropped.
SendEdge ==
    LET i == at["udp"] IN
    /\ Walk("udp")
    /\ IF Cmd[i] = "up" /\ KeyOf[i] \in DropKeyup
       THEN UNCHANGED outbox
       ELSE \/ Lose("udp", Cmd[i] = "mup")
            \/ Push("udp", i, [cmd |-> Cmd[i], key |-> KeyOf[i], stamp |-> now])
    /\ UNCHANGED <<held, phase, seconds, begun, seq, lastSnap, released, channels>>

\* udp_sender, finally: close the outbox and wait for its task.
CloseEdges ==
    /\ at["udp"] > Last
    /\ "udp" \notin closed
    /\ CloseBox("udp")
    /\ UNCHANGED <<client, channels>>

\* state_machine
HoldKeys ==
    LET i == at["state"] IN
    /\ Walk("state")
    /\ held' = CASE Cmd[i] = "down" -> held \cup {KeyOf[i]}
                 [] Cmd[i] = "up"   -> held \ {KeyOf[i]}
                 [] OTHER           -> held
    /\ released' = IF Cmd[i] = "up" THEN [released EXCEPT ![KeyOf[i]] = now] ELSE released
    /\ UNCHANGED <<phase, seconds, begun, seq, lastSnap, outbox, channels>>

-----------------------------------------------------------------------------
\* How long the connection of this phase sends snapshots.
Span == IF phase = "main" THEN seconds ELSE FlushSeconds

\* quic_snapshot_sender: one turn of its loop.  MaxGap bounds the snapshots that
\* are dropped in a row.
TakeSnapshot ==
    /\ phase \in Connection
    /\ "quic" \notin closed
    /\ wake["snap"] <= now
    /\ now - begun < Span
    /\ \/ Push("quic", seq, held) /\ lastSnap' = now
       \/ Lose("quic", now + Interval > lastSnap + MaxGap) /\ UNCHANGED lastSnap
    /\ seq' = seq + 1
    /\ wake' = [wake EXCEPT !["snap"] = now + Interval]
    /\ UNCHANGED <<at, held, phase, seconds, begun, released, channels>>

\* The loop ends: close the outbox and wait for its task.
CloseSnapshots ==
    /\ phase \in Connection
    /\ "quic" \notin closed
    /\ wake["snap"] <= now
    /\ now - begun >= Span
    /\ CloseBox("quic")
    /\ UNCHANGED <<client, channels>>

\* Faulty: the second sender measures from the first one's t0.
StartFlushOldClock ==
    /\ phase = "main"
    /\ Box \subseteq closed /\ \A b \in Box : Emptied(b)
    /\ at["state"] > Last
    /\ phase' = "flush"
    /\ held' = {}
    /\ closed' = closed \ {"quic"}
    /\ seq' = 0
    /\ \E d \in ConnectTime :
          /\ wake' = [wake EXCEPT !["snap"] = now + d]
          /\ lastSnap' = now + d - Interval
    /\ UNCHANGED <<at, seconds, begun, released, pq, sleeping, channels>>

\* main: all three tasks have ended; clear the keys and send snapshots again,
\* from a new outbox on a new connection.
StartFlush ==
    /\ phase = "main"
    /\ Box \subseteq closed /\ \A b \in Box : Emptied(b)
    /\ at["state"] > Last
    /\ phase' = "flush"
    /\ held' = {}
    /\ closed' = closed \ {"quic"}
    /\ seq' = 0
    /\ \E d \in ConnectTime :
          /\ begun' = now + d
          /\ wake' = [wake EXCEPT !["snap"] = now + d]
          /\ lastSnap' = now + d - Interval
    /\ UNCHANGED <<at, seconds, released, pq, sleeping, channels>>

EndRun ==
    /\ phase = "flush"
    /\ "quic" \in closed /\ Emptied("quic")
    /\ phase' = "done"
    /\ UNCHANGED <<at, wake, held, seconds, begun, seq, lastSnap, released, outbox, channels>>

-----------------------------------------------------------------------------
\* The outboxes' tasks: sendto, and write on the phase's connection.
SendDatagram ==
    /\ Emit("udp")
    /\ edges' = edges \cup {sleeping["udp"].p}
    /\ UNCHANGED <<client, streams>>

WriteSnapshot ==
    /\ Emit("quic")
    /\ streams' = [streams EXCEPT ![phase] = Append(@, sleeping["quic"].p)]
    /\ UNCHANGED <<client, edges>>

PopNext(b) ==
    /\ Pop(b)
    /\ UNCHANGED <<client, channels>>

ClientStep ==
    \/ SendEdge
    \/ CloseEdges
    \/ HoldKeys
    \/ TakeSnapshot
    \/ CloseSnapshots
    \/ StartFlush
    \/ EndRun
    \/ SendDatagram
    \/ WriteSnapshot
    \/ \E b \in Box : PopNext(b)

\* Some task can run now, so the event loop does not let the time pass.
ClientDue ==
    \/ \E w \in Walker : at[w] <= Last /\ wake[w] <= now
    \/ at["udp"] > Last /\ "udp" \notin closed
    \/ phase \in Connection /\ "quic" \notin closed /\ wake["snap"] <= now
    \/ \E b \in Box : BoxDue(b)
    \/ phase = "main" /\ Box \subseteq closed /\ at["state"] > Last /\ \A b \in Box : Emptied(b)
    \/ phase = "flush" /\ "quic" \in closed /\ Emptied("quic")
=============================================================================
