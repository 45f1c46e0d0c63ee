------------------------------- MODULE QuicKeys -------------------------------
(***************************************************************************)
(* The pipeline from the user's fingers to the daemon's authoritative key  *)
(* set: HybridClient and KeyDaemon, with a network between them that loses *)
(* and delays nothing of its own, since the client's outboxes already do.  *)
(*                                                                         *)
(* The daemon is KeyDaemon, action by action: the UDP loop takes edges,    *)
(* one worker per connection takes snapshots.  The watchdog is switched    *)
(* off (--watchdog-ms 0 --stuck-ms 0, as in the "no_watchdog" ablation of  *)
(* scripts/run_report_experiments.py): what is shown here is what the      *)
(* snapshots achieve alone.  Client and daemon read one monotonic clock,   *)
(* as they do in the experiments, where both run on one host.              *)
(***************************************************************************)
EXTENDS HybridClient

CONSTANTS
    NoJob,          \* as in KeyDaemon
    DeadlineMs,     \* --deadline-ms
    MaxTime         \* bound: the clock stops here

ASSUME MaxTimeAssumption == DeadlineMs \in Nat /\ MaxTime \in Nat \ {0}

VARIABLES pressed, modifiers, keymeta, pc, job, sent, lastScan, lastBuilt, touched

daemon == <<pressed, modifiers, keymeta, pc, job, sent, lastScan, lastBuilt, touched>>
vars == <<now, outbox, client, channels, daemon>>
-----------------------------------------------------------------------------
NoModifier == 0

D == INSTANCE KeyDaemon
        WITH Usage <- Key, UdpUsage <- Key, SnapUsage <- Key,
             Modifier <- {NoModifier}, Stamp <- 0..MaxTime,
             Udp <- "udp", Watchdog <- "watchdog",
             SnapWorker <- Connection, EdgeWorker <- {},
             WatchdogMs <- 0, StuckMs <- 0, Slots <- 6, Wrap <- MaxTime + 1,
             WatchdogLag <- MaxTime, LastInput <- MaxTime, MaxClock <- MaxTime

Init == now = 1 /\ ClientInit /\ D!Init

-----------------------------------------------------------------------------
Client == ClientStep /\ UNCHANGED <<now, daemon>>

\* The UDP loop receives a datagram and takes it, or drops it as late.
ReceiveEdge ==
    \E e \in edges :
        /\ D!UdpReceive(e.cmd, e.key, e.stamp)
        /\ edges' = edges \ {e}
        /\ UNCHANGED <<streams, outbox, client>>

DropLateEdge ==
    \E e \in edges :
        /\ pc["udp"] = "idle"
        /\ DeadlineMs > 0 /\ now - e.stamp > DeadlineMs
        /\ edges' = edges \ {e}
        /\ UNCHANGED <<now, streams, outbox, client, daemon>>

\* The framing layer hands the next record of a connection to its worker.
ReceiveSnapshot ==
    \E c \in Connection :
        /\ streams[c] # <<>>
        /\ D!SnapReceive(c, Head(streams[c]), NoModifier)
        /\ streams' = [streams EXCEPT ![c] = Tail(@)]
        /\ UNCHANGED <<edges, outbox, client>>

\* Faulty: a snapshot adds the keys it names but releases none.
SnapApplyAdds(w) ==
    LET s == job[w] IN
    /\ pc[w] = "stamped"
    /\ modifiers' = s.mods
    /\ keymeta' = [u \in Key |->
                     IF u \in s.keys THEN [keymeta[u] EXCEPT !.pressed = TRUE] ELSE keymeta[u]]
    /\ pressed' = pressed \cup s.keys
    /\ D!Touch(s.keys)
    /\ D!Applied(w)
    /\ UNCHANGED lastScan

SnapApply(w) == D!SnapApply(w)

\* A handler in progress goes on.
Handle ==
    /\ \/ D!UdpMark
       \/ D!UdpApply
       \/ \E c \in Connection : SnapApply(c)
       \/ \E t \in {"udp"} \cup Connection : D!BuildReport(t) \/ D!SendReport(t)
    /\ UNCHANGED <<outbox, client, channels>>

DaemonDue ==
    \/ edges # {}
    \/ \E c \in Connection : streams[c] # <<>>
    \/ \E t \in {"udp"} \cup Connection : pc[t] # "idle"

Settled == ~ClientDue /\ ~DaemonDue

Tick ==
    /\ Settled
    /\ phase # "done" /\ now < MaxTime
    /\ now' = now + 1
    /\ UNCHANGED <<outbox, client, channels, daemon>>

Next ==
    \/ Client
    \/ ReceiveEdge
    \/ DropLateEdge
    \/ ReceiveSnapshot
    \/ Handle
    \/ Tick

Spec == Init /\ [][Next]_vars

\* The event loop runs its due tasks, the daemon its handlers, and time passes.
FairSpec == Spec /\ WF_vars(Client) /\ WF_vars(Handle) /\ WF_vars(Tick)
                 /\ WF_vars(ReceiveEdge \/ DropLateEdge) /\ WF_vars(ReceiveSnapshot)
-----------------------------------------------------------------------------
(* Properties *)

\* Types of the client's state; the daemon's are KeyDaemon's.
TypeOK ==
    /\ now \in 1..MaxTime
    /\ at \in [Walker -> 1..Last + 1]
    /\ wake \in [Walker \cup {"snap"} -> Nat]
    /\ held \subseteq Key
    /\ phase \in Connection \cup {"done"}
    /\ seconds \in Seconds /\ begun \in Nat /\ seq \in Nat
    /\ lastSnap \in Int /\ (lastSnap <= now \/ lastSnap < begun)
    /\ released \in [Key -> 1..now]
    /\ closed \subseteq Box
    /\ \A e \in edges : e.key \in Key /\ e.stamp \in 1..now
    /\ D!TypeOK

\* The user has let go of k and the connection stands: since when both are so.
Since(k) == IF released[k] > begun THEN released[k] ELSE begun

\* While the client samples snapshots, a key the user has let go of is let go of
\* by the daemon in less than MaxGap + Base + 3 * Jitter, whatever edges are
\* lost, late or left out: the last message that can press it again arrives
\* within Base + Jitter of the release, and a snapshot that does not overtake it is
\* taken at most 2 * Jitter + MaxGap after the release, or after the connection
\* stands, if that is later.
HealingBound ==
    phase = "main" /\ "quic" \notin closed /\ Settled =>
        \A k \in pressed \ held : now < Since(k) + MaxGap + Base + 3 * Jitter

\* The flush leaves the daemon with no key pressed (client/hybrid_run.py:310),
\* whatever was lost, dropped as late or reordered before it.
FlushEmpties == phase = "done" /\ Settled => pressed = {}

\* The run comes to its end: no task waits for ever for its outbox to drain.
RunEnds == <>(phase = "done")

=============================================================================
