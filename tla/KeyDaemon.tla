------------------------------ MODULE KeyDaemon ------------------------------
(***************************************************************************)
(* The daemon's authoritative key state and the threads that share it      *)
(* (daemon/src/main.cpp).                                                  *)
(*                                                                         *)
(* Four kinds of thread update the state: the UDP loop (edges and key-up   *)
(* markers), the msquic workers that deliver snapshots, the msquic workers *)
(* that deliver QUIC edges, and the watchdog.  A handler is not atomic: it *)
(* reads the clock, takes state_mu to update the state and releases it,    *)
(* takes state_mu again to build a report from the state it then finds,    *)
(* releases it, and hands the report to the HID socket with no lock held.  *)
(* Every one of those four moments is an action here, so any other thread  *)
(* can run between two of them.                                            *)
(*                                                                         *)
(* Time is in milliseconds.  A datagram or record that the code drops      *)
(* (deadline, unmapped key, short record) changes nothing and is no step.  *)
(***************************************************************************)
EXTENDS Integers, FiniteSets

CONSTANTS
    Usage,          \* HID usage codes: the 256 entries of keymeta
    UdpUsage,       \* usages the UDP parser's mapChar can produce
    SnapUsage,      \* usages a snapshot bitmap may name (0x04..0xA5)
    Modifier,       \* values of the modifiers byte
    NoModifier,     \* the modifiers byte at start-up, 0x00
    Stamp,          \* client timestamps an edge may carry; 0: none
    Udp,            \* the main thread, which runs the UDP loop
    Watchdog,       \* the monitor thread
    SnapWorker,     \* msquic workers running the snapshot callback
    EdgeWorker,     \* msquic workers running the QUIC edge callback
    NoJob,          \* what a thread holds between two critical sections
    WatchdogMs,     \* --watchdog-ms, 0: no forced release
    DeadlineMs,     \* --deadline-ms, 0: no deadline
    StuckMs,        \* --stuck-ms, 0: no stuck report
    Slots,          \* key slots of a boot-protocol report (6)
    Wrap,           \* modulus of the code's uint64_t (2^64)
    WatchdogLag,    \* bound on the time from one watchdog scan to the next
    LastInput,      \* bound: inputs arrive only until this time
    MaxClock        \* bound: the clock stops here

ASSUME UsageAssumption == UdpUsage \subseteq Usage /\ SnapUsage \subseteq Usage
ASSUME ModifierAssumption == NoModifier \in Modifier
ASSUME StampAssumption == Stamp \subseteq Nat
ASSUME ThreadAssumption ==
    /\ Udp # Watchdog
    /\ {Udp, Watchdog} \cap (SnapWorker \cup EdgeWorker) = {}
    /\ SnapWorker \cap EdgeWorker = {}
ASSUME TimeAssumption ==
    /\ WatchdogMs \in Nat /\ DeadlineMs \in Nat /\ StuckMs \in Nat
    /\ LastInput \in Nat /\ MaxClock \in Nat \ {0}
    /\ WatchdogLag \in Nat \ {0}
    /\ Slots \in Nat
    /\ Wrap \in Nat /\ MaxClock < Wrap /\ \A t \in Stamp : t < Wrap

VARIABLES
    now,        \* now_mono_ns(), in ms; positive, as 0 means "never" in keymeta
    pressed,    \* the keys held down, under state_mu
    modifiers,  \* the modifiers byte, under state_mu
    keymeta,    \* per-usage bookkeeping, under state_mu
    pc,         \* where each thread is in its handler
    job,        \* what each thread holds: its input, then the report it built
    sent,       \* the report last handed to the HID socket
    lastScan,   \* when the watchdog last finished a scan
    lastBuilt,  \* history: the report last built from the state
    touched     \* history: when an input last pressed or reaffirmed a key

vars == <<now, pressed, modifiers, keymeta, pc, job, sent, lastScan, lastBuilt, touched>>
-----------------------------------------------------------------------------
Thread == {Udp, Watchdog} \cup SnapWorker \cup EdgeWorker

KeyMeta == [pressed        : BOOLEAN,
            last_edge      : Nat,
            last_snapshot  : Nat,
            up_marker      : BOOLEAN,     \* its value feeds one log line only
            stuck_reported : BOOLEAN]

Report   == [keys : SUBSET Usage, mods : Modifier]
UdpEdge  == [cmd : {"down", "up", "mup"}, usage : UdpUsage, at : Nat]
QuicEdge == [down : BOOLEAN, usage : Usage, mods : Modifier, at : Nat]
Snapshot == [keys : SUBSET SnapUsage, mods : Modifier, at : Nat]
Scan     == [at : Nat]

\* What thread t carries into its critical section.
InputOf(t) == IF t = Udp THEN UdpEdge
              ELSE IF t = Watchdog THEN Scan
              ELSE IF t \in SnapWorker THEN Snapshot ELSE QuicEdge

\* later - earlier as the code computes it: an unsigned 64-bit subtraction.
Elapsed(later, earlier) ==
    IF later >= earlier THEN later - earlier ELSE later - earlier + Wrap

\* The key lists a loop over the unordered_set may leave in a report: six keys
\* (all of them when there are fewer), and not always the same six.
FirstSlots(S) ==
    {K \in SUBSET S :
        Cardinality(K) = IF Cardinality(S) < Slots THEN Cardinality(S) ELSE Slots}

ReportsOf(keys, mods) == [keys : FirstSlots(keys), mods : {mods}]
-----------------------------------------------------------------------------
Init ==
    /\ now = 1
    /\ pressed = {}
    /\ modifiers = NoModifier
    /\ keymeta = [u \in Usage |->
                    [pressed |-> FALSE, last_edge |-> 0, last_snapshot |-> 0,
                     up_marker |-> FALSE, stuck_reported |-> FALSE]]
    /\ pc = [t \in Thread |-> "idle"]
    /\ job = [t \in Thread |-> NoJob]
    /\ sent = [keys |-> {}, mods |-> NoModifier]
    /\ lastScan = 1
    /\ lastBuilt = [keys |-> {}, mods |-> NoModifier]
    /\ touched = [u \in Usage |-> 0]

-----------------------------------------------------------------------------
\* Control of a handler: thread t goes from one step to the next, holding w.
Goto(t, from, to, w) ==
    /\ pc[t] = from
    /\ pc' = [pc EXCEPT ![t] = to]
    /\ job' = [job EXCEPT ![t] = w]

StateUnchanged == UNCHANGED <<pressed, modifiers, keymeta, touched>>

\* Time passes, but the watchdog, asleep for 10 ms at a time, is never starved
\* for longer than WatchdogLag.
Tick ==
    /\ now < MaxClock
    /\ now - lastScan < WatchdogLag
    /\ now' = now + 1
    /\ UNCHANGED <<pc, job, sent, lastScan, lastBuilt>> /\ StateUnchanged

Stamped(t, w) ==
    /\ Goto(t, "idle", "stamped", w)
    /\ UNCHANGED <<now, sent, lastScan, lastBuilt>> /\ StateUnchanged

\* Faulty: an edge's release keeps the key-up marker.
EdgeKeepsMarker(km, down, at) ==
    [km EXCEPT !.pressed = down, !.last_edge = at, !.stuck_reported = FALSE]

\* The update of keymeta[u] that every press or release by an edge makes.
Edge(km, down, at) ==
    [km EXCEPT !.pressed = down, !.last_edge = at, !.stuck_reported = FALSE,
               !.up_marker = @ /\ down]

Press(u, down) == IF down THEN pressed \cup {u} ELSE pressed \ {u}

Touch(us) == touched' = [u \in Usage |-> IF u \in us THEN now ELSE touched[u]]

\* After its update the thread goes on to build a report ("applied"), or is done.
Applied(t) ==
    /\ Goto(t, "stamped", "applied", NoJob)
    /\ UNCHANGED <<now, sent, lastBuilt>>

-----------------------------------------------------------------------------
\* The UDP loop.  An unstamped edge is taken to be sent now; a stamp in the
\* future makes the unsigned age huge, and the edge is dropped as late.
UdpReceive(cmd, u, t) ==
    /\ DeadlineMs > 0 => Elapsed(now, IF t = 0 THEN now ELSE t) <= DeadlineMs
    /\ Stamped(Udp, [cmd |-> cmd, usage |-> u, at |-> now])

\* "mup": the key-up marker that starts a healing measurement; no report.
UdpMark ==
    LET e == job[Udp] IN
    /\ pc[Udp] = "stamped"
    /\ e.cmd = "mup"
    /\ keymeta' = [keymeta EXCEPT ![e.usage].up_marker = TRUE]
    /\ Goto(Udp, "stamped", "idle", NoJob)
    /\ UNCHANGED <<now, pressed, modifiers, sent, lastScan, lastBuilt, touched>>

\* Faulty: a key-up produces no report.
UdpApplyUpUnreported ==
    LET e == job[Udp]  down == e.cmd = "down" IN
    /\ pc[Udp] = "stamped"
    /\ e.cmd # "mup"
    /\ keymeta' = [keymeta EXCEPT ![e.usage] = Edge(@, down, e.at)]
    /\ pressed' = Press(e.usage, down)
    /\ Touch(IF down THEN {e.usage} ELSE {})
    /\ Goto(Udp, "stamped", IF down THEN "applied" ELSE "idle", NoJob)
    /\ UNCHANGED <<now, modifiers, sent, lastScan, lastBuilt>>

UdpApply ==
    LET e == job[Udp]  down == e.cmd = "down" IN
    /\ pc[Udp] = "stamped"
    /\ e.cmd # "mup"
    /\ keymeta' = [keymeta EXCEPT ![e.usage] = Edge(@, down, e.at)]
    /\ pressed' = Press(e.usage, down)
    /\ Touch(IF down THEN {e.usage} ELSE {})
    /\ Applied(Udp)
    /\ UNCHANGED <<modifiers, lastScan>>

-----------------------------------------------------------------------------
\* A QUIC edge record.  Its deadline test guards against a future stamp.
EdgeReceive(w, down, u, mods, t) ==
    /\ DeadlineMs > 0 => (IF now >= t THEN now - t ELSE 0) <= DeadlineMs
    /\ Stamped(w, [down |-> down, usage |-> u, mods |-> mods, at |-> now])

EdgeApply(w) ==
    LET e == job[w] IN
    /\ pc[w] = "stamped"
    /\ keymeta' = [keymeta EXCEPT ![e.usage] = Edge(@, e.down, e.at)]
    /\ pressed' = Press(e.usage, e.down)
    /\ modifiers' = e.mods
    /\ Touch(IF e.down THEN {e.usage} ELSE {})
    /\ Applied(w)
    /\ UNCHANGED lastScan

-----------------------------------------------------------------------------
\* Faulty: takes every bit of the bitmap for a keyboard usage.
SnapReceiveUnfiltered(w, bits, mods) ==
    Stamped(w, [keys |-> bits, mods |-> mods, at |-> now])

\* A snapshot record: bits outside the keyboard range are ignored, and so are
\* the record's own sequence number and timestamp.
SnapReceive(w, bits, mods) ==
    Stamped(w, [keys |-> bits \cap SnapUsage, mods |-> mods, at |-> now])

\* Faulty: drops omitted keys from the set but leaves their flag.
ReconciledKeepsFlag(s) ==
    [u \in Usage |->
        IF u \in s.keys
        THEN [keymeta[u] EXCEPT !.pressed = TRUE, !.last_snapshot = s.at]
        ELSE keymeta[u]]

\* The snapshot replaces the state: a key it omits is released, and heals.
Reconciled(s) ==
    [u \in Usage |->
        IF u \in s.keys
        THEN [keymeta[u] EXCEPT !.pressed = TRUE, !.last_snapshot = s.at]
        ELSE IF u \in pressed
        THEN [keymeta[u] EXCEPT !.pressed = FALSE, !.up_marker = FALSE]
        ELSE keymeta[u]]

SnapApply(w) ==
    LET s == job[w] IN
    /\ pc[w] = "stamped"
    /\ modifiers' = s.mods
    /\ keymeta' = Reconciled(s)
    /\ pressed' = s.keys
    /\ Touch(s.keys)
    /\ Applied(w)
    /\ UNCHANGED lastScan

-----------------------------------------------------------------------------
\* The monitor thread wakes and reads the clock before it takes state_mu.
WatchdogWake == Stamped(Watchdog, [at |-> now])

Stuck(u, at) ==
    /\ StuckMs > 0
    /\ keymeta[u].last_edge # 0
    /\ ~keymeta[u].stuck_reported
    /\ Elapsed(at, keymeta[u].last_edge) > StuckMs

\* Faulty: only looks at keys some edge has touched.
ExpiredEdgesOnly(u, at) ==
    /\ WatchdogMs > 0
    /\ keymeta[u].last_snapshot # 0 /\ keymeta[u].last_edge # 0
    /\ Elapsed(at, keymeta[u].last_snapshot) > WatchdogMs

\* Faulty: leaves a key with a pending key-up marker to the snapshots.
ExpiredUnmarked(u, at) ==
    /\ WatchdogMs > 0
    /\ keymeta[u].last_snapshot # 0 /\ ~keymeta[u].up_marker
    /\ Elapsed(at, keymeta[u].last_snapshot) > WatchdogMs

Expired(u, at) ==
    /\ WatchdogMs > 0
    /\ keymeta[u].last_snapshot # 0
    /\ Elapsed(at, keymeta[u].last_snapshot) > WatchdogMs

\* Faulty: erases the key from the set only.
ScannedKeepsFlag(gone, at) ==
    [u \in Usage |-> [keymeta[u] EXCEPT !.up_marker = @ /\ u \notin gone]]

\* Faulty: leaves the key-up marker of a key it releases.
ScannedKeepsMarker(gone, at) ==
    [u \in Usage |-> [keymeta[u] EXCEPT !.pressed = @ /\ u \notin gone]]

\* The release of a stale key in one scan of the pressed set.
Scanned(gone, at) ==
    [u \in Usage |->
        [keymeta[u] EXCEPT
            !.pressed = @ /\ u \notin gone,
            !.up_marker = @ /\ u \notin gone,
            !.stuck_reported = @ \/ (u \in pressed /\ Stuck(u, at))]]

\* Faulty: never notes that it changed something.
WatchdogScanUnreported ==
    LET at == job[Watchdog].at
        gone == {u \in pressed : Expired(u, at)} IN
    /\ pc[Watchdog] = "stamped"
    /\ pressed' = pressed \ gone
    /\ keymeta' = Scanned(gone, at)
    /\ lastScan' = now
    /\ Goto(Watchdog, "stamped", "idle", NoJob)
    /\ UNCHANGED <<now, modifiers, sent, lastBuilt, touched>>

WatchdogScan ==
    LET at == job[Watchdog].at
        gone == {u \in pressed : Expired(u, at)} IN
    /\ pc[Watchdog] = "stamped"
    /\ pressed' = pressed \ gone
    /\ keymeta' = Scanned(gone, at)
    /\ lastScan' = now
    /\ Goto(Watchdog, "stamped", IF gone = {} THEN "idle" ELSE "applied", NoJob)
    /\ UNCHANGED <<now, modifiers, sent, lastBuilt, touched>>

-----------------------------------------------------------------------------
\* The second critical section of every handler.
BuildReport(t) ==
    /\ \E r \in ReportsOf(pressed, modifiers) :
          /\ Goto(t, "applied", "built", r)
          /\ lastBuilt' = r
    /\ UNCHANGED <<now, sent, lastScan>> /\ StateUnchanged

\* HidSocket::send_report, outside the lock.
SendReport(t) ==
    /\ pc[t] = "built"
    /\ sent' = job[t]
    /\ Goto(t, "built", "idle", NoJob)
    /\ UNCHANGED <<now, lastScan, lastBuilt>> /\ StateUnchanged

-----------------------------------------------------------------------------
Input ==
    /\ now <= LastInput
    /\ \/ \E cmd \in {"down", "up", "mup"}, u \in UdpUsage, t \in Stamp :
             UdpReceive(cmd, u, t)
       \/ \E w \in EdgeWorker, down \in BOOLEAN, u \in Usage, m \in Modifier, t \in Stamp :
             EdgeReceive(w, down, u, m, t)
       \/ \E w \in SnapWorker, bits \in SUBSET Usage, m \in Modifier :
             SnapReceive(w, bits, m)

Apply ==
    \/ UdpMark
    \/ UdpApply
    \/ \E w \in EdgeWorker : EdgeApply(w)
    \/ \E w \in SnapWorker : SnapApply(w)

Next ==
    \/ Tick
    \/ Input
    \/ Apply
    \/ WatchdogWake
    \/ WatchdogScan
    \/ \E t \in Thread : BuildReport(t) \/ SendReport(t)

Spec == Init /\ [][Next]_vars

\* The scheduler runs every thread that can run, and no critical section
\* blocks, so each handler that has started finishes.  Inputs may stop.
Fairness ==
    /\ WF_vars(Tick)
    /\ WF_vars(WatchdogWake)
    /\ WF_vars(WatchdogScan)
    /\ WF_vars(UdpMark \/ UdpApply)
    /\ \A w \in EdgeWorker : WF_vars(EdgeApply(w))
    /\ \A w \in SnapWorker : WF_vars(SnapApply(w))
    /\ \A t \in Thread : WF_vars(BuildReport(t)) /\ WF_vars(SendReport(t))

FairSpec == Spec /\ Fairness
-----------------------------------------------------------------------------
(* Properties *)

\* What each thread holds fits the place it is at.
InputTypeOK ==
    \A t \in Thread :
        /\ pc[t] = "stamped" => job[t] \in InputOf(t) /\ job[t].at \in 1..now
        /\ pc[t] = "built" => job[t] \in Report
        /\ pc[t] \in {"idle", "applied"} => job[t] = NoJob

\* Types.  Every stamp a thread or keymeta holds is a time that has passed.
TypeOK ==
    /\ now \in 1..MaxClock /\ lastScan \in 1..now
    /\ pressed \subseteq Usage
    /\ modifiers \in Modifier
    /\ keymeta \in [Usage -> KeyMeta]
    /\ pc \in [Thread -> {"idle", "stamped", "applied", "built"}]
    /\ DOMAIN job = Thread
    /\ InputTypeOK
    /\ sent \in Report /\ lastBuilt \in Report
    /\ touched \in [Usage -> 0..now]
    /\ \A u \in Usage : keymeta[u].last_edge <= now /\ keymeta[u].last_snapshot <= now

\* The set of pressed keys and the per-key flag are two copies of one fact, set
\* in four places of main.cpp; they never disagree once state_mu is released.
MetaAgrees == \A u \in Usage : keymeta[u].pressed <=> u \in pressed

\* No state change is silent: whenever the state differs from the report last
\* built of it, some thread is between its update and its report.
NoSilentChange ==
    \/ \E t \in Thread : pc[t] = "applied"
    \/ lastBuilt \in ReportsOf(pressed, modifiers)

\* A key that leaves the pressed set, by an edge, a snapshot or the watchdog,
\* leaves no key-up marker behind for the next press to inherit.
MarkerClearedOnRelease ==
    [][\A u \in pressed : u \notin pressed' => ~keymeta'[u].up_marker]_vars

LargerOf(a, b) == IF a >= b THEN a ELSE b

\* A key that a snapshot has ever named is held at most WatchdogMs beyond its
\* last reaffirmation, plus two scan intervals: one for the scan that read the
\* clock just too early, one for the wait for the next.
ForceReleaseBound ==
    WatchdogMs > 0 =>
        \A u \in pressed :
            keymeta[u].last_snapshot # 0 =>
                now <= LargerOf(keymeta[u].last_snapshot + WatchdogMs, touched[u])
                       + 2 * WatchdogLag

\* Once the clients fall silent, every key that a snapshot has named is let go.
SilenceReleases == <>[](\A u \in pressed : keymeta[u].last_snapshot = 0)

-----------------------------------------------------------------------------
(* Claims of the documents that the code does not keep *)

\* With no handler in progress, the HID side has the authoritative key set: the
\* daemon converts it into reports and feeds them to QEMU (docs/proposal.md:48).
\* The report is built under the lock but sent after it, so an older report can
\* overtake a newer one and stay the last.
QuiescentReport ==
    (\A t \in Thread : pc[t] = "idle") => sent \in ReportsOf(pressed, modifiers)

\* The watchdog lets go only of keys no snapshot has reaffirmed for WatchdogMs
\* (docs/report_single.tex:50).  The scan subtracts from a clock it read before
\* it waited for the lock: a newer last_snapshot wraps the age around.
WatchdogSparesReaffirmed ==
    [][WatchdogScan =>
         \A u \in pressed \ pressed' : now - keymeta[u].last_snapshot > WatchdogMs]_vars

\* The watchdog lets go only of keys that have been held for WatchdogMs
\* (docs/proposal.md:42: after ~200 ms it unsticks keys that no snapshot has
\* reaffirmed; docs/report_single.tex:213: a safety net when snapshots are
\* delayed).  last_snapshot outlives the press it belongs to, so a key pressed
\* again by an edge is released at the next scan.
WatchdogSparesNewPress ==
    [][WatchdogScan =>
         \A u \in pressed \ pressed' :
            LET km == keymeta[u] IN
            km.last_edge > km.last_snapshot => now - km.last_edge > WatchdogMs]_vars
=============================================================================
