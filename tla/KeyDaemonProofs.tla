--------------------------- MODULE KeyDaemonProofs ---------------------------
(***************************************************************************)
(* Proofs about KeyDaemon, for any sets of keys and threads, any number of *)
(* workers and any timing parameters.                                      *)
(***************************************************************************)
EXTENDS KeyDaemon, FiniteSetTheorems, TLAPS

PC == {"idle", "stamped", "applied", "built"}

\* A thread that goes where its new job belongs keeps InputTypeOK.
LEMMA GotoKeepsInput ==
    ASSUME TypeOK, NEW t \in Thread, NEW from, NEW to \in PC, NEW w,
           Goto(t, from, to, w), now' = now,
           to = "stamped" => w \in InputOf(t) /\ w.at \in 1..now,
           to = "built" => w \in Report,
           to \in {"idle", "applied"} => w = NoJob
    PROVE  pc' \in [Thread -> PC] /\ DOMAIN job' = Thread /\ InputTypeOK'
<1>1. pc' \in [Thread -> PC] /\ DOMAIN job' = Thread
  BY DEF TypeOK, Goto, PC
<1>2. ASSUME NEW s \in Thread
      PROVE  /\ pc'[s] = "stamped" => job'[s] \in InputOf(s) /\ job'[s].at \in 1..now'
             /\ pc'[s] = "built" => job'[s] \in Report
             /\ pc'[s] \in {"idle", "applied"} => job'[s] = NoJob
  <2>1. CASE s = t
    <3>1. pc'[s] = to /\ job'[s] = w
      BY <2>1 DEF TypeOK, Goto
    <3>2. QED
      BY <2>1, <3>1
  <2>2. CASE s # t
    <3>1. pc'[s] = pc[s] /\ job'[s] = job[s]
      BY <2>2 DEF TypeOK, Goto
    <3>2. QED
      BY <3>1 DEF TypeOK, InputTypeOK
  <2>3. QED
    BY <2>1, <2>2
<1>3. QED
  BY <1>1, <1>2 DEF InputTypeOK

\* The four kinds of thread carry four kinds of input.
LEMMA InputKinds ==
    /\ InputOf(Udp) = UdpEdge
    /\ InputOf(Watchdog) = Scan
    /\ \A w \in SnapWorker : InputOf(w) = Snapshot
    /\ \A w \in EdgeWorker : InputOf(w) = QuicEdge
BY ThreadAssumption DEF InputOf

\* What a thread holds in each of the four handlers.
LEMMA HeldInput ==
    ASSUME TypeOK, NEW t \in Thread, pc[t] = "stamped"
    PROVE  /\ job[t].at \in 1..now
           /\ t = Udp => job[t] \in UdpEdge
           /\ t = Watchdog => job[t] \in Scan
           /\ t \in SnapWorker => job[t] \in Snapshot
           /\ t \in EdgeWorker => job[t] \in QuicEdge
BY InputKinds DEF TypeOK, InputTypeOK

\* Touching some keys keeps every touch in the past.
LEMMA TouchType ==
    ASSUME TypeOK, NEW us, Touch(us)
    PROVE  touched' \in [Usage -> 0..now]
BY DEF TypeOK, Touch

\* An edge updates one entry of keymeta, to a typed one.
LEMMA EdgeType ==
    ASSUME TypeOK, NEW u \in Usage, NEW down \in BOOLEAN, NEW at \in 1..now,
           keymeta' = [keymeta EXCEPT ![u] = Edge(@, down, at)], now' = now
    PROVE  /\ keymeta' \in [Usage -> KeyMeta]
           /\ \A v \in Usage : keymeta'[v].last_edge <= now' /\ keymeta'[v].last_snapshot <= now'
<1> DEFINE km == Edge(keymeta[u], down, at)
<1>1. km \in KeyMeta /\ km.last_edge = at /\ km.last_snapshot = keymeta[u].last_snapshot
  <2> DEFINE old == keymeta[u]
             mark == old.up_marker /\ down
  <2>1. old \in KeyMeta
    BY DEF TypeOK
  <2>2. mark \in BOOLEAN
    OBVIOUS
  <2>3. km = [old EXCEPT !.pressed = down, !.last_edge = at,
                         !.stuck_reported = FALSE, !.up_marker = mark]
    BY DEF Edge
  <2> HIDE DEF old, mark, km
  <2>4. at \in Nat
    BY DEF TypeOK
  <2>5. km \in KeyMeta
    BY <2>1, <2>2, <2>3, <2>4, Zenon DEF KeyMeta
  <2>6. km.last_edge = at /\ km.last_snapshot = old.last_snapshot
    BY <2>1, <2>3 DEF KeyMeta
  <2>7. QED
    BY <2>5, <2>6 DEF old
<1>2. \A v \in Usage : keymeta'[v] = IF v = u THEN km ELSE keymeta[v]
  BY DEF TypeOK
<1>3. keymeta' = [v \in Usage |-> IF v = u THEN km ELSE keymeta[v]]
  BY DEF TypeOK
<1> HIDE DEF km
<1>4. QED
  BY <1>1, <1>2, <1>3 DEF TypeOK

\* A snapshot's reconciliation keeps keymeta typed and its stamps in the past.
LEMMA ReconciledType ==
    ASSUME TypeOK, NEW s, s.at \in 1..now,
           keymeta' = Reconciled(s), now' = now
    PROVE  /\ keymeta' \in [Usage -> KeyMeta]
           /\ \A v \in Usage : keymeta'[v].last_edge <= now' /\ keymeta'[v].last_snapshot <= now'
<1> SUFFICES ASSUME NEW v \in Usage
             PROVE  /\ keymeta'[v] \in KeyMeta
                    /\ keymeta'[v].last_edge <= now' /\ keymeta'[v].last_snapshot <= now'
  BY DEF Reconciled
<1> DEFINE old == keymeta[v]
<1>1. old \in KeyMeta /\ old.last_edge <= now /\ old.last_snapshot <= now
  BY DEF TypeOK
<1>2. s.at \in Nat /\ s.at <= now
  BY DEF TypeOK
<1>3. CASE v \in s.keys
  <2>1. keymeta'[v] = [old EXCEPT !.pressed = TRUE, !.last_snapshot = s.at]
    BY <1>3 DEF Reconciled
  <2> HIDE DEF old
  <2>2. keymeta'[v] \in KeyMeta
    BY <1>1, <1>2, <2>1, Zenon DEF KeyMeta
  <2>3. keymeta'[v].last_edge = old.last_edge /\ keymeta'[v].last_snapshot = s.at
    BY <1>1, <2>1 DEF KeyMeta
  <2>4. QED
    BY <1>1, <1>2, <2>2, <2>3
<1>4. CASE v \notin s.keys /\ v \in pressed
  <2>1. keymeta'[v] = [old EXCEPT !.pressed = FALSE, !.up_marker = FALSE]
    BY <1>4 DEF Reconciled
  <2> HIDE DEF old
  <2>2. keymeta'[v] \in KeyMeta
    BY <1>1, <2>1, Zenon DEF KeyMeta
  <2>3. keymeta'[v].last_edge = old.last_edge /\ keymeta'[v].last_snapshot = old.last_snapshot
    BY <1>1, <2>1 DEF KeyMeta
  <2>4. QED
    BY <1>1, <2>2, <2>3
<1>5. CASE v \notin s.keys /\ v \notin pressed
  BY <1>1, <1>5 DEF Reconciled
<1>6. QED
  BY <1>3, <1>4, <1>5

\* A scan changes flags only.
LEMMA ScannedType ==
    ASSUME TypeOK, NEW gone, NEW at, keymeta' = Scanned(gone, at), now' = now
    PROVE  /\ keymeta' \in [Usage -> KeyMeta]
           /\ \A v \in Usage : /\ keymeta'[v].last_edge = keymeta[v].last_edge
                               /\ keymeta'[v].last_snapshot = keymeta[v].last_snapshot
<1> SUFFICES ASSUME NEW v \in Usage
             PROVE  /\ keymeta'[v] \in KeyMeta
                    /\ keymeta'[v].last_edge = keymeta[v].last_edge
                    /\ keymeta'[v].last_snapshot = keymeta[v].last_snapshot
  BY DEF Scanned
<1> DEFINE old == keymeta[v]
           flag == old.pressed /\ v \notin gone
           mark == old.up_marker /\ v \notin gone
           rep == old.stuck_reported \/ (v \in pressed /\ Stuck(v, at))
<1>1. old \in KeyMeta
  BY DEF TypeOK
<1>2. flag \in BOOLEAN /\ mark \in BOOLEAN /\ rep \in BOOLEAN
  OBVIOUS
<1>3. keymeta'[v] = [old EXCEPT !.pressed = flag, !.up_marker = mark, !.stuck_reported = rep]
  BY Zenon DEF Scanned
<1> HIDE DEF old, flag, mark, rep
<1>4. keymeta'[v] \in KeyMeta
  BY <1>1, <1>2, <1>3, Zenon DEF KeyMeta
<1>5. keymeta'[v].last_edge = old.last_edge /\ keymeta'[v].last_snapshot = old.last_snapshot
  BY <1>1, <1>3 DEF KeyMeta
<1>6. QED
  BY <1>4, <1>5 DEF old

\* A report has a subset of the pressed keys and the modifiers.
LEMMA ReportType ==
    ASSUME TypeOK, NEW r \in ReportsOf(pressed, modifiers)
    PROVE  r \in Report
BY DEF TypeOK, ReportsOf, FirstSlots, Report

-----------------------------------------------------------------------------
\* A thread that has read its input and the clock.
LEMMA StampedType ==
    ASSUME TypeOK, NEW t \in Thread, NEW w \in InputOf(t), w.at = now, Stamped(t, w)
    PROVE  TypeOK'
<1>1. now' = now /\ w.at \in 1..now
  BY DEF TypeOK, Stamped
<1>2. pc' \in [Thread -> PC] /\ DOMAIN job' = Thread /\ InputTypeOK'
  BY <1>1, GotoKeepsInput DEF Stamped, PC
<1>3. QED
  BY <1>1, <1>2 DEF TypeOK, Stamped, StateUnchanged, PC

\* The state updates of the four handlers.
LEMMA UdpMarkType ==
    ASSUME TypeOK, UdpMark
    PROVE  TypeOK'
<1> DEFINE u == job[Udp].usage
           old == keymeta[u]
<1>1. u \in Usage
  BY HeldInput, UsageAssumption DEF UdpMark, UdpEdge, Thread
<1>2. old \in KeyMeta /\ old.last_edge <= now /\ old.last_snapshot <= now
  BY <1>1 DEF TypeOK
<1>3. /\ keymeta' \in [Usage -> KeyMeta]
      /\ \A v \in Usage : keymeta'[v].last_edge <= now /\ keymeta'[v].last_snapshot <= now
  <2>1. keymeta' = [v \in Usage |-> IF v = u THEN [old EXCEPT !.up_marker = TRUE] ELSE keymeta[v]]
    BY DEF TypeOK, UdpMark
  <2> HIDE DEF old
  <2>2. [old EXCEPT !.up_marker = TRUE] \in KeyMeta
    BY <1>2, Zenon DEF KeyMeta
  <2>3. /\ [old EXCEPT !.up_marker = TRUE].last_edge = old.last_edge
        /\ [old EXCEPT !.up_marker = TRUE].last_snapshot = old.last_snapshot
    BY <1>2 DEF KeyMeta
  <2>4. QED
    BY <1>2, <2>1, <2>2, <2>3 DEF TypeOK
<1>4. pc' \in [Thread -> PC] /\ DOMAIN job' = Thread /\ InputTypeOK'
  BY GotoKeepsInput DEF UdpMark, Thread, PC
<1>5. QED
  BY <1>3, <1>4 DEF TypeOK, UdpMark, PC

LEMMA AppliedType ==
    ASSUME TypeOK, NEW t \in Thread, Applied(t)
    PROVE  pc' \in [Thread -> PC] /\ DOMAIN job' = Thread /\ InputTypeOK'
BY GotoKeepsInput DEF Applied, PC

LEMMA UdpApplyType ==
    ASSUME TypeOK, UdpApply
    PROVE  TypeOK'
<1> DEFINE e == job[Udp]
           down == e.cmd = "down"
<1>1. e.usage \in Usage /\ e.at \in 1..now
  BY HeldInput, UsageAssumption DEF UdpApply, UdpEdge, Thread
<1>2. now' = now /\ down \in BOOLEAN
  BY DEF UdpApply, Applied
<1>3. /\ keymeta' \in [Usage -> KeyMeta]
      /\ \A v \in Usage : keymeta'[v].last_edge <= now' /\ keymeta'[v].last_snapshot <= now'
  <2>1. keymeta' = [keymeta EXCEPT ![e.usage] = Edge(@, down, e.at)]
    BY DEF UdpApply
  <2> HIDE DEF down
  <2>2. QED
    BY <1>1, <1>2, <2>1, EdgeType
<1>4. pc' \in [Thread -> PC] /\ DOMAIN job' = Thread /\ InputTypeOK'
  BY AppliedType DEF UdpApply, Thread
<1>5. pressed' \subseteq Usage
  BY <1>1 DEF TypeOK, UdpApply, Press
<1>6. touched' \in [Usage -> 0..now]
  BY TouchType DEF UdpApply
<1>7. QED
  BY <1>2, <1>3, <1>4, <1>5, <1>6 DEF TypeOK, UdpApply, Applied, PC

LEMMA EdgeApplyType ==
    ASSUME TypeOK, NEW w \in EdgeWorker, EdgeApply(w)
    PROVE  TypeOK'
<1> DEFINE e == job[w]
<1>1. e.usage \in Usage /\ e.down \in BOOLEAN /\ e.mods \in Modifier /\ e.at \in 1..now
  BY HeldInput DEF EdgeApply, QuicEdge, Thread
<1>2. now' = now
  BY DEF EdgeApply, Applied
<1>3. /\ keymeta' \in [Usage -> KeyMeta]
      /\ \A v \in Usage : keymeta'[v].last_edge <= now' /\ keymeta'[v].last_snapshot <= now'
  BY <1>1, <1>2, EdgeType DEF EdgeApply
<1>4. pc' \in [Thread -> PC] /\ DOMAIN job' = Thread /\ InputTypeOK'
  BY AppliedType DEF EdgeApply, Thread
<1>5. pressed' \subseteq Usage
  BY <1>1 DEF TypeOK, EdgeApply, Press
<1>6. touched' \in [Usage -> 0..now]
  BY TouchType DEF EdgeApply
<1>7. QED
  BY <1>1, <1>2, <1>3, <1>4, <1>5, <1>6 DEF TypeOK, EdgeApply, Applied, PC

LEMMA SnapApplyType ==
    ASSUME TypeOK, NEW w \in SnapWorker, SnapApply(w)
    PROVE  TypeOK'
<1> DEFINE s == job[w]
<1>1. s.keys \subseteq Usage /\ s.mods \in Modifier /\ s.at \in 1..now
  BY HeldInput, UsageAssumption DEF SnapApply, Snapshot, Thread
<1>2. now' = now
  BY DEF SnapApply, Applied
<1>3. /\ keymeta' \in [Usage -> KeyMeta]
      /\ \A v \in Usage : keymeta'[v].last_edge <= now' /\ keymeta'[v].last_snapshot <= now'
  BY <1>1, <1>2, ReconciledType DEF SnapApply
<1>4. pc' \in [Thread -> PC] /\ DOMAIN job' = Thread /\ InputTypeOK'
  BY AppliedType DEF SnapApply, Thread
<1>5. touched' \in [Usage -> 0..now]
  BY TouchType DEF SnapApply
<1>6. QED
  BY <1>1, <1>2, <1>3, <1>4, <1>5 DEF TypeOK, SnapApply, Applied, PC

LEMMA WatchdogScanType ==
    ASSUME TypeOK, WatchdogScan
    PROVE  TypeOK'
<1>1. now' = now /\ now \in 1..now
  BY DEF TypeOK, WatchdogScan
<1>2. /\ keymeta' \in [Usage -> KeyMeta]
      /\ \A v \in Usage : keymeta'[v].last_edge <= now' /\ keymeta'[v].last_snapshot <= now'
  BY <1>1, ScannedType DEF TypeOK, WatchdogScan
<1>3. pc' \in [Thread -> PC] /\ DOMAIN job' = Thread /\ InputTypeOK'
  <2> DEFINE gone == {u \in pressed : Expired(u, job[Watchdog].at)}
             to == IF gone = {} THEN "idle" ELSE "applied"
  <2>1. to \in PC /\ to \in {"idle", "applied"} /\ to # "stamped" /\ to # "built"
    BY DEF PC
  <2>2. Goto(Watchdog, "stamped", to, NoJob)
    BY DEF WatchdogScan
  <2>3. Watchdog \in Thread
    BY DEF Thread
  <2> HIDE DEF to, gone
  <2>4. QED
    BY <1>1, <2>1, <2>2, <2>3, GotoKeepsInput
<1>4. QED
  BY <1>1, <1>2, <1>3 DEF TypeOK, WatchdogScan, PC

LEMMA BuildReportType ==
    ASSUME TypeOK, NEW t \in Thread, BuildReport(t)
    PROVE  TypeOK'
<1>1. PICK r \in ReportsOf(pressed, modifiers) : Goto(t, "applied", "built", r) /\ lastBuilt' = r
  BY DEF BuildReport
<1>2. r \in Report /\ now' = now
  BY ReportType DEF BuildReport
<1>3. pc' \in [Thread -> PC] /\ DOMAIN job' = Thread /\ InputTypeOK'
  BY <1>1, <1>2, GotoKeepsInput DEF PC
<1>4. QED
  BY <1>1, <1>2, <1>3 DEF TypeOK, BuildReport, StateUnchanged, PC

LEMMA SendReportType ==
    ASSUME TypeOK, NEW t \in Thread, SendReport(t)
    PROVE  TypeOK'
<1>1. job[t] \in Report /\ now' = now
  BY DEF TypeOK, InputTypeOK, SendReport
<1>2. pc' \in [Thread -> PC] /\ DOMAIN job' = Thread /\ InputTypeOK'
  BY <1>1, GotoKeepsInput DEF SendReport, PC
<1>3. QED
  BY <1>1, <1>2 DEF TypeOK, SendReport, StateUnchanged, PC

LEMMA InputType ==
    ASSUME TypeOK, Input
    PROVE  TypeOK'
<1>1. ASSUME NEW cmd \in {"down", "up", "mup"}, NEW u \in UdpUsage, NEW t \in Stamp,
             UdpReceive(cmd, u, t)
      PROVE  TypeOK'
  <2>1. [cmd |-> cmd, usage |-> u, at |-> now] \in InputOf(Udp)
    BY InputKinds DEF TypeOK, UdpEdge
  <2>2. QED
    BY <1>1, <2>1, StampedType DEF UdpReceive, Thread
<1>2. ASSUME NEW w \in EdgeWorker, NEW down \in BOOLEAN, NEW u \in Usage,
             NEW m \in Modifier, NEW t \in Stamp, EdgeReceive(w, down, u, m, t)
      PROVE  TypeOK'
  <2>1. [down |-> down, usage |-> u, mods |-> m, at |-> now] \in InputOf(w)
    <3>1. [down |-> down, usage |-> u, mods |-> m, at |-> now] \in QuicEdge
      BY DEF TypeOK, QuicEdge
    <3>2. QED
      BY <3>1, InputKinds
  <2>2. QED
    BY <1>2, <2>1, StampedType DEF EdgeReceive, Thread
<1>3. ASSUME NEW w \in SnapWorker, NEW bits \in SUBSET Usage, NEW m \in Modifier,
             SnapReceive(w, bits, m)
      PROVE  TypeOK'
  <2>1. [keys |-> bits \cap SnapUsage, mods |-> m, at |-> now] \in InputOf(w)
    <3>1. [keys |-> bits \cap SnapUsage, mods |-> m, at |-> now] \in Snapshot
      BY DEF TypeOK, Snapshot
    <3>2. QED
      BY <3>1, InputKinds
  <2>2. QED
    BY <1>3, <2>1, StampedType DEF SnapReceive, Thread
<1>4. QED
  BY <1>1, <1>2, <1>3 DEF Input

LEMMA TickType ==
    ASSUME TypeOK, Tick
    PROVE  TypeOK'
<1>1. now \in Nat /\ now' = now + 1 /\ now' \in 1..MaxClock
  BY TimeAssumption DEF TypeOK, Tick
<1>2. InputTypeOK'
  BY <1>1 DEF TypeOK, InputTypeOK, Tick
<1>3. keymeta' \in [Usage -> KeyMeta]
      /\ \A v \in Usage : keymeta'[v].last_edge <= now' /\ keymeta'[v].last_snapshot <= now'
  BY <1>1 DEF TypeOK, Tick, StateUnchanged, KeyMeta
<1>4. touched' \in [Usage -> 0..now']
  BY <1>1 DEF TypeOK, Tick, StateUnchanged
<1>5. QED
  BY <1>1, <1>2, <1>3, <1>4 DEF TypeOK, Tick, StateUnchanged

LEMMA WatchdogWakeType ==
    ASSUME TypeOK, WatchdogWake
    PROVE  TypeOK'
<1>1. [at |-> now] \in InputOf(Watchdog)
  BY InputKinds DEF TypeOK, Scan
<1>2. QED
  BY <1>1, StampedType DEF WatchdogWake, Thread

LEMMA InitType == Init => TypeOK
<1> SUFFICES ASSUME Init PROVE TypeOK
  OBVIOUS
<1>1. keymeta \in [Usage -> KeyMeta] /\ \A u \in Usage : keymeta[u].last_edge = 0 /\ keymeta[u].last_snapshot = 0
  BY DEF Init, KeyMeta
<1>2. sent \in Report /\ lastBuilt \in Report /\ modifiers \in Modifier
  BY ModifierAssumption DEF Init, Report
<1>3. InputTypeOK
  BY DEF Init, InputTypeOK
<1>4. QED
  BY <1>1, <1>2, <1>3, TimeAssumption DEF Init, TypeOK

\* Every reachable state is typed, and no stamp lies in the future.
THEOREM TypeCorrect == Spec => []TypeOK
<1>1. TypeOK /\ [Next]_vars => TypeOK'
  <2> SUFFICES ASSUME TypeOK, [Next]_vars PROVE TypeOK'
    OBVIOUS
  <2>1. CASE Tick
    BY <2>1, TickType
  <2>2. CASE Input
    BY <2>2, InputType
  <2>3. CASE Apply
    BY <2>3, UdpMarkType, UdpApplyType, EdgeApplyType, SnapApplyType DEF Apply
  <2>4. CASE WatchdogWake
    BY <2>4, WatchdogWakeType
  <2>5. CASE WatchdogScan
    BY <2>5, WatchdogScanType
  <2>6. CASE \E t \in Thread : BuildReport(t) \/ SendReport(t)
    BY <2>6, BuildReportType, SendReportType
  <2>7. CASE UNCHANGED vars
    BY <2>7 DEF vars, TypeOK, InputTypeOK
  <2>8. QED
    BY <2>1, <2>2, <2>3, <2>4, <2>5, <2>6, <2>7 DEF Next
<1>2. QED
  BY InitType, <1>1, PTL DEF Spec

-----------------------------------------------------------------------------
\* Inputs, the passing of time and the second half of a handler leave the state.
LEMMA Elsewhere ==
    ASSUME Tick \/ Input \/ WatchdogWake \/ (\E t \in Thread : BuildReport(t) \/ SendReport(t))
    PROVE  UNCHANGED <<pressed, modifiers, keymeta, touched, lastScan>>
<1>1. CASE Tick
  BY <1>1 DEF Tick, StateUnchanged
<1>2. CASE Input
  BY <1>2 DEF Input, UdpReceive, EdgeReceive, SnapReceive, Stamped, StateUnchanged
<1>3. CASE WatchdogWake
  BY <1>3 DEF WatchdogWake, Stamped, StateUnchanged
<1>4. CASE \E t \in Thread : BuildReport(t) \/ SendReport(t)
  BY <1>4 DEF BuildReport, SendReport, StateUnchanged
<1>5. QED
  BY <1>1, <1>2, <1>3, <1>4

\* What an edge leaves in keymeta.
LEMMA EdgeFields ==
    ASSUME TypeOK, NEW u \in Usage, NEW down \in BOOLEAN, NEW at,
           keymeta' = [keymeta EXCEPT ![u] = Edge(@, down, at)]
    PROVE  /\ keymeta'[u].pressed = down
           /\ ~down => ~keymeta'[u].up_marker
           /\ keymeta'[u].last_snapshot = keymeta[u].last_snapshot
           /\ \A v \in Usage \ {u} : keymeta'[v] = keymeta[v]
<1> DEFINE old == keymeta[u]
           mark == old.up_marker /\ down
           new == keymeta'[u]
<1>1. old \in KeyMeta
  BY DEF TypeOK
<1>2. new = [old EXCEPT !.pressed = down, !.last_edge = at,
                                !.stuck_reported = FALSE, !.up_marker = mark]
  BY DEF TypeOK, Edge
<1>3. \A v \in Usage \ {u} : keymeta'[v] = keymeta[v]
  BY DEF TypeOK
<1> HIDE DEF old, mark, new
<1>4. /\ new.pressed = down
      /\ new.up_marker = mark
      /\ new.last_snapshot = old.last_snapshot
  BY <1>1, <1>2 DEF KeyMeta
<1>5. QED
  BY <1>3, <1>4 DEF old, mark, new

\* What a snapshot leaves in keymeta.
LEMMA ReconciledFields ==
    ASSUME TypeOK, NEW s, NEW v \in Usage
    PROVE  /\ v \in s.keys => /\ Reconciled(s)[v].pressed = TRUE
                              /\ Reconciled(s)[v].last_snapshot = s.at
           /\ v \notin s.keys /\ v \in pressed =>
                 /\ Reconciled(s)[v].pressed = FALSE
                 /\ Reconciled(s)[v].up_marker = FALSE
           /\ v \notin s.keys /\ v \notin pressed => Reconciled(s)[v] = keymeta[v]
<1> DEFINE old == keymeta[v]
<1>1. old \in KeyMeta
  BY DEF TypeOK
<1>2. /\ v \in s.keys => Reconciled(s)[v] = [old EXCEPT !.pressed = TRUE, !.last_snapshot = s.at]
      /\ v \notin s.keys /\ v \in pressed =>
            Reconciled(s)[v] = [old EXCEPT !.pressed = FALSE, !.up_marker = FALSE]
      /\ v \notin s.keys /\ v \notin pressed => Reconciled(s)[v] = old
  BY DEF Reconciled
<1> HIDE DEF old
<1>3. /\ [old EXCEPT !.pressed = TRUE, !.last_snapshot = s.at].pressed = TRUE
      /\ [old EXCEPT !.pressed = TRUE, !.last_snapshot = s.at].last_snapshot = s.at
      /\ [old EXCEPT !.pressed = FALSE, !.up_marker = FALSE].pressed = FALSE
      /\ [old EXCEPT !.pressed = FALSE, !.up_marker = FALSE].up_marker = FALSE
  BY <1>1 DEF KeyMeta
<1>4. QED
  BY <1>2, <1>3 DEF old

\* What a scan leaves in keymeta.
LEMMA ScannedFields ==
    ASSUME TypeOK, NEW gone, NEW at, NEW v \in Usage
    PROVE  /\ Scanned(gone, at)[v].pressed <=> keymeta[v].pressed /\ v \notin gone
           /\ Scanned(gone, at)[v].up_marker <=> keymeta[v].up_marker /\ v \notin gone
<1> DEFINE old == keymeta[v]
           flag == old.pressed /\ v \notin gone
           mark == old.up_marker /\ v \notin gone
           rep == old.stuck_reported \/ (v \in pressed /\ Stuck(v, at))
           new == Scanned(gone, at)[v]
<1>1. old \in KeyMeta
  BY DEF TypeOK
<1>2. new = [old EXCEPT !.pressed = flag, !.up_marker = mark, !.stuck_reported = rep]
  BY Zenon DEF Scanned
<1> HIDE DEF old, flag, mark, rep, new
<1>3. new.pressed = flag /\ new.up_marker = mark
  BY <1>1, <1>2 DEF KeyMeta
<1>4. QED
  BY <1>3, Zenon DEF old, flag, mark, new

-----------------------------------------------------------------------------
\* The pressed set and the per-key flag always agree.
THEOREM MetaAgreesAlways == Spec => []MetaAgrees
<1>1. Init => MetaAgrees
  BY DEF Init, MetaAgrees
<1>2. TypeOK /\ MetaAgrees /\ [Next]_vars => MetaAgrees'
  <2> SUFFICES ASSUME TypeOK, MetaAgrees, [Next]_vars, NEW v \in Usage
               PROVE  keymeta'[v].pressed <=> v \in pressed'
    BY DEF MetaAgrees
  <2>1. CASE Tick \/ Input \/ WatchdogWake \/ (\E t \in Thread : BuildReport(t) \/ SendReport(t))
    BY <2>1, Elsewhere DEF MetaAgrees
  <2>2. CASE UdpMark
    <3>1. keymeta' = [keymeta EXCEPT ![job[Udp].usage].up_marker = TRUE] /\ pressed' = pressed
      BY <2>2 DEF UdpMark
    <3>2. keymeta[v] \in KeyMeta
      BY DEF TypeOK
    <3>3. keymeta'[v].pressed = keymeta[v].pressed
      BY <3>1, <3>2 DEF TypeOK, KeyMeta
    <3>4. QED
      BY <3>1, <3>3 DEF MetaAgrees
  <2>3. CASE UdpApply
    <3> DEFINE e == job[Udp]
               down == e.cmd = "down"
    <3>1. e.usage \in Usage
      BY <2>3, HeldInput, UsageAssumption DEF UdpApply, UdpEdge, Thread
    <3>2. /\ keymeta' = [keymeta EXCEPT ![e.usage] = Edge(@, down, e.at)]
          /\ pressed' = IF down THEN pressed \cup {e.usage} ELSE pressed \ {e.usage}
          /\ down \in BOOLEAN
      BY <2>3 DEF UdpApply, Press
    <3> HIDE DEF down
    <3>3. /\ keymeta'[e.usage].pressed = down
          /\ v # e.usage => keymeta'[v] = keymeta[v]
      BY <3>1, <3>2, EdgeFields
    <3>4. QED
      BY <3>2, <3>3 DEF MetaAgrees
  <2>4. ASSUME NEW w \in EdgeWorker, EdgeApply(w)
        PROVE  keymeta'[v].pressed <=> v \in pressed'
    <3> DEFINE e == job[w]
    <3>1. e.usage \in Usage /\ e.down \in BOOLEAN
      BY <2>4, HeldInput DEF EdgeApply, QuicEdge, Thread
    <3>2. /\ keymeta' = [keymeta EXCEPT ![e.usage] = Edge(@, e.down, e.at)]
          /\ pressed' = IF e.down THEN pressed \cup {e.usage} ELSE pressed \ {e.usage}
      BY <2>4 DEF EdgeApply, Press
    <3>3. /\ keymeta'[e.usage].pressed = e.down
          /\ v # e.usage => keymeta'[v] = keymeta[v]
      BY <3>1, <3>2, EdgeFields
    <3>4. QED
      BY <3>2, <3>3 DEF MetaAgrees
  <2>5. ASSUME NEW w \in SnapWorker, SnapApply(w)
        PROVE  keymeta'[v].pressed <=> v \in pressed'
    BY <2>5, ReconciledFields DEF SnapApply, MetaAgrees
  <2>6. CASE WatchdogScan
    <3> DEFINE gone == {u \in pressed : Expired(u, job[Watchdog].at)}
    <3>1. pressed' = pressed \ gone /\ keymeta' = Scanned(gone, job[Watchdog].at)
      BY <2>6 DEF WatchdogScan
    <3> HIDE DEF gone
    <3>2. QED
      BY <3>1, ScannedFields DEF MetaAgrees
  <2>7. CASE UNCHANGED vars
    BY <2>7 DEF vars, MetaAgrees
  <2>8. QED
    BY <2>1, <2>2, <2>3, <2>4, <2>5, <2>6, <2>7 DEF Next, Apply
<1>3. QED
  BY <1>1, <1>2, TypeCorrect, PTL DEF Spec

-----------------------------------------------------------------------------
\* A thread on its way to a report stays so until it has built it.
LEMMA StaysApplied ==
    ASSUME TypeOK, NEW t \in Thread, NEW from, NEW to, NEW w, Goto(t, from, to, w),
           from # "applied", NEW s \in Thread, pc[s] = "applied"
    PROVE  pc'[s] = "applied"
BY DEF TypeOK, Goto

LEMMA GoesApplied ==
    ASSUME TypeOK, NEW t \in Thread, NEW w, Goto(t, "stamped", "applied", w)
    PROVE  \E s \in Thread : pc'[s] = "applied"
BY DEF TypeOK, Goto

\* No state change is silent: one is always followed by a report of the state.
THEOREM NoSilentChangeAlways == Spec => []NoSilentChange
<1>1. Init => NoSilentChange
  <2> SUFFICES ASSUME Init PROVE lastBuilt \in ReportsOf(pressed, modifiers)
    BY DEF NoSilentChange
  <2>1. {} \in FirstSlots({})
    BY FS_EmptySet, TimeAssumption DEF FirstSlots
  <2>2. QED
    BY <2>1 DEF Init, ReportsOf
<1>2. TypeOK /\ NoSilentChange /\ [Next]_vars => NoSilentChange'
  <2> SUFFICES ASSUME TypeOK, NoSilentChange, [Next]_vars
               PROVE  NoSilentChange'
    OBVIOUS
  <2>1. ASSUME UNCHANGED <<pressed, modifiers, lastBuilt>>,
               \A s \in Thread : pc[s] = "applied" => pc'[s] = "applied"
        PROVE  NoSilentChange'
    BY <2>1 DEF NoSilentChange
  <2>2. ASSUME \E s \in Thread : pc'[s] = "applied"
        PROVE  NoSilentChange'
    BY <2>2 DEF NoSilentChange
  <2>3. CASE Tick
    BY <2>1, <2>3 DEF Tick, StateUnchanged
  <2>4. ASSUME NEW t \in Thread, NEW w, Stamped(t, w)
        PROVE  NoSilentChange'
    BY <2>1, <2>4, StaysApplied DEF Stamped, StateUnchanged
  <2>5. CASE Input
    BY <2>4, <2>5 DEF Input, UdpReceive, EdgeReceive, SnapReceive, Thread
  <2>6. CASE UdpMark
    BY <2>1, <2>6, StaysApplied DEF UdpMark, Thread
  <2>7. CASE UdpApply \/ (\E w \in EdgeWorker : EdgeApply(w)) \/ (\E w \in SnapWorker : SnapApply(w))
    BY <2>2, <2>7, GoesApplied DEF UdpApply, EdgeApply, SnapApply, Applied, Thread
  <2>8. CASE WatchdogWake
    BY <2>4, <2>8 DEF WatchdogWake, Thread
  <2>9. CASE WatchdogScan
    <3> DEFINE gone == {u \in pressed : Expired(u, job[Watchdog].at)}
    <3>1. CASE gone = {}
      <4>1. Goto(Watchdog, "stamped", "idle", NoJob) /\ pressed' = pressed
        BY <2>9, <3>1 DEF WatchdogScan
      <4>2. QED
        BY <2>1, <2>9, <4>1, StaysApplied DEF WatchdogScan, Thread
    <3>2. CASE gone # {}
      <4>1. Goto(Watchdog, "stamped", "applied", NoJob)
        BY <2>9, <3>2 DEF WatchdogScan
      <4>2. QED
        BY <2>2, <4>1, GoesApplied DEF Thread
    <3>3. QED
      BY <3>1, <3>2
  <2>10. ASSUME NEW t \in Thread, BuildReport(t)
         PROVE  NoSilentChange'
    BY <2>10 DEF BuildReport, StateUnchanged, NoSilentChange, ReportsOf
  <2>11. ASSUME NEW t \in Thread, SendReport(t)
         PROVE  NoSilentChange'
    BY <2>1, <2>11, StaysApplied DEF SendReport, StateUnchanged
  <2>12. CASE UNCHANGED vars
    BY <2>1, <2>12 DEF vars
  <2>13. QED
    BY <2>3, <2>5, <2>6, <2>7, <2>8, <2>9, <2>10, <2>11, <2>12 DEF Next, Apply
<1>3. QED
  BY <1>1, <1>2, TypeCorrect, PTL DEF Spec

-----------------------------------------------------------------------------
\* No release, whichever path it takes, leaves a key-up marker behind.
THEOREM MarkerClearedAlways == Spec => MarkerClearedOnRelease
<1>1. TypeOK /\ [Next]_vars
        => [\A u \in pressed : u \notin pressed' => ~keymeta'[u].up_marker]_vars
  <2> SUFFICES ASSUME TypeOK, Next, NEW u \in pressed, u \notin pressed'
               PROVE  ~keymeta'[u].up_marker
    OBVIOUS
  <2> u \in Usage
    BY DEF TypeOK
  <2>1. CASE Tick \/ Input \/ WatchdogWake \/ (\E t \in Thread : BuildReport(t) \/ SendReport(t))
    BY <2>1, Elsewhere
  <2>2. CASE UdpMark
    BY <2>2 DEF UdpMark
  <2>3. CASE UdpApply
    <3> DEFINE e == job[Udp]
               down == e.cmd = "down"
    <3>1. /\ keymeta' = [keymeta EXCEPT ![e.usage] = Edge(@, down, e.at)]
          /\ pressed' = IF down THEN pressed \cup {e.usage} ELSE pressed \ {e.usage}
          /\ down \in BOOLEAN
      BY <2>3 DEF UdpApply, Press
    <3> HIDE DEF down
    <3>2. u = e.usage /\ ~down
      BY <3>1
    <3>3. QED
      BY <3>1, <3>2, EdgeFields
  <2>4. ASSUME NEW w \in EdgeWorker, EdgeApply(w)
        PROVE  ~keymeta'[u].up_marker
    <3> DEFINE e == job[w]
    <3>1. /\ keymeta' = [keymeta EXCEPT ![e.usage] = Edge(@, e.down, e.at)]
          /\ pressed' = IF e.down THEN pressed \cup {e.usage} ELSE pressed \ {e.usage}
      BY <2>4 DEF EdgeApply, Press
    <3>2. u = e.usage /\ ~e.down
      BY <3>1
    <3>3. e.down \in BOOLEAN
      BY <2>4, HeldInput DEF EdgeApply, QuicEdge, Thread
    <3>4. QED
      BY <3>1, <3>2, <3>3, EdgeFields
  <2>5. ASSUME NEW w \in SnapWorker, SnapApply(w)
        PROVE  ~keymeta'[u].up_marker
    BY <2>5, ReconciledFields DEF SnapApply
  <2>6. CASE WatchdogScan
    <3> DEFINE gone == {v \in pressed : Expired(v, job[Watchdog].at)}
    <3>1. pressed' = pressed \ gone /\ keymeta' = Scanned(gone, job[Watchdog].at)
      BY <2>6 DEF WatchdogScan
    <3> HIDE DEF gone
    <3>2. QED
      BY <3>1, ScannedFields
  <2>7. QED
    BY <2>1, <2>2, <2>3, <2>4, <2>5, <2>6 DEF Next, Apply
<1>2. QED
  BY <1>1, TypeCorrect, PTL DEF Spec, MarkerClearedOnRelease

-----------------------------------------------------------------------------
(***************************************************************************)
(* ForceReleaseBound says nothing of a scan in progress, so it is not      *)
(* inductive.  Timely is: it bounds the time since the last scan, keeps    *)
(* the stamp of a scan in progress after the end of the one before, and    *)
(* says of every named key still pressed that the last scan came before    *)
(* the key was due.                                                        *)
(***************************************************************************)
Due(u) == LargerOf(keymeta[u].last_snapshot + WatchdogMs, touched[u])

Timely ==
    /\ now <= lastScan + WatchdogLag
    /\ pc[Watchdog] = "stamped" => lastScan <= job[Watchdog].at
    /\ WatchdogMs > 0 =>
          \A u \in pressed : keymeta[u].last_snapshot # 0 => lastScan <= Due(u) + WatchdogLag

\* The time since the last scan and the stamp of the next, which every step but
\* a scan's end preserves for one reason.
LEMMA TimelyScan ==
    ASSUME TypeOK, Timely, Next
    PROVE  /\ now' <= lastScan' + WatchdogLag
           /\ pc'[Watchdog] = "stamped" => lastScan' <= job'[Watchdog].at
<1> now \in Nat /\ lastScan \in Nat /\ lastScan <= now
  BY DEF TypeOK
<1>1. CASE Tick
  BY <1>1, TimeAssumption DEF Tick, Timely
<1>2. ASSUME UNCHANGED <<now, lastScan>>, UNCHANGED <<pc[Watchdog], job[Watchdog]>>
      PROVE  /\ now' <= lastScan' + WatchdogLag
             /\ pc'[Watchdog] = "stamped" => lastScan' <= job'[Watchdog].at
  BY <1>2 DEF Timely
<1>3. ASSUME NEW t \in Thread, t # Watchdog, NEW from, NEW to, NEW w, Goto(t, from, to, w)
      PROVE  UNCHANGED <<pc[Watchdog], job[Watchdog]>>
  BY <1>3 DEF TypeOK, Goto, Thread
<1>4. Udp # Watchdog /\ Watchdog \notin EdgeWorker /\ Watchdog \notin SnapWorker
  BY ThreadAssumption
<1>5. CASE Input
  <2>1. \E t \in Thread : t # Watchdog /\ \E w : Stamped(t, w)
    BY <1>4, <1>5 DEF Input, UdpReceive, EdgeReceive, SnapReceive, Thread
  <2>2. QED
    BY <1>2, <1>3, <2>1 DEF Stamped, StateUnchanged
<1>6. CASE Apply
  <2>1. \E t \in Thread : t # Watchdog /\ \E to, w : Goto(t, "stamped", to, w)
    BY <1>4, <1>6 DEF Apply, UdpMark, UdpApply, EdgeApply, SnapApply, Applied, Thread
  <2>2. UNCHANGED <<now, lastScan>>
    BY <1>6 DEF Apply, UdpMark, UdpApply, EdgeApply, SnapApply, Applied
  <2>3. QED
    BY <1>2, <1>3, <2>1, <2>2
<1>7. CASE WatchdogWake
  <2>1. UNCHANGED <<now, lastScan>> /\ job'[Watchdog] = [at |-> now]
    BY <1>7 DEF WatchdogWake, Stamped, StateUnchanged, Goto, TypeOK, Thread
  <2>2. QED
    BY <2>1 DEF Timely
<1>8. CASE WatchdogScan
  <2>1. now' = now /\ lastScan' = now
    BY <1>8 DEF WatchdogScan
  <2>2. pc'[Watchdog] # "stamped"
    BY <1>8 DEF WatchdogScan, Goto, TypeOK, Thread
  <2>3. QED
    BY <2>1, <2>2, TimeAssumption
<1>9. ASSUME NEW t \in Thread, BuildReport(t) \/ SendReport(t)
      PROVE  /\ now' <= lastScan' + WatchdogLag
             /\ pc'[Watchdog] = "stamped" => lastScan' <= job'[Watchdog].at
  <2>1. UNCHANGED <<now, lastScan>>
    BY <1>9 DEF BuildReport, SendReport
  <2>2. CASE t = Watchdog
    <3>1. pc'[Watchdog] # "stamped"
      BY <1>9, <2>2 DEF BuildReport, SendReport, Goto, TypeOK
    <3>2. QED
      BY <2>1, <3>1 DEF Timely
  <2>3. CASE t # Watchdog
    BY <1>2, <1>3, <1>9, <2>1, <2>3 DEF BuildReport, SendReport
  <2>4. QED
    BY <2>2, <2>3
<1>10. QED
  BY <1>1, <1>5, <1>6, <1>7, <1>8, <1>9 DEF Next

\* A key just pressed or reaffirmed is not due: the last scan came before now.
LEMMA TouchedNotDue ==
    ASSUME TypeOK, TypeOK', NEW us, Touch(us), NEW u \in Usage, u \in us,
           lastScan' = lastScan, now' = now
    PROVE  lastScan' <= Due(u)' + WatchdogLag
<1>1. touched'[u] = now /\ lastScan <= now /\ now \in Nat /\ lastScan \in Nat
  BY DEF Touch, TypeOK
<1>2. keymeta'[u].last_snapshot \in Nat
  BY DEF TypeOK, KeyMeta
<1>3. QED
  BY <1>1, <1>2, TimeAssumption DEF Due, LargerOf

\* A key that a scan leaves pressed was not due when the scan before it ended.
LEMMA SparedNotDue ==
    ASSUME TypeOK, Timely, WatchdogScan, WatchdogMs > 0,
           NEW u \in pressed', keymeta'[u].last_snapshot # 0
    PROVE  lastScan' <= Due(u)' + WatchdogLag
<1> DEFINE at == job[Watchdog].at
           ls == keymeta[u].last_snapshot
           gone == {v \in pressed : Expired(v, at)}
<1>1. u \in Usage /\ u \in pressed /\ ~Expired(u, at)
  BY DEF TypeOK, WatchdogScan
<1>2. keymeta'[u].last_snapshot = ls
  <2>1. keymeta' = Scanned(gone, at) /\ now' = now
    BY DEF WatchdogScan
  <2>2. QED
    BY <1>1, <2>1, ScannedType
<1>3. touched' = touched /\ lastScan' = now
  BY DEF WatchdogScan
<1>4. at \in Nat /\ lastScan <= at
  BY HeldInput DEF WatchdogScan, Timely, Thread, TypeOK
<1>5. ls \in Nat /\ now \in Nat /\ lastScan \in Nat /\ touched[u] \in Nat
  BY <1>1 DEF TypeOK, KeyMeta
<1>6. Elapsed(at, ls) <= WatchdogMs
  <2>1. Elapsed(at, ls) \in Int
    BY <1>4, <1>5, TimeAssumption DEF Elapsed
  <2>2. QED
    BY <1>1, <1>2, <2>1, TimeAssumption DEF Expired
<1>7. at <= ls + WatchdogMs
  BY <1>4, <1>5, <1>6, TimeAssumption DEF Elapsed
<1>8. now <= at + WatchdogLag
  BY <1>4, <1>5, TimeAssumption DEF Timely
<1>9. now <= LargerOf(ls + WatchdogMs, touched[u]) + WatchdogLag
  BY <1>4, <1>5, <1>7, <1>8, TimeAssumption DEF LargerOf
<1>10. QED
  BY <1>2, <1>3, <1>9 DEF Due

LEMMA TimelyDue ==
    ASSUME TypeOK, TypeOK', Timely, [Next]_vars, WatchdogMs > 0,
           NEW u \in pressed', keymeta'[u].last_snapshot # 0
    PROVE  lastScan' <= Due(u)' + WatchdogLag
<1> u \in Usage
  BY DEF TypeOK
<1>1. ASSUME u \in pressed, UNCHANGED <<lastScan, touched>>,
             keymeta'[u].last_snapshot = keymeta[u].last_snapshot
      PROVE  lastScan' <= Due(u)' + WatchdogLag
  BY <1>1 DEF Timely, Due
<1>2. CASE Tick \/ Input \/ WatchdogWake \/ (\E t \in Thread : BuildReport(t) \/ SendReport(t))
  BY <1>1, <1>2, Elsewhere
<1>3. CASE UdpMark
  <2>1. /\ keymeta' = [keymeta EXCEPT ![job[Udp].usage].up_marker = TRUE]
        /\ UNCHANGED <<pressed, lastScan, touched>>
    BY <1>3 DEF UdpMark
  <2>2. keymeta[u] \in KeyMeta
    BY DEF TypeOK
  <2>3. keymeta'[u].last_snapshot = keymeta[u].last_snapshot
    BY <2>1, <2>2 DEF TypeOK, KeyMeta
  <2>4. QED
    BY <1>1, <2>1, <2>3
<1>4. ASSUME NEW v \in Usage, NEW down \in BOOLEAN, NEW at,
             keymeta' = [keymeta EXCEPT ![v] = Edge(@, down, at)],
             pressed' = Press(v, down),
             Touch(IF down THEN {v} ELSE {}),
             UNCHANGED <<now, lastScan>>
      PROVE  lastScan' <= Due(u)' + WatchdogLag
  <2>1. CASE u = v
    <3>1. down
      BY <1>4, <2>1 DEF Press
    <3>2. QED
      BY <1>4, <2>1, <3>1, TouchedNotDue
  <2>2. CASE u # v
    <3>1. u \in pressed /\ keymeta'[u] = keymeta[u]
      BY <1>4, <2>2, EdgeFields DEF Press
    <3>2. touched'[u] = touched[u]
      BY <1>4, <2>2 DEF Touch
    <3>3. QED
      BY <1>4, <3>1, <3>2 DEF Timely, Due
  <2>3. QED
    BY <2>1, <2>2
<1>5. CASE UdpApply
  <2> DEFINE e == job[Udp]
             down == e.cmd = "down"
  <2>1. e.usage \in Usage
    BY <1>5, HeldInput, UsageAssumption DEF UdpApply, UdpEdge, Thread
  <2>2. /\ keymeta' = [keymeta EXCEPT ![e.usage] = Edge(@, down, e.at)]
        /\ pressed' = Press(e.usage, down)
        /\ Touch(IF down THEN {e.usage} ELSE {})
        /\ UNCHANGED <<now, lastScan>>
        /\ down \in BOOLEAN
    BY <1>5 DEF UdpApply, Applied
  <2> HIDE DEF down
  <2>3. QED
    BY <1>4, <2>1, <2>2
<1>6. ASSUME NEW w \in EdgeWorker, EdgeApply(w)
      PROVE  lastScan' <= Due(u)' + WatchdogLag
  <2>1. job[w].usage \in Usage /\ job[w].down \in BOOLEAN
    BY <1>6, HeldInput DEF EdgeApply, QuicEdge, Thread
  <2>2. QED
    BY <1>4, <1>6, <2>1 DEF EdgeApply, Applied
<1>7. ASSUME NEW w \in SnapWorker, SnapApply(w)
      PROVE  lastScan' <= Due(u)' + WatchdogLag
  BY <1>7, TouchedNotDue DEF SnapApply, Applied
<1>8. CASE WatchdogScan
  BY <1>8, SparedNotDue
<1>9. CASE UNCHANGED vars
  BY <1>1, <1>9 DEF vars
<1>10. QED
  BY <1>2, <1>3, <1>5, <1>6, <1>7, <1>8, <1>9 DEF Next, Apply

\* The watchdog's bound, from the assumption on how long it may sleep.
THEOREM ForceReleaseBounded == Spec => []ForceReleaseBound
<1>1. Init => Timely
  <2> SUFFICES ASSUME Init PROVE Timely
    OBVIOUS
  <2>1. now = 1 /\ lastScan = 1 /\ pressed = {}
    BY DEF Init
  <2>2. pc[Watchdog] # "stamped"
    BY DEF Init, Thread
  <2>3. QED
    BY <2>1, <2>2, TimeAssumption DEF Timely
<1>2. TypeOK /\ TypeOK' /\ Timely /\ [Next]_vars => Timely'
  <2> SUFFICES ASSUME TypeOK, TypeOK', Timely, [Next]_vars PROVE Timely'
    OBVIOUS
  <2>1. now' <= lastScan' + WatchdogLag /\ (pc'[Watchdog] = "stamped" => lastScan' <= job'[Watchdog].at)
    <3>1. CASE Next
      BY <3>1, TimelyScan
    <3>2. CASE UNCHANGED vars
      BY <3>2 DEF vars, Timely
    <3>3. QED
      BY <3>1, <3>2
  <2>2. QED
    BY <2>1, TimelyDue DEF Timely
<1>3. TypeOK /\ Timely => ForceReleaseBound
  <2> SUFFICES ASSUME TypeOK, Timely, WatchdogMs > 0,
                      NEW u \in pressed, keymeta[u].last_snapshot # 0
               PROVE  now <= Due(u) + 2 * WatchdogLag
    BY DEF ForceReleaseBound, Due
  <2>1. keymeta[u].last_snapshot \in Nat /\ touched[u] \in Nat /\ now \in Nat /\ lastScan \in Nat
    BY DEF TypeOK, KeyMeta
  <2>2. Due(u) \in Int
    BY <2>1, TimeAssumption DEF Due, LargerOf
  <2>3. now <= lastScan + WatchdogLag /\ lastScan <= Due(u) + WatchdogLag
    BY DEF Timely
  <2>4. QED
    BY <2>1, <2>2, <2>3, TimeAssumption
<1>4. QED
  BY <1>1, <1>2, <1>3, TypeCorrect, PTL DEF Spec

=============================================================================
