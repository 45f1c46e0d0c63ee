------------------------------ MODULE HidSocket ------------------------------
(***************************************************************************)
(* HidSocket (daemon/src/main.cpp): the Unix socket over which the daemon  *)
(* feeds reports to QEMU's usb-kbd chardev.                                *)
(*                                                                         *)
(* The object is shared by every thread that sends a report and has no     *)
(* lock, so each access of fd_ is a step of its own.  The compiler reloads *)
(* fd_ after each system call, as the calls may change it; whether it also *)
(* reloads fd_ between the two tests of send_report is up to it, and the   *)
(* model, in which another thread may run between them, covers both.       *)
(*                                                                         *)
(* QEMU listens (server=on,wait=off in scripts/run_qemu.sh) and serves one *)
(* client at a time; a client that connects meanwhile waits in the backlog *)
(* and its bytes wait with it.  QEMU may stop and start at any time, and   *)
(* so may the daemon between two calls.                                    *)
(***************************************************************************)
EXTENDS Integers, Sequences, SequencesExt

CONSTANTS
    Thread,         \* threads that call into HidSocket
    Udp,            \* the main thread, which also calls ensure_connected
    Report,         \* the reports they send
    NoReport,       \* ensure_connected() alone; or nothing sent yet
    Fd,             \* file descriptor numbers the daemon may use, a range of Nat
    MaxOutages      \* bound: how often QEMU stops

ASSUME ThreadAssumption == Udp \in Thread
ASSUME FdAssumption == Fd \subseteq Nat /\ Fd # {}
ASSUME ReportAssumption == NoReport \notin Report
ASSUME OutageAssumption == MaxOutages \in Nat

Closed == -1        \* fd_ while there is no socket

VARIABLES
    fd,         \* fd_
    sock,       \* kernel: the socket behind each descriptor
    backlog,    \* kernel: connected sockets QEMU has not accepted, in order
    up,         \* whether QEMU is there and listening
    outages,    \* how often it has stopped
    held,       \* kernel: the last report written to each socket
    last,       \* the last report whose send() succeeded
    pc,         \* where each thread is in send_report or ensure_connected
    job,        \* the report each thread is sending
    raced       \* history: two calls have overlapped without a connection

kernel == <<sock, backlog, held>>
qemu == <<up, outages>>
vars == <<fd, kernel, qemu, last, pc, job, raced>>
-----------------------------------------------------------------------------
SocketState == {"none",      \* not an open descriptor
                "fresh",     \* a socket that is not connected
                "queued",    \* connected, in QEMU's backlog
                "served",    \* connected and accepted
                "dead"}      \* the peer is gone

Init ==
    /\ fd = Closed
    /\ sock = [f \in Fd |-> "none"]
    /\ backlog = <<>>
    /\ up \in BOOLEAN
    /\ outages = 0
    /\ held = [f \in Fd |-> NoReport]
    /\ last = NoReport
    /\ pc = [t \in Thread |-> "idle"]
    /\ job = [t \in Thread |-> NoReport]
    /\ raced = FALSE

Goto(t, from, to) ==
    /\ pc[t] = from
    /\ pc' = [pc EXCEPT ![t] = to]
    /\ job' = [job EXCEPT ![t] = IF to = "idle" THEN NoReport ELSE @]

Busy == {t \in Thread : pc[t] # "idle"}

IsOpen(f) == f # Closed /\ sock[f] # "none"

\* close(f): an error when f is not open, as after somebody else's close.
CloseFd(f) ==
    IF IsOpen(f)
    THEN /\ sock' = [sock EXCEPT ![f] = "none"]
         /\ held' = [held EXCEPT ![f] = NoReport]
         /\ IF sock[f] = "queued"
            THEN \E i \in DOMAIN backlog : backlog[i] = f /\ backlog' = RemoveAt(backlog, i)
            ELSE UNCHANGED backlog
    ELSE UNCHANGED kernel

-----------------------------------------------------------------------------
\* send(fd_, ...) succeeds on a connected socket whose peer is there.
CanSend == IsOpen(fd) /\ sock[fd] \in {"queued", "served"}

\* Thread t enters a call at step `to`; without a connection it should be alone.
Enter(t, r, to) ==
    /\ pc[t] = "idle"
    /\ pc' = [pc EXCEPT ![t] = to]
    /\ job' = [job EXCEPT ![t] = r]
    /\ raced' = (raced \/ (~CanSend /\ Busy # {}))
    /\ UNCHANGED <<fd, kernel, qemu, last>>

\* Faulty: does not look whether there is a connection.
CallAlwaysOpens(t, r) == Enter(t, r, "open")

\* send_report(r): a thread that finds a descriptor takes it for a connection.
Call(t, r) ==
    \/ fd = Closed /\ Enter(t, r, "test")
    \/ fd # Closed /\ Enter(t, r, "send")

\* ensure_connected() alone, from the UDP loop's progress line.
CallConnect == fd = Closed /\ Enter(Udp, NoReport, "open")

\* ensure_connected() tests fd_ again.
Test(t) ==
    /\ Goto(t, "test", IF fd = Closed THEN "open" ELSE "send")
    /\ UNCHANGED <<fd, kernel, qemu, last, raced>>

\* fd_ = socket(...): the lowest free descriptor, stored before it is connected.
Open(t) ==
    /\ \E f \in Fd :
          /\ sock[f] = "none"
          /\ \A g \in Fd : sock[g] = "none" => f <= g
          /\ sock' = [sock EXCEPT ![f] = "fresh"]
          /\ fd' = f
    /\ Goto(t, "open", "connect")
    /\ UNCHANGED <<backlog, held, qemu, last, raced>>

\* socket() fails when every descriptor is taken; the report is lost.
OpenFails(t) ==
    /\ \A f \in Fd : sock[f] # "none"
    /\ fd' = Closed
    /\ Goto(t, "open", "idle")
    /\ UNCHANGED <<kernel, qemu, last, raced>>

\* connect(fd_, ...) on whatever fd_ names by now: refused without a listener,
\* an error on a descriptor that is closed or connected already.
CanConnect == up /\ IsOpen(fd) /\ sock[fd] = "fresh"

Connect(t) ==
    /\ CanConnect
    /\ sock' = [sock EXCEPT ![fd] = "queued"]
    /\ backlog' = Append(backlog, fd)
    /\ Goto(t, "connect", IF job[t] = NoReport THEN "idle" ELSE "send")
    /\ UNCHANGED <<fd, held, qemu, last, raced>>

ConnectFails(t) ==
    /\ ~CanConnect
    /\ Goto(t, "connect", "close")
    /\ UNCHANGED <<fd, kernel, qemu, last, raced>>

Send(t) ==
    /\ CanSend
    /\ held' = [held EXCEPT ![fd] = job[t]]
    /\ last' = job[t]
    /\ Goto(t, "send", "idle")
    /\ UNCHANGED <<fd, sock, backlog, qemu, raced>>

SendFails(t) ==
    /\ ~CanSend
    /\ Goto(t, "send", "close")
    /\ UNCHANGED <<fd, kernel, qemu, last, raced>>

\* After either failure: close(fd_), then fd_ = -1; the report is lost.
Close(t) ==
    /\ CloseFd(fd)
    /\ Goto(t, "close", "forget")
    /\ UNCHANGED <<fd, qemu, last, raced>>

\* Faulty: keeps the descriptor it has closed.
ForgetNothing(t) ==
    /\ Goto(t, "forget", "idle")
    /\ UNCHANGED <<fd, kernel, qemu, last, raced>>

Forget(t) ==
    /\ fd' = Closed
    /\ Goto(t, "forget", "idle")
    /\ UNCHANGED <<kernel, qemu, last, raced>>

-----------------------------------------------------------------------------
\* Faulty: leaves the accepted client in the backlog.
AcceptKeepsBacklog ==
    /\ up
    /\ backlog # <<>>
    /\ \A f \in Fd : sock[f] # "served"
    /\ sock' = [sock EXCEPT ![Head(backlog)] = "served"]
    /\ UNCHANGED <<fd, backlog, held, qemu, last, pc, job, raced>>

\* QEMU takes the next client once it serves none.
Accept ==
    /\ up
    /\ backlog # <<>>
    /\ \A f \in Fd : sock[f] # "served"
    /\ sock' = [sock EXCEPT ![Head(backlog)] = "served"]
    /\ backlog' = Tail(backlog)
    /\ UNCHANGED <<fd, held, qemu, last, pc, job, raced>>

QemuStarts ==
    /\ ~up
    /\ up' = TRUE
    /\ UNCHANGED <<fd, kernel, outages, last, pc, job, raced>>

QemuStops ==
    /\ up
    /\ outages < MaxOutages
    /\ up' = FALSE
    /\ outages' = outages + 1
    /\ sock' = [f \in Fd |-> IF sock[f] \in {"queued", "served"} THEN "dead" ELSE sock[f]]
    /\ backlog' = <<>>
    /\ raced' = (raced \/ \E t, u \in Busy : t # u)
    /\ UNCHANGED <<fd, held, last, pc, job>>

\* main returns and ~HidSocket closes fd_; the kernel closes what is open besides.
\* The daemon is started again.
Restart ==
    /\ Busy = {}
    /\ fd' = Closed /\ last' = NoReport /\ raced' = FALSE
    /\ sock' = [f \in Fd |-> "none"]
    /\ backlog' = <<>>
    /\ held' = [f \in Fd |-> NoReport]
    /\ UNCHANGED <<qemu, pc, job>>

-----------------------------------------------------------------------------
Step(t) ==
    \/ Test(t)
    \/ Open(t) \/ OpenFails(t)
    \/ Connect(t) \/ ConnectFails(t)
    \/ Send(t) \/ SendFails(t)
    \/ Close(t) \/ Forget(t)

Next ==
    \/ \E t \in Thread, r \in Report : Call(t, r)
    \/ CallConnect
    \/ \E t \in Thread : Step(t)
    \/ Accept
    \/ QemuStarts
    \/ QemuStops
    \/ Restart

Spec == Init /\ [][Next]_vars

\* Threads finish their calls, and QEMU's main loop accepts.
FairSpec == Spec /\ WF_vars(Accept) /\ \A t \in Thread : WF_vars(Step(t))
-----------------------------------------------------------------------------
(* Properties *)

\* Types; a descriptor is in the backlog exactly while its socket is queued.
TypeOK ==
    /\ fd \in Fd \cup {Closed}
    /\ sock \in [Fd -> SocketState]
    /\ held \in [Fd -> Report \cup {NoReport}]
    /\ up \in BOOLEAN /\ outages \in 0..MaxOutages
    /\ last \in Report \cup {NoReport}
    /\ pc \in [Thread -> {"idle", "test", "open", "connect", "send", "close", "forget"}]
    /\ job \in [Thread -> Report \cup {NoReport}]
    /\ raced \in BOOLEAN
    /\ ToSet(backlog) = {f \in Fd : sock[f] = "queued"}

\* QEMU's client is the one fd_ names, and has been given the last report sent.
Fed == \A f \in Fd : sock[f] = "served" => fd = f /\ held[f] \in {last, NoReport}

\* However many threads send, calls that overlap without a connection are all that can
\* make the daemon feed anything but the client QEMU serves: calls may overlap while the
\* connection stands, and single calls may find it cut by an outage or refused.
FedUnlessRaced == Busy = {} /\ ~raced => Fed

\* A report is lost only to an outage, or once such calls have overlapped: connecting
\* fails only while QEMU is away, sending only on a connection an outage has cut.
LossNeedsOutage ==
    [][\A t \in Busy :
          \/ pc[t] # "close" /\ pc'[t] = "close"
          \/ pc[t] = "open" /\ pc'[t] = "idle"
          => \/ ~up
             \/ IsOpen(fd) /\ sock[fd] = "dead"
             \/ raced]_vars

\* Only an outage, or the daemon's own end, parts all threads from a connection that
\* stands alone, however it came to stand: no interleaving of senders breaks it.
Stands ==
    /\ CanSend
    /\ \A f \in Fd : f # fd => sock[f] = "none"
    /\ \A t \in Thread : pc[t] \in {"idle", "send"}
StandsUntilOutage == [][Stands /\ up' /\ ~Restart => Stands']_vars

\* No connection waits for ever in the backlog while QEMU stays up, unless calls have
\* overlapped.
ConnectionServed ==
    \A f \in Fd : sock[f] = "queued" ~> (sock[f] # "queued" \/ raced)

-----------------------------------------------------------------------------
(* A claim of the documents that the code does not keep *)

\* The daemon feeds QEMU (docs/proposal.md:48): between calls QEMU serves the socket
\* fd_ names.  Two threads that connect at once break it.
FeedsQemu == Busy = {} => Fed
=============================================================================
