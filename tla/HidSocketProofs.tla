---------------------------- MODULE HidSocketProofs ----------------------------
(***************************************************************************)
(* HidSocket used by any number of threads, for any reports, descriptors   *)
(* and outages.  Calls that overlap without a connection can leave any     *)
(* mess, and the model says so in `raced'; the proofs show that nothing    *)
(* else can: until then the sockets are in one of the few states that      *)
(* OneSocket describes.                                                    *)
(***************************************************************************)
EXTENDS HidSocket, SequenceTheorems, TLAPS

Queue ==
    /\ backlog \in Seq(Fd)
    /\ \A i, j \in 1..Len(backlog) : backlog[i] = backlog[j] => i = j

\* A connection, working or cut.
Linked == fd # Closed /\ sock[fd] \in {"queued", "served", "dead"}

\* What a thread's place in its call tells of the one socket.
Place(t) ==
    /\ pc[t] \in {"test", "open"} => fd = Closed
    /\ pc[t] = "connect" => fd # Closed /\ sock[fd] = "fresh"
    /\ pc[t] = "send" => Linked
    /\ pc[t] = "close" => fd # Closed /\ sock[fd] \in {"fresh", "dead"}
    /\ pc[t] = "forget" => \A f \in Fd : sock[f] = "none"

\* No socket is open but the one fd_ names, and two threads are in a call only to send
\* on a connection that stands.
OneSocket ==
    /\ \A f \in Fd : sock[f] # "none" => f = fd
    /\ \A f \in Fd : held[f] \in {last, NoReport}
    /\ \A f \in Fd : sock[f] = "none" => held[f] = NoReport
    /\ \A t \in Thread : Place(t)
    /\ \A t, u \in Busy : t # u => pc[t] = "send" /\ CanSend
    /\ Busy = {} /\ fd # Closed => Linked

IInv == TypeOK /\ Queue /\ (~raced => OneSocket)

Pc == {"idle", "test", "open", "connect", "send", "close", "forget"}
-----------------------------------------------------------------------------
(* Sequences, and what a step does to a thread's place *)

LEMMA ClosedIsNoFd == Closed \notin Fd
BY FdAssumption DEF Closed

LEMMA Members ==
    ASSUME NEW S, NEW s \in Seq(S)
    PROVE  /\ ToSet(s) = {s[i] : i \in 1..Len(s)}
           /\ ToSet(<<>>) = {}
           /\ \A e \in S : ToSet(Append(s, e)) = ToSet(s) \cup {e}
<1>1. ToSet(s) = {s[i] : i \in 1..Len(s)} /\ ToSet(<<>>) = {}
  BY DEF ToSet
<1>2. ASSUME NEW e \in S PROVE ToSet(Append(s, e)) = ToSet(s) \cup {e}
  <2>1. /\ Len(Append(s, e)) = Len(s) + 1 /\ Len(s) \in Nat
        /\ DOMAIN Append(s, e) = 1..Len(s) + 1
        /\ \A i \in 1..Len(s) : Append(s, e)[i] = s[i]
        /\ Append(s, e)[Len(s) + 1] = e
    OBVIOUS
  <2>2. QED
    BY <1>1, <2>1 DEF ToSet
<1>3. QED
  BY <1>1, <1>2

\* What RemoveAt leaves of a sequence without repetitions.
LEMMA Removed ==
    ASSUME NEW S, NEW s \in Seq(S), NEW k \in 1..Len(s),
           \A i, j \in 1..Len(s) : s[i] = s[j] => i = j
    PROVE  /\ RemoveAt(s, k) \in Seq(S)
           /\ ToSet(RemoveAt(s, k)) = ToSet(s) \ {s[k]}
           /\ \A i, j \in 1..Len(RemoveAt(s, k)) :
                 RemoveAt(s, k)[i] = RemoveAt(s, k)[j] => i = j
<1> DEFINE r == RemoveAt(s, k)
           From(i) == IF i < k THEN i ELSE i + 1
<1>1. Len(s) \in Nat /\ k \in Nat /\ k >= 1 /\ k <= Len(s)
  OBVIOUS
<1>2. /\ SubSeq(s, 1, k - 1) \in Seq(S) /\ Len(SubSeq(s, 1, k - 1)) = k - 1
      /\ \A i \in 1..k - 1 : SubSeq(s, 1, k - 1)[i] = s[i]
  BY <1>1
<1>3. /\ SubSeq(s, k + 1, Len(s)) \in Seq(S) /\ Len(SubSeq(s, k + 1, Len(s))) = Len(s) - k
      /\ \A i \in 1..Len(s) - k : SubSeq(s, k + 1, Len(s))[i] = s[k + i]
  BY <1>1
<1>4. /\ r \in Seq(S) /\ Len(r) = Len(s) - 1
      /\ \A i \in 1..Len(s) - 1 :
            r[i] = IF i <= k - 1 THEN SubSeq(s, 1, k - 1)[i]
                   ELSE SubSeq(s, k + 1, Len(s))[i - (k - 1)]
  <2>1. \A u, v \in Seq(S) :
           /\ u \o v \in Seq(S) /\ Len(u \o v) = Len(u) + Len(v)
           /\ \A i \in 1..Len(u) + Len(v) :
                 (u \o v)[i] = IF i <= Len(u) THEN u[i] ELSE v[i - Len(u)]
    BY ConcatProperties
  <2>2. r = SubSeq(s, 1, k - 1) \o SubSeq(s, k + 1, Len(s))
    BY DEF RemoveAt
  <2> DEFINE u == SubSeq(s, 1, k - 1)
             v == SubSeq(s, k + 1, Len(s))
  <2>3. Len(u) = k - 1 /\ Len(v) = Len(s) - k
    BY <1>2, <1>3
  <2>4. u \in Seq(S) /\ v \in Seq(S) /\ r = u \o v
    BY <1>2, <1>3, <2>2
  <2> HIDE DEF r, u, v
  <2>5. /\ r \in Seq(S) /\ Len(r) = Len(u) + Len(v)
        /\ \A i \in 1..Len(u) + Len(v) : r[i] = IF i <= Len(u) THEN u[i] ELSE v[i - Len(u)]
    BY <2>1, <2>4
  <2>6. (k - 1) + (Len(s) - k) = Len(s) - 1
    BY <1>1
  <2>7. /\ r \in Seq(S) /\ Len(r) = Len(s) - 1
        /\ \A i \in 1..Len(s) - 1 : r[i] = IF i <= k - 1 THEN u[i] ELSE v[i - (k - 1)]
    BY <2>3, <2>5, <2>6
  <2>8. QED
    BY <2>7 DEF u, v
<1>5. ASSUME NEW i \in 1..Len(s) - 1 PROVE r[i] = s[From(i)]
  <2>1. CASE i < k
    <3>1. i \in 1..k - 1 /\ i <= k - 1
      BY <1>1, <2>1
    <3>2. QED
      BY <1>2, <1>4, <2>1, <3>1
  <2>2. CASE ~(i < k)
    <3>1. ~(i <= k - 1) /\ i - (k - 1) \in 1..Len(s) - k /\ k + (i - (k - 1)) = i + 1
      BY <1>1, <2>2
    <3>2. r[i] = SubSeq(s, k + 1, Len(s))[i - (k - 1)]
      BY <1>4, <3>1
    <3>3. QED
      BY <1>3, <2>2, <3>1, <3>2
  <2>3. QED
    BY <2>1, <2>2
<1>6. \A i \in 1..Len(s) - 1 : From(i) \in 1..Len(s) /\ From(i) # k
  BY <1>1
<1>7. \A j \in 1..Len(s) : j # k => \E i \in 1..Len(s) - 1 : From(i) = j
  <2> SUFFICES ASSUME NEW j \in 1..Len(s), j # k
               PROVE  \E i \in 1..Len(s) - 1 : From(i) = j
    OBVIOUS
  <2>1. CASE j < k
    <3>1. j \in 1..Len(s) - 1 /\ From(j) = j
      BY <1>1, <2>1
    <3>2. QED
      BY <3>1
  <2>2. CASE j > k
    <3>1. j - 1 \in 1..Len(s) - 1 /\ From(j - 1) = j
      BY <1>1, <2>2
    <3>2. QED
      BY <3>1
  <2>3. QED
    BY <1>1, <2>1, <2>2
<1>8. ToSet(r) = ToSet(s) \ {s[k]}
  <2>1. ToSet(s) = {s[i] : i \in 1..Len(s)}
    BY Members
  <2>2. ToSet(r) = {r[i] : i \in 1..Len(s) - 1}
    <3> HIDE DEF r
    <3>1. QED
      BY <1>4, Members
  <2>3. ASSUME NEW e \in ToSet(r) PROVE e \in ToSet(s) \ {s[k]}
    BY <1>5, <1>6, <2>1, <2>2, <2>3
  <2>4. ASSUME NEW e \in ToSet(s), e # s[k] PROVE e \in ToSet(r)
    <3>1. PICK j \in 1..Len(s) : e = s[j]
      BY <2>1
    <3>2. PICK i \in 1..Len(s) - 1 : From(i) = j
      BY <1>7, <2>4, <3>1
    <3>3. r[i] = e
      BY <1>5, <3>1, <3>2
    <3>4. QED
      BY <2>2, <3>3
  <2>5. QED
    BY <2>3, <2>4
<1>9. \A i, j \in 1..Len(r) : r[i] = r[j] => i = j
  <2> SUFFICES ASSUME NEW i \in 1..Len(r), NEW j \in 1..Len(r), r[i] = r[j]
               PROVE  i = j
    OBVIOUS
  <2>1. i \in 1..Len(s) - 1 /\ j \in 1..Len(s) - 1
    BY <1>4
  <2>2. From(i) = From(j)
    BY <1>5, <1>6, <2>1
  <2>3. QED
    BY <1>1, <2>1, <2>2
<1>10. QED
  BY <1>4, <1>8, <1>9

\* A thread's step to another place.
LEMMA Places ==
    ASSUME TypeOK, NEW t \in Thread, NEW from, NEW to \in Pc, Goto(t, from, to)
    PROVE  /\ pc[t] = from /\ pc'[t] = to
           /\ \A u \in Thread : u # t => pc'[u] = pc[u]
           /\ pc' \in [Thread -> Pc]
           /\ job' \in [Thread -> Report \cup {NoReport}]
BY DEF Goto, TypeOK, Pc

\* A thread that is anywhere but before a send on a working connection is alone.
LEMMA Solo ==
    ASSUME TypeOK, OneSocket, NEW t \in Thread, pc[t] # "idle",
           pc[t] # "send" \/ ~CanSend
    PROVE  \A u \in Thread : u # t => pc[u] = "idle"
BY DEF OneSocket, Busy

\* OneSocket after the step of a thread that is alone.
LEMMA SoloStep ==
    ASSUME TypeOK, NEW t \in Thread, NEW from, NEW to \in Pc, Goto(t, from, to),
           \A u \in Thread : u # t => pc[u] = "idle"
    PROVE  /\ \A u \in Thread : u # t => pc'[u] = "idle"
           /\ Busy' = IF to = "idle" THEN {} ELSE {t}
<1>1. pc'[t] = to /\ \A u \in Thread : u # t => pc'[u] = "idle"
  BY Places
<1>2. QED
  BY <1>1 DEF Busy

-----------------------------------------------------------------------------
(* Types and the backlog *)

LEMMA InitIInv == Init => IInv
<1> SUFFICES ASSUME Init PROVE IInv
  OBVIOUS
<1>1. ToSet(backlog) = {} /\ {f \in Fd : sock[f] = "queued"} = {}
  BY DEF Init, ToSet
<1>2. TypeOK
  <2>1. raced \in BOOLEAN /\ up \in BOOLEAN
    BY DEF Init
  <2>2. outages \in 0..MaxOutages
    BY OutageAssumption DEF Init
  <2>3. QED
    BY <1>1, <2>1, <2>2 DEF Init, TypeOK, SocketState
<1>3. Queue
  BY DEF Init, Queue
<1>4. OneSocket
  BY ClosedIsNoFd DEF Init, OneSocket, Place, Busy
<1>5. QED
  BY <1>2, <1>3, <1>4 DEF IInv

LEMMA EnterTyped ==
    ASSUME TypeOK, Queue, NEW t \in Thread, NEW r \in Report \cup {NoReport},
           NEW to \in Pc, Enter(t, r, to)
    PROVE  TypeOK' /\ Queue'
BY DEF Enter, TypeOK, Queue, Pc, kernel, qemu

LEMMA OpenTyped ==
    ASSUME TypeOK, Queue, NEW t \in Thread, Open(t)
    PROVE  TypeOK' /\ Queue'
<1>1. PICK f \in Fd : /\ sock[f] = "none" /\ fd' = f
                      /\ sock' = [sock EXCEPT ![f] = "fresh"]
  BY DEF Open
<1>2. UNCHANGED <<backlog, held, up, outages, last, raced>> /\ Goto(t, "open", "connect")
  BY DEF Open, qemu
<1>3. sock' \in [Fd -> SocketState] /\ sock'[f] = "fresh"
      /\ \A g \in Fd : g # f => sock'[g] = sock[g]
  BY <1>1 DEF TypeOK, SocketState
<1>4. {g \in Fd : sock'[g] = "queued"} = {g \in Fd : sock[g] = "queued"}
  BY <1>1, <1>3
<1>5. pc' \in [Thread -> Pc] /\ job' \in [Thread -> Report \cup {NoReport}]
  BY <1>2, Places DEF Pc
<1>6. QED
  BY <1>1, <1>2, <1>3, <1>4, <1>5 DEF TypeOK, Queue, Pc

LEMMA ConnectTyped ==
    ASSUME TypeOK, Queue, NEW t \in Thread, Connect(t)
    PROVE  TypeOK' /\ Queue'
<1> DEFINE to == IF job[t] = NoReport THEN "idle" ELSE "send"
<1>1. /\ sock' = [sock EXCEPT ![fd] = "queued"] /\ backlog' = Append(backlog, fd)
      /\ UNCHANGED <<fd, held, up, outages, last, raced>> /\ Goto(t, "connect", to)
      /\ sock[fd] = "fresh" /\ fd # Closed
  BY DEF Connect, CanConnect, IsOpen, qemu
<1>2. fd \in Fd
  BY <1>1 DEF TypeOK
<1>3. sock' \in [Fd -> SocketState] /\ sock'[fd] = "queued"
      /\ \A g \in Fd : g # fd => sock'[g] = sock[g]
  BY <1>1, <1>2 DEF TypeOK, SocketState
<1>4. \A i \in 1..Len(backlog) : backlog[i] # fd
  <2>1. ToSet(backlog) = {backlog[i] : i \in 1..Len(backlog)}
    BY Members DEF Queue
  <2>2. fd \notin ToSet(backlog)
    BY <1>1 DEF TypeOK
  <2>3. QED
    BY <2>1, <2>2
<1>5. ToSet(backlog') = {g \in Fd : sock'[g] = "queued"}
  <2>1. {g \in Fd : sock'[g] = "queued"} = {g \in Fd : sock[g] = "queued"} \cup {fd}
    BY <1>2, <1>3
  <2>2. ToSet(backlog') = ToSet(backlog) \cup {fd}
    BY <1>1, <1>2, Members DEF Queue
  <2>3. QED
    BY <2>1, <2>2 DEF TypeOK
<1>6. Queue'
  BY <1>1, <1>2, <1>4 DEF Queue
<1>7. to \in Pc
  BY DEF Pc
<1>8. pc' \in [Thread -> Pc] /\ job' \in [Thread -> Report \cup {NoReport}]
  <2> HIDE DEF to
  <2>1. QED
    BY <1>1, <1>7, Places
<1>9. QED
  BY <1>1, <1>3, <1>5, <1>6, <1>8 DEF TypeOK, Pc

LEMMA SendTyped ==
    ASSUME TypeOK, Queue, NEW t \in Thread, Send(t)
    PROVE  TypeOK' /\ Queue'
<1>1. /\ fd \in Fd /\ job[t] \in Report \cup {NoReport}
      /\ held' = [held EXCEPT ![fd] = job[t]] /\ last' = job[t]
      /\ UNCHANGED <<fd, sock, backlog, up, outages, raced>> /\ Goto(t, "send", "idle")
  BY DEF Send, CanSend, IsOpen, TypeOK, qemu
<1>2. pc' \in [Thread -> Pc] /\ job' \in [Thread -> Report \cup {NoReport}]
  BY <1>1, Places DEF Pc
<1>3. QED
  BY <1>1, <1>2 DEF TypeOK, Queue, Pc

LEMMA CloseTyped ==
    ASSUME TypeOK, Queue, NEW t \in Thread, Close(t)
    PROVE  TypeOK' /\ Queue'
<1>1. CloseFd(fd) /\ Goto(t, "close", "forget") /\ UNCHANGED <<fd, up, outages, last, raced>>
  BY DEF Close, qemu
<1>2. pc' \in [Thread -> Pc] /\ job' \in [Thread -> Report \cup {NoReport}]
  BY <1>1, Places DEF Pc
<1>3. CASE ~IsOpen(fd)
  BY <1>1, <1>2, <1>3 DEF CloseFd, kernel, TypeOK, Queue, Pc
<1>4. CASE IsOpen(fd)
  <2>1. /\ fd \in Fd /\ sock' = [sock EXCEPT ![fd] = "none"]
        /\ held' = [held EXCEPT ![fd] = NoReport]
    BY <1>1, <1>4 DEF CloseFd, IsOpen, TypeOK
  <2>2. /\ sock' \in [Fd -> SocketState] /\ held' \in [Fd -> Report \cup {NoReport}]
        /\ sock'[fd] = "none" /\ \A g \in Fd : g # fd => sock'[g] = sock[g]
    BY <2>1 DEF TypeOK, SocketState
  <2>3. {g \in Fd : sock'[g] = "queued"} = {g \in Fd : sock[g] = "queued"} \ {fd}
    BY <2>2
  <2>4. ToSet(backlog') = ToSet(backlog) \ {fd} /\ Queue'
    <3>1. CASE sock[fd] = "queued"
      <4>1. PICK i \in DOMAIN backlog : backlog[i] = fd /\ backlog' = RemoveAt(backlog, i)
        BY <1>1, <1>4, <3>1 DEF CloseFd
      <4>2. i \in 1..Len(backlog)
        BY <4>1 DEF Queue
      <4>3. QED
        BY <4>1, <4>2, Removed DEF Queue
    <3>2. CASE sock[fd] # "queued"
      BY <1>1, <1>4, <3>2 DEF CloseFd, TypeOK, Queue
    <3>3. QED
      BY <3>1, <3>2
  <2>5. QED
    BY <1>1, <1>2, <2>2, <2>3, <2>4 DEF TypeOK, Pc
<1>5. QED
  BY <1>3, <1>4

\* Steps that leave the kernel alone.
LEMMA QuietTyped ==
    ASSUME TypeOK, Queue, NEW t \in Thread,
           Test(t) \/ OpenFails(t) \/ ConnectFails(t) \/ SendFails(t) \/ Forget(t)
    PROVE  TypeOK' /\ Queue'
<1>1. /\ fd' \in {fd, Closed}
      /\ UNCHANGED <<sock, backlog, held, up, outages, last, raced>>
      /\ \E from, to \in Pc : Goto(t, from, to)
  BY DEF Test, OpenFails, ConnectFails, SendFails, Forget, kernel, qemu, Pc
<1>2. pc' \in [Thread -> Pc] /\ job' \in [Thread -> Report \cup {NoReport}]
  BY <1>1, Places
<1>3. QED
  BY <1>1, <1>2 DEF TypeOK, Queue, Pc

LEMMA AcceptTyped ==
    ASSUME TypeOK, Queue, Accept
    PROVE  TypeOK' /\ Queue' /\ Head(backlog) \in Fd /\ sock[Head(backlog)] = "queued"
<1> DEFINE h == Head(backlog)
<1>1. /\ backlog # <<>> /\ sock' = [sock EXCEPT ![h] = "served"] /\ backlog' = Tail(backlog)
      /\ UNCHANGED <<fd, held, up, outages, last, pc, job, raced>>
  BY DEF Accept, qemu
<1>2. /\ h = backlog[1] /\ Len(backlog) \in Nat \ {0} /\ h \in Fd
      /\ Tail(backlog) \in Seq(Fd) /\ Len(Tail(backlog)) = Len(backlog) - 1
      /\ \A i \in 1..Len(backlog) - 1 : Tail(backlog)[i] = backlog[i + 1]
  BY <1>1 DEF Queue
<1>3. /\ ToSet(backlog) = {backlog[i] : i \in 1..Len(backlog)}
      /\ ToSet(Tail(backlog)) = {Tail(backlog)[i] : i \in 1..Len(backlog) - 1}
  <2>1. backlog \in Seq(Fd)
    BY DEF Queue
  <2>2. ToSet(backlog) = {backlog[i] : i \in 1..Len(backlog)}
    BY <2>1, Members
  <2>3. ToSet(Tail(backlog)) = {Tail(backlog)[i] : i \in 1..Len(Tail(backlog))}
    BY <1>2, Members
  <2>4. QED
    BY <1>2, <2>2, <2>3
<1>4. h \in ToSet(backlog)
  BY <1>2, <1>3
<1>5. sock[h] = "queued"
  BY <1>2, <1>4 DEF TypeOK
<1>6. ToSet(Tail(backlog)) = ToSet(backlog) \ {h}
  <2>1. ASSUME NEW i \in 1..Len(backlog) - 1
        PROVE  Tail(backlog)[i] \in ToSet(backlog) \ {h}
    BY <1>2, <1>3 DEF Queue
  <2>2. ASSUME NEW g \in ToSet(backlog), g # h
        PROVE  g \in ToSet(Tail(backlog))
    <3>1. PICK i \in 1..Len(backlog) : g = backlog[i]
      BY <1>3
    <3>2. i - 1 \in 1..Len(backlog) - 1 /\ Tail(backlog)[i - 1] = g
      BY <1>2, <2>2, <3>1
    <3>3. QED
      BY <1>3, <3>2
  <2>3. QED
    BY <1>3, <2>1, <2>2
<1>7. sock' \in [Fd -> SocketState] /\ sock'[h] = "served"
      /\ \A g \in Fd : g # h => sock'[g] = sock[g]
  BY <1>1, <1>2 DEF TypeOK, SocketState
<1>8. ToSet(backlog') = {g \in Fd : sock'[g] = "queued"}
  <2>1. {g \in Fd : sock'[g] = "queued"} = {g \in Fd : sock[g] = "queued"} \ {h}
    BY <1>7
  <2>2. QED
    BY <1>1, <1>6, <2>1 DEF TypeOK
<1>9. Queue'
  BY <1>1, <1>2 DEF Queue
<1>10. QED
  BY <1>1, <1>2, <1>5, <1>7, <1>8, <1>9 DEF TypeOK

LEMMA QemuTyped ==
    ASSUME TypeOK, Queue, QemuStarts \/ QemuStops \/ Restart
    PROVE  TypeOK' /\ Queue'
<1>1. CASE QemuStarts
  BY <1>1 DEF QemuStarts, kernel, TypeOK, Queue
<1>2. CASE QemuStops
  <2>1. /\ outages' = outages + 1 /\ outages < MaxOutages /\ up' = FALSE /\ backlog' = <<>>
        /\ sock' = [f \in Fd |-> IF sock[f] \in {"queued", "served"} THEN "dead" ELSE sock[f]]
        /\ UNCHANGED <<fd, held, last, pc, job>>
    BY <1>2 DEF QemuStops
  <2>2. raced' \in BOOLEAN
    BY <1>2 DEF QemuStops, TypeOK
  <2>3. sock' \in [Fd -> SocketState] /\ \A f \in Fd : sock'[f] # "queued"
    BY <2>1 DEF TypeOK, SocketState
  <2>4. ToSet(backlog') = {f \in Fd : sock'[f] = "queued"}
    BY <2>1, <2>3 DEF ToSet
  <2>5. outages' \in 0..MaxOutages
    BY <2>1, OutageAssumption DEF TypeOK
  <2>6. up' \in BOOLEAN
    BY <2>1
  <2>7. QED
    BY <2>1, <2>2, <2>3, <2>4, <2>5, <2>6 DEF TypeOK, Queue
<1>3. CASE Restart
  <2>1. ToSet(backlog') = {f \in Fd : sock'[f] = "queued"}
    BY <1>3 DEF Restart, ToSet
  <2>2. raced' \in BOOLEAN /\ up' \in BOOLEAN
    BY <1>3 DEF Restart, qemu, TypeOK
  <2>3. QED
    BY <1>3, <2>1, <2>2 DEF Restart, qemu, TypeOK, Queue, SocketState
<1>4. QED
  BY <1>1, <1>2, <1>3

-----------------------------------------------------------------------------
(* The one socket *)

\* While the connection stands, threads in a call are about to send.
LEMMA Sending ==
    ASSUME TypeOK, OneSocket, CanSend, NEW t \in Thread
    PROVE  pc[t] \in {"idle", "send"} /\ Linked
<1>1. fd # Closed /\ fd \in Fd /\ sock[fd] \in {"queued", "served"}
  BY DEF CanSend, IsOpen, TypeOK
<1>2. Place(t) /\ pc[t] \in Pc
  BY DEF OneSocket, TypeOK, Pc
<1>3. QED
  BY <1>1, <1>2 DEF Place, Pc, Linked

LEMMA EnterOneSocket ==
    ASSUME TypeOK, OneSocket, NEW t \in Thread, NEW r, NEW to \in Pc, Enter(t, r, to),
           to \in {"test", "open", "send"}, to = "send" <=> fd # Closed,
           ~raced'
    PROVE  OneSocket'
<1>1. /\ pc[t] = "idle" /\ UNCHANGED <<fd, sock, backlog, held, last>>
      /\ CanSend \/ Busy = {}
  BY DEF Enter, kernel
<1>2. pc'[t] = to /\ \A u \in Thread : u # t => pc'[u] = pc[u]
  BY DEF Enter, TypeOK
<1>3. /\ \A f \in Fd : sock'[f] # "none" => f = fd'
      /\ \A f \in Fd : held'[f] \in {last', NoReport}
      /\ \A f \in Fd : sock'[f] = "none" => held'[f] = NoReport
      /\ ~(Busy' = {})
  BY <1>1, <1>2 DEF OneSocket, Busy, Pc
<1>4. CASE CanSend
  <2>1. to = "send" /\ Linked /\ Linked' /\ CanSend'
    BY <1>1, <1>4, Sending DEF CanSend, IsOpen, Linked
  <2>2. \A u \in Thread : pc'[u] \in {"idle", "send"}
    BY <1>2, <1>4, <2>1, Sending
  <2>3. \A u \in Thread : Place(u)'
    BY <2>1, <2>2 DEF Place
  <2>4. \A u \in Busy' : pc'[u] = "send"
    BY <2>2 DEF Busy
  <2>5. QED
    BY <1>3, <2>1, <2>3, <2>4 DEF OneSocket
<1>5. CASE Busy = {}
  <2>1. Busy' = {t}
    BY <1>2, <1>3, <1>5 DEF Busy
  <2>2. fd # Closed => Linked /\ Linked'
    BY <1>1, <1>5 DEF OneSocket, Linked
  <2>3. \A u \in Thread : Place(u)'
    <3>1. \A u \in Thread : u # t => pc'[u] = "idle"
      BY <2>1 DEF Busy
    <3>2. QED
      BY <1>1, <1>2, <2>2, <3>1 DEF Place
  <2>4. QED
    BY <1>3, <2>1, <2>3 DEF OneSocket
<1>6. QED
  BY <1>1, <1>4, <1>5

LEMMA TestOneSocket ==
    ASSUME TypeOK, OneSocket, NEW t \in Thread, Test(t)
    PROVE  OneSocket'
<1>1. fd = Closed /\ pc[t] = "test"
  BY DEF Test, Goto, OneSocket, Place
<1>2. Goto(t, "test", "open") /\ UNCHANGED <<fd, sock, held, last>>
  BY <1>1 DEF Test, kernel
<1>3. \A u \in Thread : u # t => pc[u] = "idle"
  BY <1>1, Solo
<1>4. /\ pc'[t] = "open" /\ Busy' = {t}
      /\ \A u \in Thread : u # t => pc'[u] = "idle"
  BY <1>2, <1>3, Places, SoloStep DEF Pc
<1>5. \A u \in Thread : Place(u)'
  BY <1>1, <1>2, <1>4 DEF Place
<1>6. QED
  BY <1>2, <1>4, <1>5 DEF OneSocket

LEMMA OpenOneSocket ==
    ASSUME TypeOK, OneSocket, NEW t \in Thread, Open(t)
    PROVE  OneSocket'
<1>1. PICK f \in Fd : /\ sock[f] = "none" /\ fd' = f
                      /\ sock' = [sock EXCEPT ![f] = "fresh"]
  BY DEF Open
<1>2. UNCHANGED <<held, last>> /\ Goto(t, "open", "connect") /\ pc[t] = "open"
  BY DEF Open, Goto
<1>3. \A u \in Thread : u # t => pc[u] = "idle"
  BY <1>2, Solo
<1>4. /\ pc'[t] = "connect" /\ Busy' = {t}
      /\ \A u \in Thread : u # t => pc'[u] = "idle"
  BY <1>2, <1>3, Places, SoloStep DEF Pc
<1>5. \A g \in Fd : sock[g] = "none"
  BY <1>2, ClosedIsNoFd DEF OneSocket, Place
<1>6. sock'[f] = "fresh" /\ \A g \in Fd : g # f => sock'[g] = "none"
  BY <1>1, <1>5 DEF TypeOK
<1>7. \A u \in Thread : Place(u)'
  BY <1>1, <1>4, <1>6, ClosedIsNoFd DEF Place
<1>8. QED
  BY <1>1, <1>2, <1>4, <1>5, <1>6, <1>7 DEF OneSocket

\* With no socket open a descriptor is free.
LEMMA NoOpenFails ==
    ASSUME TypeOK, OneSocket, NEW t \in Thread, OpenFails(t)
    PROVE  FALSE
<1>1. pc[t] = "open" /\ \A f \in Fd : sock[f] # "none"
  BY DEF OpenFails, Goto
<1>2. PICK f \in Fd : TRUE
  BY FdAssumption
<1>3. QED
  BY <1>1, <1>2, ClosedIsNoFd DEF OneSocket, Place

LEMMA ConnectOneSocket ==
    ASSUME TypeOK, OneSocket, NEW t \in Thread, Connect(t)
    PROVE  OneSocket'
<1> DEFINE to == IF job[t] = NoReport THEN "idle" ELSE "send"
<1>1. /\ sock' = [sock EXCEPT ![fd] = "queued"]
      /\ UNCHANGED <<fd, held, last>> /\ Goto(t, "connect", to) /\ pc[t] = "connect"
      /\ fd # Closed /\ fd \in Fd
  BY DEF Connect, CanConnect, IsOpen, Goto, TypeOK
<1>2. \A u \in Thread : u # t => pc[u] = "idle"
  BY <1>1, Solo
<1>3. to \in Pc /\ to \in {"idle", "send"}
  BY DEF Pc
<1>4. /\ pc'[t] = to /\ Busy' = IF to = "idle" THEN {} ELSE {t}
      /\ \A u \in Thread : u # t => pc'[u] = "idle"
  <2> HIDE DEF to
  <2>1. QED
    BY <1>1, <1>2, <1>3, Places, SoloStep
<1>5. sock'[fd] = "queued" /\ \A g \in Fd : g # fd => sock'[g] = sock[g]
  BY <1>1 DEF TypeOK
<1>6. Linked' /\ \A u \in Thread : Place(u)'
  BY <1>1, <1>3, <1>4, <1>5 DEF Place, Linked
<1>7. \A u, v \in Busy' : u = v
  BY <1>4
<1>8. /\ \A f \in Fd : sock'[f] # "none" => f = fd'
      /\ \A f \in Fd : held'[f] \in {last', NoReport}
      /\ \A f \in Fd : sock'[f] = "none" => held'[f] = NoReport
  BY <1>1, <1>5 DEF OneSocket
<1>9. QED
  BY <1>6, <1>7, <1>8 DEF OneSocket

\* A failure sends the thread to close a socket that is not in the backlog.
LEMMA FailsOneSocket ==
    ASSUME TypeOK, OneSocket, NEW t \in Thread, ConnectFails(t) \/ SendFails(t)
    PROVE  OneSocket'
<1>1. /\ UNCHANGED <<fd, sock, backlog, held, last>>
      /\ \/ Goto(t, "connect", "close") /\ pc[t] = "connect"
         \/ Goto(t, "send", "close") /\ pc[t] = "send" /\ ~CanSend
  BY DEF ConnectFails, SendFails, kernel, Goto
<1>2. \A u \in Thread : u # t => pc[u] = "idle"
  BY <1>1, Solo
<1>3. /\ pc'[t] = "close" /\ Busy' = {t}
      /\ \A u \in Thread : u # t => pc'[u] = "idle"
  BY <1>1, <1>2, Places, SoloStep DEF Pc
<1>4. fd # Closed /\ sock[fd] \in {"fresh", "dead"}
  BY <1>1 DEF OneSocket, Place, Linked, CanSend, IsOpen
<1>5. \A u \in Thread : Place(u)'
  BY <1>1, <1>3, <1>4 DEF Place
<1>6. QED
  BY <1>1, <1>3, <1>5 DEF OneSocket

LEMMA SendOneSocket ==
    ASSUME TypeOK, OneSocket, NEW t \in Thread, Send(t)
    PROVE  OneSocket'
<1>1. /\ CanSend /\ fd \in Fd
      /\ held' = [held EXCEPT ![fd] = job[t]] /\ last' = job[t]
      /\ UNCHANGED <<fd, sock, backlog>> /\ Goto(t, "send", "idle")
  BY DEF Send, CanSend, IsOpen, TypeOK
<1>2. CanSend' /\ Linked'
  BY <1>1, Sending DEF CanSend, IsOpen, Linked
<1>3. pc'[t] = "idle" /\ \A u \in Thread : u # t => pc'[u] = pc[u]
  BY <1>1, Places DEF Pc
<1>4. \A u \in Thread : pc'[u] \in {"idle", "send"}
  BY <1>1, <1>3, Sending
<1>5. \A u \in Thread : Place(u)'
  BY <1>2, <1>4 DEF Place
<1>6. held'[fd] = last' /\ \A g \in Fd : g # fd => sock'[g] = "none" /\ held'[g] = NoReport
  BY <1>1 DEF TypeOK, OneSocket
<1>7. sock'[fd] # "none"
  BY <1>1 DEF CanSend
<1>8. \A u \in Busy' : pc'[u] = "send"
  BY <1>4 DEF Busy
<1>9. QED
  BY <1>1, <1>2, <1>5, <1>6, <1>7, <1>8 DEF OneSocket

LEMMA CloseOneSocket ==
    ASSUME TypeOK, OneSocket, NEW t \in Thread, Close(t)
    PROVE  OneSocket'
<1>1. CloseFd(fd) /\ Goto(t, "close", "forget") /\ UNCHANGED <<fd, last>> /\ pc[t] = "close"
  BY DEF Close, Goto
<1>2. \A u \in Thread : u # t => pc[u] = "idle"
  BY <1>1, Solo
<1>3. /\ pc'[t] = "forget" /\ Busy' = {t}
      /\ \A u \in Thread : u # t => pc'[u] = "idle"
  BY <1>1, <1>2, Places, SoloStep DEF Pc
<1>4. fd \in Fd /\ IsOpen(fd)
  BY <1>1 DEF OneSocket, Place, IsOpen, TypeOK
<1>5. sock' = [sock EXCEPT ![fd] = "none"] /\ held' = [held EXCEPT ![fd] = NoReport]
  BY <1>1, <1>4 DEF CloseFd
<1>6. \A g \in Fd : sock'[g] = "none" /\ held'[g] = NoReport
  BY <1>4, <1>5 DEF TypeOK, OneSocket
<1>7. \A u \in Thread : Place(u)'
  BY <1>3, <1>6 DEF Place
<1>8. QED
  BY <1>3, <1>6, <1>7 DEF OneSocket

LEMMA ForgetOneSocket ==
    ASSUME TypeOK, OneSocket, NEW t \in Thread, Forget(t)
    PROVE  OneSocket'
<1>1. /\ fd' = Closed /\ UNCHANGED <<sock, held, last>>
      /\ Goto(t, "forget", "idle") /\ pc[t] = "forget"
  BY DEF Forget, kernel, Goto
<1>2. \A u \in Thread : u # t => pc[u] = "idle"
  BY <1>1, Solo
<1>3. Busy' = {} /\ \A u \in Thread : pc'[u] = "idle"
  BY <1>1, <1>2, Places, SoloStep DEF Pc
<1>4. \A f \in Fd : sock[f] = "none"
  BY <1>1 DEF OneSocket, Place
<1>5. \A u \in Thread : Place(u)'
  BY <1>3 DEF Place
<1>6. QED
  BY <1>1, <1>3, <1>4, <1>5 DEF OneSocket

LEMMA AcceptOneSocket ==
    ASSUME TypeOK, Queue, OneSocket, Accept
    PROVE  OneSocket'
<1> DEFINE h == Head(backlog)
<1>1. /\ sock' = [sock EXCEPT ![h] = "served"] /\ UNCHANGED <<fd, held, last, pc>>
      /\ h \in Fd /\ sock[h] = "queued"
  BY AcceptTyped DEF Accept
<1>2. h = fd /\ fd # Closed
  BY <1>1, ClosedIsNoFd DEF OneSocket
<1>3. sock'[fd] = "served" /\ \A g \in Fd : g # fd => sock'[g] = sock[g]
  BY <1>1, <1>2 DEF TypeOK
<1>4. CanSend /\ CanSend' /\ Linked'
  BY <1>1, <1>2, <1>3 DEF CanSend, IsOpen, Linked
<1>5. \A u \in Thread : pc'[u] \in {"idle", "send"}
  BY <1>1, <1>4, Sending
<1>6. \A u \in Thread : Place(u)'
  BY <1>4, <1>5 DEF Place
<1>7. \A u \in Busy' : pc'[u] = "send"
  BY <1>5 DEF Busy
<1>8. /\ \A f \in Fd : sock'[f] # "none" => f = fd'
      /\ \A f \in Fd : held'[f] \in {last', NoReport}
      /\ \A f \in Fd : sock'[f] = "none" => held'[f] = NoReport
  BY <1>1, <1>2, <1>3 DEF OneSocket
<1>9. QED
  BY <1>4, <1>6, <1>7, <1>8 DEF OneSocket

LEMMA StopOneSocket ==
    ASSUME TypeOK, OneSocket, QemuStops, ~raced'
    PROVE  OneSocket'
<1>1. /\ sock' = [f \in Fd |-> IF sock[f] \in {"queued", "served"} THEN "dead" ELSE sock[f]]
      /\ UNCHANGED <<fd, held, last, pc>>
      /\ \A t, u \in Busy : t = u
  BY DEF QemuStops
<1>2. \A f \in Fd : /\ sock'[f] = "none" <=> sock[f] = "none"
                    /\ sock[f] = "fresh" => sock'[f] = "fresh"
                    /\ sock[f] \in {"queued", "served", "dead"} => sock'[f] = "dead"
  BY <1>1
<1>3. Busy' = Busy /\ (Linked => Linked') /\ (fd # Closed => fd \in Fd)
  BY <1>1, <1>2 DEF Busy, Linked, TypeOK
<1>4. \A u \in Thread : Place(u)'
  <2> SUFFICES ASSUME NEW u \in Thread PROVE Place(u)'
    OBVIOUS
  <2>1. Place(u) /\ pc'[u] = pc[u] /\ fd' = fd
    BY <1>1 DEF OneSocket
  <2>2. pc[u] = "connect" => sock'[fd] = "fresh"
    BY <1>2, <1>3, <2>1 DEF Place
  <2>3. pc[u] = "close" => sock'[fd] \in {"fresh", "dead"}
    BY <1>2, <1>3, <2>1 DEF Place
  <2>4. pc[u] = "forget" => \A f \in Fd : sock'[f] = "none"
    BY <1>2, <2>1 DEF Place
  <2>5. QED
    BY <1>3, <2>1, <2>2, <2>3, <2>4 DEF Place
<1>5. QED
  BY <1>1, <1>2, <1>3, <1>4 DEF OneSocket

\* A new daemon starts from nothing.
LEMMA RestartOneSocket ==
    ASSUME Restart
    PROVE  OneSocket'
<1>1. Busy' = {} /\ \A t \in Thread : pc'[t] = "idle"
  BY DEF Restart, Busy
<1>2. QED
  BY <1>1 DEF Restart, OneSocket, Place

LEMMA Frame ==
    ASSUME OneSocket, UNCHANGED <<fd, sock, held, last, pc>>
    PROVE  OneSocket'
BY DEF OneSocket, Place, Linked, Busy, CanSend, IsOpen

-----------------------------------------------------------------------------
(* The invariant *)

LEMMA StepTyped ==
    ASSUME TypeOK, Queue, [Next]_vars
    PROVE  TypeOK' /\ Queue'
<1>1. ASSUME NEW t \in Thread, NEW r \in Report, Call(t, r) PROVE TypeOK' /\ Queue'
  BY <1>1, EnterTyped DEF Call, Pc
<1>2. CASE CallConnect
  BY <1>2, EnterTyped, ThreadAssumption DEF CallConnect, Pc
<1>3. ASSUME NEW t \in Thread, Step(t) PROVE TypeOK' /\ Queue'
  BY <1>3, OpenTyped, ConnectTyped, SendTyped, CloseTyped, QuietTyped DEF Step
<1>4. CASE Accept \/ QemuStarts \/ QemuStops \/ Restart
  BY <1>4, AcceptTyped, QemuTyped
<1>5. CASE UNCHANGED vars
  BY <1>5 DEF vars, kernel, qemu, TypeOK, Queue
<1>6. QED
  BY <1>1, <1>2, <1>3, <1>4, <1>5 DEF Next

\* Only a restart forgets that calls have overlapped.
LEMMA RacedStays ==
    ASSUME TypeOK, [Next]_vars, ~raced'
    PROVE  ~raced \/ Restart
<1>1. ASSUME NEW t \in Thread, NEW r \in Report, Call(t, r) PROVE ~raced
  BY <1>1 DEF Call, Enter
<1>2. CASE CallConnect
  BY <1>2 DEF CallConnect, Enter
<1>3. ASSUME NEW t \in Thread, Step(t) PROVE ~raced
  BY <1>3 DEF Step, Test, Open, OpenFails, Connect, ConnectFails, Send, SendFails, Close,
              Forget
<1>4. CASE Accept \/ QemuStarts \/ QemuStops
  BY <1>4 DEF Accept, QemuStarts, QemuStops
<1>5. CASE UNCHANGED vars
  BY <1>5 DEF vars
<1>6. QED
  BY <1>1, <1>2, <1>3, <1>4, <1>5 DEF Next

LEMMA StepOneSocket ==
    ASSUME TypeOK, Queue, OneSocket, [Next]_vars, ~raced'
    PROVE  OneSocket'
<1>1. ASSUME NEW t \in Thread, NEW r \in Report, Call(t, r) PROVE OneSocket'
  <2>1. "test" \in Pc /\ "send" \in Pc
    BY DEF Pc
  <2>2. CASE fd = Closed /\ Enter(t, r, "test")
    BY <2>1, <2>2, EnterOneSocket
  <2>3. CASE fd # Closed /\ Enter(t, r, "send")
    BY <2>1, <2>3, EnterOneSocket
  <2>4. QED
    BY <1>1, <2>2, <2>3 DEF Call
<1>2. CASE CallConnect
  BY <1>2, EnterOneSocket, ThreadAssumption DEF CallConnect, Pc
<1>3. ASSUME NEW t \in Thread, Step(t) PROVE OneSocket'
  BY <1>3, TestOneSocket, OpenOneSocket, NoOpenFails, ConnectOneSocket, FailsOneSocket,
     SendOneSocket, CloseOneSocket, ForgetOneSocket DEF Step
<1>4. CASE Accept
  BY <1>4, AcceptOneSocket
<1>5. CASE QemuStarts
  BY <1>5, Frame DEF QemuStarts, kernel
<1>6. CASE QemuStops
  BY <1>6, StopOneSocket
<1>7. CASE Restart
  BY <1>7, RestartOneSocket
<1>8. CASE UNCHANGED vars
  BY <1>8, Frame DEF vars, kernel
<1>9. QED
  BY <1>1, <1>2, <1>3, <1>4, <1>5, <1>6, <1>7, <1>8 DEF Next

LEMMA StepIInv == IInv /\ [Next]_vars => IInv'
<1> SUFFICES ASSUME IInv, [Next]_vars PROVE IInv'
  OBVIOUS
<1>1. TypeOK' /\ Queue'
  BY StepTyped DEF IInv
<1>2. ~raced' => OneSocket'
  BY RacedStays, StepOneSocket, RestartOneSocket DEF IInv
<1>3. QED
  BY <1>1, <1>2 DEF IInv

LEMMA IInvAlways == Spec => []IInv
BY InitIInv, StepIInv, PTL DEF Spec

-----------------------------------------------------------------------------
\* Types, and the backlog holds exactly the sockets that wait in it, whatever the threads
\* do to one another's descriptors.
THEOREM TypeCorrect == Spec => []TypeOK
<1>1. IInv => TypeOK
  BY DEF IInv
<1>2. QED
  BY <1>1, IInvAlways, PTL

\* Unless calls have overlapped without a connection, the client QEMU serves between calls
\* is the one fd_ names, and it has been given the last report sent.
THEOREM FedUnlessRacedAlways == Spec => []FedUnlessRaced
<1>1. IInv => FedUnlessRaced
  BY DEF IInv, OneSocket, FedUnlessRaced, Fed
<1>2. QED
  BY <1>1, IInvAlways, PTL

\* Unless calls have overlapped without a connection, a report is lost only to an outage.
THEOREM LossAlways == Spec => LossNeedsOutage
<1>1. IInv /\ [Next]_vars
        => [\A t \in Busy :
              \/ pc[t] # "close" /\ pc'[t] = "close"
              \/ pc[t] = "open" /\ pc'[t] = "idle"
              => \/ ~up
                 \/ IsOpen(fd) /\ sock[fd] = "dead"
                 \/ raced]_vars
  <2> SUFFICES ASSUME IInv, Next, NEW t \in Busy, ~raced,
                      \/ pc[t] # "close" /\ pc'[t] = "close"
                      \/ pc[t] = "open" /\ pc'[t] = "idle"
               PROVE  ~up \/ (IsOpen(fd) /\ sock[fd] = "dead")
    OBVIOUS
  <2>1. TypeOK /\ OneSocket /\ t \in Thread /\ pc[t] # "idle"
    BY DEF IInv, Busy
  <2>2. ASSUME NEW u \in Thread, NEW r, NEW to, Enter(u, r, to) PROVE FALSE
    BY <2>1, <2>2 DEF Enter, TypeOK
  <2>3. ASSUME NEW u \in Thread, Step(u)
        PROVE  ~up \/ (IsOpen(fd) /\ sock[fd] = "dead")
    <3>1. ASSUME NEW from, NEW to \in Pc, Goto(u, from, to)
          PROVE  u = t /\ pc[t] = from /\ pc'[t] = to
      BY <2>1, <3>1, Places
    <3>2. CASE ConnectFails(u)
      <4>1. u = t /\ pc[t] = "connect" /\ ~CanConnect
        BY <3>1, <3>2 DEF ConnectFails, Pc
      <4>2. QED
        BY <2>1, <4>1 DEF OneSocket, Place, CanConnect, IsOpen
    <3>3. CASE SendFails(u)
      <4>1. u = t /\ pc[t] = "send" /\ ~CanSend
        BY <3>1, <3>3 DEF SendFails, Pc
      <4>2. QED
        BY <2>1, <4>1 DEF OneSocket, Place, Linked, CanSend, IsOpen
    <3>4. CASE OpenFails(u)
      BY <2>1, <3>4, NoOpenFails
    <3>5. ASSUME Test(u) \/ Open(u) \/ Connect(u) \/ Send(u) \/ Close(u) \/ Forget(u)
          PROVE  FALSE
      <4>1. CASE Test(u)
        BY <3>1, <4>1 DEF Test, Pc
      <4>2. CASE Open(u)
        BY <3>1, <4>2 DEF Open, Pc
      <4>3. CASE Connect(u)
        BY <3>1, <4>3 DEF Connect, Pc
      <4>4. CASE Send(u) \/ Close(u) \/ Forget(u)
        BY <3>1, <4>4 DEF Send, Close, Forget, Pc
      <4>5. QED
        BY <3>5, <4>1, <4>2, <4>3, <4>4
    <3>6. QED
      BY <2>3, <3>2, <3>3, <3>4, <3>5 DEF Step
  <2>4. CASE Accept \/ QemuStarts \/ QemuStops \/ Restart
    BY <2>1, <2>4 DEF Accept, QemuStarts, QemuStops, Restart
  <2>5. QED
    BY <2>2, <2>3, <2>4, ThreadAssumption DEF Next, Call, CallConnect
<1>2. QED
  BY <1>1, IInvAlways, PTL DEF LossNeedsOutage, Spec

\* No interleaving of threads parts the daemon from a connection that stands alone: only
\* QEMU's end or the daemon's own does.
THEOREM StandsAlways == Spec => StandsUntilOutage
<1>1. IInv /\ [Next]_vars => [Stands /\ up' /\ ~Restart => Stands']_vars
  <2> SUFFICES ASSUME TypeOK, Queue, Next, Stands, up', ~Restart PROVE Stands'
    BY DEF IInv
  <2>1. fd # Closed /\ fd \in Fd
    BY DEF Stands, CanSend, IsOpen, TypeOK
  <2>2. ASSUME NEW t \in Thread, NEW r, Enter(t, r, "send") PROVE Stands'
    BY <2>2 DEF Stands, CanSend, IsOpen, Enter, TypeOK, kernel
  <2>3. ASSUME NEW t \in Thread, Step(t) PROVE Stands'
    <3>1. Send(t) \/ ~CanSend
      BY <2>3 DEF Step, Test, Open, OpenFails, Connect, ConnectFails, Send, SendFails,
                  Close, Forget, Goto, Stands
    <3>2. UNCHANGED <<fd, sock>> /\ \A u \in Thread : pc'[u] \in {"idle", "send"}
      BY <3>1, Places DEF Stands, Send, Pc
    <3>3. QED
      BY <3>2 DEF Stands, CanSend, IsOpen
  <2>4. CASE Accept
    <3>1. /\ sock' = [sock EXCEPT ![Head(backlog)] = "served"] /\ UNCHANGED <<fd, pc>>
          /\ Head(backlog) \in Fd /\ sock[Head(backlog)] = "queued"
      BY <2>4, AcceptTyped DEF Accept
    <3>2. Head(backlog) = fd
      BY <3>1 DEF Stands
    <3>3. QED
      BY <2>1, <3>1, <3>2 DEF Stands, CanSend, IsOpen, TypeOK
  <2>5. CASE QemuStarts \/ QemuStops
    BY <2>5 DEF QemuStarts, QemuStops, kernel, Stands, CanSend, IsOpen
  <2>6. QED
    BY <2>1, <2>2, <2>3, <2>4, <2>5 DEF Next, Call, CallConnect
<1>2. QED
  BY <1>1, IInvAlways, PTL DEF StandsUntilOutage, Spec
=============================================================================
