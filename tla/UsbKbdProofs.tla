----------------------------- MODULE UsbKbdProofs -----------------------------
(***************************************************************************)
(* The keyboard's ingest is correct for every report size, every buffer    *)
(* that holds a report, any number of connections and any cut of their     *)
(* bytes into calls of kbd_chr_read.                                       *)
(***************************************************************************)
EXTENDS UsbKbd, SequenceTheorems, TLAPS

\* Connections still to come are untouched.
Fresh == \A c \in Conn : c > conn => written[c] = <<>> /\ applied[c] = <<>>

\* The reports applied are the first ones written, and their bytes are shifted out.
Aligned ==
    /\ erased = ReportSize * Len(applied[conn])
    /\ applied[conn] \in Seq(Report)
    /\ Len(applied[conn]) <= Len(written[conn])
    /\ \A i \in 1..Len(applied[conn]) : applied[conn][i] = written[conn][i]

\* Behind half a report of another connection no report begins where one was written.
Astray == \A q \in Int : erased # ReportSize * q

IInv ==
    /\ TypeOK /\ Fresh /\ CutStaysGarbled
    /\ conn \notin cut => Aligned
    /\ conn \in cut => Astray

KeysTypeOK ==
    /\ shown \in Report \cup {Garbled} /\ guest \in Report \cup {Garbled}
    /\ n \in 0..MaxQueue

TimerTypeOK ==
    /\ idle \in BOOLEAN /\ armed \in BOOLEAN /\ idle_pending \in BOOLEAN
-----------------------------------------------------------------------------
LEMMA Quotient ==
    ASSUME NEW k \in Int, NEW r \in Nat \ {0}, k % r = 0
    PROVE  k = r * (k \div r) /\ k \div r \in Int
OBVIOUS

LEMMA Multiple ==
    ASSUME NEW k \in Nat, NEW r \in Nat \ {0}
    PROVE  (r * k) % r = 0 /\ (r * k) \div r = k
OBVIOUS

LEMMA NoMultiple ==
    ASSUME NEW l \in Int, NEW r \in Nat \ {0}, 0 < l, l < r, NEW q \in Int
    PROVE  r * q # -l
OBVIOUS

LEMMA NextMultiple ==
    ASSUME NEW r \in Nat \ {0}, NEW q \in Int
    PROVE  r * (q - 1) = r * q - r /\ r * (q + 1) = r * q + r
OBVIOUS

LEMMA Interval ==
    ASSUME NEW k \in Nat \ {0}
    PROVE  1..(k + 1) - 1 = (1..k - 1) \cup {k}
OBVIOUS

LEMMA FewerMultiples ==
    ASSUME NEW k \in Nat, NEW m \in Nat, NEW r \in Nat \ {0}, r * k + r <= r * m
    PROVE  k + 1 <= m
OBVIOUS

LEMMA Typed ==
    ASSUME IInv
    PROVE  /\ conn \in Conn /\ conn \in Nat \ {0} /\ conn <= MaxConns /\ cut \subseteq 1..conn
           /\ written[conn] \in Seq(Report) /\ Len(written[conn]) \in Nat
           /\ applied[conn] \in Seq(Report \cup {Garbled}) /\ Len(applied[conn]) \in Nat
           /\ received \in Nat /\ erased \in Int /\ size \in Nat
           /\ ReportSize \in Nat \ {0} /\ BufSize \in Nat
           /\ ReportSize * Len(written[conn]) \in Nat
           /\ TypeOK
BY SizeAssumption DEF IInv, TypeOK, Conn

\* In a connection that did not begin astray, the report that completes is the next
\* one written; in one that did, it is none.
LEMMA ReportCompletes ==
    ASSUME IInv, size > 0, kbd_sock_len + 1 >= ReportSize
    PROVE  /\ conn \notin cut => /\ Len(applied[conn]) < Len(written[conn])
                                 /\ ReportAt(erased) = written[conn][Len(applied[conn]) + 1]
                                 /\ ReportAt(erased) \in Report
           /\ conn \in cut => ReportAt(erased) = Garbled
<1>1. CASE conn \notin cut
  <2> DEFINE k == Len(applied[conn])
             m == Len(written[conn])
  <2>1. k \in Nat /\ m \in Nat /\ ReportSize \in Nat \ {0} /\ erased = ReportSize * k
    BY <1>1, Typed DEF IInv, Aligned
  <2>2. received + 1 <= ReportSize * m /\ received + 1 >= erased + ReportSize
    BY Typed DEF IInv, TypeOK, InFlight, kbd_sock_len
  <2>3. ReportSize * k + ReportSize <= ReportSize * m
    BY <2>1, <2>2, Typed
  <2>4. k + 1 <= m
    BY <2>1, <2>3, FewerMultiples
  <2>5. erased % ReportSize = 0 /\ erased \div ReportSize = k
    BY <2>1, Multiple
  <2>6. ReportAt(erased) = written[conn][k + 1]
    BY <2>5 DEF ReportAt
  <2>7. written[conn][k + 1] \in Report
    BY <2>1, <2>4, Typed
  <2>8. QED
    BY <1>1, <2>1, <2>4, <2>6, <2>7
<1>2. CASE conn \in cut
  <2>1. erased % ReportSize # 0
    <3>1. ASSUME erased % ReportSize = 0 PROVE FALSE
      BY <1>2, <3>1, Typed, Quotient DEF IInv, Astray
    <3>2. QED
      BY <3>1
  <2>2. QED
    BY <1>2, <2>1 DEF ReportAt
<1>3. QED
  BY <1>1, <1>2

-----------------------------------------------------------------------------
LEMMA InitIInv == Init => IInv
<1> SUFFICES ASSUME Init PROVE IInv
  OBVIOUS
<1>1. /\ conn = 1 /\ cut = {} /\ size = 0 /\ received = 0 /\ erased = 0
      /\ conn \in Conn
      /\ written = [c \in Conn |-> <<>>] /\ applied = [c \in Conn |-> <<>>]
  BY SizeAssumption DEF Init, Conn
<1>2. TypeOK
  <2>1. kbd_sock_len \in 0..ReportSize - 1 /\ InFlight >= size
    BY <1>1, SizeAssumption DEF kbd_sock_len, InFlight
  <2>2. KeysTypeOK
    BY ReportAssumption, SizeAssumption DEF Init, KeysTypeOK
  <2>3. TimerTypeOK
    BY Zenon DEF Init, TimerTypeOK
  <2>4. size \in 0..BufSize /\ received \in Nat /\ erased \in Int /\ cut \subseteq 1..conn
    BY <1>1, SizeAssumption
  <2>5. written \in [Conn -> Seq(Report)] /\ applied \in [Conn -> Seq(Report \cup {Garbled})]
    BY <1>1
  <2>6. QED
    BY <1>1, <2>1, <2>2, <2>3, <2>4, <2>5 DEF TypeOK, KeysTypeOK, TimerTypeOK
<1>3. Fresh /\ Aligned /\ CutStaysGarbled
  BY <1>1, SizeAssumption DEF Fresh, Aligned, CutStaysGarbled
<1>4. QED
  BY <1>1, <1>2, <1>3 DEF IInv

\* A step of the HID layer or of the guest moves no bytes.
LEMMA HidStep ==
    ASSUME IInv, UNCHANGED chr, KeysTypeOK', TimerTypeOK'
    PROVE  IInv'
BY DEF IInv, chr, TypeOK, KeysTypeOK, TimerTypeOK, Fresh, Aligned, Astray, CutStaysGarbled,
       kbd_sock_len, InFlight

LEMMA DaemonWritesIInv ==
    ASSUME IInv, NEW r \in Report, DaemonWrites(r)
    PROVE  IInv'
<1>1. /\ written' = [written EXCEPT ![conn] = Append(written[conn], r)]
      /\ UNCHANGED <<conn, size, received, erased, cut, applied, hid, guest>>
  BY DEF DaemonWrites
<1>2. /\ Append(written[conn], r) \in Seq(Report)
      /\ Len(Append(written[conn], r)) = Len(written[conn]) + 1
      /\ \A i \in 1..Len(written[conn]) : Append(written[conn], r)[i] = written[conn][i]
  BY Typed
<1>3. written'[conn] = Append(written[conn], r)
  BY <1>1, Typed DEF IInv, TypeOK
<1>4. TypeOK'
  <2>1. ReportSize * (Len(written[conn]) + 1) = ReportSize * Len(written[conn]) + ReportSize
    BY Typed
  <2>2. InFlight' = InFlight + ReportSize
    BY <1>1, <1>2, <1>3, <2>1, Typed DEF InFlight
  <2>3. InFlight' >= size
    BY <2>2, Typed DEF IInv, TypeOK, InFlight
  <2>4. QED
    BY <1>1, <1>2, <2>3 DEF IInv, TypeOK, kbd_sock_len, hid
<1>5. Fresh'
  BY <1>1, Typed DEF IInv, TypeOK, Fresh, Conn
<1>6. Aligned => Aligned'
  BY <1>1, <1>2, <1>3, Typed DEF Aligned
<1>7. (Astray => Astray') /\ (CutStaysGarbled => CutStaysGarbled')
  BY <1>1 DEF Astray, CutStaysGarbled
<1>8. QED
  BY <1>1, <1>4, <1>5, <1>6, <1>7 DEF IInv

LEMMA ReconnectIInv ==
    ASSUME IInv, Reconnect
    PROVE  IInv'
<1>1. /\ size = 0 /\ conn < MaxConns /\ conn' = conn + 1 /\ received' = 0
      /\ erased' = -kbd_sock_len
      /\ cut' = IF kbd_sock_len = 0 THEN cut ELSE cut \cup {conn'}
      /\ UNCHANGED <<written, size, applied, hid, guest>>
  BY DEF Reconnect, MainLoop
<1>2. /\ conn' \in Conn /\ conn' > conn /\ conn' \notin cut
      /\ written[conn'] = <<>> /\ applied[conn'] = <<>>
  BY <1>1, Typed, SizeAssumption DEF IInv, Fresh, Conn
<1>3. kbd_sock_len \in 0..ReportSize - 1 /\ kbd_sock_len' = kbd_sock_len
  BY <1>1, Typed DEF IInv, TypeOK, kbd_sock_len
<1>4. TypeOK'
  <2>1. InFlight' = 0
    BY <1>1, <1>2, Typed DEF InFlight
  <2>2. cut' \subseteq 1..conn'
    BY <1>1, Typed
  <2>3. QED
    BY <1>1, <1>2, <1>3, <2>1, <2>2, Typed DEF IInv, TypeOK, hid
<1>5. Fresh'
  BY <1>1, Typed DEF IInv, Fresh, Conn
<1>c. CutStaysGarbled'
  <2>1. CutStaysGarbled /\ <<>> \in Seq({Garbled}) /\ UNCHANGED applied
    BY <1>1 DEF IInv
  <2>2. cut' \subseteq cut \cup {conn'}
    BY <1>1
  <2>3. QED
    BY <1>2, <2>1, <2>2 DEF CutStaysGarbled
<1>6. CASE kbd_sock_len = 0
  <2>1. Aligned'
    BY <1>1, <1>2, <1>6, Typed DEF Aligned
  <2>2. QED
    BY <1>1, <1>2, <1>4, <1>5, <1>c, <1>6, <2>1 DEF IInv
<1>7. CASE kbd_sock_len # 0
  <2>1. Astray'
    <3>1. kbd_sock_len \in Int /\ 0 < kbd_sock_len /\ kbd_sock_len < ReportSize
      BY <1>3, <1>7, Typed
    <3>2. \A q \in Int : ReportSize * q # -kbd_sock_len
      BY <3>1, Typed, NoMultiple
    <3>3. QED
      BY <1>1, <3>2 DEF Astray
  <2>2. QED
    BY <1>1, <1>4, <1>5, <1>c, <1>7, <2>1 DEF IInv
<1>8. QED
  BY <1>6, <1>7

LEMMA MigrateIInv ==
    ASSUME IInv, Migrate
    PROVE  IInv'
<1>1. /\ size = 0 /\ conn < MaxConns /\ conn' = conn + 1 /\ received' = 0 /\ erased' = 0
      /\ armed' = idle /\ idle_pending' \in {FALSE, idle_pending}
      /\ UNCHANGED <<written, size, cut, applied, shown, n, idle, guest>>
  BY DEF Migrate, MainLoop
<1>2. /\ conn' \in Conn /\ conn' > conn /\ conn' \notin cut
      /\ written[conn'] = <<>> /\ applied[conn'] = <<>>
  BY <1>1, Typed, SizeAssumption DEF IInv, Fresh, Conn
<1>3. TypeOK'
  <2>1. InFlight' = 0 /\ kbd_sock_len' = 0
    BY <1>1, <1>2, Typed DEF InFlight, kbd_sock_len
  <2>2. cut' \subseteq 1..conn' /\ received' \in Nat /\ erased' \in Int
        /\ kbd_sock_len' \in 0..ReportSize - 1 /\ InFlight' >= size'
    BY <1>1, <2>1, Typed
  <2>3. armed' \in BOOLEAN /\ idle_pending' \in BOOLEAN
    BY <1>1, Zenon DEF IInv, TypeOK
  <2>4. QED
    BY <1>1, <1>2, <2>2, <2>3 DEF IInv, TypeOK
<1>4. Fresh'
  BY <1>1, Typed DEF IInv, Fresh, Conn
<1>5. Aligned' /\ CutStaysGarbled'
  BY <1>1, <1>2, Typed DEF IInv, Aligned, CutStaysGarbled
<1>6. QED
  BY <1>1, <1>2, <1>3, <1>4, <1>5 DEF IInv

\* A call begins, or takes a byte that completes no report.
LEMMA BytesIInv ==
    ASSUME IInv, StoreByte \/ \E k \in 1..BufSize : ChrRead(k)
    PROVE  IInv'
<1>1. /\ UNCHANGED <<conn, written, erased, cut, applied, hid, guest>>
      /\ Fresh' /\ (Aligned => Aligned') /\ (Astray => Astray') /\ CutStaysGarbled'
  BY DEF StoreByte, ChrRead, IInv, Fresh, Aligned, Astray, CutStaysGarbled
<1>2. CASE StoreByte
  <2>1. /\ size > 0 /\ size' = size - 1 /\ received' = received + 1
        /\ kbd_sock_len + 1 < ReportSize /\ kbd_sock_len >= 0
    BY <1>2 DEF StoreByte, IInv, TypeOK
  <2>2. received' \in Nat /\ size' \in 0..BufSize
    BY <2>1, Typed DEF IInv, TypeOK
  <2>3. kbd_sock_len' \in 0..ReportSize - 1
    BY <1>1, <2>1, Typed DEF kbd_sock_len
  <2>4. InFlight' >= size'
    <3>1. InFlight >= size
      BY Typed DEF TypeOK
    <3>2. InFlight' = InFlight - 1 /\ InFlight \in Int
      <4> DEFINE bytes == ReportSize * Len(written[conn])
      <4>1. bytes \in Nat /\ received \in Nat
        BY Typed
      <4>2. bytes' = bytes /\ received' = received + 1
        BY <1>1, <2>1
      <4> HIDE DEF bytes
      <4>3. InFlight = bytes - received /\ InFlight' = bytes' - received'
        BY DEF InFlight, bytes
      <4>4. QED
        BY <4>1, <4>2, <4>3
    <3>3. QED
      BY <2>1, <3>1, <3>2, Typed
  <2>5. TypeOK'
    BY <1>1, <2>2, <2>3, <2>4 DEF IInv, TypeOK, hid
  <2>6. QED
    BY <1>1, <2>5 DEF IInv
<1>3. CASE \E k \in 1..BufSize : ChrRead(k)
  <2>1. TypeOK'
    <3>1. PICK k \in 1..BufSize : k <= InFlight /\ size' = k /\ UNCHANGED received
      BY <1>3 DEF ChrRead
    <3>2. size' \in 0..BufSize
      BY <3>1, Typed
    <3>3. kbd_sock_len' = kbd_sock_len /\ InFlight' = InFlight
      BY <1>1, <3>1 DEF kbd_sock_len, InFlight
    <3>4. QED
      BY <1>1, <3>1, <3>2, <3>3, Typed DEF TypeOK, hid
  <2>2. QED
    BY <1>1, <2>1 DEF IInv
<1>4. QED
  BY <1>2, <1>3

LEMMA ApplyReportIInv ==
    ASSUME IInv, ApplyReport
    PROVE  IInv'
<1> DEFINE rep == ReportAt(erased)
           k == Len(applied[conn])
<1>1. /\ size > 0 /\ kbd_sock_len + 1 >= ReportSize
      /\ size' = size - 1 /\ received' = received + 1 /\ erased' = erased + ReportSize
      /\ shown' = rep
      /\ applied' = [applied EXCEPT ![conn] = Append(applied[conn], rep)]
      /\ n' = 0 /\ idle_pending' = FALSE
      /\ UNCHANGED <<conn, written, cut, idle, armed, guest>>
  BY DEF ApplyReport
<1>2. /\ conn \notin cut => k < Len(written[conn]) /\ rep = written[conn][k + 1] /\ rep \in Report
      /\ conn \in cut => rep = Garbled
  BY <1>1, ReportCompletes
<1>3. k \in Nat /\ rep \in Report \cup {Garbled}
  BY <1>2, Typed
<1> HIDE DEF rep
<1>4. /\ Append(applied[conn], rep) \in Seq(Report \cup {Garbled})
      /\ Len(Append(applied[conn], rep)) = k + 1
      /\ \A i \in 1..k : Append(applied[conn], rep)[i] = applied[conn][i]
      /\ Append(applied[conn], rep)[k + 1] = rep
  BY <1>3, Typed
<1>5. applied'[conn] = Append(applied[conn], rep)
  BY <1>1, Typed DEF IInv, TypeOK
<1>6. TypeOK'
  <2>1. kbd_sock_len' = 0
    <3>1. kbd_sock_len \in 0..ReportSize - 1
      BY Typed DEF TypeOK
    <3>2. kbd_sock_len = ReportSize - 1
      BY <1>1, <3>1, SizeAssumption
    <3>3. received' = received + 1 /\ erased' = erased + ReportSize
      BY <1>1
    <3>4. QED
      BY <3>2, <3>3, Typed DEF kbd_sock_len
  <2>2. InFlight' >= size'
    <3>1. InFlight >= size
      BY DEF IInv, TypeOK
    <3>2. size' = size - 1 /\ received' = received + 1 /\ UNCHANGED <<conn, written>>
      BY <1>1
    <3>3. QED
      BY <3>1, <3>2, Typed DEF InFlight
  <2>3. received' \in Nat /\ erased' \in Int /\ size' \in 0..BufSize /\ n' \in 0..MaxQueue
        /\ kbd_sock_len' \in 0..ReportSize - 1
    BY <1>1, <2>1, Typed, SizeAssumption DEF IInv, TypeOK
  <2>4. applied' \in [Conn -> Seq(Report \cup {Garbled})]
    BY <1>1, <1>4 DEF IInv, TypeOK
  <2>5. QED
    BY <1>1, <1>3, <2>2, <2>3, <2>4 DEF IInv, TypeOK
<1>7. Fresh'
  BY <1>1, Typed DEF IInv, TypeOK, Fresh, Conn
<1>c. CutStaysGarbled'
  <2>1. ASSUME conn \in cut PROVE Append(applied[conn], rep) \in Seq({Garbled})
    BY <1>2, <2>1 DEF IInv, CutStaysGarbled
  <2>2. \A c \in cut : c \in Conn
    BY Typed, SizeAssumption DEF Conn
  <2>3. QED
    BY <1>1, <1>5, <2>1, <2>2 DEF IInv, TypeOK, CutStaysGarbled
<1>8. CASE conn \notin cut
  <2>1. ReportSize * (k + 1) = ReportSize * k + ReportSize
    BY <1>3, Typed, NextMultiple
  <2>2. erased' = ReportSize * Len(applied'[conn])
    BY <1>1, <1>4, <1>5, <1>8, <2>1 DEF IInv, Aligned
  <2>3. applied'[conn] \in Seq(Report)
    BY <1>2, <1>5, <1>8 DEF IInv, Aligned
  <2>4. \A i \in 1..k + 1 : applied'[conn][i] = written[conn][i]
    BY <1>2, <1>3, <1>4, <1>5, <1>8 DEF IInv, Aligned
  <2>5. k + 1 <= Len(written[conn])
    BY <1>2, <1>3, <1>8, Typed
  <2>6. Aligned'
    BY <1>1, <1>4, <1>5, <2>2, <2>3, <2>4, <2>5 DEF Aligned
  <2>7. QED
    BY <1>1, <1>6, <1>7, <1>c, <1>8, <2>6 DEF IInv
<1>9. CASE conn \in cut
  <2>1. ASSUME NEW q \in Int, erased' = ReportSize * q
        PROVE  FALSE
    <3>1. ReportSize * (q - 1) = ReportSize * q - ReportSize
      BY Typed, NextMultiple
    <3>2. erased = ReportSize * (q - 1)
      BY <1>1, <2>1, <3>1, Typed
    <3>3. QED
      BY <1>9, <3>2 DEF IInv, Astray
  <2>2. Astray'
    BY <1>1, <2>1 DEF Astray
  <2>3. QED
    BY <1>1, <1>6, <1>7, <1>c, <1>9, <2>2 DEF IInv
<1>10. QED
  BY <1>8, <1>9

\* What the guest and the HID layer do leaves the HID state typed.
LEMMA HidActions ==
    ASSUME IInv,
           \/ HandleData \/ GetReport \/ \E on \in IdleSetting : SetIdle(on)
           \/ HandleReset \/ HidFree \/ IdleTimer \/ QemuKey
    PROVE  UNCHANGED chr /\ KeysTypeOK' /\ TimerTypeOK'
<1>1. /\ KeysTypeOK /\ TimerTypeOK /\ IdleSetting \subseteq BOOLEAN
      /\ MaxQueue \in Nat /\ NoKeys \in Report
  BY SizeAssumption, ReportAssumption DEF IInv, TypeOK, KeysTypeOK, TimerTypeOK
<1>2. CASE HandleData \/ GetReport
  <2>1. UNCHANGED <<chr, idle>> /\ KeyboardPoll /\ (armed' = idle \/ armed' = armed)
    BY <1>2 DEF HandleData, GetReport
  <2>2. KeysTypeOK'
    BY <1>1, <2>1 DEF KeyboardPoll, KeysTypeOK
  <2>3. TimerTypeOK'
    BY <1>1, <2>1, Zenon DEF KeyboardPoll, TimerTypeOK
  <2>4. QED
    BY <2>1, <2>2, <2>3
<1>3. CASE \E on \in IdleSetting : SetIdle(on)
  BY <1>1, <1>3 DEF SetIdle, KeysTypeOK, TimerTypeOK
<1>4. CASE HandleReset \/ HidFree
  <2>1. UNCHANGED chr /\ KeysTypeOK'
    BY <1>1, <1>4 DEF HandleReset, HidFree, KeysTypeOK
  <2>2. TimerTypeOK'
    BY <1>1, <1>4, Zenon DEF HandleReset, HidFree, TimerTypeOK
  <2>3. QED
    BY <2>1, <2>2
<1>5. CASE IdleTimer \/ QemuKey
  <2>1. UNCHANGED chr /\ KeysTypeOK'
    BY <1>1, <1>5 DEF IdleTimer, QemuKey, KeysTypeOK
  <2>2. TimerTypeOK'
    BY <1>1, <1>5, Zenon DEF IdleTimer, QemuKey, TimerTypeOK
  <2>3. QED
    BY <2>1, <2>2
<1>6. QED
  BY <1>2, <1>3, <1>4, <1>5

LEMMA StepIInv == IInv /\ [Next]_vars => IInv'
<1> SUFFICES ASSUME IInv, [Next]_vars PROVE IInv'
  OBVIOUS
<1>1. CASE \E r \in Report : DaemonWrites(r)
  BY <1>1, DaemonWritesIInv
<1>2. CASE Reconnect \/ Migrate
  BY <1>2, ReconnectIInv, MigrateIInv
<1>3. CASE StoreByte \/ \E k \in 1..BufSize : ChrRead(k)
  BY <1>3, BytesIInv
<1>4. CASE ApplyReport
  BY <1>4, ApplyReportIInv
<1>5. CASE \/ HandleData \/ GetReport \/ \E on \in IdleSetting : SetIdle(on)
           \/ HandleReset \/ HidFree \/ IdleTimer \/ QemuKey
  BY <1>5, HidActions, HidStep
<1>6. CASE UNCHANGED vars
  <2>1. UNCHANGED chr /\ KeysTypeOK' /\ TimerTypeOK'
    BY <1>6 DEF vars, chr, hid, IInv, TypeOK, KeysTypeOK, TimerTypeOK
  <2>2. QED
    BY <2>1, HidStep
<1>7. QED
  BY <1>1, <1>2, <1>3, <1>4, <1>5, <1>6 DEF Next

\* Every reachable state of the keyboard is typed, and a connection is either in step
\* with its reports or for ever out of it.
THEOREM InStepAlways == Spec => []IInv
BY InitIInv, StepIInv, PTL DEF Spec

\* Behind half a report (dev-hid.c:618-633) nothing is ever applied as it was written,
\* for any report size, buffer and length of the connection.
THEOREM CutAlways == Spec => []CutStaysGarbled
<1>1. IInv => CutStaysGarbled
  BY DEF IInv
<1>2. QED
  BY <1>1, InStepAlways, PTL

-----------------------------------------------------------------------------
(* The refinement, for every frame around the ingest that only adds steps *)

\* The steps that touch the ingest.
ChrStep ==
    \/ \E r \in Report : DaemonWrites(r)
    \/ Reconnect
    \/ Migrate
    \/ StoreByte \/ \E k \in 1..BufSize : ChrRead(k)
    \/ ApplyReport

LEMMA ChannelStart == Init => Channel!ChannelInit
BY DEF Init, Channel!ChannelInit

LEMMA ChannelStep ==
    ASSUME IInv, ChrStep \/ UNCHANGED chr
    PROVE  [Channel!ChannelNext]_(Channel!chan)
<1> USE DEF Channel!ChannelNext, Channel!chan
<1> DEFINE D == [c \in Conn |-> IF c \in cut THEN <<>> ELSE applied[c]]
           K == 1..conn - 1 \cup cut
<1>1. ASSUME NEW r \in Report, DaemonWrites(r)
      PROVE  Channel!ChannelWrite(conn, r)
  BY <1>1 DEF DaemonWrites, Channel!ChannelWrite
<1>2. CASE Reconnect
  <2>1. /\ conn' = conn + 1 /\ conn' \in Conn /\ applied[conn'] = <<>>
        /\ UNCHANGED <<written, applied>>
        /\ cut' = cut \/ cut' = cut \cup {conn'}
    BY <1>2, Typed, SizeAssumption DEF Reconnect, IInv, Fresh, Conn
  <2>2. D' = D
    BY <2>1
  <2>3. K' = K \cup ({conn} \cup cut')
    <3>1. 1..conn' - 1 = (1..conn - 1) \cup {conn}
      BY <2>1, Typed, Interval
    <3>2. QED
      BY <2>1, <3>1
  <2>4. {conn} \cup cut' \in SUBSET Conn
    <3>1. 1..conn \subseteq Conn
      BY Typed, SizeAssumption DEF Conn
    <3>2. QED
      BY <2>1, <3>1, Typed
  <2>5. Channel!ChannelClose({conn} \cup cut')
    BY <2>1, <2>2, <2>3 DEF Channel!ChannelClose
  <2>6. QED
    BY <2>4, <2>5
<1>3. CASE Migrate
  <2>1. conn' = conn + 1 /\ UNCHANGED <<written, applied, cut>>
    BY <1>3 DEF Migrate
  <2>2. D' = D
    BY <2>1
  <2>3. K' = K \cup {conn}
    <3>1. 1..conn' - 1 = (1..conn - 1) \cup {conn}
      BY <2>1, Typed, Interval
    <3>2. QED
      BY <2>1, <3>1
  <2>4. Channel!ChannelClose({conn})
    BY <2>1, <2>2, <2>3 DEF Channel!ChannelClose
  <2>5. QED
    BY <2>4, Typed
<1>4. CASE StoreByte \/ \E k \in 1..BufSize : ChrRead(k)
  BY <1>4 DEF StoreByte, ChrRead
<1>5. CASE ApplyReport
  <2>1. /\ applied' = [applied EXCEPT ![conn] = Append(applied[conn], ReportAt(erased))]
        /\ UNCHANGED <<conn, written, cut>>
        /\ size > 0 /\ kbd_sock_len + 1 >= ReportSize
    BY <1>5 DEF ApplyReport
  <2>2. CASE conn \in cut
    <3>1. D' = D
      BY <2>1, <2>2
    <3>2. QED
      BY <2>1, <3>1
  <2>3. CASE conn \notin cut
    <3>1. /\ Len(applied[conn]) < Len(written[conn])
          /\ ReportAt(erased) = written[conn][Len(applied[conn]) + 1]
      BY <2>1, <2>3, ReportCompletes
    <3>2. conn \notin K
      BY <2>3, Typed
    <3>3. D[conn] = applied[conn] /\ conn \in Conn
      BY <2>3, Typed
    <3>4. D' = [D EXCEPT ![conn] = Append(D[conn], ReportAt(erased))]
      BY <2>1, <2>3, <3>3 DEF IInv, TypeOK
    <3>5. ASSUME NEW c \in Conn, c = conn
          PROVE  Channel!ChannelDeliver(c)
      BY <2>1, <3>1, <3>2, <3>3, <3>4, <3>5 DEF Channel!ChannelDeliver
    <3>6. \E c \in Conn : Channel!ChannelDeliver(c)
      BY <3>3, <3>5
    <3>7. QED
      BY <3>6
  <2>4. QED
    BY <2>2, <2>3
<1>6. CASE UNCHANGED chr
  BY <1>6 DEF chr
<1>7. QED
  BY <1>1, <1>2, <1>3, <1>4, <1>5, <1>6, Typed DEF ChrStep

\* Every other step of the keyboard leaves the ingest alone.
LEMMA NextChr == IInv /\ [Next]_vars => ChrStep \/ UNCHANGED chr
<1> SUFFICES ASSUME IInv, [Next]_vars PROVE ChrStep \/ UNCHANGED chr
  OBVIOUS
<1>1. CASE UNCHANGED vars
  BY <1>1 DEF vars, chr
<1>2. CASE Next
  BY <1>2, HidActions DEF Next, ChrStep
<1>3. QED
  BY <1>1, <1>2

\* The ingest implements the record channel over any number of connections.
THEOREM ChannelImplemented == Spec => ImplementsChannel
<1>1. IInv /\ [Next]_vars => [Channel!ChannelNext]_(Channel!chan)
  BY NextChr, ChannelStep
<1>2. QED
  BY ChannelStart, <1>1, InStepAlways, PTL DEF Spec, ImplementsChannel, Channel!ChannelSpec
=============================================================================
