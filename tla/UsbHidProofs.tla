----------------------------- MODULE UsbHidProofs -----------------------------
(***************************************************************************)
(* The device around the ingest: whatever the guest, the daemon and the    *)
(* migrations do, the ingest keeps its promise, nothing is left attached,  *)
(* and a sleeping device wakes.  A driver that believes the descriptor     *)
(* tables is never refused, and reads of every report what was meant.      *)
(***************************************************************************)
EXTENDS UsbHid, UsbKbdProofs

FrameTypeOK ==
    /\ option \in Option
    /\ life \in {"new", "realized", "failed", "gone"}
    /\ driver \in {"none", "reset", "bound", "failed"}
    /\ kbd_chr_inited \in BOOLEAN /\ active \in BOOLEAN /\ suspended \in BOOLEAN

\* Only a realized device has a driver, a timer or a sleep to wake from.
Idle == life # "realized" => driver = "none" /\ ~armed /\ ~suspended

Detached == life \in {"new", "gone"} => ~kbd_chr_inited

DInv == FrameTypeOK /\ Idle /\ Detached /\ SuspendedCanWake

HInv == IInv /\ DInv
-----------------------------------------------------------------------------
(* The ingest and the HID state *)

LEMMA PointerPollTyped ==
    ASSUME IInv, PointerPoll, armed' \in BOOLEAN
    PROVE  UNCHANGED chr /\ KeysTypeOK' /\ TimerTypeOK'
<1>1. UNCHANGED <<chr, shown, idle, guest>> /\ idle_pending' = FALSE
      /\ n' = (IF n > 0 THEN n - 1 ELSE 0)
  BY DEF PointerPoll
<1>2. KeysTypeOK'
  BY <1>1, SizeAssumption DEF IInv, TypeOK, KeysTypeOK
<1>3. TimerTypeOK'
  BY <1>1, Zenon DEF IInv, TypeOK, TimerTypeOK
<1>4. QED
  BY <1>1, <1>2, <1>3

LEMMA Unmoved ==
    ASSUME IInv, UNCHANGED vars
    PROVE  UNCHANGED chr /\ KeysTypeOK' /\ TimerTypeOK'
BY DEF vars, chr, hid, IInv, TypeOK, KeysTypeOK, TimerTypeOK

\* What the device adds to the keyboard moves no bytes either.
LEMMA DeviceSteps ==
    ASSUME IInv, DInv, [DeviceNext]_hidVars
    PROVE  ChrStep \/ (UNCHANGED chr /\ KeysTypeOK' /\ TimerTypeOK')
<1>1. CASE Realize \/ Release \/ Bind \/ Suspend \/ UNCHANGED hidVars
  <2>1. UNCHANGED vars
    BY <1>1 DEF Realize, Release, Bind, Suspend, hidVars
  <2>2. QED
    BY <2>1, Unmoved
<1>2. CASE Unrealize \/ Reset
  <2>1. HidFree \/ HandleReset
    BY <1>2 DEF Unrealize, Reset
  <2>2. QED
    BY <2>1, HidActions
<1>3. CASE MigrateDevice \/ Daemon \/ KbdChrRead \/ KbdByte
  BY <1>3 DEF MigrateDevice, Daemon, KbdChrRead, KbdByte, ChrStep
<1>4. CASE Input \/ Timer
  <2>1. QemuKey \/ IdleTimer
    BY <1>4 DEF Input, Timer
  <2>2. QED
    BY <2>1, HidActions
<1>5. CASE PollData
  <2>1. CASE UNCHANGED vars
    BY <2>1, Unmoved
  <2>2. CASE HandleData
    BY <2>2, HidActions
  <2>3. CASE armed' = idle /\ PointerPoll
    <3>1. armed' \in BOOLEAN
      BY <2>3, Zenon DEF IInv, TypeOK
    <3>2. QED
      BY <2>3, <3>1, PointerPollTyped
  <2>4. QED
    BY <1>5, <2>1, <2>2, <2>3 DEF PollData
<1>6. ASSUME NEW request \in Request, ClassRequest(request)
      PROVE  UNCHANGED chr /\ KeysTypeOK' /\ TimerTypeOK'
  <2>1. GetReport \/ (PointerPoll /\ UNCHANGED armed) \/ UNCHANGED vars
    BY <1>6 DEF ClassRequest
  <2>2. CASE GetReport
    BY <2>2, HidActions
  <2>3. CASE PointerPoll /\ UNCHANGED armed
    <3>1. armed' \in BOOLEAN
      BY <2>3, Zenon DEF IInv, TypeOK
    <3>2. QED
      BY <2>3, <3>1, PointerPollTyped
  <2>4. CASE UNCHANGED vars
    BY <2>4, Unmoved
  <2>5. QED
    BY <2>1, <2>2, <2>3, <2>4
<1>7. CASE \E on \in IdleSetting : SetIdleRate(on)
  <2>1. \E on \in IdleSetting : SetIdle(on)
    BY <1>7 DEF SetIdleRate
  <2>2. QED
    BY <2>1, HidActions
<1>8. QED
  BY <1>1, <1>2, <1>3, <1>4, <1>5, <1>6, <1>7 DEF DeviceNext

LEMMA ChrStepIInv ==
    ASSUME IInv, ChrStep
    PROVE  IInv'
BY DaemonWritesIInv, ReconnectIInv, MigrateIInv, BytesIInv, ApplyReportIInv DEF ChrStep

-----------------------------------------------------------------------------
(* The frame *)

LEMMA InitHInv == DeviceInit => HInv
<1> SUFFICES ASSUME DeviceInit PROVE HInv
  OBVIOUS
<1>1. IInv
  BY InitIInv DEF DeviceInit
<1>2. DInv
  BY Zenon DEF DeviceInit, Init, DInv, FrameTypeOK, Idle, Detached, SuspendedCanWake
<1>3. QED
  BY <1>1, <1>2 DEF HInv

\* Coming and going.
LEMMA LifeDInv ==
    ASSUME DInv, Realize \/ Release \/ Unrealize \/ MigrateDevice
    PROVE  DInv'
<1>1. CASE Realize
  <2>1. /\ life = "new" /\ life' \in {"realized", "failed"}
        /\ kbd_chr_inited' = option.chardev
        /\ active' = (Keyboard /\ life' = "realized")
        /\ UNCHANGED <<armed, option, driver, suspended>>
    BY <1>1 DEF Realize, vars, hid
  <2>2. option.chardev \in BOOLEAN
    BY OptionAssumption DEF DInv, FrameTypeOK
  <2>3. FrameTypeOK'
    BY <2>1, <2>2 DEF DInv, FrameTypeOK
  <2>4. QED
    BY <2>1, <2>3 DEF DInv, Idle, Detached, SuspendedCanWake
<1>2. CASE Release
  BY <1>2 DEF Release, DInv, FrameTypeOK, Idle, Detached, SuspendedCanWake, vars, hid
<1>3. CASE Unrealize
  BY <1>3 DEF Unrealize, HidFree, DInv, FrameTypeOK, Idle, Detached, SuspendedCanWake
<1>4. CASE MigrateDevice
  <2>1. /\ life = "realized" /\ active' = (Keyboard \/ suspended)
        /\ UNCHANGED <<option, life, kbd_chr_inited, driver, suspended>>
    BY <1>4 DEF MigrateDevice
  <2>2. QED
    BY <2>1 DEF DInv, FrameTypeOK, Idle, Detached, SuspendedCanWake
<1>5. QED
  BY <1>1, <1>2, <1>3, <1>4

\* Bytes, input and the timer: only the timer's end touches the timer.
LEMMA HostDInv ==
    ASSUME DInv, Daemon \/ KbdChrRead \/ KbdByte \/ Input \/ Timer
    PROVE  DInv'
<1>1. /\ UNCHANGED <<option, life, kbd_chr_inited, active, driver>>
      /\ suspended' = suspended \/ suspended' = FALSE
      /\ armed' = armed \/ armed' = FALSE
  <2>1. CASE Daemon \/ KbdChrRead
    BY <2>1 DEF Daemon, KbdChrRead, Attached, frame, Reconnect, DaemonWrites, ChrRead, hid
  <2>2. CASE KbdByte
    BY <2>2 DEF KbdByte, Attached, frame, Changed, StoreByte, ApplyReport, hid
  <2>3. CASE Input \/ Timer
    BY <2>3 DEF Input, Timer, Changed, QemuKey, IdleTimer
  <2>4. QED
    BY <2>1, <2>2, <2>3
<1>2. FrameTypeOK'
  BY <1>1, Zenon DEF DInv, FrameTypeOK
<1>3. (armed' => armed) /\ (suspended' => suspended)
  <2>1. armed' => armed
    BY <1>1
  <2>2. suspended' => suspended
    BY <1>1
  <2>3. QED
    BY <2>1, <2>2
<1>4. Idle' /\ Detached' /\ SuspendedCanWake'
  BY <1>1, <1>3 DEF DInv, Idle, Detached, SuspendedCanWake
<1>5. QED
  BY <1>2, <1>4 DEF DInv

\* The guest deals with a device that is realized.
LEMMA GuestDInv ==
    ASSUME DInv,
           \/ PollData \/ Reset \/ Bind \/ Suspend
           \/ \E request \in Request : ClassRequest(request)
           \/ \E on \in IdleSetting : SetIdleRate(on)
    PROVE  DInv'
<1>1. driver # "none" => life = "realized"
  BY DEF DInv, Idle
<1>2. CASE Reset
  BY <1>2 DEF Reset, DInv, FrameTypeOK, Idle, Detached, SuspendedCanWake
<1>3. CASE Suspend \/ Bind
  <2>1. /\ driver # "none" /\ UNCHANGED <<option, life, kbd_chr_inited, active, armed>>
        /\ driver' \in {"bound", "failed", driver}
        /\ suspended' = suspended \/ (suspended' = TRUE /\ active)
    BY <1>3 DEF Suspend, Bind, vars, hid
  <2>2. FrameTypeOK'
    BY <2>1, Zenon DEF DInv, FrameTypeOK
  <2>3. Idle' /\ Detached' /\ SuspendedCanWake'
    BY <1>1, <2>1 DEF DInv, Idle, Detached, SuspendedCanWake
  <2>4. QED
    BY <2>2, <2>3 DEF DInv
<1>4. CASE \/ PollData \/ \E request \in Request : ClassRequest(request)
           \/ \E on \in IdleSetting : SetIdleRate(on)
  <2>1. /\ driver = "bound" /\ ~suspended
        /\ driver' \in {driver, "failed"}
        /\ active' = TRUE \/ active' = active
        /\ UNCHANGED <<option, life, kbd_chr_inited, suspended>>
    BY <1>4 DEF PollData, ClassRequest, SetIdleRate
  <2>2. QED
    BY <1>1, <2>1 DEF DInv, FrameTypeOK, Idle, Detached, SuspendedCanWake
<1>5. QED
  BY <1>2, <1>3, <1>4

LEMMA StepHInv == HInv /\ [DeviceNext]_hidVars => HInv'
<1> SUFFICES ASSUME HInv, [DeviceNext]_hidVars PROVE HInv'
  OBVIOUS
<1>1. IInv'
  BY DeviceSteps, ChrStepIInv, HidStep DEF HInv
<1>2. DInv'
  <2>1. CASE Realize \/ Release \/ Unrealize \/ MigrateDevice
    BY <2>1, LifeDInv DEF HInv
  <2>2. CASE Daemon \/ KbdChrRead \/ KbdByte \/ Input \/ Timer
    BY <2>2, HostDInv DEF HInv
  <2>3. CASE \/ PollData \/ Reset \/ Bind \/ Suspend
             \/ \E request \in Request : ClassRequest(request)
             \/ \E on \in IdleSetting : SetIdleRate(on)
    BY <2>3, GuestDInv DEF HInv
  <2>4. CASE UNCHANGED hidVars
    BY <2>4 DEF hidVars, frame, vars, hid, HInv, DInv, FrameTypeOK, Idle, Detached,
                SuspendedCanWake
  <2>5. QED
    BY <2>1, <2>2, <2>3, <2>4 DEF DeviceNext
<1>3. QED
  BY <1>1, <1>2 DEF HInv

LEMMA DeviceAlways == DeviceSpec => []HInv
BY InitHInv, StepHInv, PTL DEF DeviceSpec

-----------------------------------------------------------------------------
\* Every reachable state of the device is typed.
THEOREM DeviceTypeCorrect == DeviceSpec => []DeviceTypeOK
<1>1. HInv => DeviceTypeOK
  BY DEF HInv, IInv, DInv, FrameTypeOK, DeviceTypeOK
<1>2. QED
  BY <1>1, DeviceAlways, PTL

\* A device that is not there has no handler on the chardev and no timer.
THEOREM DetachedAlways == DeviceSpec => []DetachedWhenGone
<1>1. HInv => DetachedWhenGone
  BY DEF HInv, DInv, Idle, Detached, DetachedWhenGone
<1>2. QED
  BY <1>1, DeviceAlways, PTL

\* A suspended device gets the input that can wake it, after a migration too.
THEOREM WakeAlways == DeviceSpec => []SuspendedCanWake
<1>1. HInv => SuspendedCanWake
  BY DEF HInv, DInv
<1>2. QED
  BY <1>1, DeviceAlways, PTL

\* Through plugging and migration too, a connection cut off inside a report shows the
\* guest nothing but straddled reports (dev-hid.c:618-633).
THEOREM DeviceCutAlways == DeviceSpec => []CutStaysGarbled
<1>1. HInv => CutStaysGarbled
  BY DEF HInv, IInv
<1>2. QED
  BY <1>1, DeviceAlways, PTL

\* Through plugging, migration and reconnection the ingest implements the record channel.
THEOREM DeviceImplementsChannel == DeviceSpec => ImplementsChannel
<1>1. DeviceInit => Channel!ChannelInit
  BY ChannelStart DEF DeviceInit
<1>2. HInv /\ [DeviceNext]_hidVars => [Channel!ChannelNext]_(Channel!chan)
  BY DeviceSteps, ChannelStep DEF HInv
<1>3. QED
  BY <1>1, <1>2, DeviceAlways, PTL DEF DeviceSpec, ImplementsChannel, Channel!ChannelSpec

-----------------------------------------------------------------------------
(* The descriptor tables and the driver that believes them *)

\* Every device fits its packets and answers what it declares.
LEMMA TablesServe ==
    ASSUME FrameTypeOK
    PROVE  /\ PacketFits
           /\ DescriptorBytes[option.kind] = Device.interface.len
           /\ \A request \in Declared : Served(request)
<1>1. option.kind \in Kind /\ option.port \in Speed
  BY OptionAssumption DEF FrameTypeOK
<1>2. speed \in Speed
  BY <1>1 DEF speed, Speed
<1>3. Device = desc_device(option.kind, speed) /\ Layout = LayoutAt[option.kind][speed]
  BY <1>1, <1>2 DEF Device, DeviceAt, Layout
<1>4. PollBytes[option.kind] <= Device.interface.wMaxPacketSize
  BY <1>1, <1>2, <1>3 DEF PollBytes, desc_device, desc_iface_mouse, desc_iface_tablet,
     desc_iface_keyboard, Interface, Kind, Speed
<1>5. Device.interface.boot => option.kind \in {"keyboard", "mouse"}
  BY <1>1, <1>2, <1>3 DEF desc_device, desc_iface_mouse, desc_iface_tablet,
     desc_iface_keyboard, Interface, Kind, Speed
<1>6. /\ DescriptorBytes[option.kind] = Device.interface.len
      /\ Bits(Layout.Input) = 8 * PollBytes[option.kind]
      /\ Layout.Output # <<>> => Keyboard
  BY <1>1, <1>2, <1>3, TablesAssumption DEF Keyboard
<1>7. \A request \in Declared : Served(request)
  BY <1>5, <1>6 DEF Declared, Served, Keyboard
<1> QED BY <1>4, <1>6, <1>7 DEF PacketFits

\* The tables agree with one another and with the handlers (dev-hid.c:90-570, 645-723):
\* no driver that believes them is ever refused, whatever the device and the port.
THEOREM NeverRefusedAlways == DeviceSpec => []NeverRefused
<1>1. DeviceInit => NeverRefused
  BY DEF DeviceInit, NeverRefused
<1>2. HInv /\ NeverRefused /\ [DeviceNext]_hidVars => NeverRefused'
  <2> SUFFICES ASSUME HInv, NeverRefused, [DeviceNext]_hidVars PROVE driver' # "failed"
    BY DEF NeverRefused
  <2> USE TablesServe DEF HInv, DInv, NeverRefused
  <2>1. CASE Realize \/ Release \/ Unrealize \/ MigrateDevice
    BY <2>1 DEF Realize, Release, Unrealize, MigrateDevice
  <2>2. CASE Daemon \/ KbdChrRead \/ KbdByte \/ Input \/ Timer
    BY <2>2 DEF Daemon, KbdChrRead, KbdByte, Input, Timer, Attached, Changed, frame
  <2>3. CASE PollData
    BY <2>3 DEF PollData
  <2>4. CASE \E request \in Request : ClassRequest(request)
    BY <2>4 DEF ClassRequest
  <2>5. CASE \/ Reset \/ Bind \/ Suspend \/ UNCHANGED hidVars
             \/ \E on \in IdleSetting : SetIdleRate(on)
    BY <2>5 DEF Reset, Bind, Suspend, SetIdleRate, hidVars, frame
  <2> QED BY <2>1, <2>2, <2>3, <2>4, <2>5 DEF DeviceNext
<1> QED BY <1>1, <1>2, DeviceAlways, PTL DEF DeviceSpec

-----------------------------------------------------------------------------
(* A report on its way to the guest's driver *)

Byte == 0..255
Code == 1..255

\* FirstBit is recursive: the solution is unique, position by position.
LEMMA BootFirstBit ==
    FirstBit(BootFields)[1] = 0 /\ FirstBit(BootFields)[3] = 16
<1> DEFINE step(b) == [i \in 1..4 |-> IF i = 1 THEN 0
                                      ELSE b[i - 1] + BootFields[i - 1].size * BootFields[i - 1].count]
           g == [i \in 1..4 |-> <<0, 8, 16, 64>>[i]]
<1>1. Len(BootFields) = 3
  BY DEF BootFields
<1>2. FirstBit(BootFields) = CHOOSE b : b = step(b)
  BY <1>1 DEF FirstBit
<1>3. g = step(g)
  BY DEF BootFields
<1>4. ASSUME NEW b, b = step(b) PROVE b[1] = 0 /\ b[3] = 16
  BY <1>4 DEF BootFields
<1> HIDE DEF step
<1> QED BY <1>2, <1>3, <1>4

\* One turn of the loop over the slots.
Turn(key, code) == IF code = 0 THEN key ELSE Append(key, code)

Elements(s) == {s[i] : i \in 1..Len(s)}

LEMMA CodesUnrolled ==
    ASSUME NEW r
    PROVE  Codes(r, 3) =
             Turn(Turn(Turn(Turn(Turn(Turn(<<>>, r[3]), r[4]), r[5]), r[6]), r[7]), r[8])
<1> DEFINE step(c) == [i \in 0..6 |-> IF i = 0 THEN <<>>
                                      ELSE IF r[3 + i - 1] = 0 THEN c[i - 1]
                                      ELSE Append(c[i - 1], r[3 + i - 1])]
           k1 == Turn(<<>>, r[3])
           k2 == Turn(k1, r[4])
           k3 == Turn(k2, r[5])
           k4 == Turn(k3, r[6])
           k5 == Turn(k4, r[7])
           k6 == Turn(k5, r[8])
           g == [i \in 0..6 |-> IF i = 0 THEN <<>> ELSE <<k1, k2, k3, k4, k5, k6>>[i]]
<1>1. Codes(r, 3) = (CHOOSE c : c = step(c))[6]
  BY DEF Codes
<1>2. ASSUME NEW c
      PROVE  step(c) = [i \in 0..6 |-> IF i = 0 THEN <<>> ELSE Turn(c[i - 1], r[i + 2])]
  BY DEF Turn
<1>3. \A i \in 0..6 : g[i] = IF i = 0 THEN <<>> ELSE Turn(g[i - 1], r[i + 2])
  <2> HIDE DEF k1, k2, k3, k4, k5, k6
  <2>1. g[0] = <<>> /\ g[1] = k1 /\ g[2] = k2 /\ g[3] = k3 /\ g[4] = k4 /\ g[5] = k5 /\ g[6] = k6
    OBVIOUS
  <2>2. /\ k1 = Turn(<<>>, r[3]) /\ k2 = Turn(k1, r[4]) /\ k3 = Turn(k2, r[5])
        /\ k4 = Turn(k3, r[6]) /\ k5 = Turn(k4, r[7]) /\ k6 = Turn(k5, r[8])
    BY DEF k1, k2, k3, k4, k5, k6
  <2> HIDE DEF g
  <2> QED BY <2>1, <2>2
<1>4. g = step(g)
  <2>1. g = [i \in 0..6 |-> g[i]]
    OBVIOUS
  <2> HIDE DEF g, step
  <2>2. step(g) = [i \in 0..6 |-> IF i = 0 THEN <<>> ELSE Turn(g[i - 1], r[i + 2])]
    BY <1>2
  <2> QED BY <1>3, <2>1, <2>2
<1>5. ASSUME NEW c, c = step(c) PROVE c[6] = k6
  <2>1. \A i \in 0..6 : c[i] = IF i = 0 THEN <<>> ELSE Turn(c[i - 1], r[i + 2])
    <3> HIDE DEF step
    <3>1. c = [i \in 0..6 |-> IF i = 0 THEN <<>> ELSE Turn(c[i - 1], r[i + 2])]
      BY <1>2, <1>5
    <3> QED BY <3>1
  <2> HIDE DEF step
  <2>2. /\ c[0] = <<>>
        /\ c[1] = Turn(c[0], r[3]) /\ c[2] = Turn(c[1], r[4]) /\ c[3] = Turn(c[2], r[5])
        /\ c[4] = Turn(c[3], r[6]) /\ c[5] = Turn(c[4], r[7]) /\ c[6] = Turn(c[5], r[8])
    BY <2>1
  <2> QED BY <2>2
<1> HIDE DEF step, g
<1> QED BY <1>1, <1>4, <1>5

LEMMA TurnElements ==
    ASSUME NEW k \in Seq(Code), NEW x \in Byte
    PROVE  /\ Turn(k, x) \in Seq(Code)
           /\ Len(Turn(k, x)) <= Len(k) + 1
           /\ Elements(Turn(k, x)) = Elements(k) \cup ({x} \ {0})
<1>1. CASE x = 0
  BY <1>1 DEF Turn
<1>2. CASE x # 0
  <2>1. Turn(k, x) = Append(k, x) /\ x \in Code
    BY <1>2 DEF Turn, Byte, Code
  <2>2. /\ Append(k, x) \in Seq(Code) /\ Len(Append(k, x)) = Len(k) + 1
        /\ \A i \in 1..Len(k) : Append(k, x)[i] = k[i]
        /\ Append(k, x)[Len(k) + 1] = x
    BY <2>1, AppendProperties
  <2>3. Elements(Append(k, x)) = Elements(k) \cup {x}
    BY <2>2, LenProperties DEF Elements
  <2> QED BY <1>2, <2>1, <2>2, <2>3
<1> QED BY <1>1, <1>2

LEMMA CodesElements ==
    ASSUME NEW r \in [1..8 -> Byte]
    PROVE  /\ Codes(r, 3) \in Seq(Code) /\ Len(Codes(r, 3)) <= 6
           /\ Elements(Codes(r, 3)) = {r[i] : i \in {k \in 3..8 : r[k] # 0}}
<1> DEFINE k1 == Turn(<<>>, r[3])
           k2 == Turn(k1, r[4])
           k3 == Turn(k2, r[5])
           k4 == Turn(k3, r[6])
           k5 == Turn(k4, r[7])
           k6 == Turn(k5, r[8])
           OK(k, i, R) == k \in Seq(Code) /\ Len(k) <= i /\ Elements(k) = R \ {0}
<1> HIDE DEF k1, k2, k3, k4, k5, k6
<1>0. OK(<<>>, 0, {})
  BY DEF Elements
<1>a. ASSUME NEW i \in 0..5, NEW k, NEW R, NEW x \in Byte, OK(k, i, R)
      PROVE  OK(Turn(k, x), i + 1, R \cup {x})
  <2>1. /\ k \in Seq(Code) /\ Len(k) \in Nat /\ Len(k) <= i
        /\ Turn(k, x) \in Seq(Code) /\ Len(Turn(k, x)) \in Nat
        /\ Len(Turn(k, x)) <= Len(k) + 1
        /\ Elements(k) = R \ {0}
        /\ Elements(Turn(k, x)) = Elements(k) \cup ({x} \ {0})
    BY <1>a, TurnElements, LenProperties
  <2> QED BY <2>1
<1>r. \A i \in 1..8 : r[i] \in Byte
  OBVIOUS
<1> HIDE DEF OK
<1>1. OK(k1, 1, {r[3]})
  BY <1>0, <1>a, <1>r DEF k1
<1>2. OK(k2, 2, {r[3], r[4]})
  <2>1. OK(k2, 2, {r[3]} \cup {r[4]})
    BY <1>1, <1>a, <1>r DEF k2
  <2> QED BY <2>1
<1>3. OK(k3, 3, {r[3], r[4], r[5]})
  <2>1. OK(k3, 3, {r[3], r[4]} \cup {r[5]})
    BY <1>2, <1>a, <1>r DEF k3
  <2> QED BY <2>1
<1>4. OK(k4, 4, {r[3], r[4], r[5], r[6]})
  <2>1. OK(k4, 4, {r[3], r[4], r[5]} \cup {r[6]})
    BY <1>3, <1>a, <1>r DEF k4
  <2> QED BY <2>1
<1>5. OK(k5, 5, {r[3], r[4], r[5], r[6], r[7]})
  <2>1. OK(k5, 5, {r[3], r[4], r[5], r[6]} \cup {r[7]})
    BY <1>4, <1>a, <1>r DEF k5
  <2> QED BY <2>1
<1>6. OK(k6, 6, {r[3], r[4], r[5], r[6], r[7], r[8]})
  <2>1. OK(k6, 6, {r[3], r[4], r[5], r[6], r[7]} \cup {r[8]})
    BY <1>5, <1>a, <1>r DEF k6
  <2> QED BY <2>1
<1>7. Codes(r, 3) = k6
  BY CodesUnrolled DEF k1, k2, k3, k4, k5, k6
<1>8. {r[3], r[4], r[5], r[6], r[7], r[8]} \ {0} = {r[i] : i \in {k \in 3..8 : r[k] # 0}}
  OBVIOUS
<1> QED BY <1>6, <1>7, <1>8 DEF OK

\* The powers of two that a byte is taken apart with.
LEMMA Powers ==
    /\ \A m \in 0..7 : 2^m \in Nat \ {0}
    /\ \A m : m = 0 => 2^m = 1
    /\ \A m : m = 1 => 2^m = 2
    /\ \A m : m = 8 => 2^m = 256
<1>1. /\ 2^0 = 1 /\ 2^1 = 2 /\ 2^2 = 4 /\ 2^3 = 8
      /\ 2^4 = 16 /\ 2^5 = 32 /\ 2^6 = 64 /\ 2^7 = 128 /\ 2^8 = 256
  OBVIOUS
<1>2. ASSUME NEW m, NEW i, m = i PROVE 2^m = 2^i
  BY <1>2, Zenon
<1>3. ASSUME NEW m \in 0..7 PROVE 2^m \in {2^0, 2^1, 2^2, 2^3, 2^4, 2^5, 2^6, 2^7}
  <2>1. m \in {0, 1, 2, 3, 4, 5, 6, 7}
    OBVIOUS
  <2> QED BY <2>1, Zenon
<1>4. {2^0, 2^1, 2^2, 2^3, 2^4, 2^5, 2^6, 2^7} \subseteq Nat \ {0}
  OBVIOUS
<1>5. \A m : (m = 0 => 2^m = 2^0) /\ (m = 1 => 2^m = 2^1) /\ (m = 8 => 2^m = 2^8)
  BY Zenon
<1>6. \A m \in 0..7 : 2^m \in Nat \ {0}
  BY <1>3, <1>4
<1> QED BY <1>1, <1>5, <1>6

\* A bit of a byte is set or not.
LEMMA BitValue ==
    ASSUME NEW x \in Byte, NEW m \in 0..7
    PROVE  /\ x \div 2^m % 2 \in {0, 1}
           /\ m \div 8 = 0 /\ m % 8 = m
<1>1. 2^m \in Nat \ {0}
  BY Powers
<1>2. x \div 2^m \in Int
  BY <1>1 DEF Byte
<1> QED BY <1>2

\* The report the guest reads: the modifiers, and the codes from the front.
LEMMA PolledBytes ==
    ASSUME NEW r \in [1..8 -> Byte]
    PROVE  LET p == Polled(KeyState(r)) IN
           /\ p \in [1..8 -> Byte] /\ p[1] = r[1]
           /\ {p[i] : i \in {k \in 3..8 : p[k] # 0}} = {r[i] : i \in {k \in 3..8 : r[k] # 0}}
<1> DEFINE c == Codes(r, 3)
           p == Polled(KeyState(r))
<1>1. p = [i \in 1..8 |-> IF i = 1 THEN r[1] ELSE IF i - 2 \in 1..Len(c) THEN c[i - 2] ELSE 0]
  BY DEF Polled, KeyState, build_hid_report
<1>2. c \in Seq(Code) /\ Len(c) <= 6 /\ Elements(c) = {r[i] : i \in {k \in 3..8 : r[k] # 0}}
  BY CodesElements
<1> HIDE DEF c, p
<1>l. Len(c) \in Nat /\ Len(c) <= 6
  BY <1>2, LenProperties
<1>3. \A i \in 1..Len(c) : c[i] \in Code
  BY <1>2, ElementOfSeq
<1>n. \A x \in Code : x # 0
  BY DEF Code
<1>4. p \in [1..8 -> Byte] /\ p[1] = r[1]
  <2>1. \A i \in 1..Len(c) : c[i] \in Byte
    BY <1>3 DEF Byte, Code
  <2>2. 0 \in Byte /\ r[1] \in Byte
    BY DEF Byte
  <2>3. ASSUME NEW i \in 1..8
        PROVE  (IF i = 1 THEN r[1] ELSE IF i - 2 \in 1..Len(c) THEN c[i - 2] ELSE 0) \in Byte
    BY <2>1, <2>2
  <2> QED BY <1>1, <2>3
<1>5. {p[i] : i \in {k \in 3..8 : p[k] # 0}} = Elements(c)
  <2>1. ASSUME NEW i \in 3..8, p[i] # 0 PROVE i - 2 \in 1..Len(c) /\ p[i] = c[i - 2]
    BY <1>1, <1>l, <2>1
  <2>2. ASSUME NEW j \in 1..Len(c) PROVE j + 2 \in 3..8 /\ p[j + 2] = c[j] /\ c[j] # 0
    <3>1. j + 2 \in 3..8 /\ j + 2 # 1 /\ (j + 2) - 2 = j
      BY <1>l
    <3>2. c[j] \in Code /\ j + 2 \in 1..8
      BY <1>l, <1>3
    <3>3. p[j + 2] = c[j]
      BY <1>1, <3>1, <3>2
    <3>4. c[j] # 0
      BY <3>2, <1>n, Zenon
    <3> QED BY <3>1, <3>3, <3>4
  <2>3. {p[i] : i \in {k \in 3..8 : p[k] # 0}} \subseteq Elements(c)
    BY <2>1 DEF Elements
  <2>4. Elements(c) \subseteq {p[i] : i \in {k \in 3..8 : p[k] # 0}}
    BY <2>2 DEF Elements
  <2> QED BY <2>3, <2>4
<1> QED BY <1>2, <1>4, <1>5 DEF p

\* What a driver with these fields makes of a report.
LEMMA BootDecode ==
    ASSUME NEW p \in [1..8 -> Byte]
    PROVE  Decode(BootFields, p) = Meant(p)
<1> DEFINE bit(i) == FirstBit(BootFields)[i]
           value(i, j) == LET f == BootFields[i]
                              b == bit(i) + j * f.size
                          IN  p[b \div 8 + 1] \div 2^(b % 8) % 2^f.size
           part(i) == LET f == BootFields[i] IN
                      IF f.array
                      THEN {<<f.page, f.low + value(i, j)>> : j \in {k \in 0..f.count - 1 : value(i, k) # 0}}
                      ELSE {<<f.page, f.low + j>> : j \in {k \in 0..f.count - 1 : value(i, k) # 0}}
<1>1. Decode(BootFields, p) = UNION {part(i) : i \in {k \in 1..Len(BootFields) : ~BootFields[k].constant}}
  BY DEF Decode
<1>2. {k \in 1..Len(BootFields) : ~BootFields[k].constant} = {1, 3}
  BY DEF BootFields
<1>3. \A j \in 0..7 : value(1, j) # 0 <=> p[1] \div 2^j % 2 = 1
  <2> SUFFICES ASSUME NEW j \in 0..7 PROVE value(1, j) # 0 <=> p[1] \div 2^j % 2 = 1
    OBVIOUS
  <2>1. bit(1) + j * BootFields[1].size = j /\ BootFields[1].size = 1
    BY BootFirstBit DEF BootFields
  <2>2. p[1] \in Byte /\ j \div 8 + 1 = 1 /\ j % 8 = j
    BY BitValue
  <2>3. value(1, j) = p[j \div 8 + 1] \div 2^(j % 8) % 2^BootFields[1].size
    BY <2>1, Zenon
  <2>4. value(1, j) = p[1] \div 2^j % 2^BootFields[1].size
    BY <2>2, <2>3, Zenon
  <2>5. 2^BootFields[1].size = 2
    BY <2>1, Powers
  <2> HIDE DEF value
  <2>6. value(1, j) = p[1] \div 2^j % 2
    BY <2>4, <2>5, Zenon
  <2>7. p[1] \div 2^j % 2 \in {0, 1}
    BY <2>2, BitValue
  <2> DEFINE y == p[1] \div 2^j % 2
  <2>8. y \in {0, 1} /\ value(1, j) = y
    BY <2>6, <2>7
  <2> HIDE DEF y
  <2>9. value(1, j) # 0 <=> y = 1
    BY <2>8
  <2> QED BY <2>9 DEF y
<1>4. \A j \in 0..5 : value(3, j) = p[j + 3]
  <2> SUFFICES ASSUME NEW j \in 0..5 PROVE value(3, j) = p[j + 3]
    OBVIOUS
  <2> DEFINE b == 16 + j * 8
  <2>1. bit(3) + j * BootFields[3].size = b /\ BootFields[3].size = 8
    BY BootFirstBit DEF BootFields
  <2>2. b \div 8 + 1 = j + 3 /\ b % 8 = 0
    OBVIOUS
  <2> HIDE DEF b
  <2>5. value(3, j) = p[b \div 8 + 1] \div 2^(b % 8) % 2^BootFields[3].size
    BY <2>1, Zenon
  <2> HIDE DEF value
  <2>6. value(3, j) = p[j + 3] \div 2^(b % 8) % 2^BootFields[3].size
    BY <2>2, <2>5, Zenon
  <2>7. 2^(b % 8) = 1 /\ 2^BootFields[3].size = 256
    BY <2>1, <2>2, Powers
  <2>8. value(3, j) = p[j + 3] \div 1 % 256
    BY <2>6, <2>7, Zenon
  <2>3. p[j + 3] \in Byte
    OBVIOUS
  <2>4. p[j + 3] \div 1 % 256 = p[j + 3]
    BY <2>3 DEF Byte
  <2> QED BY <2>4, <2>8
<1> HIDE DEF value, bit
<1>5. part(1) = {<<KeyPage, 224 + m>> : m \in {k \in 0..7 : p[1] \div 2^k % 2 = 1}}
  <2>1. part(1) = {<<KeyPage, 224 + j>> : j \in {k \in 0..7 : value(1, k) # 0}}
    BY DEF BootFields
  <2> QED BY <1>3, <2>1
<1>6. part(3) = {<<KeyPage, p[i]>> : i \in {k \in 3..8 : p[k] # 0}}
  <2>1. part(3) = {<<KeyPage, 0 + value(3, j)>> : j \in {k \in 0..5 : value(3, k) # 0}}
    BY DEF BootFields
  <2>2. \A j \in 0..5 : 0 + value(3, j) = p[j + 3] /\ j + 3 \in 3..8
    BY <1>4 DEF Byte
  <2>3. \A i \in 3..8 : i - 3 \in 0..5 /\ (i - 3) + 3 = i
    OBVIOUS
  <2> QED BY <1>4, <2>1, <2>2, <2>3
<1> HIDE DEF part
<1> QED BY <1>1, <1>2, <1>5, <1>6 DEF Meant

LEMMA BootUnderstood ==
    ASSUME NEW r \in [1..8 -> Byte]
    PROVE  Decode(BootFields, Polled(KeyState(r))) = Meant(r)
<1> DEFINE p == Polled(KeyState(r))
<1>1. /\ p \in [1..8 -> Byte] /\ p[1] = r[1]
      /\ {p[i] : i \in {k \in 3..8 : p[k] # 0}} = {r[i] : i \in {k \in 3..8 : r[k] # 0}}
  BY PolledBytes
<1> HIDE DEF p
<1>2. {<<KeyPage, p[i]>> : i \in {k \in 3..8 : p[k] # 0}}
        = {<<KeyPage, r[i]>> : i \in {k \in 3..8 : r[k] # 0}}
  <2> DEFINE S(q) == {q[i] : i \in {k \in 3..8 : q[k] # 0}}
  <2>1. \A q : {<<KeyPage, q[i]>> : i \in {k \in 3..8 : q[k] # 0}} = {<<KeyPage, x>> : x \in S(q)}
    OBVIOUS
  <2> QED BY <1>1, <2>1
<1>3. Meant(p) = Meant(r)
  BY <1>1, <1>2 DEF Meant
<1> QED BY <1>1, <1>3, BootDecode DEF p

\* What the guest's driver makes of each report is what the daemon meant by it, for all
\* contents of a report: modifiers keep their bits, keys are neither lost nor renamed when
\* the slots move together (dev-hid.c:581).
THEOREM GuestDecodesAlways == DeviceSpec => []GuestDecodes
<1>1. HInv => GuestDecodes
  <2> SUFFICES ASSUME HInv, guest \in Report PROVE Understood[speed][guest]
    BY DEF GuestDecodes
  <2>1. speed \in Speed
    BY OptionAssumption DEF HInv, DInv, FrameTypeOK, speed, Speed
  <2>2. guest \in [1..8 -> Byte]
    BY LayoutAssumption DEF Byte
  <2>3. Decode(BootFields, Polled(KeyState(guest))) = Meant(guest)
    BY <2>2, BootUnderstood
  <2>4. LayoutAt["keyboard"][speed].Input = BootFields
    BY <2>1, TablesAssumption
  <2>5. Understood[speed][guest]
          = (Decode(LayoutAt["keyboard"][speed].Input, Polled(KeyState(guest))) = Meant(guest))
    BY <2>1 DEF Understood
  <2> QED BY <2>3, <2>4, <2>5, Zenon
<1> QED BY <1>1, DeviceAlways, PTL
=============================================================================
