-------------------------------- MODULE UsbHid --------------------------------
(***************************************************************************)
(* A USB HID device of QEMU from -device to unplugging (qemu/dev-hid.c):   *)
(* realize, attach, the guest's driver at the control pipe and the         *)
(* interrupt endpoint, suspend, migration, unrealize.  A usb-kbd with a    *)
(* chardev is UsbKbd inside this frame; mice and tablets share the HID     *)
(* state and have no chardev.                                              *)
(*                                                                         *)
(* Not in the repository, and modelled from their use: the USB core        *)
(* (usb_desc_attach, usb_desc_handle_control, usb_wakeup), qdev, and the   *)
(* guest's driver, which reads the descriptors, binds, and gives up on a   *)
(* device that does not do what its descriptors say.  hs->protocol and the *)
(* LEDs are left out: nothing here looks at them.                          *)
(***************************************************************************)
EXTENDS UsbKbd, HidDescriptors

CONSTANT Option     \* -device usb-<kind>,usb_version=,chardev= and the port's speed

ASSUME OptionAssumption ==
    /\ Option \subseteq [kind : Kind, usb_version : Nat, chardev : BOOLEAN, port : Speed]
    /\ \A o \in Option : o.chardev => o.kind = "keyboard"
ASSUME LayoutAssumption == Report \subseteq [1..8 -> 0..255]

VARIABLES
    option,         \* the device's options
    life,           \* where the device object is
    kbd_chr_inited,
    active,         \* whether QEMU's input events go to this device
    driver,         \* how far the guest's driver is
    suspended       \* whether the guest has suspended the device, to be woken by it

frame == <<option, life, kbd_chr_inited, active, driver, suspended>>
hidVars == <<vars, frame>>
-----------------------------------------------------------------------------
Keyboard == option.kind = "keyboard"

\* usb_desc_attach: the best speed that both sides know.
speed ==
    IF option.port \in usb_desc(option.usb_version) THEN option.port ELSE "full"

DeviceAt == [k \in Kind |-> [s \in Speed |-> desc_device(k, s)]]
Device == DeviceAt[option.kind][speed]

\* What the driver parses: as much of the report descriptor as the interface announces.
LayoutAt ==
    [k \in Kind |-> [s \in Speed |->
        Parse(Truncated(report_descriptor[k], desc_device(k, s).interface.len))]]
Layout == LayoutAt[option.kind][speed]

\* Bytes of a report that hid_pointer_poll and hid_keyboard_poll fill.
PollBytes == [mouse |-> 4, tablet |-> 6, keyboard |-> 8]

\* sizeof(qemu_<kind>_hid_report_descriptor)
DescriptorBytes == [k \in Kind |-> Offset(report_descriptor[k])[Len(report_descriptor[k])]]

\* What the tables come to.  Nothing in them is a parameter: TLC computes it.
ASSUME TablesAssumption ==
    /\ \A k \in Kind, s \in Speed :
          /\ DescriptorBytes[k] = desc_device(k, s).interface.len
          /\ Bits(LayoutAt[k][s].Input) = 8 * PollBytes[k]
          /\ LayoutAt[k][s].Output # <<>> => k = "keyboard"
    /\ \A s \in Speed : LayoutAt["keyboard"][s].Input = BootFields

DeviceInit ==
    /\ Init
    /\ option \in Option
    /\ life = "new" /\ kbd_chr_inited = FALSE /\ active = FALSE
    /\ driver = "none" /\ suspended = FALSE

-----------------------------------------------------------------------------
\* usb_<kind>_realize; the USB core then attaches the device.  An invalid usb_version
\* fails in usb_hid_initfn, and the keyboard takes its chardev all the same.
Realize ==
    /\ life = "new"
    /\ life' = IF option.usb_version \in {1, 2} THEN "realized" ELSE "failed"
    /\ kbd_chr_inited' = option.chardev
    /\ active' = (Keyboard /\ life' = "realized")
    /\ UNCHANGED <<vars, option, driver, suspended>>

\* qdev releases a device that failed, its chardev property included.
Release ==
    /\ life = "failed"
    /\ life' = "gone" /\ kbd_chr_inited' = FALSE
    /\ UNCHANGED <<vars, option, active, driver, suspended>>

\* Faulty: the chardev keeps its handlers.
UnrealizeKeepsHandlers ==
    /\ life = "realized"
    /\ HidFree
    /\ life' = "gone" /\ active' = FALSE
    /\ driver' = "none" /\ suspended' = FALSE
    /\ UNCHANGED <<option, kbd_chr_inited>>

\* usb_hid_unrealize
Unrealize ==
    /\ life = "realized"
    /\ HidFree
    /\ life' = "gone" /\ kbd_chr_inited' = FALSE /\ active' = FALSE
    /\ driver' = "none" /\ suspended' = FALSE
    /\ UNCHANGED option

\* Faulty: no post_load.
MigrateIdle ==
    /\ life = "realized"
    /\ Migrate
    /\ active' = Keyboard
    /\ UNCHANGED <<option, life, kbd_chr_inited, driver, suspended>>

\* A device is realized on the other side and loads vmstate_usb_kbd or vmstate_usb_ptr;
\* usb_ptr_post_load.
MigrateDevice ==
    /\ life = "realized"
    /\ Migrate
    /\ active' = (Keyboard \/ suspended)
    /\ UNCHANGED <<option, life, kbd_chr_inited, driver, suspended>>

-----------------------------------------------------------------------------
(* The chardev's side of a usb-kbd *)

\* usb_hid_changed: usb_wakeup.
Changed ==
    /\ suspended' = FALSE
    /\ UNCHANGED <<option, life, kbd_chr_inited, active, driver>>

\* No main loop runs while realize fails.
Attached == kbd_chr_inited /\ life # "failed" /\ UNCHANGED frame

KbdChrRead == Attached /\ \E k \in 1..BufSize : ChrRead(k)

KbdByte ==
    \/ Attached /\ StoreByte
    \/ kbd_chr_inited /\ ApplyReport /\ Changed

Daemon == Attached /\ (Reconnect \/ \E r \in Report : DaemonWrites(r))

\* QEMU's own input, and the idle timer.
Input == life = "realized" /\ active /\ QemuKey /\ Changed

Timer == life = "realized" /\ IdleTimer /\ Changed

-----------------------------------------------------------------------------
(* The guest's side *)

\* hid_pointer_poll
PointerPoll ==
    /\ n' = IF n > 0 THEN n - 1 ELSE 0
    /\ idle_pending' = FALSE
    /\ UNCHANGED <<chr, shown, idle, guest>>

\* A packet of the endpoint holds one whole report as the driver has parsed it.
PacketFits ==
    /\ PollBytes[option.kind] <= Device.interface.wMaxPacketSize
    /\ Bits(Layout.Input) = 8 * PollBytes[option.kind]

\* usb_hid_handle_data, by a driver that is bound.  A poll takes the pointer's
\* input, even one that is answered NAK.
PollData ==
    /\ MainLoop /\ driver = "bound" /\ ~suspended
    /\ active' = TRUE
    /\ \/ /\ ~hid_has_events
          /\ UNCHANGED <<vars, driver>>
       \/ /\ HandleData /\ Keyboard
          /\ driver' = IF PacketFits THEN driver ELSE "failed"
       \/ /\ hid_has_events /\ ~Keyboard
          /\ armed' = idle
          /\ PointerPoll
          /\ driver' = IF PacketFits THEN driver ELSE "failed"
    /\ UNCHANGED <<option, life, kbd_chr_inited, suspended>>

Request == {"GetReport", "SetReport", "GetProtocol", "SetProtocol", "GetIdle"}

\* What the descriptors oblige the device to answer: boot devices have a protocol,
\* devices with output items take a report.
Declared ==
    {"GetReport", "GetIdle"}
        \cup (IF Device.interface.boot THEN {"GetProtocol", "SetProtocol"} ELSE {})
        \cup (IF Layout.Output # <<>> THEN {"SetReport"} ELSE {})

\* Faulty: only the keyboard has a protocol.
ServedNarrow(request) ==
    CASE request \in {"SetReport", "GetProtocol", "SetProtocol"} -> Keyboard
      [] OTHER -> TRUE

\* usb_hid_handle_control: which class requests a kind answers; the rest is stalled.
Served(request) ==
    CASE request = "SetReport" -> Keyboard
      [] request \in {"GetProtocol", "SetProtocol"} -> option.kind \in {"keyboard", "mouse"}
      [] OTHER -> TRUE

\* The driver makes a class request and gives up when one it may rely on is stalled.
ClassRequest(request) ==
    /\ driver = "bound" /\ ~suspended
    /\ driver' = IF request \in Declared /\ ~Served(request) THEN "failed" ELSE driver
    /\ CASE request = "GetReport" /\ Keyboard -> GetReport
         [] request = "GetReport" /\ ~Keyboard -> MainLoop /\ PointerPoll /\ UNCHANGED armed
         [] OTHER -> MainLoop /\ UNCHANGED vars
    /\ UNCHANGED <<option, life, kbd_chr_inited, active, suspended>>

\* HID_SET_IDLE, which makes a pointer the active one.
SetIdleRate(on) ==
    /\ driver = "bound" /\ ~suspended
    /\ SetIdle(on)
    /\ active' = TRUE
    /\ UNCHANGED <<option, life, kbd_chr_inited, driver, suspended>>

\* usb_hid_handle_reset, by which a guest also begins with a device it has found.
Reset ==
    /\ life = "realized"
    /\ HandleReset
    /\ driver' = "reset" /\ suspended' = FALSE
    /\ UNCHANGED <<option, life, kbd_chr_inited, active>>

\* The guest selects the configuration and asks for as much of the report descriptor as
\* the interface announces: usb_desc_handle_control, then GET_DESCRIPTOR.
Bind ==
    /\ driver = "reset" /\ MainLoop
    /\ driver' = IF DescriptorBytes[option.kind] = Device.interface.len
                 THEN "bound" ELSE "failed"
    /\ UNCHANGED <<vars, option, life, kbd_chr_inited, active, suspended>>

\* The guest lets a device sleep that it can be woken by and has begun to use.
Suspend ==
    /\ driver = "bound" /\ active /\ MainLoop
    /\ Device.wakeup
    /\ suspended' = TRUE
    /\ UNCHANGED <<vars, option, life, kbd_chr_inited, active, driver>>

-----------------------------------------------------------------------------
DeviceNext ==
    \/ Realize
    \/ Release
    \/ Unrealize
    \/ MigrateDevice
    \/ Daemon
    \/ KbdChrRead
    \/ KbdByte
    \/ Input
    \/ Timer
    \/ PollData
    \/ \E request \in Request : ClassRequest(request)
    \/ \E on \in IdleSetting : SetIdleRate(on)
    \/ Reset
    \/ Bind
    \/ Suspend

DeviceSpec == DeviceInit /\ [][DeviceNext]_hidVars

\* QEMU's main loop runs its handlers and timers, a guest probes what is plugged in
\* and polls the endpoint of a device that is not suspended.
DeviceFairness ==
    /\ WF_hidVars(Realize \/ Release \/ (driver = "none" /\ Reset) \/ Bind)
    /\ WF_hidVars(KbdChrRead)
    /\ WF_hidVars(KbdByte)
    /\ WF_hidVars(Timer)
    /\ WF_hidVars(PollData)

FairDeviceSpec == DeviceSpec /\ DeviceFairness
-----------------------------------------------------------------------------
(* Properties *)

\* Types, with those of the keyboard inside.
DeviceTypeOK ==
    /\ TypeOK
    /\ option \in Option
    /\ life \in {"new", "realized", "failed", "gone"}
    /\ driver \in {"none", "reset", "bound", "failed"}
    /\ kbd_chr_inited \in BOOLEAN /\ active \in BOOLEAN /\ suspended \in BOOLEAN

\* The tables agree with one another and with the handlers: a driver that believes the
\* descriptors gets the whole report descriptor, one report in each packet, and no
\* stall for a request that they oblige the device to answer.
NeverRefused == driver # "failed"

\* What the driver makes of each report, by the layout it has parsed, is what the
\* daemon meant by it.
Understood ==
    [s \in Speed |-> [r \in Report |->
        Decode(LayoutAt["keyboard"][s].Input, Polled(KeyState(r))) = Meant(r)]]
GuestDecodes == driver = "bound" /\ guest \in Report => Understood[speed][guest]

\* A device that is not there, or not yet, has no handler on the chardev and no timer.
DetachedWhenGone == life \in {"new", "gone"} => ~kbd_chr_inited /\ ~armed

\* A suspended device gets the input that can wake it, after a migration too.
SuspendedCanWake == suspended => active

\* What the daemon has written to a connection that is in step comes to be applied,
\* unless it closes the connection or the device is unplugged or was never realized.
Waiting(c) == conn = c /\ c \notin cut /\ Len(applied[c]) < Len(written[c])
EverythingApplied ==
    \A c \in Conn : Waiting(c) ~> (~Waiting(c) \/ life = "gone")

\* The guest has set a rate, and neither the timer nor a pending report is left of it.
Disarmed == idle /\ ~armed /\ ~idle_pending

\* With an idle rate the guest learns the current keys from the timer's report, unless
\* it suspends the device or takes the rate back.  The chain from timer to report to
\* timer breaks only where the guest has just read the keys or the daemon's next report
\* cancels the pending one (dev-hid.c:602), and nowhere else while the device is there.
IdleRateDelivers ==
    /\ armed ~> (guest = shown \/ Disarmed \/ suspended \/ ~idle \/ life = "gone")
    /\ [][Disarmed' => \/ Disarmed \/ life' = "gone"
                       \/ guest' = shown' \/ applied' # applied]_hidVars
=============================================================================
