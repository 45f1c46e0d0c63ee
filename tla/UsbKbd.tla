-------------------------------- MODULE UsbKbd --------------------------------
(***************************************************************************)
(* QEMU's usb-kbd with the QuicKeys socket backend (qemu/dev-hid.c): bytes *)
(* from the chardev become 8-byte reports, a report replaces the HID key   *)
(* state, and the guest reads that state through the interrupt endpoint or *)
(* with GET_REPORT.  The daemon may close its connection and open another, *)
(* perhaps inside a report: kbd_chr_event takes no notice.                 *)
(*                                                                         *)
(* QEMU runs these handlers one at a time under its big lock, so a handler *)
(* is not interrupted: no guest access happens while kbd_chr_read loops    *)
(* over the bytes of one call.                                             *)
(* The shared HID layer (hw/input/hid.c) is not part of the repository;    *)
(* hid_has_events, hid_keyboard_poll, hid_set_next_idle, hid_reset and     *)
(* hid_free are modelled from their use here.                              *)
(***************************************************************************)
EXTENDS Integers, Sequences

CONSTANTS
    Report,         \* contents of a report: keys and modifiers
    NoKeys,         \* the report with nothing pressed
    Garbled,        \* eight bytes that are not one written report
    ReportSize,     \* 8
    BufSize,        \* size of kbd_sock_buf: 16
    IdleSetting,    \* SET_IDLE requests the guest may make: TRUE sets a rate
    MaxConns,       \* bound: connections the daemon opens
    MaxWrites,      \* bound: reports it writes to each
    MaxQueue        \* bound: QEMU's own key events waiting in the HID queue

ASSUME ReportAssumption == NoKeys \in Report /\ Garbled \notin Report
ASSUME SizeAssumption ==
    /\ ReportSize \in Nat \ {0}
    /\ BufSize \in Nat /\ BufSize >= ReportSize
    /\ IdleSetting \subseteq BOOLEAN
    /\ MaxConns \in Nat \ {0} /\ MaxWrites \in Nat /\ MaxQueue \in Nat

Conn == 1..MaxConns

VARIABLES
    conn,           \* the daemon's connection
    written,        \* reports the daemon has written to each connection
    size,           \* bytes kbd_chr_read has yet to take in this call
    received,       \* bytes of this connection put into kbd_sock_buf
    erased,         \* those shifted out; negative while older bytes are in front
    cut,            \* history: connections that began behind bytes of another
    applied,        \* history: reports applied to the HID state, per connection
    shown,          \* hs->kbd.key and hs->kbd.modifiers
    n,              \* hs->n, the HID layer's queue of QEMU key events
    idle,           \* whether the guest has set an idle rate
    armed,          \* whether the idle timer runs
    idle_pending,   \* hs->idle_pending
    guest           \* the key state the guest's driver has last read

chr == <<conn, written, size, received, erased, cut, applied>>
hid == <<shown, n, idle, armed, idle_pending>>
vars == <<chr, hid, guest>>
-----------------------------------------------------------------------------
kbd_sock_len == received - erased

InFlight == ReportSize * Len(written[conn]) - received

\* Whether a guest request, a timer or another handler can run.
MainLoop == size = 0

\* The report that ReportSize bytes of the connection spell, from position first + 1.
ReportAt(first) ==
    IF first % ReportSize = 0 THEN written[conn][first \div ReportSize + 1] ELSE Garbled

Init ==
    /\ conn = 1 /\ cut = {}
    /\ size = 0 /\ received = 0 /\ erased = 0
    /\ written = [c \in Conn |-> <<>>] /\ applied = [c \in Conn |-> <<>>]
    /\ shown = NoKeys /\ n = 0
    /\ idle = FALSE /\ armed = FALSE /\ idle_pending = FALSE
    /\ guest = NoKeys

\* The daemon, at the other end of the socket.
DaemonWrites(r) ==
    /\ Len(written[conn]) < MaxWrites
    /\ written' = [written EXCEPT ![conn] = Append(@, r)]
    /\ UNCHANGED <<conn, size, received, erased, cut, applied, hid, guest>>

\* The daemon closes and connects again, and what QEMU has not read is lost.
\* kbd_chr_event does nothing: a report cut in two stays in the buffer.
Reconnect ==
    /\ MainLoop /\ conn < MaxConns
    /\ conn' = conn + 1
    /\ received' = 0
    /\ erased' = -kbd_sock_len
    /\ cut' = IF kbd_sock_len = 0 THEN cut ELSE cut \cup {conn'}
    /\ UNCHANGED <<written, size, applied, hid, guest>>

-----------------------------------------------------------------------------
kbd_chr_can_read == BufSize - kbd_sock_len

\* kbd_chr_read(k bytes): no more than kbd_chr_can_read said.
ChrRead(k) ==
    /\ MainLoop
    /\ k <= InFlight /\ k <= kbd_chr_can_read
    /\ size' = k
    /\ UNCHANGED <<conn, written, received, erased, cut, applied, hid, guest>>

\* One byte that does not complete a report.
StoreByte ==
    /\ size > 0 /\ kbd_sock_len < BufSize
    /\ kbd_sock_len + 1 < ReportSize
    /\ size' = size - 1
    /\ received' = received + 1
    /\ UNCHANGED <<conn, written, erased, cut, applied, hid, guest>>

\* Faulty: a report completes only once a byte beyond it has come.
ApplyReportLate ==
    /\ size > 0 /\ kbd_sock_len < BufSize
    /\ kbd_sock_len + 1 > ReportSize
    /\ size' = size - 1
    /\ received' = received + 1
    /\ erased' = erased + ReportSize
    /\ shown' = ReportAt(erased)
    /\ applied' = [applied EXCEPT ![conn] = Append(@, shown')]
    /\ n' = 0 /\ idle_pending' = FALSE
    /\ UNCHANGED <<conn, written, cut, idle, armed, guest>>

\* Faulty: shifts out one byte too few.
ApplyReportShiftsShort ==
    /\ size > 0 /\ kbd_sock_len < BufSize
    /\ kbd_sock_len + 1 >= ReportSize
    /\ size' = size - 1
    /\ received' = received + 1
    /\ erased' = erased + ReportSize - 1
    /\ shown' = ReportAt(erased)
    /\ applied' = [applied EXCEPT ![conn] = Append(@, shown')]
    /\ n' = 0 /\ idle_pending' = FALSE
    /\ UNCHANGED <<conn, written, cut, idle, armed, guest>>

\* Faulty: does not shift the applied report out of the buffer.
ApplyReportKeepsBytes ==
    /\ size > 0 /\ kbd_sock_len < BufSize
    /\ kbd_sock_len + 1 >= ReportSize
    /\ size' = size - 1
    /\ received' = received + 1
    /\ shown' = ReportAt(erased)
    /\ applied' = [applied EXCEPT ![conn] = Append(@, shown')]
    /\ n' = 0 /\ idle_pending' = FALSE
    /\ UNCHANGED <<conn, written, erased, cut, idle, armed, guest>>

\* The byte that completes a report: usb_hid_kbd_apply_report on the first eight
\* bytes, which are then shifted out.  It empties the event queue, drops a
\* pending idle report and wakes the endpoint; whether the next poll finds
\* anything is up to hid_has_events.
ApplyReport ==
    /\ size > 0 /\ kbd_sock_len < BufSize
    /\ kbd_sock_len + 1 >= ReportSize
    /\ size' = size - 1
    /\ received' = received + 1
    /\ erased' = erased + ReportSize
    /\ shown' = ReportAt(erased)
    /\ applied' = [applied EXCEPT ![conn] = Append(@, shown')]
    /\ n' = 0 /\ idle_pending' = FALSE
    /\ UNCHANGED <<conn, written, cut, idle, armed, guest>>

-----------------------------------------------------------------------------
\* hid_has_events (hw/input/hid.c).
hid_has_events == n > 0 \/ idle_pending

\* hid_keyboard_poll: the guest gets the state, one queued key event later.
KeyboardPoll ==
    /\ idle_pending' = FALSE
    /\ IF n > 0 THEN n' = n - 1 /\ shown' \in Report ELSE UNCHANGED <<n, shown>>
    /\ guest' = shown'

\* usb_hid_handle_data: an interrupt IN token; NAK when there is no event.
HandleData ==
    /\ MainLoop
    /\ hid_has_events
    /\ armed' = idle
    /\ KeyboardPoll
    /\ UNCHANGED <<idle, chr>>

\* usb_hid_handle_control: GET_REPORT and SET_IDLE.
GetReport ==
    /\ MainLoop
    /\ KeyboardPoll
    /\ UNCHANGED <<idle, armed, chr>>

SetIdle(on) ==
    /\ MainLoop
    /\ idle' = on
    /\ armed' = on
    /\ UNCHANGED <<shown, n, idle_pending, chr, guest>>

\* Faulty: stops the idle timer and leaves the rate set.
HandleResetKeepsRate ==
    /\ MainLoop
    /\ shown' = NoKeys
    /\ n' = 0
    /\ armed' = FALSE /\ idle_pending' = FALSE
    /\ UNCHANGED <<idle, chr, guest>>

HandleReset ==
    /\ MainLoop
    /\ shown' = NoKeys
    /\ n' = 0
    /\ idle' = FALSE /\ armed' = FALSE /\ idle_pending' = FALSE
    /\ UNCHANGED <<chr, guest>>

\* usb_hid_unrealize: hid_free removes the idle timer and leaves the rest as it is.
HidFree ==
    /\ MainLoop
    /\ armed' = FALSE
    /\ UNCHANGED <<shown, n, idle, idle_pending, chr, guest>>

\* vmstate_usb_kbd: the device goes on in a QEMU that has just realized it, with an
\* empty kbd_sock_buf and a connection of its own.  The HID state goes with it and
\* the idle timer starts again; whether a pending idle report does is up to
\* hw/input/hid.c.
Migrate ==
    /\ MainLoop /\ conn < MaxConns
    /\ conn' = conn + 1
    /\ received' = 0 /\ erased' = 0
    /\ armed' = idle
    /\ idle_pending' \in {FALSE, idle_pending}
    /\ UNCHANGED <<written, size, cut, applied, shown, n, idle, guest>>

-----------------------------------------------------------------------------
\* The HID layer's own sources of events: the idle timer and QEMU's keyboard.
IdleTimer ==
    /\ MainLoop
    /\ armed
    /\ armed' = FALSE
    /\ idle_pending' = TRUE
    /\ UNCHANGED <<shown, n, idle, chr, guest>>

QemuKey ==
    /\ MainLoop
    /\ n < MaxQueue
    /\ n' = n + 1
    /\ UNCHANGED <<shown, idle, armed, idle_pending, chr, guest>>

Next ==
    \/ \E r \in Report : DaemonWrites(r)
    \/ Reconnect
    \/ \E k \in 1..BufSize : ChrRead(k)
    \/ StoreByte
    \/ ApplyReport
    \/ HandleData
    \/ GetReport
    \/ \E on \in IdleSetting : SetIdle(on)
    \/ HandleReset
    \/ HidFree
    \/ Migrate
    \/ IdleTimer
    \/ QemuKey

Spec == Init /\ [][Next]_vars

\* QEMU's main loop runs its handlers and timers, and the guest's host
\* controller polls the interrupt endpoint for as long as the guest runs.
\* Nobody is obliged to type at QEMU, to ask with GET_REPORT or to set a rate.
Fairness ==
    /\ WF_vars(\E k \in 1..BufSize : ChrRead(k))
    /\ WF_vars(StoreByte \/ ApplyReport)
    /\ WF_vars(IdleTimer)
    /\ WF_vars(HandleData)

FairSpec == Spec /\ Fairness
-----------------------------------------------------------------------------
(* Properties *)

\* Types; kbd_sock_buf never holds a whole report once it has been looked at,
\* so the loop's second condition never leaves a byte of the chunk behind.
TypeOK ==
    /\ conn \in Conn /\ cut \subseteq 1..conn
    /\ written \in [Conn -> Seq(Report)]
    /\ applied \in [Conn -> Seq(Report \cup {Garbled})]
    /\ received \in Nat /\ erased \in Int
    /\ size \in 0..BufSize /\ kbd_sock_len \in 0..ReportSize - 1
    /\ InFlight >= size
    /\ shown \in Report \cup {Garbled} /\ guest \in Report \cup {Garbled}
    /\ n \in 0..MaxQueue
    /\ idle \in BOOLEAN /\ armed \in BOOLEAN /\ idle_pending \in BOOLEAN

\* The ingest implements a record channel: however the socket's bytes are cut,
\* the reports applied are the reports written, whole, once each and in order.
\* What a connection had not delivered when it closed is lost.  Of one that began
\* behind half a report of another none is applied as it was written: the channel
\* promises nothing of it, and CutStaysGarbled says what is applied instead.
Channel == INSTANCE RecordChannel
               WITH Stream <- Conn, Record <- Report,
                    delivered <- [c \in Conn |-> IF c \in cut THEN <<>> ELSE applied[c]],
                    closed <- 1..conn - 1 \cup cut
ImplementsChannel == Channel!ChannelSpec

\* Behind half a report (dev-hid.c:618-633) the ingest never finds its step again:
\* whatever the guest is shown of that connection, however long it lasts, straddles
\* two reports, and only the next connection or a migration can end that.
CutStaysGarbled == \A c \in cut : applied[c] \in Seq({Garbled})

-----------------------------------------------------------------------------
(* A claim of the code's comments that the code does not keep *)

\* "Wake the interrupt endpoint so the guest polls and sees new data"
\* (qemu/dev-hid.c:604): a guest that keeps polling learns of new key state.
GuestSeesNewData == (guest # shown) ~> (guest = shown)
=============================================================================
