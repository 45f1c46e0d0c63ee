---------------------------- MODULE HidDescriptors ----------------------------
(***************************************************************************)
(* The descriptor tables of QEMU's HID devices (qemu/dev-hid.c), what a    *)
(* guest's driver reads out of a report descriptor, and the layout of the  *)
(* keyboard report on its way from the daemon to that driver.              *)
(*                                                                         *)
(* Strings, class codes and power are left out: no guest decision that the *)
(* properties are about rests on them.                                     *)
(***************************************************************************)
EXTENDS Integers, Sequences, SequencesExt

Kind == {"mouse", "tablet", "keyboard"}
Speed == {"full", "high"}
-----------------------------------------------------------------------------
(* Interfaces, devices *)

\* USBDescIface with its HID descriptor and its only endpoint, IN 1.
Interface(boot, len, packet, interval) ==
    [boot |-> boot, len |-> len, wMaxPacketSize |-> packet, bInterval |-> interval]

desc_iface_mouse == [full |-> Interface(TRUE, 52, 4, 10), high |-> Interface(TRUE, 52, 4, 7)]

desc_iface_tablet == [full |-> Interface(FALSE, 74, 8, 10), high |-> Interface(FALSE, 74, 8, 4)]

desc_iface_keyboard == [full |-> Interface(TRUE, 63, 8, 10), high |-> Interface(TRUE, 63, 8, 7)]

\* USBDescDevice: one configuration with one interface, able to wake the host.
desc_device(kind, speed) ==
    LET iface == [mouse |-> desc_iface_mouse, tablet |-> desc_iface_tablet,
                  keyboard |-> desc_iface_keyboard]
    IN  [bMaxPacketSize0 |-> IF speed = "full" THEN 8 ELSE 64,
         wakeup |-> TRUE,
         interface |-> iface[kind][speed]]

\* USBDesc: the speeds that desc_<kind> (usb_version 1) and desc_<kind>2 have a device for.
usb_desc(usb_version) == IF usb_version = 2 THEN Speed ELSE {"full"}

-----------------------------------------------------------------------------
(* Report descriptors.  An item is its tag and its data bytes, so that Len is *)
(* its length on the wire.                                                    *)

qemu_mouse_hid_report_descriptor == <<
    <<"UsagePage", 1>>, <<"Usage", 2>>, <<"Collection", 1>>, <<"Usage", 1>>, <<"Collection", 0>>,
    <<"UsagePage", 9>>, <<"UsageMinimum", 1>>, <<"UsageMaximum", 5>>,
    <<"LogicalMinimum", 0>>, <<"LogicalMaximum", 1>>,
    <<"ReportCount", 5>>, <<"ReportSize", 1>>, <<"Input", 2>>,
    <<"ReportCount", 1>>, <<"ReportSize", 3>>, <<"Input", 1>>,
    <<"UsagePage", 1>>, <<"Usage", 48>>, <<"Usage", 49>>, <<"Usage", 56>>,
    <<"LogicalMinimum", 129>>, <<"LogicalMaximum", 127>>,
    <<"ReportSize", 8>>, <<"ReportCount", 3>>, <<"Input", 6>>,
    <<"EndCollection">>, <<"EndCollection">> >>

qemu_tablet_hid_report_descriptor == <<
    <<"UsagePage", 1>>, <<"Usage", 2>>, <<"Collection", 1>>, <<"Usage", 1>>, <<"Collection", 0>>,
    <<"UsagePage", 9>>, <<"UsageMinimum", 1>>, <<"UsageMaximum", 3>>,
    <<"LogicalMinimum", 0>>, <<"LogicalMaximum", 1>>,
    <<"ReportCount", 3>>, <<"ReportSize", 1>>, <<"Input", 2>>,
    <<"ReportCount", 1>>, <<"ReportSize", 5>>, <<"Input", 1>>,
    <<"UsagePage", 1>>, <<"Usage", 48>>, <<"Usage", 49>>,
    <<"LogicalMinimum", 0>>, <<"LogicalMaximum", 255, 127>>,
    <<"PhysicalMinimum", 0>>, <<"PhysicalMaximum", 255, 127>>,
    <<"ReportSize", 16>>, <<"ReportCount", 2>>, <<"Input", 2>>,
    <<"UsagePage", 1>>, <<"Usage", 56>>, <<"LogicalMinimum", 129>>, <<"LogicalMaximum", 127>>,
    <<"PhysicalMinimum", 0>>, <<"PhysicalMaximum", 0>>,
    <<"ReportSize", 8>>, <<"ReportCount", 1>>, <<"Input", 6>>,
    <<"EndCollection">>, <<"EndCollection">> >>

qemu_keyboard_hid_report_descriptor == <<
    <<"UsagePage", 1>>, <<"Usage", 6>>, <<"Collection", 1>>,
    <<"ReportSize", 1>>, <<"ReportCount", 8>>,
    <<"UsagePage", 7>>, <<"UsageMinimum", 224>>, <<"UsageMaximum", 231>>,
    <<"LogicalMinimum", 0>>, <<"LogicalMaximum", 1>>, <<"Input", 2>>,
    <<"ReportCount", 1>>, <<"ReportSize", 8>>, <<"Input", 1>>,
    <<"ReportCount", 5>>, <<"ReportSize", 1>>,
    <<"UsagePage", 8>>, <<"UsageMinimum", 1>>, <<"UsageMaximum", 5>>, <<"Output", 2>>,
    <<"ReportCount", 1>>, <<"ReportSize", 3>>, <<"Output", 1>>,
    <<"ReportCount", 6>>, <<"ReportSize", 8>>,
    <<"LogicalMinimum", 0>>, <<"LogicalMaximum", 255>>,
    <<"UsagePage", 7>>, <<"UsageMinimum", 0>>, <<"UsageMaximum", 255>>, <<"Input", 0>>,
    <<"EndCollection">> >>

report_descriptor ==
    [mouse |-> qemu_mouse_hid_report_descriptor,
     tablet |-> qemu_tablet_hid_report_descriptor,
     keyboard |-> qemu_keyboard_hid_report_descriptor]

-----------------------------------------------------------------------------
(* The guest's parser, by the rules of the HID class *)

\* Bytes of the first i items.
Offset(items) ==
    LET sum[i \in 0..Len(items)] == IF i = 0 THEN 0 ELSE sum[i - 1] + Len(items[i])
    IN  sum

\* The items that lie wholly within the first len bytes.
Truncated(items, len) ==
    SubSeq(items, 1, CHOOSE i \in 0..Len(items) :
                        /\ Offset(items)[i] <= len
                        /\ i < Len(items) => Offset(items)[i + 1] > len)

\* Global and local items describe the fields of the main items that follow; local
\* ones, only those of the next.
Described == [page |-> 0, low |-> 0, size |-> 0, count |-> 0, Input |-> <<>>, Output |-> <<>>]

\* flags bit 0: constant; bit 1: one bit or number per usage, else an array of usages.
Field(st, flags) ==
    [page |-> st.page, low |-> st.low, size |-> st.size, count |-> st.count,
     constant |-> flags % 2 = 1, array |-> flags \div 2 % 2 = 0]

ParseItem(st, item) ==
    LET tag == item[1] IN
    CASE tag \in {"Input", "Output"} ->
            [st EXCEPT ![tag] = Append(@, Field(st, item[2])), !.low = 0]
      [] tag = "UsagePage" -> [st EXCEPT !.page = item[2]]
      [] tag \in {"Usage", "UsageMinimum"} -> [st EXCEPT !.low = item[2]]
      [] tag = "ReportSize" -> [st EXCEPT !.size = item[2]]
      [] tag = "ReportCount" -> [st EXCEPT !.count = item[2]]
      [] OTHER -> st

Parse(items) == FoldLeft(ParseItem, Described, items)

\* The first bit of each field, and after the last one.
FirstBit(fields) ==
    LET bit[i \in 1..Len(fields) + 1] ==
            IF i = 1 THEN 0 ELSE bit[i - 1] + fields[i - 1].size * fields[i - 1].count
    IN  bit

Bits(fields) == FirstBit(fields)[Len(fields) + 1]

\* What a driver makes of a report with these fields: the usages that are on, each
\* with its page.
Decode(fields, report) ==
    UNION { LET f == fields[i]
                value(j) == LET bit == FirstBit(fields)[i] + j * f.size
                            IN  report[bit \div 8 + 1] \div 2^(bit % 8) % 2^f.size
            IN  IF f.array
                THEN {<<f.page, f.low + value(j)>> : j \in {k \in 0..f.count - 1 : value(k) # 0}}
                ELSE {<<f.page, f.low + j>> : j \in {k \in 0..f.count - 1 : value(k) # 0}}
            : i \in {k \in 1..Len(fields) : ~fields[k].constant} }

-----------------------------------------------------------------------------
(* The keyboard report on its way *)

KeyPage == 7

\* The layout of a boot keyboard's report: eight modifier bits, a reserved byte and six
\* slots.
BootFields ==
    << [page |-> KeyPage, low |-> 224, size |-> 1, count |-> 8,
        constant |-> FALSE, array |-> FALSE],
       [page |-> KeyPage, low |-> 0, size |-> 8, count |-> 1,
        constant |-> TRUE, array |-> TRUE],
       [page |-> KeyPage, low |-> 0, size |-> 8, count |-> 6,
        constant |-> FALSE, array |-> TRUE] >>

\* build_hid_report: modifiers, a reserved byte and six slots.
build_hid_report(pressed_usages, modifiers) ==
    [i \in 1..8 |-> IF i = 1 THEN modifiers
                    ELSE IF i - 2 \in 1..Len(pressed_usages) THEN pressed_usages[i - 2]
                    ELSE 0]

\* The loop of usb_hid_kbd_apply_report: the slots that are not empty, in order.
Codes(rep, first) ==
    LET key[i \in 0..6] ==
            IF i = 0 THEN <<>>
            ELSE IF rep[first + i - 1] = 0 THEN key[i - 1]
            ELSE Append(key[i - 1], rep[first + i - 1])
    IN  key[6]

\* Faulty: the reserved byte is taken for a key and the last one is lost.
KeyStateShifted(rep) == [modifiers |-> rep[1], key |-> Codes(rep, 2)]

\* usb_hid_kbd_apply_report: the slots that are not empty move together.
KeyState(rep) == [modifiers |-> rep[1], key |-> Codes(rep, 3)]

\* hid_keyboard_poll: the report the guest reads.
Polled(state) == build_hid_report(state.key, state.modifiers)

\* What the daemon meant by a report: the modifier of each bit, and the keys.
Meant(rep) ==
    {<<KeyPage, 224 + m>> : m \in {k \in 0..7 : rep[1] \div 2^k % 2 = 1}}
        \cup {<<KeyPage, rep[i]>> : i \in {k \in 3..8 : rep[k] # 0}}
=============================================================================
