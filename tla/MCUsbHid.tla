------------------------------- MODULE MCUsbHid -------------------------------
(* Instances of UsbHid: two reports, and one device of every kind, version and port. *)
EXTENDS UsbHid

Nothing == build_hid_report(<<>>, 0)
ShiftedKeys == build_hid_report(<<4, 40, 5, 6, 7, 8>>, 34)
Reports == {Nothing, ShiftedKeys}

Options ==
    { [kind |-> "keyboard", usb_version |-> 2, chardev |-> TRUE, port |-> "high"],
      [kind |-> "keyboard", usb_version |-> 1, chardev |-> FALSE, port |-> "high"],
      [kind |-> "keyboard", usb_version |-> 3, chardev |-> TRUE, port |-> "high"] }
    \cup [kind : {"mouse", "tablet"}, usb_version : {1, 2}, chardev : {FALSE}, port : Speed]
=============================================================================
