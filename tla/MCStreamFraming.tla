--------------------------- MODULE MCStreamFraming ---------------------------
(* Model values for StreamFraming.                                         *)
EXTENDS StreamFraming, TLC
=============================================================================
