------------------------------ MODULE MCQuicKeys ------------------------------
(* Model values for QuicKeys.                                              *)
EXTENDS QuicKeys, TLC

CONSTANT a

OneKey == <<a>>
=============================================================================
