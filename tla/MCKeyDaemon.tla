----------------------------- MODULE MCKeyDaemon -----------------------------
(* Model values for KeyDaemon.                                             *)
EXTENDS KeyDaemon, TLC
=============================================================================
