---------------------------- MODULE MCMsQuicServer ----------------------------
(* Model values for MsQuicServer: the snapshot server and the edge server. *)
EXTENDS MsQuicServer, TLC

TwoServers == <<"quicServer", "quicEdges">>
=============================================================================
