---------------------------- MODULE RecordChannel ----------------------------
(***************************************************************************)
(* What a framed byte stream promises the code above it: on each stream,   *)
(* whole records, each once, in the order they were written.  A stream may *)
(* close at any time; what it has not delivered by then is lost.           *)
(***************************************************************************)
EXTENDS Naturals, Sequences

CONSTANTS Stream, Record

VARIABLES written,      \* records the client has written to each stream
          delivered,    \* records handed to the callback, per stream
          closed        \* streams that deliver no more

chan == <<written, delivered, closed>>

ChannelInit ==
    /\ written = [s \in Stream |-> <<>>]
    /\ delivered = [s \in Stream |-> <<>>]
    /\ closed = {}

ChannelWrite(s, r) ==
    /\ written' = [written EXCEPT ![s] = Append(@, r)]
    /\ UNCHANGED <<delivered, closed>>

ChannelDeliver(s) ==
    /\ s \notin closed
    /\ Len(delivered[s]) < Len(written[s])
    /\ delivered' = [delivered EXCEPT ![s] = Append(@, written[s][Len(@) + 1])]
    /\ UNCHANGED <<written, closed>>

ChannelClose(C) ==
    /\ closed' = closed \cup C
    /\ UNCHANGED <<written, delivered>>

ChannelNext ==
    \/ \E s \in Stream, r \in Record : ChannelWrite(s, r)
    \/ \E s \in Stream : ChannelDeliver(s)
    \/ \E C \in SUBSET Stream : ChannelClose(C)

ChannelSpec == ChannelInit /\ [][ChannelNext]_chan
=============================================================================
