---------------------------- MODULE StreamFraming ----------------------------
(***************************************************************************)
(* Fixed-size records over QUIC streams: MsQuicServer::stream_cb and its   *)
(* StreamCtx (daemon/src/msquic_server.cpp).                               *)
(*                                                                         *)
(* QUIC delivers each stream's bytes reliably and in order, cut into       *)
(* RECEIVE events at arbitrary places.  The callback appends an event's    *)
(* bytes to the stream's pending buffer, then hands every whole record to  *)
(* on_message, one at a time, and erases it.                               *)
(*                                                                         *)
(* A byte is its position in the stream, so the pending buffer is the      *)
(* interval of positions that were appended and not yet erased.            *)
(***************************************************************************)
EXTENDS Integers, Sequences

CONSTANTS
    Stream,         \* the streams peers open
    Record,         \* what a record may say
    Garbled,        \* bytes that are not one written record
    RecordSize,     \* record_size_: 52 for snapshots, 16 for edges
    MaxWrites       \* bound: records written to a stream

ASSUME RecordAssumption == Garbled \notin Record
ASSUME SizeAssumption == RecordSize \in Nat \ {0} /\ MaxWrites \in Nat

VARIABLES
    written,    \* records the client has written to each stream
    finished,   \* streams the client has ended (FIN)
    received,   \* bytes of each stream that RECEIVE events have brought
    erased,     \* bytes erased from the front of the pending buffer
    delivered,  \* history: what on_message was given, per stream
    stage       \* of each stream's callback

vars == <<written, finished, received, erased, delivered, stage>>
-----------------------------------------------------------------------------
\* sctx->pending.size()
Pending(s) == received[s] - erased[s]

\* Bytes of the stream that are still on their way.
InFlight(s) == RecordSize * Len(written[s]) - received[s]

\* The record that RecordSize bytes from position first + 1 spell.
RecordAt(s, first) ==
    IF first % RecordSize = 0
    THEN written[s][first \div RecordSize + 1]
    ELSE Garbled

Init ==
    /\ written = [s \in Stream |-> <<>>]
    /\ finished = {}
    /\ received = [s \in Stream |-> 0]
    /\ erased = [s \in Stream |-> 0]
    /\ delivered = [s \in Stream |-> <<>>]
    /\ stage = [s \in Stream |-> "open"]

-----------------------------------------------------------------------------
\* The client writes a whole record, or ends the stream.
Write(s, r) ==
    /\ s \notin finished
    /\ Len(written[s]) < MaxWrites
    /\ written' = [written EXCEPT ![s] = Append(@, r)]
    /\ UNCHANGED <<finished, received, erased, delivered, stage>>

Finish(s) ==
    /\ s \notin finished
    /\ finished' = finished \cup {s}
    /\ UNCHANGED <<written, received, erased, delivered, stage>>

\* RECEIVE: the buffers of the event, n bytes in all, go to the end of pending.
Receive(s, n) ==
    /\ stage[s] = "open"
    /\ n <= InFlight(s)
    /\ received' = [received EXCEPT ![s] = @ + n]
    /\ stage' = [stage EXCEPT ![s] = "framing"]
    /\ UNCHANGED <<written, finished, erased, delivered>>

\* Faulty: takes the size test's boundary for an incomplete record.
FrameAboveSize(s) ==
    /\ stage[s] = "framing"
    /\ Pending(s) > RecordSize
    /\ delivered' = [delivered EXCEPT ![s] = Append(@, RecordAt(s, erased[s]))]
    /\ erased' = [erased EXCEPT ![s] = @ + RecordSize]
    /\ UNCHANGED <<written, finished, received, stage>>

\* Faulty: leaves a record's last byte in the buffer.
FrameErasesShort(s) ==
    /\ stage[s] = "framing"
    /\ Pending(s) >= RecordSize
    /\ delivered' = [delivered EXCEPT ![s] = Append(@, RecordAt(s, erased[s]))]
    /\ erased' = [erased EXCEPT ![s] = @ + RecordSize - 1]
    /\ UNCHANGED <<written, finished, received, stage>>

\* Faulty: erases a record before it is complete.
FrameUnchecked(s) ==
    /\ stage[s] = "framing"
    /\ delivered' = [delivered EXCEPT ![s] = Append(@, RecordAt(s, erased[s]))]
    /\ erased' = [erased EXCEPT ![s] = @ + RecordSize]
    /\ UNCHANGED <<written, finished, received, stage>>

\* One turn of the framing loop: on_message gets the first RecordSize bytes.
Frame(s) ==
    /\ stage[s] = "framing"
    /\ Pending(s) >= RecordSize
    /\ delivered' = [delivered EXCEPT ![s] = Append(@, RecordAt(s, erased[s]))]
    /\ erased' = [erased EXCEPT ![s] = @ + RecordSize]
    /\ UNCHANGED <<written, finished, received, stage>>

\* Faulty: one record per event.
FramedEarly(s) ==
    /\ stage[s] = "framing"
    /\ stage' = [stage EXCEPT ![s] = "open"]
    /\ UNCHANGED <<written, finished, received, erased, delivered>>

\* The loop ends: less than a record is left.
Framed(s) ==
    /\ stage[s] = "framing"
    /\ Pending(s) < RecordSize
    /\ stage' = [stage EXCEPT ![s] = "open"]
    /\ UNCHANGED <<written, finished, received, erased, delivered>>

\* StreamClose and delete sctx: the pending bytes are gone.
Close(s) ==
    /\ stage[s] = "open"
    /\ stage' = [stage EXCEPT ![s] = "closed"]
    /\ UNCHANGED <<written, finished, received, erased, delivered>>

\* PEER_SEND_SHUTDOWN, which follows the last byte of a stream that was ended.
PeerSendShutdown(s) ==
    /\ s \in finished
    /\ InFlight(s) = 0
    /\ Close(s)

\* SHUTDOWN_COMPLETE of a stream whose connection is gone, at any time.
ShutdownComplete(s) == Close(s)

Next ==
    \E s \in Stream :
        \/ \E r \in Record : Write(s, r)
        \/ Finish(s)
        \/ \E n \in 1..RecordSize * MaxWrites : Receive(s, n)
        \/ Frame(s)
        \/ Framed(s)
        \/ PeerSendShutdown(s)
        \/ ShutdownComplete(s)

Spec == Init /\ [][Next]_vars

\* The transport brings what was written, and the callback loop runs to its end.
Fairness ==
    \A s \in Stream :
        /\ WF_vars(\E n \in 1..RecordSize * MaxWrites : Receive(s, n))
        /\ WF_vars(Frame(s))
        /\ WF_vars(Framed(s))

FairSpec == Spec /\ Fairness
-----------------------------------------------------------------------------
(* Properties *)

\* Types; the buffer never shrinks below empty nor outruns what was written.
TypeOK ==
    /\ written \in [Stream -> Seq(Record)]
    /\ finished \subseteq Stream
    /\ received \in [Stream -> Nat] /\ erased \in [Stream -> Nat]
    /\ delivered \in [Stream -> Seq(Record \cup {Garbled})]
    /\ stage \in [Stream -> {"open", "framing", "closed"}]
    /\ \A s \in Stream : Pending(s) >= 0 /\ InFlight(s) >= 0

\* Framing implements the record channel: however the bytes are cut, on_message
\* gets the written records, whole, once each and in order, on every stream.
Channel == INSTANCE RecordChannel
               WITH closed <- {s \in Stream : stage[s] = "closed"}
ImplementsChannel == Channel!ChannelSpec

\* Outside the loop no whole record waits in the buffer: the last record of a
\* burst is not held back until the next one comes.
NothingHeldBack == \A s \in Stream : stage[s] # "framing" => Pending(s) < RecordSize

\* A stream that its client ended in good order has had everything delivered by
\* the time its context is deleted.
OrderlyCloseDelivers ==
    [][\A s \in Stream : PeerSendShutdown(s) => delivered[s] = written[s]]_vars

\* Every record written to a stream that stays open is delivered.
EverythingDelivered ==
    \A s \in Stream, n \in 1..MaxWrites :
        Len(written[s]) >= n ~> (stage[s] = "closed" \/ Len(delivered[s]) >= n)
=============================================================================
