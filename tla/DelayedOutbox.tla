---------------------------- MODULE DelayedOutbox ----------------------------
(***************************************************************************)
(* The client's outboxes, DelayedUdpOutbox and DelayedQuicOutbox           *)
(* (client/hybrid_run.py), which stand in for a network with loss, delay   *)
(* and jitter: a payload is dropped or given a time to be sent at, waits   *)
(* in a heap, and is sent by the outbox's task.                            *)
(*                                                                         *)
(* The task pops one payload and sleeps until its time, and looks at the   *)
(* heap again only after that, so a payload that comes in meanwhile waits  *)
(* behind it even if it is due earlier.                                    *)
(*                                                                         *)
(* Time is in milliseconds and passes only when the event loop has nothing *)
(* left to do: tasks run within the millisecond in which they are due.     *)
(***************************************************************************)
EXTENDS Integers

CONSTANTS
    Box,        \* the outboxes
    Lossy,      \* those whose impairment drops payloads
    Base,       \* base_ms
    Jitter,     \* jitter_ms
    NoItem      \* what the task of an outbox holds while it waits on the heap

ASSUME LossAssumption == Lossy \subseteq Box
ASSUME DelayAssumption == Base \in Nat /\ Jitter \in Nat

VARIABLES
    now,        \* time.monotonic(), in ms
    pq,         \* _pq: the heap of each outbox
    sleeping,   \* the item the task has popped and not sent yet
    closed      \* _closed: outboxes that take no more

outbox == <<pq, sleeping, closed>>
-----------------------------------------------------------------------------
\* sample_delay_s: uniform over Base - Jitter .. Base + Jitter, never negative.
Delay == {d \in 0..Base + Jitter : d >= Base - Jitter}

\* The heap's order.  Two send times in one millisecond are in the order of the
\* payloads when both had the same delay, and in any order when they had not.
Sooner(i, j) == i.at < j.at \/ (i.at = j.at /\ (Jitter > 0 \/ i.n <= j.n))

OutboxInit ==
    /\ pq = [b \in Box |-> {}]
    /\ sleeping = [b \in Box |-> NoItem]
    /\ closed = {}

\* enqueue drops what it is offered.
Lose(b, reliable) ==
    /\ b \in Lossy /\ ~reliable
    /\ UNCHANGED outbox

\* enqueue takes payload p, the n-th offered to outbox b.
Push(b, n, p) ==
    /\ \E d \in Delay :
          pq' = [pq EXCEPT ![b] = @ \cup {[n |-> n, p |-> p, born |-> now, at |-> now + d]}]
    /\ UNCHANGED <<sleeping, closed>>

\* Faulty: pops the payload that is due last.
PopLatest(b) ==
    /\ sleeping[b] = NoItem
    /\ \E i \in pq[b] :
          /\ \A j \in pq[b] : Sooner(j, i)
          /\ sleeping' = [sleeping EXCEPT ![b] = i]
          /\ pq' = [pq EXCEPT ![b] = @ \ {i}]
    /\ UNCHANGED closed

\* Faulty: the task ends with close() and leaves the rest of the heap unsent.
PopUntilClosed(b) ==
    /\ sleeping[b] = NoItem
    /\ b \notin closed
    /\ \E i \in pq[b] :
          /\ \A j \in pq[b] : Sooner(i, j)
          /\ sleeping' = [sleeping EXCEPT ![b] = i]
          /\ pq' = [pq EXCEPT ![b] = @ \ {i}]
    /\ UNCHANGED closed

\* run: the task takes the first item of the heap.
Pop(b) ==
    /\ sleeping[b] = NoItem
    /\ \E i \in pq[b] :
          /\ \A j \in pq[b] : Sooner(i, j)
          /\ sleeping' = [sleeping EXCEPT ![b] = i]
          /\ pq' = [pq EXCEPT ![b] = @ \ {i}]
    /\ UNCHANGED closed

\* run: it is time to send what was popped; the caller says where it goes.
Emit(b) ==
    /\ sleeping[b] # NoItem
    /\ sleeping[b].at <= now
    /\ sleeping' = [sleeping EXCEPT ![b] = NoItem]
    /\ UNCHANGED <<pq, closed>>

CloseBox(b) ==
    /\ closed' = closed \cup {b}
    /\ UNCHANGED <<pq, sleeping>>

Emptied(b) == pq[b] = {} /\ sleeping[b] = NoItem

\* The task of b has something to do now.
BoxDue(b) ==
    \/ sleeping[b] = NoItem /\ pq[b] # {}
    \/ sleeping[b] # NoItem /\ sleeping[b].at <= now

-----------------------------------------------------------------------------
Held(b) == pq[b] \cup ({sleeping[b]} \ {NoItem})

\* The outbox keeps the delay it advertises, base_ms at most jitter_ms more: a
\* payload that waits behind a sleeping one is not held beyond it, because the
\* one that sleeps was enqueued before it or is due before it.
OnTime == \A b \in Box : \A i \in Held(b) : now <= i.born + Base + Jitter
=============================================================================
