----------------------------- MODULE BoundedFIFO -----------------------------
(***************************************************************************)
(* What the request queue of assignment-2/p3 promises: a first-in          *)
(* first-out queue of at most Capacity requests.                           *)
(***************************************************************************)
EXTENDS Integers, Sequences

CONSTANTS Producers, Consumers, Requests, Capacity

VARIABLES
    queue,      \* the requests, oldest first
    hand        \* the request a thread brings to the queue or took from it

Init == queue = <<>>

\* A producer comes with a request it cannot put yet.
Bring(p, r) ==
    /\ hand' = [hand EXCEPT ![p] = r]
    /\ UNCHANGED queue

Put(p, r) ==
    /\ Len(queue) < Capacity
    /\ queue' = Append(queue, r)
    /\ hand' = [hand EXCEPT ![p] = r]

Take(c) ==
    /\ queue # <<>>
    /\ hand' = [hand EXCEPT ![c] = Head(queue)]
    /\ queue' = Tail(queue)

Next ==
    \/ \E p \in Producers, r \in Requests : Bring(p, r) \/ Put(p, r)
    \/ \E c \in Consumers : Take(c)

Safety == Init /\ [][Next]_<<queue, hand>>

\* A request that is in the queue does not stay there for ever.
Spec == Safety /\ WF_<<queue, hand>>(\E c \in Consumers : Take(c))
=============================================================================
