---------------------------- MODULE RequestQueue ----------------------------
(***************************************************************************)
(* request_queue.c: a ring of REQUEST_QUEUE_SIZE slots between the thread  *)
(* that accepts connections and the workers.  One slot stays free, so that *)
(* front = rear means empty.                                               *)
(*                                                                         *)
(* push and pop run under the mutex up to pthread_cond_wait or to its      *)
(* release, in one step each; they signal after they have released it, in  *)
(* a later step.  A thread that wakes tests its condition again.           *)
(***************************************************************************)
EXTENDS Integers, FiniteSets, Sequences

CONSTANTS Producers, Consumers, Requests, REQUEST_QUEUE_SIZE, NULL

ASSUME QueueAssumption ==
    /\ IsFiniteSet(Producers) /\ IsFiniteSet(Consumers)
    /\ Producers \cap Consumers = {}
    /\ REQUEST_QUEUE_SIZE \in Nat /\ REQUEST_QUEUE_SIZE > 1
    /\ NULL \notin Requests

Threads == Producers \cup Consumers
Slots   == 0 .. REQUEST_QUEUE_SIZE - 1

VARIABLES
    reqs, front, rear,  \* the fields of struct request_queue
    pc,                 \* where each thread is in push or pop
    item                \* the argument of push, the request pop hands back

fields == <<reqs, front, rear>>
vars   == <<reqs, front, rear, pc, item>>

Init ==
    /\ reqs = [s \in Slots |-> NULL]
    /\ front = 0
    /\ rear = 0
    /\ pc = [t \in Threads |-> "out"]
    /\ item = [t \in Threads |-> NULL]

Succ(i) == (i + 1) % REQUEST_QUEUE_SIZE

At(place) == {t \in Threads : pc[t] = place}
Goto(t, place) == pc' = [pc EXCEPT ![t] = place]
-----------------------------------------------------------------------------
\* Mutants of TryPush: a full ring is not looked for, or only the push into an
\* empty ring signals.
TryPushOver(p, r) ==
    /\ reqs' = [reqs EXCEPT ![rear] = r]
    /\ rear' = Succ(rear)
    /\ Goto(p, "signal_notempty")
    /\ UNCHANGED front

TryPushSignalFirst(p, r) ==
    \/ /\ Succ(rear) = front
       /\ Goto(p, "push_wait")
       /\ UNCHANGED fields
    \/ /\ Succ(rear) # front
       /\ reqs' = [reqs EXCEPT ![rear] = r]
       /\ rear' = Succ(rear)
       /\ Goto(p, IF front = rear THEN "signal_notempty" ELSE "out")
       /\ UNCHANGED front

\* One pass of the loop of push, with the mutex: wait, or store and release.
TryPush(p, r) ==
    \/ /\ Succ(rear) = front
       /\ Goto(p, "push_wait")
       /\ UNCHANGED fields
    \/ /\ Succ(rear) # front
       /\ reqs' = [reqs EXCEPT ![rear] = r]
       /\ rear' = Succ(rear)
       /\ Goto(p, "signal_notempty")
       /\ UNCHANGED front

TryPop(c) ==
    \/ /\ front = rear
       /\ Goto(c, "pop_wait")
       /\ UNCHANGED <<fields, item>>
    \/ /\ front # rear
       /\ item' = [item EXCEPT ![c] = reqs[front]]
       /\ front' = Succ(front)
       /\ Goto(c, "signal_notfull")
       /\ UNCHANGED <<reqs, rear>>

Push(p, r) ==
    /\ pc[p] = "out"
    /\ item' = [item EXCEPT ![p] = r]
    /\ TryPush(p, r)

PushAgain(p) ==
    /\ pc[p] = "push_woken"
    /\ TryPush(p, item[p])
    /\ UNCHANGED item

Pop(c) == pc[c] = "out" /\ TryPop(c)

PopAgain(c) == pc[c] = "pop_woken" /\ TryPop(c)

\* pthread_cond_signal after the mutex is released: it wakes one thread that
\* waits at wait, any of them, or none.
Signal(t, place, wait, woken) ==
    /\ pc[t] = place
    /\ \E w \in IF At(wait) = {} THEN {t} ELSE At(wait) :
           pc' = [pc EXCEPT ![w] = woken, ![t] = "out"]
    /\ UNCHANGED <<fields, item>>

SignalNotEmpty(p) == Signal(p, "signal_notempty", "pop_wait", "pop_woken")

\* Mutant of SignalNotFull: pop signals the condition variable of pop.
SignalOtherPop(c) == Signal(c, "signal_notfull", "pop_wait", "pop_woken")

SignalNotFull(c) == Signal(c, "signal_notfull", "push_wait", "push_woken")

\* POSIX lets pthread_cond_wait return though nobody signalled.
SpuriousWake(t) ==
    /\ \/ pc[t] = "push_wait" /\ Goto(t, "push_woken")
       \/ pc[t] = "pop_wait" /\ Goto(t, "pop_woken")
    /\ UNCHANGED <<fields, item>>

\* The rest of a push, or of a pop, that has begun.
Finish(t) == \/ PushAgain(t) \/ SignalNotEmpty(t)
             \/ PopAgain(t) \/ SignalNotFull(t)

Next ==
    \/ \E p \in Producers, r \in Requests : Push(p, r)
    \/ \E c \in Consumers : Pop(c)
    \/ \E t \in Threads : Finish(t) \/ SpuriousWake(t)

Safety == Init /\ [][Next]_vars

\* The workers call pop for ever; a thread inside a call goes on with it.
Spec == /\ Safety
        /\ \A c \in Consumers : WF_vars(Pop(c))
        /\ \A t \in Threads : WF_vars(Finish(t))
-----------------------------------------------------------------------------
Size == (rear - front) % REQUEST_QUEUE_SIZE

\* The requests in the ring, oldest first.
Contents == [i \in 1..Size |-> reqs[(front + i - 1) % REQUEST_QUEUE_SIZE]]

Places == {"out", "push_wait", "push_woken", "pop_wait", "pop_woken",
           "signal_notempty", "signal_notfull"}

\* Indices name slots, and each thread is inside a call of its own kind.
TypeOK ==
    /\ reqs \in [Slots -> Requests \cup {NULL}]
    /\ front \in Slots /\ rear \in Slots
    /\ pc \in [Threads -> Places]
    /\ item \in [Threads -> Requests \cup {NULL}]
    /\ \A p \in Producers :
           pc[p] \in {"out", "push_wait", "push_woken", "signal_notempty"}
    /\ \A c \in Consumers :
           pc[c] \in {"out", "pop_wait", "pop_woken", "signal_notfull"}

\* The types hold, and no wakeup is lost though signals come late.  While a
\* worker waits, each request in the ring has a signal on its way or a worker
\* awake for it, and while a push waits, so has each slot that is free.
NoLostWakeup ==
    /\ TypeOK
    /\ At("pop_wait") # {} =>
           Size <= Cardinality(At("signal_notempty"))
                     + Cardinality(At("pop_woken"))
    /\ At("push_wait") # {} =>
           REQUEST_QUEUE_SIZE - 1 - Size
               <= Cardinality(At("signal_notfull"))
                    + Cardinality(At("push_woken"))

\* A push that waits for a slot does get one while there is one producer, as
\* in the web server.
PushProgress == \A p \in Producers : (pc[p] = "push_wait") ~> (pc[p] = "out")

Q == INSTANCE BoundedFIFO WITH queue <- Contents, hand <- item,
                               Capacity <- REQUEST_QUEUE_SIZE - 1

\* The ring is a first-in first-out queue of REQUEST_QUEUE_SIZE - 1 places:
\* no request is lost, duplicated, reordered or handed to two workers, and
\* none stays in the ring for ever.
IsFIFO == Q!Spec

\* Its safety part: each step is one of the abstract queue or none.
FIFOSafety == Q!Safety
=============================================================================
