------------------------------ MODULE PrefixSum ------------------------------
(***************************************************************************)
(* assignment-1/p4/my_solution.c: num ranks compute the prefix sums of     *)
(* their values with MPI_Send and MPI_Recv.  First up a tree: blocks of    *)
(* size ranks end in a rank that knows the sum of the block.  Then down:   *)
(* the end of a block tells the middle of the next one.                    *)
(*                                                                         *)
(* A sum is the count of how often it contains each rank's value, so that  *)
(* one behaviour stands for all values.  MPI_Send may copy the message and *)
(* return or may wait for its receive: here it copies while there is room. *)
(***************************************************************************)
EXTENDS Integers, FiniteSets

CONSTANTS
    MaxNum,     \* a bound: the number of ranks
    MaxRoom     \* a bound: the messages MPI has buffers for

ASSUME PrefixSumAssumption == MaxNum \in Nat \ {0} /\ MaxRoom \in Nat

VARIABLES
    num,        \* the number of ranks
    room,       \* how many messages MPI can buffer
    at,         \* each rank's place: step 1 (up) or step 2 (down), and jump
    val,        \* each rank's *val
    net         \* messages sent and not received

vars == <<num, room, at, val, net>>

Ranks == 0 .. num - 1

\* The loop of step 1, then that of step 2, from its test with this jump on.
Down(j) == [step |-> IF j >= 1 THEN "down" ELSE "done", jump |-> j]

\* Mutant of Up: step 2 starts a level too low.
UpHalf(j) == IF j < num THEN [step |-> "up", jump |-> j] ELSE Down(j \div 8)

Up(j) == IF j < num THEN [step |-> "up", jump |-> j] ELSE Down(j \div 4)

After(a) == IF a.step = "up" THEN Up(a.jump * 2) ELSE Down(a.jump \div 2)

\* Which ranks send and receive at a place, and to and from which distance.
AtMiddle(r, a) == r % (2 * a.jump) = a.jump - 1
AtEnd(r, a)    == r % (2 * a.jump) = 2 * a.jump - 1

Sends(r, a) ==
    /\ \/ a.step = "up" /\ AtMiddle(r, a)
       \/ a.step = "down" /\ AtEnd(r, a)
    /\ r + a.jump < num

\* Mutant of Receives: the first block waits for a message nobody sends it.
ReceivesAlways(r, a) ==
    \/ a.step = "up" /\ AtEnd(r, a)
    \/ a.step = "down" /\ AtMiddle(r, a)

Receives(r, a) ==
    \/ a.step = "up" /\ AtEnd(r, a)
    \/ a.step = "down" /\ AtMiddle(r, a) /\ r - a.jump >= 0

\* A rank goes on at once through the turns in which it has no message.
Turns == [step : {"up", "down"}, jump : 1..num]
             \cup {[step |-> "done", jump |-> 0]}

Arrive(r, a) ==
    LET stop[b \in Turns] == IF b.step = "done" \/ Sends(r, b) \/ Receives(r, b)
                            THEN b ELSE stop[After(b)]
    IN  stop[a]

Init ==
    /\ num \in 1..MaxNum
    /\ room \in 0..MaxRoom
    /\ at = [r \in Ranks |-> Arrive(r, Up(1))]
    /\ val = [r \in Ranks |-> [s \in Ranks |-> IF s = r THEN 1 ELSE 0]]
    /\ net = {}

GoOn(R) == at' = [r \in Ranks |-> IF r \in R THEN Arrive(r, After(at[r])) ELSE at[r]]

\* Mutant of Add: the value that comes replaces the rank's own.
AddOver(r, v) == val' = [val EXCEPT ![r] = v]

Add(r, v) == val' = [val EXCEPT ![r] = [s \in Ranks |-> val[r][s] + v[s]]]
-----------------------------------------------------------------------------
\* MPI_Send that copies the message.
Send(r) ==
    /\ Sends(r, at[r])
    /\ Cardinality(net) < room
    /\ net' = net \cup {[from |-> r, to |-> r + at[r].jump, v |-> val[r]]}
    /\ GoOn({r})
    /\ UNCHANGED <<num, room, val>>

Recv(r) ==
    /\ Receives(r, at[r])
    /\ \E m \in net :
           /\ m.from = r - at[r].jump /\ m.to = r
           /\ net' = net \ {m}
           /\ Add(r, m.v)
    /\ GoOn({r})
    /\ UNCHANGED <<num, room>>

\* MPI_Send that waits for its MPI_Recv: both calls return.
SendRecv(r, to) ==
    /\ Sends(r, at[r]) /\ to = r + at[r].jump
    /\ Receives(to, at[to]) /\ r = to - at[to].jump
    /\ \A m \in net : ~(m.from = r /\ m.to = to)
    /\ Add(to, val[r])
    /\ GoOn({r, to})
    /\ UNCHANGED <<num, room, net>>

AllDone == \A r \in Ranks : at[r].step = "done"

\* MPI_Barrier and MPI_Finalize, once every rank is there.
Finalize == AllDone /\ UNCHANGED vars

Next == \/ \E r \in Ranks : Send(r) \/ Recv(r)
        \/ \E r, to \in Ranks : SendRecv(r, to)
        \/ Finalize

\* The ranks run, and MPI moves a message that has a sender and a receiver.
Spec == Init /\ [][Next]_vars /\ WF_vars(Next)
-----------------------------------------------------------------------------
\* Turns and messages are those of the program.
TypeOK ==
    /\ num \in 1..MaxNum /\ room \in 0..MaxRoom
    /\ at \in [Ranks -> [step : {"up", "down", "done"}, jump : 0..MaxNum]]
    /\ val \in [Ranks -> [Ranks -> 0..1]]
    /\ net \subseteq [from : Ranks, to : Ranks, v : [Ranks -> 0..1]]

\* When a rank is done its value is the sum of the values of ranks 0 to its
\* own, each once: what the exercise asks for and mpi_scan.c gets from MPI_Scan.
PrefixSums ==
    \A r \in Ranks : at[r].step = "done" =>
        val[r] = [s \in Ranks |-> IF s <= r THEN 1 ELSE 0]

\* At any moment a value, in a rank or on its way, is the sum of a whole run
\* of ranks that ends at its own; all else is in its type.
SumsAreRuns ==
    LET IsRun(v, r) == \E from \in 0..r :
                           v = [s \in Ranks |-> IF s \in from..r THEN 1 ELSE 0]
    IN  /\ TypeOK
        /\ \A r \in Ranks : IsRun(val[r], r)
        /\ \A m \in net : IsRun(m.v, m.from)

\* Every rank gets through, however little MPI buffers: no cycle of sends that
\* wait, no receive without its send and, with no buffer at all, no send
\* without its receive.
Terminates == <>AllDone
=============================================================================
