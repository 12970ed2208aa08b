------------------------------- MODULE KeySet -------------------------------
(***************************************************************************)
(* What the shared list of assignment-2/p2 promises: a set of keys whose   *)
(* operations take effect at once, each at some moment between its call    *)
(* and its return.  The comments of Insert and Delete say what they        *)
(* return: 1 when they changed the set, else 0; Member tells whether the   *)
(* key is there.                                                           *)
(***************************************************************************)
EXTENDS Integers

CONSTANTS Procs, Keys

VARIABLES
    set,    \* the keys in the list
    call    \* the last call of each process and what it returned

\* The return value of a call that has not returned.
Unset == -1

None == [op |-> "none", key |-> 0, rv |-> 0]

Ops == {"member", "insert", "delete"}

Init == set = {} /\ call = [p \in Procs |-> None]

Call(p, op, key) ==
    /\ call[p].rv # Unset
    /\ call' = [call EXCEPT ![p] = [op |-> op, key |-> key, rv |-> Unset]]
    /\ UNCHANGED set

Return(p, rv) == call' = [call EXCEPT ![p].rv = rv]

Member(p) ==
    /\ call[p].op = "member"
    /\ Return(p, IF call[p].key \in set THEN 1 ELSE 0)
    /\ UNCHANGED set

Insert(p) ==
    /\ call[p].op = "insert"
    /\ Return(p, IF call[p].key \in set THEN 0 ELSE 1)
    /\ set' = set \cup {call[p].key}

Delete(p) ==
    /\ call[p].op = "delete"
    /\ Return(p, IF call[p].key \in set THEN 1 ELSE 0)
    /\ set' = set \ {call[p].key}

Next == \E p \in Procs :
            \/ \E op \in Ops, key \in Keys : Call(p, op, key)
            \/ /\ call[p].rv = Unset
               /\ Member(p) \/ Insert(p) \/ Delete(p)

Spec == Init /\ [][Next]_<<set, call>>
=============================================================================
