--------------------------- MODULE AbstractRWLock ---------------------------
(***************************************************************************)
(* What the readers-writer lock of assignment-2/p2 promises to its users,  *)
(* whatever the implementation: a thread is idle, wants the lock, or holds *)
(* it; readers share it, a writer has it alone.  A request may be granted  *)
(* in the call itself (the fast path of rdlock and wrlock) or later.       *)
(***************************************************************************)
CONSTANT Threads

VARIABLE st     \* what each thread is doing with the lock

Want(mode) == IF mode = "reading" THEN "want_rd" ELSE "want_wr"

States == {"idle", "want_rd", "reading", "want_wr", "writing"}

\* mode can be granted to t: a reader needs no writer in, a writer nobody.
Free(t, mode) ==
    \A u \in Threads \ {t} :
        /\ st[u] # "writing"
        /\ mode = "writing" => st[u] # "reading"

Init == st = [t \in Threads |-> "idle"]

Request(t, mode) ==
    /\ st[t] = "idle"
    /\ st' = [st EXCEPT ![t] = Want(mode)]

AcquireAtOnce(t, mode) ==
    /\ st[t] = "idle"
    /\ Free(t, mode)
    /\ st' = [st EXCEPT ![t] = mode]

Grant(t, mode) ==
    /\ st[t] = Want(mode)
    /\ Free(t, mode)
    /\ st' = [st EXCEPT ![t] = mode]

Release(t) ==
    /\ st[t] \in {"reading", "writing"}
    /\ st' = [st EXCEPT ![t] = "idle"]

Next == \E t \in Threads :
            \/ \E mode \in {"reading", "writing"} :
                   \/ Request(t, mode)
                   \/ AcquireAtOnce(t, mode)
                   \/ Grant(t, mode)
            \/ Release(t)

Safety == Init /\ [][Next]_st

(***************************************************************************)
(* Holders leave.  A reader that waits is let in (readers are preferred);  *)
(* for writers only "some writer that waits is let in, if the lock stays   *)
(* free" is promised: a stream of readers may keep them out forever.       *)
(***************************************************************************)
Fairness ==
    /\ \A t \in Threads : /\ WF_st(Grant(t, "reading"))
                          /\ WF_st(Release(t))
    /\ WF_st(\E t \in Threads : Grant(t, "writing"))

Spec == Safety /\ Fairness
=============================================================================
