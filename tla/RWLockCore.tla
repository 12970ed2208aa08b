----------------------------- MODULE RWLockCore -----------------------------
(***************************************************************************)
(* The part that my_simple_rwl.c and my_optimized_rwl.c share: the fields  *)
(* of my_rwlock_t, my_rwlock_rdlock and my_rwlock_wrlock.                  *)
(*                                                                         *)
(* The code between pthread_mutex_lock and pthread_mutex_unlock is one     *)
(* action: every access to the counters is under the mutex.  A call that   *)
(* reaches pthread_cond_wait is two actions, since the wait releases the   *)
(* mutex: the part up to it leaves the thread in rd_wait or wr_wait; a     *)
(* signal or a broadcast moves it to rd_woken or wr_woken; and, when it    *)
(* has the mutex back, the rest of the call runs.                          *)
(***************************************************************************)
EXTENDS Integers, FiniteSets

CONSTANT Threads
ASSUME ThreadsAssumption == IsFiniteSet(Threads)

VARIABLES
    pc,             \* where each thread is in the calls of the lock
    reader_cnt,     \* my_rwlock_t.reader_cnt: readers waiting or inside
    writer_cnt,     \* my_rwlock_t.writer_cnt: writers waiting or inside
    writing         \* my_rwlock_t.writing: the lock belongs to a writer

fields == <<reader_cnt, writer_cnt, writing>>
vars   == <<pc, reader_cnt, writer_cnt, writing>>

At(where) == {t \in Threads : pc[t] \in where}

\* Threads a call of the lock counts as readers, or as writers.
Readers == At({"rd_wait", "rd_woken", "rd_held"})
Writers == At({"wr_wait", "wr_woken", "wr_held"})

Init ==
    /\ pc = [t \in Threads |-> "idle"]
    /\ reader_cnt = 0
    /\ writer_cnt = 0
    /\ writing = 0
-----------------------------------------------------------------------------
Goto(t, where) == [pc EXCEPT ![t] = where]

\* Mutant of RdLock: a reader is not counted.
RdLockUncounted(t) ==
    /\ pc[t] = "idle"
    /\ pc' = Goto(t, IF writing # 0 THEN "rd_wait" ELSE "rd_held")
    /\ UNCHANGED fields

RdLock(t) ==
    /\ pc[t] = "idle"
    /\ reader_cnt' = reader_cnt + 1
    /\ pc' = Goto(t, IF writing # 0 THEN "rd_wait" ELSE "rd_held")
    /\ UNCHANGED <<writer_cnt, writing>>

\* pthread_cond_wait(cv_read) returns; the condition is not tested again.
RdResume(t) ==
    /\ pc[t] = "rd_woken"
    /\ pc' = Goto(t, "rd_held")
    /\ UNCHANGED fields

\* Mutants of WrLock: a writer that may go in forgets to look at the readers,
\* or at the writer that owns the lock.
WrLockUnless(t, busy) ==
    /\ pc[t] = "idle"
    /\ writer_cnt' = writer_cnt + 1
    /\ pc' = Goto(t, IF busy THEN "wr_wait" ELSE "wr_held")
    /\ writing' = IF busy THEN writing ELSE 1
    /\ UNCHANGED reader_cnt

WrLockOverReaders(t) == WrLockUnless(t, writing # 0)
WrLockOverWriter(t)  == WrLockUnless(t, reader_cnt > 0)

WrLock(t) ==
    /\ pc[t] = "idle"
    /\ writer_cnt' = writer_cnt + 1
    /\ \/ /\ writing # 0 \/ reader_cnt > 0
          /\ pc' = Goto(t, "wr_wait")
          /\ UNCHANGED writing
       \/ /\ writing = 0 /\ reader_cnt <= 0
          /\ pc' = Goto(t, "wr_held")
          /\ writing' = 1
    /\ UNCHANGED reader_cnt

\* pthread_cond_wait(cv_write) returns; the condition is not tested again.
WrResume(t) ==
    /\ pc[t] = "wr_woken"
    /\ pc' = Goto(t, "wr_held")
    /\ writing' = 1
    /\ UNCHANGED <<reader_cnt, writer_cnt>>

Resume(t) == RdResume(t) \/ WrResume(t)
-----------------------------------------------------------------------------
(***************************************************************************)
(* The condition variables: t moves on to where, and a broadcast of        *)
(* cv_read wakes every reader that waits, a signal of cv_write one writer  *)
(* that waits, any of them, or nobody when none does.                      *)
(***************************************************************************)
BroadcastRead(t, where) ==
    pc' = [u \in Threads |-> IF u = t THEN where
                             ELSE IF pc[u] = "rd_wait" THEN "rd_woken"
                             ELSE pc[u]]

SignalWrite(t, where) ==
    LET waiting == At({"wr_wait"})
    IN  \E w \in IF waiting = {} THEN {t} ELSE waiting :
            pc' = [pc EXCEPT ![w] = "wr_woken", ![t] = where]
-----------------------------------------------------------------------------
\* Readers share the lock, a writer has it alone: what a lock is for.
MutualExclusion ==
    \A t, u \in Threads :
        pc[t] = "wr_held" /\ t # u => pc[u] \notin {"rd_held", "wr_held"}

\* The counters the branches of unlock rely on say who is in a call or inside.
CountsMatch ==
    /\ reader_cnt = Cardinality(Readers)
    /\ writer_cnt = Cardinality(Writers)

(***************************************************************************)
(* The lock as its callers see it: a woken thread still waits, and one     *)
(* that has left but not yet notified is out.                              *)
(***************************************************************************)
Seen(where) ==
    CASE where \in {"rd_wait", "rd_woken"} -> "want_rd"
      [] where = "rd_held"                 -> "reading"
      [] where \in {"wr_wait", "wr_woken"} -> "want_wr"
      [] where = "wr_held"                 -> "writing"
      [] OTHER                             -> "idle"

AbstractState == [t \in Threads |-> Seen(pc[t])]

A == INSTANCE AbstractRWLock WITH st <- AbstractState
=============================================================================
