---------------------------- MODULE SimpleRWLock ----------------------------
(***************************************************************************)
(* my_simple_rwl.c: unlock notifies while it still holds the mutex.        *)
(*                                                                         *)
(* A writer that leaves hands the lock over.  To the readers, if any is    *)
(* counted: writing becomes 0 and all of them wake.  Else to one writer    *)
(* that waits: writing stays 1 for it, so that nobody slips in before it   *)
(* runs.  The last reader hands over to a writer in the same way.          *)
(***************************************************************************)
EXTENDS RWLockCore

\* Mutant of UnlockWriter: writers are preferred.
UnlockWriterForWriters(t) ==
    /\ pc[t] \in {"rd_held", "wr_held"}
    /\ writing # 0
    /\ writer_cnt' = writer_cnt - 1
    /\ \/ /\ writer_cnt' > 0
          /\ SignalWrite(t, "idle")
          /\ UNCHANGED writing
       \/ /\ writer_cnt' <= 0
          /\ writing' = 0
          /\ BroadcastRead(t, "idle")
    /\ UNCHANGED reader_cnt

\* The branches of my_rwlock_unlock.  It looks at writing, not at the caller.
UnlockWriter(t) ==
    /\ pc[t] \in {"rd_held", "wr_held"}
    /\ writing # 0
    /\ writer_cnt' = writer_cnt - 1
    /\ \/ /\ reader_cnt > 0
          /\ writing' = 0
          /\ BroadcastRead(t, "idle")
       \/ /\ reader_cnt <= 0 /\ writer_cnt' > 0
          /\ SignalWrite(t, "idle")
          /\ UNCHANGED writing
       \/ /\ reader_cnt <= 0 /\ writer_cnt' <= 0
          /\ writing' = 0
          /\ pc' = Goto(t, "idle")
    /\ UNCHANGED reader_cnt

\* Mutant of UnlockReader: the last reader does not keep the lock for the
\* writer it wakes.
UnlockReaderLettingGo(t) ==
    /\ pc[t] \in {"rd_held", "wr_held"}
    /\ writing = 0
    /\ reader_cnt' = reader_cnt - 1
    /\ IF reader_cnt' > 0 THEN BroadcastRead(t, "idle")
                          ELSE SignalWrite(t, "idle")
    /\ UNCHANGED <<writer_cnt, writing>>

\* Another: the last reader forgets the writers that wait.
UnlockReaderSilent(t) ==
    /\ pc[t] \in {"rd_held", "wr_held"}
    /\ writing = 0
    /\ reader_cnt' = reader_cnt - 1
    /\ IF reader_cnt' > 0 THEN BroadcastRead(t, "idle")
                          ELSE pc' = Goto(t, "idle")
    /\ UNCHANGED <<writer_cnt, writing>>

UnlockReader(t) ==
    /\ pc[t] \in {"rd_held", "wr_held"}
    /\ writing = 0
    /\ reader_cnt' = reader_cnt - 1
    /\ \/ /\ reader_cnt' > 0
          /\ BroadcastRead(t, "idle")
          /\ UNCHANGED writing
       \/ /\ reader_cnt' <= 0 /\ writer_cnt > 0
          /\ writing' = 1
          /\ SignalWrite(t, "idle")
       \/ /\ reader_cnt' <= 0 /\ writer_cnt <= 0
          /\ pc' = Goto(t, "idle")
          /\ UNCHANGED writing
    /\ UNCHANGED writer_cnt

Unlock(t) == UnlockWriter(t) \/ UnlockReader(t)

Next == \E t \in Threads : RdLock(t) \/ WrLock(t) \/ Resume(t) \/ Unlock(t)

Safety == Init /\ [][Next]_vars

(***************************************************************************)
(* A woken thread gets the mutex back, and a thread inside leaves: the     *)
(* critical sections of the callers are finite.                            *)
(***************************************************************************)
Spec == /\ Safety
        /\ \A t \in Threads : WF_vars(Resume(t)) /\ WF_vars(Unlock(t))
-----------------------------------------------------------------------------
PCs == {"idle", "rd_wait", "rd_woken", "rd_held",
        "wr_wait", "wr_woken", "wr_held"}

\* Every thread is at a place of the code, and the fields are C ints >= 0.
TypeOK ==
    /\ pc \in [Threads -> PCs]
    /\ reader_cnt \in Nat
    /\ writer_cnt \in Nat
    /\ writing \in {0, 1}

\* The writer the lock belongs to: inside, or woken and about to be.
Owners == At({"wr_woken", "wr_held"})

\* writing says whether a writer owns the lock, one writer at most does, and
\* no reader is then inside nor on its way in.
OwnerInv ==
    /\ writing = 1 <=> Owners # {}
    /\ \A t, u \in Owners : t = u
    /\ writing = 1 => At({"rd_woken", "rd_held"}) = {}

\* No wakeup is lost.  A reader waits only while a writer owns the lock; a
\* writer waits only while another owns it or some reader is in its way.
\* Whoever that is wakes a waiter when it leaves, so nobody waits for nothing.
NoLostWakeup ==
    /\ At({"rd_wait"}) # {} => Owners # {}
    /\ At({"wr_wait"}) # {} => Owners \cup At({"rd_woken", "rd_held"}) # {}

\* What the steps preserve: the conjunction is inductive.
IndInv == TypeOK /\ CountsMatch /\ OwnerInv /\ NoLostWakeup

\* Reader preference (the comment of unlock): from the step a reader starts
\* to wait until it is inside, no step gives the lock to a writer: at most the
\* writer that owned it already goes first.
ReaderPreference ==
    [][\A r \in Threads :
           pc[r] \in {"rd_wait", "rd_woken"} =>
               \A w \in Threads : pc'[w] \in {"wr_woken", "wr_held"}
                                     => pc[w] \in {"wr_woken", "wr_held"}]_vars

\* The lock implements the abstract one, its fairness included: a reader that
\* waits is let in, since it is not overtaken and the writer inside leaves.
Refinement == A!Spec

\* Its safety part: each step of the calls is one of the abstract lock or none.
AbstractSafety == A!Safety
=============================================================================
