--------------------------- MODULE OptimizedRWLock ---------------------------
(***************************************************************************)
(* my_optimized_rwl.c: unlock decides under the mutex as the simple lock   *)
(* does, releases the mutex, and only then broadcasts or signals.  A       *)
(* thread between the two is at "broadcast" or "signal", and any call of   *)
(* the other threads may come first.                                       *)
(***************************************************************************)
EXTENDS RWLockCore

VARIABLE late   \* a history variable: some step came before a broadcast owed

\* Mutant of OptimizedUnlockWriter: writers are preferred.
OptimizedUnlockWriterForWriters(t) ==
    /\ pc[t] \in {"rd_held", "wr_held"}
    /\ writing # 0
    /\ writer_cnt' = writer_cnt - 1
    /\ \/ /\ writer_cnt' > 0
          /\ pc' = Goto(t, "signal")
          /\ UNCHANGED writing
       \/ /\ writer_cnt' <= 0
          /\ writing' = 0
          /\ pc' = Goto(t, "broadcast")
    /\ UNCHANGED reader_cnt

\* Mutant of OptimizedUnlockWriter: the writer that leaves stays counted.
OptimizedUnlockWriterCounted(t) ==
    /\ pc[t] \in {"rd_held", "wr_held"}
    /\ writing # 0
    /\ writing' = 0
    /\ pc' = Goto(t, IF reader_cnt > 0 THEN "broadcast" ELSE "idle")
    /\ UNCHANGED <<reader_cnt, writer_cnt>>

\* The branches of my_rwlock_unlock under the mutex.
OptimizedUnlockWriter(t) ==
    /\ pc[t] \in {"rd_held", "wr_held"}
    /\ writing # 0
    /\ writer_cnt' = writer_cnt - 1
    /\ \/ /\ reader_cnt > 0
          /\ writing' = 0
          /\ pc' = Goto(t, "broadcast")
       \/ /\ reader_cnt <= 0 /\ writer_cnt' > 0
          /\ pc' = Goto(t, "signal")
          /\ UNCHANGED writing
       \/ /\ reader_cnt <= 0 /\ writer_cnt' <= 0
          /\ writing' = 0
          /\ pc' = Goto(t, "idle")
    /\ UNCHANGED reader_cnt

OptimizedUnlockReader(t) ==
    /\ pc[t] \in {"rd_held", "wr_held"}
    /\ writing = 0
    /\ reader_cnt' = reader_cnt - 1
    /\ \/ /\ reader_cnt' > 0
          /\ pc' = Goto(t, "broadcast")
          /\ UNCHANGED writing
       \/ /\ reader_cnt' <= 0 /\ writer_cnt > 0
          /\ writing' = 1
          /\ pc' = Goto(t, "signal")
       \/ /\ reader_cnt' <= 0 /\ writer_cnt <= 0
          /\ pc' = Goto(t, "idle")
          /\ UNCHANGED writing
    /\ UNCHANGED writer_cnt

\* Mutant of Notify: the broadcast is forgotten.
NotifyWriters(t) ==
    /\ \/ pc[t] = "broadcast" /\ pc' = Goto(t, "idle")
       \/ pc[t] = "signal" /\ SignalWrite(t, "idle")
    /\ UNCHANGED fields

\* The end of unlock, after pthread_mutex_unlock.
Notify(t) ==
    /\ \/ pc[t] = "broadcast" /\ BroadcastRead(t, "idle")
       \/ pc[t] = "signal" /\ SignalWrite(t, "idle")
    /\ UNCHANGED fields

OptimizedUnlock(t) == OptimizedUnlockWriter(t) \/ OptimizedUnlockReader(t)

\* late remembers that a broadcast was owed and another step was taken.  What
\* holds while late is FALSE is broken by late broadcasts and nothing else; a
\* signal may be late all the same.
OptimizedNext ==
    \E t \in Threads :
        /\ RdLock(t) \/ WrLock(t) \/ Resume(t) \/ OptimizedUnlock(t) \/ Notify(t)
        /\ late' = (late \/ At({"broadcast"}) \ {t} # {})

OptimizedInit == Init /\ late = FALSE

OptimizedSafety == OptimizedInit /\ [][OptimizedNext]_<<vars, late>>

(***************************************************************************)
(* A thread that owes a wakeup gives it, a woken thread gets the mutex     *)
(* back, and a thread inside leaves.                                       *)
(***************************************************************************)
OptimizedSpec ==
    /\ OptimizedSafety
    /\ \A t \in Threads : /\ WF_vars(Resume(t))
                          /\ WF_vars(OptimizedUnlock(t))
                          /\ WF_vars(Notify(t))
-----------------------------------------------------------------------------
OptimizedPCs == {"idle", "rd_wait", "rd_woken", "rd_held",
        "wr_wait", "wr_woken", "wr_held", "broadcast", "signal"}

\* Every thread is at a place of the code.  The counters are C ints: they go
\* below zero when a reader leaves while writing is set.
OptimizedTypeOK ==
    /\ pc \in [Threads -> OptimizedPCs]
    /\ reader_cnt \in Int
    /\ writer_cnt \in Int
    /\ writing \in {0, 1}
    /\ late \in BOOLEAN

\* Two writers are never inside together, though readers get in beside one.
WritersExclusive ==
    \A t, u \in Threads : pc[t] = "wr_held" /\ t # u => pc[u] # "wr_held"

\* The writer the lock was given to last, inside or on its way in, or the
\* thread that owes the signal for it.
OptimizedOwners == At({"wr_woken", "wr_held", "signal"})

\* The sum of the counters is the threads in a call or inside, and readers are
\* only ever counted too high.
CountsDrift ==
    /\ reader_cnt + writer_cnt = Cardinality(Readers) + Cardinality(Writers)
    /\ reader_cnt >= Cardinality(Readers)

\* One owner at most.  While writing is set there is one; beside one that
\* writing does not tell of, too many readers are counted.
OneOwner ==
    /\ \A t, u \in OptimizedOwners : t = u
    /\ writing = 1 => OptimizedOwners # {}
    /\ writing = 0 /\ OptimizedOwners # {} => reader_cnt > Cardinality(Readers)

\* Each counter may drift, since unlock picks one by writing and not by its
\* caller, but never so far that the lock gets a second owner, or that a signal
\* finds no writer to wake.
DriftBounded ==
    /\ OptimizedTypeOK
    /\ CountsDrift
    /\ OneOwner
    /\ At({"signal"}) # {} => At({"wr_wait"}) # {}

\* No wakeup of a reader is lost, late as it may be: while one waits, a writer
\* is inside or about to be, or a notification is still owed.
NoReaderStranded ==
    At({"rd_wait"}) # {} =>
        At({"wr_woken", "wr_held", "broadcast", "signal"}) # {}

\* What the steps preserve: the conjunction is inductive.
OptimizedIndInv == DriftBounded /\ NoReaderStranded

\* A reader that waits gets in.
ReaderProgress ==
    \A r \in Threads : (pc[r] = "rd_wait") ~> (pc[r] = "rd_held")

\* As long as no broadcast has been late, every step is one of the abstract
\* lock or none, as for the simple lock with no condition, so a writer inside
\* is alone: nothing else in the order of release and notification harms.
PromptRefinement ==
    [][~late' => [A!Next]_AbstractState]_<<vars, late>>
=============================================================================
