---------------------------- MODULE RWLockProofs ----------------------------
(***************************************************************************)
(* What TLC checks of the locks for a few threads, proved for any finite   *)
(* set of them.  Of my_simple_rwl.c, IndInv is inductive; mutual           *)
(* exclusion, reader preference and the refinement of the abstract lock    *)
(* follow from it.  --fail--my_rwl_with_spinlock.c implements it.          *)
(*                                                                         *)
(* my_optimized_rwl.c lets readers in beside a writer, and its counters    *)
(* drift.  What is left: the drift is bounded, there is one owner at most, *)
(* so writers exclude each other, and no waiting reader is forgotten       *)
(* (OptimizedIndInv).  And until a broadcast is late it implements the     *)
(* abstract lock as well (PromptInv).                                      *)
(***************************************************************************)
EXTENDS SpinRWLock, OptimizedRWLock, FiniteSetTheorems, TLAPS

\* The sets the counters stand for are finite.
LEMMA FiniteAt == \A where : IsFiniteSet(At(where))
  BY ThreadsAssumption, FS_Subset DEF At

\* The cardinality facts, for the readers and the writers of the lock.
LEMMA CountFacts ==
    ASSUME CountsMatch
    PROVE  /\ reader_cnt \in Nat /\ writer_cnt \in Nat
           /\ reader_cnt = 0 <=> Readers = {}
           /\ writer_cnt = 0 <=> Writers = {}
           /\ \A t : /\ t \notin Readers =>
                            Cardinality(Readers \cup {t}) = reader_cnt + 1
                     /\ t \notin Writers =>
                            Cardinality(Writers \cup {t}) = writer_cnt + 1
                     /\ t \in Readers =>
                            Cardinality(Readers \ {t}) = reader_cnt - 1
                     /\ t \in Writers =>
                            Cardinality(Writers \ {t}) = writer_cnt - 1
  <1>1. IsFiniteSet(Readers) /\ IsFiniteSet(Writers)
    BY FiniteAt DEF Readers, Writers
  <1>2. QED
    BY <1>1, FS_CardinalityType, FS_EmptySet, FS_AddElement, FS_RemoveElement
       DEF CountsMatch

\* A thread that a counter counts is the only one when the counter is 1.
LEMMA AloneFacts ==
    ASSUME CountsMatch, NEW t
    PROVE  /\ t \in Readers => (reader_cnt = 1 <=> Readers = {t})
           /\ t \in Writers => (writer_cnt = 1 <=> Writers = {t})
  <1>1. IsFiniteSet(Readers) /\ IsFiniteSet(Writers)
    BY FiniteAt DEF Readers, Writers
  <1>2. QED
    BY <1>1, FS_Singleton DEF CountsMatch
-----------------------------------------------------------------------------
\* Nobody is in a call and the fields are 0, as my_rwlock_init leaves them.
LEMMA InitInv == Init => IndInv
  <1> SUFFICES ASSUME Init PROVE IndInv
    OBVIOUS
  <1>1. \A where : "idle" \notin where => At(where) = {}
    BY DEF Init, At
  <1>2. TypeOK
    BY DEF Init, TypeOK, PCs
  <1>3. Readers = {} /\ Writers = {} /\ Owners = {}
    BY <1>1 DEF Readers, Writers, Owners
  <1>4. CountsMatch
    BY <1>3, FS_EmptySet DEF Init, CountsMatch
  <1>5. OwnerInv /\ NoLostWakeup
    BY <1>1, <1>3 DEF Init, OwnerInv, NoLostWakeup
  <1>6. QED
    BY <1>2, <1>4, <1>5 DEF IndInv

\* rdlock: one more reader, inside only if no writer owns the lock.
LEMMA RdLockInv ==
    ASSUME IndInv, NEW t \in Threads, RdLock(t)
    PROVE  IndInv'
  <1> USE DEF IndInv
  <1>1. TypeOK'
    BY DEF TypeOK, PCs, RdLock, Goto
  <1>2. Readers' = Readers \cup {t} /\ t \notin Readers /\ Writers' = Writers
    BY DEF TypeOK, RdLock, Goto, Readers, Writers, At
  <1>3. CountsMatch'
    BY <1>2, CountFacts DEF RdLock, CountsMatch
  <1>4. OwnerInv'
    BY DEF TypeOK, OwnerInv, Owners, At, RdLock, Goto
  <1>5. NoLostWakeup'
    BY DEF TypeOK, OwnerInv, NoLostWakeup, Owners, At, RdLock, Goto
  <1>6. QED
    BY <1>1, <1>3, <1>4, <1>5

\* A reader woken up goes in: it was in the way of writers already.
LEMMA RdResumeInv ==
    ASSUME IndInv, NEW t \in Threads, RdResume(t)
    PROVE  IndInv'
  <1> USE DEF IndInv
  <1>1. TypeOK'
    BY DEF TypeOK, PCs, RdResume, Goto, fields
  <1>2. Readers' = Readers /\ Writers' = Writers
    BY DEF TypeOK, RdResume, Goto, Readers, Writers, At
  <1>3. CountsMatch'
    BY <1>2 DEF RdResume, CountsMatch, fields
  <1>4. OwnerInv'
    BY DEF TypeOK, OwnerInv, Owners, At, RdResume, Goto, fields
  <1>5. NoLostWakeup'
    BY DEF TypeOK, NoLostWakeup, Owners, At, RdResume, Goto
  <1>6. QED
    BY <1>1, <1>3, <1>4, <1>5

\* wrlock: one more writer, which owns the lock only if nobody is in its way.
LEMMA WrLockInv ==
    ASSUME IndInv, NEW t \in Threads, WrLock(t)
    PROVE  IndInv'
  <1> USE DEF IndInv
  <1>1. TypeOK'
    BY DEF TypeOK, PCs, WrLock, Goto
  <1>2. Writers' = Writers \cup {t} /\ t \notin Writers /\ Readers' = Readers
    BY DEF TypeOK, WrLock, Goto, Readers, Writers, At
  <1>3. CountsMatch'
    BY <1>2, CountFacts DEF WrLock, CountsMatch
  <1>4. CASE writing # 0 \/ reader_cnt > 0
    <2>1. pc' = Goto(t, "wr_wait") /\ writing' = writing
      BY <1>4, CountFacts DEF WrLock
    <2>2. OwnerInv'
      BY <2>1 DEF TypeOK, OwnerInv, Owners, At, Goto, WrLock
    <2>3. writing = 0 => At({"rd_woken", "rd_held"}) # {}
      BY <1>4, CountFacts
         DEF OwnerInv, NoLostWakeup, Readers, At
    <2>4. NoLostWakeup'
      BY <2>1, <2>3
         DEF TypeOK, OwnerInv, NoLostWakeup, Owners, At, Goto, WrLock
    <2>5. QED
      BY <1>1, <1>3, <2>2, <2>4
  <1>5. CASE writing = 0 /\ reader_cnt <= 0
    <2>1. pc' = Goto(t, "wr_held") /\ writing' = 1 /\ Readers = {}
      BY <1>5, CountFacts DEF WrLock
    <2>2. OwnerInv'
      BY <1>5, <2>1 DEF TypeOK, OwnerInv, Owners, At, Goto, WrLock, Readers
    <2>3. NoLostWakeup'
      BY <2>1 DEF TypeOK, NoLostWakeup, Owners, At, Goto, WrLock
    <2>4. QED
      BY <1>1, <1>3, <2>2, <2>3
  <1>6. QED
    BY <1>4, <1>5, CountFacts DEF WrLock

\* A writer woken up goes in: it owned the lock already.
LEMMA WrResumeInv ==
    ASSUME IndInv, NEW t \in Threads, WrResume(t)
    PROVE  IndInv'
  <1> USE DEF IndInv
  <1>1. TypeOK'
    BY DEF TypeOK, PCs, WrResume, Goto
  <1>2. Readers' = Readers /\ Writers' = Writers
    BY DEF TypeOK, WrResume, Goto, Readers, Writers, At
  <1>3. CountsMatch'
    BY <1>2 DEF WrResume, CountsMatch
  <1>4. OwnerInv'
    BY DEF TypeOK, OwnerInv, Owners, At, WrResume, Goto
  <1>5. NoLostWakeup'
    BY DEF TypeOK, NoLostWakeup, Owners, At, WrResume, Goto
  <1>6. QED
    BY <1>1, <1>3, <1>4, <1>5
-----------------------------------------------------------------------------
\* A writer leaves.  It is the owner, so no reader is inside.
LEMMA UnlockWriterInv ==
    ASSUME IndInv, NEW t \in Threads, UnlockWriter(t)
    PROVE  IndInv'
  <1> USE DEF IndInv
  <1>1. /\ pc[t] = "wr_held" /\ writing = 1 /\ t \in Writers
        /\ \A u \in Owners : u = t
        /\ At({"rd_woken", "rd_held"}) = {}
    BY DEF TypeOK, OwnerInv, Owners, At, UnlockWriter, Writers
  <1>2. CASE reader_cnt > 0
    <2>1. writing' = 0 /\ BroadcastRead(t, "idle")
      BY <1>2, CountFacts DEF UnlockWriter
    <2>2. TypeOK'
      BY <1>1, <2>1, CountFacts DEF TypeOK, PCs, UnlockWriter, BroadcastRead
    <2>3. Writers' = Writers \ {t} /\ Readers' = Readers
      BY <1>1, <2>1 DEF TypeOK, BroadcastRead, Readers, Writers, At
    <2>4. CountsMatch'
      BY <1>1, <2>3, CountFacts DEF UnlockWriter, CountsMatch
    <2>5. OwnerInv'
      BY <1>1, <2>1 DEF TypeOK, OwnerInv, Owners, At, BroadcastRead
    <2>6. At({"rd_wait"})' = {} /\ At({"rd_woken"})' # {}
      BY <1>1, <1>2, <2>1, CountFacts
         DEF TypeOK, At, BroadcastRead, Readers
    <2>7. NoLostWakeup'
      BY <2>6 DEF NoLostWakeup, At
    <2>8. QED
      BY <2>2, <2>4, <2>5, <2>7
  <1>3. CASE reader_cnt <= 0 /\ writer_cnt - 1 > 0
    <2>1. writing' = 1 /\ SignalWrite(t, "idle")
      BY <1>1, <1>3, CountFacts DEF UnlockWriter
    <2>2. At({"wr_wait"}) # {}
      <3>1. Writers # {t}
        BY <1>1, <1>3, CountFacts, AloneFacts
      <3>2. QED
        BY <1>1, <3>1 DEF Writers, Owners, At
    <2>3. PICK w \in At({"wr_wait"}) :
              pc' = [pc EXCEPT ![w] = "wr_woken", ![t] = "idle"]
      BY <2>1, <2>2 DEF SignalWrite
    <2>4. TypeOK'
      BY <1>1, <2>1, <2>3, CountFacts
         DEF TypeOK, PCs, At, UnlockWriter
    <2>5. Writers' = Writers \ {t} /\ Readers' = Readers
      BY <1>1, <2>3 DEF TypeOK, Readers, Writers, At
    <2>6. CountsMatch'
      BY <1>1, <2>5, CountFacts DEF UnlockWriter, CountsMatch
    <2>7. Owners' = {w} /\ Readers = {}
      BY <1>1, <1>3, <2>3, CountFacts DEF TypeOK, Owners, At
    <2>8. OwnerInv'
      BY <2>1, <2>5, <2>7 DEF OwnerInv, At, Readers
    <2>9. NoLostWakeup'
      BY <2>7 DEF NoLostWakeup
    <2>10. QED
      BY <2>4, <2>6, <2>8, <2>9
  <1>4. CASE reader_cnt <= 0 /\ writer_cnt - 1 <= 0
    <2>1. writing' = 0 /\ pc' = Goto(t, "idle") /\ writer_cnt' = 0
      BY <1>1, <1>4, CountFacts DEF UnlockWriter
    <2>2. TypeOK'
      BY <2>1 DEF TypeOK, PCs, Goto, UnlockWriter
    <2>3. Writers' = Writers \ {t} /\ Readers' = Readers
      BY <1>1, <2>1 DEF TypeOK, Goto, Readers, Writers, At
    <2>4. CountsMatch'
      BY <1>1, <2>3, CountFacts DEF UnlockWriter, CountsMatch
    <2>5. Readers' = {} /\ Writers' = {}
      BY <1>1, <1>4, <2>3, CountFacts, AloneFacts
    <2>6. OwnerInv' /\ NoLostWakeup'
      BY <2>1, <2>5 DEF OwnerInv, NoLostWakeup, Owners, Readers, Writers, At
    <2>7. QED
      BY <2>2, <2>4, <2>6
  <1>5. QED
    BY <1>2, <1>3, <1>4, CountFacts

\* A reader leaves: writing is 0, so no writer is inside.
LEMMA UnlockReaderInv ==
    ASSUME IndInv, NEW t \in Threads, UnlockReader(t)
    PROVE  IndInv'
  <1> USE DEF IndInv
  <1>1. /\ pc[t] = "rd_held" /\ writing = 0 /\ t \in Readers
        /\ Owners = {}
        /\ At({"rd_wait"}) = {}
    BY DEF TypeOK, OwnerInv, NoLostWakeup, Owners, At, UnlockReader, Readers
  <1>2. CASE reader_cnt - 1 > 0
    <2>1. writing' = 0 /\ pc' = Goto(t, "idle")
      <3>1. writing' = 0 /\ BroadcastRead(t, "idle")
        BY <1>1, <1>2, CountFacts DEF UnlockReader
      <3>2. QED
        BY <1>1, <3>1 DEF TypeOK, BroadcastRead, Goto, At
    <2>2. TypeOK'
      BY <1>1, <2>1, CountFacts DEF TypeOK, PCs, UnlockReader, Goto
    <2>3. Readers' = Readers \ {t} /\ Writers' = Writers
      BY <1>1, <2>1 DEF TypeOK, Goto, Readers, Writers, At
    <2>4. CountsMatch'
      BY <1>1, <2>3, CountFacts DEF UnlockReader, CountsMatch
    <2>5. OwnerInv'
      BY <1>1, <2>1 DEF TypeOK, OwnerInv, Owners, At, Goto
    <2>6. Readers # {t}
      BY <1>1, <1>2, CountFacts, AloneFacts
    <2>7. At({"rd_wait"})' = {} /\ At({"rd_woken", "rd_held"})' # {}
      BY <1>1, <2>1, <2>6 DEF TypeOK, At, Goto, Readers
    <2>8. NoLostWakeup'
      BY <2>7 DEF NoLostWakeup, At
    <2>9. QED
      BY <2>2, <2>4, <2>5, <2>8
  <1>3. CASE reader_cnt - 1 <= 0 /\ writer_cnt > 0
    <2>1. writing' = 1 /\ SignalWrite(t, "idle") /\ reader_cnt' = 0
      BY <1>1, <1>3, CountFacts DEF UnlockReader
    <2>2. At({"wr_wait"}) # {}
      BY <1>1, <1>3, CountFacts DEF Writers, Owners, At
    <2>3. PICK w \in At({"wr_wait"}) :
              pc' = [pc EXCEPT ![w] = "wr_woken", ![t] = "idle"]
      BY <2>1, <2>2 DEF SignalWrite
    <2>4. TypeOK'
      BY <1>1, <2>1, <2>3, CountFacts
         DEF TypeOK, PCs, At, UnlockReader
    <2>5. Readers' = Readers \ {t} /\ Writers' = Writers
      BY <1>1, <2>3 DEF TypeOK, Readers, Writers, At
    <2>6. CountsMatch'
      BY <1>1, <2>5, CountFacts DEF UnlockReader, CountsMatch
    <2>7. Owners' = {w}
      BY <1>1, <2>3 DEF TypeOK, Owners, At
    <2>8. Readers' = {}
      BY <1>1, <1>3, <2>5, CountFacts, AloneFacts
    <2>9. OwnerInv'
      BY <2>1, <2>7, <2>8 DEF OwnerInv, At, Readers
    <2>10. NoLostWakeup'
      BY <2>7 DEF NoLostWakeup
    <2>11. QED
      BY <2>4, <2>6, <2>9, <2>10
  <1>4. CASE reader_cnt - 1 <= 0 /\ writer_cnt <= 0
    <2>1. writing' = 0 /\ pc' = Goto(t, "idle") /\ reader_cnt' = 0
      BY <1>1, <1>4, CountFacts DEF UnlockReader
    <2>2. TypeOK'
      BY <2>1 DEF TypeOK, PCs, Goto, UnlockReader
    <2>3. Readers' = Readers \ {t} /\ Writers' = Writers
      BY <1>1, <2>1 DEF TypeOK, Goto, Readers, Writers, At
    <2>4. CountsMatch'
      BY <1>1, <2>3, CountFacts DEF UnlockReader, CountsMatch
    <2>5. Writers' = {}
      BY <2>3, <1>4, CountFacts
    <2>6. At({"rd_wait"})' = {}
      BY <1>1, <2>1 DEF TypeOK, Goto, At
    <2>7. OwnerInv' /\ NoLostWakeup'
      BY <2>1, <2>5, <2>6 DEF OwnerInv, NoLostWakeup, Owners, Writers, At
    <2>8. QED
      BY <2>2, <2>4, <2>7
  <1>5. QED
    BY <1>2, <1>3, <1>4, CountFacts
-----------------------------------------------------------------------------
\* The invariant is inductive: each call preserves it, one lemma per action.
LEMMA NextInv == IndInv /\ [Next]_vars => IndInv'
  <1> SUFFICES ASSUME IndInv, [Next]_vars PROVE IndInv'
    OBVIOUS
  <1>1. CASE UNCHANGED vars
    BY <1>1 DEF vars, IndInv, TypeOK, CountsMatch, OwnerInv, NoLostWakeup,
                Readers, Writers, Owners, At
  <1>2. ASSUME NEW t \in Threads, RdLock(t) PROVE IndInv'
    BY <1>2, RdLockInv
  <1>3. ASSUME NEW t \in Threads, WrLock(t) PROVE IndInv'
    BY <1>3, WrLockInv
  <1>4. ASSUME NEW t \in Threads, Resume(t) PROVE IndInv'
    BY <1>4, RdResumeInv, WrResumeInv DEF Resume
  <1>5. ASSUME NEW t \in Threads, Unlock(t) PROVE IndInv'
    BY <1>5, UnlockWriterInv, UnlockReaderInv DEF Unlock
  <1>6. QED
    BY <1>1, <1>2, <1>3, <1>4, <1>5 DEF Next

\* The invariant TLC checks as the conjunction of its parts, for any number of
\* threads: the types, the counters, who owns the lock, and no lost wakeup.
THEOREM Invariant == Safety => []IndInv
  BY InitInv, NextInv, PTL DEF Safety

\* The fields stay in their types: the counters never go below zero.
THEOREM TypeCorrect == Safety => []TypeOK
  BY Invariant, PTL DEF IndInv

\* unlock never leaves a waiting thread with nobody to wake it.
THEOREM WakeupsKept == Safety => []NoLostWakeup
  BY Invariant, PTL DEF IndInv

\* The counters say how many threads are in the calls and inside.
THEOREM CountersCorrect == Safety => []CountsMatch
  BY Invariant, PTL DEF IndInv

\* While writing is set the lock belongs to one thread, and to no reader.
THEOREM Ownership == Safety => []OwnerInv
  BY Invariant, PTL DEF IndInv

\* A writer inside is alone: any thread inside with it would be a second
\* owner, or a reader inside while a writer owns the lock.
THEOREM Exclusion == Safety => []MutualExclusion
  <1>1. IndInv => MutualExclusion
    BY DEF IndInv, TypeOK, OwnerInv, Owners, At, MutualExclusion
  <1>2. QED
    BY <1>1, Invariant, PTL
-----------------------------------------------------------------------------
\* A step gives the lock to a writer only when no reader is counted.
LEMMA PreferenceStep ==
    ASSUME IndInv, [Next]_vars,
           NEW r \in Threads, pc[r] \in {"rd_wait", "rd_woken"},
           NEW w \in Threads, pc'[w] \in {"wr_woken", "wr_held"}
    PROVE  pc[w] \in {"wr_woken", "wr_held"}
  <1> USE DEF IndInv
  <1>1. reader_cnt > 0 /\ r \in Readers
    BY CountFacts DEF Readers, At
  <1>2. CASE UNCHANGED vars
    BY <1>2 DEF vars
  <1>3. ASSUME NEW t \in Threads, RdLock(t) PROVE pc[w] = pc'[w]
    BY <1>3 DEF RdLock, Goto, TypeOK
  <1>4. ASSUME NEW t \in Threads, WrLock(t) PROVE pc[w] = pc'[w]
    BY <1>1, <1>4, CountFacts DEF WrLock, Goto, TypeOK
  <1>5. ASSUME NEW t \in Threads, Resume(t)
        PROVE  pc[w] \in {"wr_woken", "wr_held"}
    BY <1>5 DEF Resume, RdResume, WrResume, Goto, TypeOK
  <1>6. ASSUME NEW t \in Threads, UnlockWriter(t) PROVE pc[w] = pc'[w]
    BY <1>1, <1>6, CountFacts DEF UnlockWriter, BroadcastRead, TypeOK
  <1>7. ASSUME NEW t \in Threads, UnlockReader(t) PROVE pc[w] = pc'[w]
    <2>1. t \in Readers /\ r # t
      BY <1>7 DEF UnlockReader, OwnerInv, TypeOK, Owners, Readers, At
    <2>2. reader_cnt - 1 > 0
      BY <1>1, <2>1, CountFacts, AloneFacts
    <2>3. QED
      BY <1>7, <2>2, CountFacts DEF UnlockReader, BroadcastRead, TypeOK
  <1>8. QED
    BY <1>2, <1>3, <1>4, <1>5, <1>6, <1>7 DEF Next, Unlock

\* No step gives the lock to a writer while a reader waits for it.
THEOREM Preference == Safety => ReaderPreference
  <1>1. IndInv /\ [Next]_vars =>
            [\A r \in Threads :
                pc[r] \in {"rd_wait", "rd_woken"} =>
                    \A w \in Threads : pc'[w] \in {"wr_woken", "wr_held"}
                                          => pc[w] \in {"wr_woken", "wr_held"}]_vars
    BY PreferenceStep
  <1>2. QED
    BY <1>1, Invariant, PTL DEF Safety, ReaderPreference
-----------------------------------------------------------------------------
\* What the abstract lock sees of a place of the code.
LEMMA SeenFacts ==
    /\ Seen("idle") = "idle"
    /\ Seen("rd_wait") = "want_rd" /\ Seen("rd_woken") = "want_rd"
    /\ Seen("rd_held") = "reading"
    /\ Seen("wr_wait") = "want_wr" /\ Seen("wr_woken") = "want_wr"
    /\ Seen("wr_held") = "writing"
  BY DEF Seen

\* A change of one thread's place is a change of what is seen of that thread.
LEMMA SeenStep ==
    ASSUME TypeOK, NEW t \in Threads, NEW where, pc' = Goto(t, where)
    PROVE  AbstractState' = [AbstractState EXCEPT ![t] = Seen(where)]
  BY DEF TypeOK, Goto, AbstractState

\* With no owner among the others no writer is seen inside, and with no reader
\* inside or woken no reader is.
LEMMA FreeFacts ==
    ASSUME TypeOK, NEW t \in Threads,
           \A u \in Threads \ {t} : pc[u] # "wr_held"
    PROVE  /\ A!Free(t, "reading")
           /\ (\A u \in Threads \ {t} : pc[u] # "rd_held")
                  => A!Free(t, "writing")
  <1>1. \A u \in Threads :
            /\ pc[u] # "wr_held" => AbstractState[u] # "writing"
            /\ pc[u] # "rd_held" => AbstractState[u] # "reading"
    BY SeenFacts DEF TypeOK, PCs, AbstractState
  <1>2. QED
    BY <1>1 DEF A!Free

\* unlock is the release of the caller: the threads it wakes still wait.
LEMMA UnlockSeen ==
    ASSUME IndInv, NEW t \in Threads, Unlock(t)
    PROVE  A!Release(t)
  <1> USE DEF IndInv
  <1>1. pc[t] \in {"rd_held", "wr_held"} /\ pc[t] \in PCs
    BY DEF Unlock, UnlockWriter, UnlockReader, PCs
  <1>2. AbstractState[t] \in {"reading", "writing"}
    BY <1>1, SeenFacts DEF AbstractState
  <1>3. /\ pc' \in [Threads -> PCs] /\ pc'[t] = "idle"
        /\ \A u \in Threads \ {t} : \/ pc'[u] = pc[u]
                                    \/ pc[u] = "rd_wait" /\ pc'[u] = "rd_woken"
                                    \/ pc[u] = "wr_wait" /\ pc'[u] = "wr_woken"
    <2>1. CASE BroadcastRead(t, "idle")
      BY <2>1 DEF BroadcastRead, TypeOK, PCs
    <2>2. CASE SignalWrite(t, "idle")
      BY <2>2 DEF SignalWrite, At, TypeOK, PCs
    <2>3. CASE pc' = Goto(t, "idle")
      BY <2>3 DEF Goto, TypeOK, PCs
    <2>4. QED
      BY <2>1, <2>2, <2>3 DEF Unlock, UnlockWriter, UnlockReader
  <1>4. AbstractState' = [AbstractState EXCEPT ![t] = "idle"]
    BY <1>3, SeenFacts DEF AbstractState
  <1>5. QED
    BY <1>2, <1>4 DEF A!Release

\* Every step is a step of the abstract lock.
LEMMA StepSeen ==
    ASSUME IndInv, [Next]_vars
    PROVE  [A!Next]_AbstractState
  <1> USE DEF IndInv
  <1>1. CASE UNCHANGED vars
    BY <1>1 DEF vars, AbstractState
  <1>2. ASSUME NEW t \in Threads, RdLock(t) PROVE A!Next
    <2>1. AbstractState[t] = "idle"
      BY <1>2, SeenFacts DEF RdLock, AbstractState
    <2>2. CASE writing # 0
      <3>1. AbstractState' = [AbstractState EXCEPT ![t] = "want_rd"]
        BY <1>2, <2>2, SeenStep, SeenFacts DEF RdLock
      <3>2. QED
        BY <2>1, <3>1 DEF A!Next, A!Request, A!Want
    <2>3. CASE writing = 0
      <3>1. AbstractState' = [AbstractState EXCEPT ![t] = "reading"]
        BY <1>2, <2>3, SeenStep, SeenFacts DEF RdLock
      <3>2. A!Free(t, "reading")
        BY <2>3, FreeFacts DEF OwnerInv, Owners, At
      <3>3. QED
        BY <2>1, <3>1, <3>2 DEF A!Next, A!AcquireAtOnce
    <2>4. QED
      BY <2>2, <2>3
  <1>3. ASSUME NEW t \in Threads, WrLock(t) PROVE A!Next
    <2>1. AbstractState[t] = "idle"
      BY <1>3, SeenFacts DEF WrLock, AbstractState
    <2>2. CASE pc' = Goto(t, "wr_wait")
      <3>1. AbstractState' = [AbstractState EXCEPT ![t] = "want_wr"]
        BY <2>2, SeenStep, SeenFacts
      <3>2. QED
        BY <2>1, <3>1 DEF A!Next, A!Request, A!Want
    <2>3. CASE writing = 0 /\ reader_cnt <= 0 /\ pc' = Goto(t, "wr_held")
      <3>1. AbstractState' = [AbstractState EXCEPT ![t] = "writing"]
        BY <2>3, SeenStep, SeenFacts
      <3>2. Readers = {}
        BY <2>3, CountFacts
      <3>3. A!Free(t, "writing")
        BY <2>3, <3>2, FreeFacts DEF OwnerInv, Owners, Readers, At
      <3>4. QED
        BY <2>1, <3>1, <3>3 DEF A!Next, A!AcquireAtOnce
    <2>4. QED
      BY <1>3, <2>2, <2>3 DEF WrLock
  <1>4. ASSUME NEW t \in Threads, RdResume(t) PROVE A!Next
    <2>1. AbstractState[t] = "want_rd"
      BY <1>4, SeenFacts DEF RdResume, AbstractState
    <2>2. AbstractState' = [AbstractState EXCEPT ![t] = "reading"]
      BY <1>4, SeenStep, SeenFacts DEF RdResume
    <2>3. A!Free(t, "reading")
      BY <1>4, FreeFacts DEF RdResume, TypeOK, OwnerInv, Owners, At
    <2>4. QED
      BY <2>1, <2>2, <2>3 DEF A!Next, A!Grant, A!Want
  <1>5. ASSUME NEW t \in Threads, WrResume(t) PROVE A!Next
    <2>1. AbstractState[t] = "want_wr"
      BY <1>5, SeenFacts DEF WrResume, AbstractState
    <2>2. AbstractState' = [AbstractState EXCEPT ![t] = "writing"]
      BY <1>5, SeenStep, SeenFacts DEF WrResume
    <2>3. A!Free(t, "writing")
      BY <1>5, FreeFacts DEF WrResume, TypeOK, OwnerInv, Owners, At
    <2>4. QED
      BY <2>1, <2>2, <2>3 DEF A!Next, A!Grant, A!Want
  <1>6. ASSUME NEW t \in Threads, Unlock(t) PROVE A!Next
    BY <1>6, UnlockSeen DEF A!Next
  <1>7. QED
    BY <1>1, <1>2, <1>3, <1>4, <1>5, <1>6 DEF Next, Resume

\* The simple lock implements the abstract lock: whatever a caller can observe
\* is a behaviour of a lock that readers share and a writer has alone.
THEOREM Implements == Safety => AbstractSafety
  <1>1. Init => A!Init
    BY SeenFacts DEF Init, A!Init, AbstractState
  <1>2. IndInv /\ [Next]_vars => [A!Next]_AbstractState
    BY StepSeen
  <1>3. QED
    BY <1>1, <1>2, Invariant, PTL DEF Safety, AbstractSafety, A!Safety
-----------------------------------------------------------------------------
(***************************************************************************)
(* The lock with its mutex explicit takes the steps of the simple lock,    *)
(* for any threads and any number of tries, so all that is proved of the   *)
(* simple lock holds of it; and the mutex is never held by a thread that   *)
(* sleeps.                                                                 *)
(***************************************************************************)
\* A step with the mutex is one body of the simple lock, or leaves its fields
\* and its threads alone.
LEMMA SpinStep == [SpinNext]_allVars => [Next]_vars
  <1> SUFFICES ASSUME [SpinNext]_allVars PROVE [Next]_vars
    OBVIOUS
  <1>1. CASE UNCHANGED allVars
    BY <1>1 DEF allVars
  <1>2. ASSUME NEW t \in Threads, NEW which, Call(t, which) PROVE UNCHANGED vars
    BY <1>2 DEF Call
  <1>3. ASSUME NEW t \in Threads, TryLock(t) \/ Block(t) \/ Leave(t)
        PROVE  UNCHANGED vars
    BY <1>3 DEF TryLock, Block, Leave
  <1>4. ASSUME NEW t \in Threads, Body(t) PROVE Next
    BY <1>4 DEF Body, InRdLock, InWrLock, InUnlock, InResume, Next
  <1>5. QED
    BY <1>1, <1>2, <1>3, <1>4 DEF SpinNext

\* The lock with its mutex implements the simple lock: one action for each
\* critical section says all that is to be said of the fields.
THEOREM SpinImplements == SpinSafety => Safety
  <1>1. SpinInit => Init
    BY DEF SpinInit
  <1>2. QED
    BY <1>1, SpinStep, PTL DEF SpinSafety, Safety

\* So a writer inside is alone, however the threads come by the mutex.
THEOREM SpinExclusion == SpinSafety => []MutualExclusion
  BY SpinImplements, Exclusion, PTL

\* And the counters count, the lock has one owner, and no wakeup is lost.
THEOREM SpinInvariant == SpinSafety => []IndInv
  BY SpinImplements, Invariant, PTL

\* And it implements the abstract lock.
THEOREM SpinImplementsAbstract == SpinSafety => AbstractSafety
  BY SpinImplements, Implements, PTL
-----------------------------------------------------------------------------
\* Nobody has the mutex or a call when the lock is initialised.
LEMMA SpinInitInv == SpinInit => SpinTypeOK /\ HolderRuns
  <1> SUFFICES ASSUME SpinInit PROVE SpinTypeOK /\ HolderRuns
    OBVIOUS
  <1>1. SpinTypeOK
    BY InitInv, SpinAssumption DEF SpinInit, SpinTypeOK, IndInv
  <1>2. HolderRuns
    BY SpinAssumption DEF SpinInit, Init, HolderRuns
  <1>3. QED
    BY <1>1, <1>2

\* A body moves its own thread to its new place, and only out of a wait for a
\* condition the others.
LEMMA BodyMoves ==
    ASSUME IndInv, NEW t \in Threads,
           RdLock(t) \/ WrLock(t) \/ Resume(t) \/ Unlock(t)
    PROVE  /\ pc' \in [Threads -> PCs]
           /\ pc'[t] \notin {"rd_woken", "wr_woken"}
           /\ \A u \in Threads \ {t} :
                  \/ pc'[u] = pc[u]
                  \/ /\ pc[u] \in {"rd_wait", "wr_wait"}
                     /\ pc'[u] \in {"rd_woken", "wr_woken"}
  <1> USE DEF IndInv, TypeOK
  <1>1. CASE RdLock(t)
    BY <1>1 DEF RdLock, Goto, PCs
  <1>2. CASE WrLock(t)
    BY <1>2 DEF WrLock, Goto, PCs
  <1>3. CASE Resume(t)
    BY <1>3 DEF Resume, RdResume, WrResume, Goto, PCs
  <1>4. CASE Unlock(t)
    <2>1. CASE BroadcastRead(t, "idle")
      BY <2>1 DEF BroadcastRead, PCs
    <2>2. CASE SignalWrite(t, "idle")
      BY <2>2 DEF SignalWrite, At, PCs
    <2>3. CASE pc' = Goto(t, "idle")
      BY <2>3 DEF Goto, PCs
    <2>4. QED
      BY <1>4, <2>1, <2>2, <2>3 DEF Unlock, UnlockWriter, UnlockReader
  <1>5. QED
    BY <1>1, <1>2, <1>3, <1>4

\* Each step keeps the types, and the mutex with a thread that runs.
LEMMA SpinStepInv ==
    ASSUME IndInv, TypeOK', SpinTypeOK, HolderRuns, [SpinNext]_allVars
    PROVE  SpinTypeOK' /\ HolderRuns'
  <1> USE SpinAssumption DEF SpinTypeOK
  <1>1. CASE UNCHANGED allVars
    BY <1>1 DEF allVars, vars, spinVars, HolderRuns
  <1>2. ASSUME NEW t \in Threads, NEW which \in {"rdlock", "wrlock", "unlock"},
               Call(t, which)
        PROVE  SpinTypeOK' /\ HolderRuns'
    BY <1>2 DEF Call, Calls, vars, HolderRuns
  <1>3. ASSUME NEW t \in Threads, TryLock(t)
        PROVE  SpinTypeOK' /\ HolderRuns'
    BY <1>3 DEF TryLock, Entering, vars, HolderRuns
  <1>4. ASSUME NEW t \in Threads, Block(t)
        PROVE  SpinTypeOK' /\ HolderRuns'
    BY <1>4 DEF Block, Entering, vars, HolderRuns
  <1>5. ASSUME NEW t \in Threads, Leave(t)
        PROVE  SpinTypeOK' /\ HolderRuns'
    BY <1>5 DEF Leave, vars, HolderRuns
  <1>6. ASSUME NEW t \in Threads, Body(t)
        PROVE  SpinTypeOK' /\ HolderRuns'
    <2>1. mutex = t /\ Depart(t)
      BY <1>6 DEF Body, InRdLock, InWrLock, InUnlock, InResume
    <2>2. RdLock(t) \/ WrLock(t) \/ Resume(t) \/ Unlock(t)
      BY <1>6 DEF Body, InRdLock, InWrLock, InUnlock, InResume
    <2>3. SpinTypeOK'
      BY <2>1 DEF Depart
    <2>4. HolderRuns'
      BY <2>1, <2>2, BodyMoves DEF Depart, HolderRuns
    <2>5. QED
      BY <2>3, <2>4
  <1>7. QED
    BY <1>1, <1>2, <1>3, <1>4, <1>5, <1>6 DEF SpinNext

\* Nobody sleeps with the mutex: pthread_cond_wait gives it back, and unlock
\* does when it has signalled.
THEOREM MutexSafe == SpinSafety => [](SpinTypeOK /\ HolderRuns)
  <1>1. IndInv => TypeOK
    BY DEF IndInv
  <1>2. SpinSafety => []IndInv
    BY SpinInvariant
  <1>3. IndInv /\ IndInv' /\ SpinTypeOK /\ HolderRuns /\ [SpinNext]_allVars
            => SpinTypeOK' /\ HolderRuns'
    BY SpinStepInv DEF IndInv
  <1>4. QED
    BY <1>2, <1>3, SpinInitInv, PTL DEF SpinSafety
-----------------------------------------------------------------------------
\* The sets the counters stand for are finite: their sizes are numbers.
OptimizedCounts == Cardinality(Readers) \in Nat /\ Cardinality(Writers) \in Nat

\* The numbers of readers and writers, and what one thread makes of them.
LEMMA OptimizedCountFacts ==
    /\ IsFiniteSet(Readers) /\ IsFiniteSet(Writers)
    /\ Cardinality(Readers) \in Nat /\ Cardinality(Writers) \in Nat
    /\ Cardinality(Readers) = 0 <=> Readers = {}
    /\ Cardinality(Writers) = 0 <=> Writers = {}
    /\ \A t : /\ t \notin Readers =>
                     Cardinality(Readers \cup {t}) = Cardinality(Readers) + 1
              /\ t \notin Writers =>
                     Cardinality(Writers \cup {t}) = Cardinality(Writers) + 1
              /\ t \in Readers =>
                     /\ Cardinality(Readers \ {t}) = Cardinality(Readers) - 1
                     /\ Cardinality(Readers) = 1 <=> Readers = {t}
              /\ t \in Writers =>
                     /\ Cardinality(Writers \ {t}) = Cardinality(Writers) - 1
                     /\ Cardinality(Writers) = 1 <=> Writers = {t}
  <1>1. IsFiniteSet(Readers) /\ IsFiniteSet(Writers)
    BY ThreadsAssumption, FS_Subset DEF Readers, Writers, At
  <1>2. \A t : /\ t \in Readers => (Cardinality(Readers) = 1 <=> Readers = {t})
               /\ t \in Writers => (Cardinality(Writers) = 1 <=> Writers = {t})
    BY <1>1, FS_Singleton
  <1>3. QED
    BY <1>1, <1>2, FS_CardinalityType, FS_EmptySet, FS_AddElement,
       FS_RemoveElement
-----------------------------------------------------------------------------
\* Nobody is in a call and the fields are 0, as my_rwlock_init leaves them.
LEMMA OptimizedInitInv == OptimizedInit => OptimizedIndInv
  <1> SUFFICES ASSUME Init, late = FALSE PROVE OptimizedIndInv
    BY DEF OptimizedInit
  <1>1. \A where : "idle" \notin where => At(where) = {}
    BY DEF Init, At
  <1>2. OptimizedTypeOK
    <2>1. late \in BOOLEAN
      BY Zenon
    <2>2. QED
      BY <2>1 DEF Init, OptimizedTypeOK, OptimizedPCs
  <1>3. Readers = {} /\ Writers = {} /\ OptimizedOwners = {}
    BY <1>1 DEF Readers, Writers, OptimizedOwners
  <1>4. CountsDrift
    BY <1>3, OptimizedCountFacts DEF Init, CountsDrift
  <1>5. OneOwner
    BY <1>3 DEF Init, OneOwner
  <1>6. QED
    BY <1>1, <1>2, <1>4, <1>5
       DEF OptimizedIndInv, DriftBounded, NoReaderStranded

\* rdlock: one more reader, counted once.
LEMMA OptimizedRdLockInv ==
    ASSUME OptimizedIndInv, late' \in BOOLEAN, NEW t \in Threads, RdLock(t)
    PROVE  OptimizedIndInv'
  <1> USE DEF OptimizedIndInv, DriftBounded
  <1>1. OptimizedTypeOK'
    BY DEF OptimizedTypeOK, OptimizedPCs, RdLock, Goto
  <1>2. Readers' = Readers \cup {t} /\ t \notin Readers /\ Writers' = Writers
    BY DEF OptimizedTypeOK, RdLock, Goto, Readers, Writers, At
  <1>3. CountsDrift' /\ OptimizedCounts
    <2>1. Cardinality(Readers') = Cardinality(Readers) + 1 /\ OptimizedCounts
      BY <1>2, OptimizedCountFacts, Zenon DEF OptimizedCounts
    <2>2. QED
      BY <1>2, <2>1 DEF OptimizedTypeOK, RdLock, CountsDrift, OptimizedCounts
  <1>4. OptimizedOwners' = OptimizedOwners
    BY DEF OptimizedTypeOK, RdLock, Goto, OptimizedOwners, At
  <1>5. OneOwner'
    <2>1. Cardinality(Readers') = Cardinality(Readers) + 1
      BY <1>2, OptimizedCountFacts, Zenon
    <2>2. QED
      BY <1>3, <1>4, <2>1 DEF OptimizedTypeOK, RdLock, OneOwner, OptimizedCounts
  <1>6. At({"signal"})' = At({"signal"}) /\ At({"wr_wait"})' = At({"wr_wait"})
    BY DEF OptimizedTypeOK, RdLock, Goto, At
  <1>7. NoReaderStranded'
    BY 
       DEF OptimizedTypeOK, OneOwner, NoReaderStranded, OptimizedOwners, At,
           RdLock, Goto
  <1>8. QED
    BY <1>1, <1>3, <1>5, <1>6, <1>7

\* wrlock: an owner only where writing is 0 and no reader is counted: then none
\* is counted too many, and nobody owns the lock.
LEMMA OptimizedWrLockInv ==
    ASSUME OptimizedIndInv, late' \in BOOLEAN, NEW t \in Threads, WrLock(t)
    PROVE  OptimizedIndInv'
  <1> USE DEF OptimizedIndInv, DriftBounded
  <1>1. OptimizedTypeOK'
    BY DEF OptimizedTypeOK, OptimizedPCs, WrLock, Goto
  <1>2. Writers' = Writers \cup {t} /\ t \notin Writers /\ Readers' = Readers
    BY DEF OptimizedTypeOK, WrLock, Goto, Readers, Writers, At
  <1>3. CountsDrift'
    <2>1. Cardinality(Writers') = Cardinality(Writers) + 1 /\ OptimizedCounts
      BY <1>2, OptimizedCountFacts, Zenon DEF OptimizedCounts
    <2>2. QED
      BY <1>2, <2>1 DEF OptimizedTypeOK, WrLock, CountsDrift, OptimizedCounts
  <1>4. CASE pc' = Goto(t, "wr_wait") /\ writing' = writing
    <2>1. OptimizedOwners' = OptimizedOwners
      BY <1>4 DEF OptimizedTypeOK, WrLock, Goto, OptimizedOwners, At
    <2>2. OneOwner'
      BY <1>2, <1>4, <2>1 DEF WrLock, OneOwner
    <2>3. /\ At({"wr_wait"})' # {}
          /\ NoReaderStranded'
      BY <1>4 DEF OptimizedTypeOK, NoReaderStranded, At, Goto, WrLock
    <2>4. QED
      BY <1>1, <1>3, <2>2, <2>3
  <1>5. CASE /\ writing = 0 /\ reader_cnt <= 0
             /\ pc' = Goto(t, "wr_held") /\ writing' = 1
    <2>1. OptimizedOwners = {}
      BY <1>5, OptimizedCountFacts DEF OptimizedTypeOK, CountsDrift, OneOwner
    <2>2. OptimizedOwners' = {t}
      BY <1>5, <2>1 DEF OptimizedTypeOK, Goto, OptimizedOwners, At
    <2>3. OneOwner'
      BY <1>5, <2>2 DEF OneOwner
    <2>4. At({"signal"})' = {} /\ NoReaderStranded'
      BY <1>5, <2>1
         DEF OptimizedTypeOK, NoReaderStranded, OptimizedOwners, At, Goto,
             WrLock
    <2>5. QED
      BY <1>1, <1>3, <2>3, <2>4
  <1>6. QED
    BY <1>4, <1>5 DEF WrLock

\* A woken thread goes in: it changes neither the counts nor the owner.
LEMMA OptimizedResumeInv ==
    ASSUME OptimizedIndInv, late' \in BOOLEAN, NEW t \in Threads, Resume(t)
    PROVE  OptimizedIndInv'
  <1> USE DEF OptimizedIndInv, DriftBounded
  <1>1. OptimizedTypeOK'
    BY 
       DEF OptimizedTypeOK, OptimizedPCs, Resume, RdResume, WrResume, Goto,
           fields
  <1>2. Readers' = Readers /\ Writers' = Writers /\ OptimizedOwners' = OptimizedOwners
    BY 
       DEF OptimizedTypeOK, Resume, RdResume, WrResume, Goto, Readers, Writers,
           OptimizedOwners, At
  <1>3. /\ reader_cnt' = reader_cnt /\ writer_cnt' = writer_cnt
        /\ writing' = writing \/ (writing' = 1 /\ t \in OptimizedOwners)
    BY DEF Resume, RdResume, WrResume, fields, OptimizedOwners, At
  <1>4. CountsDrift' /\ OneOwner'
    BY <1>2, <1>3 DEF CountsDrift, OneOwner
  <1>5. /\ At({"signal"})' = At({"signal"}) /\ At({"wr_wait"})' = At({"wr_wait"})
        /\ At({"rd_wait"})' = At({"rd_wait"})
        /\ At({"broadcast"})' = At({"broadcast"})
    BY DEF OptimizedTypeOK, Resume, RdResume, WrResume, Goto, At
  <1>6. NoReaderStranded'
    BY <1>2, <1>5 DEF NoReaderStranded, OptimizedOwners, At
  <1>7. QED
    BY <1>1, <1>4, <1>5, <1>6
-----------------------------------------------------------------------------
\* unlock by a thread that may not be the writer it takes itself for: it leaves
\* the counts as far apart as they were, or a reader raises the surplus, or the
\* owner uses it up.
LEMMA UnlockCounts ==
    ASSUME OptimizedIndInv, late' \in BOOLEAN, NEW t \in Threads, OptimizedUnlock(t)
    PROVE  /\ OptimizedTypeOK'
           /\ CountsDrift'
           /\ pc'[t] \in {"broadcast", "signal", "idle"}
           /\ pc' = Goto(t, pc'[t])
  <1> USE DEF OptimizedIndInv, DriftBounded
  <1>1. PICK where \in {"broadcast", "signal", "idle"} : pc' = Goto(t, where)
    BY DEF OptimizedUnlock, OptimizedUnlockWriter, OptimizedUnlockReader
  <1>2. where = pc'[t]
    BY <1>1 DEF OptimizedTypeOK, Goto
  <1>3. OptimizedTypeOK'
    BY <1>1
       DEF OptimizedTypeOK, OptimizedPCs, Goto, OptimizedUnlock,
           OptimizedUnlockWriter, OptimizedUnlockReader
  <1>4. CASE pc[t] = "rd_held"
    <2>1. Readers' = Readers \ {t} /\ t \in Readers /\ Writers' = Writers
      BY <1>1, <1>4 DEF OptimizedTypeOK, Goto, Readers, Writers, At
    <2>2. Cardinality(Readers') = Cardinality(Readers) - 1 /\ OptimizedCounts
      BY <2>1, OptimizedCountFacts, Zenon DEF OptimizedCounts
    <2>3. CountsDrift'
      BY <2>1, <2>2
         DEF OptimizedTypeOK, CountsDrift, OptimizedCounts, OptimizedUnlock,
             OptimizedUnlockWriter, OptimizedUnlockReader
    <2>4. QED
      BY <1>1, <1>2, <1>3, <2>3
  <1>5. CASE pc[t] = "wr_held"
    <2>1. /\ Writers' = Writers \ {t} /\ t \in Writers /\ Readers' = Readers
          /\ t \in OptimizedOwners
      BY <1>1, <1>5
         DEF OptimizedTypeOK, Goto, Readers, Writers, OptimizedOwners, At
    <2>2. Cardinality(Writers') = Cardinality(Writers) - 1 /\ OptimizedCounts
      BY <2>1, OptimizedCountFacts, Zenon DEF OptimizedCounts
    <2>3. CountsDrift'
      BY <2>1, <2>2
         DEF OptimizedTypeOK, CountsDrift, OneOwner, OptimizedCounts,
             OptimizedUnlock, OptimizedUnlockWriter, OptimizedUnlockReader
    <2>4. QED
      BY <1>1, <1>2, <1>3, <2>3
  <1>6. QED
    BY <1>4, <1>5
       DEF OptimizedUnlock, OptimizedUnlockWriter, OptimizedUnlockReader

\* The thread that unlocks owes a broadcast: the owner stays the owner, or
\* leaves.
LEMMA UnlockToBroadcast ==
    ASSUME OptimizedIndInv, late' \in BOOLEAN, NEW t \in Threads, OptimizedUnlock(t),
           pc'[t] = "broadcast"
    PROVE  OptimizedIndInv'
  <1> USE DEF OptimizedIndInv, DriftBounded
  <1>1. /\ OptimizedTypeOK' /\ CountsDrift' /\ pc' = Goto(t, "broadcast")
        /\ pc[t] \in {"rd_held", "wr_held"}
    BY UnlockCounts
       DEF OptimizedUnlock, OptimizedUnlockWriter, OptimizedUnlockReader
  <1>2. /\ At({"signal"})' = At({"signal"}) /\ At({"wr_wait"})' = At({"wr_wait"})
        /\ At({"broadcast"})' # {}
    BY <1>1 DEF OptimizedTypeOK, Goto, At
  <1>3. /\ OptimizedOwners' = OptimizedOwners \ {t}
        /\ (pc[t] = "wr_held" <=> t \in OptimizedOwners)
    BY <1>1 DEF OptimizedTypeOK, Goto, OptimizedOwners, At
  <1>4. writing' = 0
    BY <1>1
       DEF OptimizedTypeOK, Goto, OptimizedUnlock, OptimizedUnlockWriter,
           OptimizedUnlockReader
  <1>5. CASE pc[t] = "wr_held"
    BY <1>1, <1>2, <1>3, <1>4, <1>5
       DEF OneOwner, NoReaderStranded, At
  <1>6. CASE pc[t] = "rd_held"
    <2>1. Readers' = Readers \ {t} /\ t \in Readers
      BY <1>1, <1>6 DEF OptimizedTypeOK, Goto, Readers, At
    <2>2. Cardinality(Readers') = Cardinality(Readers) - 1 /\ OptimizedCounts
      BY <2>1, OptimizedCountFacts, Zenon DEF OptimizedCounts
    <2>3. CASE writing = 1
      <3>1. reader_cnt' = reader_cnt
        BY <2>3
           DEF OptimizedUnlock, OptimizedUnlockWriter, OptimizedUnlockReader
      <3>2. reader_cnt' > Cardinality(Readers')
        BY <2>2, <3>1 DEF OptimizedTypeOK, CountsDrift, OptimizedCounts
      <3>3. OneOwner'
        BY <1>3, <1>4, <1>6, <3>2 DEF OneOwner
      <3>4. QED
        BY <1>1, <1>2, <3>3 DEF NoReaderStranded, At
    <2>4. CASE writing = 0
      <3>1. reader_cnt' = reader_cnt - 1
        BY <2>4
           DEF OptimizedUnlock, OptimizedUnlockWriter, OptimizedUnlockReader
      <3>2. OneOwner'
        BY <1>3, <1>4, <1>6, <2>2, <2>4, <3>1
           DEF OptimizedTypeOK, OneOwner, OptimizedCounts
      <3>3. QED
        BY <1>1, <1>2, <3>2 DEF NoReaderStranded, At
    <2>5. QED
      BY <2>3, <2>4 DEF OptimizedTypeOK
  <1>7. QED
    BY <1>1, <1>5, <1>6

\* The thread that unlocks owes nobody anything, or owes a writer the lock: no
\* reader is left, nor counted, and nobody else owns the lock.
LEMMA UnlockToWriters ==
    ASSUME OptimizedIndInv, late' \in BOOLEAN, NEW t \in Threads, OptimizedUnlock(t),
           pc'[t] # "broadcast"
    PROVE  OptimizedIndInv'
  <1> USE DEF OptimizedIndInv, DriftBounded
  <1>1. /\ OptimizedTypeOK' /\ CountsDrift' /\ pc' = Goto(t, pc'[t])
        /\ pc[t] \in {"rd_held", "wr_held"} /\ pc'[t] \in {"signal", "idle"}
    BY UnlockCounts
       DEF OptimizedUnlock, OptimizedUnlockWriter, OptimizedUnlockReader
  <1>2. /\ Readers' = Readers \ {t}
        /\ Writers' = Writers \ {t}
        /\ pc[t] = "rd_held" => t \in Readers /\ t \notin Writers
        /\ pc[t] = "wr_held" => t \in Writers /\ t \in OptimizedOwners
    BY <1>1 DEF OptimizedTypeOK, Goto, Readers, Writers, OptimizedOwners, At
  <1>3. /\ reader_cnt' <= 0
        /\ pc'[t] = "signal" => writer_cnt' > 0 /\ writing' = 1
        /\ pc'[t] = "idle" => writing' = 0
        /\ reader_cnt' = IF writing = 0 THEN reader_cnt - 1 ELSE reader_cnt
    BY <1>1
       DEF OptimizedTypeOK, Goto, OptimizedUnlock, OptimizedUnlockWriter,
           OptimizedUnlockReader
  <1>4. reader_cnt' = 0 /\ Readers' = {} /\ IsFiniteSet(Writers')
    <2>1. IsFiniteSet(Readers') /\ IsFiniteSet(Writers')
      BY <1>2, OptimizedCountFacts, FS_Subset
    <2>2. Cardinality(Readers') \in Nat /\ reader_cnt' \in Int
      BY <1>1, <2>1, FS_CardinalityType DEF OptimizedTypeOK
    <2>3. reader_cnt' <= 0 /\ reader_cnt' >= Cardinality(Readers')
      BY <1>1, <1>3 DEF CountsDrift
    <2>4. reader_cnt' = 0 /\ Cardinality(Readers') = 0
      BY <2>2, <2>3
    <2>5. QED
      BY <2>1, <2>4, FS_EmptySet
  <1>5. OptimizedOwners \ {t} = {}
    <2>1. CASE pc[t] = "wr_held"
      BY <1>2, <2>1 DEF OneOwner
    <2>2. CASE pc[t] = "rd_held"
      <3>1. Cardinality(Readers) = 1
        BY <1>2, <1>4, <2>2, OptimizedCountFacts
      <3>2. writing = 0 /\ reader_cnt = 1
        BY <1>3, <1>4, <3>1 DEF OptimizedTypeOK, CountsDrift
      <3>3. QED
        BY <3>1, <3>2 DEF OneOwner
    <2>3. QED
      BY <1>1, <2>1, <2>2
  <1>6. OptimizedOwners' = IF pc'[t] = "signal" THEN {t} ELSE {}
    BY <1>1, <1>5 DEF OptimizedTypeOK, Goto, OptimizedOwners, At
  <1>7. OneOwner'
    BY <1>1, <1>3, <1>6 DEF OneOwner
  <1>8. At({"signal"})' # {} => At({"wr_wait"})' # {}
    <2> SUFFICES ASSUME At({"signal"})' # {} PROVE At({"wr_wait"})' # {}
      OBVIOUS
    <2>1. pc'[t] = "signal"
      BY <1>6 DEF OptimizedOwners, At
    <2>2. Cardinality(Readers') = 0 /\ writer_cnt' > 0
      BY <1>3, <1>4, <2>1, FS_EmptySet
    <2>3. Cardinality(Writers') # 0
      BY <1>1, <1>4, <2>2 DEF CountsDrift, OptimizedTypeOK
    <2>4. Writers' # {}
      BY <2>3, FS_EmptySet
    <2>5. PICK w \in Threads : pc'[w] \in {"wr_wait", "wr_woken", "wr_held"}
      BY <2>4 DEF Writers, At
    <2>6. w \notin OptimizedOwners' \/ w = t
      BY <1>6
    <2>7. QED
      BY <2>1, <2>5, <2>6 DEF OptimizedOwners, At
  <1>9. NoReaderStranded'
    BY <1>4 DEF NoReaderStranded, Readers, At
  <1>10. QED
    BY <1>1, <1>7, <1>8, <1>9
-----------------------------------------------------------------------------
\* The broadcast moves every reader that waits on: none is left to strand.
LEMMA BroadcastInv ==
    ASSUME OptimizedIndInv, late' \in BOOLEAN, UNCHANGED fields, NEW t \in Threads,
           pc[t] = "broadcast", BroadcastRead(t, "idle")
    PROVE  OptimizedIndInv'
  <1> USE DEF OptimizedIndInv, DriftBounded
  <1>1. OptimizedTypeOK'
    BY DEF OptimizedTypeOK, OptimizedPCs, BroadcastRead, fields
  <1>2. Readers' = Readers /\ Writers' = Writers /\ OptimizedOwners' = OptimizedOwners
    BY DEF OptimizedTypeOK, BroadcastRead, Readers, Writers, OptimizedOwners, At
  <1>3. CountsDrift' /\ OneOwner'
    BY <1>2 DEF CountsDrift, OneOwner, fields
  <1>4. /\ At({"signal"})' = At({"signal"}) /\ At({"wr_wait"})' = At({"wr_wait"})
        /\ At({"rd_wait"})' = {}
    BY DEF OptimizedTypeOK, BroadcastRead, At
  <1>5. QED
    BY <1>1, <1>3, <1>4 DEF NoReaderStranded, At

\* The signal finds a writer, which takes the ownership over.
LEMMA SignalInv ==
    ASSUME OptimizedIndInv, late' \in BOOLEAN, UNCHANGED fields, NEW t \in Threads,
           pc[t] = "signal", SignalWrite(t, "idle")
    PROVE  OptimizedIndInv'
  <1> USE DEF OptimizedIndInv, DriftBounded
  <1>1. t \in OptimizedOwners /\ At({"wr_wait"}) # {}
    BY DEF OptimizedOwners, At
  <1>2. PICK w \in At({"wr_wait"}) :
            pc' = [pc EXCEPT ![w] = "wr_woken", ![t] = "idle"]
    BY <1>1 DEF SignalWrite
  <1>3. w \in Threads /\ pc[w] = "wr_wait" /\ w # t
    BY DEF At
  <1>4. OptimizedTypeOK'
    BY <1>2, <1>3 DEF OptimizedTypeOK, OptimizedPCs, fields
  <1>5. Readers' = Readers /\ Writers' = Writers /\ OptimizedOwners' = {w}
    BY <1>1, <1>2, <1>3
       DEF OptimizedTypeOK, OneOwner, Readers, Writers, OptimizedOwners, At
  <1>6. CountsDrift' /\ OneOwner'
    BY <1>1, <1>5 DEF CountsDrift, OneOwner, fields
  <1>7. pc'[w] = "wr_woken" /\ At({"signal"})' = {}
    BY <1>2, <1>3, <1>5 DEF OptimizedTypeOK, OptimizedOwners, At
  <1>8. QED
    BY <1>3, <1>4, <1>6, <1>7 DEF NoReaderStranded, At
-----------------------------------------------------------------------------
\* The invariant is inductive: each call preserves it.
LEMMA OptimizedNextInv ==
    OptimizedIndInv /\ [OptimizedNext]_<<vars, late>> => OptimizedIndInv'
  <1> SUFFICES ASSUME OptimizedIndInv, [OptimizedNext]_<<vars, late>>
               PROVE  OptimizedIndInv'
    OBVIOUS
  <1>1. CASE UNCHANGED <<vars, late>>
    BY <1>1
       DEF vars, OptimizedIndInv, DriftBounded, OptimizedTypeOK, CountsDrift,
           OneOwner, NoReaderStranded, Readers, Writers, OptimizedOwners, At
  <1>2. CASE OptimizedNext
    <2>1. late' \in BOOLEAN
      BY <1>2 DEF OptimizedNext, OptimizedIndInv, DriftBounded, OptimizedTypeOK
    <2>2. PICK t \in Threads :
              RdLock(t) \/ WrLock(t) \/ Resume(t) \/ OptimizedUnlock(t) \/ Notify(t)
      BY <1>2 DEF OptimizedNext
    <2>3. CASE RdLock(t) \/ WrLock(t) \/ Resume(t)
      BY <2>1, <2>3, OptimizedRdLockInv, OptimizedWrLockInv, OptimizedResumeInv
    <2>4. CASE OptimizedUnlock(t)
      BY <2>1, <2>4, UnlockToBroadcast, UnlockToWriters
    <2>5. CASE Notify(t)
      BY <2>1, <2>5, BroadcastInv, SignalInv DEF Notify
    <2>6. QED
      BY <2>2, <2>3, <2>4, <2>5
  <1>3. QED
    BY <1>1, <1>2

\* The invariant, for any number of threads: the drift, the owner and the
\* wakeups owed hold each other up.
THEOREM OptimizedInvariant == OptimizedSafety => []OptimizedIndInv
  BY OptimizedInitInv, OptimizedNextInv, PTL DEF OptimizedSafety

\* unlock mistakes a reader for the writer and the writer for a reader, but
\* the counters and the owner stay within what keeps the lock going.
THEOREM DriftKept == OptimizedSafety => []DriftBounded
  BY OptimizedInvariant, PTL DEF OptimizedIndInv

\* A reader that waits has an owner, or a notification owed, to wait for.
THEOREM ReadersKept == OptimizedSafety => []NoReaderStranded
  BY OptimizedInvariant, PTL DEF OptimizedIndInv

\* Two writers are never inside together, late as the wakeups may be.
THEOREM WriterAlone == OptimizedSafety => []WritersExclusive
  <1>1. OptimizedIndInv => WritersExclusive
    BY 
       DEF OptimizedIndInv, DriftBounded, OneOwner, OptimizedOwners, At,
           WritersExclusive
  <1>2. QED
    BY <1>1, OptimizedInvariant, PTL
-----------------------------------------------------------------------------
\* What holds until a broadcast is late: readers are counted as they are, an
\* owner has the lock alone, and only one thread owes a broadcast, which is the
\* one that has just left, so that nobody owns the lock.
PromptInv ==
    ~late =>
        /\ reader_cnt = Cardinality(Readers)
        /\ OptimizedOwners # {} => At({"rd_woken", "rd_held", "broadcast"}) = {}
        /\ \A t, u \in At({"broadcast"}) : t = u

\* A step that is in time is by the thread that owes the broadcast, if any does.
LEMMA PromptFacts ==
    ASSUME OptimizedIndInv, PromptInv, ~late
    PROVE  /\ pc \in [Threads -> OptimizedPCs]
           /\ reader_cnt = Cardinality(Readers)
           /\ writing = 0 <=> OptimizedOwners = {}
           /\ \A t, u \in OptimizedOwners : t = u
           /\ \A t \in Threads : pc[t] \in {"rd_woken", "rd_held", "broadcast"}
                                     => OptimizedOwners = {}
           /\ reader_cnt \in Nat
           /\ reader_cnt <= 0 => Readers = {}
  <1>1. reader_cnt = Cardinality(Readers) /\ OptimizedTypeOK /\ OneOwner
    BY DEF PromptInv, OptimizedIndInv, DriftBounded
  <1>2. reader_cnt \in Nat /\ (reader_cnt <= 0 => Readers = {})
    BY <1>1, OptimizedCountFacts
  <1>3. writing = 0 <=> OptimizedOwners = {}
    BY <1>1, <1>2 DEF OneOwner, OptimizedTypeOK
  <1>4. QED
    BY <1>1, <1>2, <1>3 DEF OneOwner, OptimizedTypeOK, PromptInv, At

\* Until a broadcast is late every step keeps it so.
LEMMA PromptNext ==
    OptimizedIndInv /\ PromptInv /\ [OptimizedNext]_<<vars, late>> => PromptInv'
  <1> SUFFICES ASSUME OptimizedIndInv, PromptInv, [OptimizedNext]_<<vars, late>>, ~late'
               PROVE  PromptInv'
    BY DEF PromptInv
  <1>1. CASE UNCHANGED <<vars, late>>
    BY <1>1 DEF vars, PromptInv, Readers, OptimizedOwners, At
  <1>2. CASE OptimizedNext
    <2>1. PICK t \in Threads :
              /\ RdLock(t) \/ WrLock(t) \/ Resume(t) \/ OptimizedUnlock(t) \/ Notify(t)
              /\ late' = (late \/ At({"broadcast"}) \ {t} # {})
      BY <1>2 DEF OptimizedNext
    <2>2. ~late /\ At({"broadcast"}) \subseteq {t}
      BY <2>1
    <2>3. /\ pc \in [Threads -> OptimizedPCs]
          /\ reader_cnt = Cardinality(Readers)
          /\ writing = 0 <=> OptimizedOwners = {}
          /\ \A r, u \in OptimizedOwners : r = u
          /\ \A u \in Threads : pc[u] \in {"rd_woken", "rd_held", "broadcast"}
                                     => OptimizedOwners = {}
          /\ reader_cnt \in Nat
          /\ reader_cnt <= 0 => Readers = {}
      BY <2>2, PromptFacts
    <2>4. ASSUME reader_cnt' = Cardinality(Readers'),
                 \A r, u \in Threads : pc'[r] \in {"signal", "wr_woken", "wr_held"}
                     => pc'[u] \notin {"rd_woken", "rd_held", "broadcast"},
                 At({"broadcast"})' \subseteq {t}
          PROVE  PromptInv'
      BY <2>4 DEF PromptInv, OptimizedOwners, At
    <2>5. \A r \in Threads : /\ r \in OptimizedOwners <=>
                                    pc[r] \in {"signal", "wr_woken", "wr_held"}
                             /\ r \in Readers <=>
                                    pc[r] \in {"rd_wait", "rd_woken", "rd_held"}
                             /\ r # t => pc[r] # "broadcast"
      BY <2>2 DEF OptimizedOwners, Readers, At
    <2>6. CASE RdLock(t)
      <3>1. Readers' = Readers \cup {t} /\ t \notin Readers
        BY <2>3, <2>6 DEF RdLock, Goto, Readers, At
      <3>2. reader_cnt' = Cardinality(Readers')
        BY <2>3, <2>6, <3>1, OptimizedCountFacts DEF RdLock
      <3>3. \A r, u \in Threads : pc'[r] \in {"signal", "wr_woken", "wr_held"}
                     => pc'[u] \notin {"rd_woken", "rd_held", "broadcast"}
        BY <2>3, <2>5, <2>6 DEF RdLock, Goto
      <3>4. At({"broadcast"})' \subseteq {t}
        BY <2>3, <2>5, <2>6 DEF RdLock, Goto, At
      <3>5. QED
        BY <2>4, <3>2, <3>3, <3>4
    <2>7. CASE WrLock(t)
      <3>1. Readers' = Readers
        BY <2>3, <2>7 DEF WrLock, Goto, Readers, At
      <3>2. reader_cnt' = Cardinality(Readers')
        BY <2>3, <2>7, <3>1 DEF WrLock
      <3>3. \A r, u \in Threads : pc'[r] \in {"signal", "wr_woken", "wr_held"}
                     => pc'[u] \notin {"rd_woken", "rd_held", "broadcast"}
        BY <2>3, <2>5, <2>7 DEF WrLock, Goto
      <3>4. At({"broadcast"})' \subseteq {t}
        BY <2>3, <2>5, <2>7 DEF WrLock, Goto, At
      <3>5. QED
        BY <2>4, <3>2, <3>3, <3>4
    <2>8. CASE Resume(t)
      <3>1. Readers' = Readers
        BY <2>3, <2>8 DEF Resume, RdResume, WrResume, Goto, Readers, At
      <3>2. reader_cnt' = Cardinality(Readers')
        BY <2>3, <2>8, <3>1 DEF Resume, RdResume, WrResume, fields
      <3>3. \A r, u \in Threads : pc'[r] \in {"signal", "wr_woken", "wr_held"}
                     => pc'[u] \notin {"rd_woken", "rd_held", "broadcast"}
        BY <2>3, <2>5, <2>8 DEF Resume, RdResume, WrResume, Goto
      <3>4. At({"broadcast"})' \subseteq {t}
        BY <2>3, <2>5, <2>8 DEF Resume, RdResume, WrResume, Goto, At
      <3>5. QED
        BY <2>4, <3>2, <3>3, <3>4
    <2>9. CASE OptimizedUnlockWriter(t)
      <3>1. pc[t] = "wr_held" /\ t \in OptimizedOwners
        BY <2>3, <2>5, <2>9 DEF OptimizedUnlockWriter
      <3>2. Readers' = Readers
        BY <2>3, <2>9, <3>1 DEF OptimizedUnlockWriter, Goto, Readers, At
      <3>3. reader_cnt' = Cardinality(Readers')
        BY <2>3, <2>9, <3>2 DEF OptimizedUnlockWriter
      <3>4. \A u \in Threads \ {t} : pc[u] \notin {"signal", "wr_woken", "wr_held"}
        BY <2>3, <2>5, <3>1
      <3>5. \A r, u \in Threads : pc'[r] \in {"signal", "wr_woken", "wr_held"}
                     => pc'[u] \notin {"rd_woken", "rd_held", "broadcast"}
        BY <2>3, <2>5, <2>9, <3>1, <3>4 DEF OptimizedUnlockWriter, Goto
      <3>6. At({"broadcast"})' \subseteq {t}
        BY <2>3, <2>5, <2>9 DEF OptimizedUnlockWriter, Goto, At
      <3>7. QED
        BY <2>4, <3>3, <3>5, <3>6
    <2>10. CASE OptimizedUnlockReader(t)
      <3>1. pc[t] = "rd_held" /\ OptimizedOwners = {} /\ t \in Readers
        BY <2>3, <2>5, <2>10 DEF OptimizedUnlockReader
      <3>2. Readers' = Readers \ {t}
        BY <2>3, <2>10, <3>1 DEF OptimizedUnlockReader, Goto, Readers, At
      <3>3. reader_cnt' = Cardinality(Readers')
        BY <2>3, <2>10, <3>1, <3>2, OptimizedCountFacts DEF OptimizedUnlockReader
      <3>4. reader_cnt' <= 0 => Readers' = {}
        <4>1. IsFiniteSet(Readers')
          BY <3>2, OptimizedCountFacts, FS_Subset
        <4>2. QED
          BY <3>3, <4>1, FS_CardinalityType, FS_EmptySet
      <3>5. \A r, u \in Threads : pc'[r] \in {"signal", "wr_woken", "wr_held"}
                     => pc'[u] \notin {"rd_woken", "rd_held", "broadcast"}
        BY <2>3, <2>5, <2>10, <3>1, <3>2, <3>4 DEF OptimizedUnlockReader, Goto
      <3>6. At({"broadcast"})' \subseteq {t}
        BY <2>3, <2>5, <2>10 DEF OptimizedUnlockReader, Goto, At
      <3>7. QED
        BY <2>4, <3>3, <3>5, <3>6
    <2>11. CASE pc[t] = "broadcast" /\ BroadcastRead(t, "idle") /\ UNCHANGED fields
      <3>1. OptimizedOwners = {}
        BY <2>3, <2>11
      <3>2. Readers' = Readers
        BY <2>3, <2>11 DEF BroadcastRead, Readers, At
      <3>3. reader_cnt' = Cardinality(Readers')
        BY <2>3, <2>11, <3>2 DEF fields
      <3>4. \A r, u \in Threads : pc'[r] \in {"signal", "wr_woken", "wr_held"}
                     => pc'[u] \notin {"rd_woken", "rd_held", "broadcast"}
        BY <2>5, <2>11, <3>1 DEF BroadcastRead
      <3>5. At({"broadcast"})' \subseteq {t}
        BY <2>5, <2>11 DEF BroadcastRead, At
      <3>6. QED
        BY <2>4, <3>3, <3>4, <3>5
    <2>12. CASE pc[t] = "signal" /\ SignalWrite(t, "idle") /\ UNCHANGED fields
      <3>1. t \in OptimizedOwners
        BY <2>5, <2>12
      <3>2. PICK w \in Threads : /\ w = t \/ pc[w] = "wr_wait"
                                 /\ pc' = [pc EXCEPT ![w] = "wr_woken", ![t] = "idle"]
        BY <2>12 DEF SignalWrite, At
      <3>3. Readers' = Readers
        BY <2>3, <2>12, <3>2 DEF Readers, At
      <3>4. reader_cnt' = Cardinality(Readers')
        BY <2>3, <2>12, <3>3 DEF fields
      <3>5. \A r, u \in Threads : pc'[r] \in {"signal", "wr_woken", "wr_held"}
                     => pc'[u] \notin {"rd_woken", "rd_held", "broadcast"}
        BY <2>3, <2>5, <2>12, <3>1, <3>2
      <3>6. At({"broadcast"})' \subseteq {t}
        BY <2>3, <2>5, <2>12, <3>2 DEF At
      <3>7. QED
        BY <2>4, <3>4, <3>5, <3>6
    <2>13. QED
      BY <2>1, <2>6, <2>7, <2>8, <2>9, <2>10, <2>11, <2>12 DEF OptimizedUnlock, Notify
  <1>3. QED
    BY <1>1, <1>2

\* With no writer inside among the others a reader may go in, and a writer if
\* no reader is there either.
LEMMA OptimizedFree ==
    ASSUME NEW t \in Threads, \A u \in Threads \ {t} : pc[u] # "wr_held"
    PROVE  /\ A!Free(t, "reading")
           /\ (\A u \in Threads \ {t} : pc[u] # "rd_held") => A!Free(t, "writing")
  <1>1. \A u \in Threads :
            /\ pc[u] # "wr_held" => AbstractState[u] # "writing"
            /\ pc[u] # "rd_held" => AbstractState[u] # "reading"
    BY DEF Seen, AbstractState
  <1>2. QED
    BY <1>1 DEF A!Free

\* Until a broadcast is late, a step is one of the abstract lock or none.
LEMMA PromptStep ==
    OptimizedIndInv /\ PromptInv /\ [OptimizedNext]_<<vars, late>>
        => [~late' => [A!Next]_AbstractState]_<<vars, late>>
  <1> SUFFICES ASSUME OptimizedIndInv, PromptInv, OptimizedNext, ~late'
               PROVE  [A!Next]_AbstractState
    OBVIOUS
  <1>1. PICK t \in Threads :
            /\ RdLock(t) \/ WrLock(t) \/ Resume(t) \/ OptimizedUnlock(t) \/ Notify(t)
            /\ late' = (late \/ At({"broadcast"}) \ {t} # {})
    BY DEF OptimizedNext
  <1>2. /\ pc \in [Threads -> OptimizedPCs]
        /\ writing = 0 <=> OptimizedOwners = {}
        /\ \A r, u \in OptimizedOwners : r = u
        /\ \A u \in Threads : pc[u] \in {"rd_woken", "rd_held", "broadcast"}
                                   => OptimizedOwners = {}
        /\ reader_cnt <= 0 => Readers = {}
    BY <1>1, PromptFacts
  <1>3. \A r \in Threads : /\ r \in OptimizedOwners <=>
                                  pc[r] \in {"signal", "wr_woken", "wr_held"}
                           /\ r \in Readers <=>
                                  pc[r] \in {"rd_wait", "rd_woken", "rd_held"}
    BY DEF OptimizedOwners, Readers, At
  <1>4. Seen("broadcast") = "idle" /\ Seen("signal") = "idle"
    BY DEF Seen
  <1>5. ASSUME NEW where, pc' = Goto(t, where)
        PROVE  AbstractState' = [AbstractState EXCEPT ![t] = Seen(where)]
    BY <1>2, <1>5 DEF Goto, AbstractState
  <1>6. AbstractState[t] = Seen(pc[t])
    BY DEF AbstractState
  <1>7. CASE RdLock(t)
    <2>1. AbstractState[t] = "idle"
      BY <1>6, <1>7, SeenFacts DEF RdLock
    <2>2. CASE writing # 0
      <3>1. AbstractState' = [AbstractState EXCEPT ![t] = "want_rd"]
        BY <1>5, <1>7, <2>2, SeenFacts DEF RdLock
      <3>2. QED
        BY <2>1, <3>1 DEF A!Next, A!Request, A!Want
    <2>3. CASE writing = 0
      <3>1. AbstractState' = [AbstractState EXCEPT ![t] = "reading"]
        BY <1>5, <1>7, <2>3, SeenFacts DEF RdLock
      <3>2. A!Free(t, "reading")
        BY <1>2, <1>3, <2>3, OptimizedFree
      <3>3. QED
        BY <2>1, <3>1, <3>2 DEF A!Next, A!AcquireAtOnce
    <2>4. QED
      BY <2>2, <2>3
  <1>8. CASE WrLock(t)
    <2>1. AbstractState[t] = "idle"
      BY <1>6, <1>8, SeenFacts DEF WrLock
    <2>2. CASE pc' = Goto(t, "wr_wait")
      <3>1. AbstractState' = [AbstractState EXCEPT ![t] = "want_wr"]
        BY <1>5, <2>2, SeenFacts
      <3>2. QED
        BY <2>1, <3>1 DEF A!Next, A!Request, A!Want
    <2>3. CASE writing = 0 /\ reader_cnt <= 0 /\ pc' = Goto(t, "wr_held")
      <3>1. AbstractState' = [AbstractState EXCEPT ![t] = "writing"]
        BY <1>5, <2>3, SeenFacts
      <3>2. A!Free(t, "writing")
        BY <1>2, <1>3, <2>3, OptimizedFree
      <3>3. QED
        BY <2>1, <3>1, <3>2 DEF A!Next, A!AcquireAtOnce
    <2>4. QED
      BY <1>8, <2>2, <2>3 DEF WrLock
  <1>9. CASE RdResume(t)
    <2>1. AbstractState[t] = "want_rd"
      BY <1>6, <1>9, SeenFacts DEF RdResume
    <2>2. AbstractState' = [AbstractState EXCEPT ![t] = "reading"]
      BY <1>5, <1>9, SeenFacts DEF RdResume
    <2>3. A!Free(t, "reading")
      BY <1>2, <1>3, <1>9, OptimizedFree DEF RdResume
    <2>4. QED
      BY <2>1, <2>2, <2>3 DEF A!Next, A!Grant, A!Want
  <1>10. CASE WrResume(t)
    <2>1. AbstractState[t] = "want_wr"
      BY <1>6, <1>10, SeenFacts DEF WrResume
    <2>2. AbstractState' = [AbstractState EXCEPT ![t] = "writing"]
      BY <1>5, <1>10, SeenFacts DEF WrResume
    <2>3. A!Free(t, "writing")
      BY <1>2, <1>3, <1>10, OptimizedFree DEF WrResume
    <2>4. QED
      BY <2>1, <2>2, <2>3 DEF A!Next, A!Grant, A!Want
  <1>11. CASE OptimizedUnlock(t)
    <2>1. AbstractState[t] \in {"reading", "writing"}
      BY <1>6, <1>11, SeenFacts
         DEF OptimizedUnlock, OptimizedUnlockWriter, OptimizedUnlockReader
    <2>2. AbstractState' = [AbstractState EXCEPT ![t] = "idle"]
      BY <1>4, <1>5, <1>11, SeenFacts
         DEF OptimizedUnlock, OptimizedUnlockWriter, OptimizedUnlockReader
    <2>3. QED
      BY <2>1, <2>2 DEF A!Next, A!Release
  <1>12. CASE Notify(t)
    <2>1. \A u \in Threads : Seen(pc'[u]) = Seen(pc[u])
      <3>1. CASE pc[t] = "broadcast" /\ BroadcastRead(t, "idle")
        BY <1>4, <3>1, SeenFacts DEF BroadcastRead
      <3>2. CASE pc[t] = "signal" /\ SignalWrite(t, "idle")
        <4>1. PICK w \in Threads : /\ w = t \/ pc[w] = "wr_wait"
                                   /\ pc' = [pc EXCEPT ![w] = "wr_woken", ![t] = "idle"]
          BY <3>2 DEF SignalWrite, At
        <4>2. \A u \in Threads : \/ pc'[u] = pc[u]
                                 \/ u = t /\ pc'[u] = "idle"
                                 \/ u = w /\ u # t /\ pc'[u] = "wr_woken"
          BY <1>2, <4>1
        <4>3. QED
          BY <1>4, <3>2, <4>1, <4>2, SeenFacts
      <3>3. QED
        BY <1>12, <3>1, <3>2 DEF Notify
    <2>2. QED
      BY <2>1 DEF AbstractState
  <1>13. QED
    BY <1>1, <1>7, <1>8, <1>9, <1>10, <1>11, <1>12 DEF Resume

\* The order of release and notification does no harm until a broadcast is
\* late: whatever a caller can observe is a behaviour of the abstract lock.
THEOREM PromptlyImplements == OptimizedSafety => PromptRefinement
  <1>1. OptimizedInit => PromptInv
    <2> SUFFICES ASSUME Init PROVE PromptInv
      BY DEF OptimizedInit
    <2>1. \A where : "idle" \notin where => At(where) = {}
      BY DEF Init, At
    <2>2. Readers = {} /\ OptimizedOwners = {} /\ At({"broadcast"}) = {}
      BY <2>1 DEF Readers, OptimizedOwners
    <2>3. reader_cnt = Cardinality(Readers)
      BY <2>2, OptimizedCountFacts DEF Init
    <2>4. QED
      BY <2>2, <2>3 DEF PromptInv
  <1>2. OptimizedSafety => []PromptInv
    BY <1>1, OptimizedInvariant, PromptNext, PTL DEF OptimizedSafety
  <1>3. QED
    BY <1>2, OptimizedInvariant, PromptStep, PTL DEF OptimizedSafety, PromptRefinement
=============================================================================
