----------------------------- MODULE SpinRWLock -----------------------------
(***************************************************************************)
(* --fail--my_rwl_with_spinlock.c: the simple lock, whose calls first try  *)
(* the mutex a number of times and only then block for it.  The mutex,     *)
(* which SimpleRWLock takes for granted, is explicit here: a call gets it, *)
(* runs its body, and gives it back or waits on a condition variable; a    *)
(* woken thread has to get it again.  With Spinlock = 0 this is            *)
(* my_simple_rwl.c, whose calls block at once.                             *)
(***************************************************************************)
EXTENDS SimpleRWLock

CONSTANTS
    Spinlock,       \* spinlock: how often the mutex is tried (600)
    Nobody          \* the holder of a mutex that is free
ASSUME SpinAssumption == Spinlock \in Nat /\ Nobody \notin Threads

VARIABLES
    mutex,          \* the thread that holds my_rwlock_t.mutex, or Nobody
    call,           \* the call a thread is in: on its way to the body,
                    \* or, with "leave", on its way out
    tries           \* what is left of spinlock in enter_critical_section

spinVars == <<mutex, call, tries>>
allVars  == <<vars, spinVars>>

SpinInit ==
    /\ Init
    /\ mutex = Nobody
    /\ call = [t \in Threads |-> "none"]
    /\ tries = [t \in Threads |-> 0]

\* The lock's users: a thread outside asks for it, a thread inside leaves.
Calls(t) == IF pc[t] = "idle" THEN {"rdlock", "wrlock"}
            ELSE IF pc[t] \in {"rd_held", "wr_held"} THEN {"unlock"}
            ELSE {}

Call(t, which) ==
    /\ call[t] = "none"
    /\ which \in Calls(t)
    /\ call' = [call EXCEPT ![t] = which]
    /\ tries' = [tries EXCEPT ![t] = Spinlock]
    /\ UNCHANGED <<vars, mutex>>
-----------------------------------------------------------------------------
Entering(t) == call[t] \in {"rdlock", "wrlock", "unlock"} /\ mutex # t

\* Mutant of TryLock: whoever fails forgets that it has to try again.
TryLockOnce(t) ==
    /\ Entering(t)
    /\ tries[t] > 0
    /\ tries' = [tries EXCEPT ![t] = 0]
    /\ \/ mutex = Nobody /\ mutex' = t /\ UNCHANGED call
       \/ mutex # Nobody /\ call' = [call EXCEPT ![t] = "leave"] /\ UNCHANGED mutex
    /\ UNCHANGED vars

\* pthread_mutex_trylock: the mutex, or one try less.
TryLock(t) ==
    /\ Entering(t)
    /\ tries[t] > 0
    /\ \/ mutex = Nobody /\ mutex' = t /\ UNCHANGED tries
       \/ mutex # Nobody /\ tries' = [tries EXCEPT ![t] = @ - 1] /\ UNCHANGED mutex
    /\ UNCHANGED <<vars, call>>

\* pthread_mutex_lock once the tries are used up, and the end of
\* pthread_cond_wait: both block until the mutex is free.
Block(t) ==
    /\ \/ Entering(t) /\ tries[t] = 0
       \/ pc[t] \in {"rd_woken", "wr_woken"}
    /\ mutex = Nobody
    /\ mutex' = t
    /\ UNCHANGED <<vars, call, tries>>

\* Mutant of Depart: a thread that waits on a condition keeps the mutex.
DepartWaiting(t) ==
    /\ call' = [call EXCEPT ![t] = IF pc'[t] \in {"rd_wait", "wr_wait"}
                                   THEN "none" ELSE "leave"]
    /\ UNCHANGED <<mutex, tries>>

\* The end of a body: pthread_cond_wait gives the mutex back, any other way
\* out keeps it for leave_critical_section.
Depart(t) ==
    /\ \/ /\ pc'[t] \in {"rd_wait", "wr_wait"}
          /\ call' = [call EXCEPT ![t] = "none"]
          /\ mutex' = Nobody
       \/ /\ pc'[t] \notin {"rd_wait", "wr_wait"}
          /\ call' = [call EXCEPT ![t] = "leave"]
          /\ UNCHANGED mutex
    /\ UNCHANGED tries

\* The bodies, which are those of my_simple_rwl.c.
InRdLock(t) == mutex = t /\ call[t] = "rdlock" /\ RdLock(t) /\ Depart(t)
InWrLock(t) == mutex = t /\ call[t] = "wrlock" /\ WrLock(t) /\ Depart(t)
InUnlock(t) == mutex = t /\ call[t] = "unlock" /\ Unlock(t) /\ Depart(t)
InResume(t) == mutex = t /\ call[t] = "none" /\ Resume(t) /\ Depart(t)

Body(t) == InRdLock(t) \/ InWrLock(t) \/ InUnlock(t) \/ InResume(t)

\* leave_critical_section.
Leave(t) ==
    /\ mutex = t
    /\ call[t] = "leave"
    /\ mutex' = Nobody
    /\ call' = [call EXCEPT ![t] = "none"]
    /\ UNCHANGED <<vars, tries>>
-----------------------------------------------------------------------------
SpinNext == \E t \in Threads :
                \/ \E which \in {"rdlock", "wrlock", "unlock"} : Call(t, which)
                \/ TryLock(t) \/ Block(t) \/ Body(t) \/ Leave(t)

SpinSafety == SpinInit /\ [][SpinNext]_allVars

(***************************************************************************)
(* Threads run, leave the lock after a while, and the mutex does not pass  *)
(* by for ever a thread that blocks for it.                                *)
(***************************************************************************)
SpinSpec ==
    /\ SpinSafety
    /\ \A t \in Threads :
           /\ WF_allVars(Call(t, "unlock"))
           /\ WF_allVars(TryLock(t) \/ Body(t) \/ Leave(t))
           /\ SF_allVars(Block(t))
-----------------------------------------------------------------------------
SpinTypeOK ==
    /\ TypeOK
    /\ mutex \in Threads \cup {Nobody}
    /\ call \in [Threads -> {"none", "rdlock", "wrlock", "unlock", "leave"}]
    /\ tries \in [Threads -> 0..Spinlock]

\* Nobody sleeps with the mutex: who holds it is in a call, before its body or
\* on its way out, or was woken; who waits on a condition does not hold it.
HolderRuns ==
    \A t \in Threads :
        /\ mutex = t => call[t] # "none" \/ pc[t] \in {"rd_woken", "wr_woken"}
        /\ pc[t] \in {"rd_wait", "wr_wait"} => mutex # t /\ call[t] = "none"

\* The lock with its mutex, tried or blocked for, implements the simple lock,
\* whose bodies are single steps, with its fairness: spinning loses nothing.
ImplementsSimple == Spec

\* The calls return: a reader that asks is let in, however often its mutex
\* was taken, and unlock comes to its end.
CallsReturn ==
    \A t \in Threads :
        /\ call[t] = "rdlock" ~> pc[t] = "rd_held"
        /\ call[t] = "unlock" ~> call[t] = "none"
=============================================================================
