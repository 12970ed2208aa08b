-------------------------- MODULE ListProgramProofs --------------------------
(***************************************************************************)
(* What TLC checks of the list program for three threads, two nodes and    *)
(* two keys, proved for any number of each.  The lock enters by what it    *)
(* promises alone: MutualExclusion, a theorem of RWLockProofs.       *)
(***************************************************************************)
EXTENDS ListProgram, FiniteSetTheorems, WellFoundedInduction, TLAPS

\* Where the processes are: main fills the list before the threads are born
\* and frees it when they are done, and main alone works without the lock.
PlacesInv ==
    /\ at \in [Procs -> Places]
    /\ at[Main] \notin {"unborn", "done"}
    /\ \A t \in Threads :
        /\ at[t] \notin {"join", "free", "exit"}
        /\ at[Main] \in {"next", "enter", "search", "return"} => at[t] = "unborn"
        /\ at[Main] \in {"free", "exit"} => at[t] = "done"

\* A call is pending from Start to Return, and a thread that searches holds the
\* lock for it.
CallsInv ==
    /\ call \in [Procs -> [op  : Set!Ops \cup {"none"},
                           key : Keys \cup {0},
                           rv  : {Set!Unset, 0, 1}]]
    /\ \A p \in Procs :
        IF at[p] \in {"enter", "search"}
        THEN call[p].op \in Set!Ops /\ key(p) \in Keys /\ call[p].rv = Set!Unset
        ELSE call[p].rv # Set!Unset
    /\ at[Main] \in {"enter", "search"} => call[Main].op = "insert"
    /\ \A p \in Procs : at[p] = "return" => call[p].op \in Set!Ops
    /\ pc \in [Threads -> Lock!PCs]
    /\ \A t \in Threads :
        /\ at[t] = "enter" =>
               pc[t] \in IF call[t].op = "member"
                         THEN {"rd_wait", "rd_woken", "rd_held"}
                         ELSE {"wr_wait", "wr_woken", "wr_held"}
        /\ at[t] = "search" =>
               pc[t] = IF call[t].op = "member" THEN "rd_held" ELSE "wr_held"

\* n is the node s or one after it: with s the node a search for the key of n
\* is at, n is still ahead.
From(s, n) == s # NULL /\ heap[s].data <= heap[n].data

\* The list from a first node on, said of each node and its next alone: every
\* allocated node is in it, and the next of a node is its successor in the
\* order of the keys.  It speaks of no path, so a step keeps it by what it does
\* to two nodes.
ListInv(first) ==
    /\ DOMAIN heap \subseteq Nodes
    /\ \A n \in DOMAIN heap :
        heap[n] \in [data : Keys, next : DOMAIN heap \cup {NULL}]
    /\ first \in DOMAIN heap \cup {NULL}
    /\ \A n \in DOMAIN heap : From(first, n)
    /\ \A m, n \in DOMAIN heap :
        /\ heap[m].data = heap[n].data => m = n
        /\ heap[m].data < heap[n].data <=> From(heap[m].next, n)

\* The list starts at head, and at curr when Free_list has freed what was
\* before it.
First == IF at[Main] \in {"free", "exit"} THEN curr[Main] ELSE head

\* A search is between two nodes that follow each other, and the key it looks
\* for is not before them.
SearchInv ==
    /\ head \in Nodes \cup {NULL}
    /\ curr \in [Procs -> Nodes \cup {NULL}]
    /\ pred \in [Procs -> Nodes \cup {NULL}]
    /\ at[Main] = "free" => curr[Main] # NULL
    /\ at[Main] = "exit" => curr[Main] = NULL
    /\ \A p \in Procs : at[p] = "search" =>
        /\ curr[p] \in DOMAIN heap \cup {NULL}
        /\ IF pred[p] = NULL
           THEN curr[p] = head
           ELSE /\ pred[p] \in DOMAIN heap
                /\ heap[pred[p]].next = curr[p]
                /\ heap[pred[p]].data < key(p)

\* What a thread has counted and has left to run are its operations, and the
\* totals are those of the threads that are done.
Done == {t \in Threads : at[t] = "done"}
Sum(c) == c["member"] + c["insert"] + c["delete"]

CountersInv ==
    /\ left \in [Procs -> Nat]
    /\ inserted \in 0..InsertsInMain
    /\ mine \in [Threads -> [Set!Ops -> Nat]]
    /\ count \in [Set!Ops -> Nat]
    /\ \A p \in Procs : at[p] \in {"enter", "search", "return"} => left[p] > 0
    /\ at[Main] \in {"enter", "search", "return"} => inserted < InsertsInMain
    /\ \A t \in Threads : /\ at[t] = "done" => left[t] = 0
                          /\ Sum(mine[t]) + left[t] = ops_per_thread
    /\ Sum(count) = Cardinality(Done) * ops_per_thread

IndInv == PlacesInv /\ CallsInv /\ ListInv(First) /\ SearchInv /\ CountersInv
-----------------------------------------------------------------------------
(***************************************************************************)
(* The lock.                                                               *)
(***************************************************************************)
\* The theorems on the simple lock say nothing of what the other locks add to
\* it (the mutex and how a thread gets it, late), so any values stand for that.
LP == INSTANCE RWLockProofs
      WITH Spinlock <- 0, Nobody <- Main, mutex <- Main, call <- <<>>, tries <- <<>>,
           late <- FALSE

\* The lock of the program has finitely many threads, as its theorems assume,
\* and Main is none of them.
LEMMA LockFinite == LP!IsFiniteSet(Threads) /\ 0 \in Nat /\ Main \notin Threads
  BY ProgramAssumption DEF IsFiniteSet, LP!IsFiniteSet

\* The program calls the lock as its specification lets it be called.
LEMMA LockCalls == Safety => LP!Safety
  <1>1. Init => LP!Init
    BY DEF Init, Lock!Init, LP!Init
  <1>2. [Next]_vars => [Lock!Next]_Lock!vars
    <2> SUFFICES ASSUME [Next]_vars PROVE [Lock!Next]_Lock!vars
      OBVIOUS
    <2>1. CASE UNCHANGED vars
      BY <2>1 DEF vars, lock, Lock!vars
    <2>2. CASE MainStep
      BY <2>2 DEF MainStep, MainInsert, Operation, Enter, Walk, Member, Insert,
                  Delete, MainInserted, CreateThreads, Join, FreeNode,
                  lock, Lock!vars
    <2>3. ASSUME NEW t \in Threads, ThreadStep(t) PROVE [Lock!Next]_Lock!vars
      BY <2>3 DEF ThreadStep, Start, Wake, Operation, Enter, Walk, Member,
                  Insert, Delete, Finish, Report, lock, Lock!vars, Lock!Next
    <2>4. CASE Exited
      BY <2>4 DEF Exited, vars, lock, Lock!vars
    <2>5. QED
      BY <2>1, <2>2, <2>3, <2>4 DEF Next
  <1>3. [Lock!Next]_Lock!vars => [LP!Next]_LP!vars
    BY DEF Lock!Next, LP!Next, Lock!vars, LP!vars, Lock!RdLock, LP!RdLock,
           Lock!WrLock, LP!WrLock, Lock!Resume, LP!Resume, Lock!RdResume,
           LP!RdResume, Lock!WrResume, LP!WrResume, Lock!Unlock, LP!Unlock,
           Lock!UnlockReader, LP!UnlockReader, Lock!UnlockWriter,
           LP!UnlockWriter, Lock!BroadcastRead, LP!BroadcastRead,
           Lock!SignalWrite, LP!SignalWrite, Lock!Goto, LP!Goto,
           Lock!fields, LP!fields, Lock!At, LP!At
  <1>4. QED
    BY <1>1, <1>2, <1>3, PTL DEF Safety, LP!Safety

\* So a thread that holds the lock to write is the only one to hold it.
LEMMA LockExcludes == Safety => []Lock!MutualExclusion
  <1>1. LP!Safety => []LP!MutualExclusion
    BY LP!Exclusion, LockFinite
  <1>2. LP!MutualExclusion => Lock!MutualExclusion
    BY DEF LP!MutualExclusion, Lock!MutualExclusion
  <1>3. QED
    BY <1>1, <1>2, LockCalls, PTL

\* Its fields stay in their types.
LEMMA LockTyped == Safety => []Lock!TypeOK
  <1>1. LP!Safety => []LP!TypeOK
    BY LP!TypeCorrect, LockFinite
  <1>2. LP!TypeOK => Lock!TypeOK
    BY DEF LP!TypeOK, Lock!TypeOK, LP!PCs, Lock!PCs
  <1>3. QED
    BY <1>1, <1>2, LockCalls, PTL

\* A call of the lock moves the thread that makes it, and of the others at most
\* wakes some that wait.
LEMMA LockFrame ==
    ASSUME pc \in [Threads -> Lock!PCs], NEW t \in Threads,
           Lock!RdLock(t) \/ Lock!WrLock(t) \/ Lock!Resume(t) \/ Lock!Unlock(t)
    PROVE  /\ pc' \in [Threads -> Lock!PCs]
           /\ \A u \in Threads \ {t} :
                \/ pc'[u] = pc[u]
                \/ pc[u] = "rd_wait" /\ pc'[u] = "rd_woken"
                \/ pc[u] = "wr_wait" /\ pc'[u] = "wr_woken"
           /\ Lock!RdLock(t) => pc'[t] \in {"rd_wait", "rd_held"}
           /\ Lock!WrLock(t) => pc'[t] \in {"wr_wait", "wr_held"}
           /\ Lock!Resume(t) => \/ pc[t] = "rd_woken" /\ pc'[t] = "rd_held"
                                \/ pc[t] = "wr_woken" /\ pc'[t] = "wr_held"
  <1> USE DEF Lock!PCs, Lock!Goto, Lock!fields
  <1>1. CASE Lock!RdLock(t)
    BY <1>1 DEF Lock!RdLock, Lock!WrLock, Lock!Resume, Lock!RdResume, Lock!WrResume
  <1>2. CASE Lock!WrLock(t)
    BY <1>2 DEF Lock!RdLock, Lock!WrLock, Lock!Resume, Lock!RdResume, Lock!WrResume
  <1>3. CASE Lock!Resume(t)
    BY <1>3 DEF Lock!RdLock, Lock!WrLock, Lock!Resume, Lock!RdResume, Lock!WrResume
  <1>4. CASE Lock!Unlock(t)
    <2>1. pc[t] \in {"rd_held", "wr_held"}
      BY <1>4 DEF Lock!Unlock, Lock!UnlockReader, Lock!UnlockWriter
    <2>2. \/ pc' = Lock!Goto(t, "idle") \/ Lock!BroadcastRead(t, "idle")
          \/ Lock!SignalWrite(t, "idle")
      BY <1>4 DEF Lock!Unlock, Lock!UnlockReader, Lock!UnlockWriter
    <2>3. QED
      BY <2>1, <2>2 DEF Lock!BroadcastRead, Lock!SignalWrite, Lock!At,
           Lock!RdLock, Lock!WrLock, Lock!Resume, Lock!RdResume, Lock!WrResume
  <1>5. QED
    BY <1>1, <1>2, <1>3, <1>4
-----------------------------------------------------------------------------
(***************************************************************************)
(* IndInv is inductive.                                                    *)
(***************************************************************************)
\* There is a thread, so the operations of one are a number.
LEMMA OpsFacts ==
    /\ thread_count \in Nat /\ thread_count > 0
    /\ ops_per_thread \in Nat
  <1>1. thread_count \in Nat /\ thread_count > 0
    BY ProgramAssumption, FS_CardinalityType, FS_EmptySet DEF thread_count
  <1>2. QED
    BY <1>1, ProgramAssumption DEF ops_per_thread

\* Nobody is in the list at first, and it is empty.
LEMMA InitInv == Init => IndInv
  <1> SUFFICES ASSUME Init PROVE IndInv
    OBVIOUS
  <1> USE ProgramAssumption DEF Init, Procs
  <1>1. PlacesInv
    BY DEF PlacesInv, Places
  <1>2. CallsInv
    BY DEF CallsInv, Lock!Init, Lock!PCs, Set!None, Set!Unset
  <1>3. ListInv(First)
    BY DEF ListInv, First, From
  <1>4. SearchInv
    BY DEF SearchInv
  <1>5. CountersInv
    <2>1. Done = {} /\ Cardinality(Done) = 0
      BY FS_EmptySet DEF Done
    <2>2. QED
      BY <2>1, OpsFacts DEF CountersInv, Sum, Zero, Set!Ops
  <1>6. QED
    BY <1>1, <1>2, <1>3, <1>4, <1>5 DEF IndInv

\* What an operation of a process knows of the others: it runs in main before
\* the threads are born, or in a thread while main waits for it.
LEMMA AtWork ==
    ASSUME PlacesInv, NEW p \in Procs,
           at[p] \in {"next", "enter", "search", "return"}
    PROVE  /\ at[Main] \notin {"free", "exit"}
           /\ p \in Threads => at[Main] = "join"
           /\ p \notin Threads => p = Main /\ \A t \in Threads : at[t] = "unborn"
  BY ProgramAssumption DEF PlacesInv, Places, Procs

\* A step that moves p, and not to its end nor from it, is of none of the ends.
LEMMA DoneKept ==
    ASSUME PlacesInv, NEW p \in Procs, NEW to, Move(p, to),
           at[p] # "done", to # "done"
    PROVE  Done' = Done
  BY DEF PlacesInv, Move, Done

\* A step that leaves the heap and its start alone keeps the list in order.
LEMMA ListKept ==
    ASSUME IndInv, UNCHANGED heap, First' = First
    PROVE  ListInv(First)'
  BY DEF IndInv, ListInv, From

\* An operation starts its search at head.
LEMMA EnterInv ==
    ASSUME IndInv, NEW p \in Procs, Enter(p)
    PROVE  IndInv'
  <1> USE ProgramAssumption DEF IndInv, Enter, Move
  <1>1. at[p] = "enter" /\ at[Main] \notin {"free", "exit"} /\ Done' = Done
    BY AtWork, DoneKept
  <1>2. PlacesInv'
    BY <1>1 DEF PlacesInv, Places, Procs
  <1>3. CallsInv'
    BY <1>1, AtWork DEF CallsInv, PlacesInv, lock, Procs, key
  <1>4. ListInv(First)'
    BY <1>1, <1>2, ListKept DEF First, list, PlacesInv
  <1>5. SearchInv'
    BY <1>1 DEF SearchInv, PlacesInv, list, ListInv, First, Procs, key
  <1>6. CountersInv'
    BY <1>1 DEF CountersInv, PlacesInv, main, counts, Procs, Sum
  <1>7. QED
    BY <1>2, <1>3, <1>4, <1>5, <1>6

\* The search goes on by one node, which is before the key.
LEMMA WalkInv ==
    ASSUME IndInv, NEW p \in Procs, Walk(p)
    PROVE  IndInv'
  <1> USE ProgramAssumption DEF IndInv, Walk, Searching
  <1>1. at[p] = "search" /\ at[Main] \notin {"free", "exit"} /\ Done' = Done
    BY AtWork DEF Done
  <1>2. PlacesInv'
    BY DEF PlacesInv, Procs
  <1>3. CallsInv'
    BY DEF CallsInv, lock, key
  <1>4. ListInv(First)'
    BY <1>1, ListKept DEF First, list
  <1>5. SearchInv'
    BY <1>1 DEF SearchInv, PlacesInv, list, ListInv, First, Before, Procs, key
  <1>6. CountersInv'
    BY <1>1 DEF CountersInv, main, counts, Sum
  <1>7. QED
    BY <1>2, <1>3, <1>4, <1>5, <1>6

\* Return, of an operation that has kept or changed the list.
LEMMA ReturnInv ==
    ASSUME IndInv, NEW p \in Procs, NEW rv \in {0, 1}, at[p] = "search",
           Return(p, rv), UNCHANGED <<lock, main, counts>>
    PROVE  PlacesInv' /\ CallsInv' /\ CountersInv'
  <1> USE ProgramAssumption DEF IndInv, Return, Move
  <1>1. Done' = Done
    BY DoneKept
  <1>2. PlacesInv'
    BY AtWork DEF PlacesInv, Places, Procs
  <1>3. CallsInv'
    BY AtWork DEF CallsInv, PlacesInv, lock, Procs, key, Set!Unset
  <1>4. CountersInv'
    BY <1>1 DEF CountersInv, PlacesInv, main, counts, Procs, Sum
  <1>5. QED
    BY <1>2, <1>3, <1>4

\* Return, of an operation that has kept it.
LEMMA KeptInv ==
    ASSUME IndInv, NEW p \in Procs, NEW rv \in {0, 1}, at[p] = "search",
           Return(p, rv), UNCHANGED <<lock, list, curr, pred, main, counts>>
    PROVE  IndInv'
  <1> USE ProgramAssumption DEF IndInv
  <1>1. at[Main] \notin {"free", "exit"} /\ at'[Main] \notin {"free", "exit"}
    BY AtWork DEF Return, Move, PlacesInv, Procs
  <1>2. PlacesInv' /\ CallsInv' /\ CountersInv'
    BY ReturnInv
  <1>3. ListInv(First)'
    BY <1>1, ListKept DEF First, list
  <1>4. SearchInv'
    BY <1>1 DEF SearchInv, PlacesInv, list, Return, Move, Procs, key
  <1>5. QED
    BY <1>2, <1>3, <1>4
-----------------------------------------------------------------------------
(***************************************************************************)
(* The operations on the list, and what they do to its order.              *)
(***************************************************************************)
\* Where a search stops: what is at curr or after it, and nothing else, has the
\* key or a greater one.  So the key is at curr if it is in the list at all.
LEMMA StopFacts ==
    ASSUME IndInv, NEW p \in Procs, Searching(p), ~Before(p)
    PROVE  /\ First = head /\ key(p) \in Keys
           /\ Found(p) <=> key(p) \in ListKeys
           /\ \A n \in DOMAIN heap : heap[n].data >= key(p) <=> From(curr[p], n)
           /\ pred[p] # NULL => pred[p] # curr[p]
  <1> USE ProgramAssumption DEF IndInv, Searching
  <1>1. First = head /\ key(p) \in Keys /\ ListInv(head)
    BY AtWork DEF First, CallsInv
  <1>2. /\ \A n \in DOMAIN heap : heap[n].data \in Int
        /\ key(p) \in Int
        /\ curr[p] # NULL => curr[p] \in DOMAIN heap /\ heap[curr[p]].data >= key(p)
    BY <1>1 DEF ListInv, Keys, Before
  <1>3. \A n \in DOMAIN heap : heap[n].data >= key(p) <=> From(curr[p], n)
    <2>1. CASE pred[p] = NULL
      BY <1>1, <1>2, <2>1 DEF SearchInv, ListInv, From
    <2>2. CASE pred[p] # NULL
      <3>1. /\ pred[p] \in DOMAIN heap /\ heap[pred[p]].data < key(p)
            /\ \A n \in DOMAIN heap :
                   heap[pred[p]].data < heap[n].data <=> From(curr[p], n)
        BY <1>1, <2>2 DEF SearchInv, ListInv
      <3>2. QED
        BY <1>2, <3>1 DEF From
    <2>3. QED
      BY <2>1, <2>2
  <1>4. Found(p) <=> key(p) \in ListKeys
    BY <1>2, <1>3 DEF Found, ListKeys, From
  <1>5. pred[p] # NULL => pred[p] # curr[p]
    BY <1>2 DEF SearchInv
  <1>6. QED
    BY <1>1, <1>3, <1>4, <1>5

\* While a process inserts or deletes, nobody else is in the list.
LEMMA AloneInList ==
    ASSUME IndInv, Lock!MutualExclusion, NEW p \in Procs,
           at[p] = "search", call[p].op # "member"
    PROVE  \A u \in Procs \ {p} : at[u] # "search"
  <1> USE ProgramAssumption DEF IndInv
  <1>1. CASE p = Main
    BY <1>1, AtWork DEF Procs
  <1>2. CASE p \in Threads
    <2>1. pc[p] = "wr_held" /\ at[Main] = "join"
      BY <1>2, AtWork DEF CallsInv
    <2>2. \A u \in Threads \ {p} : pc[u] \notin {"rd_held", "wr_held"}
      BY <1>2, <2>1 DEF Lock!MutualExclusion
    <2>3. \A u \in Threads : at[u] = "search" => pc[u] \in {"rd_held", "wr_held"}
      BY DEF CallsInv
    <2>4. QED
      BY <2>1, <2>2, <2>3 DEF Procs
  <1>3. QED
    BY <1>1, <1>2 DEF Procs

\* A new node n for the key k, put between q, or the start, and c.
LEMMA LinkedIn ==
    ASSUME ListInv(First), NEW k \in Keys, k \notin ListKeys,
           NEW n \in Nodes \ DOMAIN heap,
           NEW q \in DOMAIN heap \cup {NULL}, NEW c \in DOMAIN heap \cup {NULL},
           IF q = NULL THEN First = c
                       ELSE heap[q].next = c /\ heap[q].data < k,
           \A m \in DOMAIN heap : heap[m].data >= k <=> From(c, m),
           DOMAIN heap' = DOMAIN heap \cup {n},
           heap'[n] = [data |-> k, next |-> c],
           \A m \in DOMAIN heap :
               heap'[m] = IF m = q THEN [heap[m] EXCEPT !.next = n] ELSE heap[m],
           First' = IF q = NULL THEN n ELSE First
    PROVE  ListInv(First)'
  <1> USE ProgramAssumption
  <1>1. /\ \A m \in DOMAIN heap :
               /\ heap[m].data \in Int /\ heap[m].data # k
               /\ heap[m].next \in DOMAIN heap \cup {NULL}
               /\ heap'[m].data = heap[m].data
               /\ heap'[m].next = IF m = q THEN n ELSE heap[m].next
        /\ heap'[n].data = k /\ heap'[n].next = c /\ k \in Int /\ n # NULL
    BY DEF ListInv, ListKeys, Keys
  <1>2. /\ (DOMAIN heap)' \subseteq Nodes
        /\ \A m \in (DOMAIN heap)' :
               heap'[m] \in [data : Keys, next : (DOMAIN heap)' \cup {NULL}]
        /\ First' \in (DOMAIN heap)' \cup {NULL}
    BY DEF ListInv
  <1>3. \A m \in DOMAIN heap' : From(First, m)'
    BY <1>1 DEF ListInv, From
  <1>4. ASSUME NEW a \in DOMAIN heap, NEW b \in DOMAIN heap
        PROVE  /\ heap'[a].data = heap'[b].data => a = b
               /\ heap'[a].data < heap'[b].data
                      <=> heap'[a].next # NULL
                            /\ heap'[heap'[a].next].data <= heap'[b].data
    BY <1>1, <1>4 DEF ListInv, From
  <1>5. ASSUME NEW a \in DOMAIN heap
        PROVE  heap'[a].data < k
                   <=> heap'[a].next # NULL /\ heap'[heap'[a].next].data <= k
    BY <1>1, <1>5 DEF ListInv, From
  <1>6. ASSUME NEW b \in DOMAIN heap
        PROVE  k < heap'[b].data <=> c # NULL /\ heap'[c].data <= heap'[b].data
    BY <1>1, <1>6 DEF ListInv, From
  <1>7. ~(c # NULL /\ heap'[c].data <= k)
    BY <1>1 DEF ListInv, From
  <1>8. QED
    BY <1>1, <1>2, <1>3, <1>4, <1>5, <1>6, <1>7 DEF ListInv, From

\* The node c taken out from behind q, or from the start.
LEMMA TakenOut ==
    ASSUME ListInv(First), NEW c \in DOMAIN heap,
           NEW q \in DOMAIN heap \cup {NULL},
           IF q = NULL THEN First = c ELSE heap[q].next = c /\ q # c,
           DOMAIN heap' = DOMAIN heap \ {c},
           \A m \in DOMAIN heap' :
               heap'[m] = IF m = q THEN [heap[m] EXCEPT !.next = heap[c].next]
                                   ELSE heap[m],
           First' = IF q = NULL THEN heap[c].next ELSE First
    PROVE  ListInv(First)'
  <1> USE ProgramAssumption
  <1>1. /\ \A m \in DOMAIN heap :
               /\ heap[m].data \in Int
               /\ heap[m].next \in DOMAIN heap \cup {NULL}
        /\ \A m \in DOMAIN heap' :
               /\ heap'[m].data = heap[m].data
               /\ heap'[m].next = IF m = q THEN heap[c].next ELSE heap[m].next
    BY DEF ListInv, Keys
  <1>2. \A m \in DOMAIN heap : heap[m].next = c => m = q
    BY <1>1 DEF ListInv, From
  <1>3. heap[c].next # c
    BY <1>1 DEF ListInv, From
  <1>4. q # NULL => First # c
    BY <1>1 DEF ListInv, From
  <1>5. /\ (DOMAIN heap)' \subseteq Nodes
        /\ \A m \in (DOMAIN heap)' :
               heap'[m] \in [data : Keys, next : (DOMAIN heap)' \cup {NULL}]
        /\ First' \in (DOMAIN heap)' \cup {NULL}
    BY <1>1, <1>2, <1>3, <1>4 DEF ListInv
  <1>6. \A m \in DOMAIN heap' : From(First, m)'
    BY <1>1, <1>4, <1>5 DEF ListInv, From
  <1>7. ASSUME NEW a \in DOMAIN heap', NEW b \in DOMAIN heap'
        PROVE  /\ heap'[a].data = heap'[b].data => a = b
               /\ heap'[a].data < heap'[b].data <=> From(heap[a].next, b)'
    BY <1>1, <1>2, <1>3, <1>7 DEF ListInv, From
  <1>8. QED
    BY <1>5, <1>6, <1>7 DEF ListInv

\* Member only looks.
LEMMA MemberInv ==
    ASSUME IndInv, NEW p \in Procs, Member(p)
    PROVE  IndInv'
  BY KeptInv DEF Member, Searching

\* Until the threads are done the list starts at head.
LEMMA FirstKept ==
    ASSUME IndInv, NEW p \in Procs, NEW rv, at[p] = "search", Return(p, rv)
    PROVE  First = head /\ First' = head'
  BY ProgramAssumption, AtWork DEF IndInv, First, Return, Move, PlacesInv, Procs

\* The list is changed by p alone, so that nobody's curr and pred are stale.
LEMMA ChangedInv ==
    ASSUME IndInv, Lock!MutualExclusion, NEW p \in Procs, at[p] = "search",
           call[p].op # "member", Return(p, 1), ListInv(First)',
           UNCHANGED <<lock, curr, pred, main, counts>>
    PROVE  IndInv'
  <1>1. at'[Main] \notin {"free", "exit"}
    BY ProgramAssumption, AtWork DEF IndInv, Return, Move, PlacesInv, Procs
  <1>2. \A u \in Procs : at'[u] # "search"
    BY AloneInList DEF IndInv, PlacesInv, Return, Move
  <1>3. head' \in Nodes \cup {NULL}
    BY FirstKept DEF ListInv
  <1>4. SearchInv'
    BY <1>1, <1>2, <1>3 DEF IndInv, SearchInv
  <1>5. QED
    BY <1>4, ReturnInv DEF IndInv

\* What Insert does to the heap when the key is not there.
LEMMA InsertFacts ==
    ASSUME IndInv, NEW p \in Procs, Insert(p), ~Found(p)
    PROVE  /\ pred[p] \in DOMAIN heap \cup {NULL}
           /\ curr[p] \in DOMAIN heap \cup {NULL}
           /\ \E n \in Nodes \ DOMAIN heap :
               /\ DOMAIN heap' = DOMAIN heap \cup {n}
               /\ heap'[n] = [data |-> key(p), next |-> curr[p]]
               /\ \A m \in DOMAIN heap :
                      heap'[m] = IF m = pred[p] THEN [heap[m] EXCEPT !.next = n]
                                                ELSE heap[m]
               /\ head' = IF pred[p] = NULL THEN n ELSE head
  <1>1. PICK n \in Nodes \ DOMAIN heap :
            Link(p, n, [m \in DOMAIN heap \cup {n} |->
                            IF m = n THEN [data |-> key(p), next |-> curr[p]]
                                     ELSE heap[m]])
    BY DEF Insert
  <1>2. /\ pred[p] \in DOMAIN heap \cup {NULL}
        /\ curr[p] \in DOMAIN heap \cup {NULL}
    BY DEF IndInv, SearchInv, Insert, Searching
  <1>3. /\ DOMAIN heap' = DOMAIN heap \cup {n}
        /\ heap'[n] = [data |-> key(p), next |-> curr[p]]
        /\ \A m \in DOMAIN heap :
               heap'[m] = IF m = pred[p] THEN [heap[m] EXCEPT !.next = n]
                                         ELSE heap[m]
        /\ head' = IF pred[p] = NULL THEN n ELSE head
    BY <1>1, <1>2, ProgramAssumption DEF Link, IndInv, ListInv
  <1>4. QED
    BY <1>2, <1>3

\* Insert puts its node where the search has stopped.
LEMMA InsertInv ==
    ASSUME IndInv, Lock!MutualExclusion, NEW p \in Procs, Insert(p)
    PROVE  IndInv'
  <1>1. CASE Found(p)
    BY <1>1, KeptInv DEF Insert, Searching
  <1>2. CASE ~Found(p)
    <2>1. /\ at[p] = "search" /\ Searching(p) /\ ~Before(p)
          /\ call[p].op = "insert" /\ Return(p, 1)
          /\ UNCHANGED <<lock, curr, pred, main, counts>>
      BY <1>2 DEF Insert, Searching
    <2>2. /\ pred[p] \in DOMAIN heap \cup {NULL}
          /\ curr[p] \in DOMAIN heap \cup {NULL}
          /\ IF pred[p] = NULL THEN First = curr[p]
             ELSE heap[pred[p]].next = curr[p] /\ heap[pred[p]].data < key(p)
          /\ key(p) \notin ListKeys /\ key(p) \in Keys
          /\ \A m \in DOMAIN heap : heap[m].data >= key(p) <=> From(curr[p], m)
      BY <1>2, <2>1, StopFacts DEF IndInv, SearchInv
    <2>3. PICK n \in Nodes \ DOMAIN heap :
              /\ DOMAIN heap' = DOMAIN heap \cup {n}
              /\ heap'[n] = [data |-> key(p), next |-> curr[p]]
              /\ \A m \in DOMAIN heap :
                     heap'[m] = IF m = pred[p] THEN [heap[m] EXCEPT !.next = n]
                                               ELSE heap[m]
              /\ head' = IF pred[p] = NULL THEN n ELSE head
      BY <1>2, InsertFacts
    <2>4. First' = IF pred[p] = NULL THEN n ELSE First
      BY <2>1, <2>3, FirstKept
    <2>5. ListInv(First)'
      BY <2>2, <2>3, <2>4, LinkedIn DEF IndInv
    <2>6. QED
      BY <2>1, <2>5, ChangedInv
  <1>3. QED
    BY <1>1, <1>2

\* What Delete does to the heap when the key is there.
LEMMA DeleteFacts ==
    ASSUME IndInv, NEW p \in Procs, Delete(p), Found(p)
    PROVE  /\ curr[p] \in DOMAIN heap
           /\ DOMAIN heap' = DOMAIN heap \ {curr[p]}
           /\ \A m \in DOMAIN heap' :
                  heap'[m] = IF m = pred[p]
                             THEN [heap[m] EXCEPT !.next = heap[curr[p]].next]
                             ELSE heap[m]
           /\ head' = IF pred[p] = NULL THEN heap[curr[p]].next ELSE head
  <1>1. Link(p, heap[curr[p]].next, [m \in DOMAIN heap \ {curr[p]} |-> heap[m]])
    BY DEF Delete
  <1>2. curr[p] \in DOMAIN heap /\ NULL \notin DOMAIN heap
    BY ProgramAssumption DEF Delete, Searching, Found, IndInv, ListInv
  <1>3. CASE pred[p] = NULL
    BY <1>1, <1>2, <1>3 DEF Link
  <1>4. CASE pred[p] # NULL
    BY <1>1, <1>2, <1>4 DEF Link
  <1>5. QED
    BY <1>2, <1>3, <1>4

\* Delete takes out the node the search has stopped at.
LEMMA DeleteInv ==
    ASSUME IndInv, Lock!MutualExclusion, NEW p \in Procs, Delete(p)
    PROVE  IndInv'
  <1>1. CASE ~Found(p)
    BY <1>1, KeptInv DEF Delete, Searching
  <1>2. CASE Found(p)
    <2>1. /\ at[p] = "search" /\ Searching(p) /\ ~Before(p)
          /\ call[p].op = "delete" /\ Return(p, 1)
          /\ UNCHANGED <<lock, curr, pred, main, counts>>
      BY <1>2 DEF Delete, Searching
    <2>2. /\ pred[p] \in DOMAIN heap \cup {NULL}
          /\ IF pred[p] = NULL THEN First = curr[p]
             ELSE heap[pred[p]].next = curr[p] /\ pred[p] # curr[p]
      BY <1>2, <2>1, StopFacts DEF IndInv, SearchInv, Found, Searching
    <2>3. First' = IF pred[p] = NULL THEN heap[curr[p]].next ELSE First
      BY <1>2, <2>1, DeleteFacts, FirstKept
    <2>4. ListInv(First)'
      <3>1. /\ curr[p] \in DOMAIN heap
            /\ DOMAIN heap' = DOMAIN heap \ {curr[p]}
            /\ \A m \in DOMAIN heap' :
                   heap'[m] = IF m = pred[p]
                              THEN [heap[m] EXCEPT !.next = heap[curr[p]].next]
                              ELSE heap[m]
        BY <1>2, DeleteFacts
      <3>2. ListInv(First)
        BY DEF IndInv
      <3>3. QED
        BY <2>2, <2>3, <3>1, <3>2, TakenOut
    <2>5. QED
      BY <2>1, <2>4, ChangedInv
  <1>3. QED
    BY <1>1, <1>2
-----------------------------------------------------------------------------
(***************************************************************************)
(* The steps of the threads, around the operations.                        *)
(***************************************************************************)
\* A thread calls the lock for its next operation.
LEMMA StartInv ==
    ASSUME IndInv, NEW t \in Threads, NEW op \in Set!Ops, NEW k \in Keys,
           Start(t, op, k)
    PROVE  IndInv'
  <1> USE ProgramAssumption DEF IndInv, Start, Pending, Move
  <1>1. /\ t \in Procs /\ t # Main /\ at[Main] \notin {"free", "exit"}
        /\ Done' = Done
    BY AtWork, DoneKept DEF Procs
  <1>2. PlacesInv'
    BY <1>1 DEF PlacesInv, Places, Procs
  <1>3. CallsInv'
    <2>1. pc \in [Threads -> Lock!PCs] /\ at \in [Procs -> Places]
      BY DEF CallsInv, PlacesInv
    <2>2. /\ pc' \in [Threads -> Lock!PCs]
          /\ \A u \in Threads \ {t} :
                \/ pc'[u] = pc[u]
                \/ pc[u] = "rd_wait" /\ pc'[u] = "rd_woken"
                \/ pc[u] = "wr_wait" /\ pc'[u] = "wr_woken"
          /\ pc'[t] \in IF op = "member" THEN {"rd_wait", "rd_held"}
                                         ELSE {"wr_wait", "wr_held"}
      BY <2>1, LockFrame
    <2>3. /\ call' \in [Procs -> [op  : Set!Ops \cup {"none"},
                                  key : Keys \cup {0},
                                  rv  : {Set!Unset, 0, 1}]]
          /\ call'[t] = [op |-> op, key |-> k, rv |-> Set!Unset]
          /\ \A u \in Procs \ {t} : call'[u] = call[u] /\ at'[u] = at[u]
          /\ at'[t] = "enter"
      BY <1>1, <2>1 DEF CallsInv
    <2>4. \A u \in Threads :
              /\ at'[u] = "enter" =>
                   pc'[u] \in IF call'[u].op = "member"
                              THEN {"rd_wait", "rd_woken", "rd_held"}
                              ELSE {"wr_wait", "wr_woken", "wr_held"}
              /\ at'[u] = "search" =>
                   pc'[u] = IF call'[u].op = "member" THEN "rd_held"
                                                      ELSE "wr_held"
      BY <2>2, <2>3 DEF CallsInv, Procs
    <2>5. QED
      BY <1>1, <2>2, <2>3, <2>4 DEF CallsInv, key
  <1>4. ListInv(First)'
    BY <1>1, <1>2, ListKept DEF First, list, PlacesInv
  <1>5. SearchInv'
    BY <1>1 DEF SearchInv, PlacesInv, list, Procs, key
  <1>6. CountersInv'
    BY <1>1 DEF CountersInv, PlacesInv, main, counts, Procs, Sum
  <1>7. QED
    BY <1>2, <1>3, <1>4, <1>5, <1>6

\* A thread that waited for the lock gets it.
LEMMA WakeInv ==
    ASSUME IndInv, NEW t \in Threads, Wake(t)
    PROVE  IndInv'
  <1> USE DEF IndInv, Wake
  <1>1. PlacesInv'
    BY DEF PlacesInv
  <1>2. CallsInv'
    <2>1. /\ pc' \in [Threads -> Lock!PCs]
          /\ \A u \in Threads :
                \/ pc'[u] = pc[u]
                \/ pc[u] = "rd_wait" /\ pc'[u] = "rd_woken"
                \/ pc[u] = "wr_wait" /\ pc'[u] = "wr_woken"
                \/ pc[u] = "rd_woken" /\ pc'[u] = "rd_held"
                \/ pc[u] = "wr_woken" /\ pc'[u] = "wr_held"
      BY LockFrame DEF CallsInv
    <2>2. QED
      BY <2>1 DEF CallsInv, key
  <1>3. ListInv(First)'
    BY ListKept DEF First, list
  <1>4. SearchInv'
    BY DEF SearchInv, list, key
  <1>5. CountersInv'
    BY DEF CountersInv, main, counts, Sum, Done
  <1>6. QED
    BY <1>1, <1>2, <1>3, <1>4, <1>5

\* A thread gives the lock back and counts the operation.
LEMMA FinishInv ==
    ASSUME IndInv, NEW t \in Threads, Finish(t)
    PROVE  IndInv'
  <1> USE ProgramAssumption DEF IndInv, Finish, Move
  <1>1. /\ t \in Procs /\ t # Main /\ at[Main] \notin {"free", "exit"}
        /\ Done' = Done
    BY AtWork, DoneKept DEF Procs
  <1>2. PlacesInv'
    BY <1>1 DEF PlacesInv, Places, Procs
  <1>3. CallsInv'
    <2>1. /\ pc' \in [Threads -> Lock!PCs]
          /\ \A u \in Threads \ {t} :
                \/ pc'[u] = pc[u]
                \/ pc[u] = "rd_wait" /\ pc'[u] = "rd_woken"
                \/ pc[u] = "wr_wait" /\ pc'[u] = "wr_woken"
      BY LockFrame DEF CallsInv
    <2>2. at'[t] = "next" /\ \A u \in Procs \ {t} : at'[u] = at[u]
      BY <1>1 DEF PlacesInv
    <2>3. QED
      BY <1>1, <2>1, <2>2 DEF CallsInv, key, Procs
  <1>4. ListInv(First)'
    BY <1>1, <1>2, ListKept DEF First, list, PlacesInv
  <1>5. SearchInv'
    BY <1>1 DEF SearchInv, PlacesInv, list, Procs, key
  <1>6. CountersInv'
    <2>1. /\ call[t].op \in Set!Ops /\ left[t] > 0
          /\ left[t] \in Nat /\ mine[t] \in [Set!Ops -> Nat]
      BY <1>1 DEF CallsInv, CountersInv
    <2>2. Sum(mine'[t]) = Sum(mine[t]) + 1 /\ left'[t] = left[t] - 1
      BY <1>1, <2>1 DEF CountersInv, Sum, Set!Ops
    <2>3. /\ mine' \in [Threads -> [Set!Ops -> Nat]]
          /\ left' \in [Procs -> Nat]
      BY <1>1, <2>1 DEF CountersInv
    <2>4. \A u \in Procs \ {t} : left'[u] = left[u] /\ at'[u] = at[u]
      BY <1>1 DEF CountersInv, PlacesInv
    <2>5. \A u \in Threads \ {t} : mine'[u] = mine[u]
      BY DEF CountersInv
    <2>6. at'[t] = "next"
      BY <1>1 DEF PlacesInv
    <2>7. \A u \in Threads : Sum(mine'[u]) + left'[u] = ops_per_thread
      <3>1. Sum(mine[t]) \in Int
        BY <2>1 DEF Sum, Set!Ops
      <3>2. Sum(mine[t]) + left[t] = ops_per_thread
        BY DEF CountersInv
      <3>3. Sum(mine'[t]) + left'[t] = ops_per_thread
        BY <2>1, <2>2, <3>1, <3>2
      <3>4. \A u \in Threads \ {t} :
                Sum(mine'[u]) + left'[u] = ops_per_thread
        BY <2>4, <2>5 DEF CountersInv, Sum, Procs
      <3>5. QED
        BY <3>3, <3>4
    <2>8. QED
      BY <1>1, <2>3, <2>4, <2>6, <2>7 DEF CountersInv, Sum, Procs
  <1>7. QED
    BY <1>2, <1>3, <1>4, <1>5, <1>6

\* A thread that is done adds its counts to the totals.
LEMMA ReportInv ==
    ASSUME IndInv, NEW t \in Threads, Report(t)
    PROVE  IndInv'
  <1> USE ProgramAssumption DEF IndInv, Report, Move
  <1>1. t \in Procs /\ t # Main /\ at[Main] = "join"
    BY AtWork DEF Procs
  <1>2. PlacesInv'
    BY <1>1 DEF PlacesInv, Places, Procs
  <1>3. CallsInv'
    BY <1>1 DEF CallsInv, PlacesInv, lock, Procs, key
  <1>4. ListInv(First)'
    BY <1>1, <1>2, ListKept DEF First, list, PlacesInv
  <1>5. SearchInv'
    BY <1>1 DEF SearchInv, PlacesInv, list, Procs, key
  <1>6. CountersInv'
    <2>1. /\ Done' = Done \cup {t} /\ t \notin Done
          /\ \A u \in Procs \ {t} : at'[u] = at[u]
          /\ at'[t] = "done"
      BY <1>1 DEF Done, PlacesInv, Procs
    <2>2. IsFiniteSet(Done)
      BY FS_Subset DEF Done
    <2>3. /\ Cardinality(Done) \in Nat
          /\ Cardinality(Done') = Cardinality(Done) + 1
      BY <2>1, <2>2, FS_CardinalityType, FS_AddElement
    <2>4. left[t] = 0 /\ Sum(mine[t]) = ops_per_thread
      <3>1. left[t] \in Nat /\ Sum(mine[t]) \in Int
        BY <1>1 DEF CountersInv, Sum, Set!Ops
      <3>2. QED
        BY <3>1, OpsFacts DEF CountersInv
    <2>5. /\ count' \in [Set!Ops -> Nat]
          /\ Sum(count') = Sum(count) + Sum(mine[t])
      BY DEF CountersInv, Sum, Set!Ops
    <2>6. (Cardinality(Done) + 1) * ops_per_thread
              = Cardinality(Done) * ops_per_thread + ops_per_thread
      BY <2>3, OpsFacts
    <2>7. Sum(count') = Cardinality(Done') * ops_per_thread
      BY <2>3, <2>4, <2>5, <2>6 DEF CountersInv
    <2>8. QED
      BY <1>1, <2>1, <2>4, <2>5, <2>7 DEF CountersInv, main, Sum, Procs
  <1>7. QED
    BY <1>2, <1>3, <1>4, <1>5, <1>6
-----------------------------------------------------------------------------
(***************************************************************************)
(* The steps of main.                                                      *)
(***************************************************************************)
\* main begins to insert a key, without the lock.
LEMMA MainInsertInv ==
    ASSUME IndInv, NEW k \in Keys, MainInsert(k)
    PROVE  IndInv'
  <1> USE ProgramAssumption DEF IndInv, MainInsert, Pending, Move
  <1>1. Main \in Procs /\ Done' = Done
    BY DoneKept DEF Procs
  <1>2. PlacesInv'
    BY DEF PlacesInv, Places, Procs
  <1>3. CallsInv'
    BY <1>1, AtWork DEF CallsInv, PlacesInv, lock, Procs, key, Set!Ops
  <1>4. ListInv(First)'
    BY <1>1, <1>2, ListKept DEF First, list, PlacesInv
  <1>5. SearchInv'
    BY <1>1 DEF SearchInv, PlacesInv, list, Procs, key
  <1>6. CountersInv'
    BY <1>1 DEF CountersInv, PlacesInv, main, counts, Procs, Sum
  <1>7. QED
    BY <1>2, <1>3, <1>4, <1>5, <1>6

\* main counts the key if it was new.
LEMMA MainInsertedInv ==
    ASSUME IndInv, MainInserted
    PROVE  IndInv'
  <1> USE ProgramAssumption DEF IndInv, MainInserted, Move
  <1>1. Main \in Procs /\ Done' = Done
    BY DoneKept DEF Procs
  <1>2. PlacesInv'
    BY DEF PlacesInv, Places, Procs
  <1>3. CallsInv'
    BY <1>1 DEF CallsInv, PlacesInv, lock, Procs, key
  <1>4. ListInv(First)'
    BY <1>1, <1>2, ListKept DEF First, list, PlacesInv
  <1>5. SearchInv'
    BY <1>1 DEF SearchInv, PlacesInv, list, Procs, key
  <1>6. CountersInv'
    <2>1. call[Main].rv \in {0, 1}
      BY <1>1 DEF CallsInv
    <2>2. QED
      BY <1>1, <2>1 DEF CountersInv, PlacesInv, counts, Procs, Sum
  <1>7. QED
    BY <1>2, <1>3, <1>4, <1>5, <1>6

\* main is not in the list when the threads start.
LEMMA CreateThreadsInv ==
    ASSUME IndInv, CreateThreads
    PROVE  IndInv'
  <1> USE ProgramAssumption DEF IndInv, CreateThreads
  <1>1. Main \in Procs /\ \A t \in Threads : at[t] = "unborn"
    BY AtWork DEF Procs
  <1>2. Done' = Done
    BY <1>1 DEF Done, PlacesInv, Procs
  <1>3. PlacesInv'
    BY <1>1 DEF PlacesInv, Places, Procs
  <1>4. CallsInv'
    BY <1>1 DEF CallsInv, PlacesInv, lock, Procs, key
  <1>5. ListInv(First)'
    BY <1>1, ListKept DEF First, list, PlacesInv
  <1>6. SearchInv'
    BY <1>1 DEF SearchInv, PlacesInv, list, Procs, key
  <1>7. CountersInv'
    BY <1>1, <1>2 DEF CountersInv, PlacesInv, main, counts, Procs, Sum
  <1>8. QED
    BY <1>3, <1>4, <1>5, <1>6, <1>7

\* The threads are done when main begins to free the list.
LEMMA JoinInv ==
    ASSUME IndInv, Join
    PROVE  IndInv'
  <1> USE ProgramAssumption DEF IndInv, Join, Move
  <1>1. /\ Main \in Procs /\ \A t \in Threads : at[t] = "done"
        /\ head \in Nodes \cup {NULL}
    BY DEF Procs, ListInv, First
  <1>2. PlacesInv'
    BY <1>1 DEF PlacesInv, Places, Procs
  <1>3. Done' = Done
    BY <1>1 DEF Done, PlacesInv, Procs
  <1>4. CallsInv'
    BY <1>1 DEF CallsInv, PlacesInv, lock, Procs, key
  <1>5. ListInv(First)'
    BY <1>1, ListKept DEF First, list, PlacesInv, SearchInv
  <1>6. SearchInv'
    BY <1>1 DEF SearchInv, PlacesInv, list, Procs, key
  <1>7. CountersInv'
    BY <1>1, <1>3 DEF CountersInv, PlacesInv, main, counts, Procs, Sum
  <1>8. QED
    BY <1>2, <1>4, <1>5, <1>6, <1>7

\* Free_list takes the first node out, and the list starts at the next.
LEMMA FreeNodeInv ==
    ASSUME IndInv, FreeNode
    PROVE  IndInv'
  <1> USE ProgramAssumption DEF IndInv, FreeNode, Move
  <1>1. /\ Main \in Procs /\ \A t \in Threads : at[t] = "done"
        /\ First = curr[Main] /\ curr[Main] \in DOMAIN heap
        /\ heap[curr[Main]].next \in Nodes \cup {NULL}
    BY DEF Procs, PlacesInv, First, SearchInv, ListInv
  <1>2. PlacesInv'
    BY <1>1 DEF PlacesInv, Places, Procs
  <1>3. Done' = Done
    BY <1>1 DEF Done, PlacesInv, Procs
  <1>4. CallsInv'
    BY <1>1 DEF CallsInv, PlacesInv, lock, Procs, key
  <1>5. ListInv(First)'
    <2>1. First' = heap[curr[Main]].next
      BY <1>1 DEF First, PlacesInv, SearchInv
    <2>2. /\ DOMAIN heap' = DOMAIN heap \ {curr[Main]}
          /\ \A m \in DOMAIN heap' :
                 heap'[m] = IF m = NULL
                            THEN [heap[m] EXCEPT !.next = heap[curr[Main]].next]
                            ELSE heap[m]
      BY DEF ListInv
    <2>3. ListInv(First)
      OBVIOUS
    <2> HIDE DEF IndInv, FreeNode, Move
    <2>4. QED
      BY <1>1, <2>1, <2>2, <2>3, TakenOut
  <1>6. SearchInv'
    BY <1>1 DEF SearchInv, PlacesInv, Procs, key
  <1>7. CountersInv'
    BY <1>1, <1>3 DEF CountersInv, PlacesInv, main, counts, Procs, Sum
  <1>8. QED
    BY <1>2, <1>4, <1>5, <1>6, <1>7
-----------------------------------------------------------------------------
\* The operations on the list, of main or of a thread.
LEMMA OperationInv ==
    ASSUME IndInv, Lock!MutualExclusion, NEW p \in Procs, Operation(p)
    PROVE  IndInv'
  BY EnterInv, WalkInv, MemberInv, InsertInv, DeleteInv DEF Operation

\* Every step keeps the invariant.
LEMMA NextInv == IndInv /\ Lock!MutualExclusion /\ [Next]_vars => IndInv'
  <1> SUFFICES ASSUME IndInv, Lock!MutualExclusion, [Next]_vars PROVE IndInv'
    OBVIOUS
  <1>1. CASE UNCHANGED vars
    BY <1>1, ListKept DEF vars, lock, list, main, counts, IndInv, PlacesInv,
                CallsInv, First, SearchInv, CountersInv, Done, Sum, key
  <1>2. CASE MainStep
    BY <1>2, OperationInv, MainInsertInv, MainInsertedInv, CreateThreadsInv,
       JoinInv, FreeNodeInv DEF MainStep, Procs
  <1>3. ASSUME NEW t \in Threads, ThreadStep(t) PROVE IndInv'
    BY <1>3, OperationInv, StartInv, WakeInv, FinishInv, ReportInv
       DEF ThreadStep, Procs
  <1>4. CASE Exited
    BY <1>1, <1>4 DEF Exited
  <1>5. QED
    BY <1>1, <1>2, <1>3, <1>4 DEF Next

\* The invariant holds in every state, given what the lock promises.
THEOREM Invariant == Safety => []IndInv
  BY InitInv, NextInv, LockExcludes, PTL DEF Safety

\* Locations, pointers and counters stay in their types.
THEOREM TypeCorrect == Safety => []TypeOK
  <1>1. IndInv /\ Lock!TypeOK => TypeOK
    <2> SUFFICES ASSUME IndInv, Lock!TypeOK PROVE TypeOK
      OBVIOUS
    <2>1. head \in Nodes \cup {NULL}
      BY DEF IndInv, SearchInv
    <2>2. \A n \in DOMAIN heap : /\ heap[n].data \in Keys
                                 /\ heap[n].next \in Nodes \cup {NULL}
      BY DEF IndInv, ListInv
    <2>3. QED
      BY <2>1, <2>2 DEF TypeOK, IndInv, PlacesInv, SearchInv, CountersInv, ListInv
  <1>2. QED
    BY <1>1, Invariant, LockTyped, PTL

\* No process follows a pointer to a node that Delete or Free_list has freed.
THEOREM NodesAlive == Safety => []NoUseAfterFree
  <1>1. IndInv => NoUseAfterFree
    <2> SUFFICES ASSUME IndInv, NEW p \in Procs
                 PROVE  /\ at[p] = "search" =>
                              {curr[p], pred[p]} \subseteq {NULL} \cup DOMAIN heap
                        /\ at[p] = "free" => curr[p] \in DOMAIN heap
      BY DEF NoUseAfterFree
    <2>1. at[p] = "free" => p = Main
      BY DEF IndInv, PlacesInv, Procs
    <2>2. QED
      BY <2>1 DEF IndInv, SearchInv, ListInv, First
  <1>2. QED
    BY <1>1, Invariant, PTL

\* The heap is a function of the allocated nodes, whatever the steps do to it:
\* with no node left it is the empty one.
HeapInv == heap = [n \in DOMAIN heap |-> heap[n]]

LEMMA HeapKept == Safety => []HeapInv
  <1>1. Init => HeapInv
    BY DEF Init, HeapInv
  <1>2. HeapInv /\ [Next]_vars => HeapInv'
    <2> SUFFICES ASSUME HeapInv, [Next]_vars PROVE HeapInv'
      OBVIOUS
    <2>1. CASE UNCHANGED heap
      BY <2>1 DEF HeapInv
    <2>2. ASSUME NEW p \in Procs, Insert(p) \/ Delete(p) PROVE HeapInv'
      BY <2>1, <2>2 DEF Insert, Delete, Link, list, HeapInv
    <2>3. CASE FreeNode
      BY <2>3 DEF FreeNode, HeapInv
    <2>4. CASE MainStep
      BY <2>1, <2>2, <2>3, <2>4
         DEF MainStep, MainInsert, Operation, Enter, Walk, Member, MainInserted,
             CreateThreads, Join, list, Procs
    <2>5. ASSUME NEW t \in Threads, ThreadStep(t) PROVE HeapInv'
      BY <2>1, <2>2, <2>5
         DEF ThreadStep, Start, Wake, Operation, Enter, Walk, Member, Finish,
             Report, list, Procs
    <2>6. QED
      BY <2>1, <2>4, <2>5 DEF Next, Exited, vars, list
  <1>3. QED
    BY <1>1, <1>2, PTL DEF Safety

\* At exit every operation is counted once and every node is freed.
THEOREM ExitRight == Safety => []ExitInv
  <1>1. IndInv /\ HeapInv => ExitInv
    <2> SUFFICES ASSUME IndInv, HeapInv, at[Main] = "exit" PROVE ExitInv
      BY DEF ExitInv
    <2>1. DOMAIN heap = {}
      BY DEF IndInv, ListInv, First, SearchInv, From
    <2>2. Done = Threads
      BY DEF IndInv, PlacesInv, Done
    <2>3. heap = <<>>
      BY <2>1 DEF HeapInv
    <2>4. QED
      BY <2>2, <2>3 DEF IndInv, CountersInv, ExitInv, Sum, thread_count
  <1>2. QED
    BY <1>1, Invariant, HeapKept, PTL

\* While a thread looks a key up, no step changes the list.
THEOREM ReadersUndisturbed == Safety => StableForReaders
  <1>1. ASSUME IndInv, Lock!MutualExclusion, [Next]_vars,
               NEW t \in Threads, at[t] = "search", call[t].op = "member"
        PROVE  UNCHANGED list
    <2> USE ProgramAssumption
    <2>1. at[Main] = "join" /\ t \in Procs
      BY <1>1, AtWork DEF IndInv, Procs
    <2>2. ASSUME NEW p \in Procs, Insert(p) \/ Delete(p) PROVE FALSE
      BY <1>1, <2>1, <2>2, AloneInList DEF Insert, Delete, Searching
    <2>3. CASE MainStep
      BY <2>1, <2>2, <2>3 DEF MainStep, MainInsert, Operation, Enter, Walk,
            Member, MainInserted, CreateThreads, Join, FreeNode, list, Procs
    <2>4. ASSUME NEW u \in Threads, ThreadStep(u) PROVE UNCHANGED list
      BY <2>2, <2>4 DEF ThreadStep, Start, Wake, Operation, Enter, Walk,
            Member, Finish, Report, list, Procs
    <2>5. CASE Exited \/ UNCHANGED vars
      BY <2>5 DEF Exited, vars, list
    <2>6. QED
      BY <1>1, <2>3, <2>4, <2>5 DEF Next
  <1>2. IndInv /\ Lock!MutualExclusion /\ [Next]_vars =>
            [(\E t \in Threads : at[t] = "search" /\ call[t].op = "member")
                 => UNCHANGED list]_vars
    BY <1>1
  <1>3. QED
    BY <1>2, Invariant, LockExcludes, PTL DEF Safety, StableForReaders
-----------------------------------------------------------------------------
(***************************************************************************)
(* The path that SortedList walks.  ListInv says of each node and its next *)
(* what SortedList says of the whole path, so this is no invariant to keep *)
(* but an induction over the turns of Chain, in one state.                 *)
(***************************************************************************)
\* Every set of numbers that is not empty has a least one.
LEMMA Least ==
    ASSUME NEW T \in SUBSET Nat, T # {}
    PROVE  \E m \in T : \A k \in T : m <= k
  <1> DEFINE R == OpToRel(<, Nat)
  <1>1. \A k, m \in Nat : k < m => <<k, m>> \in R
    BY DEF OpToRel
  <1>2. IsWellFoundedOn(R, Nat)
    BY NatLessThanWellFounded, Zenon
  <1> HIDE DEF R
  <1>3. PICK m \in T : \A k \in T : ~(<<k, m>> \in R)
    BY <1>2, WFMin
  <1>4. ASSUME NEW k \in T PROVE m <= k
    <2>1. k \in Nat /\ m \in Nat
      OBVIOUS
    <2>2. ~(k < m)
      BY <1>1, <1>3, <2>1
    <2>3. QED
      BY <2>1, <2>2
  <1>5. QED
    BY <1>4

\* Induction, said of a set.
LEMMA Induction ==
    ASSUME NEW S, 0 \in S, \A n \in Nat : n \in S => n + 1 \in S
    PROVE  Nat \subseteq S
  <1> SUFFICES ASSUME Nat \ S # {} PROVE FALSE
    OBVIOUS
  <1>1. PICK m \in Nat \ S : \A k \in Nat \ S : m <= k
    BY Least
  <1>2. m - 1 \in Nat /\ ~(m <= m - 1) /\ m = (m - 1) + 1
    BY <1>1
  <1>3. m - 1 \in S
    BY <1>1, <1>2
  <1>4. QED
    BY <1>1, <1>2, <1>3

\* The function that Chain computes: one turn of it, and the whole, up to bound.
Grow(s) ==
    LET m == s[Len(s)]
    IN  IF m \in DOMAIN heap THEN Append(s, heap[m].next) ELSE s
Follows(f, n, bound) ==
    f = [i \in 0..bound |-> IF i = 0 THEN <<n>> ELSE Grow(f[i - 1])]

\* There is one, whatever the bound.
LEMMA FollowsExists ==
    ASSUME NEW n
    PROVE  \A bound \in Nat : \E f : Follows(f, n, bound)
  <1> DEFINE S == {bound \in Nat : \E f : Follows(f, n, bound)}
  <1>1. 0 \in S
    <2>1. Follows([i \in 0..0 |-> <<n>>], n, 0)
      BY DEF Follows
    <2>2. QED
      BY <2>1
  <1>2. ASSUME NEW b \in Nat, b \in S PROVE b + 1 \in S
    <2>1. PICK f : Follows(f, n, b)
      BY <1>2
    <2> DEFINE g == [i \in 0..b + 1 |-> IF i = b + 1 THEN Grow(f[b]) ELSE f[i]]
    <2>2. \A i \in 0..b + 1 : i # b + 1 => i \in 0..b
      OBVIOUS
    <2>3. \A i \in 0..b + 1 :
              g[i] = IF i = 0 THEN <<n>> ELSE Grow(g[i - 1])
      <3> SUFFICES ASSUME NEW i \in 0..b + 1
                   PROVE  g[i] = IF i = 0 THEN <<n>> ELSE Grow(g[i - 1])
        OBVIOUS
      <3>1. CASE i = b + 1
        <4>1. i - 1 = b /\ i # 0 /\ b \in 0..b + 1 /\ b # b + 1
          BY <3>1
        <4>2. g[i] = Grow(f[b]) /\ g[b] = f[b]
          BY <3>1, <4>1
        <4>3. QED
          BY <4>1, <4>2, Zenon
      <3>2. CASE i # b + 1
        <4>1. i \in 0..b /\ (i # 0 => i - 1 \in 0..b + 1 /\ i - 1 # b + 1)
          BY <3>2
        <4>2. g[i] = f[i] /\ (i # 0 => g[i - 1] = f[i - 1])
          BY <3>2, <4>1
        <4>3. f[i] = IF i = 0 THEN <<n>> ELSE Grow(f[i - 1])
          BY <2>1, <4>1, Zenon DEF Follows
        <4>4. QED
          BY <4>2, <4>3, Zenon
      <3>3. QED
        BY <3>1, <3>2
    <2>4. Follows(g, n, b + 1)
      BY <2>3, Zenon DEF Follows
    <2>5. QED
      BY <2>4
  <1> HIDE DEF S
  <1>3. Nat \subseteq S
    BY <1>1, <1>2, Induction
  <1>4. QED
    BY <1>3 DEF S

\* So Chain is the value of such a function at its bound.
LEMMA ChainFollows ==
    ASSUME NEW n
    PROVE  \E f : /\ Follows(f, n, Cardinality(Nodes))
                  /\ Chain(n) = f[Cardinality(Nodes)]
  <1> DEFINE N == Cardinality(Nodes)
             f == CHOOSE f : Follows(f, n, N)
  <1>1. N \in Nat
    BY ProgramAssumption, FS_CardinalityType
  <1>2. Follows(f, n, N)
    BY <1>1, FollowsExists, Zenon
  <1>3. Chain(n) = f[N]
    BY DEF Chain, Follows, Grow
  <1>4. QED
    BY <1>2, <1>3

\* What a path of i turns from the first node is: each node is allocated and
\* the next comes after it, it is strictly increasing, and what it has not
\* passed is ahead.
Path(s, first, i) ==
    /\ s \in Seq(Nodes \cup {NULL}) /\ Len(s) >= 1
    /\ s[1] = first
    /\ s[Len(s)] \in DOMAIN heap \cup {NULL}
    /\ s[Len(s)] = NULL \/ Len(s) = i + 1
    /\ \A k \in 1..Len(s) - 1 : s[k] \in DOMAIN heap
    /\ \A k, l \in 1..Len(s) :
           k < l /\ s[l] # NULL => heap[s[k]].data < heap[s[l]].data
    /\ \A n \in DOMAIN heap :
           (\E k \in 1..Len(s) - 1 : s[k] = n) \/ From(s[Len(s)], n)

\* One turn keeps it so.
LEMMA GrowPath ==
    ASSUME NEW first, ListInv(first), NEW s, NEW i \in Nat, Path(s, first, i)
    PROVE  Path(Grow(s), first, i + 1)
  <1> DEFINE m == s[Len(s)]
  <1>0. /\ s \in Seq(Nodes \cup {NULL}) /\ Len(s) \in Nat /\ Len(s) >= 1
        /\ s[1] = first
        /\ m \in DOMAIN heap \cup {NULL}
        /\ NULL \notin DOMAIN heap
    BY ProgramAssumption DEF Path, ListInv
  <1>1. CASE m = NULL
    <2>1. Grow(s) = s
      BY <1>0, <1>1 DEF Grow
    <2>2. QED
      BY <1>1, <2>1 DEF Path
  <1>2. CASE m \in DOMAIN heap
    <2> DEFINE next == heap[m].next
               t == Append(s, next)
    <2>1. Grow(s) = t
      BY <1>2 DEF Grow
    <2>2. /\ next \in DOMAIN heap \cup {NULL}
          /\ next \in DOMAIN heap => heap[m].data < heap[next].data
          /\ \A n \in DOMAIN heap : From(m, n) => m = n \/ From(next, n)
      <3>1. next \in DOMAIN heap \cup {NULL} /\ \A n \in DOMAIN heap : heap[n].data \in Int
        BY <1>2 DEF ListInv, Keys
      <3>2. next \in DOMAIN heap => heap[m].data < heap[next].data
        BY <1>0, <1>2, <3>1 DEF ListInv, From
      <3>3. ASSUME NEW n \in DOMAIN heap, From(m, n) PROVE m = n \/ From(next, n)
        BY <1>2, <3>1, <3>3 DEF ListInv, From
      <3>4. QED
        BY <3>1, <3>2, <3>3
    <2>3. /\ t \in Seq(Nodes \cup {NULL})
          /\ Len(t) = Len(s) + 1
          /\ t[Len(t)] = next
          /\ \A k \in 1..Len(s) : t[k] = s[k]
      <3>1. next \in Nodes \cup {NULL}
        BY <2>2 DEF ListInv
      <3>2. QED
        BY <1>0, <3>1
    <2>4. \A k \in 1..Len(s) : s[k] \in DOMAIN heap
      BY <1>0, <1>2 DEF Path
    <2>5. Len(s) = i + 1
      BY <1>0, <1>2 DEF Path
    <2>6. ASSUME NEW k \in 1..Len(t), NEW l \in 1..Len(t), k < l, t[l] # NULL
          PROVE  heap[t[k]].data < heap[t[l]].data
      <3>1. k \in 1..Len(s) /\ t[k] = s[k]
        BY <1>0, <2>3, <2>6
      <3>2. CASE l = Len(t)
        <4>1. t[l] = next /\ next \in DOMAIN heap
          BY <2>2, <2>3, <2>6, <3>2
        <4>2. s[k] = m \/ heap[s[k]].data < heap[m].data
          BY <1>0, <1>2, <3>1 DEF Path
        <4>3. heap[s[k]].data \in Int /\ heap[m].data \in Int /\ heap[next].data \in Int
          BY <1>2, <2>4, <3>1, <4>1 DEF ListInv, Keys
        <4>4. QED
          BY <2>2, <3>1, <4>1, <4>2, <4>3
      <3>3. CASE l # Len(t)
        <4>1. l \in 1..Len(s) /\ t[l] = s[l]
          BY <1>0, <2>3, <3>3
        <4>2. QED
          BY <2>6, <3>1, <4>1 DEF Path
      <3>4. QED
        BY <3>2, <3>3
    <2>7. ASSUME NEW n \in DOMAIN heap
          PROVE  (\E k \in 1..Len(t) - 1 : t[k] = n) \/ From(t[Len(t)], n)
      <3>1. (\E k \in 1..Len(s) - 1 : s[k] = n) \/ From(m, n)
        BY DEF Path
      <3>2. (\E k \in 1..Len(s) - 1 : s[k] = n) => \E k \in 1..Len(s) : t[k] = n
        BY <1>0, <2>3
      <3>3. m = n => \E k \in 1..Len(s) : t[k] = n
        BY <1>0, <2>3
      <3>4. Len(t) - 1 = Len(s)
        BY <1>0, <2>3
      <3>5. QED
        BY <2>2, <2>3, <3>1, <3>2, <3>3, <3>4
    <2>8. t[1] = first /\ Len(t) >= 1
      BY <1>0, <2>3
    <2>9. Len(t) = (i + 1) + 1 /\ \A k \in 1..Len(t) - 1 : t[k] \in DOMAIN heap
      BY <1>0, <2>3, <2>4, <2>5
    <2>10. QED
      BY <2>1, <2>2, <2>3, <2>6, <2>7, <2>8, <2>9 DEF Path
  <1>3. QED
    BY <1>0, <1>1, <1>2

\* It does not run out of turns before it comes to NULL: its nodes differ, and
\* it would have more of them than there are.
LEMMA ChainPath ==
    ASSUME ListInv(head)
    PROVE  /\ Path(Chain(head), head, Cardinality(Nodes))
           /\ Chain(head)[Len(Chain(head))] = NULL
  <1> DEFINE N == Cardinality(Nodes)
             s == Chain(head)
  <1>0. N \in Nat /\ IsFiniteSet(Nodes)
    BY ProgramAssumption, FS_CardinalityType
  <1>1. PICK f : Follows(f, head, N) /\ s = f[N]
    BY ChainFollows
  <1>2. \A i \in 0..N : f[i] = IF i = 0 THEN <<head>> ELSE Grow(f[i - 1])
    BY <1>1, Zenon DEF Follows
  <1> DEFINE S == {i \in Nat : i <= N => Path(f[i], head, i)}
  <1>3. 0 \in S
    <2>1. f[0] = <<head>>
      BY <1>0, <1>2
    <2>2. Path(<<head>>, head, 0)
      BY DEF Path, ListInv
    <2>3. QED
      BY <2>1, <2>2
  <1>4. ASSUME NEW i \in Nat, i \in S PROVE i + 1 \in S
    <2> SUFFICES ASSUME i + 1 <= N PROVE Path(f[i + 1], head, i + 1)
      OBVIOUS
    <2>1. i <= N /\ i + 1 \in 0..N /\ i + 1 # 0 /\ (i + 1) - 1 = i
      BY <1>0
    <2>2. f[i + 1] = Grow(f[i])
      BY <1>2, <2>1
    <2>3. QED
      BY <1>4, <2>1, <2>2, GrowPath
  <1>5. Path(s, head, N)
    <2> HIDE DEF S
    <2>1. N \in S
      BY <1>0, <1>3, <1>4, Induction
    <2>2. QED
      BY <1>0, <1>1, <2>1 DEF S
  <1> HIDE DEF S, s
  <1>6. s[Len(s)] = NULL
    <2> SUFFICES ASSUME s[Len(s)] # NULL PROVE FALSE
      OBVIOUS
    <2>1. Len(s) = N + 1 /\ s[Len(s)] \in DOMAIN heap
      BY <1>5 DEF Path
    <2>2. \A k \in 1..N + 1 : s[k] \in DOMAIN heap
      BY <1>0, <1>5, <2>1 DEF Path
    <2>3. DOMAIN heap \subseteq Nodes /\ NULL \notin Nodes
      BY ProgramAssumption DEF ListInv
    <2> DEFINE g == [k \in 1..N + 1 |-> s[k]]
    <2>4. g \in [1..N + 1 -> Nodes]
      BY <2>2, <2>3
    <2>5. IsFiniteSet(1..N + 1) /\ Cardinality(1..N + 1) = N + 1
      <3>1. 1 \in Int /\ N + 1 \in Int /\ ~(1 > N + 1) /\ (N + 1) - 1 + 1 = N + 1
        BY <1>0
      <3>2. QED
        BY <3>1, FS_Interval, Zenon
    <2>6. \E k, l \in 1..N + 1 : k # l /\ g[k] = g[l]
      <3> HIDE DEF g
      <3>1. Cardinality(Nodes) < Cardinality(1..N + 1)
        BY <1>0, <2>5
      <3>2. QED
        BY <1>0, <2>4, <2>5, <3>1, FS_PigeonHole
    <2>7. PICK k, l \in 1..N + 1 : k # l /\ s[k] = s[l]
      BY <2>6
    <2>8. heap[s[k]].data \in Int
      BY <2>2 DEF ListInv, Keys
    <2>9. s[k] # NULL /\ s[l] # NULL
      BY <2>2, <2>3
    <2>10. k < l \/ l < k
      BY <2>7
    <2>11. heap[s[k]].data < heap[s[l]].data \/ heap[s[l]].data < heap[s[k]].data
      BY <1>5, <2>1, <2>9, <2>10 DEF Path
    <2>12. QED
      BY <2>7, <2>8, <2>11
  <1>7. QED
    BY <1>5, <1>6 DEF s

\* Until main frees it the list runs from head to NULL through every node that
\* is allocated, in strictly increasing order: Insert and Delete lose no node
\* and make no cycle, however many nodes and keys there are.
THEOREM ListSorted == Safety => []SortedList
  <1>1. IndInv /\ TypeOK => SortedList
    <2> SUFFICES ASSUME ListInv(First), TypeOK, at[Main] \notin {"free", "exit"}
                 PROVE  SortedList
      BY DEF IndInv, SortedList
    <2> DEFINE s == Chain(head)
    <2>1. ListInv(head)
      BY DEF First
    <2>2. Path(s, head, Cardinality(Nodes)) /\ s[Len(s)] = NULL
      BY <2>1, ChainPath
    <2> HIDE DEF s
    <2>3. Len(s) \in Nat
      BY <2>2 DEF Path
    <2>4. {s[i] : i \in 1..Len(s) - 1} = DOMAIN heap
      BY <2>2, <2>3 DEF Path, From
    <2>5. ASSUME NEW i \in 1..Len(s) - 1, NEW j \in 1..Len(s) - 1, i < j
          PROVE  heap[s[i]].data < heap[s[j]].data
      <3>1. s[j] # NULL
        BY <2>1, <2>2, ProgramAssumption DEF Path, ListInv
      <3>2. QED
        BY <2>2, <2>3, <2>5, <3>1 DEF Path
    <2>6. QED
      BY <2>2, <2>4, <2>5 DEF SortedList, s
  <1>2. QED
    BY <1>1, Invariant, TypeCorrect, PTL
-----------------------------------------------------------------------------
(***************************************************************************)
(* The list implements KeySet: each operation takes effect in the step     *)
(* that ends its search.                                                   *)
(***************************************************************************)
\* The keys of the list are those of the heap.
LEMMA KeysKept == UNCHANGED heap => ListKeys' = ListKeys
  BY DEF ListKeys

\* Member returns whether the key is in the set.
LEMMA MemberSeen ==
    ASSUME IndInv, NEW p \in Procs, Member(p)
    PROVE  Set!Member(p) /\ call[p].rv = Set!Unset
  <1>1. Searching(p) /\ ~Before(p) /\ at[p] = "search"
    BY DEF Member, Searching
  <1>2. Found(p) <=> key(p) \in ListKeys
    BY <1>1, StopFacts
  <1>3. QED
    BY <1>1, <1>2, KeysKept DEF Member, Set!Member, Return, Set!Return, list,
                                IndInv, CallsInv, key

\* Insert adds the key to the set, and returns 1 if it was not there.
LEMMA InsertSeen ==
    ASSUME IndInv, NEW p \in Procs, Insert(p)
    PROVE  Set!Insert(p) /\ call[p].rv = Set!Unset
  <1>1. Searching(p) /\ ~Before(p) /\ at[p] = "search"
    BY DEF Insert, Searching
  <1>2. Found(p) <=> key(p) \in ListKeys
    BY <1>1, StopFacts
  <1>3. ListKeys' = ListKeys \cup {key(p)}
    <2>1. CASE Found(p)
      BY <1>2, <2>1, KeysKept DEF Insert, list
    <2>2. CASE ~Found(p)
      <3>1. PICK n \in Nodes \ DOMAIN heap :
                /\ DOMAIN heap' = DOMAIN heap \cup {n}
                /\ heap'[n] = [data |-> key(p), next |-> curr[p]]
                /\ \A m \in DOMAIN heap :
                       heap'[m] = IF m = pred[p]
                                  THEN [heap[m] EXCEPT !.next = n] ELSE heap[m]
        BY <2>2, InsertFacts
      <3>2. /\ heap'[n].data = key(p)
            /\ \A m \in DOMAIN heap : heap'[m].data = heap[m].data
        BY <3>1 DEF IndInv, ListInv
      <3>3. QED
        BY <3>1, <3>2 DEF ListKeys
    <2>3. QED
      BY <2>1, <2>2
  <1>4. QED
    BY <1>1, <1>2, <1>3 DEF Insert, Set!Insert, Return, Set!Return, IndInv,
                            CallsInv, key

\* Delete takes the key from the set, and returns 1 if it was there.
LEMMA DeleteSeen ==
    ASSUME IndInv, NEW p \in Procs, Delete(p)
    PROVE  Set!Delete(p) /\ call[p].rv = Set!Unset
  <1>1. Searching(p) /\ ~Before(p) /\ at[p] = "search"
    BY DEF Delete, Searching
  <1>2. Found(p) <=> key(p) \in ListKeys
    BY <1>1, StopFacts
  <1>3. ListKeys' = ListKeys \ {key(p)}
    <2>1. CASE ~Found(p)
      BY <1>2, <2>1, KeysKept DEF Delete, list
    <2>2. CASE Found(p)
      <3>1. \A m \in DOMAIN heap' : heap'[m].data = heap[m].data
        <4>1. /\ DOMAIN heap' \subseteq DOMAIN heap
              /\ \A m \in DOMAIN heap' :
                     heap'[m] = IF m = pred[p]
                                THEN [heap[m] EXCEPT !.next = heap[curr[p]].next]
                                ELSE heap[m]
          BY <2>2, DeleteFacts
        <4>2. QED
          BY <4>1 DEF IndInv, ListInv
      <3>2. /\ heap[curr[p]].data = key(p) /\ curr[p] \in DOMAIN heap
            /\ DOMAIN heap' = DOMAIN heap \ {curr[p]}
        BY <2>2, DeleteFacts DEF Found
      <3>3. \A m \in DOMAIN heap : heap[m].data = key(p) => m = curr[p]
        BY <3>2 DEF IndInv, ListInv
      <3>4. QED
        BY <3>1, <3>2, <3>3 DEF ListKeys
    <2>3. QED
      BY <2>1, <2>2
  <1>4. QED
    BY <1>1, <1>2, <1>3 DEF Delete, Set!Delete, Return, Set!Return, IndInv,
                            CallsInv, key

\* The start of an operation is a call.
LEMMA CallSeen ==
    ASSUME IndInv, NEW p \in Procs, NEW op \in Set!Ops, NEW k \in Keys,
           at[p] = "next", Pending(p, op, k), UNCHANGED heap
    PROVE  Set!Call(p, op, k)
  BY KeysKept DEF IndInv, CallsInv, Pending, Set!Call

\* A step of an operation takes effect on the set, or does nothing to it.
LEMMA OperationSeen ==
    ASSUME IndInv, NEW p \in Procs, Operation(p)
    PROVE  Set!Next \/ UNCHANGED <<ListKeys, call>>
  <1>1. CASE Enter(p) \/ Walk(p)
    BY <1>1, KeysKept DEF Enter, Walk, list
  <1>2. CASE Member(p) \/ Insert(p) \/ Delete(p)
    BY <1>2, MemberSeen, InsertSeen, DeleteSeen DEF Set!Next
  <1>3. QED
    BY <1>1, <1>2 DEF Operation

\* So does every step, until main frees the nodes.
LEMMA StepSeen ==
    ASSUME IndInv, [Next]_vars
    PROVE  [at[Main] # "free" => Set!Next]_<<ListKeys, call>>
  <1>1. CASE UNCHANGED vars \/ Exited
    BY <1>1, KeysKept DEF Exited, vars, list
  <1>2. CASE MainStep
    <2>1. ASSUME NEW k \in Keys, MainInsert(k) PROVE Set!Next
      BY <2>1, CallSeen DEF MainInsert, list, Set!Next, Procs, Set!Ops
    <2>2. CASE Operation(Main)
      BY <2>2, OperationSeen DEF Procs
    <2>3. CASE MainInserted \/ CreateThreads \/ Join
      BY <2>3, KeysKept DEF MainInserted, CreateThreads, Join, list
    <2>4. CASE FreeNode
      BY <2>4 DEF FreeNode
    <2>5. QED
      BY <1>2, <2>1, <2>2, <2>3, <2>4 DEF MainStep
  <1>3. ASSUME NEW t \in Threads, ThreadStep(t)
        PROVE  Set!Next \/ UNCHANGED <<ListKeys, call>>
    <2>1. ASSUME NEW op \in Set!Ops, NEW k \in Keys, Start(t, op, k)
          PROVE  Set!Next
      BY <2>1, CallSeen DEF Start, list, Set!Next, Procs
    <2>2. CASE Operation(t)
      BY <2>2, OperationSeen DEF Procs
    <2>3. CASE Wake(t) \/ Finish(t) \/ Report(t)
      BY <2>3, KeysKept DEF Wake, Finish, Report, list
    <2>4. QED
      BY <1>3, <2>1, <2>2, <2>3 DEF ThreadStep
  <1>4. QED
    BY <1>1, <1>2, <1>3 DEF Next

\* The list behaves as a set of keys: a call returns what the set said at one
\* moment between its beginning and its end.
THEOREM Implements == Safety => Linearizable
  <1>1. Init => Set!Init
    BY DEF Init, Set!Init, ListKeys
  <1>2. IndInv /\ [Next]_vars =>
            [at[Main] # "free" => Set!Next]_<<ListKeys, call>>
    BY StepSeen
  <1>3. QED
    BY <1>1, <1>2, Invariant, PTL DEF Safety, Linearizable
=============================================================================
