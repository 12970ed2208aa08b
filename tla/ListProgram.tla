----------------------------- MODULE ListProgram -----------------------------
(***************************************************************************)
(* my_simple_pth_ll_rwl.c: a sorted linked list shared by thread_count     *)
(* threads under the simple readers-writer lock.                           *)
(*                                                                         *)
(* main fills the list, starts the threads, joins them and frees the list. *)
(* Each thread runs total_ops/thread_count operations, drawn at random:    *)
(* here any operation on any key.  A list operation is as many steps as    *)
(* it visits nodes, so that whatever the lock lets in runs in between.     *)
(***************************************************************************)
EXTENDS Integers, FiniteSets, Sequences

CONSTANTS
    Threads,            \* the thread_count threads
    Main,               \* the main thread
    Nodes,              \* the addresses malloc can return
    MaxKey,             \* keys are 1..MaxKey
    InsertsInMain,      \* inserts_in_main
    TotalOps,           \* total_ops
    NULL

Keys == 1..MaxKey
Procs == Threads \cup {Main}
thread_count == Cardinality(Threads)
ops_per_thread == TotalOps \div thread_count

ASSUME ProgramAssumption ==
    /\ IsFiniteSet(Threads) /\ Threads # {} /\ Main \notin Threads
    /\ IsFiniteSet(Nodes) /\ NULL \notin Nodes
    /\ MaxKey \in Nat /\ InsertsInMain \in Nat /\ TotalOps \in Nat

VARIABLES
    pc, reader_cnt, writer_cnt, writing,    \* the lock
    heap,       \* the allocated nodes: data and next of each
    head,       \* the first node of the list, or NULL
    at,         \* where each process is in its own code
    call,       \* its current or last operation, with the value returned
    curr, pred, \* the pointers of Insert, Delete and Member
    left,       \* operations a thread still has to run; for main, attempts
    inserted,   \* keys main has inserted
    mine,       \* my_member_count, my_insert_count, my_delete_count
    count       \* member_count, insert_count, delete_count

Lock == INSTANCE SimpleRWLock

\* The keys of the list, and the operations on them as they should be.
ListKeys == {heap[n].data : n \in DOMAIN heap}

Set == INSTANCE KeySet WITH set <- ListKeys

lock   == <<pc, reader_cnt, writer_cnt, writing>>
list   == <<heap, head>>
counts == <<mine, count>>
main   == <<left, inserted>>
vars   == <<lock, list, at, call, curr, pred, main, counts>>

Zero == [op \in Set!Ops |-> 0]

Init ==
    /\ Lock!Init
    /\ heap = <<>> /\ head = NULL
    /\ at = [p \in Procs |-> IF p = Main THEN "next" ELSE "unborn"]
    /\ call = [p \in Procs |-> Set!None]
    /\ curr = [p \in Procs |-> NULL] /\ pred = [p \in Procs |-> NULL]
    /\ left = [p \in Procs |-> IF p = Main THEN 2 * InsertsInMain
                                           ELSE ops_per_thread]
    /\ inserted = 0
    /\ mine = [t \in Threads |-> Zero] /\ count = Zero

Move(p, to) == at' = [at EXCEPT ![p] = to]
Pending(p, op, key) ==
    call' = [call EXCEPT ![p] = [op |-> op, key |-> key, rv |-> Set!Unset]]
Return(p, rv) ==
    /\ call' = [call EXCEPT ![p].rv = rv]
    /\ Move(p, "return")
-----------------------------------------------------------------------------
(***************************************************************************)
(* Insert, Delete and Member.  Enter is their declarations, Walk one turn  *)
(* of the loop, and the rest runs when the loop ends.                      *)
(***************************************************************************)
Enter(p) ==
    /\ at[p] = "enter"
    /\ p # Main => pc[p] \in {"rd_held", "wr_held"}
    /\ curr' = [curr EXCEPT ![p] = head]
    /\ pred' = [pred EXCEPT ![p] = NULL]
    /\ Move(p, "search")
    /\ UNCHANGED <<lock, list, call, main, counts>>

key(p) == call[p].key

\* Mutant of Before: the search goes past the key it looks for.
BeforeOrAt(p) == curr[p] # NULL /\ heap[curr[p]].data <= key(p)

Before(p) == curr[p] # NULL /\ heap[curr[p]].data < key(p)
Found(p)  == curr[p] # NULL /\ heap[curr[p]].data = key(p)

\* A process reads *curr only while it is allocated; NoUseAfterFree says that
\* it always is.
Searching(p) == at[p] = "search" /\ curr[p] \in {NULL} \cup DOMAIN heap

Walk(p) ==
    /\ Searching(p) /\ Before(p)
    /\ pred' = [pred EXCEPT ![p] = curr[p]]
    /\ curr' = [curr EXCEPT ![p] = heap[curr[p]].next]
    /\ UNCHANGED <<lock, list, at, call, main, counts>>

\* Mutant of Member: any key that the search stops at will do.
MemberAnyKey(p) ==
    /\ Searching(p) /\ ~Before(p) /\ call[p].op = "member"
    /\ Return(p, IF curr[p] # NULL THEN 1 ELSE 0)
    /\ UNCHANGED <<lock, list, curr, pred, main, counts>>

Member(p) ==
    /\ Searching(p) /\ ~Before(p) /\ call[p].op = "member"
    /\ Return(p, IF Found(p) THEN 1 ELSE 0)
    /\ UNCHANGED <<lock, list, curr, pred, main, counts>>

\* The store that makes pred, or head, point to n.
Link(p, n, newHeap) ==
    IF pred[p] = NULL
    THEN head' = n /\ heap' = newHeap
    ELSE /\ UNCHANGED head
         /\ heap' = [m \in DOMAIN newHeap |->
                        IF m = pred[p] THEN [newHeap[m] EXCEPT !.next = n]
                                       ELSE newHeap[m]]

Insert(p) ==
    /\ Searching(p) /\ ~Before(p) /\ call[p].op = "insert"
    /\ \/ /\ Found(p)
          /\ Return(p, 0)
          /\ UNCHANGED list
       \/ /\ ~Found(p)
          /\ \E temp \in Nodes \ DOMAIN heap :
                 Link(p, temp,
                      [n \in DOMAIN heap \cup {temp} |->
                           IF n = temp
                           THEN [data |-> key(p), next |-> curr[p]]
                           ELSE heap[n]])
          /\ Return(p, 1)
    /\ UNCHANGED <<lock, curr, pred, main, counts>>

Delete(p) ==
    /\ Searching(p) /\ ~Before(p) /\ call[p].op = "delete"
    /\ \/ /\ Found(p)
          /\ Link(p, heap[curr[p]].next,
                  [n \in DOMAIN heap \ {curr[p]} |-> heap[n]])
          /\ Return(p, 1)
       \/ /\ ~Found(p)
          /\ Return(p, 0)
          /\ UNCHANGED list
    /\ UNCHANGED <<lock, curr, pred, main, counts>>
-----------------------------------------------------------------------------
(***************************************************************************)
(* Thread_work.  A thread calls the lock before the operation and after.   *)
(***************************************************************************)
\* Mutant of Start: only an insert takes the write lock.
StartReading(t, op, k) ==
    /\ at[t] = "next" /\ left[t] > 0
    /\ IF op = "insert" THEN Lock!WrLock(t) ELSE Lock!RdLock(t)
    /\ Pending(t, op, k)
    /\ Move(t, "enter")
    /\ UNCHANGED <<list, curr, pred, main, counts>>

Start(t, op, k) ==
    /\ at[t] = "next" /\ left[t] > 0
    /\ IF op = "member" THEN Lock!RdLock(t) ELSE Lock!WrLock(t)
    /\ Pending(t, op, k)
    /\ Move(t, "enter")
    /\ UNCHANGED <<list, curr, pred, main, counts>>

Wake(t) ==
    /\ Lock!Resume(t)
    /\ UNCHANGED <<list, at, call, curr, pred, main, counts>>

\* Mutant of Finish: an operation that found nothing to do keeps the lock.
FinishEarly(t) ==
    /\ at[t] = "return"
    /\ IF call[t].rv = 1 THEN Lock!Unlock(t) ELSE UNCHANGED lock
    /\ mine' = [mine EXCEPT ![t][call[t].op] = @ + 1]
    /\ left' = [left EXCEPT ![t] = @ - 1]
    /\ Move(t, "next")
    /\ UNCHANGED <<list, call, curr, pred, inserted, count>>

Finish(t) ==
    /\ at[t] = "return"
    /\ Lock!Unlock(t)
    /\ mine' = [mine EXCEPT ![t][call[t].op] = @ + 1]
    /\ left' = [left EXCEPT ![t] = @ - 1]
    /\ Move(t, "next")
    /\ UNCHANGED <<list, call, curr, pred, inserted, count>>

\* Mutant of Report: the counts of another thread are overwritten.
ReportOver(t) ==
    /\ at[t] = "next" /\ left[t] <= 0
    /\ count' = mine[t]
    /\ Move(t, "done")
    /\ UNCHANGED <<lock, list, call, curr, pred, main, mine>>

\* The end of Thread_work, under count_mutex.
Report(t) ==
    /\ at[t] = "next" /\ left[t] <= 0
    /\ count' = [op \in Set!Ops |-> count[op] + mine[t][op]]
    /\ Move(t, "done")
    /\ UNCHANGED <<lock, list, call, curr, pred, main, mine>>
-----------------------------------------------------------------------------
(***************************************************************************)
(* main.  It inserts without the lock, before it starts the threads.       *)
(***************************************************************************)
MainInsert(k) ==
    /\ at[Main] = "next"
    /\ inserted < InsertsInMain /\ left[Main] > 0
    /\ Pending(Main, "insert", k)
    /\ Move(Main, "enter")
    /\ UNCHANGED <<lock, list, curr, pred, main, counts>>

MainInserted ==
    /\ at[Main] = "return"
    /\ left' = [left EXCEPT ![Main] = @ - 1]
    /\ inserted' = inserted + call[Main].rv
    /\ Move(Main, "next")
    /\ UNCHANGED <<lock, list, call, curr, pred, counts>>

CreateThreads ==
    /\ at[Main] = "next"
    /\ inserted >= InsertsInMain \/ left[Main] <= 0
    /\ at' = [p \in Procs |-> IF p = Main THEN "join" ELSE "next"]
    /\ UNCHANGED <<lock, list, call, curr, pred, main, counts>>

\* pthread_join of every thread, then the beginning of Free_list.
Join ==
    /\ at[Main] = "join"
    /\ \A t \in Threads : at[t] = "done"
    /\ curr' = [curr EXCEPT ![Main] = head]
    /\ Move(Main, IF head = NULL THEN "exit" ELSE "free")
    /\ UNCHANGED <<lock, list, call, pred, main, counts>>

\* One turn of the loop of Free_list, and what follows it at the last node.
FreeNode ==
    /\ at[Main] = "free"
    /\ LET following == heap[curr[Main]].next
       IN  /\ heap' = [n \in DOMAIN heap \ {curr[Main]} |-> heap[n]]
           /\ curr' = [curr EXCEPT ![Main] = following]
           /\ Move(Main, IF following = NULL THEN "exit" ELSE "free")
    /\ UNCHANGED <<lock, head, call, pred, main, counts>>

Operation(p) == Enter(p) \/ Walk(p) \/ Member(p) \/ Insert(p) \/ Delete(p)

ThreadStep(t) ==
    \/ \E op \in Set!Ops, k \in Keys : Start(t, op, k)
    \/ Wake(t) \/ Operation(t) \/ Finish(t) \/ Report(t)

MainStep ==
    \/ \E k \in Keys : MainInsert(k)
    \/ Operation(Main) \/ MainInserted
    \/ CreateThreads \/ Join \/ FreeNode

Exited == at[Main] = "exit" /\ UNCHANGED vars

Next == MainStep \/ (\E t \in Threads : ThreadStep(t)) \/ Exited

Safety == Init /\ [][Next]_vars

\* Every thread that can run does: the scheduler starves nobody.
Spec == /\ Safety
        /\ WF_vars(MainStep)
        /\ \A t \in Threads : WF_vars(ThreadStep(t))
-----------------------------------------------------------------------------
\* The nodes of the list from n on, in order; it stops where the list runs
\* into a node that is not allocated, and at a bound if it is cyclic.
Chain(n) ==
    LET f[i \in 0..Cardinality(Nodes)] ==
            IF i = 0 THEN <<n>>
            ELSE LET s == f[i - 1]
                     m == s[Len(s)]
                 IN  IF m \in DOMAIN heap THEN Append(s, heap[m].next) ELSE s
    IN  f[Cardinality(Nodes)]

Places == {"unborn", "next", "enter", "search", "return", "done",
           "join", "free", "exit"}

\* Locations, pointers and counters are in their types, and the lock is in a
\* state of its own.
TypeOK ==
    /\ Lock!TypeOK
    /\ DOMAIN heap \subseteq Nodes
    /\ \A n \in DOMAIN heap : /\ heap[n].data \in Keys
                              /\ heap[n].next \in Nodes \cup {NULL}
    /\ head \in Nodes \cup {NULL}
    /\ at \in [Procs -> Places]
    /\ curr \in [Procs -> Nodes \cup {NULL}]
    /\ pred \in [Procs -> Nodes \cup {NULL}]
    /\ left \in [Procs -> Nat]
    /\ inserted \in 0..InsertsInMain
    /\ mine \in [Threads -> [Set!Ops -> Nat]]
    /\ count \in [Set!Ops -> Nat]

\* No process is about to follow a pointer to a node that another has freed:
\* Delete frees while it has the lock alone, Free_list after the join.
NoUseAfterFree ==
    \A p \in Procs :
        /\ at[p] = "search" => {curr[p], pred[p]} \subseteq {NULL} \cup DOMAIN heap
        /\ at[p] = "free" => curr[p] \in DOMAIN heap

\* The types hold, and until main frees it the list runs from head to NULL
\* through every node that is allocated, in strictly increasing order: it has
\* no duplicate and no cycle, and Insert and Delete lose no node.
SortedList ==
    /\ TypeOK
    /\ at[Main] \notin {"free", "exit"} =>
        LET s == Chain(head)
            nodes == {s[i] : i \in 1..Len(s) - 1}
        IN  /\ s[Len(s)] = NULL
            /\ nodes = DOMAIN heap
            /\ \A i, j \in 1..Len(s) - 1 :
                   i < j => heap[s[i]].data < heap[s[j]].data

\* A reader walks a list that nobody changes under it: while a Member is on
\* its way, no step links, unlinks or frees a node.
StableForReaders ==
    [][(\E t \in Threads : at[t] = "search" /\ call[t].op = "member")
           => UNCHANGED list]_vars

\* At exit every operation that was run is counted, once, and no node is left.
ExitInv ==
    at[Main] = "exit" =>
        /\ heap = <<>>
        /\ count["member"] + count["insert"] + count["delete"]
               = thread_count * ops_per_thread

\* The threads all end and main exits: nobody waits for the lock for ever.
Terminates == <>(at[Main] = "exit")

\* The list is linearizable: each operation takes effect on the set of keys in
\* one step between its call and its return, and returns what it should.
\* (When main frees the nodes one by one, the list is out of use.)
Linearizable ==
    /\ Set!Init
    /\ [][at[Main] # "free" => Set!Next]_<<ListKeys, call>>
=============================================================================
