--------------------------- MODULE WebServerProofs ---------------------------
(***************************************************************************)
(* What TLC checks of the web server with two clients and two workers,     *)
(* proved for any number of each, any ring, backlog and file: a connection *)
(* that is open is in one hand, and a client is answered what it asked.    *)
(* The ring enters by what RequestQueueProofs says of it.                  *)
(***************************************************************************)
EXTENDS WebServer, FiniteSetTheorems, SequenceTheorems, TLAPS

\* No element is in the sequence twice.
Distinct(s) == \A i, j \in 1 .. Len(s) : s[i] = s[j] => i = j

\* Main pushes what it read, and a worker is out of the pop when it answers.
CallsInv ==
    /\ mpc \in {"accept", "read"} => qpc[Main] = "out"
    /\ mpc # "accept" => msock \in Clients
    /\ mpc = "push" /\ qpc[Main] \in {"push_wait", "push_woken"} => item[Main] = msock
    /\ \A w \in Workers : /\ wpc[w] # "loop" => qpc[w] = "out"
                          /\ wpc[w] = "body" => body[w] > 0

\* OneOwner, said of pairs of hands: no two have a connection between them.
Ring == Q!Contents

Hand == [w \in Workers |-> InWorker(w)]

Shared(open, main, ring, hand) ==
    /\ open = main \cup ToSet(ring) \cup UNION {hand[w] : w \in Workers}
    /\ Distinct(ring)
    /\ main \cap ToSet(ring) = {}
    /\ \A w \in Workers : hand[w] \cap (main \cup ToSet(ring)) = {}
    /\ \A w, u \in Workers : w # u => hand[w] \cap hand[u] = {}

OwnInv == Shared(sopen, InMain, Ring, Hand)

\* Nor has the backlog of the kernel, and a server that is dead has none.
BacklogInv ==
    /\ ToSet(backlog) \cap sopen = {}
    /\ Distinct(backlog)
    /\ ~alive => backlog = <<>> /\ sopen = {}

\* How far the exchange with a client is: it has asked at most; it has asked
\* and main has read what; the server has written so many pieces of an answer
\* that begins with status, and the client has read some of them; it has
\* written the whole of an answer to what was asked.
Asked(c) ==
    /\ outbox[c] = <<>>
    /\ \/ cpc[c] = "write" /\ inbox[c] = None
       \/ cpc[c] = "read" /\ inbox[c] # None

Unanswered(c) == cpc[c] = "read" /\ outbox[c] = <<>> /\ msg[c] \in Requests

Written(c, status, bytes) ==
    \/ cpc[c] = "read" /\ Len(outbox[c]) = bytes /\ Head(outbox[c]) = status
    \/ /\ cpc[c] = "more" /\ got[c].status = status
       /\ got[c].bytes + Len(outbox[c]) = bytes

Complete(c) == \E a \in Expected(msg[c]) : Written(c, a.status, a.bytes)

\* It is as far as the hand that has the connection has come.
StageInv(c) ==
    /\ c \in ToSet(backlog) \/ (mpc = "read" /\ c = msock) => Asked(c)
    /\ (mpc = "push" /\ c \in InMain) \/ c \in ToSet(Ring) => Unanswered(c)
    /\ \A w \in Workers : c \in InWorker(w) =>
        /\ wpc[w] \in {"loop", "answer"} => Unanswered(c)
        /\ wpc[w] = "body" => /\ msg[c] = "file"
                              /\ Written(c, 200, 1 + BodyWrites - body[w])
        /\ wpc[w] = "close" => Complete(c)
    /\ alive /\ c \notin sopen \cup ToSet(backlog) =>
           cpc[c] \in {"start", "exit"} \/ Complete(c)

\* A client that is not killed is at its stage, and one between two accesses
\* has no connection.  What a client reads never exceeds a whole file.
ClientInv ==
    /\ outbox \in [Clients -> Seq(Statuses \cup {0})]
    /\ \A c \in Clients :
        /\ ~Gone(c) => StageInv(c)
        /\ cpc[c] \in {"start", "exit"} => c \notin sopen \cup ToSet(backlog)
        /\ cpc[c] \in {"write", "read", "more"} => left[c] > 0
        /\ Len(outbox[c]) + (IF cpc[c] = "more" THEN got[c].bytes ELSE 0)
               <= BodyWrites + 1

IndInv == TypeOK /\ CallsInv /\ OwnInv /\ BacklogInv /\ ClientInv
-----------------------------------------------------------------------------
(***************************************************************************)
(* Sequences.                                                              *)
(***************************************************************************)
LEMMA AppendSet ==
    ASSUME NEW S, NEW s \in Seq(S), NEW x \in S
    PROVE  /\ ToSet(Append(s, x)) = ToSet(s) \cup {x}
           /\ Distinct(s) /\ x \notin ToSet(s) => Distinct(Append(s, x))
  <1> DEFINE t == Append(s, x)
  <1>1. /\ t \in Seq(S) /\ Len(t) = Len(s) + 1 /\ Len(s) \in Nat
        /\ \A i \in 1 .. Len(s) : t[i] = s[i]
        /\ t[Len(s) + 1] = x
    BY AppendProperties
  <1>2. DOMAIN s = 1 .. Len(s) /\ DOMAIN t = 1 .. Len(s) + 1
    BY <1>1
  <1> HIDE DEF t
  <1>3. ToSet(t) = ToSet(s) \cup {x}
    <2>1. \A i \in 1 .. Len(s) + 1 : i \in 1 .. Len(s) \/ i = Len(s) + 1
      BY <1>1
    <2>2. \A i \in 1 .. Len(s) : i \in 1 .. Len(s) + 1
      BY <1>1
    <2>3. Len(s) + 1 \in 1 .. Len(s) + 1
      BY <1>1
    <2>4. QED
      BY <1>1, <1>2, <2>1, <2>2, <2>3 DEF ToSet
  <1>4. Distinct(s) /\ x \notin ToSet(s) => Distinct(t)
    <2> SUFFICES ASSUME Distinct(s), x \notin ToSet(s),
                        NEW i \in 1 .. Len(s) + 1, NEW j \in 1 .. Len(s) + 1,
                        t[i] = t[j]
                 PROVE  i = j
      BY <1>1 DEF Distinct
    <2>1. \A k \in 1 .. Len(s) : t[k] # x
      BY <1>1, <1>2 DEF ToSet
    <2>2. QED
      BY <1>1, <2>1 DEF Distinct
  <1>5. QED
    BY <1>3, <1>4 DEF t

LEMMA TailSet ==
    ASSUME NEW S, NEW s \in Seq(S), s # <<>>, Distinct(s)
    PROVE  /\ ToSet(s) = ToSet(Tail(s)) \cup {Head(s)}
           /\ Head(s) \in S /\ Head(s) \notin ToSet(Tail(s))
           /\ Tail(s) \in Seq(S) /\ Distinct(Tail(s))
           /\ Len(Tail(s)) < Len(s)
  <1> DEFINE t == Tail(s)
  <1>1. /\ t \in Seq(S) /\ Len(t) = Len(s) - 1 /\ Len(s) \in Nat \ {0}
        /\ \A i \in 1 .. Len(s) - 1 : t[i] = s[i + 1]
        /\ Head(s) = s[1] /\ Head(s) \in S
    BY HeadTailProperties
  <1>2. DOMAIN s = 1 .. Len(s) /\ DOMAIN t = 1 .. Len(s) - 1
    BY <1>1
  <1> HIDE DEF t
  <1>3. ToSet(t) = {s[i + 1] : i \in 1 .. Len(s) - 1}
    BY <1>1, <1>2 DEF ToSet
  <1>4. \A i \in 1 .. Len(s) : i = 1 \/ (i - 1 \in 1 .. Len(s) - 1 /\ i = (i - 1) + 1)
    BY <1>1
  <1>5. \A i \in 1 .. Len(s) - 1 : i + 1 \in 1 .. Len(s) /\ i + 1 # 1
    BY <1>1
  <1>6. 1 \in 1 .. Len(s)
    BY <1>1
  <1>7. ToSet(s) = ToSet(t) \cup {Head(s)}
    <2>1. \A i \in 1 .. Len(s) : i = 1 \/ s[i] \in ToSet(t)
      <3> TAKE i \in 1 .. Len(s)
      <3>1. CASE i - 1 \in 1 .. Len(s) - 1 /\ i = (i - 1) + 1
        BY <1>3, <3>1
      <3>2. QED
        BY <1>4, <3>1
    <2>2. ToSet(s) = {s[i] : i \in 1 .. Len(s)}
      BY <1>2 DEF ToSet
    <2>3. QED
      BY <1>1, <1>3, <1>5, <1>6, <2>1, <2>2
  <1>8. Head(s) \notin ToSet(t)
    BY <1>1, <1>3, <1>5, <1>6 DEF Distinct
  <1>9. Distinct(t)
    <2> SUFFICES ASSUME NEW i \in 1 .. Len(s) - 1, NEW j \in 1 .. Len(s) - 1, t[i] = t[j]
                 PROVE  i = j
      BY <1>1 DEF Distinct
    <2>1. s[i + 1] = s[j + 1]
      BY <1>1
    <2>2. i + 1 = j + 1
      BY <1>5, <2>1 DEF Distinct
    <2>3. QED
      BY <2>2
  <1>10. QED
    BY <1>1, <1>7, <1>8, <1>9 DEF t

LEMMA NoSet == ToSet(<<>>) = {} /\ Distinct(<<>>)
  BY DEF ToSet, Distinct
-----------------------------------------------------------------------------
(***************************************************************************)
(* The ring.                                                               *)
(***************************************************************************)
QP == INSTANCE RequestQueueProofs
          WITH Producers <- {Main}, Consumers <- Workers, Requests <- Clients,
               pc <- qpc

\* The server uses the queue as its theorems assume, but for the wakeups without
\* a signal.
LEMMA QueueAssumed == QP!QueueAssumption
  <1>1. IsFiniteSet({Main})
    BY FS_Singleton
  <1>2. \A S : IsFiniteSet(S) => QP!IsFiniteSet(S)
    BY DEF IsFiniteSet, QP!IsFiniteSet
  <1>3. QED
    BY <1>1, <1>2, ServerAssumption DEF QP!QueueAssumption

\* The server does what the queue does.
LEMMA SameQueue ==
    /\ Q!TypeOK <=> QP!TypeOK
    /\ Q!Contents = QP!Contents
    /\ \A i : Q!Succ(i) = QP!Succ(i)
  BY DEF Q!TypeOK, QP!TypeOK, Q!Contents, QP!Contents, Q!Size, QP!Size,
         Q!Succ, QP!Succ, Q!Threads, QP!Threads, Q!Slots, QP!Slots, Q!Places,
         QP!Places

LEMMA SameActions ==
    /\ \A p, r : Q!Push(p, r) <=> QP!Push(p, r)
    /\ \A t : Q!Pop(t) <=> QP!Pop(t)
    /\ \A t : Q!Finish(t) <=> QP!Finish(t)
  BY DEF Q!Push, QP!Push, Q!PushAgain, QP!PushAgain, Q!TryPush, QP!TryPush,
         Q!Pop, QP!Pop, Q!PopAgain, QP!PopAgain, Q!TryPop, QP!TryPop,
         Q!SignalNotEmpty, QP!SignalNotEmpty, Q!SignalNotFull,
         QP!SignalNotFull, Q!Signal, QP!Signal, Q!Goto, QP!Goto, Q!At, QP!At,
         Q!Succ, QP!Succ, Q!fields, QP!fields, Q!Finish, QP!Finish,
         Q!Threads, QP!Threads

LEMMA QueueType ==
    ASSUME Q!TypeOK, \/ Q!Push(Main, msock) /\ msock \in Clients
                     \/ \E t \in Workers \cup {Main} : Q!Finish(t)
                     \/ \E w \in Workers : Q!Pop(w)
    PROVE  Q!TypeOK'
  <1>1. QP!TypeOK
    BY SameQueue
  <1>2. QP!Next
    BY SameActions DEF QP!Next, QP!Threads
  <1>3. QP!TypeOK'
    BY <1>1, <1>2, QueueAssumed, QP!TypeStep
  <1>4. QED
    BY <1>3 DEF Q!TypeOK, QP!TypeOK, Q!Threads, QP!Threads, Q!Slots, QP!Slots,
                Q!Places, QP!Places

LEMMA RingType ==
    ASSUME Q!TypeOK
    PROVE  /\ Ring \in Seq(Clients \cup {NULL})
           /\ Ring = <<>> <=> front = rear
  <1>1. QP!TypeOK /\ Ring = QP!Contents
    BY SameQueue DEF Ring
  <1>2. QED
    BY <1>1, QueueAssumed, QP!ContentsType

LEMMA RingSame ==
    ASSUME UNCHANGED <<reqs, front, rear>>
    PROVE  Ring' = Ring
  BY DEF Ring, Q!Contents, Q!Size

LEMMA RingPush ==
    ASSUME Q!TypeOK, NEW r \in Clients, Q!Succ(rear) # front,
           reqs' = [reqs EXCEPT ![rear] = r], rear' = Q!Succ(rear), front' = front
    PROVE  Ring' = Append(Ring, r)
  <1>1. QP!TypeOK /\ Ring = QP!Contents /\ QP!Succ(rear) # front /\ rear' = QP!Succ(rear)
    BY SameQueue DEF Ring
  <1>2. QP!Contents' = Append(QP!Contents, r)
    BY <1>1, QueueAssumed, QP!ContentsPush
  <1>3. Ring' = QP!Contents'
    BY DEF Ring, Q!Contents, QP!Contents, Q!Size, QP!Size
  <1>4. QED
    BY <1>1, <1>2, <1>3

LEMMA RingPop ==
    ASSUME Q!TypeOK, front # rear,
           front' = Q!Succ(front), rear' = rear, reqs' = reqs
    PROVE  Ring' = Tail(Ring) /\ Head(Ring) = reqs[front] /\ Ring # <<>>
  <1>1. QP!TypeOK /\ Ring = QP!Contents /\ front' = QP!Succ(front)
    BY SameQueue DEF Ring
  <1>2. QP!Contents' = Tail(QP!Contents) /\ Head(QP!Contents) = reqs[front]
    BY <1>1, QueueAssumed, QP!ContentsPop
  <1>3. Ring' = QP!Contents'
    BY DEF Ring, Q!Contents, QP!Contents, Q!Size, QP!Size
  <1>4. QED
    BY <1>1, <1>2, <1>3, RingType

\* A thread that is not running may be woken, and its hands stay as they are.
Woken(t) == /\ item'[t] = item[t]
            /\ \/ qpc'[t] = qpc[t]
               \/ qpc[t] = "pop_wait" /\ qpc'[t] = "pop_woken"
               \/ qpc[t] = "push_wait" /\ qpc'[t] = "push_woken"

\* What a step of the push does: it waits, stores, or signals and is over.
LEMMA PushSeen ==
    ASSUME Q!TypeOK, msock \in Clients,
           qpc[Main] \in {"push_wait", "push_woken"} => item[Main] = msock,
           Q!Push(Main, msock) \/ Q!Finish(Main)
    PROVE  /\ \A w \in Workers : Woken(w)
           /\ \/ /\ qpc[Main] # "signal_notempty" /\ qpc'[Main] = "push_wait"
                 /\ item'[Main] = msock /\ Ring' = Ring
              \/ /\ qpc[Main] # "signal_notempty" /\ qpc'[Main] = "signal_notempty"
                 /\ Ring' = Append(Ring, msock)
              \/ /\ qpc[Main] = "signal_notempty" /\ qpc'[Main] = "out"
                 /\ Ring' = Ring
  <1> USE DEF Q!TypeOK, Q!Threads, Q!Goto, Woken
  <1>0. Main \notin Workers
    BY ServerAssumption
  <1>1. CASE (Q!Push(Main, msock) \/ Q!PushAgain(Main)) /\ Q!Succ(rear) = front
    <2>1. UNCHANGED <<reqs, front, rear>> /\ qpc' = [qpc EXCEPT ![Main] = "push_wait"]
      BY <1>1 DEF Q!Push, Q!PushAgain, Q!TryPush, Q!fields
    <2>2. item'[Main] = msock /\ \A w \in Workers : item'[w] = item[w]
      BY <1>0, <1>1 DEF Q!Push, Q!PushAgain
    <2>3. Ring' = Ring
      BY <2>1, RingSame
    <2>4. qpc[Main] # "signal_notempty"
      BY <1>1 DEF Q!Push, Q!PushAgain
    <2>5. QED
      BY <1>0, <2>1, <2>2, <2>3, <2>4
  <1>2. CASE (Q!Push(Main, msock) \/ Q!PushAgain(Main)) /\ Q!Succ(rear) # front
    <2>1. /\ reqs' = [reqs EXCEPT ![rear] = msock]
          /\ rear' = Q!Succ(rear) /\ front' = front
          /\ qpc' = [qpc EXCEPT ![Main] = "signal_notempty"]
      BY <1>2 DEF Q!Push, Q!PushAgain, Q!TryPush
    <2>2. \A w \in Workers : item'[w] = item[w]
      BY <1>0, <1>2 DEF Q!Push, Q!PushAgain
    <2>3. Ring' = Append(Ring, msock)
      BY <1>2, <2>1, RingPush
    <2>4. qpc[Main] # "signal_notempty"
      BY <1>2 DEF Q!Push, Q!PushAgain
    <2>5. QED
      BY <1>0, <2>1, <2>2, <2>3, <2>4
  <1>3. CASE Q!SignalNotEmpty(Main)
    <2>1. UNCHANGED <<reqs, front, rear, item>> /\ qpc[Main] = "signal_notempty"
      BY <1>3 DEF Q!SignalNotEmpty, Q!Signal, Q!fields
    <2>2. Ring' = Ring
      BY <2>1, RingSame
    <2>3. PICK t \in IF Q!At("pop_wait") = {} THEN {Main} ELSE Q!At("pop_wait") :
              qpc' = [qpc EXCEPT ![t] = "pop_woken", ![Main] = "out"]
      BY <1>3 DEF Q!SignalNotEmpty, Q!Signal
    <2>4. t = Main \/ (t \in Workers /\ qpc[t] = "pop_wait")
      BY <2>3 DEF Q!At
    <2>5. qpc'[Main] = "out" /\ \A w \in Workers : Woken(w)
      BY <1>0, <2>1, <2>3, <2>4
    <2>6. QED
      BY <2>1, <2>2, <2>5
  <1>4. ~Q!PopAgain(Main) /\ ~Q!SignalNotFull(Main)
    BY DEF Q!PopAgain, Q!SignalNotFull, Q!Signal
  <1>5. QED
    BY <1>1, <1>2, <1>3, <1>4 DEF Q!Finish

\* What a step of a pop does: it waits, takes, or signals and is over.
LEMMA PopSeen ==
    ASSUME Q!TypeOK, NEW w \in Workers, Q!Pop(w) \/ Q!Finish(w)
    PROVE  /\ \A t \in Workers \cup {Main} : t # w => Woken(t)
           /\ \/ /\ qpc[w] # "signal_notfull" /\ qpc'[w] = "pop_wait"
                 /\ Ring' = Ring
              \/ /\ qpc[w] # "signal_notfull" /\ qpc'[w] = "signal_notfull"
                 /\ Ring # <<>> /\ Ring' = Tail(Ring) /\ item'[w] = Head(Ring)
              \/ /\ qpc[w] = "signal_notfull" /\ qpc'[w] = "out"
                 /\ item'[w] = item[w] /\ Ring' = Ring
  <1> USE DEF Q!TypeOK, Q!Threads, Q!Goto, Woken
  <1>0. Main \notin Workers
    BY ServerAssumption
  <1>1. CASE (Q!Pop(w) \/ Q!PopAgain(w)) /\ front = rear
    <2>1. /\ UNCHANGED <<reqs, front, rear, item>>
          /\ qpc' = [qpc EXCEPT ![w] = "pop_wait"]
          /\ qpc[w] # "signal_notfull"
      BY <1>1 DEF Q!Pop, Q!PopAgain, Q!TryPop, Q!fields
    <2>2. Ring' = Ring
      BY <2>1, RingSame
    <2>3. QED
      BY <2>1, <2>2
  <1>2. CASE (Q!Pop(w) \/ Q!PopAgain(w)) /\ front # rear
    <2>1. /\ item' = [item EXCEPT ![w] = reqs[front]]
          /\ front' = Q!Succ(front) /\ rear' = rear /\ reqs' = reqs
          /\ qpc' = [qpc EXCEPT ![w] = "signal_notfull"]
          /\ qpc[w] # "signal_notfull"
      BY <1>2 DEF Q!Pop, Q!PopAgain, Q!TryPop
    <2>2. Ring' = Tail(Ring) /\ Head(Ring) = reqs[front] /\ Ring # <<>>
      BY <1>2, <2>1, RingPop
    <2>3. QED
      BY <2>1, <2>2
  <1>3. CASE Q!SignalNotFull(w)
    <2>1. UNCHANGED <<reqs, front, rear, item>> /\ qpc[w] = "signal_notfull"
      BY <1>3 DEF Q!SignalNotFull, Q!Signal, Q!fields
    <2>2. Ring' = Ring
      BY <2>1, RingSame
    <2>3. PICK t \in IF Q!At("push_wait") = {} THEN {w} ELSE Q!At("push_wait") :
              qpc' = [qpc EXCEPT ![t] = "push_woken", ![w] = "out"]
      BY <1>3 DEF Q!SignalNotFull, Q!Signal
    <2>4. t = w \/ (t \in Workers \cup {Main} /\ qpc[t] = "push_wait")
      BY <2>3 DEF Q!At
    <2>5. qpc'[w] = "out" /\ \A u \in Workers \cup {Main} : u # w => Woken(u)
      BY <1>0, <2>1, <2>3, <2>4
    <2>6. QED
      BY <2>1, <2>2, <2>5
  <1>4. ~Q!PushAgain(w) /\ ~Q!SignalNotEmpty(w)
    BY DEF Q!PushAgain, Q!SignalNotEmpty, Q!Signal
  <1>5. QED
    BY <1>1, <1>2, <1>3, <1>4 DEF Q!Finish
-----------------------------------------------------------------------------
(***************************************************************************)
(* A connection goes from hand to hand.                                    *)
(***************************************************************************)
LEMMA MainTakes ==
    ASSUME NEW open, NEW ring, NEW hand, NEW c,
           Shared(open, {}, ring, hand), c \notin open
    PROVE  Shared(open \cup {c}, {c}, ring, hand)
  BY DEF Shared

LEMMA MainCloses ==
    ASSUME NEW open, NEW ring, NEW hand, NEW c, Shared(open, {c}, ring, hand)
    PROVE  c \in open /\ Shared(open \ {c}, {}, ring, hand)
  BY DEF Shared

LEMMA MainPushes ==
    ASSUME NEW S, NEW open, NEW ring \in Seq(S), NEW hand, NEW c \in S,
           Shared(open, {c}, ring, hand)
    PROVE  Shared(open, {}, Append(ring, c), hand)
  <1>1. ToSet(Append(ring, c)) = ToSet(ring) \cup {c} /\ Distinct(Append(ring, c))
    BY AppendSet DEF Shared
  <1>2. QED
    BY <1>1 DEF Shared

LEMMA WorkerPops ==
    ASSUME NEW S, NEW open, NEW main, NEW ring \in Seq(S), ring # <<>>,
           NEW hand \in [Workers -> SUBSET S], NEW w \in Workers, hand[w] = {},
           Shared(open, main, ring, hand)
    PROVE  Shared(open, main, Tail(ring), [hand EXCEPT ![w] = {Head(ring)}])
  <1> DEFINE after == [hand EXCEPT ![w] = {Head(ring)}]
  <1>1. /\ ToSet(ring) = ToSet(Tail(ring)) \cup {Head(ring)}
        /\ Head(ring) \notin ToSet(Tail(ring)) /\ Distinct(Tail(ring))
    BY TailSet DEF Shared
  <1>2. after[w] = {Head(ring)} /\ \A u \in Workers : u # w => after[u] = hand[u]
    OBVIOUS
  <1> HIDE DEF after
  <1>3. UNION {after[u] : u \in Workers} = {Head(ring)} \cup (UNION {hand[u] : u \in Workers})
    BY <1>2
  <1>4. \A u \in Workers : after[u] \cap (main \cup ToSet(Tail(ring))) = {}
    BY <1>1, <1>2 DEF Shared
  <1>5. \A u, v \in Workers : u # v => after[u] \cap after[v] = {}
    BY <1>1, <1>2 DEF Shared
  <1>6. Shared(open, main, Tail(ring), after)
    BY <1>1, <1>3, <1>4, <1>5 DEF Shared
  <1>7. QED
    BY <1>6 DEF after

LEMMA WorkerCloses ==
    ASSUME NEW S, NEW open, NEW main, NEW ring,
           NEW hand \in [Workers -> SUBSET S], NEW w \in Workers, NEW c,
           hand[w] = {c}, Shared(open, main, ring, hand)
    PROVE  c \in open /\ Shared(open \ {c}, main, ring, [hand EXCEPT ![w] = {}])
  <1> DEFINE after == [hand EXCEPT ![w] = {}]
  <1>1. after[w] = {} /\ \A u \in Workers : u # w => after[u] = hand[u]
    OBVIOUS
  <1> HIDE DEF after
  <1>2. \A u \in Workers : u # w => c \notin hand[u]
    BY DEF Shared
  <1>3. UNION {after[u] : u \in Workers} = (UNION {hand[u] : u \in Workers}) \ {c}
    BY <1>1, <1>2
  <1>4. c \notin main \cup ToSet(ring)
    BY DEF Shared
  <1>5. c \in UNION {hand[u] : u \in Workers}
    OBVIOUS
  <1>6. Shared(open \ {c}, main, ring, after) /\ c \in open
    BY <1>1, <1>3, <1>4, <1>5 DEF Shared
  <1>7. QED
    BY <1>6 DEF after
-----------------------------------------------------------------------------
(***************************************************************************)
(* What every step needs.                                                  *)
(***************************************************************************)
LEMMA HandsType ==
    ASSUME IndInv
    PROVE  /\ Ring \in Seq(Clients) /\ ToSet(Ring) \subseteq sopen
           /\ Hand \in [Workers -> SUBSET Clients]
           /\ \A w \in Workers : Hand[w] = InWorker(w) /\ InWorker(w) \subseteq sopen
           /\ InMain \subseteq sopen /\ sopen \subseteq Clients
           /\ ToSet(backlog) \subseteq Clients
  <1>1. /\ ToSet(Ring) \subseteq sopen /\ InMain \subseteq sopen
        /\ \A w \in Workers : Hand[w] = InWorker(w) /\ InWorker(w) \subseteq sopen
    BY DEF IndInv, OwnInv, Shared, Hand
  <1>2. sopen \subseteq Clients
    BY DEF IndInv, TypeOK
  <1>3. Ring \in Seq(Clients)
    <2>1. Ring \in Seq(Clients \cup {NULL})
      BY RingType DEF IndInv, TypeOK
    <2>2. \A i \in 1 .. Len(Ring) : Ring[i] \in Clients
      BY <1>1, <1>2, <2>1 DEF ToSet
    <2>3. QED
      BY <2>1, <2>2
  <1>4. ToSet(backlog) \subseteq Clients
    BY DEF IndInv, TypeOK, ToSet
  <1>5. QED
    BY <1>1, <1>2, <1>3, <1>4 DEF Hand

\* What does not touch the queue leaves its types and the ring.
LEMMA QueueKept ==
    ASSUME UNCHANGED <<reqs, front, rear, qpc>>
    PROVE  /\ Ring' = Ring
           /\ item' = item /\ Q!TypeOK => Q!TypeOK'
           /\ \A w \in Workers : Q!TypeOK /\ item' = [item EXCEPT ![w] = NULL] => Q!TypeOK'
  BY RingSame DEF Q!TypeOK, Q!Threads

\* The stage of a client that no step touches.
LEMMA StageKept ==
    ASSUME NEW c, UNCHANGED <<outbox[c], cpc[c], inbox[c], msg[c], got[c]>>
    PROVE  /\ Asked(c)' <=> Asked(c)
           /\ Unanswered(c)' <=> Unanswered(c)
           /\ \A status, bytes : Written(c, status, bytes)' <=> Written(c, status, bytes)
           /\ Complete(c)' <=> Complete(c)
  BY DEF Asked, Unanswered, Written, Complete

LEMMA InitInv == Init => IndInv
  <1> SUFFICES ASSUME Init PROVE IndInv
    OBVIOUS
  <1>1. Q!TypeOK
    BY ServerAssumption DEF Init, Q!Init, Q!TypeOK, Q!Threads, Q!Slots, Q!Places
  <1>2. TypeOK
    BY <1>1, ServerAssumption DEF Init, TypeOK, Statuses, Requests, None
  <1>3. Ring = <<>>
    BY <1>1, RingType DEF Init, Q!Init
  <1>4. InMain = {} /\ \A w \in Workers : InWorker(w) = {}
    BY DEF Init, Q!Init, InMain, InWorker, Q!Threads
  <1>5. CallsInv
    BY DEF Init, Q!Init, CallsInv, Q!Threads
  <1>6. OwnInv
    <2>1. UNION {Hand[w] : w \in Workers} = {} /\ \A w \in Workers : Hand[w] = {}
      BY <1>4 DEF Hand
    <2>2. QED
      BY <1>3, <1>4, <2>1, NoSet DEF OwnInv, Shared, Init
  <1>7. BacklogInv
    BY NoSet DEF Init, BacklogInv
  <1>8. ClientInv
    <2>1. outbox \in [Clients -> Seq(Statuses \cup {0})]
      BY DEF Init
    <2>2. ASSUME NEW c \in Clients PROVE StageInv(c)
      BY <1>3, <1>4, NoSet DEF Init, StageInv
    <2>3. ASSUME NEW c \in Clients
          PROVE  Len(outbox[c]) + (IF cpc[c] = "more" THEN got[c].bytes ELSE 0)
                     <= BodyWrites + 1
      BY ServerAssumption DEF Init
    <2>4. QED
      BY <2>1, <2>2, <2>3, NoSet DEF ClientInv, Init
  <1>9. QED
    BY <1>2, <1>5, <1>6, <1>7, <1>8 DEF IndInv
-----------------------------------------------------------------------------
(***************************************************************************)
(* main.                                                                   *)
(***************************************************************************)
LEMMA AcceptStep ==
    ASSUME IndInv, Accept
    PROVE  IndInv'
  <1> USE DEF Accept, queue, client
  <1>1. /\ Ring' = Ring /\ Q!TypeOK' /\ Hand' = Hand
        /\ \A w \in Workers : InWorker(w)' = InWorker(w)
    BY QueueKept DEF IndInv, TypeOK, Hand, InWorker
  <1>2. /\ ToSet(backlog) = ToSet(backlog') \cup {msock'}
        /\ msock' \in Clients /\ msock' \notin ToSet(backlog')
        /\ backlog' \in Seq(Clients) /\ Distinct(backlog')
        /\ Len(backlog') < Len(backlog)
    BY TailSet DEF IndInv, TypeOK, BacklogInv
  <1>3. msock' \notin sopen
    BY <1>2 DEF IndInv, BacklogInv
  <1>4. InMain = {} /\ InMain' = {msock'} /\ qpc[Main] = "out"
    BY DEF InMain, IndInv, CallsInv
  <1>5. TypeOK'
    <2>1. Len(backlog') <= Backlog
      BY <1>2, ServerAssumption, LenProperties DEF IndInv, TypeOK
    <2>2. QED
      BY <1>1, <1>2, <2>1 DEF IndInv, TypeOK
  <1>6. CallsInv'
    BY <1>2, <1>4 DEF IndInv, CallsInv
  <1>7. OwnInv'
    <2>1. Shared(sopen, {}, Ring, Hand)
      BY <1>4 DEF IndInv, OwnInv
    <2>2. Shared(sopen \cup {msock'}, {msock'}, Ring, Hand)
      BY <1>3, <2>1, MainTakes
    <2>3. QED
      BY <1>1, <1>4, <2>2 DEF OwnInv
  <1>8. BacklogInv'
    BY <1>2, <1>3 DEF IndInv, BacklogInv
  <1>9. ClientInv'
    <2>1. ASSUME NEW c \in Clients, ~Gone(c)' PROVE StageInv(c)'
      <3>1. StageInv(c)
        BY <2>1 DEF IndInv, ClientInv, Gone
      <3>2. QED
        BY <1>1, <1>2, <1>4, <3>1, StageKept DEF StageInv
    <2>2. QED
      BY <1>2, <2>1 DEF IndInv, ClientInv
  <1>10. QED
    BY <1>5, <1>6, <1>7, <1>8, <1>9 DEF IndInv

LEMMA ReadStep ==
    ASSUME IndInv, Read
    PROVE  IndInv'
  <1> USE DEF queue, client
  <1>1. /\ Ring' = Ring /\ Q!TypeOK' /\ Hand' = Hand
        /\ \A w \in Workers : InWorker(w)' = InWorker(w)
    BY QueueKept DEF IndInv, TypeOK, Hand, InWorker, Read
  <1>2. msock \in Clients /\ InMain = {msock} /\ qpc[Main] = "out" /\ alive
    BY DEF Read, IndInv, CallsInv, InMain
  <1>3. TypeOK'
    BY <1>1, <1>2 DEF IndInv, TypeOK, Read, None
  <1>4. CallsInv'
    BY <1>2 DEF IndInv, CallsInv, Read
  <1>5. /\ \A c \in Clients \ {msock} :
               UNCHANGED <<outbox[c], cpc[c], inbox[c], msg[c], got[c]>>
        /\ \A c \in Clients : UNCHANGED <<outbox[c], cpc[c], got[c]>>
    BY DEF Read, IndInv, TypeOK
  <1>6. \A w \in Workers : msock \notin InWorker(w)
    BY <1>2, HandsType DEF IndInv, OwnInv, Shared
  <1>7. msock \notin ToSet(Ring) /\ msock \notin ToSet(backlog)
    BY <1>2, HandsType DEF IndInv, OwnInv, Shared, BacklogInv
  <1>8. CASE mpc' = "push"
    <2>1. InMain' = {msock} /\ msock' = msock /\ sopen' = sopen
      BY <1>2, <1>8 DEF Read, InMain
    <2>2. OwnInv'
      BY <1>1, <1>2, <2>1 DEF IndInv, OwnInv
    <2>3. BacklogInv'
      BY <2>1 DEF IndInv, BacklogInv, Read
    <2>4. ASSUME NEW c \in Clients, ~Gone(c)' PROVE StageInv(c)'
      <3>1. StageInv(c) /\ ~Gone(c)
        BY <2>4 DEF IndInv, ClientInv, Gone, Read
      <3>2. CASE c # msock
        BY <1>1, <1>5, <2>1, <3>1, <3>2, StageKept DEF StageInv, Read
      <3>3. CASE c = msock
        <4>1. Asked(c)
          BY <3>1, <3>3 DEF StageInv, Read
        <4>2. msg'[c] = inbox[c] /\ inbox[c] # None
          BY <1>2, <1>8, <3>1, <3>3 DEF Read, IndInv, TypeOK
        <4>3. Unanswered(c)'
          BY <4>1, <4>2 DEF Asked, Unanswered, Read, IndInv, TypeOK
        <4>4. c \in sopen
          BY <1>2, <3>3, HandsType
        <4>5. QED
          BY <1>1, <1>6, <1>7, <1>8, <2>1, <3>3, <4>3, <4>4 DEF StageInv, Read
      <3>4. QED
        BY <3>2, <3>3
    <2>5. ClientInv'
      BY <2>1, <2>4 DEF IndInv, ClientInv, Read
    <2>6. QED
      BY <1>3, <1>4, <2>2, <2>3, <2>5 DEF IndInv
  <1>9. CASE mpc' # "push"
    <2>1. /\ InMain' = {} /\ sopen' = sopen \ {msock} /\ Gone(msock)
          /\ mpc' = "accept" /\ msg' = msg
      BY <1>2, <1>9 DEF Read, InMain
    <2>2. OwnInv'
      BY <1>1, <1>2, <2>1, MainCloses DEF IndInv, OwnInv
    <2>3. BacklogInv'
      BY <2>1 DEF IndInv, BacklogInv, Read
    <2>4. ASSUME NEW c \in Clients, ~Gone(c)' PROVE StageInv(c)'
      <3>1. StageInv(c) /\ ~Gone(c) /\ c # msock
        BY <2>1, <2>4 DEF IndInv, ClientInv, Gone, Read
      <3>2. QED
        BY <1>1, <1>5, <2>1, <3>1, StageKept DEF StageInv, Read
    <2>5. ClientInv'
      BY <2>1, <2>4 DEF IndInv, ClientInv, Read
    <2>6. QED
      BY <1>3, <1>4, <2>2, <2>3, <2>5 DEF IndInv
  <1>10. QED
    BY <1>8, <1>9

LEMMA PushStep ==
    ASSUME IndInv, Push
    PROVE  IndInv'
  <1> USE DEF net, client
  <1>1. /\ msock \in Clients /\ mpc = "push"
        /\ qpc[Main] \in {"push_wait", "push_woken"} => item[Main] = msock
    BY DEF Push, IndInv, CallsInv
  <1>2. /\ \A w \in Workers : Woken(w)
        /\ \/ /\ qpc[Main] # "signal_notempty" /\ qpc'[Main] = "push_wait"
              /\ item'[Main] = msock /\ Ring' = Ring
           \/ /\ qpc[Main] # "signal_notempty" /\ qpc'[Main] = "signal_notempty"
              /\ Ring' = Append(Ring, msock)
           \/ /\ qpc[Main] = "signal_notempty" /\ qpc'[Main] = "out"
              /\ Ring' = Ring
    BY <1>1, PushSeen DEF Push, IndInv, TypeOK
  <1>3. Q!TypeOK'
    BY <1>1, QueueType DEF Push, IndInv, TypeOK
  <1>4. TypeOK'
    BY <1>3 DEF IndInv, TypeOK, Push
  <1>5. mpc' = IF qpc'[Main] = "out" THEN "accept" ELSE "push"
    BY DEF Push
  <1>6. CallsInv'
    <2>1. \A w \in Workers : qpc[w] = "out" => qpc'[w] = "out"
      BY <1>2 DEF Woken
    <2>2. QED
      BY <1>1, <1>2, <1>5, <2>1 DEF IndInv, CallsInv, Push
  <1>7. \A w \in Workers : InWorker(w)' = InWorker(w)
    <2>1. \A w \in Workers : /\ item'[w] = item[w] /\ wpc'[w] = wpc[w]
                             /\ qpc'[w] = "signal_notfull" <=> qpc[w] = "signal_notfull"
      BY <1>2 DEF Woken, Push
    <2>2. QED
      BY <2>1 DEF InWorker
  <1>8. Hand' = Hand
    BY <1>7 DEF Hand
  <1>9. \/ InMain' = InMain /\ Ring' = Ring
        \/ InMain = {msock} /\ InMain' = {} /\ Ring' = Append(Ring, msock)
    BY <1>1, <1>2, <1>5 DEF InMain, Push
  <1>10. OwnInv'
    <2>1. Shared(sopen, InMain, Ring, Hand) /\ Ring \in Seq(Clients) /\ sopen' = sopen
      BY HandsType DEF IndInv, OwnInv, Push
    <2>2. InMain = {msock} => Shared(sopen, {}, Append(Ring, msock), Hand)
      BY <1>1, <2>1, MainPushes
    <2>3. QED
      BY <1>8, <1>9, <2>1, <2>2 DEF OwnInv
  <1>11. BacklogInv'
    BY DEF IndInv, BacklogInv, Push
  <1>12. InMain' \cup ToSet(Ring)' = InMain \cup ToSet(Ring)
    <2>1. ToSet(Append(Ring, msock)) = ToSet(Ring) \cup {msock}
      BY <1>1, AppendSet, HandsType
    <2>2. ToSet(Ring)' = ToSet(Ring')
      BY DEF ToSet
    <2>3. QED
      BY <1>9, <2>1, <2>2
  <1>13. ASSUME NEW c \in Clients, ~Gone(c)' PROVE StageInv(c)'
    <2>1. StageInv(c)
      BY <1>13 DEF IndInv, ClientInv, Gone, Push
    <2>2. (mpc = "push" /\ c \in InMain) \/ c \in ToSet(Ring) => Unanswered(c)
      BY <2>1 DEF StageInv
    <2>3. UNCHANGED <<outbox[c], cpc[c], inbox[c], msg[c], got[c]>>
      BY DEF Push
    <2>4. Unanswered(c)' <=> Unanswered(c)
      BY <2>3, StageKept
    <2>5. (mpc' = "push" /\ c \in InMain') \/ c \in ToSet(Ring)' => Unanswered(c)'
      BY <1>1, <1>12, <2>2, <2>4
    <2>6. QED
      BY <1>5, <1>7, <2>1, <2>3, <2>5, StageKept DEF StageInv, Push
  <1>14. ClientInv'
    BY <1>13 DEF IndInv, ClientInv, Push
  <1>15. QED
    BY <1>4, <1>6, <1>10, <1>11, <1>14 DEF IndInv
-----------------------------------------------------------------------------
(***************************************************************************)
(* A worker.                                                               *)
(***************************************************************************)
LEMMA PopStep ==
    ASSUME IndInv, NEW w \in Workers, Pop(w)
    PROVE  IndInv'
  <1> USE DEF net, client
  <1>1. /\ \A t \in Workers \cup {Main} : t # w => Woken(t)
        /\ \/ /\ qpc[w] # "signal_notfull" /\ qpc'[w] = "pop_wait"
              /\ Ring' = Ring
           \/ /\ qpc[w] # "signal_notfull" /\ qpc'[w] = "signal_notfull"
              /\ Ring # <<>> /\ Ring' = Tail(Ring) /\ item'[w] = Head(Ring)
           \/ /\ qpc[w] = "signal_notfull" /\ qpc'[w] = "out"
              /\ item'[w] = item[w] /\ Ring' = Ring
    BY PopSeen DEF Pop, IndInv, TypeOK
  <1>2. Q!TypeOK'
    BY QueueType DEF Pop, IndInv, TypeOK
  <1>3. TypeOK'
    BY <1>2 DEF IndInv, TypeOK, Pop
  <1>4. /\ wpc[w] = "loop" /\ wpc'[w] = IF qpc'[w] = "out" THEN "answer" ELSE "loop"
        /\ \A u \in Workers \ {w} : wpc'[u] = wpc[u]
    BY DEF Pop, IndInv, TypeOK
  <1>5. Main # w /\ Woken(Main)
    BY <1>1, ServerAssumption
  <1>6. CallsInv'
    <2>1. \A u \in Workers \ {w} : qpc[u] = "out" => qpc'[u] = "out"
      BY <1>1 DEF Woken
    <2>2. \A u \in Workers : /\ wpc'[u] # "loop" => qpc'[u] = "out"
                             /\ wpc'[u] = "body" => body'[u] > 0
      BY <1>4, <2>1 DEF IndInv, CallsInv, Pop
    <2>3. QED
      BY <1>5, <2>2 DEF IndInv, CallsInv, Pop, Woken
  <1>7. InMain' = InMain
    BY <1>5 DEF InMain, Woken, Pop
  <1>8. \A u \in Workers \ {w} : InWorker(u)' = InWorker(u)
    <2>1. \A u \in Workers \ {w} : /\ item'[u] = item[u]
                                   /\ qpc'[u] = "signal_notfull" <=> qpc[u] = "signal_notfull"
      BY <1>1 DEF Woken
    <2>2. QED
      BY <1>4, <2>1 DEF InWorker
  <1>9. \/ InWorker(w)' = InWorker(w) /\ Ring' = Ring
        \/ /\ Ring # <<>> /\ Ring' = Tail(Ring)
           /\ InWorker(w) = {} /\ InWorker(w)' = {Head(Ring)}
           /\ wpc'[w] = "loop"
    BY <1>1, <1>4 DEF InWorker
  <1>10. /\ Ring \in Seq(Clients) /\ Hand \in [Workers -> SUBSET Clients]
         /\ Hand[w] = InWorker(w) /\ Shared(sopen, InMain, Ring, Hand) /\ sopen' = sopen
    BY HandsType DEF IndInv, OwnInv, Pop
  <1>11. OwnInv'
    <2>1. CASE InWorker(w)' = InWorker(w) /\ Ring' = Ring
      <3>1. Hand' = Hand
        BY <1>8, <2>1 DEF Hand
      <3>2. QED
        BY <1>7, <1>10, <2>1, <3>1 DEF OwnInv
    <2>2. CASE /\ Ring # <<>> /\ Ring' = Tail(Ring)
               /\ InWorker(w) = {} /\ InWorker(w)' = {Head(Ring)}
      <3>1. Hand' = [Hand EXCEPT ![w] = {Head(Ring)}]
        BY <1>8, <2>2 DEF Hand
      <3>2. Shared(sopen, InMain, Tail(Ring), [Hand EXCEPT ![w] = {Head(Ring)}])
        BY <1>10, <2>2, WorkerPops
      <3>3. QED
        BY <1>7, <1>10, <2>2, <3>1, <3>2 DEF OwnInv
    <2>3. QED
      BY <1>9, <2>1, <2>2
  <1>12. BacklogInv'
    BY DEF IndInv, BacklogInv, Pop
  <1>13. ASSUME NEW c \in Clients, ~Gone(c)' PROVE StageInv(c)'
    <2>1. StageInv(c)
      BY <1>13 DEF IndInv, ClientInv, Gone, Pop
    <2>2. UNCHANGED <<outbox[c], cpc[c], inbox[c], msg[c], got[c]>>
      BY DEF Pop
    <2>3. ToSet(Ring)' = ToSet(Ring')
      BY DEF ToSet
    <2>4. /\ c \in ToSet(Ring)' => c \in ToSet(Ring)
          /\ Ring # <<>> => Head(Ring) \in ToSet(Ring)
      <3>1. Distinct(Ring)
        BY <1>10 DEF Shared
      <3>2. Ring # <<>> => ToSet(Ring) = ToSet(Tail(Ring)) \cup {Head(Ring)}
        BY <1>10, <3>1, TailSet
      <3>3. QED
        BY <1>9, <2>3, <3>2
    <2>5. c \in InWorker(w)' => Unanswered(c) /\ wpc'[w] \in {"loop", "answer"}
      BY <1>4, <1>9, <2>1, <2>4 DEF StageInv
    <2>6. /\ Asked(c)' <=> Asked(c)
          /\ Unanswered(c)' <=> Unanswered(c)
          /\ \A status, bytes : Written(c, status, bytes)' <=> Written(c, status, bytes)
          /\ Complete(c)' <=> Complete(c)
      BY <2>2, StageKept
    <2>7. ASSUME NEW u \in Workers, c \in InWorker(u)'
          PROVE  /\ wpc'[u] \in {"loop", "answer"} => Unanswered(c)'
                 /\ wpc'[u] = "body" => /\ msg'[c] = "file"
                                       /\ Written(c, 200, 1 + BodyWrites - body[u])'
                 /\ wpc'[u] = "close" => Complete(c)'
      <3>1. CASE u = w
        BY <2>5, <2>6, <2>7, <3>1
      <3>2. CASE u # w
        BY <1>4, <1>8, <2>1, <2>6, <2>7, <3>2 DEF StageInv, Pop
      <3>3. QED
        BY <3>1, <3>2
    <2>8. alive' /\ c \notin sopen' \cup ToSet(backlog)' =>
              cpc'[c] \in {"start", "exit"} \/ Complete(c)'
      BY <2>1, <2>6 DEF StageInv, Pop
    <2>9. c \in ToSet(backlog)' \/ (mpc' = "read" /\ c = msock') => Asked(c)'
      BY <2>1, <2>6 DEF StageInv, Pop
    <2>10. (mpc' = "push" /\ c \in InMain') \/ c \in ToSet(Ring)' => Unanswered(c)'
      BY <1>7, <2>1, <2>4, <2>6 DEF StageInv, Pop
    <2>11. QED
      BY <2>7, <2>8, <2>9, <2>10 DEF StageInv
  <1>14. ClientInv'
    BY <1>13 DEF IndInv, ClientInv, Pop
  <1>15. QED
    BY <1>3, <1>6, <1>11, <1>12, <1>14 DEF IndInv

\* A worker that answers has a client, and nobody else has it.
LEMMA Served ==
    ASSUME IndInv, NEW w \in Workers, wpc[w] # "loop"
    PROVE  /\ item[w] \in Clients /\ InWorker(w) = {item[w]} /\ qpc[w] = "out"
           /\ item[w] \notin InMain \cup ToSet(Ring) \cup ToSet(backlog)
           /\ \A u \in Workers \ {w} : item[w] \notin InWorker(u)
           /\ item[w] \in sopen
           /\ ~Gone(item[w]) => StageInv(item[w])
  <1>1. InWorker(w) = {item[w]} /\ qpc[w] = "out"
    BY DEF InWorker, IndInv, CallsInv
  <1>2. item[w] \in sopen /\ item[w] \in Clients
    BY <1>1, HandsType
  <1>3. Hand[w] = {item[w]} /\ \A u \in Workers : Hand[u] = InWorker(u)
    BY <1>1, HandsType
  <1>4. /\ item[w] \notin InMain \cup ToSet(Ring)
        /\ \A u \in Workers \ {w} : item[w] \notin InWorker(u)
    BY <1>3 DEF IndInv, OwnInv, Shared
  <1>5. item[w] \notin ToSet(backlog)
    BY <1>2 DEF IndInv, BacklogInv
  <1>6. QED
    BY <1>1, <1>2, <1>4, <1>5 DEF IndInv, ClientInv

\* A worker writes a piece of an answer and moves on: the hands stay as they
\* are, and only the stage of its own client has to be looked at.
LEMMA WriteStep ==
    ASSUME IndInv, NEW w \in Workers, wpc[w] \in {"answer", "body"},
           NEW k \in Clients, k = item[w],
           NEW piece \in Statuses \cup {0}, NEW to \in {"body", "close"},
           Write(w, piece, to),
           body' \in [Workers -> 0 .. BodyWrites], to = "body" => body'[w] > 0,
           \A u \in Workers \ {w} : body'[u] = body[u],
           UNCHANGED <<queue, alive, mpc, msock, sopen, msg, backlog, inbox, client>>,
           ~Gone(k) =>
               /\ Len(outbox'[k]) + (IF cpc[k] = "more" THEN got[k].bytes ELSE 0)
                      <= BodyWrites + 1
               /\ to = "body" => /\ msg[k] = "file"
                                 /\ Written(k, 200, 1 + BodyWrites - body[w])'
               /\ to = "close" => Complete(k)'
    PROVE  IndInv'
  <1> USE DEF queue, client
  <1>1. /\ Ring' = Ring /\ Q!TypeOK' /\ InMain' = InMain
        /\ item' = item /\ qpc' = qpc
    BY QueueKept DEF IndInv, TypeOK, InMain
  <1>2. /\ k \in Clients /\ qpc[w] = "out" /\ k \in sopen
        /\ k \notin InMain \cup ToSet(Ring) \cup ToSet(backlog)
        /\ InWorker(w) = {k} /\ \A u \in Workers \ {w} : k \notin InWorker(u)
        /\ ~Gone(k) => StageInv(k)
    BY Served
  <1>3. /\ wpc' = [wpc EXCEPT ![w] = to]
        /\ wpc'[w] = to /\ \A u \in Workers \ {w} : wpc'[u] = wpc[u]
    BY DEF Write, IndInv, TypeOK
  <1>4. /\ outbox' \in [Clients -> Seq(Statuses \cup {0})]
        /\ \A c \in Clients : outbox'[c] # outbox[c] => c = k /\ ~Gone(c)
    BY <1>2 DEF Write, IndInv, ClientInv
  <1>5. TypeOK'
    BY <1>1, <1>3, <1>4 DEF IndInv, TypeOK
  <1>6. CallsInv'
    BY <1>1, <1>2, <1>3 DEF IndInv, CallsInv
  <1>7. \A u \in Workers : InWorker(u)' = InWorker(u)
    BY <1>1, <1>3 DEF InWorker
  <1>8. OwnInv'
    BY <1>1, <1>7 DEF IndInv, OwnInv, Hand
  <1>9. BacklogInv'
    BY DEF IndInv, BacklogInv
  <1>10. ASSUME NEW c \in Clients, ~Gone(c)' PROVE StageInv(c)'
    <2>1. StageInv(c) /\ ~Gone(c)
      BY <1>10 DEF IndInv, ClientInv, Gone
    <2>2. CASE c = k
      <3>1. \A u \in Workers : c \in InWorker(u)' => u = w
        BY <1>2, <1>7, <2>2
      <3>2. ~((mpc' = "read" /\ c = msock') \/ (mpc' = "push" /\ c \in InMain'))
        BY <1>1, <1>2, <2>2 DEF InMain
      <3>3. c \notin ToSet(Ring)' /\ c \notin ToSet(backlog)' /\ c \in sopen'
        BY <1>1, <1>2, <2>2
      <3>4. /\ wpc'[w] = "body" => /\ msg'[c] = "file"
                                   /\ Written(c, 200, 1 + BodyWrites - body[w])'
            /\ wpc'[w] = "close" => Complete(c)'
            /\ wpc'[w] \notin {"loop", "answer"}
        BY <1>3, <2>1, <2>2
      <3>5. QED
        BY <3>1, <3>2, <3>3, <3>4 DEF StageInv
    <2>3. CASE c # k
      <3>1. UNCHANGED <<outbox[c], cpc[c], inbox[c], msg[c], got[c]>>
        BY <1>4, <2>3
      <3>2. /\ Asked(c)' <=> Asked(c)
            /\ Unanswered(c)' <=> Unanswered(c)
            /\ \A status, bytes : Written(c, status, bytes)' <=> Written(c, status, bytes)
            /\ Complete(c)' <=> Complete(c)
        BY <3>1, StageKept
      <3>3. \A u \in Workers : c \in InWorker(u)' =>
                u # w /\ wpc'[u] = wpc[u] /\ body'[u] = body[u]
        BY <1>2, <1>3, <1>7, <2>3
      <3>4. QED
        BY <1>1, <1>7, <2>1, <3>2, <3>3 DEF StageInv
    <2>4. QED
      BY <2>2, <2>3
  <1>11. ASSUME NEW c \in Clients
         PROVE  Len(outbox'[c]) + (IF cpc'[c] = "more" THEN got'[c].bytes ELSE 0)
                    <= BodyWrites + 1
    BY <1>4 DEF IndInv, ClientInv
  <1>12. ClientInv'
    BY <1>4, <1>10, <1>11 DEF IndInv, ClientInv
  <1>13. QED
    BY <1>5, <1>6, <1>8, <1>9, <1>12 DEF IndInv

\* The first piece of an answer, and the next one of a file.
LEMMA FirstPiece ==
    ASSUME NEW c, NEW piece \in Statuses, Unanswered(c), cpc' = cpc,
           outbox'[c] = Append(outbox[c], piece)
    PROVE  Written(c, piece, 1)' /\ Len(outbox'[c]) = 1 /\ cpc[c] = "read"
  BY DEF Unanswered, Written

LEMMA NextPiece ==
    ASSUME NEW c, NEW status, NEW n \in Nat \ {0}, Written(c, status, n),
           outbox[c] \in Seq(Statuses \cup {0}), got[c].bytes \in Nat,
           cpc' = cpc, got' = got, outbox'[c] = Append(outbox[c], 0)
    PROVE  /\ Written(c, status, n + 1)'
           /\ Len(outbox'[c]) + (IF cpc[c] = "more" THEN got[c].bytes ELSE 0) = n + 1
  <1>1. /\ Len(outbox'[c]) = Len(outbox[c]) + 1 /\ Len(outbox[c]) \in Nat
        /\ outbox[c] # <<>> => Head(outbox'[c]) = Head(outbox[c])
    BY DEF Statuses
  <1>2. CASE cpc[c] = "read"
    <2>1. Len(outbox[c]) = n /\ Head(outbox[c]) = status /\ outbox[c] # <<>>
      BY <1>2 DEF Written
    <2>2. QED
      BY <1>1, <1>2, <2>1 DEF Written
  <1>3. CASE cpc[c] = "more"
    <2>1. got[c].bytes + Len(outbox[c]) = n /\ got[c].status = status
      BY <1>3 DEF Written
    <2>2. QED
      BY <1>1, <1>3, <2>1 DEF Written
  <1>4. QED
    BY <1>2, <1>3 DEF Written

LEMMA AnswerStep ==
    ASSUME IndInv, NEW w \in Workers, Answer(w)
    PROVE  IndInv'
  <1>1. /\ wpc[w] = "answer" /\ body' = [body EXCEPT ![w] = BodyWrites]
        /\ BodyWrites \in Nat /\ BodyWrites > 0
        /\ UNCHANGED <<queue, alive, mpc, msock, sopen, msg, backlog, inbox, client>>
    BY ServerAssumption DEF Answer
  <1>2. /\ body' \in [Workers -> 0 .. BodyWrites] /\ body'[w] = BodyWrites
        /\ \A u \in Workers \ {w} : body'[u] = body[u]
    BY <1>1 DEF IndInv, TypeOK
  <1>3. PICK k \in Clients : k = item[w]
    BY <1>1, Served
  <1>4. InWorker(w) = {k} /\ (~Gone(k) => StageInv(k))
    BY <1>1, <1>3, Served
  <1>5. ~Gone(k) => Unanswered(k)
    BY <1>1, <1>4 DEF StageInv
  <1>6. ASSUME NEW piece \in Statuses, NEW to \in {"body", "close"}, Write(w, piece, to)
        PROVE  ~Gone(k) => /\ Written(k, piece, 1)' /\ Len(outbox'[k]) = 1
                           /\ cpc[k] = "read" /\ msg[k] \in Requests
    <2> SUFFICES ASSUME ~Gone(k)
                 PROVE  /\ Written(k, piece, 1)' /\ Len(outbox'[k]) = 1
                        /\ cpc[k] = "read" /\ msg[k] \in Requests
      OBVIOUS
    <2>1. outbox'[k] = Append(outbox[k], piece)
      BY <1>3, <1>6 DEF Write, IndInv, ClientInv
    <2>2. Unanswered(k) /\ cpc' = cpc
      BY <1>1, <1>5 DEF client
    <2>3. QED
      BY <2>1, <2>2, FirstPiece DEF Unanswered
  <1>7. ASSUME NEW piece \in {400, 403, 404}, Write(w, piece, "close"),
               ~Gone(k) => [status |-> piece, bytes |-> 1] \in Expected(msg[k])
        PROVE  IndInv'
    <2>1. piece \in Statuses
      BY DEF Statuses
    <2>2. ~Gone(k) => /\ Len(outbox'[k]) + (IF cpc[k] = "more" THEN got[k].bytes ELSE 0)
                             <= BodyWrites + 1
                      /\ Complete(k)'
      <3>1. ~Gone(k) => Written(k, piece, 1)' /\ Len(outbox'[k]) = 1 /\ cpc[k] = "read"
        BY <1>6, <1>7, <2>1
      <3>3. ~Gone(k) => Complete(k)'
        <4> DEFINE a == [status |-> piece, bytes |-> 1]
        <4>1. a.status = piece /\ a.bytes = 1 /\ msg' = msg
          BY <1>1 DEF queue
        <4>2. QED
          BY <1>7, <3>1, <4>1 DEF Complete
      <3>4. ~Gone(k) => 1 + 0 <= BodyWrites + 1
        BY <1>1
      <3>5. QED
        BY <3>1, <3>3, <3>4
    <2>3. QED
      BY <1>1, <1>2, <1>3, <1>7, <2>1, <2>2, WriteStep
  <1>8. ASSUME Write(w, 200, "body"), msg[k] = "file"
        PROVE  IndInv'
    <2>1. 200 \in Statuses
      BY DEF Statuses
    <2>2. ~Gone(k) => /\ Len(outbox'[k]) + (IF cpc[k] = "more" THEN got[k].bytes ELSE 0)
                             <= BodyWrites + 1
                      /\ Written(k, 200, 1 + BodyWrites - body[w])'
      <3>1. ~Gone(k) => Written(k, 200, 1)' /\ Len(outbox'[k]) = 1 /\ cpc[k] = "read"
        BY <1>6, <1>8, <2>1
      <3>2. 1 + BodyWrites - body'[w] = 1
        BY <1>1, <1>2
      <3>3. QED
        <4> DEFINE m == 1 + BodyWrites - body[w]
        <4>1. m' = 1
          BY <3>2
        <4>2. ~Gone(k) => Written(k, 200, m)'
          BY <3>1, <4>1 DEF Written
        <4>3. ~Gone(k) => 1 + 0 <= BodyWrites + 1
          BY <1>1
        <4> HIDE DEF m
        <4>4. ~Gone(k) => Len(outbox'[k]) + (IF cpc[k] = "more" THEN got[k].bytes ELSE 0)
                              <= BodyWrites + 1
          BY <3>1, <4>3
        <4>5. QED
          BY <4>2, <4>4 DEF m
    <2>3. QED
      BY <1>1, <1>2, <1>3, <1>8, <2>1, <2>2, WriteStep
  <1>9. ~Gone(k) => msg[k] # "empty"
    BY <1>5 DEF Unanswered, Requests
  <1>10. QED
    <2>1. CASE msg[k] = "empty" /\ Write(w, 400, "close")
      BY <1>3, <1>7, <1>9, <2>1
    <2>2. CASE msg[k] = "missing" /\ Write(w, 404, "close")
      BY <1>3, <1>7, <2>2 DEF Expected
    <2>3. CASE msg[k] = "file" /\ Write(w, 403, "close")
      BY <1>3, <1>7, <2>3 DEF Expected
    <2>4. CASE msg[k] = "file" /\ Write(w, 200, "body")
      BY <1>3, <1>8, <2>4
    <2>5. QED
      BY <1>3, <2>1, <2>2, <2>3, <2>4 DEF Answer

LEMMA WriteBodyStep ==
    ASSUME IndInv, NEW w \in Workers, WriteBody(w)
    PROVE  IndInv'
  <1>1. /\ wpc[w] = "body" /\ body' = [body EXCEPT ![w] = @ - 1]
        /\ Write(w, 0, IF body[w] > 1 THEN "body" ELSE "close")
        /\ UNCHANGED <<queue, alive, mpc, msock, sopen, msg, backlog, inbox, client>>
    BY DEF WriteBody
  <1>2. BodyWrites \in Nat /\ body[w] \in 1 .. BodyWrites
    BY <1>1, ServerAssumption DEF IndInv, TypeOK, CallsInv
  <1>3. /\ body' \in [Workers -> 0 .. BodyWrites] /\ body'[w] = body[w] - 1
        /\ \A u \in Workers \ {w} : body'[u] = body[u]
    BY <1>1, <1>2 DEF IndInv, TypeOK
  <1>4. PICK k \in Clients : k = item[w]
    BY <1>1, Served
  <1>5. InWorker(w) = {k} /\ (~Gone(k) => StageInv(k))
    BY <1>1, <1>4, Served
  <1>6. PICK n \in Nat \ {0} : n = 1 + BodyWrites - body[w]
    BY <1>2
  <1>7. n <= BodyWrites /\ n + 1 = 1 + BodyWrites - body'[w]
    BY <1>2, <1>3, <1>6
  <1>8. ~Gone(k) => /\ msg[k] = "file"
                    /\ Written(k, 200, n + 1)'
                    /\ Len(outbox'[k]) + (IF cpc[k] = "more" THEN got[k].bytes ELSE 0)
                           = n + 1
    <2> SUFFICES ASSUME ~Gone(k)
                 PROVE  /\ msg[k] = "file"
                        /\ Written(k, 200, n + 1)'
                        /\ Len(outbox'[k]) + (IF cpc[k] = "more" THEN got[k].bytes ELSE 0)
                               = n + 1
      OBVIOUS
    <2>1. outbox'[k] = Append(outbox[k], 0) /\ outbox[k] \in Seq(Statuses \cup {0})
      BY <1>1, <1>4 DEF Write, IndInv, ClientInv
    <2>2. msg[k] = "file" /\ Written(k, 200, n)
      BY <1>1, <1>5, <1>6 DEF StageInv
    <2>3. cpc' = cpc /\ got' = got /\ got[k].bytes \in Nat
      BY <1>1, <1>2, <1>4 DEF client, IndInv, TypeOK
    <2>4. /\ Written(k, 200, n + 1)'
          /\ Len(outbox'[k]) + (IF cpc[k] = "more" THEN got[k].bytes ELSE 0) = n + 1
      BY <1>6, <2>1, <2>2, <2>3, NextPiece
    <2>5. QED
      BY <2>2, <2>4
  <1>9. ASSUME NEW to \in {"body", "close"},
               to = IF body[w] > 1 THEN "body" ELSE "close"
        PROVE  IndInv'
    <2>1. Write(w, 0, to) /\ 0 \in Statuses \cup {0}
      BY <1>1, <1>9
    <2>2. to = "body" => body'[w] > 0
      BY <1>2, <1>3, <1>9
    <2>3. ~Gone(k) => Len(outbox'[k]) + (IF cpc[k] = "more" THEN got[k].bytes ELSE 0)
                          <= BodyWrites + 1
      BY <1>2, <1>7, <1>8
    <2>4. ~Gone(k) => Written(k, 200, 1 + BodyWrites - body[w])'
      <3> DEFINE m == 1 + BodyWrites - body[w]
      <3>1. m' = n + 1
        BY <1>7
      <3>2. ~Gone(k) => Written(k, 200, m)'
        BY <1>8, <3>1 DEF Written
      <3>3. QED
        BY <3>2
    <2>5. ~Gone(k) /\ to = "close" => Complete(k)'
      <3> SUFFICES ASSUME ~Gone(k), to = "close" PROVE Complete(k)'
        OBVIOUS
      <3> DEFINE a == [status |-> 200, bytes |-> 1 + BodyWrites]
      <3>1. n + 1 = 1 + BodyWrites
        BY <1>2, <1>6, <1>9
      <3>2. a.status = 200 /\ a.bytes = n + 1 /\ msg'[k] = "file"
        BY <1>1, <1>8, <3>1
      <3>3. a \in Expected(msg[k])'
        BY <3>2 DEF Expected
      <3>4. QED
        BY <1>8, <3>2, <3>3 DEF Complete
    <2>6. QED
      BY <1>1, <1>3, <1>4, <1>8, <2>1, <2>2, <2>3, <2>4, <2>5, WriteStep
  <1>10. QED
    BY <1>9

\* The server that dies has nothing left, and owes nobody anything.
LEMMA DieStep ==
    ASSUME IndInv, Die, UNCHANGED <<inbox, outbox, client>>
    PROVE  IndInv'
  <1> USE DEF client
  <1>1. Q!TypeOK'
    BY ServerAssumption DEF Die, Q!TypeOK, Q!Threads, Q!Slots, Q!Places
  <1>2. Ring' = <<>>
    <2>1. front' = 0 /\ rear' = 0 /\ (0 - 0) % REQUEST_QUEUE_SIZE = 0
      BY ServerAssumption DEF Die
    <2>2. Q!Size' = 0
      BY <2>1 DEF Q!Size
    <2>3. Ring' = [i \in 1 .. 0 |-> reqs'[(front' + i - 1) % REQUEST_QUEUE_SIZE]]
      BY <2>2 DEF Ring, Q!Contents
    <2>4. \A f : [i \in 1 .. 0 |-> f[i]] = <<>>
      OBVIOUS
    <2>5. QED
      <3> DEFINE f == [i \in 1 .. 0 |-> reqs'[(front' + i - 1) % REQUEST_QUEUE_SIZE]]
      <3>1. f = [i \in 1 .. 0 |-> f[i]]
        OBVIOUS
      <3>2. QED
        BY <2>3, <2>4, <3>1
  <1>3. InMain' = {} /\ \A w \in Workers : InWorker(w)' = {}
    BY DEF Die, InMain, InWorker, Q!Threads
  <1>4. TypeOK'
    <2>1. alive' \in BOOLEAN /\ mpc' \in {"accept", "read", "push"} /\ msock' \in Clients \cup {NULL}
      BY DEF Die
    <2>2. /\ wpc' \in [Workers -> {"loop", "answer", "body", "close"}]
          /\ body' \in [Workers -> 0 .. BodyWrites]
      BY ServerAssumption DEF Die
    <2>3. backlog' \in Seq(Clients) /\ Len(backlog') <= Backlog /\ sopen' \subseteq Clients
      BY ServerAssumption DEF Die
    <2>4. msg' \in [Clients -> Requests \cup {"empty", None}]
      BY DEF Die
    <2>5. QED
      BY <1>1, <2>1, <2>2, <2>3, <2>4 DEF IndInv, TypeOK
  <1>5. CallsInv'
    BY DEF Die, CallsInv, Q!Threads
  <1>6. OwnInv'
    <2>1. \A w \in Workers : Hand'[w] = {}
      BY <1>3 DEF Hand
    <2>2. Shared({}, {}, <<>>, Hand')
      BY <2>1, NoSet DEF Shared
    <2>3. QED
      BY <1>2, <1>3, <2>2 DEF OwnInv, Die
  <1>7. BacklogInv'
    BY NoSet DEF Die, BacklogInv
  <1>8. ASSUME NEW c \in Clients PROVE StageInv(c)' /\ c \notin (sopen \cup ToSet(backlog))'
    <2>1. c \notin ToSet(Ring)' /\ c \notin ToSet(backlog)'
      BY <1>2, NoSet DEF Die, ToSet
    <2>2. QED
      BY <1>3, <2>1 DEF Die, StageInv
  <1>9. ClientInv'
    BY <1>8 DEF IndInv, ClientInv
  <1>10. QED
    BY <1>4, <1>5, <1>6, <1>7, <1>9 DEF IndInv

LEMMA CloseStep ==
    ASSUME IndInv, NEW w \in Workers, Close(w)
    PROVE  IndInv'
  <1> USE DEF net, client
  <1>1. /\ wpc[w] = "close" /\ wpc' = [wpc EXCEPT ![w] = "loop"]
        /\ body' = [body EXCEPT ![w] = 0] /\ item' = [item EXCEPT ![w] = NULL]
        /\ UNCHANGED <<reqs, front, rear, qpc, alive, mpc, msock, msg, net, client>>
    BY DEF Close
  <1>2. PICK k \in Clients : k = item[w]
    BY <1>1, Served
  <1>3. /\ qpc[w] = "out" /\ k \in sopen /\ InWorker(w) = {k}
        /\ k \notin InMain \cup ToSet(Ring) \cup ToSet(backlog)
        /\ \A u \in Workers \ {w} : k \notin InWorker(u)
        /\ ~Gone(k) => StageInv(k)
    BY <1>1, <1>2, Served
  <1>4. sopen' = sopen \ {k}
    BY <1>2 DEF Close
  <1>5. /\ Ring' = Ring /\ Q!TypeOK' /\ InMain' = InMain
    BY <1>1, QueueKept DEF IndInv, TypeOK, InMain
  <1>6. \A u \in Workers \ {w} : /\ wpc'[u] = wpc[u] /\ body'[u] = body[u]
                                 /\ InWorker(u)' = InWorker(u)
    BY <1>1 DEF IndInv, TypeOK, Q!TypeOK, Q!Threads, InWorker
  <1>7. InWorker(w)' = {} /\ wpc'[w] = "loop" /\ body'[w] = 0
    BY <1>1, <1>3 DEF InWorker, IndInv, TypeOK
  <1>8. TypeOK'
    BY <1>1, <1>4, <1>5, ServerAssumption DEF IndInv, TypeOK
  <1>9. CallsInv'
    <2>1. item'[Main] = item[Main]
      BY <1>1, ServerAssumption DEF IndInv, TypeOK, Q!TypeOK, Q!Threads
    <2>2. QED
      BY <1>1, <1>6, <1>7, <2>1 DEF IndInv, CallsInv
  <1>10. OwnInv'
    <2>1. Hand[w] = {k} /\ Hand \in [Workers -> SUBSET Clients]
      BY <1>3, HandsType
    <2>2. Hand' = [Hand EXCEPT ![w] = {}]
      BY <1>6, <1>7 DEF Hand
    <2>3. Shared(sopen \ {k}, InMain, Ring, [Hand EXCEPT ![w] = {}])
      BY <2>1, WorkerCloses DEF IndInv, OwnInv
    <2>4. QED
      BY <1>4, <1>5, <2>2, <2>3 DEF OwnInv
  <1>11. BacklogInv'
    BY <1>1, <1>4 DEF IndInv, BacklogInv
  <1>12. ASSUME NEW c \in Clients, ~Gone(c)' PROVE StageInv(c)'
    <2>1. StageInv(c)
      BY <1>1, <1>12 DEF IndInv, ClientInv, Gone
    <2>2. /\ Asked(c)' <=> Asked(c)
          /\ Unanswered(c)' <=> Unanswered(c)
          /\ \A status, bytes : Written(c, status, bytes)' <=> Written(c, status, bytes)
          /\ Complete(c)' <=> Complete(c)
      BY <1>1, StageKept
    <2>3. c = k => Complete(c)
      BY <1>1, <1>3, <2>1 DEF StageInv
    <2>4. (alive /\ c \notin sopen \cup ToSet(backlog))' =>
              cpc'[c] \in {"start", "exit"} \/ Complete(c)'
      BY <1>1, <1>4, <2>1, <2>2, <2>3 DEF StageInv
    <2>5. ASSUME NEW u \in Workers, c \in InWorker(u)'
          PROVE  /\ wpc'[u] \in {"loop", "answer"} => Unanswered(c)'
                 /\ wpc'[u] = "body" => /\ msg'[c] = "file"
                                        /\ Written(c, 200, 1 + BodyWrites - body[u])'
                 /\ wpc'[u] = "close" => Complete(c)'
      <3>1. u # w
        BY <1>7, <2>5
      <3>2. QED
        BY <1>1, <1>6, <2>1, <2>2, <2>5, <3>1 DEF StageInv
    <2>6. c \in ToSet(backlog)' \/ (mpc' = "read" /\ c = msock') => Asked(c)'
      BY <1>1, <2>1, <2>2 DEF StageInv
    <2>7. (mpc' = "push" /\ c \in InMain') \/ c \in ToSet(Ring)' => Unanswered(c)'
      BY <1>1, <1>5, <2>1, <2>2 DEF StageInv
    <2>8. QED
      BY <2>4, <2>5, <2>6, <2>7 DEF StageInv
  <1>13. ClientInv'
    BY <1>1, <1>4, <1>12 DEF IndInv, ClientInv
  <1>14. QED
    BY <1>8, <1>9, <1>10, <1>11, <1>13 DEF IndInv
-----------------------------------------------------------------------------
(***************************************************************************)
(* A client.                                                               *)
(***************************************************************************)
\* What a client does leaves the hands as they are.
LEMMA ServerKept ==
    ASSUME IndInv, UNCHANGED <<queue, server>>
    PROVE  /\ Q!TypeOK' /\ CallsInv' /\ OwnInv' /\ InMain' = InMain /\ Ring' = Ring
           /\ \A w \in Workers : InWorker(w)' = InWorker(w)
  <1> USE DEF queue, server
  <1>1. Ring' = Ring /\ Q!TypeOK'
    BY QueueKept DEF IndInv, TypeOK
  <1>2. InMain' = InMain /\ \A w \in Workers : InWorker(w)' = InWorker(w)
    BY DEF InMain, InWorker
  <1>3. OwnInv'
    BY <1>1, <1>2 DEF IndInv, OwnInv, Hand
  <1>4. CallsInv'
    BY DEF IndInv, CallsInv
  <1>5. QED
    BY <1>1, <1>2, <1>3, <1>4

\* Nor does it move another client on, nor is it on its way when killed.
LEMMA OthersKept ==
    ASSUME IndInv, UNCHANGED <<queue, server>>, NEW c \in Clients, NEW d \in Clients \ {c},
           d \in ToSet(backlog') <=> d \in ToSet(backlog),
           UNCHANGED <<outbox[d], cpc[d], inbox[d], got[d]>>, ~Gone(d)'
    PROVE  StageInv(d)'
  <1> USE DEF queue, server
  <1>1. StageInv(d)
    BY DEF IndInv, ClientInv, Gone
  <1>2. /\ InMain' = InMain /\ Ring' = Ring
        /\ \A w \in Workers : InWorker(w)' = InWorker(w)
    BY ServerKept
  <1>3. /\ Asked(d)' <=> Asked(d)
        /\ Unanswered(d)' <=> Unanswered(d)
        /\ \A status, bytes : Written(d, status, bytes)' <=> Written(d, status, bytes)
        /\ Complete(d)' <=> Complete(d)
    BY StageKept
  <1>4. d \in ToSet(backlog)' <=> d \in ToSet(backlog)
    BY DEF ToSet
  <1>5. QED
    BY <1>1, <1>2, <1>3, <1>4 DEF StageInv

\* A client out of every hand is at no stage but that of being over.
LEMMA NoHand ==
    ASSUME IndInv, UNCHANGED <<queue, server>>, NEW c \in Clients,
           c \notin sopen, c \notin ToSet(backlog)',
           ~alive \/ cpc'[c] \in {"start", "exit"} \/ Complete(c)'
    PROVE  StageInv(c)'
  <1> USE DEF queue, server
  <1>1. /\ InMain' = InMain /\ Ring' = Ring
        /\ \A w \in Workers : InWorker(w)' = InWorker(w)
    BY ServerKept
  <1>2. c \notin InMain \cup ToSet(Ring) /\ \A w \in Workers : c \notin InWorker(w)
    BY HandsType
  <1>3. ~(mpc = "read" /\ c = msock)
    BY <1>2 DEF InMain
  <1>4. QED
    BY <1>1, <1>2, <1>3 DEF StageInv

\* The client has not asked.
LEMMA NoConnection ==
    ASSUME IndInv, NEW c \in Clients, ~Gone(c), ~alive \/ cpc[c] \in {"start", "exit"}
    PROVE  c \notin sopen /\ c \notin ToSet(backlog)
  BY NoSet DEF IndInv, BacklogInv, ClientInv

LEMMA ConnectStep ==
    ASSUME IndInv, NEW c \in Clients, Connect(c)
    PROVE  IndInv'
  <1>1. /\ UNCHANGED <<queue, server, left, buf, got>> /\ cpc[c] = "start"
        /\ inbox' = [inbox EXCEPT ![c] = None] /\ outbox' = [outbox EXCEPT ![c] = <<>>]
        /\ Q!TypeOK' /\ CallsInv' /\ OwnInv'
    BY ServerKept DEF Connect
  <1>2. /\ c \notin sopen /\ c \notin ToSet(backlog) /\ ~Gone(c)
        /\ backlog \in Seq(Clients) /\ Distinct(backlog) /\ ToSet(backlog) \cap sopen = {}
        /\ outbox \in [Clients -> Seq(Statuses \cup {0})]
        /\ inbox \in [Clients -> Requests \cup {None}]
    BY <1>1, NoConnection DEF Gone, IndInv, TypeOK, BacklogInv, ClientInv
  <1>3. /\ outbox' \in [Clients -> Seq(Statuses \cup {0})] /\ outbox'[c] = <<>>
        /\ inbox' \in [Clients -> Requests \cup {None}] /\ inbox'[c] = None
    BY <1>1, <1>2
  <1>4. PICK to \in {"write", "exit"} : cpc' = [cpc EXCEPT ![c] = to]
    BY DEF Connect, CGoto
  <1>5. ASSUME NEW d \in Clients \ {c}
        PROVE  UNCHANGED <<outbox[d], cpc[d], inbox[d], got[d]>>
    BY <1>1, <1>4
  <1>6. \/ /\ to = "write" /\ backlog' = Append(backlog, c) /\ Len(backlog) < Backlog
           /\ alive
        \/ to = "exit" /\ backlog' = backlog
    <2>1. cpc'[c] = to
      BY <1>4 DEF IndInv, TypeOK
    <2>2. QED
      BY <2>1 DEF Connect, CGoto, IndInv, TypeOK
  <1>7. /\ backlog' \in Seq(Clients) /\ Distinct(backlog') /\ Len(backlog') <= Backlog
        /\ ToSet(backlog') = IF to = "write" THEN ToSet(backlog) \cup {c} ELSE ToSet(backlog)
    <2>1. /\ ToSet(Append(backlog, c)) = ToSet(backlog) \cup {c}
          /\ Distinct(Append(backlog, c))
      BY <1>2, AppendSet
    <2>2. /\ Append(backlog, c) \in Seq(Clients)
          /\ Len(Append(backlog, c)) = Len(backlog) + 1 /\ Len(backlog) \in Nat
      BY <1>2
    <2>3. Backlog \in Nat /\ Len(backlog) <= Backlog
      BY ServerAssumption DEF IndInv, TypeOK
    <2>4. CASE to = "write"
      <3>1. backlog' = Append(backlog, c) /\ Len(backlog) < Backlog
        BY <1>6, <2>4
      <3>2. c \notin ToSet(backlog) /\ Distinct(backlog)
        BY <1>2
      <3>3. Len(Append(backlog, c)) <= Backlog
        BY <2>2, <2>3, <3>1
      <3>4. QED
        BY <2>1, <2>2, <2>4, <3>1, <3>2, <3>3, Zenon
    <2>5. CASE to = "exit"
      BY <1>2, <1>6, <2>3, <2>5
    <2>6. QED
      BY <2>4, <2>5
  <1>8. TypeOK'
    BY <1>1, <1>3, <1>4, <1>7 DEF IndInv, TypeOK, queue, server
  <1>9. BacklogInv'
    BY <1>1, <1>2, <1>6, <1>7 DEF IndInv, BacklogInv, server
  <1>10. ToSet(backlog)' = ToSet(backlog')
    BY DEF ToSet
  <1>11. cpc'[c] = to /\ \A d \in Clients \ {c} : cpc'[d] = cpc[d]
    BY <1>4 DEF IndInv, TypeOK
  <1>12. ASSUME NEW d \in Clients, ~Gone(d)' PROVE StageInv(d)'
    <2>1. CASE d # c
      BY <1>1, <1>5, <1>7, <1>12, <2>1, OthersKept
    <2>2. CASE d = c /\ to = "exit"
      BY <1>1, <1>2, <1>7, <1>10, <1>11, <2>2, NoHand
    <2>3. CASE d = c /\ to = "write"
      <3>1. /\ InMain' = InMain /\ Ring' = Ring
            /\ \A w \in Workers : InWorker(w)' = InWorker(w)
        BY <1>1, ServerKept
      <3>2. c \notin InMain \cup ToSet(Ring) /\ \A w \in Workers : c \notin InWorker(w)
        BY <1>2, HandsType
      <3>3. Asked(c)' /\ c \in ToSet(backlog)'
        BY <1>3, <1>7, <1>10, <1>11, <2>3 DEF Asked
      <3>4. ~(mpc' = "push" /\ c \in InMain') /\ c \notin ToSet(Ring)'
        BY <3>1, <3>2
      <3>5. QED
        BY <2>3, <3>1, <3>2, <3>3, <3>4 DEF StageInv
    <2>4. QED
      BY <1>4, <2>1, <2>2, <2>3
  <1>13. ASSUME NEW d \in Clients
         PROVE  /\ cpc'[d] \in {"start", "exit"} => d \notin (sopen \cup ToSet(backlog))'
                /\ cpc'[d] \in {"write", "read", "more"} => left'[d] > 0
                /\ Len(outbox'[d]) + (IF cpc'[d] = "more" THEN got'[d].bytes ELSE 0)
                       <= BodyWrites + 1
    <2>1. CASE d # c
      BY <1>1, <1>5, <1>7, <1>10, <2>1 DEF IndInv, ClientInv, server
    <2>2. CASE d = c
      <3>1. to = "write" => left[c] > 0
        BY <1>11 DEF Connect, CGoto, IndInv, TypeOK
      <3>2. QED
        BY <1>1, <1>2, <1>3, <1>4, <1>7, <1>10, <1>11, <2>2, <3>1, ServerAssumption
           DEF server
    <2>3. QED
      BY <2>1, <2>2
  <1>14. ClientInv'
    BY <1>3, <1>12, <1>13 DEF ClientInv
  <1>15. QED
    BY <1>1, <1>8, <1>9, <1>14 DEF IndInv

LEMMA SendStep ==
    ASSUME IndInv, NEW c \in Clients, NEW request \in Requests, Send(c, request)
    PROVE  IndInv'
  <1>1. /\ UNCHANGED <<queue, server, backlog, outbox, left, buf, got>> /\ cpc[c] = "write"
        /\ Q!TypeOK' /\ CallsInv' /\ OwnInv'
    BY ServerKept DEF Send
  <1>2. PICK to \in {"read", "exit"} :
            /\ cpc' = [cpc EXCEPT ![c] = to]
            /\ \/ to = "read" /\ inbox' = [inbox EXCEPT ![c] = request]
               \/ to = "exit" /\ inbox' = inbox /\ ~alive
    BY DEF Send, CGoto
  <1>3. /\ cpc'[c] = to /\ ~Gone(c)
        /\ inbox' \in [Clients -> Requests \cup {None}] /\ (to = "read" => inbox'[c] = request)
    BY <1>1, <1>2 DEF IndInv, TypeOK, Gone
  <1>4. ASSUME NEW d \in Clients \ {c}
        PROVE  UNCHANGED <<outbox[d], cpc[d], inbox[d], got[d]>>
    BY <1>1, <1>2 DEF IndInv, TypeOK
  <1>5. TypeOK'
    BY <1>1, <1>2, <1>3 DEF IndInv, TypeOK, queue, server
  <1>6. BacklogInv'
    BY <1>1 DEF IndInv, BacklogInv, server
  <1>7. StageInv(c)
    BY <1>3 DEF IndInv, ClientInv
  <1>8. ASSUME NEW d \in Clients, ~Gone(d)' PROVE StageInv(d)'
    <2>1. CASE d # c
      BY <1>1, <1>4, <1>8, <2>1, OthersKept
    <2>2. CASE d = c /\ ~alive
      <3>1. c \notin sopen /\ c \notin ToSet(backlog)
        BY <1>3, <2>2, NoConnection
      <3>2. c \notin ToSet(backlog)'
        BY <1>1, <3>1 DEF ToSet
      <3>3. QED
        BY <1>1, <2>2, <3>1, <3>2, NoHand
    <2>3. CASE d = c /\ alive
      <3>1. /\ InMain' = InMain /\ Ring' = Ring
            /\ \A w \in Workers : InWorker(w)' = InWorker(w)
        BY <1>1, ServerKept
      <3>2. request # None /\ to = "read"
        BY <1>2, <2>3 DEF Requests, None
      <3>3. c \in ToSet(backlog) \/ (mpc = "read" /\ c = msock) => Asked(c)'
        BY <1>1, <1>3, <1>7, <3>2 DEF StageInv, Asked
      <3>4. ~Unanswered(c) /\ (\A status, bytes : ~Written(c, status, bytes)) /\ ~Complete(c)
        BY <1>1 DEF Unanswered, Written, Complete
      <3>5. /\ ~((mpc = "push" /\ c \in InMain) \/ c \in ToSet(Ring))
            /\ \A w \in Workers : c \notin InWorker(w)
            /\ c \in sopen \cup ToSet(backlog)
        BY <1>1, <1>7, <2>3, <3>4 DEF StageInv, IndInv, TypeOK
      <3>6. QED
        BY <1>1, <2>3, <3>1, <3>3, <3>5 DEF StageInv, server
    <2>4. QED
      BY <2>1, <2>2, <2>3
  <1>9. ASSUME NEW d \in Clients
        PROVE  /\ cpc'[d] \in {"start", "exit"} => d \notin (sopen \cup ToSet(backlog))'
               /\ cpc'[d] \in {"write", "read", "more"} => left'[d] > 0
               /\ Len(outbox'[d]) + (IF cpc'[d] = "more" THEN got'[d].bytes ELSE 0)
                      <= BodyWrites + 1
    <2>1. CASE d # c
      BY <1>1, <1>4, <2>1 DEF IndInv, ClientInv, server
    <2>2. CASE d = c
      <3>1. to = "exit" => c \notin sopen /\ c \notin ToSet(backlog)
        BY <1>2, <1>3, NoConnection
      <3>2. Len(outbox[c]) + 0 <= BodyWrites + 1 /\ left[c] > 0
        BY <1>1 DEF IndInv, ClientInv
      <3>3. QED
        BY <1>1, <1>3, <2>2, <3>1, <3>2 DEF server
    <2>3. QED
      BY <2>1, <2>2
  <1>10. ClientInv'
    BY <1>1, <1>8, <1>9 DEF IndInv, ClientInv
  <1>11. QED
    BY <1>1, <1>5, <1>6, <1>10 DEF IndInv

LEMMA KillClientStep ==
    ASSUME IndInv, NEW c \in Clients, KillClient(c)
    PROVE  IndInv'
  <1>1. /\ UNCHANGED <<queue, server, backlog, inbox, left, buf, got>>
        /\ cpc' = [cpc EXCEPT ![c] = "killed"] /\ outbox' = [outbox EXCEPT ![c] = <<>>]
        /\ Q!TypeOK' /\ CallsInv' /\ OwnInv'
    BY ServerKept DEF KillClient, CGoto
  <1>2. /\ outbox' \in [Clients -> Seq(Statuses \cup {0})]
        /\ outbox'[c] = <<>> /\ cpc'[c] = "killed"
    BY <1>1 DEF IndInv, TypeOK, ClientInv
  <1>3. ASSUME NEW d \in Clients \ {c}
        PROVE  UNCHANGED <<outbox[d], cpc[d], inbox[d], got[d]>>
    BY <1>1
  <1>4. TypeOK'
    BY <1>1, <1>2 DEF IndInv, TypeOK, queue, server
  <1>5. BacklogInv'
    BY <1>1 DEF IndInv, BacklogInv, server
  <1>6. ASSUME NEW d \in Clients, ~Gone(d)' PROVE StageInv(d)'
    BY <1>1, <1>2, <1>3, <1>6, OthersKept DEF Gone
  <1>7. ASSUME NEW d \in Clients
        PROVE  /\ cpc'[d] \in {"start", "exit"} => d \notin (sopen \cup ToSet(backlog))'
               /\ cpc'[d] \in {"write", "read", "more"} => left'[d] > 0
               /\ Len(outbox'[d]) + (IF cpc'[d] = "more" THEN got'[d].bytes ELSE 0)
                      <= BodyWrites + 1
    <2>1. CASE d # c
      BY <1>1, <1>3, <2>1 DEF IndInv, ClientInv, server
    <2>2. CASE d = c
      BY <1>2, <2>2, ServerAssumption
    <2>3. QED
      BY <2>1, <2>2
  <1>8. ClientInv'
    BY <1>2, <1>6, <1>7 DEF ClientInv
  <1>9. QED
    BY <1>1, <1>4, <1>5, <1>8 DEF IndInv

\* A client that still has an answer to read: the server is dead, or all that
\* is to come is in its outbox, or a worker is writing the file.
LEMMA Answering ==
    ASSUME IndInv, NEW c \in Clients, cpc[c] \in {"read", "more"}, alive
    PROVE  \/ Asked(c) /\ c \in sopen \cup ToSet(backlog)
           \/ Unanswered(c) /\ c \in sopen
           \/ \E w \in Workers : /\ c \in InWorker(w) /\ wpc[w] = "body" /\ msg[c] = "file"
                                 /\ Written(c, 200, 1 + BodyWrites - body[w])
           \/ Complete(c)
  <1>1. StageInv(c)
    BY DEF IndInv, ClientInv, Gone
  <1>2. CASE c \notin sopen \cup ToSet(backlog)
    BY <1>1, <1>2 DEF StageInv
  <1>3. CASE c \in ToSet(backlog)
    BY <1>1, <1>3 DEF StageInv
  <1>4. CASE c \in sopen
    <2>1. c \in InMain \/ c \in ToSet(Ring) \/ \E w \in Workers : c \in InWorker(w)
      BY <1>4, HandsType DEF IndInv, OwnInv, Shared
    <2>2. CASE c \in InMain
      BY <1>1, <1>4, <2>2 DEF InMain, StageInv
    <2>3. CASE c \in ToSet(Ring)
      BY <1>1, <1>4, <2>3 DEF StageInv
    <2>4. ASSUME NEW w \in Workers, c \in InWorker(w)
          PROVE  \/ Unanswered(c)
                 \/ /\ wpc[w] = "body" /\ msg[c] = "file"
                    /\ Written(c, 200, 1 + BodyWrites - body[w])
                 \/ Complete(c)
      <3>1. wpc[w] \in {"loop", "answer", "body", "close"}
        BY DEF IndInv, TypeOK
      <3>2. QED
        BY <1>1, <2>4, <3>1 DEF StageInv
    <2>5. QED
      BY <1>4, <2>1, <2>2, <2>3, <2>4
  <1>5. QED
    BY <1>2, <1>3, <1>4

\* A read takes n pieces from the front.
LEMMA Received ==
    ASSUME IndInv, NEW c \in Clients, NEW n \in 0 .. Len(outbox[c]), Receive(c, n)
    PROVE  /\ outbox' \in [Clients -> Seq(Statuses \cup {0})]
           /\ \A d \in Clients \ {c} : outbox'[d] = outbox[d]
           /\ Len(outbox'[c]) = Len(outbox[c]) - n /\ Len(outbox[c]) \in Nat /\ n \in Nat
           /\ n > 0 => Head(outbox[c]) \in Statuses \cup {0} /\ outbox[c] # <<>>
           /\ n = 0 => Ended(c) /\ (outbox[c] = <<>> \/ ~alive)
  <1>1. outbox \in [Clients -> Seq(Statuses \cup {0})]
    BY DEF IndInv, ClientInv
  <1> DEFINE S == Statuses \cup {0}
  <1>2. outbox[c] \in Seq(S) /\ Len(outbox[c]) \in Nat /\ n \in Nat
    BY <1>1
  <1>3. CASE n > 0
    <2>1. outbox' = [outbox EXCEPT ![c] = SubSeq(@, n + 1, Len(@))]
      BY <1>3 DEF Receive
    <2>2. /\ SubSeq(outbox[c], n + 1, Len(outbox[c])) \in Seq(S)
          /\ Len(SubSeq(outbox[c], n + 1, Len(outbox[c]))) = Len(outbox[c]) - n
      <3> HIDE DEF S
      <3>1. QED
        BY <1>2, <1>3, SubSeqProperties
    <2>3. Head(outbox[c]) \in S /\ outbox[c] # <<>>
      BY <1>2, <1>3
    <2>4. QED
      BY <1>1, <1>2, <1>3, <2>1, <2>2, <2>3
  <1>4. CASE n = 0
    BY <1>1, <1>2, <1>4 DEF Receive
  <1>5. QED
    BY <1>2, <1>3, <1>4

\* Whatever is still to come of an answer, the client has the rest of it.
LEMMA StillWritten ==
    ASSUME NEW c, NEW n \in Nat, n > 0, Len(outbox[c]) \in Nat,
           Len(outbox'[c]) = Len(outbox[c]) - n, cpc'[c] = "more",
           \/ /\ cpc[c] = "read"
              /\ got'[c].status = Head(outbox[c]) /\ got'[c].bytes = n
           \/ /\ cpc[c] = "more" /\ got[c].bytes \in Nat
              /\ got'[c].status = got[c].status /\ got'[c].bytes = got[c].bytes + n
    PROVE  \A status, bytes : Written(c, status, bytes) => Written(c, status, bytes)'
  BY DEF Written

\* A client reads: the server sees nothing of it.
LEMMA ReaderStep ==
    ASSUME IndInv, NEW c \in Clients, cpc[c] \in {"read", "more"},
           NEW n \in 0 .. Len(outbox[c]), Receive(c, n),
           NEW to \in {"more", "start"}, cpc' = [cpc EXCEPT ![c] = to],
           UNCHANGED <<queue, server, backlog, inbox>>,
           left' = IF to = "more" THEN left ELSE [left EXCEPT ![c] = @ - 1],
           buf' \in [Clients -> Statuses \cup {0}],
           got' \in [Clients -> [status : Statuses \cup {0}, bytes : Nat]],
           \A d \in Clients \ {c} : got'[d] = got[d],
           to = "more" => Len(outbox'[c]) + got'[c].bytes <= BodyWrites + 1,
           to = "start" => Ended(c) /\ got' = got,
           alive /\ to = "more" =>
               n > 0 /\ \A status, bytes :
                            Written(c, status, bytes) => Written(c, status, bytes)'
    PROVE  IndInv'
  <1>1. /\ outbox' \in [Clients -> Seq(Statuses \cup {0})]
        /\ \A d \in Clients \ {c} : outbox'[d] = outbox[d]
        /\ Len(outbox'[c]) = Len(outbox[c]) - n /\ Len(outbox[c]) \in Nat /\ n \in Nat
        /\ n > 0 => outbox[c] # <<>>
    BY Received
  <1>2. Q!TypeOK' /\ CallsInv' /\ OwnInv' /\ BacklogInv'
    <2>1. BacklogInv'
      BY DEF IndInv, BacklogInv, server
    <2>2. QED
      BY <2>1, ServerKept
  <1>3. cpc'[c] = to /\ ~Gone(c) /\ left[c] > 0 /\ StageInv(c)
    BY DEF IndInv, TypeOK, ClientInv, Gone
  <1>4. ASSUME NEW d \in Clients \ {c}
        PROVE  UNCHANGED <<outbox[d], cpc[d], inbox[d], left[d], got[d]>>
    BY <1>1 DEF IndInv, TypeOK
  <1>5. ASSUME NEW d \in Clients
        PROVE  /\ Len(outbox'[d]) + (IF cpc'[d] = "more" THEN got'[d].bytes ELSE 0)
                      <= BodyWrites + 1
               /\ cpc'[d] \in {"start", "exit"} => d \notin (sopen \cup ToSet(backlog))'
               /\ cpc'[d] \in {"write", "read", "more"} => left'[d] > 0
    <2>1. CASE d # c
      BY <1>4, <2>1 DEF IndInv, ClientInv, server
    <2>2. CASE d = c /\ to = "more"
      BY <1>3, <2>2
    <2>3. CASE d = c /\ to = "start"
      <3>1. Len(outbox[c]) <= BodyWrites + 1
        <4> DEFINE b == IF cpc[c] = "more" THEN got[c].bytes ELSE 0
        <4>1. b \in Nat /\ BodyWrites \in Nat
          BY ServerAssumption DEF IndInv, TypeOK
        <4>2. Len(outbox[c]) + b <= BodyWrites + 1
          BY DEF IndInv, ClientInv
        <4> HIDE DEF b
        <4>3. QED
          BY <1>1, <4>1, <4>2
      <3>2. c \notin sopen \cup ToSet(backlog)
        BY <2>3, NoSet DEF Ended, IndInv, BacklogInv
      <3>3. Len(outbox'[c]) + 0 <= BodyWrites + 1
        BY <1>1, <3>1, ServerAssumption
      <3>4. QED
        BY <1>3, <2>3, <3>2, <3>3 DEF server
    <2>4. QED
      BY <2>1, <2>2, <2>3
  <1>6. TypeOK'
    <2>1. left' \in [Clients -> 0 .. Accesses]
      BY <1>3, ServerAssumption DEF IndInv, TypeOK
    <2>2. ASSUME NEW d \in Clients
          PROVE  got'[d] \in [status : Statuses \cup {0}, bytes : 0 .. BodyWrites + 1]
      <3>1. CASE d # c
        BY <3>1 DEF IndInv, TypeOK
      <3>2. CASE d = c /\ to = "more"
        BY <1>1, <3>2, ServerAssumption
      <3>3. CASE d = c /\ to = "start"
        BY <3>3 DEF IndInv, TypeOK
      <3>4. QED
        BY <3>1, <3>2, <3>3
    <2>3. QED
      BY <1>1, <1>2, <2>1, <2>2 DEF IndInv, TypeOK, queue, server
  <1>7. ASSUME NEW d \in Clients, ~Gone(d)' PROVE StageInv(d)'
    <2>1. CASE d # c
      BY <1>4, <1>7, <2>1, OthersKept
    <2>2. CASE d = c /\ (to = "start" \/ ~alive)
      <3>1. c \notin sopen /\ c \notin ToSet(backlog)
        BY <2>2, NoSet DEF Ended, IndInv, BacklogInv
      <3>2. c \notin ToSet(backlog)'
        BY <3>1 DEF ToSet
      <3>3. QED
        BY <1>3, <2>2, <3>1, <3>2, NoHand
    <2>3. CASE d = c /\ to = "more" /\ alive
      <3>1. ~Asked(c) /\ ~Unanswered(c)
        BY <1>1, <2>3 DEF Asked, Unanswered
      <3>2. /\ InMain' = InMain /\ Ring' = Ring
            /\ \A w \in Workers : InWorker(w)' = InWorker(w)
        BY ServerKept
      <3>3. \A status, bytes : Written(c, status, bytes) => Written(c, status, bytes)'
        BY <2>3
      <3>4. Complete(c) => Complete(c)'
        BY <3>3 DEF Complete, server
      <3>5. c \in ToSet(backlog)' <=> c \in ToSet(backlog)
        BY DEF ToSet
      <3>6. ASSUME NEW w \in Workers, c \in InWorker(w)'
            PROVE  /\ wpc'[w] \in {"loop", "answer"} => Unanswered(c)'
                   /\ wpc'[w] = "body" => /\ msg'[c] = "file"
                                          /\ Written(c, 200, 1 + BodyWrites - body[w])'
                   /\ wpc'[w] = "close" => Complete(c)'
        BY <1>3, <3>1, <3>2, <3>3, <3>4, <3>6 DEF StageInv, server
      <3>7. QED
        BY <1>3, <2>3, <3>1, <3>2, <3>4, <3>5, <3>6 DEF StageInv, server
    <2>4. QED
      BY <2>1, <2>2, <2>3
  <1>8. ClientInv'
    BY <1>1, <1>5, <1>7 DEF ClientInv
  <1>9. QED
    BY <1>2, <1>6, <1>8 DEF IndInv

LEMMA FirstReadStep ==
    ASSUME IndInv, NEW c \in Clients, FirstRead(c)
    PROVE  IndInv'
  <1>1. PICK n \in 0 .. Len(outbox[c]) :
            /\ Receive(c, n)
            /\ buf' = [buf EXCEPT ![c] = IF n > 0 THEN Head(outbox[c]) ELSE @]
            /\ \E status \in Parsed(c, n) :
                   \/ /\ status # 0
                      /\ got' = [got EXCEPT ![c] = [status |-> status, bytes |-> n]]
                      /\ CGoto(c, "more")
                      /\ UNCHANGED left
                   \/ /\ status = 0
                      /\ NextAccess(c)
                      /\ UNCHANGED got
    BY DEF FirstRead
  <1>2. PICK status \in Parsed(c, n) :
            \/ /\ status # 0
               /\ got' = [got EXCEPT ![c] = [status |-> status, bytes |-> n]]
               /\ CGoto(c, "more")
               /\ UNCHANGED left
            \/ /\ status = 0
               /\ NextAccess(c)
               /\ UNCHANGED got
    BY <1>1
  <1>3. UNCHANGED <<queue, server, backlog, inbox>> /\ cpc[c] = "read"
    BY DEF FirstRead
  <1>4. /\ Len(outbox'[c]) = Len(outbox[c]) - n /\ Len(outbox[c]) \in Nat /\ n \in Nat
        /\ n > 0 => Head(outbox[c]) \in Statuses \cup {0} /\ outbox[c] # <<>>
        /\ n = 0 => Ended(c) /\ (outbox[c] = <<>> \/ ~alive)
    BY <1>1, Received
  <1>5. n > 0 => status = Head(outbox[c])
    BY <1>2, <1>4 DEF Parsed
  <1>6. status \in Statuses \cup {0}
    BY <1>2, <1>4, <1>5 DEF Parsed, IndInv, TypeOK
  <1>7. \A s, b : Written(c, s, b) => Len(outbox[c]) = b /\ Head(outbox[c]) = s
    BY <1>3 DEF Written
  <1>8. alive => n > 0 /\ status # 0
    <2> SUFFICES ASSUME alive PROVE n > 0 /\ status # 0
      OBVIOUS
    <2>1. CASE Complete(c)
      <3>1. PICK a \in Expected(msg[c]) : Written(c, a.status, a.bytes)
        BY <2>1 DEF Complete
      <3>2. a.status # 0 /\ a.bytes # 0
        BY ServerAssumption DEF Expected
      <3>3. QED
        BY <1>4, <1>5, <1>7, <3>1, <3>2
    <2>2. CASE \E w \in Workers : /\ c \in InWorker(w) /\ wpc[w] = "body" /\ msg[c] = "file"
                                  /\ Written(c, 200, 1 + BodyWrites - body[w])
      <3>1. PICK w \in Workers : /\ c \in InWorker(w)
                                 /\ Written(c, 200, 1 + BodyWrites - body[w])
        BY <2>2
      <3>2. c \in sopen
        BY <3>1, HandsType
      <3>3. n # 0
        <4>1. BodyWrites \in Nat /\ body[w] \in 0 .. BodyWrites
          BY ServerAssumption DEF IndInv, TypeOK
        <4>2. Len(outbox[c]) # 0
          BY <1>7, <3>1, <4>1
        <4>3. QED
          BY <1>4, <4>2
      <3>4. QED
        BY <1>4, <1>5, <1>7, <3>1, <3>3
    <2>3. CASE (Asked(c) \/ Unanswered(c)) /\ c \in sopen \cup ToSet(backlog)
      <3>1. outbox[c] = <<>>
        BY <2>3 DEF Asked, Unanswered
      <3>2. QED
        BY <1>4, <2>3, <3>1 DEF Ended
    <2>4. QED
      BY <1>3, <2>1, <2>2, <2>3, Answering
  <1>9. buf' \in [Clients -> Statuses \cup {0}]
    BY <1>1, <1>4 DEF IndInv, TypeOK
  <1>10. CASE status # 0
    <2>1. /\ got' = [got EXCEPT ![c] = [status |-> status, bytes |-> n]]
          /\ cpc' = [cpc EXCEPT ![c] = "more"] /\ left' = left
      BY <1>2, <1>10 DEF CGoto
    <2>2. /\ got' \in [Clients -> [status : Statuses \cup {0}, bytes : Nat]]
          /\ got'[c].status = status /\ got'[c].bytes = n
          /\ \A d \in Clients \ {c} : got'[d] = got[d]
      <3>1. got \in [Clients -> [status : Statuses \cup {0}, bytes : Nat]]
        BY DEF IndInv, TypeOK
      <3>2. QED
        BY <1>4, <1>6, <2>1, <3>1
    <2>3. Len(outbox'[c]) + got'[c].bytes <= BodyWrites + 1
      <3>1. Len(outbox[c]) + 0 <= BodyWrites + 1
        BY <1>3 DEF IndInv, ClientInv
      <3>2. QED
        BY <1>4, <2>2, <3>1, ServerAssumption
    <2>4. cpc'[c] = "more"
      BY <2>1 DEF IndInv, TypeOK
    <2>5. alive => \A s, b : Written(c, s, b) => Written(c, s, b)'
      BY <1>3, <1>4, <1>5, <1>8, <2>2, <2>4, StillWritten
    <2>6. QED
      BY <1>1, <1>3, <1>8, <1>9, <2>1, <2>2, <2>3, <2>5, ReaderStep
  <1>11. CASE status = 0
    <2>1. got' = got /\ cpc' = [cpc EXCEPT ![c] = "start"] /\ left' = [left EXCEPT ![c] = @ - 1]
      BY <1>2, <1>11 DEF CGoto, NextAccess
    <2>2. ~alive /\ Ended(c)
      BY <1>8, <1>11 DEF Ended
    <2>3. got' \in [Clients -> [status : Statuses \cup {0}, bytes : Nat]]
      BY <2>1 DEF IndInv, TypeOK
    <2>4. QED
      BY <1>1, <1>3, <1>9, <2>1, <2>2, <2>3, ReaderStep
  <1>12. QED
    BY <1>10, <1>11

LEMMA ReadMoreStep ==
    ASSUME IndInv, NEW c \in Clients, ReadMore(c)
    PROVE  IndInv'
  <1>1. PICK n \in 0 .. Len(outbox[c]) :
            /\ Receive(c, n)
            /\ \/ /\ n > 0
                  /\ buf' = [buf EXCEPT ![c] = 0]
                  /\ got' = [got EXCEPT ![c].bytes = @ + n]
                  /\ UNCHANGED <<cpc, left>>
               \/ /\ n = 0
                  /\ NextAccess(c)
                  /\ UNCHANGED <<buf, got>>
    BY DEF ReadMore
  <1>2. UNCHANGED <<queue, server, backlog, inbox>> /\ cpc[c] = "more"
    BY DEF ReadMore
  <1>3. /\ Len(outbox'[c]) = Len(outbox[c]) - n /\ Len(outbox[c]) \in Nat /\ n \in Nat
        /\ n = 0 => Ended(c)
    BY <1>1, Received
  <1>4. got \in [Clients -> [status : Statuses \cup {0}, bytes : Nat]]
    BY DEF IndInv, TypeOK
  <1>5. CASE n > 0
    <2>1. /\ left' = left /\ cpc' = [cpc EXCEPT ![c] = "more"] /\ cpc'[c] = "more"
          /\ buf' \in [Clients -> Statuses \cup {0}]
      <3>1. cpc' = cpc /\ cpc = [d \in Clients |-> cpc[d]]
        BY <1>1, <1>5 DEF IndInv, TypeOK
      <3>2. cpc = [cpc EXCEPT ![c] = "more"]
        BY <1>2, <3>1
      <3>3. QED
        <4>1. cpc' = [cpc EXCEPT ![c] = "more"] /\ cpc'[c] = "more"
          BY <1>2, <3>1, <3>2, Zenon
        <4>2. left' = left /\ buf' = [buf EXCEPT ![c] = 0]
          BY <1>1, <1>5
        <4>3. QED
          BY <4>1, <4>2 DEF IndInv, TypeOK
    <2>2. /\ got' \in [Clients -> [status : Statuses \cup {0}, bytes : Nat]]
          /\ got'[c].status = got[c].status /\ got'[c].bytes = got[c].bytes + n
          /\ \A d \in Clients \ {c} : got'[d] = got[d]
      <3>1. got' = [got EXCEPT ![c].bytes = @ + n]
        BY <1>1, <1>5
      <3>2. got' = [d \in Clients |-> IF d = c THEN [got[c] EXCEPT !.bytes = @ + n]
                                      ELSE got[d]]
        BY <1>4, <3>1, Zenon
      <3>3. [got[c] EXCEPT !.bytes = @ + n] =
                [status |-> got[c].status, bytes |-> got[c].bytes + n]
        BY <1>4
      <3>4. got[c].status \in Statuses \cup {0} /\ got[c].bytes + n \in Nat
        BY <1>3, <1>4
      <3>5. QED
        BY <1>4, <3>2, <3>3, <3>4
    <2>3. got[c].bytes \in Nat
      BY <1>4
    <2>4. Len(outbox'[c]) + got'[c].bytes <= BodyWrites + 1
      <3>1. Len(outbox[c]) + got[c].bytes <= BodyWrites + 1
        BY <1>2 DEF IndInv, ClientInv
      <3>2. QED
        BY <1>3, <2>2, <2>3, <3>1, ServerAssumption
    <2>5. \A s, b : Written(c, s, b) => Written(c, s, b)'
      BY <1>2, <1>3, <1>5, <2>1, <2>2, <2>3, StillWritten
    <2>6. QED
      BY <1>1, <1>2, <1>5, <2>1, <2>2, <2>4, <2>5, ReaderStep
  <1>6. CASE n = 0
    <2>1. /\ got' = got /\ buf' = buf /\ left' = [left EXCEPT ![c] = @ - 1]
          /\ cpc' = [cpc EXCEPT ![c] = "start"]
      BY <1>1, <1>6 DEF NextAccess, CGoto
    <2>2. buf' \in [Clients -> Statuses \cup {0}]
      BY <2>1 DEF IndInv, TypeOK
    <2>3. QED
      BY <1>1, <1>2, <1>3, <1>4, <1>6, <2>1, <2>2, ReaderStep
  <1>7. QED
    BY <1>3, <1>5, <1>6
-----------------------------------------------------------------------------
LEMMA NextInv == IndInv /\ [Next]_vars => IndInv'
  <1> SUFFICES ASSUME IndInv, [Next]_vars PROVE IndInv'
    OBVIOUS
  <1>1. CASE UNCHANGED vars
    <2> USE <1>1 DEF vars, queue, server, net, client
    <2>1. /\ Q!TypeOK' /\ CallsInv' /\ OwnInv' /\ InMain' = InMain /\ Ring' = Ring
          /\ \A w \in Workers : InWorker(w)' = InWorker(w)
      BY ServerKept
    <2>2. TypeOK' /\ BacklogInv'
      BY <2>1 DEF IndInv, TypeOK, BacklogInv
    <2>3. ASSUME NEW c \in Clients PROVE StageInv(c)' <=> StageInv(c)
      BY <2>1, StageKept DEF StageInv
    <2>4. ClientInv'
      BY <2>3 DEF IndInv, ClientInv, Gone
    <2>5. QED
      BY <2>1, <2>2, <2>4 DEF IndInv
  <1>2. CASE MainStep
    BY <1>2, AcceptStep, ReadStep, PushStep DEF MainStep
  <1>3. CASE KillServer
    BY <1>3, DieStep DEF KillServer
  <1>4. ASSUME NEW w \in Workers, WorkerStep(w) PROVE IndInv'
    BY <1>4, PopStep, AnswerStep, WriteBodyStep, CloseStep, DieStep
       DEF WorkerStep, BrokenPipe
  <1>5. ASSUME NEW c \in Clients, ClientStep(c) \/ KillClient(c) PROVE IndInv'
    BY <1>5, ConnectStep, SendStep, FirstReadStep, ReadMoreStep, KillClientStep
       DEF ClientStep
  <1>6. QED
    BY <1>1, <1>2, <1>3, <1>4, <1>5 DEF Next

\* The types, the hands and the stages of all clients hold in every state.
THEOREM Invariant == Safety => []IndInv
  BY InitInv, NextInv, PTL DEF Safety
-----------------------------------------------------------------------------
\* As many elements as places.
LEMMA DistinctCount ==
    ASSUME NEW S, NEW s \in Seq(S), Distinct(s)
    PROVE  IsFiniteSet(ToSet(s)) /\ Cardinality(ToSet(s)) = Len(s)
  <1>1. Len(s) \in Nat /\ DOMAIN s = 1 .. Len(s)
    OBVIOUS
  <1>2. s \in [1 .. Len(s) -> ToSet(s)]
    BY <1>1 DEF ToSet
  <1>3. s \in Injection(1 .. Len(s), ToSet(s))
    BY <1>1, <1>2 DEF Distinct, Injection, IsInjective
  <1>4. s \in Surjection(1 .. Len(s), ToSet(s))
    BY <1>1, <1>2 DEF ToSet, Surjection
  <1>5. ExistsBijection(1 .. Len(s), ToSet(s))
    BY <1>3, <1>4 DEF ExistsBijection, Bijection
  <1>6. IsFiniteSet(1 .. Len(s)) /\ Cardinality(1 .. Len(s)) = Len(s)
    BY <1>1, FS_Interval
  <1>7. QED
    BY <1>5, <1>6, FS_Bijection

\* As many connections in the workers' hands as workers that have one.
LEMMA HandsCount ==
    ASSUME IndInv
    PROVE  LET U == UNION {InWorker(w) : w \in Workers}
           IN  IsFiniteSet(U) /\ Cardinality(U) =
                   Cardinality({w \in Workers : InWorker(w) # {}})
  <1> DEFINE U == UNION {InWorker(w) : w \in Workers}
             Busy == {w \in Workers : InWorker(w) # {}}
             f == [w \in Busy |-> item[w]]
  <1>1. \A w \in Busy : InWorker(w) = {f[w]}
    BY DEF InWorker
  <1>2. \A w, u \in Busy : w # u => InWorker(w) \cap InWorker(u) = {}
    BY HandsType DEF IndInv, OwnInv, Shared
  <1>3. U = UNION {InWorker(w) : w \in Busy}
    OBVIOUS
  <1>4. IsFiniteSet(Busy)
    BY ServerAssumption, FS_Subset
  <1>5. DOMAIN f = Busy
    OBVIOUS
  <1>6. f \in [Busy -> U]
    BY <1>1
  <1> HIDE DEF f, U
  <1>7. f \in Injection(Busy, U)
    BY <1>1, <1>2, <1>5, <1>6 DEF Injection, IsInjective
  <1>8. f \in Surjection(Busy, U)
    BY <1>1, <1>3, <1>6 DEF Surjection
  <1>9. ExistsBijection(Busy, U)
    BY <1>7, <1>8 DEF ExistsBijection, Bijection
  <1>10. QED
    BY <1>4, <1>9, FS_Bijection DEF U

LEMMA DisjointUnion ==
    ASSUME NEW S, NEW T, IsFiniteSet(S), IsFiniteSet(T), S \cap T = {}
    PROVE  /\ IsFiniteSet(S \cup T)
           /\ Cardinality(S \cup T) = Cardinality(S) + Cardinality(T)
  <1>1. Cardinality(S) \in Nat /\ Cardinality(T) \in Nat
    BY FS_CardinalityType
  <1>2. Cardinality(S \cup T) = Cardinality(S) + Cardinality(T) - Cardinality({})
    BY FS_Union
  <1>3. QED
    BY <1>1, <1>2, FS_Union, FS_EmptySet

LEMMA HandsAdded == IndInv => OneOwner
  <1> SUFFICES ASSUME IndInv PROVE OneOwner
    OBVIOUS
  <1> DEFINE U == UNION {InWorker(w) : w \in Workers}
             n == Cardinality({w \in Workers : InWorker(w) # {}})
  <1>1. IsFiniteSet(U) /\ Cardinality(U) = n
    BY HandsCount
  <1>2. IsFiniteSet(ToSet(Ring)) /\ Cardinality(ToSet(Ring)) = Len(Ring)
    BY HandsType, DistinctCount DEF IndInv, OwnInv, Shared
  <1>3. IsFiniteSet(InMain)
    BY FS_EmptySet, FS_Singleton DEF InMain
  <1>4. U = UNION {Hand[w] : w \in Workers}
    BY HandsType
  <1>5. /\ sopen = InMain \cup ToSet(Ring) \cup U
        /\ InMain \cap ToSet(Ring) = {} /\ (InMain \cup ToSet(Ring)) \cap U = {}
    BY <1>4 DEF IndInv, OwnInv, Shared
  <1> HIDE DEF U
  <1>6. /\ IsFiniteSet(InMain \cup ToSet(Ring))
        /\ Cardinality(InMain \cup ToSet(Ring)) = Cardinality(InMain) + Cardinality(ToSet(Ring))
    BY <1>2, <1>3, <1>5, DisjointUnion
  <1>7. Cardinality((InMain \cup ToSet(Ring)) \cup U) =
            Cardinality(InMain \cup ToSet(Ring)) + Cardinality(U)
    BY <1>1, <1>5, <1>6, DisjointUnion
  <1>8. Cardinality(sopen) = Cardinality(InMain) + Cardinality(ToSet(Ring)) + Cardinality(U)
    BY <1>5, <1>6, <1>7
  <1>9. QED
    BY <1>1, <1>2, <1>5, <1>8 DEF OneOwner, Ring, IndInv, U

\* Every open connection is in exactly one hand, for any number of clients and
\* workers and any ring: none is leaked, shared, closed twice or used after it.
THEOREM ConnectionsOwned == Safety => []OneOwner
  BY Invariant, HandsAdded, PTL

\* While the server runs, what a client prints is a whole answer to what it
\* asked, whatever the others do and whoever is killed.
THEOREM AnswersRight == Safety => RightAnswer
  <1>1. ASSUME IndInv, Next, NEW c \in Clients, alive, Prints(c)
        PROVE  got[c] \in Expected(msg[c])
    <2>1. cpc[c] = "more" /\ cpc'[c] = "start"
      BY <1>1 DEF Prints
    <2>2. ReadMore(c)
      <3>1. cpc \in [Clients -> {"start", "write", "read", "more", "exit", "killed"}]
        BY <1>1 DEF IndInv, TypeOK
      <3>2. ~UNCHANGED cpc
        BY <2>1
      <3>3. ~MainStep /\ ~KillServer /\ ~\E w \in Workers : WorkerStep(w)
        BY <3>2 DEF MainStep, Accept, Read, Push, KillServer, WorkerStep, Pop, Answer,
                    WriteBody, Close, BrokenPipe, client
      <3>4. PICK d \in Clients : ClientStep(d) \/ KillClient(d)
        BY <1>1, <3>3 DEF Next
      <3>5. PICK to : cpc' = [cpc EXCEPT ![d] = to] \/ UNCHANGED cpc
        BY <3>4 DEF ClientStep, KillClient, Connect, Send, FirstRead, ReadMore,
                    NextAccess, CGoto
      <3>6. d = c
        BY <2>1, <3>1, <3>2, <3>5
      <3>7. ~Connect(c) /\ ~FirstRead(c) /\ ~\E request \in Requests : Send(c, request)
        BY <2>1 DEF Connect, FirstRead, Send
      <3>8. ~KillClient(c)
        BY <2>1, <3>1 DEF KillClient, CGoto
      <3>9. QED
        BY <3>4, <3>6, <3>7, <3>8 DEF ClientStep
    <2>3. Receive(c, 0) /\ 0 \in 0 .. Len(outbox[c])
      BY <2>1, <2>2 DEF ReadMore
    <2>4. Ended(c) /\ outbox[c] = <<>>
      BY <1>1, <2>3, Received
    <2>5. StageInv(c)
      BY <1>1, <2>1 DEF IndInv, ClientInv, Gone
    <2>6. Complete(c)
      BY <1>1, <2>1, <2>4, <2>5 DEF StageInv, Ended
    <2>7. PICK a \in Expected(msg[c]) : Written(c, a.status, a.bytes)
      BY <2>6 DEF Complete
    <2>8. got[c].status = a.status /\ got[c].bytes + 0 = a.bytes
      BY <2>1, <2>4, <2>7 DEF Written
    <2>9. got[c] = [status |-> got[c].status, bytes |-> got[c].bytes] /\ got[c].bytes \in Nat
      BY <1>1, ServerAssumption DEF IndInv, TypeOK
    <2>10. a = [status |-> a.status, bytes |-> a.bytes]
      BY DEF Expected
    <2>11. QED
      BY <2>7, <2>8, <2>9, <2>10
  <1>2. IndInv /\ [Next]_vars =>
            [\A c \in Clients : alive /\ Prints(c) => got[c] \in Expected(msg[c])]_vars
    BY <1>1
  <1>3. QED
    BY <1>2, Invariant, PTL DEF Safety, RightAnswer
=============================================================================
