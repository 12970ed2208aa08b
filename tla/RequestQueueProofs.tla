------------------------- MODULE RequestQueueProofs -------------------------
(***************************************************************************)
(* What TLC checks of a ring with two places, proved for any size of the   *)
(* ring and any producers, consumers and requests: the types, that no      *)
(* wakeup is lost, and that the ring is a bounded first-in first-out       *)
(* queue.                                                                  *)
(***************************************************************************)
EXTENDS RequestQueue, FiniteSetTheorems, SequenceTheorems, TLAPS

\* The arithmetic of the indices.
LEMMA SuccFacts ==
    ASSUME NEW i \in Slots
    PROVE  /\ Succ(i) \in Slots
           /\ Succ(i) = IF i + 1 = REQUEST_QUEUE_SIZE THEN 0 ELSE i + 1
  BY QueueAssumption DEF Slots, Succ

LEMMA SizeFacts ==
    ASSUME front \in Slots, rear \in Slots
    PROVE  /\ Size = IF rear >= front THEN rear - front
                     ELSE rear - front + REQUEST_QUEUE_SIZE
           /\ Size \in 0 .. REQUEST_QUEUE_SIZE - 1
           /\ Size = 0 <=> front = rear
           /\ Size = REQUEST_QUEUE_SIZE - 1 <=> Succ(rear) = front
  <1>1. Size = IF rear >= front THEN rear - front
               ELSE rear - front + REQUEST_QUEUE_SIZE
    BY QueueAssumption DEF Slots, Size
  <1>2. QED
    BY <1>1, QueueAssumption, SuccFacts DEF Slots

\* One more request in the ring, or one less.
LEMMA SizeSteps ==
    ASSUME front \in Slots, rear \in Slots
    PROVE  /\ Succ(rear) # front /\ rear' = Succ(rear) /\ front' = front
                  => Size' = Size + 1
           /\ front # rear /\ front' = Succ(front) /\ rear' = rear
                  => Size' = Size - 1
  <1> USE QueueAssumption
  <1>1. ASSUME front' \in Slots, rear' \in Slots
        PROVE  Size' = IF rear' >= front' THEN rear' - front'
                       ELSE rear' - front' + REQUEST_QUEUE_SIZE
    BY <1>1 DEF Slots, Size
  <1>2. QED
    BY <1>1, SuccFacts, SizeFacts DEF Slots

\* How many threads are at each place.
Count == [place \in Places |-> Cardinality(At(place))]

LEMMA CardinalityStep ==
    ASSUME NEW S \in SUBSET Threads, NEW x
    PROVE  /\ Cardinality(S) \in Nat
           /\ Cardinality(S) = 0 <=> S = {}
           /\ x \in Threads /\ x \notin S => Cardinality(S \cup {x}) = Cardinality(S) + 1
           /\ x \in S => Cardinality(S \ {x}) = Cardinality(S) - 1
  <1>1. IsFiniteSet(S)
    BY QueueAssumption, FS_Union, FS_Subset DEF Threads
  <1>2. QED
    BY <1>1, FS_CardinalityType, FS_EmptySet, FS_AddElement, FS_RemoveElement

LEMMA CountType ==
    /\ Count \in [Places -> Nat]
    /\ \A place \in Places : Count[place] = 0 <=> At(place) = {}
  <1>1. \A place : At(place) \in SUBSET Threads
    BY DEF At
  <1>2. QED
    BY <1>1, CardinalityStep DEF Count

\* A thread moves from one place to another.
LEMMA MoveCounts ==
    ASSUME TypeOK, NEW t \in Threads, NEW to \in Places, to # pc[t],
           pc' = [pc EXCEPT ![t] = to]
    PROVE  /\ Count' = [Count EXCEPT ![pc[t]] = @ - 1, ![to] = @ + 1]
           /\ Count' \in [Places -> Nat]
  <1> DEFINE from == pc[t]
  <1>1. /\ \A place \in Places \ {from, to} : At(place)' = At(place)
        /\ At(from) \in SUBSET Threads /\ t \in At(from)
        /\ At(to) \in SUBSET Threads /\ t \notin At(to)
    BY DEF TypeOK, At
  <1>2. \A place \in Places : {u \in Threads : pc'[u] = place} =
            IF place = to THEN At(to) \cup {t}
            ELSE IF place = from THEN At(from) \ {t} ELSE At(place)
    BY DEF TypeOK, At
  <1>3. /\ Cardinality(At(to) \cup {t}) = Cardinality(At(to)) + 1
        /\ Cardinality(At(from) \ {t}) = Cardinality(At(from)) - 1
    BY <1>1, CardinalityStep
  <1>4. Count' = [place \in Places |-> Cardinality({u \in Threads : pc'[u] = place})]
    BY DEF Count, At
  <1>5. Count' \in [Places -> Nat]
    <2>1. \A place : {u \in Threads : pc'[u] = place} \in SUBSET Threads
      OBVIOUS
    <2>2. QED
      BY <1>4, <2>1, CardinalityStep
  <1>6. QED
    BY <1>2, <1>3, <1>4, <1>5 DEF Count, TypeOK

\* A signal: its sender goes out, and one thread that waits is woken, if any.
SignalSum(place, wait, woken) ==
    Count' = IF Count[wait] = 0
             THEN [Count EXCEPT ![place] = @ - 1, !["out"] = @ + 1]
             ELSE [Count EXCEPT ![place] = @ - 1, !["out"] = @ + 1,
                                ![wait] = @ - 1, ![woken] = @ + 1]

LEMMA SignalCounts ==
    ASSUME TypeOK, NEW t \in Threads,
           NEW place \in Places, NEW wait \in Places, NEW woken \in Places,
           Signal(t, place, wait, woken), wait # woken,
           "out" \notin {place, wait, woken}, place \notin {wait, woken}
    PROVE  SignalSum(place, wait, woken)
  <1> USE DEF SignalSum
  <1>1. CASE At(wait) = {}
    <2>1. pc' = [pc EXCEPT ![t] = "out"] /\ pc[t] = place
      BY <1>1 DEF Signal, TypeOK
    <2>2. QED
      BY <1>1, <2>1, MoveCounts, CountType DEF Places
  <1>2. CASE At(wait) # {}
    <2>1. PICK w \in At(wait) : pc' = [pc EXCEPT ![w] = woken, ![t] = "out"]
      BY <1>2 DEF Signal
    <2>2. w # t /\ w \in Threads /\ pc[w] = wait /\ pc[t] = place
      BY <2>1 DEF At, Signal
    <2>3. \A p \in Places : {u \in Threads : pc'[u] = p} =
              IF p = place THEN At(place) \ {t}
              ELSE IF p = "out" THEN At("out") \cup {t}
              ELSE IF p = wait THEN At(wait) \ {w}
              ELSE IF p = woken THEN At(woken) \cup {w} ELSE At(p)
      BY <2>1, <2>2 DEF TypeOK, At
    <2>4. /\ At(place) \in SUBSET Threads /\ t \in At(place)
          /\ At("out") \in SUBSET Threads /\ t \notin At("out")
          /\ At(wait) \in SUBSET Threads /\ w \in At(wait)
          /\ At(woken) \in SUBSET Threads /\ w \notin At(woken)
      BY <2>2 DEF At
    <2>5. /\ Cardinality(At(place) \ {t}) = Cardinality(At(place)) - 1
          /\ Cardinality(At("out") \cup {t}) = Cardinality(At("out")) + 1
          /\ Cardinality(At(wait) \ {w}) = Cardinality(At(wait)) - 1
          /\ Cardinality(At(woken) \cup {w}) = Cardinality(At(woken)) + 1
      BY <2>2, <2>4, CardinalityStep
    <2>6. Count' = [p \in Places |-> Cardinality({u \in Threads : pc'[u] = p})]
      BY DEF Count, At
    <2>7. Count[wait] # 0
      BY <1>2, CountType
    <2>8. Count' = [p \in Places |->
                        IF p = place THEN Count[place] - 1
                        ELSE IF p = "out" THEN Count["out"] + 1
                        ELSE IF p = wait THEN Count[wait] - 1
                        ELSE IF p = woken THEN Count[woken] + 1 ELSE Count[p]]
      <3>1. "out" \in Places
        BY DEF Places
      <3>2. \A p \in Places : Count[p] = Cardinality(At(p))
        BY DEF Count
      <3>3. \A p \in Places : Cardinality({u \in Threads : pc'[u] = p}) =
                IF p = place THEN Count[place] - 1
                ELSE IF p = "out" THEN Count["out"] + 1
                ELSE IF p = wait THEN Count[wait] - 1
                ELSE IF p = woken THEN Count[woken] + 1 ELSE Count[p]
        BY <2>3, <2>5, <3>1, <3>2
      <3>4. QED
        BY <2>6, <3>3
    <2>9. QED
      BY <2>7, <2>8, CountType DEF Places
  <1>3. QED
    BY <1>1, <1>2
-----------------------------------------------------------------------------
LEMMA TypeStep ==
    ASSUME TypeOK, [Next]_vars
    PROVE  TypeOK'
  <1> USE DEF TypeOK, Threads, Places, Goto
  <1>1. CASE UNCHANGED vars
    BY <1>1 DEF vars
  <1>2. ASSUME NEW p \in Producers, NEW r \in Requests, Push(p, r)
        PROVE  TypeOK'
    BY <1>2, SuccFacts, QueueAssumption DEF Push, TryPush, fields
  <1>3. ASSUME NEW p \in Threads, PushAgain(p) PROVE TypeOK'
    BY <1>3, SuccFacts, QueueAssumption DEF PushAgain, TryPush, fields
  <1>4. ASSUME NEW c \in Consumers, Pop(c) PROVE TypeOK'
    BY <1>4, SuccFacts, QueueAssumption DEF Pop, TryPop, fields
  <1>5. ASSUME NEW c \in Threads, PopAgain(c) PROVE TypeOK'
    BY <1>5, SuccFacts, QueueAssumption DEF PopAgain, TryPop, fields
  <1>6. ASSUME NEW t \in Threads, SignalNotEmpty(t) PROVE TypeOK'
    BY <1>6, QueueAssumption DEF SignalNotEmpty, Signal, At, fields
  <1>7. ASSUME NEW t \in Threads, SignalNotFull(t) PROVE TypeOK'
    BY <1>7, QueueAssumption DEF SignalNotFull, Signal, At, fields
  <1>8. ASSUME NEW t \in Threads, SpuriousWake(t) PROVE TypeOK'
    BY <1>8, QueueAssumption DEF SpuriousWake, fields
  <1>9. QED
    BY <1>1, <1>2, <1>3, <1>4, <1>5, <1>6, <1>7, <1>8 DEF Next, Finish
-----------------------------------------------------------------------------
\* NoLostWakeup in numbers.
Wakeups ==
    /\ Count["pop_wait"] > 0 =>
           Size <= Count["signal_notempty"] + Count["pop_woken"]
    /\ Count["push_wait"] > 0 =>
           REQUEST_QUEUE_SIZE - 1 - Size
               <= Count["signal_notfull"] + Count["push_woken"]

LEMMA WakeupsCounted == NoLostWakeup <=> TypeOK /\ Wakeups
  <1>1. \A place \in Places : /\ Count[place] = Cardinality(At(place))
                              /\ Count[place] \in Nat
                              /\ Count[place] = 0 <=> At(place) = {}
    BY CountType DEF Count
  <1>2. QED
    BY <1>1 DEF NoLostWakeup, Wakeups, Places

\* One pass of push keeps the books, whether it begins or was woken.
LEMMA PushWakeups ==
    ASSUME TypeOK, Wakeups, NEW p \in Threads, NEW r,
           pc[p] \in {"out", "push_woken"}, TryPush(p, r)
    PROVE  Wakeups'
  <1>0. /\ front \in Slots /\ rear \in Slots
        /\ REQUEST_QUEUE_SIZE \in Nat /\ Size \in 0 .. REQUEST_QUEUE_SIZE - 1
    BY QueueAssumption, SizeFacts DEF TypeOK
  <1>1. CASE Succ(rear) = front
    <2>1. pc' = [pc EXCEPT ![p] = "push_wait"] /\ UNCHANGED <<front, rear>>
      BY <1>1 DEF TryPush, Goto, fields
    <2>2. /\ Count' = [Count EXCEPT ![pc[p]] = @ - 1, !["push_wait"] = @ + 1]
          /\ Count' \in [Places -> Nat]
      BY <2>1, MoveCounts DEF Places
    <2>3. Size' = Size /\ Size = REQUEST_QUEUE_SIZE - 1
      BY <1>0, <1>1, <2>1, SizeFacts DEF Size
    <2>4. QED
      BY <1>0, <2>2, <2>3, CountType DEF Wakeups, Places
  <1>2. CASE Succ(rear) # front
    <2>1. pc' = [pc EXCEPT ![p] = "signal_notempty"]
      BY <1>2 DEF TryPush, Goto
    <2>2. Count' = [Count EXCEPT ![pc[p]] = @ - 1, !["signal_notempty"] = @ + 1]
      BY <2>1, MoveCounts DEF Places
    <2>3. Size' = Size + 1
      BY <1>0, <1>2, SizeSteps DEF TryPush
    <2>4. /\ Count'["signal_notempty"] = Count["signal_notempty"] + 1
          /\ Count'["push_woken"] \in {Count["push_woken"], Count["push_woken"] - 1}
          /\ Count'["pop_wait"] = Count["pop_wait"]
          /\ Count'["pop_woken"] = Count["pop_woken"]
          /\ Count'["push_wait"] = Count["push_wait"]
          /\ Count'["signal_notfull"] = Count["signal_notfull"]
      BY <2>2, CountType DEF Places
    <2>5. \A q \in Places : Count[q] \in Nat
      BY CountType
    <2>6. QED
      BY <1>0, <2>3, <2>4, <2>5 DEF Wakeups, Places
  <1>3. QED
    BY <1>1, <1>2

\* One pass of pop does.
LEMMA PopWakeups ==
    ASSUME TypeOK, Wakeups, NEW c \in Threads,
           pc[c] \in {"out", "pop_woken"}, TryPop(c)
    PROVE  Wakeups'
  <1>0. /\ front \in Slots /\ rear \in Slots
        /\ REQUEST_QUEUE_SIZE \in Nat /\ Size \in 0 .. REQUEST_QUEUE_SIZE - 1
    BY QueueAssumption, SizeFacts DEF TypeOK
  <1>1. CASE front = rear
    <2>1. pc' = [pc EXCEPT ![c] = "pop_wait"] /\ UNCHANGED <<front, rear>>
      BY <1>1 DEF TryPop, Goto, fields
    <2>2. /\ Count' = [Count EXCEPT ![pc[c]] = @ - 1, !["pop_wait"] = @ + 1]
          /\ Count' \in [Places -> Nat]
      BY <2>1, MoveCounts DEF Places
    <2>3. Size' = Size /\ Size = 0
      BY <1>0, <1>1, <2>1, SizeFacts DEF Size
    <2>4. QED
      BY <1>0, <2>2, <2>3, CountType DEF Wakeups, Places
  <1>2. CASE front # rear
    <2>1. pc' = [pc EXCEPT ![c] = "signal_notfull"]
      BY <1>2 DEF TryPop, Goto
    <2>2. Count' = [Count EXCEPT ![pc[c]] = @ - 1, !["signal_notfull"] = @ + 1]
      BY <2>1, MoveCounts DEF Places
    <2>3. Size' = Size - 1
      BY <1>0, <1>2, SizeSteps DEF TryPop
    <2>4. /\ Count'["signal_notfull"] = Count["signal_notfull"] + 1
          /\ Count'["pop_woken"] \in {Count["pop_woken"], Count["pop_woken"] - 1}
          /\ Count'["push_wait"] = Count["push_wait"]
          /\ Count'["push_woken"] = Count["push_woken"]
          /\ Count'["pop_wait"] = Count["pop_wait"]
          /\ Count'["signal_notempty"] = Count["signal_notempty"]
      BY <2>2, CountType DEF Places
    <2>5. \A q \in Places : Count[q] \in Nat
      BY CountType
    <2>6. QED
      BY <1>0, <2>3, <2>4, <2>5 DEF Wakeups, Places
  <1>3. QED
    BY <1>1, <1>2

\* A signal hands on what its sender owed, and nobody loses by a wakeup that
\* was not sent.
LEMMA SignalWakeups ==
    ASSUME TypeOK, Wakeups, NEW t \in Threads,
           SignalNotEmpty(t) \/ SignalNotFull(t) \/ SpuriousWake(t)
    PROVE  Wakeups'
  <1> USE QueueAssumption, CountType, SizeFacts
      DEF TypeOK, Wakeups, Places
  <1>1. Size' = Size
    BY DEF SignalNotEmpty, SignalNotFull, Signal, SpuriousWake, fields, Size
  <1>2. CASE SignalNotEmpty(t)
    <2>1. SignalSum("signal_notempty", "pop_wait", "pop_woken")
      BY <1>2, SignalCounts DEF SignalNotEmpty
    <2>2. QED
      BY <1>1, <2>1 DEF SignalSum
  <1>3. CASE SignalNotFull(t)
    <2>1. SignalSum("signal_notfull", "push_wait", "push_woken")
      BY <1>3, SignalCounts DEF SignalNotFull
    <2>2. QED
      BY <1>1, <2>1 DEF SignalSum
  <1>4. CASE pc[t] = "push_wait" /\ Goto(t, "push_woken")
    <2>1. Count' = [Count EXCEPT !["push_wait"] = @ - 1, !["push_woken"] = @ + 1]
      BY <1>4, MoveCounts DEF Goto
    <2>2. QED
      BY <1>1, <2>1
  <1>5. CASE pc[t] = "pop_wait" /\ Goto(t, "pop_woken")
    <2>1. Count' = [Count EXCEPT !["pop_wait"] = @ - 1, !["pop_woken"] = @ + 1]
      BY <1>5, MoveCounts DEF Goto
    <2>2. QED
      BY <1>1, <2>1
  <1>6. QED
    BY <1>2, <1>3, <1>4, <1>5 DEF SpuriousWake

LEMMA WakeupStep ==
    ASSUME TypeOK, Wakeups, [Next]_vars
    PROVE  Wakeups'
  <1>1. CASE UNCHANGED vars
    BY <1>1 DEF vars, Wakeups, Count, At, Size
  <1>2. ASSUME NEW p \in Producers, NEW r \in Requests, Push(p, r)
        PROVE  Wakeups'
    BY <1>2, PushWakeups DEF Push, Threads
  <1>3. ASSUME NEW c \in Consumers, Pop(c) PROVE Wakeups'
    BY <1>3, PopWakeups DEF Pop, Threads
  <1>4. ASSUME NEW t \in Threads, PushAgain(t) PROVE Wakeups'
    BY <1>4, PushWakeups DEF PushAgain
  <1>5. ASSUME NEW t \in Threads, PopAgain(t) PROVE Wakeups'
    BY <1>5, PopWakeups DEF PopAgain
  <1>6. ASSUME NEW t \in Threads,
               SignalNotEmpty(t) \/ SignalNotFull(t) \/ SpuriousWake(t)
        PROVE  Wakeups'
    BY <1>6, SignalWakeups
  <1>7. QED
    BY <1>1, <1>2, <1>3, <1>4, <1>5, <1>6 DEF Next, Finish

\* An empty ring and nobody in a call, as request_queue_init leaves them.
LEMMA InitFacts == Init => TypeOK /\ Wakeups
  <1> SUFFICES ASSUME Init PROVE TypeOK /\ Wakeups
    OBVIOUS
  <1>1. TypeOK
    BY QueueAssumption DEF Init, TypeOK, Threads, Slots, Places
  <1>2. At("pop_wait") = {} /\ At("push_wait") = {}
    BY DEF Init, At
  <1>3. QED
    BY <1>1, <1>2, CountType DEF Wakeups, Places

\* Types and books together are inductive.
THEOREM TypeCorrect == Safety => []TypeOK
  BY InitFacts, TypeStep, PTL DEF Safety

\* No wakeup is lost: whoever waits while it could go on has a signal, or a
\* thread awake, on its way, for any ring and any number of threads.
THEOREM WakeupsKept == Safety => []NoLostWakeup
  <1>1. Safety => [](TypeOK /\ Wakeups)
    BY InitFacts, TypeStep, WakeupStep, PTL DEF Safety
  <1>2. QED
    BY <1>1, WakeupsCounted, PTL
-----------------------------------------------------------------------------
\* The slot of the i-th request, and the one a push stores into.
LEMMA SlotFacts ==
    ASSUME NEW f \in Slots, NEW i \in 1 .. REQUEST_QUEUE_SIZE
    PROVE  (f + i - 1) % REQUEST_QUEUE_SIZE =
               IF f + i - 1 < REQUEST_QUEUE_SIZE THEN f + i - 1
               ELSE f + i - 1 - REQUEST_QUEUE_SIZE
  BY QueueAssumption DEF Slots

LEMMA ContentsType ==
    ASSUME TypeOK
    PROVE  /\ Contents \in Seq(Requests \cup {NULL}) /\ Len(Contents) = Size
           /\ Contents = <<>> <=> front = rear
  <1>1. Size \in 0 .. REQUEST_QUEUE_SIZE - 1 /\ (Size = 0 <=> front = rear)
    BY SizeFacts DEF TypeOK
  <1>2. \A i \in 1 .. Size : (front + i - 1) % REQUEST_QUEUE_SIZE \in Slots
    BY <1>1, SlotFacts, QueueAssumption DEF TypeOK, Slots
  <1>3. Contents \in [1 .. Size -> Requests \cup {NULL}]
    BY <1>2 DEF Contents, TypeOK
  <1>4. QED
    BY <1>1, <1>3, QueueAssumption

\* Two sequences are equal when their lengths and elements are.
LEMMA SameSequence ==
    ASSUME NEW S, NEW s \in Seq(S), NEW n \in Nat, NEW f,
           f = [i \in 1 .. n |-> f[i]], n = Len(s), \A i \in 1 .. n : f[i] = s[i]
    PROVE  f = s
  <1>1. s = [i \in 1 .. Len(s) |-> s[i]]
    OBVIOUS
  <1>2. QED
    BY <1>1

\* A push that stores appends to the contents, and takes no used slot.
LEMMA ContentsPush ==
    ASSUME TypeOK, NEW r \in Requests, Succ(rear) # front,
           reqs' = [reqs EXCEPT ![rear] = r], rear' = Succ(rear), front' = front
    PROVE  Contents' = Append(Contents, r)
  <1>1. /\ front \in Slots /\ rear \in Slots /\ REQUEST_QUEUE_SIZE \in Nat
        /\ Size \in 0 .. REQUEST_QUEUE_SIZE - 2 /\ Size' = Size + 1
        /\ Size = IF rear >= front THEN rear - front
                  ELSE rear - front + REQUEST_QUEUE_SIZE
    BY SizeFacts, SizeSteps, QueueAssumption DEF TypeOK
  <1>2. \A i \in 1 .. Size + 1 :
            (front + i - 1) % REQUEST_QUEUE_SIZE \in Slots
                /\ ((front + i - 1) % REQUEST_QUEUE_SIZE = rear <=> i = Size + 1)
    BY <1>1, SlotFacts, QueueAssumption DEF Slots
  <1>3. Contents' = [i \in 1 .. Size + 1 |->
                        reqs'[(front + i - 1) % REQUEST_QUEUE_SIZE]]
    BY <1>1 DEF Contents
  <1>4. Contents' = [i \in 1 .. Size + 1 |-> IF i = Size + 1 THEN r ELSE Contents[i]]
    BY <1>1, <1>2, <1>3 DEF Contents, TypeOK
  <1>5. QED
    <2> DEFINE S == Requests \cup {NULL}
    <2>1. Contents \in Seq(S) /\ Len(Contents) = Size /\ r \in S
      BY ContentsType
    <2>2. /\ Append(Contents, r) \in Seq(S) /\ Len(Append(Contents, r)) = Size + 1
          /\ \A i \in 1 .. Size : Append(Contents, r)[i] = Contents[i]
          /\ Append(Contents, r)[Size + 1] = r
      BY <2>1, AppendProperties
    <2> HIDE DEF S
    <2>3. \A i \in 1 .. Size + 1 : Contents'[i] = Append(Contents, r)[i]
      BY <1>1, <1>4, <2>2
    <2>4. Contents' = [i \in 1 .. Size + 1 |-> Contents'[i]]
      BY <1>4
    <2>5. QED
      BY <1>1, <2>2, <2>3, <2>4, SameSequence

\* A pop takes the oldest.
LEMMA ContentsPop ==
    ASSUME TypeOK, front # rear,
           front' = Succ(front), rear' = rear, reqs' = reqs
    PROVE  Contents' = Tail(Contents) /\ Head(Contents) = reqs[front]
  <1>1. /\ front \in Slots /\ rear \in Slots /\ REQUEST_QUEUE_SIZE \in Nat
        /\ Size \in 1 .. REQUEST_QUEUE_SIZE - 1 /\ Size' = Size - 1
        /\ front' \in Slots
    BY SizeFacts, SizeSteps, SuccFacts, QueueAssumption DEF TypeOK
  <1>2. \A i \in 1 .. Size - 1 : (front' + i - 1) % REQUEST_QUEUE_SIZE =
                                  (front + (i + 1) - 1) % REQUEST_QUEUE_SIZE
    <2> TAKE i \in 1 .. Size - 1
    <2>1. i \in 1 .. REQUEST_QUEUE_SIZE /\ i + 1 \in 1 .. REQUEST_QUEUE_SIZE
      BY <1>1
    <2>2. (front' + i - 1) % REQUEST_QUEUE_SIZE =
              IF front' + i - 1 < REQUEST_QUEUE_SIZE THEN front' + i - 1
              ELSE front' + i - 1 - REQUEST_QUEUE_SIZE
      BY <1>1, <2>1, SlotFacts
    <2>3. (front + (i + 1) - 1) % REQUEST_QUEUE_SIZE =
              IF front + (i + 1) - 1 < REQUEST_QUEUE_SIZE THEN front + (i + 1) - 1
              ELSE front + (i + 1) - 1 - REQUEST_QUEUE_SIZE
      BY <1>1, <2>1, SlotFacts
    <2>4. front' = IF front + 1 = REQUEST_QUEUE_SIZE THEN 0 ELSE front + 1
      BY <1>1, SuccFacts
    <2>5. QED
      BY <1>1, <2>1, <2>2, <2>3, <2>4 DEF Slots
  <1>3. Contents' = [i \in 1 .. Size - 1 |->
                        reqs[(front' + i - 1) % REQUEST_QUEUE_SIZE]]
    BY <1>1 DEF Contents
  <1>4. Contents' = [i \in 1 .. Size - 1 |-> Contents[i + 1]]
    BY <1>1, <1>2, <1>3 DEF Contents
  <1>5. (front + 1 - 1) % REQUEST_QUEUE_SIZE = front
    BY <1>1, SlotFacts, QueueAssumption DEF Slots
  <1>6. Contents # <<>> /\ Contents[1] = reqs[front]
    BY <1>1, <1>5, ContentsType DEF Contents
  <1>7. QED
    <2> DEFINE S == Requests \cup {NULL}
    <2>1. Contents \in Seq(S) /\ Len(Contents) = Size
      BY ContentsType
    <2>2. /\ Tail(Contents) \in Seq(S) /\ Len(Tail(Contents)) = Size - 1
          /\ \A i \in 1 .. Size - 1 : Tail(Contents)[i] = Contents[i + 1]
      BY <1>6, <2>1, HeadTailProperties
    <2> HIDE DEF S
    <2>3. Contents' = [i \in 1 .. Size - 1 |-> Contents'[i]]
      BY <1>4
    <2>4. \A i \in 1 .. Size - 1 : Contents'[i] = Tail(Contents)[i]
      BY <1>4, <2>2
    <2>5. Size - 1 \in Nat
      BY <1>1
    <2>6. Contents' = Tail(Contents)
      BY <2>2, <2>3, <2>4, <2>5, SameSequence
    <2>7. QED
      BY <1>6, <2>1, <2>6
-----------------------------------------------------------------------------
\* A push that waits holds a request.
HandsFull == \A t \in Threads :
                 pc[t] \in {"push_wait", "push_woken"} => item[t] \in Requests

LEMMA HandsStep ==
    ASSUME TypeOK, HandsFull, [Next]_vars
    PROVE  HandsFull'
  <1> USE DEF TypeOK, HandsFull, Threads, Places, Goto
  <1>1. CASE UNCHANGED vars
    BY <1>1 DEF vars
  <1>2. ASSUME NEW p \in Producers, NEW r \in Requests, Push(p, r)
        PROVE  HandsFull'
    BY <1>2 DEF Push, TryPush, fields
  <1>3. ASSUME NEW p \in Threads, PushAgain(p) PROVE HandsFull'
    BY <1>3 DEF PushAgain, TryPush, fields
  <1>4. ASSUME NEW c \in Consumers, Pop(c) PROVE HandsFull'
    BY <1>4 DEF Pop, TryPop, fields
  <1>5. ASSUME NEW c \in Threads, PopAgain(c) PROVE HandsFull'
    BY <1>5 DEF PopAgain, TryPop, fields
  <1>6. ASSUME NEW t \in Threads, SignalNotEmpty(t) PROVE HandsFull'
    BY <1>6 DEF SignalNotEmpty, Signal, At, fields
  <1>7. ASSUME NEW t \in Threads, SignalNotFull(t) PROVE HandsFull'
    BY <1>7 DEF SignalNotFull, Signal, At, fields
  <1>8. ASSUME NEW t \in Threads, SpuriousWake(t) PROVE HandsFull'
    BY <1>8 DEF SpuriousWake, fields
  <1>9. QED
    BY <1>1, <1>2, <1>3, <1>4, <1>5, <1>6, <1>7, <1>8 DEF Next, Finish

\* A pass of push is a put, or leaves the queue alone.
LEMMA PushSeen ==
    ASSUME TypeOK, NEW p \in Producers, NEW r \in Requests, TryPush(p, r),
           item' = [item EXCEPT ![p] = r]
    PROVE  UNCHANGED Contents \/ Q!Put(p, r)
  <1>1. CASE Succ(rear) = front
    BY <1>1 DEF TryPush, fields, Contents, Size
  <1>2. CASE Succ(rear) # front
    <2>1. Contents' = Append(Contents, r)
      BY <1>2, ContentsPush DEF TryPush
    <2>2. Len(Contents) < REQUEST_QUEUE_SIZE - 1
      BY <1>2, ContentsType, SizeFacts, QueueAssumption DEF TypeOK
    <2>3. QED
      BY <2>1, <2>2 DEF Q!Put
  <1>3. QED
    BY <1>1, <1>2

\* A pass of pop is a take, or does nothing to be seen.
LEMMA PopSeen ==
    ASSUME TypeOK, NEW c \in Consumers, TryPop(c)
    PROVE  UNCHANGED <<Contents, item>> \/ Q!Take(c)
  <1>1. CASE front = rear
    BY <1>1 DEF TryPop, fields, Contents, Size
  <1>2. CASE front # rear
    <2>1. Contents' = Tail(Contents) /\ Head(Contents) = reqs[front]
      BY <1>2, ContentsPop DEF TryPop
    <2>2. Contents # <<>>
      BY <1>2, ContentsType
    <2>3. QED
      BY <1>2, <2>1, <2>2 DEF Q!Take, TryPop
  <1>3. QED
    BY <1>1, <1>2

LEMMA StepSeen ==
    ASSUME TypeOK, HandsFull, [Next]_vars
    PROVE  [Q!Next]_<<Contents, item>>
  <1>1. CASE UNCHANGED vars
    BY <1>1 DEF vars, Contents, Size
  <1>2. ASSUME NEW p \in Producers, NEW r \in Requests, Push(p, r)
        PROVE  Q!Next
    BY <1>2, PushSeen DEF Push, Q!Next, Q!Bring
  <1>3. ASSUME NEW t \in Threads, PushAgain(t)
        PROVE  [Q!Next]_<<Contents, item>>
    <2>1. t \in Producers /\ item[t] \in Requests
      BY <1>3 DEF PushAgain, TypeOK, HandsFull, Threads
    <2>2. item' = item /\ item' = [item EXCEPT ![t] = item[t]]
      BY <1>3 DEF PushAgain, TypeOK
    <2>3. QED
      BY <1>3, <2>1, <2>2, PushSeen DEF PushAgain, Q!Next
  <1>4. ASSUME NEW c \in Consumers, Pop(c)
        PROVE  [Q!Next]_<<Contents, item>>
    BY <1>4, PopSeen DEF Pop, Q!Next
  <1>5. ASSUME NEW t \in Threads, PopAgain(t)
        PROVE  [Q!Next]_<<Contents, item>>
    <2>1. t \in Consumers
      BY <1>5 DEF PopAgain, TypeOK, Threads
    <2>2. QED
      BY <1>5, <2>1, PopSeen DEF PopAgain, Q!Next
  <1>6. ASSUME NEW t \in Threads,
               SignalNotEmpty(t) \/ SignalNotFull(t) \/ SpuriousWake(t)
        PROVE  UNCHANGED <<Contents, item>>
    BY <1>6 DEF SignalNotEmpty, SignalNotFull, Signal, SpuriousWake, fields,
                Contents, Size
  <1>7. QED
    BY <1>1, <1>2, <1>3, <1>4, <1>5, <1>6 DEF Next, Finish

\* The ring is a first-in first-out queue of one place less than its size:
\* nothing is lost, doubled, reordered or handed to two threads.
THEOREM ImplementsFIFO == Safety => FIFOSafety
  <1>1. Init => HandsFull /\ Q!Init
    <2> SUFFICES ASSUME Init PROVE HandsFull /\ Q!Init
      OBVIOUS
    <2>1. Contents = <<>>
      BY InitFacts, ContentsType DEF Init
    <2>2. QED
      BY <2>1 DEF Init, HandsFull, Q!Init
  <1>2. TypeOK /\ HandsFull /\ [Next]_vars => [Q!Next]_<<Contents, item>>
    BY StepSeen
  <1>3. Safety => [](TypeOK /\ HandsFull)
    BY <1>1, InitFacts, TypeStep, HandsStep, PTL DEF Safety
  <1>4. QED
    BY <1>1, <1>2, <1>3, PTL DEF Safety, FIFOSafety, Q!Safety
=============================================================================
