-------------------------- MODULE TimeServiceProofs --------------------------
(***************************************************************************)
(* What TLC checks of the time service for two clients and a delay of two  *)
(* ticks, proved for any clients, any delay and any number of ticks.       *)
(***************************************************************************)
EXTENDS TimeService, SequenceTheorems, TLAPS

\* What the server sends back.
Answers == [call : Calls, result : Nat]

\* The types, with the domains of the functions, and times that are past.
Shape ==
    /\ up \in BOOLEAN /\ tod \in Nat
    /\ delayed \in Clients \cup {NULL}
    /\ start \in Nat /\ start <= tod
    /\ requests \in [Clients -> Seq(Calls)]
    /\ replies \in [Clients -> Seq(Answers)]
    /\ printed \in [Clients -> Seq(Nat)]
    /\ reset \subseteq Clients
    /\ call \in [Clients -> Calls]
    /\ state \in [Clients -> {"ready", "waiting", "over"}]
    /\ \A c \in Clients :
        /\ \A i \in 1..Len(replies[c]) : replies[c][i].result \in 0..tod
        /\ \A i \in 1..Len(printed[c]) : printed[c][i] \in 0..tod

\* The first call of a client has one message on its way at most; without its
\* answer the client makes no other.
BeforeTime(c) ==
    /\ printed[c] = <<>>
    /\ delayed # c
    /\ Len(requests[c]) + Len(replies[c]) <= 1
    /\ state[c] = "ready" => Len(requests[c]) + Len(replies[c]) = 0
    /\ \A i \in 1..Len(requests[c]) : requests[c][i] = 1

\* Calls are served in the order they were made, and a client that has the time
\* prints only one other.
InOrder(c) ==
    /\ \A i \in 1..Len(requests[c]) :
        /\ requests[c][i] >= 2
        /\ requests[c][i] <= call[c]
        /\ state[c] = "ready" => requests[c][i] < call[c]
    /\ \A i, j \in 1..Len(requests[c]) : i < j => requests[c][i] < requests[c][j]
    /\ Len(printed[c]) = 1 \/ (state[c] = "over" /\ Len(printed[c]) = 2)

\* The moment from which the client may be told the time again.
Rested(c) == tod >= printed[c][1] + Delay

\* The delay is still to be called, or called and not yet served, or going on,
\* or it has been spun off.
Resting(c) ==
    /\ \/ call[c] = 2 /\ state[c] = "ready"
       \/ \E i \in 1..Len(requests[c]) : requests[c][i] = 2
       \/ delayed = c
       \/ Rested(c)
       \/ state[c] = "over"
    /\ delayed = c => start >= printed[c][1]
    /\ \A i \in 1..Len(replies[c]) :
           replies[c][i].call = 3 => replies[c][i].result >= printed[c][1] + Delay
    /\ Len(printed[c]) = 2 => printed[c][2] >= printed[c][1] + Delay

ClientInv(c) == IF call[c] = 1 THEN BeforeTime(c) ELSE InOrder(c) /\ Resting(c)

IndInv == Shape /\ \A c \in Clients : ClientInv(c)
-----------------------------------------------------------------------------
\* What Append and Tail do to the elements of a sequence.
LEMMA AppendFacts ==
    ASSUME NEW S, NEW s \in Seq(S), NEW e \in S
    PROVE  /\ Append(s, e) \in Seq(S)
           /\ Len(s) \in Nat /\ Len(Append(s, e)) = Len(s) + 1
           /\ \A i \in 1..Len(s) : Append(s, e)[i] = s[i]
           /\ Append(s, e)[Len(s) + 1] = e
  OBVIOUS

LEMMA TailFacts ==
    ASSUME NEW S, NEW s \in Seq(S), s # <<>>
    PROVE  /\ Tail(s) \in Seq(S)
           /\ Len(s) \in Nat \ {0} /\ Len(Tail(s)) = Len(s) - 1
           /\ Head(s) = s[1] /\ s[1] \in S
           /\ \A i \in 1..Len(Tail(s)) : i + 1 \in 1..Len(s) /\ Tail(s)[i] = s[i + 1]
  BY HeadTailProperties, EmptySeq

\* A sequence is one over any set its elements are in.
LEMMA InSmaller ==
    ASSUME NEW S, NEW T, NEW s \in Seq(S), \A i \in 1..Len(s) : s[i] \in T
    PROVE  s \in Seq(T)
  <1>1. s \in [1..Len(s) -> T] /\ Len(s) \in Nat
    BY LenProperties
  <1>2. QED
    BY <1>1, SeqDef

\* A step that does nothing for a client keeps what is known of it.
LEMMA Frame ==
    ASSUME Shape, NEW d \in Clients, ClientInv(d),
           requests'[d] = requests[d], replies'[d] = replies[d],
           printed'[d] = printed[d], call'[d] = call[d], state'[d] = state[d],
           tod' \in Nat, tod' >= tod,
           delayed' = d <=> delayed = d,
           delayed = d => start' = start
    PROVE  ClientInv(d)'
  <1>1. CASE call[d] = 1
    BY <1>1 DEF ClientInv, BeforeTime
  <1>2. CASE call[d] # 1
    <2>1. InOrder(d)'
      BY <1>2 DEF ClientInv, InOrder
    <2>2. printed[d][1] \in Nat
      BY <1>2 DEF ClientInv, InOrder, Shape
    <2>3. Resting(d)'
      BY <1>2, <2>2, TimeAssumption DEF ClientInv, Resting, Rested, Shape
    <2>4. QED
      BY <1>2, <2>1, <2>3 DEF ClientInv
  <1>3. QED
    BY <1>1, <1>2

\* Nor does one that does something for c alone for anybody else.
LEMMA Others ==
    ASSUME IndInv, NEW c \in Clients, tod' = tod,
           \A d \in Clients \ {c} :
               /\ requests'[d] = requests[d] /\ replies'[d] = replies[d]
               /\ printed'[d] = printed[d]
               /\ call'[d] = call[d] /\ state'[d] = state[d]
               /\ delayed' = d <=> delayed = d
               /\ delayed = d => start' = start
    PROVE  \A d \in Clients \ {c} : ClientInv(d)'
  <1>1. tod' \in Nat /\ tod' >= tod /\ Shape
    BY DEF IndInv, Shape
  <1>2. QED
    BY <1>1, Frame DEF IndInv

\* Nothing has been called when the clients start.
LEMMA InitInv == Init => IndInv
  <1> SUFFICES ASSUME Init PROVE IndInv
    OBVIOUS
  <1>1. Shape
    BY EmptySeq DEF Init, Shape, Calls
  <1>2. Len(<<>>) = 0
    BY EmptySeq
  <1>3. \A c \in Clients : ClientInv(c)
    <2> SUFFICES ASSUME NEW c \in Clients PROVE ClientInv(c)
      OBVIOUS
    <2>1. /\ requests[c] = <<>> /\ replies[c] = <<>> /\ printed[c] = <<>>
          /\ call[c] = 1 /\ delayed # c
      BY TimeAssumption DEF Init
    <2>2. QED
      BY <1>2, <2>1 DEF ClientInv, BeforeTime
  <1>4. QED
    BY <1>1, <1>3 DEF IndInv

\* Time goes by: what is past stays past, who has rested has rested.
LEMMA TickInv ==
    ASSUME IndInv, Tick
    PROVE  IndInv'
  <1> USE DEF IndInv
  <1>1. tod' = tod + 1 /\ UNCHANGED <<server, requests, replies, client>>
    BY DEF Tick
  <1>2. Shape'
    <2>1. 0..tod \subseteq 0..tod'
      BY <1>1 DEF Shape
    <2>2. QED
      BY <1>1, <2>1 DEF Shape, server, client
  <1>3. tod' \in Nat /\ tod' >= tod
    BY <1>1 DEF Shape
  <1>4. \A d \in Clients : ClientInv(d)'
    BY <1>1, <1>3, Frame DEF server, client
  <1>5. QED
    BY <1>2, <1>4

\* An answer n to c leaves the types as they are and adds to the answers to c,
\* if c has not ended.
LEMMA ReplyFacts ==
    ASSUME Shape, NEW c \in Clients, NEW n \in Calls, NEW result \in 0..tod,
           Reply(c, n, result)
    PROVE  /\ up' \in BOOLEAN /\ reset' \subseteq Clients
           /\ replies' \in [Clients -> Seq(Answers)]
           /\ \A d \in Clients \ {c} : replies'[d] = replies[d]
           /\ \A d \in Clients :
                  \A i \in 1..Len(replies'[d]) : replies'[d][i].result \in 0..tod
           /\ \/ state[c] = "over" /\ replies'[c] = replies[c]
              \/ /\ state[c] # "over"
                 /\ Len(replies'[c]) = Len(replies[c]) + 1
                 /\ Len(replies[c]) \in Nat
                 /\ \A i \in 1..Len(replies'[c]) :
                        \/ i \in 1..Len(replies[c]) /\ replies'[c][i] = replies[c][i]
                        \/ replies'[c][i] = [call |-> n, result |-> result]
  <1>1. CASE state[c] = "over"
    BY <1>1 DEF Reply, Shape
  <1>2. CASE state[c] # "over"
    <2> DEFINE a == [call |-> n, result |-> result]
    <2>1. /\ replies' = [replies EXCEPT ![c] = Append(replies[c], a)]
          /\ UNCHANGED <<up, reset>>
      BY <1>2 DEF Reply
    <2>8. a \in Answers
      BY DEF Answers, Shape
    <2>9. replies[c] \in Seq(Answers)
      BY DEF Shape
    <2>2. /\ Append(replies[c], a) \in Seq(Answers)
          /\ Len(replies[c]) \in Nat
          /\ Len(Append(replies[c], a)) = Len(replies[c]) + 1
          /\ \A i \in 1..Len(replies[c]) : Append(replies[c], a)[i] = replies[c][i]
          /\ Append(replies[c], a)[Len(replies[c]) + 1] = a
      BY <2>8, <2>9, AppendFacts
    <2>3. \A i \in 1..Len(replies'[c]) :
              \/ i \in 1..Len(replies[c]) /\ replies'[c][i] = replies[c][i]
              \/ replies'[c][i] = a
      BY <2>1, <2>2 DEF Shape
    <2>4. a.result = result
      OBVIOUS
    <2> HIDE DEF a
    <2>5. \A d \in Clients :
              \A i \in 1..Len(replies'[d]) : replies'[d][i].result \in 0..tod
      BY <2>1, <2>3, <2>4 DEF Shape
    <2>6. QED
      BY <1>2, <2>1, <2>2, <2>3, <2>5 DEF Shape, a
  <1>3. QED
    BY <1>1, <1>2
-----------------------------------------------------------------------------
\* Lengths are numbers.
LEMMA LenFacts ==
    ASSUME Shape, NEW c \in Clients
    PROVE  /\ Len(requests[c]) \in Nat /\ Len(replies[c]) \in Nat
           /\ Len(printed[c]) \in Nat
           /\ \A i \in 1..Len(requests[c]) : requests[c][i] \in Calls
           /\ \A i \in 1..Len(replies[c]) : replies[c][i] \in Answers
  <1>1. /\ requests[c] \in Seq(Calls) /\ replies[c] \in Seq(Answers)
        /\ printed[c] \in Seq(Nat)
    BY DEF Shape
  <1>2. QED
    BY <1>1, LenProperties, ElementOfSeq

\* Once a client has the time it has printed it, and it is past.
LEMMA PrintedFacts ==
    ASSUME Shape, NEW c \in Clients, ClientInv(c), call[c] # 1
    PROVE  /\ InOrder(c) /\ Resting(c)
           /\ printed[c][1] \in 0..tod /\ printed[c][1] \in Nat
  <1>1. InOrder(c) /\ Resting(c)
    BY DEF ClientInv
  <1>2. Len(printed[c]) \in {1, 2}
    BY <1>1 DEF InOrder
  <1>3. 1 \in 1..Len(printed[c])
    BY <1>2
  <1>4. printed[c][1] \in 0..tod /\ tod \in Nat
    BY <1>3 DEF Shape
  <1>5. QED
    BY <1>1, <1>4

\* The rest of the requests of c, when the first has been taken.
LEMMA TakeRequest ==
    ASSUME Shape, NEW c \in Clients, requests[c] # <<>>,
           requests' = [requests EXCEPT ![c] = Tail(requests[c])],
           UNCHANGED <<call, state, printed>>
    PROVE  /\ requests' \in [Clients -> Seq(Calls)]
           /\ 1 \in 1..Len(requests[c]) /\ Head(requests[c]) = requests[c][1]
           /\ requests[c][1] \in Calls
           /\ Len(requests'[c]) = Len(requests[c]) - 1
           /\ \A i \in 1..Len(requests'[c]) :
                  /\ i + 1 \in 1..Len(requests[c])
                  /\ requests'[c][i] = requests[c][i + 1]
           /\ InOrder(c) => InOrder(c)'
  <1> DEFINE s == requests[c]
  <1>1. /\ Tail(s) \in Seq(Calls) /\ Len(s) \in Nat \ {0}
        /\ Len(Tail(s)) = Len(s) - 1
        /\ Head(s) = s[1] /\ s[1] \in Calls
        /\ \A i \in 1..Len(Tail(s)) : i + 1 \in 1..Len(s) /\ Tail(s)[i] = s[i + 1]
    BY TailFacts DEF Shape
  <1>2. requests'[c] = Tail(s) /\ requests' \in [Clients -> Seq(Calls)]
    BY <1>1 DEF Shape
  <1>3. /\ Len(requests'[c]) = Len(s) - 1
        /\ \A i \in 1..Len(requests'[c]) :
               i + 1 \in 1..Len(s) /\ requests'[c][i] = s[i + 1]
    BY <1>1, <1>2
  <1>4. ASSUME InOrder(c) PROVE InOrder(c)'
    <2>1. \A i, j \in 1..Len(requests'[c]) :
              i < j => /\ i + 1 \in 1..Len(s) /\ j + 1 \in 1..Len(s)
                       /\ i + 1 < j + 1
      BY <1>1, <1>3
    <2>2. \A i, j \in 1..Len(requests'[c]) :
              i < j => requests'[c][i] < requests'[c][j]
      BY <1>3, <1>4, <2>1 DEF InOrder
    <2>3. QED
      BY <1>3, <1>4, <2>2 DEF InOrder
  <1>5. QED
    BY <1>1, <1>2, <1>3, <1>4

\* The time is told at once; to a client that has rested, if it asks again.
LEMMA TellTimeInv ==
    ASSUME IndInv, NEW c \in Clients, Serve(c), ~IsDelay(Head(requests[c]))
    PROVE  IndInv'
  <1>0. Shape /\ ClientInv(c)
    BY DEF IndInv
  <1> DEFINE n == Head(requests[c])
  <1>1. /\ delayed = NULL /\ delayed' = NULL /\ start' = start /\ tod' = tod
        /\ requests[c] # <<>>
        /\ requests' = [requests EXCEPT ![c] = Tail(requests[c])]
        /\ Reply(c, n, tod) /\ UNCHANGED <<call, state, printed>>
    BY DEF Serve, client
  <1>2. /\ requests' \in [Clients -> Seq(Calls)]
        /\ 1 \in 1..Len(requests[c]) /\ n = requests[c][1] /\ n \in Calls
        /\ Len(requests'[c]) = Len(requests[c]) - 1
        /\ \A i \in 1..Len(requests'[c]) :
               /\ i + 1 \in 1..Len(requests[c])
               /\ requests'[c][i] = requests[c][i + 1]
        /\ InOrder(c) => InOrder(c)'
    BY <1>0, <1>1, TakeRequest
  <1>3. n \in {1, 3}
    BY <1>2 DEF IsDelay, Calls
  <1>4. delayed # c
    BY <1>1, TimeAssumption
  <1> HIDE DEF n
  <1>5. tod \in 0..tod
    BY <1>0 DEF Shape
  <1>6. /\ up' \in BOOLEAN /\ reset' \subseteq Clients
        /\ replies' \in [Clients -> Seq(Answers)]
        /\ \A d \in Clients \ {c} : replies'[d] = replies[d]
        /\ \A d \in Clients :
               \A i \in 1..Len(replies'[d]) : replies'[d][i].result \in 0..tod
        /\ \/ state[c] = "over" /\ replies'[c] = replies[c]
           \/ /\ state[c] # "over"
              /\ Len(replies'[c]) = Len(replies[c]) + 1
              /\ Len(replies[c]) \in Nat
              /\ \A i \in 1..Len(replies'[c]) :
                     \/ i \in 1..Len(replies[c]) /\ replies'[c][i] = replies[c][i]
                     \/ replies'[c][i] = [call |-> n, result |-> tod]
    BY <1>0, <1>1, <1>2, <1>5, ReplyFacts
  <1>7. Shape'
    BY <1>0, <1>1, <1>2, <1>6 DEF Shape
  <1>8. \A d \in Clients \ {c} : ClientInv(d)'
    <2>1. \A d \in Clients \ {c} :
                /\ requests'[d] = requests[d] /\ replies'[d] = replies[d]
                /\ printed'[d] = printed[d]
                /\ call'[d] = call[d] /\ state'[d] = state[d]
                /\ delayed' = d <=> delayed = d
                /\ delayed = d => start' = start
      BY <1>0, <1>1, <1>6 DEF Shape
    <2>2. QED
      BY <1>1, <2>1, Others
  <1>9. ClientInv(c)'
    <2>1. CASE call[c] = 1
      <3>1. /\ BeforeTime(c) /\ state[c] # "ready"
            /\ Len(requests[c]) \in Nat \ {0} /\ Len(replies[c]) \in Nat
        <4>1. BeforeTime(c)
          BY <1>0, <2>1 DEF ClientInv
        <4>2. Len(requests[c]) \in Nat \ {0} /\ Len(replies[c]) \in Nat
          BY <1>0, <1>2, LenFacts
        <4>3. state[c] # "ready"
          <5>1. state[c] = "ready" => Len(requests[c]) + Len(replies[c]) = 0
            BY <4>1 DEF BeforeTime
          <5>2. \A m \in Nat \ {0}, k \in Nat : m + k # 0
            OBVIOUS
          <5>3. QED
            BY <4>2, <5>1, <5>2
        <4>4. QED
          BY <4>1, <4>2, <4>3
      <3>2. BeforeTime(c)'
        BY <1>1, <1>2, <1>4, <1>6, <3>1, TimeAssumption DEF BeforeTime
      <3>3. QED
        BY <1>1, <2>1, <3>2 DEF ClientInv
    <2>2. CASE call[c] # 1
      <3>1. /\ InOrder(c) /\ Resting(c) /\ printed[c][1] \in Nat
        BY <1>0, <2>2, PrintedFacts
      <3>2. n = 3 /\ call[c] = 3
        <4>1. requests[c][1] >= 2 /\ requests[c][1] <= call[c]
          BY <1>2, <3>1 DEF InOrder
        <4>2. call[c] \in 1..3
          BY <1>0 DEF Shape, Calls
        <4>3. QED
          BY <1>2, <1>3, <4>1, <4>2
      <3>3. InOrder(c)'
        BY <1>2, <3>1
      <3>4. state[c] = "over" \/ Rested(c)
        <4>1. \A i \in 1..Len(requests[c]) : i = 1 \/ (i \in Nat /\ 1 < i)
          BY <1>0, LenFacts
        <4>2. \A i \in 1..Len(requests[c]) :
                  1 < i => requests[c][1] < requests[c][i]
          BY <1>2, <3>1 DEF InOrder
        <4>3. \A i \in 1..Len(requests[c]) : requests[c][i] # 2
          <5>1. TAKE i \in 1..Len(requests[c])
          <5>2. requests[c][1] = 3
            BY <1>2, <3>2
          <5>3. CASE i = 1
            BY <5>2, <5>3
          <5>4. CASE 1 < i
            <6>1. requests[c][1] < requests[c][i]
              BY <4>2, <5>4
            <6>2. QED
              BY <5>2, <6>1
          <5>5. QED
            BY <4>1, <5>3, <5>4
        <4>4. QED
          BY <1>4, <3>1, <3>2, <4>3 DEF Resting
      <3>5. Resting(c)'
        <4>1. state[c] = "over" \/ Rested(c)'
          BY <1>1, <3>4 DEF Rested
        <4>2. \A i \in 1..Len(replies'[c]) :
                  replies'[c][i].call = 3 =>
                      replies'[c][i].result >= printed[c][1] + Delay
          <5>1. \A i \in 1..Len(replies[c]) :
                    replies[c][i].call = 3 =>
                        replies[c][i].result >= printed[c][1] + Delay
            BY <3>1 DEF Resting
          <5>2. CASE state[c] = "over" /\ replies'[c] = replies[c]
            BY <5>1, <5>2
          <5>3. CASE Rested(c)
            <6>1. tod >= printed[c][1] + Delay
              BY <5>3 DEF Rested
            <6>2. [call |-> n, result |-> tod].result = tod
              OBVIOUS
            <6>3. QED
              BY <1>6, <5>1, <6>1, <6>2
          <5>4. QED
            BY <1>6, <3>4, <5>2, <5>3
        <4>3. QED
          BY <1>1, <1>4, <3>1, <4>1, <4>2, TimeAssumption DEF Resting, Rested
      <3>6. QED
        BY <1>1, <2>2, <3>3, <3>5 DEF ClientInv
    <2>3. QED
      BY <2>1, <2>2
  <1>10. QED
    BY <1>7, <1>8, <1>9 DEF IndInv

\* A delay begins when the client has the time it is to rest from.
LEMMA BeginDelayInv ==
    ASSUME IndInv, NEW c \in Clients, Serve(c), IsDelay(Head(requests[c]))
    PROVE  IndInv'
  <1>0. Shape /\ ClientInv(c)
    BY DEF IndInv
  <1>1. /\ delayed = NULL /\ delayed' = c /\ start' = tod /\ tod' = tod
        /\ requests[c] # <<>>
        /\ requests' = [requests EXCEPT ![c] = Tail(requests[c])]
        /\ UNCHANGED <<up, reset, replies, call, state, printed>>
    BY DEF Serve, client
  <1>2. /\ requests' \in [Clients -> Seq(Calls)]
        /\ 1 \in 1..Len(requests[c]) /\ Head(requests[c]) = requests[c][1]
        /\ InOrder(c) => InOrder(c)'
    BY <1>0, <1>1, TakeRequest
  <1>4. Shape'
    BY <1>0, <1>1, <1>2 DEF Shape
  <1>5. \A d \in Clients \ {c} : ClientInv(d)'
    <2>1. \A d \in Clients \ {c} :
                /\ requests'[d] = requests[d] /\ replies'[d] = replies[d]
                /\ printed'[d] = printed[d]
                /\ call'[d] = call[d] /\ state'[d] = state[d]
                /\ delayed' = d <=> delayed = d
                /\ delayed = d => start' = start
      BY <1>0, <1>1, TimeAssumption DEF Shape
    <2>2. QED
      BY <1>1, <2>1, Others
  <1>6. ClientInv(c)'
    <2>1. requests[c][1] = 2
      BY <1>2 DEF IsDelay
    <2>2. call[c] # 1
      <3>1. BeforeTime(c) => requests[c][1] = 1
        BY <1>2 DEF BeforeTime
      <3>2. QED
        BY <1>0, <2>1, <3>1 DEF ClientInv
    <2>3. InOrder(c) /\ Resting(c) /\ printed[c][1] \in 0..tod /\ tod \in Nat
      BY <1>0, <2>2, PrintedFacts DEF Shape
    <2>4. InOrder(c)'
      BY <1>2, <2>3
    <2>5. Resting(c)'
      BY <1>1, <2>3 DEF Resting
    <2>6. QED
      BY <1>1, <2>2, <2>4, <2>5 DEF ClientInv
  <1>7. QED
    BY <1>4, <1>5, <1>6 DEF IndInv

\* A delay ends when its client has rested.
LEMMA EndDelayInv ==
    ASSUME IndInv, EndDelay
    PROVE  IndInv'
  <1>1. PICK c \in Clients : c = delayed
    BY DEF EndDelay, IndInv, Shape
  <1>0. Shape /\ ClientInv(c)
    BY DEF IndInv
  <1>2. /\ tod - start >= Delay /\ Reply(c, 2, 0)
        /\ delayed' = NULL /\ start' = 0 /\ tod' = tod
        /\ UNCHANGED <<requests, call, state, printed>>
    BY <1>1 DEF EndDelay, Elapsed, client
  <1>3. 0 \in 0..tod /\ 2 \in Calls
    BY <1>0 DEF Shape, Calls
  <1>4. /\ up' \in BOOLEAN /\ reset' \subseteq Clients
        /\ replies' \in [Clients -> Seq(Answers)]
        /\ \A d \in Clients \ {c} : replies'[d] = replies[d]
        /\ \A d \in Clients :
               \A i \in 1..Len(replies'[d]) : replies'[d][i].result \in 0..tod
        /\ \/ state[c] = "over" /\ replies'[c] = replies[c]
           \/ \A i \in 1..Len(replies'[c]) :
                     \/ i \in 1..Len(replies[c]) /\ replies'[c][i] = replies[c][i]
                     \/ replies'[c][i] = [call |-> 2, result |-> 0]
    BY <1>0, <1>2, <1>3, ReplyFacts
  <1>5. Shape'
    BY <1>0, <1>2, <1>3, <1>4, TimeAssumption DEF Shape
  <1>6. \A d \in Clients \ {c} : ClientInv(d)'
    <2>1. \A d \in Clients \ {c} :
                /\ requests'[d] = requests[d] /\ replies'[d] = replies[d]
                /\ printed'[d] = printed[d]
                /\ call'[d] = call[d] /\ state'[d] = state[d]
                /\ delayed' = d <=> delayed = d
                /\ delayed = d => start' = start
      BY <1>0, <1>1, <1>2, <1>4, TimeAssumption DEF Shape
    <2>2. QED
      BY <1>2, <2>1, Others
  <1>7. ClientInv(c)'
    <2>1. call[c] # 1
      BY <1>0, <1>1 DEF ClientInv, BeforeTime
    <2>2. InOrder(c) /\ Resting(c) /\ printed[c][1] \in Nat
      BY <1>0, <2>1, PrintedFacts
    <2>3. InOrder(c)'
      BY <1>2, <2>2 DEF InOrder
    <2>4. Rested(c)'
      BY <1>0, <1>1, <1>2, <2>2, TimeAssumption DEF Resting, Rested, Shape
    <2>5. \A i \in 1..Len(replies'[c]) :
              replies'[c][i].call = 3 =>
                  replies'[c][i].result >= printed[c][1] + Delay
      <3>1. \A i \in 1..Len(replies[c]) :
                replies[c][i].call = 3 =>
                    replies[c][i].result >= printed[c][1] + Delay
        BY <2>2 DEF Resting
      <3>2. [call |-> 2, result |-> 0].call # 3
        OBVIOUS
      <3>3. QED
        BY <1>4, <3>1, <3>2
    <2>6. Resting(c)'
      BY <1>1, <1>2, <2>2, <2>4, <2>5, TimeAssumption DEF Resting
    <2>7. QED
      BY <1>2, <2>1, <2>3, <2>6 DEF ClientInv
  <1>8. QED
    BY <1>5, <1>6, <1>7 DEF IndInv

LEMMA ForgetInv ==
    ASSUME IndInv, NEW c \in Clients, Forget(c)
    PROVE  IndInv'
  <1>0. Shape /\ ClientInv(c)
    BY DEF IndInv
  <1>1. /\ state[c] = "over" /\ requests' = [requests EXCEPT ![c] = <<>>]
        /\ tod' = tod
        /\ UNCHANGED <<up, delayed, start, reset, replies, call, state, printed>>
    BY DEF Forget, server, client
  <1>2. <<>> \in Seq(Calls) /\ Len(<<>>) = 0
    BY EmptySeq
  <1>3. Shape'
    BY <1>0, <1>1, <1>2 DEF Shape
  <1>4. \A d \in Clients \ {c} : ClientInv(d)'
    <2>1. \A d \in Clients \ {c} :
                /\ requests'[d] = requests[d] /\ replies'[d] = replies[d]
                /\ printed'[d] = printed[d]
                /\ call'[d] = call[d] /\ state'[d] = state[d]
                /\ delayed' = d <=> delayed = d
                /\ delayed = d => start' = start
      BY <1>0, <1>1 DEF Shape
    <2>2. QED
      BY <1>1, <2>1, Others
  <1>5. ClientInv(c)'
    <2>1. requests'[c] = <<>>
      BY <1>0, <1>1 DEF Shape
    <2>2. CASE call[c] = 1
      <3>1. /\ BeforeTime(c) /\ Len(requests[c]) \in Nat
            /\ Len(replies[c]) \in Nat
        BY <1>0, <2>2, LenFacts DEF ClientInv
      <3>2. BeforeTime(c)'
        <4>1. Len(requests'[c]) = 0 /\ Len(replies'[c]) = Len(replies[c])
          BY <1>1, <1>2, <2>1
        <4>2. Len(requests[c]) + Len(replies[c]) <= 1
          BY <3>1 DEF BeforeTime
        <4>3. Len(requests'[c]) + Len(replies'[c]) <= 1
          <5>1. \A m, k \in Nat : m + k <= 1 => 0 + k <= 1
            OBVIOUS
          <5>2. QED
            BY <3>1, <4>1, <4>2, <5>1
        <4>4. printed[c] = <<>> /\ delayed # c
          BY <3>1 DEF BeforeTime
        <4>5. \A i \in 1..Len(requests'[c]) : FALSE
          BY <4>1
        <4>6. QED
          BY <1>1, <4>3, <4>4, <4>5 DEF BeforeTime
      <3>3. QED
        BY <1>1, <2>2, <3>2 DEF ClientInv
    <2>3. CASE call[c] # 1
      BY <1>0, <1>1, <1>2, <2>1, <2>3 DEF ClientInv, InOrder, Resting, Rested
    <2>4. QED
      BY <2>2, <2>3
  <1>6. QED
    BY <1>3, <1>4, <1>5 DEF IndInv

\* A step of the client of c leaves what is known of the others.
LEMMA ClientStep ==
    ASSUME IndInv, NEW c \in Clients, UNCHANGED <<tod, delayed, start>>,
           \A d \in Clients \ {c} :
               /\ requests'[d] = requests[d] /\ replies'[d] = replies[d]
               /\ printed'[d] = printed[d]
               /\ call'[d] = call[d] /\ state'[d] = state[d]
    PROVE  \A d \in Clients \ {c} : ClientInv(d)'
  BY Others

\* The calls of a client are made one after the other.
LEMMA CallInv ==
    ASSUME IndInv, NEW c \in Clients, Call(c)
    PROVE  IndInv'
  <1>0. Shape /\ ClientInv(c)
    BY DEF IndInv
  <1>1. /\ state[c] = "ready"
        /\ requests' = [requests EXCEPT ![c] = Append(requests[c], call[c])]
        /\ state' = [state EXCEPT ![c] = "waiting"]
        /\ UNCHANGED <<tod, up, delayed, start, reset, replies, call, printed>>
    BY DEF Call, server
  <1>2. call[c] \in Calls /\ requests[c] \in Seq(Calls)
    BY <1>0 DEF Shape
  <1>3. /\ Append(requests[c], call[c]) \in Seq(Calls)
        /\ Len(requests[c]) \in Nat
        /\ Len(Append(requests[c], call[c])) = Len(requests[c]) + 1
        /\ \A i \in 1..Len(requests[c]) :
               Append(requests[c], call[c])[i] = requests[c][i]
        /\ Append(requests[c], call[c])[Len(requests[c]) + 1] = call[c]
    BY <1>2, AppendFacts
  <1>4. requests'[c] = Append(requests[c], call[c]) /\ state'[c] = "waiting"
    BY <1>0, <1>1 DEF Shape
  <1> DEFINE m == Len(requests[c])
  <1>5. /\ m \in Nat /\ Len(requests'[c]) = m + 1
        /\ \A i \in 1..m : requests'[c][i] = requests[c][i]
        /\ requests'[c][m + 1] = call[c]
    BY <1>3, <1>4
  <1>6. Shape'
    BY <1>0, <1>1, <1>3 DEF Shape
  <1>7. \A d \in Clients \ {c} : ClientInv(d)'
    <2>1. \A d \in Clients \ {c} :
              requests'[d] = requests[d] /\ state'[d] = state[d]
      BY <1>0, <1>1 DEF Shape
    <2>2. QED
      BY <1>1, <2>1, ClientStep
  <1>8. \A i \in 1..(m + 1) : i \in 1..m \/ i = m + 1
    BY <1>5
  <1>9. ClientInv(c)'
    <2>1. CASE call[c] = 1
      <3>1. BeforeTime(c)
        BY <1>0, <2>1 DEF ClientInv
      <3>2. m + Len(replies[c]) = 0 /\ Len(replies[c]) \in Nat
        BY <1>0, <1>1, <3>1, LenFacts DEF BeforeTime
      <3>3. m = 0 /\ Len(replies[c]) = 0
        <4>1. \A j, k \in Nat : j + k = 0 => j = 0 /\ k = 0
          OBVIOUS
        <4>2. QED
          BY <1>5, <3>2, <4>1
      <3>4. printed[c] = <<>> /\ delayed # c
        BY <3>1 DEF BeforeTime
      <3> HIDE DEF m
      <3>5. \A i \in 1..Len(requests'[c]) : requests'[c][i] = 1
        BY <1>5, <2>1, <3>3
      <3>6. Len(requests'[c]) + Len(replies'[c]) <= 1
        <4>1. Len(requests'[c]) = 1
          BY <1>5, <3>3
        <4>2. Len(replies'[c]) = 0
          BY <1>1, <3>3
        <4>3. QED
          BY <4>1, <4>2
      <3>7. BeforeTime(c)'
        BY <1>1, <1>4, <3>4, <3>5, <3>6 DEF BeforeTime
      <3>8. QED
        BY <1>1, <2>1, <3>7 DEF ClientInv
    <2>2. CASE call[c] # 1
      <3>1. InOrder(c) /\ Resting(c) /\ call[c] \in Nat /\ call[c] >= 2
        BY <1>0, <1>2, <2>2, PrintedFacts DEF Calls
      <3>2. \A i \in 1..m : requests[c][i] >= 2 /\ requests[c][i] < call[c]
        BY <1>1, <3>1 DEF InOrder
      <3>3. \A i, j \in 1..m : i < j => requests[c][i] < requests[c][j]
        BY <3>1 DEF InOrder
      <3>4. \A i \in 1..m : requests[c][i] \in Nat
        BY <1>0, LenFacts DEF Calls
      <3>5. Len(printed[c]) = 1
        BY <1>1, <3>1 DEF InOrder
      <3> HIDE DEF m
      <3>6. \A i \in 1..(m + 1) : requests'[c][i] >= 2 /\ requests'[c][i] <= call[c]
        BY <1>5, <1>8, <3>1, <3>2, <3>4
      <3>7. \A i, j \in 1..(m + 1) : i < j => requests'[c][i] < requests'[c][j]
        <4>1. \A i, j \in 1..(m + 1) :
                  i < j => i \in 1..m /\ (j \in 1..m \/ j = m + 1)
          BY <1>5
        <4>2. QED
          BY <1>5, <3>2, <3>3, <4>1
      <3>8. InOrder(c)'
        BY <1>1, <1>4, <1>5, <3>5, <3>6, <3>7 DEF InOrder
      <3>9. \/ \E i \in 1..Len(requests'[c]) : requests'[c][i] = 2
            \/ delayed = c \/ Rested(c)
        <4>1. CASE call[c] = 2
          <5>1. m + 1 \in 1..Len(requests'[c])
            BY <1>5
          <5>2. QED
            BY <1>5, <4>1, <5>1
        <4>2. CASE \E i \in 1..m : requests[c][i] = 2
          <5>1. 1..m \subseteq 1..Len(requests'[c])
            BY <1>5
          <5>2. QED
            BY <1>5, <4>2, <5>1
        <4>3. CASE delayed = c \/ Rested(c)
          BY <4>3
        <4>4. QED
          BY <1>1, <3>1, <4>1, <4>2, <4>3 DEF Resting, m
      <3>10. Resting(c)'
        BY <1>1, <3>1, <3>5, <3>9 DEF Resting, Rested
      <3>11. QED
        BY <1>1, <2>2, <3>8, <3>10 DEF ClientInv
    <2>3. QED
      BY <2>1, <2>2
  <1>10. QED
    BY <1>6, <1>7, <1>9 DEF IndInv

\* A client that goes on from its delay, with or without the answer, has the
\* delay still before the time it asks for next.
LEMMA GoOn ==
    ASSUME Shape, NEW c \in Clients, ClientInv(c),
           call[c] = 2, state[c] = "waiting",
           call'[c] = 3, state'[c] = "ready",
           UNCHANGED <<tod, delayed, start, requests, printed>>,
           \A i \in 1..Len(replies'[c]) :
               \E j \in 1..Len(replies[c]) : replies'[c][i] = replies[c][j]
    PROVE  ClientInv(c)'
  <1>1. InOrder(c) /\ Resting(c)
    BY PrintedFacts
  <1>2. \A i \in 1..Len(requests[c]) : requests[c][i] \in Nat /\ requests[c][i] <= 2
    BY <1>1, LenFacts DEF InOrder, Calls
  <1>3. \A i \in 1..Len(requests[c]) : requests[c][i] <= 3 /\ requests[c][i] < 3
    BY <1>2
  <1>4. InOrder(c)'
    BY <1>1, <1>3 DEF InOrder
  <1>5. Resting(c)'
    BY <1>1 DEF Resting, Rested
  <1>6. QED
    BY <1>4, <1>5 DEF ClientInv

\* A client that gives up has nothing new to print.
LEMMA FailInv ==
    ASSUME IndInv, NEW c \in Clients, Fail(c)
    PROVE  IndInv'
  <1>0. Shape /\ ClientInv(c)
    BY DEF IndInv
  <1>1. /\ state[c] = "waiting"
        /\ UNCHANGED <<tod, up, delayed, start, reset, requests, replies, printed>>
    BY DEF Fail, server
  <1>2. \/ /\ call[c] = 2
           /\ call' = [call EXCEPT ![c] = 3] /\ state' = [state EXCEPT ![c] = "ready"]
        \/ /\ call[c] # 2
           /\ call' = call /\ state' = [state EXCEPT ![c] = "over"]
    BY DEF Fail, Proceed, IsDelay
  <1>3. Shape'
    <2>1. call' \in [Clients -> Calls]
      <3>1. 3 \in Calls /\ call \in [Clients -> Calls]
        BY <1>0 DEF Shape, Calls
      <3>2. QED
        BY <1>2, <3>1
    <2>2. state' \in [Clients -> {"ready", "waiting", "over"}]
      BY <1>0, <1>2 DEF Shape
    <2>3. QED
      BY <1>0, <1>1, <2>1, <2>2 DEF Shape
  <1>4. \A d \in Clients \ {c} : ClientInv(d)'
    <2>1. \A d \in Clients \ {c} : call'[d] = call[d] /\ state'[d] = state[d]
      BY <1>0, <1>2 DEF Shape
    <2>2. QED
      BY <1>1, <2>1, ClientStep
  <1>5. ClientInv(c)'
    <2>1. CASE call[c] = 2
      <3>1. call'[c] = 3 /\ state'[c] = "ready"
        BY <1>0, <1>2, <2>1 DEF Shape
      <3>2. QED
        BY <1>0, <1>1, <2>1, <3>1, GoOn
    <2>2. CASE call[c] # 2
      <3>1. call'[c] = call[c] /\ state'[c] = "over"
        BY <1>0, <1>2, <2>2 DEF Shape
      <3>2. CASE call[c] = 1
        BY <1>0, <1>1, <3>1, <3>2 DEF ClientInv, BeforeTime
      <3>3. CASE call[c] # 1
        <4>1. InOrder(c) /\ Resting(c)
          BY <1>0, <3>3, PrintedFacts
        <4>2. InOrder(c)'
          BY <1>1, <3>1, <4>1 DEF InOrder
        <4>3. Resting(c)'
          BY <1>1, <3>1, <4>1 DEF Resting, Rested
        <4>4. QED
          BY <3>1, <3>3, <4>2, <4>3 DEF ClientInv
      <3>4. QED
        BY <3>2, <3>3
    <2>3. QED
      BY <2>1, <2>2
  <1>6. QED
    BY <1>3, <1>4, <1>5 DEF IndInv

\* An answer that is read is one that was sent: a time that is told after the
\* delay is late enough.
LEMMA ReceiveInv ==
    ASSUME IndInv, NEW c \in Clients, Receive(c)
    PROVE  IndInv'
  <1>0. Shape /\ ClientInv(c)
    BY DEF IndInv
  <1> DEFINE reply == Head(replies[c])
  <1>1. /\ state[c] = "waiting" /\ replies[c] # <<>>
        /\ replies' = [replies EXCEPT ![c] = Tail(replies[c])]
        /\ UNCHANGED <<tod, up, delayed, start, reset, requests>>
    BY DEF Receive, server
  <1>2. /\ Tail(replies[c]) \in Seq(Answers) /\ Len(replies[c]) \in Nat \ {0}
        /\ Len(Tail(replies[c])) = Len(replies[c]) - 1
        /\ reply = replies[c][1] /\ replies[c][1] \in Answers
        /\ \A i \in 1..Len(Tail(replies[c])) :
               /\ i + 1 \in 1..Len(replies[c])
               /\ Tail(replies[c])[i] = replies[c][i + 1]
    <2>1. replies[c] \in Seq(Answers)
      BY <1>0 DEF Shape
    <2>2. QED
      BY <1>1, <2>1, TailFacts
  <1>3. replies'[c] = Tail(replies[c])
    BY <1>0, <1>1 DEF Shape
  <1>4. \A i \in 1..Len(replies'[c]) :
            \E j \in 1..Len(replies[c]) : replies'[c][i] = replies[c][j]
    BY <1>2, <1>3
  <1>5. 1 \in 1..Len(replies[c])
    BY <1>2
  <1>6. reply.result \in 0..tod /\ reply.result \in Nat
    BY <1>0, <1>2, <1>5 DEF Shape
  <1> HIDE DEF reply
  <1>7. /\ replies' \in [Clients -> Seq(Answers)]
        /\ \A d \in Clients : \A i \in 1..Len(replies'[d]) :
               replies'[d][i].result \in 0..tod
        /\ \A d \in Clients \ {c} : replies'[d] = replies[d]
    <2>1. replies' \in [Clients -> Seq(Answers)]
      BY <1>0, <1>1, <1>2 DEF Shape
    <2>2. \A d \in Clients \ {c} : replies'[d] = replies[d]
      BY <1>0, <1>1 DEF Shape
    <2>3. \A d \in Clients : \A j \in 1..Len(replies[d]) :
              replies[d][j].result \in 0..tod
      BY <1>0 DEF Shape
    <2>4. \A i \in 1..Len(replies'[c]) : replies'[c][i].result \in 0..tod
      BY <1>4, <2>3
    <2>5. QED
      BY <2>1, <2>2, <2>3, <2>4
  <1>8. CASE UNCHANGED <<call, state, printed>>
    <2>1. Shape'
      BY <1>0, <1>1, <1>7, <1>8 DEF Shape
    <2>2. \A d \in Clients \ {c} : ClientInv(d)'
      BY <1>1, <1>7, <1>8, ClientStep
    <2>3. ClientInv(c)'
      <3>1. CASE call[c] = 1
        <4>1. BeforeTime(c)
          BY <1>0, <3>1 DEF ClientInv
        <4>2. Len(requests[c]) + Len(replies[c]) <= 1
          BY <4>1 DEF BeforeTime
        <4>3. \A m \in Nat, k \in Nat \ {0} : m + k <= 1 => m + (k - 1) <= 1
          OBVIOUS
        <4>4. Len(requests'[c]) + Len(replies'[c]) <= 1
          BY <1>0, <1>1, <1>2, <1>3, <4>2, <4>3, LenFacts
        <4>5. BeforeTime(c)'
          BY <1>1, <1>8, <4>1, <4>4 DEF BeforeTime
        <4>6. QED
          BY <1>8, <3>1, <4>5 DEF ClientInv
      <3>2. CASE call[c] # 1
        <4>1. InOrder(c) /\ Resting(c)
          BY <1>0, <3>2, PrintedFacts
        <4>2. InOrder(c)'
          BY <1>1, <1>8, <4>1 DEF InOrder
        <4>3. Resting(c)'
          BY <1>1, <1>4, <1>8, <4>1 DEF Resting, Rested
        <4>4. QED
          BY <1>8, <3>2, <4>2, <4>3 DEF ClientInv
      <3>3. QED
        BY <3>1, <3>2
    <2>4. QED
      BY <2>1, <2>2, <2>3 DEF IndInv
  <1>9. CASE /\ reply.call = call[c]
             /\ printed' = IF IsDelay(call[c]) THEN printed
                           ELSE [printed EXCEPT ![c] = Append(@, reply.result)]
             /\ Proceed(c)
    <2>1. /\ call' = [call EXCEPT ![c] = IF call[c] = 3 THEN 3 ELSE call[c] + 1]
          /\ state' = [state EXCEPT ![c] = IF call[c] = 3 THEN "over" ELSE "ready"]
      BY <1>9 DEF Proceed
    <2>2. call[c] \in {1, 2, 3} /\ printed[c] \in Seq(Nat)
      BY <1>0 DEF Shape, Calls
    <2>3. /\ Append(printed[c], reply.result) \in Seq(Nat)
          /\ Len(printed[c]) \in Nat
          /\ Len(Append(printed[c], reply.result)) = Len(printed[c]) + 1
          /\ \A i \in 1..Len(printed[c]) :
                 Append(printed[c], reply.result)[i] = printed[c][i]
          /\ Append(printed[c], reply.result)[Len(printed[c]) + 1] = reply.result
      BY <1>6, <2>2, AppendFacts
    <2>4. /\ call' \in [Clients -> Calls]
          /\ state' \in [Clients -> {"ready", "waiting", "over"}]
          /\ \A d \in Clients \ {c} : call'[d] = call[d] /\ state'[d] = state[d]
      BY <1>0, <2>1, <2>2 DEF Shape, Calls
    <2>5. /\ call'[c] = IF call[c] = 3 THEN 3 ELSE call[c] + 1
          /\ state'[c] = IF call[c] = 3 THEN "over" ELSE "ready"
      BY <1>0, <2>1 DEF Shape
    <2>6. /\ printed' \in [Clients -> Seq(Nat)]
          /\ \A d \in Clients \ {c} : printed'[d] = printed[d]
          /\ printed'[c] = IF call[c] = 2 THEN printed[c]
                           ELSE Append(printed[c], reply.result)
      BY <1>0, <1>9, <2>3 DEF Shape, IsDelay
    <2>7. \A d \in Clients : \A i \in 1..Len(printed'[d]) : printed'[d][i] \in 0..tod
      <3>1. \A d \in Clients : \A i \in 1..Len(printed[d]) : printed[d][i] \in 0..tod
        BY <1>0 DEF Shape
      <3>2. \A i \in 1..(Len(printed[c]) + 1) :
                i \in 1..Len(printed[c]) \/ i = Len(printed[c]) + 1
        BY <2>3
      <3>3. \A i \in 1..Len(printed'[c]) : printed'[c][i] \in 0..tod
        BY <1>6, <2>3, <2>6, <3>1, <3>2
      <3>4. QED
        BY <2>6, <3>1, <3>3
    <2>8. Shape'
      BY <1>0, <1>1, <1>7, <2>4, <2>6, <2>7 DEF Shape
    <2>9. \A d \in Clients \ {c} : ClientInv(d)'
      BY <1>1, <1>7, <2>4, <2>6, ClientStep
    <2>10. ClientInv(c)'
      <3>1. CASE call[c] = 1
        <4>1. BeforeTime(c)
          BY <1>0, <3>1 DEF ClientInv
        <4>2. Len(requests[c]) + Len(replies[c]) <= 1
          BY <4>1 DEF BeforeTime
        <4>3. \A m \in Nat, k \in Nat \ {0} : m + k <= 1 => m = 0 /\ k = 1
          OBVIOUS
        <4>4. Len(requests[c]) = 0 /\ Len(replies[c]) = 1
          BY <1>0, <1>2, <4>2, <4>3, LenFacts
        <4>5. Len(requests'[c]) = 0 /\ Len(replies'[c]) = 0
          <5>1. requests'[c] = requests[c]
            BY <1>1
          <5>2. Len(Tail(replies[c])) = Len(replies[c]) - 1
            BY <1>2
          <5>3. QED
            BY <1>3, <4>4, <5>1, <5>2
        <4>6. printed[c] = <<>> /\ delayed # c
          BY <4>1 DEF BeforeTime
        <4>7. Len(printed'[c]) = 1
          BY <2>3, <2>6, <3>1, <4>6, EmptySeq
        <4>8. call'[c] = 2 /\ state'[c] = "ready"
          BY <2>5, <3>1
        <4>9. InOrder(c)'
          BY <4>5, <4>7 DEF InOrder
        <4>10. Resting(c)'
          BY <1>1, <4>5, <4>6, <4>7, <4>8 DEF Resting
        <4>11. QED
          BY <4>8, <4>9, <4>10 DEF ClientInv
      <3>2. CASE call[c] = 2
        <4>1. call'[c] = 3 /\ state'[c] = "ready" /\ printed' = printed
          BY <1>9, <2>5, <3>2 DEF IsDelay
        <4>2. QED
          BY <1>0, <1>1, <1>4, <3>2, <4>1, GoOn
      <3>3. CASE call[c] = 3
        <4>1. InOrder(c) /\ Resting(c) /\ printed[c][1] \in Nat
          BY <1>0, <3>3, PrintedFacts
        <4>2. call'[c] = 3 /\ state'[c] = "over"
          BY <2>5, <3>3
        <4>3. Len(printed[c]) = 1
          BY <1>1, <4>1 DEF InOrder
        <4>4. printed'[c] = Append(printed[c], reply.result)
          BY <2>6, <3>3
        <4>5. /\ Len(printed'[c]) = 2 /\ printed'[c][1] = printed[c][1]
              /\ printed'[c][2] = reply.result
          BY <2>3, <4>3, <4>4
        <4>6. reply.result >= printed[c][1] + Delay
          BY <1>2, <1>5, <1>9, <3>3, <4>1 DEF Resting
        <4>7. InOrder(c)'
          BY <1>1, <3>3, <4>1, <4>2, <4>5 DEF InOrder
        <4>8. \A i \in 1..Len(replies'[c]) :
                  replies'[c][i].call = 3 =>
                      replies'[c][i].result >= printed[c][1] + Delay
          BY <1>4, <4>1 DEF Resting
        <4>9. delayed = c => start >= printed[c][1]
          BY <4>1 DEF Resting
        <4>10. Resting(c)'
          BY <1>1, <4>2, <4>5, <4>6, <4>8, <4>9 DEF Resting
        <4>11. QED
          BY <4>2, <4>7, <4>10 DEF ClientInv
      <3>4. QED
        BY <2>2, <3>1, <3>2, <3>3
    <2>11. QED
      BY <2>8, <2>9, <2>10 DEF IndInv
  <1>10. QED
    BY <1>8, <1>9 DEF Receive, client, reply
-----------------------------------------------------------------------------
\* Every step keeps the invariant.
LEMMA NextInv == IndInv /\ [Next]_vars => IndInv'
  <1> SUFFICES ASSUME IndInv, [Next]_vars PROVE IndInv'
    OBVIOUS
  <1>1. CASE Tick
    BY <1>1, TickInv
  <1>2. CASE EndDelay
    BY <1>2, EndDelayInv
  <1>3. ASSUME NEW c \in Clients, Serve(c) PROVE IndInv'
    BY <1>3, TellTimeInv, BeginDelayInv
  <1>4. ASSUME NEW c \in Clients, Forget(c) \/ Call(c) \/ Receive(c) \/ Fail(c)
        PROVE  IndInv'
    BY <1>4, ForgetInv, CallInv, ReceiveInv, FailInv
  <1>5. CASE UNCHANGED vars
    BY <1>5 DEF vars, server, client, IndInv, Shape, ClientInv, BeforeTime,
                InOrder, Resting, Rested
  <1>6. QED
    BY <1>1, <1>2, <1>3, <1>4, <1>5 DEF Next, ServerStep, Idle

\* In every reachable state the calls of a client are served in their order, and
\* an answer to its last call is from a time when its delay has been spun off.
THEOREM Invariant == Spec => []IndInv
  BY InitInv, NextInv, PTL DEF Spec

\* A client that has printed twice has printed times a delay apart, for any
\* number of clients, any delay, and any calls that time out on the way.
THEOREM RestKept == Spec => []DelayKept
  <1>1. IndInv => TypeOK
    <2> SUFFICES ASSUME IndInv PROVE TypeOK
      OBVIOUS
    <2>1. Shape
      BY DEF IndInv
    <2>2. \A c \in Clients : requests[c] \in Seq(Calls)
      BY <2>1 DEF Shape
    <2>3. \A c \in Clients : replies[c] \in Seq([call : Calls, result : 0..tod])
      <3> SUFFICES ASSUME NEW c \in Clients
                   PROVE  replies[c] \in Seq([call : Calls, result : 0..tod])
        OBVIOUS
      <3>1. /\ replies[c] \in Seq(Answers)
            /\ \A i \in 1..Len(replies[c]) : replies[c][i].result \in 0..tod
        BY <2>1 DEF Shape
      <3>2. \A i \in 1..Len(replies[c]) :
                replies[c][i] \in [call : Calls, result : 0..tod]
        BY <2>1, <3>1, LenFacts DEF Answers
      <3>3. QED
        BY <3>1, <3>2, InSmaller
    <2>4. \A c \in Clients : printed[c] \in Seq(0..tod) /\ Len(printed[c]) <= 2
      <3> SUFFICES ASSUME NEW c \in Clients
                   PROVE  printed[c] \in Seq(0..tod) /\ Len(printed[c]) <= 2
        OBVIOUS
      <3>1. /\ printed[c] \in Seq(Nat)
            /\ \A i \in 1..Len(printed[c]) : printed[c][i] \in 0..tod
        BY <2>1 DEF Shape
      <3>2. Len(printed[c]) \in {0, 1, 2}
        <4>1. ClientInv(c) /\ Len(<<>>) = 0
          BY EmptySeq DEF IndInv
        <4>2. CASE call[c] = 1
          BY <4>1, <4>2 DEF ClientInv, BeforeTime
        <4>3. CASE call[c] # 1
          <5>1. InOrder(c)
            BY <2>1, <4>1, <4>3, PrintedFacts
          <5>2. QED
            BY <5>1 DEF InOrder
        <4>4. QED
          BY <4>2, <4>3
      <3>3. QED
        <4>1. printed[c] \in Seq(0..tod)
          BY <3>1, InSmaller
        <4>2. \A k \in {0, 1, 2} : k <= 2
          OBVIOUS
        <4>3. Len(printed[c]) <= 2
          BY <3>2, <4>2
        <4>4. QED
          BY <4>1, <4>3, Zenon
    <2>5. up \in BOOLEAN /\ tod \in Nat /\ delayed \in Clients \cup {NULL}
      BY <2>1 DEF Shape
    <2>6. start \in 0..tod
      BY <2>1 DEF Shape
    <2>7. /\ reset \subseteq Clients /\ call \in [Clients -> Calls]
          /\ state \in [Clients -> {"ready", "waiting", "over"}]
      BY <2>1 DEF Shape
    <2>8. QED
      BY <2>2, <2>3, <2>4, <2>5, <2>6, <2>7, Zenon DEF TypeOK
  <1>2. IndInv => DelayKept
    <2> SUFFICES ASSUME IndInv, NEW c \in Clients, Len(printed[c]) = 2
                 PROVE  printed[c][2] - printed[c][1] >= Delay
      BY <1>1 DEF DelayKept
    <2>1. Shape /\ ClientInv(c)
      BY DEF IndInv
    <2>2. call[c] # 1
      <3>1. Len(<<>>) = 0
        BY EmptySeq
      <3>2. BeforeTime(c) => Len(printed[c]) = 0
        BY <3>1 DEF BeforeTime
      <3>3. QED
        BY <2>1, <3>2 DEF ClientInv
    <2>3. printed[c][2] >= printed[c][1] + Delay /\ printed[c][1] \in Nat
      BY <2>1, <2>2, PrintedFacts DEF Resting
    <2>4. 2 \in 1..Len(printed[c])
      OBVIOUS
    <2>5. printed[c][2] \in Nat
      <3>1. printed[c][2] \in 0..tod /\ tod \in Nat
        BY <2>1, <2>4 DEF Shape
      <3>2. QED
        BY <3>1
    <2>6. QED
      BY <2>3, <2>5, TimeAssumption
  <1>3. QED
    BY Invariant, <1>2, PTL
=============================================================================
