----------------------------- MODULE TimeService -----------------------------
(***************************************************************************)
(* assignment-2/p1: a server that tells its time and delays its callers,   *)
(* over ONC RPC on TCP.                                                    *)
(*                                                                         *)
(* A timer counts tod up.  The server serves one request at a time, and    *)
(* spins in a delay until tod is far enough.  A client asks for the time,  *)
(* for a delay, and for the time again.  It waits 25 seconds for each      *)
(* answer: a call may fail at any moment, its answer may still come.  A    *)
(* delay that fails is only reported; after a get_time that fails the      *)
(* client follows a null pointer and ends.                                 *)
(***************************************************************************)
EXTENDS Integers, Sequences

CONSTANTS
    Clients,
    Delay,          \* delay_time, the same for every client
    IdleTicks,      \* a bound: while nobody is delayed tod stays below it
    NULL

ASSUME TimeAssumption ==
    Delay \in Nat /\ IdleTicks \in Nat /\ NULL \notin Clients

VARIABLES
    up,         \* the server runs
    tod,        \* the ticks of the timer
    delayed,    \* the client in whose delay the server spins, or NULL
    start,      \* start_tod of that delay
    requests,   \* calls sent and not yet served, per connection
    replies,    \* answers sent and not yet read, per connection
    reset,      \* connections on which an answer has come back undelivered
    call,       \* which of its calls a client makes: 1, 2 or 3
    state,      \* ready to call, waiting for the answer, or over
    printed     \* the times a client has printed

server == <<up, delayed, start, reset>>
client == <<call, state, printed>>
vars   == <<tod, server, requests, replies, client>>

Calls == 1..3
IsDelay(n) == n = 2

Init ==
    /\ up = TRUE /\ tod = 0
    /\ delayed = NULL /\ start = 0
    /\ requests = [c \in Clients |-> <<>>]
    /\ replies = [c \in Clients |-> <<>>]
    /\ reset = {}
    /\ call = [c \in Clients |-> 1]
    /\ state = [c \in Clients |-> "ready"]
    /\ printed = [c \in Clients |-> <<>>]
-----------------------------------------------------------------------------
\* timer_handler.  The guard that follows "up" bounds the ticks: it leaves out
\* those that nobody would notice.
Tick ==
    /\ up
    /\ IF delayed = NULL THEN tod < IdleTicks ELSE tod - start <= Delay
    /\ tod' = tod + 1
    /\ UNCHANGED <<server, requests, replies, client>>

\* svc_sendreply.  The first answer to a client that is gone comes back as a
\* reset; another one on that connection may then end the server (SIGPIPE).
Reply(c, n, result) ==
    \/ /\ state[c] # "over"
       /\ replies' = [replies EXCEPT ![c] = Append(@, [call |-> n, result |-> result])]
       /\ UNCHANGED <<up, reset>>
    \/ /\ state[c] = "over"
       /\ reset' = reset \cup {c}
       /\ up' \in {TRUE, c \notin reset}
       /\ UNCHANGED replies

\* time_prog_1 of the server with get_time_1_svc or the beginning of
\* timer_delay, on a request of any client.
Serve(c) ==
    /\ up /\ delayed = NULL
    /\ requests[c] # <<>>
    /\ requests' = [requests EXCEPT ![c] = Tail(@)]
    /\ LET n == Head(requests[c])
       IN  \/ /\ ~IsDelay(n)
              /\ Reply(c, n, tod)
              /\ UNCHANGED <<delayed, start>>
           \/ /\ IsDelay(n)
              /\ delayed' = c /\ start' = tod
              /\ UNCHANGED <<up, reset, replies>>
    /\ UNCHANGED <<tod, client>>

\* Mutants of Elapsed: the delay is a tick short, or ends at one moment only.
ElapsedEarly == tod - start >= Delay - 1
ElapsedExactly == tod - start = Delay

Elapsed == tod - start >= Delay

\* timer_delay sees that the time has come; its answer is a static that is
\* never assigned.
EndDelay ==
    /\ up /\ delayed # NULL
    /\ Elapsed
    /\ Reply(delayed, 2, 0)
    /\ delayed' = NULL /\ start' = 0
    /\ UNCHANGED <<tod, requests, client>>

\* What is left of the requests of a client that is gone may be lost with its
\* connection.
Forget(c) ==
    /\ up /\ state[c] = "over" /\ requests[c] # <<>>
    /\ requests' = [requests EXCEPT ![c] = <<>>]
    /\ UNCHANGED <<tod, server, replies, client>>
-----------------------------------------------------------------------------
\* get_time_1 or delay_1, up to the wait in clnt_call.
Call(c) ==
    /\ state[c] = "ready"
    /\ requests' = [requests EXCEPT ![c] = Append(@, call[c])]
    /\ state' = [state EXCEPT ![c] = "waiting"]
    /\ UNCHANGED <<tod, server, replies, call, printed>>

Proceed(c) ==
    /\ call' = [call EXCEPT ![c] = IF @ = 3 THEN 3 ELSE @ + 1]
    /\ state' = [state EXCEPT ![c] = IF call[c] = 3 THEN "over" ELSE "ready"]

\* clnt_call reads an answer.  One to an earlier call is skipped; a time is
\* printed.
Receive(c) ==
    /\ state[c] = "waiting" /\ replies[c] # <<>>
    /\ replies' = [replies EXCEPT ![c] = Tail(@)]
    /\ LET reply == Head(replies[c])
       IN  \/ /\ reply.call # call[c]
              /\ UNCHANGED client
           \/ /\ reply.call = call[c]
              /\ printed' = IF IsDelay(call[c]) THEN printed
                            ELSE [printed EXCEPT ![c] = Append(@, reply.result)]
              /\ Proceed(c)
    /\ UNCHANGED <<tod, server, requests>>

\* clnt_call gives up: the client goes on after a delay, and else ends.
Fail(c) ==
    /\ state[c] = "waiting"
    /\ IF IsDelay(call[c]) THEN Proceed(c)
       ELSE /\ state' = [state EXCEPT ![c] = "over"]
            /\ UNCHANGED call
    /\ UNCHANGED <<tod, server, requests, replies, printed>>

AllOver == \A c \in Clients : state[c] = "over"

\* The server waits for requests for ever.
Idle == AllOver /\ UNCHANGED vars

ServerStep == EndDelay \/ \E c \in Clients : Serve(c)

Next == \/ Tick \/ ServerStep \/ Idle
        \/ \E c \in Clients : Forget(c) \/ Call(c) \/ Receive(c) \/ Fail(c)

(***************************************************************************)
(* The timer ticks, the server serves, the clients call and read.  A call  *)
(* to a server that is dead does fail; no other call has to.               *)
(***************************************************************************)
Spec ==
    /\ Init /\ [][Next]_vars
    /\ WF_vars(Tick)
    /\ WF_vars(ServerStep)
    /\ \A c \in Clients : WF_vars(Call(c)) /\ WF_vars(Receive(c))
                          /\ WF_vars(~up /\ Fail(c))
-----------------------------------------------------------------------------
\* Every variable is in its type, and no client makes a fourth call.
TypeOK ==
    /\ up \in BOOLEAN
    /\ tod \in Nat
    /\ delayed \in Clients \cup {NULL}
    /\ start \in 0..tod
    /\ \A c \in Clients : requests[c] \in Seq(Calls)
    /\ \A c \in Clients : replies[c] \in Seq([call : Calls, result : 0..tod])
    /\ reset \subseteq Clients
    /\ call \in [Clients -> Calls]
    /\ state \in [Clients -> {"ready", "waiting", "over"}]
    /\ \A c \in Clients : printed[c] \in Seq(0..tod) /\ Len(printed[c]) <= 2

\* The second time a client prints is at least its delay after the first, even
\* when the call of the delay has timed out: the server has still spun it off
\* before it came to the next request, and the late answer to the delay is not
\* taken for a time.  The types hold with it.
DelayKept ==
    /\ TypeOK
    /\ \A c \in Clients : Len(printed[c]) = 2 => printed[c][2] - printed[c][1] >= Delay

\* Every client comes to its end, whoever is delayed before it, and if the
\* server dies as well.
ClientsEnd == <>AllOver
=============================================================================
