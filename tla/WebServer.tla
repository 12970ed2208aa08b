------------------------------ MODULE WebServer ------------------------------
(***************************************************************************)
(* web_server.c and client_simulator.c around the request queue.           *)
(*                                                                         *)
(* main accepts a connection, reads its request and pushes it; each worker *)
(* pops a request, answers it (process_request of http_lib.c), closes the  *)
(* socket and frees the request.  Each client makes Accesses accesses, one *)
(* after the other, so that its connection bears its name.                 *)
(*                                                                         *)
(* Around them: a client may be killed at any moment, and so may the       *)
(* server, which also dies of SIGPIPE when it writes to a client that is   *)
(* gone and the kernel knows it already.  (The wakeups without a signal    *)
(* that POSIX allows are in RequestQueue, not here.)                       *)
(***************************************************************************)
EXTENDS Integers, FiniteSets, Sequences, SequencesExt

CONSTANTS
    Clients, Workers, Main,
    REQUEST_QUEUE_SIZE,
    Backlog,        \* connections the kernel keeps for accept
    FdLimit,        \* descriptors left for connections and files
    Accesses,       \* access_num
    MaxKilled,      \* a bound: how many clients are killed
    BodyWrites,     \* how many write calls the body of a file takes
    NULL

ASSUME ServerAssumption ==
    /\ IsFiniteSet(Clients) /\ IsFiniteSet(Workers) /\ Main \notin Workers
    /\ {Backlog, FdLimit, Accesses, BodyWrites, MaxKilled} \subseteq Nat
    /\ BodyWrites > 0
    /\ REQUEST_QUEUE_SIZE \in Nat /\ REQUEST_QUEUE_SIZE > 1
    /\ NULL \notin Clients

VARIABLES
    reqs, front, rear, qpc, item,   \* the request queue
    alive,      \* the server process runs
    mpc,        \* main: at accept, read or push
    msock,      \* main: clnt_sock
    wpc,        \* each worker: in the pop, or where in process_request
    body,       \* each worker: writes of the file still to do
    backlog,    \* connections not yet accepted
    sopen,      \* connections the server has accepted and not closed
    inbox,      \* what a client has written and the server not read
    outbox,     \* what the server has written and the client not read
    msg,        \* req_msg of each connection, once read
    cpc,        \* each client: where it is in the loop of its accesses
    left,       \* accesses a client still has to make
    buf,        \* the status that a client's buf begins with, 0 for anything
                \* else: buf is never cleared
    got         \* status and read_bytes of a client's access

Q == INSTANCE RequestQueue WITH Producers <- {Main}, Consumers <- Workers,
                                Requests <- Clients, pc <- qpc

queue  == <<reqs, front, rear, qpc, item>>
server == <<alive, mpc, msock, wpc, body, sopen, msg>>
net    == <<backlog, inbox, outbox>>
client == <<cpc, left, buf, got>>
vars   == <<queue, server, net, client>>

\* A request line names a file that can be served or one that is missing.
Requests == {"file", "missing"}
Statuses == {200, 400, 403, 404}
None == "none"

Init ==
    /\ Q!Init
    /\ alive = TRUE
    /\ mpc = "accept" /\ msock = NULL
    /\ wpc = [w \in Workers |-> "loop"] /\ body = [w \in Workers |-> 0]
    /\ backlog = <<>> /\ sopen = {}
    /\ msg = [c \in Clients |-> None]
    /\ inbox = [c \in Clients |-> None]
    /\ outbox = [c \in Clients |-> <<>>]
    /\ cpc = [c \in Clients |-> "start"]
    /\ left = [c \in Clients |-> Accesses]
    /\ buf = [c \in Clients |-> 0]
    /\ got = [c \in Clients |-> [status |-> 0, bytes |-> 0]]

Gone(c) == cpc[c] = "killed"
OpenFiles == {w \in Workers : wpc[w] = "body"}
FdsInUse == Cardinality(sopen) + Cardinality(OpenFiles)

\* The server dies: its connections and all it knows are gone.
Die ==
    /\ alive' = FALSE
    /\ backlog' = <<>> /\ sopen' = {}
    /\ reqs' = [s \in Q!Slots |-> NULL] /\ front' = 0 /\ rear' = 0
    /\ qpc' = [t \in Q!Threads |-> "out"]
    /\ item' = [t \in Q!Threads |-> NULL]
    /\ mpc' = "accept" /\ msock' = NULL
    /\ wpc' = [w \in Workers |-> "loop"] /\ body' = [w \in Workers |-> 0]
    /\ msg' = [c \in Clients |-> None]
-----------------------------------------------------------------------------
(***************************************************************************)
(* main of the server.                                                     *)
(***************************************************************************)

\* With no descriptor left accept fails, and main tries again.
Accept ==
    /\ alive /\ mpc = "accept"
    /\ backlog # <<>> /\ FdsInUse < FdLimit
    /\ msock' = Head(backlog)
    /\ backlog' = Tail(backlog)
    /\ sopen' = sopen \cup {msock'}
    /\ mpc' = "read"
    /\ UNCHANGED <<queue, alive, wpc, body, msg, inbox, outbox, client>>

\* read blocks until the request comes.  Of a client that is gone it returns
\* the request, an end of file, which makes an empty message, or an error.
Read ==
    /\ alive /\ mpc = "read"
    /\ \/ /\ inbox[msock] # None
          /\ msg' = [msg EXCEPT ![msock] = inbox[msock]]
          /\ mpc' = "push"
          /\ UNCHANGED sopen
       \/ /\ inbox[msock] = None /\ Gone(msock)
          /\ msg' = [msg EXCEPT ![msock] = "empty"]
          /\ mpc' = "push"
          /\ UNCHANGED sopen
       \/ /\ Gone(msock)
          /\ sopen' = sopen \ {msock}
          /\ mpc' = "accept"
          /\ UNCHANGED msg
    /\ inbox' = [inbox EXCEPT ![msock] = None]
    /\ UNCHANGED <<queue, alive, msock, wpc, body, backlog, outbox, client>>

Push ==
    /\ alive /\ mpc = "push"
    /\ Q!Push(Main, msock) \/ Q!Finish(Main)
    /\ mpc' = IF qpc'[Main] = "out" THEN "accept" ELSE "push"
    /\ UNCHANGED <<alive, msock, wpc, body, sopen, msg, net, client>>
-----------------------------------------------------------------------------
(***************************************************************************)
(* A worker.                                                               *)
(***************************************************************************)
Pop(w) ==
    /\ alive /\ wpc[w] = "loop"
    /\ Q!Pop(w) \/ Q!Finish(w)
    /\ wpc' = [wpc EXCEPT ![w] = IF qpc'[w] = "out" THEN "answer" ELSE "loop"]
    /\ UNCHANGED <<alive, mpc, msock, body, sopen, msg, net, client>>

\* Mutant of Write: the answer goes to the connection main has in hand.
WriteToLast(w, data, to) ==
    /\ outbox' = [outbox EXCEPT ![msock] = Append(@, data)]
    /\ wpc' = [wpc EXCEPT ![w] = to]

\* write to a connection, and move on; what is written to a client that is
\* gone is dropped.
Write(w, data, to) ==
    LET c == item[w]
    IN  /\ outbox' = IF Gone(c) THEN outbox
                     ELSE [outbox EXCEPT ![c] = Append(@, data)]
        /\ wpc' = [wpc EXCEPT ![w] = to]

\* process_request: what it answers is decided by the message and by whether
\* fopen finds a descriptor; the head of a file is written before its body.
Answer(w) ==
    /\ alive /\ wpc[w] = "answer"
    /\ \/ msg[item[w]] = "empty" /\ Write(w, 400, "close")
       \/ msg[item[w]] = "missing" /\ Write(w, 404, "close")
       \/ msg[item[w]] = "file" /\ FdsInUse >= FdLimit /\ Write(w, 403, "close")
       \/ msg[item[w]] = "file" /\ FdsInUse < FdLimit /\ Write(w, 200, "body")
    /\ body' = [body EXCEPT ![w] = BodyWrites]
    /\ UNCHANGED <<queue, alive, mpc, msock, sopen, msg, backlog, inbox, client>>

\* One turn of the loop that copies the file; the last one ends in fclose.
WriteBody(w) ==
    /\ alive /\ wpc[w] = "body"
    /\ Write(w, 0, IF body[w] > 1 THEN "body" ELSE "close")
    /\ body' = [body EXCEPT ![w] = @ - 1]
    /\ UNCHANGED <<queue, alive, mpc, msock, sopen, msg, backlog, inbox, client>>

\* SIGPIPE: a write to a client that an earlier write has found gone ends the
\* server.  (The first write to it, that of the head, only goes nowhere.)
BrokenPipe(w) ==
    /\ alive /\ wpc[w] = "body"
    /\ Gone(item[w])
    /\ Die
    /\ UNCHANGED <<inbox, outbox, client>>

\* Mutant of Close: the socket is left open.
CloseNothing(w) ==
    /\ alive /\ wpc[w] = "close"
    /\ wpc' = [wpc EXCEPT ![w] = "loop"]
    /\ body' = [body EXCEPT ![w] = 0]
    /\ item' = [item EXCEPT ![w] = NULL]
    /\ UNCHANGED <<reqs, front, rear, qpc, alive, mpc, msock, sopen, msg, net,
                   client>>

\* close and free; req is a fresh variable in the next turn of the loop.
Close(w) ==
    /\ alive /\ wpc[w] = "close"
    /\ sopen' = sopen \ {item[w]}
    /\ wpc' = [wpc EXCEPT ![w] = "loop"]
    /\ body' = [body EXCEPT ![w] = 0]
    /\ item' = [item EXCEPT ![w] = NULL]
    /\ UNCHANGED <<reqs, front, rear, qpc, alive, mpc, msock, msg, net, client>>
-----------------------------------------------------------------------------
(***************************************************************************)
(* request_thread_main of a client.                                        *)
(***************************************************************************)
CGoto(c, to) == cpc' = [cpc EXCEPT ![c] = to]

\* The server's end of the connection is closed.
Ended(c) == ~alive \/ c \notin sopen \cup ToSet(backlog)

\* The accesses are over when they are counted out or when connect fails.
Connect(c) ==
    /\ cpc[c] = "start"
    /\ \/ /\ left[c] > 0 /\ alive /\ Len(backlog) < Backlog
          /\ backlog' = Append(backlog, c)
          /\ CGoto(c, "write")
       \/ /\ left[c] <= 0 \/ ~alive
          /\ CGoto(c, "exit")
          /\ UNCHANGED backlog
    /\ inbox' = [inbox EXCEPT ![c] = None]
    /\ outbox' = [outbox EXCEPT ![c] = <<>>]
    /\ UNCHANGED <<queue, server, left, buf, got>>

\* write fails, if it does, because the server is dead; the loop is left.
Send(c, request) ==
    /\ cpc[c] = "write"
    /\ \/ /\ inbox' = [inbox EXCEPT ![c] = request]
          /\ CGoto(c, "read")
       \/ /\ ~alive
          /\ CGoto(c, "exit")
          /\ UNCHANGED inbox
    /\ UNCHANGED <<queue, server, backlog, outbox, left, buf, got>>

\* read returns some of what is there, and nothing at the end or on an error.
\* When the server is dead what is there may be lost.
Receive(c, n) ==
    \/ /\ n \in 1..Len(outbox[c])
       /\ outbox' = [outbox EXCEPT ![c] = SubSeq(@, n + 1, Len(@))]
    \/ /\ n = 0
       /\ Ended(c)
       /\ outbox[c] = <<>> \/ ~alive
       /\ UNCHANGED outbox

NextAccess(c) ==
    /\ CGoto(c, "start")
    /\ left' = [left EXCEPT ![c] = @ - 1]

\* What sscanf may find at the start of buf after a read of n: the status of
\* the answer; if nothing was read, what buf held before, the last answer or
\* junk, in which it may find any status, or none.
Parsed(c, n) ==
    IF n > 0 THEN {Head(outbox[c])}
    ELSE IF buf[c] # 0 THEN {buf[c]} ELSE Statuses \cup {0}

\* The first read, and sscanf.  When sscanf fails the loop goes on to the next
\* access with the socket left open.
FirstRead(c) ==
    /\ cpc[c] = "read"
    /\ \E n \in 0..Len(outbox[c]) :
           /\ Receive(c, n)
           /\ buf' = [buf EXCEPT ![c] = IF n > 0 THEN Head(outbox[c]) ELSE @]
           /\ \E status \in Parsed(c, n) :
                  \/ /\ status # 0
                     /\ got' = [got EXCEPT ![c] = [status |-> status, bytes |-> n]]
                     /\ CGoto(c, "more")
                     /\ UNCHANGED left
                  \/ /\ status = 0
                     /\ NextAccess(c)
                     /\ UNCHANGED got
    /\ UNCHANGED <<queue, server, backlog, inbox>>

\* The loop of the other reads, each into buf; at its end the client prints
\* what it got.
ReadMore(c) ==
    /\ cpc[c] = "more"
    /\ \E n \in 0..Len(outbox[c]) :
           /\ Receive(c, n)
           /\ \/ /\ n > 0
                 /\ buf' = [buf EXCEPT ![c] = 0]
                 /\ got' = [got EXCEPT ![c].bytes = @ + n]
                 /\ UNCHANGED <<cpc, left>>
              \/ /\ n = 0
                 /\ NextAccess(c)
                 /\ UNCHANGED <<buf, got>>
    /\ UNCHANGED <<queue, server, backlog, inbox>>

ClientStep(c) ==
    \/ Connect(c) \/ FirstRead(c) \/ ReadMore(c)
    \/ \E request \in Requests : Send(c, request)
-----------------------------------------------------------------------------
\* A client, or the server, is killed.
KillClient(c) ==
    /\ cpc[c] \notin {"killed", "exit"}
    /\ Cardinality({d \in Clients : Gone(d)}) < MaxKilled
    /\ CGoto(c, "killed")
    /\ outbox' = [outbox EXCEPT ![c] = <<>>]
    /\ UNCHANGED <<queue, server, backlog, inbox, left, buf, got>>

KillServer ==
    /\ alive
    /\ Die
    /\ UNCHANGED <<inbox, outbox, client>>

MainStep == Accept \/ Read \/ Push

WorkerStep(w) == Pop(w) \/ Answer(w) \/ WriteBody(w) \/ Close(w)
                    \/ BrokenPipe(w)

Next ==
    \/ MainStep \/ KillServer
    \/ \E w \in Workers : WorkerStep(w)
    \/ \E c \in Clients : ClientStep(c) \/ KillClient(c)

Safety == Init /\ [][Next]_vars

\* Threads that can run do; nobody has to be killed.
Spec == /\ Safety
        /\ WF_vars(MainStep)
        /\ \A w \in Workers : WF_vars(WorkerStep(w))
        /\ \A c \in Clients : WF_vars(ClientStep(c))
-----------------------------------------------------------------------------
\* Every variable is in its type, the queue's included.
TypeOK ==
    /\ Q!TypeOK
    /\ alive \in BOOLEAN
    /\ mpc \in {"accept", "read", "push"}
    /\ msock \in Clients \cup {NULL}
    /\ wpc \in [Workers -> {"loop", "answer", "body", "close"}]
    /\ body \in [Workers -> 0..BodyWrites]
    /\ backlog \in Seq(Clients) /\ Len(backlog) <= Backlog
    /\ sopen \subseteq Clients
    /\ inbox \in [Clients -> Requests \cup {None}]
    /\ msg \in [Clients -> Requests \cup {"empty", None}]
    /\ \A c \in Clients : outbox[c] \in Seq(Statuses \cup {0})
    /\ cpc \in [Clients -> {"start", "write", "read", "more", "exit", "killed"}]
    /\ left \in [Clients -> 0..Accesses]
    /\ buf \in [Clients -> Statuses \cup {0}]
    /\ got \in [Clients -> [status : Statuses \cup {0}, bytes : 0..BodyWrites + 1]]

\* The hands a connection can be in: main's until the push stores it, a slot
\* of the ring, and a worker's from the pop to the close.
InMain == IF mpc = "read" \/ (mpc = "push" /\ qpc[Main] # "signal_notempty")
          THEN {msock} ELSE {}
InWorker(w) == IF wpc[w] # "loop" \/ qpc[w] = "signal_notfull"
               THEN {item[w]} ELSE {}

\* The types hold, and every connection that is open is in one hand: none is
\* leaked, answered by two threads, closed twice, or freed while it is used.
\* So at most REQUEST_QUEUE_SIZE, and one for each worker, are open at once,
\* which is what the comment at REQUEST_QUEUE_SIZE relies on.
OneOwner ==
    /\ TypeOK
    /\ sopen = InMain \cup ToSet(Q!Contents) \cup UNION {InWorker(w) : w \in Workers}
    /\ Cardinality(sopen) =
           Cardinality(InMain) + Len(Q!Contents)
               + Cardinality({w \in Workers : InWorker(w) # {}})

\* What a client that is served may print, and when it prints.  403 is the
\* answer when no descriptor is left to open the file with.
Expected(request) ==
    IF request = "file"
    THEN {[status |-> 200, bytes |-> 1 + BodyWrites], [status |-> 403, bytes |-> 1]}
    ELSE {[status |-> 404, bytes |-> 1]}
Prints(c) == cpc[c] = "more" /\ cpc'[c] = "start"

\* While the server runs, what a client prints is a whole answer to the very
\* request it sent, whoever else is served, waits, or was killed.
RightAnswer ==
    [][\A c \in Clients : alive /\ Prints(c) => got[c] \in Expected(msg[c])]_vars

\* Every client comes to an end, even if the server dies under it.
ClientsFinish == \A c \in Clients : <>(cpc[c] \in {"exit", "killed"})
=============================================================================
