------------------------------ MODULE WsClients ------------------------------
(***************************************************************************)
(* WifiPcInterface.cpp: lines sent to the WebSocket clients.  A task that  *)
(* sends a line (a Sender) goes through all listed clients under           *)
(* clients_mutex and writes to each socket directly; a line whose socket   *)
(* would block goes to the client's queue.  The httpd task runs            *)
(* raw_ws_worker for one client at a time, which also writes to the        *)
(* socket, without the mutex, the lines it finds in the queue.             *)
(* A socket is used for one connection.  A frame is a header and a         *)
(* payload; once a frame is broken the stream of that client is garbled.   *)
(***************************************************************************)
EXTENDS Naturals, Sequences

CONSTANTS
    Client, NoClient,    \* the sockets, and none
    Sender,              \* the tasks that call UsbPcInterface::send
    ClientQueueLength,   \* 32 in the code
    MaxLine              \* bound: lines per sender

ASSUME WsAssumption ==
    /\ NoClient \notin Client
    /\ ClientQueueLength \in Nat \ {0} /\ MaxLine \in Nat
    /\ {"free", "httpd", "echo"} \cap Sender = {}

VARIABLES
    active,      \* WifiPcInterface::active
    clients,     \* the listed clients
    mutex,       \* the sender that holds clients_mutex, or "free"
    sender,      \* what each sender does, the clients it still has to serve
    count,       \* lines begun by each sender
    socket,      \* "new", "open" or "left"
    queue,       \* the lines in each client's queue
    queueState,  \* "none", "live", "deleted" or "twice"
    work,        \* clients whose worker waits in the httpd work queue
    httpd,       \* what the httpd task does
    garbled,     \* the clients whose stream is out of step
    received,    \* history: the lines each client has got, and how
    removed      \* history: the clients a failed send has removed

sendVars == <<clients, mutex, sender, count, socket, queue, queueState, work,
              httpd, garbled, received, removed>>

Line == Sender \X (1 .. MaxLine)
EchoLine == <<"echo", 0>>
AtRest == [pc |-> "idle", todo |-> {}, at |-> NoClient]
HttpdIdle == [pc |-> "idle", at |-> NoClient, line |-> EchoLine]

WsInit ==
    /\ clients = {} /\ mutex = "free" /\ work = <<>>
    /\ sender = [s \in Sender |-> AtRest]
    /\ count = [s \in Sender |-> 0]
    /\ socket = [c \in Client |-> "new"]
    /\ queue = [c \in Client |-> <<>>]
    /\ queueState = [c \in Client |-> "none"]
    /\ httpd = HttpdIdle
    /\ garbled = {} /\ removed = {}
    /\ received = [c \in Client |-> <<>>]

-----------------------------------------------------------------------------
(* A frame of writer w on the socket of c: its header, then its payload.   *)

InFrame(c) ==
    {s \in Sender : sender[s].pc = "payload" /\ sender[s].at = c}
    \cup {w \in {"httpd"} : httpd.pc = "write" /\ httpd.at = c}

Header(c) == garbled' = IF InFrame(c) = {} THEN garbled ELSE garbled \cup {c}

Arrive(c, line, via) ==
    received' = IF c \in garbled \/ socket[c] # "open" \/ line = EchoLine
                THEN received
                ELSE [received EXCEPT ![c] = Append(@, [line |-> line, via |-> via])]

-----------------------------------------------------------------------------
(* UsbPcInterface::send, WifiPcInterface::send and send_to_all_clients.    *)

CurrentLine(s) == <<s, count[s]>>

Turn(s, pc, todo, at) ==
    sender' = [sender EXCEPT ![s] = [pc |-> pc, todo |-> todo, at |-> at]]

\* A line nobody can get while the interface is not active.
BeginLine(s) ==
    /\ sender[s] = AtRest
    /\ count[s] < MaxLine
    /\ count' = [count EXCEPT ![s] = @ + 1]
    /\ IF active THEN Turn(s, "lock", {}, NoClient) ELSE UNCHANGED sender
    /\ UNCHANGED <<clients, mutex, socket, queue, queueState, work, httpd,
                   garbled, received, removed>>

\* Mutant: the clients are visited without the mutex.
LockSkipped(s) ==
    /\ sender[s].pc = "lock"
    /\ Turn(s, "each", clients, NoClient)
    /\ UNCHANGED <<clients, mutex, count, socket, queue, queueState, work, httpd,
                   garbled, received, removed>>

Lock(s) ==
    /\ sender[s].pc = "lock" /\ mutex = "free"
    /\ mutex' = s
    /\ Turn(s, "each", clients, NoClient)
    /\ UNCHANGED <<clients, count, socket, queue, queueState, work, httpd,
                   garbled, received, removed>>

Unlock(s) ==
    /\ sender[s].pc = "each" /\ sender[s].todo = {}
    /\ mutex' = "free"
    /\ Turn(s, "idle", {}, NoClient)
    /\ UNCHANGED <<clients, count, socket, queue, queueState, work, httpd,
                   garbled, received, removed>>

Visit(s, c, step) ==
    /\ sender[s].pc = "each" /\ c \in sender[s].todo
    /\ Turn(s, step, sender[s].todo \ {c}, c)

Leave(s) == Turn(s, "each", sender[s].todo, NoClient)

DirectHeader(s, c) ==
    /\ Visit(s, c, "payload")
    /\ Header(c)
    /\ UNCHANGED <<clients, mutex, count, socket, queue, queueState, work, httpd,
                   received, removed>>

\* EAGAIN: nothing is written and the line goes to the queue.
DirectBlocks(s, c) ==
    /\ Visit(s, c, "queue")
    /\ UNCHANGED <<clients, mutex, count, socket, queue, queueState, work, httpd,
                   garbled, received, removed>>

\* Any other error: the sender deletes the queue and forgets the client.
DirectFails(s, c) ==
    /\ sender[s].pc = "each" /\ c \in sender[s].todo /\ socket[c] = "left"
    /\ Turn(s, "each", sender[s].todo \ {c}, NoClient)
    /\ queueState' = [queueState EXCEPT ![c] = "deleted"]
    /\ clients' = clients \ {c}
    /\ removed' = removed \cup {c}
    /\ UNCHANGED <<mutex, count, socket, queue, work, httpd, garbled, received>>

\* Mutant: a line sent directly is also put into the queue.
DirectPayloadGoesOn(s) ==
    /\ sender[s].pc = "payload"
    /\ Arrive(sender[s].at, CurrentLine(s), "direct")
    /\ Turn(s, "queue", sender[s].todo, sender[s].at)
    /\ UNCHANGED <<clients, mutex, count, socket, queue, queueState, work, httpd,
                   garbled, removed>>

DirectPayload(s) ==
    /\ sender[s].pc = "payload"
    /\ Arrive(sender[s].at, CurrentLine(s), "direct")
    /\ Leave(s)
    /\ UNCHANGED <<clients, mutex, count, socket, queue, queueState, work, httpd,
                   garbled, removed>>

\* The payload blocks, in part or whole: its frame stays open and the whole
\* line goes to the queue.
PayloadCut(s) ==
    /\ sender[s].pc = "payload"
    /\ garbled' = garbled \cup {sender[s].at}
    /\ Turn(s, "queue", sender[s].todo, sender[s].at)
    /\ UNCHANGED <<clients, mutex, count, socket, queue, queueState, work, httpd,
                   received, removed>>

\* Mutant: the line is put at the front of the queue.
EnqueueInFront(s) ==
    LET c == sender[s].at
    IN /\ sender[s].pc = "queue" /\ Len(queue[c]) < ClientQueueLength
       /\ queue' = [queue EXCEPT ![c] = <<CurrentLine(s)>> \o @]
       /\ Leave(s)
       /\ UNCHANGED <<clients, mutex, count, socket, queueState, work, httpd,
                      garbled, received, removed>>

EnqueueLine(s) ==
    LET c == sender[s].at
    IN /\ sender[s].pc = "queue" /\ Len(queue[c]) < ClientQueueLength
       /\ queue' = [queue EXCEPT ![c] = Append(@, CurrentLine(s))]
       /\ Leave(s)
       /\ UNCHANGED <<clients, mutex, count, socket, queueState, work, httpd,
                      garbled, received, removed>>

\* Mutant: portMAX_DELAY instead of 50 ms.
DropNever(s) == FALSE /\ UNCHANGED sendVars

\* The queue has stayed full for 50 ms.
DropLine(s) ==
    /\ sender[s].pc = "queue" /\ Len(queue[sender[s].at]) = ClientQueueLength
    /\ Leave(s)
    /\ UNCHANGED <<clients, mutex, count, socket, queue, queueState, work, httpd,
                   garbled, received, removed>>

SendStep(s) ==
    \/ Unlock(s) \/ DirectPayload(s) \/ PayloadCut(s) \/ EnqueueLine(s) \/ DropLine(s)
    \/ \E c \in Client : DirectHeader(s, c) \/ DirectBlocks(s, c) \/ DirectFails(s, c)

-----------------------------------------------------------------------------
(* The httpd task: ws_handler.                                             *)

\* xQueueCreate may fail; without a queue the client is not listed.
WsHandler(c) ==
    /\ active /\ httpd = HttpdIdle /\ mutex = "free" /\ socket[c] = "new"
    /\ socket' = [socket EXCEPT ![c] = "open"]
    /\ \/ clients' = clients \cup {c} /\ queueState' = [queueState EXCEPT ![c] = "live"]
       \/ UNCHANGED <<clients, queueState>>
    /\ httpd' = [httpd EXCEPT !.pc = "work", !.at = c]
    /\ UNCHANGED <<mutex, sender, count, queue, work, garbled, received, removed>>

QueueWork ==
    /\ httpd.pc = "work"
    /\ work' = Append(work, httpd.at)
    /\ httpd' = HttpdIdle
    /\ UNCHANGED <<clients, mutex, sender, count, socket, queue, queueState,
                   garbled, received, removed>>

\* malloc fails: ESP_FAIL closes the socket, the client stays listed.
NoWorkerArg ==
    /\ httpd.pc = "work"
    /\ socket' = [socket EXCEPT ![httpd.at] = "left"]
    /\ httpd' = HttpdIdle
    /\ UNCHANGED <<clients, mutex, sender, count, queue, queueState, work,
                   garbled, received, removed>>

\* Mutant: the queue is deleted but its client stays listed.
ForgetClientKept(c) ==
    /\ UNCHANGED clients
    /\ queueState' = [queueState EXCEPT
                        ![c] = IF @ = "live" THEN "deleted" ELSE "twice"]

\* The entry with this queue is erased and the queue deleted, once more when
\* a sender has deleted it before.
ForgetClient(c) ==
    /\ clients' = clients \ {c}
    /\ queueState' = [queueState EXCEPT
                        ![c] = IF @ = "live" THEN "deleted" ELSE "twice"]

\* What the end of a connection does, under the mutex if there is a queue.
EndClient(c) ==
    /\ \/ queueState[c] # "none" /\ mutex = "free" /\ ForgetClient(c)
       \/ queueState[c] = "none" /\ UNCHANGED <<clients, queueState>>
    /\ socket' = [socket EXCEPT ![c] = "left"]
    /\ httpd' = HttpdIdle
    /\ UNCHANGED <<mutex, sender, count, queue, work, garbled, received, removed>>

QueueWorkFails == httpd.pc = "work" /\ EndClient(httpd.at)

-----------------------------------------------------------------------------
(* The httpd task: raw_ws_worker.  Putting a command is in PcLink.         *)

StartWorker ==
    /\ httpd = HttpdIdle /\ work # <<>>
    /\ httpd' = [httpd EXCEPT !.pc = "recv", !.at = Head(work)]
    /\ work' = Tail(work)
    /\ UNCHANGED <<clients, mutex, sender, count, socket, queue, queueState,
                   garbled, received, removed>>

\* recv times out after 20 ms: one line is taken and its header written.
\* What a receive from a deleted queue gives is undefined: here, nothing.
Drain ==
    LET c == httpd.at
    IN /\ httpd.pc = "recv" /\ queueState[c] = "live" /\ queue[c] # <<>>
       /\ httpd' = [httpd EXCEPT !.pc = "write", !.line = Head(queue[c])]
       /\ queue' = [queue EXCEPT ![c] = Tail(@)]
       /\ Header(c)
       /\ UNCHANGED <<clients, mutex, sender, count, socket, queueState, work,
                      received, removed>>

WorkerPayload ==
    /\ httpd.pc = "write"
    /\ Arrive(httpd.at, httpd.line, "queue")
    /\ httpd' = [httpd EXCEPT !.pc = "recv", !.line = EchoLine]
    /\ UNCHANGED <<clients, mutex, sender, count, socket, queue, queueState, work,
                   garbled, removed>>

\* The blocking send returns short; the result is ignored.
WorkerPayloadCut ==
    /\ httpd.pc = "write"
    /\ garbled' = garbled \cup {httpd.at}
    /\ httpd' = [httpd EXCEPT !.pc = "recv", !.line = EchoLine]
    /\ UNCHANGED <<clients, mutex, sender, count, socket, queue, queueState, work,
                   received, removed>>

\* The client closes, its connection fails or the rest of a frame is late.
WorkerLeaves ==
    /\ httpd.pc = "recv"
    /\ EndClient(httpd.at)

\* The peer goes away unnoticed by the worker.
PeerLeaves(c) ==
    /\ socket[c] = "open"
    /\ socket' = [socket EXCEPT ![c] = "left"]
    /\ UNCHANGED <<clients, mutex, sender, count, queue, queueState, work, httpd,
                   garbled, received, removed>>

WorkerStep ==
    \/ QueueWork \/ NoWorkerArg \/ QueueWorkFails
    \/ StartWorker \/ Drain \/ WorkerPayload \/ WorkerPayloadCut \/ WorkerLeaves
-----------------------------------------------------------------------------
SenderSteps == {"idle", "lock", "each", "payload", "queue"}
HttpdSteps == {"idle", "work", "recv", "write", "put", "post", "setwifi"}

WsTypeOK ==
    /\ active \in BOOLEAN
    /\ clients \subseteq Client /\ removed \subseteq Client /\ garbled \subseteq Client
    /\ mutex \in Sender \cup {"free"}
    /\ sender \in [Sender -> [pc : SenderSteps, todo : SUBSET Client,
                              at : Client \cup {NoClient}]]
    /\ count \in [Sender -> 0 .. MaxLine]
    /\ socket \in [Client -> {"new", "open", "left"}]
    /\ queue \in [Client -> Seq(Line)]
    /\ \A c \in Client : Len(queue[c]) <= ClientQueueLength
    /\ queueState \in [Client -> {"none", "live", "deleted", "twice"}]
    /\ work \in Seq(Client)
    /\ httpd \in [pc : HttpdSteps, at : Client \cup {NoClient}, line : Line \cup {EchoLine}]
    /\ received \in [Client -> Seq([line : Line, via : {"direct", "queue"}])]
=============================================================================
