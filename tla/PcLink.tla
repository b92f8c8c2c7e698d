------------------------------- MODULE PcLink -------------------------------
(***************************************************************************)
(* The two ways between the PC and the program, UsbPcInterface.cpp and     *)
(* WifiPcInterface.cpp, with the dispatcher at their end: commands come    *)
(* from the serial line and from the httpd task through queueFromPc,       *)
(* answers and data go to all WebSocket clients.                           *)
(***************************************************************************)
EXTENDS WsClients, WifiStation, FiniteSets

CONSTANTS
    Dispatcher,     \* dispatcherTask, one of the senders
    CommandLength,  \* length of queueFromPc: 2 in the code
    Budgets         \* bounds: records of the calls made in one behaviour

ASSUME LinkAssumption ==
    /\ Dispatcher \in Sender
    /\ CommandLength \in Nat \ {0}
    /\ Budgets \subseteq [saved : Credential \cup {NoCredential}, clients : SUBSET Client,
                          lines : Nat, uart : Nat, web : Nat, attempts : Nat]

VARIABLES
    budget,        \* what is left of the bounds
    typed,         \* history: commands completed on the serial line
    hand,          \* the command uartRcvLoop waits to put, or none
    asked,         \* history: commands sent over HTTP and WebSocket
    queueFromPc,
    taken          \* history: the commands the dispatcher has received

linkVars == <<budget, typed, hand, asked, queueFromPc, taken>>
vars == <<active, sendVars, stationVars, linkVars>>

Command == ({"uart"} \X Nat) \cup ({"web"} \X Nat)

Init ==
    /\ budget \in Budgets
    /\ active = FALSE /\ WsInit /\ StationInit(budget.saved)
    /\ typed = 0 /\ hand = <<>> /\ asked = 0 /\ queueFromPc = <<>> /\ taken = <<>>

HasRoom == Len(queueFromPc) < CommandLength

-----------------------------------------------------------------------------
(* uartRcvLoop: waits as long as it takes for room in the queue.  Typed is *)
(* a line it has read; what arrives while it waits stays in the ring       *)
(* buffer of the UART driver, whose overflow is left out.                  *)

Typed ==
    /\ hand = <<>> /\ budget.uart > 0
    /\ budget' = [budget EXCEPT !.uart = @ - 1]
    /\ typed' = typed + 1
    /\ hand' = <<<<"uart", typed'>>>>
    /\ UNCHANGED <<asked, queueFromPc, taken, active, sendVars, stationVars>>

\* Mutant: xQueueSend with a timeout whose result is ignored.
UartPutOrDrop ==
    /\ hand # <<>>
    /\ queueFromPc' = IF HasRoom THEN queueFromPc \o hand ELSE queueFromPc
    /\ hand' = <<>>
    /\ UNCHANGED <<budget, typed, asked, taken, active, sendVars, stationVars>>

UartPut ==
    /\ hand # <<>> /\ HasRoom
    /\ queueFromPc' = queueFromPc \o hand
    /\ hand' = <<>>
    /\ UNCHANGED <<budget, typed, asked, taken, active, sendVars, stationVars>>

-----------------------------------------------------------------------------
(* Commands over WiFi: put within 50 ms or dropped, answered all the same. *)

Ask(at, pc) ==
    /\ budget.web > 0
    /\ budget' = [budget EXCEPT !.web = @ - 1]
    /\ asked' = asked + 1
    /\ httpd' = [httpd EXCEPT !.pc = pc, !.at = at]

\* Mutant: the command is put without regard to the queue's length.
PutAlways ==
    /\ queueFromPc' = Append(queueFromPc, <<"web", asked>>)
    /\ UNCHANGED <<budget, typed, hand, asked, taken, active, stationVars>>

PutOrDrop ==
    /\ queueFromPc' = IF HasRoom THEN Append(queueFromPc, <<"web", asked>>)
                      ELSE queueFromPc
    /\ UNCHANGED <<budget, typed, hand, asked, taken, active, stationVars>>

httpdRest == <<clients, mutex, sender, count, socket, queue, queueState, work,
               received, removed>>

\* POST /send.
PostSend ==
    /\ active /\ httpd = HttpdIdle
    /\ Ask(NoClient, "post")
    /\ UNCHANGED <<typed, hand, queueFromPc, taken, active, stationVars, garbled, httpdRest>>

PostPut ==
    /\ httpd.pc = "post"
    /\ PutOrDrop
    /\ httpd' = HttpdIdle
    /\ UNCHANGED <<garbled, httpdRest>>

\* A text frame: the command is put, then the text is sent back.
TextFrame ==
    /\ httpd.pc = "recv" /\ socket[httpd.at] = "open"
    /\ Ask(httpd.at, "put")
    /\ UNCHANGED <<typed, hand, queueFromPc, taken, active, stationVars, garbled, httpdRest>>

TextPut ==
    /\ httpd.pc = "put"
    /\ PutOrDrop
    /\ httpd' = [httpd EXCEPT !.pc = "write", !.line = EchoLine]
    /\ Header(httpd.at)
    /\ UNCHANGED httpdRest

-----------------------------------------------------------------------------
(* POST /setwifi keeps the httpd task for up to 10 s.                      *)

SetWifi ==
    /\ active /\ httpd = HttpdIdle
    /\ budget.attempts > 0
    /\ budget' = [budget EXCEPT !.attempts = @ - 1]
    /\ \E c \in Credential : TryConnect(c)
    /\ httpd' = [httpd EXCEPT !.pc = "setwifi"]
    /\ UNCHANGED <<typed, hand, asked, queueFromPc, taken, active, garbled, httpdRest>>

SetWifiDone ==
    /\ httpd.pc = "setwifi"
    /\ Provision \/ AttemptFails
    /\ httpd' = HttpdIdle
    /\ UNCHANGED <<linkVars, active, garbled, httpdRest>>

\* httpd_start may fail: the interface then stays inactive.
Boot ==
    \/ (ConfigureBoot \/ WaitBoot) /\ UNCHANGED <<active, sendVars, linkVars>>
    \/ StartServer /\ active' \in BOOLEAN /\ UNCHANGED <<sendVars, linkVars>>

-----------------------------------------------------------------------------
(* The tasks that send; dispatcherTask receives, then answers or not.      *)

Take ==
    /\ sender[Dispatcher] = AtRest /\ queueFromPc # <<>>
    /\ taken' = Append(taken, Head(queueFromPc))
    /\ queueFromPc' = Tail(queueFromPc)
    /\ \/ BeginLine(Dispatcher)
       \/ UNCHANGED sendVars
    /\ UNCHANGED <<budget, typed, hand, asked, active, stationVars>>

Produce(s) ==
    /\ s # Dispatcher /\ budget.lines > 0
    /\ BeginLine(s)
    /\ budget' = [budget EXCEPT !.lines = @ - 1]
    /\ UNCHANGED <<typed, hand, asked, queueFromPc, taken, active, stationVars>>

Send(s) ==
    /\ Lock(s) \/ SendStep(s)
    /\ UNCHANGED <<active, stationVars, linkVars>>

Serve ==
    /\ \/ WorkerStep
       \/ \E c \in budget.clients : WsHandler(c)
    /\ UNCHANGED <<active, stationVars, linkVars>>

Peer ==
    /\ \E c \in Client : PeerLeaves(c)
    /\ UNCHANGED <<active, stationVars, linkVars>>

Event == StationEvent /\ UNCHANGED <<active, sendVars, linkVars>>

Next ==
    \/ Typed \/ UartPut \/ PostSend \/ PostPut \/ TextFrame \/ TextPut
    \/ SetWifi \/ SetWifiDone \/ Boot \/ Take \/ Serve \/ Peer \/ Event
    \/ \E s \in Sender : Produce(s) \/ Send(s)

\* A task that can go on does so; the mutex goes to the waiting dispatcher in
\* the end, which has the highest priority of the senders; a request that is
\* being handled by the httpd task is handled.
Fairness ==
    /\ WF_vars(UartPut) /\ WF_vars(Take)
    /\ WF_vars(PostPut) /\ WF_vars(TextPut)
    /\ WF_vars((WorkerPayload \/ WorkerPayloadCut) /\ UNCHANGED <<active, stationVars, linkVars>>)
    /\ SF_vars(Lock(Dispatcher) /\ UNCHANGED <<active, stationVars, linkVars>>)
    /\ \A s \in Sender :
         WF_vars(SendStep(s) /\ UNCHANGED <<active, stationVars, linkVars>>)

Spec == Init /\ [][Next]_vars /\ Fairness
-----------------------------------------------------------------------------
LinkTypeOK ==
    /\ budget \in [saved : Credential \cup {NoCredential}, clients : SUBSET Client,
                   lines : Nat, uart : Nat, web : Nat, attempts : Nat]
    /\ typed \in Nat /\ asked \in Nat
    /\ queueFromPc \in Seq(Command) /\ Len(queueFromPc) <= CommandLength
    /\ hand \in Seq(Command) /\ Len(hand) <= 1
    /\ taken \in Seq(Command)

\* Every variable keeps its values; no queue outgrows its length.
TypeOK == WsTypeOK /\ StationTypeOK /\ LinkTypeOK

\* Falling back from the socket to the queue duplicates nothing: a line
\* that reached a client is in its queue no more, and never comes again.
LineAtMostOnce ==
    \A c \in Client :
      LET got == received[c]
      IN /\ \A i, j \in DOMAIN got : got[i].line = got[j].line => i = j
         /\ \A i \in DOMAIN got, k \in DOMAIN queue[c] : got[i].line # queue[c][k]

\* The lines of one task reach a client in the order they were sent, except
\* that one written directly may overtake one still in the queue.
OvertakenOnlyByDirect ==
    \A c \in Client :
      LET got == received[c]
      IN \A i, j \in DOMAIN got :
           (i < j /\ got[i].line[1] = got[j].line[1] /\ got[i].line[2] > got[j].line[2])
           => got[i].via = "direct" /\ got[j].via = "queue"

\* Two tasks that send at a time never write into each other's frames: only
\* the worker, which writes without clients_mutex, can.
SendersNeverMix ==
    \A c \in Client, s, t \in Sender :
      {s, t} \subseteq InFrame(c) => s = t

\* Every listed client has its queue.  A queue is deleted under a worker
\* that still uses it, and then a second time, only when a sender has
\* removed the client after a failed send.
QueueLife ==
    \A c \in Client :
      /\ c \in clients => queueState[c] = "live"
      /\ queueState[c] = "twice" => c \in removed
      /\ httpd.at = c /\ queueState[c] = "deleted" => c \in removed

\* No command from the serial line is lost or overtaken by another, however
\* full queueFromPc is; one from WiFi may be dropped but comes only once and
\* in order.
CommandsInOrder ==
    LET way == taken \o queueFromPc \o hand
    IN /\ \A i, j \in DOMAIN way :
             i < j /\ way[i][1] = way[j][1] => way[i][2] < way[j][2]
       /\ {way[i][2] : i \in {j \in DOMAIN way : way[j][1] = "uart"}} = 1 .. typed

\* A client that does not read holds the dispatcher up, at most 50 ms for
\* each line, and never for good: it comes back to receive commands.
DispatcherGoesOn == []<>(sender[Dispatcher] = AtRest)
=============================================================================
