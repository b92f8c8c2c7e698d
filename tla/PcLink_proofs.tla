---------------------------- MODULE PcLink_proofs ----------------------------
(***************************************************************************)
(* Proofs about PcLink: its types, the mutual exclusion of the senders,    *)
(* the life of a client's queue, the provisioning, and the order of the    *)
(* lines to a client and of the commands to the dispatcher.                *)
(***************************************************************************)
EXTENDS PcLink, SequenceTheorems, TLAPS

-----------------------------------------------------------------------------
(* Types.  A sender in the middle of a line has a line, one that writes or *)
(* waits for a queue has a client, and so has the worker.                  *)

Places ==
    /\ \A s \in Sender :
         /\ sender[s].pc # "idle" => count[s] > 0
         /\ sender[s].pc \in {"payload", "queue"} => sender[s].at \in Client
    /\ httpd.pc \in {"work", "recv", "write", "put"} => httpd.at \in Client

WsTypes == WsTypeOK /\ Places

LEMMA LineTypes ==
    ASSUME WsTypes, NEW s \in Sender, sender[s].pc # "idle"
    PROVE  CurrentLine(s) \in Line
BY WsAssumption DEF WsTypes, WsTypeOK, Places, CurrentLine, Line

LEMMA ArriveTypes ==
    ASSUME WsTypes, NEW c \in Client, NEW line \in Line \cup {EchoLine},
           NEW via \in {"direct", "queue"}, Arrive(c, line, via)
    PROVE  received' \in [Client -> Seq([line : Line, via : {"direct", "queue"}])]
<1>1. CASE line = EchoLine
  BY <1>1 DEF Arrive, WsTypes, WsTypeOK
<1>2. CASE line # EchoLine
  <2> DEFINE Got == [line : Line, via : {"direct", "queue"}]
  <2>1. [line |-> line, via |-> via] \in Got
    BY <1>2
  <2>2. received \in [Client -> Seq(Got)]
    BY DEF WsTypes, WsTypeOK
  <2> HIDE DEF Got
  <2>3. Append(received[c], [line |-> line, via |-> via]) \in Seq(Got)
    BY <2>1, <2>2
  <2>4. \/ received' = received
        \/ received' = [received EXCEPT ![c] = Append(received[c], [line |-> line, via |-> via])]
    BY DEF Arrive
  <2>5. received' \in [Client -> Seq(Got)]
    BY <2>2, <2>3, <2>4
  <2> QED  BY <2>5 DEF Got
<1> QED  BY <1>1, <1>2

\* A sender's record after one step of it.
LEMMA SenderMoves ==
    ASSUME WsTypes, NEW s \in Sender, NEW r, sender' = [sender EXCEPT ![s] = r],
           r \in [pc : SenderSteps, todo : SUBSET Client, at : Client \cup {NoClient}],
           r.pc # "idle" => count'[s] > 0,
           r.pc \in {"payload", "queue"} => r.at \in Client,
           \A t \in Sender : t # s => count'[t] = count[t],
           httpd' = httpd
    PROVE  /\ Places'
           /\ sender' \in [Sender -> [pc : SenderSteps, todo : SUBSET Client,
                                      at : Client \cup {NoClient}]]
BY DEF WsTypes, WsTypeOK, Places

LEMMA BeginLineTypes ==
    ASSUME WsTypes, NEW s \in Sender, BeginLine(s), active' = active
    PROVE  WsTypes'
<1>1. count' \in [Sender -> 0 .. MaxLine] /\ count'[s] > 0
  BY WsAssumption DEF BeginLine, WsTypes, WsTypeOK
<1>2. /\ Places'
      /\ sender' \in [Sender -> [pc : SenderSteps, todo : SUBSET Client,
                                 at : Client \cup {NoClient}]]
  <2>1. CASE active
    BY <1>1, <2>1, SenderMoves DEF BeginLine, Turn, SenderSteps, WsTypes, WsTypeOK
  <2>2. CASE ~active
    BY <2>2, <1>1 DEF BeginLine, WsTypes, WsTypeOK, Places
  <2> QED  BY <2>1, <2>2
<1> QED  BY <1>1, <1>2 DEF BeginLine, WsTypes, WsTypeOK

LEMMA SendTypes ==
    ASSUME WsTypes, NEW s \in Sender, Lock(s) \/ SendStep(s), active' = active
    PROVE  WsTypes'
<1> DEFINE Now == sender[s]
<1>0. /\ Now \in [pc : SenderSteps, todo : SUBSET Client, at : Client \cup {NoClient}]
      /\ sender \in [Sender -> [pc : SenderSteps, todo : SUBSET Client,
                                at : Client \cup {NoClient}]]
      /\ Now.pc # "idle" => count[s] > 0
      /\ Now.pc \in {"payload", "queue"} => Now.at \in Client
  BY DEF WsTypes, WsTypeOK, Places
<1> USE <1>0 DEF SenderSteps, Turn
<1>1. CASE Lock(s)
  <2>1. Places' /\ sender' \in [Sender -> [pc : SenderSteps, todo : SUBSET Client,
                                          at : Client \cup {NoClient}]]
    BY <1>1, SenderMoves DEF Lock, WsTypes, WsTypeOK
  <2> QED  BY <1>1, <2>1 DEF Lock, WsTypes, WsTypeOK
<1>2. CASE Unlock(s)
  <2>1. Places' /\ sender' \in [Sender -> [pc : SenderSteps, todo : SUBSET Client,
                                          at : Client \cup {NoClient}]]
    BY <1>2, SenderMoves DEF Unlock
  <2> QED  BY <1>2, <2>1 DEF Unlock, WsTypes, WsTypeOK
<1>3. ASSUME Leave(s), Now.pc \in {"payload", "queue"}, UNCHANGED <<count, httpd>>
      PROVE  Places' /\ sender' \in [Sender -> [pc : SenderSteps, todo : SUBSET Client,
                                               at : Client \cup {NoClient}]]
  BY <1>3, SenderMoves DEF Leave
<1>4. CASE DirectPayload(s)
  <2>1. received' \in [Client -> Seq([line : Line, via : {"direct", "queue"}])]
    BY <1>4, LineTypes, ArriveTypes DEF DirectPayload
  <2> QED  BY <1>4, <1>3, <2>1 DEF DirectPayload, WsTypes, WsTypeOK
<1>5. CASE PayloadCut(s)
  <2>1. Places' /\ sender' \in [Sender -> [pc : SenderSteps, todo : SUBSET Client,
                                          at : Client \cup {NoClient}]]
    BY <1>5, SenderMoves DEF PayloadCut
  <2> QED  BY <1>5, <2>1 DEF PayloadCut, WsTypes, WsTypeOK
<1>6. CASE EnqueueLine(s)
  <2>1. CurrentLine(s) \in Line /\ Now.at \in Client
    BY <1>6, LineTypes DEF EnqueueLine
  <2>2. /\ queue' \in [Client -> Seq(Line)]
        /\ \A c \in Client : Len(queue'[c]) <= ClientQueueLength
    BY <1>6, <2>1, WsAssumption DEF EnqueueLine, WsTypes, WsTypeOK
  <2> QED  BY <1>3, <1>6, <2>2 DEF EnqueueLine, WsTypes, WsTypeOK
<1>7. CASE DropLine(s)
  BY <1>3, <1>7 DEF DropLine, WsTypes, WsTypeOK
<1>8. ASSUME NEW c \in Client, NEW step \in {"payload", "queue"},
             Visit(s, c, step), UNCHANGED <<count, httpd>>
      PROVE  Places' /\ sender' \in [Sender -> [pc : SenderSteps, todo : SUBSET Client,
                                               at : Client \cup {NoClient}]]
  BY <1>8, SenderMoves DEF Visit
<1>9. ASSUME NEW c \in Client, DirectHeader(s, c) \/ DirectBlocks(s, c)
      PROVE  WsTypes'
  BY <1>8, <1>9 DEF DirectHeader, DirectBlocks, Header, WsTypes, WsTypeOK
<1>10. ASSUME NEW c \in Client, DirectFails(s, c)
       PROVE  WsTypes'
  <2>1. Places' /\ sender' \in [Sender -> [pc : SenderSteps, todo : SUBSET Client,
                                          at : Client \cup {NoClient}]]
    BY <1>10, SenderMoves DEF DirectFails
  <2> QED  BY <1>10, <2>1 DEF DirectFails, WsTypes, WsTypeOK
<1> QED
  BY <1>1, <1>2, <1>4, <1>5, <1>6, <1>7, <1>9, <1>10 DEF SendStep

LEMMA EndTypes ==
    ASSUME WsTypes, NEW c \in Client, EndClient(c), active' = active
    PROVE  WsTypes'
BY DEF WsTypes, WsTypeOK, Places, EndClient, ForgetClient, HttpdIdle, HttpdSteps

LEMMA HttpdTypes ==
    ASSUME WsTypes, active' = active,
           \/ WorkerStep
           \/ \E c \in Client : WsHandler(c) \/ PeerLeaves(c)
    PROVE  WsTypes'
<1> USE DEF WsTypes, WsTypeOK, Places, HttpdSteps
<1>1. CASE QueueWork
  <2>1. httpd.at \in Client
    BY <1>1 DEF QueueWork
  <2>2. work' \in Seq(Client)
    BY <1>1, <2>1 DEF QueueWork
  <2>3. WsTypeOK'
    BY <1>1, <2>2 DEF QueueWork, HttpdIdle
  <2>4. Places'
    BY <1>1 DEF QueueWork, HttpdIdle
  <2> QED  BY <2>3, <2>4
<1>2. CASE NoWorkerArg
  BY <1>2 DEF NoWorkerArg, HttpdIdle
<1>3. CASE QueueWorkFails
  BY <1>3, EndTypes DEF QueueWorkFails
<1>4. CASE StartWorker
  <2>1. Head(work) \in Client /\ work' \in Seq(Client)
    BY <1>4 DEF StartWorker
  <2>2. WsTypeOK'
    BY <1>4, <2>1 DEF StartWorker
  <2>3. Places'
    BY <1>4, <2>1 DEF StartWorker
  <2> QED  BY <2>2, <2>3
<1>5. CASE Drain
  <2>1. httpd.at \in Client
    BY <1>5 DEF Drain
  <2>2. /\ queue' \in [Client -> Seq(Line)]
        /\ \A c \in Client : Len(queue'[c]) <= ClientQueueLength
        /\ Head(queue[httpd.at]) \in Line
    BY <1>5, <2>1, WsAssumption DEF Drain
  <2>3. garbled' \subseteq Client
    BY <1>5, <2>1 DEF Drain, Header
  <2> QED  BY <1>5, <2>1, <2>2, <2>3 DEF Drain
<1>6. CASE WorkerPayload
  <2>1. received' \in [Client -> Seq([line : Line, via : {"direct", "queue"}])]
    BY <1>6, ArriveTypes DEF WorkerPayload
  <2> QED  BY <1>6, <2>1 DEF WorkerPayload
<1>7. CASE WorkerPayloadCut
  BY <1>7 DEF WorkerPayloadCut
<1>8. CASE WorkerLeaves
  BY <1>8, EndTypes DEF WorkerLeaves
<1>9. ASSUME NEW c \in Client, WsHandler(c)
      PROVE  WsTypes'
  BY <1>9 DEF WsHandler
<1>10. ASSUME NEW c \in Client, PeerLeaves(c)
       PROVE  WsTypes'
  BY <1>10 DEF PeerLeaves
<1> QED
  BY <1>1, <1>2, <1>3, <1>4, <1>5, <1>6, <1>7, <1>8, <1>9, <1>10 DEF WorkerStep

LEMMA StationTypes ==
    ASSUME StationTypeOK,
           \/ ConfigureBoot \/ WaitBoot \/ StartServer \/ StationEvent
           \/ \E c \in Credential : TryConnect(c)
           \/ Provision \/ AttemptFails
    PROVE  StationTypeOK'
<1> USE StationAssumption DEF StationTypeOK
<1>1. CASE ConfigureBoot \/ WaitBoot \/ StartServer
  BY <1>1 DEF ConfigureBoot, WaitBoot, StartServer
<1>2. CASE StationEvent
  BY <1>2 DEF StationEvent, GotIp, Disconnected
<1>3. ASSUME NEW c \in Credential, TryConnect(c)
      PROVE  StationTypeOK'
  BY <1>3 DEF TryConnect
<1>4. CASE Provision
  BY <1>4 DEF Provision
<1>5. CASE AttemptFails
  BY <1>5 DEF AttemptFails
<1> QED  BY <1>1, <1>2, <1>3, <1>4, <1>5

LEMMA CommandTypes == \A n \in Nat : <<"uart", n>> \in Command /\ <<"web", n>> \in Command
BY DEF Command

\* A part of the budget that is spent.
Budget == [saved : Credential \cup {NoCredential}, clients : SUBSET Client,
           lines : Nat, uart : Nat, web : Nat, attempts : Nat]

LEMMA BudgetTypes ==
    ASSUME budget \in Budget,
           \/ budget.uart > 0 /\ budget' = [budget EXCEPT !.uart = @ - 1]
           \/ budget.web > 0 /\ budget' = [budget EXCEPT !.web = @ - 1]
           \/ budget.lines > 0 /\ budget' = [budget EXCEPT !.lines = @ - 1]
           \/ budget.attempts > 0 /\ budget' = [budget EXCEPT !.attempts = @ - 1]
    PROVE  budget' \in Budget
<1>1. \A n \in Nat : n > 0 => n - 1 \in Nat
  OBVIOUS
<1> QED  BY <1>1 DEF Budget

LEMMA TypesInit == Init => TypeOK /\ Places
<1> SUFFICES ASSUME Init PROVE TypeOK /\ Places
  OBVIOUS
<1>1. budget.saved \in Credential \cup {NoCredential}
  BY LinkAssumption DEF Init
<1>2. StationTypeOK
  BY <1>1, StationAssumption DEF Init, StationInit, StationTypeOK
<1>3. WsTypeOK /\ Places
  <2> USE DEF Init, WsInit
  <2>1. /\ count \in [Sender -> 0 .. MaxLine]
        /\ socket \in [Client -> {"new", "open", "left"}]
        /\ queue \in [Client -> Seq(Line)]
        /\ \A c \in Client : Len(queue[c]) <= ClientQueueLength
        /\ received \in [Client -> Seq([line : Line, via : {"direct", "queue"}])]
    BY WsAssumption
  <2>2. sender \in [Sender -> [pc : SenderSteps, todo : SUBSET Client,
                              at : Client \cup {NoClient}]]
    BY DEF AtRest, SenderSteps
  <2>3. httpd \in [pc : HttpdSteps, at : Client \cup {NoClient}, line : Line \cup {EchoLine}]
    BY DEF HttpdIdle, HttpdSteps
  <2>4. WsTypeOK
    <3>1. /\ active \in BOOLEAN
          /\ clients \subseteq Client /\ removed \subseteq Client /\ garbled \subseteq Client
          /\ mutex \in Sender \cup {"free"}
          /\ queueState \in [Client -> {"none", "live", "deleted", "twice"}]
      OBVIOUS
    <3>2. work \in Seq(Client)
      OBVIOUS
    <3> QED  BY <2>1, <2>2, <2>3, <3>1, <3>2 DEF WsTypeOK
  <2> QED  BY <2>4 DEF Places, AtRest, HttpdIdle
<1>4. LinkTypeOK
  BY LinkAssumption DEF Init, LinkTypeOK
<1> QED  BY <1>2, <1>3, <1>4 DEF TypeOK

\* What a step does to the three parts of the state: the senders and the
\* clients, the station, the commands on their way.
LEMMA TypesStep == TypeOK /\ Places /\ [Next]_vars => TypeOK' /\ Places'
<1> SUFFICES ASSUME WsTypes, StationTypeOK, LinkTypeOK, [Next]_vars
             PROVE  WsTypes' /\ StationTypeOK' /\ LinkTypeOK'
  BY DEF TypeOK, WsTypes
<1>1. ASSUME UNCHANGED <<active, sendVars>> PROVE WsTypes'
  BY <1>1 DEF sendVars, WsTypes, WsTypeOK, Places
<1>2. ASSUME UNCHANGED stationVars PROVE StationTypeOK'
  BY <1>2 DEF stationVars, StationTypeOK
<1>3. ASSUME UNCHANGED linkVars PROVE LinkTypeOK'
  BY <1>3 DEF linkVars, LinkTypeOK
<1>4. CASE Typed
  <2>1. LinkTypeOK'
    <3>0. typed' \in Nat
      BY <1>4 DEF Typed, LinkTypeOK
    <3>1. hand' \in Seq(Command) /\ Len(hand') = 1
      <4>1. \A x \in Command : <<x>> \in Seq(Command) /\ Len(<<x>>) = 1
        OBVIOUS
      <4>2. <<"uart", typed'>> \in Command
        BY <3>0, CommandTypes
      <4>3. hand' = <<<<"uart", typed'>>>>
        BY <1>4 DEF Typed
      <4> QED  BY <4>1, <4>2, <4>3
    <3>2. budget' \in Budget
      BY <1>4, BudgetTypes DEF Typed, LinkTypeOK, Budget
    <3>3. UNCHANGED <<asked, queueFromPc, taken>>
      BY <1>4 DEF Typed
    <3> QED  BY <3>0, <3>1, <3>2, <3>3 DEF LinkTypeOK, Budget
  <2> QED  BY <1>1, <1>2, <1>4, <2>1 DEF Typed
<1>5. CASE UartPut
  <2>1. LinkTypeOK'
    BY <1>5, LinkAssumption DEF UartPut, HasRoom, LinkTypeOK
  <2> QED  BY <1>1, <1>2, <1>5, <2>1 DEF UartPut
<1>6. ASSUME NEW at \in Client \cup {NoClient}, NEW pc \in HttpdSteps, Ask(at, pc),
             UNCHANGED <<typed, hand, queueFromPc, taken, active, garbled, httpdRest>>,
             pc = "post" \/ at \in Client
      PROVE  WsTypes' /\ LinkTypeOK'
  <2>1. httpd' \in [pc : HttpdSteps, at : Client \cup {NoClient},
                    line : Line \cup {EchoLine}]
    BY <1>6 DEF Ask, WsTypes, WsTypeOK
  <2>2. WsTypes'
    BY <1>6, <2>1 DEF Ask, httpdRest, WsTypes, WsTypeOK, Places
  <2>3. LinkTypeOK'
    <3>1. budget' \in Budget
      BY <1>6, BudgetTypes DEF Ask, LinkTypeOK, Budget
    <3>2. asked' \in Nat
      BY <1>6 DEF Ask, LinkTypeOK
    <3>3. UNCHANGED <<typed, hand, queueFromPc, taken>>
      BY <1>6
    <3> QED  BY <3>1, <3>2, <3>3 DEF LinkTypeOK, Budget
  <2> QED  BY <2>2, <2>3
<1>7. CASE PostSend
  BY <1>2, <1>6, <1>7 DEF PostSend, HttpdSteps
<1>8. CASE TextFrame
  <2>1. httpd.at \in Client
    BY <1>8 DEF TextFrame, WsTypes, Places
  <2> QED  BY <1>2, <1>6, <1>8, <2>1 DEF TextFrame, HttpdSteps
<1>9. ASSUME PutOrDrop PROVE LinkTypeOK' /\ StationTypeOK'
  <2>1. queueFromPc' \in Seq(Command) /\ Len(queueFromPc') <= CommandLength
    <3>1. <<"web", asked>> \in Command
      BY CommandTypes DEF LinkTypeOK
    <3> QED  BY <1>9, <3>1, LinkAssumption DEF PutOrDrop, HasRoom, LinkTypeOK
  <2>2. LinkTypeOK'
    BY <1>9, <2>1 DEF PutOrDrop, LinkTypeOK
  <2> QED  BY <1>2, <1>9, <2>2 DEF PutOrDrop
<1>10. CASE PostPut
  <2>1. WsTypes'
    BY <1>10 DEF PostPut, PutOrDrop, httpdRest, HttpdIdle, HttpdSteps, WsTypes,
                 WsTypeOK, Places
  <2> QED  BY <1>9, <1>10, <2>1 DEF PostPut
<1>11. CASE TextPut
  <2>1. httpd.at \in Client
    BY <1>11 DEF TextPut, WsTypes, Places
  <2>2. httpd' \in [pc : HttpdSteps, at : Client \cup {NoClient},
                    line : Line \cup {EchoLine}]
        /\ httpd'.at \in Client
    BY <1>11, <2>1 DEF TextPut, HttpdSteps, WsTypes, WsTypeOK
  <2>3. garbled' \subseteq Client
    BY <1>11, <2>1 DEF TextPut, Header, WsTypes, WsTypeOK
  <2>4. WsTypes'
    BY <1>11, <2>2, <2>3 DEF TextPut, PutOrDrop, httpdRest, WsTypes, WsTypeOK, Places
  <2> QED  BY <1>9, <1>11, <2>4 DEF TextPut
<1>12. CASE SetWifi
  <2>1. WsTypes'
    BY <1>12 DEF SetWifi, httpdRest, HttpdIdle, HttpdSteps, WsTypes, WsTypeOK, Places
  <2>2. StationTypeOK'
    BY <1>12, StationTypes DEF SetWifi
  <2>3. LinkTypeOK'
    <3>1. budget' \in Budget
      BY <1>12, BudgetTypes DEF SetWifi, LinkTypeOK, Budget
    <3>2. UNCHANGED <<typed, hand, asked, queueFromPc, taken>>
      BY <1>12 DEF SetWifi
    <3> QED  BY <3>1, <3>2 DEF LinkTypeOK, Budget
  <2> QED  BY <2>1, <2>2, <2>3
<1>13. CASE SetWifiDone
  <2>1. WsTypes'
    BY <1>13 DEF SetWifiDone, httpdRest, HttpdIdle, HttpdSteps, WsTypes, WsTypeOK, Places
  <2> QED  BY <1>3, <1>13, <2>1, StationTypes DEF SetWifiDone
<1>14. CASE Boot
  <2>1. CASE active' = active /\ UNCHANGED sendVars
    BY <1>1, <1>3, <1>14, <2>1, StationTypes DEF Boot
  <2>2. CASE active' \in BOOLEAN /\ UNCHANGED sendVars
    <3>1. WsTypes'
      BY <2>2 DEF sendVars, WsTypes, WsTypeOK, Places
    <3> QED  BY <1>3, <1>14, <3>1, StationTypes DEF Boot
  <2> QED  BY <1>14, <2>1, <2>2 DEF Boot
<1>15. CASE Take
  <2>1. Head(queueFromPc) \in Command
    BY <1>15 DEF Take, LinkTypeOK
  <2>2. LinkTypeOK'
    BY <1>15, <2>1, LinkAssumption DEF Take, LinkTypeOK
  <2>3. WsTypes'
    BY <1>1, <1>15, BeginLineTypes, LinkAssumption DEF Take
  <2> QED  BY <1>2, <1>15, <2>2, <2>3 DEF Take
<1>16. CASE Serve
  <2>1. WsTypes'
    BY <1>16, HttpdTypes, LinkAssumption DEF Serve, LinkTypeOK
  <2> QED  BY <1>2, <1>3, <1>16, <2>1 DEF Serve
<1>17. CASE Peer
  BY <1>2, <1>3, <1>17, HttpdTypes DEF Peer
<1>18. CASE Event
  BY <1>1, <1>3, <1>18, StationTypes DEF Event
<1>19. ASSUME NEW s \in Sender, Produce(s)
       PROVE  WsTypes' /\ StationTypeOK' /\ LinkTypeOK'
  <2>1. LinkTypeOK'
    <3>1. budget' \in Budget
      BY <1>19, BudgetTypes DEF Produce, LinkTypeOK, Budget
    <3>2. UNCHANGED <<typed, hand, asked, queueFromPc, taken>>
      BY <1>19 DEF Produce
    <3> QED  BY <3>1, <3>2 DEF LinkTypeOK, Budget
  <2> QED  BY <1>2, <1>19, <2>1, BeginLineTypes DEF Produce
<1>20. ASSUME NEW s \in Sender, Send(s)
       PROVE  WsTypes' /\ StationTypeOK' /\ LinkTypeOK'
  BY <1>2, <1>3, <1>20, SendTypes DEF Send
<1>21. CASE UNCHANGED vars
  BY <1>1, <1>2, <1>3, <1>21 DEF vars
<1> QED
  BY <1>4, <1>5, <1>7, <1>8, <1>10, <1>11, <1>12, <1>13, <1>14, <1>15, <1>16, <1>17,
     <1>18, <1>19, <1>20, <1>21 DEF Next

LEMMA TypesAlways == Spec => [](TypeOK /\ Places)
BY TypesInit, TypesStep, PTL DEF Spec

\* The values of every variable stay in their types, and the queues of
\* clients and of commands within their lengths, for any number of clients,
\* senders, lines and commands.
THEOREM LinkTypeCorrect == Spec => []TypeOK
BY TypesAlways, PTL

-----------------------------------------------------------------------------
(* The senders and the clients' queues.                                    *)

Inside(s) == sender[s].pc \in {"each", "payload", "queue"}

\* The sender that goes through the clients holds the mutex; what it has
\* still to visit is listed.
Holding ==
    \A s \in Sender :
      /\ Inside(s) => mutex = s /\ sender[s].todo \subseteq clients
      /\ mutex = s => Inside(s)

\* The clients whose worker will run or runs.
InWork(c) == \E i \in 1 .. Len(work) : work[i] = c

\* A worker is started once for a client.
OneWorker ==
    /\ \A i, j \in 1 .. Len(work) : work[i] = work[j] => i = j
    /\ \A c \in Client : httpd.at = c => ~InWork(c)
    /\ httpd.pc \in {"idle", "post", "setwifi"} => httpd.at = NoClient

\* The life of a queue: it begins with the connection, and a client that
\* still has a worker to come has lost its queue to a sender only.
Life ==
    \A c \in Client :
      /\ c \in clients => queueState[c] = "live"
      /\ queueState[c] = "twice" => c \in removed
      /\ (httpd.at = c \/ InWork(c)) /\ queueState[c] = "deleted" => c \in removed
      /\ (httpd.at = c \/ InWork(c)) => queueState[c] # "twice" /\ socket[c] # "new"
      /\ socket[c] = "new" => queueState[c] = "none"

LifeInv == Holding /\ OneWorker /\ Life

LEMMA LifeInit == Init => LifeInv
BY WsAssumption
DEF Init, WsInit, LifeInv, Holding, OneWorker, Life, Inside, InWork, AtRest, HttpdIdle

lifeVars == <<clients, mutex, sender, socket, queueState, work, removed>>

\* Steps that only move the worker on, with the client it has.
LEMMA WorkerGoesOn ==
    ASSUME WsTypes, LifeInv, UNCHANGED lifeVars, httpd'.at = httpd.at,
           httpd'.pc \in {"idle", "post", "setwifi"} => httpd.at = NoClient
    PROVE  LifeInv'
BY DEF lifeVars, LifeInv, Holding, OneWorker, Life, Inside, InWork

\* Steps of a sender that leave clients, queues and worker alone.
LEMMA SenderGoesOn ==
    ASSUME WsTypes, LifeInv, NEW s \in Sender, NEW pc, NEW todo, NEW at,
           Turn(s, pc, todo, at),
           UNCHANGED <<clients, socket, queueState, work, httpd, removed>>,
           \/ Inside(s) /\ pc \in {"each", "payload", "queue"}
              /\ mutex' = mutex /\ todo \subseteq sender[s].todo
           \/ ~Inside(s) /\ pc \in {"each", "payload", "queue"}
              /\ mutex = "free" /\ mutex' = s /\ todo \subseteq clients
           \/ Inside(s) /\ pc = "idle" /\ mutex' = "free"
           \/ ~Inside(s) /\ pc = "lock" /\ mutex' = mutex
    PROVE  LifeInv'
<1>1. /\ sender'[s] = [pc |-> pc, todo |-> todo, at |-> at]
      /\ \A t \in Sender : t # s => sender'[t] = sender[t]
  BY DEF Turn, WsTypes, WsTypeOK
<1>2. \A t \in Sender : Inside(t) => mutex = t /\ t # "free"
  BY WsAssumption DEF LifeInv, Holding
<1>3. Holding'
  BY <1>1, <1>2, WsAssumption DEF LifeInv, Holding, Inside
<1>4. OneWorker' /\ Life'
  BY DEF LifeInv, OneWorker, Life, InWork
<1> QED  BY <1>3, <1>4 DEF LifeInv

LEMMA SendLife ==
    ASSUME WsTypes, LifeInv, NEW s \in Sender, Lock(s) \/ SendStep(s)
    PROVE  LifeInv'
<1>0. Inside(s) => sender[s].todo \subseteq clients
  BY DEF LifeInv, Holding
<1>1. CASE Lock(s)
  BY <1>1, SenderGoesOn DEF Lock, Inside
<1>2. CASE Unlock(s)
  BY <1>2, SenderGoesOn DEF Unlock, Inside
<1>3. CASE DirectPayload(s) \/ EnqueueLine(s) \/ DropLine(s)
  BY <1>3, SenderGoesOn DEF DirectPayload, EnqueueLine, DropLine, Leave, Inside
<1>4. CASE PayloadCut(s)
  BY <1>4, SenderGoesOn DEF PayloadCut, Inside
<1>5. ASSUME NEW c \in Client, DirectHeader(s, c) \/ DirectBlocks(s, c)
      PROVE  LifeInv'
  BY <1>5, SenderGoesOn DEF DirectHeader, DirectBlocks, Visit, Inside
<1>6. ASSUME NEW c \in Client, DirectFails(s, c)
      PROVE  LifeInv'
  <2>1. /\ sender'[s] = [pc |-> "each", todo |-> sender[s].todo \ {c}, at |-> NoClient]
        /\ \A t \in Sender : t # s => sender'[t] = sender[t]
        /\ Inside(s)
    BY <1>6 DEF DirectFails, Turn, Inside, WsTypes, WsTypeOK
  <2>2. Holding'
    BY <1>6, <2>1 DEF DirectFails, LifeInv, Holding, Inside
  <2>3. OneWorker'
    BY <1>6 DEF DirectFails, LifeInv, OneWorker, InWork
  <2>4. c \in clients
    BY <1>0, <1>6, <2>1 DEF DirectFails
  <2>5. /\ queueState'[c] = "deleted" /\ c \in removed'
        /\ \A d \in Client : d # c => queueState'[d] = queueState[d]
    BY <1>6 DEF DirectFails, WsTypes, WsTypeOK
  <2>6. Life'
    BY <1>6, <2>4, <2>5 DEF DirectFails, LifeInv, Life, InWork
  <2> QED  BY <2>2, <2>3, <2>6 DEF LifeInv
<1> QED  BY <1>1, <1>2, <1>3, <1>4, <1>5, <1>6 DEF SendStep

LEMMA BeginLife ==
    ASSUME WsTypes, LifeInv, NEW s \in Sender, BeginLine(s)
    PROVE  LifeInv'
<1>1. ~Inside(s)
  BY DEF BeginLine, AtRest, Inside
<1>2. CASE active
  BY <1>1, <1>2, SenderGoesOn DEF BeginLine
<1>3. CASE ~active
  BY <1>3, WorkerGoesOn
  DEF BeginLine, lifeVars, LifeInv, OneWorker
<1> QED  BY <1>2, <1>3

LEMMA EndLife ==
    ASSUME WsTypes, LifeInv, NEW c \in Client, httpd.at = c, EndClient(c)
    PROVE  LifeInv'
<1>1. ~InWork(c) /\ queueState[c] # "twice"
  BY DEF LifeInv, OneWorker, Life
<1>2. /\ \A d \in Client : d # c => queueState'[d] = queueState[d] /\ socket'[d] = socket[d]
      /\ socket'[c] = "left" /\ clients' \subseteq clients
      /\ httpd'.at = NoClient /\ httpd'.pc = "idle" /\ c \notin clients'
  BY DEF EndClient, ForgetClient, HttpdIdle, WsTypes, WsTypeOK, LifeInv, Life
<1>3. CASE queueState[c] # "none" /\ mutex = "free" /\ ForgetClient(c)
  <2>1. Holding'
    BY <1>3, WsAssumption DEF EndClient, LifeInv, Holding, Inside
  <2>2. OneWorker'
    BY <1>2, WsAssumption DEF EndClient, LifeInv, OneWorker, InWork
  <2>3. /\ queueState[c] = "live" => queueState'[c] = "deleted"
        /\ queueState[c] = "deleted" => queueState'[c] = "twice" /\ c \in removed
    BY <1>3 DEF ForgetClient, WsTypes, WsTypeOK, LifeInv, Life
  <2>4. Life'
    BY <1>1, <1>2, <1>3, <2>3, WsAssumption
    DEF EndClient, WsTypes, WsTypeOK, LifeInv, Life, InWork
  <2> QED  BY <2>1, <2>2, <2>4 DEF LifeInv
<1>4. CASE queueState[c] = "none" /\ UNCHANGED <<clients, queueState>>
  <2>1. Holding'
    BY <1>4 DEF EndClient, LifeInv, Holding, Inside
  <2>2. OneWorker'
    BY <1>2, WsAssumption DEF EndClient, LifeInv, OneWorker, InWork
  <2>3. Life'
    BY <1>1, <1>2, <1>4, WsAssumption
    DEF EndClient, LifeInv, Life, InWork
  <2> QED  BY <2>1, <2>2, <2>3 DEF LifeInv
<1> QED  BY <1>3, <1>4 DEF EndClient

LEMMA HttpdLife ==
    ASSUME WsTypes, LifeInv,
           \/ WorkerStep
           \/ \E c \in Client : WsHandler(c) \/ PeerLeaves(c)
    PROVE  LifeInv'
<1>1. CASE QueueWork
  <2>1. /\ httpd.at \in Client /\ ~InWork(httpd.at)
        /\ Len(work') = Len(work) + 1 /\ work'[Len(work) + 1] = httpd.at
        /\ \A i \in 1 .. Len(work) : work'[i] = work[i]
        /\ httpd'.at = NoClient /\ httpd'.pc = "idle"
    BY <1>1 DEF QueueWork, HttpdIdle, LifeInv, OneWorker, WsTypes, WsTypeOK, Places
  <2>n. Len(work) \in Nat
    BY DEF WsTypes, WsTypeOK
  <2>i. \A i \in 1 .. Len(work') : i \in 1 .. Len(work) \/ i = Len(work) + 1
    BY <2>1, <2>n
  <2>2. \A c \in Client : InWork(c)' => c = httpd.at \/ InWork(c)
    BY <2>1, <2>i DEF InWork
  <2>3. OneWorker'
    <3>1. ASSUME NEW i \in 1 .. Len(work'), NEW j \in 1 .. Len(work'), work'[i] = work'[j]
          PROVE  i = j
      BY <2>1, <2>i, <3>1 DEF InWork, LifeInv, OneWorker
    <3>2. \A c \in Client : httpd'.at # c
      BY <2>1, WsAssumption
    <3> QED  BY <2>1, <3>1, <3>2 DEF OneWorker
  <2>4. Life'
    BY <1>1, <2>1, <2>2, WsAssumption DEF QueueWork, LifeInv, Life
  <2>5. Holding'
    BY <1>1 DEF QueueWork, LifeInv, Holding, Inside
  <2> QED  BY <2>3, <2>4, <2>5 DEF LifeInv
<1>2. CASE NoWorkerArg
  <2>1. /\ httpd.at \in Client
        /\ \A c \in Client : socket'[c] = "new" => socket[c] = "new"
        /\ httpd'.at = NoClient /\ httpd'.pc = "idle"
    BY <1>2 DEF NoWorkerArg, HttpdIdle, WsTypes, WsTypeOK, Places
  <2>2. OneWorker' /\ Holding'
    BY <1>2, <2>1, WsAssumption
    DEF NoWorkerArg, LifeInv, OneWorker, Holding, Inside, InWork
  <2>3. Life'
    BY <1>2, <2>1, WsAssumption DEF NoWorkerArg, LifeInv, Life, InWork
  <2> QED  BY <2>2, <2>3 DEF LifeInv
<1>3. CASE QueueWorkFails \/ WorkerLeaves
  BY <1>3, EndLife DEF QueueWorkFails, WorkerLeaves, WsTypes, Places
<1>4. CASE StartWorker
  <2>1. /\ Head(work) = work[1] /\ work[1] \in Client /\ Len(work) > 0
        /\ Len(work') = Len(work) - 1
        /\ \A i \in 1 .. Len(work') : work'[i] = work[i + 1]
        /\ httpd'.at = work[1] /\ httpd'.pc = "recv"
    BY <1>4 DEF StartWorker, WsTypes, WsTypeOK
  <2>n. Len(work) \in Nat
    BY DEF WsTypes, WsTypeOK
  <2>i. 1 \in 1 .. Len(work)
        /\ \A i \in 1 .. Len(work') : i + 1 \in 1 .. Len(work) /\ i + 1 # 1
    BY <2>1, <2>n
  <2>2. \A c \in Client : InWork(c)' => InWork(c)
    BY <2>1, <2>i DEF InWork
  <2>3. InWork(work[1])
    BY <2>i DEF InWork
  <2>4. \A i \in 1 .. Len(work') : work'[i] # work[1]
    BY <2>1, <2>i DEF LifeInv, OneWorker
  <2>5. OneWorker'
    <3>1. ASSUME NEW i \in 1 .. Len(work'), NEW j \in 1 .. Len(work'), work'[i] = work'[j]
          PROVE  i = j
      <4>1. i + 1 = j + 1
        BY <2>1, <2>i, <3>1 DEF LifeInv, OneWorker
      <4> QED  BY <4>1
    <3>2. \A c \in Client : httpd'.at = c => ~(\E i \in 1 .. Len(work') : work'[i] = c)
      BY <2>1, <2>4
    <3> QED  BY <2>1, <3>1, <3>2 DEF OneWorker, InWork
  <2>6. Life'
    BY <1>4, <2>1, <2>2, <2>3 DEF StartWorker, LifeInv, Life
  <2>7. Holding'
    BY <1>4 DEF StartWorker, LifeInv, Holding, Inside
  <2> QED  BY <2>5, <2>6, <2>7 DEF LifeInv
<1>5. CASE Drain \/ WorkerPayload \/ WorkerPayloadCut
  <2>1. httpd'.at = httpd.at /\ httpd'.pc \in {"recv", "write"}
    BY <1>5 DEF Drain, WorkerPayload, WorkerPayloadCut, WsTypes, WsTypeOK
  <2> QED
    BY <1>5, <2>1, WorkerGoesOn DEF Drain, WorkerPayload, WorkerPayloadCut, lifeVars
<1>6. ASSUME NEW c \in Client, WsHandler(c)
      PROVE  LifeInv'
  <2>1. /\ httpd.at = NoClient /\ httpd'.at = c /\ httpd'.pc = "work"
        /\ socket'[c] = "open" /\ socket[c] = "new" /\ mutex = "free" /\ mutex' = "free"
        /\ \A d \in Client : d # c => socket'[d] = socket[d] /\ queueState'[d] = queueState[d]
        /\ clients \subseteq clients'
    BY <1>6 DEF WsHandler, HttpdIdle, WsTypes, WsTypeOK
  <2>2. queueState[c] = "none" /\ ~InWork(c) /\ c \notin clients
    BY <2>1 DEF LifeInv, Life
  <2>3. Holding'
    BY <1>6, <2>1, WsAssumption DEF WsHandler, LifeInv, Holding, Inside
  <2>4. work' = work /\ removed' = removed
    BY <1>6 DEF WsHandler
  <2>5. \A d \in Client : InWork(d)' <=> InWork(d)
    BY <2>4 DEF InWork
  <2>6. OneWorker'
    BY <2>1, <2>2, <2>4, <2>5 DEF LifeInv, OneWorker
  <2>7. /\ queueState'[c] \in {"none", "live"}
        /\ c \in clients' => queueState'[c] = "live"
        /\ \A d \in clients' : d = c \/ d \in clients
    BY <1>6, <2>2 DEF WsHandler, WsTypes, WsTypeOK
  <2>8. Life'
    <3> SUFFICES ASSUME NEW d \in Client
                 PROVE  /\ d \in clients' => queueState'[d] = "live"
                        /\ queueState'[d] = "twice" => d \in removed'
                        /\ (httpd'.at = d \/ InWork(d)') /\ queueState'[d] = "deleted"
                           => d \in removed'
                        /\ (httpd'.at = d \/ InWork(d)')
                           => queueState'[d] # "twice" /\ socket'[d] # "new"
                        /\ socket'[d] = "new" => queueState'[d] = "none"
      BY DEF Life
    <3>1. CASE d = c
      BY <2>1, <2>7, <3>1
    <3>2. CASE d # c
      BY <2>1, <2>4, <2>5, <2>7, <3>2 DEF LifeInv, Life
    <3> QED  BY <3>1, <3>2
  <2> QED  BY <2>3, <2>6, <2>8 DEF LifeInv
<1>7. ASSUME NEW c \in Client, PeerLeaves(c)
      PROVE  LifeInv'
  <2>1. \A d \in Client : socket'[d] = "new" => socket[d] = "new"
    BY <1>7 DEF PeerLeaves, WsTypes, WsTypeOK
  <2> QED
    BY <1>7, <2>1 DEF PeerLeaves, LifeInv, Holding, OneWorker, Life, Inside, InWork
<1> QED  BY <1>1, <1>2, <1>3, <1>4, <1>5, <1>6, <1>7 DEF WorkerStep

\* A step that keeps the connections keeps them whatever else it does.
LEMMA LifeStep == WsTypes /\ LinkTypeOK /\ LifeInv /\ [Next]_vars => LifeInv'
<1> SUFFICES ASSUME WsTypes, LinkTypeOK, LifeInv, [Next]_vars PROVE LifeInv'
  OBVIOUS
<1>1. ASSUME UNCHANGED sendVars PROVE LifeInv'
  BY <1>1 DEF sendVars, LifeInv, Holding, OneWorker, Life, Inside, InWork
<1>2. CASE Typed \/ UartPut \/ Boot \/ Event \/ UNCHANGED vars
  BY <1>1, <1>2 DEF Typed, UartPut, Boot, Event, vars
<1>3. CASE PostSend \/ PostPut \/ TextFrame \/ TextPut \/ SetWifi \/ SetWifiDone
  <2>1. UNCHANGED lifeVars
    BY <1>3 DEF PostSend, PostPut, TextFrame, TextPut, SetWifi, SetWifiDone,
                httpdRest, lifeVars
  <2>2. /\ httpd'.at = httpd.at
        /\ httpd'.pc \in {"idle", "post", "setwifi"} => httpd.at = NoClient
    <3>1. CASE PostSend
      BY <3>1 DEF PostSend, Ask, HttpdIdle
    <3>2. CASE TextFrame
      BY <3>2 DEF TextFrame, Ask, WsTypes, WsTypeOK
    <3>3. CASE TextPut
      BY <3>3 DEF TextPut, WsTypes, WsTypeOK
    <3>4. CASE SetWifi
      BY <3>4 DEF SetWifi, HttpdIdle
    <3>5. CASE PostPut \/ SetWifiDone
      BY <3>5 DEF PostPut, SetWifiDone, HttpdIdle, LifeInv, OneWorker
    <3> QED  BY <1>3, <3>1, <3>2, <3>3, <3>4, <3>5
  <2> QED  BY <2>1, <2>2, WorkerGoesOn
<1>4. CASE Take
  BY <1>1, <1>4, BeginLife, LinkAssumption DEF Take
<1>5. CASE Serve \/ Peer
  BY <1>5, HttpdLife DEF Serve, Peer, LinkTypeOK
<1>6. CASE \E s \in Sender : Produce(s) \/ Send(s)
  BY <1>6, BeginLife, SendLife DEF Produce, Send
<1> QED  BY <1>2, <1>3, <1>4, <1>5, <1>6 DEF Next

LEMMA LifeAlways == Spec => [](WsTypes /\ LifeInv)
<1>1. TypeOK /\ Places => WsTypes /\ LinkTypeOK
  BY DEF TypeOK, WsTypes
<1> QED  BY <1>1, TypesAlways, LifeInit, LifeStep, PTL DEF Spec

\* Two senders are never within a frame of the same client, for any number
\* of tasks: clients_mutex covers the header and the payload.
THEOREM SendersNeverInterleave == Spec => []SendersNeverMix
<1>1. LifeInv => SendersNeverMix
  BY WsAssumption DEF LifeInv, Holding, Inside, SendersNeverMix, InFrame
<1> QED  BY <1>1, LifeAlways, PTL

\* A listed client always has its queue; a worker loses its queue, and a
\* queue is deleted twice, only after a sender has removed the client.
THEOREM QueueIsThere == Spec => []QueueLife
<1>1. LifeInv => QueueLife
  BY DEF LifeInv, Life, QueueLife
<1> QED  BY <1>1, LifeAlways, PTL

-----------------------------------------------------------------------------
(* The order of the lines.                                                 *)

Got == [line : Line, via : {"direct", "queue"}]

\* The lines that are still to come to c by way of its queue, with the one the
\* worker is about to write.
Coming(c) ==
    IF httpd.at = c /\ httpd.line # EchoLine THEN <<httpd.line>> \o queue[c]
    ELSE queue[c]

\* The line s is sending has not been brought to c, nor to its queue.
Unsent(s, c) ==
    \/ sender[s].pc = "lock" \/ c \in sender[s].todo
    \/ sender[s].pc \in {"payload", "queue"} /\ sender[s].at = c

\* The number of the last line of each sender that c can have.
Mark(c) == [s \in Sender |-> IF Unsent(s, c) THEN count[s] - 1 ELSE count[s]]

\* Nothing is beyond the mark, nothing comes twice, the lines of a sender are
\* queued in their order and follow those that have come through the queue.
Ordered(got, coming, mark) ==
    /\ \A i \in DOMAIN got : got[i].line[2] <= mark[got[i].line[1]]
    /\ \A k \in DOMAIN coming : coming[k][2] <= mark[coming[k][1]]
    /\ \A j, k \in DOMAIN coming :
          j < k /\ coming[j][1] = coming[k][1] => coming[j][2] < coming[k][2]
    /\ \A i \in DOMAIN got, k \in DOMAIN coming :
          got[i].line[1] = coming[k][1] =>
             /\ got[i].line[2] # coming[k][2]
             /\ got[i].via = "queue" => got[i].line[2] < coming[k][2]
    /\ \A i, j \in DOMAIN got : i < j /\ got[i].line[1] = got[j].line[1] =>
          /\ got[i].line[2] # got[j].line[2]
          /\ got[i].line[2] > got[j].line[2] =>
                got[i].via = "direct" /\ got[j].via = "queue"

\* A sender has struck the client it is at off its list; the worker holds a
\* line only while it writes it.
AtWork ==
    /\ httpd.line # EchoLine => httpd.pc = "write"
    /\ \A s \in Sender :
         /\ sender[s].pc \in {"payload", "queue"} => sender[s].at \notin sender[s].todo
         /\ sender[s].pc = "idle" => sender[s].todo = {}

OrderInv == AtWork /\ \A c \in Client : Ordered(received[c], Coming(c), Mark(c))

LEMMA LineParts ==
    ASSUME NEW line \in Line
    PROVE  line[1] \in Sender /\ line[2] \in Nat /\ line = <<line[1], line[2]>>
           /\ line # EchoLine
BY WsAssumption DEF Line, EchoLine

\* A sequence and one element more, or one less.
LEMMA OneMore ==
    ASSUME NEW T, NEW q \in Seq(T), NEW x \in T
    PROVE  /\ Append(q, x) \in Seq(T) /\ Len(q) \in Nat
           /\ DOMAIN Append(q, x) = 1 .. Len(q) + 1 /\ DOMAIN q = 1 .. Len(q)
           /\ \A i \in DOMAIN q : Append(q, x)[i] = q[i]
           /\ Append(q, x)[Len(q) + 1] = x
OBVIOUS

LEMMA OneLess ==
    ASSUME NEW T, NEW q \in Seq(T), q # <<>>
    PROVE  /\ Tail(q) \in Seq(T) /\ Len(q) \in Nat \ {0} /\ Head(q) \in T
           /\ DOMAIN q = 1 .. Len(q) /\ DOMAIN Tail(q) = 1 .. Len(q) - 1
           /\ Head(q) = q[1]
           /\ \A i \in DOMAIN Tail(q) : i + 1 \in DOMAIN q /\ Tail(q)[i] = q[i + 1]
OBVIOUS

LEMMA GotParts ==
    ASSUME NEW got \in Seq(Got)
    PROVE  \A i \in DOMAIN got :
              got[i].line \in Line /\ got[i].via \in {"direct", "queue"}
<1>1. \A i \in DOMAIN got : got[i] \in Got
  OBVIOUS
<1> QED  BY <1>1 DEF Got

\* A larger mark changes nothing.
LEMMA MarkGrows ==
    ASSUME NEW got \in Seq(Got), NEW coming \in Seq(Line),
           NEW mark \in [Sender -> Nat], NEW later \in [Sender -> Nat],
           \A s \in Sender : mark[s] <= later[s],
           Ordered(got, coming, mark)
    PROVE  Ordered(got, coming, later)
<1>1. \A i \in DOMAIN got : got[i].line \in Line
  BY GotParts
<1>2. \A k \in DOMAIN coming : coming[k] \in Line
  OBVIOUS
<1>3. \A i \in DOMAIN got : got[i].line[2] <= later[got[i].line[1]]
  BY <1>1, LineParts DEF Ordered
<1>4. \A k \in DOMAIN coming : coming[k][2] <= later[coming[k][1]]
  BY <1>2, LineParts DEF Ordered
<1> QED  BY <1>3, <1>4 DEF Ordered

\* A line beyond the mark comes directly ...
LEMMA DirectComes ==
    ASSUME NEW got \in Seq(Got), NEW coming \in Seq(Line),
           NEW mark \in [Sender -> Nat], NEW line \in Line,
           line[2] <= mark[line[1]],
           \A i \in DOMAIN got : got[i].line[1] = line[1] => got[i].line[2] < line[2],
           \A k \in DOMAIN coming : coming[k][1] = line[1] => coming[k][2] < line[2],
           Ordered(got, coming, mark)
    PROVE  Ordered(Append(got, [line |-> line, via |-> "direct"]), coming, mark)
<1> DEFINE x == [line |-> line, via |-> "direct"]
           more == Append(got, x)
<1>1. x \in Got /\ x.line = line /\ x.via = "direct"
  BY DEF Got
<1>2. /\ DOMAIN more = 1 .. Len(got) + 1 /\ DOMAIN got = 1 .. Len(got)
      /\ \A i \in DOMAIN got : more[i] = got[i]
      /\ more[Len(got) + 1] = x /\ Len(got) \in Nat
  BY <1>1, OneMore
<1>3. /\ \A i \in DOMAIN got : got[i].line \in Line
      /\ \A k \in DOMAIN coming : coming[k] \in Line
  BY GotParts
<1> HIDE DEF x, more
<1>4. \A i \in DOMAIN more : i \in DOMAIN got \/ i = Len(got) + 1
  BY <1>2
<1>5. \A i \in DOMAIN more : more[i].line[2] <= mark[more[i].line[1]]
  BY <1>1, <1>2, <1>4 DEF Ordered
<1>6. ASSUME NEW i \in DOMAIN more, NEW k \in DOMAIN coming,
             more[i].line[1] = coming[k][1]
      PROVE  /\ more[i].line[2] # coming[k][2]
             /\ more[i].via = "queue" => more[i].line[2] < coming[k][2]
  <2>1. CASE i \in DOMAIN got
    BY <1>2, <1>6, <2>1 DEF Ordered
  <2>2. CASE i = Len(got) + 1
    <3>1. coming[k][2] < line[2]
      BY <1>1, <1>2, <1>6, <2>2
    <3>2. coming[k][2] \in Nat /\ line[2] \in Nat
      BY <1>3, LineParts
    <3> QED  BY <1>1, <1>2, <2>2, <3>1, <3>2
  <2> QED  BY <1>4, <2>1, <2>2
<1>7. ASSUME NEW i \in DOMAIN more, NEW j \in DOMAIN more, i < j,
             more[i].line[1] = more[j].line[1]
      PROVE  /\ more[i].line[2] # more[j].line[2]
             /\ more[i].line[2] > more[j].line[2] =>
                   more[i].via = "direct" /\ more[j].via = "queue"
  <2>1. i \in DOMAIN got
    BY <1>2, <1>7
  <2>2. CASE j \in DOMAIN got
    BY <1>2, <1>7, <2>1, <2>2 DEF Ordered
  <2>3. CASE j = Len(got) + 1
    <3>1. got[i].line[2] < line[2]
      BY <1>1, <1>2, <1>7, <2>1, <2>3
    <3>2. got[i].line[2] \in Nat /\ line[2] \in Nat
      BY <1>3, <2>1, LineParts
    <3> QED  BY <1>1, <1>2, <2>1, <2>3, <3>1, <3>2
  <2> QED  BY <1>4, <2>2, <2>3
<1>8. Ordered(more, coming, mark)
  BY <1>5, <1>6, <1>7 DEF Ordered
<1> QED  BY <1>8 DEF more, x

\* ... or is queued.
LEMMA LineIsQueued ==
    ASSUME NEW got \in Seq(Got), NEW coming \in Seq(Line),
           NEW mark \in [Sender -> Nat], NEW line \in Line,
           line[2] <= mark[line[1]],
           \A i \in DOMAIN got : got[i].line[1] = line[1] => got[i].line[2] < line[2],
           \A k \in DOMAIN coming : coming[k][1] = line[1] => coming[k][2] < line[2],
           Ordered(got, coming, mark)
    PROVE  Ordered(got, Append(coming, line), mark)
<1> DEFINE more == Append(coming, line)
<1>1. /\ DOMAIN more = 1 .. Len(coming) + 1 /\ DOMAIN coming = 1 .. Len(coming)
      /\ \A k \in DOMAIN coming : more[k] = coming[k]
      /\ more[Len(coming) + 1] = line /\ Len(coming) \in Nat
  BY OneMore
<1>2. /\ \A i \in DOMAIN got : got[i].line \in Line
      /\ \A k \in DOMAIN coming : coming[k] \in Line
  BY GotParts
<1> HIDE DEF more
<1>3. \A k \in DOMAIN more : k \in DOMAIN coming \/ k = Len(coming) + 1
  BY <1>1
<1>4. \A k \in DOMAIN more : more[k][2] <= mark[more[k][1]]
  BY <1>1, <1>3 DEF Ordered
<1>5. ASSUME NEW j \in DOMAIN more, NEW k \in DOMAIN more, j < k,
             more[j][1] = more[k][1]
      PROVE  more[j][2] < more[k][2]
  <2>1. j \in DOMAIN coming
    BY <1>1, <1>5
  <2>2. CASE k \in DOMAIN coming
    BY <1>1, <1>5, <2>1, <2>2 DEF Ordered
  <2>3. CASE k = Len(coming) + 1
    BY <1>1, <1>5, <2>1, <2>3
  <2> QED  BY <1>3, <2>2, <2>3
<1>6. ASSUME NEW i \in DOMAIN got, NEW k \in DOMAIN more,
             got[i].line[1] = more[k][1]
      PROVE  /\ got[i].line[2] # more[k][2]
             /\ got[i].via = "queue" => got[i].line[2] < more[k][2]
  <2>1. CASE k \in DOMAIN coming
    BY <1>1, <1>6, <2>1 DEF Ordered
  <2>2. CASE k = Len(coming) + 1
    <3>1. got[i].line[2] < line[2]
      BY <1>1, <1>6, <2>2
    <3>2. got[i].line[2] \in Nat /\ line[2] \in Nat
      BY <1>2, LineParts
    <3> QED  BY <1>1, <2>2, <3>1, <3>2
  <2> QED  BY <1>3, <2>1, <2>2
<1>7. Ordered(got, more, mark)
  BY <1>4, <1>5, <1>6 DEF Ordered
<1> QED  BY <1>7 DEF more

\* The first line to come is lost ...
LEMMA LineIsLost ==
    ASSUME NEW got \in Seq(Got), NEW coming \in Seq(Line), coming # <<>>,
           NEW mark \in [Sender -> Nat], Ordered(got, coming, mark)
    PROVE  Ordered(got, Tail(coming), mark)
<1> DEFINE rest == Tail(coming)
<1>1. /\ DOMAIN rest = 1 .. Len(coming) - 1 /\ Len(coming) \in Nat
      /\ \A k \in DOMAIN rest : k + 1 \in DOMAIN coming /\ rest[k] = coming[k + 1]
  BY OneLess
<1> HIDE DEF rest
<1>2. \A j, k \in DOMAIN rest : j < k => j + 1 < k + 1
  BY <1>1
<1>3. \A j, k \in DOMAIN rest :
         j < k /\ rest[j][1] = rest[k][1] => rest[j][2] < rest[k][2]
  BY <1>1, <1>2 DEF Ordered
<1>4. \A k \in DOMAIN rest : rest[k][2] <= mark[rest[k][1]]
  BY <1>1 DEF Ordered
<1>5. \A i \in DOMAIN got, k \in DOMAIN rest :
          got[i].line[1] = rest[k][1] =>
             /\ got[i].line[2] # rest[k][2]
             /\ got[i].via = "queue" => got[i].line[2] < rest[k][2]
  BY <1>1 DEF Ordered
<1>6. Ordered(got, rest, mark)
  BY <1>3, <1>4, <1>5 DEF Ordered
<1> QED  BY <1>6 DEF rest

\* ... or comes.
LEMMA QueuedLineComes ==
    ASSUME NEW got \in Seq(Got), NEW coming \in Seq(Line), coming # <<>>,
           NEW mark \in [Sender -> Nat], Ordered(got, coming, mark)
    PROVE  Ordered(Append(got, [line |-> Head(coming), via |-> "queue"]),
                   Tail(coming), mark)
<1> DEFINE rest == Tail(coming)
           x == [line |-> Head(coming), via |-> "queue"]
           more == Append(got, x)
<1>1. /\ DOMAIN rest = 1 .. Len(coming) - 1 /\ Len(coming) \in Nat \ {0}
      /\ \A k \in DOMAIN rest : k + 1 \in DOMAIN coming /\ rest[k] = coming[k + 1]
      /\ Head(coming) = coming[1] /\ 1 \in DOMAIN coming /\ coming[1] \in Line
      /\ \A k \in DOMAIN rest : 1 < k + 1
  BY OneLess
<1>2. x \in Got /\ x.line = coming[1] /\ x.via = "queue"
  BY <1>1 DEF Got
<1>3. /\ DOMAIN more = 1 .. Len(got) + 1 /\ DOMAIN got = 1 .. Len(got)
      /\ \A i \in DOMAIN got : more[i] = got[i]
      /\ more[Len(got) + 1] = x /\ Len(got) \in Nat
  BY <1>2, OneMore
<1>4. Ordered(got, rest, mark)
  BY LineIsLost
<1>5. /\ \A i \in DOMAIN got : got[i].line \in Line
      /\ \A k \in DOMAIN rest : rest[k] \in Line
  <2>1. \A k \in DOMAIN coming : coming[k] \in Line
    OBVIOUS
  <2> QED  BY <1>1, <2>1, GotParts
<1> HIDE DEF rest, x, more
<1>6. \A i \in DOMAIN more : i \in DOMAIN got \/ i = Len(got) + 1
  BY <1>3
<1>7. \A i \in DOMAIN more : more[i].line[2] <= mark[more[i].line[1]]
  BY <1>1, <1>2, <1>3, <1>6 DEF Ordered
<1>8. ASSUME NEW i \in DOMAIN more, NEW k \in DOMAIN rest,
             more[i].line[1] = rest[k][1]
      PROVE  /\ more[i].line[2] # rest[k][2]
             /\ more[i].via = "queue" => more[i].line[2] < rest[k][2]
  <2>1. CASE i \in DOMAIN got
    BY <1>3, <1>4, <1>8, <2>1 DEF Ordered
  <2>2. CASE i = Len(got) + 1
    <3>1. coming[1][2] < coming[k + 1][2]
      BY <1>1, <1>2, <1>3, <1>8, <2>2 DEF Ordered
    <3>2. coming[1][2] \in Nat /\ rest[k][2] \in Nat
      BY <1>1, <1>5, LineParts
    <3> QED  BY <1>1, <1>2, <1>3, <2>2, <3>1, <3>2
  <2> QED  BY <1>6, <2>1, <2>2
<1>9. ASSUME NEW i \in DOMAIN more, NEW j \in DOMAIN more, i < j,
             more[i].line[1] = more[j].line[1]
      PROVE  /\ more[i].line[2] # more[j].line[2]
             /\ more[i].line[2] > more[j].line[2] =>
                   more[i].via = "direct" /\ more[j].via = "queue"
  <2>1. i \in DOMAIN got
    BY <1>3, <1>9
  <2>2. CASE j \in DOMAIN got
    BY <1>3, <1>9, <2>1, <2>2 DEF Ordered
  <2>3. CASE j = Len(got) + 1
    <3>1. /\ got[i].line[2] # coming[1][2]
          /\ got[i].via = "queue" => got[i].line[2] < coming[1][2]
      BY <1>1, <1>2, <1>3, <1>9, <2>1, <2>3 DEF Ordered
    <3>2. got[i].line[2] \in Nat /\ coming[1][2] \in Nat
          /\ got[i].via \in {"direct", "queue"}
      BY <1>1, <1>5, <2>1, LineParts, GotParts
    <3>3. got[i].line[2] > coming[1][2] => got[i].via = "direct"
      BY <3>1, <3>2
    <3> QED  BY <1>2, <1>3, <2>1, <2>3, <3>1, <3>3
  <2> QED  BY <1>6, <2>2, <2>3
<1>10. Ordered(more, rest, mark)
  BY <1>4, <1>7, <1>8, <1>9 DEF Ordered
<1> QED  BY <1>10 DEF more, x, rest

LEMMA FirstAndRest ==
    ASSUME NEW T, NEW q \in Seq(T), NEW x \in T
    PROVE  /\ <<x>> \o q \in Seq(T) /\ <<x>> \o q # <<>>
           /\ Head(<<x>> \o q) = x /\ Tail(<<x>> \o q) = q
           /\ \A y \in T : <<x>> \o Append(q, y) = Append(<<x>> \o q, y)
           /\ q # <<>> => <<Head(q)>> \o Tail(q) = q
OBVIOUS

LEMMA OrderTypes ==
    ASSUME WsTypes, AtWork, NEW c \in Client
    PROVE  /\ received[c] \in Seq(Got) /\ queue[c] \in Seq(Line)
           /\ Coming(c) \in Seq(Line) /\ Mark(c) \in [Sender -> Nat]
<1>1. received[c] \in Seq(Got) /\ queue[c] \in Seq(Line)
  BY DEF WsTypes, WsTypeOK, Got
<1>2. httpd.line # EchoLine => httpd.line \in Line
  BY DEF WsTypes, WsTypeOK
<1>3. Coming(c) \in Seq(Line)
  BY <1>1, <1>2, FirstAndRest DEF Coming
<1>4. ASSUME NEW s \in Sender
      PROVE  (IF Unsent(s, c) THEN count[s] - 1 ELSE count[s]) \in Nat
  <2>1. Unsent(s, c) => sender[s].pc # "idle"
    BY DEF Unsent, AtWork
  <2>2. count[s] \in Nat /\ (Unsent(s, c) => count[s] > 0)
    BY <2>1, WsAssumption DEF WsTypes, WsTypeOK, Places
  <2> QED  BY <2>2
<1> QED  BY <1>1, <1>3, <1>4 DEF Mark

MarksAreNat == \A c \in Client : Mark(c) \in [Sender -> Nat]

LEMMA MarkTypes == WsTypes /\ AtWork => MarksAreNat
BY OrderTypes DEF MarksAreNat

\* What a step may do to the lines on their way to c.
Carries(c) ==
    \/ received'[c] = received[c] /\ Coming(c)' = Coming(c)
    \/ \E s \in Sender :
         /\ Unsent(s, c) /\ ~Unsent(s, c)' /\ count'[s] = count[s]
         /\ \/ /\ received'[c] =
                     Append(received[c], [line |-> CurrentLine(s), via |-> "direct"])
               /\ Coming(c)' = Coming(c)
            \/ /\ received'[c] = received[c]
               /\ Coming(c)' = Append(Coming(c), CurrentLine(s))
    \/ /\ Coming(c) # <<>> /\ Coming(c)' = Tail(Coming(c))
       /\ \/ received'[c] = received[c]
          \/ received'[c] =
                Append(received[c], [line |-> Head(Coming(c)), via |-> "queue"])

\* What a step may do to the lines the senders have begun.
Begins(c) ==
    \A s \in Sender :
        /\ count[s] <= count'[s]
        /\ Unsent(s, c)' => Unsent(s, c) \/ count'[s] > count[s]

LEMMA OrderCarried ==
    ASSUME WsTypes, WsTypes', AtWork, AtWork', NEW c \in Client,
           Ordered(received[c], Coming(c), Mark(c)), Carries(c), Begins(c)
    PROVE  Ordered(received[c], Coming(c), Mark(c))'
<1> DEFINE got == received[c]
           coming == Coming(c)
           mark == Mark(c)
           later == Mark(c)'
<1>1. got \in Seq(Got) /\ coming \in Seq(Line) /\ mark \in [Sender -> Nat]
  BY OrderTypes
<1>2. later \in [Sender -> Nat]
  <2>1. MarksAreNat'
    BY MarkTypes, PTL
  <2> QED  BY <2>1 DEF MarksAreNat
<1>3. count \in [Sender -> Nat] /\ count' \in [Sender -> Nat]
  BY WsAssumption DEF WsTypes, WsTypeOK
<1>4. \A s \in Sender :
        /\ mark[s] = IF Unsent(s, c) THEN count[s] - 1 ELSE count[s]
        /\ later[s] = IF Unsent(s, c)' THEN count'[s] - 1 ELSE count'[s]
  BY DEF Mark
<1>5. \A s \in Sender : mark[s] <= later[s]
  BY <1>3, <1>4 DEF Begins
<1> HIDE DEF got, coming, mark, later
<1>6. Ordered(got, coming, later)
  BY <1>1, <1>2, <1>5, MarkGrows DEF got, coming, mark
<1>7. CASE received'[c] = received[c] /\ Coming(c)' = Coming(c)
  BY <1>6, <1>7 DEF got, coming, later
<1>8. ASSUME NEW s \in Sender,
             Unsent(s, c), ~Unsent(s, c)', count'[s] = count[s],
             \/ /\ received'[c] =
                     Append(received[c], [line |-> CurrentLine(s), via |-> "direct"])
                /\ Coming(c)' = Coming(c)
             \/ /\ received'[c] = received[c]
                /\ Coming(c)' = Append(Coming(c), CurrentLine(s))
      PROVE  Ordered(received[c], Coming(c), Mark(c))'
  <2> DEFINE line == CurrentLine(s)
  <2>1. sender[s].pc # "idle"
    BY <1>8 DEF Unsent, AtWork
  <2>2. line \in Line /\ line[1] = s /\ line[2] = count[s]
    BY <2>1, LineTypes DEF CurrentLine
  <2>3. mark[s] = line[2] - 1 /\ line[2] = later[s] /\ line[2] \in Nat
    BY <1>3, <1>4, <1>8, <2>2
  <2> HIDE DEF line
  <2>4. \A i \in DOMAIN got : got[i].line[1] = line[1] => got[i].line[2] < line[2]
    <3> SUFFICES ASSUME NEW i \in DOMAIN got, got[i].line[1] = s
                 PROVE  got[i].line[2] < line[2]
      BY <2>2
    <3>1. got[i].line[2] <= mark[s]
      BY <1>6, MarkGrows DEF Ordered, got, coming, mark
    <3>2. got[i].line[2] \in Nat
      BY <1>1, GotParts, LineParts
    <3> QED  BY <2>3, <3>1, <3>2
  <2>5. \A k \in DOMAIN coming : coming[k][1] = line[1] => coming[k][2] < line[2]
    <3> SUFFICES ASSUME NEW k \in DOMAIN coming, coming[k][1] = s
                 PROVE  coming[k][2] < line[2]
      BY <2>2
    <3>1. coming[k][2] <= mark[s]
      BY DEF Ordered, got, coming, mark
    <3>2. coming[k][2] \in Nat
      BY <1>1, LineParts
    <3> QED  BY <2>3, <3>1, <3>2
  <2>6. line[2] <= later[line[1]]
    BY <2>2, <2>3
  <2>7. /\ Ordered(Append(got, [line |-> line, via |-> "direct"]), coming, later)
        /\ Ordered(got, Append(coming, line), later)
    BY <1>1, <1>2, <1>6, <2>2, <2>4, <2>5, <2>6, DirectComes, LineIsQueued
  <2> QED  BY <1>8, <2>7 DEF got, coming, later, line
<1>9. CASE /\ Coming(c) # <<>> /\ Coming(c)' = Tail(Coming(c))
           /\ \/ received'[c] = received[c]
              \/ received'[c] =
                   Append(received[c], [line |-> Head(Coming(c)), via |-> "queue"])
  <2>1. /\ Ordered(got, Tail(coming), later)
        /\ Ordered(Append(got, [line |-> Head(coming), via |-> "queue"]),
                   Tail(coming), later)
    BY <1>1, <1>2, <1>6, <1>9, LineIsLost, QueuedLineComes DEF coming
  <2> QED  BY <1>9, <2>1 DEF got, coming, later
<1> QED  BY <1>7, <1>8, <1>9 DEF Carries

\* A step of s that takes up no further client.
LEMMA SenderBegins ==
    ASSUME WsTypes, AtWork, NEW s \in Sender, NEW pc, NEW todo, NEW at,
           Turn(s, pc, todo, at), UNCHANGED <<count, httpd>>,
           \A c \in Client :
              pc = "lock" \/ c \in todo \/ (pc \in {"payload", "queue"} /\ at = c)
              => Unsent(s, c),
           pc \in {"payload", "queue"} => at \notin todo,
           pc = "idle" => todo = {}
    PROVE  AtWork' /\ \A c \in Client : Begins(c)
<1>1. /\ sender'[s].pc = pc /\ sender'[s].todo = todo /\ sender'[s].at = at
      /\ \A t \in Sender : t # s => sender'[t] = sender[t]
      /\ count \in [Sender -> Nat]
  BY WsAssumption DEF WsTypes, WsTypeOK, Turn
<1>2. AtWork'
  BY <1>1 DEF AtWork
<1>3. ASSUME NEW c \in Client, NEW t \in Sender, Unsent(t, c)'
      PROVE  Unsent(t, c)
  BY <1>1, <1>3 DEF Unsent
<1>4. \A c \in Client : Begins(c)
  BY <1>1, <1>3 DEF Begins
<1> QED  BY <1>2, <1>4

LEMMA SendCarries ==
    ASSUME WsTypes, AtWork, NEW s \in Sender, Lock(s) \/ SendStep(s)
    PROVE  AtWork' /\ \A c \in Client : Begins(c) /\ Carries(c)
<1>0. sender[s] \in [pc : SenderSteps, todo : SUBSET Client, at : Client \cup {NoClient}]
      /\ UNCHANGED <<count, httpd>>
      /\ (sender[s].pc \in {"payload", "queue"} =>
            sender[s].at \notin sender[s].todo /\ sender[s].at \in Client)
      /\ queue \in [Client -> Seq(Line)] /\ sender \in [Sender -> [pc : SenderSteps,
            todo : SUBSET Client, at : Client \cup {NoClient}]]
  BY DEF WsTypes, WsTypeOK, Places, AtWork, SendStep, Lock, Unlock, DirectPayload,
         PayloadCut, EnqueueLine, DropLine, DirectHeader, DirectBlocks, DirectFails
<1>1. ASSUME UNCHANGED <<received, queue>>
      PROVE  \A c \in Client : Carries(c)
  BY <1>0, <1>1 DEF Carries, Coming
<1>2. CASE Lock(s)
  <2>1. sender[s].pc = "lock" /\ Turn(s, "each", clients, NoClient)
    BY <1>2 DEF Lock
  <2>2. AtWork' /\ \A c \in Client : Begins(c)
    BY <1>0, <2>1, SenderBegins DEF Unsent
  <2> QED  BY <1>1, <1>2, <2>2 DEF Lock
<1>3. CASE Unlock(s)
  <2>1. Turn(s, "idle", {}, NoClient)
    BY <1>3 DEF Unlock
  <2>2. AtWork' /\ \A c \in Client : Begins(c)
    BY <1>0, <2>1, SenderBegins
  <2> QED  BY <1>1, <1>3, <2>2 DEF Unlock
<1>4. ASSUME NEW c \in Client, NEW step \in {"payload", "queue"}, Visit(s, c, step)
      PROVE  AtWork' /\ \A d \in Client : Begins(d)
  <2>1. c \in sender[s].todo /\ Turn(s, step, sender[s].todo \ {c}, c)
    BY <1>4 DEF Visit
  <2> QED  BY <1>0, <2>1, SenderBegins DEF Unsent
<1>5. ASSUME NEW c \in Client, DirectHeader(s, c) \/ DirectBlocks(s, c)
      PROVE  AtWork' /\ \A d \in Client : Begins(d) /\ Carries(d)
  BY <1>1, <1>4, <1>5 DEF DirectHeader, DirectBlocks
<1>6. ASSUME NEW c \in Client, DirectFails(s, c)
      PROVE  AtWork' /\ \A d \in Client : Begins(d) /\ Carries(d)
  <2>1. Turn(s, "each", sender[s].todo \ {c}, NoClient)
    BY <1>6 DEF DirectFails
  <2>2. AtWork' /\ \A d \in Client : Begins(d)
    BY <1>0, <2>1, SenderBegins DEF Unsent
  <2> QED  BY <1>1, <1>6, <2>2 DEF DirectFails
<1>7. CASE PayloadCut(s)
  <2>1. sender[s].pc = "payload"
        /\ Turn(s, "queue", sender[s].todo, sender[s].at)
    BY <1>7 DEF PayloadCut
  <2>2. AtWork' /\ \A c \in Client : Begins(c)
    BY <1>0, <2>1, SenderBegins DEF Unsent
  <2> QED  BY <1>1, <1>7, <2>2 DEF PayloadCut
<1>8. ASSUME Leave(s), sender[s].pc \in {"payload", "queue"}
      PROVE  /\ AtWork' /\ \A c \in Client : Begins(c)
             /\ \A c \in Client :
                   c = sender[s].at => Unsent(s, c) /\ ~Unsent(s, c)'
  <2>1. Turn(s, "each", sender[s].todo, NoClient)
    BY <1>8 DEF Leave
  <2>2. AtWork' /\ \A c \in Client : Begins(c)
    BY <1>0, <2>1, SenderBegins DEF Unsent
  <2>3. /\ sender'[s].pc = "each" /\ sender'[s].todo = sender[s].todo
    BY <1>0, <2>1 DEF Turn
  <2> QED  BY <1>0, <1>8, <2>2, <2>3 DEF Unsent
<1>9. CASE DropLine(s)
  BY <1>1, <1>8, <1>9 DEF DropLine
<1>10. CASE DirectPayload(s)
  <2>1. AtWork' /\ \A c \in Client : Begins(c)
    BY <1>8, <1>10 DEF DirectPayload
  <2>2. ASSUME NEW c \in Client PROVE Carries(c)
    <3>1. Coming(c)' = Coming(c)
      BY <1>0, <1>10 DEF DirectPayload, Coming
    <3>2. \/ received'[c] = received[c]
          \/ /\ c = sender[s].at
             /\ received'[c] =
                  Append(received[c], [line |-> CurrentLine(s), via |-> "direct"])
      BY <1>10 DEF DirectPayload, Arrive, WsTypes, WsTypeOK
    <3> QED  BY <1>0, <1>8, <1>10, <3>1, <3>2 DEF DirectPayload, Carries
  <2> QED  BY <2>1, <2>2
<1>11. CASE EnqueueLine(s)
  <2>1. AtWork' /\ \A c \in Client : Begins(c)
    BY <1>8, <1>11 DEF EnqueueLine
  <2>2. CurrentLine(s) \in Line
    BY <1>11, LineTypes DEF EnqueueLine
  <2>3. ASSUME NEW c \in Client PROVE Carries(c)
    <3>1. received'[c] = received[c]
      BY <1>11 DEF EnqueueLine
    <3>2. CASE c # sender[s].at
      BY <1>0, <1>11, <3>1, <3>2 DEF EnqueueLine, Coming, Carries
    <3>3. CASE c = sender[s].at
      <4>1. queue'[c] = Append(queue[c], CurrentLine(s))
        BY <1>0, <1>11, <3>3 DEF EnqueueLine
      <4>2. httpd.line # EchoLine => httpd.line \in Line
        BY DEF WsTypes, WsTypeOK
      <4>3. Coming(c)' = Append(Coming(c), CurrentLine(s))
        BY <1>0, <2>2, <4>1, <4>2, FirstAndRest DEF Coming
      <4> QED  BY <1>0, <1>8, <1>11, <3>1, <3>3, <4>3 DEF EnqueueLine, Carries
    <3> QED  BY <3>2, <3>3
  <2> QED  BY <2>1, <2>3
<1> QED
  BY <1>2, <1>3, <1>5, <1>6, <1>7, <1>9, <1>10, <1>11 DEF SendStep

LEMMA BeginCarries ==
    ASSUME WsTypes, AtWork, NEW s \in Sender, BeginLine(s)
    PROVE  AtWork' /\ \A c \in Client : Begins(c) /\ Carries(c)
<1>1. /\ UNCHANGED <<received, queue, httpd>>
      /\ count' = [count EXCEPT ![s] = @ + 1] /\ count \in [Sender -> Nat]
      /\ sender \in [Sender -> [pc : SenderSteps, todo : SUBSET Client,
                                at : Client \cup {NoClient}]]
  BY WsAssumption DEF BeginLine, WsTypes, WsTypeOK
<1>2. \/ sender' = sender
      \/ sender' = [sender EXCEPT ![s] = [pc |-> "lock", todo |-> {}, at |-> NoClient]]
  BY DEF BeginLine, Turn
<1>3. \A t \in Sender : t # s => sender'[t] = sender[t] /\ count'[t] = count[t]
  BY <1>1, <1>2
<1>4. AtWork'
  BY <1>1, <1>2, <1>3 DEF AtWork
<1>5. ASSUME NEW c \in Client, NEW t \in Sender
      PROVE  count[t] <= count'[t] /\ (Unsent(t, c)' => Unsent(t, c) \/ count'[t] > count[t])
  <2>1. CASE t = s
    BY <1>1, <2>1
  <2>2. CASE t # s
    BY <1>1, <1>3, <2>2 DEF Unsent
  <2> QED  BY <2>1, <2>2
<1>6. \A c \in Client : Carries(c)
  BY <1>1 DEF Carries, Coming
<1> QED  BY <1>4, <1>5, <1>6 DEF Begins

\* A step of the httpd task, or of a client.
LEMMA HttpdCarries ==
    ASSUME WsTypes, AtWork,
           \/ WorkerStep
           \/ \E c \in Client : WsHandler(c) \/ PeerLeaves(c)
    PROVE  AtWork' /\ \A c \in Client : Begins(c) /\ Carries(c)
<1>a. UNCHANGED <<sender, count>>
  BY DEF WorkerStep, WsHandler, PeerLeaves, QueueWork, NoWorkerArg,
         QueueWorkFails, StartWorker, Drain, WorkerPayload, WorkerPayloadCut,
         WorkerLeaves, EndClient
<1>b. /\ count \in [Sender -> Nat]
      /\ httpd \in [pc : HttpdSteps, at : Client \cup {NoClient},
                    line : Line \cup {EchoLine}]
      /\ queue \in [Client -> Seq(Line)]
  BY WsAssumption DEF WsTypes, WsTypeOK
<1>c. httpd.pc \in {"recv", "write"} => httpd.at \in Client
  BY DEF WsTypes, Places
<1>0. UNCHANGED <<sender, count>> /\ count \in [Sender -> Nat]
      /\ httpd \in [pc : HttpdSteps, at : Client \cup {NoClient},
                    line : Line \cup {EchoLine}]
      /\ queue \in [Client -> Seq(Line)]
      /\ (httpd.pc \in {"recv", "write"} => httpd.at \in Client)
  BY <1>a, <1>b, <1>c
<1>1. \A c \in Client : Begins(c)
  BY <1>0 DEF Begins, Unsent
<1>2. ASSUME httpd'.line = EchoLine \/ httpd'.pc = "write"
      PROVE  AtWork'
  BY <1>0, <1>2 DEF AtWork
<1>3. CASE ~Drain /\ ~WorkerPayload /\ ~WorkerPayloadCut
  <2>1. UNCHANGED <<received, queue>>
    BY <1>3 DEF WorkerStep, WsHandler, PeerLeaves, QueueWork, NoWorkerArg,
                QueueWorkFails, StartWorker, WorkerLeaves, EndClient
  <2>2. (httpd.line = EchoLine /\ httpd'.line = EchoLine) \/ httpd' = httpd
    <3>1. CASE QueueWork \/ NoWorkerArg \/ QueueWorkFails \/ WorkerLeaves
      <4>1. httpd.pc \in {"work", "recv"} /\ httpd' = HttpdIdle
        BY <3>1 DEF QueueWork, NoWorkerArg, QueueWorkFails, WorkerLeaves, EndClient
      <4> QED  BY <4>1 DEF AtWork, HttpdIdle
    <3>2. CASE StartWorker
      <4>1. httpd' = [httpd EXCEPT !.pc = "recv", !.at = Head(work)] /\ httpd = HttpdIdle
        BY <3>2 DEF StartWorker
      <4> QED  BY <4>1 DEF HttpdIdle
    <3>3. ASSUME NEW c \in Client, WsHandler(c)
          PROVE  httpd.line = EchoLine /\ httpd'.line = EchoLine
      <4>1. httpd' = [httpd EXCEPT !.pc = "work", !.at = c] /\ httpd = HttpdIdle
        BY <3>3 DEF WsHandler
      <4> QED  BY <4>1 DEF HttpdIdle
    <3>4. ASSUME NEW c \in Client, PeerLeaves(c) PROVE httpd' = httpd
      BY <3>4 DEF PeerLeaves
    <3> QED  BY <1>3, <3>1, <3>2, <3>3, <3>4 DEF WorkerStep
  <2>3. AtWork'
    BY <1>0, <2>2 DEF AtWork
  <2>4. \A c \in Client : Carries(c)
    BY <2>1, <2>2 DEF Carries, Coming
  <2> QED  BY <1>1, <2>3, <2>4
<1>4. CASE Drain
  <2> DEFINE d == httpd.at
  <2>1. /\ httpd.pc = "recv" /\ d \in Client /\ queue[d] # <<>>
        /\ httpd' = [httpd EXCEPT !.pc = "write", !.line = Head(queue[d])]
        /\ queue' = [queue EXCEPT ![d] = Tail(queue[d])] /\ received' = received
    BY <1>0, <1>4 DEF Drain
  <2>2. httpd.line = EchoLine /\ Head(queue[d]) \in Line
    BY <1>0, <2>1, OneLess DEF AtWork
  <2>3. /\ httpd'.line = Head(queue[d]) /\ httpd'.at = d /\ httpd'.pc = "write"
        /\ queue'[d] = Tail(queue[d])
        /\ \A c \in Client : c # d => queue'[c] = queue[c]
    BY <1>0, <2>1
  <2>4. <<Head(queue[d])>> \o Tail(queue[d]) = queue[d]
    BY <1>0, <2>1, <2>2, FirstAndRest
  <2> HIDE DEF d
  <2>5. \A c \in Client : Coming(c)' = Coming(c)
    BY <2>2, <2>3, <2>4, LineParts DEF Coming
  <2> QED  BY <1>1, <1>2, <2>1, <2>3, <2>5 DEF Carries
<1>5. CASE WorkerPayload \/ WorkerPayloadCut
  <2> DEFINE d == httpd.at
  <2>1. /\ d \in Client /\ httpd' = [httpd EXCEPT !.pc = "recv", !.line = EchoLine]
        /\ UNCHANGED queue
    BY <1>0, <1>5 DEF WorkerPayload, WorkerPayloadCut
  <2>2. httpd'.line = EchoLine /\ httpd'.at = d
    BY <1>0, <2>1
  <2>3. \A c \in Client : \/ received'[c] = received[c]
                          \/ /\ c = d /\ httpd.line # EchoLine
                             /\ received'[c] =
                                  Append(received[c], [line |-> httpd.line, via |-> "queue"])
    BY <1>5 DEF WorkerPayload, WorkerPayloadCut, Arrive, WsTypes, WsTypeOK
  <2> HIDE DEF d
  <2>4. ASSUME NEW c \in Client PROVE Carries(c)
    <3>1. CASE c # d \/ httpd.line = EchoLine
      BY <2>1, <2>2, <2>3, <3>1 DEF Carries, Coming, d
    <3>2. CASE c = d /\ httpd.line # EchoLine
      <4>1. httpd.line \in Line /\ queue[c] \in Seq(Line)
        BY <1>0, <3>2
      <4>2. Coming(c) = <<httpd.line>> \o queue[c] /\ Coming(c)' = queue[c]
        BY <2>1, <2>2, <3>2 DEF Coming, d
      <4>3. Coming(c) # <<>> /\ Head(Coming(c)) = httpd.line /\ Tail(Coming(c)) = queue[c]
        BY <4>1, <4>2, FirstAndRest
      <4> QED  BY <2>3, <3>2, <4>2, <4>3 DEF Carries
    <3> QED  BY <3>1, <3>2
  <2> QED  BY <1>1, <1>2, <2>2, <2>4
<1> QED  BY <1>3, <1>4, <1>5

LEMMA OrderStep ==
    ASSUME WsTypes, WsTypes', LinkTypeOK, OrderInv, [Next]_vars PROVE OrderInv'
<1>0. AtWork
  BY DEF OrderInv
<1>1. ASSUME UNCHANGED <<received, queue, sender, count>>,
             (httpd.line = EchoLine /\ httpd'.line = EchoLine) \/ httpd' = httpd
      PROVE  AtWork' /\ \A c \in Client : Begins(c) /\ Carries(c)
  <2>1. AtWork' /\ \A c \in Client : Carries(c)
    BY <1>0, <1>1 DEF AtWork, Carries, Coming
  <2>2. count \in [Sender -> Nat]
    BY WsAssumption DEF WsTypes, WsTypeOK
  <2>3. \A c \in Client : Begins(c)
    BY <1>1, <2>2 DEF Begins, Unsent
  <2> QED  BY <2>1, <2>3
<1>2. AtWork' /\ \A c \in Client : Begins(c) /\ Carries(c)
  <2>1. ASSUME UNCHANGED sendVars
        PROVE  AtWork' /\ \A c \in Client : Begins(c) /\ Carries(c)
    BY <1>1, <2>1 DEF sendVars
  <2>2. CASE Typed \/ UartPut \/ Boot \/ Event \/ UNCHANGED vars
    BY <2>1, <2>2 DEF Typed, UartPut, Boot, Event, vars
  <2>3. CASE PostSend \/ PostPut \/ TextFrame \/ TextPut \/ SetWifi \/ SetWifiDone
    <3>1. UNCHANGED <<received, queue, sender, count>>
      BY <2>3 DEF PostSend, PostPut, TextFrame, TextPut, SetWifi, SetWifiDone, httpdRest
    <3>2. httpd.line = EchoLine
      BY <1>0, <2>3 DEF AtWork, PostSend, PostPut, TextFrame, TextPut, SetWifi,
                        SetWifiDone, HttpdIdle
    <3>3. httpd'.line = EchoLine
      <4>1. httpd \in [pc : HttpdSteps, at : Client \cup {NoClient},
                       line : Line \cup {EchoLine}]
        BY DEF WsTypes, WsTypeOK
      <4>2. CASE PostSend \/ TextFrame \/ SetWifi
        <5>1. \E pc, at : httpd' = [httpd EXCEPT !.pc = pc, !.at = at]
                          \/ httpd' = [httpd EXCEPT !.pc = pc]
          BY <4>2 DEF PostSend, TextFrame, SetWifi, Ask
        <5> QED  BY <3>2, <4>1, <5>1
      <4>3. CASE PostPut \/ SetWifiDone
        BY <4>3 DEF PostPut, SetWifiDone, HttpdIdle
      <4>4. CASE TextPut
        <5>1. httpd' = [httpd EXCEPT !.pc = "write", !.line = EchoLine]
          BY <4>4 DEF TextPut
        <5> QED  BY <4>1, <5>1
      <4> QED  BY <2>3, <4>2, <4>3, <4>4
    <3> QED  BY <1>1, <3>1, <3>2, <3>3
  <2>4. CASE Take
    BY <1>0, <2>1, <2>4, BeginCarries, LinkAssumption DEF Take
  <2>5. CASE Serve \/ Peer
    BY <1>0, <2>5, HttpdCarries DEF Serve, Peer, LinkTypeOK
  <2>6. CASE \E s \in Sender : Produce(s) \/ Send(s)
    BY <1>0, <2>6, BeginCarries, SendCarries DEF Produce, Send
  <2> QED  BY <2>2, <2>3, <2>4, <2>5, <2>6 DEF Next
<1> QED  BY <1>0, <1>2, OrderCarried DEF OrderInv

LEMMA OrderInit == Init => OrderInv
BY DEF Init, WsInit, OrderInv, AtWork, AtRest, HttpdIdle, Ordered, Coming

LEMMA OrderAlways == Spec => [](WsTypes /\ OrderInv)
<1>1. TypeOK /\ Places => WsTypes /\ LinkTypeOK
  BY DEF TypeOK, WsTypes
<1> QED  BY <1>1, TypesAlways, OrderInit, OrderStep, PTL DEF Spec

\* The queue of a client is the end of what is to come to it.
LEMMA QueueIsComing ==
    ASSUME WsTypes, AtWork, NEW c \in Client, NEW k \in DOMAIN queue[c]
    PROVE  \E n \in DOMAIN Coming(c) : Coming(c)[n] = queue[c][k]
<1>1. queue[c] \in Seq(Line) /\ (httpd.line # EchoLine => httpd.line \in Line)
  BY DEF WsTypes, WsTypeOK
<1>2. ASSUME NEW l \in Line
      PROVE  k + 1 \in DOMAIN (<<l>> \o queue[c]) /\ (<<l>> \o queue[c])[k + 1] = queue[c][k]
  BY <1>1
<1> QED  BY <1>1, <1>2 DEF Coming

\* A line that could not be written at once is queued and comes, if it does,
\* only once: for any number of clients and senders.
THEOREM LinesComeOnce == Spec => []LineAtMostOnce
<1>1. WsTypes /\ OrderInv => LineAtMostOnce
  <2> SUFFICES ASSUME WsTypes, OrderInv, NEW c \in Client
               PROVE  /\ \A i, j \in DOMAIN received[c] :
                           received[c][i].line = received[c][j].line => i = j
                      /\ \A i \in DOMAIN received[c], k \in DOMAIN queue[c] :
                           received[c][i].line # queue[c][k]
    BY DEF LineAtMostOnce
  <2>1. AtWork /\ Ordered(received[c], Coming(c), Mark(c))
    BY DEF OrderInv
  <2>2. DOMAIN received[c] = 1 .. Len(received[c]) /\ Len(received[c]) \in Nat
    BY <2>1, OrderTypes
  <2>3. \A i, j \in DOMAIN received[c] :
           i < j => received[c][i].line # received[c][j].line
    BY <2>1 DEF Ordered
  <2>4. \A i, j \in DOMAIN received[c] :
           received[c][i].line = received[c][j].line => i = j
    BY <2>2, <2>3
  <2>5. \A i \in DOMAIN received[c], n \in DOMAIN Coming(c) :
           received[c][i].line # Coming(c)[n]
    BY <2>1 DEF Ordered
  <2> QED  BY <2>1, <2>4, <2>5, QueueIsComing
<1> QED  BY <1>1, OrderAlways, PTL

\* Only a line written directly overtakes another of its sender, and only one
\* that waits in the queue.
THEOREM OnlyDirectOvertakes == Spec => []OvertakenOnlyByDirect
<1>1. OrderInv => OvertakenOnlyByDirect
  BY DEF OrderInv, Ordered, OvertakenOnlyByDirect
<1> QED  BY <1>1, OrderAlways, PTL

-----------------------------------------------------------------------------
(* The order of the commands.                                              *)

\* The commands that have been put into queueFromPc.
Put == taken \o queueFromPc

\* A command that is not yet put, in uartRcvLoop's hand or the httpd task's,
\* is the last of its kind.
Numbered ==
    \A i \in DOMAIN Put :
        /\ Put[i][1] = "uart" => /\ Put[i][2] \in 1 .. typed
                                 /\ hand # <<>> => Put[i][2] < typed
        /\ Put[i][1] = "web" => /\ Put[i][2] <= asked
                                /\ httpd.pc \in {"post", "put"} => Put[i][2] < asked

InOrder ==
    \A i, j \in DOMAIN Put :
        i < j /\ Put[i][1] = Put[j][1] => Put[i][2] < Put[j][2]

AllThere ==
    \A n \in 1 .. typed :
        \/ hand # <<>> /\ n = typed
        \/ \E i \in DOMAIN Put : Put[i] = <<"uart", n>>

InHand == hand # <<>> => hand = <<<<"uart", typed>>>> /\ typed > 0

CommandInv == Numbered /\ InOrder /\ AllThere /\ InHand

LEMMA PutTypes == ASSUME LinkTypeOK PROVE Put \in Seq(Command)
BY DEF LinkTypeOK, Put

LEMMA CommandParts ==
    ASSUME NEW x \in Command
    PROVE  x[1] \in {"uart", "web"} /\ x[2] \in Nat /\ x = <<x[1], x[2]>>
BY DEF Command

\* The commands put stay in order when the next one of its kind is put.
LEMMA NextIsPut ==
    ASSUME LinkTypeOK, InOrder, NEW x \in Command, Put' = Append(Put, x),
           \A i \in DOMAIN Put : Put[i][1] = x[1] => Put[i][2] < x[2]
    PROVE  /\ InOrder'
           /\ \A i \in DOMAIN Put' : (i \in DOMAIN Put /\ Put'[i] = Put[i]) \/ Put'[i] = x
           /\ \A i \in DOMAIN Put : i \in DOMAIN Put' /\ Put'[i] = Put[i]
           /\ \E i \in DOMAIN Put' : Put'[i] = x
<1>1. /\ DOMAIN Put' = 1 .. Len(Put) + 1 /\ DOMAIN Put = 1 .. Len(Put)
      /\ \A i \in DOMAIN Put : Put'[i] = Put[i]
      /\ Put'[Len(Put) + 1] = x /\ Len(Put) \in Nat
  BY PutTypes, OneMore
<1> DEFINE put == Put
           more == Put'
<1>2. \A i, j \in DOMAIN put : i < j /\ put[i][1] = put[j][1] => put[i][2] < put[j][2]
  BY DEF InOrder
<1> HIDE DEF put, more
<1>3. ASSUME NEW i \in DOMAIN more, NEW j \in DOMAIN more, i < j,
             more[i][1] = more[j][1]
      PROVE  more[i][2] < more[j][2]
  <2>1. i \in DOMAIN put
    BY <1>1, <1>3 DEF put, more
  <2>2. CASE j \in DOMAIN put
    BY <1>1, <1>2, <1>3, <2>1, <2>2 DEF put, more
  <2>3. CASE j = Len(put) + 1
    BY <1>1, <1>3, <2>1, <2>3 DEF put, more
  <2> QED  BY <1>1, <2>2, <2>3 DEF put, more
<1>4. InOrder'
  BY <1>3 DEF InOrder, more
<1>5. /\ \A i \in DOMAIN Put' : i \in DOMAIN Put \/ i = Len(Put) + 1
      /\ \A i \in DOMAIN Put : i \in DOMAIN Put'
      /\ Len(Put) + 1 \in DOMAIN Put'
  BY <1>1
<1> QED  BY <1>1, <1>4, <1>5

\* Taking, putting and moving on.
LEMMA Joined ==
    ASSUME NEW T, NEW t \in Seq(T), NEW q \in Seq(T)
    PROVE  /\ \A x \in T : t \o Append(q, x) = Append(t \o q, x)
           /\ q # <<>> => Append(t, Head(q)) \o Tail(q) = t \o q
           /\ \A x \in T : q \o <<x>> = Append(q, x)
<1>1. ASSUME NEW x \in T PROVE t \o Append(q, x) = Append(t \o q, x)
  OBVIOUS
<1>2. ASSUME q # <<>> PROVE Append(t, Head(q)) \o Tail(q) = t \o q
  <2> DEFINE u == Append(t, Head(q))
             v == Tail(q)
  <2>1. /\ u \in Seq(T) /\ v \in Seq(T) /\ Len(u) = Len(t) + 1 /\ Len(v) = Len(q) - 1
        /\ Len(t) \in Nat /\ Len(q) \in Nat \ {0}
        /\ \A i \in 1 .. Len(t) : u[i] = t[i]
        /\ u[Len(t) + 1] = q[1] /\ \A i \in 1 .. Len(q) - 1 : v[i] = q[i + 1]
    BY <1>2
  <2> HIDE DEF u, v
  <2>2. u \o v \in Seq(T) /\ t \o q \in Seq(T) /\ Len(u \o v) = Len(t \o q)
    <3>a. u \in Seq(T) /\ v \in Seq(T)
      BY <2>1
    <3>1. u \o v \in Seq(T) /\ Len(u \o v) = Len(u) + Len(v)
      BY <3>a, ConcatProperties
    <3>2. t \o q \in Seq(T) /\ Len(t \o q) = Len(t) + Len(q)
      BY ConcatProperties
    <3> QED  BY <2>1, <3>1, <3>2
  <2>3. ASSUME NEW i \in 1 .. Len(t \o q) PROVE (u \o v)[i] = (t \o q)[i]
    <3>1. CASE i \in 1 .. Len(t)
      BY <2>1, <3>1
    <3>2. CASE i = Len(t) + 1
      BY <2>1, <3>2
    <3>3. CASE i > Len(t) + 1
      <4>1. i - Len(u) \in 1 .. Len(v) /\ (u \o v)[i] = v[i - Len(u)]
        BY <2>1, <3>3
      <4>2. (t \o q)[i] = q[i - Len(t)] /\ i - Len(t) = (i - Len(u)) + 1
        BY <2>1, <3>3
      <4> QED  BY <2>1, <4>1, <4>2
    <3> QED  BY <2>1, <3>1, <3>2, <3>3
  <2>4. u \o v = t \o q
    BY <2>2, <2>3, SeqEqual
  <2> QED  BY <2>4 DEF u, v
<1>3. ASSUME NEW x \in T PROVE q \o <<x>> = Append(q, x)
  OBVIOUS
<1> QED  BY <1>1, <1>2, <1>3

LEMMA PutStays ==
    ASSUME CommandInv, LinkTypeOK, Put' = Put,
           \/ UNCHANGED <<hand, typed>>
           \/ hand = <<>> /\ hand' = <<<<"uart", typed'>>>> /\ typed' = typed + 1,
           asked <= asked' /\ asked' \in Nat,
           httpd'.pc \in {"post", "put"} => httpd.pc \in {"post", "put"} \/ asked' > asked
    PROVE  CommandInv'
<1>0. typed \in Nat /\ asked \in Nat /\ \A i \in DOMAIN Put : Put[i][2] \in Nat
  BY PutTypes, CommandParts DEF LinkTypeOK
<1> DEFINE put == Put
<1> USE DEF CommandInv
<1>1. InOrder'
  BY DEF InOrder
<1>2. Numbered'
  <2> SUFFICES ASSUME NEW i \in DOMAIN Put
               PROVE  /\ Put[i][1] = "uart" => /\ Put[i][2] \in 1 .. typed'
                                               /\ hand' # <<>> => Put[i][2] < typed'
                      /\ Put[i][1] = "web" =>
                            /\ Put[i][2] <= asked'
                            /\ httpd'.pc \in {"post", "put"} => Put[i][2] < asked'
    BY DEF Numbered
  <2>1. Put[i][2] \in Nat
    BY <1>0
  <2>2. /\ Put[i][1] = "uart" => /\ Put[i][2] \in 1 .. typed
                                 /\ hand # <<>> => Put[i][2] < typed
        /\ Put[i][1] = "web" => /\ Put[i][2] <= asked
                                /\ httpd.pc \in {"post", "put"} => Put[i][2] < asked
    BY DEF Numbered
  <2> HIDE DEF put
  <2> QED  BY <1>0, <2>1, <2>2
<1>3. AllThere'
  <2>1. CASE UNCHANGED <<hand, typed>>
    BY <2>1 DEF AllThere
  <2>2. CASE hand = <<>> /\ hand' = <<<<"uart", typed'>>>> /\ typed' = typed + 1
    <3>1. hand' # <<>> /\ \A n \in 1 .. typed' : n \in 1 .. typed \/ n = typed'
      BY <1>0, <2>2
    <3>2. \A n \in 1 .. typed : \E i \in DOMAIN Put : Put[i] = <<"uart", n>>
      BY <2>2 DEF AllThere
    <3> QED  BY <3>1, <3>2 DEF AllThere
  <2> QED  BY <2>1, <2>2
<1>4. InHand'
  BY <1>0 DEF InHand
<1> QED  BY <1>1, <1>2, <1>3, <1>4

LEMMA CommandStep == WsTypes /\ LinkTypeOK /\ CommandInv /\ [Next]_vars => CommandInv'
<1> SUFFICES ASSUME WsTypes, LinkTypeOK, CommandInv, [Next]_vars PROVE CommandInv'
  OBVIOUS
<1>0. /\ typed \in Nat /\ asked \in Nat /\ taken \in Seq(Command)
      /\ queueFromPc \in Seq(Command)
      /\ httpd \in [pc : HttpdSteps, at : Client \cup {NoClient}, line : Line \cup {EchoLine}]
      /\ \A i \in DOMAIN Put : Put[i][2] \in Nat
  BY PutTypes, CommandParts DEF LinkTypeOK, WsTypes, WsTypeOK
<1>1. CASE Typed
  BY <1>0, <1>1, PutStays DEF Typed, Put, sendVars
<1>2. CASE UartPut
  <2> DEFINE x == <<"uart", typed>>
  <2>1. hand = <<x>> /\ typed > 0 /\ x \in Command /\ x[1] = "uart" /\ x[2] = typed
    BY <1>0, <1>2, CommandTypes DEF UartPut, CommandInv, InHand
  <2>2. queueFromPc' = queueFromPc \o hand /\ taken' = taken /\ hand' = <<>>
        /\ UNCHANGED <<typed, asked, httpd>> /\ hand # <<>>
    BY <1>2 DEF UartPut, sendVars
  <2> HIDE DEF x
  <2>3. queueFromPc' = Append(queueFromPc, x)
    BY <1>0, <2>1, <2>2, Joined
  <2>4. Put' = Append(Put, x)
    BY <1>0, <2>1, <2>2, <2>3, Joined DEF Put
  <2>5. \A i \in DOMAIN Put : Put[i][1] = x[1] => Put[i][2] < x[2]
    BY <2>1, <2>2 DEF CommandInv, Numbered
  <2>6. /\ InOrder'
        /\ \A i \in DOMAIN Put' : (i \in DOMAIN Put /\ Put'[i] = Put[i]) \/ Put'[i] = x
        /\ \A i \in DOMAIN Put : i \in DOMAIN Put' /\ Put'[i] = Put[i]
        /\ \E i \in DOMAIN Put' : Put'[i] = x
    BY <2>1, <2>4, <2>5, NextIsPut DEF CommandInv
  <2>7. Numbered'
    <3> SUFFICES ASSUME NEW i \in DOMAIN Put'
                 PROVE  /\ Put'[i][1] = "uart" => Put'[i][2] \in 1 .. typed
                        /\ Put'[i][1] = "web" =>
                             /\ Put'[i][2] <= asked
                             /\ httpd.pc \in {"post", "put"} => Put'[i][2] < asked
      BY <2>2 DEF Numbered
    <3>1. CASE i \in DOMAIN Put /\ Put'[i] = Put[i]
      BY <3>1 DEF CommandInv, Numbered
    <3>2. CASE Put'[i] = x
      BY <1>0, <2>1, <3>2
    <3> QED  BY <2>6, <3>1, <3>2
  <2>8. AllThere'
    <3> SUFFICES ASSUME NEW n \in 1 .. typed PROVE \E i \in DOMAIN Put' : Put'[i] = <<"uart", n>>
      BY <2>2 DEF AllThere
    <3>1. CASE n = typed
      BY <2>6, <3>1 DEF x
    <3>2. CASE n # typed
      BY <2>6, <3>2 DEF CommandInv, AllThere
    <3> QED  BY <3>1, <3>2
  <2> QED  BY <2>2, <2>6, <2>7, <2>8 DEF CommandInv, InHand
<1>3. CASE PostSend \/ TextFrame
  <2>1. UNCHANGED <<hand, typed, taken, queueFromPc>> /\ asked' = asked + 1
    BY <1>3 DEF PostSend, TextFrame, Ask
  <2> QED  BY <1>0, <2>1, PutStays DEF Put
<1>4. CASE PostPut \/ TextPut
  <2> DEFINE x == <<"web", asked>>
  <2>1. httpd.pc \in {"post", "put"} /\ httpd'.pc \notin {"post", "put"} /\ PutOrDrop
    <3>1. CASE PostPut
      BY <3>1 DEF PostPut, HttpdIdle
    <3>2. CASE TextPut
      <4>1. httpd' = [httpd EXCEPT !.pc = "write", !.line = EchoLine]
            /\ httpd.pc = "put" /\ PutOrDrop
        BY <3>2 DEF TextPut
      <4> QED  BY <1>0, <4>1
    <3> QED  BY <1>4, <3>1, <3>2
  <2>2. UNCHANGED <<hand, typed, taken, asked>>
        /\ (queueFromPc' = queueFromPc \/ queueFromPc' = Append(queueFromPc, x))
    BY <2>1 DEF PutOrDrop
  <2>3. x \in Command /\ x[1] = "web" /\ x[2] = asked
    BY <1>0, CommandTypes
  <2> HIDE DEF x
  <2>4. CASE queueFromPc' = queueFromPc
    BY <1>0, <2>1, <2>2, <2>4, PutStays DEF Put
  <2>5. CASE queueFromPc' = Append(queueFromPc, x)
    <3>1. Put' = Append(Put, x)
      BY <1>0, <2>2, <2>3, <2>5, Joined DEF Put
    <3>2. \A i \in DOMAIN Put : Put[i][1] = x[1] => Put[i][2] < x[2]
      BY <2>1, <2>3 DEF CommandInv, Numbered
    <3>3. /\ InOrder'
          /\ \A i \in DOMAIN Put' : (i \in DOMAIN Put /\ Put'[i] = Put[i]) \/ Put'[i] = x
          /\ \A i \in DOMAIN Put : i \in DOMAIN Put' /\ Put'[i] = Put[i]
      BY <2>3, <3>1, <3>2, NextIsPut DEF CommandInv
    <3>4. Numbered'
      <4> SUFFICES ASSUME NEW i \in DOMAIN Put'
                   PROVE  /\ Put'[i][1] = "uart" => /\ Put'[i][2] \in 1 .. typed
                                                    /\ hand # <<>> => Put'[i][2] < typed
                          /\ Put'[i][1] = "web" => Put'[i][2] <= asked
        BY <2>1, <2>2 DEF Numbered
      <4>1. CASE i \in DOMAIN Put /\ Put'[i] = Put[i]
        BY <4>1 DEF CommandInv, Numbered
      <4>2. CASE Put'[i] = x
        BY <1>0, <2>3, <4>2
      <4> QED  BY <3>3, <4>1, <4>2
    <3>5. AllThere'
      BY <2>2, <3>3 DEF CommandInv, AllThere
    <3> QED  BY <2>2, <3>3, <3>4, <3>5 DEF CommandInv, InHand
  <2> QED  BY <2>2, <2>4, <2>5
<1>5. CASE SetWifi \/ SetWifiDone
  <2>1. UNCHANGED <<hand, typed, taken, queueFromPc, asked>>
    BY <1>5 DEF SetWifi, SetWifiDone, linkVars
  <2>2. httpd'.pc \notin {"post", "put"}
    BY <1>0, <1>5 DEF SetWifi, SetWifiDone, HttpdIdle
  <2> QED  BY <1>0, <2>1, <2>2, PutStays DEF Put
<1>6. CASE Take
  <2>1. taken' = Append(taken, Head(queueFromPc)) /\ queueFromPc' = Tail(queueFromPc)
        /\ queueFromPc # <<>> /\ UNCHANGED <<hand, typed, asked, httpd>>
    BY <1>6 DEF Take, BeginLine, sendVars
  <2>2. Put' = Put
    BY <1>0, <2>1, Joined DEF Put
  <2> QED  BY <1>0, <2>1, <2>2, PutStays
<1>7. CASE Boot \/ Event \/ Peer \/ UNCHANGED vars
           \/ (\E s \in Sender : Produce(s) \/ Send(s))
  <2>1. UNCHANGED <<hand, typed, taken, queueFromPc, asked, httpd>>
    BY <1>7 DEF Boot, Event, Peer, PeerLeaves, vars, sendVars, linkVars, Produce,
                BeginLine, Send, Lock, SendStep, Unlock, DirectPayload, PayloadCut,
                EnqueueLine, DropLine, DirectHeader, DirectBlocks, DirectFails
  <2> QED  BY <1>0, <2>1, PutStays DEF Put
<1>8. CASE Serve
  <2>1. UNCHANGED <<hand, typed, taken, queueFromPc, asked>>
    BY <1>8 DEF Serve, linkVars
  <2>2. httpd'.pc \notin {"post", "put"}
    <3>1. CASE QueueWork \/ NoWorkerArg \/ QueueWorkFails \/ WorkerLeaves
      BY <3>1 DEF QueueWork, NoWorkerArg, QueueWorkFails, WorkerLeaves, EndClient,
                  HttpdIdle
    <3>2. CASE StartWorker \/ Drain
      BY <1>0, <3>2 DEF StartWorker, Drain
    <3>3. CASE WorkerPayload \/ WorkerPayloadCut \/ (\E c \in budget.clients : WsHandler(c))
      BY <1>0, <3>3 DEF WorkerPayload, WorkerPayloadCut, WsHandler
    <3> QED  BY <1>8, <3>1, <3>2, <3>3 DEF Serve, WorkerStep
  <2> QED  BY <1>0, <2>1, <2>2, PutStays DEF Put
<1> QED
  BY <1>1, <1>2, <1>3, <1>4, <1>5, <1>6, <1>7, <1>8 DEF Next

LEMMA CommandAlways == Spec => [](LinkTypeOK /\ CommandInv)
<1>1. TypeOK /\ Places => WsTypes /\ LinkTypeOK
  BY DEF TypeOK, WsTypes
<1>2. Init => CommandInv
  <2>1. Init => typed = 0 /\ hand = <<>> /\ Put = <<>>
    BY DEF Init, Put
  <2> QED
    BY <2>1 DEF CommandInv, Numbered, InOrder, AllThere, InHand
<1> QED  BY <1>1, <1>2, TypesAlways, CommandStep, PTL DEF Spec

\* Every command of the serial line is on its way or taken, in order; one from
\* WiFi is there at most once and in order.
THEOREM CommandsKeepOrder == Spec => []CommandsInOrder
<1> DEFINE way == Put \o hand
<1>1. ASSUME LinkTypeOK, CommandInv
      PROVE  /\ \A i, j \in DOMAIN way :
                   i < j /\ way[i][1] = way[j][1] => way[i][2] < way[j][2]
             /\ {way[i][2] : i \in {j \in DOMAIN way : way[j][1] = "uart"}} = 1 .. typed
  <2>1. Put \in Seq(Command) /\ typed \in Nat
    BY <1>1, PutTypes DEF LinkTypeOK
  <2>2. \A i \in DOMAIN Put : Put[i][1] = "uart" => Put[i][2] \in 1 .. typed
    BY <1>1 DEF CommandInv, Numbered
  <2>3. \A i, j \in DOMAIN Put : i < j /\ Put[i][1] = Put[j][1] => Put[i][2] < Put[j][2]
    BY <1>1 DEF CommandInv, InOrder
  <2>4. CASE hand = <<>>
    <3>1. way = Put
      BY <2>1, <2>4
    <3> HIDE DEF way
    <3>2. \A n \in 1 .. typed : \E i \in DOMAIN way : way[i] = <<"uart", n>>
      BY <1>1, <2>4, <3>1 DEF CommandInv, AllThere
    <3>3. {way[i][2] : i \in {j \in DOMAIN way : way[j][1] = "uart"}} = 1 .. typed
      BY <2>2, <3>1, <3>2
    <3> QED  BY <2>3, <3>1, <3>3
  <2>5. CASE hand # <<>>
    <3> DEFINE x == <<"uart", typed>>
    <3>1. hand = <<x>> /\ x \in Command /\ typed > 0 /\ x[1] = "uart" /\ x[2] = typed
      BY <1>1, <2>1, <2>5, CommandTypes DEF CommandInv, InHand
    <3> HIDE DEF x
    <3>2. way = Append(Put, x)
      BY <2>1, <3>1, Joined
    <3> HIDE DEF way
    <3>3. /\ DOMAIN way = 1 .. Len(Put) + 1 /\ DOMAIN Put = 1 .. Len(Put)
          /\ \A i \in DOMAIN Put : way[i] = Put[i]
          /\ way[Len(Put) + 1] = x /\ Len(Put) \in Nat
      BY <2>1, <3>1, <3>2, OneMore
    <3>4. \A i \in DOMAIN way : i \in DOMAIN Put \/ i = Len(Put) + 1
      BY <3>3
    <3>5. ASSUME NEW i \in DOMAIN way, NEW j \in DOMAIN way, i < j, way[i][1] = way[j][1]
          PROVE  way[i][2] < way[j][2]
      <4>1. i \in DOMAIN Put
        BY <3>3, <3>5
      <4>2. CASE j \in DOMAIN Put
        BY <2>3, <3>3, <3>5, <4>1, <4>2
      <4>3. CASE j = Len(Put) + 1
        BY <1>1, <2>5, <3>1, <3>3, <3>5, <4>1, <4>3 DEF CommandInv, Numbered
      <4> QED  BY <3>4, <4>2, <4>3
    <3>6. \A n \in 1 .. typed : \E i \in DOMAIN way : way[i][1] = "uart" /\ way[i][2] = n
      <4> SUFFICES ASSUME NEW n \in 1 .. typed
                   PROVE  \E i \in DOMAIN way : way[i][1] = "uart" /\ way[i][2] = n
        OBVIOUS
      <4>1. CASE n = typed
        BY <3>1, <3>3, <4>1
      <4>2. CASE n # typed
        <5>1. PICK i \in DOMAIN Put : Put[i] = <<"uart", n>>
          BY <1>1, <4>2 DEF CommandInv, AllThere
        <5>2. i \in DOMAIN way /\ way[i] = <<"uart", n>>
          BY <3>3, <5>1
        <5> QED  BY <5>2
      <4> QED  BY <4>1, <4>2
    <3>7. \A i \in DOMAIN way : way[i][1] = "uart" => way[i][2] \in 1 .. typed
      <4> SUFFICES ASSUME NEW i \in DOMAIN way, way[i][1] = "uart"
                   PROVE  way[i][2] \in 1 .. typed
        OBVIOUS
      <4>1. CASE i \in DOMAIN Put
        BY <2>2, <3>3, <4>1
      <4>2. CASE i = Len(Put) + 1
        BY <2>1, <3>1, <3>3, <4>2
      <4> QED  BY <3>4, <4>1, <4>2
    <3>8. {way[i][2] : i \in {j \in DOMAIN way : way[j][1] = "uart"}} = 1 .. typed
      BY <3>6, <3>7
    <3> QED  BY <3>5, <3>8
  <2> QED  BY <2>4, <2>5
<1>2. LinkTypeOK /\ CommandInv => CommandsInOrder
  BY <1>1 DEF CommandsInOrder, Put
<1> QED  BY <1>2, CommandAlways, PTL
=============================================================================
