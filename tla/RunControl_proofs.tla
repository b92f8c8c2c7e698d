-------------------------- MODULE RunControl_proofs --------------------------
(***************************************************************************)
(* Proofs about RunControl, for every client, grid and number of tasks.    *)
(***************************************************************************)
EXTENDS RunControl, ScanGrid_proofs

-----------------------------------------------------------------------------
(***************************************************************************)
(* Type correctness.  TypeOK is not inductive: a queue element has a type  *)
(* only if the run that collects the lines has one, a loop count only if   *)
(* the dispatcher holds one, and queueToPc stays empty before it exists    *)
(* only because no task exists that could send to it (Unborn).             *)
(***************************************************************************)
RunType == [cmd : {"none", "measure", "tunnel"}, loops : LoopCounts \cup {0},
            lines : Seq(Prefixes \X Elements), strays : Seq(Prefixes \X Nat),
            final : Prefixes,
            done : BOOLEAN, stopped : BOOLEAN, busy : BOOLEAN]

\* Before the first MEASURE or TUNNEL no task exists that uses queueToPc.
Unborn ==
    ~transmitting =>
        /\ \A t \in MeasureTask : measurePc[t] = "none"
        /\ tunnelPc = "none"
        /\ dispatcher[1] \notin {"measureCreate", "tunnelSend", "tunnelResume"}

TypesInv ==
    /\ TypeOK
    /\ run \in RunType
    /\ Step("tunnelSend") => dispatcher[2] \in LoopCounts
    /\ Unborn

LEMMA ElementsAreTyped ==
    /\ Report \in Elements /\ TunnelSample \in Elements /\ End \in Elements
    /\ \A x, y \in Uint16 : Point(x, y) \in Elements
<1>1. \A s \in {"report", "tunnel", "end"} : <<s>> \in [{1} -> {"report", "tunnel", "end"}]
  OBVIOUS
<1> QED  BY <1>1 DEF Report, TunnelSample, End, Point, Elements

\* Sending to a queue that has room and taking from one that is not empty.
LEMMA SeqTyped ==
    ASSUME NEW S, NEW q \in Seq(S)
    PROVE  /\ \A e \in S : /\ Append(q, e) \in Seq(S)
                           /\ Len(Append(q, e)) = Len(q) + 1
           /\ q # <<>> => /\ Head(q) \in S /\ Tail(q) \in Seq(S)
                          /\ Len(Tail(q)) = Len(q) - 1
           /\ <<>> \in Seq(S) /\ Len(q) \in Nat
OBVIOUS

LEMMA EnqueueTyped ==
    ASSUME GlobalsTypeOK, NEW e \in Elements, Enqueue(e)
    PROVE  queueToPc' \in Seq(Elements) /\ Len(queueToPc') <= QueueLength
<1>1. queueToPc \in Seq(Elements) /\ Len(queueToPc) < QueueLength
  BY DEF GlobalsTypeOK, Enqueue, HasRoom
<1>2. queueToPc' = Append(queueToPc, e)
  BY DEF Enqueue
<1> QED  BY <1>1, <1>2, SeqTyped, CapacityAssumption

LEMMA MeasureMoves ==
    ASSUME TypesInv, NEW t \in MeasureTask, NEW s \in MeasureSteps, GoTo(t, s),
           measurePc[t] # "none", MeasureFrame, GridTypeOK',
           active' \in [{"measure", "tunnel", "adjust"} -> BOOLEAN],
           isLoopExecution' \in BOOLEAN, tunnelFound' \in BOOLEAN,
           prefix' \in Prefixes, timerRunning' \in BOOLEAN,
           queueToPc' \in Seq(Elements), Len(queueToPc') <= QueueLength
    PROVE  TypesInv'
<1>1. transmitting
  BY DEF TypesInv, Unborn
<1>2. measurePc' \in [MeasureTask -> MeasureSteps]
  BY DEF TypesInv, TypeOK, GlobalsTypeOK, GoTo
<1>3. /\ UNCHANGED <<queueTunnelCmd, tipQueue, handleMeasureLoop, tunnelPc, tunnelLeft>>
      /\ UNCHANGED <<adjustPc, transmitting, txElement, dispatcher, run>>
  BY DEF MeasureFrame, tunnelVars, txVars
<1>4. GlobalsTypeOK'
  BY <1>1, <1>2, <1>3 DEF TypesInv, TypeOK, GlobalsTypeOK
<1>5. TypeOK'
  BY <1>3, <1>4 DEF TypesInv, TypeOK
<1> QED
  BY <1>1, <1>3, <1>5 DEF TypesInv, Unborn, Step

LEMMA MeasureKeepsTypes ==
    ASSUME TypesInv, NEW t \in MeasureTask, MeasureNext(t)
    PROVE  TypesInv'
<1>0. /\ GridTypeOK /\ isLoopExecution \in BOOLEAN /\ tunnelFound \in BOOLEAN
      /\ prefix \in Prefixes /\ timerRunning \in BOOLEAN
      /\ queueToPc \in Seq(Elements) /\ Len(queueToPc) <= QueueLength
      /\ active \in [{"measure", "tunnel", "adjust"} -> BOOLEAN]
  BY DEF TypesInv, TypeOK, GlobalsTypeOK
<1> USE DEF At, MeasureSteps, InIteration, Prefixes, loopVars
<1>1. CASE MeasureInit(t)
  BY <1>0, <1>1, MeasureMoves, GridUntouched DEF MeasureInit, setPrefix
<1>2. CASE MeasureWhile(t)
  BY <1>0, <1>2, MeasureMoves, GridUntouched DEF MeasureWhile
<1>3. CASE MeasureSuspend(t)
  BY <1>0, <1>3, MeasureMoves, GridUntouched DEF MeasureSuspend
<1>4. CASE MeasureResumed(t)
  BY <1>0, <1>4, MeasureMoves, GridUntouched DEF MeasureResumed
<1>5. CASE InTolerance(t)
  <2>1. queueToPc' \in Seq(Elements) /\ Len(queueToPc') <= QueueLength
    <3>1. queueToPc' = queueToPc \/ queueToPc' = <<>>
      BY <1>5 DEF InTolerance, queueToPcClear
    <3>2. <<>> \in Seq(Elements) /\ Len(<<>>) <= QueueLength
      BY CapacityAssumption
    <3> QED  BY <1>0, <3>1, <3>2
  <2>2. tunnelFound' \in BOOLEAN /\ prefix' \in Prefixes
    BY <1>0, <1>5 DEF InTolerance, setPrefix
  <2>3. GoTo(t, "point") /\ measurePc[t] # "none"
    BY <1>5 DEF InTolerance
  <2>4. /\ UNCHANGED <<gridVars, active, isLoopExecution, timerRunning>>
        /\ MeasureFrame
    BY <1>5 DEF InTolerance
  <2> QED
    BY <1>0, <2>1, <2>2, <2>3, <2>4, MeasureMoves, GridUntouched
<1>6. CASE OffTolerance(t)
  BY <1>0, <1>6, MeasureMoves, GridUntouched DEF OffTolerance
<1>7. CASE SendReport(t)
  <2>1. queueToPc' \in Seq(Elements) /\ Len(queueToPc') <= QueueLength
    BY <1>7, EnqueueTyped, ElementsAreTyped DEF SendReport, TypesInv, TypeOK
  <2> QED
    BY <1>0, <1>7, <2>1, MeasureMoves, GridUntouched DEF SendReport
<1>8. CASE SendPoint(t)
  <2>1. queueToPc' \in Seq(Elements) /\ Len(queueToPc') <= QueueLength
    BY <1>8, EnqueueTyped, ElementsAreTyped DEF SendPoint, GridTypeOK, TypesInv, TypeOK, GlobalsTypeOK
  <2>2. GridTypeOK'
    BY <1>0, <1>8, MoveTyped, CompleteTyped DEF SendPoint
  <2> QED
    BY <1>0, <1>8, <2>1, <2>2, MeasureMoves DEF SendPoint
<1>9. CASE SendEnd(t)
  <2>1. queueToPc' \in Seq(Elements) /\ Len(queueToPc') <= QueueLength
    BY <1>9, EnqueueTyped, ElementsAreTyped DEF SendEnd, TypesInv, TypeOK
  <2> QED
    BY <1>0, <1>9, <2>1, MeasureMoves, GridUntouched DEF SendEnd
<1>10. CASE MeasureDeinit(t)
  BY <1>0, <1>10, MeasureMoves, GridUntouched DEF MeasureDeinit, timer_deinitialize
<1>11. CASE MeasureDrained(t)
  BY <1>0, <1>11, MeasureMoves, GridUntouched DEF MeasureDrained
<1>12. CASE MeasureFinish(t)
  BY <1>0, <1>12, MeasureMoves, GridUntouched DEF MeasureFinish
<1>13. CASE MeasureExit(t)
  BY <1>0, <1>13, MeasureMoves, GridUntouched DEF MeasureExit, timer_deinitialize
<1> QED
  BY <1>1, <1>2, <1>3, <1>4, <1>5, <1>6, <1>7, <1>8, <1>9, <1>10, <1>11,
     <1>12, <1>13 DEF MeasureNext

LEMMA TunnelMoves ==
    ASSUME TypesInv, TunnelFrame, tunnelPc # "none", GridTypeOK',
           tunnelPc' \in {"boot", "receive", "while", "suspend", "suspended",
                          "resumed", "end", "drain", "finish"},
           active' \in [{"measure", "tunnel", "adjust"} -> BOOLEAN],
           queueTunnelCmd' \in Seq(LoopCounts),
           Len(queueTunnelCmd') <= CommandLength,
           timerRunning' \in BOOLEAN, tunnelLeft' \in Int,
           queueToPc' \in Seq(Elements), Len(queueToPc') <= QueueLength
    PROVE  TypesInv'
<1>1. transmitting
  BY DEF TypesInv, Unborn
<1>2. /\ UNCHANGED <<isLoopExecution, tunnelFound, prefix, tipQueue>>
      /\ UNCHANGED <<handleMeasureLoop, measurePc, adjustPc, run>>
      /\ UNCHANGED <<transmitting, txElement, dispatcher>>
  BY DEF TunnelFrame, loopVars, txVars
<1>3. GlobalsTypeOK'
  BY <1>1, <1>2 DEF TypesInv, TypeOK, GlobalsTypeOK
<1>4. TypeOK'
  BY <1>2, <1>3 DEF TypesInv, TypeOK
<1> QED  BY <1>1, <1>2, <1>4 DEF TypesInv, Unborn, Step

LEMMA TunnelKeepsTypes ==
    ASSUME TypesInv, TunnelNext
    PROVE  TypesInv'
<1>0. /\ GridTypeOK /\ timerRunning \in BOOLEAN /\ tunnelLeft \in Int
      /\ queueToPc \in Seq(Elements) /\ Len(queueToPc) <= QueueLength
      /\ queueTunnelCmd \in Seq(LoopCounts) /\ Len(queueTunnelCmd) <= CommandLength
      /\ active \in [{"measure", "tunnel", "adjust"} -> BOOLEAN]
  BY DEF TypesInv, TypeOK, GlobalsTypeOK
<1>00. TunnelFrame /\ UNCHANGED dac => GridTypeOK'
  BY <1>0, GridUntouched DEF TunnelFrame, gridVars
<1>1. CASE TunnelBoot
  BY <1>0, <1>1, TunnelMoves, DacToGridTyped DEF TunnelBoot, resetDac
<1>2. CASE TunnelReceive
  <2>1. /\ queueTunnelCmd' \in Seq(LoopCounts) /\ Len(queueTunnelCmd') <= CommandLength
        /\ tunnelLeft' \in Int
    BY <1>0, <1>2, SeqTyped, InputAssumption, CapacityAssumption DEF TunnelReceive
  <2>2. active' \in [{"measure", "tunnel", "adjust"} -> BOOLEAN]
    BY <1>0, <1>2 DEF TunnelReceive
  <2> QED
    BY <1>0, <1>2, <2>1, <2>2, TunnelMoves, DacToGridTyped DEF TunnelReceive, resetDac
<1>3. CASE TunnelWhile
  BY <1>0, <1>00, <1>3, TunnelMoves DEF TunnelWhile
<1>4. CASE TunnelSuspend
  BY <1>0, <1>00, <1>4, TunnelMoves DEF TunnelSuspend
<1>5. CASE SendTunnelSample
  <2>1. queueToPc' \in Seq(Elements) /\ Len(queueToPc') <= QueueLength
    BY <1>5, EnqueueTyped, ElementsAreTyped DEF SendTunnelSample, TypesInv, TypeOK
  <2>2. tunnelLeft' \in Int
    BY <1>0, <1>5 DEF SendTunnelSample
  <2>3. active' \in [{"measure", "tunnel", "adjust"} -> BOOLEAN]
    BY <1>0, <1>5, <2>2 DEF SendTunnelSample
  <2> QED
    BY <1>0, <1>00, <1>5, <2>1, <2>2, <2>3, TunnelMoves DEF SendTunnelSample
<1>6. CASE SendTunnelEnd
  <2>1. queueToPc' \in Seq(Elements) /\ Len(queueToPc') <= QueueLength
    BY <1>6, EnqueueTyped, ElementsAreTyped DEF SendTunnelEnd, TypesInv, TypeOK
  <2> QED
    BY <1>0, <1>00, <1>6, <2>1, TunnelMoves DEF SendTunnelEnd
<1>7. CASE TunnelDrained
  BY <1>0, <1>00, <1>7, TunnelMoves DEF TunnelDrained
<1>8. CASE TunnelFinish
  <2>1. active' \in [{"measure", "tunnel", "adjust"} -> BOOLEAN]
    BY <1>0, <1>8 DEF TunnelFinish
  <2>2. timerRunning' \in BOOLEAN
    BY <1>8 DEF TunnelFinish, timer_deinitialize
  <2>4. tunnelLeft' \in Int
    BY <1>8 DEF TunnelFinish
  <2>3. /\ tunnelPc # "none" /\ tunnelPc' = "receive" /\ TunnelFrame
        /\ UNCHANGED <<dac, queueToPc, queueTunnelCmd>>
    BY <1>8 DEF TunnelFinish
  <2> QED  BY <1>0, <1>00, <2>1, <2>2, <2>3, <2>4, TunnelMoves
<1> QED
  BY <1>1, <1>2, <1>3, <1>4, <1>5, <1>6, <1>7, <1>8 DEF TunnelNext

LEMMA AdjustKeepsTypes ==
    ASSUME TypesInv, NEW t \in AdjustTask, AdjustNext(t)
    PROVE  TypesInv'
<1> DEFINE Steps == {"none", "while", "body", "delay", "exit"}
<1>0. /\ GridTypeOK /\ timerRunning \in BOOLEAN
      /\ adjustPc \in [AdjustTask -> Steps]
      /\ tipQueue \in Seq(TipDacs) /\ Len(tipQueue) <= TipLength
  BY DEF TypesInv, TypeOK, GlobalsTypeOK
<1>1. ASSUME AdjustFrame, GridTypeOK', timerRunning' \in BOOLEAN,
             adjustPc' \in [AdjustTask -> Steps],
             tipQueue' \in Seq(TipDacs), Len(tipQueue') <= TipLength
      PROVE  TypesInv'
  <2>1. /\ UNCHANGED <<isLoopExecution, tunnelFound, prefix, active>>
        /\ UNCHANGED <<handleMeasureLoop, measurePc, tunnelPc, tunnelLeft>>
        /\ UNCHANGED <<transmitting, txElement, dispatcher, run>>
        /\ UNCHANGED <<queueToPc, queueTunnelCmd>>
    BY <1>1 DEF AdjustFrame, loopVars, txVars, tunnelVars
  <2>2. GlobalsTypeOK'
    BY <1>1, <2>1 DEF TypesInv, TypeOK, GlobalsTypeOK
  <2>3. TypeOK'
    BY <2>1, <2>2 DEF TypesInv, TypeOK
  <2> QED  BY <2>1, <2>3 DEF TypesInv, Unborn, Step
<1>2. \A s \in Steps : [adjustPc EXCEPT ![t] = s] \in [AdjustTask -> Steps]
  BY <1>0
<1>3. AdjustFrame /\ UNCHANGED dac => GridTypeOK'
  BY <1>0, GridUntouched DEF AdjustFrame, gridVars
<1>4. CASE AdjustWhile(t)
  BY <1>0, <1>1, <1>2, <1>3, <1>4 DEF AdjustWhile
<1>5. CASE AdjustBody(t)
  <2>1. adjustPc' \in [AdjustTask -> Steps] /\ timerRunning' \in BOOLEAN
    BY <1>0, <1>2, <1>5 DEF AdjustBody
  <2>2. CASE tipQueue = <<>>
    BY <1>0, <1>1, <1>3, <1>5, <2>1, <2>2 DEF AdjustBody
  <2>3. CASE tipQueue # <<>>
    <3>1. /\ Head(tipQueue) \in TipDacs /\ tipQueue' \in Seq(TipDacs)
          /\ Len(tipQueue') = Len(tipQueue) - 1 /\ Len(tipQueue) \in Nat
      BY <1>0, <1>5, <2>3, SeqTyped DEF AdjustBody
    <3>2. currentXDac' \in Uint16 /\ currentYDac' \in Uint16
      BY <1>5, <2>3, <3>1, InputAssumption DEF AdjustBody
    <3>3. GridTypeOK'
      BY <1>0, <1>5, <3>2 DEF AdjustBody, AdjustFrame, position, GridTypeOK
    <3>4. Len(tipQueue') <= TipLength
      BY <1>0, <3>1, CapacityAssumption
    <3> QED  BY <1>1, <1>5, <2>1, <3>1, <3>3, <3>4 DEF AdjustBody
  <2> QED  BY <2>2, <2>3
<1>6. CASE AdjustDelay(t)
  BY <1>0, <1>1, <1>2, <1>3, <1>6 DEF AdjustDelay
<1>7. CASE AdjustExit(t)
  BY <1>0, <1>1, <1>2, <1>7, DacToGridTyped DEF AdjustExit, resetDac, timer_deinitialize
<1> QED  BY <1>4, <1>5, <1>6, <1>7 DEF AdjustNext

LEMMA TransmissionKeepsTypes ==
    ASSUME TypesInv, TransmissionNext
    PROVE  TypesInv'
<1>0. /\ GridTypeOK /\ txElement \in {<<>>} \cup Elements
      /\ queueToPc \in Seq(Elements) /\ Len(queueToPc) <= QueueLength
      /\ run \in RunType /\ prefix \in Prefixes
      /\ ~transmitting => queueToPc = <<>> /\ txElement = <<>>
  BY DEF TypesInv, TypeOK, GlobalsTypeOK
<1>1. ASSUME TransmissionFrame, txElement' \in {<<>>} \cup Elements,
             queueToPc' \in Seq(Elements), Len(queueToPc') <= QueueLength,
             run' \in RunType, transmitting
      PROVE  TypesInv'
  <2>1. /\ UNCHANGED <<isLoopExecution, tunnelFound, prefix, active, tipQueue>>
        /\ UNCHANGED <<handleMeasureLoop, measurePc, tunnelPc, tunnelLeft>>
        /\ UNCHANGED <<transmitting, dispatcher, timerRunning>>
        /\ UNCHANGED <<adjustPc, queueTunnelCmd>>
    BY <1>1 DEF TransmissionFrame, loopVars, tunnelVars
  <2>2. GridTypeOK'
    BY <1>0, <1>1, GridUntouched DEF TransmissionFrame
  <2>3. GlobalsTypeOK'
    BY <1>1, <2>1, <2>2 DEF TypesInv, TypeOK, GlobalsTypeOK
  <2>4. TypeOK'
    BY <1>1, <2>1, <2>3 DEF TypesInv, TypeOK, RunType
  <2> QED  BY <1>1, <2>1, <2>4 DEF TypesInv, Unborn, Step
<1>2. CASE Receive
  <2>1. /\ txElement' \in Elements /\ queueToPc' \in Seq(Elements)
        /\ Len(queueToPc') = Len(queueToPc) - 1 /\ Len(queueToPc) \in Nat
    BY <1>0, <1>2, SeqTyped DEF Receive
  <2>2. Len(queueToPc') <= QueueLength
    BY <1>0, <2>1, CapacityAssumption
  <2> QED  BY <1>0, <1>1, <1>2, <2>1, <2>2 DEF Receive
<1>3. CASE Transmit
  <2>1. txElement \in Elements /\ transmitting
    BY <1>0, <1>3 DEF Transmit
  <2>2. Append(run.lines, <<prefix, txElement>>) \in Seq(Prefixes \X Elements)
    BY <1>0, <2>1 DEF RunType
  <2>3. Append(run.strays, <<prefix, Len(run.lines)>>) \in Seq(Prefixes \X Nat)
    BY <1>0 DEF RunType
  <2>4. prefix \in Prefixes
    BY <1>0
  <2>5. run' \in RunType
    BY <1>0, <1>3, <2>2, <2>3, <2>4 DEF Transmit, RunType
  <2> QED  BY <1>0, <1>1, <1>3, <2>1, <2>5 DEF Transmit
<1> QED  BY <1>2, <1>3 DEF TransmissionNext

\* What every step of the dispatcher and every command keeps of the types.
LEMMA CommandMoves ==
    ASSUME TypesInv, GridTypeOK',
           UNCHANGED <<isLoopExecution, tunnelFound, tunnelLeft, txElement>>,
           active' \in [{"measure", "tunnel", "adjust"} -> BOOLEAN],
           prefix' \in Prefixes, timerRunning' \in BOOLEAN,
           queueToPc' \in Seq(Elements), Len(queueToPc') <= QueueLength,
           queueTunnelCmd' \in Seq(LoopCounts),
           Len(queueTunnelCmd') <= CommandLength,
           tipQueue' \in Seq(TipDacs), Len(tipQueue') <= TipLength,
           handleMeasureLoop' \in MeasureTask \cup {NoTask},
           measurePc' \in [MeasureTask -> MeasureSteps],
           tunnelPc' \in {"none", "boot", "receive", "while", "suspend",
                          "suspended", "resumed", "end", "drain", "finish"},
           adjustPc' \in [AdjustTask -> {"none", "while", "body", "delay", "exit"}],
           transmitting' \in BOOLEAN,
           ~transmitting' => ~transmitting /\ UNCHANGED queueToPc
    PROVE  GlobalsTypeOK'
<1>1. transmitting' \/ (queueToPc' = <<>> /\ txElement' = <<>>)
  BY DEF TypesInv, TypeOK, GlobalsTypeOK
<1> QED  BY <1>1 DEF TypesInv, TypeOK, GlobalsTypeOK

LEMMA ResumeTyped ==
    /\ \A t : GlobalsTypeOK /\ ResumeMeasure(t)
               => measurePc' \in [MeasureTask -> MeasureSteps]
    /\ GlobalsTypeOK /\ ResumeTunnel
         => tunnelPc' \in {"none", "boot", "receive", "while", "suspend",
                           "suspended", "resumed", "end", "drain", "finish"}
<1>1. "resumed" \in MeasureSteps
  BY DEF MeasureSteps
<1> QED  BY <1>1 DEF ResumeMeasure, ResumeTunnel, GlobalsTypeOK

\* A run that has just been started.
LEMMA RunTyped ==
    /\ NoRun \in RunType
    /\ \A c \in {"measure", "tunnel"}, n \in LoopCounts \cup {0} : RunOf(c, n) \in RunType
    /\ \A r \in RunType, b \in BOOLEAN :
         /\ [r EXCEPT !.stopped = b] \in RunType
         /\ [r EXCEPT !.busy = b] \in RunType
<1>1. NoRun \in RunType
  BY DEF NoRun, RunType, Prefixes
<1> QED  BY <1>1 DEF RunOf, RunType

LEMMA CommandsKeepTypes ==
    ASSUME TypesInv, ClientNext
    PROVE  TypesInv'
<1>0. /\ GlobalsTypeOK /\ GridTypeOK /\ run \in RunType
      /\ active \in [{"measure", "tunnel", "adjust"} -> BOOLEAN]
      /\ queueToPc \in Seq(Elements) /\ Len(queueToPc) <= QueueLength
      /\ tipQueue \in Seq(TipDacs) /\ Len(tipQueue) <= TipLength
      /\ dispatcher[2] \in LoopCounts \cup {0} /\ dispatcher = <<dispatcher[1], dispatcher[2]>>
      /\ Unborn
  BY DEF TypesInv, TypeOK, GlobalsTypeOK
<1>1. \A c \in {"measure", "tunnel", "adjust"}, b \in BOOLEAN :
        [active EXCEPT ![c] = b] \in [{"measure", "tunnel", "adjust"} -> BOOLEAN]
  BY <1>0
<1>2. <<>> \in Seq(Elements) /\ Len(<<>>) <= QueueLength
  BY CapacityAssumption
<1> USE DEF loopVars, txVars, tunnelVars, DispatcherFrame
<1>3. CASE MeasureCommand
  <2>1. GridTypeOK'
    BY <1>0, <1>3, SetStartTyped DEF MeasureCommand
  <2>2. GlobalsTypeOK'
    BY <1>0, <1>1, <1>3, <2>1, CommandMoves DEF MeasureCommand, GlobalsTypeOK
  <2>3. run' \in RunType /\ dispatcher' = <<"measureQueue", dispatcher[2]>>
    BY <1>3, RunTyped DEF MeasureCommand, GoOn
  <2>4. Unborn'
    BY <1>0, <1>3, <2>3 DEF MeasureCommand, Unborn
  <2> QED  BY <1>0, <2>2, <2>3, <2>4 DEF TypesInv, TypeOK, RunType, Step
<1>4. ASSUME NEW n \in LoopCounts, TunnelCommand(n) PROVE TypesInv'
  <2>1. GridTypeOK'
    BY <1>0, <1>4, GridUntouched DEF TunnelCommand, gridVars
  <2>2. prefix' \in Prefixes /\ queueToPc' = <<>> /\ transmitting' = TRUE
    BY <1>4 DEF TunnelCommand, setPrefix, queueToPcClear, Prefixes
  <2>3. GlobalsTypeOK'
    BY <1>0, <1>1, <1>2, <1>4, <2>1, <2>2, CommandMoves DEF TunnelCommand, GlobalsTypeOK
  <2>4. run' \in RunType /\ dispatcher' = <<"tunnelSend", n>>
    BY <1>4, RunTyped DEF TunnelCommand
  <2> QED  BY <2>2, <2>3, <2>4 DEF TypesInv, TypeOK, RunType, Step, Unborn
<1>5. CASE AdjustCommand
  <2>1. GridTypeOK'
    BY <1>0, <1>5, GridUntouched DEF AdjustCommand, gridVars
  <2>2. adjustPc' \in [AdjustTask -> {"none", "while", "body", "delay", "exit"}]
    BY <1>0, <1>5 DEF AdjustCommand, GlobalsTypeOK
  <2>3. GlobalsTypeOK'
    BY <1>0, <1>1, <1>5, <2>1, <2>2, CommandMoves DEF AdjustCommand, GlobalsTypeOK
  <2> QED  BY <1>0, <1>5, <2>3 DEF AdjustCommand, TypesInv, TypeOK, Step, Unborn
<1>6. ASSUME NEW d \in TipDacs, TipCommand(d) PROVE TypesInv'
  <2>1. GridTypeOK'
    BY <1>0, <1>6, GridUntouched DEF TipCommand, gridVars
  <2>2. tipQueue' \in Seq(TipDacs) /\ Len(tipQueue') <= TipLength
    BY <1>0, <1>6, SeqTyped, CapacityAssumption DEF TipCommand
  <2>3. GlobalsTypeOK'
    BY <1>0, <1>1, <1>6, <2>1, <2>2, CommandMoves DEF TipCommand, GlobalsTypeOK
  <2> QED  BY <1>0, <1>6, <2>3 DEF TipCommand, TypesInv, TypeOK, Step, Unborn
<1>7. ASSUME NEW p \in ParameterSets, ParameterCommand(p) PROVE TypesInv'
  <2>1. GridTypeOK'
    BY <1>0, <1>7, LoadTyped DEF ParameterCommand
  <2>2. GlobalsTypeOK'
    BY <1>0, <1>1, <1>7, <2>1, CommandMoves DEF ParameterCommand, GlobalsTypeOK
  <2>3. run' \in RunType
    BY <1>7, RunTyped DEF ParameterCommand
  <2> QED  BY <1>0, <1>7, <2>2, <2>3 DEF ParameterCommand, TypesInv, TypeOK, RunType, Step, Unborn
<1>8. CASE StopCommand
  <2>1. GridTypeOK'
    BY <1>0, <1>8, GridUntouched DEF StopCommand, gridVars
  <2>2. active' \in [{"measure", "tunnel", "adjust"} -> BOOLEAN]
    BY <1>0, <1>8 DEF StopCommand
  <2>3. GlobalsTypeOK'
    BY <1>0, <1>8, <2>1, <2>2, CommandMoves DEF StopCommand, GlobalsTypeOK
  <2>4. run' \in RunType /\ dispatcher' = <<"stopMeasure", dispatcher[2]>>
    BY <1>0, <1>8, RunTyped DEF StopCommand, GoOn
  <2> QED  BY <1>0, <1>8, <2>3, <2>4 DEF StopCommand, TypesInv, TypeOK, RunType, Step, Unborn
<1> QED  BY <1>3, <1>4, <1>5, <1>6, <1>7, <1>8 DEF ClientNext

LEMMA DispatcherKeepsTypes ==
    ASSUME TypesInv, DispatcherNext
    PROVE  TypesInv'
<1>0. /\ GlobalsTypeOK /\ GridTypeOK /\ run \in RunType
      /\ active \in [{"measure", "tunnel", "adjust"} -> BOOLEAN]
      /\ queueToPc \in Seq(Elements) /\ Len(queueToPc) <= QueueLength
      /\ queueTunnelCmd \in Seq(LoopCounts) /\ Len(queueTunnelCmd) <= CommandLength
      /\ dispatcher[2] \in LoopCounts \cup {0}
      /\ Step("tunnelSend") => dispatcher[2] \in LoopCounts
      /\ Unborn
  BY DEF TypesInv, TypeOK, GlobalsTypeOK
<1>00. \A s : GoOn(s) => dispatcher'[1] = s /\ dispatcher'[2] = dispatcher[2]
  BY DEF GoOn
<1>000. Return => dispatcher' = <<"idle", 0>>
  BY DEF Return
<1>0a. UNCHANGED gridVars => GridTypeOK'
  BY <1>0, GridUntouched
<1> USE DEF loopVars, txVars, tunnelVars, DispatcherFrame, gridVars
<1>1. CASE MeasureQueue
  <2>1. /\ transmitting' = TRUE /\ prefix' \in Prefixes
        /\ queueToPc' \in Seq(Elements) /\ Len(queueToPc') <= QueueLength
    BY <1>1, CapacityAssumption DEF MeasureQueue, queueToPcClear, setPrefix, Prefixes
  <2>2. GlobalsTypeOK'
    BY <1>0, <1>0a, <1>1, <2>1, CommandMoves DEF MeasureQueue, GlobalsTypeOK
  <2>3. dispatcher' = <<"measureCreate", dispatcher[2]>> /\ UNCHANGED run
    BY <1>1 DEF MeasureQueue, GoOn
  <2> QED  BY <1>0, <2>1, <2>2, <2>3 DEF TypesInv, TypeOK, RunType, Step, Unborn
<1>2. CASE MeasureCreate
  <2>1. /\ measurePc' \in [MeasureTask -> MeasureSteps]
        /\ handleMeasureLoop' \in MeasureTask \cup {NoTask}
    BY <1>0, <1>2 DEF MeasureCreate, GlobalsTypeOK, MeasureSteps
  <2>2. timerRunning' = TRUE
    BY <1>2 DEF MeasureCreate, timer_initialize
  <2>3. GlobalsTypeOK'
    BY <1>0, <1>0a, <1>2, <2>1, <2>2, CommandMoves DEF MeasureCreate, GlobalsTypeOK
  <2>4. dispatcher' = <<"idle", 0>> /\ UNCHANGED run /\ transmitting' /\ transmitting
    BY <1>0, <1>2 DEF MeasureCreate, Return, Unborn, Step
  <2> QED  BY <1>0, <2>3, <2>4 DEF TypesInv, TypeOK, RunType, Step, Unborn
<1>3. CASE TunnelSend
  <2>1. /\ tunnelPc' \in {"none", "boot", "receive", "while", "suspend",
                          "suspended", "resumed", "end", "drain", "finish"}
    BY <1>0, <1>3 DEF TunnelSend, GlobalsTypeOK
  <2>2. transmitting /\ transmitting' /\ UNCHANGED run
    BY <1>0, <1>3 DEF TunnelSend, Unborn, Step
  <2>3. CASE Len(queueTunnelCmd) < CommandLength /\ UNCHANGED active
             /\ queueTunnelCmd' = Append(queueTunnelCmd, dispatcher[2])
             /\ GoOn("tunnelResume")
    <3>1. queueTunnelCmd' \in Seq(LoopCounts) /\ Len(queueTunnelCmd') <= CommandLength
      BY <1>0, <1>3, <2>3, SeqTyped, CapacityAssumption DEF TunnelSend
    <3>2. GlobalsTypeOK'
      BY <1>0, <1>0a, <1>3, <2>1, <2>2, <2>3, <3>1, CommandMoves DEF TunnelSend, GlobalsTypeOK
    <3>3. dispatcher' = <<"tunnelResume", dispatcher[2]>>
      BY <2>3 DEF GoOn
    <3> QED  BY <1>0, <2>2, <3>2, <3>3 DEF TypesInv, TypeOK, RunType, Step, Unborn
  <2>4. CASE /\ active' = [active EXCEPT !.tunnel = FALSE]
             /\ Return /\ UNCHANGED queueTunnelCmd
    <3>1. active' \in [{"measure", "tunnel", "adjust"} -> BOOLEAN]
      BY <1>0, <2>4
    <3>2. GlobalsTypeOK'
      BY <1>0, <1>0a, <1>3, <2>1, <2>2, <2>4, <3>1, CommandMoves DEF TunnelSend, GlobalsTypeOK
    <3> QED  BY <1>0, <1>000, <2>2, <2>4, <3>2 DEF TypesInv, TypeOK, RunType, Step, Unborn
  <2> QED  BY <1>3, <2>3, <2>4 DEF TunnelSend
<1>4. CASE TunnelResume
  <2>1. GlobalsTypeOK'
    BY <1>0, <1>0a, <1>4, CommandMoves, ResumeTyped
    DEF TunnelResume, GlobalsTypeOK, timer_initialize
  <2> QED  BY <1>0, <1>000, <1>4, <2>1 DEF TunnelResume, TypesInv, TypeOK, RunType, Step, Unborn
<1>5. CASE StopMeasure
  <2>1. active' \in [{"measure", "tunnel", "adjust"} -> BOOLEAN]
    BY <1>0, <1>5 DEF StopMeasure
  <2>2. GlobalsTypeOK'
    BY <1>0, <1>0a, <1>5, <2>1, CommandMoves, ResumeTyped DEF StopMeasure, GlobalsTypeOK
  <2>3. dispatcher' = <<"stopTunnel", dispatcher[2]>> /\ UNCHANGED <<transmitting, tunnelPc, run>>
    BY <1>5 DEF StopMeasure, GoOn
  <2>4. (\A t \in MeasureTask : measurePc[t] = "none") => UNCHANGED measurePc
    BY <1>5 DEF StopMeasure, ResumeMeasure
  <2> QED  BY <1>0, <2>2, <2>3, <2>4 DEF TypesInv, TypeOK, RunType, Step, Unborn
<1>6. CASE StopTunnel
  <2>1. GlobalsTypeOK'
    BY <1>0, <1>0a, <1>6, CommandMoves, ResumeTyped DEF StopTunnel, GlobalsTypeOK
  <2>2. dispatcher' = <<"stopSend", dispatcher[2]>> /\ UNCHANGED <<transmitting, measurePc, run>>
    BY <1>6 DEF StopTunnel, GoOn
  <2>3. tunnelPc = "none" => UNCHANGED tunnelPc
    BY <1>6 DEF StopTunnel, ResumeTunnel
  <2> QED  BY <1>0, <2>1, <2>2, <2>3 DEF TypesInv, TypeOK, RunType, Step, Unborn
<1>7. CASE StopSend
  <2>1. queueToPc' \in Seq(Elements) /\ Len(queueToPc') <= QueueLength
    BY <1>0, <1>7, EnqueueTyped, ElementsAreTyped DEF StopSend
  <2>2. ~transmitting => UNCHANGED queueToPc
    BY <1>7 DEF StopSend
  <2>3. GlobalsTypeOK'
    BY <1>0, <1>0a, <1>7, <2>1, <2>2, CommandMoves DEF StopSend, GlobalsTypeOK
  <2>4. /\ dispatcher' = <<"stopReport", dispatcher[2]>>
        /\ UNCHANGED <<transmitting, measurePc, tunnelPc, run>>
    BY <1>7 DEF StopSend, GoOn
  <2> QED  BY <1>0, <2>3, <2>4 DEF TypesInv, TypeOK, RunType, Step, Unborn
<1>8. CASE StopReport
  <2>1. GlobalsTypeOK'
    BY <1>0, <1>0a, <1>8, CommandMoves DEF StopReport, GlobalsTypeOK, timer_deinitialize
  <2>2. run' \in RunType
    BY <1>0, <1>8, RunTyped DEF StopReport
  <2> QED  BY <1>0, <1>000, <1>8, <2>1, <2>2 DEF StopReport, TypesInv, TypeOK, RunType, Step, Unborn
<1> QED
  BY <1>1, <1>2, <1>3, <1>4, <1>5, <1>6, <1>7, <1>8 DEF DispatcherNext

LEMMA BootKeepsTypes ==
    ASSUME TypesInv, BootVspi \/ BootParameters
    PROVE  TypesInv'
<1>1. GridTypeOK'
  BY DacToGridTyped, LoadTyped
  DEF BootVspi, BootParameters, TypesInv, TypeOK, GlobalsTypeOK
<1>2. UNCHANGED <<controlVars, run>>
  BY DEF BootVspi, BootParameters
<1>3. GlobalsTypeOK'
  BY <1>1, <1>2 DEF TypesInv, TypeOK, GlobalsTypeOK, controlVars, loopVars, tunnelVars, txVars
<1> QED
  BY <1>2, <1>3 DEF TypesInv, TypeOK, Unborn, Step, controlVars, tunnelVars, txVars

LEMMA TickKeepsTypes ==
    ASSUME TypesInv, Tick
    PROVE  TypesInv'
<1>1. /\ measurePc' \in [MeasureTask -> MeasureSteps]
      /\ tunnelPc' \in {"none", "boot", "receive", "while", "suspend",
                        "suspended", "resumed", "end", "drain", "finish"}
      /\ (\A t \in MeasureTask : measurePc[t] = "none") => UNCHANGED measurePc
      /\ tunnelPc = "none" => UNCHANGED tunnelPc
  BY ResumeTyped DEF Tick, TypesInv, TypeOK, GlobalsTypeOK, ResumeMeasure, ResumeTunnel
<1>2. GridTypeOK'
  BY GridUntouched DEF Tick, TypesInv, TypeOK, GlobalsTypeOK
<1>3. /\ UNCHANGED <<active, isLoopExecution, tunnelFound, prefix, queueToPc>>
      /\ UNCHANGED <<queueTunnelCmd, tipQueue, timerRunning, handleMeasureLoop>>
      /\ UNCHANGED <<tunnelLeft, adjustPc, transmitting, txElement, dispatcher, run>>
  BY DEF Tick, loopVars, txVars
<1>4. GlobalsTypeOK'
  BY <1>1, <1>2, <1>3 DEF TypesInv, TypeOK, GlobalsTypeOK
<1> QED  BY <1>1, <1>3, <1>4 DEF TypesInv, TypeOK, Unborn, Step

LEMMA TypesStep == TypesInv /\ [Next]_vars => TypesInv'
<1> SUFFICES ASSUME TypesInv, [Next]_vars PROVE TypesInv'
  OBVIOUS
<1>1. CASE UNCHANGED vars
  <2>1. GridTypeOK'
    BY <1>1, GridUntouched DEF vars, TypesInv, TypeOK, GlobalsTypeOK
  <2>2. GlobalsTypeOK'
    BY <1>1, <2>1
    DEF vars, controlVars, loopVars, tunnelVars, txVars, TypesInv, TypeOK, GlobalsTypeOK
  <2> QED
    BY <1>1, <2>2
    DEF vars, controlVars, loopVars, tunnelVars, txVars, TypesInv, TypeOK, Unborn, Step
<1> QED
  BY <1>1, BootKeepsTypes, CommandsKeepTypes, DispatcherKeepsTypes,
     TickKeepsTypes, MeasureKeepsTypes, TunnelKeepsTypes, AdjustKeepsTypes,
     TransmissionKeepsTypes DEF Next

LEMMA TypesInit == Init => TypesInv
<1> SUFFICES ASSUME Init PROVE TypesInv
  OBVIOUS
<1>1. GridTypeOK
  BY GridInitTyped DEF Init
<1>2. GlobalsTypeOK
  <2>1. active \in [{"measure", "tunnel", "adjust"} -> BOOLEAN]
    BY DEF Init
  <2>2. \A S : <<>> \in Seq(S) /\ \A n \in Nat : Len(<<>>) <= n
    OBVIOUS
  <2>3. measurePc \in [MeasureTask -> MeasureSteps]
    BY DEF Init, MeasureSteps
  <2>4. adjustPc \in [AdjustTask -> {"none", "while", "body", "delay", "exit"}]
    BY DEF Init
  <2>5. queueToPc \in Seq(Elements) /\ Len(queueToPc) <= QueueLength
    BY <2>2, CapacityAssumption DEF Init
  <2>6. queueTunnelCmd \in Seq(LoopCounts) /\ Len(queueTunnelCmd) <= CommandLength
    BY <2>2, CapacityAssumption DEF Init
  <2>7. tipQueue \in Seq(TipDacs) /\ Len(tipQueue) <= TipLength
    BY <2>2, CapacityAssumption DEF Init
  <2>8. isLoopExecution \in BOOLEAN /\ tunnelFound \in BOOLEAN /\ timerRunning \in BOOLEAN
    BY DEF Init
  <2>9. prefix \in Prefixes /\ handleMeasureLoop \in MeasureTask \cup {NoTask}
    BY DEF Init, Prefixes
  <2>10. tunnelLeft \in Int
    <3>1. tunnelLeft = 0
      BY DEF Init
    <3> QED  BY <3>1
  <2>11. /\ tunnelPc = "none"
         /\ transmitting \in BOOLEAN /\ txElement \in {<<>>} \cup Elements
         /\ ~transmitting => queueToPc = <<>> /\ txElement = <<>>
    BY DEF Init
  <2> QED
    BY <1>1, <2>1, <2>3, <2>4, <2>5, <2>6, <2>7, <2>8, <2>9, <2>10, <2>11
    DEF GlobalsTypeOK
<1>3. run \in RunType
  BY RunTyped DEF Init
<1> QED
  BY <1>2, <1>3 DEF Init, TypesInv, TypeOK, RunType, Unborn, Step

\* For every client, also an impatient one: no queue outgrows its length,
\* nothing is queued for a transmission that does not exist, and every index,
\* DAC value, flag and step keeps its type.
THEOREM RunTypeCorrect == Spec => []TypeOK
<1>1. TypesInv => TypeOK
  BY DEF TypesInv
<1> QED  BY <1>1, TypesInit, TypesStep, PTL DEF Spec

-----------------------------------------------------------------------------
(***************************************************************************)
(* isLoopExecution is never left set.  The invariant needs the type of     *)
(* measurePc and nothing else of the state.                                *)
(***************************************************************************)
PcTypeOK == measurePc \in [MeasureTask -> MeasureSteps]
GuardInv == PcTypeOK /\ GuardIsOwned

\* A task that goes on within its iteration still owns the flag.
LEMMA StaysInIteration ==
    ASSUME PcTypeOK, NEW t \in MeasureTask, NEW s \in InIteration, GoTo(t, s)
    PROVE  GuardInv'
<1>1. measurePc' \in [MeasureTask -> MeasureSteps] /\ measurePc'[t] = s
  BY DEF PcTypeOK, GoTo, MeasureSteps
<1> QED  BY <1>1 DEF GuardInv, PcTypeOK, GuardIsOwned

\* A task that leaves its iteration has cleared the flag.
LEMMA LeavesIteration ==
    ASSUME PcTypeOK, NEW t \in MeasureTask, NEW s \in MeasureSteps, GoTo(t, s),
           isLoopExecution' = FALSE
    PROVE  GuardInv'
BY DEF PcTypeOK, GoTo, MeasureSteps, GuardInv, GuardIsOwned

\* A task that is not in an iteration moves; the owner, if any, is another.
LEMMA OutsideIteration ==
    ASSUME GuardInv, NEW t \in MeasureTask, NEW s \in MeasureSteps, GoTo(t, s),
           measurePc[t] \notin InIteration, UNCHANGED isLoopExecution
    PROVE  GuardInv'
<1>1. PcTypeOK'
  BY DEF GuardInv, PcTypeOK, GoTo
<1>2. ASSUME isLoopExecution' PROVE \E u \in MeasureTask : measurePc'[u] \in InIteration
  <2>1. PICK u \in MeasureTask : measurePc[u] \in InIteration
    BY <1>2 DEF GuardInv, GuardIsOwned
  <2>2. u # t
    BY <2>1
  <2>3. measurePc'[u] = measurePc[u]
    BY <2>2 DEF GuardInv, PcTypeOK, GoTo
  <2> QED  BY <2>1, <2>3
<1> QED  BY <1>1, <1>2 DEF GuardInv, GuardIsOwned

\* vTaskResume moves a suspended task only.
LEMMA ResumeKeepsGuard ==
    ASSUME GuardInv, NEW t, ResumeMeasure(t), UNCHANGED isLoopExecution
    PROVE  GuardInv'
<1>1. CASE t \in MeasureTask /\ measurePc[t] = "suspended"
  <2>1. GoTo(t, "resumed")
    BY <1>1 DEF ResumeMeasure, GoTo
  <2>2. measurePc[t] \notin InIteration /\ "resumed" \in MeasureSteps
    BY <1>1 DEF InIteration, MeasureSteps
  <2> QED  BY <1>1, <2>1, <2>2, OutsideIteration
<1>2. CASE ~(t \in MeasureTask /\ measurePc[t] = "suspended")
  BY <1>2 DEF ResumeMeasure, GuardInv, PcTypeOK, GuardIsOwned
<1> QED  BY <1>1, <1>2

LEMMA GuardUntouched ==
    ASSUME GuardInv, UNCHANGED <<measurePc, isLoopExecution>>
    PROVE  GuardInv'
BY DEF GuardInv, PcTypeOK, GuardIsOwned

LEMMA MeasureKeepsGuard ==
    ASSUME GuardInv, NEW t \in MeasureTask, MeasureNext(t)
    PROVE  GuardInv'
<1> USE DEF InIteration, MeasureSteps, At
<1>0. PcTypeOK
  BY DEF GuardInv
<1>1. CASE MeasureInit(t)
  BY <1>1, OutsideIteration DEF MeasureInit
<1>2. CASE MeasureWhile(t)
  <2>1. PICK s \in {"suspend", "exit"} : GoTo(t, s)
    BY <1>2 DEF MeasureWhile
  <2> QED  BY <1>2, <2>1, OutsideIteration DEF MeasureWhile, loopVars
<1>3. CASE MeasureSuspend(t)
  BY <1>3, OutsideIteration DEF MeasureSuspend, loopVars
<1>4. CASE MeasureResumed(t)
  <2>1. PICK s \in {"errorBlink", "sample"} : GoTo(t, s)
    BY <1>4 DEF MeasureResumed
  <2> QED  BY <1>0, <2>1, StaysInIteration
<1>5. CASE InTolerance(t)
  BY <1>0, <1>5, StaysInIteration DEF InTolerance
<1>6. CASE OffTolerance(t)
  <2>1. CASE GoTo(t, "while") /\ isLoopExecution' = FALSE
    BY <1>0, <2>1, LeavesIteration
  <2>2. CASE GoTo(t, "report")
    BY <1>0, <2>2, StaysInIteration
  <2> QED  BY <1>6, <2>1, <2>2 DEF OffTolerance
<1>7. CASE SendReport(t)
  BY <1>0, <1>7, LeavesIteration DEF SendReport
<1>8. CASE SendPoint(t)
  <2>1. CASE isLoopExecution' = FALSE /\ GoTo(t, "while")
    BY <1>0, <2>1, LeavesIteration
  <2>2. CASE GoTo(t, "end")
    BY <1>0, <2>2, StaysInIteration
  <2> QED  BY <1>8, <2>1, <2>2 DEF SendPoint
<1>9. CASE SendEnd(t)
  BY <1>0, <1>9, StaysInIteration DEF SendEnd
<1>10. CASE MeasureDeinit(t)
  BY <1>0, <1>10, StaysInIteration DEF MeasureDeinit
<1>11. CASE MeasureDrained(t)
  BY <1>0, <1>11, StaysInIteration DEF MeasureDrained
<1>12. CASE MeasureFinish(t)
  BY <1>0, <1>12, LeavesIteration DEF MeasureFinish
<1>13. CASE MeasureExit(t)
  BY <1>0, <1>13, LeavesIteration DEF MeasureExit
<1> QED
  BY <1>1, <1>2, <1>3, <1>4, <1>5, <1>6, <1>7, <1>8, <1>9, <1>10, <1>11,
     <1>12, <1>13 DEF MeasureNext

LEMMA DispatcherKeepsGuard ==
    ASSUME GuardInv, ClientNext \/ DispatcherNext
    PROVE  GuardInv'
<1>1. CASE MeasureCreate
  <2>1. PICK t \in MeasureTask :
          measurePc[t] = "none" /\ measurePc' = [measurePc EXCEPT ![t] = "init"]
    BY <1>1 DEF MeasureCreate
  <2>2. /\ GoTo(t, "init") /\ "init" \in MeasureSteps
        /\ measurePc[t] \notin InIteration
    BY <2>1 DEF GoTo, MeasureSteps, InIteration
  <2> QED
    BY <1>1, <2>2, OutsideIteration DEF MeasureCreate, DispatcherFrame, loopVars
<1>2. CASE StopMeasure
  BY <1>2, ResumeKeepsGuard DEF StopMeasure, DispatcherFrame, loopVars
<1>3. CASE ClientNext
  BY <1>3, GuardUntouched
  DEF ClientNext, MeasureCommand, TunnelCommand, AdjustCommand, TipCommand,
      ParameterCommand, StopCommand, DispatcherFrame, loopVars
<1>4. CASE MeasureQueue \/ TunnelSend \/ TunnelResume
  BY <1>4, GuardUntouched
  DEF MeasureQueue, TunnelSend, TunnelResume, DispatcherFrame, loopVars
<1>5. CASE StopTunnel \/ StopSend \/ StopReport
  BY <1>5, GuardUntouched
  DEF StopTunnel, StopSend, StopReport, DispatcherFrame, loopVars
<1> QED  BY <1>1, <1>2, <1>3, <1>4, <1>5 DEF DispatcherNext

LEMMA GuardStep == GuardInv /\ [Next]_vars => GuardInv'
<1> SUFFICES ASSUME GuardInv, [Next]_vars PROVE GuardInv'
  OBVIOUS
<1>1. CASE BootVspi \/ BootParameters
  BY <1>1, GuardUntouched DEF BootVspi, BootParameters, controlVars, loopVars
<1>2. CASE ClientNext \/ DispatcherNext
  BY <1>2, DispatcherKeepsGuard
<1>3. CASE Tick
  <2>1. UNCHANGED isLoopExecution
    BY <1>3 DEF Tick, loopVars
  <2>2. UNCHANGED measurePc \/ ResumeMeasure(handleMeasureLoop)
    BY <1>3 DEF Tick
  <2> QED  BY <2>1, <2>2, GuardUntouched, ResumeKeepsGuard
<1>4. CASE \E t \in MeasureTask : MeasureNext(t)
  BY <1>4, MeasureKeepsGuard
<1>5. CASE TunnelNext
  BY <1>5, GuardUntouched
  DEF TunnelNext, TunnelBoot, TunnelReceive, TunnelWhile, TunnelSuspend,
      SendTunnelSample, SendTunnelEnd, TunnelDrained, TunnelFinish,
      TunnelFrame, loopVars
<1>6. CASE \E t \in AdjustTask : AdjustNext(t)
  BY <1>6, GuardUntouched
  DEF AdjustNext, AdjustWhile, AdjustBody, AdjustDelay, AdjustExit,
      AdjustFrame, loopVars
<1>7. CASE TransmissionNext
  BY <1>7, GuardUntouched
  DEF TransmissionNext, Receive, Transmit, TransmissionFrame, loopVars
<1>8. CASE UNCHANGED vars
  BY <1>8, GuardUntouched DEF vars, controlVars, loopVars
<1> QED
  BY <1>1, <1>2, <1>3, <1>4, <1>5, <1>6, <1>7, <1>8 DEF Next

LEMMA GuardInit == Init => GuardInv
BY DEF Init, GuardInv, PcTypeOK, GuardIsOwned, MeasureSteps

\* No way out of a measureLoop iteration leaves isLoopExecution set: for every
\* client, also an impatient one, and any number of overlapping loops.
THEOREM GuardAlwaysOwned == Spec => []GuardIsOwned
<1>1. GuardInv => GuardIsOwned
  BY DEF GuardInv
<1> QED  BY <1>1, GuardInit, GuardStep, PTL DEF Spec
=============================================================================
