---------------------------- MODULE RunModes_proofs ----------------------------
(***************************************************************************)
(* Proofs about RunControl for a patient client: one run at a time, and    *)
(* the tasks implement the scan session.                                   *)
(***************************************************************************)
EXTENDS RunControl_proofs

-----------------------------------------------------------------------------
(***************************************************************************)
(* One run at a time.  With a patient client at most one of measureLoop,   *)
(* tunnelLoop and adjustLoop is at work, and handle, flags and timer       *)
(* belong to that one.  NoOverlap, WaitingIsServed and IdleIsOff follow.   *)
(***************************************************************************)
Alive(t) == measurePc[t] # "none"
MeasureLives == \E t \in MeasureTask : Alive(t)
MeasureStarts == dispatcher[1] \in {"measureQueue", "measureCreate"}
TunnelStarts == dispatcher[1] \in {"tunnelSend", "tunnelResume"}
Stopping ==
    dispatcher[1] \in {"stopMeasure", "stopTunnel", "stopSend", "stopReport"}

MeasureBusy == MeasureLives \/ MeasureStarts
TunnelBusy ==
    tunnelPc \notin {"none", "receive"} \/ queueTunnelCmd # <<>> \/ TunnelStarts
AdjustBusy == \E t \in AdjustTask : adjustPc[t] # "none"

\* At most one mode is busy, with one task, the one the handle names.
OneMode ==
    /\ MeasureBusy => ~TunnelBusy /\ ~AdjustBusy /\ run.cmd = "measure"
    /\ TunnelBusy => ~AdjustBusy /\ run.cmd = "tunnel"
    /\ MeasureStarts => ~MeasureLives /\ active.measure
    /\ \A t \in MeasureTask : Alive(t) => handleMeasureLoop = t

\* tunnelLoop while the command is handed over: it may run ahead of
\* tunnelResume, but not past its end marker, nor with a tick.
HandedOver ==
    /\ Step("tunnelSend") =>
         queueTunnelCmd = <<>> /\ tunnelPc \in {"none", "receive"} /\ ~timerRunning
    /\ Step("tunnelResume") =>
         /\ ~timerRunning
         /\ \/ queueTunnelCmd # <<>>
            \/ tunnelPc \in {"while", "suspend", "suspended", "end"}
            \/ tunnelPc = "drain" /\ queueToPc # <<>>
    /\ queueTunnelCmd # <<>> => tunnelPc \in {"boot", "receive"}
    /\ Len(queueTunnelCmd) <= 1
    /\ tunnelPc = "boot" => queueTunnelCmd # <<>>
    /\ tunnelPc \in {"suspend", "suspended", "resumed"} => tunnelLeft > 0

\* What a STOP has done so far, and nothing undoes before the next run.
StopInv ==
    /\ Stopping => run.stopped
    /\ run.stopped =>
         /\ ~active.measure /\ ~MeasureStarts /\ ~TunnelStarts
         /\ queueTunnelCmd = <<>>
         /\ Step("stopMeasure") \/ ~active.tunnel

\* What measureLoop t, if it exists, knows of its flag and of the timer.
MeasureOwns(t) ==
    /\ measurePc[t] # "errorBlink"
    /\ measurePc[t] = "exit" => run.stopped
    /\ measurePc[t] \in {"drain", "finish"} => ~timerRunning
    /\ Alive(t) /\ ~run.stopped =>
         /\ active.measure
         /\ measurePc[t] \notin {"drain", "finish"} => timerRunning

TunnelOwns ==
    /\ TunnelBusy /\ ~TunnelStarts /\ ~run.stopped => timerRunning
    /\ tunnelPc \in {"suspend", "suspended", "resumed"} /\ ~run.stopped
         => active.tunnel
    /\ tunnelPc = "while" /\ tunnelLeft > 0 /\ ~run.stopped => active.tunnel

\* A flag is set, or the timer on, only for a mode that is busy.
OwnedInv ==
    /\ active.measure => MeasureBusy
    /\ active.tunnel => TunnelBusy
    /\ timerRunning => MeasureLives \/ TunnelBusy
    /\ \A t \in MeasureTask : MeasureOwns(t)
    /\ TunnelOwns

OneRunInv == OneMode /\ HandedOver /\ StopInv /\ OwnedInv

\* A step of the one measureLoop: what it has to keep of the invariant.
LEMMA MeasureKeepsRun ==
    ASSUME TypesInv, OneRunInv, NEW t \in MeasureTask, Alive(t),
           NEW s \in MeasureSteps \ {"errorBlink"}, GoTo(t, s), MeasureFrame,
           active'.tunnel = active.tunnel, active'.measure => active.measure,
           timerRunning' => timerRunning,
           s = "none" => ~active'.measure /\ ~timerRunning',
           s = "exit" => run.stopped,
           s \in {"drain", "finish"} => ~timerRunning',
           s # "none" /\ ~run.stopped =>
              active'.measure /\ (s \notin {"drain", "finish"} => timerRunning')
    PROVE  OneRunInv'
<1>1. /\ UNCHANGED <<queueTunnelCmd, tunnelPc, tunnelLeft, handleMeasureLoop>>
      /\ UNCHANGED <<adjustPc, dispatcher, run>>
  BY DEF MeasureFrame, tunnelVars
<1>2. /\ MeasureLives /\ ~TunnelBusy /\ ~AdjustBusy /\ ~MeasureStarts
      /\ run.cmd = "measure" /\ handleMeasureLoop = t
      /\ \A u \in MeasureTask : Alive(u) => u = t
  BY DEF OneRunInv, OneMode, MeasureBusy, MeasureLives
<1>3. /\ measurePc'[t] = s
      /\ \A u \in MeasureTask : u # t => measurePc'[u] = "none"
  BY <1>2 DEF TypesInv, TypeOK, GlobalsTypeOK, GoTo, Alive
<1>4. MeasureLives' <=> s # "none"
  BY <1>3 DEF MeasureLives, Alive
<1>5. (TunnelBusy' <=> TunnelBusy) /\ (AdjustBusy' <=> AdjustBusy) /\ ~MeasureStarts' /\ ~TunnelStarts'
  BY <1>1, <1>2 DEF TunnelBusy, AdjustBusy, MeasureStarts, TunnelStarts
<1>6. OneMode'
  BY <1>1, <1>2, <1>3, <1>5 DEF OneMode, MeasureBusy, Alive
<1>7. HandedOver'
  <2>1. ~Step("tunnelSend")' /\ ~Step("tunnelResume")'
    BY <1>5 DEF TunnelStarts, Step
  <2> QED  BY <1>1, <2>1 DEF OneRunInv, HandedOver
<1>8. StopInv'
  BY <1>1, <1>5 DEF OneRunInv, StopInv, Stopping, Step
<1>9. OwnedInv'
  <2>1. (\A u \in MeasureTask : MeasureOwns(u))'
    BY <1>1, <1>3 DEF MeasureOwns, Alive
  <2>2. TunnelOwns'
    BY <1>1, <1>2, <1>5 DEF TunnelOwns, TunnelBusy
  <2>3. ~active'.tunnel
    BY <1>2 DEF OneRunInv, OwnedInv
  <2> QED  BY <1>4, <2>1, <2>2, <2>3 DEF OwnedInv, MeasureBusy
<1> QED  BY <1>6, <1>7, <1>8, <1>9 DEF OneRunInv

LEMMA MeasureRunsAlone ==
    ASSUME TypesInv, GuardInv, OneRunInv, NEW t \in MeasureTask, MeasureNext(t)
    PROVE  OneRunInv'
<1> USE DEF At, MeasureSteps, InIteration, Alive, timer_deinitialize
<1>0. /\ MeasureOwns(t)
      /\ active \in [{"measure", "tunnel", "adjust"} -> BOOLEAN]
      /\ run.stopped => ~active.measure
  BY DEF OneRunInv, OwnedInv, StopInv, TypesInv, TypeOK, GlobalsTypeOK
<1> USE DEF MeasureOwns
<1>1. CASE MeasureInit(t)
  BY <1>0, <1>1, MeasureKeepsRun DEF MeasureInit
<1>2. CASE MeasureWhile(t)
  BY <1>0, <1>2, MeasureKeepsRun DEF MeasureWhile
<1>3. CASE MeasureSuspend(t)
  BY <1>0, <1>3, MeasureKeepsRun DEF MeasureSuspend
<1>4. CASE MeasureResumed(t)
  \* The flag is clear: its owner would be in an iteration, hence another task.
  <2>1. ~isLoopExecution
    <3> SUFFICES ASSUME isLoopExecution PROVE FALSE
      OBVIOUS
    <3>1. PICK u \in MeasureTask : measurePc[u] \in InIteration
      BY DEF GuardInv, GuardIsOwned
    <3>2. handleMeasureLoop = t /\ handleMeasureLoop = u
      BY <1>4, <3>1 DEF MeasureResumed, OneRunInv, OneMode
    <3> QED  BY <1>4, <3>1, <3>2 DEF MeasureResumed
  <2> QED  BY <1>0, <1>4, <2>1, MeasureKeepsRun DEF MeasureResumed
<1>5. CASE InTolerance(t)
  BY <1>0, <1>5, MeasureKeepsRun DEF InTolerance
<1>6. CASE OffTolerance(t)
  BY <1>0, <1>6, MeasureKeepsRun DEF OffTolerance
<1>7. CASE SendReport(t)
  BY <1>0, <1>7, MeasureKeepsRun DEF SendReport
<1>8. CASE SendPoint(t)
  BY <1>0, <1>8, MeasureKeepsRun DEF SendPoint
<1>9. CASE SendEnd(t)
  BY <1>0, <1>9, MeasureKeepsRun DEF SendEnd
<1>10. CASE MeasureDeinit(t)
  BY <1>0, <1>10, MeasureKeepsRun DEF MeasureDeinit
<1>11. CASE MeasureDrained(t)
  BY <1>0, <1>11, MeasureKeepsRun DEF MeasureDrained
<1>12. CASE MeasureFinish(t)
  BY <1>0, <1>12, MeasureKeepsRun DEF MeasureFinish
<1>13. CASE MeasureExit(t)
  BY <1>0, <1>13, MeasureKeepsRun DEF MeasureExit
<1> QED
  BY <1>1, <1>2, <1>3, <1>4, <1>5, <1>6, <1>7, <1>8, <1>9, <1>10, <1>11,
     <1>12, <1>13 DEF MeasureNext

\* A step of tunnelLoop: what it has to keep of the invariant.
LEMMA TunnelKeepsRun ==
    ASSUME TypesInv, OneRunInv, TunnelBusy, TunnelFrame, HandedOver', TunnelOwns',
           active'.measure = active.measure,
           active'.tunnel => TunnelBusy' /\ (active.tunnel \/ ~run.stopped),
           timerRunning' => timerRunning /\ TunnelBusy',
           queueTunnelCmd' # <<>> => queueTunnelCmd # <<>>
    PROVE  OneRunInv'
<1>1. UNCHANGED <<measurePc, handleMeasureLoop, adjustPc, dispatcher, run>>
  BY DEF TunnelFrame
<1>2. /\ ~MeasureBusy /\ ~AdjustBusy /\ run.cmd = "tunnel"
      /\ \A t \in MeasureTask : measurePc[t] = "none"
  BY DEF OneRunInv, OneMode, MeasureBusy, MeasureLives, Alive
<1>3. ~MeasureBusy' /\ ~AdjustBusy' /\ ~MeasureStarts'
  BY <1>1, <1>2 DEF MeasureBusy, AdjustBusy, MeasureLives, MeasureStarts, Alive
<1>4. OneMode'
  BY <1>1, <1>2, <1>3 DEF OneMode, Alive
<1>5. StopInv'
  BY <1>1, <1>3 DEF OneRunInv, StopInv, Stopping, TunnelStarts, Step
<1>6. (\A t \in MeasureTask : MeasureOwns(t))'
  BY <1>1, <1>2 DEF MeasureOwns, Alive
<1>7. OwnedInv'
  BY <1>2, <1>6 DEF OneRunInv, OwnedInv
<1> QED  BY <1>4, <1>5, <1>7 DEF OneRunInv

LEMMA TunnelRunsAlone ==
    ASSUME TypesInv, OneRunInv, TunnelNext
    PROVE  OneRunInv'
<1>0. /\ HandedOver /\ TunnelOwns
      /\ active \in [{"measure", "tunnel", "adjust"} -> BOOLEAN]
      /\ queueTunnelCmd \in Seq(LoopCounts) /\ tunnelLeft \in Int
      /\ queueToPc \in Seq(Elements)
      /\ run.stopped => queueTunnelCmd = <<>>
  BY DEF OneRunInv, OwnedInv, StopInv, TypesInv, TypeOK, GlobalsTypeOK
<1>1. TunnelFrame => UNCHANGED <<dispatcher, run>>
  BY DEF TunnelFrame
<1> USE DEF HandedOver, TunnelOwns, TunnelBusy, TunnelStarts, Step
<1>2. CASE TunnelBoot
  BY <1>0, <1>1, <1>2, TunnelKeepsRun DEF TunnelBoot
<1>3. CASE TunnelReceive
  <2>1. queueTunnelCmd' = <<>> /\ Len(<<>>) = 0
    BY <1>0, <1>3 DEF TunnelReceive
  <2>2. active'.tunnel /\ active'.measure = active.measure /\ ~run.stopped
    BY <1>0, <1>3 DEF TunnelReceive
  <2> QED  BY <1>0, <1>1, <1>3, <2>1, <2>2, TunnelKeepsRun DEF TunnelReceive
<1>4. CASE TunnelWhile
  BY <1>0, <1>1, <1>4, TunnelKeepsRun DEF TunnelWhile
<1>5. CASE TunnelSuspend
  BY <1>0, <1>1, <1>5, TunnelKeepsRun DEF TunnelSuspend
<1>6. CASE SendTunnelSample
  <2>1. /\ active'.measure = active.measure
        /\ active'.tunnel <=> active.tunnel /\ tunnelLeft' > 0
    BY <1>0, <1>6 DEF SendTunnelSample
  <2> QED  BY <1>0, <1>1, <1>6, <2>1, TunnelKeepsRun DEF SendTunnelSample
<1>7. CASE SendTunnelEnd
  <2>1. queueToPc' # <<>>
    BY <1>0, <1>7, ElementsAreTyped DEF SendTunnelEnd, Enqueue
  <2> QED  BY <1>0, <1>1, <1>7, <2>1, TunnelKeepsRun DEF SendTunnelEnd
<1>8. CASE TunnelDrained
  BY <1>0, <1>1, <1>8, TunnelKeepsRun DEF TunnelDrained
<1>9. CASE TunnelFinish
  <2>1. ~active'.tunnel /\ active'.measure = active.measure /\ ~timerRunning'
    BY <1>0, <1>9 DEF TunnelFinish, timer_deinitialize
  <2> QED  BY <1>0, <1>1, <1>9, <2>1, TunnelKeepsRun DEF TunnelFinish
<1> QED
  BY <1>2, <1>3, <1>4, <1>5, <1>6, <1>7, <1>8, <1>9 DEF TunnelNext

LEMMA AdjustRunsAlone ==
    ASSUME TypesInv, OneRunInv, NEW t \in AdjustTask, AdjustNext(t)
    PROVE  OneRunInv'
<1>1. adjustPc[t] # "none" /\ AdjustFrame /\ (timerRunning' => timerRunning)
  BY DEF AdjustNext, AdjustWhile, AdjustBody, AdjustDelay, AdjustExit, timer_deinitialize
<1>2. /\ UNCHANGED <<active, queueTunnelCmd, handleMeasureLoop, measurePc>>
      /\ UNCHANGED <<tunnelPc, tunnelLeft, dispatcher, run, queueToPc>>
  BY <1>1 DEF AdjustFrame, tunnelVars
<1>3. AdjustBusy /\ ~MeasureBusy /\ ~TunnelBusy /\ ~timerRunning
  BY <1>1 DEF AdjustBusy, OneRunInv, OneMode, OwnedInv, MeasureBusy
<1>4. ~MeasureBusy' /\ ~TunnelBusy' /\ ~timerRunning'
  BY <1>1, <1>2, <1>3
  DEF MeasureBusy, MeasureLives, MeasureStarts, Alive, TunnelBusy, TunnelStarts
<1>5. OneMode' /\ StopInv'
  BY <1>2, <1>4
  DEF OneRunInv, OneMode, StopInv, MeasureBusy, MeasureStarts, TunnelStarts,
      Stopping, Step, Alive
<1>6. HandedOver'
  BY <1>2, <1>4 DEF OneRunInv, HandedOver, Step
<1>7. OwnedInv'
  <2>1. (\A u \in MeasureTask : MeasureOwns(u))'
    BY <1>2, <1>4 DEF MeasureOwns, MeasureBusy, MeasureLives, Alive
  <2>2. TunnelOwns'
    BY <1>2, <1>3, <1>4 DEF OneRunInv, OwnedInv, TunnelOwns, TunnelBusy
  <2>3. ~active'.measure /\ ~active'.tunnel
    BY <1>2, <1>3 DEF OneRunInv, OwnedInv
  <2> QED  BY <1>4, <2>1, <2>2, <2>3 DEF OwnedInv
<1> QED  BY <1>5, <1>6, <1>7 DEF OneRunInv

LEMMA TransmissionRunsAlone ==
    ASSUME TypesInv, OneRunInv, TransmissionNext
    PROVE  OneRunInv'
<1>1. /\ UNCHANGED <<active, queueTunnelCmd, handleMeasureLoop, measurePc>>
      /\ UNCHANGED <<tunnelPc, tunnelLeft, dispatcher, adjustPc, timerRunning>>
      /\ DispatcherBlocked
  BY DEF TransmissionNext, Receive, Transmit, TransmissionFrame, tunnelVars
<1>2. run'.cmd = run.cmd /\ run'.stopped = run.stopped
  <2>1. run \in RunType
    BY DEF TypesInv
  <2>2. CASE Receive
    BY <2>2 DEF Receive
  <2>3. CASE Transmit
    BY <2>1, <2>3 DEF Transmit, RunType
  <2> QED  BY <2>2, <2>3 DEF TransmissionNext
<1>3. dispatcher[1] # "tunnelResume"
  BY <1>1 DEF DispatcherBlocked
<1>4. OneMode' /\ StopInv' /\ HandedOver'
  BY <1>1, <1>2, <1>3
  DEF OneRunInv, OneMode, StopInv, HandedOver, MeasureBusy, MeasureLives,
      MeasureStarts, TunnelBusy, TunnelStarts, AdjustBusy, Stopping, Step, Alive
<1>5. OwnedInv'
  BY <1>1, <1>2
  DEF OneRunInv, OwnedInv, MeasureOwns, TunnelOwns, MeasureBusy, MeasureLives,
      MeasureStarts, TunnelBusy, TunnelStarts, Alive
<1> QED  BY <1>4, <1>5 DEF OneRunInv

\* The timer interrupt wakes the loop that is at work.
LEMMA TickRunsAlone ==
    ASSUME TypesInv, OneRunInv, Tick
    PROVE  OneRunInv'
<1>1. /\ UNCHANGED <<active, queueTunnelCmd, handleMeasureLoop, queueToPc>>
      /\ UNCHANGED <<tunnelLeft, dispatcher, adjustPc, timerRunning, run>>
      /\ timerRunning
  BY DEF Tick
<1>2. /\ ~Step("tunnelResume") /\ ~Step("tunnelSend")
      /\ run.stopped => ~active.measure
  BY <1>1 DEF OneRunInv, HandedOver, StopInv
<1>3. CASE tunnelPc = "suspended" /\ tunnelPc' = "resumed" /\ UNCHANGED measurePc
  BY <1>1, <1>2, <1>3
  DEF OneRunInv, OneMode, StopInv, HandedOver, OwnedInv, MeasureOwns, TunnelOwns,
      MeasureBusy, MeasureLives, MeasureStarts, TunnelBusy, TunnelStarts,
      AdjustBusy, Stopping, Step, Alive
<1>4. ASSUME NEW t \in MeasureTask, measurePc[t] = "suspended",
             measurePc' = [measurePc EXCEPT ![t] = "resumed"], UNCHANGED tunnelPc
      PROVE  OneRunInv'
  <2>1. \A u \in MeasureTask :
          /\ Alive(u)' <=> Alive(u)
          /\ measurePc'[u] = measurePc[u] \/ (measurePc'[u] = "resumed" /\ u = t)
    BY <1>4 DEF Alive, TypesInv, TypeOK, GlobalsTypeOK
  <2>2. MeasureLives' <=> MeasureLives
    BY <2>1 DEF MeasureLives
  <2>3. OneMode' /\ StopInv' /\ HandedOver'
    BY <1>1, <1>4, <2>1, <2>2
    DEF OneRunInv, OneMode, StopInv, HandedOver, MeasureBusy, MeasureStarts,
        TunnelBusy, TunnelStarts, AdjustBusy, Stopping, Step
  <2>4. (\A u \in MeasureTask : MeasureOwns(u))'
    <3> SUFFICES ASSUME NEW u \in MeasureTask PROVE MeasureOwns(u)'
      OBVIOUS
    <3>1. MeasureOwns(u) /\ MeasureOwns(t)
      BY <1>4 DEF OneRunInv, OwnedInv
    <3> QED  BY <1>1, <1>4, <2>1, <3>1 DEF MeasureOwns, Alive
  <2>5. OwnedInv'
    BY <1>1, <1>4, <2>2, <2>4
    DEF OneRunInv, OwnedInv, MeasureBusy, MeasureStarts, TunnelOwns, TunnelBusy,
        TunnelStarts
  <2> QED  BY <2>3, <2>5 DEF OneRunInv
<1>5. handleMeasureLoop \in MeasureTask \cup {NoTask}
  BY DEF TypesInv, TypeOK, GlobalsTypeOK
<1> QED  BY <1>3, <1>4, <1>5 DEF Tick, ResumeMeasure, ResumeTunnel

\* A start command of the patient client finds every task idle.
LEMMA NothingBusy ==
    ASSUME OneRunInv, Quiescent
    PROVE  /\ ~MeasureBusy /\ ~TunnelBusy /\ ~AdjustBusy
           /\ ~active.measure /\ ~active.tunnel /\ ~timerRunning
           /\ \A t \in MeasureTask : measurePc[t] = "none"
<1>1. dispatcher[1] = "idle"
  BY DEF Quiescent, Idle
<1> QED
  BY <1>1
  DEF Quiescent, OneRunInv, OwnedInv, MeasureBusy, MeasureLives, MeasureStarts,
      TunnelBusy, TunnelStarts, AdjustBusy, Alive

\* A step that changes nothing the invariant speaks of.
LEMMA RunUntouched ==
    ASSUME OneRunInv,
           UNCHANGED <<active, queueTunnelCmd, queueToPc, timerRunning>>,
           UNCHANGED <<handleMeasureLoop, measurePc, tunnelPc, tunnelLeft>>,
           UNCHANGED <<adjustPc, dispatcher, run>>
    PROVE  OneRunInv'
BY DEF OneRunInv, OneMode, HandedOver, StopInv, OwnedInv, MeasureOwns,
       TunnelOwns, MeasureBusy, MeasureLives, MeasureStarts, TunnelBusy,
       TunnelStarts, AdjustBusy, Stopping, Step, Alive

\* MEASURE, TUNNEL and PARAMETER: the command itself creates no task.
LEMMA StartKeepsRun ==
    ASSUME OneRunInv, Quiescent,
           UNCHANGED <<queueTunnelCmd, timerRunning, handleMeasureLoop>>,
           UNCHANGED <<measurePc, tunnelPc, tunnelLeft>>,
           active'.measure <=> MeasureStarts', active'.tunnel => TunnelStarts',
           dispatcher'[1] \in {"idle", "measureQueue", "tunnelSend"},
           run'.stopped => UNCHANGED <<dispatcher, active, run>>,
           MeasureStarts' => run'.cmd = "measure" /\ ~AdjustBusy',
           TunnelStarts' => run'.cmd = "tunnel" /\ ~AdjustBusy'
    PROVE  OneRunInv'
<1>1. /\ ~MeasureBusy /\ ~TunnelBusy /\ ~timerRunning
      /\ \A t \in MeasureTask : measurePc[t] = "none"
  BY NothingBusy
<1>2. ~MeasureLives' /\ (TunnelBusy' <=> TunnelStarts') /\ ~timerRunning'
      /\ queueTunnelCmd' = <<>> /\ tunnelPc' \in {"none", "receive"}
  BY <1>1 DEF MeasureLives, Alive, TunnelBusy, Quiescent
<1>3. OneMode' /\ HandedOver'
  BY <1>1, <1>2
  DEF OneMode, HandedOver, OneRunInv, MeasureBusy, MeasureStarts, TunnelStarts, Step,
      Alive
<1>4. StopInv'
  BY <1>1, <1>2
  DEF OneRunInv, StopInv, Stopping, Step, MeasureStarts, TunnelStarts, OwnedInv,
      MeasureBusy, TunnelBusy
<1>5. OwnedInv'
  BY <1>1, <1>2 DEF OwnedInv, MeasureBusy, MeasureOwns, TunnelOwns, Alive
<1> QED  BY <1>3, <1>4, <1>5 DEF OneRunInv

\* The steps of STOP: they clear flags, wake suspended loops and stop the
\* timer.
LEMMA StopKeepsRun ==
    ASSUME TypesInv, OneRunInv,
           Idle \/ Stopping, Idle' \/ Stopping',
           UNCHANGED <<queueTunnelCmd, handleMeasureLoop, adjustPc, tunnelLeft>>,
           queueTunnelCmd = <<>>,
           ~active'.measure, active'.tunnel => active.tunnel,
           active'.tunnel => Step("stopMeasure")',
           timerRunning' => timerRunning,
           UNCHANGED measurePc \/ ResumeMeasure(handleMeasureLoop),
           UNCHANGED tunnelPc \/ ResumeTunnel,
           run'.cmd = run.cmd, run'.stopped
    PROVE  OneRunInv'
<1>1. /\ ~MeasureStarts /\ ~TunnelStarts /\ ~MeasureStarts' /\ ~TunnelStarts'
      /\ ~Step("tunnelResume")' /\ ~Step("tunnelSend")'
  BY DEF Idle, Stopping, MeasureStarts, TunnelStarts, Step
<1>2. \A t \in MeasureTask :
        measurePc'[t] = measurePc[t]
        \/ (measurePc[t] = "suspended" /\ measurePc'[t] = "resumed")
  BY DEF ResumeMeasure, TypesInv, TypeOK, GlobalsTypeOK
<1>3. tunnelPc' = tunnelPc \/ (tunnelPc = "suspended" /\ tunnelPc' = "resumed")
  BY DEF ResumeTunnel
<1>4. (MeasureBusy' <=> MeasureBusy) /\ (TunnelBusy' <=> TunnelBusy)
      /\ (AdjustBusy' <=> AdjustBusy)
  BY <1>1, <1>2, <1>3 DEF MeasureBusy, MeasureLives, TunnelBusy, AdjustBusy, Alive
<1>5. OneMode'
  BY <1>1, <1>2, <1>4 DEF OneRunInv, OneMode, Alive
<1>6. HandedOver' /\ StopInv'
  BY <1>1, <1>3 DEF OneRunInv, HandedOver, StopInv
<1>7. (\A t \in MeasureTask : MeasureOwns(t))'
  BY <1>2 DEF OneRunInv, OwnedInv, MeasureOwns
<1>8. OwnedInv'
  <2>1. TunnelOwns'
    BY DEF TunnelOwns
  <2> QED  BY <1>1, <1>4, <1>7, <2>1 DEF OneRunInv, OwnedInv, MeasureBusy
<1> QED  BY <1>5, <1>6, <1>8 DEF OneRunInv

LEMMA CommandsRunAlone ==
    ASSUME Patient, TypesInv, OneRunInv, ClientNext
    PROVE  OneRunInv'
<1>0. /\ active \in [{"measure", "tunnel", "adjust"} -> BOOLEAN]
      /\ run \in RunType
  BY DEF TypesInv, TypeOK, GlobalsTypeOK
<1>00. MayStart => Quiescent
  BY DEF MayStart
<1>01. Quiescent => ~AdjustBusy /\ ~active.measure /\ ~active.tunnel
                    /\ ~MeasureStarts /\ ~TunnelStarts /\ dispatcher[1] = "idle"
  BY NothingBusy DEF MeasureBusy, TunnelBusy, Quiescent, Idle
<1> USE DEF tunnelVars, DispatcherFrame
<1>1. CASE MayStart /\ MeasureCommand
  <2>1. /\ active'.measure /\ active'.tunnel = active.tunnel
        /\ run'.cmd = "measure" /\ ~run'.stopped /\ dispatcher'[1] = "measureQueue"
    BY <1>0, <1>1 DEF MeasureCommand, RunOf, NoRun, GoOn
  <2>2. AdjustBusy' <=> AdjustBusy
    BY <1>1 DEF MeasureCommand, AdjustBusy
  <2>3. MeasureStarts' /\ ~TunnelStarts'
    BY <2>1 DEF MeasureStarts, TunnelStarts
  <2> QED  BY <1>00, <1>01, <1>1, <2>1, <2>2, <2>3, StartKeepsRun DEF MeasureCommand
<1>2. ASSUME MayStart, NEW n \in LoopCounts, TunnelCommand(n) PROVE OneRunInv'
  <2>1. /\ active'.measure = active.measure
        /\ run'.cmd = "tunnel" /\ ~run'.stopped /\ dispatcher'[1] = "tunnelSend"
    BY <1>0, <1>2 DEF TunnelCommand, RunOf, NoRun
  <2>2. AdjustBusy' <=> AdjustBusy
    BY <1>2 DEF TunnelCommand, AdjustBusy
  <2>3. TunnelStarts' /\ ~MeasureStarts'
    BY <2>1 DEF MeasureStarts, TunnelStarts
  <2> QED  BY <1>00, <1>01, <1>2, <2>1, <2>2, <2>3, StartKeepsRun DEF TunnelCommand
<1>3. CASE MayStart /\ AdjustCommand
  \* Nothing but adjustLoop starts; a stopped run stays stopped.
  <2>1. /\ active'.measure = active.measure /\ active'.tunnel = active.tunnel
        /\ dispatcher' = dispatcher /\ run' = run
        /\ UNCHANGED <<queueTunnelCmd, timerRunning, handleMeasureLoop>>
        /\ UNCHANGED <<measurePc, tunnelPc, tunnelLeft, queueToPc>>
    BY <1>0, <1>3 DEF AdjustCommand
  <2>2. ~MeasureBusy /\ ~TunnelBusy /\ ~timerRunning
    BY <1>00, <1>3, NothingBusy
  <2>3. ~MeasureBusy' /\ ~TunnelBusy' /\ ~MeasureStarts' /\ ~TunnelStarts'
    BY <2>1, <2>2
    DEF MeasureBusy, MeasureLives, MeasureStarts, Alive, TunnelBusy, TunnelStarts
  <2>4. OneMode' /\ HandedOver' /\ StopInv'
    BY <2>1, <2>3
    DEF OneRunInv, OneMode, HandedOver, StopInv, MeasureBusy, MeasureLives,
        MeasureStarts, TunnelStarts, Stopping, Step, Alive
  <2>5. OwnedInv'
    BY <2>1, <2>2, <2>3
    DEF OneRunInv, OwnedInv, MeasureOwns, TunnelOwns, MeasureBusy, MeasureLives,
        MeasureStarts, Alive
  <2> QED  BY <2>4, <2>5 DEF OneRunInv
<1>4. ASSUME NEW d \in TipDacs, TipCommand(d) PROVE OneRunInv'
  BY <1>4, RunUntouched DEF TipCommand
<1>5. ASSUME MayStart, NEW p \in ParameterSets, ParameterCommand(p) PROVE OneRunInv'
  <2>1. /\ UNCHANGED <<active, dispatcher, adjustPc>> /\ ~run'.stopped
        /\ ~MeasureStarts' /\ ~TunnelStarts'
    BY <1>00, <1>01, <1>5
    DEF ParameterCommand, NoRun, MeasureStarts, TunnelStarts
  <2> QED  BY <1>00, <1>01, <1>5, <2>1, StartKeepsRun DEF ParameterCommand
<1>6. CASE MayStop /\ StopCommand
  <2>1. /\ ~active'.measure /\ active'.tunnel = active.tunnel
        /\ run'.cmd = run.cmd /\ run'.stopped
    BY <1>0, <1>6 DEF StopCommand, RunType
  <2>2. Step("stopMeasure")' /\ Stopping' /\ queueTunnelCmd = <<>> /\ Idle
    BY <1>6 DEF StopCommand, GoOn, Step, Stopping, MayStop
  <2> QED  BY <1>6, <2>1, <2>2, StopKeepsRun DEF StopCommand
<1> QED  BY <1>1, <1>2, <1>3, <1>4, <1>5, <1>6 DEF ClientNext

LEMMA StopStepsRunAlone ==
    ASSUME TypesInv, OneRunInv, StopMeasure \/ StopTunnel \/ StopSend \/ StopReport
    PROVE  OneRunInv'
<1>0. /\ active \in [{"measure", "tunnel", "adjust"} -> BOOLEAN]
      /\ run \in RunType
  BY DEF TypesInv, TypeOK, GlobalsTypeOK
<1>1. Stopping
  BY DEF StopMeasure, StopTunnel, StopSend, StopReport, Step, Stopping
<1>2. /\ run.stopped /\ ~active.measure /\ queueTunnelCmd = <<>>
      /\ ~Step("stopMeasure") => ~active.tunnel
  BY <1>1 DEF OneRunInv, StopInv
<1> USE DEF tunnelVars, DispatcherFrame
<1>3. CASE StopMeasure
  <2>1. ~active'.measure /\ ~active'.tunnel
    BY <1>0, <1>2, <1>3 DEF StopMeasure
  <2>2. Stopping'
    BY <1>3 DEF StopMeasure, GoOn, Stopping
  <2> QED  BY <1>1, <1>2, <1>3, <2>1, <2>2, StopKeepsRun DEF StopMeasure
<1>4. CASE StopTunnel
  <2>1. Stopping' /\ ~active.tunnel
    BY <1>2, <1>4 DEF StopTunnel, GoOn, Stopping, Step
  <2> QED  BY <1>1, <1>2, <1>4, <2>1, StopKeepsRun DEF StopTunnel
<1>5. CASE StopSend
  <2>1. Stopping' /\ ~active.tunnel
    BY <1>2, <1>5 DEF StopSend, GoOn, Stopping, Step
  <2> QED  BY <1>1, <1>2, <1>5, <2>1, StopKeepsRun DEF StopSend
<1>6. CASE StopReport
  <2>1. Idle' /\ ~active.tunnel
    BY <1>2, <1>6 DEF StopReport, Return, Idle, Step
  <2>2. run'.cmd = run.cmd /\ run'.stopped
    BY <1>0, <1>2, <1>6 DEF StopReport, RunType
  <2>3. ~timerRunning'
    BY <1>6 DEF StopReport, timer_deinitialize
  <2> QED  BY <1>1, <1>2, <1>6, <2>1, <2>2, <2>3, StopKeepsRun DEF StopReport
<1> QED  BY <1>3, <1>4, <1>5, <1>6

\* The steps of MEASURE and TUNNEL after the command.
LEMMA StartStepsRunAlone ==
    ASSUME TypesInv, OneRunInv,
           MeasureQueue \/ MeasureCreate \/ TunnelSend \/ TunnelResume
    PROVE  OneRunInv'
<1>0. /\ OneMode /\ HandedOver /\ StopInv /\ OwnedInv
      /\ measurePc \in [MeasureTask -> MeasureSteps]
  BY DEF OneRunInv, TypesInv, TypeOK, GlobalsTypeOK
<1> USE DEF tunnelVars, DispatcherFrame
<1>1. CASE MeasureQueue
  <2>1. /\ dispatcher[1] = "measureQueue" /\ dispatcher'[1] = "measureCreate"
        /\ UNCHANGED <<active, queueTunnelCmd, timerRunning, handleMeasureLoop>>
        /\ UNCHANGED <<measurePc, tunnelPc, tunnelLeft, adjustPc, run>>
    BY <1>1 DEF MeasureQueue, GoOn, Step
  <2>2. OneMode' /\ HandedOver' /\ StopInv'
    BY <1>0, <2>1
    DEF OneMode, HandedOver, StopInv, MeasureBusy, MeasureLives, MeasureStarts,
        TunnelBusy, TunnelStarts, AdjustBusy, Stopping, Step, Alive
  <2>3. OwnedInv'
    BY <1>0, <2>1
    DEF OwnedInv, MeasureOwns, TunnelOwns, MeasureBusy, MeasureLives,
        MeasureStarts, TunnelBusy, TunnelStarts, Alive
  <2> QED  BY <2>2, <2>3 DEF OneRunInv
<1>2. CASE MeasureCreate
  <2>1. PICK t \in MeasureTask :
          /\ measurePc' = [measurePc EXCEPT ![t] = "init"]
          /\ handleMeasureLoop' = t
    BY <1>2 DEF MeasureCreate
  <2>2. /\ dispatcher[1] = "measureCreate" /\ dispatcher'[1] = "idle"
        /\ UNCHANGED <<active, queueTunnelCmd, tunnelPc, tunnelLeft>>
        /\ UNCHANGED <<adjustPc, run>> /\ timerRunning'
    BY <1>2 DEF MeasureCreate, Return, Step, timer_initialize
  <2>3. /\ MeasureBusy /\ ~MeasureLives /\ active.measure
        /\ ~TunnelBusy /\ ~AdjustBusy /\ run.cmd = "measure" /\ ~run.stopped
    BY <1>0, <2>2 DEF OneMode, StopInv, MeasureBusy, MeasureStarts
  <2>4. \A u \in MeasureTask : measurePc'[u] = IF u = t THEN "init" ELSE "none"
    BY <1>0, <2>1, <2>3 DEF MeasureLives, Alive
  <2>5. MeasureLives' /\ ~MeasureStarts' /\ ~TunnelBusy' /\ ~AdjustBusy'
    BY <2>2, <2>3, <2>4
    DEF MeasureLives, MeasureStarts, Alive, TunnelBusy, TunnelStarts, AdjustBusy
  <2>6. OneMode' /\ HandedOver' /\ StopInv'
    BY <1>0, <2>1, <2>2, <2>3, <2>4, <2>5
    DEF OneMode, HandedOver, StopInv, Alive, Stopping, Step, MeasureBusy
  <2>7. OwnedInv'
    BY <1>0, <2>2, <2>3, <2>4, <2>5
    DEF OwnedInv, MeasureOwns, TunnelOwns, MeasureBusy, TunnelBusy, Alive
  <2> QED  BY <2>6, <2>7 DEF OneRunInv
<1>3. CASE TunnelSend
  <2>1. queueTunnelCmd = <<>> /\ tunnelPc \in {"none", "receive"} /\ ~timerRunning
    BY <1>0, <1>3 DEF TunnelSend, HandedOver
  <2>2. Len(queueTunnelCmd) # CommandLength
    BY <2>1, CapacityAssumption
  <2>3. /\ dispatcher[1] = "tunnelSend" /\ dispatcher'[1] = "tunnelResume"
        /\ queueTunnelCmd' # <<>> /\ Len(queueTunnelCmd') = 1
        /\ tunnelPc' \in {"boot", "receive"} /\ ~timerRunning'
        /\ UNCHANGED <<active, handleMeasureLoop, tunnelLeft>>
        /\ UNCHANGED <<measurePc, adjustPc, run>>
    BY <1>3, <2>1, <2>2 DEF TunnelSend, GoOn, Step
  <2>4. /\ TunnelBusy /\ ~MeasureBusy /\ ~AdjustBusy /\ ~run.stopped
        /\ run.cmd = "tunnel"
    BY <1>0, <2>3 DEF TunnelBusy, TunnelStarts, OneMode, StopInv
  <2>5. TunnelBusy' /\ TunnelStarts' /\ ~MeasureBusy' /\ ~AdjustBusy'
    BY <2>3, <2>4
    DEF TunnelBusy, TunnelStarts, MeasureBusy, MeasureLives, MeasureStarts,
        Alive, AdjustBusy
  <2>6. OneMode' /\ HandedOver' /\ StopInv'
    BY <1>0, <2>3, <2>4, <2>5
    DEF OneMode, HandedOver, StopInv, Alive, Stopping, Step, MeasureBusy
  <2>7. OwnedInv'
    BY <1>0, <2>3, <2>4, <2>5
    DEF OwnedInv, MeasureOwns, TunnelOwns, MeasureBusy, MeasureLives, Alive
  <2> QED  BY <2>6, <2>7 DEF OneRunInv
<1>4. CASE TunnelResume
  <2>1. /\ dispatcher[1] = "tunnelResume" /\ dispatcher'[1] = "idle" /\ timerRunning'
        /\ UNCHANGED <<active, handleMeasureLoop, tunnelLeft, queueToPc>>
        /\ UNCHANGED <<measurePc, adjustPc, run, queueTunnelCmd>>
        /\ \/ tunnelPc' = tunnelPc /\ tunnelPc # "suspended"
           \/ tunnelPc = "suspended" /\ tunnelPc' = "resumed"
    BY <1>4 DEF TunnelResume, Return, Step, timer_initialize, ResumeTunnel
  <2>2. /\ TunnelBusy /\ ~MeasureBusy /\ ~AdjustBusy /\ ~run.stopped
        /\ run.cmd = "tunnel"
    BY <1>0, <2>1 DEF TunnelBusy, TunnelStarts, OneMode, StopInv
  <2>3. TunnelBusy' /\ ~TunnelStarts' /\ ~MeasureBusy' /\ ~AdjustBusy'
    BY <1>0, <2>1, <2>2
    DEF HandedOver, TunnelBusy, TunnelStarts, MeasureBusy, MeasureLives,
        MeasureStarts, Alive, AdjustBusy, Step
  <2>4. OneMode' /\ HandedOver' /\ StopInv'
    BY <1>0, <2>1, <2>2, <2>3
    DEF OneMode, HandedOver, StopInv, Alive, Stopping, Step, MeasureBusy
  <2>5. OwnedInv'
    BY <1>0, <2>1, <2>2, <2>3
    DEF OwnedInv, MeasureOwns, TunnelOwns, MeasureBusy, MeasureLives, Alive
  <2> QED  BY <2>4, <2>5 DEF OneRunInv
<1> QED  BY <1>1, <1>2, <1>3, <1>4

LEMMA OneRunStep ==
    Patient /\ TypesInv /\ GuardInv /\ OneRunInv /\ [Next]_vars => OneRunInv'
<1> SUFFICES ASSUME Patient, TypesInv, GuardInv, OneRunInv, [Next]_vars
             PROVE  OneRunInv'
  OBVIOUS
<1>1. CASE BootVspi \/ BootParameters \/ UNCHANGED vars
  BY <1>1, RunUntouched DEF BootVspi, BootParameters, vars, controlVars, tunnelVars
<1>2. CASE DispatcherNext
  BY <1>2, StartStepsRunAlone, StopStepsRunAlone DEF DispatcherNext
<1> QED
  BY <1>1, <1>2, CommandsRunAlone, TickRunsAlone, MeasureRunsAlone,
     TunnelRunsAlone, AdjustRunsAlone, TransmissionRunsAlone DEF Next

LEMMA OneRunInit == Init => OneRunInv
<1> SUFFICES ASSUME Init PROVE OneRunInv
  OBVIOUS
<1>00. dispatcher[1] = "idle" /\ ~run.stopped
  BY DEF Init, NoRun
<1>01. queueTunnelCmd = <<>> /\ tunnelPc = "none" /\ ~TunnelBusy
  BY <1>00 DEF Init, TunnelBusy, TunnelStarts
<1>02. ~MeasureBusy /\ ~AdjustBusy
  BY <1>00 DEF Init, MeasureBusy, MeasureLives, MeasureStarts, AdjustBusy, Alive
<1>03. Len(queueTunnelCmd) <= 1
  BY <1>01
<1>0. /\ dispatcher[1] = "idle" /\ Len(queueTunnelCmd) <= 1
      /\ queueTunnelCmd = <<>> /\ tunnelPc = "none" /\ ~run.stopped
      /\ ~MeasureBusy /\ ~TunnelBusy /\ ~AdjustBusy
  BY <1>00, <1>01, <1>02, <1>03
<1>1. OneMode /\ HandedOver /\ StopInv
  BY <1>0
  DEF OneMode, HandedOver, StopInv, MeasureBusy, MeasureLives, Stopping, Step,
      MeasureStarts
<1>2. OwnedInv
  BY DEF Init, OwnedInv, MeasureOwns, TunnelOwns, MeasureBusy, MeasureLives,
         MeasureStarts, TunnelBusy, TunnelStarts, Alive
<1> QED  BY <1>1, <1>2 DEF OneRunInv

LEMMA OneRunAlways ==
    ASSUME Patient
    PROVE  Spec => [](TypesInv /\ OneRunInv)
<1>1. Init => TypesInv /\ GuardInv /\ OneRunInv
  BY TypesInit, GuardInit, OneRunInit
<1>2. TypesInv /\ GuardInv /\ OneRunInv /\ [Next]_vars
        => (TypesInv /\ GuardInv /\ OneRunInv)'
  BY TypesStep, GuardStep, OneRunStep
<1> QED  BY <1>1, <1>2, PTL DEF Spec

\* With a patient client no measureLoop finds isLoopExecution set, which
\* would end in errorBlink and never return: loops of different runs do not
\* overlap, and no way out of an iteration leaves the flag set.
THEOREM LoopsNeverOverlap ==
    ASSUME Patient
    PROVE  Spec => []NoOverlap
<1>1. OneRunInv => NoOverlap
  BY DEF OneRunInv, OwnedInv, MeasureOwns, NoOverlap
<1> QED  BY <1>1, OneRunAlways, PTL

\* With a patient client a loop that waits for the timer is served by it:
\* no step of its run, of dispatcher, timer interrupt or the loop itself and
\* in any order, leaves it waiting for a tick that cannot reach it.  A patient
\* client starts a run only when every loop of earlier runs has ended, so
\* that the theorem says nothing of one that ends late beside a new run.
THEOREM WaitingLoopIsServed ==
    ASSUME Patient
    PROVE  Spec => []WaitingIsServed
<1>1. TypesInv /\ OneRunInv => WaitingIsServed
  <2> SUFFICES ASSUME TypesInv, OneRunInv, Idle, ~run.stopped
               PROVE  /\ tunnelPc = "suspended" => timerRunning /\ active.tunnel
                      /\ \A t \in MeasureTask : measurePc[t] = "suspended" =>
                           /\ timerRunning /\ active.measure /\ ~active.tunnel
                           /\ handleMeasureLoop = t
    BY DEF WaitingIsServed
  <2>1. ~TunnelStarts
    BY DEF Idle, TunnelStarts
  <2>2. tunnelPc = "suspended" => timerRunning /\ active.tunnel
    BY <2>1 DEF OneRunInv, OwnedInv, TunnelOwns, TunnelBusy
  <2>3. ASSUME NEW t \in MeasureTask, measurePc[t] = "suspended"
        PROVE  /\ timerRunning /\ active.measure /\ ~active.tunnel
               /\ handleMeasureLoop = t
    <3>1. Alive(t) /\ MeasureBusy
      BY <2>3 DEF Alive, MeasureBusy, MeasureLives
    <3> QED
      BY <2>3, <3>1 DEF OneRunInv, OneMode, OwnedInv, MeasureOwns
  <2> QED  BY <2>2, <2>3
<1> QED  BY <1>1, OneRunAlways, PTL

\* With a patient client, when every task is idle the timer is off and no
\* flag claims activity, however the last run ended.
THEOREM IdleLeavesNothingOn ==
    ASSUME Patient
    PROVE  Spec => []IdleIsOff
<1>1. OneRunInv => IdleIsOff
  BY NothingBusy DEF IdleIsOff
<1> QED  BY <1>1, OneRunAlways, PTL

-----------------------------------------------------------------------------
(***************************************************************************)
(* The tasks implement the session.  Nothing but boot happens before both  *)
(* boot flags are set (BootInv), and a scan runs exactly while measureLoop *)
(* is on its way from measureStart to the last point or to the end of its  *)
(* while loop (ScanInv).                                                   *)
(***************************************************************************)
ScanningSteps == {"init", "while", "suspend", "suspended", "resumed", "sample",
                  "report", "point", "exit"}

BootInv ==
    ~(vspiReady /\ parLoaded) =>
        /\ dispatcher[1] = "idle" /\ tunnelPc = "none"
        /\ \A t \in MeasureTask : measurePc[t] = "none"
        /\ \A t \in AdjustTask : adjustPc[t] = "none"
        /\ scan = "none" /\ samples = {}

ScanInv ==
    /\ scan = "running" => MeasureBusy
    /\ MeasureStarts => scan = "running"
    /\ \A t \in MeasureTask : Alive(t) =>
         (scan = "running" <=> measurePc[t] \in ScanningSteps)

SessionInv == BootInv /\ ScanInv

\* The grid of the session is the grid of the tasks.
LEMMA SameGrid ==
    /\ Session!GridInit <=> GridInit
    /\ Session!DacToGrid <=> DacToGrid
    /\ Session!SetStart <=> SetStart
    /\ \A p \in ParameterSets :
         Session!GetParametersFromFlash(p) <=> GetParametersFromFlash(p)
    /\ Session!MoveToNext <=> MoveToNext
    /\ Session!GridComplete <=> GridComplete
<1> USE DEF Session!gridVars, Session!position, Session!dac, Session!XDacOf,
        Session!YDacOf, Session!gridToDacValue, Session!DAC_VALUE_MAX,
        Session!StepX, Session!KeepX, Session!NextRow, Session!KeepRow,
        Session!Leftward, Session!RowEnd, Session!Increment,
        gridVars, position, dac, XDacOf, YDacOf, gridToDacValue, DAC_VALUE_MAX,
        StepX, KeepX, NextRow, KeepRow, Leftward, RowEnd, Increment
<1>1. Session!GridInit <=> GridInit
  BY DEF Session!GridInit, GridInit, Session!CompileTimeParameters,
         CompileTimeParameters
<1>2. Session!DacToGrid <=> DacToGrid
  BY DEF Session!DacToGrid, DacToGrid
<1>3. Session!SetStart <=> SetStart
  BY DEF Session!SetStart, SetStart
<1>4. \A p \in ParameterSets :
        Session!GetParametersFromFlash(p) <=> GetParametersFromFlash(p)
  BY DEF Session!GetParametersFromFlash, GetParametersFromFlash
<1>5. Session!MoveToNext <=> MoveToNext
  BY DEF Session!MoveToNext, Session!MoveRight, Session!MoveLeft,
         Session!Flyback, Session!Turn, MoveToNext, MoveRight, MoveLeft, Flyback, Turn
<1>6. Session!GridComplete <=> GridComplete
  BY DEF Session!GridComplete, GridComplete
<1> QED  BY <1>1, <1>2, <1>3, <1>4, <1>5, <1>6

\* A task that exists finds the device booted.
LEMMA Booted ==
    ASSUME SessionInv,
           \/ \E t \in MeasureTask : Alive(t)
           \/ \E t \in AdjustTask : adjustPc[t] # "none"
           \/ tunnelPc # "none" \/ dispatcher[1] # "idle"
    PROVE  vspiReady /\ parLoaded
<1> SUFFICES ASSUME ~(vspiReady /\ parLoaded) PROVE FALSE
  OBVIOUS
<1>1. /\ dispatcher[1] = "idle" /\ tunnelPc = "none"
      /\ \A t \in MeasureTask : measurePc[t] = "none"
      /\ \A t \in AdjustTask : adjustPc[t] = "none"
  BY DEF SessionInv, BootInv
<1> QED  BY <1>1 DEF Alive

LEMMA SessionStutters ==
    ASSUME UNCHANGED <<gridVars, bootVars, scanHistory>>
    PROVE  UNCHANGED Session!vars
BY DEF bootVars, scanHistory, gridVars, position, dac, Session!vars,
       Session!gridVars, Session!position, Session!dac, Session!sessionVars

LEMMA DacsReset ==
    ASSUME vspiReady, parLoaded, DacToGrid, UNCHANGED <<bootVars, scanHistory>>
    PROVE  Session!Next
BY SameGrid DEF Session!Next, Session!ResetDac, Session!sessionVars, bootVars, scanHistory

\* A step of the one measureLoop: what it has to keep of SessionInv.
LEMMA MeasureMovesSession ==
    ASSUME OneRunInv, SessionInv, TypesInv, NEW t \in MeasureTask, Alive(t),
           NEW s \in MeasureSteps, GoTo(t, s), MeasureFrame,
           scan' = "running" <=> s \in ScanningSteps
    PROVE  SessionInv'
<1>1. vspiReady /\ parLoaded
  BY Booted
<1>2. (vspiReady /\ parLoaded)' /\ UNCHANGED dispatcher
  BY <1>1 DEF MeasureFrame, bootVars
<1>3. ~MeasureStarts' /\ \A u \in MeasureTask : Alive(u) => u = t
  BY <1>2 DEF OneRunInv, OneMode, MeasureStarts, MeasureLives
<1>4. measurePc'[t] = s /\ \A u \in MeasureTask : u # t => measurePc'[u] = measurePc[u]
  BY DEF GoTo, TypesInv, TypeOK, GlobalsTypeOK
<1>5. ScanInv'
  BY <1>3, <1>4 DEF ScanInv, MeasureBusy, MeasureLives, Alive, ScanningSteps
<1> QED  BY <1>2, <1>5 DEF SessionInv, BootInv

LEMMA MeasureIsSession ==
    ASSUME OneRunInv, OneRunInv', SessionInv, TypesInv,
           NEW t \in MeasureTask, MeasureNext(t)
    PROVE  SessionInv' /\ [Session!Next]_(Session!vars)
<1>0. /\ Alive(t) /\ vspiReady /\ parLoaded
      /\ scan = "running" <=> measurePc[t] \in ScanningSteps
      /\ MeasureFrame => UNCHANGED <<vspiReady, parLoaded, startedLeft>>
  <2>1. Alive(t)
    BY DEF MeasureNext, MeasureInit, MeasureWhile, MeasureSuspend,
           MeasureResumed, InTolerance, OffTolerance, SendReport, SendPoint,
           SendEnd, MeasureDeinit, MeasureDrained, MeasureFinish, MeasureExit,
           At, Alive
  <2>2. MeasureFrame => UNCHANGED <<vspiReady, parLoaded, startedLeft>>
    BY DEF MeasureFrame, bootVars
  <2> QED  BY <2>1, <2>2, Booted DEF SessionInv, ScanInv
<1> USE DEF At, MeasureSteps, InIteration, ScanningSteps
<1>1. ASSUME NEW s \in MeasureSteps, GoTo(t, s), MeasureFrame,
             UNCHANGED <<gridVars, scan, samples>>,
             measurePc[t] \in ScanningSteps <=> s \in ScanningSteps
      PROVE  SessionInv' /\ [Session!Next]_(Session!vars)
  BY <1>0, <1>1, MeasureMovesSession, SessionStutters DEF bootVars, scanHistory
<1>2. CASE SendPoint(t)
  <2>1. scan = "running"
    BY <1>0, <1>2 DEF SendPoint
  <2>2. SessionInv'
    <3>1. CASE GoTo(t, "while") /\ UNCHANGED scan
      BY <1>0, <1>2, <2>1, <3>1, MeasureMovesSession DEF SendPoint
    <3>2. CASE GoTo(t, "end") /\ scan' = "done"
      BY <1>0, <1>2, <3>2, MeasureMovesSession DEF SendPoint
    <3> QED  BY <1>2, <3>1, <3>2 DEF SendPoint
  <2>3. Session!Record
    BY <1>0, <1>2, <2>1 DEF SendPoint, Session!Record
  <2>4. Session!RecordPoint \/ Session!RecordLastPoint
    BY <1>2, <2>3, SameGrid
    DEF SendPoint, Session!RecordPoint, Session!RecordLastPoint
  <2> QED  BY <2>2, <2>4 DEF Session!Next
<1>3. CASE MeasureExit(t)
  <2>1. scan = "running" /\ scan' = "stopped" /\ UNCHANGED <<gridVars, samples>>
    BY <1>0, <1>3 DEF MeasureExit
  <2>2. Session!Stop
    BY <1>0, <1>3, <2>1
    DEF MeasureExit, Session!Stop, Session!gridVars, gridVars, Session!position,
        position, Session!dac, dac
  <2>3. SessionInv'
    BY <1>0, <1>3, <2>1, MeasureMovesSession DEF MeasureExit
  <2> QED  BY <2>2, <2>3 DEF Session!Next
<1>4. CASE MeasureInit(t)
  BY <1>1, <1>4 DEF MeasureInit
<1>5. CASE MeasureWhile(t)
  BY <1>1, <1>5 DEF MeasureWhile
<1>6. CASE MeasureSuspend(t)
  BY <1>1, <1>6 DEF MeasureSuspend
<1>7. CASE MeasureResumed(t)
  \* NoOverlap: the task does not end in errorBlink.
  <2>1. measurePc'[t] # "errorBlink"
    BY DEF OneRunInv, OwnedInv, MeasureOwns
  <2>2. GoTo(t, "sample")
    BY <1>7, <2>1 DEF MeasureResumed, GoTo, TypesInv, TypeOK, GlobalsTypeOK
  <2> QED  BY <1>1, <1>7, <2>2 DEF MeasureResumed
<1>8. CASE InTolerance(t)
  BY <1>1, <1>8 DEF InTolerance
<1>9. CASE OffTolerance(t)
  BY <1>1, <1>9 DEF OffTolerance
<1>10. CASE SendReport(t)
  BY <1>1, <1>10 DEF SendReport
<1>11. CASE SendEnd(t)
  BY <1>1, <1>11 DEF SendEnd
<1>12. CASE MeasureDeinit(t)
  BY <1>1, <1>12 DEF MeasureDeinit
<1>13. CASE MeasureDrained(t)
  BY <1>1, <1>13 DEF MeasureDrained
<1>14. CASE MeasureFinish(t)
  BY <1>1, <1>14 DEF MeasureFinish
<1> QED
  BY <1>2, <1>3, <1>4, <1>5, <1>6, <1>7, <1>8, <1>9, <1>10, <1>11, <1>12,
     <1>13, <1>14 DEF MeasureNext

\* A step of another task, of the timer or of STOP once the device is
\* booted: measureLoop is at most woken.
LEMMA SessionKept ==
    ASSUME SessionInv, vspiReady, parLoaded, UNCHANGED <<bootVars, scanHistory>>,
           MeasureStarts' <=> MeasureStarts,
           \A t \in MeasureTask :
              \/ measurePc'[t] = measurePc[t]
              \/ measurePc[t] = "suspended" /\ measurePc'[t] = "resumed"
    PROVE  SessionInv'
<1>1. vspiReady' /\ parLoaded' /\ scan' = scan
  BY DEF bootVars, scanHistory
<1>2. MeasureBusy' <=> MeasureBusy
  BY DEF MeasureBusy, MeasureLives, Alive
<1>3. ScanInv'
  BY <1>1, <1>2 DEF SessionInv, ScanInv, Alive, ScanningSteps
<1> QED  BY <1>1, <1>3 DEF SessionInv, BootInv

\* A step that touches nothing of the session.
LEMMA SessionUntouched ==
    ASSUME SessionInv, UNCHANGED <<bootVars, scanHistory>>,
           UNCHANGED <<dispatcher, tunnelPc, measurePc, adjustPc>>
    PROVE  SessionInv'
<1>1. UNCHANGED <<vspiReady, parLoaded, scan, samples>>
  BY DEF bootVars, scanHistory
<1> QED
  BY <1>1
  DEF SessionInv, BootInv, ScanInv, MeasureBusy, MeasureStarts, MeasureLives, Alive

LEMMA LoopsAreSession ==
    ASSUME OneRunInv, SessionInv, TypesInv,
           TunnelNext \/ (\E t \in AdjustTask : AdjustNext(t)) \/ Tick \/ TransmissionNext
    PROVE  SessionInv' /\ [Session!Next]_(Session!vars)
<1>1. CASE TunnelNext
  <2>1. /\ tunnelPc # "none" /\ UNCHANGED <<bootVars, scanHistory>>
        /\ UNCHANGED <<dispatcher, measurePc, position, par>>
        /\ DacToGrid \/ UNCHANGED dac
    BY <1>1
    DEF TunnelNext, TunnelBoot, TunnelReceive, TunnelWhile, TunnelSuspend,
        SendTunnelSample, SendTunnelEnd, TunnelDrained, TunnelFinish,
        TunnelFrame, resetDac
  <2>2. vspiReady /\ parLoaded
    BY <2>1, Booted
  <2>3. SessionInv'
    BY <2>1, <2>2, SessionKept DEF MeasureStarts
  <2> QED  BY <2>1, <2>2, <2>3, DacsReset, SessionStutters DEF gridVars
<1>2. ASSUME NEW t \in AdjustTask, AdjustNext(t)
      PROVE  SessionInv' /\ [Session!Next]_(Session!vars)
  <2>1. /\ adjustPc[t] # "none" /\ UNCHANGED <<bootVars, scanHistory>>
        /\ UNCHANGED <<dispatcher, measurePc, position, par>>
        /\ DacToGrid \/ UNCHANGED dac \/ (AdjustBody(t) /\ tipQueue # <<>>)
    BY <1>2
    DEF AdjustNext, AdjustWhile, AdjustBody, AdjustDelay, AdjustExit,
        AdjustFrame, resetDac
  <2>2. vspiReady /\ parLoaded
    BY <2>1, Booted
  <2>3. SessionInv'
    BY <2>1, <2>2, SessionKept DEF MeasureStarts
  <2>4. CASE AdjustBody(t) /\ tipQueue # <<>>
    \* A TIP command is applied only while adjustLoop is the one at work.
    <3>1. scan # "running"
      BY <2>1 DEF OneRunInv, OneMode, AdjustBusy, SessionInv, ScanInv
    <3>2. Head(tipQueue) \in TipDacs
      BY <2>4 DEF TypesInv, TypeOK, GlobalsTypeOK
    <3>3. Session!Tip
      BY <2>1, <2>2, <2>4, <3>1, <3>2
      DEF AdjustBody, Session!Tip, Session!position, position,
          Session!sessionVars, bootVars, scanHistory
    <3> QED  BY <2>3, <3>3 DEF Session!Next
  <2> QED  BY <2>1, <2>2, <2>3, <2>4, DacsReset, SessionStutters DEF gridVars
<1>3. CASE Tick
  <2>1. /\ UNCHANGED <<gridVars, bootVars, scanHistory, dispatcher, adjustPc>>
        /\ \/ tunnelPc # "none" /\ UNCHANGED measurePc
           \/ \E t \in MeasureTask : Alive(t)
    <3>1. handleMeasureLoop \in MeasureTask \cup {NoTask}
      BY DEF TypesInv, TypeOK, GlobalsTypeOK
    <3> QED  BY <1>3, <3>1 DEF Tick, Alive
  <2>2. vspiReady /\ parLoaded
    BY <2>1, Booted
  <2>3. \A t \in MeasureTask :
          \/ measurePc'[t] = measurePc[t]
          \/ measurePc[t] = "suspended" /\ measurePc'[t] = "resumed"
    BY <1>3 DEF Tick, ResumeMeasure, TypesInv, TypeOK, GlobalsTypeOK
  <2> QED
    BY <2>1, <2>2, <2>3, SessionKept, SessionStutters DEF MeasureStarts
<1>4. CASE TransmissionNext
  <2>1. /\ UNCHANGED <<gridVars, bootVars, scanHistory>>
        /\ UNCHANGED <<dispatcher, tunnelPc, measurePc, adjustPc>>
    BY <1>4 DEF TransmissionNext, Receive, Transmit, TransmissionFrame, tunnelVars
  <2> QED  BY <2>1, SessionUntouched, SessionStutters
<1> QED  BY <1>1, <1>2, <1>3, <1>4

LEMMA DispatcherIsSession ==
    ASSUME OneRunInv, SessionInv, TypesInv, DispatcherNext
    PROVE  SessionInv' /\ [Session!Next]_(Session!vars)
<1>1. /\ UNCHANGED <<gridVars, bootVars, scanHistory>>
      /\ dispatcher[1] # "idle"
  BY DEF DispatcherNext, MeasureQueue, MeasureCreate, TunnelSend, TunnelResume,
         StopMeasure, StopTunnel, StopSend, StopReport, DispatcherFrame, Step,
         gridVars
<1>2. vspiReady /\ parLoaded
  BY <1>1, Booted
<1>3. SessionInv'
  <2>1. CASE MeasureCreate
    <3>1. PICK t \in MeasureTask : measurePc' = [measurePc EXCEPT ![t] = "init"]
      BY <2>1 DEF MeasureCreate
    <3>2. /\ MeasureStarts /\ ~MeasureStarts'
          /\ vspiReady' /\ parLoaded' /\ scan' = scan
      BY <1>1, <1>2, <2>1
      DEF MeasureCreate, Step, Return, MeasureStarts, bootVars, scanHistory
    <3>3. scan = "running" /\ ~MeasureLives
      BY <3>2 DEF SessionInv, ScanInv, OneRunInv, OneMode
    <3>4. \A u \in MeasureTask : measurePc'[u] = IF u = t THEN "init" ELSE "none"
      BY <3>1, <3>3 DEF MeasureLives, Alive, TypesInv, TypeOK, GlobalsTypeOK
    <3>5. ScanInv'
      BY <3>2, <3>3, <3>4 DEF ScanInv, MeasureBusy, MeasureLives, Alive, ScanningSteps
    <3> QED  BY <3>2, <3>5 DEF SessionInv, BootInv
  <2>2. CASE ~MeasureCreate
    <3>1. MeasureStarts' <=> MeasureStarts
      BY <2>2
      DEF DispatcherNext, MeasureQueue, TunnelSend, TunnelResume, StopMeasure,
          StopTunnel, StopSend, StopReport, Step, GoOn, Return, MeasureStarts
    <3>2. \A t \in MeasureTask :
            \/ measurePc'[t] = measurePc[t]
            \/ measurePc[t] = "suspended" /\ measurePc'[t] = "resumed"
      BY <2>2
      DEF DispatcherNext, MeasureQueue, TunnelSend, TunnelResume, StopMeasure,
          StopTunnel, StopSend, StopReport, ResumeMeasure, TypesInv, TypeOK,
          GlobalsTypeOK
    <3> QED  BY <1>1, <1>2, <3>1, <3>2, SessionKept
  <2> QED  BY <2>1, <2>2
<1> QED  BY <1>1, <1>3, SessionStutters

LEMMA CommandsAreSession ==
    ASSUME Patient, OneRunInv, SessionInv, TypesInv, ClientNext
    PROVE  SessionInv' /\ [Session!Next]_(Session!vars)
<1>0. MayStart => /\ vspiReady /\ parLoaded /\ scan # "running"
                  /\ \A t \in MeasureTask : measurePc[t] = "none"
                  /\ dispatcher[1] = "idle"
  BY NothingBusy DEF MayStart, SessionInv, ScanInv, Quiescent, Idle
<1>1. CASE MayStart /\ MeasureCommand
  <2>1. /\ (vspiReady /\ parLoaded)' /\ scan' = "running" /\ MeasureStarts'
        /\ \A t \in MeasureTask : measurePc'[t] = "none"
    BY <1>0, <1>1 DEF MeasureCommand, GoOn, MeasureStarts, bootVars
  <2>2. SessionInv'
    BY <2>1 DEF SessionInv, BootInv, ScanInv, MeasureBusy, Alive
  <2>3. Session!Measure
    BY <1>0, <1>1, SameGrid DEF MeasureCommand, Session!Measure, bootVars
  <2> QED  BY <2>2, <2>3 DEF Session!Next
<1>2. ASSUME MayStart, NEW p \in ParameterSets, ParameterCommand(p)
      PROVE  SessionInv' /\ [Session!Next]_(Session!vars)
  <2>1. /\ UNCHANGED <<vspiReady, parLoaded, startedLeft, dispatcher, measurePc>>
        /\ scan' = "none" /\ samples' = {} /\ GetParametersFromFlash(p)
    BY <1>2 DEF ParameterCommand, bootVars
  <2>2. SessionInv'
    BY <1>0, <1>2, <2>1
    DEF SessionInv, BootInv, ScanInv, MeasureStarts, Alive
  <2>3. Session!LoadParameters
    BY <1>0, <1>2, <2>1, SameGrid DEF Session!LoadParameters
  <2> QED  BY <2>2, <2>3 DEF Session!Next
<1>3. ASSUME NEW d \in TipDacs, TipCommand(d)
      PROVE  SessionInv' /\ [Session!Next]_(Session!vars)
  <2>1. /\ UNCHANGED <<gridVars, bootVars, scanHistory>>
        /\ UNCHANGED <<dispatcher, tunnelPc, measurePc, adjustPc>>
    BY <1>3 DEF TipCommand, DispatcherFrame, tunnelVars, gridVars
  <2> QED  BY <2>1, SessionUntouched, SessionStutters
<1>4. CASE \/ MayStart /\ \E n \in LoopCounts : TunnelCommand(n)
           \/ MayStart /\ AdjustCommand
           \/ MayStop /\ StopCommand
  <2>1. /\ UNCHANGED <<gridVars, bootVars, scanHistory, measurePc>>
        /\ vspiReady /\ parLoaded
        /\ ~MeasureStarts /\ ~MeasureStarts'
    BY <1>4
    DEF MayStart, MayStop, TunnelCommand, AdjustCommand, StopCommand,
        DispatcherFrame, gridVars, Idle, GoOn, MeasureStarts
  <2> QED  BY <2>1, SessionKept, SessionStutters
<1> QED  BY <1>1, <1>2, <1>3, <1>4 DEF ClientNext

LEMMA BootIsSession ==
    ASSUME SessionInv, BootVspi \/ BootParameters
    PROVE  SessionInv' /\ [Session!Next]_(Session!vars)
<1>1. /\ ~(vspiReady /\ parLoaded) /\ UNCHANGED scanHistory
      /\ UNCHANGED <<dispatcher, tunnelPc, measurePc, adjustPc>>
  BY DEF BootVspi, BootParameters, controlVars, tunnelVars
<1>2. SessionInv'
  BY <1>1
  DEF SessionInv, BootInv, ScanInv, scanHistory, MeasureStarts, Alive
<1>3. CASE BootVspi
  <2>1. Session!VspiInit
    BY <1>1, <1>3, SameGrid DEF BootVspi, Session!VspiInit, scanHistory
  <2> QED  BY <1>2, <2>1 DEF Session!Next
<1>4. CASE BootParameters
  <2>1. Session!LoadParameters
    BY <1>1, <1>4, SameGrid
    DEF BootParameters, Session!LoadParameters, scanHistory, SessionInv, BootInv
  <2> QED  BY <1>2, <2>1 DEF Session!Next
<1> QED  BY <1>3, <1>4

LEMMA SessionStep ==
    Patient /\ TypesInv /\ OneRunInv /\ OneRunInv' /\ SessionInv /\ [Next]_vars
      => SessionInv' /\ [Session!Next]_(Session!vars)
<1> SUFFICES ASSUME Patient, TypesInv, OneRunInv, OneRunInv', SessionInv, [Next]_vars
             PROVE  SessionInv' /\ [Session!Next]_(Session!vars)
  OBVIOUS
<1>1. CASE UNCHANGED vars
  <2>1. /\ UNCHANGED <<gridVars, bootVars, scanHistory>>
        /\ UNCHANGED <<dispatcher, tunnelPc, measurePc, adjustPc>>
    BY <1>1 DEF vars, controlVars, tunnelVars
  <2> QED  BY <2>1, SessionUntouched, SessionStutters
<1> QED
  BY <1>1, BootIsSession, CommandsAreSession, DispatcherIsSession,
     LoopsAreSession, MeasureIsSession DEF Next

LEMMA SessionInit == Init => SessionInv /\ Session!Init
<1> SUFFICES ASSUME Init PROVE SessionInv /\ Session!Init
  OBVIOUS
<1>1. SessionInv
  BY DEF Init, SessionInv, BootInv, ScanInv, MeasureStarts, Alive
<1>2. Session!Init
  BY SameGrid DEF Init, Session!Init
<1> QED  BY <1>1, <1>2

LEMMA SessionAlways ==
    ASSUME Patient
    PROVE  Spec => [](TypesInv /\ OneRunInv /\ SessionInv)
BY SessionInit, SessionStep, OneRunAlways, PTL DEF Spec

\* With a patient client the tasks together do to grid, DACs and samples
\* what ScanSession allows and nothing else: points are recorded in the
\* order of moveOn by one measureLoop, and parameters and TIP values change
\* between scans only.
THEOREM TasksImplementSession ==
    ASSUME Patient
    PROVE  Spec => ImplementsSession
BY SessionInit, SessionStep, OneRunAlways, PTL
DEF Spec, ImplementsSession, Session!Spec
=============================================================================
