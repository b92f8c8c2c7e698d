------------------------------ MODULE RunControl ------------------------------
(***************************************************************************)
(* The tasks of the firmware that carry out a run, together: boot, the     *)
(* dispatcher, measureLoop, tunnelLoop, adjustLoop, dataTransmissionLoop,  *)
(* the timer interrupt and the client at the other end of the line.        *)
(***************************************************************************)
EXTENDS MeasureLoop, TunnelLoop, AdjustLoop, DataTransmission, Dispatcher

CONSTANTS
    Commands,  \* the commands the client uses
    Patient    \* the client's discipline, see MayStart

ASSUME PatientAssumption == Patient \in BOOLEAN

controlVars ==
    <<active, loopVars, prefix, queueToPc, queueTunnelCmd, tipQueue,
      timerRunning, handleMeasureLoop, measurePc, tunnelVars, adjustPc,
      txVars, dispatcher>>
vars == <<gridVars, controlVars, bootVars, scanHistory, run>>

Init ==
    /\ GridInit
    /\ active = [mode \in {"measure", "tunnel", "adjust"} |-> FALSE]
    /\ isLoopExecution = FALSE /\ tunnelFound = FALSE /\ prefix = ""
    /\ queueToPc = <<>> /\ queueTunnelCmd = <<>> /\ tipQueue = <<>>
    /\ timerRunning = FALSE
    /\ handleMeasureLoop = NoTask
    /\ measurePc = [t \in MeasureTask |-> "none"]
    /\ tunnelPc = "none" /\ tunnelLeft = 0
    /\ adjustPc = [t \in AdjustTask |-> "none"]
    /\ transmitting = FALSE /\ txElement = <<>>
    /\ dispatcher = <<"idle", 0>>
    /\ vspiReady = FALSE /\ parLoaded = FALSE
    /\ scan = "none" /\ samples = {} /\ startedLeft = FALSE
    /\ run = NoRun

-----------------------------------------------------------------------------
(* Boot: vspiDacLoop starts on core 1 while app_main loads the parameters. *)
(* The dispatcher is started last.                                         *)

BootVspi ==
    /\ ~vspiReady
    /\ DacToGrid
    /\ vspiReady' = TRUE
    /\ UNCHANGED <<controlVars, parLoaded, scanHistory, run>>

BootParameters ==
    /\ ~parLoaded
    /\ \E p \in ParameterSets : GetParametersFromFlash(p)
    /\ parLoaded' = TRUE
    /\ UNCHANGED <<controlVars, vspiReady, scanHistory, run>>

-----------------------------------------------------------------------------
(* The client.                                                             *)

\* Nothing is left to do for any task: what a client reaches that waits a
\* second after the last line it received.
Quiescent ==
    /\ \A t \in MeasureTask : measurePc[t] = "none"
    /\ tunnelPc \in {"none", "receive"} /\ queueTunnelCmd = <<>>
    /\ \A t \in AdjustTask : adjustPc[t] = "none"
    /\ queueToPc = <<>> /\ txElement = <<>>
    /\ Idle

\* A patient client waits until the device is quiescent before it starts
\* something; the other one only for the DONE or STOPPED line.  The second
\* conjunct bounds the number of tasks.
MayStart ==
    /\ vspiReady /\ parLoaded
    /\ IF Patient THEN Quiescent ELSE ~run.busy
    /\ \E t \in MeasureTask : measurePc[t] = "none"
    /\ \E t \in AdjustTask : adjustPc[t] = "none"

\* A patient client does not send STOP before its TUNNEL command is taken up.
MayStop ==
    /\ vspiReady /\ parLoaded
    /\ Patient => queueTunnelCmd = <<>>

ClientNext ==
    \/ "MEASURE" \in Commands /\ MayStart /\ MeasureCommand
    \/ "TUNNEL" \in Commands /\ MayStart /\ \E n \in LoopCounts : TunnelCommand(n)
    \/ "ADJUST" \in Commands /\ MayStart /\ AdjustCommand
    \/ "TIP" \in Commands /\ \E d \in TipDacs : TipCommand(d)
    \/ "PARAMETER" \in Commands /\ MayStart /\ \E p \in ParameterSets : ParameterCommand(p)
    \/ "STOP" \in Commands /\ MayStop /\ StopCommand

-----------------------------------------------------------------------------
Next ==
    \/ BootVspi \/ BootParameters
    \/ ClientNext \/ DispatcherNext \/ Tick
    \/ \E t \in MeasureTask : MeasureNext(t)
    \/ TunnelNext
    \/ \E t \in AdjustTask : AdjustNext(t)
    \/ TransmissionNext

Spec == Init /\ [][Next]_vars

\* FreeRTOS runs every ready task and the timer keeps ticking; the client
\* owes nothing.  The tip comes into tolerance again and again: that is the
\* PI control's task.
Fairness ==
    /\ WF_vars(DispatcherNext) /\ WF_vars(Tick)
    /\ WF_vars(TunnelNext) /\ WF_vars(TransmissionNext)
    /\ \A t \in MeasureTask :
         WF_vars(MeasureNext(t)) /\ SF_vars(InTolerance(t))
    /\ \A t \in AdjustTask : WF_vars(AdjustNext(t))

FairSpec == Spec /\ Fairness

-----------------------------------------------------------------------------
TypeOK ==
    /\ GlobalsTypeOK
    /\ dispatcher \in {"idle", "measureQueue", "measureCreate", "tunnelSend",
         "tunnelResume", "stopMeasure", "stopTunnel", "stopSend", "stopReport"}
         \X (LoopCounts \cup {0})
    /\ run.cmd \in {"none", "measure", "tunnel"} /\ run.loops \in LoopCounts \cup {0}

(* Safety.                                                                 *)

IsPoint(e) == e[1] = "point"
PlaceOf(e) == <<e[2], e[3]>>
LinesSeen == [i \in 1 .. Len(run.lines) |-> run.lines[i][2]]
Taken == IF txElement = <<>> THEN <<>> ELSE <<txElement>>
\* What has left measureLoop, oldest first: seen by the PC, held by
\* dataTransmissionLoop, waiting in queueToPc.
Wire == LinesSeen \o Taken \o queueToPc
PointsOnWire == {i \in DOMAIN Wire : IsPoint(Wire[i])}

\* Between measureLoop and the PC no point is lost, duplicated or left over
\* from an earlier run, also when STOP cuts the run short.
NothingLost ==
    run.cmd = "measure" =>
        /\ {Wire[i] : i \in PointsOnWire} = {Point(s.x, s.y) : s \in samples}
        /\ \A i, j \in PointsOnWire : Wire[i] = Wire[j] => i = j

\* The PC sees the points in the order of the scan.
DeliveredInOrder ==
    run.cmd = "measure" =>
        \A i, j \in DOMAIN run.lines :
            i < j => Earlier(PlaceOf(LinesSeen[i]), PlaceOf(LinesSeen[j]), startedLeft)

\* The DONE line of a MEASURE that was not stopped follows the last point of
\* the rectangle.
DoneIsComplete ==
    run.cmd = "measure" /\ run.done /\ ~run.stopped /\ RegularScan(startedLeft)
    => {LinesSeen[i] : i \in DOMAIN run.lines}
         = {Point(x, y) : x \in par.startX .. par.maxX, y \in par.startY .. par.maxY}

\* TUNNEL,n that was not stopped delivers n samples before its DONE line.
TunnelIsExact ==
    run.cmd = "tunnel" /\ run.done /\ ~run.stopped => Len(run.lines) = run.loops

\* What a line means can be told from its prefix, although the prefix is a
\* global read when the line is sent.  Points go out as DATA and samples of
\* tunnelLoop as TUNNEL.  Reports go out as FIND, but for one: the report
\* that was already taken when the tunnel is found goes out as DATA.  It is
\* the only one of its run and comes before the first point.  The DONE line
\* of a run is TUNNEL,DONE or DATA,DONE; a MEASURE that is stopped may also
\* end with FIND,DONE.
PointsLabelled ==
    \A i \in DOMAIN run.lines :
        run.lines[i][1] = IF IsPoint(run.lines[i][2]) THEN "DATA" ELSE "TUNNEL"
ReportsLabelled == run.strays \in {<<>>, << <<"DATA", 0>> >>}
DoneLabelled ==
    /\ run.cmd = "tunnel" /\ run.done => run.final = "TUNNEL"
    /\ run.cmd = "measure" /\ run.done =>
          \/ run.final = "DATA"
          \/ run.stopped /\ run.final = "FIND"
LinesLabelled == PointsLabelled /\ ReportsLabelled /\ DoneLabelled

\* No measureLoop ends in errorBlink, which it never leaves: with a patient
\* client no iteration of an earlier run has left isLoopExecution set.
NoOverlap == \A t \in MeasureTask : measurePc[t] # "errorBlink"

\* A loop that waits for a tick gets one: the timer runs and the interrupt
\* serves that loop, unless STOP or the start command is under way.  Under
\* way beside it may be what belongs to its own run only: the patient client
\* has seen every earlier loop end (Quiescent).
WaitingIsServed ==
    Idle /\ ~run.stopped =>
        /\ tunnelPc = "suspended" => timerRunning /\ active.tunnel
        /\ \A t \in MeasureTask : measurePc[t] = "suspended" =>
              /\ timerRunning /\ active.measure /\ ~active.tunnel
              /\ handleMeasureLoop = t

\* When all tasks are idle the timer is off and no flag claims activity.
IdleIsOff ==
    Quiescent => ~timerRunning /\ ~active.measure /\ ~active.tunnel

\* The tasks implement the session: boot, parameters, scan order, DACs.
Session == INSTANCE ScanSession WITH
    currentX <- currentX, currentY <- currentY, scan <- scan, samples <- samples
ImplementsSession == Session!Spec

\* isLoopExecution is set only while some measureLoop is in an iteration: no
\* way out of the loop leaves it set, which would make the next MEASURE end
\* in errorBlink.  It holds for every client and any number of loops.
GuardIsOwned ==
    isLoopExecution => \E t \in MeasureTask : measurePc[t] \in InIteration

(* Liveness.                                                               *)

\* Every MEASURE and TUNNEL ends with its DONE line, unless it is stopped.
RunFinishes == run.busy ~> run.done \/ run.stopped

\* After STOP every measureLoop ends.
StopEndsMeasure ==
    run.stopped ~> \A t \in MeasureTask : measurePc[t] = "none"
=============================================================================
