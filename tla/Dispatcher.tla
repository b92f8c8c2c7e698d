------------------------------ MODULE Dispatcher ------------------------------
(***************************************************************************)
(* controller.cpp: dispatcherTask on core 0, priority 4, handling one      *)
(* command after the other.  dispatcher holds the step reached and the     *)
(* argument; the first step of a command starts at "idle".  SINUS and the  *)
(* SET_ commands touch none of this state and are left out.                *)
(***************************************************************************)
EXTENDS RunGlobals

Idle == dispatcher = <<"idle", 0>>
Step(s) == dispatcher[1] = s
GoOn(s) == dispatcher' = <<s, dispatcher[2]>>
Return == dispatcher' = <<"idle", 0>>

DispatcherFrame == UNCHANGED <<position, dac, par, loopVars, txElement, bootVars>>

\* See Transmit for lines, strays and final.
NoRun == [cmd |-> "none", loops |-> 0, lines |-> <<>>, strays |-> <<>>,
          final |-> "", done |-> FALSE, stopped |-> FALSE, busy |-> FALSE]
RunOf(c, n) == [NoRun EXCEPT !.cmd = c, !.loops = n, !.busy = TRUE]

-----------------------------------------------------------------------------
(* MEASURE: measureStart.                                                  *)

\* Mutant: the grid is not reset to its start indices.
MeasureCommandNoReset ==
    /\ Idle
    /\ active' = [active EXCEPT !.measure = TRUE]
    /\ scan' = "running" /\ samples' = {} /\ startedLeft' = currentDirection
    /\ run' = RunOf("measure", 0)
    /\ GoOn("measureQueue")
    /\ UNCHANGED <<gridVars, loopVars, prefix, queueToPc, queueTunnelCmd,
                   tipQueue, timerRunning, handleMeasureLoop, measurePc,
                   tunnelVars, adjustPc, txVars, bootVars>>

MeasureCommand ==
    /\ Idle
    /\ active' = [active EXCEPT !.measure = TRUE]
    /\ SetStart
    /\ scan' = "running" /\ samples' = {} /\ startedLeft' = currentDirection
    /\ run' = RunOf("measure", 0)
    /\ GoOn("measureQueue")
    /\ UNCHANGED <<loopVars, prefix, queueToPc, queueTunnelCmd, tipQueue,
                   timerRunning, handleMeasureLoop, measurePc, tunnelVars,
                   adjustPc, txVars, bootVars>>

MeasureQueue ==
    /\ Step("measureQueue")
    /\ transmitting' = TRUE /\ queueToPcClear
    /\ setPrefix("DATA")
    /\ GoOn("measureCreate")
    /\ UNCHANGED <<active, queueTunnelCmd, tipQueue, timerRunning,
                   handleMeasureLoop, measurePc, tunnelVars, adjustPc,
                   scanHistory, run>>
    /\ DispatcherFrame

\* The handle is overwritten whether or not the last task still exists.
MeasureCreate ==
    /\ Step("measureCreate")
    /\ \E t \in MeasureTask :
         /\ measurePc[t] = "none"
         /\ measurePc' = [measurePc EXCEPT ![t] = "init"]
         /\ handleMeasureLoop' = t
    /\ timer_initialize
    /\ Return
    /\ UNCHANGED <<active, prefix, queueToPc, queueTunnelCmd, tipQueue,
                   tunnelVars, adjustPc, transmitting, scanHistory, run>>
    /\ DispatcherFrame

(* TUNNEL,n: tunnelStart.                                                  *)

TunnelCommand(n) ==
    /\ Idle
    /\ active' = [active EXCEPT !.tunnel = TRUE]
    /\ transmitting' = TRUE /\ queueToPcClear
    /\ setPrefix("TUNNEL")
    /\ run' = RunOf("tunnel", n)
    /\ dispatcher' = <<"tunnelSend", n>>
    /\ UNCHANGED <<queueTunnelCmd, tipQueue, timerRunning, handleMeasureLoop,
                   measurePc, tunnelVars, adjustPc, scanHistory>>
    /\ DispatcherFrame

\* The task is created once; the command is dropped if its queue stays full.
TunnelSend ==
    /\ Step("tunnelSend")
    /\ tunnelPc' = IF tunnelPc = "none" THEN "boot" ELSE tunnelPc
    /\ \/ /\ Len(queueTunnelCmd) < CommandLength
          /\ queueTunnelCmd' = Append(queueTunnelCmd, dispatcher[2])
          /\ GoOn("tunnelResume") /\ UNCHANGED active
       \/ /\ Len(queueTunnelCmd) = CommandLength
          /\ active' = [active EXCEPT !.tunnel = FALSE]
          /\ Return /\ UNCHANGED queueTunnelCmd
    /\ UNCHANGED <<prefix, queueToPc, tipQueue, timerRunning, handleMeasureLoop,
                   measurePc, tunnelLeft, adjustPc, transmitting, scanHistory, run>>
    /\ DispatcherFrame

TunnelResume ==
    /\ Step("tunnelResume")
    /\ ResumeTunnel
    /\ timer_initialize
    /\ Return
    /\ UNCHANGED <<active, prefix, queueToPc, queueTunnelCmd, tipQueue,
                   handleMeasureLoop, measurePc, tunnelLeft, adjustPc,
                   transmitting, scanHistory, run>>
    /\ DispatcherFrame

-----------------------------------------------------------------------------
(* ADJUST: adjustStart, which does nothing while the mode is active; TIP;  *)
(* PARAMETER in its three forms, which all load the flash.                 *)

AdjustCommand ==
    /\ Idle
    /\ ~active.adjust
    /\ active' = [active EXCEPT !.adjust = TRUE]
    /\ \E t \in AdjustTask :
         /\ adjustPc[t] = "none"
         /\ adjustPc' = [adjustPc EXCEPT ![t] = "while"]
    /\ UNCHANGED <<dispatcher, prefix, queueToPc, queueTunnelCmd, tipQueue,
                   timerRunning, handleMeasureLoop, measurePc, tunnelVars,
                   transmitting, scanHistory, run>>
    /\ DispatcherFrame

\* Rejected with a message outside the adjust mode and when the queue is full.
TipCommand(d) ==
    /\ Idle
    /\ active.adjust /\ Len(tipQueue) < TipLength
    /\ tipQueue' = Append(tipQueue, d)
    /\ UNCHANGED <<dispatcher, active, prefix, queueToPc, queueTunnelCmd,
                   timerRunning, handleMeasureLoop, measurePc, tunnelVars,
                   adjustPc, transmitting, scanHistory, run>>
    /\ DispatcherFrame

ParameterCommand(p) ==
    /\ Idle
    /\ GetParametersFromFlash(p)
    /\ scan' = "none" /\ samples' = {} /\ run' = NoRun
    /\ UNCHANGED <<dispatcher, active, loopVars, prefix, queueToPc,
                   queueTunnelCmd, tipQueue, timerRunning, handleMeasureLoop,
                   measurePc, tunnelVars, adjustPc, txVars, bootVars, startedLeft>>

-----------------------------------------------------------------------------
(* STOP.                                                                   *)

StopCommand ==
    /\ Idle
    /\ active' = [active EXCEPT !.adjust = FALSE, !.measure = FALSE]
    /\ run' = [run EXCEPT !.stopped = TRUE]
    /\ GoOn("stopMeasure")
    /\ UNCHANGED <<prefix, queueToPc, queueTunnelCmd, tipQueue, timerRunning,
                   handleMeasureLoop, measurePc, tunnelVars, adjustPc,
                   transmitting, scanHistory>>
    /\ DispatcherFrame

StopMeasure ==
    /\ Step("stopMeasure")
    /\ ResumeMeasure(handleMeasureLoop)
    /\ active' = [active EXCEPT !.tunnel = FALSE]
    /\ GoOn("stopTunnel")
    /\ UNCHANGED <<prefix, queueToPc, queueTunnelCmd, tipQueue, timerRunning,
                   handleMeasureLoop, tunnelVars, adjustPc, transmitting,
                   scanHistory, run>>
    /\ DispatcherFrame

StopTunnel ==
    /\ Step("stopTunnel")
    /\ ResumeTunnel
    /\ GoOn("stopSend")
    /\ UNCHANGED <<active, prefix, queueToPc, queueTunnelCmd, tipQueue,
                   timerRunning, handleMeasureLoop, measurePc, tunnelLeft,
                   adjustPc, transmitting, scanHistory, run>>
    /\ DispatcherFrame

\* Mutant: the end marker is sent without regard to the queue's length.
StopSendAlways ==
    /\ Step("stopSend")
    /\ queueToPc' = IF transmitting THEN Append(queueToPc, End) ELSE queueToPc
    /\ GoOn("stopReport")
    /\ UNCHANGED <<active, prefix, queueTunnelCmd, tipQueue, timerRunning,
                   handleMeasureLoop, measurePc, tunnelVars, adjustPc,
                   transmitting, scanHistory, run>>
    /\ DispatcherFrame

\* xQueueSend with 50 ms: given up if the queue stays full.
StopSend ==
    /\ Step("stopSend")
    /\ \/ transmitting /\ Enqueue(End)
       \/ (transmitting => ~HasRoom) /\ UNCHANGED queueToPc
    /\ GoOn("stopReport")
    /\ UNCHANGED <<active, prefix, queueTunnelCmd, tipQueue, timerRunning,
                   handleMeasureLoop, measurePc, tunnelVars, adjustPc,
                   transmitting, scanHistory, run>>
    /\ DispatcherFrame

StopReport ==
    /\ Step("stopReport")
    /\ timer_deinitialize
    /\ run' = [run EXCEPT !.busy = FALSE]
    /\ Return
    /\ UNCHANGED <<active, prefix, queueToPc, queueTunnelCmd, tipQueue,
                   handleMeasureLoop, measurePc, tunnelVars, adjustPc,
                   transmitting, scanHistory>>
    /\ DispatcherFrame

\* The steps of a command after its first.
DispatcherNext ==
    \/ MeasureQueue \/ MeasureCreate \/ TunnelSend \/ TunnelResume
    \/ StopMeasure \/ StopTunnel \/ StopSend \/ StopReport
=============================================================================
