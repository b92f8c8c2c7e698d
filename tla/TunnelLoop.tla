------------------------------ MODULE TunnelLoop ------------------------------
(***************************************************************************)
(* tasks/tunnel.cpp: the persistent tunnelLoop task on core 1.             *)
(***************************************************************************)
EXTENDS RunGlobals

TunnelFrame ==
    UNCHANGED <<position, par, loopVars, prefix, tipQueue, handleMeasureLoop,
                measurePc, adjustPc, txVars, dispatcher, bootVars,
                scanHistory, run>>

TunnelBoot ==
    /\ tunnelPc = "boot"
    /\ resetDac
    /\ tunnelPc' = "receive"
    /\ UNCHANGED <<active, queueToPc, queueTunnelCmd, timerRunning, tunnelLeft>>
    /\ TunnelFrame

TunnelReceive ==
    /\ tunnelPc = "receive" /\ queueTunnelCmd # <<>>
    /\ queueTunnelCmd' = Tail(queueTunnelCmd)
    /\ tunnelLeft' = Head(queueTunnelCmd)
    /\ resetDac
    /\ active' = [active EXCEPT !.tunnel = TRUE]
    /\ tunnelPc' = "while"
    /\ UNCHANGED <<queueToPc, timerRunning>>
    /\ TunnelFrame

TunnelWhile ==
    /\ tunnelPc = "while"
    /\ tunnelPc' = IF active.tunnel /\ tunnelLeft > 0 THEN "suspend" ELSE "end"
    /\ UNCHANGED <<dac, active, queueToPc, queueTunnelCmd, timerRunning, tunnelLeft>>
    /\ TunnelFrame

\* vTaskSuspend(NULL).
TunnelSuspend ==
    /\ tunnelPc = "suspend"
    /\ tunnelPc' = "suspended"
    /\ UNCHANGED <<dac, active, queueToPc, queueTunnelCmd, timerRunning, tunnelLeft>>
    /\ TunnelFrame

\* Mutant: one loop too few.
SendTunnelSampleShort ==
    /\ tunnelPc = "resumed"
    /\ Enqueue(TunnelSample)
    /\ tunnelLeft' = tunnelLeft - 1
    /\ active' = [active EXCEPT !.tunnel = @ /\ tunnelLeft' > 1]
    /\ tunnelPc' = "while"
    /\ UNCHANGED <<dac, queueTunnelCmd, timerRunning>>
    /\ TunnelFrame

\* One sample, within the limit or off: both are sent.
SendTunnelSample ==
    /\ tunnelPc = "resumed"
    /\ Enqueue(TunnelSample)
    /\ tunnelLeft' = tunnelLeft - 1
    /\ active' = [active EXCEPT !.tunnel = @ /\ tunnelLeft' > 0]
    /\ tunnelPc' = "while"
    /\ UNCHANGED <<dac, queueTunnelCmd, timerRunning>>
    /\ TunnelFrame

\* Mutant: the end marker is forgotten.
SkipTunnelEnd ==
    /\ tunnelPc = "end"
    /\ tunnelPc' = "drain"
    /\ UNCHANGED <<dac, active, queueToPc, queueTunnelCmd, timerRunning, tunnelLeft>>
    /\ TunnelFrame

SendTunnelEnd ==
    /\ tunnelPc = "end"
    /\ Enqueue(End)
    /\ tunnelPc' = "drain"
    /\ UNCHANGED <<dac, active, queueTunnelCmd, timerRunning, tunnelLeft>>
    /\ TunnelFrame

TunnelDrained ==
    /\ tunnelPc = "drain" /\ queueToPc = <<>>
    /\ tunnelPc' = "finish"
    /\ UNCHANGED <<dac, active, queueToPc, queueTunnelCmd, timerRunning, tunnelLeft>>
    /\ TunnelFrame

\* counter and maxLoops go out of scope here.
TunnelFinish ==
    /\ tunnelPc = "finish"
    /\ active' = [active EXCEPT !.tunnel = FALSE]
    /\ timer_deinitialize
    /\ tunnelLeft' = 0
    /\ tunnelPc' = "receive"
    /\ UNCHANGED <<dac, queueToPc, queueTunnelCmd>>
    /\ TunnelFrame

TunnelNext ==
    \/ TunnelBoot \/ TunnelReceive \/ TunnelWhile \/ TunnelSuspend
    \/ SendTunnelSample \/ SendTunnelEnd \/ TunnelDrained \/ TunnelFinish
=============================================================================
