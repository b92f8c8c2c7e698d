------------------------------ MODULE MeasureLoop ------------------------------
(***************************************************************************)
(* tasks/measure.cpp: one measureLoop task t on core 1.  The code expects  *)
(* a single one; measureStart does not prevent a second.                   *)
(***************************************************************************)
EXTENDS RunGlobals

At(t, step) == measurePc[t] = step
GoTo(t, step) == measurePc' = [measurePc EXCEPT ![t] = step]

\* What no step of a measureLoop writes.
MeasureFrame ==
    UNCHANGED <<queueTunnelCmd, tipQueue, handleMeasureLoop, tunnelVars,
                adjustPc, txVars, dispatcher, bootVars, startedLeft, run>>

MeasureInit(t) ==
    /\ At(t, "init")
    /\ tunnelFound' = FALSE
    /\ setPrefix("FIND")
    /\ GoTo(t, "while")
    /\ UNCHANGED <<gridVars, active, isLoopExecution, queueToPc, timerRunning,
                   scan, samples>>
    /\ MeasureFrame

MeasureWhile(t) ==
    /\ At(t, "while")
    /\ GoTo(t, IF active.measure THEN "suspend" ELSE "exit")
    /\ UNCHANGED <<gridVars, active, loopVars, prefix, queueToPc, timerRunning,
                   scan, samples>>
    /\ MeasureFrame

\* vTaskSuspend(NULL).
MeasureSuspend(t) ==
    /\ At(t, "suspend")
    /\ GoTo(t, "suspended")
    /\ UNCHANGED <<gridVars, active, loopVars, prefix, queueToPc, timerRunning,
                   scan, samples>>
    /\ MeasureFrame

\* errorBlink never returns.
MeasureResumed(t) ==
    /\ At(t, "resumed")
    /\ GoTo(t, IF isLoopExecution THEN "errorBlink" ELSE "sample")
    /\ isLoopExecution' = TRUE
    /\ UNCHANGED <<gridVars, active, tunnelFound, prefix, queueToPc,
                   timerRunning, scan, samples>>
    /\ MeasureFrame

\* Mutant: the queue is cleared at every point, not only at the first.
InToleranceClears(t) ==
    /\ At(t, "sample")
    /\ tunnelFound' = TRUE /\ queueToPcClear /\ setPrefix("DATA")
    /\ GoTo(t, "point")
    /\ UNCHANGED <<gridVars, active, isLoopExecution, timerRunning, scan, samples>>
    /\ MeasureFrame

\* Mutant: the reports still queued are not cleared when the tunnel is found.
InToleranceKeepsReports(t) ==
    /\ At(t, "sample")
    /\ tunnelFound' = TRUE /\ UNCHANGED queueToPc /\ setPrefix("DATA")
    /\ GoTo(t, "point")
    /\ UNCHANGED <<gridVars, active, isLoopExecution, timerRunning, scan, samples>>
    /\ MeasureFrame

InTolerance(t) ==
    /\ At(t, "sample")
    /\ IF tunnelFound
       THEN UNCHANGED <<tunnelFound, queueToPc, prefix>>
       ELSE tunnelFound' = TRUE /\ queueToPcClear /\ setPrefix("DATA")
    /\ GoTo(t, "point")
    /\ UNCHANGED <<gridVars, active, isLoopExecution, timerRunning, scan, samples>>
    /\ MeasureFrame

\* Before the tunnel is found every 100th sample is reported, or every one
\* in simulation mode.
OffTolerance(t) ==
    /\ At(t, "sample")
    /\ \/ GoTo(t, "while") /\ isLoopExecution' = FALSE
       \/ ~tunnelFound /\ GoTo(t, "report") /\ UNCHANGED isLoopExecution
    /\ UNCHANGED <<gridVars, active, tunnelFound, prefix, queueToPc,
                   timerRunning, scan, samples>>
    /\ MeasureFrame

SendReport(t) ==
    /\ At(t, "report")
    /\ Enqueue(Report)
    /\ isLoopExecution' = FALSE
    /\ GoTo(t, "while")
    /\ UNCHANGED <<gridVars, active, tunnelFound, prefix, timerRunning,
                   scan, samples>>
    /\ MeasureFrame

SendPoint(t) ==
    /\ At(t, "point")
    /\ Enqueue(Point(currentX, currentY))
    /\ samples' = samples \cup {[x |-> currentX, y |-> currentY,
                                 xDac |-> currentXDac, yDac |-> currentYDac]}
    /\ \/ /\ MoveToNext
          /\ isLoopExecution' = FALSE /\ GoTo(t, "while") /\ UNCHANGED scan
       \/ /\ GridComplete
          /\ GoTo(t, "end") /\ scan' = "done" /\ UNCHANGED isLoopExecution
    /\ UNCHANGED <<active, tunnelFound, prefix, timerRunning>>
    /\ MeasureFrame

\* Mutant: the end marker is forgotten.
SkipEnd(t) ==
    /\ At(t, "end")
    /\ GoTo(t, "deinit")
    /\ UNCHANGED <<gridVars, active, loopVars, prefix, queueToPc, timerRunning,
                   scan, samples>>
    /\ MeasureFrame

SendEnd(t) ==
    /\ At(t, "end")
    /\ Enqueue(End)
    /\ GoTo(t, "deinit")
    /\ UNCHANGED <<gridVars, active, loopVars, prefix, timerRunning, scan, samples>>
    /\ MeasureFrame

MeasureDeinit(t) ==
    /\ At(t, "deinit")
    /\ timer_deinitialize
    /\ GoTo(t, "drain")
    /\ UNCHANGED <<gridVars, active, loopVars, prefix, queueToPc, scan, samples>>
    /\ MeasureFrame

\* The polling loop ends when it finds the queue empty.
MeasureDrained(t) ==
    /\ At(t, "drain") /\ queueToPc = <<>>
    /\ GoTo(t, "finish")
    /\ UNCHANGED <<gridVars, active, loopVars, prefix, queueToPc, timerRunning,
                   scan, samples>>
    /\ MeasureFrame

\* Mutant: the guard of the last iteration stays set.
MeasureFinishKeepsGuard(t) ==
    /\ At(t, "finish")
    /\ active' = [active EXCEPT !.measure = FALSE]
    /\ GoTo(t, "none")
    /\ UNCHANGED <<gridVars, loopVars, prefix, queueToPc, timerRunning,
                   scan, samples>>
    /\ MeasureFrame

MeasureFinish(t) ==
    /\ At(t, "finish")
    /\ active' = [active EXCEPT !.measure = FALSE]
    /\ isLoopExecution' = FALSE
    /\ GoTo(t, "none")
    /\ UNCHANGED <<gridVars, tunnelFound, prefix, queueToPc, timerRunning,
                   scan, samples>>
    /\ MeasureFrame

\* The way out after STOP.
MeasureExit(t) ==
    /\ At(t, "exit")
    /\ timer_deinitialize
    /\ isLoopExecution' = FALSE
    /\ GoTo(t, "none")
    /\ scan' = IF scan = "running" THEN "stopped" ELSE scan
    /\ UNCHANGED <<gridVars, active, tunnelFound, prefix, queueToPc, samples>>
    /\ MeasureFrame

MeasureNext(t) ==
    \/ MeasureInit(t) \/ MeasureWhile(t) \/ MeasureSuspend(t)
    \/ MeasureResumed(t) \/ InTolerance(t) \/ OffTolerance(t)
    \/ SendReport(t) \/ SendPoint(t) \/ SendEnd(t)
    \/ MeasureDeinit(t) \/ MeasureDrained(t) \/ MeasureFinish(t)
    \/ MeasureExit(t)
=============================================================================
