--------------------------- MODULE DataTransmission ---------------------------
(***************************************************************************)
(* tasks/dataTransmission.cpp: the persistent task on core 0, priority 1,  *)
(* that takes elements from queueToPc and sends them as lines.  It exists  *)
(* from the first MEASURE or TUNNEL on; the queue is empty before.         *)
(***************************************************************************)
EXTENDS RunGlobals

TransmissionFrame ==
    UNCHANGED <<gridVars, active, loopVars, prefix, queueTunnelCmd, tipQueue,
                timerRunning, handleMeasureLoop, measurePc, tunnelVars,
                adjustPc, transmitting, dispatcher, bootVars, scanHistory>>

Receive ==
    /\ DispatcherBlocked
    /\ txElement = <<>> /\ queueToPc # <<>>
    /\ txElement' = Head(queueToPc)
    /\ queueToPc' = Tail(queueToPc)
    /\ UNCHANGED run
    /\ TransmissionFrame

\* The prefix is read here, not when the element was queued.  The history
\* keeps every line but the reports that go out as FIND, of which there is
\* no limit: lines holds the points and samples with their prefix, strays
\* the prefix of any other report and how many lines came before it, final
\* the prefix of the last DONE line.
Transmit ==
    /\ DispatcherBlocked
    /\ txElement # <<>>
    /\ run' = CASE txElement = End ->
                       [run EXCEPT !.done = TRUE, !.busy = FALSE, !.final = prefix]
                [] txElement = Report /\ prefix = "FIND" -> run
                [] txElement = Report /\ prefix # "FIND" ->
                       [run EXCEPT !.strays = Append(@, <<prefix, Len(run.lines)>>)]
                [] OTHER -> [run EXCEPT !.lines = Append(@, <<prefix, txElement>>)]
    /\ txElement' = <<>>
    /\ UNCHANGED queueToPc
    /\ TransmissionFrame

TransmissionNext == Receive \/ Transmit
=============================================================================
