------------------------------ MODULE AdjustLoop ------------------------------
(***************************************************************************)
(* tasks/adjust.cpp: an adjustLoop task t on core 1, which applies TIP     *)
(* commands and reports the current once a second.  The ADJUST lines carry *)
(* no state and are left out.                                              *)
(***************************************************************************)
EXTENDS RunGlobals

AdjustFrame ==
    UNCHANGED <<position, par, active, loopVars, prefix, queueToPc,
                queueTunnelCmd, handleMeasureLoop, measurePc, tunnelVars,
                txVars, dispatcher, bootVars, scanHistory, run>>

AdjustWhile(t) ==
    /\ adjustPc[t] = "while"
    /\ adjustPc' = [adjustPc EXCEPT ![t] = IF active.adjust THEN "body" ELSE "exit"]
    /\ UNCHANGED <<dac, tipQueue, timerRunning>>
    /\ AdjustFrame

\* A TIP command, already clamped to the range of the DACs.
AdjustBody(t) ==
    /\ adjustPc[t] = "body"
    /\ IF tipQueue = <<>>
       THEN UNCHANGED <<dac, tipQueue>>
       ELSE /\ currentXDac' = Head(tipQueue)[1] /\ currentYDac' = Head(tipQueue)[2]
            /\ tipQueue' = Tail(tipQueue)
    /\ adjustPc' = [adjustPc EXCEPT ![t] = "delay"]
    /\ UNCHANGED timerRunning
    /\ AdjustFrame

\* vTaskDelay of one second.
AdjustDelay(t) ==
    /\ adjustPc[t] = "delay"
    /\ adjustPc' = [adjustPc EXCEPT ![t] = "while"]
    /\ UNCHANGED <<dac, tipQueue, timerRunning>>
    /\ AdjustFrame

AdjustExit(t) ==
    /\ adjustPc[t] = "exit"
    /\ resetDac
    /\ timer_deinitialize
    /\ adjustPc' = [adjustPc EXCEPT ![t] = "none"]
    /\ UNCHANGED tipQueue
    /\ AdjustFrame

AdjustNext(t) ==
    AdjustWhile(t) \/ AdjustBody(t) \/ AdjustDelay(t) \/ AdjustExit(t)
=============================================================================
