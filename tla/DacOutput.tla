------------------------------- MODULE DacOutput -------------------------------
(***************************************************************************)
(* The way of a value to the piezos: the globals currentXDac, currentYDac  *)
(* and currentZDac, vspiDacLoop (dac_spi.cpp), which sends those that have *)
(* changed and suspends itself, and the test pattern of sinusLoop          *)
(* (tasks/sinus.cpp), which writes to the DACs directly.                   *)
(*                                                                         *)
(* vspiDacLoop (priority 3) preempts the loops of core 1 (2) where they    *)
(* resume it, and lets them go on while spi_device_transmit blocks; the    *)
(* end of a transmission preempts them between any two assignments.  So a  *)
(* loop writes one global per step, and then resumes.                      *)
(***************************************************************************)
EXTENDS PiControl, FiniteSets

CONSTANTS
    Byte,      \* number of values of a byte: 256
    GridDac,   \* DAC values of the grid positions, pairs for X and Y
    WaveSize,  \* BUFFER_SIZE of sinusLoop: 1024
    Wave       \* its sine, a function on 0 .. WaveSize - 1

ASSUME ByteAssumption == Byte \in Nat /\ Word = Byte * Byte
ASSUME GridDacAssumption == GridDac \subseteq Uint16 \X Uint16
ASSUME WaveAssumption ==
    WaveSize \in Nat \ {0} /\ Wave \in [0 .. WaveSize - 1 -> Uint16]

\* The axes, in the order vspiDacLoop serves them.
X == 1
Y == 2
Z == 3
Axis == {X, Y, Z}
Nothing == 0
Resume == Z + 1

VARIABLES
    current,   \* currentXDac, currentYDac, currentZDac
    last,      \* lastXDac, lastYDac, lastZDac of vspiDacLoop
    out,       \* what each DAC holds
    vspi,      \* vspiDacLoop: "boot", "suspended" or "sending"
    sending,   \* the axis whose value is being sent
    target,    \* the values being written to the globals
    assigning, \* the axis written next; Resume: vTaskResume is next; or Nothing
    sinusIsActive,
    handleSinusLoop, \* not NULL
    sinusPc,   \* where sinusLoop is; "none": no such task
    sinusAxis, \* the axis it serves next
    sinusIndex, buffer0, \* i and buffer[0] of sinusLoop
    writer,    \* history: who wrote to each DAC last
    late       \* history: the axes whose global has changed during a
               \* transmission of vspiDacLoop that was too far to send it

writeVars == <<current, target, assigning>>
vspiVars == <<last, out, vspi, sending, writer, late>>
sinusVars == <<sinusIsActive, handleSinusLoop, sinusPc, sinusAxis, sinusIndex, buffer0>>
dacVars == <<writeVars, vspiVars, sinusVars>>

DacInit ==
    /\ current = [a \in Axis |-> 0]
    /\ last = [a \in Axis |-> IF a = Z THEN 0 ELSE DAC_VALUE_MAX]
    /\ out = [a \in Axis |-> 0] /\ writer = [a \in Axis |-> "nobody"]
    /\ vspi = "boot" /\ sending = X /\ late = {}
    /\ target = [a \in Axis |-> 0] /\ assigning = Nothing
    /\ sinusIsActive = FALSE /\ handleSinusLoop = FALSE
    /\ sinusPc = "none" /\ sinusAxis = X /\ sinusIndex = 0 /\ buffer0 = Wave[0]

-----------------------------------------------------------------------------
(* vspiDacLoop.                                                            *)

\* Mutant: only the axis that comes first is looked at.
SendNextStops(cur, lst, from) ==
    IF from \in Axis /\ cur[from] # lst[from]
    THEN /\ vspi' = "sending" /\ sending' = from
         /\ out' = [out EXCEPT ![from] = cur[from]]
         /\ writer' = [writer EXCEPT ![from] = "vspi"]
         /\ late' = late \ {from}
    ELSE vspi' = "suspended" /\ sending' = X /\ UNCHANGED <<out, writer, late>>

\* The loop goes on at axis from: it sends the first value that differs from
\* the last one sent, or suspends itself.
SendNext(cur, lst, from) ==
    \/ \E a \in Axis :
         /\ a >= from /\ cur[a] # lst[a]
         /\ \A b \in Axis : from <= b /\ b < a => cur[b] = lst[b]
         /\ vspi' = "sending" /\ sending' = a
         /\ out' = [out EXCEPT ![a] = cur[a]]
         /\ writer' = [writer EXCEPT ![a] = "vspi"]
         /\ late' = late \ {a}
    \/ /\ \A a \in Axis : a >= from => cur[a] = lst[a]
       /\ vspi' = "suspended" /\ sending' = X
       /\ UNCHANGED <<out, writer, late>>

\* The globals are initialised by the loop itself.
VspiStart ==
    /\ vspi = "boot"
    /\ \E g \in GridDac :
         current' = [a \in Axis |-> IF a = X THEN g[1] ELSE IF a = Y THEN g[2]
                                    ELSE DAC_VALUE_MAX]
    /\ SendNext(current', last, X)
    /\ UNCHANGED <<target, assigning, last, sinusVars>>

\* The value is sent; last takes what the global holds now.
VspiSent ==
    /\ vspi = "sending"
    /\ last' = [last EXCEPT ![sending] = current[sending]]
    /\ SendNext(current, last', sending + 1)
    /\ UNCHANGED <<writeVars, sinusVars>>

-----------------------------------------------------------------------------
(* A loop writes the globals in the order of the axes.                     *)

Store(a, value) ==
    /\ current' = [current EXCEPT ![a] = value]
    /\ late' = IF vspi = "sending" /\ a <= sending /\ value # current[a]
               THEN late \cup {a} ELSE late
    /\ UNCHANGED <<last, out, vspi, sending, writer>>

\* The first assignment, to axis a.
Write(a, values) ==
    /\ target' = values /\ assigning' = a + 1
    /\ Store(a, values[a])

\* The next one.
Assign ==
    /\ assigning \in Axis
    /\ Store(assigning, target[assigning])
    /\ assigning' = assigning + 1
    /\ UNCHANGED <<target, sinusVars>>

\* vTaskResume(handleVspiLoop), which is lost unless that is suspended.
ResumeVspi ==
    /\ assigning = Resume
    /\ assigning' = Nothing
    /\ IF vspi = "suspended" THEN SendNext(current, last, X)
       ELSE UNCHANGED <<vspi, sending, out, writer, late>>
    /\ UNCHANGED <<current, target, last>>

\* resetDac: X and Y to the current grid position, Z to the middle.
resetDac == \E g \in GridDac : Write(X, [a \in Axis |->
    IF a = X THEN g[1] ELSE IF a = Y THEN g[2] ELSE DAC_VALUE_MAX \div 2])

-----------------------------------------------------------------------------
(* sinusLoop.                                                              *)

endianSwap(v) == (v % Byte) * Byte + v \div Byte

SinusTest ==
    /\ sinusPc = "test"
    /\ sinusPc' = IF sinusIsActive THEN "send" ELSE "exit"
    /\ UNCHANGED <<writeVars, vspiVars, sinusIsActive, handleSinusLoop,
                   sinusAxis, sinusIndex, buffer0>>

\* buffer[i]: the first element is no longer a sample.
Sample == IF sinusIndex = 0 THEN buffer0 ELSE Wave[sinusIndex]

\* Mutant: the byte order is changed twice.
SinusSendSwapped ==
    /\ sinusPc = "send"
    /\ out' = [out EXCEPT ![sinusAxis] = endianSwap(Sample)]
    /\ writer' = [writer EXCEPT ![sinusAxis] = "sinus"]
    /\ buffer0' = endianSwap(Sample)
    /\ sinusAxis' = IF sinusAxis = Z THEN X ELSE sinusAxis + 1
    /\ sinusPc' = IF sinusAxis = Z THEN "delay" ELSE "send"
    /\ UNCHANGED <<writeVars, last, vspi, sending, late, sinusIsActive,
                   handleSinusLoop, sinusIndex>>

\* vspiSendDac(buffer[i], buffer, ...) swaps the bytes of the value into its
\* transmit buffer, and that is buffer[0].
SinusSend ==
    /\ sinusPc = "send"
    /\ out' = [out EXCEPT ![sinusAxis] = Sample]
    /\ writer' = [writer EXCEPT ![sinusAxis] = "sinus"]
    /\ buffer0' = endianSwap(Sample)
    /\ sinusAxis' = IF sinusAxis = Z THEN X ELSE sinusAxis + 1
    /\ sinusPc' = IF sinusAxis = Z THEN "delay" ELSE "send"
    /\ UNCHANGED <<writeVars, last, vspi, sending, late, sinusIsActive,
                   handleSinusLoop, sinusIndex>>

\* vTaskDelay, then the next sample.
SinusDelay ==
    /\ sinusPc = "delay"
    /\ sinusIndex' = (sinusIndex + 1) % WaveSize
    /\ sinusPc' = "test"
    /\ UNCHANGED <<writeVars, vspiVars, sinusIsActive, handleSinusLoop,
                   sinusAxis, buffer0>>

SinusExit ==
    /\ sinusPc = "exit"
    /\ resetDac
    /\ sinusPc' = "reset"
    /\ UNCHANGED <<sinusIsActive, handleSinusLoop, sinusAxis, sinusIndex, buffer0>>

\* The end of resetDac and of the task: the handle stays behind, the locals
\* do not.
SinusGone ==
    /\ sinusPc = "reset"
    /\ ResumeVspi
    /\ sinusPc' = "none" /\ sinusIndex' = 0 /\ buffer0' = Wave[0]
    /\ UNCHANGED <<sinusIsActive, handleSinusLoop, sinusAxis>>

\* The dispatcher's SINUS command: the task of an earlier one is deleted
\* wherever it is; sinusStart creates another one unless the flag is set.
SinusCommand ==
    /\ sinusIsActive' = TRUE
    /\ handleSinusLoop' = ~sinusIsActive
    /\ sinusPc' = IF sinusIsActive THEN "none" ELSE "test"
    /\ sinusAxis' = X /\ sinusIndex' = 0 /\ buffer0' = Wave[0]
    /\ UNCHANGED <<writeVars, vspiVars>>

DacNext ==
    \/ VspiStart \/ VspiSent \/ Assign
    \/ SinusTest \/ SinusSend \/ SinusDelay \/ SinusExit \/ SinusGone

-----------------------------------------------------------------------------
DacTypeOK ==
    /\ current \in [Axis -> Uint16] /\ last \in [Axis -> Uint16]
    /\ out \in [Axis -> Uint16]
    /\ writer \in [Axis -> {"nobody", "vspi", "sinus"}]
    /\ vspi \in {"boot", "suspended", "sending"} /\ sending \in Axis
    /\ target \in [Axis -> Uint16] /\ assigning \in Nothing .. Resume
    /\ late \subseteq Axis
    /\ sinusIsActive \in BOOLEAN /\ handleSinusLoop \in BOOLEAN
    /\ sinusPc \in {"none", "test", "send", "delay", "exit", "reset"}
    /\ sinusAxis \in Axis /\ sinusIndex \in 0 .. WaveSize - 1
    /\ buffer0 \in Uint16

\* When vspiDacLoop rests and no write is under way, a DAC does not hold the
\* value of its global only in two cases (dac_spi.cpp:163 to 190).  Its global
\* has changed while vspiDacLoop was sending it, or had passed it, and has not
\* been sent since: the resume is lost and last may take the value unsent.  Or
\* another has written to the DAC, sinusLoop or nobody yet, and the global is
\* what vspiDacLoop has sent last: then also the resetDac that ends sinusLoop
\* leaves the DAC on the test pattern.
PlacedUnlessMissed ==
    vspi = "suspended" /\ assigning = Nothing =>
        \A a \in Axis : out[a] # current[a] =>
            a \in late \/ (writer[a] # "vspi" /\ current[a] = last[a])

\* At the end of each step of the test pattern but the first of a period all
\* three DACs hold its sample, although each transmission overwrites buffer[0].
SinusSteps ==
    sinusPc = "delay" /\ sinusIndex # 0 =>
        \A a \in Axis : out[a] = Wave[sinusIndex]
=============================================================================
