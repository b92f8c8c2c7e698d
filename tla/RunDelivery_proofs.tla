--------------------------- MODULE RunDelivery_proofs ---------------------------
(***************************************************************************)
(* Proofs about RunControl for a patient client: what the PC receives from *)
(* a run.                                                                  *)
(***************************************************************************)
EXTENDS RunModes_proofs

-----------------------------------------------------------------------------
(***************************************************************************)
(* The lines carry the prefix of their run.  The prefix is a global read   *)
(* when a line is sent, so the invariant says which elements may still be  *)
(* on their way while it has which value.                                  *)
(***************************************************************************)

\* Points may be on their way: after the tunnel has been found, and until
\* the next MEASURE.
PointsPass ==
    /\ run.cmd = "measure" /\ prefix = "DATA" /\ ~MeasureStarts
    /\ \A t \in MeasureTask : measurePc[t] # "init"

Expected(e) ==
    \/ e = End
    \/ e = TunnelSample /\ run.cmd = "tunnel"
    \/ e = Report /\ run.cmd = "measure"
    \/ IsPoint(e) /\ PointsPass

\* A measureLoop that has found the tunnel has set the prefix.
FoundInv ==
    \A t \in MeasureTask :
        /\ measurePc[t] \notin {"none", "init"} /\ tunnelFound => prefix = "DATA"
        /\ measurePc[t] = "point" => tunnelFound

LabelInv ==
    /\ PointsLabelled
    /\ \A i \in 1 .. Len(queueToPc) : Expected(queueToPc[i])
    /\ txElement # <<>> => Expected(txElement)
    /\ run.cmd = "tunnel" => prefix = "TUNNEL"
    /\ FoundInv

LEMMA Members ==
    ASSUME NEW S, NEW q \in Seq(S)
    PROVE  /\ \A e \in S :
                /\ Len(Append(q, e)) = Len(q) + 1
                /\ \A i \in 1 .. Len(q) + 1 :
                     Append(q, e)[i] = IF i = Len(q) + 1 THEN e ELSE q[i]
           /\ q # <<>> =>
                /\ Len(q) >= 1 /\ Head(q) = q[1] /\ Len(Tail(q)) = Len(q) - 1
                /\ \A i \in 1 .. Len(q) - 1 : Tail(q)[i] = q[i + 1]
           /\ Len(q) \in Nat
OBVIOUS

\* The ways the queue and the element in hand change.
QueueShrinks ==
    \/ UNCHANGED queueToPc \/ queueToPc' = <<>>
    \/ queueToPc # <<>> /\ queueToPc' = Tail(queueToPc)

LEMMA LabelsKept ==
    ASSUME TypesInv, LabelInv, run'.cmd = run.cmd, PointsPass => PointsPass',
           PointsLabelled',
           \/ txElement' = txElement \/ txElement' = <<>>
           \/ queueToPc # <<>> /\ txElement' = Head(queueToPc),
           \/ QueueShrinks
           \/ \E e \in Elements : Expected(e)' /\ queueToPc' = Append(queueToPc, e),
           prefix' = prefix \/ run.cmd # "tunnel", FoundInv'
    PROVE  LabelInv'
<1>1. queueToPc \in Seq(Elements)
  BY DEF TypesInv, TypeOK, GlobalsTypeOK
<1>2. \A e : Expected(e) => Expected(e)'
  BY DEF Expected
<1>3. txElement' # <<>> => Expected(txElement)'
  <2>1. CASE queueToPc # <<>> /\ txElement' = Head(queueToPc)
    BY <1>1, <1>2, <2>1, Members DEF LabelInv, Expected
  <2>2. CASE txElement' = txElement
    BY <1>2, <2>2 DEF LabelInv, Expected
  <2> QED  BY <2>1, <2>2
<1>4. (\A i \in 1 .. Len(queueToPc) : Expected(queueToPc[i]))'
  <2>1. CASE UNCHANGED queueToPc
    BY <1>2, <2>1 DEF LabelInv, Expected
  <2>2. CASE queueToPc' = <<>>
    BY <2>2
  <2>3. CASE queueToPc # <<>> /\ queueToPc' = Tail(queueToPc)
    <3>1. ASSUME NEW i \in 1 .. Len(queueToPc')
          PROVE  i + 1 \in 1 .. Len(queueToPc) /\ queueToPc'[i] = queueToPc[i + 1]
      BY <1>1, <2>3, <3>1, Members
    <3> QED  BY <1>2, <3>1 DEF LabelInv, Expected
  <2>4. ASSUME NEW e \in Elements, Expected(e)', queueToPc' = Append(queueToPc, e)
        PROVE  (\A i \in 1 .. Len(queueToPc) : Expected(queueToPc[i]))'
    <3>1. ASSUME NEW i \in 1 .. Len(queueToPc')
          PROVE  \/ i \in 1 .. Len(queueToPc) /\ queueToPc'[i] = queueToPc[i]
                 \/ queueToPc'[i] = e
      BY <1>1, <2>4, <3>1, Members
    <3> QED  BY <1>2, <2>4, <3>1 DEF LabelInv, Expected
  <2> QED  BY <2>1, <2>2, <2>3, <2>4 DEF QueueShrinks
<1> QED  BY <1>3, <1>4 DEF LabelInv

\* No line is written by a step that keeps run.lines.
LEMMA LinesKept ==
    ASSUME PointsLabelled, run'.lines = run.lines
    PROVE  PointsLabelled'
BY DEF PointsLabelled

LEMMA MeasureKeepsLabels ==
    ASSUME TypesInv, OneRunInv, LabelInv, NEW t \in MeasureTask, MeasureNext(t)
    PROVE  LabelInv'
<1>0. /\ Alive(t) /\ run.cmd = "measure" /\ ~MeasureStarts
      /\ \A u \in MeasureTask : u # t => measurePc[u] = "none"
      /\ FoundInv
      /\ currentX \in Uint16 /\ currentY \in Uint16
  <2>1. measurePc[t] # "none"
    BY DEF MeasureNext, MeasureInit, MeasureWhile, MeasureSuspend, MeasureResumed,
           InTolerance, OffTolerance, SendReport, SendPoint, SendEnd,
           MeasureDeinit, MeasureDrained, MeasureFinish, MeasureExit, At
  <2> QED
    BY <2>1
    DEF OneRunInv, OneMode, MeasureBusy, MeasureLives, Alive, LabelInv, TypesInv,
        TypeOK, GlobalsTypeOK, GridTypeOK
<1>1. ASSUME NEW s \in MeasureSteps \ {"init"}, GoTo(t, s), MeasureFrame,
             prefix' = prefix \/ prefix' = "DATA" \/ measurePc[t] = "init",
             s # "none" /\ tunnelFound' => prefix' = "DATA",
             s = "point" => tunnelFound',
             \/ QueueShrinks
             \/ \E e \in Elements : Expected(e)' /\ queueToPc' = Append(queueToPc, e)
      PROVE  LabelInv'
  <2>1. UNCHANGED <<run, txElement, dispatcher>>
    BY <1>1 DEF MeasureFrame, txVars
  <2>2. \A u \in MeasureTask : measurePc'[u] = IF u = t THEN s ELSE "none"
    BY <1>0, <1>1 DEF TypesInv, TypeOK, GlobalsTypeOK, GoTo
  <2>3. PointsPass => PointsPass'
    BY <1>0, <1>1, <2>1, <2>2 DEF PointsPass, MeasureStarts
  <2>4. FoundInv'
    BY <1>1, <2>2 DEF FoundInv
  <2>5. PointsLabelled'
    BY <2>1, LinesKept DEF LabelInv
  <2> QED  BY <1>0, <1>1, <2>1, <2>3, <2>4, <2>5, LabelsKept
<1>2. GoTo(t, "while") \/ GoTo(t, "end") \/ GoTo(t, "deinit")
        => \A u \in MeasureTask : measurePc'[u] # "init" \/ measurePc[u] = "init"
  BY <1>0 DEF TypesInv, TypeOK, GlobalsTypeOK, GoTo
<1> USE DEF At, MeasureSteps, InIteration, loopVars, FoundInv
<1>3. CASE MeasureInit(t)
  BY <1>1, <1>3 DEF MeasureInit, QueueShrinks, setPrefix
<1>4. CASE MeasureWhile(t)
  BY <1>0, <1>1, <1>4 DEF MeasureWhile, QueueShrinks
<1>5. CASE MeasureSuspend(t)
  BY <1>0, <1>1, <1>5 DEF MeasureSuspend, QueueShrinks
<1>6. CASE MeasureResumed(t)
  BY <1>0, <1>1, <1>6 DEF MeasureResumed, QueueShrinks
<1>7. CASE InTolerance(t)
  BY <1>0, <1>1, <1>7 DEF InTolerance, QueueShrinks, queueToPcClear, setPrefix
<1>8. CASE OffTolerance(t)
  BY <1>0, <1>1, <1>8 DEF OffTolerance, QueueShrinks
<1>9. CASE SendReport(t)
  <2>1. Expected(Report)' /\ UNCHANGED run /\ queueToPc' = Append(queueToPc, Report)
    BY <1>0, <1>9 DEF SendReport, MeasureFrame, Expected, Enqueue
  <2>2. \E e \in Elements : Expected(e)' /\ queueToPc' = Append(queueToPc, e)
    BY <2>1, ElementsAreTyped
  <2> QED  BY <1>0, <1>1, <1>9, <2>2 DEF SendReport
<1>10. CASE SendPoint(t)
  <2> DEFINE e == Point(currentX, currentY)
  <2>1. UNCHANGED <<run, dispatcher, prefix>> /\ queueToPc' = Append(queueToPc, e)
    BY <1>10 DEF SendPoint, MeasureFrame, Enqueue
  <2>2. PointsPass'
    BY <1>0, <1>2, <1>10, <2>1 DEF SendPoint, PointsPass, MeasureStarts
  <2>3. IsPoint(e) /\ e \in Elements
    BY <1>0, ElementsAreTyped DEF IsPoint, Point
  <2>4. \E f \in Elements : Expected(f)' /\ queueToPc' = Append(queueToPc, f)
    BY <2>1, <2>2, <2>3 DEF Expected
  <2> QED  BY <1>0, <1>1, <1>10, <2>4 DEF SendPoint
<1>11. CASE SendEnd(t)
  <2>1. Expected(End)' /\ queueToPc' = Append(queueToPc, End)
    BY <1>11 DEF SendEnd, Expected, Enqueue
  <2>2. \E e \in Elements : Expected(e)' /\ queueToPc' = Append(queueToPc, e)
    BY <2>1, ElementsAreTyped
  <2> QED  BY <1>0, <1>1, <1>11, <2>2 DEF SendEnd
<1>12. CASE MeasureDeinit(t)
  BY <1>0, <1>1, <1>12 DEF MeasureDeinit, QueueShrinks
<1>13. CASE MeasureDrained(t)
  BY <1>0, <1>1, <1>13 DEF MeasureDrained, QueueShrinks
<1>14. CASE MeasureFinish(t)
  BY <1>0, <1>1, <1>14 DEF MeasureFinish, QueueShrinks
<1>15. CASE MeasureExit(t)
  BY <1>0, <1>1, <1>15 DEF MeasureExit, QueueShrinks
<1> QED
  BY <1>3, <1>4, <1>5, <1>6, <1>7, <1>8, <1>9, <1>10, <1>11, <1>12, <1>13,
     <1>14, <1>15 DEF MeasureNext

LEMMA TransmissionKeepsLabels ==
    ASSUME TypesInv, LabelInv, TransmissionNext
    PROVE  LabelInv'
<1>0. /\ UNCHANGED <<prefix, dispatcher, measurePc, tunnelFound>>
  BY DEF TransmissionNext, Receive, Transmit, TransmissionFrame, loopVars
<1>1. run \in RunType /\ FoundInv /\ PointsLabelled
  BY DEF TypesInv, LabelInv
<1>2. FoundInv'
  BY <1>0, <1>1 DEF FoundInv
<1>3. CASE Receive
  <2>1. UNCHANGED run /\ (PointsPass => PointsPass')
    BY <1>0, <1>3 DEF Receive, PointsPass, MeasureStarts
  <2> QED
    BY <1>0, <1>1, <1>2, <1>3, <2>1, LinesKept, LabelsKept DEF Receive, QueueShrinks
<1>4. CASE Transmit
  <2>1. txElement # <<>> /\ txElement' = <<>> /\ UNCHANGED queueToPc
    BY <1>4 DEF Transmit
  <2>2. run'.cmd = run.cmd
    BY <1>1, <1>4 DEF Transmit, RunType
  <2>3. PointsPass => PointsPass'
    BY <1>0, <2>2 DEF PointsPass, MeasureStarts
  <2>4. PointsLabelled'
    <3>1. CASE run'.lines = run.lines
      BY <1>1, <3>1, LinesKept
    <3>2. CASE /\ run'.lines = Append(run.lines, <<prefix, txElement>>)
               /\ txElement # End /\ txElement # Report
      <4>1. run.lines \in Seq(Prefixes \X Elements)
            /\ <<prefix, txElement>> \in Prefixes \X Elements
        BY <1>1, <2>1 DEF RunType, TypesInv, TypeOK, GlobalsTypeOK
      <4>2. ASSUME NEW i \in 1 .. Len(run'.lines)
            PROVE  \/ i \in 1 .. Len(run.lines) /\ run'.lines[i] = run.lines[i]
                   \/ run'.lines[i] = <<prefix, txElement>>
        BY <3>2, <4>1, <4>2, Members
      <4>3. prefix = IF IsPoint(txElement) THEN "DATA" ELSE "TUNNEL"
        <5>1. Expected(txElement)
          BY <2>1 DEF LabelInv
        <5>2. ~IsPoint(TunnelSample)
          BY DEF IsPoint, TunnelSample
        <5> QED  BY <3>2, <5>1, <5>2 DEF Expected, PointsPass, LabelInv
      <4>4. \A i \in 1 .. Len(run.lines) :
              run.lines[i][1] = IF IsPoint(run.lines[i][2]) THEN "DATA" ELSE "TUNNEL"
        BY <1>1, <4>1 DEF PointsLabelled
      <4>5. ASSUME NEW i \in 1 .. Len(run'.lines)
            PROVE  run'.lines[i][1]
                     = IF IsPoint(run'.lines[i][2]) THEN "DATA" ELSE "TUNNEL"
        BY <4>2, <4>3, <4>4
      <4>6. DOMAIN run'.lines = 1 .. Len(run'.lines)
        BY <3>2, <4>1
      <4> QED  BY <4>5, <4>6 DEF PointsLabelled
    <3> QED  BY <1>1, <1>4, <3>1, <3>2 DEF Transmit, RunType
  <2> QED  BY <1>0, <1>2, <2>1, <2>2, <2>3, <2>4, LabelsKept DEF QueueShrinks
<1> QED  BY <1>3, <1>4 DEF TransmissionNext

\* A step of another task, which neither queues points nor sets the prefix.
LEMMA OthersKeepLabels ==
    ASSUME TypesInv, LabelInv,
           UNCHANGED <<prefix, tunnelFound, txElement>>,
           run'.cmd = run.cmd, run'.lines = run.lines,
           MeasureStarts' => MeasureStarts,
           \A t \in MeasureTask : measurePc'[t] = measurePc[t]
              \/ (measurePc[t] = "suspended" /\ measurePc'[t] = "resumed"),
           \/ QueueShrinks
           \/ queueToPc' = Append(queueToPc, End)
           \/ queueToPc' = Append(queueToPc, TunnelSample) /\ run.cmd = "tunnel"
    PROVE  LabelInv'
<1>1. FoundInv'
  BY DEF LabelInv, FoundInv
<1>2. PointsPass => PointsPass'
  BY DEF PointsPass
<1>3. \/ QueueShrinks
      \/ \E e \in Elements : Expected(e)' /\ queueToPc' = Append(queueToPc, e)
  BY ElementsAreTyped DEF Expected
<1> QED  BY <1>1, <1>2, <1>3, LinesKept, LabelsKept DEF LabelInv

\* The first step of MEASURE, TUNNEL and PARAMETER finds nothing on its way.
LEMMA StartKeepsLabels ==
    ASSUME LabelInv, Quiescent, UNCHANGED <<txElement, measurePc>>,
           queueToPc' = <<>>, run'.lines = <<>>,
           run'.cmd = "tunnel" => prefix' = "TUNNEL"
    PROVE  LabelInv'
<1>1. txElement' = <<>> /\ \A t \in MeasureTask : measurePc'[t] = "none"
  BY DEF Quiescent
<1>2. PointsLabelled'
  BY DEF PointsLabelled
<1> QED  BY <1>1, <1>2 DEF LabelInv, FoundInv

LEMMA CommandsKeepLabels ==
    ASSUME Patient, TypesInv, LabelInv, ClientNext
    PROVE  LabelInv'
<1>0. run \in RunType /\ (MayStart => Quiescent /\ queueToPc = <<>>)
  BY DEF TypesInv, MayStart, Quiescent
<1> USE DEF loopVars, txVars, DispatcherFrame
<1>1. CASE MayStart /\ MeasureCommand
  BY <1>0, <1>1, StartKeepsLabels DEF MeasureCommand, RunOf, NoRun
<1>2. ASSUME MayStart, NEW n \in LoopCounts, TunnelCommand(n) PROVE LabelInv'
  BY <1>0, <1>2, StartKeepsLabels
  DEF TunnelCommand, RunOf, NoRun, setPrefix, queueToPcClear
<1>3. CASE MayStart /\ AdjustCommand
  BY <1>3, OthersKeepLabels DEF AdjustCommand, QueueShrinks, MeasureStarts
<1>4. ASSUME NEW d \in TipDacs, TipCommand(d) PROVE LabelInv'
  BY <1>4, OthersKeepLabels DEF TipCommand, QueueShrinks, MeasureStarts
<1>5. ASSUME MayStart, NEW p \in ParameterSets, ParameterCommand(p) PROVE LabelInv'
  BY <1>0, <1>5, StartKeepsLabels DEF ParameterCommand, NoRun
<1>6. CASE StopCommand
  <2>1. run'.cmd = run.cmd /\ run'.lines = run.lines /\ ~MeasureStarts'
    BY <1>0, <1>6 DEF StopCommand, RunType, GoOn, MeasureStarts
  <2> QED  BY <1>6, <2>1, OthersKeepLabels DEF StopCommand, QueueShrinks
<1> QED  BY <1>1, <1>2, <1>3, <1>4, <1>5, <1>6 DEF ClientNext

LEMMA DispatcherKeepsLabels ==
    ASSUME TypesInv, OneRunInv, LabelInv, DispatcherNext
    PROVE  LabelInv'
<1>0. run \in RunType /\ measurePc \in [MeasureTask -> MeasureSteps]
  BY DEF TypesInv, TypeOK, GlobalsTypeOK
<1> USE DEF loopVars, txVars, DispatcherFrame, Step
<1>1. CASE MeasureQueue \/ MeasureCreate
  <2>1. MeasureStarts /\ run.cmd = "measure" /\ \A t \in MeasureTask : measurePc[t] = "none"
    BY <1>1
    DEF MeasureQueue, MeasureCreate, MeasureStarts, OneRunInv, OneMode,
        MeasureBusy, MeasureLives, Alive
  <2>2. ~PointsPass /\ PointsLabelled
    BY <2>1 DEF PointsPass, LabelInv
  <2>3. UNCHANGED <<run, txElement, tunnelFound>>
        /\ (UNCHANGED queueToPc \/ queueToPc' = <<>>)
    BY <1>1 DEF MeasureQueue, MeasureCreate, queueToPcClear
  <2>4. \A t \in MeasureTask : measurePc'[t] \in {"none", "init"}
    BY <1>0, <1>1, <2>1 DEF MeasureQueue, MeasureCreate
  <2> QED
    BY <2>1, <2>2, <2>3, <2>4, LinesKept, LabelsKept DEF FoundInv, QueueShrinks
<1>2. CASE TunnelSend
  <2>1. ~MeasureStarts'
    BY <1>2 DEF TunnelSend, GoOn, Return, MeasureStarts
  <2> QED  BY <1>2, <2>1, OthersKeepLabels DEF TunnelSend, QueueShrinks
<1>3. CASE TunnelResume
  <2>1. ~MeasureStarts'
    BY <1>3 DEF TunnelResume, Return, MeasureStarts
  <2> QED  BY <1>3, <2>1, OthersKeepLabels DEF TunnelResume, QueueShrinks
<1>4. CASE StopMeasure
  <2>1. ~MeasureStarts'
    BY <1>4 DEF StopMeasure, GoOn, MeasureStarts
  <2>2. \A t \in MeasureTask : measurePc'[t] = measurePc[t]
              \/ (measurePc[t] = "suspended" /\ measurePc'[t] = "resumed")
    BY <1>0, <1>4 DEF StopMeasure, ResumeMeasure
  <2> QED  BY <1>4, <2>1, <2>2, OthersKeepLabels DEF StopMeasure, QueueShrinks
<1>5. CASE StopTunnel
  <2>1. ~MeasureStarts'
    BY <1>5 DEF StopTunnel, GoOn, MeasureStarts
  <2> QED  BY <1>5, <2>1, OthersKeepLabels DEF StopTunnel, QueueShrinks
<1>6. CASE StopSend
  <2>1. ~MeasureStarts' /\ (UNCHANGED queueToPc \/ queueToPc' = Append(queueToPc, End))
    BY <1>6 DEF StopSend, GoOn, MeasureStarts, Enqueue
  <2> QED  BY <1>6, <2>1, OthersKeepLabels DEF StopSend, QueueShrinks
<1>7. CASE StopReport
  <2>1. ~MeasureStarts' /\ run'.cmd = run.cmd /\ run'.lines = run.lines
    BY <1>0, <1>7 DEF StopReport, Return, MeasureStarts, RunType
  <2> QED  BY <1>7, <2>1, OthersKeepLabels DEF StopReport, QueueShrinks
<1> QED
  BY <1>1, <1>2, <1>3, <1>4, <1>5, <1>6, <1>7 DEF DispatcherNext

LEMMA LabelStep ==
    Patient /\ TypesInv /\ OneRunInv /\ LabelInv /\ [Next]_vars => LabelInv'
<1> SUFFICES ASSUME Patient, TypesInv, OneRunInv, LabelInv, [Next]_vars
             PROVE  LabelInv'
  OBVIOUS
<1>0. measurePc \in [MeasureTask -> MeasureSteps]
  BY DEF TypesInv, TypeOK, GlobalsTypeOK
<1> USE DEF loopVars, txVars, QueueShrinks
<1>1. CASE BootVspi \/ BootParameters \/ UNCHANGED vars
  BY <1>1, OthersKeepLabels DEF BootVspi, BootParameters, vars, controlVars, MeasureStarts
<1>2. CASE Tick
  <2>1. \A t \in MeasureTask : measurePc'[t] = measurePc[t]
              \/ (measurePc[t] = "suspended" /\ measurePc'[t] = "resumed")
    BY <1>0, <1>2 DEF Tick, ResumeMeasure
  <2> QED  BY <1>2, <2>1, OthersKeepLabels DEF Tick, MeasureStarts
<1>3. CASE TunnelNext
  <2>1. TunnelFrame
    BY <1>3
    DEF TunnelNext, TunnelBoot, TunnelReceive, TunnelWhile, TunnelSuspend,
        SendTunnelSample, SendTunnelEnd, TunnelDrained, TunnelFinish
  <2>2. SendTunnelSample => run.cmd = "tunnel"
    BY DEF SendTunnelSample, OneRunInv, OneMode, TunnelBusy
  <2>3. \/ UNCHANGED queueToPc
        \/ queueToPc' = Append(queueToPc, End)
        \/ queueToPc' = Append(queueToPc, TunnelSample) /\ run.cmd = "tunnel"
    BY <1>3, <2>2
    DEF TunnelNext, TunnelBoot, TunnelReceive, TunnelWhile, TunnelSuspend,
        SendTunnelSample, SendTunnelEnd, TunnelDrained, TunnelFinish, Enqueue
  <2> QED  BY <2>1, <2>3, OthersKeepLabels DEF TunnelFrame, MeasureStarts
<1>4. ASSUME NEW t \in AdjustTask, AdjustNext(t) PROVE LabelInv'
  BY <1>4, OthersKeepLabels
  DEF AdjustNext, AdjustWhile, AdjustBody, AdjustDelay, AdjustExit, AdjustFrame,
      MeasureStarts
<1> QED
  BY <1>1, <1>2, <1>3, <1>4, CommandsKeepLabels, DispatcherKeepsLabels,
     MeasureKeepsLabels, TransmissionKeepsLabels DEF Next

-----------------------------------------------------------------------------
(***************************************************************************)
(* Reports and DONE lines.  A report waits in queueToPc only before the    *)
(* tunnel is found, an end marker only when points may pass or after STOP; *)
(* nothing but reports with their own prefix is sent before the tunnel is  *)
(* found, so a report held at that moment is the first line of its run     *)
(* with another prefix.                                                    *)
(***************************************************************************)

\* No MEASURE is under way that has not yet set its prefix.
NotStarting == ~MeasureStarts /\ \A t \in MeasureTask : measurePc[t] # "init"
Fresh == run.lines = <<>> /\ run.strays = <<>>

\* A DONE line sent now, or after more lines, has a prefix that fits.
Concludes == run.cmd = "measure" => run.stopped \/ PointsPass

Waits(e) ==
    /\ e = Report => NotStarting /\ prefix = "FIND"
    /\ e = End => Concludes

NotFoundInv ==
    \A t \in MeasureTask :
        /\ measurePc[t] \notin {"none", "init"} /\ ~tunnelFound => prefix = "FIND"
        /\ measurePc[t] = "report" => ~tunnelFound
        /\ measurePc[t] = "end" => tunnelFound

StrayInv ==
    /\ ReportsLabelled /\ DoneLabelled /\ NotFoundInv
    /\ \A i \in 1 .. Len(queueToPc) : Waits(queueToPc[i])
    /\ txElement = Report => NotStarting /\ Fresh
    /\ txElement = End => Concludes
    /\ run.cmd = "measure" =>
          /\ ~NotStarting \/ prefix = "FIND" => Fresh
          /\ ~Step("measureQueue") => prefix \in {"FIND", "DATA"}

LEMMA Distinct ==
    /\ Report # End /\ TunnelSample # Report /\ TunnelSample # End
    /\ Report # <<>> /\ End # <<>>
    /\ \A x, y : Point(x, y) # Report /\ Point(x, y) # End
<1>1. Report[1] = "report" /\ End[1] = "end" /\ TunnelSample[1] = "tunnel"
      /\ \A x, y : Point(x, y)[1] = "point"
  BY DEF Report, End, TunnelSample, Point
<1>2. Len(Report) = 1 /\ Len(End) = 1
  BY DEF Report, End
<1> QED  BY <1>1, <1>2

\* A step that sends no line, as far as the queue and the prefix go.
LEMMA StraysKept ==
    ASSUME TypesInv, LabelInv, StrayInv,
           UNCHANGED <<run.cmd, run.lines, run.strays, run.done, run.final>>,
           run.stopped => run'.stopped,
           PointsPass => PointsPass', NotStarting => NotStarting',
           NotStarting /\ NotStarting' => prefix' = prefix \/ prefix' = "DATA",
           NotFoundInv',
           ~Step("measureQueue")' /\ run.cmd = "measure" => prefix' \in {"FIND", "DATA"},
           \/ txElement' = txElement
           \/ queueToPc # <<>> /\ txElement' = Head(queueToPc),
           \/ queueToPc' = <<>>
           \/ QueueShrinks /\ (prefix' = prefix \/ ~NotStarting)
           \/ \E e \in Elements :
                Waits(e)' /\ queueToPc' = Append(queueToPc, e) /\ prefix' = prefix
    PROVE  StrayInv'
<1>1. queueToPc \in Seq(Elements)
  BY DEF TypesInv, TypeOK, GlobalsTypeOK
<1>2. Concludes => Concludes'
  BY DEF Concludes
<1>3. \A e : Waits(e) /\ (prefix' = prefix \/ ~NotStarting) => Waits(e)'
  BY <1>2 DEF Waits
<1>4. Fresh => Fresh'
  BY DEF Fresh
<1>5. ReportsLabelled' /\ DoneLabelled'
  BY DEF StrayInv, ReportsLabelled, DoneLabelled
<1>6. (txElement = Report => NotStarting /\ Fresh)' /\ (txElement = End => Concludes)'
  <2>1. CASE txElement' = txElement
    BY <1>2, <1>4, <2>1 DEF StrayInv, Report, End
  <2>2. CASE queueToPc # <<>> /\ txElement' = Head(queueToPc)
    <3>1. Waits(txElement') /\ Expected(txElement')
      BY <1>1, <2>2, Members DEF StrayInv, LabelInv
    <3>2. txElement' = Report => NotStarting /\ Fresh
      <4>1. txElement' = Report => run.cmd = "measure"
        BY <3>1, Distinct DEF Expected, IsPoint, Report
      <4> QED  BY <3>1, <4>1 DEF Waits, StrayInv
    <3>3. txElement' = End => Concludes
      BY <3>1 DEF Waits
    <3> QED  BY <1>2, <1>4, <3>2, <3>3 DEF Report, End
  <2> QED  BY <2>1, <2>2
<1>7. (\A i \in 1 .. Len(queueToPc) : Waits(queueToPc[i]))'
  <2>1. CASE queueToPc' = <<>>
    BY <2>1
  <2>2. CASE UNCHANGED queueToPc /\ (prefix' = prefix \/ ~NotStarting)
    BY <1>3, <2>2 DEF StrayInv
  <2>3. CASE /\ queueToPc # <<>> /\ queueToPc' = Tail(queueToPc)
             /\ prefix' = prefix \/ ~NotStarting
    <3>1. ASSUME NEW i \in 1 .. Len(queueToPc')
          PROVE  i + 1 \in 1 .. Len(queueToPc) /\ queueToPc'[i] = queueToPc[i + 1]
      BY <1>1, <2>3, <3>1, Members
    <3> QED  BY <1>3, <2>3, <3>1 DEF StrayInv
  <2>4. ASSUME NEW e \in Elements, Waits(e)', prefix' = prefix,
               queueToPc' = Append(queueToPc, e)
        PROVE  (\A i \in 1 .. Len(queueToPc) : Waits(queueToPc[i]))'
    <3>1. ASSUME NEW i \in 1 .. Len(queueToPc')
          PROVE  \/ i \in 1 .. Len(queueToPc) /\ queueToPc'[i] = queueToPc[i]
                 \/ queueToPc'[i] = e
      BY <1>1, <2>4, <3>1, Members
    <3> QED  BY <1>3, <2>4, <3>1 DEF StrayInv
  <2> QED  BY <2>1, <2>2, <2>3, <2>4 DEF QueueShrinks
<1>8. run'.cmd = "measure" /\ (~NotStarting' \/ prefix' = "FIND") => Fresh'
  BY <1>4 DEF StrayInv
<1> QED  BY <1>5, <1>6, <1>7, <1>8 DEF StrayInv, Step

LEMMA MeasureKeepsStrays ==
    ASSUME TypesInv, OneRunInv, LabelInv, StrayInv,
           NEW t \in MeasureTask, MeasureNext(t)
    PROVE  StrayInv'
<1>0. /\ Alive(t) /\ run.cmd = "measure" /\ ~MeasureStarts
      /\ \A u \in MeasureTask : u # t => measurePc[u] = "none"
      /\ FoundInv /\ NotFoundInv
      /\ currentX \in Uint16 /\ currentY \in Uint16
      /\ prefix \in {"FIND", "DATA"}
  <2>1. measurePc[t] # "none"
    BY DEF MeasureNext, MeasureInit, MeasureWhile, MeasureSuspend, MeasureResumed,
           InTolerance, OffTolerance, SendReport, SendPoint, SendEnd,
           MeasureDeinit, MeasureDrained, MeasureFinish, MeasureExit, At
  <2>2. run.cmd = "measure" /\ ~MeasureStarts
    BY <2>1 DEF OneRunInv, OneMode, MeasureBusy, MeasureLives, Alive
  <2> QED
    BY <2>1, <2>2
    DEF OneRunInv, OneMode, Alive, LabelInv, StrayInv, MeasureStarts, Step, TypesInv,
        TypeOK, GlobalsTypeOK, GridTypeOK
<1>1. ASSUME NEW s \in MeasureSteps \ {"init"}, GoTo(t, s), MeasureFrame,
             \/ prefix' = prefix
             \/ prefix' = "DATA" /\ queueToPc' = <<>>
             \/ prefix' = "FIND" /\ measurePc[t] = "init",
             s # "none" /\ ~tunnelFound' => prefix' = "FIND",
             s = "report" => ~tunnelFound', s = "end" => tunnelFound',
             \/ QueueShrinks
             \/ /\ prefix' = prefix
                /\ \E e \in Elements : Waits(e)' /\ queueToPc' = Append(queueToPc, e)
      PROVE  StrayInv'
  <2>1. UNCHANGED <<run, txElement, dispatcher>>
    BY <1>1 DEF MeasureFrame, txVars
  <2>2. \A u \in MeasureTask : measurePc'[u] = IF u = t THEN s ELSE "none"
    BY <1>0, <1>1 DEF TypesInv, TypeOK, GlobalsTypeOK, GoTo
  <2>3. PointsPass => PointsPass'
    BY <1>0, <1>1, <2>1, <2>2 DEF PointsPass, MeasureStarts
  <2>4. NotFoundInv'
    BY <1>1, <2>2 DEF NotFoundInv
  <2>5. NotStarting' /\ (measurePc[t] = "init" => ~NotStarting)
    BY <1>0, <2>1, <2>2 DEF NotStarting, MeasureStarts
  <2>6. prefix' \in {"FIND", "DATA"} /\ (NotStarting => prefix' = prefix \/ prefix' = "DATA")
    BY <1>0, <1>1, <2>5
  <2>7. \/ queueToPc' = <<>>
        \/ QueueShrinks /\ (prefix' = prefix \/ ~NotStarting)
        \/ \E e \in Elements :
             Waits(e)' /\ queueToPc' = Append(queueToPc, e) /\ prefix' = prefix
    BY <1>1, <2>5
  <2> QED  BY <2>1, <2>3, <2>4, <2>5, <2>6, <2>7, StraysKept
<1> USE DEF At, MeasureSteps, InIteration, loopVars, FoundInv, NotFoundInv
<1>3. CASE MeasureInit(t)
  BY <1>1, <1>3 DEF MeasureInit, QueueShrinks, setPrefix
<1>4. CASE MeasureWhile(t)
  BY <1>0, <1>1, <1>4 DEF MeasureWhile, QueueShrinks
<1>5. CASE MeasureSuspend(t)
  BY <1>0, <1>1, <1>5 DEF MeasureSuspend, QueueShrinks
<1>6. CASE MeasureResumed(t)
  BY <1>0, <1>1, <1>6 DEF MeasureResumed, QueueShrinks
<1>7. CASE InTolerance(t)
  BY <1>0, <1>1, <1>7 DEF InTolerance, QueueShrinks, queueToPcClear, setPrefix
<1>8. CASE OffTolerance(t)
  BY <1>0, <1>1, <1>8 DEF OffTolerance, QueueShrinks
<1>9. CASE SendReport(t)
  <2>1. /\ UNCHANGED <<run, dispatcher, prefix, tunnelFound>> /\ GoTo(t, "while")
        /\ queueToPc' = Append(queueToPc, Report) /\ MeasureFrame
    BY <1>9 DEF SendReport, MeasureFrame, Enqueue
  <2>2. prefix = "FIND"
    BY <1>0, <1>9 DEF SendReport
  <2>3. \A u \in MeasureTask : measurePc'[u] # "init"
    BY <1>0, <1>9, <2>1 DEF TypesInv, TypeOK, GlobalsTypeOK, GoTo, SendReport
  <2>4. Waits(Report)'
    BY <1>0, <2>1, <2>2, <2>3, Distinct DEF Waits, NotStarting, MeasureStarts, Report, End
  <2> QED  BY <1>0, <1>1, <2>1, <2>2, <2>4, ElementsAreTyped
<1>10. CASE SendPoint(t)
  <2> DEFINE e == Point(currentX, currentY)
  <2>1. queueToPc' = Append(queueToPc, e) /\ UNCHANGED prefix /\ e \in Elements
    BY <1>0, <1>10, ElementsAreTyped DEF SendPoint, Enqueue
  <2>2. e # Report /\ e # End
    BY Distinct
  <2>3. \E f \in Elements : Waits(f)' /\ queueToPc' = Append(queueToPc, f)
    BY <2>1, <2>2 DEF Waits, Report, End
  <2> QED  BY <1>0, <1>1, <1>10, <2>1, <2>3 DEF SendPoint
<1>11. CASE SendEnd(t)
  <2>1. /\ UNCHANGED <<run, dispatcher, prefix, tunnelFound>> /\ GoTo(t, "deinit")
        /\ queueToPc' = Append(queueToPc, End) /\ MeasureFrame
    BY <1>11 DEF SendEnd, MeasureFrame, Enqueue
  <2>2. prefix = "DATA" /\ tunnelFound
    BY <1>0, <1>11 DEF SendEnd
  <2>3. \A u \in MeasureTask : measurePc'[u] # "init"
    BY <1>0, <1>11, <2>1 DEF TypesInv, TypeOK, GlobalsTypeOK, GoTo, SendEnd
  <2>4. PointsPass'
    BY <1>0, <2>1, <2>2, <2>3 DEF PointsPass, MeasureStarts
  <2>5. Waits(End)'
    BY <2>4, Distinct DEF Waits, Concludes, Report, End
  <2> QED  BY <1>0, <1>1, <2>1, <2>2, <2>5, ElementsAreTyped
<1>12. CASE MeasureDeinit(t)
  BY <1>0, <1>1, <1>12 DEF MeasureDeinit, QueueShrinks
<1>13. CASE MeasureDrained(t)
  BY <1>0, <1>1, <1>13 DEF MeasureDrained, QueueShrinks
<1>14. CASE MeasureFinish(t)
  BY <1>0, <1>1, <1>14 DEF MeasureFinish, QueueShrinks
<1>15. CASE MeasureExit(t)
  BY <1>0, <1>1, <1>15 DEF MeasureExit, QueueShrinks
<1> QED
  BY <1>3, <1>4, <1>5, <1>6, <1>7, <1>8, <1>9, <1>10, <1>11, <1>12, <1>13,
     <1>14, <1>15 DEF MeasureNext

LEMMA TransmissionKeepsStrays ==
    ASSUME TypesInv, LabelInv, StrayInv, TransmissionNext
    PROVE  StrayInv'
<1>0. UNCHANGED <<prefix, dispatcher, measurePc, tunnelFound>> /\ ~MeasureStarts
  BY DEF TransmissionNext, Receive, Transmit, TransmissionFrame, loopVars,
         DispatcherBlocked, MeasureStarts
<1>1. run \in RunType
  BY DEF TypesInv
<1>2. NotFoundInv' /\ (NotStarting' <=> NotStarting)
  BY <1>0 DEF StrayInv, NotFoundInv, NotStarting, MeasureStarts
<1>3. run.cmd = "measure" => prefix \in {"FIND", "DATA"}
  BY <1>0 DEF StrayInv, MeasureStarts, Step
<1>4. CASE Receive
  <2>1. UNCHANGED run /\ (PointsPass => PointsPass')
    BY <1>0, <1>4 DEF Receive, PointsPass, MeasureStarts
  <2> QED
    BY <1>0, <1>2, <1>3, <1>4, <2>1, StraysKept DEF Receive, QueueShrinks
<1>5. CASE Transmit
  <2>1. txElement # <<>> /\ txElement' = <<>> /\ UNCHANGED queueToPc
    BY <1>5 DEF Transmit
  <2>2. run'.cmd = run.cmd /\ run'.stopped = run.stopped
    BY <1>1, <1>5 DEF Transmit, RunType
  <2>3. Concludes => Concludes'
    BY <1>0, <2>2 DEF Concludes, PointsPass, MeasureStarts
  <2>4. (\A i \in 1 .. Len(queueToPc) : Waits(queueToPc[i]))'
    BY <1>0, <1>2, <2>1, <2>3 DEF StrayInv, Waits, Report, End
  <2>5. txElement' # Report /\ txElement' # End
    BY <2>1, Distinct DEF Report, End
  <2>6. ASSUME ReportsLabelled', DoneLabelled',
               \/ Fresh' \/ run.cmd # "measure"
               \/ NotStarting /\ prefix # "FIND"
        PROVE  StrayInv'
    BY <1>0, <1>2, <1>3, <2>2, <2>4, <2>5, <2>6 DEF StrayInv, Step
  <2>7. CASE txElement = End
    <3>1. run' = [run EXCEPT !.done = TRUE, !.busy = FALSE, !.final = prefix]
      BY <1>5, <2>7, Distinct DEF Transmit
    <3>2. /\ run'.final = prefix /\ run'.lines = run.lines
          /\ run'.strays = run.strays
      BY <1>1, <3>1 DEF RunType
    <3>3. DoneLabelled'
      <4>1. run.cmd = "measure" => prefix = "DATA" \/ run.stopped
        BY <2>7 DEF StrayInv, Concludes, PointsPass
      <4> QED  BY <1>3, <2>2, <3>2, <4>1 DEF DoneLabelled, LabelInv
    <3>4. ReportsLabelled'
      BY <3>2 DEF StrayInv, ReportsLabelled
    <3>5. \/ Fresh' \/ run.cmd # "measure"
          \/ NotStarting /\ prefix # "FIND"
      BY <3>2 DEF StrayInv, Fresh
    <3> QED  BY <2>6, <3>3, <3>4, <3>5
  <2>8. CASE txElement = Report /\ prefix = "FIND"
    <3>1. UNCHANGED run
      BY <1>5, <2>8, Distinct DEF Transmit
    <3>2. ReportsLabelled' /\ DoneLabelled'
      BY <3>1 DEF StrayInv, ReportsLabelled, DoneLabelled
    <3>3. Fresh' \/ run.cmd # "measure"
      BY <2>8, <3>1 DEF StrayInv, Fresh
    <3> QED  BY <2>6, <3>2, <3>3
  <2>9. CASE txElement = Report /\ prefix # "FIND"
    <3>1. NotStarting /\ Fresh /\ run.cmd = "measure" /\ prefix = "DATA"
      <4>1. ~IsPoint(Report)
        BY DEF IsPoint, Report
      <4>2. run.cmd = "measure"
        BY <2>1, <2>9, <4>1, Distinct DEF LabelInv, Expected
      <4> QED  BY <1>3, <2>9, <4>2 DEF StrayInv
    <3>2. run' = [run EXCEPT !.strays = Append(@, <<prefix, Len(run.lines)>>)]
      BY <1>5, <2>9, Distinct DEF Transmit
    <3>3. run'.strays = << <<"DATA", 0>> >>
      <4>1. run'.strays = Append(run.strays, <<prefix, Len(run.lines)>>)
        BY <1>1, <3>2 DEF RunType
      <4> QED  BY <3>1, <4>1 DEF Fresh
    <3>4. run'.done = run.done /\ run'.final = run.final
      BY <1>1, <3>2 DEF RunType
    <3> QED
      BY <2>2, <2>6, <2>9, <3>1, <3>3, <3>4 DEF StrayInv, ReportsLabelled, DoneLabelled
  <2>10. CASE txElement # End /\ txElement # Report
    <3>1. run' = [run EXCEPT !.lines = Append(@, <<prefix, txElement>>)]
      BY <1>5, <2>10 DEF Transmit
    <3>2. UNCHANGED <<run.strays, run.done, run.final>>
      BY <1>1, <3>1 DEF RunType
    <3>3. run.cmd = "measure" => NotStarting /\ prefix # "FIND"
      BY <2>1, <2>10 DEF LabelInv, Expected, PointsPass, NotStarting
    <3> QED
      BY <2>2, <2>6, <3>2, <3>3 DEF StrayInv, ReportsLabelled, DoneLabelled
  <2> QED  BY <2>7, <2>8, <2>9, <2>10
<1> QED  BY <1>4, <1>5 DEF TransmissionNext

\* A step of another task, which neither sets the prefix nor sends a line.
LEMMA OthersKeepStrays ==
    ASSUME TypesInv, LabelInv, StrayInv,
           UNCHANGED <<prefix, tunnelFound, txElement>>,
           UNCHANGED <<run.cmd, run.lines, run.strays, run.done, run.final>>,
           run.stopped => run'.stopped,
           ~MeasureStarts', Step("measureQueue") => Step("measureQueue")',
           \A t \in MeasureTask : measurePc'[t] = measurePc[t]
              \/ (measurePc[t] = "suspended" /\ measurePc'[t] = "resumed"),
           \/ QueueShrinks
           \/ queueToPc' = Append(queueToPc, End) /\ (run.cmd = "measure" => run.stopped)
           \/ queueToPc' = Append(queueToPc, TunnelSample)
    PROVE  StrayInv'
<1>1. NotFoundInv'
  BY DEF StrayInv, NotFoundInv
<1>2. (PointsPass => PointsPass') /\ (NotStarting => NotStarting')
  BY DEF PointsPass, NotStarting
<1>3. \/ QueueShrinks
      \/ \E e \in Elements : Waits(e)' /\ queueToPc' = Append(queueToPc, e)
  <2>1. CASE queueToPc' = Append(queueToPc, End) /\ (run.cmd = "measure" => run.stopped)
    <3>1. Waits(End)'
      BY <2>1, Distinct DEF Waits, Concludes, Report, End
    <3> QED  BY <2>1, <3>1, ElementsAreTyped
  <2>2. CASE queueToPc' = Append(queueToPc, TunnelSample)
    <3>1. Waits(TunnelSample)'
      BY Distinct DEF Waits, Report, End, TunnelSample
    <3> QED  BY <2>2, <3>1, ElementsAreTyped
  <2> QED  BY <2>1, <2>2
<1>4. ~Step("measureQueue")' /\ run.cmd = "measure" => prefix' \in {"FIND", "DATA"}
  BY DEF StrayInv
<1> QED  BY <1>1, <1>2, <1>3, <1>4, StraysKept

\* The first step of MEASURE, TUNNEL and PARAMETER starts the history anew.
LEMMA StartKeepsStrays ==
    ASSUME Quiescent, UNCHANGED <<txElement, measurePc>>, queueToPc' = <<>>,
           run'.lines = <<>>, run'.strays = <<>>, ~run'.done,
           run'.cmd = "measure" => Step("measureQueue")'
    PROVE  StrayInv'
<1>1. txElement' = <<>> /\ \A t \in MeasureTask : measurePc'[t] = "none"
  BY DEF Quiescent
<1>2. txElement' # Report /\ txElement' # End
  BY <1>1, Distinct DEF Report, End
<1>3. ReportsLabelled' /\ DoneLabelled' /\ NotFoundInv' /\ Fresh'
  BY <1>1 DEF ReportsLabelled, DoneLabelled, NotFoundInv, Fresh
<1> QED  BY <1>2, <1>3 DEF StrayInv, Step, Report, End

LEMMA CommandsKeepStrays ==
    ASSUME Patient, TypesInv, LabelInv, StrayInv, ClientNext
    PROVE  StrayInv'
<1>0. run \in RunType /\ (MayStart => Quiescent /\ queueToPc = <<>>)
  BY DEF TypesInv, MayStart, Quiescent
<1> USE DEF loopVars, txVars, DispatcherFrame, Step
<1>1. CASE MayStart /\ MeasureCommand
  BY <1>0, <1>1, StartKeepsStrays DEF MeasureCommand, RunOf, NoRun, GoOn
<1>2. ASSUME MayStart, NEW n \in LoopCounts, TunnelCommand(n) PROVE StrayInv'
  BY <1>0, <1>2, StartKeepsStrays
  DEF TunnelCommand, RunOf, NoRun, setPrefix, queueToPcClear
<1>3. CASE MayStart /\ AdjustCommand
  BY <1>3, OthersKeepStrays DEF AdjustCommand, QueueShrinks, MeasureStarts, Idle
<1>4. ASSUME NEW d \in TipDacs, TipCommand(d) PROVE StrayInv'
  BY <1>4, OthersKeepStrays DEF TipCommand, QueueShrinks, MeasureStarts, Idle
<1>5. ASSUME MayStart, NEW p \in ParameterSets, ParameterCommand(p) PROVE StrayInv'
  BY <1>0, <1>5, StartKeepsStrays DEF ParameterCommand, NoRun
<1>6. CASE StopCommand
  <2>1. /\ UNCHANGED <<run.cmd, run.lines, run.strays, run.done, run.final>>
        /\ run'.stopped /\ ~MeasureStarts' /\ ~Step("measureQueue")
    BY <1>0, <1>6 DEF StopCommand, RunType, GoOn, MeasureStarts, Idle
  <2> QED  BY <1>6, <2>1, OthersKeepStrays DEF StopCommand, QueueShrinks
<1> QED  BY <1>1, <1>2, <1>3, <1>4, <1>5, <1>6 DEF ClientNext

LEMMA DispatcherKeepsStrays ==
    ASSUME TypesInv, OneRunInv, LabelInv, StrayInv, DispatcherNext
    PROVE  StrayInv'
<1>0. run \in RunType /\ measurePc \in [MeasureTask -> MeasureSteps]
  BY DEF TypesInv, TypeOK, GlobalsTypeOK
<1> USE DEF loopVars, txVars, DispatcherFrame, Step
<1>1. CASE MeasureQueue \/ MeasureCreate
  <2>1. /\ MeasureStarts /\ run.cmd = "measure" /\ ~NotStarting /\ ~PointsPass
        /\ \A t \in MeasureTask : measurePc[t] = "none"
    BY <1>1
    DEF MeasureQueue, MeasureCreate, MeasureStarts, OneRunInv, OneMode,
        MeasureBusy, MeasureLives, Alive, NotStarting, PointsPass
  <2>2. UNCHANGED <<run, txElement, tunnelFound>>
        /\ (queueToPc' = <<>> \/ UNCHANGED queueToPc)
    BY <1>1 DEF MeasureQueue, MeasureCreate, queueToPcClear
  <2>3. \A t \in MeasureTask : measurePc'[t] \in {"none", "init"}
    BY <1>0, <1>1, <2>1 DEF MeasureQueue, MeasureCreate
  <2>4. prefix' \in {"FIND", "DATA"}
    BY <1>1, <2>1 DEF MeasureQueue, MeasureCreate, StrayInv, setPrefix
  <2> QED
    BY <2>1, <2>2, <2>3, <2>4, StraysKept DEF NotFoundInv, QueueShrinks
<1>2. CASE TunnelSend
  <2>1. ~MeasureStarts' /\ ~Step("measureQueue")
    BY <1>2 DEF TunnelSend, GoOn, Return, MeasureStarts
  <2> QED  BY <1>2, <2>1, OthersKeepStrays DEF TunnelSend, QueueShrinks
<1>3. CASE TunnelResume
  <2>1. ~MeasureStarts' /\ ~Step("measureQueue")
    BY <1>3 DEF TunnelResume, Return, MeasureStarts
  <2> QED  BY <1>3, <2>1, OthersKeepStrays DEF TunnelResume, QueueShrinks
<1>4. CASE StopMeasure
  <2>1. ~MeasureStarts' /\ ~Step("measureQueue")
    BY <1>4 DEF StopMeasure, GoOn, MeasureStarts
  <2>2. \A t \in MeasureTask : measurePc'[t] = measurePc[t]
              \/ (measurePc[t] = "suspended" /\ measurePc'[t] = "resumed")
    BY <1>0, <1>4 DEF StopMeasure, ResumeMeasure
  <2> QED  BY <1>4, <2>1, <2>2, OthersKeepStrays DEF StopMeasure, QueueShrinks
<1>5. CASE StopTunnel
  <2>1. ~MeasureStarts' /\ ~Step("measureQueue")
    BY <1>5 DEF StopTunnel, GoOn, MeasureStarts
  <2> QED  BY <1>5, <2>1, OthersKeepStrays DEF StopTunnel, QueueShrinks
<1>6. CASE StopSend
  <2>1. /\ ~MeasureStarts' /\ ~Step("measureQueue") /\ run.stopped
        /\ UNCHANGED queueToPc \/ queueToPc' = Append(queueToPc, End)
    BY <1>6 DEF StopSend, GoOn, MeasureStarts, Enqueue, OneRunInv, StopInv, Stopping
  <2> QED  BY <1>6, <2>1, OthersKeepStrays DEF StopSend, QueueShrinks
<1>7. CASE StopReport
  <2>1. /\ ~MeasureStarts' /\ ~Step("measureQueue") /\ run'.stopped = run.stopped
        /\ UNCHANGED <<run.cmd, run.lines, run.strays, run.done, run.final>>
    BY <1>0, <1>7 DEF StopReport, Return, MeasureStarts, RunType
  <2> QED  BY <1>7, <2>1, OthersKeepStrays DEF StopReport, QueueShrinks
<1> QED
  BY <1>1, <1>2, <1>3, <1>4, <1>5, <1>6, <1>7 DEF DispatcherNext

LEMMA StrayStep ==
    Patient /\ TypesInv /\ OneRunInv /\ LabelInv /\ StrayInv /\ [Next]_vars => StrayInv'
<1> SUFFICES ASSUME Patient, TypesInv, OneRunInv, LabelInv, StrayInv, [Next]_vars
             PROVE  StrayInv'
  OBVIOUS
<1>0. measurePc \in [MeasureTask -> MeasureSteps]
  BY DEF TypesInv, TypeOK, GlobalsTypeOK
<1> USE DEF loopVars, txVars, QueueShrinks
<1>1. CASE MeasureStarts /\ ~DispatcherNext /\ ~ClientNext
           /\ ~(\E t \in MeasureTask : MeasureNext(t)) /\ ~TransmissionNext
  <2>1. UNCHANGED <<run, prefix, txElement, dispatcher, tunnelFound>>
    BY <1>1
    DEF Next, BootVspi, BootParameters, vars, controlVars, Tick,
        TunnelNext, TunnelBoot, TunnelReceive, TunnelWhile, TunnelSuspend,
        SendTunnelSample, SendTunnelEnd, TunnelDrained, TunnelFinish, TunnelFrame,
        AdjustNext, AdjustWhile, AdjustBody, AdjustDelay, AdjustExit, AdjustFrame
  <2>2. UNCHANGED <<queueToPc, measurePc>>
    BY <1>1
    DEF Next, BootVspi, BootParameters, vars, controlVars, Tick, ResumeMeasure,
        TunnelNext, TunnelBoot, TunnelReceive, TunnelWhile, TunnelSuspend,
        SendTunnelSample, SendTunnelEnd, TunnelDrained, TunnelFinish, TunnelFrame,
        AdjustNext, AdjustWhile, AdjustBody, AdjustDelay, AdjustExit, AdjustFrame,
        OneRunInv, OneMode, MeasureBusy, MeasureLives, Alive, TunnelBusy
  <2> QED
    BY <2>1, <2>2
    DEF StrayInv, ReportsLabelled, DoneLabelled, NotFoundInv, NotStarting, Fresh,
        Concludes, PointsPass, Waits, MeasureStarts, Step, Report, End
<1>2. CASE ~MeasureStarts /\ (BootVspi \/ BootParameters \/ UNCHANGED vars)
  BY <1>2, OthersKeepStrays
  DEF BootVspi, BootParameters, vars, controlVars, MeasureStarts, Step
<1>3. CASE ~MeasureStarts /\ Tick
  <2>1. \A t \in MeasureTask : measurePc'[t] = measurePc[t]
              \/ (measurePc[t] = "suspended" /\ measurePc'[t] = "resumed")
    BY <1>0, <1>3 DEF Tick, ResumeMeasure
  <2> QED  BY <1>3, <2>1, OthersKeepStrays DEF Tick, MeasureStarts, Step
<1>4. CASE ~MeasureStarts /\ TunnelNext
  <2>1. TunnelFrame
    BY <1>4
    DEF TunnelNext, TunnelBoot, TunnelReceive, TunnelWhile, TunnelSuspend,
        SendTunnelSample, SendTunnelEnd, TunnelDrained, TunnelFinish
  <2>2. SendTunnelEnd => run.cmd = "tunnel"
    BY DEF SendTunnelEnd, OneRunInv, OneMode, TunnelBusy
  <2>3. \/ UNCHANGED queueToPc
        \/ queueToPc' = Append(queueToPc, End) /\ run.cmd = "tunnel"
        \/ queueToPc' = Append(queueToPc, TunnelSample)
    BY <1>4, <2>2
    DEF TunnelNext, TunnelBoot, TunnelReceive, TunnelWhile, TunnelSuspend,
        SendTunnelSample, SendTunnelEnd, TunnelDrained, TunnelFinish, Enqueue
  <2> QED  BY <1>4, <2>1, <2>3, OthersKeepStrays DEF TunnelFrame, MeasureStarts, Step
<1>5. ASSUME ~MeasureStarts, NEW t \in AdjustTask, AdjustNext(t) PROVE StrayInv'
  BY <1>5, OthersKeepStrays
  DEF AdjustNext, AdjustWhile, AdjustBody, AdjustDelay, AdjustExit, AdjustFrame,
      MeasureStarts, Step
<1> QED
  BY <1>1, <1>2, <1>3, <1>4, <1>5, CommandsKeepStrays, DispatcherKeepsStrays,
     MeasureKeepsStrays, TransmissionKeepsStrays DEF Next

\* With a patient client every line of a run can be told from its prefix,
\* although the prefix is a global that other tasks overwrite and that is
\* read only when the line is sent.  Of the reports only the one held by
\* dataTransmissionLoop when measureLoop finds the tunnel is sent as DATA,
\* and no point has been sent before it.
THEOREM LinesCarryTheirPrefix ==
    ASSUME Patient
    PROVE  Spec => []LinesLabelled
<1>1. Init => LabelInv /\ StrayInv
  <2> SUFFICES ASSUME Init PROVE LabelInv /\ StrayInv
    OBVIOUS
  <2>1. /\ run.lines = <<>> /\ run.strays = <<>> /\ ~run.done /\ run.cmd = "none"
        /\ queueToPc = <<>> /\ txElement = <<>>
        /\ \A t \in MeasureTask : measurePc[t] = "none"
    BY DEF Init, NoRun
  <2>2. PointsLabelled /\ ReportsLabelled /\ DoneLabelled
    BY <2>1 DEF PointsLabelled, ReportsLabelled, DoneLabelled
  <2>3. txElement # Report /\ txElement # End
    BY <2>1, Distinct
  <2> QED  BY <2>1, <2>2, <2>3 DEF LabelInv, FoundInv, StrayInv, NotFoundInv
<1>2. LabelInv /\ StrayInv => LinesLabelled
  BY DEF LabelInv, StrayInv, LinesLabelled
<1> QED  BY <1>1, <1>2, LabelStep, StrayStep, OneRunAlways, PTL DEF Spec

-----------------------------------------------------------------------------
(***************************************************************************)
(* TUNNEL,n delivers n samples.  The samples sent, held, queued and still  *)
(* to be taken add up to n, and the end marker is the last element.        *)
(***************************************************************************)

\* The command has not yet been taken up by tunnelLoop.
Pending == Step("tunnelSend") \/ queueTunnelCmd # <<>>
Sampling == tunnelPc \in {"while", "suspend", "suspended", "resumed", "end"}
\* Number of elements that dataTransmissionLoop holds.
Held == IF txElement = <<>> THEN 0 ELSE 1

PendingInv ==
    /\ run.lines = <<>> /\ queueToPc = <<>> /\ txElement = <<>> /\ ~run.done
    /\ Step("tunnelSend") => dispatcher[2] = run.loops
    /\ queueTunnelCmd # <<>> => Head(queueTunnelCmd) = run.loops

SamplingInv ==
    /\ ~run.done
    /\ tunnelLeft >= 0 /\ (tunnelPc = "end" => tunnelLeft = 0)
    /\ \A i \in 1 .. Len(queueToPc) : queueToPc[i] = TunnelSample
    /\ txElement \in {<<>>, TunnelSample}
    /\ Len(run.lines) + Held + Len(queueToPc) + tunnelLeft = run.loops

\* The end marker is queued, held or sent.
EndedInv ==
    \/ /\ queueToPc # <<>> /\ ~run.done
       /\ \A i \in 1 .. Len(queueToPc) :
            queueToPc[i] = IF i = Len(queueToPc) THEN End ELSE TunnelSample
       /\ txElement \in {<<>>, TunnelSample}
       /\ Len(run.lines) + Held + Len(queueToPc) = run.loops + 1
    \/ /\ queueToPc = <<>> /\ txElement = End /\ ~run.done
       /\ Len(run.lines) = run.loops
    \/ /\ queueToPc = <<>> /\ txElement = <<>> /\ run.done
       /\ Len(run.lines) = run.loops

CountInv ==
    run.cmd = "tunnel" /\ ~run.stopped =>
        /\ Pending => PendingInv
        /\ Sampling => SamplingInv
        /\ ~Pending /\ ~Sampling => EndedInv

LEMMA CountTyped ==
    ASSUME TypesInv
    PROVE  /\ run \in RunType /\ run.lines \in Seq(Prefixes \X Elements)
           /\ queueToPc \in Seq(Elements)
           /\ queueTunnelCmd \in Seq(LoopCounts)
           /\ active \in [{"measure", "tunnel", "adjust"} -> BOOLEAN]
BY DEF TypesInv, TypeOK, GlobalsTypeOK, RunType

\* The terms of the sum.
LEMMA CountNumbers ==
    ASSUME TypesInv
    PROVE  /\ Len(run.lines) \in Nat /\ Len(queueToPc) \in Nat
           /\ tunnelLeft \in Int /\ run.loops \in Nat /\ Held \in Nat
<1>1. run.loops \in LoopCounts \cup {0}
  BY DEF TypesInv, RunType
<1>2. run.loops \in Nat
  <2>1. CASE run.loops \in LoopCounts
    BY <2>1, InputAssumption
  <2>2. CASE run.loops = 0
    BY <2>2
  <2> QED  BY <1>1, <2>1, <2>2
<1>3. Len(run.lines) \in Nat /\ Len(queueToPc) \in Nat
  BY CountTyped
<1>4. tunnelLeft \in Int
  BY DEF TypesInv, TypeOK, GlobalsTypeOK
<1>5. Held \in Nat
  BY DEF Held
<1> QED  BY <1>2, <1>3, <1>4, <1>5

LEMMA CountUntouched ==
    ASSUME CountInv,
           UNCHANGED <<queueToPc, txElement, queueTunnelCmd, tunnelLeft, run>>,
           tunnelPc' = tunnelPc \/ (tunnelPc = "suspended" /\ tunnelPc' = "resumed"),
           Step("tunnelSend")' <=> Step("tunnelSend"),
           Step("tunnelSend") => UNCHANGED dispatcher
    PROVE  CountInv'
BY DEF CountInv, Pending, Sampling, PendingInv, SamplingInv, EndedInv, Held, Step

LEMMA TunnelKeepsCount ==
    ASSUME TypesInv, OneRunInv, OneRunInv', CountInv, TunnelNext
    PROVE  CountInv'
<1> SUFFICES ASSUME run.cmd = "tunnel", ~run.stopped
             PROVE  /\ Pending' => PendingInv'
                    /\ Sampling' => SamplingInv'
                    /\ ~Pending' /\ ~Sampling' => EndedInv'
  <2>1. UNCHANGED run
    BY DEF TunnelNext, TunnelBoot, TunnelReceive, TunnelWhile, TunnelSuspend,
           SendTunnelSample, SendTunnelEnd, TunnelDrained, TunnelFinish, TunnelFrame
  <2> QED  BY <2>1 DEF CountInv
<1>0. /\ Pending => PendingInv
      /\ Sampling => SamplingInv
      /\ ~Pending /\ ~Sampling => EndedInv
  BY DEF CountInv
<1>1. /\ tunnelPc \in {"while", "suspend", "suspended", "resumed", "end",
                       "drain", "finish"}
           => ~Pending
      /\ tunnelPc' \in {"while", "suspend", "suspended", "resumed", "end",
                        "drain", "finish"}
           => ~Pending'
  BY DEF Pending, OneRunInv, HandedOver
<1>2. TunnelFrame => UNCHANGED <<run, txElement, dispatcher, Held>>
  BY DEF TunnelFrame, txVars, Held
<1>3. HandedOver /\ TunnelOwns
  BY DEF OneRunInv, OwnedInv
<1>4. CASE TunnelBoot
  <2>1. Pending /\ Pending' /\ ~Sampling'
    BY <1>3, <1>4 DEF TunnelBoot, HandedOver, Pending, Sampling
  <2> QED  BY <1>0, <1>2, <1>4, <2>1 DEF TunnelBoot, PendingInv, Step
<1>5. CASE TunnelReceive
  <2>1. PendingInv /\ queueTunnelCmd # <<>> /\ tunnelLeft' = Head(queueTunnelCmd)
        /\ UNCHANGED <<queueToPc, run, txElement>> /\ tunnelPc' = "while"
    BY <1>0, <1>2, <1>5 DEF TunnelReceive, Pending
  <2>2. tunnelLeft' = run.loops /\ run.loops \in Nat /\ Held' = 0
    BY <2>1, CountNumbers DEF PendingInv, Held
  <2>3. Len(run.lines) = 0 /\ Len(queueToPc) = 0 /\ ~run.done
    BY <2>1 DEF PendingInv
  <2>4. SamplingInv'
    BY <2>1, <2>2, <2>3 DEF SamplingInv, PendingInv
  <2> QED  BY <1>1, <2>1, <2>4 DEF Sampling
<1>6. CASE TunnelWhile
  <2>1. SamplingInv /\ tunnelPc' \in {"suspend", "end"}
        /\ UNCHANGED <<queueToPc, tunnelLeft, run, txElement, Held>>
    BY <1>0, <1>2, <1>6 DEF TunnelWhile, Sampling
  <2>2. tunnelPc' = "end" => tunnelLeft = 0
    <3>1. tunnelPc' = "end" => ~(tunnelLeft > 0)
      BY <1>3, <1>6 DEF TunnelWhile, TunnelOwns
    <3> QED  BY <2>1, <3>1, CountNumbers DEF SamplingInv
  <2> QED  BY <1>1, <2>1, <2>2 DEF SamplingInv, Sampling
<1>7. CASE TunnelSuspend
  BY <1>0, <1>1, <1>2, <1>7 DEF TunnelSuspend, SamplingInv, Sampling
<1>8. CASE SendTunnelSample
  <2>1. SamplingInv /\ tunnelPc' = "while" /\ tunnelLeft > 0
        /\ queueToPc' = Append(queueToPc, TunnelSample)
        /\ tunnelLeft' = tunnelLeft - 1 /\ UNCHANGED <<run, txElement, Held>>
    BY <1>0, <1>2, <1>3, <1>8 DEF SendTunnelSample, Sampling, HandedOver, Enqueue
  <2>2. /\ Len(queueToPc') = Len(queueToPc) + 1
        /\ \A i \in 1 .. Len(queueToPc) + 1 :
             queueToPc'[i] = IF i = Len(queueToPc) + 1 THEN TunnelSample ELSE queueToPc[i]
    BY <2>1, CountTyped, ElementsAreTyped, Members
  <2>3. \A i \in 1 .. Len(queueToPc') : queueToPc'[i] = TunnelSample
    BY <2>1, <2>2, CountNumbers DEF SamplingInv
  <2>4. Len(run.lines) + Held + Len(queueToPc') + tunnelLeft' = run.loops
    <3>1. Len(run.lines) + Held + Len(queueToPc) + tunnelLeft = run.loops
      BY <2>1 DEF SamplingInv
    <3>2. Len(queueToPc') = Len(queueToPc) + 1 /\ tunnelLeft' = tunnelLeft - 1
      BY <2>1, <2>2
    <3> QED  BY <3>1, <3>2, CountNumbers
  <2>5. tunnelLeft' >= 0
    BY <2>1, CountNumbers
  <2> QED  BY <1>1, <2>1, <2>3, <2>4, <2>5 DEF SamplingInv, Sampling
<1>9. CASE SendTunnelEnd
  <2>1. SamplingInv /\ tunnelPc' = "drain" /\ tunnelLeft = 0
        /\ queueToPc' = Append(queueToPc, End) /\ UNCHANGED <<run, txElement, Held>>
    BY <1>0, <1>2, <1>9 DEF SendTunnelEnd, SamplingInv, Sampling, Enqueue
  <2>2. /\ Len(queueToPc') = Len(queueToPc) + 1
        /\ \A i \in 1 .. Len(queueToPc) + 1 :
             queueToPc'[i] = IF i = Len(queueToPc) + 1 THEN End ELSE queueToPc[i]
    BY <2>1, CountTyped, ElementsAreTyped, Members
  <2>3. \A i \in 1 .. Len(queueToPc') :
          queueToPc'[i] = IF i = Len(queueToPc') THEN End ELSE TunnelSample
    BY <2>1, <2>2, CountNumbers DEF SamplingInv
  <2>4. Len(run.lines) + Held + Len(queueToPc') = run.loops + 1
    <3>1. Len(run.lines) + Held + Len(queueToPc) + tunnelLeft = run.loops
      BY <2>1 DEF SamplingInv
    <3> QED  BY <2>1, <2>2, <3>1, CountNumbers
  <2>5. queueToPc' # <<>>
    BY <2>2, CountNumbers
  <2>6. EndedInv'
    BY <2>1, <2>3, <2>4, <2>5 DEF EndedInv, SamplingInv
  <2> QED  BY <1>1, <2>1, <2>6 DEF Sampling
<1>10. CASE TunnelDrained
  BY <1>0, <1>1, <1>2, <1>10 DEF TunnelDrained, EndedInv, Sampling
<1>11. CASE TunnelFinish
  <2>1. EndedInv /\ UNCHANGED <<queueToPc, run, txElement, Held>>
    BY <1>0, <1>1, <1>2, <1>11 DEF TunnelFinish, Sampling
  <2>2. ~Pending' /\ ~Sampling'
    BY <1>1, <1>2, <1>11 DEF TunnelFinish, Sampling, Pending, Step
  <2> QED  BY <2>1, <2>2 DEF EndedInv
<1> QED
  BY <1>4, <1>5, <1>6, <1>7, <1>8, <1>9, <1>10, <1>11 DEF TunnelNext

LEMMA TransmissionKeepsCount ==
    ASSUME TypesInv, CountInv, TransmissionNext
    PROVE  CountInv'
<1>1. /\ UNCHANGED <<dispatcher, queueTunnelCmd, tunnelPc, tunnelLeft>>
  BY DEF TransmissionNext, Receive, Transmit, TransmissionFrame, tunnelVars
<1>2. /\ run'.cmd = run.cmd /\ run'.stopped = run.stopped /\ run'.loops = run.loops
  BY CountTyped DEF TransmissionNext, Receive, Transmit, RunType
<1> SUFFICES ASSUME run.cmd = "tunnel", ~run.stopped
             PROVE  /\ Pending' => PendingInv'
                    /\ Sampling' => SamplingInv'
                    /\ ~Pending' /\ ~Sampling' => EndedInv'
  BY <1>2 DEF CountInv
<1>3. (Pending' <=> Pending) /\ (Sampling' <=> Sampling)
  BY <1>1 DEF Pending, Sampling, Step
<1>4. ~Pending
  BY DEF CountInv, PendingInv, TransmissionNext, Receive, Transmit
<1>5. SamplingInv \/ EndedInv
  BY <1>4 DEF CountInv
<1>6. CASE Receive
  <2>1. /\ txElement = <<>> /\ queueToPc # <<>> /\ UNCHANGED run
        /\ txElement' = queueToPc[1] /\ Len(queueToPc) >= 1
        /\ Len(queueToPc') = Len(queueToPc) - 1
        /\ \A i \in 1 .. Len(queueToPc) - 1 : queueToPc'[i] = queueToPc[i + 1]
        /\ queueToPc' \in Seq(Elements)
    BY <1>6, CountTyped, Members DEF Receive
  <2>2. Held = 0 /\ TunnelSample # <<>> /\ End # <<>> /\ TunnelSample # End
    BY <2>1 DEF Held, TunnelSample, End
  <2>3. SamplingInv => SamplingInv'
    <3> SUFFICES ASSUME SamplingInv PROVE SamplingInv'
      OBVIOUS
    <3>1. txElement' = TunnelSample /\ Held' = 1
      BY <2>1, <2>2, CountNumbers DEF SamplingInv, Held
    <3>2. Len(run.lines) + 1 + Len(queueToPc') + tunnelLeft = run.loops
      BY <2>1, <2>2, CountNumbers DEF SamplingInv
    <3>3. \A i \in 1 .. Len(queueToPc') : queueToPc'[i] = TunnelSample
      BY <2>1, CountNumbers DEF SamplingInv
    <3> QED  BY <1>1, <2>1, <3>1, <3>2, <3>3 DEF SamplingInv
  <2>4. EndedInv => EndedInv'
    <3> SUFFICES ASSUME EndedInv PROVE EndedInv'
      OBVIOUS
    <3>1. /\ ~run.done /\ Len(run.lines) + Len(queueToPc) = run.loops + 1
          /\ \A i \in 1 .. Len(queueToPc) :
               queueToPc[i] = IF i = Len(queueToPc) THEN End ELSE TunnelSample
      BY <2>1, <2>2, CountNumbers DEF EndedInv
    <3>2. CASE Len(queueToPc) = 1
      <4>1. queueToPc' = <<>> /\ txElement' = End /\ Len(run.lines) = run.loops
        BY <2>1, <3>1, <3>2, CountNumbers
      <4> QED  BY <2>1, <3>1, <4>1 DEF EndedInv
    <3>3. CASE Len(queueToPc) > 1
      <4>1. txElement' = TunnelSample /\ Held' = 1
        BY <2>1, <2>2, <3>1, <3>3, CountTyped DEF Held
      <4>2. Len(run.lines) + 1 + Len(queueToPc') = run.loops + 1
        BY <2>1, <3>1, CountNumbers
      <4>3. \A i \in 1 .. Len(queueToPc') :
              queueToPc'[i] = IF i = Len(queueToPc') THEN End ELSE TunnelSample
        BY <2>1, <3>1, CountNumbers
      <4>4. queueToPc' # <<>>
        BY <2>1, <3>3, CountNumbers
      <4> QED  BY <2>1, <3>1, <4>1, <4>2, <4>3, <4>4 DEF EndedInv
    <3> QED  BY <2>1, <3>2, <3>3, CountNumbers
  <2> QED  BY <1>3, <1>4, <1>5, <2>3, <2>4 DEF CountInv
<1>7. CASE Transmit
  <2>1. txElement # <<>> /\ txElement' = <<>> /\ UNCHANGED queueToPc
        /\ Held = 1 /\ Held' = 0
    BY <1>7 DEF Transmit, Held
  <2>2. TunnelSample # End /\ TunnelSample # Report
    BY DEF TunnelSample, End, Report
  <2>3. ASSUME txElement = TunnelSample
        PROVE  /\ Len(run'.lines) = Len(run.lines) + 1 /\ run'.done = run.done
    <3>1. run'.lines = Append(run.lines, <<prefix, txElement>>) /\ run'.done = run.done
      BY <1>7, <2>2, <2>3, CountTyped DEF Transmit, RunType
    <3> QED  BY <3>1, CountTyped, CountNumbers
  <2>4. SamplingInv => SamplingInv'
    <3> SUFFICES ASSUME SamplingInv PROVE SamplingInv'
      OBVIOUS
    <3>1. txElement = TunnelSample
      BY <2>1 DEF SamplingInv
    <3>2. Len(run'.lines) + Held' + Len(queueToPc) + tunnelLeft = run.loops
      BY <2>1, <2>3, <3>1, CountNumbers DEF SamplingInv
    <3> QED  BY <1>1, <1>2, <2>1, <2>3, <3>1, <3>2 DEF SamplingInv
  <2>5. EndedInv => EndedInv'
    <3>1. CASE queueToPc = <<>> /\ txElement = End /\ ~run.done
               /\ Len(run.lines) = run.loops
      <4>1. End # Report /\ run' = [run EXCEPT !.done = TRUE, !.busy = FALSE, !.final = prefix]
        BY <1>7, <3>1 DEF Transmit, End, Report
      <4>2. run'.done /\ run'.lines = run.lines
        BY <4>1, CountTyped DEF RunType
      <4> QED  BY <1>2, <2>1, <3>1, <4>2 DEF EndedInv
    <3>2. CASE /\ queueToPc # <<>> /\ ~run.done
               /\ \A i \in 1 .. Len(queueToPc) :
                    queueToPc[i] = IF i = Len(queueToPc) THEN End ELSE TunnelSample
               /\ txElement = TunnelSample
               /\ Len(run.lines) + Held + Len(queueToPc) = run.loops + 1
      <4>1. Len(run'.lines) + Held' + Len(queueToPc) = run.loops + 1
        BY <2>1, <2>3, <3>2, CountNumbers
      <4> QED  BY <1>2, <2>1, <2>3, <3>2, <4>1 DEF EndedInv
    <3> QED  BY <2>1, <3>1, <3>2 DEF EndedInv
  <2> QED  BY <1>3, <1>4, <1>5, <2>4, <2>5 DEF CountInv
<1> QED  BY <1>6, <1>7 DEF TransmissionNext

LEMMA CommandsKeepCount ==
    ASSUME Patient, TypesInv, CountInv, ClientNext
    PROVE  CountInv'
<1>0. run \in RunType
  BY DEF TypesInv
<1>1. CASE MayStart /\ MeasureCommand
  <2>1. run'.cmd = "measure"
    BY <1>1 DEF MeasureCommand, RunOf, NoRun
  <2> QED  BY <2>1 DEF CountInv
<1>2. ASSUME MayStart, NEW n \in LoopCounts, TunnelCommand(n) PROVE CountInv'
  <2>1. Quiescent /\ UNCHANGED <<tunnelPc, queueTunnelCmd, txElement>>
    BY <1>2 DEF MayStart, TunnelCommand, tunnelVars, DispatcherFrame
  <2>2. /\ queueTunnelCmd' = <<>> /\ tunnelPc' \in {"none", "receive"}
        /\ txElement' = <<>>
    BY <2>1 DEF Quiescent
  <2>3. /\ run'.lines = <<>> /\ run'.loops = n /\ ~run'.done
        /\ queueToPc' = <<>> /\ dispatcher' = <<"tunnelSend", n>>
    BY <1>2 DEF TunnelCommand, RunOf, NoRun, queueToPcClear
  <2>4. PendingInv' /\ Pending' /\ ~Sampling'
    BY <2>2, <2>3 DEF PendingInv, Pending, Sampling, Step
  <2> QED  BY <2>4 DEF CountInv
<1>3. CASE AdjustCommand
  BY <1>3, CountUntouched DEF AdjustCommand, tunnelVars, DispatcherFrame, Step
<1>4. ASSUME NEW d \in TipDacs, TipCommand(d) PROVE CountInv'
  BY <1>4, CountUntouched DEF TipCommand, tunnelVars, DispatcherFrame, Step
<1>5. ASSUME MayStart, NEW p \in ParameterSets, ParameterCommand(p) PROVE CountInv'
  <2>1. run'.cmd = "none"
    BY <1>5 DEF ParameterCommand, NoRun
  <2> QED  BY <2>1 DEF CountInv
<1>6. CASE StopCommand
  <2>1. run'.stopped
    BY <1>0, <1>6 DEF StopCommand, RunType
  <2> QED  BY <2>1 DEF CountInv
<1> QED  BY <1>1, <1>2, <1>3, <1>4, <1>5, <1>6 DEF ClientNext

LEMMA DispatcherKeepsCount ==
    ASSUME TypesInv, OneRunInv, CountInv, DispatcherNext
    PROVE  CountInv'
<1> USE DEF tunnelVars, DispatcherFrame
<1>1. CASE MeasureQueue \/ MeasureCreate
  <2>1. UNCHANGED run /\ MeasureStarts
    BY <1>1 DEF MeasureQueue, MeasureCreate, MeasureStarts, Step
  <2>2. run'.cmd = "measure"
    BY <2>1 DEF OneRunInv, OneMode, MeasureBusy
  <2> QED  BY <2>2 DEF CountInv
<1>2. CASE TunnelSend
  <2>1. queueTunnelCmd = <<>> /\ tunnelPc \in {"none", "receive"}
        /\ Step("tunnelSend") /\ queueTunnelCmd \in Seq(LoopCounts)
        /\ dispatcher[2] \in LoopCounts
    BY <1>2, CountTyped DEF TunnelSend, OneRunInv, HandedOver, TypesInv
  <2>2. Len(queueTunnelCmd) # CommandLength
    BY <2>1, CapacityAssumption
  <2>3. queueTunnelCmd' = Append(queueTunnelCmd, dispatcher[2])
        /\ dispatcher'[1] = "tunnelResume"
        /\ tunnelPc' \in {"boot", "receive"}
        /\ UNCHANGED <<run, queueToPc, txElement>>
    BY <1>2, <2>1, <2>2 DEF TunnelSend, GoOn
  <2>4. queueTunnelCmd' # <<>> /\ Head(queueTunnelCmd') = dispatcher[2]
    BY <2>1, <2>3
  <2>5. ~Step("tunnelSend")' /\ Pending' /\ ~Sampling' /\ Pending
    BY <2>1, <2>3, <2>4 DEF Step, Pending, Sampling
  <2>6. PendingInv => PendingInv'
    BY <2>1, <2>3, <2>4, <2>5 DEF PendingInv
  <2> QED  BY <2>3, <2>5, <2>6 DEF CountInv
<1>3. CASE TunnelResume
  <2>1. /\ ~Step("tunnelSend") /\ ~Step("tunnelSend")'
        /\ tunnelPc' = tunnelPc \/ (tunnelPc = "suspended" /\ tunnelPc' = "resumed")
    BY <1>3 DEF TunnelResume, Return, Step, ResumeTunnel
  <2> QED  BY <1>3, <2>1, CountUntouched DEF TunnelResume
<1>4. CASE StopMeasure \/ StopTunnel \/ StopSend \/ StopReport
  <2>1. run.stopped
    BY <1>4
    DEF StopMeasure, StopTunnel, StopSend, StopReport, OneRunInv, StopInv,
        Stopping, Step
  <2>2. run'.stopped
    BY <1>4, <2>1, CountTyped
    DEF StopMeasure, StopTunnel, StopSend, StopReport, RunType
  <2> QED  BY <2>2 DEF CountInv
<1> QED  BY <1>1, <1>2, <1>3, <1>4 DEF DispatcherNext

LEMMA CountStep ==
    Patient /\ TypesInv /\ OneRunInv /\ OneRunInv' /\ CountInv /\ [Next]_vars
      => CountInv'
<1> SUFFICES ASSUME Patient, TypesInv, OneRunInv, OneRunInv', CountInv, [Next]_vars
             PROVE  CountInv'
  OBVIOUS
<1> USE DEF tunnelVars, txVars
<1>1. CASE BootVspi \/ BootParameters \/ UNCHANGED vars
  BY <1>1, CountUntouched DEF BootVspi, BootParameters, vars, controlVars, Step
<1>2. CASE Tick
  <2>1. tunnelPc' = tunnelPc \/ (tunnelPc = "suspended" /\ tunnelPc' = "resumed")
    BY <1>2 DEF Tick, ResumeTunnel
  <2> QED  BY <1>2, <2>1, CountUntouched DEF Tick, Step
<1>3. ASSUME NEW t \in MeasureTask, MeasureNext(t) PROVE CountInv'
  <2>1. UNCHANGED run /\ Alive(t)
    BY <1>3
    DEF MeasureNext, MeasureInit, MeasureWhile, MeasureSuspend, MeasureResumed,
        InTolerance, OffTolerance, SendReport, SendPoint, SendEnd,
        MeasureDeinit, MeasureDrained, MeasureFinish, MeasureExit, At,
        MeasureFrame, Alive
  <2>2. run'.cmd = "measure"
    BY <2>1 DEF OneRunInv, OneMode, MeasureBusy, MeasureLives
  <2> QED  BY <2>2 DEF CountInv
<1>4. ASSUME NEW t \in AdjustTask, AdjustNext(t) PROVE CountInv'
  BY <1>4, CountUntouched
  DEF AdjustNext, AdjustWhile, AdjustBody, AdjustDelay, AdjustExit, AdjustFrame,
      Step
<1> QED
  BY <1>1, <1>2, <1>3, <1>4, CommandsKeepCount, DispatcherKeepsCount,
     TunnelKeepsCount, TransmissionKeepsCount DEF Next

\* With a patient client TUNNEL,n that is not stopped delivers exactly n
\* samples before its DONE line: tunnelLoop, which may run ahead of the
\* dispatcher, takes n of them, and none is lost or counted twice between
\* its counter, the queue and dataTransmissionLoop.
THEOREM TunnelDeliversAll ==
    ASSUME Patient
    PROVE  Spec => []TunnelIsExact
<1>1. Init => CountInv
  <2>1. NoRun.cmd = "none"
    BY DEF NoRun
  <2> QED  BY <2>1 DEF Init, CountInv
<1>2. CountInv => TunnelIsExact
  BY DEF CountInv, PendingInv, SamplingInv, EndedInv, TunnelIsExact
<1> QED  BY <1>1, <1>2, CountStep, OneRunAlways, PTL DEF Spec

-----------------------------------------------------------------------------
(***************************************************************************)
(* The wire: how the steps that send, take, transmit and discard elements  *)
(* act on the sequence of all elements that have left measureLoop.         *)
(***************************************************************************)
WireTypes ==
    /\ run.lines \in Seq(Prefixes \X Elements) /\ queueToPc \in Seq(Elements)
    /\ txElement \in {<<>>} \cup Elements

\* Where the elements are on the wire.
WireFacts ==
    /\ WireTypes
    /\ Wire \in Seq(Elements) /\ DOMAIN Wire = 1 .. Len(Wire)
    /\ Len(run.lines) \in Nat /\ Len(queueToPc) \in Nat /\ Len(Taken) \in Nat
    /\ Len(Wire) = Len(run.lines) + Len(Taken) + Len(queueToPc)
    /\ \A i \in 1 .. Len(run.lines) : Wire[i] = run.lines[i][2]
    /\ \A i \in 1 .. Len(Taken) : Wire[Len(run.lines) + i] = txElement
    /\ \A i \in 1 .. Len(queueToPc) :
         Wire[Len(run.lines) + Len(Taken) + i] = queueToPc[i]

LEMMA WireIndex == TypesInv => WireFacts
<1> SUFFICES ASSUME TypesInv PROVE WireFacts
  OBVIOUS
<1> WireTypes
  BY DEF TypesInv, TypeOK, GlobalsTypeOK, RunType, WireTypes
<1>0. ASSUME NEW a \in Seq(Elements), NEW b \in Seq(Elements)
      PROVE  /\ a \o b \in Seq(Elements) /\ Len(a \o b) = Len(a) + Len(b)
             /\ DOMAIN (a \o b) = 1 .. Len(a \o b)
             /\ \A i \in 1 .. Len(a) : (a \o b)[i] = a[i]
             /\ \A i \in 1 .. Len(b) : (a \o b)[Len(a) + i] = b[i]
  OBVIOUS
<1>1. LinesSeen \in Seq(Elements) /\ Len(LinesSeen) = Len(run.lines)
      /\ \A i \in 1 .. Len(run.lines) : LinesSeen[i] = run.lines[i][2]
  BY DEF LinesSeen, WireTypes
<1>2. Taken \in Seq(Elements) /\ \A i \in 1 .. Len(Taken) : Taken[i] = txElement
  BY DEF Taken, WireTypes
<1>3. queueToPc \in Seq(Elements)
  BY DEF WireTypes
<1> HIDE DEF LinesSeen, Taken
<1>4. Len(run.lines) \in Nat /\ Len(queueToPc) \in Nat /\ Len(Taken) \in Nat
  BY <1>2 DEF WireTypes
<1> DEFINE front == LinesSeen \o Taken
<1>5. front = LinesSeen \o Taken
  OBVIOUS
<1>6. Wire = front \o queueToPc
  BY DEF Wire
<1> HIDE DEF front
<1>7. /\ front \in Seq(Elements) /\ Len(front) = Len(LinesSeen) + Len(Taken)
      /\ \A i \in 1 .. Len(LinesSeen) : front[i] = LinesSeen[i]
      /\ \A i \in 1 .. Len(Taken) : front[Len(LinesSeen) + i] = Taken[i]
  BY <1>0, <1>1, <1>2, <1>5
<1>8. /\ Wire \in Seq(Elements) /\ Len(Wire) = Len(front) + Len(queueToPc)
      /\ DOMAIN Wire = 1 .. Len(Wire)
      /\ \A i \in 1 .. Len(front) : Wire[i] = front[i]
      /\ \A i \in 1 .. Len(queueToPc) : Wire[Len(front) + i] = queueToPc[i]
  BY <1>0, <1>3, <1>6, <1>7
<1>9. ASSUME NEW i \in 1 .. Len(run.lines) PROVE Wire[i] = run.lines[i][2]
  <2>1. i \in 1 .. Len(front) /\ front[i] = run.lines[i][2]
    BY <1>1, <1>4, <1>7
  <2> QED  BY <1>8, <2>1
<1>10. ASSUME NEW i \in 1 .. Len(Taken) PROVE Wire[Len(run.lines) + i] = txElement
  <2>1. /\ Len(LinesSeen) + i \in 1 .. Len(front)
        /\ front[Len(LinesSeen) + i] = txElement
    BY <1>1, <1>2, <1>4, <1>7
  <2> QED  BY <1>1, <1>8, <2>1
<1> QED  BY <1>1, <1>4, <1>7, <1>8, <1>9, <1>10 DEF WireFacts

LEMMA WireBeforeAndAfter == TypesInv /\ TypesInv' => WireFacts /\ WireFacts'
BY WireIndex, PTL

\* Every index of Wire is one of a line, of the element in hand or of the queue.
LEMMA WireSplit ==
    ASSUME WireFacts, NEW i \in 1 .. Len(Wire)
    PROVE  \/ i \in 1 .. Len(run.lines)
           \/ i - Len(run.lines) \in 1 .. Len(Taken)
           \/ i - Len(run.lines) - Len(Taken) \in 1 .. Len(queueToPc)
<1>1. /\ Len(run.lines) \in Nat /\ Len(queueToPc) \in Nat /\ Len(Taken) \in Nat
      /\ Len(Wire) = Len(run.lines) + Len(Taken) + Len(queueToPc)
  BY DEF WireFacts
<1> QED  BY <1>1

\* What dataTransmissionLoop holds is an element or nothing.
LEMMA TakenLength ==
    /\ txElement = <<>> => Len(Taken) = 0
    /\ txElement # <<>> => Len(Taken) = 1
<1>1. Len(<<>>) = 0 /\ Len(<<txElement>>) = 1
  OBVIOUS
<1> QED  BY <1>1 DEF Taken

LEMMA NoEmptyElement == <<>> \notin Elements
<1>1. \A e \in [{1} -> {"report", "tunnel", "end"}] : DOMAIN e = {1}
  OBVIOUS
<1>2. \A e \in {"point"} \X Uint16 \X Uint16 : DOMAIN e = 1 .. 3
  OBVIOUS
<1>3. DOMAIN <<>> # {1} /\ DOMAIN <<>> # 1 .. 3
  OBVIOUS
<1> QED  BY <1>1, <1>2, <1>3 DEF Elements

\* Sending appends.
LEMMA WireSent ==
    ASSUME WireFacts, WireFacts', NEW e \in Elements, Enqueue(e),
           txElement' = txElement, run'.lines = run.lines
    PROVE  /\ Len(Wire') = Len(Wire) + 1 /\ Wire'[Len(Wire) + 1] = e
           /\ \A i \in 1 .. Len(Wire) : Wire'[i] = Wire[i]
<1> DEFINE n == Len(run.lines)
<1> DEFINE k == Len(Taken)
<1> DEFINE m == Len(queueToPc)
<1>1. Taken' = Taken
  BY DEF Taken
<1>2. queueToPc \in Seq(Elements) /\ queueToPc' = Append(queueToPc, e)
  BY DEF WireFacts, WireTypes, Enqueue
<1>3. /\ Len(queueToPc') = m + 1 /\ queueToPc'[m + 1] = e
      /\ \A i \in 1 .. m : queueToPc'[i] = queueToPc[i]
  BY <1>2, Members
<1>4. /\ n \in Nat /\ k \in Nat /\ m \in Nat
      /\ Len(Wire) = n + k + m /\ Len(Wire') = n + k + (m + 1)
  BY <1>1, <1>3 DEF WireFacts
<1>5. /\ \A i \in 1 .. n : Wire'[i] = run.lines[i][2]
      /\ \A i \in 1 .. k : Wire'[n + i] = txElement
      /\ \A i \in 1 .. m + 1 : Wire'[n + k + i] = queueToPc'[i]
  BY <1>1, <1>3 DEF WireFacts
<1>6. /\ \A i \in 1 .. n : Wire[i] = run.lines[i][2]
      /\ \A i \in 1 .. k : Wire[n + i] = txElement
      /\ \A i \in 1 .. m : Wire[n + k + i] = queueToPc[i]
  BY DEF WireFacts
<1>7. ASSUME NEW i \in 1 .. Len(Wire) PROVE Wire'[i] = Wire[i]
  <2>1. i \in 1 .. n \/ i - n \in 1 .. k \/ i - n - k \in 1 .. m
    BY WireSplit
  <2> HIDE DEF n, k, m
  <2>2. CASE i \in 1 .. n
    BY <1>5, <1>6, <2>2
  <2>3. CASE i - n \in 1 .. k
    <3>1. i = n + (i - n)
      BY <1>4
    <3> QED  BY <1>5, <1>6, <2>3, <3>1
  <2>4. CASE i - n - k \in 1 .. m
    <3>1. i = n + k + (i - n - k) /\ i - n - k \in 1 .. m + 1
      BY <1>4, <2>4
    <3> QED  BY <1>3, <1>5, <1>6, <2>4, <3>1
  <2> QED  BY <2>1, <2>2, <2>3, <2>4
<1>8. Len(Wire') = Len(Wire) + 1 /\ Wire'[Len(Wire) + 1] = e
  <2> HIDE DEF n, k, m
  <2>1. n + k + (m + 1) = Len(Wire) + 1 /\ m + 1 \in 1 .. m + 1
    BY <1>4
  <2> QED  BY <1>3, <1>4, <1>5, <2>1
<1> QED  BY <1>7, <1>8

\* Taking an element moves it, transmitting a point keeps it in its place.
LEMMA WireReceived ==
    ASSUME WireFacts, WireFacts', Receive
    PROVE  Len(Wire') = Len(Wire) /\ \A i \in 1 .. Len(Wire) : Wire'[i] = Wire[i]
<1> DEFINE n == Len(run.lines)
<1> DEFINE m == Len(queueToPc)
<1>1. /\ queueToPc \in Seq(Elements) /\ queueToPc # <<>> /\ queueToPc' = Tail(queueToPc)
      /\ run' = run /\ txElement = <<>> /\ txElement' = Head(queueToPc)
  BY DEF WireFacts, WireTypes, Receive
<1>2. /\ m >= 1 /\ txElement' = queueToPc[1] /\ Len(queueToPc') = m - 1
      /\ \A i \in 1 .. m - 1 : queueToPc'[i] = queueToPc[i + 1]
  BY <1>1, Members
<1>3. Len(Taken) = 0 /\ Len(Taken') = 1
  <2>1. txElement' \in Elements
    BY <1>1
  <2>2. txElement' # <<>>
    BY <2>1, NoEmptyElement
  <2>3. (txElement # <<>> => Len(Taken) = 1)'
    BY TakenLength, PTL
  <2> QED  BY <1>1, <2>2, <2>3, TakenLength
<1>4. /\ n \in Nat /\ m \in Nat /\ Len(Wire) = n + 0 + m
      /\ Len(Wire') = n + 1 + (m - 1)
  BY <1>1, <1>2, <1>3 DEF WireFacts
<1>5. /\ \A i \in 1 .. n : Wire'[i] = run.lines[i][2]
      /\ \A i \in 1 .. 1 : Wire'[n + i] = txElement'
      /\ \A i \in 1 .. m - 1 : Wire'[n + 1 + i] = queueToPc'[i]
  BY <1>1, <1>2, <1>3 DEF WireFacts
<1>6. /\ \A i \in 1 .. n : Wire[i] = run.lines[i][2]
      /\ \A i \in 1 .. m : Wire[n + 0 + i] = queueToPc[i]
  BY <1>3 DEF WireFacts
<1> HIDE DEF n, m
<1>7. ASSUME NEW i \in 1 .. Len(Wire) PROVE Wire'[i] = Wire[i]
  <2>1. CASE i \in 1 .. n
    BY <1>5, <1>6, <2>1
  <2>2. CASE i = n + 1
    <3>1. i = n + 0 + 1 /\ 1 \in 1 .. m /\ 1 \in 1 .. 1
      BY <1>2, <1>4, <2>2
    <3> QED  BY <1>2, <1>5, <1>6, <2>2, <3>1
  <2>3. CASE i > n + 1
    <3>1. /\ i = n + 1 + (i - n - 1) /\ i - n - 1 \in 1 .. m - 1
          /\ i = n + 0 + ((i - n - 1) + 1) /\ (i - n - 1) + 1 \in 1 .. m
      BY <1>4, <2>3
    <3> QED  BY <1>2, <1>5, <1>6, <3>1
  <2> QED  BY <1>4, <2>1, <2>2, <2>3
<1> QED  BY <1>4, <1>7

LEMMA WireTransmitted ==
    ASSUME WireFacts, WireFacts', txElement # <<>>, txElement' = <<>>,
           UNCHANGED queueToPc, prefix \in Prefixes,
           run'.lines = Append(run.lines, <<prefix, txElement>>)
    PROVE  Len(Wire') = Len(Wire) /\ \A i \in 1 .. Len(Wire) : Wire'[i] = Wire[i]
<1> DEFINE n == Len(run.lines)
<1> DEFINE m == Len(queueToPc)
<1>1. /\ run.lines \in Seq(Prefixes \X Elements) /\ txElement \in Elements
      /\ <<prefix, txElement>> \in Prefixes \X Elements
  BY DEF WireFacts, WireTypes
<1>2. /\ Len(run'.lines) = n + 1 /\ run'.lines[n + 1] = <<prefix, txElement>>
      /\ \A i \in 1 .. n : run'.lines[i] = run.lines[i]
  BY <1>1, Members
<1>3. Len(Taken) = 1 /\ Len(Taken') = 0
  <2>1. (txElement = <<>> => Len(Taken) = 0)'
    BY TakenLength, PTL
  <2> QED  BY <2>1, TakenLength
<1>4. /\ n \in Nat /\ m \in Nat /\ Len(Wire) = n + 1 + m
      /\ Len(Wire') = (n + 1) + 0 + m
  BY <1>2, <1>3 DEF WireFacts
<1>5. /\ \A i \in 1 .. n + 1 : Wire'[i] = run'.lines[i][2]
      /\ \A i \in 1 .. m : Wire'[(n + 1) + 0 + i] = queueToPc[i]
  BY <1>2, <1>3 DEF WireFacts
<1>6. /\ \A i \in 1 .. n : Wire[i] = run.lines[i][2]
      /\ \A i \in 1 .. 1 : Wire[n + i] = txElement
      /\ \A i \in 1 .. m : Wire[n + 1 + i] = queueToPc[i]
  BY <1>3 DEF WireFacts
<1>7. <<prefix, txElement>>[2] = txElement
  OBVIOUS
<1> HIDE DEF n, m
<1>8. ASSUME NEW i \in 1 .. Len(Wire) PROVE Wire'[i] = Wire[i]
  <2>1. CASE i \in 1 .. n
    <3>1. i \in 1 .. n + 1
      BY <1>4, <2>1
    <3> QED  BY <1>2, <1>5, <1>6, <2>1, <3>1
  <2>2. CASE i = n + 1
    <3>1. 1 \in 1 .. 1 /\ n + 1 \in 1 .. n + 1
      BY <1>4
    <3> QED  BY <1>2, <1>5, <1>6, <1>7, <2>2, <3>1
  <2>3. CASE i > n + 1
    <3>1. /\ i = n + 1 + (i - n - 1) /\ i - n - 1 \in 1 .. m
          /\ i = (n + 1) + 0 + (i - n - 1)
      BY <1>4, <2>3
    <3> QED  BY <1>5, <1>6, <3>1
  <2> QED  BY <1>4, <2>1, <2>2, <2>3
<1> QED  BY <1>4, <1>8

\* An end marker or a report leaves the wire when it is transmitted.
LEMMA WireDropped ==
    ASSUME WireFacts, WireFacts', txElement # <<>>, txElement' = <<>>,
           UNCHANGED queueToPc, run'.lines = run.lines
    PROVE  /\ Len(Wire') = Len(Wire) - 1
           /\ Len(run.lines) + 1 \in 1 .. Len(Wire)
           /\ Wire[Len(run.lines) + 1] = txElement
           /\ \A i \in 1 .. Len(Wire') :
                Wire'[i] = Wire[IF i <= Len(run.lines) THEN i ELSE i + 1]
<1> DEFINE n == Len(run.lines)
<1> DEFINE m == Len(queueToPc)
<1>1. Len(Taken) = 1 /\ Len(Taken') = 0
  <2>1. (txElement = <<>> => Len(Taken) = 0)'
    BY TakenLength, PTL
  <2> QED  BY <2>1, TakenLength
<1>2. /\ n \in Nat /\ m \in Nat /\ Len(Wire) = n + 1 + m
      /\ Len(Wire') = n + 0 + m
  BY <1>1 DEF WireFacts
<1>3. /\ \A i \in 1 .. n : Wire'[i] = run.lines[i][2]
      /\ \A i \in 1 .. m : Wire'[n + 0 + i] = queueToPc[i]
  BY <1>1 DEF WireFacts
<1>4. /\ \A i \in 1 .. n : Wire[i] = run.lines[i][2]
      /\ \A i \in 1 .. 1 : Wire[n + i] = txElement
      /\ \A i \in 1 .. m : Wire[n + 1 + i] = queueToPc[i]
  BY <1>1 DEF WireFacts
<1> HIDE DEF n, m
<1>5. ASSUME NEW i \in 1 .. Len(Wire')
      PROVE  Wire'[i] = Wire[IF i <= n THEN i ELSE i + 1]
  <2>1. CASE i <= n
    <3>1. i \in 1 .. n
      BY <1>2, <2>1
    <3> QED  BY <1>3, <1>4, <2>1, <3>1
  <2>2. CASE ~(i <= n)
    <3>1. /\ i = n + 0 + (i - n) /\ i - n \in 1 .. m
          /\ i + 1 = n + 1 + (i - n)
      BY <1>2, <2>2
    <3> QED  BY <1>3, <1>4, <2>2, <3>1
  <2> QED  BY <2>1, <2>2
<1>6. n + 1 \in 1 .. Len(Wire) /\ Wire[n + 1] = txElement /\ Len(Wire') = Len(Wire) - 1
  <2>1. 1 \in 1 .. 1
    OBVIOUS
  <2> QED  BY <1>2, <1>4, <2>1
<1> QED  BY <1>5, <1>6 DEF n

\* queueToPcClear cuts off the end.
LEMMA WireCleared ==
    ASSUME WireFacts, WireFacts', queueToPc' = <<>>, txElement' = txElement,
           run'.lines = run.lines
    PROVE  Len(Wire') <= Len(Wire) /\ \A i \in 1 .. Len(Wire') : Wire'[i] = Wire[i]
<1> DEFINE n == Len(run.lines)
<1> DEFINE k == Len(Taken)
<1>1. Taken' = Taken /\ Len(queueToPc') = 0
  BY DEF Taken
<1>2. /\ n \in Nat /\ k \in Nat /\ Len(queueToPc) \in Nat
      /\ Len(Wire) = n + k + Len(queueToPc) /\ Len(Wire') = n + k + 0
  BY <1>1 DEF WireFacts
<1>3. /\ \A i \in 1 .. n : Wire'[i] = run.lines[i][2]
      /\ \A i \in 1 .. k : Wire'[n + i] = txElement
  BY <1>1 DEF WireFacts
<1>4. /\ \A i \in 1 .. n : Wire[i] = run.lines[i][2]
      /\ \A i \in 1 .. k : Wire[n + i] = txElement
  BY DEF WireFacts
<1> HIDE DEF n, k
<1>5. ASSUME NEW i \in 1 .. Len(Wire') PROVE Wire'[i] = Wire[i]
  <2>1. CASE i \in 1 .. n
    BY <1>3, <1>4, <2>1
  <2>2. CASE i > n
    <3>1. i = n + (i - n) /\ i - n \in 1 .. k
      BY <1>2, <2>2
    <3> QED  BY <1>3, <1>4, <3>1
  <2> QED  BY <1>2, <2>1, <2>2
<1> QED  BY <1>2, <1>5

-----------------------------------------------------------------------------
(***************************************************************************)
(* What has been recorded: places earlier than the current one, and on a   *)
(* regular rectangle all of them.  These are the facts of ScanSession      *)
(* about samples, for the tasks.                                           *)
(***************************************************************************)
Places == {<<s.x, s.y>> : s \in samples}
Sample == [x : Uint16, y : Uint16, xDac : Uint16, yDac : Uint16]

RecordInv ==
    /\ startedLeft \in BOOLEAN /\ samples \subseteq Sample
    /\ scan = "running" =>
         /\ OnCourse(startedLeft)
         /\ \A p \in Places : Earlier(p, <<currentX, currentY>>, startedLeft)
    /\ RegularScan(startedLeft) =>
         /\ scan = "running" =>
              InRectangle /\ Places = {p \in Rectangle : Before(p[1], p[2])}
         /\ scan = "done" => Places = Rectangle

LEMMA RecordKept ==
    ASSUME RecordInv, UNCHANGED <<position, par, scan, samples, startedLeft>>
    PROVE  RecordInv'
BY DEF RecordInv, position, OnCourse, InRectangle, RegularScan, Rectangle,
       Places, Before, Earlier, RowNumber, RowIsLeft, Leftward

\* A scan starts at the start indices and has recorded nothing.
LEMMA RecordStarts ==
    ASSUME TypesInv, MeasureCommand
    PROVE  RecordInv'
<1>1. /\ SetStart /\ scan' = "running" /\ samples' = {}
      /\ startedLeft' = currentDirection' /\ startedLeft' \in BOOLEAN
      /\ GridTypeOK
  BY DEF MeasureCommand, SetStart, TypesInv, TypeOK, GlobalsTypeOK, GridTypeOK
<1>2. /\ par' = par /\ currentX' = par.startX /\ currentY' = par.startY
      /\ currentDirection' = currentDirection
      /\ par.startX \in Nat /\ par.startY \in Nat
      /\ par.maxX \in Nat /\ par.maxY \in Nat
  BY <1>1, ParametersAreNat DEF SetStart
<1>3. OnCourse(startedLeft)' /\ Places' = {}
  BY <1>1, StartsOnCourse DEF OnCourse, RowIsLeft, Places
<1>4. ASSUME RegularScan(startedLeft)'
      PROVE  InRectangle' /\ {p \in Rectangle : Before(p[1], p[2])}' = {}
  <2>1. /\ par.startX <= par.maxX /\ par.startY <= par.maxY
        /\ par.direction => ~currentDirection'
    BY <1>1, <1>2, <1>4 DEF RegularScan
  <2>2. InRectangle'
    BY <1>2, <2>1 DEF InRectangle
  <2>3. ~Leftward'
    BY <1>2, <2>1 DEF Leftward
  <2>4. ASSUME NEW p \in Rectangle' PROVE ~Before(p[1], p[2])'
    BY <1>2, <2>3 DEF Rectangle, Before
  <2> QED  BY <2>2, <2>4
<1> QED  BY <1>1, <1>3, <1>4 DEF RecordInv

\* Between the scans, and when one is stopped.
LEMMA RecordEnds ==
    ASSUME RecordInv, scan' \in {"none", "stopped"}, startedLeft' = startedLeft,
           samples' \subseteq samples
    PROVE  RecordInv'
BY DEF RecordInv

LEMMA RecordedPlaces ==
    ASSUME NEW t \in MeasureTask, SendPoint(t)
    PROVE  Places' = Places \cup {<<currentX, currentY>>}
<1> DEFINE new == [x |-> currentX, y |-> currentY,
                   xDac |-> currentXDac, yDac |-> currentYDac]
<1>1. samples' = samples \cup {new}
  BY DEF SendPoint
<1>2. new.x = currentX /\ new.y = currentY
  OBVIOUS
<1> HIDE DEF new
<1> QED  BY <1>1, <1>2 DEF Places

LEMMA RecordGrows ==
    ASSUME TypesInv, TypesInv', RecordInv, scan = "running",
           NEW t \in MeasureTask, SendPoint(t)
    PROVE  RecordInv'
<1>0. /\ GridTypeOK /\ startedLeft' = startedLeft /\ startedLeft \in BOOLEAN
      /\ OnCourse(startedLeft)
      /\ \A p \in Places : Earlier(p, <<currentX, currentY>>, startedLeft)
  BY DEF TypesInv, TypeOK, GlobalsTypeOK, SendPoint, MeasureFrame, RecordInv
<1>1. samples' \subseteq Sample
  <2>1. [x |-> currentX, y |-> currentY, xDac |-> currentXDac, yDac |-> currentYDac]
          \in Sample
    BY <1>0 DEF GridTypeOK, Sample
  <2>2. samples' = samples \cup {[x |-> currentX, y |-> currentY,
                                  xDac |-> currentXDac, yDac |-> currentYDac]}
    BY DEF SendPoint
  <2> QED  BY <2>1, <2>2 DEF RecordInv
<1>2. Places' = Places \cup {<<currentX, currentY>>}
  BY RecordedPlaces
<1>3. CASE MoveToNext /\ scan' = scan
  <2>1. /\ par' = par /\ OnCourse(startedLeft)'
        /\ Earlier(<<currentX, currentY>>, <<currentX', currentY'>>, startedLeft)
    BY <1>0, <1>3, MovesForward DEF OnCourse, RowIsLeft
  <2>2. Places \subseteq Uint16 \X Uint16
    BY DEF Places, RecordInv, Sample
  <2>3. /\ <<currentX, currentY>> \in Uint16 \X Uint16
        /\ <<currentX', currentY'>> \in Uint16 \X Uint16
        /\ par \in Parameters
    BY <1>0, <1>3, MoveTyped DEF GridTypeOK
  <2>4. \A p \in Places' : Earlier(p, <<currentX', currentY'>>, startedLeft)
    BY <1>0, <1>2, <2>1, <2>2, <2>3, EarlierIsAnOrder
  <2>5. (\A p \in Places : Earlier(p, <<currentX, currentY>>, startedLeft))'
    BY <1>0, <2>1, <2>4 DEF Earlier, RowNumber, RowIsLeft
  <2>6. ASSUME RegularScan(startedLeft)'
        PROVE  InRectangle' /\ Places' = {p \in Rectangle : Before(p[1], p[2])}'
    <3>1. RegularScan(startedLeft)
      BY <1>0, <2>1, <2>6 DEF RegularScan
    <3>2. InRectangle /\ Places = {p \in Rectangle : Before(p[1], p[2])}
      BY <3>1 DEF RecordInv
    <3>3. /\ InRectangle'
          /\ \A x \in par.startX .. par.maxX, y \in par.startY .. par.maxY :
               Before(x, y)' <=> Before(x, y) \/ (x = currentX /\ y = currentY)
      BY <1>0, <1>3, <3>1, <3>2, MovesToSuccessor
    <3>4. Rectangle' = Rectangle /\ <<currentX, currentY>> \in Rectangle
      BY <2>1, <3>2 DEF Rectangle, InRectangle
    <3>5. ASSUME NEW p \in Rectangle
          PROVE  p \in Places' <=> Before(p[1], p[2])'
      <4>1. /\ p = <<p[1], p[2]>>
            /\ p = <<currentX, currentY>> <=> p[1] = currentX /\ p[2] = currentY
            /\ p[1] \in par.startX .. par.maxX /\ p[2] \in par.startY .. par.maxY
        BY DEF Rectangle
      <4> QED  BY <1>2, <3>2, <3>3, <4>1
    <3>6. Places' \subseteq Rectangle
      BY <1>2, <3>2, <3>4
    <3> QED  BY <3>3, <3>4, <3>5, <3>6
  <2> QED  BY <1>0, <1>1, <1>3, <2>1, <2>5, <2>6 DEF RecordInv
<1>4. CASE GridComplete /\ scan' = "done"
  <2>1. ASSUME RegularScan(startedLeft)' PROVE Places' = Rectangle'
    <3>0. par' = par
      BY <1>4 DEF GridComplete
    <3>1. RegularScan(startedLeft)
      BY <1>0, <2>1, <3>0 DEF RegularScan
    <3>2. InRectangle /\ Places = {p \in Rectangle : Before(p[1], p[2])}
      BY <3>1 DEF RecordInv
    <3>3. /\ par' = par /\ <<currentX, currentY>> \in Rectangle
          /\ \A p \in Rectangle : Before(p[1], p[2]) \/ p = <<currentX, currentY>>
      BY <1>0, <1>4, <3>1, <3>2, CompletesOnLast
    <3> QED  BY <1>2, <3>2, <3>3 DEF Rectangle
  <2> QED  BY <1>0, <1>1, <1>4, <2>1 DEF RecordInv
<1> QED  BY <1>3, <1>4 DEF SendPoint

LEMMA RecordStep ==
    TypesInv /\ TypesInv' /\ OneRunInv /\ SessionInv /\ RecordInv /\ [Next]_vars
      => RecordInv'
<1> SUFFICES ASSUME TypesInv, TypesInv', OneRunInv, SessionInv, RecordInv, [Next]_vars
             PROVE  RecordInv'
  OBVIOUS
<1>1. CASE BootVspi \/ BootParameters
  BY <1>1, RecordKept, RecordEnds
  DEF BootVspi, BootParameters, DacToGrid, scanHistory, SessionInv, BootInv
<1>2. CASE ClientNext
  <2>1. CASE MeasureCommand
    BY <2>1, RecordStarts
  <2>2. CASE \E p \in ParameterSets : ParameterCommand(p)
    BY <2>2, RecordEnds DEF ParameterCommand
  <2>3. CASE UNCHANGED <<position, par, scan, samples, startedLeft>>
    BY <2>3, RecordKept
  <2> QED
    BY <1>2, <2>1, <2>2, <2>3
    DEF ClientNext, TunnelCommand, AdjustCommand, TipCommand, StopCommand,
        DispatcherFrame, scanHistory
<1>3. CASE DispatcherNext \/ Tick \/ TransmissionNext \/ UNCHANGED vars
  BY <1>3, RecordKept
  DEF DispatcherNext, MeasureQueue, MeasureCreate, TunnelSend, TunnelResume,
      StopMeasure, StopTunnel, StopSend, StopReport, DispatcherFrame, Tick,
      TransmissionNext, Receive, Transmit, TransmissionFrame, vars, gridVars,
      scanHistory
<1>4. CASE TunnelNext \/ \E t \in AdjustTask : AdjustNext(t)
  BY <1>4, RecordKept
  DEF TunnelNext, TunnelBoot, TunnelReceive, TunnelWhile, TunnelSuspend,
      SendTunnelSample, SendTunnelEnd, TunnelDrained, TunnelFinish, TunnelFrame,
      AdjustNext, AdjustWhile, AdjustBody, AdjustDelay, AdjustExit, AdjustFrame,
      scanHistory
<1>5. ASSUME NEW t \in MeasureTask, MeasureNext(t) PROVE RecordInv'
  <2>1. CASE SendPoint(t)
    <3>1. Alive(t) /\ measurePc[t] \in ScanningSteps
      BY <2>1 DEF SendPoint, At, Alive, ScanningSteps
    <3>2. scan = "running"
      BY <3>1 DEF SessionInv, ScanInv
    <3> QED  BY <2>1, <3>2, RecordGrows
  <2>2. CASE MeasureExit(t)
    <3>1. startedLeft' = startedLeft /\ UNCHANGED <<gridVars, samples>>
          /\ (scan' = "stopped" \/ scan' = scan)
      BY <2>2 DEF MeasureExit, MeasureFrame
    <3> QED  BY <3>1, RecordKept, RecordEnds DEF gridVars
  <2>3. CASE ~SendPoint(t) /\ ~MeasureExit(t)
    <3>1. UNCHANGED <<gridVars, scan, samples, startedLeft>>
      BY <1>5, <2>3
      DEF MeasureNext, MeasureInit, MeasureWhile, MeasureSuspend, MeasureResumed,
          InTolerance, OffTolerance, SendReport, SendEnd, MeasureDeinit,
          MeasureDrained, MeasureFinish, MeasureFrame
    <3> QED  BY <3>1, RecordKept DEF gridVars
  <2> QED  BY <2>1, <2>2, <2>3
<1> QED  BY <1>1, <1>2, <1>3, <1>4, <1>5 DEF Next

\* Until the tunnel is found nothing is recorded, and a measureLoop at its
\* end has recorded everything.
Ending == {"end", "deinit", "drain", "finish"}

FreshInv ==
    /\ MeasureStarts => samples = {}
    /\ \A t \in MeasureTask :
         /\ measurePc[t] = "init" \/ (Alive(t) /\ ~tunnelFound) => samples = {}
         /\ measurePc[t] \in Ending => scan = "done"

LEMMA FreshKept ==
    ASSUME FreshInv, UNCHANGED <<scan, samples, tunnelFound>>,
           MeasureStarts' => MeasureStarts,
           \A t \in MeasureTask : measurePc'[t] = measurePc[t]
              \/ (measurePc[t] = "suspended" /\ measurePc'[t] = "resumed")
    PROVE  FreshInv'
BY DEF FreshInv, Alive, Ending

LEMMA FreshStarts ==
    ASSUME samples' = {}, \A t \in MeasureTask : measurePc'[t] = "none"
    PROVE  FreshInv'
BY DEF FreshInv, Alive, Ending

\* A step of the one measureLoop.
LEMMA MeasureKeepsFresh ==
    ASSUME TypesInv, OneRunInv, SessionInv, FreshInv, LabelInv,
           NEW t \in MeasureTask, MeasureNext(t)
    PROVE  FreshInv'
<1>0. /\ Alive(t) /\ ~MeasureStarts /\ measurePc[t] \in MeasureSteps
      /\ \A u \in MeasureTask : u # t => measurePc[u] = "none"
      /\ MeasureFrame => ~MeasureStarts'
  <2>1. Alive(t)
    BY DEF MeasureNext, MeasureInit, MeasureWhile, MeasureSuspend,
           MeasureResumed, InTolerance, OffTolerance, SendReport, SendPoint,
           SendEnd, MeasureDeinit, MeasureDrained, MeasureFinish, MeasureExit,
           At, Alive
  <2>2. ~MeasureStarts
    BY <2>1 DEF OneRunInv, OneMode, MeasureLives
  <2> QED
    BY <2>1, <2>2
    DEF OneRunInv, OneMode, Alive, TypesInv, TypeOK, GlobalsTypeOK, MeasureFrame,
        MeasureStarts
<1>1. ASSUME NEW s \in MeasureSteps \ {"init"}, GoTo(t, s), MeasureFrame,
             s # "none" /\ ~tunnelFound' => samples' = {},
             s \in Ending => scan' = "done"
      PROVE  FreshInv'
  <2>1. \A u \in MeasureTask : measurePc'[u] = IF u = t THEN s ELSE "none"
    BY <1>0, <1>1 DEF TypesInv, TypeOK, GlobalsTypeOK, GoTo
  <2> QED  BY <1>0, <1>1, <2>1 DEF FreshInv, Alive, Ending
<1>2. /\ measurePc[t] = "init" \/ ~tunnelFound => samples = {}
      /\ measurePc[t] \in Ending => scan = "done"
      /\ measurePc[t] = "point" => tunnelFound
  BY <1>0 DEF FreshInv, LabelInv, FoundInv
<1> USE DEF At, MeasureSteps, InIteration, Ending, loopVars
<1>3. CASE MeasureInit(t)
  BY <1>1, <1>2, <1>3 DEF MeasureInit
<1>4. CASE MeasureWhile(t)
  BY <1>1, <1>2, <1>4 DEF MeasureWhile
<1>5. CASE MeasureSuspend(t)
  BY <1>1, <1>2, <1>5 DEF MeasureSuspend
<1>6. CASE MeasureResumed(t)
  BY <1>1, <1>2, <1>6 DEF MeasureResumed
<1>7. CASE InTolerance(t)
  BY <1>1, <1>2, <1>7 DEF InTolerance
<1>8. CASE OffTolerance(t)
  BY <1>1, <1>2, <1>8 DEF OffTolerance
<1>9. CASE SendReport(t)
  BY <1>1, <1>2, <1>9 DEF SendReport
<1>10. CASE SendPoint(t)
  BY <1>1, <1>2, <1>10 DEF SendPoint
<1>11. CASE SendEnd(t)
  BY <1>1, <1>2, <1>11 DEF SendEnd
<1>12. CASE MeasureDeinit(t)
  BY <1>1, <1>2, <1>12 DEF MeasureDeinit
<1>13. CASE MeasureDrained(t)
  BY <1>1, <1>2, <1>13 DEF MeasureDrained
<1>14. CASE MeasureFinish(t)
  BY <1>1, <1>2, <1>14 DEF MeasureFinish
<1>15. CASE MeasureExit(t)
  BY <1>1, <1>2, <1>15 DEF MeasureExit
<1> QED
  BY <1>3, <1>4, <1>5, <1>6, <1>7, <1>8, <1>9, <1>10, <1>11, <1>12, <1>13,
     <1>14, <1>15 DEF MeasureNext

LEMMA FreshStep ==
    Patient /\ TypesInv /\ OneRunInv /\ SessionInv /\ LabelInv /\ FreshInv /\ [Next]_vars
      => FreshInv'
<1> SUFFICES ASSUME Patient, TypesInv, OneRunInv, SessionInv, LabelInv, FreshInv,
                    [Next]_vars
             PROVE  FreshInv'
  OBVIOUS
<1>0. measurePc \in [MeasureTask -> MeasureSteps]
      /\ (MayStart => \A t \in MeasureTask : measurePc[t] = "none")
  BY DEF TypesInv, TypeOK, GlobalsTypeOK, MayStart, Quiescent
<1> USE DEF loopVars, scanHistory
<1>1. CASE BootVspi \/ UNCHANGED vars
  BY <1>1, FreshKept DEF BootVspi, vars, controlVars, MeasureStarts
<1>2. CASE BootParameters
  <2>1. samples' = {} /\ \A t \in MeasureTask : measurePc'[t] = "none"
    BY <1>2 DEF BootParameters, controlVars, SessionInv, BootInv
  <2> QED  BY <2>1, FreshStarts
<1>3. CASE ClientNext
  <2>1. CASE MayStart /\ (MeasureCommand \/ \E p \in ParameterSets : ParameterCommand(p))
    BY <1>0, <2>1, FreshStarts DEF MeasureCommand, ParameterCommand
  <2>2. CASE UNCHANGED <<scan, samples, tunnelFound, measurePc>> /\ ~MeasureStarts'
    BY <2>2, FreshKept
  <2>3. \A n : dispatcher' = <<"tunnelSend", n>> => ~MeasureStarts'
    BY DEF MeasureStarts
  <2>4. GoOn("stopMeasure") => ~MeasureStarts'
    BY DEF GoOn, MeasureStarts
  <2>5. Idle /\ dispatcher' = dispatcher => ~MeasureStarts'
    BY DEF Idle, MeasureStarts
  <2> QED
    BY <1>3, <2>1, <2>2, <2>3, <2>4, <2>5
    DEF ClientNext, TunnelCommand, AdjustCommand, TipCommand, StopCommand,
        DispatcherFrame
<1>4. CASE DispatcherNext
  <2>1. CASE MeasureCreate
    <3>1. PICK t \in MeasureTask : measurePc' = [measurePc EXCEPT ![t] = "init"]
      BY <2>1 DEF MeasureCreate
    <3>2. MeasureStarts /\ ~MeasureStarts' /\ UNCHANGED <<scan, samples>>
      BY <2>1 DEF MeasureCreate, Step, Return, MeasureStarts
    <3>3. samples' = {} /\ \A u \in MeasureTask : measurePc'[u] \in {"none", "init"}
      BY <1>0, <3>1, <3>2 DEF FreshInv, OneRunInv, OneMode, MeasureLives, Alive
    <3> QED  BY <3>3 DEF FreshInv, Alive, Ending
  <2>2. CASE ~MeasureCreate
    <3>1. MeasureStarts' => MeasureStarts
      BY <1>4, <2>2
      DEF DispatcherNext, MeasureQueue, TunnelSend, TunnelResume, StopMeasure,
          StopTunnel, StopSend, StopReport, Step, GoOn, Return, MeasureStarts
    <3>2. \A t \in MeasureTask :
            \/ measurePc'[t] = measurePc[t]
            \/ measurePc[t] = "suspended" /\ measurePc'[t] = "resumed"
      BY <1>0, <1>4, <2>2
      DEF DispatcherNext, MeasureQueue, TunnelSend, TunnelResume, StopMeasure,
          StopTunnel, StopSend, StopReport, ResumeMeasure
    <3>3. UNCHANGED <<scan, samples, tunnelFound>>
      BY <1>4, <2>2
      DEF DispatcherNext, MeasureQueue, TunnelSend, TunnelResume, StopMeasure,
          StopTunnel, StopSend, StopReport, DispatcherFrame
    <3> QED  BY <3>1, <3>2, <3>3, FreshKept
  <2> QED  BY <2>1, <2>2
<1>5. CASE Tick
  <2>1. \A t \in MeasureTask : measurePc'[t] = measurePc[t]
          \/ (measurePc[t] = "suspended" /\ measurePc'[t] = "resumed")
    BY <1>0, <1>5 DEF Tick, ResumeMeasure
  <2> QED  BY <1>5, <2>1, FreshKept DEF Tick, MeasureStarts
<1>6. CASE TunnelNext \/ (\E t \in AdjustTask : AdjustNext(t)) \/ TransmissionNext
  <2>1. UNCHANGED <<scan, samples, tunnelFound, measurePc, dispatcher>>
    BY <1>6
    DEF TunnelNext, TunnelBoot, TunnelReceive, TunnelWhile, TunnelSuspend,
        SendTunnelSample, SendTunnelEnd, TunnelDrained, TunnelFinish, TunnelFrame,
        AdjustNext, AdjustWhile, AdjustBody, AdjustDelay, AdjustExit, AdjustFrame,
        TransmissionNext, Receive, Transmit, TransmissionFrame
  <2> QED  BY <2>1, FreshKept DEF MeasureStarts
<1> QED
  BY <1>1, <1>2, <1>3, <1>4, <1>5, <1>6, MeasureKeepsFresh DEF Next

-----------------------------------------------------------------------------
(***************************************************************************)
(* The points on the wire are the recorded ones, in the order of the scan, *)
(* and an end marker is behind all of them.  Every step either appends to  *)
(* the wire or thins it without losing a point.                            *)
(***************************************************************************)
WireInv ==
    run.cmd = "measure" =>
        /\ \A i \in 1 .. Len(Wire) : IsPoint(Wire[i]) => PlaceOf(Wire[i]) \in Places
        /\ \A p \in Places :
             \E i \in 1 .. Len(Wire) : IsPoint(Wire[i]) /\ PlaceOf(Wire[i]) = p
        /\ \A i, j \in 1 .. Len(Wire) :
             i < j /\ IsPoint(Wire[i]) /\ IsPoint(Wire[j])
               => Earlier(PlaceOf(Wire[i]), PlaceOf(Wire[j]), startedLeft)
        /\ \A i \in 1 .. Len(run.lines) : IsPoint(run.lines[i][2])

EndOnWire == \E i \in 1 .. Len(Wire) : Wire[i] = End

EndInv ==
    run.cmd = "measure" /\ ~run.stopped =>
        /\ run.done \/ EndOnWire => scan = "done"
        /\ \A i, j \in 1 .. Len(Wire) : i < j /\ Wire[i] = End => ~IsPoint(Wire[j])
        /\ run.done =>
             \A i \in 1 .. Len(Wire) : IsPoint(Wire[i]) => i <= Len(run.lines)

\* The wire after the step is the one before it without some elements, none
\* of which is a point.
Thinned ==
    \E f \in [1 .. Len(Wire') -> 1 .. Len(Wire)] :
        /\ \A i, j \in 1 .. Len(Wire') : i < j => f[i] < f[j]
        /\ \A i \in 1 .. Len(Wire') : Wire'[i] = Wire[f[i]] /\ i <= f[i]
        /\ \A j \in 1 .. Len(Wire) :
             IsPoint(Wire[j]) => \E i \in 1 .. Len(Wire') : f[i] = j

Appended(e) ==
    /\ Len(Wire') = Len(Wire) + 1 /\ Wire'[Len(Wire) + 1] = e
    /\ \A i \in 1 .. Len(Wire) : Wire'[i] = Wire[i]

LEMMA WireLength == WireFacts => Len(Wire) \in Nat
BY DEF WireFacts

LEMMA ThinnedByCut ==
    ASSUME Len(Wire) \in Nat, Len(Wire)' \in Nat, Len(Wire') <= Len(Wire),
           \A i \in 1 .. Len(Wire') : Wire'[i] = Wire[i],
           \A j \in 1 .. Len(Wire) : j > Len(Wire') => ~IsPoint(Wire[j])
    PROVE  Thinned
<1> DEFINE f == [i \in 1 .. Len(Wire') |-> i]
<1>1. /\ f \in [1 .. Len(Wire') -> 1 .. Len(Wire)]
      /\ \A i \in 1 .. Len(Wire') : f[i] = i
  OBVIOUS
<1>2. \A j \in 1 .. Len(Wire) :
        IsPoint(Wire[j]) => j \in 1 .. Len(Wire')
  OBVIOUS
<1> HIDE DEF f
<1> QED  BY <1>1, <1>2 DEF Thinned

LEMMA ThinnedByDrop ==
    ASSUME WireFacts, WireFacts', txElement # <<>>, txElement' = <<>>,
           UNCHANGED queueToPc, run'.lines = run.lines, ~IsPoint(txElement)
    PROVE  Thinned
<1> DEFINE n == Len(run.lines)
<1> DEFINE f == [i \in 1 .. Len(Wire') |-> IF i <= n THEN i ELSE i + 1]
<1>1. /\ Len(Wire') = Len(Wire) - 1 /\ n + 1 \in 1 .. Len(Wire)
      /\ Wire[n + 1] = txElement
      /\ \A i \in 1 .. Len(Wire') : Wire'[i] = Wire[IF i <= n THEN i ELSE i + 1]
      /\ n \in Nat /\ Len(Wire) \in Nat
  BY WireDropped, WireLength DEF WireFacts
<1> HIDE DEF n
<1>2. /\ f \in [1 .. Len(Wire') -> 1 .. Len(Wire)]
      /\ \A i \in 1 .. Len(Wire') : f[i] = IF i <= n THEN i ELSE i + 1
  BY <1>1
<1> HIDE DEF f
<1>3. ASSUME NEW j \in 1 .. Len(Wire), IsPoint(Wire[j])
      PROVE  \E i \in 1 .. Len(Wire') : f[i] = j
  <2>1. j # n + 1
    BY <1>1, <1>3
  <2>2. CASE j <= n
    <3>1. j \in 1 .. Len(Wire')
      BY <1>1, <2>2
    <3> QED  BY <1>2, <2>2, <3>1
  <2>3. CASE j > n + 1
    <3>1. j - 1 \in 1 .. Len(Wire') /\ ~(j - 1 <= n) /\ (j - 1) + 1 = j
      BY <1>1, <2>3
    <3> QED  BY <1>2, <3>1
  <2> QED  BY <1>1, <2>1, <2>2, <2>3
<1>4. \A i, j \in 1 .. Len(Wire') : i < j => f[i] < f[j]
  BY <1>1, <1>2
<1>5. \A i \in 1 .. Len(Wire') : Wire'[i] = Wire[f[i]] /\ i <= f[i]
  BY <1>1, <1>2
<1> QED  BY <1>2, <1>3, <1>4, <1>5 DEF Thinned

LEMMA WireThinned ==
    ASSUME WireInv, Thinned, run'.cmd = run.cmd,
           UNCHANGED <<par, samples, startedLeft>>,
           run.cmd = "measure" => \A i \in 1 .. Len(run'.lines) : IsPoint(run'.lines[i][2])
    PROVE  WireInv'
<1> SUFFICES ASSUME run.cmd = "measure" PROVE WireInv'
  BY DEF WireInv
<1>1. PICK f \in [1 .. Len(Wire') -> 1 .. Len(Wire)] :
        /\ \A i, j \in 1 .. Len(Wire') : i < j => f[i] < f[j]
        /\ \A i \in 1 .. Len(Wire') : Wire'[i] = Wire[f[i]] /\ i <= f[i]
        /\ \A j \in 1 .. Len(Wire) :
             IsPoint(Wire[j]) => \E i \in 1 .. Len(Wire') : f[i] = j
  BY DEF Thinned
<1>2. Places' = Places
  BY DEF Places
<1>3. \A i \in 1 .. Len(Wire') : IsPoint(Wire'[i]) => PlaceOf(Wire'[i]) \in Places
  BY <1>1 DEF WireInv
<1>4. ASSUME NEW p \in Places
      PROVE  \E i \in 1 .. Len(Wire') : IsPoint(Wire'[i]) /\ PlaceOf(Wire'[i]) = p
  <2>1. PICK j \in 1 .. Len(Wire) : IsPoint(Wire[j]) /\ PlaceOf(Wire[j]) = p
    BY DEF WireInv
  <2>2. PICK i \in 1 .. Len(Wire') : f[i] = j
    BY <1>1, <2>1
  <2> QED  BY <1>1, <2>1, <2>2
<1>5. ASSUME NEW i \in 1 .. Len(Wire'), NEW j \in 1 .. Len(Wire'), i < j,
             IsPoint(Wire'[i]), IsPoint(Wire'[j])
      PROVE  Earlier(PlaceOf(Wire'[i]), PlaceOf(Wire'[j]), startedLeft)
  BY <1>1, <1>5 DEF WireInv
<1>6. \A p, q : Earlier(p, q, startedLeft)' <=> Earlier(p, q, startedLeft)
  BY DEF Earlier, RowIsLeft, RowNumber
<1> QED  BY <1>2, <1>3, <1>4, <1>5, <1>6 DEF WireInv

LEMMA EndThinned ==
    ASSUME WireFacts, WireFacts', EndInv, Thinned, run'.cmd = run.cmd,
           run.stopped => run'.stopped, scan' = scan \/ run'.stopped,
           run'.done = run.done, Len(run.lines) <= Len(run'.lines)
    PROVE  EndInv'
<1> SUFFICES ASSUME run.cmd = "measure", ~run.stopped, scan' = scan PROVE EndInv'
  BY DEF EndInv
<1>1. PICK f \in [1 .. Len(Wire') -> 1 .. Len(Wire)] :
        /\ \A i, j \in 1 .. Len(Wire') : i < j => f[i] < f[j]
        /\ \A i \in 1 .. Len(Wire') : Wire'[i] = Wire[f[i]] /\ i <= f[i]
  BY DEF Thinned
<1>2. /\ run.done \/ EndOnWire => scan = "done"
      /\ \A i, j \in 1 .. Len(Wire) : i < j /\ Wire[i] = End => ~IsPoint(Wire[j])
      /\ run.done => \A i \in 1 .. Len(Wire) : IsPoint(Wire[i]) => i <= Len(run.lines)
  BY DEF EndInv
<1>3. EndOnWire' => EndOnWire
  BY <1>1 DEF EndOnWire
<1>4. ASSUME NEW i \in 1 .. Len(Wire'), NEW j \in 1 .. Len(Wire'), i < j, Wire'[i] = End
      PROVE  ~IsPoint(Wire'[j])
  BY <1>1, <1>2, <1>4
<1>5. ASSUME run.done, NEW i \in 1 .. Len(Wire'), IsPoint(Wire'[i])
      PROVE  i <= Len(run'.lines)
  <2>1. f[i] <= Len(run.lines) /\ i <= f[i] /\ f[i] \in 1 .. Len(Wire)
    BY <1>1, <1>2, <1>5
  <2>2. Len(Wire) \in Nat /\ Len(Wire') \in Nat /\ Len(run.lines) \in Nat /\ Len(run'.lines) \in Nat
    BY DEF WireFacts
  <2> QED  BY <2>1, <2>2
<1> QED  BY <1>2, <1>3, <1>4, <1>5 DEF EndInv

\* A report or an end marker is appended.
LEMMA WireAppended ==
    ASSUME WireFacts, WireInv, NEW e, Appended(e), ~IsPoint(e), run' = run,
           UNCHANGED <<par, samples, startedLeft>>
    PROVE  WireInv'
<1> SUFFICES ASSUME run.cmd = "measure" PROVE WireInv'
  BY DEF WireInv
<1>1. /\ Len(Wire) \in Nat /\ Len(Wire') = Len(Wire) + 1 /\ Wire'[Len(Wire) + 1] = e
      /\ \A i \in 1 .. Len(Wire) : Wire'[i] = Wire[i]
  BY WireLength DEF Appended
<1>2. Places' = Places
  BY DEF Places
<1>3. \A i \in 1 .. Len(Wire') :
        IsPoint(Wire'[i]) => i \in 1 .. Len(Wire) /\ Wire'[i] = Wire[i]
  BY <1>1
<1>4. \A i \in 1 .. Len(Wire) : i \in 1 .. Len(Wire')
  BY <1>1
<1>5. \A i \in 1 .. Len(Wire') : IsPoint(Wire'[i]) => PlaceOf(Wire'[i]) \in Places
  BY <1>3 DEF WireInv
<1>6. ASSUME NEW p \in Places
      PROVE  \E i \in 1 .. Len(Wire') : IsPoint(Wire'[i]) /\ PlaceOf(Wire'[i]) = p
  <2>1. PICK i \in 1 .. Len(Wire) : IsPoint(Wire[i]) /\ PlaceOf(Wire[i]) = p
    BY DEF WireInv
  <2> QED  BY <1>1, <1>4, <2>1
<1>7. ASSUME NEW i \in 1 .. Len(Wire'), NEW j \in 1 .. Len(Wire'), i < j,
             IsPoint(Wire'[i]), IsPoint(Wire'[j])
      PROVE  Earlier(PlaceOf(Wire'[i]), PlaceOf(Wire'[j]), startedLeft)
  BY <1>3, <1>7 DEF WireInv
<1>8. \A p, q : Earlier(p, q, startedLeft)' <=> Earlier(p, q, startedLeft)
  BY DEF Earlier, RowIsLeft, RowNumber
<1> QED  BY <1>2, <1>5, <1>6, <1>7, <1>8 DEF WireInv

LEMMA EndAppended ==
    ASSUME WireFacts, EndInv, NEW e, Appended(e), ~IsPoint(e), run' = run,
           scan' = scan, e = End => scan = "done" \/ run.stopped
    PROVE  EndInv'
<1> SUFFICES ASSUME run.cmd = "measure", ~run.stopped PROVE EndInv'
  BY DEF EndInv
<1>1. /\ Len(Wire) \in Nat /\ Len(Wire') = Len(Wire) + 1 /\ Wire'[Len(Wire) + 1] = e
      /\ \A i \in 1 .. Len(Wire) : Wire'[i] = Wire[i]
  BY WireLength DEF Appended
<1>2. \A i \in 1 .. Len(Wire') :
        \/ i \in 1 .. Len(Wire) /\ Wire'[i] = Wire[i]
        \/ i = Len(Wire) + 1 /\ Wire'[i] = e
  BY <1>1
<1>3. /\ run.done \/ EndOnWire => scan = "done"
      /\ \A i, j \in 1 .. Len(Wire) : i < j /\ Wire[i] = End => ~IsPoint(Wire[j])
      /\ run.done => \A i \in 1 .. Len(Wire) : IsPoint(Wire[i]) => i <= Len(run.lines)
  BY DEF EndInv
<1>4. run.done \/ EndOnWire' => scan = "done"
  BY <1>2, <1>3 DEF EndOnWire
<1>5. ASSUME NEW i \in 1 .. Len(Wire'), NEW j \in 1 .. Len(Wire'), i < j, Wire'[i] = End
      PROVE  ~IsPoint(Wire'[j])
  <2>1. CASE j \in 1 .. Len(Wire)
    <3>1. i \in 1 .. Len(Wire)
      BY <1>1, <1>5, <2>1
    <3> QED  BY <1>1, <1>3, <1>5, <2>1, <3>1
  <2>2. CASE j = Len(Wire) + 1
    BY <1>1, <2>2
  <2> QED  BY <1>2, <2>1, <2>2
<1>6. run.done => \A i \in 1 .. Len(Wire') : IsPoint(Wire'[i]) => i <= Len(run.lines)
  BY <1>2, <1>3
<1> QED  BY <1>3, <1>4, <1>5, <1>6 DEF EndInv

\* The current point is appended.
LEMMA WireExtended ==
    ASSUME WireFacts, RecordInv, WireInv, scan = "running", NEW e, Appended(e),
           IsPoint(e), PlaceOf(e) = <<currentX, currentY>>, run' = run,
           Places' = Places \cup {<<currentX, currentY>>},
           UNCHANGED <<par, startedLeft>>
    PROVE  WireInv'
<1> SUFFICES ASSUME run.cmd = "measure" PROVE WireInv'
  BY DEF WireInv
<1>1. /\ Len(Wire) \in Nat /\ Len(Wire') = Len(Wire) + 1 /\ Wire'[Len(Wire) + 1] = e
      /\ \A i \in 1 .. Len(Wire) : Wire'[i] = Wire[i]
  BY WireLength DEF Appended
<1>2. \A i \in 1 .. Len(Wire') :
        \/ i \in 1 .. Len(Wire) /\ Wire'[i] = Wire[i]
        \/ i = Len(Wire) + 1 /\ Wire'[i] = e
  BY <1>1
<1>3. /\ \A i \in 1 .. Len(Wire) : i \in 1 .. Len(Wire')
      /\ Len(Wire) + 1 \in 1 .. Len(Wire')
  BY <1>1
<1>4. \A i \in 1 .. Len(Wire') : IsPoint(Wire'[i]) => PlaceOf(Wire'[i]) \in Places'
  BY <1>2 DEF WireInv
<1>5. ASSUME NEW p \in Places'
      PROVE  \E i \in 1 .. Len(Wire') : IsPoint(Wire'[i]) /\ PlaceOf(Wire'[i]) = p
  <2>1. CASE p \in Places
    <3>1. PICK i \in 1 .. Len(Wire) : IsPoint(Wire[i]) /\ PlaceOf(Wire[i]) = p
      BY <2>1 DEF WireInv
    <3> QED  BY <1>1, <1>3, <3>1
  <2>2. CASE p = <<currentX, currentY>>
    BY <1>1, <1>3, <2>2
  <2> QED  BY <2>1, <2>2
<1>6. ASSUME NEW i \in 1 .. Len(Wire'), NEW j \in 1 .. Len(Wire'), i < j,
             IsPoint(Wire'[i]), IsPoint(Wire'[j])
      PROVE  Earlier(PlaceOf(Wire'[i]), PlaceOf(Wire'[j]), startedLeft)
  <2>1. i \in 1 .. Len(Wire) /\ Wire'[i] = Wire[i]
    BY <1>1, <1>6
  <2>2. CASE j \in 1 .. Len(Wire)
    BY <1>1, <1>6, <2>1, <2>2 DEF WireInv
  <2>3. CASE j = Len(Wire) + 1
    <3>1. PlaceOf(Wire'[i]) \in Places
      BY <1>6, <2>1 DEF WireInv
    <3> QED  BY <1>1, <2>3, <3>1 DEF RecordInv
  <2> QED  BY <1>2, <2>2, <2>3
<1>7. \A p, q : Earlier(p, q, startedLeft)' <=> Earlier(p, q, startedLeft)
  BY DEF Earlier, RowIsLeft, RowNumber
<1> QED  BY <1>4, <1>5, <1>6, <1>7 DEF WireInv

LEMMA EndExtended ==
    ASSUME WireFacts, EndInv, scan = "running", NEW e, Appended(e), e # End, run' = run
    PROVE  EndInv'
<1> SUFFICES ASSUME run.cmd = "measure", ~run.stopped PROVE EndInv'
  BY DEF EndInv
<1>1. ~run.done /\ ~EndOnWire
  BY DEF EndInv
<1>2. \A i \in 1 .. Len(Wire') :
        \/ i \in 1 .. Len(Wire) /\ Wire'[i] = Wire[i]
        \/ Wire'[i] = e
  BY WireLength DEF Appended
<1>3. \A i \in 1 .. Len(Wire') : Wire'[i] # End
  BY <1>1, <1>2 DEF EndOnWire
<1> QED  BY <1>1, <1>3 DEF EndInv, EndOnWire

-----------------------------------------------------------------------------
(* The steps of the tasks.                                                 *)

LEMMA SameWire ==
    ASSUME WireFacts, WireFacts', WireInv, EndInv,
           Len(Wire') = Len(Wire), \A i \in 1 .. Len(Wire) : Wire'[i] = Wire[i],
           run'.cmd = run.cmd, run'.done = run.done,
           Len(run.lines) <= Len(run'.lines),
           run.cmd = "measure" => \A i \in 1 .. Len(run'.lines) : IsPoint(run'.lines[i][2]),
           run.stopped => run'.stopped, scan' = scan \/ run'.stopped,
           UNCHANGED <<par, samples, startedLeft>>
    PROVE  WireInv' /\ EndInv'
<1>1. Len(Wire) \in Nat /\ Len(Wire)' \in Nat /\ Len(Wire') <= Len(Wire)
  BY WireLength
<1>2. Thinned
  <2>1. \A j \in 1 .. Len(Wire) : ~(j > Len(Wire'))
    BY <1>1
  <2> QED  BY <1>1, <2>1, ThinnedByCut
<1> QED  BY <1>2, WireThinned, EndThinned

LEMMA WireUntouched ==
    ASSUME WireFacts, WireFacts', WireInv, EndInv,
           UNCHANGED <<queueToPc, txElement, par, samples, startedLeft>>,
           run'.cmd = run.cmd, run'.done = run.done, run'.lines = run.lines,
           run.stopped => run'.stopped, scan' = scan \/ run'.stopped
    PROVE  WireInv' /\ EndInv'
<1>1. Wire' = Wire
  BY DEF Wire, LinesSeen, Taken
<1>2. Len(run.lines) <= Len(run'.lines)
  BY DEF WireFacts
<1>3. run.cmd = "measure" => \A i \in 1 .. Len(run'.lines) : IsPoint(run'.lines[i][2])
  BY DEF WireInv
<1> QED  BY <1>1, <1>2, <1>3, SameWire

LEMMA WireUnused ==
    ASSUME run'.cmd # "measure"
    PROVE  WireInv' /\ EndInv'
BY DEF WireInv, EndInv

LEMMA WireStarts ==
    ASSUME WireFacts', queueToPc' = <<>>, txElement' = <<>>, samples' = {},
           run'.lines = <<>>, ~run'.done
    PROVE  WireInv' /\ EndInv'
<1>1. Len(Wire') = 0
  <2>1. Len(Taken)' = 0
    <3>1. (txElement = <<>> => Len(Taken) = 0)'
      BY TakenLength, PTL
    <3> QED  BY <3>1
  <2> QED  BY <2>1 DEF WireFacts
<1>2. Places' = {}
  BY DEF Places
<1> QED  BY <1>1, <1>2 DEF WireInv, EndInv, EndOnWire

\* Before the first point the queue holds reports only.
LEMMA QueueCleared ==
    ASSUME WireFacts, WireFacts', WireInv, EndInv, samples = {},
           queueToPc' = <<>>, UNCHANGED <<txElement, par, samples, startedLeft, scan, run>>
    PROVE  WireInv' /\ EndInv'
<1> SUFFICES ASSUME run.cmd = "measure" PROVE WireInv' /\ EndInv'
  BY WireUnused
<1>1. Places = {}
  BY DEF Places
<1>2. \A i \in 1 .. Len(Wire) : ~IsPoint(Wire[i])
  BY <1>1 DEF WireInv
<1>3. Thinned
  BY <1>2, WireLength, WireCleared, ThinnedByCut
<1>4. Len(run.lines) <= Len(run'.lines)
  BY DEF WireFacts
<1>5. \A i \in 1 .. Len(run'.lines) : IsPoint(run'.lines[i][2])
  BY DEF WireInv
<1> QED  BY <1>3, <1>4, <1>5, WireThinned, EndThinned

LEMMA NotPoints == ~IsPoint(Report) /\ ~IsPoint(End) /\ ~IsPoint(TunnelSample)
BY DEF IsPoint, Report, End, TunnelSample

LEMMA MarkerSent ==
    ASSUME WireFacts, WireFacts', WireInv, EndInv, NEW e \in {Report, End}, Enqueue(e),
           e = End => scan = "done" \/ run.stopped,
           UNCHANGED <<txElement, par, samples, startedLeft, scan, run>>
    PROVE  WireInv' /\ EndInv'
<1>1. e \in Elements /\ ~IsPoint(e)
  BY ElementsAreTyped, NotPoints
<1>2. Appended(e)
  BY <1>1, WireSent DEF Appended
<1> QED  BY <1>1, <1>2, WireAppended, EndAppended

LEMMA MeasureKeepsWire ==
    ASSUME TypesInv, WireFacts, WireFacts', OneRunInv, SessionInv, RecordInv, FreshInv,
           WireInv, EndInv, NEW t \in MeasureTask, MeasureNext(t)
    PROVE  WireInv' /\ EndInv'
<1>0. MeasureFrame => UNCHANGED <<txElement, startedLeft, run>>
  BY DEF MeasureFrame, txVars
<1>1. CASE InTolerance(t)
  <2>1. UNCHANGED <<txElement, par, samples, startedLeft, scan, run>>
    BY <1>0, <1>1 DEF InTolerance, gridVars
  <2>2. CASE tunnelFound
    BY <1>1, <2>1, <2>2, WireUntouched DEF InTolerance
  <2>3. CASE ~tunnelFound
    <3>1. samples = {}
      BY <1>1, <2>3 DEF InTolerance, At, FreshInv, Alive
    <3> QED  BY <1>1, <2>1, <2>3, <3>1, QueueCleared DEF InTolerance, queueToPcClear
  <2> QED  BY <2>2, <2>3
<1>2. CASE SendReport(t)
  BY <1>0, <1>2, MarkerSent, NotPoints DEF SendReport, gridVars, Report, End
<1>3. CASE SendEnd(t)
  <2>1. scan = "done"
    BY <1>3 DEF SendEnd, At, FreshInv, Ending
  <2> QED  BY <1>0, <1>3, <2>1, MarkerSent DEF SendEnd, gridVars
<1>4. CASE SendPoint(t)
  <2> DEFINE e == Point(currentX, currentY)
  <2>1. scan = "running"
    BY <1>4 DEF SendPoint, At, Alive, SessionInv, ScanInv, ScanningSteps
  <2>2. UNCHANGED <<txElement, startedLeft, run, par>> /\ Enqueue(e)
    BY <1>0, <1>4 DEF SendPoint, MoveToNext, GridComplete
  <2>3. e \in Elements
    BY ElementsAreTyped DEF TypesInv, TypeOK, GlobalsTypeOK, GridTypeOK
  <2>4. IsPoint(e) /\ PlaceOf(e) = <<currentX, currentY>> /\ e # End
    BY DEF IsPoint, PlaceOf, Point, End
  <2>5. Places' = Places \cup {<<currentX, currentY>>}
    BY <1>4, RecordedPlaces
  <2> HIDE DEF e
  <2>6. Appended(e)
    BY <2>2, <2>3, WireSent DEF Appended
  <2> QED  BY <2>1, <2>2, <2>4, <2>5, <2>6, WireExtended, EndExtended
<1>5. CASE MeasureExit(t)
  <2>1. run.stopped
    BY <1>5 DEF MeasureExit, At, OneRunInv, OwnedInv, MeasureOwns
  <2> QED  BY <1>0, <1>5, <2>1, WireUntouched DEF MeasureExit, gridVars
<1>6. CASE ~InTolerance(t) /\ ~SendReport(t) /\ ~SendEnd(t) /\ ~SendPoint(t) /\ ~MeasureExit(t)
  <2>1. UNCHANGED <<gridVars, scan, samples, queueToPc>> /\ MeasureFrame
    BY <1>6
    DEF MeasureNext, MeasureInit, MeasureWhile, MeasureSuspend, MeasureResumed,
        OffTolerance, MeasureDeinit, MeasureDrained, MeasureFinish
  <2> QED  BY <1>0, <2>1, WireUntouched DEF gridVars
<1> QED  BY <1>1, <1>2, <1>3, <1>4, <1>5, <1>6

LEMMA TransmissionKeepsWire ==
    ASSUME TypesInv, WireFacts, WireFacts', LabelInv, WireInv, EndInv, TransmissionNext
    PROVE  WireInv' /\ EndInv'
<1>0. /\ UNCHANGED <<par, samples, startedLeft, scan>> /\ run \in RunType
      /\ prefix \in Prefixes /\ run'.cmd = run.cmd /\ run'.stopped = run.stopped
  BY DEF TransmissionNext, Receive, Transmit, TransmissionFrame, scanHistory,
         gridVars, TypesInv, TypeOK, GlobalsTypeOK, RunType
<1> SUFFICES ASSUME run.cmd = "measure" PROVE WireInv' /\ EndInv'
  BY <1>0, WireUnused
<1>1. /\ Len(run.lines) \in Nat
      /\ \A i \in 1 .. Len(run.lines) : IsPoint(run.lines[i][2])
  BY DEF WireFacts, WireInv
<1>2. CASE Receive
  <2>1. run' = run
    BY <1>2 DEF Receive
  <2>2. Len(Wire') = Len(Wire) /\ \A i \in 1 .. Len(Wire) : Wire'[i] = Wire[i]
    BY <1>2, WireReceived
  <2> QED  BY <1>0, <1>1, <2>1, <2>2, SameWire
<1>3. CASE Transmit
  <2>0. txElement # <<>> /\ txElement' = <<>> /\ UNCHANGED queueToPc /\ End # Report
    BY <1>3 DEF Transmit, End, Report
  <2>1. CASE txElement = End
    <3>1. run'.done /\ run'.lines = run.lines
      <4>1. run' = [run EXCEPT !.done = TRUE, !.busy = FALSE, !.final = prefix]
        BY <1>3, <2>0, <2>1 DEF Transmit
      <4> QED  BY <1>0, <4>1 DEF RunType
    <3>2. Thinned
      BY <2>0, <2>1, <3>1, NotPoints, ThinnedByDrop
    <3>3. WireInv'
      BY <1>0, <1>1, <3>1, <3>2, WireThinned
    <3>4. EndInv'
      <4> SUFFICES ASSUME ~run.stopped PROVE EndInv'
        BY <1>0 DEF EndInv
      <4>1. /\ Len(Wire') = Len(Wire) - 1
            /\ Len(run.lines) + 1 \in 1 .. Len(Wire)
            /\ Wire[Len(run.lines) + 1] = End
            /\ \A i \in 1 .. Len(Wire') :
                 Wire'[i] = Wire[IF i <= Len(run.lines) THEN i ELSE i + 1]
        BY <2>0, <2>1, <3>1, WireDropped
      <4>2. /\ EndOnWire
            /\ \A i, j \in 1 .. Len(Wire) : i < j /\ Wire[i] = End => ~IsPoint(Wire[j])
        BY <4>1 DEF EndInv, EndOnWire
      <4>3. scan' = "done"
        BY <1>0, <4>2 DEF EndInv
      <4>4. ASSUME NEW i \in 1 .. Len(Wire'), IsPoint(Wire'[i]), ~(i <= Len(run.lines))
            PROVE  FALSE
        <5>1. Len(run.lines) \in Nat /\ Len(Wire) \in Nat
          BY WireLength DEF WireFacts
        <5>2. /\ i + 1 \in 1 .. Len(Wire) /\ Len(run.lines) + 1 < i + 1
          BY <4>1, <4>4, <5>1
        <5>3. IsPoint(Wire[i + 1])
          BY <4>1, <4>4
        <5> QED  BY <4>1, <4>2, <5>2, <5>3
      <4>5. ASSUME NEW i \in 1 .. Len(Wire'), NEW j \in 1 .. Len(Wire'), i < j,
                   Wire'[i] = End
            PROVE  ~IsPoint(Wire'[j])
        <5>1. PICK f \in [1 .. Len(Wire') -> 1 .. Len(Wire)] :
                /\ \A a, b \in 1 .. Len(Wire') : a < b => f[a] < f[b]
                /\ \A a \in 1 .. Len(Wire') : Wire'[a] = Wire[f[a]] /\ a <= f[a]
          BY <3>2 DEF Thinned
        <5> QED  BY <4>2, <4>5, <5>1
      <4> QED  BY <3>1, <4>3, <4>4, <4>5 DEF EndInv
    <3> QED  BY <3>3, <3>4
  <2>2. CASE txElement = Report
    <3>1. run'.lines = run.lines /\ run'.done = run.done
      BY <1>0, <1>3, <2>0, <2>2 DEF Transmit, RunType
    <3>2. Thinned
      BY <2>0, <2>2, <3>1, NotPoints, ThinnedByDrop
    <3> QED  BY <1>0, <1>1, <3>1, <3>2, WireThinned, EndThinned
  <2>3. CASE txElement # End /\ txElement # Report
    <3>1. run'.lines = Append(run.lines, <<prefix, txElement>>) /\ run'.done = run.done
      BY <1>0, <1>3, <2>3 DEF Transmit, RunType
    <3>2. Len(Wire') = Len(Wire) /\ \A i \in 1 .. Len(Wire) : Wire'[i] = Wire[i]
      BY <1>0, <2>0, <3>1, WireTransmitted
    <3>3. IsPoint(txElement) /\ txElement \in Elements
      BY <2>0, <2>3 DEF LabelInv, Expected, WireFacts, WireTypes
    <3>4. /\ Len(run'.lines) = Len(run.lines) + 1
          /\ \A i \in 1 .. Len(run.lines) + 1 : run'.lines[i] =
               IF i = Len(run.lines) + 1 THEN <<prefix, txElement>> ELSE run.lines[i]
      <4>1. run.lines \in Seq(Prefixes \X Elements)
            /\ <<prefix, txElement>> \in Prefixes \X Elements
        BY <1>0, <3>3 DEF WireFacts, WireTypes
      <4> QED  BY <3>1, <4>1, Members
    <3>5. \A i \in 1 .. Len(run'.lines) : IsPoint(run'.lines[i][2])
      <4>1. <<prefix, txElement>>[2] = txElement
        OBVIOUS
      <4>2. \A i \in 1 .. Len(run.lines) + 1 :
              i = Len(run.lines) + 1 \/ i \in 1 .. Len(run.lines)
        BY <1>1
      <4> QED  BY <1>1, <3>3, <3>4, <4>1, <4>2
    <3>6. Len(run.lines) <= Len(run'.lines)
      BY <1>1, <3>4
    <3> QED  BY <1>0, <3>1, <3>2, <3>5, <3>6, SameWire
  <2> QED  BY <2>1, <2>2, <2>3
<1> QED  BY <1>2, <1>3 DEF TransmissionNext

LEMMA WireStep ==
    Patient /\ TypesInv /\ TypesInv' /\ OneRunInv /\ SessionInv /\ LabelInv
      /\ RecordInv /\ FreshInv /\ WireInv /\ EndInv /\ [Next]_vars
      => WireInv' /\ EndInv'
<1> SUFFICES ASSUME Patient, TypesInv, TypesInv', OneRunInv, SessionInv, LabelInv,
                    RecordInv, FreshInv, WireInv, EndInv, [Next]_vars
             PROVE  WireInv' /\ EndInv'
  OBVIOUS
<1>0. /\ WireFacts /\ WireFacts' /\ run \in RunType
      /\ MayStart => Quiescent /\ queueToPc = <<>> /\ txElement = <<>>
  BY WireBeforeAndAfter DEF TypesInv, MayStart, Quiescent
<1> USE DEF loopVars, txVars, scanHistory
<1>1. CASE BootVspi \/ BootParameters \/ UNCHANGED vars
  <2>1. CASE BootVspi \/ UNCHANGED vars
    BY <1>0, <2>1, WireUntouched DEF BootVspi, DacToGrid, vars, controlVars, gridVars
  <2>2. CASE BootParameters
    \* No run has been started before the parameters are loaded.
    <3>1. UNCHANGED <<run, txElement, queueToPc>> /\ samples = {} /\ samples' = {}
          /\ scan' = scan
      BY <2>2 DEF BootParameters, controlVars, SessionInv, BootInv
    <3>2. \A i \in 1 .. Len(Wire) : run.cmd = "measure" => ~IsPoint(Wire[i])
      BY <3>1 DEF WireInv, Places
    <3>3. Wire' = Wire
      BY <3>1 DEF Wire, LinesSeen, Taken
    <3> QED
      BY <3>1, <3>2, <3>3 DEF WireInv, EndInv, EndOnWire, Places
  <2> QED  BY <1>1, <2>1, <2>2
<1>2. CASE ClientNext
  <2>1. CASE MayStart /\ MeasureCommand
    BY <1>0, <2>1, WireStarts DEF MeasureCommand, RunOf, NoRun
  <2>2. ASSUME NEW n \in LoopCounts, TunnelCommand(n) PROVE WireInv' /\ EndInv'
    BY <2>2, WireUnused DEF TunnelCommand, RunOf, NoRun
  <2>3. ASSUME NEW p \in ParameterSets, ParameterCommand(p) PROVE WireInv' /\ EndInv'
    BY <2>3, WireUnused DEF ParameterCommand, NoRun
  <2>4. CASE AdjustCommand \/ \E d \in TipDacs : TipCommand(d)
    BY <1>0, <2>4, WireUntouched
    DEF AdjustCommand, TipCommand, DispatcherFrame
  <2>5. CASE StopCommand
    <3>1. /\ run'.cmd = run.cmd /\ run'.done = run.done /\ run'.lines = run.lines
          /\ run'.stopped
      BY <1>0, <2>5 DEF StopCommand, RunType
    <3> QED  BY <1>0, <2>5, <3>1, WireUntouched DEF StopCommand, DispatcherFrame
  <2> QED  BY <1>2, <2>1, <2>2, <2>3, <2>4, <2>5 DEF ClientNext
<1>3. CASE DispatcherNext
  <2>0. UNCHANGED <<txElement, par, samples, startedLeft, scan>>
    BY <1>3
    DEF DispatcherNext, MeasureQueue, MeasureCreate, TunnelSend, TunnelResume,
        StopMeasure, StopTunnel, StopSend, StopReport, DispatcherFrame
  <2>1. CASE MeasureQueue
    <3>1. samples = {} /\ queueToPc' = <<>> /\ run' = run
      BY <2>1 DEF MeasureQueue, queueToPcClear, Step, FreshInv, MeasureStarts
    <3> QED  BY <1>0, <2>0, <3>1, QueueCleared
  <2>2. CASE StopSend
    <3>1. run.stopped /\ run' = run
      BY <2>2 DEF StopSend, Step, OneRunInv, StopInv, Stopping
    <3>2. CASE Enqueue(End)
      BY <1>0, <2>0, <3>1, <3>2, MarkerSent
    <3>3. CASE UNCHANGED queueToPc
      BY <1>0, <2>0, <3>1, <3>3, WireUntouched
    <3> QED  BY <2>2, <3>2, <3>3 DEF StopSend
  <2>3. CASE StopReport
    <3>1. /\ run'.cmd = run.cmd /\ run'.done = run.done /\ run'.lines = run.lines
          /\ run'.stopped = run.stopped /\ UNCHANGED queueToPc
      BY <1>0, <2>3 DEF StopReport, RunType
    <3> QED  BY <1>0, <2>0, <3>1, WireUntouched
  <2>4. CASE ~MeasureQueue /\ ~StopSend /\ ~StopReport
    <3>1. UNCHANGED <<queueToPc, run>>
      BY <1>3, <2>4
      DEF DispatcherNext, MeasureCreate, TunnelSend, TunnelResume, StopMeasure,
          StopTunnel
    <3> QED  BY <1>0, <2>0, <3>1, WireUntouched
  <2> QED  BY <2>1, <2>2, <2>3, <2>4
<1>4. CASE Tick
  BY <1>0, <1>4, WireUntouched DEF Tick, gridVars
<1>5. ASSUME NEW t \in MeasureTask, MeasureNext(t) PROVE WireInv' /\ EndInv'
  BY <1>0, <1>5, MeasureKeepsWire
<1>6. CASE TunnelNext
  <2>1. run' = run /\ TunnelBusy
    BY <1>6
    DEF TunnelNext, TunnelBoot, TunnelReceive, TunnelWhile, TunnelSuspend,
        SendTunnelSample, SendTunnelEnd, TunnelDrained, TunnelFinish, TunnelFrame,
        TunnelBusy
  <2>2. run'.cmd = "tunnel"
    BY <2>1 DEF OneRunInv, OneMode
  <2> QED  BY <2>2, WireUnused
<1>7. ASSUME NEW t \in AdjustTask, AdjustNext(t) PROVE WireInv' /\ EndInv'
  <2>1. AdjustFrame
    BY <1>7 DEF AdjustNext, AdjustWhile, AdjustBody, AdjustDelay, AdjustExit
  <2> QED  BY <1>0, <2>1, WireUntouched DEF AdjustFrame
<1>8. CASE TransmissionNext
  BY <1>0, <1>8, TransmissionKeepsWire
<1> QED
  BY <1>1, <1>2, <1>3, <1>4, <1>5, <1>6, <1>7, <1>8 DEF Next

DeliveryInv == LabelInv /\ RecordInv /\ FreshInv /\ WireInv /\ EndInv

LEMMA DeliveryInit == Init => DeliveryInv
<1> SUFFICES ASSUME Init PROVE DeliveryInv
  OBVIOUS
<1>1. /\ run.lines = <<>> /\ run.cmd = "none" /\ queueToPc = <<>> /\ txElement = <<>>
      /\ \A t \in MeasureTask : measurePc[t] = "none"
      /\ scan = "none" /\ samples = {} /\ startedLeft = FALSE
  BY DEF Init, NoRun
<1>2. LabelInv
  BY <1>1 DEF LabelInv, PointsLabelled, FoundInv
<1>3. RecordInv
  BY <1>1 DEF RecordInv
<1>4. FreshInv
  BY <1>1 DEF FreshInv, Alive, Ending
<1>5. WireInv /\ EndInv
  BY <1>1 DEF WireInv, EndInv
<1> QED  BY <1>2, <1>3, <1>4, <1>5 DEF DeliveryInv

LEMMA DeliveryAlways ==
    ASSUME Patient
    PROVE  Spec => [](TypesInv /\ DeliveryInv)
<1>1. TypesInv /\ TypesInv' /\ OneRunInv /\ SessionInv /\ DeliveryInv /\ [Next]_vars
        => DeliveryInv'
  BY LabelStep, RecordStep, FreshStep, WireStep DEF DeliveryInv
<1> QED  BY <1>1, DeliveryInit, SessionAlways, PTL DEF Spec

LEMMA PointsAreElements ==
    \A e \in Elements : IsPoint(e) => e = Point(PlaceOf(e)[1], PlaceOf(e)[2])
<1>1. ASSUME NEW e \in Elements, IsPoint(e)
      PROVE  e \in {"point"} \X Uint16 \X Uint16
  BY <1>1 DEF Elements, IsPoint
<1>2. \A e \in {"point"} \X Uint16 \X Uint16 : e = <<e[1], e[2], e[3]>> /\ e[1] = "point"
  OBVIOUS
<1> QED  BY <1>1, <1>2 DEF Point, PlaceOf

\* With a patient client no point is lost, sent twice or left over from an
\* earlier run between measureLoop and the PC: the points seen, held and
\* queued are at every moment the recorded ones, also after a STOP.
THEOREM PointsAreDelivered ==
    ASSUME Patient
    PROVE  Spec => []NothingLost
<1>1. TypesInv /\ DeliveryInv => NothingLost
  <2> SUFFICES ASSUME TypesInv, DeliveryInv, run.cmd = "measure" PROVE NothingLost
    BY DEF NothingLost
  <2>0. /\ WireFacts /\ RecordInv /\ WireInv /\ par \in Parameters
        /\ DOMAIN Wire = 1 .. Len(Wire) /\ Len(Wire) \in Nat
    BY WireIndex DEF DeliveryInv, TypesInv, TypeOK, GlobalsTypeOK, GridTypeOK, WireFacts
  <2>1. \A i \in 1 .. Len(Wire) : Wire[i] \in Elements
    BY <2>0 DEF WireFacts
  <2>2. \A i \in PointsOnWire :
          /\ i \in 1 .. Len(Wire) /\ IsPoint(Wire[i])
          /\ Wire[i] = Point(PlaceOf(Wire[i])[1], PlaceOf(Wire[i])[2])
          /\ PlaceOf(Wire[i]) \in Places
    BY <2>0, <2>1, PointsAreElements DEF PointsOnWire, WireInv
  <2>3. ASSUME NEW i \in PointsOnWire
        PROVE  Wire[i] \in {Point(s.x, s.y) : s \in samples}
    <3>1. PICK s \in samples : PlaceOf(Wire[i]) = <<s.x, s.y>>
      BY <2>2, <2>3 DEF Places
    <3>2. Wire[i] = Point(s.x, s.y)
      BY <2>2, <2>3, <3>1
    <3> QED  BY <3>2
  <2>4. ASSUME NEW s \in samples
        PROVE  Point(s.x, s.y) \in {Wire[i] : i \in PointsOnWire}
    <3>1. <<s.x, s.y>> \in Places
      BY DEF Places
    <3>2. PICK i \in 1 .. Len(Wire) :
            IsPoint(Wire[i]) /\ PlaceOf(Wire[i]) = <<s.x, s.y>>
      BY <2>0, <3>1 DEF WireInv
    <3>3. i \in PointsOnWire
      BY <2>0, <3>2 DEF PointsOnWire
    <3>4. Wire[i] = Point(s.x, s.y)
      BY <2>2, <3>2, <3>3
    <3> QED  BY <3>3, <3>4
  <2>5. ASSUME NEW i \in PointsOnWire, NEW j \in PointsOnWire, Wire[i] = Wire[j], i # j
        PROVE  FALSE
    <3>1. \/ Earlier(PlaceOf(Wire[i]), PlaceOf(Wire[j]), startedLeft)
          \/ Earlier(PlaceOf(Wire[j]), PlaceOf(Wire[i]), startedLeft)
      BY <2>0, <2>2, <2>5 DEF WireInv
    <3>2. PlaceOf(Wire[i]) \in Uint16 \X Uint16 /\ startedLeft \in BOOLEAN
      BY <2>0, <2>2 DEF Places, RecordInv, Sample
    <3> QED  BY <2>0, <2>5, <3>1, <3>2, EarlierIsAnOrder
  <2> QED  BY <2>3, <2>4, <2>5 DEF NothingLost
<1> QED  BY <1>1, DeliveryAlways, PTL

\* With a patient client the PC sees the points of a scan in the order in
\* which the scan visits them.
THEOREM PointsArriveInOrder ==
    ASSUME Patient
    PROVE  Spec => []DeliveredInOrder
<1>1. TypesInv /\ DeliveryInv => DeliveredInOrder
  <2> SUFFICES ASSUME TypesInv, DeliveryInv, run.cmd = "measure",
                      NEW i \in DOMAIN run.lines, NEW j \in DOMAIN run.lines, i < j
               PROVE  Earlier(PlaceOf(LinesSeen[i]), PlaceOf(LinesSeen[j]), startedLeft)
    BY DEF DeliveredInOrder
  <2>0. WireFacts /\ WireInv
    BY WireIndex DEF DeliveryInv
  <2>1. DOMAIN run.lines = 1 .. Len(run.lines) /\ WireFacts /\ WireInv
    BY <2>0 DEF WireFacts, WireTypes
  <2>2. /\ LinesSeen[i] = Wire[i] /\ LinesSeen[j] = Wire[j]
        /\ IsPoint(Wire[i]) /\ IsPoint(Wire[j])
    BY <2>1 DEF LinesSeen, WireFacts, WireInv
  <2>3. i \in 1 .. Len(Wire) /\ j \in 1 .. Len(Wire)
    <3>1. /\ Len(run.lines) \in Nat /\ Len(Taken) \in Nat /\ Len(queueToPc) \in Nat
          /\ Len(Wire) = Len(run.lines) + Len(Taken) + Len(queueToPc)
      BY <2>1 DEF WireFacts
    <3> QED  BY <2>1, <3>1
  <2> QED  BY <2>1, <2>2, <2>3 DEF WireInv
<1> QED  BY <1>1, DeliveryAlways, PTL

\* With a patient client the DONE line of a MEASURE that was not stopped
\* follows the last point: the PC has then seen exactly the rectangle.
THEOREM DoneFollowsLastPoint ==
    ASSUME Patient
    PROVE  Spec => []DoneIsComplete
<1>1. TypesInv /\ DeliveryInv => DoneIsComplete
  <2> SUFFICES ASSUME TypesInv, DeliveryInv, run.cmd = "measure", run.done,
                      ~run.stopped, RegularScan(startedLeft)
               PROVE  {LinesSeen[i] : i \in DOMAIN run.lines}
                        = {Point(x, y) : x \in par.startX .. par.maxX,
                                         y \in par.startY .. par.maxY}
    BY DEF DoneIsComplete
  <2>0. WireFacts /\ WireInv /\ EndInv /\ RecordInv
    BY WireIndex DEF DeliveryInv
  <2>1. /\ WireFacts /\ WireInv /\ DOMAIN run.lines = 1 .. Len(run.lines)
        /\ Places = Rectangle
        /\ \A i \in 1 .. Len(Wire) : IsPoint(Wire[i]) => i <= Len(run.lines)
    BY <2>0 DEF WireFacts, WireTypes, RecordInv, EndInv
  <2>2. \A i \in 1 .. Len(run.lines) :
          i \in 1 .. Len(Wire) /\ LinesSeen[i] = Wire[i] /\ IsPoint(Wire[i])
    <3>1. /\ Len(run.lines) \in Nat /\ Len(Taken) \in Nat /\ Len(queueToPc) \in Nat
          /\ Len(Wire) = Len(run.lines) + Len(Taken) + Len(queueToPc)
      BY <2>1 DEF WireFacts
    <3>2. \A i \in 1 .. Len(run.lines) : LinesSeen[i] = Wire[i] /\ IsPoint(Wire[i])
      BY <2>1 DEF LinesSeen, WireFacts, WireInv
    <3> QED  BY <3>1, <3>2
  <2>3. \A i \in 1 .. Len(Wire) : Wire[i] \in Elements
    BY <2>1 DEF WireFacts
  <2>4. ASSUME NEW i \in DOMAIN run.lines
        PROVE  \E x \in par.startX .. par.maxX, y \in par.startY .. par.maxY :
                 LinesSeen[i] = Point(x, y)
    <3>1. PlaceOf(Wire[i]) \in Rectangle
      BY <2>1, <2>2, <2>4 DEF WireInv
    <3>2. Wire[i] = Point(PlaceOf(Wire[i])[1], PlaceOf(Wire[i])[2])
      BY <2>1, <2>2, <2>3, <2>4, PointsAreElements
    <3> QED  BY <2>1, <2>2, <2>4, <3>1, <3>2 DEF Rectangle
  <2>5. ASSUME NEW x \in par.startX .. par.maxX, NEW y \in par.startY .. par.maxY
        PROVE  \E i \in DOMAIN run.lines : LinesSeen[i] = Point(x, y)
    <3>1. <<x, y>> \in Places
      BY <2>1 DEF Rectangle
    <3>2. PICK i \in 1 .. Len(Wire) : IsPoint(Wire[i]) /\ PlaceOf(Wire[i]) = <<x, y>>
      BY <2>1, <3>1 DEF WireInv
    <3>3. i \in 1 .. Len(run.lines)
      BY <2>1, <3>2 DEF WireFacts
    <3>4. Wire[i] = Point(x, y)
      BY <2>3, <3>2, PointsAreElements
    <3> QED  BY <2>1, <2>2, <3>3, <3>4
  <2> QED  BY <2>4, <2>5
<1> QED  BY <1>1, DeliveryAlways, PTL
=============================================================================
