# TLA+ models of the RTM ESP32 firmware

TLA+ modules, TLC configurations and TLAPS proofs for the firmware of the
500 EUR raster tunnel microscope (`src/` is the root of that repository, so the
C++ code is under `src/src/`). Every definition that models code is listed in
`PROJECT.json` (`map`) with the lines it stands for; the hazards of the code, each at
its line with the properties that watch it, are listed there too.

To check: `tlc -config MCRunScan.cfg MCRunControl` (or any cfg named below with
its module), and `tlapm M.tla` for each module `*_proofs`.

## 1. The system

A FreeRTOS program on the two cores of an ESP32. Core 0 talks to the PC, core 1
moves the tip. Priorities matter on a core; between the cores everything
interleaves.

| part | file | core, priority | state it keeps | operations |
|---|---|---|---|---|
| dispatcher | `controller.cpp` | 0, prio 4 | handles, queues, activity flags | one command at a time: STOP, MEASURE, TUNNEL, ADJUST, TIP, SINUS, PARAMETER, SET_SSID, SET_PASSWORD |
| measureLoop | `tasks/measure.cpp` | 1, prio 2 | `isLoopExecution`, `tunnel_found` | created by every MEASURE, deletes itself |
| tunnelLoop | `tasks/tunnel.cpp` | 1, prio 2 | `counter`, `maxLoops` | created once, takes loop counts from `queueTunnelCmd` |
| adjustLoop | `tasks/adjust.cpp` | 1, prio 2 | - | created by ADJUST, once a second applies a TIP and reports |
| sinusLoop | `tasks/sinus.cpp` | 1, prio 2 | - | test pattern written directly to the DACs |
| vspiDacLoop | `dac_spi.cpp` | 1 | `last` values per axis | sends `currentXDac/YDac/ZDac` when resumed |
| dataTransmissionLoop | `tasks/dataTransmission.cpp` | 0, prio 1 | element in hand | takes elements from `queueToPc`, sends prefix + line, or `DONE` |
| shared loop state | `tasks/common.cpp`, `globalVariables.cpp` | - | `prefix`, queues, flags | `setPrefix`, `queueToPcClear`, `resetDac` |
| timer | `project_timer.cpp` | ISR | `gptimer_enabled`, `gptimer_running` | initialise, deinitialise, `tickMeasure` resumes a loop |
| scan grid | `movementXY.cpp` | - | indices, direction, limits | `moveOn`, setters, `gridToDacValue` |
| parameters | `ParameterSetter.cpp`, `nvs_helpers.cpp` | - | NVS keys | put, load, defaults |
| boot | `main.cpp` | 0 | - | DAC loop, parameters, USB, WiFi, dispatcher |
| USB and WiFi | `UsbPcInterface.cpp`, `WifiPcInterface.cpp` | 0 | `queueFromPc`, clients, credentials | lines in, lines out, provisioning |
| PI control, ADC, LEDs | `helper_functions.cpp`, `adc_i2c.cpp` | - | `integralError` | Z correction, sample, display |

How a run goes: MEASURE resets the grid indices, clears `queueToPc`, creates
measureLoop and starts the timer. measureLoop suspends itself; the timer
interrupt resumes it; it takes a sample, and when the current is within
tolerance it queues a point and calls `moveOn`. When `moveOn` returns true it
queues an end marker, stops the timer, waits for the queue to empty and deletes
itself. dataTransmissionLoop meanwhile turns elements into lines, and the end
marker into `DONE`. STOP clears flags, resumes suspended loops so that they can
leave, queues an end marker of its own and stops the timer, all while those
loops run on the other core.

What is hard about it: everything is shared through plain globals and through
`vTaskSuspend`/`vTaskResume`, which remember nothing (a resume that comes before
the suspend is lost); one timer serves two kinds of loop and is switched off by
whichever ends, however late; the prefix and the grid belong to nobody; the
position outlives a scan but is only partly reset by the next one.

What makes each part correct:

- scan grid: a scan visits each point of its rectangle once, in order, and ends;
  the DAC values belong to the indices.
- measureLoop, queue and transmission: the PC gets what was recorded, complete,
  once, in order, with the right prefix, and `DONE` after the last point only.
- tunnelLoop: `TUNNEL,n` delivers n samples.
- dispatcher, loops and timer: a loop that waits gets its tick, idle means off,
  a loop never runs twice at a time, every run ends, STOP ends every loop.
- timer: the flags agree with the driver, `ESP_ERROR_CHECK` does not abort.
- DACs and PI control: the piezos stand where the globals say; a correction never
  moves the tip into a current that is too large.
- parameters: never loaded from missing keys, RAM and flash agree, a command sets
  what it says, whenever a reset comes; the WiFi credentials survive.
- serial line and WiFi: no command of the serial line is lost, no line reaches a
  client twice, senders do not mix their frames, no client holds the dispatcher up
  for good; only credentials that work are stored.

## 2. The modules

```
ScanGrid          the grid, its parameters, the X/Y DAC values      movementXY.cpp
 |-- ScanGrid_proofs    theorems about moveOn and the order of a scan
 |-- ScanSession        abstract specification of a scan session
 |    |-- MCScanSession       bounds
 |    `-- ScanSession_proofs  theorems
 `-- RunGlobals         flags, queues, prefix, timer, interrupt     common.cpp, project_timer.cpp
      |-- MeasureLoop                                               tasks/measure.cpp
      |-- TunnelLoop                                                tasks/tunnel.cpp
      |-- AdjustLoop                                                tasks/adjust.cpp
      |-- DataTransmission                                          tasks/dataTransmission.cpp
      `-- Dispatcher                                                controller.cpp
           `-- RunControl     all of them, boot and a client; implements ScanSession
                |-- MCRunControl       bounds
                `-- RunControl_proofs  theorems for every client
                     `-- RunModes_proofs    for a patient one: one run at a time
                          `-- RunDelivery_proofs   what the PC receives

ParamStore        parameters and credentials in the flash           ParameterSetter.cpp, nvs_helpers.cpp
 |-- MCParamStore             bounds
 `-- ParamStore_proofs        theorems

TimerSwitch       abstract specification of the timer
 `-- GpTimer            flags and driver calls; implements it       project_timer.cpp
PiControl         computePiDac as an operator                       helper_functions.cpp
 `-- DacOutput          vspiDacLoop, resetDac, sinusLoop            dac_spi.cpp, common.cpp, tasks/sinus.cpp
Actuators         GpTimer and DacOutput with the loops that use them
 |-- MCActuators              bounds
 `-- Actuators_proofs         theorems about GpTimer, PiControl and Actuators

WsClients         lines to the WebSocket clients                    WifiPcInterface.cpp
WifiStation       boot, /setwifi, reconnecting                      WifiPcInterface.cpp
 `-- PcLink             both, with the serial line and the          UsbPcInterface.cpp
      |                 command queue
      |-- MCPcLink            bounds
      `-- PcLink_proofs       theorems
```

**ScanGrid.** `moveOn` is one action per branch: `MoveRight`, `MoveLeft`,
`Flyback` (one-way scan at the end of a row), `Turn` (two-way) return false,
`GridComplete` returns true. Indices are `uint16_t`: `Increment` wraps.
`gridToDacValue` is computed in `int` and truncated, hence `% Word`; when
`(current - ...) * multiplicator` itself overflows `int` (possible in C++ only
for products beyond 2^31, formally undefined) the model takes the two's
complement result, which is what the build computes.

**ScanSession** is the abstract view: what is recorded, where the DACs stand,
and which operations may come between two points (`ResetDac`, because a late
adjustLoop or tunnelLoop calls it during the next scan). Recording a point and
`moveOn` are one action: nothing else touches the grid between them.

**RunGlobals** holds the state the tasks share. `measurePc`, `tunnelPc`,
`adjustPc` and `dispatcher` are program counters; a step of a task extends to
the next place where another core can see or change something it uses.
`queueToPc` is a sequence bounded by `QueueLength`, and `Enqueue` (an
`xQueueSend` with `portMAX_DELAY`) is disabled while it is full. `ResumeMeasure`
and `ResumeTunnel` act on a suspended task only. `DispatcherBlocked` models the
priorities on core 0: dataTransmissionLoop (1) runs only where dispatcherTask (4)
blocks, that is in the queue receive, in a send to a full queue, or in the
output of its answer.

**MeasureLoop, TunnelLoop, AdjustLoop, DataTransmission, Dispatcher** are
the tasks, one action per step. `MeasureWhile` and `MeasureSuspend` are
separate, because STOP can fall between the loop test and `vTaskSuspend`; so are
`SendPoint`, `SendEnd`, `MeasureDeinit`, `MeasureDrained` and `MeasureFinish`. A
STOP is `StopCommand`, `StopMeasure`, `StopTunnel`, `StopSend`, `StopReport`.

**RunControl** joins them with boot and a client. History variables (`scan`,
`samples`, `startedLeft`, `run`) record what a property needs: `run` has the
points and samples received with their prefixes (`lines`), the reports sent with
another prefix than FIND (`strays`) and the prefix of the `DONE` line (`final`);
no action reads them, except that the client's discipline reads `run.busy` (it has the lines it
received). Refinement: `Session == INSTANCE ScanSession` maps the variables by
name; `SendPoint` is `RecordPoint` or `RecordLastPoint`, `MeasureCommand` is
`Measure`, `AdjustBody` with a TIP is `Tip`, `TunnelReceive`, `TunnelBoot` and
`AdjustExit` are `ResetDac`, `MeasureExit` is `Stop`, everything else stutters.

**ParamStore** stands beside them. app_main's ParameterSetting and the PARAMETER
and SET_ commands of the dispatcher are one thread, executed write by write
(`Construct`, `EraseAll`, `PutDefault`, `PutToken`, `Load`, `WriteSsid`,
`WritePass`); `/setwifi` writes the credentials from the HTTP server's task;
every write may fail, as far as the code goes on after it, and a `Crash` may come
between any two steps. A write is durable once made (`nvs_commit` adds nothing in
ESP-IDF). Every PARAMETER command constructs a ParameterSetting of its own, so it
goes through the check of the keys and, if one is missing, through the defaults.
`ScanGrid`'s `GetParametersFromFlash` is `Load` as the scan grid sees it; a
parameter record there is the contents of keys 6, 7, 9 to 12 here.

**GpTimer** breaks `timer_initialize` and `timer_deinitialize` into one step per
test of a flag, driver call and assignment, because the dispatcher on core 0 and
the loops on core 1 run them at the same time. The driver calls themselves are
atomic (ESP-IDF compares and swaps the state); a call in the wrong state changes
nothing and returns an error, which `timer_deinitialize` ignores and
`timer_initialize` turns into an abort (`aborted`, `Abort`), where the model ends.
Every `ESP_ERROR_CHECK` is there with what makes it fail: `NewTimer` and
`RegisterCallbacks` for lack of a timer or an interrupt, `SetAlarm` for an
`alarm_count` that equals `reload_count`, that is for `measureMs` = 0,
`RegisterCallbacks`, `Enable` and `Start` for the state of the driver. `measureMs`
is any member of `MeasureMs` at each call, since PARAMETER may have changed it.
`TimerSpec` states the discipline the module needs: `timer_initialize` alone,
`timer_deinitialize` as often at a time as one likes; a lemma of
`Actuators_proofs` shows that the loops keep to it. **TimerSwitch** is what a
caller may think of the timer: each call switches it at one instant. RunGlobals
takes that for granted, `ImplementsSwitch` shows it.

**PiControl** gives `computePiDac` as an operator. The gains are doubles in the code
and fractions here; the conversion to `int32_t` cuts towards zero (`Times`). The
sum `integralError` wraps around at `HalfInt`, as the build's `int` does
(`Accumulate`; formally undefined in C++).

**DacOutput.** vspiDacLoop has a higher priority than the loops that resume it, on
the same core, so it preempts them where they resume it and wherever a
transmission ends; while a transmission blocks, they run. A loop therefore
writes one global per step (`Write`, `Assign`) and then resumes (`ResumeVspi`);
`VspiSent` puts into `last` whatever the global holds at that moment, and a resume
while vspiDacLoop is sending is lost. `late` is a history of the axes whose
global has changed during a transmission that was too far to send it. sinusLoop
sends to the DACs itself; each `vspiSendDac` overwrites `buffer[0]`, which is
`buffer0`.

**Actuators** composes the two with the loops as their users: what they do to the
globals and the timer, not the points they record (RunControl's subject). Z
corrections are `Correct`, grid moves `MoveOn`, TIP commands `Tip`, the resume that
ends each of them `Written`, ends of loops `Finish`, `Leave` and, for adjustLoop,
`Park` and `Parked`. None of them waits for vspiDacLoop. Ticks are at least 1.26 ms
apart and three transmissions take about 30 us, but STOP wakes a loop at any time,
and its last iteration may then write during a transmission. Only the client's
starts of a mode wait for vspiDacLoop (`Quiet`), as they come a second after the
last one has ended.

**WsClients.** A Sender is a task that calls `UsbPcInterface::send`. It goes through
the listed clients under `clients_mutex` (`Lock`, `Unlock`); per client it writes a
header and a payload to the socket directly (`DirectHeader`, `DirectPayload`), and
when either would block puts the whole line into the client's queue (`EnqueueLine`,
`DropLine` after 50 ms), or forgets a client whose socket is broken
(`DirectFails`). The httpd task has two roles: `ws_handler` (`WsHandler`,
`QueueWork`) and `raw_ws_worker` (`StartWorker`, `Drain`, `WorkerPayload`,
`WorkerLeaves`), which runs inside that one task and so serves *one client at a
time*; the clients after it wait in `work` and get direct lines only. A frame that
is cut, or opened inside another, garbles the stream of its client for good.

**WifiStation** has the state of the driver (`mode`, `station`, `config`), the bit
`WIFI_CONNECTED_BIT` (`connectedBit`, set by `GotIp`, cleared by nobody), the boot
and `/setwifi` (`TryConnect`, `Provision`, `AttemptFails`); `proven` is a history of
the credentials an address was got with. **PcLink** joins both with uartRcvLoop, `queueFromPc` of length 2 and
the dispatcher as the task that takes commands and as one of the senders.

### Abstractions

- In RunControl the Z axis is reduced to "the sample is in or off tolerance"; both
  are possible at each sample. The throttle of the FIND reports (every 100th) is a
  nondeterministic choice. The Z value is in Actuators.
- In Actuators an error is a member of `Errors`, a grid position a pair of DAC
  values of `GridDac`, the sine a constant `Wave`.
- In PcLink a command is its number and its origin; a line its sender and number.
  Whether a command is answered is a choice. What a worker receives from a queue a
  sender has deleted is undefined; in the model it gets nothing.
- Samples, lines and formatting are not modelled; a point carries its indices.
- In RunControl the timer is on or off; GpTimer and Actuators justify that for the
  patient client, as long as `measureMs` is not 0: RunControl ends nowhere in an
  abort.
- A task handle whose task has deleted itself is left in place by the code;
  resuming it is modelled as having no effect (the freed control block is in no
  list of suspended tasks).
- The client sees what the PC sees. A *patient* client (`Patient = TRUE`) waits
  until the device is quiescent before it starts something: every measureLoop and
  adjustLoop has ended, tunnelLoop is back at its receive, the queues are empty
  (`Quiescent`). For a client this means a pause of a little more than a second,
  the period of adjustLoop. It sends STOP to a
  TUNNEL only when tunnelLoop has taken it up; STOP to MEASURE and ADJUST comes
  at any time. The other client (`Patient = FALSE`) starts the next run as soon as
  it has seen `DONE` or `STOPPED`.

## 3. Runs

| run | cfg | question | result |
|---|---|---|---|
| `scan_session` | MCScanSession | does a scan of every shape of grid visit each point once, in order, at its DAC values, and end? | holds |
| `run_scan` | MCRunScan | MEASURE, STOP, PARAMETER: are the points delivered complete, once, in order; is `DONE` truthful; is ScanSession implemented? | holds |
| `run_modes` | MCRunModes | MEASURE, TUNNEL, ADJUST, TIP, STOP: do the modes share timer, flags, queue and prefix without harm? | holds |
| `param_store` | MCParamStore | resets and failing writes at any point: are parameters complete, RAM and flash equal, commands effective, the SSID kept? | holds |
| `actuators` | MCActuators | timer, DACs and Z correction under all loops: can a flag mislead a driver call, which values are not sent, does the tip move the wrong way? | holds |
| `pc_link` | MCPcLink | clients that block, break and leave, commands from all sides: is anything doubled, mixed, lost or stuck? | holds |
| `scan_start` | MCScanStart | does a scan start at the grid minimum (dac_spi.cpp:153)? | violated |
| `scan_two_way` | MCScanTwoWay | is the grid complete when `moveOn` returns true (movementXY.cpp:21)? | violated |
| `run_polite` | MCRunPolite | does a MEASURE sent on `DONE` finish (README.MD:68)? | violated |
| `run_stop` | MCRunStop | does STOP end measureLoop (controller.cpp:71)? | violated |
| `zero_alarm` | MCZeroAlarm | does every `ESP_ERROR_CHECK` of `timer_initialize` hold (project_timer.cpp:114)? | violated |
| `wifi_validate` | MCWifiStation | does /setwifi store only what it has validated (WifiPcInterface.cpp:547)? | violated |

### Properties of the passing runs

`RasterOrder`, `Complete`, `NoPointTwice`: a running scan has recorded exactly
the part of the rectangle before its point; a completed one all of it; none
twice. The first two speak of *regular* parameters: start within the grid and, for
a two-way scan, start column 0 and initial direction right. What happens otherwise
is finding `scan_two_way` and `ScanEnds`; no point comes twice even then. `MovedAxisIsPlaced`: on an axis that
has left its start index, points are recorded at the DAC value of their index,
in spite of `resetDac` calls by other loops. `ScanEnds`: every scan ends, also
with start indices beyond the grid, when the row index wraps around.

`NothingLost`, `DeliveredInOrder`, `DoneIsComplete`: the pipeline from
measureLoop over the queue and the transmission task to the PC. The order of a scan
(`Earlier`) is that of its rows (`RowNumber`, which counts on through the wrap of a
row index), and in a row that of its direction; the run includes a two-way grid
whose start row lies beyond the grid, so that the row index wraps. `NoOverlap`,
`GuardIsOwned`: no way out of a measureLoop iteration leaves `isLoopExecution` set,
which would send the next MEASURE into errorBlink for ever. `TunnelIsExact`,
`WaitingIsServed`, `IdleIsOff`: what one mode leaves behind does not disturb the
next. None of these says anything of loops of two runs at a time, which the patient
client excludes. `LinesLabelled`: the PC can tell a line from its prefix although
that is a global read when the line is sent. Points are DATA, samples of tunnelLoop
TUNNEL, `DONE` has the prefix of its run (or FIND, when a MEASURE is stopped before
it has found the tunnel). Reports are FIND, except for one: the report
dataTransmissionLoop holds when measureLoop finds the tunnel goes out as DATA. The
property says that it is at most that one, and that it comes before the first
point; it rests on `queueToPcClear` (measure.cpp:46), without which, as in its
mutant, a whole queue of reports would be taken for points.
`ImplementsSession`: refinement. `RunFinishes`: a MEASURE or TUNNEL ends with
`DONE` unless stopped.

`NothingMissing`: no global is loaded from a missing key unless a write has failed
since boot; it rests on the constructor's check of *all* keys. `RamIsFlash`: every
way through a command, also a rejected one, ends with a load. `CommandTakesEffect`:
each token reaches its key. `SsidKept`: SET_PASSWORD finds the SSID again even when
a reset has separated the two writes of an earlier pair; the property excludes a
`/setwifi` between the command's reading and its writing (`overtaken`), where the
code does lose one of the two.

`StateChecksHold`: the flags never lead `timer_initialize` to call the driver in a
state that forbids the call. `FlagsMirrorDriver`, `ImplementsSwitch`: see GpTimer
above. `PlacedUnlessMissed`: when vspiDacLoop rests and nobody is writing, a DAC
differs from its global in two cases only. Either the global has changed while
vspiDacLoop was sending it or had passed it, and has not been sent since: the resume
was lost, and `last` may have taken the value unsent. Or the DAC was last written by
sinusLoop, or by nobody, and the global is what vspiDacLoop sent last: after SINUS
and STOP, `resetDac` does not move such an axis and the DAC keeps the value of the
sine. Both happen in the run. `SinusSteps`: every sample
of the test pattern but the first of a period reaches all axes. That first one has
its bytes swapped once more with each transmission. `NoApproachIntoCurrent`: the
gains, limits and order of clamping never let the integral term outweigh a
proportional term at its limit.

`LineAtMostOnce`, `OvertakenOnlyByDirect`: the two ways to a client neither double a
line nor reorder it, except that a direct line can overtake queued ones (the code
does that whenever a socket recovers before its worker has drained the queue).
`SendersNeverMix`: the mutex keeps senders out of each other's frames; the worker
is not kept out and does mix. `QueueLife`: when a queue can be deleted under its
worker or twice: only after a failed send has removed the client, which the code
allows. `CommandsInOrder`: commands of the serial line are all taken, in order; those from
WiFi may be dropped, answered all the same. `DispatcherGoesOn` (liveness): a sender can wait for a client
whose worker waits for the dispatcher; the 50 ms limits of both queues break the
circle. Its mutant waits without limit.

### Findings

1. **First row off the grid** (`scan_start`). vspiDacLoop computes the DAC values
   before the parameters are loaded; starting a scan does not recompute them.
2. **Two-way scan after a two-way scan** (`scan_two_way`). `currentDirection`
   survives a scan; after an even number of rows the next scan leaves its first
   row after one point and reports itself complete.
3. **MEASURE on DONE** (`run_polite`). The finishing measureLoop clears
   `measureIsActive` after the next MEASURE has set it; that run never finishes.
4. **Lost wake-up** (`run_stop`). STOP between the loop test and `vTaskSuspend`
   leaves measureLoop suspended for ever, with the timer off.
5. **measureMs 0** (`zero_alarm`). PARAMETER stores 0; the alarm of the timer is then
   refused by the driver, and the next MEASURE or TUNNEL resets the board.
6. **Unvalidated credentials** (`wifi_validate`). WIFI_CONNECTED_BIT stays set after
   any connection, and a station that is still connecting with the stored
   credentials refuses new ones unnoticed: `/setwifi` stores credentials that have
   never worked, contrary to WifiPcInterface.cpp:547.

What the models show beside, each as a behaviour of a module and not as a run:

- A PARAMETER command rejected at its i-th token has stored the tokens before it; a
  reset in the middle of one leaves a mixture that the next boot takes for valid.
- After `/setwifi` the device is a station only (WifiStation: `Provision`), although
  README.MD:42 and :149 have the access point advertised always.
- PARAMETER,DEFAULT, and a boot that misses a parameter key, erase the WiFi
  credentials, which share the namespace (ParamStore: `EraseAll`); README.MD:150 has
  them persist.
- WifiPcInterface.cpp:62 means to deliver complete lines; a payload that blocks halfway
  leaves an open frame, and the line is sent once more inside it (`PayloadCut`).
- SINUS while a sinusLoop runs deletes it and, the flag being set, starts no other
  one; the next SINUS after STOP works again (`SinusCommand`).

## 4. Bounds

| bound | in the code | in the runs | why it is enough |
|---|---|---|---|
| `Word` | 65536 | 8 | both wraps (index, DAC value) happen |
| `DefaultMax` | 199 | 3 | compile-time grid, only used before the flash is read |
| grids | up to 65536 x 65536 | up to 3 x 3, one row, one column, one point; one and two-way; even and odd rows; malformed | every branch of `moveOn`, every order of them |
| `QueueLength` | 1000 | 1 or 2 | full, empty and partly full, with the producer blocked |
| `CommandLength`, `TipLength` | 4, 8 | 1 | full and empty |
| `LoopCounts` | any int | 1, 2 | first, middle and last loop |
| `MeasureTask` | unbounded | 1 for the patient client, 2 otherwise | two is the smallest overlap; the theorems cover any number |
| `KeyCount` | 12 | 3 | first, middle and last key; the theorems cover any number |
| `Value`, `Ssid`, `Pass` | numbers, strings | 2, 2, 1 | default and other; two SSIDs tell keeping from overwriting |
| `AdjustTask` | unbounded | 1 | the patient client never has two |
| `Word`, `Byte` (Actuators) | 65536, 256 | 16, 4 | tenth of the range is 1: both limits, both ends of the DAC and the swapped bytes happen |
| `HalfInt`, `Errors` | 2^31, any | 2, -1 | two errors wrap the sum and change the sign of the integral |
| `MeasureMs` | 0 to 65535 | 0, 1 | the refused value and another one |
| `GridDac`, `TipDacs` (Actuators) | any | two pairs, one triple | a write that changes a global, one that does not, one axis or all |
| `WaveSize` | 1024 | 2 | first sample and another one |
| `Client` | up to the sockets of httpd | 2 | one in the worker, one waiting |
| `Sender` | any task that sends | dispatcher, one loop | two compete for the mutex |
| `ClientQueueLength`, `MaxLine` | 32, unbounded | 2, 3 | a queue gets full and a line more |
| `Budgets` | unbounded | seven records; two in MCWifiStation | see below |

MCPcLink bounds a behaviour by a *budget*, an initial value: how many clients come,
lines are produced, commands typed and sent, attempts made. The seven budgets put
the load where the interleavings are: two clients of two tasks; one client with a
full queue; a client that sends and reads; the command queue from all sides;
provisioning from no, wrong and good credentials. A single budget with everything
is out of reach; the theorems about PcLink cover it.

MCActuators has two constraints. `OneMissAtATime` cuts off behaviours in which a loop
begins a further iteration while the transmission that has missed a value still goes
on, `SinusComesLast` those in which another mode follows SINUS. Both only keep the
state space small (2.4 million states); the theorems about Actuators hold without
them.

The proofs have none of these bounds.

`CHECK_DEADLOCK FALSE` is set in MCRunPolite, where the system really stops, which is
what that run shows, and in MCPcLink and MCWifiStation, where it stops when the budget
is spent.

## 5. Fairness

`FairSpec` assumes weak fairness of every task and of the timer interrupt:
FreeRTOS runs ready tasks, core 1 holds the loops at equal priority, core 0 the
dispatcher and the transmission, which the dispatcher lets run whenever it
blocks. Nothing is assumed of the client. `SF_vars(InTolerance(t))` says
that the tip comes into tolerance again and again: that is what the PI control is
for, and without it no scan ends on the real device either. In ScanSession the
same assumption is weak fairness of recording.

PcLink assumes weak fairness of uartRcvLoop, of the dispatcher's receive, of each
step of a sender and of the httpd task once it is handling a request or writing; of
peers, of the network and of the worker's end nothing: a client may stay connected
and silent for ever. The dispatcher takes the
mutex with strong fairness (`SF_vars(Lock(Dispatcher))`): a mutex of ESP-IDF is a
FreeRTOS mutex, which goes to the waiting task of the highest priority, and no
sender has a higher one. The other senders need not ever get it.

## 6. Proofs

Every safety property and every action property of the passing runs is a theorem,
for all values of the constants and from the assumptions named in the modules
alone; so are the refinements. What stays with TLC is at the end of this section.

**The patient client.** The theorems of `RunModes_proofs` and `RunDelivery_proofs`
have the hypothesis `Patient`, as their runs have. It is necessary: with the other
client `run_polite` has two runs overlap. It is an assumption about the PC, not
about the firmware: STOP may still come at any time to a MEASURE and an ADJUST, but
the next run starts only when every loop has ended (`Quiescent`). A measureLoop or
adjustLoop that ends late *beside a new run*, and switches that one's timer off, is
excluded by it; these theorems say nothing of that case, which is open (section 8).
What they do cover is the end of a loop beside the STOP that ends it, with both on
different cores. The theorems of `RunControl_proofs` hold for either client.

**Scan.** `ScanGrid_proofs` has the lemmas about `moveOn`: each branch goes forward
in the order of the scan (`Earlier`), a regular scan stays in its rectangle, and the
points before the new position are those before the old one plus the old one.
`GridIsEven` gives the premise under which `gridToDacValue` does not wrap. From
these, in `ScanSession_proofs`:

- `TypeCorrect`: the modulo and the wrap keep indices and DAC values in a `uint16_t`.
- `RecordsInRasterOrder` and `ScanIsComplete`, from `CoverInv`. `RasterOrder` alone
  is not inductive: it needs to know that the current point lies inside the
  rectangle, else `moveOn` could walk away from it.
- `RecordedOnce`, an action property, for *all* parameters: every recorded point is
  earlier than the current one (`ForwardInv`), and no point is earlier than itself.
  For a start row beyond the grid, rows are numbered through the wrap.
- `PointsArePlaced`, strengthened by `CurrentPlaced`: the DAC of an axis that has
  moved belongs to the *current* index. Only moving, `resetDac` and the start of a
  scan touch it.

**Runs, any client.** `RunControl_proofs`: `RunTypeCorrect`, where `TypeOK` is
strengthened by the facts that make steps of tasks that do not exist yet impossible
(`Unborn`); `GuardAlwaysOwned`, for any number of measureLoops and however they
overlap: a step that leaves an
iteration clears the flag (`LeavesIteration`) and one that does not stays in it
(`StaysInIteration`).

**Runs, patient client.** `RunModes_proofs` rests on `OneRunInv`:

- `OneMode`: at most one of measureLoop, tunnelLoop, adjustLoop is busy, with one
  task, the one the handle names, and it is that of the client's run.
- `HandedOver`: what tunnelLoop may have done already while the dispatcher is
  between `xQueueSend` and `vTaskResume`: run ahead, but not past its end marker
  and not with a tick.
- `StopInv`: what a STOP has cleared stays cleared until the next run.
- `OwnedInv`: a flag is set, and the timer on, only for a busy mode; a loop that has
  not been stopped has its flag and, until it switches the timer off, the timer.

`LoopsNeverOverlap`, `WaitingLoopIsServed` and `IdleLeavesNothingOn` follow.
`TasksImplementSession` adds `SessionInv`, which places the life of a scan among the
steps of its measureLoop: it runs from `measureStart` to the last point or to the
loop's exit. Each step of each task is then mapped to one operation of
ScanSession or to a stutter.

`RunDelivery_proofs`, what the PC receives:

- `LinesCarryTheirPrefix` from `LabelInv`, which elements may be on their way while
  the global prefix has which value, and `StrayInv`, for reports and end markers: a
  report is in the queue only while the prefix is FIND (`Waits`), so that after the
  change to DATA at most the one in the hand of dataTransmissionLoop is left, and it
  comes before any line (`Fresh`); an end marker in that hand goes out with the
  prefix of its run (`Concludes`).
- `TunnelDeliversAll` from `CountInv`: lines, element in hand, queue and loops left
  add up to the count asked for; the end marker is the last element.
- `PointsAreDelivered`, `PointsArriveInOrder`, `DoneFollowsLastPoint` from
  `DeliveryInv`. `RecordInv` has the facts of ScanSession about recorded points for
  the tasks; `FreshInv` says that nothing has been recorded while `queueToPcClear`
  may still come; `WireInv` says that the points on the wire (`Wire`: lines received,
  element in hand, queue) are the recorded ones in the order of the scan; `EndInv`
  that an end marker has none behind it. Each step of each task leaves the wire
  alone, *appends* an element, or *thins* it: takes out elements none of which is a
  point. `WireInv` and `EndInv` are shown once for each of these three.

**Timer, DACs, PI control** (`Actuators_proofs`, in three parts).

- GpTimer, for any number of callers, from `TimerInv`, which says for every step of a
  call what the flags and the driver may be there: `StateChecksAlwaysHold`,
  `FlagsAreRight`, and `CallsAreAtomic`, the refinement of TimerSwitch (a call takes
  effect at its driver call, or at the test that makes it unnecessary).
  `OnlyZeroIsRefused` adds the checks of the arguments: beside a lack of resources a
  `measureMs` of 0 is the only cause of an abort. All of them have the discipline of
  TimerSpec as their premise; the lemma `LoopsUseTimerWell` shows that Actuators
  keeps to it, from `UseInv`: only one loop exists at a time (`OneAtATime`), a loop
  is in `timer_deinitialize` only while it leaves, and none leaves while the
  dispatcher is in `timer_initialize` (`CallsInOrder`). That rests on the patient
  client and on the first tick coming after `timer_initialize` has returned, so the
  lemma is an assumption carried through rather than a result; the results are
  `LoopsKeepTimerSound`, `OnlyZeroReboots`, `TimerFlagsAreRight`, `TimerIsASwitch`.
- computePiDac: `StepIsBounded` (one correction moves Z by at most a fifth of the
  range) and `SaturatedMovesRight`, for all gains and all accumulated errors; both
  rest on lemmas about `Clamp` and on the two limits being equal. With them
  `TipNeverMovesWrong`.
- `DacsFollowUnlessMissed` needs what `last`, `out` and the globals have to do with
  each other *during* a transmission, with writes in between: an axis vspiDacLoop
  has passed is in `late` or shows its global (`Passed`), and what it has written
  last is what is in `last` or has been missed (`Sent`).
  `SinusFollowsWave` needs that the axes served so far
  hold the sample (`Served`) and that nobody else transmits meanwhile
  (`SinusIsAlone`). `ActuatorsTypeCorrect` uses all of these.

**PC link** (`PcLink_proofs`), for any number of clients, senders and budgets:

- `LinkTypeCorrect`; `SendersNeverInterleave` and `QueueIsThere` from `LifeInv`, which
  says that a sender past `Lock` holds the mutex (`Holding`), that a client is served
  by at most one worker (`OneWorker`), and what each combination of list, queue and
  socket means (`Life`).
- `LinesComeOnce` and `OnlyDirectOvertakes` from `OrderInv`. For each client the lines
  still to come, the one in the worker's hand and those in its queue (`Coming`), are
  in order of each sender, up to a mark: the number of the last line that sender has
  done with for this client. What was received through the queue is before what
  is to come; what was received directly is before the mark.
- `CommandsKeepOrder` from `CommandInv`: commands taken and queued are numbered from 1
  on without a gap for the serial line and ascending for WiFi; the command in the hand
  of uartRcvLoop is the next.

**Parameters** (`ParamStore_proofs`), for any number of keys: `StoreTypeCorrect`,
`NothingMissingLoaded`, `RunsOnTheStore` and `CommandsTakeEffect` from `StoreInv`:
what a step knows of its command (`ControlInv`), that the keys before `index` are
written and the store is full at each load (`FilledInv`), that at a load it holds
what the command asked for (`WrittenInv`). `SsidStays`, an action property, from
`SsidInv`: a SET_ command on its way to its writes carries an SSID whenever one is
stored, unless it was overtaken.

**Model-checked only.** Liveness, which is out of the prover's reach: `ScanEnds`,
`RunFinishes`, `DispatcherGoesOn`. The properties of the six violated runs are
false, and `ErrorCheckHolds` is a theorem where `measureMs` is not 0. The impatient
client is model-checked in `run_polite`; what holds for it (`TypeOK`, `GuardIsOwned`) is proved.

## 7. Not modelled

- ADC driver, LED output and formatting are pure input and output; the value class
  `DataElement` has no behaviour; the Python and browser tools run outside the
  firmware. `sdkconfig.h` is generated.
- app_main's idle loop: it reads the ADC and sets the LEDs while no scan runs.
- Functions nobody calls: `timer_start`, `timer_stop`, `mUpdateTip`,
  `normToMaxMin`, `parameterIsValid`.
- Two modes at a time in Actuators, or SINUS beside another loop: the patient client
  does not ask for them. RunControl has the impatient client for MEASURE.
- A loop that ends late beside a new run (section 6): the patient client excludes it.
- That the first tick comes after `timer_initialize` has returned (1.26 ms later), and
  a client that starts a mode after vspiDacLoop has come to rest, are assumed in
  Actuators.
- The sizes of lines and commands: a line of 100 characters, a queue item of 512
  bytes read into 256, truncation, frames cut to 1023 bytes. A command is not taken
  apart.
- Ping, pong and other frames, the handshake of a WebSocket, handles and their
  memory. A socket serves one connection; descriptors are not reused.
- Assembling a line from serial input. Input that arrives while uartRcvLoop waits for
  room in `queueFromPc` stays in the ring buffer of the UART driver
  (UsbPcInterface.cpp:44); an overflow of that buffer, which loses characters, is
  left out, so `CommandsInOrder` counts from complete lines on.
- The access point that `/setwifi` switches off and the credentials that
  PARAMETER,DEFAULT erases are in the models (section 3) but no run is about them.
- What undefined behaviour may do beyond the outcome named in section 2.

## 8. Plan

1. The impatient client for TUNNEL, STOP and ADJUST in RunControl, a loop that ends
   late beside a new run included, where its state
   space allows, and theorems about what the delivery properties become for it.
2. Theorems about the behaviours section 3 lists beside the findings: a frame stays
   cut only where the peer's socket blocked or broke; a mixture of parameters stays
   a complete set.
3. The intake of commands (PcLink) and the dispatcher that carries them out
   (RunControl) as one composition: a STOP typed while both queues are full.
