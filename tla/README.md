# Formal models of the mobile robot

TLA+ models of the mobile robot's base controller (control core, command paths,
safety chain, micro-ROS client with its memory pool and serial ring) and of the
ROS nodes that decide about trips and emergencies (mission, phone bridge, care
telemetry), the TLC
configurations that check them on small instances, and TLAPS proofs of the
properties that matter most for every value of the parameters. Time-outs,
sizes and limits named below in capitals are the constants of
`firmware/base_controller/App/Inc/app_config.h`.

## The system

The robot has two halves. An STM32F446 **base controller** (`firmware/`, C,
FreeRTOS, about 8.6 k own lines) drives two motors; a Raspberry Pi runs the
**ROS 2 packages** (`software/ros_pkgs/`, Python): mission, phone bridge, care
telemetry, marker following, odometry. They talk over micro-ROS (USART1); a
second, ASCII command link (USART2) serves tests and tuning.

| Part | State it keeps | Operations | Hard behaviour |
|---|---|---|---|
| control core (`control_core.c`, `motor_safety.c`, `speed_control.c`, `motor_output.c`) | watchdog stamp, fault latch, mode, command, targets, integrators, tick counters | `on_tick`, `on_command`, `on_stop`, all ending in `control_commit` | wrapping 32-bit clock and counters, merged ticks, sequences of mode changes |
| legacy command path (`app_main.c`, `protocol_ascii.c`, `rx_ring.c`, `control_ack.c`) | receive ring, fault epoch, line assembler, sequence number | receive/error interrupts, `app_step`, `command_poll`, `command_accept` | interrupts between any two steps, damaged and lost bytes, late results |
| RTOS glue (`rtos_app.c`) | length-1 mailboxes, notification bits, pending faults | ControlTask, HealthTask, LegacyIoTask, posting and waiting | preemption, merged notifications, overwritten mailboxes |
| safety chain (`health_policy.c`, HealthTask, IWDG) | last heartbeat, stall time, IWDG counter | stall check and refresh every HEALTH_PERIOD_MS | a part stops, comes back, or is late |
| micro-ROS client (`agent_link.c`, `micro_ros_app.c`) | connection state, back-off, entities, epoch | ping, create, spin, destroy; `/cmd_vel`, `/base/status` | lost link, failed creation, delayed messages, blocking calls inside a turn |
| static pool (`static_pool.c`) | headers in its memory, free list, metrics | alloc, calloc, realloc, free | fragmentation over reconnections, exhaustion, double free |
| USART1 ring (`platform_uart1.c`) | DMA ring and position, tail, counters | read, re-arm; receive and abort interrupts | the DMA laps the reader silently; a restart meets a pending abort |
| IMU, battery, encoders | see `PROJECT.json` | | bus failures, counter wrap |
| mission (`machine.py`, `node.py`, `safety.py`) | mission state, queue of service calls, SOS and link timers | trip commands, results, ticks | late service results, retries, time-outs, crash in a trip, a copied state that is a tick old |
| phone bridge (`bridge.py`, `sos.py`) | active session, active SOSs, kept clears, link status; dedupe window, places | hello, take-over, SOS request, clear and answer, ticks | half-open sockets, coroutines suspended in a send, retries racing answers, restart |
| care telemetry (`agent.py`, `outbox.py`) | open and closed SOSs, SQLite outbox, back-off | ROS callbacks, drain, sweep of left-over nodes | crash between send and delete, full outbox, lost answers, power loss |

Tasks have fixed priorities: Control 5 > Health 4 = IMU 4 > MicroRos 3 > LegacyIo 2.
ControlTask is the only writer of the motor registers, except
`platform_motor_kill()`, which any task may call and which only switches off.

What makes each part correct, in one line each: no duty outlives its command's
watchdog time, and a latched fault is final (core); only lines as the host sent
them are executed and an `ok` is true (command path); a dead control loop is cut
off in bounded time and a healthy one is not (chain); a late command gets no new
time and a lost link stops the base, yet it always reconnects (micro-ROS);
following is off outside a trip and every stop is carried out and ends (mission);
a trip does not outlive the phone link or an unanswered SOS (watches); memory is
neither lost nor given out twice (pool); what is read is the stream, or a counter
says that it may not be (ring); app, bridge and mission agree about an SOS again
after any disturbance (bridge); the position of a closed SOS leaves the database
and does not come back (telemetry).

## Modules

| Module | Models | Extends / used by |
|---|---|---|
| `Drive` | what the control core promises whoever commands it: the abstract specification | `ControlCore` implements it |
| `ControlCore` | `control_core.c`, `motor_safety.c`, and the CCR/MOE registers | `INSTANCE Drive`; `MCControlCore`, `ControlCore_proofs` |
| `LegacyIo` | USART2 interrupts, LegacyIoTask, mailboxes, ControlTask's side of them | `MCLegacyIo`, `LegacyIo_proofs` |
| `SafetyChain` | TIM6, heartbeat, HealthTask, IWDG, fatal hooks | `ControlChain` |
| `ControlChain` | `SafetyChain` around the core, under names that can stand beside `ControlCore` | `INSTANCE SafetyChain`; run `chain`, `ControlCore_proofs` |
| `MicroRos` | `agent_link.c`, the turn of `micro_ros_task`, `/cmd_vel`, `/base/status` | `MicroRos_proofs` |
| `Mission` | `machine.py`, the call queue of `node.py`, the follow node's enable service | `Mission_proofs` |
| `SafetyWatch` | `safety.py` (SOS monitor, link watch) and the callbacks of `node.py` that feed it | `SafetyWatch_proofs` |
| `Heap` | what `static_pool.h` promises its owner: the abstract specification | `MicroRos_proofs`; `StaticPool` implements it |
| `StaticPool` | `static_pool.c` down to the headers in memory | `INSTANCE Heap`; `StaticPool_proofs` |
| `Uart1` | `platform_uart1.c`'s receive side, `transport_read()` | `MicroRosRing` |
| `MicroRosRing` | `Uart1` as a part of MicroRosTask, under names that can stand beside `MicroRos` | `INSTANCE Uart1`; run `uart1`, `MicroRos_proofs` |
| `PhoneSos` | connections, sessions, link status and SOSs of the phone bridge; the app | `PhoneSos_proofs` |
| `Telemetry` | the SOS part of the telemetry agent, its outbox and sender, the database | `Telemetry_proofs` |

`ControlCore` is the detailed model of the controller and `Drive` the interface it
implements. The other firmware modules contain ControlTask only as `Drive` allows it: a
command drives until CMD_WATCHDOG_MS after its acceptance stamp (`Accept`, `Keep`: the
`Command` and `ControlCycle` of `SafetyChain`), a stop or an expiry leaves nothing behind
(`Stop`, `NothingLeftOver`), a latched fault refuses (`Latch`, `FaultIsFinal`). That they
contain no less than `Drive` is an argument; that the core does no more than `Drive` is
checked and proved (`ImplementsDrive`).

**Drive.** True time, no clock, no wheels, no modes. `ControlCore` maps to it with
`demanded` = some duty or target is remembered (`Demand`), `allowed` = `output_allowed`,
`powered` = MOE, `faulted` = some fault bit. Handlers map to actions: `OnTick` and
`RejectCommand` to `Keep`, the applied commands to `Accept`, `OnStop` to `Stop` or `Latch`,
`MotorKill` to `Kill`, `Millisecond` to `Elapse`; `TickIsr` changes nothing `Drive` sees. The
permission is exact until `AgeCap`; later the wrapped clock may say anything, which does
not matter as there is no demand then. Since a stop may come at any time, `D!Spec`
alone would let a tick drop a demand that is still alive; `ImplementsDrive` therefore also
says which of the core's steps are `Keep` (`Passive`).

**ControlCore.** One action per handler: `OnTick`, `OnCommand` (its early
returns are `RejectCommand`, its cases `ApplyDuty`, `ApplyVel`, `ApplyStop`),
`OnStop`; `Commit` is `control_commit()`. `MotorKill`, `TickIsr` and
`Millisecond` are the environment. `lastCmd`, `faults`, `timedOut` are
`motor_safety_t`; `age` and `sinceCommit` measure true time, which the wrapping
`now` cannot. The PI regulator is any duty and integrator within the limits that
respects its branches: target 0 coasts, the integrator moves only in a cycle of
exactly one period.

**LegacyIo.** A byte is the frame and position it was sent as; the code only
sees whether it is a newline. A line that is not exactly one frame may or may not
parse (`Parses`), so `NoSplicedCommand` covers every accidental command. The steps of
LegacyIoTask are separated wherever an interrupt or ControlTask can come between
them. `Preemptive = FALSE` drops the priorities, so ControlTask may be late by
any amount; the acknowledgement must survive that.

**SafetyChain.** Time in control periods. `due` is the phase of
`vTaskDelayUntil()`; a late HealthTask runs several turns in a row, each adding
a full period to the stall time as the code does. TIM6 and ControlTask may stop and
come back, HealthTask may stop, a hook may halt the system.

**MicroRos.** One turn of the task is a sequence of steps; time may pass between
any two of them, up to `MaxBlock`. The clock error of the synchronised epoch is
`skew`. Pings, creations, spins and synchronisations may fail at any time.
A creation (`DoCreate`) zeroes the handles and stops at any of its calls; the
`entities_destroy()` of the same turn is a step of its own (`DoUndo`), and so is that of a
lost link (`DoDestroy`). `created` is `s_entities_created`, `held` the entities whose memory
is not given back. A `fini` that fails may leave its entity in `held`, and
`entities_destroy()` releases nothing when `rclc_support_init()` has failed, since the flag
is set only after it (`micro_ros_app.c:465-470`, `540-543`). The next creation overwrites what is
left, as `agent_link.c:170` says: that memory of the pool is lost, so that repeated failures
of this kind use the pool up. The model calls these entities `refused`.
`NoEntityForgotten` says that there are no others: no path overwrites what nobody asked to go.

**Mission.** One operator per method of the machine, one action per callback of
the node. The node is single-threaded, but the follow node and the ROS graph move
on during a callback, so each turn of `_pump()`'s loop is a step (`PumpSend`,
`PumpPop`, `PumpDone`) and no other callback starts before it returns (`pc`). The exit in a trip is one step
(`Exit`): the second it may spend spinning is left out.
`OnTick` is the 50 ms timer and one unit of time. `calls` is the node's queue,
`fut` the future of its head, `wire` the requests on their way: a call that has
timed out leaves `calls` and stays in `wire`. Either node may die at any time;
`Boot` is the constructor, with its one disable. `DiscoverMax` bounds how long a live
service stays undiscovered; it must not exceed the time-out of that disable, which
is given up otherwise and not retried in `idle`. Ids, texts and the marker status
only reach what is published and are left out.

**SafetyWatch.** Both watches work on `copyState` and `copyTrip`, refreshed by `OnTick`
only, while commands, markers, acknowledgements, link messages and the answer to
the enable call change the mission in between. The mission is reduced to the
state changes that `Mission` has. An acknowledgement of an SOS does not arrive within the tick
that published it (`settled`): the bridge waits seconds for the phone. The history
variables `lossFor`, `badAge`, `sighted` and `refused` record what the watches
should have noticed, independently of their own timers; `lossFor` starts again with each
trip and each `connected=true`, and with nothing else.

**Heap and StaticPool.** `Heap` knows extents, not lists: a request may be
answered by any free extent of the right length and fails only when there is no
room. `StaticPool` has a header at every address of a block and follows the
code's walk of the free list (`Walk`; `Behind` and `FirstFit` are where its loops
stop); payloads overwrite what was there. `ImplementsHeap`
maps the blocks marked as in use to the extents held. The client frees what it
holds, and may free again what nobody has overwritten, the case the code promises
to catch (`live_block()`). A call is one step, since only MicroRosTask calls.

**Uart1.** A byte is its position in the agent's stream. Bytes, errors and the end
of an abort fall between any two steps of the task, also between two bytes of a
copy; `fresh` counts the bytes since the last look at the ring. Any number of them may come
while the task does not look, as it does not in WAITING (turns that only re-arm, for
500 to 4000 ms) or in a write (up to 20 ms). Only during a copy `fresh` is limited,
to `Burst`: a copy does not block, is preempted by three short tasks at most, and what comes
from the look to its end has to fit above the mark (`Margin`, 257 bytes or 2.8 ms at
921600 baud with the real 2048 and 1792). A stream that laps the ring while nobody looks leaves
no trace in the counters. `StreamIsHonest` says what is left: no byte twice, none out of order,
and a gap only where more than the margin came between two looks (`rush`), at the
first byte taken after it; above, the framing's checksum drops the frame that has it.
`owed` is the byte the reader should get next. The first `rx_arm()` may fail as well (`Init`).

**PhoneSos.** One asyncio loop: `loop` is the coroutine that runs, and it is
suspended only in a send. A send is queued in `out` of its connection with the
coroutine that waits for it, and completes (`Flush`) or fails (`SendFails`) later; a
socket whose other end is gone takes messages that nobody reads. `_on_hello()` and
`_tick()` therefore are several steps each; `request()` and `clear()` are one step
up to their send and one at its end (`Resume`). `missed` records the clears
that nobody keeps. Mission has one SOS open at a time, as `safety.py` ensures. Intervals
are not timed: one may be over in any tick.

**Telemetry.** ROS callbacks hold the agent's lock and are one step each. The sender
thread is at `sending`, `executed` or `sweeping` while a request is out: the
database may have executed what is then reported as failed. `kept` is how many of
the operations it has read are still in the outbox. `Stop`, `Crash` and `PowerLoss`
end the process; the outbox file survives, after a power loss as it was at the last
WAL checkpoint (`synchronous=NORMAL`). A request that was given up is executed
by then or never: the client closes its socket, and a server that still executes it
after the next request was answered is left out. A power loss stops mission as
well. A step under way when `stop()` is called may still begin the sweep.

Mutant operators: each property is accompanied by an operator that changes one
definition as a plausible bug would (for instance `ExpiredOffByOne` for
`Expired`); it is defined just before the definition it stands in for, is used by nothing,
and `PROJECT.json` pairs it with the property it breaks.

## Runs

| Run | Bounds | Shows |
|---|---|---|
| `core` | one wheel, clock of 6 ms, watchdog 2, counters mod 3, up to 2 merged ticks, raw values beyond the clamps, two fault bits | the eight properties of the core, the refinement of `Drive` among them (`MotionNeedsCommand`, whose hazard the refinement covers, is proved and not run); the clock turns over while nothing is commanded |
| `io_splice` | 3 frames of 2 bytes (drive, spd, stop), ring 3, line 2, 2 faults, 1 expiry, no priorities | no spliced command, no false `ok`, whatever is damaged or late |
| `io_answers` | 2 frames of 1 byte, ring 2, 2 faults, transmission and re-arming may fail, priorities, fairness | `ok` means the duty is applied; faults end in rest |
| `chain` | watchdog 2, health period 2, stall 2 periods, IWDG 4..5, lateness 1, fairness | bounded reaction, no kill or reset of a healthy board, dead parts are reset |
| `mission` | enable time-out 2, disable call 1, retry 1, stop time-out 4, 3 commands or safety stops, 1 death, fairness | following settles off outside trips, a stop is carried out and ends in time, a retry is not forgotten, a safety stop ends in `error` |
| `mission_late` | as `mission`, following as wanted | a violation, see below |
| `watch` | loss 2, recovery 2, marker stale 1, link stop 2, link stale 1, 2 trips, 2 SOS | link loss and unanswered SOS end a trip, recovery is real and is noticed, no SOS on an old sighting |
| `link` | watchdog 2, back-off 2..3, ping 2, limit 2, 2 entities, turns of up to 1, skew 1, 1 message, fairness | stale commands, link loss, no entity forgotten, reconnection |
| `pool` | 9 units, headers of 1, payloads 0, 1, 2, 4 | the blocks tile the pool, the metrics are true, the pool implements `Heap` |
| `uart1` | ring 6, mark 4, reads of 2, up to 3 bytes during a copy, 14 bytes (more than twice round, also between two looks), 2 errors, fairness | the stream is honest, reception resumes |
| `phone` | 2 SOSs, 2 connections, 1 retry, 1 kept clear, 1 restart, fairness | app and bridge agree, the link follows the session, one failure at most, mission is told |
| `telemetry` | 2 SOSs, outbox of 3, batches of 2, 1 location, refusals, 1 stop, crash or power loss, fairness | no node comes back, the database shows the open SOSs, closed ones leave |

The bounds keep the order relations of the real constants (watchdog below the alive-ping
period or equal to it, stall limit two health periods, IWDG above one health
period plus lateness) and are large enough for each hazard: the ring overflows,
a line overruns its buffer, counters and clock wrap, the back-off reaches its cap,
the pool fragments and is exhausted, the DMA laps the reader, a kept clear and the
oldest operation are dropped. One connection is enough for a half-open socket, two for a take-over.
The proofs remove the bounds for the safety properties of every run.
Each module's `TypeOK` is there for the proofs and for work on the model; the runs
spend their time on the other properties.

## Disagreements with comments and documents

The run `mission_late` exhibits behaviour that a comment denies. The other
configurations below each state what a comment, document or message
definition says as the property of that name; `tlc -config <file> <module>` prints the
counterexample. They are not among the runs.

| Configuration, property | Says | Does |
|---|---|---|
| `Mission_late.cfg`, `LateEnableIsOffTrip` (run `mission_late`) | `machine.py:112`: a late enable is switched off when the trip is already cancelled, in error or idle | answers carry no identity: when a disable left over from before confirms the stop of a trip whose enable still waits, the next trip becomes active on that answer, and its own answer then counts as late. The trip stays `active` with following off |
| `MCLegacyIo_rxanswer.cfg`, `RxFaultAnswerMeansZero` | `control_ack.c:24`: the damage has already made the output 0 | a fault between the check and the post is served before the command; the duty is in CCR at the answer and is stopped by the next `sync_rx_faults()` |
| `SafetyChain_kill.cfg`, `KillEndsInReset` | `rtos_app.c:671`: fatal path, waiting for the reset | a heartbeat that resumes in time lets the refresh go on: no reset, MOE off for good, no fault latched |
| `MicroRos_status.cfg`, `FalseMeansStopped` | `BaseStatus.msg:16`: false = command expired, motors stopped | the age is taken from the start of the turn and wraps for a command accepted later in it: false, and 4.29e6 s, while driving |
| `SafetyWatch_reuse.cfg`, `LinkLossStops` with one id | `safety.py:206`: a new trip, including reuse of the same id | if the enable is answered before the next tick, the watch never sees `starting`, keeps the id as stopped and does not stop the second trip. The bridge gives fresh ids; a command published by hand may not |
| `Uart1_twice.cfg`, `NothingReadTwice` | `platform_uart1.c:40`: the tail goes back so that no rubbish is read as valid bytes after a restart | the tail goes back before `HAL_UART_Receive_DMA()`, which fails while the abort is pending; the read that follows in `transport_read()` returns the bytes before the DMA's position again. `rearm_fail_count` tells, and the framing above has a checksum |
| `Uart1_lap.cfg`, `LapIsAnnounced` | `platform_uart1.c:32`: the DMA gives no sign when it laps the reader, so that the honest observation is to count before it overflows | in WAITING the task re-arms and does not look; a peer that goes on sending laps the ring, and the next look may find it below the mark. No counter moves |
| `PhoneSos_clear.cfg`, `ClosedSosForgotten` | `sos.py:10`, `PROTOCOL.md` 10.6: a clear that could not be delivered is sent in the next session | a clear that was written to a socket whose other end is gone counts as sent; the next session does not repeat it and the app goes on showing the SOS |
| `Telemetry_overflow.cfg`, `ClosedSosIsDeleted` | `agent.py:11`: the position of a closed SOS is deleted | a DELETE dropped by a full outbox is repeated by no one before the next start (the sweep runs once per run and skips SOSs it has seen closed) |

Further remarks. `control_core.c:105` says that only a new valid
command allows output again, but the modular comparison of `motor_safety.c:41`
allows it again for one watchdog time per turn of the clock (49.7 days); harmless
by `NothingLeftOver`, apart from a spurious expiry edge. `control_types.h:82` says that `applied_left_pm`
remains when the watchdog expires; `NothingLeftOver` shows it is 0.
`bridge.py:371` and `588-589` publish the link as up after awaits during which the
session may have been closed, so the status may be up without a session until the
next change (`LinkFollows` is one-sided for that reason). Each new session
restarts the retry interval of an unanswered SOS (`sos.py:103`), so an app that
reconnects faster than the interval and never answers delays the failure report; `Told` holds under
the assumption that an interval ends now and then. A clear that is kept while a
session is active (its send failed) waits for the next session. A mission that
dies with an SOS open leaves it active in the bridge. An app that answers `received=false`
after the bridge has given an SOS up makes it report `app_received=false` once more
(`sos.py:132-136`); mission stops at most once (`safety.py:109`). `PhoneSos` does not tell
answers apart: `FailsOnce` is about giving up. With MICRO_ROS built in (it is off by
default) a `/cmd_vel` or the urgent stop of a lost link may come between a result and its `ok`;
`LegacyIo` models the build without it.

## Fairness

- `LegacyIo`: weak fairness of both tasks and of the receive interrupt.
  ControlTask is woken by each notification, LegacyIoTask wakes at least every
  LEGACY_IO_POLL_MS, a pending interrupt is taken. Nothing is assumed of the
  host, of errors or of expiry.
- `SafetyChain`: time passes however often parts fail and return (strong
  fairness of `Tick`), a living task gets the CPU, the IWDG fires.
- `MicroRos`: the task is scheduled and time passes; an agent that is reachable does
  not leave every ping and every creation unanswered for ever (strong fairness
  of their success). This last one is an assumption about the link and about a
  pool large enough for the entities and for what failed clean-ups have lost, not about
  the code.
- `Mission`: the executor finishes its callbacks and runs the timer, the follow node
  serves requests and is restarted when it dies, the graph notices. Nothing is
  assumed of the user, of odometry or of the order of answers.
- `Uart1`: the task loops, an abort completes. Nothing is assumed of bytes or errors.
- `PhoneSos`: a send completes or fails, ticks follow each other (`_tick_loop()`), and the
  retry interval of an SOS is over in some of them (strong fairness, see the remark above).
  Nothing is assumed of the app, the network or mission.
- `Telemetry`: systemd starts the agent again (`mr-care-telemetry.service`,
  `Restart=on-failure`), the sender thread runs, and the database answers again and
  again (strong fairness of its answers): an assumption about the network.

Deadlock is checked except in `phone` and `telemetry`, where everything may be over:
SOSs closed, queue empty, connections used up.

## Proofs

`ControlCore_proofs` assumes `ClockAssumption` (the watchdog time is at most half a
turn of the clock, and a commit is never missed for a whole turn) and
`DataAssumption`. The inductive invariant joins the types to what links the
modular clock with true time: the fed stamp is `age` ago as long as `age` has not
saturated, and output is allowed only on a stamp fresher than the watchdog
time at the last commit. `RunawayBound` is not inductive without it: after a
wrap an old stamp looks fresh, and only the absence of any demand
(part of `NothingLeftOver`) makes that harmless. From it follow `TypeCorrect`,
`RunawayIsBounded`, `DemandIsForgotten`, `FaultsCutOutput`, `TicksAreAccounted`,
`FaultsAreFinal`, `MotionIsCommanded`, `ExpiryIsCountedOnce`, `OkIsTruthful` and `ReversalIsClean`.

`CoreImplementsDrive` is the refinement, handler by handler. It needs one fact more
(`FollowsTarget`): in closed loop no duty is remembered for a wheel without a target, since
the next tick would drop it before its time. As long as there is a demand its age is below
`AgeCap`, where the clock tells it exactly, so a commit ends it when its true time is over
(`CommitIsKeep`) and shows the permission accordingly (`CommitPermits`).

The same module proves what surrounds the core (`SafetyChain`, through `ControlChain`),
an instance with its own constants and variables. It assumes `LimitsAssumption`: a healthy
HealthTask feeds within the shortest IWDG period, and is never late by a whole stall limit. `ChainInv`
says how far the heartbeat can be behind given HealthTask's phase, the
observations it has missed and the age of the last refresh; from it
`ChainTypeCorrect`, `PoweredDriveIsBounded`, `HealthyBoardStaysUp` and `KillsAreDeserved`. With
the real constants (periods of 10 ms: watchdog 20, health 5, stall 2 x 5, IWDG
17 to 47 over the LSI's tolerance) a dead loop with a live HealthTask drives at most 200 + 100 +
50 ms plus HealthTask's lateness.

`LegacyIo_proofs` assumes `FrameAssumption`, which leaves lengths and kinds of the frames,
the sizes of ring and line, faults and expiries free. `NoSplicedCommand` needs to know
where every byte between the wire and the mailbox comes from: `StreamInv` says that, while no
receive fault is pending, register, ring and line hold one unbroken piece of the
host's stream that starts at the beginning of a frame, and `CommandInv` that a command in
a mailbox is a whole frame. `AnswerInv` ties answers to the sequence number of the command
they are about. From `IoInvariant` follow `IoTypeOK`, `NoCommandIsSpliced` and `OksAreTrue`
with no priorities at all, and `OksMeanDriving` under `Preemptive`: without
the priorities a stop may come between a result and its answer.

`MicroRos_proofs` assumes `MicroRosAssumption`: times of at least a millisecond, and a clock
error of at most the watchdog time. `LinkInv` adds to the types what the phase of a turn
knows of the state (`PhaseInv`), that a drive is younger than the watchdog by the MCU's
reckoning and by at most the clock error older in truth (`AgeInv`), and that the entities
held are still to be asked to go, as `s_entities_created` says, or were asked in vain; the flag
and the state of the link go together but for the steps in between (`EntityInv`). Theorems:
`LinkTypes`, `StaleCommandsNeverDrive`, `LinkLossAlwaysStops`, `EntitiesAreAskedFor`.

The same module proves what the task stands on, each as an instance with its own constants
and variables. `HeldNeverOverlap` (of `Heap`) needs no assumption: the types and `NoOverlap`
together are inductive, since an answer is a free extent and a growing `realloc` holds both
extents until the old one is given up. With `PoolImplementsHeap`, below, it carries
over to the allocator. `RingIsHonest` (of `Uart1`, through `MicroRosRing`) assumes
`RingAssumption`: the bytes that arrive during a copy fit above the high-water mark, of
which the look itself leaves one byte more. Of what comes between two looks it assumes
nothing. The code computes the number of unread bytes modulo the ring, so that a full or lapped ring
looks emptier than it is; `RingInv` speaks of two numbers as long as neither counter moved: the
`d` places by which the DMA is ahead of the reader, which is what the code sees, and the `u` bytes
of the stream that are really unread. The newest of those are in the ring, behind the DMA's
position; the two numbers differ only after a lap, which takes a rush, and the first byte that is
copied makes them equal again. The wrap of the indices is worked out once, for any size
(`RoundTheRing`).

`StaticPool_proofs` assumes `StaticPoolAssumption`: natural numbers and a header of at least
one unit. It holds for an unusable pool too. The properties speak of the list as the
loops walk it, a recursive function; the invariant (`PoolInv`) speaks of a set `L`: the header of
each listed block, and of `start`, points to the least member of `L` above it or to
the sentinel (`Chain`), `L` and the blocks in use lie beside each other in the pool (`Blocks`) and
cover it, no two members of `L` touch (`Apart`), and the counts are those of the covered units.
The walk visits exactly `L`, in order of addresses (`WalkFacts`), so `Behind` is the listed
block before an address and `FirstFit` the first that is large enough. Then the operators
keep a memory in order one by one: unlinking, giving the rest of a block back (`Carve`),
marking and writing over it (`Handed`), and `insert_free()` with its two joins, the longest
(`PlacedKeeps`). The library's induction theorems cannot be used here, since they take an operator;
induction is by the least element of a set of numbers instead (`LeastOf`, from the
well-foundedness of strict inclusion on finite sets), and the set is written out each time.
From `PoolInvariant` follow `PoolTiled` and `PoolMetrics`, and with it each call is shown to be one of
`Heap`'s: what `alloc` returns is a free extent of an admissible length (`TakenAnswers`), and
when no listed block fits there is no room, since a stretch of free units lies in one listed
block (`NoFitNoRoom`). That is `PoolImplementsHeap`.

`Mission_proofs` assumes `TimeAssumption`, of which `DiscoverMax <= CallTimeout`
matters: the graph shows a restarted follow node before the call that waits for it gives
up. `MissionInv` needs `GraphInv` (a service that is not in the graph belongs to a node
that is off, except just after a restart) and `StopInv` (a stop has its disable queued,
under way, answered or to be retried). Theorems: `MissionTypeOK`,
`FollowingEndsOff`, `StopsNeverStall`, `SafetyStopsEndInError`.

`SafetyWatch_proofs` assumes `WatchAssumption`: a marker counts as stale before it
counts as lost. The watches see the mission only at ticks, so `WatchInv`
relates their copies to the mission: which trips they can have missed (`IdInv`), how long
the link has been down for a trip they know (`LossInv`), what a judged SOS allows
(`AnswerInv`). `LinkLossAlwaysStops` has the hypothesis `~ReuseIds`: with a trip id that is used
again it is false, as `SafetyWatch_reuse.cfg` shows. The others hold either way: `WatchTypes`,
`RefusedTripsStay`, `RecoveryAlwaysCloses`, `RecoveriesAreReal`, `SosOnlyAfterSighting`.

`Telemetry_proofs` assumes `TelemetryAssumption`, natural numbers of which only the outbox
limit and the batch are not 0. What is still to be executed is the sender's batch
followed by the outbox behind it. `TeleInv` says that the front of the outbox is
the end of the batch (`AlignInv`, which the overflow of the outbox preserves by counting
`kept` down), that in this order, and in that of the last checkpoint, no SOS is
written behind its deletion (`OrderInv`), and for each SOS what new, open, deleted
and swept mean for those operations (`NewInv`, `OpenInv`, `GoneInv`, `ShowInv`). Outbox.put()
is reduced once to "d operations make room" (`PutFacts`); each step is then looked at from the
point of view of one SOS. Theorems: `TelemetryTypes`, `DeletedNodesStayAway`, `OpenSosIsShown`.

`PhoneSos_proofs` assumes `PhoneSosAssumption`: natural numbers, and at least one clear that
can be kept. The three properties are about messages that are not there any more, so
`PhoneInv` follows a message about one SOS on its way: in the send queue of a connection,
then on the wire, then in what the app shows. Only the app's own connection leads anywhere,
and it is that of the active session or has nothing queued (`ConnInv`); at most one SOS is
active (`ActiveInv`). On that way no request comes behind a clear of the same SOS
(`OrderInv`), an active SOS is shown, asked about or still to be reached by the hello
(`AskedInv`), and a closed one that is shown has a clear under way, one that its coroutine
will keep if the send fails, or one that was kept or missed (`ClearedInv`). `ToldInv` ties
what mission was told to the fields of the SOS, and with it `FailsOnce` survives retries,
acks and restarts. From `PhoneInvariant` follow `PhoneTypeOK`, `SettledAppsAgree`,
`LinkFollowsSessions` and `OneFailureReported`.

Only model-checked is liveness (`FaultLeadsToRest`, `DeadPartIsReset`, `Reconnects`,
`StopIsCarriedOut`, `ReceptionResumes`, `Told`, `ClosedSosLeaves`), which the prover does not
handle. Every safety property of a run is a theorem as well.

## Not modelled, and the plan

Not modelled for good:

- HAL, CMSIS and FreeRTOS, vendored, and the generated start-up code. They are
  used as documented, and they are nearly all of the repository's C: about 190 k of 204 k
  lines. The models cover the repository's own code, so their share of all lines is
  small by nature.
- Floating-point control laws, kinematics, the bias estimator, the battery filter and odometry
  integration, out of TLC's reach; the encoder's modular difference, pure arithmetic.
- Register protocols (IMU, ADC, timers), launch files, message definitions, CAD, the
  bench smoke test.

Left out of modelled parts: `/joint_states` and `/imu` of the micro-ROS client; trip
and place commands, deduplication and locations of the phone bridge; status, diag,
trip events, pruning and push of the telemetry; `line_builder.c`; the marker
tracking that decides what the follow node does.

Next, in order:

1. The trip commands of the phone bridge with their deduplication over sessions,
   composed with `Mission`'s commands.
2. `Drive` in place of the reduced ControlTask in the other firmware modules, so that
   what is now an argument about them becomes a composition.
3. The phases and loss timers of marker alignment, its control laws abstracted.
