# TLA+ verification of the industrial-ethernet gateway

The repository is the firmware of an STM32H7 with two cores under Zephyr. The
Cortex-M4 drives a DC motor through an H-bridge (`app_m4`). The Cortex-M7
connects it to Modbus TCP, EtherNet/IP, HTTP, DPWS and a shell (`app_m7`). The
cores talk through shared memory (`app_shared/app_ipc_protocol.h`).

This directory holds TLA+ models of that firmware, the TLC runs that check them
and TLAPS proofs of the properties that matter most. `src/` below is the root of
the repository; `I7` is `src/app_m7/src/ipc/app_ipc.c`, `MB` is
`src/app_m7/src/protocols/modbus/app_modbus_tcp.c`, `NC` is
`src/app_m7/src/net/net_cfg.c`, `I4` is `src/app_m4/src/app_ipc.c`, `MC` is
`src/app_m4/src/motor_control.c`, `SC` is
`src/app_m7/src/protocols/modbus/app_modbus_scanner.c`.

To check a run: `tlc -workers 2 -config MCMotorNode.cfg MCMotorNode`.
To check the proofs of a module: `tlapm MotorSystemProofs.tla`.

## 1. Inventory

| Part | State | Operations | Talks to |
|---|---|---|---|
| Motor driver (`MC`) | state, direction, duty, target, boost left, two ramps, last error; the PWM and the two lines of the bridge | init, start, stop, set/toggle direction, reset, quick stop, set target, set/restore ramps, process, fail | called by the M4 loop only |
| M4 loop (`app_m4/src/main.c`) and IPC (`I4`) | local or remote mode, expiry, stop latch, timestamp and timeout of the last command; a one-slot mailbox | one iteration each 10 ms: buttons, ADC, take a command, watchdog, setpoint, button events, `app_motor_process`, publish | the driver; the mailbox is written by the IPC callback |
| Buttons, potentiometer | debounce counters; filtered reading and setpoint | poll | read by the loop |
| IPC link | mailbox, ping flags, last state | command, state and ping frames, `ipc_service_send` with 20 retries | both cores |
| Motor command path of the M7 (`I7`, `MB`) | `remote_command`, its delayable work, REG10..17, two mutexes | register writes, APPLY (REG12), the 100 ms refresh, the `m4` shell commands | writers: Modbus, Web, EtherNet/IP, shell; system workqueue |
| Motor state cache (`I7`) | last state frame, its date, valid and stale flags | reception, `app_ipc_get_motor_state` | REG18..29, Web, LCD, EtherNet/IP inputs |
| Network configuration (`NC`) and its save (`MB`) | RAM copy, flash blob, keys of older builds, REG1..9, `command_pending`, `command_done`, `command_result` | load and migrate, `net_cfg_set_saved`, SAVE in REG8, `ip` commands | Modbus, Web, shell; `modbus_cmd_wq` |
| Modbus TCP server (`MB`) | one connection, one ADU, one semaphore, the Unit-ID in force | accept, receive, submit to the RAW server, wait 6 s, reply | system workqueue |
| Scanner images (`SC`, `app_modbus_scanner.c`), EtherNet/IP adapter (`app_eip.c`) | the mapping tables REG40..49; the adapter's thread and connection | look up a slot's target, claim the remote mode, write the target | the registers |
| LCD (`app_lcd.c`) | standby, wake request, deadline of a reboot's confirmation, next refresh | one iteration of its thread, LVGL's touch events | the state cache; `sys_reboot` |
| Web server, DPWS | sockets | requests | the registers and the caches |
| Identity, shell utilities, start-up | strings | `main()` | starts everything else |

Threads of the M7, by Zephyr priority: `main` (0), the Modbus TCP server (7), OpENer (7),
`modbus_cmd_wq` (8), the Web (8), DPWS (8), the LCD (9), the shell, and the
system workqueue (-1, cooperative), on which both the Modbus RAW server's
register callbacks and the refresh of the motor command run, one at a time. On the M4 there
are the loop and the thread in which the link runs its callbacks.

What is hard here:

- *concurrency*: four writers on the motor registers, each register under its
  own critical section; a refresh that takes two mutexes in one order while a
  register write takes them in the other; two threads that save the
  configuration;
- *failure*: a driver that refuses a write in the middle of an operation; a link
  that refuses a frame after the command was stored; a flash write that fails;
  power cuts between flash and RAM;
- *time*: the watchdog of the remote command against the refresh that feeds it,
  the timeouts of a ping, of a save and of a Modbus request, the answers that come
  after them, and 32-bit uptimes that wrap;
- *ordering*: STOP, RESET, START and a remote RUN in the same 10 ms; a request that
  runs before its Unit-ID is routed; a touch, an expiry and a standby in one
  iteration of the LCD.

What makes each part correct, in a sentence: the bridge is never crossed nor
reversed under power; the motor starts only for a cause and stops when the M7 is
silent, STOP is pressed or the ADC fails; the command the M7 repeats is the last one
it sent, which the M4 obeys if it accepts it, and never follows a withdrawal; a save is served exactly once, its
callers all return, and what it acknowledged is what the next boot reads; a
PONG is matched to its own PING and a Modbus answer to its own request; an image
that is applied leaves whole and rewrites no mapping; a reader is told how old a
state is; a touch in the dark does nothing but wake. `PROJECT.json` lists the hazards at their lines.

## 2. Modules

| Module | Models | Notes |
|---|---|---|
| `MotorDuty` | the range of the duty | constants only, shared by the driver and the potentiometer |
| `MotorOps` | every operation of `motor_control.c` | functions from the motor record before a call to the one after it; no variables, so that both specifications below use the same text |
| `MotorControl` | the driver called in any order | refines `HBridge` |
| `HBridge` | what a power stage may do | abstract: engage only from released, modulate, release, trip |
| `MotorNode` | the M4's loop and mailbox | the five steps of an iteration are five actions; `Receive` between any two of them |
| `MotorSystem` | both cores under one clock: stored command, refresh, SAVE, mailbox, watchdog | extends `MotorNode` |
| `MotorInputs` | the two inputs of the M4's loop | composes the next two |
| `MotorButtons` | `motor_buttons.c` | refines `Debounce` |
| `Debounce` | a window of readings | abstract: a level changes when a full window agrees |
| `MotorPotentiometer` | `motor_potentiometer.c` | integer filter and conversion, with the real constants |
| `IpcPing` | PING and PONG on both cores | every store of a callback is a step |
| `MotorGateway` | registers, `remote_command`, refresh, shell | the two mutexes are variables |
| `ModbusServer` | the TCP thread, the RAW request, the scanner images, EtherNet/IP and the Web's PUTs | the registers by address |
| `MotorView` | the state frame, the cache, the age | time modulo `Wrap` |
| `Lcd` | the thread of `app_lcd.c` | extends `MotorView` |
| `ConfigSave` | load, migration, SAVE, `ip`, reboot | each access to flash, RAM and registers is a step |
| `MotorOpsProofs`, `MotorDriversProofs`, `MotorSystemProofs`, `MotorGatewayProofs`, `ConfigSaveProofs`, `IpcPingProofs`, `ModbusServerProofs`, `LcdProofs` | the proofs | section 5 |

`MotorNode` composes `MotorOps`, with the same operations that `MotorControl`
calls in any order, and `MotorSystem` drives `MotorNode` with the M7's command. `ModbusServer`
composes four actors over one set of registers, `Lcd` the display's thread with the
M4's states, `MotorInputs` the two inputs under one loop. The modules `MC...` give constants their values. An operator whose comment begins
with "Mutant of" is the same operator with a plausible bug; no specification uses it. It is there to show
that the property named beside it in `PROJECT.json` notices the bug.

### How state and actions correspond to the code

*MotorOps.* The record `Motor` is the set of static variables of `MC`, and
`hw`, the levels really on the pins. `bad` is the set of outputs that refuse the
operation's own writes and `safeBad` the set that refuse the writes
`motor_record_fault` makes after it. A refused write leaves its pin as it was.
The error code is abstracted to whether there is one. The boundaries of a ramp
step (rounding 0 up to 1, cutting the last step) are those of the code;
the products stay far inside 32 bits for the accepted rates and the 10 ms period.

*MotorNode.* `Inputs` reads the buttons and the potentiometer, `Ipc` is
`app_ipc_process` up to the PONG (`process_pending_command`, then
`process_remote_timeout`), `Decide` the setpoint and the button events of
`main.c:103-134`, `Drive` is `app_motor_process`, `Sleep` lets `LoopTimes`
pass. `remote.age` is the difference of the two uptimes, so it is counted rather than
dated, up to `MaxAge`. The M7 is any environment that sends
commands `command_is_valid` accepts (`I4`:79-116), the others being dropped without a trace; lost, repeated
and late commands are among its behaviours.

*MotorGateway.* A critical section under one mutex is one action with the guard
that the mutex is free. The places that take the second mutex while holding the
first are two actions: `Commit`/`Submit` (`holding_reg_wr`, then
`app_ipc_motor_submit`), `RefreshSend`/`RefreshPublish`
(`remote_refresh_work_handler`, then `app_modbus_tcp_motor_set_mode`) and
`ShellLocal`/`ShellPublish` (`remote_command_disable`). The thread `wq` is the system
workqueue: it executes a Modbus request or the refresh, never both. A delayable work is
armed, then due, then running, as in Zephyr: rescheduling a work that waits on the queue
leaves it there, and cancelling cannot stop one that runs. Among the values of a command one
setpoint field stands for the duty, both ramps and the timeout, tested together by
`app_ipc_motor_submit`. `refused` records that the last send was refused.

*MotorSystem.* `stored` is `remote_command`, `left` the time before its refresh is due, `saving` a SAVE
that holds the system workqueue. `Tick` is the M4's sleep: the time that passes for the watchdog passes for the
refresh too, and may not pass it by more than `Lateness` unless a SAVE is in front. A stored command may have any
control word (`Undocumented` is any bit beyond the documented five), because neither REG11 nor the Web tests it; `Accepted`
is what `command_is_valid` makes of it, and `Send` loses in silence the frame of a word it does not accept, although the link answered
OK. Any other frame the link takes is in
the mailbox before the M4's next iteration, since the loop sleeps most of its 10 ms and the link's
thread has the processor then; a frame refused is `sent` = FALSE in every operation that sends. The mutexes and
threads of this path are in `MotorGateway`; what they can do to it is here `blocks`: the refresh, or `m4 local`, has sent its
frame and waits for ever for `holding_regs_lock`, whose holder waits for it (`I7`:320). It is then `stuck`, and with it every operation
that takes `remote_command_lock`. `ShellLocal` and `Submit` differ as in the code: the shell withdraws the
stored command only once the link took the local one. `ShellReset` sends the stored command with ENABLE and RESET only, `Pause` (`m4 pause`) stops the refresh
and sends nothing; the other shell commands are among the commands `Submit` takes. `refused` and `served` are history: the
link refused the last frame; the last one it took was remote and accepted.

*ModbusServer.* `tcp` is where the server's thread is; `adu`, `ready` and `active` are the three things it shares
with the workqueue (`tcp_adu`, `raw_response_ready`, `active_request_unit_id`). Zephyr's RAW backend is external: it
copies the request and runs it later. A writer's `job` is a request and the place of its execution, word by word; each
section under `holding_regs_lock` is an action, so that an APPLY through a mapped slot is three (`LookUp`, `Claim`,
`WriteTarget`). REG11 and REG13 hold who wrote them instead of a value, `foreign` that another writer has come
between, `own` that each word was routed by its request's own Unit-ID, `late` that the thread gave up a request still being executed:
these are what the properties are about. SAVE is the wait of `ConfigSave`, here an interval that ends.

*MotorView, Lcd.* Time is the true uptime; the code sees `time % Wrap`, and `Before` is its comparison over half a
range. `told` is the last snapshot handed out with, as history, its true age. One iteration of the
LCD's thread is one action, `Iterate`, composed of its parts in the order of the code (`Wake`, `Expire`, `Plan`, then
LVGL's `Press` or `Release`); the panel may refuse to light or to blank, and a preemption may make the
iteration a tick late between the clock it read and the touch. LVGL is external: it clicks on release the widget that was pressed.

*ConfigSave.* `blob` and `legacy` are the flash, `cfg` the RAM copy, `regs`
REG1..9. A caller of REG8 is `taking` before `k_sem_take`, `waiting` in it, `late` when it has
timed out or the semaphore was reset, `woken` when it got the semaphore. The worker is
`collect` (snapshot of the registers), `persist` (flash), `store` (RAM),
`notify` (the registers, by the change callback), `complete` (`command_pending`, REG8, REG9), `sync`, `give`.
`Restart` is a power cut or reboot at any point. A read that fails at boot leaves the
defaults, or a mixture when it fails among the older keys (`HalfLoaded`).

*IpcPing.* Two FIFO channels that hold `Room` frames and refuse the next;
`next_sequence`, `received_sequence` and `pong_sem` on the M7;
`pending_sequence` and `pending_ping` on the M4.

*MotorInputs, MotorButtons, MotorPotentiometer.* One iteration polls all the buttons, then the
potentiometer. A failed reading leaves a button, or the filter, as it was.

## 3. Runs

| Run | States | Question |
|---|---|---|
| `driver` | 6 842 | can calls of the driver and refused writes, in any order, cross or reverse the bridge, or keep a braking motor from stopping? no |
| `node` | 637 003 | can the loop run the motor against the watchdog, STOP, an ADC error or without a cause? no |
| `system` | 204 442 | do both cores agree on a command that the M4 accepts, does every expiry have a cause, do a lost refresh and every braking end at rest? yes |
| `gateway` | 760 608 | can the M7 refresh another command than the last one queued for the M4, lose a refresh, revive a withdrawn command or send an invalid one? no |
| `save` | 825 738 | can `command_pending` be lost, or stay up with nobody serving it? no |
| `save_alone` | 177 808 | one saving thread: does the next boot read what was saved; do saves end and callers return? yes |
| `inputs` | 905 124 | is the counter a debouncer, and does the filter overshoot or leave a wiper at rest further than the dead band? yes; no |
| `ping` | 19 820 | can a ping succeed on another ping's PONG, fail with EBADMSG on a healthy link, or hang? no |
| `fieldbus` | 1 027 333 | is a request given its own answer and always an answer, does an applied image leave whole, can an image rewrite the mapping? yes; no |
| `dashboard` | 1 548 168 | is a state called stale exactly when it is, is a lit panel refreshed, can a touch in the dark, or one click, do anything? yes; no |
| `latched_stop_holds` | violated | does a latched STOP keep the motor stopped? no, see section 6 |
| `holding_registers_come_back` | violated | are the holding registers always given back? no, see section 6 |

### Bounds

- `driver`: duties 2..5 with a ramp of 1, 2 or 3 a step (rates 0, 1, 3, 4 against `Second` = 2), so
  that a step that rounds to 0, one that does not divide the distance and one that passes
  the target all occur; a boost of two periods, so that it is interrupted at its start,
  in its middle and at its end. Every subset of the outputs may refuse.
- `node`: two duties, one ramp, a timeout of 2 and iterations of 1 or 2, so that
  a command expires exactly at, and one iteration past, its timeout; `MaxAge` = 4 is the bound on
  the age, above which the comparison with the timeout does not change. All 32 combinations of control
  bits, local commands with and without RESET; either no output or IN1 refuses.
  IN1 is the one whose refusal leaves an operation half done; `driver` has the others.
- `system`: a refresh of 2 that may be 1 late, commands with a timeout of 3, which is the sum and the least that has room, and of 2, the
  refresh period itself; `MaxAge` 4. Four commands are asked for: two that run, with either timeout, one that runs with an
  undocumented control bit, and a local one. `Storable` closes them under what the shell makes of the stored command. They ask for the highest duty
  and the fastest start, and the M7 boots with the lowest, so that an obeyed command differs from what it replaces; buttons
  none or STOP. The ADC's failures, refused outputs and the other buttons are in `node`. Any frame may be refused and any refresh held up.
- `gateway`: one Web (or EtherNet/IP: same code, same registers) thread, Modbus, all shell
  commands and the refresh; two setpoints, one of them out of bounds; three
  control words. Modbus prepares an invalid setpoint or applies whatever is prepared, in one-register requests,
  which is what produces mixtures with the other writers.
- `save`: two register clients, two configurations, a bad mode, the shell, any flash at the start
  (valid, absent or corrupt blob; older keys present, absent or corrupt), writes and reads that fail.
  The clients are interchangeable (symmetry); the run has no liveness property.
- `save_alone`: the same without the shell and failing reads, and without symmetry. Both exclusions are needed:
  with either, the documented property is false (section 6).
- `inputs`: one button (they share no state), the real count of three samples; the real constants of the potentiometer, and a wiper that
  takes the values 0, 1500 and 4096, just out of scale: clamped to the end of the travel, it is followed like the others.
- `ping`: two callers, three sequence numbers, two frames a channel: a late PONG of the first ping
  can meet the second or the third.

- `fieldbus`: two Modbus requests of eight kinds (an image with FC23, a read of the input table, two slots remapped to REG8 and their use, a mapping table
  as a target, a broadcast, a unit that does not exist, an ADU that does not fit), one EtherNet/IP image of five words, one PUT
  of the Web. Two requests are what a late answer needs; one image and one PUT what a mixture needs.
- `dashboard`: a clock of 8 ticks, followed for 13, so that it wraps between any two events; a state stale after 1, a refresh
  every 2, 3 to confirm. The run goes on over a reboot.

Deadlock checking is on in `inputs` and `dashboard`. It is off where the system may really stop: the M4 sleeps for ever when a
device does not start (`halted` in `driver`, `node`, `system`, `latched_stop_holds`); the Modbus thread may end, and `fieldbus` runs out of requests (the bound);
`ping` runs out of sequence numbers (the bound); in `save` and `save_alone` nobody is obliged to do anything; and the
gateway's deadlock is the finding `holding_registers_come_back`, so that `gateway` checks safety beside it.

### Fairness, and why the code justifies it

- `MotorControl`: weak fairness of `app_motor_process`, which the loop calls in each iteration.
- `MotorSystem`: weak fairness of the loop and the refresh together: time passes, and a due refresh is not put off for ever. Nothing
  obliges anyone to send, nor a SAVE to end.
- `MotorGateway`: strong fairness of each thread's step, because a thread that waits for a
  `k_mutex` is handed it by the unlock, and of the refresh's start, because the workqueue serves its
  items in the order of submission. Nobody is obliged to ask.
- `ConfigSave`: weak fairness of the worker, of the shell's steps and of the wait of each caller, which
  `APP_MODBUS_CMD_TIMEOUT_MS` ends. Nothing is assumed of the power, nor of who asks.
- `IpcPing`: weak fairness of each caller, whose `k_sem_take` ends at 250 ms, and strong fairness of
  `k_mutex_lock`. Nothing obliges the M4 to answer.
- `ModbusServer`: weak fairness of the TCP thread, whose wait ends at 6 s, and of the workqueue, whose SAVE ends at 5 s. Nobody is obliged
  to ask, and a client may hang up.
- `MotorInputs`: weak fairness of the iteration whose ADC reading succeeds. Without it, a wiper is not followed.

## 4. What the properties say

*The bridge.* `NoShootThrough`, `BridgeFollowsState`, `MotorInv` (with `ReadyIsReleased` and `RunningDutyInRange`):
the software's view and the pins agree even when writes are refused; the pair of lines is never
high although IN1 is written before IN2 and either may fail. `DirectionChangesReleased`,
`PowerRisesOnlyRunning`: no sequence of legal calls reverses a driven bridge or adds power outside RUNNING.
`ImplementsBridge`: all of it as a refinement of `HBridge`. `StopEnds`, `RampConverges`.

*The M4.* `FreshWhileRunning` (the watchdog's exact bound), `StopWinsTheCycle`, `StartsHaveACause`, `LocalModeIsClean`,
`LocalModeIsTakenStopping`, `NodeInv` (these with `TimedOutIsStopped` and `AdcErrorCuts`).

*Both cores.* `StoredCommandIsObeyed`: the command the M7 believes in force is the one the M4 obeys, through a mailbox of one slot,
unless the link refused it, the M4 drops it for its control word or `m4 local` waits for ever to store what it sent.
`ExpiryHasACause`: the M4 never takes for expired a command it accepted and the M7 refreshes in time. The causes of an expiry are a withdrawal, a SAVE that holds the
workqueue past the refresh, a frame refused, a refresh or `m4 local` that waits for ever, a last frame taken by the link that is local or that the M4
drops, and a client that asked for less than the refresh period and its lateness. `LostRefreshStops`: one refused frame ends the chain of
refreshes, and then the motor comes to rest. `BrakingEnds`: no stream of commands postpones the end of a braking ramp.

*The M7.* `RefreshedCommandIsHeld`: what is stored, what is refreshed and what was sent last are one
command, although three kinds of thread store and send it; whether the M4 accepts that command is the concern of `MotorSystem`. `RefreshIsArmed`: no race of
cancellation and rescheduling loses the refresh of a command in force. `RefreshNeverRevokesLocal`.
`OnlyValidSetpointsLeave`: validity survives the interleaving of writers even though the command as a whole
does not (section 6).

*The save.* `PendingIsServed`, `SavedIsNextBoot`, `SaveEnds`, `CallersReturn`.

*The field buses.* `RepliesAnswerTheirRequest`: each answer sent is that of the request it is sent for, executed with its own Unit-ID, until an
answer has been given up (section 6). `RequestsAreAnswered`: no order of late answers, broadcasts and closed connections leaves the server waiting; it says nothing of what the answer is. `CommitTakesItsImage`:
the words of an image that applies are those that leave, unless another client wrote in between. `ImagesKeepTheTables`: no image rewrites the mapping, even one remapped
under it.

*The view.* `StaleTellsTheAge`, on both sides of a wrap, for a silence of less than a whole range of the clock (section 6). `LitIsRefreshed`, up to half a range of the clock in the dark (section 6). `DarkTouchOnlyWakes`,
`RebootIsConfirmed`.

*The link and the inputs.* `OkTakesItsOwnPong`, `BadNeedsATimeout`, `PingsReturn`,
`ImplementsDebounce`, `FilterApproaches`, `WiperIsFollowed` (at either end of the travel too).

## 5. Proofs

Every safety property, action property and refinement that a run checks is proved, for every value of the
constants that satisfies the assumptions the modules name (`...Assumption`): any number of callers, writers, buttons and clients, any set of valid
commands, requests and images, any refusals, ramps, loop times, periods and clock range. TLC checked each inductive
invariant on a small instance before it was proved. Each module holds its lemmas, one per action or group of
actions, and at the end the theorems; `PROJECT.json` lists those a reader should know.

- `MotorOpsProofs` has a lemma for each operation of the driver: from a motor that
  satisfies `SafeMotor` it returns one that does, changes the direction only with
  the bridge released, raises the pulse only into RUNNING, and answers what its
  callers test; and what the operations do to ramps and setpoints.
- `MotorDriversProofs`, the motor. `MotorInv` is `SafeMotor` and the types. The properties alone are not inductive:
  that IN1 and IN2 are never both high needs that a READY motor is released (start writes IN1 first),
  that RUNNING and STOPPING motors hold exactly the lines of their direction, and that a
  fault is left only through a successful `motor_make_safe`. From it follow the four safety theorems, the two
  action theorems, `Refinement` (each operation maps to a step of `HBridge` or a stutter, by cases on the
  lines before and after) and, from the refinement, `ReversalReleases`.
- `MotorDriversProofs`, the inputs, under the loop of `MotorInputs`. `ButtonsDebounce`: the refinement rests on `ButtonsOK`, by which the counter is the length
  of the run of equal readings the window ends with, so that it is full exactly when a whole window agrees.
  `FilterTracks`: division towards zero neither changes the sign of a distance nor passes it; with the bounds
  of the conversion it also gives that `MotorNode` reads a duty within its range.
- `MotorSystemProofs`, the loop. `NodeInv` joins `SafeMotor` with the watchdog, the latch, the ADC and the local mode. The
  watchdog's bound is only inductive with the loop's position: the age may pass the timeout between
  `Sleep` and `Ipc`, and nowhere else. One lemma per action, over lemmas on `Arrange`, `apply_local`,
  `apply_remote` and `process_remote_timeout`.
- `MotorSystemProofs`, both cores. `SystemInv` adds to `NodeInv` that a command in force is no older than the time since its last
  refresh, while the last frame taken is a remote one the M4 accepts (`YoungerThanRefresh`); that a chain of refreshes ends for a
  cause (`ChainEndsWithACause`); and that a stored command the M4 accepts is on its way or obeyed (`StoredIsOnItsWay`,
  `StoredCommandIsObeyed`); neither of the last two alone is kept by the step that empties the mailbox. Every step is one of `MotorNode` or leaves it
  alone, so `SystemImplementsNode` carries its theorems to both cores; `StoredObeyed` and `CausedExpiries` hold for any
  period, lateness, loop times and commands, whatever control words the M7 lets in (`SystemAssumption`: only what `app_ipc_motor_submit` tests is assumed of them).
- `MotorGatewayProofs`. `GatewayInv` adds to the properties who owns a mutex at each place of each thread (`TypeOK`), that
  a setpoint past the test of the APPLY stays valid until it is sent (`Checked`: the registers cannot change under
  `holding_regs_lock`), and that a refresh already sent and not yet published is still in force because it holds
  its mutex (`Publishing`).
- `ConfigSaveProofs`. `PendingIsServed` is inductive with the types, that nothing runs before the boot and that no second save is queued behind
  one that has not published its result (`OneSave`). `SaveNextBoot` has two hypotheses, the two that the firmware's own
  document leaves out: the shell does not save (`ShellConfigs = {}`) and the boot could read (`~ReadMayFail`). `save_alone` has the same, and section 6 says
  what goes wrong without them. Its invariant says that the configuration is in the flash, or the worker stands between the flash and the RAM with it.
- `IpcPingProofs`. `PongInv`: every sequence number in a PONG on its way, in the M7's
  `received_sequence` and behind a semaphore was answered by the M4; a caller's number is positive and
  `received_sequence` was cleared when it was drawn. It gives `OwnPong`. `CleanUntilATimeout` follows the one exchange
  under way: as long as no ping has timed out, its frame, the M4's pending answer, its PONG or the
  semaphore, whichever there is, is the only one, and carries the number of the caller that waits.
- `ModbusServerProofs`. `ServerInv` says of each job what it may write (`JobOK`), of an image nobody disturbed what it has already
  written (`ImageOK`), of the tables that they hold only registers `holding_reg_wr` lets into them (`TablesOK`: without it an image could reach a table through a slot), and that the
  thread and the workqueue have one request between them until an answer is late (`OneAtATime`). The last gives `OwnReplies` and
  `OwnUntilLate`, by which what the other two except of a rerouted request does not happen before then.
- `LcdProofs`. The code compares deadlines modulo `Wrap`; the invariant ties each deadline to the true time it was set
  and bounds how far they can be apart, over lemmas on remainders (`Before` tells the order of two times less than half
  a range apart). `ViewStale`, `LcdRefreshed`, `LcdDarkTouch` and `LcdReboot` hold for any even `Wrap` and any
  period below half of it, and for any `Horizon`, the bound of the run. The first keeps its exception of a silence of a whole range, the second
  that of half a range in the dark.

Only model-checked: the liveness properties (`StopEnds`, `RampConverges`, `LostRefreshStops`, `BrakingEnds`, `SaveEnds`, `CallersReturn`,
`WiperIsFollowed`, `PingsReturn`, `RequestsAreAnswered`), because the prover has no rule for fairness
and ENABLED; and the two findings, which are counterexamples. Induction over data is out of reach too; no definition
is recursive, so that nothing that matters here depends on it.

## 6. Disagreements between the code and its documents

Shown by runs:

- **The holding registers may never come back** (`holding_registers_come_back`, a bug). A
  Web or EtherNet/IP APPLY holds `holding_regs_lock` (`MB`:416) and waits for
  `remote_command_lock` in `app_ipc_motor_submit`; the refresh holds the second and waits for the first in
  `app_modbus_tcp_motor_set_mode` (`I7`:320). Every later register access and the system workqueue wait with them.
  `m4 local` has the order of the refresh too.
- **A latched STOP does not hold** (`latched_stop_holds`). `I4`:212 tests the
  latch in the branch after QUICK_STOP only: a command with QUICK_STOP, RUN and ENABLE starts the
  motor with the latch still set, where `src/Eth_industriel_plan.md`:545-546 gives the
  STOP button priority over every protocol.

Read from the code while it was modelled, in the models, and not given a run of their own:

- A control word with an undocumented bit is stored, answered OK in REG17 and refreshed every 100 ms, and each of its frames is dropped by the M4: `MB`:432 and
  `app_web.c`:400-404 store any 16-bit word, `I7`:333-345 does not test it, `I4`:87-90 and 152-154 do, and say nothing back. The previous command
  meanwhile expires, while the M7 reports its successor in force; and a local command with such a word (`m4 local` sends the stored one) leaves the M4
  remote until then. `DES04_Modbus.md`:148 only asks that undocumented bits stay 0. `StoredCommandIsObeyed` and `ExpiryHasACause` except such a word.
- `motor_record_fault` ignores what `motor_make_safe` answers (`MC`:60): an output that refuses the write stays driven
  in FAULT (`src/app_m4/src/DES04_MotorControl.md`:59-60). `HBridge!Trip` allows it.
- A command with RESET_FAULT and RUN resets a motor running in reverse and starts it forward (`I4`:209; `DES04_Modbus.md`:169-170).
- A local command sent to a faulted motor leaves it remote (`I4`:178; `DES04_Modbus.md`:165).
- Two writers interleave their registers and an APPLY sends a mixture (`app_web.c`:404; `DES04_Modbus.md`:115-116);
  the refresh may write REG10 between the last two writes of `POST /api/motor/local`, which then sends a remote
  command (`I7`:320; `DES04_Web.md`:79).
- A command answered with an error in REG17 may be sent later by the refresh of the previous one (`I7`:355; `DES04_Modbus.md`:122-124), and
  one refused frame ends the chain of refreshes (`I7`:322; `Eth_industriel_plan.md`:549). `RefreshedCommandIsHeld` and
  `RefreshIsArmed` except the time after a refused send for this reason.
- A save by the shell beside one of the worker may leave flash and RAM different (`NC`:289), and so does a boot whose read failed (`DES04_Network.md`:61).
- A caller that times out overwrites the result in REG9 (`MB`:479; `DES04_Modbus.md`:224-225); `command_pending` is cleared before
  the semaphore is given, so the end of one save may wake, with its result, the caller of the next (`MB`:268-275; `DES04_Modbus.md`:48).
- The refresh repeats RUN after a fault: pressing RESET at the M4, or a stored command with RESET_FAULT, is followed by a start within 100 ms, and so is the end of a
  SAVE that let the watchdog expire (`I7`:318, `I4`:240; `Eth_industriel_plan.md`:474 forbids automatic restarts after a reset or a fault). `MotorSystem` has it;
  `StartsHaveACause` counts the refresh as a command.
- A least timeout of 100 ms is accepted, which the refresh every 100 ms cannot keep (`app_motor_contract.h`:43). `ExpiryHasACause` excepts it.
- An APPLY in an image is three critical sections (`SC`:147-174): another writer may come between, although `Eth_industriel_plan.md`:574 has the PLC validate
  « atomiquement une commande complète ». `CommitTakesItsImage` excepts the images another client has written into.
- Two SAVEs in one request outlast the 6 s of the server's thread: its late answer overwrites the ADU and is sent for the next request (`MB`:594-604, 787).
  `RepliesAnswerTheirRequest` ends there. The Unit-ID of that next request then routes what is left of the late one, so that words sent to Unit-ID 2 may be written as
  registers of Unit-ID 1, the mapping tables included; `ImagesKeepTheTables` and `CommitTakesItsImage` except such a request (`own`).
- A broadcast is executed and then answered with a failure after 6 s (`MB`:787-790), where Modbus has no answer.
- A silence of the M4 of a whole range of the uptime (49 days) makes its last state young again (`I7`:463). `StaleTellsTheAge` excepts it.
- After more than half a range of the uptime in the dark (24 days), a woken panel shows the state of its waking until the range is over (`app_lcd.c`:434), although `Eth_industriel_plan.md`:306 asks for a refresh every
  500 ms. `LitIsRefreshed` excepts it.
- The truncated filter and the dead band may leave a wiper turned to its end below 100 % (`src/README.md`:361). `WiperIsFollowed` bounds the loss.

## 7. Not modelled, and why

- *Encoding of IPC frames*: the models start from decoded ones. Of the tests the M4 makes of a command, the one of its control word is in `MotorSystem`; the
  others (duty, ramps, timeout, mode, magic and version) always pass for what the M7 sends, which has made the same tests.
- *`m4 local` and the refresh among `ModbusServer`'s writers*: both write REG10 (`I7`:320 and `remote_command_disable`). Between an image's claim and its APPLY, `m4 local`
  turns the image's command into a local one. `MotorGateway` has these writes, beside the registers' own writers; `CommitTakesItsImage` is about the clients of the field buses.
- *The refusal of `k_work_submit`* (`MB`:463-470): after initialisation it cannot fail.
- *Sockets, HTTP parsing, JSON, HTML, DPWS XML, LCD drawing*: I/O and text without state that others read.
- *The OpENer stack*: not in the repository; its port is glue.
- *The twelve words of a state frame*: they cross in one critical section; the words of an input assembly, which mix two states
  (`app_eip.c`:257), and of input registers are only read.
- *Local words of free slots, counters of accesses, of connections and of heartbeats; the reset service of EtherNet/IP; the reboot of the Web*: they only report, or end the run.
- *A restart of one core alone*: `sys_reboot` resets both; the link's handshake is in a library.
- *DPWS discovery*: a UDP responder without state that others read.
- LEDs and the last accepted sequence only report.

## 8. Plan

Done, in this order, the most dangerous first: driver, loop, gateway, save, ping, inputs, Modbus server with scanner and EtherNet/IP images, state cache and LCD, both cores under
one clock; the proofs of the driver, the loop, the ping, both cores; then those of the gateway, the save, the inputs, the Modbus server and the display.

Next: the safety half of the liveness properties, as far as it can be stated without fairness (each `BrakingEnds` step lowers the duty, each `PingsReturn` wait holds
`ping_lock`), and an abstract specification of a register server, with one request at a time and one answer each, that `ModbusServer` implements until an answer is late.
