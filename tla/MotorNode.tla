----------------------------- MODULE MotorNode -----------------------------
(***************************************************************************)
(* The Cortex-M4 application: the 10 ms loop of app_m4/src/main.c around   *)
(* the motor driver (MotorOps) and the M4 side of the IPC link             *)
(* (app_m4/src/app_ipc.c).                                                 *)
(*                                                                         *)
(* One iteration of the loop is the five actions Inputs, Ipc, Decide,      *)
(* Drive and Sleep, in this order.  Between any two of them the IPC        *)
(* callback may store a command from the M7 into the single-slot mailbox;  *)
(* what the M7 sends is not constrained, so a lost, repeated or delayed    *)
(* command is a behaviour of this environment.                             *)
(*                                                                         *)
(* Sequence numbers, the PING/PONG exchange and the published state word   *)
(* do not influence the motor; the exchange is the subject of IpcPing.    *)
(***************************************************************************)
EXTENDS MotorOps

CONSTANTS
  Period,     \* MOTOR_LOOP_PERIOD_MS, given to app_motor_process
  LoopTimes,  \* how long an iteration may really take
  Commands,   \* the valid commands (command_is_valid) the M7 may send
  Refusals,   \* the sets of drivers that may refuse a write together
  MaxAge,     \* bound: the command age is counted up to this value
  NoCommand

ControlBits == {"ENABLE", "RUN", "REVERSE", "RESET", "QUICK"}

\* command_is_valid accepts exactly these words.
ValidCommand ==
  [mode : {"local", "remote"}, control : SUBSET ControlBits,
   duty : DutyMin .. DutyMax, accel : Nat \ {0}, decel : Nat \ {0},
   timeout : 0 .. MaxAge - 1]

ASSUME NodeAssumption ==
  /\ Period \in Nat \ {0}
  /\ LoopTimes \subseteq Nat \ {0}
  /\ Commands \subseteq ValidCommand
  /\ Refusals \subseteq SUBSET Drivers
  /\ MaxAge \in Nat
  /\ NoCommand \notin Commands

Events == {"STOP", "RESET", "DIRECTION", "START"}
AdcError == -1
PotReadings == (DutyMin .. DutyMax) \cup {AdcError}

VARIABLES
  motor,     \* the statics of motor_control.c and the bridge
  remote,    \* remote_mode, remote_timed_out, remote_stop_latched and timeout
  pending,   \* pending_command, or NoCommand when command_pending is false
  events,    \* the loop's events: buttons newly pressed
  pot,       \* the loop's requested_duty, or the ADC error
  pc         \* where the loop is

vars == <<motor, remote, pending, events, pot, pc>>

\* age is k_uptime_get_32() - remote_command_timestamp_ms; it is only read,
\* and only maintained here, in remote mode.
Remote ==
  [mode : {"local", "remote"}, timedOut : BOOLEAN, latched : BOOLEAN,
   timeout : Nat, age : 0 .. MaxAge]

TypeOK ==
  /\ motor \in Motor
  /\ remote \in Remote
  /\ pending \in Commands \cup {NoCommand}
  /\ events \subseteq Events
  /\ pot \in PotReadings
  /\ pc \in {"boot", "inputs", "ipc", "decide", "drive", "sleep", "halted"}

Init ==
  /\ motor = MotorAtReset
  /\ remote = [mode |-> "local", timedOut |-> FALSE, latched |-> FALSE,
               timeout |-> 0, age |-> 0]
  /\ pending = NoCommand
  /\ events = {}
  /\ pot = DutyMin
  /\ pc = "boot"

-----------------------------------------------------------------------------
\* What a command asks for.
Wants(c, bit) == bit \in c.control
Direction(c) == IF Wants(c, "REVERSE") THEN "REVERSE" ELSE "FORWARD"

TurnTo(m, d) ==
  IF d = m.dir THEN Return(m, "ok") ELSE app_motor_set_direction(m, d)

\* Mutant of apply_local: the stop latched by the button outlives the session.
ApplyLocalKeepsLatch(m, r, c, bad, safeBad) ==
  LET cleared == IF Wants(c, "RESET") THEN app_motor_reset(m, bad, safeBad)
                 ELSE Return(m, "ok")
      stopped == app_motor_stop(cleared)
  IN  IF cleared.ret # "ok" THEN [motor |-> cleared, remote |-> r]
      ELSE IF stopped.ret # "ok" THEN [motor |-> stopped, remote |-> r]
      ELSE [motor |-> app_motor_restore_default_ramps(stopped),
            remote |-> [r EXCEPT !.mode = "local", !.timedOut = FALSE, !.age = 0]]

\* Mutant of apply_local: the ramps of the session are not given back.
ApplyLocalKeepsRamps(m, r, c, bad, safeBad) ==
  LET cleared == IF Wants(c, "RESET") THEN app_motor_reset(m, bad, safeBad)
                 ELSE Return(m, "ok")
      stopped == app_motor_stop(cleared)
  IN  IF cleared.ret # "ok" THEN [motor |-> cleared, remote |-> r]
      ELSE IF stopped.ret # "ok" THEN [motor |-> stopped, remote |-> r]
      ELSE [motor |-> stopped,
            remote |-> [r EXCEPT !.mode = "local", !.timedOut = FALSE,
                                 !.latched = FALSE, !.age = 0]]

\* Mutant of apply_local: what app_motor_stop answers is ignored.
ApplyLocalUnchecked(m, r, c, bad, safeBad) ==
  [motor |-> app_motor_restore_default_ramps(app_motor_stop(m)),
   remote |-> [r EXCEPT !.mode = "local", !.timedOut = FALSE,
                        !.latched = FALSE, !.age = 0]]

\* mode = 0: an optional reset, a stop, and only if the stop is accepted the
\* return to the local mode.  A faulted motor refuses the stop.
apply_local(m, r, c, bad, safeBad) ==
  LET cleared == IF Wants(c, "RESET") THEN app_motor_reset(m, bad, safeBad)
                 ELSE Return(m, "ok")
      stopped == app_motor_stop(cleared)
  IN  IF cleared.ret # "ok" THEN [motor |-> cleared, remote |-> r]
      ELSE IF stopped.ret # "ok" THEN [motor |-> stopped, remote |-> r]
      ELSE [motor |-> app_motor_restore_default_ramps(stopped),
            remote |-> [r EXCEPT !.mode = "local", !.timedOut = FALSE,
                                 !.latched = FALSE, !.age = 0]]

\* The first alternative that applies moves the motor before any start.
Arrange(m, latched, c, bad, safeBad) ==
  LET stopped == app_motor_stop(m)
  IN  CASE Wants(c, "RESET") -> app_motor_reset(m, bad, safeBad)
        [] ~Wants(c, "RESET") /\ Wants(c, "QUICK") ->
             app_motor_quick_stop(m, bad, safeBad)
        [] ~Wants(c, "RESET") /\ ~Wants(c, "QUICK") /\ ~Wants(c, "RUN") ->
             IF stopped.ret = "ok" /\ stopped.state = "READY"
             THEN TurnTo(stopped, Direction(c))
             ELSE stopped
        [] ~Wants(c, "RESET") /\ ~Wants(c, "QUICK") /\ Wants(c, "RUN") ->
             IF latched THEN Return(m, "ECANCELED") ELSE TurnTo(m, Direction(c))

\* Mutant of apply_remote: a new command does not end an expiry.
ApplyRemoteStaysExpired(m, r, c, bad, startBad, safeBad) ==
  LET set == app_motor_set_target_duty(
               app_motor_set_ramps(m, c.accel, c.decel), c.duty)
      arranged == Arrange(set, r.latched, c, bad, safeBad)
  IN  [motor |-> IF arranged.ret = "ok" /\ Wants(c, "RUN") /\ Wants(c, "ENABLE")
                 THEN app_motor_start(arranged, startBad, safeBad)
                 ELSE arranged,
       remote |-> [r EXCEPT !.mode = "remote", !.timeout = c.timeout, !.age = 0,
                            !.latched = r.latched /\ ~Wants(c, "RESET")]]

\* Mutant of apply_remote: ENABLE is not required.
ApplyRemoteWithoutEnable(m, r, c, bad, startBad, safeBad) ==
  LET set == app_motor_set_target_duty(
               app_motor_set_ramps(m, c.accel, c.decel), c.duty)
      arranged == Arrange(set, r.latched, c, bad, safeBad)
  IN  [motor |-> IF arranged.ret = "ok" /\ Wants(c, "RUN")
                 THEN app_motor_start(arranged, startBad, safeBad)
                 ELSE arranged,
       remote |-> [r EXCEPT !.mode = "remote", !.timedOut = FALSE,
                            !.timeout = c.timeout, !.age = 0,
                            !.latched = r.latched /\ ~Wants(c, "RESET")]]

\* mode = remote: the mode and the age are taken before the motor is touched.
\* Ramps and duty of a valid command are always accepted.  startBad are the
\* drivers that refuse the start, after the reset or quick stop that met bad.
apply_remote(m, r, c, bad, startBad, safeBad) ==
  LET set == app_motor_set_target_duty(
               app_motor_set_ramps(m, c.accel, c.decel), c.duty)
      arranged == Arrange(set, r.latched, c, bad, safeBad)
  IN  [motor |-> IF arranged.ret = "ok" /\ Wants(c, "RUN") /\ Wants(c, "ENABLE")
                 THEN app_motor_start(arranged, startBad, safeBad)
                 ELSE arranged,
       remote |-> [r EXCEPT !.mode = "remote", !.timedOut = FALSE,
                            !.timeout = c.timeout, !.age = 0,
                            !.latched = r.latched /\ ~Wants(c, "RESET")]]

apply_remote_command(m, r, c, bad, startBad, safeBad) ==
  IF c.mode = "local" THEN apply_local(m, r, c, bad, safeBad)
  ELSE apply_remote(m, r, c, bad, startBad, safeBad)

\* Mutant of process_remote_timeout: one unit of time late.
TimeoutOneLate(s) ==
  IF s.remote.mode = "local" \/ s.remote.timedOut
     \/ s.remote.age <= s.remote.timeout + 1
  THEN s
  ELSE [motor |-> app_motor_stop(s.motor),
        remote |-> [s.remote EXCEPT !.timedOut = TRUE]]

\* Mutant of process_remote_timeout: the last instant counts as expired.
TimeoutOneEarly(s) ==
  IF s.remote.mode = "local" \/ s.remote.timedOut
     \/ s.remote.age < s.remote.timeout
  THEN s
  ELSE [motor |-> app_motor_stop(s.motor),
        remote |-> [s.remote EXCEPT !.timedOut = TRUE]]

\* Mutant of process_remote_timeout: the expiry is recorded, the motor runs on.
TimeoutWithoutStop(s) ==
  IF s.remote.mode = "local" \/ s.remote.timedOut
     \/ s.remote.age <= s.remote.timeout
  THEN s
  ELSE [s EXCEPT !.remote.timedOut = TRUE]

\* An expired command is acted upon once: the motor is asked to stop.
process_remote_timeout(s) ==
  IF s.remote.mode = "local" \/ s.remote.timedOut
     \/ s.remote.age <= s.remote.timeout
  THEN s
  ELSE [motor |-> app_motor_stop(s.motor),
        remote |-> [s.remote EXCEPT !.timedOut = TRUE]]

-----------------------------------------------------------------------------
\* main() sleeps for ever when the motor, the buttons or the ADC do not start.
Boot(ready, others, bad, safeBad) ==
  /\ pc = "boot"
  /\ motor' = app_motor_init(motor, ready, bad, safeBad)
  /\ pc' = IF motor'.ret = "ok" /\ others THEN "inputs" ELSE "halted"
  /\ UNCHANGED <<remote, pending, events, pot>>

\* Mutant of Receive: a command not yet taken is kept.
ReceiveWhenFree(c) ==
  /\ pc \notin {"boot", "halted"}
  /\ pending' = IF pending = NoCommand THEN c ELSE pending
  /\ UNCHANGED <<motor, remote, events, pot, pc>>

\* endpoint_received: the newest command replaces one not yet taken.
Receive(c) ==
  /\ pc \notin {"boot", "halted"}
  /\ pending' = c
  /\ UNCHANGED <<motor, remote, events, pot, pc>>

Inputs(e, p) ==
  /\ pc = "inputs"
  /\ events' = e
  /\ pot' = p
  /\ pc' = "ipc"
  /\ UNCHANGED <<motor, remote, pending>>

\* process_pending_command, then process_remote_timeout.
Ipc(bad, startBad, safeBad) ==
  LET before == [motor |-> motor, remote |-> remote]
      applied == IF pending = NoCommand THEN before
                 ELSE apply_remote_command(motor, remote, pending,
                                           bad, startBad, safeBad)
      after == process_remote_timeout(applied)
  IN  /\ pc = "ipc"
      /\ motor' = after.motor
      /\ remote' = after.remote
      /\ pending' = NoCommand
      /\ pc' = "decide"
      /\ UNCHANGED <<events, pot>>

\* The potentiometer first: an ADC error is a fault in both modes.
Setpoint(m, safeBad) ==
  IF pot = AdcError THEN app_motor_fail(m, safeBad)
  ELSE IF remote.mode = "local" THEN app_motor_set_target_duty(m, pot)
  ELSE m

\* Then the buttons: STOP before RESET, and the others in local mode only.
Buttons(m, bad, safeBad) ==
  LET turned == IF "DIRECTION" \in events THEN app_motor_toggle_direction(m)
                ELSE m
  IN  IF "STOP" \in events THEN app_motor_stop(m)
      ELSE IF "RESET" \in events THEN app_motor_reset(m, bad, safeBad)
      ELSE IF remote.mode = "local" /\ "START" \in events
      THEN app_motor_start(turned, bad, safeBad)
      ELSE IF remote.mode = "local" THEN turned
      ELSE m

\* Mutant of Latch: RESET is looked at before STOP.
LatchResetFirst ==
  IF "RESET" \in events THEN FALSE
  ELSE IF "STOP" \in events THEN remote.latched \/ remote.mode = "remote"
  ELSE remote.latched

\* app_ipc_latch_remote_stop does nothing in local mode.
Latch ==
  IF "STOP" \in events THEN remote.latched \/ remote.mode = "remote"
  ELSE IF "RESET" \in events THEN FALSE
  ELSE remote.latched

Decide(bad, safeBad) ==
  /\ pc = "decide"
  /\ motor' = Buttons(Setpoint(motor, safeBad), bad, safeBad)
  /\ remote' = [remote EXCEPT !.latched = Latch]
  /\ pc' = "drive"
  /\ UNCHANGED <<pending, events, pot>>

\* events and pot are locals of the iteration: nothing reads them any more.
Drive(bad, safeBad) ==
  /\ pc = "drive"
  /\ motor' = app_motor_process(motor, Period, bad, safeBad)
  /\ events' = {}
  /\ pot' = DutyMin
  /\ pc' = "sleep"
  /\ UNCHANGED <<remote, pending>>

Older(age, dt) == IF age + dt > MaxAge THEN MaxAge ELSE age + dt

Sleep(dt) ==
  /\ pc = "sleep"
  /\ remote' = IF remote.mode = "remote"
               THEN [remote EXCEPT !.age = Older(remote.age, dt)]
               ELSE remote
  /\ pc' = "inputs"
  /\ UNCHANGED <<motor, pending, events, pot>>

Loop ==
  \/ \E e \in SUBSET Events, p \in PotReadings : Inputs(e, p)
  \/ \E bad, startBad, safeBad \in Refusals : Ipc(bad, startBad, safeBad)
  \/ \E bad, safeBad \in Refusals : Decide(bad, safeBad) \/ Drive(bad, safeBad)
  \/ \E dt \in LoopTimes : Sleep(dt)

Next ==
  \/ \E ready, others \in BOOLEAN, bad, safeBad \in Refusals :
        Boot(ready, others, bad, safeBad)
  \/ Loop
  \/ \E c \in Commands : Receive(c)

Spec == Init /\ [][Next]_vars

-----------------------------------------------------------------------------
(***************************************************************************)
(* An expired command is not running the motor: once process_remote_timeout*)
(* has fired, nothing but a new command restarts it (the buttons do not in *)
(* remote mode).                                                           *)
(***************************************************************************)
TimedOutIsStopped ==
  remote.timedOut => remote.mode = "remote" /\ motor.state # "RUNNING"

(***************************************************************************)
(* The watchdog's bound: in remote mode a running motor obeys a command no *)
(* older than its timeout, give or take the loop iteration in progress.    *)
(***************************************************************************)
FreshWhileRunning ==
  remote.mode = "remote" /\ motor.state = "RUNNING" =>
    \/ remote.age <= remote.timeout
    \/ /\ pc \in {"inputs", "ipc"}
       /\ \E dt \in LoopTimes : remote.age <= remote.timeout + dt

(***************************************************************************)
(* STOP has the last word of its cycle: whatever remote command, potentio- *)
(* meter value or other button the same iteration took, the motor does not *)
(* run on, and in remote mode the stop is latched.                         *)
(***************************************************************************)
StopWinsTheCycle ==
  pc = "drive" /\ "STOP" \in events =>
    /\ motor.state # "RUNNING"
    /\ remote.mode = "remote" => remote.latched

(***************************************************************************)
(* An ADC error cuts the motor in the iteration that reads it, in remote   *)
(* mode too, and the buttons of that iteration cannot start it again.      *)
(***************************************************************************)
AdcErrorCuts ==
  pc = "drive" /\ pot = AdcError => motor.state \notin {"RUNNING", "STOPPING"}

(***************************************************************************)
(* Nothing of a remote session survives it: in local mode no latch, no     *)
(* expiry and no remote ramp is left to govern the buttons.                *)
(***************************************************************************)
LocalModeIsClean ==
  remote.mode = "local" =>
    /\ ~remote.latched /\ ~remote.timedOut
    /\ motor.accel = RunRamp /\ motor.decel = StopRamp

\* The two things that may start the motor.
StartedRemotely ==
  /\ pc = "ipc" /\ pending # NoCommand
  /\ pending.mode = "remote" /\ {"RUN", "ENABLE"} \subseteq pending.control
  /\ motor.state = "FAULT" => Wants(pending, "RESET")

StartedByButton ==
  /\ pc = "decide" /\ remote.mode = "local"
  /\ motor.state = "READY" /\ pot # AdcError
  /\ "START" \in events /\ events \cap {"STOP", "RESET"} = {}

(***************************************************************************)
(* No start without a cause: the motor starts only on a fresh remote       *)
(* command, which must clear a fault first, or on START alone in local     *)
(* mode.  No timeout, error, mode change or passing of time starts it.     *)
(***************************************************************************)
StartsHaveACause ==
  [][motor.state # "RUNNING" /\ motor'.state = "RUNNING" =>
       StartedRemotely \/ StartedByButton]_vars

(***************************************************************************)
(* The operator gets the motor back only at rest: the mode leaves remote   *)
(* for local only with the motor stopping or stopped.                      *)
(***************************************************************************)
LocalModeIsTakenStopping ==
  [][remote.mode = "remote" /\ remote'.mode = "local" =>
       motor'.state \in {"DISABLED", "READY", "STOPPING"}]_vars

\* The inductive invariant of the loop.
NodeInv ==
  /\ TypeOK
  /\ SafeMotor(motor)
  /\ pc = "boot" => motor.state = "DISABLED"
  /\ TimedOutIsStopped
  /\ FreshWhileRunning
  /\ StopWinsTheCycle
  /\ AdcErrorCuts
  /\ LocalModeIsClean

(***************************************************************************)
(* A braking motor comes to rest whatever commands and buttons go on       *)
(* arriving: neither new ramps nor repeated stops postpone it for ever.    *)
(***************************************************************************)
BrakingEnds == motor.state = "STOPPING" ~> motor.state \in {"READY", "FAULT"}

-----------------------------------------------------------------------------
(***************************************************************************)
(* Eth_industriel_plan.md: the STOP button keeps priority in every mode,   *)
(* and no M7 protocol gets around it.                                      *)
(***************************************************************************)
LatchedStopHolds == [][remote.latched /\ remote'.latched
                         /\ motor.state # "RUNNING" => motor'.state # "RUNNING"]_vars
=============================================================================
