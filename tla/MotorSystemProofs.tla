-------------------------- MODULE MotorSystemProofs --------------------------
(***************************************************************************)
(* The M4's loop, then both cores under one clock.                         *)
(*                                                                         *)
(* Of the loop (MotorNode): its safety properties for every set of valid   *)
(* commands, every loop time and every pattern of refused writes.  The     *)
(* lemmas about its operators follow the calls: TurnTo, Arrange,           *)
(* apply_local, apply_remote and the timeout, then Setpoint and Buttons.   *)
(* The theorems come from one inductive invariant, NodeInv.                *)
(*                                                                         *)
(* Of the two cores (MotorSystem): for every refresh period and lateness   *)
(* of the workqueue, and whatever control words the M7 lets in, the        *)
(* composition implements MotorNode, no command the M4 accepts expires     *)
(* while it is refreshed in time, and the command the M7 stores is the one *)
(* the M4 obeys.  One lemma for each kind of step, then the theorems.      *)
(***************************************************************************)
EXTENDS MotorSystem, MotorOpsProofs

USE NodeAssumption

-----------------------------------------------------------------------------
LEMMA SafeTurnTo ==
  ASSUME NEW m, SafeMotor(m), NEW d \in Directions, NEW n, n = TurnTo(m, d)
  PROVE  SafeMotor(n) /\ n.state = m.state
<1>1. "ok" \in Returns
  BY DEF Returns
<1>2. CASE d = m.dir
  <2>1. n = Return(m, "ok")
    BY <1>2 DEF TurnTo
  <2> QED
    BY <1>1, <2>1, OnlyReturn
<1>3. CASE d # m.dir
  <2>1. n = app_motor_set_direction(m, d)
    BY <1>3 DEF TurnTo
  <2> QED
    BY <2>1, SafeSetDirection
<1> QED
  BY <1>2, <1>3

(***************************************************************************)
(* Before any start, a remote command starts nothing by itself, and leaves *)
(* a fault only through RESET.                                             *)
(***************************************************************************)
LEMMA SafeArrange ==
  ASSUME NEW m, SafeMotor(m), NEW latched, NEW c, NEW bad, NEW safeBad,
         NEW n, n = Arrange(m, latched, c, bad, safeBad)
  PROVE  /\ SafeMotor(n)
         /\ n.state = "RUNNING" => m.state = "RUNNING"
         /\ m.state = "FAULT" /\ ~Wants(c, "RESET") => n.state = "FAULT"
<1>1. Direction(c) \in Directions /\ "ECANCELED" \in Returns
  BY DEF Direction, Directions, Returns
<1>2. CASE Wants(c, "RESET")
  <2>1. n = app_motor_reset(m, bad, safeBad)
    BY <1>2 DEF Arrange
  <2>2. SafeMotor(n) /\ n.state \in {"READY", "FAULT"}
    BY <2>1, SafeReset
  <2> QED
    BY <1>2, <2>2
<1>3. CASE ~Wants(c, "RESET") /\ Wants(c, "QUICK")
  <2>1. n = app_motor_quick_stop(m, bad, safeBad)
    BY <1>3 DEF Arrange
  <2>2. SafeMotor(n) /\ n.state \in {"READY", "FAULT"}
    BY <2>1, SafeQuickStop
  <2>3. m.state = "FAULT" => n.state = "FAULT"
    <3>1. m.state = "FAULT" => n = Return(m, "EIO") /\ "EIO" \in Returns
      BY <2>1 DEF app_motor_quick_stop, Returns
    <3> QED
      BY <3>1, OnlyReturn
  <2> QED
    BY <2>2, <2>3
<1>4. CASE ~Wants(c, "RESET") /\ ~Wants(c, "QUICK") /\ ~Wants(c, "RUN")
  <2> DEFINE stopped == app_motor_stop(m)
  <2>1. n = IF stopped.ret = "ok" /\ stopped.state = "READY"
            THEN TurnTo(stopped, Direction(c)) ELSE stopped
    BY <1>4 DEF Arrange
  <2>2. /\ SafeMotor(stopped) /\ stopped.state # "RUNNING"
        /\ stopped.state = "FAULT" <=> m.state = "FAULT"
    BY SafeStop
  <2> HIDE DEF stopped
  <2>3. SafeMotor(n) /\ n.state = stopped.state
    BY <1>1, <2>1, <2>2, SafeTurnTo
  <2> QED
    BY <2>2, <2>3
<1>5. CASE ~Wants(c, "RESET") /\ ~Wants(c, "QUICK") /\ Wants(c, "RUN")
  <2>1. n = IF latched THEN Return(m, "ECANCELED") ELSE TurnTo(m, Direction(c))
    BY <1>5 DEF Arrange
  <2>2. SafeMotor(n) /\ n.state = m.state
    BY <1>1, <2>1, OnlyReturn, SafeTurnTo
  <2> QED
    BY <2>2
<1> QED
  BY <1>2, <1>3, <1>4, <1>5

LEMMA ControlFacts ==
  ASSUME NEW c \in Commands
  PROVE  /\ c.accel \in Nat /\ c.decel \in Nat
         /\ c.timeout \in 0 .. MaxAge - 1
         /\ c.timeout \in Nat /\ c.mode \in {"local", "remote"}
BY DEF ValidCommand

\* The local mode is taken with the default ramps and a motor at rest or braking.
LEMMA SafeApplyLocal ==
  ASSUME NEW m, SafeMotor(m), NEW r \in Remote, NEW c, NEW bad, NEW safeBad,
         NEW s, s = apply_local(m, r, c, bad, safeBad)
  PROVE  /\ SafeMotor(s.motor) /\ s.motor.state # "RUNNING"
         /\ \/ s.remote = r /\ KeepsRamps(m, s.motor)
            \/ /\ s.remote \in Remote /\ s.remote.mode = "local"
               /\ ~s.remote.timedOut /\ ~s.remote.latched
               /\ s.motor.accel = RunRamp /\ s.motor.decel = StopRamp
               /\ s.motor.state \in {"DISABLED", "READY", "STOPPING"}
<1> DEFINE cleared == IF Wants(c, "RESET") THEN app_motor_reset(m, bad, safeBad)
                      ELSE Return(m, "ok")
           stopped == app_motor_stop(cleared)
           zero == 0
           back == [r EXCEPT !.mode = "local", !.timedOut = FALSE,
                             !.latched = FALSE, !.age = zero]
           rest == app_motor_restore_default_ramps(stopped)
<1>1. s = IF cleared.ret # "ok" THEN [motor |-> cleared, remote |-> r]
          ELSE IF stopped.ret # "ok" THEN [motor |-> stopped, remote |-> r]
          ELSE [motor |-> rest, remote |-> back]
  BY DEF apply_local
<1>2. HasRamps(m)
  BY MotorHasRamps
<1>3. /\ SafeMotor(cleared) /\ KeepsRamps(m, cleared)
      /\ cleared.ret # "ok" => cleared.state = "FAULT"
  <2>1. CASE Wants(c, "RESET")
    <3>1. cleared = app_motor_reset(m, bad, safeBad)
      BY <2>1
    <3> HIDE DEF cleared
    <3>2. KeepsRamps(m, cleared) /\ SafeMotor(cleared)
      BY <1>2, <3>1, ResetKeepsRamps, SafeReset
    <3>3. cleared.ret # "ok" => cleared.state = "FAULT"
      <4>1. m \in Motor
        BY DEF SafeMotor
      <4> DEFINE off == motor_make_safe(m, bad)
      <4>2. off \in Motor
        BY <4>1, MakeSafe
      <4>3. cleared =
              IF off.ret # "ok" THEN motor_record_fault(off, safeBad)
              ELSE [off EXCEPT !.dir = "FORWARD", !.error = FALSE,
                               !.state = "READY"]
        BY <3>1 DEF app_motor_reset
      <4> HIDE DEF off
      <4>4. CASE off.ret # "ok"
        <5>1. \/ Released(cleared) /\ cleared.state = "READY"
              \/ cleared.state = "FAULT" /\ cleared.ret # "ok"
          BY <3>1, SafeReset
        <5>2. cleared = motor_record_fault(off, safeBad)
          BY <4>3, <4>4
        <5>3. cleared.state = "FAULT"
          BY <4>2, <5>2, MakeSafe DEF motor_record_fault, Motor
        <5> QED
          BY <5>3
      <4>5. CASE off.ret = "ok"
        BY <4>2, <4>3, <4>5 DEF Motor
      <4> QED
        BY <4>4, <4>5
    <3> QED
      BY <3>2, <3>3
  <2>2. CASE ~Wants(c, "RESET")
    <3>1. cleared = Return(m, "ok") /\ "ok" \in Returns
      BY <2>2 DEF Returns
    <3> HIDE DEF cleared
    <3> QED
      BY <1>2, <3>1, OnlyReturn DEF KeepsRamps, HasRamps, Return
  <2> QED
    BY <2>1, <2>2
<1>4. /\ SafeMotor(stopped) /\ stopped.state # "RUNNING"
      /\ KeepsRamps(cleared, stopped)
      /\ stopped.ret = "ok" => stopped.state \in {"DISABLED", "READY", "STOPPING"}
  <2>1. stopped = app_motor_stop(cleared)
    OBVIOUS
  <2>2. HasRamps(cleared)
    BY <1>3, MotorHasRamps
  <2> HIDE DEF stopped, cleared
  <2> QED
    BY <1>3, <2>1, <2>2, SafeStop, StopAnswers, StopKeepsRamps
<1>5. /\ SafeMotor(rest) /\ rest.state = stopped.state
      /\ rest.accel = RunRamp /\ rest.decel = StopRamp
  <2>1. rest = app_motor_restore_default_ramps(stopped)
    OBVIOUS
  <2>2. HasRamps(stopped)
    BY <1>4, MotorHasRamps
  <2> HIDE DEF rest, stopped
  <2>3. rest.accel = RunRamp /\ rest.decel = StopRamp
    BY <2>1, <2>2 DEF app_motor_restore_default_ramps, HasRamps
  <2> QED
    BY <1>4, <2>1, <2>3, SafeRestoreDefaultRamps
<1>6. /\ back \in Remote /\ back.mode = "local"
      /\ ~back.timedOut /\ ~back.latched
  <2>1. zero \in 0 .. MaxAge
    OBVIOUS
  <2> HIDE DEF zero
  <2> QED
    BY <2>1 DEF Remote
<1> HIDE DEF cleared, stopped, back, rest
<1> QED
  BY <1>1, <1>3, <1>4, <1>5, <1>6 DEF KeepsRamps

(***************************************************************************)
(* A remote command is fresh when it is applied, and starts the motor only *)
(* with RUN and ENABLE, and out of a fault only with RESET.                *)
(***************************************************************************)
LEMMA SafeApplyRemote ==
  ASSUME NEW m, SafeMotor(m), NEW r \in Remote, NEW c \in Commands,
         NEW bad, NEW startBad, NEW safeBad,
         NEW s, s = apply_remote(m, r, c, bad, startBad, safeBad)
  PROVE  /\ SafeMotor(s.motor)
         /\ s.remote \in Remote /\ s.remote.mode = "remote"
         /\ ~s.remote.timedOut /\ s.remote.age = 0
         /\ s.motor.state = "RUNNING" /\ m.state # "RUNNING" =>
              /\ Wants(c, "RUN") /\ Wants(c, "ENABLE")
              /\ m.state = "FAULT" => Wants(c, "RESET")
<1> DEFINE ramped == app_motor_set_ramps(m, c.accel, c.decel)
           set == app_motor_set_target_duty(ramped, c.duty)
           arranged == Arrange(set, r.latched, c, bad, safeBad)
           started == app_motor_start(arranged, startBad, safeBad)
           go == arranged.ret = "ok" /\ Wants(c, "RUN") /\ Wants(c, "ENABLE")
           zero == 0
           latch == r.latched /\ ~Wants(c, "RESET")
           fresh == [r EXCEPT !.mode = "remote", !.timedOut = FALSE,
                              !.timeout = c.timeout, !.age = zero,
                              !.latched = latch]
<1>1. s = [motor |-> IF go THEN started ELSE arranged, remote |-> fresh]
  BY DEF apply_remote
<1>2. /\ c.accel \in Nat /\ c.decel \in Nat
      /\ c.timeout \in Nat
  BY ControlFacts
<1>3. SafeMotor(set) /\ set.state = m.state
  <2>1. PICK accel \in Nat, decel \in Nat :
               ramped = app_motor_set_ramps(m, accel, decel)
    BY <1>2
  <2>2. set = app_motor_set_target_duty(ramped, c.duty)
    OBVIOUS
  <2> HIDE DEF ramped, set, arranged, started, go, fresh, zero, latch
  <2>3. SafeMotor(ramped) /\ ramped.state = m.state
    BY <2>1, SafeSetRamps
  <2> QED
    BY <2>2, <2>3, SafeSetTargetDuty
<1>4. /\ SafeMotor(arranged)
      /\ arranged.state = "RUNNING" => m.state = "RUNNING"
      /\ m.state = "FAULT" /\ ~Wants(c, "RESET") => arranged.state = "FAULT"
  <2> HIDE DEF set
  <2> QED
    BY <1>3, SafeArrange
<1>5. /\ SafeMotor(started)
      /\ arranged.state = "FAULT" => started.state = "FAULT"
  <2> HIDE DEF arranged
  <2> QED
    BY <1>4, SafeStart
<1>6. /\ fresh \in Remote /\ fresh.mode = "remote"
      /\ ~fresh.timedOut /\ fresh.age = 0
  <2>1. zero \in 0 .. MaxAge /\ zero = 0
    OBVIOUS
  <2>2. latch \in BOOLEAN
    BY DEF Remote
  <2> HIDE DEF zero, latch
  <2> QED
    BY <1>2, <2>1, <2>2 DEF Remote
<1> HIDE DEF arranged, started, fresh
<1> QED
  BY <1>1, <1>4, <1>5, <1>6

\* An expired command stops the motor and says so; otherwise nothing happens.
LEMMA Timeout ==
  ASSUME NEW s, SafeMotor(s.motor), s.remote \in Remote,
         NEW n, n = process_remote_timeout(s)
  PROVE  /\ SafeMotor(n.motor) /\ n.remote \in Remote
         /\ \/ /\ n.motor = s.motor /\ n.remote = s.remote
               /\ \/ s.remote.mode = "local" \/ s.remote.timedOut
                  \/ s.remote.age <= s.remote.timeout
            \/ /\ s.remote.mode = "remote" /\ s.remote.age > s.remote.timeout
               /\ n.remote.mode = "remote" /\ n.remote.timedOut
               /\ n.motor.state # "RUNNING"
<1>1. CASE \/ s.remote.mode = "local" \/ s.remote.timedOut
           \/ s.remote.age <= s.remote.timeout
  BY <1>1 DEF process_remote_timeout
<1>2. CASE ~(\/ s.remote.mode = "local" \/ s.remote.timedOut
             \/ s.remote.age <= s.remote.timeout)
  <2> DEFINE m == s.motor
             r == s.remote
             stopped == app_motor_stop(m)
             late == [r EXCEPT !.timedOut = TRUE]
  <2>1. n = [motor |-> stopped, remote |-> late]
    BY <1>2 DEF process_remote_timeout
  <2>2. SafeMotor(m) /\ r \in Remote /\ stopped = app_motor_stop(m)
    OBVIOUS
  <2>3. r.mode = "remote" /\ r.age > r.timeout
    BY <1>2 DEF Remote
  <2>4. late \in Remote /\ late.mode = r.mode /\ late.timedOut
    <3>1. late = [r EXCEPT !.timedOut = TRUE] /\ r \in Remote
      OBVIOUS
    <3> HIDE DEF late, r
    <3> QED
      BY <3>1 DEF Remote
  <2> HIDE DEF stopped, late, m
  <2>5. SafeMotor(stopped) /\ stopped.state # "RUNNING"
    BY <2>2, SafeStop
  <2> QED
    BY <2>1, <2>3, <2>4, <2>5
<1> QED
  BY <1>1, <1>2

-----------------------------------------------------------------------------
(***************************************************************************)
(* The potentiometer starts nothing and cuts on an error; the buttons      *)
(* start a motor only from READY, in local mode, with neither STOP nor     *)
(* RESET pressed.                                                          *)
(***************************************************************************)
LEMMA SafeSetpoint ==
  ASSUME NEW m, SafeMotor(m), NEW safeBad, NEW n, n = Setpoint(m, safeBad)
  PROVE  /\ SafeMotor(n) /\ KeepsRamps(m, n)
         /\ IF pot = AdcError THEN n.state = "FAULT" ELSE n.state = m.state
<1>1. HasRamps(m)
  BY MotorHasRamps
<1>2. CASE pot = AdcError
  <2>1. n = app_motor_fail(m, safeBad)
    BY <1>2 DEF Setpoint
  <2>2. SafeMotor(n) /\ n.state = "FAULT"
    BY <2>1, SafeFail
  <2>3. KeepsRamps(m, n)
    BY <1>1, <2>1, RecordFaultKeepsRamps DEF app_motor_fail
  <2> QED
    BY <1>2, <2>2, <2>3
<1>3. CASE pot # AdcError /\ remote.mode = "local"
  <2>1. n = app_motor_set_target_duty(m, pot)
    BY <1>3 DEF Setpoint
  <2>2. SafeMotor(n) /\ n.state = m.state /\ KeepsRamps(m, n)
    BY <1>1, <2>1, SafeSetTargetDuty, SetTargetDutyKeepsRamps
  <2> QED
    BY <1>3, <2>2
<1>4. CASE pot # AdcError /\ remote.mode # "local"
  BY <1>1, <1>4 DEF Setpoint, KeepsRamps
<1> QED
  BY <1>2, <1>3, <1>4

LEMMA SafeButtons ==
  ASSUME NEW m, SafeMotor(m), NEW bad, NEW safeBad,
         NEW n, n = Buttons(m, bad, safeBad)
  PROVE  /\ SafeMotor(n) /\ KeepsRamps(m, n)
         /\ "STOP" \in events => n.state # "RUNNING"
         /\ m.state = "FAULT" => n.state \in {"FAULT", "READY"}
         /\ n.state = "RUNNING" /\ m.state # "RUNNING" =>
              /\ remote.mode = "local" /\ m.state = "READY"
              /\ "START" \in events /\ events \cap {"STOP", "RESET"} = {}
<1>1. HasRamps(m)
  BY MotorHasRamps
<1>2. CASE "STOP" \in events
  <2>1. n = app_motor_stop(m)
    BY <1>2 DEF Buttons
  <2>2. /\ SafeMotor(n) /\ KeepsRamps(m, n) /\ n.state # "RUNNING"
        /\ n.state = "FAULT" <=> m.state = "FAULT"
    BY <1>1, <2>1, SafeStop, StopKeepsRamps
  <2> QED
    BY <1>2, <2>2
<1>3. CASE "STOP" \notin events /\ "RESET" \in events
  <2>1. n = app_motor_reset(m, bad, safeBad)
    BY <1>3 DEF Buttons
  <2>2. SafeMotor(n) /\ n.state \in {"FAULT", "READY"} /\ KeepsRamps(m, n)
    BY <1>1, <2>1, SafeReset, ResetKeepsRamps
  <2> QED
    BY <1>3, <2>2
<1>4. CASE "STOP" \notin events /\ "RESET" \notin events /\ remote.mode = "local"
  <2> DEFINE turned == IF "DIRECTION" \in events
                       THEN app_motor_toggle_direction(m) ELSE m
  <2>1. n = IF "START" \in events THEN app_motor_start(turned, bad, safeBad)
            ELSE turned
    BY <1>4 DEF Buttons
  <2>2. SafeMotor(turned) /\ KeepsRamps(m, turned) /\ turned.state = m.state
    <3>1. CASE "DIRECTION" \in events
      <4>1. turned = app_motor_toggle_direction(m)
        BY <3>1
      <4> HIDE DEF turned
      <4> QED
        BY <1>1, <4>1, SafeToggleDirection, SetDirectionKeepsRamps
           DEF app_motor_toggle_direction
    <3>2. CASE "DIRECTION" \notin events
      BY <1>1, <3>2 DEF KeepsRamps
    <3> QED
      BY <3>1, <3>2
  <2> HIDE DEF turned
  <2>3. CASE "START" \in events
    <3>1. n = app_motor_start(turned, bad, safeBad)
      BY <2>1, <2>3
    <3>2. SafeMotor(n) /\ KeepsRamps(turned, n)
      BY <2>2, <3>1, SafeStart, StartKeepsRamps DEF KeepsRamps
    <3>3. n.state = turned.state \/ turned.state = "READY"
      BY <2>2, <3>1, SafeStart
    <3>4. turned.state = "FAULT" => n.state = "FAULT"
      BY <3>3
    <3> QED
      BY <1>4, <2>2, <2>3, <3>2, <3>3, <3>4 DEF KeepsRamps
  <2>4. CASE "START" \notin events
    BY <1>4, <2>1, <2>2, <2>4
  <2> QED
    BY <2>3, <2>4
<1>5. CASE "STOP" \notin events /\ "RESET" \notin events /\ remote.mode # "local"
  <2>1. n = m
    BY <1>5 DEF Buttons
  <2> QED
    BY <1>1, <1>5, <2>1 DEF KeepsRamps
<1> QED
  BY <1>2, <1>3, <1>4, <1>5

-----------------------------------------------------------------------------
(***************************************************************************)
(* The five steps of an iteration, then the boot and the callback.         *)
(***************************************************************************)
LEMMA IpcStep ==
  ASSUME NodeInv, NEW bad, NEW startBad, NEW safeBad,
         Ipc(bad, startBad, safeBad)
  PROVE  /\ NodeInv'
         /\ motor.state # "RUNNING" /\ motor'.state = "RUNNING"
              => StartedRemotely
         /\ remote.mode = "remote" /\ remote'.mode = "local"
              => motor'.state \in {"DISABLED", "READY", "STOPPING"}
<1> DEFINE before == [motor |-> motor, remote |-> remote]
           applied == IF pending = NoCommand THEN before
                      ELSE apply_remote_command(motor, remote, pending,
                                                bad, startBad, safeBad)
           after == process_remote_timeout(applied)
<1>1. /\ motor' = after.motor /\ remote' = after.remote
      /\ pending' = NoCommand /\ pc = "ipc" /\ pc' = "decide"
      /\ events' = events /\ pot' = pot
  BY DEF Ipc
<1>2. /\ SafeMotor(motor) /\ motor \in Motor /\ remote \in Remote
      /\ HasRamps(motor)
      /\ remote.timedOut => remote.mode = "remote" /\ motor.state # "RUNNING"
      /\ remote.mode = "local" =>
           /\ ~remote.latched /\ ~remote.timedOut
           /\ motor.accel = RunRamp /\ motor.decel = StopRamp
  BY MotorHasRamps
     DEF NodeInv, SafeMotor, TypeOK, TimedOutIsStopped, LocalModeIsClean
<1>3. /\ SafeMotor(applied.motor) /\ applied.remote \in Remote
      /\ applied.remote.timedOut =>
           applied.remote.mode = "remote" /\ applied.motor.state # "RUNNING"
      /\ applied.remote.mode = "local" =>
           /\ ~applied.remote.latched /\ ~applied.remote.timedOut
           /\ applied.motor.accel = RunRamp /\ applied.motor.decel = StopRamp
      /\ motor.state # "RUNNING" /\ applied.motor.state = "RUNNING"
           => StartedRemotely
      /\ remote.mode = "remote" /\ applied.remote.mode = "local"
           => applied.motor.state \in {"DISABLED", "READY", "STOPPING"}
  <2>1. CASE pending = NoCommand
    <3>1. applied.motor = motor /\ applied.remote = remote
      BY <2>1
    <3> HIDE DEF applied
    <3> QED
      BY <1>2, <3>1
  <2>2. CASE pending # NoCommand /\ pending.mode = "local"
    <3>1. applied = apply_local(motor, remote, pending, bad, safeBad)
      BY <2>2 DEF apply_remote_command
    <3> HIDE DEF applied
    <3>2. /\ SafeMotor(applied.motor) /\ applied.motor.state # "RUNNING"
          /\ \/ applied.remote = remote /\ KeepsRamps(motor, applied.motor)
             \/ /\ applied.remote \in Remote /\ applied.remote.mode = "local"
                /\ ~applied.remote.timedOut /\ ~applied.remote.latched
                /\ applied.motor.accel = RunRamp
                /\ applied.motor.decel = StopRamp
                /\ applied.motor.state \in {"DISABLED", "READY", "STOPPING"}
      BY <1>2, <3>1, SafeApplyLocal
    <3> QED
      BY <1>2, <3>2 DEF KeepsRamps
  <2>3. CASE pending # NoCommand /\ pending.mode # "local"
    <3>1. applied = apply_remote(motor, remote, pending, bad, startBad, safeBad)
      BY <2>3 DEF apply_remote_command
    <3>2. pending \in Commands
      BY <2>3 DEF NodeInv, TypeOK
    <3>3. pending.mode = "remote"
      BY <2>3, <3>2, ControlFacts
    <3> HIDE DEF applied
    <3>4. /\ SafeMotor(applied.motor)
          /\ applied.remote \in Remote /\ applied.remote.mode = "remote"
          /\ ~applied.remote.timedOut
          /\ applied.motor.state = "RUNNING" /\ motor.state # "RUNNING" =>
               /\ Wants(pending, "RUN") /\ Wants(pending, "ENABLE")
               /\ motor.state = "FAULT" => Wants(pending, "RESET")
      BY <1>2, <3>1, <3>2, SafeApplyRemote
    <3> QED
      BY <1>1, <2>3, <3>3, <3>4 DEF StartedRemotely, Wants
  <2> QED
    BY <2>1, <2>2, <2>3
<1>4. after = process_remote_timeout(applied)
  OBVIOUS
<1> HIDE DEF applied, after
<1>5. /\ SafeMotor(after.motor) /\ after.remote \in Remote
      /\ \/ /\ after.motor = applied.motor /\ after.remote = applied.remote
            /\ \/ applied.remote.mode = "local" \/ applied.remote.timedOut
               \/ applied.remote.age <= applied.remote.timeout
         \/ /\ applied.remote.mode = "remote"
            /\ after.remote.mode = "remote" /\ after.remote.timedOut
            /\ after.motor.state # "RUNNING"
  BY <1>3, <1>4, Timeout
<1>6. /\ remote'.timedOut => remote'.mode = "remote" /\ motor'.state # "RUNNING"
      /\ remote'.mode = "local" =>
           /\ ~remote'.latched /\ ~remote'.timedOut
           /\ motor'.accel = RunRamp /\ motor'.decel = StopRamp
      /\ remote'.mode = "remote" /\ motor'.state = "RUNNING"
           => remote'.age <= remote'.timeout
      /\ motor.state # "RUNNING" /\ motor'.state = "RUNNING" => StartedRemotely
      /\ remote.mode = "remote" /\ remote'.mode = "local"
           => motor'.state \in {"DISABLED", "READY", "STOPPING"}
  BY <1>1, <1>3, <1>5
<1>7. TypeOK' /\ SafeMotor(motor')
  BY <1>1, <1>5 DEF NodeInv, TypeOK, SafeMotor
<1>8. /\ TimedOutIsStopped' /\ FreshWhileRunning' /\ StopWinsTheCycle'
      /\ AdcErrorCuts' /\ LocalModeIsClean'
  BY <1>1, <1>6 DEF TimedOutIsStopped, FreshWhileRunning, StopWinsTheCycle,
                    AdcErrorCuts, LocalModeIsClean
<1> QED
  BY <1>1, <1>6, <1>7, <1>8 DEF NodeInv

LEMMA DecideStep ==
  ASSUME NodeInv, NEW bad, NEW safeBad, Decide(bad, safeBad)
  PROVE  /\ NodeInv'
         /\ motor.state # "RUNNING" /\ motor'.state = "RUNNING"
              => StartedByButton
         /\ remote'.mode = remote.mode
<1> DEFINE set == Setpoint(motor, safeBad)
           latch == Latch
<1>1. /\ pc = "decide" /\ pc' = "drive"
      /\ motor' = Buttons(set, bad, safeBad)
      /\ remote' = [remote EXCEPT !.latched = latch]
      /\ pending' = pending /\ events' = events /\ pot' = pot
  BY DEF Decide
<1>2. /\ SafeMotor(motor) /\ remote \in Remote
      /\ TimedOutIsStopped /\ FreshWhileRunning /\ LocalModeIsClean
  BY DEF NodeInv, TypeOK
<1>3. /\ latch \in BOOLEAN
      /\ "STOP" \in events /\ remote.mode = "remote" => latch
      /\ remote.mode = "local" => ~latch
  BY <1>2 DEF Latch, LocalModeIsClean, Remote
<1> HIDE DEF latch
<1>4. /\ remote' \in Remote /\ remote'.latched = latch
      /\ remote'.mode = remote.mode /\ remote'.timedOut = remote.timedOut
      /\ remote'.age = remote.age /\ remote'.timeout = remote.timeout
  BY <1>1, <1>2, <1>3 DEF Remote
<1>5. set = Setpoint(motor, safeBad)
  OBVIOUS
<1> HIDE DEF set
<1>6. /\ SafeMotor(set) /\ KeepsRamps(motor, set)
      /\ pot = AdcError => set.state = "FAULT"
      /\ pot # AdcError => set.state = motor.state
  BY <1>2, <1>5, SafeSetpoint
<1>7. /\ SafeMotor(motor') /\ KeepsRamps(set, motor')
      /\ "STOP" \in events => motor'.state # "RUNNING"
      /\ set.state = "FAULT" => motor'.state \in {"FAULT", "READY"}
      /\ motor'.state = "RUNNING" /\ set.state # "RUNNING" =>
           /\ remote.mode = "local" /\ set.state = "READY"
           /\ "START" \in events /\ events \cap {"STOP", "RESET"} = {}
  BY <1>1, <1>6, SafeButtons
<1>8. motor.state # "RUNNING" /\ motor'.state = "RUNNING" => StartedByButton
  BY <1>1, <1>6, <1>7 DEF StartedByButton
<1>9. motor'.state = "RUNNING" =>
        motor.state = "RUNNING" \/ remote.mode = "local"
  BY <1>8 DEF StartedByButton
<1>10. TypeOK' /\ SafeMotor(motor')
  BY <1>1, <1>4, <1>7 DEF NodeInv, TypeOK, SafeMotor
<1>11. TimedOutIsStopped'
  BY <1>2, <1>4, <1>9 DEF TimedOutIsStopped, LocalModeIsClean
<1>12. FreshWhileRunning'
  BY <1>1, <1>2, <1>4, <1>9 DEF FreshWhileRunning, Remote
<1>13. StopWinsTheCycle' /\ AdcErrorCuts'
  BY <1>1, <1>3, <1>4, <1>6, <1>7 DEF StopWinsTheCycle, AdcErrorCuts
<1>14. LocalModeIsClean'
  BY <1>2, <1>3, <1>4, <1>6, <1>7 DEF LocalModeIsClean, KeepsRamps
<1> QED
  BY <1>1, <1>4, <1>8, <1>10, <1>11, <1>12, <1>13, <1>14 DEF NodeInv

LEMMA DriveStep ==
  ASSUME NodeInv, NEW bad, NEW safeBad, Drive(bad, safeBad)
  PROVE  /\ NodeInv'
         /\ motor'.state = "RUNNING" => motor.state = "RUNNING"
         /\ remote' = remote
<1>1. /\ pc = "drive" /\ pc' = "sleep"
      /\ motor' = app_motor_process(motor, Period, bad, safeBad)
      /\ remote' = remote /\ pending' = pending
      /\ events' = {} /\ pot' = DutyMin
  BY DEF Drive
<1>2. SafeMotor(motor) /\ HasRamps(motor) /\ Period \in Nat
  BY MotorHasRamps DEF NodeInv
<1>3. SafeMotor(motor') /\ KeepsRamps(motor, motor')
  BY <1>1, <1>2, SafeProcess, ProcessKeepsRamps
<1>4. motor'.state = "RUNNING" => motor.state = "RUNNING"
  <2>1. CASE motor.state = "STOPPING"
    <3>1. motor' = ProcessStopping(motor, Period, bad, safeBad)
      BY <1>1, <2>1 DEF app_motor_process
    <3> QED
      BY <1>2, <2>1, <3>1, SafeProcessStopping
  <2>2. CASE motor.state \notin {"RUNNING", "STOPPING"}
    <3>1. motor' = Return(motor, "ok") /\ "ok" \in Returns
      BY <1>1, <2>2 DEF app_motor_process, Returns
    <3> QED
      BY <1>2, <3>1, OnlyReturn
  <2> QED
    BY <2>1, <2>2
<1>5. DutyMin \in PotReadings
  BY MotorAssumption DEF PotReadings
<1>6. TypeOK' /\ SafeMotor(motor')
  BY <1>1, <1>3, <1>5 DEF NodeInv, TypeOK, SafeMotor
<1>7. /\ TimedOutIsStopped' /\ FreshWhileRunning' /\ StopWinsTheCycle'
      /\ AdcErrorCuts' /\ LocalModeIsClean'
  BY <1>1, <1>3, <1>4
     DEF NodeInv, TimedOutIsStopped, FreshWhileRunning, StopWinsTheCycle,
         AdcErrorCuts, LocalModeIsClean, KeepsRamps
<1> QED
  BY <1>1, <1>4, <1>6, <1>7 DEF NodeInv

LEMMA SleepStep ==
  ASSUME NodeInv, NEW dt \in LoopTimes, Sleep(dt)
  PROVE  NodeInv' /\ motor' = motor /\ remote'.mode = remote.mode
<1>1. /\ pc = "sleep" /\ pc' = "inputs" /\ motor' = motor
      /\ pending' = pending /\ events' = events /\ pot' = pot
  BY DEF Sleep
<1>2. remote \in Remote /\ remote.age \in 0 .. MaxAge /\ dt \in Nat
  BY DEF NodeInv, TypeOK, Remote
<1> DEFINE older == Older(remote.age, dt)
<1>3. older \in 0 .. MaxAge /\ older <= remote.age + dt
  BY <1>2 DEF Older
<1>4. remote' = IF remote.mode = "remote" THEN [remote EXCEPT !.age = older]
                ELSE remote
  BY DEF Sleep
<1> HIDE DEF older
<1>5. /\ remote' \in Remote
      /\ remote'.mode = remote.mode /\ remote'.timedOut = remote.timedOut
      /\ remote'.latched = remote.latched /\ remote'.timeout = remote.timeout
      /\ remote.mode = "remote" => remote'.age = older
  BY <1>2, <1>3, <1>4 DEF Remote
<1>6. TypeOK' /\ SafeMotor(motor')
  BY <1>1, <1>5 DEF NodeInv, TypeOK
<1>7. FreshWhileRunning'
  <2>1. remote.timeout \in Nat
    BY <1>2 DEF Remote
  <2>2. remote'.mode = "remote" /\ motor'.state = "RUNNING"
          => remote'.age <= remote'.timeout + dt
    <3>1. remote'.mode = "remote" /\ motor'.state = "RUNNING"
            => remote.age <= remote.timeout
      BY <1>1, <1>5 DEF NodeInv, FreshWhileRunning
    <3> QED
      BY <1>2, <1>3, <1>5, <2>1, <3>1
  <2> QED
    BY <1>1, <2>2 DEF FreshWhileRunning
<1>8. /\ TimedOutIsStopped' /\ StopWinsTheCycle' /\ AdcErrorCuts'
      /\ LocalModeIsClean'
  BY <1>1, <1>5 DEF NodeInv, TimedOutIsStopped, StopWinsTheCycle,
                    AdcErrorCuts, LocalModeIsClean
<1> QED
  BY <1>1, <1>5, <1>6, <1>7, <1>8 DEF NodeInv

LEMMA BootStep ==
  ASSUME NodeInv, NEW ready, NEW others, NEW bad, NEW safeBad,
         Boot(ready, others, bad, safeBad)
  PROVE  /\ NodeInv' /\ motor'.state # "RUNNING" /\ remote' = remote
<1>1. /\ pc = "boot" /\ pc' \in {"inputs", "halted"}
      /\ motor' = app_motor_init(motor, ready, bad, safeBad)
      /\ UNCHANGED <<remote, pending, events, pot>>
  BY DEF Boot
<1>2. SafeMotor(motor) /\ motor.state = "DISABLED" /\ HasRamps(motor)
  BY <1>1, MotorHasRamps DEF NodeInv
<1>3. SafeMotor(motor') /\ motor'.state \in {"READY", "FAULT"}
  BY <1>1, <1>2, SafeInit
<1>4. KeepsRamps(motor, motor')
  BY <1>1, <1>2, MakeSafeKeepsRamps, RecordFaultKeepsRamps
     DEF app_motor_init, KeepsRamps, HasRamps
<1>5. TypeOK'
  BY <1>1, <1>3 DEF NodeInv, TypeOK, SafeMotor
<1>6. /\ TimedOutIsStopped' /\ FreshWhileRunning' /\ StopWinsTheCycle'
      /\ AdcErrorCuts' /\ LocalModeIsClean'
  BY <1>1, <1>3, <1>4
     DEF NodeInv, TimedOutIsStopped, FreshWhileRunning, StopWinsTheCycle,
         AdcErrorCuts, LocalModeIsClean, KeepsRamps
<1> QED
  BY <1>1, <1>3, <1>5, <1>6 DEF NodeInv

\* Inputs and Receive leave the motor and the session alone.
LEMMA EnvironmentStep ==
  ASSUME NodeInv,
         \/ \E e \in SUBSET Events, p \in PotReadings : Inputs(e, p)
         \/ \E c \in Commands : Receive(c)
         \/ UNCHANGED vars
  PROVE  NodeInv' /\ motor' = motor /\ remote' = remote
<1>1. motor' = motor /\ remote' = remote
  BY DEF Inputs, Receive, vars
<1>2. TypeOK'
  BY DEF NodeInv, TypeOK, Inputs, Receive, vars
<1>3. pc' = "boot" => pc = "boot"
  BY DEF Inputs, Receive, vars
<1>4. FreshWhileRunning'
  BY <1>1 DEF NodeInv, FreshWhileRunning, Inputs, Receive, vars
<1>5. TimedOutIsStopped' /\ LocalModeIsClean'
  BY <1>1 DEF NodeInv, TimedOutIsStopped, LocalModeIsClean
<1>6. StopWinsTheCycle' /\ AdcErrorCuts'
  BY <1>1 DEF NodeInv, StopWinsTheCycle, AdcErrorCuts, Inputs, Receive, vars
<1> QED
  BY <1>1, <1>2, <1>3, <1>4, <1>5, <1>6 DEF NodeInv

-----------------------------------------------------------------------------
LEMMA InitialStep ==
  Init => NodeInv
<1> SUFFICES ASSUME Init PROVE NodeInv
  OBVIOUS
<1> DEFINE zero == 0
<1>1. /\ motor = MotorAtReset /\ pc = "boot" /\ pending = NoCommand
      /\ remote = [mode |-> "local", timedOut |-> FALSE, latched |-> FALSE,
                   timeout |-> zero, age |-> zero]
      /\ events = {} /\ pot = DutyMin
  BY DEF Init
<1>2. SafeMotor(motor)
  BY <1>1, MotorAssumption
     DEF MotorAtReset, SafeMotor, Motor, MotorStates, Directions, Returns,
         Drivers, Released
<1>3. motor.accel = RunRamp /\ motor.decel = StopRamp /\ motor.state = "DISABLED"
  BY <1>1 DEF MotorAtReset
<1>4. zero \in Nat /\ zero \in 0 .. MaxAge
  OBVIOUS
<1> HIDE DEF zero
<1>5. /\ remote \in Remote /\ remote.mode = "local"
      /\ ~remote.timedOut /\ ~remote.latched
  BY <1>1, <1>4 DEF Remote
<1>6. TypeOK
  BY <1>1, <1>2, <1>5, MotorAssumption DEF TypeOK, SafeMotor, PotReadings
<1> QED
  BY <1>1, <1>2, <1>3, <1>5, <1>6
     DEF NodeInv, TimedOutIsStopped, FreshWhileRunning, StopWinsTheCycle,
         AdcErrorCuts, LocalModeIsClean

LEMMA InductiveStep ==
  ASSUME NodeInv, [Next]_vars
  PROVE  /\ NodeInv'
         /\ motor.state # "RUNNING" /\ motor'.state = "RUNNING"
              => StartedRemotely \/ StartedByButton
         /\ remote.mode = "remote" /\ remote'.mode = "local"
              => motor'.state \in {"DISABLED", "READY", "STOPPING"}
<1>1. CASE \E ready, others \in BOOLEAN, bad, safeBad \in Refusals :
             Boot(ready, others, bad, safeBad)
  BY <1>1, BootStep
<1>2. CASE \/ \E e \in SUBSET Events, p \in PotReadings : Inputs(e, p)
           \/ \E c \in Commands : Receive(c)
           \/ UNCHANGED vars
  BY <1>2, EnvironmentStep
<1>3. CASE \E bad, startBad, safeBad \in Refusals : Ipc(bad, startBad, safeBad)
  BY <1>3, IpcStep
<1>4. CASE \E bad, safeBad \in Refusals : Decide(bad, safeBad)
  BY <1>4, DecideStep
<1>5. CASE \E bad, safeBad \in Refusals : Drive(bad, safeBad)
  BY <1>5, DriveStep
<1>6. CASE \E dt \in LoopTimes : Sleep(dt)
  BY <1>6, SleepStep
<1> QED
  BY <1>1, <1>2, <1>3, <1>4, <1>5, <1>6 DEF Next, Loop

(***************************************************************************)
(* The inductive invariant of the M4 loop.                                 *)
(***************************************************************************)
THEOREM NodeInvariant == Spec => []NodeInv
<1>1. NodeInv /\ [Next]_vars => NodeInv'
  BY InductiveStep
<1> QED
  BY InitialStep, <1>1, PTL DEF Spec

(***************************************************************************)
(* The remote watchdog: an expired command never runs the motor, and a     *)
(* running motor obeys a command no older than its timeout and one loop.   *)
(***************************************************************************)
THEOREM Watchdog == Spec => []TimedOutIsStopped /\ []FreshWhileRunning
<1>1. NodeInv => TimedOutIsStopped /\ FreshWhileRunning
  BY DEF NodeInv
<1> QED
  BY NodeInvariant, <1>1, PTL

(***************************************************************************)
(* STOP has the last word of its iteration, over every remote command.     *)
(***************************************************************************)
THEOREM StopPriority == Spec => []StopWinsTheCycle
<1>1. NodeInv => StopWinsTheCycle
  BY DEF NodeInv
<1> QED
  BY NodeInvariant, <1>1, PTL

(***************************************************************************)
(* An ADC error cuts the motor in its iteration, whatever else it took.    *)
(***************************************************************************)
THEOREM AdcCut == Spec => []AdcErrorCuts
<1>1. NodeInv => AdcErrorCuts
  BY DEF NodeInv
<1> QED
  BY NodeInvariant, <1>1, PTL

(***************************************************************************)
(* Local mode inherits no latch, expiry or ramp from a remote session.     *)
(***************************************************************************)
THEOREM LocalClean == Spec => []LocalModeIsClean
<1>1. NodeInv => LocalModeIsClean
  BY DEF NodeInv
<1> QED
  BY NodeInvariant, <1>1, PTL

(***************************************************************************)
(* No start without a cause: an applied remote command with RUN and ENABLE *)
(* (and RESET out of a fault), or START alone in local mode.               *)
(***************************************************************************)
THEOREM CausedStarts == Spec => StartsHaveACause
<1>1. NodeInv /\ [Next]_vars =>
        [motor.state # "RUNNING" /\ motor'.state = "RUNNING" =>
           StartedRemotely \/ StartedByButton]_vars
  BY InductiveStep
<1> QED
  BY NodeInvariant, <1>1, PTL DEF Spec, StartsHaveACause

(***************************************************************************)
(* The mode goes back to local only with the motor stopping or stopped.    *)
(***************************************************************************)
THEOREM LocalAtRest == Spec => LocalModeIsTakenStopping
<1>1. NodeInv /\ [Next]_vars =>
        [remote.mode = "remote" /\ remote'.mode = "local" =>
           motor'.state \in {"DISABLED", "READY", "STOPPING"}]_vars
  BY InductiveStep
<1> QED
  BY NodeInvariant, <1>1, PTL DEF Spec, LocalModeIsTakenStopping

-----------------------------------------------------------------------------
USE SystemAssumption

LEMMA TurnToKeeps ==
  ASSUME NEW m, HasTarget(m), HasRamps(m), NEW d, NEW n, n = TurnTo(m, d)
  PROVE  KeepsTarget(m, n) /\ KeepsRamps(m, n)
<1>1. CASE d = m.dir
  <2>1. n = Return(m, "ok")
    BY <1>1 DEF TurnTo
  <2> QED
    BY <2>1 DEF Return, KeepsTarget, HasTarget, KeepsRamps, HasRamps
<1>2. CASE d # m.dir
  <2>1. n = app_motor_set_direction(m, d)
    BY <1>2 DEF TurnTo
  <2> QED
    BY <2>1, SetDirectionKeepsTarget, SetDirectionKeepsRamps
<1> QED
  BY <1>1, <1>2

LEMMA ArrangeKeeps ==
  ASSUME NEW m, SafeMotor(m), NEW latched, NEW c, NEW bad, NEW safeBad,
         NEW n, n = Arrange(m, latched, c, bad, safeBad)
  PROVE  KeepsTarget(m, n) /\ KeepsRamps(m, n)
<1>1. HasTarget(m) /\ HasRamps(m)
  BY MotorHasTarget
<1>2. CASE Wants(c, "RESET")
  <2>1. n = app_motor_reset(m, bad, safeBad)
    BY <1>2 DEF Arrange
  <2> QED
    BY <1>1, <2>1, ResetKeepsTarget, ResetKeepsRamps
<1>3. CASE ~Wants(c, "RESET") /\ Wants(c, "QUICK")
  <2>1. n = app_motor_quick_stop(m, bad, safeBad)
    BY <1>3 DEF Arrange
  <2> QED
    BY <1>1, <2>1, QuickStopKeeps
<1>4. CASE ~Wants(c, "RESET") /\ ~Wants(c, "QUICK") /\ ~Wants(c, "RUN")
  <2> DEFINE stopped == app_motor_stop(m)
  <2>1. n = IF stopped.ret = "ok" /\ stopped.state = "READY"
            THEN TurnTo(stopped, Direction(c)) ELSE stopped
    BY <1>4 DEF Arrange
  <2>2. KeepsTarget(m, stopped) /\ KeepsRamps(m, stopped)
    BY <1>1, StopKeepsTarget, StopKeepsRamps
  <2> HIDE DEF stopped
  <2>3. KeepsTarget(stopped, n) /\ KeepsRamps(stopped, n)
    BY <2>1, <2>2, TurnToKeeps DEF KeepsTarget, KeepsRamps
  <2> QED
    BY <2>2, <2>3 DEF KeepsTarget, KeepsRamps
<1>5. CASE ~Wants(c, "RESET") /\ ~Wants(c, "QUICK") /\ Wants(c, "RUN")
  <2>1. n = IF latched THEN Return(m, "ECANCELED") ELSE TurnTo(m, Direction(c))
    BY <1>5 DEF Arrange
  <2>2. n = Return(m, "ECANCELED") => KeepsTarget(m, n) /\ KeepsRamps(m, n)
    BY <1>1 DEF Return, KeepsTarget, HasTarget, KeepsRamps, HasRamps
  <2> QED
    BY <1>1, <2>1, <2>2, TurnToKeeps
<1> QED
  BY <1>2, <1>3, <1>4, <1>5

-----------------------------------------------------------------------------
(***************************************************************************)
(* A remote command that is applied is obeyed, and young.                  *)
(***************************************************************************)
LEMMA AppliedIsObeyed ==
  ASSUME NEW m, SafeMotor(m), NEW r \in Remote, NEW c \in Commands,
         NEW bad, NEW startBad, NEW safeBad,
         NEW s, s = apply_remote(m, r, c, bad, startBad, safeBad)
  PROVE  /\ s.remote.timeout = c.timeout
         /\ s.motor.target = c.duty
         /\ s.motor.accel = c.accel /\ s.motor.decel = c.decel
<1> DEFINE ramped == app_motor_set_ramps(m, c.accel, c.decel)
           set == app_motor_set_target_duty(ramped, c.duty)
           arranged == Arrange(set, r.latched, c, bad, safeBad)
           started == app_motor_start(arranged, startBad, safeBad)
           go == arranged.ret = "ok" /\ Wants(c, "RUN") /\ Wants(c, "ENABLE")
           zero == 0
           fresh == [r EXCEPT !.mode = "remote", !.timedOut = FALSE,
                              !.timeout = c.timeout, !.age = zero,
                              !.latched = r.latched /\ ~Wants(c, "RESET")]
<1>1. /\ s = [motor |-> IF go THEN started ELSE arranged, remote |-> fresh]
      /\ ramped = app_motor_set_ramps(m, c.accel, c.decel)
      /\ set = app_motor_set_target_duty(ramped, c.duty)
      /\ arranged = Arrange(set, r.latched, c, bad, safeBad)
      /\ started = app_motor_start(arranged, startBad, safeBad)
  BY DEF apply_remote
<1>2. fresh.timeout = c.timeout
  BY DEF Remote
<1> HIDE DEF ramped, set, arranged, started, go, zero, fresh
<1>3. /\ c.accel \in Nat \ {0} /\ c.decel \in Nat \ {0}
      /\ c.duty \in DutyMin .. DutyMax
  BY DEF ValidCommand
<1>4. /\ SafeMotor(ramped) /\ HasRamps(ramped) /\ HasTarget(ramped)
      /\ ramped.accel = c.accel /\ ramped.decel = c.decel
  <2>1. PICK accel \in Nat \ {0}, decel \in Nat \ {0} :
          accel = c.accel /\ decel = c.decel
    BY <1>3
  <2>2. ramped = app_motor_set_ramps(m, accel, decel)
    BY <1>1, <2>1
  <2>3. accel # 0 /\ decel # 0
    BY <2>1
  <2>4. ramped = [m EXCEPT !.accel = accel, !.decel = decel, !.ret = "ok"]
    BY <2>2, <2>3 DEF app_motor_set_ramps
  <2>5. SafeMotor(ramped)
    BY <2>2, SafeSetRamps
  <2> QED
    BY <2>1, <2>4, <2>5, MotorHasTarget DEF SafeMotor, Motor
<1>5. /\ SafeMotor(set) /\ set.target = c.duty
      /\ set.accel = c.accel /\ set.decel = c.decel
  <2>1. SafeMotor(set)
    BY <1>1, <1>4, SafeSetTargetDuty
  <2>2. set = [ramped EXCEPT !.target = c.duty, !.ret = "ok"]
    BY <1>1, <1>3 DEF app_motor_set_target_duty
  <2> QED
    BY <1>4, <2>1, <2>2 DEF HasTarget, HasRamps
<1>6. KeepsTarget(set, arranged) /\ KeepsRamps(set, arranged)
  BY <1>1, <1>5, ArrangeKeeps
<1>7. KeepsTarget(arranged, started) /\ KeepsRamps(arranged, started)
  BY <1>1, <1>6, StartKeepsTarget, StartKeepsRamps DEF KeepsTarget, KeepsRamps
<1> QED
  BY <1>1, <1>2, <1>5, <1>6, <1>7 DEF KeepsTarget, KeepsRamps

(***************************************************************************)
(* What one iteration's look at the mailbox and the watchdog does.         *)
(***************************************************************************)
LEMMA IpcKeeps ==
  ASSUME NodeInv, NEW bad, NEW startBad, NEW safeBad,
         Ipc(bad, startBad, safeBad)
  PROVE  /\ pending # NoCommand /\ pending.mode = "remote" =>
              /\ remote'.age = 0 /\ ~remote'.timedOut
              /\ remote'.mode = "remote" /\ remote'.timeout = pending.timeout
              /\ motor'.target = pending.duty
              /\ motor'.accel = pending.accel /\ motor'.decel = pending.decel
         /\ pending = NoCommand =>
              /\ KeepsTarget(motor, motor') /\ KeepsRamps(motor, motor')
              /\ remote'.mode = remote.mode /\ remote'.age = remote.age
              /\ remote'.timeout = remote.timeout
              /\ remote'.timedOut /\ ~remote.timedOut =>
                   remote.mode = "remote" /\ remote.age > remote.timeout
<1> DEFINE before == [motor |-> motor, remote |-> remote]
           applied == IF pending = NoCommand THEN before
                      ELSE apply_remote_command(motor, remote, pending,
                                                bad, startBad, safeBad)
           after == process_remote_timeout(applied)
<1>1. motor' = after.motor /\ remote' = after.remote
  BY DEF Ipc
<1>2. /\ SafeMotor(motor) /\ remote \in Remote
      /\ HasTarget(motor) /\ HasRamps(motor)
      /\ pending # NoCommand => pending \in Commands
  BY MotorHasTarget DEF NodeInv, TypeOK
<1>3. after = process_remote_timeout(applied)
  OBVIOUS
<1>4. CASE pending # NoCommand /\ pending.mode = "remote"
  <2>1. applied = apply_remote(motor, remote, pending, bad, startBad, safeBad)
    BY <1>4 DEF apply_remote_command
  <2> HIDE DEF applied, after
  <2>2. /\ applied.remote \in Remote /\ applied.remote.mode = "remote"
        /\ ~applied.remote.timedOut /\ applied.remote.age = 0
    BY <1>2, <1>4, <2>1, SafeApplyRemote
  <2>3. /\ applied.remote.timeout = pending.timeout
        /\ applied.motor.target = pending.duty
        /\ applied.motor.accel = pending.accel
        /\ applied.motor.decel = pending.decel
    BY <1>2, <1>4, <2>1, AppliedIsObeyed
  <2>4. applied.remote.age <= applied.remote.timeout
    BY <2>2 DEF Remote
  <2>5. after = applied
    BY <1>3, <2>4 DEF process_remote_timeout
  <2> QED
    BY <1>1, <1>4, <2>2, <2>3, <2>5
<1>5. CASE pending = NoCommand
  <2>1. applied.motor = motor /\ applied.remote = remote
    BY <1>5
  <2> HIDE DEF applied, after
  <2>2. CASE \/ remote.mode = "local" \/ remote.timedOut
             \/ remote.age <= remote.timeout
    <3>1. after = applied
      BY <1>3, <2>1, <2>2 DEF process_remote_timeout
    <3> QED
      BY <1>1, <1>2, <1>5, <2>1, <3>1
         DEF KeepsTarget, HasTarget, KeepsRamps, HasRamps
  <2>3. CASE ~(\/ remote.mode = "local" \/ remote.timedOut
               \/ remote.age <= remote.timeout)
    <3> DEFINE stopped == app_motor_stop(motor)
               late == [remote EXCEPT !.timedOut = TRUE]
    <3>1. after = [motor |-> stopped, remote |-> late]
      BY <1>3, <2>1, <2>3 DEF process_remote_timeout
    <3>2. KeepsTarget(motor, stopped) /\ KeepsRamps(motor, stopped)
      BY <1>2, StopKeepsTarget, StopKeepsRamps
    <3>3. /\ late.mode = remote.mode /\ late.age = remote.age
          /\ late.timeout = remote.timeout
      BY <1>2 DEF Remote
    <3>4. remote.mode = "remote" /\ remote.age > remote.timeout
      BY <1>2, <2>3 DEF Remote
    <3> HIDE DEF stopped, late
    <3> QED
      BY <1>1, <1>5, <3>1, <3>2, <3>3, <3>4
  <2> QED
    BY <2>2, <2>3
<1> QED
  BY <1>4, <1>5

\* In remote mode the potentiometer and the buttons move neither setpoint nor
\* ramps.
LEMMA DecideKeeps ==
  ASSUME NodeInv, NEW bad, NEW safeBad, Decide(bad, safeBad)
  PROVE  /\ remote'.mode = remote.mode /\ remote'.age = remote.age
         /\ remote'.timeout = remote.timeout
         /\ remote'.timedOut = remote.timedOut
         /\ remote.mode = "remote" =>
              KeepsTarget(motor, motor') /\ KeepsRamps(motor, motor')
<1> DEFINE set == Setpoint(motor, safeBad)
           latch == Latch
<1>1. motor' = Buttons(set, bad, safeBad)
      /\ remote' = [remote EXCEPT !.latched = latch]
  BY DEF Decide
<1>2. SafeMotor(motor) /\ remote \in Remote
      /\ HasTarget(motor) /\ HasRamps(motor)
  BY MotorHasTarget DEF NodeInv, TypeOK
<1> HIDE DEF latch
<1>3. /\ remote'.mode = remote.mode /\ remote'.age = remote.age
      /\ remote'.timeout = remote.timeout
      /\ remote'.timedOut = remote.timedOut
  BY <1>1, <1>2 DEF Remote
<1>4. CASE remote.mode = "remote"
  <2>1. KeepsTarget(motor, set) /\ KeepsRamps(motor, set)
    <3>1. set = IF pot = AdcError THEN app_motor_fail(motor, safeBad)
                ELSE motor
      BY <1>4 DEF Setpoint
    <3> HIDE DEF set
    <3>2. CASE pot = AdcError
      <4>1. set = motor_record_fault(motor, safeBad)
        BY <3>1, <3>2 DEF app_motor_fail
      <4> QED
        BY <1>2, <4>1, RecordFaultKeepsTarget, RecordFaultKeepsRamps
    <3>3. CASE pot # AdcError
      BY <1>2, <3>1, <3>3 DEF KeepsTarget, HasTarget, KeepsRamps, HasRamps
    <3> QED
      BY <3>2, <3>3
  <2> HIDE DEF set
  <2>2. \/ motor' = app_motor_stop(set)
        \/ motor' = app_motor_reset(set, bad, safeBad)
        \/ motor' = set
    BY <1>1, <1>4 DEF Buttons
  <2>3. KeepsTarget(set, motor') /\ KeepsRamps(set, motor')
    BY <2>1, <2>2, StopKeepsTarget, StopKeepsRamps, ResetKeepsTarget,
       ResetKeepsRamps DEF KeepsTarget, HasTarget, KeepsRamps, HasRamps
  <2> QED
    BY <1>3, <2>1, <2>3 DEF KeepsTarget, KeepsRamps
<1> QED
  BY <1>3, <1>4

LEMMA DriveKeeps ==
  ASSUME NodeInv, NEW bad, NEW safeBad, Drive(bad, safeBad)
  PROVE  /\ remote' = remote
         /\ KeepsTarget(motor, motor') /\ KeepsRamps(motor, motor')
<1>1. motor' = app_motor_process(motor, Period, bad, safeBad)
  BY DEF Drive
<1>2. HasTarget(motor) /\ HasRamps(motor)
  BY MotorHasTarget DEF NodeInv
<1>3. KeepsTarget(motor, motor')
  BY <1>1, <1>2, ProcessKeepsTarget
<1>4. KeepsRamps(motor, motor')
  BY <1>1, <1>2, ProcessKeepsRamps
<1> QED
  BY <1>3, <1>4 DEF Drive

LEMMA SleepKeeps ==
  ASSUME NodeInv, NEW dt \in LoopTimes, Sleep(dt)
  PROVE  /\ motor' = motor
         /\ remote'.mode = remote.mode /\ remote'.timeout = remote.timeout
         /\ remote'.timedOut = remote.timedOut
         /\ remote.mode = "remote" => remote'.age <= remote.age + dt
<1>1. motor' = motor
  BY DEF Sleep
<1>2. remote \in Remote /\ remote.age \in 0 .. MaxAge /\ dt \in Nat
  BY DEF NodeInv, TypeOK, Remote
<1> DEFINE older == Older(remote.age, dt)
<1>3. older <= remote.age + dt
  BY <1>2 DEF Older
<1>4. remote' = IF remote.mode = "remote" THEN [remote EXCEPT !.age = older]
                ELSE remote
  BY DEF Sleep
<1> HIDE DEF older
<1> QED
  BY <1>1, <1>2, <1>3, <1>4 DEF Remote

-----------------------------------------------------------------------------
(***************************************************************************)
(* The composition's steps are the loop's, with the commands that the M4   *)
(* accepts.                                                                *)
(***************************************************************************)
LEMMA StoredCommands ==
  ASSUME NEW c \in Storable
  PROVE  /\ c.mode \in {"local", "remote"} /\ (Accepted(c) => c \in Commands)
         /\ ByDefault(c) \in Storable
         /\ Local(c) \in Storable /\ Local(c).mode = "local"
         /\ Withdrawn(c) \in Storable /\ Withdrawn(c).mode = "local"
         /\ Paused(c) \in Storable /\ Paused(c).mode = "local"
         /\ Cleared(c) \in Storable /\ Cleared(c).mode = c.mode
<1>1. c \in StoredWord
  OBVIOUS
<1> QED
  BY <1>1 DEF StoredWord, Local, Withdrawn, Paused, Cleared

LEMMA NodeSteps ==
  ASSUME stored \in Storable, [SystemNext]_systemVars
  PROVE  [Next]_vars /\ stored' \in Storable
<1>1. ASSUME NEW c \in Storable, NEW sent \in BOOLEAN, Send(c, sent)
      PROVE  [Next]_vars
  BY <1>1, StoredCommands DEF Send, Next
<1>2. CASE \E ready, others \in BOOLEAN, bad, safeBad \in Refusals :
             Boot(ready, others, bad, safeBad) /\ UNCHANGED m7
  BY <1>2 DEF Next, m7
<1>3. CASE LoopStep /\ UNCHANGED m7
  <2>1. Loop
    BY <1>3 DEF LoopStep, Loop
  <2> QED
    BY <1>3, <2>1 DEF Next, m7
<1>4. CASE \E dt \in LoopTimes : Tick(dt)
  BY <1>4 DEF Tick, Next, Loop
<1>5. CASE \E sent, blocks \in BOOLEAN : RefreshRemote(sent, blocks)
  BY <1>1, <1>5 DEF RefreshRemote
<1>6. CASE RefreshWithdrawn \/ Save \/ UNCHANGED systemVars
  BY <1>6 DEF RefreshWithdrawn, Save, systemVars, m7
<1>7. CASE Pause
  BY <1>7, StoredCommands DEF Pause
<1>8. CASE \E sent, blocks \in BOOLEAN : ShellLocal(sent, blocks)
  <2>1. PICK sent \in BOOLEAN, blocks \in BOOLEAN : ShellLocal(sent, blocks)
    BY <1>8
  <2>2. [Next]_vars
    BY <1>1, <2>1, StoredCommands DEF ShellLocal
  <2>3. stored' \in Storable
    BY <2>1, StoredCommands DEF ShellLocal
  <2> QED
    BY <2>2, <2>3
<1>9. CASE \E sent \in BOOLEAN : ShellReset(sent)
  BY <1>1, <1>9, StoredCommands DEF ShellReset
<1>10. CASE \E sent \in BOOLEAN, c \in Asked : Submit(c, sent)
  BY <1>1, <1>10 DEF Submit
<1> QED
  BY <1>2, <1>3, <1>4, <1>5, <1>6, <1>7, <1>8, <1>9, <1>10
     DEF SystemNext, Advance

(***************************************************************************)
(* A command of the M7 that leaves, or is refused; the M4 has it, or has   *)
(* dropped it.                                                             *)
(***************************************************************************)
LEMMA SendKeeps ==
  ASSUME NEW c, NEW sent \in BOOLEAN, Send(c, sent)
  PROVE  /\ motor' = motor /\ remote' = remote /\ pc' = pc
         /\ refused' = ~sent
         /\ sent => /\ pc \notin {"boot", "halted"}
                    /\ served' = (c.mode = "remote" /\ Accepted(c))
         /\ sent /\ Accepted(c) => pending' = c
         /\ ~(sent /\ Accepted(c)) => pending' = pending
         /\ ~sent => served' = served
BY DEF Send, Receive, vars

\* The four operations that send a command leave it on its way with a refresh,
\* or withdraw it, or wait for ever.
LEMMA CommandSent ==
  ASSUME SystemTypes, NEW sent \in BOOLEAN,
         \/ \E blocks \in BOOLEAN : \/ RefreshRemote(sent, blocks)
                                   \/ ShellLocal(sent, blocks)
         \/ ShellReset(sent)
         \/ \E c \in Asked : Submit(c, sent)
  PROVE  \E c \in Storable :
           /\ Send(c, sent)
           /\ stored' \in Storable /\ saving' = saving /\ stuck' \in BOOLEAN
           /\ sent => \/ stored' = c /\ c.mode = "remote" /\ left' = Refresh
                      \/ /\ stored'.mode = "local" /\ c.mode = "local"
                         /\ left' \in {left, Never}
                      \/ stuck' /\ left' = Never
           /\ ~sent => left' \in {left, Never}
<1>1. stored \in Storable /\ stuck \in BOOLEAN /\ Asked \subseteq Storable
  BY DEF SystemTypes
<1>2. ASSUME NEW blocks \in BOOLEAN, RefreshRemote(sent, blocks)
      PROVE  /\ Send(stored, sent) /\ stored' = stored /\ saving' = saving
             /\ stored.mode = "remote" /\ stuck' \in BOOLEAN
             /\ sent => left' = Refresh \/ (stuck' /\ left' = Never)
             /\ ~sent => left' = Never
  <2>1. /\ Send(stored, sent) /\ stored' = stored /\ saving' = saving
        /\ stored.mode = "remote"
        /\ left' = IF sent /\ ~blocks THEN Refresh ELSE Never
        /\ stuck' = (sent /\ blocks)
    BY <1>2 DEF RefreshRemote
  <2>2. stuck' \in BOOLEAN
    BY <2>1
  <2>3. sent /\ blocks => stuck' /\ left' = Never
    BY <2>1
  <2>4. sent /\ ~blocks => left' = Refresh
    BY <2>1
  <2>5. ~sent => left' = Never
    BY <2>1
  <2> QED
    BY <2>1, <2>2, <2>3, <2>4, <2>5
<1>3. ASSUME NEW blocks \in BOOLEAN, ShellLocal(sent, blocks)
      PROVE  /\ Send(Local(stored), sent) /\ saving' = saving
             /\ Local(stored) \in Storable /\ Local(stored).mode = "local"
             /\ stored' \in Storable /\ stuck' \in BOOLEAN
             /\ sent => \/ stored'.mode = "local" /\ left' = Never
                        \/ stuck' /\ left' = Never
             /\ ~sent => left' = left
  <2>1. /\ Send(Local(stored), sent) /\ saving' = saving
        /\ stored' = IF sent /\ ~blocks THEN Withdrawn(stored)
                     ELSE ByDefault(stored)
        /\ left' = IF sent THEN Never ELSE left
        /\ stuck' = (sent /\ blocks)
    BY <1>3 DEF ShellLocal
  <2>2. /\ Local(stored) \in Storable /\ Local(stored).mode = "local"
        /\ ByDefault(stored) \in Storable
        /\ Withdrawn(stored) \in Storable /\ Withdrawn(stored).mode = "local"
    BY <1>1, StoredCommands
  <2> QED
    BY <2>1, <2>2
<1>4. ASSUME ShellReset(sent)
      PROVE  /\ Send(Cleared(stored), sent) /\ saving' = saving
             /\ Cleared(stored) \in Storable /\ stored' = Cleared(stored)
             /\ Cleared(stored).mode \in {"local", "remote"} /\ stuck' = stuck
             /\ sent => IF Cleared(stored).mode = "remote" THEN left' = Refresh
                        ELSE left' = left
             /\ ~sent => left' = left
  <2>1. /\ Cleared(stored) \in Storable
        /\ Cleared(stored).mode \in {"local", "remote"}
    BY <1>1, StoredCommands
  <2> QED
    BY <1>4, <2>1 DEF ShellReset
<1>5. ASSUME NEW c \in Asked, Submit(c, sent)
      PROVE  /\ Send(c, sent) /\ saving' = saving
             /\ c \in Storable /\ stored' = c
             /\ c.mode \in {"local", "remote"} /\ stuck' = stuck
             /\ sent => IF c.mode = "remote" THEN left' = Refresh
                        ELSE left' = Never
             /\ ~sent => left' = left
  <2>1. c \in Storable /\ c.mode \in {"local", "remote"}
    BY <1>1, StoredCommands
  <2>2. left' = CASE sent /\ c.mode = "remote" -> Refresh
                  [] sent /\ c.mode = "local" -> Never
                  [] OTHER -> left
    BY <1>5 DEF Submit
  <2> QED
    BY <1>5, <2>1, <2>2 DEF Submit
<1>6. CASE \E blocks \in BOOLEAN : RefreshRemote(sent, blocks)
  BY <1>1, <1>2, <1>6
<1>7. CASE \E blocks \in BOOLEAN : ShellLocal(sent, blocks)
  BY <1>3, <1>7
<1>8. CASE ShellReset(sent)
  BY <1>1, <1>4, <1>8
<1>9. CASE \E c \in Asked : Submit(c, sent)
  BY <1>1, <1>5, <1>9
<1> QED
  BY <1>6, <1>7, <1>8, <1>9

LEMMA CommandStep ==
  ASSUME SystemInv, NEW sent \in BOOLEAN,
         \/ \E blocks \in BOOLEAN : \/ RefreshRemote(sent, blocks)
                                   \/ ShellLocal(sent, blocks)
         \/ ShellReset(sent)
         \/ \E c \in Asked : Submit(c, sent)
  PROVE  /\ SystemTypes' /\ YoungerThanRefresh' /\ ChainEndsWithACause'
         /\ StoredIsOnItsWay' /\ StoredCommandIsObeyed' /\ remote' = remote
<1>1. /\ SystemTypes /\ YoungerThanRefresh /\ NoCommand \notin Commands
      /\ left \in Overdue .. Never /\ saving \in BOOLEAN /\ served \in BOOLEAN
  BY DEF SystemInv, SystemTypes
<1>2. /\ Refresh \in Overdue .. Never /\ Never \in Overdue .. Never
      /\ Refresh # Never
  BY DEF Overdue, Never
<1>3. PICK c \in Storable :
        /\ Send(c, sent)
        /\ stored' \in Storable /\ saving' = saving /\ stuck' \in BOOLEAN
        /\ sent => \/ stored' = c /\ c.mode = "remote" /\ left' = Refresh
                   \/ /\ stored'.mode = "local" /\ c.mode = "local"
                      /\ left' \in {left, Never}
                   \/ stuck' /\ left' = Never
        /\ ~sent => left' \in {left, Never}
  BY <1>1, CommandSent
<1>4. /\ motor' = motor /\ remote' = remote /\ pc' = pc /\ refused' = ~sent
      /\ sent => /\ pc \notin {"boot", "halted"}
                 /\ served' = (c.mode = "remote" /\ Accepted(c))
      /\ sent /\ Accepted(c) => pending' = c
      /\ ~(sent /\ Accepted(c)) => pending' = pending
      /\ ~sent => served' = served
  BY <1>3, SendKeeps
<1>5. Accepted(c) => c # NoCommand
  BY <1>1, StoredCommands
<1>6. SystemTypes'
  <2>1. left' \in Overdue .. Never
    BY <1>1, <1>2, <1>3
  <2>2. served' \in BOOLEAN /\ refused' \in BOOLEAN
    BY <1>1, <1>4
  <2> QED
    BY <1>1, <1>3, <2>1, <2>2 DEF SystemTypes
<1>7. YoungerThanRefresh'
  <2>1. CASE sent
    BY <1>3, <1>4, <1>5, <2>1 DEF YoungerThanRefresh
  <2>2. CASE ~sent
    BY <1>1, <1>3, <1>4, <2>2 DEF YoungerThanRefresh, Never, Overdue
  <2> QED
    BY <2>1, <2>2
<1>8. ChainEndsWithACause'
  BY <1>2, <1>3, <1>4 DEF ChainEndsWithACause, Never
<1>9. ASSUME sent, ~stuck', stored'.mode = "remote", Accepted(stored')
      PROVE  pc' \notin {"boot", "halted"} /\ pending' = stored'
             /\ pending' # NoCommand
  BY <1>3, <1>4, <1>5, <1>9
<1>10. StoredIsOnItsWay'
  BY <1>4, <1>9 DEF StoredIsOnItsWay, Accepted
<1>11. StoredCommandIsObeyed'
  BY <1>4, <1>9 DEF StoredCommandIsObeyed, Accepted
<1> QED
  BY <1>4, <1>6, <1>7, <1>8, <1>10, <1>11

(***************************************************************************)
(* The steps of the M4 between which no time passes.                       *)
(***************************************************************************)
LEMMA BootOrLoopStep ==
  ASSUME SystemInv, UNCHANGED m7,
         \/ \E ready, others \in BOOLEAN, bad, safeBad \in Refusals :
              Boot(ready, others, bad, safeBad)
         \/ LoopStep
  PROVE  /\ YoungerThanRefresh' /\ ChainEndsWithACause'
         /\ StoredIsOnItsWay' /\ StoredCommandIsObeyed'
         /\ ~remote.timedOut /\ remote'.timedOut =>
              \/ left \in {Never, Overdue}
              \/ ~served
              \/ remote.timeout < Refresh + Lateness
<1>1. /\ NodeInv /\ stored \in Storable /\ left \in Overdue .. Never
      /\ NoCommand \notin Commands /\ pending \in Commands \cup {NoCommand}
      /\ remote \in Remote
      /\ YoungerThanRefresh /\ StoredIsOnItsWay /\ StoredCommandIsObeyed
      /\ stored' = stored /\ left' = left /\ refused' = refused
      /\ stuck' = stuck /\ served' = served
  BY DEF SystemInv, SystemTypes, m7, NodeInv, TypeOK
<1>0. ChainEndsWithACause'
  BY <1>1 DEF SystemInv, ChainEndsWithACause, Never
<1>2. CASE \E ready, others \in BOOLEAN, bad, safeBad \in Refusals :
             Boot(ready, others, bad, safeBad)
  <2>1. pc = "boot" /\ remote' = remote /\ pending' = pending
    BY <1>2 DEF Boot
  <2> QED
    BY <1>0, <1>1, <2>1
       DEF YoungerThanRefresh, StoredIsOnItsWay, StoredCommandIsObeyed
<1>3. CASE \E e \in Pressed, p \in Readings : Inputs(e, p)
  <2>1. /\ motor' = motor /\ remote' = remote /\ pending' = pending
        /\ pc' = "ipc"
    BY <1>3 DEF Inputs
  <2> QED
    BY <1>0, <1>1, <2>1
       DEF YoungerThanRefresh, StoredIsOnItsWay, StoredCommandIsObeyed, Obeys
<1>4. CASE \E bad, startBad, safeBad \in Refusals : Ipc(bad, startBad, safeBad)
  <2>1. PICK bad, startBad, safeBad \in Refusals : Ipc(bad, startBad, safeBad)
    BY <1>4
  <2>2. pending' = NoCommand /\ pc' = "decide"
    BY <2>1 DEF Ipc
  <2>3. pending # NoCommand /\ pending.mode = "remote" =>
          /\ remote'.age = 0 /\ ~remote'.timedOut
          /\ remote'.mode = "remote" /\ remote'.timeout = pending.timeout
          /\ motor'.target = pending.duty
          /\ motor'.accel = pending.accel /\ motor'.decel = pending.decel
    BY <1>1, <2>1, IpcKeeps
  <2>4. pending = NoCommand =>
          /\ motor'.target = motor.target
          /\ motor'.accel = motor.accel /\ motor'.decel = motor.decel
          /\ remote'.mode = remote.mode /\ remote'.age = remote.age
          /\ remote'.timeout = remote.timeout
          /\ remote'.timedOut /\ ~remote.timedOut =>
               remote.mode = "remote" /\ remote.age > remote.timeout
    BY <1>1, <2>1, IpcKeeps DEF KeepsTarget, KeepsRamps
  <2>5. YoungerThanRefresh'
    BY <1>1, <2>2, <2>3, <2>4 DEF YoungerThanRefresh, Never, Overdue
  <2>6. StoredIsOnItsWay'
    BY <1>1, <2>2 DEF StoredIsOnItsWay
  <2>7. StoredCommandIsObeyed'
    BY <1>1, <2>2, <2>3, <2>4
       DEF StoredIsOnItsWay, StoredCommandIsObeyed, Obeys
  <2>8. ASSUME ~remote.timedOut, remote'.timedOut,
               left \notin {Never, Overdue}, served
        PROVE  remote.timeout < Refresh + Lateness
    <3>1. pending = NoCommand
      BY <1>1, <2>3, <2>8 DEF YoungerThanRefresh
    <3>2. remote.age > remote.timeout /\ remote.age <= Refresh - left
      BY <1>1, <2>4, <2>8, <3>1 DEF YoungerThanRefresh
    <3>3. left \in Int /\ left >= -Lateness
      BY <1>1, <2>8 DEF Never, Overdue
    <3>4. remote.age \in Nat /\ remote.timeout \in Nat
      BY <1>1 DEF Remote
    <3> QED
      BY <3>2, <3>3, <3>4
  <2> QED
    BY <1>0, <2>5, <2>6, <2>7, <2>8
<1>5. CASE \E bad, safeBad \in Refusals : Decide(bad, safeBad)
  <2>1. PICK bad, safeBad \in Refusals : Decide(bad, safeBad)
    BY <1>5
  <2>2. pending' = pending /\ pc' = "drive"
    BY <2>1 DEF Decide
  <2>3. /\ remote'.mode = remote.mode /\ remote'.age = remote.age
        /\ remote'.timeout = remote.timeout
        /\ remote'.timedOut = remote.timedOut
        /\ remote.mode = "remote" =>
             /\ motor'.target = motor.target
             /\ motor'.accel = motor.accel /\ motor'.decel = motor.decel
    BY <1>1, <2>1, DecideKeeps DEF KeepsTarget, KeepsRamps
  <2> QED
    BY <1>0, <1>1, <2>2, <2>3
       DEF YoungerThanRefresh, StoredIsOnItsWay, StoredCommandIsObeyed, Obeys
<1>6. CASE \E bad, safeBad \in Refusals : Drive(bad, safeBad)
  <2>1. PICK bad, safeBad \in Refusals : Drive(bad, safeBad)
    BY <1>6
  <2>2. pending' = pending /\ pc' = "sleep"
    BY <2>1 DEF Drive
  <2>3. /\ remote' = remote /\ motor'.target = motor.target
        /\ motor'.accel = motor.accel /\ motor'.decel = motor.decel
    BY <1>1, <2>1, DriveKeeps DEF KeepsTarget, KeepsRamps
  <2> QED
    BY <1>0, <1>1, <2>2, <2>3
       DEF YoungerThanRefresh, StoredIsOnItsWay, StoredCommandIsObeyed, Obeys
<1> QED
  BY <1>0, <1>2, <1>3, <1>4, <1>5, <1>6 DEF LoopStep

\* What passes for the watchdog passes for the refresh.
LEMMA TickStep ==
  ASSUME SystemInv, NEW dt \in LoopTimes, Tick(dt)
  PROVE  /\ SystemTypes' /\ YoungerThanRefresh' /\ ChainEndsWithACause'
         /\ StoredIsOnItsWay' /\ StoredCommandIsObeyed'
         /\ remote'.timedOut = remote.timedOut
<1>1. /\ NodeInv /\ stored \in Storable /\ left \in Overdue .. Never
      /\ saving \in BOOLEAN /\ refused \in BOOLEAN
      /\ stuck \in BOOLEAN /\ served \in BOOLEAN
      /\ remote \in Remote /\ dt \in Nat \ {0}
      /\ YoungerThanRefresh /\ StoredIsOnItsWay /\ StoredCommandIsObeyed
  BY DEF SystemInv, SystemTypes, NodeInv, TypeOK
<1>2. /\ Sleep(dt) /\ stored' = stored /\ saving' = saving
      /\ refused' = refused /\ stuck' = stuck /\ served' = served
      /\ left' = CASE left = Never -> Never
                   [] left - dt < -Lateness -> Overdue
                   [] OTHER -> left - dt
  BY DEF Tick
<1>3. pending' = pending /\ pc' = "inputs" /\ served' = served
  BY <1>2 DEF Sleep
<1>4. /\ motor' = motor
      /\ remote'.mode = remote.mode /\ remote'.timeout = remote.timeout
      /\ remote'.timedOut = remote.timedOut
      /\ remote.mode = "remote" => remote'.age <= remote.age + dt
  BY <1>1, <1>2, SleepKeeps
<1>5. /\ left' \in Overdue .. Never
      /\ left' \notin {Never, Overdue} =>
           left' = left - dt /\ left \notin {Never, Overdue}
      /\ left' = Never => left = Never
  BY <1>1, <1>2 DEF Never, Overdue
<1>6. SystemTypes'
  BY <1>1, <1>2, <1>5 DEF SystemTypes
<1>7. YoungerThanRefresh'
  <2> SUFFICES ASSUME served', left' \notin {Never, Overdue}
               PROVE  /\ pending' = NoCommand /\ remote'.mode = "remote"
                           => remote'.age <= Refresh - left'
                      /\ pending' # NoCommand => pending'.mode = "remote"
    BY DEF YoungerThanRefresh, Never, Overdue
  <2>1. left' = left - dt /\ left \notin {Never, Overdue} /\ left \in Int
    BY <1>1, <1>5
  <2>2. NodeInv'
    BY <1>1, <1>2, SleepStep
  <2>3. remote'.age \in Nat /\ remote.age \in Nat
    BY <1>1, <2>2 DEF NodeInv, TypeOK, Remote
  <2> QED
    BY <1>1, <1>3, <1>4, <2>1, <2>3 DEF YoungerThanRefresh
<1>8. StoredIsOnItsWay' /\ StoredCommandIsObeyed'
  BY <1>1, <1>2, <1>3, <1>4 DEF StoredIsOnItsWay, StoredCommandIsObeyed, Obeys
<1>9. ChainEndsWithACause'
  BY <1>2, <1>5 DEF SystemInv, ChainEndsWithACause, Never
<1> QED
  BY <1>4, <1>6, <1>7, <1>8, <1>9

-----------------------------------------------------------------------------
LEMMA InitialSystemStep ==
  SystemInit => SystemInv
<1> SUFFICES ASSUME SystemInit PROVE SystemInv
  OBVIOUS
<1>1. NodeInv
  BY InitialStep DEF SystemInit
<1>2. SystemTypes
  <2>1. left \in Overdue .. Never
    <3>1. left = Never
      BY DEF SystemInit
    <3> QED
      BY <3>1 DEF Overdue, Never
  <2>2. /\ stored = AtBoot /\ saving = FALSE /\ refused = FALSE
        /\ stuck = FALSE /\ served = FALSE
    BY DEF SystemInit
  <2> QED
    BY <2>1, <2>2 DEF SystemTypes
<1>3. /\ YoungerThanRefresh /\ ChainEndsWithACause
      /\ StoredIsOnItsWay /\ StoredCommandIsObeyed
  BY DEF SystemInit, YoungerThanRefresh, ChainEndsWithACause, StoredIsOnItsWay,
         StoredCommandIsObeyed
<1> QED
  BY <1>1, <1>2, <1>3 DEF SystemInv

LEMMA InductiveSystemStep ==
  ASSUME SystemInv, [SystemNext]_systemVars
  PROVE  /\ SystemInv'
         /\ ~remote.timedOut /\ remote'.timedOut =>
              \/ left \in {Never, Overdue}
              \/ ~served
              \/ remote.timeout < Refresh + Lateness
<1>1. NodeInv'
  <2>1. NodeInv /\ stored \in Storable
    BY DEF SystemInv, SystemTypes
  <2>2. [Next]_vars
    BY <2>1, NodeSteps
  <2> QED
    BY <2>1, <2>2, InductiveStep
<1>2. CASE /\ UNCHANGED m7
           /\ \/ \E ready, others \in BOOLEAN, bad, safeBad \in Refusals :
                   Boot(ready, others, bad, safeBad)
              \/ LoopStep
  <2>1. SystemTypes'
    BY <1>2 DEF SystemInv, SystemTypes, m7, Never, Overdue
  <2> QED
    BY <1>1, <1>2, <2>1, BootOrLoopStep DEF SystemInv
<1>3. CASE \E dt \in LoopTimes : Tick(dt)
  BY <1>1, <1>3, TickStep DEF SystemInv
<1>4. CASE \E sent \in BOOLEAN :
             \/ \E blocks \in BOOLEAN : \/ RefreshRemote(sent, blocks)
                                       \/ ShellLocal(sent, blocks)
             \/ ShellReset(sent)
             \/ \E c \in Asked : Submit(c, sent)
  BY <1>1, <1>4, CommandStep DEF SystemInv
<1>5. CASE RefreshWithdrawn \/ Pause
  <2>1. /\ left' = Never /\ stored'.mode = "local" /\ stored' \in Storable
        /\ UNCHANGED <<motor, remote, pending, pc, saving, stuck, refused,
                       served>>
    BY <1>5, StoredCommands
       DEF RefreshWithdrawn, Pause, vars, SystemInv, SystemTypes
  <2>2. Never \in Overdue .. Never
    BY DEF Never, Overdue
  <2> QED
    BY <1>1, <2>1, <2>2
       DEF SystemInv, SystemTypes, YoungerThanRefresh, ChainEndsWithACause,
           StoredIsOnItsWay, StoredCommandIsObeyed, Never, Overdue
<1>6. CASE Save \/ UNCHANGED systemVars
  <2>1. /\ UNCHANGED <<motor, remote, pending, pc, stored, left, stuck, refused,
                       served>>
        /\ saving' \in {saving, ~saving}
    BY <1>6 DEF Save, systemVars, vars, m7
  <2> QED
    BY <1>1, <2>1
       DEF SystemInv, SystemTypes, YoungerThanRefresh, ChainEndsWithACause,
           StoredIsOnItsWay, StoredCommandIsObeyed, Obeys, Never, Overdue
<1> QED
  BY <1>2, <1>3, <1>4, <1>5, <1>6 DEF SystemNext, Advance

(***************************************************************************)
(* The inductive invariant of the two cores.                               *)
(***************************************************************************)
THEOREM SystemInvariant == SystemSpec => []SystemInv
<1>1. SystemInv /\ [SystemNext]_systemVars => SystemInv'
  BY InductiveSystemStep
<1> QED
  BY InitialSystemStep, <1>1, PTL DEF SystemSpec

(***************************************************************************)
(* The composition implements the loop: the M7's stored command, refresh   *)
(* and saves do nothing to the M4 that MotorNode does not allow, so that   *)
(* the theorems about the loop hold of the two cores.                      *)
(***************************************************************************)
THEOREM SystemImplementsNode == SystemSpec => Spec
<1>1. SystemInit => Init
  BY DEF SystemInit
<1>2. SystemInv /\ [SystemNext]_systemVars => [Next]_vars
  BY NodeSteps DEF SystemInv, SystemTypes
<1> QED
  BY SystemInvariant, <1>1, <1>2, PTL DEF SystemSpec, Spec

(***************************************************************************)
(* The command stored by the M7 is the one the M4 obeys once its mailbox   *)
(* is empty, as long as the link takes it, the M4 knows its control word   *)
(* and no thread of the M7 waits for ever.                                 *)
(***************************************************************************)
THEOREM StoredObeyed == SystemSpec => []StoredCommandIsObeyed
<1>1. SystemInv => StoredCommandIsObeyed
  BY DEF SystemInv
<1> QED
  BY SystemInvariant, <1>1, PTL

(***************************************************************************)
(* A command that the M4 accepts and that is refreshed in time never       *)
(* expires: any expiry is of a command withdrawn, overdue, refused,        *)
(* dropped by the M4 or held up for ever, or of a timeout shorter than the *)
(* refresh period and its lateness.                                        *)
(***************************************************************************)
THEOREM CausedExpiries == SystemSpec => ExpiryHasACause
<1>1. SystemInv /\ [SystemNext]_systemVars =>
        [~remote.timedOut /\ remote'.timedOut =>
           \/ stored.mode = "local"
           \/ left = Overdue
           \/ left = Never /\ (refused \/ stuck)
           \/ ~served
           \/ remote.timeout < Refresh + Lateness]_systemVars
  <2> SUFFICES ASSUME SystemInv, [SystemNext]_systemVars,
                      ~remote.timedOut, remote'.timedOut
               PROVE  \/ stored.mode = "local"
                      \/ left = Overdue
                      \/ left = Never /\ (refused \/ stuck)
                      \/ ~served
                      \/ remote.timeout < Refresh + Lateness
    OBVIOUS
  <2>1. left \in {Never, Overdue} \/ ~served \/ remote.timeout < Refresh + Lateness
    BY InductiveSystemStep
  <2>2. stored.mode \in {"local", "remote"}
    BY StoredCommands DEF SystemInv, SystemTypes
  <2>3. stored.mode = "remote" /\ left = Never => refused \/ stuck
    BY DEF SystemInv, ChainEndsWithACause
  <2> QED
    BY <2>1, <2>2, <2>3
<1> QED
  BY SystemInvariant, <1>1, PTL DEF SystemSpec, ExpiryHasACause
=============================================================================
