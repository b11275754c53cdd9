---------------------------- MODULE MotorControl ----------------------------
(***************************************************************************)
(* The M4 motor driver, app_m4/src/motor_control.c, called in any order    *)
(* its single caller thread may choose, with drivers that may refuse any   *)
(* write.  MotorNode composes the same operations in the order of the main *)
(* loop.                                                                   *)
(***************************************************************************)
EXTENDS MotorOps

CONSTANTS
  Period,   \* MOTOR_LOOP_PERIOD_MS, the elapsed time given to app_motor_process
  Ramps     \* the ramp rates callers ask for

ASSUME CallerAssumption ==
  /\ Period \in Nat \ {0}
  /\ Ramps \subseteq Nat

VARIABLES
  motor,    \* the file's static variables and the bridge
  up        \* "boot", then "serving", or "halted" when app_motor_init failed

vars == <<motor, up>>

TypeOK ==
  /\ motor \in Motor
  /\ up \in {"boot", "serving", "halted"}

Init ==
  /\ motor = MotorAtReset
  /\ up = "boot"

\* main() sleeps for ever when app_motor_init fails.
Boot(ready, bad, safeBad) ==
  /\ up = "boot"
  /\ motor' = app_motor_init(motor, ready, bad, safeBad)
  /\ up' = IF motor'.ret = "ok" THEN "serving" ELSE "halted"

Call(result) ==
  /\ up = "serving"
  /\ motor' = result
  /\ UNCHANGED up

Start(bad, safeBad) == Call(app_motor_start(motor, bad, safeBad))
Stop == Call(app_motor_stop(motor))
ToggleDirection == Call(app_motor_toggle_direction(motor))
SetDirection(d) == Call(app_motor_set_direction(motor, d))
Reset(bad, safeBad) == Call(app_motor_reset(motor, bad, safeBad))
QuickStop(bad, safeBad) == Call(app_motor_quick_stop(motor, bad, safeBad))
SetTargetDuty(d) == Call(app_motor_set_target_duty(motor, d))
SetRamps(a, d) == Call(app_motor_set_ramps(motor, a, d))
RestoreDefaultRamps == Call(app_motor_restore_default_ramps(motor))
Process(bad, safeBad) == Call(app_motor_process(motor, Period, bad, safeBad))
Fail(safeBad) == Call(app_motor_fail(motor, safeBad))

Next ==
  \/ \E ready \in BOOLEAN, bad, safeBad \in SUBSET Drivers :
        Boot(ready, bad, safeBad)
  \/ \E bad, safeBad \in SUBSET Drivers :
        \/ Start(bad, safeBad)
        \/ Reset(bad, safeBad)
        \/ QuickStop(bad, safeBad)
        \/ Process(bad, safeBad)
  \/ \E safeBad \in SUBSET Drivers : Fail(safeBad)
  \/ \E d \in Directions : SetDirection(d)
  \/ \E d \in 0 .. DutyMax + 1 : SetTargetDuty(d)
  \/ \E a, d \in Ramps : SetRamps(a, d)
  \/ Stop
  \/ ToggleDirection
  \/ RestoreDefaultRamps

Spec == Init /\ [][Next]_vars

\* The main loop calls app_motor_process once per period, for ever.
FairSpec ==
  Spec /\ WF_vars(\E bad, safeBad \in SUBSET Drivers : Process(bad, safeBad))

-----------------------------------------------------------------------------
(***************************************************************************)
(* Whatever writes were refused on the way, a motor the software calls     *)
(* READY (or has not initialised) has its three outputs at 0: app_motor_   *)
(* start may raise IN1 before IN2 without ever crossing the bridge.        *)
(***************************************************************************)
ReadyIsReleased ==
  motor.state \in {"DISABLED", "READY"} => Released(motor) /\ motor.duty = 0

(***************************************************************************)
(* IN1 and IN2 are never both high, in a fault either.                     *)
(***************************************************************************)
NoShootThrough == ~(motor.hw["in1"] = 1 /\ motor.hw["in2"] = 1)

(***************************************************************************)
(* While the motor runs or brakes, the reported duty is the pulse on the   *)
(* pin and the lines select the reported direction: the state word sent to *)
(* the M7 describes the bridge.                                            *)
(***************************************************************************)
BridgeFollowsState ==
  motor.state \in {"RUNNING", "STOPPING"} =>
    /\ motor.hw["pwm"] = motor.duty
    /\ LinesSelect(motor, motor.dir)

(***************************************************************************)
(* A running motor is never driven below APP_MOTOR_DUTY_MIN_PERMILLE, at   *)
(* any point of a boost or of a ramp, and boosts only while it runs.       *)
(***************************************************************************)
RunningDutyInRange ==
  /\ motor.state = "RUNNING" => motor.duty >= DutyMin
  /\ motor.boost # 0 => motor.state = "RUNNING" /\ motor.duty = StartBoost

\* The inductive invariant: what every operation relies on and restores.
MotorInv ==
  /\ TypeOK
  /\ SafeMotor(motor)
  /\ up = "boot" => motor.state = "DISABLED"

(***************************************************************************)
(* A direction changes only with the bridge released ("La direction ne     *)
(* change que lorsque le moteur est arrete").                              *)
(***************************************************************************)
DirectionChangesReleased ==
  [][motor'.dir # motor.dir => Released(motor')]_vars

(***************************************************************************)
(* The pulse on the pin rises only into RUNNING: no stop, reset, quick     *)
(* stop, braking ramp or fault ever adds power.                            *)
(***************************************************************************)
PowerRisesOnlyRunning ==
  [][motor'.hw["pwm"] > motor.hw["pwm"] => motor'.state = "RUNNING"]_vars

\* The power stage as the abstract specification sees it.
Polarity ==
  CASE motor.hw["in1"] = 0 /\ motor.hw["in2"] = 0 -> "off"
    [] LinesSelect(motor, "FORWARD") -> "FORWARD"
    [] LinesSelect(motor, "REVERSE") -> "REVERSE"
    [] OTHER -> "short"

Bridge == INSTANCE HBridge WITH
  MaxPower <- DutyMax,
  polarity <- Polarity,
  power <- motor.hw["pwm"],
  tripped <- motor.state = "FAULT"

(***************************************************************************)
(* The driver implements HBridge: it energises only a released bridge,     *)
(* never reverses an energised one, and in a fault only removes power.     *)
(***************************************************************************)
ImplementsBridge == Bridge!Spec

(***************************************************************************)
(* A stop requested on a running motor ends, in READY or in a fault: the   *)
(* braking ramp always advances (motor_ramp_step rounds 0 up to 1).        *)
(***************************************************************************)
StopEnds == motor.state = "STOPPING" ~> motor.state \in {"READY", "FAULT"}

(***************************************************************************)
(* A motor left running at a constant target reaches it and stays there,   *)
(* whatever ramp rates are set meanwhile.                                  *)
(***************************************************************************)
RampConverges ==
  \A t \in DutyMin .. DutyMax :
    <>[](motor.state = "RUNNING" /\ motor.target = t) => <>[](motor.duty = t)
=============================================================================
