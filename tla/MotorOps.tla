------------------------------ MODULE MotorOps ------------------------------
(***************************************************************************)
(* The operations of app_m4/src/motor_control.c as functions from the      *)
(* motor record before a call to the motor record after it.                *)
(*                                                                         *)
(* The record holds the file's static variables together with hw, what the *)
(* three outputs of the H-bridge really carry: the PWM pulse (0 .. DutyMax,*)
(* in the unit of the duty cycle) and the two direction lines.  A driver   *)
(* call that fails leaves its output as it was.                            *)
(*                                                                         *)
(* Every operation that reaches the drivers takes two sets of drivers:     *)
(* bad, those that refuse the operation's own calls, and safeBad, those    *)
(* that refuse the calls motor_record_fault makes afterwards.  The two are *)
(* independent, since a driver may recover between its two calls.          *)
(***************************************************************************)
EXTENDS MotorDuty

CONSTANTS
  StartBoost,   \* MOTOR_START_BOOST_PERMILLE
  BoostMs,      \* MOTOR_START_BOOST_MS
  RunRamp,      \* MOTOR_RUN_RAMP_PERMILLE_PER_SECOND
  StopRamp,     \* MOTOR_STOP_RAMP_PERMILLE_PER_SECOND
  Second        \* the 1000 ms of motor_ramp_step

ASSUME MotorAssumption ==
  /\ DutyMin \in Nat \ {0}
  /\ DutyMax \in Nat
  /\ StartBoost \in DutyMin .. DutyMax
  /\ BoostMs \in Nat
  /\ RunRamp \in Nat \ {0}
  /\ StopRamp \in Nat \ {0}
  /\ Second \in Nat \ {0}

Drivers == {"pwm", "in1", "in2"}
MotorStates == {"DISABLED", "READY", "RUNNING", "STOPPING", "FAULT"}
Directions == {"FORWARD", "REVERSE"}
Returns == {"ok", "EIO", "EBUSY", "EINVAL", "ERANGE", "ECANCELED"}

(***************************************************************************)
(* The static variables, and ret: what the last call returned.  The code   *)
(* of the last error is abstracted to whether there is one.                *)
(***************************************************************************)
Motor ==
  [state  : MotorStates,
   dir    : Directions,
   duty   : 0 .. DutyMax,
   target : DutyMin .. DutyMax,
   boost  : 0 .. BoostMs,
   accel  : Nat \ {0},
   decel  : Nat \ {0},
   error  : BOOLEAN,
   hw     : [Drivers -> 0 .. DutyMax],
   ret    : Returns]

\* The initialised statics, and a bridge the processor's reset left off.
MotorAtReset ==
  [state |-> "DISABLED", dir |-> "FORWARD", duty |-> 0, target |-> DutyMin,
   boost |-> 0, accel |-> RunRamp, decel |-> StopRamp, error |-> FALSE,
   hw |-> [d \in Drivers |-> 0], ret |-> "ok"]

Return(m, r) == [m EXCEPT !.ret = r]

-----------------------------------------------------------------------------
\* Mutant of motor_make_safe: IN2 is forgotten.
MakeSafeWithoutIn2(m, bad) ==
  [m EXCEPT !.hw = [d \in Drivers |-> IF d \in bad \cup {"in2"} THEN m.hw[d]
                                      ELSE 0],
            !.duty = 0, !.boost = 0,
            !.ret = IF bad \cap Drivers = {} THEN "ok" ELSE "EIO"]

\* Every output is written to 0, even after one of them has refused; the
\* software's duty and boost are cleared whatever the drivers answered.
motor_make_safe(m, bad) ==
  [m EXCEPT !.hw = [d \in Drivers |-> IF d \in bad THEN m.hw[d] ELSE 0],
            !.duty = 0,
            !.boost = 0,
            !.ret = IF bad \cap Drivers = {} THEN "ok" ELSE "EIO"]

\* What make_safe answers is ignored.
motor_record_fault(m, safeBad) ==
  [motor_make_safe(m, safeBad) EXCEPT !.error = TRUE,
                                      !.state = "FAULT",
                                      !.ret = "EIO"]

motor_set_pwm(m, d, bad, safeBad) ==
  IF d > DutyMax THEN Return(m, "EINVAL")
  ELSE IF "pwm" \in bad THEN motor_record_fault(m, safeBad)
  ELSE [m EXCEPT !.hw["pwm"] = d, !.duty = d, !.ret = "ok"]

\* IN1 is written before IN2, and IN2 only if IN1 was accepted.
motor_apply_direction(m, bad, safeBad) ==
  LET in1 == IF m.dir = "FORWARD" THEN 1 ELSE 0
      first == [m EXCEPT !.hw["in1"] = in1]
  IN  IF "in1" \in bad THEN motor_record_fault(m, safeBad)
      ELSE IF "in2" \in bad THEN motor_record_fault(first, safeBad)
      ELSE [first EXCEPT !.hw["in2"] = 1 - in1, !.ret = "ok"]

\* Mutant of motor_ramp_step: a step that rounds to 0 stays 0.
RampStepTruncated(rate, elapsed) == (rate * elapsed) \div Second

motor_ramp_step(rate, elapsed) ==
  LET step == (rate * elapsed) \div Second
  IN  IF step = 0 /\ elapsed # 0 THEN 1 ELSE step

\* Mutant of Towards: the last step is not cut to the distance left.
TowardsUncut(from, to, step) == IF from < to THEN from + step ELSE from - step

Towards(from, to, step) ==
  IF from < to
  THEN IF to - from <= step THEN to ELSE from + step
  ELSE IF from - to <= step THEN to ELSE from - step

motor_ramp_towards(m, to, step, bad, safeBad) ==
  motor_set_pwm(m, Towards(m.duty, to, step), bad, safeBad)

-----------------------------------------------------------------------------
\* ready is what the three *_is_ready_dt checks answer; bad = {} stands for
\* pins that configure and a bridge that make_safe clears.
app_motor_init(m, ready, bad, safeBad) ==
  LET off == motor_make_safe(m, bad)
  IN  IF ~ready \/ off.ret # "ok" THEN motor_record_fault(m, safeBad)
      ELSE [off EXCEPT !.dir = "FORWARD", !.error = FALSE, !.state = "READY"]

app_motor_start(m, bad, safeBad) ==
  LET on == motor_apply_direction(m, bad, safeBad)
      boosted == motor_set_pwm(on, StartBoost, bad, safeBad)
  IN  CASE m.state = "FAULT" -> Return(m, "EIO")
        [] m.state = "RUNNING" -> Return(m, "ok")
        [] m.state \in {"DISABLED", "STOPPING"} -> Return(m, "EBUSY")
        [] OTHER -> IF on.ret # "ok" THEN on
                    ELSE IF boosted.ret # "ok" THEN boosted
                    ELSE [boosted EXCEPT !.boost = BoostMs, !.state = "RUNNING"]

app_motor_stop(m) ==
  CASE m.state = "FAULT" -> Return(m, "EIO")
    [] m.state \in {"READY", "DISABLED"} -> Return(m, "ok")
    [] OTHER -> [m EXCEPT !.boost = 0, !.state = "STOPPING", !.ret = "ok"]

\* Mutant of app_motor_set_direction: refused only while the motor runs.
SetDirectionWhileStopping(m, d) ==
  IF m.state \in {"FAULT", "RUNNING"} THEN Return(m, "EBUSY")
  ELSE [m EXCEPT !.dir = d, !.ret = "ok"]

\* Mutant of app_motor_set_direction: refused only in a fault.
SetDirectionWhileRunning(m, d) ==
  IF m.state = "FAULT" THEN Return(m, "EIO")
  ELSE [m EXCEPT !.dir = d, !.ret = "ok"]

app_motor_set_direction(m, d) ==
  CASE m.state = "FAULT" -> Return(m, "EIO")
    [] m.state = "READY" -> [m EXCEPT !.dir = d, !.ret = "ok"]
    [] OTHER -> Return(m, "EBUSY")

Opposite(d) == IF d = "FORWARD" THEN "REVERSE" ELSE "FORWARD"

app_motor_toggle_direction(m) == app_motor_set_direction(m, Opposite(m.dir))

\* Mutant of app_motor_reset: what make_safe answers is ignored.
ResetUnchecked(m, bad, safeBad) ==
  [motor_make_safe(m, bad) EXCEPT !.dir = "FORWARD", !.error = FALSE,
                                  !.state = "READY", !.ret = "ok"]

\* Mutant of app_motor_reset: the error of the fault is not forgotten.
ResetKeepsError(m, bad, safeBad) ==
  LET off == motor_make_safe(m, bad)
  IN  IF off.ret # "ok" THEN motor_record_fault(off, safeBad)
      ELSE [off EXCEPT !.dir = "FORWARD", !.state = "READY"]

app_motor_reset(m, bad, safeBad) ==
  LET off == motor_make_safe(m, bad)
  IN  IF off.ret # "ok" THEN motor_record_fault(off, safeBad)
      ELSE [off EXCEPT !.dir = "FORWARD", !.error = FALSE, !.state = "READY"]

\* Mutant of app_motor_quick_stop: what make_safe answers is ignored.
QuickStopUnchecked(m, bad, safeBad) ==
  IF m.state = "FAULT" THEN Return(m, "EIO")
  ELSE [motor_make_safe(m, bad) EXCEPT !.state = "READY", !.ret = "ok"]

app_motor_quick_stop(m, bad, safeBad) ==
  LET off == motor_make_safe(m, bad)
  IN  IF m.state = "FAULT" THEN Return(m, "EIO")
      ELSE IF off.ret # "ok" THEN motor_record_fault(off, safeBad)
      ELSE [off EXCEPT !.state = "READY"]

app_motor_set_target_duty(m, d) ==
  IF d \in DutyMin .. DutyMax THEN [m EXCEPT !.target = d, !.ret = "ok"]
  ELSE Return(m, "ERANGE")

app_motor_set_ramps(m, accel, decel) ==
  IF accel = 0 \/ decel = 0 THEN Return(m, "EINVAL")
  ELSE [m EXCEPT !.accel = accel, !.decel = decel, !.ret = "ok"]

app_motor_restore_default_ramps(m) ==
  [m EXCEPT !.accel = RunRamp, !.decel = StopRamp]

\* The boost is counted down before any ramp; the call that ends it ramps nothing.
ProcessRunning(m, elapsed, bad, safeBad) ==
  IF m.boost # 0
  THEN [m EXCEPT !.boost = IF elapsed >= m.boost THEN 0 ELSE m.boost - elapsed,
                 !.ret = "ok"]
  ELSE motor_ramp_towards(m, m.target, motor_ramp_step(m.accel, elapsed),
                          bad, safeBad)

\* Mutant of ProcessStopping: the ramp is towards the target.
StoppingTowardsTarget(m, elapsed, bad, safeBad) ==
  motor_ramp_towards(m, m.target, motor_ramp_step(m.decel, elapsed), bad, safeBad)

\* At duty 0 the bridge is released.  The PWM call and make_safe share bad: a
\* PWM that refuses only its second 0 ends in a state the shared set reaches too.
ProcessStopping(m, elapsed, bad, safeBad) ==
  LET slower == motor_ramp_towards(m, 0, motor_ramp_step(m.decel, elapsed),
                                   bad, safeBad)
      off == motor_make_safe(slower, bad)
  IN  IF slower.ret # "ok" \/ slower.duty # 0 THEN slower
      ELSE IF off.ret # "ok" THEN motor_record_fault(off, safeBad)
      ELSE [off EXCEPT !.state = "READY"]

app_motor_process(m, elapsed, bad, safeBad) ==
  CASE m.state = "RUNNING" -> ProcessRunning(m, elapsed, bad, safeBad)
    [] m.state = "STOPPING" -> ProcessStopping(m, elapsed, bad, safeBad)
    [] OTHER -> Return(m, "ok")

app_motor_fail(m, safeBad) == motor_record_fault(m, safeBad)
-----------------------------------------------------------------------------
Released(m) == \A d \in Drivers : m.hw[d] = 0

LinesSelect(m, d) ==
  /\ m.hw["in1"] = IF d = "FORWARD" THEN 1 ELSE 0
  /\ m.hw["in2"] = IF d = "FORWARD" THEN 0 ELSE 1

\* What every operation relies on and restores, whichever writes are refused.
SafeMotor(m) ==
  /\ m \in Motor
  /\ m.hw["in1"] \in {0, 1} /\ m.hw["in2"] \in {0, 1}
  /\ ~(m.hw["in1"] = 1 /\ m.hw["in2"] = 1)
  /\ m.state \in {"DISABLED", "READY"} => Released(m) /\ m.duty = 0
  /\ m.state \in {"RUNNING", "STOPPING"} =>
        m.hw["pwm"] = m.duty /\ LinesSelect(m, m.dir)
  /\ m.state = "RUNNING" => m.duty >= DutyMin
  /\ m.boost # 0 => m.state = "RUNNING" /\ m.duty = StartBoost
  /\ m.error <=> m.state = "FAULT"
=============================================================================
