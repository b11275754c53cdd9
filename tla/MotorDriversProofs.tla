-------------------------- MODULE MotorDriversProofs --------------------------
(***************************************************************************)
(* The three drivers that the Cortex-M4's main loop calls: the safety      *)
(* properties of the motor (MotorControl) for every duty range, boost,     *)
(* ramp rate and period, and every pattern of refused writes; that the     *)
(* buttons (MotorButtons) are debounced, for any number of samples; and    *)
(* that the filter of the potentiometer (MotorPotentiometer) never         *)
(* overshoots, for any divisor and scale.                                  *)
(***************************************************************************)
EXTENDS MotorControl, MotorButtons, MotorPotentiometer, MotorOpsProofs, SequenceTheorems

USE CallerAssumption

\* A step of MotorControl, as the lemmas of MotorOpsProofs describe it.
Operation ==
  \/ \E works, bad, safeBad :
       /\ motor.state = "DISABLED"
       /\ motor' = app_motor_init(motor, works, bad, safeBad)
  \/ \E bad, safeBad : motor' = app_motor_start(motor, bad, safeBad)
  \/ \E bad, safeBad : motor' = app_motor_reset(motor, bad, safeBad)
  \/ \E bad, safeBad : motor' = app_motor_quick_stop(motor, bad, safeBad)
  \/ \E bad, safeBad : motor' = app_motor_process(motor, Period, bad, safeBad)
  \/ \E safeBad : motor' = app_motor_fail(motor, safeBad)
  \/ \E d \in Directions : motor' = app_motor_set_direction(motor, d)
  \/ \E d : motor' = app_motor_set_target_duty(motor, d)
  \/ \E a, d \in Nat : motor' = app_motor_set_ramps(motor, a, d)
  \/ motor' = app_motor_stop(motor)
  \/ motor' = app_motor_toggle_direction(motor)
  \/ motor' = app_motor_restore_default_ramps(motor)
  \/ motor' = motor

\* What an operation can do to the power stage; the abstract steps of HBridge
\* and the action properties are read off its disjuncts.
PowerStep(m, n) ==
  \/ n.hw = m.hw /\ (n.state = "FAULT" <=> m.state = "FAULT")
     /\ (n.dir # m.dir => Released(n))
  \/ Released(n) /\ n.state # "FAULT"
  \/ /\ m.state = "READY" /\ n.state = "RUNNING" /\ n.dir = m.dir
  \/ /\ m.state = "RUNNING" /\ n.state = "RUNNING" /\ n.dir = m.dir
  \/ /\ m.state = "STOPPING" /\ n.state = "STOPPING" /\ n.dir = m.dir
     /\ n.duty # 0 /\ n.hw["pwm"] <= m.hw["pwm"]
  \/ /\ n.state = "FAULT"
     /\ n.dir = m.dir \/ Released(n)
     /\ n.hw["pwm"] \in {m.hw["pwm"], 0}
     /\ \/ \A d \in Drivers : n.hw[d] \in {m.hw[d], 0}
        \/ Released(m)

LEMMA OperationStep ==
  ASSUME SafeMotor(motor), Operation
  PROVE  SafeMotor(motor') /\ PowerStep(motor, motor')
<1>0. motor \in Motor /\ motor' = motor'
  BY DEF SafeMotor
<1>1. CASE \E works, bad, safeBad :
             /\ motor.state = "DISABLED"
             /\ motor' = app_motor_init(motor, works, bad, safeBad)
  <2>1. /\ SafeMotor(motor') /\ Released(motor')
        /\ motor'.state \in {"READY", "FAULT"}
    BY <1>1, SafeInit
  <2>2. Released(motor)
    BY <1>1 DEF SafeMotor
  <2> QED
    BY <2>1, <2>2 DEF PowerStep, Released, Drivers
<1>2. CASE \E bad, safeBad : motor' = app_motor_start(motor, bad, safeBad)
  <2>1. /\ SafeMotor(motor') /\ motor'.dir = motor.dir
        /\ \/ motor'.hw = motor.hw /\ motor'.state = motor.state
           \/ motor.state = "READY" /\ motor'.state = "RUNNING"
           \/ /\ motor.state = "READY" /\ motor'.state = "FAULT"
              /\ motor'.hw["pwm"] = 0
    BY <1>2, SafeStart
  <2>2. motor.state = "READY" => Released(motor)
    BY DEF SafeMotor
  <2> QED
    BY <2>1, <2>2 DEF PowerStep
<1>3. CASE \E bad, safeBad : motor' = app_motor_reset(motor, bad, safeBad)
  <2>1. /\ SafeMotor(motor')
        /\ \/ Released(motor') /\ motor'.state = "READY"
           \/ /\ motor'.state = "FAULT" /\ motor'.dir = motor.dir
              /\ \A x \in Drivers : motor'.hw[x] \in {motor.hw[x], 0}
    BY <1>3, SafeReset
  <2> QED
    BY <2>1 DEF PowerStep, Drivers
<1>4. CASE \E bad, safeBad : motor' = app_motor_quick_stop(motor, bad, safeBad)
  <2>1. /\ SafeMotor(motor') /\ motor'.dir = motor.dir
        /\ \/ /\ motor'.hw = motor.hw
              /\ motor'.state = "FAULT" /\ motor.state = "FAULT"
           \/ Released(motor') /\ motor'.state = "READY"
           \/ /\ motor'.state = "FAULT"
              /\ \A x \in Drivers : motor'.hw[x] \in {motor.hw[x], 0}
    BY <1>4, SafeQuickStop
  <2> QED
    BY <2>1 DEF PowerStep, Drivers
<1>5. CASE \E bad, safeBad :
             motor' = app_motor_process(motor, Period, bad, safeBad)
  <2>1. PICK bad, safeBad :
          motor' = app_motor_process(motor, Period, bad, safeBad)
    BY <1>5
  <2>2. SafeMotor(motor')
    BY <2>1, SafeProcess
  <2>3. CASE motor.state = "RUNNING"
    <3>1. motor' = ProcessRunning(motor, Period, bad, safeBad)
      BY <2>1, <2>3 DEF app_motor_process
    <3>2. /\ motor'.dir = motor.dir
          /\ \/ motor'.state = "RUNNING"
             \/ /\ motor'.state = "FAULT"
                /\ \A x \in Drivers : motor'.hw[x] \in {motor.hw[x], 0}
      BY <2>3, <3>1, SafeProcessRunning
    <3> QED
      BY <2>2, <2>3, <3>2 DEF PowerStep, Drivers
  <2>4. CASE motor.state = "STOPPING"
    <3>1. motor' = ProcessStopping(motor, Period, bad, safeBad)
      BY <2>1, <2>4 DEF app_motor_process
    <3>2. /\ motor'.dir = motor.dir
          /\ \/ /\ motor'.state = "STOPPING" /\ motor'.duty # 0
                /\ motor'.hw["pwm"] <= motor.hw["pwm"]
             \/ Released(motor') /\ motor'.state = "READY"
             \/ /\ motor'.state = "FAULT"
                /\ \A x \in Drivers : motor'.hw[x] \in {motor.hw[x], 0}
      BY <2>4, <3>1, SafeProcessStopping
    <3> QED
      BY <2>2, <2>4, <3>2 DEF PowerStep, Drivers
  <2>5. CASE motor.state \notin {"RUNNING", "STOPPING"}
    <3>1. motor' = Return(motor, "ok") /\ "ok" \in Returns
      BY <2>1, <2>5 DEF app_motor_process, Returns
    <3>2. /\ motor'.hw = motor.hw /\ motor'.state = motor.state
          /\ motor'.dir = motor.dir
      BY <3>1, OnlyReturn
    <3> QED
      BY <2>2, <3>2 DEF PowerStep
  <2> QED
    BY <2>3, <2>4, <2>5
<1>6. CASE \E safeBad : motor' = app_motor_fail(motor, safeBad)
  <2>1. /\ SafeMotor(motor') /\ motor'.state = "FAULT"
        /\ motor'.dir = motor.dir
        /\ \A x \in Drivers : motor'.hw[x] \in {motor.hw[x], 0}
    BY <1>6, SafeFail
  <2> QED
    BY <2>1 DEF PowerStep, Drivers
<1>7. CASE \E d \in Directions : motor' = app_motor_set_direction(motor, d)
  BY <1>7, SafeSetDirection DEF PowerStep
<1>8. CASE \E d : motor' = app_motor_set_target_duty(motor, d)
  <2>1. PICK d : motor' = app_motor_set_target_duty(motor, d)
    BY <1>8
  <2>2. /\ SafeMotor(motor') /\ motor'.hw = motor.hw
        /\ motor'.state = motor.state /\ motor'.dir = motor.dir
    BY <2>1, SafeSetTargetDuty
  <2> QED
    BY <2>2 DEF PowerStep
<1>9. CASE \E a, d \in Nat : motor' = app_motor_set_ramps(motor, a, d)
  <2>1. PICK a \in Nat, d \in Nat : motor' = app_motor_set_ramps(motor, a, d)
    BY <1>9
  <2>2. /\ SafeMotor(motor') /\ motor'.hw = motor.hw
        /\ motor'.state = motor.state /\ motor'.dir = motor.dir
    BY <2>1, SafeSetRamps
  <2> QED
    BY <2>2 DEF PowerStep
<1>10. CASE motor' = app_motor_stop(motor)
  BY <1>10, SafeStop DEF PowerStep
<1>11. CASE motor' = app_motor_toggle_direction(motor)
  BY <1>11, SafeToggleDirection DEF PowerStep
<1>12. CASE motor' = app_motor_restore_default_ramps(motor)
  BY <1>12, SafeRestoreDefaultRamps DEF PowerStep
<1>13. CASE motor' = motor
  BY <1>13 DEF PowerStep
<1> QED
  BY <1>1, <1>2, <1>3, <1>4, <1>5, <1>6, <1>7, <1>8, <1>9, <1>10, <1>11,
     <1>12, <1>13 DEF Operation

-----------------------------------------------------------------------------
LEMMA NextIsOperation ==
  ASSUME MotorInv, [Next]_vars
  PROVE  Operation
<1>1. CASE \E works \in BOOLEAN, bad, safeBad \in SUBSET Drivers :
             Boot(works, bad, safeBad)
  BY <1>1 DEF Boot, Operation, MotorInv
<1>2. CASE \E bad, safeBad \in SUBSET Drivers : Start(bad, safeBad)
  BY <1>2 DEF Start, Call, Operation
<1>3. CASE \E bad, safeBad \in SUBSET Drivers : Reset(bad, safeBad)
  BY <1>3 DEF Reset, Call, Operation
<1>4. CASE \E bad, safeBad \in SUBSET Drivers : QuickStop(bad, safeBad)
  BY <1>4 DEF QuickStop, Call, Operation
<1>5. CASE \E bad, safeBad \in SUBSET Drivers : Process(bad, safeBad)
  BY <1>5 DEF Process, Call, Operation
<1>6. CASE \E safeBad \in SUBSET Drivers : Fail(safeBad)
  BY <1>6 DEF Fail, Call, Operation
<1>7. CASE \E d \in Directions : SetDirection(d)
  BY <1>7 DEF SetDirection, Call, Operation
<1>8. CASE \E d \in 0 .. DutyMax + 1 : SetTargetDuty(d)
  BY <1>8 DEF SetTargetDuty, Call, Operation
<1>9. CASE \E a, d \in Ramps : SetRamps(a, d)
  <2>1. PICK a \in Nat, d \in Nat : motor' = app_motor_set_ramps(motor, a, d)
    BY <1>9 DEF SetRamps, Call
  <2> QED
    BY <2>1 DEF Operation
<1>10. CASE Stop \/ ToggleDirection \/ RestoreDefaultRamps
  BY <1>10 DEF Stop, ToggleDirection, RestoreDefaultRamps, Call, Operation
<1>11. CASE UNCHANGED vars
  BY <1>11 DEF vars, Operation
<1> QED
  BY <1>1, <1>2, <1>3, <1>4, <1>5, <1>6, <1>7, <1>8, <1>9, <1>10, <1>11
  DEF Next

LEMMA InductiveStep == MotorInv /\ [Next]_vars => MotorInv'
<1> SUFFICES ASSUME MotorInv, [Next]_vars PROVE MotorInv'
  OBVIOUS
<1>1. SafeMotor(motor')
  BY NextIsOperation, OperationStep DEF MotorInv
<1>2. up' \in {"boot", "serving", "halted"} /\ (up' = "boot" => up = "boot")
  BY DEF MotorInv, TypeOK, Next, vars, Boot, Call, Start, Stop, Reset,
         QuickStop, Process, Fail, SetDirection, SetTargetDuty, SetRamps,
         ToggleDirection, RestoreDefaultRamps
<1>3. up' = "boot" => motor' = motor
  BY <1>2 DEF MotorInv, TypeOK, Next, vars, Boot, Call, Start, Stop, Reset,
              QuickStop, Process, Fail, SetDirection, SetTargetDuty, SetRamps,
              ToggleDirection, RestoreDefaultRamps
<1> QED
  BY <1>1, <1>2, <1>3 DEF MotorInv, TypeOK, SafeMotor

LEMMA InitialStep == Init => MotorInv
<1> SUFFICES ASSUME Init PROVE MotorInv
  OBVIOUS
<1> DEFINE zero == 0
<1>1. /\ zero \in 0 .. DutyMax /\ zero \in 0 .. BoostMs
      /\ DutyMin \in DutyMin .. DutyMax
      /\ RunRamp \in Nat \ {0} /\ StopRamp \in Nat \ {0}
  BY MotorAssumption
<1> DEFINE h == [d \in Drivers |-> zero]
<1>2. h \in [Drivers -> 0 .. DutyMax] /\ \A d \in Drivers : h[d] = 0
  BY <1>1
<1>3. motor = [state |-> "DISABLED", dir |-> "FORWARD", duty |-> zero,
               target |-> DutyMin, boost |-> zero, accel |-> RunRamp,
               decel |-> StopRamp, error |-> FALSE, hw |-> h, ret |-> "ok"]
  BY DEF Init, MotorAtReset
<1>4. zero = 0
  OBVIOUS
<1> HIDE DEF zero, h
<1>5. motor \in Motor
  BY <1>1, <1>2, <1>3 DEF Motor, MotorStates, Directions, Returns
<1>6. /\ motor.state = "DISABLED" /\ motor.duty = 0 /\ motor.boost = 0
      /\ motor.error = FALSE /\ motor.hw = h
  BY <1>3, <1>4
<1> QED
  BY <1>2, <1>5, <1>6
  DEF Init, MotorInv, TypeOK, SafeMotor, Released, Drivers

(***************************************************************************)
(* The inductive invariant holds in every reachable state.                 *)
(***************************************************************************)
THEOREM MotorInvariant == Spec => []MotorInv
BY InitialStep, InductiveStep, PTL DEF Spec

(***************************************************************************)
(* A motor the software calls READY has all three outputs at 0, whatever   *)
(* writes were refused before.                                             *)
(***************************************************************************)
THEOREM ReadyReleased == Spec => []ReadyIsReleased
<1>1. MotorInv => ReadyIsReleased
  BY DEF MotorInv, SafeMotor, ReadyIsReleased
<1> QED
  BY <1>1, MotorInvariant, PTL

(***************************************************************************)
(* The two lines of the bridge are never both high.                        *)
(***************************************************************************)
THEOREM ShootThroughFree == Spec => []NoShootThrough
<1>1. MotorInv => NoShootThrough
  BY DEF MotorInv, SafeMotor, NoShootThrough
<1> QED
  BY <1>1, MotorInvariant, PTL

(***************************************************************************)
(* The state word describes the bridge while the motor runs or brakes.     *)
(***************************************************************************)
THEOREM StateDescribesBridge == Spec => []BridgeFollowsState
<1>1. MotorInv => BridgeFollowsState
  BY DEF MotorInv, SafeMotor, BridgeFollowsState
<1> QED
  BY <1>1, MotorInvariant, PTL

(***************************************************************************)
(* The duty of a running motor stays in its range through every ramp.      *)
(***************************************************************************)
THEOREM DutyInRange == Spec => []RunningDutyInRange
<1>1. MotorInv => RunningDutyInRange
  BY DEF MotorInv, SafeMotor, RunningDutyInRange
<1> QED
  BY <1>1, MotorInvariant, PTL

(***************************************************************************)
(* The direction changes only with the bridge released.                    *)
(***************************************************************************)
THEOREM DirectionAtRest == Spec => DirectionChangesReleased
<1>1. MotorInv /\ [Next]_vars =>
        [motor'.dir # motor.dir => Released(motor')]_vars
  <2> SUFFICES ASSUME MotorInv, [Next]_vars, motor'.dir # motor.dir
               PROVE  Released(motor')
    BY DEF vars
  <2>1. PowerStep(motor, motor')
    BY NextIsOperation, OperationStep DEF MotorInv
  <2> QED
    BY <2>1 DEF PowerStep
<1> QED
  BY <1>1, MotorInvariant, PTL DEF Spec, DirectionChangesReleased

(***************************************************************************)
(* Power is added only to a motor that is, or becomes, RUNNING.            *)
(***************************************************************************)
THEOREM PowerOnlyRunning == Spec => PowerRisesOnlyRunning
<1>1. MotorInv /\ [Next]_vars =>
        [motor'.hw["pwm"] > motor.hw["pwm"] => motor'.state = "RUNNING"]_vars
  <2> SUFFICES ASSUME MotorInv, [Next]_vars,
                      motor'.hw["pwm"] > motor.hw["pwm"]
               PROVE  motor'.state = "RUNNING"
    BY DEF vars
  <2>1. PowerStep(motor, motor') /\ SafeMotor(motor')
    BY NextIsOperation, OperationStep DEF MotorInv
  <2>2. motor.hw["pwm"] \in Nat /\ motor'.hw["pwm"] \in Nat
    BY <2>1 DEF MotorInv, SafeMotor, Motor, Drivers
  <2> QED
    BY <2>1, <2>2 DEF PowerStep, Released, Drivers
<1> QED
  BY <1>1, MotorInvariant, PTL DEF Spec, PowerRisesOnlyRunning

-----------------------------------------------------------------------------
LEMMA PolarityOfSafeMotor ==
  ASSUME SafeMotor(motor)
  PROVE  /\ Polarity \in {"off", "FORWARD", "REVERSE"}
         /\ Released(motor) => Polarity = "off"
         /\ motor.state \in {"RUNNING", "STOPPING"} => Polarity = motor.dir
BY DEF SafeMotor, Motor, Directions, Polarity, LinesSelect, Released, Drivers

LEMMA PolarityOfSafeMotorNext ==
  ASSUME SafeMotor(motor')
  PROVE  /\ Polarity' \in {"off", "FORWARD", "REVERSE"}
         /\ Released(motor') => Polarity' = "off"
         /\ motor'.state \in {"RUNNING", "STOPPING"} => Polarity' = motor'.dir
BY DEF SafeMotor, Motor, Directions, Polarity, LinesSelect, Released, Drivers

(***************************************************************************)
(* The motor driver implements the abstract power stage of HBridge: every  *)
(* call engages a released bridge, modulates the power of a bridge that    *)
(* keeps its polarity, releases it, trips it, or leaves it alone.          *)
(***************************************************************************)
THEOREM Refinement == Spec => ImplementsBridge
<1>1. Init => Bridge!Init
  <2> SUFFICES ASSUME Init PROVE Bridge!Init
    OBVIOUS
  <2>1. motor.state = "DISABLED"
    BY DEF Init, MotorAtReset
  <2>2. SafeMotor(motor) /\ Released(motor)
    BY <2>1, InitialStep DEF MotorInv, SafeMotor
  <2>3. Polarity = "off" /\ motor.hw["pwm"] = 0
    BY <2>2, PolarityOfSafeMotor DEF Released, Drivers
  <2> QED
    BY <2>1, <2>3 DEF Bridge!Init
<1>2. MotorInv /\ [Next]_vars => [Bridge!Next]_(Bridge!vars)
  <2> SUFFICES ASSUME MotorInv, [Next]_vars
               PROVE  Bridge!Next \/ UNCHANGED Bridge!vars
    OBVIOUS
  <2>1. SafeMotor(motor) /\ SafeMotor(motor') /\ PowerStep(motor, motor')
    BY NextIsOperation, OperationStep DEF MotorInv
  <2>2. /\ Polarity \in {"off", "FORWARD", "REVERSE"}
        /\ Released(motor) => Polarity = "off"
        /\ motor.state \in {"RUNNING", "STOPPING"} => Polarity = motor.dir
    BY <2>1, PolarityOfSafeMotor
  <2>3. /\ Polarity' \in {"off", "FORWARD", "REVERSE"}
        /\ Released(motor') => Polarity' = "off"
        /\ motor'.state \in {"RUNNING", "STOPPING"} => Polarity' = motor'.dir
    BY <2>1, PolarityOfSafeMotorNext
  <2>4. /\ motor.hw["pwm"] \in 0 .. DutyMax
        /\ motor'.hw["pwm"] \in 0 .. DutyMax
        /\ motor.dir \in Directions
        /\ motor.state \in {"RUNNING", "STOPPING"} =>
             motor.hw["pwm"] = motor.duty
        /\ motor'.state \in {"RUNNING", "STOPPING"} =>
             motor'.hw["pwm"] = motor'.duty
        /\ motor'.state = "RUNNING" => motor'.duty >= DutyMin
    BY <2>1 DEF SafeMotor, Motor, Drivers
  <2>5. CASE /\ motor'.hw = motor.hw
             /\ motor'.state = "FAULT" <=> motor.state = "FAULT"
    <3>1. Polarity' = Polarity
      BY <2>5 DEF Polarity, LinesSelect
    <3>2. UNCHANGED Bridge!vars
      BY <2>5, <3>1 DEF Bridge!vars
    <3> QED
      BY <3>2
  <2>6. CASE Released(motor') /\ motor'.state # "FAULT"
    <3>1. Bridge!Release
      BY <2>3, <2>6 DEF Bridge!Release, Released, Drivers
    <3> QED
      BY <3>1 DEF Bridge!Next
  <2>7. CASE /\ motor.state = "READY" /\ motor'.state = "RUNNING"
             /\ motor'.dir = motor.dir
    <3>1. Released(motor)
      BY <2>1, <2>7 DEF SafeMotor
    <3>2. motor'.hw["pwm"] \in 1 .. DutyMax
      BY <2>4, <2>7, MotorAssumption
    <3>3. Bridge!Engage
      BY <2>2, <2>3, <2>4, <2>7, <3>1, <3>2
      DEF Bridge!Engage, Bridge!Polarities, Released, Drivers, Directions
    <3> QED
      BY <3>3 DEF Bridge!Next
  <2>8. CASE /\ motor.state = "RUNNING" /\ motor'.state = "RUNNING"
             /\ motor'.dir = motor.dir
    <3>1. motor'.hw["pwm"] \in 1 .. DutyMax
      BY <2>4, <2>8, MotorAssumption
    <3>2. Bridge!Modulate
      BY <2>2, <2>3, <2>4, <2>8, <3>1 DEF Bridge!Modulate, Directions
    <3> QED
      BY <3>2 DEF Bridge!Next
  <2>9. CASE /\ motor.state = "STOPPING" /\ motor'.state = "STOPPING"
             /\ motor'.dir = motor.dir /\ motor'.duty # 0
    <3>1. motor'.hw["pwm"] \in 1 .. DutyMax
      BY <2>4, <2>9, MotorAssumption
    <3>2. Bridge!Modulate
      BY <2>2, <2>3, <2>4, <2>9, <3>1 DEF Bridge!Modulate, Directions
    <3> QED
      BY <3>2 DEF Bridge!Next
  <2>10. CASE /\ motor'.state = "FAULT"
              /\ motor'.hw["pwm"] \in {motor.hw["pwm"], 0}
              /\ \/ \A d \in Drivers : motor'.hw[d] \in {motor.hw[d], 0}
                 \/ Released(motor)
    <3>1. CASE Released(motor)
      <4>1. Polarity = "off" /\ motor.hw["pwm"] = 0
        BY <2>2, <3>1 DEF Released, Drivers
      <4>2. Bridge!Trip
        BY <2>3, <2>10, <4>1 DEF Bridge!Trip, Bridge!Polarities
      <4> QED
        BY <4>2 DEF Bridge!Next
    <3>2. CASE \A d \in Drivers : motor'.hw[d] \in {motor.hw[d], 0}
      <4>1. Polarity' \in {Polarity, "off"}
        BY <2>1, <3>2 DEF SafeMotor, Polarity, LinesSelect, Drivers
      <4>2. Bridge!Trip
        BY <2>10, <4>1 DEF Bridge!Trip
      <4> QED
        BY <4>2 DEF Bridge!Next
    <3> QED
      BY <2>10, <3>1, <3>2
  <2> QED
    BY <2>1, <2>5, <2>6, <2>7, <2>8, <2>9, <2>10 DEF PowerStep
<1> QED
  BY <1>1, <1>2, MotorInvariant, PTL DEF Spec, ImplementsBridge, Bridge!Spec

(***************************************************************************)
(* What HBridge promises holds of the driver: the bridge passes from one   *)
(* polarity to the other only through the released state.                  *)
(***************************************************************************)
THEOREM ReversalReleases == Spec => Bridge!NoReversal
<1>1. [Bridge!Next]_(Bridge!vars)
        => [Polarity # Polarity' => "off" \in {Polarity, Polarity'}]_(Bridge!vars)
  BY DEF Bridge!Next, Bridge!Engage, Bridge!Modulate, Bridge!Release,
         Bridge!Trip, Bridge!vars
<1> QED
  BY <1>1, Refinement, PTL
  DEF Spec, ImplementsBridge, Bridge!Spec, Bridge!NoReversal

-----------------------------------------------------------------------------
(***************************************************************************)
(* The debouncing of a button: its counter is the length of the run of     *)
(* equal readings its window ends with, counted from the last one back.    *)
(***************************************************************************)
USE ButtonsAssumption

\* What a reading says; the lemmas do not need what it is.
Levels == BOOLEAN

Back(w, k) == w[Len(w) + 1 - k]

Window(w) == w \in Seq(Levels) /\ Len(w) \in 0 .. Samples

ButtonOK(u, w) ==
  /\ u \in [candidate : Levels, stable : Levels, samples : 0 .. Samples]
  /\ Window(w)
  /\ u.samples <= Len(w)
  /\ u.samples = 0 => Len(w) = 0
  /\ \A k \in 1 .. u.samples : Back(w, k) = u.candidate
  /\ u.samples < Len(w) => Back(w, u.samples + 1) # u.candidate
  /\ u.samples = Samples => u.stable = u.candidate

ButtonsOK ==
  /\ DOMAIN buttons = Buttons /\ DOMAIN window = Buttons
  /\ buttons = [b \in Buttons |-> buttons[b]]
  /\ \A b \in Buttons : ButtonOK(buttons[b], window[b])

Pushed(w, v, n) ==
  /\ Window(n) /\ Len(n) \in 1 .. Samples /\ Len(n) <= Len(w) + 1
  /\ Back(n, 1) = v
  /\ \A k \in 1 .. Len(n) - 1 : k <= Len(w) /\ Back(n, k + 1) = Back(w, k)

LEMMA PushIs ==
  ASSUME NEW w, Window(w), NEW v \in Levels, NEW n, n = Push(w, v)
  PROVE  Pushed(w, v, n)
<1>1. CASE Len(w) # Samples
  <2>1. n = Append(w, v)
    BY <1>1 DEF Push
  <2>2. /\ n \in Seq(Levels) /\ Len(n) = Len(w) + 1 /\ n[Len(w) + 1] = v
        /\ \A i \in 1 .. Len(w) : n[i] = w[i]
    BY <2>1, AppendProperties DEF Window
  <2> QED
    <3>1. Len(w) \in Nat /\ Len(w) < Samples
      BY <1>1 DEF Window
    <3>2. Window(n) /\ Len(n) \in 1 .. Samples /\ Back(n, 1) = v
      BY <2>2, <3>1 DEF Window, Back
    <3>3. ASSUME NEW k \in 1 .. Len(n) - 1
          PROVE  k <= Len(w) /\ Back(n, k + 1) = Back(w, k)
      <4>1. Len(n) + 1 - (k + 1) = Len(w) + 1 - k /\ Len(w) + 1 - k \in 1 .. Len(w)
        BY <2>2, <3>1
      <4> QED
        BY <2>2, <3>1, <4>1 DEF Back
    <3> QED
      BY <2>2, <3>1, <3>2, <3>3 DEF Pushed
<1>2. CASE Len(w) = Samples
  <2> DEFINE t == Tail(w)
  <2>1. w # << >>
    BY <1>2, EmptySeq
  <2>2. /\ t \in Seq(Levels) /\ Len(t) = Len(w) - 1
        /\ \A i \in 1 .. Len(t) : t[i] = w[i + 1]
    BY <2>1, HeadTailProperties DEF Window
  <2>3. n = Append(t, v)
    BY <1>2 DEF Push
  <2> HIDE DEF t
  <2>4. /\ n \in Seq(Levels) /\ Len(n) = Len(t) + 1 /\ n[Len(t) + 1] = v
        /\ \A i \in 1 .. Len(t) : n[i] = t[i]
    BY <2>2, <2>3, AppendProperties
  <2>5. Len(n) = Samples
    BY <1>2, <2>2, <2>4
  <2>6. Window(n) /\ Len(n) \in 1 .. Samples /\ Len(n) <= Len(w) + 1
    BY <1>2, <2>4, <2>5 DEF Window
  <2>7. Back(n, 1) = v
    BY <1>2, <2>2, <2>4, <2>5 DEF Back
  <2>8. ASSUME NEW k \in 1 .. Len(n) - 1
        PROVE  k <= Len(w) /\ Back(n, k + 1) = Back(w, k)
    <3>1. Len(n) + 1 - (k + 1) \in 1 .. Len(t)
      BY <1>2, <2>2, <2>5
    <3>2. n[Len(n) + 1 - (k + 1)] = w[Len(n) + 1 - (k + 1) + 1]
      BY <2>2, <2>4, <3>1
    <3>3. Len(n) + 1 - (k + 1) + 1 = Len(w) + 1 - k
      BY <1>2, <2>5
    <3> QED
      BY <1>2, <2>5, <3>2, <3>3 DEF Back
  <2> QED
    BY <2>6, <2>7, <2>8 DEF Pushed
<1> QED
  BY <1>1, <1>2

\* The window is full of v exactly when the counter has run to its end on v.
LEMMA FullIs ==
  ASSUME NEW u, NEW w, ButtonOK(u, w), NEW v \in Levels
  PROVE  Debounced!Full(w, v) <=> u.samples = Samples /\ u.candidate = v
<1>0. /\ Len(w) \in Nat /\ Len(w) <= Samples /\ u.samples \in Nat /\ u.samples <= Samples
      /\ u.samples <= Len(w)
  BY DEF ButtonOK, Window
<1>1. ASSUME Debounced!Full(w, v)
      PROVE  u.samples = Samples /\ u.candidate = v
  <2>1. Len(w) = Samples /\ \A i \in 1 .. Samples : w[i] = v
    BY <1>1 DEF Debounced!Full
  <2>2. \A k \in 1 .. Samples : Back(w, k) = v
    BY <2>1 DEF Back
  <2>3. u.samples >= 1
    BY <1>0, <2>1 DEF ButtonOK
  <2>4. u.candidate = v
    BY <1>0, <2>2, <2>3 DEF ButtonOK
  <2>5. CASE u.samples < Samples
    <3>1. Back(w, u.samples + 1) # u.candidate
      BY <2>1, <2>5 DEF ButtonOK
    <3> QED
      BY <1>0, <2>2, <2>4, <2>5, <3>1
  <2> QED
    BY <1>0, <2>4, <2>5
<1>2. ASSUME u.samples = Samples, u.candidate = v
      PROVE  Debounced!Full(w, v)
  <2>1. Len(w) = Samples
    BY <1>0, <1>2
  <2>2. ASSUME NEW i \in 1 .. Samples
        PROVE  w[i] = v
    <3>1. Samples + 1 - i \in 1 .. Samples /\ Len(w) + 1 - (Samples + 1 - i) = i
      BY <2>1
    <3>2. Back(w, Samples + 1 - i) = v
      BY <1>2, <3>1 DEF ButtonOK
    <3> QED
      BY <3>1, <3>2 DEF Back
  <2> QED
    BY <2>1, <2>2 DEF Debounced!Full
<1> QED
  BY <1>1, <1>2

\* What a turn makes of a button: a run that fills the window is its state.
Turned(u, u2, w2) ==
  /\ ButtonOK(u2, w2)
  /\ u2.stable = IF u2.samples = Samples THEN u2.candidate ELSE u.stable

\* A reading that differs from the candidate starts a run of its own.
LEMMA RestartIs ==
  ASSUME NEW u, NEW w, ButtonOK(u, w), NEW v \in Levels, v # u.candidate,
         NEW u2 \in [candidate : Levels, stable : Levels, samples : 0 .. Samples],
         u2.candidate = v, u2.samples = 1, u2.stable = u.stable,
         NEW w2, w2 = Push(w, v)
  PROVE  Turned(u, u2, w2)
<1>0. /\ u \in [candidate : Levels, stable : Levels, samples : 0 .. Samples]
      /\ Window(w) /\ u.samples <= Len(w)
      /\ u.samples \in Nat /\ u.samples <= Samples /\ Len(w) \in Nat
  BY DEF ButtonOK, Window
<1>1. /\ Window(w2) /\ Len(w2) \in 1 .. Samples /\ Back(w2, 1) = v
      /\ \A k \in 1 .. Len(w2) - 1 : k <= Len(w) /\ Back(w2, k + 1) = Back(w, k)
  <2>1. Pushed(w, v, w2)
    BY <1>0, PushIs
  <2> QED
    BY <2>1 DEF Pushed
<1>2. 1 < Len(w2) => Back(w2, 2) # v
  <2> SUFFICES ASSUME 1 < Len(w2)
               PROVE  Back(w2, 2) # v
    OBVIOUS
  <2>1. Len(w) >= 1 /\ Back(w2, 1 + 1) = Back(w, 1)
    BY <1>0, <1>1 DEF Window
  <2>2. u.samples >= 1
    BY <1>0, <2>1 DEF ButtonOK
  <2>3. Back(w, 1) = u.candidate
    BY <1>0, <2>2 DEF ButtonOK
  <2> QED
    BY <2>1, <2>3
<1>3. ButtonOK(u2, w2)
  BY <1>1, <1>2 DEF ButtonOK
<1> QED
  BY <1>3 DEF Turned

\* A reading that repeats it makes the run longer.
LEMMA CountIs ==
  ASSUME NEW u, NEW w, ButtonOK(u, w), NEW v \in Levels, v = u.candidate,
         NEW count, count = IF u.samples < Samples THEN u.samples + 1 ELSE Samples,
         NEW u2 \in [candidate : Levels, stable : Levels, samples : 0 .. Samples],
         u2.candidate = v, u2.samples = count,
         u2.stable = IF count = Samples THEN v ELSE u.stable,
         NEW w2, w2 = Push(w, v)
  PROVE  Turned(u, u2, w2)
<1>0. /\ u \in [candidate : Levels, stable : Levels, samples : 0 .. Samples]
      /\ Window(w) /\ u.samples <= Len(w)
      /\ u.samples \in Nat /\ u.samples <= Samples /\ Len(w) \in Nat
  BY DEF ButtonOK, Window
<1>1. /\ Window(w2) /\ Len(w2) \in 1 .. Samples /\ Len(w2) <= Len(w) + 1 /\ Back(w2, 1) = v
      /\ \A k \in 1 .. Len(w2) - 1 : k <= Len(w) /\ Back(w2, k + 1) = Back(w, k)
  <2>1. Pushed(w, v, w2)
    BY <1>0, PushIs
  <2> QED
    BY <2>1 DEF Pushed
<1>2. /\ count \in 1 .. Samples
      /\ \/ u.samples < Samples /\ count = u.samples + 1
         \/ u.samples = Samples /\ count = Samples
  BY <1>0
<1>3. count <= Len(w2)
  <2>1. Len(w) = Samples => Len(w2) = Samples
    BY <1>0, <1>1, HeadTailProperties, AppendProperties, EmptySeq DEF Push, Window
  <2>2. Len(w) # Samples => Len(w2) = Len(w) + 1
    BY <1>0, <1>1, AppendProperties DEF Push, Window
  <2> QED
    BY <1>0, <1>2, <2>1, <2>2
<1>4. ASSUME NEW k \in 1 .. count
      PROVE  Back(w2, k) = v
  <2>1. CASE k = 1
    BY <1>1, <2>1
  <2>2. CASE k > 1
    <3>1. k - 1 \in 1 .. Len(w2) - 1 /\ k - 1 \in 1 .. u.samples /\ (k - 1) + 1 = k
      BY <1>0, <1>1, <1>2, <1>3, <2>2
    <3>2. Back(w2, k) = Back(w, k - 1)
      BY <1>1, <3>1
    <3>3. Back(w, k - 1) = u.candidate
      BY <3>1 DEF ButtonOK
    <3> QED
      BY <3>2, <3>3
  <2> QED
    BY <1>2, <2>1, <2>2
<1>5. ASSUME count < Len(w2)
      PROVE  Back(w2, count + 1) # v
  <2>1. count \in 1 .. Len(w2) - 1 /\ count = u.samples + 1 /\ u.samples < Len(w)
    BY <1>0, <1>1, <1>2, <1>5
  <2>2. Back(w2, count + 1) = Back(w, u.samples + 1)
    BY <1>1, <2>1
  <2>3. Back(w, u.samples + 1) # u.candidate
    BY <2>1 DEF ButtonOK
  <2> QED
    BY <2>2, <2>3
<1>6. ButtonOK(u2, w2)
  BY <1>1, <1>2, <1>3, <1>4, <1>5 DEF ButtonOK
<1> QED
  BY <1>6 DEF Turned

\* One pin's turn: the counter follows the window, and the state of the
\* button is the level that the window gives.
LEMMA SampledIs ==
  ASSUME NEW u, NEW w, ButtonOK(u, w), NEW read \in PinReadings,
         NEW u2, u2 = Sampled(u, read),
         NEW w2, w2 = IF read = "error" THEN w ELSE Push(w, read = "down")
  PROVE  Turned(u, u2, w2)
<1> DEFINE v == (read = "down")
           count == IF u.samples < Samples THEN u.samples + 1 ELSE Samples
<1>1. v \in Levels
  BY DEF Levels
<1>2. \/ u2 = u /\ w2 = w
      \/ v # u.candidate /\ u2 = [u EXCEPT !.candidate = v, !.samples = 1] /\ w2 = Push(w, v)
      \/ /\ v = u.candidate /\ w2 = Push(w, v)
         /\ u2 = [u EXCEPT !.samples = count, !.stable = IF count = Samples THEN v ELSE @]
  BY DEF Sampled
<1> HIDE DEF v
<1> DEFINE one == 1
           stable == IF count = Samples THEN v ELSE u.stable
<1>0. /\ u \in [candidate : Levels, stable : Levels, samples : 0 .. Samples] /\ one \in 0 .. Samples
      /\ count \in 0 .. Samples /\ stable \in Levels /\ u.stable \in Levels
  BY <1>1 DEF ButtonOK
<1>3. CASE u2 = u /\ w2 = w
  BY <1>3 DEF ButtonOK, Turned
<1>4. CASE v # u.candidate /\ u2 = [u EXCEPT !.candidate = v, !.samples = 1] /\ w2 = Push(w, v)
  <2>1. u2 = [u EXCEPT !.candidate = v, !.samples = one]
    BY <1>4
  <2> HIDE DEF one, count, stable
  <2>2. /\ u2 \in [candidate : Levels, stable : Levels, samples : 0 .. Samples]
        /\ u2.candidate = v /\ u2.samples = one /\ u2.stable = u.stable
    BY <1>0, <1>1, <2>1
  <2> QED
    BY <1>1, <1>4, <2>2, RestartIs DEF one
<1>5. CASE /\ v = u.candidate /\ w2 = Push(w, v)
           /\ u2 = [u EXCEPT !.samples = count, !.stable = IF count = Samples THEN v ELSE @]
  <2>1. u2 = [u EXCEPT !.samples = count, !.stable = stable]
    BY <1>0, <1>5
  <2> HIDE DEF one, count, stable
  <2>2. /\ u2 \in [candidate : Levels, stable : Levels, samples : 0 .. Samples]
        /\ u2.candidate = v /\ u2.samples = count /\ u2.stable = stable
    BY <1>0, <1>1, <1>5, <2>1
  <2> QED
    <3>1. count = IF u.samples < Samples THEN u.samples + 1 ELSE Samples
      BY DEF count
    <3>2. u2.stable = IF count = Samples THEN v ELSE u.stable
      BY <2>2 DEF stable
    <3>3. v = u.candidate /\ w2 = Push(w, v)
      BY <1>5
    <3>4. u2.candidate = v /\ u2.samples = count
      BY <2>2
    <3>5. u2 \in [candidate : Levels, stable : Levels, samples : 0 .. Samples]
      BY <2>2
    <3> QED
      BY <1>1, <3>1, <3>2, <3>3, <3>4, <3>5, CountIs, Zenon
<1> QED
  BY <1>2, <1>3, <1>4, <1>5

\* Said with the two levels, as Debounce says it.
LEMMA StableIs ==
  ASSUME NEW u, NEW u2, NEW w2, Turned(u, u2, w2)
  PROVE  u2.stable = IF Debounced!Full(w2, TRUE) THEN TRUE
                     ELSE IF Debounced!Full(w2, FALSE) THEN FALSE ELSE u.stable
<1>1. TRUE \in Levels /\ FALSE \in Levels
  BY DEF Levels
<1>2. /\ Debounced!Full(w2, TRUE) <=> u2.samples = Samples /\ u2.candidate = TRUE
      /\ Debounced!Full(w2, FALSE) <=> u2.samples = Samples /\ u2.candidate = FALSE
  BY <1>1, FullIs DEF Turned
<1>3. u2.candidate \in BOOLEAN
  BY DEF ButtonOK, Levels, Turned
<1> QED
  BY <1>2, <1>3 DEF Turned

LEMMA ButtonsInitial == ButtonsInit => ButtonsOK /\ Debounced!Init
<1> SUFFICES ASSUME ButtonsInit
             PROVE  ButtonsOK /\ Debounced!Init
  OBVIOUS
<1>1. << >> \in Seq(Levels) /\ Len(<< >>) = 0 /\ FALSE \in Levels
  BY EmptySeq DEF Levels
<1>2. ASSUME NEW b \in Buttons
      PROVE  ButtonOK(buttons[b], window[b])
  <2> DEFINE zero == 0
             level == FALSE
  <2>1. /\ buttons[b] = [candidate |-> level, stable |-> level, samples |-> zero]
        /\ window[b] = << >>
    BY DEF ButtonsInit
  <2>2. level \in Levels
    BY <1>1
  <2>3. zero = 0 /\ zero \in 0 .. Samples /\ zero # Samples /\ \A k \in 1 .. zero : FALSE
    OBVIOUS
  <2> HIDE DEF zero, level
  <2>4. /\ buttons[b] \in [candidate : Levels, stable : Levels, samples : 0 .. Samples]
        /\ buttons[b].samples = zero
    BY <2>1, <2>2, <2>3
  <2> QED
    BY <1>1, <2>1, <2>2, <2>3, <2>4 DEF ButtonOK, Window
<1> QED
  BY <1>2 DEF ButtonsInit, ButtonsOK, Debounced!Init, Held

LEMMA ButtonsStep ==
  ASSUME ButtonsOK, [ButtonsNext]_buttonVars
  PROVE  ButtonsOK' /\ [Debounced!Next]_(Debounced!vars)
<1>1. CASE UNCHANGED buttonVars
  BY <1>1 DEF buttonVars, ButtonsOK, Debounced!vars, Held
<1>2. ASSUME NEW read \in [Buttons -> PinReadings], PollButtons(read)
      PROVE  ButtonsOK' /\ Debounced!Next
  <2>1. /\ buttons' = [b \in Buttons |-> Sampled(buttons[b], read[b])]
        /\ events' = {b \in Buttons : buttons'[b].stable /\ ~buttons[b].stable}
        /\ window' = [b \in Buttons |-> IF read[b] = "error" THEN window[b]
                                        ELSE Push(window[b], read[b] = "down")]
    BY <1>2 DEF PollButtons
  <2>2. ASSUME NEW b \in Buttons
        PROVE  /\ ButtonOK(buttons'[b], window'[b])
               /\ buttons'[b].stable = IF Debounced!Full(window'[b], TRUE) THEN TRUE
                                       ELSE IF Debounced!Full(window'[b], FALSE) THEN FALSE
                                       ELSE buttons[b].stable
    <3>1. ButtonOK(buttons[b], window[b]) /\ read[b] \in PinReadings
      BY DEF ButtonsOK
    <3>2. /\ buttons'[b] = Sampled(buttons[b], read[b])
          /\ window'[b] = IF read[b] = "error" THEN window[b]
                          ELSE Push(window[b], read[b] = "down")
      BY <2>1
    <3>3. Turned(buttons[b], buttons'[b], window'[b])
      BY <3>1, <3>2, SampledIs
    <3> QED
      BY <3>3, StableIs DEF Turned
  <2>3. ButtonsOK'
    BY <2>1, <2>2 DEF ButtonsOK
  <2>4. Held' = [b \in Buttons |-> IF Debounced!Full(window'[b], TRUE) THEN TRUE
                                   ELSE IF Debounced!Full(window'[b], FALSE) THEN FALSE
                                   ELSE Held[b]]
    BY <2>2 DEF Held
  <2>5. events' = {b \in Buttons : Held'[b] /\ ~Held[b]}
    BY <2>1 DEF Held
  <2>6. window' = [b \in Buttons |-> IF read[b] = "error" THEN window[b]
                                     ELSE Debounced!Push(window[b], read[b] = "down")]
    BY <2>1 DEF Push, Debounced!Push
  <2>7. read \in [Buttons -> {"up", "down", "error"}]
    BY DEF PinReadings
  <2> QED
    BY <2>3, <2>4, <2>5, <2>6, <2>7 DEF Debounced!Next
<1> QED
  BY <1>1, <1>2 DEF ButtonsNext

-----------------------------------------------------------------------------
(***************************************************************************)
(* The filter of the potentiometer.                                        *)
(***************************************************************************)
LEMMA NaturalDivision ==
  \A n \in Nat, d \in Nat \ {0} :
    n \div d \in Int /\ n % d \in 0 .. d - 1 /\ n = d * (n \div d) + (n % d)
OBVIOUS

LEMMA NaturalQuotient ==
  ASSUME NEW n \in Nat, NEW d \in Nat \ {0}
  PROVE  n \div d \in 0 .. n
<1> DEFINE q == n \div d
           r == n % d
<1>1. q \in Int /\ r \in 0 .. d - 1 /\ n = d * q + r
  BY NaturalDivision
<1> HIDE DEF q, r
<1>2. q >= 0
  <2> SUFFICES ASSUME q <= -1
               PROVE  FALSE
    BY <1>1
  <2>1. d * (q + 1) <= 0
    BY <1>1
  <2>2. d * (q + 1) = d * q + d
    BY <1>1
  <2> QED  BY <1>1, <2>1, <2>2
<1>3. d * q >= q
  <2>1. (d - 1) * q >= 0
    BY <1>1, <1>2
  <2>2. (d - 1) * q = d * q - q
    BY <1>1
  <2> QED  BY <1>1, <2>1, <2>2
<1>4. q <= n
  BY <1>1, <1>3
<1>5. q \in 0 .. n
  BY <1>1, <1>2, <1>4
<1> QED  BY <1>5 DEF q

\* Division towards zero neither changes the sign nor passes the dividend.
LEMMA QuotientBetween ==
  ASSUME NEW a \in Int, NEW d \in Nat \ {0}
  PROVE  Quotient(a, d) \in (IF a < 0 THEN a .. 0 ELSE 0 .. a)
<1>1. CASE a < 0
  <2>1. -a \in Nat
    BY <1>1
  <2>2. (-a) \div d \in 0 .. -a
    BY <2>1, NaturalQuotient
  <2> QED  BY <1>1, <2>2 DEF Quotient
<1>2. CASE a >= 0
  <2>1. a \div d \in 0 .. a
    BY <1>2, NaturalQuotient
  <2> QED  BY <1>2, <2>1 DEF Quotient
<1> QED  BY <1>1, <1>2

\* The conversion of a reading on the scale of the ADC is a duty.
LEMMA ConversionInRange ==
  ASSUME NEW r \in 0 .. AdcMax
  PROVE  raw_to_duty(r) \in DutyMin .. DutyMax
<1> DEFINE range == DutyMax - DutyMin
           n == r * range
           q == n \div AdcMax
           rest == n % AdcMax
<1>1. /\ AdcMax \in Nat \ {0} /\ r \in Nat /\ r <= AdcMax
      /\ DutyMin \in Nat /\ DutyMax \in Nat /\ range \in Nat
  BY PotentiometerAssumption
<1>2. n \in Nat
  BY <1>1
<1>3. q \in 0 .. n /\ rest \in 0 .. AdcMax - 1 /\ n = AdcMax * q + rest
  BY <1>1, <1>2, NaturalDivision, NaturalQuotient
<1>4. (AdcMax - r) * range >= 0
  BY <1>1
<1>5. (AdcMax - r) * range = AdcMax * range - n
  BY <1>1
<1>6. raw_to_duty(r) = DutyMin + q
  BY DEF raw_to_duty
<1>7. DutyMax = DutyMin + range
  BY <1>1
<1> HIDE DEF range, n, q, rest
<1>8. q <= range
  <2> SUFFICES ASSUME q >= range + 1
               PROVE  FALSE
    BY <1>1, <1>2, <1>3
  <2>1. AdcMax * (q - range - 1) >= 0
    BY <1>1, <1>2, <1>3
  <2>2. AdcMax * (q - range - 1) = AdcMax * q - AdcMax * range - AdcMax
    BY <1>1, <1>2, <1>3
  <2> QED  BY <1>1, <1>2, <1>3, <1>4, <1>5, <2>1, <2>2
<1> QED  BY <1>1, <1>2, <1>3, <1>6, <1>7, <1>8

\* What the filter keeps lies on the scale of the ADC, and the setpoint in the
\* range of the motor.
FilterOK ==
  wiper \in Readings /\ filtered \in 0 .. AdcMax /\ duty \in DutyMin .. DutyMax

Approaches == filtered' \in filtered .. raw' \/ filtered' \in raw' .. filtered

LEMMA FilterInitial == PotentiometerInit => FilterOK
BY PotentiometerAssumption DEF PotentiometerInit, FilterOK

\* A step of the filter ends between where it was and the reading.
LEMMA FilterBetween ==
  ASSUME NEW f \in Nat, NEW s \in Nat, NEW d \in Nat \ {0},
         NEW g, g = f + Quotient(s - f, d)
  PROVE  g \in f .. s \/ g \in s .. f
<1> DEFINE q == Quotient(s - f, d)
<1>1. s - f \in Int
  OBVIOUS
<1>2. q \in (IF s - f < 0 THEN (s - f) .. 0 ELSE 0 .. (s - f))
  BY <1>1, QuotientBetween
<1> HIDE DEF q
<1>3. g = f + q
  BY DEF q
<1>4. CASE s - f < 0
  <2>1. q \in (s - f) .. 0
    BY <1>2, <1>4
  <2> QED  BY <2>1, <1>3
<1>5. CASE ~(s - f < 0)
  <2>1. q \in 0 .. (s - f)
    BY <1>2, <1>5
  <2> QED  BY <2>1, <1>3
<1> QED  BY <1>4, <1>5

LEMMA FilterStep ==
  ASSUME FilterOK, [PollPotentiometer \/ Turning]_potentiometerVars
  PROVE  FilterOK' /\ [Approaches]_filtered
<1>1. CASE PollPotentiometer
  <2>1. wiper \in Nat /\ AdcMax \in Nat /\ filtered \in 0 .. AdcMax
    BY PotentiometerAssumption DEF FilterOK
  <2>2. raw' = (IF wiper > AdcMax THEN AdcMax ELSE wiper)
    BY <1>1 DEF PollPotentiometer, Clamped
  <2>3. raw' \in 0 .. AdcMax
    BY <2>1, <2>2
  <2>4. filtered' = Filter(raw') /\ wiper' = wiper
    BY <1>1 DEF PollPotentiometer
  <2>7. filtered' \in 0 .. AdcMax => duty' \in DutyMin .. DutyMax
    <3>1. duty' \in {raw_to_duty(filtered'), duty}
      BY <1>1 DEF PollPotentiometer, Follow
    <3> QED  BY <3>1, ConversionInRange DEF FilterOK
  <2>5. CASE ~ready
    <3>1. filtered' = raw'
      BY <2>4, <2>5 DEF Filter
    <3> QED  BY <2>1, <2>3, <2>4, <2>7, <3>1 DEF FilterOK, Approaches
  <2>6. CASE ready
    <3>1. filtered' = filtered + Quotient(raw' - filtered, Divisor)
      BY <2>4, <2>6 DEF Filter
    <3>2. filtered \in Nat /\ raw' \in Nat
      BY <2>1, <2>3
    <3>3. Divisor \in Nat \ {0}
      BY PotentiometerAssumption
    <3>4. Approaches
      BY <3>1, <3>2, <3>3, FilterBetween DEF Approaches
    <3>5. filtered' \in 0 .. AdcMax
      BY <2>1, <2>3, <3>4 DEF Approaches
    <3> QED  BY <2>4, <2>7, <3>4, <3>5 DEF FilterOK
  <2> QED  BY <2>5, <2>6
<1>2. CASE Turning
  BY <1>2 DEF Turning, Turn, FilterOK
<1>3. CASE UNCHANGED potentiometerVars
  BY <1>3 DEF potentiometerVars, FilterOK
<1> QED  BY <1>1, <1>2, <1>3

-----------------------------------------------------------------------------
(***************************************************************************)
(* Both inputs under the main loop (MotorInputs), whose iterations poll    *)
(* the one and, unless its reading fails, the other.                       *)
(***************************************************************************)
Inputs == INSTANCE MotorInputs

LEMMA InputsInitial == Inputs!Init => ButtonsInit /\ PotentiometerInit
BY DEF Inputs!Init, Inputs!ButtonsInit, Inputs!PotentiometerInit, ButtonsInit,
       PotentiometerInit

LEMMA SamePoll == Inputs!ButtonsNext => ButtonsNext
<1> SUFFICES ASSUME NEW read \in [Buttons -> PinReadings], Inputs!PollButtons(read)
             PROVE  PollButtons(read)
  BY DEF Inputs!ButtonsNext, ButtonsNext, Inputs!PinReadings, PinReadings
<1>1. \A button, r : Inputs!Sampled(button, r) = Sampled(button, r)
  BY DEF Inputs!Sampled, Sampled
<1>2. \A w, v : Inputs!Push(w, v) = Push(w, v)
  BY DEF Inputs!Push, Push
<1> QED
  BY <1>1, <1>2 DEF Inputs!PollButtons, PollButtons

LEMMA SameReading == Inputs!PollPotentiometer => PollPotentiometer
<1>1. \A s : Inputs!Filter(s) = Filter(s)
  BY DEF Inputs!Filter, Filter, Inputs!Quotient, Quotient
<1>2. \A d : Inputs!Follow(d) = Follow(d)
  BY DEF Inputs!Follow, Follow, Inputs!Distance, Distance
<1>3. \A r : Inputs!raw_to_duty(r) = raw_to_duty(r)
  BY DEF Inputs!raw_to_duty, raw_to_duty
<1>4. \A r : Inputs!Clamped(r) = Clamped(r)
  BY DEF Inputs!Clamped, Clamped
<1> QED
  BY <1>1, <1>2, <1>3, <1>4 DEF Inputs!PollPotentiometer, PollPotentiometer

LEMMA InputsStep ==
  [Inputs!Next]_(Inputs!vars) =>
    [ButtonsNext]_buttonVars /\ [PollPotentiometer \/ Turning]_potentiometerVars
<1>1. Inputs!Turning => Turning
  BY DEF Inputs!Turning, Inputs!Turn, Turning, Turn
<1> QED
  BY <1>1, SamePoll, SameReading
  DEF Inputs!Next, Inputs!Loop, Inputs!LoopWithoutReading, Inputs!vars,
      Inputs!buttonVars, Inputs!potentiometerVars, buttonVars, potentiometerVars

(***************************************************************************)
(* The counter of motor_buttons.c debounces, for any buttons and any       *)
(* number of samples: with bounces and failed reads in any order, a button *)
(* is held when its last full window says so, and each press gives one     *)
(* event.                                                                  *)
(***************************************************************************)
THEOREM ButtonsDebounce == Inputs!Spec => ImplementsDebounce
<1>1. ButtonsOK /\ [ButtonsNext]_buttonVars => ButtonsOK' /\ [Debounced!Next]_(Debounced!vars)
  BY ButtonsStep
<1> QED
  BY InputsInitial, InputsStep, ButtonsInitial, <1>1, PTL
  DEF Inputs!Spec, ImplementsDebounce, Debounced!Spec

(***************************************************************************)
(* The integer filter of motor_potentiometer.c moves towards the reading   *)
(* and never passes it, for any divisor, scale and sequence of readings,   *)
(* so that the setpoint the main loop takes is always one                  *)
(* app_motor_set_target_duty accepts.                                      *)
(***************************************************************************)
THEOREM FilterTracks == Inputs!Spec => FilterApproaches /\ [](duty \in DutyMin .. DutyMax)
<1>1. FilterOK /\ [PollPotentiometer \/ Turning]_potentiometerVars
        => FilterOK' /\ [Approaches]_filtered
  BY FilterStep
<1>2. FilterOK => duty \in DutyMin .. DutyMax
  BY DEF FilterOK
<1> QED
  BY InputsInitial, InputsStep, FilterInitial, <1>1, <1>2, PTL
  DEF Inputs!Spec, FilterApproaches, Approaches
===============================================================================
