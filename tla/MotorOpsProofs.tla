--------------------------- MODULE MotorOpsProofs ---------------------------
(***************************************************************************)
(* Every operation of MotorOps keeps SafeMotor, for every value of the     *)
(* constants and every set of refused writes; after those, which of them   *)
(* touch the ramps and the setpoint.  MotorDriversProofs and               *)
(* MotorSystemProofs cite these lemmas.                                    *)
(***************************************************************************)
EXTENDS MotorOps, TLAPS

USE MotorAssumption

(***************************************************************************)
(* motor_make_safe: the software forgets duty and boost; an output is 0 or *)
(* what it was; the call succeeds exactly when no write is refused.        *)
(***************************************************************************)
LEMMA MakeSafe ==
  ASSUME NEW m \in Motor, NEW bad, NEW n, n = motor_make_safe(m, bad)
  PROVE  /\ n \in Motor
         /\ n.duty = 0 /\ n.boost = 0
         /\ n.state = m.state /\ n.dir = m.dir /\ n.error = m.error
         /\ \A d \in Drivers : n.hw[d] = IF d \in bad THEN m.hw[d] ELSE 0
         /\ n.ret = "ok" => Released(n)
<1> DEFINE h == [d \in Drivers |-> IF d \in bad THEN m.hw[d] ELSE 0]
           r == IF bad \cap Drivers = {} THEN "ok" ELSE "EIO"
           zero == 0
<1>1. h \in [Drivers -> 0 .. DutyMax]
  BY DEF Motor
<1>2. r \in Returns
  BY DEF Returns
<1>3. \A d \in Drivers : h[d] = IF d \in bad THEN m.hw[d] ELSE 0
  OBVIOUS
<1>4. r = "ok" => \A d \in Drivers : d \notin bad
  OBVIOUS
<1>5. n = [m EXCEPT !.hw = h, !.duty = zero, !.boost = zero, !.ret = r]
  BY DEF motor_make_safe
<1>6. zero \in 0 .. DutyMax /\ zero \in 0 .. BoostMs
  OBVIOUS
<1> HIDE DEF h, r, zero
<1>7. /\ n \in Motor
      /\ n.hw = h /\ n.duty = zero /\ n.boost = zero /\ n.ret = r
      /\ n.state = m.state /\ n.dir = m.dir /\ n.error = m.error
  BY <1>1, <1>2, <1>5, <1>6 DEF Motor
<1> QED
  BY <1>3, <1>4, <1>7 DEF Released, zero

(***************************************************************************)
(* motor_record_fault leaves a safe motor in FAULT from any motor whose    *)
(* lines were not crossed.                                                 *)
(***************************************************************************)
LEMMA RecordFault ==
  ASSUME NEW m \in Motor, NEW bad,
         m.hw["in1"] \in {0, 1}, m.hw["in2"] \in {0, 1},
         ~(m.hw["in1"] = 1 /\ m.hw["in2"] = 1),
         NEW n, n = motor_record_fault(m, bad)
  PROVE  /\ SafeMotor(n)
         /\ n.state = "FAULT"
         /\ n.dir = m.dir
         /\ \A d \in Drivers : n.hw[d] \in {m.hw[d], 0}
         /\ n.ret # "ok"
<1> DEFINE s == motor_make_safe(m, bad)
<1>1. /\ s \in Motor /\ s.duty = 0 /\ s.boost = 0 /\ s.dir = m.dir
      /\ \A d \in Drivers : s.hw[d] = IF d \in bad THEN m.hw[d] ELSE 0
  BY MakeSafe
<1>2. n = [s EXCEPT !.error = TRUE, !.state = "FAULT", !.ret = "EIO"]
  BY DEF motor_record_fault
<1> HIDE DEF s
<1>3. n \in Motor /\ n.hw = s.hw /\ n.state = "FAULT" /\ n.error = TRUE
      /\ n.duty = 0 /\ n.boost = 0 /\ n.ret = "EIO" /\ n.dir = m.dir
  BY <1>1, <1>2 DEF Motor, MotorStates, Returns
<1> QED
  BY <1>1, <1>3 DEF SafeMotor, Drivers

(***************************************************************************)
(* A call that writes only ret changes nothing that matters.               *)
(***************************************************************************)
LEMMA OnlyReturn ==
  ASSUME NEW m, SafeMotor(m), NEW r \in Returns, NEW n, n = Return(m, r)
  PROVE  /\ SafeMotor(n)
         /\ n.hw = m.hw /\ n.state = m.state /\ n.dir = m.dir
         /\ n.duty = m.duty /\ n.boost = m.boost /\ n.ret = r
<1>1. m \in Motor
  BY DEF SafeMotor
<1>2. /\ n \in Motor
      /\ n.hw = m.hw /\ n.state = m.state /\ n.dir = m.dir
      /\ n.duty = m.duty /\ n.boost = m.boost /\ n.ret = r
      /\ n.error = m.error
  BY <1>1 DEF Return, Motor
<1> QED
  BY <1>2 DEF SafeMotor, Released, LinesSelect

(***************************************************************************)
(* motor_set_pwm on a motor whose lines select its direction: the new duty *)
(* is on the pin, or the motor is in FAULT with no more power than before. *)
(***************************************************************************)
LEMMA SetPwm ==
  ASSUME NEW m \in Motor, NEW d \in 0 .. DutyMax, NEW bad, NEW safeBad,
         m.hw["in1"] \in {0, 1}, m.hw["in2"] \in {0, 1},
         ~(m.hw["in1"] = 1 /\ m.hw["in2"] = 1),
         NEW n, n = motor_set_pwm(m, d, bad, safeBad)
  PROVE  \/ /\ n \in Motor
            /\ n.hw["pwm"] = d /\ n.duty = d /\ n.ret = "ok"
            /\ n.hw["in1"] = m.hw["in1"] /\ n.hw["in2"] = m.hw["in2"]
            /\ n.state = m.state /\ n.dir = m.dir /\ n.boost = m.boost
            /\ n.error = m.error
         \/ /\ SafeMotor(n)
            /\ n.state = "FAULT" /\ n.dir = m.dir /\ n.ret # "ok"
            /\ \A x \in Drivers : n.hw[x] \in {m.hw[x], 0}
<1>1. ~(d > DutyMax)
  OBVIOUS
<1>2. CASE "pwm" \in bad
  <2>1. n = motor_record_fault(m, safeBad)
    BY <1>1, <1>2 DEF motor_set_pwm
  <2> QED
    BY <2>1, RecordFault
<1>3. CASE "pwm" \notin bad
  <2>1. n = [m EXCEPT !.hw["pwm"] = d, !.duty = d, !.ret = "ok"]
    BY <1>1, <1>3 DEF motor_set_pwm
  <2> DEFINE h == [m.hw EXCEPT !["pwm"] = d]
  <2>2. /\ h \in [Drivers -> 0 .. DutyMax]
        /\ h["pwm"] = d /\ h["in1"] = m.hw["in1"] /\ h["in2"] = m.hw["in2"]
    BY DEF Motor, Drivers
  <2>3. n = [m EXCEPT !.hw = h, !.duty = d, !.ret = "ok"]
    BY <2>1
  <2> HIDE DEF h
  <2>4. n \in Motor /\ n.hw = h
    BY <2>2, <2>3 DEF Motor, Returns
  <2> QED
    BY <2>1, <2>2, <2>3, <2>4 DEF Motor
<1> QED
  BY <1>2, <1>3

(***************************************************************************)
(* motor_apply_direction from a released bridge: the lines select the      *)
(* motor's direction without power, or the motor is in FAULT.              *)
(***************************************************************************)
LEMMA ApplyDirection ==
  ASSUME NEW m \in Motor, Released(m), NEW bad, NEW safeBad,
         NEW n, n = motor_apply_direction(m, bad, safeBad)
  PROVE  \/ /\ n \in Motor
            /\ LinesSelect(n, m.dir)
            /\ n.hw["pwm"] = 0 /\ n.ret = "ok"
            /\ n.state = m.state /\ n.dir = m.dir
            /\ n.duty = m.duty /\ n.boost = m.boost /\ n.error = m.error
         \/ /\ SafeMotor(n)
            /\ n.state = "FAULT" /\ n.dir = m.dir /\ n.ret # "ok"
            /\ n.hw["pwm"] = 0
<1> DEFINE in1 == IF m.dir = "FORWARD" THEN 1 ELSE 0
           first == [m EXCEPT !.hw["in1"] = in1]
           second == [first EXCEPT !.hw["in2"] = 1 - in1, !.ret = "ok"]
<1>0. DutyMax >= 1
  OBVIOUS
<1>1. m.hw["in1"] = 0 /\ m.hw["in2"] = 0 /\ m.hw["pwm"] = 0
  BY DEF Released, Drivers
<1>2. in1 \in 0 .. DutyMax /\ 1 - in1 \in 0 .. DutyMax /\ in1 \in {0, 1}
  BY <1>0
<1>3. /\ first \in Motor
      /\ first.hw["in1"] = in1 /\ first.hw["in2"] = 0 /\ first.hw["pwm"] = 0
      /\ first.state = m.state /\ first.dir = m.dir /\ first.error = m.error
      /\ first.duty = m.duty /\ first.boost = m.boost
  <2> HIDE DEF in1
  <2> QED
    BY <1>1, <1>2 DEF Motor, Drivers
<1>4. CASE "in1" \in bad
  <2>1. n = motor_record_fault(m, safeBad)
    BY <1>4 DEF motor_apply_direction
  <2> QED
    BY <1>1, <2>1, RecordFault DEF Drivers
<1>5. CASE "in1" \notin bad /\ "in2" \in bad
  <2>1. n = motor_record_fault(first, safeBad)
    BY <1>5 DEF motor_apply_direction
  <2> HIDE DEF first, in1
  <2> QED
    BY <1>2, <1>3, <2>1, RecordFault DEF Drivers
<1>6. CASE "in1" \notin bad /\ "in2" \notin bad
  <2>1. n = second
    BY <1>6 DEF motor_apply_direction
  <2> DEFINE in2 == 1 - in1
  <2>2. n = [first EXCEPT !.hw["in2"] = in2, !.ret = "ok"]
    BY <2>1
  <2>3. in2 \in 0 .. DutyMax
    BY <1>2
  <2>4. in2 = IF m.dir = "FORWARD" THEN 0 ELSE 1
    OBVIOUS
  <2>5. in1 = IF m.dir = "FORWARD" THEN 1 ELSE 0
    OBVIOUS
  <2> DEFINE h == [first.hw EXCEPT !["in2"] = in2]
  <2> HIDE DEF in2, first, in1
  <2>6. /\ h \in [Drivers -> 0 .. DutyMax]
        /\ h["in1"] = in1 /\ h["in2"] = in2 /\ h["pwm"] = 0
    BY <1>3, <2>3 DEF Motor, Drivers
  <2>7. n = [first EXCEPT !.hw = h, !.ret = "ok"]
    BY <2>2
  <2> HIDE DEF h
  <2>8. /\ n \in Motor /\ n.hw = h
        /\ n.state = m.state /\ n.dir = m.dir /\ n.error = m.error
        /\ n.duty = m.duty /\ n.boost = m.boost /\ n.ret = "ok"
    BY <1>3, <2>6, <2>7 DEF Motor, Returns
  <2> QED
    BY <2>4, <2>5, <2>6, <2>8 DEF LinesSelect
<1> QED
  BY <1>4, <1>5, <1>6

-----------------------------------------------------------------------------
(***************************************************************************)
(* The ramp arithmetic: a step of a call with time elapsed is at least 1,  *)
(* and a ramp stays between where it starts and where it goes.             *)
(***************************************************************************)
LEMMA RampStep ==
  ASSUME NEW rate \in Nat, NEW elapsed \in Nat
  PROVE  /\ motor_ramp_step(rate, elapsed) \in Nat
         /\ elapsed # 0 => motor_ramp_step(rate, elapsed) >= 1
<1>1. rate * elapsed \in Nat
  OBVIOUS
<1>2. (rate * elapsed) \div Second \in Nat
  BY <1>1
<1> QED
  BY <1>2 DEF motor_ramp_step

LEMMA TowardsBetween ==
  ASSUME NEW from \in Nat, NEW to \in Nat, NEW step \in Nat
  PROVE  /\ from <= to => Towards(from, to, step) \in from .. to
         /\ to <= from => Towards(from, to, step) \in to .. from
BY DEF Towards

LEMMA RampTowards ==
  ASSUME NEW m, SafeMotor(m), m.state \in {"RUNNING", "STOPPING"}, m.boost = 0,
         NEW to \in 0 .. DutyMax, NEW step \in Nat, NEW bad, NEW safeBad,
         NEW n, n = motor_ramp_towards(m, to, step, bad, safeBad)
  PROVE  \/ /\ n \in Motor
            /\ n.hw["pwm"] = n.duty /\ n.ret = "ok"
            /\ n.hw["in1"] = m.hw["in1"] /\ n.hw["in2"] = m.hw["in2"]
            /\ n.state = m.state /\ n.dir = m.dir /\ n.boost = m.boost
            /\ n.error = m.error
            /\ m.duty <= to => n.duty \in m.duty .. to
            /\ to <= m.duty => n.duty \in to .. m.duty
         \/ /\ SafeMotor(n)
            /\ n.state = "FAULT" /\ n.dir = m.dir /\ n.ret # "ok"
            /\ \A x \in Drivers : n.hw[x] \in {m.hw[x], 0}
<1> DEFINE d == Towards(m.duty, to, step)
<1>1. m \in Motor /\ m.duty \in 0 .. DutyMax
  BY DEF SafeMotor, Motor
<1>2. /\ d \in 0 .. DutyMax
      /\ m.duty <= to => d \in m.duty .. to
      /\ to <= m.duty => d \in to .. m.duty
  <2>1. m.duty \in Nat /\ to \in Nat /\ (m.duty <= to \/ to <= m.duty)
    BY <1>1
  <2>2. /\ m.duty <= to => d \in m.duty .. to
        /\ to <= m.duty => d \in to .. m.duty
    BY <2>1, TowardsBetween
  <2> HIDE DEF d
  <2> QED
    BY <1>1, <2>1, <2>2
<1>3. n = motor_set_pwm(m, d, bad, safeBad)
  BY DEF motor_ramp_towards
<1> HIDE DEF d
<1>4. /\ m.hw["in1"] \in {0, 1} /\ m.hw["in2"] \in {0, 1}
      /\ ~(m.hw["in1"] = 1 /\ m.hw["in2"] = 1)
  BY DEF SafeMotor
<1>5. \/ /\ n \in Motor
         /\ n.hw["pwm"] = d /\ n.duty = d /\ n.ret = "ok"
         /\ n.hw["in1"] = m.hw["in1"] /\ n.hw["in2"] = m.hw["in2"]
         /\ n.state = m.state /\ n.dir = m.dir /\ n.boost = m.boost
         /\ n.error = m.error
      \/ /\ SafeMotor(n)
         /\ n.state = "FAULT" /\ n.dir = m.dir /\ n.ret # "ok"
         /\ \A x \in Drivers : n.hw[x] \in {m.hw[x], 0}
  BY <1>1, <1>2, <1>3, <1>4, SetPwm
<1> QED
  BY <1>2, <1>5

-----------------------------------------------------------------------------
LEMMA SafeReset ==
  ASSUME NEW m, SafeMotor(m), NEW bad, NEW safeBad,
         NEW n, n = app_motor_reset(m, bad, safeBad)
  PROVE  /\ SafeMotor(n)
         /\ \/ Released(n) /\ n.state = "READY"
            \/ /\ n.state = "FAULT" /\ n.dir = m.dir /\ n.ret # "ok"
               /\ \A x \in Drivers : n.hw[x] \in {m.hw[x], 0}
<1> DEFINE off == motor_make_safe(m, bad)
<1>1. m \in Motor
  BY DEF SafeMotor
<1>2. /\ off \in Motor /\ off.duty = 0 /\ off.boost = 0 /\ off.dir = m.dir
      /\ \A x \in Drivers : off.hw[x] = IF x \in bad THEN m.hw[x] ELSE 0
      /\ off.ret = "ok" => Released(off)
  BY <1>1, MakeSafe
<1>3. n = IF off.ret # "ok" THEN motor_record_fault(off, safeBad)
          ELSE [off EXCEPT !.dir = "FORWARD", !.error = FALSE, !.state = "READY"]
  BY DEF app_motor_reset
<1> HIDE DEF off
<1>4. CASE off.ret # "ok"
  <2>1. n = motor_record_fault(off, safeBad)
    BY <1>3, <1>4
  <2>2. /\ off.hw["in1"] \in {0, 1} /\ off.hw["in2"] \in {0, 1}
        /\ ~(off.hw["in1"] = 1 /\ off.hw["in2"] = 1)
    BY <1>2 DEF SafeMotor, Drivers
  <2> QED
    BY <1>2, <2>1, <2>2, RecordFault
<1>5. CASE off.ret = "ok"
  <2>1. n = [off EXCEPT !.dir = "FORWARD", !.error = FALSE, !.state = "READY"]
    BY <1>3, <1>5
  <2>2. /\ n \in Motor /\ n.hw = off.hw /\ n.duty = 0 /\ n.boost = 0
        /\ n.state = "READY" /\ n.error = FALSE
    BY <1>2, <2>1 DEF Motor, MotorStates, Directions
  <2> QED
    BY <1>2, <1>5, <2>2 DEF SafeMotor, Released, Drivers
<1> QED
  BY <1>4, <1>5

LEMMA SafeQuickStop ==
  ASSUME NEW m, SafeMotor(m), NEW bad, NEW safeBad,
         NEW n, n = app_motor_quick_stop(m, bad, safeBad)
  PROVE  /\ SafeMotor(n)
         /\ n.dir = m.dir
         /\ \/ n.hw = m.hw /\ n.state = "FAULT" /\ m.state = "FAULT"
            \/ Released(n) /\ n.state = "READY"
            \/ /\ n.state = "FAULT" /\ n.ret # "ok"
               /\ \A x \in Drivers : n.hw[x] \in {m.hw[x], 0}
<1> DEFINE off == motor_make_safe(m, bad)
<1>1. m \in Motor
  BY DEF SafeMotor
<1>2. /\ off \in Motor /\ off.duty = 0 /\ off.boost = 0 /\ off.dir = m.dir
      /\ off.state = m.state /\ off.error = m.error
      /\ \A x \in Drivers : off.hw[x] = IF x \in bad THEN m.hw[x] ELSE 0
      /\ off.ret = "ok" => Released(off)
  BY <1>1, MakeSafe
<1>3. n = IF m.state = "FAULT" THEN Return(m, "EIO")
          ELSE IF off.ret # "ok" THEN motor_record_fault(off, safeBad)
          ELSE [off EXCEPT !.state = "READY"]
  BY DEF app_motor_quick_stop
<1> HIDE DEF off
<1>4. CASE m.state = "FAULT"
  <2>1. n = Return(m, "EIO")
    BY <1>3, <1>4
  <2> QED
    BY <1>4, <2>1, OnlyReturn DEF Returns
<1>5. CASE m.state # "FAULT" /\ off.ret # "ok"
  <2>1. n = motor_record_fault(off, safeBad)
    BY <1>3, <1>5
  <2>2. /\ off.hw["in1"] \in {0, 1} /\ off.hw["in2"] \in {0, 1}
        /\ ~(off.hw["in1"] = 1 /\ off.hw["in2"] = 1)
    BY <1>2 DEF SafeMotor, Drivers
  <2> QED
    BY <1>2, <2>1, <2>2, RecordFault
<1>6. CASE m.state # "FAULT" /\ off.ret = "ok"
  <2>1. n = [off EXCEPT !.state = "READY"]
    BY <1>3, <1>6
  <2>2. /\ n \in Motor /\ n.hw = off.hw /\ n.duty = 0 /\ n.boost = 0
        /\ n.state = "READY" /\ n.error = m.error /\ n.dir = m.dir
    BY <1>2, <2>1 DEF Motor, MotorStates
  <2> QED
    BY <1>2, <1>6, <2>2 DEF SafeMotor, Released, Drivers
<1> QED
  BY <1>4, <1>5, <1>6


LEMMA SafeInit ==
  ASSUME NEW m, SafeMotor(m), m.state = "DISABLED",
         NEW ready, NEW bad, NEW safeBad,
         NEW n, n = app_motor_init(m, ready, bad, safeBad)
  PROVE  /\ SafeMotor(n) /\ Released(n)
         /\ n.state \in {"READY", "FAULT"}
<1> DEFINE off == motor_make_safe(m, bad)
<1>1. m \in Motor /\ Released(m)
  BY DEF SafeMotor
<1>2. /\ off \in Motor /\ off.duty = 0 /\ off.boost = 0 /\ off.dir = m.dir
      /\ off.ret = "ok" => Released(off)
  BY <1>1, MakeSafe
<1>3. n = IF ~ready \/ off.ret # "ok" THEN motor_record_fault(m, safeBad)
          ELSE [off EXCEPT !.dir = "FORWARD", !.error = FALSE, !.state = "READY"]
  BY DEF app_motor_init
<1> HIDE DEF off
<1>4. CASE ~ready \/ off.ret # "ok"
  <2>1. n = motor_record_fault(m, safeBad)
    BY <1>3, <1>4
  <2>2. /\ m.hw["in1"] \in {0, 1} /\ m.hw["in2"] \in {0, 1}
        /\ ~(m.hw["in1"] = 1 /\ m.hw["in2"] = 1)
    BY DEF SafeMotor
  <2>3. SafeMotor(n) /\ n.state = "FAULT"
        /\ \A d \in Drivers : n.hw[d] \in {m.hw[d], 0}
    BY <1>1, <2>1, <2>2, RecordFault
  <2> QED
    BY <1>1, <2>3 DEF Released
<1>5. CASE ~(~ready \/ off.ret # "ok")
  <2>1. n = [off EXCEPT !.dir = "FORWARD", !.error = FALSE, !.state = "READY"]
    BY <1>3, <1>5
  <2>2. /\ n \in Motor /\ n.hw = off.hw /\ n.duty = 0 /\ n.boost = 0
        /\ n.state = "READY" /\ n.error = FALSE
    BY <1>2, <2>1 DEF Motor, MotorStates, Directions
  <2> QED
    BY <1>2, <1>5, <2>2 DEF SafeMotor, Released, Drivers
<1> QED
  BY <1>4, <1>5

LEMMA SafeStart ==
  ASSUME NEW m, SafeMotor(m), NEW bad, NEW safeBad,
         NEW n, n = app_motor_start(m, bad, safeBad)
  PROVE  /\ SafeMotor(n)
         /\ n.dir = m.dir
         /\ \/ n.hw = m.hw /\ n.state = m.state
            \/ m.state = "READY" /\ n.state = "RUNNING"
            \/ m.state = "READY" /\ n.state = "FAULT" /\ n.hw["pwm"] = 0
<1> DEFINE on == motor_apply_direction(m, bad, safeBad)
           boosted == motor_set_pwm(on, StartBoost, bad, safeBad)
<1>1. m \in Motor
  BY DEF SafeMotor
<1>2. CASE m.state # "READY"
  <2>1. \E r \in Returns : n = Return(m, r)
    BY <1>1, <1>2 DEF app_motor_start, Returns, Motor, MotorStates
  <2> QED
    BY <2>1, OnlyReturn
<1>3. CASE m.state = "READY"
  <2>1. n = IF on.ret # "ok" THEN on
            ELSE IF boosted.ret # "ok" THEN boosted
            ELSE [boosted EXCEPT !.boost = BoostMs, !.state = "RUNNING"]
    BY <1>3 DEF app_motor_start
  <2>2. Released(m) /\ m.error = FALSE /\ m.boost = 0
    BY <1>1, <1>3 DEF SafeMotor, Motor
  <2>3. \/ /\ on \in Motor
           /\ LinesSelect(on, m.dir)
           /\ on.hw["pwm"] = 0 /\ on.ret = "ok"
           /\ on.state = m.state /\ on.dir = m.dir
           /\ on.duty = m.duty /\ on.boost = m.boost /\ on.error = m.error
        \/ /\ SafeMotor(on)
           /\ on.state = "FAULT" /\ on.dir = m.dir /\ on.ret # "ok"
           /\ on.hw["pwm"] = 0
    BY <1>1, <2>2, ApplyDirection
  <2>4. boosted = motor_set_pwm(on, StartBoost, bad, safeBad)
    OBVIOUS
  <2> HIDE DEF on, boosted
  <2>5. CASE on.ret # "ok"
    BY <1>3, <2>1, <2>3, <2>5
  <2>6. CASE on.ret = "ok"
    <3>1. /\ on \in Motor
          /\ LinesSelect(on, m.dir)
          /\ on.hw["pwm"] = 0 /\ on.boost = 0 /\ on.error = FALSE
          /\ on.state = "READY" /\ on.dir = m.dir
      BY <1>3, <2>2, <2>3, <2>6
    <3>2. /\ on.hw["in1"] \in {0, 1} /\ on.hw["in2"] \in {0, 1}
          /\ ~(on.hw["in1"] = 1 /\ on.hw["in2"] = 1)
      BY <3>1 DEF LinesSelect
    <3>3. StartBoost \in 0 .. DutyMax /\ StartBoost >= DutyMin
      OBVIOUS
    <3>4. \/ /\ boosted \in Motor
             /\ boosted.hw["pwm"] = StartBoost /\ boosted.duty = StartBoost
             /\ boosted.ret = "ok"
             /\ boosted.hw["in1"] = on.hw["in1"]
             /\ boosted.hw["in2"] = on.hw["in2"]
             /\ boosted.state = on.state /\ boosted.dir = on.dir
             /\ boosted.error = on.error
          \/ /\ SafeMotor(boosted)
             /\ boosted.state = "FAULT" /\ boosted.dir = on.dir
             /\ boosted.ret # "ok"
             /\ \A x \in Drivers : boosted.hw[x] \in {on.hw[x], 0}
      BY <2>4, <3>1, <3>2, <3>3, SetPwm
    <3>5. CASE boosted.ret # "ok"
      BY <1>3, <2>1, <2>6, <3>1, <3>4, <3>5 DEF Drivers
    <3>6. CASE boosted.ret = "ok"
      <4>1. n = [boosted EXCEPT !.boost = BoostMs, !.state = "RUNNING"]
        BY <2>1, <2>6, <3>6
      <4>2. boosted \in Motor
        BY <3>4, <3>6
      <4>3. BoostMs \in 0 .. BoostMs
        OBVIOUS
      <4>4. /\ n \in Motor /\ n.hw = boosted.hw /\ n.duty = boosted.duty
            /\ n.dir = boosted.dir /\ n.state = "RUNNING"
            /\ n.error = boosted.error
        BY <4>1, <4>2, <4>3 DEF Motor, MotorStates
      <4> QED
        BY <1>3, <3>1, <3>2, <3>3, <3>4, <3>6, <4>4 DEF SafeMotor, LinesSelect
    <3> QED
      BY <3>5, <3>6
  <2> QED
    BY <2>5, <2>6
<1> QED
  BY <1>2, <1>3

LEMMA SafeStop ==
  ASSUME NEW m, SafeMotor(m), NEW n, n = app_motor_stop(m)
  PROVE  /\ SafeMotor(n)
         /\ n.hw = m.hw /\ n.dir = m.dir
         /\ n.state = "FAULT" <=> m.state = "FAULT"
         /\ n.state # "RUNNING"
<1>1. m \in Motor
  BY DEF SafeMotor
<1>2. CASE m.state \in {"FAULT", "READY", "DISABLED"}
  <2>1. \E r \in Returns : n = Return(m, r)
    BY <1>2 DEF app_motor_stop, Returns
  <2> QED
    BY <1>2, <2>1, OnlyReturn
<1>3. CASE m.state \in {"RUNNING", "STOPPING"}
  <2> DEFINE zero == 0
  <2>1. n = [m EXCEPT !.boost = zero, !.state = "STOPPING", !.ret = "ok"]
    BY <1>3 DEF app_motor_stop
  <2>2. zero \in 0 .. BoostMs
    OBVIOUS
  <2> HIDE DEF zero
  <2>3. /\ n \in Motor /\ n.hw = m.hw /\ n.duty = m.duty /\ n.boost = zero
        /\ n.dir = m.dir /\ n.error = m.error /\ n.state = "STOPPING"
    BY <1>1, <2>1, <2>2 DEF Motor, MotorStates, Returns
  <2> QED
    BY <1>3, <2>3 DEF SafeMotor, LinesSelect, zero
<1> QED
  BY <1>1, <1>2, <1>3 DEF Motor, MotorStates


LEMMA SafeSetDirection ==
  ASSUME NEW m, SafeMotor(m), NEW x \in Directions,
         NEW n, n = app_motor_set_direction(m, x)
  PROVE  /\ SafeMotor(n)
         /\ n.hw = m.hw /\ n.state = m.state
         /\ n.dir # m.dir => Released(n)
<1>1. m \in Motor
  BY DEF SafeMotor
<1>2. CASE m.state = "READY"
  <2>1. n = [m EXCEPT !.dir = x, !.ret = "ok"]
    BY <1>2 DEF app_motor_set_direction
  <2>2. /\ n \in Motor /\ n.hw = m.hw /\ n.duty = m.duty /\ n.boost = m.boost
        /\ n.state = m.state /\ n.error = m.error
    BY <1>1, <2>1 DEF Motor, Returns
  <2> QED
    BY <1>2, <2>2 DEF SafeMotor, Released
<1>3. CASE m.state # "READY"
  <2>1. \E r \in Returns : n = Return(m, r)
    BY <1>3 DEF app_motor_set_direction, Returns
  <2> QED
    BY <2>1, OnlyReturn
<1> QED
  BY <1>2, <1>3

LEMMA SafeToggleDirection ==
  ASSUME NEW m, SafeMotor(m), NEW n, n = app_motor_toggle_direction(m)
  PROVE  /\ SafeMotor(n)
         /\ n.hw = m.hw /\ n.state = m.state
         /\ n.dir # m.dir => Released(n)
<1>1. Opposite(m.dir) \in Directions
  BY DEF Opposite, Directions
<1> QED
  BY <1>1, SafeSetDirection DEF app_motor_toggle_direction

LEMMA SafeSetTargetDuty ==
  ASSUME NEW m, SafeMotor(m), NEW d, NEW n, n = app_motor_set_target_duty(m, d)
  PROVE  /\ SafeMotor(n)
         /\ n.hw = m.hw /\ n.state = m.state /\ n.dir = m.dir
<1>1. m \in Motor
  BY DEF SafeMotor
<1>2. CASE d \in DutyMin .. DutyMax
  <2>1. n = [m EXCEPT !.target = d, !.ret = "ok"]
    BY <1>2 DEF app_motor_set_target_duty
  <2>2. /\ n \in Motor /\ n.hw = m.hw /\ n.duty = m.duty /\ n.boost = m.boost
        /\ n.state = m.state /\ n.error = m.error /\ n.dir = m.dir
    BY <1>1, <1>2, <2>1 DEF Motor, Returns
  <2> QED
    BY <2>2 DEF SafeMotor, Released, LinesSelect
<1>3. CASE d \notin DutyMin .. DutyMax
  <2>1. n = Return(m, "ERANGE") /\ "ERANGE" \in Returns
    BY <1>3 DEF app_motor_set_target_duty, Returns
  <2> QED
    BY <2>1, OnlyReturn
<1> QED
  BY <1>2, <1>3

LEMMA SafeSetRamps ==
  ASSUME NEW m, SafeMotor(m), NEW a \in Nat, NEW d \in Nat,
         NEW n, n = app_motor_set_ramps(m, a, d)
  PROVE  /\ SafeMotor(n)
         /\ n.hw = m.hw /\ n.state = m.state /\ n.dir = m.dir
<1>1. m \in Motor
  BY DEF SafeMotor
<1>2. CASE a # 0 /\ d # 0
  <2>1. n = [m EXCEPT !.accel = a, !.decel = d, !.ret = "ok"]
    BY <1>2 DEF app_motor_set_ramps
  <2>2. a \in Nat \ {0} /\ d \in Nat \ {0}
    BY <1>2
  <2>3. /\ n \in Motor /\ n.hw = m.hw /\ n.duty = m.duty /\ n.boost = m.boost
        /\ n.state = m.state /\ n.error = m.error /\ n.dir = m.dir
    BY <1>1, <2>1, <2>2 DEF Motor, Returns
  <2> QED
    BY <2>3 DEF SafeMotor, Released, LinesSelect
<1>3. CASE ~(a # 0 /\ d # 0)
  <2>1. n = Return(m, "EINVAL") /\ "EINVAL" \in Returns
    BY <1>3 DEF app_motor_set_ramps, Returns
  <2> QED
    BY <2>1, OnlyReturn
<1> QED
  BY <1>2, <1>3

LEMMA SafeRestoreDefaultRamps ==
  ASSUME NEW m, SafeMotor(m), NEW n, n = app_motor_restore_default_ramps(m)
  PROVE  /\ SafeMotor(n)
         /\ n.hw = m.hw /\ n.state = m.state /\ n.dir = m.dir
<1>1. m \in Motor
  BY DEF SafeMotor
<1>2. n = [m EXCEPT !.accel = RunRamp, !.decel = StopRamp]
  BY DEF app_motor_restore_default_ramps
<1>3. RunRamp \in Nat \ {0} /\ StopRamp \in Nat \ {0}
  OBVIOUS
<1>4. /\ n \in Motor /\ n.hw = m.hw /\ n.duty = m.duty /\ n.boost = m.boost
      /\ n.state = m.state /\ n.error = m.error /\ n.dir = m.dir
  BY <1>1, <1>2, <1>3 DEF Motor
<1> QED
  BY <1>4 DEF SafeMotor, Released, LinesSelect

LEMMA SafeFail ==
  ASSUME NEW m, SafeMotor(m), NEW safeBad, NEW n, n = app_motor_fail(m, safeBad)
  PROVE  /\ SafeMotor(n)
         /\ n.state = "FAULT" /\ n.dir = m.dir
         /\ \A x \in Drivers : n.hw[x] \in {m.hw[x], 0}
BY RecordFault DEF app_motor_fail, SafeMotor

-----------------------------------------------------------------------------
LEMMA SafeProcessRunning ==
  ASSUME NEW m, SafeMotor(m), m.state = "RUNNING",
         NEW elapsed \in Nat, NEW bad, NEW safeBad,
         NEW n, n = ProcessRunning(m, elapsed, bad, safeBad)
  PROVE  /\ SafeMotor(n)
         /\ n.dir = m.dir
         /\ \/ n.state = "RUNNING"
            \/ /\ n.state = "FAULT" /\ n.ret # "ok"
               /\ \A x \in Drivers : n.hw[x] \in {m.hw[x], 0}
<1>1. m \in Motor
  BY DEF SafeMotor
<1>2. CASE m.boost # 0
  <2> DEFINE left == IF elapsed >= m.boost THEN 0 ELSE m.boost - elapsed
  <2>1. left \in 0 .. BoostMs
    BY <1>1 DEF Motor
  <2>2. n = [m EXCEPT !.boost = left, !.ret = "ok"]
    BY <1>2 DEF ProcessRunning
  <2> HIDE DEF left
  <2>3. /\ n \in Motor /\ n.hw = m.hw /\ n.duty = m.duty
        /\ n.state = m.state /\ n.error = m.error /\ n.dir = m.dir
    BY <1>1, <2>1, <2>2 DEF Motor, Returns
  <2> QED
    BY <1>2, <2>3 DEF SafeMotor, Released, LinesSelect
<1>3. CASE m.boost = 0
  <2> DEFINE step == motor_ramp_step(m.accel, elapsed)
  <2>1. n = motor_ramp_towards(m, m.target, step, bad, safeBad)
    BY <1>3 DEF ProcessRunning
  <2>2. /\ m.accel \in Nat /\ m.target \in 0 .. DutyMax /\ m.target >= DutyMin
        /\ m.duty \in Nat /\ m.duty >= DutyMin /\ DutyMin \in Nat
    BY <1>1 DEF Motor, SafeMotor
  <2>3. step \in Nat
    BY <2>2, RampStep
  <2> HIDE DEF step
  <2>4. \/ /\ n \in Motor
           /\ n.hw["pwm"] = n.duty /\ n.ret = "ok"
           /\ n.hw["in1"] = m.hw["in1"] /\ n.hw["in2"] = m.hw["in2"]
           /\ n.state = m.state /\ n.dir = m.dir /\ n.boost = m.boost
           /\ n.error = m.error
           /\ m.duty <= m.target => n.duty \in m.duty .. m.target
           /\ m.target <= m.duty => n.duty \in m.target .. m.duty
        \/ /\ SafeMotor(n)
           /\ n.state = "FAULT" /\ n.dir = m.dir /\ n.ret # "ok"
           /\ \A x \in Drivers : n.hw[x] \in {m.hw[x], 0}
    BY <1>3, <2>1, <2>2, <2>3, RampTowards
  <2>5. CASE SafeMotor(n) /\ n.state = "FAULT"
    BY <2>4, <2>5
  <2>6. CASE ~(SafeMotor(n) /\ n.state = "FAULT")
    <3>1. n.duty \in Nat /\ n.duty >= DutyMin
      BY <2>2, <2>4, <2>6
    <3> QED
      BY <1>3, <2>4, <2>6, <3>1 DEF SafeMotor, LinesSelect
  <2> QED
    BY <2>5, <2>6
<1> QED
  BY <1>2, <1>3

LEMMA SafeProcessStopping ==
  ASSUME NEW m, SafeMotor(m), m.state = "STOPPING",
         NEW elapsed \in Nat, NEW bad, NEW safeBad,
         NEW n, n = ProcessStopping(m, elapsed, bad, safeBad)
  PROVE  /\ SafeMotor(n)
         /\ n.dir = m.dir
         /\ \/ /\ n.state = "STOPPING" /\ n.duty # 0
               /\ n.hw["pwm"] <= m.hw["pwm"]
            \/ Released(n) /\ n.state = "READY"
            \/ /\ n.state = "FAULT"
               /\ \A x \in Drivers : n.hw[x] \in {m.hw[x], 0}
<1> DEFINE step == motor_ramp_step(m.decel, elapsed)
           slower == motor_ramp_towards(m, 0, step, bad, safeBad)
           off == motor_make_safe(slower, bad)
<1>1. m \in Motor /\ m.boost = 0
  BY DEF SafeMotor
<1>2. /\ m.decel \in Nat /\ 0 \in 0 .. DutyMax /\ m.duty \in Nat
      /\ m.duty = m.hw["pwm"]
  BY <1>1 DEF Motor, SafeMotor
<1>3. step \in Nat
  BY <1>2, RampStep
<1>4. n = IF slower.ret # "ok" \/ slower.duty # 0 THEN slower
          ELSE IF off.ret # "ok" THEN motor_record_fault(off, safeBad)
          ELSE [off EXCEPT !.state = "READY"]
  BY DEF ProcessStopping
<1> HIDE DEF step
<1>5. \/ /\ slower \in Motor
         /\ slower.hw["pwm"] = slower.duty /\ slower.ret = "ok"
         /\ slower.hw["in1"] = m.hw["in1"] /\ slower.hw["in2"] = m.hw["in2"]
         /\ slower.state = m.state /\ slower.dir = m.dir
         /\ slower.boost = m.boost /\ slower.error = m.error
         /\ slower.duty \in 0 .. m.duty
      \/ /\ SafeMotor(slower)
         /\ slower.state = "FAULT" /\ slower.dir = m.dir /\ slower.ret # "ok"
         /\ \A x \in Drivers : slower.hw[x] \in {m.hw[x], 0}
  BY <1>1, <1>2, <1>3, RampTowards
<1>6. slower \in Motor => /\ off \in Motor /\ off.duty = 0 /\ off.boost = 0
                          /\ off.dir = slower.dir /\ off.error = slower.error
                          /\ \A x \in Drivers :
                               off.hw[x] = IF x \in bad THEN slower.hw[x] ELSE 0
                          /\ off.ret = "ok" => Released(off)
  <2> HIDE DEF slower
  <2> QED
    BY MakeSafe
<1> HIDE DEF slower, off
<1>7. CASE slower.ret # "ok" \/ slower.duty # 0
  <2>1. n = slower
    BY <1>4, <1>7
  <2> QED
    BY <1>2, <1>5, <1>7, <2>1 DEF SafeMotor, LinesSelect
<1>8. CASE slower.ret = "ok" /\ slower.duty = 0 /\ off.ret # "ok"
  <2>1. n = motor_record_fault(off, safeBad)
    BY <1>4, <1>8
  <2>2. /\ off.hw["in1"] \in {0, 1} /\ off.hw["in2"] \in {0, 1}
        /\ ~(off.hw["in1"] = 1 /\ off.hw["in2"] = 1)
    BY <1>5, <1>6, <1>8 DEF SafeMotor, Drivers
  <2>3. \A x \in Drivers : off.hw[x] \in {m.hw[x], 0}
    BY <1>5, <1>6, <1>8 DEF Drivers
  <2>4. off \in Motor /\ off.dir = m.dir
    BY <1>5, <1>6, <1>8
  <2>5. /\ SafeMotor(n) /\ n.state = "FAULT" /\ n.dir = off.dir
        /\ \A x \in Drivers : n.hw[x] \in {off.hw[x], 0}
    BY <2>1, <2>2, <2>4, RecordFault
  <2> QED
    BY <2>3, <2>4, <2>5
<1>9. CASE slower.ret = "ok" /\ slower.duty = 0 /\ off.ret = "ok"
  <2>1. n = [off EXCEPT !.state = "READY"]
    BY <1>4, <1>9
  <2>2. off \in Motor /\ off.error = m.error /\ off.dir = m.dir
    BY <1>5, <1>6, <1>9
  <2>3. /\ n \in Motor /\ n.hw = off.hw /\ n.duty = off.duty
        /\ n.boost = off.boost
        /\ n.state = "READY" /\ n.error = m.error /\ n.dir = m.dir
    BY <2>1, <2>2 DEF Motor, MotorStates
  <2> QED
    BY <1>5, <1>6, <1>9, <2>3 DEF SafeMotor, Released, Drivers
<1> QED
  BY <1>7, <1>8, <1>9

LEMMA SafeProcess ==
  ASSUME NEW m, SafeMotor(m), NEW elapsed \in Nat, NEW bad, NEW safeBad,
         NEW n, n = app_motor_process(m, elapsed, bad, safeBad)
  PROVE  SafeMotor(n)
<1>1. CASE m.state = "RUNNING"
  BY <1>1, SafeProcessRunning DEF app_motor_process
<1>2. CASE m.state = "STOPPING"
  BY <1>2, SafeProcessStopping DEF app_motor_process
<1>3. CASE m.state \notin {"RUNNING", "STOPPING"}
  <2>1. n = Return(m, "ok") /\ "ok" \in Returns
    BY <1>3 DEF app_motor_process, Returns
  <2> QED
    BY <2>1, OnlyReturn
<1> QED
  BY <1>1, <1>2, <1>3

-----------------------------------------------------------------------------
(***************************************************************************)
(* Only set_ramps and restore_default_ramps touch the ramps.               *)
(***************************************************************************)
HasRamps(m) == "accel" \in DOMAIN m /\ "decel" \in DOMAIN m

KeepsRamps(m, n) == HasRamps(n) /\ n.accel = m.accel /\ n.decel = m.decel

LEMMA MakeSafeKeepsRamps ==
  ASSUME NEW m, HasRamps(m), NEW bad, NEW n, n = motor_make_safe(m, bad)
  PROVE  KeepsRamps(m, n)
BY DEF motor_make_safe, KeepsRamps, HasRamps

LEMMA RecordFaultKeepsRamps ==
  ASSUME NEW m, HasRamps(m), NEW bad, NEW n, n = motor_record_fault(m, bad)
  PROVE  KeepsRamps(m, n)
BY MakeSafeKeepsRamps DEF motor_record_fault, KeepsRamps, HasRamps

LEMMA SetPwmKeepsRamps ==
  ASSUME NEW m, HasRamps(m), NEW d, NEW bad, NEW safeBad,
         NEW n, n = motor_set_pwm(m, d, bad, safeBad)
  PROVE  KeepsRamps(m, n)
BY RecordFaultKeepsRamps DEF motor_set_pwm, Return, KeepsRamps, HasRamps

LEMMA ApplyDirectionKeepsRamps ==
  ASSUME NEW m, HasRamps(m), NEW bad, NEW safeBad,
         NEW n, n = motor_apply_direction(m, bad, safeBad)
  PROVE  KeepsRamps(m, n)
BY RecordFaultKeepsRamps DEF motor_apply_direction, KeepsRamps, HasRamps

LEMMA StartKeepsRamps ==
  ASSUME NEW m, HasRamps(m), NEW bad, NEW safeBad,
         NEW n, n = app_motor_start(m, bad, safeBad)
  PROVE  KeepsRamps(m, n)
BY SetPwmKeepsRamps, ApplyDirectionKeepsRamps
   DEF app_motor_start, Return, KeepsRamps, HasRamps

LEMMA ResetKeepsRamps ==
  ASSUME NEW m, HasRamps(m), NEW bad, NEW safeBad,
         NEW n, n = app_motor_reset(m, bad, safeBad)
  PROVE  KeepsRamps(m, n)
BY MakeSafeKeepsRamps, RecordFaultKeepsRamps
   DEF app_motor_reset, KeepsRamps, HasRamps

LEMMA ProcessKeepsRamps ==
  ASSUME NEW m, HasRamps(m), NEW elapsed, NEW bad, NEW safeBad,
         NEW n, n = app_motor_process(m, elapsed, bad, safeBad)
  PROVE  KeepsRamps(m, n)
BY MakeSafeKeepsRamps, RecordFaultKeepsRamps, SetPwmKeepsRamps
   DEF app_motor_process, ProcessRunning, ProcessStopping, motor_ramp_towards,
       Return, KeepsRamps, HasRamps

LEMMA StopKeepsRamps ==
  ASSUME NEW m, HasRamps(m), NEW n, n = app_motor_stop(m)
  PROVE  KeepsRamps(m, n)
BY DEF app_motor_stop, Return, KeepsRamps, HasRamps

LEMMA SetDirectionKeepsRamps ==
  ASSUME NEW m, HasRamps(m), NEW d, NEW n, n = app_motor_set_direction(m, d)
  PROVE  KeepsRamps(m, n)
BY DEF app_motor_set_direction, Return, KeepsRamps, HasRamps

LEMMA SetTargetDutyKeepsRamps ==
  ASSUME NEW m, HasRamps(m), NEW d, NEW n, n = app_motor_set_target_duty(m, d)
  PROVE  KeepsRamps(m, n)
BY DEF app_motor_set_target_duty, Return, KeepsRamps, HasRamps

LEMMA MotorHasRamps ==
  ASSUME NEW m, SafeMotor(m)
  PROVE  HasRamps(m)
BY DEF SafeMotor, Motor, HasRamps

-----------------------------------------------------------------------------
(***************************************************************************)
(* An accepted stop leaves no fault and no run.                            *)
(***************************************************************************)
LEMMA StopAnswers ==
  ASSUME NEW m, SafeMotor(m), NEW n, n = app_motor_stop(m), n.ret = "ok"
  PROVE  n.state \in {"DISABLED", "READY", "STOPPING"}
<1>1. m \in Motor
  BY DEF SafeMotor
<1>2. CASE m.state = "FAULT"
  <2>1. n = Return(m, "EIO") /\ "EIO" \in Returns
    BY <1>2 DEF app_motor_stop, Returns
  <2>2. n.ret = "EIO"
    BY <2>1, OnlyReturn
  <2> QED
    BY <2>2
<1>3. CASE m.state # "FAULT"
  <2>1. SafeMotor(n) /\ n.state # "FAULT" /\ n.state # "RUNNING"
    BY <1>3, SafeStop
  <2> QED
    BY <2>1 DEF SafeMotor, Motor, MotorStates
<1> QED
  BY <1>2, <1>3

-----------------------------------------------------------------------------
(***************************************************************************)
(* Only app_motor_set_target_duty touches the setpoint.                    *)
(***************************************************************************)
HasTarget(m) == "target" \in DOMAIN m

KeepsTarget(m, n) == HasTarget(n) /\ n.target = m.target

LEMMA MakeSafeKeepsTarget ==
  ASSUME NEW m, HasTarget(m), NEW bad, NEW n, n = motor_make_safe(m, bad)
  PROVE  KeepsTarget(m, n)
BY DEF motor_make_safe, KeepsTarget, HasTarget

LEMMA RecordFaultKeepsTarget ==
  ASSUME NEW m, HasTarget(m), NEW bad, NEW n, n = motor_record_fault(m, bad)
  PROVE  KeepsTarget(m, n)
BY MakeSafeKeepsTarget DEF motor_record_fault, KeepsTarget, HasTarget

LEMMA SetPwmKeepsTarget ==
  ASSUME NEW m, HasTarget(m), NEW d, NEW bad, NEW safeBad,
         NEW n, n = motor_set_pwm(m, d, bad, safeBad)
  PROVE  KeepsTarget(m, n)
BY RecordFaultKeepsTarget DEF motor_set_pwm, Return, KeepsTarget, HasTarget

LEMMA ApplyDirectionKeepsTarget ==
  ASSUME NEW m, HasTarget(m), NEW bad, NEW safeBad,
         NEW n, n = motor_apply_direction(m, bad, safeBad)
  PROVE  KeepsTarget(m, n)
BY RecordFaultKeepsTarget DEF motor_apply_direction, KeepsTarget, HasTarget

LEMMA StartKeepsTarget ==
  ASSUME NEW m, HasTarget(m), NEW bad, NEW safeBad,
         NEW n, n = app_motor_start(m, bad, safeBad)
  PROVE  KeepsTarget(m, n)
BY SetPwmKeepsTarget, ApplyDirectionKeepsTarget
   DEF app_motor_start, Return, KeepsTarget, HasTarget

LEMMA ResetKeepsTarget ==
  ASSUME NEW m, HasTarget(m), NEW bad, NEW safeBad,
         NEW n, n = app_motor_reset(m, bad, safeBad)
  PROVE  KeepsTarget(m, n)
BY MakeSafeKeepsTarget, RecordFaultKeepsTarget
   DEF app_motor_reset, KeepsTarget, HasTarget

LEMMA QuickStopKeeps ==
  ASSUME NEW m, HasTarget(m), HasRamps(m), NEW bad, NEW safeBad,
         NEW n, n = app_motor_quick_stop(m, bad, safeBad)
  PROVE  KeepsTarget(m, n) /\ KeepsRamps(m, n)
<1>1. KeepsTarget(m, n)
  BY MakeSafeKeepsTarget, RecordFaultKeepsTarget
     DEF app_motor_quick_stop, Return, KeepsTarget, HasTarget
<1>2. KeepsRamps(m, n)
  BY MakeSafeKeepsRamps, RecordFaultKeepsRamps
     DEF app_motor_quick_stop, Return, KeepsRamps, HasRamps
<1> QED
  BY <1>1, <1>2

LEMMA ProcessKeepsTarget ==
  ASSUME NEW m, HasTarget(m), NEW elapsed, NEW bad, NEW safeBad,
         NEW n, n = app_motor_process(m, elapsed, bad, safeBad)
  PROVE  KeepsTarget(m, n)
BY MakeSafeKeepsTarget, RecordFaultKeepsTarget, SetPwmKeepsTarget
   DEF app_motor_process, ProcessRunning, ProcessStopping, motor_ramp_towards,
       Return, KeepsTarget, HasTarget

LEMMA StopKeepsTarget ==
  ASSUME NEW m, HasTarget(m), NEW n, n = app_motor_stop(m)
  PROVE  KeepsTarget(m, n)
BY DEF app_motor_stop, Return, KeepsTarget, HasTarget

LEMMA SetDirectionKeepsTarget ==
  ASSUME NEW m, HasTarget(m), NEW d, NEW n, n = app_motor_set_direction(m, d)
  PROVE  KeepsTarget(m, n)
BY DEF app_motor_set_direction, Return, KeepsTarget, HasTarget

LEMMA MotorHasTarget ==
  ASSUME NEW m, SafeMotor(m)
  PROVE  HasTarget(m) /\ HasRamps(m)
BY DEF SafeMotor, Motor, HasTarget, HasRamps
=============================================================================
