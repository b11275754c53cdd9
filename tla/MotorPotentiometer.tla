------------------------- MODULE MotorPotentiometer -------------------------
(***************************************************************************)
(* The potentiometer, app_m4/src/motor_potentiometer.c: a reading of the   *)
(* ADC, an IIR filter in integer arithmetic, the conversion to a duty and  *)
(* a dead band.  The constants are small enough to be checked as they are. *)
(***************************************************************************)
EXTENDS MotorDuty

CONSTANTS
  AdcMax,     \* POTENTIOMETER_ADC_MAX
  Divisor,    \* POTENTIOMETER_FILTER_DIVISOR
  DeadBand,   \* POTENTIOMETER_DEADBAND_PERMILLE
  Readings    \* what the ADC may answer

ASSUME PotentiometerAssumption ==
  /\ AdcMax \in Nat \ {0}
  /\ Divisor \in Nat \ {0}
  /\ DeadBand \in Nat \ {0}
  /\ DutyMin \in Nat /\ DutyMax \in Nat /\ DutyMin < DutyMax
  /\ DutyMax - DutyMin <= AdcMax
  /\ Readings \subseteq Nat

VARIABLES
  wiper,      \* what the ADC would read now
  ready,      \* potentiometer_filter_ready
  raw,        \* potentiometer_raw
  filtered,   \* potentiometer_filtered_raw
  duty        \* potentiometer_duty

potentiometerVars == <<wiper, ready, raw, filtered, duty>>

PotentiometerInit ==
  /\ wiper \in Readings
  /\ ready = FALSE
  /\ raw = 0
  /\ filtered = 0
  /\ duty = DutyMin

\* Division of C: towards zero.
Quotient(a, b) == IF a < 0 THEN -((-a) \div b) ELSE a \div b

Distance(a, b) == IF a > b THEN a - b ELSE b - a

raw_to_duty(r) == DutyMin + (r * (DutyMax - DutyMin)) \div AdcMax

\* Mutant of Filter: the distance is multiplied instead of divided.
FilterMultiplied(s) == IF ready THEN filtered + (s - filtered) * Divisor ELSE s

\* The first reading after the boot is taken as it is.
Filter(s) == IF ready THEN filtered + Quotient(s - filtered, Divisor) ELSE s

\* Mutant of Follow: a setpoint below the present one is not followed.
FollowUpwards(d) == IF d - duty >= DeadBand THEN d ELSE duty

Follow(d) == IF Distance(d, duty) >= DeadBand THEN d ELSE duty

Turn(position) ==
  /\ wiper' = position
  /\ UNCHANGED <<ready, raw, filtered, duty>>

\* A reading beyond the scale counts as its end.
Clamped(r) == IF r > AdcMax THEN AdcMax ELSE r

\* A successful app_motor_potentiometer_poll; one that fails changes nothing.
PollPotentiometer ==
  LET sample == Clamped(wiper)
  IN  /\ raw' = sample
      /\ filtered' = Filter(sample)
      /\ ready' = TRUE
      /\ duty' = Follow(raw_to_duty(filtered'))
      /\ UNCHANGED wiper

Turning == \E position \in Readings : Turn(position)

-----------------------------------------------------------------------------
(***************************************************************************)
(* The filter never overshoots: it moves towards the reading and does not  *)
(* pass it, so a reading within the scale keeps the uint16_t conversion of *)
(* the filtered value exact.                                               *)
(***************************************************************************)
FilterApproaches ==
  [][filtered' \in filtered .. raw' \/ filtered' \in raw' .. filtered]_filtered

(***************************************************************************)
(* A wiper left at rest, at the ends of its travel too, gives a setpoint   *)
(* within the dead band of its position: the truncated filter stalls short *)
(* of it by less than Divisor, which costs at most one step of duty.       *)
(***************************************************************************)
WiperIsFollowed ==
  \A s \in Readings :
    <>[](wiper = s)
      => <>[](Distance(duty, raw_to_duty(Clamped(s))) <= DeadBand)
=============================================================================
