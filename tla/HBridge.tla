------------------------------ MODULE HBridge ------------------------------
(***************************************************************************)
(* What the motor driver promises about the power stage, whatever commands *)
(* it is given and whichever of its outputs refuse a write: the bridge is  *)
(* either released, or holds one polarity; it is energised only from the   *)
(* released state; it never passes from one polarity to the other without  *)
(* having been released; and once tripped it can only be de-energised.     *)
(***************************************************************************)
EXTENDS Integers

CONSTANT MaxPower

VARIABLES
  polarity,   \* the direction the two lines select, or "off"
  power,      \* the PWM pulse
  tripped     \* a fault is recorded

vars == <<polarity, power, tripped>>

Polarities == {"off", "FORWARD", "REVERSE"}

TypeOK ==
  /\ polarity \in Polarities
  /\ power \in 0 .. MaxPower
  /\ tripped \in BOOLEAN

Init ==
  /\ polarity = "off"
  /\ power = 0
  /\ tripped = FALSE

Engage ==
  /\ ~tripped
  /\ polarity = "off"
  /\ power = 0
  /\ polarity' \in Polarities \ {"off"}
  /\ power' \in 1 .. MaxPower
  /\ UNCHANGED tripped

Modulate ==
  /\ ~tripped
  /\ polarity # "off"
  /\ power' \in 1 .. MaxPower
  /\ UNCHANGED <<polarity, tripped>>

Release ==
  /\ polarity' = "off"
  /\ power' = 0
  /\ tripped' = FALSE

\* A write was refused.  Each output keeps its value or is cleared; if the
\* bridge was off, the lines may be left selecting a direction, without power.
Trip ==
  /\ tripped' = TRUE
  /\ power' \in {0, power}
  /\ \/ polarity' \in {polarity, "off"}
     \/ /\ polarity = "off"
        /\ power = 0
        /\ polarity' \in Polarities

Next == Engage \/ Modulate \/ Release \/ Trip

Spec == Init /\ [][Next]_vars

(***************************************************************************)
(* A reversal of polarity passes through the released bridge.              *)
(***************************************************************************)
NoReversal ==
  [][polarity # polarity' => "off" \in {polarity, polarity'}]_vars
=============================================================================
