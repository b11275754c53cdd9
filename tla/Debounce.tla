------------------------------ MODULE Debounce ------------------------------
(***************************************************************************)
(* What debouncing promises, said without a counter: a button's level is   *)
(* the last one that filled a whole window of successful readings, and a   *)
(* press is announced in the poll in which the level rises, once.          *)
(***************************************************************************)
EXTENDS Naturals, Sequences

CONSTANTS
  Buttons,
  Samples   \* the readings of a window

VARIABLES
  window,   \* of each button, its last Samples successful readings
  level,    \* of each button, TRUE when it is held
  pressed   \* the presses the last poll announced

vars == <<window, level, pressed>>

Init ==
  /\ window = [b \in Buttons |-> << >>]
  /\ level = [b \in Buttons |-> FALSE]
  /\ pressed = {}

Full(w, v) == Len(w) = Samples /\ \A i \in 1 .. Samples : w[i] = v

Push(w, v) == IF Len(w) = Samples THEN Append(Tail(w), v) ELSE Append(w, v)

Next ==
  /\ \E read \in [Buttons -> {"up", "down", "error"}] :
       window' = [b \in Buttons |->
                    IF read[b] = "error" THEN window[b]
                    ELSE Push(window[b], read[b] = "down")]
  /\ level' = [b \in Buttons |-> IF Full(window'[b], TRUE) THEN TRUE
                                 ELSE IF Full(window'[b], FALSE) THEN FALSE
                                 ELSE level[b]]
  /\ pressed' = {b \in Buttons : level'[b] /\ ~level[b]}

Spec == Init /\ [][Next]_vars
=============================================================================
