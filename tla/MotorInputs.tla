----------------------------- MODULE MotorInputs -----------------------------
(***************************************************************************)
(* The two inputs of the Cortex-M4's main loop (app_m4/src/main.c): each   *)
(* iteration polls the buttons, then the potentiometer, whose reading may  *)
(* fail.  The wiper turns between two iterations.                          *)
(***************************************************************************)
EXTENDS MotorButtons, MotorPotentiometer

vars == <<buttonVars, potentiometerVars>>

Init == ButtonsInit /\ PotentiometerInit

\* An iteration whose ADC reading succeeds.
Loop == ButtonsNext /\ PollPotentiometer

\* One whose ADC reading fails.
LoopWithoutReading == ButtonsNext /\ UNCHANGED potentiometerVars

Next ==
  \/ Loop
  \/ LoopWithoutReading
  \/ Turning /\ UNCHANGED buttonVars

Spec == Init /\ [][Next]_vars

\* The loop runs, and its readings do not fail for ever.
FairSpec == Spec /\ WF_vars(Loop)
=============================================================================
