---------------------------- MODULE MotorButtons ----------------------------
(***************************************************************************)
(* The debouncing of the four buttons, app_m4/src/motor_buttons.c.  Each   *)
(* poll of the main loop reads every pin; a pin whose read fails is left   *)
(* out of that poll.                                                       *)
(***************************************************************************)
EXTENDS Naturals, Sequences

CONSTANTS
  Buttons,
  Samples     \* BUTTON_DEBOUNCE_SAMPLES

ASSUME ButtonsAssumption == Samples \in Nat \ {0, 1}

VARIABLES
  buttons,    \* the static table of struct app_button
  events,     \* what the last app_motor_buttons_poll returned
  window      \* history: the last Samples successful readings of each pin

buttonVars == <<buttons, events, window>>

PinReadings == {"up", "down", "error"}

\* app_motor_buttons_init.
ButtonsInit ==
  /\ buttons = [b \in Buttons |->
                  [candidate |-> FALSE, stable |-> FALSE, samples |-> 0]]
  /\ events = {}
  /\ window = [b \in Buttons |-> << >>]

\* Mutant of Sampled: a change of the reading keeps the count.
SampledWithoutRestart(button, read) ==
  LET pressed == read = "down"
      count == IF button.samples < Samples THEN button.samples + 1 ELSE Samples
  IN  IF read = "error" THEN button
      ELSE [candidate |-> pressed, samples |-> count,
            stable |-> IF count = Samples THEN pressed ELSE button.stable]

\* One pin's turn in app_motor_buttons_poll.
Sampled(button, read) ==
  LET pressed == read = "down"
      count == IF button.samples < Samples THEN button.samples + 1 ELSE Samples
  IN  CASE read = "error" -> button
        [] read # "error" /\ pressed # button.candidate ->
             [button EXCEPT !.candidate = pressed, !.samples = 1]
        [] OTHER ->
             [button EXCEPT !.samples = count,
                            !.stable = IF count = Samples THEN pressed ELSE @]

Push(w, v) == IF Len(w) = Samples THEN Append(Tail(w), v) ELSE Append(w, v)

\* app_motor_buttons_poll.
PollButtons(read) ==
  /\ buttons' = [b \in Buttons |-> Sampled(buttons[b], read[b])]
  /\ events' = {b \in Buttons : buttons'[b].stable /\ ~buttons[b].stable}
  /\ window' = [b \in Buttons |-> IF read[b] = "error" THEN window[b]
                                  ELSE Push(window[b], read[b] = "down")]

ButtonsNext == \E read \in [Buttons -> PinReadings] : PollButtons(read)

\* app_motor_buttons_get_state: what the state word sends to the M7.
Held == [b \in Buttons |-> buttons[b].stable]

Debounced == INSTANCE Debounce WITH level <- Held, pressed <- events

-----------------------------------------------------------------------------
(***************************************************************************)
(* The counter of motor_buttons.c debounces: with bounces and failed reads *)
(* in any order, the held buttons are those whose last full window of      *)
(* successful readings says so, and each press gives one event.            *)
(***************************************************************************)
ImplementsDebounce == Debounced!Spec
=============================================================================
