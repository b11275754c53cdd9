--------------------------- MODULE MCMotorSystem ---------------------------
(***************************************************************************)
(* MotorSystem with two running commands, one of them with a timeout no    *)
(* longer than the refresh period, a third that the M4 drops for its       *)
(* control word, and a local command.                                      *)
(***************************************************************************)
EXTENDS MotorSystem

Asking(mode, control, duty, timeout) ==
  [mode |-> mode, control |-> control, duty |-> duty, accel |-> duty,
   decel |-> StopRamp, timeout |-> timeout]

Running == {"RUN", "ENABLE"}
MCAtBoot == Asking("local", {}, DutyMin, 3)
MCAsked ==
  {Asking("remote", Running, DutyMax, 3), Asking("remote", Running, DutyMax, 2),
   Asking("remote", Running \cup {Undocumented}, DutyMax, 3),
   Asking("local", {}, DutyMax, 3)}
MCStorable ==
  {Asking(mode, control, duty, timeout) :
     mode \in {"local", "remote"},
     control \in {{}, {"ENABLE", "RESET"}, Running, Running \cup {Undocumented}},
     duty \in {DutyMin, DutyMax}, timeout \in {2, 3}}
MCCommands == {c \in MCStorable : Accepted(c)}
MCRefusals == {{}}
MCLoopTimes == {1}
MCReadings == {DutyMin}
MCPressed == {{}, {"STOP"}}
=============================================================================
