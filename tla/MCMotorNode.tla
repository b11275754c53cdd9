---------------------------- MODULE MCMotorNode ----------------------------
(***************************************************************************)
(* MotorNode with the commands the M7's callers can send, cut down to one  *)
(* duty, one pair of ramps and one timeout.                                *)
(***************************************************************************)
EXTENDS MotorNode

Command(mode, control) ==
  [mode |-> mode, control |-> control, duty |-> DutyMax,
   accel |-> RunRamp + 1, decel |-> StopRamp + 1, timeout |-> 2]

RemoteCommands == {Command("remote", control) : control \in SUBSET ControlBits}
LocalCommands ==
  {Command("local", control) : control \in {{}, {"RESET"}}}

MCCommands == RemoteCommands \cup LocalCommands
MCRefusals == {{}, {"in1"}}
MCLoopTimes == {1, 2}
=============================================================================
