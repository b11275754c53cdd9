--------------------------- MODULE MCMotorGateway ---------------------------
(***************************************************************************)
(* MotorGateway with the requests the protocols make.                      *)
(***************************************************************************)
EXTENDS MotorGateway

MCControls == {"stopped", "enabled", "acknowledge"}
MCSetpoints == {"least", "outOfBounds"}
MCValidSetpoints == {"least"}

\* apply_motor_command of app_web.c; the setpoint fields are optional.
Command(c, s) ==
  <<Write("control", c), Write("setpoint", s), Write("mode", "remote"), Apply>>
BareCommand(c) == <<Write("control", c), Write("mode", "remote"), Apply>>

\* apply_motor_local of app_web.c.
ReturnLocal == <<Write("control", "stopped"), Write("mode", "local"), Apply>>

\* The Web and EtherNet/IP threads run the same code on the same registers: one
\* of them stands for both.
MCOutside == {"web"}
MCRequests ==
  [t \in {"wq", "web"} |->
     IF t = "wq" THEN {<<Write("setpoint", "outOfBounds")>>, <<Apply>>}
     ELSE {Command("enabled", "least"), ReturnLocal}]

\* The Web alone.
WebOnly ==
  [t \in {"wq", "web"} |->
     IF t = "web" THEN {Command("enabled", "least"), BareCommand("enabled"),
                        ReturnLocal}
     ELSE {}]
=============================================================================
