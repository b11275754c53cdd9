------------------------------ MODULE MotorDuty ------------------------------
(***************************************************************************)
(* The range of the motor's duty cycle (app_m4/src/motor_control.h), which *)
(* the motor driver and the potentiometer share.                           *)
(***************************************************************************)
EXTENDS Integers

CONSTANTS
  DutyMin,    \* APP_MOTOR_DUTY_MIN_PERMILLE
  DutyMax     \* APP_MOTOR_DUTY_MAX_PERMILLE
=============================================================================
