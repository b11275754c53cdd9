---------------------------- MODULE MCConfigSave ----------------------------
(***************************************************************************)
(* ConfigSave with two callers that are alike: the Modbus server and a     *)
(* Web, or an EtherNet/IP output mapped to REG8.                           *)
(***************************************************************************)
EXTENDS ConfigSave, TLC

CallerSymmetry == Permutations(Clients)
=============================================================================
