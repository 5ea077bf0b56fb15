---------------------------- MODULE MCSwitchPath ----------------------------
(* Instances of the switch path for TLC. *)
EXTENDS SwitchPath, TLC

=============================================================================
