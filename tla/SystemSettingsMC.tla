-------------------------- MODULE SystemSettingsMC --------------------------
(* SystemSettings on two files. *)
EXTENDS SystemSettings

Objects2 == 1 .. 2
Objects3 == 1 .. 3
Calls2   == 1 .. 2
=============================================================================
