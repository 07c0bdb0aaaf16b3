---------------------------- MODULE MCSimulator ----------------------------
(***************************************************************************)
(* Simulator for TLC: a climate-controller with two actuators.             *)
(***************************************************************************)
EXTENDS Simulator
=============================================================================
