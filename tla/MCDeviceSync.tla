---------------------------- MODULE MCDeviceSync ----------------------------
(***************************************************************************)
(* DeviceSync for TLC: a device and two rooms.                             *)
(***************************************************************************)
EXTENDS DeviceSync
=============================================================================
