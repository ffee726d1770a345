--------------------------- MODULE MCDeviceQueue ---------------------------
(* Model of DeviceQueue for TLC.                                           *)
EXTENDS DeviceQueue
=============================================================================
