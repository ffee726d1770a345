--------------------------- MODULE MCDeviceSelect ---------------------------
(* Model of DeviceSelect for TLC.                                          *)
EXTENDS DeviceSelect
=============================================================================
