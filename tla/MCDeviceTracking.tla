--------------------------- MODULE MCDeviceTracking ---------------------------
(* A small instance of DeviceTracking for TLC.                                *)
EXTENDS DeviceTracking

CONSTANTS request1, request2, request3

=============================================================================
