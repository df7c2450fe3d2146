-------------------------- MODULE MCDeviceDownlink --------------------------
(* Small instances of DeviceDownlink. *)
EXTENDS DeviceDownlink, TLC

CONSTANTS p1, p2, u1, u2, s1, s2, a1, a2, f1
=============================================================================
