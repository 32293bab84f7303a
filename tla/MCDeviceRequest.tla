-------------------------- MODULE MCDeviceRequest ---------------------------
(***************************************************************************)
(* A small instance of DeviceRequest for TLC.                              *)
(***************************************************************************)
EXTENDS DeviceRequest, TLC

CONSTANTS t1, t2, r1, c1            \* model values

MCTarget == r1 :> c1
=============================================================================
