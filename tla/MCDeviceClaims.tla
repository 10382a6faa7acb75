---- MODULE MCDeviceClaims ----
(* Instances of DeviceClaims for TLC. *)
EXTENDS DeviceClaims
====
