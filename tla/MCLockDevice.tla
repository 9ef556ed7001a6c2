---------------------------- MODULE MCLockDevice ----------------------------
(* The lock device with the times of the last two attempts. *)
EXTENDS LockDevice

McLockTime == <<2, 1>>
=============================================================================
