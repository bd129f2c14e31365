-------------------------- MODULE MCLockFreeQueue --------------------------
(* Small instances of LockFreeQueue for TLC *)
EXTENDS LockFreeQueue

CONSTANTS p1, p2, f1, f2
=============================================================================
