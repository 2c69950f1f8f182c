--------------------------- MODULE MCSIDAllocation ---------------------------
(***************************************************************************)
(* Instances of SIDAllocation.  The small one keeps what makes the real    *)
(* parameters interesting, in 3 bits: A - 1 is divisible by the prime      *)
(* factor of N, C is coprime to N, and A * (N - 1) + C does not fit.  It   *)
(* has as many functions as tenants, so the last one is found only after   *)
(* collisions.                                                             *)
(***************************************************************************)
EXTENDS SIDAllocation

CONSTANTS l1, l2, t1, t2
=============================================================================
