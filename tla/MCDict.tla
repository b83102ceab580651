------------------------------- MODULE MCDict -------------------------------
(* Four keys: k1, k2 and k3 share a bucket in a table of two, k1 and k3 in *)
(* one of four; bucket sizes from ATM_UTIL_POWER_INIT_SIZE up.             *)
EXTENDS AtmDict, TLC

CONSTANTS k1, k2, k3, k4

MCHash == k1 :> 0 @@ k2 :> 2 @@ k3 :> 4 @@ k4 :> 5

MCBucketSizes == {4, 8, 16, 32}
=============================================================================
