------------------------------ MODULE MCQueue -------------------------------
(* Four pushes: a list of two or more entries, the last entry taken under  *)
(* a push, and another push that meets what that left behind.              *)
EXTENDS AtmQueue
=============================================================================
