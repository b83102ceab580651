------------------------------- MODULE MCConn -------------------------------
(* The connection life cycle for TLC.                                       *)
EXTENDS AtmConn
=============================================================================
