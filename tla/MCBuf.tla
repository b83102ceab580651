------------------------------- MODULE MCBuf -------------------------------
(* Buffers of a connection for TLC.                                        *)
EXTENDS AtmBuf
=============================================================================
