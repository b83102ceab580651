------------------------------- MODULE MCPipe -------------------------------
(* The notify pipe for TLC: two workers and the loop, each notifying twice, *)
(* over a kernel pipe of one byte, so that write() often meets a full pipe. *)
EXTENDS AtmPipe
=============================================================================
