------------------------------- MODULE MCPipe -------------------------------
(* Pipe for TLC: the bounds are given in MCPipe.cfg. *)
EXTENDS Pipe
=============================================================================
