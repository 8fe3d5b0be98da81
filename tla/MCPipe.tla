------------------------------- MODULE MCPipe -------------------------------
(* Pipe for TLC; the bounds are in the .cfg files. *)
EXTENDS Pipe
=============================================================================
