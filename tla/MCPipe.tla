-------------------------------- MODULE MCPipe --------------------------------
(* One slot, used again and again, of three bytes; reads and writes of up to 4.            *)
EXTENDS Pipe
=============================================================================
