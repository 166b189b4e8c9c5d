------------------------------ MODULE MCRunQueue ------------------------------
(* Three processes; one of them may be reniced so that virtual times differ.   *)
EXTENDS RunQueue
=============================================================================
