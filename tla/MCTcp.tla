-------------------------------- MODULE MCTcp --------------------------------
(* One connection; sequence numbers wrap around within the first bytes.        *)
EXTENDS Tcp
=============================================================================
