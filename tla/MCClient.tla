------------------------------ MODULE MCClient ------------------------------
(* Two pages of one room: the host's, and one whose player gives inputs.     *)
EXTENDS Client
=============================================================================
