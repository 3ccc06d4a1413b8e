-------------------------------- MODULE MCFCP --------------------------------
(* Model-checking instance of FCP.                                          *)
EXTENDS FCP
=============================================================================
