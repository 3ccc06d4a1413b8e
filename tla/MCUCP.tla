-------------------------------- MODULE MCUCP --------------------------------
(* Model-checking instance of UCP.                                          *)
EXTENDS UCP
=============================================================================
