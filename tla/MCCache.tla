------------------------------ MODULE MCCache ------------------------------
(* Model-checking instance of Cache.                                        *)
EXTENDS Cache
=============================================================================
