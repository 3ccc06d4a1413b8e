------------------------- MODULE MCCachePartitioning -------------------------
(* Model-checking instance of CachePartitioning.                          *)
EXTENDS CachePartitioning
=============================================================================
