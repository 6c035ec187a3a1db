--------------------------- MODULE MCIngestionPool ---------------------------
(* Model-checking instance of IngestionPool: three keys on two partitions, *)
(* of which a and c share partition 0.                                     *)
EXTENDS IngestionPool, TLC

CONSTANTS a, b, c

MCHash == (a :> 0) @@ (b :> 1) @@ (c :> 2)
==============================================================================
