------------------------------ MODULE MCLoader ------------------------------
(* The loader on small instances: two programs signed for two functions,   *)
(* one of them only for monitoring.                                        *)
EXTENDS Loader

CONSTANTS p, q

MCCeiling == [x \in {p, q} |-> IF x = p THEN ENFORCE ELSE MONITOR]
MCTarget  == [x \in {p, q} |-> x]
=============================================================================
