---------------------------- MODULE MCCollector -----------------------------
(* Collection from a ring of a few units.                                  *)
EXTENDS Collector
=============================================================================
