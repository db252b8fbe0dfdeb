--------------------------- MODULE MCConfigStore ----------------------------
(* The configuration store on small instances.                             *)
EXTENDS ConfigStore
=============================================================================
