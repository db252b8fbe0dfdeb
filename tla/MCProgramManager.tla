-------------------------- MODULE MCProgramManager --------------------------
(* Instances of ProgramManager for TLC.                                    *)
EXTENDS ProgramManager, TLC

Symmetry == Permutations(Threads) \union Permutations(Addresses)
=============================================================================
