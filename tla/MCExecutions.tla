--------------------------- MODULE MCExecutions ----------------------------
(* Instances of Executions for TLC. *)
EXTENDS ExecutionsRefinement, TLC

Symmetry == Permutations(Procs) \cup Permutations(Ids) \cup Permutations(Keys)
                \cup Permutations(Hashes)
=============================================================================
