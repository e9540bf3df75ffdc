---------------------------- MODULE MCApprovals ----------------------------
(* Instances of Approvals for TLC. *)
EXTENDS ApprovalsRefinement, TLC

CONSTANTS u1, u2

(* Both users hold the role the rule of every version asks for; u1 is the   *)
(* one who requests.                                                        *)
BothHoldTheRole == [v \in Versions |-> {u1, u2}]

Symmetry == Permutations(Procs) \cup Permutations(Ids)
=============================================================================
