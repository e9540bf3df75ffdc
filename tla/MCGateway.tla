----------------------------- MODULE MCGateway -----------------------------
(* Instances of Gateway for TLC. *)
EXTENDS Gateway, TLC

CONSTANTS keyed, other, bare, bad, anonymous, k1, h1, h2, u1, u2

(* other reuses the key of keyed for different arguments; bare has no key.  *)
HashOf == [r \in Requests |-> IF r = other THEN h2 ELSE h1]
KeyOf == [r \in Requests |-> IF r \in {keyed, other} THEN k1 ELSE None]
FlawOf == [r \in Requests |-> IF r = bad THEN "tool"
                              ELSE IF r = anonymous THEN "token" ELSE "none"]

(* The first policy asks a human about bare only, the second always.        *)
EffectOf ==
    [v \in Versions |-> [r \in Requests |->
        IF v = 1 /\ r # bare THEN "allow" ELSE "require_approval"]]

RoleHolders == [v \in Versions |-> {u1, u2}]

Symmetry == Permutations(Attempts) \cup Permutations(ApprovalIds)
=============================================================================
