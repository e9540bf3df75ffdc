--------------------------- MODULE MCPolicyEngine --------------------------
(* Instances of PolicyEngine for TLC: one action of two agents, two fields, *)
(* and rules of every effect, scoped or not, with no, one or two conditions.*)
EXTENDS CanonicalForm

CONSTANTS pay, clerk, guest, lead

(* one is 2 halves; 10 is the first integer that is no double, its own is 8 *)
Int(n) == [type |-> "int", of |-> n]
Double(n) == [type |-> "float", of |-> n]
String(n) == [type |-> "string", of |-> n]
True == [type |-> "bool", of |-> 1]

SomeFields == {"amount", "to"}
SomeAgentFields == {"agent.revoked", "agent.team"}
SomeValues == {Int(2), Int(4), Int(10), Double(2), Double(5), True, String(1), String(2)}

(* string 1 ends with string 2, and every string with itself *)
EndsIn == {<<1, 2>>, <<1, 1>>, <<2, 2>>}

Over == [field |-> "amount", op |-> "gt", values |-> {Int(2)}]
UpTo == [field |-> "amount", op |-> "lte", values |-> {Int(2)}]
Inside == [field |-> "to", op |-> "ends_with", values |-> {String(2)}]
Outside == [field |-> "to", op |-> "not_ends_with", values |-> {String(2)}]
Listed == [field |-> "to", op |-> "in", values |-> {String(1), Int(2)}]
Other == [field |-> "amount", op |-> "neq", values |-> {Int(8)}]

Trusted == [field |-> "agent.revoked", op |-> "eq", values |-> {NotRevoked}]
Ours == [field |-> "agent.team", op |-> "neq", values |-> {String(1)}]

SomeConditions ==
    {{}, {Over}, {UpTo}, {Inside}, {Outside}, {Listed}, {Other}, {Trusted}, {Ours},
     {Over, Outside}}

Named == {[action |-> pay, agent |-> clerk]}

(* Rules that differ in their scope or role alone share an id.              *)
SomeRules ==
    {[id |-> <<e, cs>>, effect |-> e, scope |-> s, conditions |-> cs, role |-> role] :
        e \in Effects, s \in {Named, Targets}, cs \in SomeConditions,
        role \in {None, lead}}

(* Two rules that are enough to see one decide instead of the other.        *)
AmountRules ==
    {[id |-> <<e, cs>>, effect |-> e, scope |-> Named, conditions |-> cs,
      role |-> IF e = "require_approval" THEN lead ELSE None] :
        e \in {"allow", "require_approval"}, cs \in {{}, {Over}}}
=============================================================================
