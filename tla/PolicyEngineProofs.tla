------------------------- MODULE PolicyEngineProofs ------------------------
(***************************************************************************)
(* Proofs about PolicyEngine: what holds of the decision for every set of  *)
(* rules, bundle and request.  The bundle in force is one that parsed, and *)
(* the rest follows from when rules fire.                                  *)
(***************************************************************************)
EXTENDS CanonicalForm, LeastElement, TLAPS

(* The bundle in force has passed the parser, whatever was written since.   *)
THEOREM TypeCorrect == Spec => []TypeOK
<1>1. Init => TypeOK
  BY PolicyEngineAssumption DEF Init, TypeOK, Parses
<1>2. TypeOK /\ [Next]_vars => TypeOK'
  <2> SUFFICES ASSUME TypeOK, [Next]_vars PROVE TypeOK'
    OBVIOUS
  <2>1. ASSUME NEW r \in RuleData, Write(r) PROVE TypeOK'
    <3>1. document' \in Seq(RuleData) /\ Len(document') <= MaxRules
      BY <2>1, PolicyEngineAssumption DEF TypeOK, Write
    <3>2. bundle' \in Seq(RuleData) /\ Parses(bundle)'
      BY <2>1 DEF TypeOK, Write, Parses, Scoped, RoleGiven
    <3> QED BY <3>1, <3>2 DEF TypeOK
  <2>2. CASE Load
    BY <2>2 DEF TypeOK, Load, Parses, Scoped, RoleGiven
  <2>3. CASE UNCHANGED vars
    BY <2>3 DEF TypeOK, vars, Parses, Scoped, RoleGiven
  <2> QED BY <2>1, <2>2, <2>3 DEF Next
<1> QED BY <1>1, <1>2, PTL DEF Spec

-----------------------------------------------------------------------------
(* When rules fire *)

LEMMA RuleType ==
    ASSUME NEW rules \in Seq(RuleData), NEW i \in DOMAIN rules
    PROVE  /\ rules[i] \in RuleData
           /\ rules[i].effect \in Effects
           /\ \A c \in rules[i].conditions : c.op \in Ops
  BY PolicyEngineAssumption

(* What a condition knows without f, it knows with it, and says the same.   *)
LEMMA ConditionWithout ==
    ASSUME NEW q \in Requests, NEW f \in Fields, NEW c
    PROVE  /\ Known(c, Without(q, f).args) => Known(c, q.args)
           /\ False(c, Without(q, f).args) => False(c, q.args)
           /\ Known(c, Without(q, f).args) =>
                (False(c, q.args) <=> False(c, Without(q, f).args))
<1>1. q.args \in [Fields -> Values \cup {Absent}]
  BY DEF Requests
<1>2. Without(q, f).args = [q.args EXCEPT ![f] = Absent]
  BY DEF Without
<1>3. CASE Lookup(c.field, Without(q, f).args) = Absent
  BY <1>3 DEF Known, False
<1>4. CASE Lookup(c.field, Without(q, f).args) # Absent
  <2>1. Lookup(c.field, Without(q, f).args) = Lookup(c.field, q.args)
    BY <1>1, <1>2, <1>4 DEF Lookup
  <2> QED BY <2>1 DEF Known, False
<1> QED BY <1>3, <1>4

(* A restrictive rule that fires still fires without f; a permissive one    *)
(* that fires without f fires with it.                                      *)
LEMMA FiresWithout ==
    ASSUME NEW rules \in Seq(RuleData), NEW i \in DOMAIN rules,
           NEW q \in Requests, NEW f \in Fields
    PROVE  /\ rules[i].effect \notin Permissive =>
                (Fires(rules[i], q) => Fires(rules[i], Without(q, f)))
           /\ rules[i].effect \in Permissive =>
                (Fires(rules[i], Without(q, f)) => Fires(rules[i], q))
<1>1. Without(q, f).target = q.target
  BY DEF Without
<1>2. \A c \in rules[i].conditions :
        /\ Known(c, Without(q, f).args) => Known(c, q.args)
        /\ False(c, Without(q, f).args) => False(c, q.args)
        /\ Known(c, Without(q, f).args) =>
             (False(c, q.args) <=> False(c, Without(q, f).args))
  BY RuleType, ConditionWithout
<1> QED BY <1>1, <1>2 DEF Fires

LEMMA MatchedWithout ==
    ASSUME NEW rules \in Seq(RuleData), NEW q \in Requests, NEW f \in Fields,
           NEW e \in Effects
    PROVE  /\ e \notin Permissive =>
                Matched(rules, q, e) \subseteq Matched(rules, Without(q, f), e)
           /\ e \in Permissive =>
                Matched(rules, Without(q, f), e) \subseteq Matched(rules, q, e)
  BY FiresWithout DEF Matched

(* What is denied or frozen is so too when an argument is left out: the     *)
(* restrictive rules that fired still do, and no permissive one joins them. *)
THEOREM RefusalsSurviveHolds == Spec => []RefusalsSurvive
<1>1. TypeOK => RefusalsSurvive
  <2> SUFFICES ASSUME TypeOK, NEW q \in Requests, NEW f \in Fields,
                      Decide(bundle, q) \in {"deny", "freeze"}
               PROVE  Decide(bundle, Without(q, f)) \in {"deny", "freeze"}
    BY DEF RefusalsSurvive
  <2>1. bundle \in Seq(RuleData)
    BY DEF TypeOK
  <2>2. /\ Matched(bundle, q, "deny") \subseteq Matched(bundle, Without(q, f), "deny")
        /\ Matched(bundle, q, "freeze") \subseteq Matched(bundle, Without(q, f), "freeze")
        /\ Matched(bundle, Without(q, f), "require_approval")
             \subseteq Matched(bundle, q, "require_approval")
        /\ Matched(bundle, Without(q, f), "allow") \subseteq Matched(bundle, q, "allow")
    BY <2>1, MatchedWithout DEF Effects, Permissive
  <2> QED BY <2>2 DEF Decide
<1> QED BY <1>1, TypeCorrect, PTL

-----------------------------------------------------------------------------
(* Without one rule *)

LEMMA DropType ==
    ASSUME NEW rules \in Seq(RuleData), NEW i \in DOMAIN rules
    PROVE  /\ DOMAIN rules = 1..Len(rules) /\ Len(rules) \in Nat
           /\ DOMAIN Drop(rules, i) = 1..(Len(rules) - 1)
           /\ \A j \in 1..(Len(rules) - 1) :
                Drop(rules, i)[j] = IF j < i THEN rules[j] ELSE rules[j + 1]
  BY DEF Drop

(* The rules that are left match as before ...                              *)
LEMMA DropMatches ==
    ASSUME NEW rules \in Seq(RuleData), NEW i \in DOMAIN rules,
           NEW q, NEW e, Matched(Drop(rules, i), q, e) # {}
    PROVE  Matched(rules, q, e) # {}
<1>1. PICK j \in 1..(Len(rules) - 1) :
        Drop(rules, i)[j].effect = e /\ Fires(Drop(rules, i)[j], q)
  BY DropType DEF Matched
<1>2. CASE j < i
  BY <1>1, <1>2, DropType DEF Matched
<1>3. CASE ~(j < i)
  <2>1. j + 1 \in DOMAIN rules /\ Drop(rules, i)[j] = rules[j + 1]
    BY <1>1, <1>3, DropType
  <2> QED BY <1>1, <2>1 DEF Matched
<1> QED BY <1>2, <1>3

(* ... and there is none but i that is missing.                             *)
LEMMA DropKeeps ==
    ASSUME NEW rules \in Seq(RuleData), NEW i \in DOMAIN rules,
           NEW q, NEW e, rules[i].effect # e, Matched(rules, q, e) # {}
    PROVE  Matched(Drop(rules, i), q, e) # {}
<1>1. PICK j \in DOMAIN rules : rules[j].effect = e /\ Fires(rules[j], q)
  BY DEF Matched
<1>2. j # i
  BY <1>1
<1>3. CASE j < i
  <2>1. j \in 1..(Len(rules) - 1) /\ Drop(rules, i)[j] = rules[j]
    BY <1>3, DropType
  <2> QED BY <1>1, <2>1, DropType DEF Matched
<1>4. CASE j > i
  <2>1. j - 1 \in 1..(Len(rules) - 1) /\ Drop(rules, i)[j - 1] = rules[j]
    BY <1>4, DropType
  <2> QED BY <1>1, <2>1, DropType DEF Matched
<1> QED BY <1>2, <1>3, <1>4, DropType

(* Taking a deny or freeze rule away makes no decision stricter.            *)
THEOREM RestrictionsNeverLoosenHolds == Spec => []RestrictionsNeverLoosen
<1>1. TypeOK => RestrictionsNeverLoosen
  <2> SUFFICES ASSUME TypeOK, NEW i \in DOMAIN bundle,
                      bundle[i].effect \notin Permissive, NEW q \in Requests
               PROVE  Rank[Decide(bundle, q)] >= Rank[Decide(Drop(bundle, i), q)]
    BY DEF RestrictionsNeverLoosen
  <2> DEFINE D == Drop(bundle, i)
  <2>1. bundle \in Seq(RuleData)
    BY DEF TypeOK
  <2>2. \A e \in Effects : Matched(D, q, e) # {} => Matched(bundle, q, e) # {}
    BY <2>1, DropMatches
  <2>3. \A e \in Permissive : Matched(bundle, q, e) # {} => Matched(D, q, e) # {}
    BY <2>1, DropKeeps
  <2> HIDE DEF D
  <2>4. /\ Rank["freeze"] = 3 /\ Rank["deny"] = 2
        /\ Rank["require_approval"] = 1 /\ Rank["allow"] = 0
    BY DEF Rank
  <2>5. /\ Matched(D, q, "freeze") # {} => Matched(bundle, q, "freeze") # {}
        /\ Matched(D, q, "deny") # {} => Matched(bundle, q, "deny") # {}
        /\ Matched(D, q, "require_approval") # {} <=>
             Matched(bundle, q, "require_approval") # {}
        /\ Matched(D, q, "allow") # {} <=> Matched(bundle, q, "allow") # {}
    BY <2>2, <2>3 DEF Effects, Permissive
  <2> QED BY <2>4, <2>5 DEF Decide, D
<1> QED BY <1>1, TypeCorrect, PTL

-----------------------------------------------------------------------------
(* A request without arguments is granted by rules that ask of the agent's  *)
(* flag at most, on targets they name: nothing else is known of it.         *)
THEOREM AllowedByNameHolds == Spec => []AllowedByName
<1>1. TypeOK => AllowedByName
  <2> SUFFICES ASSUME TypeOK, NEW q \in Requests,
                      \A f \in Fields : q.args[f] = Absent,
                      Decide(bundle, q) \in Permissive
               PROVE  \E i \in DOMAIN bundle :
                        /\ bundle[i].effect \in Permissive
                        /\ \A c \in bundle[i].conditions : c.field = Revoked
                        /\ q.target \in bundle[i].scope
                        /\ bundle[i].scope # Targets
    BY DEF AllowedByName
  <2>1. bundle \in Seq(RuleData) /\ Parses(bundle)
    BY DEF TypeOK
  <2>2. PICK e \in Permissive : Matched(bundle, q, e) # {}
    BY DEF Decide, Permissive
  <2>3. PICK i \in DOMAIN bundle : bundle[i].effect = e /\ Fires(bundle[i], q)
    BY <2>2 DEF Matched
  <2>4. ASSUME NEW c \in bundle[i].conditions
        PROVE  c.field = Revoked
    <3>1. Lookup(c.field, q.args) # Absent
      BY <2>2, <2>3 DEF Fires, Known
    <3> QED BY <3>1 DEF Lookup
  <2>5. bundle[i].scope # Targets
    BY <2>1, <2>2, <2>3 DEF Parses, Scoped
  <2> QED BY <2>2, <2>3, <2>4, <2>5 DEF Fires
<1> QED BY <1>1, TypeCorrect, PTL
-----------------------------------------------------------------------------
(* The first rule that asks                                                 *)

(* Whoever is to approve is named: the first rule that asks exists, and the *)
(* parser gave it a role.                                                   *)
THEOREM ApprovalsHaveARoleHolds == Spec => []ApprovalsHaveARole
<1>1. TypeOK => ApprovalsHaveARole
  <2> SUFFICES ASSUME TypeOK, NEW q \in Requests,
                      Decide(bundle, q) = "require_approval"
               PROVE  ApproverRole(bundle, q) # None
    BY DEF ApprovalsHaveARole
  <2> DEFINE asking == Matched(bundle, q, "require_approval")
             first == CHOOSE i \in asking : \A j \in asking : i <= j
  <2>1. bundle \in Seq(RuleData) /\ Parses(bundle)
    BY DEF TypeOK
  <2>2. asking \in SUBSET Nat /\ asking # {}
    BY <2>1 DEF Matched, Decide
  <2>3. first \in asking
    BY <2>2, Least
  <2>4. first \in DOMAIN bundle /\ bundle[first].effect = "require_approval"
    BY <2>3 DEF Matched
  <2>5. bundle[first].role # None
    BY <2>1, <2>4 DEF Parses, RoleGiven
  <2> QED BY <2>5 DEF ApproverRole
<1> QED BY <1>1, TypeCorrect, PTL

-----------------------------------------------------------------------------
(* The canonical form                                                       *)

(* No test of the engine tells a value from its canonical form.             *)
LEMMA NormalizeKeepsTests ==
    ASSUME NEW v \in Values, NEW c, c.op \in Ops
    PROVE  /\ Normalize(v) # Absent
           /\ Resolvable(c.op, Normalize(v)) <=> Resolvable(c.op, v)
           /\ Resolvable(c.op, v) => (Test(c, Normalize(v)) <=> Test(c, v))
<1> DEFINE n == Normalize(v)
<1>1. v \in Value /\ n \in Value /\ Absent \notin Value
  BY PolicyEngineAssumption DEF Value, Types, Number, Normalize
<1>2. /\ n.of = v.of
      /\ n.type \in Number <=> v.type \in Number
      /\ v.type \notin Number => n = v
  BY <1>1 DEF Value, Number, Normalize
<1>3. Resolvable(c.op, n) <=> Resolvable(c.op, v)
  BY <1>2 DEF Resolvable, Number
<1>4. \A w : ScalarEq(n, w) <=> ScalarEq(v, w)
  BY <1>2 DEF ScalarEq
<1>5. Test(c, n) <=> Test(c, v)
  <2>1. Equals(c, n) <=> Equals(c, v)
    BY <1>4 DEF Equals
  <2>2. EndsWith(c, n) <=> EndsWith(c, v)
    BY <1>2 DEF EndsWith
  <2>3. \A w : Compares(c.op, n, w) <=> Compares(c.op, v, w)
    BY <1>2 DEF Compares
  <2> QED BY <2>1, <2>2, <2>3 DEF Test
<1> QED BY <1>1, <1>3, <1>5

(* What the engine sees of q once its arguments are canonical.              *)
Canonical(q) == [target |-> q.target, args |-> Canonicalize(q.args)]

LEMMA FiresCanonical ==
    ASSUME NEW rules \in Seq(RuleData), NEW i \in DOMAIN rules, NEW q \in Requests
    PROVE  Fires(rules[i], Canonical(q)) <=> Fires(rules[i], q)
<1>1. q.args \in [Fields -> Values \cup {Absent}] /\ Absent \notin Values
  BY PolicyEngineAssumption DEF Requests
<1>2. /\ Canonical(q).target = q.target
      /\ Canonical(q).args = Canonicalize(q.args)
  BY DEF Canonical
<1>3. ASSUME NEW c \in rules[i].conditions
      PROVE  /\ Known(c, Canonical(q).args) <=> Known(c, q.args)
             /\ False(c, Canonical(q).args) <=> False(c, q.args)
  <2>1. c.op \in Ops
    BY RuleType
  <2>2. CASE c.field \in Fields /\ c.field # Revoked /\ q.args[c.field] # Absent
    <3>1. /\ q.args[c.field] \in Values
          /\ Lookup(c.field, q.args) = q.args[c.field]
          /\ Lookup(c.field, Canonical(q).args) = Normalize(q.args[c.field])
      BY <1>1, <1>2, <2>2 DEF Canonicalize, Lookup
    <3> QED BY <2>1, <2>2, <3>1, NormalizeKeepsTests DEF Known, False
  <2>3. CASE ~(c.field \in Fields /\ c.field # Revoked /\ q.args[c.field] # Absent)
    <3>1. Lookup(c.field, Canonical(q).args) = Lookup(c.field, q.args)
      BY <1>2, <2>3 DEF Canonicalize, Lookup
    <3> QED BY <3>1 DEF Known, False
  <2> QED BY <2>2, <2>3
<1> QED BY <1>2, <1>3 DEF Fires

LEMMA DecidedAsCanonical ==
    ASSUME NEW rules \in Seq(RuleData), NEW q \in Requests
    PROVE  /\ Decide(rules, q) = Decide(rules, Canonical(q))
           /\ ApproverRole(rules, q) = ApproverRole(rules, Canonical(q))
<1>1. \A e : Matched(rules, Canonical(q), e) = Matched(rules, q, e)
  BY FiresCanonical DEF Matched
<1>2. Decide(rules, q) = Decide(rules, Canonical(q))
  BY <1>1, Zenon DEF Decide
<1>3. ApproverRole(rules, q) = ApproverRole(rules, Canonical(q))
  <2> DEFINE first(S) == CHOOSE i \in S : \A j \in S : i <= j
  <2>1. \A r : ApproverRole(rules, r) = rules[first(Matched(rules, r, "require_approval"))].role
    BY DEF ApproverRole
  <2> HIDE DEF first
  <2> QED BY <1>1, <2>1
<1> QED BY <1>2, <1>3

(* What one agent asks for under one hash is one request to the policy: the *)
(* two have the same target and the same canonical arguments, and no rule   *)
(* tells arguments from their canonical form.                               *)
THEOREM SameHashSameDecisionHolds == Spec => []SameHashSameDecision
<1>1. TypeOK => SameHashSameDecision
  <2> SUFFICES ASSUME TypeOK, NEW q \in Requests, NEW r \in Requests,
                      SameBinding(q, r)
               PROVE  /\ Decide(bundle, q) = Decide(bundle, r)
                      /\ ApproverRole(bundle, q) = ApproverRole(bundle, r)
    BY DEF SameHashSameDecision, Retries
  <2>1. bundle \in Seq(RuleData)
    BY DEF TypeOK
  <2>2. q.target \in Targets /\ r.target \in Targets
    BY DEF Requests
  <2>3. q.target = r.target
    BY <2>2 DEF SameBinding, Hash, Targets
  <2>4. Canonical(q) = Canonical(r)
    BY <2>3 DEF SameBinding, Hash, Canonical
  <2> QED BY <2>1, <2>4, DecidedAsCanonical
<1> QED BY <1>1, TypeCorrect, PTL
=============================================================================
