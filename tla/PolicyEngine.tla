---------------------------- MODULE PolicyEngine ---------------------------
(***************************************************************************)
(* Rules and what they decide: the parser of schema.py and evaluate of     *)
(* engine.py.  A document grows rule by rule as its author writes it; the  *)
(* bundle in force is the last one that parsed.  The properties speak of   *)
(* every request that could be put to it.                                  *)
(*                                                                         *)
(* A target is an action, a tool in an environment, and the agent that asks*)
(* for it; a rule's match is the set of targets it admits.  A value keeps  *)
(* its JSON type and, within the type, a number; a string's suffixes are   *)
(* given by Suffixes.  Numbers are counted in halves, so that a float may  *)
(* have a fraction.                                                        *)
(* Definitions named Mut... are faulty variants, as in Approvals.          *)
(***************************************************************************)
EXTENDS Naturals, Sequences, FiniteSets

CONSTANTS
    Actions,      \* tools in environments
    Agents,
    Fields,       \* dotted paths under arguments: conditions and requests
    AgentFields,  \* dotted paths under agent: conditions
    Revoked,      \* the one of them that the engine knows of
    Values,       \* what an argument can be
    Suffixes,     \* <<s, t>>: string s ends with string t
    Exact,        \* doubles tell all integers apart up to here (2^53)
    RuleData,     \* rules an author may write
    Absent,       \* the field is not in the request
    None,
    MaxRules      \* bound on the length of a document

Number == {"int", "float"}
Types == Number \cup {"bool", "string", "null", "other"}
Effects == {"allow", "deny", "require_approval", "freeze"}
Permissive == {"allow", "require_approval"}
Ordering == {"gt", "gte", "lt", "lte"}
Ops == {"eq", "neq", "in", "not_in", "ends_with", "not_ends_with"} \cup Ordering

Targets == [action: Actions, agent: Agents]

Value == [type: Types, of: Nat]

(* What evaluate puts under agent.revoked, once the agent is not.           *)
NotRevoked == [type |-> "bool", of |-> 0]

(* float(): the nearest double, ties to even.  Above Exact every second     *)
(* integer is one, as far as twice as high, where the values end.           *)
Float(n) ==
    IF n <= Exact \/ n % 4 = 0 THEN n ELSE IF n % 8 = 2 THEN n - 2 ELSE n + 2

(* What a JSON number can be: an int is whole, and a float a double.        *)
Representable(v) ==
    /\ v.type = "int" => v.of % 2 = 0
    /\ v.type = "float" => Float(v.of) = v.of
    /\ v.type \in Number => v.of <= 2 * Exact

(* A condition compares with one value, or, for in and not_in, with several. *)
Condition == [field: Fields \cup AgentFields, op: Ops, values: (SUBSET Value) \ {{}}]

ASSUME PolicyEngineAssumption ==
    /\ Values \subseteq Value
    /\ \A v \in Values : Representable(v)
    /\ Exact \in Nat /\ Exact % 8 = 0
    /\ Absent \notin Value
    /\ Revoked \in AgentFields /\ AgentFields \cap Fields = {}
    /\ Suffixes \subseteq Nat \X Nat
    /\ MaxRules \in Nat
    /\ \A r \in RuleData :
         /\ r.effect \in Effects
         /\ r.scope \subseteq Targets
         /\ \A c \in r.conditions :
              /\ c.field \in Fields \cup AgentFields /\ c.op \in Ops
              /\ c.values # {} /\ c.values \subseteq Value
              /\ c.op \in Ordering => \A v \in c.values : v.type \in Number
              /\ \A v \in c.values : Representable(v)

VARIABLES
    document,   \* the rules written so far
    bundle      \* the rules in force

vars == <<document, bundle>>

Requests == [target: Targets, args: [Fields -> Values \cup {Absent}]]

-----------------------------------------------------------------------------
(* parse_rules_data, for what the types of RuleData do not already say.     *)

MutScoped(r) == TRUE

(* The unsafe-ambiguity gate: a rule that grants names what it grants on.   *)
Scoped(r) == r.effect \in Permissive => r.scope # Targets

MutRoleGiven(r) == r.role # None => r.effect = "require_approval"

RoleGiven(r) == r.effect = "require_approval" <=> r.role # None

Parses(rules) ==
    /\ \A i \in DOMAIN rules : Scoped(rules[i]) /\ RoleGiven(rules[i])
    /\ \A i, j \in DOMAIN rules : rules[i].id = rules[j].id => i = j

-----------------------------------------------------------------------------
(* _resolve_condition: true and false when provable, unknown when not.      *)

MutScalarEq(v, w) == v.type = w.type /\ v.of = w.of

(* Numbers are equal as doubles; otherwise values of different types are    *)
(* never equal, True and 1 included.                                        *)
ScalarEq(v, w) ==
    \/ v.type \in Number /\ w.type \in Number /\ Float(v.of) = Float(w.of)
    \/ v.type = w.type /\ v.of = w.of

Equals(c, v) == \E w \in c.values : ScalarEq(v, w)

EndsWith(c, v) == \E w \in c.values : <<v.of, w.of>> \in Suffixes

Compares(op, v, w) ==
    \/ op = "gt" /\ v.of > w.of
    \/ op = "gte" /\ v.of >= w.of
    \/ op = "lt" /\ v.of < w.of
    \/ op = "lte" /\ v.of <= w.of

(* The types the operator can decide on.                                    *)
Resolvable(op, v) ==
    /\ op \in Ordering => v.type \in Number
    /\ op \in {"ends_with", "not_ends_with"} => v.type = "string"

Test(c, v) ==
    \/ c.op \in {"eq", "in"} /\ Equals(c, v)
    \/ c.op \in {"neq", "not_in"} /\ ~Equals(c, v)
    \/ c.op = "ends_with" /\ EndsWith(c, v)
    \/ c.op = "not_ends_with" /\ ~EndsWith(c, v)
    \/ c.op \in Ordering /\ \E w \in c.values : Compares(c.op, v, w)

(* Of the agent a condition sees the one flag, and that always.             *)
Lookup(f, args) ==
    IF f = Revoked THEN NotRevoked ELSE IF f \in Fields THEN args[f] ELSE Absent

Known(c, args) ==
    /\ Lookup(c.field, args) # Absent
    /\ Resolvable(c.op, Lookup(c.field, args))

False(c, args) == Known(c, args) /\ ~Test(c, Lookup(c.field, args))

(* _apply_rule: what is unknown makes a restrictive rule fire and keeps a   *)
(* permissive one from firing.                                              *)
MutFires(r, q) ==
    /\ q.target \in r.scope
    /\ \A c \in r.conditions : ~False(c, q.args)

Fires(r, q) ==
    /\ q.target \in r.scope
    /\ \A c \in r.conditions : ~False(c, q.args)
    /\ r.effect \in Permissive => \A c \in r.conditions : Known(c, q.args)

Matched(rules, q, effect) ==
    {i \in DOMAIN rules : rules[i].effect = effect /\ Fires(rules[i], q)}

MutDecide(rules, q) ==
    IF Matched(rules, q, "deny") # {} THEN "deny"
    ELSE IF Matched(rules, q, "freeze") # {} THEN "freeze"
    ELSE IF Matched(rules, q, "require_approval") # {} THEN "require_approval"
    ELSE IF Matched(rules, q, "allow") # {} THEN "allow"
    ELSE "deny"

(* evaluate, for an agent that is not revoked: the first effect class with  *)
(* a match wins; nothing matched is DEFAULT_DENY.                           *)
Decide(rules, q) ==
    IF Matched(rules, q, "freeze") # {} THEN "freeze"
    ELSE IF Matched(rules, q, "deny") # {} THEN "deny"
    ELSE IF Matched(rules, q, "require_approval") # {} THEN "require_approval"
    ELSE IF Matched(rules, q, "allow") # {} THEN "allow"
    ELSE "deny"

(* approver_role: of the first rule, in the bundle's order, that asks.      *)
ApproverRole(rules, q) ==
    LET asking == Matched(rules, q, "require_approval")
    IN  rules[CHOOSE i \in asking : \A j \in asking : i <= j].role

-----------------------------------------------------------------------------
TypeOK ==
    /\ document \in Seq(RuleData) /\ Len(document) <= MaxRules
    /\ bundle \in Seq(RuleData) /\ Parses(bundle)

Init == document = <<>> /\ bundle = <<>>

Write(r) ==
    /\ Len(document) < MaxRules
    /\ document' = Append(document, r)
    /\ UNCHANGED bundle

MutLoad ==
    /\ bundle' = document
    /\ UNCHANGED document

(* A document with an error is refused whole; the bundle in force stays.    *)
Load ==
    /\ Parses(document)
    /\ bundle' = document
    /\ UNCHANGED document

Next == (\E r \in RuleData : Write(r)) \/ Load

Spec == Init /\ [][Next]_vars

-----------------------------------------------------------------------------
(* Properties *)

Rank == [freeze |-> 3, deny |-> 2, require_approval |-> 1, allow |-> 0]

(* q without one of its arguments.                                          *)
Without(q, f) == [target |-> q.target, args |-> [q.args EXCEPT ![f] = Absent]]

(* A refusal survives missing context: what is denied or frozen is so too   *)
(* when an argument is left out, whatever rule decided it.                  *)
RefusalsSurvive ==
    \A q \in Requests, f \in Fields :
        Decide(bundle, q) \in {"deny", "freeze"} =>
            Decide(bundle, Without(q, f)) \in {"deny", "freeze"}

(* Restricting is safe: without a deny or freeze rule of the bundle, no     *)
(* request is decided more strictly.                                        *)
Drop(rules, i) ==
    [j \in 1..(Len(rules) - 1) |-> IF j < i THEN rules[j] ELSE rules[j + 1]]

RestrictionsNeverLoosen ==
    \A i \in DOMAIN bundle : bundle[i].effect \notin Permissive =>
        \A q \in Requests :
            Rank[Decide(bundle, q)] >= Rank[Decide(Drop(bundle, i), q)]

(* A decision that needs a human names the role that may give it (the       *)
(* approval's approver_role may not be null).                               *)
ApprovalsHaveARole ==
    \A q \in Requests :
        Decide(bundle, q) = "require_approval" => ApproverRole(bundle, q) # None

(* Nothing is granted on the strength of what is not known: a request that  *)
(* is granted without arguments is one that some rule of the bundle grants, *)
(* on targets it names, with no condition but on the flag that every agent  *)
(* has.                                                                     *)
AllowedByName ==
    \A q \in Requests :
        /\ \A f \in Fields : q.args[f] = Absent
        /\ Decide(bundle, q) \in Permissive
        => \E i \in DOMAIN bundle :
             /\ bundle[i].effect \in Permissive
             /\ \A c \in bundle[i].conditions : c.field = Revoked
             /\ q.target \in bundle[i].scope
             /\ bundle[i].scope # Targets

(* engine.py: an unknown fails toward too strict, in both directions.  So   *)
(* no request is decided more loosely for leaving an argument out.          *)
UnknownIsStricter ==
    \A q \in Requests, f \in Fields :
        Rank[Decide(bundle, Without(q, f))] >= Rank[Decide(bundle, q)]
=============================================================================
