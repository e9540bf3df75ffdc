--------------------------- MODULE CanonicalForm ---------------------------
(***************************************************************************)
(* The canonical form of a request (canonical.py) beside what the policy   *)
(* decides on it.  An approval is bound to the hash of the canonical form  *)
(* and a session, while the engine sees the agent, and the arguments as    *)
(* they came.                                                              *)
(*                                                                         *)
(* Paths stand for nested dictionaries, so sorting keys has nothing to do  *)
(* here; a hash is its canonical form.                                     *)
(***************************************************************************)
EXTENDS PolicyEngine

(* An integral float is the integer; a bool is no number.                   *)
Normalize(v) ==
    IF v.type = "float" /\ v.of % 2 = 0 THEN [type |-> "int", of |-> v.of] ELSE v

Canonicalize(args) ==
    [f \in Fields |-> IF args[f] = Absent THEN Absent ELSE Normalize(args[f])]

(* What is hashed: the agent is not.                                        *)
Hash(q) == [action |-> q.target.action, args |-> Canonicalize(q.args)]

(* An approval is found by the hash and the session, which is one agent's;  *)
(* so a request may come in the place of another.                           *)
SameBinding(q, r) ==
    Hash(q) = Hash(r) /\ q.target.agent = r.target.agent

Retries ==
    {[request |-> w[1], retry |-> w[2]] :
        w \in {v \in Requests \X Requests : SameBinding(v[1], v[2])}}

(* Requests of one agent with one hash are one request to the policy too:   *)
(* they are decided alike, with the same approver, under every bundle.  So  *)
(* an approval is never given for a request whose retry, with the numbers   *)
(* written another way, would not have needed it, or would be refused.      *)
SameHashSameDecision ==
    \A w \in Retries :
        /\ Decide(bundle, w.request) = Decide(bundle, w.retry)
        /\ Decide(bundle, w.request) = "require_approval" =>
             ApproverRole(bundle, w.request) = ApproverRole(bundle, w.retry)
=============================================================================
