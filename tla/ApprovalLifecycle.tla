------------------------- MODULE ApprovalLifecycle -------------------------
(***************************************************************************)
(* What the approval service promises, each call as one atomic step: an    *)
(* approval is a decision about one request, used once.  It is PENDING,    *)
(* one at a time per binding; a human of the rule's role who is not the    *)
(* requester approves or rejects it; an approved one is consumed under the *)
(* policy version it was given under, or voided under another; REJECTED,   *)
(* CONSUMED, VOIDED and EXPIRED are final; and "consumed" is answered at   *)
(* most once per approval, for an approval that is.  Approvals implements  *)
(* this.                                                                   *)
(***************************************************************************)
EXTENDS Naturals, FiniteSets

CONSTANTS Ids, Bindings, Versions, Users, Requesters, Approvers, None

VARIABLES
    approval,  \* the approvals the world can see
    granted    \* answers "consumed" given for each

vars == <<approval, granted>>

Nothing == [state |-> "NONE", binding |-> None, version |-> None,
            requester |-> None, decidedBy |-> None]

Init ==
    /\ approval = [i \in Ids |-> Nothing]
    /\ granted = [i \in Ids |-> 0]

In(b, states) ==
    {i \in Ids : approval[i].binding = b /\ approval[i].state \in states}

Become(S, s) ==
    [i \in Ids |-> IF i \in S THEN [approval[i] EXCEPT !.state = s]
                              ELSE approval[i]]

(* A resolve call uses up what is approved for its binding and version; the *)
(* answer comes with the transition, or later, or is lost.                  *)
Consume(b, v) ==
    \E S \in SUBSET {i \in In(b, {"APPROVED"}) : approval[i].version = v} :
        /\ S # {}
        /\ approval' = Become(S, "CONSUMED")
        /\ \/ UNCHANGED granted
           \/ \E i \in S : granted' = [granted EXCEPT ![i] = @ + 1]

Grant(i) ==
    /\ approval[i].state = "CONSUMED"
    /\ granted[i] = 0
    /\ granted' = [granted EXCEPT ![i] = 1]
    /\ UNCHANGED approval

(* A resolve call with nothing to consume voids what another version's      *)
(* context granted, expires what is over, and may ask a human anew.         *)
Refresh(b, v) ==
    \E V \in SUBSET {i \in In(b, {"APPROVED"}) : approval[i].version # v},
       E \in SUBSET In(b, {"PENDING", "APPROVED"}) :
        LET closed == [i \in Ids |->
                IF i \in V THEN [approval[i] EXCEPT !.state = "VOIDED"]
                ELSE IF i \in E THEN [approval[i] EXCEPT !.state = "EXPIRED"]
                ELSE approval[i]]
        IN  /\ \/ approval' = closed
               \/ /\ In(b, {"PENDING"}) \subseteq E
                  /\ \E i \in Ids, u \in Requesters :
                       /\ approval[i] = Nothing
                       /\ approval' = [closed EXCEPT ![i] =
                              [state |-> "PENDING", binding |-> b, version |-> v,
                               requester |-> u, decidedBy |-> None]]
            /\ UNCHANGED granted

Decide(i, u, to) ==
    /\ approval[i].state = "PENDING"
    /\ u \in Approvers[approval[i].version] \ {approval[i].requester}
    /\ approval' = [approval EXCEPT ![i].state = to, ![i].decidedBy = u]
    /\ UNCHANGED granted

Next ==
    \/ \E b \in Bindings, v \in Versions : Consume(b, v) \/ Refresh(b, v)
    \/ \E i \in Ids : Grant(i)
    \/ \E i \in Ids, u \in Users, to \in {"APPROVED", "REJECTED"} : Decide(i, u, to)

Spec == Init /\ [][Next]_vars
=============================================================================
