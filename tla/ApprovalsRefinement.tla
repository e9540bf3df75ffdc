------------------------ MODULE ApprovalsRefinement ------------------------
(***************************************************************************)
(* Approvals implements ApprovalLifecycle.  A call takes effect when its   *)
(* transaction commits, or, where the response leaves first, with the      *)
(* response: the locks it still holds keep others off what it wrote.       *)
(***************************************************************************)
EXTENDS Approvals

Answered(i) == owner[i] # None /\ pc[owner[i]] = "replied"

Visible(i) ==
    LET r == IF Answered(i) THEN dirty[i] ELSE rows[i]
    IN  [state |-> r.state, binding |-> r.binding, version |-> r.version,
         requester |-> r.requester, decidedBy |-> r.decidedBy]

Lifecycle == INSTANCE ApprovalLifecycle
    WITH approval <- [i \in Ids |-> Visible(i)], granted <- grants

(* Every behaviour of the transactions is one of the lifecycle's, whatever  *)
(* statements of other calls run in between (when no answered transaction   *)
(* is lost).                                                                *)
ImplementsLifecycle == Lifecycle!Spec
=============================================================================
