------------------------ MODULE ExecutionsRefinement -----------------------
(***************************************************************************)
(* Executions implements ExecutionLedger.  As with approvals, a call takes *)
(* effect when its transaction commits, or with its response where that    *)
(* leaves first.                                                           *)
(***************************************************************************)
EXTENDS Executions

Answered(i) == owner[i] # None /\ pc[owner[i]] = "replied"

Visible(i) == IF Answered(i) THEN dirty[i] ELSE rows[i]

Entry(k) == {i \in Ids : Visible(i).key = k}

(* What stands under each key, for the ledger.                              *)
Standing ==
    [k \in Keys |->
        IF Entry(k) = {} THEN [state |-> "NONE", hash |-> None]
        ELSE LET r == Visible(CHOOSE i \in Entry(k) : TRUE)
             IN  [state |-> r.state, hash |-> r.hash]]

Ledger == INSTANCE ExecutionLedger WITH ledger <- Standing

(* Every behaviour of the claim and completion transactions is one of the   *)
(* ledger's (when no answered transaction is lost).                         *)
ImplementsLedger == Ledger!Spec
=============================================================================
