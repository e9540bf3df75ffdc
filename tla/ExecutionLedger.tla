--------------------------- MODULE ExecutionLedger -------------------------
(***************************************************************************)
(* What at-most-once execution promises, each call as one atomic step: a   *)
(* key stands for one canonical request; it enters EXECUTING once and one  *)
(* caller is told so, and that caller's outcome, recorded once, is final.  *)
(* A call about a key that is taken changes nothing.  Executions           *)
(* implements this.                                                        *)
(***************************************************************************)
EXTENDS Naturals

CONSTANTS Keys, Hashes, None

VARIABLES
    ledger,  \* what the world can see of each key
    won      \* answers claimed = true given for each

vars == <<ledger, won>>

Nothing == [state |-> "NONE", hash |-> None]

Init ==
    /\ ledger = [k \in Keys |-> Nothing]
    /\ won = [k \in Keys |-> 0]

(* The answer comes with the transition, or later, or is lost.              *)
Claim(k, h) ==
    /\ ledger[k] = Nothing
    /\ ledger' = [ledger EXCEPT ![k] = [state |-> "EXECUTING", hash |-> h]]
    /\ \/ UNCHANGED won
       \/ won' = [won EXCEPT ![k] = 1]

Grant(k) ==
    /\ ledger[k] # Nothing
    /\ won[k] = 0
    /\ won' = [won EXCEPT ![k] = 1]
    /\ UNCHANGED ledger

Complete(k, to) ==
    /\ ledger[k].state = "EXECUTING"
    /\ won[k] = 1
    /\ ledger' = [ledger EXCEPT ![k].state = to]
    /\ UNCHANGED won

Next ==
    \E k \in Keys :
        \/ \E h \in Hashes : Claim(k, h)
        \/ Grant(k)
        \/ \E to \in {"SUCCEEDED", "FAILED"} : Complete(k, to)

Spec == Init /\ [][Next]_vars
=============================================================================
