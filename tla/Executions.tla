---------------------------- MODULE Executions -----------------------------
(***************************************************************************)
(* At-most-once execution: routers/executions.py of the API, as PostgreSQL *)
(* transactions at READ COMMITTED (see Approvals for what that means).     *)
(*                                                                         *)
(* A claim runs INSERT .. ON CONFLICT DO NOTHING, SELECT, a compare-and-   *)
(* set UPDATE and a refreshing SELECT; a completion runs one compare-and-  *)
(* set.  Only a caller whose claim was answered claimed = true performs    *)
(* the side effect, and completes the execution it was given.  Definitions *)
(* named Mut... are faulty variants, as in Approvals.                      *)
(***************************************************************************)
EXTENDS Naturals, FiniteSets

CONSTANTS
    Procs,       \* API requests in flight at once
    Ids,         \* execution ids; a bound on how many rows are ever inserted
    Keys,        \* (org_id, idempotency_key)
    Hashes,      \* canonical hashes
    None,
    Traced,      \* is an execution's action request on the timeline? or either
    MaxCrashes,  \* bound on lost transactions
    CommitFirst  \* get_db commits before the response leaves, or after

ASSUME ExecutionsAssumption ==
    /\ None \notin Procs \cup Ids \cup Keys \cup Hashes
    /\ Traced \in (SUBSET BOOLEAN) \ {{}}
    /\ MaxCrashes \in Nat
    /\ CommitFirst \in BOOLEAN
    /\ IsFiniteSet(Ids) /\ IsFiniteSet(Procs)

VARIABLES
    rows,     \* committed executions
    owner,    \* the transaction that locks the row, or None
    dirty,    \* the locked row as its owner sees it
    used,     \* ids already given to a row: they are never given again
    pc, call, out,
    told,     \* ids some caller was told it claimed
    results,  \* how many result events of each outcome an execution has
    won,      \* answers claimed = true, for each key
    lost,     \* ... of transactions that never committed
    crashes

db == <<rows, owner, dirty, used>>
record == <<told, results, won, lost>>
vars == <<rows, owner, dirty, used, pc, call, out, told, results, won, lost,
          crashes>>

Outcome == {"SUCCEEDED", "FAILED"}
ExecutionState == {"AUTHORIZED", "EXECUTING"} \cup Outcome

NoRow == [state |-> "NONE", key |-> None, hash |-> None]
Row == [state: ExecutionState, key: Keys, hash: Hashes]

(* A claim carries a key and a hash, a completion an id and an outcome.     *)
Call == [key: Keys \cup {None}, hash: Hashes \cup {None}, id: Ids \cup {None},
         to: Outcome \cup {"NONE"}]
NoCall == [key |-> None, hash |-> None, id |-> None, to |-> "NONE"]

(* The execution the call is about, whether its compare-and-set won, and    *)
(* the state it will report.                                                *)
Out == [id: Ids \cup {None}, claimed: BOOLEAN, state: ExecutionState \cup {"NONE"}]
NoOut == [id |-> None, claimed |-> FALSE, state |-> "NONE"]

PC == {"idle", "insert", "select", "cas", "refresh", "scan", "complete",
       "finish", "committed", "replied"}

TypeOK ==
    /\ rows \in [Ids -> Row \cup {NoRow}]
    /\ owner \in [Ids -> Procs \cup {None}]
    /\ dirty \in [Ids -> Row \cup {NoRow}]
    /\ used \subseteq Ids
    /\ pc \in [Procs -> PC]
    /\ call \in [Procs -> Call]
    /\ out \in [Procs -> Out]
    /\ told \subseteq Ids
    /\ results \in [Ids -> [Outcome -> Nat]]
    /\ won \in [Keys -> Nat]
    /\ lost \in [Keys -> Nat]
    /\ crashes \in 0..MaxCrashes

Init ==
    /\ rows = [i \in Ids |-> NoRow]
    /\ owner = [i \in Ids |-> None]
    /\ dirty = [i \in Ids |-> NoRow]
    /\ used = {}
    /\ pc = [p \in Procs |-> "idle"]
    /\ call = [p \in Procs |-> NoCall]
    /\ out = [p \in Procs |-> NoOut]
    /\ told = {}
    /\ results = [i \in Ids |-> [s \in Outcome |-> 0]]
    /\ won = [k \in Keys |-> 0]
    /\ lost = [k \in Keys |-> 0]
    /\ crashes = 0

-----------------------------------------------------------------------------
View(p, i) == IF owner[i] = p THEN dirty[i] ELSE rows[i]

LockedByOther(p, i) == owner[i] \notin {p, None}

(* The rows with key k in the unique index, in-flight insertions included.  *)
Entries(k) == {i \in Ids : rows[i].key = k \/ dirty[i].key = k}

(* Claims that may still insert a row.                                      *)
Inserting == {p \in Procs : pc[p] = "insert"}

Goto(p, l) == pc' = [pc EXCEPT ![p] = l]

Write(p, i, r) ==
    /\ owner' = [owner EXCEPT ![i] = p]
    /\ dirty' = [dirty EXCEPT ![i] = r]

MutUnlock(p) == UNCHANGED <<owner, dirty>>

Unlock(p) ==
    /\ owner' = [i \in Ids |-> IF owner[i] = p THEN None ELSE owner[i]]
    /\ dirty' = [i \in Ids |-> IF owner[i] = p THEN NoRow ELSE dirty[i]]

End(p) ==
    /\ Goto(p, "idle")
    /\ call' = [call EXCEPT ![p] = NoCall]
    /\ out' = [out EXCEPT ![p] = NoOut]

(* The handler raises: get_db rolls back and the caller gets an error.      *)
Fail(p) == Unlock(p) /\ End(p) /\ UNCHANGED <<rows, used, record, crashes>>

-----------------------------------------------------------------------------
(* POST /v1/executions/claim.  Ids bounds the insertions: a claim begins    *)
(* while its key has a row or an id is left for it.                         *)
BeginClaim(p, k, h) ==
    /\ pc[p] = "idle"
    /\ \/ \E i \in Ids : rows[i].key = k
       \/ Cardinality(Ids \ used) > Cardinality(Inserting)
    /\ Goto(p, "insert")
    /\ call' = [call EXCEPT ![p] = [key |-> k, hash |-> h, id |-> None, to |-> "NONE"]]
    /\ UNCHANGED <<db, out, record, crashes>>

MutInsertWaits(p, k) == FALSE

(* ON CONFLICT DO NOTHING waits while another transaction inserts or        *)
(* changes a row with the key, and does nothing once there is one.          *)
InsertWaits(p, k) == \E i \in Entries(k) : LockedByOther(p, i)

MutNewRow(c) == [state |-> "AUTHORIZED", key |-> c.key, hash |-> None]

NewRow(c) == [state |-> "AUTHORIZED", key |-> c.key, hash |-> c.hash]

Insert(p) ==
    /\ pc[p] = "insert"
    /\ Entries(call[p].key) = {}
    /\ \E i \in Ids \ used :
         /\ Write(p, i, NewRow(call[p]))
         /\ used' = used \cup {i}
    /\ Goto(p, "select")
    /\ UNCHANGED <<rows, call, out, record, crashes>>

InsertNothing(p) ==
    /\ pc[p] = "insert"
    /\ Entries(call[p].key) # {}
    /\ ~InsertWaits(p, call[p].key)
    /\ Goto(p, "select")
    /\ UNCHANGED <<db, call, out, record, crashes>>

(* The SELECT finds the row of the key; the handler asserts that it does.   *)
Found(p) == {i \in Ids : View(p, i).key = call[p].key}

MutSameRequest(c, r) == TRUE

SameRequest(c, r) == r.hash = c.hash

Select(p) ==
    /\ pc[p] = "select"
    /\ \E i \in Found(p) :
         /\ SameRequest(call[p], View(p, i))
         /\ out' = [out EXCEPT ![p] = [id |-> i, claimed |-> FALSE, state |-> "NONE"]]
    /\ Goto(p, "cas")
    /\ UNCHANGED <<db, call, record, crashes>>

KeyReused(p) ==
    /\ pc[p] = "select"
    /\ \E i \in Found(p) : ~SameRequest(call[p], View(p, i))
    /\ Fail(p)

MutMayClaim(r) == r.state \in {"AUTHORIZED", "EXECUTING"}

(* exactly one caller moves AUTHORIZED -> EXECUTING                         *)
MayClaim(r) == r.state = "AUTHORIZED"

MutClaimed(r) == r

Claimed(r) == [r EXCEPT !.state = "EXECUTING"]

Claim(p) ==
    LET i == out[p].id
        r == View(p, i)
    IN  /\ pc[p] = "cas"
        /\ IF MayClaim(r)
           THEN /\ ~LockedByOther(p, i)
                /\ Write(p, i, Claimed(r))
                /\ out' = [out EXCEPT ![p].claimed = TRUE]
           ELSE UNCHANGED <<owner, dirty, out>>
        /\ Goto(p, "refresh")
        /\ UNCHANGED <<rows, used, call, record, crashes>>

Refresh(p) ==
    /\ pc[p] = "refresh"
    /\ out' = [out EXCEPT ![p].state = View(p, out[p].id).state]
    /\ Goto(p, "finish")
    /\ UNCHANGED <<db, call, record, crashes>>

-----------------------------------------------------------------------------
(* POST /v1/executions/{id}/complete, by a caller that was told it claimed. *)
BeginComplete(p, i, to) ==
    /\ pc[p] = "idle"
    /\ i \in told
    /\ Goto(p, "scan")
    /\ call' = [call EXCEPT ![p] = [key |-> None, hash |-> None, id |-> i, to |-> to]]
    /\ UNCHANGED <<db, out, record, crashes>>

MutMayComplete(r) == r.state \in {"EXECUTING"} \cup Outcome

MayComplete(r) == r.state = "EXECUTING"

(* The UPDATE's snapshot: no such row, or not EXECUTING, is 404 or 409.     *)
ScanCompletion(p) ==
    /\ pc[p] = "scan"
    /\ MayComplete(rows[call[p].id])
    /\ Goto(p, "complete")
    /\ UNCHANGED <<db, call, out, record, crashes>>

(* It waits for the row's lock and tests the state again.                   *)
Complete(p) ==
    LET i == call[p].id
    IN  /\ pc[p] = "complete"
        /\ ~LockedByOther(p, i)
        /\ MayComplete(rows[i])
        /\ Write(p, i, [rows[i] EXCEPT !.state = call[p].to])
        /\ out' = [out EXCEPT ![p].id = i]
        /\ Goto(p, "finish")
        /\ UNCHANGED <<rows, used, call, record, crashes>>

NotExecuting(p) ==
    /\ \/ pc[p] = "scan"
       \/ pc[p] = "complete" /\ ~LockedByOther(p, call[p].id)
    /\ ~MayComplete(rows[call[p].id])
    /\ Fail(p)

-----------------------------------------------------------------------------
(* _record_execution_event: a completion's result goes to the timeline, if  *)
(* it finds the action request the event would hang on.                     *)
RecordExecutionEvent(p) ==
    \E traced \in Traced :
        results' = IF traced /\ call[p].to \in Outcome
                   THEN [results EXCEPT ![call[p].id][call[p].to] = @ + 1]
                   ELSE results

(* get_db: the commit, with the result event of a completion, and the       *)
(* response on either side of it.                                           *)
Commit(p) ==
    /\ pc[p] = IF CommitFirst THEN "finish" ELSE "replied"
    /\ rows' = [i \in Ids |-> View(p, i)]
    /\ Unlock(p)
    /\ RecordExecutionEvent(p)
    /\ IF CommitFirst THEN Goto(p, "committed") /\ UNCHANGED <<call, out>>
                      ELSE End(p)
    /\ UNCHANGED <<used, told, won, lost, crashes>>

Reply(p) ==
    /\ pc[p] = IF CommitFirst THEN "committed" ELSE "finish"
    /\ IF out[p].claimed
       THEN /\ won' = [won EXCEPT ![call[p].key] = @ + 1]
            /\ told' = told \cup {out[p].id}
       ELSE UNCHANGED <<won, told>>
    /\ IF CommitFirst THEN End(p)
                      ELSE Goto(p, "replied") /\ UNCHANGED <<call, out>>
    /\ UNCHANGED <<db, results, lost, crashes>>

(* The API process or its connection dies: the transaction rolls back.      *)
Crash(p) ==
    /\ pc[p] # "idle"
    /\ crashes < MaxCrashes
    /\ crashes' = crashes + 1
    /\ Unlock(p)
    /\ End(p)
    /\ lost' = IF pc[p] = "replied" /\ out[p].claimed
               THEN [lost EXCEPT ![call[p].key] = @ + 1] ELSE lost
    /\ UNCHANGED <<rows, used, told, results, won>>

-----------------------------------------------------------------------------
Run(p) ==
    \/ Insert(p) \/ InsertNothing(p) \/ Select(p) \/ KeyReused(p)
    \/ Claim(p) \/ Refresh(p)
    \/ ScanCompletion(p) \/ Complete(p) \/ NotExecuting(p)
    \/ Commit(p) \/ Reply(p)

Next ==
    \E p \in Procs :
        \/ \E k \in Keys, h \in Hashes : BeginClaim(p, k, h)
        \/ \E i \in Ids, to \in Outcome : BeginComplete(p, i, to)
        \/ Run(p)
        \/ Crash(p)

Spec == Init /\ [][Next]_vars

(* A request keeps running, and a waiting one gets its turn.                *)
Fairness == \A p \in Procs : SF_vars(Run(p))

FairSpec == Spec /\ Fairness

-----------------------------------------------------------------------------
(* Properties *)

(* At most one caller per key is told to perform the side effect, but for   *)
(* the answers whose transaction was lost after it was sent.                *)
OneWinner == \A k \in Keys : won[k] <= 1 + lost[k]

(* models.py: exactly one winner enters EXECUTING, so a key's side effect   *)
(* happens at most once, whatever dies.                                     *)
AtMostOnce == \A k \in Keys : won[k] <= 1

(* A duplicate reads a recorded outcome: its answer is about a committed    *)
(* execution of the same key and the same canonical request that another    *)
(* caller claimed.                                                          *)
DuplicateIsRecorded ==
    \A p \in Procs :
        /\ pc[p] \in {"finish", "committed", "replied"}
        /\ call[p].key # None /\ ~out[p].claimed
        => LET r == rows[out[p].id]
           IN  /\ r.key = call[p].key /\ r.hash = call[p].hash
               /\ out[p].state \in {"EXECUTING"} \cup Outcome

(* claim_execution's "just inserted or already present" assertion.          *)
SelectFindsRow == \A p \in Procs : pc[p] = "select" => Found(p) # {}

(* An execution has one result event at most, however often and with        *)
(* whatever outcome it is completed, and that event tells the outcome it    *)
(* keeps.  (It has none where the action request was never recorded.)       *)
OneResult ==
    \A i \in Ids, s \in Outcome :
        results[i][s] <= IF rows[i].state = s THEN 1 ELSE 0

(* The claimant's own completion finds the execution it was given: with one *)
(* completion per claim, none is refused.                                   *)
ClaimantFindsExecution ==
    \A i \in told : rows[i].state \in {"EXECUTING"} \cup Outcome

(* Every call is answered. *)
EveryCallReturns == \A p \in Procs : pc[p] # "idle" ~> pc[p] = "idle"
=============================================================================
