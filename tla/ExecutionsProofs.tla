-------------------------- MODULE ExecutionsProofs -------------------------
(***************************************************************************)
(* Theorems about Executions, for any number of calls, rows, keys and      *)
(* hashes, any number of crashes, and either order of commit and response. *)
(***************************************************************************)
EXTENDS ExecutionsRefinement, TLAPS

(* The arguments a statement uses are there when it runs.                   *)
ArgumentsOK ==
    \A p \in Procs :
        /\ pc[p] \in {"insert", "select", "cas", "refresh"} =>
             call[p].key \in Keys /\ call[p].hash \in Hashes
        /\ pc[p] \in {"scan", "complete"} => call[p].id \in Ids /\ call[p].to \in Outcome
        /\ call[p].to \in Outcome => call[p].id \in Ids /\ call[p].key = None
        /\ pc[p] \in {"cas", "refresh", "finish", "committed", "replied"} =>
             out[p].id \in Ids

(* A locked row is held as a row, and an unlocked one has no other version. *)
LocksOK ==
    \A i \in Ids : IF owner[i] = None THEN dirty[i] = NoRow ELSE dirty[i] \in Row

TypeInv == TypeOK /\ ArgumentsOK /\ LocksOK

LEMMA Constants ==
    /\ NoCall \in Call /\ NoOut \in Out /\ NoRow \notin Row
    /\ Outcome \subseteq ExecutionState
    /\ "EXECUTING" \in ExecutionState /\ "AUTHORIZED" \in ExecutionState
    /\ \A k \in Keys : k # None
    /\ \A h \in Hashes : h # None
    /\ \A p \in Procs : p # None
    /\ NoCall.to \notin Outcome /\ NoCall.key = None
    /\ NoRow.state = "NONE" /\ NoRow.key = None
  BY ExecutionsAssumption
     DEF NoCall, Call, NoOut, Out, NoRow, Row, Outcome, ExecutionState

LEMMA InitTypeInv == Init => TypeInv
  BY Constants, ExecutionsAssumption
     DEF Init, TypeInv, TypeOK, ArgumentsOK, LocksOK, PC

LEMMA UnlockType ==
    ASSUME TypeInv, NEW p \in Procs, Unlock(p)
    PROVE  /\ owner' \in [Ids -> Procs \cup {None}]
           /\ dirty' \in [Ids -> Row \cup {NoRow}]
           /\ LocksOK'
  BY ExecutionsAssumption DEF TypeInv, TypeOK, LocksOK, Unlock

LEMMA EndType ==
    ASSUME TypeInv, NEW p \in Procs, End(p)
    PROVE  /\ pc' \in [Procs -> PC]
           /\ call' \in [Procs -> Call]
           /\ out' \in [Procs -> Out]
           /\ ArgumentsOK'
  BY Constants DEF TypeInv, TypeOK, ArgumentsOK, End, Goto, PC

LEMMA FailType ==
    ASSUME TypeInv, NEW p \in Procs, Fail(p)
    PROVE  TypeInv'
  BY UnlockType, EndType DEF Fail, TypeInv, TypeOK, record

(* A call that touches no row and only moves on.                            *)
LEMMA LocalType ==
    ASSUME TypeInv, NEW p \in Procs, NEW l \in PC, Goto(p, l),
           UNCHANGED <<db, record, crashes>>,
           call' \in [Procs -> Call], out' \in [Procs -> Out], ArgumentsOK'
    PROVE  TypeInv'
  BY DEF TypeInv, TypeOK, LocksOK, Goto, db, record

LEMMA WriteType ==
    ASSUME TypeInv, NEW p \in Procs, NEW i \in Ids, NEW r \in Row, Write(p, i, r)
    PROVE  /\ owner' \in [Ids -> Procs \cup {None}]
           /\ dirty' \in [Ids -> Row \cup {NoRow}]
           /\ LocksOK'
           /\ owner'[i] = p /\ dirty'[i] = r
           /\ \A j \in Ids \ {i} : owner'[j] = owner[j] /\ dirty'[j] = dirty[j]
  BY Constants DEF TypeInv, TypeOK, LocksOK, Write

LEMMA TypeStep == TypeInv /\ [Next]_vars => TypeInv'
<1> SUFFICES ASSUME TypeInv, [Next]_vars PROVE TypeInv'
  OBVIOUS
<1> USE DEF Goto
<1>1. ASSUME NEW p \in Procs, NEW k \in Keys, NEW h \in Hashes, BeginClaim(p, k, h)
      PROVE  TypeInv'
  <2> DEFINE c == [key |-> k, hash |-> h, id |-> None, to |-> "NONE"]
  <2>1. c \in Call /\ "insert" \in PC /\ c.to \notin Outcome
    BY DEF Call, PC, Outcome
  <2>2. call' \in [Procs -> Call] /\ out' \in [Procs -> Out] /\ call'[p] = c
    BY <1>1, <2>1 DEF BeginClaim, TypeInv, TypeOK
  <2>3. ArgumentsOK'
    BY <1>1, <2>1, <2>2 DEF BeginClaim, TypeInv, TypeOK, ArgumentsOK
  <2> QED BY <1>1, <2>1, <2>2, <2>3, LocalType DEF BeginClaim
<1>2. ASSUME NEW p \in Procs, NEW i \in Ids, NEW to \in Outcome, BeginComplete(p, i, to)
      PROVE  TypeInv'
  <2> DEFINE c == [key |-> None, hash |-> None, id |-> i, to |-> to]
  <2>1. c \in Call /\ "scan" \in PC
    BY DEF Call, PC, Outcome
  <2>2. call' \in [Procs -> Call] /\ out' \in [Procs -> Out] /\ call'[p] = c
    BY <1>2, <2>1 DEF BeginComplete, TypeInv, TypeOK
  <2>3. ArgumentsOK'
    BY <1>2, <2>2 DEF BeginComplete, TypeInv, TypeOK, ArgumentsOK
  <2> QED BY <1>2, <2>1, <2>2, <2>3, LocalType DEF BeginComplete
<1>3. ASSUME NEW p \in Procs, Insert(p)
      PROVE  TypeInv'
  <2>1. PICK i \in Ids \ used : Write(p, i, NewRow(call[p])) /\ used' = used \cup {i}
    BY <1>3 DEF Insert
  <2>2. NewRow(call[p]) \in Row
    BY <1>3, Constants DEF Insert, NewRow, Row, TypeInv, ArgumentsOK
  <2>3. /\ owner' \in [Ids -> Procs \cup {None}]
        /\ dirty' \in [Ids -> Row \cup {NoRow}]
        /\ LocksOK'
    BY <2>1, <2>2, WriteType
  <2>4. TypeOK'
    BY <1>3, <2>1, <2>3 DEF Insert, TypeInv, TypeOK, record, PC
  <2>5. ArgumentsOK'
    BY <1>3 DEF Insert, TypeInv, TypeOK, ArgumentsOK
  <2> QED BY <2>3, <2>4, <2>5 DEF TypeInv
<1>4. ASSUME NEW p \in Procs, InsertNothing(p)
      PROVE  TypeInv'
  BY <1>4 DEF InsertNothing, TypeInv, TypeOK, ArgumentsOK, LocksOK, db, record, PC
<1>5. ASSUME NEW p \in Procs, Select(p)
      PROVE  TypeInv'
  <2>1. PICK i \in Ids :
          out' = [out EXCEPT ![p] = [id |-> i, claimed |-> FALSE, state |-> "NONE"]]
    BY <1>5 DEF Select, Found
  <2>2. "cas" \in PC /\ call' \in [Procs -> Call] /\ out' \in [Procs -> Out]
    BY <1>5, <2>1 DEF Select, TypeInv, TypeOK, Out, PC
  <2>3. ArgumentsOK'
    BY <1>5, <2>1 DEF Select, TypeInv, TypeOK, ArgumentsOK
  <2> QED BY <1>5, <2>2, <2>3, LocalType DEF Select
<1>6. ASSUME NEW p \in Procs, KeyReused(p) \/ NotExecuting(p)
      PROVE  TypeInv'
  BY <1>6, FailType DEF KeyReused, NotExecuting
<1>7. ASSUME NEW p \in Procs, Claim(p)
      PROVE  TypeInv'
  <2> DEFINE i == out[p].id
             r == View(p, i)
  <2>1. i \in Ids /\ pc[p] = "cas"
    BY <1>7 DEF Claim, TypeInv, ArgumentsOK
  <2>2. CASE MayClaim(r)
    <3>1. Write(p, i, Claimed(r)) /\ out' = [out EXCEPT ![p].claimed = TRUE]
      BY <1>7, <2>2 DEF Claim
    <3>2. Claimed(r) \in Row
      <4>1. r \in Row
        BY <2>1, <2>2, Constants DEF MayClaim, View, TypeInv, TypeOK
      <4> QED BY <4>1, Constants DEF Claimed, Row
    <3>3. /\ owner' \in [Ids -> Procs \cup {None}]
          /\ dirty' \in [Ids -> Row \cup {NoRow}]
          /\ LocksOK'
      BY <2>1, <3>1, <3>2, WriteType
    <3>4. out' \in [Procs -> Out] /\ \A q \in Procs : out'[q].id = out[q].id
      BY <3>1 DEF TypeInv, TypeOK, Out
    <3>5. TypeOK'
      BY <1>7, <3>3, <3>4 DEF Claim, TypeInv, TypeOK, record, PC
    <3>6. ArgumentsOK'
      BY <1>7, <3>4 DEF Claim, TypeInv, TypeOK, ArgumentsOK
    <3> QED BY <3>3, <3>5, <3>6 DEF TypeInv
  <2>3. CASE ~MayClaim(r)
    BY <1>7, <2>3 DEF Claim, TypeInv, TypeOK, ArgumentsOK, LocksOK, record, PC
  <2> QED BY <2>2, <2>3
<1>8. ASSUME NEW p \in Procs, Refresh(p)
      PROVE  TypeInv'
  <2>1. out[p].id \in Ids /\ pc[p] = "refresh"
    BY <1>8 DEF Refresh, TypeInv, ArgumentsOK
  <2>2. View(p, out[p].id).state \in ExecutionState \cup {"NONE"}
    BY <2>1, Constants DEF View, TypeInv, TypeOK, Row
  <2>3. out' \in [Procs -> Out] /\ \A q \in Procs : out'[q].id = out[q].id
    BY <1>8, <2>2 DEF Refresh, TypeInv, TypeOK, Out
  <2>4. ArgumentsOK' /\ "finish" \in PC /\ call' \in [Procs -> Call]
    BY <1>8, <2>3 DEF Refresh, TypeInv, TypeOK, ArgumentsOK, PC
  <2> QED BY <1>8, <2>3, <2>4, LocalType DEF Refresh
<1>9. ASSUME NEW p \in Procs, ScanCompletion(p)
      PROVE  TypeInv'
  BY <1>9 DEF ScanCompletion, TypeInv, TypeOK, ArgumentsOK, LocksOK, db, record, PC
<1>10. ASSUME NEW p \in Procs, Complete(p)
       PROVE  TypeInv'
  <2> DEFINE i == call[p].id
             r == [rows[i] EXCEPT !.state = call[p].to]
  <2>1. i \in Ids /\ call[p].to \in Outcome /\ pc[p] = "complete"
    BY <1>10 DEF Complete, TypeInv, ArgumentsOK
  <2>2. rows[i] \in Row
    BY <1>10, <2>1, Constants DEF Complete, MayComplete, TypeInv, TypeOK
  <2>3. r \in Row
    BY <2>1, <2>2, Constants DEF Row
  <2>4. Write(p, i, r) /\ out' = [out EXCEPT ![p].id = i]
    BY <1>10 DEF Complete
  <2>5. /\ owner' \in [Ids -> Procs \cup {None}]
        /\ dirty' \in [Ids -> Row \cup {NoRow}]
        /\ LocksOK'
    BY <2>1, <2>3, <2>4, WriteType
  <2>6. [out[p] EXCEPT !.id = i] \in Out
    BY <2>1 DEF TypeInv, TypeOK, Out
  <2>7. TypeOK'
    BY <1>10, <2>4, <2>5, <2>6 DEF Complete, TypeInv, TypeOK, record, PC
  <2>8. ArgumentsOK'
    BY <1>10, <2>1, <2>4 DEF Complete, TypeInv, TypeOK, ArgumentsOK, Out
  <2> QED BY <2>5, <2>7, <2>8 DEF TypeInv
<1>11. ASSUME NEW p \in Procs, Commit(p)
       PROVE  TypeInv'
  <2>1. /\ owner' \in [Ids -> Procs \cup {None}]
        /\ dirty' \in [Ids -> Row \cup {NoRow}]
        /\ LocksOK'
    BY <1>11, UnlockType DEF Commit
  <2>2. rows' \in [Ids -> Row \cup {NoRow}]
    BY <1>11 DEF Commit, View, TypeInv, TypeOK
  <2>3. results' \in [Ids -> [Outcome -> Nat]]
    BY <1>11 DEF Commit, RecordExecutionEvent, TypeInv, TypeOK, ArgumentsOK
  <2>4. /\ pc' \in [Procs -> PC]
        /\ call' \in [Procs -> Call]
        /\ out' \in [Procs -> Out]
        /\ ArgumentsOK'
    <3>1. CASE CommitFirst
      BY <1>11, <3>1 DEF Commit, TypeInv, TypeOK, ArgumentsOK, PC
    <3>2. CASE ~CommitFirst
      BY <1>11, <3>2, EndType DEF Commit
    <3> QED BY <3>1, <3>2
  <2>5. TypeOK'
    BY <1>11, <2>1, <2>2, <2>3, <2>4 DEF Commit, TypeInv, TypeOK
  <2> QED BY <2>1, <2>4, <2>5 DEF TypeInv
<1>12. ASSUME NEW p \in Procs, Reply(p)
       PROVE  TypeInv'
  <2>1. /\ pc' \in [Procs -> PC]
        /\ call' \in [Procs -> Call]
        /\ out' \in [Procs -> Out]
        /\ ArgumentsOK'
    <3>1. CASE CommitFirst
      BY <1>12, <3>1, EndType DEF Reply
    <3>2. CASE ~CommitFirst
      BY <1>12, <3>2 DEF Reply, TypeInv, TypeOK, ArgumentsOK, PC
    <3> QED BY <3>1, <3>2
  <2>2. won' \in [Keys -> Nat] /\ told' \subseteq Ids
    <3>1. out[p].id \in Ids
      BY <1>12 DEF Reply, TypeInv, ArgumentsOK
    <3>2. /\ \/ UNCHANGED won
             \/ won' = [won EXCEPT ![call[p].key] = @ + 1]
          /\ \/ UNCHANGED told
             \/ told' = told \cup {out[p].id}
      BY <1>12 DEF Reply
    <3>3. won \in [Keys -> Nat] /\ told \subseteq Ids
      BY DEF TypeInv, TypeOK
    <3> QED BY <3>1, <3>2, <3>3
  <2>3. TypeOK'
    BY <1>12, <2>1, <2>2 DEF Reply, TypeInv, TypeOK, db
  <2> QED BY <1>12, <2>1, <2>3 DEF Reply, TypeInv, LocksOK, db
<1>13. ASSUME NEW p \in Procs, Crash(p)
       PROVE  TypeInv'
  <2>1. /\ owner' \in [Ids -> Procs \cup {None}]
        /\ dirty' \in [Ids -> Row \cup {NoRow}]
        /\ LocksOK'
    BY <1>13, UnlockType DEF Crash
  <2>2. /\ pc' \in [Procs -> PC]
        /\ call' \in [Procs -> Call]
        /\ out' \in [Procs -> Out]
        /\ ArgumentsOK'
    BY <1>13, EndType DEF Crash
  <2>3. lost' \in [Keys -> Nat]
    <3> DEFINE more == [lost EXCEPT ![call[p].key] = @ + 1]
    <3>1. DOMAIN more = Keys /\ \A k \in Keys : more[k] \in Nat
      BY DEF TypeInv, TypeOK
    <3>2. more \in [Keys -> Nat]
      BY <3>1
    <3> QED BY <1>13, <3>2 DEF Crash, TypeInv, TypeOK
  <2>4. crashes' \in 0..MaxCrashes
    BY <1>13, ExecutionsAssumption DEF Crash, TypeInv, TypeOK
  <2>5. TypeOK'
    BY <1>13, <2>1, <2>2, <2>3, <2>4 DEF Crash, TypeInv, TypeOK
  <2> QED BY <2>1, <2>2, <2>5 DEF TypeInv
<1>14. CASE UNCHANGED vars
  BY <1>14 DEF vars, TypeInv, TypeOK, ArgumentsOK, LocksOK
<1> QED
  BY <1>1, <1>2, <1>3, <1>4, <1>5, <1>6, <1>7, <1>8, <1>9, <1>10, <1>11,
     <1>12, <1>13, <1>14 DEF Next, Run

(* Type correctness: rows, locks and calls keep the shapes the code gives   *)
(* them; a row is only ever locked as a whole row.                          *)
THEOREM TypeCorrect == Spec => []TypeOK
<1>1. TypeInv => TypeOK
  BY DEF TypeInv
<1> QED BY <1>1, InitTypeInv, TypeStep, PTL DEF Spec

LEMMA TypeInvariant == Spec => []TypeInv
  BY InitTypeInv, TypeStep, PTL DEF Spec

-----------------------------------------------------------------------------
(* The inductive invariant.  None of the properties is inductive by itself: *)
(* what a commit makes visible depends on what the transaction holds, and   *)
(* what it holds on where its call is.                                      *)

(* The unique index: one row per key, in-flight insertions included; the    *)
(* key and the hash of a row never change; ids are given once.              *)
IndexInv ==
    /\ \A k \in Keys : \A i, j \in Entries(k) : i = j
    /\ \A i \in Ids : owner[i] # None /\ rows[i] # NoRow =>
         dirty[i].key = rows[i].key /\ dirty[i].hash = rows[i].hash
    /\ \A i \in Ids \ used : rows[i] = NoRow /\ owner[i] = None

(* A claim holds the row it has inserted, on its way to EXECUTING.          *)
Claiming(p, i) ==
    /\ rows[i] = NoRow
    /\ call[p].key # None
    /\ dirty[i].key = call[p].key /\ dirty[i].hash = call[p].hash
    /\ \/ pc[p] = "select" /\ dirty[i].state = "AUTHORIZED"
       \/ pc[p] = "cas" /\ dirty[i].state = "AUTHORIZED" /\ out[p].id = i
       \/ /\ pc[p] \in {"refresh", "finish", "replied"}
          /\ dirty[i].state = "EXECUTING"
          /\ out[p].id = i /\ out[p].claimed

(* A completion holds the EXECUTING row it was sent for.                    *)
Completing(p, i) ==
    /\ rows[i].state = "EXECUTING"
    /\ call[p].to \in Outcome
    /\ call[p].id = i
    /\ dirty[i].state = call[p].to
    /\ pc[p] \in {"finish", "replied"}

Holds(p) == \A i \in Ids : owner[i] = p => Claiming(p, i) \/ Completing(p, i)

(* A row only becomes visible once it has been claimed.                     *)
NoneUnclaimed == \A i \in Ids : rows[i].state # "AUTHORIZED"

(* What a call has established when it gets to a statement.                 *)
Phase(p) ==
    /\ pc[p] = "select" => Found(p) # {}
    /\ pc[p] = "cas" =>
         /\ View(p, out[p].id).key = call[p].key
         /\ View(p, out[p].id).hash = call[p].hash
    /\ pc[p] \in {"refresh", "finish", "committed", "replied"} =>
         IF call[p].key = None
         THEN /\ call[p].to \in Outcome /\ pc[p] # "refresh"
              /\ pc[p] # "committed" => owner[call[p].id] = p
         ELSE IF out[p].claimed /\ pc[p] # "committed"
         THEN owner[out[p].id] = p
         ELSE /\ rows[out[p].id].key = call[p].key
              /\ rows[out[p].id].hash = call[p].hash
    /\ /\ pc[p] \in {"finish", "committed", "replied"}
       /\ call[p].key # None /\ ~out[p].claimed
       => out[p].state \in {"EXECUTING"} \cup Outcome
    /\ out[p].claimed =>
         /\ call[p].key # None
         /\ pc[p] \in {"refresh", "finish", "committed", "replied"}
    /\ pc[p] = "committed" => CommitFirst
    /\ pc[p] = "replied" => ~CommitFirst

StateInv ==
    /\ IndexInv
    /\ NoneUnclaimed
    /\ OneResult
    /\ \A p \in Procs : Holds(p) /\ Phase(p)

LEMMA InitStateInv == Init => StateInv
  BY Constants, ExecutionsAssumption
     DEF Init, StateInv, IndexInv, Entries, NoneUnclaimed, OneResult, Outcome,
         Holds, Phase, NoOut

(* What a step of p leaves to the others ...                                *)
OthersSame(p) ==
    \A q \in Procs \ {p} : pc'[q] = pc[q] /\ call'[q] = call[q] /\ out'[q] = out[q]

(* ... and of the rows: no row changes what it stands for, nor the hands.   *)
Kept(p) ==
    \A i \in Ids :
        /\ rows[i] # NoRow => rows'[i].key = rows[i].key /\ rows'[i].hash = rows[i].hash
        /\ \A q \in Procs \ {p} :
             /\ owner'[i] = q <=> owner[i] = q
             /\ owner[i] = q => dirty'[i] = dirty[i] /\ rows'[i] = rows[i]

LEMMA OthersHold ==
    ASSUME TypeInv, StateInv, NEW p \in Procs, OthersSame(p), Kept(p)
    PROVE  \A q \in Procs \ {p} : Holds(q)' /\ Phase(q)'
<1> SUFFICES ASSUME NEW q \in Procs \ {p} PROVE Holds(q)' /\ Phase(q)'
  OBVIOUS
<1>1. pc'[q] = pc[q] /\ call'[q] = call[q] /\ out'[q] = out[q]
  BY DEF OthersSame
<1>2. Holds(q)'
  BY <1>1 DEF Kept, StateInv, Holds, Claiming, Completing
<1>3. \A i \in Ids : View(q, i).key # None =>
         View(q, i)'.key = View(q, i).key /\ View(q, i)'.hash = View(q, i).hash
  BY Constants DEF Kept, View
<1>4. \A i \in Ids : rows[i].key # None =>
         rows'[i].key = rows[i].key /\ rows'[i].hash = rows[i].hash
  BY Constants DEF Kept
<1>5. pc[q] = "select" => Found(q)' # {}
  BY <1>1, <1>3, Constants DEF StateInv, Phase, Found, TypeInv, ArgumentsOK
<1>6. \A i \in Ids : owner[i] = q => owner'[i] = q
  BY DEF Kept
<1>7. Phase(q)'
  BY <1>1, <1>3, <1>4, <1>5, <1>6, Constants
     DEF StateInv, Phase, TypeInv, ArgumentsOK
<1> QED BY <1>2, <1>7

(* A step of p that touches no row.                                         *)
LEMMA LocalState ==
    ASSUME TypeInv, StateInv, NEW p \in Procs, OthersSame(p),
           UNCHANGED <<db, results>>, Holds(p)', Phase(p)'
    PROVE  StateInv'
<1>1. Kept(p)
  BY DEF Kept, db
<1>2. \A q \in Procs : Holds(q)' /\ Phase(q)'
  BY <1>1, OthersHold
<1> QED BY <1>2 DEF StateInv, IndexInv, Entries, NoneUnclaimed, OneResult, db

(* A call that gives up.                                                    *)
LEMMA RollbackState ==
    ASSUME TypeInv, StateInv, NEW p \in Procs, Unlock(p), End(p),
           UNCHANGED <<rows, used, results>>
    PROVE  StateInv'
<1>1. /\ OthersSame(p)
      /\ pc'[p] = "idle" /\ call'[p] = NoCall /\ out'[p] = NoOut
  BY DEF OthersSame, End, Goto, TypeInv, TypeOK
<1>2. \A i \in Ids : IF owner[i] = p THEN owner'[i] = None /\ dirty'[i] = NoRow
                     ELSE owner'[i] = owner[i] /\ dirty'[i] = dirty[i]
  BY DEF Unlock
<1>3. Kept(p)
  BY <1>2, Constants DEF Kept
<1>4. Holds(p)' /\ Phase(p)'
  BY <1>1, <1>2, Constants DEF Holds, Phase, NoOut
<1>5. \A q \in Procs : Holds(q)' /\ Phase(q)'
  BY <1>1, <1>3, <1>4, OthersHold
<1>6. IndexInv'
  BY <1>2, Constants DEF StateInv, IndexInv, Entries
<1> QED BY <1>5, <1>6 DEF StateInv, NoneUnclaimed, OneResult
LEMMA StateStep == TypeInv /\ StateInv /\ [Next]_vars => StateInv'
<1> SUFFICES ASSUME TypeInv, StateInv, [Next]_vars PROVE StateInv'
  OBVIOUS
<1> USE Constants
<1>1. ASSUME NEW p \in Procs, UNCHANGED <<db, results>>, OthersSame(p),
             pc[p] = "idle", pc'[p] \in {"insert", "scan"}, out'[p] = out[p]
      PROVE  StateInv'
  <2>1. Holds(p)'
    BY <1>1 DEF StateInv, Holds, Claiming, Completing, db
  <2>2. Phase(p)'
    BY <1>1 DEF StateInv, Phase
  <2> QED BY <1>1, <2>1, <2>2, LocalState
<1>2. ASSUME NEW p \in Procs, NEW k \in Keys, NEW h \in Hashes, BeginClaim(p, k, h)
      PROVE  StateInv'
  BY <1>1, <1>2 DEF BeginClaim, OthersSame, Goto, record, TypeInv, TypeOK
<1>3. ASSUME NEW p \in Procs, NEW i \in Ids, NEW to \in Outcome, BeginComplete(p, i, to)
      PROVE  StateInv'
  BY <1>1, <1>3 DEF BeginComplete, OthersSame, Goto, record, TypeInv, TypeOK
<1>4. ASSUME NEW p \in Procs, Insert(p)
      PROVE  StateInv'
  <2> DEFINE k == call[p].key
  <2>1. PICK i \in Ids \ used :
          Write(p, i, NewRow(call[p])) /\ used' = used \cup {i}
    BY <1>4 DEF Insert
  <2>2. /\ pc[p] = "insert" /\ pc'[p] = "select" /\ OthersSame(p)
        /\ UNCHANGED <<rows, call, out, results>>
        /\ Entries(k) = {} /\ k \in Keys /\ call[p].hash \in Hashes
    BY <1>4 DEF Insert, OthersSame, Goto, record, TypeInv, TypeOK, ArgumentsOK
  <2>3. /\ rows[i] = NoRow /\ owner[i] = None
        /\ owner'[i] = p /\ dirty'[i] = NewRow(call[p])
        /\ \A j \in Ids \ {i} : owner'[j] = owner[j] /\ dirty'[j] = dirty[j]
    BY <2>1 DEF StateInv, IndexInv, Write, TypeInv, TypeOK
  <2>4. dirty'[i].key = k /\ dirty'[i].hash = call[p].hash /\ dirty'[i].state = "AUTHORIZED"
    BY <2>3 DEF NewRow
  <2>5. Kept(p)
    BY <2>2, <2>3 DEF Kept
  <2>6. Holds(p)'
    <3>1. \A j \in Ids : owner[j] # p
      BY <2>2 DEF StateInv, Holds, Claiming, Completing
    <3> QED BY <2>2, <2>3, <2>4, <3>1 DEF Holds, Claiming
  <2>7. Phase(p)'
    <3>1. i \in Found(p)'
      BY <2>2, <2>3, <2>4 DEF Found, View
    <3> QED BY <2>2, <3>1 DEF StateInv, Phase
  <2>8. IndexInv'
    <3>1. dirty[i] = NoRow
      BY <2>3 DEF TypeInv, LocksOK
    <3>2. \A l \in Keys, j \in Ids :
             j \in Entries(l)' <=> (j = i /\ l = k) \/ j \in Entries(l)
      BY <2>2, <2>3, <2>4, <3>1 DEF Entries
    <3>3. \A l \in Keys : \A j, m \in Entries(l)' : j = m
      BY <2>2, <3>2 DEF Entries, StateInv, IndexInv
    <3> QED BY <2>1, <2>2, <2>3, <3>3 DEF StateInv, IndexInv
  <2> QED BY <2>2, <2>5, <2>6, <2>7, <2>8, OthersHold
          DEF StateInv, NoneUnclaimed, OneResult
<1>5. ASSUME NEW p \in Procs, InsertNothing(p)
      PROVE  StateInv'
  <2>1. /\ pc[p] = "insert" /\ pc'[p] = "select" /\ OthersSame(p)
        /\ UNCHANGED <<db, call, out, results>>
        /\ call[p].key \in Keys
    BY <1>5 DEF InsertNothing, OthersSame, Goto, record, TypeInv, TypeOK, ArgumentsOK
  <2>2. Holds(p)'
    BY <2>1 DEF StateInv, Holds, Claiming, Completing, db
  <2>3. PICK i \in Entries(call[p].key) : ~LockedByOther(p, i)
    BY <1>5 DEF InsertNothing, InsertWaits
  <2>4. i \in Ids /\ owner[i] = None
    BY <2>1, <2>3 DEF LockedByOther, Entries, StateInv, Holds, Claiming, Completing
  <2>5. rows[i].key = call[p].key
    BY <2>1, <2>3, <2>4 DEF Entries, TypeInv, LocksOK
  <2>6. i \in Found(p)'
    BY <2>1, <2>4, <2>5 DEF Found, View, db
  <2>7. Phase(p)'
    BY <2>1, <2>6 DEF StateInv, Phase
  <2> QED BY <2>1, <2>2, <2>7, LocalState
<1>6. ASSUME NEW p \in Procs, Select(p)
      PROVE  StateInv'
  <2>1. PICK i \in Found(p) :
          /\ SameRequest(call[p], View(p, i))
          /\ out' = [out EXCEPT ![p] = [id |-> i, claimed |-> FALSE, state |-> "NONE"]]
    BY <1>6 DEF Select
  <2>2. /\ pc[p] = "select" /\ pc'[p] = "cas" /\ OthersSame(p)
        /\ UNCHANGED <<db, call, results>>
        /\ call[p].key \in Keys
        /\ out'[p] = [id |-> i, claimed |-> FALSE, state |-> "NONE"]
    BY <1>6, <2>1 DEF Select, OthersSame, Goto, record, TypeInv, TypeOK, ArgumentsOK
  <2>3. /\ i \in Ids /\ i \in Entries(call[p].key)
        /\ View(p, i).key = call[p].key /\ View(p, i).hash = call[p].hash
    BY <2>1 DEF Found, SameRequest, Entries, View
  <2>4. \A j \in Ids : owner[j] = p => j \in Entries(call[p].key) /\ Claiming(p, j)
    BY <2>2 DEF StateInv, Holds, Claiming, Completing, Entries
  <2>5. Holds(p)'
    BY <2>2, <2>3, <2>4 DEF StateInv, IndexInv, Holds, Claiming, db
  <2>6. Phase(p)'
    BY <2>2, <2>3 DEF Phase, View, db
  <2> QED BY <2>2, <2>5, <2>6, LocalState
<1>7. ASSUME NEW p \in Procs, Fail(p)
      PROVE  StateInv'
  BY <1>7, RollbackState DEF Fail, record
<1>8. ASSUME NEW p \in Procs, Claim(p)
      PROVE  StateInv'
  <2> DEFINE i == out[p].id
  <2>1. /\ pc[p] = "cas" /\ pc'[p] = "refresh" /\ OthersSame(p)
        /\ UNCHANGED <<rows, used, call, results>>
        /\ i \in Ids /\ call[p].key \in Keys /\ ~out[p].claimed
        /\ View(p, i).key = call[p].key /\ View(p, i).hash = call[p].hash
    BY <1>8 DEF Claim, OthersSame, Goto, record, TypeInv, TypeOK, ArgumentsOK,
                StateInv, Phase
  <2>2. CASE MayClaim(View(p, i))
    <3>1. owner[i] = p /\ Claiming(p, i)
      BY <2>1, <2>2 DEF MayClaim, View, StateInv, NoneUnclaimed, Holds, Completing
    <3>2. /\ owner'[i] = p /\ dirty'[i] = Claimed(dirty[i])
          /\ \A j \in Ids \ {i} : owner'[j] = owner[j] /\ dirty'[j] = dirty[j]
          /\ out'[p].claimed /\ out'[p].id = i
      BY <1>8, <2>1, <2>2, <3>1 DEF Claim, Write, View, TypeInv, TypeOK, Out
    <3>3. dirty[i] \in Row
      BY <2>1, <3>1 DEF TypeInv, LocksOK
    <3>4. /\ dirty'[i].key = dirty[i].key /\ dirty'[i].hash = dirty[i].hash
          /\ dirty'[i].state = "EXECUTING"
      BY <3>2, <3>3 DEF Claimed, Row
    <3>5. Kept(p)
      BY <2>1, <3>1, <3>2 DEF Kept
    <3>6. Holds(p)'
      <4>1. \A j \in Ids : owner[j] = p => j = i
        BY <2>1 DEF StateInv, Holds, Claiming, Completing
      <4> QED BY <2>1, <3>1, <3>2, <3>4, <4>1 DEF Holds, Claiming
    <3>7. Phase(p)'
      BY <2>1, <3>2 DEF Phase
    <3>8. IndexInv'
      <4>1. \A l \in Keys : Entries(l)' = Entries(l)
        BY <2>1, <3>2, <3>4 DEF Entries
      <4> QED BY <2>1, <3>1, <3>2, <3>4, <4>1 DEF StateInv, IndexInv
    <3> QED BY <2>1, <3>5, <3>6, <3>7, <3>8, OthersHold
            DEF StateInv, NoneUnclaimed, OneResult
  <2>3. CASE ~MayClaim(View(p, i))
    <3>1. UNCHANGED <<owner, dirty, out>>
      BY <1>8, <2>3 DEF Claim
    <3>2. \A j \in Ids : owner[j] # p
      BY <2>1, <2>3 DEF MayClaim, View, StateInv, Holds, Claiming, Completing
    <3>3. Holds(p)' /\ Phase(p)'
      BY <2>1, <3>1, <3>2 DEF Holds, Phase, View
    <3> QED BY <2>1, <3>1, <3>3, LocalState DEF db
  <2> QED BY <2>2, <2>3
<1>9. ASSUME NEW p \in Procs, Refresh(p)
      PROVE  StateInv'
  <2> DEFINE i == out[p].id
  <2>1. /\ pc[p] = "refresh" /\ pc'[p] = "finish" /\ OthersSame(p)
        /\ UNCHANGED <<db, call, results>>
        /\ i \in Ids /\ call[p].key \in Keys
        /\ out'[p].id = i /\ out'[p].claimed = out[p].claimed
        /\ out'[p].state = View(p, i).state
    BY <1>9 DEF Refresh, OthersSame, Goto, record, TypeInv, TypeOK, ArgumentsOK, Out
  <2>2. Holds(p)'
    BY <2>1 DEF StateInv, Holds, Claiming, Completing, db
  <2>3. ~out[p].claimed => View(p, i).state \in {"EXECUTING"} \cup Outcome
    <3> SUFFICES ASSUME ~out[p].claimed PROVE View(p, i).state \in {"EXECUTING"} \cup Outcome
      OBVIOUS
    <3>1. owner[i] # p /\ rows[i].key = call[p].key
      BY <2>1 DEF StateInv, Holds, Phase, Claiming, Completing
    <3>2. rows[i] \in Row /\ rows[i].state # "AUTHORIZED"
      BY <2>1, <3>1 DEF TypeInv, TypeOK, StateInv, NoneUnclaimed
    <3> QED BY <3>1, <3>2 DEF View, Row, ExecutionState
  <2>4. Phase(p)'
    BY <2>1, <2>3 DEF StateInv, Phase, db
  <2> QED BY <2>1, <2>2, <2>4, LocalState
<1>10. ASSUME NEW p \in Procs, ScanCompletion(p)
       PROVE  StateInv'
  <2>1. /\ pc[p] = "scan" /\ pc'[p] = "complete" /\ OthersSame(p)
        /\ UNCHANGED <<db, call, out, results>>
    BY <1>10 DEF ScanCompletion, OthersSame, Goto, record, TypeInv, TypeOK
  <2>2. Holds(p)'
    BY <2>1 DEF StateInv, Holds, Claiming, Completing, db
  <2>3. Phase(p)'
    BY <2>1 DEF StateInv, Phase
  <2> QED BY <2>1, <2>2, <2>3, LocalState
<1>11. ASSUME NEW p \in Procs, Complete(p)
       PROVE  StateInv'
  <2> DEFINE i == call[p].id
             r == [rows[i] EXCEPT !.state = call[p].to]
  <2>1. /\ pc[p] = "complete" /\ pc'[p] = "finish" /\ OthersSame(p)
        /\ UNCHANGED <<rows, used, call, results>>
        /\ i \in Ids /\ call[p].to \in Outcome /\ call[p].key = None
        /\ rows[i].state = "EXECUTING" /\ owner[i] \in {p, None}
        /\ Write(p, i, r)
    BY <1>11 DEF Complete, MayComplete, LockedByOther, OthersSame, Goto, record,
                 TypeInv, TypeOK, ArgumentsOK
  <2>2. out'[p].claimed = out[p].claimed /\ out'[p].id = i
    BY <1>11 DEF Complete, TypeInv, TypeOK, Out
  <2>3. \A j \in Ids : owner[j] # p
    BY <2>1 DEF StateInv, Holds, Claiming, Completing
  <2>4. rows[i] # NoRow /\ rows[i] \in Row
    BY <2>1 DEF TypeInv, TypeOK
  <2>5. /\ owner'[i] = p /\ dirty'[i].state = call[p].to
        /\ dirty'[i].key = rows[i].key /\ dirty'[i].hash = rows[i].hash
        /\ \A j \in Ids \ {i} : owner'[j] = owner[j] /\ dirty'[j] = dirty[j]
    BY <2>1, <2>4 DEF Write, TypeInv, TypeOK, Row
  <2>6. Kept(p)
    BY <2>1, <2>3, <2>5 DEF Kept
  <2>7. Holds(p)'
    BY <2>1, <2>3, <2>5 DEF Holds, Completing
  <2>8. Phase(p)'
    BY <2>1, <2>2, <2>5 DEF StateInv, Phase
  <2>9. IndexInv'
    <3>1. \A l \in Keys : Entries(l)' = Entries(l)
      BY <2>1, <2>3, <2>5 DEF Entries, TypeInv, LocksOK
    <3>2. i \in used
      BY <2>1, <2>4 DEF StateInv, IndexInv
    <3> QED BY <2>1, <2>5, <3>1, <3>2 DEF StateInv, IndexInv
  <2> QED BY <2>1, <2>6, <2>7, <2>8, <2>9, OthersHold
          DEF StateInv, NoneUnclaimed, OneResult
<1>12. ASSUME NEW p \in Procs, Commit(p)
       PROVE  StateInv'
  <2>1. /\ pc[p] \in {"finish", "replied"}
        /\ OthersSame(p) /\ UNCHANGED used
        /\ RecordExecutionEvent(p)
        /\ \/ CommitFirst /\ pc'[p] = "committed" /\ UNCHANGED <<call, out>>
           \/ pc'[p] = "idle" /\ call'[p] = NoCall /\ out'[p] = NoOut
    BY <1>12 DEF Commit, End, OthersSame, Goto, TypeInv, TypeOK
  <2>2. \A i \in Ids : IF owner[i] = p
                      THEN rows'[i] = dirty[i] /\ owner'[i] = None /\ dirty'[i] = NoRow
                      ELSE rows'[i] = rows[i] /\ owner'[i] = owner[i] /\ dirty'[i] = dirty[i]
    BY <1>12 DEF Commit, Unlock, View
  <2>3. Kept(p)
    BY <2>2 DEF Kept, StateInv, IndexInv
  <2>4. Holds(p)'
    BY <2>2 DEF Holds
  <2>5. Phase(p)'
    BY <2>1, <2>2 DEF StateInv, Holds, Claiming, Completing, Phase, NoOut,
                      TypeInv, ArgumentsOK
  <2>6. IndexInv'
    <3>1. \A l \in Keys : Entries(l)' \subseteq Entries(l)
      BY <2>2 DEF Entries
    <3>2. \A j \in Ids : dirty[j] # NoRow => owner[j] # None
      BY DEF TypeInv, LocksOK
    <3> QED BY <2>1, <2>2, <3>1, <3>2 DEF StateInv, IndexInv
  <2>7. \A i \in Ids : owner[i] = p => dirty[i].state \in {"EXECUTING"} \cup Outcome
    BY <2>1 DEF StateInv, Holds, Claiming, Completing
  <2>8. NoneUnclaimed'
    BY <2>2, <2>7 DEF StateInv, NoneUnclaimed, Outcome
  <2>9. OneResult'
    <3>1. CASE call[p].to \in Outcome
      <4> DEFINE i == call[p].id
      <4>1. i \in Ids /\ owner[i] = p
        BY <2>1, <3>1 DEF TypeInv, ArgumentsOK, StateInv, Phase
      <4>2. rows[i].state = "EXECUTING" /\ dirty[i].state = call[p].to
        BY <3>1, <4>1 DEF StateInv, Holds, Claiming, Completing, TypeInv, ArgumentsOK
      <4>3. \A j \in Ids \ {i} : rows'[j] = rows[j]
        BY <2>2, <3>1 DEF StateInv, Holds, Claiming, Completing, TypeInv, ArgumentsOK
      <4>4. rows'[i].state = call[p].to
        BY <2>2, <4>1, <4>2
      <4>5. \A s \in Outcome : results[i][s] = 0
        BY <4>1, <4>2 DEF StateInv, OneResult, Outcome, TypeInv, TypeOK
      <4>6. /\ \A j \in Ids \ {i} : results'[j] = results[j]
            /\ \A s \in Outcome : results'[i][s] <= IF s = call[p].to THEN 1 ELSE 0
        BY <2>1, <3>1, <4>1, <4>5 DEF RecordExecutionEvent, TypeInv, TypeOK
      <4> SUFFICES ASSUME NEW j \in Ids, NEW s \in Outcome
                   PROVE  results'[j][s] <= IF rows'[j].state = s THEN 1 ELSE 0
        BY DEF OneResult
      <4>7. CASE j = i
        BY <4>4, <4>6, <4>7
      <4>8. CASE j # i
        BY <4>3, <4>6, <4>8 DEF StateInv, OneResult
      <4> QED BY <4>7, <4>8
    <3>2. CASE call[p].to \notin Outcome
      <4>1. \A j \in Ids : owner[j] = p => rows[j] = NoRow /\ dirty[j].state = "EXECUTING"
        BY <2>1, <3>2 DEF StateInv, Holds, Claiming, Completing
      <4>2. results' = results
        BY <2>1, <3>2 DEF RecordExecutionEvent
      <4>3. \A j \in Ids, s \in Outcome : rows'[j].state = s \/ rows[j].state # s
        BY <2>2, <4>1 DEF Outcome, NoRow
      <4> QED BY <4>2, <4>3 DEF StateInv, OneResult, TypeInv, TypeOK
    <3> QED BY <3>1, <3>2
  <2> QED BY <2>1, <2>3, <2>4, <2>5, <2>6, <2>8, <2>9, OthersHold DEF StateInv
<1>13. ASSUME NEW p \in Procs, Reply(p)
       PROVE  StateInv'
  <2>1. /\ pc[p] = IF CommitFirst THEN "committed" ELSE "finish"
        /\ OthersSame(p) /\ UNCHANGED <<db, results>>
        /\ IF CommitFirst
           THEN pc'[p] = "idle" /\ call'[p] = NoCall /\ out'[p] = NoOut
           ELSE pc'[p] = "replied" /\ UNCHANGED <<call, out>>
    BY <1>13 DEF Reply, End, OthersSame, Goto, TypeInv, TypeOK
  <2>2. Holds(p)'
    BY <2>1 DEF StateInv, Holds, Claiming, Completing, db
  <2>3. Phase(p)'
    BY <2>1 DEF StateInv, Phase, NoOut, db
  <2> QED BY <2>1, <2>2, <2>3, LocalState
<1>14. ASSUME NEW p \in Procs, Crash(p)
       PROVE  StateInv'
  BY <1>14, RollbackState DEF Crash
<1>15. CASE UNCHANGED vars
  BY <1>15 DEF vars, StateInv, IndexInv, Entries, NoneUnclaimed, OneResult, Holds,
               Claiming, Completing, Phase, Found, View
<1> QED
  BY <1>2, <1>3, <1>4, <1>5, <1>6, <1>7, <1>8, <1>9, <1>10, <1>11, <1>12, <1>13,
     <1>14, <1>15 DEF Next, Run, KeyReused, NotExecuting
LEMMA StateInvariant == Spec => []StateInv
  BY TypeInvariant, InitStateInv, StateStep, PTL DEF Spec

(* The UNIQUE (org, key) index makes claim_execution's assertion good: the  *)
(* SELECT after INSERT .. ON CONFLICT DO NOTHING finds the row of the key.  *)
THEOREM SelectFindsRowHolds == Spec => []SelectFindsRow
<1>1. StateInv => SelectFindsRow
  BY DEF StateInv, Phase, SelectFindsRow
<1> QED BY <1>1, StateInvariant, PTL

(* What a duplicate is answered is about a committed execution of its key   *)
(* and canonical request that has been claimed.                             *)
THEOREM DuplicateIsRecordedHolds == Spec => []DuplicateIsRecorded
<1>1. StateInv => DuplicateIsRecorded
  BY DEF StateInv, Phase, DuplicateIsRecorded
<1> QED BY <1>1, StateInvariant, PTL

(* An execution has one result event at most, of the outcome it keeps: the  *)
(* compare-and-set of a completion admits one of several that race.         *)
THEOREM OneResultHolds == Spec => []OneResult
<1>1. StateInv => OneResult
  BY DEF StateInv
<1> QED BY <1>1, StateInvariant, PTL

-----------------------------------------------------------------------------
(* OneWinner.  Who has been told, against whose claim is behind it.         *)
Recorded(k) == \E i \in Ids : rows[i].key = k

(* A claim of k has been answered and its transaction is still open.        *)
Granted(k) == \E p \in Procs : pc[p] = "replied" /\ out[p].claimed /\ call[p].key = k

(* A committed claim whose caller waits for the answer.                     *)
Owed(p) == pc[p] = "committed" /\ out[p].claimed

(* A key no committed or answered claim stands behind was granted only by   *)
(* transactions that were lost, and a claim owed its answer is its key's.   *)
CountInv ==
    /\ \A k \in Keys :
         /\ won[k] <= 1 + lost[k]
         /\ ~Recorded(k) /\ ~Granted(k) => won[k] <= lost[k]
    /\ \A p \in Procs : Owed(p) =>
         /\ won[call[p].key] <= lost[call[p].key]
         /\ \A q \in Procs \ {p} : Owed(q) => call[q].key # call[p].key

LEMMA InitCountInv == Init => CountInv
  BY DEF Init, CountInv, Owed

(* Where a claim that won stands.                                           *)
LEMMA WinnersKey ==
    ASSUME TypeInv, StateInv, NEW p \in Procs, out[p].claimed
    PROVE  /\ call[p].key \in Keys /\ out[p].id \in Ids
           /\ pc[p] = "committed" => rows[out[p].id].key = call[p].key
           /\ pc[p] # "committed" =>
                /\ pc[p] \in {"refresh", "finish", "replied"}
                /\ owner[out[p].id] = p /\ rows[out[p].id] = NoRow
                /\ dirty[out[p].id].key = call[p].key
                /\ dirty[out[p].id].state = "EXECUTING"
                /\ \A i \in Ids : owner[i] = p => i = out[p].id
                /\ ~Recorded(call[p].key)
<1>1. /\ call[p].key \in Keys /\ call[p].key # None /\ call[p].to \notin Outcome
      /\ out[p].id \in Ids
      /\ pc[p] \in {"refresh", "finish", "committed", "replied"}
  BY DEF StateInv, Phase, TypeInv, TypeOK, ArgumentsOK, Call
<1>2. pc[p] = "committed" => rows[out[p].id].key = call[p].key
  BY <1>1 DEF StateInv, Phase
<1>3. ASSUME pc[p] # "committed"
      PROVE  /\ owner[out[p].id] = p /\ Claiming(p, out[p].id)
             /\ \A i \in Ids : owner[i] = p => i = out[p].id
  BY <1>1, <1>3 DEF StateInv, Phase, Holds, Claiming, Completing
<1>4. ASSUME pc[p] # "committed" PROVE ~Recorded(call[p].key)
  <2>1. out[p].id \in Entries(call[p].key)
    BY <1>1, <1>3, <1>4 DEF Entries, Claiming
  <2>2. rows[out[p].id].key # call[p].key
    BY <1>1, <1>3, <1>4, Constants DEF Claiming
  <2> QED BY <1>1, <2>1, <2>2 DEF Recorded, Entries, StateInv, IndexInv
<1> QED BY <1>1, <1>2, <1>3, <1>4 DEF Claiming

(* A step that grants nothing, loses no answer and forgets no row.          *)
LEMMA CountLocal ==
    ASSUME TypeInv, CountInv, NEW p \in Procs, OthersSame(p), UNCHANGED <<won, lost>>,
           \A k \in Keys : Recorded(k) => Recorded(k)',
           ~Owed(p)', pc[p] = "replied" => ~out[p].claimed
    PROVE  CountInv'
<1>1. \A k \in Keys : Granted(k) => Granted(k)'
  BY DEF Granted, OthersSame
<1>2. \A q \in Procs : Owed(q)' => Owed(q) /\ call'[q] = call[q]
  BY DEF Owed, OthersSame
<1> QED BY <1>1, <1>2 DEF CountInv

LEMMA CountStep == TypeInv /\ StateInv /\ CountInv /\ [Next]_vars => CountInv'
<1> SUFFICES ASSUME TypeInv, StateInv, CountInv, [Next]_vars PROVE CountInv'
  OBVIOUS
<1> USE Constants
<1>1. ASSUME NEW p \in Procs,
             \/ \E k \in Keys, h \in Hashes : BeginClaim(p, k, h)
             \/ \E i \in Ids, to \in Outcome : BeginComplete(p, i, to)
             \/ Insert(p) \/ InsertNothing(p) \/ Select(p) \/ Claim(p) \/ Refresh(p)
             \/ ScanCompletion(p) \/ Complete(p)
      PROVE  CountInv'
  <2>1. /\ UNCHANGED <<rows, won, lost>> /\ OthersSame(p)
        /\ pc[p] # "replied" /\ pc'[p] # "committed"
    BY <1>1 DEF BeginClaim, BeginComplete, Insert, InsertNothing, Select, Claim,
                Refresh, ScanCompletion, Complete, Goto, OthersSame, db, record,
                TypeInv, TypeOK
  <2> QED BY <2>1, CountLocal DEF Recorded, Owed
<1>2. ASSUME NEW p \in Procs, KeyReused(p) \/ NotExecuting(p)
      PROVE  CountInv'
  <2>1. Fail(p) /\ pc[p] # "replied"
    BY <1>2 DEF KeyReused, NotExecuting
  <2>2. UNCHANGED <<rows, won, lost>> /\ OthersSame(p) /\ pc'[p] = "idle"
    BY <2>1 DEF Fail, End, Goto, OthersSame, record, TypeInv, TypeOK
  <2> QED BY <2>1, <2>2, CountLocal DEF Recorded, Owed
<1>3. ASSUME NEW p \in Procs, Commit(p)
      PROVE  CountInv'
  <2>1. UNCHANGED <<won, lost>> /\ OthersSame(p)
    BY <1>3 DEF Commit, End, Goto, OthersSame, TypeInv, TypeOK
  <2>2. \A i \in Ids : rows'[i] = IF owner[i] = p THEN dirty[i] ELSE rows[i]
    BY <1>3 DEF Commit, View
  <2>3. \A k \in Keys : Recorded(k) => Recorded(k)'
    BY <2>2 DEF Recorded, StateInv, IndexInv
  <2>4. CASE ~out[p].claimed
    <3>1. ~Owed(p)'
      BY <1>3, <2>4 DEF Commit, End, Goto, Owed, NoOut, TypeInv, TypeOK
    <3> QED BY <2>1, <2>3, <2>4, <3>1, CountLocal
  <2>5. CASE out[p].claimed /\ ~CommitFirst
    <3>1. pc[p] = "replied" /\ pc'[p] = "idle"
      BY <1>3, <2>5 DEF Commit, End, Goto, TypeInv, TypeOK
    <3> PICK k \in Keys : k = call[p].key
      BY <2>5, WinnersKey
    <3>2. Recorded(k)'
      BY <2>2, <2>5, <3>1, WinnersKey DEF Recorded
    <3>3. \A l \in Keys \ {k} : Granted(l) => Granted(l)'
      BY <2>1 DEF Granted, OthersSame
    <3>4. \A q \in Procs : Owed(q)' => Owed(q) /\ call'[q] = call[q]
      BY <2>1, <3>1 DEF Owed, OthersSame
    <3> QED BY <2>1, <2>3, <3>2, <3>3, <3>4 DEF CountInv
  <2>6. CASE out[p].claimed /\ CommitFirst
    <3> DEFINE k == call[p].key
    <3>1. pc[p] = "finish" /\ UNCHANGED <<call, out>>
      BY <1>3, <2>6 DEF Commit, TypeInv, TypeOK
    <3>2. k \in Keys /\ ~Recorded(k)
      BY <2>6, <3>1, WinnersKey
    <3>3. \A l \in Keys : ~Granted(l)
      BY <2>6 DEF Granted, StateInv, Phase
    <3>4. won[k] <= lost[k]
      BY <3>2, <3>3 DEF CountInv
    <3>5. \A q \in Procs : Owed(q) => call[q].key # k
      BY <3>2, WinnersKey DEF Owed, Recorded
    <3>6. \A q \in Procs \ {p} : Owed(q)' <=> Owed(q)
      BY <2>1 DEF Owed, OthersSame
    <3>7. \A l \in Keys : ~Recorded(l)' => won[l] <= lost[l]
      BY <2>3, <3>3 DEF CountInv
    <3> QED BY <2>1, <3>1, <3>4, <3>5, <3>6, <3>7 DEF CountInv
  <2> QED BY <2>4, <2>5, <2>6
<1>4. ASSUME NEW p \in Procs, Reply(p)
      PROVE  CountInv'
  <2>1. /\ UNCHANGED <<rows, owner, dirty, lost>> /\ OthersSame(p)
        /\ pc[p] = (IF CommitFirst THEN "committed" ELSE "finish")
        /\ pc'[p] = (IF CommitFirst THEN "idle" ELSE "replied")
    BY <1>4 DEF Reply, End, Goto, OthersSame, db, TypeInv, TypeOK
  <2>2. CASE ~out[p].claimed
    <3>1. UNCHANGED won
      BY <1>4, <2>2 DEF Reply
    <3> QED BY <2>1, <2>2, <3>1, CountLocal DEF Recorded, Owed
  <2>3. CASE out[p].claimed
    <3> PICK k \in Keys : k = call[p].key
      BY <2>3, WinnersKey
    <3>1. won' = [won EXCEPT ![k] = @ + 1]
      BY <1>4, <2>3 DEF Reply
    <3>2. \A l \in Keys : won[l] \in Nat /\ lost[l] \in Nat
      BY DEF TypeInv, TypeOK
    <3>3. won'[k] = won[k] + 1 /\ \A l \in Keys \ {k} : won'[l] = won[l]
      BY <3>1 DEF TypeInv, TypeOK
    <3>4. won[k] <= lost[k]
      <4>1. CASE CommitFirst
        BY <2>1, <2>3, <4>1 DEF CountInv, Owed
      <4>2. CASE ~CommitFirst
        <5>1. ~Recorded(k) /\ owner[out[p].id] = p /\ out[p].id \in Entries(k)
          BY <2>1, <2>3, <4>2, WinnersKey DEF Entries
        <5>2. ~Granted(k)
          <6> SUFFICES ASSUME NEW q \in Procs, pc[q] = "replied", out[q].claimed,
                              call[q].key = k
                       PROVE  FALSE
            BY DEF Granted
          <6>1. owner[out[q].id] = q /\ out[q].id \in Entries(k)
            BY WinnersKey DEF Entries
          <6> QED BY <2>1, <3>1, <4>2, <5>1, <6>1 DEF StateInv, IndexInv
        <5> QED BY <3>1, <5>1, <5>2 DEF CountInv
      <4> QED BY <4>1, <4>2
    <3>5. Recorded(k)' \/ Granted(k)'
      <4>1. CASE CommitFirst
        BY <2>1, <2>3, <4>1, WinnersKey DEF Recorded
      <4>2. CASE ~CommitFirst
        BY <1>4, <2>1, <2>3, <4>2 DEF Reply, Granted
      <4> QED BY <4>1, <4>2
    <3>6. \A l \in Keys : (Recorded(l)' <=> Recorded(l)) /\ (Granted(l) => Granted(l)')
      BY <2>1 DEF Recorded, Granted, OthersSame
    <3>7. \A q \in Procs : Owed(q)' => q # p /\ Owed(q) /\ call'[q] = call[q]
      BY <2>1 DEF Owed, OthersSame
    <3>8. \A q \in Procs : Owed(q)' => call[q].key \in Keys \ {k}
      <4> SUFFICES ASSUME NEW q \in Procs, Owed(q)'
                   PROVE  call[q].key \in Keys \ {k}
        OBVIOUS
      <4>1. q # p /\ Owed(q) /\ call[q].key \in Keys
        BY <3>7, WinnersKey DEF Owed
      <4>2. CommitFirst
        BY <4>1 DEF Owed, StateInv, Phase
      <4> QED BY <2>1, <2>3, <4>1, <4>2 DEF CountInv, Owed
    <3>9. \A l \in Keys : /\ won'[l] <= 1 + lost[l]
                          /\ ~Recorded(l)' /\ ~Granted(l)' => won'[l] <= lost[l]
      BY <3>1, <3>2, <3>3, <3>4, <3>5, <3>6 DEF CountInv
    <3> QED BY <2>1, <3>3, <3>7, <3>8, <3>9 DEF CountInv
  <2> QED BY <2>2, <2>3
<1>5. ASSUME NEW p \in Procs, Crash(p)
      PROVE  CountInv'
  <2>1. UNCHANGED <<rows, won>> /\ OthersSame(p) /\ pc'[p] = "idle"
    BY <1>5 DEF Crash, End, Goto, OthersSame, TypeInv, TypeOK
  <2>2. CASE ~(pc[p] = "replied" /\ out[p].claimed)
    BY <1>5, <2>1, <2>2, CountLocal DEF Crash, Recorded, Owed
  <2>3. CASE pc[p] = "replied" /\ out[p].claimed
    <3> DEFINE k == call[p].key
    <3>1. k \in Keys /\ lost' = [lost EXCEPT ![k] = @ + 1]
      BY <1>5, <2>3, WinnersKey DEF Crash
    <3>2. \A l \in Keys : won[l] \in Nat /\ lost[l] \in Nat
      BY DEF TypeInv, TypeOK
    <3>3. lost'[k] = lost[k] + 1 /\ \A l \in Keys \ {k} : lost'[l] = lost[l]
      BY <3>1 DEF TypeInv, TypeOK
    <3>4. \A l \in Keys : Recorded(l)' <=> Recorded(l)
      BY <2>1 DEF Recorded
    <3>5. \A l \in Keys \ {k} : Granted(l) => Granted(l)'
      BY <2>1 DEF Granted, OthersSame
    <3>6. \A q \in Procs : ~Owed(q)'
      BY <2>1, <2>3 DEF Owed, OthersSame, StateInv, Phase
    <3> QED BY <2>1, <3>1, <3>2, <3>3, <3>4, <3>5, <3>6 DEF CountInv
  <2> QED BY <2>2, <2>3
<1>6. CASE UNCHANGED vars
  BY <1>6 DEF vars, CountInv, Owed, Recorded, Granted
<1> QED BY <1>1, <1>2, <1>3, <1>4, <1>5, <1>6 DEF Next, Run

LEMMA CountInvariant == Spec => []CountInv
  BY TypeInvariant, StateInvariant, InitCountInv, CountStep, PTL DEF Spec

(* At most one caller per key is told to perform the side effect, and one   *)
(* more at most for every transaction that was lost after it had answered,  *)
(* whichever way round get_db commits and FastAPI answers.                  *)
THEOREM OneWinnerHolds == Spec => []OneWinner
<1>1. CountInv => OneWinner
  BY DEF CountInv, OneWinner
<1> QED BY <1>1, CountInvariant, PTL
-----------------------------------------------------------------------------
(* With the commit first no answered transaction is lost, and none at all   *)
(* where none dies.                                                         *)
Lossless == CommitFirst \/ MaxCrashes = 0

NoneLost == Lossless => \A k \in Keys : lost[k] = 0

LEMMA LostStep == TypeInv /\ StateInv /\ NoneLost /\ [Next]_vars => NoneLost'
<1> SUFFICES ASSUME TypeInv, StateInv, NoneLost, [Next]_vars, Lossless
             PROVE  \A k \in Keys : lost'[k] = 0
  BY DEF NoneLost
<1>1. (\A p \in Procs : pc[p] # "replied") \/ ~(crashes < MaxCrashes)
  BY DEF StateInv, Phase, Lossless, TypeInv, TypeOK
<1>2. UNCHANGED lost
  BY <1>1 DEF Next, Run, BeginClaim, BeginComplete, Insert, InsertNothing, Select,
      KeyReused, Claim, Refresh, ScanCompletion, Complete, NotExecuting, Commit,
      Reply, Crash, Fail, vars, record
<1> QED BY <1>2 DEF NoneLost

(* Where the answer comes first, a committed row was granted before, and so *)
(* was the claim of whoever has answered it.                                *)
GrantedInv ==
    ~CommitFirst =>
        /\ \A i \in Ids : rows[i] # NoRow => won[rows[i].key] >= 1
        /\ \A p \in Procs :
             pc[p] = "replied" /\ out[p].claimed => won[call[p].key] >= 1

LEMMA InitGrantedInv == Init => GrantedInv
  BY DEF Init, GrantedInv

LEMMA GrantedStep == TypeInv /\ StateInv /\ GrantedInv /\ [Next]_vars => GrantedInv'
<1> SUFFICES ASSUME TypeInv, StateInv, GrantedInv, [Next]_vars, ~CommitFirst
             PROVE  GrantedInv'
  BY DEF GrantedInv
<1> USE Constants
<1>1. ASSUME NEW p \in Procs,
             \/ \E k \in Keys, h \in Hashes : BeginClaim(p, k, h)
             \/ \E i \in Ids, to \in Outcome : BeginComplete(p, i, to)
             \/ Insert(p) \/ InsertNothing(p) \/ Select(p) \/ KeyReused(p)
             \/ Claim(p) \/ Refresh(p)
             \/ ScanCompletion(p) \/ Complete(p) \/ NotExecuting(p)
             \/ Crash(p)
      PROVE  GrantedInv'
  <2>1. UNCHANGED <<rows, won>>
    BY <1>1 DEF BeginClaim, BeginComplete, Insert, InsertNothing, Select, KeyReused,
                Claim, Refresh, ScanCompletion, Complete, NotExecuting, Crash, Fail,
                db, record
  <2>2. pc'[p] # "replied"
    BY <1>1 DEF BeginClaim, BeginComplete, Insert, InsertNothing, Select, KeyReused,
                Claim, Refresh, ScanCompletion, Complete, NotExecuting, Crash, Fail,
                End, Goto, TypeInv, TypeOK
  <2>3. \A q \in Procs \ {p} : pc'[q] = pc[q] /\ call'[q] = call[q] /\ out'[q] = out[q]
    BY <1>1 DEF BeginClaim, BeginComplete, Insert, InsertNothing, Select, KeyReused,
                Claim, Refresh, ScanCompletion, Complete, NotExecuting, Crash, Fail,
                End, Goto, TypeInv, TypeOK
  <2> QED BY <2>1, <2>2, <2>3 DEF GrantedInv
<1>2. ASSUME NEW p \in Procs, Commit(p)
      PROVE  GrantedInv'
  <2>1. /\ pc[p] = "replied" /\ UNCHANGED won
        /\ \A i \in Ids : rows'[i] = View(p, i)
    BY <1>2 DEF Commit
  <2>2. pc'[p] # "replied"
    BY <1>2 DEF Commit, End, Goto, TypeInv, TypeOK
  <2>3. \A q \in Procs \ {p} : pc'[q] = pc[q] /\ call'[q] = call[q] /\ out'[q] = out[q]
    BY <1>2 DEF Commit, End, Goto, TypeInv, TypeOK
  <2>4. ASSUME NEW i \in Ids, owner[i] = p PROVE won[dirty[i].key] >= 1
    <3>1. CASE Claiming(p, i)
      BY <2>1, <3>1 DEF Claiming, GrantedInv
    <3>2. CASE Completing(p, i)
      BY <2>1, <2>4, <3>2 DEF Completing, GrantedInv, StateInv, IndexInv, NoRow
    <3> QED BY <2>4, <3>1, <3>2 DEF StateInv, Holds
  <2> QED BY <2>1, <2>2, <2>3, <2>4 DEF View, GrantedInv
<1>3. ASSUME NEW p \in Procs, Reply(p)
      PROVE  GrantedInv'
  <2>1. /\ pc' = [pc EXCEPT ![p] = "replied"] /\ UNCHANGED <<rows, call, out>>
    BY <1>3 DEF Reply, Goto, db
  <2>2. CASE ~out[p].claimed
    BY <1>3, <2>1, <2>2 DEF Reply, GrantedInv, TypeInv, TypeOK
  <2>3. CASE out[p].claimed
    <3> PICK k \in Keys : k = call[p].key
      BY <2>3, WinnersKey
    <3>1. won' = [won EXCEPT ![k] = @ + 1]
      BY <1>3, <2>3 DEF Reply
    <3>2. \A l \in Keys : won[l] \in Nat /\ won'[l] \in Nat /\ won'[l] >= won[l]
      BY <3>1 DEF TypeInv, TypeOK
    <3>3. won'[k] >= 1
      BY <3>1 DEF TypeInv, TypeOK
    <3>4. \A i \in Ids : rows[i] # NoRow => rows[i].key \in Keys
      BY DEF TypeInv, TypeOK, Row
    <3>5. \A q \in Procs : out[q].claimed => call[q].key \in Keys
      BY WinnersKey
    <3>6. \A i \in Ids : rows'[i] # NoRow => won'[rows'[i].key] >= 1
      BY <2>1, <3>2, <3>4 DEF GrantedInv
    <3>7. \A q \in Procs : pc'[q] = "replied" /\ out'[q].claimed => won'[call'[q].key] >= 1
      BY <2>1, <3>2, <3>3, <3>5 DEF GrantedInv, TypeInv, TypeOK
    <3> QED BY <3>6, <3>7 DEF GrantedInv
  <2> QED BY <2>2, <2>3
<1>4. CASE UNCHANGED vars
  BY <1>4 DEF vars, GrantedInv
<1> QED BY <1>1, <1>2, <1>3, <1>4 DEF Next, Run

(* The id a claimant was given is of a committed execution whose key was    *)
(* granted, and a completion is sent by such a claimant.                    *)
ToldInv ==
    CommitFirst =>
        /\ \A i \in told : rows[i] # NoRow /\ won[rows[i].key] >= 1
        /\ \A p \in Procs : call[p].to \in Outcome => call[p].id \in told

LEMMA InitToldInv == Init => ToldInv
  BY Constants DEF Init, ToldInv

LEMMA ToldStep == TypeInv /\ StateInv /\ ToldInv /\ [Next]_vars => ToldInv'
<1> SUFFICES ASSUME TypeInv, StateInv, ToldInv, [Next]_vars, CommitFirst
             PROVE  ToldInv'
  BY DEF ToldInv
<1> USE Constants
<1>0. /\ told \subseteq Ids
      /\ \A i \in told : rows[i] \in Row /\ rows[i].key \in Keys
  BY DEF ToldInv, TypeInv, TypeOK, Row
<1>1. ASSUME NEW p \in Procs,
             \/ \E k \in Keys, h \in Hashes : BeginClaim(p, k, h)
             \/ \E i \in Ids, to \in Outcome : BeginComplete(p, i, to)
             \/ Insert(p) \/ InsertNothing(p) \/ Select(p) \/ KeyReused(p)
             \/ Claim(p) \/ Refresh(p)
             \/ ScanCompletion(p) \/ Complete(p) \/ NotExecuting(p)
             \/ Crash(p)
      PROVE  ToldInv'
  <2>1. UNCHANGED <<rows, won, told>>
    BY <1>1 DEF BeginClaim, BeginComplete, Insert, InsertNothing, Select, KeyReused,
                Claim, Refresh, ScanCompletion, Complete, NotExecuting, Crash, Fail,
                db, record
  <2>2. \A q \in Procs : \/ call'[q] = call[q]
                         \/ call'[q].to \notin Outcome
                         \/ call'[q].id \in told
    BY <1>1 DEF BeginClaim, BeginComplete, Insert, InsertNothing, Select, KeyReused,
                Claim, Refresh, ScanCompletion, Complete, NotExecuting, Crash, Fail,
                End, TypeInv, TypeOK, Outcome
  <2> QED BY <2>1, <2>2 DEF ToldInv
<1>2. ASSUME NEW p \in Procs, Commit(p)
      PROVE  ToldInv'
  <2>1. UNCHANGED <<told, won, call>> /\ \A i \in Ids : rows'[i] = View(p, i)
    BY <1>2 DEF Commit
  <2>2. \A i \in told : rows'[i] # NoRow /\ rows'[i].key = rows[i].key
    BY <1>0, <2>1 DEF View, StateInv, IndexInv, TypeInv, LocksOK
  <2> QED BY <2>1, <2>2 DEF ToldInv
<1>3. ASSUME NEW p \in Procs, Reply(p)
      PROVE  ToldInv'
  <2>1. /\ UNCHANGED rows /\ pc[p] = "committed"
        /\ \A q \in Procs : call'[q] = call[q] \/ call'[q].to \notin Outcome
    BY <1>3 DEF Reply, End, db, TypeInv, TypeOK
  <2>2. CASE ~out[p].claimed
    BY <1>3, <2>1, <2>2 DEF Reply, ToldInv
  <2>3. CASE out[p].claimed
    <3> PICK k \in Keys : k = call[p].key
      BY <2>3, WinnersKey
    <3>1. /\ won' = [won EXCEPT ![k] = @ + 1] /\ told' = told \cup {out[p].id}
          /\ rows[out[p].id].key = k
      BY <1>3, <2>1, <2>3, WinnersKey DEF Reply
    <3>2. \A l \in Keys : won[l] \in Nat /\ won'[l] \in Nat /\ won'[l] >= won[l]
      BY <3>1 DEF TypeInv, TypeOK
    <3>3. won'[k] >= 1
      BY <3>1 DEF TypeInv, TypeOK
    <3>4. \A i \in told' : rows'[i] # NoRow /\ won'[rows'[i].key] >= 1
      BY <1>0, <2>1, <3>1, <3>2, <3>3 DEF ToldInv
    <3> QED BY <2>1, <3>1, <3>4 DEF ToldInv
  <2> QED BY <2>2, <2>3
<1>4. CASE UNCHANGED vars
  BY <1>4 DEF vars, ToldInv
<1> QED BY <1>1, <1>2, <1>3, <1>4 DEF Next, Run

(* All of it.                                                               *)
Inv == TypeInv /\ StateInv /\ CountInv /\ NoneLost /\ GrantedInv /\ ToldInv

LEMMA Invariant == Spec => []Inv
<1>1. Init => NoneLost
  BY DEF Init, NoneLost
<1>2. Spec => []NoneLost
  BY <1>1, TypeInvariant, StateInvariant, LostStep, PTL DEF Spec
<1>3. Spec => []GrantedInv
  BY InitGrantedInv, TypeInvariant, StateInvariant, GrantedStep, PTL DEF Spec
<1>4. Spec => []ToldInv
  BY InitToldInv, TypeInvariant, StateInvariant, ToldStep, PTL DEF Spec
<1> QED BY <1>2, <1>3, <1>4, TypeInvariant, StateInvariant, CountInvariant, PTL
        DEF Inv

(* models.py: exactly one winner enters EXECUTING, if the commit comes first*)
(* or no process dies.                                                      *)
THEOREM AtMostOnceHolds == Lossless /\ Spec => []AtMostOnce
<1> SUFFICES ASSUME Lossless PROVE Spec => []AtMostOnce
  OBVIOUS
<1>1. Inv => AtMostOnce
  BY DEF Inv, NoneLost, CountInv, AtMostOnce, TypeInv, TypeOK
<1> QED BY <1>1, Invariant, PTL

(* Whoever was told it claimed finds the execution it was given when it     *)
(* reports its outcome.                                                     *)
THEOREM ClaimantFindsExecutionHolds == CommitFirst /\ Spec => []ClaimantFindsExecution
<1> SUFFICES ASSUME CommitFirst PROVE Spec => []ClaimantFindsExecution
  OBVIOUS
<1>1. Inv => ClaimantFindsExecution
  <2> SUFFICES ASSUME Inv, NEW i \in told
               PROVE  rows[i].state \in {"EXECUTING"} \cup Outcome
    BY DEF ClaimantFindsExecution
  <2>1. rows[i] \in Row /\ rows[i].state # "AUTHORIZED"
    BY DEF Inv, ToldInv, TypeInv, TypeOK, StateInv, NoneUnclaimed
  <2> QED BY <2>1 DEF Row, ExecutionState
<1> QED BY <1>1, Invariant, PTL

-----------------------------------------------------------------------------
(* The transactions implement the ledger.  A call takes effect with the     *)
(* first of its commit and its answer, the answer to a claim grants, and    *)
(* every other statement is a stutter.                                      *)

(* What given rows stand for.                                               *)
RowsOf(r, k) == {i \in Ids : r[i].key = k}

StandingAt(r, k) ==
    IF RowsOf(r, k) = {} THEN [state |-> "NONE", hash |-> None]
    ELSE LET i == CHOOSE i \in RowsOf(r, k) : TRUE
         IN  [state |-> r[i].state, hash |-> r[i].hash]

StandingOf(r) == [k \in Keys |-> StandingAt(r, k)]

LEMMA StandingOfRow ==
    ASSUME NEW r, NEW k \in Keys, NEW i \in Ids, r[i].key = k,
           \A j \in Ids : r[j].key = k => j = i
    PROVE  StandingOf(r)[k] = [state |-> r[i].state, hash |-> r[i].hash]
<1>1. RowsOf(r, k) = {i}
  BY DEF RowsOf
<1> QED BY <1>1 DEF StandingOf, StandingAt

LEMMA StandingOfNone ==
    ASSUME NEW r, NEW k \in Keys, \A j \in Ids : r[j].key # k
    PROVE  StandingOf(r)[k] = [state |-> "NONE", hash |-> None]
  BY DEF StandingOf, StandingAt, RowsOf

(* Keys whose rows are the same stand the same.                             *)
LEMMA StandingOfSame ==
    ASSUME NEW r, NEW s, NEW k \in Keys,
           \A j \in Ids : r[j].key = k \/ s[j].key = k => r[j] = s[j]
    PROVE  StandingOf(r)[k] = StandingOf(s)[k]
<1>1. RowsOf(r, k) = RowsOf(s, k) /\ \A j \in RowsOf(r, k) : r[j] = s[j]
  BY DEF RowsOf
<1> QED BY <1>1 DEF StandingOf, StandingAt

(* What the world sees: committed rows, and those whose owner has answered. *)
Seen == [i \in Ids |-> Visible(i)]

LEMMA StandingIs == Standing = StandingOf(Seen) /\ Standing' = StandingOf(Seen')
<1>1. \A k \in Keys : Entry(k) = RowsOf(Seen, k) /\ Entry(k)' = RowsOf(Seen', k)
  BY DEF Entry, RowsOf, Seen
<1>2. \A k \in Keys : \A i \in RowsOf(Seen, k) : Seen[i] = Visible(i)
  BY DEF RowsOf, Seen
<1>3. \A k \in Keys : \A i \in RowsOf(Seen', k) : Seen'[i] = Visible(i)'
  BY DEF RowsOf, Seen
<1>4. \A k \in Keys : Standing[k] = StandingAt(Seen, k)
  BY <1>1, <1>2 DEF Standing, StandingAt
<1>5. \A k \in Keys : Standing'[k] = StandingAt(Seen', k)
  BY <1>1, <1>3 DEF Standing, StandingAt
<1> QED BY <1>4, <1>5 DEF Standing, StandingOf

LEMMA StandingIsFunction ==
    /\ Standing = [k \in Keys |-> Standing[k]]
    /\ Standing' = [k \in Keys |-> Standing'[k]]
<1>1. /\ StandingOf(Seen) = [k \in Keys |-> StandingOf(Seen)[k]]
      /\ StandingOf(Seen') = [k \in Keys |-> StandingOf(Seen')[k]]
  BY DEF StandingOf
<1> QED BY <1>1, StandingIs

(* A row comes into sight under a key that had none.                        *)
LEMMA ClaimSeen ==
    ASSUME NEW k \in Keys, NEW i \in Ids, \A j \in Ids : Seen[j].key # k,
           Seen[i].key \notin Keys,
           Seen'[i].key = k, Seen'[i].state = "EXECUTING", Seen'[i].hash \in Hashes,
           \A j \in Ids \ {i} : Seen'[j] = Seen[j],
           won' = won \/ won' = [won EXCEPT ![k] = 1]
    PROVE  Ledger!Next
<1>1. Standing[k] = [state |-> "NONE", hash |-> None]
  BY StandingIs, StandingOfNone
<1>2. Standing'[k] = [state |-> "EXECUTING", hash |-> Seen'[i].hash]
  BY StandingIs, StandingOfRow
<1>3. ASSUME NEW l \in Keys \ {k} PROVE Standing'[l] = Standing[l]
  <2>1. \A j \in Ids : Seen'[j].key = l \/ Seen[j].key = l => Seen'[j] = Seen[j]
    OBVIOUS
  <2>2. StandingOf(Seen')[l] = StandingOf(Seen)[l]
    BY <2>1, StandingOfSame
  <2> QED BY <2>2, StandingIs
<1>4. Standing' = [Standing EXCEPT ![k] = Standing'[k]]
  BY <1>3, StandingIsFunction
<1>5. Ledger!Claim(k, Seen'[i].hash)
  BY <1>1, <1>2, <1>4 DEF Ledger!Claim, Ledger!Nothing
<1> QED BY <1>5 DEF Ledger!Next

(* A row in sight changes its state.                                        *)
LEMMA CompleteSeen ==
    ASSUME NEW k \in Keys, NEW i \in Ids, NEW to \in Outcome,
           Seen[i].key = k, \A j \in Ids : Seen[j].key = k => j = i,
           Seen[i].state = "EXECUTING",
           Seen'[i].key = k, Seen'[i].state = to, Seen'[i].hash = Seen[i].hash,
           \A j \in Ids \ {i} : Seen'[j] = Seen[j],
           won[k] = 1, won' = won
    PROVE  Ledger!Next
<1>1. Standing[k] = [state |-> "EXECUTING", hash |-> Seen[i].hash]
  BY StandingIs, StandingOfRow
<1>2. Standing'[k] = [state |-> to, hash |-> Seen[i].hash]
  BY StandingIs, StandingOfRow
<1>3. ASSUME NEW l \in Keys \ {k} PROVE Standing'[l] = Standing[l]
  <2>1. \A j \in Ids : Seen'[j].key = l \/ Seen[j].key = l => Seen'[j] = Seen[j]
    OBVIOUS
  <2>2. StandingOf(Seen')[l] = StandingOf(Seen)[l]
    BY <2>1, StandingOfSame
  <2> QED BY <2>2, StandingIs
<1>4. [Standing[k] EXCEPT !.state = to] = Standing'[k]
  BY <1>1, <1>2
<1>5. Standing' = [Standing EXCEPT ![k].state = to]
  <2>1. Standing' = [Standing EXCEPT ![k] = Standing'[k]]
    BY <1>3, StandingIsFunction
  <2> QED BY <1>4, <2>1
<1>6. Standing[k].state = "EXECUTING"
  BY <1>1
<1>7. Ledger!Complete(k, to)
  BY <1>5, <1>6 DEF Ledger!Complete
<1> QED BY <1>7 DEF Ledger!Next, Outcome

(* A call takes effect at the first of its commit and its answer: what it   *)
(* wrote comes into sight.                                                  *)
LEMMA TakesEffect ==
    ASSUME Inv, Lossless, NEW p \in Procs, pc[p] = "finish",
           \A j \in Ids : Seen'[j] = IF owner[j] = p THEN dirty[j] ELSE Seen[j],
           IF ~CommitFirst /\ out[p].claimed
           THEN won' = [won EXCEPT ![call[p].key] = @ + 1] ELSE won' = won
    PROVE  Ledger!Next \/ UNCHANGED Ledger!vars
<1> USE Constants DEF Inv
<1>1. \A j \in Ids : Seen[j] \in {rows[j], dirty[j]} /\ (owner[j] = p => Seen[j] = rows[j])
  BY DEF Seen, Visible, Answered
<1>2. CASE out[p].claimed
  <2> PICK k \in Keys : k = call[p].key
    BY <1>2, WinnersKey
  <2> PICK i \in Ids : i = out[p].id
    BY <1>2, WinnersKey
  <2>1. /\ owner[i] = p /\ rows[i] = NoRow
        /\ dirty[i].key = k /\ dirty[i].state = "EXECUTING"
        /\ \A j \in Ids : owner[j] = p => j = i
        /\ ~Recorded(k)
    BY <1>2, WinnersKey
  <2>2. \A j \in Ids : rows[j].key = k \/ dirty[j].key = k => j = i
    BY <2>1 DEF StateInv, IndexInv, Entries
  <2>3. dirty[i].hash \in Hashes /\ NoRow.key \notin Keys
    BY <2>1 DEF TypeInv, LocksOK, Row, NoRow
  <2>4. Seen[i] = NoRow /\ \A j \in Ids : Seen[j].key # k
    BY <1>1, <2>1, <2>2, <2>3
  <2>5. Seen'[i] = dirty[i] /\ \A j \in Ids \ {i} : Seen'[j] = Seen[j]
    BY <2>1
  <2>6. CASE CommitFirst
    BY <2>1, <2>3, <2>4, <2>5, <2>6, ClaimSeen
  <2>7. CASE ~CommitFirst
    <3>1. ~Granted(k)
      <4> SUFFICES ASSUME NEW q \in Procs, pc[q] = "replied", out[q].claimed,
                          call[q].key = k
                   PROVE  FALSE
        BY DEF Granted
      <4>1. out[q].id \in Ids /\ owner[out[q].id] = q /\ dirty[out[q].id].key = k
        BY WinnersKey
      <4> QED BY <4>1, <2>1, <2>2
    <3>2. won[k] = 0
      BY <2>1, <3>1 DEF CountInv, NoneLost, TypeInv, TypeOK
    <3>3. won' = [won EXCEPT ![k] = 1]
      BY <1>2, <2>7, <3>2
    <3>4. /\ Seen[i].key \notin Keys /\ Seen'[i].key = k
          /\ Seen'[i].state = "EXECUTING" /\ Seen'[i].hash \in Hashes
      BY <2>1, <2>3, <2>4, <2>5
    <3>5. Ledger!Next
      BY <2>4, <2>5, <3>3, <3>4, ClaimSeen, Zenon
    <3> QED BY <3>5
  <2> QED BY <2>6, <2>7
<1>3. CASE ~out[p].claimed /\ call[p].to \in Outcome
  <2> PICK i \in Ids : i = call[p].id
    BY <1>3 DEF TypeInv, ArgumentsOK
  <2>1. /\ owner[i] = p /\ rows[i].state = "EXECUTING"
        /\ dirty[i].state = call[p].to
        /\ dirty[i].key = rows[i].key /\ dirty[i].hash = rows[i].hash
        /\ \A j \in Ids : owner[j] = p => j = i
    BY <1>3 DEF TypeInv, ArgumentsOK, StateInv, IndexInv, Phase, Holds,
                Claiming, Completing
  <2>2. rows[i] \in Row /\ rows[i] # NoRow
    BY <2>1 DEF TypeInv, TypeOK
  <2> PICK k \in Keys : k = rows[i].key
    BY <2>2 DEF Row
  <2>3. won[k] >= 1
    <3>1. CommitFirst => i \in told
      BY <1>3 DEF ToldInv
    <3> QED BY <2>2, <3>1 DEF ToldInv, GrantedInv
  <2>4. won[k] = 1
    BY <2>3 DEF CountInv, NoneLost, TypeInv, TypeOK
  <2>5. \A j \in Ids : Seen[j].key = k => j = i
    BY <1>1 DEF StateInv, IndexInv, Entries
  <2>6. Seen[i] = rows[i] /\ Seen'[i] = dirty[i] /\ \A j \in Ids \ {i} : Seen'[j] = Seen[j]
    BY <1>1, <2>1
  <2>7. /\ Seen[i].key = k /\ Seen'[i].key = k
        /\ Seen[i].state = "EXECUTING" /\ Seen'[i].state = call[p].to
        /\ Seen'[i].hash = Seen[i].hash
    BY <2>1, <2>6
  <2>8. won' = won
    BY <1>3
  <2> QED BY <1>3, <2>4, <2>5, <2>6, <2>7, <2>8, CompleteSeen
<1>4. CASE ~out[p].claimed /\ call[p].to \notin Outcome
  <2>1. \A i \in Ids : owner[i] # p
    BY <1>4 DEF StateInv, Holds, Claiming, Completing
  <2>2. Seen' = Seen
    BY <2>1 DEF Seen
  <2> QED BY <1>4, <2>2, StandingIs DEF Ledger!vars
<1> QED BY <1>2, <1>3, <1>4

(* A call that has not answered works out of sight.                         *)
LEMMA OutOfSight ==
    ASSUME TypeOK, NEW p \in Procs, NEW l \in PC, pc' = [pc EXCEPT ![p] = l],
           pc[p] # "replied", l # "replied", UNCHANGED <<rows, won>>,
           \A j \in Ids : \/ owner'[j] = owner[j] /\ (owner[j] = p \/ dirty'[j] = dirty[j])
                          \/ owner[j] \in {p, None} /\ owner'[j] \in {p, None}
    PROVE  UNCHANGED Ledger!vars
<1>1. \A j \in Ids : Visible(j)' = Visible(j)
  BY Constants DEF Visible, Answered, TypeOK
<1>2. Seen' = Seen
  BY <1>1 DEF Seen
<1> QED BY <1>2, StandingIs DEF Ledger!vars

LEMMA LedgerStep == Lossless /\ Inv /\ [Next]_vars => [Ledger!Next]_Ledger!vars
<1> SUFFICES ASSUME Lossless, Inv, [Next]_vars
             PROVE  Ledger!Next \/ UNCHANGED Ledger!vars
  OBVIOUS
<1> USE Constants
<1>1. TypeOK /\ StateInv
  BY DEF Inv, TypeInv
<1>2. ASSUME NEW p \in Procs, Commit(p), CommitFirst
      PROVE  Ledger!Next \/ UNCHANGED Ledger!vars
  <2>1. \A q \in Procs : pc[q] # "replied" /\ pc'[q] # "replied"
    BY <1>1, <1>2 DEF Commit, Goto, TypeOK, StateInv, Phase
  <2>2. \A j \in Ids : Seen[j] = rows[j]
    BY <1>1, <2>1 DEF Seen, Visible, Answered, TypeOK
  <2>3. \A j \in Ids : owner'[j] \in Procs \cup {None}
    BY <1>1, <1>2 DEF Commit, Unlock, TypeOK
  <2>4. \A j \in Ids : Seen'[j] = View(p, j)
    BY <1>2, <2>1, <2>3 DEF Seen, Visible, Answered, Commit
  <2> QED BY <1>2, <2>2, <2>4, TakesEffect DEF Commit, View
<1>3. ASSUME NEW p \in Procs, Reply(p), CommitFirst
      PROVE  Ledger!Next \/ UNCHANGED Ledger!vars
  <2>1. /\ pc[p] = "committed" /\ UNCHANGED <<rows, owner, dirty>>
        /\ pc' = [pc EXCEPT ![p] = "idle"]
    BY <1>3 DEF Reply, End, Goto, db
  <2>2. Seen' = Seen /\ Standing' = Standing
    <3>1. \A j \in Ids : Visible(j)' = Visible(j)
      BY <1>1, <2>1 DEF Visible, Answered, TypeOK
    <3>2. Seen' = Seen
      BY <3>1 DEF Seen
    <3> QED BY <3>2, StandingIs
  <2>3. CASE ~out[p].claimed
    BY <1>3, <2>2, <2>3 DEF Reply, Ledger!vars
  <2>4. CASE out[p].claimed
    <3> PICK k \in Keys : k = call[p].key
      BY <2>4, WinnersKey DEF Inv
    <3> PICK i \in Ids : i = out[p].id
      BY <2>4, WinnersKey DEF Inv
    <3>1. rows[i].key = k /\ \A j \in Ids : rows[j].key = k => j = i
      BY <2>1, <2>4, WinnersKey DEF Inv, StateInv, IndexInv, Entries
    <3>2. rows[i].state # "NONE"
      BY <1>1, <3>1 DEF TypeOK, Row, ExecutionState, Outcome, NoRow
    <3>3. \A j \in Ids : Seen[j] = rows[j]
      BY <1>1, <1>3 DEF Seen, Visible, Answered, TypeOK, StateInv, Phase
    <3>4. Standing[k] = [state |-> rows[i].state, hash |-> rows[i].hash]
      BY <3>1, <3>3, StandingIs, StandingOfRow
    <3>5. Standing[k] # [state |-> "NONE", hash |-> None]
      BY <3>2, <3>4
    <3>6. won[k] = 0
      BY <2>1, <2>4 DEF Inv, CountInv, Owed, NoneLost, TypeInv, TypeOK
    <3>7. won' = [won EXCEPT ![k] = 1]
      BY <1>3, <2>4, <3>6 DEF Reply
    <3>8. Ledger!Grant(k)
      BY <2>2, <3>5, <3>6, <3>7 DEF Ledger!Grant, Ledger!Nothing
    <3> QED BY <3>8 DEF Ledger!Next
  <2> QED BY <2>3, <2>4
<1>4. ASSUME NEW p \in Procs, Reply(p), ~CommitFirst
      PROVE  Ledger!Next \/ UNCHANGED Ledger!vars
  <2>1. /\ pc[p] = "finish" /\ UNCHANGED <<rows, owner, dirty>>
        /\ pc' = [pc EXCEPT ![p] = "replied"]
    BY <1>4 DEF Reply, Goto, db
  <2>2. \A j \in Ids : Seen'[j] = IF owner[j] = p THEN dirty[j] ELSE Seen[j]
    BY <1>1, <2>1 DEF Seen, Visible, Answered, TypeOK
  <2>3. IF out[p].claimed THEN won' = [won EXCEPT ![call[p].key] = @ + 1] ELSE won' = won
    BY <1>4 DEF Reply
  <2> QED BY <1>4, <2>1, <2>2, <2>3, TakesEffect
<1>5. ASSUME NEW p \in Procs, Commit(p), ~CommitFirst
      PROVE  UNCHANGED Ledger!vars
  <2>1. /\ pc[p] = "replied" /\ UNCHANGED won
        /\ pc' = [pc EXCEPT ![p] = "idle"]
        /\ \A j \in Ids : /\ rows'[j] = View(p, j)
                          /\ owner'[j] = IF owner[j] = p THEN None ELSE owner[j]
                          /\ owner[j] # p => dirty'[j] = dirty[j]
    BY <1>5 DEF Commit, End, Goto, Unlock
  <2>2. \A j \in Ids : Visible(j)' = Visible(j)
    BY <1>1, <2>1 DEF Visible, Answered, View, TypeOK
  <2>3. Seen' = Seen
    BY <2>2 DEF Seen
  <2> QED BY <2>1, <2>3, StandingIs DEF Ledger!vars
<1>6. ASSUME NEW p \in Procs,
             \/ \E k \in Keys, h \in Hashes : BeginClaim(p, k, h)
             \/ \E i \in Ids, to \in Outcome : BeginComplete(p, i, to)
             \/ InsertNothing(p) \/ Select(p) \/ Refresh(p) \/ ScanCompletion(p)
      PROVE  UNCHANGED Ledger!vars
  <2>1. PICK l \in PC : pc' = [pc EXCEPT ![p] = l] /\ l # "replied"
    BY <1>6 DEF BeginClaim, BeginComplete, InsertNothing, Select, Refresh,
                ScanCompletion, Goto, PC
  <2>2. pc[p] # "replied" /\ UNCHANGED <<rows, won, owner, dirty>>
    BY <1>6 DEF BeginClaim, BeginComplete, InsertNothing, Select, Refresh,
                ScanCompletion, db, record
  <2> QED BY <1>1, <2>1, <2>2, OutOfSight
<1>7. ASSUME NEW p \in Procs, KeyReused(p) \/ NotExecuting(p)
      PROVE  UNCHANGED Ledger!vars
  <2>1. pc' = [pc EXCEPT ![p] = "idle"] /\ pc[p] # "replied" /\ UNCHANGED <<rows, won>>
    BY <1>7 DEF KeyReused, NotExecuting, Fail, End, Goto, record
  <2>2. \A j \in Ids : IF owner[j] = p THEN owner'[j] = None
                       ELSE owner'[j] = owner[j] /\ dirty'[j] = dirty[j]
    BY <1>7 DEF KeyReused, NotExecuting, Fail, Unlock
  <2> QED BY <1>1, <2>1, <2>2, OutOfSight DEF PC
<1>8. ASSUME NEW p \in Procs, Insert(p) \/ Claim(p) \/ Complete(p)
      PROVE  UNCHANGED Ledger!vars
  <2>1. PICK l \in {"select", "refresh", "finish"} : pc' = [pc EXCEPT ![p] = l]
    BY <1>8 DEF Insert, Claim, Complete, Goto
  <2>2. pc[p] # "replied" /\ UNCHANGED <<rows, won>>
    BY <1>8 DEF Insert, Claim, Complete, record
  <2>3. CASE UNCHANGED <<owner, dirty>>
    BY <1>1, <2>1, <2>2, <2>3, OutOfSight DEF PC
  <2>4. ASSUME NEW i \in Ids, NEW r, Write(p, i, r), owner[i] \in {p, None}
        PROVE  UNCHANGED Ledger!vars
    <3>1. \A j \in Ids : IF j = i THEN owner'[j] = p
                         ELSE owner'[j] = owner[j] /\ dirty'[j] = dirty[j]
      BY <1>1, <2>4 DEF Write, TypeOK
    <3> QED BY <1>1, <2>1, <2>2, <2>4, <3>1, OutOfSight DEF PC
  <2>5. CASE Insert(p)
    <3>1. PICK i \in Ids \ used : Write(p, i, NewRow(call[p]))
      BY <2>5 DEF Insert
    <3>2. owner[i] = None
      BY <1>1, <3>1 DEF StateInv, IndexInv
    <3> QED BY <2>4, <3>1, <3>2
  <2>6. CASE Claim(p)
    <3>1. out[p].id \in Ids
      BY <2>6 DEF Claim, Inv, TypeInv, ArgumentsOK
    <3> QED BY <2>3, <2>4, <2>6, <3>1 DEF Claim, LockedByOther
  <2>7. CASE Complete(p)
    <3>1. call[p].id \in Ids
      BY <2>7 DEF Complete, Inv, TypeInv, ArgumentsOK
    <3> QED BY <2>4, <2>7, <3>1 DEF Complete, LockedByOther
  <2> QED BY <1>8, <2>5, <2>6, <2>7
<1>9. ASSUME NEW p \in Procs, Crash(p)
      PROVE  UNCHANGED Ledger!vars
  <2>1. pc[p] # "replied"
    BY <1>1, <1>9 DEF Crash, Lossless, StateInv, Phase, TypeOK
  <2>2. pc' = [pc EXCEPT ![p] = "idle"] /\ UNCHANGED <<rows, won>>
    BY <1>9 DEF Crash, End, Goto
  <2>3. \A j \in Ids : IF owner[j] = p THEN owner'[j] = None
                       ELSE owner'[j] = owner[j] /\ dirty'[j] = dirty[j]
    BY <1>9 DEF Crash, Unlock
  <2> QED BY <1>1, <2>1, <2>2, <2>3, OutOfSight DEF PC
<1>10. CASE UNCHANGED vars
  <2>1. Seen' = Seen /\ won' = won
    BY <1>10 DEF vars, Seen, Visible, Answered
  <2> QED BY <2>1, StandingIs DEF Ledger!vars
<1> QED BY <1>2, <1>3, <1>4, <1>5, <1>6, <1>7, <1>8, <1>9, <1>10 DEF Next, Run

(* Where the commit comes first, or nothing dies, every behaviour of the    *)
(* transactions is one of the ledger's, for any number of calls and keys.   *)
THEOREM LedgerImplemented == Lossless /\ Spec => ImplementsLedger
<1> SUFFICES ASSUME Lossless PROVE Spec => Ledger!Spec
  BY DEF ImplementsLedger
<1>1. Init => Ledger!Init
  <2> SUFFICES ASSUME Init PROVE Ledger!Init
    OBVIOUS
  <2>1. \A i \in Ids : Seen[i] = NoRow
    BY DEF Init, Seen, Visible, Answered
  <2>2. \A i \in Ids : Seen[i].key = None
    BY <2>1 DEF NoRow
  <2>3. \A k \in Keys : Standing[k] = [state |-> "NONE", hash |-> None]
    BY <2>2, Constants, StandingIs, StandingOfNone
  <2>4. Standing = [k \in Keys |-> [state |-> "NONE", hash |-> None]]
    BY <2>3 DEF Standing
  <2> QED BY <2>4 DEF Ledger!Init, Ledger!Nothing, Init
<1> QED BY <1>1, LedgerStep, Invariant, PTL DEF Spec, Ledger!Spec
=============================================================================
