-------------------------- MODULE ApprovalsProofs --------------------------
(***************************************************************************)
(* Theorems about Approvals, for any number of calls, rows, bindings,      *)
(* policy versions and users, any clock bound, and either order of commit  *)
(* and response.                                                           *)
(***************************************************************************)
EXTENDS ApprovalsRefinement, TLAPS

(* The arguments a statement uses are there when it runs.                   *)
ArgumentsOK ==
    \A p \in Procs :
        /\ pc[p] \in {"scan", "update"} =>
             /\ upd[p].to \in ApprovalState \ {"PENDING"}
             /\ upd[p].to \in Decision => call[p].id \in Ids /\ call[p].user \in Users
             /\ upd[p].to \notin Decision =>
                  call[p].binding \in Bindings /\ call[p].version \in Versions
        /\ pc[p] \in {"rejected", "pending", "lookup", "insert", "reselect"} =>
             call[p].binding \in Bindings /\ call[p].version \in Versions
        /\ out[p].mode = "consumed" => out[p].got \in Ids

(* A locked row is held as a row. *)
LocksOK == \A i \in Ids : owner[i] # None => dirty[i] \in Row

TypeInv == TypeOK /\ ArgumentsOK /\ LocksOK

LEMMA Constants ==
    /\ NoCall \in Call /\ NoUpdate \in Update /\ NoOut \in Out
    /\ \A s \in ApprovalState : Start(s) \in Update
    /\ Decision \subseteq ApprovalState
  BY DEF NoCall, Call, NoUpdate, Start, Update, NoOut, Out, ApprovalState, Decision

LEMMA InitTypeInv == Init => TypeInv
  BY ApprovalsAssumption, Constants
     DEF Init, TypeInv, TypeOK, ArgumentsOK, LocksOK, NoRow, PC, NoOut

(* What a row that a WHERE clause selects looks like after its SET clause.  *)
LEMMA UpdateType ==
    ASSUME TypeInv, NEW p \in Procs, NEW i \in Ids, pc[p] = "update",
           Matches(call[p], upd[p].to, i, View(p, i))
    PROVE  /\ View(p, i) \in Row
           /\ Updated(call[p], upd[p].to, View(p, i)) \in Row
<1>1. View(p, i) \in Row \cup {NoRow}
  BY DEF TypeInv, TypeOK, View
<1>2. View(p, i).state # "NONE"
  BY DEF Matches, Usable, Decision
<1>3. View(p, i) \in Row
  BY <1>1, <1>2 DEF NoRow
<1>4. /\ upd[p].to \in ApprovalState
      /\ upd[p].to \in Decision => call[p].user \in Users
  BY DEF TypeInv, ArgumentsOK
<1>5. Updated(call[p], upd[p].to, View(p, i)) \in Row
  BY <1>3, <1>4 DEF Updated, Row
<1> QED BY <1>3, <1>5

LEMMA UnlockType ==
    ASSUME TypeInv, NEW p \in Procs, Unlock(p)
    PROVE  /\ owner' \in [Ids -> Procs \cup {None}]
           /\ dirty' \in [Ids -> Row \cup {NoRow}]
           /\ LocksOK'
  BY DEF TypeInv, TypeOK, LocksOK, Unlock

LEMMA EndType ==
    ASSUME TypeInv, NEW p \in Procs, End(p)
    PROVE  /\ pc' \in [Procs -> PC]
           /\ call' \in [Procs -> Call]
           /\ upd' \in [Procs -> Update]
           /\ out' \in [Procs -> Out]
           /\ ArgumentsOK'
<1>1. /\ pc' \in [Procs -> PC]
      /\ call' \in [Procs -> Call]
      /\ upd' \in [Procs -> Update]
      /\ out' \in [Procs -> Out]
  BY Constants DEF TypeInv, TypeOK, End, Goto, PC
<1>2. NoOut.mode # "consumed"
  BY DEF NoOut
<1>3. ArgumentsOK'
  BY <1>2 DEF TypeInv, TypeOK, ArgumentsOK, End, Goto
<1> QED BY <1>1, <1>3

LEMMA FailType ==
    ASSUME TypeInv, NEW p \in Procs, Fail(p), crashes' \in 0..MaxCrashes
    PROVE  TypeInv'
<1>1. /\ owner' \in [Ids -> Procs \cup {None}]
      /\ dirty' \in [Ids -> Row \cup {NoRow}]
      /\ LocksOK'
  BY UnlockType DEF Fail
<1>2. /\ pc' \in [Procs -> PC]
      /\ call' \in [Procs -> Call]
      /\ upd' \in [Procs -> Update]
      /\ out' \in [Procs -> Out]
      /\ ArgumentsOK'
  BY EndType DEF Fail
<1>3. TypeOK'
  BY <1>1, <1>2 DEF Fail, TypeInv, TypeOK
<1> QED BY <1>1, <1>2, <1>3 DEF TypeInv

LEMMA TypeStep == TypeInv /\ [Next]_vars => TypeInv'
<1> SUFFICES ASSUME TypeInv, [Next]_vars PROVE TypeInv'
  OBVIOUS
<1> USE DEF TypeInv, db, record, Goto
<1>1. ASSUME NEW p \in Procs, NEW b \in Bindings, NEW v \in Versions,
             NEW u \in Requesters, BeginResolve(p, b, v, u)
      PROVE  TypeInv'
  <2> DEFINE c == [binding |-> b, version |-> v, user |-> u, id |-> None,
                   start |-> now]
  <2>1. c \in Call
    BY ApprovalsAssumption DEF Call, TypeOK
  <2>2. TypeOK'
    BY <1>1, <2>1, Constants DEF BeginResolve, TypeOK, PC, ApprovalState
  <2>3. ArgumentsOK'
    BY <1>1 DEF BeginResolve, TypeOK, ArgumentsOK, ApprovalState, Decision, Start
  <2> QED BY <1>1, <2>2, <2>3 DEF BeginResolve, LocksOK
<1>2. ASSUME NEW p \in Procs, NEW i \in Ids, NEW u \in Users,
             NEW to \in Decision, BeginDecide(p, i, u, to)
      PROVE  TypeInv'
  <2> DEFINE c == [binding |-> None, version |-> None, user |-> u, id |-> i,
                   start |-> now]
  <2>1. c \in Call
    BY DEF Call, TypeOK
  <2>2. TypeOK'
    BY <1>2, <2>1, Constants DEF BeginDecide, TypeOK, PC
  <2>3. ArgumentsOK'
    BY <1>2, Constants DEF BeginDecide, TypeOK, ArgumentsOK, Start, Decision
  <2> QED BY <1>2, <2>2, <2>3 DEF BeginDecide, LocksOK
<1>3. ASSUME NEW p \in Procs, Scan(p)
      PROVE  TypeInv'
  <2>1. TypeOK'
    BY <1>3 DEF Scan, TypeOK, PC, Update
  <2>2. ArgumentsOK'
    BY <1>3 DEF Scan, TypeOK, ArgumentsOK, Update
  <2> QED BY <1>3, <2>1, <2>2 DEF Scan, LocksOK
<1>4. ASSUME NEW p \in Procs, NEW i \in Ids, UpdateRow(p, i)
      PROVE  TypeInv'
  <2> DEFINE hit == Matches(call[p], upd[p].to, i, View(p, i))
             hits == IF hit THEN upd[p].hits \cup {i} ELSE upd[p].hits
  <2>1. [to |-> upd[p].to, todo |-> upd[p].todo \ {i}, hits |-> hits] \in Update
    BY DEF TypeOK, Update
  <2>2. /\ pc[p] = "update"
        /\ upd' = [upd EXCEPT ![p] = [to |-> upd[p].to,
                                      todo |-> upd[p].todo \ {i}, hits |-> hits]]
        /\ UNCHANGED <<rows, pc, call, out, logged, grants, lost, now, crashes>>
    BY <1>4 DEF UpdateRow
  <2>3. ArgumentsOK'
    BY <2>2 DEF TypeOK, ArgumentsOK
  <2>4. CASE hit
    <3>1. Updated(call[p], upd[p].to, View(p, i)) \in Row
      BY <2>2, <2>4, UpdateType
    <3>2. /\ owner' = [owner EXCEPT ![i] = p]
          /\ dirty' = [dirty EXCEPT ![i] = Updated(call[p], upd[p].to, View(p, i))]
      BY <1>4, <2>4 DEF UpdateRow
    <3>3. TypeOK'
      BY <2>1, <2>2, <3>1, <3>2 DEF TypeOK
    <3>4. LocksOK'
      BY <3>1, <3>2 DEF TypeOK, LocksOK
    <3> QED BY <2>3, <3>3, <3>4
  <2>5. CASE ~hit
    <3>1. UNCHANGED <<owner, dirty>>
      BY <1>4, <2>5 DEF UpdateRow
    <3>2. TypeOK'
      BY <2>1, <2>2, <3>1 DEF TypeOK
    <3> QED BY <2>3, <3>1, <3>2 DEF LocksOK
  <2> QED BY <2>4, <2>5
<1>5. ASSUME NEW p \in Procs, Consumed(p)
      PROVE  TypeInv'
  <2>1. PICK g \in upd[p].hits :
          out' = [out EXCEPT ![p] = [events |-> {<<g, "CONSUMED">>}, got |-> g,
                                     mode |-> "consumed"]]
    BY <1>5 DEF Consumed
  <2>2. g \in Ids
    BY DEF TypeOK, Update
  <2>3. [events |-> {<<g, "CONSUMED">>}, got |-> g, mode |-> "consumed"] \in Out
    BY <2>2 DEF Out, ApprovalState
  <2>4. TypeOK'
    BY <1>5, <2>1, <2>3, Constants DEF Consumed, TypeOK, PC
  <2>5. ArgumentsOK'
    BY <1>5, <2>1, <2>2 DEF Consumed, TypeOK, ArgumentsOK
  <2> QED BY <1>5, <2>4, <2>5 DEF Consumed, LocksOK
<1>6. ASSUME NEW p \in Procs, NothingToConsume(p)
      PROVE  TypeInv'
  <2>1. TypeOK'
    BY <1>6, Constants DEF NothingToConsume, TypeOK, PC, ApprovalState
  <2>2. ArgumentsOK'
    BY <1>6 DEF NothingToConsume, Done, TypeOK, ArgumentsOK, ApprovalState, Decision, Start
  <2> QED BY <1>6, <2>1, <2>2 DEF NothingToConsume, LocksOK
<1>7. ASSUME NEW p \in Procs, NEW S \in SUBSET Ids, NEW s \in ApprovalState,
             Log(p, S, s)
      PROVE  /\ out' \in [Procs -> Out]
             /\ \A q \in Procs : /\ out'[q].mode = out[q].mode
                                 /\ out'[q].got = out[q].got
  BY <1>7 DEF Log, TypeOK, Out
<1>8. ASSUME NEW p \in Procs, Voided(p)
      PROVE  TypeInv'
  <2>1. /\ out' \in [Procs -> Out]
        /\ \A q \in Procs : out'[q].mode = out[q].mode /\ out'[q].got = out[q].got
    <3>1. CASE UNCHANGED out
      BY <3>1 DEF TypeOK
    <3>2. ASSUME NEW g \in upd[p].hits, Log(p, {g}, "VOIDED")
          PROVE  <2>1!1 /\ <2>1!2
      <4>1. {g} \in SUBSET Ids /\ "VOIDED" \in ApprovalState
        BY DEF TypeOK, Update, ApprovalState
      <4> QED BY <1>7, <3>2, <4>1
    <3> QED BY <1>8, <3>1, <3>2 DEF Voided
  <2>2. TypeOK'
    BY <1>8, <2>1, Constants DEF Voided, TypeOK, PC, ApprovalState
  <2>3. ArgumentsOK'
    BY <1>8, <2>1 DEF Voided, Done, TypeOK, ArgumentsOK, ApprovalState, Decision, Start
  <2> QED BY <1>8, <2>2, <2>3 DEF Voided, LocksOK
<1>9. ASSUME NEW p \in Procs, Expired(p)
      PROVE  TypeInv'
  <2>1. upd[p].hits \in SUBSET Ids /\ "EXPIRED" \in ApprovalState
    BY DEF TypeOK, Update, ApprovalState
  <2>2. /\ out' \in [Procs -> Out]
        /\ \A q \in Procs : out'[q].mode = out[q].mode /\ out'[q].got = out[q].got
    BY <1>7, <1>9, <2>1 DEF Expired
  <2>3. TypeOK'
    BY <1>9, <2>2, Constants DEF Expired, TypeOK, PC
  <2>4. ArgumentsOK'
    BY <1>9, <2>2 DEF Expired, Done, TypeOK, ArgumentsOK, Decision
  <2> QED BY <1>9, <2>3, <2>4 DEF Expired, LocksOK
<1>10. ASSUME NEW p \in Procs, NEW m \in {"rejected", "pending"}, Answer(p, m)
       PROVE  /\ pc' \in [Procs -> PC]
              /\ out' \in [Procs -> Out]
  BY <1>10 DEF Answer, TypeOK, PC, Out
<1>11. ASSUME NEW p \in Procs, SelectRejected(p)
       PROVE  TypeInv'
  <2>1. TypeOK'
    BY <1>10, <1>11 DEF SelectRejected, TypeOK, PC
  <2>2. ArgumentsOK'
    <3>1. CASE Answer(p, "rejected")
      BY <1>11, <3>1 DEF SelectRejected, Answer, TypeOK, ArgumentsOK, Out
    <3>2. CASE Goto(p, "pending") /\ UNCHANGED out
      BY <1>11, <3>2 DEF SelectRejected, TypeOK, ArgumentsOK
    <3> QED BY <1>11, <3>1, <3>2 DEF SelectRejected
  <2> QED BY <1>11, <2>1, <2>2 DEF SelectRejected, LocksOK
<1>12. ASSUME NEW p \in Procs, SelectPending(p)
       PROVE  TypeInv'
  <2>1. TypeOK'
    BY <1>10, <1>12 DEF SelectPending, TypeOK, PC
  <2>2. ArgumentsOK'
    <3>1. CASE Answer(p, "pending")
      BY <1>12, <3>1 DEF SelectPending, Answer, TypeOK, ArgumentsOK, Out
    <3>2. CASE Goto(p, "lookup") /\ UNCHANGED out
      BY <1>12, <3>2 DEF SelectPending, TypeOK, ArgumentsOK
    <3> QED BY <1>12, <3>1, <3>2 DEF SelectPending
  <2> QED BY <1>12, <2>1, <2>2 DEF SelectPending, LocksOK
<1>13. ASSUME NEW p \in Procs, RequestFound(p)
       PROVE  TypeInv'
  BY <1>13 DEF RequestFound, TypeOK, ArgumentsOK, LocksOK, PC
<1>14. ASSUME NEW p \in Procs,
              RequestMissing(p) \/ NotPending(p) \/ DeadlockVictim(p)
       PROVE  TypeInv'
  <2>1. Fail(p) /\ UNCHANGED crashes
    BY <1>14 DEF RequestMissing, NotPending, DeadlockVictim
  <2> QED BY <2>1, FailType DEF TypeOK
<1>15. ASSUME NEW p \in Procs, Insert(p)
       PROVE  TypeInv'
  <2>1. PICK i \in Free :
          /\ owner' = [owner EXCEPT ![i] = p]
          /\ dirty' = [dirty EXCEPT ![i] = NewRow(call[p])]
          /\ out' = [out EXCEPT ![p] =
                       [events |-> out[p].events \cup {<<i, "PENDING">>},
                        got |-> None, mode |-> "pending"]]
    BY <1>15 DEF Insert
  <2>2. i \in Ids
    BY DEF Free
  <2>3. call[p].binding \in Bindings /\ call[p].version \in Versions
    BY <1>15 DEF Insert, ArgumentsOK
  <2>4. NewRow(call[p]) \in Row
    BY <2>3, ApprovalsAssumption
       DEF NewRow, Row, TypeOK, Call, ApprovalState
  <2>5. [events |-> out[p].events \cup {<<i, "PENDING">>},
         got |-> None, mode |-> "pending"] \in Out
    BY <2>2 DEF TypeOK, Out, ApprovalState
  <2>6. TypeOK'
    BY <1>15, <2>1, <2>2, <2>4, <2>5 DEF Insert, TypeOK, PC
  <2>7. ArgumentsOK'
    BY <1>15, <2>1 DEF Insert, TypeOK, ArgumentsOK
  <2>8. LocksOK'
    BY <2>1, <2>2, <2>4 DEF TypeOK, LocksOK
  <2> QED BY <2>6, <2>7, <2>8
<1>16. ASSUME NEW p \in Procs, InsertConflict(p)
       PROVE  TypeInv'
  <2>1. /\ owner' \in [Ids -> Procs \cup {None}]
        /\ dirty' \in [Ids -> Row \cup {NoRow}]
        /\ LocksOK'
    BY <1>16, UnlockType DEF InsertConflict
  <2>2. TypeOK'
    BY <1>16, <2>1, Constants DEF InsertConflict, TypeOK, PC
  <2>3. ArgumentsOK'
    BY <1>16 DEF InsertConflict, TypeOK, ArgumentsOK, NoOut
  <2> QED BY <2>1, <2>2, <2>3
<1>17. ASSUME NEW p \in Procs, Reselect(p)
       PROVE  TypeInv'
  <2>1. CASE \E i \in Ids : IsPending(call[p], rows[i])
    <3>1. TypeOK'
      BY <1>10, <1>17, <2>1 DEF Reselect, TypeOK
    <3>2. ArgumentsOK'
      BY <1>17, <2>1 DEF Reselect, Answer, TypeOK, ArgumentsOK, Out
    <3> QED BY <1>17, <2>1, <3>1, <3>2 DEF Reselect, LocksOK
  <2>2. CASE ~\E i \in Ids : IsPending(call[p], rows[i])
    BY <1>17, <2>2, FailType DEF Reselect, TypeOK
  <2> QED BY <2>1, <2>2
<1>18. ASSUME NEW p \in Procs, Decided(p)
       PROVE  TypeInv'
  <2> DEFINE o == [events |-> {<<call[p].id, upd[p].to>>}, got |-> None,
                   mode |-> "decided"]
  <2>1. call[p].id \in Ids /\ upd[p].to \in ApprovalState
    BY <1>18 DEF Decided, Done, ArgumentsOK
  <2>2. o \in Out
    BY <2>1 DEF Out
  <2>3. TypeOK'
    BY <1>18, <2>2, Constants DEF Decided, TypeOK, PC
  <2>4. ArgumentsOK'
    BY <1>18 DEF Decided, TypeOK, ArgumentsOK
  <2> QED BY <1>18, <2>3, <2>4 DEF Decided, LocksOK
<1>19. ASSUME NEW p \in Procs, Commit(p)
       PROVE  TypeInv'
  <2>1. /\ owner' \in [Ids -> Procs \cup {None}]
        /\ dirty' \in [Ids -> Row \cup {NoRow}]
        /\ LocksOK'
    BY <1>19, UnlockType DEF Commit
  <2>2. rows' \in [Ids -> Row \cup {NoRow}]
    BY <1>19 DEF Commit, View, TypeOK
  <2>3. /\ pc' \in [Procs -> PC]
        /\ call' \in [Procs -> Call]
        /\ upd' \in [Procs -> Update]
        /\ out' \in [Procs -> Out]
        /\ ArgumentsOK'
    <3>1. CASE CommitFirst
      BY <1>19, <3>1 DEF Commit, TypeOK, ArgumentsOK, PC
    <3>2. CASE ~CommitFirst
      BY <1>19, <3>2, EndType DEF Commit
    <3> QED BY <3>1, <3>2
  <2>4. logged' \in [Ids -> SUBSET ApprovalState]
    BY <1>19 DEF Commit, TypeOK
  <2>5. TypeOK'
    BY <1>19, <2>1, <2>2, <2>3, <2>4 DEF Commit, TypeOK
  <2> QED BY <2>1, <2>3, <2>5
<1>20. ASSUME NEW p \in Procs, Reply(p)
       PROVE  TypeInv'
  <2>1. /\ pc' \in [Procs -> PC]
        /\ call' \in [Procs -> Call]
        /\ upd' \in [Procs -> Update]
        /\ out' \in [Procs -> Out]
        /\ ArgumentsOK'
    <3>1. CASE CommitFirst
      BY <1>20, <3>1, EndType DEF Reply
    <3>2. CASE ~CommitFirst
      BY <1>20, <3>2 DEF Reply, TypeOK, ArgumentsOK, PC
    <3> QED BY <3>1, <3>2
  <2>2. grants' \in [Ids -> Nat]
    BY <1>20 DEF Reply, TypeOK, ArgumentsOK
  <2>3. TypeOK'
    BY <1>20, <2>1, <2>2 DEF Reply, TypeOK
  <2> QED BY <1>20, <2>1, <2>3 DEF Reply, LocksOK
<1>21. ASSUME NEW p \in Procs, Crash(p)
       PROVE  TypeInv'
  <2>1. /\ owner' \in [Ids -> Procs \cup {None}]
        /\ dirty' \in [Ids -> Row \cup {NoRow}]
        /\ LocksOK'
    BY <1>21, UnlockType DEF Crash
  <2>2. /\ pc' \in [Procs -> PC]
        /\ call' \in [Procs -> Call]
        /\ upd' \in [Procs -> Update]
        /\ out' \in [Procs -> Out]
        /\ ArgumentsOK'
    BY <1>21, EndType DEF Crash
  <2>3. lost' \in [Ids -> Nat]
    BY <1>21 DEF Crash, TypeOK, ArgumentsOK
  <2>4. crashes' \in 0..MaxCrashes
    BY <1>21, ApprovalsAssumption DEF Crash, TypeOK
  <2>5. TypeOK'
    BY <1>21, <2>1, <2>2, <2>3, <2>4 DEF Crash, TypeOK
  <2> QED BY <2>1, <2>2, <2>5
<1>22. CASE Tick
  BY <1>22, ApprovalsAssumption DEF Tick, request, TypeOK, ArgumentsOK, LocksOK
<1>23. CASE UNCHANGED vars
  BY <1>23 DEF vars, TypeOK, ArgumentsOK, LocksOK
<1> QED
  BY <1>1, <1>2, <1>3, <1>4, <1>5, <1>6, <1>8, <1>9, <1>11, <1>12, <1>13,
     <1>14, <1>15, <1>16, <1>17, <1>18, <1>19, <1>20, <1>21, <1>22, <1>23
     DEF Next, Run

(* Type correctness: rows, locks and calls keep the shapes the code gives   *)
(* them; in particular a row is only ever locked as a whole row.            *)
THEOREM TypeCorrect == Spec => []TypeOK
<1>1. TypeInv => TypeOK
  BY DEF TypeInv
<1> QED BY <1>1, InitTypeInv, TypeStep, PTL DEF Spec

LEMMA TypeInvariant == Spec => []TypeInv
  BY InitTypeInv, TypeStep, PTL DEF Spec

-----------------------------------------------------------------------------
(* AtMostOnePending.  It is not inductive: what the index admits also       *)
(* depends on the entries of transactions still in flight.                  *)

(* Two insertions in flight are for different bindings.                     *)
InsertsApart ==
    \A i, j \in Ids :
        /\ owner[i] # None /\ dirty[i].state = "PENDING"
        /\ owner[j] # None /\ dirty[j].state = "PENDING"
        /\ dirty[i].binding = dirty[j].binding
        => i = j

(* An insertion shares its binding with a committed PENDING row only if its *)
(* own transaction has moved that row on.                                   *)
InsertReplaces ==
    \A i, j \in Ids :
        /\ rows[i].state = "PENDING"
        /\ owner[j] # None /\ dirty[j].state = "PENDING"
        /\ rows[i].binding = dirty[j].binding
        => owner[i] = owner[j] /\ dirty[i].state # "PENDING"

(* The insertion is a transaction's last statement.                         *)
InsertsLast ==
    \A i \in Ids : owner[i] # None /\ dirty[i].state = "PENDING" =>
                     pc[owner[i]] \in {"finish", "replied"}

IndexInv == AtMostOnePending /\ InsertsApart /\ InsertReplaces /\ InsertsLast

LEMMA InitIndexInv == Init => IndexInv
  BY ApprovalsAssumption
     DEF Init, NoRow, IndexInv, AtMostOnePending, InsertsApart, InsertReplaces,
         InsertsLast

(* A call that touches no row and is not on its way from "finish" ...       *)
LEMMA IndexLocal ==
    ASSUME TypeInv, IndexInv, NEW p \in Procs, UNCHANGED db,
           NEW l, Goto(p, l),
           pc[p] \in {"finish", "replied"} => l \in {"finish", "replied"}
    PROVE  IndexInv'
  BY DEF TypeInv, TypeOK, db, Goto, IndexInv, AtMostOnePending, InsertsApart,
         InsertReplaces, InsertsLast

(* ... and one that gives up.                                               *)
LEMMA IndexRollback ==
    ASSUME TypeInv, IndexInv, NEW p \in Procs, Unlock(p), NEW l, Goto(p, l),
           UNCHANGED rows
    PROVE  IndexInv'
  BY ApprovalsAssumption
     DEF TypeInv, TypeOK, Unlock, Goto, IndexInv, AtMostOnePending,
         InsertsApart, InsertReplaces, InsertsLast

LEMMA IndexStep == TypeInv /\ IndexInv /\ [Next]_vars => IndexInv'
<1> SUFFICES ASSUME TypeInv, IndexInv, [Next]_vars PROVE IndexInv'
  OBVIOUS
<1>1. ASSUME NEW p \in Procs,
             \/ \E b \in Bindings, v \in Versions, u \in Requesters :
                  BeginResolve(p, b, v, u)
             \/ \E i \in Ids, u \in Users, to \in Decision : BeginDecide(p, i, u, to)
             \/ Scan(p) \/ Consumed(p) \/ NothingToConsume(p) \/ Voided(p)
             \/ Expired(p) \/ RequestFound(p) \/ Decided(p)
      PROVE  IndexInv'
  <2>1. UNCHANGED db /\ \E l : Goto(p, l) /\ pc[p] \notin {"finish", "replied"}
    BY <1>1 DEF BeginResolve, BeginDecide, Scan, Consumed, NothingToConsume,
                Voided, Expired, RequestFound, Decided, Done, db
  <2> QED BY <2>1, IndexLocal
<1>2. ASSUME NEW p \in Procs,
             SelectRejected(p) \/ SelectPending(p)
      PROVE  IndexInv'
  <2>1. UNCHANGED db /\ \E l : Goto(p, l) /\ pc[p] \notin {"finish", "replied"}
    BY <1>2 DEF SelectRejected, SelectPending, Answer, db
  <2> QED BY <2>1, IndexLocal
<1>3. ASSUME NEW p \in Procs, NEW i \in Ids, UpdateRow(p, i)
      PROVE  IndexInv'
  <2> DEFINE hit == Matches(call[p], upd[p].to, i, View(p, i))
  <2>1. UNCHANGED <<rows, pc>> /\ owner[i] \in {p, None} /\ pc[p] = "update"
    BY <1>3 DEF UpdateRow, LockedByOther
  <2>2. CASE hit
    <3>1. Updated(call[p], upd[p].to, View(p, i)).state # "PENDING"
      <4>1. View(p, i) \in Row
        BY <2>1, <2>2, UpdateType
      <4>2. upd[p].to # "PENDING"
        BY <2>1 DEF TypeInv, ArgumentsOK
      <4> QED BY <4>1, <4>2 DEF Updated, Row
    <3>2. /\ owner' = [owner EXCEPT ![i] = p]
          /\ dirty' = [dirty EXCEPT ![i] = Updated(call[p], upd[p].to, View(p, i))]
      BY <1>3, <2>2 DEF UpdateRow
    <3>3. /\ owner'[i] = p /\ dirty'[i].state # "PENDING"
          /\ \A j \in Ids \ {i} : owner'[j] = owner[j] /\ dirty'[j] = dirty[j]
      BY <3>1, <3>2 DEF TypeInv, TypeOK
    <3>4. AtMostOnePending' /\ InsertsApart' /\ InsertsLast'
      BY <2>1, <3>3 DEF IndexInv, AtMostOnePending, InsertsApart, InsertsLast
    <3>5. InsertReplaces'
      BY <2>1, <3>3 DEF IndexInv, InsertReplaces
    <3> QED BY <3>4, <3>5 DEF IndexInv
  <2>3. CASE ~hit
    <3>1. UNCHANGED <<owner, dirty>>
      BY <1>3, <2>3 DEF UpdateRow
    <3> QED BY <2>1, <3>1 DEF IndexInv, AtMostOnePending, InsertsApart,
                              InsertReplaces, InsertsLast
  <2> QED BY <2>2, <2>3
<1>4. ASSUME NEW p \in Procs,
             RequestMissing(p) \/ NotPending(p) \/ DeadlockVictim(p)
                \/ InsertConflict(p) \/ Crash(p)
      PROVE  IndexInv'
  <2>1. Unlock(p) /\ UNCHANGED rows /\ \E l : Goto(p, l)
    BY <1>4 DEF RequestMissing, NotPending, DeadlockVictim, InsertConflict,
                Crash, Fail, End
  <2> QED BY <2>1, IndexRollback
<1>5. ASSUME NEW p \in Procs, Reselect(p)
      PROVE  IndexInv'
  <2>1. CASE \E i \in Ids : IsPending(call[p], rows[i])
    <3>1. UNCHANGED db /\ Goto(p, "finish")
      BY <1>5, <2>1 DEF Reselect, Answer, db
    <3> QED BY <3>1, IndexLocal
  <2>2. CASE ~\E i \in Ids : IsPending(call[p], rows[i])
    <3>1. Unlock(p) /\ UNCHANGED rows /\ Goto(p, "idle")
      BY <1>5, <2>2 DEF Reselect, Fail, End
    <3> QED BY <3>1, IndexRollback
  <2> QED BY <2>1, <2>2
<1>6. ASSUME NEW p \in Procs, Insert(p)
      PROVE  IndexInv'
  <2> DEFINE b == call[p].binding
  <2>1. PICK i \in Free : /\ owner' = [owner EXCEPT ![i] = p]
                          /\ dirty' = [dirty EXCEPT ![i] = NewRow(call[p])]
    BY <1>6 DEF Insert
  <2>2. /\ UNCHANGED rows /\ pc[p] = "insert" /\ Goto(p, "finish")
        /\ PendingEntries(p, b) = {}
    BY <1>6 DEF Insert
  <2>3. i \in Ids /\ owner[i] = None /\ rows[i].state # "PENDING"
    BY DEF Free, NoRow
  <2>4. /\ owner'[i] = p /\ dirty'[i].state = "PENDING" /\ dirty'[i].binding = b
        /\ \A j \in Ids \ {i} : owner'[j] = owner[j] /\ dirty'[j] = dirty[j]
    BY <2>1, <2>3 DEF TypeInv, TypeOK, NewRow
  <2>5. \A j \in Ids : rows[j].state = "PENDING" /\ rows[j].binding = b => owner[j] = p
    BY <2>2 DEF PendingEntries
  <2>6. \A j \in Ids : owner[j] = p => dirty[j].state # "PENDING"
    BY <2>2, ApprovalsAssumption DEF IndexInv, InsertsLast
  <2>7. \A j \in Ids : owner[j] # None /\ dirty[j].state = "PENDING" => dirty[j].binding # b
    BY <2>2, <2>6 DEF PendingEntries, LockedByOther
  <2>8. AtMostOnePending'
    BY <2>2 DEF IndexInv, AtMostOnePending
  <2>9. InsertsApart'
    BY <2>4, <2>7 DEF IndexInv, InsertsApart
  <2>10. InsertReplaces'
    BY <2>2, <2>3, <2>4, <2>5, <2>6 DEF IndexInv, InsertReplaces
  <2>11. InsertsLast'
    BY <2>2, <2>3, <2>4 DEF IndexInv, InsertsLast, Goto, TypeInv, TypeOK
  <2> QED BY <2>8, <2>9, <2>10, <2>11 DEF IndexInv
<1>7. ASSUME NEW p \in Procs, Commit(p)
      PROVE  IndexInv'
  <2>1. /\ rows' = [i \in Ids |-> View(p, i)]
        /\ Unlock(p)
        /\ \E l : Goto(p, l)
    BY <1>7 DEF Commit, End
  <2>2. /\ \A i \in Ids : owner[i] = p => rows'[i] = dirty[i] /\ owner'[i] = None
        /\ \A i \in Ids : owner[i] # p => /\ rows'[i] = rows[i]
                                          /\ owner'[i] = owner[i]
                                          /\ dirty'[i] = dirty[i]
    BY <2>1 DEF View, Unlock
  <2>3. p # None
    BY ApprovalsAssumption
  <2>4. AtMostOnePending'
    BY <2>2, <2>3 DEF IndexInv, AtMostOnePending, InsertsApart, InsertReplaces
  <2>5. InsertsApart'
    BY <2>2 DEF IndexInv, InsertsApart
  <2>6. InsertReplaces'
    BY <2>2, <2>3 DEF IndexInv, InsertsApart, InsertReplaces
  <2>7. InsertsLast'
    BY <2>1, <2>2 DEF IndexInv, InsertsLast, Goto, TypeInv, TypeOK
  <2> QED BY <2>4, <2>5, <2>6, <2>7 DEF IndexInv
<1>8. ASSUME NEW p \in Procs, Reply(p)
      PROVE  IndexInv'
  <2>1. UNCHANGED db /\ \E l : Goto(p, l) /\ (pc[p] = "finish" => l = "replied")
                           /\ pc[p] # "replied"
    BY <1>8 DEF Reply, End, db
  <2> QED BY <2>1, IndexLocal
<1>9. CASE Tick \/ UNCHANGED vars
  BY <1>9 DEF Tick, vars, db, request, IndexInv, AtMostOnePending, InsertsApart,
              InsertReplaces, InsertsLast
<1> QED
  BY <1>1, <1>2, <1>3, <1>4, <1>5, <1>6, <1>7, <1>8, <1>9 DEF Next, Run

(* At most one approval per (org, hash, session) waits for a human, however *)
(* many resolve calls race and whatever rolls back.                         *)
THEOREM AtMostOnePendingHolds == Spec => []AtMostOnePending
<1>1. IndexInv => AtMostOnePending
  BY DEF IndexInv
<1> QED BY <1>1, TypeInvariant, InitIndexInv, IndexStep, PTL DEF Spec

-----------------------------------------------------------------------------
(* SingleUse.  The lock on the row is what makes it hold: a "consumed"      *)
(* answer is given for a row its call has locked, and a row someone has     *)
(* locked is not CONSUMED yet.                                              *)

LockedUnconsumed ==
    \A i \in Ids : owner[i] # None => rows[i].state \in {"NONE", "PENDING", "APPROVED"}

(* A consuming UPDATE holds what it has hit.                                *)
HitsHeld ==
    \A p \in Procs :
        /\ pc[p] = "scan" => upd[p].hits = {}
        /\ pc[p] = "update" /\ upd[p].to = "CONSUMED" =>
             \A i \in upd[p].hits : owner[i] = p /\ dirty[i].state = "CONSUMED"

Holding(p) == /\ pc[p] \in {"finish", "replied"}
              /\ owner[out[p].got] = p
              /\ dirty[out[p].got].state = "CONSUMED"

Owing(p) == /\ pc[p] = "committed"
            /\ rows[out[p].got].state = "CONSUMED"
            /\ grants[out[p].got] <= lost[out[p].got]

(* A call that is to answer "consumed" still holds the row, or has          *)
(* committed it and nobody else will answer for it.                         *)
AnswerBacked ==
    /\ \A p \in Procs : /\ out[p].mode = "consumed" => Holding(p) \/ Owing(p)
                        /\ pc[p] = "committed" => CommitFirst
                        /\ pc[p] = "replied" => ~CommitFirst
    /\ \A p, q \in Procs :
         /\ pc[p] = "committed" /\ out[p].mode = "consumed"
         /\ pc[q] = "committed" /\ out[q].mode = "consumed"
         /\ out[p].got = out[q].got
         => p = q

AnsweredFor(i) == \E p \in Procs : /\ pc[p] = "replied"
                                /\ out[p].mode = "consumed" /\ out[p].got = i

(* Until its consumption is committed or answered, an approval has no grant *)
(* but those of lost transactions.                                          *)
GrantsCounted ==
    \A i \in Ids : /\ grants[i] <= 1 + lost[i]
                   /\ rows[i].state # "CONSUMED" /\ ~AnsweredFor(i) =>
                        grants[i] <= lost[i]

GrantInv == LockedUnconsumed /\ HitsHeld /\ AnswerBacked /\ GrantsCounted

LEMMA InitGrantInv == Init => GrantInv
  BY ApprovalsAssumption
     DEF Init, NoOut, NoUpdate, Start, GrantInv, LockedUnconsumed, HitsHeld,
         AnswerBacked, AnsweredFor, GrantsCounted

OthersSame(p) == \A q \in Procs \ {p} :
                    pc'[q] = pc[q] /\ upd'[q] = upd[q] /\ out'[q] = out[q]

(* A call between its first statement and its last ...                      *)
LEMMA GrantLocal ==
    ASSUME TypeInv, GrantInv, NEW p \in Procs, OthersSame(p),
           UNCHANGED <<rows, owner, dirty, grants, lost>>,
           pc[p] \notin {"replied", "committed"},
           pc'[p] \notin {"replied", "committed"},
           out'[p].mode # "consumed",
           pc'[p] \in {"scan", "update"} => upd'[p].hits = {}
    PROVE  GrantInv'
<1>1. LockedUnconsumed' /\ HitsHeld'
  BY DEF GrantInv, OthersSame, LockedUnconsumed, HitsHeld
<1>2. AnswerBacked'
  BY DEF GrantInv, OthersSame, AnswerBacked, Holding, Owing
<1>3. \A i \in Ids : AnsweredFor(i) => AnsweredFor(i)'
  BY DEF OthersSame, AnsweredFor
<1>4. GrantsCounted'
  BY <1>3 DEF GrantInv, GrantsCounted
<1> QED BY <1>1, <1>2, <1>4 DEF GrantInv

(* ... and one whose transaction is undone.                                 *)
LEMMA GrantRollback ==
    ASSUME TypeInv, GrantInv, NEW p \in Procs, OthersSame(p), Unlock(p),
           UNCHANGED <<rows, grants>>,
           lost' = IF pc[p] = "replied" /\ out[p].mode = "consumed"
                   THEN [lost EXCEPT ![out[p].got] = @ + 1] ELSE lost,
           pc'[p] \in {"idle", "reselect"},
           out'[p].mode # "consumed"
    PROVE  GrantInv'
<1>1. /\ \A i \in Ids : owner[i] = p => owner'[i] = None
      /\ \A i \in Ids : owner[i] # p => owner'[i] = owner[i] /\ dirty'[i] = dirty[i]
  BY DEF Unlock
<1>2. p # None
  BY ApprovalsAssumption
<1>3. \A i \in Ids : lost[i] \in Nat /\ lost'[i] \in Nat /\ lost[i] <= lost'[i]
  BY DEF TypeInv, TypeOK, ArgumentsOK
<1>4. LockedUnconsumed'
  BY <1>1 DEF GrantInv, LockedUnconsumed
<1>5. HitsHeld'
  BY <1>1, TypeInv DEF GrantInv, OthersSame, HitsHeld, TypeInv, TypeOK, Update
<1>6. \A q \in Procs : out[q].mode = "consumed" => out[q].got \in Ids
  BY DEF TypeInv, ArgumentsOK
<1>7. AnswerBacked'
  <2>1. ASSUME NEW q \in Procs, out'[q].mode = "consumed"
        PROVE  Holding(q)' \/ Owing(q)'
    <3>1. q # p /\ out'[q] = out[q] /\ pc'[q] = pc[q] /\ out[q].got \in Ids
      BY <2>1, <1>6 DEF OthersSame
    <3>2. CASE Holding(q)
      BY <1>1, <3>1, <3>2 DEF Holding
    <3>3. CASE Owing(q)
      <4>1. grants[out[q].got] \in Nat
        BY <3>1 DEF TypeInv, TypeOK
      <4> QED BY <1>3, <3>1, <3>3, <4>1 DEF Owing
    <3> QED BY <2>1, <3>1, <3>2, <3>3 DEF GrantInv, AnswerBacked
  <2> QED BY <2>1 DEF GrantInv, AnswerBacked, OthersSame
<1>8. GrantsCounted'
  <2> SUFFICES ASSUME NEW i \in Ids
               PROVE  /\ grants[i] <= 1 + lost'[i]
                      /\ rows[i].state # "CONSUMED" /\ ~AnsweredFor(i)' =>
                           grants[i] <= lost'[i]
    BY DEF GrantsCounted
  <2>1. grants[i] \in Nat /\ grants[i] <= 1 + lost[i]
    BY DEF TypeInv, TypeOK, GrantInv, GrantsCounted
  <2>2. grants[i] <= 1 + lost'[i]
    BY <1>3, <2>1
  <2>3. ASSUME rows[i].state # "CONSUMED", ~AnsweredFor(i)'
        PROVE  grants[i] <= lost'[i]
    <3>1. CASE pc[p] = "replied" /\ out[p].mode = "consumed" /\ out[p].got = i
      <4>1. lost'[i] = lost[i] + 1
        BY <3>1 DEF TypeInv, TypeOK
      <4> QED BY <1>3, <2>1, <4>1
    <3>2. CASE ~(pc[p] = "replied" /\ out[p].mode = "consumed" /\ out[p].got = i)
      <4>1. ~AnsweredFor(i)
        BY <2>3, <3>2 DEF AnsweredFor, OthersSame
      <4>2. grants[i] <= lost[i]
        BY <2>3, <4>1 DEF GrantInv, GrantsCounted
      <4> QED BY <1>3, <2>1, <4>2
    <3> QED BY <3>1, <3>2
  <2> QED BY <2>2, <2>3
<1> QED BY <1>4, <1>5, <1>7, <1>8 DEF GrantInv

LEMMA GrantStep == TypeInv /\ GrantInv /\ [Next]_vars => GrantInv'
<1> SUFFICES ASSUME TypeInv, GrantInv, [Next]_vars PROVE GrantInv'
  OBVIOUS
<1> USE DEF db, record, Goto
<1>0. ASSUME NEW p \in Procs, pc[p] \notin {"finish", "replied", "committed"}
      PROVE  out[p].mode # "consumed"
  BY <1>0 DEF GrantInv, AnswerBacked, Holding, Owing
<1>1. ASSUME NEW p \in Procs,
             \/ \E b \in Bindings, v \in Versions, u \in Requesters :
                  BeginResolve(p, b, v, u)
             \/ \E i \in Ids, u \in Users, to \in Decision : BeginDecide(p, i, u, to)
             \/ NothingToConsume(p) \/ Voided(p) \/ Expired(p) \/ Decided(p)
      PROVE  GrantInv'
  <2>1. pc[p] \in {"idle", "update"}
    BY <1>1 DEF BeginResolve, BeginDecide, NothingToConsume, Voided, Expired,
                Decided, Done
  <2>2. /\ OthersSame(p)
        /\ UNCHANGED <<rows, owner, dirty, grants, lost>>
        /\ pc'[p] \in {"scan", "rejected", "finish"}
        /\ upd'[p].hits = {}
    BY <1>1 DEF BeginResolve, BeginDecide, NothingToConsume, Voided, Expired,
                Decided, Log, OthersSame, Start, NoUpdate, TypeInv, TypeOK
  <2>3. out'[p].mode # "consumed"
    BY <1>0, <1>1, <2>1 DEF BeginResolve, BeginDecide, NothingToConsume, Voided,
                Expired, Decided, Log, TypeInv, TypeOK, Out
  <2> QED BY <2>1, <2>2, <2>3, GrantLocal
<1>2. ASSUME NEW p \in Procs, Scan(p)
      PROVE  GrantInv'
  <2>1. /\ OthersSame(p)
        /\ UNCHANGED <<rows, owner, dirty, grants, lost>>
        /\ pc[p] = "scan" /\ pc'[p] = "update"
        /\ upd'[p].hits = upd[p].hits
        /\ out'[p] = out[p]
    BY <1>2 DEF Scan, OthersSame, TypeInv, TypeOK, Update
  <2>2. upd[p].hits = {}
    BY <2>1 DEF GrantInv, HitsHeld
  <2>3. out[p].mode # "consumed"
    BY <1>0, <2>1
  <2> QED BY <2>1, <2>2, <2>3, GrantLocal
<1>3. ASSUME NEW p \in Procs,
             SelectRejected(p) \/ SelectPending(p) \/ RequestFound(p)
      PROVE  GrantInv'
  <2>1. pc[p] \in {"rejected", "pending", "lookup"}
    BY <1>3 DEF SelectRejected, SelectPending, RequestFound
  <2>2. /\ OthersSame(p)
        /\ UNCHANGED <<rows, owner, dirty, grants, lost>>
        /\ pc'[p] \in {"pending", "lookup", "insert", "finish"}
    BY <1>3 DEF SelectRejected, SelectPending, RequestFound, Answer, OthersSame,
                TypeInv, TypeOK
  <2>3. out'[p].mode # "consumed"
    BY <1>0, <1>3, <2>1 DEF SelectRejected, SelectPending, RequestFound, Answer,
                            TypeInv, TypeOK, Out
  <2> QED BY <2>1, <2>2, <2>3, GrantLocal
<1>4. ASSUME NEW p \in Procs, NEW i \in Ids, UpdateRow(p, i)
      PROVE  GrantInv'
  <2> DEFINE r == View(p, i)
             hit == Matches(call[p], upd[p].to, i, r)
  <2>1. /\ UNCHANGED <<rows, pc, call, out, grants, lost>>
        /\ owner[i] \in {p, None} /\ pc[p] = "update"
        /\ \A q \in Procs \ {p} : upd'[q] = upd[q]
        /\ upd'[p].to = upd[p].to
        /\ upd'[p].hits = IF hit THEN upd[p].hits \cup {i} ELSE upd[p].hits
    BY <1>4 DEF UpdateRow, LockedByOther, TypeInv, TypeOK, Update
  <2>2. p # None
    BY ApprovalsAssumption
  <2>3. CASE hit
    <3>1. /\ owner'[i] = p /\ dirty'[i] = Updated(call[p], upd[p].to, r)
          /\ \A j \in Ids \ {i} : owner'[j] = owner[j] /\ dirty'[j] = dirty[j]
      BY <1>4, <2>3 DEF UpdateRow, TypeInv, TypeOK
    <3>2. r \in Row
      BY <2>1, <2>3, UpdateType
    <3>3. dirty'[i].state = upd[p].to
      BY <3>1, <3>2 DEF Updated, Row
    <3>4. rows[i].state \in {"NONE", "PENDING", "APPROVED"}
      <4>1. CASE owner[i] = p
        BY <2>2, <4>1 DEF GrantInv, LockedUnconsumed
      <4>2. CASE owner[i] = None
        BY <2>2, <2>3, <4>2 DEF View, Matches, Usable, Decision
      <4> QED BY <2>1, <4>1, <4>2
    <3>5. LockedUnconsumed'
      BY <2>1, <3>1, <3>4 DEF GrantInv, LockedUnconsumed
    <3>6. HitsHeld'
      <4>1. ASSUME NEW q \in Procs \ {p}, pc[q] = "update", upd[q].to = "CONSUMED",
                   NEW j \in upd[q].hits
            PROVE  owner'[j] = q /\ dirty'[j].state = "CONSUMED"
        <5>1. j \in Ids /\ owner[j] = q /\ dirty[j].state = "CONSUMED"
          BY <4>1 DEF GrantInv, HitsHeld, TypeInv, TypeOK, Update
        <5>2. j # i
          BY <2>1, <4>1, <5>1, ApprovalsAssumption
        <5> QED BY <3>1, <5>1, <5>2
      <4>2. ASSUME upd[p].to = "CONSUMED", NEW j \in upd[p].hits \cup {i}
            PROVE  owner'[j] = p /\ dirty'[j].state = "CONSUMED"
        <5>1. CASE j = i
          BY <3>1, <3>3, <4>2, <5>1
        <5>2. CASE j # i
          <6>1. j \in Ids /\ owner[j] = p /\ dirty[j].state = "CONSUMED"
            BY <2>1, <4>2, <5>2 DEF GrantInv, HitsHeld, TypeInv, TypeOK, Update
          <6> QED BY <3>1, <5>2, <6>1
        <5> QED BY <5>1, <5>2
      <4>3. \A q \in Procs : pc[q] = "scan" => q # p /\ upd[q].hits = {}
        BY <2>1 DEF GrantInv, HitsHeld
      <4> QED BY <2>1, <2>3, <4>1, <4>2, <4>3 DEF HitsHeld
    <3>7. \A q \in Procs : out[q].mode = "consumed" => q # p /\ out[q].got \in Ids
      BY <1>0, <2>1 DEF TypeInv, ArgumentsOK
    <3>8. AnswerBacked'
      BY ApprovalsAssumption, <2>1, <2>2, <3>1, <3>7 DEF GrantInv, AnswerBacked, Holding, Owing
    <3>9. GrantsCounted'
      BY <2>1 DEF GrantInv, GrantsCounted, AnsweredFor
    <3> QED BY <3>5, <3>6, <3>8, <3>9 DEF GrantInv
  <2>4. CASE ~hit
    <3>1. UNCHANGED <<owner, dirty>>
      BY <1>4, <2>4 DEF UpdateRow
    <3>2. LockedUnconsumed' /\ HitsHeld'
      BY <2>1, <2>4, <3>1 DEF GrantInv, LockedUnconsumed, HitsHeld
    <3>3. AnswerBacked' /\ GrantsCounted'
      BY <2>1, <3>1 DEF GrantInv, AnswerBacked, Holding, Owing, GrantsCounted, AnsweredFor
    <3> QED BY <3>2, <3>3 DEF GrantInv
  <2> QED BY <2>3, <2>4
<1>5. ASSUME NEW p \in Procs, Consumed(p)
      PROVE  GrantInv'
  <2>1. PICK g \in upd[p].hits :
          out' = [out EXCEPT ![p] = [events |-> {<<g, "CONSUMED">>}, got |-> g,
                                     mode |-> "consumed"]]
    BY <1>5 DEF Consumed
  <2>2. /\ pc[p] = "update" /\ upd[p].to = "CONSUMED" /\ pc'[p] = "finish"
        /\ OthersSame(p) /\ UNCHANGED <<rows, owner, dirty, grants, lost>>
    BY <1>5, <2>1 DEF Consumed, Done, OthersSame, TypeInv, TypeOK
  <2>3. out'[p].got = g /\ owner[g] = p /\ dirty[g].state = "CONSUMED"
    BY <2>1, <2>2 DEF GrantInv, HitsHeld, TypeInv, TypeOK
  <2>4. LockedUnconsumed' /\ HitsHeld'
    BY <2>2 DEF GrantInv, OthersSame, LockedUnconsumed, HitsHeld
  <2>5. AnswerBacked'
    BY <2>2, <2>3 DEF GrantInv, OthersSame, AnswerBacked, Holding, Owing
  <2>6. \A i \in Ids : AnsweredFor(i) => AnsweredFor(i)'
    BY <2>2 DEF OthersSame, AnsweredFor
  <2>7. GrantsCounted'
    BY <2>2, <2>6 DEF GrantInv, GrantsCounted
  <2> QED BY <2>4, <2>5, <2>7 DEF GrantInv
<1>6. ASSUME NEW p \in Procs, Fail(p), pc[p] # "replied"
      PROVE  GrantInv'
  BY <1>6, GrantRollback DEF Fail, End, OthersSame, NoOut, TypeInv, TypeOK
<1>7. ASSUME NEW p \in Procs,
             RequestMissing(p) \/ NotPending(p) \/ DeadlockVictim(p)
      PROVE  GrantInv'
  <2>1. ASSUME DeadlockVictim(p) PROVE pc[p] = "update"
    BY <2>1 DEF DeadlockVictim, WaitsFor
  <2> QED BY <1>6, <1>7, <2>1 DEF RequestMissing, NotPending, Done, DeadlockVictim
<1>8. ASSUME NEW p \in Procs, Insert(p)
      PROVE  GrantInv'
  <2>1. PICK i \in Free :
          /\ owner' = [owner EXCEPT ![i] = p]
          /\ dirty' = [dirty EXCEPT ![i] = NewRow(call[p])]
          /\ out' = [out EXCEPT ![p] =
                       [events |-> out[p].events \cup {<<i, "PENDING">>},
                        got |-> None, mode |-> "pending"]]
    BY <1>8 DEF Insert
  <2>2. /\ i \in Ids /\ owner[i] = None /\ rows[i].state = "NONE"
        /\ owner'[i] = p
        /\ \A j \in Ids \ {i} : owner'[j] = owner[j] /\ dirty'[j] = dirty[j]
    BY <2>1 DEF Free, NoRow, TypeInv, TypeOK
  <2>3. /\ OthersSame(p) /\ UNCHANGED <<rows, grants, lost>>
        /\ pc[p] = "insert" /\ pc'[p] = "finish" /\ out'[p].mode # "consumed"
    BY <1>8, <2>1 DEF Insert, OthersSame, TypeInv, TypeOK
  <2>4. p # None
    BY ApprovalsAssumption
  <2>5. \A q \in Procs : /\ \A j \in upd[q].hits : j \in Ids
                         /\ out[q].mode = "consumed" => out[q].got \in Ids
    BY DEF TypeInv, TypeOK, Update, ArgumentsOK
  <2>6. LockedUnconsumed'
    BY <2>2, <2>3 DEF GrantInv, LockedUnconsumed
  <2>7. HitsHeld'
    BY <2>2, <2>3, <2>5, ApprovalsAssumption DEF GrantInv, OthersSame, HitsHeld
  <2>8. AnswerBacked'
    BY <2>2, <2>3, <2>5, ApprovalsAssumption
       DEF GrantInv, OthersSame, AnswerBacked, Holding, Owing
  <2>9. \A j \in Ids : AnsweredFor(j) => AnsweredFor(j)'
    BY <2>3 DEF OthersSame, AnsweredFor
  <2>10. GrantsCounted'
    BY <2>3, <2>9 DEF GrantInv, GrantsCounted
  <2> QED BY <2>6, <2>7, <2>8, <2>10 DEF GrantInv
<1>9. ASSUME NEW p \in Procs, InsertConflict(p)
      PROVE  GrantInv'
  BY <1>9, GrantRollback
     DEF InsertConflict, OthersSame, NoOut, TypeInv, TypeOK
<1>10. ASSUME NEW p \in Procs, Reselect(p)
       PROVE  GrantInv'
  <2>1. CASE \E i \in Ids : IsPending(call[p], rows[i])
    <3>1. /\ OthersSame(p) /\ UNCHANGED <<rows, owner, dirty, grants, lost>>
          /\ pc[p] = "reselect" /\ pc'[p] = "finish" /\ out'[p].mode # "consumed"
      BY <1>10, <2>1 DEF Reselect, Answer, OthersSame, TypeInv, TypeOK, Out
    <3> QED BY <3>1, GrantLocal
  <2>2. CASE ~\E i \in Ids : IsPending(call[p], rows[i])
    BY <1>6, <1>10, <2>2 DEF Reselect
  <2> QED BY <2>1, <2>2
<1>11. ASSUME NEW p \in Procs, Commit(p)
       PROVE  GrantInv'
  <2>1. /\ \A i \in Ids : owner[i] = p => rows'[i] = dirty[i] /\ owner'[i] = None
        /\ \A i \in Ids : owner[i] # p => /\ rows'[i] = rows[i]
                                          /\ owner'[i] = owner[i]
                                          /\ dirty'[i] = dirty[i]
        /\ UNCHANGED <<grants, lost>> /\ OthersSame(p)
    BY <1>11 DEF Commit, Unlock, View, End, OthersSame, TypeInv, TypeOK
  <2>2. \A q \in Procs : out[q].mode = "consumed" => out[q].got \in Ids
    BY DEF TypeInv, ArgumentsOK
  <2>3. \A q \in Procs : \A i \in upd[q].hits : i \in Ids
    BY DEF TypeInv, TypeOK, Update
  <2>4. p # None
    BY ApprovalsAssumption
  <2>5. LockedUnconsumed'
    BY <2>1 DEF GrantInv, LockedUnconsumed
  <2>6. \A i \in Ids : rows[i].state = "CONSUMED" => rows'[i].state = "CONSUMED"
    BY <2>1, <2>4 DEF GrantInv, LockedUnconsumed
  <2>7. pc'[p] \in {"committed", "idle"}
    BY <1>11 DEF Commit, End, TypeInv, TypeOK
  <2>8. HitsHeld'
    BY <2>1, <2>3, <2>7 DEF GrantInv, OthersSame, HitsHeld
  <2>9. ASSUME NEW i \in Ids, owner[i] = p, ~AnsweredFor(i)
        PROVE  grants[i] <= lost[i]
    BY <2>4, <2>9 DEF GrantInv, GrantsCounted, LockedUnconsumed
  <2>10. ASSUME NEW q \in Procs \ {p}, out[q].mode = "consumed"
         PROVE  Holding(q)' \/ Owing(q)'
    <3>1. out[q].got \in Ids /\ out'[q] = out[q] /\ pc'[q] = pc[q]
      BY <2>1, <2>2, <2>10 DEF OthersSame
    <3>2. CASE Holding(q)
      BY <2>1, <3>1, <3>2 DEF Holding
    <3>3. CASE Owing(q)
      BY <2>1, <2>6, <3>1, <3>3 DEF Owing
    <3> QED BY <2>10, <3>2, <3>3 DEF GrantInv, AnswerBacked
  <2>11. CASE CommitFirst
    <3>1. pc[p] = "finish" /\ pc'[p] = "committed" /\ UNCHANGED out
      BY <1>11, <2>11 DEF Commit, TypeInv, TypeOK
    <3>2. \A i \in Ids : ~AnsweredFor(i)
      BY <2>11 DEF GrantInv, AnswerBacked, AnsweredFor
    <3>3. ASSUME out[p].mode = "consumed"
          PROVE  Owing(p)' /\ owner[out[p].got] = p
      <4>1. Holding(p)
        BY <3>1, <3>3 DEF GrantInv, AnswerBacked, Owing
      <4> QED BY <2>1, <2>2, <2>9, <3>1, <3>2, <3>3, <4>1 DEF Holding, Owing
    <3>4. \A q \in Procs : pc[q] = "committed" /\ out[q].mode = "consumed" =>
                             owner[out[q].got] = None
      BY <2>2, <2>11 DEF GrantInv, AnswerBacked, Holding, Owing, LockedUnconsumed
    <3>5. \A q \in Procs : out'[q].mode = "consumed" => Holding(q)' \/ Owing(q)'
      BY <2>10, <3>1, <3>3
    <3>6. \A q \in Procs : /\ pc'[q] = "committed" => CommitFirst
                           /\ pc'[q] = "replied" => ~CommitFirst
      BY <2>1, <2>11, <3>1 DEF GrantInv, AnswerBacked, OthersSame
    <3>7. AnswerBacked'
      BY <2>1, <2>4, <3>1, <3>3, <3>4, <3>5, <3>6
         DEF GrantInv, OthersSame, AnswerBacked
    <3>8. GrantsCounted'
      BY <2>1, <2>9, <3>2 DEF GrantInv, GrantsCounted
    <3> QED BY <2>5, <2>8, <3>7, <3>8 DEF GrantInv
  <2>12. CASE ~CommitFirst
    <3>1. pc[p] = "replied" /\ pc'[p] = "idle" /\ out'[p].mode # "consumed"
      BY <1>11, <2>12 DEF Commit, End, NoOut, TypeInv, TypeOK
    <3>2. AnswerBacked'
      BY <2>1, <2>10, <2>12, <3>1 DEF GrantInv, OthersSame, AnswerBacked
    <3>3. ASSUME NEW i \in Ids, rows'[i].state # "CONSUMED", ~AnsweredFor(i)'
          PROVE  grants[i] <= lost[i]
      <4>1. ~AnsweredFor(i)
        <5> SUFFICES ASSUME NEW q \in Procs, pc[q] = "replied",
                            out[q].mode = "consumed", out[q].got = i
                     PROVE  FALSE
          BY DEF AnsweredFor
        <5>1. q = p
          BY <2>1, <3>3 DEF OthersSame, AnsweredFor
        <5>2. owner[i] = p /\ dirty[i].state = "CONSUMED"
          BY <5>1 DEF GrantInv, AnswerBacked, Holding, Owing
        <5> QED BY <2>1, <3>3, <5>2
      <4> QED BY <2>6, <3>3, <4>1 DEF GrantInv, GrantsCounted
    <3>4. GrantsCounted'
      BY <2>1, <3>3 DEF GrantInv, GrantsCounted
    <3> QED BY <2>5, <2>8, <3>2, <3>4 DEF GrantInv
  <2> QED BY <2>11, <2>12
<1>12. ASSUME NEW p \in Procs, Reply(p)
       PROVE  GrantInv'
  <2>1. /\ UNCHANGED <<rows, owner, dirty, lost>> /\ OthersSame(p)
        /\ grants' = IF out[p].mode = "consumed"
                     THEN [grants EXCEPT ![out[p].got] = @ + 1] ELSE grants
    BY <1>12 DEF Reply, End, OthersSame, TypeInv, TypeOK
  <2>2. \A q \in Procs : out[q].mode = "consumed" => out[q].got \in Ids
    BY DEF TypeInv, ArgumentsOK
  <2>3. \A i \in Ids : grants[i] \in Nat /\ lost[i] \in Nat
    BY DEF TypeInv, TypeOK
  <2>4. pc[p] \in {"finish", "committed"} /\ pc'[p] \in {"idle", "replied"}
    BY <1>12 DEF Reply, End, TypeInv, TypeOK
  <2>5. LockedUnconsumed' /\ HitsHeld'
    BY <2>1, <2>4 DEF GrantInv, OthersSame, LockedUnconsumed, HitsHeld
  <2>6. \A i \in Ids : i # out[p].got \/ out[p].mode # "consumed" =>
                         grants'[i] = grants[i]
    BY <2>1 DEF TypeInv, TypeOK
  <2>7. \A i \in Ids : AnsweredFor(i) => AnsweredFor(i)'
    BY <2>1, <2>4 DEF OthersSame, AnsweredFor
  <2>8. CASE CommitFirst
    <3>1. pc[p] = "committed" /\ pc'[p] = "idle" /\ out'[p].mode # "consumed"
      BY <1>12, <2>8 DEF Reply, End, NoOut, TypeInv, TypeOK
    <3>2. out[p].mode = "consumed" =>
            /\ rows[out[p].got].state = "CONSUMED"
            /\ grants[out[p].got] <= lost[out[p].got]
      BY <3>1 DEF GrantInv, AnswerBacked, Holding, Owing
    <3>3. ASSUME NEW q \in Procs, out'[q].mode = "consumed"
          PROVE  Holding(q)' \/ Owing(q)'
      <4>1. q # p /\ out'[q] = out[q] /\ pc'[q] = pc[q] /\ out[q].mode = "consumed"
        BY <2>1, <3>1, <3>3 DEF OthersSame
      <4>2. CASE Holding(q)
        BY <2>1, <4>1, <4>2 DEF Holding
      <4>3. CASE Owing(q)
        <5>1. out[p].got # out[q].got \/ out[p].mode # "consumed"
          BY <3>1, <4>1, <4>3 DEF GrantInv, AnswerBacked, Owing
        <5> QED BY <2>1, <2>2, <2>6, <4>1, <4>3, <5>1 DEF Owing
      <4> QED BY <4>1, <4>2, <4>3 DEF GrantInv, AnswerBacked
    <3>4. AnswerBacked'
      BY <2>1, <2>8, <3>1, <3>3 DEF GrantInv, OthersSame, AnswerBacked
    <3>5. GrantsCounted'
      <4> SUFFICES ASSUME NEW i \in Ids
                   PROVE  /\ grants'[i] <= 1 + lost[i]
                          /\ rows[i].state # "CONSUMED" /\ ~AnsweredFor(i)' =>
                               grants'[i] <= lost[i]
        BY <2>1 DEF GrantsCounted
      <4>1. CASE i = out[p].got /\ out[p].mode = "consumed"
        <5>1. grants'[i] = grants[i] + 1
          BY <2>1, <4>1 DEF TypeInv, TypeOK
        <5> QED BY <2>3, <3>2, <4>1, <5>1
      <4>2. CASE ~(i = out[p].got /\ out[p].mode = "consumed")
        BY <2>6, <2>7, <4>2 DEF GrantInv, GrantsCounted
      <4> QED BY <4>1, <4>2
    <3> QED BY <2>5, <3>4, <3>5 DEF GrantInv
  <2>9. CASE ~CommitFirst
    <3>1. pc[p] = "finish" /\ pc'[p] = "replied" /\ UNCHANGED out
      BY <1>12, <2>9 DEF Reply, TypeInv, TypeOK
    <3>2. \A q \in Procs : out[q].mode = "consumed" => Holding(q)
      BY <2>9 DEF GrantInv, AnswerBacked, Owing
    <3>3. AnswerBacked'
      BY <2>1, <2>9, <3>1, <3>2 DEF GrantInv, OthersSame, AnswerBacked, Holding
    <3>4. GrantsCounted'
      <4> SUFFICES ASSUME NEW i \in Ids
                   PROVE  /\ grants'[i] <= 1 + lost[i]
                          /\ rows[i].state # "CONSUMED" /\ ~AnsweredFor(i)' =>
                               grants'[i] <= lost[i]
        BY <2>1 DEF GrantsCounted
      <4>1. CASE i = out[p].got /\ out[p].mode = "consumed"
        <5>1. owner[i] = p
          BY <3>2, <4>1 DEF Holding
        <5>2. ~AnsweredFor(i)
          BY <3>1, <3>2, <5>1 DEF AnsweredFor, Holding
        <5>3. rows[i].state # "CONSUMED"
          BY <5>1, ApprovalsAssumption DEF GrantInv, LockedUnconsumed
        <5>4. grants[i] <= lost[i]
          BY <5>2, <5>3 DEF GrantInv, GrantsCounted
        <5>5. grants'[i] = grants[i] + 1 /\ AnsweredFor(i)'
          BY <2>1, <3>1, <4>1 DEF TypeInv, TypeOK, AnsweredFor
        <5> QED BY <2>3, <5>4, <5>5
      <4>2. CASE ~(i = out[p].got /\ out[p].mode = "consumed")
        BY <2>6, <2>7, <4>2 DEF GrantInv, GrantsCounted
      <4> QED BY <4>1, <4>2
    <3> QED BY <2>5, <3>3, <3>4 DEF GrantInv
  <2> QED BY <2>8, <2>9
<1>13. ASSUME NEW p \in Procs, Crash(p)
       PROVE  GrantInv'
  BY <1>13, GrantRollback DEF Crash, End, OthersSame, NoOut, TypeInv, TypeOK
<1>14. CASE Tick \/ UNCHANGED vars
  <2>1. UNCHANGED <<rows, owner, dirty, pc, upd, out, grants, lost>>
    BY <1>14 DEF Tick, vars, request
  <2> QED BY <2>1 DEF GrantInv, LockedUnconsumed, HitsHeld, AnswerBacked,
                      Holding, Owing, GrantsCounted, AnsweredFor
<1> QED
  BY <1>1, <1>2, <1>3, <1>4, <1>5, <1>7, <1>8, <1>9, <1>10, <1>11, <1>12,
     <1>13, <1>14 DEF Next, Run

(* Single use, whatever crashes and in whichever order get_db commits and   *)
(* FastAPI answers: an approval is granted once, and once more at most for  *)
(* every transaction that was lost after it had answered.                   *)
THEOREM SingleUseHolds == Spec => []SingleUse
<1>1. GrantInv => SingleUse
  BY DEF GrantInv, GrantsCounted, SingleUse
<1> QED BY <1>1, TypeInvariant, InitGrantInv, GrantStep, PTL DEF Spec

(* No transaction that commits before it answers is lost after answering,   *)
(* and none at all where no process dies.                                   *)
Lossless == CommitFirst \/ MaxCrashes = 0

NoneLost == Lossless => \A i \in Ids : lost[i] = 0

LEMMA LostStep == TypeInv /\ GrantInv /\ NoneLost /\ [Next]_vars => NoneLost'
<1> SUFFICES ASSUME TypeInv, GrantInv, NoneLost, [Next]_vars, Lossless
             PROVE  \A i \in Ids : lost'[i] = 0
  BY DEF NoneLost
<1>1. (\A p \in Procs : pc[p] # "replied") \/ ~(crashes < MaxCrashes)
  BY DEF GrantInv, AnswerBacked, Lossless, TypeInv, TypeOK
<1>2. UNCHANGED lost
  BY <1>1 DEF Next, Run, BeginResolve, BeginDecide, Scan, UpdateRow, Consumed,
      NothingToConsume, Voided, Expired, SelectRejected, SelectPending,
      RequestFound, RequestMissing, Insert, InsertConflict, Reselect, Decided,
      NotPending, Commit, Reply, DeadlockVictim, Crash, Tick, Fail, vars, record
<1> QED BY <1>2 DEF NoneLost

(* Where get_db commits before the response leaves, or no process dies, a   *)
(* "consumed" answer is given once per approval, and nothing weakens it.    *)
THEOREM ConsumedOnceHolds == Lossless /\ Spec => []ConsumedOnce
<1> SUFFICES ASSUME Lossless PROVE Spec => []ConsumedOnce
  OBVIOUS
<1>1. Init => NoneLost
  BY DEF Init, NoneLost
<1>2. TypeInv /\ GrantInv /\ NoneLost => ConsumedOnce
  BY DEF TypeInv, TypeOK, GrantInv, GrantsCounted, NoneLost, ConsumedOnce
<1> QED BY <1>1, <1>2, TypeInvariant, InitGrantInv, GrantStep, LostStep, PTL DEF Spec
-----------------------------------------------------------------------------
(* ConsumedInContext.  What a consuming UPDATE has tested stays so while it *)
(* holds the rows: what is decided about an approval is written once, and   *)
(* what it was asked for never changes.                                     *)

(* A decision is by someone who may give it.                                *)
DecidedBySomeone(r) ==
    r.state \in {"APPROVED", "REJECTED", "CONSUMED"} =>
        r.decidedBy \in Approvers[r.version] \ {r.requester}

DecisionsGenuine ==
    \A i \in Ids : /\ DecidedBySomeone(rows[i])
                   /\ owner[i] # None => DecidedBySomeone(dirty[i])

SameApproval(r, s) ==
    /\ r.binding = s.binding /\ r.version = s.version
    /\ r.expires = s.expires /\ r.requester = s.requester

(* An UPDATE changes what became of an approval, not what it is.            *)
ApprovalsKept ==
    \A i \in Ids : owner[i] # None /\ rows[i].state # "NONE" =>
                     SameApproval(dirty[i], rows[i])

(* A decision call has looked at the row it is about, and may decide it.    *)
StillMayDecide(p) ==
    pc[p] \in {"scan", "update"} /\ upd[p].to \in Decision =>
        /\ rows[call[p].id].state # "NONE"
        /\ MayDecide(call[p].user, rows[call[p].id])

InContext(c, r) ==
    r.binding = c.binding /\ r.version = c.version /\ r.expires > c.start

HitsInContext(p) ==
    pc[p] = "update" /\ upd[p].to = "CONSUMED" =>
        \A i \in upd[p].hits : InContext(call[p], dirty[i])

AnswerInContext(p) ==
    out[p].mode = "consumed" =>
        InContext(call[p], IF pc[p] = "committed" THEN rows[out[p].got]
                                                  ELSE dirty[out[p].got])

ContextInv ==
    /\ DecisionsGenuine /\ ApprovalsKept
    /\ \A p \in Procs : StillMayDecide(p) /\ HitsInContext(p) /\ AnswerInContext(p)

LEMMA InitContextInv == Init => ContextInv
  BY ApprovalsAssumption
     DEF Init, NoRow, NoOut, ContextInv, DecisionsGenuine, DecidedBySomeone,
         ApprovalsKept, StillMayDecide, HitsInContext, AnswerInContext

OtherCallsSame(p) == OthersSame(p) /\ \A q \in Procs \ {p} : call'[q] = call[q]

(* What the calls of others rest on, whatever happens to rows that are not  *)
(* theirs: what they hit they hold, and what they have to answer for they   *)
(* hold or have committed.                                                  *)
LEMMA OthersInContext ==
    ASSUME TypeInv, GrantInv, ContextInv, NEW p \in Procs, OtherCallsSame(p),
           \A i \in Ids : owner[i] # None /\ owner[i] # p => dirty'[i] = dirty[i],
           \A i \in Ids : rows[i].state = "CONSUMED" => rows'[i] = rows[i],
           \A i \in Ids : rows[i].state # "NONE" =>
             rows'[i].state # "NONE" /\ SameApproval(rows'[i], rows[i])
    PROVE  \A q \in Procs \ {p} :
             StillMayDecide(q)' /\ HitsInContext(q)' /\ AnswerInContext(q)'
<1> SUFFICES ASSUME NEW q \in Procs \ {p}
             PROVE  StillMayDecide(q)' /\ HitsInContext(q)' /\ AnswerInContext(q)'
  OBVIOUS
<1>1. /\ pc'[q] = pc[q] /\ upd'[q] = upd[q] /\ out'[q] = out[q] /\ call'[q] = call[q]
      /\ q # None /\ q # p
  BY ApprovalsAssumption DEF OtherCallsSame, OthersSame
<1>2. StillMayDecide(q)'
  <2>1. ASSUME pc[q] \in {"scan", "update"}, upd[q].to \in Decision
        PROVE  /\ rows'[call[q].id].state # "NONE"
               /\ MayDecide(call[q].user, rows'[call[q].id])
    BY <2>1 DEF TypeInv, ArgumentsOK, ContextInv, StillMayDecide, SameApproval,
                MayDecide
  <2> QED BY <1>1, <2>1 DEF StillMayDecide, MayDecide
<1>3. HitsInContext(q)'
  <2>1. ASSUME pc[q] = "update", upd[q].to = "CONSUMED", NEW i \in upd[q].hits
        PROVE  dirty'[i] = dirty[i]
    BY <1>1, <2>1 DEF TypeInv, TypeOK, Update, GrantInv, HitsHeld
  <2> QED BY <1>1, <2>1 DEF ContextInv, HitsInContext, InContext
<1>4. AnswerInContext(q)'
  <2> SUFFICES ASSUME out[q].mode = "consumed"
               PROVE  InContext(call[q], IF pc[q] = "committed" THEN rows'[out[q].got]
                                                           ELSE dirty'[out[q].got])
    BY <1>1 DEF AnswerInContext, InContext
  <2>1. out[q].got \in Ids /\ (Holding(q) \/ Owing(q))
    BY DEF TypeInv, ArgumentsOK, GrantInv, AnswerBacked
  <2>2. CASE Holding(q)
    BY <1>1, <2>1, <2>2 DEF Holding, ContextInv, AnswerInContext
  <2>3. CASE Owing(q)
    BY <1>1, <2>1, <2>3 DEF Owing, ContextInv, AnswerInContext
  <2> QED BY <2>1, <2>2, <2>3
<1> QED BY <1>2, <1>3, <1>4

(* A call that touches no row ...                                           *)
LEMMA ContextLocal ==
    ASSUME TypeInv, GrantInv, ContextInv, NEW p \in Procs, OtherCallsSame(p),
           UNCHANGED db,
           StillMayDecide(p)', HitsInContext(p)', AnswerInContext(p)'
    PROVE  ContextInv'
<1>1. UNCHANGED <<rows, owner, dirty>>
  BY DEF db
<1>2. \A i \in Ids : SameApproval(rows'[i], rows[i])
  BY <1>1 DEF SameApproval
<1>3. \A q \in Procs \ {p} :
        StillMayDecide(q)' /\ HitsInContext(q)' /\ AnswerInContext(q)'
  BY <1>1, <1>2, OthersInContext
<1>4. DecisionsGenuine' /\ ApprovalsKept'
  BY <1>1 DEF ContextInv, DecisionsGenuine, DecidedBySomeone, ApprovalsKept,
              SameApproval
<1> QED BY <1>3, <1>4 DEF ContextInv

(* ... and one whose transaction is undone.                                 *)
LEMMA ContextRollback ==
    ASSUME TypeInv, GrantInv, ContextInv, NEW p \in Procs, OtherCallsSame(p),
           Unlock(p), UNCHANGED rows,
           pc'[p] \in {"idle", "reselect"}, out'[p].mode # "consumed"
    PROVE  ContextInv'
<1>1. /\ \A i \in Ids : owner[i] = p => owner'[i] = None
      /\ \A i \in Ids : owner[i] # p => owner'[i] = owner[i] /\ dirty'[i] = dirty[i]
  BY DEF Unlock
<1>2. \A i \in Ids : SameApproval(rows'[i], rows[i])
  BY DEF SameApproval
<1>3. \A q \in Procs \ {p} :
        StillMayDecide(q)' /\ HitsInContext(q)' /\ AnswerInContext(q)'
  BY <1>1, <1>2, OthersInContext
<1>4. DecisionsGenuine' /\ ApprovalsKept'
  BY <1>1 DEF ContextInv, DecisionsGenuine, DecidedBySomeone, ApprovalsKept,
              SameApproval
<1>5. StillMayDecide(p)' /\ HitsInContext(p)' /\ AnswerInContext(p)'
  BY DEF StillMayDecide, HitsInContext, AnswerInContext
<1> QED BY <1>3, <1>4, <1>5 DEF ContextInv
LEMMA ContextStep == TypeInv /\ GrantInv /\ ContextInv /\ [Next]_vars => ContextInv'
<1> SUFFICES ASSUME TypeInv, GrantInv, ContextInv, [Next]_vars PROVE ContextInv'
  OBVIOUS
<1>1. ASSUME NEW p \in Procs, NEW b \in Bindings, NEW v \in Versions,
             NEW u \in Requesters, BeginResolve(p, b, v, u)
      PROVE  ContextInv'
  <2>1. /\ pc[p] = "idle" /\ pc'[p] = "scan" /\ upd'[p].to = "CONSUMED"
        /\ UNCHANGED <<db, out>> /\ OtherCallsSame(p)
    BY <1>1 DEF BeginResolve, Goto, Start, OtherCallsSame, OthersSame, TypeInv, TypeOK
  <2>2. out[p].mode # "consumed"
    BY <2>1 DEF GrantInv, AnswerBacked, Holding, Owing
  <2> QED BY <2>1, <2>2, ContextLocal
          DEF StillMayDecide, HitsInContext, AnswerInContext, Decision
<1>2. ASSUME NEW p \in Procs, NEW i \in Ids, NEW u \in Users,
             NEW to \in Decision, BeginDecide(p, i, u, to)
      PROVE  ContextInv'
  <2>1. /\ pc[p] = "idle" /\ pc'[p] = "scan"
        /\ call'[p].id = i /\ call'[p].user = u
        /\ UNCHANGED <<db, rows, out>> /\ OtherCallsSame(p)
    BY <1>2 DEF BeginDecide, Goto, OtherCallsSame, OthersSame, TypeInv, TypeOK, db
  <2>2. out[p].mode # "consumed"
    BY <2>1 DEF GrantInv, AnswerBacked, Holding, Owing
  <2>3. rows[i].state # "NONE" /\ MayDecide(u, rows[i])
    BY <1>2 DEF BeginDecide, TypeInv, TypeOK, Row, ApprovalState
  <2>4. StillMayDecide(p)'
    BY <2>1, <2>3 DEF StillMayDecide, MayDecide
  <2> QED BY <2>1, <2>2, <2>4, ContextLocal DEF HitsInContext, AnswerInContext
<1>3. ASSUME NEW p \in Procs, Scan(p)
      PROVE  ContextInv'
  <2>1. /\ pc[p] = "scan" /\ pc'[p] = "update"
        /\ upd'[p].to = upd[p].to /\ upd'[p].hits = upd[p].hits
        /\ UNCHANGED <<db, rows, call, out>> /\ OtherCallsSame(p)
    BY <1>3 DEF Scan, Goto, OtherCallsSame, OthersSame, TypeInv, TypeOK, Update, db
  <2>2. out[p].mode # "consumed"
    BY <2>1 DEF GrantInv, AnswerBacked, Holding, Owing
  <2>3. upd[p].hits = {}
    BY <2>1 DEF GrantInv, HitsHeld
  <2>4. StillMayDecide(p)'
    BY <2>1 DEF ContextInv, StillMayDecide, MayDecide
  <2> QED BY <2>1, <2>2, <2>3, <2>4, ContextLocal DEF HitsInContext, AnswerInContext
<1>4. ASSUME NEW p \in Procs, NEW i \in Ids, UpdateRow(p, i)
      PROVE  ContextInv'
  <2> DEFINE r == View(p, i)
             hit == Matches(call[p], upd[p].to, i, r)
  <2>1. /\ pc[p] = "update" /\ pc'[p] = "update" /\ owner[i] \in {p, None}
        /\ upd'[p].to = upd[p].to
        /\ upd'[p].hits = IF hit THEN upd[p].hits \cup {i} ELSE upd[p].hits
        /\ UNCHANGED <<rows, call, out>> /\ OtherCallsSame(p)
    BY <1>4 DEF UpdateRow, LockedByOther, OtherCallsSame, OthersSame, TypeInv, TypeOK
  <2>2. out[p].mode # "consumed"
    BY <2>1 DEF GrantInv, AnswerBacked, Holding, Owing
  <2>3. StillMayDecide(p)' /\ AnswerInContext(p)'
    BY <2>1, <2>2 DEF ContextInv, StillMayDecide, MayDecide, AnswerInContext
  <2>4. CASE hit
    <3> DEFINE s == Updated(call[p], upd[p].to, r)
    <3>1. r \in Row /\ s \in Row
      BY <2>1, <2>4, UpdateType
    <3>2. /\ owner'[i] = p /\ dirty'[i] = s
          /\ \A j \in Ids \ {i} : owner'[j] = owner[j] /\ dirty'[j] = dirty[j]
      BY <1>4, <2>4 DEF UpdateRow, TypeInv, TypeOK
    <3>3. SameApproval(s, r) /\ s.state = upd[p].to
      BY <3>1 DEF Updated, Row, SameApproval
    <3>4. DecidedBySomeone(r) /\ (rows[i].state # "NONE" => SameApproval(r, rows[i]))
      BY <2>1, ApprovalsAssumption
         DEF View, ContextInv, DecisionsGenuine, ApprovalsKept, SameApproval
    <3>5. DecidedBySomeone(s)
      <4>1. CASE upd[p].to = "CONSUMED"
        <5>1. r.state = "APPROVED" /\ s.decidedBy = r.decidedBy
          BY <2>4, <3>1, <4>1 DEF Matches, Usable, Decision, Updated, Row
        <5> QED BY <3>3, <3>4, <5>1 DEF DecidedBySomeone, SameApproval
      <4>2. CASE upd[p].to \in Decision
        <5>1. i = call[p].id
          BY <2>4, <4>2 DEF Matches, Decision
        <5>2. s.decidedBy = call[p].user /\ call[p].user \in Users
          BY <2>1, <3>1, <4>2 DEF Updated, Row, TypeInv, ArgumentsOK
        <5>3. rows[i].state # "NONE" /\ MayDecide(call[p].user, rows[i])
          BY <2>1, <4>2, <5>1 DEF ContextInv, StillMayDecide
        <5>4. call[p].user \in Approvers[rows[i].version] \ {rows[i].requester}
          BY <5>2, <5>3, ApprovalsAssumption DEF MayDecide
        <5> QED BY <3>3, <3>4, <5>2, <5>3, <5>4 DEF DecidedBySomeone, SameApproval
      <4>3. CASE upd[p].to \notin {"CONSUMED"} \cup Decision
        BY <3>3, <4>3 DEF DecidedBySomeone, Decision
      <4> QED BY <4>1, <4>2, <4>3
    <3>6. DecisionsGenuine'
      BY <2>1, <3>2, <3>5 DEF ContextInv, DecisionsGenuine, DecidedBySomeone
    <3>7. ApprovalsKept'
      BY <2>1, <3>2, <3>3, <3>4 DEF ContextInv, ApprovalsKept, SameApproval
    <3>8. HitsInContext(p)'
      <4> SUFFICES ASSUME upd[p].to = "CONSUMED", NEW j \in upd[p].hits \cup {i}
                   PROVE  InContext(call[p], dirty'[j])
        BY <2>1, <2>4 DEF HitsInContext, InContext
      <4>1. CASE j = i
        <5>1. InContext(call[p], r)
          BY <2>4 DEF Matches, Usable, SameContext, InContext, Decision
        <5> QED BY <3>2, <3>3, <4>1, <5>1 DEF InContext, SameApproval
      <4>2. CASE j # i
        <5>1. j \in Ids /\ InContext(call[p], dirty[j])
          BY <2>1, <4>2 DEF TypeInv, TypeOK, Update, ContextInv, HitsInContext
        <5> QED BY <3>2, <4>2, <5>1
      <4> QED BY <4>1, <4>2
    <3>9. \A q \in Procs \ {p} :
            StillMayDecide(q)' /\ HitsInContext(q)' /\ AnswerInContext(q)'
      <4>1. \A j \in Ids : owner[j] # None /\ owner[j] # p => dirty'[j] = dirty[j]
        BY <2>1, <3>2
      <4>2. \A j \in Ids : SameApproval(rows'[j], rows[j])
        BY <2>1 DEF SameApproval
      <4> QED BY <2>1, <4>1, <4>2, OthersInContext
    <3> QED BY <2>3, <3>6, <3>7, <3>8, <3>9 DEF ContextInv
  <2>5. CASE ~hit
    <3>1. UNCHANGED db
      BY <1>4, <2>5 DEF UpdateRow, db
    <3>2. HitsInContext(p)'
      BY <2>1, <2>5, <3>1 DEF ContextInv, HitsInContext, InContext, db
    <3> QED BY <2>1, <2>3, <3>1, <3>2, ContextLocal
  <2> QED BY <2>4, <2>5
<1>5. ASSUME NEW p \in Procs, Consumed(p)
      PROVE  ContextInv'
  <2>1. PICK g \in upd[p].hits :
          out' = [out EXCEPT ![p] = [events |-> {<<g, "CONSUMED">>}, got |-> g,
                                     mode |-> "consumed"]]
    BY <1>5 DEF Consumed
  <2>2. /\ pc[p] = "update" /\ upd[p].to = "CONSUMED" /\ pc'[p] = "finish"
        /\ out'[p].got = g
        /\ UNCHANGED <<db, dirty, call>> /\ OtherCallsSame(p)
    BY <1>5, <2>1 DEF Consumed, Done, Goto, OtherCallsSame, OthersSame, TypeInv,
                      TypeOK, db
  <2>3. InContext(call[p], dirty[g])
    BY <2>2 DEF ContextInv, HitsInContext
  <2>4. AnswerInContext(p)'
    BY <2>2, <2>3 DEF AnswerInContext, InContext
  <2> QED BY <2>2, <2>4, ContextLocal DEF StillMayDecide, HitsInContext
<1>6. ASSUME NEW p \in Procs,
             \/ NothingToConsume(p) \/ Voided(p) \/ Expired(p)
             \/ SelectRejected(p) \/ SelectPending(p) \/ RequestFound(p) \/ Decided(p)
      PROVE  ContextInv'
  <2>1. out[p].mode # "consumed"
    BY <1>6 DEF NothingToConsume, Voided, Expired, SelectRejected, SelectPending,
                RequestFound, Decided, Done, GrantInv, AnswerBacked, Holding, Owing
  <2>2. out'[p].mode # "consumed"
    BY <1>6, <2>1
       DEF NothingToConsume, Voided, Expired, SelectRejected, SelectPending,
           RequestFound, Decided, Answer, Log, TypeInv, TypeOK, Out
  <2>3. UNCHANGED db /\ OtherCallsSame(p)
    BY <1>6 DEF NothingToConsume, Voided, Expired, SelectRejected, SelectPending,
                RequestFound, Decided, Answer, Goto, Log, OtherCallsSame, OthersSame,
                TypeInv, TypeOK
  <2>4. pc'[p] # "update" /\ (pc'[p] = "scan" => upd'[p].to \in {"VOIDED", "EXPIRED"})
    BY <1>6 DEF NothingToConsume, Voided, Expired, SelectRejected, SelectPending,
                RequestFound, Decided, Answer, Goto, Start, TypeInv, TypeOK
  <2> QED BY <2>2, <2>3, <2>4, ContextLocal
          DEF StillMayDecide, HitsInContext, AnswerInContext, Decision
<1>7. ASSUME NEW p \in Procs, Fail(p)
      PROVE  ContextInv'
  BY <1>7, ContextRollback
     DEF Fail, End, Goto, NoOut, OtherCallsSame, OthersSame, TypeInv, TypeOK
<1>8. ASSUME NEW p \in Procs, Insert(p)
      PROVE  ContextInv'
  <2>1. PICK i \in Free :
          /\ owner' = [owner EXCEPT ![i] = p]
          /\ dirty' = [dirty EXCEPT ![i] = NewRow(call[p])]
          /\ out' = [out EXCEPT ![p] =
                       [events |-> out[p].events \cup {<<i, "PENDING">>},
                        got |-> None, mode |-> "pending"]]
    BY <1>8 DEF Insert
  <2>2. /\ i \in Ids /\ owner[i] = None /\ rows[i].state = "NONE"
        /\ owner'[i] = p /\ dirty'[i].state = "PENDING"
        /\ \A j \in Ids \ {i} : owner'[j] = owner[j] /\ dirty'[j] = dirty[j]
    BY <2>1 DEF Free, NoRow, NewRow, TypeInv, TypeOK
  <2>3. /\ UNCHANGED rows /\ OtherCallsSame(p)
        /\ pc'[p] = "finish" /\ out'[p].mode # "consumed"
    BY <1>8, <2>1 DEF Insert, Goto, OtherCallsSame, OthersSame, TypeInv, TypeOK
  <2>4. \A j \in Ids : SameApproval(rows'[j], rows[j])
    BY <2>3 DEF SameApproval
  <2>5. \A q \in Procs \ {p} :
          StillMayDecide(q)' /\ HitsInContext(q)' /\ AnswerInContext(q)'
    BY <2>2, <2>3, <2>4, OthersInContext
  <2>6. DecisionsGenuine' /\ ApprovalsKept'
    BY <2>2, <2>3 DEF ContextInv, DecisionsGenuine, DecidedBySomeone,
                      ApprovalsKept, SameApproval
  <2>7. StillMayDecide(p)' /\ HitsInContext(p)' /\ AnswerInContext(p)'
    BY <2>3 DEF StillMayDecide, HitsInContext, AnswerInContext
  <2> QED BY <2>5, <2>6, <2>7 DEF ContextInv
<1>9. ASSUME NEW p \in Procs, InsertConflict(p)
      PROVE  ContextInv'
  BY <1>9, ContextRollback
     DEF InsertConflict, Goto, NoOut, OtherCallsSame, OthersSame, TypeInv, TypeOK
<1>10. ASSUME NEW p \in Procs, Reselect(p)
       PROVE  ContextInv'
  <2>1. CASE \E i \in Ids : IsPending(call[p], rows[i])
    <3>1. /\ pc'[p] = "finish" /\ out'[p].mode # "consumed"
          /\ UNCHANGED db /\ OtherCallsSame(p)
      BY <1>10, <2>1 DEF Reselect, Answer, Goto, OtherCallsSame, OthersSame,
                         TypeInv, TypeOK, Out
    <3> QED BY <3>1, ContextLocal DEF StillMayDecide, HitsInContext, AnswerInContext
  <2>2. CASE ~\E i \in Ids : IsPending(call[p], rows[i])
    BY <1>7, <1>10, <2>2 DEF Reselect
  <2> QED BY <2>1, <2>2
<1>11. ASSUME NEW p \in Procs, Commit(p)
       PROVE  ContextInv'
  <2>1. /\ \A i \in Ids : owner[i] = p => rows'[i] = dirty[i] /\ owner'[i] = None
        /\ \A i \in Ids : owner[i] # p => /\ rows'[i] = rows[i]
                                          /\ owner'[i] = owner[i]
                                          /\ dirty'[i] = dirty[i]
        /\ OtherCallsSame(p) /\ p # None
    BY <1>11, ApprovalsAssumption
       DEF Commit, Unlock, View, End, Goto, OtherCallsSame, OthersSame, TypeInv, TypeOK
  <2>2. \A i \in Ids : rows[i].state = "CONSUMED" => rows'[i] = rows[i]
    BY <2>1 DEF GrantInv, LockedUnconsumed
  <2>3. \A i \in Ids : rows[i].state # "NONE" =>
          rows'[i].state # "NONE" /\ SameApproval(rows'[i], rows[i])
    BY <2>1 DEF TypeInv, LocksOK, Row, ApprovalState, ContextInv, ApprovalsKept,
                SameApproval
  <2>4. \A q \in Procs \ {p} :
          StillMayDecide(q)' /\ HitsInContext(q)' /\ AnswerInContext(q)'
    BY <2>1, <2>2, <2>3, OthersInContext
  <2>5. DecisionsGenuine' /\ ApprovalsKept'
    BY <2>1 DEF ContextInv, DecisionsGenuine, DecidedBySomeone, ApprovalsKept,
                SameApproval
  <2>6. pc'[p] \in {"committed", "idle"}
    BY <1>11 DEF Commit, End, Goto, TypeInv, TypeOK
  <2>7. AnswerInContext(p)'
    <3>1. CASE CommitFirst
      <4>1. pc[p] = "finish" /\ pc'[p] = "committed" /\ UNCHANGED <<out, call>>
        BY <1>11, <3>1 DEF Commit, Goto, TypeInv, TypeOK
      <4>2. ASSUME out[p].mode = "consumed"
            PROVE  rows'[out[p].got] = dirty[out[p].got]
        BY <2>1, <4>1, <4>2
           DEF TypeInv, ArgumentsOK, GrantInv, AnswerBacked, Holding, Owing
      <4> QED BY <4>1, <4>2 DEF ContextInv, AnswerInContext, InContext
    <3>2. CASE ~CommitFirst
      <4>1. out'[p].mode # "consumed"
        BY <1>11, <3>2 DEF Commit, End, NoOut, TypeInv, TypeOK
      <4> QED BY <4>1 DEF AnswerInContext
    <3> QED BY <3>1, <3>2
  <2> QED BY <2>4, <2>5, <2>6, <2>7 DEF ContextInv, StillMayDecide, HitsInContext
<1>12. ASSUME NEW p \in Procs, Reply(p)
       PROVE  ContextInv'
  <2>1. UNCHANGED <<db, dirty>> /\ OtherCallsSame(p) /\ pc'[p] \in {"idle", "replied"}
    BY <1>12 DEF Reply, End, Goto, OtherCallsSame, OthersSame, TypeInv, TypeOK, db
  <2>2. AnswerInContext(p)'
    <3>1. CASE CommitFirst
      <4>1. out'[p].mode # "consumed"
        BY <1>12, <3>1 DEF Reply, End, NoOut, TypeInv, TypeOK
      <4> QED BY <4>1 DEF AnswerInContext
    <3>2. CASE ~CommitFirst
      <4>1. pc[p] = "finish" /\ pc'[p] = "replied" /\ UNCHANGED <<out, call>>
        BY <1>12, <3>2 DEF Reply, Goto, TypeInv, TypeOK
      <4> QED BY <2>1, <4>1 DEF ContextInv, AnswerInContext, InContext
    <3> QED BY <3>1, <3>2
  <2> QED BY <2>1, <2>2, ContextLocal DEF StillMayDecide, HitsInContext
<1>13. ASSUME NEW p \in Procs, Crash(p)
       PROVE  ContextInv'
  BY <1>13, ContextRollback
     DEF Crash, End, Goto, NoOut, OtherCallsSame, OthersSame, TypeInv, TypeOK
<1>14. CASE Tick \/ UNCHANGED vars
  <2>1. UNCHANGED <<rows, owner, dirty, pc, call, upd, out>>
    BY <1>14 DEF Tick, vars, db, request
  <2> QED BY <2>1 DEF ContextInv, DecisionsGenuine, DecidedBySomeone, ApprovalsKept,
                      SameApproval, StillMayDecide, MayDecide, HitsInContext,
                      AnswerInContext, InContext
<1>15. ASSUME NEW p \in Procs, RequestMissing(p) \/ NotPending(p) \/ DeadlockVictim(p)
       PROVE  Fail(p)
  BY <1>15 DEF RequestMissing, NotPending, DeadlockVictim
<1> QED
  BY <1>1, <1>2, <1>3, <1>4, <1>5, <1>6, <1>7, <1>8, <1>9, <1>10, <1>11, <1>12,
     <1>13, <1>14, <1>15 DEF Next, Run

(* Where the context of a decision is checked and where the approval is     *)
(* used are statements apart; still no "consumed" answer is about anything  *)
(* but what a human who may decide it approved for this hash, session and   *)
(* policy version, for any calls racing in between.                         *)
THEOREM ConsumedInContextHolds == Spec => []ConsumedInContext
<1>1. TypeInv /\ GrantInv /\ ContextInv => ConsumedInContext
  <2> SUFFICES ASSUME TypeInv, GrantInv, ContextInv, NEW p \in Procs,
                      out[p].mode = "consumed"
               PROVE  LET r == IF pc[p] = "committed" THEN rows[out[p].got]
                                                      ELSE dirty[out[p].got]
                      IN  /\ r.state = "CONSUMED"
                          /\ r.binding = call[p].binding
                          /\ r.version = call[p].version
                          /\ r.expires > call[p].start
                          /\ r.decidedBy \in Approvers[r.version] \ {r.requester}
    BY DEF ConsumedInContext
  <2>1. out[p].got \in Ids /\ AnswerInContext(p) /\ (Holding(p) \/ Owing(p))
    BY DEF TypeInv, ArgumentsOK, ContextInv, GrantInv, AnswerBacked
  <2>2. CASE Holding(p)
    BY <2>1, <2>2, ApprovalsAssumption
       DEF Holding, AnswerInContext, InContext, ContextInv, DecisionsGenuine,
           DecidedBySomeone
  <2>3. CASE Owing(p)
    BY <2>1, <2>3 DEF Owing, AnswerInContext, InContext, ContextInv,
                      DecisionsGenuine, DecidedBySomeone
  <2> QED BY <2>1, <2>2, <2>3
<1> QED BY <1>1, TypeInvariant, InitGrantInv, GrantStep, InitContextInv,
           ContextStep, PTL DEF Spec
-----------------------------------------------------------------------------
(* EvidenceKept.  A transaction commits the events it has gathered: what it *)
(* writes to a row must be among them by then, and nothing else.            *)

Recorded == {"PENDING", "APPROVED", "REJECTED", "EXPIRED"}

(* The first UPDATE of a call is the first to lock anything, so the events  *)
(* it starts afresh with are all that its transaction has to tell.          *)
HitsOwned(p) ==
    pc[p] = "update" =>
        \A i \in upd[p].hits : owner[i] = p /\ dirty[i].state = upd[p].to

FirstUpdate(p) ==
    pc[p] \in {"scan", "update"} /\ upd[p].to \in Decision \cup {"CONSUMED"} =>
        \A i \in Ids : owner[i] = p => i \in upd[p].hits

OneDecided(p) ==
    pc[p] = "update" /\ upd[p].to \in Decision => upd[p].hits \subseteq {call[p].id}

NothingHeld(p) ==
    pc[p] \in {"idle", "committed", "reselect"} => \A i \in Ids : owner[i] # p

(* What it has written is told, or about to be.                             *)
WritesTold(p) ==
    \A i \in Ids : owner[i] = p /\ dirty[i].state \in Recorded =>
        \/ <<i, dirty[i].state>> \in out[p].events
        \/ pc[p] = "update" /\ upd[p].to = dirty[i].state /\ i \in upd[p].hits

ToldWritten(p) ==
    pc[p] # "committed" =>
        \A i \in Ids, s \in ApprovalState : <<i, s>> \in out[p].events => owner[i] = p

AnswerTold(p) ==
    out[p].mode = "consumed" =>
        /\ <<out[p].got, "CONSUMED">> \in out[p].events
        /\ pc[p] = "committed" => "CONSUMED" \in logged[out[p].got]

EventsOf(p) ==
    /\ HitsOwned(p) /\ FirstUpdate(p) /\ OneDecided(p) /\ NothingHeld(p)
    /\ WritesTold(p) /\ ToldWritten(p) /\ AnswerTold(p)

EvidenceInv == EvidenceKept /\ \A p \in Procs : EventsOf(p)

LEMMA InitEvidenceInv == Init => EvidenceInv
  BY ApprovalsAssumption
     DEF Init, NoRow, NoOut, EvidenceInv, EvidenceKept, EventsOf, HitsOwned,
         FirstUpdate, OneDecided, NothingHeld, WritesTold, ToldWritten, AnswerTold

(* Other calls keep their locks, and nothing leaves the timeline.           *)
LEMMA OthersEvents ==
    ASSUME TypeInv, EvidenceInv, NEW p \in Procs, OtherCallsSame(p),
           \A i \in Ids : /\ owner[i] \notin {None, p} =>
                               owner'[i] = owner[i] /\ dirty'[i] = dirty[i]
                          /\ owner[i] \in {None, p} => owner'[i] \in {None, p}
                          /\ logged[i] \subseteq logged'[i]
    PROVE  \A q \in Procs \ {p} : EventsOf(q)'
<1> SUFFICES ASSUME NEW q \in Procs \ {p} PROVE EventsOf(q)'
  OBVIOUS
<1>1. /\ pc'[q] = pc[q] /\ upd'[q] = upd[q] /\ out'[q] = out[q] /\ call'[q] = call[q]
      /\ q # None /\ q # p
  BY ApprovalsAssumption DEF OtherCallsSame, OthersSame
<1>2. \A i \in Ids : /\ owner'[i] = q <=> owner[i] = q
                     /\ owner[i] = q => dirty'[i] = dirty[i]
  BY <1>1
<1>3. EventsOf(q)
  BY DEF EvidenceInv
<1>4. upd[q].hits \subseteq Ids
  BY DEF TypeInv, TypeOK, Update
<1>5. HitsOwned(q)' /\ FirstUpdate(q)' /\ OneDecided(q)' /\ NothingHeld(q)'
  BY <1>1, <1>2, <1>3, <1>4
     DEF EventsOf, HitsOwned, FirstUpdate, OneDecided, NothingHeld
<1>6. WritesTold(q)' /\ ToldWritten(q)'
  BY <1>1, <1>2, <1>3 DEF EventsOf, WritesTold, ToldWritten
<1>7. AnswerTold(q)'
  BY <1>1, <1>3 DEF EventsOf, AnswerTold, TypeInv, ArgumentsOK
<1> QED BY <1>5, <1>6, <1>7 DEF EventsOf

(* A call that touches no row ...                                           *)
LEMMA EvidenceLocal ==
    ASSUME TypeInv, EvidenceInv, NEW p \in Procs, OtherCallsSame(p),
           UNCHANGED <<rows, owner, dirty, logged, grants, lost>>,
           pc[p] # "replied", EventsOf(p)'
    PROVE  EvidenceInv'
<1>1. \A q \in Procs \ {p} : EventsOf(q)'
  BY OthersEvents
<1>2. EvidenceKept'
  BY ApprovalsAssumption
     DEF EvidenceInv, EvidenceKept, OtherCallsSame, OthersSame, TypeInv, TypeOK
<1> QED BY <1>1, <1>2 DEF EvidenceInv

(* An approval that is locked by a call that has not answered for it has no *)
(* grant to account for.                                                    *)
LEMMA LockedUngranted ==
    ASSUME TypeInv, GrantInv, NEW p \in Procs, NEW i \in Ids, owner[i] = p,
           ~(pc[p] = "replied" /\ out[p].mode = "consumed" /\ out[p].got = i)
    PROVE  grants[i] <= lost[i]
<1>1. ~AnsweredFor(i)
  <2> SUFFICES ASSUME NEW q \in Procs, pc[q] = "replied", out[q].mode = "consumed",
                      out[q].got = i
               PROVE  FALSE
    BY DEF AnsweredFor
  <2>1. owner[i] = q
    BY DEF GrantInv, AnswerBacked, Holding, Owing
  <2> QED BY <2>1
<1>2. rows[i].state # "CONSUMED"
  BY ApprovalsAssumption DEF GrantInv, LockedUnconsumed
<1> QED BY <1>1, <1>2 DEF GrantInv, GrantsCounted

(* ... and one whose transaction is undone.                                 *)
LEMMA EvidenceRollback ==
    ASSUME TypeInv, GrantInv, EvidenceInv, NEW p \in Procs, OtherCallsSame(p),
           Unlock(p), UNCHANGED <<rows, logged, grants>>,
           lost' = IF pc[p] = "replied" /\ out[p].mode = "consumed"
                   THEN [lost EXCEPT ![out[p].got] = @ + 1] ELSE lost,
           pc'[p] \in {"idle", "reselect"},
           out'[p] = NoOut
    PROVE  EvidenceInv'
<1>1. /\ \A i \in Ids : owner[i] = p => owner'[i] = None
      /\ \A i \in Ids : owner[i] # p => owner'[i] = owner[i] /\ dirty'[i] = dirty[i]
      /\ p # None
  BY ApprovalsAssumption DEF Unlock
<1>2. \A q \in Procs \ {p} : EventsOf(q)'
  BY <1>1, OthersEvents
<1>3. EventsOf(p)'
  BY <1>1, ApprovalsAssumption
     DEF NoOut, EventsOf, HitsOwned, FirstUpdate, OneDecided, NothingHeld,
         WritesTold, ToldWritten, AnswerTold
<1>4. ASSUME NEW i \in Ids, grants[i] > lost'[i]
      PROVE  \/ "CONSUMED" \in logged[i]
             \/ owner'[i] # None /\ pc'[owner'[i]] = "replied"
  <2>1. grants[i] \in Nat /\ lost[i] \in Nat
    BY DEF TypeInv, TypeOK
  <2>2. CASE owner[i] # p
    <3>1. grants[i] > lost[i]
      BY <1>4, <2>1 DEF TypeInv, TypeOK, ArgumentsOK
    <3> QED BY <1>1, <2>2, <3>1
            DEF EvidenceInv, EvidenceKept, OtherCallsSame, OthersSame, TypeInv, TypeOK
  <2>3. CASE owner[i] = p
    <3>1. CASE pc[p] = "replied" /\ out[p].mode = "consumed" /\ out[p].got = i
      <4>1. lost'[i] = lost[i] + 1 /\ grants[i] <= 1 + lost[i]
        BY <3>1 DEF TypeInv, TypeOK, GrantInv, GrantsCounted
      <4> QED BY <1>4, <2>1, <4>1
    <3>2. CASE ~(pc[p] = "replied" /\ out[p].mode = "consumed" /\ out[p].got = i)
      <4>1. grants[i] <= lost[i]
        BY <2>3, <3>2, LockedUngranted
      <4>2. lost'[i] = lost[i]
        BY <3>2 DEF TypeInv, TypeOK
      <4> QED BY <1>4, <2>1, <4>1, <4>2
    <3> QED BY <3>1, <3>2
  <2> QED BY <2>2, <2>3
<1>5. EvidenceKept'
  BY <1>4 DEF EvidenceInv, EvidenceKept
<1> QED BY <1>2, <1>3, <1>5 DEF EvidenceInv
LEMMA EvidenceStep ==
    TypeInv /\ GrantInv /\ EvidenceInv /\ [Next]_vars => EvidenceInv'
<1> SUFFICES ASSUME TypeInv, GrantInv, EvidenceInv, [Next]_vars PROVE EvidenceInv'
  OBVIOUS
<1>0. ASSUME NEW p \in Procs
      PROVE  /\ EventsOf(p) /\ p # None
             /\ out[p].mode = "consumed" => pc[p] \in {"finish", "replied", "committed"}
             /\ pc[p] = "scan" => upd[p].hits = {}
             /\ upd[p].hits \subseteq Ids
  BY ApprovalsAssumption
     DEF EvidenceInv, GrantInv, AnswerBacked, Holding, Owing, HitsHeld, TypeInv,
         TypeOK, Update
<1>1. ASSUME NEW p \in Procs,
             \/ \E b \in Bindings, v \in Versions, u \in Requesters :
                  BeginResolve(p, b, v, u)
             \/ \E i \in Ids, u \in Users, to \in Decision : BeginDecide(p, i, u, to)
      PROVE  EvidenceInv'
  <2>1. /\ pc[p] = "idle" /\ pc'[p] = "scan"
        /\ UNCHANGED <<rows, owner, dirty, out, logged, grants, lost>>
        /\ OtherCallsSame(p)
    BY <1>1 DEF BeginResolve, BeginDecide, Goto, db, record, OtherCallsSame,
                OthersSame, TypeInv, TypeOK
  <2>2. \A i \in Ids : owner[i] # p
    BY <1>0, <2>1 DEF EventsOf, NothingHeld
  <2>3. EventsOf(p)'
    BY <1>0, <2>1, <2>2
       DEF EventsOf, HitsOwned, FirstUpdate, OneDecided, NothingHeld, WritesTold,
           ToldWritten, AnswerTold
  <2> QED BY <2>1, <2>3, EvidenceLocal
<1>2. ASSUME NEW p \in Procs, Scan(p)
      PROVE  EvidenceInv'
  <2>1. /\ pc[p] = "scan" /\ pc'[p] = "update"
        /\ upd'[p].to = upd[p].to /\ upd'[p].hits = upd[p].hits
        /\ UNCHANGED <<rows, owner, dirty, call, out, logged, grants, lost>>
        /\ OtherCallsSame(p)
    BY <1>2 DEF Scan, Goto, db, record, OtherCallsSame, OthersSame, TypeInv, TypeOK,
                Update
  <2>2. EventsOf(p)'
    BY <1>0, <2>1
       DEF EventsOf, HitsOwned, FirstUpdate, OneDecided, NothingHeld, WritesTold,
           ToldWritten, AnswerTold
  <2> QED BY <2>1, <2>2, EvidenceLocal
<1>3. ASSUME NEW p \in Procs, NEW i \in Ids, UpdateRow(p, i)
      PROVE  EvidenceInv'
  <2> DEFINE r == View(p, i)
             hit == Matches(call[p], upd[p].to, i, r)
  <2>1. /\ pc[p] = "update" /\ pc'[p] = "update" /\ owner[i] \in {p, None}
        /\ upd'[p].to = upd[p].to
        /\ upd'[p].hits = IF hit THEN upd[p].hits \cup {i} ELSE upd[p].hits
        /\ UNCHANGED <<rows, call, out, logged, grants, lost, pc>> /\ OtherCallsSame(p)
    BY <1>3 DEF UpdateRow, LockedByOther, OtherCallsSame, OthersSame, record,
                TypeInv, TypeOK
  <2>2. CASE hit
    <3>1. /\ Updated(call[p], upd[p].to, r) \in Row
          /\ Updated(call[p], upd[p].to, r).state = upd[p].to
      BY <2>1, <2>2, UpdateType DEF Updated, Row
    <3>2. /\ owner'[i] = p /\ dirty'[i].state = upd[p].to
          /\ \A j \in Ids \ {i} : owner'[j] = owner[j] /\ dirty'[j] = dirty[j]
      BY <1>3, <2>2, <3>1 DEF UpdateRow, TypeInv, TypeOK
    <3>3. \A q \in Procs \ {p} : EventsOf(q)'
      <4>1. \A j \in Ids : /\ owner[j] \notin {None, p} =>
                                owner'[j] = owner[j] /\ dirty'[j] = dirty[j]
                           /\ owner[j] \in {None, p} => owner'[j] \in {None, p}
                           /\ logged[j] \subseteq logged'[j]
        BY <2>1, <3>2
      <4> QED BY <2>1, <4>1, OthersEvents
    <3>4. HitsOwned(p)'
      BY <1>0, <2>1, <2>2, <3>2 DEF EventsOf, HitsOwned
    <3>5. FirstUpdate(p)' /\ NothingHeld(p)' /\ ToldWritten(p)' /\ AnswerTold(p)'
      BY <1>0, <2>1, <2>2, <3>2
         DEF EventsOf, FirstUpdate, NothingHeld, ToldWritten, AnswerTold
    <3>6. OneDecided(p)'
      BY <1>0, <2>1, <2>2 DEF EventsOf, OneDecided, Matches, Decision
    <3>7. WritesTold(p)'
      BY <1>0, <2>1, <2>2, <3>2 DEF EventsOf, WritesTold
    <3>8. EvidenceKept'
      <4>1. \A j \in Ids : owner'[j] # owner[j] => owner[j] = None
        BY <2>1, <3>2
      <4>2. \A j \in Ids : owner[j] # None /\ pc[owner[j]] = "replied" =>
                             owner'[j] = owner[j]
        BY <4>1
      <4> QED BY <2>1, <4>2, <1>0 DEF EvidenceInv, EvidenceKept
    <3> QED BY <3>3, <3>4, <3>5, <3>6, <3>7, <3>8 DEF EvidenceInv, EventsOf
  <2>3. CASE ~hit
    <3>1. UNCHANGED <<owner, dirty>>
      BY <1>3, <2>3 DEF UpdateRow
    <3>2. EventsOf(p)'
      BY <1>0, <2>1, <2>3, <3>1
         DEF EventsOf, HitsOwned, FirstUpdate, OneDecided, NothingHeld, WritesTold,
             ToldWritten, AnswerTold
    <3> QED BY <2>1, <3>1, <3>2, EvidenceLocal
  <2> QED BY <2>2, <2>3
<1>4. ASSUME NEW p \in Procs, Consumed(p)
      PROVE  EvidenceInv'
  <2>1. PICK g \in upd[p].hits :
          out' = [out EXCEPT ![p] = [events |-> {<<g, "CONSUMED">>}, got |-> g,
                                     mode |-> "consumed"]]
    BY <1>4 DEF Consumed
  <2>2. /\ pc[p] = "update" /\ upd[p].to = "CONSUMED" /\ pc'[p] = "finish"
        /\ out'[p] = [events |-> {<<g, "CONSUMED">>}, got |-> g, mode |-> "consumed"]
        /\ UNCHANGED <<rows, owner, dirty, logged, grants, lost>> /\ OtherCallsSame(p)
    BY <1>4, <2>1 DEF Consumed, Done, Goto, db, record, OtherCallsSame, OthersSame,
                      TypeInv, TypeOK
  <2>3. owner[g] = p /\ g \in Ids
    BY <1>0, <2>2 DEF EventsOf, HitsOwned
  <2>4. \A i \in Ids : owner[i] = p => dirty[i].state = "CONSUMED"
    BY <1>0, <2>2 DEF EventsOf, HitsOwned, FirstUpdate
  <2>5. EventsOf(p)'
    BY <2>2, <2>3, <2>4
       DEF EventsOf, HitsOwned, FirstUpdate, OneDecided, NothingHeld, WritesTold,
           ToldWritten, AnswerTold, Recorded
  <2> QED BY <2>2, <2>5, EvidenceLocal
<1>5. ASSUME NEW p \in Procs, NothingToConsume(p)
      PROVE  EvidenceInv'
  <2>1. /\ pc[p] = "update" /\ pc'[p] = "scan"
        /\ upd[p].to = "CONSUMED" /\ upd[p].hits = {} /\ upd'[p].to = "VOIDED"
        /\ UNCHANGED <<rows, owner, dirty, out, logged, grants, lost>>
        /\ OtherCallsSame(p)
    BY <1>5 DEF NothingToConsume, Done, Goto, Start, db, record, OtherCallsSame,
                OthersSame, TypeInv, TypeOK
  <2>2. \A i \in Ids : owner[i] # p
    BY <1>0, <2>1 DEF EventsOf, FirstUpdate
  <2>3. EventsOf(p)'
    BY <1>0, <2>1, <2>2
       DEF EventsOf, HitsOwned, FirstUpdate, OneDecided, NothingHeld, WritesTold,
           ToldWritten, AnswerTold
  <2> QED BY <2>1, <2>3, EvidenceLocal
<1>6. ASSUME NEW p \in Procs, Voided(p)
      PROVE  EvidenceInv'
  <2>1. /\ pc[p] = "update" /\ pc'[p] = "scan"
        /\ upd[p].to = "VOIDED" /\ upd'[p].to = "EXPIRED"
        /\ UNCHANGED <<rows, owner, dirty, call, logged, grants, lost>>
        /\ OtherCallsSame(p)
    BY <1>6 DEF Voided, Done, Goto, Start, Log, db, record, OtherCallsSame,
                OthersSame, TypeInv, TypeOK
  <2>2. /\ out'[p].mode = out[p].mode /\ out[p].events \subseteq out'[p].events
        /\ \A i \in Ids, s \in ApprovalState : <<i, s>> \in out'[p].events =>
             <<i, s>> \in out[p].events \/ i \in upd[p].hits
    <3>1. CASE UNCHANGED out
      BY <3>1
    <3>2. ASSUME NEW g \in upd[p].hits, Log(p, {g}, "VOIDED")
          PROVE  <2>2!1 /\ <2>2!2
      <4>1. /\ out'[p].mode = out[p].mode
            /\ out'[p].events = out[p].events \cup ({g} \X {"VOIDED"})
        BY <3>2 DEF Log, TypeInv, TypeOK, Out
      <4> QED BY <4>1
    <3> QED BY <1>6, <3>1, <3>2 DEF Voided
  <2>3. WritesTold(p)'
    BY <1>0, <2>1, <2>2 DEF EventsOf, WritesTold, Recorded
  <2>4. ToldWritten(p)'
    BY <1>0, <2>1, <2>2 DEF EventsOf, HitsOwned, ToldWritten
  <2>5. EventsOf(p)'
    BY <1>0, <2>1, <2>2, <2>3, <2>4
       DEF EventsOf, HitsOwned, FirstUpdate, OneDecided, NothingHeld, AnswerTold,
           Decision
  <2> QED BY <2>1, <2>5, EvidenceLocal
<1>7. ASSUME NEW p \in Procs, Expired(p)
      PROVE  EvidenceInv'
  <2>1. /\ pc[p] = "update" /\ pc'[p] = "rejected" /\ upd[p].to = "EXPIRED"
        /\ out'[p].mode = out[p].mode
        /\ out'[p].events = out[p].events \cup (upd[p].hits \X {"EXPIRED"})
        /\ UNCHANGED <<rows, owner, dirty, logged, grants, lost>>
        /\ OtherCallsSame(p)
    BY <1>7 DEF Expired, Done, Goto, Log, db, record, OtherCallsSame, OthersSame,
                TypeInv, TypeOK, Out
  <2>2. WritesTold(p)'
    BY <1>0, <2>1 DEF EventsOf, WritesTold
  <2>3. ToldWritten(p)'
    BY <1>0, <2>1 DEF EventsOf, HitsOwned, ToldWritten
  <2>4. EventsOf(p)'
    BY <1>0, <2>1, <2>2, <2>3
       DEF EventsOf, HitsOwned, FirstUpdate, OneDecided, NothingHeld, AnswerTold
  <2> QED BY <2>1, <2>4, EvidenceLocal
<1>8. ASSUME NEW p \in Procs, pc[p] \in {"rejected", "pending", "lookup", "reselect"},
             pc'[p] \in {"pending", "lookup", "insert", "finish"},
             out'[p].events = out[p].events, out'[p].mode # "consumed",
             UNCHANGED <<rows, owner, dirty, logged, grants, lost>>, OtherCallsSame(p)
      PROVE  EvidenceInv'
  <2>1. pc[p] \notin {"update", "committed", "replied"}
    BY <1>8
  <2>2. pc'[p] \notin {"scan", "update", "idle", "committed", "reselect"}
    BY <1>8
  <2>3. WritesTold(p)' /\ ToldWritten(p)'
    BY <1>0, <1>8, <2>1 DEF EventsOf, WritesTold, ToldWritten
  <2>4. EventsOf(p)'
    BY <1>8, <2>2, <2>3
       DEF EventsOf, HitsOwned, FirstUpdate, OneDecided, NothingHeld, AnswerTold
  <2> QED BY <1>8, <2>1, <2>4, EvidenceLocal
<1>9. ASSUME NEW p \in Procs, SelectRejected(p) \/ SelectPending(p) \/ RequestFound(p)
      PROVE  EvidenceInv'
  <2>1. /\ pc[p] \in {"rejected", "pending", "lookup"}
        /\ UNCHANGED <<rows, owner, dirty, logged, grants, lost>> /\ OtherCallsSame(p)
    BY <1>9 DEF SelectRejected, SelectPending, RequestFound, Answer, Goto, db, record,
                OtherCallsSame, OthersSame, TypeInv, TypeOK
  <2>2. /\ pc'[p] \in {"pending", "lookup", "insert", "finish"}
        /\ out'[p].events = out[p].events /\ out'[p].mode # "consumed"
    <3>1. out[p].mode # "consumed"
      BY <1>0, <2>1
    <3> QED BY <1>9, <3>1 DEF SelectRejected, SelectPending, RequestFound, Answer,
                              Goto, TypeInv, TypeOK, Out
  <2> QED BY <1>8, <2>1, <2>2
<1>10. ASSUME NEW p \in Procs, Fail(p), pc[p] # "replied"
       PROVE  EvidenceInv'
  BY <1>10, EvidenceRollback
     DEF Fail, End, Goto, OtherCallsSame, OthersSame, TypeInv, TypeOK
<1>11. ASSUME NEW p \in Procs, RequestMissing(p) \/ NotPending(p) \/ DeadlockVictim(p)
       PROVE  EvidenceInv'
  <2>1. ASSUME DeadlockVictim(p) PROVE pc[p] = "update"
    BY <2>1 DEF DeadlockVictim, WaitsFor
  <2> QED BY <1>10, <1>11, <2>1 DEF RequestMissing, NotPending, Done, DeadlockVictim
<1>12. ASSUME NEW p \in Procs, Insert(p)
       PROVE  EvidenceInv'
  <2>1. PICK i \in Free :
          /\ owner' = [owner EXCEPT ![i] = p]
          /\ dirty' = [dirty EXCEPT ![i] = NewRow(call[p])]
          /\ out' = [out EXCEPT ![p] =
                       [events |-> out[p].events \cup {<<i, "PENDING">>},
                        got |-> None, mode |-> "pending"]]
    BY <1>12 DEF Insert
  <2>2. /\ i \in Ids /\ owner[i] = None
        /\ owner'[i] = p /\ dirty'[i].state = "PENDING"
        /\ \A j \in Ids \ {i} : owner'[j] = owner[j] /\ dirty'[j] = dirty[j]
    BY <2>1 DEF Free, NewRow, TypeInv, TypeOK
  <2>3. /\ UNCHANGED <<rows, logged, grants, lost>> /\ OtherCallsSame(p)
        /\ pc[p] = "insert" /\ pc'[p] = "finish"
        /\ out'[p].events = out[p].events \cup {<<i, "PENDING">>}
        /\ out'[p].mode = "pending"
    BY <1>12, <2>1 DEF Insert, Goto, record, OtherCallsSame, OthersSame, TypeInv, TypeOK
  <2>4. \A q \in Procs \ {p} : EventsOf(q)'
    <3>1. \A j \in Ids : /\ owner[j] \notin {None, p} =>
                              owner'[j] = owner[j] /\ dirty'[j] = dirty[j]
                         /\ owner[j] \in {None, p} => owner'[j] \in {None, p}
                         /\ logged[j] \subseteq logged'[j]
      BY <2>2, <2>3
    <3> QED BY <2>3, <3>1, OthersEvents
  <2>5. WritesTold(p)'
    BY <1>0, <2>2, <2>3 DEF EventsOf, WritesTold
  <2>6. ToldWritten(p)'
    BY <1>0, <2>2, <2>3 DEF EventsOf, ToldWritten
  <2>7. EventsOf(p)'
    BY <2>3, <2>5, <2>6
       DEF EventsOf, HitsOwned, FirstUpdate, OneDecided, NothingHeld, AnswerTold
  <2>8. EvidenceKept'
    <3>1. \A j \in Ids : owner[j] # None /\ pc[owner[j]] = "replied" =>
                           owner'[j] = owner[j] /\ pc'[owner[j]] = "replied"
      BY <2>2, <2>3 DEF OtherCallsSame, OthersSame, TypeInv, TypeOK
    <3> QED BY <2>3, <3>1 DEF EvidenceInv, EvidenceKept
  <2> QED BY <2>4, <2>7, <2>8 DEF EvidenceInv
<1>13. ASSUME NEW p \in Procs, InsertConflict(p)
       PROVE  EvidenceInv'
  BY <1>13, EvidenceRollback
     DEF InsertConflict, Goto, record, OtherCallsSame, OthersSame, TypeInv, TypeOK
<1>14. ASSUME NEW p \in Procs, Reselect(p)
       PROVE  EvidenceInv'
  <2>1. CASE \E i \in Ids : IsPending(call[p], rows[i])
    <3>1. /\ pc[p] = "reselect" /\ pc'[p] = "finish"
          /\ out'[p].events = out[p].events /\ out'[p].mode # "consumed"
          /\ UNCHANGED <<rows, owner, dirty, logged, grants, lost>> /\ OtherCallsSame(p)
      BY <1>14, <2>1 DEF Reselect, Answer, Goto, db, record, OtherCallsSame,
                         OthersSame, TypeInv, TypeOK, Out
    <3> QED BY <3>1, <1>8
  <2>2. CASE ~\E i \in Ids : IsPending(call[p], rows[i])
    BY <1>10, <1>14, <2>2 DEF Reselect
  <2> QED BY <2>1, <2>2
<1>15. ASSUME NEW p \in Procs, Decided(p)
       PROVE  EvidenceInv'
  <2>1. /\ pc[p] = "update" /\ pc'[p] = "finish" /\ upd[p].to \in Decision
        /\ upd[p].hits # {}
        /\ out'[p] = [events |-> {<<call[p].id, upd[p].to>>}, got |-> None,
                      mode |-> "decided"]
        /\ UNCHANGED <<rows, owner, dirty, logged, grants, lost>> /\ OtherCallsSame(p)
    BY <1>15 DEF Decided, Done, Goto, db, record, OtherCallsSame, OthersSame,
                 TypeInv, TypeOK
  <2>2. upd[p].hits = {call[p].id}
    BY <1>0, <2>1 DEF EventsOf, OneDecided
  <2>3. /\ owner[call[p].id] = p /\ dirty[call[p].id].state = upd[p].to
        /\ \A i \in Ids : owner[i] = p => i = call[p].id
    BY <1>0, <2>1, <2>2 DEF EventsOf, HitsOwned, FirstUpdate
  <2>4. WritesTold(p)' /\ ToldWritten(p)'
    BY <2>1, <2>3 DEF WritesTold, ToldWritten
  <2>5. EventsOf(p)'
    BY <2>1, <2>4
       DEF EventsOf, HitsOwned, FirstUpdate, OneDecided, NothingHeld, AnswerTold
  <2> QED BY <2>1, <2>5, EvidenceLocal
<1>16. ASSUME NEW p \in Procs, Commit(p)
       PROVE  EvidenceInv'
  <2>1. /\ \A i \in Ids : owner[i] = p => rows'[i] = dirty[i] /\ owner'[i] = None
        /\ \A i \in Ids : owner[i] # p => /\ rows'[i] = rows[i]
                                          /\ owner'[i] = owner[i]
                                          /\ dirty'[i] = dirty[i]
        /\ UNCHANGED <<grants, lost>> /\ OtherCallsSame(p)
        /\ pc[p] \in {"finish", "replied"}
    BY <1>16 DEF Commit, Unlock, View, End, Goto, OtherCallsSame, OthersSame,
                 TypeInv, TypeOK
  <2>2. \A i \in Ids : logged'[i] = logged[i] \cup
                         {s \in ApprovalState : <<i, s>> \in out[p].events}
    BY <1>16 DEF Commit
  <2>3. \A q \in Procs \ {p} : EventsOf(q)'
    <3>1. \A j \in Ids : /\ owner[j] \notin {None, p} =>
                              owner'[j] = owner[j] /\ dirty'[j] = dirty[j]
                         /\ owner[j] \in {None, p} => owner'[j] \in {None, p}
                         /\ logged[j] \subseteq logged'[j]
      BY <2>1, <2>2, <1>0
    <3> QED BY <2>1, <3>1, OthersEvents
  <2>4. EventsOf(p)'
    <3>1. CASE CommitFirst
      <4>1. pc'[p] = "committed" /\ UNCHANGED <<out, call, upd>>
        BY <1>16, <3>1 DEF Commit, Goto, TypeInv, TypeOK
      <4>2. \A i \in Ids : owner'[i] # p
        BY <2>1, <1>0
      <4>3. AnswerTold(p)'
        <5>1. out[p].mode = "consumed" =>
                /\ out[p].got \in Ids /\ "CONSUMED" \in ApprovalState
                /\ <<out[p].got, "CONSUMED">> \in out[p].events
          BY <1>0 DEF EventsOf, AnswerTold, TypeInv, ArgumentsOK, ApprovalState
        <5> QED BY <2>2, <4>1, <5>1 DEF AnswerTold
      <4> QED BY <4>1, <4>2, <4>3
              DEF EventsOf, HitsOwned, FirstUpdate, OneDecided, NothingHeld,
                  WritesTold, ToldWritten
    <3>2. CASE ~CommitFirst
      <4>1. pc'[p] = "idle" /\ out'[p] = NoOut
        BY <1>16, <3>2 DEF Commit, End, Goto, TypeInv, TypeOK
      <4>2. \A i \in Ids : owner'[i] # p
        BY <2>1, <1>0
      <4> QED BY <4>1, <4>2
              DEF NoOut, EventsOf, HitsOwned, FirstUpdate, OneDecided, NothingHeld,
                  WritesTold, ToldWritten, AnswerTold
    <3> QED BY <3>1, <3>2
  <2>5. EvidenceKept'
    <3>1. ASSUME NEW i \in Ids, rows'[i].state \in Recorded
          PROVE  rows'[i].state \in logged'[i]
      <4>1. CASE owner[i] = p
        <5>1. dirty[i].state \in ApprovalState
          BY <4>1, <1>0 DEF TypeInv, LocksOK, Row
        <5>2. <<i, dirty[i].state>> \in out[p].events
          BY <1>0, <2>1, <3>1, <4>1 DEF EventsOf, WritesTold
        <5> QED BY <2>1, <2>2, <4>1, <5>1, <5>2
      <4>2. CASE owner[i] # p
        BY <2>1, <2>2, <3>1, <4>2 DEF EvidenceInv, EvidenceKept, Recorded
      <4> QED BY <4>1, <4>2
    <3>2. ASSUME NEW i \in Ids, grants[i] > lost[i]
          PROVE  \/ "CONSUMED" \in logged'[i]
                 \/ owner'[i] # None /\ pc'[owner'[i]] = "replied"
      <4>1. grants[i] \in Nat /\ lost[i] \in Nat
        BY DEF TypeInv, TypeOK
      <4>2. CASE owner[i] = p
        <5>1. out[p].mode = "consumed" /\ out[p].got = i
          BY <3>2, <4>1, <4>2, LockedUngranted
        <5>2. <<i, "CONSUMED">> \in out[p].events /\ "CONSUMED" \in ApprovalState
          BY <1>0, <5>1 DEF EventsOf, AnswerTold, ApprovalState
        <5> QED BY <2>2, <5>2
      <4>3. CASE owner[i] # p
        <5>1. owner'[i] = owner[i] /\ logged[i] \subseteq logged'[i]
          BY <2>1, <2>2, <4>3
        <5>2. owner[i] # None => pc'[owner[i]] = pc[owner[i]]
          BY <2>1, <4>3 DEF OtherCallsSame, OthersSame, TypeInv, TypeOK
        <5> QED BY <3>2, <5>1, <5>2 DEF EvidenceInv, EvidenceKept
      <4> QED BY <4>2, <4>3
    <3>3. ASSUME NEW i \in Ids, rows'[i].state = "NONE"
          PROVE  logged'[i] = {}
      <4>1. owner[i] # p
        BY <1>0, <2>1, <3>3 DEF TypeInv, LocksOK, Row, ApprovalState
      <4>2. logged[i] = {}
        BY <2>1, <3>3, <4>1 DEF EvidenceInv, EvidenceKept
      <4>3. \A s \in ApprovalState : <<i, s>> \notin out[p].events
        BY <1>0, <2>1, <4>1 DEF EventsOf, ToldWritten
      <4> QED BY <2>2, <4>2, <4>3
    <3> QED BY <2>1, <3>1, <3>2, <3>3 DEF EvidenceKept, Recorded
  <2> QED BY <2>3, <2>4, <2>5 DEF EvidenceInv
<1>17. ASSUME NEW p \in Procs, Reply(p)
       PROVE  EvidenceInv'
  <2>1. /\ UNCHANGED <<rows, owner, dirty, logged, lost>> /\ OtherCallsSame(p)
        /\ grants' = IF out[p].mode = "consumed"
                     THEN [grants EXCEPT ![out[p].got] = @ + 1] ELSE grants
        /\ pc[p] \in {"finish", "committed"}
    BY <1>17 DEF Reply, End, Goto, db, OtherCallsSame, OthersSame, TypeInv, TypeOK
  <2>2. \A q \in Procs \ {p} : EventsOf(q)'
    BY <2>1, OthersEvents
  <2>3. \A i \in Ids : i # out[p].got \/ out[p].mode # "consumed" =>
                         grants'[i] = grants[i]
    BY <2>1 DEF TypeInv, TypeOK
  <2>4. ASSUME NEW i \in Ids, owner[i] # None, pc[owner[i]] = "replied"
        PROVE  pc'[owner[i]] = "replied"
    BY <2>1, <2>4 DEF OtherCallsSame, OthersSame, TypeInv, TypeOK
  <2>5. CASE CommitFirst
    <3>1. pc[p] = "committed" /\ pc'[p] = "idle" /\ out'[p] = NoOut
      BY <1>17, <2>5 DEF Reply, End, Goto, TypeInv, TypeOK
    <3>2. EventsOf(p)'
      <4>1. \A i \in Ids : owner[i] # p
        BY <1>0, <3>1 DEF EventsOf, NothingHeld
      <4> QED BY <2>1, <3>1, <4>1
              DEF NoOut, EventsOf, HitsOwned, FirstUpdate, OneDecided, NothingHeld,
                  WritesTold, ToldWritten, AnswerTold
    <3>3. out[p].mode = "consumed" => "CONSUMED" \in logged[out[p].got]
      BY <1>0, <3>1 DEF EventsOf, AnswerTold
    <3>4. EvidenceKept'
      BY <2>1, <2>3, <2>4, <3>3 DEF EvidenceInv, EvidenceKept
    <3> QED BY <2>2, <3>2, <3>4 DEF EvidenceInv
  <2>6. CASE ~CommitFirst
    <3>1. pc[p] = "finish" /\ pc'[p] = "replied" /\ UNCHANGED <<out, call, upd>>
      BY <1>17, <2>6 DEF Reply, Goto, TypeInv, TypeOK
    <3>2. EventsOf(p)'
      BY <1>0, <2>1, <3>1
         DEF EventsOf, HitsOwned, FirstUpdate, OneDecided, NothingHeld,
             WritesTold, ToldWritten, AnswerTold
    <3>3. out[p].mode = "consumed" => owner[out[p].got] = p
      BY <3>1 DEF GrantInv, AnswerBacked, Holding, Owing
    <3>4. EvidenceKept'
      BY <1>0, <2>1, <2>3, <2>4, <3>1, <3>3 DEF EvidenceInv, EvidenceKept
    <3> QED BY <2>2, <3>2, <3>4 DEF EvidenceInv
  <2> QED BY <2>5, <2>6
<1>18. ASSUME NEW p \in Procs, Crash(p)
       PROVE  EvidenceInv'
  BY <1>18, EvidenceRollback
     DEF Crash, End, Goto, OtherCallsSame, OthersSame, TypeInv, TypeOK
<1>19. CASE Tick \/ UNCHANGED vars
  <2>1. UNCHANGED <<rows, owner, dirty, pc, call, upd, out, logged, grants, lost>>
    BY <1>19 DEF Tick, vars, db, request, record
  <2> QED BY <2>1 DEF EvidenceInv, EvidenceKept, EventsOf, HitsOwned, FirstUpdate,
                      OneDecided, NothingHeld, WritesTold, ToldWritten, AnswerTold
<1> QED
  BY <1>1, <1>2, <1>3, <1>4, <1>5, <1>6, <1>7, <1>9, <1>11, <1>12, <1>13, <1>14,
     <1>15, <1>16, <1>17, <1>18, <1>19 DEF Next, Run

(* The timeline keeps up with the approvals: a request, a decision and an   *)
(* expiry are on it when they can be seen, and so is the consumption a      *)
(* caller was told of, but for a response that left before its commit.  Of  *)
(* what was voided, or consumed without being answered, nothing is said.    *)
THEOREM EvidenceKeptHolds == Spec => []EvidenceKept
<1>1. EvidenceInv => EvidenceKept
  BY DEF EvidenceInv
<1> QED BY <1>1, TypeInvariant, InitGrantInv, GrantStep, InitEvidenceInv,
           EvidenceStep, PTL DEF Spec
-----------------------------------------------------------------------------
(* Approvals implements ApprovalLifecycle.  What a transaction is about to  *)
(* make visible is one step of the lifecycle: each row it has written says  *)
(* which, and the statement the call has reached says that they agree.      *)

(* A row as the lifecycle has it. *)
Seen(r) == [state |-> r.state, binding |-> r.binding, version |-> r.version,
            requester |-> r.requester, decidedBy |-> r.decidedBy]

Uses(c, i) ==
    LET r == Seen(rows[i])
    IN  /\ r.state = "APPROVED" /\ r.binding = c.binding /\ r.version = c.version
        /\ Seen(dirty[i]) = [r EXCEPT !.state = "CONSUMED"]

Voids(c, i) ==
    LET r == Seen(rows[i])
    IN  /\ r.state = "APPROVED" /\ r.binding = c.binding /\ r.version # c.version
        /\ c.version \in Versions
        /\ Seen(dirty[i]) = [r EXCEPT !.state = "VOIDED"]

Expires(c, i) ==
    LET r == Seen(rows[i])
    IN  /\ r.state \in {"PENDING", "APPROVED"} /\ r.binding = c.binding
        /\ c.version \in Versions
        /\ Seen(dirty[i]) = [r EXCEPT !.state = "EXPIRED"]

Decides(c, i) ==
    LET r == Seen(rows[i])
    IN  /\ r.state = "PENDING" /\ i = c.id
        /\ c.user \in Approvers[r.version] \ {r.requester}
        /\ \E to \in Decision :
             Seen(dirty[i]) = [r EXCEPT !.state = to, !.decidedBy = c.user]

Asks(c, i) ==
    /\ rows[i] = NoRow
    /\ c.binding \in Bindings /\ c.version \in Versions /\ c.user \in Requesters
    /\ Seen(dirty[i]) = [state |-> "PENDING", binding |-> c.binding,
                         version |-> c.version, requester |-> c.user,
                         decidedBy |-> None]

Written(c, i) ==
    Uses(c, i) \/ Voids(c, i) \/ Expires(c, i) \/ Decides(c, i) \/ Asks(c, i)

(* What a call may have written, where it is.                               *)
Writing(p) ==
    IF out[p].mode = "consumed" THEN {"CONSUMED"}
    ELSE IF out[p].mode = "decided" THEN Decision
    ELSE IF pc[p] \in {"scan", "update"} /\ upd[p].to \in Decision \cup {"CONSUMED"}
         THEN {upd[p].to}
    ELSE {"VOIDED", "EXPIRED", "PENDING"}

Writes(p) ==
    \A i \in Ids : owner[i] = p =>
        /\ dirty[i].state \in Writing(p)
        /\ Written(call[p], i)

Asker(p) ==
    \/ pc[p] \in {"scan", "update"} /\ upd[p].to \notin Decision
    \/ pc[p] \in {"rejected", "pending", "lookup", "insert"}
    => call[p].user \in Requesters

DecidedLast(p) ==
    out[p].mode = "decided" => pc[p] \in {"finish", "replied", "committed"}

WriteInv == \A p \in Procs : Writes(p) /\ Asker(p) /\ DecidedLast(p)

LEMMA InitWriteInv == Init => WriteInv
  BY ApprovalsAssumption DEF Init, NoOut, WriteInv, Writes, Asker, DecidedLast

LEMMA WrittenStays ==
    ASSUME NEW p \in Procs, NEW i \in Ids, Written(call[p], i),
           call'[p] = call[p], rows'[i] = rows[i], dirty'[i] = dirty[i]
    PROVE  Written(call[p], i)'
<1>1. /\ Uses(call[p], i) => Uses(call[p], i)'
      /\ Voids(call[p], i) => Voids(call[p], i)'
      /\ Expires(call[p], i) => Expires(call[p], i)'
  BY DEF Uses, Voids, Expires, Seen
<1>2. /\ Decides(call[p], i) => Decides(call[p], i)'
      /\ Asks(call[p], i) => Asks(call[p], i)'
  BY DEF Decides, Asks, Seen
<1> QED BY <1>1, <1>2 DEF Written

(* Other calls hold what they have written, and no one else commits it.     *)
LEMMA OthersWrites ==
    ASSUME TypeInv, WriteInv, NEW p \in Procs, OtherCallsSame(p),
           \A i \in Ids : /\ owner[i] \notin {None, p} =>
                               /\ owner'[i] = owner[i] /\ dirty'[i] = dirty[i]
                               /\ rows'[i] = rows[i]
                          /\ owner[i] \in {None, p} => owner'[i] \in {None, p}
    PROVE  \A q \in Procs \ {p} : Writes(q)' /\ Asker(q)' /\ DecidedLast(q)'
<1> SUFFICES ASSUME NEW q \in Procs \ {p}
             PROVE  Writes(q)' /\ Asker(q)' /\ DecidedLast(q)'
  OBVIOUS
<1>1. /\ pc'[q] = pc[q] /\ upd'[q] = upd[q] /\ out'[q] = out[q] /\ call'[q] = call[q]
      /\ q # None /\ q # p
  BY ApprovalsAssumption DEF OtherCallsSame, OthersSame
<1>2. Asker(q)' /\ DecidedLast(q)'
  BY <1>1 DEF WriteInv, Asker, DecidedLast
<1>3. ASSUME NEW i \in Ids, owner'[i] = q
      PROVE  /\ dirty'[i].state \in Writing(q)'
             /\ Written(call[q], i)'
  <2>1. owner[i] = q /\ dirty'[i] = dirty[i] /\ rows'[i] = rows[i]
    BY <1>1, <1>3
  <2>2. /\ dirty[i].state \in Writing(q)
        /\ Written(call[q], i)
    BY <2>1 DEF WriteInv, Writes
  <2>3. dirty'[i].state \in Writing(q)'
    BY <1>1, <2>1, <2>2 DEF Writing
  <2> QED BY <1>1, <2>1, <2>2, <2>3, WrittenStays
<1> QED BY <1>2, <1>3 DEF Writes

(* A call that touches no row ...                                           *)
LEMMA WriteLocal ==
    ASSUME TypeInv, WriteInv, NEW p \in Procs, OtherCallsSame(p),
           UNCHANGED <<rows, owner, dirty>>,
           (\A i \in Ids : owner[i] # p)
             \/ (call'[p] = call[p] /\ Writing(p) \subseteq Writing(p)'),
           Asker(p)', DecidedLast(p)'
    PROVE  WriteInv'
<1>1. \A q \in Procs \ {p} : Writes(q)' /\ Asker(q)' /\ DecidedLast(q)'
  BY OthersWrites
<1>2. Writes(p)'
  <2> SUFFICES ASSUME NEW i \in Ids, owner[i] = p
               PROVE  /\ dirty'[i].state \in Writing(p)'
                      /\ Written(call[p], i)'
    BY DEF Writes
  <2>1. call'[p] = call[p] /\ Writing(p) \subseteq Writing(p)'
    OBVIOUS
  <2>2. /\ dirty[i].state \in Writing(p)
        /\ Written(call[p], i)
    BY DEF WriteInv, Writes
  <2> QED BY <2>1, <2>2, WrittenStays
<1> QED BY <1>1, <1>2 DEF WriteInv

(* ... and one whose transaction is over.                                   *)
LEMMA WriteRelease ==
    ASSUME TypeInv, WriteInv, NEW p \in Procs, OtherCallsSame(p), Unlock(p),
           \A i \in Ids : owner[i] # p => rows'[i] = rows[i],
           pc'[p] \in {"idle", "reselect", "committed"}, DecidedLast(p)'
    PROVE  WriteInv'
<1>1. /\ \A i \in Ids : owner[i] = p => owner'[i] = None
      /\ \A i \in Ids : owner[i] # p => owner'[i] = owner[i] /\ dirty'[i] = dirty[i]
      /\ p # None
  BY ApprovalsAssumption DEF Unlock
<1>2. \A q \in Procs \ {p} : Writes(q)' /\ Asker(q)' /\ DecidedLast(q)'
  BY <1>1, OthersWrites
<1>3. Writes(p)' /\ Asker(p)'
  BY <1>1 DEF Writes, Asker
<1> QED BY <1>2, <1>3 DEF WriteInv
(* A row that meets the WHERE clause is not one the call has written.       *)
LEMMA HitWritten ==
    ASSUME TypeInv, IndexInv, ContextInv, EvidenceInv, WriteInv, NEW p \in Procs,
           NEW i \in Ids, pc[p] = "update", out[p].mode # "consumed",
           owner[i] \in {p, None},
           Matches(call[p], upd[p].to, i, View(p, i)),
           rows'[i] = rows[i], call'[p] = call[p],
           dirty'[i] = Updated(call[p], upd[p].to, View(p, i))
    PROVE  /\ owner[i] = None
           /\ (Uses(call[p], i) \/ Voids(call[p], i) \/ Expires(call[p], i)
                 \/ Decides(call[p], i))'
<1>1. /\ upd[p].to \in ApprovalState \ {"PENDING"} /\ p # None
      /\ upd[p].to \notin Decision =>
           call[p].version \in Versions /\ call[p].user \in Requesters
  BY ApprovalsAssumption DEF TypeInv, ArgumentsOK, WriteInv, Asker
<1>2. owner[i] = None
  <2> SUFFICES ASSUME owner[i] = p PROVE FALSE
    OBVIOUS
  <2>1. View(p, i) = dirty[i] /\ dirty[i].state \in Writing(p)
    BY DEF View, WriteInv, Writes
  <2>2. dirty[i].state # "PENDING"
    BY <1>1 DEF IndexInv, InsertsLast
  <2>3. out[p].mode # "decided"
    BY DEF WriteInv, DecidedLast
  <2>4. CASE upd[p].to \in Decision \cup {"CONSUMED"}
    <3>1. dirty[i].state = upd[p].to
      BY <2>1, <2>3, <2>4 DEF Writing
    <3> QED BY <2>1, <2>2, <2>4, <3>1 DEF Matches, Usable, Decision
  <2>5. CASE upd[p].to \notin Decision \cup {"CONSUMED"}
    <3>1. dirty[i].state \in {"VOIDED", "EXPIRED"}
      BY <2>1, <2>2, <2>3, <2>5 DEF Writing
    <3> QED BY <2>1, <2>5, <3>1 DEF Matches, Usable, Decision
  <2> QED BY <2>4, <2>5
<1>3. View(p, i) = rows[i] /\ rows[i] \in Row
  BY <1>1, <1>2, UpdateType DEF View
<1>4. CASE upd[p].to = "CONSUMED"
  <2>1. Seen(dirty'[i]) = [Seen(rows[i]) EXCEPT !.state = "CONSUMED"]
    BY <1>3, <1>4 DEF Updated, Seen, Row, Decision
  <2>2. Uses(call[p], i)'
    BY <1>3, <1>4, <2>1 DEF Matches, Usable, SameContext, Decision, Uses, Seen
  <2> QED BY <1>2, <2>2
<1>5. CASE upd[p].to = "VOIDED"
  <2>1. Seen(dirty'[i]) = [Seen(rows[i]) EXCEPT !.state = "VOIDED"]
    BY <1>3, <1>5 DEF Updated, Seen, Row, Decision
  <2>2. Voids(call[p], i)'
    BY <1>1, <1>3, <1>5, <2>1
       DEF Matches, Usable, SameContext, Decision, Voids, Seen
  <2> QED BY <1>2, <2>2
<1>6. CASE upd[p].to = "EXPIRED"
  <2>1. Seen(dirty'[i]) = [Seen(rows[i]) EXCEPT !.state = "EXPIRED"]
    BY <1>3, <1>6 DEF Updated, Seen, Row, Decision
  <2>2. Expires(call[p], i)'
    BY <1>1, <1>3, <1>6, <2>1 DEF Matches, Decision, Expires, Seen
  <2> QED BY <1>2, <2>2
<1>7. CASE upd[p].to \in Decision
  <2>1. Seen(dirty'[i]) = [Seen(rows[i]) EXCEPT !.state = upd[p].to,
                                                !.decidedBy = call[p].user]
    <3>1. LET s == Updated(call[p], upd[p].to, rows[i])
          IN  /\ s.state = upd[p].to /\ s.decidedBy = call[p].user
              /\ s.binding = rows[i].binding /\ s.version = rows[i].version
              /\ s.requester = rows[i].requester
      BY <1>3, <1>7 DEF Updated, Row
    <3>2. dirty'[i] = Updated(call[p], upd[p].to, rows[i])
      BY <1>3
    <3> DEFINE r == rows[i]
               seen == [state |-> upd[p].to, binding |-> r.binding,
                        version |-> r.version, requester |-> r.requester,
                        decidedBy |-> call[p].user]
    <3>3. Seen(dirty'[i]) = seen
      BY <3>1, <3>2 DEF Seen
    <3> DEFINE moved == [Seen(r) EXCEPT !.state = upd[p].to]
    <3>4. [Seen(r) EXCEPT !.state = upd[p].to, !.decidedBy = call[p].user]
            = [moved EXCEPT !.decidedBy = call[p].user]
      OBVIOUS
    <3>5. moved = [state |-> upd[p].to, binding |-> r.binding, version |-> r.version,
                   requester |-> r.requester, decidedBy |-> r.decidedBy]
      BY DEF Seen
    <3> HIDE DEF moved
    <3>6. [moved EXCEPT !.decidedBy = call[p].user] = seen
      BY <3>5
    <3> QED BY <3>3, <3>4, <3>6
  <2>2. rows[i].state = "PENDING" /\ i = call[p].id
    BY <1>3, <1>7 DEF Matches, Decision
  <2>3. MayDecide(call[p].user, rows[i]) /\ call[p].user \in Users
    BY <1>7, <2>2 DEF ContextInv, StillMayDecide, TypeInv, ArgumentsOK
  <2>4. call[p].user \in Approvers[rows[i].version] \ {rows[i].requester}
    BY <2>3, ApprovalsAssumption DEF MayDecide
  <2>5. Decides(call[p], i)'
    <3>1. Seen(rows[i])' = Seen(rows[i]) /\ Seen(dirty[i])' = Seen(dirty'[i])
      BY DEF Seen
    <3>2. \E to \in Decision :
            Seen(dirty[i])' = [Seen(rows[i])' EXCEPT !.state = to,
                                                     !.decidedBy = call'[p].user]
      BY <1>7, <2>1, <3>1
    <3>3. /\ Seen(rows[i]).state = "PENDING"
          /\ call[p].user \in Approvers[Seen(rows[i]).version] \ {Seen(rows[i]).requester}
      BY <2>2, <2>4 DEF Seen
    <3> QED BY <2>2, <3>1, <3>2, <3>3 DEF Decides
  <2> QED BY <1>2, <2>5
<1> QED BY <1>1, <1>4, <1>5, <1>6, <1>7, UpdateType
        DEF Matches, Decision

LEMMA WriteStep ==
    TypeInv /\ IndexInv /\ GrantInv /\ ContextInv /\ EvidenceInv /\ WriteInv
        /\ [Next]_vars => WriteInv'
<1> SUFFICES ASSUME TypeInv, IndexInv, GrantInv, ContextInv, EvidenceInv, WriteInv,
                    [Next]_vars
             PROVE  WriteInv'
  OBVIOUS
<1>0. ASSUME NEW p \in Procs
      PROVE  /\ EventsOf(p) /\ Writes(p) /\ Asker(p) /\ DecidedLast(p) /\ p # None
             /\ out[p].mode \in {"consumed", "decided"} =>
                  pc[p] \in {"finish", "replied", "committed"}
  BY ApprovalsAssumption
     DEF EvidenceInv, GrantInv, AnswerBacked, Holding, Owing, WriteInv, DecidedLast
<1>1. ASSUME NEW p \in Procs, NEW b \in Bindings, NEW v \in Versions,
             NEW u \in Requesters, BeginResolve(p, b, v, u)
      PROVE  WriteInv'
  <2>1. /\ pc[p] = "idle" /\ pc'[p] = "scan" /\ call'[p].user = u
        /\ UNCHANGED <<rows, owner, dirty, out>> /\ OtherCallsSame(p)
    BY <1>1 DEF BeginResolve, Goto, db, OtherCallsSame, OthersSame, TypeInv, TypeOK
  <2>2. \A i \in Ids : owner[i] # p
    BY <1>0, <2>1 DEF EventsOf, NothingHeld
  <2>3. Asker(p)' /\ DecidedLast(p)'
    BY <1>0, <2>1 DEF Asker, DecidedLast
  <2> QED BY <2>1, <2>2, <2>3, WriteLocal
<1>2. ASSUME NEW p \in Procs, NEW i \in Ids, NEW u \in Users,
             NEW to \in Decision, BeginDecide(p, i, u, to)
      PROVE  WriteInv'
  <2>1. /\ pc[p] = "idle" /\ pc'[p] = "scan" /\ upd'[p].to = to
        /\ UNCHANGED <<rows, owner, dirty, out>> /\ OtherCallsSame(p)
    BY <1>2 DEF BeginDecide, Goto, Start, db, OtherCallsSame, OthersSame, TypeInv,
                TypeOK
  <2>2. \A j \in Ids : owner[j] # p
    BY <1>0, <2>1 DEF EventsOf, NothingHeld
  <2>3. Asker(p)' /\ DecidedLast(p)'
    BY <1>0, <2>1 DEF Asker, DecidedLast
  <2> QED BY <2>1, <2>2, <2>3, WriteLocal
<1>3. ASSUME NEW p \in Procs, Scan(p)
      PROVE  WriteInv'
  <2>1. /\ pc[p] = "scan" /\ pc'[p] = "update" /\ upd'[p].to = upd[p].to
        /\ UNCHANGED <<rows, owner, dirty, call, out>> /\ OtherCallsSame(p)
    BY <1>3 DEF Scan, Goto, db, OtherCallsSame, OthersSame, TypeInv, TypeOK, Update
  <2>2. Writing(p) \subseteq Writing(p)'
    BY <2>1 DEF Writing
  <2>3. Asker(p)' /\ DecidedLast(p)'
    BY <1>0, <2>1 DEF Asker, DecidedLast
  <2> QED BY <2>1, <2>2, <2>3, WriteLocal
<1>4. ASSUME NEW p \in Procs, NEW i \in Ids, UpdateRow(p, i)
      PROVE  WriteInv'
  <2> DEFINE hit == Matches(call[p], upd[p].to, i, View(p, i))
  <2>1. /\ pc[p] = "update" /\ pc'[p] = "update" /\ owner[i] \in {p, None}
        /\ upd'[p].to = upd[p].to
        /\ UNCHANGED <<rows, call, out>> /\ OtherCallsSame(p)
    BY <1>4 DEF UpdateRow, LockedByOther, OtherCallsSame, OthersSame, TypeInv, TypeOK
  <2>2. Writing(p)' = Writing(p)
    BY <2>1 DEF Writing
  <2>3. Asker(p)' /\ DecidedLast(p)'
    BY <1>0, <2>1 DEF Asker, DecidedLast
  <2>4. CASE hit
    <3>1. /\ owner'[i] = p
          /\ dirty'[i] = Updated(call[p], upd[p].to, View(p, i))
          /\ \A j \in Ids \ {i} : owner'[j] = owner[j] /\ dirty'[j] = dirty[j]
      BY <1>4, <2>4 DEF UpdateRow, TypeInv, TypeOK
    <3>2. /\ owner[i] = None
          /\ (Uses(call[p], i) \/ Voids(call[p], i) \/ Expires(call[p], i)
                \/ Decides(call[p], i))'
      BY <1>0, <2>1, <2>4, <3>1, HitWritten
    <3>3. dirty'[i].state = upd[p].to
      BY <2>1, <2>4, <3>1, UpdateType DEF Updated, Row
    <3>4. dirty'[i].state \in Writing(p)'
      <4>1. upd[p].to \in Decision \cup {"CONSUMED", "VOIDED", "EXPIRED"}
        BY <2>4 DEF Matches
      <4>2. out[p].mode \notin {"consumed", "decided"}
        BY <1>0, <2>1
      <4> QED BY <2>1, <2>2, <3>3, <4>1, <4>2 DEF Writing
    <3>5. \A j \in Ids : /\ owner[j] \notin {None, p} =>
                              /\ owner'[j] = owner[j] /\ dirty'[j] = dirty[j]
                              /\ rows'[j] = rows[j]
                         /\ owner[j] \in {None, p} => owner'[j] \in {None, p}
      BY <2>1, <3>1, <3>2
    <3>6. \A q \in Procs \ {p} : Writes(q)' /\ Asker(q)' /\ DecidedLast(q)'
      BY <2>1, <3>5, OthersWrites
    <3>7. ASSUME NEW j \in Ids \ {i}, owner'[j] = p
          PROVE  /\ dirty'[j].state \in Writing(p)'
                 /\ Written(call[p], j)'
      <4>1. owner[j] = p /\ dirty'[j] = dirty[j] /\ rows'[j] = rows[j]
        BY <2>1, <3>1, <3>7
      <4>2. /\ dirty[j].state \in Writing(p)
            /\ Written(call[p], j)
        BY <1>0, <4>1 DEF Writes
      <4> QED BY <2>1, <2>2, <4>1, <4>2, WrittenStays
    <3>8. Written(call[p], i)'
      BY <3>2 DEF Written
    <3>9. Writes(p)'
      BY <3>4, <3>7, <3>8 DEF Writes
    <3> QED BY <2>3, <3>6, <3>9 DEF WriteInv
  <2>5. CASE ~hit
    <3>1. UNCHANGED <<owner, dirty>>
      BY <1>4, <2>5 DEF UpdateRow
    <3> QED BY <2>1, <2>2, <2>3, <3>1, WriteLocal
  <2> QED BY <2>4, <2>5
<1>5. ASSUME NEW p \in Procs, Consumed(p) \/ Decided(p)
      PROVE  WriteInv'
  <2>1. /\ pc[p] = "update" /\ pc'[p] = "finish"
        /\ UNCHANGED <<rows, owner, dirty, call>> /\ OtherCallsSame(p)
    BY <1>5 DEF Consumed, Decided, Done, Goto, db, OtherCallsSame, OthersSame,
                TypeInv, TypeOK
  <2>2. \/ upd[p].to = "CONSUMED" /\ out'[p].mode = "consumed"
        \/ upd[p].to \in Decision /\ out'[p].mode = "decided"
    BY <1>5 DEF Consumed, Decided, Done, TypeInv, TypeOK
  <2>3. Writing(p) \subseteq Writing(p)'
    BY <1>0, <2>1, <2>2 DEF Writing, Decision
  <2>4. Asker(p)' /\ DecidedLast(p)'
    BY <2>1 DEF Asker, DecidedLast
  <2> QED BY <2>1, <2>3, <2>4, WriteLocal
<1>6. ASSUME NEW p \in Procs, NothingToConsume(p)
      PROVE  WriteInv'
  <2>1. /\ pc[p] = "update" /\ pc'[p] = "scan" /\ upd[p].hits = {}
        /\ upd[p].to = "CONSUMED"
        /\ UNCHANGED <<rows, owner, dirty, call, out>> /\ OtherCallsSame(p)
    BY <1>6 DEF NothingToConsume, Done, Goto, db, OtherCallsSame, OthersSame,
                TypeInv, TypeOK
  <2>2. \A i \in Ids : owner[i] # p
    BY <1>0, <2>1 DEF EventsOf, FirstUpdate
  <2>3. Asker(p)' /\ DecidedLast(p)'
    BY <1>0, <2>1 DEF Asker, DecidedLast, Decision
  <2> QED BY <2>1, <2>2, <2>3, WriteLocal
<1>7. ASSUME NEW p \in Procs,
             \/ Voided(p) \/ Expired(p) \/ SelectRejected(p) \/ SelectPending(p)
             \/ RequestFound(p)
      PROVE  WriteInv'
  <2>1. /\ \/ pc[p] = "update" /\ upd[p].to \in {"VOIDED", "EXPIRED"}
           \/ pc[p] \in {"rejected", "pending", "lookup"}
        /\ UNCHANGED <<rows, owner, dirty, call>> /\ OtherCallsSame(p)
    BY <1>7 DEF Voided, Expired, SelectRejected, SelectPending, RequestFound, Done,
                Answer, Goto, Log, db, OtherCallsSame, OthersSame, TypeInv, TypeOK
  <2>2. \/ pc'[p] = "scan" /\ upd'[p].to = "EXPIRED"
        \/ pc'[p] \in {"rejected", "pending", "lookup", "insert", "finish"}
    BY <1>7 DEF Voided, Expired, SelectRejected, SelectPending, RequestFound,
                Answer, Goto, Start, TypeInv, TypeOK
  <2>3. out[p].mode \notin {"consumed", "decided"}
    BY <1>0, <2>1
  <2>4. out'[p].mode \notin {"consumed", "decided"}
    BY <1>7, <2>3 DEF Voided, Expired, SelectRejected, SelectPending, RequestFound,
                      Answer, Log, TypeInv, TypeOK, Out
  <2>5. Writing(p) \subseteq Writing(p)'
    BY <2>1, <2>2, <2>3, <2>4 DEF Writing, Decision
  <2>6. Asker(p)' /\ DecidedLast(p)'
    BY <1>0, <2>1, <2>4 DEF Asker, DecidedLast, Decision
  <2> QED BY <2>1, <2>5, <2>6, WriteLocal
<1>8. ASSUME NEW p \in Procs, Fail(p) \/ Crash(p)
      PROVE  WriteInv'
  BY <1>8, WriteRelease
     DEF Fail, Crash, End, Goto, NoOut, DecidedLast, OtherCallsSame, OthersSame,
         TypeInv, TypeOK
<1>9. ASSUME NEW p \in Procs, Insert(p)
      PROVE  WriteInv'
  <2>1. PICK i \in Free :
          /\ owner' = [owner EXCEPT ![i] = p]
          /\ dirty' = [dirty EXCEPT ![i] = NewRow(call[p])]
          /\ out' = [out EXCEPT ![p] =
                       [events |-> out[p].events \cup {<<i, "PENDING">>},
                        got |-> None, mode |-> "pending"]]
    BY <1>9 DEF Insert
  <2>2. /\ i \in Ids /\ owner[i] = None /\ rows[i] = NoRow
        /\ owner'[i] = p /\ dirty'[i] = NewRow(call[p])
        /\ \A j \in Ids \ {i} : owner'[j] = owner[j] /\ dirty'[j] = dirty[j]
    BY <2>1 DEF Free, TypeInv, TypeOK
  <2>3. /\ UNCHANGED <<rows, call>> /\ OtherCallsSame(p)
        /\ pc[p] = "insert" /\ pc'[p] = "finish" /\ out'[p].mode = "pending"
    BY <1>9, <2>1 DEF Insert, Goto, OtherCallsSame, OthersSame, TypeInv, TypeOK
  <2>4. Writing(p)' = {"VOIDED", "EXPIRED", "PENDING"} /\ Writing(p) = Writing(p)'
    BY <1>0, <2>3 DEF Writing
  <2>5. dirty'[i].state = "PENDING" /\ Written(call[p], i)'
    <3>1. dirty'[i].state = "PENDING" /\ Asks(call[p], i)'
      BY <1>0, <2>2, <2>3 DEF NewRow, Seen, Asks, Asker, TypeInv, ArgumentsOK
    <3> QED BY <3>1 DEF Written
  <2>6. \A j \in Ids : /\ owner[j] \notin {None, p} =>
                            /\ owner'[j] = owner[j] /\ dirty'[j] = dirty[j]
                            /\ rows'[j] = rows[j]
                       /\ owner[j] \in {None, p} => owner'[j] \in {None, p}
    BY <2>2, <2>3
  <2>7. \A q \in Procs \ {p} : Writes(q)' /\ Asker(q)' /\ DecidedLast(q)'
    BY <2>3, <2>6, OthersWrites
  <2>8. ASSUME NEW j \in Ids \ {i}, owner'[j] = p
        PROVE  /\ dirty'[j].state \in Writing(p)'
               /\ Written(call[p], j)'
    <3>1. owner[j] = p /\ dirty'[j] = dirty[j] /\ rows'[j] = rows[j]
      BY <2>2, <2>3, <2>8
    <3>2. /\ dirty[j].state \in Writing(p)
          /\ Written(call[p], j)
      BY <1>0, <3>1 DEF Writes
    <3> QED BY <2>3, <2>4, <3>1, <3>2, WrittenStays
  <2>9. Writes(p)'
    BY <2>4, <2>5, <2>8 DEF Writes
  <2>10. Asker(p)' /\ DecidedLast(p)'
    BY <2>3 DEF Asker, DecidedLast
  <2> QED BY <2>7, <2>9, <2>10 DEF WriteInv
<1>10. ASSUME NEW p \in Procs, InsertConflict(p)
       PROVE  WriteInv'
  BY <1>10, WriteRelease
     DEF InsertConflict, Goto, NoOut, DecidedLast, OtherCallsSame, OthersSame,
         TypeInv, TypeOK
<1>11. ASSUME NEW p \in Procs, Reselect(p)
       PROVE  WriteInv'
  <2>1. CASE \E i \in Ids : IsPending(call[p], rows[i])
    <3>1. /\ pc[p] = "reselect" /\ pc'[p] = "finish" /\ out'[p].mode = "pending"
          /\ UNCHANGED <<rows, owner, dirty>> /\ OtherCallsSame(p)
      BY <1>11, <2>1 DEF Reselect, Answer, Goto, db, OtherCallsSame, OthersSame,
                         TypeInv, TypeOK, Out
    <3>2. \A i \in Ids : owner[i] # p
      BY <1>0, <3>1 DEF EventsOf, NothingHeld
    <3> QED BY <3>1, <3>2, WriteLocal DEF Asker, DecidedLast
  <2>2. CASE ~\E i \in Ids : IsPending(call[p], rows[i])
    BY <1>8, <1>11, <2>2 DEF Reselect
  <2> QED BY <2>1, <2>2
<1>12. ASSUME NEW p \in Procs, Commit(p)
       PROVE  WriteInv'
  <2>1. /\ Unlock(p) /\ OtherCallsSame(p) /\ pc'[p] \in {"committed", "idle"}
        /\ \A i \in Ids : owner[i] # p => rows'[i] = rows[i]
    BY <1>12 DEF Commit, View, End, Goto, OtherCallsSame, OthersSame, TypeInv, TypeOK
  <2>2. DecidedLast(p)'
    BY <1>12 DEF Commit, End, Goto, NoOut, DecidedLast, TypeInv, TypeOK
  <2> QED BY <2>1, <2>2, WriteRelease
<1>13. ASSUME NEW p \in Procs, Reply(p)
       PROVE  WriteInv'
  <2>1. UNCHANGED <<rows, owner, dirty>> /\ OtherCallsSame(p)
    BY <1>13 DEF Reply, End, Goto, db, OtherCallsSame, OthersSame, TypeInv, TypeOK
  <2>2. CASE CommitFirst
    <3>1. pc[p] = "committed" /\ pc'[p] = "idle" /\ out'[p].mode = "none"
      BY <1>13, <2>2 DEF Reply, End, Goto, NoOut, TypeInv, TypeOK
    <3>2. \A i \in Ids : owner[i] # p
      BY <1>0, <3>1 DEF EventsOf, NothingHeld
    <3> QED BY <2>1, <3>1, <3>2, WriteLocal DEF Asker, DecidedLast
  <2>3. CASE ~CommitFirst
    <3>1. pc[p] = "finish" /\ pc'[p] = "replied" /\ UNCHANGED <<out, upd, call>>
      BY <1>13, <2>3 DEF Reply, Goto, TypeInv, TypeOK
    <3>2. Writing(p) \subseteq Writing(p)'
      BY <3>1 DEF Writing
    <3> QED BY <2>1, <3>1, <3>2, WriteLocal DEF Asker, DecidedLast
  <2> QED BY <2>2, <2>3
<1>14. CASE Tick \/ UNCHANGED vars
  <2>1. UNCHANGED <<rows, owner, dirty, pc, call, upd, out>>
    BY <1>14 DEF Tick, vars, db, request
  <2>2. ASSUME NEW p \in Procs PROVE Writes(p)' /\ Asker(p)' /\ DecidedLast(p)'
    <3>1. Asker(p)' /\ DecidedLast(p)'
      BY <1>0, <2>1 DEF Asker, DecidedLast
    <3>2. Writing(p)' = Writing(p)
      BY <2>1 DEF Writing
    <3>3. Writes(p)'
      BY <1>0, <2>1, <3>2, WrittenStays DEF Writes
    <3> QED BY <3>1, <3>3
  <2> QED BY <2>2 DEF WriteInv
<1>15. ASSUME NEW p \in Procs, RequestMissing(p) \/ NotPending(p) \/ DeadlockVictim(p)
       PROVE  Fail(p)
  BY <1>15 DEF RequestMissing, NotPending, DeadlockVictim
<1> QED
  BY <1>1, <1>2, <1>3, <1>4, <1>5, <1>6, <1>7, <1>8, <1>9, <1>10, <1>11, <1>12,
     <1>13, <1>14, <1>15 DEF Next, Run
LEMMA VisibleIs ==
    ASSUME NEW i \in Ids
    PROVE  Visible(i) = IF Answered(i) THEN Seen(dirty[i]) ELSE Seen(rows[i])
  BY DEF Visible, Seen

(* A row as it is seen, and what a decision makes of it.                    *)
LEMMA SeenDecided ==
    ASSUME NEW f, f = [j \in Ids |-> f[j]], NEW i \in Ids, NEW to, NEW u
    PROVE  [f EXCEPT ![i].state = to, ![i].decidedBy = u]
             = [f EXCEPT ![i] = [f[i] EXCEPT !.state = to, !.decidedBy = u]]
<1> DEFINE once == [f EXCEPT ![i].state = to]
<1>1. [f EXCEPT ![i].state = to, ![i].decidedBy = u] = [once EXCEPT ![i].decidedBy = u]
  OBVIOUS
<1>2. /\ once = [j \in Ids |-> once[j]]
      /\ once[i] = [f[i] EXCEPT !.state = to]
      /\ \A j \in Ids \ {i} : once[j] = f[j]
  OBVIOUS
<1> HIDE DEF once
<1>3. [once EXCEPT ![i].decidedBy = u]
        = [j \in Ids |-> IF j = i THEN [once[i] EXCEPT !.decidedBy = u] ELSE f[j]]
  BY <1>2
<1>4. [once[i] EXCEPT !.decidedBy = u] = [f[i] EXCEPT !.state = to, !.decidedBy = u]
  BY <1>2
<1>5. [f EXCEPT ![i] = [f[i] EXCEPT !.state = to, !.decidedBy = u]]
        = [j \in Ids |-> IF j = i THEN [f[i] EXCEPT !.state = to, !.decidedBy = u]
                                  ELSE f[j]]
  OBVIOUS
<1> QED BY <1>1, <1>3, <1>4, <1>5

(* What a call has written becomes visible in one step of the lifecycle.    *)
LEMMA TakesEffect ==
    ASSUME TypeInv, IndexInv, GrantInv, ContextInv, EvidenceInv, WriteInv,
           NEW p \in Procs, pc[p] = "finish",
           \A i \in Ids : owner[i] = p => Visible(i)' = Seen(dirty[i]),
           \A i \in Ids : owner[i] # p => Visible(i)' = Visible(i),
           \/ UNCHANGED grants
           \/ /\ out[p].mode = "consumed"
              /\ grants' = [grants EXCEPT ![out[p].got] = @ + 1]
    PROVE  [Lifecycle!Next]_(Lifecycle!vars)
<1> DEFINE W == {i \in Ids : owner[i] = p}
           b == call[p].binding
           v == call[p].version
<1>1. \A i \in W : /\ Visible(i) = Seen(rows[i])
                   /\ Visible(i)' = Seen(dirty[i])
                   /\ Written(call[p], i) /\ dirty[i].state \in Writing(p)
                   /\ dirty[i] \in Row
  <2>1. \A i \in W : ~Answered(i)
    BY DEF Answered
  <2> QED BY <2>1, VisibleIs, ApprovalsAssumption
          DEF WriteInv, Writes, TypeInv, LocksOK
<1>2. \A i \in W : /\ Uses(call[p], i) => dirty[i].state = "CONSUMED"
                   /\ Voids(call[p], i) => dirty[i].state = "VOIDED"
                   /\ Expires(call[p], i) => dirty[i].state = "EXPIRED"
                   /\ Asks(call[p], i) => dirty[i].state = "PENDING"
  BY DEF Uses, Voids, Expires, Asks, Seen
<1>3. \A i \in W : Decides(call[p], i) => dirty[i].state \in Decision
  <2> SUFFICES ASSUME NEW i \in W, Decides(call[p], i) PROVE dirty[i].state \in Decision
    OBVIOUS
  <2>1. PICK to \in Decision :
          Seen(dirty[i]) = [Seen(rows[i]) EXCEPT !.state = to, !.decidedBy = call[p].user]
    BY DEF Decides
  <2> DEFINE moved == [Seen(rows[i]) EXCEPT !.state = to]
  <2>2. Seen(dirty[i]) = [moved EXCEPT !.decidedBy = call[p].user]
    BY <2>1
  <2>3. moved.state = to /\ DOMAIN moved = DOMAIN Seen(rows[i])
    BY DEF Seen
  <2> HIDE DEF moved
  <2>4. Seen(dirty[i]).state = to
    BY <2>2, <2>3 DEF Seen
  <2> QED BY <2>4 DEF Seen
<1>4. CASE out[p].mode = "consumed"
  <2>1. out[p].got \in W
    BY <1>4 DEF TypeInv, ArgumentsOK, GrantInv, AnswerBacked, Holding, Owing
  <2>2. \A i \in W : Uses(call[p], i)
    BY <1>1, <1>2, <1>3, <1>4 DEF Writing, Written, Decision
  <2>3. b \in Bindings /\ v \in Versions
    <3> DEFINE r == rows[out[p].got]
    <3>1. r.state = "APPROVED" /\ r.binding = b /\ r.version = v
      BY <2>1, <2>2 DEF Uses, Seen
    <3>2. r \in Row
      BY <2>1, <3>1 DEF TypeInv, TypeOK, NoRow
    <3> QED BY <3>1, <3>2 DEF Row
  <2>4. W \in SUBSET {i \in Lifecycle!In(b, {"APPROVED"}) :
                         [j \in Ids |-> Visible(j)][i].version = v}
    BY <1>1, <2>2 DEF Lifecycle!In, Uses
  <2>5. [i \in Ids |-> Visible(i)]' = Lifecycle!Become(W, "CONSUMED")
    <3>1. ASSUME NEW i \in Ids
          PROVE  Visible(i)' = IF i \in W THEN [Visible(i) EXCEPT !.state = "CONSUMED"]
                                          ELSE Visible(i)
      BY <1>1, <2>2, <3>1 DEF Uses
    <3> QED BY <3>1 DEF Lifecycle!Become
  <2>6. Lifecycle!Consume(b, v)
    BY <2>1, <2>4, <2>5 DEF Lifecycle!Consume
  <2> QED BY <2>3, <2>6 DEF Lifecycle!Next
<1>5. CASE out[p].mode # "consumed" /\ W = {}
  <2>1. [i \in Ids |-> Visible(i)]' = [i \in Ids |-> Visible(i)] /\ UNCHANGED grants
    BY <1>5
  <2> QED BY <2>1 DEF Lifecycle!vars
<1>6. CASE out[p].mode = "decided" /\ W # {}
  <2>1. PICK i \in W : TRUE
    BY <1>6
  <2>2. \A j \in W : Decides(call[p], j)
    BY <1>1, <1>2, <1>3, <1>6 DEF Writing, Written, Decision
  <2>3. W = {i} /\ i \in Ids
    BY <2>1, <2>2 DEF Decides
  <2> DEFINE u == call[p].user
  <2>4. PICK to \in Decision :
          Seen(dirty[i]) = [Seen(rows[i]) EXCEPT !.state = to, !.decidedBy = u]
    BY <2>2 DEF Decides
  <2>5. /\ Visible(i).state = "PENDING"
        /\ u \in Approvers[Visible(i).version] \ {Visible(i).requester}
    BY <1>1, <2>2 DEF Decides
  <2>6. u \in Users
    <3>1. Visible(i).version \in Versions
      <4>1. rows[i].state = "PENDING"
        BY <1>1, <2>5 DEF Seen
      <4>2. rows[i] \in Row
        BY <2>3, <4>1 DEF TypeInv, TypeOK, NoRow
      <4> QED BY <1>1, <4>2 DEF Seen, Row
    <3> QED BY <2>5, <3>1, ApprovalsAssumption
  <2> DEFINE A == [j \in Ids |-> Visible(j)]
  <2>7. A' = [A EXCEPT ![i].state = to, ![i].decidedBy = u]
    <3>1. A[i] = Seen(rows[i]) /\ A = [j \in Ids |-> A[j]]
      BY <1>1, <2>3
    <3>2. A' = [A EXCEPT ![i] = Seen(dirty[i])]
      BY <1>1, <2>3
    <3> HIDE DEF A
    <3>3. [A EXCEPT ![i].state = to, ![i].decidedBy = u]
            = [A EXCEPT ![i] = [A[i] EXCEPT !.state = to, !.decidedBy = u]]
      BY <2>3, <3>1, SeenDecided
    <3> QED BY <2>4, <3>1, <3>2, <3>3
  <2>8. UNCHANGED grants
    BY <1>6
  <2>9. Lifecycle!Decide(i, u, to)
    BY <2>3, <2>5, <2>7, <2>8 DEF Lifecycle!Decide
  <2> QED BY <2>3, <2>6, <2>9 DEF Lifecycle!Next, Decision
<1>7. CASE out[p].mode \notin {"consumed", "decided"} /\ W # {}
  <2> DEFINE V == {i \in W : dirty[i].state = "VOIDED"}
             E == {i \in W : dirty[i].state = "EXPIRED"}
             J == {i \in W : dirty[i].state = "PENDING"}
             A == [i \in Ids |-> Visible(i)]
             closed == [i \in Ids |-> IF i \in V THEN [A[i] EXCEPT !.state = "VOIDED"]
                                      ELSE IF i \in E THEN [A[i] EXCEPT !.state = "EXPIRED"]
                                      ELSE A[i]]
  <2>1. \A i \in W : dirty[i].state \in {"VOIDED", "EXPIRED", "PENDING"}
    BY <1>1, <1>7 DEF Writing
  <2>2. /\ \A i \in V : Voids(call[p], i)
        /\ \A i \in E : Expires(call[p], i)
        /\ \A i \in J : Asks(call[p], i)
        /\ W = V \cup E \cup J
    BY <1>1, <1>2, <1>3, <2>1 DEF Written, Decision
  <2>3. b \in Bindings /\ v \in Versions
    <3>1. ASSUME NEW i \in V \cup E PROVE b \in Bindings /\ v \in Versions
      <4> DEFINE r == rows[i]
      <4>1. r.state \in {"PENDING", "APPROVED"} /\ r.binding = b /\ v \in Versions
        BY <2>2 DEF Voids, Expires, Seen
      <4>2. r \in Row
        BY <4>1 DEF TypeInv, TypeOK, NoRow
      <4> QED BY <4>1, <4>2 DEF Row
    <3>2. ASSUME NEW i \in J PROVE b \in Bindings /\ v \in Versions
      BY <2>2 DEF Asks
    <3> QED BY <1>7, <2>2, <3>1, <3>2
  <2>4. /\ V \in SUBSET {i \in Lifecycle!In(b, {"APPROVED"}) :
                            [j \in Ids |-> Visible(j)][i].version # v}
        /\ E \in SUBSET Lifecycle!In(b, {"PENDING", "APPROVED"})
    <3>1. \A i \in V : /\ Visible(i).state = "APPROVED"
                       /\ Visible(i).binding = b /\ Visible(i).version # v
      BY <1>1, <2>2 DEF Voids
    <3>2. \A i \in E : /\ Visible(i).state \in {"PENDING", "APPROVED"}
                       /\ Visible(i).binding = b
      BY <1>1, <2>2 DEF Expires
    <3> QED BY <3>1, <3>2 DEF Lifecycle!In
  <2>5. ASSUME NEW i \in Ids, i \notin J
        PROVE  Visible(i)' = closed[i]
    <3>1. CASE i \in V
      BY <1>1, <2>2, <3>1 DEF Voids
    <3>2. CASE i \in E
      BY <1>1, <2>2, <3>2 DEF Expires
    <3>3. CASE i \notin W
      BY <3>3
    <3> QED BY <2>2, <2>5, <3>1, <3>2, <3>3
  <2>6. UNCHANGED grants
    BY <1>7
  <2>7. CASE J = {}
    <3>1. [i \in Ids |-> Visible(i)]' = closed
      BY <2>5, <2>7
    <3>2. Lifecycle!Refresh(b, v)
      BY <2>4, <2>6, <3>1 DEF Lifecycle!Refresh
    <3> QED BY <2>3, <3>2 DEF Lifecycle!Next
  <2>8. CASE J # {}
    <3>1. PICK j \in J : TRUE
      BY <2>8
    <3>2. /\ j \in Ids /\ owner[j] = p /\ p # None /\ dirty[j].state = "PENDING"
          /\ dirty[j].binding = b /\ Asks(call[p], j)
      BY <2>2, <3>1, ApprovalsAssumption DEF Asks, Seen
    <3>3. \A i \in J : i = j
      BY <2>2, <3>2 DEF Asks, Seen, IndexInv, InsertsApart
    <3>4. Lifecycle!In(b, {"PENDING"}) \subseteq E
      <4> SUFFICES ASSUME NEW i \in Ids, Visible(i).state = "PENDING",
                          Visible(i).binding = b
                   PROVE  i \in E
        BY DEF Lifecycle!In
      <4>1. CASE Answered(i)
        <5>1. dirty[i].state = "PENDING" /\ dirty[i].binding = b /\ owner[i] # None
          BY <4>1, VisibleIs DEF Seen, Answered
        <5>2. i = j
          BY <3>2, <5>1 DEF IndexInv, InsertsApart
        <5> QED BY <3>2, <4>1, <5>2 DEF Answered
      <4>2. CASE ~Answered(i)
        <5>1. rows[i].state = "PENDING" /\ rows[i].binding = b
          BY <4>2, VisibleIs DEF Seen
        <5>2. owner[i] = p /\ dirty[i].state # "PENDING"
          BY <3>2, <5>1 DEF IndexInv, InsertReplaces
        <5>3. i \notin V
          BY <2>2, <5>1 DEF Voids, Seen
        <5> QED BY <2>1, <5>2, <5>3
      <4> QED BY <4>1, <4>2
    <3>5. /\ call[p].user \in Requesters
          /\ Visible(j) = Lifecycle!Nothing
          /\ Visible(j)' = [state |-> "PENDING", binding |-> b, version |-> v,
                            requester |-> call[p].user, decidedBy |-> None]
      BY <1>1, <3>2 DEF Asks, Seen, NoRow, Lifecycle!Nothing
    <3>6. [i \in Ids |-> Visible(i)]'
            = [closed EXCEPT ![j] = [state |-> "PENDING", binding |-> b, version |-> v,
                                     requester |-> call[p].user, decidedBy |-> None]]
      BY <2>5, <3>2, <3>3, <3>5
    <3>7. Lifecycle!Refresh(b, v)
      <4>1. \E i \in Ids, u \in Requesters :
              /\ A[i] = Lifecycle!Nothing
              /\ A' = [closed EXCEPT ![i] = [state |-> "PENDING", binding |-> b,
                                            version |-> v, requester |-> u,
                                            decidedBy |-> None]]
        BY <3>2, <3>5, <3>6
      <4> HIDE DEF V, E, J
      <4> QED BY <2>4, <2>6, <3>4, <4>1, Zenon DEF Lifecycle!Refresh
    <3> QED BY <2>3, <3>7 DEF Lifecycle!Next
  <2> QED BY <2>7, <2>8
<1> QED BY <1>4, <1>5, <1>6, <1>7
(* A step that answers and commits nothing is not seen.                     *)
LEMMA NotSeen ==
    ASSUME TypeInv, NEW p \in Procs, UNCHANGED <<rows, grants>>, OthersSame(p),
           pc[p] # "replied", pc'[p] # "replied",
           \A i \in Ids : /\ owner[i] \notin {None, p} =>
                               owner'[i] = owner[i] /\ dirty'[i] = dirty[i]
                          /\ owner[i] \in {None, p} => owner'[i] \in {None, p}
    PROVE  UNCHANGED Lifecycle!vars
<1>1. ASSUME NEW i \in Ids
      PROVE  /\ Answered(i)' <=> Answered(i)
             /\ Answered(i) => dirty'[i] = dirty[i]
  <2>1. CASE owner[i] \in {None, p}
    BY <2>1, ApprovalsAssumption DEF Answered
  <2>2. CASE owner[i] \notin {None, p}
    <3>1. pc'[owner[i]] = pc[owner[i]]
      BY <2>2 DEF OthersSame, TypeInv, TypeOK
    <3> QED BY <2>2, <3>1 DEF Answered
  <2> QED BY <2>1, <2>2
<1>2. \A i \in Ids : Visible(i)' = Visible(i)
  BY <1>1 DEF Visible
<1> QED BY <1>2 DEF Lifecycle!vars

AllInv ==
    /\ TypeInv /\ IndexInv /\ GrantInv /\ ContextInv /\ EvidenceInv /\ WriteInv
    /\ NoneLost

LEMMA LifecycleStep ==
    ASSUME Lossless, AllInv, [Next]_vars
    PROVE  [Lifecycle!Next]_(Lifecycle!vars)
<1> USE DEF AllInv
<1>1. ASSUME NEW p \in Procs,
             \/ \E b \in Bindings, v \in Versions, u \in Requesters :
                  BeginResolve(p, b, v, u)
             \/ \E i \in Ids, u \in Users, to \in Decision : BeginDecide(p, i, u, to)
             \/ Scan(p) \/ Consumed(p) \/ NothingToConsume(p) \/ Voided(p)
             \/ Expired(p) \/ RequestFound(p) \/ Decided(p)
             \/ SelectRejected(p) \/ SelectPending(p)
      PROVE  UNCHANGED Lifecycle!vars
  <2>1. UNCHANGED <<rows, owner, dirty, grants>> /\ OthersSame(p)
    BY <1>1 DEF BeginResolve, BeginDecide, Scan, Consumed, NothingToConsume, Voided,
                Expired, RequestFound, Decided, SelectRejected, SelectPending, Answer,
                Log, Goto, db, record, OthersSame, TypeInv, TypeOK
  <2>2. pc[p] # "replied" /\ pc'[p] # "replied"
    BY <1>1 DEF BeginResolve, BeginDecide, Scan, Consumed, NothingToConsume, Voided,
                Expired, RequestFound, Decided, SelectRejected, SelectPending, Answer,
                Done, Goto, TypeInv, TypeOK
  <2> QED BY <2>1, <2>2, NotSeen
<1>2. ASSUME NEW p \in Procs, NEW i \in Ids, UpdateRow(p, i)
      PROVE  UNCHANGED Lifecycle!vars
  <2>1. /\ UNCHANGED <<rows, pc, grants>> /\ OthersSame(p) /\ pc[p] = "update"
        /\ owner[i] \in {None, p} /\ owner'[i] \in {None, p}
        /\ \A j \in Ids \ {i} : owner'[j] = owner[j] /\ dirty'[j] = dirty[j]
    BY <1>2 DEF UpdateRow, LockedByOther, record, OthersSame, TypeInv, TypeOK
  <2>2. \A j \in Ids : /\ owner[j] \notin {None, p} =>
                            owner'[j] = owner[j] /\ dirty'[j] = dirty[j]
                       /\ owner[j] \in {None, p} => owner'[j] \in {None, p}
    BY <2>1
  <2> QED BY <2>1, <2>2, NotSeen
<1>3. ASSUME NEW p \in Procs, Insert(p)
      PROVE  UNCHANGED Lifecycle!vars
  <2>1. PICK i \in Free : /\ owner' = [owner EXCEPT ![i] = p]
                          /\ dirty' = [dirty EXCEPT ![i] = NewRow(call[p])]
    BY <1>3 DEF Insert
  <2>2. /\ UNCHANGED <<rows, grants>> /\ OthersSame(p)
        /\ pc[p] = "insert" /\ pc'[p] = "finish"
    BY <1>3 DEF Insert, Goto, record, OthersSame, TypeInv, TypeOK
  <2>3. \A j \in Ids : /\ owner[j] \notin {None, p} =>
                            owner'[j] = owner[j] /\ dirty'[j] = dirty[j]
                       /\ owner[j] \in {None, p} => owner'[j] \in {None, p}
    BY <2>1 DEF Free, TypeInv, TypeOK
  <2> QED BY <2>2, <2>3, NotSeen
<1>4. ASSUME NEW p \in Procs, Unlock(p), UNCHANGED <<rows, grants>>, OthersSame(p),
             pc[p] # "replied", pc'[p] # "replied"
      PROVE  UNCHANGED Lifecycle!vars
  <2>1. \A j \in Ids : /\ owner[j] \notin {None, p} =>
                            owner'[j] = owner[j] /\ dirty'[j] = dirty[j]
                       /\ owner[j] \in {None, p} => owner'[j] \in {None, p}
    BY <1>4 DEF Unlock
  <2> QED BY <1>4, <2>1, NotSeen
<1>5. ASSUME NEW p \in Procs, Fail(p), pc[p] # "replied"
      PROVE  UNCHANGED Lifecycle!vars
  BY <1>4, <1>5 DEF Fail, End, Goto, OthersSame, TypeInv, TypeOK
<1>6. ASSUME NEW p \in Procs, RequestMissing(p) \/ NotPending(p) \/ DeadlockVictim(p)
      PROVE  UNCHANGED Lifecycle!vars
  <2>1. ASSUME DeadlockVictim(p) PROVE pc[p] = "update"
    BY <2>1 DEF DeadlockVictim, WaitsFor
  <2> QED BY <1>5, <1>6, <2>1 DEF RequestMissing, NotPending, Done, DeadlockVictim
<1>7. ASSUME NEW p \in Procs, InsertConflict(p)
      PROVE  UNCHANGED Lifecycle!vars
  BY <1>4, <1>7 DEF InsertConflict, Goto, record, OthersSame, TypeInv, TypeOK
<1>8. ASSUME NEW p \in Procs, Reselect(p)
      PROVE  UNCHANGED Lifecycle!vars
  <2>1. CASE \E i \in Ids : IsPending(call[p], rows[i])
    <3>1. /\ UNCHANGED <<rows, owner, dirty, grants>> /\ OthersSame(p)
          /\ pc[p] = "reselect" /\ pc'[p] = "finish"
      BY <1>8, <2>1 DEF Reselect, Answer, Goto, db, record, OthersSame, TypeInv, TypeOK
    <3> QED BY <3>1, NotSeen
  <2>2. CASE ~\E i \in Ids : IsPending(call[p], rows[i])
    BY <1>5, <1>8, <2>2 DEF Reselect
  <2> QED BY <2>1, <2>2
<1>9. ASSUME NEW p \in Procs, Commit(p), CommitFirst
      PROVE  [Lifecycle!Next]_(Lifecycle!vars)
  <2>1. /\ \A i \in Ids : owner[i] = p => rows'[i] = dirty[i] /\ owner'[i] = None
        /\ \A i \in Ids : owner[i] # p => /\ rows'[i] = rows[i]
                                          /\ owner'[i] = owner[i]
                                          /\ dirty'[i] = dirty[i]
        /\ UNCHANGED grants /\ OthersSame(p)
        /\ pc[p] = "finish" /\ pc'[p] = "committed"
    BY <1>9 DEF Commit, Unlock, View, Goto, OthersSame, TypeInv, TypeOK
  <2>2. \A i \in Ids : owner[i] = p => Visible(i)' = Seen(dirty[i])
    BY <2>1 DEF Visible, Answered, Seen
  <2>3. ASSUME NEW i \in Ids, owner[i] # p
        PROVE  Visible(i)' = Visible(i)
    <3>1. owner[i] # None => pc'[owner[i]] = pc[owner[i]]
      BY <2>1, <2>3 DEF OthersSame, TypeInv, TypeOK
    <3> QED BY <2>1, <2>3, <3>1 DEF Visible, Answered
  <2> QED BY <2>1, <2>2, <2>3, TakesEffect
<1>10. ASSUME NEW p \in Procs, Commit(p), ~CommitFirst
       PROVE  UNCHANGED Lifecycle!vars
  <2>1. /\ \A i \in Ids : owner[i] = p => rows'[i] = dirty[i] /\ owner'[i] = None
        /\ \A i \in Ids : owner[i] # p => /\ rows'[i] = rows[i]
                                          /\ owner'[i] = owner[i]
                                          /\ dirty'[i] = dirty[i]
        /\ UNCHANGED grants /\ OthersSame(p) /\ pc[p] = "replied"
    BY <1>10 DEF Commit, Unlock, View, End, Goto, OthersSame, TypeInv, TypeOK
  <2>2. ASSUME NEW i \in Ids PROVE Visible(i)' = Visible(i)
    <3>1. CASE owner[i] = p
      BY <2>1, <3>1, ApprovalsAssumption DEF Visible, Answered
    <3>2. CASE owner[i] # p
      <4>1. owner[i] # None => pc'[owner[i]] = pc[owner[i]]
        BY <2>1, <3>2 DEF OthersSame, TypeInv, TypeOK
      <4> QED BY <2>1, <3>2, <4>1 DEF Visible, Answered
    <3> QED BY <3>1, <3>2
  <2> QED BY <2>1, <2>2 DEF Lifecycle!vars
<1>11. ASSUME NEW p \in Procs, Reply(p), CommitFirst
       PROVE  [Lifecycle!Next]_(Lifecycle!vars)
  <2>1. /\ UNCHANGED <<rows, owner, dirty>> /\ OthersSame(p)
        /\ pc[p] = "committed" /\ pc'[p] = "idle"
        /\ grants' = IF out[p].mode = "consumed"
                     THEN [grants EXCEPT ![out[p].got] = @ + 1] ELSE grants
    BY <1>11 DEF Reply, End, Goto, db, OthersSame, TypeInv, TypeOK
  <2>2. \A q \in Procs : pc[q] # "replied"
    BY <1>11 DEF GrantInv, AnswerBacked
  <2>3. \A i \in Ids : Visible(i) = Seen(rows[i]) /\ Visible(i)' = Visible(i)
    <3>1. \A q \in Procs : pc'[q] # "replied"
      BY <2>1, <2>2 DEF OthersSame
    <3> QED BY <2>1, <2>2, <3>1 DEF Visible, Answered, Seen, TypeInv, TypeOK
  <2>4. CASE out[p].mode # "consumed"
    BY <2>1, <2>3, <2>4 DEF Lifecycle!vars
  <2>5. CASE out[p].mode = "consumed"
    <3>1. out[p].got \in Ids /\ Owing(p)
      BY <2>1, <2>5 DEF TypeInv, ArgumentsOK, GrantInv, AnswerBacked, Holding
    <3>2. grants[out[p].got] = 0
      BY <1>11, <3>1 DEF Owing, NoneLost, TypeInv, TypeOK
    <3>3. grants' = [grants EXCEPT ![out[p].got] = 1]
      BY <2>1, <2>5, <3>1, <3>2
    <3>4. Visible(out[p].got).state = "CONSUMED"
      BY <2>3, <3>1 DEF Owing, Seen
    <3>5. Lifecycle!Grant(out[p].got)
      BY <2>3, <3>1, <3>2, <3>3, <3>4 DEF Lifecycle!Grant
    <3> QED BY <3>1, <3>5 DEF Lifecycle!Next
  <2> QED BY <2>4, <2>5
<1>12. ASSUME NEW p \in Procs, Reply(p), ~CommitFirst
       PROVE  [Lifecycle!Next]_(Lifecycle!vars)
  <2>1. /\ UNCHANGED <<rows, owner, dirty>> /\ OthersSame(p)
        /\ pc[p] = "finish" /\ pc'[p] = "replied"
        /\ \/ UNCHANGED grants
           \/ /\ out[p].mode = "consumed"
              /\ grants' = [grants EXCEPT ![out[p].got] = @ + 1]
    BY <1>12 DEF Reply, Goto, db, OthersSame, TypeInv, TypeOK
  <2>2. \A i \in Ids : owner[i] = p => Visible(i)' = Seen(dirty[i])
    BY <2>1, ApprovalsAssumption DEF Visible, Answered, Seen
  <2>3. ASSUME NEW i \in Ids, owner[i] # p
        PROVE  Visible(i)' = Visible(i)
    <3>1. owner[i] # None => pc'[owner[i]] = pc[owner[i]]
      BY <2>1, <2>3 DEF OthersSame, TypeInv, TypeOK
    <3> QED BY <2>1, <2>3, <3>1 DEF Visible, Answered
  <2> QED BY <2>1, <2>2, <2>3, TakesEffect
<1>13. ASSUME NEW p \in Procs, Crash(p)
       PROVE  UNCHANGED Lifecycle!vars
  <2>1. CommitFirst
    BY <1>13, ApprovalsAssumption DEF Lossless, Crash, TypeInv, TypeOK
  <2>2. pc[p] # "replied"
    BY <2>1 DEF GrantInv, AnswerBacked
  <2> QED BY <1>4, <1>13, <2>2 DEF Crash, End, Goto, OthersSame, TypeInv, TypeOK
<1>14. CASE Tick \/ UNCHANGED vars
  <2>1. UNCHANGED <<rows, owner, dirty, pc, grants>>
    BY <1>14 DEF Tick, vars, db, request, record
  <2> QED BY <2>1 DEF Lifecycle!vars, Visible, Answered
<1> QED
  BY <1>1, <1>2, <1>3, <1>6, <1>7, <1>8, <1>9, <1>10, <1>11, <1>12, <1>13, <1>14
     DEF Next, Run

(* The transactions implement the lifecycle: whatever statements of other   *)
(* calls run in between, each call takes effect as one of its steps.  Where *)
(* the response leaves first this needs that no transaction is lost.        *)
THEOREM LifecycleImplemented == Lossless /\ Spec => ImplementsLifecycle
<1> SUFFICES ASSUME Lossless PROVE Spec => ImplementsLifecycle
  OBVIOUS
<1>1. Init => Lifecycle!Init
  BY ApprovalsAssumption
     DEF Init, NoRow, Lifecycle!Init, Lifecycle!Nothing, Visible, Answered
<1>2. Init => AllInv
  BY InitTypeInv, InitIndexInv, InitGrantInv, InitContextInv, InitEvidenceInv,
     InitWriteInv DEF AllInv, Init, NoneLost
<1>3. AllInv /\ [Next]_vars => AllInv'
  BY TypeStep, IndexStep, GrantStep, ContextStep, EvidenceStep, WriteStep, LostStep
     DEF AllInv
<1>4. AllInv /\ [Next]_vars => [Lifecycle!Next]_(Lifecycle!vars)
  BY LifecycleStep
<1> QED BY <1>1, <1>2, <1>3, <1>4, PTL DEF Spec, ImplementsLifecycle, Lifecycle!Spec
=============================================================================
