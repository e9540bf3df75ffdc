----------------------------- MODULE Approvals -----------------------------
(***************************************************************************)
(* The approval service of the control plane: routers/approvals.py of the  *)
(* API, executed as PostgreSQL transactions at READ COMMITTED.             *)
(*                                                                         *)
(* A resolve call runs up to six statements and a decision call runs one;  *)
(* other calls run between any two of them.  The database is modelled by   *)
(* what the statements rely on:                                            *)
(*   - a statement sees the rows committed when it starts, and the         *)
(*     transaction's own writes;                                           *)
(*   - an UPDATE locks the rows it changes until its transaction ends; on  *)
(*     a row locked by another it waits and then tests its WHERE clause    *)
(*     again on the row's new version;                                     *)
(*   - now() is the instant the transaction started;                       *)
(*   - the partial unique index admits one PENDING row per binding, and an *)
(*     INSERT that meets an undecided entry waits for it.                  *)
(*                                                                         *)
(* A binding stands for the triple (org, canonical hash, session).  A      *)
(* definition named Mut... is a faulty variant of the one it precedes: it  *)
(* is part of no specification, and shows that a property notices.         *)
(***************************************************************************)
EXTENDS Naturals, FiniteSets

CONSTANTS
    Procs,        \* API requests in flight at once
    Ids,          \* approval rows; a bound on how many are ever created
    Bindings,     \* (org_id, canonical_hash, session_id)
    Versions,     \* policy versions a resolve call can carry
    Users,
    Requesters,   \* acting users of the resolve calls; None when not given
    Approvers,    \* policy version -> users holding the rule's approver role
    None,
    TTL,          \* approval_ttl_seconds, in clock ticks
    MaxTime,      \* bound on the clock
    MaxCrashes,   \* bound on lost transactions
    CommitFirst   \* TRUE: get_db commits before the response leaves;
                  \* FALSE: after (exit code of a yield dependency)

ASSUME ApprovalsAssumption ==
    /\ None \notin Procs \cup Ids \cup Bindings \cup Versions \cup Users
    /\ Requesters \subseteq Users \cup {None}
    /\ Approvers \in [Versions -> SUBSET Users]
    /\ TTL \in Nat \ {0}
    /\ MaxTime \in Nat
    /\ MaxCrashes \in Nat
    /\ CommitFirst \in BOOLEAN
    /\ IsFiniteSet(Ids) /\ IsFiniteSet(Procs)

VARIABLES
    rows,    \* committed approvals
    owner,   \* the transaction that holds the row's lock, or None
    dirty,   \* the locked row as its owner sees it
    pc,      \* where each request is
    call,    \* its arguments, and its transaction's now()
    upd,     \* its UPDATE statement
    out,     \* the events it will commit, and its answer
    logged,  \* states of the approval with an event on the timeline
    grants,  \* how often a caller was told "consumed" for the approval
    lost,    \* ... by a transaction that never committed
    now,     \* the clock
    crashes

db == <<rows, owner, dirty>>
request == <<pc, call, upd, out>>
record == <<logged, grants, lost>>
vars == <<rows, owner, dirty, pc, call, upd, out, logged, grants, lost, now,
          crashes>>

ApprovalState ==
    {"PENDING", "APPROVED", "REJECTED", "CONSUMED", "VOIDED", "EXPIRED"}

NoRow == [state |-> "NONE", binding |-> None, version |-> None, expires |-> 0,
          requester |-> None, decidedBy |-> None]

Row == [state: ApprovalState, binding: Bindings, version: Versions,
        expires: Nat, requester: Users \cup {None},
        decidedBy: Users \cup {None}]

Decision == {"APPROVED", "REJECTED"}

(* A resolve call carries a binding, a policy version and an acting user, a *)
(* decision an approval and the user who decides.                           *)
Call == [binding: Bindings \cup {None}, version: Versions \cup {None},
         user: Users \cup {None}, id: Ids \cup {None}, start: Nat]

NoCall == [binding |-> None, version |-> None, user |-> None, id |-> None,
           start |-> 0]

(* An UPDATE: the state it sets rows to (the SET clause tells the four      *)
(* statements apart), the candidates it has still to visit, the rows it has *)
(* changed.                                                                 *)
Update == [to: ApprovalState \cup {"NONE"}, todo: SUBSET Ids, hits: SUBSET Ids]

Start(to) == [to |-> to, todo |-> {}, hits |-> {}]

NoUpdate == Start("NONE")

Out == [events: SUBSET (Ids \X ApprovalState), got: Ids \cup {None},
        mode: {"consumed", "rejected", "pending", "decided", "none"}]

NoOut == [events |-> {}, got |-> None, mode |-> "none"]

PC == {"idle", "scan", "update", "rejected", "pending", "lookup", "insert",
       "reselect", "finish", "committed", "replied"}

TypeOK ==
    /\ rows \in [Ids -> Row \cup {NoRow}]
    /\ owner \in [Ids -> Procs \cup {None}]
    /\ dirty \in [Ids -> Row \cup {NoRow}]
    /\ pc \in [Procs -> PC]
    /\ call \in [Procs -> Call]
    /\ upd \in [Procs -> Update]
    /\ out \in [Procs -> Out]
    /\ logged \in [Ids -> SUBSET ApprovalState]
    /\ grants \in [Ids -> Nat]
    /\ lost \in [Ids -> Nat]
    /\ now \in 0..MaxTime
    /\ crashes \in 0..MaxCrashes

Init ==
    /\ rows = [i \in Ids |-> NoRow]
    /\ owner = [i \in Ids |-> None]
    /\ dirty = [i \in Ids |-> NoRow]
    /\ pc = [p \in Procs |-> "idle"]
    /\ call = [p \in Procs |-> NoCall]
    /\ upd = [p \in Procs |-> NoUpdate]
    /\ out = [p \in Procs |-> NoOut]
    /\ logged = [i \in Ids |-> {}]
    /\ grants = [i \in Ids |-> 0]
    /\ lost = [i \in Ids |-> 0]
    /\ now = 0
    /\ crashes = 0

-----------------------------------------------------------------------------
(* What a statement of p sees of a row, and which rows it may not touch.    *)

View(p, i) == IF owner[i] = p THEN dirty[i] ELSE rows[i]

LockedByOther(p, i) == owner[i] \notin {p, None}

(* The policy version the call is decided under is the one the approver saw. *)
SameContext(c, r) == r.version = c.version

MutUsable(c, r) == r.expires > c.start

(* The approval is given, neither used nor expired.                         *)
Usable(c, r) == r.state = "APPROVED" /\ r.expires > c.start

(* The WHERE clause of the UPDATE that sets rows to state to, for call c,   *)
(* on one version r of row i.                                               *)
Matches(c, to, i, r) ==
    \/ /\ to = "CONSUMED"
       /\ r.binding = c.binding
       /\ Usable(c, r)
       /\ SameContext(c, r)
    \/ /\ to = "VOIDED"
       /\ r.binding = c.binding
       /\ Usable(c, r)
       /\ ~SameContext(c, r)
    \/ /\ to = "EXPIRED"
       /\ r.binding = c.binding
       /\ r.state \in {"PENDING", "APPROVED"}
       /\ r.expires <= c.start
    \/ /\ to \in Decision
       /\ i = c.id
       /\ r.state = "PENDING"
       /\ r.expires > c.start

MutUpdated(c, to, r) == [r EXCEPT !.state = to]

(* Its SET clause.                                                          *)
Updated(c, to, r) ==
    [r EXCEPT !.state = to,
              !.decidedBy = IF to \in Decision THEN c.user ELSE @]

MutPendingEntries(p, b) ==
    {i \in Ids : rows[i].state = "PENDING" /\ rows[i].binding = b}

(* Entries of the partial unique index that an INSERT by p runs into: a     *)
(* PENDING row another transaction committed, or is writing.                *)
PendingEntries(p, b) ==
    {i \in Ids : \/ /\ owner[i] # p
                    /\ rows[i].state = "PENDING" /\ rows[i].binding = b
                 \/ /\ LockedByOther(p, i)
                    /\ dirty[i].state = "PENDING" /\ dirty[i].binding = b}

Free == {i \in Ids : rows[i] = NoRow /\ owner[i] = None}

Inserting == {p \in Procs : pc[p] = "insert"}

Goto(p, l) == pc' = [pc EXCEPT ![p] = l]

(* p gives its locks back; what it wrote is gone.                           *)
Unlock(p) ==
    /\ owner' = [i \in Ids |-> IF owner[i] = p THEN None ELSE owner[i]]
    /\ dirty' = [i \in Ids |-> IF owner[i] = p THEN NoRow ELSE dirty[i]]

(* The call of p is over.                                                   *)
End(p) ==
    /\ Goto(p, "idle")
    /\ call' = [call EXCEPT ![p] = NoCall]
    /\ upd' = [upd EXCEPT ![p] = NoUpdate]
    /\ out' = [out EXCEPT ![p] = NoOut]

MutFail(p) == End(p) /\ UNCHANGED <<db, record, now>>

(* The handler raises: get_db rolls back and the caller gets an error.      *)
Fail(p) == Unlock(p) /\ End(p) /\ UNCHANGED <<rows, logged, grants, lost, now>>

-----------------------------------------------------------------------------
(* POST /v1/approvals/resolve *)

BeginResolve(p, b, v, u) ==
    /\ pc[p] = "idle"
    /\ Goto(p, "scan")
    /\ call' = [call EXCEPT ![p] = [binding |-> b, version |-> v, user |-> u,
                                    id |-> None, start |-> now]]
    /\ upd' = [upd EXCEPT ![p] = Start("CONSUMED")]
    /\ UNCHANGED <<db, out, record, now, crashes>>

MutMayDecide(u, r) == u \in Approvers[r.version]

(* POST /v1/approvals/{id}/approve and /reject, and the review page's form: *)
(* the row must be committed; its role and requester never change.          *)
MayDecide(u, r) ==
    /\ u \in Approvers[r.version]
    /\ r.requester = None \/ u # r.requester

BeginDecide(p, i, u, to) ==
    /\ pc[p] = "idle"
    /\ rows[i] # NoRow
    /\ MayDecide(u, rows[i])
    /\ Goto(p, "scan")
    /\ call' = [call EXCEPT ![p] = [binding |-> None, version |-> None,
                                    user |-> u, id |-> i, start |-> now]]
    /\ upd' = [upd EXCEPT ![p] = Start(to)]
    /\ UNCHANGED <<db, out, record, now, crashes>>

(* An UPDATE finds its candidates in the statement's snapshot ...           *)
Scan(p) ==
    /\ pc[p] = "scan"
    /\ Goto(p, "update")
    /\ upd' = [upd EXCEPT ![p].todo =
                 {i \in Ids : Matches(call[p], upd[p].to, i, View(p, i))}]
    /\ UNCHANGED <<db, call, out, record, now, crashes>>

(* ... and visits each: it waits for the lock, tests the WHERE clause again *)
(* on the version it then sees, and writes.                                 *)
UpdateRow(p, i) ==
    /\ pc[p] = "update"
    /\ i \in upd[p].todo
    /\ ~LockedByOther(p, i)
    /\ LET r == View(p, i)
           hit == Matches(call[p], upd[p].to, i, r)
       IN  /\ upd' = [upd EXCEPT ![p] =
                 [to |-> upd[p].to, todo |-> upd[p].todo \ {i},
                  hits |-> IF hit THEN upd[p].hits \cup {i} ELSE upd[p].hits]]
           /\ IF hit
              THEN /\ owner' = [owner EXCEPT ![i] = p]
                   /\ dirty' = [dirty EXCEPT ![i] = Updated(call[p], upd[p].to, r)]
              ELSE UNCHANGED <<owner, dirty>>
    /\ UNCHANGED <<rows, pc, call, out, record, now, crashes>>

(* The UPDATE to one of these states has visited all its candidates.        *)
Done(p, states) == pc[p] = "update" /\ upd[p].to \in states /\ upd[p].todo = {}

(* .first() takes one of the rows the UPDATE returned; only that one gets   *)
(* an event and is reported, the others are CONSUMED just the same.         *)
Consumed(p) ==
    /\ Done(p, {"CONSUMED"})
    /\ \E g \in upd[p].hits :
         out' = [out EXCEPT ![p] = [events |-> {<<g, "CONSUMED">>}, got |-> g,
                                    mode |-> "consumed"]]
    /\ Goto(p, "finish")
    /\ upd' = [upd EXCEPT ![p] = NoUpdate]
    /\ UNCHANGED <<db, call, record, now, crashes>>

NothingToConsume(p) ==
    /\ Done(p, {"CONSUMED"})
    /\ upd[p].hits = {}
    /\ Goto(p, "scan")
    /\ upd' = [upd EXCEPT ![p] = Start("VOIDED")]
    /\ UNCHANGED <<db, call, out, record, now, crashes>>

MutLog(p, S, s) == UNCHANGED out

(* The events of the rows in S, which the call put in state s.              *)
Log(p, S, s) == out' = [out EXCEPT ![p].events = @ \cup (S \X {s})]

Voided(p) ==
    /\ Done(p, {"VOIDED"})
    /\ \/ upd[p].hits = {} /\ UNCHANGED out
       \/ \E g \in upd[p].hits : Log(p, {g}, "VOIDED")
    /\ Goto(p, "scan")
    /\ upd' = [upd EXCEPT ![p] = Start("EXPIRED")]
    /\ UNCHANGED <<db, call, record, now, crashes>>

Expired(p) ==
    /\ Done(p, {"EXPIRED"})
    /\ Log(p, upd[p].hits, "EXPIRED")
    /\ Goto(p, "rejected")
    /\ upd' = [upd EXCEPT ![p] = NoUpdate]
    /\ UNCHANGED <<db, call, record, now, crashes>>

Answer(p, mode) == Goto(p, "finish") /\ out' = [out EXCEPT ![p].mode = mode]

LiveRejection(c, r) ==
    r.binding = c.binding /\ r.state = "REJECTED" /\ r.expires > c.start

SelectRejected(p) ==
    /\ pc[p] = "rejected"
    /\ IF \E i \in Ids : LiveRejection(call[p], View(p, i))
       THEN Answer(p, "rejected")
       ELSE Goto(p, "pending") /\ UNCHANGED out
    /\ UNCHANGED <<db, call, upd, record, now, crashes>>

IsPending(c, r) == r.binding = c.binding /\ r.state = "PENDING"

SelectPending(p) ==
    /\ pc[p] = "pending"
    /\ IF \E i \in Ids : IsPending(call[p], View(p, i))
       THEN Answer(p, "pending")
       ELSE Goto(p, "lookup") /\ UNCHANGED out
    /\ UNCHANGED <<db, call, upd, record, now, crashes>>

(* _create_pending looks for the recorded request.  Ids bounds the rows     *)
(* that are ever created: past it the request counts as not recorded.       *)
RequestFound(p) ==
    /\ pc[p] = "lookup"
    /\ Cardinality(Free) > Cardinality(Inserting)
    /\ Goto(p, "insert")
    /\ UNCHANGED <<db, call, upd, out, record, now, crashes>>

RequestMissing(p) == pc[p] = "lookup" /\ Fail(p) /\ UNCHANGED crashes

MutNewRow(c) == [state |-> "PENDING", binding |-> c.binding, version |-> c.version,
              expires |-> now - TTL, requester |-> c.user, decidedBy |-> None]

NewRow(c) == [state |-> "PENDING", binding |-> c.binding, version |-> c.version,
              expires |-> now + TTL, requester |-> c.user, decidedBy |-> None]

Insert(p) ==
    /\ pc[p] = "insert"
    /\ PendingEntries(p, call[p].binding) = {}
    /\ \E i \in Free :
         /\ owner' = [owner EXCEPT ![i] = p]
         /\ dirty' = [dirty EXCEPT ![i] = NewRow(call[p])]
         /\ out' = [out EXCEPT ![p] = [events |-> out[p].events \cup {<<i, "PENDING">>},
                                       got |-> None, mode |-> "pending"]]
    /\ Goto(p, "finish")
    /\ UNCHANGED <<rows, call, upd, record, now, crashes>>

(* IntegrityError: db.rollback() undoes the whole transaction, with the     *)
(* rows it voided and expired, and a new one looks for the other's row.     *)
InsertConflict(p) ==
    /\ pc[p] = "insert"
    /\ \E i \in PendingEntries(p, call[p].binding) : owner[i] = None
    /\ Unlock(p)
    /\ Goto(p, "reselect")
    /\ out' = [out EXCEPT ![p] = NoOut]
    /\ UNCHANGED <<rows, call, upd, record, now, crashes>>

Reselect(p) ==
    /\ pc[p] = "reselect"
    /\ IF \E i \in Ids : IsPending(call[p], rows[i])
       THEN Answer(p, "pending") /\ UNCHANGED <<db, call, upd, record, now>>
       ELSE Fail(p)
    /\ UNCHANGED crashes

-----------------------------------------------------------------------------
(* decide_approval after its compare-and-set *)

Decided(p) ==
    /\ Done(p, Decision)
    /\ upd[p].hits # {}
    /\ Goto(p, "finish")
    /\ out' = [out EXCEPT ![p] = [events |-> {<<call[p].id, upd[p].to>>},
                                  got |-> None, mode |-> "decided"]]
    /\ upd' = [upd EXCEPT ![p] = NoUpdate]
    /\ UNCHANGED <<db, call, record, now, crashes>>

NotPending(p) ==
    /\ Done(p, Decision)
    /\ upd[p].hits = {}
    /\ Fail(p)
    /\ UNCHANGED crashes

-----------------------------------------------------------------------------
(* get_db: the commit, and the response on either side of it *)

Commit(p) ==
    /\ pc[p] = IF CommitFirst THEN "finish" ELSE "replied"
    /\ rows' = [i \in Ids |-> View(p, i)]
    /\ Unlock(p)
    /\ logged' = [i \in Ids |-> logged[i] \cup
                      {s \in ApprovalState : <<i, s>> \in out[p].events}]
    /\ IF CommitFirst THEN Goto(p, "committed") /\ UNCHANGED <<call, upd, out>>
                      ELSE End(p)
    /\ UNCHANGED <<grants, lost, now, crashes>>

Reply(p) ==
    /\ pc[p] = IF CommitFirst THEN "committed" ELSE "finish"
    /\ grants' = IF out[p].mode = "consumed"
                 THEN [grants EXCEPT ![out[p].got] = @ + 1] ELSE grants
    /\ IF CommitFirst THEN End(p)
                      ELSE Goto(p, "replied") /\ UNCHANGED <<call, upd, out>>
    /\ UNCHANGED <<db, logged, lost, now, crashes>>

(* The API process or its connection dies: the transaction rolls back.  One *)
(* that had already answered "consumed" leaves a grant nothing backs.       *)
Crash(p) ==
    /\ pc[p] # "idle"
    /\ crashes < MaxCrashes
    /\ crashes' = crashes + 1
    /\ Unlock(p)
    /\ End(p)
    /\ lost' = IF pc[p] = "replied" /\ out[p].mode = "consumed"
               THEN [lost EXCEPT ![out[p].got] = @ + 1] ELSE lost
    /\ UNCHANGED <<rows, logged, grants, now>>

(* PostgreSQL's deadlock detector fails one of the transactions that wait   *)
(* for each other's rows.                                                   *)
WaitsFor(p, q) ==
    /\ pc[p] = "update"
    /\ upd[p].todo # {}
    /\ \A i \in upd[p].todo : LockedByOther(p, i)
    /\ \E i \in upd[p].todo : owner[i] = q

DeadlockVictim(p) ==
    /\ \E S \in SUBSET Procs :
         p \in S /\ \A q \in S : \E r \in S \ {q} : WaitsFor(q, r)
    /\ Fail(p)
    /\ UNCHANGED crashes

Tick ==
    /\ now < MaxTime
    /\ now' = now + 1
    /\ UNCHANGED <<db, request, record, crashes>>

-----------------------------------------------------------------------------
(* What a request does by itself once it has begun. *)
Run(p) ==
    \/ Scan(p) \/ \E i \in Ids : UpdateRow(p, i)
    \/ Consumed(p) \/ NothingToConsume(p) \/ Voided(p) \/ Expired(p)
    \/ SelectRejected(p) \/ SelectPending(p)
    \/ RequestFound(p) \/ RequestMissing(p)
    \/ Insert(p) \/ InsertConflict(p) \/ Reselect(p)
    \/ Decided(p) \/ NotPending(p)
    \/ Commit(p) \/ Reply(p)
    \/ DeadlockVictim(p)

Next ==
    \/ \E p \in Procs :
         \/ \E b \in Bindings, v \in Versions, u \in Requesters :
              BeginResolve(p, b, v, u)
         \/ \E i \in Ids, u \in Users, to \in Decision : BeginDecide(p, i, u, to)
         \/ Run(p)
         \/ Crash(p)
    \/ Tick

Spec == Init /\ [][Next]_vars

(* A request keeps running, and PostgreSQL serves those that wait for a row *)
(* or for another's insertion in turn: none is passed over for ever.        *)
(* Crashes, the clock and new calls are not owed.                           *)
Fairness == \A p \in Procs : SF_vars(Run(p))

FairSpec == Spec /\ Fairness

-----------------------------------------------------------------------------
(* Properties *)

(* At most one approval per (org, hash, session) is waiting for a human,    *)
(* whatever resolve calls race (the partial unique index, _create_pending). *)
AtMostOnePending ==
    \A i, j \in Ids :
        /\ rows[i].state = "PENDING" /\ rows[j].state = "PENDING"
        /\ rows[i].binding = rows[j].binding
        => i = j

(* Single use: a caller is told "consumed" for an approval at most once,    *)
(* but for the answers whose transaction was lost after it was sent.        *)
SingleUse == \A i \in Ids : grants[i] <= 1 + lost[i]

(* The "consumed" answer is about an approval a human of the rule's role,   *)
(* not the one who requested it, gave to this very hash and session under   *)
(* this very policy version, and that had not expired when the call began.  *)
ConsumedInContext ==
    \A p \in Procs :
        out[p].mode = "consumed" =>
            LET r == IF pc[p] = "committed" THEN rows[out[p].got]
                                            ELSE dirty[out[p].got]
            IN  /\ r.state = "CONSUMED"
                /\ r.binding = call[p].binding
                /\ r.version = call[p].version
                /\ r.expires > call[p].start
                /\ r.decidedBy \in Approvers[r.version] \ {r.requester}

(* Evidence: a request, a decision and an expiry are on the timeline as     *)
(* soon as they are visible, and so is every consumption someone was told   *)
(* of; nothing is on the timeline of an approval that does not exist.  Of a *)
(* voided row, or a consumed one that was not answered, it says nothing: an *)
(* UPDATE that takes several rows logs one.                                 *)
EvidenceKept ==
    \A i \in Ids :
        /\ rows[i].state \in {"PENDING", "APPROVED", "REJECTED", "EXPIRED"} =>
             rows[i].state \in logged[i]
        /\ grants[i] > lost[i] =>
             \/ "CONSUMED" \in logged[i]
             \/ owner[i] # None /\ pc[owner[i]] = "replied"
        /\ rows[i].state = "NONE" => logged[i] = {}

(* Every call is answered: waits end, deadlocks are broken.                 *)
EveryCallReturns == \A p \in Procs : pc[p] # "idle" ~> pc[p] = "idle"

(* models.py: exactly one transition APPROVED -> CONSUMED, so one "consumed"*)
(* answer, whatever happens to the process that gave it.                    *)
ConsumedOnce == \A i \in Ids : grants[i] <= 1

(* approvals.py: a live rejection is a human's "no", it holds until it      *)
(* expires.  So a consuming UPDATE that starts while one is committed for   *)
(* its binding finds nothing to consume.                                    *)
RejectionHolds ==
    [][\A p \in Procs :
         /\ pc[p] = "scan" /\ upd[p].to = "CONSUMED"
         /\ \E i \in Ids : LiveRejection(call[p], rows[i])
         /\ pc'[p] = "update"
         => upd'[p].todo = {}]_vars
=============================================================================
