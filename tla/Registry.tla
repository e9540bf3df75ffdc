------------------------------ MODULE Registry -----------------------------
(***************************************************************************)
(* The registry of the control plane: create_organization, create_user,    *)
(* register_tool, register_agent, add_version, revoke_agent,               *)
(* create_session and issue_dev_token, as PostgreSQL transactions at READ  *)
(* COMMITTED.                                                              *)
(*                                                                         *)
(* The handlers share one shape: read what the new row refers to, look for *)
(* a row with the same unique key, insert.  The look is no lock: it is the *)
(* unique constraint that decides a race, by making the second insertion   *)
(* wait and then fail.  A thing is named by its unique key, so that two    *)
(* rows for one thing are what the constraint excludes; a session has an   *)
(* id of its own.  get_db commits before or after the answer leaves, and a *)
(* call may die on the way; both orders are modelled.                      *)
(***************************************************************************)
EXTENDS Redaction

CONSTANTS
    Procs,       \* concurrent API calls
    Things,      \* organizations, users, tools, agents, versions, sessions
    Sessions,
    Refers,      \* thing -> the things its row refers to
    Inserts,     \* thing -> the rows its handler inserts, in this order
    AgentOf,     \* version or session -> its agent
    Agents, Tools,
    Contents,    \* thing -> what its row may hold; a tool's: its sensitive_fields
    Documents,   \* arguments a tool may be called with
    None

AllContents == UNION {Contents[x] : x \in Things}

ASSUME RegistryAssumption ==
    /\ Sessions \cup Agents \cup Tools \subseteq Things
    /\ None \notin Things \cup AllContents
    /\ Refers \in [Things -> SUBSET Things]
    /\ Inserts \in [Things -> Seq(Things)]
    /\ \A x \in Things : Inserts[x] # <<>> /\ Inserts[x][1] = x
    /\ \A x \in Things : Contents[x] # {}
    /\ AgentOf \in [Things -> Agents \cup {None}]
    /\ \A s \in Sessions : AgentOf[s] # None /\ Inserts[s] = <<s>>
    /\ \A t \in Tools : Contents[t] \subseteq Seq(Seq(STRING))
    /\ \A doc \in Documents : IsDocument(doc)

VARIABLES
    rows,      \* thing -> what its committed row holds
    revoked,   \* agents whose committed revoked_at is set
    pc, call,
    own        \* call -> the rows its open transaction wrote, and so locks

database == <<rows, revoked>>
vars == <<database, pc, call, own>>

Op == {"none", "create", "revoke", "token"}

(* late: the agent was already revoked when the call began.                 *)
NoCall == [op |-> "none", on |-> None, with |-> None, late |-> FALSE]

TypeOK ==
    /\ \A x \in Things : rows[x] \in Contents[x] \cup {None}
    /\ revoked \subseteq Agents
    /\ pc \in [Procs -> {"idle", "check", "write", "finish", "committed", "replied"}]
    /\ call \in [Procs -> [op: Op, on: Things \cup {None},
                           with: AllContents \cup {None}, late: BOOLEAN]]
    /\ own \in [Procs -> SUBSET Things]

Init ==
    /\ rows = [x \in Things |-> None]
    /\ revoked = {}
    /\ pc = [p \in Procs |-> "idle"]
    /\ call = [p \in Procs |-> NoCall]
    /\ own = [p \in Procs |-> {}]

-----------------------------------------------------------------------------
Goto(p, l) == pc' = [pc EXCEPT ![p] = l]

(* The transaction is over, and the caller has its answer or nobody has.    *)
End(p) ==
    /\ Goto(p, "idle")
    /\ call' = [call EXCEPT ![p] = NoCall]
    /\ own' = [own EXCEPT ![p] = {}]

Exists(x) == rows[x] # None

Begin(p, op, x, c) ==
    /\ pc[p] = "idle"
    /\ Goto(p, "check")
    /\ call' = [call EXCEPT ![p] = [op |-> op, on |-> x, with |-> c,
                                    late |-> AgentOf[x] \in revoked]]
    /\ UNCHANGED <<database, own>>

BeginCreate(p, x, c) ==
    /\ x \in Sessions => ~Exists(x) /\ \A q \in Procs : call[q].on # x
    /\ Begin(p, "create", x, c)

BeginRevoke(p, a) == Begin(p, "revoke", a, None)

BeginToken(p, s) == Begin(p, "token", s, None)

(* db.get of every row the handler refers to; a missing one is a 404.       *)
Needs(c) == IF c.op = "create" THEN Refers[c.on] ELSE {c.on}

MutRefusesRevoked(c) == c.on \in Sessions /\ c.op = "create"

(* A session and a token are for an agent that is not revoked (403).        *)
RefusesRevoked(c) == c.on \in Sessions

Duplicate(c) == c.op = "create" /\ Exists(c.on)

(* The reads of one handler are one step: rows are never deleted and a     *)
(* revocation is never undone, so a later read only refuses more, and what *)
(* they all let pass was so at the instant of the read that came first.    *)
Refused(c) ==
    \/ \E x \in Needs(c) : ~Exists(x)
    \/ RefusesRevoked(c) /\ AgentOf[c.on] \in revoked
    \/ Duplicate(c)

(* 404, 403 and 409: an HTTPException rolls the transaction back.           *)
Refuse(p) ==
    /\ pc[p] = "check"
    /\ Refused(call[p])
    /\ End(p)
    /\ UNCHANGED database

(* A token is signed, not stored, and an agent is revoked once.             *)
NothingToWrite(c) ==
    \/ c.op = "token"
    \/ c.op = "revoke" /\ c.on \in revoked

Check(p) ==
    /\ pc[p] = "check"
    /\ ~Refused(call[p])
    /\ Goto(p, IF NothingToWrite(call[p]) THEN "finish" ELSE "write")
    /\ UNCHANGED <<database, call, own>>

Locked(p, x) == \E q \in Procs \ {p} : x \in own[q]

(* The row the flush writes next; the others of the call are written.       *)
NextRow(p) ==
    LET todo == Inserts[call[p].on]
    IN  todo[CHOOSE i \in DOMAIN todo :
               todo[i] \notin own[p] /\ \A j \in 1..(i - 1) : todo[j] \in own[p]]

MutCollides(x) == FALSE

(* The unique constraint, met by what is committed; an insertion that meets *)
(* an uncommitted one waits for it.                                         *)
Collides(x) == Exists(x)

Written(p, x) ==
    /\ own' = [own EXCEPT ![p] = @ \cup {x}]
    /\ Goto(p, IF call[p].op = "revoke" \/ ToSet(Inserts[call[p].on]) \subseteq own[p] \cup {x}
               THEN "finish" ELSE "write")
    /\ UNCHANGED <<database, call>>

Insert(p) ==
    /\ pc[p] = "write" /\ call[p].op = "create"
    /\ LET x == NextRow(p) IN ~Locked(p, x) /\ ~Collides(x) /\ Written(p, x)

(* IntegrityError: nothing catches it, and the caller is answered 500.      *)
InsertFails(p) ==
    /\ pc[p] = "write" /\ call[p].op = "create"
    /\ LET x == NextRow(p) IN ~Locked(p, x) /\ Collides(x)
    /\ End(p)
    /\ UNCHANGED database

(* UPDATE agents SET revoked_at: it waits for another one, and then writes  *)
(* over it, for it was read as null before.                                 *)
Update(p) ==
    /\ pc[p] = "write" /\ call[p].op = "revoke"
    /\ ~Locked(p, call[p].on)
    /\ Written(p, call[p].on)

-----------------------------------------------------------------------------
MutRow(p, x) == call[p].with

(* What an inserted row holds: of an agent's first version one possible     *)
(* manifest is enough.                                                      *)
Row(p, x) == IF x = call[p].on THEN call[p].with ELSE CHOOSE c \in Contents[x] : TRUE

Commit(p) ==
    /\ pc[p] \in {"finish", "replied"}
    /\ IF call[p].op = "revoke"
       THEN revoked' = revoked \cup own[p] /\ UNCHANGED rows
       ELSE /\ rows' = [x \in Things |-> IF x \in own[p] THEN Row(p, x) ELSE rows[x]]
            /\ UNCHANGED revoked
    /\ IF pc[p] = "replied" THEN End(p)
       ELSE /\ Goto(p, "committed")
            /\ own' = [own EXCEPT ![p] = {}]
            /\ UNCHANGED call

Reply(p) ==
    /\ pc[p] \in {"finish", "committed"}
    /\ IF pc[p] = "committed" THEN End(p)
                              ELSE Goto(p, "replied") /\ UNCHANGED <<call, own>>
    /\ UNCHANGED database

(* The API process or its connection dies: what is not committed is undone. *)
Crash(p) ==
    /\ pc[p] # "idle"
    /\ End(p)
    /\ UNCHANGED database

Next ==
    \E p \in Procs :
        \/ \E x \in Things : \E c \in Contents[x] : BeginCreate(p, x, c)
        \/ \E a \in Agents : BeginRevoke(p, a)
        \/ \E s \in Sessions : BeginToken(p, s)
        \/ Refuse(p) \/ Check(p)
        \/ Insert(p) \/ InsertFails(p) \/ Update(p)
        \/ Commit(p) \/ Reply(p)
        \/ Crash(p)

Spec == Init /\ [][Next]_vars

-----------------------------------------------------------------------------
(* Properties *)

(* Whoever is answered 201 owns the name: its commit replaces nothing, no   *)
(* other open transaction has the same row, and afterwards it is its        *)
(* manifest, schema or list of sensitive fields that is in force.           *)
OneOwner ==
    \A p \in Procs : call[p].op = "create" =>
        /\ pc[p] \in {"finish", "replied"} =>
             \A x \in own[p] : ~Exists(x) /\ ~Locked(p, x)
        /\ pc[p] = "committed" => rows[call[p].on] = call[p].with

(* The kill switch in the registry: no call that began after the revocation *)
(* was committed gets a session or a token, one for a session that was      *)
(* opened before included.                                                  *)
RevokedGetNothing ==
    \A p \in Procs :
        call[p].late /\ call[p].on \in Sessions =>
            pc[p] \notin {"write", "finish", "committed", "replied"}

(* Whatever a tool was registered with, the previews of its calls are honest*)
(* as far as dictionaries lead; see Redaction for what lies within lists.   *)
PreviewsAreHonest ==
    \A t \in Tools : Exists(t) => \A doc \in Documents : Honest(doc, rows[t])
=============================================================================
