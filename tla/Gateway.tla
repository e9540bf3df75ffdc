------------------------------ MODULE Gateway ------------------------------
(***************************************************************************)
(* The action path of the gateway: submit_action of main.py, from the      *)
(* envelope to the tool call, with the control plane it calls.             *)
(*                                                                         *)
(* An attempt is one POST /v1/actions, in any gateway process; an agent    *)
(* retries by making another attempt with the same request.  Attempts run  *)
(* concurrently and interleave at every await, which is where a call to    *)
(* the control plane is made.  Of each call                                *)
(*   - the reply arrives, or                                               *)
(*   - the control plane refuses (a status of 400 or more, raised as       *)
(*     ControlPlaneError), having done nothing, or                         *)
(*   - httpx raises (no connection, or no answer in five seconds): the     *)
(*     handler catches none of that and answers 500, while the control     *)
(*     plane may or may not have done what it was asked.                   *)
(*                                                                         *)
(* Approvals and executions are what their abstract specifications         *)
(* promise; the rows events become are modelled here.  With CommitFirst    *)
(* FALSE the API answers before it commits: the event, the claim or the    *)
(* consumption an attempt goes on with may be rolled back afterwards.  What*)
(* is open is shown as done, and holds its rows as their locks do: calls   *)
(* about them go on once it is committed or lost.  The other answers of the*)
(* control plane end the attempt, so the moment of the commit may be taken *)
(* for the one of the answer, and a lost commit for a call refused.        *)
(* One organization, one agent and one session: a canonical hash is a      *)
(* binding.  Definitions named Mut... are faulty variants, as in Approvals.*)
(***************************************************************************)
EXTENDS Naturals, FiniteSets

CONSTANTS
    Attempts,
    Requests,    \* what the agent may ask for
    Flaw,        \* request -> what is wrong with it
    Hash,        \* request -> canonical hash
    Key,         \* request -> idempotency key, or None
    Effects,     \* policy version -> request -> what the rules decide
    Hashes, Keys, None,
    MaxVersion,  \* bound on the policy versions published
    ApprovalIds, Users, Requesters, Approvers,
    CommitFirst  \* the API commits before it answers, or after

Versions == 1..MaxVersion
Effect == {"allow", "deny", "require_approval", "freeze"}
Flaws == {"none", "token", "identity", "agent", "tool"}

ASSUME GatewayAssumption ==
    /\ MaxVersion \in Nat \ {0}
    /\ None \notin Keys \cup Hashes \cup Attempts \cup Requests \cup Users
    /\ Flaw \in [Requests -> Flaws]
    /\ Hash \in [Requests -> Hashes]
    /\ Key \in [Requests -> Keys \cup {None}]
    /\ Effects \in [Versions -> [Requests -> Effect]]
    /\ Requesters \subseteq Users \cup {None}
    /\ Approvers \in [Versions -> SUBSET Users]
    /\ CommitFirst \in BOOLEAN

VARIABLES
    revoked,   \* the agent's revoked_at is set
    latest,    \* the policy version published last; 0 before the first
    approval, granted,  \* the approval service
    consuming,     \* approval -> the attempt whose open consumption holds it
    lostConsents,  \* attempts whose answered consumption was rolled back
    ledger, won,   \* the execution service
    claiming,      \* attempts whose answered claim is not committed yet
    lostClaims,    \* attempts whose answered claim was rolled back
    events,    \* attempts whose decision event is committed
    open,      \* attempts whose event was acknowledged but not committed yet
    pc, req,
    decided,   \* what the attempt read and decided
    tried,     \* how the tool call ended
    answer,    \* the response
    effects,   \* attempts that performed the side effect
    barred     \* attempts made when the agent was already revoked

registry == <<revoked, latest>>
consents == <<consuming, lostConsents>>
claims == <<claiming, lostClaims>>
human == <<approval, granted, consents>>
execution == <<ledger, won, claims>>
evidence == <<events, open>>
attempt == <<pc, req, decided, tried, answer>>
vars == <<registry, human, execution, evidence, attempt, effects, barred>>

Human == INSTANCE ApprovalLifecycle WITH Ids <- ApprovalIds, Bindings <- Hashes

Ledger == INSTANCE ExecutionLedger

Outcome == {"SUCCEEDED", "FAILED"}

Row ==
    [state: {"NONE", "PENDING", "APPROVED", "REJECTED", "CONSUMED", "VOIDED", "EXPIRED"},
     binding: Hashes \cup {None}, version: (0..MaxVersion) \cup {None},
     requester: Users \cup {None}, decidedBy: Users \cup {None}]

Entry == [state: {"NONE", "EXECUTING"} \cup Outcome, hash: Hashes \cup {None}]

Undecided == [revoked |-> FALSE, version |-> 0, effect |-> "deny"]

(* A response: its status, and the state a duplicate was told.              *)
Response == [status: {0, 200, 202, 401, 403, 409, 500, 502, 503},
             duplicate: {"NONE", "EXECUTING"} \cup Outcome]

NoAnswer == [status |-> 0, duplicate |-> "NONE"]

PC == {"idle", "agent", "tool", "bundle", "refuse", "unavailable", "record", "resolve",
       "claim", "execute", "complete", "done", "dead"}

TypeOK ==
    /\ revoked \in BOOLEAN
    /\ latest \in 0..MaxVersion
    /\ approval \in [ApprovalIds -> Row]
    /\ granted \in [ApprovalIds -> {0, 1}]
    /\ consuming \in [ApprovalIds -> Attempts \cup {None}]
    /\ lostConsents \subseteq Attempts
    /\ ledger \in [Keys -> Entry]
    /\ won \in [Keys -> {0, 1}]
    /\ claiming \subseteq Attempts
    /\ lostClaims \subseteq Attempts
    /\ events \subseteq Attempts
    /\ open \subseteq Attempts
    /\ pc \in [Attempts -> PC]
    /\ req \in [Attempts -> Requests \cup {None}]
    /\ decided \in [Attempts -> [revoked: BOOLEAN, version: 0..MaxVersion, effect: Effect]]
    /\ tried \in [Attempts -> Outcome \cup {"NONE"}]
    /\ answer \in [Attempts -> Response]
    /\ effects \subseteq Attempts
    /\ barred \subseteq Attempts

Init ==
    /\ revoked = FALSE
    /\ latest = 0
    /\ Human!Init
    /\ consuming = [i \in ApprovalIds |-> None]
    /\ lostConsents = {}
    /\ Ledger!Init
    /\ claiming = {}
    /\ lostClaims = {}
    /\ events = {}
    /\ open = {}
    /\ pc = [t \in Attempts |-> "idle"]
    /\ req = [t \in Attempts |-> None]
    /\ decided = [t \in Attempts |-> Undecided]
    /\ tried = [t \in Attempts |-> "NONE"]
    /\ answer = [t \in Attempts |-> NoAnswer]
    /\ effects = {}
    /\ barred = {}

-----------------------------------------------------------------------------
Goto(t, l) == pc' = [pc EXCEPT ![t] = l] /\ UNCHANGED <<req, decided, tried, answer>>

Answer(t, status) ==
    /\ pc' = [pc EXCEPT ![t] = "done"]
    /\ answer' = [answer EXCEPT ![t].status = status]
    /\ UNCHANGED <<req, decided, tried>>

(* The control plane did its part; its answer reaches the attempt or not.   *)
Reply(t, l) == Goto(t, l) \/ Answer(t, 500)

service == <<registry, human, execution, evidence>>
effect == <<effects, barred>>

(* validate_token: signed with the key, for this audience, not expired, and *)
(* with every claim.                                                        *)
ValidToken(r) == Flaw[r] # "token"

(* bearer_claims: no submit_action without a token, and no event either.    *)
Unauthorized(t, r) ==
    /\ pc[t] = "idle"
    /\ ~ValidToken(r)
    /\ pc' = [pc EXCEPT ![t] = "done"]
    /\ req' = [req EXCEPT ![t] = r]
    /\ answer' = [answer EXCEPT ![t].status = 401]
    /\ UNCHANGED <<service, effect, decided, tried>>

(* Claims of the token, then environment, against the envelope.             *)
Submit(t, r) ==
    /\ pc[t] = "idle"
    /\ ValidToken(r)
    /\ pc' = [pc EXCEPT ![t] = IF Flaw[r] = "identity" THEN "refuse" ELSE "agent"]
    /\ req' = [req EXCEPT ![t] = r]
    /\ barred' = IF revoked THEN barred \cup {t} ELSE barred
    /\ UNCHANGED <<service, decided, tried, answer, effects>>

GetAgent(t) ==
    /\ pc[t] = "agent"
    /\ IF Flaw[req[t]] = "agent"
       THEN Goto(t, "refuse")
       ELSE /\ pc' = [pc EXCEPT ![t] = "tool"]
            /\ decided' = [decided EXCEPT ![t].revoked = revoked]
            /\ UNCHANGED <<req, tried, answer>>
    /\ UNCHANGED <<service, effect>>

GetTool(t) ==
    /\ pc[t] = "tool"
    /\ Goto(t, IF Flaw[req[t]] = "tool" THEN "refuse" ELSE "bundle")
    /\ UNCHANGED <<service, effect>>

MutDecision(wasRevoked, v, r) == Effects[v][r]

MutNoEffect(wasRevoked, v, r) == IF wasRevoked THEN "revoked" ELSE Effects[v][r]

(* Registry status outranks every rule.                                     *)
Decision(wasRevoked, v, r) == IF wasRevoked THEN "freeze" ELSE Effects[v][r]

(* store.get returns a version some gateway verified once, not always the   *)
(* latest (see PolicyStore), or nothing; the evaluation follows at once.    *)
Evaluate(t) ==
    /\ pc[t] = "bundle"
    /\ \E v \in 1..latest :
         LET e == Decision(decided[t].revoked, v, req[t])
         IN  /\ decided' = [decided EXCEPT ![t] =
                    [revoked |-> decided[t].revoked, version |-> v, effect |-> e]]
             /\ pc' = [pc EXCEPT ![t] = IF e \in {"deny", "freeze"} THEN "refuse"
                                                                    ELSE "record"]
    /\ UNCHANGED <<service, effect, req, tried, answer>>

NoBundle(t) ==
    /\ pc[t] = "bundle"
    /\ Goto(t, "unavailable")
    /\ UNCHANGED <<service, effect>>

(* A database row for t's decision: there at once, or on its way.           *)
Ingest(t) ==
    /\ IF CommitFirst THEN events' = events \cup {t} /\ UNCHANGED open
                      ELSE open' = open \cup {t} /\ UNCHANGED events
    /\ UNCHANGED <<registry, human, execution>>

(* refuse(): the event of a refusal is recorded if it can be.               *)
Refuse(t) ==
    /\ pc[t] \in {"refuse", "unavailable"}
    /\ LET status == IF pc[t] = "refuse" THEN 403 ELSE 503
       IN  \/ Ingest(t) /\ (Answer(t, status) \/ Answer(t, 500))
           \/ Answer(t, status) /\ UNCHANGED service
    /\ UNCHANGED effect

-----------------------------------------------------------------------------
Execution(t) == IF Key[req[t]] = None THEN "execute" ELSE "claim"

(* Record first: anything that proceeds does so with evidence.              *)
Record(t) ==
    /\ pc[t] = "record"
    /\ Ingest(t)
    /\ Reply(t, IF decided[t].effect = "require_approval" THEN "resolve" ELSE Execution(t))
    /\ UNCHANGED effect

NotRecorded(t) ==
    /\ pc[t] = "record"
    /\ Answer(t, 502)
    /\ UNCHANGED <<service, effect>>

(* _approval_flow: a consumed approval lets the attempt on ...              *)
Consume(t) ==
    /\ pc[t] = "resolve"
    /\ Human!Consume(Hash[req[t]], decided[t].version)
    /\ granted' # granted
    /\ consuming' = [i \in ApprovalIds |->
           IF ~CommitFirst /\ approval'[i] # approval[i] THEN t ELSE consuming[i]]
    /\ Reply(t, Execution(t))
    /\ UNCHANGED <<registry, lostConsents, execution, evidence, effect>>

MutPause(t) ==
    /\ pc[t] = "resolve"
    /\ Human!Refresh(Hash[req[t]], decided[t].version)
    /\ Reply(t, Execution(t))
    /\ UNCHANGED <<registry, consents, execution, evidence, effect>>

(* ... a live rejection refuses it, and a pending one pauses it.            *)
Pause(t) ==
    /\ pc[t] = "resolve"
    /\ Human!Refresh(Hash[req[t]], decided[t].version)
    /\ \/ Answer(t, 202)
       \/ Human!In(Hash[req[t]], {"REJECTED"}) # {} /\ Answer(t, 403)
       \/ Answer(t, 500)
    /\ UNCHANGED <<registry, consents, execution, evidence, effect>>

NotResolved(t) ==
    /\ pc[t] = "resolve"
    /\ Answer(t, 502)
    /\ UNCHANGED <<service, effect>>

(* _execute_action: only the caller that claims the key executes.           *)
Claim(t) ==
    /\ pc[t] = "claim"
    /\ Ledger!Claim(Key[req[t]], Hash[req[t]])
    /\ won' # won
    /\ claiming' = IF CommitFirst THEN claiming ELSE claiming \cup {t}
    /\ Reply(t, "execute")
    /\ UNCHANGED <<registry, human, lostClaims, evidence, effect>>

(* ON CONFLICT DO NOTHING waits for a claim of the key that is open.        *)
Settled(k) == \A s \in claiming : Key[req[s]] # k

MutDuplicate(t) ==
    /\ pc[t] = "claim"
    /\ Settled(Key[req[t]])
    /\ ledger[Key[req[t]]].hash = Hash[req[t]]
    /\ Goto(t, "execute")
    /\ UNCHANGED <<service, effect>>

MutAnyDuplicate(t) ==
    LET entry == ledger[Key[req[t]]]
    IN  /\ pc[t] = "claim"
        /\ Settled(Key[req[t]])
        /\ entry.state # "NONE"
        /\ pc' = [pc EXCEPT ![t] = "done"]
        /\ answer' = [answer EXCEPT ![t] = [status |-> 200, duplicate |-> entry.state]]
        /\ UNCHANGED <<service, effect, req, decided, tried>>

Duplicate(t) ==
    LET entry == ledger[Key[req[t]]]
    IN  /\ pc[t] = "claim"
        /\ Settled(Key[req[t]])
        /\ entry.hash = Hash[req[t]]
        /\ pc' = [pc EXCEPT ![t] = "done"]
        /\ answer' = [answer EXCEPT ![t] = [status |-> 200, duplicate |-> entry.state]]
        /\ UNCHANGED <<service, effect, req, decided, tried>>

KeyReused(t) ==
    /\ pc[t] = "claim"
    /\ Settled(Key[req[t]])
    /\ ledger[Key[req[t]]].hash \notin {None, Hash[req[t]]}
    /\ Answer(t, 409)
    /\ UNCHANGED <<service, effect>>

NotClaimed(t) ==
    /\ pc[t] = "claim"
    /\ Answer(t, 502)
    /\ UNCHANGED <<service, effect>>

(* The tool's side effect: a tool that raises had its effect or not.        *)
Perform(t, ok) ==
    effects' \in {effects \cup {t}} \cup (IF ok THEN {} ELSE {effects})

Execute(t) ==
    /\ pc[t] = "execute"
    /\ \E ok \in BOOLEAN :
         /\ Perform(t, ok)
         /\ tried' = [tried EXCEPT ![t] = IF ok THEN "SUCCEEDED" ELSE "FAILED"]
         /\ IF Key[req[t]] # None
            THEN pc' = [pc EXCEPT ![t] = "complete"] /\ UNCHANGED answer
            ELSE /\ pc' = [pc EXCEPT ![t] = "done"]
                 /\ answer' = [answer EXCEPT ![t].status = IF ok THEN 200 ELSE 500]
    /\ UNCHANGED <<service, req, decided, barred>>

(* _complete_quietly: a refused completion is only logged, as is one of an  *)
(* execution whose claim is not committed, or never will be.                *)
Complete(t) ==
    /\ pc[t] = "complete"
    /\ LET status == IF tried[t] = "SUCCEEDED" THEN 200 ELSE 500
       IN  \/ /\ t \notin claiming \cup lostClaims
              /\ Ledger!Complete(Key[req[t]], tried[t])
              /\ Answer(t, status) \/ Answer(t, 500)
              /\ UNCHANGED claims
           \/ Answer(t, status) /\ UNCHANGED execution
    /\ UNCHANGED <<registry, human, evidence, effect>>

-----------------------------------------------------------------------------
(* No connection, or no answer in time; nothing was done.                   *)
Unreachable(t) ==
    /\ pc[t] \in {"agent", "tool", "bundle", "refuse", "unavailable", "record",
                  "resolve", "claim", "complete"}
    /\ Answer(t, 500)
    /\ UNCHANGED <<service, effect>>

(* The gateway process dies.                                                *)
Crash(t) ==
    /\ pc[t] \notin {"idle", "done", "dead"}
    /\ Goto(t, "dead")
    /\ UNCHANGED <<service, effect>>

(* The API commits an event it has acknowledged, or dies before it does.    *)
CommitEvent(t) ==
    /\ t \in open
    /\ open' = open \ {t}
    /\ events' = events \cup {t}
    /\ UNCHANGED <<registry, human, execution, attempt, effect>>

LoseEvent(t) ==
    /\ t \in open
    /\ open' = open \ {t}
    /\ UNCHANGED <<registry, human, execution, events, attempt, effect>>

(* The same of a claim it answered.  A lost one leaves the key free.        *)
CommitClaim(t) ==
    /\ t \in claiming
    /\ claiming' = claiming \ {t}
    /\ UNCHANGED <<registry, human, ledger, won, lostClaims, evidence, attempt, effect>>

LoseClaim(t) ==
    /\ t \in claiming
    /\ ledger' = [ledger EXCEPT ![Key[req[t]]] = Ledger!Nothing]
    /\ won' = [won EXCEPT ![Key[req[t]]] = 0]
    /\ claiming' = claiming \ {t}
    /\ lostClaims' = lostClaims \cup {t}
    /\ UNCHANGED <<registry, human, evidence, attempt, effect>>

Held(t) == {i \in ApprovalIds : consuming[i] = t}

Release(t) == consuming' = [i \in ApprovalIds |-> IF i \in Held(t) THEN None ELSE consuming[i]]

(* And of a consumption.  A lost one leaves the approvals to be consumed.   *)
CommitConsent(t) ==
    /\ Held(t) # {}
    /\ Release(t)
    /\ UNCHANGED <<registry, approval, granted, lostConsents, execution, evidence, attempt,
                   effect>>

LoseConsent(t) ==
    /\ Held(t) # {}
    /\ approval' = Human!Become(Held(t), "APPROVED")
    /\ granted' = [i \in ApprovalIds |-> IF i \in Held(t) THEN 0 ELSE granted[i]]
    /\ Release(t)
    /\ lostConsents' = lostConsents \cup {t}
    /\ UNCHANGED <<registry, execution, evidence, attempt, effect>>

Revoke ==
    /\ ~revoked
    /\ revoked' = TRUE
    /\ UNCHANGED <<latest, human, execution, evidence, attempt, effect>>

Publish ==
    /\ latest < MaxVersion
    /\ latest' = latest + 1
    /\ UNCHANGED <<revoked, human, execution, evidence, attempt, effect>>

Decide(i, u, to) ==
    /\ Human!Decide(i, u, to)
    /\ UNCHANGED <<registry, consents, execution, evidence, attempt, effect>>

Next ==
    \/ \E t \in Attempts :
         \/ \E r \in Requests : Submit(t, r) \/ Unauthorized(t, r)
         \/ GetAgent(t) \/ GetTool(t) \/ Evaluate(t) \/ NoBundle(t) \/ Refuse(t)
         \/ Record(t) \/ NotRecorded(t)
         \/ Consume(t) \/ Pause(t) \/ NotResolved(t)
         \/ Claim(t) \/ Duplicate(t) \/ KeyReused(t) \/ NotClaimed(t)
         \/ Execute(t) \/ Complete(t)
         \/ Unreachable(t) \/ Crash(t)
         \/ CommitEvent(t) \/ LoseEvent(t)
         \/ CommitClaim(t) \/ LoseClaim(t)
         \/ CommitConsent(t) \/ LoseConsent(t)
    \/ Revoke \/ Publish
    \/ \E i \in ApprovalIds, u \in Users, to \in {"APPROVED", "REJECTED"} : Decide(i, u, to)

Spec == Init /\ [][Next]_vars

-----------------------------------------------------------------------------
(* Properties *)

OncePerKey(A) == \A k \in Keys : Cardinality({t \in A : Key[req[t]] = k}) <= 1

(* A side effect with an idempotency key happens at most once, over all the *)
(* attempts, whatever replies are lost and whichever gateway dies.  True    *)
(* where the API commits before it answers: a claim that was answered and   *)
(* then rolled back leaves the key to a second attempt.                     *)
AtMostOncePerKey == OncePerKey(effects)

(* In both orders, what goes wrong goes wrong by a lost claim: of the       *)
(* attempts that hold a claim of the key, or held one until its commit, one *)
(* at most has the effect.                                                  *)
KeptClaimActsOnce == OncePerKey(effects \ lostClaims)

(* Recorded: the decision event exists before the action's effects do.      *)
EvidenceBeforeEffect == effects \subseteq events

(* The attempts in A that a policy asked a human about have used up an      *)
(* approval each, that a human who may decide gave to the very request under*)
(* the very policy version that asked for it.                               *)
Approved(A) ==
    \A h \in Hashes, v \in Versions :
        Cardinality({t \in A : /\ Hash[req[t]] = h
                               /\ decided[t].version = v
                               /\ decided[t].effect = "require_approval"})
        <= Cardinality({i \in ApprovalIds :
                 /\ granted[i] = 1
                 /\ approval[i].state = "CONSUMED"
                 /\ approval[i].binding = h
                 /\ approval[i].version = v
                 /\ approval[i].decidedBy \in Approvers[v] \ {approval[i].requester}})

(* Under require_approval, every effect has an approval of its own.  True   *)
(* where the API commits before it answers: a consumption that was answered *)
(* and then rolled back leaves the approval to a second attempt.            *)
EffectsWereApproved == Approved(effects)

(* In both orders, the effects of all attempts but those whose consumption  *)
(* was lost have an approval each.                                          *)
KeptConsentsCover == Approved(effects \ lostConsents)

(* The kill switch: an attempt made after the agent was revoked has no      *)
(* effect, even when a human approved it before.                            *)
RevokedDoNothing == effects \cap barred = {}

(* An answer tells the truth: a result means the effect happened, a         *)
(* duplicate told SUCCEEDED that an attempt with its key and its request    *)
(* performed it, and a refusal that this attempt did nothing and is safe to *)
(* retry.                                                                   *)
AnswersAreTrue ==
    \A t \in Attempts :
        /\ answer[t].status = 200 /\ answer[t].duplicate = "NONE" => t \in effects
        /\ answer[t].duplicate = "SUCCEEDED" =>
             \E s \in effects : /\ Key[req[s]] = Key[req[t]]
                                /\ Hash[req[s]] = Hash[req[t]]
        /\ answer[t].status \in {202, 401, 403, 409, 502, 503} => t \notin effects
=============================================================================
