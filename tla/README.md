# phulax in TLA+

phulax is a runtime gateway for AI agents: an agent asks the gateway to perform
an action, the gateway decides by policy, asks a human where the policy says
so, records what it decides, and performs the action at most once.  The
control plane (an API over PostgreSQL) keeps the registry, the policies, the
approvals, the executions and the timeline.  This directory models the part of
the system that carries those promises, checks it with TLC on small instances,
and proves the safety of it with TLAPS.

Paths below are relative to `src/`; **G** is `apps/gateway/src/phulax_gateway`,
**A** is `apps/api/src/phulax_api`, **P** is `packages/policy/src/phulax_policy`.

## 1. Inventory

| component | source | state | operations | correct when |
|---|---|---|---|---|
| Approval service | `A/routers/approvals.py`, table `approvals` | rows PENDING, APPROVED, REJECTED, CONSUMED, VOIDED, EXPIRED; partial unique index on PENDING rows of a binding (org, canonical hash, session) | `resolve` (consume, void, expire, find a rejection, find or create a pending row), `approve`, `reject` | one pending row per binding; an approval is used once, by the request, under the policy version, and by the decision of a human other than the requester who holds the role, before it expires; every change has its event |
| Execution service | `A/routers/executions.py`, table `executions` | rows AUTHORIZED, EXECUTING, SUCCEEDED, FAILED; unique (org, idempotency key) | `claim`, `complete` | one caller per key is told to execute; others get the recorded outcome of the same request; one result event at most per execution |
| Gateway action path | `G/main.py`, `control_plane.py`, `executor.py` | none of its own between requests but the policy cache and the tool's side effects | `submit_action`: identity checks, registry reads, evaluation, event, approval, claim, tool call, completion | evidence before effect, human before effect where required, at most one effect per key, no effect for a revoked agent, true answers |
| Policy store | `G/policy_store.py` | the verified bundle per organization, and when it was fetched | `get` | only signed, well-formed, published rules are enforced; staleness is bounded; an outage never turns enforcement off |
| Policy publication | `A/routers/policies.py`, `P/signing.py`, table `policy_bundles` | bundles by (org, version) | `publish_bundle`, `latest_bundle` | a version names one set of rules for ever |
| Policy engine and rule parser | `P/engine.py`, `P/schema.py` | none (pure) | `parse_rules`, `evaluate` | restrictions never loosen; missing context never turns a refusal into a grant; what is granted without arguments is granted by name; every approval has a role |
| Events and timeline | `A/routers/events.py` | append-only `events` | `ingest_event`, `list_events` | what was acknowledged is there; order on the timeline |
| Registry | `A/routers/orgs.py`, `agents.py`, `tools.py`, `sessions.py` | organizations, users, agents, versions, tools, sessions, each under a unique constraint; `revoked_at` of an agent | create, register, add a version, revoke, open a session, issue a token | one owner per name, whose content stands; no session and no token for an agent revoked before the call |
| Canonical form and hash | `G/canonical.py` | none (pure) | `canonicalize`, `canonical_hash` | one agent's requests with one hash are one request to the policy as well |
| Redaction | `G/redaction.py` | none (pure) | `redact` | the preview lacks what the sensitive paths reach, the list says what was taken, the rest is untouched |
| Risk, tokens | `P/risk.py`, `A/tokens.py`, `G/tokens.py` | none (pure) | | the score is a sum and decides nothing; a token is what was signed |
| Review UI, notification, health, settings, scripts | `A/routers/ui.py`, `A/notify.py`, ... | none | | |

**How they interact.** An agent posts an envelope to the gateway.  The gateway
calls the control plane over HTTP at each step (agent, tool, bundle, event,
resolve, claim, complete), every call an `await` with a five-second timeout at
which other requests run.  A human decides through the API or the UI, at any
moment.  All API state is in PostgreSQL at its default isolation, READ
COMMITTED, so requests interleave between *statements*, not between requests.

**What is hard.**

- Statements of concurrent transactions interleave, each seeing the rows
  committed when it starts; compare-and-set UPDATEs wait on row locks and test
  their WHERE clause again; INSERTs wait on undecided unique-index entries; two
  transactions may wait for each other until PostgreSQL fails one.
- **The answer may leave before the commit.**  `get_db` (`A/db.py:20-32`) is a
  dependency with `yield` whose exit code commits.  `uv.lock:273-274` locks
  FastAPI 0.141.1, and since 0.118 FastAPI runs that exit code *after* the
  response has been sent (0.106 to 0.117 ran it before).  Exceptions still roll
  back before the error response.  Between answer and commit the row locks are
  held, so other calls wait; but a process that dies there takes back what a
  caller was told.  Every transactional module has the constant `CommitFirst`:
  FALSE is the locked build, TRUE the order the code's comments assume.  What
  holds in both orders is checked with FALSE; what needs TRUE is said so, and
  where FALSE breaks it a weaker property says what is left.
- A call to the control plane may be refused, lost before or after it took
  effect, or answered late; the gateway may die at any await.
- Caches and registry flags are read before an await and used after it.
- Every gateway process has its own policy cache.  While two differ, each voids
  the approvals given under the other's version.
- The registry looks for a duplicate before it inserts, without a lock.
- The engine compares numbers as doubles; the hash keeps integers exact.
- Approvals expire, policies are republished and agents are revoked meanwhile.
- Conditions on absent or mistyped arguments are neither true nor false.

`PROJECT.json` lists each hazard at its line, with the properties aimed at it.

## 2. Modules

```
Approvals ── ApprovalsRefinement ──▶ ApprovalLifecycle ◀── Human ─┐
              ├─ ApprovalsProofs                                   Gateway ─┬ MCGateway
              └─ MCApprovals                                       │        └ GatewayProofs
Executions ─ ExecutionsRefinement ─▶ ExecutionLedger  ◀── Ledger ─┘
              ├─ ExecutionsProofs
              └─ MCExecutions
PolicyBundles ── PolicyStore ─┬ MCPolicyStore        Fleet ── FleetProofs
                              └ PolicyStoreProofs
PolicyEngine ── CanonicalForm ─┬ MCPolicyEngine      LeastElement: lemmas about
                               └ PolicyEngineProofs  naturals, for three of the
Redaction ── Registry ─┬ MCRegistry                  proof modules
                       └ RegistryProofs
```

Definitions keep the names of the code where they can, and `PROJECT.json`'s
`map` gives the lines of each.  A definition named `Mut...` is a faulty variant
of the one it precedes (a dropped guard, a missing lock, a swapped order); it
belongs to no specification, and replacing the original by it makes TLC find a
violation of the property it is meant for.

**Approvals** runs `resolve_approval` and `decide_approval` statement by
statement.  `rows` is what is committed, `owner` and `dirty` the row locks and
the uncommitted versions under them.  An UPDATE is `Scan` (the candidates its
snapshot selects) and one `UpdateRow` per candidate, which waits on a lock and
tests the clause again (`Matches`); then `Consumed`, `NothingToConsume`,
`Voided`, `Expired`, `SelectRejected`, `SelectPending`, `RequestFound`/
`RequestMissing`, `Insert`/`InsertConflict` and `Reselect` are the handler's
branches.  `InsertConflict` is the `IntegrityError` branch whose
`db.rollback()` undoes the call's earlier updates too.  `Commit` and `Reply`
are the two ends in either order.  `DeadlockVictim` is PostgreSQL's detector,
`Crash` the loss of a process or connection.  `grants` counts the answers
"consumed" and `lost` those whose transaction never committed.

**ApprovalLifecycle** is what the service promises: `Consume`, `Grant`,
`Refresh` (void, expire and request in one step) and `Decide`, all atomic.
**ApprovalsRefinement** maps the transactions to it: a row is what is
committed, or, once its owner has answered, what the owner will commit.

**Executions** does the same for `claim_execution` (INSERT .. ON CONFLICT DO
NOTHING, SELECT, compare-and-set, refresh) and `complete_execution`;
**ExecutionLedger** is the promise, **ExecutionsRefinement** the mapping.
A completion records its result event only where the execution's action request
is on record (`RecordExecutionEvent`); `Traced` says whether it may be, may not
be, or either.  `results` counts the events, so that a second one would show.

**Gateway** is `submit_action` with one action per await.  It uses the two
services through their abstract specifications (the instances `Human` and
`Ledger`), and the policy store as "some version published so far, or
nothing".  With the answer before the commit, an event, a claim or a
consumption is open from its answer until the API commits it or dies: `open`,
`claiming` and `consuming` say whose, `CommitEvent`/`LoseEvent`,
`CommitClaim`/`LoseClaim` and `CommitConsent`/`LoseConsent` end it, and
`lostClaims` and `lostConsents` remember the attempts that went on with what was
rolled back.  What is open is shown as done and holds its rows as their locks
do: another claim of the key waits for it (`Settled`), a resolution does not
find the approval again, and a completion does not see it.  The other
answers of the control plane end the attempt, so nothing tells the moment of
their commit from that of the answer.  Each call is answered, refused (`ControlPlaneError`), or ends in an
httpx exception, before or after it took effect (`Reply`, `Unreachable`).
An attempt is one POST; retries are further attempts with the same request.

**PolicyBundles** is publication with its version race, **PolicyStore** the
gateway cache over it, one action per side of the await.

**Fleet** puts several gateways with their own caches before one control plane.
It composes the promises of the parts rather than their statements: a refresh
answers with the latest version (`Refresh`) or fails and keeps the old one
(`KeepOld`), a resolution is one step (`Consume` or `Pause`, as in
ApprovalLifecycle), and the agent may have an attempt under way at every
gateway.  Publications, decisions, lapses, restarts and failed calls happen in
between.

**PolicyEngine** is the parser's acceptance conditions and `evaluate` as
operators, in a small state machine in which an author writes a document rule
by rule and loads it.  Numbers are counted in halves, so that there are
fractions, and `Float` rounds to the nearest double: above `Exact` (2^53 in the
code, 4 in the instance) only every second integer is one.  Conditions speak of
arguments (`Fields`) or of the agent (`AgentFields`), of whom `evaluate` knows
the revocation flag and nothing else (`Lookup`); the flag is FALSE whenever rules
are looked at.  **CanonicalForm** adds the normalization and the hash of
`canonical.py`, which covers the action and the arguments.  The agent it leaves
out is the session's, to which an approval is bound beside the hash
(`SameBinding`).

**Registry** runs the eight handlers that change the registry or issue what
rests on it.  They share one shape, so there is one action per step of it:
`Check` or `Refuse` (what the row refers to, the revocation, the duplicate),
one `Insert` or `InsertFails` per row, which waits for an undecided entry of
the unique index, `Update` for a revocation, `Commit` and `Reply` in either
order, `Crash`.  The constants say which things there are, what each refers to
and which rows its registration inserts (an agent brings its first version).
**Redaction** is `redact` over documents given by the paths of their nodes; the
registry's tools carry the sensitive paths.

## 3. Runs

| run | instance | what it shows |
|---|---|---|
| `approvals_commit_first` | 2 calls, 2 rows, 1 binding, 2 policy versions, clock 0..1, TTL 1, 1 crash, commit before answer | `AtMostOnePending`, `ConsumedOnce`, `ConsumedInContext`, `EvidenceKept`; the transactions implement the lifecycle |
| `approvals_reply_first` | the same with 1 version and no expiry, answer before commit | `SingleUse`, and every call is answered, in the locked build |
| `approvals_rejection` | violation | see findings |
| `executions_commit_first` | 3 calls, 3 rows, 2 keys, 2 hashes, 1 crash | `AtMostOnce`, `ClaimantFindsExecution`; the ledger is implemented |
| `executions_reply_first` | 2 calls, 2 rows, 2 keys, 2 hashes, 1 crash, answer first, action requests on record or not | `OneWinner`, `DuplicateIsRecorded`, `SelectFindsRow`, `OneResult`, every call is answered |
| `gateway` | 2 attempts at keyed, key-reusing, unkeyed, malformed and unauthenticated requests, 2 versions, 2 approvals, answer first: acknowledged events, claims and consumptions may be lost | `KeptClaimActsOnce`, `KeptConsentsCover`, `RevokedDoNothing`, `AnswersAreTrue` |
| `gateway_evidence` | violation | see findings |
| `fleet` | 2 gateways, 2 versions, 2 setbacks | every wanted action is performed (`EveryActionPerformed`); a new policy reaches the whole fleet (`NewPolicyGoverns`) |
| `registry` | 3 calls, 7 things, 3 lists of sensitive fields, 12 documents, some with lists | `OneOwner`, `RevokedGetNothing`, `PreviewsAreHonest` |
| `policy_store` | 2 `get` calls, 2 publications, 2 rule sets, 2 versions, clock 0..2, TTL 2, 1 loss | `OnlyPublishedRules`, `StaleForLessThanTTL`, `NeverUnenforced`, `VersionsAreFinal`, `OnlyNewVersions` |
| `policy_engine` | every document of up to 2 of 160 rules, every request of 2 agents over 2 fields and 8 values, some rounded; conditions on the agent too | `RefusalsSurvive`, `RestrictionsNeverLoosen`, `ApprovalsHaveARole`, `AllowedByName`, `SameHashSameDecision` |
| `policy_engine_unknown` | violation | see findings |

**Bounds, and why they are enough.**  `Procs`: calls are reused, so two model
any sequence of calls of which two overlap; every lock, index and
compare-and-set conflict is between two, and a third call (executions) adds a
queue behind one.  `Ids`: two approval rows of one binding are what the index
and the second-row interleaving need; bindings interact in no way (a single
one), while keys do through ids, hence two keys.  `TTL` = 1 and `MaxTime` = 1
let an approval expire at any point of any call; in the policy store TTL 2
with three instants gives fresh, ageing and expired entries.  `Versions`: two
policies, approving under one and resolving under the other.  `MaxCrashes`,
`MaxLosses` = 1: one lost transaction, wherever it hurts; `SingleUse` and
`OneWinner` count losses, and the theorem about `SingleUse` has no bound.
`Attempts` = 2: the second retries, repeats or races the first, with two
approvals to be requested, decided and consumed by either, and with what the
first lost.  `Traced` is both values where the result events are checked, and
TRUE in the run with the commit first, whose properties do not read them.
`Gateways` = 2, `MaxVersion` = 2: two caches that differ are what makes a war
of voiding.  `MaxSetbacks` bounds rejections and lapses, for without a bound
humans could refuse for ever.  Registry's 3 calls: two that race and one that
looks; its things are one of each kind but versions, of which there are an
agent's first and a later one.  `Exact` = 8 halves: the values 4 and 5 are the
first two integers a double does not tell apart, all the others it does.
`MaxRules` = 2: every property of the engine is about one rule deciding instead
of another.  Symmetry is used on interchangeable values in runs that check no
liveness; the refinements are safety properties.

**Deadlock** is checked in every run but the gateway's and the engine's, where
`CHECK_DEADLOCK FALSE` is said because they really stop: every attempt has been
made and has ended, or the document is full and loaded.  In the other runs some
step is always possible: a call can begin, go on, or be failed by the detector.

**Fairness.**  `approvals_reply_first` and `executions_reply_first` assume
`SF_vars(Run(p))` for each call: a server process keeps running, and PostgreSQL
serves those that wait for a row lock or an undecided index entry in turn, so a
call that is able to go on again and again does.  New calls, crashes and the
clock are not owed.  Deadlocks are broken by the detector, which is part of
`Run`.

`fleet` assumes an agent that keeps trying while it wants something, at some
gateway and at none in particular (WF of `Try`); that calls which are made
again and again succeed at some time (SF of `Refresh`, `Pause`, `Consume`,
`Perform`, each of which a failure, an outage or a restart may preempt any
number of times); that cache entries age and rejections end, since time passes
(WF); and that somebody decides for the request in the end (SF of `Approve`;
rejections and lapses are bounded by `MaxSetbacks`).  Nothing of it is a
promise of the code, all of it concerns its surroundings: with a control plane
that never answers, or a human who never does, the gateway rightly never acts.
What the code owes is that the rest suffices: voiding, caching and standing
requests must not keep the agent going in circles.  Symmetry is not used there.

## 4. Where code and docs disagree

1. **A live rejection does not hold** (`approvals_rejection`).
   `resolve_approval` consumes (line 50) before it looks for a rejection (line
   96).  A resolve call whose consuming UPDATE ran before an approval was
   granted and whose pending SELECT ran after it inserts a *second* row of the
   binding; a human who rejects that one is overruled by the first.
2. **Evidence may come after the effect, or never** (`gateway_evidence`).
   `POST /v1/events` is acknowledged before it is committed (section 1), and
   the gateway executes on the acknowledgement.  With the commit first the
   property holds: `EvidenceBeforeEffectHolds` proves it.
3. **A missing argument can loosen a decision** (`policy_engine_unknown`).
   `require_approval` counts as a permissive effect (`P/schema.py:22`), so on
   an unresolvable condition it does not fire and an `allow` rule may win.

Met while modelling, visible in the modules, and not given a run of their own:

- A claim and a consumption are answered before they are committed, too: the
  cause of the second finding, with other effects.  If the API dies in between,
  the key is free again, or the approval still there, while the attempt that was
  told acts, and a retry acts as well: two effects under one key or one approval,
  where `A/routers/executions.py:4` promises an at-most-once side effect per key.
  TLC refutes `AtMostOncePerKey` and `EffectsWereApproved`, added to `Gateway.cfg`.
  They are theorems where the commit comes first; in both orders
  `KeptClaimActsOnce` and `KeptConsentsCover` say that nothing but such a loss
  breaks them.  In the services, `SingleUse` and `OneWinner` count lost
  transactions for the same reason, and `ConsumedOnce`, `AtMostOnce` and the
  refinements are checked with `CommitFirst = TRUE`.
- The consuming and voiding UPDATEs take every matching row and log one
  (`.first()`): of two approved rows of a binding one becomes CONSUMED without
  an event.  `EvidenceKept` claims consumption events only for what was
  answered, and none of VOIDED rows.
- With the answer before the commit a claimant may complete before its own claim is
  committed and is refused with 404; its execution stays EXECUTING
  (`Gateway.Complete`).  `ClaimantFindsExecution` is about the other order.
- A completion records no event where the action request is not on record, as
  after a lost decision event (`RecordExecutionEvent`).  `OneResult` says that
  there is one event at most.
- `httpx` exceptions (no connection, no answer in time) are not
  `ControlPlaneError`s.  A failed completion is then surfaced as a 500
  (`G/main.py:441` says never), and `store.get` raises instead of serving the
  cache (`G/policy_store.py:12`).  `Complete`, `Unreachable` and `Raise` model
  this; `NeverUnenforced` allows a raise, which refuses the request.
- A `store.get` that began with an empty cache returns None when its own
  refresh fails, even if another call stored a bundle meanwhile (`Fallback`).
- Of two refreshes at once the one that stores last wins, whatever its version: a
  slow answer can put an older bundle back in the cache (`Store`).  Its entry is as
  old as its request, so `StaleForLessThanTTL` holds all the same.
- The loser of a registration race is answered 500 by the unique constraint,
  where the sequential duplicate is a 409 (`InsertFails`, `Duplicate`).
- A sensitive path that leads into a list is not followed: what it names stays in
  the preview and is not listed (`Found`).  `PreviewsAreHonest` exempts it and
  speaks of the paths through dictionaries.
- Above 2^53, `eq` may hold of two numbers of which `gt` holds as well
  (`ScalarEq`, `Compares`), and an integer beyond the range of a double raises
  `OverflowError` in `_scalar_eq`, which the model's range excludes.
- Without an idempotency key an allowed action is performed at every replay.

## 5. Proofs

Every invariant that a passing run checks is proved for all values of the
constants, and so are the action properties and both refinements.  What is left to
TLC is liveness.  Where a statement below has no hypothesis it holds in both orders
of answer and commit.

**`ApprovalsProofs`**, for any number of calls, rows, bindings, versions and users,
and any bounds:

- `TypeCorrect`.  The invariant is `TypeInv`, `TypeOK` with what arguments a call
  in each state has and that a locked row has a version.
- `AtMostOnePendingHolds`.  It is not inductive: a commit makes an in-flight row
  visible.  `IndexInv` adds that in-flight PENDING rows of a binding are unique
  (`InsertsApart`), that one beside a committed PENDING row belongs to a
  transaction that has itself changed the old row (`InsertReplaces`), and that
  nothing follows an insertion but the end of its transaction (`InsertsLast`).
- `SingleUseHolds`.  `GrantInv` adds that a locked row is not consumed yet
  (`LockedUnconsumed`), that a consuming UPDATE holds what it has hit (`HitsHeld`),
  that an answer "consumed" is backed by a row its call holds or has committed
  (`AnswerBacked`), and that a row not consumed has been granted only by lost
  transactions (`GrantsCounted`).
- `ConsumedOnceHolds`: `Lossless /\ Spec => []ConsumedOnce`.  `Lossless` is
  `CommitFirst \/ MaxCrashes = 0`: nothing answered is lost if the commit
  comes first, or if no process dies.
- `ConsumedInContextHolds`.  What is answered is a row read in an earlier
  statement, so `ContextInv` says of rows and in-flight versions alike that
  decisions are genuine (`DecisionsGenuine`), of each change in flight that it
  keeps the approval (`ApprovalsKept`), of a decider that it may still decide
  (`StillMayDecide`), and of what an UPDATE has hit, and then answers, that it
  was in context (`HitsInContext`, `AnswerInContext`).
- `EvidenceKeptHolds`.  `EvidenceInv` follows the events from the hit that calls
  for one to the commit that records it: what is hit is owned (`HitsOwned`), an
  UPDATE that comes first in its transaction holds nothing but what it has hit
  (`FirstUpdate`, `NothingHeld`), a decision changes one row (`OneDecided`), what an open transaction has
  written is among what it will record (`WritesTold`) and the other way round
  (`ToldWritten`), and the answer is among it (`AnswerTold`).
- `LifecycleImplemented`: `Lossless /\ Spec => ImplementsLifecycle`.  A transaction takes effect in one step, its commit or
  its response, and then everything it wrote becomes visible at once.  `WriteInv`
  says what an open transaction may have written by where it is (`Uses`,
  `Voids`, `Expires`, `Decides`, `Asks`), so that what becomes visible is one
  `Consume`, `Refresh` or `Decide` of the lifecycle (`TakesEffect`) and any
  other statement is a stutter (`NotSeen`).  The hypothesis is the one the
  refinement needs: a process that dies after an answer and before its commit
  breaks it.

**`ExecutionsProofs`**, for any calls, rows, keys and hashes:

- `TypeCorrect`, `SelectFindsRowHolds`, `DuplicateIsRecordedHolds`,
  `OneResultHolds`.  `StateInv` has the unique index over committed and
  in-flight rows (`IndexInv`), that no committed row is AUTHORIZED
  (`NoneUnclaimed`), what a row that a call holds looks like (`Holds`, a row
  it inserted or one it completes), and what a call may rely on where it is
  (`Phase`): at `select` that its key has a row, later that the row it found is
  of its own request.
- `OneWinnerHolds`.  `CountInv`: a key is won once more at most than its answers
  were lost, and no more than that while no committed row and no answered
  call has it, or while a committed claim is still to be answered.
- `AtMostOnceHolds` with `Lossless`, `ClaimantFindsExecutionHolds` with
  `CommitFirst`: a claimant's row is committed and granted (`ToldInv`).  Where
  the answer comes first a claimant may complete before its own claim is
  committed, and the second property says nothing of that order.
- `LedgerImplemented`: `Lossless /\ Spec => ImplementsLedger`.  What the world sees
  (`Seen`) changes with the first of a call's commit and its answer, by one
  `Claim` or `Complete` (`TakesEffect`); with the commit first the answer is a
  `Grant`; all else happens out of sight (`OutOfSight`).  That a completed key
  was granted is `ToldInv` in one order and `GrantedInv` in the other.

**`GatewayProofs`**, for any attempts, requests, policies and approvals:

- `EvidenceBeforeEffectHolds` (with `CommitFirst`) and `RevokedDoNothingHolds`
  follow from where an attempt is, whatever the services do.
  `EffectsLast`: an attempt with an effect has left every earlier place for
  good.  `EvidenceInv`: whoever is past `record` has its event.  `BarredInv`:
  an attempt made after the revocation has read `revoked` by the time it
  evaluates, can only decide `freeze`, and is at no place an effect follows.
  That an attempt made earlier may still read `revoked` = FALSE and act is left
  open by the property, as by the code.
- `KeptClaimActsOnceHolds` and `AnswersAreTrueHolds` open the ledger's actions.
  `OutcomeInv` ties a ledger entry to its claimant: of the attempts whose claim
  was not lost one executes under a key (`OneHolder`), the key is that one's,
  open or committed, meanwhile (`ClaimHeld`, `ClaimsMade`), a recorded success
  has an attempt behind it (`LedgerTrue`), and what an attempt goes to report is
  how its tool call ended (`TriedTrue`).
- `KeptConsentsCoverHolds` opens the lifecycle's actions as well.  For each
  hash and version, the attempts that were let pass by an approval and have not
  lost it are no more than the approvals consumed (`ApprovedInv`, over
  cardinalities of finite sets): a consumption adds one to both, or, when its
  answer does not arrive, to the latter alone; a lost one takes from both, since
  what it frees was held by an attempt that counted (`ConsentsMade`, `Counts`)
  and no attempt comes back to an earlier place (`Onward`).
- `TypeCorrect`: `TypeOK` types what the two services hold, too.
- `AtMostOncePerKeyHolds` and `EffectsWereApprovedHolds`, with `CommitFirst`: nothing
  is open and nothing lost then (`NothingLost`), so each follows from the
  one above.

**`PolicyStoreProofs`**, for any calls, publishers, rules, versions, clock and TTL:

- `PublicationUnchanged`: `Spec => BundlesSpec`; the gateway only reads, so what is
  proved of publication holds beneath the store.
- `OnlyNewVersionsHolds`, and `VersionsAreFinalHolds` (with `CommitFirst`).
  `PublishInv`: published versions have no gap (`NoGaps`), the version before the
  one a publication inserts is published (`Following`), and an index entry
  has one holder, under which nothing is committed yet (`EntriesHeld`).
- `TypeCorrect`, `OnlyPublishedRulesHolds`, `StaleForLessThanTTLHolds`,
  `NeverUnenforcedHolds`.  `StoreInv` says of the cache, of every bundle in
  flight and of every answer that it is published under its version
  (`AllGenuine`), and that what it holds was not superseded before the instant
  its age is counted from (`NotSupersededBefore`), which is why the clock must
  be read before the request is sent.

**`PolicyEngineProofs`**, for any targets, fields, values, bundle and request:

- `TypeCorrect`: the bundle in force has passed the parser.
- `RefusalsSurviveHolds`: without an argument, a restrictive rule that fired
  still fires, and a permissive rule fires only if it did before
  (`FiresWithout`), so no grant replaces a refusal.
- `RestrictionsNeverLoosenHolds`: without one deny or freeze rule the others
  match as before (`DropMatches`, `DropKeeps`), and the strictest effect that
  matches decides.
- `AllowedByNameHolds`: without arguments no condition is known but one on the
  revocation flag, so a permissive rule that fires has no other, and the parser
  has asked it to name its targets.
- `ApprovalsHaveARoleHolds`: among the rules that ask there is a first (`Least`),
  and the parser gave it a role.
- `SameHashSameDecisionHolds`: no test of the engine tells a value from its
  normal form (`NormalizeKeepsTests`), so a request is decided as its canonical
  form is (`DecidedAsCanonical`), and that is one for a request and its retry
  by the same agent.  Two agents' requests with one hash may be decided
  differently, and their approvals are not exchanged.

**`RegistryProofs`**, for any calls and things:

- `TypeCorrect`, `OneOwnerHolds` and `RevokedGetNothingHolds` from one inductive
  invariant: `Shape` (a creation in `write` still has a row to insert, so that
  `NextRow` exists), `Locks` (locks exclude each other, what a creation has
  locked does not exist in the database, and what it has committed is not
  overwritten) and `Barred` (a call that began after the revocation stops at
  its reads).  `OneOwner` alone is not inductive: that a commit replaces nothing
  needs that no other transaction holds the row.
- `PreviewsAreHonestHolds`, for every document and every list of sensitive paths,
  those through lists exempt.
  `redact` is a fold, so the proof shows first that the function the fold is
  defined by exists (`FoldExists`) and that its values are those of the loop
  (`AfterTurns`), and then, path by path, that the result so far is honest
  (`HonestTurn`).

**`FleetProofs`** proves `TypeCorrect`: Fleet's `TypeOK`, with `FromPublished`: no
version is cached, decided under or asked under before it is published.

**`LeastElement`** has the lemmas about naturals: a least element, a greatest one of
a bounded set, and induction.  The library's induction theorems take an
operator as a parameter, which the provers cannot instantiate; `Induction` takes
the set the predicate holds of instead, and follows from the least element.

Assumptions: those named `...Assumption` in Approvals, Executions, PolicyBundles,
PolicyStore, PolicyEngine, Registry, Gateway and Fleet (`None` is no other
value, bounds are natural, sets of calls and rows finite where they are counted,
approvers are users, a registration inserts its own row first, and the like),
which TLC evaluates on every run of their modules.

Model-checked only:

- liveness (`EveryCallReturns`, `EveryActionPerformed`, `NewPolicyGoverns`), which
  rests on fairness and ENABLED, beyond these provers;
- the three properties the code does not have (section 4), which runs refute.  With
  the commit first, `EvidenceBeforeEffect` is a theorem.

## 6. Not modelled

- Tokens beyond their verdict: a request is authentic and matches its token, or
  not, and a token is issued or refused.  Claims are copied, and a token's
  expiry ends what `validate_token` accepts; nothing else reads it.
- The order of the timeline.  `created_at` is the transaction's start, and ties
  are broken by a random id, so `list_events` need not list events in the order
  they happened; no code relies on that order.  That the events exist is
  part of `EvidenceKept`.
- The UI's pages (its decision form calls `decide_approval`, which is
  modelled), webhook delivery (a failed one is logged, nothing reads it),
  settings, health, message shapes, scripts and deployment: no behaviour of
  their own.
- Risk scores, reason codes, traces, result metadata, listing endpoints and
  pagination: they change no modelled state.
- The time in `revoked_at`: two racing revocations leave the second one's
  (`Update`), and no decision reads it.
- Nesting in the canonical form (sorted keys of nested objects, items of
  lists): arguments are paths with values.  SHA-256 is taken as injective.

The gateway model takes the services as their abstract specifications have
them, but for the loss of what was answered and not committed, which it models
itself; how the transactions behind an answer interleave is checked in the
services' own modules.

## 7. Plan

The parts that carry the system's promises are modelled, and the safety
properties the runs check are proved.  What could follow is shorter proofs: the
rollback and local-step lemmas of `ApprovalsProofs` and `ExecutionsProofs` have
the same shape.
