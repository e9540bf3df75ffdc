------------------------------- MODULE Fleet --------------------------------
(***************************************************************************)
(* Several gateway processes, one control plane, one agent that wants one  *)
(* action after another, each of which needs a human.  Every gateway keeps *)
(* its own verified policy (PolicyStore), so for a while two of them decide*)
(* under different policy versions, and each voids the approvals given     *)
(* under the other's: this module is about that ending.                    *)
(*                                                                         *)
(* It composes what the other modules show of the parts: a resolution is   *)
(* one step (Approvals implements ApprovalLifecycle), and so is a refresh  *)
(* of the cache, whose answer is the version published last (PolicyStore). *)
(* The agent may have one attempt at each gateway at the same time, since  *)
(* it retries elsewhere without waiting.  Every version asks for approval, *)
(* and the actions carry no idempotency key.                               *)
(***************************************************************************)
EXTENDS Naturals

CONSTANTS
    Gateways,
    MaxVersion,   \* bound on the policy versions published
    MaxSetbacks   \* bound on rejections, and on requests or grants that lapse

ASSUME FleetAssumption == MaxVersion \in Nat \ {0} /\ MaxSetbacks \in Nat

Versions == 1..MaxVersion

VARIABLES
    latest,    \* the version published last
    cache,     \* gateway -> the version it decides under; 0 for none
    stale,     \* gateways whose entry is older than policy_refresh_seconds
    attempt,   \* gateway -> the stage of its attempt and the version it decided under
    row,       \* the live approval of the action
    wanted,    \* the agent wants an action that was not performed yet
    setbacks

vars == <<latest, cache, stale, attempt, row, wanted, setbacks>>

Idle == [stage |-> "idle", version |-> 0]
NoRow == [state |-> "NONE", version |-> 0]

TypeOK ==
    /\ latest \in Versions
    /\ cache \in [Gateways -> 0..MaxVersion]
    /\ stale \subseteq Gateways
    /\ attempt \in [Gateways -> [stage: {"idle", "resolve", "execute"}, version: 0..MaxVersion]]
    /\ row \in [state: {"NONE", "PENDING", "APPROVED", "REJECTED"}, version: 0..MaxVersion]
    /\ wanted \in BOOLEAN
    /\ setbacks \in 0..MaxSetbacks

Init ==
    /\ latest = 1
    /\ cache = [g \in Gateways |-> 0]
    /\ stale = {}
    /\ attempt = [g \in Gateways |-> Idle]
    /\ row = NoRow
    /\ wanted = TRUE
    /\ setbacks = 0

-----------------------------------------------------------------------------
(* PolicyStore.get: a verified entry that is not too old serves unasked.    *)
Fresh(g) == cache[g] # 0 /\ g \notin stale

MayTry(g) == wanted /\ attempt[g].stage = "idle"

Decide(g, v) == attempt' = [attempt EXCEPT ![g] = [stage |-> "resolve", version |-> v]]

Finish(g) == attempt' = [attempt EXCEPT ![g] = Idle]

Serve(g) ==
    /\ MayTry(g) /\ Fresh(g)
    /\ Decide(g, cache[g])
    /\ UNCHANGED <<latest, cache, stale, row, wanted, setbacks>>

MutRefresh(g) ==
    /\ MayTry(g) /\ cache[g] = 0
    /\ cache' = [cache EXCEPT ![g] = latest]
    /\ stale' = stale \ {g}
    /\ Decide(g, latest)
    /\ UNCHANGED <<latest, row, wanted, setbacks>>

Refresh(g) ==
    /\ MayTry(g) /\ ~Fresh(g)
    /\ cache' = [cache EXCEPT ![g] = latest]
    /\ stale' = stale \ {g}
    /\ Decide(g, latest)
    /\ UNCHANGED <<latest, row, wanted, setbacks>>

(* The refresh fails: what was verified before decides.  With nothing       *)
(* verified the attempt is refused (503), and nothing changes.              *)
KeepOld(g) ==
    /\ MayTry(g) /\ ~Fresh(g) /\ cache[g] # 0
    /\ Decide(g, cache[g])
    /\ UNCHANGED <<latest, cache, stale, row, wanted, setbacks>>

-----------------------------------------------------------------------------
(* resolve_approval: an approval under the same version is used up.         *)
Consume(g) ==
    /\ attempt[g].stage = "resolve"
    /\ row = [state |-> "APPROVED", version |-> attempt[g].version]
    /\ row' = NoRow
    /\ attempt' = [attempt EXCEPT ![g].stage = "execute"]
    /\ UNCHANGED <<latest, cache, stale, wanted, setbacks>>

Request(v) == [state |-> "PENDING", version |-> v]

MutAfterResolve(v) == IF row.state = "NONE" THEN Request(v) ELSE row

(* What a resolution leaves that consumes nothing: an approval under        *)
(* another version is voided, a rejection or a pending request stands,      *)
(* whatever its version, and otherwise there is a new request.              *)
AfterResolve(v) == IF row.state \in {"PENDING", "REJECTED"} THEN row ELSE Request(v)

Pause(g) ==
    LET v == attempt[g].version
    IN  /\ attempt[g].stage = "resolve"
        /\ row # [state |-> "APPROVED", version |-> v]
        /\ row' = AfterResolve(v)
        /\ Finish(g)
        /\ UNCHANGED <<latest, cache, stale, wanted, setbacks>>

(* The side effect.  The agent learns of it, or not and asks again.         *)
Perform(g) ==
    /\ attempt[g].stage = "execute"
    /\ wanted' = FALSE
    /\ Finish(g)
    /\ UNCHANGED <<latest, cache, stale, row, setbacks>>

(* A call to the control plane fails; the attempt ends in 500 or 502.       *)
Fail(g) ==
    /\ attempt[g].stage = "resolve"
    /\ Finish(g)
    /\ UNCHANGED <<latest, cache, stale, row, wanted, setbacks>>

(* A gateway restarts: its cache is in memory.                              *)
Restart(g) ==
    /\ cache[g] # 0
    /\ cache' = [cache EXCEPT ![g] = 0]
    /\ stale' = stale \ {g}
    /\ Finish(g)
    /\ UNCHANGED <<latest, row, wanted, setbacks>>

Age(g) ==
    /\ Fresh(g)
    /\ stale' = stale \cup {g}
    /\ UNCHANGED <<latest, cache, attempt, row, wanted, setbacks>>

Publish ==
    /\ latest < MaxVersion
    /\ latest' = latest + 1
    /\ UNCHANGED <<cache, stale, attempt, row, wanted, setbacks>>

-----------------------------------------------------------------------------
(* decide_approval                                                          *)
Approve ==
    /\ row.state = "PENDING"
    /\ row' = [row EXCEPT !.state = "APPROVED"]
    /\ UNCHANGED <<latest, cache, stale, attempt, wanted, setbacks>>

Reject ==
    /\ row.state = "PENDING"
    /\ setbacks < MaxSetbacks
    /\ setbacks' = setbacks + 1
    /\ row' = [row EXCEPT !.state = "REJECTED"]
    /\ UNCHANGED <<latest, cache, stale, attempt, wanted>>

(* expires_at passes before anyone decides, or before the agent comes back. *)
Lapse ==
    /\ row.state \in {"PENDING", "APPROVED"}
    /\ setbacks < MaxSetbacks
    /\ setbacks' = setbacks + 1
    /\ row' = NoRow
    /\ UNCHANGED <<latest, cache, stale, attempt, wanted>>

(* A rejection holds until its time is over.                                *)
RejectionEnds ==
    /\ row.state = "REJECTED"
    /\ row' = NoRow
    /\ UNCHANGED <<latest, cache, stale, attempt, wanted, setbacks>>

WantAnother ==
    /\ ~wanted
    /\ wanted' = TRUE
    /\ UNCHANGED <<latest, cache, stale, attempt, row, setbacks>>

Try(g) == Serve(g) \/ Refresh(g) \/ KeepOld(g)

Next ==
    \/ \E g \in Gateways :
         \/ Serve(g) \/ Refresh(g) \/ KeepOld(g)
         \/ Consume(g) \/ Pause(g) \/ Perform(g) \/ Fail(g)
         \/ Restart(g) \/ Age(g)
    \/ Publish \/ Approve \/ Reject \/ Lapse \/ RejectionEnds \/ WantAnother

Spec == Init /\ [][Next]_vars

(* The agent keeps trying, though at no gateway in particular; what keeps   *)
(* being attempted succeeds at some time; time passes; and someone decides. *)
Fairness ==
    /\ WF_vars(\E g \in Gateways : Try(g))
    /\ \A g \in Gateways :
         /\ SF_vars(Refresh(g)) /\ SF_vars(Pause(g)) /\ SF_vars(Consume(g))
         /\ SF_vars(Perform(g)) /\ WF_vars(Age(g))
    /\ SF_vars(Approve)
    /\ WF_vars(RejectionEnds)

FairSpec == Spec /\ Fairness

-----------------------------------------------------------------------------
(* Properties *)

(* The war of voiding ends: whatever gateways the agent tries, restarting,  *)
(* refreshing or failing to, an action it wants is performed, although each *)
(* gateway voids what was approved under another version than its own.      *)
EveryActionPerformed == wanted ~> ~wanted

(* A publication reaches the whole fleet: from some time on, no attempt is  *)
(* decided under an older version, whatever was cached.                     *)
NewPolicyGoverns ==
    \A v \in Versions :
        (latest = v) ~> [](\A g \in Gateways :
                              attempt[g].stage = "resolve" => attempt[g].version >= v)
=============================================================================
