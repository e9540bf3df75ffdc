--------------------------- MODULE GatewayProofs ---------------------------
(***************************************************************************)
(* Proofs about Gateway, for any attempts, requests, policies and rounds   *)
(* of approval.  First what an attempt has done follows from where it is,  *)
(* whatever the services do; then the ledger's promises, which tie a row   *)
(* to its one claimant; last the count of the effects under an approval    *)
(* rule against the approvals consumed for them, where every action of     *)
(* the services counts.                                                    *)
(***************************************************************************)
EXTENDS Gateway, TLAPS, FiniteSetTheorems

(* What the proofs need of the types.                                       *)
PlacesOK ==
    /\ pc \in [Attempts -> PC]
    /\ DOMAIN decided = Attempts
    /\ \A t \in Attempts : "revoked" \in DOMAIN decided[t]
    /\ effects \subseteq Attempts /\ barred \subseteq Attempts

(* Past the recording of its decision, and not refused.                     *)
Proceeding == {"resolve", "claim", "execute", "complete"}

(* Who may have had an effect: no one who has yet to record or to claim.    *)
EffectsLast == \A t \in effects : pc[t] \in {"complete", "done", "dead"}

(* Where the commit comes first, whoever proceeds has its event.            *)
EvidenceInv ==
    CommitFirst => /\ effects \subseteq events
                   /\ \A t \in Attempts : pc[t] \in Proceeding => t \in events

(* An attempt made after the revocation reads it, and goes nowhere but to a *)
(* refusal: the only decision it can reach is freeze.                       *)
BarredInv ==
    \A t \in barred :
        /\ revoked
        /\ t \notin effects
        /\ pc[t] \notin Proceeding \cup {"idle", "record"}
        /\ pc[t] \in {"tool", "bundle"} => decided[t].revoked

Inv == PlacesOK /\ EffectsLast /\ EvidenceInv /\ BarredInv

LEMMA InitInv == Init => Inv
  BY GatewayAssumption
     DEF Init, Inv, PlacesOK, EffectsLast, EvidenceInv, BarredInv, Proceeding, PC,
         Undecided, Effect

(* A step of the world around the attempts: registry, humans, commits.      *)
LEMMA Around ==
    ASSUME Inv, UNCHANGED <<pc, decided, effects, barred>>,
           events \subseteq events', revoked => revoked'
    PROVE  Inv'
  BY DEF Inv, PlacesOK, EffectsLast, EvidenceInv, BarredInv, Proceeding

(* A step of an attempt that has no effect, and proceeds only with its event*)
(* on record and when it was not barred.                                    *)
LEMMA Moves ==
    ASSUME Inv, NEW t \in Attempts, NEW l \in PC \ {"idle"},
           pc[t] \notin {"done", "dead"},
           pc' = [pc EXCEPT ![t] = l],
           UNCHANGED <<revoked, decided, effects, barred>>,
           events \subseteq events',
           l \in Proceeding => pc[t] \in Proceeding \cup {"record"},
           l \in Proceeding /\ CommitFirst => t \in events',
           l = "record" => FALSE,
           l \in {"tool", "bundle"} => pc[t] = "tool" /\ l = "bundle",
           pc[t] = "complete" => l \in {"done", "dead"}
    PROVE  Inv'
<1>1. PlacesOK'
  BY DEF Inv, PlacesOK
<1>2. EffectsLast'
  BY DEF Inv, PlacesOK, EffectsLast
<1>3. EvidenceInv'
  BY DEF Inv, PlacesOK, EvidenceInv
<1>4. BarredInv'
  BY DEF Inv, PlacesOK, BarredInv, Proceeding
<1> QED BY <1>1, <1>2, <1>3, <1>4 DEF Inv

(* The same when t answers, whatever it was at.                             *)
LEMMA Answers ==
    ASSUME Inv, NEW t \in Attempts, NEW status, Answer(t, status),
           pc[t] \notin {"idle", "done", "dead"},
           UNCHANGED <<revoked, effects, barred>>, events \subseteq events'
    PROVE  Inv'
<1>1. pc' = [pc EXCEPT ![t] = "done"] /\ UNCHANGED decided
  BY DEF Answer
<1> QED BY <1>1, Moves DEF PC, Proceeding

LEMMA InvStep == Inv /\ [Next]_vars => Inv'
<1> SUFFICES ASSUME Inv, [Next]_vars PROVE Inv'
  OBVIOUS
<1> USE DEF service, effect, registry, evidence
<1>1. ASSUME NEW t \in Attempts, NEW r \in Requests, Submit(t, r) PROVE Inv'
  <2>1. PlacesOK'
    BY <1>1 DEF Submit, Inv, PlacesOK, PC
  <2>2. EffectsLast' /\ EvidenceInv'
    BY <1>1 DEF Submit, Inv, PlacesOK, EffectsLast, EvidenceInv, Proceeding
  <2>3. BarredInv'
    BY <1>1 DEF Submit, Inv, PlacesOK, EffectsLast, BarredInv, Proceeding
  <2> QED BY <2>1, <2>2, <2>3 DEF Inv
<1>2. ASSUME NEW t \in Attempts, NEW r \in Requests, Unauthorized(t, r) PROVE Inv'
  BY <1>2 DEF Unauthorized, Inv, PlacesOK, PC, EffectsLast, EvidenceInv, BarredInv,
              Proceeding
<1>3. ASSUME NEW t \in Attempts, GetAgent(t) PROVE Inv'
  <2>1. CASE Goto(t, "refuse")
    BY <1>3, <2>1, Moves DEF GetAgent, Goto, PC, Proceeding
  <2>2. CASE /\ pc' = [pc EXCEPT ![t] = "tool"]
             /\ decided' = [decided EXCEPT ![t].revoked = revoked]
    <3>1. pc[t] = "agent" /\ UNCHANGED <<revoked, events, effects, barred>>
      BY <1>3 DEF GetAgent
    <3>2. PlacesOK'
      BY <2>2, <3>1 DEF Inv, PlacesOK, PC
    <3>3. EffectsLast' /\ EvidenceInv'
      BY <2>2, <3>1 DEF Inv, PlacesOK, EffectsLast, EvidenceInv, Proceeding
    <3>4. BarredInv'
      BY <2>2, <3>1 DEF Inv, PlacesOK, BarredInv, Proceeding
    <3> QED BY <3>2, <3>3, <3>4 DEF Inv
  <2> QED BY <1>3, <2>1, <2>2 DEF GetAgent
<1>4. ASSUME NEW t \in Attempts, GetTool(t) PROVE Inv'
  <2>1. pc[t] = "tool" /\ UNCHANGED <<revoked, events, effects, barred>>
    BY <1>4 DEF GetTool
  <2>2. ASSUME NEW l \in {"refuse", "bundle"}, Goto(t, l) PROVE Inv'
    BY <2>1, <2>2, Moves DEF Goto, PC, Proceeding
  <2> QED BY <1>4, <2>2 DEF GetTool
<1>5. ASSUME NEW t \in Attempts, Evaluate(t) PROVE Inv'
  <2>1. PICK v \in 1..latest :
          LET e == Decision(decided[t].revoked, v, req[t])
          IN  /\ decided' = [decided EXCEPT ![t] =
                     [revoked |-> decided[t].revoked, version |-> v, effect |-> e]]
              /\ pc' = [pc EXCEPT ![t] = IF e \in {"deny", "freeze"} THEN "refuse"
                                                                     ELSE "record"]
    BY <1>5 DEF Evaluate
  <2>2. pc[t] = "bundle" /\ UNCHANGED <<revoked, events, effects, barred>>
    BY <1>5 DEF Evaluate
  <2>3. decided[t].revoked => Decision(decided[t].revoked, v, req[t]) = "freeze"
    BY DEF Decision
  <2>4. PlacesOK'
    BY <2>1, <2>2 DEF Inv, PlacesOK, PC
  <2>5. EffectsLast' /\ EvidenceInv'
    BY <2>1, <2>2 DEF Inv, PlacesOK, EffectsLast, EvidenceInv, Proceeding
  <2>6. BarredInv'
    BY <2>1, <2>2, <2>3 DEF Inv, PlacesOK, BarredInv, Proceeding
  <2> QED BY <2>4, <2>5, <2>6 DEF Inv
<1>6. ASSUME NEW t \in Attempts, NoBundle(t) PROVE Inv'
  BY <1>6, Moves DEF NoBundle, Goto, PC, Proceeding
<1>7. ASSUME NEW t \in Attempts, Refuse(t) PROVE Inv'
  <2>1. pc[t] \in {"refuse", "unavailable"} /\ \E status : Answer(t, status)
    BY <1>7 DEF Refuse
  <2>2. events \subseteq events' /\ UNCHANGED <<revoked, effects, barred>>
    BY <1>7 DEF Refuse, Ingest
  <2> QED BY <2>1, <2>2, Answers
<1>8. ASSUME NEW t \in Attempts, Record(t) PROVE Inv'
  <2>1. /\ pc[t] = "record"
        /\ events \subseteq events' /\ (CommitFirst => t \in events')
        /\ UNCHANGED <<revoked, effects, barred>>
    BY <1>8 DEF Record, Ingest
  <2>2. CASE Answer(t, 500)
    BY <2>1, <2>2, Answers
  <2>3. ASSUME NEW l \in {"resolve", "claim", "execute"}, Goto(t, l) PROVE Inv'
    BY <2>1, <2>3, Moves DEF Goto, PC, Proceeding
  <2> QED BY <1>8, <2>2, <2>3 DEF Record, Reply, Execution
<1>9. ASSUME NEW t \in Attempts, NotRecorded(t) \/ NotResolved(t) \/ KeyReused(t)
                                   \/ NotClaimed(t) \/ Unreachable(t)
      PROVE  Inv'
  <2>1. /\ \E status : Answer(t, status)
        /\ pc[t] \notin {"idle", "done", "dead"}
        /\ UNCHANGED <<revoked, events, effects, barred>>
    BY <1>9 DEF NotRecorded, NotResolved, KeyReused, NotClaimed, Unreachable
  <2> QED BY <2>1, Answers
<1>10. ASSUME NEW t \in Attempts, Consume(t) \/ Claim(t) PROVE Inv'
  <2>1. /\ pc[t] \in {"resolve", "claim"}
        /\ UNCHANGED <<revoked, events, effects, barred>>
    BY <1>10 DEF Consume, Claim
  <2>2. CommitFirst => t \in events
    BY <2>1 DEF Inv, EvidenceInv, Proceeding
  <2>3. CASE Answer(t, 500)
    BY <2>1, <2>3, Answers
  <2>4. ASSUME NEW l \in {"claim", "execute"}, Goto(t, l) PROVE Inv'
    BY <2>1, <2>2, <2>4, Moves DEF Goto, PC, Proceeding
  <2> QED BY <1>10, <2>3, <2>4 DEF Consume, Claim, Reply, Execution
<1>11. ASSUME NEW t \in Attempts, Pause(t) \/ Complete(t) PROVE Inv'
  <2>1. /\ pc[t] \in {"resolve", "complete"}
        /\ UNCHANGED <<revoked, events, effects, barred>>
        /\ \E status : Answer(t, status)
    BY <1>11 DEF Pause, Complete
  <2> QED BY <2>1, Answers
<1>12. ASSUME NEW t \in Attempts, Duplicate(t) PROVE Inv'
  BY <1>12, Moves DEF Duplicate, PC, Proceeding
<1>13. ASSUME NEW t \in Attempts, Execute(t) PROVE Inv'
  <2>1. PICK l \in {"complete", "done"} : pc' = [pc EXCEPT ![t] = l]
    BY <1>13 DEF Execute
  <2>2. /\ pc[t] = "execute"
        /\ effects' \in {effects \cup {t}, effects}
        /\ UNCHANGED <<revoked, events, decided, barred>>
    BY <1>13 DEF Execute, Perform
  <2>3. PlacesOK'
    BY <2>1, <2>2 DEF Inv, PlacesOK, PC
  <2>4. EffectsLast' /\ EvidenceInv'
    BY <2>1, <2>2 DEF Inv, PlacesOK, EffectsLast, EvidenceInv, Proceeding
  <2>5. BarredInv'
    BY <2>1, <2>2 DEF Inv, PlacesOK, BarredInv, Proceeding
  <2> QED BY <2>3, <2>4, <2>5 DEF Inv
<1>14. ASSUME NEW t \in Attempts, Crash(t) PROVE Inv'
  BY <1>14, Moves DEF Crash, Goto, PC, Proceeding
<1>15. ASSUME NEW t \in Attempts,
              \/ CommitEvent(t) \/ LoseEvent(t) \/ CommitClaim(t) \/ LoseClaim(t)
              \/ CommitConsent(t) \/ LoseConsent(t)
       PROVE  Inv'
  BY <1>15, Around DEF CommitEvent, LoseEvent, CommitClaim, LoseClaim, CommitConsent,
                       LoseConsent, attempt
<1>16. CASE Revoke \/ Publish
  BY <1>16, Around DEF Revoke, Publish, attempt
<1>17. ASSUME NEW i \in ApprovalIds, NEW u \in Users,
              NEW to \in {"APPROVED", "REJECTED"}, Decide(i, u, to)
       PROVE  Inv'
  BY <1>17, Around DEF Decide, attempt
<1>18. CASE UNCHANGED vars
  BY <1>18, Around DEF vars, attempt
<1> QED BY <1>1, <1>2, <1>3, <1>4, <1>5, <1>6, <1>7, <1>8, <1>9, <1>10, <1>11,
           <1>12, <1>13, <1>14, <1>15, <1>16, <1>17, <1>18 DEF Next

(* Where the commit comes first, an effect's decision event is in the       *)
(* database before the effect, whatever fails and whoever dies.             *)
THEOREM EvidenceBeforeEffectHolds == CommitFirst => (Spec => []EvidenceBeforeEffect)
<1> SUFFICES ASSUME CommitFirst PROVE Spec => []EvidenceBeforeEffect
  OBVIOUS
<1>1. Inv => EvidenceBeforeEffect
  BY DEF Inv, EvidenceInv, EvidenceBeforeEffect
<1> QED BY <1>1, InitInv, InvStep, PTL DEF Spec

(* The kill switch, in both orders of answer and commit.                    *)
THEOREM RevokedDoNothingHolds == Spec => []RevokedDoNothing
<1>1. Inv => RevokedDoNothing
  BY DEF Inv, BarredInv, RevokedDoNothing
<1> QED BY <1>1, InitInv, InvStep, PTL DEF Spec

-----------------------------------------------------------------------------
(* Types.                                                                   *)

CoreOK ==
    /\ revoked \in BOOLEAN
    /\ latest \in 0..MaxVersion
    /\ events \subseteq Attempts
    /\ open \subseteq Attempts
    /\ pc \in [Attempts -> PC]
    /\ req \in [Attempts -> Requests \cup {None}]
    /\ decided \in [Attempts -> [revoked: BOOLEAN, version: 0..MaxVersion, effect: Effect]]
    /\ tried \in [Attempts -> Outcome \cup {"NONE"}]
    /\ answer \in [Attempts -> Response]
    /\ effects \subseteq Attempts
    /\ barred \subseteq Attempts

LedgerOK ==
    /\ ledger \in [Keys -> Entry]
    /\ won \in [Keys -> {0, 1}]
    /\ claiming \subseteq Attempts
    /\ lostClaims \subseteq Attempts

(* An attempt has a request once it began, and a key where it uses one.     *)
Started ==
    \A t \in Attempts :
        /\ pc[t] # "idle" => req[t] \in Requests
        /\ pc[t] \in {"claim", "complete"} => Key[req[t]] \in Keys

TypeInv == CoreOK /\ Started /\ LedgerOK

LEMMA InitTypeInv == Init => TypeInv
<1> SUFFICES ASSUME Init PROVE TypeInv
  OBVIOUS
<1> USE GatewayAssumption
<1>1. /\ Undecided \in [revoked: BOOLEAN, version: 0..MaxVersion, effect: Effect]
      /\ NoAnswer \in Response
  BY DEF Undecided, Effect, NoAnswer, Response
<1>2. LedgerOK
  BY DEF Init, LedgerOK, Ledger!Init, Ledger!Nothing, Entry, Outcome
<1>3. CoreOK
  <2>1. "idle" \in PC /\ FALSE \in BOOLEAN /\ 0 \in 0..MaxVersion
    BY DEF PC
  <2> QED BY <1>1, <2>1 DEF Init, CoreOK
<1>4. Started
  BY DEF Init, Started
<1> QED BY <1>2, <1>3, <1>4 DEF TypeInv

(* An attempt that goes on, or answers.                                     *)
AttemptOK ==
    /\ pc \in [Attempts -> PC]
    /\ req \in [Attempts -> Requests \cup {None}]
    /\ decided \in [Attempts -> [revoked: BOOLEAN, version: 0..MaxVersion, effect: Effect]]
    /\ tried \in [Attempts -> Outcome \cup {"NONE"}]
    /\ answer \in [Attempts -> Response]
    /\ Started

LEMMA TypeParts ==
    TypeInv <=> /\ revoked \in BOOLEAN /\ latest \in 0..MaxVersion
                /\ events \subseteq Attempts /\ open \subseteq Attempts
                /\ effects \subseteq Attempts /\ barred \subseteq Attempts
                /\ AttemptOK /\ LedgerOK
  BY DEF TypeInv, CoreOK, AttemptOK

LEMMA GotoType ==
    ASSUME AttemptOK, NEW t \in Attempts, NEW l \in PC, pc[t] # "idle",
           l \in {"claim", "complete"} => Key[req[t]] \in Keys, Goto(t, l)
    PROVE  AttemptOK'
  BY DEF AttemptOK, Started, Goto

Statuses == {200, 202, 401, 403, 409, 500, 502, 503}

LEMMA StatusType ==
    ASSUME AttemptOK, NEW t \in Attempts, NEW status \in Statuses,
           answer' = [answer EXCEPT ![t].status = status]
    PROVE  answer' \in [Attempts -> Response]
<1> DEFINE a == [answer[t] EXCEPT !.status = status]
<1>1. answer \in [Attempts -> Response] /\ answer[t] \in Response
  BY DEF AttemptOK
<1>2. a \in Response
  BY <1>1 DEF Response, Statuses
<1>3. answer' = [answer EXCEPT ![t] = a]
  OBVIOUS
<1> HIDE DEF a
<1> QED BY <1>1, <1>2, <1>3

LEMMA AnswerType ==
    ASSUME AttemptOK, NEW t \in Attempts, pc[t] # "idle",
           NEW status \in Statuses, Answer(t, status)
    PROVE  AttemptOK'
<1>1. answer' \in [Attempts -> Response]
  BY StatusType DEF Answer
<1>2. "done" \in PC
  BY DEF PC
<1> QED BY <1>1, <1>2 DEF AttemptOK, Started, Answer

LEMMA ReplyType ==
    ASSUME AttemptOK, NEW t \in Attempts, NEW l \in PC, pc[t] # "idle",
           l \in {"claim", "complete"} => Key[req[t]] \in Keys, Reply(t, l)
    PROVE  AttemptOK'
  BY GotoType, AnswerType DEF Reply, Statuses

(* The execution service answers within its types.                          *)
LEMMA LedgerType ==
    ASSUME LedgerOK, NEW k,
           \/ \E h \in Hashes : Ledger!Claim(k, h)
           \/ \E to \in Outcome \cup {"NONE"} : Ledger!Complete(k, to)
    PROVE  ledger' \in [Keys -> Entry] /\ won' \in [Keys -> {0, 1}]
  BY DEF LedgerOK, Ledger!Claim, Ledger!Complete, Ledger!Nothing, Entry, Outcome

LEMMA TypeStep == TypeInv /\ [Next]_vars => TypeInv'
<1> SUFFICES ASSUME TypeInv, [Next]_vars PROVE TypeInv'
  OBVIOUS
<1> USE GatewayAssumption DEF service, effect, registry, execution, claims, evidence
<1>a. /\ revoked \in BOOLEAN /\ latest \in 0..MaxVersion
      /\ events \subseteq Attempts /\ open \subseteq Attempts
      /\ effects \subseteq Attempts /\ barred \subseteq Attempts
      /\ AttemptOK /\ LedgerOK
  BY TypeParts
<1>e. /\ 200 \in Statuses /\ 202 \in Statuses /\ 401 \in Statuses /\ 403 \in Statuses
      /\ 409 \in Statuses /\ 500 \in Statuses /\ 502 \in Statuses /\ 503 \in Statuses
  BY DEF Statuses
<1>b. ASSUME AttemptOK', UNCHANGED <<registry, execution, effects, barred>>,
             events' \subseteq Attempts, open' \subseteq Attempts
      PROVE  TypeInv'
  BY <1>a, <1>b, TypeParts DEF LedgerOK, TypeInv, CoreOK, AttemptOK, Started
<1>f. UNCHANGED attempt => AttemptOK'
  <2> HAVE UNCHANGED attempt
  <2>1. UNCHANGED <<pc, req, decided, tried, answer>>
    BY DEF attempt
  <2> QED BY <1>a, <2>1 DEF AttemptOK, Started
<1>c. ASSUME NEW t \in Attempts, pc[t] # "idle"
      PROVE  \/ Execution(t) = "execute"
             \/ Execution(t) = "claim" /\ Key[req[t]] \in Keys
  BY <1>a, <1>c DEF Execution, AttemptOK, Started
<1>1. ASSUME NEW t \in Attempts, NEW r \in Requests, Submit(t, r) PROVE TypeInv'
  <2>1. AttemptOK' /\ barred' \subseteq Attempts
    BY <1>1, <1>a DEF Submit, AttemptOK, Started, PC
  <2> QED BY <1>1, <1>a, <2>1 DEF Submit, LedgerOK, TypeInv, CoreOK, AttemptOK
<1>2. ASSUME NEW t \in Attempts, NEW r \in Requests, Unauthorized(t, r) PROVE TypeInv'
  <2>1. PICK status \in Statuses : answer' = [answer EXCEPT ![t].status = status]
    BY <1>2, <1>e DEF Unauthorized
  <2>3. answer' \in [Attempts -> Response] /\ "done" \in PC
    BY <1>a, <2>1, StatusType DEF PC
  <2>2. AttemptOK'
    BY <1>2, <1>a, <2>1, <2>3 DEF Unauthorized, AttemptOK, Started
  <2> QED BY <1>2, <1>a, <1>b, <2>2 DEF Unauthorized
<1>3. ASSUME NEW t \in Attempts, GetAgent(t) PROVE TypeInv'
  <2>1. AttemptOK'
    <3>1. CASE Goto(t, "refuse")
      BY <1>3, <1>a, <3>1, GotoType DEF GetAgent, PC
    <3>2. CASE /\ pc' = [pc EXCEPT ![t] = "tool"]
               /\ decided' = [decided EXCEPT ![t].revoked = revoked]
               /\ UNCHANGED <<req, tried, answer>>
      <4>1. decided' \in [Attempts -> [revoked: BOOLEAN, version: 0..MaxVersion,
                                       effect: Effect]]
        BY <1>a, <3>2 DEF AttemptOK
      <4> QED BY <1>3, <1>a, <3>2, <4>1 DEF GetAgent, AttemptOK, Started, PC
    <3> QED BY <1>3, <3>1, <3>2 DEF GetAgent
  <2> QED BY <1>3, <1>a, <1>b, <2>1 DEF GetAgent
<1>4. ASSUME NEW t \in Attempts, GetTool(t) PROVE TypeInv'
  <2>1. PICK l \in PC \ {"claim", "complete"} : Goto(t, l)
    BY <1>4 DEF GetTool, PC
  <2>2. AttemptOK'
    BY <1>4, <1>a, <2>1, GotoType DEF GetTool
  <2> QED BY <1>4, <1>a, <1>b, <2>2 DEF GetTool
<1>5. ASSUME NEW t \in Attempts, Evaluate(t) PROVE TypeInv'
  <2>1. PICK v \in 1..latest :
          LET e == Decision(decided[t].revoked, v, req[t])
          IN  /\ decided' = [decided EXCEPT ![t] =
                     [revoked |-> decided[t].revoked, version |-> v, effect |-> e]]
              /\ pc' = [pc EXCEPT ![t] = IF e \in {"deny", "freeze"} THEN "refuse"
                                                                     ELSE "record"]
    BY <1>5 DEF Evaluate
  <2> DEFINE e == Decision(decided[t].revoked, v, req[t])
  <2>2. v \in Versions
    BY <1>a DEF Versions
  <2>3. req[t] \in Requests
    BY <1>5, <1>a DEF Evaluate, AttemptOK, Started
  <2>4. e \in Effect
    BY <2>2, <2>3 DEF Decision, Effect
  <2>5. [revoked |-> decided[t].revoked, version |-> v, effect |-> e]
          \in [revoked: BOOLEAN, version: 0..MaxVersion, effect: Effect]
    BY <1>a, <2>2, <2>4 DEF AttemptOK, Versions
  <2>6. PICK l \in {"refuse", "record"} : pc' = [pc EXCEPT ![t] = l]
    BY <2>1
  <2>7. decided' = [decided EXCEPT ![t] =
                     [revoked |-> decided[t].revoked, version |-> v, effect |-> e]]
    BY <2>1
  <2> HIDE DEF e
  <2>8. AttemptOK'
    BY <1>5, <1>a, <2>3, <2>5, <2>6, <2>7 DEF Evaluate, AttemptOK, Started, PC
  <2> QED BY <1>5, <1>a, <1>b, <2>8 DEF Evaluate
<1>6. ASSUME NEW t \in Attempts, NoBundle(t) \/ Crash(t) PROVE TypeInv'
  <2>1. PICK l \in PC \ {"claim", "complete"} : Goto(t, l)
    BY <1>6 DEF NoBundle, Crash, PC
  <2>2. AttemptOK'
    BY <1>6, <1>a, <2>1, GotoType DEF NoBundle, Crash
  <2> QED BY <1>6, <1>a, <1>b, <2>2 DEF NoBundle, Crash
<1>7. ASSUME NEW t \in Attempts, Refuse(t) PROVE TypeInv'
  <2>1. PICK status \in {403, 503, 500} : Answer(t, status)
    BY <1>7 DEF Refuse
  <2>2. AttemptOK'
    BY <1>7, <1>a, <1>e, <2>1, AnswerType DEF Refuse
  <2>3. /\ events' \subseteq Attempts /\ open' \subseteq Attempts
        /\ UNCHANGED <<registry, execution, effects, barred>>
    BY <1>7, <1>a DEF Refuse, Ingest
  <2> QED BY <1>b, <2>2, <2>3
<1>8. ASSUME NEW t \in Attempts, Record(t) PROVE TypeInv'
  <2>1. PICK l \in PC : /\ Reply(t, l)
                        /\ l \in {"claim", "complete"} => Key[req[t]] \in Keys
    BY <1>8, <1>c DEF Record, PC
  <2>2. AttemptOK'
    BY <1>8, <1>a, <2>1, ReplyType DEF Record
  <2>3. /\ events' \subseteq Attempts /\ open' \subseteq Attempts
        /\ UNCHANGED <<registry, execution, effects, barred>>
    BY <1>8, <1>a DEF Record, Ingest
  <2> QED BY <1>b, <2>2, <2>3
<1>9. ASSUME NEW t \in Attempts, NotRecorded(t) \/ NotResolved(t) \/ KeyReused(t)
                                   \/ NotClaimed(t) \/ Unreachable(t)
      PROVE  TypeInv'
  <2>1. PICK status \in {502, 409, 500} : Answer(t, status)
    BY <1>9 DEF NotRecorded, NotResolved, KeyReused, NotClaimed, Unreachable
  <2>2. AttemptOK'
    BY <1>9, <1>a, <1>e, <2>1, AnswerType
       DEF NotRecorded, NotResolved, KeyReused, NotClaimed, Unreachable
  <2> QED BY <1>9, <1>a, <1>b, <2>2
          DEF NotRecorded, NotResolved, KeyReused, NotClaimed, Unreachable
<1>10. ASSUME NEW t \in Attempts, Consume(t) \/ Pause(t) PROVE TypeInv'
  <2>1. \/ Reply(t, Execution(t))
        \/ \E status \in {202, 403, 500} : Answer(t, status)
    BY <1>10 DEF Consume, Pause
  <2>2. AttemptOK'
    BY <1>10, <1>a, <1>e, <1>c, <2>1, ReplyType, AnswerType DEF Consume, Pause, PC
  <2> QED BY <1>10, <1>a, <1>b, <2>2 DEF Consume, Pause
<1>11. ASSUME NEW t \in Attempts, Claim(t) \/ Complete(t) PROVE TypeInv'
  <2>1. \/ Reply(t, "execute") \/ \E status \in {200, 500} : Answer(t, status)
    BY <1>11 DEF Claim, Complete
  <2>2. AttemptOK'
    BY <1>11, <1>a, <1>e, <2>1, ReplyType, AnswerType DEF Claim, Complete, PC
  <2>3. Hash[req[t]] \in Hashes /\ tried[t] \in Outcome \cup {"NONE"}
    BY <1>11, <1>a DEF Claim, Complete, AttemptOK, Started
  <2>4. LedgerOK'
    <3>1. CASE UNCHANGED execution
      BY <1>a, <3>1 DEF LedgerOK
    <3>2. CASE ~UNCHANGED execution
      <4>1. ledger' \in [Keys -> Entry] /\ won' \in [Keys -> {0, 1}]
        BY <1>11, <1>a, <2>3, <3>2, LedgerType DEF Claim, Complete
      <4>2. claiming' \subseteq Attempts /\ lostClaims' \subseteq Attempts
        BY <1>11, <1>a, <3>2 DEF Claim, Complete, LedgerOK
      <4> QED BY <4>1, <4>2 DEF LedgerOK
    <3> QED BY <3>1, <3>2
  <2>5. UNCHANGED <<registry, evidence, effects, barred>>
    BY <1>11 DEF Claim, Complete
  <2> QED BY <1>a, <2>2, <2>4, <2>5 DEF TypeInv, CoreOK, AttemptOK
<1>12. ASSUME NEW t \in Attempts, Duplicate(t) PROVE TypeInv'
  <2> DEFINE state == ledger[Key[req[t]]].state
  <2>2. Key[req[t]] \in Keys
    BY <1>12, <1>a DEF Duplicate, AttemptOK, Started
  <2>3. state \in {"NONE", "EXECUTING"} \cup Outcome
    BY <1>a, <2>2 DEF LedgerOK, Entry
  <2>4. AttemptOK'
    BY <1>12, <1>a, <2>3 DEF Duplicate, AttemptOK, Started, PC, Response
  <2> QED BY <1>12, <1>a, <1>b, <2>4 DEF Duplicate
<1>13. ASSUME NEW t \in Attempts, Execute(t) PROVE TypeInv'
  <2>1. PICK ok \in BOOLEAN :
          /\ Perform(t, ok)
          /\ tried' = [tried EXCEPT ![t] = IF ok THEN "SUCCEEDED" ELSE "FAILED"]
          /\ IF Key[req[t]] # None
             THEN pc' = [pc EXCEPT ![t] = "complete"] /\ UNCHANGED answer
             ELSE /\ pc' = [pc EXCEPT ![t] = "done"]
                  /\ answer' = [answer EXCEPT ![t].status = IF ok THEN 200 ELSE 500]
    BY <1>13 DEF Execute
  <2>2. effects' \subseteq Attempts
    BY <1>a, <2>1 DEF Perform
  <2>3. pc[t] = "execute" /\ UNCHANGED <<req, decided>> /\ req[t] \in Requests
    BY <1>13, <1>a DEF Execute, AttemptOK, Started
  <2>4. tried' \in [Attempts -> Outcome \cup {"NONE"}]
    BY <1>a, <2>1 DEF AttemptOK, Outcome
  <2>5. answer' \in [Attempts -> Response] /\ {"complete", "done"} \subseteq PC
    <3>1. CASE UNCHANGED answer
      BY <1>a, <3>1 DEF AttemptOK, PC
    <3>2. CASE ~UNCHANGED answer
      <4>1. PICK status \in Statuses : answer' = [answer EXCEPT ![t].status = status]
        BY <1>e, <2>1, <3>2
      <4> QED BY <1>a, <4>1, StatusType DEF PC
    <3> QED BY <3>1, <3>2
  <2>6. ASSUME Key[req[t]] # None PROVE AttemptOK'
    <3>1. pc' = [pc EXCEPT ![t] = "complete"] /\ Key[req[t]] \in Keys
      BY <2>1, <2>3, <2>6
    <3> QED BY <1>a, <2>3, <2>4, <2>5, <3>1 DEF AttemptOK, Started
  <2>7. ASSUME Key[req[t]] = None PROVE AttemptOK'
    <3>1. pc' = [pc EXCEPT ![t] = "done"]
      BY <2>1, <2>7
    <3> QED BY <1>a, <2>3, <2>4, <2>5, <3>1 DEF AttemptOK, Started
  <2>8. AttemptOK'
    BY <2>6, <2>7
  <2> QED BY <1>13, <1>a, <2>2, <2>8 DEF Execute, LedgerOK, TypeInv, CoreOK, AttemptOK
<1>14. ASSUME NEW t \in Attempts, CommitEvent(t) \/ LoseEvent(t) PROVE TypeInv'
  <2>1. AttemptOK'
    BY <1>14, <1>f DEF CommitEvent, LoseEvent
  <2> QED BY <1>14, <1>a, <1>b, <2>1 DEF CommitEvent, LoseEvent
<1>d. ASSUME UNCHANGED <<attempt, execution, evidence, effects, barred>>,
             revoked' \in BOOLEAN, latest' \in 0..MaxVersion
      PROVE  TypeInv'
  <2>1. AttemptOK'
    BY <1>d, <1>f
  <2> QED BY <1>a, <1>d, <2>1 DEF LedgerOK, TypeInv, CoreOK, AttemptOK
<1>18. ASSUME NEW t \in Attempts, CommitClaim(t) \/ LoseClaim(t) PROVE TypeInv'
  <2>1. AttemptOK'
    BY <1>18, <1>f DEF CommitClaim, LoseClaim
  <2>2. Ledger!Nothing \in Entry
    BY DEF Ledger!Nothing, Entry
  <2>3. ledger' \in [Keys -> Entry] /\ won' \in [Keys -> {0, 1}]
    BY <1>18, <1>a, <2>2 DEF CommitClaim, LoseClaim, LedgerOK
  <2>4. claiming' \subseteq Attempts /\ lostClaims' \subseteq Attempts
    BY <1>18, <1>a DEF CommitClaim, LoseClaim, LedgerOK
  <2>5. UNCHANGED <<registry, evidence, effects, barred>>
    BY <1>18 DEF CommitClaim, LoseClaim
  <2> QED BY <1>a, <2>1, <2>3, <2>4, <2>5 DEF LedgerOK, TypeInv, CoreOK, AttemptOK
<1>19. ASSUME NEW t \in Attempts, CommitConsent(t) \/ LoseConsent(t) PROVE TypeInv'
  BY <1>19, <1>a, <1>d DEF CommitConsent, LoseConsent
<1>15. CASE Revoke \/ Publish
  <2>1. revoked' \in BOOLEAN
    BY <1>15, <1>a DEF Revoke, Publish
  <2>2. latest' \in 0..MaxVersion
    BY <1>15, <1>a DEF Revoke, Publish
  <2>3. UNCHANGED <<attempt, execution, evidence, effects, barred>>
    BY <1>15 DEF Revoke, Publish
  <2> QED BY <1>d, <2>1, <2>2, <2>3
<1>16. CASE UNCHANGED vars
  BY <1>16, <1>a, <1>d DEF vars
<1>17. ASSUME NEW i \in ApprovalIds, NEW u \in Users,
              NEW to \in {"APPROVED", "REJECTED"}, Decide(i, u, to)
       PROVE  TypeInv'
  BY <1>17, <1>a, <1>d DEF Decide
<1> QED BY <1>1, <1>2, <1>3, <1>4, <1>5, <1>6, <1>7, <1>8, <1>9, <1>10, <1>11,
           <1>12, <1>13, <1>14, <1>15, <1>16, <1>17, <1>18, <1>19 DEF Next

LEMMA TypeInvariant == Spec => []TypeInv
  BY InitTypeInv, TypeStep, PTL DEF Spec

LEMMA InvInvariant == Spec => []Inv
  BY InitInv, InvStep, PTL DEF Spec

-----------------------------------------------------------------------------
(* What attempts with an idempotency key do, and what they answer.          *)

(* Whether t performs the action, or did.                                   *)
Executing(t) == pc[t] \in {"execute", "complete"} \/ t \in effects

Keyed(t) == Key[req[t]] # None

(* Whether the entry of t's key, if it has one, stands on t's claim.        *)
Holding(t) == t \notin lostClaims /\ (Executing(t) \/ t \in claiming)

OneHolder ==
    \A s, t \in Attempts :
        Holding(s) /\ Holding(t) /\ Keyed(t) /\ Key[req[s]] = Key[req[t]] => s = t

(* Who holds a key was given it, for the request it has, and nothing is     *)
(* recorded for the key before the claim is committed.                      *)
ClaimHeld ==
    \A t \in Attempts : Holding(t) /\ Keyed(t) =>
        /\ won[Key[req[t]]] = 1
        /\ ledger[Key[req[t]]].hash = Hash[req[t]]
        /\ t \in claiming => ledger[Key[req[t]]].state = "EXECUTING"

(* A claim that is open, or was lost, is one of an attempt that has made it.*)
ClaimsMade ==
    /\ \A t \in claiming : t \notin lostClaims /\ Keyed(t)
    /\ \A t \in claiming \cup lostClaims : pc[t] \in {"execute", "complete", "done", "dead"}

(* A key no one claimed stands for no request, and one recorded SUCCEEDED   *)
(* for one that was performed.                                              *)
LedgerTrue ==
    \A k \in Keys :
        /\ ledger[k].state = "NONE" => ledger[k].hash = None
        /\ ledger[k].state = "SUCCEEDED" =>
             \E s \in effects : Key[req[s]] = k /\ Hash[req[s]] = ledger[k].hash

(* What an attempt goes to report is how its tool call ended; until it is   *)
(* over it has not answered.                                                *)
TriedTrue ==
    \A t \in Attempts :
        /\ pc[t] = "complete" => tried[t] \in Outcome
        /\ pc[t] = "complete" /\ tried[t] = "SUCCEEDED" => t \in effects
        /\ pc[t] \notin {"done", "dead"} => answer[t] = NoAnswer

AnswerTrue(t) ==
    /\ answer[t].status = 200 /\ answer[t].duplicate = "NONE" => t \in effects
    /\ answer[t].duplicate = "SUCCEEDED" =>
         \E s \in effects : Key[req[s]] = Key[req[t]] /\ Hash[req[s]] = Hash[req[t]]
    /\ answer[t].status \in {202, 401, 403, 409, 502, 503} => t \notin effects

OutcomeInv ==
    /\ OneHolder
    /\ ClaimHeld
    /\ ClaimsMade
    /\ LedgerTrue
    /\ TriedTrue
    /\ \A t \in Attempts : AnswerTrue(t)

LEMMA InitOutcomeInv == Init => OutcomeInv
<1> SUFFICES ASSUME Init PROVE OutcomeInv
  OBVIOUS
<1>1. /\ \A t \in Attempts : pc[t] = "idle" /\ answer[t] = NoAnswer
      /\ effects = {}
      /\ claiming = {} /\ lostClaims = {}
      /\ \A k \in Keys : ledger[k] = [state |-> "NONE", hash |-> None]
  BY DEF Init, Ledger!Init, Ledger!Nothing
<1> QED BY <1>1 DEF OutcomeInv, OneHolder, ClaimHeld, ClaimsMade, LedgerTrue, TriedTrue,
                    AnswerTrue, Holding, Executing, NoAnswer

LEMMA HolderKey ==
    ASSUME Inv, TypeInv, OutcomeInv, NEW t \in Attempts, Holding(t), Keyed(t)
    PROVE  req[t] \in Requests /\ Key[req[t]] \in Keys
<1>1. pc[t] # "idle"
  BY DEF Holding, Executing, Inv, EffectsLast, OutcomeInv, ClaimsMade
<1> QED BY <1>1, GatewayAssumption DEF Keyed, TypeInv, Started

(* A step of an attempt that neither claims a key, nor performs, nor reports*)
(* an outcome.                                                              *)
LEMMA QuietOutcome ==
    ASSUME Inv, TypeInv, OutcomeInv, NEW t \in Attempts, NEW l \in PC \ {"complete"},
           pc[t] \notin {"done", "dead"},
           pc'[t] = l,
           \A s \in Attempts \ {t} :
             pc'[s] = pc[s] /\ req'[s] = req[s] /\ answer'[s] = answer[s],
           req'[t] = req[t] \/ pc[t] = "idle",
           l = "execute" => Key[req'[t]] = None,
           pc[t] \in {"execute", "complete"} => l \in {"done", "dead"},
           \/ answer'[t] = NoAnswer
           \/ l = "done" /\ AnswerTrue(t)',
           UNCHANGED <<tried, execution, effects>>
    PROVE  OutcomeInv'
<1>1. /\ pc[t] = "idle" => t \notin effects /\ t \notin claiming
      /\ effects \subseteq Attempts /\ claiming \subseteq Attempts
      /\ lostClaims \subseteq Attempts
      /\ UNCHANGED <<ledger, won, claiming, lostClaims>>
  BY DEF Inv, PlacesOK, EffectsLast, OutcomeInv, ClaimsMade, TypeInv, LedgerOK, execution,
         claims
<1>2. \A s \in Attempts : Holding(s)' /\ Keyed(s)' =>
                            Holding(s) /\ Keyed(s) /\ req'[s] = req[s]
  <2> SUFFICES ASSUME NEW s \in Attempts, Holding(s)', Keyed(s)'
               PROVE  Holding(s) /\ Keyed(s) /\ req'[s] = req[s]
    OBVIOUS
  <2>1. CASE s = t
    <3>1. l # "execute"
      BY <2>1 DEF Keyed
    <3>2. t \in effects \/ t \in claiming
      BY <1>1, <2>1, <3>1 DEF Holding, Executing
    <3> QED BY <1>1, <2>1, <3>2 DEF Holding, Executing, Keyed
  <2>2. CASE s # t
    BY <1>1, <2>2 DEF Holding, Executing, Keyed
  <2> QED BY <2>1, <2>2
<1>3. OneHolder'
  BY <1>2 DEF OutcomeInv, OneHolder, Keyed
<1>4. ClaimHeld'
  BY <1>1, <1>2 DEF OutcomeInv, ClaimHeld
<1>9. ClaimsMade'
  BY <1>1 DEF OutcomeInv, ClaimsMade, Keyed
<1>5. \A s \in effects : req'[s] = req[s]
  BY <1>1
<1>6. LedgerTrue'
  BY <1>1, <1>5 DEF OutcomeInv, LedgerTrue
<1>7. TriedTrue'
  BY <1>1 DEF OutcomeInv, TriedTrue
<1>8. ASSUME NEW s \in Attempts PROVE AnswerTrue(s)'
  <2>1. CASE s = t
    BY <2>1 DEF AnswerTrue, NoAnswer
  <2>2. CASE s # t
    BY <1>5, <2>2 DEF OutcomeInv, AnswerTrue
  <2> QED BY <2>1, <2>2
<1> QED BY <1>3, <1>4, <1>6, <1>7, <1>8, <1>9 DEF OutcomeInv

(* An attempt that has had no effect answers, and does not say 200.         *)
LEMMA AnswerOutcome ==
    ASSUME Inv, TypeInv, OutcomeInv, NEW t \in Attempts, NEW status, status # 200,
           pc[t] \notin {"done", "dead"}, pc[t] = "complete" => status = 500,
           Answer(t, status), UNCHANGED <<execution, effects>>
    PROVE  OutcomeInv'
<1>1. /\ pc' = [pc EXCEPT ![t] = "done"] /\ UNCHANGED <<req, tried>>
      /\ answer' = [answer EXCEPT ![t].status = status]
  BY DEF Answer
<1>2. t \in effects => status = 500
  BY DEF Inv, EffectsLast
<1>3. answer \in [Attempts -> Response] /\ answer[t] = NoAnswer
  BY DEF TypeInv, CoreOK, OutcomeInv, TriedTrue
<1>4. /\ answer'[t].status = status /\ answer'[t].duplicate = "NONE"
      /\ \A s \in Attempts \ {t} : answer'[s] = answer[s]
  BY <1>1, <1>3 DEF NoAnswer
<1>5. AnswerTrue(t)'
  BY <1>2, <1>4 DEF AnswerTrue
<1>6. /\ UNCHANGED <<tried, execution, effects>>
      /\ pc'[t] = "done" /\ "done" \in PC \ {"complete"}
      /\ \A s \in Attempts \ {t} :
           pc'[s] = pc[s] /\ req'[s] = req[s] /\ answer'[s] = answer[s]
  BY <1>1, <1>4 DEF TypeInv, CoreOK, PC
<1> QED BY <1>1, <1>5, <1>6, QuietOutcome

(* An attempt that goes on, without a key, to perform or to a place before. *)
LEMMA GotoOutcome ==
    ASSUME Inv, TypeInv, OutcomeInv, NEW t \in Attempts, NEW l \in PC \ {"complete"},
           pc[t] \notin {"done", "dead"}, Goto(t, l),
           l = "execute" => Key[req[t]] = None,
           pc[t] \in {"execute", "complete"} => l = "dead",
           UNCHANGED <<execution, effects>>
    PROVE  OutcomeInv'
<1>1. /\ UNCHANGED <<tried, execution, effects>> /\ req' = req
      /\ pc'[t] = l
      /\ \A s \in Attempts \ {t} :
           pc'[s] = pc[s] /\ req'[s] = req[s] /\ answer'[s] = answer[s]
  BY DEF Goto, TypeInv, CoreOK
<1>2. answer'[t] = NoAnswer
  BY DEF Goto, OutcomeInv, TriedTrue
<1> QED BY <1>1, <1>2, QuietOutcome

(* A step of the world around the attempts.                                 *)
LEMMA AroundOutcome ==
    ASSUME OutcomeInv, UNCHANGED <<attempt, execution, effects>>
    PROVE  OutcomeInv'
<1>1. UNCHANGED <<pc, req, tried, answer, ledger, won, claiming, lostClaims>>
  BY DEF attempt, execution, claims
<1>2. OneHolder' /\ ClaimHeld' /\ ClaimsMade'
  BY <1>1 DEF OutcomeInv, OneHolder, ClaimHeld, ClaimsMade, Holding, Executing, Keyed
<1>3. LedgerTrue' /\ TriedTrue'
  BY <1>1 DEF OutcomeInv, LedgerTrue, TriedTrue
<1>4. \A t \in Attempts : AnswerTrue(t)'
  BY <1>1 DEF OutcomeInv, AnswerTrue
<1> QED BY <1>2, <1>3, <1>4 DEF OutcomeInv

(* Who claims a key finds it free: no one holds it.                         *)
LEMMA ClaimOutcome ==
    ASSUME Inv, TypeInv, OutcomeInv, NEW t \in Attempts, Claim(t)
    PROVE  OutcomeInv'
<1> DEFINE k == Key[req[t]]
<1>1. /\ pc[t] = "claim" /\ k \in Keys /\ effects' = effects
      /\ t \notin effects
  BY DEF Claim, TypeInv, Started, effect, Inv, EffectsLast
<1>2. /\ ledger[k].state = "NONE"
      /\ ledger' = [ledger EXCEPT ![k] = [state |-> "EXECUTING", hash |-> Hash[req[t]]]]
      /\ won' = [won EXCEPT ![k] = 1] /\ won[k] # 1
  BY <1>1 DEF Claim, Ledger!Claim, Ledger!Nothing, TypeInv, LedgerOK
<1>3. /\ ledger'[k] = [state |-> "EXECUTING", hash |-> Hash[req[t]]] /\ won'[k] = 1
      /\ \A j \in Keys \ {k} : ledger'[j] = ledger[j] /\ won'[j] = won[j]
  BY <1>1, <1>2 DEF TypeInv, LedgerOK
<1>4. /\ pc'[t] \in {"execute", "done"} /\ UNCHANGED <<req, tried>>
      /\ \A s \in Attempts \ {t} : pc'[s] = pc[s] /\ answer'[s] = answer[s]
  BY DEF Claim, Reply, Goto, Answer, TypeInv, CoreOK
<1>5. \/ answer'[t] = NoAnswer
      \/ /\ pc'[t] = "done" /\ answer'[t].status = 500
         /\ answer'[t].duplicate = "NONE"
  <2>1. answer[t] = NoAnswer /\ answer \in [Attempts -> Response] /\ pc \in [Attempts -> PC]
    BY <1>1 DEF OutcomeInv, TriedTrue, TypeInv, CoreOK
  <2> QED BY <2>1 DEF Claim, Reply, Goto, Answer, NoAnswer
<1>12. /\ claiming' \in {claiming, claiming \cup {t}} /\ lostClaims' = lostClaims
       /\ t \notin claiming /\ t \notin lostClaims
  BY <1>1 DEF Claim, OutcomeInv, ClaimsMade
<1>6. ASSUME NEW s \in Attempts, s # t, Holding(s)', Keyed(s)'
      PROVE  Holding(s) /\ Key[req[s]] \in Keys \ {k}
  <2>1. Holding(s) /\ Keyed(s)
    BY <1>1, <1>4, <1>6, <1>12 DEF Holding, Executing, Keyed
  <2>2. Key[req[s]] \in Keys
    BY <2>1, HolderKey
  <2> QED BY <1>2, <2>1, <2>2 DEF OutcomeInv, ClaimHeld
<1>7. OneHolder'
  <2> SUFFICES ASSUME NEW s \in Attempts, NEW u \in Attempts, Holding(s)', Holding(u)',
                      Keyed(u)', Key[req'[s]] = Key[req'[u]]
               PROVE  s = u
    BY DEF OneHolder
  <2>1. Keyed(s)' /\ Key[req[s]] = Key[req[u]]
    BY <1>4 DEF Keyed
  <2>2. CASE s # t /\ u # t
    BY <1>4, <1>6, <2>1, <2>2 DEF OutcomeInv, OneHolder, Keyed
  <2>3. CASE s = t \/ u = t
    BY <1>6, <2>1, <2>3
  <2> QED BY <2>2, <2>3
<1>8. ClaimHeld'
  <2> SUFFICES ASSUME NEW s \in Attempts, Holding(s)', Keyed(s)'
               PROVE  /\ won'[Key[req'[s]]] = 1
                      /\ ledger'[Key[req'[s]]].hash = Hash[req'[s]]
                      /\ s \in claiming' => ledger'[Key[req'[s]]].state = "EXECUTING"
    BY DEF ClaimHeld
  <2>1. CASE s = t
    BY <1>3, <1>4, <2>1
  <2>2. CASE s # t
    <3>1. Holding(s) /\ Key[req[s]] \in Keys \ {k} /\ Keyed(s)
      BY <1>4, <1>6, <2>2 DEF Keyed
    <3> QED BY <1>3, <1>4, <1>12, <2>2, <3>1 DEF OutcomeInv, ClaimHeld
  <2> QED BY <2>1, <2>2
<1>13. ClaimsMade'
  <2>1. Keyed(t)
    BY <1>1, GatewayAssumption DEF Keyed
  <2>2. /\ claiming \subseteq Attempts /\ lostClaims \subseteq Attempts
        /\ pc[t] = "claim"
    BY <1>1 DEF TypeInv, LedgerOK
  <2> QED BY <1>4, <1>12, <2>1, <2>2 DEF OutcomeInv, ClaimsMade, Keyed
<1>9. LedgerTrue'
  <2> SUFFICES ASSUME NEW j \in Keys
               PROVE  /\ ledger'[j].state = "NONE" => ledger'[j].hash = None
                      /\ ledger'[j].state = "SUCCEEDED" =>
                           \E s \in effects : /\ Key[req[s]] = j
                                              /\ Hash[req[s]] = ledger'[j].hash
    BY <1>1, <1>4 DEF LedgerTrue
  <2> QED BY <1>3 DEF OutcomeInv, LedgerTrue
<1>10. TriedTrue'
  BY <1>1, <1>4, <1>5 DEF OutcomeInv, TriedTrue
<1>11. ASSUME NEW s \in Attempts PROVE AnswerTrue(s)'
  <2>1. CASE s = t
    BY <1>1, <1>5, <2>1 DEF AnswerTrue, NoAnswer
  <2>2. CASE s # t
    BY <1>1, <1>4, <2>2 DEF OutcomeInv, AnswerTrue
  <2> QED BY <2>1, <2>2
<1> QED BY <1>7, <1>8, <1>9, <1>10, <1>11, <1>13 DEF OutcomeInv

(* A duplicate is told what is recorded for its own request.                *)
LEMMA DuplicateOutcome ==
    ASSUME Inv, TypeInv, OutcomeInv, NEW t \in Attempts, Duplicate(t)
    PROVE  OutcomeInv'
<1> DEFINE entry == ledger[Key[req[t]]]
<1>1. /\ pc[t] = "claim" /\ req[t] \in Requests /\ Key[req[t]] \in Keys
      /\ entry.hash = Hash[req[t]] /\ t \notin effects
  BY DEF Duplicate, TypeInv, Started, Inv, EffectsLast
<1>2. Hash[req[t]] # None
  BY <1>1, GatewayAssumption
<1>3. /\ entry.state # "NONE"
      /\ entry.state = "SUCCEEDED" =>
           \E s \in effects : Key[req[s]] = Key[req[t]] /\ Hash[req[s]] = Hash[req[t]]
  BY <1>1, <1>2 DEF OutcomeInv, LedgerTrue
<1>4. /\ UNCHANGED <<req, tried, execution, effects>> /\ pc'[t] = "done"
      /\ answer'[t].status = 200 /\ answer'[t].duplicate = entry.state
      /\ \A s \in Attempts \ {t} :
           pc'[s] = pc[s] /\ req'[s] = req[s] /\ answer'[s] = answer[s]
  BY DEF Duplicate, service, effect, TypeInv, CoreOK
<1>5. AnswerTrue(t)'
  BY <1>3, <1>4 DEF AnswerTrue
<1>6. "done" \in PC \ {"complete"}
  BY DEF PC
<1> QED BY <1>1, <1>4, <1>5, <1>6, QuietOutcome

(* The tool call: what is reported a success had its effect.                *)
LEMMA ExecuteOutcome ==
    ASSUME Inv, TypeInv, OutcomeInv, NEW t \in Attempts, Execute(t)
    PROVE  OutcomeInv'
<1> PICK ok \in BOOLEAN :
          /\ Perform(t, ok)
          /\ tried' = [tried EXCEPT ![t] = IF ok THEN "SUCCEEDED" ELSE "FAILED"]
          /\ IF Key[req[t]] # None
             THEN pc' = [pc EXCEPT ![t] = "complete"] /\ UNCHANGED answer
             ELSE /\ pc' = [pc EXCEPT ![t] = "done"]
                  /\ answer' = [answer EXCEPT ![t].status = IF ok THEN 200 ELSE 500]
  BY DEF Execute
<1>1. /\ effects' \in {effects \cup {t}, effects}
      /\ ok => t \in effects'
  BY DEF Perform
<1>2. /\ pc[t] = "execute" /\ t \notin effects
      /\ UNCHANGED <<req, ledger, won, claiming, lostClaims>>
  BY DEF Execute, service, execution, claims, Inv, EffectsLast
<1>3. pc \in [Attempts -> PC] /\ answer \in [Attempts -> Response]
      /\ tried \in [Attempts -> Outcome \cup {"NONE"}] /\ answer[t] = NoAnswer
  BY <1>2 DEF TypeInv, CoreOK, OutcomeInv, TriedTrue
<1>4. /\ tried'[t] = (IF ok THEN "SUCCEEDED" ELSE "FAILED")
      /\ \A s \in Attempts \ {t} : pc'[s] = pc[s] /\ tried'[s] = tried[s]
                                   /\ answer'[s] = answer[s]
  BY <1>3
<1>5. \/ pc'[t] = "complete" /\ answer'[t] = NoAnswer
      \/ /\ pc'[t] = "done" /\ answer'[t].duplicate = "NONE"
         /\ answer'[t].status = IF ok THEN 200 ELSE 500
  BY <1>3 DEF NoAnswer
<1>6. \A s \in Attempts : Holding(s)' => Holding(s)
  BY <1>1, <1>2, <1>4 DEF Holding, Executing
<1>7. OneHolder' /\ ClaimHeld'
  BY <1>2, <1>6 DEF OutcomeInv, OneHolder, ClaimHeld, Keyed
<1>11. ClaimsMade'
  BY <1>2, <1>4, <1>5 DEF OutcomeInv, ClaimsMade, Keyed, TypeInv, LedgerOK
<1>8. LedgerTrue'
  BY <1>1, <1>2 DEF OutcomeInv, LedgerTrue
<1>9. TriedTrue'
  BY <1>1, <1>4, <1>5 DEF OutcomeInv, TriedTrue, Outcome
<1>10. ASSUME NEW s \in Attempts PROVE AnswerTrue(s)'
  <2>1. CASE s = t
    BY <1>1, <1>5, <2>1 DEF AnswerTrue, NoAnswer
  <2>2. CASE s # t
    BY <1>1, <1>2, <1>4, <2>2 DEF OutcomeInv, AnswerTrue
  <2> QED BY <2>1, <2>2
<1> QED BY <1>7, <1>8, <1>9, <1>10, <1>11 DEF OutcomeInv

(* The outcome recorded is the one of the attempt that claimed the key.     *)
LEMMA CompleteOutcome ==
    ASSUME Inv, TypeInv, OutcomeInv, NEW t \in Attempts, Complete(t)
    PROVE  OutcomeInv'
<1> DEFINE k == Key[req[t]]
<1>1. /\ pc[t] = "complete" /\ k \in Keys /\ req[t] \in Requests
      /\ UNCHANGED <<req, tried, effects>> /\ tried[t] \in Outcome
      /\ tried[t] = "SUCCEEDED" => t \in effects
      /\ effects \subseteq Attempts
  BY DEF Complete, Answer, TypeInv, CoreOK, Started, effect, OutcomeInv, TriedTrue
<1>2. ASSUME t \notin claiming \cup lostClaims
      PROVE  /\ ledger[k].hash = Hash[req[t]]
             /\ \A s \in claiming : Key[req[s]] # k
  <2>1. Holding(t) /\ Keyed(t)
    BY <1>1, <1>2, GatewayAssumption DEF Holding, Executing, Keyed
  <2>2. \A s \in claiming : s \in Attempts /\ Holding(s) /\ s # t
    BY <1>2 DEF Holding, OutcomeInv, ClaimsMade, TypeInv, LedgerOK
  <2> QED BY <2>1, <2>2 DEF OutcomeInv, ClaimHeld, OneHolder
<1>3. PICK status \in {200, 500} :
         Answer(t, status) /\ (status = 200 => tried[t] = "SUCCEEDED")
  BY DEF Complete
<1>4. answer \in [Attempts -> Response] /\ pc \in [Attempts -> PC] /\ answer[t] = NoAnswer
  BY <1>1 DEF TypeInv, CoreOK, OutcomeInv, TriedTrue
<1>5. /\ pc'[t] = "done" /\ answer'[t].status = status /\ answer'[t].duplicate = "NONE"
      /\ \A s \in Attempts \ {t} : pc'[s] = pc[s] /\ answer'[s] = answer[s]
  BY <1>3, <1>4 DEF Answer, NoAnswer
<1>6. /\ \A j \in Keys : ledger'[j].hash = ledger[j].hash
      /\ \A j \in Keys \ {k} : ledger'[j] = ledger[j]
      /\ \/ ledger'[k] = ledger[k]
         \/ ledger'[k].state = tried[t] /\ t \notin claiming \cup lostClaims
      /\ UNCHANGED <<won, claiming, lostClaims>>
  <2>1. ledger \in [Keys -> Entry]
    BY DEF TypeInv, LedgerOK
  <2>2. \/ UNCHANGED <<ledger, won, claiming, lostClaims>>
        \/ /\ ledger' = [ledger EXCEPT ![k].state = tried[t]]
           /\ t \notin claiming \cup lostClaims
           /\ UNCHANGED <<won, claiming, lostClaims>>
    BY DEF Complete, execution, claims, Ledger!Complete
  <2> QED BY <1>1, <2>1, <2>2 DEF Entry
<1>7. \A s \in Attempts : Holding(s)' => Holding(s)
  BY <1>1, <1>5, <1>6 DEF Holding, Executing
<1>8. OneHolder'
  BY <1>1, <1>7 DEF OutcomeInv, OneHolder, Keyed
<1>9. ClaimHeld'
  <2> SUFFICES ASSUME NEW s \in Attempts, Holding(s)', Keyed(s)'
               PROVE  /\ won'[Key[req'[s]]] = 1
                      /\ ledger'[Key[req'[s]]].hash = Hash[req'[s]]
                      /\ s \in claiming' => ledger'[Key[req'[s]]].state = "EXECUTING"
    BY DEF ClaimHeld
  <2>1. Holding(s) /\ Keyed(s)
    BY <1>1, <1>7 DEF Keyed
  <2>2. Key[req[s]] \in Keys
    BY <2>1, HolderKey
  <2>3. s \in claiming => ledger'[Key[req[s]]] = ledger[Key[req[s]]]
    BY <1>2, <1>6, <2>2
  <2> QED BY <1>1, <1>6, <2>1, <2>2, <2>3 DEF OutcomeInv, ClaimHeld
<1>13. ClaimsMade'
  BY <1>1, <1>5, <1>6 DEF OutcomeInv, ClaimsMade, Keyed, TypeInv, LedgerOK
<1>10. LedgerTrue'
  <2> SUFFICES ASSUME NEW j \in Keys
               PROVE  /\ ledger'[j].state = "NONE" => ledger'[j].hash = None
                      /\ ledger'[j].state = "SUCCEEDED" =>
                           \E s \in effects : /\ Key[req[s]] = j
                                              /\ Hash[req[s]] = ledger'[j].hash
    BY <1>1 DEF LedgerTrue
  <2>1. CASE ledger'[j] = ledger[j]
    BY <2>1 DEF OutcomeInv, LedgerTrue
  <2>2. CASE j = k /\ ledger'[k].state = tried[t] /\ t \notin claiming \cup lostClaims
    BY <1>1, <1>2, <1>6, <2>2 DEF Outcome
  <2> QED BY <1>6, <2>1, <2>2
<1>11. TriedTrue'
  BY <1>1, <1>5 DEF OutcomeInv, TriedTrue
<1>12. ASSUME NEW s \in Attempts PROVE AnswerTrue(s)'
  <2>1. CASE s = t
    BY <1>1, <1>3, <1>5, <2>1 DEF AnswerTrue
  <2>2. CASE s # t
    BY <1>1, <1>5, <2>2 DEF OutcomeInv, AnswerTrue
  <2> QED BY <2>1, <2>2
<1> QED BY <1>8, <1>9, <1>10, <1>11, <1>12, <1>13 DEF OutcomeInv

(* A claim is committed, or rolled back: then no one holds its key.         *)
LEMMA SettleOutcome ==
    ASSUME Inv, TypeInv, OutcomeInv, NEW t \in Attempts, CommitClaim(t) \/ LoseClaim(t)
    PROVE  OutcomeInv'
<1> DEFINE k == Key[req[t]]
<1>1. UNCHANGED <<pc, req, tried, answer, effects>>
  BY DEF CommitClaim, LoseClaim, attempt, effect
<1>2. /\ t \in claiming /\ claiming' = claiming \ {t}
      /\ lostClaims' \in {lostClaims, lostClaims \cup {t}}
      /\ claiming \subseteq Attempts /\ lostClaims \subseteq Attempts
  BY DEF CommitClaim, LoseClaim, TypeInv, LedgerOK
<1>3. /\ Holding(t) /\ Keyed(t) /\ k \in Keys
      /\ pc[t] \in {"execute", "complete", "done", "dead"}
  BY <1>2, HolderKey DEF Holding, OutcomeInv, ClaimsMade
<1>4. \A s \in Attempts : Holding(s)' => Holding(s)
  BY <1>1, <1>2 DEF Holding, Executing
<1>5. OneHolder'
  BY <1>1, <1>4 DEF OutcomeInv, OneHolder, Keyed
<1>6. ClaimsMade'
  BY <1>1, <1>2, <1>3 DEF OutcomeInv, ClaimsMade, Keyed
<1>7. TriedTrue' /\ \A s \in Attempts : AnswerTrue(s)'
  BY <1>1 DEF OutcomeInv, TriedTrue, AnswerTrue
<1>8. CASE CommitClaim(t)
  <2>1. UNCHANGED <<ledger, won>>
    BY <1>8 DEF CommitClaim
  <2>2. ClaimHeld'
    BY <1>1, <1>2, <1>4, <2>1 DEF OutcomeInv, ClaimHeld, Keyed
  <2>3. LedgerTrue'
    BY <1>1, <2>1 DEF OutcomeInv, LedgerTrue
  <2> QED BY <1>5, <1>6, <1>7, <2>2, <2>3 DEF OutcomeInv
<1>9. CASE LoseClaim(t)
  <2>1. /\ ledger'[k] = [state |-> "NONE", hash |-> None]
        /\ \A j \in Keys \ {k} : ledger'[j] = ledger[j] /\ won'[j] = won[j]
        /\ t \in lostClaims'
    BY <1>3, <1>9 DEF LoseClaim, Ledger!Nothing, TypeInv, LedgerOK
  <2>2. ASSUME NEW s \in Attempts, Holding(s)', Keyed(s)'
        PROVE  Holding(s) /\ Keyed(s) /\ Key[req[s]] \in Keys \ {k}
    <3>1. Holding(s) /\ Keyed(s) /\ s # t
      BY <1>1, <1>4, <2>1, <2>2 DEF Holding, Keyed
    <3> QED BY <1>3, <3>1, HolderKey DEF OutcomeInv, OneHolder
  <2>3. ClaimHeld'
    BY <1>1, <1>2, <2>1, <2>2 DEF OutcomeInv, ClaimHeld
  <2>4. LedgerTrue'
    BY <1>1, <2>1 DEF OutcomeInv, LedgerTrue
  <2> QED BY <1>5, <1>6, <1>7, <2>3, <2>4 DEF OutcomeInv
<1> QED BY <1>8, <1>9

LEMMA OutcomeStep == Inv /\ TypeInv /\ OutcomeInv /\ [Next]_vars => OutcomeInv'
<1> SUFFICES ASSUME Inv, TypeInv, OutcomeInv, [Next]_vars PROVE OutcomeInv'
  OBVIOUS
<1> USE DEF service, effect
<1>a. /\ "done" \in PC \ {"complete"} /\ "refuse" \in PC \ {"complete"}
      /\ "agent" \in PC \ {"complete"} /\ "bundle" \in PC \ {"complete"}
      /\ "unavailable" \in PC \ {"complete"} /\ "dead" \in PC \ {"complete"}
      /\ "tool" \in PC \ {"complete"} /\ "record" \in PC \ {"complete"}
      /\ "resolve" \in PC \ {"complete"} /\ "claim" \in PC \ {"complete"}
      /\ "execute" \in PC \ {"complete"}
  BY DEF PC
<1>b. ASSUME NEW t \in Attempts, pc[t] \notin {"done", "dead"} PROVE answer[t] = NoAnswer
  BY <1>b DEF OutcomeInv, TriedTrue
<1>c. ASSUME NEW t \in Attempts
      PROVE  \/ Execution(t) = "execute" /\ Key[req[t]] = None
             \/ Execution(t) = "claim"
  BY DEF Execution
<1>1. ASSUME NEW t \in Attempts, NEW r \in Requests, Submit(t, r) PROVE OutcomeInv'
  <2>1. PICK l \in {"refuse", "agent"} : pc' = [pc EXCEPT ![t] = l]
    BY <1>1 DEF Submit
  <2>2. /\ pc[t] = "idle" /\ pc'[t] = l /\ answer'[t] = NoAnswer
        /\ UNCHANGED <<tried, execution, effects>>
        /\ \A s \in Attempts \ {t} :
             pc'[s] = pc[s] /\ req'[s] = req[s] /\ answer'[s] = answer[s]
    BY <1>1, <1>b, <2>1 DEF Submit, TypeInv, CoreOK
  <2>3. l \in PC \ {"complete"} /\ l # "execute"
    BY <1>a
  <2> QED BY <2>2, <2>3, QuietOutcome
<1>2. ASSUME NEW t \in Attempts, NEW r \in Requests, Unauthorized(t, r) PROVE OutcomeInv'
  <2>1. /\ pc[t] = "idle" /\ pc'[t] = "done" /\ t \notin effects
        /\ answer'[t].status = 401 /\ answer'[t].duplicate = "NONE"
        /\ UNCHANGED <<tried, execution, effects>>
        /\ \A s \in Attempts \ {t} :
             pc'[s] = pc[s] /\ req'[s] = req[s] /\ answer'[s] = answer[s]
    BY <1>2, <1>b DEF Unauthorized, TypeInv, CoreOK, NoAnswer, Inv, EffectsLast
  <2>2. AnswerTrue(t)'
    BY <2>1 DEF AnswerTrue
  <2> QED BY <1>a, <2>1, <2>2, QuietOutcome
<1>3. ASSUME NEW t \in Attempts, GetAgent(t) PROVE OutcomeInv'
  <2>1. PICK l \in {"refuse", "tool"} : pc' = [pc EXCEPT ![t] = l]
    BY <1>3 DEF GetAgent, Goto
  <2>2. /\ pc[t] = "agent" /\ pc'[t] = l /\ answer'[t] = NoAnswer /\ req' = req
        /\ UNCHANGED <<tried, execution, effects>>
        /\ \A s \in Attempts \ {t} :
             pc'[s] = pc[s] /\ req'[s] = req[s] /\ answer'[s] = answer[s]
    BY <1>3, <1>b, <2>1 DEF GetAgent, Goto, TypeInv, CoreOK
  <2>3. l \in PC \ {"complete"} /\ l # "execute"
    BY <1>a
  <2> QED BY <2>2, <2>3, QuietOutcome
<1>4. ASSUME NEW t \in Attempts, GetTool(t) \/ NoBundle(t) \/ Crash(t) PROVE OutcomeInv'
  <2>1. /\ \E l \in {"refuse", "bundle", "unavailable", "dead"} :
             Goto(t, l) /\ (pc[t] \in {"execute", "complete"} => l = "dead")
        /\ pc[t] \notin {"done", "dead"} /\ UNCHANGED <<execution, effects>>
    BY <1>4 DEF GetTool, NoBundle, Crash
  <2> QED BY <1>a, <2>1, GotoOutcome
<1>5. ASSUME NEW t \in Attempts, Evaluate(t) PROVE OutcomeInv'
  <2>1. PICK l \in {"refuse", "record"} : pc' = [pc EXCEPT ![t] = l]
    BY <1>5 DEF Evaluate
  <2>2. /\ pc[t] = "bundle" /\ pc'[t] = l /\ answer'[t] = NoAnswer /\ req' = req
        /\ UNCHANGED <<tried, execution, effects>>
        /\ \A s \in Attempts \ {t} :
             pc'[s] = pc[s] /\ req'[s] = req[s] /\ answer'[s] = answer[s]
    BY <1>5, <1>b, <2>1 DEF Evaluate, TypeInv, CoreOK
  <2>3. l \in PC \ {"complete"} /\ l # "execute"
    BY <1>a
  <2> QED BY <2>2, <2>3, QuietOutcome
<1>6. ASSUME NEW t \in Attempts, Refuse(t) PROVE OutcomeInv'
  <2>1. /\ pc[t] \in {"refuse", "unavailable"} /\ UNCHANGED <<execution, effects>>
        /\ \E status \in {403, 503, 500} : Answer(t, status)
    BY <1>6 DEF Refuse, Ingest
  <2> QED BY <2>1, AnswerOutcome
<1>7. ASSUME NEW t \in Attempts, Record(t) PROVE OutcomeInv'
  <2>1. pc[t] = "record" /\ UNCHANGED <<execution, effects>>
    BY <1>7 DEF Record, Ingest
  <2>2. CASE Answer(t, 500)
    BY <2>1, <2>2, AnswerOutcome
  <2>3. ASSUME NEW l \in {"resolve", Execution(t)}, Goto(t, l) PROVE OutcomeInv'
    BY <1>a, <1>c, <2>1, <2>3, GotoOutcome
  <2> QED BY <1>7, <2>2, <2>3 DEF Record, Reply
<1>8. ASSUME NEW t \in Attempts, NotRecorded(t) \/ NotResolved(t) \/ KeyReused(t)
                                   \/ NotClaimed(t) \/ Unreachable(t) \/ Pause(t)
      PROVE  OutcomeInv'
  <2>1. /\ \E status \in {202, 403, 409, 500, 502} :
             /\ Answer(t, status)
             /\ pc[t] = "complete" => status = 500
        /\ pc[t] \notin {"done", "dead"} /\ UNCHANGED <<execution, effects>>
    BY <1>8 DEF NotRecorded, NotResolved, KeyReused, NotClaimed, Unreachable, Pause
  <2> QED BY <2>1, AnswerOutcome
<1>9. ASSUME NEW t \in Attempts, Consume(t) PROVE OutcomeInv'
  <2>1. pc[t] = "resolve" /\ UNCHANGED <<execution, effects>>
    BY <1>9 DEF Consume
  <2>2. CASE Answer(t, 500)
    BY <2>1, <2>2, AnswerOutcome
  <2>3. CASE Goto(t, Execution(t))
    BY <1>a, <1>c, <2>1, <2>3, GotoOutcome
  <2> QED BY <1>9, <2>2, <2>3 DEF Consume, Reply
<1>10. ASSUME NEW t \in Attempts,
              CommitEvent(t) \/ LoseEvent(t) \/ CommitConsent(t) \/ LoseConsent(t)
       PROVE  OutcomeInv'
  BY <1>10, AroundOutcome DEF CommitEvent, LoseEvent, CommitConsent, LoseConsent
<1>11. CASE Revoke \/ Publish
  BY <1>11, AroundOutcome DEF Revoke, Publish
<1>12. ASSUME NEW i \in ApprovalIds, NEW u \in Users,
              NEW to \in {"APPROVED", "REJECTED"}, Decide(i, u, to)
       PROVE  OutcomeInv'
  BY <1>12, AroundOutcome DEF Decide
<1>13. CASE UNCHANGED vars
  BY <1>13, AroundOutcome DEF vars
<1> QED BY <1>1, <1>2, <1>3, <1>4, <1>5, <1>6, <1>7, <1>8, <1>9, <1>10, <1>11, <1>12, <1>13,
           ClaimOutcome, DuplicateOutcome, ExecuteOutcome, CompleteOutcome, SettleOutcome
           DEF Next

LEMMA OutcomeInvariant == Spec => []OutcomeInv
  BY InvInvariant, TypeInvariant, InitOutcomeInv, OutcomeStep, PTL DEF Spec

(* A set of which any two elements are equal has at most one.               *)
LEMMA AtMostOne ==
    ASSUME NEW S, \A x, y \in S : x = y
    PROVE  Cardinality(S) <= 1
<1>1. CASE S = {}
  BY <1>1, FS_EmptySet
<1>2. CASE S # {}
  <2>1. PICK x \in S : TRUE
    BY <1>2
  <2>2. S = {x}
    BY <2>1
  <2> QED BY <2>2, FS_Singleton
<1> QED BY <1>1, <1>2

(* An idempotency key buys one side effect at most among the attempts whose *)
(* claim was not lost: the agent's retries, in any gateway, perform an      *)
(* action once, unless the database takes back a claim it answered.         *)
THEOREM KeptClaimActsOnceHolds == Spec => []KeptClaimActsOnce
<1>1. ASSUME Inv, OutcomeInv, NEW k \in Keys
      PROVE  Cardinality({t \in effects \ lostClaims : Key[req[t]] = k}) <= 1
  <2>1. k # None
    BY GatewayAssumption
  <2>2. \A s, t \in {t \in effects \ lostClaims : Key[req[t]] = k} : s = t
    BY <1>1, <2>1 DEF Inv, PlacesOK, OutcomeInv, OneHolder, Holding, Executing, Keyed
  <2> QED BY <2>2, AtMostOne
<1>2. Inv /\ OutcomeInv => KeptClaimActsOnce
  BY <1>1 DEF KeptClaimActsOnce, OncePerKey
<1> QED BY <1>2, InvInvariant, OutcomeInvariant, PTL

(* Whatever is rolled back beneath it, the gateway's answer is true: a result*)
(* was produced, a duplicate's success is that of its own request, and a    *)
(* refused attempt has done nothing.                                        *)
THEOREM AnswersAreTrueHolds == Spec => []AnswersAreTrue
<1>1. Inv /\ OutcomeInv => AnswersAreTrue
  BY DEF OutcomeInv, AnswerTrue, AnswersAreTrue
<1> QED BY <1>1, InvInvariant, OutcomeInvariant, PTL

-----------------------------------------------------------------------------
(* KeptConsentsCover.  Nothing says which approval an attempt used, so the  *)
(* argument counts: of the attempts that got past a human, or whose         *)
(* consumption is open, and the approvals used up, each for one hash and one*)
(* version, there are never more of the former.  Every consumption adds one *)
(* to both, or, when its answer is lost, to the approvals only; and a lost  *)
(* one takes its attempt out with its approval.                             *)

(* A human of the role, not the requester, decided what is APPROVED or      *)
(* CONSUMED, and "consumed" is only said of what is.                        *)
HumanInv ==
    /\ approval \in [ApprovalIds -> Row]
    /\ granted \in [ApprovalIds -> {0, 1}]
    /\ \A i \in ApprovalIds :
         /\ granted[i] = 1 => approval[i].state = "CONSUMED"
         /\ approval[i].state \in {"APPROVED", "CONSUMED"} =>
              approval[i].decidedBy \in Approvers[approval[i].version]
                                          \ {approval[i].requester}

Early == {"idle", "agent", "tool", "bundle", "refuse", "unavailable", "record", "resolve"}

(* An open consumption is one of an attempt past its resolve call, holds    *)
(* approvals of its hash and version, and granted one of them.              *)
ConsentsMade ==
    /\ consuming \in [ApprovalIds -> Attempts \cup {None}]
    /\ lostConsents \subseteq Attempts
    /\ \A t \in lostConsents : pc[t] \notin Early
    /\ \A t \in Attempts : \A i \in Held(t) :
         /\ t \notin lostConsents /\ pc[t] \notin Early
         /\ approval[i].state = "CONSUMED"
         /\ approval[i].binding = Hash[req[t]]
         /\ approval[i].version = decided[t].version
         /\ \A j \in Held(t) : granted[i] = 1 /\ granted[j] = 1 => i = j

Used(h, v) ==
    {i \in ApprovalIds :
       /\ granted[i] = 1
       /\ approval[i].state = "CONSUMED"
       /\ approval[i].binding = h
       /\ approval[i].version = v
       /\ approval[i].decidedBy \in Approvers[v] \ {approval[i].requester}}

Past(t) == pc[t] \in {"claim", "execute", "complete"} \/ t \in effects

(* Whether t counts on an approval.                                         *)
Counts(t) ==
    /\ t \notin lostConsents
    /\ \/ Past(t) /\ decided[t].effect = "require_approval"
       \/ Held(t) # {}

Permitted(h, v) ==
    {t \in Attempts : Counts(t) /\ Hash[req[t]] = h /\ decided[t].version = v}

ApprovedInv ==
    \A h \in Hashes, v \in Versions :
        /\ IsFiniteSet(Permitted(h, v)) /\ IsFiniteSet(Used(h, v))
        /\ Cardinality(Permitted(h, v)) <= Cardinality(Used(h, v))

LEMMA InitHuman == Init => HumanInv /\ ConsentsMade /\ ApprovedInv
<1> SUFFICES ASSUME Init PROVE HumanInv /\ ConsentsMade /\ ApprovedInv
  OBVIOUS
<1>1. /\ approval = [i \in ApprovalIds |-> Human!Nothing]
      /\ granted = [i \in ApprovalIds |-> 0]
      /\ consuming = [i \in ApprovalIds |-> None] /\ lostConsents = {}
      /\ \A t \in Attempts : pc[t] = "idle" /\ t \notin effects
  BY DEF Init, Human!Init
<1>2. Human!Nothing \in Row /\ Human!Nothing.state = "NONE"
  BY DEF Human!Nothing, Row
<1>3. HumanInv
  BY <1>1, <1>2 DEF HumanInv
<1>4. \A t \in Attempts : Held(t) = {}
  BY <1>1, GatewayAssumption DEF Held
<1>5. ConsentsMade
  BY <1>1, <1>4 DEF ConsentsMade
<1>6. ASSUME NEW h \in Hashes, NEW v \in Versions
      PROVE  Permitted(h, v) = {} /\ Used(h, v) = {}
  BY <1>1, <1>4 DEF Permitted, Counts, Past, Used
<1> QED BY <1>3, <1>5, <1>6, FS_EmptySet DEF ApprovedInv

(* No call touches what is consumed.                                        *)
ConsumedSame ==
    \A i \in ApprovalIds : approval[i].state = "CONSUMED" =>
        approval'[i] = approval[i] /\ granted'[i] = granted[i]

(* A resolve call uses one more approval, for its hash and version.         *)
LEMMA ConsumeUses ==
    ASSUME HumanInv, NEW b \in Hashes, NEW v, Human!Consume(b, v), granted' # granted
    PROVE  /\ HumanInv' /\ ConsumedSame
           /\ \E i \in ApprovalIds :
                /\ i \notin Used(b, v)
                /\ Used(b, v)' = Used(b, v) \cup {i}
                /\ \A j \in ApprovalIds : approval'[j] # approval[j] =>
                     /\ approval[j].state = "APPROVED" /\ approval'[j].state = "CONSUMED"
                     /\ approval'[j].binding = b /\ approval'[j].version = v
                     /\ granted'[j] = 1 => j = i
                /\ \A h \in Hashes, w \in Versions :
                     ~(h = b /\ w = v) => Used(h, w)' = Used(h, w)
<1>1. PICK S \in SUBSET {i \in Human!In(b, {"APPROVED"}) : approval[i].version = v} :
          /\ approval' = Human!Become(S, "CONSUMED")
          /\ \E i \in S : granted' = [granted EXCEPT ![i] = @ + 1]
  BY DEF Human!Consume
<1>2. PICK i \in S : granted' = [granted EXCEPT ![i] = @ + 1]
  BY <1>1
<1>3. \A j \in S : /\ j \in ApprovalIds /\ approval[j].state = "APPROVED"
                   /\ approval[j].binding = b /\ approval[j].version = v
                   /\ granted[j] = 0
  BY DEF Human!In, HumanInv
<1>4. /\ granted' \in [ApprovalIds -> {0, 1}] /\ granted'[i] = 1
      /\ \A j \in ApprovalIds \ {i} : granted'[j] = granted[j]
  BY <1>2, <1>3 DEF HumanInv
<1>5. /\ approval' \in [ApprovalIds -> Row]
      /\ \A j \in S : /\ approval'[j].state = "CONSUMED"
                      /\ approval'[j].binding = approval[j].binding
                      /\ approval'[j].version = approval[j].version
                      /\ approval'[j].requester = approval[j].requester
                      /\ approval'[j].decidedBy = approval[j].decidedBy
      /\ \A j \in ApprovalIds \ S : approval'[j] = approval[j]
  <2>1. ASSUME NEW j \in ApprovalIds
        PROVE  [approval[j] EXCEPT !.state = "CONSUMED"] \in Row
    BY DEF HumanInv, Row
  <2>2. approval' = [j \in ApprovalIds |-> IF j \in S
                       THEN [approval[j] EXCEPT !.state = "CONSUMED"] ELSE approval[j]]
    BY <1>1 DEF Human!Become
  <2>3. approval' \in [ApprovalIds -> Row]
    BY <2>1, <2>2 DEF HumanInv
  <2> QED BY <1>3, <2>2, <2>3 DEF HumanInv, Row
<1>6. HumanInv'
  BY <1>3, <1>4, <1>5 DEF HumanInv
<1>7. i \notin Used(b, v)
  BY <1>3 DEF Used
<1>8. ASSUME NEW h \in Hashes, NEW w, NEW j \in ApprovalIds
      PROVE  j \in Used(h, w)' <=> j \in Used(h, w) \/ (j = i /\ h = b /\ w = v)
  <2>1. CASE j = i
    BY <1>3, <1>4, <1>5, <2>1 DEF Used, HumanInv
  <2>2. CASE j # i /\ j \in S
    BY <1>3, <1>4, <2>2 DEF Used
  <2>3. CASE j \notin S
    BY <1>4, <1>5, <2>3 DEF Used
  <2> QED BY <2>1, <2>2, <2>3
<1>9. \A h \in Hashes : \A w : Used(h, w)' \subseteq ApprovalIds /\ Used(h, w) \subseteq ApprovalIds
  BY DEF Used
<1>10. ConsumedSame
  BY <1>3, <1>4, <1>5 DEF ConsumedSame
<1>11. ASSUME NEW j \in ApprovalIds, approval'[j] # approval[j]
       PROVE  /\ approval[j].state = "APPROVED" /\ approval'[j].state = "CONSUMED"
              /\ approval'[j].binding = b /\ approval'[j].version = v
              /\ granted'[j] = 1 => j = i
  <2>1. j \in S
    BY <1>5, <1>11
  <2> QED BY <1>3, <1>4, <1>5, <2>1
<1>12. i \in ApprovalIds /\ Used(b, v)' = Used(b, v) \cup {i}
  BY <1>3, <1>8, <1>9
<1>13. ASSUME NEW h \in Hashes, NEW w \in Versions, ~(h = b /\ w = v)
       PROVE  Used(h, w)' = Used(h, w)
  <2>1. \A j \in ApprovalIds : j \in Used(h, w)' <=> j \in Used(h, w)
    BY <1>8, <1>13
  <2> QED BY <2>1 DEF Used
<1> QED BY <1>6, <1>7, <1>10, <1>11, <1>12, <1>13

(* The other calls use none up, and nothing that was.                       *)
UsedSame == \A h \in Hashes, v \in Versions : Used(h, v)' = Used(h, v)

LEMMA RefreshUses ==
    ASSUME HumanInv, NEW b \in Hashes, NEW v \in 0..MaxVersion, Human!Refresh(b, v)
    PROVE  HumanInv' /\ UsedSame /\ ConsumedSame
<1>1. PICK V \in SUBSET {i \in Human!In(b, {"APPROVED"}) : approval[i].version # v},
           E \in SUBSET Human!In(b, {"PENDING", "APPROVED"}) :
        LET closed == [i \in ApprovalIds |->
                IF i \in V THEN [approval[i] EXCEPT !.state = "VOIDED"]
                ELSE IF i \in E THEN [approval[i] EXCEPT !.state = "EXPIRED"]
                ELSE approval[i]]
        IN  \/ approval' = closed
            \/ \E i \in ApprovalIds, u \in Requesters :
                 /\ approval[i] = Human!Nothing
                 /\ approval' = [closed EXCEPT ![i] =
                        [state |-> "PENDING", binding |-> b, version |-> v,
                         requester |-> u, decidedBy |-> None]]
  BY DEF Human!Refresh
<1> DEFINE closed == [i \in ApprovalIds |->
                IF i \in V THEN [approval[i] EXCEPT !.state = "VOIDED"]
                ELSE IF i \in E THEN [approval[i] EXCEPT !.state = "EXPIRED"]
                ELSE approval[i]]
<1>2. granted' = granted
  BY DEF Human!Refresh
<1>3. ASSUME NEW i \in ApprovalIds
      PROVE  /\ closed[i] \in Row
             /\ \/ closed[i] = approval[i]
                \/ /\ closed[i].state \in {"VOIDED", "EXPIRED"}
                   /\ approval[i].state \in {"PENDING", "APPROVED"}
  <2>1. i \in V \cup E => approval[i].state \in {"PENDING", "APPROVED"}
    BY DEF Human!In
  <2>2. approval[i] \in Row
    BY DEF HumanInv
  <2>3. ASSUME NEW s \in {"VOIDED", "EXPIRED"}
        PROVE  /\ [approval[i] EXCEPT !.state = s] \in Row
               /\ [approval[i] EXCEPT !.state = s].state = s
    BY <2>2 DEF Row
  <2> QED BY <2>1, <2>2, <2>3
<1>4. ASSUME NEW i \in ApprovalIds
      PROVE  /\ approval'[i] \in Row
             /\ \/ approval'[i] = approval[i]
                \/ /\ approval'[i].state \in {"VOIDED", "EXPIRED", "PENDING"}
                   /\ approval[i].state \notin {"CONSUMED"}
  <2>1. CASE approval' = closed
    BY <1>3, <2>1
  <2>2. CASE \E k \in ApprovalIds, u \in Requesters :
               /\ approval[k] = Human!Nothing
               /\ approval' = [closed EXCEPT ![k] =
                      [state |-> "PENDING", binding |-> b, version |-> v,
                       requester |-> u, decidedBy |-> None]]
    <3> PICK k \in ApprovalIds, u \in Requesters :
               /\ approval[k] = Human!Nothing
               /\ approval' = [closed EXCEPT ![k] =
                      [state |-> "PENDING", binding |-> b, version |-> v,
                       requester |-> u, decidedBy |-> None]]
      BY <2>2
    <3>1. CASE i = k
      <4>1. approval'[i] = [state |-> "PENDING", binding |-> b, version |-> v,
                            requester |-> u, decidedBy |-> None]
        BY <3>1
      <4>2. approval[i].state = "NONE"
        BY <3>1 DEF Human!Nothing
      <4> QED BY <4>1, <4>2, GatewayAssumption DEF Row
    <3>2. CASE i # k
      <4>1. approval'[i] = closed[i]
        BY <3>2
      <4> HIDE DEF closed
      <4> QED BY <1>3, <4>1
    <3> QED BY <3>1, <3>2
  <2> QED BY <1>1, <2>1, <2>2
<1>5. approval' \in [ApprovalIds -> Row]
  <2>1. DOMAIN approval' = ApprovalIds /\ approval' = [i \in ApprovalIds |-> approval'[i]]
    BY <1>1
  <2> QED BY <1>4, <2>1
<1>6. HumanInv'
  BY <1>2, <1>4, <1>5 DEF HumanInv
<1>7. ASSUME NEW h \in Hashes, NEW w \in Versions PROVE Used(h, w)' = Used(h, w)
  <2>1. ASSUME NEW i \in ApprovalIds
        PROVE  i \in Used(h, w)' <=> i \in Used(h, w)
    BY <1>2, <1>4 DEF Used
  <2> QED BY <2>1 DEF Used
<1> QED BY <1>2, <1>4, <1>6, <1>7 DEF UsedSame, ConsumedSame

LEMMA DecideUses ==
    ASSUME HumanInv, NEW i \in ApprovalIds, NEW u \in Users,
           NEW to \in {"APPROVED", "REJECTED"}, Human!Decide(i, u, to)
    PROVE  HumanInv' /\ UsedSame /\ ConsumedSame
<1> DEFINE x == [approval[i] EXCEPT !.state = to, !.decidedBy = u]
<1>1. /\ approval[i].state = "PENDING" /\ granted' = granted
      /\ u \in Approvers[approval[i].version] \ {approval[i].requester}
      /\ approval' = [approval EXCEPT ![i] = x]
  BY DEF Human!Decide
<1>2. /\ x \in Row /\ x.state = to /\ x.decidedBy = u
      /\ x.version = approval[i].version /\ x.requester = approval[i].requester
  BY DEF HumanInv, Row
<1> HIDE DEF x
<1>3. /\ approval' \in [ApprovalIds -> Row] /\ approval'[i] = x
      /\ \A j \in ApprovalIds \ {i} : approval'[j] = approval[j]
  BY <1>1, <1>2 DEF HumanInv
<1>4. granted[i] = 0
  BY <1>1 DEF HumanInv
<1>5. HumanInv'
  BY <1>1, <1>2, <1>3, <1>4 DEF HumanInv
<1>6. ASSUME NEW h \in Hashes, NEW w \in Versions PROVE Used(h, w)' = Used(h, w)
  <2>1. ASSUME NEW j \in ApprovalIds
        PROVE  j \in Used(h, w)' <=> j \in Used(h, w)
    BY <1>1, <1>3, <1>4 DEF Used
  <2> QED BY <2>1 DEF Used
<1> QED BY <1>1, <1>3, <1>5, <1>6 DEF UsedSame, ConsumedSame

LEMMA HumanSame ==
    ASSUME HumanInv, UNCHANGED human
    PROVE  HumanInv' /\ UsedSame
  BY DEF human, HumanInv, UsedSame, Used

(* Who counts on an approval after a step did so before, by the same        *)
(* decision about the same request.                                         *)
PermittedSame ==
    \A t \in Attempts : Counts(t)' => Counts(t) /\ req'[t] = req[t] /\ decided'[t] = decided[t]

LEMMA ApprovedSame ==
    ASSUME ApprovedInv, PermittedSame, UsedSame
    PROVE  ApprovedInv'
<1> SUFFICES ASSUME NEW h \in Hashes, NEW v \in Versions
             PROVE  /\ IsFiniteSet(Permitted(h, v)') /\ IsFiniteSet(Used(h, v)')
                    /\ Cardinality(Permitted(h, v)') <= Cardinality(Used(h, v)')
  BY DEF ApprovedInv
<1>1. /\ IsFiniteSet(Permitted(h, v)) /\ IsFiniteSet(Used(h, v))
      /\ Cardinality(Permitted(h, v)) <= Cardinality(Used(h, v))
  BY DEF ApprovedInv
<1>2. Used(h, v)' = Used(h, v)
  BY DEF UsedSame
<1>3. Permitted(h, v)' \subseteq Permitted(h, v)
  BY DEF Permitted, PermittedSame
<1>4. /\ IsFiniteSet(Permitted(h, v)')
      /\ Cardinality(Permitted(h, v)') <= Cardinality(Permitted(h, v))
  BY <1>1, <1>3, FS_Subset
<1>5. /\ Cardinality(Permitted(h, v)') \in Nat /\ Cardinality(Permitted(h, v)) \in Nat
      /\ Cardinality(Used(h, v)) \in Nat
  BY <1>1, <1>4, FS_CardinalityType
<1> QED BY <1>1, <1>2, <1>4, <1>5

(* The attempt that is told "consumed" is the one that gets past.           *)
LEMMA ConsumeApproved ==
    ASSUME Inv, TypeInv, HumanInv, ConsentsMade, ApprovedInv, NEW t \in Attempts, Consume(t)
    PROVE  HumanInv' /\ ConsentsMade' /\ ApprovedInv'
<1>1. /\ pc[t] = "resolve" /\ UNCHANGED <<req, decided, effects, lostConsents>>
      /\ pc'[t] \in {"claim", "execute", "done"}
      /\ Human!Consume(Hash[req[t]], decided[t].version) /\ granted' # granted
      /\ \A s \in Attempts \ {t} : pc'[s] = pc[s]
  BY DEF Consume, Reply, Execution, Goto, Answer, effect, TypeInv, CoreOK
<1> PICK b \in Hashes : b = Hash[req[t]]
  BY <1>1, GatewayAssumption DEF TypeInv, Started
<1> PICK v \in 0..MaxVersion : v = decided[t].version
  BY DEF TypeInv, CoreOK
<1>2. HumanInv' /\ ConsumedSame
  BY <1>1, ConsumeUses
<1>3. PICK i \in ApprovalIds :
           /\ i \notin Used(b, v)
           /\ Used(b, v)' = Used(b, v) \cup {i}
           /\ \A j \in ApprovalIds : approval'[j] # approval[j] =>
                /\ approval[j].state = "APPROVED" /\ approval'[j].state = "CONSUMED"
                /\ approval'[j].binding = b /\ approval'[j].version = v
                /\ granted'[j] = 1 => j = i
           /\ \A h \in Hashes, w \in Versions :
                ~(h = b /\ w = v) => Used(h, w)' = Used(h, w)
  BY <1>1, ConsumeUses
<1>6. Held(t) = {} /\ t \notin lostConsents
  BY <1>1 DEF ConsentsMade, Early
<1>7. /\ consuming' \in [ApprovalIds -> Attempts \cup {None}]
      /\ \A j \in ApprovalIds :
           consuming'[j] # consuming[j] => consuming'[j] = t /\ approval'[j] # approval[j]
  BY DEF Consume, ConsentsMade
<1>8. ASSUME NEW s \in Attempts \ {t} PROVE Held(s)' = Held(s)
  <2>1. Held(s)' \subseteq Held(s)
    BY <1>7 DEF Held
  <2>2. \A j \in Held(s) : approval[j].state = "CONSUMED"
    BY DEF ConsentsMade
  <2>3. \A j \in Held(s) : j \in ApprovalIds /\ consuming'[j] = consuming[j]
    BY <1>3, <1>7, <2>2 DEF Held
  <2> QED BY <2>1, <2>3 DEF Held
<1>9. \A j \in Held(t)' : j \in ApprovalIds /\ approval'[j] # approval[j]
  BY <1>6, <1>7 DEF Held
<1>10. ConsentsMade'
  <2>1. ASSUME NEW s \in Attempts, NEW j \in Held(s)'
        PROVE  /\ s \notin lostConsents' /\ pc'[s] \notin Early
               /\ approval'[j].state = "CONSUMED"
               /\ approval'[j].binding = Hash[req'[s]]
               /\ approval'[j].version = decided'[s].version
               /\ \A k \in Held(s)' : granted'[j] = 1 /\ granted'[k] = 1 => j = k
    <3>1. CASE s = t
      BY <1>1, <1>3, <1>6, <1>9, <2>1, <3>1 DEF Early
    <3>2. CASE s # t
      <4>1. \A k \in Held(s) : /\ k \in ApprovalIds /\ approval[k].state = "CONSUMED"
                                /\ approval'[k] = approval[k] /\ granted'[k] = granted[k]
        BY <1>2 DEF ConsentsMade, ConsumedSame, Held
      <4> QED BY <1>1, <1>8, <2>1, <3>2, <4>1 DEF ConsentsMade
    <3> QED BY <3>1, <3>2
  <2>2. \A s \in lostConsents' : pc'[s] \notin Early
    BY <1>1, <1>6 DEF ConsentsMade
  <2> QED BY <1>1, <1>7, <2>1, <2>2 DEF ConsentsMade
<1>4. ASSUME NEW h \in Hashes, NEW w \in Versions
      PROVE  /\ Permitted(h, w)' \subseteq Permitted(h, w) \cup {t}
             /\ ~(h = b /\ w = v) => Permitted(h, w)' \subseteq Permitted(h, w)
  <2>1. \A s \in Attempts \ {t} : Counts(s)' => Counts(s)
    BY <1>1, <1>8 DEF Counts, Past
  <2> QED BY <1>1, <2>1 DEF Permitted
<1>5. ASSUME NEW h \in Hashes, NEW w \in Versions
      PROVE  /\ IsFiniteSet(Permitted(h, w)') /\ IsFiniteSet(Used(h, w)')
             /\ Cardinality(Permitted(h, w)') <= Cardinality(Used(h, w)')
  <2>1. /\ IsFiniteSet(Permitted(h, w)) /\ IsFiniteSet(Used(h, w))
        /\ Cardinality(Permitted(h, w)) <= Cardinality(Used(h, w))
        /\ Cardinality(Permitted(h, w)) \in Nat /\ Cardinality(Used(h, w)) \in Nat
    BY FS_CardinalityType DEF ApprovedInv
  <2>2. CASE ~(h = b /\ w = v)
    <3>1. Used(h, w)' = Used(h, w) /\ Permitted(h, w)' \subseteq Permitted(h, w)
      BY <1>3, <1>4, <2>2
    <3>2. /\ IsFiniteSet(Permitted(h, w)') /\ Cardinality(Permitted(h, w)') \in Nat
          /\ Cardinality(Permitted(h, w)') <= Cardinality(Permitted(h, w))
      BY <2>1, <3>1, FS_Subset, FS_CardinalityType
    <3> QED BY <2>1, <3>1, <3>2
  <2>3. CASE h = b /\ w = v
    <3>1. i \notin Used(h, w) /\ Used(h, w)' = Used(h, w) \cup {i}
      BY <1>3, <2>3
    <3>2. IsFiniteSet(Used(h, w)') /\ Cardinality(Used(h, w)') = Cardinality(Used(h, w)) + 1
      BY <2>1, <3>1, FS_AddElement
    <3>3. /\ IsFiniteSet(Permitted(h, w) \cup {t})
          /\ Cardinality(Permitted(h, w) \cup {t}) <= Cardinality(Permitted(h, w)) + 1
      <4> DEFINE P == Permitted(h, w)
      <4>1. IsFiniteSet(P) /\ Cardinality(P) \in Nat
        BY <2>1
      <4> HIDE DEF P
      <4>2. /\ IsFiniteSet(P \cup {t})
            /\ Cardinality(P \cup {t})
                 = IF t \in P THEN Cardinality(P) ELSE Cardinality(P) + 1
        BY <4>1, FS_AddElement
      <4>3. Cardinality(P \cup {t}) <= Cardinality(P) + 1
        BY <4>1, <4>2
      <4> QED BY <4>2, <4>3 DEF P
    <3>4. /\ IsFiniteSet(Permitted(h, w)')
          /\ Cardinality(Permitted(h, w)') <= Cardinality(Permitted(h, w) \cup {t})
      BY <1>4, <3>3, FS_Subset
    <3>5. /\ Cardinality(Permitted(h, w)') \in Nat
          /\ Cardinality(Permitted(h, w) \cup {t}) \in Nat
      BY <3>3, <3>4, FS_CardinalityType
    <3> QED BY <2>1, <3>2, <3>3, <3>4, <3>5
  <2> QED BY <2>2, <2>3
<1> QED BY <1>2, <1>5, <1>10 DEF ApprovedInv

(* An attempt never goes back before its resolve call, and keeps what it    *)
(* asked for and how it was decided.                                        *)
Onward ==
    \A t \in Attempts : pc[t] \notin Early =>
        pc'[t] \notin Early /\ req'[t] = req[t] /\ decided'[t] = decided[t]

LEMMA OnwardStep == TypeInv /\ [Next]_vars => Onward
<1> SUFFICES ASSUME TypeInv, [Next]_vars PROVE Onward
  OBVIOUS
<1>a. /\ pc \in [Attempts -> PC] /\ req \in [Attempts -> Requests \cup {None}]
      /\ decided \in [Attempts -> [revoked: BOOLEAN, version: 0..MaxVersion,
                                   effect: Effect]]
  BY DEF TypeInv, CoreOK
<1>b. ASSUME NEW t \in Attempts, UNCHANGED <<req, decided>>,
             \E l \in {"execute", "complete", "done", "dead"} : pc' = [pc EXCEPT ![t] = l]
      PROVE  Onward
  BY <1>a, <1>b DEF Onward, Early
<1>c. ASSUME NEW t \in Attempts, pc[t] \in Early,
             \A s \in Attempts \ {t} :
               pc'[s] = pc[s] /\ req'[s] = req[s] /\ decided'[s] = decided[s]
      PROVE  Onward
  BY <1>c DEF Onward
<1>d. UNCHANGED attempt => Onward
  BY DEF attempt, Onward
<1>1. ASSUME NEW t \in Attempts, NEW r \in Requests, Submit(t, r) \/ Unauthorized(t, r)
      PROVE  Onward
  BY <1>1, <1>a, <1>c DEF Submit, Unauthorized, Early
<1>2. ASSUME NEW t \in Attempts, \/ GetAgent(t) \/ GetTool(t) \/ Evaluate(t) \/ NoBundle(t)
                                 \/ Refuse(t)
      PROVE  Onward
  <2>1. pc[t] \in Early
    BY <1>2 DEF GetAgent, GetTool, Evaluate, NoBundle, Refuse, Early
  <2>2. \A s \in Attempts \ {t} :
           pc'[s] = pc[s] /\ req'[s] = req[s] /\ decided'[s] = decided[s]
    BY <1>2, <1>a DEF GetAgent, GetTool, Evaluate, NoBundle, Refuse, Goto, Answer
  <2> QED BY <1>c, <2>1, <2>2
<1>3. ASSUME NEW t \in Attempts, \/ Record(t) \/ NotRecorded(t) \/ Consume(t) \/ Pause(t)
                                 \/ NotResolved(t)
      PROVE  Onward
  <2>1. pc[t] \in Early
    BY <1>3 DEF Record, NotRecorded, Consume, Pause, NotResolved, Early
  <2>2. \A s \in Attempts \ {t} :
           pc'[s] = pc[s] /\ req'[s] = req[s] /\ decided'[s] = decided[s]
    BY <1>3, <1>a DEF Record, NotRecorded, Consume, Pause, NotResolved, Reply, Goto, Answer
  <2> QED BY <1>c, <2>1, <2>2
<1>4. ASSUME NEW t \in Attempts, \/ Claim(t) \/ Duplicate(t) \/ KeyReused(t) \/ NotClaimed(t)
                                 \/ Execute(t) \/ Complete(t) \/ Unreachable(t) \/ Crash(t)
      PROVE  Onward
  <2>1. UNCHANGED <<req, decided>>
    BY <1>4 DEF Claim, Duplicate, KeyReused, NotClaimed, Execute, Complete, Unreachable, Crash,
                Reply, Goto, Answer
  <2>2. \E l \in {"execute", "complete", "done", "dead"} : pc' = [pc EXCEPT ![t] = l]
    BY <1>4 DEF Claim, Duplicate, KeyReused, NotClaimed, Execute, Complete, Unreachable, Crash,
                Reply, Goto, Answer
  <2> QED BY <1>b, <2>1, <2>2
<1>5. ASSUME NEW t \in Attempts,
             \/ CommitEvent(t) \/ LoseEvent(t) \/ CommitClaim(t) \/ LoseClaim(t)
             \/ CommitConsent(t) \/ LoseConsent(t)
      PROVE  Onward
  BY <1>5, <1>d DEF CommitEvent, LoseEvent, CommitClaim, LoseClaim, CommitConsent, LoseConsent
<1>6. CASE \/ Revoke \/ Publish \/ UNCHANGED vars
           \/ \E i \in ApprovalIds, u \in Users, to \in {"APPROVED", "REJECTED"} :
                Decide(i, u, to)
  BY <1>6, <1>d DEF Revoke, Publish, Decide, vars
<1> QED BY <1>1, <1>2, <1>3, <1>4, <1>5, <1>6 DEF Next

LEMMA ConsentsKept ==
    ASSUME ConsentsMade, Onward, ConsumedSame, UNCHANGED consents
    PROVE  ConsentsMade'
<1>1. UNCHANGED <<consuming, lostConsents>> /\ \A t : Held(t)' = Held(t)
  BY DEF consents, Held
<1>2. \A t \in Attempts : \A i \in Held(t) :
          /\ i \in ApprovalIds /\ approval'[i] = approval[i] /\ granted'[i] = granted[i]
  BY DEF ConsentsMade, ConsumedSame, Held
<1> QED BY <1>1, <1>2 DEF ConsentsMade, Onward

(* The rows a lost consumption lets go, and the attempt that loses them.    *)
LEMMA LoseApproved ==
    ASSUME TypeInv, HumanInv, ConsentsMade, ApprovedInv, Onward,
           NEW t \in Attempts, LoseConsent(t)
    PROVE  HumanInv' /\ ConsentsMade' /\ ApprovedInv'
<1>1. /\ Held(t) # {} /\ Held(t) \subseteq ApprovalIds
      /\ granted' = [i \in ApprovalIds |-> IF i \in Held(t) THEN 0 ELSE granted[i]]
      /\ approval' = [i \in ApprovalIds |-> IF i \in Held(t)
                        THEN [approval[i] EXCEPT !.state = "APPROVED"] ELSE approval[i]]
      /\ consuming' = [i \in ApprovalIds |-> IF i \in Held(t) THEN None ELSE consuming[i]]
      /\ lostConsents' = lostConsents \cup {t}
      /\ UNCHANGED <<pc, req, decided, effects>>
  BY DEF LoseConsent, Release, Human!Become, Held, attempt, effect
<1>2. /\ t \notin lostConsents /\ pc[t] \notin Early
      /\ \A i \in Held(t) : /\ approval[i].state = "CONSUMED"
                             /\ approval[i].binding = Hash[req[t]]
                             /\ approval[i].version = decided[t].version
                             /\ \A j \in Held(t) : granted[i] = 1 /\ granted[j] = 1 => i = j
  BY <1>1 DEF ConsentsMade
<1>3. ASSUME NEW i \in Held(t)
      PROVE  /\ approval'[i] \in Row /\ approval'[i].state = "APPROVED"
             /\ approval'[i].version = approval[i].version
             /\ approval'[i].requester = approval[i].requester
             /\ approval'[i].decidedBy = approval[i].decidedBy /\ granted'[i] = 0
  BY <1>1 DEF HumanInv, Row
<1>4. \A i \in ApprovalIds \ Held(t) : approval'[i] = approval[i] /\ granted'[i] = granted[i]
  BY <1>1
<1>5. HumanInv'
  <2>1. approval' \in [ApprovalIds -> Row] /\ granted' \in [ApprovalIds -> {0, 1}]
    BY <1>1, <1>3, <1>4 DEF HumanInv
  <2>2. ASSUME NEW i \in ApprovalIds
        PROVE  /\ granted'[i] = 1 => approval'[i].state = "CONSUMED"
               /\ approval'[i].state \in {"APPROVED", "CONSUMED"} =>
                    approval'[i].decidedBy \in Approvers[approval'[i].version]
                                                 \ {approval'[i].requester}
    BY <1>2, <1>3, <1>4 DEF HumanInv
  <2> QED BY <2>1, <2>2 DEF HumanInv
<1>6. /\ Held(t)' = {} /\ \A s \in Attempts \ {t} : Held(s)' = Held(s)
      /\ \A s \in Attempts \ {t} : Held(s) \subseteq ApprovalIds \ Held(t)
  BY <1>1, GatewayAssumption DEF Held
<1>7. ConsentsMade'
  <2>1. consuming' \in [ApprovalIds -> Attempts \cup {None}] /\ lostConsents' \subseteq Attempts
    BY <1>1 DEF ConsentsMade
  <2>2. \A s \in lostConsents' : pc'[s] \notin Early
    BY <1>1, <1>2 DEF ConsentsMade
  <2>3. ASSUME NEW s \in Attempts, NEW i \in Held(s)'
        PROVE  /\ s \notin lostConsents' /\ pc'[s] \notin Early
               /\ approval'[i].state = "CONSUMED"
               /\ approval'[i].binding = Hash[req'[s]]
               /\ approval'[i].version = decided'[s].version
               /\ \A j \in Held(s)' : granted'[i] = 1 /\ granted'[j] = 1 => i = j
    <3>1. s # t /\ i \in Held(s) /\ Held(s)' = Held(s)
      BY <1>6, <2>3
    <3> QED BY <1>1, <1>4, <1>6, <3>1 DEF ConsentsMade
  <2> QED BY <2>1, <2>2, <2>3 DEF ConsentsMade
<1>8. ASSUME NEW h \in Hashes, NEW w \in Versions
      PROVE  /\ IsFiniteSet(Permitted(h, w)') /\ IsFiniteSet(Used(h, w)')
             /\ Cardinality(Permitted(h, w)') <= Cardinality(Used(h, w)')
  <2> DEFINE P == Permitted(h, w)
             U == Used(h, w)
             V == Used(h, w)'
             Q == Permitted(h, w)'
  <2>1. /\ IsFiniteSet(P) /\ IsFiniteSet(U) /\ Cardinality(P) <= Cardinality(U)
        /\ Cardinality(P) \in Nat /\ Cardinality(U) \in Nat
    BY FS_CardinalityType DEF ApprovedInv
  <2>2. Q \subseteq P \ {t}
    <3>1. \A s \in Attempts : Counts(s)' => Counts(s) /\ s # t
      BY <1>1, <1>6 DEF Counts, Past
    <3> QED BY <1>1, <3>1 DEF Permitted
  <2>3. V = U \ Held(t)
    BY <1>3, <1>4 DEF Used
  <2>4. Counts(t)
    BY <1>1, <1>2 DEF Counts
  <2>5. CASE t \in P
    <3>1. V = U \/ \E i \in U : V = U \ {i}
      BY <1>2, <2>3 DEF Used
    <3> HIDE DEF P, U, V, Q
    <3>2. /\ IsFiniteSet(P \ {t}) /\ Cardinality(P \ {t}) = Cardinality(P) - 1
          /\ Cardinality(P \ {t}) \in Nat
      BY <2>1, <2>5, FS_RemoveElement, FS_CardinalityType
    <3>3. IsFiniteSet(Q) /\ Cardinality(Q) <= Cardinality(P \ {t}) /\ Cardinality(Q) \in Nat
      BY <2>2, <3>2, FS_Subset, FS_CardinalityType
    <3>4. /\ IsFiniteSet(V) /\ Cardinality(V) \in Nat
          /\ Cardinality(U) - 1 <= Cardinality(V)
      <4>1. CASE V = U
        BY <2>1, <4>1
      <4>2. CASE \E i \in U : V = U \ {i}
        <5>1. PICK i \in U : V = U \ {i}
          BY <4>2
        <5>2. IsFiniteSet(V) /\ Cardinality(V) = Cardinality(U) - 1
          BY <2>1, <5>1, FS_RemoveElement
        <5> QED BY <2>1, <5>2, FS_CardinalityType
      <4> QED BY <3>1, <4>1, <4>2
    <3>5. IsFiniteSet(Q) /\ IsFiniteSet(V) /\ Cardinality(Q) <= Cardinality(V)
      BY <2>1, <3>2, <3>3, <3>4
    <3> QED BY <3>5 DEF Q, V
  <2>6. CASE t \notin P
    <3>1. V = U
      BY <1>2, <2>3, <2>4, <2>6 DEF Used, Permitted
    <3> HIDE DEF P, U, V, Q
    <3>2. IsFiniteSet(Q) /\ Cardinality(Q) <= Cardinality(P) /\ Cardinality(Q) \in Nat
      BY <2>1, <2>2, FS_Subset, FS_CardinalityType
    <3>3. IsFiniteSet(Q) /\ IsFiniteSet(V) /\ Cardinality(Q) <= Cardinality(V)
      BY <2>1, <3>1, <3>2
    <3> QED BY <3>3 DEF Q, V
  <2> QED BY <2>5, <2>6
<1> QED BY <1>5, <1>7, <1>8 DEF ApprovedInv

LEMMA CommitApproved ==
    ASSUME TypeInv, HumanInv, ConsentsMade, ApprovedInv, Onward,
           NEW t \in Attempts, CommitConsent(t)
    PROVE  HumanInv' /\ ConsentsMade' /\ ApprovedInv'
<1>1. /\ consuming' = [i \in ApprovalIds |-> IF i \in Held(t) THEN None ELSE consuming[i]]
      /\ UNCHANGED <<approval, granted, lostConsents, pc, req, decided, effects>>
  BY DEF CommitConsent, Release, attempt, effect
<1>2. \A s \in Attempts : Held(s)' \subseteq Held(s)
  BY <1>1, GatewayAssumption DEF Held
<1>3. HumanInv' /\ UsedSame
  BY <1>1 DEF HumanInv, UsedSame, Used
<1>4. PermittedSame
  BY <1>1, <1>2 DEF PermittedSame, Counts, Past
<1>5. ConsentsMade'
  BY <1>1, <1>2 DEF ConsentsMade
<1> QED BY <1>3, <1>4, <1>5, ApprovedSame

LEMMA ApprovedStep ==
    Inv /\ TypeInv /\ HumanInv /\ ConsentsMade /\ ApprovedInv /\ [Next]_vars
        => HumanInv' /\ ConsentsMade' /\ ApprovedInv'
<1> SUFFICES ASSUME Inv, TypeInv, HumanInv, ConsentsMade, ApprovedInv, [Next]_vars
             PROVE  HumanInv' /\ ConsentsMade' /\ ApprovedInv'
  OBVIOUS
<1> DEFINE Goal == HumanInv' /\ ConsentsMade' /\ ApprovedInv'
<1> USE DEF service, effect
<1>a. /\ pc \in [Attempts -> PC] /\ effects \subseteq Attempts
      /\ req \in [Attempts -> Requests \cup {None}]
      /\ decided \in [Attempts -> [revoked: BOOLEAN, version: 0..MaxVersion,
                                   effect: Effect]]
      /\ \A t \in effects : pc[t] \in {"complete", "done", "dead"}
  BY DEF TypeInv, CoreOK, Inv, EffectsLast
<1>g. Onward
  BY OnwardStep
<1>h. ASSUME UNCHANGED human
      PROVE  HumanInv' /\ UsedSame /\ ConsentsMade' /\ \A t : Held(t)' = Held(t)
  <2>1. UNCHANGED consents /\ ConsumedSame /\ \A t : Held(t)' = Held(t)
    BY <1>h DEF human, consents, ConsumedSame, Held
  <2> QED BY <1>g, <1>h, <2>1, HumanSame, ConsentsKept
(* A step of an attempt that moves on from a place before the tool call, or *)
(* from one past the human.                                                 *)
<1>b. ASSUME NEW t \in Attempts, UNCHANGED <<human, req, decided>>,
             effects' \subseteq effects \cup {t},
             \A s \in Attempts \ {t} : pc'[s] = pc[s],
             \/ Past(t) \/ pc[t] = "execute"
             \/ decided[t].effect # "require_approval"
             \/ pc'[t] \notin {"claim", "execute", "complete"} /\ effects' = effects
      PROVE  Goal
  <2>1. lostConsents' = lostConsents
    BY <1>b DEF human, consents
  <2>2. \A s \in Attempts : Past(s)' /\ decided[s].effect = "require_approval" => Past(s)
    BY <1>b DEF Past
  <2>3. PermittedSame
    BY <1>b, <1>h, <2>1, <2>2 DEF PermittedSame, Counts
  <2> QED BY <1>b, <1>h, <2>3, ApprovedSame
<1>c. ASSUME NEW t \in Attempts, NEW status, Answer(t, status), effects' = effects,
             UNCHANGED human
      PROVE  Goal
  <2>1. /\ UNCHANGED <<req, decided>> /\ pc'[t] = "done"
        /\ \A s \in Attempts \ {t} : pc'[s] = pc[s]
    BY <1>a, <1>c DEF Answer
  <2> QED BY <1>b, <1>c, <2>1
<1>d. ASSUME NEW t \in Attempts, NEW l \in PC, Goto(t, l), effects' = effects, UNCHANGED human,
             \/ Past(t) \/ decided[t].effect # "require_approval"
             \/ l \notin {"claim", "execute", "complete"}
      PROVE  Goal
  <2>1. /\ UNCHANGED <<req, decided>> /\ pc'[t] = l
        /\ \A s \in Attempts \ {t} : pc'[s] = pc[s]
    BY <1>a, <1>d DEF Goto
  <2> QED BY <1>b, <1>d, <2>1
(* An attempt that has had no decision yet.                                 *)
<1>e. ASSUME NEW t \in Attempts, NEW l \in {"agent", "refuse", "tool", "record", "done"},
             pc[t] \in {"idle", "agent", "bundle"}, pc'[t] = l,
             \A s \in Attempts \ {t} :
               pc'[s] = pc[s] /\ req'[s] = req[s] /\ decided'[s] = decided[s],
             UNCHANGED <<human, effects>>
      PROVE  Goal
  <2>1. lostConsents' = lostConsents /\ Held(t) = {} /\ \A s : Held(s)' = Held(s)
    BY <1>e, <1>h DEF human, consents, ConsentsMade, Early
  <2>2. ~Past(t)'
    BY <1>a, <1>e DEF Past
  <2>3. \A s \in Attempts \ {t} : Past(s)' => Past(s)
    BY <1>e DEF Past
  <2>4. PermittedSame
    BY <1>e, <2>1, <2>2, <2>3 DEF PermittedSame, Counts
  <2> QED BY <1>e, <1>h, <2>4, ApprovedSame
<1>f. ASSUME UNCHANGED <<attempt, effects, consents>>, HumanInv', UsedSame, ConsumedSame
      PROVE  Goal
  <2>1. UNCHANGED <<pc, req, decided, effects, consuming, lostConsents>>
    BY <1>f DEF attempt, consents
  <2>2. PermittedSame
    BY <2>1 DEF PermittedSame, Counts, Past, Held
  <2> QED BY <1>f, <1>g, <2>2, ApprovedSame, ConsentsKept
<1>i. ASSUME UNCHANGED <<attempt, effects, human>> PROVE Goal
  <2>1. UNCHANGED consents /\ ConsumedSame
    BY <1>i DEF human, ConsumedSame
  <2> QED BY <1>f, <1>h, <1>i, <2>1
<1>1. ASSUME NEW t \in Attempts, NEW r \in Requests, Submit(t, r) \/ Unauthorized(t, r)
      PROVE  Goal
  <2>1. PICK l \in {"agent", "refuse", "done"} : pc' = [pc EXCEPT ![t] = l]
    BY <1>1 DEF Submit, Unauthorized
  <2>2. /\ pc[t] = "idle" /\ pc'[t] = l /\ UNCHANGED <<human, effects>>
        /\ \A s \in Attempts \ {t} :
             pc'[s] = pc[s] /\ req'[s] = req[s] /\ decided'[s] = decided[s]
    BY <1>1, <1>a, <2>1 DEF Submit, Unauthorized
  <2> QED BY <1>e, <2>2
<1>2. ASSUME NEW t \in Attempts, GetAgent(t) \/ Evaluate(t)
      PROVE  Goal
  <2>1. PICK l \in {"refuse", "tool", "record"} : pc' = [pc EXCEPT ![t] = l]
    BY <1>2 DEF GetAgent, Goto, Evaluate
  <2>2. /\ pc[t] \in {"agent", "bundle"} /\ pc'[t] = l /\ UNCHANGED <<human, effects>>
        /\ \A s \in Attempts \ {t} :
             pc'[s] = pc[s] /\ req'[s] = req[s] /\ decided'[s] = decided[s]
    BY <1>2, <1>a, <2>1 DEF GetAgent, Goto, Evaluate
  <2> QED BY <1>e, <2>2
<1>3. ASSUME NEW t \in Attempts, GetTool(t) \/ NoBundle(t) \/ Crash(t)
      PROVE  Goal
  <2>1. /\ \E l \in PC \ {"claim", "execute", "complete"} : Goto(t, l)
        /\ effects' = effects /\ UNCHANGED human
    BY <1>3 DEF GetTool, NoBundle, Crash, PC
  <2> QED BY <1>d, <2>1
<1>4. ASSUME NEW t \in Attempts, Refuse(t) \/ NotRecorded(t) \/ NotResolved(t)
                                   \/ KeyReused(t) \/ NotClaimed(t) \/ Unreachable(t)
                                   \/ Complete(t)
      PROVE  Goal
  <2>1. (\E status : Answer(t, status)) /\ effects' = effects /\ UNCHANGED human
    BY <1>4 DEF Refuse, Ingest, NotRecorded, NotResolved, KeyReused, NotClaimed, Unreachable,
                Complete
  <2> QED BY <1>c, <2>1
<1>5. ASSUME NEW t \in Attempts, Record(t) PROVE Goal
  <2>1. effects' = effects /\ UNCHANGED human
    BY <1>5 DEF Record, Ingest
  <2>2. CASE Answer(t, 500)
    BY <1>c, <2>1, <2>2
  <2>3. CASE Goto(t, "resolve")
    BY <1>d, <2>1, <2>3 DEF PC
  <2>4. CASE Goto(t, Execution(t)) /\ decided[t].effect # "require_approval"
    <3>1. Execution(t) \in PC
      BY DEF Execution, PC
    <3> QED BY <1>d, <2>1, <2>4, <3>1
  <2> QED BY <1>5, <2>2, <2>3, <2>4 DEF Record, Reply
<1>6. ASSUME NEW t \in Attempts, Pause(t) PROVE Goal
  <2>1. /\ pc[t] = "resolve" /\ UNCHANGED <<req, decided, effects>> /\ pc'[t] = "done"
        /\ Human!Refresh(Hash[req[t]], decided[t].version)
        /\ \A s \in Attempts \ {t} : pc'[s] = pc[s]
    BY <1>6, <1>a DEF Pause, Answer
  <2>2. Hash[req[t]] \in Hashes /\ decided[t].version \in 0..MaxVersion
    BY <1>a, <2>1, GatewayAssumption DEF TypeInv, Started
  <2>3. HumanInv' /\ UsedSame /\ ConsumedSame
    BY <2>1, <2>2, RefreshUses
  <2>4. UNCHANGED consents /\ lostConsents' = lostConsents /\ \A s : Held(s)' = Held(s)
    BY <1>6 DEF Pause, consents, Held
  <2>5. Held(t) = {}
    BY <2>1 DEF ConsentsMade, Early
  <2>6. ~Past(t)'
    BY <1>a, <2>1 DEF Past
  <2>7. \A s \in Attempts \ {t} : Past(s)' => Past(s)
    BY <2>1 DEF Past
  <2>8. PermittedSame
    BY <2>1, <2>4, <2>5, <2>6, <2>7 DEF PermittedSame, Counts
  <2> QED BY <1>g, <2>3, <2>4, <2>8, ApprovedSame, ConsentsKept
<1>7. ASSUME NEW t \in Attempts, Claim(t) PROVE Goal
  <2>1. Past(t) /\ effects' = effects /\ UNCHANGED human
    BY <1>7 DEF Claim, Past
  <2> QED BY <1>7, <1>c, <1>d, <2>1 DEF Claim, Reply, PC
<1>8. ASSUME NEW t \in Attempts, Duplicate(t) \/ Execute(t) PROVE Goal
  <2>1. PICK l \in {"complete", "done"} : pc' = [pc EXCEPT ![t] = l]
    BY <1>8 DEF Duplicate, Execute
  <2>2. /\ Past(t) /\ UNCHANGED <<human, req, decided>> /\ effects' \subseteq effects \cup {t}
        /\ \A s \in Attempts \ {t} : pc'[s] = pc[s]
    BY <1>8, <1>a, <2>1 DEF Duplicate, Execute, Perform, Past
  <2> QED BY <1>b, <2>2
<1>9. ASSUME NEW t \in Attempts,
             CommitEvent(t) \/ LoseEvent(t) \/ CommitClaim(t) \/ LoseClaim(t)
      PROVE  Goal
  BY <1>9, <1>i DEF CommitEvent, LoseEvent, CommitClaim, LoseClaim
<1>10. CASE Revoke \/ Publish
  BY <1>10, <1>i DEF Revoke, Publish
<1>11. ASSUME NEW i \in ApprovalIds, NEW u \in Users,
              NEW to \in {"APPROVED", "REJECTED"}, Decide(i, u, to)
       PROVE  Goal
  BY <1>11, <1>f, DecideUses DEF Decide
<1>12. CASE UNCHANGED vars
  BY <1>12, <1>i DEF vars
<1>13. ASSUME NEW t \in Attempts, CommitConsent(t) \/ LoseConsent(t) PROVE Goal
  BY <1>13, <1>g, CommitApproved, LoseApproved
<1> QED BY <1>1, <1>2, <1>3, <1>4, <1>5, <1>6, <1>7, <1>8, <1>9, <1>10, <1>11, <1>12,
           <1>13, ConsumeApproved DEF Next

LEMMA ApprovedInvariant == Spec => [](HumanInv /\ ConsentsMade /\ ApprovedInv)
  BY InvInvariant, TypeInvariant, InitHuman, ApprovedStep, PTL DEF Spec

(* The states of the registry, of the attempts and of the two services      *)
(* beneath them are well-typed, in both orders of answer and commit.        *)
THEOREM TypeCorrect == Spec => []TypeOK
<1>1. TypeInv /\ HumanInv /\ ConsentsMade => TypeOK
  BY DEF TypeInv, CoreOK, LedgerOK, HumanInv, ConsentsMade, TypeOK
<1> QED BY <1>1, TypeInvariant, ApprovedInvariant, PTL

(* Every effect that a human had to permit has used up an approval of its   *)
(* own, given by a human who may decide, for its request and its version,   *)
(* unless the database takes back a consumption it answered: for any number *)
(* of attempts, approvals and requests.                                     *)
THEOREM KeptConsentsCoverHolds == Spec => []KeptConsentsCover
<1>1. ASSUME Inv, ApprovedInv, NEW h \in Hashes, NEW v \in Versions
      PROVE  Cardinality({t \in effects \ lostConsents :
                            /\ Hash[req[t]] = h
                            /\ decided[t].version = v
                            /\ decided[t].effect = "require_approval"})
               <= Cardinality(Used(h, v))
  <2> DEFINE had == {t \in effects \ lostConsents :
                       /\ Hash[req[t]] = h
                       /\ decided[t].version = v
                       /\ decided[t].effect = "require_approval"}
  <2>1. had \subseteq Permitted(h, v)
    BY <1>1 DEF Inv, PlacesOK, Permitted, Counts, Past
  <2>2. /\ IsFiniteSet(Permitted(h, v)) /\ IsFiniteSet(Used(h, v))
        /\ Cardinality(Permitted(h, v)) <= Cardinality(Used(h, v))
    BY <1>1 DEF ApprovedInv
  <2> HIDE DEF had
  <2>3. IsFiniteSet(had) /\ Cardinality(had) <= Cardinality(Permitted(h, v))
    BY <2>1, <2>2, FS_Subset
  <2>4. /\ Cardinality(had) \in Nat /\ Cardinality(Permitted(h, v)) \in Nat
        /\ Cardinality(Used(h, v)) \in Nat
    BY <2>2, <2>3, FS_CardinalityType
  <2>5. Cardinality(had) <= Cardinality(Used(h, v))
    BY <2>2, <2>3, <2>4
  <2> QED BY <2>5 DEF had
<1>2. Inv /\ ApprovedInv => KeptConsentsCover
  BY <1>1 DEF KeptConsentsCover, Approved, Used
<1> QED BY <1>2, InvInvariant, ApprovedInvariant, PTL

-----------------------------------------------------------------------------
(* Where the commit comes first nothing that was answered is lost, and the  *)
(* two theorems cover every effect.                                         *)

NothingLost ==
    CommitFirst => /\ claiming = {} /\ lostClaims = {} /\ lostConsents = {}
                   /\ consuming = [i \in ApprovalIds |-> None]

LEMMA NothingLostStep == NothingLost /\ [Next]_vars => NothingLost'
<1> SUFFICES ASSUME NothingLost, [Next]_vars, CommitFirst PROVE NothingLost'
  BY DEF NothingLost
<1> USE DEF service, human, consents, execution, claims
<1>1. /\ claiming = {} /\ lostClaims = {} /\ lostConsents = {}
      /\ consuming = [i \in ApprovalIds |-> None]
      /\ \A t \in Attempts : Held(t) = {}
  BY GatewayAssumption DEF NothingLost, Held
<1>2. ASSUME UNCHANGED <<claims, consents>> PROVE NothingLost'
  BY <1>2 DEF NothingLost
<1>3. ASSUME NEW t \in Attempts, NEW r \in Requests, Submit(t, r) \/ Unauthorized(t, r)
      PROVE  NothingLost'
  BY <1>2, <1>3 DEF Submit, Unauthorized
<1>4. ASSUME NEW t \in Attempts,
             \/ GetAgent(t) \/ GetTool(t) \/ Evaluate(t) \/ NoBundle(t) \/ Refuse(t)
             \/ Record(t) \/ NotRecorded(t) \/ Pause(t) \/ NotResolved(t)
      PROVE  NothingLost'
  BY <1>2, <1>4 DEF GetAgent, GetTool, Evaluate, NoBundle, Refuse, Record, NotRecorded, Pause,
                    NotResolved, Ingest
<1>5. ASSUME NEW t \in Attempts,
             \/ Duplicate(t) \/ KeyReused(t) \/ NotClaimed(t) \/ Execute(t) \/ Complete(t)
             \/ Unreachable(t) \/ Crash(t) \/ CommitEvent(t) \/ LoseEvent(t)
      PROVE  NothingLost'
  BY <1>2, <1>5 DEF Duplicate, KeyReused, NotClaimed, Execute, Complete, Unreachable, Crash,
                    CommitEvent, LoseEvent
<1>6. ASSUME NEW t \in Attempts, Claim(t) PROVE NothingLost'
  BY <1>2, <1>6 DEF Claim
<1>7. ASSUME NEW t \in Attempts, Consume(t) PROVE NothingLost'
  <2>1. consuming' = consuming
    BY <1>1, <1>7 DEF Consume
  <2> QED BY <1>2, <1>7, <2>1 DEF Consume
<1>8. ASSUME NEW t \in Attempts
      PROVE  /\ ~CommitClaim(t) /\ ~LoseClaim(t)
             /\ ~CommitConsent(t) /\ ~LoseConsent(t)
  BY <1>1 DEF CommitClaim, LoseClaim, CommitConsent, LoseConsent
<1>9. CASE \/ Revoke \/ Publish \/ UNCHANGED vars
           \/ \E i \in ApprovalIds, u \in Users, to \in {"APPROVED", "REJECTED"} :
                Decide(i, u, to)
  BY <1>2, <1>9 DEF Revoke, Publish, Decide, vars
<1> QED BY <1>3, <1>4, <1>5, <1>6, <1>7, <1>8, <1>9 DEF Next

LEMMA NothingLostInvariant == Spec => []NothingLost
<1>1. Init => NothingLost
  BY DEF Init, NothingLost
<1> QED BY <1>1, NothingLostStep, PTL DEF Spec

(* Where the API commits before it answers, an idempotency key buys one side*)
(* effect, however many attempts share it, whatever replies are lost and    *)
(* whichever gateway dies.                                                  *)
THEOREM AtMostOncePerKeyHolds == CommitFirst => (Spec => []AtMostOncePerKey)
<1> SUFFICES ASSUME CommitFirst PROVE Spec => []AtMostOncePerKey
  OBVIOUS
<1>1. NothingLost => effects \ lostClaims = effects
  BY DEF NothingLost
<1>2. NothingLost /\ KeptClaimActsOnce => AtMostOncePerKey
  BY <1>1 DEF KeptClaimActsOnce, AtMostOncePerKey
<1> QED BY <1>2, NothingLostInvariant, KeptClaimActsOnceHolds, PTL

(* Where the API commits before it answers, every effect that a human had to*)
(* permit has used up an approval of its own.                               *)
THEOREM EffectsWereApprovedHolds == CommitFirst => (Spec => []EffectsWereApproved)
<1> SUFFICES ASSUME CommitFirst PROVE Spec => []EffectsWereApproved
  OBVIOUS
<1>1. NothingLost => effects \ lostConsents = effects
  BY DEF NothingLost
<1>2. NothingLost /\ KeptConsentsCover => EffectsWereApproved
  BY <1>1 DEF KeptConsentsCover, EffectsWereApproved
<1> QED BY <1>2, NothingLostInvariant, KeptConsentsCoverHolds, PTL
=============================================================================
