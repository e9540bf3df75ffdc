---------------------------- MODULE FleetProofs ----------------------------
(* What tlapm shows of Fleet, for any number of gateways and any bounds.    *)
EXTENDS Fleet, TLAPS

(* Fleet's type correctness, with what relates the versions of its parts:   *)
(* nobody caches, decides under or was asked to approve under a version     *)
(* that is not published yet.                                               *)
FromPublished ==
    /\ \A g \in Gateways : cache[g] <= latest /\ attempt[g].version <= latest
    /\ row.version <= latest

LEMMA InitInv == Init => TypeOK /\ FromPublished
  BY FleetAssumption DEF Init, TypeOK, FromPublished, Idle, NoRow, Versions

LEMMA DecideInv ==
    ASSUME TypeOK, NEW g \in Gateways, NEW v \in Versions \cup {0}, Decide(g, v)
    PROVE  /\ attempt' \in [Gateways -> [stage: {"idle", "resolve", "execute"},
                                         version: 0..MaxVersion]]
           /\ \A h \in Gateways : attempt'[h].version \in {attempt[h].version, v}
<1>1. [stage |-> "resolve", version |-> v]
         \in [stage: {"idle", "resolve", "execute"}, version: 0..MaxVersion]
  BY FleetAssumption DEF Versions
<1> QED BY <1>1 DEF TypeOK, Decide

LEMMA FinishInv ==
    ASSUME TypeOK, FromPublished, NEW g \in Gateways, Finish(g)
    PROVE  /\ attempt' \in [Gateways -> [stage: {"idle", "resolve", "execute"},
                                         version: 0..MaxVersion]]
           /\ \A h \in Gateways : attempt'[h].version <= latest
<1>1. Idle \in [stage: {"idle", "resolve", "execute"}, version: 0..MaxVersion]
  BY FleetAssumption DEF Idle
<1>2. Idle.version <= latest
  BY FleetAssumption DEF Idle, TypeOK, Versions
<1> QED BY <1>1, <1>2 DEF TypeOK, FromPublished, Finish

LEMMA StepInv == TypeOK /\ FromPublished /\ [Next]_vars => (TypeOK /\ FromPublished)'
<1> SUFFICES ASSUME TypeOK, FromPublished, [Next]_vars PROVE (TypeOK /\ FromPublished)'
  OBVIOUS
<1> USE FleetAssumption
<1>0. latest \in Versions /\ latest \in Nat /\ latest <= MaxVersion
  BY DEF TypeOK, Versions
<1>1. ASSUME NEW g \in Gateways, Serve(g) \/ KeepOld(g) PROVE (TypeOK /\ FromPublished)'
  <2>1. cache[g] \in Versions \cup {0} /\ cache[g] <= latest
    BY DEF TypeOK, FromPublished, Versions
  <2>2. Decide(g, cache[g])
    BY <1>1 DEF Serve, KeepOld
  <2>3. UNCHANGED <<latest, cache, stale, row, wanted, setbacks>>
    BY <1>1 DEF Serve, KeepOld
  <2> QED BY <2>1, <2>2, <2>3, DecideInv DEF TypeOK, FromPublished
<1>2. ASSUME NEW g \in Gateways, Refresh(g) PROVE (TypeOK /\ FromPublished)'
  <2>1. Decide(g, latest)
    BY <1>2 DEF Refresh
  <2>2. cache' \in [Gateways -> 0..MaxVersion] /\ \A h \in Gateways : cache'[h] <= latest
    BY <1>2, <1>0 DEF Refresh, TypeOK, FromPublished
  <2> QED BY <1>0, <1>2, <2>1, <2>2, DecideInv DEF Refresh, TypeOK, FromPublished
<1>3. ASSUME NEW g \in Gateways, Consume(g) PROVE (TypeOK /\ FromPublished)'
  <2>1. attempt[g] \in [stage: {"idle", "resolve", "execute"}, version: 0..MaxVersion]
    BY DEF TypeOK
  <2>2. [attempt[g] EXCEPT !.stage = "execute"]
           = [stage |-> "execute", version |-> attempt[g].version]
    BY <2>1
  <2>3. attempt' = [attempt EXCEPT ![g] = [stage |-> "execute", version |-> attempt[g].version]]
    BY <1>3, <2>2 DEF Consume, TypeOK
  <2>4. attempt' \in [Gateways -> [stage: {"idle", "resolve", "execute"}, version: 0..MaxVersion]]
    BY <2>1, <2>3 DEF TypeOK
  <2>5. \A h \in Gateways : attempt'[h].version <= latest
    BY <2>3 DEF TypeOK, FromPublished
  <2> QED BY <1>0, <1>3, <2>4, <2>5 DEF Consume, TypeOK, FromPublished, NoRow
<1>4. ASSUME NEW g \in Gateways, Pause(g) PROVE (TypeOK /\ FromPublished)'
  <2>1. attempt[g].version \in 0..MaxVersion /\ attempt[g].version <= latest
    BY DEF TypeOK, FromPublished
  <2>2. row' \in {row, Request(attempt[g].version)}
    BY <1>4 DEF Pause, AfterResolve
  <2>3. /\ row' \in [state: {"NONE", "PENDING", "APPROVED", "REJECTED"}, version: 0..MaxVersion]
        /\ row'.version <= latest
    BY <2>1, <2>2 DEF Request, TypeOK, FromPublished
  <2> QED BY <1>4, <2>3, FinishInv DEF Pause, TypeOK, FromPublished
<1>5. ASSUME NEW g \in Gateways, Perform(g) \/ Fail(g) PROVE (TypeOK /\ FromPublished)'
  BY <1>5, FinishInv DEF Perform, Fail, TypeOK, FromPublished
<1>6. ASSUME NEW g \in Gateways, Restart(g) PROVE (TypeOK /\ FromPublished)'
  <2>1. cache' \in [Gateways -> 0..MaxVersion] /\ \A h \in Gateways : cache'[h] <= latest
    BY <1>6, <1>0 DEF Restart, TypeOK, FromPublished
  <2> QED BY <1>6, <2>1, FinishInv DEF Restart, TypeOK, FromPublished
<1>7. ASSUME NEW g \in Gateways, Age(g) PROVE (TypeOK /\ FromPublished)'
  BY <1>7 DEF Age, TypeOK, FromPublished
<1>8. CASE Publish
  BY <1>8, <1>0 DEF Publish, TypeOK, FromPublished, Versions
<1>9. CASE Approve \/ Reject
  <2>1. PICK s \in {"APPROVED", "REJECTED"} : row' = [row EXCEPT !.state = s]
    BY <1>9 DEF Approve, Reject
  <2>2. /\ row' \in [state: {"NONE", "PENDING", "APPROVED", "REJECTED"}, version: 0..MaxVersion]
        /\ row'.version = row.version
    BY <2>1 DEF TypeOK
  <2> QED BY <1>9, <2>2 DEF Approve, Reject, TypeOK, FromPublished
<1>10. CASE Lapse \/ RejectionEnds
  BY <1>10, <1>0 DEF Lapse, RejectionEnds, NoRow, TypeOK, FromPublished
<1>12. CASE WantAnother
  BY <1>12 DEF WantAnother, TypeOK, FromPublished
<1>11. CASE UNCHANGED vars
  BY <1>11 DEF vars, TypeOK, FromPublished
<1> QED BY <1>1, <1>2, <1>3, <1>4, <1>5, <1>6, <1>7, <1>8, <1>9, <1>10, <1>11, <1>12 DEF Next

(* No gateway decides under, and no human is asked under, a policy that was *)
(* not published, whatever is cached, lost or voided.                       *)
THEOREM TypeCorrect == Spec => [](TypeOK /\ FromPublished)
  BY InitInv, StepInv, PTL DEF Spec
=============================================================================
