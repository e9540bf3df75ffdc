-------------------------- MODULE PolicyStoreProofs -------------------------
(***************************************************************************)
(* Theorems about PolicyStore and PolicyBundles, for any number of calls   *)
(* and publications, any rules, versions, lifetimes and losses.            *)
(***************************************************************************)
EXTENDS PolicyStore, LeastElement, TLAPS

USE DEF Versions

LEMMA Constants ==
    /\ None \notin Rules
    /\ MaxVersion \in Nat \ {0} /\ MaxTime \in Nat /\ TTL \in Nat \ {0}
    /\ MaxLosses \in Nat
  BY PolicyBundlesAssumption, PolicyStoreAssumption

-----------------------------------------------------------------------------
(* The versions published are 1, 2, .. up to the latest: bundles leave no   *)
(* gap.                                                                     *)
NoGaps == \A v, w \in Versions : w < v /\ bundles[v] # None => bundles[w] # None

(* A publication in flight has rules for a version whose predecessor is     *)
(* published.                                                               *)
Following ==
    \A p \in Publishers : pub[p].at # "idle" =>
        /\ pub[p].version \in Versions /\ pub[p].rules \in Rules
        /\ pub[p].version = 1 \/ bundles[pub[p].version - 1] # None

(* The unique index: who holds a version's entry is alone, before it is     *)
(* published, and who has committed has what is published.                  *)
EntriesHeld ==
    \A p \in Publishers :
        /\ pub[p].at \in {"finish", "replied"} =>
             /\ bundles[pub[p].version] = None
             /\ \A q \in Publishers \ {p} :
                  ~(pub[q].at \in {"finish", "replied"} /\ pub[q].version = pub[p].version)
        /\ pub[p].at = "committed" => bundles[pub[p].version] = pub[p].rules

PublishInv == BundlesTypeOK /\ NoGaps /\ Following /\ EntriesHeld

(* latest_bundle serves the highest version that is committed.              *)
LEMMA LatestIs ==
    ASSUME BundlesTypeOK
    PROVE  /\ Latest \in 0..MaxVersion
           /\ Latest # 0 => Latest \in Published
           /\ \A w \in Published : w <= Latest
<1>1. CASE Published = {}
  BY <1>1, Constants DEF Latest
<1>2. CASE Published # {}
  <2>1. Published \in SUBSET Nat /\ \A w \in Published : w <= MaxVersion
    BY Constants DEF Published
  <2>2. \E v \in Published : \A w \in Published : w <= v
    BY <1>2, <2>1, Constants, Greatest
  <2>3. Latest \in Published /\ \A w \in Published : w <= Latest
    BY <1>2, <2>2 DEF Latest
  <2> QED BY <2>3, Constants DEF Published
<1> QED BY <1>1, <1>2

(* The only version that can be published is the one after the latest.      *)
LEMMA NextVersion ==
    ASSUME PublishInv, NEW p \in Publishers, pub[p].at # "idle",
           bundles[pub[p].version] = None
    PROVE  pub[p].version = Latest + 1
<1> DEFINE v == pub[p].version
<1>1. v \in Versions /\ (v = 1 \/ bundles[v - 1] # None)
  BY DEF PublishInv, Following
<1>2. Latest < v
  BY <1>1, LatestIs DEF PublishInv, NoGaps, Published
<1>3. v - 1 <= Latest
  BY <1>1, LatestIs, Constants DEF PublishInv, Published
<1> QED BY <1>1, <1>2, <1>3, LatestIs, Constants DEF PublishInv

LEMMA InitPublishInv == BundlesInit => PublishInv
  BY Constants
     DEF BundlesInit, PublishInv, BundlesTypeOK, NoGaps, Following, EntriesHeld,
         NoPublication, Publication

LEMMA LeavePub ==
    ASSUME PublishInv, NEW p \in Publishers, Leave(p)
    PROVE  /\ pub' \in [Publishers -> Publication]
           /\ pub'[p].at = "idle"
           /\ \A q \in Publishers \ {p} : pub'[q] = pub[q]
  BY Constants DEF PublishInv, BundlesTypeOK, Leave, NoPublication, Publication

LEMMA MovePub ==
    ASSUME PublishInv, NEW p \in Publishers,
           NEW l \in {"finish", "committed", "replied"},
           pub' = [pub EXCEPT ![p].at = l]
    PROVE  /\ pub' \in [Publishers -> Publication]
           /\ pub'[p].at = l /\ pub'[p].version = pub[p].version
           /\ pub'[p].rules = pub[p].rules
           /\ \A q \in Publishers \ {p} : pub'[q] = pub[q]
  BY DEF PublishInv, BundlesTypeOK, Publication

LEMMA PublishStep == PublishInv /\ [BundlesNext]_bundleVars => PublishInv'
<1> SUFFICES ASSUME PublishInv, [BundlesNext]_bundleVars PROVE PublishInv'
  OBVIOUS
<1> USE Constants
<1>1. ASSUME NEW p \in Publishers, NEW r \in Rules, BeginPublish(p, r)
      PROVE  PublishInv'
  <2> DEFINE x == [at |-> "insert", version |-> Latest + 1, rules |-> r]
  <2>1. /\ Latest \in 0..MaxVersion /\ Latest < MaxVersion
        /\ Latest = 0 \/ bundles[Latest] # None
    BY <1>1, LatestIs DEF BeginPublish, PublishInv, Published
  <2>2. x \in Publication
    BY <2>1 DEF Publication
  <2>3. /\ pub' \in [Publishers -> Publication] /\ pub'[p] = x
        /\ \A q \in Publishers \ {p} : pub'[q] = pub[q]
        /\ UNCHANGED <<bundles, announced, losses>>
    BY <1>1, <2>2 DEF BeginPublish, PublishInv, BundlesTypeOK
  <2>4. Following'
    BY <2>1, <2>3 DEF PublishInv, Following
  <2> QED BY <2>3, <2>4 DEF PublishInv, BundlesTypeOK, NoGaps, EntriesHeld
<1>2. ASSUME NEW p \in Publishers, InsertBundle(p)
      PROVE  PublishInv'
  <2>1. /\ pub' = [pub EXCEPT ![p].at = "finish"]
        /\ UNCHANGED <<bundles, announced, losses>>
        /\ pub[p].at = "insert" /\ bundles[pub[p].version] = None
        /\ Holders(pub[p].version) = {}
    BY <1>2 DEF InsertBundle, MayInsert
  <2>2. /\ pub' \in [Publishers -> Publication]
        /\ pub'[p].at = "finish" /\ pub'[p].version = pub[p].version
        /\ pub'[p].rules = pub[p].rules
        /\ \A q \in Publishers \ {p} : pub'[q] = pub[q]
    BY <2>1, MovePub
  <2>3. EntriesHeld'
    BY <2>1, <2>2 DEF PublishInv, EntriesHeld, Holders
  <2> QED BY <2>1, <2>2, <2>3 DEF PublishInv, BundlesTypeOK, NoGaps, Following
<1>3. ASSUME NEW p \in Publishers, Leave(p), UNCHANGED <<bundles, announced>>,
             losses' \in 0..MaxLosses
      PROVE  PublishInv'
  BY <1>3, LeavePub DEF PublishInv, BundlesTypeOK, NoGaps, Following, EntriesHeld
<1>4. ASSUME NEW p \in Publishers, VersionTaken(p) \/ LosePublication(p)
      PROVE  PublishInv'
  BY <1>3, <1>4 DEF VersionTaken, LosePublication, PublishInv, BundlesTypeOK
<1>5. ASSUME NEW p \in Publishers, CommitBundle(p)
      PROVE  PublishInv'
  <2> PICK v \in Versions, r \in Rules : v = pub[p].version /\ r = pub[p].rules
    BY <1>5 DEF CommitBundle, PublishInv, Following
  <2>1. /\ pub[p].at \in {"finish", "replied"} /\ bundles[v] = None
        /\ bundles' = [bundles EXCEPT ![v] = r]
        /\ UNCHANGED <<announced, losses>>
    BY <1>5 DEF CommitBundle, PublishInv, EntriesHeld
  <2>2. /\ pub' \in [Publishers -> Publication]
        /\ pub'[p].at \in {"idle", "committed"}
        /\ pub'[p].at = "committed" => pub'[p].version = v /\ pub'[p].rules = r
        /\ \A q \in Publishers \ {p} : pub'[q] = pub[q]
    <3>1. CASE CommitFirst
      BY <1>5, <3>1, MovePub DEF CommitBundle
    <3>2. CASE ~CommitFirst
      BY <1>5, <3>2, LeavePub DEF CommitBundle
    <3> QED BY <3>1, <3>2
  <2>3. /\ bundles' \in [Versions -> Rules \cup {None}]
        /\ bundles'[v] = r /\ \A w \in Versions \ {v} : bundles'[w] = bundles[w]
    BY <2>1 DEF PublishInv, BundlesTypeOK
  <2>4. v = Latest + 1
    BY <2>1, NextVersion
  <2>5. NoGaps'
    <3> SUFFICES ASSUME NEW u \in Versions, NEW w \in Versions, w < u,
                        bundles'[u] # None
                 PROVE  bundles'[w] # None
      BY DEF NoGaps
    <3>1. CASE u = v
      <4>1. v = 1 \/ bundles[v - 1] # None
        BY <2>1 DEF PublishInv, Following
      <4> QED BY <2>3, <3>1, <4>1 DEF PublishInv, NoGaps
    <3>2. CASE u # v
      BY <2>3, <3>2 DEF PublishInv, NoGaps
    <3> QED BY <3>1, <3>2
  <2>6. Following'
    <3>1. \A w \in Versions : bundles[w] # None => bundles'[w] # None
      BY <2>1, <2>3
    <3> SUFFICES ASSUME NEW q \in Publishers, pub'[q].at # "idle"
                 PROVE  /\ pub'[q].version \in Versions /\ pub'[q].rules \in Rules
                        /\ \/ pub'[q].version = 1
                           \/ bundles'[pub'[q].version - 1] # None
      BY DEF Following
    <3>2. /\ pub[q].at # "idle" /\ pub'[q].version = pub[q].version
          /\ pub'[q].rules = pub[q].rules
      BY <2>1, <2>2
    <3>3. /\ pub[q].version \in Versions /\ pub[q].rules \in Rules
          /\ pub[q].version = 1 \/ bundles[pub[q].version - 1] # None
      BY <3>2 DEF PublishInv, Following
    <3> QED BY <3>1, <3>2, <3>3
  <2>7. EntriesHeld'
    BY <2>1, <2>2, <2>3 DEF PublishInv, EntriesHeld, Following
  <2> QED BY <2>1, <2>2, <2>3, <2>5, <2>6, <2>7 DEF PublishInv, BundlesTypeOK
<1>6. ASSUME NEW p \in Publishers, Announce(p)
      PROVE  PublishInv'
  <2>1. announced' \subseteq Versions \X Rules /\ UNCHANGED <<bundles, losses>>
    BY <1>6 DEF Announce, PublishInv, BundlesTypeOK, Following
  <2>2. CASE CommitFirst
    <3>1. Leave(p)
      BY <1>6, <2>2 DEF Announce
    <3> QED BY <2>1, <3>1, LeavePub
            DEF PublishInv, BundlesTypeOK, NoGaps, Following, EntriesHeld
  <2>3. CASE ~CommitFirst
    <3>1. pub[p].at = "finish" /\ pub' = [pub EXCEPT ![p].at = "replied"]
      BY <1>6, <2>3 DEF Announce
    <3>2. /\ pub' \in [Publishers -> Publication]
          /\ pub'[p].at = "replied" /\ pub'[p].version = pub[p].version
          /\ pub'[p].rules = pub[p].rules
          /\ \A q \in Publishers \ {p} : pub'[q] = pub[q]
      BY <3>1, MovePub
    <3>3. BundlesTypeOK' /\ NoGaps'
      BY <2>1, <3>2 DEF PublishInv, BundlesTypeOK, NoGaps
    <3>4. Following'
      BY <2>1, <3>1, <3>2 DEF PublishInv, Following
    <3>5. EntriesHeld'
      BY <2>1, <3>1, <3>2 DEF PublishInv, EntriesHeld
    <3> QED BY <3>3, <3>4, <3>5 DEF PublishInv
  <2> QED BY <2>2, <2>3
<1>7. CASE UNCHANGED bundleVars
  BY <1>7 DEF bundleVars, PublishInv, BundlesTypeOK, NoGaps, Following, EntriesHeld
<1> QED BY <1>1, <1>2, <1>4, <1>5, <1>6, <1>7 DEF BundlesNext

(* What is published stays, and what is added follows the latest.           *)
LEMMA PublishedStays ==
    ASSUME PublishInv, [BundlesNext]_bundleVars, NEW v \in Versions,
           bundles'[v] # bundles[v]
    PROVE  bundles[v] = None /\ v = Latest + 1
<1>1. PICK p \in Publishers : CommitBundle(p)
  BY DEF BundlesNext, BeginPublish, InsertBundle, VersionTaken, Announce,
         LosePublication, bundleVars
<1>2. pub[p].at \in {"finish", "replied"} /\ bundles[pub[p].version] = None
  BY <1>1 DEF CommitBundle, PublishInv, EntriesHeld
<1>3. v = pub[p].version
  BY <1>1 DEF CommitBundle, PublishInv, BundlesTypeOK
<1> QED BY <1>2, <1>3, NextVersion

-----------------------------------------------------------------------------
(* Commit-first, what a publisher was told is committed.                    *)
Final ==
    \A v \in Versions, r \in Rules : <<v, r>> \in announced => bundles[v] = r

LEMMA FinalStep ==
    ASSUME CommitFirst, PublishInv, Final, [BundlesNext]_bundleVars
    PROVE  Final'
<1> SUFFICES ASSUME NEW v \in Versions, NEW r \in Rules, <<v, r>> \in announced'
             PROVE  bundles'[v] = r
  BY DEF Final
<1>1. CASE <<v, r>> \in announced
  <2>1. bundles[v] = r
    BY <1>1 DEF Final
  <2> QED BY <2>1, PublishedStays, Constants
<1>2. CASE <<v, r>> \notin announced
  <2>1. PICK p \in Publishers : Announce(p)
    BY <1>2 DEF BundlesNext, BeginPublish, InsertBundle, VersionTaken, CommitBundle,
                LosePublication, bundleVars
  <2>2. /\ pub[p].at = "committed" /\ v = pub[p].version /\ r = pub[p].rules
        /\ bundles' = bundles
    BY <1>2, <2>1 DEF Announce
  <2> QED BY <2>2 DEF PublishInv, EntriesHeld
<1> QED BY <1>1, <1>2

(* A step of the gateway publishes nothing; Publish is a step of            *)
(* PolicyBundles.                                                           *)
LEMMA StoreSteps == [Next]_vars => [BundlesNext]_bundleVars
  BY DEF Next, vars, ServeCached, Ask, AnswerCall, Store, Keep, Raise, Publish, Tick

(* The cache only reads what is published: with it, publication goes on as  *)
(* PolicyBundles says.                                                      *)
THEOREM PublicationUnchanged == Spec => BundlesSpec
<1>1. Init => BundlesInit
  BY DEF Init
<1> QED BY <1>1, StoreSteps, PTL DEF Spec, BundlesSpec

LEMMA PublishInvariant == Spec => []PublishInv
  BY PublicationUnchanged, InitPublishInv, PublishStep, PTL DEF BundlesSpec

(* Commit-first, a version that was announced names one set of rules for    *)
(* ever: publish_bundle's answer, and the unique constraint on (org,        *)
(* version).                                                                *)
THEOREM VersionsAreFinalHolds == CommitFirst /\ Spec => []VersionsAreFinal
<1> SUFFICES ASSUME CommitFirst PROVE Spec => []VersionsAreFinal
  OBVIOUS
<1>1. Init => Final
  BY DEF Init, BundlesInit, Final
<1>2. PublishInv /\ Final /\ [Next]_vars => Final'
  BY FinalStep, StoreSteps
<1>3. Final => VersionsAreFinal
  BY DEF Final, VersionsAreFinal
<1> QED BY <1>1, <1>2, <1>3, PublishInvariant, PTL DEF Spec

(* A committed bundle is never changed or withdrawn, and versions are given *)
(* without a gap, however publications race and are lost.                   *)
THEOREM OnlyNewVersionsHolds == Spec => OnlyNewVersions
<1>1. PublishInv /\ [Next]_vars =>
        [\A v \in Versions :
           bundles'[v] # bundles[v] => bundles[v] = None /\ v = Latest + 1]_bundles
  BY StoreSteps, PublishedStays
<1> QED BY <1>1, PublishInvariant, PTL DEF Spec, OnlyNewVersions

-----------------------------------------------------------------------------
(* The gateway's cache.                                                     *)

(* A bundle that was published as it is, or none.                           *)
Genuine(b) ==
    \/ b = NoBundle
    \/ b.version \in Versions /\ b.rules \in Rules /\ bundles[b.version] = b.rules

(* What every copy a call holds has from the control plane.                 *)
AllGenuine ==
    /\ Genuine(cache.bundle)
    /\ \A c \in Calls : /\ Genuine(call[c].cached.bundle)
                        /\ Genuine(reply[c].signature)
                        /\ Genuine(got[c].bundle)

(* Nothing was superseded before it was asked for: a version above the one  *)
(* an entry or an answer has was committed after the question.              *)
NotSupersededBefore(version, time) ==
    \A w \in Published : w > version => since[w] >= time

Ages ==
    /\ cache.at <= clock
    /\ NotSupersededBefore(cache.bundle.version, cache.at)
    /\ \A c \in Calls :
         /\ call[c].now <= clock
         /\ reply[c].kind = "document" =>
              /\ call[c].at = "answered"
              /\ NotSupersededBefore(reply[c].bundle.version, call[c].now)

(* An entry that is not the empty one has a bundle.                         *)
Enforced(entry) == entry = Empty \/ entry.bundle # NoBundle

AllEnforced == Enforced(cache) /\ \A c \in Calls : Enforced(call[c].cached)

StoreInv == PublishInv /\ StoreTypeOK /\ AllGenuine /\ Ages /\ AllEnforced

LEMMA InitStoreInv == Init => StoreInv
<1> SUFFICES ASSUME Init PROVE StoreInv
  OBVIOUS
<1> USE Constants
<1>1. PublishInv
  BY InitPublishInv DEF Init
<1>2. StoreTypeOK
  BY <1>1 DEF Init, StoreInit, PublishInv, StoreTypeOK, Empty, NoBundle, NoCall,
              NoReply, Nothing, Cached, Bundle, Answers
<1>3. AllGenuine /\ AllEnforced
  BY DEF Init, StoreInit, AllGenuine, Genuine, AllEnforced, Enforced, Empty, NoCall,
         NoReply, Nothing
<1>4. Ages
  BY <1>2 DEF Init, StoreInit, Ages, NotSupersededBefore, StoreTypeOK, Empty, NoCall,
              NoReply, Published, BundlesInit
<1> QED BY <1>1, <1>2, <1>3, <1>4 DEF StoreInv

(* A call that ends: what it leaves, and that the others are as they were.  *)
LEMMA ReturnLeaves ==
    ASSUME StoreTypeOK, NEW c \in Calls, NEW b \in Bundle,
           NEW how \in {"fresh", "fetched", "kept", "raised"}, Return(c, how, b)
    PROVE  /\ call'[c] = NoCall /\ reply'[c] = NoReply
           /\ got'[c] = [how |-> how, bundle |-> b]
           /\ \A d \in Calls \ {c} :
                call'[d] = call[d] /\ reply'[d] = reply[d] /\ got'[d] = got[d]
           /\ call' \in [Calls -> [at: {"idle", "asking", "answered"}, cached: Cached,
                                   now: 0..MaxTime]]
           /\ reply' \in [Calls -> [kind: Answers, bundle: Bundle, signature: Bundle]]
           /\ got' \in [Calls -> [how: {"none", "fresh", "fetched", "kept", "raised"},
                                  bundle: Bundle]]
<1> USE Constants
<1>1. /\ NoCall \in [at: {"idle", "asking", "answered"}, cached: Cached, now: 0..MaxTime]
      /\ NoReply \in [kind: Answers, bundle: Bundle, signature: Bundle]
  BY DEF NoCall, NoReply, Empty, NoBundle, Cached, Bundle, Answers
<1> QED BY <1>1 DEF Return, StoreTypeOK

(* A call that returns a genuine bundle and changes nothing else but, if it *)
(* fetched it, the cache.                                                   *)
LEMMA ReturnStep ==
    ASSUME StoreInv, NEW c \in Calls, NEW b \in Bundle, Genuine(b),
           NEW how \in {"fresh", "fetched", "kept", "raised"}, Return(c, how, b),
           UNCHANGED <<bundleVars, since, clock>>,
           cache' = cache \/ ( /\ cache' \in Cached /\ cache'.bundle # NoBundle
                               /\ Genuine(cache'.bundle) /\ cache'.at <= clock
                               /\ NotSupersededBefore(cache'.bundle.version, cache'.at) )
    PROVE  StoreInv'
<1> USE Constants
<1>1. /\ call'[c] = NoCall /\ reply'[c] = NoReply
      /\ got'[c] = [how |-> how, bundle |-> b]
      /\ \A d \in Calls \ {c} :
           call'[d] = call[d] /\ reply'[d] = reply[d] /\ got'[d] = got[d]
      /\ call' \in [Calls -> [at: {"idle", "asking", "answered"}, cached: Cached,
                              now: 0..MaxTime]]
      /\ reply' \in [Calls -> [kind: Answers, bundle: Bundle, signature: Bundle]]
      /\ got' \in [Calls -> [how: {"none", "fresh", "fetched", "kept", "raised"},
                             bundle: Bundle]]
  BY ReturnLeaves DEF StoreInv
<1>2. PublishInv'
  BY PublishStep DEF StoreInv
<1>3. StoreTypeOK'
  BY <1>1, <1>2 DEF StoreInv, StoreTypeOK, PublishInv, bundleVars
<1>4. AllGenuine'
  <2>1. bundles' = bundles
    BY DEF bundleVars
  <2>2. Genuine(cache'.bundle) /\ Genuine(NoBundle)
    BY DEF StoreInv, AllGenuine, Genuine
  <2>3. ASSUME NEW d \in Calls
        PROVE  /\ Genuine(call'[d].cached.bundle)
               /\ Genuine(reply'[d].signature) /\ Genuine(got'[d].bundle)
    <3>1. CASE d = c
      BY <1>1, <2>2, <3>1 DEF NoCall, NoReply, Empty
    <3>2. CASE d # c
      BY <1>1, <3>2 DEF StoreInv, AllGenuine
    <3> QED BY <3>1, <3>2
  <2> QED BY <2>1, <2>2, <2>3 DEF AllGenuine, Genuine
<1>5. Ages'
  <2>1. /\ cache'.at <= clock
        /\ NotSupersededBefore(cache'.bundle.version, cache'.at)
    BY DEF StoreInv, Ages
  <2>2. clock \in Nat
    BY DEF StoreInv, StoreTypeOK
  <2> QED BY <1>1, <2>1, <2>2
          DEF StoreInv, Ages, NotSupersededBefore, Published, NoCall, NoReply, bundleVars
<1>6. AllEnforced'
  BY <1>1 DEF StoreInv, AllEnforced, Enforced, NoCall
<1> QED BY <1>2, <1>3, <1>4, <1>5, <1>6 DEF StoreInv

(* The control plane's step: what is published stays, and what is new is    *)
(* dated now.                                                               *)
LEMMA PublishKeeps ==
    ASSUME StoreInv, Publish
    PROVE  StoreInv'
<1> USE Constants
<1>1. /\ UNCHANGED <<cache, call, reply, got, clock>>
      /\ since' = [v \in Versions |->
                     IF bundles[v] = None /\ bundles'[v] # None THEN clock ELSE since[v]]
      /\ BundlesNext
  BY DEF Publish
<1>2. PublishInv'
  BY <1>1, PublishStep DEF StoreInv
<1>3. \A v \in Versions : bundles[v] # None => bundles'[v] = bundles[v]
  BY <1>1, PublishedStays DEF StoreInv
<1>4. StoreTypeOK'
  BY <1>1, <1>2 DEF StoreInv, StoreTypeOK, PublishInv
<1>5. \A b : Genuine(b) => (b = NoBundle \/ ( /\ b.version \in Versions /\ b.rules \in Rules
                                              /\ bundles'[b.version] = b.rules ))
  BY <1>3 DEF Genuine
<1>6. AllGenuine'
  BY <1>1, <1>5 DEF StoreInv, AllGenuine, Genuine
<1>7. ASSUME NEW w \in Published'
      PROVE  (w \in Published /\ since'[w] = since[w]) \/ since'[w] = clock
  BY <1>1, <1>7 DEF Published
<1>8. ASSUME NEW version, NEW time \in 0..clock, NotSupersededBefore(version, time)
      PROVE  \A w \in Published' : w > version => since'[w] >= time
  BY <1>7, <1>8 DEF NotSupersededBefore, StoreInv, StoreTypeOK
<1>9. Ages'
  <2>1. clock \in Nat /\ cache.at \in 0..clock /\ \A c \in Calls : call[c].now \in 0..clock
    BY DEF StoreInv, StoreTypeOK, Ages, Cached
  <2>2. \A w \in Published' : w > cache.bundle.version => since'[w] >= cache.at
    BY <1>8, <2>1 DEF StoreInv, Ages
  <2>3. ASSUME NEW c \in Calls, reply[c].kind = "document"
        PROVE  /\ call[c].at = "answered"
               /\ \A w \in Published' :
                    w > reply[c].bundle.version => since'[w] >= call[c].now
    BY <1>8, <2>1, <2>3 DEF StoreInv, Ages
  <2>4. \A c \in Calls : call'[c].now <= clock'
    BY <1>1, <2>1
  <2> QED BY <1>1, <2>1, <2>2, <2>3, <2>4 DEF Ages, NotSupersededBefore
<1>10. AllEnforced'
  BY <1>1 DEF StoreInv, AllEnforced, Enforced
<1> QED BY <1>2, <1>4, <1>6, <1>9, <1>10 DEF StoreInv

LEMMA ServeCachedStep ==
    ASSUME StoreInv, NEW c \in Calls, ServeCached(c)
    PROVE  StoreInv'
<1>1. /\ cache.bundle \in Bundle /\ Genuine(cache.bundle) /\ cache' = cache
      /\ Return(c, "fresh", cache.bundle) /\ UNCHANGED <<bundleVars, since, clock>>
  BY DEF ServeCached, StoreInv, StoreTypeOK, Cached, AllGenuine
<1> QED BY <1>1, ReturnStep

LEMMA AskStep ==
    ASSUME StoreInv, NEW c \in Calls, Ask(c)
    PROVE  StoreInv'
<1> USE Constants
<1> DEFINE x == [at |-> "asking", cached |-> cache, now |-> clock]
<1>1. /\ call[c].at = "idle" /\ cache' = cache /\ reply' = reply
      /\ UNCHANGED <<bundleVars, since, clock>> /\ bundles' = bundles
  BY DEF Ask, bundleVars
<1>2. /\ x \in [at: {"idle", "asking", "answered"}, cached: Cached, now: 0..MaxTime]
      /\ Nothing \in [how: {"none", "fresh", "fetched", "kept", "raised"}, bundle: Bundle]
  BY DEF StoreInv, StoreTypeOK, Nothing, NoBundle, Bundle
<1>3. /\ call' \in [Calls -> [at: {"idle", "asking", "answered"}, cached: Cached,
                              now: 0..MaxTime]]
      /\ got' \in [Calls -> [how: {"none", "fresh", "fetched", "kept", "raised"},
                             bundle: Bundle]]
      /\ call'[c] = x /\ got'[c] = Nothing
      /\ \A d \in Calls \ {c} : call'[d] = call[d] /\ got'[d] = got[d]
  BY <1>2 DEF Ask, StoreInv, StoreTypeOK
<1>4. PublishInv'
  BY <1>1, PublishStep DEF StoreInv
<1>5. StoreTypeOK'
  BY <1>1, <1>3, <1>4 DEF StoreInv, StoreTypeOK, PublishInv
<1>6. AllGenuine'
  BY <1>1, <1>3 DEF StoreInv, AllGenuine, Genuine, Nothing
<1>7. Ages'
  <2>1. clock \in Nat
    BY DEF StoreInv, StoreTypeOK
  <2> QED BY <1>1, <1>3, <2>1 DEF StoreInv, Ages, NotSupersededBefore, Published
<1>8. AllEnforced'
  BY <1>1, <1>3 DEF StoreInv, AllEnforced, Enforced
<1> QED BY <1>4, <1>5, <1>6, <1>7, <1>8 DEF StoreInv

(* The answer is the latest now: nothing published is above it.             *)
LEMMA AnswerCallStep ==
    ASSUME StoreInv, NEW c \in Calls, AnswerCall(c)
    PROVE  StoreInv'
<1> USE Constants
<1>1. /\ call[c].at = "asking" /\ cache' = cache /\ got' = got
      /\ UNCHANGED <<bundleVars, since, clock>> /\ bundles' = bundles
  BY DEF AnswerCall, bundleVars
<1>2. /\ call' \in [Calls -> [at: {"idle", "asking", "answered"}, cached: Cached,
                              now: 0..MaxTime]]
      /\ call'[c].at = "answered" /\ call'[c].cached = call[c].cached
      /\ call'[c].now = call[c].now
      /\ \A d \in Calls \ {c} : call'[d] = call[d]
  BY DEF AnswerCall, StoreInv, StoreTypeOK
<1>3. BundlesTypeOK
  BY DEF StoreInv, PublishInv
<1>4. /\ reply' \in [Calls -> [kind: Answers, bundle: Bundle, signature: Bundle]]
      /\ \A d \in Calls \ {c} : reply'[d] = reply[d]
      /\ Genuine(reply'[c].signature)
      /\ reply'[c].kind = "document" => reply'[c].bundle.version = Latest
  <2>1. CASE Latest # 0 /\ \E r \in Rules \cup {None} :
               reply' = [reply EXCEPT ![c] =
                   [kind |-> "document", bundle |-> [version |-> Latest, rules |-> r],
                    signature |-> Signed(Latest, bundles[Latest])]]
    <3> PICK r \in Rules \cup {None} :
               reply' = [reply EXCEPT ![c] =
                   [kind |-> "document", bundle |-> [version |-> Latest, rules |-> r],
                    signature |-> Signed(Latest, bundles[Latest])]]
      BY <2>1
    <3>1. Latest \in Versions /\ bundles[Latest] \in Rules
      BY <1>3, <2>1, LatestIs DEF Published, BundlesTypeOK
    <3>2. [kind |-> "document", bundle |-> [version |-> Latest, rules |-> r],
           signature |-> Signed(Latest, bundles[Latest])]
             \in [kind: Answers, bundle: Bundle, signature: Bundle]
      BY <3>1 DEF Signed, Answers, Bundle
    <3> QED BY <3>1, <3>2 DEF Genuine, Signed, StoreInv, StoreTypeOK
  <2>2. ASSUME NEW kind \in Answers \ {"document"},
               reply' = [reply EXCEPT ![c].kind = kind]
        PROVE  /\ reply' \in [Calls -> [kind: Answers, bundle: Bundle, signature: Bundle]]
               /\ \A d \in Calls \ {c} : reply'[d] = reply[d]
               /\ Genuine(reply'[c].signature)
               /\ reply'[c].kind # "document"
    BY <2>2 DEF StoreInv, StoreTypeOK, AllGenuine, Genuine
  <2> QED BY <2>1, <2>2 DEF AnswerCall, Answers
<1>5. PublishInv'
  BY <1>1, PublishStep DEF StoreInv
<1>6. StoreTypeOK'
  BY <1>1, <1>2, <1>4, <1>5 DEF StoreInv, StoreTypeOK, PublishInv
<1>7. AllGenuine'
  BY <1>1, <1>2, <1>4 DEF StoreInv, AllGenuine, Genuine
<1>8. Ages'
  <2>1. ASSUME NEW d \in Calls
        PROVE  /\ call'[d].now <= clock
               /\ reply'[d].kind = "document" =>
                    /\ call'[d].at = "answered"
                    /\ \A w \in Published :
                         w > reply'[d].bundle.version => since[w] >= call'[d].now
    <3>1. CASE d = c
      <4>1. \A w \in Published : ~(w > Latest)
        BY <1>3, LatestIs DEF Published
      <4> QED BY <1>2, <1>4, <3>1, <4>1 DEF StoreInv, Ages
    <3>2. CASE d # c
      BY <1>2, <1>4, <3>2 DEF StoreInv, Ages, NotSupersededBefore
    <3> QED BY <3>1, <3>2
  <2> QED BY <1>1, <2>1 DEF StoreInv, Ages, NotSupersededBefore, Published
<1>9. AllEnforced'
  BY <1>1, <1>2 DEF StoreInv, AllEnforced, Enforced
<1> QED BY <1>5, <1>6, <1>7, <1>8, <1>9 DEF StoreInv

(* What is verified is what was signed, so it was published.                *)
LEMMA VerifiedIsGenuine ==
    ASSUME StoreInv, NEW c \in Calls, Verifies(reply[c])
    PROVE  /\ reply[c].bundle \in Bundle /\ reply[c].bundle # NoBundle
           /\ Genuine(reply[c].bundle)
<1>1. /\ reply[c].bundle \in Bundle /\ reply[c].bundle.rules \in Rules
      /\ reply[c].signature.version = reply[c].bundle.version
      /\ reply[c].signature.rules = reply[c].bundle.rules
  BY DEF Verifies, VerifyBundle, Signed, StoreInv, StoreTypeOK
<1>2. Genuine(reply[c].signature) /\ NoBundle.rules = None
  BY DEF StoreInv, AllGenuine, NoBundle
<1> QED BY <1>1, <1>2, Constants DEF Genuine

LEMMA StoreStep ==
    ASSUME StoreInv, NEW c \in Calls, Store(c)
    PROVE  StoreInv'
<1> DEFINE b == reply[c].bundle
<1>1. b \in Bundle /\ b # NoBundle /\ Genuine(b)
  BY VerifiedIsGenuine DEF Store
<1>2. /\ call[c].now \in 0..MaxTime /\ call[c].now <= clock
      /\ NotSupersededBefore(b.version, call[c].now)
  BY DEF Store, StoreInv, StoreTypeOK, Ages
<1>3. cache' = [bundle |-> b, at |-> call[c].now]
  BY DEF Store, Entry
<1>4. cache' \in Cached /\ cache'.bundle = b /\ cache'.at = call[c].now
  BY <1>1, <1>2, <1>3 DEF Cached
<1>5. Return(c, "fetched", b) /\ UNCHANGED <<bundleVars, since, clock>>
  BY DEF Store
<1> QED BY <1>1, <1>2, <1>4, <1>5, ReturnStep

LEMMA KeepStep ==
    ASSUME StoreInv, NEW c \in Calls, Keep(c)
    PROVE  StoreInv'
<1>1. /\ Fallback(c) \in Bundle /\ Genuine(Fallback(c)) /\ cache' = cache
      /\ Return(c, "kept", Fallback(c)) /\ UNCHANGED <<bundleVars, since, clock>>
  BY DEF Keep, Fallback, StoreInv, StoreTypeOK, Cached, AllGenuine
<1> QED BY <1>1, ReturnStep

LEMMA RaiseStep ==
    ASSUME StoreInv, NEW c \in Calls, Raise(c)
    PROVE  StoreInv'
<1>1. /\ NoBundle \in Bundle /\ Genuine(NoBundle) /\ cache' = cache
      /\ Return(c, "raised", NoBundle) /\ UNCHANGED <<bundleVars, since, clock>>
  BY Constants DEF Raise, NoBundle, Bundle, Genuine
<1> QED BY <1>1, ReturnStep

LEMMA TickStep == ASSUME StoreInv, Tick \/ UNCHANGED vars PROVE StoreInv'
<1> USE Constants
<1>1. UNCHANGED <<bundleVars, cache, call, reply, got, since>> /\ bundles' = bundles
  BY DEF Tick, vars, storeVars, bundleVars
<1>2. clock \in 0..MaxTime /\ clock' \in 0..MaxTime /\ clock <= clock'
  BY DEF StoreInv, StoreTypeOK, Tick, vars, storeVars
<1>3. PublishInv'
  BY <1>1, PublishStep DEF StoreInv
<1>4. StoreTypeOK'
  BY <1>1, <1>2, <1>3 DEF StoreInv, StoreTypeOK, PublishInv
<1>5. AllGenuine' /\ AllEnforced'
  BY <1>1 DEF StoreInv, AllGenuine, Genuine, AllEnforced, Enforced
<1>6. Ages'
  BY <1>1, <1>2 DEF StoreInv, StoreTypeOK, Ages, NotSupersededBefore, Published, Cached
<1> QED BY <1>3, <1>4, <1>5, <1>6 DEF StoreInv

LEMMA StoreInvariant == Spec => []StoreInv
<1>1. StoreInv /\ [Next]_vars => StoreInv'
  BY ServeCachedStep, AskStep, AnswerCallStep, StoreStep, KeepStep, RaiseStep,
     PublishKeeps, TickStep DEF Next
<1> QED BY <1>1, InitStoreInv, PTL DEF Spec

-----------------------------------------------------------------------------
(* Publications, calls and the cache keep their types.                      *)
THEOREM TypeCorrect == Spec => []StoreTypeOK
<1>1. StoreInv => StoreTypeOK
  BY DEF StoreInv
<1> QED BY <1>1, StoreInvariant, PTL

(* A call returns nothing but what was published under that very version:   *)
(* _verify lets through only what sign_bundle signed.                       *)
THEOREM OnlyPublishedRulesHolds == Spec => []OnlyPublishedRules
<1>1. StoreInv => OnlyPublishedRules
  BY DEF StoreInv, AllGenuine, Genuine, OnlyPublishedRules
<1> QED BY <1>1, StoreInvariant, PTL

(* What is served without asking was superseded less than a lifetime ago,   *)
(* however long the refresh that fetched it took.                           *)
THEOREM StaleForLessThanTTLHolds == Spec => []StaleForLessThanTTL
<1>1. ASSUME StoreInv, Fresh(cache), NEW w \in Published, w > cache.bundle.version
      PROVE  clock - since[w] < TTL
  <2>1. since[w] >= cache.at
    BY <1>1 DEF StoreInv, Ages, NotSupersededBefore
  <2>2. clock - cache.at < TTL
    BY <1>1 DEF Fresh
  <2>3. clock \in Nat /\ cache.at \in Nat /\ since[w] \in Nat
    BY <1>1 DEF StoreInv, StoreTypeOK, Cached, Published
  <2> QED BY <2>1, <2>2, <2>3, Constants
<1>2. StoreInv => StaleForLessThanTTL
  BY <1>1 DEF StaleForLessThanTTL
<1> QED BY <1>2, StoreInvariant, PTL

(* A call that began with a verified bundle ends with one, or raises: no    *)
(* failed refresh leaves the gateway without policy.                        *)
THEOREM NeverUnenforcedHolds == Spec => NeverUnenforced
<1>1. ASSUME StoreInv, [Next]_vars, NEW c \in Calls,
             call[c].at = "answered", call[c].cached # Empty, call'[c].at = "idle"
      PROVE  got'[c].bundle # NoBundle \/ got'[c].how = "raised"
  <2>1. Store(c) \/ Keep(c) \/ Raise(c)
    BY <1>1 DEF Next, ServeCached, Ask, AnswerCall, Store, Keep, Raise, Return, Publish,
                Tick, vars, storeVars, StoreInv, StoreTypeOK
  <2>2. ASSUME NEW how, NEW b, Return(c, how, b)
        PROVE  got'[c].bundle = b /\ got'[c].how = how
    BY <1>1, <2>2 DEF Return, StoreInv, StoreTypeOK
  <2>3. CASE Store(c)
    BY <1>1, <2>2, <2>3, VerifiedIsGenuine DEF Store
  <2>4. CASE Keep(c)
    BY <1>1, <2>2, <2>4 DEF Keep, Fallback, StoreInv, AllEnforced, Enforced
  <2>5. CASE Raise(c)
    BY <2>2, <2>5 DEF Raise
  <2> QED BY <2>1, <2>3, <2>4, <2>5
<1>2. StoreInv /\ [Next]_vars =>
        [\A c \in Calls :
           call[c].at = "answered" /\ call[c].cached # Empty /\ call'[c].at = "idle" =>
             got'[c].bundle # NoBundle \/ got'[c].how = "raised"]_vars
  BY <1>1
<1> QED BY <1>2, StoreInvariant, PTL DEF Spec, NeverUnenforced
=============================================================================
