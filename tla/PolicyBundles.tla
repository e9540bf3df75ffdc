---------------------------- MODULE PolicyBundles --------------------------
(***************************************************************************)
(* Publishing policy: publish_bundle of routers/policies.py, for one       *)
(* organization.  A publication reads the highest version, signs the rules *)
(* under the next and inserts them; the unique constraint on (org,         *)
(* version) decides races between publications.  latest_bundle serves the  *)
(* highest committed version.  Transactions are as in Approvals, and       *)
(* definitions named Mut... are faulty variants, as there.                 *)
(***************************************************************************)
EXTENDS Naturals, FiniteSets

CONSTANTS
    Publishers,   \* publications in flight at once
    Rules,        \* rule documents the parser admits
    None,
    MaxVersion,   \* bound on the versions published
    MaxLosses,    \* bound on lost transactions
    CommitFirst   \* get_db commits before the response leaves, or after

ASSUME PolicyBundlesAssumption ==
    /\ None \notin Publishers \cup Rules
    /\ MaxVersion \in Nat \ {0}
    /\ MaxLosses \in Nat
    /\ CommitFirst \in BOOLEAN

VARIABLES
    bundles,    \* version -> the rules committed under it, or None
    pub,        \* where each publication is, and what it inserts
    announced,  \* <<version, rules>> some publisher was told it published
    losses

bundleVars == <<bundles, pub, announced, losses>>

Versions == 1..MaxVersion

Published == {v \in Versions : bundles[v] # None}

(* What GET /v1/policy-bundles/latest answers; 0 for none.                  *)
Latest == IF Published = {} THEN 0
          ELSE CHOOSE v \in Published : \A w \in Published : w <= v

(* What sign_bundle signs: no other version or rules have the signature.    *)
Signed(v, r) == [version |-> v, rules |-> r]

Publication == [at: {"idle", "insert", "finish", "committed", "replied"},
                version: 0..MaxVersion, rules: Rules \cup {None}]

NoPublication == [at |-> "idle", version |-> 0, rules |-> None]

BundlesTypeOK ==
    /\ bundles \in [Versions -> Rules \cup {None}]
    /\ pub \in [Publishers -> Publication]
    /\ announced \subseteq Versions \X Rules
    /\ losses \in 0..MaxLosses

BundlesInit ==
    /\ bundles = [v \in Versions |-> None]
    /\ pub = [p \in Publishers |-> NoPublication]
    /\ announced = {}
    /\ losses = 0

(* Transactions that hold an entry of the unique index for version v.       *)
Holders(v) == {p \in Publishers :
                 pub[p].version = v /\ pub[p].at \in {"finish", "replied"}}

Leave(p) == pub' = [pub EXCEPT ![p] = NoPublication]

(* select max(version), and the rules signed under the next.                *)
BeginPublish(p, r) ==
    /\ pub[p].at = "idle"
    /\ Latest < MaxVersion
    /\ pub' = [pub EXCEPT ![p] = [at |-> "insert", version |-> Latest + 1, rules |-> r]]
    /\ UNCHANGED <<bundles, announced, losses>>

MutMayInsert(v) == TRUE

MayInsert(v) == bundles[v] = None /\ Holders(v) = {}

InsertBundle(p) ==
    /\ pub[p].at = "insert"
    /\ MayInsert(pub[p].version)
    /\ pub' = [pub EXCEPT ![p].at = "finish"]
    /\ UNCHANGED <<bundles, announced, losses>>

(* IntegrityError: the other publication committed first; 500, rolled back. *)
VersionTaken(p) ==
    /\ pub[p].at = "insert"
    /\ bundles[pub[p].version] # None
    /\ Leave(p)
    /\ UNCHANGED <<bundles, announced, losses>>

CommitBundle(p) ==
    /\ pub[p].at = IF CommitFirst THEN "finish" ELSE "replied"
    /\ bundles' = [bundles EXCEPT ![pub[p].version] = pub[p].rules]
    /\ IF CommitFirst THEN pub' = [pub EXCEPT ![p].at = "committed"] ELSE Leave(p)
    /\ UNCHANGED <<announced, losses>>

Announce(p) ==
    /\ pub[p].at = IF CommitFirst THEN "committed" ELSE "finish"
    /\ announced' = announced \cup {<<pub[p].version, pub[p].rules>>}
    /\ IF CommitFirst THEN Leave(p) ELSE pub' = [pub EXCEPT ![p].at = "replied"]
    /\ UNCHANGED <<bundles, losses>>

LosePublication(p) ==
    /\ pub[p].at # "idle"
    /\ losses < MaxLosses
    /\ losses' = losses + 1
    /\ Leave(p)
    /\ UNCHANGED <<bundles, announced>>

BundlesNext ==
    \E p \in Publishers :
        \/ \E r \in Rules : BeginPublish(p, r)
        \/ InsertBundle(p) \/ VersionTaken(p) \/ CommitBundle(p) \/ Announce(p)
        \/ LosePublication(p)

BundlesSpec == BundlesInit /\ [][BundlesNext]_bundleVars

-----------------------------------------------------------------------------
(* A version names one set of rules for ever: what a publisher was told is  *)
(* what is served under that version, and no two were told the same version *)
(* for different rules (commit-first; an answered publication that is lost  *)
(* lets its version be given again).                                        *)
VersionsAreFinal ==
    \A v \in Versions, r \in Rules : <<v, r>> \in announced =>
        /\ bundles[v] = r
        /\ \A s \in Rules : <<v, s>> \in announced => s = r

(* A committed bundle is never changed or withdrawn, and no version is      *)
(* skipped: the latest is the one that follows all the others.              *)
OnlyNewVersions ==
    [][\A v \in Versions :
         bundles'[v] # bundles[v] => bundles[v] = None /\ v = Latest + 1]_bundles
=============================================================================
