----------------------------- MODULE PolicyStore ---------------------------
(***************************************************************************)
(* The gateway's verified policy cache, PolicyStore.get of policy_store.py,*)
(* over the publications of PolicyBundles.                                 *)
(*                                                                         *)
(* One process, one organization.  Coroutines share the cache; each reads  *)
(* it and the clock, and if the entry is too old awaits the control plane: *)
(* others run meanwhile, and it goes on with what it read before.          *)
(***************************************************************************)
EXTENDS PolicyBundles

CONSTANTS
    Calls,      \* store.get coroutines at once
    TTL,        \* policy_refresh_seconds, in clock ticks
    MaxTime     \* bound on the clock

ASSUME PolicyStoreAssumption == TTL \in Nat \ {0} /\ MaxTime \in Nat

VARIABLES
    cache,      \* the bundle that serves decisions, and when it was fetched
    call,       \* where each call is, and what it read before the await
    reply,      \* the control plane's answer on its way to it
    got,        \* what it returned last, and how it came by it
    since,      \* version -> when its publication was committed
    clock

storeVars == <<cache, call, reply, got, since, clock>>
vars == <<bundleVars, storeVars>>

(* A bundle: a version with its rules; version 0 is no bundle.              *)
NoBundle == [version |-> 0, rules |-> None]
Bundle == [version: 0..MaxVersion, rules: Rules \cup {None}]
Cached == [bundle: Bundle, at: 0..MaxTime]
Empty == [bundle |-> NoBundle, at |-> 0]

(* An answer: a document, no bundle (404), an error status, or no answer.   *)
Answers == {"none", "document", "missing", "error", "unreachable"}

StoreTypeOK ==
    /\ BundlesTypeOK
    /\ cache \in Cached
    /\ call \in [Calls -> [at: {"idle", "asking", "answered"}, cached: Cached,
                           now: 0..MaxTime]]
    /\ reply \in [Calls -> [kind: Answers, bundle: Bundle, signature: Bundle]]
    /\ got \in [Calls -> [how: {"none", "fresh", "fetched", "kept", "raised"},
                          bundle: Bundle]]
    /\ since \in [Versions -> 0..MaxTime]
    /\ clock \in 0..MaxTime

NoCall == [at |-> "idle", cached |-> Empty, now |-> 0]
NoReply == [kind |-> "none", bundle |-> NoBundle, signature |-> NoBundle]
Nothing == [how |-> "none", bundle |-> NoBundle]

StoreInit ==
    /\ cache = Empty
    /\ call = [c \in Calls |-> NoCall]
    /\ reply = [c \in Calls |-> NoReply]
    /\ got = [c \in Calls |-> Nothing]
    /\ since = [v \in Versions |-> 0]
    /\ clock = 0

-----------------------------------------------------------------------------
Fresh(entry) == entry.bundle # NoBundle /\ clock - entry.at < TTL

Return(c, how, bundle) ==
    /\ call' = [call EXCEPT ![c] = NoCall]
    /\ reply' = [reply EXCEPT ![c] = NoReply]
    /\ got' = [got EXCEPT ![c] = [how |-> how, bundle |-> bundle]]

(* A bundle still fresh is returned without an await.                       *)
ServeCached(c) ==
    /\ call[c].at = "idle"
    /\ Fresh(cache)
    /\ Return(c, "fresh", cache.bundle)
    /\ UNCHANGED <<bundleVars, cache, since, clock>>

Ask(c) ==
    /\ call[c].at = "idle"
    /\ ~Fresh(cache)
    /\ call' = [call EXCEPT ![c] = [at |-> "asking", cached |-> cache, now |-> clock]]
    /\ got' = [got EXCEPT ![c] = Nothing]
    /\ UNCHANGED <<bundleVars, cache, reply, since, clock>>

(* The control plane answers with the bundle that is the latest now, signed *)
(* when it was published; the rules that arrive may be others, or malformed *)
(* (None), or there is an error.                                            *)
AnswerCall(c) ==
    /\ call[c].at = "asking"
    /\ call' = [call EXCEPT ![c].at = "answered"]
    /\ \/ /\ Latest # 0
          /\ \E r \in Rules \cup {None} :
               reply' = [reply EXCEPT ![c] =
                   [kind |-> "document", bundle |-> [version |-> Latest, rules |-> r],
                    signature |-> Signed(Latest, bundles[Latest])]]
       \/ /\ Latest = 0
          /\ reply' = [reply EXCEPT ![c].kind = "missing"]
       \/ \E kind \in {"error", "unreachable"} :
            reply' = [reply EXCEPT ![c].kind = kind]
    /\ UNCHANGED <<bundleVars, cache, got, since, clock>>

MutEntry(c, bundle) == [bundle |-> bundle, at |-> clock]

MutDeadline(c, bundle) == [bundle |-> bundle, at |-> clock + TTL]

(* The entry is as old as the question: its age starts before the await.    *)
Entry(c, bundle) == [bundle |-> bundle, at |-> call[c].now]

MutVerifyBundle(r) == TRUE

(* The signature covers exactly this version and these rules.               *)
VerifyBundle(r) == r.signature = Signed(r.bundle.version, r.bundle.rules)

(* _verify: the signature, then the constrained schema.                     *)
Verifies(r) == VerifyBundle(r) /\ r.bundle.rules \in Rules

Store(c) ==
    /\ call[c].at = "answered"
    /\ reply[c].kind = "document" /\ Verifies(reply[c])
    /\ cache' = Entry(c, reply[c].bundle)
    /\ Return(c, "fetched", reply[c].bundle)
    /\ UNCHANGED <<bundleVars, since, clock>>

MutFallback(c) == NoBundle

Fallback(c) == call[c].cached.bundle

(* A refresh that fails returns what the call had read before the await.    *)
Keep(c) ==
    /\ call[c].at = "answered"
    /\ \/ reply[c].kind = "document" /\ ~Verifies(reply[c])
       \/ reply[c].kind \in {"missing", "error"}
    /\ Return(c, "kept", Fallback(c))
    /\ UNCHANGED <<bundleVars, cache, since, clock>>

(* httpx raises, which nothing catches.                                     *)
Raise(c) ==
    /\ call[c].at = "answered"
    /\ reply[c].kind = "unreachable"
    /\ Return(c, "raised", NoBundle)
    /\ UNCHANGED <<bundleVars, cache, since, clock>>

Tick ==
    /\ clock < MaxTime
    /\ clock' = clock + 1
    /\ UNCHANGED <<bundleVars, cache, call, reply, got, since>>

Publish ==
    /\ BundlesNext
    /\ since' = [v \in Versions |->
                   IF bundles[v] = None /\ bundles'[v] # None THEN clock ELSE since[v]]
    /\ UNCHANGED <<cache, call, reply, got, clock>>

Init == BundlesInit /\ StoreInit

Next ==
    \/ \E c \in Calls :
         ServeCached(c) \/ Ask(c) \/ AnswerCall(c) \/ Store(c) \/ Keep(c) \/ Raise(c)
    \/ Publish
    \/ Tick

Spec == Init /\ [][Next]_vars

-----------------------------------------------------------------------------
(* Properties *)

(* Whatever a call returns was published under that very version, by bundles*)
(* the control plane signed: never a tampered or malformed one.             *)
OnlyPublishedRules ==
    \A c \in Calls : got[c].bundle # NoBundle =>
        bundles[got[c].bundle.version] = got[c].bundle.rules

(* Staleness: the bundle served without asking was superseded less than TTL *)
(* ago.  It holds because an entry's age starts before the request is sent. *)
StaleForLessThanTTL ==
    Fresh(cache) =>
        \A w \in Published : w > cache.bundle.version => clock - since[w] < TTL

(* The cache never loses enforcement: a call that began with a verified     *)
(* bundle in the cache returns a bundle or raises.                          *)
NeverUnenforced ==
    [][\A c \in Calls :
         call[c].at = "answered" /\ call[c].cached # Empty /\ call'[c].at = "idle" =>
           got'[c].bundle # NoBundle \/ got'[c].how = "raised"]_vars
=============================================================================
