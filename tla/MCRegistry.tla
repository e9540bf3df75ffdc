----------------------------- MODULE MCRegistry ----------------------------
(* The instance of Registry for TLC: one organization with a user, a tool   *)
(* and an agent, whose registration brings version v1; version v2; and a    *)
(* session of v1.                                                           *)
EXTENDS Registry, TLC

CONSTANTS org, user, tool, agent, v1, v2, session, plain, other

RefersTo ==
    [x \in Things |->
        CASE x = org -> {}
          [] x \in {user, tool} -> {org}
          [] x = agent -> {org, user}
          [] x \in {v1, v2} -> {agent}
          [] x = session -> {v1}]

InsertsRows == [x \in Things |-> IF x = agent THEN <<agent, v1>> ELSE <<x>>]

AgentOfThing == [x \in Things |-> IF x \in {v1, v2, session} THEN agent ELSE None]

Customer == <<"customer">>
SSN == <<"customer", "ssn">>
Card == <<"card">>

(* Overlapping paths in either order, and paths of some calls only.         *)
SensitiveLists == {<<SSN, Customer>>, <<Customer, SSN>>, <<SSN, Card, SSN>>}

(* Two manifests of v2 tell whose is in force; elsewhere one will do.       *)
ContentsOf ==
    [x \in Things |-> IF x = tool THEN SensitiveLists
                      ELSE IF x = v2 THEN {plain, other}
                      ELSE IF x = v1 THEN {other} ELSE {plain}]

(* customer is missing, a value, a list or a dictionary with or without ssn *)
(* (which holds a dictionary in turn, or not), and card is there or not.    *)
Root == <<>> :> "dict"
CustomerNodes ==
    {<<>>, Customer :> "scalar",
     Customer :> "list" @@ SSN :> "scalar",
     Customer :> "dict" @@ SSN :> "scalar",
     Customer :> "dict" @@ <<"customer", "name">> :> "scalar",
     Customer :> "dict" @@ SSN :> "dict" @@ <<"customer", "ssn", "last4">> :> "scalar"}
CallArguments ==
    {Root @@ nodes : nodes \in CustomerNodes}
        \cup {Root @@ nodes @@ Card :> "scalar" : nodes \in CustomerNodes}

Symmetry == Permutations(Procs)
=============================================================================
