--------------------------- MODULE RegistryProofs --------------------------
(***************************************************************************)
(* Proofs about Registry, for any number of concurrent calls and any       *)
(* things, whatever they refer to and their handlers insert: what a call   *)
(* may commit follows from the locks it holds.  At the end, about redact,  *)
(* by induction over the paths it takes out.                               *)
(***************************************************************************)
EXTENDS Registry, LeastElement, TLAPS

(* A creation inserts what the thing's row may hold, and goes on inserting  *)
(* while a row of it is missing; a revocation writes its agent's row alone, *)
(* and a token or a refused call none.                                      *)
Shape ==
    /\ DOMAIN rows = Things
    /\ \A p \in Procs : call[p].op = "create" =>
         /\ call[p].on \in Things /\ call[p].with \in Contents[call[p].on]
         /\ pc[p] = "write" => ~(ToSet(Inserts[call[p].on]) \subseteq own[p])
    /\ \A p \in Procs : call[p].op = "revoke" =>
         call[p].on \in Agents /\ own[p] \subseteq {call[p].on}
    /\ \A p \in Procs : call[p].op \notin {"create", "revoke"} => own[p] = {}

(* Row locks exclude each other.  What a creation has locked does not exist *)
(* yet, and is complete before the commit, which no other overwrites.       *)
Locks ==
    /\ \A p, q \in Procs : p # q => own[p] \cap own[q] = {}
    /\ \A p \in Procs :
         /\ pc[p] \in {"idle", "check", "committed"} => own[p] = {}
         /\ call[p].op = "create" =>
              /\ \A x \in own[p] : rows[x] = None
              /\ pc[p] \in {"finish", "replied"} => call[p].on \in own[p]
              /\ pc[p] = "committed" => rows[call[p].on] = call[p].with

(* A call for a session that began after its agent's revocation was         *)
(* committed stops at its reads, for they find it.                          *)
Barred ==
    \A p \in Procs : call[p].late /\ call[p].on \in Sessions =>
        /\ AgentOf[call[p].on] \in revoked
        /\ pc[p] \in {"idle", "check"}

Inv == TypeOK /\ Shape /\ Locks /\ Barred

Calls == [op: Op, on: Things \cup {None}, with: AllContents \cup {None}, late: BOOLEAN]
Places == {"idle", "check", "write", "finish", "committed", "replied"}

-----------------------------------------------------------------------------
LEMMA NoCallType == NoCall \in Calls /\ NoCall.op = "none" /\ NoCall.late = FALSE
  BY DEF NoCall, Calls, Op

LEMMA InitInv == Init => Inv
<1> SUFFICES ASSUME Init PROVE Inv
  OBVIOUS
<1>1. TypeOK
  BY NoCallType DEF Init, TypeOK, Calls
<1> QED BY <1>1, NoCallType DEF Init, Inv, Shape, Locks, Barred

(* A call ends, and what it had not committed is gone.                      *)
LEMMA EndInv ==
    ASSUME Inv, NEW p \in Procs, End(p), UNCHANGED database
    PROVE  Inv'
<1>1. /\ pc' = [pc EXCEPT ![p] = "idle"]
      /\ call' = [call EXCEPT ![p] = NoCall]
      /\ own' = [own EXCEPT ![p] = {}]
      /\ UNCHANGED <<rows, revoked>>
  BY DEF End, Goto, database
<1>2. TypeOK'
  BY <1>1, NoCallType DEF Inv, TypeOK, Calls
<1>3. Shape'
  BY <1>1, NoCallType DEF Inv, TypeOK, Shape
<1>4. Locks'
  BY <1>1, NoCallType DEF Inv, TypeOK, Locks
<1>5. Barred'
  BY <1>1, NoCallType DEF Inv, TypeOK, Barred
<1> QED BY <1>2, <1>3, <1>4, <1>5 DEF Inv

LEMMA BeginInv ==
    ASSUME Inv, NEW p \in Procs, NEW op \in Op, NEW x \in Things,
           NEW c \in AllContents \cup {None}, op = "create" => c \in Contents[x],
           op = "revoke" => x \in Agents,
           Begin(p, op, x, c)
    PROVE  Inv'
<1> DEFINE new == [op |-> op, on |-> x, with |-> c, late |-> AgentOf[x] \in revoked]
<1>1. /\ pc[p] = "idle" /\ pc' = [pc EXCEPT ![p] = "check"]
      /\ call' = [call EXCEPT ![p] = new]
      /\ UNCHANGED <<rows, revoked, own>>
  BY DEF Begin, Goto, database
<1>2. /\ new \in Calls /\ new.op = op /\ new.on = x /\ new.with = c
      /\ new.late <=> AgentOf[x] \in revoked
  <2>1. CASE AgentOf[x] \in revoked
    <3>1. new = [op |-> op, on |-> x, with |-> c, late |-> TRUE]
      BY <2>1, Zenon
    <3> QED BY <2>1, <3>1 DEF Calls
  <2>2. CASE AgentOf[x] \notin revoked
    <3>0. (AgentOf[x] \in revoked) = FALSE
      BY <2>2
    <3>1. new = [op |-> op, on |-> x, with |-> c, late |-> FALSE]
      BY <3>0
    <3> QED BY <2>2, <3>1 DEF Calls
  <2> QED BY <2>1, <2>2
<1> HIDE DEF new
<1>3. own[p] = {}
  BY <1>1 DEF Inv, Locks
<1>4. TypeOK'
  BY <1>1, <1>2 DEF Inv, TypeOK, Calls
<1>5. Shape'
  BY <1>1, <1>2, <1>3 DEF Inv, TypeOK, Shape
<1>6. Locks'
  BY <1>1, <1>2, <1>3 DEF Inv, TypeOK, Locks
<1>7. Barred'
  BY <1>1, <1>2 DEF Inv, TypeOK, Barred
<1> QED BY <1>4, <1>5, <1>6, <1>7 DEF Inv

(* Every thing is among the rows its creation inserts.                      *)
LEMMA InsertsIt ==
    ASSUME NEW x \in Things
    PROVE  /\ x \in ToSet(Inserts[x])
           /\ \A i \in DOMAIN Inserts[x] : Inserts[x][i] \in Things
           /\ DOMAIN Inserts[x] \in SUBSET Nat
<1>1. Inserts[x] \in Seq(Things) /\ Inserts[x] # <<>> /\ Inserts[x][1] = x
  BY RegistryAssumption
<1>2. 1 \in DOMAIN Inserts[x]
  BY <1>1
<1> QED BY <1>1, <1>2 DEF ToSet

(* While rows are missing there is a first one, which is a thing.           *)
LEMMA NextRowType ==
    ASSUME Inv, NEW p \in Procs, pc[p] = "write", call[p].op = "create"
    PROVE  NextRow(p) \in Things
<1> DEFINE todo == Inserts[call[p].on]
           missing == {i \in DOMAIN todo : todo[i] \notin own[p]}
<1>1. call[p].on \in Things /\ ~(ToSet(todo) \subseteq own[p])
  BY DEF Inv, Shape
<1>2. missing \in SUBSET Nat /\ missing # {}
  BY <1>1, InsertsIt DEF ToSet
<1>3. PICK i \in missing : \A j \in missing : i <= j
  BY <1>2, Least
<1>4. todo[i] \notin own[p] /\ \A j \in 1..(i - 1) : todo[j] \in own[p]
  <2>1. todo \in Seq(Things)
    BY <1>1, RegistryAssumption
  <2>2. \A j \in 1..(i - 1) : j \in DOMAIN todo /\ ~(i <= j)
    BY <2>1, <1>3
  <2> QED BY <2>2, <1>3
<1>5. \E k \in DOMAIN todo : todo[k] \notin own[p] /\ \A j \in 1..(k - 1) : todo[j] \in own[p]
  BY <1>3, <1>4
<1>6. \E k \in DOMAIN todo : NextRow(p) = todo[k]
  BY <1>5 DEF NextRow
<1> QED BY <1>1, <1>6, InsertsIt

(* A write takes the lock of a row nobody holds; the row of an insertion    *)
(* does not exist.                                                          *)
LEMMA WrittenInv ==
    ASSUME Inv, NEW p \in Procs, pc[p] = "write", call[p].op \in {"create", "revoke"},
           NEW x \in Things, ~Locked(p, x), Written(p, x),
           call[p].op = "create" => ~Collides(x),
           call[p].op = "revoke" => x = call[p].on
    PROVE  Inv'
<1>1. PICK l \in {"write", "finish"} :
        /\ pc' = [pc EXCEPT ![p] = l]
        /\ call[p].op = "create" =>
             (l = "finish" <=> ToSet(Inserts[call[p].on]) \subseteq own[p] \cup {x})
  BY DEF Written, Goto
<1>2. /\ own' = [own EXCEPT ![p] = own[p] \cup {x}]
      /\ UNCHANGED <<rows, revoked, call>>
  BY DEF Written, database
<1>3. call[p].op = "create" => rows[x] = None
  BY DEF Collides, Exists
<1>4. \A q \in Procs : q # p => x \notin own[q]
  BY DEF Locked
<1>5. TypeOK'
  BY <1>1, <1>2 DEF Inv, TypeOK
<1>6. Shape'
  BY <1>1, <1>2 DEF Inv, TypeOK, Shape
<1>7. Locks'
  <2>1. \A q, r \in Procs : q # r => own'[q] \cap own'[r] = {}
    BY <1>2, <1>4 DEF Inv, TypeOK, Locks
  <2>2. call[p].op = "create" /\ l = "finish" => call[p].on \in own'[p]
    BY <1>1, <1>2, InsertsIt DEF Inv, TypeOK, Shape
  <2> QED BY <2>1, <2>2, <1>1, <1>2, <1>3 DEF Inv, TypeOK, Locks
<1>8. Barred'
  BY <1>1, <1>2 DEF Inv, TypeOK, Barred
<1> QED BY <1>5, <1>6, <1>7, <1>8 DEF Inv

(* What a creation's row may hold, whichever row of it.                     *)
LEMMA RowType ==
    ASSUME Inv, NEW p \in Procs, call[p].op = "create", NEW x \in Things
    PROVE  Row(p, x) \in Contents[x]
  BY RegistryAssumption DEF Inv, Shape, Row

LEMMA CommitInv == ASSUME Inv, NEW p \in Procs, Commit(p) PROVE Inv'
<1>1. PICK l \in {"idle", "committed"} : pc' = [pc EXCEPT ![p] = l]
  BY DEF Commit, End, Goto
<1>2. /\ pc[p] \in {"finish", "replied"}
      /\ own' = [own EXCEPT ![p] = {}]
      /\ l = "idle" => call' = [call EXCEPT ![p] = NoCall]
      /\ l = "committed" => UNCHANGED call
  BY <1>1 DEF Commit, End, Goto, Inv, TypeOK
<1>3. \A q \in Procs : q # p => UNCHANGED <<pc[q], call[q], own[q]>>
  BY <1>1, <1>2 DEF Inv, TypeOK
<1>4. pc'[p] = l /\ own'[p] = {} /\ call'[p] \in {call[p], NoCall}
  BY <1>1, <1>2 DEF Inv, TypeOK
<1>5. l = "idle" => call'[p] = NoCall
  BY <1>2 DEF Inv, TypeOK
<1>6. /\ call' \in [Procs -> Calls] /\ own' \in [Procs -> SUBSET Things]
      /\ pc' \in [Procs -> Places]
  BY <1>1, <1>2, NoCallType DEF Inv, TypeOK, Calls, Places
<1>7. Barred'
  <2>1. revoked \subseteq revoked'
    BY DEF Commit
  <2>2. ~(call[p].late /\ call[p].on \in Sessions)
    BY <1>2 DEF Inv, Barred
  <2> QED BY <1>3, <1>4, <2>1, <2>2, NoCallType DEF Inv, Barred
<1>8. Shape' /\ Locks' /\ \A x \in Things : rows'[x] \in Contents[x] \cup {None}
  <2>1. CASE UNCHANGED rows /\ call[p].op = "revoke"
    BY <2>1, <1>3, <1>4, <1>5, NoCallType DEF Inv, TypeOK, Shape, Locks
  <2>2. CASE call[p].op # "revoke"
    <3>1. rows' = [x \in Things |-> IF x \in own[p] THEN Row(p, x) ELSE rows[x]]
      BY <2>2 DEF Commit
    <3>2. \A x \in Things : x \in own[p] => call[p].op = "create" /\ Row(p, x) \in Contents[x]
      BY <2>2, RowType DEF Inv, Shape
    <3>3. \A x \in Things : rows'[x] \in Contents[x] \cup {None}
      BY <3>1, <3>2 DEF Inv, TypeOK
    <3>4. Shape'
      BY <3>1, <1>3, <1>4, <1>5, NoCallType DEF Inv, TypeOK, Shape
    <3>5. l = "committed" /\ call[p].op = "create" => rows'[call[p].on] = call[p].with
      BY <3>1, <1>2 DEF Inv, Shape, Locks, Row
    <3>6. \A q \in Procs : q # p => own[q] \cap own[p] = {}
      BY DEF Inv, Locks
    <3>7. ASSUME NEW q \in Procs, q # p, call[q].op = "create"
          PROVE  /\ \A x \in own[q] : rows'[x] = None
                 /\ pc[q] = "committed" => rows'[call[q].on] = call[q].with
      <4>1. \A x \in own[q] : x \in Things /\ x \notin own[p] /\ rows[x] = None
        BY <3>6, <3>7 DEF Inv, TypeOK, Locks
      <4>2. pc[q] = "committed" => call[q].on \notin own[p]
        <5>1. call[q].with # None
          BY <3>7, RegistryAssumption DEF Inv, Shape, AllContents
        <5>2. pc[q] = "committed" => rows[call[q].on] # None
          BY <3>7, <5>1 DEF Inv, Locks
        <5>3. \A x \in own[p] : rows[x] = None
          BY <3>2 DEF Inv, TypeOK, Locks
        <5> QED BY <5>2, <5>3
      <4> QED BY <3>1, <3>7, <4>1, <4>2 DEF Inv, Shape, Locks
    <3>8. Locks'
      BY <1>2, <1>3, <1>4, <1>5, <3>5, <3>6, <3>7, NoCallType DEF Inv, TypeOK, Locks
    <3> QED BY <3>3, <3>4, <3>8
  <2> QED BY <2>1, <2>2 DEF Commit
<1>9. revoked' \subseteq Agents
  BY RegistryAssumption DEF Commit, Inv, TypeOK, Shape
<1> QED BY <1>6, <1>7, <1>8, <1>9 DEF Inv, TypeOK, Calls, Places

LEMMA StepInv == Inv /\ [Next]_vars => Inv'
<1> SUFFICES ASSUME Inv, [Next]_vars PROVE Inv'
  OBVIOUS
<1>1. ASSUME NEW p \in Procs, NEW x \in Things, NEW c \in Contents[x], BeginCreate(p, x, c)
      PROVE  Inv'
  <2>1. c \in AllContents /\ "create" \in Op
    BY DEF AllContents, Op
  <2> QED BY <1>1, <2>1, BeginInv DEF BeginCreate
<1>2. ASSUME NEW p \in Procs, NEW a \in Agents, BeginRevoke(p, a) PROVE Inv'
  <2>1. a \in Things /\ "revoke" \in Op
    BY RegistryAssumption DEF Op
  <2> QED BY <1>2, <2>1, BeginInv DEF BeginRevoke
<1>3. ASSUME NEW p \in Procs, NEW s \in Sessions, BeginToken(p, s) PROVE Inv'
  <2>1. s \in Things /\ "token" \in Op
    BY RegistryAssumption DEF Op
  <2> QED BY <1>3, <2>1, BeginInv DEF BeginToken
<1>4. ASSUME NEW p \in Procs, Refuse(p) \/ InsertFails(p) \/ Crash(p) PROVE Inv'
  BY <1>4, EndInv DEF Refuse, InsertFails, Crash
<1>5. ASSUME NEW p \in Procs, Check(p) PROVE Inv'
  <2>1. PICK l \in {"write", "finish"} :
          /\ pc' = [pc EXCEPT ![p] = l]
          /\ call[p].op = "create" => l = "write"
    BY <1>5 DEF Check, Goto, NothingToWrite
  <2>2. pc[p] = "check" /\ UNCHANGED <<rows, revoked, call, own>> /\ own[p] = {}
    BY <1>5 DEF Check, database, Inv, Locks
  <2>3. ~(call[p].late /\ call[p].on \in Sessions)
    BY <1>5 DEF Check, Refused, RefusesRevoked, Inv, Barred
  <2>4. call[p].op = "create" => ~(ToSet(Inserts[call[p].on]) \subseteq {})
    BY InsertsIt DEF Inv, Shape
  <2>5. TypeOK' /\ Shape'
    BY <2>1, <2>2, <2>4 DEF Inv, TypeOK, Shape
  <2>6. Locks' /\ Barred'
    BY <2>1, <2>2, <2>3 DEF Inv, TypeOK, Locks, Barred
  <2> QED BY <2>5, <2>6 DEF Inv
<1>6. ASSUME NEW p \in Procs, Insert(p) PROVE Inv'
  BY <1>6, NextRowType, WrittenInv DEF Insert
<1>7. ASSUME NEW p \in Procs, Update(p) PROVE Inv'
  <2>1. call[p].on \in Things
    BY <1>7, RegistryAssumption DEF Update, Inv, Shape
  <2> QED BY <1>7, <2>1, WrittenInv DEF Update
<1>8. ASSUME NEW p \in Procs, Commit(p) PROVE Inv'
  BY <1>8, CommitInv
<1>9. ASSUME NEW p \in Procs, Reply(p) PROVE Inv'
  <2>1. CASE pc[p] = "committed"
    BY <1>9, <2>1, EndInv DEF Reply
  <2>2. CASE pc[p] = "finish"
    <3>1. pc' = [pc EXCEPT ![p] = "replied"] /\ UNCHANGED <<rows, revoked, call, own>>
      BY <1>9, <2>2 DEF Reply, Goto, database
    <3>2. TypeOK' /\ Shape'
      BY <3>1 DEF Inv, TypeOK, Shape
    <3>3. Locks' /\ Barred'
      BY <2>2, <3>1 DEF Inv, TypeOK, Locks, Barred
    <3> QED BY <3>2, <3>3 DEF Inv
  <2> QED BY <1>9, <2>1, <2>2 DEF Reply
<1>10. CASE UNCHANGED vars
  BY <1>10 DEF vars, database, Inv, TypeOK, Shape, Locks, Barred
<1> QED BY <1>1, <1>2, <1>3, <1>4, <1>5, <1>6, <1>7, <1>8, <1>9, <1>10 DEF Next

-----------------------------------------------------------------------------
(* Registry's type invariant.                                               *)
THEOREM TypeCorrect == Spec => []TypeOK
<1>1. Inv => TypeOK
  BY DEF Inv
<1> QED BY <1>1, InitInv, StepInv, PTL DEF Spec

(* However many registrations race, one owns a name, and its content stands.*)
THEOREM OneOwnerHolds == Spec => []OneOwner
<1>1. Inv => OneOwner
  <2> SUFFICES ASSUME Inv, NEW p \in Procs, call[p].op = "create"
               PROVE  /\ pc[p] \in {"finish", "replied"} =>
                           \A x \in own[p] : ~Exists(x) /\ ~Locked(p, x)
                      /\ pc[p] = "committed" => rows[call[p].on] = call[p].with
    BY DEF OneOwner
  <2> QED BY DEF Inv, Locks, Exists, Locked
<1> QED BY <1>1, InitInv, StepInv, PTL DEF Spec

(* No session and no token after the kill switch, however calls interleave. *)
THEOREM RevokedGetNothingHolds == Spec => []RevokedGetNothing
<1>1. Inv => RevokedGetNothing
  BY DEF Inv, Barred, RevokedGetNothing
<1> QED BY <1>1, InitInv, StepInv, PTL DEF Spec

-----------------------------------------------------------------------------
(* Previews. *)

(* One turn of redact's fold over the paths with numbers in s, the highest  *)
(* last.                                                                    *)
Turn(doc, sensitive, f, s) ==
    IF s = {} THEN Unredacted(doc)
    ELSE TakeOut(f[s \ {Max(s)}], sensitive[Max(s)])

(* The highest number of a bounded set, by Greatest.                         *)
LEMMA MaxIs ==
    ASSUME NEW S \in SUBSET Nat, S # {}, NEW n \in Nat, \A i \in S : i <= n
    PROVE  /\ Max(S) \in S /\ \A i \in S : i <= Max(S)
           /\ n \in S => Max(S) = n
<1>1. \E i \in S : \A j \in S : i >= j
  BY Greatest
<1>2. Max(S) \in S /\ \A j \in S : Max(S) >= j
  BY <1>1 DEF Max
<1>3. PICK m \in Nat : m = Max(S)
  BY <1>2
<1>4. m \in S /\ \A j \in S : j \in Nat /\ m >= j
  BY <1>2, <1>3
<1>5. \A i \in S : i <= m
  BY <1>4
<1>6. n \in S => m = n
  BY <1>4
<1> QED BY <1>3, <1>4, <1>5, <1>6

(* The function the fold is defined by exists: by induction over the bound. *)
LEMMA FoldExists ==
    ASSUME NEW doc, NEW sensitive, NEW n \in Nat
    PROVE  \E f : f = [s \in SUBSET (1..n) |-> Turn(doc, sensitive, f, s)]
<1> DEFINE Folded == {k \in Nat : \E f : f = [s \in SUBSET (1..k) |-> Turn(doc, sensitive, f, s)]}
<1>1. 0 \in Folded
  <2> DEFINE f == [s \in SUBSET (1..0) |-> Unredacted(doc)]
  <2>1. \A s \in SUBSET (1..0) : Turn(doc, sensitive, f, s) = Unredacted(doc)
    BY DEF Turn
  <2>2. f = [s \in SUBSET (1..0) |-> Turn(doc, sensitive, f, s)]
    BY <2>1
  <2> QED BY <2>2
<1>2. ASSUME NEW k \in Folded PROVE k + 1 \in Folded
  <2>1. PICK f : f = [s \in SUBSET (1..k) |-> Turn(doc, sensitive, f, s)]
    OBVIOUS
  <2> DEFINE g == [s \in SUBSET (1..(k + 1)) |->
                     IF k + 1 \in s THEN TakeOut(f[s \ {k + 1}], sensitive[k + 1]) ELSE f[s]]
  <2>2. ASSUME NEW s \in SUBSET (1..(k + 1)) PROVE g[s] = Turn(doc, sensitive, g, s)
    <3>1. s # {} => Max(s) \in s /\ (k + 1 \in s => Max(s) = k + 1)
      BY MaxIs
    <3>2. CASE k + 1 \in s
      <4>1. s \ {k + 1} \in SUBSET (1..k)
        OBVIOUS
      <4>2. g[s \ {k + 1}] = f[s \ {k + 1}]
        BY <4>1
      <4> QED BY <3>1, <3>2, <4>2 DEF Turn
    <3>3. CASE k + 1 \notin s
      <4>1. s \in SUBSET (1..k)
        BY <3>3
      <4>2. f[s] = Turn(doc, sensitive, f, s)
        BY <2>1, <4>1
      <4>3. s \ {Max(s)} \in SUBSET (1..k)
        BY <4>1
      <4>4. g[s \ {Max(s)}] = f[s \ {Max(s)}]
        BY <4>3
      <4>5. g[s] = f[s]
        BY <3>3
      <4> HIDE DEF g
      <4> QED BY <4>2, <4>4, <4>5 DEF Turn
    <3> QED BY <3>2, <3>3
  <2>3. g = [s \in SUBSET (1..(k + 1)) |-> g[s]]
    OBVIOUS
  <2> HIDE DEF g
  <2>4. g = [s \in SUBSET (1..(k + 1)) |-> Turn(doc, sensitive, g, s)]
    BY <2>2, <2>3
  <2> QED BY <2>4
<1> HIDE DEF Folded
<1>3. Folded \in SUBSET Nat
  BY DEF Folded
<1>4. n \in Folded
  BY <1>1, <1>2, <1>3, Induction
<1> QED BY <1>4 DEF Folded

(* What redact has after the first k of the n paths.                        *)
After(doc, sensitive, n, k) ==
    LET f == CHOOSE h : h = [s \in SUBSET (1..n) |-> Turn(doc, sensitive, h, s)]
    IN  f[1..k]

(* redact takes out one path after the other.                               *)
LEMMA AfterTurns ==
    ASSUME NEW doc, NEW n \in Nat, NEW sensitive, DOMAIN sensitive = 1..n
    PROVE  /\ After(doc, sensitive, n, 0) = Unredacted(doc)
           /\ \A k \in 1..n : After(doc, sensitive, n, k)
                               = TakeOut(After(doc, sensitive, n, k - 1), sensitive[k])
           /\ Redact(doc, sensitive) = After(doc, sensitive, n, n)
<1> DEFINE f == CHOOSE h : h = [s \in SUBSET (1..n) |-> Turn(doc, sensitive, h, s)]
<1>1. Redact(doc, sensitive) = f[1..n]
  BY DEF Redact, FoldLeft, MapThenFoldSet, Turn
<1>2. f = [s \in SUBSET (1..n) |-> Turn(doc, sensitive, f, s)]
  BY FoldExists
<1>3. \A k : After(doc, sensitive, n, k) = f[1..k]
  BY DEF After
<1> HIDE DEF f
<1>4. f[1..0] = Unredacted(doc)
  BY <1>2 DEF Turn
<1>5. ASSUME NEW k \in 1..n PROVE f[1..k] = TakeOut(f[1..(k - 1)], sensitive[k])
  <2>1. k \in Nat /\ k \in 1..k /\ k <= n
    OBVIOUS
  <2>2. 1..k \in SUBSET (1..n) /\ 1..k # {} /\ (1..k) \ {k} = 1..(k - 1)
    BY <2>1
  <2>3. Max(1..k) = k
    <3>1. 1..k \in SUBSET Nat /\ 1..k # {} /\ \A i \in 1..k : i <= k
      BY <2>1
    <3> QED BY <2>1, <3>1, MaxIs
  <2>4. f[1..k] = Turn(doc, sensitive, f, 1..k)
    BY <1>2, <2>2
  <2> QED BY <2>2, <2>3, <2>4 DEF Turn
<1> QED BY <1>1, <1>3, <1>4, <1>5

(* What is true of redact's result after the first k paths.                 *)
HonestSoFar(doc, sensitive, k, out) ==
    /\ DOMAIN out.preview \subseteq DOMAIN doc
    /\ \A p \in DOMAIN out.preview : out.preview[p] = doc[p]
    /\ out.redacted \in Seq(DOMAIN doc)
    /\ \A p \in DOMAIN doc \ DOMAIN out.preview :
         \E i \in 1..Len(out.redacted) : IsPrefix(out.redacted[i], p)
    /\ \A j \in 1..k : ~Found(doc, sensitive[j]) \/ sensitive[j] \notin DOMAIN out.preview

LEMMA HonestStart ==
    ASSUME NEW doc, NEW sensitive
    PROVE  HonestSoFar(doc, sensitive, 0, Unredacted(doc))
  BY DEF HonestSoFar, Unredacted

(* A path that is found goes onto the list and takes with it what it leads  *)
(* to; one that is not found in the preview is not found, or is gone.       *)
LEMMA HonestTurn ==
    ASSUME NEW doc, NEW sensitive, NEW k \in Nat, sensitive[k + 1] \in Seq(STRING),
           NEW out, HonestSoFar(doc, sensitive, k, out),
           NEW next, next = TakeOut(out, sensitive[k + 1])
    PROVE  HonestSoFar(doc, sensitive, k + 1, next)
<1> DEFINE path == sensitive[k + 1]
<1>1. /\ DOMAIN out.preview \subseteq DOMAIN doc
      /\ \A p \in DOMAIN out.preview : out.preview[p] = doc[p]
      /\ out.redacted \in Seq(DOMAIN doc)
      /\ \A p \in DOMAIN doc \ DOMAIN out.preview :
           \E i \in 1..Len(out.redacted) : IsPrefix(out.redacted[i], p)
      /\ \A j \in 1..k :
           ~Found(doc, sensitive[j]) \/ sensitive[j] \notin DOMAIN out.preview
  BY DEF HonestSoFar
<1>2. path \in Seq(STRING) /\ \A j \in 1..(k + 1) : j = k + 1 \/ j \in 1..k
  OBVIOUS
<1>3. CASE ~Found(out.preview, path)
  <2>1. next = out
    BY <1>3 DEF TakeOut
  <2>2. ~Found(doc, path) \/ path \notin DOMAIN out.preview
    BY <1>1, <1>3 DEF Found
  <2> QED BY <1>1, <1>2, <2>1, <2>2 DEF HonestSoFar
<1>4. CASE Found(out.preview, path)
  <2>1. /\ next.preview = Removed(out.preview, path)
        /\ next.redacted = Append(out.redacted, path)
    BY <1>4 DEF TakeOut
  <2>2. path \in DOMAIN doc
    BY <1>1, <1>4 DEF Found
  <2>3. /\ next.redacted \in Seq(DOMAIN doc)
        /\ Len(next.redacted) = Len(out.redacted) + 1
        /\ Len(out.redacted) \in Nat
        /\ next.redacted[Len(out.redacted) + 1] = path
        /\ \A i \in 1..Len(out.redacted) : next.redacted[i] = out.redacted[i]
    BY <1>1, <2>1, <2>2
  <2>4. /\ DOMAIN next.preview = {q \in DOMAIN out.preview : ~IsPrefix(path, q)}
        /\ \A q \in DOMAIN next.preview : next.preview[q] = out.preview[q]
    BY <2>1 DEF Removed
  <2>5. path \notin DOMAIN next.preview
    <3>1. IsPrefix(path, path)
      BY <1>2 DEF IsPrefix
    <3> QED BY <2>4, <3>1
  <2>6. \A p \in DOMAIN doc \ DOMAIN next.preview :
          \E i \in 1..Len(next.redacted) : IsPrefix(next.redacted[i], p)
    <3> SUFFICES ASSUME NEW p \in DOMAIN doc \ DOMAIN next.preview
                 PROVE  \E i \in 1..Len(next.redacted) : IsPrefix(next.redacted[i], p)
      OBVIOUS
    <3>1. CASE p \in DOMAIN out.preview
      <4>1. IsPrefix(path, p)
        BY <2>4, <3>1
      <4>2. Len(out.redacted) + 1 \in 1..Len(next.redacted)
        BY <2>3
      <4> QED BY <4>1, <4>2, <2>3
    <3>2. CASE p \notin DOMAIN out.preview
      <4>1. PICK i \in 1..Len(out.redacted) : IsPrefix(out.redacted[i], p)
        BY <1>1, <3>2
      <4>2. i \in 1..Len(next.redacted) /\ next.redacted[i] = out.redacted[i]
        BY <2>3
      <4> QED BY <4>1, <4>2
    <3> QED BY <3>1, <3>2
  <2>7. \A j \in 1..(k + 1) : ~Found(doc, sensitive[j]) \/ sensitive[j] \notin DOMAIN next.preview
    BY <1>1, <1>2, <2>4, <2>5
  <2> QED BY <1>1, <2>3, <2>4, <2>6, <2>7 DEF HonestSoFar
<1> QED BY <1>3, <1>4

(* Whatever the document, the paths, and their order.                       *)
LEMMA RedactIsHonest ==
    ASSUME NEW doc, NEW n \in Nat, NEW sensitive, DOMAIN sensitive = 1..n,
           \A k \in 1..n : sensitive[k] \in Seq(STRING)
    PROVE  Honest(doc, sensitive)
<1> DEFINE done(k) == After(doc, sensitive, n, k)
<1>2. /\ done(0) = Unredacted(doc)
      /\ \A k \in 1..n : done(k) = TakeOut(done(k - 1), sensitive[k])
      /\ Redact(doc, sensitive) = done(n)
  BY AfterTurns
<1> HIDE DEF done
<1> DEFINE Good == {k \in Nat : k <= n => HonestSoFar(doc, sensitive, k, done(k))}
<1>3. 0 \in Good
  BY <1>2, HonestStart
<1>4. ASSUME NEW k \in Good PROVE k + 1 \in Good
  <2> SUFFICES ASSUME k + 1 <= n PROVE HonestSoFar(doc, sensitive, k + 1, done(k + 1))
    OBVIOUS
  <2>1. k + 1 \in 1..n /\ k <= n
    OBVIOUS
  <2>2. HonestSoFar(doc, sensitive, k, done(k))
    BY <2>1
  <2>3. k \in Nat /\ sensitive[k + 1] \in Seq(STRING)
    BY <2>1
  <2>4. done(k + 1) = TakeOut(done(k), sensitive[k + 1])
    BY <1>2, <2>1
  <2> QED BY <2>2, <2>3, <2>4, HonestTurn
<1> HIDE DEF Good
<1>5. n \in Good
  <2>1. Good \in SUBSET Nat
    BY DEF Good
  <2> QED BY <1>3, <1>4, <2>1, Induction
<1>6. HonestSoFar(doc, sensitive, n, Redact(doc, sensitive))
  BY <1>2, <1>5 DEF Good
<1> DEFINE out == Redact(doc, sensitive)
<1> HIDE DEF out
<1>7. /\ \A s \in ToSet(sensitive) : ~Found(doc, s) \/ s \notin DOMAIN out.preview
      /\ \A p \in DOMAIN out.preview : p \in DOMAIN doc /\ out.preview[p] = doc[p]
  BY <1>6 DEF HonestSoFar, ToSet, out
<1>8. DOMAIN out.redacted = 1..Len(out.redacted) /\ ToSet(out.redacted) \subseteq DOMAIN doc
  BY <1>6 DEF HonestSoFar, ToSet, out
<1>9. \A p \in DOMAIN doc \ DOMAIN out.preview :
        \E s \in ToSet(out.redacted) : IsPrefix(s, p)
  BY <1>6, <1>8 DEF HonestSoFar, ToSet, out
<1> QED BY <1>7, <1>8, <1>9 DEF Honest, out

(* Whatever a tool was registered with, no argument of a call that it calls *)
(* sensitive and that dictionaries lead to is in the preview, and the list  *)
(* says what was taken out.  Within lists nothing is taken out.             *)
THEOREM PreviewsAreHonestHolds == Spec => []PreviewsAreHonest
<1>1. TypeOK => PreviewsAreHonest
  <2> SUFFICES ASSUME TypeOK, NEW t \in Tools, Exists(t), NEW doc \in Documents
               PROVE  Honest(doc, rows[t])
    BY DEF PreviewsAreHonest
  <2>1. rows[t] \in Seq(Seq(STRING))
    BY RegistryAssumption DEF TypeOK, Exists
  <2>2. Len(rows[t]) \in Nat /\ DOMAIN rows[t] = 1..Len(rows[t])
        /\ \A k \in 1..Len(rows[t]) : rows[t][k] \in Seq(STRING)
    BY <2>1
  <2> QED BY <2>2, RedactIsHonest
<1> QED BY <1>1, TypeCorrect, PTL DEF Spec
=============================================================================
