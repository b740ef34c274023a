--------------------------- MODULE ProductsProofs ---------------------------
(***************************************************************************)
(* Proofs about Products, for any users, requests and fields.  Each action *)
(* keeps IInv, one step per conjunct; the theorems follow from IInv.       *)
(***************************************************************************)
EXTENDS Products, TLAPS

USE NoneAssumption DEF call, store

LEMMA StartKeeps ==
  ASSUME IInv, NEW r \in Requests, NEW u \in Users, NEW o \in {"create", "update", "delete"},
         NEW p \in Requests, NEW F \in SUBSET Fields,
         Start(r, u, o, p, F), o # "create" => p \in Known
  PROVE  IInv'
<1> USE DEF IInv, Start, Step
<1>1. TypeOK'
  BY DEF TypeOK, Active, Answers
<1>2. CallsAreRouted'
  <2>1. Known' = Known
    BY DEF Known
  <2>2. \A s \in Requests \ {r} :
          pc'[s] = pc[s] /\ op'[s] = op[s] /\ actor'[s] = actor[s] /\ target'[s] = target[s]
    BY DEF TypeOK
  <2>3. pc'[r] = "guard" /\ op'[r] = o /\ actor'[r] = u /\ target'[r] = p
    BY DEF TypeOK
  <2> QED
    BY <2>1, <2>2, <2>3 DEF CallsAreRouted
<1>3. IdsAreFresh'
  BY DEF TypeOK, CallsAreRouted, IdsAreFresh, Known, Active
<1>4. LateCallsStop'
  BY DEF TypeOK, CallsAreRouted, LateCallsStop, Active
<1>5. ChecksHold'
  BY DEF TypeOK, CallsAreRouted, IdsAreFresh, ChecksHold, Known, Active
<1>6. WritersAreDone'
  BY DEF TypeOK, CallsAreRouted, WritersAreDone, Active
<1>7. NoResurrection'
  BY DEF TypeOK, CallsAreRouted, IdsAreFresh, NoResurrection, Known, Active
<1>8. NoLostPatch'
  BY DEF TypeOK, CallsAreRouted, IdsAreFresh, WritersAreDone, NoLostPatch, Known, Active
<1> QED
  BY <1>1, <1>2, <1>3, <1>4, <1>5, <1>6, <1>7, <1>8

LEMMA GuardKeeps ==
  ASSUME IInv, NEW r \in Requests, GuardCheck(r)
  PROVE  IInv'
<1> USE DEF IInv, GuardCheck, Step
<1>1. TypeOK'
  BY DEF TypeOK, Active, Answers
<1>2. CallsAreRouted'
  <2>1. Known' = Known
    BY DEF Known
  <2>2. \A s \in Requests \ {r} : pc'[s] = pc[s]
    BY DEF TypeOK
  <2>3. /\ pc[r] = "guard"
        /\ pc'[r] \in {"TOKEN_REVOKED", "insert", "find"}
        /\ pc'[r] = "insert" => op[r] = "create"
        /\ pc'[r] = "find" => op[r] # "create"
    BY DEF TypeOK
  <2>4. op[r] \in {"create", "update", "delete"}
    BY <2>3 DEF TypeOK, CallsAreRouted
  <2> QED
    BY <2>1, <2>2, <2>3, <2>4 DEF CallsAreRouted
<1>3. IdsAreFresh'
  BY DEF TypeOK, CallsAreRouted, IdsAreFresh, Known, Active
<1>4. LateCallsStop'
  BY DEF TypeOK, CallsAreRouted, LateCallsStop, Active
<1>5. ChecksHold'
  BY DEF TypeOK, CallsAreRouted, IdsAreFresh, ChecksHold, Known, Active
<1>6. WritersAreDone'
  BY DEF TypeOK, CallsAreRouted, WritersAreDone, Active
<1>7. NoResurrection'
  BY DEF TypeOK, CallsAreRouted, IdsAreFresh, NoResurrection, Known, Active
<1>8. NoLostPatch'
  BY DEF TypeOK, CallsAreRouted, IdsAreFresh, WritersAreDone, NoLostPatch, Known, Active
<1> QED
  BY <1>1, <1>2, <1>3, <1>4, <1>5, <1>6, <1>7, <1>8

LEMMA InsertKeeps ==
  ASSUME IInv, NEW r \in Requests, Insert(r)
  PROVE  IInv'
<1> USE DEF IInv, Insert, Committed, Step
<1>1. TypeOK'
  BY DEF TypeOK, Active, Answers, Row, CallsAreRouted
<1>2. CallsAreRouted'
  <2>1. Known \subseteq Known'
    <3>1. r \notin Known
      BY DEF IdsAreFresh
    <3> QED
      BY <3>1 DEF TypeOK, Known
  <2>2. \A s \in Requests \ {r} : pc'[s] = pc[s]
    BY DEF TypeOK
  <2>3. pc[r] = "insert" /\ pc'[r] \in {"201", "INTERNAL"} /\ op[r] = "create"
    BY DEF TypeOK, CallsAreRouted
  <2> QED
    BY <2>1, <2>2, <2>3 DEF CallsAreRouted
<1>3. IdsAreFresh'
  BY DEF TypeOK, CallsAreRouted, IdsAreFresh, Known, Active, Row
<1>4. LateCallsStop'
  BY DEF TypeOK, CallsAreRouted, LateCallsStop, Active, Row
<1>5. ChecksHold'
  BY DEF TypeOK, CallsAreRouted, IdsAreFresh, ChecksHold, Known, Active, Row
<1>6. WritersAreDone'
  BY DEF TypeOK, CallsAreRouted, WritersAreDone, Active, Row
<1>7. NoResurrection'
  BY DEF TypeOK, CallsAreRouted, IdsAreFresh, NoResurrection, Known, Active, Row
<1>8. NoLostPatch'
  <2>1. r \notin Known
    BY DEF IdsAreFresh
  <2>2. \A s \in Requests : pc'[s] = "200" => pc[s] = "200" /\ target[s] # r
    BY <2>1 DEF TypeOK, CallsAreRouted
  <2>3. \A p \in Requests \ {r} : table'[p] = table[p]
    BY DEF TypeOK
  <2>4. \A f \in Fields : table'[r].by[f] = r /\ <<f, r>> \notin undone[r]
    BY DEF TypeOK, WritersAreDone
  <2> QED
    BY <2>2, <2>3, <2>4 DEF NoLostPatch
<1> QED
  BY <1>1, <1>2, <1>3, <1>4, <1>5, <1>6, <1>7, <1>8

LEMMA FindKeeps ==
  ASSUME IInv, NEW r \in Requests, Find(r)
  PROVE  IInv'
<1> USE DEF IInv, Find, Step
<1>1. TypeOK'
  BY DEF TypeOK, Active, Answers, Row, CallsAreRouted
<1>2. CallsAreRouted'
  BY DEF TypeOK, CallsAreRouted, Known, Active, NoResurrection
<1>3. IdsAreFresh'
  BY DEF TypeOK, CallsAreRouted, IdsAreFresh, Known, Active
<1>4. LateCallsStop'
  BY DEF TypeOK, CallsAreRouted, LateCallsStop, Active
<1>5. ChecksHold'
  BY DEF TypeOK, CallsAreRouted, IdsAreFresh, ChecksHold, Known, Active
<1>6. WritersAreDone'
  BY DEF TypeOK, CallsAreRouted, WritersAreDone, Active
<1>7. NoResurrection'
  BY DEF TypeOK, CallsAreRouted, IdsAreFresh, NoResurrection, Known, Active
<1>8. NoLostPatch'
  BY DEF TypeOK, CallsAreRouted, IdsAreFresh, WritersAreDone, NoLostPatch, Known, Active
<1> QED
  BY <1>1, <1>2, <1>3, <1>4, <1>5, <1>6, <1>7, <1>8

LEMMA UpdateKeeps ==
  ASSUME IInv, NEW r \in Requests, Update(r)
  PROVE  IInv'
<1> USE DEF IInv, Update, SetFields, Committed, Step
<1> DEFINE p == target[r]
           by == [f \in Fields |-> IF f \in patch[r] THEN r ELSE table[p].by[f]]
<1>a. p \in Requests /\ table[p] \in Row /\ by \in [Fields -> Requests]
  <2>1. p \in Requests /\ table[p] \in Row
    BY DEF TypeOK, CallsAreRouted
  <2> QED
    BY <2>1 DEF Row
<1>b. table'[p] = [owner |-> table[p].owner, by |-> by] /\ table'[p] \in Row
  <2>1. table' = [table EXCEPT ![p] = [table[p] EXCEPT !.by = by]]
    OBVIOUS
  <2> HIDE DEF by
  <2>2. table'[p] = [table[p] EXCEPT !.by = by]
    BY <1>a, <2>1 DEF TypeOK
  <2> QED
    BY <1>a, <2>2 DEF Row
<1>c. \A f \in Fields, w \in Requests : <<f, w>> \in undone'[p] <=>
        <<f, w>> \in undone[p] \/ (w = table[p].by[f] /\ by[f] # table[p].by[f])
  <2> DEFINE lost == {<<f, table[p].by[f]>> : f \in {g \in Fields : by[g] # table[p].by[g]}}
  <2>1. undone'[p] = undone[p] \union lost
    BY <1>a DEF TypeOK
  <2>2. \A f \in Fields, w \in Requests :
          <<f, w>> \in lost <=> w = table[p].by[f] /\ by[f] # table[p].by[f]
    OBVIOUS
  <2> HIDE DEF lost, by
  <2> QED
    BY <2>1, <2>2
<1>o. \A q \in Requests \ {p} : table'[q] = table[q] /\ undone'[q] = undone[q]
  BY <1>a DEF TypeOK
<1>d. /\ pc[r] = "write" /\ pc'[r] \in {"200", "INTERNAL"}
      /\ \A s \in Requests \ {r} : pc'[s] = pc[s]
  BY DEF TypeOK
<1>e. \A f \in Fields : by[f] = IF f \in patch[r] THEN r ELSE table[p].by[f]
  OBVIOUS
<1>f. UNCHANGED <<op, actor, target, patch, late, existing, sessions, removed>>
  OBVIOUS
<1>t. TypeOK'
  <2>1. table' \in [Requests -> Row \union {None}]
    BY <1>a, <1>b DEF TypeOK
  <2>2. undone' \in [Requests -> SUBSET (Fields \X Requests)]
    <3> DEFINE lost == {<<f, table[p].by[f]>> : f \in {g \in Fields : by[g] # table[p].by[g]}}
    <3>1. lost \subseteq Fields \X Requests
      BY <1>a DEF Row
    <3>2. undone' = [undone EXCEPT ![p] = undone[p] \union lost]
      OBVIOUS
    <3>3. undone[p] \union lost \in SUBSET (Fields \X Requests)
      BY <1>a, <3>1 DEF TypeOK
    <3> HIDE DEF lost, p, by, Update, SetFields
    <3> QED
      BY <3>2, <3>3 DEF TypeOK
  <2>3. pc' \in [Requests -> {"new"} \union Active \union Answers]
    BY DEF TypeOK, Answers
  <2> QED
    BY <1>f, <2>1, <2>2, <2>3 DEF TypeOK
<1>p. p = target[r]
  OBVIOUS
<1> HIDE DEF p, by, Update, SetFields, Committed, Step
<1>2. CallsAreRouted'
  <2>1. Known \subseteq Known'
    BY <1>a, <1>b, <1>o, <1>f DEF Known
  <2> QED
    BY <2>1, <1>d, <1>f DEF CallsAreRouted
<1>3. IdsAreFresh'
  <2>1. Known' \subseteq Known
    BY <1>a, <1>o, <1>f DEF Known
  <2>2. r \notin Known
    BY <1>d DEF IdsAreFresh
  <2> QED
    BY <2>1, <2>2, <1>d, <1>f DEF IdsAreFresh, Known, TypeOK
<1>4. LateCallsStop'
  BY <1>d, <1>f DEF LateCallsStop
<1>5. ChecksHold'
  BY <1>a, <1>b, <1>o, <1>d, <1>f DEF ChecksHold, CallsAreRouted
<1>6. WritersAreDone'
  <2>1. \A w \in Requests : pc[w] \in {"201", "200", "INTERNAL"}
                             => pc'[w] \in {"201", "200", "INTERNAL"}
    BY <1>d
  <2>2. ASSUME NEW q \in Requests, NEW w \in Requests, NEW f \in Fields,
               <<f, w>> \in undone'[q] \/ (table'[q] # None /\ table'[q].by[f] = w)
        PROVE  pc'[w] \in {"201", "200", "INTERNAL"}
    <3>1. CASE q # p
      BY <1>o, <2>1, <2>2, <3>1 DEF WritersAreDone
    <3>2. CASE q = p /\ w = r
      BY <1>d, <3>2
    <3>3. CASE q = p /\ w # r
      <4>1. <<f, w>> \in undone[p] \/ table[p].by[f] = w
        BY <1>b, <1>c, <1>e, <2>2, <3>3
      <4> QED
        BY <1>a, <2>1, <3>3, <4>1 DEF WritersAreDone
    <3> QED
      BY <3>1, <3>2, <3>3
  <2> QED
    BY <2>2 DEF WritersAreDone
<1>7. NoResurrection'
  BY <1>a, <1>o, <1>d, <1>f DEF TypeOK, NoResurrection
<1>8. NoLostPatch'
  <2>1. \A q \in Requests, f \in Fields : <<f, r>> \notin undone[q]
    BY <1>d DEF WritersAreDone
  <2>2. ASSUME NEW q \in Requests, NEW f \in Fields, table'[q] # None
        PROVE  <<f, table'[q].by[f]>> \notin undone'[q]
    <3>1. CASE q # p
      BY <1>o, <2>2, <3>1 DEF NoLostPatch
    <3>2. CASE q = p /\ f \in patch[r]
      <4>1. table'[q].by[f] = r
        BY <1>b, <1>e, <3>2
      <4>2. table[p].by[f] # r
        BY <1>a, <1>d DEF WritersAreDone
      <4> QED
        BY <1>a, <1>c, <2>1, <3>2, <4>1, <4>2
    <3>3. CASE q = p /\ f \notin patch[r]
      <4>1. table'[q].by[f] = table[p].by[f] /\ by[f] = table[p].by[f]
        BY <1>b, <1>e, <3>3
      <4>2. <<f, table[p].by[f]>> \notin undone[p]
        BY <1>a DEF NoLostPatch
      <4> QED
        BY <1>a, <1>c, <3>3, <4>1, <4>2 DEF Row
    <3> QED
      BY <3>1, <3>2, <3>3
  <2>3. ASSUME NEW q \in Requests, NEW f \in Fields, NEW s \in Requests, table'[q] # None,
               pc'[s] = "200", target[s] = q, f \in patch[s]
        PROVE  table'[q].by[f] = s \/ <<f, s>> \in undone'[q]
    <3>1. CASE s = r
      BY <1>b, <1>e, <1>p, <2>3, <3>1
    <3>2. CASE s # r /\ q # p
      BY <1>o, <1>d, <2>3, <3>2 DEF NoLostPatch
    <3>3. CASE s # r /\ q = p
      <4>1. table[p].by[f] = s \/ <<f, s>> \in undone[p]
        BY <1>a, <1>d, <2>3, <3>3 DEF NoLostPatch
      <4>2. CASE by[f] = table[p].by[f]
        BY <1>b, <1>c, <3>3, <4>1, <4>2
      <4>3. CASE by[f] # table[p].by[f]
        BY <1>c, <3>3, <4>1, <4>3
      <4> QED
        BY <4>2, <4>3
    <3> QED
      BY <3>1, <3>2, <3>3
  <2> QED
    BY <2>2, <2>3, <1>f DEF NoLostPatch
<1> QED
  BY <1>t, <1>2, <1>3, <1>4, <1>5, <1>6, <1>7, <1>8

LEMMA UpdateMissingKeeps ==
  ASSUME IInv, NEW r \in Requests, UpdateMissing(r)
  PROVE  IInv'
<1> USE DEF IInv, UpdateMissing, Step
<1>1. TypeOK'
  BY DEF TypeOK, Active, Answers
<1>2. CallsAreRouted'
  BY DEF TypeOK, CallsAreRouted, Known, Active, NoResurrection
<1>3. IdsAreFresh'
  BY DEF TypeOK, CallsAreRouted, IdsAreFresh, Known, Active
<1>4. LateCallsStop'
  BY DEF TypeOK, CallsAreRouted, LateCallsStop, Active
<1>5. ChecksHold'
  BY DEF TypeOK, CallsAreRouted, IdsAreFresh, ChecksHold, Known, Active
<1>6. WritersAreDone'
  BY DEF TypeOK, CallsAreRouted, WritersAreDone, Active
<1>7. NoResurrection'
  BY DEF TypeOK, CallsAreRouted, IdsAreFresh, NoResurrection, Known, Active
<1>8. NoLostPatch'
  BY DEF TypeOK, CallsAreRouted, IdsAreFresh, WritersAreDone, NoLostPatch, Known, Active
<1> QED
  BY <1>1, <1>2, <1>3, <1>4, <1>5, <1>6, <1>7, <1>8

LEMMA DeleteKeeps ==
  ASSUME IInv, NEW r \in Requests, Delete(r)
  PROVE  IInv'
<1> USE DEF IInv, Delete, Committed, Step
<1>1. TypeOK'
  BY DEF TypeOK, CallsAreRouted, Active, Answers
<1>2. CallsAreRouted'
  BY DEF TypeOK, CallsAreRouted, Known, Active, NoResurrection
<1>3. IdsAreFresh'
  BY DEF TypeOK, CallsAreRouted, IdsAreFresh, Known, Active
<1>4. LateCallsStop'
  BY DEF TypeOK, CallsAreRouted, LateCallsStop, Active
<1>5. ChecksHold'
  BY DEF TypeOK, CallsAreRouted, IdsAreFresh, ChecksHold, Known, Active
<1>6. WritersAreDone'
  BY DEF TypeOK, CallsAreRouted, WritersAreDone, Active
<1>7. NoResurrection'
  BY DEF TypeOK, CallsAreRouted, IdsAreFresh, NoResurrection, Known, Active
<1>8. NoLostPatch'
  BY DEF TypeOK, CallsAreRouted, IdsAreFresh, WritersAreDone, NoLostPatch, Known, Active
<1> QED
  BY <1>1, <1>2, <1>3, <1>4, <1>5, <1>6, <1>7, <1>8

LEMMA AbortKeeps ==
  ASSUME IInv, NEW r \in Requests, Abort(r)
  PROVE  IInv'
<1> USE DEF IInv, Abort
<1>1. TypeOK'
  BY DEF TypeOK, Active, Answers
<1>2. CallsAreRouted'
  BY DEF TypeOK, CallsAreRouted, Known, Active, NoResurrection
<1>3. IdsAreFresh'
  BY DEF TypeOK, CallsAreRouted, IdsAreFresh, Known, Active
<1>4. LateCallsStop'
  BY DEF TypeOK, CallsAreRouted, LateCallsStop, Active
<1>5. ChecksHold'
  BY DEF TypeOK, CallsAreRouted, IdsAreFresh, ChecksHold, Known, Active
<1>6. WritersAreDone'
  BY DEF TypeOK, CallsAreRouted, WritersAreDone, Active
<1>7. NoResurrection'
  BY DEF TypeOK, CallsAreRouted, IdsAreFresh, NoResurrection, Known, Active
<1>8. NoLostPatch'
  BY DEF TypeOK, CallsAreRouted, IdsAreFresh, WritersAreDone, NoLostPatch, Known, Active
<1> QED
  BY <1>1, <1>2, <1>3, <1>4, <1>5, <1>6, <1>7, <1>8

LEMMA RevokeKeeps ==
  ASSUME IInv, NEW u \in Users, Revoke(u)
  PROVE  IInv'
<1> USE DEF IInv, Revoke
<1>1. TypeOK'
  BY DEF TypeOK, Active, Answers
<1>2. CallsAreRouted'
  BY DEF TypeOK, CallsAreRouted, Known, Active, NoResurrection
<1>3. IdsAreFresh'
  BY DEF TypeOK, CallsAreRouted, IdsAreFresh, Known, Active
<1>4. LateCallsStop'
  BY DEF TypeOK, CallsAreRouted, LateCallsStop, Active
<1>5. ChecksHold'
  BY DEF TypeOK, CallsAreRouted, IdsAreFresh, ChecksHold, Known, Active
<1>6. WritersAreDone'
  BY DEF TypeOK, CallsAreRouted, WritersAreDone, Active
<1>7. NoResurrection'
  BY DEF TypeOK, CallsAreRouted, IdsAreFresh, NoResurrection, Known, Active
<1>8. NoLostPatch'
  BY DEF TypeOK, CallsAreRouted, IdsAreFresh, WritersAreDone, NoLostPatch, Known, Active
<1> QED
  BY <1>1, <1>2, <1>3, <1>4, <1>5, <1>6, <1>7, <1>8

LEMMA InitKeeps == Init => IInv
BY DEF Init, IInv, TypeOK, CallsAreRouted, IdsAreFresh, LateCallsStop, ChecksHold,
       WritersAreDone, NoResurrection, NoLostPatch, Known

LEMMA NextKeeps ==
  ASSUME IInv, [Next]_vars
  PROVE  IInv'
<1>1. ASSUME NEW r \in Requests, Begin(r) PROVE IInv'
  <2>1. ASSUME NEW u \in Users, Start(r, u, "create", r, Fields) PROVE IInv'
    BY <2>1, StartKeeps
  <2>2. ASSUME NEW u \in Users, NEW p \in Known, Start(r, u, "delete", p, {}) PROVE IInv'
    BY <2>2, StartKeeps DEF Known, IInv, TypeOK
  <2>3. ASSUME NEW u \in Users, NEW p \in Known, NEW F \in SUBSET Fields,
               Start(r, u, "update", p, F)
        PROVE  IInv'
    BY <2>3, StartKeeps DEF Known, IInv, TypeOK
  <2> QED
    BY <1>1, <2>1, <2>2, <2>3 DEF Begin
<1>2. ASSUME NEW r \in Requests, Continue(r) PROVE IInv'
  BY <1>2, GuardKeeps, InsertKeeps, FindKeeps, UpdateKeeps, UpdateMissingKeeps, DeleteKeeps
  DEF Continue
<1>3. ASSUME NEW r \in Requests, Abort(r) PROVE IInv'
  BY <1>3, AbortKeeps
<1>4. ASSUME NEW u \in Users, Revoke(u) PROVE IInv'
  BY <1>4, RevokeKeeps
<1>5. ASSUME UNCHANGED vars PROVE IInv'
  BY <1>5 DEF vars, IInv, TypeOK, CallsAreRouted, IdsAreFresh, LateCallsStop, ChecksHold,
     WritersAreDone, NoResurrection, NoLostPatch, Known
<1> QED
  BY <1>1, <1>2, <1>3, <1>4, <1>5 DEF Next

(* The inductive invariant holds in every reachable state. *)
THEOREM Invariance == Spec => []IInv
<1>1. Init => IInv
  BY InitKeeps
<1>2. IInv /\ [Next]_vars => IInv'
  BY NextKeeps
<1> QED
  BY <1>1, <1>2, PTL DEF Spec

(* A deleted product stays deleted, and an answer of 204 is final, however *)
(* many updates and deletes are between their check and their statement.   *)
THEOREM Deleted == Spec => []NoResurrection
<1>1. IInv => NoResurrection
  BY DEF IInv
<1> QED
  BY <1>1, Invariance, PTL

(* Concurrent patches never undo each other: the UPDATE writes the fields  *)
(* of its patch and no other.                                              *)
THEOREM Patches == Spec => []NoLostPatch
<1>1. IInv => NoLostPatch
  BY DEF IInv
<1> QED
  BY <1>1, Invariance, PTL

LEMMA OwnerStep ==
  ASSUME IInv, Next, NEW p \in Requests, table'[p] # table[p], table[p] # None
  PROVE  /\ \E r \in Requests :
              /\ pc[r] = "write" /\ pc'[r] # "write"
              /\ target[r] = p /\ actor[r] = table[p].owner /\ ~late[r]
         /\ table'[p] # None => table'[p].owner = table[p].owner
<1> USE DEF IInv
<1>1. ASSUME NEW r \in Requests, Insert(r) PROVE FALSE
  <2>1. p = r
    BY <1>1 DEF Insert, TypeOK
  <2>2. pc[r] = "insert"
    BY <1>1 DEF Insert, Committed, Step
  <2> QED
    BY <2>1, <2>2 DEF IdsAreFresh, Known
<1>2. ASSUME NEW r \in Requests, Update(r) \/ Delete(r)
      PROVE  /\ pc[r] = "write" /\ pc'[r] # "write"
             /\ target[r] = p /\ actor[r] = table[p].owner /\ ~late[r]
  <2>1. pc[r] = "write" /\ pc'[r] # "write"
    BY <1>2 DEF Update, Delete, Committed, Step, TypeOK
  <2>2. target[r] = p
    BY <1>2 DEF Update, Delete, SetFields, TypeOK
  <2> QED
    BY <2>1, <2>2 DEF ChecksHold, LateCallsStop
<1>3. ASSUME NEW r \in Requests, Update(r), target[r] = p
      PROVE  table'[p].owner = table[p].owner
  BY <1>3 DEF Update, SetFields, TypeOK, Row
<1>4. ASSUME NEW r \in Requests, Delete(r), target[r] = p
      PROVE  table'[p] = None
  BY <1>4 DEF Delete, TypeOK
<1>5. \E r \in Requests : Insert(r) \/ Update(r) \/ Delete(r)
  BY DEF Next, Begin, Continue, Start, GuardCheck, Find, UpdateMissing, Abort, Revoke
<1> QED
  BY <1>1, <1>2, <1>3, <1>4, <1>5

(* A row is changed or deleted only for its owner, by a call that came     *)
(* while the owner's session was alive, although the check is long past    *)
(* when the statement runs: nobody else can have taken the row over.       *)
THEOREM Ownership == Spec => OnlyOwnerChanges
<1> DEFINE Own == \A p \in Requests : table'[p] # table[p] /\ table[p] # None =>
       /\ \E r \in Requests :
            /\ pc[r] = "write" /\ pc'[r] # "write"
            /\ target[r] = p /\ actor[r] = table[p].owner /\ ~late[r]
       /\ table'[p] # None => table'[p].owner = table[p].owner
<1>1. IInv /\ [Next]_vars => [Own]_vars
  BY OwnerStep
<1>2. Spec => [][Own]_vars
  BY <1>1, Invariance, PTL DEF Spec
<1> QED
  BY <1>2 DEF OnlyOwnerChanges

(* Every step of a request is one statement of ProductTable, or none. *)
LEMMA TableStep ==
  ASSUME IInv, [Next]_vars
  PROVE  Table!Next \/ UNCHANGED <<table, removed>>
<1> USE DEF IInv, Table!Next, Table!Write, Step
<1>1. ASSUME NEW r \in Requests, Insert(r)
      PROVE  Table!Next
  <2> DEFINE row == [owner |-> actor[r], by |-> [f \in Fields |-> r]]
  <2>1. actor[r] \in Users /\ pc[r] = "insert"
    BY <1>1 DEF Insert, Committed, CallsAreRouted
  <2>2. row \in Row
    BY <2>1 DEF Row
  <2>3. r \notin Known
    BY <2>1 DEF IdsAreFresh
  <2> HIDE DEF row
  <2>4. table' = [table EXCEPT ![r] = row] /\ removed' = removed
    BY <1>1 DEF Insert, row
  <2>5. Table!Insert(r, row)
    BY <2>3, <2>4 DEF Table!Insert, Known
  <2> QED
    BY <2>2, <2>5
<1>2. ASSUME NEW r \in Requests, Update(r)
      PROVE  Table!Next
  <2> DEFINE p == target[r]
             by == [f \in Fields |-> IF f \in patch[r] THEN r ELSE table[p].by[f]]
             row == [table[p] EXCEPT !.by = by]
  <2>1. p \in Requests /\ table[p] \in Row
    BY <1>2 DEF Update, CallsAreRouted, TypeOK, Committed, Active
  <2>2. by \in [Fields -> Requests]
    BY <2>1 DEF Row
  <2> HIDE DEF by, p
  <2>3. row \in Row /\ row.owner = table[p].owner
    BY <2>1, <2>2 DEF Row
  <2>4. table' = [table EXCEPT ![p].by = by] /\ removed' = removed /\ table[p] # None
    BY <1>2 DEF Update, SetFields, p, by
  <2>5. table' = [table EXCEPT ![p] = row]
    BY <2>1, <2>4 DEF TypeOK
  <2> HIDE DEF row
  <2>6. Table!Change(p, row)
    BY <2>3, <2>4, <2>5 DEF Table!Change
  <2> QED
    BY <2>1, <2>3, <2>6
<1>3. ASSUME NEW r \in Requests, Delete(r)
      PROVE  Table!Next \/ UNCHANGED <<table, removed>>
  <2>1. target[r] \in Known /\ target[r] \in Requests
    BY <1>3 DEF Delete, CallsAreRouted, Committed
  <2>2. CASE table[target[r]] # None
    BY <1>3, <2>1, <2>2 DEF Delete, Table!Remove
  <2>3. CASE table[target[r]] = None
    BY <1>3, <2>1, <2>3 DEF Delete, Known, TypeOK
  <2> QED
    BY <2>2, <2>3
<1>4. CASE UNCHANGED vars
  BY <1>4 DEF vars
<1>5. ASSUME Next, ~\E r \in Requests : Insert(r) \/ Update(r) \/ Delete(r)
      PROVE  UNCHANGED <<table, removed>>
  BY <1>5 DEF Next, Begin, Continue, Start, GuardCheck, Find, UpdateMissing, Abort, Revoke
<1> QED
  BY <1>1, <1>2, <1>3, <1>4, <1>5

(* The requests implement the table that ProductLists reads: the checks    *)
(* and awaits around a statement do not show.                              *)
THEOREM Implements == Spec => ImplementsTable
<1>1. Init => Table!Init
  BY DEF Init, Table!Init
<1>2. IInv /\ [Next]_vars => [Table!Next]_<<table, removed>>
  BY TableStep
<1> QED
  BY <1>1, <1>2, Invariance, PTL DEF Spec, ImplementsTable, Table!Spec
=============================================================================
