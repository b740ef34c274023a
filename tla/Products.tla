------------------------------ MODULE Products ------------------------------
(***************************************************************************)
(* Writing products: POST, PATCH and DELETE /products behind jwtAuth,      *)
(* ProductService with its ownership check, and the statements of          *)
(* ProductDrizzleRepository.  The guard's lookup, the SELECT of the check  *)
(* and the statement that writes are separate awaits, so the product may   *)
(* change or go, and the session may end, between any two of them.         *)
(***************************************************************************)
EXTENDS Integers

CONSTANTS Users,     \* accounts; one session each
          Requests,  \* HTTP calls; a create also names the id of its product
          Fields,    \* name, description, price
          None       \* no user, no product

VARIABLES
  pc,        \* pc[r]: the await request r is at, or its answer
  op,        \* op[r]: which handler it runs
  actor,     \* actor[r]: claims.sub of its access token
  target,    \* target[r]: the product id in its path
  patch,     \* patch[r]: the fields that its body names
  existing,  \* existing[r]: the row that the service's SELECT returned
  table,     \* table[p]: the row of product p, or None
  sessions,  \* users whose access token is whitelisted
  late,      \* late[r]: history, the token was revoked before the call came
  removed,   \* history: the products that a statement has deleted
  undone     \* undone[p]: history, <<f, q>> when q's value of f was overwritten

vars == <<pc, op, actor, target, patch, existing, table, sessions, late, removed, undone>>
call == <<op, actor, target, patch, late>>
store == <<table, removed, undone>>

(* A row: its owner, and which request wrote each of its fields. *)
Row == [owner : Users, by : [Fields -> Requests]]

ASSUME NoneAssumption == None \notin Users /\ None \notin Requests /\ None \notin Row

Active == {"guard", "insert", "find", "write"}
Answers == {"201", "200", "204", "TOKEN_REVOKED", "PRODUCT_NOT_FOUND",
            "PRODUCT_FORBIDDEN", "INTERNAL"}

Init ==
  /\ pc = [r \in Requests |-> "new"]
  /\ op = [r \in Requests |-> "none"]
  /\ actor = [r \in Requests |-> None]
  /\ target = [r \in Requests |-> None]
  /\ patch = [r \in Requests |-> {}]
  /\ existing = [r \in Requests |-> None]
  /\ table = [p \in Requests |-> None]
  /\ sessions = Users
  /\ late = [r \in Requests |-> FALSE]
  /\ removed = {}
  /\ undone = [p \in Requests |-> {}]

Table == INSTANCE ProductTable WITH Ids <- Requests, Rows <- Row, gone <- removed

(* Ids that a client can know: those of rows that were inserted. *)
Known == {p \in Requests : table[p] # None} \union removed

Step(r, from, to) ==
  /\ pc[r] = from
  /\ pc' = [pc EXCEPT ![r] = to]

-----------------------------------------------------------------------------
(* The call comes, with an access token of u that verifies. *)
Start(r, u, o, p, F) ==
  /\ Step(r, "new", "guard")
  /\ op' = [op EXCEPT ![r] = o]
  /\ actor' = [actor EXCEPT ![r] = u]
  /\ target' = [target EXCEPT ![r] = p]
  /\ patch' = [patch EXCEPT ![r] = F]
  /\ late' = [late EXCEPT ![r] = u \notin sessions]
  /\ UNCHANGED <<existing, store, sessions>>

(* Mutant of GuardCheck: the key is not looked up. *)
GuardSkipped(r) ==
  /\ Step(r, "guard", IF op[r] = "create" THEN "insert" ELSE "find")
  /\ UNCHANGED <<call, existing, store, sessions>>

(* GET jwt:wl:<sub>:<jti> *)
GuardCheck(r) ==
  /\ Step(r, "guard", IF actor[r] \notin sessions THEN "TOKEN_REVOKED"
                      ELSE IF op[r] = "create" THEN "insert" ELSE "find")
  /\ UNCHANGED <<call, existing, store, sessions>>

(* A statement that took effect, and the answer, or the loss of its reply. *)
Committed(r, from, answer) == \E to \in {answer, "INTERNAL"} : Step(r, from, to)

(* Every field of the new row is the request's own. *)
Insert(r) ==
  /\ Committed(r, "insert", "201")
  /\ table' = [table EXCEPT ![r] = [owner |-> actor[r], by |-> [f \in Fields |-> r]]]
  /\ UNCHANGED <<call, existing, sessions, removed, undone>>

(* Mutant of Find: the owner is not compared. *)
FindAnybodys(r) ==
  /\ Step(r, "find", IF table[target[r]] = None THEN "PRODUCT_NOT_FOUND" ELSE "write")
  /\ existing' = [existing EXCEPT ![r] = table[target[r]]]
  /\ UNCHANGED <<call, store, sessions>>

(* findById and the two early returns that follow it. *)
Find(r) ==
  /\ Step(r, "find", IF table[target[r]] = None THEN "PRODUCT_NOT_FOUND"
                     ELSE IF table[target[r]].owner # actor[r] THEN "PRODUCT_FORBIDDEN"
                     ELSE "write")
  /\ existing' = [existing EXCEPT ![r] = table[target[r]]]
  /\ UNCHANGED <<call, store, sessions>>

(* UPDATE products SET ...: the fields of p are now those of "by". *)
SetFields(p, by) ==
  /\ table' = [table EXCEPT ![p].by = by]
  /\ undone' = [undone EXCEPT ![p] = @ \union
       {<<f, table[p].by[f]>> : f \in {g \in Fields : by[g] # table[p].by[g]}}]
  /\ UNCHANGED removed

(* Mutant of Update: the row that was read is written back with the patch. *)
UpdateWhole(r) ==
  /\ pc[r] = "write" /\ op[r] = "update" /\ table[target[r]] # None
  /\ Committed(r, "write", "200")
  /\ SetFields(target[r], [f \in Fields |-> IF f \in patch[r] THEN r ELSE existing[r].by[f]])
  /\ UNCHANGED <<call, existing, sessions>>

(* The statement names the patched fields, and leaves the others as it     *)
(* finds them.                                                             *)
Update(r) ==
  /\ pc[r] = "write" /\ op[r] = "update" /\ table[target[r]] # None
  /\ Committed(r, "write", "200")
  /\ SetFields(target[r],
       [f \in Fields |-> IF f \in patch[r] THEN r ELSE table[target[r]].by[f]])
  /\ UNCHANGED <<call, existing, sessions>>

(* Mutant of UpdateMissing: an upsert. *)
Upsert(r) ==
  /\ pc[r] = "write" /\ op[r] = "update" /\ table[target[r]] = None
  /\ Committed(r, "write", "200")
  /\ table' = [table EXCEPT ![target[r]] = existing[r]]
  /\ UNCHANGED <<call, existing, sessions, removed, undone>>

(* The row went after the check: RETURNING is empty, and update throws. *)
UpdateMissing(r) ==
  /\ pc[r] = "write" /\ op[r] = "update" /\ table[target[r]] = None
  /\ Step(r, "write", "INTERNAL")
  /\ UNCHANGED <<call, existing, store, sessions>>

(* The statement does not say whether there was a row to delete. *)
Delete(r) ==
  /\ op[r] = "delete"
  /\ Committed(r, "write", "204")
  /\ table' = [table EXCEPT ![target[r]] = None]
  /\ removed' = removed \union {target[r]}
  /\ UNCHANGED <<call, existing, sessions, undone>>

(* A failing database or Redis, or the end of the Lambda's ten seconds. *)
Abort(r) ==
  /\ pc[r] \in Active
  /\ pc' = [pc EXCEPT ![r] = "INTERNAL"]
  /\ UNCHANGED <<call, existing, store, sessions>>

(* auth-api deletes the key: a logout or a mass revoke. *)
Revoke(u) ==
  /\ u \in sessions
  /\ sessions' = sessions \ {u}
  /\ UNCHANGED <<pc, call, existing, store>>

Begin(r) ==
  \E u \in Users :
    \/ Start(r, u, "create", r, Fields)
    \/ \E p \in Known : Start(r, u, "delete", p, {})
    \/ \E p \in Known : \E F \in SUBSET Fields : Start(r, u, "update", p, F)

Continue(r) ==
  GuardCheck(r) \/ Insert(r) \/ Find(r) \/ Update(r) \/ UpdateMissing(r) \/ Delete(r)

Next ==
  \/ \E r \in Requests : Begin(r) \/ Continue(r) \/ Abort(r)
  \/ \E u \in Users : Revoke(u)

Spec == Init /\ [][Next]_vars

-----------------------------------------------------------------------------
(* Types *)
TypeOK ==
  /\ pc \in [Requests -> {"new"} \union Active \union Answers]
  /\ op \in [Requests -> {"none", "create", "update", "delete"}]
  /\ actor \in [Requests -> Users \union {None}]
  /\ target \in [Requests -> Requests \union {None}]
  /\ patch \in [Requests -> SUBSET Fields]
  /\ existing \in [Requests -> Row \union {None}]
  /\ table \in [Requests -> Row \union {None}]
  /\ sessions \subseteq Users
  /\ late \in [Requests -> BOOLEAN]
  /\ removed \subseteq Requests
  /\ undone \in [Requests -> SUBSET (Fields \X Requests)]

(* However long ago its check was, a statement changes or deletes a row    *)
(* only for the row's owner, whose session was alive when the call came,   *)
(* and never gives a row another owner.                                    *)
OnlyOwnerChanges ==
  [][\A p \in Requests : table'[p] # table[p] /\ table[p] # None =>
       /\ \E r \in Requests :
            /\ pc[r] = "write" /\ pc'[r] # "write"
            /\ target[r] = p /\ actor[r] = table[p].owner /\ ~late[r]
       /\ table'[p] # None => table'[p].owner = table[p].owner]_vars

(* A product that was deleted stays deleted, whatever update had already   *)
(* passed its check; 204 is final.                                         *)
NoResurrection ==
  /\ \A p \in removed : table[p] = None
  /\ \A r \in Requests : pc[r] = "204" => target[r] \in removed

(* Concurrent patches do not undo each other: a patch that was answered    *)
(* 200 is in the row until another patch of the same field replaces it,    *)
(* and a value that was replaced never comes back.                         *)
NoLostPatch ==
  \A p \in Requests : table[p] # None => \A f \in Fields :
    /\ <<f, table[p].by[f]>> \notin undone[p]
    /\ \A r \in Requests :
         pc[r] = "200" /\ target[r] = p /\ f \in patch[r] =>
           table[p].by[f] = r \/ <<f, r>> \in undone[p]

(* Whoever reads the table sees what ProductTable promises, and nothing of *)
(* the checks and awaits between the statements.                           *)
ImplementsTable == Table!Spec

-----------------------------------------------------------------------------
(* The inductive invariant behind the safety properties.                   *)

(* Which handler is at which await, and for whom. *)
CallsAreRouted ==
  \A r \in Requests :
    /\ pc[r] # "new" => op[r] # "none" /\ actor[r] \in Users /\ target[r] \in Requests
    /\ pc[r] # "new" /\ op[r] # "create" => target[r] \in Known
    /\ pc[r] = "insert" => op[r] = "create"
    /\ pc[r] \in {"find", "write", "200", "204"} => op[r] \in {"update", "delete"}

(* An id belongs to the one request that inserted it; it is not reused. *)
IdsAreFresh ==
  \A p \in Known : op[p] = "create" /\ pc[p] \in {"201", "INTERNAL"}

(* A token revoked before the call came does not get past the guard. *)
LateCallsStop ==
  \A r \in Requests : late[r] =>
    actor[r] \notin sessions /\ pc[r] \in {"guard", "TOKEN_REVOKED", "INTERNAL"}

(* What the ownership check found still holds at the statement. *)
ChecksHold ==
  \A r \in Requests : pc[r] = "write" =>
    /\ existing[r] # None /\ existing[r].owner = actor[r]
    /\ table[target[r]] # None => table[target[r]].owner = actor[r]

(* Values come from requests whose statement is done. *)
WritersAreDone ==
  \A p, w \in Requests : \A f \in Fields :
    <<f, w>> \in undone[p] \/ (table[p] # None /\ table[p].by[f] = w) =>
      pc[w] \in {"201", "200", "INTERNAL"}

IInv ==
  /\ TypeOK
  /\ CallsAreRouted
  /\ IdsAreFresh
  /\ LateCallsStop
  /\ ChecksHold
  /\ WritersAreDone
  /\ NoResurrection
  /\ NoLostPatch
=============================================================================
