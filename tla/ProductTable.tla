---------------------------- MODULE ProductTable ----------------------------
(***************************************************************************)
(* What the requests on products promise to whoever reads them: the table  *)
(* changes by one statement at a time; a row is inserted once, keeps its   *)
(* owner, and once deleted does not come back.                             *)
(***************************************************************************)
CONSTANTS Ids,   \* product ids
          Rows,  \* records with an owner
          None   \* no row

VARIABLES table,  \* table[p]: the row of product p, or None
          gone    \* history: products that were deleted

Init == table = [p \in Ids |-> None] /\ gone = {}

Insert(p, row) ==
  /\ table[p] = None /\ p \notin gone
  /\ table' = [table EXCEPT ![p] = row]
  /\ UNCHANGED gone

Change(p, row) ==
  /\ table[p] # None /\ row.owner = table[p].owner
  /\ table' = [table EXCEPT ![p] = row]
  /\ UNCHANGED gone

Remove(p) ==
  /\ table[p] # None
  /\ table' = [table EXCEPT ![p] = None]
  /\ gone' = gone \union {p}

Write(p) == Remove(p) \/ \E row \in Rows : Insert(p, row) \/ Change(p, row)

Next == \E p \in Ids : Write(p)

Spec == Init /\ [][Next]_<<table, gone>>
=============================================================================
