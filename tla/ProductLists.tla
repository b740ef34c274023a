---------------------------- MODULE ProductLists ----------------------------
(***************************************************************************)
(* Reading products while they are written.  A client of the API walks     *)
(* through GET /products page by page; the products page of the web client *)
(* keeps the first page in a query (TanStack Query), and fetches it again  *)
(* when a product was created or deleted there.  Everybody else writes at  *)
(* any moment, as ProductTable allows.                                     *)
(***************************************************************************)
EXTENDS Integers, Sequences, FiniteSetsExt

CONSTANTS Ids,        \* product ids, in the order of the index
          Rows,       \* rows: an owner, and a price in cents
          Me,         \* the user of the web page
          Prices,     \* what is typed as a price there
          MaxCents,   \* the largest price_cents, 2147483647
          WalkLimit,  \* the page size of the walk
          ListLimit,  \* the page size of the web page, 50
          None        \* no row, no page, no price

ASSUME IdsAssumption == Ids \subseteq Nat \ {0}
ASSUME LimitsAssumption == {WalkLimit, ListLimit} \subseteq Nat \ {0}

VARIABLES
  reader,   \* who reads in this behaviour: they share nothing but the table
  table,    \* table[p]: the row of product p, or None
  gone,     \* history: products that were deleted
  walk,     \* the walk: the cursor it is at, how often it has shown what
  steady,   \* history: products there ever since the walk began
  list,     \* the query: the page it has, and the fetch under way
  create,   \* the mutation of the form
  remove,   \* the mutation of the delete buttons
  typed,    \* typed[p]: history, the price that p was created with here
  created,  \* history: products whose creation the page was told of
  deleted   \* history: products whose deletion it was told of

rows == <<table, gone>>
reads == <<walk, steady>>
history == <<typed, created, deleted>>
vars == <<reader, rows, reads, list, create, remove, history>>

Table == INSTANCE ProductTable

-----------------------------------------------------------------------------
(* Prices: whole dollars, and none to two digits behind the point. *)

Digit(d, i) == IF i <= Len(d.frac) THEN d.frac[i] ELSE 0

(* Mutant of decimalToCents: the fraction is not padded. *)
decimalToCentsUnpadded(d) ==
  d.whole * 100 + (IF Len(d.frac) = 1 THEN d.frac[1] ELSE Digit(d, 1) * 10 + Digit(d, 2))

decimalToCents(d) == d.whole * 100 + Digit(d, 1) * 10 + Digit(d, 2)

centsToDecimal(c) == [whole |-> c \div 100, frac |-> <<(c % 100) \div 10, c % 10>>]

(* 1.5 is 1.50. *)
SameAmount(d, e) == d.whole = e.whole /\ \A i \in 1 .. 2 : Digit(d, i) = Digit(e, i)

(* What the form inserts, all rows there can be, and all pages of them.    *)
MyRow(d) == [owner |-> Me, cents |-> decimalToCents(d)]
Values == Rows \union {MyRow(d) : d \in Prices}
Pages == UNION {[S -> Values] : S \in SUBSET Ids}

ASSUME PricesAssumption ==
  \A d \in Prices : d.whole \in Nat /\ d.frac \in Seq(0 .. 9) /\ Len(d.frac) <= 2
ASSUME NoneAssumption == None \notin Values \union Pages

-----------------------------------------------------------------------------
Present == {p \in Ids : table[p] # None}

(* The first rows of a set, in the order of their ids. *)
First(S, limit) == {p \in S : Cardinality({q \in S : q < p}) < limit}

(* Mutant of Page: the cursor is the id of the row that was one too many.  *)
PageFromExtra(cursor, limit) ==
  LET after == {p \in Present : p > cursor}
      items == First(after, limit)
  IN  [items |-> items, next |-> IF items = after THEN 0 ELSE Min(after \ items)]

(* One SELECT of limit + 1 rows behind the cursor; 0 is none. *)
Page(cursor, limit) ==
  LET after == {p \in Present : p > cursor}
      items == First(after, limit)
  IN  [items |-> items, next |-> IF items = after THEN 0 ELSE Max(items)]

NoFetch == [st |-> "none", got |-> None, retried |-> FALSE]
NoMutation == [st |-> "idle", id |-> 0, price |-> None]

Init ==
  /\ reader \in {"walk", "page"}
  /\ Table!Init
  /\ walk = [st |-> "off", cursor |-> 0, shown |-> [p \in Ids |-> 0]]
  /\ steady = {}
  /\ list = [st |-> "pending", data |-> None, fetch |-> NoFetch]
  /\ create = NoMutation /\ remove = NoMutation
  /\ typed = [p \in Ids |-> None]
  /\ created = {} /\ deleted = {}

(* A statement on product p; the price typed here, if it was, is no more.  *)
Written(p, price) ==
  /\ steady' = {q \in steady : table'[q] # None}
  /\ typed' = [typed EXCEPT ![p] = price]
  /\ UNCHANGED walk

(* Any other client. *)
Others ==
  /\ \E p \in Ids : Table!Write(p) /\ Written(p, None)
  /\ UNCHANGED <<list, create, remove, created, deleted>>

-----------------------------------------------------------------------------
(* The walk: from the first page on, as long as there is a next cursor.    *)

BeginWalk ==
  /\ walk.st = "off"
  /\ walk' = [walk EXCEPT !.st = "on"]
  /\ steady' = Present
  /\ UNCHANGED <<rows, list, create, remove, history>>

NextPage ==
  /\ walk.st = "on"
  /\ LET page == Page(walk.cursor, WalkLimit)
     IN  walk' = [st |-> IF page.next = 0 THEN "done" ELSE "on",
                  cursor |-> page.next,
                  shown |-> [p \in Ids |-> IF p \in page.items THEN walk.shown[p] + 1
                                                              ELSE walk.shown[p]]]
  /\ UNCHANGED <<rows, steady, list, create, remove, history>>

-----------------------------------------------------------------------------
(* The query of the web page. *)

Sent == [st |-> "sent", got |-> None, retried |-> FALSE]

(* The page is opened, the first time or again. *)
Mount ==
  /\ list.fetch.st = "none"
  /\ list' = [list EXCEPT !.fetch = Sent]
  /\ UNCHANGED <<rows, reads, create, remove, history>>

ServeList ==
  /\ list.fetch.st = "sent"
  /\ LET items == Page(0, ListLimit).items
     IN  list' = [list EXCEPT !.fetch.st = "read",
                              !.fetch.got = [p \in items |-> table[p]]]
  /\ UNCHANGED <<rows, reads, create, remove, history>>

(* A mutation waits for the fetch that its success has asked for. *)
Settle ==
  /\ create' = IF create.st = "settling" THEN NoMutation ELSE create
  /\ remove' = IF remove.st = "settling" THEN NoMutation ELSE remove

ReceiveList ==
  /\ list.fetch.st = "read"
  /\ list' = [st |-> "success", data |-> list.fetch.got, fetch |-> NoFetch]
  /\ Settle
  /\ UNCHANGED <<rows, reads, history>>

(* retry: 1, then the error is shown in place of the page. *)
LoseList ==
  /\ list.fetch.st # "none"
  /\ IF list.fetch.retried
     THEN list' = [list EXCEPT !.st = "error", !.fetch = NoFetch] /\ Settle
     ELSE /\ list' = [list EXCEPT !.fetch = [Sent EXCEPT !.retried = TRUE]]
          /\ UNCHANGED <<create, remove>>
  /\ UNCHANGED <<rows, reads, history>>

(* The first fetch of all goes on when the query is invalidated. *)
FirstLoad == list.data = None /\ list.fetch.st # "none"

(* Mutant of Invalidate: a fetch that is under way will do. *)
InvalidateJoins ==
  list' = IF list.fetch.st # "none" THEN list ELSE [list EXCEPT !.fetch = Sent]

(* invalidateQueries: any other is dropped, and a new one sent. *)
Invalidate == list' = IF FirstLoad THEN list ELSE [list EXCEPT !.fetch = Sent]

-----------------------------------------------------------------------------
(* The form: one creation at a time, until its submission has settled. *)

Submit(d) ==
  /\ create.st = "idle"
  /\ create' = [st |-> "sent", id |-> 0, price |-> d]
  /\ UNCHANGED <<rows, reads, list, remove, history>>

(* The row is inserted; its answer comes, or an error does. *)
CreateRow(p) ==
  /\ create.st = "sent"
  /\ decimalToCents(create.price) <= MaxCents
  /\ Table!Insert(p, MyRow(create.price))
  /\ Written(p, create.price)
  /\ create' \in {[create EXCEPT !.st = "answered", !.id = p], NoMutation}
  /\ UNCHANGED <<list, remove, created, deleted>>

(* A toast: a price that is too large, or another failure. *)
CreateFails ==
  /\ create.st = "sent"
  /\ create' = NoMutation
  /\ UNCHANGED <<rows, reads, list, remove, history>>

(* onSuccess. *)
Created ==
  /\ create.st = "answered"
  /\ create' = [create EXCEPT !.st = "settling"]
  /\ Invalidate
  /\ created' = IF FirstLoad THEN created ELSE created \union {create.id}
  /\ UNCHANGED <<rows, reads, remove, typed, deleted>>

(* A product of one's own that is shown has a button; the buttons are off  *)
(* while a deletion is pending.                                            *)
Click(p) ==
  /\ remove.st = "idle"
  /\ list.st = "success" /\ p \in DOMAIN list.data /\ list.data[p].owner = Me
  /\ remove' = [st |-> "sent", id |-> p, price |-> None]
  /\ UNCHANGED <<rows, reads, list, create, history>>

DeleteRow ==
  /\ remove.st = "sent"
  /\ Table!Remove(remove.id)
  /\ Written(remove.id, None)
  /\ remove' \in {[remove EXCEPT !.st = "answered"], NoMutation}
  /\ UNCHANGED <<list, create, created, deleted>>

(* Somebody else deleted it after findById: the DELETE finds no row, and   *)
(* the answer is that of a deletion all the same.                          *)
DeleteNoRow ==
  /\ remove.st = "sent" /\ remove.id \in gone
  /\ remove' = [remove EXCEPT !.st = "answered"]
  /\ UNCHANGED <<rows, reads, list, create, history>>

(* A toast, and the page stays: the product may be gone already. *)
DeleteFails ==
  /\ remove.st = "sent"
  /\ remove' = NoMutation
  /\ UNCHANGED <<rows, reads, list, create, history>>

(* Mutant of Deleted: nothing is invalidated. *)
DeletedQuietly ==
  /\ remove.st = "answered"
  /\ remove' = NoMutation
  /\ deleted' = deleted \union {remove.id}
  /\ UNCHANGED <<rows, reads, list, create, typed, created>>

Deleted ==
  /\ remove.st = "answered"
  /\ remove' = [remove EXCEPT !.st = "settling"]
  /\ Invalidate
  /\ deleted' = deleted \union {remove.id}
  /\ UNCHANGED <<rows, reads, create, typed, created>>

-----------------------------------------------------------------------------
Walk == BeginWalk \/ NextPage
Query == Mount \/ ServeList \/ ReceiveList \/ LoseList
Creating ==
  \/ \E d \in Prices : Submit(d)
  \/ \E p \in Ids : CreateRow(p)
  \/ CreateFails \/ Created
Deleting ==
  (\E p \in Ids : Click(p)) \/ DeleteRow \/ DeleteNoRow \/ DeleteFails \/ Deleted

Next ==
  /\ \/ Others
     \/ reader = "walk" /\ Walk
     \/ reader = "page" /\ (Query \/ Creating \/ Deleting)
  /\ UNCHANGED reader

Spec == Init /\ [][Next]_vars

-----------------------------------------------------------------------------
(* A walk through the pages shows no product twice, however the table      *)
(* changes between two pages, and when it is done it has shown every       *)
(* product that was there all the time.                                    *)
WalkIsExact ==
  /\ \A p \in Ids : walk.shown[p] <= 1
  /\ walk.st = "done" => \A p \in steady : walk.shown[p] = 1

(* A page has what was created here, unless it is gone or behind the page, *)
(* and nothing that was deleted here.                                      *)
ShowsOwnWrites(shown) ==
  /\ \A p \in created \ shown :
       \/ p \notin Present
       \/ Cardinality(shown) = ListLimit /\ \A q \in shown : q < p
  /\ deleted \intersect shown = {}

(* When the web page shows a list and no fetch is under way, a product     *)
(* that was created there is in it, unless it is gone or behind the page,  *)
(* and one that was deleted there is not: no answer from before the change *)
(* replaces the list that was fetched for it.                              *)
PageShowsOwnWrites ==
  list.st = "success" /\ list.fetch.st = "none" => ShowsOwnWrites(DOMAIN list.data)

(* The price that the API shows of a product is the one that was typed,    *)
(* until somebody else changes it: what cannot be stored is refused, and   *)
(* nothing is lost in converting to cents and back.                        *)
PricesAreKept ==
  \A p \in Ids : typed[p] # None =>
    p \in Present /\ SameAmount(centsToDecimal(table[p].cents), typed[p])

-----------------------------------------------------------------------------
Fetch == [st : {"none", "sent", "read"}, got : Pages \union {None}, retried : BOOLEAN]
QueryState ==
  [st : {"pending", "success", "error"}, data : Pages \union {None}, fetch : Fetch]
Mutation ==
  [st : {"idle", "sent", "answered", "settling"}, id : Ids \union {0},
   price : Prices \union {None}]

(* The types of the table, of who reads it, and of what the page keeps.    *)
TypeOK ==
  /\ reader \in {"walk", "page"}
  /\ table \in [Ids -> Values \union {None}] /\ gone \in SUBSET Ids
  /\ walk \in [st : {"off", "on", "done"}, cursor : Ids \union {0}, shown : [Ids -> Nat]]
  /\ steady \in SUBSET Ids
  /\ list \in QueryState
  /\ create \in Mutation /\ remove \in Mutation
  /\ typed \in [Ids -> Prices \union {None}]
  /\ created \in SUBSET Ids /\ deleted \in SUBSET Ids

(* Before the cursor everything steady was shown, and behind it nothing.   *)
WalkSoFar ==
  /\ steady \subseteq Present
  /\ walk.st = "off" => walk.cursor = 0
  /\ walk.st # "done" => \A p \in Ids :
       /\ p > walk.cursor => walk.shown[p] = 0
       /\ p <= walk.cursor /\ p \in steady => walk.shown[p] = 1

(* A product is there, or gone for good, when the page is told of it.      *)
ToldTruly ==
  /\ Present \intersect gone = {}
  /\ created \subseteq Present \union gone
  /\ deleted \subseteq gone
  /\ create.st = "answered" => create.id \in Present \union gone
  /\ remove.st = "answered" => remove.id \in gone

(* A button is on a page that was fetched, so deleting is never FirstLoad; *)
(* and what is read for the page is from after the last change of its own. *)
FetchedSince ==
  /\ list.st = "success" => list.data # None
  /\ remove.st # "idle" => list.data # None /\ remove.id \in Ids
  /\ list.fetch.st = "read" => list.fetch.got # None /\ ShowsOwnWrites(DOMAIN list.fetch.got)

PriceIsTyped == create.st = "sent" => create.price \in Prices

(* Strong enough to be kept by every step. *)
IInv ==
  /\ TypeOK
  /\ WalkSoFar
  /\ ToldTruly
  /\ FetchedSince
  /\ PriceIsTyped
  /\ WalkIsExact
  /\ PageShowsOwnWrites
  /\ PricesAreKept
=============================================================================
