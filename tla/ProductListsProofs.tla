------------------------- MODULE ProductListsProofs -------------------------
(***************************************************************************)
(* Proofs about ProductLists, for any products, rows, prices and limits.   *)
(***************************************************************************)
EXTENDS ProductLists, FiniteSetTheorems, WellFoundedInduction, TLAPS

USE IdsAssumption, LimitsAssumption

(* Of some numbers one is the least. *)
LEMMA Least ==
  ASSUME NEW S, S \subseteq Nat, S # {}
  PROVE  \E x \in S : \A y \in S : x <= y
<1>1. PICK x \in S : \A y \in S : <<y, x>> \notin OpToRel(<, Nat)
  BY NatLessThanWellFounded, WFMin, Zenon
<1>2. \A y \in S : ~ (y < x)
  BY <1>1 DEF OpToRel
<1> QED
  BY <1>2

(* The greatest number of a set is in it, if the set has a bound.          *)
LEMMA MaxIsGreatest ==
  ASSUME NEW S, S \subseteq Nat, S # {}, NEW n \in Nat, \A x \in S : x <= n
  PROVE  Max(S) \in S /\ \A x \in S : x <= Max(S)
<1> DEFINE B == {b \in Nat : \A x \in S : x <= b}
<1>1. PICK m \in B : \A b \in B : m <= b
  <2>1. B \subseteq Nat /\ n \in B
    OBVIOUS
  <2> HIDE DEF B
  <2> QED
    BY <2>1, Least
<1>2. m \in S
  <2>1. SUFFICES ASSUME m \notin S PROVE FALSE
    OBVIOUS
  <2>2. m \in Nat /\ \A x \in S : x \in Nat /\ x < m
    <3>1. m \in Nat /\ \A x \in S : x \in Nat /\ x <= m /\ x # m
      BY <1>1, <2>1
    <3> HIDE DEF B
    <3> QED
      BY <3>1
  <2>3. m - 1 \in Nat /\ \A x \in S : x <= m - 1
    <3>1. PICK y \in S : TRUE
      OBVIOUS
    <3>2. y \in Nat /\ y < m
      BY <2>2
    <3>3. m - 1 \in Nat
      BY <2>2, <3>2
    <3>4. ASSUME NEW x \in S PROVE x <= m - 1
      BY <2>2, <3>4
    <3> QED
      BY <3>3, <3>4
  <2>4. m - 1 \in B
    BY <2>3
  <2> QED
    BY <1>1, <2>2, <2>4
<1>3. \E x \in S : \A y \in S : x >= y
  BY <1>1, <1>2
<1>4. Max(S) \in S /\ \A y \in S : Max(S) >= y
  <2> HIDE DEF B
  <2> QED
    BY <1>3 DEF Max
<1> QED
  BY <1>4

-----------------------------------------------------------------------------
(* Of a set of products, those before p are finitely many.                 *)
LEMMA Before ==
  ASSUME NEW S, S \subseteq Nat, NEW p \in Nat
  PROVE  /\ IsFiniteSet({q \in S : q < p})
         /\ Cardinality({q \in S : q < p}) \in Nat
<1>1. \A q \in {q \in S : q < p} : q <= p
  OBVIOUS
<1>2. {q \in S : q < p} \in SUBSET Nat
  OBVIOUS
<1>3. IsFiniteSet({q \in S : q < p})
  BY <1>1, <1>2, FS_BoundedSetOfNaturals
<1> QED
  BY <1>3, FS_CardinalityType

(* Whatever comes before one of the first rows is one of them.             *)
LEMMA FirstIsInitial ==
  ASSUME NEW S, S \subseteq Nat, NEW l \in Nat, NEW p \in First(S, l), NEW q \in S, q < p
  PROVE  q \in First(S, l)
<1> DEFINE Q == {r \in S : r < q}
           P == {r \in S : r < p}
<1>1. p \in S /\ p \in Nat /\ q \in Nat /\ Cardinality(P) < l
  BY DEF First
<1>2. IsFiniteSet(P) /\ Cardinality(P) \in Nat /\ Cardinality(Q) \in Nat
  BY <1>1, Before
<1>3. Q \in SUBSET P
  <2>1. ASSUME NEW r \in Q PROVE r \in P
    <3>1. r \in S /\ r \in Nat /\ r < q
      BY <2>1
    <3> QED
      BY <1>1, <3>1
  <2> QED
    BY <2>1
<1> HIDE DEF P, Q
<1>4. Cardinality(Q) <= Cardinality(P)
  BY <1>2, <1>3, FS_Subset
<1>5. Cardinality(Q) < l
  BY <1>1, <1>2, <1>4
<1> QED
  BY <1>5 DEF First, Q

(* There is a first row where there is a row.                              *)
LEMMA FirstIsThere ==
  ASSUME NEW S, S \subseteq Nat, S # {}, NEW l \in Nat \ {0}
  PROVE  First(S, l) # {}
<1>1. PICK x \in S : \A y \in S : x <= y
  BY Least
<1>2. {q \in S : q < x} = {}
  <2>1. ASSUME NEW q \in S, q < x PROVE FALSE
    <3>1. q \in Nat /\ x \in Nat /\ x <= q
      BY <1>1
    <3> QED
      BY <2>1, <3>1
  <2> QED
    BY <2>1
<1>3. Cardinality({q \in S : q < x}) < l
  BY <1>2, FS_EmptySet
<1> QED
  BY <1>3 DEF First

(* Where rows are left out, they come after the first ones, and these are  *)
(* as many as were asked for.                                              *)
LEMMA FirstIsFull ==
  ASSUME NEW S, S \subseteq Nat, NEW l \in Nat \ {0}, NEW p \in S \ First(S, l)
  PROVE  /\ \A q \in First(S, l) : q < p
         /\ Cardinality(First(S, l)) = l
<1> DEFINE F == First(S, l)
<1>0. F \subseteq S /\ F \subseteq Nat
  BY DEF First
<1>1. \A x \in S \ F : \A q \in F : q < x
  <2>1. SUFFICES ASSUME NEW x \in S \ F, NEW q \in F, ~ (q < x) PROVE FALSE
    OBVIOUS
  <2>2. x < q
    BY <1>0, <2>1
  <2> QED
    BY <2>1, <2>2, FirstIsInitial
<1>2. PICK x \in S \ F : \A y \in S \ F : x <= y
  BY Least
<1>3. F = {q \in S : q < x}
  <2>1. \A q \in F : q \in S /\ q < x
    BY <1>0, <1>1
  <2>2. ASSUME NEW q \in S, q < x, q \notin F PROVE FALSE
    <3>1. q \in Nat /\ x \in Nat /\ x <= q
      BY <1>2, <2>2
    <3> QED
      BY <2>2, <3>1
  <2> HIDE DEF F
  <2> QED
    BY <2>1, <2>2
<1>4. Cardinality(F) >= l
  <2>1. ~ (Cardinality({q \in S : q < x}) < l)
    BY <1>2 DEF First
  <2>2. Cardinality({q \in S : q < x}) \in Nat
    BY <1>2, Before
  <2> HIDE DEF F
  <2> QED
    BY <1>3, <2>1, <2>2
<1>5. IsFiniteSet(F) /\ Cardinality(F) \in Nat
  BY <1>2, <1>3, Before
<1>6. Cardinality(F) <= l
  <2>1. F # {}
    BY FirstIsThere
  <2>2. \A q \in F : q <= p
    BY <1>0, <1>1
  <2> DEFINE m == Max(F)
             M == {q \in S : q < m}
  <2>3. m \in F /\ \A q \in F : q <= m
    <3> HIDE DEF F
    <3> QED
      BY <1>0, <2>1, <2>2, MaxIsGreatest
  <2>4. Cardinality(M) < l /\ Cardinality(M) \in Nat /\ IsFiniteSet(M)
    BY <1>0, <2>3, Before DEF First
  <2>5. F = M \union {m}
    <3>1. \A q \in M : q \in F
      BY <2>3, FirstIsInitial
    <3>2. \A q \in F : q \in S /\ q \in Nat /\ q <= m /\ m \in Nat
      BY <1>0, <2>3
    <3>3. \A q \in F : q = m \/ q < m
      <4> HIDE DEF F, m
      <4> QED
        BY <3>2
    <3>4. \A q \in F : q = m \/ q \in M
      BY <3>2, <3>3
    <3> HIDE DEF F, m, M
    <3> QED
      BY <2>3, <3>1, <3>4
  <2> HIDE DEF F, m, M
  <2>6. Cardinality(F) <= Cardinality(M) + 1
    <3>1. Cardinality(M \union {m}) = IF m \in M THEN Cardinality(M) ELSE Cardinality(M) + 1
      BY <2>4, FS_AddElement
    <3> QED
      BY <2>4, <2>5, <3>1
  <2> QED
    BY <1>5, <2>4, <2>6
<1> HIDE DEF F
<1> QED
  BY <1>1, <1>4, <1>5, <1>6 DEF F

(* A page has every row from its cursor to the next one, or to the end.    *)
LEMMA PageIsGapless ==
  ASSUME TypeOK, NEW c \in Nat, NEW l \in Nat \ {0}
  PROVE  LET page == Page(c, l)
         IN  /\ page.items \subseteq {p \in Present : p > c}
             /\ page.next = 0 => \A p \in Present : p > c => p \in page.items
             /\ page.next # 0 =>
                  /\ page.next \in Ids /\ page.next > c
                  /\ \A p \in page.items : p <= page.next
                  /\ \A p \in Present : c < p /\ p <= page.next => p \in page.items
<1> DEFINE S == {p \in Present : p > c}
           F == First(S, l)
<1>1. S \subseteq Ids /\ S \subseteq Nat
  BY DEF Present
<1>2. Page(c, l) = [items |-> F, next |-> IF F = S THEN 0 ELSE Max(F)]
  BY DEF Page
<1>3. F \subseteq S
  BY DEF First
<1>4. CASE F = S
  BY <1>2, <1>4
<1>5. CASE F # S
  <2>1. PICK x \in S : x \notin F
    BY <1>3, <1>5
  <2>2. F # {} /\ \A q \in F : q <= x
    <3>1. S # {} /\ x \in S \ First(S, l)
      BY <2>1
    <3> HIDE DEF S
    <3>2. F # {} /\ \A q \in F : q < x
      BY <1>1, <3>1, FirstIsThere, FirstIsFull
    <3>3. \A q \in F : q \in Nat /\ x \in Nat
      BY <1>1, <1>3, <3>1
    <3> HIDE DEF F
    <3> QED
      BY <3>2, <3>3
  <2>3. Max(F) \in F /\ \A q \in F : q <= Max(F)
    <3>1. F \subseteq Nat /\ x \in Nat
      BY <1>1, <1>3, <2>1
    <3> HIDE DEF F
    <3> QED
      BY <2>2, <3>1, MaxIsGreatest
  <2>4. ASSUME NEW p \in S, p <= Max(F) PROVE p \in F
    <3>1. CASE p = Max(F)
      BY <2>3, <3>1
    <3>2. CASE p < Max(F)
      BY <1>1, <2>3, <3>2, FirstIsInitial
    <3> QED
      BY <1>1, <1>3, <2>3, <2>4, <3>1, <3>2
  <2>5. Max(F) \in Ids /\ Max(F) > c /\ Max(F) # 0
    BY <1>1, <1>3, <2>3
  <2> HIDE DEF F
  <2> QED
    BY <1>2, <1>3, <1>5, <2>3, <2>4, <2>5
<1> QED
  BY <1>4, <1>5

(* Nothing of a price is lost on its way to cents and back.                *)
LEMMA CentsKeepPrices ==
  ASSUME NEW d \in Prices
  PROVE  /\ decimalToCents(d) \in Nat
         /\ SameAmount(centsToDecimal(decimalToCents(d)), d)
<1> DEFINE a == Digit(d, 1)
           b == Digit(d, 2)
           c == decimalToCents(d)
<1>1. a \in 0 .. 9 /\ b \in 0 .. 9 /\ d.whole \in Nat
  BY PricesAssumption DEF Digit
<1>2. c = d.whole * 100 + a * 10 + b
  BY DEF decimalToCents
<1> HIDE DEF a, b, c
<1>3. c \in Nat /\ c \div 100 = d.whole /\ c % 100 = a * 10 + b
  BY <1>1, <1>2
<1>4. (c % 100) \div 10 = a /\ c % 10 = b
  <2>1. c % 100 = a * 10 + b /\ a \in Nat /\ b \in Nat /\ b < 10 /\ d.whole \in Nat
    BY <1>1, <1>3
  <2>2. (a * 10 + b) \div 10 = a
    BY <2>1
  <2>3. c = 10 * (d.whole * 10 + a) + b
    BY <1>2, <2>1
  <2>4. (d.whole * 10 + a) \in Nat
    BY <2>1
  <2>5. c % 10 = b
    BY <2>1, <2>3, <2>4
  <2> QED
    BY <2>1, <2>2, <2>5
<1>5. centsToDecimal(c) = [whole |-> d.whole, frac |-> <<a, b>>]
  BY <1>3, <1>4 DEF centsToDecimal
<1>6. \A i \in 1 .. 2 : Digit([whole |-> d.whole, frac |-> <<a, b>>], i) = Digit(d, i)
  BY DEF Digit, a, b
<1> QED
  BY <1>3, <1>5, <1>6 DEF SameAmount, c

-----------------------------------------------------------------------------
LEMMA InitIInv == Init => IInv
<1> SUFFICES ASSUME Init PROVE IInv
  OBVIOUS
<1> USE DEF Init, Table!Init
<1>1. Present = {}
  BY DEF Present
<1>2. TypeOK
  BY DEF TypeOK, QueryState, NoFetch, Fetch, NoMutation, Mutation
<1>3. WalkSoFar /\ ToldTruly
  BY <1>1 DEF WalkSoFar, ToldTruly, NoMutation
<1>4. FetchedSince /\ PriceIsTyped /\ WalkIsExact /\ PageShowsOwnWrites /\ PricesAreKept
  BY DEF FetchedSince, PriceIsTyped, WalkIsExact, PageShowsOwnWrites, PricesAreKept, NoFetch,
         NoMutation
<1> QED
  BY <1>2, <1>3, <1>4 DEF IInv

(* What a statement on the table does, whoever sends it.                   *)
LEMMA Writes ==
  ASSUME IInv, NEW p \in Ids, NEW price \in Prices \union {None}, Written(p, price),
         \/ Table!Remove(p) /\ price = None
         \/ \E row \in Values :
              \/ Table!Insert(p, row) /\ (price # None => row = MyRow(price))
              \/ Table!Change(p, row) /\ price = None
  PROVE  /\ table' \in [Ids -> Values \union {None}] /\ gone' \in SUBSET Ids
         /\ steady' \in SUBSET Ids /\ typed' \in [Ids -> Prices \union {None}]
         /\ Present' \intersect gone' = {} /\ gone \subseteq gone'
         /\ Present \union gone \union {p} \subseteq Present' \union gone'
         /\ (Present \union gone) \intersect Present' \subseteq Present
         /\ Table!Remove(p) => p \in gone'
         /\ WalkSoFar' /\ WalkIsExact' /\ PricesAreKept'
<1>0. /\ table \in [Ids -> Values \union {None}] /\ gone \in SUBSET Ids
      /\ steady \in SUBSET Ids /\ typed \in [Ids -> Prices \union {None}]
      /\ Present \intersect gone = {}
  BY DEF IInv, TypeOK, ToldTruly
<1>1. PICK v \in Values \union {None} :
        /\ table' = [table EXCEPT ![p] = v]
        /\ price # None => v = MyRow(price)
        /\ \/ v = None /\ table[p] # None /\ gone' = gone \union {p}
           \/ v # None /\ gone' = gone /\ p \notin gone
  <2>1. CASE Table!Remove(p) /\ price = None
    BY <2>1 DEF Table!Remove
  <2>2. ASSUME NEW row \in Values, Table!Insert(p, row), price # None => row = MyRow(price)
        PROVE  /\ table' = [table EXCEPT ![p] = row]
               /\ row # None /\ gone' = gone /\ p \notin gone
    BY <2>2, NoneAssumption DEF Table!Insert
  <2>3. ASSUME NEW row \in Values, Table!Change(p, row)
        PROVE  /\ table' = [table EXCEPT ![p] = row]
               /\ row # None /\ gone' = gone /\ p \notin gone
    BY <1>0, <2>3, NoneAssumption DEF Table!Change, Present
  <2> QED
    BY <2>1, <2>2, <2>3
<1>2. /\ table' \in [Ids -> Values \union {None}] /\ gone' \in SUBSET Ids
      /\ table'[p] = v /\ \A q \in Ids \ {p} : table'[q] = table[q]
  BY <1>0, <1>1
<1>3. \A q \in Ids \ {p} : q \in Present' <=> q \in Present
  BY <1>2 DEF Present
<1>4. p \in Present' <=> v # None
  BY <1>2 DEF Present
<1>5. /\ steady' \subseteq steady /\ steady' \subseteq Present' /\ walk' = walk
      /\ typed' = [typed EXCEPT ![p] = price]
  BY <1>0, <1>2 DEF Written, Present
<1>6. /\ Present' \intersect gone' = {} /\ gone \subseteq gone'
      /\ Present \union gone \union {p} \subseteq Present' \union gone'
      /\ (Present \union gone) \intersect Present' \subseteq Present
  <2>1. Present \subseteq Ids /\ Present' \subseteq Ids
    BY DEF Present
  <2>2. v = None => p \in Present
    BY <1>1 DEF Present
  <2>3. p \in gone => v = None
    BY <1>1
  <2> QED
    BY <1>0, <1>1, <1>3, <1>4, <2>1, <2>2, <2>3
<1>7. WalkSoFar' /\ WalkIsExact'
  BY <1>5 DEF IInv, WalkSoFar, WalkIsExact
<1>8. PricesAreKept'
  <2>1. SUFFICES ASSUME NEW q \in Ids, typed'[q] # None
                 PROVE  q \in Present' /\ SameAmount(centsToDecimal(table'[q].cents), typed'[q])
    BY DEF PricesAreKept
  <2>2. CASE q = p
    <3>1. typed'[q] = price /\ price \in Prices /\ v = MyRow(price)
      BY <1>0, <1>1, <1>5, <2>1, <2>2
    <3>2. table'[q].cents = decimalToCents(price)
      BY <1>2, <2>2, <3>1 DEF MyRow
    <3>3. MyRow(price) # None
      BY <3>1, NoneAssumption DEF Values
    <3> QED
      BY <1>4, <2>2, <3>1, <3>2, <3>3, CentsKeepPrices
  <2>3. CASE q # p
    <3>1. typed'[q] = typed[q] /\ table'[q] = table[q]
      BY <1>0, <1>2, <1>5, <2>3
    <3> QED
      BY <1>3, <2>1, <2>3, <3>1 DEF IInv, PricesAreKept
  <2> QED
    BY <2>2, <2>3
<1>9. Table!Remove(p) => p \in gone'
  BY DEF Table!Remove
<1> QED
  BY <1>0, <1>2, <1>5, <1>6, <1>7, <1>8, <1>9

(* Where the table is left alone, only what is read can change.            *)
LEMMA Rests ==
  ASSUME IInv, UNCHANGED <<rows, typed>>
  PROVE  /\ Present' = Present /\ PricesAreKept'
         /\ UNCHANGED reads => WalkSoFar' /\ WalkIsExact'
<1>1. Present' = Present /\ table' = table /\ typed' = typed
  BY DEF rows, Present
<1>2. PricesAreKept'
  BY <1>1 DEF IInv, PricesAreKept
<1>3. ASSUME UNCHANGED reads PROVE WalkSoFar' /\ WalkIsExact'
  BY <1>1, <1>3 DEF IInv, reads, WalkSoFar, WalkIsExact
<1> QED
  BY <1>1, <1>2, <1>3

-----------------------------------------------------------------------------
LEMMA WalkKeeps == ASSUME IInv, Walk, UNCHANGED reader PROVE IInv'
<1>0. /\ UNCHANGED <<rows, list, create, remove, history>>
      /\ UNCHANGED <<table, gone, typed, created, deleted>>
  BY DEF Walk, BeginWalk, NextPage, rows, history
<1>1. Present' = Present /\ PricesAreKept'
  BY <1>0, Rests
<1>2. ToldTruly' /\ FetchedSince' /\ PriceIsTyped' /\ PageShowsOwnWrites'
  BY <1>0, <1>1 DEF IInv, ToldTruly, FetchedSince, PriceIsTyped, PageShowsOwnWrites,
                    ShowsOwnWrites
<1>3. /\ walk \in [st : {"off", "on", "done"}, cursor : Ids \union {0}, shown : [Ids -> Nat]]
      /\ steady \in SUBSET Ids
  BY DEF IInv, TypeOK
<1>4. CASE BeginWalk
  <2>1. walk' = [walk EXCEPT !.st = "on"] /\ steady' = Present /\ walk.st = "off"
    BY <1>4 DEF BeginWalk
  <2>2. /\ walk' \in [st : {"off", "on", "done"}, cursor : Ids \union {0}, shown : [Ids -> Nat]]
        /\ steady' \in SUBSET Ids
    BY <1>3, <2>1 DEF Present
  <2>3. walk'.st = "on" /\ walk'.cursor = 0 /\ walk'.shown = walk.shown
    BY <1>3, <2>1 DEF IInv, WalkSoFar
  <2>4. \A p \in Ids : p > 0
    OBVIOUS
  <2>5. WalkSoFar' /\ WalkIsExact'
    BY <1>1, <2>1, <2>3, <2>4 DEF IInv, WalkSoFar, WalkIsExact
  <2> QED
    BY <1>0, <1>1, <1>2, <2>2, <2>5 DEF IInv, TypeOK
<1>5. CASE NextPage
  <2> DEFINE page == Page(walk.cursor, WalkLimit)
  <2>1. /\ walk.st = "on" /\ UNCHANGED steady
        /\ walk' = [st |-> IF page.next = 0 THEN "done" ELSE "on",
                    cursor |-> page.next,
                    shown |-> [p \in Ids |-> IF p \in page.items THEN walk.shown[p] + 1
                                                                 ELSE walk.shown[p]]]
    BY <1>5 DEF NextPage
  <2>2. /\ page.items \subseteq {p \in Present : p > walk.cursor}
        /\ page.next = 0 => \A p \in Present : p > walk.cursor => p \in page.items
        /\ page.next # 0 =>
             /\ page.next \in Ids /\ page.next > walk.cursor
             /\ \A p \in page.items : p <= page.next
             /\ \A p \in Present : walk.cursor < p /\ p <= page.next => p \in page.items
    <3>1. walk.cursor \in Ids \union {0}
      BY <1>3
    <3>2. walk.cursor \in Nat
      <4>1. \A c \in Ids \union {0} : c \in Nat
        OBVIOUS
      <4> QED
        BY <3>1, <4>1, Zenon
    <3> QED
      BY <3>2, PageIsGapless DEF IInv
  <2> HIDE DEF page
  <2>3. /\ walk' \in [st : {"off", "on", "done"}, cursor : Ids \union {0}, shown : [Ids -> Nat]]
        /\ steady' \in SUBSET Ids
    BY <1>3, <2>1, <2>2
  <2>4. /\ walk'.cursor = page.next
        /\ walk'.st = IF page.next = 0 THEN "done" ELSE "on"
        /\ \A p \in Ids : walk'.shown[p] = IF p \in page.items THEN walk.shown[p] + 1
                                                              ELSE walk.shown[p]
    BY <2>1
  <2>5. \A p \in Ids : /\ walk.shown[p] \in Nat /\ walk.shown[p] <= 1
                       /\ p > walk.cursor => walk.shown[p] = 0
                       /\ p <= walk.cursor /\ p \in steady => walk.shown[p] = 1
    BY <1>3, <2>1 DEF IInv, WalkSoFar, WalkIsExact
  <2>6. steady \subseteq Present /\ Present \subseteq Ids /\ walk.cursor \in Nat
    <3>1. walk.cursor \in Ids \union {0}
      BY <1>3
    <3>2. walk.cursor \in Nat
      <4>1. \A c \in Ids \union {0} : c \in Nat
        OBVIOUS
      <4> QED
        BY <3>1, <4>1, Zenon
    <3> QED
      BY <3>2 DEF IInv, WalkSoFar, Present
  <2>7. \A p \in Ids : walk'.shown[p] <= 1
    BY <2>2, <2>4, <2>5
  <2>8. ASSUME NEW p \in steady, page.next = 0 \/ p <= page.next PROVE walk'.shown[p] = 1
    <3>1. p \in Ids /\ p \in Present /\ p \in Nat
      BY <2>6
    <3>2. CASE p > walk.cursor
      <4>1. p \in page.items
        BY <2>2, <2>8, <3>1, <3>2
      <4> QED
        BY <2>4, <2>5, <3>1, <3>2, <4>1
    <3>3. CASE p <= walk.cursor
      <4>1. p \notin page.items
        BY <2>2, <2>6, <3>1, <3>3
      <4> QED
        BY <2>4, <2>5, <3>1, <3>3, <4>1
    <3> QED
      BY <2>6, <3>1, <3>2, <3>3
  <2>9. ASSUME NEW p \in Ids, page.next # 0, p > page.next PROVE walk'.shown[p] = 0
    <3>1. /\ p \in Nat /\ page.next \in Nat /\ walk.cursor \in Nat
          /\ p > page.next /\ page.next > walk.cursor
      BY <2>2, <2>6, <2>9
    <3>2. p > walk.cursor
      BY <3>1
    <3>3. p \notin page.items
      BY <2>2, <2>9, <3>1
    <3> QED
      BY <2>4, <2>5, <3>2, <3>3
  <2>10. WalkIsExact'
    BY <2>1, <2>4, <2>7, <2>8 DEF WalkIsExact
  <2>11. WalkSoFar'
    BY <1>1, <2>1, <2>4, <2>6, <2>8, <2>9 DEF WalkSoFar
  <2> QED
    BY <1>0, <1>1, <1>2, <2>3, <2>10, <2>11 DEF IInv, TypeOK
<1> QED
  BY <1>4, <1>5 DEF Walk

-----------------------------------------------------------------------------
(* What a page shows is judged by the table and by what the page was told. *)
LEMMA StillShows ==
  ASSUME NEW S, ShowsOwnWrites(S), UNCHANGED <<created, deleted>>,
         created \intersect Present' \subseteq Present
  PROVE  ShowsOwnWrites(S)'
BY DEF ShowsOwnWrites

(* A list that is read now shows all that was created here and is there,   *)
(* but for what comes after a full page.                                   *)
LEMMA NowShows ==
  ASSUME IInv
  PROVE  ShowsOwnWrites(Page(0, ListLimit).items)
<1> DEFINE S == {p \in Present : p > 0}
           F == First(S, ListLimit)
<1>1. S = Present /\ S \subseteq Ids /\ S \subseteq Nat
  <2>1. Present \subseteq Ids
    BY DEF Present
  <2>2. \A p \in Present : p \in Nat /\ p > 0
    BY <2>1, IdsAssumption
  <2> QED
    BY <2>1, <2>2
<1>2. Page(0, ListLimit).items = F
  BY DEF Page
<1>3. F \subseteq S
  BY DEF First
<1>4. deleted \intersect F = {}
  BY <1>1, <1>3 DEF IInv, ToldTruly
<1>5. ASSUME NEW p \in created \ F, p \in Present
      PROVE  Cardinality(F) = ListLimit /\ \A q \in F : q < p
  <2>1. p \in S \ F
    BY <1>1, <1>5
  <2> HIDE DEF S
  <2> QED
    BY <1>1, <2>1, FirstIsFull
<1> HIDE DEF F
<1> QED
  BY <1>2, <1>4, <1>5 DEF ShowsOwnWrites

LEMMA ListTypes ==
  ASSUME TypeOK
  PROVE  /\ list.st \in {"pending", "success", "error"}
         /\ list \in QueryState
         /\ list.data \in Pages \union {None} /\ list.fetch \in Fetch
         /\ list.fetch.st \in {"none", "sent", "read"}
         /\ list.fetch.got \in Pages \union {None} /\ list.fetch.retried \in BOOLEAN
         /\ Sent \in Fetch /\ NoFetch \in Fetch /\ [Sent EXCEPT !.retried = TRUE] \in Fetch
         /\ create \in Mutation /\ remove \in Mutation /\ NoMutation \in Mutation
         /\ create.st \in {"idle", "sent", "answered", "settling"}
         /\ create.id \in Ids \union {0} /\ create.price \in Prices \union {None}
         /\ remove.st \in {"idle", "sent", "answered", "settling"}
         /\ remove.id \in Ids \union {0} /\ remove.price \in Prices \union {None}
BY DEF TypeOK, QueryState, Fetch, Mutation, Sent, NoFetch, NoMutation

(* While a fetch is under way, nothing is claimed of the list.             *)
LEMMA Sends ==
  ASSUME IInv, NEW f \in {Sent, [Sent EXCEPT !.retried = TRUE]},
         list' = [list EXCEPT !.fetch = f],
         remove'.st # "idle" => list.data # None /\ remove'.id \in Ids
  PROVE  list' \in QueryState /\ FetchedSince' /\ PageShowsOwnWrites'
<1>1. list \in QueryState /\ f \in Fetch /\ f.st = "sent"
  <2>1. list \in QueryState /\ Sent \in Fetch /\ [Sent EXCEPT !.retried = TRUE] \in Fetch
    BY ListTypes DEF IInv
  <2>2. f.st = "sent"
    BY DEF Sent
  <2> QED
    BY <2>1, <2>2
<1>2. /\ list' \in QueryState
      /\ list'.st = list.st /\ list'.data = list.data /\ list'.fetch.st = "sent"
  BY <1>1 DEF QueryState
<1> QED
  BY <1>2 DEF IInv, FetchedSince, PageShowsOwnWrites

LEMMA QueryKeeps == ASSUME IInv, Query, UNCHANGED reader PROVE IInv'
<1>0. /\ UNCHANGED <<rows, reads, history>>
      /\ UNCHANGED <<table, gone, walk, steady, typed, created, deleted>>
  BY DEF Query, Mount, ServeList, ReceiveList, LoseList, rows, reads, history
<1>1. Present' = Present /\ PricesAreKept' /\ WalkSoFar' /\ WalkIsExact'
  BY <1>0, Rests
<1>2. /\ list \in QueryState /\ Sent \in Fetch /\ NoFetch \in Fetch
      /\ create \in Mutation /\ remove \in Mutation /\ NoMutation \in Mutation
      /\ list.fetch \in Fetch /\ list.fetch.got \in Pages \union {None}
  BY ListTypes DEF IInv
<1>3. ASSUME NEW S, ShowsOwnWrites(S) PROVE ShowsOwnWrites(S)'
  BY <1>0, <1>1, <1>3, StillShows
<1>4. ASSUME list' \in QueryState, create' \in {create, NoMutation},
             remove' \in {remove, NoMutation}, FetchedSince', PageShowsOwnWrites'
      PROVE  IInv'
  <2>1. TypeOK'
    BY <1>0, <1>2, <1>4 DEF IInv, TypeOK
  <2>2. ToldTruly' /\ PriceIsTyped'
    BY <1>0, <1>1, <1>4 DEF IInv, ToldTruly, PriceIsTyped, NoMutation
  <2> QED
    BY <1>1, <1>4, <2>1, <2>2 DEF IInv
<1>5. CASE Mount
  BY <1>2, <1>4, <1>5, Sends DEF Mount, IInv, FetchedSince
<1>6. CASE ServeList
  <2> DEFINE items == Page(0, ListLimit).items
             got == [p \in items |-> table[p]]
  <2>1. list' = [list EXCEPT !.fetch.st = "read", !.fetch.got = got] /\ UNCHANGED <<create, remove>>
    BY <1>6 DEF ServeList
  <2>2. items \subseteq Present
    BY DEF Page, First
  <2>3. got \in Pages /\ got # None
    <3>1. got \in [items -> Values] /\ items \in SUBSET Ids
      BY <2>2 DEF IInv, TypeOK, Present
    <3> HIDE DEF items, got
    <3> QED
      BY <3>1, NoneAssumption DEF Pages
  <2>4. DOMAIN got = items
    OBVIOUS
  <2>5. ShowsOwnWrites(items)
    BY NowShows
  <2> HIDE DEF items, got
  <2>6. /\ list' \in QueryState /\ list'.st = list.st /\ list'.data = list.data
        /\ list'.fetch.st = "read" /\ list'.fetch.got = got
    BY <1>2, <2>1, <2>3 DEF QueryState, Fetch
  <2>7. ShowsOwnWrites(DOMAIN list.fetch.got)'
    BY <1>0, <1>1, <2>4, <2>5, <2>6 DEF ShowsOwnWrites
  <2>8. FetchedSince' /\ PageShowsOwnWrites'
    BY <2>1, <2>3, <2>6, <2>7 DEF IInv, FetchedSince, PageShowsOwnWrites
  <2> QED
    BY <1>4, <2>1, <2>6, <2>8
<1>7. CASE ReceiveList
  <2>1. /\ list' = [st |-> "success", data |-> list.fetch.got, fetch |-> NoFetch]
        /\ create' \in {create, NoMutation} /\ remove' \in {remove, NoMutation}
        /\ list.fetch.st = "read"
    BY <1>7 DEF ReceiveList, Settle
  <2>2. list.fetch.got # None /\ ShowsOwnWrites(DOMAIN list.fetch.got)
    BY <2>1 DEF IInv, FetchedSince
  <2>3. list' \in QueryState /\ list'.data = list.fetch.got /\ list'.fetch.st = "none"
    BY <1>2, <2>1 DEF QueryState, NoFetch
  <2>4. ShowsOwnWrites(DOMAIN list.data)'
    <3> DEFINE S == DOMAIN list.fetch.got
    <3>1. ShowsOwnWrites(S) /\ DOMAIN list'.data = S
      BY <2>2, <2>3
    <3> QED
      BY <1>0, <1>1, <3>1 DEF ShowsOwnWrites
  <2>5. FetchedSince' /\ PageShowsOwnWrites'
    BY <2>1, <2>2, <2>3, <2>4 DEF IInv, FetchedSince, PageShowsOwnWrites, NoMutation
  <2> QED
    BY <1>4, <2>1, <2>3, <2>5
<1>8. CASE LoseList
  <2>1. CASE ~ list.fetch.retried
    <3>1. /\ list' = [list EXCEPT !.fetch = [Sent EXCEPT !.retried = TRUE]]
          /\ UNCHANGED <<create, remove>>
      BY <1>8, <2>1 DEF LoseList
    <3> QED
      BY <1>4, <1>2, <3>1, Sends DEF IInv, FetchedSince
  <2>2. CASE list.fetch.retried
    <3>1. /\ list' = [list EXCEPT !.st = "error", !.fetch = NoFetch]
          /\ create' \in {create, NoMutation} /\ remove' \in {remove, NoMutation}
      BY <1>8, <2>2 DEF LoseList, Settle
    <3>2. /\ list' \in QueryState /\ list'.st = "error" /\ list'.data = list.data
          /\ list'.fetch.st = "none"
      BY <1>2, <3>1 DEF QueryState, NoFetch
    <3>3. FetchedSince' /\ PageShowsOwnWrites'
      BY <3>1, <3>2 DEF IInv, FetchedSince, PageShowsOwnWrites, NoMutation
    <3> QED
      BY <1>4, <3>1, <3>2, <3>3
  <2> QED
    BY <2>1, <2>2
<1> QED
  BY <1>5, <1>6, <1>7, <1>8 DEF Query

-----------------------------------------------------------------------------
LEMMA WritesKeep ==
  ASSUME IInv, UNCHANGED <<reader, list, created, deleted>>,
         Others \/ (\E p \in Ids : CreateRow(p)) \/ DeleteRow
  PROVE  IInv'
<1>0. /\ TypeOK /\ list \in QueryState /\ create \in Mutation /\ remove \in Mutation
      /\ NoMutation \in Mutation
      /\ create.id \in Ids \union {0} /\ create.price \in Prices \union {None}
      /\ remove.id \in Ids \union {0} /\ remove.price \in Prices \union {None}
  BY ListTypes DEF IInv
<1>1. ASSUME NEW p \in Ids, NEW price \in Prices \union {None}, Written(p, price),
             \/ Table!Remove(p) /\ price = None
             \/ \E row \in Values :
                  \/ Table!Insert(p, row) /\ (price # None => row = MyRow(price))
                  \/ Table!Change(p, row) /\ price = None,
             create' \in {create, NoMutation, [create EXCEPT !.st = "answered", !.id = p]},
             \/ remove' \in {remove, NoMutation}
             \/ /\ remove' = [remove EXCEPT !.st = "answered"]
                /\ remove.st # "idle" /\ remove.id = p /\ Table!Remove(p)
      PROVE  IInv'
  <2>1. /\ table' \in [Ids -> Values \union {None}] /\ gone' \in SUBSET Ids
        /\ steady' \in SUBSET Ids /\ typed' \in [Ids -> Prices \union {None}]
        /\ Present' \intersect gone' = {} /\ gone \subseteq gone'
        /\ Present \union gone \union {p} \subseteq Present' \union gone'
        /\ (Present \union gone) \intersect Present' \subseteq Present
        /\ Table!Remove(p) => p \in gone'
        /\ WalkSoFar' /\ WalkIsExact' /\ PricesAreKept'
    BY <1>1, Writes
  <2>2. walk' = walk
    BY <1>1 DEF Written
  <2>3. /\ create' \in Mutation
        /\ create'.st = "answered" => create'.id = p \/ create' = create
        /\ create'.st = "sent" => create' = create
    BY <1>0, <1>1 DEF Mutation, NoMutation
  <2>4. /\ remove' \in Mutation
        /\ remove'.st = "answered" => remove'.id \in gone' \/ remove' = remove
        /\ remove'.st # "idle" => remove.st # "idle" /\ remove'.id = remove.id
    BY <1>0, <1>1, <2>1 DEF Mutation, NoMutation
  <2>5. TypeOK'
    BY <1>0, <2>1, <2>2, <2>3, <2>4 DEF TypeOK
  <2>6. ToldTruly'
    BY <2>1, <2>3, <2>4 DEF IInv, ToldTruly
  <2>7. created \intersect Present' \subseteq Present
    BY <2>1 DEF IInv, ToldTruly
  <2>8. FetchedSince' /\ PageShowsOwnWrites'
    <3>1. ASSUME NEW S, ShowsOwnWrites(S) PROVE ShowsOwnWrites(S)'
      BY <2>7, <3>1, StillShows
    <3>2. ShowsOwnWrites(DOMAIN list.fetch.got) => ShowsOwnWrites(DOMAIN list.fetch.got)'
      BY <2>7 DEF ShowsOwnWrites
    <3>3. ShowsOwnWrites(DOMAIN list.data) => ShowsOwnWrites(DOMAIN list.data)'
      BY <2>7 DEF ShowsOwnWrites
    <3> QED
      BY <2>4, <3>2, <3>3 DEF IInv, FetchedSince, PageShowsOwnWrites
  <2>9. PriceIsTyped'
    BY <2>3 DEF IInv, PriceIsTyped
  <2> QED
    BY <2>1, <2>5, <2>6, <2>8, <2>9 DEF IInv
<1>2. CASE Others
  <2>1. PICK p \in Ids : Table!Write(p) /\ Written(p, None)
    BY <1>2 DEF Others
  <2>2. UNCHANGED <<create, remove>>
    BY <1>2 DEF Others
  <2>3. \/ Table!Remove(p)
        \/ \E row \in Values : Table!Insert(p, row) \/ Table!Change(p, row)
    BY <2>1 DEF Table!Write, Values
  <2> QED
    BY <1>1, <2>1, <2>2, <2>3
<1>3. ASSUME NEW p \in Ids, CreateRow(p) PROVE IInv'
  <2>1. /\ create.st = "sent" /\ Table!Insert(p, MyRow(create.price))
        /\ Written(p, create.price) /\ UNCHANGED remove
        /\ create' \in {[create EXCEPT !.st = "answered", !.id = p], NoMutation}
    BY <1>3 DEF CreateRow
  <2>2. create.price \in Prices /\ MyRow(create.price) \in Values
    BY <2>1 DEF IInv, PriceIsTyped, Values
  <2> QED
    BY <1>1, <2>1, <2>2
<1>4. CASE DeleteRow
  <2>1. /\ remove.st = "sent" /\ Table!Remove(remove.id) /\ Written(remove.id, None)
        /\ remove' \in {[remove EXCEPT !.st = "answered"], NoMutation} /\ UNCHANGED create
    BY <1>4 DEF DeleteRow
  <2>2. remove.id \in Ids
    BY <2>1 DEF IInv, FetchedSince
  <2> QED
    BY <1>1, <2>1, <2>2
<1> QED
  BY <1>2, <1>3, <1>4

(* Steps of the form and of the buttons that leave the table alone.        *)
LEMMA MutationsKeep ==
  ASSUME IInv, UNCHANGED reader,
         \/ \E d \in Prices : Submit(d)
         \/ \E p \in Ids : Click(p)
         \/ CreateFails \/ DeleteFails \/ DeleteNoRow \/ Created \/ Deleted
  PROVE  IInv'
<1>0. /\ UNCHANGED <<rows, reads, typed>>
      /\ UNCHANGED <<table, gone, walk, steady, typed>>
  BY DEF Submit, Click, CreateFails, DeleteFails, DeleteNoRow, Created, Deleted, rows, reads,
         history
<1>1. Present' = Present /\ PricesAreKept' /\ WalkSoFar' /\ WalkIsExact'
  BY <1>0, Rests
<1>2. /\ TypeOK /\ list \in QueryState /\ create \in Mutation /\ remove \in Mutation
      /\ NoMutation \in Mutation /\ Sent \in Fetch
      /\ create.id \in Ids \union {0} /\ create.price \in Prices \union {None}
      /\ remove.id \in Ids \union {0} /\ remove.price \in Prices \union {None}
  BY ListTypes DEF IInv
<1>3. ASSUME UNCHANGED <<list, created, deleted>>, create' \in Mutation, remove' \in Mutation,
             create'.st # "answered", remove'.st = "answered" => remove' = remove,
             remove'.st # "idle" => list.data # None /\ remove'.id \in Ids,
             PriceIsTyped'
      PROVE  IInv'
  <2>1. TypeOK' /\ ToldTruly'
    BY <1>0, <1>1, <1>2, <1>3 DEF IInv, TypeOK, ToldTruly
  <2>2. FetchedSince' /\ PageShowsOwnWrites'
    BY <1>1, <1>3 DEF IInv, FetchedSince, PageShowsOwnWrites, ShowsOwnWrites
  <2> QED
    BY <1>1, <1>3, <2>1, <2>2 DEF IInv
<1>4. ASSUME NEW d \in Prices, Submit(d) PROVE IInv'
  <2>1. /\ create' = [st |-> "sent", id |-> 0, price |-> d]
        /\ UNCHANGED <<list, remove, created, deleted>>
    BY <1>4 DEF Submit, history
  <2>2. create' \in Mutation /\ create'.st = "sent" /\ create'.price = d
    BY <2>1 DEF Mutation
  <2> QED
    BY <1>2, <1>3, <2>1, <2>2 DEF IInv, FetchedSince, PriceIsTyped
<1>5. CASE CreateFails
  <2>1. create' = NoMutation /\ UNCHANGED <<list, remove, created, deleted>>
    BY <1>5 DEF CreateFails, history
  <2>2. create'.st = "idle"
    BY <2>1 DEF NoMutation
  <2> QED
    BY <1>2, <1>3, <2>1, <2>2 DEF IInv, FetchedSince, PriceIsTyped
<1>6. ASSUME NEW p \in Ids, Click(p) PROVE IInv'
  <2>1. /\ remove' = [st |-> "sent", id |-> p, price |-> None]
        /\ list.st = "success" /\ UNCHANGED <<list, create, created, deleted>>
    BY <1>6 DEF Click, history
  <2>2. remove' \in Mutation /\ remove'.st = "sent" /\ remove'.id = p
    BY <2>1 DEF Mutation
  <2>3. list.data # None /\ PriceIsTyped'
    BY <2>1 DEF IInv, FetchedSince, PriceIsTyped
  <2>4. ToldTruly'
    BY <1>0, <1>1, <2>1, <2>2 DEF IInv, ToldTruly
  <2>5. TypeOK'
    BY <1>0, <1>2, <2>1, <2>2 DEF TypeOK
  <2>6. FetchedSince' /\ PageShowsOwnWrites'
    BY <1>1, <2>1, <2>2, <2>3 DEF IInv, FetchedSince, PageShowsOwnWrites, ShowsOwnWrites
  <2> QED
    BY <1>1, <2>3, <2>4, <2>5, <2>6 DEF IInv
<1>7. CASE DeleteFails
  <2>1. remove' = NoMutation /\ UNCHANGED <<list, create, created, deleted>>
    BY <1>7 DEF DeleteFails, history
  <2>2. remove'.st = "idle"
    BY <2>1 DEF NoMutation
  <2>3. ToldTruly' /\ PriceIsTyped'
    BY <1>0, <1>1, <2>1, <2>2 DEF IInv, ToldTruly, PriceIsTyped
  <2>4. TypeOK'
    BY <1>0, <1>2, <2>1 DEF TypeOK
  <2>5. FetchedSince' /\ PageShowsOwnWrites'
    BY <1>1, <2>1, <2>2 DEF IInv, FetchedSince, PageShowsOwnWrites, ShowsOwnWrites
  <2> QED
    BY <1>1, <2>3, <2>4, <2>5 DEF IInv
<1>8. CASE Created
  <2>1. /\ create.st = "answered" /\ create' = [create EXCEPT !.st = "settling"]
        /\ Invalidate /\ UNCHANGED <<remove, deleted>>
        /\ created' = IF FirstLoad THEN created ELSE created \union {create.id}
    BY <1>8 DEF Created
  <2>2. create' \in Mutation /\ create'.st = "settling"
    BY <1>2, <2>1 DEF Mutation
  <2>3. create.id \in Present \union gone /\ create.id \in Ids
    BY <1>2, <2>1 DEF IInv, TypeOK, ToldTruly, Present
  <2>4. ToldTruly' /\ PriceIsTyped'
    BY <1>0, <1>1, <2>1, <2>2, <2>3 DEF IInv, ToldTruly, PriceIsTyped
  <2>5. list' \in QueryState /\ FetchedSince' /\ PageShowsOwnWrites'
    <3>1. CASE FirstLoad
      BY <1>1, <1>2, <2>1, <3>1
         DEF Invalidate, IInv, FetchedSince, PageShowsOwnWrites, ShowsOwnWrites
    <3>2. CASE ~ FirstLoad
      <4>1. list' = [list EXCEPT !.fetch = Sent]
        BY <2>1, <3>2 DEF Invalidate
      <4> QED
        BY <2>1, <4>1, Sends DEF IInv, FetchedSince
    <3> QED
      BY <3>1, <3>2
  <2>6. TypeOK'
    BY <1>0, <1>2, <2>1, <2>2, <2>3, <2>5 DEF TypeOK
  <2> QED
    BY <1>1, <2>4, <2>5, <2>6 DEF IInv
<1>9. CASE Deleted
  <2>1. /\ remove.st = "answered" /\ remove' = [remove EXCEPT !.st = "settling"]
        /\ Invalidate /\ UNCHANGED <<create, created>> /\ deleted' = deleted \union {remove.id}
    BY <1>9 DEF Deleted
  <2>2. remove' \in Mutation /\ remove'.st = "settling" /\ remove'.id = remove.id
    BY <1>2, <2>1 DEF Mutation
  <2>3. remove.id \in gone /\ remove.id \in Ids /\ list.data # None
    BY <2>1 DEF IInv, ToldTruly, FetchedSince
  <2>4. ToldTruly' /\ PriceIsTyped'
    BY <1>0, <1>1, <2>1, <2>2, <2>3 DEF IInv, ToldTruly, PriceIsTyped
  <2>5. list' = [list EXCEPT !.fetch = Sent]
    BY <2>1, <2>3 DEF Invalidate, FirstLoad
  <2>6. list' \in QueryState /\ FetchedSince' /\ PageShowsOwnWrites'
    BY <2>2, <2>3, <2>5, Sends
  <2>7. TypeOK'
    BY <1>0, <1>2, <2>1, <2>2, <2>3, <2>6 DEF TypeOK
  <2> QED
    BY <1>1, <2>4, <2>6, <2>7 DEF IInv
<1>10. CASE DeleteNoRow
  <2>1. /\ remove' = [remove EXCEPT !.st = "answered"] /\ remove.st = "sent"
        /\ remove.id \in gone /\ UNCHANGED <<list, create, created, deleted>>
    BY <1>10 DEF DeleteNoRow, history
  <2>2. remove' \in Mutation /\ remove'.id = remove.id
    BY <1>2, <2>1 DEF Mutation
  <2>3. ToldTruly' /\ PriceIsTyped'
    BY <1>0, <1>1, <2>1, <2>2 DEF IInv, ToldTruly, PriceIsTyped
  <2>4. TypeOK'
    BY <1>0, <1>2, <2>1, <2>2 DEF TypeOK
  <2>5. FetchedSince' /\ PageShowsOwnWrites'
    BY <1>1, <2>1, <2>2 DEF IInv, FetchedSince, PageShowsOwnWrites, ShowsOwnWrites
  <2> QED
    BY <1>1, <2>3, <2>4, <2>5 DEF IInv
<1> QED
  BY <1>4, <1>5, <1>6, <1>7, <1>8, <1>9, <1>10

LEMMA StepIInv == ASSUME IInv, [Next]_vars PROVE IInv'
<1>1. CASE UNCHANGED vars
  <2>1. /\ UNCHANGED <<reader, rows, reads, list, create, remove, history>>
        /\ UNCHANGED <<table, gone, walk, steady, typed, created, deleted>>
    BY <1>1 DEF vars, rows, reads, history
  <2>2. Present' = Present /\ PricesAreKept' /\ WalkSoFar' /\ WalkIsExact'
    BY <2>1, Rests
  <2>3. TypeOK'
    BY <2>1 DEF IInv, TypeOK
  <2>4. ToldTruly' /\ FetchedSince' /\ PriceIsTyped' /\ PageShowsOwnWrites'
    BY <2>1, <2>2 DEF IInv, ToldTruly, FetchedSince, PriceIsTyped, PageShowsOwnWrites,
                      ShowsOwnWrites
  <2> QED
    BY <2>2, <2>3, <2>4 DEF IInv
<1>2. CASE Next
  <2>1. UNCHANGED reader
    BY <1>2 DEF Next
  <2>2. CASE Others
    BY <2>1, <2>2, WritesKeep DEF Others
  <2>3. CASE Walk
    BY <2>1, <2>3, WalkKeeps
  <2>4. CASE Query
    BY <2>1, <2>4, QueryKeeps
  <2>5. CASE Creating
    <3>1. CASE \E p \in Ids : CreateRow(p)
      BY <2>1, <3>1, WritesKeep DEF CreateRow
    <3> QED
      BY <2>1, <2>5, <3>1, MutationsKeep DEF Creating
  <2>6. CASE Deleting
    <3>1. CASE DeleteRow
      BY <2>1, <3>1, WritesKeep DEF DeleteRow
    <3> QED
      BY <2>1, <2>6, <3>1, MutationsKeep DEF Deleting
  <2> QED
    BY <1>2, <2>2, <2>3, <2>4, <2>5, <2>6 DEF Next
<1> QED
  BY <1>1, <1>2

(* How far a walk has come, what the page was told of and what it fetched  *)
(* since, hold in every state, whoever writes the table in between.        *)
THEOREM Invariance == Spec => []IInv
BY InitIInv, StepIInv, PTL DEF Spec

(* A walk shows nothing twice, and skips nothing that was there all along. *)
THEOREM Exact == Spec => []WalkIsExact
<1>1. IInv => WalkIsExact
  BY DEF IInv
<1> QED
  BY <1>1, Invariance, PTL

(* The page does not fall back to a list from before its own changes.      *)
THEOREM OwnWrites == Spec => []PageShowsOwnWrites
<1>1. IInv => PageShowsOwnWrites
  BY DEF IInv
<1> QED
  BY <1>1, Invariance, PTL

(* A price is shown as it was typed.                                       *)
THEOREM Kept == Spec => []PricesAreKept
<1>1. IInv => PricesAreKept
  BY DEF IInv
<1> QED
  BY <1>1, Invariance, PTL
=============================================================================
