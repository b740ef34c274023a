-------------------------- MODULE WebClientProofs --------------------------
(***************************************************************************)
(* Proofs about WebClient, for any tabs, users and calls, and any number   *)
(* of token pairs.                                                         *)
(***************************************************************************)
EXTENDS WebClient, TLAPS

USE PairsAssumption, NoneAssumption

LEMMA Blank == NoCall \in Call /\ NoRefresh \in Refresh
  BY DEF NoCall, Call, NoRefresh, Refresh, Kinds

LEMMA InitIInv == Init => IInv
<1> SUFFICES ASSUME Init PROVE IInv
  OBVIOUS
<1> USE DEF Init
<1>1. TypeOK
  <2>1. /\ refresh \in [Tabs -> Refresh] /\ call \in [Calls -> Call]
        /\ user \in [Tabs -> Users \union {None}]
        /\ owner \in [Pairs -> Users \union {None}]
    BY Blank
  <2>2. storage \in 0 .. issued /\ issued \in 0 .. MaxPairs
    OBVIOUS
  <2> QED
    BY <2>1, <2>2 DEF TypeOK
<1>2. PairsAreKnown
  BY DEF PairsAreKnown, NoCall, Issued
<1>3. RefreshesAreSound /\ NewPairsAreUnused /\ NobodyForgotten
  BY DEF RefreshesAreSound, NewPairsAreUnused, NobodyForgotten, NoCall, NoRefresh, UnderWay
<1>4. OrphansAreAbandoned /\ UsedPairIsReplaced /\ TokensAreShown
  BY DEF OrphansAreAbandoned, UsedPairIsReplaced, TokensAreShown
<1> QED
  BY <1>1, <1>2, <1>3, <1>4 DEF IInv

(* What the storage, the tabs and the API have to do with each other holds *)
(* on when a step changes only calls and refused tokens.                   *)
LEMMA CallsOnly ==
  ASSUME IInv, UNCHANGED <<page, refresh, issued, owner, live, rotated, orphans, history>>,
         TypeOK', NobodyForgotten',
         \A c \in Calls :
           /\ call'[c].st # "idle" => call'[c].tab \in Tabs
           /\ call'[c].kind \in {"login", "signup"} => call'[c].who \in Users
  PROVE  IInv'
BY DEF IInv, PairsAreKnown, RefreshesAreSound, NewPairsAreUnused,
       OrphansAreAbandoned, UsedPairIsReplaced, TokensAreShown, Issued, UnderWay,
       page, history

LEMMA QuietStep ==
  ASSUME IInv, NEW c \in Calls,
         Begin(c) \/ ProductsDone(c) \/ SignupDone(c) \/ JoinRefresh(c)
  PROVE  IInv'
<1> USE DEF IInv, Begin, Products, SignOut, LogIn, SignUp, Start, Attach, ProductsDone,
        SignupDone, JoinRefresh, Received, Settled, Wait, Refuse, Retriable, Unauthorized,
        page, api, history
<1>1. UNCHANGED <<page, refresh, issued, owner, live, rotated, orphans, history>>
  OBVIOUS
<1>2. TypeOK'
  <2>1. \A t \in Tabs : \A u \in Users \union {None} : \A k \in Kinds :
          [st |-> "sent", kind |-> k, tab |-> t, who |-> u,
           bearer |-> storage, retried |-> FALSE] \in Call
    BY DEF TypeOK, Call
  <2>2. call' \in [Calls -> Call]
    <3>1. CASE Begin(c)
      <4>1. PICK t \in Tabs, u \in Users \union {None}, k \in Kinds :
              call' = [call EXCEPT ![c] = [st |-> "sent", kind |-> k, tab |-> t, who |-> u,
                                           bearer |-> storage, retried |-> FALSE]]
        BY <3>1 DEF Kinds
      <4> QED
        BY <4>1, <2>1 DEF TypeOK
    <3>2. CASE ProductsDone(c)
      BY <3>2, Blank DEF TypeOK
    <3>3. CASE SignupDone(c)
      BY <3>3, <2>1 DEF TypeOK, PairsAreKnown, Kinds
    <3>4. CASE JoinRefresh(c)
      BY <3>4 DEF TypeOK, Call
    <3> QED
      BY <3>1, <3>2, <3>3, <3>4
  <2>3. refused' \subseteq Pairs
    BY DEF TypeOK, Call, Pairs
  <2> QED
    BY <1>1, <2>2, <2>3 DEF TypeOK
<1>3. NobodyForgotten'
  <2>1. refresh' = refresh
    OBVIOUS
  <2> SUFFICES ASSUME NEW d \in Calls, call'[d].st = "waiting"
               PROVE  refresh'[call'[d].tab].st # "idle" /\ call'[d].retried
    BY DEF NobodyForgotten, UnderWay
  <2>2. CASE d # c
    BY <2>1, <2>2 DEF TypeOK, NobodyForgotten, UnderWay
  <2>3. CASE d = c
    <3>1. JoinRefresh(c)
      BY <2>3 DEF TypeOK, NoCall
    <3> QED
      BY <2>1, <2>3, <3>1 DEF TypeOK, UnderWay, Call
  <2> QED
    BY <2>2, <2>3
<1>4. \A d \in Calls :
        /\ call'[d].st # "idle" => call'[d].tab \in Tabs
        /\ call'[d].kind \in {"login", "signup"} => call'[d].who \in Users
  <2> SUFFICES ASSUME NEW d \in Calls, d = c
               PROVE  /\ call'[d].st # "idle" => call'[d].tab \in Tabs
                      /\ call'[d].kind \in {"login", "signup"} => call'[d].who \in Users
    BY DEF TypeOK, PairsAreKnown
  <2>1. CASE Begin(c)
    BY <2>1 DEF TypeOK
  <2>2. CASE ProductsDone(c)
    BY <2>2 DEF TypeOK, NoCall
  <2>3. CASE SignupDone(c)
    BY <2>3 DEF TypeOK, PairsAreKnown
  <2>4. CASE JoinRefresh(c)
    BY <2>4 DEF TypeOK, PairsAreKnown, Call
  <2> QED
    BY <2>1, <2>2, <2>3, <2>4
<1> QED
  BY <1>1, <1>2, <1>3, <1>4, CallsOnly

LEMMA StartRefreshStep ==
  ASSUME IInv, NEW c \in Calls, StartRefresh(c)
  PROVE  IInv'
<1> DEFINE t == call[c].tab
<1> USE DEF IInv, StartRefresh, Wait, Refuse, Retriable, Unauthorized, page, history
<1>1. t \in Tabs /\ storage \in Issued /\ storage \in 0 .. MaxPairs
  BY DEF PairsAreKnown, TypeOK, Issued
<1>2. TypeOK'
  <2>1. call' \in [Calls -> Call]
    BY DEF TypeOK, Call
  <2>2. refresh' \in [Tabs -> Refresh]
    BY <1>1 DEF TypeOK, Refresh
  <2>3. refused' \subseteq Pairs
    BY DEF TypeOK, Call, Pairs
  <2> QED
    BY <2>1, <2>2, <2>3 DEF TypeOK
<1>3. PairsAreKnown'
  BY <1>1 DEF TypeOK, PairsAreKnown, Issued
<1>4. RefreshesAreSound'
  BY <1>1 DEF TypeOK, RefreshesAreSound, Issued, UnderWay, NoRefresh
<1>5. NewPairsAreUnused'
  BY <1>1 DEF TypeOK, NewPairsAreUnused
<1>6. OrphansAreAbandoned' /\ UsedPairIsReplaced' /\ TokensAreShown'
  BY <1>1 DEF TypeOK, OrphansAreAbandoned, UsedPairIsReplaced, TokensAreShown, UnderWay
<1>7. NobodyForgotten'
  BY <1>1 DEF TypeOK, NobodyForgotten, UnderWay
<1> QED
  BY <1>2, <1>3, <1>4, <1>5, <1>6, <1>7

(* The ends of a call that are a logout, a failure, or both. *)
LEMMA SettleStep ==
  ASSUME IInv, NEW c \in Calls,
         LogoutDone(c) \/ ReceiveError(c) \/ ReceiveRefusal(c) \/ ReceiveSignedOut(c)
  PROVE  IInv'
<1> DEFINE t == call[c].tab
<1>1. /\ call' = [call EXCEPT ![c] = NoCall]
      /\ \/ UNCHANGED <<page, history>>
         \/ /\ storage' = 0 /\ abandoned' = FALSE /\ straggler' = FALSE
            /\ user' = [user EXCEPT ![t] = None]
      /\ UNCHANGED <<refresh, issued, owner, live, rotated, orphans>>
  BY DEF LogoutDone, ReceiveError, ReceiveRefusal, ReceiveSignedOut, Received, Settled,
         Reject, SignedOut, Store, Refuse, api
<1>2. refused' \subseteq Pairs
  <2>1. refused \subseteq Pairs /\ call[c].bearer \in 0 .. MaxPairs
    BY DEF IInv, TypeOK, Call
  <2>2. \/ refused' = refused
        \/ refused' = refused \union {call[c].bearer} /\ call[c].bearer \in Pairs
        \/ refused' = refused \union ({call[c].bearer} \ {0})
    BY DEF LogoutDone, ReceiveError, ReceiveRefusal, ReceiveSignedOut, Accepted, Refuse, api
  <2>3. {call[c].bearer} \ {0} \subseteq Pairs
    BY <2>1 DEF Pairs
  <2> QED
    BY <2>1, <2>2, <2>3
<1>3. /\ storage' \in {0, storage}
      /\ storage' # 0 => UNCHANGED <<page, history>>
  BY <1>1 DEF page
<1> USE DEF IInv
<1>4. TypeOK'
  <2>1. call' \in [Calls -> Call]
    BY <1>1, Blank DEF TypeOK
  <2>2. storage' \in 0 .. issued /\ user' \in [Tabs -> Users \union {None}]
    BY <1>1 DEF TypeOK, page
  <2>3. abandoned' \in BOOLEAN /\ straggler' \in BOOLEAN
    <3>1. CASE UNCHANGED <<page, history>>
      BY <3>1 DEF TypeOK, history
    <3>2. CASE abandoned' = FALSE /\ straggler' = FALSE
      BY <3>2
    <3> QED
      BY <1>1, <3>1, <3>2
  <2> QED
    BY <1>1, <1>2, <2>1, <2>2, <2>3 DEF TypeOK
<1>5. PairsAreKnown'
  BY <1>1 DEF TypeOK, PairsAreKnown, NoCall, Issued
<1>6. RefreshesAreSound'
  BY <1>1 DEF RefreshesAreSound, UnderWay, Issued
<1>7. NewPairsAreUnused'
  BY <1>1, <1>3 DEF NewPairsAreUnused
<1>8. OrphansAreAbandoned' /\ UsedPairIsReplaced' /\ TokensAreShown'
  <2>1. CASE storage' = 0
    <3>1. 0 \notin orphans /\ 0 \notin rotated
      BY DEF TypeOK, Pairs
    <3> QED
      BY <1>1, <2>1, <3>1 DEF OrphansAreAbandoned, UsedPairIsReplaced, TokensAreShown
  <2>2. CASE storage' # 0
    BY <1>1, <1>3, <2>2 DEF OrphansAreAbandoned, UsedPairIsReplaced, TokensAreShown,
       UnderWay, page, history
  <2> QED
    BY <2>1, <2>2
<1>9. NobodyForgotten'
  BY <1>1 DEF TypeOK, NobodyForgotten, NoCall, UnderWay
<1> QED
  BY <1>4, <1>5, <1>6, <1>7, <1>8, <1>9

(* A login brings a pair that nothing knows of yet. *)
LEMMA LoginStep ==
  ASSUME IInv, NEW c \in Calls, LoginDone(c)
  PROVE  IInv'
<1> DEFINE t == call[c].tab
           n == issued + 1
<1>1. /\ call' = [call EXCEPT ![c] = NoCall]
      /\ storage' = n /\ abandoned' = FALSE /\ straggler' = FALSE
      /\ user' = [user EXCEPT ![t] = call[c].who]
      /\ issued' = n /\ owner' = [owner EXCEPT ![n] = call[c].who]
      /\ live' = live \union {n} /\ rotated' = rotated
      /\ UNCHANGED <<refresh, refused, orphans>>
  BY DEF LoginDone, Received, Settled, Store, Issue
<1>2. /\ t \in Tabs /\ call[c].who \in Users
      /\ n \in Pairs /\ issued \in 0 .. MaxPairs
  BY DEF LoginDone, Received, Issue, IInv, TypeOK, PairsAreKnown, Pairs
<1> HIDE DEF n
<1> USE DEF IInv
<1>3. Issued' = Issued \union {n} /\ n \notin Issued
  BY <1>1, <1>2 DEF Issued, n
<1>4. \A m \in Issued : owner'[m] = owner[m]
  BY <1>1, <1>3 DEF TypeOK, Issued, Pairs
<1>5. TypeOK'
  <2>1. call' \in [Calls -> Call]
    BY <1>1, Blank DEF TypeOK
  <2>2. storage' \in 0 .. issued' /\ issued' \in 0 .. MaxPairs
    BY <1>1, <1>2 DEF Pairs
  <2>3. user' \in [Tabs -> Users \union {None}] /\ owner' \in [Pairs -> Users \union {None}]
    BY <1>1, <1>2 DEF TypeOK
  <2> QED
    BY <1>1, <1>2, <2>1, <2>2, <2>3 DEF TypeOK
<1>6. PairsAreKnown'
  <2>1. owner'[n] \in Users
    BY <1>1, <1>2 DEF TypeOK
  <2>2. \A d \in Calls :
          /\ call'[d].st # "idle" => call'[d].tab \in Tabs
          /\ call'[d].kind \in {"login", "signup"} => call'[d].who \in Users
    BY <1>1 DEF TypeOK, PairsAreKnown, NoCall
  <2> QED
    BY <1>1, <1>3, <1>4, <2>1, <2>2 DEF PairsAreKnown
<1>7. RefreshesAreSound'
  BY <1>1, <1>3, <1>4 DEF RefreshesAreSound, UnderWay
<1>8. NewPairsAreUnused'
  BY <1>1, <1>3 DEF NewPairsAreUnused, RefreshesAreSound
<1>9. OrphansAreAbandoned' /\ UsedPairIsReplaced'
  BY <1>1, <1>3 DEF OrphansAreAbandoned, UsedPairIsReplaced, PairsAreKnown
<1>10. TokensAreShown'
  BY <1>1, <1>2 DEF TokensAreShown, TypeOK
<1>11. NobodyForgotten'
  BY <1>1 DEF TypeOK, NobodyForgotten, NoCall, UnderWay
<1> QED
  BY <1>5, <1>6, <1>7, <1>8, <1>9, <1>10, <1>11

(* What the API does with refresh token n: it grows by a pair of the same  *)
(* user, which replaces n, or it stays as it is, but for live tokens.      *)
LEMMA ApiStep ==
  ASSUME IInv, NEW n \in Issued, Exchange(n) \/ Reused(n) \/ UNCHANGED api
  PROVE  /\ issued' \in 0 .. MaxPairs /\ storage \in 0 .. issued'
         /\ owner' \in [Pairs -> Users \union {None}]
         /\ Issued \subseteq Issued'
         /\ \A k \in Issued' : owner'[k] \in Users
         /\ \A k \in Issued : owner'[k] = owner[k]
         /\ live' \subseteq Issued' /\ refused' = refused
         /\ rotated' \in {rotated, rotated \union {n}} /\ rotated' \subseteq Issued
         /\ Exchange(n) =>
              /\ issued + 1 \in Issued' \ Issued
              /\ owner'[issued + 1] = owner[n]
<1> USE DEF IInv
<1>1. CASE Exchange(n)
  <2> DEFINE m == issued + 1
  <2>1. /\ issued' = m /\ owner' = [owner EXCEPT ![m] = owner[n]]
        /\ live' = (live \ {n}) \union {m} /\ rotated' = rotated \union {n}
        /\ refused' = refused
    BY <1>1 DEF Exchange, Issue
  <2>2. m \in Pairs /\ m \in 0 .. MaxPairs /\ issued \in 0 .. MaxPairs
    BY <1>1 DEF Exchange, Issue, TypeOK, Pairs
  <2>3. Issued' = Issued \union {m} /\ m \notin Issued /\ Issued \subseteq Pairs
    BY <2>1, <2>2 DEF Issued, Pairs
  <2>4. storage \in 0 .. m
    BY <2>2 DEF TypeOK
  <2>5. \A k \in Issued : owner'[k] = owner[k]
    BY <2>1, <2>3 DEF TypeOK
  <2>6. owner'[m] = owner[n] /\ owner[n] \in Users
    BY <2>1, <2>2 DEF TypeOK, PairsAreKnown
  <2>7. owner' \in [Pairs -> Users \union {None}]
    BY <2>1, <2>6 DEF TypeOK
  <2> HIDE DEF m
  <2>8. /\ live' \subseteq Issued' /\ rotated' \subseteq Issued
        /\ \A k \in Issued' : owner'[k] \in Users
    BY <2>1, <2>3, <2>5, <2>6 DEF PairsAreKnown
  <2> QED
    BY <2>1, <2>2, <2>3, <2>4, <2>5, <2>6, <2>7, <2>8 DEF m
<1>2. CASE ~Exchange(n)
  <2>1. /\ issued' = issued /\ owner' = owner /\ refused' = refused /\ rotated' = rotated
        /\ live' \subseteq live
    BY <1>2 DEF Reused, api
  <2> QED
    BY <1>2, <2>1 DEF TypeOK, PairsAreKnown, Issued
<1> QED
  BY <1>1, <1>2

LEMMA ServeRefreshStep ==
  ASSUME IInv, NEW t \in Tabs, ServeRefresh(t)
  PROVE  IInv'
<1> DEFINE n == refresh[t].with
           m == refresh'[t].got
<1> USE DEF IInv
<1>1. /\ refresh[t].st = "sent"
      /\ refresh' = [refresh EXCEPT ![t].st = "served", ![t].got = m]
      /\ m = 0 \/ (m = issued + 1 /\ Exchange(n))
      /\ Exchange(n) \/ Reused(n) \/ UNCHANGED api
      /\ UNCHANGED <<storage, user, call, orphans, abandoned, straggler>>
  BY DEF ServeRefresh, TypeOK, Refresh, page, history
<1>2. n \in Issued /\ UnderWay(t)
  BY <1>1 DEF RefreshesAreSound, UnderWay
<1>3. /\ issued' \in 0 .. MaxPairs /\ storage \in 0 .. issued'
      /\ owner' \in [Pairs -> Users \union {None}]
      /\ Issued \subseteq Issued'
      /\ \A k \in Issued' : owner'[k] \in Users
      /\ \A k \in Issued : owner'[k] = owner[k]
      /\ live' \subseteq Issued' /\ refused' = refused
      /\ rotated' \in {rotated, rotated \union {n}} /\ rotated' \subseteq Issued
      /\ m # 0 => m \in Issued' \ Issued /\ owner'[m] = owner[n]
  BY <1>1, <1>2, ApiStep
<1>4. Issued' \subseteq Pairs /\ Issued \subseteq Pairs /\ 0 \notin Issued
  BY <1>3 DEF Issued, Pairs, TypeOK
<1>5. m \in 0 .. MaxPairs
  <2>1. m = 0 \/ m \in Pairs
    BY <1>3, <1>4
  <2> QED
    BY <2>1 DEF Pairs
<1> HIDE DEF m, n
<1>6. /\ refresh' \in [Tabs -> Refresh]
      /\ refresh'[t] = [st |-> "served", with |-> n, got |-> m]
      /\ \A s \in Tabs : s # t => refresh'[s] = refresh[s]
  BY <1>1, <1>5 DEF TypeOK, Refresh, n
<1>7. TypeOK'
  BY <1>1, <1>3, <1>4, <1>6 DEF TypeOK
<1>8. PairsAreKnown'
  BY <1>1, <1>3 DEF PairsAreKnown
<1>9. RefreshesAreSound'
  BY <1>2, <1>3, <1>6 DEF RefreshesAreSound, UnderWay
<1>10. NewPairsAreUnused'
  <2> SUFFICES ASSUME NEW s \in Tabs, refresh'[s].got # 0
               PROVE  LET k == refresh'[s].got IN
                      /\ k # storage /\ k \notin rotated' /\ k \notin orphans
                      /\ \A q \in Tabs : refresh'[q].with # k /\ (q # s => refresh'[q].got # k)
    BY <1>1 DEF NewPairsAreUnused
  <2>1. /\ storage \in Issued \union {0} /\ orphans \subseteq Issued
        /\ \A q \in Tabs : /\ refresh'[q].with = refresh[q].with
                           /\ refresh[q].with \in Issued \union {0}
    <3>1. \A q \in Tabs : refresh[q].with \in Issued \union {0}
      BY DEF RefreshesAreSound, NoRefresh
    <3>2. storage \in Issued \union {0}
      BY DEF TypeOK, Issued
    <3> QED
      BY <1>6, <3>1, <3>2 DEF PairsAreKnown, n
  <2>2. CASE s = t
    <3>1. refresh'[s].got = m /\ m \in Issued' \ Issued
      BY <1>3, <1>6, <2>2
    <3>2. \A q \in Tabs : q # t => refresh[q].got # m
      BY <3>1, <1>4 DEF RefreshesAreSound
    <3> QED
      BY <1>3, <1>4, <1>6, <2>1, <2>2, <3>1, <3>2
  <2>3. CASE s # t
    <3>1. refresh'[s] = refresh[s] /\ refresh[s].got \in Issued
      BY <1>6, <2>3 DEF RefreshesAreSound
    <3>2. n # refresh[s].got /\ m # refresh[s].got
      BY <1>3, <3>1 DEF NewPairsAreUnused, n
    <3> QED
      BY <1>3, <1>6, <2>1, <2>3, <3>1, <3>2 DEF NewPairsAreUnused
  <2> QED
    BY <2>2, <2>3
<1>11. OrphansAreAbandoned' /\ NobodyForgotten'
  <2>1. \A s \in Tabs : UnderWay(s) => UnderWay(s)'
    BY <1>6 DEF UnderWay
  <2>2. \A c \in Calls : call[c].st = "waiting" => call[c].tab \in Tabs
    BY DEF PairsAreKnown
  <2> QED
    BY <1>1, <2>1, <2>2 DEF OrphansAreAbandoned, NobodyForgotten, UnderWay
<1>12. UsedPairIsReplaced'
  <2>1. UnderWay(t)' /\ refresh'[t].with = n
    BY <1>6 DEF UnderWay
  <2>2. \A s \in Tabs : UnderWay(s) => UnderWay(s)' /\ refresh'[s].with = refresh[s].with
    BY <1>6 DEF UnderWay, n
  <2> QED
    BY <1>1, <1>3, <2>1, <2>2 DEF UsedPairIsReplaced
<1>13. TokensAreShown'
  BY <1>1, <1>3 DEF TokensAreShown, TypeOK, Issued
<1> QED
  BY <1>7, <1>8, <1>9, <1>10, <1>11, <1>12, <1>13

LEMMA ServeOrphanStep ==
  ASSUME IInv, NEW n \in Pairs, ServeOrphan(n)
  PROVE  IInv'
<1> USE DEF IInv
<1>1. /\ n \in orphans /\ orphans' = orphans \ {n}
      /\ Exchange(n) \/ Reused(n) \/ UNCHANGED api
      /\ UNCHANGED <<storage, user, refresh, call, abandoned, straggler>>
  BY DEF ServeOrphan, page, history
<1>2. n \in Issued
  BY <1>1 DEF PairsAreKnown
<1>3. /\ issued' \in 0 .. MaxPairs /\ storage \in 0 .. issued'
      /\ owner' \in [Pairs -> Users \union {None}]
      /\ Issued \subseteq Issued'
      /\ \A k \in Issued' : owner'[k] \in Users
      /\ \A k \in Issued : owner'[k] = owner[k]
      /\ live' \subseteq Issued' /\ refused' = refused
      /\ rotated' \in {rotated, rotated \union {n}} /\ rotated' \subseteq Issued
  BY <1>1, <1>2, ApiStep
<1>4. Issued' \subseteq Pairs
  BY <1>3 DEF Issued, Pairs
<1>5. TypeOK'
  BY <1>1, <1>3, <1>4 DEF TypeOK
<1>6. PairsAreKnown'
  BY <1>1, <1>3 DEF PairsAreKnown
<1>7. RefreshesAreSound'
  BY <1>1, <1>3 DEF RefreshesAreSound, UnderWay, NoRefresh
<1>8. NewPairsAreUnused'
  BY <1>1, <1>3 DEF NewPairsAreUnused
<1>9. OrphansAreAbandoned' /\ UsedPairIsReplaced'
  BY <1>1, <1>3 DEF OrphansAreAbandoned, UsedPairIsReplaced, UnderWay
<1>10. TokensAreShown' /\ NobodyForgotten'
  BY <1>1, <1>3 DEF TokensAreShown, NobodyForgotten, UnderWay, TypeOK, Issued
<1> QED
  BY <1>5, <1>6, <1>7, <1>8, <1>9, <1>10

LEMMA ReceiveRefreshStep ==
  ASSUME IInv, NEW t \in Tabs, ReceiveRefresh(t)
  PROVE  IInv'
<1> DEFINE n == refresh[t].got
<1> USE DEF IInv
<1>1. /\ refresh' = [refresh EXCEPT ![t] = NoRefresh]
      /\ refresh[t].st = "served"
      /\ storage' = n /\ abandoned' = FALSE
      /\ UNCHANGED <<issued, owner, refused, live, rotated, orphans>>
  BY DEF ReceiveRefresh, RefreshOk, RefreshFailed, Store, api
<1>2. n \in Issued \union {0} /\ UnderWay(t) /\ refresh[t].with \in Issued
  BY <1>1 DEF RefreshesAreSound, UnderWay
<1>3. /\ n \in 0 .. issued /\ n \in 0 .. MaxPairs
      /\ 0 \notin orphans /\ 0 \notin rotated
  BY <1>2 DEF TypeOK, Issued, Pairs
<1>4. /\ refresh' \in [Tabs -> Refresh] /\ refresh'[t] = NoRefresh
      /\ \A s \in Tabs : s # t => refresh'[s] = refresh[s]
  BY <1>1, Blank DEF TypeOK
<1>5. /\ call' \in [Calls -> Call]
      /\ \A c \in Calls :
           \/ call'[c] = NoCall
           \/ /\ call'[c].st # "waiting" /\ call[c].st # "idle"
              /\ call'[c].tab = call[c].tab /\ call'[c].who = call[c].who
              /\ call'[c].kind = call[c].kind
           \/ /\ call'[c] = call[c]
              /\ ~(call[c].st = "waiting" /\ call[c].tab = t)
  <2>1. \A c \in Calls : [call[c] EXCEPT !.st = "sent", !.bearer = n] \in Call
    BY <1>3 DEF TypeOK, Call
  <2>2. CASE RefreshOk(t)
    <3>1. call' = [c \in Calls |-> IF c \in Waiting(t)
                                   THEN [call[c] EXCEPT !.st = "sent", !.bearer = n]
                                   ELSE call[c]]
      BY <2>2 DEF RefreshOk
    <3>2. call' \in [Calls -> Call]
      BY <2>1, <3>1 DEF TypeOK
    <3>3. ASSUME NEW c \in Calls
          PROVE  \/ /\ call'[c] = [call[c] EXCEPT !.st = "sent", !.bearer = n]
                    /\ call[c].st = "waiting" /\ call[c] \in Call
                 \/ call'[c] = call[c] /\ ~(call[c].st = "waiting" /\ call[c].tab = t)
      BY <3>1 DEF Waiting, TypeOK
    <3> HIDE DEF n
    <3>4. \A c \in Calls : call[c] \in Call =>
            LET d == [call[c] EXCEPT !.st = "sent", !.bearer = n]
            IN  d.st = "sent" /\ d.tab = call[c].tab /\ d.who = call[c].who
                /\ d.kind = call[c].kind
      BY DEF Call
    <3>5. ASSUME NEW c \in Calls
          PROVE  \/ /\ call'[c].st # "waiting" /\ call[c].st # "idle"
                    /\ call'[c].tab = call[c].tab /\ call'[c].who = call[c].who
                    /\ call'[c].kind = call[c].kind
                 \/ call'[c] = call[c] /\ ~(call[c].st = "waiting" /\ call[c].tab = t)
      BY <3>3, <3>4
    <3> QED
      BY <3>2, <3>5
  <2>3. CASE RefreshFailed(t)
    <3>1. call' = [c \in Calls |-> IF c \in Waiting(t) THEN NoCall ELSE call[c]]
      BY <2>3 DEF RefreshFailed
    <3>2. call' \in [Calls -> Call]
      BY <3>1, Blank DEF TypeOK
    <3>3. ASSUME NEW c \in Calls
          PROVE  \/ call'[c] = NoCall
                 \/ call'[c] = call[c] /\ ~(call[c].st = "waiting" /\ call[c].tab = t)
      BY <3>1 DEF Waiting
    <3> QED
      BY <3>2, <3>3
  <2> QED
    BY <2>2, <2>3 DEF ReceiveRefresh
<1>6. /\ user' \in [Tabs -> Users \union {None}] /\ straggler' \in BOOLEAN
      /\ n # 0 => user' = user /\ straggler' = (straggler \/ storage # refresh[t].with)
  BY DEF ReceiveRefresh, RefreshOk, RefreshFailed, TypeOK
<1> HIDE DEF n
<1>7. TypeOK'
  BY <1>1, <1>3, <1>4, <1>5, <1>6 DEF TypeOK
<1>8. PairsAreKnown'
  BY <1>1, <1>5 DEF PairsAreKnown, NoCall, Issued
<1>9. RefreshesAreSound'
  BY <1>1, <1>4 DEF RefreshesAreSound, UnderWay, NoRefresh, Issued
<1>10. NewPairsAreUnused'
  BY <1>1, <1>2, <1>4 DEF NewPairsAreUnused, NoRefresh, n
<1>11. OrphansAreAbandoned' /\ UsedPairIsReplaced'
  BY <1>1, <1>3 DEF OrphansAreAbandoned, UsedPairIsReplaced, NewPairsAreUnused, n
<1>12. TokensAreShown'
  <2>1. CASE n = 0
    BY <1>1, <2>1 DEF TokensAreShown
  <2>2. CASE n # 0
    <3>1. owner[n] = owner[refresh[t].with] /\ 0 \notin Issued
      BY <2>2 DEF RefreshesAreSound, n, Issued
    <3> QED
      BY <1>1, <1>2, <1>6, <2>2, <3>1 DEF TokensAreShown
  <2> QED
    BY <2>1, <2>2
<1>13. NobodyForgotten'
  <2> SUFFICES ASSUME NEW c \in Calls, call'[c].st = "waiting"
               PROVE  refresh'[call'[c].tab].st # "idle" /\ call'[c].retried
    BY DEF NobodyForgotten, UnderWay
  <2>1. call'[c] = call[c] /\ call[c].tab # t /\ call[c].tab \in Tabs
    BY <1>5 DEF NoCall, PairsAreKnown
  <2> QED
    BY <1>4, <2>1 DEF NobodyForgotten, UnderWay
<1> QED
  BY <1>7, <1>8, <1>9, <1>10, <1>11, <1>12, <1>13

LEMMA ReloadStep ==
  ASSUME IInv, NEW t \in Tabs, Reload(t)
  PROVE  IInv'
<1> USE DEF IInv
<1>1. /\ user' = [user EXCEPT ![t] = StoredUser]
      /\ refresh' = [refresh EXCEPT ![t] = NoRefresh]
      /\ call' = [c \in Calls |-> IF call[c].tab = t THEN NoCall ELSE call[c]]
      /\ orphans \subseteq orphans'
      /\ \A n \in orphans' : n \in orphans \/ (refresh[t].st = "sent" /\ n = refresh[t].with)
      /\ abandoned' = (abandoned \/ (UnderWay(t) /\ storage = refresh[t].with))
      /\ UNCHANGED <<storage, issued, owner, refused, live, rotated, straggler>>
  BY DEF Reload, api
<1>2. StoredUser \in Users \union {None}
  BY DEF StoredUser, TypeOK, PairsAreKnown, Issued
<1>3. /\ refresh' \in [Tabs -> Refresh] /\ refresh'[t] = NoRefresh
      /\ \A s \in Tabs : s # t => refresh'[s] = refresh[s]
  BY <1>1, Blank DEF TypeOK
<1>4. /\ call' \in [Calls -> Call]
      /\ \A c \in Calls : call'[c] = NoCall \/ (call'[c] = call[c] /\ call[c].tab # t)
  BY <1>1, Blank DEF TypeOK
<1>5. orphans' \subseteq Issued
  BY <1>1 DEF PairsAreKnown, RefreshesAreSound, UnderWay
<1>6. TypeOK'
  <2>1. orphans' \subseteq Pairs
    BY <1>5 DEF TypeOK, Issued, Pairs
  <2> QED
    BY <1>1, <1>2, <1>3, <1>4, <2>1 DEF TypeOK
<1>7. PairsAreKnown'
  BY <1>1, <1>4, <1>5 DEF PairsAreKnown, NoCall, Issued
<1>8. RefreshesAreSound'
  BY <1>1, <1>3 DEF RefreshesAreSound, UnderWay, NoRefresh, Issued
<1>9. NewPairsAreUnused'
  BY <1>1, <1>3 DEF NewPairsAreUnused, NoRefresh
<1>10. OrphansAreAbandoned' /\ UsedPairIsReplaced'
  BY <1>1, <1>3 DEF OrphansAreAbandoned, UsedPairIsReplaced, UnderWay
<1>11. TokensAreShown'
  BY <1>1 DEF TokensAreShown, StoredUser, TypeOK
<1>12. NobodyForgotten'
  <2> SUFFICES ASSUME NEW c \in Calls, call'[c].st = "waiting"
               PROVE  refresh'[call'[c].tab].st # "idle" /\ call'[c].retried
    BY DEF NobodyForgotten, UnderWay
  <2>1. call'[c] = call[c] /\ call[c].tab # t /\ call[c].tab \in Tabs
    BY <1>4 DEF NoCall, PairsAreKnown
  <2> QED
    BY <1>3, <2>1 DEF NobodyForgotten, UnderWay
<1> QED
  BY <1>6, <1>7, <1>8, <1>9, <1>10, <1>11, <1>12

LEMMA Stutter ==
  ASSUME IInv, UNCHANGED vars
  PROVE  IInv'
BY DEF vars, page, api, history, IInv, TypeOK, PairsAreKnown, RefreshesAreSound,
       NewPairsAreUnused, OrphansAreAbandoned, UsedPairIsReplaced, TokensAreShown,
       NobodyForgotten, Issued, UnderWay

LEMMA NextStep ==
  ASSUME IInv, Next
  PROVE  IInv'
<1>1. CASE \E c \in Calls : Begin(c) \/ Receive(c)
  BY <1>1, QuietStep, StartRefreshStep, SettleStep, LoginStep DEF Receive
<1>2. CASE \E t \in Tabs : ServeRefresh(t) \/ ReceiveRefresh(t) \/ Reload(t)
  BY <1>2, ServeRefreshStep, ReceiveRefreshStep, ReloadStep
<1>3. CASE \E n \in Pairs : ServeOrphan(n)
  BY <1>3, ServeOrphanStep
<1> QED
  BY <1>1, <1>2, <1>3 DEF Next

(* The inductive invariant: in every reachable state of any number of tabs *)
(* and calls, whatever the API answers and whenever.                       *)
THEOREM Invariance == Spec => []IInv
  BY InitIInv, NextStep, Stutter, PTL DEF Spec

(* A refresh token that was exchanged is replaced in the storage, unless   *)
(* its page went in the middle of the refresh.                             *)
THEOREM Replaced == Spec => []UsedPairIsReplaced
<1>1. IInv => UsedPairIsReplaced
  BY DEF IInv
<1> QED
  BY <1>1, Invariance, PTL

(* The stored tokens are those of a user some tab shows, unless a refresh  *)
(* was overtaken by a logout or a login.                                   *)
THEOREM Shown == Spec => []TokensAreShown
<1>1. IInv => TokensAreShown
  BY DEF IInv
<1> QED
  BY <1>1, Invariance, PTL

(* A call that waits has a refresh to wait for. *)
THEOREM Awaited == Spec => []NobodyForgotten
<1>1. IInv => NobodyForgotten
  BY DEF IInv
<1> QED
  BY <1>1, Invariance, PTL

(* A page does not send a refresh token that was exchanged already. *)
THEOREM Once == Spec => SentOnce
<1> DEFINE Fresh(t) == \/ refresh'[t].with \notin rotated
                       \/ abandoned
                       \/ \E s \in Tabs \ {t} : UnderWay(s) /\ refresh[s].with = storage
<1>1. ASSUME IInv, Next, NEW t \in Tabs, Starts(t)
      PROVE  Fresh(t)
  <2>1. CASE \E c \in Calls : StartRefresh(c)
    <3>1. PICK c \in Calls : StartRefresh(c)
      BY <2>1
    <3>2. t = call[c].tab /\ ~UnderWay(t) /\ refresh'[t].with = storage
      BY <1>1, <3>1 DEF StartRefresh, Starts, IInv, TypeOK
    <3> QED
      BY <1>1, <3>2 DEF IInv, UsedPairIsReplaced
  <2>2. CASE ~\E c \in Calls : StartRefresh(c)
    <3>1. CASE UNCHANGED refresh
      BY <1>1, <3>1 DEF Starts
    <3>2. CASE \E s \in Tabs : ServeRefresh(s) \/ ReceiveRefresh(s) \/ Reload(s)
      BY <1>1, <3>2 DEF Starts, ServeRefresh, ReceiveRefresh, Reload, NoRefresh, IInv, TypeOK,
         Refresh
    <3> QED
      BY <1>1, <2>2, <3>1, <3>2 DEF Next, Begin, Products, SignOut, LogIn, SignUp, Start,
         Receive, ProductsDone, LogoutDone, SignupDone, LoginDone, Received, ReceiveError,
         ReceiveRefusal, ReceiveSignedOut, Reject, JoinRefresh, ServeOrphan
  <2> QED
    BY <2>1, <2>2
<1>2. ASSUME UNCHANGED vars, NEW t \in Tabs, Starts(t)
      PROVE  FALSE
  BY <1>2 DEF vars, Starts
<1>3. IInv /\ [Next]_vars => [\A t \in Tabs : Starts(t) => Fresh(t)]_vars
  BY <1>1, <1>2
<1> QED
  BY <1>3, Invariance, PTL DEF Spec, SentOnce

-----------------------------------------------------------------------------
(* The refinement of BrowserSession. *)

LEMMA PromiseInit == Init => Promise!Init
  BY DEF Init, Promise!Init, StoredUser, Renewing, UnderWay, NoRefresh

(* A pair keeps its owner, whatever is issued. *)
LEMMA OwnersStay ==
  ASSUME IInv, NEW u, NEW old,
         Issue(u, old) \/ UNCHANGED owner
  PROVE  \A n \in Issued : owner'[n] = owner[n]
<1>1. CASE Issue(u, old)
  <2>1. issued + 1 \notin Issued
    BY DEF IInv, TypeOK, Issued
  <2> QED
    BY <1>1, <2>1 DEF Issue, IInv, TypeOK
<1>2. CASE UNCHANGED owner
  BY <1>2
<1> QED
  BY <1>1, <1>2

(* A session is somebody's, and so is one that is renewed. *)
LEMMA SessionsAreOwned ==
  ASSUME IInv
  PROVE  /\ storage # 0 => storage \in Issued /\ StoredUser = owner[storage]
         /\ StoredUser \in Users \union {None}
         /\ StoredUser = None <=> storage = 0
         /\ \A t \in Tabs : UnderWay(t) =>
              /\ refresh[t].with \in Issued
              /\ Renewing[t] = owner[refresh[t].with] /\ Renewing[t] # None
<1>1. storage # 0 => storage \in Issued
  BY DEF IInv, TypeOK, Issued
<1>2. \A n \in Issued : owner[n] \in Users
  BY DEF IInv, PairsAreKnown
<1> QED
  BY <1>1, <1>2 DEF IInv, RefreshesAreSound, StoredUser, Renewing

(* Storage and refreshes as they were, and owners too: it is the same      *)
(* session, and the same renewals.                                         *)
LEMMA SameSession ==
  ASSUME IInv, \A n \in Issued : owner'[n] = owner[n]
  PROVE  /\ UNCHANGED storage => StoredUser' = StoredUser
         /\ \A t \in Tabs :
              refresh'[t].with = refresh[t].with /\ UnderWay(t)' = UnderWay(t)
                => Renewing'[t] = Renewing[t]
  BY SessionsAreOwned DEF StoredUser, Renewing

LEMMA SameRenewals ==
  ASSUME IInv, UNCHANGED refresh, \A n \in Issued : owner'[n] = owner[n]
  PROVE  Renewing' = Renewing
<1>1. \A t \in Tabs : Renewing'[t] = Renewing[t]
  BY SameSession DEF UnderWay
<1> QED
  BY <1>1 DEF Renewing

LEMMA SignedOutRefines ==
  ASSUME IInv, NEW t \in Tabs, NEW failed, SignedOut(t, failed),
         UNCHANGED <<refresh, owner>>
  PROVE  Promise!SignOut(t)
<1>1. StoredUser' = None
  BY DEF SignedOut, Store, StoredUser
<1>2. Renewing' = Renewing
  BY DEF Renewing, UnderWay
<1> QED
  BY <1>1, <1>2 DEF SignedOut, Promise!SignOut

LEMMA ReceiveRefines ==
  ASSUME IInv, NEW c \in Calls, Receive(c)
  PROVE  Promise!Next \/ UNCHANGED <<StoredUser, user, Renewing>>
<1>1. call[c].st = "sent" /\ call[c].tab \in Tabs
  BY DEF Receive, ProductsDone, LogoutDone, SignupDone, LoginDone, ReceiveError,
         ReceiveRefusal, ReceiveSignedOut, JoinRefresh, StartRefresh, Received,
         Retriable, Unauthorized, IInv, PairsAreKnown
<1> DEFINE t == call[c].tab
<1>2. CASE ProductsDone(c) \/ SignupDone(c) \/ JoinRefresh(c)
  BY <1>2 DEF ProductsDone, SignupDone, JoinRefresh, Received, Refuse, page, api,
              StoredUser, Renewing, UnderWay
<1>3. CASE LogoutDone(c)
  BY <1>1, <1>3, SignedOutRefines DEF LogoutDone, Received, Promise!Next
<1>4. CASE LoginDone(c)
  <2>1. call[c].who \in Users /\ issued + 1 \in Pairs /\ issued + 1 # 0
    BY <1>4 DEF LoginDone, Received, Issue, Pairs, IInv, TypeOK, PairsAreKnown
  <2>2. StoredUser' = call[c].who
    BY <1>4, <2>1 DEF LoginDone, Issue, Store, StoredUser, IInv, TypeOK
  <2>3. Renewing' = Renewing
    BY <1>4, OwnersStay, SameRenewals DEF LoginDone, Received
  <2>4. Promise!SignIn(t, call[c].who)
    BY <1>4, <2>2, <2>3 DEF LoginDone, Promise!SignIn
  <2> QED
    BY <1>1, <2>1, <2>4 DEF Promise!Next
<1>5. CASE ReceiveError(c) \/ ReceiveRefusal(c) \/ ReceiveSignedOut(c)
  <2>1. Reject(c) /\ UNCHANGED <<refresh, owner>>
    BY <1>5 DEF ReceiveError, ReceiveRefusal, ReceiveSignedOut, Reject, Refuse, api
  <2>2. CASE call[c].kind = "logout"
    BY <1>1, <2>1, <2>2, SignedOutRefines DEF Reject, Promise!Next
  <2>3. CASE call[c].kind # "logout"
    BY <2>1, <2>3 DEF Reject, page, StoredUser, Renewing, UnderWay
  <2> QED
    BY <2>2, <2>3
<1>6. CASE StartRefresh(c)
  <2>1. /\ storage # 0 /\ ~UnderWay(t)
        /\ refresh' = [refresh EXCEPT ![t] = [st |-> "sent", with |-> storage, got |-> 0]]
        /\ UNCHANGED <<storage, user, owner>>
    BY <1>6 DEF StartRefresh, Refuse, page
  <2>2. StoredUser' = StoredUser /\ StoredUser # None
    BY <2>1, SessionsAreOwned DEF StoredUser
  <2>3. Renewing[t] = None
    BY <1>1, <2>1 DEF Renewing
  <2>4. Renewing'[t] = StoredUser
    BY <1>1, <2>1, SessionsAreOwned DEF Renewing, UnderWay, IInv, TypeOK
  <2>5. \A s \in Tabs \ {t} : Renewing'[s] = Renewing[s]
    BY <1>1, <2>1 DEF Renewing, UnderWay, IInv, TypeOK
  <2>6. Renewing' = [Renewing EXCEPT ![t] = StoredUser]
    BY <2>4, <2>5 DEF Renewing
  <2>7. Promise!Renew(t)
    BY <2>1, <2>2, <2>3, <2>6 DEF Promise!Renew
  <2> QED
    BY <1>1, <2>7 DEF Promise!Next
<1> QED
  BY <1>2, <1>3, <1>4, <1>5, <1>6 DEF Receive

(* What the API does with a refresh, nobody sees before the answer. *)
LEMMA ServeStutters ==
  ASSUME IInv,
         \/ \E t \in Tabs : ServeRefresh(t)
         \/ \E n \in Pairs : ServeOrphan(n)
  PROVE  UNCHANGED <<StoredUser, user, Renewing>>
<1>1. \A n \in Issued : owner'[n] = owner[n]
  BY OwnersStay DEF ServeRefresh, ServeOrphan, Exchange, Reused, api
<1>2. UNCHANGED <<storage, user>>
  BY DEF ServeRefresh, ServeOrphan, page
<1>3. ASSUME NEW s \in Tabs
      PROVE  refresh'[s].with = refresh[s].with /\ UnderWay(s)' = UnderWay(s)
  <2>1. ASSUME NEW t \in Tabs, ServeRefresh(t)
        PROVE  refresh'[s].with = refresh[s].with /\ UnderWay(s)' = UnderWay(s)
    <3>1. /\ refresh[t].st = "sent"
          /\ \E m : refresh' = [refresh EXCEPT ![t].st = "served", ![t].got = m]
      BY <2>1 DEF ServeRefresh
    <3> QED
      BY <1>3, <3>1 DEF UnderWay, IInv, TypeOK, Refresh
  <2>2. ASSUME NEW n \in Pairs, ServeOrphan(n)
        PROVE  refresh'[s].with = refresh[s].with /\ UnderWay(s)' = UnderWay(s)
    BY <2>2 DEF ServeOrphan, UnderWay
  <2> QED
    BY <2>1, <2>2
<1>4. \A s \in Tabs : Renewing'[s] = Renewing[s]
  BY <1>1, <1>3, SameSession
<1> QED
  BY <1>1, <1>2, <1>4, SameSession DEF Renewing

LEMMA ReceiveRefreshRefines ==
  ASSUME IInv, NEW t \in Tabs, ReceiveRefresh(t)
  PROVE  Promise!Next
<1>1. refresh' = [refresh EXCEPT ![t] = NoRefresh] /\ UNCHANGED owner
  BY DEF ReceiveRefresh, api
<1>2. Renewing' = [Renewing EXCEPT ![t] = None]
  <2>1. Renewing'[t] = None
    BY <1>1 DEF Renewing, UnderWay, NoRefresh, IInv, TypeOK
  <2>2. \A s \in Tabs \ {t} : Renewing'[s] = Renewing[s]
    BY <1>1 DEF Renewing, UnderWay, IInv, TypeOK
  <2> QED
    BY <2>1, <2>2 DEF Renewing
<1>3. UnderWay(t) /\ Renewing[t] # None /\ Renewing[t] = owner[refresh[t].with]
  BY SessionsAreOwned DEF ReceiveRefresh, RefreshOk, RefreshFailed, UnderWay
<1>4. CASE RefreshOk(t)
  <2>1. refresh[t].got # 0 /\ owner[refresh[t].got] = owner[refresh[t].with]
    BY <1>4 DEF RefreshOk, IInv, RefreshesAreSound
  <2>2. StoredUser' = Renewing[t]
    BY <1>1, <1>3, <1>4, <2>1 DEF RefreshOk, Store, StoredUser
  <2>3. Promise!Renewed(t)
    BY <1>2, <1>3, <1>4, <2>2 DEF RefreshOk, Promise!Renewed
  <2> QED
    BY <2>3 DEF Promise!Next
<1>5. CASE RefreshFailed(t)
  <2>1. StoredUser' = None
    BY <1>5 DEF RefreshFailed, Store, StoredUser
  <2>2. user' \in {user, [user EXCEPT ![t] = None]}
    BY <1>5 DEF RefreshFailed, IInv, TypeOK
  <2>3. Promise!NotRenewed(t)
    BY <1>2, <1>3, <2>1, <2>2 DEF Promise!NotRenewed
  <2> QED
    BY <2>3 DEF Promise!Next
<1> QED
  BY <1>4, <1>5 DEF ReceiveRefresh

LEMMA ReloadRefines ==
  ASSUME IInv, NEW t \in Tabs, Reload(t)
  PROVE  Promise!Next
<1>1. /\ refresh' = [refresh EXCEPT ![t] = NoRefresh]
      /\ user' = [user EXCEPT ![t] = StoredUser]
      /\ UNCHANGED <<storage, owner>>
  BY DEF Reload, api
<1>2. Renewing' = [Renewing EXCEPT ![t] = None]
  <2>1. Renewing'[t] = None
    BY <1>1 DEF Renewing, UnderWay, NoRefresh, IInv, TypeOK
  <2>2. \A s \in Tabs \ {t} : Renewing'[s] = Renewing[s]
    BY <1>1 DEF Renewing, UnderWay, IInv, TypeOK
  <2> QED
    BY <2>1, <2>2 DEF Renewing
<1>3. Promise!Reload(t)
  BY <1>1, <1>2 DEF StoredUser, Promise!Reload
<1> QED
  BY <1>3 DEF Promise!Next

(* The browser's session and what its tabs show change only as             *)
(* BrowserSession says: a renewal brings back the user it began with,      *)
(* however many calls, tabs and logins cross it.                           *)
THEOREM Refinement == Spec => ImplementsSession
<1>1. IInv /\ [Next]_vars => [Promise!Next]_(Promise!vars)
  <2> SUFFICES ASSUME IInv, [Next]_vars
               PROVE  Promise!Next \/ UNCHANGED <<StoredUser, user, Renewing>>
    BY DEF Promise!vars
  <2>1. CASE \E c \in Calls : Begin(c)
    BY <2>1 DEF Begin, Products, SignOut, LogIn, SignUp, Start, page, api,
                StoredUser, Renewing, UnderWay
  <2>2. CASE \E c \in Calls : Receive(c)
    BY <2>2, ReceiveRefines
  <2>3. CASE (\E t \in Tabs : ServeRefresh(t)) \/ \E n \in Pairs : ServeOrphan(n)
    BY <2>3, ServeStutters
  <2>4. CASE \E t \in Tabs : ReceiveRefresh(t) \/ Reload(t)
    BY <2>4, ReceiveRefreshRefines, ReloadRefines
  <2>5. CASE UNCHANGED vars
    BY <2>5 DEF vars, page, api, StoredUser, Renewing, UnderWay
  <2> QED
    BY <2>1, <2>2, <2>3, <2>4, <2>5 DEF Next
<1> QED
  BY PromiseInit, <1>1, Invariance, PTL DEF Spec, ImplementsSession, Promise!Spec
=============================================================================
