----------------------------- MODULE WebClient -----------------------------
(***************************************************************************)
(* The session handling of the web client: the axios interceptors of       *)
(* api-client.ts, the tokens in localStorage, and the React state of       *)
(* use-auth.tsx, in several tabs of one browser.  A tab runs one task at a *)
(* time; between a request and its answer everything else may happen.      *)
(* AuthSessions models what is inside the API: here a refresh is one step  *)
(* of it, and any other request takes its effect in the step that receives *)
(* the answer; what a request does whose answer is lost or whose page is   *)
(* gone, the client does not see: pairs it never gets, a token refused.    *)
(***************************************************************************)
EXTENDS Integers

CONSTANTS Tabs,      \* they share the storage, and nothing else
          Users,
          Calls,     \* apiClient requests that can be under way at once
          MaxPairs,  \* bound: token pairs issued
          None       \* nobody; no tab

ASSUME PairsAssumption == MaxPairs \in Nat
ASSUME NoneAssumption == None \notin Users /\ None \notin Tabs

VARIABLES
  storage,    \* the pair in localStorage; 0 is none
  user,       \* user[t]: whom tab t shows as signed in
  refresh,    \* refresh[t]: the promise refreshInflight of tab t
  call,       \* call[c]: an apiClient request, until its promise settles
  issued,     \* pairs issued, numbered from 1
  owner,      \* owner[n]: the account of pair n
  refused,    \* pairs whose access token the API has refused or ended
  live,       \* pairs whose refresh token may be exchanged
  orphans,    \* refresh tokens on the wire whose page is gone
  rotated,    \* history: the pairs that were exchanged
  abandoned,  \* history: a page went while it was refreshing the stored pair
  straggler   \* history: the stored pair descends from one that was replaced
              \* while its refresh was under way

page == <<storage, user>>
api == <<issued, owner, refused, live, rotated>>
history == <<abandoned, straggler>>
vars == <<page, refresh, call, api, orphans, history>>

Pairs == 1 .. MaxPairs
Kinds == {"products", "login", "signup", "logout"}

NoCall == [st |-> "idle", kind |-> "products", tab |-> None, who |-> None,
           bearer |-> 0, retried |-> FALSE]
NoRefresh == [st |-> "idle", with |-> 0, got |-> 0]

(* loadInitialUser: the sub of the stored access token, not verified. *)
StoredUser == IF storage = 0 THEN None ELSE owner[storage]

Init ==
  /\ storage = 0
  /\ user = [t \in Tabs |-> None]
  /\ refresh = [t \in Tabs |-> NoRefresh]
  /\ call = [c \in Calls |-> NoCall]
  /\ issued = 0
  /\ owner = [n \in Pairs |-> None]
  /\ refused = {} /\ live = {} /\ rotated = {} /\ orphans = {}
  /\ abandoned = FALSE /\ straggler = FALSE

-----------------------------------------------------------------------------
(* Requests.  The interceptor attaches whatever is stored when it is sent. *)

Attach(c, k, t, u, again) ==
  call' = [call EXCEPT ![c] = [st |-> "sent", kind |-> k, tab |-> t, who |-> u,
                               bearer |-> storage, retried |-> again]]

Start(c, k, t, u) ==
  /\ call[c].st = "idle"
  /\ Attach(c, k, t, u, FALSE)
  /\ UNCHANGED <<page, refresh, api, orphans, history>>

(* Creating or deleting a product; the page is for signed in users only.   *)
Products(c, t) == user[t] # None /\ Start(c, "products", t, None)

(* The button is on the same page. *)
SignOut(c, t) == user[t] # None /\ Start(c, "logout", t, None)

LogIn(c, t, u) == Start(c, "login", t, u)

SignUp(c, t, u) == Start(c, "signup", t, u)

-----------------------------------------------------------------------------
(* The API.  An access token may expire, or be revoked from elsewhere, at  *)
(* any moment; that it has is seen at its next use, and is final.          *)

(* jwtAuth lets the request pass. *)
Accepted(c) == call[c].bearer \in Pairs \ refused


(* A new pair for u replaces the refresh token old, if there is one. *)
Issue(u, old) ==
  /\ issued < MaxPairs
  /\ issued' = issued + 1
  /\ owner' = [owner EXCEPT ![issued + 1] = u]
  /\ live' = (live \ old) \union {issued + 1}
  /\ rotated' = rotated \union old
  /\ UNCHANGED refused

(* POST /auth/refresh with token n: a token that is live is exchanged; any *)
(* other ends all sessions of its owner.                                   *)
Exchange(n) == n \in live /\ Issue(owner[n], {n})

Reused(n) ==
  /\ n \notin live
  /\ live' = {m \in live : owner[m] # owner[n]}
  /\ UNCHANGED <<issued, owner, refused, rotated>>

ServeRefresh(t) ==
  LET n == refresh[t].with
      Reply(m) == refresh' = [refresh EXCEPT ![t].st = "served", ![t].got = m]
  IN  /\ refresh[t].st = "sent"
      /\ \/ Exchange(n) /\ (Reply(issued + 1) \/ Reply(0))
         \/ Reused(n) /\ Reply(0)
         \/ Reply(0) /\ UNCHANGED api
      /\ UNCHANGED <<page, call, orphans, history>>

(* A refresh whose page is gone gets to the API all the same, or is lost. *)
ServeOrphan(n) ==
  /\ n \in orphans
  /\ orphans' = orphans \ {n}
  /\ Exchange(n) \/ Reused(n) \/ UNCHANGED api
  /\ UNCHANGED <<page, refresh, call, history>>

-----------------------------------------------------------------------------
(* Answers.  The promise settles, and its caller's code runs at once. *)

(* Mutant of UnderWay: "=" for "??=", each 401 starts a refresh. *)
NeverUnderWay(t) == FALSE

(* refreshInflight is not null. *)
UnderWay(t) == refresh[t].st # "idle"

Settled(c) == call' = [call EXCEPT ![c] = NoCall]

(* setTokens, or clear: both keys change in one task. *)
Store(n) ==
  /\ storage' = n
  /\ abandoned' = FALSE

(* Mutant of SignedOut: a rejected logout is handed to the caller, who     *)
(* navigates away, before the tokens are cleared.                          *)
SignedOutRethrows(t, failed) ==
  /\ IF failed THEN UNCHANGED <<storage, history>>
               ELSE Store(0) /\ straggler' = FALSE
  /\ user' = [user EXCEPT ![t] = None]

(* The end of logout, whatever became of its call. *)
SignedOut(t, failed) ==
  /\ Store(0) /\ straggler' = FALSE
  /\ user' = [user EXCEPT ![t] = None]

(* The promise of call c rejects; only logout has more to do. *)
Reject(c) ==
  /\ Settled(c)
  /\ IF call[c].kind = "logout" THEN SignedOut(call[c].tab, TRUE)
     ELSE UNCHANGED <<page, history>>
  /\ UNCHANGED <<refresh, orphans>>

Received(c, kind) ==
  /\ call[c].st = "sent" /\ call[c].kind = kind
  /\ UNCHANGED <<refresh, orphans>>

(* The caller shows a toast, and fetches the list anew. *)
ProductsDone(c) ==
  /\ Received(c, "products") /\ Accepted(c)
  /\ Settled(c)
  /\ UNCHANGED <<page, api, history>>

LogoutDone(c) ==
  /\ Received(c, "logout") /\ Accepted(c)
  /\ Settled(c)
  /\ SignedOut(call[c].tab, FALSE)
  /\ refused' = refused \union {call[c].bearer}
  /\ UNCHANGED <<issued, owner, live, rotated>>

(* signup goes on with a login. *)
SignupDone(c) ==
  /\ Received(c, "signup")
  /\ Attach(c, "login", call[c].tab, call[c].who, FALSE)
  /\ UNCHANGED <<page, api, history>>

LoginDone(c) ==
  /\ Received(c, "login")
  /\ Settled(c)
  /\ Issue(call[c].who, {})
  /\ Store(issued + 1) /\ straggler' = FALSE
  /\ user' = [user EXCEPT ![call[c].tab] = call[c].who]

(* 401: a token that is not accepted, or a wrong password; POST            *)
(* /auth/signup has no such answer.                                        *)
Unauthorized(c) == call[c].st = "sent" /\ call[c].kind # "signup"

(* No second refresh for a request that had one. *)
Retriable(c) == Unauthorized(c) /\ ~call[c].retried

Refuse(c) ==
  /\ refused' = IF call[c].kind = "login" THEN refused
                ELSE refused \union ({call[c].bearer} \ {0})
  /\ UNCHANGED <<issued, owner, live, rotated>>

(* Any other error, a lost request or a lost answer. *)
ReceiveError(c) ==
  /\ call[c].st = "sent"
  /\ Reject(c)
  /\ UNCHANGED api

(* A second 401 is final. *)
ReceiveRefusal(c) ==
  /\ Unauthorized(c) /\ ~Retriable(c)
  /\ Reject(c) /\ Refuse(c)

(* No refresh token: refreshAccessToken returns null, and clears nothing. *)
ReceiveSignedOut(c) ==
  /\ Retriable(c) /\ ~UnderWay(call[c].tab) /\ storage = 0
  /\ Reject(c) /\ Refuse(c)

Wait(c) == call' = [call EXCEPT ![c].st = "waiting", ![c].retried = TRUE]

JoinRefresh(c) ==
  /\ Retriable(c) /\ UnderWay(call[c].tab)
  /\ Wait(c) /\ Refuse(c)
  /\ UNCHANGED <<page, refresh, orphans, history>>

StartRefresh(c) ==
  LET t == call[c].tab
  IN  /\ Retriable(c) /\ ~UnderWay(t) /\ storage # 0
      /\ Wait(c) /\ Refuse(c)
      /\ refresh' = [refresh EXCEPT ![t] = [st |-> "sent", with |-> storage, got |-> 0]]
      /\ UNCHANGED <<page, orphans, history>>

Receive(c) ==
  \/ ProductsDone(c) \/ LogoutDone(c) \/ SignupDone(c) \/ LoginDone(c)
  \/ ReceiveError(c) \/ ReceiveRefusal(c) \/ ReceiveSignedOut(c) \/ JoinRefresh(c) \/ StartRefresh(c)

Waiting(t) == {c \in Calls : call[c].st = "waiting" /\ call[c].tab = t}

(* The tokens are stored, and every call that waited is sent once more. *)
RefreshOk(t) ==
  LET n == refresh[t].got
  IN  /\ refresh[t].st = "served" /\ n # 0
      /\ Store(n)
      /\ straggler' = (straggler \/ storage # refresh[t].with)
      /\ call' = [c \in Calls |-> IF c \in Waiting(t)
                                  THEN [call[c] EXCEPT !.st = "sent", !.bearer = n]
                                  ELSE call[c]]
      /\ UNCHANGED user

(* Mutant of RefreshFailed: the catch does not clear the storage. *)
RefreshFailedKeeps(t) ==
  /\ refresh[t].st = "served" /\ refresh[t].got = 0
  /\ call' = [c \in Calls |-> IF c \in Waiting(t) THEN NoCall ELSE call[c]]
  /\ UNCHANGED <<page, history>>

(* Mutant of RefreshFailed: who waits is not told. *)
RefreshFailedSilently(t) ==
  /\ refresh[t].st = "served" /\ refresh[t].got = 0
  /\ Store(0) /\ straggler' = FALSE
  /\ UNCHANGED <<user, call>>

(* Whatever the failure was, the storage is cleared, and every call that   *)
(* waited rejects; a logout among them still signs its page out.           *)
RefreshFailed(t) ==
  /\ refresh[t].st = "served" /\ refresh[t].got = 0
  /\ Store(0) /\ straggler' = FALSE
  /\ user' = [user EXCEPT ![t] =
                IF \E c \in Waiting(t) : call[c].kind = "logout" THEN None ELSE @]
  /\ call' = [c \in Calls |-> IF c \in Waiting(t) THEN NoCall ELSE call[c]]

ReceiveRefresh(t) ==
  /\ RefreshOk(t) \/ RefreshFailed(t)
  /\ refresh' = [refresh EXCEPT ![t] = NoRefresh]
  /\ UNCHANGED <<api, orphans>>

(* The page is loaded anew: its promises are gone, its requests are not. *)
Reload(t) ==
  /\ user' = [user EXCEPT ![t] = StoredUser]
  /\ refresh' = [refresh EXCEPT ![t] = NoRefresh]
  /\ call' = [c \in Calls |-> IF call[c].tab = t THEN NoCall ELSE call[c]]
  /\ orphans' = orphans \union {n \in Pairs : refresh[t].st = "sent" /\ n = refresh[t].with}
  /\ abandoned' = (abandoned \/ (UnderWay(t) /\ storage = refresh[t].with))
  /\ UNCHANGED <<storage, api, straggler>>

Begin(c) ==
  \E t \in Tabs :
    \/ Products(c, t) \/ SignOut(c, t)
    \/ \E u \in Users : LogIn(c, t, u) \/ SignUp(c, t, u)

Next ==
  \/ \E c \in Calls : Begin(c) \/ Receive(c)
  \/ \E t \in Tabs : ServeRefresh(t) \/ ReceiveRefresh(t) \/ Reload(t)
  \/ \E n \in Pairs : ServeOrphan(n)

Spec == Init /\ [][Next]_vars

-----------------------------------------------------------------------------
(* Types *)
Refresh == [st : {"idle", "sent", "served"}, with : 0 .. MaxPairs, got : 0 .. MaxPairs]
Call == [st : {"idle", "sent", "waiting"}, kind : Kinds, tab : Tabs \union {None},
         who : Users \union {None}, bearer : 0 .. MaxPairs, retried : BOOLEAN]

TypeOK ==
  /\ storage \in 0 .. issued
  /\ user \in [Tabs -> Users \union {None}]
  /\ refresh \in [Tabs -> Refresh]
  /\ call \in [Calls -> Call]
  /\ issued \in 0 .. MaxPairs
  /\ owner \in [Pairs -> Users \union {None}]
  /\ refused \subseteq Pairs /\ live \subseteq Pairs /\ rotated \subseteq Pairs
  /\ orphans \subseteq Pairs
  /\ abandoned \in BOOLEAN /\ straggler \in BOOLEAN

Starts(t) == refresh'[t].st = "sent" /\ refresh'[t] # refresh[t]

(* However many requests of a page get a 401, and in whatever order their  *)
(* answers come, the page does not send a refresh token that the API has   *)
(* exchanged already: that would be taken for theft, and end all sessions  *)
(* of the user.  Only another tab, or a page that was loaded anew in the   *)
(* middle of a refresh, can be at it with the same token.                  *)
SentOnce ==
  [][\A t \in Tabs : Starts(t) =>
       \/ refresh'[t].with \notin rotated
       \/ abandoned
       \/ \E s \in Tabs \ {t} : UnderWay(s) /\ refresh[s].with = storage]_vars

(* A refresh token that the API has exchanged does not stay in the storage *)
(* once its refresh is over, however that ended: the next page load would  *)
(* send it again.  Only a page that went in the middle leaves one there.   *)
UsedPairIsReplaced ==
  storage \in rotated =>
    \/ abandoned
    \/ \E t \in Tabs : UnderWay(t) /\ refresh[t].with = storage

(* The stored tokens are those of a user whom some tab shows as signed in: *)
(* logout, reload, a second login and failed calls keep the two together.  *)
(* Only a refresh that was overtaken by one of them takes them apart.      *)
TokensAreShown ==
  storage = 0 \/ straggler \/ \E t \in Tabs : user[t] = owner[storage]

(* After the last logout the browser holds no tokens until somebody logs   *)
(* in (use-auth.test.tsx: logout clears tokens and user state).            *)
SignedOutStaysOut ==
  (\A t \in Tabs : user[t] = None) => storage = 0

(* No request is forgotten: while one waits for a refresh, its tab has one *)
(* under way, whose end, whatever it is, sends or rejects all that wait;   *)
(* and none of them waits for a second one.                                *)
NobodyForgotten ==
  \A c \in Calls : call[c].st = "waiting" =>
    UnderWay(call[c].tab) /\ call[c].retried

(* Whose session each tab is renewing. *)
Renewing == [t \in Tabs |-> IF UnderWay(t) THEN owner[refresh[t].with] ELSE None]

Promise ==
  INSTANCE BrowserSession WITH session <- StoredUser, shown <- user, renewing <- Renewing

(* Tokens, queues of waiting calls and refreshes in several tabs amount to *)
(* BrowserSession: no interleaving gives the browser the tokens of a user  *)
(* other than the one whose login or renewal has ended, and none changes   *)
(* whom a tab shows but a login, a logout and a page load there.           *)
ImplementsSession == Promise!Spec

-----------------------------------------------------------------------------
(* The inductive invariant behind the safety properties.                   *)

Issued == 1 .. issued

(* Every pair that is anywhere was issued to somebody. *)
PairsAreKnown ==
  /\ live \subseteq Issued /\ rotated \subseteq Issued /\ orphans \subseteq Issued
  /\ \A n \in Issued : owner[n] \in Users
  /\ \A c \in Calls :
       /\ call[c].st # "idle" => call[c].tab \in Tabs
       /\ call[c].kind \in {"login", "signup"} => call[c].who \in Users

(* A refresh exchanges the token it sent for one of the same user. *)
RefreshesAreSound ==
  \A t \in Tabs :
    /\ UnderWay(t) => refresh[t].with \in Issued
    /\ ~UnderWay(t) => refresh[t] = NoRefresh
    /\ refresh[t].got # 0 =>
         /\ refresh[t].st = "served"
         /\ refresh[t].got \in Issued
         /\ owner[refresh[t].got] = owner[refresh[t].with]

(* A pair on its way to the browser is nowhere else. *)
NewPairsAreUnused ==
  \A t \in Tabs : LET n == refresh[t].got IN n # 0 =>
    /\ n # storage /\ n \notin rotated /\ n \notin orphans
    /\ \A s \in Tabs : refresh[s].with # n /\ (s # t => refresh[s].got # n)

(* The stored token is on the wire without a page only if one went. *)
OrphansAreAbandoned == storage \in orphans => abandoned

IInv ==
  /\ TypeOK
  /\ PairsAreKnown
  /\ RefreshesAreSound
  /\ NewPairsAreUnused
  /\ OrphansAreAbandoned
  /\ UsedPairIsReplaced
  /\ TokensAreShown
  /\ NobodyForgotten
=============================================================================
