---------------------------- MODULE AuthSessions ----------------------------
(***************************************************************************)
(* The session core of @lambder/auth: AuthService.login / refresh /        *)
(* logout, the JWTs they sign and verify, and the Redis whitelist that     *)
(* decides whether a signed token still counts.                            *)
(*                                                                         *)
(* A request is one HTTP call handled by one Lambda invocation.  Each      *)
(* await of the service (a signature, one Redis command) is one action, so *)
(* the steps of concurrent requests interleave exactly at the awaits.      *)
(***************************************************************************)
EXTENDS Integers

CONSTANTS Users,       \* accounts, by user id
          Requests,    \* HTTP calls; each one is handled once
          None,        \* no user, no token
          AccessTtl,   \* JWT_ACCESS_TTL
          RefreshTtl,  \* JWT_REFRESH_TTL
          MaxTime      \* bound on the clock

Kinds == {"access", "refresh"}

(* randomUUID() never repeats and a request signs at most one token of     *)
(* each kind, so the request and the kind identify the jti.                *)
Jti == Requests \X Kinds

ASSUME TtlAssumption == AccessTtl \in Nat \ {0} /\ RefreshTtl \in Nat \ {0}
ASSUME ClockAssumption == MaxTime \in Nat
ASSUME NoneAssumption == None \notin Jti /\ None \notin Users

VARIABLES
  now,        \* the clock, in seconds
  pc,         \* pc[r]: the await request r is at, or the answer it was given
  user,       \* user[r]: the user the request acts for (claims.sub)
  presented,  \* presented[r]: the verified token the request carries
  exp,        \* exp[j]: the exp claim of the signed token j, 0 if not signed
  whitelist,  \* whitelist[j]: when jwt:wl:<user>:<j> expires, 0 if absent
  doomed,     \* doomed[r]: keys of the user that were live when the scan began
  batch,      \* batch[r]: DEL commands of the pipeline not executed yet
  revokedBy   \* revokedBy[j]: history, the requests that have deleted key j

vars == <<now, pc, user, presented, exp, whitelist, doomed, batch, revokedBy>>
token == <<user, presented>>        \* what a request carries
redis == <<whitelist, revokedBy>>   \* the store and its history
massRevoke == <<doomed, batch>>     \* the progress of revokeAll

Issuing == {"signAccess", "signRefresh", "setAccess", "setRefresh", "reply"}
Revoking == {"scan", "scanning", "pipeline"}
Active == Issuing \union Revoking \union {"check", "rotate", "guard", "logout"}
Answers == {"pair", "loggedOut", "INVALID_CREDENTIALS", "INVALID_TOKEN",
            "TOKEN_REVOKED", "TOKEN_REUSED", "INTERNAL"}

Ttl(kind) == IF kind = "access" THEN AccessTtl ELSE RefreshTtl

(* The user in the key of j: the sub that j was signed with. *)
Owner(j) == user[j[1]]

(* A client holds the tokens of every pair that was sent back. *)
Delivered == {j \in Jti : pc[j[1]] = "pair"}

(* Mutant of Verified: the kind claim is not looked at. *)
VerifiedAnyKind(j, kind) == exp[j] > now

(* jwt.verify: the signature is right and the exp claim is in the future. *)
Verified(j, kind) == exp[j] > now /\ j[2] = kind

(* isWhitelisted: the key exists, and Redis has not expired it. *)
Whitelisted(j) == whitelist[j] > now

(* Mutant of KeysOf: the pattern is jwt:wl:*. *)
KeysOfAnybody(u) == {j \in Jti : Whitelisted(j)}

(* The keys that match wlPattern(u). *)
KeysOf(u) == {j \in Jti : Owner(j) = u /\ Whitelisted(j)}

Init ==
  /\ now = 0
  /\ pc = [r \in Requests |-> "new"]
  /\ user = [r \in Requests |-> None]
  /\ presented = [r \in Requests |-> None]
  /\ exp = [j \in Jti |-> 0]
  /\ whitelist = [j \in Jti |-> 0]
  /\ doomed = [r \in Requests |-> {}]
  /\ batch = [r \in Requests |-> {}]
  /\ revokedBy = [j \in Jti |-> {}]

Step(r, from, to) ==
  /\ pc[r] = from
  /\ pc' = [pc EXCEPT ![r] = to]

-----------------------------------------------------------------------------
(* login, and issueTokenPair, which login and refresh end with. *)

Login(r, u) ==
  /\ Step(r, "new", "signAccess")
  /\ user' = [user EXCEPT ![r] = u]
  /\ UNCHANGED <<now, presented, exp, redis, massRevoke>>

LoginRefused(r) ==
  /\ Step(r, "new", "INVALID_CREDENTIALS")
  /\ UNCHANGED <<now, token, exp, redis, massRevoke>>

(* jwt.sign: the exp claim counts from the moment of signing. *)
Sign(r, kind) ==
  /\ exp' = [exp EXCEPT ![<<r, kind>>] = now + Ttl(kind)]
  /\ UNCHANGED <<now, token, redis, massRevoke>>

SignAccess(r) == Step(r, "signAccess", "signRefresh") /\ Sign(r, "access")
SignRefresh(r) == Step(r, "signRefresh", "setAccess") /\ Sign(r, "refresh")

(* Mutant of SetEx: both keys get the ttl of the access token. *)
SetExShort(r, kind) ==
  /\ whitelist' = [whitelist EXCEPT ![<<r, kind>>] = now + AccessTtl]
  /\ UNCHANGED <<now, token, exp, massRevoke, revokedBy>>

(* tokens.whitelist: SETEX, whose ttl counts from the moment of the write. *)
SetEx(r, kind) ==
  /\ whitelist' = [whitelist EXCEPT ![<<r, kind>>] = now + Ttl(kind)]
  /\ UNCHANGED <<now, token, exp, massRevoke, revokedBy>>

(* Mutant of SetAccess: the refresh key is never written. *)
SetAccessOnly(r) == Step(r, "setAccess", "reply") /\ SetEx(r, "access")

(* Mutant of SetRefresh: the access key is written once more. *)
SetBothAgain(r) ==
  /\ Step(r, "setRefresh", "reply")
  /\ whitelist' = [j \in Jti |-> IF j[1] = r THEN now + Ttl(j[2]) ELSE whitelist[j]]
  /\ UNCHANGED <<now, token, exp, massRevoke, revokedBy>>

SetAccess(r) == Step(r, "setAccess", "setRefresh") /\ SetEx(r, "access")
SetRefresh(r) == Step(r, "setRefresh", "reply") /\ SetEx(r, "refresh")

Reply(r) ==
  /\ Step(r, "reply", "pair")
  /\ UNCHANGED <<now, token, exp, redis, massRevoke>>

-----------------------------------------------------------------------------
(* refresh *)

(* DEL jwt:wl:<user>:<j>. *)
Del(r, j) ==
  /\ whitelist' = [whitelist EXCEPT ![j] = 0]
  /\ revokedBy' = [revokedBy EXCEPT ![j] = @ \union {r}]

Refresh(r, j) ==
  /\ Verified(j, "refresh")
  /\ Step(r, "new", "check")
  /\ user' = [user EXCEPT ![r] = Owner(j)]
  /\ presented' = [presented EXCEPT ![r] = j]
  /\ UNCHANGED <<now, exp, redis, massRevoke>>

(* An expired or foreign token, or one of the wrong kind: by refresh or by *)
(* the guard of logout.                                                    *)
TokenRefused(r) ==
  /\ Step(r, "new", "INVALID_TOKEN")
  /\ UNCHANGED <<now, token, exp, redis, massRevoke>>

RefreshCheck(r) ==
  /\ Step(r, "check", IF Whitelisted(presented[r]) THEN "rotate" ELSE "scan")
  /\ UNCHANGED <<now, token, exp, redis, massRevoke>>

(* Mutant of RefreshRevoke: a DEL without a reply starts refresh anew. *)
RefreshRetried(r) ==
  /\ \E next \in {"signAccess", "check"} : Step(r, "rotate", next)
  /\ Del(r, presented[r])
  /\ UNCHANGED <<now, token, exp, massRevoke>>

(* The reply of DEL, which says whether the key was there, is not read. *)
RefreshRevoke(r) ==
  /\ Step(r, "rotate", "signAccess")
  /\ Del(r, presented[r])
  /\ UNCHANGED <<now, token, exp, massRevoke>>

(* Mutant of ScanStart: it waits for a first key, and there may be none. *)
ScanStartNonEmpty(r) ==
  /\ Step(r, "scan", "scanning")
  /\ KeysOf(user[r]) # {}
  /\ doomed' = [doomed EXCEPT ![r] = KeysOf(user[r])]
  /\ UNCHANGED <<now, token, exp, redis, batch>>

(* Mutant of ScanEnd: only the first reply of SCAN is used. *)
ScanEndFirstPage(r) ==
  /\ Step(r, "scanning", "pipeline")
  /\ \E K \in SUBSET KeysOf(user[r]) : batch' = [batch EXCEPT ![r] = K]
  /\ UNCHANGED <<now, token, exp, redis, doomed>>

(* revokeAll: SCAN runs in several calls.  It returns every key that is    *)
(* there from its first call to its last, and may miss or return a key     *)
(* that is set in between.                                                 *)
ScanStart(r) ==
  /\ Step(r, "scan", "scanning")
  /\ doomed' = [doomed EXCEPT ![r] = KeysOf(user[r])]
  /\ UNCHANGED <<now, token, exp, redis, batch>>

ScanEnd(r) ==
  /\ Step(r, "scanning", "pipeline")
  /\ \E K \in SUBSET KeysOf(user[r]) :
       /\ doomed[r] \intersect KeysOf(user[r]) \subseteq K
       /\ batch' = [batch EXCEPT ![r] = K]
  /\ UNCHANGED <<now, token, exp, redis, doomed>>

(* The pipeline is not a transaction: other commands run between its DELs. *)
PipelineDel(r, j) ==
  /\ pc[r] = "pipeline"
  /\ Del(r, j)
  /\ batch' = [batch EXCEPT ![r] = @ \ {j}]
  /\ UNCHANGED <<now, pc, token, exp, doomed>>

(* exec() resolves even when Redis answered some DELs with an error, and   *)
(* revokeAll does not look at the answers: those keys stay in batch[r].    *)
PipelineDone(r) ==
  /\ Step(r, "pipeline", "TOKEN_REUSED")
  /\ UNCHANGED <<now, token, exp, redis, massRevoke>>

-----------------------------------------------------------------------------
(* POST /auth/logout behind jwtAuth *)

Logout(r, j) ==
  /\ Verified(j, "access")
  /\ Step(r, "new", "guard")
  /\ user' = [user EXCEPT ![r] = Owner(j)]
  /\ presented' = [presented EXCEPT ![r] = j]
  /\ UNCHANGED <<now, exp, redis, massRevoke>>

GuardCheck(r) ==
  /\ Step(r, "guard",
          IF Whitelisted(presented[r]) THEN "logout" ELSE "TOKEN_REVOKED")
  /\ UNCHANGED <<now, token, exp, redis, massRevoke>>

LogoutRevoke(r) ==
  /\ Step(r, "logout", "loggedOut")
  /\ Del(r, presented[r])
  /\ UNCHANGED <<now, token, exp, massRevoke>>

-----------------------------------------------------------------------------
(* A Redis or database error (answered 500 by errorMapper), the end of the *)
(* Lambda's ten seconds, or a reply that is lost.  What the invocation did *)
(* to Redis stays; only its own memory of the scan is gone.                *)
Abort(r) ==
  /\ pc[r] \in Active
  /\ pc' = [pc EXCEPT ![r] = "INTERNAL"]
  /\ doomed' = [doomed EXCEPT ![r] = {}]
  /\ batch' = [batch EXCEPT ![r] = {}]
  /\ UNCHANGED <<now, token, exp, redis>>

Tick ==
  /\ now < MaxTime
  /\ now' = now + 1
  /\ UNCHANGED <<pc, token, exp, redis, massRevoke>>

Issue(r) ==
  SignAccess(r) \/ SignRefresh(r) \/ SetAccess(r) \/ SetRefresh(r) \/ Reply(r)

RevokeAll(r) ==
  \/ ScanStart(r) \/ ScanEnd(r)
  \/ \E j \in batch[r] : PipelineDel(r, j)
  \/ PipelineDone(r)

(* What the invocation of r does next, once it has begun. *)
Continue(r) ==
  \/ Issue(r) \/ RevokeAll(r)
  \/ RefreshCheck(r) \/ RefreshRevoke(r)
  \/ GuardCheck(r) \/ LogoutRevoke(r)

Begin(r) ==
  \/ \E u \in Users : Login(r, u)
  \/ \E j \in Delivered : Refresh(r, j) \/ Logout(r, j)
  \/ LoginRefused(r) \/ TokenRefused(r)

Next ==
  \/ \E r \in Requests : Begin(r) \/ Continue(r) \/ Abort(r)
  \/ Tick

Spec == Init /\ [][Next]_vars

(* Lambda runs an invocation to its end; nothing forces a request to come, *)
(* an error to strike or the clock to be read.                             *)
FairSpec == Spec /\ \A r \in Requests : WF_vars(Continue(r))

-----------------------------------------------------------------------------
(* Types, and what is at once true of the request states. *)
TypeOK ==
  /\ now \in 0..MaxTime
  /\ pc \in [Requests -> {"new"} \union Active \union Answers]
  /\ user \in [Requests -> Users \union {None}]
  /\ presented \in [Requests -> Jti \union {None}]
  /\ exp \in [Jti -> Nat]
  /\ whitelist \in [Jti -> Nat]
  /\ doomed \in [Requests -> SUBSET Jti]
  /\ batch \in [Requests -> SUBSET Jti]
  /\ revokedBy \in [Jti -> SUBSET Requests]

(* A deleted key never comes back: no SETEX of a slow request lands after  *)
(* a mass revoke, a logout or a rotation has deleted the same key.         *)
RevokedStaysRevoked ==
  \A j \in Jti : revokedBy[j] # {} => whitelist[j] = 0

(* "whitelisting both jti's so the token-store treats them as live until   *)
(* logout / revoke" (auth.service.ts): every token of a pair a client has  *)
(* received counts until it expires by its own exp claim, unless a request *)
(* has deleted its key.  The key is written after the token is signed, and *)
(* must not expire first.                                                  *)
DeliveredLiveUntilRevoked ==
  \A j \in Delivered : exp[j] > now => Whitelisted(j) \/ revokedBy[j] # {}

(* A key is deleted only by a request acting for its own user, and then    *)
(* only by one that carried that very token or that mass-revokes.          *)
RevocationIsScoped ==
  \A j \in Jti : \A q \in revokedBy[j] :
    /\ user[q] = Owner(j)
    /\ \/ presented[q] = j
       \/ /\ presented[q] \in Requests \X {"refresh"}
          /\ pc[q] \in {"pipeline", "TOKEN_REUSED", "INTERNAL"}

(* A finished mass revoke has killed every key that was live when its SCAN *)
(* began, whatever logins, refreshes and logouts ran at the same time; the *)
(* only survivors are keys whose DEL Redis refused.                        *)
ReuseRevokesDoomed ==
  \A r \in Requests :
    pc[r] = "TOKEN_REUSED" =>
      \A j \in doomed[r] : Whitelisted(j) => j \in batch[r]

(* Nobody is signed out everywhere for nothing: a refresh that starts a    *)
(* mass revoke carried a token that some other request had revoked, or     *)
(* that expired between its verification and the lookup.                   *)
ReuseVerdictJustified ==
  \A r \in Requests :
    pc[r] \in Revoking \union {"TOKEN_REUSED"} =>
      \/ exp[presented[r]] <= now
      \/ \E q \in Requests \ {r} : q \in revokedBy[presented[r]]

(* A request whose mass revoke has deleted a key besides the one it carried. *)
Reaps(r) == \E j \in Jti : r \in revokedBy[j] /\ presented[r] # j

(* It is in the branch of reuse detection, or was cut off on the way through. *)
MassRevokes(r) == pc[r] \in Revoking \union {"TOKEN_REUSED"} \/ Reaps(r)

CarriesRefresh(r, u) == user[r] = u /\ presented[r] \in Requests \X {"refresh"}

SentTwice(u) ==
  \E r, q \in Requests : r # q /\ CarriesRefresh(r, u) /\ presented[q] = presented[r]

ExpiredOnTheWay(u) ==
  \E r \in Requests : MassRevokes(r) /\ CarriesRefresh(r, u) /\ exp[presented[r]] <= now

(* The sessions of a user whose clients send each refresh token once, and  *)
(* in time, are never ended by reuse detection: whatever logouts, other    *)
(* devices, rotations that overlap or break off and mass revokes of other  *)
(* users do, behind every mass revoke, and every verdict that follows from *)
(* it, is a refresh token that two calls have brought, or one that expired *)
(* on its way to the lookup.                                               *)
OnlyReuseEndsSessions ==
  \A r \in Requests :
    MassRevokes(r) => SentTwice(user[r]) \/ ExpiredOnTheWay(user[r])

(* The store keeps the promise of TokenLifecycle. *)
TokenStatus ==
  [j \in Jti |-> IF revokedBy[j] # {} THEN "dead"
                 ELSE IF whitelist[j] = 0 THEN "fresh"
                 ELSE IF whitelist[j] > now THEN "live" ELSE "dead"]

Lifecycle == INSTANCE TokenLifecycle
  WITH Token <- Jti, status <- TokenStatus, handed <- Delivered

ImplementsLifecycle == Lifecycle!Spec

(* Every request that began is answered: no step of a concurrent request   *)
(* can leave it at an await for ever.                                      *)
EveryRequestAnswered ==
  \A r \in Requests : pc[r] # "new" ~> pc[r] \in Answers

-----------------------------------------------------------------------------
(* The inductive invariant behind the safety properties.                   *)

(* The request states after the SETEX of a kind. *)
HasSet(kind) ==
  {"reply", "pair"} \union (IF kind = "access" THEN {"setRefresh"} ELSE {})

(* A key has been in the store: it is there now, or somebody deleted it. *)
Touched(j) == whitelist[j] # 0 \/ revokedBy[j] # {}

(* What a request carries: a token of the right kind, which some client    *)
(* received, on behalf of the user it was issued to.                       *)
CarriedTokens ==
  \A r \in Requests :
    /\ pc[r] \in {"check", "rotate", "TOKEN_REUSED"} \union Revoking =>
         presented[r] \in Requests \X {"refresh"}
    /\ pc[r] \in {"guard", "logout", "loggedOut", "TOKEN_REVOKED"} =>
         presented[r] \in Requests \X {"access"}
    /\ presented[r] # None =>
         /\ presented[r] \in Delivered
         /\ user[r] = Owner(presented[r])
         /\ pc[r] # "new"

(* A key enters the store only by the SETEX of its own request... *)
NoEarlyKeys ==
  \A j \in Jti : Touched(j) => pc[j[1]] \in HasSet(j[2]) \union {"INTERNAL"}

(* ...which has happened before the pair is sent. *)
NoLateKeys ==
  \A j \in Jti :
    pc[j[1]] \in HasSet(j[2]) =>
      Touched(j) /\ (whitelist[j] >= exp[j] \/ revokedBy[j] # {})

(* The exp claim lies at most one ttl ahead, so a later SETEX covers it. *)
ExpWithinTtl ==
  \A j \in Jti : exp[j] <= now + Ttl(j[2])

(* What revokeAll collects: keys of its own user that have been set. *)
CollectedKeys ==
  \A r \in Requests : \A j \in doomed[r] \union batch[r] :
    /\ Touched(j)
    /\ Owner(j) = user[r]
    /\ pc[r] \in {"scanning", "pipeline", "TOKEN_REUSED"}

(* A key live since the scan began is still among the commands to come. *)
DoomedInBatch ==
  \A r \in Requests :
    pc[r] \in {"pipeline", "TOKEN_REUSED"} =>
      \A j \in doomed[r] : Whitelisted(j) => j \in batch[r]

(* A request that has not come to a DEL has revoked nothing. *)
NoEarlyRevocation ==
  \A r \in Requests :
    pc[r] \in {"new", "check", "rotate", "guard", "logout", "scan", "scanning"} =>
      \A j \in Jti : r \notin revokedBy[j]

(* The invariant of the store: each part above, and the properties that    *)
(* need one another to be preserved.                                       *)
IInv ==
  /\ TypeOK
  /\ CarriedTokens
  /\ NoEarlyKeys
  /\ NoLateKeys
  /\ ExpWithinTtl
  /\ RevokedStaysRevoked
  /\ CollectedKeys
  /\ DoomedInBatch
  /\ NoEarlyRevocation
  /\ RevocationIsScoped
  /\ ReuseVerdictJustified

-----------------------------------------------------------------------------
(* What a test of the repository says, and the code does not do: a refresh *)
(* token buys one new pair ("rotates", auth.service.test.ts).              *)
RotateAtMostOnce ==
  \A r, q \in Requests :
    /\ pc[r] = "pair" /\ pc[q] = "pair"
    /\ presented[r] # None /\ presented[r] = presented[q]
    => r = q
=============================================================================
