------------------------- MODULE AuthSessionsProofs -------------------------
(***************************************************************************)
(* Proofs about AuthSessions, for any set of users and of requests, any    *)
(* ttls and any bound on the clock.                                        *)
(***************************************************************************)
EXTENDS AuthSessions, FiniteSetTheorems, TLAPS

USE TtlAssumption, ClockAssumption, NoneAssumption DEF Jti, Kinds

LEMMA TtlType == \A kind \in Kinds : Ttl(kind) \in Nat \ {0}
  BY DEF Ttl

THEOREM TypeInit == Init => TypeOK
  BY DEF Init, TypeOK

THEOREM TypeStep == TypeOK /\ [Next]_vars => TypeOK'
<1> SUFFICES ASSUME TypeOK, [Next]_vars PROVE TypeOK'
  OBVIOUS
<1> USE DEF token, redis, massRevoke
<1>1. ASSUME NEW r \in Requests, NEW u \in Users, Login(r, u) PROVE TypeOK'
  BY <1>1 DEF Login, TypeOK, Step, Active, Issuing
<1>2. ASSUME NEW r \in Requests, LoginRefused(r) PROVE TypeOK'
  BY <1>2 DEF LoginRefused, TypeOK, Step, Answers
<1>3. ASSUME NEW r \in Requests, TokenRefused(r) PROVE TypeOK'
  BY <1>3 DEF TokenRefused, TypeOK, Step, Answers
<1>4. ASSUME NEW r \in Requests, NEW j \in Delivered, Refresh(r, j) PROVE TypeOK'
  BY <1>4 DEF Refresh, Delivered, TypeOK, Step, Active, Owner
<1>5. ASSUME NEW r \in Requests, NEW j \in Delivered, Logout(r, j) PROVE TypeOK'
  BY <1>5 DEF Logout, Delivered, TypeOK, Step, Active, Owner
<1>6. ASSUME NEW r \in Requests, SignAccess(r) PROVE TypeOK'
  BY <1>6, TtlType DEF SignAccess, Sign, TypeOK, Step, Active, Issuing
<1>7. ASSUME NEW r \in Requests, SignRefresh(r) PROVE TypeOK'
  BY <1>7, TtlType DEF SignRefresh, Sign, TypeOK, Step, Active, Issuing
<1>8. ASSUME NEW r \in Requests, SetAccess(r) PROVE TypeOK'
  BY <1>8, TtlType DEF SetAccess, SetEx, TypeOK, Step, Active, Issuing
<1>9. ASSUME NEW r \in Requests, SetRefresh(r) PROVE TypeOK'
  BY <1>9, TtlType DEF SetRefresh, SetEx, TypeOK, Step, Active, Issuing
<1>10. ASSUME NEW r \in Requests, Reply(r) PROVE TypeOK'
  BY <1>10 DEF Reply, TypeOK, Step, Answers
<1>11. ASSUME NEW r \in Requests, RefreshCheck(r) PROVE TypeOK'
  BY <1>11 DEF RefreshCheck, TypeOK, Step, Active, Revoking
<1>12. ASSUME NEW r \in Requests, RefreshRevoke(r) PROVE TypeOK'
  BY <1>12 DEF RefreshRevoke, Del, TypeOK, Step, Active, Issuing
<1>13. ASSUME NEW r \in Requests, ScanStart(r) PROVE TypeOK'
  BY <1>13 DEF ScanStart, KeysOf, TypeOK, Step, Active, Revoking
<1>14. ASSUME NEW r \in Requests, ScanEnd(r) PROVE TypeOK'
  BY <1>14 DEF ScanEnd, KeysOf, TypeOK, Step, Active, Revoking
<1>15. ASSUME NEW r \in Requests, NEW j \in batch[r], PipelineDel(r, j) PROVE TypeOK'
  BY <1>15 DEF PipelineDel, Del, TypeOK
<1>16. ASSUME NEW r \in Requests, PipelineDone(r) PROVE TypeOK'
  BY <1>16 DEF PipelineDone, TypeOK, Step, Answers
<1>17. ASSUME NEW r \in Requests, GuardCheck(r) PROVE TypeOK'
  BY <1>17 DEF GuardCheck, TypeOK, Step, Active, Answers
<1>18. ASSUME NEW r \in Requests, LogoutRevoke(r) PROVE TypeOK'
  BY <1>18 DEF LogoutRevoke, Del, TypeOK, Step, Answers
<1>19. ASSUME NEW r \in Requests, Abort(r) PROVE TypeOK'
  BY <1>19 DEF Abort, TypeOK, Answers
<1>20. ASSUME Tick PROVE TypeOK'
  BY <1>20 DEF Tick, TypeOK
<1>21. ASSUME UNCHANGED vars PROVE TypeOK'
  BY <1>21 DEF vars, TypeOK
<1> QED
  BY <1>1, <1>2, <1>3, <1>4, <1>5, <1>6, <1>7, <1>8, <1>9, <1>10, <1>11, <1>12,
     <1>13, <1>14, <1>15, <1>16, <1>17, <1>18, <1>19, <1>20, <1>21
  DEF Next, Begin, Continue, Issue, RevokeAll

(* What DEL does to the key it names, and to the others. *)
Deleted(r, j) ==
  /\ whitelist' \in [Jti -> Nat] /\ revokedBy' \in [Jti -> SUBSET Requests]
  /\ whitelist'[j] = 0 /\ revokedBy'[j] = revokedBy[j] \union {r}
  /\ \A k \in Jti \ {j} : whitelist'[k] = whitelist[k] /\ revokedBy'[k] = revokedBy[k]

LEMMA DelDeletes ==
  ASSUME TypeOK, NEW r \in Requests, NEW j \in Jti, Del(r, j)
  PROVE  Deleted(r, j)
  BY DEF TypeOK, Del, Deleted

(* Rotation and logout delete the key of the token they carry. *)
LEMMA RevokeSteps ==
  ASSUME TypeOK, CarriedTokens, NEW r \in Requests,
         RefreshRevoke(r) \/ LogoutRevoke(r)
  PROVE  /\ presented[r] \in Jti
         /\ pc[presented[r][1]] = "pair"
         /\ user[r] = user[presented[r][1]]
         /\ Deleted(r, presented[r])
<1>1. /\ presented[r] \in Jti
      /\ pc[presented[r][1]] = "pair"
      /\ user[r] = user[presented[r][1]]
  BY DEF RefreshRevoke, LogoutRevoke, Step, CarriedTokens, Delivered, Owner
<1> QED
  BY <1>1, DelDeletes DEF RefreshRevoke, LogoutRevoke

(* The pipeline deletes a key of its batch. *)
LEMMA PipelineSteps ==
  ASSUME TypeOK, NEW r \in Requests, NEW j \in batch[r], PipelineDel(r, j)
  PROVE  j \in Jti /\ Deleted(r, j)
<1>1. j \in Jti
  BY DEF TypeOK
<1> QED
  BY <1>1, DelDeletes DEF PipelineDel

(* The start of a request concerns nothing but the request. *)
LEMMA BeginEffect ==
  ASSUME TypeOK, NEW r \in Requests, Begin(r)
  PROVE  /\ pc[r] = "new" /\ pc'[r] \notin {"scanning", "pipeline", "TOKEN_REUSED"}
         /\ UNCHANGED <<now, exp, whitelist, revokedBy, doomed, batch>>
         /\ \A q \in Requests \ {r} :
              pc'[q] = pc[q] /\ user'[q] = user[q] /\ presented'[q] = presented[q]
  BY DEF TypeOK, Begin, Login, LoginRefused, TokenRefused, Refresh, Logout, Step,
         token, redis, massRevoke

(* DEL leaves a trace of every key that was ever there. *)
LEMMA DeletedTouched ==
  ASSUME TypeOK, NEW r \in Requests, NEW j \in Jti, Deleted(r, j)
  PROVE  \A k \in Jti : Touched(k) => Touched(k)'
<1> TAKE k \in Jti
<1>1. CASE k = j
  BY <1>1 DEF Deleted, Touched
<1>2. CASE k # j
  BY <1>2 DEF Deleted, Touched
<1> QED
  BY <1>1, <1>2 DEF Touched

LEMMA CarriedStep ==
  ASSUME TypeOK, CarriedTokens, [Next]_vars
  PROVE  CarriedTokens'
<1> USE DEF token, redis, massRevoke, CarriedTokens, TypeOK, Delivered, Owner, Step,
       Active, Revoking, Issuing, Answers
<1>1. ASSUME NEW r \in Requests, Begin(r) PROVE CarriedTokens'
  BY <1>1 DEF Begin, Login, LoginRefused, TokenRefused, Refresh, Logout, Verified
<1>2. ASSUME NEW r \in Requests, Issue(r) PROVE CarriedTokens'
  BY <1>2 DEF Issue, SignAccess, SignRefresh, Sign, SetAccess, SetRefresh, SetEx, Reply
<1>3. ASSUME NEW r \in Requests, RevokeAll(r) PROVE CarriedTokens'
  BY <1>3 DEF RevokeAll, ScanStart, ScanEnd, PipelineDel, PipelineDone
<1>4. ASSUME NEW r \in Requests, RefreshCheck(r) \/ RefreshRevoke(r)
      PROVE CarriedTokens'
  BY <1>4 DEF RefreshCheck, RefreshRevoke
<1>5. ASSUME NEW r \in Requests, GuardCheck(r) \/ LogoutRevoke(r) PROVE CarriedTokens'
  BY <1>5 DEF GuardCheck, LogoutRevoke
<1>6. ASSUME NEW r \in Requests, Abort(r) PROVE CarriedTokens'
  BY <1>6 DEF Abort
<1>7. ASSUME Tick \/ UNCHANGED vars PROVE CarriedTokens'
  BY <1>7 DEF Tick, vars
<1> QED
  BY <1>1, <1>2, <1>3, <1>4, <1>5, <1>6, <1>7 DEF Next, Continue

LEMMA NoEarlyKeysStep ==
  ASSUME TypeOK, CarriedTokens, NoEarlyKeys, CollectedKeys, [Next]_vars
  PROVE  NoEarlyKeys'
<1> USE DEF token, redis, massRevoke, TypeOK, NoEarlyKeys, CollectedKeys, Touched,
       HasSet, Step, Active, Revoking, Issuing, Answers
<1>1. ASSUME NEW r \in Requests, Begin(r) PROVE NoEarlyKeys'
  BY <1>1 DEF Begin, Login, LoginRefused, TokenRefused, Refresh, Logout, Verified
<1>2. ASSUME NEW r \in Requests, SignAccess(r) \/ SignRefresh(r) PROVE NoEarlyKeys'
  BY <1>2, SMTT(30) DEF SignAccess, SignRefresh, Sign
<1>3. ASSUME NEW r \in Requests, SetAccess(r) PROVE NoEarlyKeys'
  BY <1>3, SMTT(30) DEF SetAccess, SetEx
<1>4. ASSUME NEW r \in Requests, SetRefresh(r) PROVE NoEarlyKeys'
  BY <1>4 DEF SetRefresh, SetEx
<1>5. ASSUME NEW r \in Requests, Reply(r) PROVE NoEarlyKeys'
  BY <1>5 DEF Reply
<1>6. ASSUME NEW r \in Requests, ScanStart(r) \/ ScanEnd(r) \/ PipelineDone(r)
      PROVE NoEarlyKeys'
  BY <1>6, SMTT(30) DEF ScanStart, ScanEnd, PipelineDone, KeysOf
<1>7. ASSUME NEW r \in Requests, NEW j \in batch[r], PipelineDel(r, j)
      PROVE NoEarlyKeys'
  <2>1. j \in Jti /\ Deleted(r, j)
    BY <1>7, PipelineSteps
  <2> QED
    BY <1>7, <2>1 DEF PipelineDel, Deleted
<1>8. ASSUME NEW r \in Requests, RefreshCheck(r) \/ GuardCheck(r) PROVE NoEarlyKeys'
  BY <1>8 DEF RefreshCheck, GuardCheck
<1>9. ASSUME NEW r \in Requests, RefreshRevoke(r) \/ LogoutRevoke(r) PROVE NoEarlyKeys'
  <2>1. /\ presented[r] \in Jti /\ Deleted(r, presented[r])
        /\ pc[presented[r][1]] = "pair" /\ user[r] = user[presented[r][1]]
    BY <1>9, RevokeSteps
  <2> QED
    BY <1>9, <2>1 DEF RefreshRevoke, LogoutRevoke, Deleted
<1>10. ASSUME NEW r \in Requests, Abort(r) PROVE NoEarlyKeys'
  BY <1>10 DEF Abort
<1>11. ASSUME Tick \/ UNCHANGED vars PROVE NoEarlyKeys'
  BY <1>11 DEF Tick, vars
<1> QED
  BY <1>1, <1>2, <1>3, <1>4, <1>5, <1>6, <1>7, <1>8, <1>9, <1>10, <1>11
  DEF Next, Continue, Issue, RevokeAll

LEMMA NoLateKeysStep ==
  ASSUME TypeOK, CarriedTokens, NoLateKeys, ExpWithinTtl, [Next]_vars
  PROVE  NoLateKeys'
<1> USE DEF token, redis, massRevoke, TypeOK, NoLateKeys, ExpWithinTtl, Touched,
       HasSet, Step, Active, Revoking, Issuing, Answers
<1>1. ASSUME NEW r \in Requests, Begin(r) PROVE NoLateKeys'
  BY <1>1 DEF Begin, Login, LoginRefused, TokenRefused, Refresh, Logout, Verified
<1>2. ASSUME NEW r \in Requests, SignAccess(r) \/ SignRefresh(r) PROVE NoLateKeys'
  BY <1>2, TtlType DEF SignAccess, SignRefresh, Sign
<1>3. ASSUME NEW r \in Requests, SetAccess(r) PROVE NoLateKeys'
  BY <1>3, TtlType DEF SetAccess, SetEx
<1>4. ASSUME NEW r \in Requests, SetRefresh(r) PROVE NoLateKeys'
  BY <1>4, TtlType DEF SetRefresh, SetEx
<1>5. ASSUME NEW r \in Requests, Reply(r) PROVE NoLateKeys'
  BY <1>5 DEF Reply
<1>6. ASSUME NEW r \in Requests, ScanStart(r) \/ ScanEnd(r) \/ PipelineDone(r)
      PROVE NoLateKeys'
  BY <1>6 DEF ScanStart, ScanEnd, PipelineDone, KeysOf
<1>7. ASSUME NEW r \in Requests, NEW j \in batch[r], PipelineDel(r, j) PROVE NoLateKeys'
  <2>1. j \in Jti /\ Deleted(r, j)
    BY <1>7, PipelineSteps
  <2>2. \A k \in Jti : \/ whitelist'[k] = whitelist[k] /\ revokedBy'[k] = revokedBy[k]
                       \/ revokedBy'[k] # {}
    BY <2>1 DEF Deleted
  <2> QED
    BY <1>7, <2>2 DEF PipelineDel
<1>8. ASSUME NEW r \in Requests, RefreshCheck(r) \/ GuardCheck(r) PROVE NoLateKeys'
  BY <1>8 DEF RefreshCheck, GuardCheck
<1>9. ASSUME NEW r \in Requests, RefreshRevoke(r) \/ LogoutRevoke(r) PROVE NoLateKeys'
  <2>1. /\ presented[r] \in Jti /\ Deleted(r, presented[r])
        /\ pc[presented[r][1]] = "pair" /\ user[r] = user[presented[r][1]]
    BY <1>9, RevokeSteps
  <2>2. \A k \in Jti : \/ whitelist'[k] = whitelist[k] /\ revokedBy'[k] = revokedBy[k]
                       \/ revokedBy'[k] # {}
    BY <2>1 DEF Deleted
  <2>3. \A k \in Jti : pc'[k[1]] \in HasSet(k[2]) => pc[k[1]] \in HasSet(k[2])
    BY <1>9 DEF RefreshRevoke, LogoutRevoke
  <2> QED
    BY <1>9, <2>2, <2>3 DEF RefreshRevoke, LogoutRevoke
<1>10. ASSUME NEW r \in Requests, Abort(r) PROVE NoLateKeys'
  BY <1>10 DEF Abort
<1>11. ASSUME Tick \/ UNCHANGED vars PROVE NoLateKeys'
  BY <1>11, TtlType DEF Tick, vars
<1> QED
  BY <1>1, <1>2, <1>3, <1>4, <1>5, <1>6, <1>7, <1>8, <1>9, <1>10, <1>11
  DEF Next, Continue, Issue, RevokeAll

LEMMA ExpWithinTtlStep ==
  ASSUME TypeOK, CarriedTokens, ExpWithinTtl, [Next]_vars
  PROVE  ExpWithinTtl'
<1> USE DEF token, redis, massRevoke, TypeOK, ExpWithinTtl, Step, Active, Revoking,
       Issuing, Answers
<1>1. ASSUME NEW r \in Requests, Begin(r) PROVE ExpWithinTtl'
  BY <1>1 DEF Begin, Login, LoginRefused, TokenRefused, Refresh, Logout, Verified
<1>2. ASSUME NEW r \in Requests, SignAccess(r) \/ SignRefresh(r) PROVE ExpWithinTtl'
  BY <1>2, TtlType DEF SignAccess, SignRefresh, Sign
<1>3. ASSUME NEW r \in Requests, SetAccess(r) PROVE ExpWithinTtl'
  BY <1>3, TtlType DEF SetAccess, SetEx
<1>4. ASSUME NEW r \in Requests, SetRefresh(r) PROVE ExpWithinTtl'
  BY <1>4, TtlType DEF SetRefresh, SetEx
<1>5. ASSUME NEW r \in Requests, Reply(r) PROVE ExpWithinTtl'
  BY <1>5 DEF Reply
<1>6. ASSUME NEW r \in Requests, ScanStart(r) \/ ScanEnd(r) \/ PipelineDone(r)
      PROVE ExpWithinTtl'
  BY <1>6 DEF ScanStart, ScanEnd, PipelineDone, KeysOf
<1>7. ASSUME NEW r \in Requests, NEW j \in batch[r], PipelineDel(r, j)
      PROVE ExpWithinTtl'
  <2>1. j \in Jti /\ Deleted(r, j)
    BY <1>7, PipelineSteps
  <2> QED
    BY <1>7, <2>1 DEF PipelineDel, Deleted
<1>8. ASSUME NEW r \in Requests, RefreshCheck(r) \/ GuardCheck(r) PROVE ExpWithinTtl'
  BY <1>8 DEF RefreshCheck, GuardCheck
<1>9. ASSUME NEW r \in Requests, RefreshRevoke(r) \/ LogoutRevoke(r) PROVE ExpWithinTtl'
  <2>1. /\ presented[r] \in Jti /\ Deleted(r, presented[r])
        /\ pc[presented[r][1]] = "pair" /\ user[r] = user[presented[r][1]]
    BY <1>9, RevokeSteps
  <2> QED
    BY <1>9, <2>1 DEF RefreshRevoke, LogoutRevoke, Deleted
<1>10. ASSUME NEW r \in Requests, Abort(r) PROVE ExpWithinTtl'
  BY <1>10 DEF Abort
<1>11. ASSUME Tick \/ UNCHANGED vars PROVE ExpWithinTtl'
  BY <1>11, TtlType DEF Tick, vars
<1> QED
  BY <1>1, <1>2, <1>3, <1>4, <1>5, <1>6, <1>7, <1>8, <1>9, <1>10, <1>11
  DEF Next, Continue, Issue, RevokeAll

LEMMA RevokedStep ==
  ASSUME TypeOK, CarriedTokens, NoEarlyKeys, RevokedStaysRevoked, [Next]_vars
  PROVE  RevokedStaysRevoked'
<1> USE DEF token, redis, massRevoke, TypeOK, NoEarlyKeys, RevokedStaysRevoked,
       Touched, HasSet, Step, Active, Revoking, Issuing, Answers
<1>1. ASSUME NEW r \in Requests, Begin(r) PROVE RevokedStaysRevoked'
  BY <1>1 DEF Begin, Login, LoginRefused, TokenRefused, Refresh, Logout, Verified
<1>2. ASSUME NEW r \in Requests, SignAccess(r) \/ SignRefresh(r)
      PROVE RevokedStaysRevoked'
  BY <1>2 DEF SignAccess, SignRefresh, Sign
<1>3. ASSUME NEW r \in Requests, SetAccess(r) PROVE RevokedStaysRevoked'
  BY <1>3, SMTT(30) DEF SetAccess, SetEx
<1>4. ASSUME NEW r \in Requests, SetRefresh(r) PROVE RevokedStaysRevoked'
  BY <1>4 DEF SetRefresh, SetEx
<1>5. ASSUME NEW r \in Requests, Reply(r) PROVE RevokedStaysRevoked'
  BY <1>5 DEF Reply
<1>6. ASSUME NEW r \in Requests, ScanStart(r) \/ ScanEnd(r) \/ PipelineDone(r)
      PROVE RevokedStaysRevoked'
  BY <1>6 DEF ScanStart, ScanEnd, PipelineDone, KeysOf
<1>7. ASSUME NEW r \in Requests, NEW j \in batch[r], PipelineDel(r, j)
      PROVE RevokedStaysRevoked'
  <2>1. j \in Jti /\ Deleted(r, j)
    BY <1>7, PipelineSteps
  <2> QED
    BY <1>7, <2>1 DEF PipelineDel, Deleted
<1>8. ASSUME NEW r \in Requests, RefreshCheck(r) \/ GuardCheck(r)
      PROVE RevokedStaysRevoked'
  BY <1>8 DEF RefreshCheck, GuardCheck
<1>9. ASSUME NEW r \in Requests, RefreshRevoke(r) \/ LogoutRevoke(r)
      PROVE RevokedStaysRevoked'
  <2>1. /\ presented[r] \in Jti /\ Deleted(r, presented[r])
        /\ pc[presented[r][1]] = "pair" /\ user[r] = user[presented[r][1]]
    BY <1>9, RevokeSteps
  <2> QED
    BY <1>9, <2>1 DEF RefreshRevoke, LogoutRevoke, Deleted
<1>10. ASSUME NEW r \in Requests, Abort(r) PROVE RevokedStaysRevoked'
  BY <1>10 DEF Abort
<1>11. ASSUME Tick \/ UNCHANGED vars PROVE RevokedStaysRevoked'
  BY <1>11 DEF Tick, vars
<1> QED
  BY <1>1, <1>2, <1>3, <1>4, <1>5, <1>6, <1>7, <1>8, <1>9, <1>10, <1>11
  DEF Next, Continue, Issue, RevokeAll

LEMMA CollectedKeysStep ==
  ASSUME TypeOK, CarriedTokens, NoEarlyKeys, CollectedKeys, [Next]_vars
  PROVE  CollectedKeys'
<1> USE DEF token, redis, massRevoke, TypeOK, NoEarlyKeys, CollectedKeys, HasSet,
       Whitelisted, Owner, Step, Active, Revoking, Issuing, Answers
<1>1. ASSUME NEW r \in Requests, Begin(r) PROVE CollectedKeys'
  <2>1. /\ pc[r] = "new" /\ UNCHANGED <<doomed, batch, whitelist, revokedBy>>
        /\ \A q \in Requests \ {r} : pc'[q] = pc[q] /\ user'[q] = user[q]
    BY <1>1, BeginEffect
  <2>2. \A k \in Jti : Touched(k) => k[1] \in Requests \ {r} /\ Touched(k)'
    BY <2>1 DEF Touched
  <2> QED
    BY <2>1, <2>2
<1>2. ASSUME NEW r \in Requests, SignAccess(r) \/ SignRefresh(r) PROVE CollectedKeys'
  BY <1>2 DEF Touched, SignAccess, SignRefresh, Sign
<1>3. ASSUME NEW r \in Requests, SetAccess(r) PROVE CollectedKeys'
  <2>1. \A k \in Jti : Touched(k) => Touched(k)'
    BY <1>3, TtlType DEF Touched, SetAccess, SetEx
  <2> QED
    BY <1>3, <2>1 DEF SetAccess, SetEx
<1>4. ASSUME NEW r \in Requests, SetRefresh(r) PROVE CollectedKeys'
  <2>1. \A k \in Jti : Touched(k) => Touched(k)'
    BY <1>4, TtlType DEF Touched, SetRefresh, SetEx
  <2> QED
    BY <1>4, <2>1 DEF SetRefresh, SetEx
<1>5. ASSUME NEW r \in Requests, Reply(r) PROVE CollectedKeys'
  BY <1>5 DEF Touched, Reply
<1>6. ASSUME NEW r \in Requests, ScanStart(r) \/ ScanEnd(r) \/ PipelineDone(r)
      PROVE CollectedKeys'
  BY <1>6 DEF Touched, ScanStart, ScanEnd, PipelineDone, KeysOf
<1>7. ASSUME NEW r \in Requests, NEW j \in batch[r], PipelineDel(r, j)
      PROVE CollectedKeys'
  <2>1. j \in Jti /\ Deleted(r, j)
    BY <1>7, PipelineSteps
  <2>2. \A k \in Jti : Touched(k) => Touched(k)'
    BY <2>1, DeletedTouched
  <2> QED
    BY <1>7, <2>2 DEF PipelineDel
<1>8. ASSUME NEW r \in Requests, RefreshCheck(r) \/ GuardCheck(r) PROVE CollectedKeys'
  BY <1>8 DEF Touched, RefreshCheck, GuardCheck
<1>9. ASSUME NEW r \in Requests, RefreshRevoke(r) \/ LogoutRevoke(r)
      PROVE CollectedKeys'
  <2>1. /\ presented[r] \in Jti /\ Deleted(r, presented[r])
        /\ pc[presented[r][1]] = "pair" /\ user[r] = user[presented[r][1]]
    BY <1>9, RevokeSteps
  <2>2. \A k \in Jti : Touched(k) => Touched(k)'
    BY <2>1, DeletedTouched
  <2> QED
    BY <1>9, <2>2 DEF RefreshRevoke, LogoutRevoke
<1>10. ASSUME NEW r \in Requests, Abort(r) PROVE CollectedKeys'
  BY <1>10 DEF Touched, Abort
<1>11. ASSUME Tick \/ UNCHANGED vars PROVE CollectedKeys'
  BY <1>11 DEF Touched, Tick, vars
<1> QED
  BY <1>1, <1>2, <1>3, <1>4, <1>5, <1>6, <1>7, <1>8, <1>9, <1>10, <1>11
  DEF Next, Continue, Issue, RevokeAll

LEMMA DoomedInBatchStep ==
  ASSUME TypeOK, CarriedTokens, NoEarlyKeys, CollectedKeys, DoomedInBatch, [Next]_vars
  PROVE  DoomedInBatch'
<1> USE DEF token, redis, massRevoke, TypeOK, NoEarlyKeys, CollectedKeys,
       DoomedInBatch, Touched, HasSet, Whitelisted, Owner, Step, Active, Revoking,
       Issuing, Answers
<1>1. ASSUME NEW r \in Requests, Begin(r) PROVE DoomedInBatch'
  BY <1>1 DEF Begin, Login, LoginRefused, TokenRefused, Refresh, Logout, Verified
<1>2. ASSUME NEW r \in Requests, SignAccess(r) \/ SignRefresh(r) PROVE DoomedInBatch'
  BY <1>2 DEF SignAccess, SignRefresh, Sign
<1>3. ASSUME NEW r \in Requests, SetAccess(r) PROVE DoomedInBatch'
  BY <1>3, SMTT(30) DEF SetAccess, SetEx
<1>4. ASSUME NEW r \in Requests, SetRefresh(r) PROVE DoomedInBatch'
  BY <1>4 DEF SetRefresh, SetEx
<1>5. ASSUME NEW r \in Requests, Reply(r) PROVE DoomedInBatch'
  BY <1>5 DEF Reply
<1>6. ASSUME NEW r \in Requests, ScanStart(r) \/ ScanEnd(r) \/ PipelineDone(r)
      PROVE DoomedInBatch'
  BY <1>6 DEF ScanStart, ScanEnd, PipelineDone, KeysOf
<1>7. ASSUME NEW r \in Requests, NEW j \in batch[r], PipelineDel(r, j)
      PROVE DoomedInBatch'
  <2>1. j \in Jti /\ Deleted(r, j)
    BY <1>7, PipelineSteps
  <2> QED
    BY <1>7, <2>1 DEF PipelineDel, Deleted
<1>8. ASSUME NEW r \in Requests, RefreshCheck(r) \/ GuardCheck(r) PROVE DoomedInBatch'
  BY <1>8 DEF RefreshCheck, GuardCheck
<1>9. ASSUME NEW r \in Requests, RefreshRevoke(r) \/ LogoutRevoke(r)
      PROVE DoomedInBatch'
  <2>1. /\ presented[r] \in Jti /\ Deleted(r, presented[r])
        /\ pc[presented[r][1]] = "pair" /\ user[r] = user[presented[r][1]]
    BY <1>9, RevokeSteps
  <2> QED
    BY <1>9, <2>1, SMTT(30) DEF RefreshRevoke, LogoutRevoke, Deleted
<1>10. ASSUME NEW r \in Requests, Abort(r) PROVE DoomedInBatch'
  BY <1>10 DEF Abort
<1>11. ASSUME Tick \/ UNCHANGED vars PROVE DoomedInBatch'
  BY <1>11 DEF Tick, vars
<1> QED
  BY <1>1, <1>2, <1>3, <1>4, <1>5, <1>6, <1>7, <1>8, <1>9, <1>10, <1>11
  DEF Next, Continue, Issue, RevokeAll

LEMMA NoEarlyRevocationStep ==
  ASSUME TypeOK, CarriedTokens, NoEarlyRevocation, [Next]_vars
  PROVE  NoEarlyRevocation'
<1> USE DEF token, redis, massRevoke, TypeOK, NoEarlyRevocation, Step, Active,
       Revoking, Issuing, Answers
<1>1. ASSUME NEW r \in Requests, Begin(r) PROVE NoEarlyRevocation'
  BY <1>1 DEF Begin, Login, LoginRefused, TokenRefused, Refresh, Logout, Verified
<1>2. ASSUME NEW r \in Requests, SignAccess(r) \/ SignRefresh(r)
      PROVE NoEarlyRevocation'
  BY <1>2, SMTT(30) DEF SignAccess, SignRefresh, Sign
<1>3. ASSUME NEW r \in Requests, SetAccess(r) PROVE NoEarlyRevocation'
  BY <1>3 DEF SetAccess, SetEx
<1>4. ASSUME NEW r \in Requests, SetRefresh(r) PROVE NoEarlyRevocation'
  BY <1>4 DEF SetRefresh, SetEx
<1>5. ASSUME NEW r \in Requests, Reply(r) PROVE NoEarlyRevocation'
  BY <1>5 DEF Reply
<1>6. ASSUME NEW r \in Requests, ScanStart(r) \/ ScanEnd(r) \/ PipelineDone(r)
      PROVE NoEarlyRevocation'
  BY <1>6 DEF ScanStart, ScanEnd, PipelineDone, KeysOf
<1>7. ASSUME NEW r \in Requests, NEW j \in batch[r], PipelineDel(r, j)
      PROVE NoEarlyRevocation'
  <2>1. j \in Jti /\ Deleted(r, j)
    BY <1>7, PipelineSteps
  <2> QED
    BY <1>7, <2>1 DEF PipelineDel, Deleted
<1>8. ASSUME NEW r \in Requests, RefreshCheck(r) \/ GuardCheck(r)
      PROVE NoEarlyRevocation'
  BY <1>8 DEF RefreshCheck, GuardCheck
<1>9. ASSUME NEW r \in Requests, RefreshRevoke(r) \/ LogoutRevoke(r)
      PROVE NoEarlyRevocation'
  <2>1. /\ presented[r] \in Jti /\ Deleted(r, presented[r])
        /\ pc[presented[r][1]] = "pair" /\ user[r] = user[presented[r][1]]
    BY <1>9, RevokeSteps
  <2> QED
    BY <1>9, <2>1 DEF RefreshRevoke, LogoutRevoke, Deleted
<1>10. ASSUME NEW r \in Requests, Abort(r) PROVE NoEarlyRevocation'
  BY <1>10 DEF Abort
<1>11. ASSUME Tick \/ UNCHANGED vars PROVE NoEarlyRevocation'
  BY <1>11 DEF Tick, vars
<1> QED
  BY <1>1, <1>2, <1>3, <1>4, <1>5, <1>6, <1>7, <1>8, <1>9, <1>10, <1>11
  DEF Next, Continue, Issue, RevokeAll

LEMMA ScopeStep ==
  ASSUME TypeOK, CarriedTokens, NoEarlyKeys, CollectedKeys, RevocationIsScoped,
         [Next]_vars
  PROVE  RevocationIsScoped'
<1> USE DEF token, redis, massRevoke, TypeOK, NoEarlyKeys, CollectedKeys,
       RevocationIsScoped, CarriedTokens, Touched, HasSet, Owner, Step, Active,
       Revoking, Issuing, Answers
<1>1. ASSUME NEW r \in Requests, Begin(r) PROVE RevocationIsScoped'
  BY <1>1 DEF Begin, Login, LoginRefused, TokenRefused, Refresh, Logout, Verified
<1>2. ASSUME NEW r \in Requests, SignAccess(r) \/ SignRefresh(r)
      PROVE RevocationIsScoped'
  <2>1. /\ UNCHANGED <<user, presented, revokedBy>>
        /\ pc[r] \in {"signAccess", "signRefresh"}
        /\ \A q \in Requests \ {r} : pc'[q] = pc[q]
    BY <1>2 DEF SignAccess, SignRefresh, Sign
  <2> QED
    BY <2>1, SMTT(30) DEF RevocationIsScoped
<1>3. ASSUME NEW r \in Requests, SetAccess(r) PROVE RevocationIsScoped'
  BY <1>3 DEF SetAccess, SetEx
<1>4. ASSUME NEW r \in Requests, SetRefresh(r) PROVE RevocationIsScoped'
  BY <1>4 DEF SetRefresh, SetEx
<1>5. ASSUME NEW r \in Requests, Reply(r) PROVE RevocationIsScoped'
  BY <1>5 DEF Reply
<1>6. ASSUME NEW r \in Requests, ScanStart(r) \/ ScanEnd(r) \/ PipelineDone(r)
      PROVE RevocationIsScoped'
  <2>1. /\ UNCHANGED <<user, presented, revokedBy>>
        /\ pc[r] \in {"scan", "scanning"} \/ pc'[r] = "TOKEN_REUSED"
        /\ pc[r] \in Revoking
        /\ \A q \in Requests \ {r} : pc'[q] = pc[q]
    BY <1>6 DEF ScanStart, ScanEnd, PipelineDone
  <2> QED
    BY <2>1, SMTT(30) DEF RevocationIsScoped
<1>7. ASSUME NEW r \in Requests, NEW j \in batch[r], PipelineDel(r, j)
      PROVE RevocationIsScoped'
  <2>1. j \in Jti /\ Deleted(r, j)
    BY <1>7, PipelineSteps
  <2> QED
    BY <1>7, <2>1, SMTT(30) DEF PipelineDel, Deleted
<1>8. ASSUME NEW r \in Requests, RefreshCheck(r) \/ GuardCheck(r)
      PROVE RevocationIsScoped'
  BY <1>8 DEF RefreshCheck, GuardCheck
<1>9. ASSUME NEW r \in Requests, RefreshRevoke(r) \/ LogoutRevoke(r)
      PROVE RevocationIsScoped'
  <2>1. /\ presented[r] \in Jti /\ Deleted(r, presented[r])
        /\ pc[presented[r][1]] = "pair" /\ user[r] = user[presented[r][1]]
    BY <1>9, RevokeSteps
  <2>2. /\ UNCHANGED <<user, presented>>
        /\ pc[r] \in {"rotate", "logout"}
        /\ \A q \in Requests \ {r} : pc'[q] = pc[q]
    BY <1>9 DEF RefreshRevoke, LogoutRevoke
  <2>3. \A k \in Jti, q \in Requests :
          q \in revokedBy'[k] => q \in revokedBy[k] \/ (q = r /\ k = presented[r])
    BY <2>1 DEF Deleted
  <2>4. ASSUME NEW k \in Jti, NEW q \in revokedBy'[k]
        PROVE  /\ user[q] = user[k[1]]
               /\ \/ presented[q] = k
                  \/ /\ presented[q] \in Requests \X {"refresh"}
                     /\ pc'[q] \in {"pipeline", "TOKEN_REUSED", "INTERNAL"}
    <3>1. CASE q \in revokedBy[k]
      BY <3>1, <2>1, <2>2 DEF RevocationIsScoped
    <3>2. CASE q = r /\ k = presented[r]
      BY <3>2, <2>1
    <3> QED
      BY <3>1, <3>2, <2>1, <2>3, <2>4 DEF Deleted
  <2> QED
    BY <2>2, <2>4 DEF RevocationIsScoped
<1>10. ASSUME NEW r \in Requests, Abort(r) PROVE RevocationIsScoped'
  BY <1>10 DEF Abort
<1>11. ASSUME Tick \/ UNCHANGED vars PROVE RevocationIsScoped'
  BY <1>11 DEF Tick, vars
<1> QED
  BY <1>1, <1>2, <1>3, <1>4, <1>5, <1>6, <1>7, <1>8, <1>9, <1>10, <1>11
  DEF Next, Continue, Issue, RevokeAll

LEMMA VerdictStep ==
  ASSUME TypeOK, CarriedTokens, NoLateKeys, NoEarlyRevocation, ReuseVerdictJustified,
         [Next]_vars
  PROVE  ReuseVerdictJustified'
<1> USE DEF token, redis, massRevoke, TypeOK, NoLateKeys, NoEarlyRevocation,
       ReuseVerdictJustified, CarriedTokens, Touched, HasSet, Delivered, Whitelisted,
       Owner, Step, Active, Revoking, Issuing, Answers
<1>1. ASSUME NEW r \in Requests, Begin(r) PROVE ReuseVerdictJustified'
  BY <1>1 DEF Begin, Login, LoginRefused, TokenRefused, Refresh, Logout, Verified
<1>2. ASSUME NEW r \in Requests, SignAccess(r) \/ SignRefresh(r)
      PROVE ReuseVerdictJustified'
  <2>1. ASSUME NEW q \in Requests, pc'[q] \in Revoking \union {"TOKEN_REUSED"}
        PROVE  /\ pc[q] = pc'[q] /\ presented'[q] = presented[q]
               /\ presented[q] # <<r, "refresh">> /\ presented[q] # <<r, "access">>
               /\ presented[q] \in Jti
    <3>1. /\ pc[r] \in {"signAccess", "signRefresh"}
          /\ pc' = [pc EXCEPT ![r] = pc'[r]]
          /\ pc'[r] \in {"signRefresh", "setAccess"}
          /\ presented' = presented
      BY <1>2 DEF SignAccess, SignRefresh, Sign
    <3>2. q # r /\ pc'[q] = pc[q]
      BY <2>1, <3>1
    <3>3. presented[q] \in Jti /\ pc[presented[q][1]] = "pair"
      BY <2>1, <3>2
    <3> QED
      BY <3>1, <3>2, <3>3
  <2>2. ASSUME NEW j \in Jti, j # <<r, "access">>, j # <<r, "refresh">>
        PROVE  exp'[j] = exp[j] /\ revokedBy'[j] = revokedBy[j]
    BY <1>2, <2>2 DEF SignAccess, SignRefresh, Sign
  <2>3. now' = now
    BY <1>2 DEF SignAccess, SignRefresh, Sign
  <2> QED
    BY <2>1, <2>2, <2>3
<1>3. ASSUME NEW r \in Requests, SetAccess(r) PROVE ReuseVerdictJustified'
  BY <1>3 DEF SetAccess, SetEx
<1>4. ASSUME NEW r \in Requests, SetRefresh(r) PROVE ReuseVerdictJustified'
  BY <1>4 DEF SetRefresh, SetEx
<1>5. ASSUME NEW r \in Requests, Reply(r) PROVE ReuseVerdictJustified'
  BY <1>5 DEF Reply
<1>6. ASSUME NEW r \in Requests, ScanStart(r) \/ ScanEnd(r) \/ PipelineDone(r)
      PROVE ReuseVerdictJustified'
  BY <1>6 DEF ScanStart, ScanEnd, PipelineDone, KeysOf
<1>7. ASSUME NEW r \in Requests, NEW j \in batch[r], PipelineDel(r, j)
      PROVE ReuseVerdictJustified'
  <2>1. j \in Jti /\ Deleted(r, j)
    BY <1>7, PipelineSteps
  <2> QED
    BY <1>7, <2>1 DEF PipelineDel, Deleted
<1>8. ASSUME NEW r \in Requests, RefreshCheck(r) \/ GuardCheck(r)
      PROVE ReuseVerdictJustified'
  BY <1>8, SMTT(30) DEF RefreshCheck, GuardCheck
<1>9. ASSUME NEW r \in Requests, RefreshRevoke(r) \/ LogoutRevoke(r)
      PROVE ReuseVerdictJustified'
  <2>1. /\ presented[r] \in Jti /\ Deleted(r, presented[r])
        /\ pc[presented[r][1]] = "pair" /\ user[r] = user[presented[r][1]]
    BY <1>9, RevokeSteps
  <2> QED
    BY <1>9, <2>1, SMTT(30) DEF RefreshRevoke, LogoutRevoke, Deleted
<1>10. ASSUME NEW r \in Requests, Abort(r) PROVE ReuseVerdictJustified'
  BY <1>10 DEF Abort
<1>11. ASSUME Tick \/ UNCHANGED vars PROVE ReuseVerdictJustified'
  BY <1>11 DEF Tick, vars
<1> QED
  BY <1>1, <1>2, <1>3, <1>4, <1>5, <1>6, <1>7, <1>8, <1>9, <1>10, <1>11
  DEF Next, Continue, Issue, RevokeAll

-----------------------------------------------------------------------------
(* The invariant holds at the start, and every step preserves it. *)
THEOREM InvInit == Init => IInv
<1> SUFFICES ASSUME Init PROVE IInv
  OBVIOUS
<1>1. TypeOK
  BY TypeInit
<1>2. ExpWithinTtl
  BY TtlType DEF Init, ExpWithinTtl
<1> QED
  BY <1>1, <1>2 DEF Init, IInv, CarriedTokens, NoEarlyKeys, NoLateKeys, Touched,
     RevokedStaysRevoked, CollectedKeys, DoomedInBatch, NoEarlyRevocation,
     RevocationIsScoped, ReuseVerdictJustified, HasSet, Revoking

THEOREM InvStep == IInv /\ [Next]_vars => IInv'
<1> SUFFICES ASSUME IInv, [Next]_vars PROVE IInv'
  OBVIOUS
<1> QED
  BY TypeStep, CarriedStep, NoEarlyKeysStep, NoLateKeysStep, ExpWithinTtlStep,
     RevokedStep, CollectedKeysStep, DoomedInBatchStep, NoEarlyRevocationStep,
     ScopeStep, VerdictStep DEF IInv

(* The inductive invariant holds in every reachable state, for any number  *)
(* of users and requests, any ttls and any bound on the clock.             *)
THEOREM Invariance == Spec => []IInv
  BY InvInit, InvStep, PTL DEF Spec

(* Every variable keeps its type. *)
THEOREM TypeCorrect == Spec => []TypeOK
<1>1. IInv => TypeOK
  BY DEF IInv
<1> QED
  BY Invariance, <1>1, PTL

(* A whitelist key that has been deleted never comes back. *)
THEOREM Revocation == Spec => []RevokedStaysRevoked
<1>1. IInv => RevokedStaysRevoked
  BY DEF IInv
<1> QED
  BY Invariance, <1>1, PTL

(* The store honours a pair a client received until it expires or somebody *)
(* deletes its keys.                                                       *)
THEOREM DeliveredPairs == Spec => []DeliveredLiveUntilRevoked
<1>1. IInv => DeliveredLiveUntilRevoked
  BY DEF IInv, TypeOK, NoLateKeys, HasSet, Delivered, Whitelisted, Touched,
     DeliveredLiveUntilRevoked
<1> QED
  BY Invariance, <1>1, PTL

(* No request deletes the key of another user, or a key that is neither    *)
(* the one it carries nor part of its mass revoke.                         *)
THEOREM Scope == Spec => []RevocationIsScoped
<1>1. IInv => RevocationIsScoped
  BY DEF IInv
<1> QED
  BY Invariance, <1>1, PTL

(* A finished mass revoke leaves alive, of the keys that were live when it *)
(* began, at most those whose DEL Redis refused.                           *)
THEOREM MassRevoke == Spec => []ReuseRevokesDoomed
<1>1. IInv => ReuseRevokesDoomed
  BY DEF IInv, DoomedInBatch, ReuseRevokesDoomed
<1> QED
  BY Invariance, <1>1, PTL

(* A mass revoke is set off only by a token that another request had       *)
(* revoked, or that has expired.                                           *)
THEOREM Verdict == Spec => []ReuseVerdictJustified
<1>1. IInv => ReuseVerdictJustified
  BY DEF IInv
<1> QED
  BY Invariance, <1>1, PTL

(* What a request has brought stays as it was, and so does the end of it. *)
LEMMA CarriedLasts ==
  ASSUME IInv, [Next]_vars, NEW r \in Requests, presented[r] # None
  PROVE  /\ presented'[r] = presented[r] /\ user'[r] = user[r] /\ pc[r] # "new"
         /\ exp'[presented[r]] = exp[presented[r]]
         /\ now' \in Nat /\ now <= now'
<1> USE DEF token, redis, massRevoke, TypeOK, Step
<1>1. TypeOK /\ pc[r] # "new" /\ presented[r] \in Jti /\ pc[presented[r][1]] = "pair"
  BY DEF IInv, CarriedTokens, Delivered
<1>2. ASSUME NEW q \in Requests, Begin(q) PROVE r # q
  BY <1>1, <1>2, BeginEffect
<1>3. presented'[r] = presented[r] /\ user'[r] = user[r]
  BY <1>1, <1>2, BeginEffect DEF Next, Continue, Issue, SignAccess, SignRefresh, Sign,
     SetAccess, SetRefresh, SetEx, Reply, RevokeAll, ScanStart, ScanEnd, PipelineDel,
     PipelineDone, RefreshCheck, RefreshRevoke, GuardCheck, LogoutRevoke, Abort, Tick, vars
<1>4. exp'[presented[r]] = exp[presented[r]]
  <2>1. ASSUME NEW q \in Requests, SignAccess(q) \/ SignRefresh(q)
        PROVE  exp'[presented[r]] = exp[presented[r]]
    <3>1. q # presented[r][1]
      BY <1>1, <2>1 DEF SignAccess, SignRefresh
    <3> QED
      BY <1>1, <2>1, <3>1 DEF SignAccess, SignRefresh, Sign
  <2> QED
    BY <1>1, <2>1, BeginEffect DEF Next, Continue, Issue, SetAccess, SetRefresh, SetEx,
       Reply, RevokeAll, ScanStart, ScanEnd, PipelineDel, PipelineDone, RefreshCheck,
       RefreshRevoke, GuardCheck, LogoutRevoke, Abort, Tick, vars
<1>5. now' \in Nat /\ now <= now'
  <2>1. now' = now \/ Tick
    BY <1>1, BeginEffect DEF Next, Continue, Issue, SignAccess, SignRefresh, Sign, SetAccess,
       SetRefresh, SetEx, Reply, RevokeAll, ScanStart, ScanEnd, PipelineDel, PipelineDone,
       RefreshCheck, RefreshRevoke, GuardCheck, LogoutRevoke, Abort, vars
  <2>2. now \in Nat
    BY <1>1
  <2> QED
    BY <2>1, <2>2 DEF Tick
<1> HIDE DEF token, redis, massRevoke, TypeOK, Step
<1> QED
  BY <1>1, <1>3, <1>4, <1>5

(* DELs are never forgotten. *)
LEMMA ReapsLasts ==
  ASSUME IInv, [Next]_vars, NEW r \in Requests, Reaps(r)
  PROVE  Reaps(r)' /\ presented[r] # None
<1> USE DEF token, redis, massRevoke, TypeOK, Step
<1>1. PICK j \in Jti : r \in revokedBy[j] /\ presented[r] # j
  BY DEF Reaps
<1>2. presented[r] # None
  BY <1>1 DEF IInv, RevocationIsScoped
<1>3. r \in revokedBy'[j]
  <2>1. TypeOK /\ CarriedTokens
    BY DEF IInv
  <2>2. ASSUME NEW q \in Requests, NEW i \in Jti, Deleted(q, i) PROVE r \in revokedBy'[j]
    BY <1>1, <2>2 DEF Deleted
  <2>3. ASSUME NEW q \in Requests, RefreshRevoke(q) \/ LogoutRevoke(q)
        PROVE  r \in revokedBy'[j]
    BY <2>1, <2>2, <2>3, RevokeSteps
  <2>4. ASSUME NEW q \in Requests, NEW i \in batch[q], PipelineDel(q, i)
        PROVE  r \in revokedBy'[j]
    BY <2>1, <2>2, <2>4, PipelineSteps
  <2>5. \/ UNCHANGED revokedBy
        \/ \E q \in Requests : RefreshRevoke(q) \/ LogoutRevoke(q)
        \/ \E q \in Requests : \E i \in batch[q] : PipelineDel(q, i)
    BY <2>1, BeginEffect DEF Next, Continue, Issue, SignAccess, SignRefresh, Sign, SetAccess,
       SetRefresh, SetEx, Reply, RevokeAll, ScanStart, ScanEnd, PipelineDone, RefreshCheck,
       GuardCheck, Abort, Tick, vars
  <2> QED
    BY <1>1, <2>3, <2>4, <2>5
<1> HIDE DEF token, redis, massRevoke, TypeOK, Step
<1> QED
  BY <1>1, <1>2, <1>3, CarriedLasts DEF Reaps

(* Why the keys of u may have been deleted: a token of u was sent twice,   *)
(* or one that had expired on its way has set off a DEL.                   *)
Blamed(u) ==
  \/ SentTwice(u)
  \/ \E r \in Requests : Reaps(r) /\ CarriesRefresh(r, u) /\ exp[presented[r]] <= now

LEMMA BlameLasts ==
  ASSUME IInv, [Next]_vars, NEW u, Blamed(u)
  PROVE  Blamed(u)'
<1>1. ASSUME NEW r \in Requests, CarriesRefresh(r, u)
      PROVE  CarriesRefresh(r, u)' /\ presented[r] # None
  BY <1>1, CarriedLasts DEF CarriesRefresh
<1>2. CASE SentTwice(u)
  <2>1. PICK r, q \in Requests : /\ r # q /\ CarriesRefresh(r, u)
                                 /\ presented[q] = presented[r]
    BY <1>2 DEF SentTwice
  <2>2. presented[q] # None /\ presented[r] # None
    BY <1>1, <2>1
  <2>3. presented'[q] = presented'[r]
    BY <2>1, <2>2, CarriedLasts
  <2> QED
    BY <1>1, <2>1, <2>3 DEF Blamed, SentTwice
<1>3. ASSUME NEW r \in Requests, Reaps(r), CarriesRefresh(r, u), exp[presented[r]] <= now
      PROVE  Blamed(u)'
  <2>1. presented[r] \in Jti /\ exp[presented[r]] \in Nat /\ now \in Nat
    BY <1>3 DEF CarriesRefresh, IInv, TypeOK
  <2>2. exp'[presented'[r]] <= now'
    BY <1>1, <1>3, <2>1, CarriedLasts
  <2> QED
    BY <1>1, <1>3, <2>2, ReapsLasts DEF Blamed
<1> QED
  BY <1>2, <1>3 DEF Blamed

(* The branch is entered at the lookup only, and only the branch reaps. *)
LEMMA RevokersBegin ==
  ASSUME IInv, [Next]_vars, NEW r \in Requests
  PROVE  /\ Reaps(r)' => MassRevokes(r)
         /\ pc'[r] \in Revoking \union {"TOKEN_REUSED"} =>
              \/ pc[r] \in Revoking \union {"TOKEN_REUSED"}
              \/ RefreshCheck(r) /\ ~Whitelisted(presented[r])
<1> USE DEF token, redis, massRevoke, TypeOK, Step, Revoking, MassRevokes, Reaps
<1> DEFINE InBranch == pc[r] \in Revoking \union {"TOKEN_REUSED"}
           Fresh == /\ Reaps(r)' => MassRevokes(r)
                    /\ InBranch' => InBranch
<1>1. TypeOK /\ CarriedTokens
  BY DEF IInv
<1>2. ASSUME NEW q \in Requests, Begin(q) PROVE Fresh
  <2>1. pc'[q] \notin Revoking \union {"TOKEN_REUSED"}
    BY <1>1, <1>2 DEF Begin, Login, LoginRefused, TokenRefused, Refresh, Logout
  <2>2. CASE r = q
    <3>1. \A j \in Jti : r \notin revokedBy[j]
      BY <1>1, <1>2, <2>2, BeginEffect DEF IInv, NoEarlyRevocation
    <3> QED
      BY <1>1, <1>2, <2>1, <2>2, <3>1, BeginEffect
  <2>3. CASE r # q
    BY <1>1, <1>2, <2>3, BeginEffect
  <2> QED
    BY <2>2, <2>3
<1>3. ASSUME NEW q \in Requests, Issue(q) PROVE Fresh
  BY <1>1, <1>3 DEF Issue, SignAccess, SignRefresh, Sign, SetAccess, SetRefresh, SetEx, Reply
<1>4. ASSUME NEW q \in Requests, ScanStart(q) \/ ScanEnd(q) \/ PipelineDone(q)
      PROVE  Fresh
  BY <1>1, <1>4 DEF ScanStart, ScanEnd, PipelineDone
<1>5. ASSUME NEW q \in Requests, NEW j \in batch[q], PipelineDel(q, j) PROVE Fresh
  <2>1. j \in Jti /\ Deleted(q, j) /\ pc[q] = "pipeline" /\ pc' = pc /\ presented' = presented
    BY <1>1, <1>5, PipelineSteps DEF PipelineDel
  <2> QED
    BY <1>1, <2>1 DEF Deleted
<1>6. ASSUME NEW q \in Requests, RefreshRevoke(q) \/ LogoutRevoke(q) PROVE Fresh
  <2>1. /\ presented[q] \in Jti /\ Deleted(q, presented[q]) /\ presented' = presented
        /\ pc' \in {[pc EXCEPT ![q] = "signAccess"], [pc EXCEPT ![q] = "loggedOut"]}
    BY <1>1, <1>6, RevokeSteps DEF RefreshRevoke, LogoutRevoke
  <2> QED
    BY <1>1, <2>1 DEF Deleted
<1>7. ASSUME NEW q \in Requests, GuardCheck(q) \/ Abort(q) PROVE Fresh
  BY <1>1, <1>7 DEF GuardCheck, Abort
<1>8. ASSUME NEW q \in Requests, RefreshCheck(q)
      PROVE  /\ Reaps(r)' => MassRevokes(r)
             /\ InBranch' => InBranch \/ (q = r /\ ~Whitelisted(presented[r]))
  BY <1>1, <1>8 DEF RefreshCheck
<1>9. ASSUME Tick \/ UNCHANGED vars PROVE Fresh
  BY <1>9 DEF Tick, vars
<1> HIDE DEF MassRevokes, Reaps
<1> QED
  BY <1>2, <1>3, <1>4, <1>5, <1>6, <1>7, <1>8, <1>9 DEF Next, Continue, RevokeAll

(* Every DEL of a mass revoke has somebody to blame, and so has a mass     *)
(* revoke under way, unless it carries an expired token itself.            *)
ReapersBlamed ==
  \A r \in Requests, u \in Users \union {None} : Reaps(r) /\ CarriesRefresh(r, u) => Blamed(u)
VerdictsBlamed ==
  \A r \in Requests, u \in Users \union {None} :
    pc[r] \in Revoking \union {"TOKEN_REUSED"} /\ CarriesRefresh(r, u) =>
      Blamed(u) \/ exp[presented[r]] <= now

(* What holds before a step of a request still holds after it. *)
LEMMA CarriesBack ==
  ASSUME IInv, [Next]_vars, NEW r \in Requests, NEW u, CarriesRefresh(r, u)',
         presented[r] # None
  PROVE  CarriesRefresh(r, u)
BY CarriedLasts DEF CarriesRefresh

(* A lookup that finds nothing: the key was deleted by one that carried    *)
(* the same token, or by one that has its own reason; or it has expired.   *)
LEMMA LookupBlamed ==
  ASSUME IInv, ReapersBlamed, NEW r \in Requests, NEW u \in Users \union {None},
         pc[r] = "check", ~Whitelisted(presented[r]), CarriesRefresh(r, u)
  PROVE  Blamed(u) \/ exp[presented[r]] <= now
<1> DEFINE j == presented[r]
<1>1. /\ j \in Requests \X {"refresh"} /\ j \in Jti /\ user[r] = u /\ u = Owner(j)
      /\ pc[j[1]] = "pair"
  BY DEF IInv, CarriedTokens, Delivered, CarriesRefresh
<1>2. whitelist[j] >= exp[j] \/ revokedBy[j] # {}
  BY <1>1 DEF IInv, NoLateKeys, HasSet
<1>3. CASE revokedBy[j] = {}
  <2>1. whitelist[j] \in Nat /\ exp[j] \in Nat /\ now \in Nat
    BY <1>1 DEF IInv, TypeOK
  <2> QED
    BY <1>2, <1>3, <2>1 DEF Whitelisted
<1>4. ASSUME NEW q \in revokedBy[j] PROVE Blamed(u)
  <2>1. q \in Requests /\ q # r /\ user[q] = u
    BY <1>1, <1>4 DEF IInv, TypeOK, NoEarlyRevocation, RevocationIsScoped
  <2>2. CASE presented[q] = j
    BY <1>1, <2>1, <2>2 DEF Blamed, SentTwice, CarriesRefresh
  <2>3. CASE presented[q] # j
    <3>1. Reaps(q)
      BY <1>1, <1>4, <2>3 DEF Reaps
    <3>2. CarriesRefresh(q, u)
      BY <1>1, <1>4, <2>1, <2>3 DEF IInv, RevocationIsScoped, CarriesRefresh
    <3> QED
      BY <2>1, <3>1, <3>2 DEF ReapersBlamed
  <2> QED
    BY <2>2, <2>3
<1> QED
  BY <1>3, <1>4

LEMMA BlamedStep ==
  ASSUME IInv, ReapersBlamed, VerdictsBlamed, [Next]_vars
  PROVE  ReapersBlamed' /\ VerdictsBlamed'
<1>1. ASSUME NEW r \in Requests, NEW u \in Users \union {None},
             MassRevokes(r) \/ pc[r] = "check", CarriesRefresh(r, u)'
      PROVE  /\ CarriesRefresh(r, u)
             /\ exp[presented[r]] <= now => exp'[presented'[r]] <= now'
  <2>1. presented[r] \in Requests \X {"refresh"}
    BY <1>1 DEF IInv, CarriedTokens, RevocationIsScoped, MassRevokes, Reaps, Revoking
  <2>2. /\ presented[r] # None /\ presented[r] \in Jti
        /\ exp[presented[r]] \in Nat /\ now \in Nat
    BY <2>1 DEF IInv, CarriedTokens, Delivered, TypeOK
  <2> QED
    BY <1>1, <2>2, CarriesBack, CarriedLasts
<1>2. ASSUME NEW r \in Requests, NEW u \in Users \union {None}, Reaps(r)', CarriesRefresh(r, u)'
      PROVE  Blamed(u)'
  <2>1. MassRevokes(r)
    BY <1>2, RevokersBegin
  <2>2. Blamed(u) \/ exp[presented[r]] <= now
    BY <1>1, <1>2, <2>1 DEF ReapersBlamed, VerdictsBlamed, MassRevokes
  <2>3. CASE Blamed(u)
    BY <2>3, BlameLasts
  <2>4. CASE exp[presented[r]] <= now
    BY <1>1, <1>2, <2>1, <2>4 DEF Blamed
  <2> QED
    BY <2>2, <2>3, <2>4
<1>3. ASSUME NEW r \in Requests, NEW u \in Users \union {None},
             pc'[r] \in Revoking \union {"TOKEN_REUSED"}, CarriesRefresh(r, u)'
      PROVE  Blamed(u)' \/ exp'[presented'[r]] <= now'
  <2>1. \/ pc[r] \in Revoking \union {"TOKEN_REUSED"}
        \/ RefreshCheck(r) /\ ~Whitelisted(presented[r])
    BY <1>3, RevokersBegin
  <2>2. MassRevokes(r) \/ pc[r] = "check"
    BY <2>1 DEF MassRevokes, RefreshCheck, Step
  <2>3. Blamed(u) \/ exp[presented[r]] <= now
    BY <1>1, <1>3, <2>1, <2>2, LookupBlamed DEF VerdictsBlamed, RefreshCheck, Step
  <2> QED
    BY <1>1, <1>3, <2>2, <2>3, BlameLasts
<1> QED
  BY <1>2, <1>3 DEF ReapersBlamed, VerdictsBlamed, Revoking

(* A client whose tokens are each sent once and in time is not signed out  *)
(* by what the others do: every mass revoke goes back, through however     *)
(* many verdicts, to a token that two calls have brought or that expired   *)
(* on its way to the lookup.                                               *)
THEOREM OnlyReuse == Spec => []OnlyReuseEndsSessions
<1>1. Init => ReapersBlamed /\ VerdictsBlamed
  BY DEF Init, ReapersBlamed, VerdictsBlamed, Reaps, Revoking
<1>2. IInv /\ ReapersBlamed /\ VerdictsBlamed => OnlyReuseEndsSessions
  <2> SUFFICES ASSUME IInv, ReapersBlamed, VerdictsBlamed, NEW r \in Requests, MassRevokes(r)
               PROVE  SentTwice(user[r]) \/ ExpiredOnTheWay(user[r])
    BY DEF OnlyReuseEndsSessions
  <2>1. presented[r] \in Requests \X {"refresh"} /\ presented[r] # None
    BY DEF IInv, CarriedTokens, RevocationIsScoped, MassRevokes, Reaps, Revoking, TypeOK
  <2>2. user[r] \in Users \union {None} /\ CarriesRefresh(r, user[r])
    BY <2>1 DEF IInv, TypeOK, CarriesRefresh
  <2>3. Blamed(user[r]) \/ exp[presented[r]] <= now
    BY <2>2 DEF ReapersBlamed, VerdictsBlamed, MassRevokes
  <2> QED
    BY <2>2, <2>3 DEF Blamed, ExpiredOnTheWay, MassRevokes
<1> QED
  BY <1>1, <1>2, BlamedStep, Invariance, PTL DEF Spec

-----------------------------------------------------------------------------
(* AuthSessions implements TokenLifecycle. *)

(* The status of a token depends on the clock and the store only. *)
LEMMA StatusStutter ==
  ASSUME UNCHANGED <<now, whitelist, revokedBy>>
  PROVE  TokenStatus' = TokenStatus
  BY DEF TokenStatus

(* Delivered changes only when a pair is sent. *)
LEMMA DeliveredStutter ==
  ASSUME TypeOK, NEW r \in Requests, pc[r] # "pair", pc'[r] # "pair",
         \A q \in Requests \ {r} : pc'[q] = pc[q]
  PROVE  Delivered' = Delivered
  BY DEF Delivered

LEMMA LifecycleInit == Init => Lifecycle!Init
  BY DEF Init, Lifecycle!Init, TokenStatus, Delivered

THEOREM LifecycleStep == IInv /\ [Next]_vars => [Lifecycle!Next]_(Lifecycle!vars)
<1> SUFFICES ASSUME IInv, [Next]_vars PROVE [Lifecycle!Next]_(Lifecycle!vars)
  OBVIOUS
<1> USE DEF token, redis, massRevoke
<1>0. TypeOK /\ CarriedTokens /\ CollectedKeys /\ NoEarlyKeys /\ NoLateKeys
  BY DEF IInv
<1> DEFINE Stutter == TokenStatus' = TokenStatus /\ Delivered' = Delivered
<1>1. ASSUME NEW r \in Requests,
             SetAccess(r) \/ SetRefresh(r)
      PROVE  \E t \in Jti : Lifecycle!Grant(t)
  <2>1. PICK kind \in Kinds :
          /\ pc[r] \in {"setAccess", "setRefresh"} /\ pc[r] \notin HasSet(kind)
          /\ pc' = [pc EXCEPT ![r] = pc'[r]]
          /\ pc'[r] \in {"setRefresh", "reply"}
          /\ SetEx(r, kind)
    BY <1>0, <1>1 DEF SetAccess, SetRefresh, Step, HasSet, TypeOK
  <2> DEFINE t == <<r, kind>>
  <2>2. t \in Jti /\ ~Touched(t)
    BY <1>0, <2>1 DEF NoEarlyKeys
  <2>3. TokenStatus[t] = "fresh"
    BY <2>2 DEF TokenStatus, Touched
  <2>4. TokenStatus' = [TokenStatus EXCEPT ![t] = "live"]
    <3>1. whitelist'[t] > now /\ whitelist'[t] # 0 /\ revokedBy'[t] = {}
      <4>1. whitelist'[t] = now + Ttl(kind) /\ revokedBy'[t] = revokedBy[t]
        BY <1>0, <2>1, <2>2 DEF SetEx, TypeOK
      <4>2. Ttl(kind) \in Nat \ {0}
        BY <2>1, TtlType
      <4>3. now \in Nat
        BY <1>0 DEF TypeOK
      <4>4. revokedBy[t] = {}
        BY <2>2 DEF Touched
      <4> QED
        BY <4>1, <4>2, <4>3, <4>4
    <3>2. \A k \in Jti \ {t} : whitelist'[k] = whitelist[k]
      BY <1>0, <2>1 DEF SetEx, TypeOK
    <3>3. UNCHANGED <<now, revokedBy>>
      BY <2>1 DEF SetEx
    <3> QED
      BY <2>2, <3>1, <3>2, <3>3 DEF TokenStatus
  <2>5. Delivered' = Delivered
    BY <1>0, <2>1, DeliveredStutter DEF TypeOK
  <2> QED
    BY <2>2, <2>3, <2>4, <2>5 DEF Lifecycle!Grant
<1>2. ASSUME NEW r \in Requests, Reply(r)
      PROVE  Lifecycle!Hand({<<r, "access">>, <<r, "refresh">>})
  <2>1. /\ pc[r] = "reply" /\ UNCHANGED <<now, whitelist, revokedBy>>
        /\ pc' = [pc EXCEPT ![r] = "pair"]
    BY <1>2 DEF Reply, Step
  <2>2. \A k \in {<<r, "access">>, <<r, "refresh">>} : TokenStatus[k] # "fresh"
    <3>1. \A k \in {<<r, "access">>, <<r, "refresh">>} :
            k \in Jti /\ pc[k[1]] \in HasSet(k[2])
      BY <2>1 DEF HasSet
    <3> QED
      BY <1>0, <3>1 DEF NoLateKeys, TokenStatus, Touched
  <2>3. Delivered' = Delivered \union {<<r, "access">>, <<r, "refresh">>}
    BY <1>0, <2>1 DEF Delivered, TypeOK
  <2>4. TokenStatus' = TokenStatus
    BY <2>1, StatusStutter
  <2> QED
    BY <2>2, <2>3, <2>4 DEF Lifecycle!Hand
<1>3. ASSUME NEW r \in Requests, NEW j \in Jti, Touched(j), Deleted(r, j),
             UNCHANGED now, Delivered' = Delivered
      PROVE  Stutter \/ Lifecycle!End({j})
  <2>1. TokenStatus[j] # "fresh"
    BY <1>3 DEF TokenStatus, Touched
  <2>2. TokenStatus' = [t \in Jti |-> IF t \in {j} THEN "dead" ELSE TokenStatus[t]]
    <3>1. ASSUME NEW t \in Jti
          PROVE  TokenStatus'[t] = IF t \in {j} THEN "dead" ELSE TokenStatus[t]
      BY <1>3 DEF TokenStatus, Deleted
    <3> QED
      BY <3>1 DEF TokenStatus
  <2>3. CASE TokenStatus[j] = "dead"
    <3>1. TokenStatus' = TokenStatus
      BY <2>2, <2>3 DEF TokenStatus
    <3> QED
      BY <1>3, <3>1
  <2>4. CASE TokenStatus[j] = "live"
    BY <1>3, <2>2, <2>4 DEF Lifecycle!End
  <2> QED
    BY <2>1, <2>3, <2>4 DEF TokenStatus
<1>4. ASSUME NEW r \in Requests, RefreshRevoke(r) \/ LogoutRevoke(r)
      PROVE  Stutter \/ Lifecycle!End({presented[r]})
  <2>1. /\ presented[r] \in Jti /\ Deleted(r, presented[r])
        /\ pc[presented[r][1]] = "pair"
    BY <1>0, <1>4, RevokeSteps
  <2>2. Touched(presented[r])
    BY <1>0, <2>1 DEF NoLateKeys, HasSet
  <2>3. UNCHANGED now /\ Delivered' = Delivered
    BY <1>0, <1>4, DeliveredStutter DEF RefreshRevoke, LogoutRevoke, Step, TypeOK
  <2> QED
    BY <1>3, <2>1, <2>2, <2>3
<1>5. ASSUME NEW r \in Requests, NEW j \in batch[r], PipelineDel(r, j)
      PROVE  Stutter \/ Lifecycle!End({j})
  <2>1. j \in Jti /\ Deleted(r, j)
    BY <1>0, <1>5, PipelineSteps
  <2>2. Touched(j)
    BY <1>0, <1>5 DEF CollectedKeys
  <2>3. UNCHANGED now /\ Delivered' = Delivered
    BY <1>5 DEF PipelineDel, Delivered
  <2> QED
    BY <1>3, <2>1, <2>2, <2>3
<1>6. ASSUME Tick
      PROVE  \E S \in SUBSET Jti : Lifecycle!End(S)
  <2> DEFINE S == {j \in Jti : TokenStatus[j] = "live" /\ whitelist[j] <= now'}
  <2>1. TokenStatus' = [t \in Jti |-> IF t \in S THEN "dead" ELSE TokenStatus[t]]
    BY <1>0, <1>6 DEF Tick, TokenStatus, TypeOK
  <2>2. Delivered' = Delivered
    BY <1>6 DEF Tick, Delivered
  <2>3. Lifecycle!End(S)
    BY <2>1, <2>2 DEF Lifecycle!End
  <2> QED
    BY <2>3
<1>7. ASSUME NEW r \in Requests,
             \/ Begin(r) \/ SignAccess(r) \/ SignRefresh(r)
             \/ ScanStart(r) \/ ScanEnd(r) \/ PipelineDone(r)
             \/ RefreshCheck(r) \/ GuardCheck(r) \/ Abort(r)
      PROVE  Stutter
  <2>1. /\ UNCHANGED <<now, whitelist, revokedBy>>
        /\ pc[r] # "pair" /\ pc'[r] # "pair"
        /\ \A q \in Requests \ {r} : pc'[q] = pc[q]
    BY <1>0, <1>7 DEF TypeOK, Begin, Login, LoginRefused, TokenRefused, Refresh,
       Logout, SignAccess, SignRefresh, Sign, ScanStart, ScanEnd, PipelineDone,
       RefreshCheck, GuardCheck, Abort, Step, Active, Issuing, Revoking
  <2> QED
    BY <1>0, <2>1, StatusStutter, DeliveredStutter
<1>8. ASSUME UNCHANGED vars PROVE Stutter
  BY <1>8, StatusStutter DEF vars, Delivered
<1> QED
  <2>2. \A r \in Requests : {<<r, "access">>, <<r, "refresh">>} \in SUBSET Jti
    OBVIOUS
  <2>3. ASSUME NEW r \in Requests, RefreshRevoke(r) \/ LogoutRevoke(r)
        PROVE  Stutter \/ Lifecycle!Next
    <3>1. {presented[r]} \in SUBSET Jti
      BY <1>0, <2>3, RevokeSteps
    <3> QED
      BY <1>4, <2>3, <3>1 DEF Lifecycle!Next
  <2>4. ASSUME NEW r \in Requests, NEW j \in batch[r], PipelineDel(r, j)
        PROVE  Stutter \/ Lifecycle!Next
    <3>1. {j} \in SUBSET Jti
      BY <1>0, <2>4, PipelineSteps
    <3> QED
      BY <1>5, <2>4, <3>1 DEF Lifecycle!Next
  <2>5. ASSUME NEW r \in Requests, SetAccess(r) \/ SetRefresh(r) \/ Reply(r)
        PROVE  Lifecycle!Next
    BY <1>1, <1>2, <2>2, <2>5 DEF Lifecycle!Next
  <2>6. ASSUME Tick PROVE Lifecycle!Next
    BY <1>6, <2>6 DEF Lifecycle!Next
  <2>7. Stutter \/ Lifecycle!Next
    BY <1>7, <1>8, <2>3, <2>4, <2>5, <2>6 DEF Next, Continue, Issue, RevokeAll
  <2> QED
    BY <2>7 DEF Lifecycle!vars

(* Whatever requests run at the same time, every token the service signs   *)
(* goes through the life that TokenLifecycle describes.                    *)
THEOREM Refinement == Spec => ImplementsLifecycle
  BY LifecycleInit, LifecycleStep, Invariance, PTL
  DEF Spec, ImplementsLifecycle, Lifecycle!Spec

-----------------------------------------------------------------------------
(* What liveness rests on: a request has a bounded number of steps.        *)

(* How many awaits lie before the answer, the DELs of a pipeline counting  *)
(* as one.                                                                 *)
Phase(p) ==
  CASE p = "new" -> 8
    [] p = "check" -> 7
    [] p = "rotate" -> 6
    [] p = "signAccess" -> 5
    [] p = "signRefresh" -> 4
    [] p \in {"setAccess", "scan"} -> 3
    [] p \in {"setRefresh", "scanning", "guard"} -> 2
    [] p \in {"reply", "pipeline", "logout"} -> 1
    [] OTHER -> 0

Closer(r) ==
  \/ Phase(pc'[r]) < Phase(pc[r])
  \/ pc'[r] = pc[r] /\ Cardinality(batch'[r]) < Cardinality(batch[r])

(* The keys there are, and so what a SCAN can collect. *)
Kept == {j \in Jti : whitelist[j] # 0}
FinitelyMany == IsFiniteSet(Kept) /\ \A r \in Requests : IsFiniteSet(batch[r])

LEMMA FiniteStep ==
  ASSUME TypeOK, CarriedTokens, FinitelyMany, [Next]_vars
  PROVE  FinitelyMany'
<1> USE DEF token, redis, massRevoke, TypeOK, Step
<1>1. ASSUME NEW x, Kept' \subseteq Kept \union {x} PROVE IsFiniteSet(Kept')
  BY <1>1, FS_AddElement, FS_Subset DEF FinitelyMany
<1>2. ASSUME Kept' \subseteq Kept PROVE IsFiniteSet(Kept')
  BY <1>2, FS_Subset DEF FinitelyMany
<1>3. ASSUME UNCHANGED <<whitelist, batch>> PROVE FinitelyMany'
  BY <1>3 DEF FinitelyMany, Kept
<1>4. ASSUME NEW r \in Requests, Begin(r) PROVE FinitelyMany'
  BY <1>3, <1>4, BeginEffect
<1>5. ASSUME NEW r \in Requests, NEW kind \in Kinds, SetEx(r, kind) PROVE FinitelyMany'
  <2>1. Kept' \subseteq Kept \union {<<r, kind>>}
    BY <1>5 DEF SetEx, Kept
  <2>2. UNCHANGED batch
    BY <1>5 DEF SetEx
  <2> QED
    BY <1>1, <2>1, <2>2 DEF FinitelyMany
<1>6. ASSUME NEW r \in Requests, Issue(r) PROVE FinitelyMany'
  <2>1. CASE SignAccess(r) \/ SignRefresh(r) \/ Reply(r)
    BY <1>3, <2>1 DEF SignAccess, SignRefresh, Sign, Reply
  <2> QED
    BY <1>5, <1>6, <2>1 DEF Issue, SetAccess, SetRefresh
<1>7. ASSUME NEW r \in Requests, ScanStart(r) \/ PipelineDone(r) \/ RefreshCheck(r) \/ GuardCheck(r)
      PROVE  FinitelyMany'
  BY <1>3, <1>7 DEF ScanStart, PipelineDone, RefreshCheck, GuardCheck
<1>8. ASSUME NEW r \in Requests, ScanEnd(r) PROVE FinitelyMany'
  <2>1. PICK K \in SUBSET KeysOf(user[r]) : batch' = [batch EXCEPT ![r] = K]
    BY <1>8 DEF ScanEnd
  <2>2. K \in SUBSET Kept
    BY <2>1 DEF KeysOf, Kept, Whitelisted
  <2>3. IsFiniteSet(K)
    BY <2>2, FS_Subset DEF FinitelyMany
  <2>4. UNCHANGED whitelist
    BY <1>8 DEF ScanEnd
  <2> QED
    BY <2>1, <2>3, <2>4 DEF FinitelyMany, Kept
<1>9. ASSUME NEW r \in Requests, NEW j \in batch[r], PipelineDel(r, j) PROVE FinitelyMany'
  <2>1. Kept' \subseteq Kept
    BY <1>9, PipelineSteps DEF Kept, Deleted
  <2>2. IsFiniteSet(batch[r] \ {j})
    BY FS_RemoveElement DEF FinitelyMany
  <2> QED
    BY <1>2, <1>9, <2>1, <2>2 DEF FinitelyMany, PipelineDel
<1>10. ASSUME NEW r \in Requests, RefreshRevoke(r) \/ LogoutRevoke(r) PROVE FinitelyMany'
  <2>1. Kept' \subseteq Kept
    BY <1>10, RevokeSteps DEF Kept, Deleted
  <2>2. UNCHANGED batch
    BY <1>10 DEF RefreshRevoke, LogoutRevoke
  <2> QED
    BY <1>2, <2>1, <2>2 DEF FinitelyMany
<1>11. ASSUME NEW r \in Requests, Abort(r) PROVE FinitelyMany'
  BY <1>11, FS_EmptySet DEF Abort, FinitelyMany, Kept
<1>12. ASSUME Tick \/ UNCHANGED vars PROVE FinitelyMany'
  BY <1>3, <1>12 DEF Tick, vars
<1> QED
  BY <1>4, <1>6, <1>7, <1>8, <1>9, <1>10, <1>11, <1>12 DEF Next, Continue, RevokeAll

(* A step of request r brings r closer, and leaves the others as they are. *)
LEMMA CloserStep ==
  ASSUME TypeOK, FinitelyMany, NEW r \in Requests, Begin(r) \/ Continue(r) \/ Abort(r)
  PROVE  /\ Closer(r)
         /\ \A q \in Requests \ {r} : pc'[q] = pc[q] /\ batch'[q] = batch[q]
<1> USE DEF token, redis, massRevoke, TypeOK, Step, Closer, Phase, Issuing, Revoking, Active, Answers
<1>1. CASE Begin(r)
  BY <1>1 DEF Begin, Login, LoginRefused, TokenRefused, Refresh, Logout
<1>2. CASE Issue(r)
  BY <1>2 DEF Issue, SignAccess, SignRefresh, SetAccess, SetRefresh, Reply, Sign, SetEx
<1>3. CASE ScanStart(r) \/ ScanEnd(r) \/ PipelineDone(r)
  BY <1>3 DEF ScanStart, ScanEnd, PipelineDone
<1>4. ASSUME NEW j \in batch[r], PipelineDel(r, j)
      PROVE  Closer(r) /\ \A q \in Requests \ {r} : pc'[q] = pc[q] /\ batch'[q] = batch[q]
  <2>1. /\ batch'[r] = batch[r] \ {j} /\ pc' = pc
        /\ \A q \in Requests \ {r} : batch'[q] = batch[q]
    BY <1>4 DEF PipelineDel
  <2>2. IsFiniteSet(batch[r])
    BY DEF FinitelyMany
  <2>3. Cardinality(batch[r]) \in Nat /\ Cardinality(batch[r] \ {j}) = Cardinality(batch[r]) - 1
    BY <2>2, FS_CardinalityType, FS_RemoveElement
  <2> QED
    BY <2>1, <2>3
<1>5. CASE RefreshCheck(r) \/ RefreshRevoke(r) \/ GuardCheck(r) \/ LogoutRevoke(r)
  BY <1>5 DEF RefreshCheck, RefreshRevoke, GuardCheck, LogoutRevoke
<1>6. CASE Abort(r)
  BY <1>6 DEF Abort
<1> QED
  BY <1>1, <1>2, <1>3, <1>4, <1>5, <1>6 DEF Continue, RevokeAll

(* What EveryRequestAnswered rests on, for any number of requests: each    *)
(* step of a request brings it closer to its answer, and no step of        *)
(* another one, no expiry and no key written by others takes it back.  It  *)
(* ends after at most 8 steps and one for each key its SCAN has found.     *)
THEOREM Bounded ==
  Spec => [][\A r \in Requests :
               /\ Begin(r) \/ Continue(r) \/ Abort(r) => Closer(r)
               /\ pc'[r] # pc[r] \/ batch'[r] # batch[r] => Closer(r)]_vars
<1>1. Init => FinitelyMany
  <2>1. SUFFICES ASSUME Init PROVE FinitelyMany
    OBVIOUS
  <2>2. Kept = {} /\ \A r \in Requests : batch[r] = {}
    BY <2>1 DEF Init, Kept
  <2> QED
    BY <2>2, FS_EmptySet DEF FinitelyMany
<1>2. IInv /\ FinitelyMany /\ [Next]_vars => FinitelyMany'
  BY FiniteStep DEF IInv
<1>3. ASSUME IInv, FinitelyMany, [Next]_vars
      PROVE  [\A r \in Requests :
                /\ Begin(r) \/ Continue(r) \/ Abort(r) => Closer(r)
                /\ pc'[r] # pc[r] \/ batch'[r] # batch[r] => Closer(r)]_vars
  <2>1. SUFFICES ASSUME NEW r \in Requests
                 PROVE  /\ Begin(r) \/ Continue(r) \/ Abort(r) => Closer(r)
                        /\ pc'[r] # pc[r] \/ batch'[r] # batch[r] => Closer(r)
    OBVIOUS
  <2>2. TypeOK
    BY <1>3 DEF IInv
  <2>3. Begin(r) \/ Continue(r) \/ Abort(r) => Closer(r)
    BY <1>3, <2>2, CloserStep
  <2>4. ASSUME pc'[r] # pc[r] \/ batch'[r] # batch[r] PROVE Closer(r)
    <3>1. CASE Tick \/ UNCHANGED vars
      BY <2>4, <3>1 DEF Tick, vars, massRevoke
    <3>2. ASSUME NEW q \in Requests, Begin(q) \/ Continue(q) \/ Abort(q) PROVE Closer(r)
      BY <1>3, <2>2, <2>4, <3>2, CloserStep
    <3> QED
      BY <1>3, <3>1, <3>2 DEF Next
  <2> QED
    BY <2>3, <2>4
<1> QED
  BY <1>1, <1>2, <1>3, Invariance, PTL DEF Spec
=============================================================================
