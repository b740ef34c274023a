---------------------------- MODULE SignupProofs ----------------------------
(***************************************************************************)
(* Proofs about Signup, for any set of requests, any spellings of emails   *)
(* and any number of attempts to queue the message.                        *)
(***************************************************************************)
EXTENDS Signup, TLAPS

USE EmailAssumption, AttemptsAssumption

LEMMA InitIInv == Init => IInv
  BY DEF Init, IInv, TypeOK, RowsHaveMakers, MakersHaveRows, JobsHaveUsers,
         AnswersAreTrue, Active

(* The steps that leave the table and the message counters alone. *)
Quiet(r) ==
  \/ \E s \in Spellings : Start(r, s)
  \/ FindByEmail(r) \/ Hash(r) \/ CreateRefused(r) \/ Reply(r) \/ Abort(r)

LEMMA QuietStep ==
  ASSUME IInv, NEW r \in Requests, Quiet(r)
  PROVE  IInv'
<1> USE DEF IInv, Quiet, Start, FindByEmail, Hash, CreateRefused, Reply, Abort, Step
<1>1. TypeOK'
  BY DEF TypeOK, Active, Answers
<1>2. RowsHaveMakers'
  BY DEF TypeOK, RowsHaveMakers, Active, Row
<1>3. MakersHaveRows'
  BY DEF TypeOK, MakersHaveRows, Active
<1>4. JobsHaveUsers'
  <2> SUFFICES ASSUME NEW q \in Requests, jobs'[q] > 0
               PROVE  [id |-> q, email |-> email'[q]] \in users'
    BY DEF JobsHaveUsers
  <2>1. users' = users /\ jobs' = jobs
    OBVIOUS
  <2>2. pc[q] # "new"
    <3>1. jobs[q] \in Nat /\ attempts[q] \in Nat
      BY DEF TypeOK
    <3>2. jobs[q] <= attempts[q] /\ (pc[q] = "new" => attempts[q] = 0)
      BY DEF MakersHaveRows
    <3> QED
      BY <2>1, <3>1, <3>2
  <2>3. email'[q] = email[q]
    BY <2>2 DEF TypeOK
  <2> QED
    BY <2>1, <2>3 DEF JobsHaveUsers
<1>5. AnswersAreTrue'
  BY DEF TypeOK, RowsHaveMakers, MakersHaveRows, AnswersAreTrue, HasRow, Row
<1> QED
  BY <1>1, <1>2, <1>3, <1>4, <1>5

(* The insert: the unique index is what keeps the emails apart. *)
LEMMA CreateStep ==
  ASSUME IInv, NEW r \in Requests, Create(r)
  PROVE  IInv'
<1> DEFINE row == [id |-> r, email |-> email[r]]
<1>1. row \in Row /\ row.id = r /\ row.email = email[r]
  BY DEF IInv, TypeOK, MakersHaveRows, Create, Step, Row
<1>2. /\ pc[r] = "create" /\ pc' = [pc EXCEPT ![r] = "enqueue"]
      /\ users' = users \union {row}
      /\ UNCHANGED <<email, attempts, jobs>>
      /\ \A u \in users : u.email # email[r]
  BY DEF Create, Step, HasRow
<1> HIDE DEF row
<1> USE DEF IInv, TypeOK
<1>3. TypeOK'
  BY <1>1, <1>2 DEF Active
<1>4. RowsHaveMakers'
  BY <1>1, <1>2 DEF RowsHaveMakers, Row
<1>5. MakersHaveRows'
  BY <1>1, <1>2 DEF MakersHaveRows, row
<1>6. JobsHaveUsers'
  BY <1>2 DEF JobsHaveUsers
<1>7. AnswersAreTrue'
  BY <1>2 DEF AnswersAreTrue
<1> QED
  BY <1>3, <1>4, <1>5, <1>6, <1>7

LEMMA EnqueueStep ==
  ASSUME IInv, NEW r \in Requests, Enqueue(r) \/ EnqueueFails(r)
  PROVE  IInv'
<1>0. attempts[r] \in Nat /\ jobs[r] \in Nat
  BY DEF IInv, TypeOK
<1> PICK taken \in {0, 1} :
      /\ pc[r] = "enqueue"
      /\ \E to \in {"enqueue", "reply"} :
           /\ pc' = [pc EXCEPT ![r] = to]
           /\ to = "enqueue" => attempts[r] + 1 < MaxAttempts
           /\ to = "reply" => taken = 1 \/ attempts[r] + 1 >= MaxAttempts
      /\ attempts' = [attempts EXCEPT ![r] = @ + 1]
      /\ jobs' = [jobs EXCEPT ![r] = @ + taken]
      /\ UNCHANGED <<email, users>>
  <2>1. CASE Enqueue(r)
    <3>1. 1 \in {0, 1} /\ "reply" \in {"enqueue", "reply"}
      OBVIOUS
    <3> QED
      BY <2>1, <3>1 DEF Enqueue, Step
  <2>2. CASE EnqueueFails(r)
    <3> DEFINE to == IF attempts[r] + 1 < MaxAttempts THEN "enqueue" ELSE "reply"
    <3>1. /\ to \in {"enqueue", "reply"}
          /\ to = "enqueue" => attempts[r] + 1 < MaxAttempts
          /\ to = "reply" => attempts[r] + 1 >= MaxAttempts
      BY <1>0
    <3>2. pc[r] = "enqueue" /\ pc' = [pc EXCEPT ![r] = to]
      BY <2>2 DEF EnqueueFails, Step
    <3> HIDE DEF to
    <3> QED
      BY <2>2, <3>1, <3>2 DEF EnqueueFails
  <2> QED
    BY <2>1, <2>2
<1> USE DEF IInv
<1>1. TypeOK'
  <2>1. attempts[r] \in 0..MaxAttempts /\ attempts[r] < MaxAttempts
    BY DEF TypeOK, MakersHaveRows
  <2>2. jobs[r] \in 0..MaxAttempts /\ jobs[r] <= attempts[r]
    BY DEF TypeOK, MakersHaveRows
  <2>3. attempts[r] + 1 \in 0..MaxAttempts /\ jobs[r] + taken \in 0..MaxAttempts
    BY <2>1, <2>2
  <2>4. attempts' \in [Requests -> 0..MaxAttempts] /\ jobs' \in [Requests -> 0..MaxAttempts]
    BY <2>3 DEF TypeOK
  <2> QED
    BY <2>4 DEF TypeOK, Active
<1>2. RowsHaveMakers'
  BY DEF TypeOK, RowsHaveMakers, Row
<1>3. MakersHaveRows'
  <2>1. ASSUME NEW q \in Requests \ {r}
        PROVE  pc'[q] = pc[q] /\ attempts'[q] = attempts[q] /\ jobs'[q] = jobs[q]
    BY <2>1 DEF TypeOK
  <2>2. /\ attempts'[r] = attempts[r] + 1 /\ jobs'[r] = jobs[r] + taken
        /\ pc'[r] \in {"enqueue", "reply"}
        /\ pc'[r] = "enqueue" => attempts[r] + 1 < MaxAttempts
        /\ pc'[r] = "reply" => taken = 1 \/ attempts[r] + 1 >= MaxAttempts
    BY DEF TypeOK
  <2>3. attempts[r] < MaxAttempts /\ jobs[r] <= attempts[r]
    BY DEF MakersHaveRows
  <2>4. /\ attempts'[r] < MaxAttempts \/ pc'[r] = "reply"
        /\ pc'[r] = "reply" => jobs'[r] > 0 \/ attempts'[r] = MaxAttempts
        /\ jobs'[r] <= attempts'[r]
    BY <1>0, <2>2, <2>3
  <2> QED
    BY <2>1, <2>2, <2>4 DEF TypeOK, MakersHaveRows
<1>4. JobsHaveUsers'
  BY DEF TypeOK, MakersHaveRows, JobsHaveUsers
<1>5. AnswersAreTrue'
  BY DEF TypeOK, AnswersAreTrue
<1> QED
  BY <1>1, <1>2, <1>3, <1>4, <1>5

LEMMA StepKeeps == ASSUME IInv, [Next]_vars PROVE IInv'
<1>1. ASSUME NEW r \in Requests, Quiet(r) \/ Create(r) \/ Enqueue(r) \/ EnqueueFails(r)
      PROVE  IInv'
  BY <1>1, QuietStep, CreateStep, EnqueueStep
<1>2. CASE UNCHANGED vars
  BY <1>2 DEF vars, IInv, TypeOK, RowsHaveMakers, MakersHaveRows, JobsHaveUsers,
              AnswersAreTrue
<1> QED
  BY <1>1, <1>2 DEF Next, Continue, Quiet

(* The inductive invariant: who made which row, and what was answered. *)
THEOREM Invariance == Spec => []IInv
BY InitIInv, StepKeeps, PTL DEF Spec

(* However many signups race for an email, it gets one row, and one of     *)
(* them a 201: find then insert is safe because the index decides.         *)
THEOREM OneAccount == Spec => []OneAccountPerEmail
<1>1. IInv => OneAccountPerEmail
  <2> SUFFICES ASSUME IInv PROVE OneAccountPerEmail
    OBVIOUS
  <2>1. ASSUME NEW r \in Requests, NEW q \in Requests,
               pc[r] = "CREATED", pc[q] = "CREATED", email[r] = email[q]
        PROVE  r = q
    <3>1. /\ [id |-> r, email |-> email[r]] \in users
          /\ [id |-> q, email |-> email[q]] \in users
      BY <2>1 DEF IInv, MakersHaveRows
    <3>2. [id |-> r, email |-> email[r]] = [id |-> q, email |-> email[q]]
      BY <3>1, <2>1 DEF IInv, RowsHaveMakers
    <3> QED
      BY <3>2
  <2> QED
    BY <2>1 DEF OneAccountPerEmail, IInv, RowsHaveMakers
<1> QED
  BY Invariance, <1>1, PTL

(* Every job in the queue names a user of the table and that user's email, *)
(* whatever failed after the insert.                                       *)
THEOREM JobsAreForUsers == Spec => []JobsHaveUsers
<1>1. IInv => JobsHaveUsers
  BY DEF IInv
<1> QED
  BY Invariance, <1>1, PTL

(* A 201 is backed by a row of its own, a refusal by a row of another. *)
THEOREM TrueAnswers == Spec => []AnswersAreTrue
<1>1. IInv => AnswersAreTrue
  BY DEF IInv
<1> QED
  BY Invariance, <1>1, PTL

(* A failing queue never turns a signup whose row is there into an error. *)
THEOREM SqsDown == Spec => []SqsDownStillCreated
<1>1. IInv => SqsDownStillCreated
  BY DEF IInv, RowsHaveMakers, SqsDownStillCreated
<1> QED
  BY Invariance, <1>1, PTL

-----------------------------------------------------------------------------
(* The refinement of Accounts, one step for each kind of step. *)

LEMMA PromiseInit == Init => Promise!Init
  BY DEF Init, Promise!Init, Reported, Answers

(* A request is under way from its start to its answer. *)
LEMMA ActiveIsUnderway ==
  ASSUME IInv, NEW r \in Requests
  PROVE  pc[r] \in Active => Promise!Underway(r)
  BY DEF IInv, TypeOK, MakersHaveRows, Promise!Underway, Reported, Active, Answers

(* A step that answers nobody leaves the answers alone, and one that       *)
(* answers r changes nobody else's.                                        *)
LEMMA ReportedStep ==
  ASSUME IInv, NEW r \in Requests, NEW a, pc' = [pc EXCEPT ![r] = a]
  PROVE  /\ a \in Answers => Reported' = [Reported EXCEPT ![r] = a]
         /\ a \notin Answers /\ pc[r] \notin Answers => Reported' = Reported
  BY DEF IInv, TypeOK, Reported

LEMMA PromiseStep ==
  ASSUME IInv, [Next]_vars
  PROVE  [Promise!Next]_(Promise!vars)
<1> DEFINE Stutter == UNCHANGED <<email, users, attempts, jobs, Reported>>
<1>1. ASSUME NEW r \in Requests, NEW s \in Spellings, Start(r, s)
      PROVE  Promise!Next
  <2>1. Reported' = Reported
    BY <1>1, ReportedStep DEF Start, Step, Answers
  <2>2. Normalized[s] \in Emails /\ email[r] = None
    BY <1>1 DEF Start, Step, IInv, MakersHaveRows
  <2>3. Promise!Ask(r, Normalized[s])
    BY <1>1, <2>1, <2>2 DEF Start, Promise!Ask
  <2> QED
    BY <2>2, <2>3 DEF Promise!Next
<1>2. ASSUME NEW r \in Requests, NEW a \in Answers, pc[r] \in Active,
             pc' = [pc EXCEPT ![r] = a], UNCHANGED <<email, users, attempts, jobs>>,
             Promise!Told(r, a)
      PROVE  Promise!Next
  <2>1. Reported' = [Reported EXCEPT ![r] = a]
    BY <1>2, ReportedStep
  <2>2. Promise!Answer(r, a)
    BY <1>2, <2>1, ActiveIsUnderway DEF Promise!Answer
  <2> QED
    BY <2>2 DEF Promise!Next, Answers
<1>3. ASSUME NEW r \in Requests, pc[r] \in {"find", "create"}, HasRow(email[r])
      PROVE  Promise!TakenFrom(r)
  <2>1. PICK u \in users : u.email = email[r]
    BY <1>3 DEF HasRow
  <2>2. u.id # r
    BY <1>3 DEF IInv, RowsHaveMakers
  <2> QED
    BY <2>1, <2>2 DEF Promise!TakenFrom
<1>4. ASSUME NEW r \in Requests, FindByEmail(r)
      PROVE  Promise!Next \/ Stutter
  <2>1. CASE HasRow(email[r])
    <3>1. Promise!Told(r, "EMAIL_TAKEN")
      BY <1>3, <1>4, <2>1 DEF FindByEmail, Step, Promise!Told
    <3> QED
      BY <1>2, <1>4, <2>1, <3>1 DEF FindByEmail, Step, Active, Answers
  <2>2. CASE ~HasRow(email[r])
    BY <1>4, <2>2, ReportedStep DEF FindByEmail, Step, Answers
  <2> QED
    BY <2>1, <2>2
<1>5. ASSUME NEW r \in Requests, Hash(r)
      PROVE  Stutter
  BY <1>5, ReportedStep DEF Hash, Step, Answers
<1>6. ASSUME NEW r \in Requests, Create(r)
      PROVE  Promise!Next
  <2>1. Reported' = Reported
    BY <1>6, ReportedStep DEF Create, Step, Answers
  <2>2. Promise!Underway(r)
    BY <1>6, ActiveIsUnderway DEF Create, Step, Active
  <2>3. Promise!Open(r)
    BY <1>6, <2>1, <2>2 DEF Create, HasRow, Promise!Open
  <2> QED
    BY <2>3 DEF Promise!Next
<1>7. ASSUME NEW r \in Requests, CreateRefused(r)
      PROVE  Promise!Next
  <2>1. Promise!Told(r, "INTERNAL")
    BY <1>3, <1>7 DEF CreateRefused, Step, Promise!Told
  <2> QED
    BY <1>2, <1>7, <2>1 DEF CreateRefused, Step, Active, Answers
<1>8. ASSUME NEW r \in Requests, Enqueue(r) \/ EnqueueFails(r)
      PROVE  Promise!Next
  <2>1. Reported' = Reported
    BY <1>8, ReportedStep DEF Enqueue, EnqueueFails, Step, Answers
  <2>2. Promise!Underway(r)
    BY <1>8, ActiveIsUnderway DEF Enqueue, EnqueueFails, Step, Active
  <2>3. Promise!Opened(r) /\ attempts[r] < MaxAttempts
    BY <1>8 DEF Enqueue, EnqueueFails, Step, IInv, MakersHaveRows, Promise!Opened
  <2>4. \E taken \in {0, 1} : Promise!Welcome(r, taken)
    BY <1>8, <2>1, <2>2, <2>3 DEF Enqueue, EnqueueFails, Promise!Welcome
  <2> QED
    BY <2>4 DEF Promise!Next
<1>9. ASSUME NEW r \in Requests, Reply(r)
      PROVE  Promise!Next
  <2>1. Promise!Told(r, "CREATED")
    BY <1>9 DEF Reply, Step, IInv, MakersHaveRows, Promise!Told, Promise!Opened
  <2> QED
    BY <1>2, <1>9, <2>1 DEF Reply, Step, Active, Answers
<1>10. ASSUME NEW r \in Requests, Abort(r)
       PROVE  Promise!Next
  <2>1. Promise!Told(r, "ABORTED")
    BY DEF Promise!Told
  <2> QED
    BY <1>2, <1>10, <2>1 DEF Abort, Answers
<1>11. CASE UNCHANGED vars
  BY <1>11 DEF vars, Reported, Promise!vars
<1> QED
  BY <1>1, <1>4, <1>5, <1>6, <1>7, <1>8, <1>9, <1>10, <1>11
  DEF Next, Continue, Promise!vars

(* From outside, a signup is what Accounts says: one account per email and *)
(* one request told so, every refusal and error explained by an account of *)
(* another request, every 201 with a welcome message or every attempt at   *)
(* one made; find, hash and insert show in nothing else.                   *)
THEOREM Refinement == Spec => ImplementsAccounts
  BY PromiseInit, PromiseStep, Invariance, PTL DEF Spec, ImplementsAccounts, Promise!Spec

-----------------------------------------------------------------------------
(* What liveness rests on: a signup has a bounded number of steps, and     *)
(* only one that was cut off ends without an account for its email.        *)

(* How many awaits a request has before its answer. *)
Awaits(r) ==
  CASE pc[r] = "new" -> MaxAttempts + 5
    [] pc[r] = "find" -> MaxAttempts + 4
    [] pc[r] = "hash" -> MaxAttempts + 3
    [] pc[r] = "create" -> MaxAttempts + 2
    [] pc[r] = "enqueue" -> MaxAttempts + 1 - attempts[r]
    [] pc[r] = "reply" -> 1
    [] OTHER -> 0

LEMMA StepShortens ==
  ASSUME IInv, NEW r \in Requests,
         (\E s \in Spellings : Start(r, s)) \/ Continue(r) \/ Abort(r)
  PROVE  /\ Awaits(r)' < Awaits(r)
         /\ \A q \in Requests \ {r} : Awaits(q)' = Awaits(q)
<1> USE DEF IInv, TypeOK, MakersHaveRows, Awaits, Step
<1>1. CASE \E s \in Spellings : Start(r, s)
  BY <1>1 DEF Start
<1>2. CASE FindByEmail(r)
  BY <1>2 DEF FindByEmail
<1>3. CASE Hash(r) \/ Create(r) \/ CreateRefused(r)
  BY <1>3 DEF Hash, Create, CreateRefused
<1>4. CASE Enqueue(r) \/ EnqueueFails(r)
  <2>1. /\ pc[r] = "enqueue"
        /\ \/ pc'[r] = "reply"
           \/ pc'[r] = "enqueue"
        /\ attempts'[r] = attempts[r] + 1
        /\ \A q \in Requests \ {r} : pc'[q] = pc[q] /\ attempts'[q] = attempts[q]
    BY <1>4 DEF Enqueue, EnqueueFails
  <2>2. attempts[r] \in Nat /\ attempts[r] < MaxAttempts
    <3>1. attempts[r] \in 0..MaxAttempts
      BY DEF TypeOK
    <3>2. attempts[r] < MaxAttempts
      BY <2>1 DEF MakersHaveRows
    <3> QED
      BY <3>1, <3>2
  <2>3. Awaits(r) = MaxAttempts + 1 - attempts[r]
    BY <2>1
  <2>4. Awaits(r)' = 1 \/ Awaits(r)' = MaxAttempts - attempts[r]
    BY <2>1, <2>2
  <2> QED
    BY <2>1, <2>2, <2>3, <2>4
<1>5. CASE Reply(r) \/ Abort(r)
  BY <1>5 DEF Reply, Abort, Active
<1> QED
  BY <1>1, <1>2, <1>3, <1>4, <1>5 DEF Continue

(* A signup is at its answer after MaxAttempts + 5 steps of its own, and   *)
(* no step of another one costs it more: no request waits for another at   *)
(* the unique index, and the SQS client does not retry for ever.           *)
THEOREM Bounded ==
  Spec => [][\A r \in Requests :
               /\ Continue(r) \/ Abort(r) => Awaits(r)' < Awaits(r)
               /\ Awaits(r)' <= Awaits(r)]_vars
<1>1. ASSUME IInv, [Next]_vars
      PROVE  [\A r \in Requests :
                /\ Continue(r) \/ Abort(r) => Awaits(r)' < Awaits(r)
                /\ Awaits(r)' <= Awaits(r)]_vars
  <2>1. SUFFICES ASSUME Next, NEW r \in Requests
                 PROVE  /\ Continue(r) \/ Abort(r) => Awaits(r)' < Awaits(r)
                        /\ Awaits(r)' <= Awaits(r)
    BY <1>1
  <2>2. Awaits(r) \in Nat /\ Awaits(r)' \in Nat
    <3>1. IInv'
      BY <1>1, StepKeeps
    <3> QED
      BY <1>1, <3>1 DEF IInv, TypeOK, MakersHaveRows, Awaits
  <2>3. PICK q \in Requests : (\E s \in Spellings : Start(q, s)) \/ Continue(q) \/ Abort(q)
    BY <2>1 DEF Next
  <2>4. Awaits(r)' < Awaits(r) \/ Awaits(r)' = Awaits(r)
    BY <1>1, <2>3, StepShortens
  <2>5. Continue(r) \/ Abort(r) => Awaits(r)' < Awaits(r)
    BY <1>1, StepShortens
  <2> QED
    BY <2>2, <2>4, <2>5
<1> QED
  BY <1>1, Invariance, PTL DEF Spec

(* A refusal and an error, too, mean that the email has an account. *)
Settled == \A r \in Requests : pc[r] \in Answers \ {"ABORTED"} => HasRow(email[r])

LEMMA SettledStep == ASSUME IInv, Settled, [Next]_vars PROVE Settled'
<1>1. SUFFICES ASSUME NEW r \in Requests, pc'[r] \in Answers \ {"ABORTED"}
               PROVE  \E u \in users' : u.email = email'[r]
  BY DEF Settled, HasRow
<1>2. users \subseteq users'
  BY DEF Next, Continue, Start, FindByEmail, Hash, Create, CreateRefused, Enqueue,
     EnqueueFails, Reply, Abort, vars
<1>3. email'[r] = email[r]
  BY <1>1 DEF Next, Continue, Start, FindByEmail, Hash, Create, CreateRefused, Enqueue,
     EnqueueFails, Reply, Abort, vars, IInv, TypeOK, Step, Answers
<1>4. HasRow(email[r])
  <2>1. CASE pc[r] \in Answers \ {"ABORTED"}
    BY <2>1 DEF Settled
  <2>2. CASE pc[r] \notin Answers \ {"ABORTED"}
    <3>1. pc[r] \in Active
      BY <1>1, <2>2 DEF Next, Continue, Start, FindByEmail, Hash, Create, CreateRefused,
         Enqueue, EnqueueFails, Reply, Abort, vars, IInv, TypeOK, Step, Answers, Active
    <3>2. FindByEmail(r) \/ CreateRefused(r) \/ Reply(r)
      BY <1>1, <2>2 DEF Next, Continue, Start, FindByEmail, Hash, Create, CreateRefused,
         Enqueue, EnqueueFails, Reply, Abort, vars, IInv, TypeOK, Step, Answers, Active
    <3>3. CASE Reply(r)
      BY <3>3 DEF Reply, Step, IInv, MakersHaveRows, HasRow
    <3> QED
      BY <1>1, <3>2, <3>3 DEF FindByEmail, CreateRefused, Step, IInv, TypeOK, Answers
  <2> QED
    BY <2>1, <2>2
<1> QED
  BY <1>2, <1>3, <1>4 DEF HasRow

(* The other half of SomebodyWins: whatever a signup is answered, if it is *)
(* answered by signup itself, its email has an account.  Signups that race *)
(* for an email cannot all be refused.                                     *)
THEOREM NobodyRefusedInVain == Spec => []Settled
<1>1. Init => Settled
  BY DEF Init, Settled, Answers
<1> QED
  BY <1>1, SettledStep, Invariance, PTL DEF Spec
=============================================================================
