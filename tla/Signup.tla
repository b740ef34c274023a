------------------------------- MODULE Signup -------------------------------
(***************************************************************************)
(* AuthService.signup behind POST /auth/signup: look the email up, hash    *)
(* the password, insert the row, queue the welcome email.  Each await is   *)
(* one action, so concurrent signups for one email interleave between the  *)
(* lookup and the insert, and a failure can fall between the insert and    *)
(* the message.                                                            *)
(***************************************************************************)
EXTENDS Integers

CONSTANTS Requests,     \* signup calls; the request names the user id it creates
          Spellings,    \* what clients type as an email
          Emails,       \* normalized emails
          Normalized,   \* Normalized[s]: s.toLowerCase().trim()
          None,         \* no email yet
          MaxAttempts   \* SendMessage attempts of the SQS client

ASSUME EmailAssumption == Normalized \in [Spellings -> Emails] /\ None \notin Emails
ASSUME AttemptsAssumption == MaxAttempts \in Nat \ {0}

VARIABLES pc,        \* pc[r]: the await r is at, or its answer
          email,     \* email[r]: the normalized email of the request
          users,     \* the users table
          attempts,  \* attempts[r]: SendMessage attempts made
          jobs       \* jobs[r]: welcome messages in the queue for the user r created

vars == <<pc, email, users, attempts, jobs>>

Active == {"find", "hash", "create", "enqueue", "reply"}
Answers == {"CREATED", "EMAIL_TAKEN", "INTERNAL", "ABORTED"}
Row == [id : Requests, email : Emails]

Init ==
  /\ pc = [r \in Requests |-> "new"]
  /\ email = [r \in Requests |-> None]
  /\ users = {}
  /\ attempts = [r \in Requests |-> 0]
  /\ jobs = [r \in Requests |-> 0]

Step(r, from, to) ==
  /\ pc[r] = from
  /\ pc' = [pc EXCEPT ![r] = to]

HasRow(e) == \E u \in users : u.email = e

Start(r, s) ==
  /\ Step(r, "new", "find")
  /\ email' = [email EXCEPT ![r] = Normalized[s]]
  /\ UNCHANGED <<users, attempts, jobs>>

(* findByEmail: a read of its own, not part of the insert. *)
FindByEmail(r) ==
  /\ Step(r, "find", IF HasRow(email[r]) THEN "EMAIL_TAKEN" ELSE "hash")
  /\ UNCHANGED <<email, users, attempts, jobs>>

Hash(r) ==
  /\ Step(r, "hash", "create")
  /\ UNCHANGED <<email, users, attempts, jobs>>

(* Mutant of Create: there is no unique index. *)
CreateAnyway(r) ==
  /\ Step(r, "create", "enqueue")
  /\ users' = users \union {[id |-> r, email |-> email[r]]}
  /\ UNCHANGED <<email, attempts, jobs>>

(* Mutant of Create: a signup waits for the others that are at the insert. *)
CreateAlone(r) ==
  /\ ~HasRow(email[r])
  /\ \A q \in Requests \ {r} : pc[q] = "create" => email[q] # email[r]
  /\ Step(r, "create", "enqueue")
  /\ users' = users \union {[id |-> r, email |-> email[r]]}
  /\ UNCHANGED <<email, attempts, jobs>>

(* The insert, under the unique index on lower(email). *)
Create(r) ==
  /\ ~HasRow(email[r])
  /\ Step(r, "create", "enqueue")
  /\ users' = users \union {[id |-> r, email |-> email[r]]}
  /\ UNCHANGED <<email, attempts, jobs>>

(* Mutant of CreateRefused: ON CONFLICT DO NOTHING, taken for an insert. *)
CreateIgnored(r) ==
  /\ HasRow(email[r])
  /\ Step(r, "create", "reply")
  /\ UNCHANGED <<email, users, attempts, jobs>>

(* The index refuses the row; nobody catches the driver's error, and the   *)
(* error mapper answers an unknown error with 500.                         *)
CreateRefused(r) ==
  /\ HasRow(email[r])
  /\ Step(r, "create", "INTERNAL")
  /\ UNCHANGED <<email, users, attempts, jobs>>

(* SendMessage, and its acknowledgement. *)
Enqueue(r) ==
  /\ Step(r, "enqueue", "reply")
  /\ attempts' = [attempts EXCEPT ![r] = @ + 1]
  /\ jobs' = [jobs EXCEPT ![r] = @ + 1]
  /\ UNCHANGED <<email, users>>

(* Mutant of EnqueueFails: the error reaches the route. *)
EnqueueThrows(r) ==
  /\ attempts' = [attempts EXCEPT ![r] = @ + 1]
  /\ Step(r, "enqueue", IF attempts[r] + 1 < MaxAttempts THEN "enqueue" ELSE "INTERNAL")
  /\ \E taken \in {0, 1} : jobs' = [jobs EXCEPT ![r] = @ + taken]
  /\ UNCHANGED <<email, users>>

(* SQS takes the message or not, but no acknowledgement comes: the client  *)
(* tries again, and after the last attempt it throws.  signup logs that    *)
(* and answers as if nothing had happened.                                 *)
EnqueueFails(r) ==
  /\ attempts' = [attempts EXCEPT ![r] = @ + 1]
  /\ Step(r, "enqueue", IF attempts[r] + 1 < MaxAttempts THEN "enqueue" ELSE "reply")
  /\ \E taken \in {0, 1} : jobs' = [jobs EXCEPT ![r] = @ + taken]
  /\ UNCHANGED <<email, users>>

Reply(r) ==
  /\ Step(r, "reply", "CREATED")
  /\ UNCHANGED <<email, users, attempts, jobs>>

(* The database fails, before or after it has taken the row, or Lambda's   *)
(* ten seconds are over: the client sees a 500 or a 504.                   *)
Abort(r) ==
  /\ pc[r] \in Active
  /\ pc' = [pc EXCEPT ![r] = "ABORTED"]
  /\ UNCHANGED <<email, users, attempts, jobs>>

Continue(r) ==
  \/ FindByEmail(r) \/ Hash(r) \/ Create(r) \/ CreateRefused(r)
  \/ Enqueue(r) \/ EnqueueFails(r) \/ Reply(r)

Next ==
  \E r \in Requests :
    \/ \E s \in Spellings : Start(r, s)
    \/ Continue(r)
    \/ Abort(r)

Spec == Init /\ [][Next]_vars

(* Lambda runs an invocation to its end. *)
FairSpec == Spec /\ \A r \in Requests : WF_vars(Continue(r))

-----------------------------------------------------------------------------
(* Types *)
TypeOK ==
  /\ pc \in [Requests -> {"new"} \union Active \union Answers]
  /\ email \in [Requests -> Emails \union {None}]
  /\ users \subseteq Row
  /\ attempts \in [Requests -> 0..MaxAttempts]
  /\ jobs \in [Requests -> 0..MaxAttempts]

(* Two signups that both found the email free never both get an account:   *)
(* one row per email, and one 201 per email.                               *)
OneAccountPerEmail ==
  /\ \A u, v \in users : u.email = v.email => u = v
  /\ \A r, q \in Requests :
       pc[r] = "CREATED" /\ pc[q] = "CREATED" /\ email[r] = email[q] => r = q

(* The queue never holds a job for a user who is not in the table, nor one *)
(* with another email than the table's: the worker needs no lookup.        *)
JobsHaveUsers ==
  \A r \in Requests :
    jobs[r] > 0 => [id |-> r, email |-> email[r]] \in users

(* An answer tells the truth about the table, however late it comes: 201   *)
(* when the row is this request's own, EMAIL_TAKEN when it is another's.   *)
AnswersAreTrue ==
  \A r \in Requests :
    /\ pc[r] = "CREATED" => [id |-> r, email |-> email[r]] \in users
    /\ pc[r] = "EMAIL_TAKEN" =>
         \E u \in users : u.email = email[r] /\ u.id # r

(* "SQS down at signup: signup still returns 201" (README.md): whatever    *)
(* the attempts to queue the email come to, the answer is 201, unless the  *)
(* invocation itself was cut off.                                          *)
SqsDownStillCreated ==
  \A u \in users : pc[u.id] \in {"enqueue", "reply", "CREATED", "ABORTED"}

(* What a client has been told. *)
Reported == [r \in Requests |-> IF pc[r] \in Answers THEN pc[r] ELSE "none"]

Promise ==
  INSTANCE Accounts WITH asked <- email, accounts <- users, tries <- attempts,
                         welcomes <- jobs, answer <- Reported

(* Signup, its lookups and hashes left out, keeps the promise of Accounts: *)
(* the gap between the lookup and the insert shows in no answer, and a 201 *)
(* without a welcome message means that SQS left every attempt without an  *)
(* acknowledgement.  Only a request that was cut off may leave an account  *)
(* that nobody was told of.                                                *)
ImplementsAccounts == Promise!Spec

(* Somebody gets the account: signups for an email do not refuse each      *)
(* other, or wait for each other, until nobody has it.                     *)
SomebodyWins ==
  \A r \in Requests :
    pc[r] = "hash" ~> HasRow(email[r]) \/ pc[r] = "ABORTED"

-----------------------------------------------------------------------------
(* The inductive invariant behind the safety properties.                   *)

(* The table holds one row per email, each made by the request it names,   *)
(* which is past its insert.                                               *)
RowsHaveMakers ==
  /\ \A u, v \in users : u.email = v.email => u = v
  /\ \A u \in users :
       /\ u.email = email[u.id]
       /\ pc[u.id] \in {"enqueue", "reply", "CREATED", "ABORTED"}

(* A request that is past its insert has its row; it goes on trying to     *)
(* queue the message until SQS has it, but not for ever.                   *)
MakersHaveRows ==
  \A r \in Requests :
    /\ IF pc[r] = "new" THEN email[r] = None ELSE email[r] \in Emails
    /\ pc[r] \in {"enqueue", "reply", "CREATED"} =>
         [id |-> r, email |-> email[r]] \in users
    /\ pc[r] \in {"new", "find", "hash", "create"} => attempts[r] = 0
    /\ pc[r] = "enqueue" => attempts[r] < MaxAttempts
    /\ pc[r] \in {"reply", "CREATED"} => jobs[r] > 0 \/ attempts[r] = MaxAttempts
    /\ jobs[r] <= attempts[r]

IInv ==
  /\ TypeOK
  /\ RowsHaveMakers
  /\ MakersHaveRows
  /\ JobsHaveUsers
  /\ AnswersAreTrue

=============================================================================
