------------------------------ MODULE Accounts ------------------------------
(***************************************************************************)
(* What POST /auth/signup promises, whatever requests run at the same time *)
(* and whatever fails: an email gets one account, and the request that     *)
(* opened it alone is answered 201; whoever is refused, was refused for an *)
(* account of somebody else; welcome messages are queued only while the    *)
(* request that opened the account is answered, and a 201 without one      *)
(* means that every attempt to queue it has failed.                        *)
(***************************************************************************)
EXTENDS Integers

CONSTANTS Requests,    \* signup calls
          Emails,      \* normalized emails
          None,        \* no email yet
          MaxAttempts  \* to queue a message

VARIABLES asked,     \* asked[r]: the email that r asks an account for
          accounts,  \* the accounts, each with the request that opened it
          tries,     \* tries[r]: attempts to queue its welcome message
          welcomes,  \* welcomes[r]: how often the queue took it
          answer     \* answer[r]: "none" while there is none

vars == <<asked, accounts, tries, welcomes, answer>>

Init ==
  /\ asked = [r \in Requests |-> None]
  /\ accounts = {}
  /\ tries = [r \in Requests |-> 0]
  /\ welcomes = [r \in Requests |-> 0]
  /\ answer = [r \in Requests |-> "none"]

Underway(r) == asked[r] # None /\ answer[r] = "none"

Opened(r) == [id |-> r, email |-> asked[r]] \in accounts
TakenFrom(r) == \E a \in accounts : a.email = asked[r] /\ a.id # r

Ask(r, e) ==
  /\ asked[r] = None
  /\ asked' = [asked EXCEPT ![r] = e]
  /\ UNCHANGED <<accounts, tries, welcomes, answer>>

Open(r) ==
  /\ Underway(r)
  /\ \A a \in accounts : a.email # asked[r]
  /\ accounts' = accounts \union {[id |-> r, email |-> asked[r]]}
  /\ UNCHANGED <<asked, tries, welcomes, answer>>

Welcome(r, taken) ==
  /\ Underway(r) /\ Opened(r)
  /\ tries[r] < MaxAttempts
  /\ tries' = [tries EXCEPT ![r] = @ + 1]
  /\ welcomes' = [welcomes EXCEPT ![r] = @ + taken]
  /\ UNCHANGED <<asked, accounts, answer>>

(* The last one: the invocation was cut off, or the database failed. *)
Told(r, a) ==
  \/ a = "CREATED" /\ Opened(r) /\ (welcomes[r] > 0 \/ tries[r] = MaxAttempts)
  \/ a \in {"EMAIL_TAKEN", "INTERNAL"} /\ TakenFrom(r)
  \/ a = "ABORTED"

Answer(r, a) ==
  /\ Underway(r)
  /\ Told(r, a)
  /\ answer' = [answer EXCEPT ![r] = a]
  /\ UNCHANGED <<asked, accounts, tries, welcomes>>

Next ==
  \E r \in Requests :
    \/ \E e \in Emails : Ask(r, e)
    \/ Open(r)
    \/ \E taken \in {0, 1} : Welcome(r, taken)
    \/ \E a \in {"CREATED", "EMAIL_TAKEN", "INTERNAL", "ABORTED"} : Answer(r, a)

Spec == Init /\ [][Next]_vars
=============================================================================
