-------------------------- MODULE WelcomeDelivery --------------------------
(***************************************************************************)
(* What the queue and the worker promise together about every message,     *)
(* with the batches, the timers and the records' order left out: in a try  *)
(* its email is sent at most once; a try that gets to its end forgets the  *)
(* message if and only if its email was sent in this very try; one that is *)
(* cut off gives it back; and after MaxReceiveCount tries it is parked.    *)
(***************************************************************************)
EXTENDS Integers

CONSTANTS Messages,
          Poison,          \* those whose body does not parse
          MaxReceiveCount  \* tries

VARIABLES place,    \* place[m]: where the message is
          tries,    \* tries[m]: how often a worker was given it
          emailed,  \* those whose email was sent in the try under way
          copies    \* copies[m]: emails sent in all tries

vars == <<place, tries, emailed, copies>>

Init ==
  /\ place = [m \in Messages |-> "absent"]
  /\ tries = [m \in Messages |-> 0]
  /\ emailed = {}
  /\ copies = [m \in Messages |-> 0]

Submit(m) ==
  /\ place[m] = "absent"
  /\ place' = [place EXCEPT ![m] = "waiting"]
  /\ UNCHANGED <<tries, emailed, copies>>

Take(m) ==
  /\ place[m] = "waiting" /\ tries[m] < MaxReceiveCount
  /\ place' = [place EXCEPT ![m] = "held"]
  /\ tries' = [tries EXCEPT ![m] = @ + 1]
  /\ UNCHANGED <<emailed, copies>>

Email(m) ==
  /\ place[m] = "held" /\ m \notin emailed \union Poison
  /\ emailed' = emailed \union {m}
  /\ copies' = [copies EXCEPT ![m] = @ + 1]
  /\ UNCHANGED <<place, tries>>

(* The tries of a batch end together, those that are done apart. *)
End(batch, done) ==
  /\ \A m \in batch : place[m] = "held"
  /\ place' = [m \in Messages |-> IF m \in done THEN "deleted"
                                  ELSE IF m \in batch THEN "waiting" ELSE place[m]]
  /\ emailed' = emailed \ batch
  /\ UNCHANGED <<tries, copies>>

Settle(batch) == End(batch, batch \intersect emailed)

CutOff(batch) == End(batch, {})

Park(m) ==
  /\ place[m] = "waiting" /\ tries[m] = MaxReceiveCount
  /\ place' = [place EXCEPT ![m] = "dlq"]
  /\ UNCHANGED <<tries, emailed, copies>>

Next ==
  \/ \E m \in Messages : Submit(m) \/ Take(m) \/ Email(m) \/ Park(m)
  \/ \E batch \in SUBSET Messages : Settle(batch) \/ CutOff(batch)

Spec == Init /\ [][Next]_vars
=============================================================================
