----------------------------- MODULE EmailQueue -----------------------------
(***************************************************************************)
(* Welcome-email jobs from the queue to the provider: the SQS queue with   *)
(* its redrive policy, the event source mapping that feeds the worker      *)
(* Lambda in batches, and email-worker's handler.  SQS and the mapping are *)
(* external; they appear here as scripts/deploy-localstack.ts configures   *)
(* them.  A delivery is one batch on its way through a worker.             *)
(***************************************************************************)
EXTENDS Integers, FiniteSets

CONSTANTS Messages,             \* SQS messages
          Poison,               \* those whose body welcomeEmailJob rejects
          Deliveries,           \* batches that can be under way at once
          BatchSize,            \* of the event source mapping
          BatchWindow,          \* MaximumBatchingWindowInSeconds
          LambdaTimeout,        \* of the worker
          VisibilityTimeout,    \* of the queue
          MaxReceiveCount,      \* of the redrive policy
          FunctionResponseTypes \* of the event source mapping

ASSUME MessagesAssumption == Poison \subseteq Messages
ASSUME LimitAssumption == BatchSize \in Nat \ {0} /\ MaxReceiveCount \in Nat \ {0}
ASSUME TimeAssumption ==
  /\ BatchWindow \in Nat /\ LambdaTimeout \in Nat \ {0} /\ VisibilityTimeout \in Nat
  /\ VisibilityTimeout > BatchWindow + LambdaTimeout
ASSUME ResponseAssumption == FunctionResponseTypes \subseteq {"ReportBatchItemFailures"}

VARIABLES
  queue,      \* queue[m]: where the message is
  hidden,     \* hidden[m]: seconds until an in-flight message reappears
  receives,   \* receives[m]: ApproximateReceiveCount
  stage,      \* stage[d]: what the delivery is at
  batch,      \* batch[d]: its messages (event.Records)
  todo,       \* todo[d]: the records the handler has not come to
  failures,   \* failures[d]: batchItemFailures so far
  budget,     \* budget[d]: seconds left of the window, or of the invocation
  sent,       \* sent[m]: emails the provider has been given for m
  failed,     \* failed[m]: history, deliveries that reported m as failed
  killed      \* killed[m]: history, invocations that ended early with m

vars == <<queue, hidden, receives, stage, batch, todo, failures, budget,
          sent, failed, killed>>
sqs == <<queue, hidden, receives>>
delivery == <<stage, batch, todo, failures, budget>>
history == <<failed, killed>>

Init ==
  /\ queue = [m \in Messages |-> "absent"]
  /\ hidden = [m \in Messages |-> 0]
  /\ receives = [m \in Messages |-> 0]
  /\ stage = [d \in Deliveries |-> "idle"]
  /\ batch = [d \in Deliveries |-> {}]
  /\ todo = [d \in Deliveries |-> {}]
  /\ failures = [d \in Deliveries |-> {}]
  /\ budget = [d \in Deliveries |-> 0]
  /\ sent = [m \in Messages |-> 0]
  /\ failed = [m \in Messages |-> 0]
  /\ killed = [m \in Messages |-> 0]

-----------------------------------------------------------------------------
(* The queue *)

(* SqsEmailEnqueuer.enqueueWelcome, or another producer with a bad body. *)
SendMessage(m) ==
  /\ queue[m] = "absent"
  /\ queue' = [queue EXCEPT ![m] = "visible"]
  /\ UNCHANGED <<hidden, receives, delivery, sent, history>>

(* Mutant of Receive: the visibility timeout is the worker's timeout. *)
ReceiveBriefly(d, m) ==
  /\ queue[m] = "visible" /\ receives[m] < MaxReceiveCount
  /\ stage[d] \in {"idle", "collecting"}
  /\ Cardinality(batch[d]) < BatchSize
  /\ queue' = [queue EXCEPT ![m] = "inflight"]
  /\ hidden' = [hidden EXCEPT ![m] = LambdaTimeout]
  /\ receives' = [receives EXCEPT ![m] = @ + 1]
  /\ stage' = [stage EXCEPT ![d] = "collecting"]
  /\ budget' = [budget EXCEPT ![d] = IF stage[d] = "idle" THEN BatchWindow ELSE @]
  /\ batch' = [batch EXCEPT ![d] = @ \union {m}]
  /\ UNCHANGED <<todo, failures, sent, history>>

(* The mapping's poller receives a message into a batch that still waits   *)
(* for its window to close; the visibility timeout starts to run.          *)
Receive(d, m) ==
  /\ queue[m] = "visible" /\ receives[m] < MaxReceiveCount
  /\ stage[d] \in {"idle", "collecting"}
  /\ Cardinality(batch[d]) < BatchSize
  /\ queue' = [queue EXCEPT ![m] = "inflight"]
  /\ hidden' = [hidden EXCEPT ![m] = VisibilityTimeout]
  /\ receives' = [receives EXCEPT ![m] = @ + 1]
  /\ stage' = [stage EXCEPT ![d] = "collecting"]
  /\ budget' = [budget EXCEPT ![d] = IF stage[d] = "idle" THEN BatchWindow ELSE @]
  /\ batch' = [batch EXCEPT ![d] = @ \union {m}]
  /\ UNCHANGED <<todo, failures, sent, history>>

(* Mutant of Redrive: the last allowed delivery does not take place. *)
RedriveEarly(m) ==
  /\ queue[m] = "visible" /\ receives[m] >= MaxReceiveCount - 1
  /\ queue' = [queue EXCEPT ![m] = "dlq"]
  /\ UNCHANGED <<hidden, receives, delivery, sent, history>>

(* Mutant of Redrive: one more receive is waited for, which never comes. *)
RedriveLate(m) ==
  /\ queue[m] = "visible" /\ receives[m] > MaxReceiveCount
  /\ queue' = [queue EXCEPT ![m] = "dlq"]
  /\ UNCHANGED <<hidden, receives, delivery, sent, history>>

(* RedrivePolicy: the receive after the last allowed one goes to the DLQ. *)
Redrive(m) ==
  /\ queue[m] = "visible" /\ receives[m] = MaxReceiveCount
  /\ queue' = [queue EXCEPT ![m] = "dlq"]
  /\ UNCHANGED <<hidden, receives, delivery, sent, history>>

-----------------------------------------------------------------------------
(* The worker *)

Invoke(d) ==
  /\ stage[d] = "collecting"
  /\ stage' = [stage EXCEPT ![d] = "handling"]
  /\ budget' = [budget EXCEPT ![d] = LambdaTimeout]
  /\ todo' = [todo EXCEPT ![d] = batch[d]]
  /\ UNCHANGED <<sqs, batch, failures, sent, history>>

(* One turn of the handler's loop: the body parses and the provider takes  *)
(* the email.                                                              *)
Processed(d, m) ==
  /\ stage[d] = "handling" /\ m \in todo[d]
  /\ m \notin Poison
  /\ sent' = [sent EXCEPT ![m] = @ + 1]
  /\ todo' = [todo EXCEPT ![d] = @ \ {m}]
  /\ UNCHANGED <<sqs, stage, batch, failures, budget, history>>

(* Mutant of Failed: the catch block logs and forgets. *)
FailedSilently(d, m) ==
  /\ stage[d] = "handling" /\ m \in todo[d]
  /\ todo' = [todo EXCEPT ![d] = @ \ {m}]
  /\ UNCHANGED <<sqs, stage, batch, failures, budget, sent, history>>

(* Mutant of Failed: the catch block leaves the loop. *)
FailedBreaks(d, m) ==
  /\ stage[d] = "handling" /\ m \in todo[d]
  /\ failures' = [failures EXCEPT ![d] = @ \union {m}]
  /\ todo' = [todo EXCEPT ![d] = {}]
  /\ UNCHANGED <<sqs, stage, batch, budget, sent, history>>

(* Mutant of Failed: the whole batch is reported. *)
FailedAll(d, m) ==
  /\ stage[d] = "handling" /\ m \in todo[d]
  /\ failures' = [failures EXCEPT ![d] = batch[d]]
  /\ todo' = [todo EXCEPT ![d] = {}]
  /\ UNCHANGED <<sqs, stage, batch, budget, sent, history>>

(* Or the body does not parse, or provider.send throws and has sent        *)
(* nothing: the record is reported and the loop goes on.                   *)
Failed(d, m) ==
  /\ stage[d] = "handling" /\ m \in todo[d]
  /\ failures' = [failures EXCEPT ![d] = @ \union {m}]
  /\ todo' = [todo EXCEPT ![d] = @ \ {m}]
  /\ UNCHANGED <<sqs, stage, batch, budget, sent, history>>

(* The delivery is over, and its memory with it. *)
Finish(d) ==
  /\ stage' = [stage EXCEPT ![d] = "idle"]
  /\ batch' = [batch EXCEPT ![d] = {}]
  /\ todo' = [todo EXCEPT ![d] = {}]
  /\ failures' = [failures EXCEPT ![d] = {}]
  /\ budget' = [budget EXCEPT ![d] = 0]

(* What the mapping deletes after an invocation that returned: it reads    *)
(* batchItemFailures only if it was told to.                               *)
Consumed(d) ==
  IF "ReportBatchItemFailures" \in FunctionResponseTypes
  THEN batch[d] \ failures[d] ELSE batch[d]

Return(d) ==
  /\ stage[d] = "handling" /\ todo[d] = {}
  /\ queue' = [m \in Messages |-> IF m \in Consumed(d) THEN "deleted" ELSE queue[m]]
  /\ failed' = [m \in Messages |-> IF m \in failures[d] THEN failed[m] + 1 ELSE failed[m]]
  /\ Finish(d)
  /\ UNCHANGED <<hidden, receives, sent, killed>>

(* The invocation ends with an error or at its timeout: nothing is deleted *)
(* and every message of the batch reappears.                               *)
Kill(d) ==
  /\ stage[d] = "handling"
  /\ killed' = [m \in Messages |-> IF m \in batch[d] THEN killed[m] + 1 ELSE killed[m]]
  /\ Finish(d)
  /\ UNCHANGED <<sqs, sent, failed>>

-----------------------------------------------------------------------------
(* A second passes.  No batch waits longer than its window and no          *)
(* invocation runs longer than its timeout; a message whose visibility     *)
(* timeout ends is visible again.                                          *)
Tick ==
  /\ \E m \in Messages : queue[m] = "inflight"
  /\ \A d \in Deliveries : stage[d] # "idle" => budget[d] > 0
  /\ budget' = [d \in Deliveries |-> IF stage[d] = "idle" THEN 0 ELSE budget[d] - 1]
  /\ hidden' = [m \in Messages |-> IF queue[m] = "inflight" THEN hidden[m] - 1 ELSE hidden[m]]
  /\ queue' = [m \in Messages |-> IF queue[m] = "inflight" /\ hidden[m] = 1
                                  THEN "visible" ELSE queue[m]]
  /\ UNCHANGED <<receives, stage, batch, todo, failures, sent, history>>

Handle(d) == Return(d) \/ \E m \in Messages : Processed(d, m) \/ Failed(d, m)

(* An invocation that is out of time ends. *)
Timeout(d) == budget[d] = 0 /\ Kill(d)

Poll == \E m \in Messages : Redrive(m) \/ \E d \in Deliveries : Receive(d, m)

Next ==
  \/ \E m \in Messages : SendMessage(m)
  \/ Poll
  \/ \E d \in Deliveries : Invoke(d) \/ Handle(d) \/ Kill(d)
  \/ Tick

Spec == Init /\ [][Next]_vars

(* The poller polls, the mapping invokes and time passes, whatever the     *)
(* worker does; the worker's loop may be as slow as its timeout allows.    *)
FairSpec ==
  /\ Spec
  /\ WF_vars(Poll) /\ WF_vars(Tick)
  /\ \A d \in Deliveries : WF_vars(Invoke(d)) /\ WF_vars(Timeout(d))

-----------------------------------------------------------------------------
(* Types *)
TypeOK ==
  /\ queue \in [Messages -> {"absent", "visible", "inflight", "deleted", "dlq"}]
  /\ hidden \in [Messages -> 0..VisibilityTimeout]
  /\ receives \in [Messages -> 0..MaxReceiveCount]
  /\ stage \in [Deliveries -> {"idle", "collecting", "handling"}]
  /\ batch \in [Deliveries -> SUBSET Messages]
  /\ todo \in [Deliveries -> SUBSET Messages]
  /\ failures \in [Deliveries -> SUBSET Messages]
  /\ budget \in [Deliveries -> Nat]
  /\ sent \in [Messages -> Nat]
  /\ failed \in [Messages -> Nat]
  /\ killed \in [Messages -> Nat]

(* No message is in two batches at once, and none is visible to the poller *)
(* while a worker still has it: the visibility timeout outlasts the batch  *)
(* window and the worker's own timeout.                                    *)
NoOverlap ==
  \A d \in Deliveries : \A m \in batch[d] :
    /\ queue[m] = "inflight"
    /\ \A e \in Deliveries \ {d} : m \notin batch[e]

(* "only that one redrives" (README.md): the queue forgets a message only  *)
(* after the provider was given its email; one that failed comes again or  *)
(* ends up in the DLQ.                                                     *)
NoLoss == \A m \in Messages : queue[m] = "deleted" => sent[m] > 0

(* A user gets a second copy of the email only when an invocation died     *)
(* after the first one: a failing neighbour in the batch is no reason.     *)
DuplicateOnlyAfterKill == \A m \in Messages : sent[m] <= 1 + killed[m]

(* The DLQ holds only messages whose every delivery failed, and it gets    *)
(* them after exactly MaxReceiveCount of them.                             *)
DlqAfterFailures ==
  \A m \in Messages :
    queue[m] = "dlq" => failed[m] + killed[m] = MaxReceiveCount

(* The records of a batch for which the provider has taken the email. *)
Handled(d) ==
  IF stage[d] = "handling" THEN batch[d] \ (todo[d] \union failures[d]) ELSE {}

Held(m) == \E d \in Deliveries : m \in batch[d]

Place ==
  [m \in Messages |-> IF Held(m) THEN "held"
                      ELSE IF queue[m] \in {"visible", "inflight"} THEN "waiting" ELSE queue[m]]

EmailedNow == {m \in Messages : \E d \in Deliveries : m \in Handled(d)}

Promise ==
  INSTANCE WelcomeDelivery WITH place <- Place, tries <- receives,
                                emailed <- EmailedNow, copies <- sent

(* Batches, timers and partial batch responses together do what            *)
(* WelcomeDelivery says of each message: whatever neighbours it has in its *)
(* batch, it is forgotten if and only if its own email was sent in the try *)
(* that ends, and parked only after its last try.                          *)
ImplementsDelivery == Promise!Spec

(* Every message is consumed or parked in the DLQ in the end, even if the  *)
(* worker always fails: nothing circulates for ever.                       *)
EveryMessageSettles ==
  \A m \in Messages : queue[m] = "visible" ~> queue[m] \in {"deleted", "dlq"}

-----------------------------------------------------------------------------
(* The inductive invariant behind the safety properties.                   *)

(* What a delivery knows at each stage. *)
StageMemory ==
  \A d \in Deliveries :
    /\ stage[d] = "idle" => batch[d] = {}
    /\ stage[d] = "collecting" => budget[d] <= BatchWindow
    /\ stage[d] # "handling" => todo[d] = {} /\ failures[d] = {}
    /\ todo[d] \subseteq batch[d] /\ failures[d] \subseteq batch[d] \ todo[d]

(* The longest that a delivery may still hold its messages. *)
Remaining(d) ==
  IF stage[d] = "collecting" THEN budget[d] + LambdaTimeout ELSE budget[d]

(* Every message in flight has time to go, and more of it than the worker  *)
(* that holds it.                                                          *)
HiddenOutlastsBudget ==
  /\ \A m \in Messages : queue[m] = "inflight" => hidden[m] > 0
  /\ \A d \in Deliveries : \A m \in batch[d] : hidden[m] > Remaining(d)

(* The email is sent for what was handled; there is one copy more than     *)
(* kills exactly while that delivery, or the deletion, can account for it. *)
CopiesAccountedFor ==
  \A m \in Messages :
    /\ \A d \in Deliveries : m \in Handled(d) => sent[m] > 0
    /\ sent[m] <= 1 + killed[m]
    /\ \/ queue[m] = "deleted"
       \/ \E d \in Deliveries : m \in Handled(d)
       \/ sent[m] <= killed[m]

(* Every delivery of a message has failed or was killed, but the one that  *)
(* is under way or that deleted it.                                        *)
DeliveriesAccountedFor ==
  \A m \in Messages :
    /\ Held(m) => failed[m] + killed[m] = receives[m] - 1
    /\ ~Held(m) /\ queue[m] # "deleted" => failed[m] + killed[m] = receives[m]
    /\ queue[m] = "dlq" => receives[m] = MaxReceiveCount

IInv ==
  /\ TypeOK
  /\ StageMemory
  /\ NoOverlap
  /\ HiddenOutlastsBudget
  /\ CopiesAccountedFor
  /\ DeliveriesAccountedFor
=============================================================================
