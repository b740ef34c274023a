-------------------------- MODULE EmailQueueProofs --------------------------
(***************************************************************************)
(* Proofs about EmailQueue, for any messages and batches, any limits, and  *)
(* any timeouts of which the visibility timeout is the longest.  One lemma *)
(* per action, one step per conjunct of the invariant.                     *)
(***************************************************************************)
EXTENDS EmailQueue, TLAPS

USE MessagesAssumption, LimitAssumption, TimeAssumption DEF sqs, delivery, history

LEMMA InitIInv == Init => IInv
  BY DEF Init, IInv, TypeOK, StageMemory, NoOverlap, HiddenOutlastsBudget, Remaining,
         CopiesAccountedFor, Handled, DeliveriesAccountedFor, Held

(* A batch that is over gives up its messages, and no other batch does. *)
LEMMA FinishHeld ==
  ASSUME IInv, NEW d \in Deliveries, Finish(d), NEW m \in Messages
  PROVE  IF m \in batch[d] THEN ~Held(m)' ELSE Held(m)' = Held(m)
<1> USE DEF IInv, TypeOK, NoOverlap, Held, Finish
<1>1. CASE m \in batch[d]
  BY <1>1
<1>2. CASE m \notin batch[d]
  <2>1. Held(m) => Held(m)'
    BY <1>2
  <2>2. Held(m)' => Held(m)
    BY <1>2
  <2> QED
    BY <1>2, <2>1, <2>2
<1> QED
  BY <1>1, <1>2

LEMMA SendMessageStep ==
  ASSUME IInv, NEW m \in Messages, SendMessage(m)
  PROVE  IInv'
<1> USE DEF IInv, SendMessage
<1>1. TypeOK'
  BY DEF TypeOK
<1>2. StageMemory'
  BY DEF TypeOK, StageMemory
<1>3. NoOverlap'
  BY DEF TypeOK, NoOverlap, StageMemory
<1>4. HiddenOutlastsBudget'
  BY DEF TypeOK, HiddenOutlastsBudget, Remaining, StageMemory, NoOverlap
<1>5. CopiesAccountedFor'
  BY DEF TypeOK, CopiesAccountedFor, Handled, StageMemory, NoOverlap
<1>6. DeliveriesAccountedFor'
  BY DEF TypeOK, DeliveriesAccountedFor, Held, StageMemory, NoOverlap
<1> QED
  BY <1>1, <1>2, <1>3, <1>4, <1>5, <1>6

LEMMA RedriveStep ==
  ASSUME IInv, NEW m \in Messages, Redrive(m)
  PROVE  IInv'
<1> USE DEF IInv, Redrive
<1>1. TypeOK'
  BY DEF TypeOK
<1>2. StageMemory'
  BY DEF TypeOK, StageMemory
<1>3. NoOverlap'
  BY DEF TypeOK, NoOverlap, StageMemory
<1>4. HiddenOutlastsBudget'
  BY DEF TypeOK, HiddenOutlastsBudget, Remaining, StageMemory, NoOverlap
<1>5. CopiesAccountedFor'
  BY DEF TypeOK, CopiesAccountedFor, Handled, StageMemory, NoOverlap
<1>6. DeliveriesAccountedFor'
  BY DEF TypeOK, DeliveriesAccountedFor, Held, StageMemory, NoOverlap
<1> QED
  BY <1>1, <1>2, <1>3, <1>4, <1>5, <1>6

LEMMA ReceiveStep ==
  ASSUME IInv, NEW d \in Deliveries, NEW m \in Messages, Receive(d, m)
  PROVE  IInv'
<1> USE DEF IInv, Receive
<1>1. TypeOK'
  BY DEF TypeOK
<1>2. StageMemory'
  BY DEF TypeOK, StageMemory
<1>3. NoOverlap'
  BY DEF TypeOK, NoOverlap, StageMemory
<1>4. HiddenOutlastsBudget'
  BY DEF TypeOK, HiddenOutlastsBudget, Remaining, StageMemory, NoOverlap
<1>5. CopiesAccountedFor'
  BY DEF TypeOK, CopiesAccountedFor, Handled, StageMemory, NoOverlap
<1>6. DeliveriesAccountedFor'
  BY DEF TypeOK, DeliveriesAccountedFor, Held, StageMemory, NoOverlap
<1> QED
  BY <1>1, <1>2, <1>3, <1>4, <1>5, <1>6

LEMMA InvokeStep ==
  ASSUME IInv, NEW d \in Deliveries, Invoke(d)
  PROVE  IInv'
<1> USE DEF IInv, Invoke
<1>1. TypeOK'
  BY DEF TypeOK
<1>2. StageMemory'
  BY DEF TypeOK, StageMemory
<1>3. NoOverlap'
  BY DEF TypeOK, NoOverlap, StageMemory
<1>4. HiddenOutlastsBudget'
  BY DEF TypeOK, HiddenOutlastsBudget, Remaining, StageMemory, NoOverlap
<1>5. CopiesAccountedFor'
  BY DEF TypeOK, CopiesAccountedFor, Handled, StageMemory, NoOverlap
<1>6. DeliveriesAccountedFor'
  BY DEF TypeOK, DeliveriesAccountedFor, Held, StageMemory, NoOverlap
<1> QED
  BY <1>1, <1>2, <1>3, <1>4, <1>5, <1>6

LEMMA ProcessedStep ==
  ASSUME IInv, NEW d \in Deliveries, NEW m \in Messages, Processed(d, m)
  PROVE  IInv'
<1> USE DEF IInv, Processed
<1>1. TypeOK'
  BY DEF TypeOK
<1>2. StageMemory'
  BY DEF TypeOK, StageMemory
<1>3. NoOverlap'
  BY DEF TypeOK, NoOverlap, StageMemory
<1>4. HiddenOutlastsBudget'
  BY DEF TypeOK, HiddenOutlastsBudget, Remaining, StageMemory, NoOverlap
<1>5. CopiesAccountedFor'
  BY DEF TypeOK, CopiesAccountedFor, Handled, StageMemory, NoOverlap
<1>6. DeliveriesAccountedFor'
  BY DEF TypeOK, DeliveriesAccountedFor, Held, StageMemory, NoOverlap
<1> QED
  BY <1>1, <1>2, <1>3, <1>4, <1>5, <1>6

LEMMA FailedStep ==
  ASSUME IInv, NEW d \in Deliveries, NEW m \in Messages, Failed(d, m)
  PROVE  IInv'
<1> USE DEF IInv, Failed
<1>1. TypeOK'
  BY DEF TypeOK
<1>2. StageMemory'
  BY DEF TypeOK, StageMemory
<1>3. NoOverlap'
  BY DEF TypeOK, NoOverlap, StageMemory
<1>4. HiddenOutlastsBudget'
  BY DEF TypeOK, HiddenOutlastsBudget, Remaining, StageMemory, NoOverlap
<1>5. CopiesAccountedFor'
  BY DEF TypeOK, CopiesAccountedFor, Handled, StageMemory, NoOverlap
<1>6. DeliveriesAccountedFor'
  BY DEF TypeOK, DeliveriesAccountedFor, Held, StageMemory, NoOverlap
<1> QED
  BY <1>1, <1>2, <1>3, <1>4, <1>5, <1>6

LEMMA ReturnStep ==
  ASSUME IInv, NEW d \in Deliveries, Return(d)
  PROVE  IInv'
<1> USE DEF IInv, Return, Finish, Consumed
<1>1. TypeOK'
  BY DEF TypeOK
<1>2. StageMemory'
  BY DEF TypeOK, StageMemory
<1>3. NoOverlap'
  BY DEF TypeOK, NoOverlap, StageMemory
<1>4. HiddenOutlastsBudget'
  BY DEF TypeOK, HiddenOutlastsBudget, Remaining, StageMemory, NoOverlap
<1>5. CopiesAccountedFor'
  BY DEF TypeOK, CopiesAccountedFor, Handled, StageMemory, NoOverlap
<1>6. DeliveriesAccountedFor'
  <2> SUFFICES ASSUME NEW m \in Messages
               PROVE  /\ Held(m)' => failed'[m] + killed'[m] = receives'[m] - 1
                      /\ ~Held(m)' /\ queue'[m] # "deleted" =>
                            failed'[m] + killed'[m] = receives'[m]
                      /\ queue'[m] = "dlq" => receives'[m] = MaxReceiveCount
    BY DEF DeliveriesAccountedFor
  <2>1. IF m \in batch[d] THEN ~Held(m)' ELSE Held(m)' = Held(m)
    BY FinishHeld
  <2>2. CASE m \in batch[d]
    <3>1. Held(m)
      BY <2>2 DEF Held
    <3>2. queue'[m] = "deleted" \/ (failed'[m] = failed[m] + 1 /\ queue'[m] = queue[m])
      BY <2>2 DEF TypeOK
    <3>3. ~Held(m)' /\ queue[m] = "inflight"
      BY <2>1, <2>2 DEF NoOverlap
    <3>4. failed[m] + killed[m] = receives[m] - 1
      BY <3>1 DEF DeliveriesAccountedFor
    <3>5. /\ failed[m] \in Nat /\ killed[m] \in Nat /\ receives[m] \in Nat
          /\ killed' = killed /\ receives' = receives
      BY DEF TypeOK
    <3> HIDE DEF IInv, Return, TypeOK
    <3> QED
      BY <3>2, <3>3, <3>4, <3>5
  <2>3. CASE m \notin batch[d]
    <3>1. failed'[m] = failed[m] /\ queue'[m] = queue[m]
      BY <2>3 DEF TypeOK, StageMemory
    <3> QED
      BY <2>1, <2>3, <3>1 DEF DeliveriesAccountedFor
  <2> QED
    BY <2>2, <2>3
<1> QED
  BY <1>1, <1>2, <1>3, <1>4, <1>5, <1>6

LEMMA KillStep ==
  ASSUME IInv, NEW d \in Deliveries, Kill(d)
  PROVE  IInv'
<1> USE DEF IInv, Kill, Finish
<1>1. TypeOK'
  BY DEF TypeOK
<1>2. StageMemory'
  BY DEF TypeOK, StageMemory
<1>3. NoOverlap'
  BY DEF TypeOK, NoOverlap, StageMemory
<1>4. HiddenOutlastsBudget'
  BY DEF TypeOK, HiddenOutlastsBudget, Remaining, StageMemory, NoOverlap
<1>5. CopiesAccountedFor'
  BY DEF TypeOK, CopiesAccountedFor, Handled, StageMemory, NoOverlap
<1>6. DeliveriesAccountedFor'
  <2> SUFFICES ASSUME NEW m \in Messages
               PROVE  /\ Held(m)' => failed'[m] + killed'[m] = receives'[m] - 1
                      /\ ~Held(m)' /\ queue'[m] # "deleted" =>
                            failed'[m] + killed'[m] = receives'[m]
                      /\ queue'[m] = "dlq" => receives'[m] = MaxReceiveCount
    BY DEF DeliveriesAccountedFor
  <2>1. IF m \in batch[d] THEN ~Held(m)' ELSE Held(m)' = Held(m)
    BY FinishHeld
  <2>2. CASE m \in batch[d]
    <3>1. Held(m)
      BY <2>2 DEF Held
    <3>2. killed'[m] = killed[m] + 1
      BY <2>2 DEF TypeOK
    <3> QED
      BY <2>1, <2>2, <3>1, <3>2 DEF TypeOK, DeliveriesAccountedFor
  <2>3. CASE m \notin batch[d]
    <3>1. killed'[m] = killed[m]
      BY <2>3 DEF TypeOK
    <3> QED
      BY <2>1, <2>3, <3>1 DEF DeliveriesAccountedFor
  <2> QED
    BY <2>2, <2>3
<1> QED
  BY <1>1, <1>2, <1>3, <1>4, <1>5, <1>6

LEMMA TickStep ==
  ASSUME IInv, Tick
  PROVE  IInv'
<1> USE DEF IInv, Tick
<1>1. TypeOK'
  BY DEF TypeOK, StageMemory, HiddenOutlastsBudget
<1>2. StageMemory'
  BY DEF TypeOK, StageMemory
<1>3. NoOverlap'
  BY DEF TypeOK, NoOverlap, HiddenOutlastsBudget, Remaining, StageMemory
<1>4. HiddenOutlastsBudget'
  BY DEF TypeOK, HiddenOutlastsBudget, Remaining, StageMemory, NoOverlap
<1>5. CopiesAccountedFor'
  BY DEF TypeOK, CopiesAccountedFor, Handled, StageMemory, NoOverlap
<1>6. DeliveriesAccountedFor'
  BY DEF TypeOK, DeliveriesAccountedFor, Held, StageMemory, NoOverlap
<1> QED
  BY <1>1, <1>2, <1>3, <1>4, <1>5, <1>6

(* The inductive invariant: what each timer, batch and copy accounts for. *)
THEOREM Invariance == Spec => []IInv
<1>1. IInv /\ [Next]_vars => IInv'
  <2> SUFFICES ASSUME IInv, [Next]_vars PROVE IInv'
    OBVIOUS
  <2>1. CASE \E m \in Messages : SendMessage(m)
    BY <2>1, SendMessageStep
  <2>2. CASE Poll
    BY <2>2, RedriveStep, ReceiveStep DEF Poll
  <2>3. CASE \E d \in Deliveries : Invoke(d) \/ Handle(d) \/ Kill(d)
    BY <2>3, InvokeStep, ProcessedStep, FailedStep, ReturnStep, KillStep DEF Handle
  <2>4. CASE Tick
    BY <2>4, TickStep
  <2>5. CASE UNCHANGED vars
    BY <2>5 DEF vars, IInv, TypeOK, StageMemory, NoOverlap, HiddenOutlastsBudget,
                Remaining, CopiesAccountedFor, Handled, DeliveriesAccountedFor, Held
  <2> QED
    BY <2>1, <2>2, <2>3, <2>4, <2>5 DEF Next
<1> QED
  BY InitIInv, <1>1, PTL DEF Spec

(* No two workers ever have one message: VisibilityTimeout is longer than  *)
(* the batching window and the worker's timeout together.                  *)
THEOREM Exclusive == Spec => []NoOverlap
<1>1. IInv => NoOverlap
  BY DEF IInv
<1> QED
  BY Invariance, <1>1, PTL

(* With partial batch responses, SQS forgets no message before its email   *)
(* was sent.  The hypothesis is the flag that the deployment leaves out.   *)
THEOREM Delivery ==
  "ReportBatchItemFailures" \in FunctionResponseTypes => (Spec => []NoLoss)
<1> SUFFICES ASSUME "ReportBatchItemFailures" \in FunctionResponseTypes
             PROVE  Spec => []NoLoss
  OBVIOUS
<1>1. Init => NoLoss
  BY DEF Init, NoLoss
<1>2. IInv /\ NoLoss /\ [Next]_vars => NoLoss'
  <2> SUFFICES ASSUME IInv, NoLoss, [Next]_vars PROVE NoLoss'
    OBVIOUS
  <2> USE DEF IInv, TypeOK, NoLoss
  <2>1. ASSUME NEW d \in Deliveries, Return(d) PROVE NoLoss'
    <3> SUFFICES ASSUME NEW m \in Messages, queue'[m] = "deleted" PROVE sent'[m] > 0
      OBVIOUS
    <3>1. CASE queue[m] = "deleted"
      BY <2>1, <3>1 DEF Return
    <3>2. CASE m \in Consumed(d)
      <4>1. m \in Handled(d)
        BY <2>1, <3>2 DEF Return, Consumed, Handled
      <4> QED
        BY <2>1, <4>1 DEF Return, CopiesAccountedFor
    <3> QED
      BY <2>1, <3>1, <3>2 DEF Return
  <2>2. ASSUME NEW d \in Deliveries, NEW m \in Messages, Processed(d, m) PROVE NoLoss'
    BY <2>2 DEF Processed
  <2>3. CASE Tick
    BY <2>3 DEF Tick
  <2>4. CASE Poll
    BY <2>4 DEF Poll, Receive, Redrive
  <2>5. CASE \E m \in Messages : SendMessage(m)
    BY <2>5 DEF SendMessage
  <2>6. ASSUME NEW d \in Deliveries,
               Invoke(d) \/ Kill(d) \/ \E m \in Messages : Failed(d, m)
        PROVE  NoLoss'
    BY <2>6 DEF Invoke, Kill, Failed
  <2>7. CASE UNCHANGED vars
    BY <2>7 DEF vars
  <2> QED
    BY <2>1, <2>2, <2>3, <2>4, <2>5, <2>6, <2>7 DEF Next, Handle
<1> QED
  BY Invariance, <1>1, <1>2, PTL DEF Spec

(* There are at most as many extra copies of an email as invocations that  *)
(* died with it: a failing neighbour in the batch costs no duplicate.      *)
THEOREM Duplicates == Spec => []DuplicateOnlyAfterKill
<1>1. IInv => DuplicateOnlyAfterKill
  BY DEF IInv, CopiesAccountedFor, DuplicateOnlyAfterKill
<1> QED
  BY Invariance, <1>1, PTL

(* A message is parked after exactly the allowed number of failures. *)
THEOREM DeadLetters == Spec => []DlqAfterFailures
<1>1. IInv => DlqAfterFailures
  <2> SUFFICES ASSUME IInv, NEW m \in Messages, queue[m] = "dlq"
               PROVE  failed[m] + killed[m] = MaxReceiveCount
    BY DEF DlqAfterFailures
  <2>1. ~Held(m)
    BY DEF IInv, NoOverlap, Held
  <2> QED
    BY <2>1 DEF IInv, DeliveriesAccountedFor
<1> QED
  BY Invariance, <1>1, PTL

-----------------------------------------------------------------------------
(* The refinement of WelcomeDelivery. *)

LEMMA PromiseInit == Init => Promise!Init
  BY DEF Init, Promise!Init, Place, EmailedNow, Held, Handled

(* What is held is in flight, and in one batch only. *)
LEMMA HeldOnce ==
  ASSUME IInv, NEW d \in Deliveries, NEW m \in batch[d]
  PROVE  /\ m \in Messages /\ Held(m) /\ queue[m] = "inflight" /\ Place[m] = "held"
         /\ m \in EmailedNow <=> m \in Handled(d)
<1>1. m \in Messages /\ Held(m) /\ queue[m] = "inflight"
  BY DEF IInv, TypeOK, NoOverlap, Held
<1>2. ASSUME NEW e \in Deliveries, m \in Handled(e) PROVE e = d
  BY <1>2 DEF IInv, NoOverlap, Handled
<1> QED
  BY <1>1, <1>2 DEF Place, EmailedNow

(* Where a message is that the queue moves while nobody holds it. *)
LEMMA PlaceOf ==
  ASSUME IInv, NEW m \in Messages, queue[m] # "inflight"
  PROVE  ~Held(m) /\ Place[m] = IF queue[m] = "visible" THEN "waiting" ELSE queue[m]
<1>1. ~Held(m)
  BY DEF IInv, NoOverlap, Held
<1> QED
  BY <1>1 DEF IInv, TypeOK, Place

LEMMA SameBatches ==
  ASSUME UNCHANGED delivery
  PROVE  /\ \A m \in Messages : Held(m)' = Held(m)
         /\ EmailedNow' = EmailedNow
  BY DEF Held, EmailedNow, Handled

LEMMA QueueRefines ==
  ASSUME IInv, NEW m \in Messages, SendMessage(m) \/ Redrive(m)
  PROVE  Promise!Next
<1>1. /\ UNCHANGED delivery /\ queue[m] # "inflight"
      /\ \A n \in Messages \ {m} : queue'[n] = queue[n]
  BY DEF SendMessage, Redrive, IInv, TypeOK
<1>2. ~Held(m) /\ Place[m] = IF queue[m] = "visible" THEN "waiting" ELSE queue[m]
  BY <1>1, PlaceOf
<1>3. EmailedNow' = EmailedNow /\ \A n \in Messages : Held(n)' = Held(n)
  BY <1>1, SameBatches
<1>4. \A n \in Messages \ {m} : Place'[n] = Place[n]
  BY <1>1, <1>3 DEF Place
<1>5. CASE SendMessage(m)
  <2>1. Place'[m] = "waiting"
    BY <1>2, <1>3, <1>5 DEF SendMessage, Place, IInv, TypeOK
  <2>2. Place' = [Place EXCEPT ![m] = "waiting"]
    BY <1>4, <2>1 DEF Place
  <2>3. Promise!Submit(m)
    BY <1>2, <1>3, <1>5, <2>2 DEF SendMessage, Promise!Submit
  <2> QED
    BY <2>3 DEF Promise!Next
<1>6. CASE Redrive(m)
  <2>1. Place'[m] = "dlq"
    BY <1>2, <1>3, <1>6 DEF Redrive, Place, IInv, TypeOK
  <2>2. Place' = [Place EXCEPT ![m] = "dlq"]
    BY <1>4, <2>1 DEF Place
  <2>3. Promise!Park(m)
    BY <1>2, <1>3, <1>6, <2>2 DEF Redrive, Promise!Park
  <2> QED
    BY <2>3 DEF Promise!Next
<1> QED
  BY <1>5, <1>6

LEMMA ReceiveRefines ==
  ASSUME IInv, NEW d \in Deliveries, NEW m \in Messages, Receive(d, m)
  PROVE  Promise!Next
<1>1. ~Held(m) /\ Place[m] = "waiting"
  BY PlaceOf DEF Receive
<1>2. /\ batch' = [batch EXCEPT ![d] = @ \union {m}]
      /\ queue' = [queue EXCEPT ![m] = "inflight"]
      /\ stage[d] # "handling" /\ stage'[d] # "handling"
      /\ \A e \in Deliveries \ {d} : stage'[e] = stage[e]
      /\ UNCHANGED <<todo, failures>>
  BY DEF Receive, IInv, TypeOK
<1>3. /\ Held(m)'
      /\ \A n \in Messages \ {m} : Held(n)' = Held(n) /\ queue'[n] = queue[n]
  BY <1>2 DEF Held, IInv, TypeOK
<1>4. \A e \in Deliveries : Handled(e)' = Handled(e)
  BY <1>2 DEF Handled, IInv, TypeOK
<1>5. EmailedNow' = EmailedNow
  BY <1>4 DEF EmailedNow
<1>6. Place' = [Place EXCEPT ![m] = "held"]
  BY <1>3 DEF Place
<1>7. Promise!Take(m)
  BY <1>1, <1>5, <1>6 DEF Receive, Promise!Take
<1> QED
  BY <1>7 DEF Promise!Next

LEMMA ProcessedRefines ==
  ASSUME IInv, NEW d \in Deliveries, NEW m \in Messages, Processed(d, m)
  PROVE  Promise!Next
<1>1. m \in batch[d] /\ m \notin Handled(d) /\ stage[d] = "handling"
  BY DEF Processed, Handled, IInv, StageMemory
<1>2. Place[m] = "held" /\ m \notin EmailedNow
  BY <1>1, HeldOnce
<1>3. UNCHANGED <<queue, stage, batch, failures>> /\ todo' = [todo EXCEPT ![d] = @ \ {m}]
  BY DEF Processed
<1>4. Place' = Place
  BY <1>3 DEF Place, Held
<1>5. /\ Handled(d)' = Handled(d) \union {m}
      /\ \A e \in Deliveries \ {d} : Handled(e)' = Handled(e)
  <2>1. todo'[d] = todo[d] \ {m} /\ m \notin failures[d] /\ m \in todo[d]
    BY <1>3 DEF Processed, IInv, TypeOK, StageMemory
  <2>2. batch[d] \ (todo'[d] \union failures[d])
          = (batch[d] \ (todo[d] \union failures[d])) \union {m}
    BY <1>1, <2>1
  <2>3. \A e \in Deliveries \ {d} : todo'[e] = todo[e]
    BY <1>3 DEF IInv, TypeOK
  <2> QED
    BY <1>1, <1>3, <2>2, <2>3 DEF Handled
<1>6. EmailedNow' = EmailedNow \union {m}
  BY <1>5 DEF EmailedNow
<1>7. Promise!Email(m)
  BY <1>2, <1>4, <1>6 DEF Processed, Promise!Email
<1> QED
  BY <1>7 DEF Promise!Next

(* A batch that ends: its messages are deleted, or wait for another try.   *)
LEMMA EndRefines ==
  ASSUME IInv, NEW d \in Deliveries, Finish(d), UNCHANGED <<receives, sent>>,
         NEW done \in SUBSET batch[d],
         \A m \in Messages : queue'[m] = IF m \in done THEN "deleted" ELSE queue[m]
  PROVE  batch[d] \in SUBSET Messages /\ Promise!End(batch[d], done)
<1>0. batch[d] \in SUBSET Messages
  BY DEF IInv, TypeOK
<1>1. \A m \in batch[d] : Place[m] = "held" /\ queue[m] = "inflight"
  BY HeldOnce
<1>2. ASSUME NEW m \in Messages
      PROVE  Place'[m] = IF m \in done THEN "deleted"
                         ELSE IF m \in batch[d] THEN "waiting" ELSE Place[m]
  <2>1. IF m \in batch[d] THEN ~Held(m)' ELSE Held(m)' = Held(m)
    BY FinishHeld
  <2>2. Place'[m] = IF Held(m)' THEN "held"
                    ELSE IF queue'[m] \in {"visible", "inflight"} THEN "waiting"
                    ELSE queue'[m]
    BY DEF Place
  <2>3. CASE m \in batch[d]
    BY <1>1, <2>1, <2>2, <2>3
  <2>4. CASE m \notin batch[d]
    BY <2>1, <2>2, <2>4 DEF Place
  <2> QED
    BY <2>3, <2>4
<1>3. EmailedNow' = EmailedNow \ batch[d]
  <2>1. Handled(d)' = {} /\ \A e \in Deliveries \ {d} : Handled(e)' = Handled(e)
    BY DEF Handled, Finish, IInv, TypeOK
  <2>2. \A e \in Deliveries \ {d} : Handled(e) \intersect batch[d] = {}
    BY DEF Handled, IInv, NoOverlap
  <2>3. Handled(d) \subseteq batch[d]
    BY DEF Handled
  <2> QED
    BY <2>1, <2>2, <2>3 DEF EmailedNow
<1>4. Place' = [m \in Messages |-> IF m \in done THEN "deleted"
                                   ELSE IF m \in batch[d] THEN "waiting" ELSE Place[m]]
  BY <1>2 DEF Place
<1> QED
  BY <1>0, <1>1, <1>3, <1>4 DEF Promise!End

LEMMA ReturnRefines ==
  ASSUME IInv, "ReportBatchItemFailures" \in FunctionResponseTypes,
         NEW d \in Deliveries, Return(d)
  PROVE  Promise!Next
<1>1. Consumed(d) = Handled(d) /\ Consumed(d) \in SUBSET batch[d]
  BY DEF Return, Consumed, Handled
<1>2. batch[d] \in SUBSET Messages /\ Promise!End(batch[d], Consumed(d))
  BY <1>1, EndRefines DEF Return
<1>3. Consumed(d) = batch[d] \intersect EmailedNow
  BY <1>1, HeldOnce
<1>4. Promise!Settle(batch[d])
  BY <1>2, <1>3 DEF Promise!Settle
<1> QED
  BY <1>2, <1>4 DEF Promise!Next

LEMMA KillRefines ==
  ASSUME IInv, NEW d \in Deliveries, Kill(d)
  PROVE  Promise!Next
<1>1. batch[d] \in SUBSET Messages /\ Promise!End(batch[d], {})
  BY EndRefines DEF Kill
<1>2. Promise!CutOff(batch[d])
  BY <1>1 DEF Promise!CutOff
<1> QED
  BY <1>1, <1>2 DEF Promise!Next

(* The window closes, a record fails, or time passes: nothing of it shows. *)
LEMMA OthersStutter ==
  ASSUME IInv,
         \/ \E d \in Deliveries : Invoke(d) \/ \E m \in Messages : Failed(d, m)
         \/ Tick
         \/ UNCHANGED vars
  PROVE  UNCHANGED <<Place, receives, EmailedNow, sent>>
<1>1. ASSUME NEW d \in Deliveries, Invoke(d) \/ \E m \in Messages : Failed(d, m)
      PROVE  UNCHANGED <<Place, receives, EmailedNow, sent>>
  <2>1. UNCHANGED <<queue, batch, receives, sent>>
    BY <1>1 DEF Invoke, Failed
  <2>2. \A e \in Deliveries : Handled(e)' = Handled(e)
    <3>1. ASSUME NEW e \in Deliveries \ {d} PROVE Handled(e)' = Handled(e)
      BY <1>1, <3>1 DEF Invoke, Failed, Handled, IInv, TypeOK
    <3>2. CASE Invoke(d)
      <4>1. Handled(d) = {} /\ stage'[d] = "handling" /\ todo'[d] = batch[d]
        BY <3>2 DEF Invoke, Handled, IInv, TypeOK
      <4> QED
        BY <2>1, <3>1, <4>1 DEF Handled
    <3>3. ASSUME NEW m \in Messages, Failed(d, m) PROVE Handled(d)' = Handled(d)
      <4>1. /\ m \in todo[d] /\ UNCHANGED stage
            /\ todo'[d] = todo[d] \ {m} /\ failures'[d] = failures[d] \union {m}
        BY <3>3 DEF Failed, IInv, TypeOK
      <4>2. todo'[d] \union failures'[d] = todo[d] \union failures[d]
        BY <4>1
      <4> QED
        BY <2>1, <4>1, <4>2 DEF Handled
    <3> QED
      BY <1>1, <3>1, <3>2, <3>3
  <2> QED
    BY <2>1, <2>2 DEF Place, Held, EmailedNow
<1>2. CASE Tick
  <2>1. UNCHANGED <<stage, batch, todo, failures, receives, sent>>
    BY <1>2 DEF Tick
  <2>2. \A m \in Messages : queue'[m] \in {"visible", "inflight"}
                              <=> queue[m] \in {"visible", "inflight"}
    BY <1>2 DEF Tick, IInv, TypeOK
  <2>3. \A m \in Messages : queue[m] \notin {"visible", "inflight"} => queue'[m] = queue[m]
    BY <1>2 DEF Tick, IInv, TypeOK
  <2> QED
    BY <2>1, <2>2, <2>3 DEF Place, Held, EmailedNow, Handled
<1>3. CASE UNCHANGED vars
  BY <1>3 DEF vars, Place, Held, EmailedNow, Handled
<1> QED
  BY <1>1, <1>2, <1>3

(* With partial batch responses, the queue and the worker keep the promise *)
(* of WelcomeDelivery: a message is forgotten in exactly the try that sent *)
(* its email, whatever becomes of its neighbours, and parked only after    *)
(* its last try.  The hypothesis is the flag that the deployment leaves    *)
(* out.                                                                    *)
THEOREM Refinement ==
  "ReportBatchItemFailures" \in FunctionResponseTypes => (Spec => ImplementsDelivery)
<1> SUFFICES ASSUME "ReportBatchItemFailures" \in FunctionResponseTypes
             PROVE  Spec => ImplementsDelivery
  OBVIOUS
<1>1. IInv /\ [Next]_vars => [Promise!Next]_(Promise!vars)
  <2> SUFFICES ASSUME IInv, [Next]_vars
               PROVE  Promise!Next \/ UNCHANGED <<Place, receives, EmailedNow, sent>>
    BY DEF Promise!vars
  <2>1. CASE \E m \in Messages : SendMessage(m)
    BY <2>1, QueueRefines
  <2>2. CASE Poll
    BY <2>2, QueueRefines, ReceiveRefines DEF Poll
  <2>3. ASSUME NEW d \in Deliveries, Handle(d) \/ Kill(d)
        PROVE  Promise!Next \/ UNCHANGED <<Place, receives, EmailedNow, sent>>
    BY <2>3, ProcessedRefines, ReturnRefines, KillRefines, OthersStutter DEF Handle
  <2>4. CASE Tick \/ UNCHANGED vars \/ \E d \in Deliveries : Invoke(d)
    BY <2>4, OthersStutter
  <2> QED
    BY <2>1, <2>2, <2>3, <2>4 DEF Next
<1> QED
  BY PromiseInit, <1>1, Invariance, PTL DEF Spec, ImplementsDelivery, Promise!Spec

-----------------------------------------------------------------------------
(* What liveness rests on: a message cannot circulate for ever.            *)

(* How often the queue may still change its mind about a message. *)
Left(m) ==
  CASE queue[m] = "absent" -> 2 * MaxReceiveCount + 4
    [] queue[m] = "inflight" -> 2 * (MaxReceiveCount - receives[m]) + 3
    [] queue[m] = "visible" -> 2 * (MaxReceiveCount - receives[m]) + 2
    [] OTHER -> 0

(* Nearer to the end: fewer changes left, or less time to the next one. *)
Nearer(m) ==
  \/ Left(m)' < Left(m)
  \/ Left(m)' = Left(m) /\ hidden'[m] < hidden[m]

Moved(m) ==
  \/ queue'[m] # queue[m] \/ receives'[m] # receives[m] \/ hidden'[m] # hidden[m]
  \/ Tick /\ queue[m] = "inflight"

(* What the end of a delivery does to a message of its batch. *)
LEMMA ReturnNearer ==
  ASSUME IInv, NEW d \in Deliveries, Return(d), NEW m \in Messages, Moved(m)
  PROVE  Nearer(m)
<1> USE DEF IInv, TypeOK
<1>1. ~Tick
  BY DEF Return, Finish, Tick, StageMemory
<1>2. queue'[m] # queue[m]
  BY <1>1 DEF Return, Moved
<1>3. m \in Consumed(d)
  BY <1>2 DEF Return
<1>4. m \in batch[d] /\ queue'[m] = "deleted"
  BY <1>3 DEF Return, Consumed
<1>5. queue[m] = "inflight"
  BY <1>4 DEF NoOverlap
<1> QED
  BY <1>4, <1>5 DEF Nearer, Left

LEMMA TickNearer ==
  ASSUME IInv, Tick, NEW m \in Messages, Moved(m)
  PROVE  Nearer(m)
<1> USE DEF IInv, TypeOK
<1>1. queue[m] = "inflight"
  BY DEF Tick, Moved
<1>2. hidden'[m] = hidden[m] - 1 /\ receives'[m] = receives[m]
  BY <1>1 DEF Tick
<1>3. queue'[m] = (IF hidden[m] = 1 THEN "visible" ELSE "inflight")
  BY <1>1 DEF Tick
<1> QED
  BY <1>1, <1>2, <1>3 DEF Nearer, Left

(* What EveryMessageSettles rests on, for any number of messages: whatever *)
(* the queue, a batch or the clock does to a message brings it nearer to   *)
(* being deleted or parked.  It is hidden and shown again at most          *)
(* MaxReceiveCount times, and each time for as long as its timeout.        *)
THEOREM NothingCirculates ==
  Spec => [][\A m \in Messages : Moved(m) => Nearer(m)]_vars
<1>1. ASSUME IInv, [Next]_vars
      PROVE  [\A m \in Messages : Moved(m) => Nearer(m)]_vars
  <2>1. SUFFICES ASSUME NEW m \in Messages, Moved(m), ~UNCHANGED vars PROVE Nearer(m)
    BY DEF vars
  <2> USE DEF IInv, TypeOK
  <2>2. CASE Tick
    BY <1>1, <2>1, <2>2, TickNearer
  <2>3. ASSUME NEW d \in Deliveries, Return(d) PROVE Nearer(m)
    BY <1>1, <2>1, <2>3, ReturnNearer
  <2>4. ASSUME NEW x \in Messages, SendMessage(x) \/ Redrive(x), ~Tick PROVE Nearer(m)
    BY <1>1, <2>1, <2>4 DEF SendMessage, Redrive, Moved, Nearer, Left
  <2>5. ASSUME NEW x \in Messages, NEW d \in Deliveries, Receive(d, x), ~Tick PROVE Nearer(m)
    BY <1>1, <2>1, <2>5 DEF Receive, Moved, Nearer, Left
  <2>6. ASSUME NEW d \in Deliveries, Invoke(d) \/ Kill(d), ~Tick PROVE FALSE
    BY <2>1, <2>6 DEF Invoke, Kill, Moved
  <2>7. ASSUME NEW d \in Deliveries, NEW x \in Messages, Processed(d, x) \/ Failed(d, x), ~Tick
        PROVE  FALSE
    BY <2>1, <2>7 DEF Processed, Failed, Moved
  <2> QED
    BY <1>1, <2>1, <2>2, <2>3, <2>4, <2>5, <2>6, <2>7 DEF Next, Poll, Handle
<1> QED
  BY <1>1, Invariance, PTL DEF Spec
=============================================================================
