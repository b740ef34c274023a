---------------------------- MODULE DeployProofs ----------------------------
(***************************************************************************)
(* Proofs about Deploy, for any gateway ids and any number of faults.      *)
(***************************************************************************)
EXTENDS Deploy, FiniteSetTheorems, TLAPS

USE NoneAssumption, DotEnvsAssumption, FaultsAssumption
USE DEF Steps, AfterRole, AfterDlq, AfterQueues, InFunctions, AfterFunctions,
        AfterMapping, AfterApi, Wiring, Closing, Positions

LEMMA Faults ==
  ASSUME TypeOK, Fault \/ Fine
  PROVE  clean' \in BOOLEAN /\ faults' \in 0 .. MaxFaults
<1>1. faults \in 0 .. MaxFaults /\ clean \in BOOLEAN
  BY DEF TypeOK
<1>2. CASE Fault
  <2>1. faults' = faults + 1 /\ faults < MaxFaults /\ clean' = FALSE
    BY <1>2 DEF Fault
  <2>2. faults' \in 0 .. MaxFaults
    BY <1>1, <2>1, FaultsAssumption
  <2> QED
    BY <2>1, <2>2
<1>3. CASE Fine
  BY <1>1, <1>3 DEF Fine
<1> QED
  BY <1>2, <1>3

LEMMA InitIInv == Init => IInv
<1> SUFFICES ASSUME Init PROVE IInv
  OBVIOUS
<1> USE DEF Init
<1>1. Nothing \in Aws
  BY DEF Nothing, Aws, NoFunction, FunctionState
<1>2. 1 \in Positions("idle") /\ 0 \in 0 .. MaxFaults
  OBVIOUS
<1>3. Populated \in DotEnv
  BY DEF Populated, DotEnv
<1>4. TypeOK
  BY <1>1, <1>2, <1>3 DEF TypeOK
<1> QED
  BY <1>4 DEF IInv, OutcomeIsFinal, Configured, Provisioned, FunctionsBuilt, Mapped, NothingInTheWay,
              GatewayIsNew, RoutesWired, CompleteIsDeployed

(* An idle script claims nothing but what a complete run has done. *)
LEMMA Idle ==
  ASSUME TypeOK', Configured', pc' = "idle", CompleteIsDeployed'
  PROVE  IInv'
BY DEF IInv, OutcomeIsFinal, Provisioned, FunctionsBuilt, Mapped, NothingInTheWay,
       GatewayIsNew, RoutesWired

(* A run may stop anywhere. *)
LEMMA Stops ==
  ASSUME IInv, Exit("failed"), Fault \/ Fine, aws' \in Aws, UNCHANGED files
  PROVE  IInv'
<1>1. TypeOK'
  BY Faults DEF IInv, TypeOK, Exit, files
<1>2. CompleteIsDeployed'
  BY DEF CompleteIsDeployed, Exit
<1>3. Configured'
  BY DEF IInv, Configured, Fault, Fine, files
<1> QED
  BY <1>1, <1>2, <1>3, Idle DEF Exit

(* A run that goes on has still to say how it ended. *)
LEMMA GoesOn ==
  ASSUME IInv, NEW op \in Steps \ {"idle"}, NEW k \in Positions(op), pc # "idle",
         Go(op, k), Fault \/ Fine, aws' \in Aws, UNCHANGED dotenv,
         webEnv' \in ApiIds \union {None}, api' \in ApiIds \union {None},
         listed' \in SUBSET ApiIds, workerEnv' \in BOOLEAN
  PROVE  TypeOK' /\ OutcomeIsFinal' /\ Configured' /\ CompleteIsDeployed'
         /\ pc' = op /\ at' = k /\ (clean' => clean /\ Fine)
<1>1. pc' = op /\ at' = k /\ outcome' = "none"
  BY DEF Go, IInv, OutcomeIsFinal
<1>2. clean' \in BOOLEAN /\ faults' \in 0 .. MaxFaults
  BY Faults DEF IInv
<1>3. TypeOK'
  BY <1>1, <1>2 DEF IInv, TypeOK
<1> QED
  BY <1>1, <1>3 DEF IInv, OutcomeIsFinal, Configured, CompleteIsDeployed, Fault, Fine

(* The role and the queues. *)
LEMMA Provisions == ASSUME IInv, Provision PROVE IInv'
<1> USE DEF files, run
<1>0. TypeOK /\ aws \in Aws /\ aws.queues \in SUBSET Queues
  BY DEF IInv, TypeOK, Aws
<1> DEFINE R == [aws EXCEPT !.role = TRUE]
           D(q) == [aws EXCEPT !.queues = @ \union {q}]
<1>1. R \in Aws /\ R.role /\ R.queues = aws.queues
  BY <1>0 DEF Aws
<1>2. \A q \in Queues : D(q) \in Aws /\ D(q).role = aws.role /\ D(q).queues = aws.queues \union {q}
  BY <1>0 DEF Aws, Queues
<1>3. ASSUME Exit("failed"), Fault \/ Fine, aws' \in Aws, UNCHANGED files PROVE IInv'
  BY <1>0, <1>3, Stops
<1>4. ASSUME NEW op \in {"createRole", "createDlq", "getDlq", "createMain", "getMain",
                         "deleteFunction"},
             Go(op, 1), Fault \/ Fine, aws' \in Aws, UNCHANGED <<run, files>>, pc # "idle",
             op \in AfterRole => aws'.role,
             op \in AfterDlq => "dlq" \in aws'.queues,
             op \in AfterQueues => "main" \in aws'.queues,
             clean' => /\ op = "createRole" => ~aws'.role
                       /\ op = "getDlq" => "dlq" \in aws'.queues
                       /\ op = "getMain" => "main" \in aws'.queues
      PROVE  IInv'
  <2>1. TypeOK' /\ OutcomeIsFinal' /\ Configured' /\ CompleteIsDeployed' /\ pc' = op /\ at' = 1
    BY <1>0, <1>4, GoesOn DEF TypeOK
  <2> QED
    BY <1>4, <2>1 DEF IInv, Provisioned, FunctionsBuilt, Mapped, NothingInTheWay,
                      GatewayIsNew, RoutesWired
<1> HIDE DEF R, D
<1>5. CASE GetRole
  <2>1. CASE Go("createDlq", 1) /\ aws.role /\ Fine
    BY <1>0, <1>4, <1>5, <2>1 DEF GetRole
  <2>2. CASE Go("createRole", 1)
    BY <1>0, <1>4, <1>5, <2>2 DEF GetRole, Fault, Fine
  <2> QED
    BY <1>5, <2>1, <2>2 DEF GetRole
<1>6. CASE CreateRole
  BY <1>0, <1>1, <1>3, <1>4, <1>6 DEF CreateRole, Refused, Must, R
<1>7. ASSUME NEW q \in Queues, NEW op, NEW next, CreateQueue(op, q, next) PROVE aws' \in {aws, D(q)}
  BY <1>7 DEF CreateQueue, Try, D
<1>8. CASE CreateDlq
  BY <1>0, <1>2, <1>4, <1>8 DEF CreateDlq, CreateQueue, Try, D, Queues, IInv, Provisioned, Fault
<1>9. CASE CreateMain
  BY <1>0, <1>2, <1>4, <1>9 DEF CreateMain, CreateQueue, Try, D, Queues, IInv, Provisioned, Fault
<1>10. CASE GetDlq
  BY <1>0, <1>3, <1>4, <1>10 DEF GetDlq, GetQueue, Must, Refused, IInv, Provisioned
<1>11. CASE GetMain
  BY <1>0, <1>3, <1>4, <1>11 DEF GetMain, GetQueue, Must, Refused, IInv, Provisioned
<1> QED
  BY <1>5, <1>6, <1>8, <1>9, <1>10, <1>11 DEF Provision

-----------------------------------------------------------------------------
LEMMA AppsAreListed ==
  /\ \A j \in 1 .. 3 : APPS[j] \in Apps /\ \A env : EnvForApp(APPS[j], env) \subseteq Shared \union {"EMAIL_QUEUE_URL"}
  /\ \A i, j \in 1 .. 3 : APPS[i] = APPS[j] => i = j
  /\ \A a \in Apps : \E j \in 1 .. 3 : a = APPS[j]
  /\ Len(APPS) = 3
BY DEF APPS, Apps, EnvForApp

LEMMA Function ==
  ASSUME aws \in Aws, NEW a \in Apps, NEW f \in FunctionState
  PROVE  LET r == [aws EXCEPT !.fn[a] = f]
         IN  /\ r \in Aws /\ r.fn[a] = f
             /\ \A b \in Apps \ {a} : r.fn[b] = aws.fn[b]
             /\ r.role = aws.role /\ r.queues = aws.queues /\ r.allowed = aws.allowed
BY DEF Aws

LEMMA Builds == ASSUME IInv, Functions PROVE IInv'
<1> USE DEF files, run
<1>0. /\ TypeOK /\ aws \in Aws /\ aws.fn \in [Apps -> FunctionState]
      /\ pc \in InFunctions /\ at \in 1 .. 3 /\ aws.role
      /\ "dlq" \in aws.queues /\ "main" \in aws.queues
      /\ \A j \in 1 .. 3 : j < at => IsBuilt(APPS[j])
      /\ webEnv \in ApiIds \union {None} /\ api \in ApiIds \union {None}
      /\ listed \in SUBSET ApiIds /\ workerEnv \in BOOLEAN
  BY DEF IInv, TypeOK, Aws, Provisioned, FunctionsBuilt, Functions, DeleteFunction, Build,
         CreateFunction, GetFunction
<1>1. ASSUME Exit("failed"), Fault \/ Fine, aws' \in Aws, UNCHANGED files PROVE IInv'
  BY <1>0, <1>1, Stops
<1>2. ASSUME NEW op \in InFunctions, NEW k \in 1 .. 3, Go(op, k), Fault \/ Fine, aws' \in Aws,
             UNCHANGED <<run, files>>, aws'.role = aws.role, aws'.queues = aws.queues,
             \A j \in 1 .. 3 : j < k => IsBuilt(APPS[j])',
             op = "getFunction" => IsBuilt(APPS[k])',
             clean' /\ op \in {"build", "createFunction"} => aws'.fn[APPS[k]] = NoFunction
      PROVE  IInv'
  <2>1. TypeOK' /\ OutcomeIsFinal' /\ Configured' /\ CompleteIsDeployed' /\ pc' = op /\ at' = k
    BY <1>0, <1>2, GoesOn
  <2>2. Provisioned' /\ Mapped' /\ GatewayIsNew' /\ RoutesWired'
    BY <1>0, <1>2, <2>1 DEF Provisioned, Mapped, GatewayIsNew, RoutesWired
  <2>3. FunctionsBuilt' /\ NothingInTheWay'
    BY <1>0, <1>2, <2>1 DEF FunctionsBuilt, NothingInTheWay
  <2> QED
    BY <2>1, <2>2, <2>3 DEF IInv
<1>3. APPS[at] \in Apps /\ NoFunction \in FunctionState
      /\ [code |-> "new", env |-> EnvForApp(APPS[at], dotenv)] \in FunctionState
  BY <1>0, AppsAreListed DEF NoFunction, FunctionState
<1>4. CASE DeleteFunction
  <2> DEFINE s == {p \in aws.allowed : p[1][1] # APPS[at]}
             r == [aws EXCEPT !.fn[APPS[at]] = NoFunction, !.allowed = s]
  <2>0. s \in SUBSET aws.allowed
    OBVIOUS
  <2> HIDE DEF s
  <2>1. /\ r \in Aws /\ r.fn[APPS[at]] = NoFunction
        /\ \A b \in Apps \ {APPS[at]} : r.fn[b] = aws.fn[b]
        /\ r.role = aws.role /\ r.queues = aws.queues
    <3> DEFINE t == [aws EXCEPT !.fn[APPS[at]] = NoFunction]
    <3>1. /\ t \in Aws /\ t.fn[APPS[at]] = NoFunction
          /\ \A b \in Apps \ {APPS[at]} : t.fn[b] = aws.fn[b]
          /\ t.role = aws.role /\ t.queues = aws.queues /\ t.allowed = aws.allowed
      BY <1>0, <1>3, Function
    <3>2. r = [t EXCEPT !.allowed = s]
      BY <1>0 DEF Aws
    <3> HIDE DEF t, r
    <3> QED
      BY <2>0, <3>1, <3>2 DEF Aws
  <2>2. \/ aws' = r /\ (Fine \/ Fault) /\ Go("build", at) /\ UNCHANGED run
        \/ UNCHANGED aws /\ Fault /\ Go("build", at) /\ UNCHANGED run
        \/ Exit("failed") /\ Fine /\ UNCHANGED aws
    BY <1>4 DEF DeleteFunction, Try, Refused, s
  <2>3. UNCHANGED files
    BY <1>4 DEF DeleteFunction
  <2> HIDE DEF r
  <2>4. CASE aws' = r /\ (Fine \/ Fault) /\ Go("build", at) /\ UNCHANGED run
    <3>1. \A j \in 1 .. 3 : j < at => IsBuilt(APPS[j])'
      BY <1>0, <2>1, <2>3, <2>4, AppsAreListed DEF IsBuilt
    <3> QED
      BY <1>0, <1>2, <2>1, <2>3, <2>4, <3>1
  <2>5. CASE UNCHANGED aws /\ Fault /\ Go("build", at) /\ UNCHANGED run
    BY <1>0, <1>2, <2>3, <2>5 DEF IsBuilt, Fault
  <2> QED
    BY <1>0, <1>1, <2>2, <2>3, <2>4, <2>5
<1>5. CASE Build
  <2>1. clean => aws.fn[APPS[at]] = NoFunction
    BY <1>5 DEF IInv, NothingInTheWay, Build
  <2>2. CASE Go("createFunction", at) /\ Fine /\ UNCHANGED run /\ UNCHANGED aws /\ UNCHANGED files
    <3>1. \A j \in 1 .. 3 : j < at => IsBuilt(APPS[j])'
      BY <1>0, <2>2 DEF IsBuilt
    <3>2. clean' => aws'.fn[APPS[at]] = NoFunction
      BY <2>1, <2>2 DEF Fine
    <3> QED
      BY <1>0, <1>2, <2>2, <3>1, <3>2
  <2> QED
    BY <1>0, <1>1, <1>5, <2>2 DEF Build, Must
<1>6. CASE CreateFunction
  <2> DEFINE f == [code |-> "new", env |-> EnvForApp(APPS[at], dotenv)]
             r == [aws EXCEPT !.fn[APPS[at]] = f]
  <2>1. /\ r \in Aws /\ r.fn[APPS[at]] = f
        /\ \A b \in Apps \ {APPS[at]} : r.fn[b] = aws.fn[b]
        /\ r.role = aws.role /\ r.queues = aws.queues
    <3>1. f \in FunctionState /\ APPS[at] \in Apps
      BY <1>3
    <3> HIDE DEF f
    <3> QED
      BY <1>0, <3>1, Function
  <2>2. \/ aws' = r /\ Fine /\ Go("getFunction", at) /\ UNCHANGED run
        \/ aws' \in {aws, r} /\ Exit("failed") /\ (Fault \/ Fine)
    BY <1>6 DEF CreateFunction, Must, Refused
  <2>3. UNCHANGED files
    BY <1>6 DEF CreateFunction
  <2> HIDE DEF r
  <2>4. CASE aws' = r /\ Fine /\ Go("getFunction", at) /\ UNCHANGED run
    <3>1. \A j \in 1 .. 3 : j < at => IsBuilt(APPS[j])'
      BY <1>0, <2>1, <2>3, <2>4, AppsAreListed DEF IsBuilt
    <3>2. ASSUME NEW j, j = at PROVE IsBuilt(APPS[j])'
      BY <2>1, <2>3, <2>4, <3>2 DEF IsBuilt
    <3> QED
      BY <1>0, <1>2, <2>1, <2>3, <2>4, <3>1, <3>2
  <2> QED
    BY <1>0, <1>1, <2>1, <2>2, <2>3, <2>4
<1>7. CASE GetFunction
  <2>1. IsBuilt(APPS[at])
    BY <1>7 DEF IInv, FunctionsBuilt, GetFunction
  <2>2. CASE at < 3 /\ Go("deleteFunction", at + 1) /\ Fine /\ UNCHANGED run /\ UNCHANGED aws
    <3>1. \A j \in 1 .. 3 : j < at + 1 => IsBuilt(APPS[j])
      BY <1>0, <2>1
    <3>2. \A j \in 1 .. 3 : j < at + 1 => IsBuilt(APPS[j])'
      BY <1>7, <3>1, <2>2 DEF IsBuilt, GetFunction
    <3>3. at + 1 \in 1 .. 3
      BY <1>0, <2>2
    <3>4. "deleteFunction" \in InFunctions /\ aws' \in Aws /\ UNCHANGED files
      BY <1>0, <1>7, <2>2 DEF GetFunction
    <3> QED
      BY <1>2, <2>2, <3>2, <3>3, <3>4
  <2>3. CASE at = 3 /\ Go("deleteMapping", 1) /\ Fine /\ UNCHANGED run /\ UNCHANGED aws
    <3>1. AppsDone
      BY <1>0, <2>1, <2>3, AppsAreListed DEF AppsDone
    <3>2. TypeOK' /\ OutcomeIsFinal' /\ Configured' /\ CompleteIsDeployed' /\ pc' = "deleteMapping" /\ at' = 1
      BY <1>0, <1>7, <2>3, GoesOn DEF GetFunction
    <3> QED
      BY <1>0, <1>7, <2>3, <3>1, <3>2
         DEF GetFunction, IInv, Provisioned, FunctionsBuilt, Mapped, NothingInTheWay, GatewayIsNew,
             RoutesWired, AppsDone, IsBuilt
  <2> QED
    BY <1>0, <1>1, <1>7, <2>2, <2>3, AppsAreListed DEF GetFunction, Must
<1> QED
  BY <1>4, <1>5, <1>6, <1>7 DEF Functions

-----------------------------------------------------------------------------
(* Past the functions: what a step has to show, the functions, the role    *)
(* and the queues being left alone.                                        *)
LEMMA Onward ==
  ASSUME IInv, pc \in AfterFunctions,
         NEW op \in AfterFunctions, NEW k \in Positions(op),
         Go(op, k), Fault \/ Fine, aws' \in Aws, UNCHANGED dotenv,
         webEnv' \in ApiIds \union {None}, api' \in ApiIds \union {None},
         listed' \in SUBSET ApiIds, workerEnv' \in BOOLEAN,
         aws'.role = aws.role, aws'.queues = aws.queues, aws'.fn = aws.fn,
         op \in AfterMapping => aws'.mapping = "main",
         clean' /\ op = "createMapping" => aws'.mapping = "none",
         GatewayIsNew', RoutesWired'
  PROVE  IInv'
<1>1. TypeOK' /\ OutcomeIsFinal' /\ Configured' /\ CompleteIsDeployed' /\ pc' = op /\ at' = k
  BY GoesOn
<1>2. Provisioned' /\ Mapped'
  BY <1>1 DEF IInv, Provisioned, Mapped
<1>3. FunctionsBuilt'
  BY <1>1 DEF IInv, FunctionsBuilt, AppsDone, IsBuilt
<1>4. NothingInTheWay'
  BY <1>1 DEF NothingInTheWay
<1> QED
  BY <1>1, <1>2, <1>3, <1>4 DEF IInv

LEMMA Maps == ASSUME IInv, Mapping PROVE IInv'
<1> USE DEF files, run
<1>0. /\ TypeOK /\ aws \in Aws /\ pc \in AfterFunctions
      /\ webEnv \in ApiIds \union {None} /\ api \in ApiIds \union {None}
      /\ listed \in SUBSET ApiIds /\ workerEnv \in BOOLEAN
  BY DEF IInv, TypeOK, Mapping, DeleteMapping, CreateMapping
<1>1. ASSUME Exit("failed"), Fault \/ Fine, aws' \in Aws, UNCHANGED files PROVE IInv'
  BY <1>0, <1>1, Stops
<1>2. ASSUME NEW m \in {"none", "main"}
      PROVE  LET r == [aws EXCEPT !.mapping = m]
             IN  /\ r \in Aws /\ r.mapping = m
                 /\ r.role = aws.role /\ r.queues = aws.queues /\ r.fn = aws.fn
  BY <1>0 DEF Aws
<1>3. ASSUME pc' \in {"createMapping", "listApis"} PROVE GatewayIsNew' /\ RoutesWired'
  BY <1>3 DEF GatewayIsNew, RoutesWired
<1>4. CASE DeleteMapping
  <2> DEFINE r == [aws EXCEPT !.mapping = "none"]
  <2>1. /\ r \in Aws /\ r.mapping = "none"
        /\ r.role = aws.role /\ r.queues = aws.queues /\ r.fn = aws.fn
    BY <1>2
  <2>2. \/ aws' = r /\ (Fine \/ Fault) /\ Go("createMapping", 1) /\ UNCHANGED <<run, files>>
        \/ aws' = aws /\ Fault /\ Go("createMapping", 1) /\ UNCHANGED <<run, files>>
        \/ aws' = aws /\ Fault /\ Exit("failed") /\ UNCHANGED files
    BY <1>4 DEF DeleteMapping, Try
  <2> HIDE DEF r
  <2>3. CASE Go("createMapping", 1)
    <3>1. GatewayIsNew' /\ RoutesWired'
      BY <1>3, <2>3 DEF Go
    <3>2. clean' => aws'.mapping = "none"
      BY <2>1, <2>2, <2>3 DEF Fault, Go, Exit
    <3>3. aws' \in {aws, r} /\ (Fault \/ Fine) /\ UNCHANGED <<run, files>>
      BY <2>2, <2>3 DEF Go, Exit
    <3> QED
      BY <1>0, <2>1, <2>3, <3>1, <3>2, <3>3, Onward
  <2> QED
    BY <1>0, <1>1, <2>2, <2>3
<1>5. CASE CreateMapping
  <2> DEFINE r == [aws EXCEPT !.mapping = "main"]
  <2>1. /\ r \in Aws /\ r.mapping = "main"
        /\ r.role = aws.role /\ r.queues = aws.queues /\ r.fn = aws.fn
    BY <1>2
  <2>2. \/ aws' = r /\ Fine /\ Go("listApis", 1) /\ UNCHANGED <<run, files>>
        \/ aws' \in {aws, r} /\ Exit("failed") /\ (Fault \/ Fine) /\ UNCHANGED files
    BY <1>5 DEF CreateMapping, Must, Refused
  <2> HIDE DEF r
  <2>3. CASE aws' = r /\ Fine /\ Go("listApis", 1) /\ UNCHANGED <<run, files>>
    <3>1. GatewayIsNew' /\ RoutesWired'
      BY <1>3, <2>3 DEF Go
    <3> QED
      BY <1>0, <2>1, <2>3, <3>1, Onward
  <2> QED
    BY <1>0, <1>1, <2>1, <2>2, <2>3
<1> QED
  BY <1>4, <1>5 DEF Mapping

-----------------------------------------------------------------------------
LEMMA Replaces == ASSUME IInv, ListApis \/ DeleteApi \/ CreateApi PROVE IInv'
<1> USE DEF files, run
<1>0. /\ TypeOK /\ aws \in Aws /\ pc \in {"listApis", "deleteApi", "createApi"}
      /\ aws.mapping = "main" /\ aws.apis \in SUBSET ApiIds
      /\ webEnv \in ApiIds \union {None} /\ api \in ApiIds \union {None}
      /\ listed \in SUBSET ApiIds /\ workerEnv \in BOOLEAN
  BY DEF IInv, TypeOK, Aws, Mapped, ListApis, DeleteApi, CreateApi
<1>1. ASSUME Exit("failed"), Fault \/ Fine, aws' \in Aws, UNCHANGED files PROVE IInv'
  BY <1>0, <1>1, Stops
<1>2. ASSUME NEW op \in {"deleteApi", "createApi"}, Go(op, 1), Fine, aws' \in Aws,
             UNCHANGED files, UNCHANGED api, listed' \in SUBSET ApiIds,
             aws'.role = aws.role, aws'.queues = aws.queues, aws'.fn = aws.fn,
             aws'.mapping = aws.mapping,
             IF op = "deleteApi" THEN aws'.apis = listed' ELSE aws'.apis = {}
      PROVE  IInv'
  <2>1. GatewayIsNew' /\ RoutesWired'
    BY <1>2 DEF GatewayIsNew, RoutesWired, Go
  <2> QED
    BY <1>0, <1>2, <2>1, Onward
<1>3. CASE ListApis
  BY <1>0, <1>1, <1>2, <1>3 DEF ListApis
<1>4. CASE DeleteApi
  <2>1. ASSUME NEW i \in listed
        PROVE  /\ WithoutApi(i) \in Aws /\ WithoutApi(i).apis = aws.apis \ {i}
               /\ WithoutApi(i).role = aws.role /\ WithoutApi(i).queues = aws.queues
               /\ WithoutApi(i).fn = aws.fn /\ WithoutApi(i).mapping = aws.mapping
    BY <1>0, <2>1 DEF WithoutApi, Aws
  <2>2. aws.apis = listed
    BY <1>4 DEF IInv, GatewayIsNew, DeleteApi
  <2>3. ASSUME NEW i \in listed, aws' = WithoutApi(i), listed' = listed \ {i},
               Go("deleteApi", 1), Fine, UNCHANGED <<api, files>>
        PROVE  IInv'
    BY <1>0, <1>2, <2>1, <2>2, <2>3
  <2>4. ASSUME NEW i \in listed, aws' \in {aws, WithoutApi(i)}, Exit("failed"), Fault,
               UNCHANGED files
        PROVE  IInv'
    BY <1>0, <1>1, <2>1, <2>4
  <2>5. CASE listed = {} /\ Go("createApi", 1) /\ Fine /\ UNCHANGED <<aws, run, files>>
    BY <1>0, <1>2, <2>2, <2>5
  <2> QED
    BY <1>4, <2>3, <2>4, <2>5 DEF DeleteApi
<1>5. CASE CreateApi
  <2>a. Created \subseteq SUBSET ApiIds
    BY DEF Created, Fresh
  <2>b. UNCHANGED files
    BY <1>5 DEF CreateApi
  <2>1. PICK new \in SUBSET ApiIds :
          /\ aws' = [aws EXCEPT !.apis = @ \union new]
          /\ \E i \in new :
               \/ /\ api' = i /\ UNCHANGED listed
                  /\ Go("wire", 1)
                  /\ IF new = {i} THEN Fine ELSE Fault
               \/ Exit("failed") /\ Fault
    BY <1>5, <2>a DEF CreateApi
  <2>2. /\ aws' \in Aws /\ aws'.apis = aws.apis \union new
        /\ aws'.role = aws.role /\ aws'.queues = aws.queues
        /\ aws'.fn = aws.fn /\ aws'.mapping = aws.mapping
    BY <1>0, <2>1 DEF Aws
  <2>3. aws.apis = {}
    BY <1>5 DEF IInv, GatewayIsNew, CreateApi
  <2>4. ASSUME NEW i \in new, api' = i, UNCHANGED listed, Go("wire", 1),
               IF new = {i} THEN Fine ELSE Fault
        PROVE  IInv'
    <3>1. pc' = "wire" /\ at' = 1
      BY <2>4 DEF Go
    <3>2. clean' => new = {i}
      BY <2>4 DEF Fault
    <3>3. GatewayIsNew'
      BY <2>2, <2>3, <2>4, <3>1, <3>2 DEF GatewayIsNew
    <3>4. RoutesWired'
      BY <3>1 DEF RoutesWired
    <3>5. /\ api' \in ApiIds /\ listed' \in SUBSET ApiIds
          /\ UNCHANGED <<dotenv, webEnv, workerEnv>>
      BY <1>0, <2>b, <2>4
    <3>6. Fault \/ Fine
      BY <2>4
    <3>7. pc \in AfterFunctions /\ "wire" \in AfterFunctions /\ 1 \in Positions("wire")
      BY <1>0
    <3> QED
      BY <1>0, <2>2, <2>4, <3>3, <3>4, <3>5, <3>6, <3>7, Onward
  <2> QED
    BY <1>1, <2>b, <2>1, <2>2, <2>4
<1> QED
  BY <1>3, <1>4, <1>5

-----------------------------------------------------------------------------
LEMMA RoutesAreListed ==
  /\ \A j \in 1 .. 4 : WIRING[j] \in Routes
  /\ \A r \in Routes : \E j \in 1 .. 4 : r = WIRING[j]
  /\ Len(WIRING) = 4
BY DEF WIRING, Routes

LEMMA Wires == ASSUME IInv, Wire \/ Allow PROVE IInv'
<1> USE DEF files, run
<1>0. /\ TypeOK /\ aws \in Aws /\ pc \in Wiring /\ at \in 1 .. 4
      /\ aws.mapping = "main" /\ api \in aws.apis /\ api \in ApiIds
      /\ clean => aws.apis = {api}
      /\ webEnv \in ApiIds \union {None} /\ listed \in SUBSET ApiIds
      /\ workerEnv \in BOOLEAN /\ WIRING[at] \in Routes
      /\ aws.allowed \in SUBSET (Routes \X ApiIds)
      /\ aws.wired \in [ApiIds -> SUBSET Routes]
  BY RoutesAreListed DEF IInv, TypeOK, Aws, Mapped, GatewayIsNew, Wire, Allow
<1>1. ASSUME Exit("failed"), Fault \/ Fine, aws' \in Aws, UNCHANGED files PROVE IInv'
  BY <1>0, <1>1, Stops
<1>2. ASSUME NEW op \in Wiring \union {"deploy"}, NEW k \in Positions(op), Go(op, k),
             Fault \/ Fine, aws' \in Aws, UNCHANGED <<run, files>>,
             aws'.role = aws.role, aws'.queues = aws.queues, aws'.fn = aws.fn,
             aws'.mapping = aws.mapping, aws'.apis = aws.apis, RoutesWired'
      PROVE  IInv'
  <2>1. GatewayIsNew'
    BY <1>0, <1>2 DEF GatewayIsNew, Go, Fault, Fine
  <2> QED
    BY <1>0, <1>2, <2>1, Onward
<1>3. CASE Wire
  <2> DEFINE r == [aws EXCEPT !.wired[api] = @ \union {WIRING[at]}]
  <2>1. /\ r \in Aws /\ r.wired[api] = aws.wired[api] \union {WIRING[at]}
        /\ r.role = aws.role /\ r.queues = aws.queues /\ r.fn = aws.fn
        /\ r.mapping = aws.mapping /\ r.apis = aws.apis /\ r.allowed = aws.allowed
    BY <1>0 DEF Aws
  <2>2. \/ aws' = r /\ Go("allow", at) /\ Fine /\ UNCHANGED <<run, files>>
        \/ aws' \in {aws, r} /\ Exit("failed") /\ Fault /\ UNCHANGED files
    BY <1>3 DEF Wire, Must
  <2> HIDE DEF r
  <2>3. CASE aws' = r /\ Go("allow", at) /\ Fine /\ UNCHANGED <<run, files>>
    <3>1. RoutesWired'
      BY <1>0, <2>1, <2>3 DEF IInv, RoutesWired, Go, Fine
    <3> QED
      BY <1>0, <1>2, <2>1, <2>3, <3>1
  <2> QED
    BY <1>0, <1>1, <2>1, <2>2, <2>3
<1>4. CASE Allow
  <2> DEFINE r == [aws EXCEPT !.allowed = @ \union {<<WIRING[at], api>>}]
  <2>1. /\ r \in Aws /\ r.wired = aws.wired
        /\ r.allowed = aws.allowed \union {<<WIRING[at], api>>}
        /\ r.role = aws.role /\ r.queues = aws.queues /\ r.fn = aws.fn
        /\ r.mapping = aws.mapping /\ r.apis = aws.apis
    BY <1>0 DEF Aws
  <2>2. /\ \/ aws' = r /\ Fine
           \/ aws' \in {aws, r} /\ Fault
        /\ UNCHANGED <<run, files>>
        /\ at < 4 => Go("wire", at + 1)
        /\ at = 4 => Go("deploy", 1)
    <3>1. \/ at < 4 /\ Try(r, "wire", at + 1)
          \/ at = 4 /\ Try(r, "deploy", 1)
      BY <1>0, <1>4, RoutesAreListed DEF Allow
    <3>2. UNCHANGED files
      BY <1>4 DEF Allow
    <3> HIDE DEF r
    <3>3. CASE at < 4 /\ Try(r, "wire", at + 1)
      BY <3>2, <3>3 DEF Try
    <3>4. CASE at = 4 /\ Try(r, "deploy", 1)
      BY <3>2, <3>4 DEF Try
    <3> QED
      BY <3>1, <3>3, <3>4
  <2> HIDE DEF r
  <2>3. /\ aws' \in Aws /\ aws'.wired = aws.wired
        /\ aws'.role = aws.role /\ aws'.queues = aws.queues /\ aws'.fn = aws.fn
        /\ aws'.mapping = aws.mapping /\ aws'.apis = aws.apis
        /\ clean' => clean /\ aws'.allowed = aws.allowed \union {<<WIRING[at], api>>}
    BY <1>0, <2>1, <2>2 DEF Fault, Fine
  <2>4. /\ \A j \in 1 .. 4 : j <= at => WIRING[j] \in aws'.wired[api]
        /\ clean' => \A j \in 1 .. 4 : j <= at => <<WIRING[j], api>> \in aws'.allowed
    <3>1. /\ \A j \in 1 .. 4 : j < at =>
               /\ WIRING[j] \in aws.wired[api]
               /\ clean => <<WIRING[j], api>> \in aws.allowed
          /\ WIRING[at] \in aws.wired[api]
      BY <1>0, <1>4 DEF IInv, RoutesWired, Allow
    <3>2. \A j \in 1 .. 4 : j <= at => j < at \/ j = at
      BY <1>0
    <3> QED
      BY <2>3, <3>1, <3>2
  <2>5. CASE at < 4
    <3>1. Go("wire", at + 1) /\ at + 1 \in 1 .. 4
      BY <1>0, <2>2, <2>5
    <3>2. \A j \in 1 .. 4 : j < at + 1 => j <= at
      BY <1>0
    <3>3. RoutesWired'
      BY <2>2, <2>4, <3>1, <3>2 DEF RoutesWired, Go
    <3> QED
      BY <1>2, <2>2, <2>3, <3>1, <3>3
  <2>6. CASE at = 4
    <3>1. Go("deploy", 1)
      BY <2>2, <2>6
    <3>2. /\ \A r1 \in Routes : r1 \in aws'.wired[api]
          /\ clean' => \A r1 \in Routes : <<r1, api>> \in aws'.allowed
      BY <2>4, <2>6, RoutesAreListed
    <3>3. aws'.wired[api] = Routes
      BY <1>0, <2>3, <3>2
    <3>4. RoutesWired'
      BY <2>2, <3>1, <3>2, <3>3 DEF RoutesWired, Go
    <3> QED
      BY <1>2, <2>2, <2>3, <3>1, <3>4
  <2> QED
    BY <1>0, <2>5, <2>6
<1> QED
  BY <1>3, <1>4

LEMMA Closes == ASSUME IInv, Deploy \/ Files PROVE IInv'
<1> USE DEF files, run
<1>0. /\ TypeOK /\ aws \in Aws /\ pc \in {"deploy"} \union Closing
      /\ aws.mapping = "main" /\ api \in aws.apis /\ api \in ApiIds
      /\ clean => aws.apis = {api}
      /\ webEnv \in ApiIds \union {None} /\ listed \in SUBSET ApiIds
      /\ workerEnv \in BOOLEAN
      /\ aws.served \in [ApiIds -> SUBSET Routes]
      /\ aws.wired[api] = Routes
      /\ clean => \A r \in Routes : <<r, api>> \in aws.allowed
  BY DEF IInv, TypeOK, Aws, Mapped, GatewayIsNew, RoutesWired, Deploy, Files, WriteWebEnv,
         WriteWorkerEnv
<1>1. ASSUME Exit("failed"), Fault \/ Fine, aws' \in Aws, UNCHANGED files PROVE IInv'
  BY <1>0, <1>1, Stops
<1>2. ASSUME NEW op \in Closing, Go(op, 1), Fine, aws' \in Aws, UNCHANGED <<run, dotenv>>,
             webEnv' \in ApiIds \union {None}, UNCHANGED workerEnv,
             aws'.role = aws.role, aws'.queues = aws.queues, aws'.fn = aws.fn,
             aws'.mapping = aws.mapping, aws'.apis = aws.apis, RoutesWired'
      PROVE  IInv'
  <2>1. GatewayIsNew'
    BY <1>0, <1>2 DEF GatewayIsNew, Go, Fine
  <2> QED
    BY <1>0, <1>2, <2>1, Onward
<1>3. CASE Deploy
  <2> DEFINE r == [aws EXCEPT !.served[api] = aws.wired[api]]
  <2>1. /\ r \in Aws /\ r.wired = aws.wired /\ r.served[api] = Routes
        /\ r.role = aws.role /\ r.queues = aws.queues /\ r.fn = aws.fn
        /\ r.mapping = aws.mapping /\ r.apis = aws.apis /\ r.allowed = aws.allowed
    BY <1>0 DEF Aws
  <2>2. \/ aws' = r /\ Go("writeWebEnv", 1) /\ Fine /\ UNCHANGED <<run, files>>
        \/ aws' \in {aws, r} /\ Exit("failed") /\ Fault /\ UNCHANGED files
    BY <1>3 DEF Deploy, Must
  <2> HIDE DEF r
  <2>3. CASE aws' = r /\ Go("writeWebEnv", 1) /\ Fine /\ UNCHANGED <<run, files>>
    <3>1. RoutesWired'
      BY <1>0, <2>1, <2>3 DEF RoutesWired, Go, Fine
    <3> QED
      BY <1>0, <1>2, <2>1, <2>3, <3>1
  <2> QED
    BY <1>0, <1>1, <2>1, <2>2, <2>3
<1>4. CASE WriteWebEnv
  <2>1. UNCHANGED <<aws, dotenv, workerEnv>> /\ aws.served[api] = Routes
    BY <1>4 DEF IInv, RoutesWired, WriteWebEnv
  <2>2. CASE webEnv' = api /\ Go("writeWorkerEnv", 1) /\ Fine /\ UNCHANGED run
    <3>1. RoutesWired'
      BY <1>0, <2>1, <2>2 DEF RoutesWired, Go, Fine
    <3> QED
      BY <1>0, <1>2, <2>1, <2>2, <3>1
  <2> QED
    BY <1>0, <1>1, <1>4, <2>1, <2>2 DEF WriteWebEnv
<1>5. CASE WriteWorkerEnv
  <2>1. UNCHANGED <<aws, dotenv, webEnv>> /\ aws.served[api] = Routes /\ webEnv = api
    BY <1>5 DEF IInv, RoutesWired, WriteWorkerEnv
  <2>2. CASE workerEnv' = TRUE /\ Exit("complete") /\ Fine
    <3>1. TypeOK'
      BY <1>0, <2>1, <2>2, Faults DEF TypeOK, Exit
    <3>2. aws.role /\ "dlq" \in aws.queues /\ "main" \in aws.queues /\ AppsDone
      BY <1>0 DEF IInv, Provisioned, FunctionsBuilt
    <3>3. aws.queues = {"main", "dlq"}
      BY <1>0, <3>2 DEF Aws, Queues
    <3>4. "EMAIL_QUEUE_URL" \in aws.fn["auth-api"].env
      BY <3>2 DEF AppsDone, IsBuilt, Apps, EnvForApp
    <3>5. AppsDone'
      BY <2>1, <3>2 DEF AppsDone, IsBuilt
    <3>6. CompleteIsDeployed'
      BY <1>0, <2>1, <2>2, <3>2, <3>3, <3>4, <3>5 DEF CompleteIsDeployed, Fine
    <3> QED
      BY <2>1, <2>2, <3>1, <3>6, Idle DEF IInv, Configured, Exit, Fine
  <2> QED
    BY <1>0, <1>1, <1>5, <2>1, <2>2 DEF WriteWorkerEnv
<1> QED
  BY <1>3, <1>4, <1>5 DEF Files

-----------------------------------------------------------------------------
LEMMA Begins == ASSUME IInv, Start PROVE IInv'
<1> USE DEF files, run
<1>1. TypeOK'
  <2> DEFINE g == [a \in Apps |-> IF aws.fn[a].code = "new"
                                  THEN [aws.fn[a] EXCEPT !.code = "old"] ELSE aws.fn[a]]
  <2>a. aws \in Aws /\ aws' = [aws EXCEPT !.fn = g]
    BY DEF IInv, TypeOK, Start
  <2>b. g \in [Apps -> FunctionState]
    BY <2>a DEF Aws, FunctionState
  <2> HIDE DEF g
  <2>1. aws' \in Aws
    BY <2>a, <2>b DEF Aws
  <2>2. Populated \in DotEnv
    BY DEF Populated, DotEnv
  <2>3. dotenv' \in DotEnv /\ (Fault \/ (UNCHANGED faults /\ clean' = TRUE))
    BY <2>2 DEF Start
  <2>4. clean' \in BOOLEAN /\ faults' \in 0 .. MaxFaults
    BY <2>3, Faults DEF IInv, TypeOK, Fine, Fault
  <2>5. /\ pc = "idle" /\ pc' = "getRole" /\ at' = at /\ outcome' = "none"
        /\ UNCHANGED <<run, webEnv, workerEnv>>
    BY DEF Start
  <2>6. at' = 1
    BY <2>5 DEF IInv, TypeOK
  <2>7. 1 \in Positions("getRole") /\ "getRole" \in Steps
    OBVIOUS
  <2> QED
    BY <2>1, <2>3, <2>4, <2>5, <2>6, <2>7 DEF IInv, TypeOK
<1>2. Configured'
  BY DEF Start, Configured, Fault
<1> QED
  BY <1>1, <1>2 DEF Start, IInv, OutcomeIsFinal, Provisioned, FunctionsBuilt, Mapped,
              NothingInTheWay, GatewayIsNew, RoutesWired, CompleteIsDeployed

LEMMA Restarts == ASSUME IInv, Restart PROVE IInv'
<1>1. Nothing \in Aws
  BY DEF Nothing, Aws, NoFunction, FunctionState
<1>2. TypeOK'
  BY <1>1 DEF IInv, TypeOK, Restart, files, run
<1> QED
  BY <1>2, Idle DEF Restart, CompleteIsDeployed, IInv, Configured, files

LEMMA StepIInv == ASSUME IInv, [Next]_vars PROVE IInv'
<1>1. CASE Main
  BY <1>1, Provisions, Builds, Maps, Replaces, Wires, Closes DEF Main, Gateway
<1>2. CASE Kill
  BY <1>2, Stops DEF Kill, IInv, TypeOK
<1>3. CASE UNCHANGED vars
  BY <1>3 DEF vars, run, files, IInv, TypeOK, OutcomeIsFinal, Configured, Provisioned, FunctionsBuilt,
              Mapped, NothingInTheWay, GatewayIsNew, RoutesWired, CompleteIsDeployed,
              AppsDone, IsBuilt
<1> QED
  BY <1>1, <1>2, <1>3, Begins, Restarts DEF Next

(* What a step of main finds done holds in every state, however many runs  *)
(* have failed before, and wherever.                                       *)
THEOREM Invariance == Spec => []IInv
BY InitIInv, StepIInv, PTL DEF Spec

(* A run that reports its success has deployed everything, and nothing of  *)
(* an earlier build or gateway is left in use.                             *)
THEOREM Complete == Spec => []CompleteIsDeployed
<1>1. IInv => CompleteIsDeployed
  BY DEF IInv
<1> QED
  BY <1>1, Invariance, PTL

(* After a run without a fault every function finds in its environment     *)
(* what its loadConfig asks for.                                           *)
THEOREM FunctionsStart == Spec => []EveryFunctionStarts
<1>1. ASSUME IInv PROVE EveryFunctionStarts
  <2>1. SUFFICES ASSUME outcome = "complete", clean, NEW a \in Apps PROVE Starts(a)
    BY DEF EveryFunctionStarts
  <2>2. dotenv = Populated
    BY <1>1, <2>1 DEF IInv, Configured
  <2>3. aws.fn[a] = [code |-> "new", env |-> EnvForApp(a, Populated)]
    BY <1>1, <2>1, <2>2 DEF IInv, CompleteIsDeployed, AppsDone, IsBuilt
  <2>4. a # Worker => Shared \subseteq EnvForApp(a, Populated)
    BY DEF EnvForApp, Populated, Shared, Urls
  <2>5. "EMAIL_QUEUE_URL" \in EnvForApp("auth-api", Populated)
    BY DEF EnvForApp
  <2> QED
    BY <2>3, <2>4, <2>5
       DEF Starts, BuildAuthApp, BuildProductsApp, BuildAuthModule, AuthConfig,
           ProductsConfig, Worker
<1> QED
  BY <1>1, Invariance, PTL

(* In a run without a fault no call is refused. *)
LEMMA NothingRefused ==
  ASSUME IInv, Next, pc' = "idle", pc # "idle", clean'
  PROVE  outcome' = "complete"
<1>1. ~Fault
  BY DEF Fault
<1>2. CASE Provision
  BY <1>1, <1>2 DEF Provision, GetRole, CreateRole, CreateDlq, GetDlq, CreateMain, GetMain,
        CreateQueue, GetQueue, Must, Try, Go, Refused, Fine, IInv, NothingInTheWay
<1>3. CASE Functions
  <2>1. clean => \A u \in Urls : dotenv[u] = "good"
    BY DEF IInv, Configured, Populated, Shared
  <2> QED
    BY <1>1, <1>3, <2>1 DEF Functions, DeleteFunction, Build, CreateFunction, GetFunction, Must,
        Try, Go, Refused, Fine, IInv, NothingInTheWay
<1>4. CASE Mapping
  BY <1>1, <1>4 DEF Mapping, DeleteMapping, CreateMapping, Must, Try, Go, Refused, Fine,
        IInv, NothingInTheWay
<1>5. CASE Gateway
  BY <1>1, <1>5 DEF Gateway, ListApis, DeleteApi, CreateApi, Wire, Allow, Deploy, Must,
        Try, Go
<1>6. CASE Files
  BY <1>1, <1>6 DEF Files, WriteWebEnv, WriteWorkerEnv, Go, Exit
<1>7. CASE Start \/ Kill \/ Restart
  BY <1>1, <1>7 DEF Start, Kill, Restart
<1> QED
  BY <1>2, <1>3, <1>4, <1>5, <1>6, <1>7 DEF Next, Main

(* A run during which nothing goes wrong gets to its end, whatever is left *)
(* of the runs before it.                                                  *)
THEOREM CleanRun == Spec => CleanRunCompletes
<1>1. ASSUME IInv, [Next]_vars
      PROVE  [pc' = "idle" /\ pc # "idle" /\ clean' => outcome' = "complete"]_vars
  BY <1>1, NothingRefused
<1> QED
  BY <1>1, Invariance, PTL DEF Spec, CleanRunCompletes

(* The web client is only pointed at a gateway that serves every route.    *)
THEOREM WebEnv == Spec => WebEnvIsServed
<1>1. ASSUME IInv, [Next]_vars
      PROVE  [webEnv' # webEnv =>
                /\ webEnv' \in aws.apis
                /\ aws.served[webEnv'] = Routes
                /\ AppsDone]_vars
  <2>1. SUFFICES ASSUME webEnv' # webEnv
                 PROVE  webEnv' \in aws.apis /\ aws.served[webEnv'] = Routes /\ AppsDone
    OBVIOUS
  <2>2. WriteWebEnv
    <3>1. CASE Main
      BY <2>1, <3>1
         DEF Main, Provision, GetRole, CreateRole, CreateDlq, GetDlq, CreateMain, GetMain,
             CreateQueue, GetQueue, Functions, DeleteFunction, Build, CreateFunction,
             GetFunction, Mapping, DeleteMapping, CreateMapping, Gateway, ListApis,
             DeleteApi, CreateApi, Wire, Allow, Deploy, Files, WriteWorkerEnv, files
    <3> QED
      BY <1>1, <2>1, <3>1 DEF Next, Start, Kill, Restart, files, vars
  <2>3. webEnv' = api /\ pc = "writeWebEnv"
    BY <2>1, <2>2 DEF WriteWebEnv
  <2> QED
    BY <1>1, <2>3 DEF IInv, GatewayIsNew, RoutesWired, FunctionsBuilt
<1> QED
  BY <1>1, Invariance, PTL DEF Spec, WebEnvIsServed

-----------------------------------------------------------------------------
(* Convergence: what is left of earlier runs goes step by step.            *)

LEMMA NoRoutesOfTheGone ==
  ASSUME IInv, NoStaleRoutes, [Next]_vars
  PROVE  NoStaleRoutes'
<1> USE DEF NoStaleRoutes
<1>0. /\ aws \in Aws /\ aws.wired \in [ApiIds -> SUBSET Routes]
      /\ aws.served \in [ApiIds -> SUBSET Routes] /\ aws.apis \in SUBSET ApiIds
  BY DEF IInv, TypeOK, Aws
<1>1. ASSUME aws'.apis = aws.apis, aws'.wired = aws.wired, aws'.served = aws.served
      PROVE  NoStaleRoutes'
  BY <1>1
<1>2. CASE Provision \/ Functions \/ Mapping \/ ListApis \/ Allow \/ Files
  <2>1. aws'.apis = aws.apis /\ aws'.wired = aws.wired /\ aws'.served = aws.served
    BY <1>0, <1>2
       DEF Provision, GetRole, CreateRole, CreateDlq, GetDlq, CreateMain, GetMain,
           CreateQueue, GetQueue, Functions, DeleteFunction, Build, CreateFunction,
           GetFunction, Mapping, DeleteMapping, CreateMapping, ListApis, Allow, Files,
           WriteWebEnv, WriteWorkerEnv, Must, Try, Refused, Aws
  <2> QED
    BY <1>1, <2>1
<1>3. CASE DeleteApi
  <2>1. ASSUME NEW i \in ApiIds, aws' = WithoutApi(i) PROVE NoStaleRoutes'
    BY <1>0, <2>1 DEF WithoutApi, Aws
  <2>2. listed \in SUBSET ApiIds
    BY DEF IInv, TypeOK
  <2> QED
    BY <1>1, <1>3, <2>1, <2>2 DEF DeleteApi
<1>4. CASE CreateApi
  <2>1. PICK new \in Created : aws' = [aws EXCEPT !.apis = @ \union new]
    BY <1>4 DEF CreateApi
  <2>2. aws'.apis = aws.apis \union new /\ aws'.wired = aws.wired /\ aws'.served = aws.served
    BY <1>0, <2>1 DEF Aws
  <2> QED
    BY <2>2
<1>5. CASE Wire \/ Deploy
  <2>1. api \in aws.apis
    BY <1>5 DEF IInv, GatewayIsNew, Wire, Deploy
  <2>2. /\ aws'.apis = aws.apis
        /\ \A i \in ApiIds \ {api} : /\ aws'.wired[i] = aws.wired[i]
                                     /\ aws'.served[i] = aws.served[i]
    BY <1>0, <1>5 DEF Wire, Deploy, Must, Aws
  <2> QED
    BY <2>1, <2>2
<1>6. CASE Start \/ Kill \/ UNCHANGED vars
  <2>1. aws'.apis = aws.apis /\ aws'.wired = aws.wired /\ aws'.served = aws.served
    BY <1>0, <1>6 DEF Start, Kill, vars, Aws
  <2> QED
    BY <1>1, <2>1
<1>7. CASE Restart
  BY <1>7 DEF Restart, Nothing
<1> QED
  BY <1>2, <1>3, <1>4, <1>5, <1>6, <1>7 DEF Next, Main, Gateway

(* A permission is for a route of the first or the second app. *)
LEMMA TwoAppsAreRouted ==
  ASSUME aws \in Aws, NEW p \in aws.allowed
  PROVE  p[1][1] \in {APPS[1], APPS[2]}
BY DEF Aws, Routes, APPS

LEMMA NoPermissionsOfTheGone ==
  ASSUME IInv, PermissionsAreNew, [Next]_vars
  PROVE  PermissionsAreNew'
<1>0. /\ aws \in Aws /\ aws.allowed \in SUBSET (Routes \X ApiIds)
      /\ at \in Positions(pc) /\ pc \in Steps
  BY DEF IInv, TypeOK, Aws
<1>1. SUFFICES ASSUME clean' PROVE PermissionsAreNew'
  BY DEF PermissionsAreNew
<1>2. ~Fault
  BY <1>1 DEF Fault
<1>3. CASE pc' = "idle" \/ pc' = "getRole" \/ pc' = "createRole"
  BY <1>3 DEF PermissionsAreNew
<1>4. CASE Provision /\ pc' # "idle"
  BY <1>2, <1>4 DEF Provision, GetRole, CreateRole, CreateDlq, GetDlq, CreateMain, GetMain,
        CreateQueue, GetQueue, Must, Try, Refused, Go, Exit, PermissionsAreNew
<1>5. CASE DeleteFunction /\ pc' # "idle"
  <2> DEFINE s == {p \in aws.allowed : p[1][1] # APPS[at]}
             x == [aws EXCEPT !.fn[APPS[at]] = NoFunction, !.allowed = s]
  <2>1. aws' = x /\ clean' = clean /\ pc' = "build" /\ at' = at /\ pc = "deleteFunction"
    BY <1>2, <1>5 DEF DeleteFunction, Try, Refused, Exit, Fine, Go
  <2>2. aws'.allowed = s
    <3> HIDE DEF s
    <3> QED
      BY <1>0, <2>1 DEF Aws
  <2>3. \A j \in 1 .. 3 : j < at => \A p \in aws.allowed : p[1][1] # APPS[j]
    BY <1>1, <2>1 DEF PermissionsAreNew
  <2>4. ASSUME NEW j \in 1 .. 3, j < at \/ j = at, NEW p \in s PROVE p[1][1] # APPS[j]
    BY <2>3, <2>4
  <2> QED
    BY <2>1, <2>2, <2>4 DEF PermissionsAreNew
<1>6. CASE (Build \/ CreateFunction) /\ pc' # "idle"
  <2>1. /\ aws'.allowed = aws.allowed /\ clean' = clean /\ at' = at
        /\ pc \in {"build", "createFunction"} /\ pc' \in {"createFunction", "getFunction"}
    BY <1>0, <1>2, <1>6 DEF Build, CreateFunction, Must, Refused, Exit, Fine, Go, Aws
  <2> QED
    BY <1>1, <2>1 DEF PermissionsAreNew
<1>7. CASE GetFunction /\ pc' # "idle"
  <2>1. aws' = aws /\ clean' = clean /\ pc = "getFunction" /\ at \in 1 .. 3
    BY <1>0, <1>2, <1>7 DEF GetFunction, Must, Exit, Fine
  <2>2. \A j \in 1 .. 3 : j < at + 1 => \A p \in aws.allowed : p[1][1] # APPS[j]
    BY <1>1, <2>1 DEF PermissionsAreNew
  <2>3. CASE at < 3 /\ pc' = "deleteFunction" /\ at' = at + 1
    BY <1>1, <2>1, <2>2, <2>3 DEF PermissionsAreNew
  <2>4. CASE at = 3 /\ pc' = "deleteMapping" /\ at' = 1
    <3>1. aws.allowed = {}
      <4>1. \A p \in aws.allowed : p[1][1] # APPS[1] /\ p[1][1] # APPS[2]
        BY <2>2, <2>4
      <4> QED
        BY <1>0, <4>1, TwoAppsAreRouted
    <3> QED
      BY <1>1, <2>1, <2>4, <3>1 DEF PermissionsAreNew
  <2>5. Len(APPS) = 3
    BY AppsAreListed
  <2> QED
    BY <1>2, <1>7, <2>1, <2>3, <2>4, <2>5 DEF GetFunction, Must, Exit, Go
<1>8. CASE (Mapping \/ ListApis \/ DeleteApi) /\ pc' # "idle"
  <2>1. /\ aws'.allowed = aws.allowed /\ clean' = clean
        /\ pc \in AfterFunctions \ AfterApi /\ pc' \in AfterFunctions \ AfterApi
    BY <1>0, <1>2, <1>8 DEF Mapping, DeleteMapping, CreateMapping, ListApis, DeleteApi,
          WithoutApi, Must, Try, Refused, Exit, Fine, Go, Aws
  <2> QED
    BY <1>1, <2>1 DEF PermissionsAreNew
<1>9. CASE CreateApi /\ pc' # "idle"
  <2>1. aws'.allowed = aws.allowed /\ clean' = clean /\ pc = "createApi" /\ pc' = "wire"
    BY <1>0, <1>2, <1>9 DEF CreateApi, Exit, Fine, Go, Aws
  <2> QED
    BY <1>1, <2>1 DEF PermissionsAreNew
<1>10. CASE (Wire \/ Allow \/ Deploy) /\ pc' # "idle"
  <2>1. api' = api /\ clean' = clean /\ pc \in AfterApi /\ pc' \in AfterApi
    BY <1>2, <1>10 DEF Wire, Allow, Deploy, Must, Try, Exit, Fine, Go, run
  <2>2. aws'.allowed \subseteq aws.allowed \union (Routes \X {api})
    <3>1. CASE Wire \/ Deploy
      BY <1>0, <3>1 DEF Wire, Deploy, Must, Aws
    <3>2. CASE Allow
      <4>1. aws' \in {aws, [aws EXCEPT !.allowed = @ \union {<<WIRING[at], api>>}]}
        BY <3>2 DEF Allow, Try
      <4>2. WIRING[at] \in Routes
        BY <1>0, <3>2, RoutesAreListed DEF Allow
      <4> QED
        BY <1>0, <4>1, <4>2 DEF Aws
    <3> QED
      BY <1>10, <3>1, <3>2
  <2> QED
    BY <1>1, <2>1, <2>2 DEF PermissionsAreNew
<1>11. CASE Files /\ pc' # "idle"
  <2>1. aws' = aws /\ api' = api /\ clean' = clean /\ pc \in AfterApi /\ pc' \in AfterApi
    BY <1>2, <1>11 DEF Files, WriteWebEnv, WriteWorkerEnv, Exit, Fine, Go, run
  <2> QED
    BY <1>1, <2>1 DEF PermissionsAreNew
<1>12. CASE UNCHANGED vars
  BY <1>12 DEF vars, run, PermissionsAreNew
<1>13. ASSUME Start \/ Kill \/ Restart PROVE pc' = "idle" \/ pc' = "getRole"
  BY <1>13 DEF Start, Kill, Restart, Exit
<1> QED
  BY <1>3, <1>4, <1>5, <1>6, <1>7, <1>8, <1>9, <1>10, <1>11, <1>12, <1>13
     DEF Next, Main, Functions, Gateway

(* The last step of a run without a fault finds everything in place. *)
LEMMA ConvergesAtTheEnd ==
  ASSUME IInv, NoStaleRoutes, PermissionsAreNew, CleanRunConverges, [Next]_vars
  PROVE  CleanRunConverges'
<1>1. SUFFICES ASSUME outcome' = "complete", clean'
               PROVE  aws' = Deployed(webEnv') /\ workerEnv'
  BY DEF CleanRunConverges
<1>2. CASE UNCHANGED vars
  BY <1>1, <1>2 DEF vars, files, CleanRunConverges
<1>3. CASE WriteWorkerEnv
  <2>1. /\ clean /\ aws' = aws /\ webEnv' = webEnv /\ workerEnv' /\ pc = "writeWorkerEnv"
    BY <1>1, <1>3 DEF WriteWorkerEnv, Exit, Fine
  <2>2. /\ aws \in Aws /\ aws.role /\ aws.queues = {"main", "dlq"} /\ aws.mapping = "main"
        /\ webEnv = api /\ aws.apis = {api} /\ api \in ApiIds
        /\ dotenv = Populated
    BY <2>1 DEF IInv, TypeOK, Aws, Queues, Provisioned, Mapped, RoutesWired, GatewayIsNew, Configured
  <2>3. aws.fn = Deployed(api).fn
    <3>1. \A a \in Apps : aws.fn[a] = [code |-> "new", env |-> EnvForApp(a, Populated)]
      BY <2>1, <2>2 DEF IInv, FunctionsBuilt, AppsDone, IsBuilt
    <3> QED
      BY <2>2, <3>1 DEF Deployed, Aws
  <2>4. aws.wired = Deployed(api).wired /\ aws.served = Deployed(api).served
    <3>1. aws.wired[api] = Routes /\ aws.served[api] = Routes
      BY <2>1 DEF IInv, RoutesWired
    <3>2. \A i \in ApiIds \ {api} : aws.wired[i] = {} /\ aws.served[i] = {}
      BY <2>2 DEF NoStaleRoutes
    <3>3. aws.wired \in [ApiIds -> SUBSET Routes] /\ aws.served \in [ApiIds -> SUBSET Routes]
      BY <2>2 DEF Aws
    <3> QED
      BY <2>2, <3>1, <3>2, <3>3 DEF Deployed
  <2>5. aws.allowed = Routes \X {api}
    <3>1. aws.allowed \subseteq Routes \X {api}
      BY <2>1 DEF PermissionsAreNew
    <3>2. \A x \in Routes : <<x, api>> \in aws.allowed
      BY <2>1 DEF IInv, RoutesWired
    <3> QED
      BY <3>1, <3>2
  <2>6. aws = Deployed(api)
    BY <2>2, <2>3, <2>4, <2>5 DEF Deployed, Aws
  <2> QED
    BY <2>1, <2>2, <2>6
<1>4. ASSUME Next, ~WriteWorkerEnv PROVE outcome' # "complete"
  <2>1. CASE Main
    <3>1. outcome = "none"
      BY <2>1 DEF IInv, OutcomeIsFinal, Main, Provision, GetRole, CreateRole, CreateDlq,
            GetDlq, CreateMain, GetMain, CreateQueue, GetQueue, Functions, DeleteFunction,
            Build, CreateFunction, GetFunction, Mapping, DeleteMapping, CreateMapping,
            Gateway, ListApis, DeleteApi, CreateApi, Wire, Allow, Deploy, Files, WriteWebEnv,
            WriteWorkerEnv
    <3> QED
      BY <1>4, <2>1, <3>1 DEF Main, Provision, GetRole, CreateRole, CreateDlq,
            GetDlq, CreateMain, GetMain, CreateQueue, GetQueue, Functions, DeleteFunction,
            Build, CreateFunction, GetFunction, Mapping, DeleteMapping, CreateMapping,
            Gateway, ListApis, DeleteApi, CreateApi, Wire, Allow, Deploy, Files, WriteWebEnv,
            Must, Try, Refused, Exit, Go
  <2>2. CASE Start \/ Kill \/ Restart
    BY <2>2 DEF Start, Kill, Restart, Exit
  <2> QED
    BY <1>4, <2>1, <2>2 DEF Next
<1> QED
  BY <1>1, <1>2, <1>3, <1>4

(* "Keep deploys idempotent" (:305): whatever the runs before it have left *)
(* behind, a run without a fault ends in one and the same deployment.      *)
THEOREM Converges == Spec => []CleanRunConverges
<1> DEFINE Rest == NoStaleRoutes /\ PermissionsAreNew /\ CleanRunConverges
<1>1. Init => Rest
  BY DEF Init, Nothing, NoStaleRoutes, PermissionsAreNew, CleanRunConverges
<1>2. IInv /\ Rest /\ [Next]_vars => Rest'
  BY NoRoutesOfTheGone, NoPermissionsOfTheGone, ConvergesAtTheEnd
<1>3. Rest => CleanRunConverges
  OBVIOUS
<1> HIDE DEF Rest
<1> QED
  BY <1>1, <1>2, <1>3, Invariance, PTL DEF Spec

-----------------------------------------------------------------------------
(* What liveness rests on: a run ends.                                     *)

(* How many calls main has before it, the deletions counting as one. *)
ToGo(op, k) ==
  CASE op = "getRole" -> 34
    [] op = "createRole" -> 33
    [] op = "createDlq" -> 32
    [] op = "getDlq" -> 31
    [] op = "createMain" -> 30
    [] op = "getMain" -> 29
    [] op = "deleteFunction" -> 16 + 4 * (4 - k)
    [] op = "build" -> 15 + 4 * (4 - k)
    [] op = "createFunction" -> 14 + 4 * (4 - k)
    [] op = "getFunction" -> 13 + 4 * (4 - k)
    [] op = "deleteMapping" -> 16
    [] op = "createMapping" -> 15
    [] op = "listApis" -> 14
    [] op = "deleteApi" -> 13
    [] op = "createApi" -> 12
    [] op = "wire" -> 3 + 2 * (5 - k)
    [] op = "allow" -> 2 + 2 * (5 - k)
    [] op = "deploy" -> 3
    [] op = "writeWebEnv" -> 2
    [] op = "writeWorkerEnv" -> 1
    [] OTHER -> 0

NearerToExit ==
  \/ ToGo(pc', at') < ToGo(pc, at)
  \/ pc = "deleteApi" /\ pc' = "deleteApi" /\ Cardinality(listed') < Cardinality(listed)

FinitelyManyApis == IsFiniteSet(aws.apis) /\ IsFiniteSet(listed)

(* A run that ends, or that goes on to one call, is nearer to its end. *)
LEMMA ExitIsNearer ==
  ASSUME TypeOK, pc # "idle", NEW how, Exit(how)
  PROVE  NearerToExit
<1>1. ToGo(pc', at') = 0
  BY DEF Exit, ToGo
<1>2. ToGo(pc, at) > 0
  BY DEF TypeOK, ToGo
<1> QED
  BY <1>1, <1>2 DEF NearerToExit

LEMMA GoIsNearer ==
  ASSUME NEW op, NEW k, Go(op, k), ToGo(op, k) < ToGo(pc, at)
  PROVE  NearerToExit
BY DEF Go, NearerToExit

LEMMA MustIsNearer ==
  ASSUME TypeOK, pc # "idle", NEW after, NEW op, NEW k,
         Must(after, op, k) \/ Try(after, op, k) \/ Refused,
         ToGo(op, k) < ToGo(pc, at)
  PROVE  NearerToExit
BY ExitIsNearer, GoIsNearer DEF Must, Try, Refused

(* Every call of main, one at a time. *)
LEMMA MainIsNearer ==
  ASSUME IInv, FinitelyManyApis, Main
  PROVE  NearerToExit
<1> USE DEF ToGo
<1>1. TypeOK
  BY DEF IInv
<1>2. CASE GetRole
  BY <1>1, <1>2, GoIsNearer DEF GetRole
<1>3. CASE CreateRole
  BY <1>1, <1>3, MustIsNearer, ExitIsNearer DEF CreateRole, Refused
<1>4. CASE CreateDlq \/ CreateMain
  BY <1>1, <1>4, MustIsNearer DEF CreateDlq, CreateMain, CreateQueue
<1>5. CASE GetDlq \/ GetMain
  BY <1>1, <1>5, MustIsNearer DEF GetDlq, GetMain, GetQueue
<1>6. CASE DeleteFunction
  BY <1>1, <1>6, MustIsNearer, ExitIsNearer DEF DeleteFunction, Refused, TypeOK
<1>7. CASE Build
  BY <1>1, <1>7, MustIsNearer DEF Build, TypeOK
<1>8. CASE CreateFunction
  BY <1>1, <1>8, MustIsNearer DEF CreateFunction, TypeOK
<1>9. CASE GetFunction
  BY <1>1, <1>9, MustIsNearer DEF GetFunction, TypeOK, APPS
<1>10. CASE DeleteMapping
  BY <1>1, <1>10, MustIsNearer, ExitIsNearer DEF DeleteMapping
<1>11. CASE CreateMapping
  BY <1>1, <1>11, MustIsNearer, ExitIsNearer DEF CreateMapping, Refused
<1>12. CASE ListApis
  BY <1>1, <1>12, GoIsNearer, ExitIsNearer DEF ListApis
<1>13. CASE DeleteApi
  <2>1. CASE \E how : Exit(how)
    BY <1>1, <1>13, <2>1, ExitIsNearer DEF DeleteApi
  <2>2. CASE Go("createApi", 1)
    BY <1>13, <2>2, GoIsNearer DEF DeleteApi
  <2>3. ASSUME NEW i \in listed, listed' = listed \ {i}, Go("deleteApi", 1)
        PROVE  NearerToExit
    <3>1. Cardinality(listed) \in Nat /\ Cardinality(listed \ {i}) = Cardinality(listed) - 1
      BY FS_CardinalityType, FS_RemoveElement DEF FinitelyManyApis
    <3> QED
      BY <1>13, <2>3, <3>1 DEF DeleteApi, Go, NearerToExit
  <2> QED
    BY <1>13, <2>1, <2>2, <2>3 DEF DeleteApi
<1>14. CASE CreateApi
  BY <1>1, <1>14, GoIsNearer, ExitIsNearer DEF CreateApi
<1>15. CASE Wire
  BY <1>1, <1>15, MustIsNearer DEF Wire, TypeOK
<1>16. CASE Allow
  BY <1>1, <1>16, MustIsNearer DEF Allow, TypeOK, WIRING
<1>17. CASE Deploy
  BY <1>1, <1>17, MustIsNearer DEF Deploy
<1>18. CASE WriteWebEnv \/ WriteWorkerEnv
  BY <1>1, <1>18, GoIsNearer, ExitIsNearer DEF WriteWebEnv, WriteWorkerEnv
<1> HIDE DEF ToGo
<1> QED
  BY <1>2, <1>3, <1>4, <1>5, <1>6, <1>7, <1>8, <1>9, <1>10, <1>11, <1>12, <1>13, <1>14,
     <1>15, <1>16, <1>17, <1>18 DEF Main, Provision, Functions, Mapping, Gateway, Files

(* No step makes more than two gateways, and a run lists those there are. *)
LEMMA FinitelyManyStep ==
  ASSUME IInv, FinitelyManyApis, [Next]_vars
  PROVE  FinitelyManyApis'
<1> USE DEF FinitelyManyApis
<1>1. TypeOK
  BY DEF IInv
<1>2. aws \in Aws
  BY <1>1 DEF TypeOK
<1>3. IsFiniteSet(listed')
  <2>1. listed' \in {listed, {}, aws.apis} \/ \E i : listed' = listed \ {i}
    BY DEF Next, Main, Provision, Functions, Mapping, Gateway, Files, vars, run,
       Start, Kill, Restart, GetRole, CreateRole, CreateDlq, GetDlq, CreateMain, GetMain,
       CreateQueue, GetQueue, DeleteFunction, Build, CreateFunction, GetFunction,
       DeleteMapping, CreateMapping, ListApis, DeleteApi, CreateApi, Wire, Allow, Deploy,
       WriteWebEnv, WriteWorkerEnv, Must, Try, Refused, Exit
  <2> QED
    BY <2>1, FS_EmptySet, FS_RemoveElement
<1>4. CASE aws'.apis \subseteq aws.apis
  BY <1>3, <1>4, FS_Subset
<1>5. CASE CreateApi
  <2>1. PICK new \in Created : aws' = [aws EXCEPT !.apis = @ \union new]
    BY <1>5 DEF CreateApi
  <2>2. PICK i, j : new = {i} \/ new = {i, j}
    BY <2>1 DEF Created
  <2>3. IsFiniteSet(new)
    <3>1. {i, j} = {i} \union {j}
      OBVIOUS
    <3>2. IsFiniteSet({i}) /\ IsFiniteSet({j})
      BY FS_Singleton
    <3>3. IsFiniteSet({i} \union {j})
      BY <3>2, FS_Union
    <3> QED
      BY <2>2, <3>1, <3>2, <3>3
  <2>4. aws'.apis = aws.apis \union new
    BY <1>2, <2>1 DEF Aws
  <2> QED
    BY <1>3, <2>3, <2>4, FS_Union
<1>6. CASE UNCHANGED aws
  BY <1>4, <1>6
<1>7. CASE Provision \/ Functions \/ Mapping \/ Wire \/ Allow \/ Deploy
  BY <1>2, <1>4, <1>7 DEF Aws, Provision, Functions, Mapping, GetRole, CreateRole, CreateDlq, GetDlq,
     CreateMain, GetMain, CreateQueue, GetQueue, DeleteFunction, Build, CreateFunction,
     GetFunction, DeleteMapping, CreateMapping, Wire, Allow, Deploy, Must, Try, Refused
<1>8. CASE ListApis \/ DeleteApi
  <2>1. aws' = aws \/ \E i \in listed : aws' = WithoutApi(i)
    BY <1>8 DEF ListApis, DeleteApi
  <2>2. ASSUME NEW i \in listed PROVE WithoutApi(i).apis = aws.apis \ {i}
    BY <1>2 DEF Aws, WithoutApi
  <2> QED
    BY <1>4, <2>1, <2>2
<1>9. CASE Start \/ Restart
  BY <1>2, <1>4, <1>9 DEF Aws, Start, Restart, Nothing
<1> QED
  BY <1>5, <1>6, <1>7, <1>8, <1>9
     DEF Next, Main, Gateway, Files, WriteWebEnv, WriteWorkerEnv, Kill, vars

(* What Redeployed rests on, for any number of gateways left behind: every *)
(* call of main brings the run nearer to its end, however it goes.  A run  *)
(* has at most 34 calls and one for each gateway it finds; retries are of  *)
(* the SDK's, never of the script's.                                       *)
THEOREM RunsEnd == Spec => [][Main \/ Kill => NearerToExit]_vars
<1>1. Init => FinitelyManyApis
  BY FS_EmptySet DEF Init, Nothing, FinitelyManyApis
<1>2. IInv /\ FinitelyManyApis /\ [Next]_vars => FinitelyManyApis'
  BY FinitelyManyStep
<1>3. IInv /\ FinitelyManyApis /\ [Next]_vars => [Main \/ Kill => NearerToExit]_vars
  BY MainIsNearer, ExitIsNearer DEF Kill, IInv
<1> QED
  BY <1>1, <1>2, <1>3, Invariance, PTL DEF Spec
=============================================================================
