------------------------------- MODULE Deploy -------------------------------
(***************************************************************************)
(* scripts/deploy-localstack.ts: one run after the other of a script that  *)
(* replaces what the run before it has left in LocalStack, each a sequence *)
(* of calls any of which may fail or be lost, and that may be killed at    *)
(* any of them.  Two runs do not overlap, and LocalStack restarts between  *)
(* runs only.                                                              *)
(***************************************************************************)
EXTENDS Integers, Sequences

CONSTANTS ApiIds,     \* bound: gateway ids known at once
          None,       \* no gateway
          DotEnvs,    \* what .env may hold, besides all that it should
          MaxFaults   \* bound: faults, kills and runs with such a .env

(* The variables of .env that envForApp passes on. *)
Urls == {"DATABASE_URL", "REDIS_URL"}
Shared == Urls \union {"JWT_PRIVATE_KEY_PEM", "JWT_PUBLIC_KEY_PEM"}

(* A variable may be missing, or be there without being of use.            *)
DotEnv == [Shared -> {"unset", "bad", "good"}]
Populated == [v \in Shared |-> "good"]

ASSUME NoneAssumption == None \notin ApiIds
ASSUME DotEnvsAssumption == DotEnvs \subseteq DotEnv \ {Populated}
ASSUME FaultsAssumption == MaxFaults \in Nat

VARIABLES
  pc,         \* the call the run is at
  at,         \* the position in the loop over the apps or their routes
  api,        \* apiId, once it is created
  listed,     \* the gateways found that are still to be deleted
  outcome,    \* of the last run
  clean,      \* history: nothing went wrong in this run
  faults,     \* faults so far
  aws,        \* what LocalStack holds
  dotenv,     \* .env, as this run finds it
  webEnv,     \* the gateway VITE_API_BASE_URL names in apps/web/.env.local
  workerEnv   \* apps/email-worker/.env.local is written

run == <<api, listed>>
files == <<dotenv, webEnv, workerEnv>>
vars == <<pc, at, run, outcome, clean, faults, aws, files>>

APPS == <<"auth-api", "products-api", "email-worker">>
Apps == {"auth-api", "products-api", "email-worker"}

(* The apps with a pathPrefix, in the order of APPS, each wired at         *)
(* /<prefix> and at /<prefix>/{proxy+}.                                    *)
WIRING == << <<"auth-api", "root">>, <<"auth-api", "proxy">>,
             <<"products-api", "root">>, <<"products-api", "proxy">> >>
Routes == {"auth-api", "products-api"} \X {"root", "proxy"}

(* The app with triggeredBy = 'sqs'. *)
Worker == "email-worker"

(* Mutant of EnvForApp: the queue's URL goes to the wrong app. *)
EnvForAppMisled(a, env) ==
  (IF a = Worker THEN {} ELSE {v \in Shared : env[v] = "good"})
    \union (IF a = "products-api" THEN {"EMAIL_QUEUE_URL"} ELSE {})

(* The variables of use that envForApp gives a function: one that is not   *)
(* set is not sent, and auth-api alone is told the main queue.             *)
EnvForApp(a, env) ==
  (IF a = Worker THEN {} ELSE {v \in Shared : env[v] = "good"})
    \union (IF a = "auth-api" THEN {"EMAIL_QUEUE_URL"} ELSE {})

NoFunction == [code |-> "none", env |-> {}]

(* A LocalStack that has just started: it keeps nothing on disk. *)
Nothing ==
  [role |-> FALSE, queues |-> {}, fn |-> [a \in Apps |-> NoFunction],
   mapping |-> "none", apis |-> {}, wired |-> [i \in ApiIds |-> {}],
   served |-> [i \in ApiIds |-> {}], allowed |-> {}]

Init ==
  /\ pc = "idle" /\ at = 1
  /\ api = None /\ listed = {}
  /\ outcome = "none" /\ clean = TRUE /\ faults = 0
  /\ aws = Nothing
  /\ dotenv = Populated
  /\ webEnv = None /\ workerEnv = FALSE

-----------------------------------------------------------------------------
(* How a step of main() ends. *)

Go(op, k) == pc' = op /\ at' = k /\ UNCHANGED outcome

(* process.exit, at the end of main or in its catch. *)
Exit(how) ==
  /\ pc' = "idle" /\ at' = 1
  /\ outcome' = how
  /\ api' = None /\ listed' = {}

Fine == UNCHANGED <<clean, faults>>

Fault ==
  /\ faults < MaxFaults
  /\ faults' = faults + 1
  /\ clean' = FALSE

(* A call without which there is no going on.  When it fails, for good or  *)
(* after the retries of the SDK, it may have had its effect all the same.  *)
Must(after, op, k) ==
  \/ aws' = after /\ Go(op, k) /\ Fine /\ UNCHANGED run
  \/ aws' \in {aws, after} /\ Exit("failed") /\ Fault

(* A call whose failure is caught and forgotten, with or without effect. *)
Try(after, op, k) ==
  /\ \/ aws' = after /\ Fine
     \/ aws' \in {aws, after} /\ Fault
  /\ Go(op, k)
  /\ UNCHANGED run

(* What is to be created exists, or what is looked up does not. *)
Refused == Exit("failed") /\ Fine /\ UNCHANGED aws

-----------------------------------------------------------------------------
(* The developer may have changed .env since the last run. *)
Start ==
  /\ pc = "idle"
  /\ pc' = "getRole" /\ UNCHANGED at
  /\ outcome' = "none"
  /\ \/ dotenv' = Populated /\ clean' = TRUE /\ UNCHANGED faults
     \/ dotenv' \in DotEnvs /\ Fault
  /\ aws' = [aws EXCEPT !.fn = [a \in Apps |->
               IF @[a].code = "new" THEN [@[a] EXCEPT !.code = "old"] ELSE @[a]]]
  /\ UNCHANGED <<run, webEnv, workerEnv>>

(* ensureRole: whatever goes wrong with the look-up, the role is created. *)
GetRole ==
  /\ pc = "getRole"
  /\ \/ Go(IF aws.role THEN "createDlq" ELSE "createRole", 1) /\ Fine
     \/ Go("createRole", 1) /\ Fault
  /\ UNCHANGED <<aws, run, files>>

CreateRole ==
  /\ pc = "createRole"
  /\ IF aws.role THEN Refused ELSE Must([aws EXCEPT !.role = TRUE], "createDlq", 1)
  /\ UNCHANGED files

(* ensureQueues: creation is tried, the queue must be there. *)
CreateQueue(op, q, next) ==
  /\ pc = op
  /\ Try([aws EXCEPT !.queues = @ \union {q}], next, 1)
  /\ UNCHANGED files

GetQueue(op, q, next) ==
  /\ pc = op
  /\ IF q \in aws.queues THEN Must(aws, next, 1) ELSE Refused
  /\ UNCHANGED files

CreateDlq == CreateQueue("createDlq", "dlq", "getDlq")
GetDlq == GetQueue("getDlq", "dlq", "createMain")
CreateMain == CreateQueue("createMain", "main", "getMain")

(* The purge that follows is tried: what it drops is not kept here. *)
GetMain == GetQueue("getMain", "main", "deleteFunction")

-----------------------------------------------------------------------------
(* deployLambda, for each app. *)

(* envForApp comes first: it replaces the host in both URLs, which throws  *)
(* when one is not set.  With a function goes its policy.                  *)
DeleteFunction ==
  /\ pc = "deleteFunction"
  /\ LET a == APPS[at]
     IN  IF a # Worker /\ \E u \in Urls : dotenv[u] = "unset"
         THEN Refused
         ELSE Try([aws EXCEPT !.fn[a] = NoFunction,
                              !.allowed = {p \in @ : p[1][1] # a}], "build", at)
  /\ UNCHANGED files

(* pnpm deploy, and the archive of its directory and of the bundle. *)
Build ==
  /\ pc = "build"
  /\ Must(aws, "createFunction", at)
  /\ UNCHANGED files

(* Mutant of CreateFunction: its failure is caught too. *)
CreateFunctionTried ==
  /\ pc = "createFunction"
  /\ LET a == APPS[at]
     IN  IF aws.fn[a] # NoFunction
         THEN Try(aws, "getFunction", at)
         ELSE Must([aws EXCEPT !.fn[a] = [code |-> "new", env |-> EnvForApp(a, dotenv)]],
                   "getFunction", at)
  /\ UNCHANGED files

CreateFunction ==
  /\ pc = "createFunction"
  /\ LET a == APPS[at]
     IN  IF aws.fn[a] # NoFunction
         THEN Refused
         ELSE Must([aws EXCEPT !.fn[a] = [code |-> "new", env |-> EnvForApp(a, dotenv)]],
                   "getFunction", at)
  /\ UNCHANGED files

GetFunction ==
  /\ pc = "getFunction"
  /\ IF at < Len(APPS) THEN Must(aws, "deleteFunction", at + 1)
                      ELSE Must(aws, "deleteMapping", 1)
  /\ UNCHANGED files

-----------------------------------------------------------------------------
(* ensureEventSourceMapping, for the worker.  A queue is mapped to a       *)
(* function once; a mapping outlives the function it names.                *)

(* Mutant of DeleteMapping: what is there is left there. *)
DeleteMappingNever ==
  /\ pc = "deleteMapping"
  /\ Must(aws, "createMapping", 1)
  /\ UNCHANGED files

(* The list must be had, the deletion is tried. *)
DeleteMapping ==
  /\ pc = "deleteMapping"
  /\ \/ Try([aws EXCEPT !.mapping = "none"], "createMapping", 1)
     \/ Exit("failed") /\ Fault /\ UNCHANGED aws
  /\ UNCHANGED files

CreateMapping ==
  /\ pc = "createMapping"
  /\ IF aws.mapping # "none"
     THEN Refused
     ELSE Must([aws EXCEPT !.mapping = "main"], "listApis", 1)
  /\ UNCHANGED files

-----------------------------------------------------------------------------
(* ensureFreshRestApi. *)

(* Mutant of ListApis: the first of them stands for all. *)
ListApisFirst ==
  /\ pc = "listApis"
  /\ \/ /\ IF aws.apis = {} THEN listed' = {} ELSE \E i \in aws.apis : listed' = {i}
        /\ Go("deleteApi", 1) /\ Fine /\ UNCHANGED api
     \/ Exit("failed") /\ Fault
  /\ UNCHANGED <<aws, files>>

(* GetRestApis is asked for one page, which has room for 25 gateways: that *)
(* there are fewer is assumed here.                                        *)
ListApis ==
  /\ pc = "listApis"
  /\ \/ listed' = aws.apis /\ Go("deleteApi", 1) /\ Fine /\ UNCHANGED api
     \/ Exit("failed") /\ Fault
  /\ UNCHANGED <<aws, files>>

WithoutApi(i) ==
  [aws EXCEPT !.apis = @ \ {i}, !.wired[i] = {}, !.served[i] = {}]

DeleteApi ==
  /\ pc = "deleteApi"
  /\ \/ \E i \in listed :
          \/ /\ aws' = WithoutApi(i)
             /\ listed' = listed \ {i}
             /\ Go("deleteApi", 1) /\ Fine /\ UNCHANGED api
          \/ aws' \in {aws, WithoutApi(i)} /\ Exit("failed") /\ Fault
     \/ listed = {} /\ Go("createApi", 1) /\ Fine /\ UNCHANGED <<aws, run>>
  /\ UNCHANGED files

(* Ids are not used twice; one nobody knows any more may stand for a new.  *)
Fresh == ApiIds \ (aws.apis \union {webEnv})

(* Names are not unique: a lost answer that the SDK retries leaves a twin. *)
Created == {{i} : i \in Fresh} \union {{i, j} : i, j \in Fresh}

CreateApi ==
  /\ pc = "createApi"
  /\ \E new \in Created :
       /\ aws' = [aws EXCEPT !.apis = @ \union new]
       /\ \E i \in new :
            \/ /\ api' = i /\ UNCHANGED listed
               /\ Go("wire", 1)
               /\ IF new = {i} THEN Fine ELSE Fault
            \/ Exit("failed") /\ Fault
  /\ UNCHANGED files

-----------------------------------------------------------------------------
(* wireRootAndProxy and wireMethod, for each app with a prefix. *)

(* The resource, its method and its integration: only with the last does   *)
(* the route work.                                                         *)
Wire ==
  /\ pc = "wire"
  /\ Must([aws EXCEPT !.wired[api] = @ \union {WIRING[at]}], "allow", at)
  /\ UNCHANGED files

(* Mutant of Allow: the last app is taken for a worker. *)
AllowOffByOne ==
  /\ pc = "allow"
  /\ LET after == [aws EXCEPT !.allowed = @ \union {<<WIRING[at], api>>}]
     IN  IF at < Len(WIRING) - 1 THEN Try(after, "wire", at + 1)
                                ELSE Try(after, "deploy", 1)
  /\ UNCHANGED files

Allow ==
  /\ pc = "allow"
  /\ LET after == [aws EXCEPT !.allowed = @ \union {<<WIRING[at], api>>}]
     IN  IF at < Len(WIRING) THEN Try(after, "wire", at + 1)
                            ELSE Try(after, "deploy", 1)
  /\ UNCHANGED files

(* A stage serves what the gateway had when it was deployed. *)
Deploy ==
  /\ pc = "deploy"
  /\ Must([aws EXCEPT !.served[api] = aws.wired[api]], "writeWebEnv", 1)
  /\ UNCHANGED files

WriteWebEnv ==
  /\ pc = "writeWebEnv"
  /\ \/ webEnv' = api /\ Go("writeWorkerEnv", 1) /\ Fine /\ UNCHANGED run
     \/ UNCHANGED webEnv /\ Exit("failed") /\ Fault
  /\ UNCHANGED <<aws, dotenv, workerEnv>>

WriteWorkerEnv ==
  /\ pc = "writeWorkerEnv"
  /\ \/ workerEnv' = TRUE /\ Exit("complete") /\ Fine
     \/ UNCHANGED workerEnv /\ Exit("failed") /\ Fault
  /\ UNCHANGED <<aws, dotenv, webEnv>>

-----------------------------------------------------------------------------
Kill ==
  /\ pc # "idle"
  /\ Exit("failed") /\ Fault
  /\ UNCHANGED <<aws, files>>

(* The container goes, and with it all it held; the files stay. *)
Restart ==
  /\ pc = "idle"
  /\ aws' = Nothing
  /\ outcome' = "none"
  /\ UNCHANGED <<pc, at, run, clean, faults, files>>

Provision == GetRole \/ CreateRole \/ CreateDlq \/ GetDlq \/ CreateMain \/ GetMain
Functions == DeleteFunction \/ Build \/ CreateFunction \/ GetFunction
Mapping == DeleteMapping \/ CreateMapping
Gateway == ListApis \/ DeleteApi \/ CreateApi \/ Wire \/ Allow \/ Deploy
Files == WriteWebEnv \/ WriteWorkerEnv

Main == Provision \/ Functions \/ Mapping \/ Gateway \/ Files

Next == Start \/ Main \/ Kill \/ Restart

(* A run goes on by itself, and a developer runs the script until it is    *)
(* through.                                                                *)
Spec == Init /\ [][Next]_vars /\ WF_vars(Main) /\ WF_vars(Start)

-----------------------------------------------------------------------------
(* The first request of a function runs its module: loadConfig, and what   *)
(* is built from it.  No connection is opened yet; the worker needs none.  *)

AuthConfig == Shared \union {"EMAIL_QUEUE_URL"}
ProductsConfig == Shared

(* It throws without a queue to send to. *)
BuildAuthModule(env) == "EMAIL_QUEUE_URL" \in env

BuildAuthApp(env) == AuthConfig \subseteq env /\ BuildAuthModule(env)
BuildProductsApp(env) == ProductsConfig \subseteq env

Starts(a) ==
  /\ aws.fn[a].code # "none"
  /\ a = "auth-api" => BuildAuthApp(aws.fn[a].env)
  /\ a = "products-api" => BuildProductsApp(aws.fn[a].env)

-----------------------------------------------------------------------------
IsBuilt(a) == aws.fn[a] = [code |-> "new", env |-> EnvForApp(a, dotenv)]

AppsDone == \A a \in Apps : IsBuilt(a)

(* A run that reports "Deploy complete" has replaced every function by the *)
(* new build, the queue auth-api sends to is the one the worker is         *)
(* triggered by, and the gateway the web client is told of exists and      *)
(* serves every route, whatever was swallowed on the way.                  *)
CompleteIsDeployed ==
  outcome = "complete" =>
    /\ aws.role /\ aws.queues = {"main", "dlq"}
    /\ AppsDone
    /\ "EMAIL_QUEUE_URL" \in aws.fn["auth-api"].env /\ aws.mapping = "main"
    /\ webEnv \in aws.apis
    /\ aws.served[webEnv] = Routes
    /\ workerEnv

(* What main() is meant to leave, but for the id of the gateway.           *)
Deployed(i) ==
  [role |-> TRUE, queues |-> {"main", "dlq"},
   fn |-> [a \in Apps |-> [code |-> "new", env |-> EnvForApp(a, Populated)]],
   mapping |-> "main", apis |-> {i},
   wired |-> [j \in ApiIds |-> IF j = i THEN Routes ELSE {}],
   served |-> [j \in ApiIds |-> IF j = i THEN Routes ELSE {}],
   allowed |-> Routes \X {i}]

(* "Keep deploys idempotent" (:305): a run without a fault leaves the same *)
(* deployment wherever earlier runs have stopped, and nothing of theirs    *)
(* besides it: no second gateway, no stage of one, no permission for one,  *)
(* no function with the variables of an older .env.                        *)
CleanRunConverges ==
  outcome = "complete" /\ clean => aws = Deployed(webEnv) /\ workerEnv

(* After a run without a fault, with a .env that is populated as the       *)
(* script's header asks (:12), every function finds in its environment     *)
(* what its loadConfig insists on, whatever the functions of earlier runs  *)
(* were given.                                                             *)
EveryFunctionStarts ==
  outcome = "complete" /\ clean => \A a \in Apps : Starts(a)

(* A run during which nothing goes wrong gets to its end: however the runs *)
(* before it have failed, nothing they left is in its way ("keep deploys   *)
(* idempotent", :305).                                                     *)
CleanRunCompletes ==
  [][pc' = "idle" /\ pc # "idle" /\ clean' => outcome' = "complete"]_vars

(* The web client is only ever pointed at a gateway that is deployed, with *)
(* every route in place and every function behind it built by this run.    *)
WebEnvIsServed ==
  [][webEnv' # webEnv =>
       /\ webEnv' \in aws.apis
       /\ aws.served[webEnv'] = Routes
       /\ AppsDone]_vars

(* Faults being finite, running the script again always ends in a          *)
(* deployment that is complete, with functions that start.                 *)
Redeployed == []<>(outcome = "complete" /\ \A a \in Apps : Starts(a))

-----------------------------------------------------------------------------
(* The steps of main, by what is done when one of them is reached. *)
Closing == {"writeWebEnv", "writeWorkerEnv"}
Wiring == {"wire", "allow"}
AfterApi == Wiring \union {"deploy"} \union Closing
AfterMapping == {"listApis", "deleteApi", "createApi"} \union AfterApi
AfterFunctions == {"deleteMapping", "createMapping"} \union AfterMapping
InFunctions == {"deleteFunction", "build", "createFunction", "getFunction"}
AfterQueues == InFunctions \union AfterFunctions
AfterDlq == {"createMain", "getMain"} \union AfterQueues
AfterRole == {"createDlq", "getDlq"} \union AfterDlq

Steps == {"idle", "getRole", "createRole"} \union AfterRole

(* Of the apps, of the routes, or no loop. *)
Positions(op) ==
  {k \in 1 .. 4 : /\ op \in InFunctions => k <= 3
                  /\ op \notin InFunctions \union Wiring => k = 1}

Queues == {"main", "dlq"}
FunctionState == [code : {"none", "old", "new"}, env : SUBSET (Shared \union {"EMAIL_QUEUE_URL"})]
Aws ==
  [role : BOOLEAN, queues : SUBSET Queues, fn : [Apps -> FunctionState],
   mapping : {"none", "main"}, apis : SUBSET ApiIds,
   wired : [ApiIds -> SUBSET Routes], served : [ApiIds -> SUBSET Routes],
   allowed : SUBSET (Routes \X ApiIds)]

(* The types of the variables of the script and of what LocalStack holds.  *)
TypeOK ==
  /\ pc \in Steps
  /\ at \in Positions(pc)
  /\ api \in ApiIds \union {None} /\ listed \in SUBSET ApiIds
  /\ outcome \in {"none", "complete", "failed"}
  /\ clean \in BOOLEAN /\ faults \in 0 .. MaxFaults
  /\ aws \in Aws
  /\ dotenv \in DotEnv
  /\ webEnv \in ApiIds \union {None} /\ workerEnv \in BOOLEAN

OutcomeIsFinal == pc # "idle" => outcome = "none"

Configured == clean => dotenv = Populated

Provisioned ==
  /\ pc \in AfterRole => aws.role
  /\ pc \in AfterDlq => "dlq" \in aws.queues
  /\ pc \in AfterQueues => "main" \in aws.queues

(* The functions of the loops before this one are built. *)
FunctionsBuilt ==
  /\ pc \in InFunctions => \A j \in 1 .. 3 : j < at => IsBuilt(APPS[j])
  /\ pc = "getFunction" => IsBuilt(APPS[at])
  /\ pc \in AfterFunctions => AppsDone

Mapped == pc \in AfterMapping => aws.mapping = "main"

(* In a run without a fault nothing stands in the way of what is created.  *)
NothingInTheWay ==
  clean =>
    /\ pc = "createRole" => ~aws.role
    /\ pc = "getDlq" => "dlq" \in aws.queues
    /\ pc = "getMain" => "main" \in aws.queues
    /\ pc = "build" \/ pc = "createFunction" => aws.fn[APPS[at]] = NoFunction
    /\ pc = "createMapping" => aws.mapping = "none"

(* The gateways of before are gone when this run's is created. *)
GatewayIsNew ==
  /\ pc = "deleteApi" => aws.apis = listed
  /\ pc = "createApi" => aws.apis = {}
  /\ pc \in AfterApi => api \in aws.apis /\ (clean => aws.apis = {api})

(* The routes of the loops before this one work, and may call. *)
RoutesWired ==
  /\ pc \in Wiring => \A j \in 1 .. 4 : j < at =>
       /\ WIRING[j] \in aws.wired[api]
       /\ clean => <<WIRING[j], api>> \in aws.allowed
  /\ pc = "allow" => WIRING[at] \in aws.wired[api]
  /\ pc \in {"deploy"} \union Closing =>
       /\ aws.wired[api] = Routes
       /\ clean => \A r \in Routes : <<r, api>> \in aws.allowed
  /\ pc \in Closing => aws.served[api] = Routes
  /\ pc = "writeWorkerEnv" => webEnv = api

(* What each step of main finds done: strong enough to be kept by every    *)
(* step, a fault or a kill at any of them included.                        *)
IInv ==
  /\ TypeOK
  /\ OutcomeIsFinal
  /\ Configured
  /\ Provisioned
  /\ FunctionsBuilt
  /\ Mapped
  /\ NothingInTheWay
  /\ GatewayIsNew
  /\ RoutesWired
  /\ CompleteIsDeployed

-----------------------------------------------------------------------------
(* What a run without a fault has removed when it gets to its end.         *)

(* A gateway that is gone serves nothing. *)
NoStaleRoutes ==
  \A i \in ApiIds \ aws.apis : aws.wired[i] = {} /\ aws.served[i] = {}

(* The permissions that are left of earlier runs are those of functions    *)
(* this run has yet to delete; the others are for its own gateway.         *)
PermissionsAreNew ==
  clean =>
    /\ pc \in InFunctions =>
         \A j \in 1 .. 3 : j < at \/ (j = at /\ pc # "deleteFunction") =>
           \A p \in aws.allowed : p[1][1] # APPS[j]
    /\ pc \in AfterFunctions \ AfterApi => aws.allowed = {}
    /\ pc \in AfterApi => aws.allowed \subseteq Routes \X {api}
=============================================================================
