# Lambder in TLA+

This directory models the parts of Lambder whose correctness depends on the
order in which things happen: the session core of `packages/auth`, signup, the
welcome-email queue with its worker, the writes and the lists of
`packages/products`, the session handling of the web client, and the script
that deploys it all. TLC checks the models on small instances; TLAPS proves
their safety properties for every number of users, requests, messages, products,
tabs and faults, that five of them implement an abstract specification, and the
half of their liveness that safety can express.

Paths below are relative to the repository (`src/` here is the repository root).

## 1. The system

Lambder is a monorepo of three Lambdas (`auth-api`, `products-api`,
`email-worker`), a React client (`apps/web`) and the packages they share.
Postgres holds users and products, Redis holds the token whitelist, SQS (with a
DLQ) carries welcome-email jobs. `scripts/deploy-localstack.ts` creates it all.

| Component | State | Operations | Talks to |
|---|---|---|---|
| Session core: `auth.service.ts`, `redis-token.store.ts`, `jose-jwt.service.ts`, `jwt-auth.ts`, the auth routes, `error-mapper.ts` | `jwt:wl:<user>:<jti>` keys with a ttl, in Redis; the `exp` claims of the signed tokens | login, refresh (lookup, DEL, new pair, or revokeAll), logout behind the guard | Redis, one command per await; clients |
| Signup: `auth.service.ts`, `user.drizzle-repository.ts`, `auth.schema.ts`, `argon2.hasher.ts` | the `users` table with a unique index on `lower(email)` | find, hash, insert, enqueue | Postgres; SQS through `sqs-email.enqueuer.ts` |
| Email queue and worker: `email-worker/src`, `packages/email` | the SQS queue, its DLQ, batches in flight | parse, send, report failures of a batch | the event source mapping; the provider |
| Deployment script: `deploy-localstack.ts` | role, queues, functions, event source mapping, gateways, two `.env.local` files | look up, delete and create each of them, in one long sequence of calls | LocalStack; the web client reads one of the files |
| Products: `packages/products`, `products-api` | the `products` table | create, update, delete with an ownership check, keyset pages, prices | Postgres; the guard reads the same Redis |
| Web client: `api-client.ts`, `storage.ts`, `use-auth.tsx` | token pair in localStorage (shared by tabs), `refreshInflight` (per tab), React state | login, signup, logout, refresh on 401 and retry | auth-api, products-api |
| Products page: `use-products.ts`, `products-list.tsx`, `product-create-form.tsx` | the query cache (first page of products), two mutations | fetch, create, delete, invalidate | products-api through the web client |
| Observability, db and cache clients, contracts, shared kernel, layout | none the others depend on | | |

A request is one HTTP call handled by one Lambda invocation. Invocations run in
parallel and share only Postgres, Redis and SQS, so every interleaving happens
at an `await`. There is no transaction anywhere: each statement and each Redis
command stands alone, and a pipeline is not a `MULTI`.

What makes the components correct, and what is hard about each:

* **Session core.** A token counts iff it verifies and its key is in Redis. A
  deleted key must stay deleted although other requests are between signing and
  writing; a mass revoke must reach what was live and touch nobody else; a pair
  that was delivered must work until it expires; a refresh must not use up or
  revoke what it should not. Hard: GET then DEL, SCAN then DEL, SETEX after sign,
  errors inside a pipeline, ttl boundaries, an invocation cut off at any await.
* **Signup.** One account per normalized email, one 201 per account, no job
  without a user, 201 even if SQS is down. Hard: find then insert, the
  gap between insert and enqueue, retries of `SendMessage`.
* **Email queue.** No message is forgotten before its email is sent, none is in
  two batches, duplicates come only from killed invocations, each message ends.
  Hard: partial batch responses, timeouts that must fit together, poison bodies.
* **Products.** Only the owner changes a product; pages neither repeat nor skip
  a product that was there throughout. Hard: check then act, keyset under writes.
  The page of the web client shows what was created and deleted on it, and a price
  is not changed by being stored. Hard: an answer from before a change that comes
  after it; padding and the 32-bit column.
* **Web client.** Storage and React state agree; one refresh serves all calls that
  need it; a used refresh token is not sent again; no call is forgotten. Hard:
  logout, login or reload during a refresh, a lost answer, two tabs with one token.
* **Deployment script.** "Deploy complete" is true, and a run that failed anywhere
  is repaired by running the script again. Hard: every call may fail with or
  without its effect, some failures are swallowed, the run may be killed.

The hazards, each at its line, are listed in `PROJECT.json`.

## 2. The modules

| Module | What it is |
|---|---|
| `TokenLifecycle` | the abstract promise of the token store: fresh, live, dead, in that order; handed out only once live |
| `AuthSessions` | the session core, one action per await |
| `AuthSessionsProofs` | theorems about `AuthSessions`, among them that it implements `TokenLifecycle` |
| `Signup` | `AuthService.signup` |
| `Accounts` | the abstract promise of signup: one account per email, true answers, a welcome message tried for |
| `SignupProofs` | theorems about `Signup`, among them that it implements `Accounts` |
| `EmailQueue` | SQS, the event source mapping and the worker's handler |
| `WelcomeDelivery` | the abstract promise for each message: tried, forgotten once its email is sent, else given back, parked after the last try |
| `EmailQueueProofs` | theorems about `EmailQueue`, among them that it implements `WelcomeDelivery` |
| `Products` | creating, patching and deleting products behind the guard |
| `ProductTable` | the abstract promise of the products table: one statement at a time, owners stay, deleted rows do not return |
| `ProductsProofs` | theorems about `Products`, among them that it implements `ProductTable` |
| `ProductLists` | reading products while they are written: keyset pages, the query of the products page, prices |
| `ProductListsProofs` | theorems about `ProductLists` |
| `WebClient` | interceptors, token storage and React state, in several tabs |
| `BrowserSession` | the abstract promise of the web client: whose session the browser has, and whom each tab shows |
| `WebClientProofs` | theorems about `WebClient`, among them that it implements `BrowserSession` |
| `Deploy` | the deployment script, run after run |
| `DeployProofs` | theorems about `Deploy` |
| `MC_*` | symmetry sets and constant values for TLC |

Definitions named "Mutant of ..." in a comment are not part of a specification:
each is a plausible bug in one definition, kept to show that a property would
notice it (`PROJECT.json`, `mutants`).

### AuthSessions

`pc[r]` is the await request `r` is at, or its answer. A request is one of
login, refresh and logout. `Jti` is a pair of request and kind, since a request
signs at most one token of each kind and `randomUUID()` does not repeat.

| Code | Action |
|---|---|
| `login`, `issueTokenPair` (`auth.service.ts:62-115`) | `Login`, `LoginRefused`, `SignAccess`, `SignRefresh`, `SetAccess`, `SetRefresh`, `Reply` |
| `refresh` (`:76-93`) | `Refresh` / `TokenRefused` (verify), `RefreshCheck` (GET), `RefreshRevoke` (DEL), then the actions of `issueTokenPair` |
| `revokeAll` (`redis-token.store.ts:22-29`) | `ScanStart`, `ScanEnd`, `PipelineDel`, `PipelineDone` |
| `POST /auth/logout`, `jwtAuth` | `Logout` (verify), `GuardCheck`, `LogoutRevoke` |
| a Redis or database error, Lambda's timeout, a lost reply | `Abort` |

`SCAN` is modelled by its documented guarantee: it returns what is there from
its first call to its last, and may or may not return what comes or goes in
between. The pipeline's `DEL`s run one by one among other requests' commands;
`exec()` of ioredis resolves even if single commands failed, so `PipelineDone`
may leave keys in `batch[r]`. A key whose ttl is over is absent
(`Whitelisted`). `doomed` (the live keys when a scan began) and `revokedBy` are
history: no guard reads them.

Requests present tokens of pairs that were delivered. A token that no client
received (its request was aborted after the SETEX) is never presented, a token
that does not verify is `TokenRefused`, and passwords are abstracted to "login
succeeds for some user" or `LoginRefused`.

### Signup

`Start`, `FindByEmail`, `Hash`, `Create` / `CreateRefused`, `Enqueue` /
`EnqueueFails`, `Reply` are the awaits of `auth.service.ts:45-60`. Emails are
what clients type (`Spellings`) and what `toLowerCase().trim()` makes of it
(`Normalized`, an arbitrary function). The unique index makes `Create` atomic
and `CreateRefused` its error, which nobody catches. `EnqueueFails` is a
`SendMessage` that is not acknowledged; SQS may have taken it all the same, and
the SQS client tries `MaxAttempts` times. `Abort` is a failing database or a cut-off
invocation at any await (a row that was inserted although the insert reported
an error is `Create` followed by `Abort`).

`Accounts` is what is left when lookups, hashes and single awaits are out of
sight: a request asks, may open an account, may queue messages while it is under
way, and is told an answer that `Told` permits. `Signup` implements it
(`ImplementsAccounts`): `Start`, `Create`, each `SendMessage` and each answer are
steps of `Accounts`, a lookup that finds nothing and the hash are stutters.

### EmailQueue

SQS and the event source mapping are external and follow the configuration of
`deploy-localstack.ts`: `Receive` starts the visibility timeout, `Redrive` is
the redrive policy, `Invoke` closes the batching window, `Consumed` is what the
mapping deletes after a normal return, which depends on
`FunctionResponseTypes`, and `Kill` an invocation that failed or ran out of
time. `Processed`, `Failed` and `Return` are the handler of
`email-worker/src/app.ts`: its loop, its `catch`, its response. The order of the
records within a batch is left open. `Tick` is one second for all timers:
`hidden` (visibility) and `budget` (window or Lambda timeout). `failed` and
`killed` are history.

`WelcomeDelivery` speaks of each message alone. A message is *held* while it is
in a batch, *waiting* while it is visible or merely hidden (`Place`), and its
email counts as sent in this try while the delivery remembers it as handled
(`EmailedNow`). `Return` is `Settle` of the whole batch, `Kill` is `CutOff`;
invocations, timers and failed records are stutters (`ImplementsDelivery`).

### Products

Each handler is a guard, then for a create the `INSERT`, for the others the
`SELECT` of the ownership check and the statement that writes; these are
separate awaits, and the statements name only the id in their `WHERE`.

| Code | Action |
|---|---|
| `jwtAuth` of `products-api` | `Start` (verify), `GuardCheck` (GET) |
| `ProductService.create` | `Insert` |
| `findById` and the early returns of `update` and `delete` | `Find` |
| `ProductDrizzleRepository.update` | `Update`, or `UpdateMissing` when the row has gone |
| `ProductDrizzleRepository.delete` | `Delete` |
| an error of Postgres or Redis, the timeout | `Abort`; a statement that took effect although its reply was lost is the answer `INTERNAL` of `Insert`, `Update` and `Delete` |
| a logout or mass revoke in `auth-api` | `Revoke` |

A product's id is the request that creates it (`gen_random_uuid()` does not
repeat). A row keeps its owner and, for each field, which request wrote it: that
is all the properties need of names, descriptions and prices. Calls refused
before their first await (no token, a body that does not parse) change nothing
and are left out, and so is `updatedAt`, which the last statement sets.

`ProductTable` is what readers may rely on, and the interface to `ProductLists`:
there, everybody else's writes are the steps of `ProductTable`, which `Products`
is shown to implement (`ImplementsTable`).

### ProductLists

Two readers, one per behaviour (`reader`), since they share only the table. The
walk (`BeginWalk`, `NextPage`) is a client of `GET /products` that follows
`nextCursor`: `Page` is the `SELECT` of `limit + 1` rows behind the cursor, and
any number of writes may fall between two pages. The page is the products page
of the web client:

| Code | Action |
|---|---|
| `useProducts`, `retry: 1` | `Mount`, `ServeList`, `ReceiveList`, `LoseList` |
| `ProductCreateForm`, `useCreateProduct` | `Submit`, `CreateRow` (INSERT, answered or not), `CreateFails`, `Created` |
| the delete button, `useDeleteProduct` | `Click`, `DeleteRow`, `DeleteNoRow` (another client's DELETE came between `findById` and this one: 204 all the same), `DeleteFails`, `Deleted` |
| `invalidateQueries` | `Invalidate`: TanStack Query drops the fetch under way and sends another, but joins it while there is no data yet (`FirstLoad`) |
| `decimalToCents`, `centsToDecimal` | the functions of that name, on a price as whole dollars and a sequence of digits |

TanStack Query is external and modelled by what the code relies on: one fetch
per query, a retry, and a mutation that stays pending until the promise its
`onSuccess` returned has settled. `typed`, `created`, `deleted` and `steady` are
history. Updates have no button; other clients update and delete as they like.

### WebClient

A tab runs one task at a time, so an action is what runs between two awaits: it
sends a request, or receives an answer and does all that follows from it.

| Code | Action |
|---|---|
| request interceptor (`api-client.ts:13-17`) | `Attach`: the stored access token, whosever it is |
| the forms, the sign-out button | `LogIn`, `SignUp`, `SignOut`, `Products` |
| `login`, `signup`, `logout` of `use-auth.tsx` | `LoginDone`, `SignupDone`, `LogoutDone`, and `SignedOut` when a logout ends any way |
| response interceptor (`:44-63`) | `ReceiveError`, `ReceiveRefusal`, `ReceiveSignedOut`, `JoinRefresh`, `StartRefresh` |
| `refreshAccessToken` (`:27-42`) | `StartRefresh`, then `RefreshOk` or `RefreshFailed`, which settle every call that waits |
| `loadInitialUser` on a page load | `Reload`: the promises are gone, a refresh on the wire is not (`orphans`) |
| `AuthService.refresh` | `ServeRefresh`, `ServeOrphan`: one step each, since `AuthSessions` has the inside; the answer may be lost after the exchange |

A pair of tokens is a number, and `owner` says whose it is. An access token is
refused once it has expired or was revoked, which the model lets happen at any
use (`Refuse`). Access and refresh token are stored and cleared together, in one
task. `rotated`, `abandoned` and `straggler` are history: the pairs the API has
exchanged; that a page went in the middle of refreshing the stored pair; that a
refresh stored its answer over something newer.

`BrowserSession` knows no tokens: whose session the browser has (`StoredUser`,
the owner of the stored pair), whom each tab shows (`user`), whose session it is
renewing (`Renewing`, the owner of the pair its refresh has sent). That a login
during a refresh may be overwritten by it is allowed there, since the code does
it; that a renewal brings back anybody but the user it began with is not
(`ImplementsSession`).

### Deploy

`pc` is the call of `main()` the run is at, `at` its turn of the loop over apps
or routes. `Must` is a call without a `catch`: it may fail, with or without its
effect, and ends the run. `Try` is a call with one: with or without its effect, the
run goes on. Creating what exists is
`Refused`, as is looking up what does not exist. `Start`, `Kill` and `Restart`
(LocalStack comes up empty: it mounts no data volume) happen between runs or at
any call. `fn[a].code` tells this run's build from an older one; `wired`,
`served` and `allowed` are what a gateway has, what its stage serves and what it
may invoke. `PutMethod`, `PutIntegration` and `CreateResource` are one action
(`Wire`), since only with the last of them does the route work and nothing reads
it before. `clean` (nothing has gone wrong in this run) is history.
`dotenv` is what `.env` holds of the four variables that `envForApp` passes on:
each is good, bad (empty, as the keys in `.env.example` are, or no URL), or
unset. A missing URL makes `envForApp` throw; a missing or bad key is passed on
unchecked. A run with such a `.env` is not `clean`, and counts as one with a
fault. `fn[a].env` is what the function was created with, and `Starts(a)` what
its `loadConfig`, `buildAuthApp` and `buildProductsApp` make of it at the first
request.
`Deployed(i)` is what LocalStack is meant to hold at the end, with the id of the
gateway as its only unknown: `CleanRunConverges` compares all of `aws` with it.

## 3. The runs

| Run | Instance | States | Shows |
|---|---|---|---|
| `sessions_interleaving` | 4 requests, 2 users, no clock | 95 399 (symmetry) | `RevokedStaysRevoked`, `RevocationIsScoped`, `ReuseRevokesDoomed`, `OnlyReuseEndsSessions` |
| `sessions_expiry` | 3 requests, 1 user, ttls 1 and 2, clock to 3 | 1.35 M (symmetry) | `IInv`, `DeliveredLiveUntilRevoked`, `ReuseVerdictJustified` |
| `sessions_lifecycle` | 3 requests, 1 user, ttls 1, clock to 1, fairness | 103 915 | `ImplementsLifecycle`, `EveryRequestAnswered` |
| `email_delivery` | 2 messages (1 poison), 2 deliveries of 2, window 1, worker 1, visibility 3, 3 receives, fairness | 53 916 | `IInv`, `NoOverlap`, `NoLoss`, `DuplicateOnlyAfterKill`, `ImplementsDelivery`, `EveryMessageSettles` |
| `products_writes` | 4 requests, 2 users, 2 fields | 851 460 (symmetry) | `IInv`, `OnlyOwnerChanges`, `NoResurrection`, `NoLostPatch`, `ImplementsTable` |
| `product_lists` | 3 products, pages of 1 (walk) and 2 (web page), prices 0.5 and 1.01, largest price 1.00 | 1.54 M | `IInv`, `WalkIsExact`, `PageShowsOwnWrites`, `PricesAreKept` |
| `signup_race` | 3 requests, 3 spellings of 2 emails, 2 attempts, fairness | 35 613 | `IInv`, `OneAccountPerEmail`, `ImplementsAccounts`, `SomebodyWins` |
| `web_client` | 2 tabs, 2 users, 2 calls, 2 pairs | 459 318 (symmetry) | `IInv`, `UsedPairIsReplaced`, `TokensAreShown`, `ImplementsSession`, `SentOnce` |
| `deploy` | 4 gateway ids, 3 faults, 3 incomplete `.env`, fairness | 282 079 | `IInv`, `CompleteIsDeployed`, `EveryFunctionStarts`, `CleanRunConverges`, `CleanRunCompletes`, `WebEnvIsServed`, `Redeployed` |

Three more runs confront a statement of the repository with the code and are
violated, see section 4: `sessions_rotate_once`, `email_as_deployed`,
`web_sign_out`.

A part of an inductive invariant is checked wherever `IInv` is and needs no line
of its own: `JobsHaveUsers`, `AnswersAreTrue` and `SqsDownStillCreated` in
`signup_race`, what `DlqAfterFailures` follows from in `email_delivery`,
`NobodyForgotten` in `web_client`.

Bounds. A bad interleaving of the session core needs a login, and two requests
that use its token or revoke it while it is used: three requests; the fourth
lets a second user, or a login during a mass revoke, take part. The clock runs
past both ttls, so every token expires before, between and after the steps of a
request. Two ttls that differ matter only to expiry, so the runs about
interleaving use equal ones. In the queue, two deliveries and a batch of two with a bad
message give every mix of success, failure and kill, and three receives reach
the DLQ through two retries; the visibility timeout of 3 is the least that `TimeAssumption` allows
(window 1, worker 1); the deployment has 30 s against 2 s and 10 s. In signup, three
requests with two spellings of one email give races of two and a bystander. Two
attempts give every pattern of taken and acknowledged messages up to the cap.
A product needs one request to create it; the other three are patches of the same
or of different fields and deletes, by its owner and by a stranger, in any order.
Three products and pages of one give a walk two boundaries, with rows before,
at and behind each of them coming and going; a web page of two can be full. One
of the prices has a fraction of one digit, one is larger than what is stored.
In the web client two calls make the second 401, the logout and the login that
meet a refresh, two tabs the second refresh, and two pairs a rotation or two
logins; the proofs cover any number. Four gateway ids let a lost answer leave a
twin twice, and three faults a failing run, a second one and a swallowed failure
in the third; the three `.env` lack the keys, a URL, and a good URL.
`CHECK_DEADLOCK FALSE` is in every cfg but that of `deploy`: requests are finite,
and when all are answered the system stops. The script can always be run again.

Fairness. `WF(Continue(r))`: Lambda runs an invocation to its end. It is one
condition for all awaits of an invocation, and `Abort`, `Tick` and the arrival
of a request are not fair, so nothing rests on errors or on the clock. In
`EmailQueue` the poller polls, the mapping invokes, time passes and Lambda ends
an invocation whose time is over; the handler itself is not assumed to get
anywhere. In `Deploy` a run goes on by itself (`WF(Main)`) and the developer runs
the script again (`WF(Start)`); faults, kills and restarts are not fair, and
faults, kills and incomplete `.env` files are bounded: the developer sees to
them in the end.

## 4. What the code does otherwise

Each is the only property of its run; `PROJECT.json` quotes the statement.

1. `RotateAtMostOnce`: `refresh` checks with GET and then DELs without reading
   the reply, so two concurrent calls with one refresh token both get a pair.
2. `NoLoss` as deployed: the event source mapping is created without
   `FunctionResponseTypes`, so `batchItemFailures` are ignored and failed
   messages are deleted. With it, the same property passes (`email_delivery`).
3. `SignedOutStaysOut`: a logout that fails while a refresh is under way clears
   the storage, and the answer of the refresh then fills it again: the page shows
   nobody, the browser holds live tokens, and the next page load signs in.

Behaviours the models have and no run judges, each an exception named in the
property that comes closest to it:

* `revokeAll` misses the pair of a rotation that has deleted the old key and not
  yet written the new ones (`ReuseRevokesDoomed` speaks of keys that were live
  when the scan began), and errors of single `DEL`s are dropped (the same
  property excepts exactly the keys whose `DEL` failed).
* Logout deletes the access key only; the refresh token of the pair still buys a
  new one.
* A client that sends a refresh again because the answer got lost has brought its
  token twice, and one whose token expires between verification and lookup has
  brought a dead one: both are taken for theft, and all sessions of the user end
  (`OnlyReuseEndsSessions` excepts these two, and nothing else).
* The loser of two concurrent signups gets 500, not 409 (`AnswersAreTrue` says
  what 201 and 409 mean, not that they are given).
* Two tabs may refresh with one token, and a page that is loaded anew during its
  refresh leaves an exchanged token in the storage; its next use is taken for
  theft and ends all sessions (`SentOnce`, `UsedPairIsReplaced`).
* A login as somebody else during a refresh of the old session ends with the old
  user's tokens under the new user's name (`straggler` in `TokensAreShown`).
* A product created during the very first load of the list may stay hidden until
  the next fetch (`FirstLoad`), and a failed deletion leaves the list as it was.
* A failed run of the deploy script may leave the web client pointed at a gateway
  that was deleted, or no function at all, until a run completes.
* The script deploys with the empty keys of `.env.example` and reports success;
  the functions throw at their first request (`EveryFunctionStarts` is about a
  populated `.env`, which the header of the script asks for).

## 5. The proofs

TLAPS checks every step of the seven `*Proofs` modules. The constants are
arbitrary: any set of users, requests, messages, deliveries, products, tabs, calls and
gateway ids, finite or not.
What is assumed of them are the named `ASSUME`s of the modules, and no more:

| Assumption | Why the code justifies it |
|---|---|
| ttls are positive integers (`TtlAssumption`) | `apps/auth-api/src/config.ts` |
| `None` is no user and no token, no row, page or price | `undefined` and `null` in the code |
| the clock's bound is a natural number | a device of the model; the theorems hold for every bound |
| `Poison` is a subset of `Messages`; limits are positive | `deploy-localstack.ts` |
| product ids are ordered like numbers (`IdsAssumption`), pages have at least one row (`LimitsAssumption`) | `order by id`; `limit` of `product-schemas.ts` and the 50 of `use-products.ts` |
| a typed price has whole dollars and at most two more digits (`PricesAssumption`) | `decimalString` of `product-schemas.ts` |
| visibility timeout > window + worker timeout (`TimeAssumption`) | 30, 2 and 10 seconds in `deploy-localstack.ts` |
| what `.env` may lack is about the variables of `envForApp` (`DotEnvsAssumption`) | `deploy-localstack.ts` |
| `Normalized` is a function to emails; at least one attempt | `toLowerCase().trim()`; the SQS client |
| the numbers of pairs (`PairsAssumption`) and faults (`FaultsAssumption`) are natural numbers | bounds of the model; the theorems hold for every bound |

Each module is proved along one inductive invariant, `IInv`, defined in the
module it is about and checked by TLC in a run of its own. The lemmas have one
step per action; the theorems then follow.

**AuthSessions.** No safety property is inductive alone. "A deleted key stays
deleted" needs that the one request that writes the key has not deleted it yet
and will not write it twice (`NoEarlyKeys`): the key exists only once its SETEX
is done. That anybody can delete it needs `CarriedTokens` (what is presented was
delivered, hence written) and `CollectedKeys` (what a scan found was written).
"A delivered pair counts until it expires or is revoked" needs `NoLateKeys`,
which rests on `ExpWithinTtl`: the `exp` claim lies at most one ttl ahead of the
clock, so a SETEX that comes later covers it. "A mass revoke kills what was
doomed" needs `DoomedInBatch`, because the keys of the batch go one by one.
"Nobody is signed out for nothing" needs `NoEarlyRevocation`: the revoker of the
presented token is another request, since this one has not come to a DEL.

"Only reuse ends sessions" is about chains: a mass revoke deletes the tokens of
other devices, whose next refreshes are taken for reuse and delete more. That
each link has a cause (`ReuseVerdictJustified`) does not say that the chain has
a beginning outside itself. `OnlyReuse` therefore carries two more invariants.
`ReapersBlamed`: once a request has deleted a key other than that of its token,
the user has a token that two calls brought, or one that had expired and set off
a DEL. `VerdictsBlamed`: so has the user of a mass revoke under way, unless its
own token has expired. Both only refer to what lasts (`BlameLasts`: DELs,
presented tokens and expiry are final), and a lookup that finds nothing gets its
blame from whoever deleted the key (`LookupBlamed`, which needs `NoLateKeys`,
`NoEarlyRevocation` and `RevocationIsScoped`).

| Theorem | Property |
|---|---|
| `Invariance` | `IInv` |
| `TypeCorrect` | `TypeOK` |
| `Revocation` | `RevokedStaysRevoked` |
| `DeliveredPairs` | `DeliveredLiveUntilRevoked` |
| `Scope` | `RevocationIsScoped` |
| `MassRevoke` | `ReuseRevokesDoomed` |
| `Verdict` | `ReuseVerdictJustified` |
| `OnlyReuse` | `OnlyReuseEndsSessions` |
| `Refinement` | `ImplementsLifecycle` |
| `Bounded` | see "What liveness rests on" |

The refinement maps a token to "dead" once somebody deleted its key, else to
"fresh" without a key, else to "live" or "dead" by the clock. A SETEX is a
`Grant`, a DEL or a tick an `End` (of one token, or of all that expire), a reply a
`Hand`; everything else stutters.

**Signup** (`SignupProofs`). `RowsHaveMakers` and `MakersHaveRows` tie each row
to the one request that inserted it. From them: `OneAccount`, `JobsAreForUsers`,
`TrueAnswers`, and `SqsDown`
(`SqsDownStillCreated`, a part of `RowsHaveMakers`, so the run checks it with `IInv`).
`Refinement` needs all of `IInv`: an insert opens an account only if the email has
none, which is `Create`'s own condition; a refusal names another request's
account because no row is this request's before its insert; and a 201 without a
welcome message is told after `MaxAttempts` attempts, not before.

**EmailQueue** (`EmailQueueProofs`). `HiddenOutlastsBudget` is the heart: a message has more
of its visibility timeout left than the delivery that holds it may still take. From
it `Exclusive`. `CopiesAccountedFor` and `DeliveriesAccountedFor` count: the emails
of a message against the kills, its receives against its failures. From them
`Duplicates`, `DeadLetters` and `Delivery`; the last has
`"ReportBatchItemFailures" \in FunctionResponseTypes` as its hypothesis, which is
what the deployment leaves out. `Refinement` has the same hypothesis. Its steps
are local to one message although the code's are not: when a batch of ten ends,
`NoOverlap` says that nobody else holds any of its messages, so the abstract
batch is exactly this one (`HeldOnce`), and what is deleted is what was emailed,
since `failures` and `todo` are apart (`StageMemory`). A message that is received
is held by nobody, since a held one is in flight (`NoOverlap`, and behind it
`HiddenOutlastsBudget`).

**Products** (`ProductsProofs`). The check and the statement are apart, so what
must be shown is that what the check found cannot turn false: `ChecksHold`. It
rests on `IdsAreFresh` (an id is inserted once, by the one request it belongs to,
so a deleted row is not replaced by somebody else's) and on the `UPDATE` leaving
`owner_id` alone. From it `Ownership`, an action property. `LateCallsStop` says
that a token revoked before the call is refused by the guard, and gives the other
half of it. `Deleted` needs that an update of a missing row writes nothing.
`Patches` needs `WritersAreDone`: a statement puts values into the row that were
never there before, so a value once overwritten cannot return. `Implements` shows
that every step is a step of `ProductTable` or leaves the table alone: an `INSERT`
finds its id fresh and never deleted, an `UPDATE` finds its row and keeps the
owner.

**ProductLists** (`ProductListsProofs`). The heart of the walk is its cursor
(`WalkSoFar`): what stayed since the walk began was shown once if it lies up to
the cursor, and nothing was shown beyond it. A page keeps this because it is
everything between its cursor and the next one (`PageIsGapless`), which is an
argument about the largest row of a page and the least one left out
(`MaxIsGreatest`, `Before`). From it `Exact`. For the web page, `FetchedSince`
says that an answer on its way was read after the last change the page was told
of: a change drops any fetch that was sent before, and the one fetch that is not
dropped (`FirstLoad`) is one after which no claim is made. It needs `ToldTruly`,
that what was created there exists or is gone for good, and `FirstIsFull`, that a
page that leaves something out is full. From it `OwnWrites`. `Kept` is the
arithmetic of `decimalToCents` and `centsToDecimal` for every price
(`CentsKeepPrices`), on rows that only the statements of `ProductTable` change.

**WebClient** (`WebClientProofs`). That an exchanged token does not stay in the
storage rests on what is on its way: a pair the API has issued and the browser
has not yet received is in no other place (`NewPairsAreUnused`), so storing it
cannot put back a used one; and the refresh that exchanged the stored token is
still under way, or its page is gone (`OrphansAreAbandoned`). From it `Replaced`
and, since a refresh sends what is stored, `Once`. `Shown` needs
`RefreshesAreSound`: the new pair has the owner of the old one. `Awaited` is
inductive with the types. `Refinement` maps tokens to their owners; that a refresh
which ends gives back the user it began with is `RefreshesAreSound` once more,
and that every issued pair has a user for its owner is `PairsAreKnown`.

**Deploy** (`DeployProofs`). Each part of `IInv` says what a step of `main()`
finds done by the steps before it, stable under failing calls and kills:
`Provisioned`, `FunctionsBuilt`, `Mapped`, `GatewayIsNew`, `RoutesWired`. From
them `Complete` and `WebEnv`. `NothingInTheWay` adds what a run without a fault
may count on, namely that what it creates does not exist; with it no step of a
clean run can be refused, which is `CleanRun`. `Configured` (a clean run has a
populated `.env`) is what `FunctionsStart` adds to `Complete`.

`Converges` is about what is *not* there at the end, which `IInv` does not say:
a stage or a permission that an earlier, failed run has left. Two more
invariants, inductive relative to `IInv`, carry it. `NoStaleRoutes`: an id
without a gateway has no routes, so the twin of a lost answer goes with what it
had. `PermissionsAreNew`: the permissions go with the function they belong to,
so after the loop over the apps a clean run finds none but its own. With them
the state of LocalStack after a clean run is one record, `Deployed(webEnv)`.

**What liveness rests on.** TLAPS cannot prove the liveness properties, which
need `ENABLED`. What it can prove is the rest of their argument: a measure that
every step of the one who is waited for lowers and nobody else's step raises.
Fairness then only has to say that a step is taken.

| Theorem | Measure |
|---|---|
| `AuthSessionsProofs!Bounded` | awaits before the answer (`Phase`, at most 8), then the keys of the scan left to delete; finitely many since only finitely many keys are ever written (`FinitelyMany`) |
| `SignupProofs!Bounded` | awaits before the answer, attempts at `SendMessage` included (`Awaits`, at most `MaxAttempts + 5`) |
| `EmailQueueProofs!NothingCirculates` | how often the queue may still hide or show the message (`Left`), then the seconds it is hidden (`hidden`) |
| `DeployProofs!RunsEnd` | calls of `main()` before the end (`ToGo`, at most 34), then the gateways left to delete |

`SignupProofs!NobodyRefusedInVain` is the other half of `SomebodyWins`: every
answer but a cut-off means that the email has an account. For `Redeployed` the
other halves are `CleanRun` and `FunctionsStart`: a run ends, and one without a
fault ends well.

| Theorem | Property |
|---|---|
| `SignupProofs!Refinement` | `ImplementsAccounts` |
| `EmailQueueProofs!Refinement` | `ImplementsDelivery` |
| `WebClientProofs!Refinement` | `ImplementsSession` |
| `DeployProofs!Converges` | `CleanRunConverges` |
| `ProductListsProofs!Invariance` | `IInv` |
| `ProductListsProofs!Exact`, `OwnWrites`, `Kept` | `WalkIsExact`, `PageShowsOwnWrites`, `PricesAreKept` |
| `WebClientProofs!Invariance` | `IInv` |
| `WebClientProofs!Replaced`, `Once` | `UsedPairIsReplaced`, `SentOnce` (action property) |
| `WebClientProofs!Shown`, `Awaited` | `TokensAreShown`, `NobodyForgotten` |
| `DeployProofs!Invariance`, `Complete`, `FunctionsStart` | `IInv`, `CompleteIsDeployed`, `EveryFunctionStarts` |
| `DeployProofs!CleanRun`, `WebEnv` | `CleanRunCompletes`, `WebEnvIsServed` (action properties) |
| `ProductsProofs!Implements` | `ImplementsTable` |

Model-checked only: the liveness properties `EveryRequestAnswered`,
`EveryMessageSettles`, `SomebodyWins` and `Redeployed`, since TLAPS does not
reason about `ENABLED` (their measures are proved, see above), and the violations
of section 4.

## 6. What is not modelled

* SQS handing out a message twice at once, which standard queues may do rarely;
  `Exclusive` is about timers, not about that.
* A provider that accepts an email and then throws. The only provider in the
  repository logs and does neither.
* Redis losing the last second of writes in a crash (append-only file with its
  default fsync), and a Redis command that takes effect although its reply is
  lost and the call goes on: an error ends the request (`Abort` after the command).
  So a SETEX or DEL that ioredis sends again after a lost reply
  (`maxRetriesPerRequest: 2`, `redis-client.ts:13-16`) runs once here.
* Tracing, metrics and logging; the wrappers around `pg` and `ioredis`; schemas,
  error classes and `Result`; layout, the UI kit and error texts of the pages.
* Liveness of the web client: a request may be lost without an answer, and
  nothing in the code times it out. `NobodyForgotten` is what safety can say.
* The pages of `GetRestApis`: the script reads one, which has room for 25 gateways
  (`deploy-localstack.ts:306`), and `ListApis` returns all there are. What is
  checked and proved of `deploy` holds while fewer than 26 gateways are left over.
* Two deployments at once, and LocalStack restarting in the middle of one. What a
  purge of the queue drops, and queues that exist with other attributes.
* What a request of the web client does whose answer is lost, beyond the tokens it
  uses up: `AuthSessions` and `Products` have that side.
* A patch or delete of a row that went after the check is answered 500
  (`UpdateMissing`) or 204; no test or comment says what the answer should be,
  so no run judges it.

## 7. Plan

Done, in this order:

1. `TokenLifecycle`, `AuthSessions`, `AuthSessionsProofs`.
2. `EmailQueue`, `EmailQueueProofs`.
3. `Signup`, `SignupProofs`.
4. `Products`, `ProductsProofs`, and `ProductTable` with its refinement.
5. `ProductLists`, `ProductListsProofs`: pages, the query of the products page,
   prices.
6. `WebClient`, `WebClientProofs`.
7. `Deploy`, `DeployProofs`.
8. `Accounts`, `WelcomeDelivery`, `BrowserSession` and the refinements of them;
   the convergence of deployments; the measures behind liveness.

Next:

9. `WebClient` with `AuthSessions` inside: what reuse detection does to two tabs.
   `BrowserSession` and `TokenLifecycle` are the interfaces.
10. One signup, one email, up to retries and kills: `Accounts` and
    `WelcomeDelivery` composed, which their refinements carry over to the code.
11. `AuthSessions` with restarts of Redis.
