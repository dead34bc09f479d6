# Verification of ZwenTS

TLA+ specifications of the parts of ZwenTS in which the order of events, or the
agreement of several parts, decides whether the program is right; the TLC
configurations that check them on small instances; and proofs for TLAPS that
hold for every instance. Paths below are relative to the repository
(`packages/...`, `docs/...`).

Contents: [the system](#the-system) · [the modules](#the-modules) ·
[the runs](#the-runs) · [bounds](#bounds) · [fairness](#fairness) ·
[the proofs](#the-proofs) · [findings](#findings) ·
[what the models leave out](#what-the-models-leave-out) · [plan](#plan)

## The system

ZwenTS is a TypeScript web framework in one Node process with one event loop.
There are no threads and nothing is persisted: what interleaves are callbacks
and promise continuations, and what is lost at a crash is everything. All
state lives in closures.

| Component | Source | State it keeps | Operations |
|---|---|---|---|
| app lifecycle | `core/lib/app.ts` | `started`, `startHookIndex`, the two in-flight promises, two hook lists | `onStart`, `onStop`, `start`, `stop` |
| dispatch and pipeline | `core/lib/app.ts`, `middleware.ts`, `context.ts`, `response.ts` | per request: `index`, `ctx.response`, `ctx.responseHeaders`, `ctx.auth` | `dispatch`, `next`, `respond`, the error handlers |
| routes | `core/lib/route.ts` | the table in registration order | `compilePath`, `matchRoute` |
| results and errors | `core/lib/result*.ts`, `errors.ts` | none | combinators, `toProblemDetails`, `unwrapHandlerResult` |
| provider composition | `core/lib/compose.ts` | none | `composeProviders` |
| idempotency | `idempotency/lib/*` | a Map of records with leases, waiters and expiry; a sweep timer | `start`, `complete`, `fail`, `dispose`, the middleware |
| HTTP server | `http/lib/listen.ts` | `inflight`, `draining`, `closeInFlight`, `closed` | `listen`, `close` |
| fetch handler, timeout | `http/lib/fetch-handler.ts`, `timeout.ts` | per request: a signal, a timer, a race | one handler |
| process signals | `http/lib/shutdown.ts` | the latch `shuttingDown` | the handlers of signals and fatal errors |
| body reading | `http/lib/body*.ts` | per request: a locked reader, a listener, a byte count | `readBytesLimited`, the parsers |
| server-sent events | `http/lib/sse.ts` | per stream: an iterator, a queue | the pulling loop, `cancel` |
| query strings | `http/lib/query.ts` | none | one conversion |
| rate limit | `ratelimit/lib/*` | a Map of buckets by key and window end | `hit`, the middleware |
| authentication, authorization | `auth/lib/*` | none of its own; it sets `ctx.auth` | `bearerAuth`, `authorize`, security requirements |
| security middlewares | `security/lib/*` | none | `accessLog`, `cors`, `requestId`, `securityHeaders` |
| OpenTelemetry | `otel/lib/*` | a span or a timer per request | `otelHttp`, `otelHttpMetrics` |
| schema routes, pagination | `schema/lib/*` | none | `route`, which parses the input before the handler and its output after it; page builders, `encodeCursor`, `decodeCursor` |
| configuration | `config/lib/load-config.ts` | none | one function |
| OpenAPI and client generation | `openapi/lib/*` | the component registry and `rawExtras`; the names and types of the client under way | `generateOpenApi`, `generateFetchClient` |
| Wire | `cli/lib/wire/*` | the sort's indegrees, queue and order | parse, sort, `findCycle`, emit |
| command line | `cli/lib/bin.ts`, `app-tools.ts` | the exit code | five commands |
| time tracker | `examples/time-tracking/*` | three Maps: tokens, projects, entries | sign in, the routes of projects and of timers |
| test helper, lint plugin, other examples | `test/`, `oxlint-plugin/`, `examples/notes-api`, `examples/minimal` | — | — |

How they interact, and what is hard about it:

* `listen()` calls `app.start()`, then node's server, and registers its own
  `close` as the app's *last* stop hook; stop hooks run in reverse, so `close`
  is to drain requests before the hooks that release what requests use.
  Signals, the entry point and a handle's owner may call `stop()` and `close()`
  at the same time, and each may fail, time out and be retried.
  *To be right:* hooks never overlap; start hooks run once and in order across
  failures; nothing that a request needs is released while it runs; exit code
  0 means a clean stop; a signal ends the process.
* The fetch handler races its work against a timer and the client's going; the
  loser goes on in the background. Within the work, a body is read piece by
  piece with another race at each piece. *To be right:* a body that is handed
  on is whole; one answer, which the loser does not disturb; readers, listeners
  and producers are released in every order of events.
* The pipeline is a stack of closures that call `next()`. User code may call it
  twice, late or without awaiting it. *To be right:* the handler runs at most
  once, and only behind what secures it; what is logged and traced is what is
  sent; headers survive errors; every request is answered.
* The idempotency store gives a lease per execution and lets later requests
  wait for the first one's promise. Leases expire under slow handlers, records
  are evicted, handlers finish late. *To be right:* a replay is of the same
  request; two executions overlap only after an expiry; no waiter is orphaned.
* The rate limiter's buckets end with their window and are evicted at a limit
  of keys. *To be right:* counts never cross windows, and the headers are true.
* Several generators read one thing each in its own way: the router, the
  OpenAPI document, the generated client and `zwen check` read a route's path;
  the sorter, the emitter and the JavaScript engine read a manifest's names;
  the registry, zod's converter and the client give names to schemas, each in
  its own order. *To be right:* the parts agree.
* The time tracker, the largest program on the framework, reads a row, awaits
  and writes it back, with other requests in between; and its routes check what
  they answer only after the handler has written. *To be right:* tenants are
  kept apart, a user has one running timer, what was answered lasts, and an
  error has changed nothing.

`PROJECT.json` lists the same components with their files, and under
`hazards`, at its line, everything found in this code that a test would hardly
reach, with the property that covers it or the reason why none does.

## The modules

| Module | Models | Kind |
|---|---|---|
| `LifecyclePhases` | what an app promises about its phases | abstract specification |
| `Lifecycle` | `start`, `stop` and hooks of `app.ts` | detailed; implements `LifecyclePhases` |
| `Server` | `listen.ts`, `shutdown.ts`, the request counter | EXTENDS `Lifecycle` and composes with its actions |
| `Idempotency` | the middleware over its store | component |
| `RateLimit` | the middleware over its store | component |
| `Dispatch`, `MCDispatch` | `dispatch()` with every framework middleware as a kind of layer | component, instance |
| `Exchange` | fetch handler, body reading, event streams | component |
| `Wire` | `gen:wire` and the container that it writes | component |
| `Routes` | routes as router, document, client and checker read them | component |
| `OpenApi` | the names in a document and in the client made from it | component |
| `Zwen`, `MCZwen` | the command line tool | EXTENDS `Wire`, `Routes` and `OpenApi`; instance |
| `TimeTracking`, `MCTimeTracking` | the time tracker over schema routes | component, instance |
| `*_proofs` | theorems about `Lifecycle`, `Server`, `Idempotency`, `RateLimit`, `Dispatch`, `Exchange`, `Zwen` with its three parts, `TimeTracking` | proofs |

`PROJECT.json` maps every definition to the lines it stands for. The
correspondence in outline:

* **An action is what the code does between two awaits**, since nothing else
  runs in between. A promise is the state it is in and the set of those who
  hold it. `Joins`/`Ends` of `Lifecycle` are a caller that awaits and is
  resumed; `closeWait` of `Server` is who awaits `closeInFlight`.
* **`Lifecycle`.** `starts` and `stops` are the promises of attempts. A stop
  attempt is two promises, as in the code: `run` is `runPromise`, `outer` is
  the closure around it with `Promise.race` and its `finally`. `StartAtOnce`
  is the case in which the async closure ends before its first await, and its
  `finally` runs before the assignment to `startInFlight` that follows it.
  `HooksSettled` is `await runPromise.catch(...)`.
* **`Server`** adds listening, closing, requests and signals; each of its
  actions conjoins an action of `Lifecycle`, or leaves the app unchanged. The
  stop hook numbered `closeHook` settles as `close()` does, all others as the
  application likes. A request is a connection (`conn`), a place in the counter
  (`counted`) and work (`handler`): three things that end in different orders.
* **`Idempotency`.** One action per outcome of `store.start`; each prunes
  first, as the code does, and rejects the waiters of what it prunes.
  `takeInFlight` is `Holds`; settling a waiter's promise is `Resolve` or
  `Reject` in the same step.
* **`RateLimit`.** `hit` and the decision on its result are one synchronous
  step. `seen` is a ghost that counts what really happened in each window,
  beside what the store believes.
* **`Dispatch`.** Layer `i` calls `next()` by `CallNext(i)`, which is
  `dispatch(i + 1)` of `composeMiddleware`; `index` is its variable. What runs
  synchronously runs first (`Quiet`). `user` layers do everything that a
  middleware may do with `next`, and may set `ctx.auth`. `Secured` is what
  `buildOperation` documents: what the route's `meta.security` says, and
  otherwise what the middlewares carry.
* **`Exchange`.** `work` is the closure `work`, with one value per await;
  `aborted` its signal, `armed` the timer. The stream's `next` is the promise
  that the pulling loop awaits, `state` and `queue` are the platform's stream.
* **`Wire`.** One turn of Kahn's loop and one call of `findCycle`'s `dfs` per
  step, with lists as sequences, since a name may occur twice in them. `Load`
  and `Statement` run what was written, by the rules of JavaScript for names.
* **`Routes`.** A segment is a text, a parameter and a text, which is as much as
  tells the readings of the router, the document and the client apart. The
  client's URL goes through `Encoded`, `Resolve` and `Pathname`, what `new URL`
  does to what it escapes, to `.` and `..` and to two slashes at the beginning;
  the router compares the result with its literals, which it does not escape.
* **`OpenApi`.** `AddRoute` is one turn of `generateOpenApi`'s loop, which
  registers output, errors and body in this order; `Build` is the registry's
  `build()`. What a schema's JSON refers to is what zod's converter does with
  ids and a registry, and is modelled from its calls (`Direct`, `Within`). The
  client goes over the components (`NextComponent`) and follows each reference
  depth first (`FollowRef`), as the recursion of `emitSchemaType` does. `Zwen`
  composes them with the commands `openapi` and `client`.
* **`TimeTracking`.** A request is the chain of `bearerAuth`, `requireAuth`,
  `route()`, a service and its repository calls. All of these are awaited, so a
  request that has read waits at a place of its own (`starting`, `inserting`,
  `patching`, `stopping`) until it goes on with what it read, and any request may
  run before it does: connections are served concurrently, and `db.ts:2-3` wants
  the Maps replaced by a real driver, with which this wait is long. `stale` and
  `writes` are ghosts: who holds a copy or a test result that another request
  has overtaken, and who has written.

In each module the conditions that matter have an operator of their own, and
before it stands a `Bug_` operator: a form it might take by a plausible mistake.
No action uses these; they are there to be put in place of the right one, to see
that a property notices.

## The runs

| Run | Module | Distinct states | What it shows |
|---|---|---|---|
| `lifecycle` | `Lifecycle` | 90,542 | Hooks exclude each other across joins, timeouts and retries; start hooks run once, in order; no caller is stranded while hooks settle; `LifecyclePhases` is implemented. |
| `server` | `Server` | 66,421 | What requests use is not released under them; the drain waits for all of them or for its time; exit code 0 means stopped and closed; a signal ends the process though handlers hang. |
| `idempotency` | `Idempotency` | 157,360 | Replays match; locks exclude until they expire; no waiter is orphaned; the capacity holds; what succeeds in time is cached; with the sweeper, waiters of a hung handler are answered. |
| `rate_limit` | `RateLimit` | 40,451 | Admissions stay within the limit but for evictions; refusals are justified; `RateLimit-Remaining` and `Retry-After` are true. |
| `dispatch` | `Dispatch` | 1,036,732 | Layers run once and in order whatever users do with `next`; where the document infers security from the middlewares, handlers it calls secured run for a principal only and callers without a token are not turned away from others; status logged, span and answer agree; headers survive; every request is answered. |
| `exchange` | `Exchange` | 3,578 | Bodies are whole and within the limit; readers leave nothing behind; an answer is final; with a timeout there always is one; producers are released. |
| `zwen` | `Zwen` | 708,331 | A container that is written boots, all of it, in order; a cycle reported is one; a client's call whose path and values survive a URL reaches the handler it was generated from; references in a document lead to the schema they were written for, and types of the client are declared for the component they mention. |
| `time_tracking` | `TimeTracking` | 609,577 | Tenants are kept apart whatever requests overlap; a second running timer and a lost change need an overlap of the kind named; an error has changed nothing, but for an entry too long to be shown. |
| `lifecycle_resume` | `Lifecycle` | violation | [finding 1](#findings) |
| `lifecycle_hung_hook` | `Lifecycle` | violation | finding 2 |
| `server_drain_timeout` | `Server` | violation | finding 3 |
| `exchange_disconnect` | `Exchange` | violation | finding 4 |

Deadlock is checked for `Lifecycle` and `Idempotency`, which can always go on.
Elsewhere the system really stops: the process exits or `listen()` has failed
for good (`Server`), a request is answered (`Dispatch`), an exchange is over
(`Exchange`), the command and its product have ended (`Zwen`), every request is
answered (`TimeTracking`). `RateLimit` stops at the bound of its clock.

Some properties are conjunctions of parts that are only right together, and a
run checks them as one: `LimitExact` (never too many admissions, never a
refusal too early), `RecordsAgree` (status and span), `BodyJudgedWhole` (what is
handed on is whole, what is refused is too long). Where a part follows from
theorems alone, no run repeats it (`HeadersOnAnswer`, `AnswerSettlesSignal`,
`StopHooksOnlyWhileStarted`, `CapacityHeld`).

## Bounds

| Run | Instance | Why it is enough |
|---|---|---|
| `lifecycle` | 2 callers; 2 identities of start and of stop attempts, used again when free; 1 hook of each kind at first, 2 at most | Identities return, so behaviours are not bounded. Two attempts of each kind are an old one that is still held and a new one; two hooks have a first, a last, and one registered meanwhile. |
| `server` | 2 requests, the entry point and the signal handler as callers, 1 attempt of each kind, a hook before and one after `close` (3 in all), a request timeout, refusing while draining | Two requests suffice for one to end while another keeps the counter up; slots are used again. Retries use the one identity again, since only one attempt is ever held. |
| `idempotency` | 3 requests, 2 keys, 2 fingerprints, room for 1 record, a lock of 2 ticks, 2 leases | Holder, waiter and a third that takes the key or evicts. Two leases: a late finisher and the one that took over. A room of 1 with 2 keys meets overflow and eviction. |
| `rate_limit` | 3 keys, limit 2, windows of 3 ticks, 2 buckets, a second of 2 ticks, clock to 4, 3 hits a window | Below, at and over the limit; more keys than buckets; a clock that passes a window's end; a second that does not divide a window. |
| `dispatch` | the empty stack, every stack of 2 of 10 kinds, 7 of 3; 14 operations more that declare their security or tag a middleware; statuses 201 and 502; three errors | Each pair in each order is what decides who sees whose result. What is declared, public or tagged stands beside stacks that require a principal and stacks that do not. |
| `exchange` | limit 2, pieces of 1 and 2, bodies to 4, a queue of 2 standing for any longer | Under, at and over the limit, at once and by steps, declared truly or not. |
| `zwen` | all graphs of 3 providers with up to 2 dependencies each over {a, b, c, seed} (9,261); 2 providers with every mistake in the names; no providers; manifests that are not literal; tables of 1 and 2 of 15 routes and some of 3; 12 values of a parameter; apps of two routes over four nested schemas, each with an id or without | Cycles of one, two and three, with tails, and a name listed twice. Paths that overlap by a literal, by a parameter, by a part of a segment, by length and by method; paths with `.`, with `..`, with a space, and with an empty segment first. Values that are plain, empty, `.`, `..`, escaped dots, with a space, a slash, a percent sign or a query in them. Schemas that are registered, only nested, or both, before or after what refers to them; ids that equal a hint, another's name, or are no identifiers. |
| `time_tracking` | 3 requests, 2 users, 3 tokens, 2 entries, 2 projects, times -2, 0 and 1, clock to 1, safe integers to 2, four states of the Maps that earlier requests have left | One request that has read, one that overtakes it, and one more before or after; a tenant and another; a project that is deleted under an entry; a duration beyond the safe integers. |

## Fairness

* **`Lifecycle`**: callbacks of settled promises and due timers run
  (`EventLoopFairness`). That hooks settle is the application's promise and a
  conjunct of its own (`HookFairness`); `HungHookSpec` does without it.
* **`Server`**: the loop runs callbacks, timers, node's close callback when no
  connection is left, and `exitProcess` (`LoopFairness`). Stop hooks settle and
  clients read the responses they get (`PeerFairness`); `OpenStreamSpec` does
  without. Handlers of requests are never assumed to end, nor clients to go.
* **`Idempotency`**: time passes, and a timer that is set fires. Handlers may
  hang, and no further request needs to come.
* **`Dispatch`**: a layer that has been called goes on; what it awaits
  settles.
* **`Exchange`**: timers fire, aborts are delivered, streams of clients that
  have gone are cancelled, a producer that was asked settles. Clients and
  handlers may take for ever.
* `RateLimit`, `Zwen` and `TimeTracking` claim no liveness: each of their steps
  is a call, or what a client is free to do.

All of it is weak fairness, of single actions or of one actor's actions.

## The proofs

Assumed are only the modules' named ASSUMEs about their constants, which TLC
evaluates in every run: that bounds are naturals, that sets are finite, that
the null values differ from what they stand beside, that lists are sequences
(`ManifestsAssumption`, `TablesAssumption`, `AppsAssumption`: no path and no split
value is without a part, and a schema refers to ones declared before it), and
that nothing is escaped to nothing (`EscapesAssumption`). No more is assumed of
`Encoded`, `Decoded` and the sets of dots: what a URL does to a text is for the
instance to say.

* **`Lifecycle_proofs`** (any number of callers, attempts and hooks). Neither
  in-flight variable alone excludes start hooks from stop hooks. The invariant
  adds what does: an attempt that runs start hooks is the one in
  `startInFlight` *and the app is not started* (`StartLock`); a stop attempt
  that has not released is the one in `stopInFlight` (`StopLock`), and until
  its race is over *the app is started* (`StopWhileStarted`); stop hooks only
  run within such an attempt (`StopHooksInAttempt`), which is what the await in
  the `finally` is for. Theorems: `TypeCorrect`, `HooksExclude`,
  `StartHooksRunOnce`, `StopHooksAfterStart`, `StartsComplete` (the app only
  turns started with no registered start hook left), and `Refinement`: every
  step of `Lifecycle` is one of `LifecyclePhases`, or none.
* **`Idempotency_proofs`** (any number of requests, keys, leases, any lifetime).
  The heart is `LockHeld`: a running request younger than `Ttl` holds the
  record of its key, and the record's remaining life is exactly what the
  request has left, so expiry is the only way to lose a lock. Around it:
  records and runners know what their lease was granted for, waiters are on the
  list of the record they wait for and the reverse, leases are distinct. The
  invariant is stated of a Map and requests as parameters, since each `start`
  needs it twice: after pruning, and after its own change. Theorems:
  `TypeCorrect`, `ReplaysMatch`, `LocksExclude`, `WaitersRemembered`,
  `CapacityBound`, `TimelyCached`.
* **`RateLimit_proofs`** (any keys, limits, windows, store sizes). A bucket of a
  window that still runs is never pruned, so a count only goes up, is evicted,
  or ends with its window. `CountInv` bounds the admissions of a window by what
  its evicted buckets and its present one let through; with one length of windows
  on the store (`OneLength`, a hypothesis of the theorems that need it, since two
  lengths share buckets) `ExactInv` bounds them from below too. Theorems:
  `TypeCorrect`, `AdmissionsBounded`, `LimitsExact`, `HeadersTrue`.
* **`Dispatch_proofs`** (operations with stacks of any length, any statuses and errors).
  `LayerInv` says what `index` means: the layers up to it have been called,
  once each, whatever has become of them. `AuthInv` follows a request inwards:
  past a layer that requires a principal there is one, and a layer that requires
  none looks further only when the request brings a token. For the answer, three
  more: `FlowInv` says what a layer that has ended left to the one around it (a
  response, an error, or a call that floats); `HeaderInv` that the layers called
  so far have written their headers; `RecordInv` that a record, once made, agrees
  with what is on its way out as long as nobody outside may change it. Theorems:
  `TypeCorrect`, `LayersRunOnce`, `SecuredHandlers`, `HeadersKept`,
  `RecordsTrue`.
* **`Exchange_proofs`** (bodies, pieces and limits of any size). `ReaderInv`
  ties the lock, the listener and the state of the body to the await that
  `work` stands at; `SignalInv` says that the timer runs only while there is no
  answer. Theorems: `TypeCorrect`, `BodiesWhole`, `RefusalsJustified`,
  `BodiesJudged`, `LockReleasedClean`, `AnswersFinal`.
* **`Server_proofs`** (any number of requests, callers, hooks and attempts).
  `ServedAppIsApp`: every step of `Server` is a step of `Lifecycle` or leaves
  the app alone, so that all of `Lifecycle_proofs` holds of a served app. The
  counter is exact (`CountExact`: `inflight` is the number of counted requests),
  which gives `ServerTypeCorrect` and `DrainWaits`. The other two theorems,
  `HooksOutlive` and `ExitZeroClean`, have the hypothesis `Late`, that signals
  and stops come when the server listens: before, `close` is no stop hook, and
  both statements are wrong then (`listen.ts:153`). Their invariant `ServerInv`
  follows the hooks of a stop attempt down: `close` is among them (`ListenInv`),
  they are numbered n, n-1, ..., 1, and an attempt that is below `close` has
  closed the server (`AttemptInv`); a closed server has no connection and none
  that the drain waited for is counted (`CloseInv`); nobody starts an app again
  that has been stopped (`StartInv`); the signal handler stops once
  (`SignalInv`).
* **`Zwen_proofs`** (any manifests, route tables, apps). `ZwenImplementsWire`:
  to a manifest nothing else happens than in `Wire`. `WireInv` counts: the
  indegree of a provider is the number of its mentions of providers that are
  not in order yet, and the queue holds those at 0 (`SortInv`); hence each is in
  order after what it needs, and one that is left waits for another that is
  left, along which `findCycle`'s trail goes (`SearchInv`). From it
  `WrittenContainerBoots` and `ReportedCycleReal`. `DocumentInv` says what
  `rawExtras` and the components are made of, and `ClientInv` that a type is the
  one of its component, under the hypothesis that the property has
  (`TypesApart`); from them `ReferencesResolve`, by following what `Direct` and
  `Within` of a schema come to, and `ClientTypesTrue`. `RoutesInv` says that no
  route before `next` serves the call and that routes without a duplicate differ;
  with `ClientUrlKeeps` (the URL of a plain call is the path with the escaped
  arguments in it) and `OwnRoute` (the route that was called matches it and gets the
  arguments back) this is `ClientReaches`. `ZwenTypeCorrect` takes the types from
  all of these.
* **`TimeTracking_proofs`** (any number of requests, users, rows, any times).
  `DbInv` types the Maps and says that only issued ids are in use; `LocalInv`
  says what a waiting request holds. Tenants are apart because of `HeldInv`:
  there is an owner for every project and entry, living or deleted, that agrees
  with every row *and with what every waiting request holds*, so that a copy
  written back cannot change hands. A new id takes its owner from whom it is
  issued to, which is why the owners are an existential and not a variable.
  `GhostInv` says what a request knows that is not `stale`: its copy is the row,
  and the timer it looked for still is not there. Every action is first reduced
  to one of six forms of step (`ComesIn`, `GoesOn`, `Ends` with a write of one
  Map or none), and the invariant is preserved by forms. Theorems:
  `TimersTyped`, `TenantsKeptApart`, `TimersOverlapOnly`, `AnsweredChangesLast`,
  `ErrorsLeaveNothing`. They assume of the rows that were there before
  (`StoresAssumption`) what these theorems say of the rows that requests leave.

Every invariant and every action property of a run that passes is a theorem.
Recursive functions (`ClientUrl`, `Resolve`, `Register`, `Direct`, `Within`) have
no induction theorem that the provers can instantiate: each is shown to have its
solution and then followed from the least counterexample down (`Least`,
`Collected`).

Only model-checked is all liveness, since the prover has neither fairness nor
ENABLED: `CallersReturn`, `SignalEndsProcess`, `WaitersFreed`, `AlwaysAnswered`
(of `Dispatch` and of `Exchange`), `ProducerReleased`.

## Findings

Each is a run that TLC ends with a counterexample.

1. **`StartResumes`** (code, `core/lib/app.ts:233`). When the async closure of
   `start()` ends before its first await — the first pending hook throws
   synchronously — its `finally` clears `startInFlight` before the closure's
   promise is assigned to it. A settled promise stays there: every later
   `start()` returns the old failure and runs nothing, although "Resume after a
   partial failure" (app.ts:235) is intended.
2. **`StopTimeoutReported`** (`docs/api-throws.md:15`). `stop()` does not
   report `STOP_TIMEOUT` while a hook hangs: its `finally` waits for the hook.
3. **`DrainTimeoutCloses`** (`docs/reliability-notes.md:27`,
   `docs/shutdown-recipe.md:42`). After the drain timeout `server.close` still
   waits for open connections; with a response that streams, the server never
   closes.
4. **`DisconnectStopsProducer`** (`http/lib/sse.ts:100`). When a handler loses
   the race against the timeout and then answers with an event stream, nobody
   reads or cancels that stream, and its producer is asked for events for as
   long as it yields.

Met while modelling, without a run of their own:

* Without `sweepIntervalMs`, the waiters of a handler that hangs are freed by the
  next `start()` only, and not when the lock expires as
  `docs/reliability-notes.md:38` has it.
* A fatal error during a shutdown that a signal began leaves the exit code 0;
  `docs/shutdown-recipe.md:45` says `exit(1)`.
* The generated client writes path parameters into the URL unescaped
  (`openapi/lib/client.ts:113`): one that is `.` or `..` addresses another route.
  A route whose path has a segment with a space is never reached, since the router
  compares with the escaped path (`core/lib/route.ts:94`). `new URL("/x", baseUrl)`
  drops a path that `baseUrl` has. `openApiPath` sees parameters in `/v:id` and
  `/:name.ext` otherwise than `compilePath`.
* `zwen check` does not report `/a/:x` beside `/a/:y`, of which the second is
  never reached.
* Names can clash in a generated container (`cli/lib/wire/emit.ts:39`). Among
  components, a schema that others refer to by its id meets one that has got the
  same name from a hint, and an id that is no identifier (`a.b`) is registered
  under another name than the parameters refer to (`openapi/lib/components.ts`).
  In a client, two names that `sanitizeIdent` makes alike share a type when one
  is referred to before its turn (`openapi/lib/client.ts:351`).
* The key of a rate limit's bucket names the end of the window and not its
  length (`ratelimit/lib/store.ts:74`), so two middlewares with different windows
  on one store count a request twice when their windows end together.
* The time tracker's README promises one running timer per user; two starts of
  one user that overlap leave two. A stop, or a change of a project, that
  overlaps a delete brings the deleted row back, and a second stop replaces
  the end that the first has answered (`entries-service.ts:137`). An entry whose
  duration is no safe integer is stored and answered 500, and so is from then on
  every list that has it (`schema/lib/route.ts:140`).

## What the models leave out

Where a property has an exception, it is in the formula and its comment.
Beyond that:

* **`Lifecycle`.** A hook that synchronously calls `stop()` or `start()` before
  the in-flight variable is assigned (`app.ts:255`, a hazard with a note).
* **`Server`.** One `listen()` that succeeds per app (failed ones are retried).
  A drain timeout of 0 is one that expires at once. `SignalsEarly = FALSE`:
  signals and stops come when the server listens. Before that point `close` is
  not registered yet, and a stop leaves the server open (`listen.ts:153`, a
  hazard with a note). Uninstalling signal handlers and `exit: false` only
  remove behaviour.
* **`Idempotency`.** Key scoping, methods and fingerprints are values given to
  the module. The clock is monotone (`idempotency.ts:138`, a note).
* **`RateLimit`.** The clock is monotone and the store synchronous. Skipped
  requests do not reach the store. The run has one window length;
  `RefusalsJustified` and `HeadersTruthful` need that.
* **`Dispatch`.** Names and scopes of security schemes, and the `security` that
  the caller of `generateOpenApi` gives a whole document. `SecurityAsDocumented`
  excepts operations that declare their security (`meta.security`, an array or
  `false`: `operations.ts:239`) and those with a middleware of the application
  tagged by `withSecurityMeta`: their document says what the author wrote, and no
  code compares it with the middlewares (`generate.test.ts:245` has a handler
  documented as secured that anybody may call). A user middleware may set
  `ctx.auth`, and does not take it away again.
  Which headers are written is left out, only by whom. An
  `accessLog` that skips a request is a layer that is absent. `LogAgrees`
  excepts two endings that the framework logs otherwise than it answers: no
  response at all (0 is logged, 204 is sent), and an error thrown after a
  response was set.
* **`Exchange`.** What bytes parse to, and the text of events. A request
  without a body and one that ends at once are the same. `ProducerReleased`
  excepts an event that cannot be encoded, which leaves the producer at its
  yield.
* **`Wire`.** Parsing TypeScript is one flag of a manifest; relative import
  paths are left out. The code after the loop of `findCycle` is unreachable,
  and TLC would end with an error if it were reached.
* **`Routes`.** At most one parameter per segment, each with a name, no literal
  braces; parameters are told apart by place. Escapes are read text by text (none
  begins in a path and ends in a value), and texts with spaces at their ends are
  left out, which the URL parser drops at the end of a URL only.
  `ClientReachesRoute` excepts paths with a parameter inside a segment, paths
  with a segment that a URL does not keep as it is (`.`, `..`, an empty one before
  others, one with a space or another character that is escaped, one that
  contains `?`, `#` or a backslash), values that are empty, dots, of more than
  one segment or changed by a decoding, and calls that another path registered
  earlier claims.
* **`OpenApi`.** Schemas that contain themselves; texts that end with digits of
  their own; the order of components, which is left open in the client. The
  JSON of a schema is which schema it is. Methods' names, queries, bodies and
  the text of types are left out.
* **`TimeTracking`.** Descriptions, the order of lists, and which of several
  running timers is found. Validation is a nondeterministic 400. An interleaving
  between an await of something settled and its continuation is one that the
  in-memory Maps allow for pipelined and concurrent requests in few orders, and
  a real database in all of them.

Not modelled: `composeProviders` (one pass over a list that keeps no state; the
order is the caller's, and the container that has an order to find is `Wire`);
the Result combinators, query strings, configuration, the builders and codecs of
pages (pure conversions; the walk over the pages is the application's); schema
validation, which is zod's; the lint plugin, which oxlint runs over syntax
trees; the test helper, which calls `createApp`, `listen` and `fetch` in a row;
`notes-api`, which is the time tracker's pattern with pages; `minimal`, which
has no state.

## Plan

Done, in this order: `Lifecycle` and its proofs, `Idempotency` and its proofs,
`RateLimit`, `Server`, `Dispatch` and `Exchange` with theirs, `Wire`, `Routes`,
`Zwen`, `OpenApi`, `TimeTracking` and its proofs, the records and headers of
`Dispatch_proofs`, `RateLimit_proofs`, `Server_proofs`, `Zwen_proofs`.

Next, theorems:

1. `Server` without `Late`: that the app is never stopped twice for one signal
   and that nothing but an early stop leaves the server open.
2. `Zwen` beside `Wire`: that its steps are those of specifications of `Routes`
   and of `OpenApi` alone, as `ZwenImplementsWire` has it.
3. `Wire`: that a manifest without a cycle is never reported circular, as a
   corollary of `ReportedCycleReal` in terms of the manifest alone.

Next, modules: `cors`, `requestId` and `securityHeaders` of `Dispatch` each as a
kind of its own, with what they write; the pages of `notes-api`, of which a walk
may meet rows that are written under it.
