# Verification of the AI gateway

The repository is a gateway for AI requests: Kong in front, a FastAPI backend
that checks, routes and meters every prompt, OPA for governance policies,
Postgres and Redis for state, an intent classifier, AI providers (Ollama,
OpenAI-compatible, Gemini), a Node service that archives access logs, and a
React frontend. This directory holds TLA+ modules for the parts whose
correctness depends on order, concurrency and failure, the TLC configurations
that check them on small instances, and proofs of their main properties that
TLAPS checks for every value of the constants.

Paths below are relative to `src/`; `app/` stands for `fastapi_backend/app/`.

## 1. Inventory

| Part | State it keeps | Operations | What is hard about it |
|---|---|---|---|
| AI request lifecycle (`app/services/ai_request_service.py`, `app/api/ai.py`, repositories) | rows of `ai_requests`, `permission_audit_logs`, `policy_evaluation_audit_logs`, `security_events`, `usage_token_logs`; one session per request | `submit_stream`, `submit_json`, status updates in sessions of their own | a dozen early returns; commits that fail or whose acknowledgement is lost; disconnects and crashes; one pool for all requests of a worker |
| Sessions and pool (`app/infrastructure/db/session.py`) | pool of connections | `get_db_with_user`, `AsyncSessionLocal()` | a request holds one connection and asks for a second |
| Governance policies (`app/services/policy_service.py`, `app/api/admin/policies.py`, `opa/`) | policies in Postgres, a cache and two hashes per worker, the data of each OPA replica | sync, push, evaluate, fall back | no lock around the sync; three copies of the truth; restarts; replicas |
| Quotas (`app/services/quota_service.py`, `app/api/admin/quotas_admin.py`) | daily counters in Redis, `quotas.yaml`, memory of each worker | check, charge, admin update, reload | check then act; resends; midnight; a file rewritten in place |
| Bounded queue (`kong-logger/util/bounded_queue.js`) | buffer, counter of running workers, drop counter | `push`, `_drain`, the `finally` of a worker | limits, slots, order |
| Access-log receiver (`kong-logger/server.js`, `sinks/`) | one file stream per UTC day, the queue | `POST /logs`, rollover, backpressure, shutdown | lost wakeups, rollover between two awaits, order of the two sinks, exit |
| Intent cache and mappings (`app/services/intent_cache_service.py`, `intent_mappings_service.py`) | `intent_routing` and its audit log; map intent -> service in each worker | periodic refresh, admin reload, create, update, deactivate | reload without the lock; the refresh task ends on an exception; edits read, then write |
| Service registry (`app/api/admin/services.py`, `app/repositories/ai_service_repository.py`) | `ai_services` | create, update, delete | services go or change under requests on their way to them |
| Prompt security patterns (`app/services/prompt_security_service.py`, `app/api/admin/security_patterns.py`) | list of compiled patterns in each worker, `security_patterns` | scan, reload, create, delete | patterns are per worker; reloads overlap scans and each other |
| Startup (`app/main.py`) | tables, seed policies, caches and models of a worker | lifespan | several workers on one empty database; a crash between two steps |
| Content inspector (`app/services/content_inspector_service.py`) | none | inspect | a fold with early exits; check digits |
| Output guard (`app/services/output_guard_service.py`) and provider clients (`app/infrastructure/ai_provider/`) | carry buffer of a stream | `redact_stream_chunk`, `redact`, the iterators of three providers | matches split over chunks; iterators that end early |
| Gateway authentication (`app/core/middleware.py`, `security.py`, Kong plugins) | nonces in Redis, key set in each worker | verify signature, nonce, token | expiry against skew; retries and resends; rotation of keys |
| Classifier services (`intent_classifier_service/`, `intent_classifier_distilbert_test/`) and their client | LRU of each pod, one Redis cache | start, flush, classify, stop | two versions side by side during an update; flush against fills |
| Kong plugin admin (`app/api/admin/gateway_plugins.py`) | none; Kong's routes and plugins | lists, discovery report, auto-register, plugin calls | several calls of Kong make one answer |
| Frontend (`frontend/src/`) | conversations, stream readers, send window | send, confirm, stop, switch; the message guard | a reader outlives the view it writes to |
| File and text extraction (`app/services/file_extraction_service.py`) | none | extract | limits, empty and unreadable files |
| Vault, log retention, reports, health, access-log transform | none that changes while they run, or single transactions | | |

How they interact. `POST /api/v1/ai/request` opens a session and runs the
pipeline: prompt scan, content inspection and intent classification at once,
then intent resolution (intent cache), permission (Postgres), quota (Redis),
the request's row (Postgres), policies (OPA and the worker's cache), the
provider, the output guard, metering (Postgres, then Redis) and the final
status. Admin handlers change policies, quotas, mappings and patterns, and
refresh the caches of the one worker that serves them. Kong posts its access
logs to kong-logger, which writes each to the day's file and then to Postgres.

What makes each part correct: no prompt passes a gate that refused it, and the
ledger says what the client was told; a policy acknowledged as in force is
enforced; a tenant passes its limit by a bounded amount and is never refused
for tokens it did not use; every log record accepted is written, once, in its
file, and in the order billing relies on; every request ends.

`PROJECT.json` lists every component with its sources and status, and every
hazard at its line with the properties that cover it.

## 2. Plan

| # | Module | Composes | State |
|---|---|---|---|
| 1 | `RequestLifecycle`, abstract `RequestContract`, `RequestLifecycleProofs` | lifecycle, sessions, pool | built, checked, proved |
| 2 | `PolicySync`, `GovernanceProofs` | workers, OPA replicas, Postgres, admin handlers | built, checked, proved; what needs it, for serial admin calls |
| 3 | `BoundedQueue`, abstract `SaturationContract` | | built, checked, proved with 4 |
| 4 | `LogReceiver`, `LogReceiverProofs` | extends `BoundedQueue` with the file sink, the server and its shutdown | built, checked, proved |
| 5 | `Quota`, `QuotaProofs` | quotas file, workers, Redis | built, checked, proved |
| 6 | `Routing`, `RoutingProofs` | intent caches, their refresh tasks, mappings, services, requests between resolution and provider | built, checked, proved |
| 7 | `GatewayNonce`, `KeySet`, `EdgeAdmin`, with `GatewayProofs` | Kong's signer and retries, workers, Redis; Keycloak, one worker's requests; admins and Kong's admin API | built, checked, proved |
| 8 | `WorkerStart` | starting workers, Postgres, admins, scans | built, checked, proved with 2 |
| 9 | `AnswerStream`, `AnswerProofs` | three provider clients, the output guard, the loop that joins them | built, checked, proved |
| 10 | `Intents`, `IntentsProofs` | the client, pods of two versions, Redis | built, checked, proved |
| 11 | `ChatClient` | the browser | built, checked, proved with 9 |
| 12 | `Computations` | computations without state | built, checked |
| 13 | `MCPlatform` | 2, 7 to 12 side by side | built |

The order is that of what the system may not get wrong: prompts and their
ledger first, then the gates that decide about them, then logs, then what surrounds them.

## 3. Modules

Every module is split into state, actions and properties. A definition whose
name ends in a word like `Swallow`, `NoRaise` or `Eager` under a comment
"Mutant:" is a plausible wrong form of the definition after it and is not used
by any specification; it shows that a property notices that error. History
variables are marked "history" and no guard reads them.

### RequestLifecycle

One record of state per request: `pc` is the place in `submit_stream` or
`submit_json` (`mode`), `conn` and `txn` are the request's own session, `row`,
`permAudit`, `polAudit`, `secEvents`, `usage` are what is committed in Postgres,
`charged` is the Redis counter, `sent` the SSE frames, `result` what the client
learns. Each action is the code between two awaits that matter:

- `OpenSession` .. `MarkBlocked`: `get_db_with_user` and Phase A (455-488,
  694-746); `ResolveIntent` .. `LookupService`: Phase B (490-570); `RecordRequest`,
  `CommitRecord`: Phase C (572-604); `EvaluatePolicy` .. `MarkDenied`: Phase D
  (606-692); `BeginStream` .. `StreamEnds`: the provider; `RecordUsage` ..
  `Complete`, `GuardJson`: post-flight; `SendError`, `MarkFailed`: the handlers
  of exceptions; `CloseSession`: the end of the session.
- A block `async with self._session_factory()` is one transaction on a
  connection of its own and one step. Its outcome is "ok", "fail" (nothing
  applied, exception) or "lost" (applied, exception all the same); when the pool
  is exhausted the checkout times out and the outcome is "fail".
- What a gate answers is a choice: the stores behind the gates have modules of
  their own. A policy evaluation is any sequence of results; it denies if one
  of them does.
- `Disconnect` may cancel a stream at any await: `CancelledError` and
  `GeneratorExit` are not `Exception`s, so none of the handlers run. `Crash`
  ends every running request of the worker; nothing at startup looks at old rows.

`RequestContract` is the abstract specification: the life of a row against the
call to the provider and the metering. `RequestLifecycle` implements it with
the identity as refinement mapping.

### PolicySync

`db` is the table of policies, `local`, `pushed`, `lastOk`, `up` are a worker's
cache, the cache whose hash it recorded as pushed, its status and whether it
has started; `opa` is the data of each replica. A sync is `Boot`,
`ChangePolicy` or `Reload`, then `List` (138-154), `Install` (155-177), `Push`
(223-240), `Finish` (178-221), a step for each side of an await, so syncs of
one worker interleave as they do in asyncio. An evaluation is `Ask`, `Answer`,
`Decide`, or `FallBack` or `Malformed` (299-424). A policy is reduced to its
effect on the one kind of request that is judged (its conditions are in
`Computations`). The hash is taken to be
injective, so the hash recorded is the cache itself. Left out: the version
string, `OPA_ENABLED=false`, rows that cannot be parsed (the code skips them),
and a PUT that times out and is applied later. `hist` and `acked` are history:
the states of the table, and the newest one a sync has reported as pushed.

### BoundedQueue and LogReceiver

JavaScript runs to completion, so `push` with its `_drain` is one step, and so
is the `finally` of a worker (`Settle`). `SaturationContract` is what such a
buffer owes its clients; the mapping takes `Len(queue) + inFlight` for what is
held and `droppedTotal` for what was refused.

`LogReceiver` extends the queue with the file sink and the server. There is a
stream per UTC day. `PostLog` is the handler of a record up to its first await
that blocks: `_ensureStream`, then either the write and the push to the
Postgres sink, or a place among the `waiters` for "drain". `Resume` is a
woken handler; the callback that wakes puts it in `woken`, and nothing else runs
before these microtasks. What Node's streams do is external and modelled by
what `file.js` relies on (`DiskWrite`, `StreamError`, `Wake`): write returns
false at the high-water mark; "drain" is emitted when the buffer empties after
that, to whoever listens then, and not on a stream that has been ended or has
failed; an error rejects `once`. Bodies that cannot be parsed or
transformed change no state; a deployment without PLATFORM_DB_URL has no
Postgres sink and is not modelled.

The shutdown is as generous as the code. Each SIGTERM or SIGINT starts one of
its own (`closing`, server.js:148-163); `CloseFile` .. `Exit` are its awaits in
order. `EndPool` is the end of `drainAndWait`, with the queue empty or its five
seconds over: `PostgresSink.close` does not look at the answer
(`sinks/postgres.js:128-135`), so both lead to `pool.end()` and exit(0), and
`gaveUp` remembers which it was. What the pool has not taken by then it refuses.
A second shutdown finds no stream in the file sink and goes on at once; if it
finds the pool ended, `pool.end()` throws, and exit(0) follows all the same.
Only the ten seconds after a signal are exit(1) (`Cut`). `ExitSettles` therefore
says what exit(0) means after one signal, apart from what `drainAndWait` gave up
on; section 6 lists what it does not mean.

### Quota

`used` are the counters in Redis, `file` and `quotas` the file and the memory
of each worker, `req` the requests between their check and their charge. A call
to Redis computes its key before the await, so check (`Check`, `Admit`) and
charge (`LogUsage`, `Charge`) are two steps each, with midnights in between.
The handler of the admin PUT does not await and is one step. `Admit` lets a
request through when Redis is unreachable, `Charge` skips or repeats: redis-py
6 resends by default and `requirements.txt` does not pin the version. `Forget`
is expiry, eviction (`k8s/data/databases.yaml` sets allkeys-lru) or a restart
from a snapshot. A write cut short leaves the file empty or garbled; a
truncated file that is still valid YAML is left out. Each worker has a file of
its own, as each pod does: a PUT reaches one of them. `is_active` and
`reset_period` are stored and never read by the code, so they are not modelled.

### Routing

`routes`, `services`, `audit` and `recorded` are the tables: mappings, service
configurations, the result of replaying the mapping audit log, and the services
that rows of `ai_requests` refer to. `cache` is `_cache` of a worker, `load`
what each `force_reload` is doing between its query (`Begin`, `Query`) and its
install (`Install`); the refresh task and an admin's reload may overlap, since
only the task takes `_reload_lock`. `life` tells a worker that is up from one
whose task has ended (`Fail`). An edit of a mapping reads the row
(`ReadMapping`) and commits it together with its audit entry (`WriteMapping`);
SQLAlchemy updates the columns that differ from what was read (`Dirty`), the
entry has the whole payload. Unique names and foreign keys are checked by
Postgres in the statement's step. A request is followed from `Resolve` (from
the cache) over `LookUp` and `Record` to `Dispatch`; its gates are in
`RequestLifecycle`. `hist`, `since` and `raced` are history.

Left out: the taxonomy version, an explicit null for `is_active`, and what a
configuration consists of. An update or a delete of a service reads the row
first and then acts on it by a statement of its own; `is_protected` never
changes, so this is one step.

### GatewayNonce

`mail` is what Kong sends upstream for a request: a signature the worker can
check, one it cannot, or none. Kong signs once (`Sign`,
`gateway-signature/handler.lua`), and every attempt to deliver carries the same
timestamp and nonce. `ArriveSigned` is `verify_kong_header` up to its await on Redis,
`Store`, `StoreUnanswered` and `RedisDown` are that await: SET NX EX answered,
applied without an answer (the client sends it again, or gives up), or not
applied. `clock` counts half seconds, since the code compares whole seconds
(`Now`) and Redis does not; worker and Kong may be `Drift` apart, and a SET may
take up to `MaxStall` to arrive. `Forget` is a Redis that loses the entry.
The hash is taken to be unforgeable.

### KeySet

One worker. `jwks` is `_jwks_cache`, `holder` the lock, `user` each request
between `get_jwks` and its verdict. Everything after the answer of `get_jwks`
runs without an await (`Verify`), so a cached set is used and perhaps dropped in
the step that reads it. `Rotate` and `Retire` are Keycloak's; `Respond` is the
moment its answer is made, `InstallKeys` the moment it arrives. A disconnect is
`Leave`, which releases the lock. Of a token only its key and whether all else
about it is in order are kept.

### WorkerStart

`phase` is a worker's place in `lifespan`: `CreateAll`, `CheckEmpty`, `Seed`,
`SyncPolicies`, `ArmFirst`, `LoadClassifier`, `WarmUp`. `Fail` ends a process at
any step, for any of the reasons the code has; where the code can only fail (a
table or a seeded policy another worker was faster with) it is the only way on.
`armed` is `_patterns`; a reload of an admin reads in one step and installs in
another (`ReloadRead`, `ReloadInstall`), and so does a scan: `ScanRegex` uses the
list, `ScanVerdict` follows the await on the injection model. Patterns come in
three kinds by their weight, and one that does not compile. What the first
reload of a worker arms, and what a pattern added to a database without one
disarms (the static list is a fallback, not a base), is as in the code. Of the
changes to policies only the deletion is here, since it can empty the table; a
PUT that switches a seeded policy off is left out (`PolicySync` has it).

### Intents

`pod` is a pod of the classifier, production (`hybrid`) or trial. Its
fingerprint is made of taxonomy and model. `StartPod`, `FlushOne`, `FlushEnd`,
`StopPod` are its life; the flush deletes what its scan meets, key by key, while
others may fill. A call is `Receive`, `Lookup` (LRU, then Redis), `Classify`
(rules, model and keywords, as `classify_text` joins them), `StoreAnswer`, and
`Route` in the backend's client. Redis may fail in `Lookup` and `StoreAnswer`.

### AnswerStream

`text` is what the provider has sent, `carry` the buffer, `shown` what the
client has. `PassToken`, `OpenAIDone`, `OllamaDone`, `OllamaEnds`, `GeminiPiece`,
`GeminiDone` are the chunks of the three clients; `Garble` is a line that cannot
be parsed. An answer in JSON is `GuardedAnswer` where the client returns a
message, as OpenAI's and Gemini's do, and `OllamaAnswer` where it returns the
body under another key (`ollama_client.py:53`): `submit_json` then finds no text
to redact and returns the body as it came. `Redact` runs rules in
order over the text, each with the word boundaries of the code, as the scan that
`finditer` and the replacement are; there is one rule of fixed length and one of
varying length. `StreamAssumption` asks for a carry of at least two characters:
one less than the match of fixed length, as the code's 30 are more than the 10
that a social security number needs. `RequestLifecycle` has rows, metering and
failures of the same path.

`ShownIsGuarded` makes one exception, which is the code's: after "d-" and then
"dddd" with three characters carried, the client has "d-d[r]". The run of digits
was replaced when its end had not come, and what stands before the placeholder
looks like a whole match. It is none of the answer, where a digit follows it, so
the property asks that such a match be followed at once by a placeholder. It
asks nothing of the matches in Ollama's JSON answers, which nobody guards: that
is the finding of `answer_json`, whose `JsonIsRedacted` TLC finds to hold of the
other clients' answers of the same size.

### EdgeAdmin

`routes` and `plugins` are Kong's. Each handler is one action per call of
Kong's admin API (`ReadRoutes`, `ReadPlugins` for the report, `ListRoutes` and a
`ListPlugins` per route, `ReadServices` and `PostRoute` for auto_register); an
operator of Kong may act between any two (`AddRoute`, `RemoveRoute`). A path is a
sequence of tokens, as prefixes and the names made of paths need.

### ChatClient

The conversations, the one shown, and per send its reader. `Send` includes the
guard's verdict (pass, warn, block), `Accepted` .. `Break` are what the reader
meets, `Settle` is its `finally`. A reader writes to the last message of
whatever is shown. React's state updates are one step with their causes.

### Computations

Functions without state, each written as the code computes it and compared with
what it is meant to compute over samples that `Pick` draws: check digits, the
inspector's fold, the message guard, the decision on policies (Rego against the
Python fallback), a configuration flattened and restored, the text of a file,
the status of a failure in SSE and JSON.

### Composition

`MCPlatform` puts independent components side by side: `PolicySync`,
`WorkerStart`, `KeySet`, `GatewayNonce`, `Intents`, `EdgeAdmin`, `ChatClient` and
`AnswerStream` by EXTENDS, so that their assumptions are checked and their
theorems are about the very properties it checks, `Computations` as an instance.
They share no variable (what one decides, the others have as a choice), so
`part` picks the one a behaviour moves while the rest stay in one initial state:
the states of the run are the sum of its parts, not their product.

## 4. Runs

| Run | Instance | What it shows |
|---|---|---|
| `lifecycle` | one stream or two JSON requests, two connections, all transaction faults, one crash, 3 token frames, 2 policy results | `ProviderGated`, `ResultMatchesRow`, `Metered`, `FrameOrder`, `ImplementsContract`; `EveryRequestEnds`: two requests may each hold one connection and want another, and the checkout timeout resolves it |
| `lifecycle_denial` | one request, no faults | finding: the DENY of the permission check is never committed |
| `lifecycle_blocked` | one request, no faults | finding: a blocked prompt has no row |
| `platform` | policies: one worker, one replica, one admin call at a time, two policies, two changes; the other parts as below | `StandingPolicyEnforced`, `DenialJustified`, `InSyncHonest` while pushes fail, go unheard, and OPA is out; `ServesSeeded`, `StandingPatternBlocks`; `RefusedOnce`; `AcceptedOnce`; `AnswerFitsPod`, `ColdCache`; `ShownIsGuarded`; `ReportSound`; `AnswerInPlace`; `ChecksMatchReference` |
| `policy_fleet` | two workers, two overlapping syncs, two replicas, one restart | `LoneSyncHeals`: a sync that runs alone repairs what the races left |
| `policy_overlap` | one worker, two overlapping admin calls | finding: a policy acknowledged as in force is not enforced, in spite of OPA_FAIL_CLOSED |
| `receiver` | three records, one slot, one place in the queue, high-water mark 1, two days, one failed file, up to two signals to stop | `BooksBalance` (slots, waiting records and order), the sinks' properties, `ExitSettles`, and under fairness that what is taken is written |
| `receiver_wakeup` | two records, a healthy disk, one day | finding: a wakeup is lost and every later record waits |
| `quota` | two requests, two tenants, two days, one worker, two admin changes, restarts or losses, three metered answers | `OvershootBounded`, `CounterWithinLedger`, `OneTenantAtATime` |
| `routing` | one worker, one admin reload, two editors, one request, one intent, two services (one protected), two configurations, two changes, one failure or restart | `ReloadTakesEffect`, `AuditReplays`, `ServiceOutlivesRequest`, `DispatchedAsJudged`, `RoutesCatchUp` |
| `routing_refresh` | one worker, one change, one failed query | finding: a running worker stops following the table |
| `answer_json` | answers of four characters in both JSON forms | finding: Ollama's JSON answers reach the client unredacted |

Bounds. Requests share only the pool, so one request suffices for all that
concerns rows, frames and audits, and two for the pool: with two requests and
two connections both can hold one and want one. In `lifecycle` these two are
JSON requests and a stream is alone (`MCNext`), since two streams have too many
states; the safety theorems cover any number of both. Three token frames give a
first, a middle and a last; two policy results give an ALLOW before a DENY and
a DENY before an ALLOW. In `platform` two policies and two changes let one
policy be standing while another changes; races need two syncs, and staleness
one change between two reads. In `receiver` a high-water mark of 1 makes every
record fill the stream, and three records with one slot and one place fill the
queue, drop one, and leave one waiting for the drain; two days give one
rollover; two signals let a second shutdown overtake the first. In `quota`
limits of 0 and 2 with a price of 1 put a counter below, at and over its limit;
two requests overshoot; one resend doubles a charge.
With one worker the files of others cannot matter, since only `used` is shared,
which the requests of one worker already race for; the proof covers any number.
In `routing` workers share only the tables, so one suffices; two changes let a
mapping move away from a service and the service then go or change, and put a
reload's query before, between and after them. `MCRouting` lets an edit be
under way only while no request is and no query of an admin's reload is
unanswered, and two edits only while no worker runs: between its read and its
commit an editor shares nothing but the row, and a request or a query sees its
commit alone. An edit may pass while the answer of an admin's reload waits to be
installed, so an old cache installed after a newer one is among the states.

The other parts of `platform`. Startup: two workers that may both seed, two seed
policies (so that half of the file is a state), a blocking pattern and a broken
one beside the static two (one blocking, one contributing), two reloads beside a
scan, one failure, one edit. Keys: two requests and two keys, one rotation of
which can fall into a fetch. Nonces: one signed request with three deliveries, a
window of one second and a nonce life of three, clocks and Redis one half second
off, nine half seconds, so that the window, the life and what lies after both
pass. Intents: two pods, two versions of a taxonomy and two starts, so that an
old pod serves beside a new one, with one call at a time: what an old pod leaves
for a new one it leaves in Redis. Answer: six characters in tokens of up to
four with three carried, so that a match of three lies across any boundary, a
token outgrows the carry and a run may be cut by it. Edge: two administrators, two backend paths one below
the other and one that auto_register names like it, three changes. Chat: two
conversations, two sends, two switches, one piece of text per answer;
`Uncrossed` ends a behaviour where the user sends or leaves beside a stream,
since the property promises nothing from there on. Computations: card digits 0,
1, 5, 8, 9 (each case of doubling) of length 4, IBANs of length 6 in chunks of
3, up to three findings, two sends per window of three ticks, two policies,
configurations of depth two over two keys, files of up to six characters under a
limit of five, and all nine kinds of failure.

Deadlock is not checked where the modelled part really stops: requests that
have all ended, a receiver that has exited or has no record left, bounded
numbers of answers and changes. `policy_fleet`
and `routing` are checked for it.

Fairness. `lifecycle` assumes that the event loop runs every request that
can go on (weak fairness of `Step`); gates and databases answer because every
client used has a timeout. `receiver` assumes that woken handlers run, that the
disk takes what a stream holds, and that an insert settles. The last is an
assumption about Postgres: `postgres.js` sets no query timeout, and the remark
in `bounded_queue.js:11-12` that a stuck worker will not deadlock the queue is
true only of workers that settle. `routing` assumes that the refresh task's
timer fires and that a query that does not fail is answered and installed.
Nothing assumes that a client sends, that
midnight comes, or that a failure happens.

## 5. Proofs

Each proof module extends its component's module, and every theorem holds for
all values of the constants that satisfy the named assumptions.

- `RequestLifecycleProofs`: `TypeCorrect`, `ProviderGatedAlways`,
  `MeteredAlways`, `ResultMatchesRowAlways`, `FrameOrderAlways`, `Implements`;
  from `ConstantsAssumption`. `ProviderGated` is
  not inductive: a step can only call the provider because of where the request
  is. `IInv` says for each request what its `pc` implies: what the scan said
  and what has been flushed and committed before each gate (`NothingYet`,
  `ScanVerdict`, `Flushed`, `Recorded`), what the results still to be audited
  can hold (`PolicyVerdict`), that a dispatched request has passed every gate
  (`Gated`, `Answering`) and how far metering has come (`MeteredAt`). A step of
  one request leaves what the others have (`StepSame`), so the proof is one case
  per action (`StepAt`). On it rests a second invariant, `Told`: a request has no
  result before it closes and a JSON answer's row is completed before its output
  guard runs (`EndAt`, which gives `ResultMatchesRow`), and while a request can
  still send tokens it has sent neither done nor error, and start before the
  first of them (`FrameAt`, which gives `FrameOrder`). `StepImplements` maps every step to one of
  `RequestContract` or to a stutter.
- `LogReceiverProofs`, the queue alone: `TypeCorrect`, `SlotsNeverLeak`,
  `QueueConservesWork`, `QueueIsFifo`, `BooksAlwaysBalance`, which joins three of
  them into the property the `receiver` run checks, and `RefusesOnlyFull`; from
  `QueueAssumption`. `IInv` joins the four with `Distinct` (an item is in flight
  or waiting, not both, and once), without which the counter and the set of
  running items could part. `DrainNone` and `DrainOne` say that on these states
  a drain starts no item or one: after a push or a settled worker no more than
  one slot and one item can meet.
- `LogReceiverProofs`, the whole receiver: `ReceiverTypeCorrect`,
  `FiledOnTheDayItArrived`, `PostgresComesAfterFile`, `ExitHasSettled`; from
  `ReceiverAssumption` as well. `ReceiverRunsTheQueue` says that the receiver
  takes no step of the queue that `BoundedQueue` does not have, so all of the
  above holds inside it. The hard case is a handler that waits for "drain" while
  midnight, an error or the shutdown passes: it writes to whatever stream is
  current when it wakes. `WaitInv` and `WokenInv` say that one who was woken by
  a drain finds the stream of his own day current and open, and one who was
  thrown out finds that stream failed; `HeldInv` that what a stream has taken
  are records of its day, each once and none that still waits; `OfferedInv` that
  what Postgres was given is held or its stream has failed; `CloseInv` that
  the day's stream is written out once no shutdown waits for it, and that whoever
  exited had waited for the pool or met one already ended; `StopInv` that only
  the shutdown which ended the pool finds it open, and that what the pool had not
  taken by then is what `drainAndWait` gave up. With one signal the two cannot be
  different shutdowns, which gives `ExitSettles`.
- `QuotaProofs`: `TypeCorrect`, `OvershootBoundedAlways`,
  `CounterWithinLedgerAlways`, `OneTenantAlways`; from `QuotaAssumption`. The
  bound is not inductive, since a charge needs room that another request may have
  taken. The invariant reserves it: for each tenant,
  counter plus one `Share` for each of its requests already admitted by today's
  counter stays below the limit plus one `Share` per request plus `excess`, where
  the limit is `Ceiling`, the highest any tenant may get, and the requests are
  those of all tenants: limits change under way, so a tenant's own is no bound.
  Admission is the step that takes a reservation, and the test
  `current_usage < max_tokens` is what pays for the first. `Backed` covers each
  counter together with the tokens logged and not yet charged by the usage rows;
  the sum over requests is the size of the set `Owed`, a pair for each token, so
  that no induction is needed. `Loaded` says that a worker whose file can be read
  enforces that file, which makes an update a change of one tenant.
- `RoutingProofs`: `TypeCorrect`, `ReloadTakesEffectAlways`,
  `AuditReplaysAlways`, `ServiceOutlivesAlways`, `DispatchedAsJudgedAlways`; from
  `RoutingAssumption`. The invariant has three groups. `Dated`, `Carries` and
  `OwnLoad` date what a reload carries: its snapshot is an entry of the history
  since it began, and a worker that is down has no reload of its own, which
  could otherwise bring it up with an old cache. `RowsStay` and `ReadIsRow` say
  that what an editor has read is still the row unless a race is on record;
  then the columns written and the payload logged have the same effect
  (`DirtyEnough`). `Held` and `OnItsWay` say that a committed request's row
  holds its service by the foreign key.

- `GatewayProofs`, nonces: `NonceTypeCorrect`, `AcceptedOnceAlways`; from `WindowAssumption`, which says
  that twice the skew, the drift and the stall together stay below the nonce's
  life (the code's `max(max_skew * 2, 60)` leaves room for both). The invariant
  is a race of two deadlines: a delivery in the window is stored before
  `Limit(m)` (`InTime`), and the entry of an accepted request expires after it
  (`Kept`).
- `GatewayProofs`, keys: `KeysTypeCorrect`, `RefusedOnceAlways`; from `KeysAssumption`, that the values for
  "nobody" and "no key set" are not a request and a key. `LockInv` says that
  only the lock's holder fetches and that the cache is empty meanwhile, so no
  verification can drop or use a set beside a fetch; `CoverInv`, that whatever
  set is cached or on its way has every published key that was ever missed.
- `GatewayProofs`, Kong's plugins: `EdgeTypeCorrect`, `ReportsAreSound`; from
  `EdgeAssumption`, that the backend has finitely many paths and at least one
  (it has the report's own). A report is joined from two answers of Kong, so the
  invariant has to say what an old answer is still worth: `Seen`, that no route
  with the id of one that was read is another one, so that a plugin read later
  by that id is that route's (ids are never given twice); `ListedSo`, that a
  list which nothing changed beside is Kong's state row by row. The percentage
  is rounded down, and `FullPercent` says that it is 100 only when all are
  covered.
- `IntentsProofs`: `IntentTypeCorrect`, `AnswersFitTheirPod`,
  `FlushedPodStartsCold`; from `IntentAssumption`, which for the taxonomy says
  only that "unclassified" is not a label of its own. Redis is shared by pods of
  different versions, so `RedisInv` speaks of keys, not of pods: an answer's
  label is in the taxonomy its key names, and, for a production pod that is
  alone, is its own unless the key is still to be flushed (`todo`). `LruInv`
  says the same of each pod's own cache. `SoundFor` is what holds of a request
  under way: until it is answered its pod is the one that took it, with the
  version it then had, and an answer on its way to the caches is that pod's own.
  `MergedFrom` says which of the three classifiers a merged answer can come from.
- `GovernanceProofs`, starting workers: `StartTypeCorrect`, `ServesSeededAlways`,
  `StandingPatternBlocksAlways`; from `StartAssumption`. `StartTypeCorrect` includes
  that no worker ever scans with an empty list of patterns (`StartRest`).
  `SeedInv` says that the table has all of the file or nothing until an administrator deletes, and what each phase has seen of it. For the
  patterns, `StandingInUse` relates what stands to what is armed, `RowsHold` says
  that a reload under way carries what stands at its worker, and `SoleIsAlone`
  that one marked as alone is.
- `GovernanceProofs`, syncs of any number of workers, replicas and overlapping calls, with
  restarts: `FleetTypeCorrect` and `LoneSyncAlwaysHeals`; from
  `PolicyAssumption`. `LoneInv` says that a sync marked alone is the only
  one under way, has read what the table still holds, has it in its cache from
  `Install` on, and after `Push` in a replica; whatever could spoil that takes
  the mark.
- `GovernanceProofs`, syncs of one: `StandingPolicyAlways`, `DenialJustifiedAlways`,
  `InSyncHonestAlways`; from `PolicyAssumption` and `Serial`: one worker, one OPA
  replica that does not restart, one admin call at a time, OPA_STRICT_SYNC. Each
  part is needed: `policy_overlap` shows what two calls do, a second worker may
  ignore OPA's denial, a restart drops the data. `InForce` says that cache and
  OPA hold states of the table no older than the last acknowledged one, `SyncInv`
  what the sync under way carries, `HonestInv` that OPA has what is recorded as
  pushed or what an unfinished push has brought, and `AskInv` that a set of
  blocking policies OPA named was right at some time since the evaluation's
  floor.

- `AnswerProofs`, the stream: `AnswerTypeCorrect`, `MatchesStayHidden`; from
  `StreamAssumption`, for answers and tokens of any length. `Replaced` is a
  recursive function over the text, so the proof begins with induction over
  data: `NatSetInduction` is induction for a set instead of an operator, from the
  least element of what the set leaves out, and `UpTo`, `Iterates` and
  `SeqSetInduction` are the forms of it used here (a recursive function exists,
  what holds of each step holds at the end). `Traced` relates every character a
  scan puts out to the place in its input it came from, or to a placeholder; by
  it a match of fixed length in the output was one in the input (`NoNewMatch`:
  a replaced match had no word character beside it, so none of its neighbours is
  part of another), the first two characters stay or become a placeholder
  (`StartKept`), and the letters are kept (`ReplacedLetters`). The invariant adds
  to the property what makes it inductive: once anything is sent, at least two
  characters are carried (`Held`). A match that began in what was sent would
  then lie wholly in what was sent and carried before, where there was none.
- `AnswerProofs`, the chat: `ChatTypeCorrect`, `AnswersStayInPlace`; from
  `ChatAssumption`, that the bounds are numbers and one conversation may be
  open. A reader writes to whatever message is last, so `Core` says where every
  bubble is: the one being read is the last of the conversation shown and no
  other message is its answer. `Fit` says of each message what it can be of the
  reader it belongs to; of a bubble that still shows a cursor, that its reader
  is under way or broke off without being told, so that a later reader which
  seals "the last message if it is streaming" cannot touch a finished answer.
  Every step of a reader comes down to `Written`: if the messages it shows fit,
  all do.

Model-checked only: every liveness property and everything under fairness
(`EveryRequestEnds`, `BufferedReachesFile`, `AcceptedIsInserted`,
`RoutesCatchUp`), which is out of reach of the prover; and `ChecksMatchReference`,
which compares computations with reference definitions over samples, and whose
module uses RECURSIVE operators, for which the prover has no SMT backend.
`PartsTypeOK` is checked as a whole and names that module's types as well; all
its other parts are theorems (`FleetTypeCorrect`, `StartTypeCorrect`,
`KeysTypeCorrect`, `NonceTypeCorrect`, `IntentTypeCorrect`, `AnswerTypeCorrect`,
`EdgeTypeCorrect`, `ChatTypeCorrect`).

## 6. Findings

Six runs end in a violation; each states what a document or a comment of the
repository says, and `PROJECT.json` quotes it.

1. The DENY entry of a permission check is flushed and rolled back
   (`ai_request_service.py:559`).
2. The status "blocked" is set before the row exists
   (`ai_request_service.py:719`), so the report that counts blocked prompts
   counts none.
3. Two overlapping policy changes leave the older one in force while both
   hashes agree (`policy_service.py:155-184`).
4. When a full stream drains while nobody waits, `_needsDrain` stays set and
   every later record of the day waits for ever (`kong-logger/sinks/file.js:76`).
5. One failed query ends a worker's refresh task: it goes on routing by the
   mappings it had (`intent_cache_service.py:79`).
6. Ollama's client returns a JSON answer without the key under which
   `submit_json` looks for its text (`ollama_client.py:53`,
   `ai_request_service.py:1017`), so the output guard is skipped and no
   redaction is recorded.

Seen in the models and documented, but with no run of their own:

- A provider stream that ends without a done chunk ends the response with
  neither a done nor an error frame (`ai_request_service.py:878`, against
  `docs/study/05-ai-orchestration.md:81`).
- OPA's denial counts only for policies the worker's own cache knows
  (`policy_service.py:416`): with several workers one that has not synced lets
  such a request through.
- After a restart of OPA `in_sync` stays true of policies OPA no longer has
  (`policy_service.py:114`, against lines 85-87): `InSyncHonest` is checked
  with no restart of OPA, and `LoneSyncHeals` with one.
- `POST /admin/intent-mappings` ignores the payload's `is_active`
  (`app/services/intent_mappings_service.py:56`), and an empty `api_key` in a
  PATCH clears the key, although `app/schemas/ai_service.py:71` says "don't
  touch".
- A push reaches one OPA replica of the two in `k8s/application/opa.yaml`.
- Handlers that wait on a stream when its day ends may never be woken
  (`kong-logger/HARDENING.md:79-80` accepts it); after one "drain" all waiters
  write at once, so the buffer exceeds its mark; after a stream error the sink
  refuses records until the next day.
- Exit code 0 of kong-logger does not mean that all is written. After the five
  seconds of `drainAndWait` its answer is ignored, the pool is ended, and what is
  still queued is lost (`bounded_queue.js:86`, `sinks/postgres.js:128-135`,
  `server.js:157`); exit(0) also follows an exception. A second signal can exit
  with 0 while the first shutdown still waits for its file or its inserts, and
  streams of earlier days are not awaited at all. The states are in the model;
  `ExitSettles` is what is left.
- A garbled `quotas.yaml` makes every PUT fail, and a restart on it gives every
  tenant the limit 0; after an empty one the next PUT leaves every other tenant
  at the default. `OneTenantAtATime` is about files that could be read, and does
  not cover this.
- Overlapping edits of one mapping mix their columns, and the audit log then
  replays to other rows: `AuditReplays` leaves out the mappings that were raced.
- The dashboard (`app/main.py:419-424`) reads keys that `get_quota_status` does
  not return.

- The discovery report calls a path protected also for a plugin that is switched
  off, and takes the first route that matches where Kong takes the longest
  (`app/api/admin/gateway_plugins.py:357-397`); auto_register gives `/a-b` and
  `/a/b` one name, so the second is refused.
- The flat form of a configuration cannot hold a key with a dot, and PATCH skips
  empty values, so a field cannot be cleared from the portal.
- The alias "on premises" is normalised to "on-premises" before the look-up and
  is no alias any more (`app/services/policy_service.py:46-62`).
- A tenant that is absent is "unknown" to the session's scope and "tenant-a" to
  the request (`app/infrastructure/db/session.py:53`,
  `ai_request_service.py:424`).
- A policy that cannot be evaluated is a 500 in SSE and a 503 in JSON, a
  security violation a 400 in SSE and a 403 in JSON; the browser treats each
  pair alike, which is what `ChecksMatchReference` asks.
- A chat reader writes to the last message of the conversation shown at that
  moment (`AIChat.jsx:483`), the done frame frees the composer before the reader
  has ended, so that its `finally` (587) can clear the controller of a second
  stream, and a broken connection (572) or a stream without a final frame leaves
  the bubble marked as streaming. `AnswerInPlace` is about users who do neither.
- The first pattern put into the table replaces the static list
  (`prompt_security_service.py:304`) instead of adding to it.

## 7. Not modelled

Regular expressions, Presidio, model inference, text normalisation and the
reading of PDFs and images are choices of the models. The access-log transform
renames fields of one record. The catalogue of plugins and `list_plugins`, the
reports, the dashboard and the health endpoints are single reads; log retention
is one transaction of deletes by age; the taxonomy and Vault are read once per
process. The tenant-restriction plugin compares a claim with a header of one
request. Row-level security and the ORM tenant filter are predicates on rows:
the settings of `get_db_with_user` last for one transaction, but whether they
decide anything depends on the database role, which the repository's
deployments give the rights of an owner; the modules here look at one tenant's
rows at a time or name the tenant. The admin portal is forms over the admin
API. Deployment files are read for replica counts and switches only.
