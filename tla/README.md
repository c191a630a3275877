# AZTDP: TLA+ models and proofs

This directory holds the formal models of the Adaptive Zero-Trust Defense
Platform: TLA+ modules translated from the source, TLC configurations that
check them on small instances, and proofs checked by TLAPS for every value of
the constants. `PROJECT.json` lists components, runs, mutants, findings,
hazards and theorems, and maps every definition to the lines it stands for.

Run a check with `tlc -workers 2 -config X.cfg M` and a proof with
`tlapm M.tla`. No run takes more than three minutes on two cores.

## 1. The system

A protected request passes four services:

    client -> application -> risk engine -> (anomaly service)
                          -> policy gateway -> (Redis: revoked?) -> OPA
                          -> policy gateway: revoke -> Postgres, then Redis

| Component | Source | State | Operations | What makes it correct |
|---|---|---|---|---|
| Revocation store | `services/gateway/revocation_store.py` | Postgres rows, Redis keys with TTL, one resync thread per worker | `revoke`, `is_revoked`, `resync`, start, stop | acknowledged means durable; a revocation outlives its token; lost keys come back |
| Policy gateway | `services/gateway/app.py` | none of its own | decision, revoke | a revoked token is never asked of OPA; a failed insert is never "revoked" |
| Policy | `policies/opa/rules/authz.rego` | none | one decision | the ladder deny, revoke, stepup, allow |
| Risk engine | `services/risk-engine` | one last-seen key per token in Redis | `evaluate_risk` | an address change within the window is a replay; the score stays in 0..1 |
| Django enforcement | `services/django-app/core/middleware.py` | none of its own | one request | the order of calls, FAIL_OPEN, deny on any revoke |
| Django step-up | `core/stepup.py`, `core/views.py` | challenges, counters, spent codes in Redis | create, verify | a code is used once, tokens stay bound, guesses are limited |
| Spring filter | `RiskEnforcementFilter.java` | none | one request | as Django, without step-up tokens |
| JWT verification | `core/jwt.py` | JWKS cache per process | verify | only current keys |
| Client address | `core/client_ip.py`, `ClientIpResolver.java` | none | resolve | forwarded headers only from trusted proxies |
| Telemetry | `gateway/telemetry.py`, `risk-engine/telemetry.py`, `telemetry-ingest` | executor queue; audit, per-type and session tables | emit, attempt, time out, retry, ingest, shut down | what counts as delivered has all its rows; a retry adds one at most; what is accepted is settled |
| Anomaly service | `services/anomaly-service` | model in memory, files with signatures, version in Redis | score, start, load, train, save, publish, reload | what is published loads; never published backwards; the service settles on the published model |
| SOC dashboard | `services/dashboard/src/App.jsx` | events, health, metrics, route, drawer, timeline, inspector, charts | poll, navigate, replay, search, launch | panels of one screen agree; what is shown belongs to what is selected |
| Attack simulator | `services/attack-sim/api.py` | running marks, one generator per launch | launch, stream, finish | a mark has an owner; the log is the stream |
| Sentinel console | `sentinel-command-main/src` | pages, drawer, feed, exercise console, toast queue | navigate, open, search, exercise, notify | as the dashboard; no state from which it cannot be drawn |
| Forensics, migrations, backup | | read-only or operational | | |

How they interact, and what is hard about it:

- **Calls with timeouts and no retries.** The applications call one service at
  a time with sub-second timeouts. The service that was given up on goes on,
  so its effects arrive although its answer is dropped.
- **Shared Redis.** Gateway, risk engine and Django run several processes
  (2, 2 and 4 in `docker-compose.yml`) over one Redis with
  `appendfsync everysec`: it can lose the last second, or be flushed. Every
  check-then-act of several round trips interleaves with those of the others.
- **Two stores.** Revocation writes Postgres, then Redis, and heals Redis from
  Postgres in the background.
- **Time.** Token expiry, key TTLs, the replay window, TOTP steps and floored
  seconds meet at boundaries.
- **FAIL_OPEN**, separately in each application and in the gateway.
- **Screens.** A page holds answers that were asked for at different times and
  arrive in any order: polls overlap, searches and replays cross, streams are
  cut anywhere, timers outlive what they were set for.
- **Fire-and-forget.** Telemetry is retried without an idempotency key against a
  service that writes three rows without a transaction.

The hazards this leads to are listed in `PROJECT.json`, each at its line, with
the properties that would notice it going wrong or the reason none does.

## 2. The modules

| Module | Models | Checked by | Proved in |
|---|---|---|---|
| `RevocationStore` | the store: calls, workers' resync passes, two servers, losses, the clock | `RevocationStore`, `RevocationShorten` | `RevocationStoreProofs` |
| `RevocationProperties` | what is required of it, and its inductive invariant | | |
| `RevocationLedger` | the abstract promise: recorded, answered, visible | refined by the store and by the chain | `ImplementsLedger` |
| `StepUp` | challenges and TOTP verification, one action per Redis round trip; its inductive invariant | `RequestPath`, `StepUpOneShot` | `StepUpProofs` |
| `RiskEngine` | `evaluate_risk` over the shared memory | `RequestPath`, `RiskReplayRace` | `EnforcementProofs` |
| `PolicyLadder` | the Rego rules as an operator | through the chain | |
| `EnforcementChain` | a request through application, risk engine, gateway and policy, with revocation and step-up; extends `RiskEngine` and `PolicyLadder` | `RequestPath`, `StepUpRequired` | `EnforcementProofs` |
| `TelemetryPipeline` | the gateway's sender and the ingest service with its three statements | `Consoles`, `ConsolesLive`, `AuditRows` | `BackgroundProofs` |
| `SocViews` | what the SOC dashboard computes and draws from the data it holds, as operators | through the four below | `SocProofs` |
| `SocPolling` | its polling loop: overlapping polls of three legs each | `Consoles`, `ConsolesLive` | `SocProofs` |
| `SocWorkspace` | its pages, drawer, session replay and charts | `Consoles`, `SocCharts` | `SocProofs` |
| `SocInspector` | its search with a second call | `Consoles` | `SocProofs` |
| `SocSimulator` | its simulator panel in several tabs, and `attack-sim/api.py` | `Consoles`, `ConsolesLive` | `SocProofs` |
| `SentinelViews` | the generated data and the components of the Sentinel console, as operators | assumptions of `MCConsoles` | |
| `SentinelConsole` | its pages, drawer, feed, search, mocked and real client | `Consoles`, `SentinelClick` | `SentinelProofs` |
| `SimConsole` | its exercise console | `Consoles` | `SentinelProofs` |
| `ToastQueue` | its notifications | `Consoles` | `SentinelProofs` |
| `AnomalyModel` | the life of the anomaly service's model: startup, load, fit, save, publication, hot reload, retrain | `Consoles`, `ConsolesLive`, `AnomalyPair` | `BackgroundProofs` |
| `Lists` | the array methods of the console code (`filter`, `reduce`, `sort`) | through the modules that extend it | `ListProofs` |
| `MC*` | instances for TLC; `MCRequestPath` composes `EnforcementChain` (and through it `RiskEngine`) with `StepUp`, `MCConsoles` composes `TelemetryPipeline`, `AnomalyModel` and the console modules | | `MCConsoles` in `ConsolesProofs` |

### RevocationStore

`rowExp` is the table, `cache` the Redis keys with the second they expire,
`pc`, `tok`, `arg` the calls of `revoke_token`, `rpc`, `left`, `cur` the resync
pass of each worker. A call is insert, cache write, answer; each may fail, and
the insert may fail in doubt (the row is there or not). A pass reads the rows
and the clock, then for each row tests the key and writes it, in two steps as
the code does; it aborts at the first Redis error. Workers start with a pass
and may stop at any point. Faults are counted by `MaxFaults`. Acknowledged
tokens and tokens whose key was lost or refused (`acked`, `missed`) are history.

### StepUp

Each Redis round trip of `step_up_verify` is an action; a code is the TOTP
counter it matches, or `Wrong`. Time counts in steps of 30 s; gunicorn kills a
worker after 30 s, so a request sees at most one boundary (`slow`). A request
may end between any two actions (`Abandon`).

### RiskEngine

An evaluation is a GET, a score that reads the clock and calls the anomaly
service, and a SETEX. Scores are in ten-thousandths, the precision the code
rounds to; `WithAnomaly` agrees with the floating-point code on every pair
of a risk that the default weights can produce and an anomaly score of four
digits. `blurred` is history: a token is blurred when two of its evaluations
from different addresses were in flight together, when Redis lost its key, or
when a request without an address was remembered.

### EnforcementChain

`app[r]` is the application's side of a request, `eval[r]` the risk engine's
and `gw[r]` the gateway's: three processes, so a timeout leaves the other two
running. The revocation store appears through its ledger and the loss and
restoring of keys; that the store keeps that ledger is what `ImplementsLedger`
proves. Step-up verification is one step, its details are those of `StepUp`.
Route and client are chosen so that one drift asks for step-up (0.85 on a
read) and one revokes (1.0 on a payment).

### TelemetryPipeline

An event is queued, taken by a thread, and posted up to `ATTEMPTS` times; each
attempt is a request of its own in ingest, which goes on after the sender has
timed out, and fails between any two of its statements. `exiting` is the
shutdown of the executor, which works its queue off; a killed process forgets
it. A revocation has a key of its own (`ON CONFLICT`), the other types do not.

### AnomalyModel

`pkl` and `sig` are the files of each version, `published` the key in Redis,
`memory` the fields of `AnomalyModel`, `job` what each thread is doing: `main` is
startup, `reload` the hot reload thread, each member of `Trainers` the scheduler's
thread or a request to `/v1/anomaly/retrain`. A version is `V1` (v1.0) or the
second a training began in; a fit is a number, so that a bundle whose forest and
score range come from two fits is told apart (`score_min` and `score_max`, always
written together, are one field, `scale`). `save` pickles what is in memory anew, and
what was unpickled need not give the bytes it was read from: `copy` tells the bytes of
a file apart, and a file and its signature are equal when the signature verifies.
`resaved` is history: other bytes were written over a signed file (`unsigned`, until
`model.py:119` signs them).

`fit` and `load` change the memory in one step (`load` makes four plain assignments,
which CPython does not divide; of those of `fit` only another training's `save` could
see half). `save` reads it without the lock,
field by field, and writes two files; publishing reads the version again. Each of
these is an action, so hot reload comes between any two of them. A failed Redis
call, a failed write and a kill are `MaxMishaps`; a failed write or a kill during
startup ends the process, which the container's restart policy starts again.
`ReadVersion` waits for the next second after a retrain began: in between the
code scores at least a thousand rows one by one, and a score is tens of
milliseconds (`docs/PERFORMANCE_BASELINE.md`).

History: `contended` says that two trainings were at work at once, or that a fit
met a hot reload still working on an older answer of Redis; `undone` names the
retrains whose fit hot reload has replaced. With a retrain at work, hot reload
finds the version in memory different from the one in Redis and loads the old
model over the new one: that is in the model, and `RetrainTakesHold` says what
comes of it. If hot reload does so before `save`, the retrain writes the published
version again, and between `model.py:118` and `119` - for good, if the process is
killed there - that version does not load. The properties name each case they leave out.

### SocViews, SocPolling, SocWorkspace, SocInspector, SocSimulator

`App.jsx` is one component whose states change in parts that never read each
other's: the modules are these parts. `SocViews` holds the derived values
(`decisionCounts`, `rollup`, `heatmap`, `alerts`, ...) and the rows each panel
draws from them. A poll is three legs that settle apart; headers come within the
client's timeout, which is shorter than the interval, but a body may take
longer, so polls overlap there (`overlapped` is history). In `SocWorkspace` a chart is made
on the canvas of the first commit, if chart.js knows its type (`Controllers`). The source
registers no controller, so `new Chart` throws in the effects of the first commit and,
with no error boundary, React takes the page away: `soc_charts` shows that, with
`Controllers = {}`. Everything the other runs and the proofs say of the dashboard after
its first commit is about a build that registers the two controllers (or imports
`chart.js/auto`); with the source as it is nothing of it can be seen. `raced` says that a replay was asked for while
another was in flight. `SocInspector` is a search of two calls. `SocSimulator`
joins the panel of each tab to the service: `plan[r]` is what a generator has
still to do, `wire[r]` the text that has not been read, `buffer[t]` the half
line a read left over.

Scores are hundredths. JavaScript adds doubles, so the mean of the rows may come out a
hair below a hundredth: `avgRisk` takes that as an argument (`low`), and the gauge's
colour is a set (ten scores of 0.8 average 0.7999999999999999, which is amber while
every row is red: the one case `PanelsAgree` leaves out).

### SentinelViews, SentinelConsole, SimConsole, ToastQueue

`useMock` is the build: with it every answer is generated, without it every one
is an answer of a service or, after an error, generated again (`wrap`). `real`
marks data of a service, whose shape (`{"events": [...]}`) no page can draw.
`blank` is React's reaction to an exception with no error boundary: nothing is
left on the page. A drawer that has been closed is rendered until its exit animation
is over (`fading`, `DrawerGone`), its title with the incident's badge. The model has two
causes, and `BlankHasACause` says there is no third:

- `IncidentDrawer.tsx:24` passes `decision: event.decision`, which is undefined
  for eight of the twelve generated event types (`mock.ts:35-40`); the trailing
  `...base` of `genIncident` (`mock.ts:96`) writes it over the default, and
  `DecisionBadge.tsx:12` destructures `map[undefined]`. One click on such an
  event blanks the console, where `Overview.tsx:94` says "Click any event for
  forensics" (`sentinel_click`). Without `USE_MOCK` the incident may also land while the
  drawer slides out, or be found by the next one opened.
- Without `USE_MOCK`, the first answer of a service that reaches a list, or an incident
  found by the search: `Forensics.tsx:106` maps its reasons whichever tab is open. A
  replay found is rendered on its tab only and waits unseen until then.

The operations page asks no service in any build (`api.ts:31`), where its title says
"Live probes against /api/*/health" (`Operations.tsx:20`). That is read off one line of
the client and has no run; `OnlyFabricated` counts those services among what is made up.

`SimConsole` and `ToastQueue` are the exercise console with its six second timer
and the module-level queue of `use-toast.ts` with its removal timers.

`MCConsoles` puts these parts, the telemetry pipeline and the anomaly service's
model, which share no state, into one run: `focus` chooses one and the others keep an initial state, so the run
explores the sum of their state spaces and no product. Its assumptions check the
pure operators over small inputs: spark lines fill their box, the largest cell
of a heatmap is the critical one, relative times are right to half a unit,
colours are monotone, one link of the side bar is active, most generated events
carry no decision.

## 3. What the runs show

| Run | Properties | Result |
|---|---|---|
| `revocation_store` | `AckedIsDurable`, `RevocationOutlivesToken`, `AckedIsVisible`, `LedgerSpec`, `LostKeyIsRestored` (liveness) | hold |
| `revocation_shorten` | `ResyncNeverShortens` | violated: the comment at `revocation_store.py:227` claims more than EXISTS and SETEX give; no revocation is lost by it |
| `request_path`, risk engine | `TypeOK`, `ReplayNeedsGap` | hold |
| `request_path`, chain | `RevokedIsRefused`, `ChainLedgerSpec` | hold |
| `request_path`, step-up | `CodeAcceptedOnce` | holds; the 120 s of a spent mark are exactly enough, 90 s would not be |
| | `TokenBoundToChallenge`, `GuessesPerChallenge`, `GuessesPerUser`, `OrphansAreAccounted` | hold, with the excess that concurrency allows spelled out in the bounds: a challenge re-created by HINCRBY counts from 1 again, so each request in flight may go one guess beyond the "limited to MAX_ATTEMPTS wrong codes" of `stepup.py:3-4`, and one that its TTL destroys allows one more than one destroyed by a request |
| `stepup_one_shot` | `ChallengeIsOneShot` | violated: HINCRBY re-creates a challenge that was consumed, two tokens for one challenge |
| `risk_replay_race` | `IpChangeIsDenied` | violated: two evaluations in flight together are both accepted |
| `stepup_forgotten` | `StepUpIsRequired` | violated: the challenged client is already the known one, its retry is served |
| `consoles` | listed below | hold |
| `consoles_live` | `SplashEnds`, `FeedSettles`, `SimulationEnds`, `AcceptedIsSettled`, `ModelSettles` (liveness) | hold |
| `anomaly_pair` | `ReadersSeeAPair` | violated: a requested retrain publishes the version of a scheduled one's fit, whose files are not written yet |
| `soc_charts` | `OverviewHasItsCharts` | violated: no chart controller is registered, the dashboard blanks when it mounts |
| `sentinel_click` | `EventsCanBeOpened` | violated, with `USE_MOCK` too: the incident of an event without a decision blanks the console |
| `audit_rows` | `OneRowPerEvent` | violated: an attempt given up and made again leaves two audit rows, where the schema says "One row per enforcement event" |

The properties of `consoles`, besides the types of all parts:

| Part | Property | What it says |
|---|---|---|
| polling | `IndicatorIsHonest`, `NoStepBack` | the indicator is not left on, and the feed does not go back, until polls overlap; then an older answer may land last |
| views | `SessionsAgree`, `PanelsAgree` | session table, feed, charts, heatmap, alerts, cards and header are readings of the same data |
| workspace | `TimelineIsOfItsSession`, `RouteFollowsHash` | title and rows of a replay are of one session until two calls race; the page is the one in the address |
| inspector | `PanelsAreOfLastSearch` | results are of the search shown, until two searches cross |
| simulator | `LogIsTheStream`, `MarkHasOwner` | no line is lost, doubled or foreign wherever the stream is cut; a marked script has a generator that will unmark it |
| Sentinel | `OnlyFabricated`, `BlankHasACause`, `PanelsMatchSelection` | no answer of a service is ever displayed, though a replay may wait behind its tab; the two ways to a blank console; panels are of what is selected |
| exercises | `OneExerciseAtATime` | Launch and Stop tell the truth until a six second timer fires during an exercise |
| toasts | `DismissedWillGo` | a closed toast has its timer, and no timer is for a toast to come |
| anomaly model | `PublishedPairIsConsistent`, `RetrainTakesHold`, `NeverPublishedBackwards` | the version in Redis has a file of one fit, which loads unless it was saved over and is not signed again; a retrain publishes its own version or the one already there; versions only grow, unless v1.0 was saved over. All until trainings overlap or one fits while hot reload works on an older answer of Redis |
| audit | `DeliveredIsComplete`, `RowsAreBounded` | what is held for delivered has all its rows; an attempt adds one at most, which is less than the schema promises (`audit_rows`) |

Where a property has an "until", the model reaches the other side too: the history
variables `overlapped`, `raced`, `crossed`, `crossing`, `slipped` and `contended` name the
one event after which the code no longer keeps the promise.

Every property of a passing run has a mutant: a plausible bug in a definition
(an operator marked "Broken variant" in the module) with which TLC must find
the property violated.

### Bounds

- Revocation: two calls and one worker's resync thread, one token whose calls carry its `exp` or none, two faults, a clock
  of a few seconds with the grace and the TTL scaled down. Two calls and a pass
  are the actors of every race on one key; tokens do not interact in the code. The theorems remove the bounds for the safety part.
- Request path: `focus` chooses the risk engine, the chain or step-up, the others keep
  their initial state, so the run explores the sum of the parts and no product.
  `MCRequestPath` states each part's cuts.
- Risk engine: two threads, two clients that differ in everything, two faults, a window of
  2, a TTL of 3 and a clock to 3, so the window and the TTL both end. The anomaly share
  is small, and enough to pass 1.0 with every drift. The
  theorem covers every other choice, clients without an address included.
- Chain: two requests of one token, two clients, three routes (step-up, revoke,
  admin), one fault, FAIL_OPEN all off or on in Django and the gateway; what happens
  happens at time 0, within the window, or at time 2, when it has ended and the token is
  still remembered. One fault suffices for each fail-open path; a path that needs two
  (for example a lost key and a failed policy call) is not explored.
- Step-up: two requests (the races are pairwise), two challenges of one user. About the
  code: two submissions over four TOTP steps (first acceptance at the start of the window,
  last match at its end, and one slow request). About guesses: three submissions, one
  dying, challenges that expire after a step, limits of 1 so that three submissions
  pass them, and two hits per address, so that the throttle refuses a third; every
  bound is reached exactly, before and after expiry. Requests
  send one right code or a wrong one; the theorems cover every code and limit.

- Consoles: two polls in flight, three events of four kinds (for overlapping
  polls two alike), caps of 1 to 3 on lists so that they are exceeded; two
  replays, searches or calls, the smallest number that can cross; two tabs and
  two launches of one script; three exercises, of which the second meets the
  timer of the first; three toasts of which one is kept; two audit events with
  two attempts each on one thread, so that one waits. After a crossing the operator only
  waits for answers. The liveness run lowers the caps to one event and one line.
- Anomaly model: the scheduler's thread and one request, three seconds, so that
  two retrains follow each other and a third version is published, and one mishap
  (a retrain after a failed save is still reached); the runs do not go on after
  `contended`, of which `anomaly_pair` shows one continuation. Of the two trainers,
  which are alike, the request starts only to contend; two kinds of bytes, told apart
  only over a file of the same bundle, as bytes are only ever compared. The theorems cover
  any number of trainers, seconds and mishaps.
- The findings are smaller instances of the same modules with one property each:
  `stepup_one_shot` of `StepUp` alone, with one challenge and every code;
  `risk_replay_race` and `stepup_forgotten` of the request path without faults;
  `soc_charts`, `sentinel_click` and `audit_rows` of the consoles, `soc_charts` with the
  source's `Controllers = {}`.

Symmetry is used only in `request_path` and `risk_replay_race`, over the requests and over
the two clients taken as a whole, never with liveness.

### Fairness

`revocation_store` assumes, for `LostKeyIsRestored`, weak fairness of each worker's resync
thread (it is scheduled, and its loop wakes after every interval) and of the
restart of Redis and of Postgres (both have `restart` policies). A pass aborts
on an error; weak fairness is enough because outages are bounded by `MaxFaults`:
a deployment whose servers never stay up heals nothing.

`consoles_live` assumes, for the polling loop, that the interval keeps firing and
that the legs of a poll end (weak fairness: headers are bounded by the client's
timeout, bodies by nginx's read timeout), and, for `FeedSettles` only, that a
forensics service which is asked again and again answers again and again (strong
fairness of two actions, `ForensicsAnswers`: an assumption on the platform, not on
the page, without which the feed may fail for ever); for the simulator, that
calls and generators go on (the attack scripts are finite sequences of
requests, a broken connection closes its generator); for telemetry, that the executor's threads run: all their waits
are bounded; for the anomaly service, that its threads go on and that the container
starts again (`restart: unless-stopped`). Operators, faults and ingest are under no fairness. The other
specifications are safety only and state none.

## 4. What is proved

All proofs are for any number of calls, workers, tokens, threads and clients.

`RevocationStoreProofs` (assumptions on the constants in `RevocationStore`: the
grace exceeds the leeway of the relying parties by the two seconds that flooring
can cost, 300 s against 60 s as deployed, and the default TTL covers a token's
life, its leeway and the same two seconds, 3600 s against 300 s and 60 s; a
deployment that sets the grace to 0 is outside them):

- `TypeCorrect`, `AckedDurable`, `OutlivesToken`, `AckedVisible`: the inductive
  invariant `IInv` adds to the properties that a row carries its token's own
  `exp` or none (`RowsInv`), that a call past its insert has its row and one
  past its cache write its key (`CallsInv`), that what a pass still has to write
  belongs to a row and outlives the token whenever it is written (`PassInv`),
  and that every key does (`KeysInv`). `PassInv` is why the snapshot of a pass
  may be written late.
- `ImplementsLedger`: with a database, every step of the store is a ledger step
  or a stutter, under the refinement mapping in `RevocationProperties`.

`EnforcementProofs`, the risk engine (assumptions: weights are naturals, anomaly scores at most 1,
the TTL is at least the replay window):

- `RiskTypeCorrect`: types, scores within 0..1.
- `ReplayCaught`: two acceptances of a token at different addresses within the
  window mean the token is blurred. `ReplayNeedsGap` is not inductive: the
  memory holds one address, so `LogInv` says that what is remembered separates
  the acceptances at that address from older ones elsewhere; `EvalInv` carries
  this over to the snapshot an evaluation read, and `CrossInv` says when a
  snapshot may be stale without being noticed.

`StepUpProofs` (assumptions: a finite set of requests, user names and addresses
apart, limits at least 1; `slow` keeps a request within one boundary, which is
gunicorn's 30 s): `StepUpTypeCorrect`, `TokenBound`, `ChallengeGuessesBounded`,
`UserGuessesBounded`, `OrphansBounded`, `CodeOnce`. The invariant `StepUpIInv`:

- `BindInv`: a hash that names a user is the one `create_challenge` stored, and
  what a request has read of it is still what was stored; a hash that HINCRBY
  re-created names nobody, so no request gets a token from reading it.
- `CodeInv`: a code is consumed at most one boundary after its match, and a spent
  mark outlives every step in which its code can still be consumed. This is
  where the 4 steps of `_consume_totp_counter` are needed.
- `GuessInv`: while the hash is there, evaluated codes are counted in it; once it
  is gone only requests that had read it can guess, at most all of them, and all
  but one unless its TTL removed it.
- `FailInv`: failures are counted in Redis except those of requests about to
  count and of requests that died; a request past the lock check saw the counter
  below its limit.

`EnforcementProofs`, the chain: `ChainTypeCorrect`, `RevokedRefused`,
`ChainImplementsLedger` and `ReplayCaughtInChain`, for any requests, tokens,
clients, routes and fail-open switches. `ChainIInv` adds to the property
`Consistent(x, y)`, which relates a request in the application to the gateway's work for
it: the revoke handler has recorded what it is about to show, a decision the
application waits for is about its own token, and a request that came after the
answer finds its token visible up to the check. The risk engine's invariant is
reused: every step of the chain is a step of `RiskEngine` or leaves its variables
alone, so `ReplayCaught` carries over although evaluations here outlive the
requests that asked for them.

`BackgroundProofs`, the telemetry pipeline: `TelemetryTypeCorrect`, `DeliveredComplete`, `RowsBounded`, for
any events, threads and attempts. `StageInv` says that what a request has come
past is in the tables, `RoomInv` that a request that has still to write has room
below the bound, `QueueInv` that no event is posted by two threads.

`ListProofs` is what the proofs about the consoles stand on. Their code filters,
reduces and sorts arrays, and what a recursion computes needs induction, which the
library offers only through theorems with an operator parameter. The module goes
round this with sets: a nonempty set of numbers has a least element
(`LeastElement`), so a set that holds 0 and with each number the next holds all of
them (`UpTo`), and a recursive function over a list is followed along such a set.
That is why `Lists` writes `filter`, `reduce` and `Descending` as recursive functions.
On this rest what they return (`PickedElements`, `PickedPositions`,
`DescendingPositions`), the bounds of sums and means, and counting by class
(`CountsAddUp`). The
assumptions about constants of the consoles are that lists are lists, caps, bounds and
spans of time are numbers that fit together, event types are strings, and a score is one
of `Scores`.

`SocProofs`, polling and views:

- `IndicatorHonest` (until polls overlap there is at most one, `OneAtATime`) and
  `NeverStepsBack` (`AnswerInv`: an answer on its way was read from the log after
  everything that has landed; `PageIsNewest`: a page starts with the log's last event).
- `SessionTableAgrees`, `PanelsReadTheSame`. `ShownInv` says that what is on screen
  is a page of recorded events and that table and trend were computed from that very
  page, whatever legs failed or landed since. What the panels say then follows from
  lemmas about the views over any page: `RolledUp` (after n events the entry of each
  session has its number of events, its highest scores, its latest event), and one
  lemma per panel (chart, heatmap, alerts, gauge, trend, card, threat level). The gauge's holds for both
  roundings of the sum: a mean that is short of a bound by a hair keeps the rows' colour
  unless all of them sit exactly on the bound.

`SocProofs`, workspace and inspector:

- `TimelineMatches` (`ReplayInv`: until replays race, the one in flight is for the
  session in the title and the rows are of that session or none),
  `AddressNamesPage`, `ChartsNeedControllers` (`CanvasInv`: which canvas is on
  screen, and that charts were made on the first one only; `ChartsInv`: the page is up
  only if every chart type has a controller, and blank for good otherwise).
- `PanelsAnswerLastSearch` (`SearchInv`: until searches cross, the one in
  flight is the last one, and each panel holds its answer or nothing, by how
  far it has come).

`SocProofs`, the simulator:

- `MarksAreTakenAway`. `MarkHasOwner` is not inductive; `MarkInv` says which
  generator owns a marked script (its next step is the script's output or the
  removal of the mark), and `PlanInv` that in every plan a mark is followed by the
  output and the output by the removal. `CallInv` says that no two tabs read
  one run.
- `LogIsOfTheStream`. A stream is a row of half lines. `StreamInv` says that what is
  still on the wire continues where the tab has read to, that the half line in the
  buffer is the first half of the line after the log's last, and that the log is
  of the tab's last run with consecutive lines. That reading a piece cut
  anywhere keeps this is `ReadIs`, with the lemmas on splitting a text at its line
  ends before it.

`SentinelProofs`:

- `OneExercise`, `DismissedGo` (`ToastListInv`: ids are given out upwards, so no
  timer is for a toast to come), and `SubscribersAgree`, a property that no run needs.
- `NothingRealIsShown`, `TwoWaysToBlank`, `PanelsFollowSelection`. The page is blank
  exactly when its state cannot be rendered (`PageInv`); an answer of a service sits
  only in the rows and in what the search found, and only without `USE_MOCK`
  (`RealInv`); with it a call is alone (`AloneInv`). Until calls cross, the
  call for what is selected is on its way or the panel shows its answer
  (`DrawerInv`, `SessionInv`, `FoundInv`). This says more than the property, which is only
  about moments with nothing in flight.

These proofs found that some operators of the models were CASE expressions with
guards that overlap, of which TLA+ may choose any true one and TLC takes the first;
they are IF chains now, in the order of the code.

`BackgroundProofs`, the anomaly model: `PublishedLoads`, `RetrainHolds`, `NeverBackwards`, for any
trainers, clock and mishaps. The invariant `AnIInv` says, besides types and that
nothing else runs before startup is over (`MainFirst`), what holds until trainings
overlap or one fits while hot reload works on an older answer of Redis. `PublishedInv`:
the published version and the v1.0 that startup falls back to are sound, that is whole
and, unless saved over and not signed yet, signed (without v1.0 a restart that cannot
reach Redis would train over a published file). `MainInv`: startup trains only while
nothing is published, or anew a version that was saved over and does not load. `ReloadInv`:
hot reload works on the published version or an older one. `TrainerInv` and `Copied`: a
training is newer than what is published, memory holds its fit or the published model,
and what `save` has copied under the name of the version in memory is that model. That
last part is why a reload in the middle of `save` spoils the new file at most, never the
model in the published one; `SoundKept` is the step that writes it again.

Types of what works beside the request path: `PollTypeCorrect`, `WorkTypeCorrect`,
`InspTypeCorrect`, `SimTypeCorrect` (`SocProofs`), `ConTypeCorrect`,
`ExTypeCorrect`, `ToastTypeCorrect` (`SentinelProofs`), `AnTypeCorrect` and
`TelemetryTypeCorrect` (`BackgroundProofs`); from these, `ConsolesTypeCorrect`
(`ConsolesProofs`): `MCSpec` keeps
`ConsolesTypeOK`. Most of these types say more than a set of values: a feed or log
is cut after every answer (`FeedIsCut`, `TabTypes`), a memoised view is never of the
future, a replay in flight is for a session on screen (`AskedInv`), and
no file, memory or half-saved bundle names a fit that was not made (`FitsInv`:
what a thread holds is what it held, nothing, a file, or one more entry of the
memory, `HeldStep`). `PartsMove` is the composition: the parts share no variable, and
a step of the run is a step of one part and leaves the others alone. The same two
lemmas carry every other safety theorem about a part over to the run, since none of
them needs the part's fairness.

Only model-checked: liveness (`LostKeyIsRestored` and the five of `consoles_live`;
TLAPS 1.4.5 does not prove liveness under fairness) and the assumptions of
`MCConsoles` about pure operators of the views.

## 5. What is not modelled

- The in-process stores used when no Redis URL is set: their state is per
  process, and no deployment in the repository uses them. `UseDB = FALSE` (no
  database) is a constant of `RevocationStore`, covered by the theorems and not
  by a run.
- The empty token hash: every store treats it as a no-op.
- A key's TTL in the chain: the store's theorems show that it outlives the
  token, and requests of an expired token do not arrive.
- An OPA answer without a decision (a deny): the Rego rule has a default.
- Redis that times out after taking a write is a failure after the write
  (`FailAfterSet`, `InsertInDoubt`); partial loss is a set of lost keys.
- Cryptography, JSON, HTTP, metrics and log text.
- The consoles' styles, texts and chart library, the arc of the risk gauge; the vendored shadcn/ui components
  (`components/ui`), which the pages use as styled markup or not at all; the
  attack scripts, which are test traffic.
- `update` of a toast changes its text only; a caller could also change `open`,
  none does.
- The anomaly service's forest, features, scores and evaluation metrics, its request
  window in Redis and `persist_baseline`; a Redis value that is no valid version
  (startup and hot reload ignore it); `AZTDP_MODEL_HMAC_KEY` is set, startup ends
  without it.
- JWKS caching, client address resolution and schema migrations: no module yet,
  see the plan.
- Components without protocol state; the reasons are in `PROJECT.json`.

## 6. Plan

Done: revocation store, ledger and proofs; step-up with proofs; risk engine with
proofs; policy; enforcement chain with proofs; telemetry pipeline with proofs; the
two consoles and the attack simulator with proofs; the anomaly service's model with
proofs. Every safety property of a passing run is a theorem.

Next, in this order:

1. Late verdicts: a property of the chain on evaluations whose answer nobody
   waits for (`middleware.py:103`).
2. The token lifecycle (JWKS rotation), client address resolution and schema
   migrations as small modules.
