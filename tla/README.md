# polly-ts, specified in TLA+

polly-ts is a resilience library: a *policy* is an object whose `execute(fn, signal)` runs an
asynchronous operation under a rule (at most so many at a time, not while its circuit is open, again
if it failed, not longer than so many milliseconds, ...). Policies hold state that many overlapping
calls share, and everything between two `await`s of one call can be somebody else's code. This
directory specifies those policies, checks the specifications with TLC on small instances, and proves
the ones that matter most with TLAPS for every value of the parameters.

Paths in this file are relative to `src/packages/`.

## 1. Inventory

| Component | State | Operations | Talks to |
|---|---|---|---|
| **Bulkhead** `core/.../bulkhead/bulkhead-policy.ts` | `activeCount`, the line `queue`, one timer per waiter | `execute`, queue timer, abort listener, `releaseNextInQueue` | `fn`, timers |
| **Circuit breaker policy** `core/.../circuit-breaker/circuit-breaker-policy.ts` | none of its own: all in a store | `execute`, `isolate`, `reset`, `handleSuccess`, `handleFailure`, `transitionTo` | a state store, by awaited calls |
| **In-memory store** `.../circuit-breaker/state-store.ts` | state, two counters, `openedAt` | `getState`, `recordSuccess`, `recordFailure`, `setState` | the clock |
| **Redis store** `redis/src/redis-state-store.ts` | a Redis hash, shared by processes | three Lua scripts, one pipeline | Redis; clients' clocks |
| **Hedging** `core/.../hedging/hedging-policy.ts` | per call: attempts, their controllers and timers, `failures`, `completed` | `execute`, hedge timers, `onResult`, `onError`, abort listeners | `fn` several times at once |
| **Rate limiter** `core/.../rate-limiter/rate-limiter-policy.ts`, **token bucket** `token-bucket.ts` | `tokens`, `lastRefill` | `execute`; `acquire`, `waitForPermit` (polling) | the clock, timers |
| **Timeout** `core/.../timeout/timeout-policy.ts` | per call: a timer, a controller, a race | `execute`, two strategies | `fn`, timer |
| **Retry** `core/.../retry/retry-policy.ts` | per call: `attemptNumber`, a controller | the attempt loop, `delayFn` | `fn` or an inner policy |
| **Wrap, pipeline** `core/.../wrap/policy-wrap.ts` | none | outer executes inner with the outer's signal | two policies |
| **Cache** `core/.../cache/` | the provider's map | `execute`, `get`, `set`, `delete`, lazy expiry | `fn`, a provider |
| **Fallback** `core/.../fallback/fallback-policy.ts` | none | `execute`, `provideFallback` | `fn`, a factory |
| **Web adapters** `express`, `fastify`, `hono`, `nestjs`, `http` | per request: a promise, a gate, listeners | a middleware around `policy.execute` | the framework |
| **Backoff** `core/.../retry/backoff.ts` | `previousDelay` of the decorrelated jitter | `getDelay` | `Math.random` |
| **Telemetry** `telemetry/`, **chaos** `testing/` | spans and counters they never read back; none | forward to `fn` | OpenTelemetry, a timer |
| **Contexts, events, results, errors** | listener lists | pure | - |

What is hard, and what makes each component correct:

- *Bulkhead.* A finished operation hands its slot to the head of the line with `resolve()`; the waiter
  increments `activeCount` only when it resumes, microtasks later. Queue timers, aborts and hand-overs
  race for one waiter. Correct: the counter is the number of running operations; the line, its timers
  and its entries agree; no slot idles while somebody waits; order is kept; the limit is a limit.
- *Circuit breaker.* Every store call is awaited, so results of calls that began in one phase arrive
  in another, `isolate()` and `reset()` fall between, and an event is assembled from two reads. Correct:
  the store goes through the documented transitions only; a call begun while the circuit refuses never
  reaches `fn`; only `reset()` ends an isolation; the circuit recovers.
- *Redis store.* Scripts are atomic, the pipeline is not; replies are lost, clients crash, and each
  script compares a time its client sampled earlier. Correct: the same, plus: a closed circuit has room
  for a failure, a call counts no more failures than it met, recovery after any number of faults.
- *Hedging.* Results, errors, timers and cancellation race. Correct: one winner, every loser cancelled,
  rejected only when all failed, and the call settles.
- *Rate limiter.* Refill is lazy and polled. Correct: no window of time sees more permits than the
  bucket may give; every interval pays; waiting calls are served.
- *Timeout in a retry.* A pessimistic timeout abandons an operation that still runs while the next
  attempt starts. Correct: at most one operation has a live signal, a cancelled call has none, no timer
  survives its execution, the call settles.
- *Express and Fastify adapters.* The policy's operation is "let the request in and wait for its response",
  so the policy's retries, hedges, aborts, early rejections and late calls meet the response's events. Correct:
  a live response has one author; the policy is told what became of it; a response that is over holds no slot; every
  request is let in or refused, and under a timeout answered.
- *Cache, fallback, telemetry, chaos in a pipeline.* Overlapping misses of one key, a provider that fails
  or loses its reply, a factory that throws inside the `try` block, signals that reach only some layers; what
  all of this does depends on the order of the arguments. Correct: only results of the operation are cached;
  every answer has a reason in its own call; the factory is asked twice at most, and only for a rejected
  result; an operation that runs for a cancelled call can see it; every counted attempt ends as one success or
  one failure; what was cached in bad times runs out.
- *Backoff.* The strategy object belongs to the policy, so executions that overlap draw from one
  `previousDelay`. Correct: each delay is the documented one for its attempt.

`PROJECT.json` lists every component with its status and every hazard with its line.

## 2. Execution model

One JavaScript event loop per process. **An action is one synchronous segment**: from an `await` (or a
callback's start) to the next `await`. Two facts about the loop are used where they matter:

- all queued microtasks run before the next timer callback or I/O event. So no queue timer fires in
  the hand-over gap of the bulkhead (`granted = <<>>` in `QueueTimeout`), no hedge timer between a
  settled attempt and its continuation (`~Busy`), no timeout between a decided race and its continuation
  (`Decided = {}`);
- other microtasks, hence other calls, may run in those gaps, and the modules let them.

`fn` is arbitrary: it returns, throws, or never settles, at any time, unless a property assumes
otherwise. Event payloads, messages, durations and correlation ids are left out unless a property is
about them. History variables (named so in each module) record what properties compare, nothing in an
action's guard reads them.

## 3. Modules

| Module | Models | State and actions |
|---|---|---|
| `BulkheadContract` | what a bulkhead promises: a semaphore with a bounded waiting room | `promised` are slots handed over and not yet taken: while there is one, somebody else may enter in its place, which is what the code allows |
| `Bulkhead` | `bulkhead-policy.ts` | `pc` is where each `execute()` stands; `active`, `queue`, `timers` are the fields; `granted` are waiters resolved and not yet resumed. `ExecuteNow`, `Enqueue`, `Reject`, `CallAborted` are the branches of `execute`; `QueueTimeout`, `Abort` the callbacks; `Settle` the end of `executeWithSlot` with `ReleaseNext`; `Resume` the second half of a hand-over |
| `CircuitContract` | the state machine documented at `CircuitBreakerStateStore` | - |
| `MemoryStateStore` | `state-store.ts` | the store is a record; each method is the function it computes on it |
| `CircuitBreaker` | `circuit-breaker-policy.ts` over `MemoryStateStore` | `pc` names the `await`; `seen`, `target` are the locals of `execute`, `handleFailure`, `transitionTo`; `reading` are `getState()` calls that switched to half-open and have yet to read the state they return |
| `RedisBreaker` | the same policy over `redis-state-store.ts` | `hash` is the Redis hash; `request` the commands of a call not yet run, `reply` the answer; `Serve` runs one script or one pipeline command; `Lose` and `Crash` are faults; `lag` is the age of the client's `now`; `misled` and `torn` are history: calls whose own store call failed inside the `try` block, and counters a reset was cut off from |
| `Hedging` | one `execute()` of `hedging-policy.ts` | `status` of each attempt, `aborted` controllers, `failures`, `completed`, `outcome` |
| `RateLimiter` | `token-bucket.ts` and `rate-limiter-policy.ts` | `tokens`; `age` is `now - lastRefill`; `Acquire` is `updateTokens` and what `acquire` / `waitForPermit` make of it; `observed` is an observer's window |
| `Backoff` | `backoff.ts` | `strategy` is chosen once; `previous` is `previousDelay`; `Delays` is the set of delays `getDelay` may return, `Documented` what its comments promise |
| `Timeout` | `timeout-policy.ts`: operators for its executions | `fn`, `timer`, `told` (aborted controllers), `winner` of the race, `answer` |
| `RetryTimeout` | `wrap(retry, timeout)`: `retry-policy.ts`, `policy-wrap.ts`, `Timeout`, `Backoff` | `at` is the `await` of the loop; attempt *a* is execution *a* of the inner policy; `delay` is what the strategy returned for the pause; `OthersPause` is another execution of the same policy that asks the strategy |
| `CacheProvider` | `MemoryCacheProvider` | the entry of one key; `Get`, `Set`, `Aged` are functions on it |
| `Pipeline` | `pipeline()` of `policy-wrap.ts` over `cache-policy.ts`, `fallback-policy.ts`, `telemetry-policy.ts`, `chaos-policy.ts` | `policies` are the arguments, `stack` the layers so far: `WrapNext` is one turn of the loop in `pipeline()`, and the first call comes after the last turn; `keyed` says there is a `keyGenerator`; a call is at layer `at` and awaits `await` there; `Descend` is the synchronous way down to the next layer that awaits something of its own, the `...Continues` actions are what a layer does with the `answer` of the one below; `cancelled` and `deaf` are calls whose signal is aborted and whose cache never hears of it; `open` is attempts less successes and failures; `why` is history |
| `WebGate` | `polly-middleware.ts`, `polly-plugin.ts` around a policy | `promise` is `requestPromise` / `waitForResponse`, `listening` whose listeners are on, `resp`, `status`, `closed` the response; `adapter` and `traits` are chosen once: which adapter, and what the policy does to its operation. `stage` is where each call of the operation stands: `Begin` is the policy turning to it, `Call` and `Refuse` what follows when it awaits a permit or a cache first; `told` are calls whose signal is aborted, `left` calls it waits for no more. `Abort`, `Resolve`, `Spoil`, `Reject` are the policy's other steps with the adapter's callbacks (`Tell`, `Catch`); `Finish`, `Close`, `Break` the response's events; `Stream`, `End` the handlers |
| `MC*` | constants and symmetry for TLC | - |
| `BulkheadProofs`, `CircuitProofs`, `RedisProofs`, `HedgingProofs`, `RateLimiterProofs`, `RetryTimeoutProofs`, `WebGateProofs`, `PipelineProofs` | theorems | - |

Definitions whose comment begins with "Mutant" are variants of the definition that follows, changed the
way a plausible slip in that code would change it. No specification uses them; substituting one for the
original must make TLC report the property `PROJECT.json` names for it, which shows that the property
depends on the code.

Data that was abstracted, and why nothing is lost:

- `consecutiveFailures` stops at its threshold, times stop where no comparison can tell them apart.
- An absolute time (`openedAt`, `lastRefill`, `start`) is kept as the time since then. Runs are unbounded.
- In `RedisBreaker` a pipeline's `HSET state`, zeroing of failures and of successes are three commands
  that others' scripts may separate. A missing field reads as `closed` or `0`, so `Init` is the empty hash.
- In `RateLimiter` one unit of time is any fixed number of milliseconds; `PollCap` is the 50 ms cap. `age` stops at
  `LongIdle`, the longer of the time that fills an empty bucket and an observer's window.
- In `Hedging` the timers are one delay apart, so they fire in order. A call already aborted, an `fn`
  that throws before it returns a promise, and timers that fire after the answer are included.
- In `Backoff` delays are whole milliseconds and `Math.random()` is any choice. `previous` is `previousDelay`
  rounded down; the next delay's upper bound allows for the fraction. How long a timer really takes is not
  modelled: a pause is any finite wait.
- In `Pipeline` every call has the same key, since calls with different keys do not meet; results are the
  operation's, one that the fallback rejects, and the fallback's default; errors are handled, not handled, or the
  abort reason. A policy stands in a pipeline at most once. Metric attributes and durations are left out.
- In `CacheProvider` time is `expiresAt` less the present; `Ttl = 0` never expires.
- In `WebGate` every call of the operation awaits one promise, so the calls that hold a slot are the calls
  made while it is pending. The policy is a composition of the core policies, reduced to seven traits (abort,
  abandon, retry, hedge, wait, substitute, fault; `WebGate` says which policy has which). A trait is a
  permission, not an order of layers, so every composition with these traits has its steps among the modelled
  ones; the timeouts of one policy are all pessimistic or all optimistic. A policy may call the operation after
  it has rejected, and overlap calls, as the code's does. `Reject` includes the `catch` that runs a microtask
  later.
- What a state-change event says is left out of `CircuitBreaker`; that it is emitted is a place of `pc`.

## 4. Runs

Bounds are in the `.cfg` files; what they make possible is in the third column.

| Run | Shows | Bounds and why they suffice |
|---|---|---|
| `bulkhead_line` | `ActiveCountExact`, `QueueConsistent`, `NoIdleSlotWhileWaiting`, `NoOvertaking`, `WaitersAreServed`, `ImplementsContract` | 5 requests, 2 slots, 2 places: slots full, line full, one refused, two hand-overs in flight at once, newcomers in the gap |
| `circuit_phases` | `FailFast`, `ImplementsContract`, `IsolationHolds`, `OpenEnds`, `Recovers` | 2 overlapping callers used again and again, an administrator, thresholds of 2, a break of one tick: a late result of any phase in any other |
| `redis_races` | `ClosedHasRoom`, `FailuresAreReal`, `IsolationHolds` | 2 clients, an administrator, thresholds of 2, lost requests, lost replies, torn pipelines and crashes. The clock stands still while a request is under way: these properties compare no times, and that the break ends between any two requests is enough to reach every state of the circuit |
| `redis_live` | `Recovers` | 1 client, an administrator, lost replies, torn pipelines and crashes; a request may run one tick after its `now` was sampled, with a break of one tick, so a stale `now` opens the circuit in the past or ends its break late |
| `hedging_race` | `LosersCancelled`, `OneWinner`, `RejectsOnlyWhenAllFailed`, `Settles` | an attempt and 3 hedges, delayed or at once; `fn` may throw before it returns a promise |
| `rate_window` | `RateBound`, `RefillsAtHalfRate`, `WaitersProgress`, `WaitEnds` | 2 callers that poll and give up, capacity 2, up to 3 initial tokens, interval 3, windows of up to 9 ticks begun at any moment: three intervals, and the boundary cases of each |
| `retry_attempts` | `NoLateTimer`, `OneLiveAttempt`, `CancelReachesAttempts`, `AttemptsReported`, `DelayDocumented`, `Settles` | 3 attempts: two abandoned operations beside a live one; both timeout strategies; all five backoff strategies with a first delay of 2, a factor of 2 and a cap of 3, so that the second delay is capped |
| `pipeline_orders` | `FailuresNotCached`, `AnswerExplained`, `FactoryAskedAgain`, `AbortVisible`, `AttemptsAddUp`, `Recovers` | 2 callers used again and again, an entry that lives one tick; telemetry(fallback(cache(chaos))), cache(telemetry(fallback)), chaos(cache(fallback)) and telemetry(cache), with and without a `keyGenerator`: each pair that matters in either order, and a pipeline without a fallback |
| `web_requests` | `OneAnswerer`, `VerdictOfResponse`, `SlotsComeBack`, `GateOpens`, `AnsweredInTime` | 1 request, 3 calls of the operation for it on 2 slots, both adapters, every policy of at most five of the seven traits: the calls of the request overlap, one waits for another's slot, is made after its timeout fired or after the policy rejected, is retried after a failed or abandoned one. Requests share nothing but the slots, so a second one adds only a slot taken by somebody else; the theorems cover any number |

The type invariants (`TypeOK`) are part of the proofs of section 5 and take no place in a run.

Three runs stop with a counterexample, each a disagreement of the code with its own documentation
(`findings` in `PROJECT.json` quotes both):

| Run | Counterexample |
|---|---|
| `bulkhead_gap` / `ConcurrencyLimit` | an operation ends, its slot goes to a waiter, a new call takes it before the waiter resumes: `activeCount` exceeds `maxConcurrent` |
| `redis_probe` / `ClosesAfterThreshold` | a success of one half-open phase is still counted in the next |
| `hedging_cancel` / `CancelReachesAll` | a hedge launched after the caller's abort runs with a live signal |

Other divergences the models show. The passing properties state the exception where there is one:

- `SlotsComeBack`: when a pessimistic timeout gives up on a request in Express, the `catch` takes off the
  listeners that alone settle `requestPromise` (`express/.../polly-middleware.ts:69`). If the response had
  not finished by then, the operation never settles and a bulkhead inside the timeout loses the slot for
  good. Fastify keeps its listeners.
- `AnsweredInTime` is about Express only. In Fastify nobody listens to the signal and a rejection after
  the gate opened is dropped (`fastify/.../polly-plugin.ts:77`): a request whose handler hangs hangs under
  any timeout. And where the Express README says that on a timeout the middleware calls `next(err)`, the
  abort listener has sent a 503 and the response is destroyed.
- `GateOpens`: a cache hit, or a fallback for a refusal, resolves without calling the operation, and both
  adapters leave the request hanging.
- A retry around the Express middleware runs `next()` again on a response that is over.
- `OneAnswerer`: `RateLimiterPolicy` and `CachePolicy` do not look at the signal after their own `await`
  (`rate-limiter-policy.ts:183`, `cache-policy.ts:225`). When a pessimistic timeout around them has given up
  meanwhile, Express has called `next(err)` (`polly-middleware.ts:74`) and then runs `next()` (`:65`): the error
  handler and the route handler both work on a live response. So does a hedge whose timer fires in a policy that
  has given up. Fastify's gate keeps the second one out.
- The previous and new state in a circuit's event are read in other segments than the transition
  (`circuit-breaker-policy.ts:209`, `:214`): an `isolate()` between them makes the event name a transition
  that nobody made.
- `AttemptsReported`: past `maxDuration` the failure event counts an attempt that was not made
  (`retry-policy.ts:150`).
- `RejectsOnlyWhenAllFailed`, `Settles` of `Hedging`: an `fn` that throws before it returns a promise
  either rejects a call that could still succeed (`hedging-policy.ts:270`) or, thrown into the timer
  callback (`:274`), leaves it pending.
- `RefillsAtHalfRate`: a late refill sets `lastRefill` to now and forgets the started interval
  (`token-bucket.ts:148`), so a bucket that is asked once every 1.9 intervals refills at about half
  the rate documented at `:72`. Half is also the worst case.
- `FailuresAreReal`: a lost reply to `recordSuccess` is caught like an error of `fn`
  (`circuit-breaker-policy.ts:166`) and counted as a failure of an operation that succeeded; a lost reply inside
  `handleFailure`, when a result was counted (`:162`), has it counted twice. The property allows one failure for
  such a call beyond the one its operation had, no more.
- `ClosedHasRoom`: a `reset()` that was cut off between its commands leaves a closed circuit with failures or
  successes. The property names the counters that were cut off (`torn`) and allows nothing else.
- The circuit's state is read before an `await` (`circuit-breaker-policy.ts:128`), so an operation may start
  after the circuit opened or was isolated. `FailFast` is about calls begun after that.
- Of two overlapping misses the older result may be stored last (`cache-policy.ts:240`), also after a deletion.
  `Recovers` says that it does not stay.
- `core/README.md:163` says that the rate limiter "enforces fairness when multiple callers share the same
  capacity". Waiting callers poll (`token-bucket.ts:180`) and whoever asks first after a refill is served, so
  there is no order among them and a caller may be overtaken until it gives up. `WaitersProgress` and `WaitEnds`
  say what remains: somebody is served, and every wait ends.
- A `CachePolicy` without `keyGenerator` rejects every call: `execute` builds its own context, without an
  `operationKey` (`cache-policy.ts:216`), and the default generator throws when there is none (`:177`). The
  class comment's basic example (`:105`) has none. In `Pipeline` this is `~keyed`.
- An abort that came before `execute` is never linked to the cache's own controller (`cache-policy.ts:210`
  adds a listener and does not look at `aborted`), so the operation runs with a live signal although `:197`
  says the signal cancels it. `AbortVisible` states when this cannot happen: a fallback outside the cache
  looks at the signal first.
- When the provider fails to store a result, the call rejects and the result of an operation that succeeded is
  lost (`cache-policy.ts:240`); `AnswerExplained` names the provider among the causes.
- A fallback factory that throws because of a result is asked again, as for an error (`fallback-policy.ts:102`):
  `FactoryAskedAgain`.
- What a cache holds depends on the order. Around a fallback it keeps defaults for the whole TTL, inside one it
  keeps results the fallback rejects and every hit asks for a default again. `FailuresNotCached` and `Recovers`
  say what holds in each order. With `Ttl = 0` such an entry never leaves.
- Telemetry records an exception twice on its span (`telemetry-policy.ts:167`, `:169`); the counters are right.
- The decorrelated jitter's `previousDelay` is never reset (`backoff.ts:128`): after failures of one call the
  first delay of the next starts high. `DelayDocumented` therefore bounds a decorrelated delay by the limits only.
- `initialTokens` may exceed `capacity` (`token-bucket.ts:130`) until the first refill; `RateBound` takes the
  larger of the two as the burst.
- `PolicyWrap` declares two events and never emits them.
- The abort listeners of an operation run before its timeout rejects (`timeout-policy.ts:114`), so one that
  answers from its listener wins the race against its own timeout.
- A bulkhead waiter whose signal is aborted after the hand-over still runs (`bulkhead-policy.ts:252`); the model
  has it: `Abort` is a step of requests in the line only.
- A call aborted while it polls for a permit keeps its place, takes a token and runs
  (`rate-limiter-policy.ts:183`).
- A bulkhead request rejected by its queue timer emits no failure event (`bulkhead-policy.ts:281`).

Deadlock is checked except where the modelled calls end for good (`Hedging` and `RetryTimeout` model one
call, `WebGate` requests that are served once); `Bulkhead` has an explicit stuttering step for "every request is answered".

### Fairness

- *Event loop*: resolved promises are resumed and due timers fire (weak fairness of `Resume`,
  `QueueTimeout`, `HedgeTimer`, `Microtask`, `Continue`, `Loop`, `Poll`).
- *Callers* are never assumed to call, abort or command. Where a property needs calls that keep
  coming, it says so itself (`OpenEnds`, both `Recovers`), as it does for operations that keep succeeding
  and for faults that end.
  The assumptions are about steps that no other step looks like: `Succeed` in a half-open circuit, `Fail`,
  `Apply`, `Lose`, and a `Crash` that cuts off a request change what nothing else changes in that way. A crash
  between two requests looks like the call's return, so `Recovers` of `RedisBreaker` allows it for ever.
- *Web requests*: what a policy awaits before a call comes, it decides, its timers fire, a response that was
  ended is sent (`Proceed`, `Decide`, `Abort`, `Finish`). Handlers may hang and clients may stay or leave.
- *Operations*: `WaitersAreServed`, and `Settles` under a pessimistic timeout, need none to finish.
  `Settles` under an optimistic timeout, `Settles` of `Hedging` and the circuits' `Recovers` need `fn` to
  settle, because the code waits for it.
- *Pipelines*: operations, providers and factories settle and time passes (`Progress` of each caller,
  `TimePasses`). Nobody has to call; that faults end (`Heal`) and that a caller goes on calling is assumed in
  `Recovers` itself.
- *Clock*: weak fairness. In `RedisBreaker` it is strong fairness: a tick waits while some request is
  at `MaxDelay`, and calls may come so fast that some request always is, now and then; real time does
  not stop for that.

## 5. Proofs

Every theorem holds for all constants that satisfy the `ASSUME` of its module (natural thresholds and
limits, a finite set of requests, disjoint sets of callers and administrators).

- **`BulkheadProofs`**. `BulkheadInvariant`: `Spec` implies the invariants of `bulkhead_line` (`LineIsConsistent`
  and `NoIdleSlots` name two of them), and that requests which never queued respect the limit in every
  interleaving. The safety properties are not inductive one by one: that a freed slot does not idle needs that
  the line and `pc` agree, that the counter is exact needs the type of everything `Settle` touches. `IInv` is
  their conjunction with finiteness of the sets that are counted; `RemoveFirstEffect`, `AppendEffect`,
  `TailEffect` say what leaving and entering the line does to a duplicate-free sequence, and there is one
  lemma per action. `BulkheadImplementsContract`: every step of every schedule, calls in the hand-over gap
  included, is a step of the contract; it needs from `IInv` that a resolved waiter is in no line, and that the
  line and the waiting room have the same size. `ServedInTurn` is `NoOvertaking`: those resolved and not yet
  resumed, followed by the queue, are one line, and a step only takes its head, appends to it or removes from it
  (`LineFacts` is about positions in it, `InTurn` about one step). `FailFastIsStrict` adds that without places the line and the
  hand-over are empty. `LimitLeftInGapOnly` is about the line: running operations and promised slots
  together go over the limit in one kind of step, a call made in the hand-over gap, which is what `bulkhead_gap`
  shows.
- **`CircuitProofs`**. `StoreImplementsContract`: called in any order, the store implements the
  documented state machine, by a case split on the method and the state; the invariant is that
  successes are zero in the closed and open states. `PolicyImplementsContract` follows because each
  step of `CircuitBreaker` is one store call or none (`PolicyStep`). `PolicySafety` proves the types,
  `SuccessesAreFresh` and `FailFast`; its invariant relates what a turned-away call will read to the
  await it stands at. `IsolationTheorem` proves `IsolationHolds`.
- **`HedgingProofs`**. `HedgingSafety` (and `WinnerIsUnique`): one winner, losers cancelled; the invariant says that the race
  is completed exactly when the promise is settled by an attempt, and that whatever is launched before
  the winner is in `aborted`. `NoEarlyRejection`: `failures` is the number of attempts that failed, hence,
  unless an attempt was lost to a synchronous throw, a rejection means that all of them did. `NobodyIsForgotten`
  is its counterpart: a call without an answer has a timer, an operation or a microtask to come (`OpenRace`).

- **`RedisProofs`**, for any number of clients and administrators, any thresholds and any delay of requests.
  The invariant has one formula per call: `ProcOK` says which commands may be left of its request at each
  await, and how many failures it may have recorded there. `Budget` is that number: one for an operation that
  failed, and one for a store call that failed once the catch block has it; it needs that a call inside the
  `try` block has used up at most the first (`inTry`), and gives `FailuresCounted` and `TypeCorrect` with every
  fault. `ClosedIsZeroed` says that whatever left a closed circuit without room still has the zeroing commands
  under way or was cut off from them; with the place of the administrator it gives `ClosedRoom`. `Effect` says
  what a command may do to the hash, only `set closed` ends an isolation, and only an administrator at
  `setting` can have sent one (`IsolationTheorem`).
- **`RateLimiterProofs`**. `PermitsBounded` is `RateBound` for every capacity, rate, interval and initial filling,
  and windows of any length. The bound is not inductive: it forgets what the bucket holds and what it still
  owes. `Credit` is the potential that remembers: permits given and tokens held or owed stay within the burst
  and `count` refills, and `count` whole intervals fit into the window and the part of an interval
  (`Phase`) that was over when it opened. The arithmetic is about quotients and remainders
  (`QuotientRemainder`, `Unique`), one lemma per action carries the potential. `HalfRatePaid` is the bound from below,
  `RefillsAtHalfRate`: `Paid` says that a window lasts at most two intervals for each one paid in it, and the
  age of the last refill. A late refill forgets the part of an interval that had begun, and that is less than the
  whole ones it pays for (`AgeBound`).
- **`RetryTimeoutProofs`**, for any number of attempts. `ExecInv` relates, for each execution of the inner policy,
  the operation, the timer, the race and the answer; `LoopInv` relates the loop to all of them. Its core is
  `Settled`: an execution that is not the current attempt has answered. With what a decided race implies it gives
  `AttemptsDoNotOverlap`, `CancelReaches`, `TimersEnd`, `ReportIsExact` and `TypeCorrect`. `DelayInv` gives
  `DelaysAreDocumented`; it bounds `previousDelay`, the one thing other calls change, and relates the delay to
  the number of the attempt it is computed for. `NoAttemptHangs`: the attempt the loop waits for has a decided race or
  a timer to come (`Due`); only under an optimistic timeout is it the operation that must end it.
- **`WebGateProofs`**. `GateSafety` (and `VerdictFits`) and `AnswererIsUnique`: the safety properties of
  `web_requests` for every set of requests, every number of slots and calls and every set of traits. A step
  touches one request, so the invariant is one formula per request (`RequestInv`) with a lemma for the request
  that moves and one for the others. It relates things that change at different times: the listeners, the
  promise, the answer, and for each call its stage, its signal and whether the policy still waits for it.
  `OneAnswerer` needs that Express has always answered a request it told to stop, and that a call made when the
  answer was a rejection is one the policy had left; `SlotsComeBack` that a promise without listeners is settled
  unless Express rejected it. `DecisionsReachHandlers`: a request the policy has decided on is with its handler
  or the error handler, which needs that whatever began a response was let in (`BegunByHandler`).

- **`PipelineProofs`**, for every pipeline in which a policy stands at most once, any number of calls of the same key
  and any `Ttl`. What the properties say of a finished call is carried up through the layers. `Fine` says of the call at
  layer *i* which layers its answer has passed and which are still to hear it: a rejected result has no fallback
  below *i*, an error of the operation neither, an error of the provider or of chaos none that is composed around
  them. `Fresh` says the same of what the provider holds, since a hit continues another call's answer at the cache's
  layer; that coupling is why no property is inductive by itself. `Heard` relates a deaf signal to the place of the
  fallback. `AttemptsAddUp` is inductive with these: a step opens or ends one attempt, or neither (`Counted`). There is one
  lemma per action; `DescendStep` is the way down, `UpStep` an answer that leaves a layer, `StayStep` a layer
  that awaits something of its own.

Only model-checked: the liveness properties (`WaitersAreServed`, `OpenEnds`, `Recovers`, `Settles`, `WaitersProgress`,
`WaitEnds`, `GateOpens`, `AnsweredInTime`), which are beyond the prover, as is `ENABLED`. Of three
of them the safety half is proved: that something is always under way (`NobodyIsForgotten`, `NoAttemptHangs`) or was
done (`DecisionsReachHandlers`); what is left to TLC is that it happens. Every other property of a passing
run is a theorem.

## 6. Not modelled

- *Hono, NestJS, fetch*: each looks a policy up and calls `execute` once around a continuation. They keep no
  state, listen to nothing, and add no order to what `execute` does; what the policies do is modelled.
- *Contexts, results, errors, events*: data. The emitter calls listeners synchronously; a listener
  that throws or that calls a policy again is outside the models. What events say is left out, with the
  exception of the attempts in the retry's failure event.
- *Redis store*: `getRetryAfter`, a read that only fills an error, and the key.
- `getRetryAfter` of the other store and of the bucket: a number in an error.
- *Backoff*: `CustomBackoff` is any function the user passes. Fractions of milliseconds are rounded.
- *Telemetry*: attributes and durations; a meter or tracer that throws.
- *Circuit breaker, bulkhead and hedging as layers of a `Pipeline`*: they are modelled on their own, each over
  an arbitrary operation, which includes any policy below it. What a composition adds is checked where the code
  couples layers: retry and timeout by the signal, cache and fallback by what they take for a result, web
  adapters by the response.

## 7. Plan

1. *(done)* Each stateful policy, both circuit stores, retry over timeout and backoff, the web adapters, and
   pipelines of the policies that pass a call on; theorems for all of
   them.
2. `pipeline(retry, circuitBreaker, timeout)`, the composition the documentation recommends: attempts of one
   call against a shared circuit, where an open circuit uses up the attempts.
3. An abstract rate contract for `RateLimiter` and the refinement; an abstract "first success wins"
   contract for `Hedging`.
