# A TLA+ development of LocalGateway

LocalGateway is a local gateway for OpenAI-compatible chat completions. A
*supervisor* process serves the dashboard and the admin API, keeps a *worker*
process alive and proxies traffic to it; the worker routes each request to one
of several backends, falls back when one fails, and records usage. This
directory models the parts of it whose correctness depends on the order in
which things happen, checks them with TLC on small instances, and proves the
central facts with TLAPS for all values of the constants.

## The system

Paths are relative to `src/src/localgateway/`.

| Component | State | Operations | Hard part | What makes it correct |
|---|---|---|---|---|
| Circuit breaker (`circuitbreaker.py`) | per backend: failures in a row, trips in a row, end of the backoff; the settings in force | `record_outcome`, `is_open`, `reset`, `configure_from_config` | outcomes of requests admitted before a trip arrive during the backoff; settings reloaded at any moment | trips are earned, escalation is paced, exclusion ends |
| Request handling (`streaming.py`, `provider.py`, `endpoints/chat.py`) | the fallback list and the progress of each request | `handle_request`, `handle_request_stream`, `call_provider`, `call_provider_stream` | failures before and after the first byte, silence, hang-ups, many requests sharing counters | one backend serves a client; counters and usage rows are exact; a client gets an answer |
| Rate limits and snoozes (`ratelimit.py`) | cooldown and permanent snooze per backend, in each process and in `data/snooze.json` | snooze, unsnooze, clear, rename, 429, save, load | two processes, restarts, kills in the middle of a save | what people said survives; what is over does not come back |
| Router (`router.py`, `time_routing.py`) | a rotation counter, the warmth of prompt caches | `select_backends` | a generator that asks the clock several times; six ways to order a list, one over the other | each eligible backend once, routable ones first, warm ones before cold, everyone's turn |
| Background writer (`dbwriter.py`) | a queue, a thread, its batch | `start`, `stop`, `enqueue`, `flush`, `_run`, `_flush` | callers, the thread and `stop()` interleave; a batch fails | no row is lost or stored twice |
| Configuration (`config.py`, `endpoints/admin.py`) | `config.json`, five backups, a cached object in each process | load, save, rotate, reload, restore, the edits | a crash between renames; a reader between renames; `await` between load and save | the last save survives; the backups are the history; the worker follows |
| In-flight counters, latency, warmth (`stats.py`) | per backend counters and windows | start, end, record | every path out of a handler | counters are exact |
| Prober (`prober.py`) | last probe per model | the probe loop | probes race with requests | it reports what a request would |
| Worker and supervisor (`worker.py`, `supervisor.py`) | the subprocess, app lifespans | start, stop, restart, proxy | stopping blocks the loop the worker's streams go through; a worker that dies under requests | one worker at most; the loop comes back; every request ends; admin calls reach the process they concern |
| Response cache (`respcache.py`) | memory LRU, a table behind the writer | lookup, store, clear | memory, queue and table hold an entry at once; a clear in another process | nothing too old is served; the table keeps its limit |
| Quotas and authentication (`clientquota.py`, `auth.py`) | sliding windows, cached spend | `check_rpm`, `check_budget` | spend is written later than it is checked | limits hold up to a stated slack |
| Events, alerts (`events.py`, `alerts.py`) | subscriber queues, last-sent table | publish, send | full queues, failed delivery | newest events are kept |
| Usage, logs (`usage.py`, `logs.py`) | SQLite tables | inserts through the writer, aggregation | | |
| Streams (`sse.py`, `reasoning.py`) | a parser's buffer, an accumulator | `feed`, `flush`, transforms | the network cuts anywhere | the client reads the events that were sent; the meter saw the same |
| Text (`tokenizer.py`, `cache.py`, other `endpoints/*`) | none | transformation | | |

How they interact: the worker is one asyncio loop, so handlers interleave only
at `await` and `yield`; the writer is a thread; supervisor and worker share
nothing but files (`config.json` and its backups, `data/snooze.json`,
`data/usage.db`) and HTTP. A finished call or probe reports to the breaker, a
429 sets a cooldown, the router reads both, and every finished call hands a row
to the writer.

`PROJECT.json` lists the hazards this gives rise to, each at its line with the
properties that cover it, or the reason why none does.

## The modules

**CircuitBreaker** is `circuitbreaker.py`. `circuits[b]` is a `_Circuit`, with
`open_until` replaced by the time `left`, which `Tick` counts down; `config` is
the three module variables. `RequestOutcome` goes through the filter of
`_record_circuit_failure()`, `ProbeOutcome` does not, as in the prober. `streak`
and `waited` are history: what the current run of failures consists of, and how
long the backend has been shut out during it. `MCCircuitBreaker` names the
settings the runs use.

**Failover** extends it with the two fallback loops of `streaming.py`. A step of
a request is what its handler does between two awaits or yields, so a failed
call records, logs, leaves the in-flight counter and enters the next backend in
one step. `phase`, `plan`, `tried` are the handler's position, the list
`select_backends()` returned, and how far down it the loop is; `usage`, `reply`
are what reached the log and the client. `form` is the kind of answer: whole, a
chat stream, or the raw stream of `/v1/responses`, whose own loop
(`endpoints/responses.py`) records an empty stream before it commits, and neither
logs a stream that breaks off nor tells the breaker (`BreakOffRaw`). The order within the routable backends
is any order: `Orders` keeps what every mode of the router has in common, which
`FallbackOrder` states for both modules (`RouterSelect` has the modes, and
`RouterSelectProofs` shows `ListIsAnOrder` of each).
`Beside` is the prober and the reset button. `ClientStream` is the abstract
specification: what a client may see. `BreakerIsUsedAsSpecified` says that every
step of the composition is a step of `CircuitBreaker` or leaves it alone, so what
is proved of the breaker holds here.

**BackgroundWriter** is `dbwriter.py`, with one step for what happens between two
points where another thread can interfere. `WriteBehind` is its abstract
specification, and `Fate` the refinement mapping: where a row is, from the batch,
the queue, the table and its caller.

**ConfigStore** is `config.py` with the admin endpoints that change
`config.json`. Supervisor handlers hold references into `heap`, so that a
handler that loaded before an `await` saves the object it loaded. `job` is the
sequence of renames of a save or restore; only a crash interrupts it, but the
worker's `Stat`, `Scan` and `Read` fall between any two.

**Snooze** is `ratelimit.py` in both processes, with the snooze, unsnooze and
rename endpoints, the worker's save at shutdown and the load at import. `hold`
and `asked` are history: which permanent snoozes were confirmed last, and the
longest cooldown asked for.

**RouterSelect** is `select_backends()` with the time slots that filter its
candidates and the warmth and load that order them. Its steps are the passes of
the generator: each asks `_routable()` of the candidates once, and `Elapse` ends
any exclusions between two passes, as the clock may. `stage` is the generator's
position, `avail` and `held` its two halves per pass, `out` what it has yielded.
`Sort`, `Rotated`, `Drawn`, `Bands`, `TieBreak` are the pure helpers of the same
purpose; a weighted draw is the set of orders it can give. Python's stable sorts
and list comprehensions are both `Arranged`: the elements at some positions, by
their keys and then by their positions. `freed` and `firsts`
are history: exclusions that ended during the call, and who led the last lists.
`MCRouterSelect` has the backends, setups and requests.

**SupervisorLife** is `supervisor.py` with the process side of `worker.py`. The
supervisor is one event loop, and `start()`, `stop()`, `restart()` are
synchronous: while `loop` is "readying" or "exiting" no action of a request is
enabled. A request goes through the steps of the proxy between two awaits
(`Check`, `Send`, `Read`, `Lost`, `GiveUp`, `HangUp`), where `Lost` is a dead
worker and `GiveUp` a call that fails at a living one (a timeout to connect, to
read or for a place in the pool, a broken answer); the worker writes a stream into a
bounded buffer, and a draining worker exits only when its responses are written.
`Crash` and `SupervisorKilled` may happen at any time; the second leaves an
orphan that keeps the port. `stale`, `dropped` and `orphaned` are history.

**ClientQuota** is `clientquota.py` as `auth_middleware` calls it, with the
usage rows of `usage.py` that the budgets sum up: `Finish` queues a row, `Commit`
is the writer's, `Tick` may end a day or a month, `ClearUsage` and `Restart`
empty the table and the memory. `passed`, `before`, `known` and `promise` are
history: whom this worker let in within the window, whom the workers before it
did (a restart empties `hits`, not the history), the spends the table showed
lately, what Retry-After said. `Rounded` is its rounding to a tenth of a second,
of which a tick is a `Grain`th part.

**ResponseCache** is `respcache.py` and its callers. `mem` with `recent` is the
LRU memory, `rows` the table, `queue` the statements the writer has not run. A
body is known by the tick it was made at, so that its age can be compared with
the TTL whichever way it came.

**Relay** is the way of one event stream through `call_provider_stream()` and,
on the chat path, `handle_request_stream()`: `Receive` takes the next bytes, cut
anywhere, and `Feed` is the parser of `sse.py` over tokens (a field name, what
follows it, CR, LF). `meter` is the accumulator, `rewriter` the chat path's
parser, `out` the client's bytes, `halved` (history) that a chunk ended between the
CR and the LF of a CRLF; `Finish` is upstream closing the stream,
`Break` its breaking off. `Read` is the reference: an event-stream
reader over the whole of the bytes, token by token, that ends an event at an empty
line whatever the line ending, and `Promised` what the path owes the client for
an event it reads in the whole stream. Parser and reader are recursive functions
in a LET, one step an operator of its own (`Taken`, `ReadToken`, ...), so that
they can be proved about.

## What the runs check

| Run | Shows | Bounds |
|---|---|---|
| `circuit_breaker` | `EscalationIsPaced`, `CountIsExact` (until a probe fails for a client error or a 429), `TripIsEarned`, `OpenCircuitExpires` in every interleaving of outcomes, resets, reloads and time | two backends; up to 4 failures in a row; floor 1, cap 3, so the exponential ladder reaches its cap |
| `failover` | `InFlightIsExact`, `ExhaustedMeansAllTried`, `UsageIsExact`, `ServedByOne` (implements ClientStream), `BreakerIsUsedAsSpecified`, `AnswerComes` | two requests over two backends, a chat stream beside a whole answer, beside a raw stream, and two raw streams: enough for one request's failures to change another's routing and for a fallback |
| `writer` | `SentinelDrains`, `EveryRowHasOneFate` (implements WriteBehind), `RowsSettle` | four rows, one refused by the database and one of another thread, batches of two, two flush sentinels: full, partial and failed batches, rows on both sides of the stop |
| `config_store` | `CrashKeepsTheLastSave`, `BackupsAreHistory`, `WorkerFollowsSaves` | a PUT, a narrow edit, a restore, a crash and three slots: every slot is filled, shifted and dropped |
| `snooze` | `HoldsAreKept`, `NothingIsRevived` | two backends and a spare name, cooldowns of 1 and 2, two process ends |
| `router` | `NobodyIsLost`, `ExcludedComeLast`, `AffinityWins`, `RotationIsFair` | three backends of two providers, in six setups (one tier, two, affinity with a cap, sort by cache, explore with and without statistics) and six requests (plain, sorted, preferred with and without fallbacks, with a provider ignored, too long for all); a night slot over midnight; rotation modulo 6, so that lists of one, two and three keep their turns |
| `supervisor` | `NoSpareWorker`, `ResetSurvivesRestarts`, `LoopComesBack`, `RequestsEnd` | two worker processes, three commands, a stream of two pieces over a buffer of one (so that the worker does wait for the blocked loop), a short request and a reset |
| `client_quota` | `RpmHolds`, `RetryAfterIsEnough`, `SpendIsRecent` | one key with three limits it is edited between (no window, one hit and two; a daily and a monthly budget), a window of three ticks, which is one tenth to the rounding, so that it rounds either way; a cache of two ticks, six ticks: hits expire one by one, rows arrive before and after the cached figure, days end. A restart forgets at most two requests at a time (`MaxForgotten`). Keys share nothing but the writer's queue |
| `response_cache` | `ReplayWithinTTL`, `TableIsBounded` | two keys over a memory and a table of one entry each, so every store evicts; TTLs 0 and 1, three ticks, a queue of four statements (two stores); keys are symmetric |
| `relay` | `EventsArriveAsSent`, `MeterAgrees` | up to three of six blocks (named, with two data lines, a comment, reasoning, usage, `[DONE]`) under LF, CR or CRLF, cut anywhere, complete or broken off, on both paths; a CRLF cut in two is followed too, but the properties except it |

Two runs end in a violation: each states what the repository says of the program
and shows that the code does otherwise.

| Run | Statement | What happens |
|---|---|---|
| `circuit_breaker_probes` | only genuine failures count, never client errors or 429s (`OnlyGenuineCount`) | `prober.py:202` reports every failed probe, so a 401 or a 429 answered to one counts and can trip the circuit |
| `snooze_dashboard` | no traffic until you click Unsnooze | the dashboard's snooze stays in the supervisor's memory and the file; the worker routes on |

Every property of a passing run has a mutant: a definition changed the way a
plausible bug would change it (the operators marked `mutant:`), under which TLC
finds the property violated.

`CHECK_DEADLOCK FALSE` stands where the system may stop: the writer when all rows
are settled or the process is gone, the configuration when every edit is done,
the supervisor when the worker is down and the commands are used up, quota and
cache when their time is up, a stream at its end.

### Known divergences that no run is spent on

Met while modelling; the models do what the code does, and the properties are
stated around them.

* `router.py:386`: an open circuit moves a backend to the end of the list, and it
  is called when the others fail.
* `router.py:318-325`: in explore mode with measurements, and with cache affinity,
  the configured weights are not looked at: a backend drained to weight 0 may lead.
* `router.py:328`: the rotation counter goes on when the group it is taken modulo of
  changes, so a turn may be skipped or repeated then (`RotationIsFair` speaks of
  successive calls over one group).
* `dbwriter.py:91`: the thread times out on an empty queue, rows and then the stop
  are queued, it sees `_running` false and leaves them.
* `dbwriter.py:65`: when the connection fails the thread ends and `_running` stays
  true, so rows queue up for nobody.
* `endpoints/admin.py:964`: a restored file keeps its old mtime, which the worker
  may have recorded when it read newer content.
* `endpoints/admin.py:502`: a handler that loaded before an `await` saves an old
  object under a version number already given out, past the stale-write check.
* `supervisor.py:239`: every exception of the call is taken for a stopped worker.
  When a circuit reset times out or breaks off at a worker that lives (`GiveUp`),
  the supervisor's own registry, always empty, answers with a success and the
  worker's circuits stay open; `supervisor.py:211-213` says "forward to the worker
  when running" (`ResetSurvivesRestarts` excepts such calls).
* `supervisor.py:346`: a proxied stream is answered with 200 before the worker has
  been asked; `endpoints/chat.py:91` takes pains to send the status upstream gave.
* `endpoints/responses.py:374`: a raw stream that breaks off is not logged and not
  told to the breaker (`UsageIsExact` excepts it), and its error event may follow
  half an event (`EventsArriveAsSent` excepts that).
* `sse.py:78`: `feed()` has replaced a CR by LF (`sse.py:85`) before it looks for one
  at the end of its buffer, so when a CRLF is cut between two chunks its LF makes an
  empty line, which ends the event in its middle; the comment at `sse.py:72-77` means to
  prevent just that. `halved` marks such a cut, and `EventsArriveAsSent` and
  `MeterAgrees` end there.
* `provider.py:332`: the tail of a stream without its last empty line goes out as
  it came and again as a rendered event (`Tails`; the runs keep to whole streams).
* `clientquota.py:41`: Retry-After is rounded to 0.1 s, possibly down, and a hit a
  whole window old still counts: a client that comes back less than 0.05 s after the
  time it was told may be refused (`RetryAfterIsEnough` allows for that). After the
  limit is lowered it names the end of the oldest hit, although more than one must end.
* `clientquota.py:25`: the hits are in the worker's memory, so a restart forgets the
  window, and the key may make its whole limit of requests again within it
  (`RpmHolds` adds what workers that are gone let in); `README.md:275` of the
  repository says "requests per minute (sliding window ...)".
* `clientquota.py:42`: a request refused by the budget has used up a hit.
* `usage.py:595`: the docstring says UTC, the day is the local one.
* `respcache.py:241`: inserts in the queue, and the worker's memory when the
  supervisor does the clearing, bring entries back after a clear; a DELETE queued
  for an expired entry may drop the row that has replaced it.
* `streaming.py:419`: a body stored by a stream is replayed to a request that is
  none, and the other way round.

### Fairness

* `CircuitBreaker`: only time is fair. Nobody has to send requests or probes.
* `Failover`: each call under way has a first event. httpx bounds connecting and
  reading (`provider.py:154-159`), and `wait_for` bounds the wait for a chunk
  (`provider.py:315`); a client need not stay, nor a stream end.
* `BackgroundWriter`: the thread is scheduled. Nothing is assumed of callers.
* `ConfigStore`: a save goes on unless the process dies, and the worker keeps
  calling `load_config()`, as it does for each request and in its tick loop.
* `SupervisorLife`: the waits end by their own clocks (`supervisor.py:71`, `:95`),
  asyncio serves every connection that is ready, and the supervisor's HTTP client
  gives a call up when it has had nothing to read for 300 s (`supervisor.py:129`,
  `GiveUp`). Commands, crashes and clients owe nothing, nor does the worker: it may
  never answer.
* `Snooze`, `RouterSelect`, `ClientQuota`, `ResponseCache`, `Relay`: none; their
  properties are safety.

## What is proved

Eight modules hold theorems; each speaks of any values of the constants under the
named assumptions of the module it is about. All type invariants and all
safety properties of the passing runs are proved; those of two modules under a further
hypothesis, which the theorem states: those of `Relay` for streams whose lines end
in LF or CR, those of `Snooze` with the worker as the only door.

`FailoverProofs`, on the breaker (for any set of backends, settings, floor, cap
and bound): `TypeOK`, `EscalationIsPaced`,
`CountIsExact` and `TripIsEarned`. The last two follow from what the count is
without any condition (`CountIsTheRun`): the run of genuine failures and stray
probe failures together. `EscalationIsPaced` is not inductive alone: a
trip adds a backoff to what is owed, so one must know that the previous one had
run out and that the new one is at least the floor and at most the cap, whatever
the doubling has come to. The inductive invariant `IInv` adds the bounds on the
settings (`EffectiveIsSane`) and is stated per backend, so that each action is
checked on the one record it changes. `PowersOfTwo` is an arithmetic fact stated
as an assumption because the provers have no theory of exponentiation; TLC
evaluates it in every run of the module.

`FailoverProofs`, on the loops (for any finite sets of requests and backends, any
forms and settings): `TypeOKAll`, `InFlightIsExact`, `ExhaustedMeansAllTried` and
`UsageIsExact`; that the loop implements `ClientStream` (`ServedByOne`); and that
it uses the breaker as `CircuitBreaker` allows (`BreakerIsUsedAsSpecified`), by
the breaker's `IInv`, so that the theorems about the breaker hold in
the composition. The inductive invariant `FInv` has four parts beside the types,
and none is inductive alone: a counter is exact only because a handler is never
past the end of its list (`InLine`), a row names the right backend only because
what the client has got agrees with where the handler is (`Matches`), and `Rows`
says which ends were logged. The finiteness of the sets is used for the counts
and for the lists, which are the members of a set put in a row. A lemma per kind
of step changes one request and leaves the others to `OneSteps`.

`BackgroundWriterProofs` (for any rows, threads, batch size and bound):
`TypeOK`, `SentinelDrains`, and that the writer implements `WriteBehind`
(`EveryRowHasOneFate`). The inductive invariant says where each row is — in at
most one of the queue, the batch and the table, and exactly where its caller's
progress implies — and that after the sentinel no row of the event loop follows
it in the queue. Refinement is then one lemma per action: the fates of the rows
that do not move are unchanged, and those that do move together.

`SupervisorLifeProofs` (for any processes, requests, buffers, waits and
commands): `TypeOK`, `NoSpareWorker` and `ResetSurvivesRestarts`. The second is not
inductive: a spawn is safe only because nothing runs, a bind only because the
holder of the port serves, so `ProcInv` adds that whoever holds the port serves,
that a stop under way is of a process there is, and that a supervisor that is gone
holds none. One lemma says that the steps of requests leave all of this alone.
The third is about a request and the processes it may outlive. `RequestInv` says
what a reset has between its check and its end: while circuits are open in the
supervisor's worker it waits for the answer of that very worker, or it is over
without an acknowledgement, or its call was given up (`dropped`), the one way in
which an acknowledged reset leaves circuits open. That survives a restart because a process
that does not live has no open circuits (`CircuitInv`), and a new one starts with none.

`ConfigStoreProofs` (for any edits, any number of slots, restores and crashes):
`TypeOK`, `CrashKeepsTheLastSave` and `BackupsAreHistory`. For the second the
invariant is stronger and simpler than the property, what could be recovered *is*
what was confirmed last, and rests on
`ShiftRecovers`: shifting one slot, the oldest first, loses the oldest backup but
never the newest; and on `JobSane`: config.json is there until the job itself
retires it. The newest backup exists because the numbers below `Keep` are well
founded. For the third, `Hole` names the one slot that has nothing to keep at each
step of a rotation: the slots below it are where the last save left them, those
above have moved up by one (`Rotated`), which holds while there was no crash;
`Ordered` holds always. The generations live in the files only, so the types
need `ClerkInv` and `WorkerInv`, which tie handlers to the heap and the worker's
candidates to the slots there are.

`RouterSelectProofs`, its last part, on the snoozes the router takes as out of
service (for any `Providers`, names and durations, when `Doors` is the worker
alone, which is also what the run checks): `HoldsAreKept` and `NothingIsRevived`.
With two doors the first is false: the same disagreement `snooze_dashboard` shows.
Both need that memory
follows the names (`InUse`: no snoozed name outlives its backend, or a rename onto
it would put the wrong backend out of service), and what a request under way will
confirm (`Saving`, `Renaming`), since the file lags memory only inside one.

`ClientQuotaProofs` (for any keys, limits, costs, window and cache time):
`SpendIsRecent`, `RpmHolds` and `RetryAfterIsEnough`. The first invariant is that
every cache entry that may still be used is backed by what the table shows, or
showed after the entry was read; history forgets, so the entry's age has to bound
the history's. The second, `RateInv`, relates two lists: the requests the worker let in
within the window and the hits `check_rpm()` remembers, of which a budget may have
used up more. `Tracks` says that the first can be laid along the second, each
request on a hit of its own; it survives the pruning of old hits because both are
pruned by the same rule, and it bounds the one length by the other. With the
promise of a Retry-After tied to the oldest hit, up to the half tenth of a second
that `RoundedNear` says rounding can take, it yields the third as well. Nothing bounds
what workers that are gone let in within the window: `RpmHolds` adds it to the limit.

`ResponseCacheProofs` (for any keys, capacities and TTLs): `TypeOK`,
`ReplayWithinTTL` and `TableIsBounded`. An expiry is measured on `created`, the
promise on the body, and an entry may have been in memory, queue and table: the
invariant of the second is that wherever one is, it is as old as its body. The
table is over its limit between an insert and its trim, so `TableInv` says that
every insert in the queue has a trim behind it, and that the table is within its
limit or a trim is still to come, unless statements were lost (`gap`). The types
include that the memory is an LRU: `MemInv` says that its order has no key twice
and just the keys of its entries, so that there are as many entries as keys.

`RouterSelectProofs` (for any backends, setups, requests, slots, loads and
modulus): `TypeOK`, `NobodyIsLost`, `ExcludedComeLast`, `AffinityWins`,
`RotationIsFair`, and `ListIsAnOrder`. Its first part is about lists. Everything
the router sorts or filters is `Arranged`: `ArrangedFacts` counts positions to
show that each place is taken exactly once, so that sorting and filtering lose
nobody and name nobody twice, and keep to the keys (for the bands, `BandsLead`).
Where induction over a length would be needed (a list of lists that is flattened,
a place that moves on with the counter), `Upto` gives it for a *set* of numbers,
by counting its elements, since the library's induction takes an operator. The
second part is about one call. None of the properties of a list is inductive:
`out` is made in one step from sets that earlier passes found at other times.
`PassInv` says of each such set what it still means: who is not in it was excluded
then, and is excluded now or was freed since (`Answered`); so that at the end the
list falls into two parts, the routable and the excluded, which have every
candidate but the freed between them (`Sound`). So it is a list of `FallbackOrder`
(`ListIsAnOrder`, a consequence that no run repeats), which is all that `Failover`
assumes of `plan`; an exclusion that ends just while the list is made is where
`Failover`, which makes it in one step, is the coarser of the two. The third part
is about successive calls: `FairInv` says that the latest leaders are consecutive
members of the `Row` of the leading tier, and that the next in turn goes on with
them. Taking the counter modulo a multiple of every length (`RotationModulus`)
changes no turn: `CounterSteps`, from `Euclid`. So the bound on the counter is no
restriction.

`RelayProofs` (for any blocks, any number of them and both paths):
`EventsArriveAsSent` and `MeterAgrees`, when `LineEnds` has LF and CR alone and
`Tails` is {0}. The first leaves out CRLF, with which what is promised ends at the
first cut inside one (`sse.py:78`); the run checks CRLF beside the others. The second
is needed: without its last blank line an event is forwarded twice
(`provider.py:332`).
Parser and reader are folds over bytes, so what the proof needs first is induction
over a list without the library's theorem of it: `Upto`, as in
`RouterSelectProofs`, and from it what a fold does with one more byte and with two
pieces after one another. The rest goes from bytes to events in four steps.
`FeedIs`: feeding a chunk to what a parser has kept of the bytes before gives what
splitting all of them at once gives, so the cuts do not matter. `ReadIs`: a
reader of the same bytes hears the events the parser finds, as long as it is not
in the middle of one. `ForwardedIs`: a reader of what the path writes for some
events hears what is promised for them, which takes that an event written
(`Rendered`, and the reasoning and usage rewritten) is read back as one event, and
that replacing tokens in bytes replaces them in the events read (`ReadCached`).
`StreamIs`: at the end of the stream nothing but an empty line is left in the
parser. The inductive
invariant `RelayIInv` then says of an open stream that some part `c` of it has
come: that both parsers keep of it what `Split` leaves, that the meter has
observed the events of `c`, and that the client's bytes read as what is promised
for them (on the raw path, that they are `c`). The two properties say nothing of
the parsers' buffers, so neither is inductive.

Three assumptions say what the models took for granted and the proofs had to
use: an edit is not number 0, which is no edit's (`StoreAssumption`); setups,
requests, loads and the affinity TTL of the router have the types of the config
fields and request fields they are (`SetupsAssumption`, `RequestsAssumption`).

Only model-checked: liveness (`OpenCircuitExpires`, `AnswerComes`, `RowsSettle`,
`WorkerFollowsSaves`, `LoopComesBack`, `RequestsEnd`), which needs fairness and
ENABLED; `Relay` with CRLF, which the run checks beside LF and CR; and not
even checked is a stream without its last empty line, where what is promised does
not hold. `Snooze`, `ClientQuota` and `Relay` have no type invariant of their
own: their types are part of the invariants above. No operator is RECURSIVE.

## Not modelled

* Costs, token counts, headers, the text of answers and errors: data no property
  tells apart. The tokenizer, the fingerprints and the conversion between the
  formats of `/v1/responses` and chat are functions of text.
* The endpoints of the same load-await-save shape as `update_model`, one by one;
  validation of the configuration; PUTs without a version, which are accepted by
  design.
* Two saves within one tick of the filesystem's clock: every save has an mtime of
  its own.
* Deleting providers, whose snooze keys stay behind under a name that may be
  given again.
* The latency windows of `stats.py`: they enter `RouterSelect` as the scores of a
  setup. Requests run beside a list being made only through the clock, since the
  caller consumes the generator without an await.
* Time below a tick: arrivals, window and TTL are in whole ticks.
* Embeddings, which repeat the fallback loop of a whole answer; models, metrics and
  web, which only read; SQL aggregation, the log files, the anomaly scan.
* The event bus and alerts: bounded queues that drop the oldest, and a webhook
  with a table of the last time each alert was sent. Nothing else depends on
  what they deliver.

## The plan

1. `CircuitBreaker`, `Failover`, `BackgroundWriter`, `ConfigStore`, `Snooze`,
   `RouterSelect`, `SupervisorLife`, `ClientQuota`, `ResponseCache`, `Relay`: done.
2. Proofs: every safety property the runs check: done.
3. The prober's schedule, the event bus and the alerts' table of times.
