# news-notifier: a verification project

TLA+ models of the news-notifier worker (`src/app`), TLC runs over small
instances of them, and TLAPS proofs of their main properties for every instance.

## 1. Inventory

One FastAPI process and one arq worker share a Postgres database and a Redis
queue. A market is polled in *cycles*; each cycle fans out one job per article;
what the jobs store goes out as one webhook per cycle.

| Component | State | Operations | Hard behaviour | Correct when |
|---|---|---|---|---|
| Market routes (`api/routes/markets.py`) | `Market.status`, `next_poll_at` | subscribe, unsubscribe, update | run against every job; commit, then enqueue or abort | a paused market produces nothing new; an active one has a next run |
| `process_market` (`worker/tasks.py`) | the candidates it holds, `NewsBatch`, `next_poll_at` | search, open a batch, schedule the next run, fan out, resolve collisions | overlapping cycles of one market, ids that collide, death in the middle of the fan-out | every selected candidate is resolved in its batch |
| `process_candidate` (`worker/tasks.py`) | `NewsItem`, the page in memory | scrape, extract, embed, dedup under the lock, store, resolve | minutes between the first read and the commit; two jobs at once; re-run after a crash | one article per story, one resolution per slot |
| Batch ledger (`worker/batching.py`) | `NewsBatch`, `NewsBatchCandidate`, `DeliveryLog` | resolve, finalize, solo delivery, force close | who closes the batch; late resolutions; two commits in one branch | one log per batch, with all its articles, none lost |
| `deliver_batch` (`worker/tasks.py`, `delivery/`) | `DeliveryLog`, watermark | webhook, Telegram, record failure, complete | crash between an answer and its commit; an answer that never comes; two logs at once; retries | what was heard to be accepted is not sent again, counted attempts are bounded, a watermark that only grows |
| Sweeps (`worker/scheduler.py`) | the rows they have read | due markets, stuck deliveries, stuck batches | act on what they read before | everything left behind is picked up |
| Abort (`worker/abort.py`) | the Redis set of job ids | register, abort | pause between enqueue and register; two aborts at once | an abort can find every job but two named kinds, and ends what it finds |
| arq and Redis (external) | job ids, results | enqueue, run, keep the result, re-pick | see section 4 | |
| MSN extractor (`scraping/extractors/msn.py`) | the cached key, its lock and cooldown | fetch, refresh | callers that wait for one refresh; cancellation in its middle | one sniff per cooldown; a rotation of the key heals |
| LLM client, scraper (`llm/client.py`, `scraping/playwright_scraper.py`) | a call and its attempt | request, retry, time out | everything before it counts against `job_timeout` | the first request has all of its timeout |
| Search, filters, cadence, dedup, scoring | none | pure functions | order of the filters; boundaries; a signed column | see section 9 |
| News and scrape-failure routes, UI, security, migrations, deployment | | read-only or static | | |

`PROJECT.json` lists each component with its status, and under `hazards` each
place where the code is hard to test.

## 2. Modules

| Module | Contents |
|---|---|
| `NewsStream` | abstract promise of the ledger: articles are stored at most once per story, groups are disjoint sets of stored articles |
| `Batching` | `process_market`'s fan-out, `process_candidate`, `batching.py`, the stuck-batch sweep, pause and resume, crashes |
| `BatchingSafety`, `BatchingQuiet` | type correctness and safety under any interrupts; safety without interrupts |
| `Watermark` | abstract promise of the deliveries: each complete one, once, compares its newest date with the watermark it began with |
| `Delivery`, `DeliveryProofs` | `deliver_batch`, the stuck-delivery sweep, pause and resume, crashes |
| `Scheduling`, `SchedulingProofs` | when `process_market` runs: its self-schedule, `enqueue_due_markets`, subscribe and reactivation |
| `Jobs` | the jobs of a worker, and `NoJob` |
| `MsnKey`, `LlmCall` | the two shared or retried services a candidate job waits for |
| `CandidateJobs`, `CandidateJobsProofs` | both composed: candidate jobs of one worker against the clock and `job_timeout` |
| `Abort`, `AbortProofs` | the registration of candidate jobs and their abort, as single Redis requests |
| `Dates` | publication dates, and what the date filters keep |
| `Chronology`, `ChronologyProofs` | the watermark over overlapping cycles, batches and deliveries |
| `Selection`, `Cadence`, `Fingerprint`, `Credibility` | the pure parts: queries, merge and filters; `_next_poll_at`; the 64-bit conversion; the score |
| `Pipeline`, `PipelineProofs` | the inputs of the pure parts, and what each part is for |
| `MCBatching`, `MCDelivery`, `MCScheduling`, `MCCandidateJobs`, `MCAbort`, `MCChronology` | the TLC instances |

`Scheduling` decides when a `process_market` run starts and leaves out what it
does; `Batching` models what runs do, in any number and at any time, up to the
`DeliveryLog` and the enqueue of `deliver_batch`; `Delivery` takes the logs over
from there, its jobs enqueued or lost. They share `Market.status`, which each
lets the API change at any moment. `CandidateJobs` looks into the minutes that a
job of `Batching` spends before its transaction, `Abort` into the way a pause
ends such a job (a `LoseJob` step of `Batching`). `Chronology` runs coarse forms
of all three of `process_market`, the ledger and `deliver_batch` together, for
the one thing they only have together: the order in which articles arrive.
`Delivery` and `Chronology` both implement `Watermark`, which ties the coarse
deliveries of the one to the jobs, rows and receivers of the other.

### Plan for what is left

1. `Chronology`'s ledger shown to be what `Batching` does, as its deliveries are
   shown to be what `Delivery` does: `NewsStream` orders its groups, and the
   queue of `Chronology` has no order.
2. Several markets in one worker: a busy market's candidates against the polls
   of another, with `max_jobs` slots.
3. The day after which the set of job ids expires (`abort.py:24`).
4. The mark that outlives its job (section 10) as a property of `Abort`.
5. The title hash and the vector search, for what `Near` may be.

## 3. Batching

One market: the advisory lock and every query are per market.

| State | Code |
|---|---|
| `cycle`, `hand` | a `process_market` run, identified by the batch it may create, and the candidates it holds |
| `status`, `selected`, `resolved` | `NewsBatch.status`, `expected_count` (as the set it counts), `resolved_count` |
| `ledger`, `items`, `logs` | rows of `NewsBatchCandidate`, `NewsItem`, `DeliveryLog` |
| `pc`, `arg`, `page` | job `process_candidate:<market>:<url hash>`: where it stands, its `batch_id`, the page it holds |
| `picked` | the batches `enqueue_stuck_batches` has read and not yet closed |
| `active` | `Market.status` |

Each action is one transaction or one queue operation, with the guard the code
has there. `PassChecks` and `Store` are one transaction: the advisory lock is
taken in the first and held to the commit, so nobody resolves in between, but a
pause (which takes no lock) and a crash may come between. `Record` is
`resolve_batch_candidate`; its straggler branch is two transactions, so it is
`Store` and then `Solo`. A page is any pair of a final URL (redirects make it
differ from the candidate's) and a story; `Near` is the symmetric relation that
title simhash or embedding distance makes of stories.

`Legacy` candidates are the jobs without `batch_id` that a deployment finds in
the queue (`tasks.py:254-256`).

### Properties

| Property | Says |
|---|---|
| `CountsMatch` | `resolved_count` is the number of ledger rows of an open batch and below `expected_count` |
| `ParityMeansAll` | a batch closed by a resolution has all its candidates in the ledger |
| `DistinctNews` | no two stored articles share a URL or a story |
| `OneLogPerItem`, `OneLogPerBatch` | no article in two logs; one log per batch, of its own articles |
| `NoStrandedItem` | without interrupts, a stored article has a log, an open batch, or a job about to write its log |
| `EveryCandidateOwned` | without interrupts, each unresolved candidate of an open batch has somebody who will resolve it |
| `ImplementsStream` | all of it implements `NewsStream` |
| `ParityCloses`, `EventuallyLogged` | without interrupts, candidates close every batch and every article gets a log |
| `SweepCloses` | with interrupts, the sweep closes every batch of a market that stays active |
| `StragglerDelivered`, `ItemReflected` | what comments of `batching.py` promise; violated, see section 10 |

### Runs

| Run | Instance | Result |
|---|---|---|
| `BatchingSafe` | 2 URLs, 2 stories, 2 cycles, 1 interrupt, symmetric | pass, about 1 M states |
| `BatchingParity` | 2 URLs, 1 story, 2 cycles, no interrupt, fair jobs | pass |
| `BatchingSweep` | 2 URLs (one old-signature job), 2 stories, 1 cycle, 1 interrupt, fair jobs and sweep | pass |
| `BatchingStraggler`, `BatchingRepick` | 1 interrupt | violations of section 10 |

Two cycles over two URLs are the least in which a job id collides with another
cycle's job, a batch is closed by a collision, and one batch's straggler meets
the other's articles. Two stories are needed for a duplicate by title under
different URLs and for two articles in one group. One interrupt suffices for
every scenario of one re-run, lost job or cut fan-out; the safety theorems hold
for any number. No run turns off the deadlock check.

### Proofs

`BatchingSafety` has the type invariant (`TypeCorrect`) and what holds under any
interrupts. The invariants of the runs are not inductive as they stand; `SafeInv`
adds the facts they rest on: who holds the lock and what page it has checked against the stored
articles; that a closed batch's articles are logged as its group, in a solo
log, or held by the job in `Solo`; that a log names stored articles only; and
that rows exist only for selected candidates of a batch that was opened. Every
action preserves it, one lemma per group of actions: those that change no row,
those that record a resolution, and those that close a batch. From it follow
`CountsMatch`, `DistinctNews`, `OneLogPerItem`, `OneLogPerBatch`, the action
property `ParityMeansAll` and, step by step, the refinement of `NewsStream`.
`BatchingQuiet` adds the ownership invariants that hold as long as
`interrupts = 0`. With them it draws the boundary of the violation that
`BatchingRepick` finds: only a job whose candidate is in the ledger already stores
an item that no row names (`UnreflectedByRepick`), and without interrupts no job
is in that position, so `ItemReflected` holds (`ReflectedIfQuiet`). The assumptions are those of the module: finitely many URLs,
`Near` reflexive and symmetric, `NoBatch` and `NoPage` distinct from the rest.

Liveness stays with TLC. An abort of a running job (a pause through the API does
that to the candidate jobs of the market) is a `LoseJob` step, so it counts as an
interrupt: "without interrupts" also means that no job was aborted.

## 4. Queue and failures

What is assumed of arq, from how `src/` uses and describes it:

- an enqueue is refused while the job id is queued, running, or has a kept result
  (`tasks.py:229-230`); the result expires after `keep_result`;
- an exception or a timeout ends a job for good (`errors.py`, `tasks.py:443-450`);
- after a worker crash the jobs it was running start again from the beginning
  (`batching.py:10-16`, `scheduler.py:20-24`);
- Redis may lose a queued job (`scheduler.py:27`).

`WorkerCrash`, `LoseJob`, `EvictJob` and `LoseCycle` are these failures.
`MaxInterrupts` (in `Delivery` `MaxFaults`) bounds them all together; a crash is free
to strike at any step.

`Delivery` has two more, which are no interrupts of the worker. A receiver may take
a call and its answer be late, lost or unreadable, which the code takes for a
failure (`taken` in `PostFails` and `SendFails`). And a run may raise before it
commits anything, as with a callback secret that cannot be decrypted (`Raises`):
that may recur in every run, so nothing bounds it.

Fairness: a queued job of arq runs when a slot is free and a started coroutine
goes on, because what it waits for has a timeout (`JobFairness`, `Fairness`);
`cron_jobs` run for ever (`SweepFairness`); kept results expire. Nobody is
obliged to search, to pause, to resume, or to answer 2xx.

## 5. Delivery

| State | Code |
|---|---|
| `status`, `attempt`, `webhook`, `sent` | `DeliveryLog.status`, `attempt`, `webhook_delivered`, `telegram_sent_news_item_ids` (as positions in the log) |
| `watermark` | `Market.max_delivered_published_at`, 0 for NULL |
| `pc`, `mine`, `seen` | job `deliver_batch:<log>`: where it stands; the attempt and the watermark its session holds |
| `posts`, `messages` | how often the receivers took each call (not in the database) |
| `unheard` | how many of those failed all the same, for want of an answer (not in the database) |
| `picked` | the logs `enqueue_stuck_deliveries` has read and not yet enqueued |

A call and the commit of its answer are separate steps. Logs exist from the
start; whether the creator's enqueue happened is chosen per log. The publication
dates of a log are a constant; 0 stands for an undated article. The session
keeps its objects over commits (`expire_on_commit=False`), so `Begin` reads the
watermark and `Complete` compares with that value.

`Expire` waits for a sweep that read the row before it was settled: a sweep is a
job, so it ends within `job_timeout`, and results are kept longer than that.
In-memory variables are cleared when a job ends; they hold nothing then.

| Property | Says |
|---|---|
| `SuccessIsComplete` | a delivered log was accepted by every channel, article by article |
| `NoRepeatedSend` | no call is taken more often than once, plus once per interrupt and per attempt that failed with it although it was taken |
| `AttemptBudget` | `max_delivery_attempts`, no fewer, and no more but for interrupts |
| `TelegramInOrder` | after the webhook, in the order of the log |
| `SettledIsFinal` | a delivered log sends nothing more, nor a dead letter but for interrupts |
| `WatermarkDelivered` | the watermark is the newest date of some delivered log |
| `HighWaterMark` | it is the newest of all: with one job at a time; violated with two |
| `MarkLostByOverlap` | if it ceases to be, then by a delivery that began before another one was committed |
| `Settles` | in a market that stays active each log is delivered or given up, unless its runs raise for ever before they count an attempt |

| Run | Instance | Result |
|---|---|---|
| `Delivery` | 2 logs (one with a dated and an undated article), 2 attempts, both channels, 2 jobs, 1 fault, fair | pass, about 300 000 states |
| `DeliveryWatermark` | both channels, 2 jobs, no fault | violation of section 10 |

Two attempts are the least in which a failed attempt and a last one differ; two
logs the least for the watermark; two articles for an interrupted Telegram loop.
`MaxFaults` bounds the interrupts and the logs with unheard calls together; one is
enough for a call to be repeated in either way, and the theorems of safety hold for
any number. How often runs raise is not bounded.

Without its premise `Settles` would be false: a log whose runs raise for ever is
enqueued by every sweep and never counted (section 10). The other premises are
fairness: a log whose job was evicted, refused or never enqueued is found by the sweep.
The `success` guard at the start of the job turned out not to matter for what is
sent: `webhook_delivered` and the sent list already prevent it.

### Proofs

`DeliveryProofs` proves all safety properties of the passing run, for any logs,
dates, settings and number of interrupts. It assumes what `Delivery` does: a log
has articles, newest first, and `max_delivery_attempts` and `max_jobs` are
positive. None of the properties is inductive; what is, in the order in which each rests on the ones before:

| Invariant | Says | Gives |
|---|---|---|
| `ChannelInv` | the webhook flag was earned; the job is past it only with the flag; a delivered log has no job at work | `SuccessIsComplete` |
| `OrderInv` | the sent articles were accepted and are a prefix; what Telegram has is that prefix, or its next article | `TelegramInOrder` |
| `RepeatInv` | a call whose answer is not committed, nor about to be, was heard to be taken at most `interrupts` times; each time it was taken unheard was an attempt | `NoRepeatedSend` |
| `GivenUpInv` | a sweep that read a log before it was settled cannot start it again; without interrupts nothing can | `SettledIsFinal` |
| `BudgetInv` | the attempt in memory is the next one; a log a job may take up has an attempt to spare | `AttemptBudget` |
| `SeenInv` | a job that remembers no watermark saw a market without one | `WatermarkDelivered` |

The prefix in `OrderInv` needs that the Telegram loop has one article to go on
with (`OneNext`); `Dated` gives the maximum that `Newest` chooses.

`OverlapLosesMark` (`MarkLostByOverlap`) says what the violation of section 10
comes to: a job whose memory agrees with the row leaves the newest delivered date
there, so only one that began before another was committed can lose it.
`SerialKeepsMark` draws the other conclusion: with `max_jobs = 1`, `HighWaterMark`
holds, because one job at a time always remembers the row (`SerialInv`).

`ImplementsWatermark` is the refinement of `Watermark`. A delivery of it goes on
while the job of its log is at work (`InFlight`), with the watermark that job has
in memory; `Begin` and `Complete` are the steps of the same names, a failed call,
a lost job and a crash of the worker abandon deliveries, and everything else
stutters. That a log is not begun or completed again once it is delivered rests on
`ChannelInv`. No run has this refinement: the theorem says more than one would.
`Settles` is liveness and stays with TLC.

## 6. Scheduling

| State | Code |
|---|---|
| `active`, `ahead` | `Market.status`; `Market.next_poll_at` less the time of day |
| `pc`, `wait` | a `process_market` job and the time until it is due; after its commit, the time to the `next_poll_at` it holds |
| `request` | a subscribe or a reactivation that has committed and has its `enqueue_job` before it |
| `picked` | `enqueue_due_markets` has read the market and has its `enqueue_job` before it |
| `extra` | runs started while another was pending (not in the code) |

Time is relative: `Tick` brings `ahead` and each `wait` one unit nearer, down to
the point from which nothing distinguishes them (`Floor`; 0 for a job). A job may
start long after it is due, as it does when `max_jobs` others run. The commit of
`next_poll_at` and the enqueue of the run for it are two steps, so are a request's
commit and its enqueue, and the sweep's read and its enqueue. Job ids hold a time
in microseconds (`job_ids.py`), so no two of these enqueues collide. A subscribe
of a known market is refused and left out. `Steps`, what
`_next_poll_at` may add, is positive as the cadence settings are meant to be; a
negative interval is not refused (`ROADMAP.md:119`).

| Property | Says |
|---|---|
| `ChainsAccounted` | one pending run, and one for each that a sweep, a reactivation or a restart started beside a pending one: runs do not multiply by themselves |
| `RowMatchesQueue` | without interrupts, a run waits or is about to be enqueued for just the `next_poll_at` of the row |
| `KeepsPolling` | a market that stays active is polled again and again, whatever was lost |
| `GoesQuiet` | the runs of a market that stays paused come to an end |
| `DoubleRunEnds` | a market that is never paused comes back to one pending run; violated |

| Run | Instance | Result |
|---|---|---|
| `Scheduling` | steps of 1 and 2, threshold 1, 2 slots, 1 extra run, 1 interrupt, fair | pass, about 30 000 states |
| `SchedulingDouble` | the same, no interrupt | violation of section 10 |

Two steps of different length are the least in which two chains drift apart and a
later commit can bring `next_poll_at` nearer. Four jobs are all that two pending
runs and two in their fan-out need. `MaxExtra` bounds what the code does not: each
late sweep adds a chain. `ChainsAccounted` counts those chains and forbids none of
them; that the sweep's is never taken back is the violation of `DoubleRunEnds`, and a
reactivation or a re-picked run starts one in the same way. Fairness: time passes, cron runs the sweep, a started
coroutine goes on, a due job starts if slots keep becoming free (`SF` of `Begin`),
the API finishes a request that was not interrupted. Nobody has to pause or resume.

`SchedulingProofs` proves the type invariant and both others for any finite set of jobs and any
bounds. They are inductive with the types; the first counts `Pending` step by
step with the theorems on finite sets, the second follows the run that the row
points at from the commit, over its enqueue, to the tick that makes it due.

## 7. Candidate jobs against the clock

| State | Code |
|---|---|
| `site`, `cached`, `lock`, `cooling` | the key MSN accepts; `_cached_key`, `_key_lock`, what is left of the cooldown since `_last_refresh_monotonic` |
| `step`, `used` | where `extract()` of a job stands; the key of its last request |
| `call`, `attempt` | `generate_json`, and the loop variable of `_post_with_retry` |
| `job`, `clock`, `left` | what the job in a slot does, for how long it has run, and in which time its present request ends |
| `quiet` | time since the last sniff began (not in the code) |

A slot of `max_jobs` takes one job after the other; what they have in common is
the memory of the worker process. Time goes in ticks. `Tick` waits for whatever
can happen at once and for requests at their timeout; so a job that waits for the
lock waits only while another holds it. A request may end at any moment within
its time. `Sniffed` may find the key from when the page was opened or the present
one: the site may rotate its key at any step. arq ends a job at `job_timeout`
(`TimeOut`), a pause cancels it (`Cancel`), and a crash empties the memory.

| Property | Says |
|---|---|
| `FirstRequestInTime` | what `settings.py:78-82` wants of the headroom: the first LLM request has all of its timeout, though the job may have waited for the lock, sniffed, fetched twice and fallen through to the browser |
| `SniffsSpaced` | two sniffs of a process begin a cooldown apart, whatever became of the first |
| `SelfHeals` | once the key rotates no more and sniffs succeed, the cache comes to hold it |

The assumptions are the numbers of the code: two requests of 15 s, 24 s of
sniffing and 30 s in the browser are below the 120 s of headroom
(`HeadroomAssumption`), and a sniff is over before its cooldown of 300 s
(`SniffAssumption`). They are idealised in two places. httpx applies its timeout
to each phase of a request, not to their sum, and the launch of a browser has no
timeout of the worker's; `FetchTime`, `SniffTime` and `BrowserTime` stand for the
longest there is. Retries are not covered by the headroom: a server that asks for
long pauses uses the job up, and `TimeOut` ends it. The page sends one key here, the
one the site accepts, where the code takes any of those it finds in the requests
(`msn.py:82-85`). A waiter that finds the cooldown running gets no key
(`Declined`); no property forbids that, it only costs that job its fetch.

Run `CandidateJobs`: 2 slots, 2 keys, every time 1, headroom 4, cooldown 2, one
retry, 1 interrupt, fair; pass, about 690 000 states. Headroom is exactly
what the assumption asks, so one tick more anywhere is found. Two slots are what
the worker has (`max_jobs = 2`), and the least for a waiter. The backoff gives
pauses of one and two ticks; `RetryAfters` is empty because longer pauses only
lead to `TimeOut` sooner. Fairness: time passes, and a coroutine that can go on
does; the site need not answer, rotate or refuse. `SelfHeals` says so itself: it
is about runs with refusals again and again and, from some time on, neither
rotation, crash, cancellation nor a failing sniff.

`CandidateJobsProofs` proves type correctness, `FirstRequestInTime` and
`SniffsSpaced` for any number of slots and all times that meet the assumptions.
The invariant says by when each part of `extract()` is over (`InTime`). Its core
is the waiter: as soon as it has waited longer than its own first request the
cooldown must be running, since the job that holds the lock started it and
outlasts no cooldown (`Held`). So it never waits for the lock and then sniffs
too, and however many wait, each waits for one sniff at most.

## 8. Abort

`tracked` is the set in Redis, `marks` arq's sorted set of aborts, `live` the jobs
queued or running; `fresh` is what `process_market` has enqueued and not yet
registered. `abort` and `listed` are where a request stands in
`abort_market_jobs` and the ids it has read. `late` and `strays` only name the
exceptions. One fan-out runs at a time.

| Property | Says |
|---|---|
| `LiveJobReachable` | a live job is in the set, marked, or about to be registered, unless it was registered between an abort's read and its deletion of the set, or its `process_market` died before registering it |
| `AbortEnds` | a job that an abort has read ends, unless the API dies in between |

A stray runs to its end, or to the `market_inactive` check of a new start, or is
registered again by the next cycle that finds its URL; then it is a stray no more.
The exceptions are the races the code has, so the property does not catch them: it
catches a set that is emptied before its ids are marked, or by a request that has
not read them. A job registered after the deletion is in the set again, for the
next abort; that it may outlive this one is left to its own status check
(`tasks.py:283`), which `Batching` has.

Run `Abort`: 2 jobs, 2 requests, 1 crash, fair; pass, about 250 000 states.
Two requests are needed for the deletion by one of what the other has yet to read
(DELETE and PATCH may race), two jobs for one that is read and one that is not.
Fairness: the API goes on with the marks, and arq looks for them; no job has to
end by itself. `AbortProofs` proves the type invariant and `LiveJobReachable` for
any jobs and requests. Inductive with it is what a request knows: between its read
and its marks, the set has only what it read and what came late (`ReadAll`);
between its marks and its deletion, what is live there came late or can be reached
otherwise (`MarkedAll`).

## 9. Order, selection and scores

### Chronology

One market. `mark` is the watermark, `seen` what a cycle has read of it; `jobs`,
`batch` and `stored` are a cycle's articles in hand, in its open batch, and stored;
`queue` and `sending` are the logs. `sent`, `overlap` and `begun` record what was
delivered and when a cycle began. An article has a date from the search, from its
page, or none; the search's wins (`tasks.py:418-422`).

`LateOnlyInFlight`: an article that the search dated does not arrive after a newer
one that was delivered before its cycle began, as long as no two deliveries have
overlapped by then. The restrictions are the code's: the filter runs once per
cycle, on the date of the search, and section 5 has the overlap. What it covers is
everything else: cycles that overlap, stragglers, the sweep, failed deliveries, a
page older than the search says.

Run `Chronology`: 4 articles (old, middle, new, undated), 2 cycles; pass,
about 740 000 states with the inputs below. Two cycles are the least in which one
begins after a delivery and another before. Everything ends in it, a run of the
program without new articles: the deadlock check is off.

`ChronologyProofs` proves the type invariant and `LateOnlyInFlight` for any
articles, dates and cycles, from three facts: without overlaps the watermark is
above everything delivered (`MarkAbove`); so what a cycle has read is above what
was delivered when it began (`SeenAbove`); and what its jobs have in hand or have
stored is undated by the search or not below what it has read (`InHand`).

A second invariant, `OnePlace`, follows the articles themselves. What a cycle
stores is in its batch, as long as that is open, and else in one log, queued,
being sent or sent; logs are not empty and share nothing (`NoneEmpty`,
`NoneShared`, `Waiting`). It rests on the types, which say that two cycles never
store one article. Three theorems come from it, and no run checks them:
`ArrivesOnce` (no article in two delivered logs, though a failed delivery is
retried and a late job's item gets a log of its own), `NoArticleLost` (each stored
article is in an open batch or in a log) and `ImplementsWatermark`, the refinement
of `Watermark` with sets of articles for logs. `NoArticleLost` is about
`Chronology`, where a candidate job does not crash and a straggler is one commit:
what is lost between its two is in sections 3 and 10.

### Pure parts

`Pipeline` has one variable, the input of one pure part, which never changes; the
properties compare the operators with what they are for. `MCChronology` takes each
input as an initial state of its own.

| Property | Says | Inputs |
|---|---|---|
| `QueriesDiffer` | the queries are the first different ones of the LLM's, as many as there are up to the limit | sequences of up to 4 of 5 wordings, a limit of 2 |
| `SelectsTheClosest` | the candidates are the eligible articles closest to the question; no slot goes to one that cannot be used | two sources of up to 2 of 6 results, with and without watermark, known URLs, three ages, three limits |
| `TiersReached` | a market gets to each polling tier on its way to the resolution date, if its interval with the jitter is at most 23 days | every boundary of the tiers and its neighbours, 5 intervals |
| `StorageKeepsDistance` | a fingerprint fits the signed column, and is as far from any other after reading it back | all pairs of 6 bits |
| `ScoredBySource` | a source counts by its closest entry in the table; a better signal never lowers the score | every table over three domains, signals in and out of range |

Six bits have the same cases as 64: the sign bit set or not. The first result of a
URL wins the merge, though a later one may have a date or be closer; the results
have such pairs.

`PipelineProofs` proves all five for lists of any length, any table, domain,
interval, signal and number of bits (`InputSpec`, whose only variable is the
input). `Selection` is written for that: a comprehension or a sort is a set of
positions and an order of them (`Arranged`), not a fold over the list. The lemmas
say what its operators return: `ArrangedInOrder` (each position of the set once,
in the given order; its core is that the numbers of positions that come no later
are distinct and leave no gap, `RanksAreDistinct`), `KeptList` and `RankedList` (the same in the order
of the list, and by closeness with ties in the order of the list),
`FirstOfEachList` (one element for each value of a key), `FirstFewList` and
`RelevantList` (what is cut off is no closer than what is left), `FilterKeeps`
(filtering keeps what the test allows, and no URL twice). `LeastHit` and
`TierByParent` do the same for the source table, `SignedRoundTrip` for the signed
column.

They assume types, no sizes: results carry a natural number for a date and an
integer for closeness, signals and intervals are integers, the table gives tiers
(`ListsAssumption` and its neighbours in `Pipeline`). `BitsAssumption` states
two facts about powers of two, that 2^Bits is twice 2^(Bits-1) and that this is
positive: they need induction over the exponent, which is out of the prover's
reach, and TLC evaluates them for its six bits.

## 10. Where code and comments disagree

1. `batching.py:122-126`: the straggler branch commits twice. An interrupt in
   between loses the delivery that the comment at :60-61 promises
   (`BatchingStraggler`).
2. `batching.py:99-104`: the conflict branch is called an idempotent no-op, but
   its commit persists the article the re-run staged (`BatchingRepick`). The
   article reaches a delivery only if its batch is still open.
3. `tasks.py:559-562`: the watermark can move back (`DeliveryWatermark`), against
   `models.py:77-79`.
4. `scheduler.py:59`: the sweep's job id is made of the current time, so it never
   equals that of the late run, against the comment at :52-55. A run that waits for
   one of `max_jobs` slots, or is still searching, past the five minutes gets a
   second one beside it (`SchedulingDouble`: nothing is paused or interrupted
   there, and the second chain begins with `SweepEnqueue`).
5. `tasks.py:204-209`: each of two such runs schedules a successor, so the market
   has two chains from then on. `markets.py:99-102` says that a double run costs
   one extra pass (`SchedulingDouble`).

Met while modelling, and without a run of their own:

- `README.md:279-281` and `tasks.py:513-515` say that a retry does not resend the
  webhook or earlier messages. They hold for answers that arrived: a call that was
  taken and timed out (`webhook.py:26-27`, `telegram.py:58-60`) is sent again
  without any crash. `README.md:257-259` gives the receivers of the webhook an
  `Idempotency-Key` to sort that out; Telegram has none.
- `tasks.py:517`: a callback secret that cannot be decrypted, or any exception
  before `record_failure`, leaves the log unsettled with no attempt counted, and
  the sweep retries it for ever. `ROADMAP.md:213-217` knows of it.
- `worker/settings.py:80-82` speaks of the LLM client's timeout being retried;
  `client.py` retries busy statuses only, and a timeout raises (`Raised`).
- `worker/settings.py:84` calls `process_candidate` the only job that calls the
  LLM; `process_market` does too, for its queries.
- `msn.py:104-105` says that concurrent callers share one sniff; those that waited
  for the lock find the cooldown running and get no key (`Declined`). They go on
  to the browser.
- `abort.py:22-23` calls the abort of a finished job a no-op; the mark stays in
  arq's set, and a later job of the same id is cancelled by it (in `Abort`: `List`,
  `Finish`, `Mark`, then `Resume`, `Enqueue` of the id, `Cancel`).
- `tasks.py:70` says the closer the date, the more often; a market whose own
  interval is shorter than a tier's step is polled less often as the date nears.
- `tasks.py:158-160` promises that no late article follows newer ones; a cycle
  that began before their delivery was complete can still bring one, which is why
  `LateOnlyInFlight` speaks of `begun`.

## 11. Not modelled

- Prompts, the proofs quoted from a page, message layout, signatures and
  encryption (`security.py`): they keep no state that another step reads.
- URL normalisation and the title hash: URLs are keys that two results may share,
  stories are related by `Near`. The vector search is part of `Near`.
- The rendering of pages and the parsing of results and MSN's JSON: a scrape gives
  any page or fails, a source gives any results.
- The long-lived browser of the worker and its start and end.
- Migrations (`src/migrations`): they create the tables whose rows are the state
  here, and run before the program does.
- The news and scrape-failure routes and the UI: they read only.
- A market that is deleted: the API has no operation that deletes one. Fields of a
  market other than its status: an update of its resolution date takes effect at
  the next poll.
- The expiry of the set of job ids after a day.

Time is a choice outside `Scheduling` and `CandidateJobs`: any batch or delivery
may be old enough for a sweep, any kept result may expire. Liveness (`ParityCloses`,
`EventuallyLogged`, `SweepCloses`, `Settles`, `KeepsPolling`, `GoesQuiet`,
`SelfHeals`, `AbortEnds`) is model-checked only: the prover has neither fairness
nor ENABLED. All other properties of the passing runs are proved.
