# lint-in-the-dead in TLA+

A verification project for the Go code of lint-in-the-dead: modules that model
its services and its command line tool, TLC configurations that check them on
small instances, and proofs, checked by TLAPS, of the properties that carry the
most. `PROJECT.json` maps every definition to the lines it models and lists
runs, mutants, findings, hazards and theorems.

Parse with `tlasany M.tla`, check with `tlc -workers 2 -config X.cfg M`, prove
with `tlapm M.tla`.

## 1. The system

| Component | State it keeps | Operations | Hard about it |
|---|---|---|---|
| analysis-service: job pipeline (`main.go`, `analyzer/workers.go`, `pkg/queue`) | queue channel (capacity 512), the pool's channel, one result channel per job, the map of results, four metrics | submit, list and get a job; the consumer, the workers, one collector per job; signal and shutdown | a chain of bounded channels between four kinds of goroutines; shutdown at any moment; accounting that is not atomic with what it counts |
| analysis-service: analyzer (`analyzer/analyzer.go`, `pkg/cache`, `pkg/retry`) | result cache with expiry, temporary directories | `Run`: lookup, clone, scan, evaluate with retries, store, start the posts | concurrent runs for one commit, branches that move, retries, posts nobody waits for, a process that ends |
| api-gateway: WebSocket hub (`server/ws.go`) | map of clients, a channel per client, the broadcast channel | register, unregister, broadcast; a read and a write pump per client | channels closed by one goroutine and used by others, slow clients |
| api-gateway: SSE broker (`server/sse.go`) | map from job to a slice of channels | `Publish`, `PublishAll`, `subscribe`, `unsubscribe`, `ServeSSE` | slices that share arrays used outside the lock |
| api-gateway: rate limiter (`middleware/ratelimit.go`) | a token bucket per key | `allow`, `purge` | fractions of tokens over long sequences, forgotten buckets |
| api-gateway: handlers and middleware (`server/`, `middleware/`) | per request a status, the metrics | the chain Recovery, Logger, CORS, limiter, Metrics; webhook, submission, listing, `/metrics`, health, the two streams | a job forwarded over a connection that may break before or after the job is taken, with a client that may have left; counters around a handler that may panic |
| policy-engine and `pkg/rules` | loaded rules, patterns by rule ID | load, compile, evaluate, list | three nested loops with directives, a scanner that can stop early |
| audit-service (`main.go`, `store/`), `pkg/signing` | entries, in memory or in Postgres | insert, query by job, event type and actor with limit and offset, verify | slices with offset and limit, crash between commit and answer |
| notification-service (`main.go`, `notifier/`) | backends | `Dispatch` in a goroutine | a context that is cancelled when the handler returns |
| `pkg/github` | token | check run, pull request comment | lists that are cut; runs in a goroutine without recover |
| `pkg/metrics` | registry of counters, gauges, histograms | get or create, inc, dec, observe, the page | read metric by metric while it moves |
| `cmd/litd` | none between runs | `check`, `test-rules`, `scan --wait`, `job` and other queries | one long pipeline from the command line to the exit code; polling |
| `pkg/entropy`, `pkg/deps`, `pkg/models` | none | scanners of lines, the summary of findings | what is remembered between lines, edges of thresholds |

How they interact: the gateway posts a job (from a webhook or the API) to the
analysis-service and answers when it was taken. The pipeline runs the analyzer, which
posts the files to the policy-engine and waits, and posts the result to the
audit-service, the notification-service and GitHub without waiting. Clients
poll the analysis-service; streams at the gateway are meant for them too. Within a service,
goroutines share channels, maps under a mutex, and atomic counters. `litd check`
does the analysis in one process without any service.

What makes each part correct:

* Pipeline: an accepted job gets exactly one result; nothing is lost or doubled
  between channels; the metrics add up; everything ends on a signal.
* Analyzer: a result belongs to the job that asks and to the commit it names;
  directories go away; retries are bounded; what GitHub is told is what was
  found.
* Hub and broker: nobody panics on a closed channel; the registry is what
  subscribers made of it; an event reaches those it is meant for, in order.
* Gateway: 202 means the service has the job, a job in the service was asked
  for by a request that may; the metrics count each handled request once.
* Rate limiter: burst plus rate bounds every interval; a paced client passes.
* Evaluator: what is reported is what the rules and directives mean.
* Audit: what was acknowledged stays, unchanged, and pages show it.
* Notifier: a message for a configured backend is sent once.
* GitHub: what is shown agrees with the result although lists are cut.
* Check and test-rules: the exit code says what the files, or fixtures, contain.
* Scan: it ends, and exits with 0 only for a job that was taken and, with
  `--wait`, a result that was shown.

## 2. The modules

| Module | Models | State and actions |
|---|---|---|
| `JobService` | the promise of the analysis-service: a job is taken, later it has one final result, until the process ends | `status`, `outcome`, `service`; `Take`, `Finish`, `Stop` |
| `JobPipeline` | the same with its goroutines | one program counter each for handlers, consumer, workers, collectors, main; channels as sequences; one action per channel operation, counter update or lock region |
| `Metrics` | `pkg/metrics` | a registry as a value, and operators for every operation; a module keeps it in a variable and makes each atomic or locked operation a step |
| `Gateway` | the requests of the api-gateway | a program counter per request through middleware and handler; `link` is the POST to the service; clients leave, connections break, the service stops |
| `Platform` | the composition: `Gateway`, in it `JobService`, and `litd scan` and `litd job` | where each scan is, how often it polled, what it and a later `litd job` showed |
| `Analyzer` | `Run` of several jobs at once | program counter per run, cache, directories, clock, branch tips, the fate of each post; building a result, storing it and returning it are steps of their own, each with its own reading of the clock; retries one action per attempt |
| `GitHubReport` | check run and comment of a result | operators on a sequence of findings |
| `Summary` | severities, score and verdict of `pkg/models` | operators; used by `GitHubReport`, `Evaluator` and `CheckCommand` |
| `Hub` | `Hub.Run`, `ServeWS`, the pumps | the range loop over clients is one action per client, so everything can happen between two of them |
| `SSEBroker` | the broker for one job | slices are `[arr, len]` over `arrays`; append and in-place removal write the arrays as Go does; the lock is `lockedBy` and `readers` |
| `RateLimiter` | `allow`, `purge`, `clientIP` | tokens and time in integer units: a unit of time refills a unit of token, `Token` units make a request |
| `AuditStore` | the audit-service over either store | requests, entries, restarts; queries, with their filters, are operators on the state |
| `Notifier` | the handler and `Dispatch` | handler, context and dispatch loop per request |
| `Evaluator` | `pkg/rules`, the policy engine's start and one evaluation, `litd test-rules` | the loops over files and rules by two cursors, one rule on one file as the operators `EvalRule` and `EvalRegex`; a line is its matching patterns, its directive and whether it is too long; whether a pattern matches a whole file, which is what a negated rule asks, is the constant `MatchString`, as an anchored pattern may match a line and not the file |
| `Lists` | what a loop that appends the elements it keeps makes of a list | `Sublist(s, S)`: the elements of `s` at the places in `S`, in order |
| `LineScanner`, `Entropy`, `Deps` | `bufio.Scanner` as the scanners use it, `pkg/entropy`, `pkg/deps` | operators: the lines up to the first that is too long; strings at or over a threshold; five parsers, each a function of the number of lines read |
| `CheckCommand` | `litd check` | one action per stage, parsing of the command line included, and one per file of each analyser's loop, with `Entropy` and `Deps` for what the two find in a file |
| `MC...` | instances of these for TLC | constants only |
| `JobPipelineProofs`, `PlatformProofs`, `AnalyzerProofs`, `EvaluatorProofs`, `CheckCommandProofs` | theorems about the module they are named after | |
| `GatewayPartsProofs` | theorems about `RateLimiter`, `Hub` and `SSEBroker` | |
| `ServiceProofs` | theorems about `AuditStore` and `Notifier` | |
| `ListProofs` | lemmas about numbers, lists, scanners and recursion that the others use | |

The modules that `GatewayPartsProofs` and `ServiceProofs` extend together share
no state and no name; hence `LimiterSpec`, `BrokerSpec` and `NotifierSpec`.

`JobPipeline` instantiates `JobService` and is checked and proved to implement
it. The analyzer's end is one step (`FinishRun`) of the pipeline, with either
outcome; `Analyzer` models what happens in it. `Gateway` instantiates
`JobService` for the service it forwards jobs to, so that what `Platform` shows
of a job's way from `litd` and back rests on what `JobPipeline` was shown to
implement. When the limiter refuses is `RateLimiter`; `Gateway` lets it refuse at
any time.

Modelled from their use, since their code is elsewhere: the Go runtime (slice
growth, map order, select, `RWMutex`), `net/http` (`Shutdown`, request
contexts, connections), `bufio.Scanner`, git, the clock, and the remote ends.

## 3. The runs

Passing runs, one per module:

| Run | Shows |
|---|---|
| `pipeline` | `TypeOK`. `ExactlyOneHolder`: an enqueued job or its result is at one place, once. `QueueDepthExact`: the gauge is the queue's length up to who is between two statements. `CountersBalance`: jobs queued are jobs completed and jobs between the two counters, also when a result was received and not yet counted. `ImplementsJobService`. `EveryJobFinishes` unless the service is shut down; `ShutdownCompletes` |
| `platform` | `AnswersMatchJobs`: whatever breaks between client, gateway and service, 202 means a job. `MetricsBalance`, under panics too; `ScrapeConsistent`: a page written while the metrics move. `LitdTellsTheTruth`; `EveryRequestEnds`, `ScanEnds` |
| `analyzer` | `ResultIsOwn`, `DirsCleanedUp`. `CachedIsFresh`: a cached result is all of what another run made for the key, served within its time to live of being stored, and posts nothing. `CommentIsSafe`: the slice `CommitSHA[:8]` is never reached with a short SHA. `ReportRight`: what GitHub shows agrees with the analysed files though it is cut. `EveryRunReturns` |
| `hub` | `NoPanic`, `RegistryExact`; `NoGaps`: what a client gets has no hole before its end; `ClosedIsForgotten` |
| `sse` | `ListExact`: the list of subscribers whenever nobody is changing it. `OfferedOnce`: when an event is offered exactly once to everyone, although the walk goes over a shared array. `LeaversLeave` |
| `ratelimit` | `RateBounded`, `SteadyNeverRefused` |
| `audit` | for both stores `CreatedIsKept` and `AppendOnly`; `MemoryPageExact`: what is at each place of a page, and past the end nothing but empty entries, or a panic. `PostgresPageExact`: each place has an entry of the right time, so that pages join up |
| `notifier` | `OnceOrCancelled`: at most one message per target, and none only for a cancelled context; `EveryDispatchEnds` |
| `evaluator` | `FindingsExact`, with the order, against a definition of what a rule means; `VerdictRight`; `TestsExitRight`: the exit code of `test-rules` against the fixtures |
| `check` | `ExitRight`: the exit code against a definition on the input, which says without a parser what a manifest declares and counts the flags before the directory, whatever follows it; `ExitExplained`: the code is the report's, and misses an issue only if a limit is set and the report is full; `ErrorsMatchVerdict` |

Runs whose property states what a comment says of the code and is violated
(quotes under "findings" in `PROJECT.json`):

| Run | The code |
|---|---|
| `pipeline_panic` | may send on the pool's closed channel at shutdown |
| `analyzer_commit` | analyses the tip of the branch under the name of the commit, and caches that |

### Where the code and its documentation differ

Met while modelling; the modules follow the code, and the passing properties
are stated so that they hold of it.

| Code (under `src/`) | Documentation |
|---|---|
| `services/analysis-service/main.go:60`: a failed job has 0 findings and is counted as completed; `jobs_failed_total` never moves (`CollectorCount`) | `configs/grafana/dashboards/litd-overview.json:21`, "Jobs Failed (total)" |
| `analyzer/analyzer.go:52`: cache hits and failed clones return before the post to the audit-service (`LookupHit`, `Fail`) | `README.md:198`, "every job event is HMAC-signed and stored" |
| `analyzer/analyzer.go:217`: a post is tried once in a goroutine nobody waits for; a lost one is logged, and a later job for the commit is answered from the cache and posts nothing (`PostLost`, `LookupHit`) | `README.md:198`, the same |
| `analyzer/analyzer.go:201`: the answer of the policy engine is decoded and dropped (`FindingsOf`) | `README.md:142`, the rule engine among the analysers |
| `server/sse.go:29`: `Publish` walks a shared array after the unlock and may skip, or offer twice, when someone unsubscribes (`OfferedOnce` says when it does not) | `server/sse.go:26`, "to all subscribers" |
| `middleware/ratelimit.go:91`: a direct client's key is address and port (`ClientIP`) | `middleware/ratelimit.go:22`, "per IP" |
| `store/memory.go:63`: a page that ends behind the last match reaches into unused capacity and has zero entries, or panics (`MemoryQuery`) | `pkg/models/audit.go:5`, "immutable, HMAC-signed record" |
| `pkg/rules/evaluator.go:103`: the scan stops at a line of 64 KiB, silently (`ScannedLines`) | `pkg/rules/evaluator.go:41`, "returns all findings" |
| `pkg/rules/evaluator.go:68`: only the type `regex` is evaluated (`EvalRule`) | `README.md:122`, "regex, literal, negate" |
| `cmd/litd/check.go:55`: `Parse` stops at the first word, so every flag after the directory is dropped without a word: `check . --fail-on never` may exit with 1 (`ParseArgs`) | `README.md:15`, `:74` and `:102`, "litd check [directory] [flags]" |
| `cmd/litd/check.go:45`: a flag that cannot be parsed ends the command with 2, `-h` with 0 (`ParseExits`) | |
| `cmd/litd/check.go:185`: `--max-findings` cuts before score and exit code are computed (`ApplyLimit`) | `README.md:80`, "Limit output" |
| `cmd/litd/check.go:92`: a flag cannot clear `no_entropy` or `no_deps` of the config (`Merged`) | `cmd/litd/check.go:23`, "CLI flags always override" |
| `cmd/litd/check.go:494`: `low` counts info and unknown severities (`ExitCode`) | `README.md:83`, "Minimum severity" |
| `cmd/litd/check.go:384`: with `--changed` below the top of the work tree no path exists (`Changed`) | `cmd/litd/check.go:54` |
| `pkg/models/analysis.go:74`: medium costs 4, and passed means no critical or high (`Score`, `NewSummary`) | `README.md:154` and `:158`, 5, and score at least 70 |
| `services/notification-service/main.go:49`: the goroutine uses the request's context, which ends with the handler, so a message may be cut off before Slack has it (`SlackTooLate`, `SlackCut`) | `notifier/notifier.go:10`, "routes notifications to all configured backends" |
| `middleware/logger.go:11`: the wrapped `ResponseWriter` has neither `Flush` nor `Hijack`, so behind the chain `ServeSSE` (`server/sse.go:85`) and the WebSocket upgrade answer 500 (`Verdict`); besides, nothing calls `Publish`, `PublishAll` or `Broadcast`. `Hub` and `SSEBroker` model the two as they would run | `README.md:45`, "WebSocket hub, SSE broker" |
| `server/jobs.go:22`: the status is passed on, the body drained (`ListJobs`) | `server/jobs.go:11`, "proxies job listing" |
| `middleware/metrics.go:27`: preflights, refused requests and panics are not counted (`Passed`) | `middleware/metrics.go:10`, "instruments every request" |
| `analyzer/analyzer.go:51`: submitted jobs have neither owner nor name, so that all of one SHA share the key `/@sha` (`CacheKey`) | `analyzer/analyzer.go:49`, "cached by commit SHA" |
| `pkg/github/checkrun.go:210`: a SHA of less than 8 characters would end the process; only GitHub's refusal of the check run prevents it (`CommentPanics`, `PostDelivered`) | |
| `pkg/github/checkrun.go:212`: a severity outside the five has no row in the table (`Comment`) | |
| `cmd/litd/main.go:96`: `scan --wait` exits with 0 for any result, failed or not (`PollHits`) | |
| `pkg/entropy/entropy.go:66`: the scan stops at a line of 64 KiB, as do the parsers of `pkg/deps` (`Scanned`); equality with the threshold counts (`Scan`) | `pkg/entropy/entropy.go:56`, "checks every line" and "exceeds threshold" |
| `pkg/deps/scanner.go:115`: a section of `package.json` ends only at a line that is just `}` (`PackageJSON`) | |
| `cmd/litd/testrules.go:29`: disabled rules are tested too, and `litd:ignore-file` has no effect there (`TestRule`) | |

### Bounds, and why they are enough

* Pipeline: two jobs, two workers, both channels of capacity one. One job fills
  a channel while the other waits before it; two workers make results overtake
  each other. More jobs wait in longer rows and meet nothing else; the proofs
  remove the bound for safety and for the implementation of `JobService`.
  62,298 states.
* Platform: two requests at a time, the first any of 17 inputs (for every early
  return of a handler one that differs from a good request in that point only),
  the second a webhook or a scrape; a latency at the bound of a bucket and one
  beyond the last; two polls, so that a result can come before, between and
  after them. Requests meet only in the registry and the service, pairwise.
  318,408 states.
* Analyzer: two jobs that share a cache key, or differ by a short SHA, or lack
  owner and name; one repository with two commits, one with an unpinned
  dependency and one with two and a secret, while the check run takes two
  annotations and the comment lists one finding; two attempts (four in the code:
  the first, and a last one that may not be retried); a time to live of 0 and a
  clock of one tick, which can fall between completing, storing and serving and
  lets an entry expire; the audit-service has a URL and the notification-service
  none, so that both ways of a post are taken. 354,604 states.
* Hub: two clients, three events, buffers of one: one client is cut off while
  the other one is served. SSE: three subscribers, so that one can leave from
  the front, middle or end of a slice whose capacity (1, 2, 4) does and does
  not leave room; one `Publish` and one `PublishAll`. Subscribers are numbered in
  the order they subscribe in, which loses nothing as their names mean nothing.
* Rate limiter: a request costs two units, a bucket holds two requests, so
  buckets hold fractions; six units of time pass the purge age.
* Audit: three entries of two jobs, one without event type and one without
  actor, every filter by the three fields, limits from -1 to 3, every offset, one
  restart, one tick of the clock so that timestamps tie.
* Notifier: a request with one Slack target and one with every kind of target.
* Evaluator: every file of at most three lines over six shapes of line, with
  and without a second file, `HeaderLines` two so that a directive can be
  inside and outside; for `test-rules` every pair of
  fixtures of at most two lines; ten rule directories (two rules each: duplicate IDs with
  and without a pattern, negated, negated with an anchored pattern, disabled, of another type, not compiling,
  unreadable).
* Check: three files, 16 scenes that cover every place, kind, severity and
  format of manifest, five configs, 1152 combinations of flags
  before the directory, four lines with flags after it or on both sides, and two that end at once
  (what comes after the directory is never read, so one combination shows as
  much as all). 2.87 million states.

`Evaluator` and `CheckCommand` stop when their answer is given, hence
`CHECK_DEADLOCK FALSE` in their configurations. Elsewhere a stuttering
`Finished` or `Terminated` action marks the ends that are meant, so that TLC's
deadlock check finds the others; in `Analyzer` branches can always move.

### Fairness

Weak fairness of a goroutine's steps is what the Go scheduler gives: a
goroutine that can go on does. It is assumed for the pipeline's handlers,
consumer, workers, collectors and main, for a run of the analyzer, for the
hub's loop and the pumps, for the broker's walks and unsubscribes and for
`Dispatch`, for a request in the gateway and for `litd scan`. `ServiceTakes` is
fair while the service is up: that its handlers are not blocked for good is
`EveryJobFinishes` of `pipeline`. Strong fairness is assumed once, for `Unregister`: a sender that
waits on a channel is queued, and the hub's select chooses among ready cases at
random.
Nothing is assumed of clients, signals, pushes, ticks, panics, refusals or
failures. A run of the
analyzer is assumed to end within the pipeline; `EveryRunReturns` shows it does,
given that each external call returns or fails. That `net/http` cancels the
context of a request is assumed by `EveryDispatchEnds`, which rests on it.

## 4. The proofs

Proved for every value of the constants under their assumptions. These say what
the code has: capacities, limits and bounds are naturals and those of channels
positive, `None` and `Nil` are no job, result or subscriber, the buckets of a
histogram, the rules and the files of a request are sequences. Four say more.
For the rate limiter `PurgeAge >= Capacity >= Token`: a bucket is purged only
when it would be full. `InputAssumption` of `Gateway`: `litd scan` sends a body
the gateway can decode. `ReportAssumption`: a check run takes at least one
annotation (50 in the code). `JobAssumption` and `ParamAssumption` of
`Analyzer`: what is not a commit is no commit's name.

Hardly an invariant the runs check is inductive as it stands. For each the
strengthening, and why it is needed:

* `JobPipelineProofs`. `TypeCorrect` needs `TypeInv`, which adds that whoever
  holds a job at a given program counter really has one. `HoldersExact`:
  `ExactlyOneHolder` counts places and is not inductive; `HolderInv` says that
  the places partition the enqueued jobs, that each worker has a job of its
  own, that the channels repeat nothing, and that a collector exists only for a
  job past the consumer. Each action moves one job from one place to the next;
  `PlacesFrame` and `HolderFrame` cover the steps that move none. `Implements`
  takes every step to a step of `JobService` or a stutter, with `HolderInv` for
  the fact that a result is stored once. `DepthExact` and `CountersExact` need
  `CountInv`: the sets of jobs between two statements (`Uncounted`, `Ungauged`,
  `Unfinished`) are finite, and each counter update moves one job in or out of one
  of them. A job enters `Unfinished` at `jobsQueued.Inc` and leaves it at
  `jobsCompleted.Inc`, not when its result is received.
* `PlatformProofs`. `AnswersCorrect` from `ForwardInv`: a request that is linked
  to the service passed every check of its handler (`ChecksSuffice`), made the
  job it sends, and was not answered anything but what the link allows; a link
  that is taken, or a 202, means that the service knows the job. `LitdIsTruthful`
  from `ScanInv`, which adds that what a scan has printed is what the service
  still has. `MetricsExact` from `BalanceInv`: where a request that panicked, was
  refused or is a preflight can be (`Placed`), so that every increment and
  decrement changes exactly one of four sets by the one request that moves.
  `PagesAreConsistent` from `ScrapeInv`, on top of it: the last running sum of
  the histogram is its total (`Summed`), which an observation keeps as it adds
  one to every sum from its bucket on; and a page, once its lines are written,
  stays behind what the registry has since become (`PageOK`). The set of
  requests that have come is finite because it grows one by one, whatever
  `Requests` is.
* `AnalyzerProofs`. `DirsAreCleanedUp` from the types and the stage of each run;
  `CommentNeverPanics` from `CommentInv`, the order of the posts: a comment is
  begun by a delivered check run, which only a commit gets. `ResultsAreOwn`,
  `CachedAreFresh` and `ReportsAreRight` from `ResultInv`: every entry of the
  cache was made by some run for its key, was stored no earlier than completed and
  expires a time to live after that, by a run that has returned or is returning
  (`EntryOf`); a run that made an entry stays what it is (`MakerStays`). The report is then a lemma on how a list of
  secrets and dependencies is cut.
* `GatewayPartsProofs`, the hub. `TypeCorrect` (proved only, no run repeats it; with `HasEvent`: there is an event in hand during
  the range loop), `NeverPanics`, `RegistryCorrect` from `HubInv`, which ties
  the map to the stage of `ServeWS` and the reader of every client.
  `EventsInOrder` from `OrderInv`: what a client got and has in its buffer is a
  run of consecutive events, and, as long as it is registered, ends with the
  last event that was handed to it.
* `GatewayPartsProofs`, the SSE broker. `ListIsExact` from `RegInv`: the slice lies in its array,
  holds nobody twice, and while a removal is under way the one cell that is
  doubled is known (`hole`). `EventsAreOfferedOnce` from `WalkInv`: as long as
  nobody unsubscribes, or the lock is held, the part of the view already walked
  has been visited once and the rest not at all. Appending writes behind every
  view, or to a new array.
* `GatewayPartsProofs`, the rate limiter. `RateIsBounded` from `LevelBounded`: what was granted
  plus what the bucket would hold now is at most capacity plus time (its
  `LimiterTypeCorrect` is proved only, too). A purge
  keeps it because a purged bucket counts as full and was. `SteadyIsServed`.
* `ServiceProofs`. `EntriesAreKept` from `StoreInv`: an ID names at most one
  entry, since a request inserts once; a request before its count is stored; the
  counter is behind the entries by those requests at least. `LogIsAppendOnly`
  follows from the steps. `MessagesOnceOrCancelled` from `NotifyInv`: the
  attempts for a request are the Slack targets up to the one `Dispatch` is at, or
  fewer if its context was cancelled. `MemoryPagesAreExact` and
  `PostgresPagesAreExact` follow from `StoreInv` too, since an ID names one entry:
  the places of the matches and the matches are in bijection (`EntriesAt`), so the
  list a query collects is as long as there are matches and its j-th element has
  j - 1 of them before it (`MatchingLists`). For the memory store it remains that
  append gave the slice the capacity for what is in it (`CapSuffices`); places past
  the matches are unused capacity. For Postgres an order of a finite set has every
  element (`OrderHasAll`), so that what is newer than the entry at a place comes
  before it, and all that comes up to that place is no older (`FirstAtMost`,
  `FirstExactly`).
* `EvaluatorProofs`. `FindingsAreExact` and `VerdictsAreRight` from `FoundInv`: at
  every point of the loops the findings are those of the files and rules done
  (`Covered`), all of them, in order. What one rule adds in one file is
  `EvalRuleRight`, which rests on three lemmas: `AscendingLists` (a set of numbers
  listed by rank, by the injection of a finite set in an interval of its
  cardinality), `ScannedAreRead` (where the scanner stops) and `LastPattern`
  (which pattern the map has under an ID). `StartInv` says what is loaded and
  compiled once a command is in its loop. `TestsExitCodeRight` from `TestInv`: no
  fixture has failed as long as every rule run is right about its own.
* `CheckCommandProofs`. `ExitIsRight`, `ExitIsExplained` and `ErrorsAreVerdict` from
  `CommandInv`: the flags parsed are those before the directory, and
  the options what these, config and defaults make of each other (`OptionsInv`); `files` lists what is in scope and nothing else, in whatever order
  (`FilesInv`); at every point of the three loops the findings are those of the
  analysers and files done, by severity (`FoundInv`); and what is summed up and
  printed is what was found, up to the limit (`ReportInv`). Below it lies what
  the analysers find in a file, against `HasSecret` and `DeclaresUnpinned`, which
  speak of lines and of no parser: for secrets `SecretsOfLine` and the
  concatenation over lines, for each of the five parsers of `Deps` an invariant
  of its state after n lines (in the section or not, what the element under way
  has shown so far).
* `ListProofs`. The provers cannot use the library's induction theorems, whose
  formula is a parameter. `WFMin` takes a set instead, and gives least elements;
  from these come `Climbs`, induction up to a number for a set, and
  `IterationExists`, that a function defined by recursion on the number of steps
  exists. With the two, the recursive functions of the model (`FoundAfter`,
  `ParsedAfter`, `RunningSum`, `CapOf`) are shown to be what their definitions say,
  and their results proved by the lines, buckets or appends there are.

What proving changed in the model: `Level` of `CheckCommand` and `GitHubWebhook` of
`Gateway` were a `CASE` whose arms overlapped. TLC takes the first arm that holds,
as Go does, but TLA+ does not say which, and the theorems were not provable; the
order of the code's conditions is now in the guards. `CapOf` was right for slices
of up to eight entries only. `ScrapeConsistent` now bounds what a scrape shows in
flight by the requests that have come, not by all there can be.

Every invariant and every action property that a run checks is a theorem, and
so is the implementation of `JobService`. Only model-checked:

* All liveness (`EveryJobFinishes`, `ShutdownCompletes`, `EveryRequestEnds`, `ScanEnds`,
  `EveryRunReturns`, `ClosedIsForgotten`, `LeaversLeave`, `EveryDispatchEnds`): fairness
  and `ENABLED` are out of the prover's reach.
* The two violations, which are counterexamples TLC finds.

## 5. What is not modelled

* The commands `jobs`, `audit`, `rules` and `health` of `litd`: each is one query
  whose answer is printed.
* `Gauge.Set` (called once at a start), `Counter.Add`, `cache.Delete` and
  `StripPrefix` (never called), the metrics of the Go runtime, the counters of
  the audit-service's verify and the policy engine's list of rules.
* The e-mail backend, which `Dispatch` never calls; the time filters of an audit
  query, which no handler sets.
* Reading of configuration from the environment; `collectFiles` and the
  detection of languages in the analyzer.
* HMAC, Shannon entropy, regular expressions, YAML and JSON, names and versions
  of dependencies, and the text of reports: data, represented by what the
  control depends on.
* What the code does not promise, and the properties therefore do not ask:
  a policy engine whose rules do not load allows everything (`VerdictRight` speaks
  of the rules loaded); `litd check` passes over files and rules it cannot read
  (`ExitRight` speaks of the files it sees); a message cut off by a cancelled
  context is lost (`OnceOrCancelled`); a post to the audit-service or the
  notification-service may never arrive.
* The float64 arithmetic of the rate limiter (`middleware/ratelimit.go:51`): tokens
  are exact in the model, so `RateBounded` and `SteadyNeverRefused` hold up to its
  rounding. The size classes to which the Go runtime rounds a grown slice
  (`CapOf`): they decide only whether a page past the end of the memory store
  panics, which `MemoryPageExact` leaves open.
* Panics of a request anywhere but in its handler (`Panic` of `Gateway`): the
  statements of the middleware around it only update counters and set headers.
* Durations: time appears where the code compares it (cache, limiter,
  `created_at`, the buckets of a histogram), and a timeout is a step that may
  happen.

## 6. Plan

The modules, the runs and the proofs of safety are complete for the parts listed
as modelled. When the code changes, the first thing to redo is the map: a
definition follows its lines, then its run, then its proof. Worth adding if the
code grows into them: the e-mail backend once `Dispatch` calls it, the time filters
of an audit query once a handler sets them, and events from the pipeline to the
hub and the broker once something publishes them.
