# UniCrawler in TLA+

UniCrawler crawls web sites and keeps a vector index of them up to date. This
directory holds TLA+ models of the parts of it that are concurrent, distributed
or that can fail half-way, TLC configurations that check the models on small
instances, and proofs that the TLA+ proof system checks. Paths below are
relative to the root of the repository.

## 1. Inventory

Four services exchange messages over Redis lists and share one Postgres
database; the last one writes the Qdrant index.

```
 monitor --LPUSH--> mapper:in --BRPOP--> mapper --RPUSH--> mapper:out --BRPOP--> parser (xN)
    |                                      |                   ^                    |
    |                                      v                   |                 RPUSH
    +----------- replay (RPUSH) -----------|-------------------+                    v
                                           |                                   parser:out
                                   Redis set mapper:visited:<domain>                |
                                                                               BRPOPLPUSH
      Postgres: domains, urls, crawl_runs, page_documents,                          v
                page_document_versions, pipeline_events       Qdrant <-- vectorizer -- vectorizer:processing,
                                                                                      vectorizer:failed
```

The ends of the lists matter. `mapper:in` is filled at the left and emptied at
the right: first in, first out. `mapper:out` and `parser:out` are filled and
emptied at the right: the newest request is served first. `BRPOP` is
at-most-once, `BRPOPLPUSH` with `LREM` after the work is at-least-once.

| Component | State | Operations | Hard behaviour | What makes it correct |
|---|---|---|---|---|
| mapper: crawl (`services/mapper/main.go:253-547`) | frontier (`urlQueue`), channel `discovered`, the writer's batch, visited set in Redis, rows of `urls` | add the seed; pop, fetch, add links, send, done; batch and flush; close on cancellation | goroutines on a condition variable; termination by counting; bounded channel; four steps in three stores for each batch of links; cancellation anywhere | the crawl ends when and only when nothing is left; a page once; a request only for a stored URL; it always returns |
| mapper: main loop, runs, replay (`main.go:123-251`, `store.go`) | `mapper:in`, `crawl_runs`, in-process run id | pop, open run, crawl, finish run; replay a domain | at-most-once; a signal or crash between any two steps; the visited set outlives runs; replay races with a crawl | no page is crawled by two runs; a run that crawled is closed with the right status; replay asks for every stored URL once |
| mapper: URL normalisation (`main.go:549-659`) | none | `normalizeURL`, `cleanPath`, `sameDomain`, `domainForURL` | the same work is done again, differently, by the parser, the monitor and the replay command | one page has one URL, which every service finds |
| parser: dispatcher, workers, versions (`services/parser/main.go`, `store.go`) | `mapper:out`, channel `jobs`, `page_documents`, `page_document_versions`, row locks | pop, hand over, retry, save, record an error, announce; the PDFs of a page; shutdown | replicas on the same document; commit in Postgres, then RPUSH; shutdown races retries | each change of a document is committed and announced once; a stop loses no request whose document was looked up; a replica ends |
| parser: rendering, extraction, PDF text (`render.go`, `extract.go`, `pdf.go`) | a browser | URL to text | third-party code | - |
| vectorizer: queue and index (`services/vectorizer/src/vectorizer/main.py`, `qdrant.py`) | `parser:out`, `vectorizer:processing`, `vectorizer:failed`, the points, the process's variables | recover, pop, attempts, upsert by batches, delete stale and surplus points, acknowledge, bury | crash between any two commands; lost replies; a change of configuration; equal messages | a message stays on a list until it is served; the index settles on one whole version |
| vectorizer: chunking (`chunking.py`, `hierarchy.py`, `preprocess.py`) | none | split, overlap, deduplicate, choose representatives | counters and lists kept in step over several exits of a loop; rounding | every token is in a chunk; a bound on what exceeds the budget; an even selection |
| vectorizer: embeddings, config, health | - | calls and settings | - | - |
| monitor: enqueue, replay, history, ETA (`services/monitor/src/monitor/services.py`, `state.py`, `app.py`) | one Postgres connection, samples of queue lengths | enqueue URLs, find a domain, replay, dashboard | requests that overlap on one connection with one transaction for ever; a rate from few samples | the domain that is meant is replayed; the numbers are about something that happened |
| monitor: login, routes, HTML (`ui.py`) | the page: a refresh in flight, another one asked for, what is shown | refresh by timer and by button, give up, enqueue, replay | answers that come late or not at all | the page shows its operator's action and never goes back in time |
| message contracts, generated database access, schema | - | encoding, SQL | - | - |

## 2. Modules

| Module | Models | Checked by |
|---|---|---|
| `WorkPool` | abstract: what a crawl promises about handing out pages | refined by `MapperCrawl` |
| `MapperCrawl` | `crawl` with `urlQueue`, `addURLs`, `fetchLinks`, `sendDiscovered`, `flushParseRequests`, `upsertURLs` | `MCMapperCrawl`, `crawl_*.cfg` |
| `MapperCrawl_proofs` | theorems about `MapperCrawl` | the proof system |
| `MapperRuns` | the mapper's main loop, `crawl_runs`, the tables and lists across runs and restarts, `replay` | `MCMapperRuns`, `runs_faults.cfg` |
| `MapperRuns_proofs` | theorems about `MapperRuns` | the proof system |
| `VersionFeed` | abstract: what the parsers promise to whoever reads `parser:out` | refined by `Parser`, used by `Pipeline` |
| `Parser` | the parser's processes, their workers, the documents and versions | `MCParser`, `parser_*.cfg` |
| `Parser_proofs` | theorems about `Parser` | the proof system |
| `Vectorizer` | the vectorizer's process, its three lists and the points | `MCVectorizer`, `index_faults.cfg` |
| `Vectorizer_proofs` | theorems about `Vectorizer` | the proof system |
| `Pipeline` | the parsers, as `VersionFeed`, and the whole of `Vectorizer` over `parser:out` | `MCPipeline`, `pipeline.cfg` |
| `Chunking` | `MarkdownChunker.split` and `prepare_chunks` | `MCChunking`, `chunks.cfg` |
| `Addresses` | how mapper, parser and monitor name pages and domains | `MCAddresses`, `addresses.cfg` |
| `Dashboard` | the monitor's page, its requests, the queue history and the connection | `MCDashboard`, `dashboard.cfg` |
| `Pipeline_proofs`, `Chunking_proofs`, `Addresses_proofs`, `Dashboard_proofs` | theorems about these | the proof system |

Every module has, next to some definitions, a variant whose comment starts with
*Fault*: the definition as it would read with a plausible mistake in the code.
No action uses them. They document what each property is able to notice: with the
variant in the place of the definition, TLC finds the property violated.

### MapperCrawl

One step is a critical section of `urlQueue`, a channel operation, one command
of a Redis pipeline, a Postgres transaction or an HTTP request.

| Code | Model |
|---|---|
| the worker goroutines and the goroutine running `crawl` | `pc` over `Worker \cup {Main}`; both run `AddURLs` |
| `urlQueue`: `items`, `outstanding`, `closed`, `cond` | the variables of these names; a waiter has `pc = "wait"`, `Signal` moves one of them, `Broadcast` all of them to `"pop"` |
| `pop` | `Pop`, `PopNothing` (an item is handed out also when the queue is closed, as in the code) |
| `addURLs`: limit, `SADD` pipeline, pushes, `upsertURLs`, return | `CheckLimit`, `SAdd`/`SAddFails`, `Push`/`PushesDone`, `Upsert`/`UpsertFails`; a goroutine holds its list in `todo` and what it has selected in `got` |
| `fetchLinks` and the filters | `Fetch`, `FetchFails`; the links are the constant `Links`, or some of them when the body breaks off, which counts as a page all the same (`LinksRead`) |
| `sendDiscovered` | `Send`, `SendGivesUp` |
| `done` | `Done`, with `Quiescent` deciding |
| the goroutine on `ctx.Done()` | `CloseOnCancel` |
| `flushParseRequests` | `Receive`, `Drained`, `Flush`, `FlushFails` |
| `workers.Wait(); close(discovered); writer.Wait()` | `Join`, `Leave` |

A list is walked in any order: links are in the order of the page, which is
arbitrary. `before` and `fetched` are history variables.

### MapperRuns

The same system one level up: a step takes a page from fetching it to storing its
links (`Page`, or one of `PageFails` and `StoreFails`, made of `TakenUp`, `Found` and `Sent`), and what `MapperCrawl` does
with goroutines is left to it. In exchange there are many runs.

| Code | Model |
|---|---|
| the loop of `main`, its `continue`s and `break` | `pc`, from `"pop"` by `StartRun`, `StoreSeed`, `AddSeed`, `CrawlEnds`, `Finish` and back; the actions that end in `Fails` are the error paths |
| `addURL(job.Seed)` of `crawl`, which adds no seed, or fails when it has added it: `queue.close()` | `AddSeedFails`; `AddSeedUnstored`, after which the frontier is `shut`: it hands out the seed that is in it and refuses its links (`Pushed`), and the run is completed |
| `ctx` of `signal.NotifyContext` | `stopping`: any call may then fail (`MayFail`), having taken effect or not |
| `mapper:in`, `mapper:out` | `input`, `output`, oldest first |
| `mapper:visited:<domain>` | `visited`; a URL is of one domain, so one set is enough |
| `urls` with `last_crawl_run_id`, in the order of ids | `rows`; `Upserted` is `INSERT ... ON CONFLICT DO UPDATE` |
| `crawl_runs` | `runs`; the run at hand is the last one |
| `replay`, `replayDomain` | `ReplayStart` (the query, which sees the rows of that moment), `ReplayRead`, `ReplayEnd`, `ReplayPush`, `ReplayFails` |
| SIGTERM, a crash, a new process | `Signal` and `Exit`, `Crash`, `Restart`; the last three empty `frontier` and `records`, which live in the process |

`marked`, `claimed` and `handed` are history variables: for each run the URLs it put into
the visited set, the pages that entered its frontier and those it took up.

### Parser

Several processes (`node`), each with a dispatcher (`hand` is the request it
offers on the unbuffered channel) and workers (`work`). A page goes through
`Target`, `Try`, `Fetch`, `Save`, `Commit`, then its PDFs one by one through the
same actions (`NextLink`, `LinksDone`), then `Push`. `saveParsedPage` is two
steps, because its first statement locks the row of the domain and holds it to
the end of the transaction (`holder`); `recordParseError` needs the same lock and
is one step. `Committed` is what the transaction writes. Versions are pairs of a
URL and a content: the unique key of `page_document_versions` is the document and
the content hash. `commits` is a history variable: the versions committed as
changes, in order; `ended` counts the requests that were run to an end. Another one, `risked`, counts
at each stop the requests it finds not looked up yet: the one the dispatcher has or is
taking, and those of workers in `Target`, whose query fails with the context
(`TargetFails`). `Through` is the end of a job, after which a worker whose process is stopping returns.

`VersionFeed` is what remains of all this for a reader of `parser:out`: a document's
version changes, a change is announced at most once, later and in any order, or lost.
`RefinesFeed` maps a version to the pair of document and content and the announcements
to the workers that owe one.

### Vectorizer

One process with its `pc`. `raw` is the message at hand, `attempt` the attempt,
`next` the first chunk not upserted yet, `recovering` and `pending` the loop of
`recover_processing_queue` over the list it read at the start. `Times` says how
often a command to Redis takes effect: a command that raises may have been
executed, and one that the client resends is executed twice. Points are records
of version, chunk number and the configuration they were cut under. The id of a point
does not tell the last of these (`qdrant.py:186`), so `Upserted` overwrites a chunk of
another cut in place: while a version is cut anew the index holds a mixture of two cuts.
`Config` changes only when the process starts. `givenUp` is a history variable.

### Pipeline

`Pipeline` EXTENDS `Vectorizer`, so each command is a step here too, and instantiates
`VersionFeed` with its `input` for the list. `Commit` is a change of a document in
Postgres, `Announce` the `RPUSH` that follows, `Lose` an `RPUSH` that fails. `Index` is
any step of the vectorizer, `Outage` and `Again` its ends and starts. The constant
`Collection` of `Vectorizer` is given by `CollectionFor`, the code's choice by
`COLLECTION_SCOPE`, of which the run has `host`: the others are the case in which no
version has a host of its own. The process may come back with another of two configurations. `newest` and `disturbed` are history variables. A
collection of a document is *disturbed* from the commit of a version that meets another
request under way, or whose request is lost or given up on, to the next commit that meets
none.

### Chunking

Tokens are counted from the beginning of the document, and a document is the
sequence of the offsets at which its blocks end, after `deduplicate_markdown` and
`MAX_DOCUMENT_CHARS`. The list `current` of `split` is always a
run of consecutive blocks, so it is `first .. pos - 1`, and each window and chunk is
an interval. `SplitLarge`, `AddBlock` and `CloseWindow` are the three ways through the
loop of `split`, `ToChunk` a turn of `to_chunks`, `Select` the rest of
`prepare_chunks`. A context line costs any number of tokens up to `MaxContext`,
chosen per window. `Representatives` serves both functions that select by
rounding; `Round` rounds halves to even, as Python does.

### Addresses

Four pieces of code turn text into the URL or the domain of a page, and none calls
another. A path is a sequence of segments and a host a sequence of labels, which is all
these functions look at; unescaping maps a segment to the segments it stands for.

| Code | Model |
|---|---|
| mapper: `normalizeURL`, for a seed and for a link | `normalizeSeed`, `normalizeLink`; both end in `Normal` |
| `cleanPath`, word for word the same in mapper and parser | `cleanPath`, with `Part` and `Closed` |
| `url.URL.ResolveReference` of the Go library | `ResolveReference`, external |
| parser: `normalizeURL`, `extractPDFLinks` | `normalizeTarget`, `pdfLink` (an `href` that is a URL by itself is not resolved) |
| `domainForURL` of the mapper, of the parser | `domainForURL`, which has `SAME_DOMAIN_MODE`; `domainForPdf`, which has not |
| `replayDomainKey` of the mapper | `replayDomainKey` |
| monitor: `simple_url`, `normalize_domain_key`, `domain_candidates`, `resolve_domain` | the operators of these names; a key that is no bare host keeps the rest of the text in `rest` and matches no domain |
| a crawl request, a link that is followed, a parse request, a link to a PDF | `Crawl`, `Follow`, `Parse`, `ParsePdf`, which store rows and documents |

`rows` and `docs` keep beside each entry what it was made from (`said`, `linked`, `from`,
`other`), so that the properties can compare. `ReadAlike` are the paths of links that
`ResolveReference` leaves to `cleanPath`: for other paths a seed, which only `cleanPath` sees, and a link may be
stored under two URLs.

### Dashboard

The browser's page and the FastAPI process. A request is answered in three steps (`ReadLengths`,
`Remember`, `Answer`), because other requests come between its reading of the queues, the
sample it takes of them and its statements; the clock ticks between any two steps.

| Code | Model |
|---|---|
| `refreshInFlight`, `refreshQueued` of `refresh()` | `page.slot # None`, `page.queued`; `Called`, `Started`, `Ended` |
| `fetchJSON` and its `AbortController` | `GiveUp` for a refresh, `ReplayFails` for a replay; the monitor goes on with the request |
| the forms for replay | `Replay` when it is sent; `Replayed` when it is answered, which refreshes; `ReplayFails` when there is an error or no answer in time, which is shown and does not |
| `replay_urls` | `PushReplay`, `PushReplayFails`, before or after the page has given up; `page.post` says which, and `page.action` what the page knows |
| `current_queue_lengths`, `remember_queue_lengths` | `ReadLengths` or `RedisFails`, `Remember` with `Remembered`; `samples[i].read`, when a length was read, is history |
| `recent_count`, `queue_drain_rate_per_min` | `parser_done`, `queue_drain_rate`; a rate is a pair of jobs and ticks, compared without division |
| `psycopg.connect` of `lifespan`, one for all requests | `conn`: `now` is the time of the first statement, `ok` ends with the first that fails |
| a restart of the monitor | `Restart`; a replay not pushed by then never is (`Forgotten`) |

Of the numbers it shows, the page keeps only whether they were read before or after the
operator's replay: that is all `OwnActionShown` and `NeverOlder` ask.

## 3. Runs

| Run | Instance | Question and answer |
|---|---|---|
| `crawl_faults` | 4 pages in a diamond with cycles, one of which earlier crawls may have visited; 3 workers, batch of 2; every fault, pages that break off among them, or none | The counter is exact, the frontier closes neither early nor with a waiter left behind, pages are handed out once (`RefinesWorkPool`), requests are unique and have rows (`EmittedOnce`); without faults the crawl fetches, stores, emits and counts exactly the reachable pages (`CrawlComplete`). Holds. |
| `crawl_terminates` | 4 pages, one of which links to the others; 2 workers, limit of 2, batch of 1, every fault, fair | `crawl` returns; after the limit is reached and the workers past the check are through, nothing is added. Holds. |
| `crawl_rows` | 3 pages, Postgres fails | `VisitedHasRow` is violated: section 6. |
| `runs_faults` | a site of 3 pages and an invalid request; 2 requests, 1 stop or crash, 1 replay, batches of 2; failing Redis, or failing Postgres and crashes, or failing fetches and crashes; fair | No page is crawled by two runs (`CrawledOnce`); a completed run took up all that entered its frontier, and while the stores answer that is all it marked as visited (`CompletedIsWhole`); short of Postgres failing and crashes every run that crawled is closed (`CrawledRunsEnd`); a request names a row and a run of its domain (`RequestsHaveRows`); a replay pushes exactly the rows of its beginning (`ReplayExact`); everything comes to rest with the requests taken up (`Settles`). Holds. |
| `parser_faults` | 2 replicas of 1 worker, a page and its PDF, 3 requests, 1 change, 1 stop or crash; failing Redis, Postgres and crashes, or failing fetches and stops | No request without a committed change, one at most for each, and no change committed twice, as `VersionFeed` has it (`RefinesFeed`); when only fetches fail, every change is announced (`EveryChangeAnnounced`); a stop loses at most the request its dispatcher has and those no worker has looked up yet (`StopLosesFew`); a document that can be fetched is not marked as failed before the first stop (`ErrorsFounded`). Holds. |
| `parser_stops` | 2 replicas, 2 requests, 1 retry, every fault, fair | A signalled replica ends; the list drains. Holds. |
| `parser_announced` | RPUSH may fail | `VersionAnnounced` is violated: section 6. |
| `index_faults` | a document with two versions (3 or 2 chunks, 1 chunk) and one without chunks; 3 messages, 2 stops, 2 configurations; all stores fail, or commands are also resent | A message leaves the processing list only when served (`RemovedOnceServed`); a document that can be found whole stays so, but while the only cut of it is overwritten by another (`NeverLost`); the index settles (`SettledIndex`). Holds. |
| `pipeline` | a document with 4 versions (3 chunks, 1 chunk, 1 on another host, none), scope `host`; two configurations, which cut the long version into 3 or 2 chunks; 3 changes, batches of 2, 2 attempts, 1 stop or crash; failing Qdrant, lost `RPUSH`es, crashes; fair | What is worked off leaves the newest version (`IndexShowsNewest`); redoing it neither brings back another nor takes points from a whole cut of the configuration in use (`FreshStays`); failed messages are kept, but for one per stop (`FailedKept`); every message is served or given up on (`EventuallyServed`). Holds. |
| `chunks` | all documents of up to 4 blocks of 1, 2, 3, 5 or 6 tokens; windows of 4, overlap 2, minimum 2, context lines of 0 or 1; 3 representatives, 2 sections of 2 chunks | Nothing is lost (`NothingLost`); windows and the pieces of large blocks keep to their bounds (`WindowBudget`, `LargeBudget`); the selection is spread evenly (`SelectionSpread`). Holds. |
| `addresses` | 5 hosts (registrable below a public suffix, a subdomain, a domain, one label, a trailing dot), 4 ports, 3 schemes; seeds with all paths of up to 4 segments among 6, links with all of up to 3, absolute (but for those that begin with `//` and name a host) or relative, and links with a host to some files; both modes; 2 rows or documents | A page has the URL that is meant, short of links that `ResolveReference` reads otherwise (`PathsMeant`); the parser finds it (`OneDocument`, `DocumentHasRow`), and what was stored can be replayed (`CommandFinds`, `MonitorFinds`). Holds. |
| `dashboard` | 2 requests at once, 1 job, 5 moments, a replay in the first two of them; a window of 1, a horizon of 3 and a gap of 2 ticks, 2 samples | Recent work is never shown as less than it was (`RecentCovers`), a drain that is shown happened (`RateFounded`), a page shows what its operator's replay led to, or an error (`OwnActionShown`), and numbers never get older (`NeverOlder`). Holds. |

What may go wrong is chosen at the start of a behaviour (`faults`) among the sets
in the constant `Faults`; without a fault in that set the actions that need it
never happen.

**Why the bounds suffice.** In `MapperCrawl` the interesting encounters are
between two workers (both find a page; one finishes while the other adds), and,
for waiting and waking, three (one signalled, one waiting, one busy); the sites
have cycles, pages found twice and pages behind pages. With a batch
size of one three links make the channel (capacity two) fill up and block
(`crawl_terminates`); with two the last batch is a partial one (`crawl_faults`). In `Parser` two workers can meet in a document and in the
lock of the domain, and three requests with one change allow old content to be
saved, changed, and saved again by a slower worker. In `Vectorizer` three
messages of which two may be equal, two stops and two attempts cover a crash
in an attempt, a crash in the recovery from it, and duplicates on the processing
list; the long version has a full and a partial batch, and chunk counts
that differ between the configurations. In `MapperRuns` a site of three pages has links of the seed to be refused or half stored; two requests may be for the
same seed, for two pages of a site or invalid, and one stop between, during or
before their crawls brings a second process; a batch of two out of three rows makes
the last batch of a replay a partial one. In `Pipeline` three changes let
two requests overtake each other and a third repair what came of it, in one collection
or in two, while a crash makes the vectorizer repeat an older one; a version of three
chunks has a full and a partial batch and more than the version that replaces it. In
`Addresses` four segments hold a name, an empty part, a step back and an end; segments
beyond are handled like these, one at a time, and rows interact only in pairs (a page and
a link on it, a page and its document, a page and a domain asked for). In `Dashboard`
two requests suffice for one that is late and one that is current, two samples for a
history that has a first, a last and one that is dropped; a horizon longer than the gap
lets samples count and age. Once a replay is asked for the clock stops at `ReplayTime`: what follows is about the order of
steps, and the times are explored without it. In `Chunking` the sizes are chosen around
the window (4), its overlap (2) and twice that: blocks that fit twice, once, only
without the overlap, and not at all, the last with a short piece at the end (5)
or not (6). Symmetry is used for safety only, over
workers, over replicas with their workers and contents together, or over slots.

`Size = 0` (nothing to index) and blank pages (nothing to extract) are in the
instances. Each bound on a counter is a constant (`MaxMessages`, `MaxRestarts`,
`MaxRequests`, `MaxChanges`, `MaxStops`,
`MaxReplays`, `MaxBlocks`, `MaxStored`, `MaxSaid`, `MaxTime`, `ReplayTime`, `MaxJobs`, `Slot`) with that
role only. `MaxSaid` keeps the long paths to states in which they are alone.

**Fairness.** `FairSpec` of `MapperCrawl` gives weak fairness to each worker, the
main goroutine, the writer and the watcher: the Go scheduler is preemptive, the
HTTP client has `RequestTimeout`, the database clients have time limits. Nothing
makes the context be cancelled. No fairness is needed for the mutex or the
condition variable beyond the steps that the model takes at once. In `Parser`
weak fairness goes to workers, dispatchers and restarts
(`docker-compose.yml`, `restart: unless-stopped`); strong fairness to the steps
that wait for a row lock, because Postgres queues those who wait for one. In
`Vectorizer` weak fairness goes to the process (each client has a timeout) and to
its restart; `Pipeline` takes that over and adds weak fairness of `Feeding`, as the
parsers' workers announce or fail to (`Drains` says that they do not hang). In `MapperRuns` weak fairness goes to the main loop (each client has a
timeout, and `Termination` says that crawls return), to a replay under way and to
the restart; `PopTimeout` changes nothing, so it does not stand for progress.

**Deadlock** is checked in every run but `addresses` and `dashboard`, whose steps end with
the bound on what is stored and with the clock. `MapperCrawl` says with `Returned` that a
crawl that has returned is at its end.

## 4. Proofs

Eight modules hold theorems, each about the module it is named for and true for every
value of its constants:

| Module | Theorem | States |
|---|---|---|
| `MapperCrawl_proofs` | `TypeCorrect` | `Spec => []TypeOK`; among the rest, the channel and the batch keep to their capacities |
| | `CountsRight` | `Spec => [](OutstandingExact /\ NoPrematureClose)` |
| | `PagesUnique` | `Spec => []UniqueInv` |
| | `Refinement` | `Spec => RefinesWorkPool` |
| | `NobodyForgotten` | `Spec => []NoLostWakeup` |
| | `NothingEmittedTwice` | `Spec => []EmittedOnce` |
| | `LimitHolds` | `Spec => LimitSeals` |
| | `NothingLeftOut` | `Spec => []CrawlComplete` |
| `MapperRuns_proofs` | `PagesOfOneRun` | `Spec => []CrawledOnce` |
| | `CompletedWhole` | `Spec => []CompletedIsWhole` |
| | `RunsClosed` | `Spec => []CrawledRunsEnd` |
| | `RequestsKnown` | `Spec => []RequestsHaveRows` |
| | `ReplaysExact` | `Spec => []ReplayExact` |
| `Parser_proofs` | `TypeCorrect` | `Spec => []TypeOK`; among the rest, attempts stop at `MAX_RETRIES + 1` |
| | `ReadsHold` | `Spec => []LockInv`: what a transaction has read is true when it commits |
| | `Refinement` | `Spec => RefinesFeed` |
| | `ChangesAnnounced` | `Spec => []EveryChangeAnnounced` |
| | `NoFalseErrors` | `Spec => []ErrorsFounded` |
| | `StopsLoseFew` | `Spec => []StopLosesFew` |
| `Vectorizer_proofs` | `TypeCorrect` | `Spec => []TypeOK` |
| | `Served` | `Spec => RemovedOnceServed` |
| | `Findable` | `Spec => NeverLost` |
| | `GivenUpKept` | `Spec => []FailedKept` |
| | `IndexSettles` | `Spec => []SettledIndex` |
| `Pipeline_proofs` | `PipelineVectorizes` | `PSpec => Spec`: behind the parsers the vectorizer does what it does alone |
| | `PipelineKeeps` | `PSpec => []FailedKept` |
| | `NewestShown` | `PSpec => []IndexShowsNewest` |
| | `NewestStays` | `PSpec => FreshStays` |
| `Chunking_proofs` | `TypesKept` | `Spec => []TypeOK` |
| | `BudgetKept` | `Spec => []WindowBudget` |
| | `TokensKept` | `Spec => []NothingLost` |
| | `LargeBlocksKept` | `Spec => []LargeBudget` |
| | `SelectionKept` | `Spec => []SelectionSpread` |
| `Addresses_proofs` | `MeantStored` | `Spec => []PathsMeant` |
| | `OneName` | `Spec => []OneDocument` |
| | `RowsFound` | `Spec => []DocumentHasRow` |
| | `CommandFindsRows` | `Spec => []CommandFinds` |
| | `MonitorFindsRows` | `Spec => []MonitorFinds` |
| `Dashboard_proofs` | `TypeCorrect` | `Spec => []TypeOK` |
| | `RecentShown` | `Spec => []RecentCovers` |
| | `OwnActionSeen` | `Spec => []OwnActionShown` |
| | `NothingOlder` | `Spec => NeverOlder` |
| | `RateReal` | `Spec => []RateFounded` |

**Assumptions.** The theorems assume nothing but what the modules assume of their constants, and
TLC evaluates that in every run of the module.

- `CrawlAssumption`: URLs and workers are finite sets, there is a worker, the batch size
  is positive, the main goroutine is not a worker.
- `RunsAssumption`: there is a URL, a page has finitely many links, which stay in its
  domain, invalid requests are no URLs.
- `ParserAssumption`: pages, PDFs and assets are different URLs, workers and replicas
  are finitely many, `None` is none of the values it stands beside.
- `VectorizerAssumption`: versions have documents and numbers of chunks, the
  batch size and the number of attempts are positive, and whether a version has any chunk does
  not depend on the configuration: `MarkdownChunker` yields one for every text that is not blank.
- `PipelineAssumption`: collections are named by `Endpoint`, and `None` is no version.
- `ChunkingAssumption`: a document is an increasing sequence of offsets from 0, the overlap
  is smaller than `CHUNK_TOKENS` (`config.py:44` replaces any other) and groups are not empty.
- `AddressesAssumption`: what results from unescaping stands for itself, and so do dots and the
  empty segment (a segment that decodes to text with a `%` in it is not among those
  modelled); a segment decodes to one segment at least; a registrable domain ends its host, has two labels unless it is the whole host,
  and no longer registrable domain ends the host, which is how the public suffix list gives them.
- `DashboardAssumption`: the time spans and the number of samples are positive, `ReplayTime` is within `MaxTime`,
  `None` is no slot.

The type invariants of `Parser`,
`Vectorizer`, `Chunking` and `Dashboard` are proved and therefore not repeated among the runs.
That of `MapperRuns` belongs to no run and to no theorem: the parts of it
that the theorems need are in their invariants (`CrawlType`, `RowsInv`).

**Induction.** The library's induction theorems cannot be used here. Where a proof needs
induction over numbers, the statement is a set of numbers and `Inductive` says, from the least
element that the library provides, that a set with 0 and successors has all of them
(`Chunking_proofs` does with arithmetic alone). A recursive function over an interval is first
shown to exist as an ordinary function (`Looping`), after which its equation holds of its
`CHOOSE`; a fold is unfolded like that too (`MergeLoop`, `PartLoop`, `UnescapeLoop` in
`Addresses_proofs`, `Turns` in `MapperCrawl_proofs`).

### The crawl

*The counter.* `OutstandingExact` is not inductive: that a closed frontier is
empty depends on how it was closed. `CountInv` adds `AloneAtFirst` (before the
workers start nobody can have closed the frontier) and `ClosedByCount` (a frontier
that is closed though the crawl was not given up has `outstanding = 0`). That
`Push` cannot follow such a closing is the heart of it: a goroutine that pushes
holds a page itself, so the count is positive, or it is the main goroutine
before the workers run. `NoPrematureClose` follows by cardinality.

*Uniqueness.* Each goroutine has claimed the URLs for which its `SADD` was
answered with 1 and which it has not pushed. `ClaimsNew`: claimed URLs are visited
but neither in the frontier nor fetched. `ClaimsApart`: two goroutines' claims are
disjoint. `PooledNew`: what is in the frontier is there once and was not fetched.
`PagesApart`: two workers hold different pages. Together with `TypeOK` and
`CountInv` they are inductive.

*Refinement.* Each step of `MapperCrawl` is a step of `WorkPool` or a stutter:
`Push` is `Add`, or a stutter on a closed frontier; `Pop` is `Take`; `Done` is
`Finish`, where `OutstandingExact` makes `outstanding = 0` equivalent to an empty
pool and no other active page; `Spawn` without a seed and `CloseOnCancel` are
`Abort`.

*Waking.* `Waking`: while somebody waits, the frontier is open and has no more pages than there
are workers on their way to `pop`, since `push` wakes one for each page it adds and who goes to
wait found none. With `OpenWorks` (once the seed is dealt with, an open frontier has
`outstanding > 0`) and the exact counter this gives `NoLostWakeup`: there is a page, and then
somebody on the way to it, or a worker busy with one.

*Emission.* `EmitInv` follows the claims of `PagesUnique` on to the list. What a goroutine `Owned`
it alone has won and not sent; what is sent is visited and stored; the channel, the batch
and the list hold different URLs. `LimitHolds` compares steps: past the check of the
limit nobody adds, and before it nobody passes.

*Completeness.* `CrawlComplete` speaks of the state after the crawl has returned; what leads there is
`WholeInv`, which holds as long as there is no failure, no cancellation and no limit. It follows
a URL through the stores it goes through and says of each transfer that nothing is dropped:
`Accounted` (what is visited since the crawl began is claimed, in the frontier or fetched),
`Followed` (the links of a fetched page are visited, or its worker is about to see to
them), `Requested` (what was pushed, but for the seed, is with the writer, or a worker is going to send it)
and `Counted` (the statistics lag behind by what is in hand just now: pages being fetched, records
that not all were sent of). `Found` says that nothing else is visited, `Ending` in which order the goroutines
end, `Seeding` that the seed is the first URL added and, if it was known, the last. What a step
does to these is said once (`Turn`, with the one goroutine that acts and `Others` that stay as they
are), and each part is preserved by every kind of step. In the end nothing is claimed, waiting or
in hand, so that what was fetched is a set that contains the seed and the links of its members.
That `Reachable`, which is computed in as many rounds as there are URLs, is the least of these sets
(`ReachableClosed`, `ReachableLeast`) holds because a round that adds nothing is followed by no other,
and more rounds that add something than there are URLs cannot be.

### The runs

The first three properties share one inductive invariant. `ClaimsApart`: what entered a
run's frontier was new to the visited set and is in it since, so that no two runs share a
page, and only what entered was taken up. `FrontierInv`: the frontier of the run at hand is
what it has still to take up, and at its end, unless it was stopped, nothing. `MarkedInv`: while the stores answer and nobody
stops the process, the frontier is not shut and what is marked enters it, so that a completed run has taken up all it marked. `StatusInv`: the run
at hand is the only one open, apart from those that never crawled, whose process died or whose end
could not be stored. `Grows` is what the five actions of a crawl have in common: they
extend the pages of the last run, and never take any from the visited set.

`RowsInv` says of every request, wherever it waits (records of the run, batches of a replay, the
list), that its run is one of its domain and that the row it names is there (`Known`). It is
inductive since rows are never deleted and their run only grows; the work is in `UpsertedRows`,
that an upsert leaves one row for a URL and all that were there before. `ReplayInv` says how far
a replay is: what it pushed and what is left of its batch are the rows of its beginning, in order.

### The parsers

`TypeOK` is not inductive, as what the local variables hold depends on where a worker is.
`LocalInv` says that for each place: only a page leads to another document, a worker past
the fetch has content, a `result` waits only while the PDFs of its page are worked off.
`LockInv` says that a worker before its commit holds the row of its document's domain and
that the content it read there is still the latest. It is inductive because only a holder
writes `latest`, and a domain has one holder; a crash takes the lock and the transaction
away together. `Inv` is the conjunction of the three.

`Does` is what any step of a worker amounts to: nothing a reader could notice, a change that the
worker then owes (or not, if Postgres gives no answer), or an announcement that is made or
lost; and for the lock, nothing, taking it or giving it back. The three `...Does` lemmas prove
that of the actions, one by one; everything else is proved from `Does`. For `Refinement`,
`LockInv` turns `contentChanged`, which compares with what was *read*, into the guard of
`VersionFeed`'s `Commit`, which compares with what is *shown*; the number of workers that owe a
version goes up and down by one with `Commit` and `Announce`, and down by any number (`Lose`) when
a replica ends. For `ChangesAnnounced` the same counts are compared with the copies on the list;
`Running` (no replica has stopped before the first stop) is all it needs besides `Inv`.

`NoFalseErrors` rests on `Founded`: while pages do not change and can be fetched, a worker is at
`"error"` only for a document that serves no text, and none such was ever saved. For `StopsLoseFew`
requests are counted where they are (`Outstanding`: on the list, in a dispatcher's hand, with a
worker, run to an end). `Paid` is the inductive form: what is missing from the requests asked for,
*plus* the dispatchers that are stopping with a request in hand (`AtRisk`), *plus* the workers of stopping replicas that
have not looked theirs up (`Failing`), is at most `risked`; whoever drops a request moves from the
second or third to the first.

### The index

`Served` needs to know what the attempt at hand has achieved: `Progress` says that the
chunks before `next` are points of the current configuration, that after the upserts all
of them are, that before the surplus is deleted no stale point is left, and that a
message is taken off the list only when its version is indexed, empty, or has had
`MAX_RETRIES` attempts. `TypeOK` and `Progress` together are inductive. That no
other copy than the one served leaves the list is a fact about `RemoveFirst`: it keeps
the number of copies of every other message (`RemoveFirstCopies`). `Findable` follows from `Progress`
step by step: an upsert takes from no cut but one of the same version under another configuration, which is `CutAnew`
if the document has no other, and a deletion of stale points comes when the version that remains is whole under the
configuration in use.

`IndexSettles` adds two parts. `Backed`: what is in hand and what is to be recovered is on the
processing list, as often as it is going to be acknowledged, so an acknowledgement never takes the copy of a
message that waits for another turn. `InOrder`: in each collection of a document
something with text is still to be served or was given up on, or the index is exactly one
version. A step that touches an index (`Touched`) has the message for it on the list; when
that is acknowledged, `Progress` says the index is what it asked for. `GivenUpKept` counts what
was given up on against the failed list, the message in hand and the stops (`Buried`).

### The pipeline

`PipelineVectorizes` is a refinement: a step of the parsers is `Send` of the vectorizer or
a stutter, every other step one of its own. So its theorems are theorems of the pipeline, and
`Inv` and `Backed` are at hand. `Tidy` is what is left where nothing is disturbed: at most the newest version
is still wanted, and it is wanted or shown. A commit makes its place disturbed unless nothing was wanted there, and
then only the new version is; serving a message of the newest version leaves it shown (`WorkTidy`), and a message
of an older one cannot be served, for it would be wanted. `NewestStays` needs `Tidy` again: what touches the index of an undisturbed place is an attempt at the
newest version, which writes points of that version only and under the configuration in use only, so that it remains alone
(`Alone`) and a whole cut of that configuration remains whole (`FoundAgain`).

### Chunks

`SplitInv` says of the windows that each has its shape (a piece of a large block, or a run of
whole blocks, `Shaped`) and begins no later than the one before it ends (`Follows`), and that
`current` begins where the last one ends or overlaps it. That the pieces of a block, cut at every `Step`, follow
each other and reach its end is `PiecesInARow`; how many there are, `Ceiling`. `ChunkInv` goes through
`to_chunks`: a chunk that lies in a large block is one window of it, or two of which one is short (`Lean`);
with `Joins`, the condition in `LargeBudget`, both together keep to the budget. For
the selection, `RepresentativesSpread` shows that rounding `i * (n - 1) / (k - 1)`, halves whichever way, gives different
chunks in order with the first and the last among them, as two of these fractions are at least 1 apart
and, when exactly 1, have no halves to be rounded differently (`NoHalf`, `Apart`).

### Addresses

`StoredInv` describes a row and a document by what made them; the theorems follow without looking
at other rows. `OneName` needs that normalizing twice changes nothing (`NormalTwice`) and that the
dots Go resolves before `cleanPath` are, in a path that is `ReadAlike`, those it would have dropped itself (`CleanResolved`):
the two folds are compared segment by segment (`DottedPrefix`, `ResolvedParts`), where empty and escaped segments may stand
anywhere that no `..` reaches back to. `MeantStored` uses the same for links. For seeds,
names and `..` of a path are brackets: the stack that `Part` folds has exactly the names that no later `..` matches
(`Marks`), which is `Kept`; one lemma for each kind of segment (`MarkSkip`, `MarkName`, `MarkDots`) keeps that true as
the path grows, and `Ranked` says that the order of positions is the order on the stack. `CommandFindsRows` and
`MonitorFindsRows` are facts about ends of hosts: the shortest end that has a registrable domain has the
same one as the host (`LeastIs`, `SubEnds`).

### The dashboard

`RecentCovers` follows from the types: `now()` is the time of the first statement of the open
transaction and so never later than the clock. `OwnActionShown` needs `Read` (nothing is shown
that was read after a replay which has not reached the queue, and nobody is answered before it has) and
`Awaited` (after the answer the refresh under way either reads later or has another one queued behind it, and a
page at rest without an error shows no older numbers); a replay that fails or times out asks nothing of either. `NeverOlder` is
a step property from the same invariant.

`RateReal` needs `RateInv`. Samples are in the order of their times (`Sorted`), and of each length that was read, put
down or not, what was waiting then waits still or was taken since (`Held`, `Drained`). A request that has read
keeps that of the samples put down before its reading, with what was taken up to it (`Reading`), and the last sample
is less than a `Gap` older than the reading (`Fresh`), unless a later one was put down. The fastest rate between two
samples is then one that happened; rates
are compared by multiplication, of which `Swap` and `AsFastThrough` are the laws the provers lack.

**Only model-checked:** liveness (`Termination`, `ShutsDown`, `Drains`, `Settles`,
`EventuallyServed`), which is out of the prover's reach. Every invariant and every action property
of the runs that pass, and both refinements, are theorems.

## 5. Limits of the models

- Strings, HTML, texts, vectors and payloads are abstract. The URLs of
  `MapperCrawl` are those that `normalizeURL` and `sameDomain` have let through.
- A request that a resent `RPUSH` puts twice on `mapper:out` or `parser:out` is
  counted once in `output`: the properties there are about what the code sends.
- `SettledIndex` is not claimed when commands are resent: a resent `LREM` may take
  two equal messages off the processing list, the second of which may be another
  message for the same version; the property speaks of documents without messages
  on the list, and fails then when the process dies in the middle of serving the
  second.
- After a Redis error the vectorizer leaves what is on the processing list there
  until its next start. `EventuallyServed` is therefore checked without Redis
  errors.
- A process that dies takes the requests it has under way with it: a command that
  was sent before the crash and takes effect after it is not modelled.
- `CrawledOnce` has a price that the model shows as well: an interrupted crawl is not
  resumed, as its pages are in the visited set and its seed is "already
  mapped"; only a replay reaches the rows it stored. A run whose seed could not be stored
  stays `running` for ever (`StoreSeedFails`), and so does one whose end Postgres
  refused; `CrawledRunsEnd` leaves these out. When the upsert fails that `crawl` itself makes of a new seed,
  the links of the seed are marked and refused and the run is completed: `CompletedIsWhole` then says only that
  what entered the frontier was taken up.
- `LimitSeals` is about the time after the last worker has passed the check of `MAX_PAGES`; by how many pages
  workers past the check exceed the limit is not bounded there.
- `MapperRuns` has no page limit and no count of pages, links and errors; `MapperCrawl` has.
- `LargeBudget` has a condition: with `MIN_CHUNK_TOKENS` above what the overlap covers, a short
  last piece makes the piece before it exceed `CHUNK_TOKENS`. By default (40 against
  an overlap of 100) it holds. Windows of several blocks do exceed the budget:
  `WindowBudget` says that it is by no more than the block or the overlap they repeat,
  so to at most twice `CHUNK_TOKENS`. The tokens of separators between blocks, and pieces
  that are blank and left out, are not counted; and a piece of a large block, which is decoded, stripped and
  encoded again, is taken to have the tokens it was cut from.
- Requests do overtake each other: `parser:out` is served newest first. When two requests
  for a document are under way at the same time the index may be left with the older
  version, or none that Postgres shows, until the next change. `IndexShowsNewest` says
  exactly when that is possible (`disturbed`), and that it is the only way. A version without
  chunks leaves the points of the version before it in the index, and with a scope other
  than `domain` a version of a document that moves to another collection leaves the old one
  behind: the property speaks of the newest version with chunks in each collection.
- Under another configuration a version is cut anew in place. From the first batch to the last one the index
  holds chunks of both cuts, and text between them can be missing; if the process dies between it stays so until
  the recovery at its next start, and if the attempts fail until the version, which is then on the failed list, or another
  one is indexed. `SettledIndex` says that nothing else leaves such a mixture. `NeverLost` leaves out exactly this
  (`CutAnew`), and `FreshStays` speaks of the cut of the configuration in use.
- `FailedKept` leaves out a Redis error between the `LREM` and the `LPUSH` of a message that is given up on, which
  loses the message without any stop.
- `ErrorsFounded` ends with the first stop, because attempts cut short by it are recorded as
  failures of the page, and leaves out failing fetches, because a slow failure of one
  worker may be recorded after the success of another.
- `Addresses` has no redirects: the parser resolves links to PDFs against the URL it ended
  at, the mapper against the one it asked for. A seed and a link say the same page and are
  stored as two when the link is not `ReadAlike`, as `ResolveReference`
  works before `cleanPath` and on links only: `/a//../b` is `/a/b` as a link and `/b` as a seed, `/a/%2E%2E/../b`
  likewise, and `/a/.` gets a slash as a link only. A link without scheme is `https` for the parser and what the
  page is for the mapper. `PathsMeant` and `OneDocument` leave these out by name (a link to a PDF is compared for any path that both
  programs resolve, and with a host only if the path is `ReadAlike`), and
  `DocumentHasRow` the PDFs under `SAME_DOMAIN_MODE=host`, whose domain the parser
  finds otherwise. `MonitorFinds` leaves out bare hosts with a port and hosts that end in a
  dot, which the monitor does not find.
- The dashboard over-reports recent work: as nothing ends its transaction, `now()` is the time
  of its first statement, and all that was done since counts as work of the last
  minutes; once a statement has failed none succeeds before a restart. An open transaction also
  holds its locks on the tables it has read, for which a migration that alters one would wait.
  In `Dashboard`, of the three stages
  the parser's is modelled, and percent and ETA, which are computed from these numbers,
  are left out. `RateFounded` leaves out an answer when a sample was put down after its reading, by its own request a tick
  later or by another: a queue that only grew may then be shown as drained.
- A replay that fails or is not answered in time is shown as an error; the page does not refresh for it, though the monitor
  may have pushed it. `OwnActionShown` says nothing of that page: its numbers come with the timer.
- The monitor's own replay (`replay_urls`) takes the steps of the mapper's, which
  `MapperRuns` has.
- Left out of modelled components: heartbeats, pipeline events (except that
  writing one may fail), the sources of a document, the attributes that are stored
  along, the list of oversized documents, the creation of collections.
- Not modelled: see `components` in `PROJECT.json`. The extraction of text from pages and
  PDFs, the embedding models, reading of the configuration, health servers, the
  monitor's login, routes and markup, generated code and declarations stay out for good:
  they are calls to libraries, or keep no state.

## 6. What the models show against the documentation

1. `VisitedHasRow` (`crawl_rows`). `docs/architecture.md:23` makes Postgres the
   source of truth for URLs. When `upsertURLs` fails (`main.go:305`), the URLs stay in
   the visited set without a row, and no later crawl adds them.
2. `VersionAnnounced` (`parser_announced`). A version is committed before its
   request is pushed; if the push fails (`services/parser/main.go:236`) the version is
   never indexed, and parsing the same content again finds nothing changed.

Smaller ones have no run of their own, since a property that holds describes them.
`docs/architecture.md:7` has the mapper emit parse requests for the rows it stores; for
the seed of a crawl it drops the record (`main.go:317-320`), and `CrawlComplete` says that
an undisturbed crawl asks for every page but the seed. The vectorizer's README says that
failed messages are pushed to `FAILED_QUEUE`; they are taken off the processing list
first (`main.py:140`), and `FailedKept` allows one to be lost per stop. The dashboard says "ultimi 10
minuti" (`ui.py:253`) of what `RecentCovers` bounds from below only. The mapper logs "seed already mapped"
(`main.go:340`) also of a new seed whose upsert failed, and the run is marked completed although the
links of the seed are lost (`CompletedIsWhole`).

## 7. Plan

What is left, in this order.

1. `MapperCrawl` as an implementation of the crawl that `MapperRuns` takes for granted.
2. The recognition of blocks and the deduplication before `Chunking`.
