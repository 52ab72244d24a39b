----------------------------- MODULE MapperRuns -----------------------------
(***************************************************************************)
(* The mapper process around its crawls: the main loop of                  *)
(* services/mapper/main.go takes one crawl request after the other off     *)
(* mapper:in, opens a row of crawl_runs, crawls and closes the row.  Next  *)
(* to it, the mapper started as `mapper replay` asks the parser once more  *)
(* for every stored URL of a domain.  The process may be stopped or die    *)
(* anywhere; the lists, the visited sets and the tables outlive it.        *)
(*                                                                         *)
(* Inside a crawl a step takes a page from fetching it to storing what it  *)
(* links to; MapperCrawl has the goroutines that do this.  A URL belongs   *)
(* to one domain, so the visited sets of the domains are modelled by their *)
(* union.  The lists have their oldest element first: mapper:in is filled  *)
(* at one end and emptied at the other.                                    *)
(***************************************************************************)
EXTENDS Integers, Sequences, FiniteSets, SequencesExt

CONSTANTS URL,          \* normalised URLs
          Domain,       \* domains
          DomainOf,     \* the domain of a URL
          Links,        \* the links of a page that stay in its domain
          Invalid,      \* requests that do not parse, or have no valid seed
          BatchSize,    \* REDIS_BATCH_SIZE
          Faults,       \* sets of what may go wrong in one behaviour:
                        \*   "fetch", "redis", "postgres", "crash"
          MaxRequests,  \* bound: crawl requests
          MaxStops,     \* bound: times the process stops or dies
          MaxReplays    \* bound: replays

ASSUME RunsAssumption ==
    /\ URL # {}
    /\ DomainOf \in [URL -> Domain]
    /\ Links \in [URL -> SUBSET URL]
    /\ \A u \in URL : IsFiniteSet(Links[u]) /\ \A l \in Links[u] : DomainOf[l] = DomainOf[u]
    /\ Invalid \cap URL = {}
    /\ BatchSize \in Nat \ {0}
    /\ MaxRequests \in Nat /\ MaxStops \in Nat /\ MaxReplays \in Nat

VARIABLES
    input,      \* the list mapper:in
    output,     \* the list mapper:out: URLs, each with the run named in the request
    visited,    \* the Redis sets mapper:visited:*
    rows,       \* the table urls in the order of ids: URL and last_crawl_run_id
    runs,       \* the table crawl_runs: seed and status
    pc,         \* where the main loop is
    stopping,   \* ctx is done
    seed,       \* the seed of the request at hand
    frontier,   \* the pages waiting in the crawl at hand
    shut,       \* crawl has closed that frontier itself
    records,    \* what it has found and not yet put on mapper:out
    rpc,        \* where the replay is
    cursor,     \* the rows it has still to read
    batch,      \* its batch
    total,      \* the number of URLs it reports
    faults,     \* what may go wrong
    asked,      \* history: crawl requests so far
    stops,      \* history: stops so far
    replays,    \* history: replays so far
    marked,     \* history: for each run, the URLs it put into the visited set
    claimed,    \* history: for each run, the pages that entered its frontier
    handed,     \* history: for each run, the pages it took up
    snapshot,   \* history: the rows there were when the replay began
    pushed      \* history: what the replay has put on mapper:out

lists   == <<input, output>>
crawled == <<visited, rows>>
process == <<stopping, seed, frontier, shut, records>>
replay  == <<rpc, cursor, batch, total, replays, snapshot, pushed>>
history == <<faults, asked, stops>>
ledger  == <<marked, claimed, handed>>
vars    == <<lists, crawled, runs, pc, process, replay, history, ledger>>

PC == {"down", "pop", "start", "seed", "add", "crawl", "finish"}
Run == DOMAIN runs
Record == [url : URL, run : Nat]

\* The run at hand: the loop works on the one it opened last.
run == Len(runs)

\* The type invariant; outside a crawl nothing is in the frontier or waits to
\* be sent, and a full batch of a replay is pushed at once (store.go:199).
TypeOK ==
    /\ input \in Seq(URL \cup Invalid) /\ output \in Seq(Record)
    /\ visited \subseteq URL /\ rows \in Seq(Record)
    /\ runs \in Seq([seed : URL, status : {"running", "completed", "interrupted"}])
    /\ pc \in PC /\ stopping \in BOOLEAN /\ seed \in URL \cup Invalid
    /\ frontier \subseteq URL /\ records \in Seq(Record)
    /\ shut \in BOOLEAN
    /\ pc # "crawl" => frontier = {} /\ ~shut /\ records = <<>>
    /\ rpc \in {"idle", "read", "push", "done", "failed"}
    /\ cursor \in Seq(Record) /\ batch \in Seq(Record) /\ total \in Nat
    /\ rpc = "read" => Len(batch) < BatchSize
    /\ faults \in Faults /\ asked \in 0 .. MaxRequests /\ stops \in 0 .. MaxStops
    /\ replays \in 0 .. MaxReplays
    /\ marked \in Seq(SUBSET URL) /\ Len(marked) = Len(runs)
    /\ claimed \in Seq(SUBSET URL) /\ Len(claimed) = Len(runs)
    /\ handed \in Seq(SUBSET URL) /\ Len(handed) = Len(runs)
    /\ snapshot \in Seq(Record) /\ pushed \in Seq(Record)

Init ==
    /\ input = <<>> /\ output = <<>> /\ visited = {} /\ rows = <<>> /\ runs = <<>>
    /\ pc = "pop" /\ stopping = FALSE /\ seed = CHOOSE u \in URL : TRUE
    /\ frontier = {} /\ shut = FALSE /\ records = <<>>
    /\ rpc = "idle" /\ cursor = <<>> /\ batch = <<>> /\ total = 0
    /\ faults \in Faults /\ asked = 0 /\ stops = 0 /\ replays = 0
    /\ marked = <<>> /\ claimed = <<>> /\ handed = <<>> /\ snapshot = <<>> /\ pushed = <<>>

\* The elements of s at the given places, in their order.
Picked(s, places) ==
    LET at == CHOOSE f \in [1 .. Cardinality(places) -> places] :
                 \A a, b \in DOMAIN f : a < b => f[a] < f[b]
    IN  [k \in 1 .. Cardinality(places) |-> s[at[k]]]

\* With ctx done a call fails; one already sent may still take effect.
MayFail(fault) == fault \in faults \/ stopping

-----------------------------------------------------------------------------
(* The main loop, up to the crawl.                                         *)

\* The monitor puts a crawl request on mapper:in.
Enqueue(q) ==
    /\ asked < MaxRequests
    /\ asked' = asked + 1
    /\ input' = Append(input, q)
    /\ UNCHANGED <<output, crawled, runs, pc, process, replay, faults, stops, ledger>>

\* Fault: a request that cannot be read is put back.
Pop_putBack ==
    /\ pc = "pop" /\ ~stopping /\ input # <<>>
    /\ seed' = Head(input)
    /\ IF Head(input) \in Invalid
         THEN pc' = "pop" /\ input' = Append(Tail(input), Head(input))
         ELSE pc' = "start" /\ input' = Tail(input)
    /\ UNCHANGED <<output, crawled, runs, stopping, frontier, shut, records, replay, history,
                   ledger>>

\* BRPOP takes the request off the list for good.
Pop ==
    /\ pc = "pop" /\ ~stopping /\ input # <<>>
    /\ input' = Tail(input)
    /\ \/ seed' = Head(input) /\ pc' = IF Head(input) \in Invalid THEN "pop" ELSE "start"
       \/ "redis" \in faults /\ UNCHANGED <<seed, pc>>
    /\ UNCHANGED <<output, crawled, runs, stopping, frontier, shut, records, replay, history,
                   ledger>>

PopTimeout ==
    /\ pc = "pop" /\ ~stopping /\ input = <<>>
    /\ UNCHANGED vars

OpenRun ==
    /\ runs' = Append(runs, [seed |-> seed, status |-> "running"])
    /\ marked' = Append(marked, {})
    /\ claimed' = Append(claimed, {})
    /\ handed' = Append(handed, {})

\* upsertDomain and startRun
StartRun ==
    /\ pc = "start"
    /\ OpenRun
    /\ pc' = "seed"
    /\ UNCHANGED <<lists, crawled, process, replay, history>>

\* An error drops the request; the row may be there although the reply is not.
StartRunFails ==
    /\ pc = "start" /\ MayFail("postgres")
    /\ OpenRun \/ UNCHANGED <<runs, ledger>>
    /\ pc' = "pop"
    /\ UNCHANGED <<lists, crawled, process, replay, history>>

\* upsertURLs: a URL that has a row keeps its id and gets the new run.
Upserted(S) ==
    LET known == {rows[i].url : i \in DOMAIN rows}
        touched == [i \in DOMAIN rows |->
                      IF rows[i].url \in S THEN [rows[i] EXCEPT !.run = run] ELSE rows[i]]
        fresh == SetToSeq(S \ known)
    IN  touched \o [i \in DOMAIN fresh |-> [url |-> fresh[i], run |-> run]]

StoreSeed ==
    /\ pc = "seed"
    /\ rows' = Upserted({seed})
    /\ pc' = "add"
    /\ UNCHANGED <<lists, visited, runs, process, replay, history, ledger>>

\* The run that was just opened is left running.
StoreSeedFails ==
    /\ pc = "seed" /\ MayFail("postgres")
    /\ rows' \in {rows, Upserted({seed})}
    /\ pc' = "pop"
    /\ UNCHANGED <<lists, visited, runs, process, replay, history, ledger>>

-----------------------------------------------------------------------------
(* The crawl: see MapperCrawl for what happens inside these steps.         *)

\* The pages of S enter the frontier; others may only be marked as visited.
Enters(S) ==
    /\ claimed' = [claimed EXCEPT ![run] = @ \cup S]
    /\ marked' = [marked EXCEPT ![run] = @ \cup (visited' \ visited)]

\* Fault: the visited set belongs to the run.
New_inRun(S) == S \ claimed[run]

\* The URLs whose SADD is answered with 1.
New(S) == S \ visited

\* Those of them that enter the frontier: a closed one refuses them, be it since
\* the start or because ctx is done by now, and a SADD that is sent again is
\* answered with 0.
Pushed(found) ==
    IF shut THEN {{}} ELSE IF MayFail("redis") THEN SUBSET found ELSE {found}

\* addURL(job.Seed).  A seed that an earlier crawl visited ends the crawl.
AddSeed ==
    /\ pc = "add"
    /\ visited' = visited \cup {seed}
    /\ frontier' = New({seed})
    /\ pc' = "crawl"
    /\ Enters(frontier')
    /\ UNCHANGED <<lists, rows, runs, stopping, seed, shut, records, replay, history, handed>>

\* So does one whose SADD fails, or is answered with 0 when it is sent again.
AddSeedFails ==
    /\ pc = "add" /\ MayFail("redis")
    /\ visited' \in {visited, visited \cup {seed}}
    /\ pc' = "crawl"
    /\ Enters({})
    /\ UNCHANGED <<lists, rows, runs, process, replay, history, handed>>

\* The upsert of a new seed fails when it is in the frontier already.  crawl
\* takes it for one that was mapped and closes the frontier: a worker still
\* gets the seed, but none of its links enters.  Its row is that of StoreSeed.
AddSeedUnstored ==
    /\ pc = "add" /\ MayFail("postgres") /\ seed \notin visited
    /\ visited' = visited \cup {seed}
    /\ frontier' = {seed}
    /\ shut' = TRUE
    /\ pc' = "crawl"
    /\ Enters({seed})
    /\ UNCHANGED <<lists, rows, runs, stopping, seed, records, replay, history, handed>>

\* A worker takes up a page.
TakenUp(u) ==
    /\ pc = "crawl" /\ u \in frontier
    /\ handed' = [handed EXCEPT ![run] = @ \cup {u}]

\* The links of page u are marked, and some of them enter the frontier.
Found(u, entered) ==
    /\ TakenUp(u)
    /\ visited' = visited \cup Links[u]
    /\ frontier' = (frontier \ {u}) \cup entered
    /\ Enters(entered)
    /\ UNCHANGED <<lists, runs, pc, stopping, seed, shut, replay, history>>

\* The records of the URLs of S go to the writer.
Sent(S) ==
    LET order == SetToSeq(S)
    IN  records' = records \o [i \in DOMAIN order |-> [url |-> order[i], run |-> run]]

\* All goes well.  The row of each URL that entered names this run.
Page(u) ==
    \E entered \in Pushed(New(Links[u])) :
        /\ Found(u, entered)
        /\ rows' = Upserted(entered)
        /\ Sent(entered)

\* fetchLinks fails, or the SADDs fail after some were applied.
PageFails(u) ==
    /\ TakenUp(u) /\ (MayFail("fetch") \/ MayFail("redis"))
    /\ \/ UNCHANGED visited
       \/ MayFail("redis") /\ \E some \in SUBSET Links[u] : visited' = visited \cup some
    /\ frontier' = frontier \ {u}
    /\ Enters({})
    /\ UNCHANGED <<lists, rows, runs, pc, stopping, seed, shut, records, replay, history>>

\* Fault: the records are sent although they have no rows.
StoreFails_ignored(u) ==
    /\ MayFail("postgres")
    /\ \E entered \in Pushed(New(Links[u])) : Found(u, entered) /\ Sent(entered)
    /\ UNCHANGED rows

\* upsertURLs fails when the links are in the frontier already.
StoreFails(u) ==
    /\ MayFail("postgres")
    /\ \E entered \in Pushed(New(Links[u])) :
          Found(u, entered) /\ rows' \in {rows, Upserted(entered)}
    /\ UNCHANGED records

\* The writer sends what it has.
Flush ==
    /\ pc = "crawl" /\ records # <<>>
    /\ output' = output \o records
    /\ records' = <<>>
    /\ UNCHANGED <<input, crawled, runs, pc, stopping, seed, frontier, shut, replay, history,
                   ledger>>

\* Batches are dropped when their RPUSH fails, which may have taken effect; with
\* ctx done some records are not even given to the writer.
FlushFails ==
    /\ pc = "crawl" /\ records # <<>> /\ MayFail("redis")
    /\ \E sent \in SUBSET DOMAIN records : output' = output \o Picked(records, sent)
    /\ records' = <<>>
    /\ UNCHANGED <<input, crawled, runs, pc, stopping, seed, frontier, shut, replay, history,
                   ledger>>

\* The frontier is empty, or the workers have left it because ctx is done.
CrawlEnds ==
    /\ pc = "crawl" /\ records = <<>>
    /\ frontier = {} \/ stopping
    /\ frontier' = {} /\ shut' = FALSE
    /\ pc' = "finish"
    /\ UNCHANGED <<lists, crawled, runs, stopping, seed, records, replay, history,
                   ledger>>

\* Fault: the status does not look at ctx.
runStatus_completed == "completed"

runStatus == IF stopping THEN "interrupted" ELSE "completed"

\* Fault: finishRun is called with ctx, which may be done.
Finish_cancelled ==
    /\ pc = "finish"
    /\ runs' = IF stopping THEN runs ELSE [runs EXCEPT ![run].status = runStatus]
    /\ pc' = "pop"
    /\ UNCHANGED <<lists, crawled, process, replay, history, ledger>>

\* finishRun has a context of its own.
Finish ==
    /\ pc = "finish"
    /\ runs' = [runs EXCEPT ![run].status = runStatus]
    /\ pc' = "pop"
    /\ UNCHANGED <<lists, crawled, process, replay, history, ledger>>

\* The error is logged.
FinishFails ==
    /\ pc = "finish" /\ "postgres" \in faults
    /\ pc' = "pop"
    /\ UNCHANGED <<lists, crawled, runs, process, replay, history, ledger>>

-----------------------------------------------------------------------------
(* The life of the process.                                                *)

Forget ==
    /\ pc' = "down" /\ stopping' = FALSE
    /\ frontier' = {} /\ shut' = FALSE /\ records' = <<>>
    /\ UNCHANGED <<lists, crawled, runs, seed, replay, faults, asked, ledger>>

\* SIGTERM.  A BRPOP that is cut off may have taken a request already.
Signal ==
    /\ pc # "down" /\ ~stopping /\ stops < MaxStops
    /\ stopping' = TRUE
    /\ stops' = stops + 1
    /\ \/ UNCHANGED input
       \/ pc = "pop" /\ input # <<>> /\ input' = Tail(input)
    /\ UNCHANGED <<output, crawled, runs, pc, seed, frontier, shut, records, replay, faults, asked,
                   ledger>>

Exit ==
    /\ pc = "pop" /\ stopping
    /\ Forget
    /\ UNCHANGED stops

Crash ==
    /\ "crash" \in faults /\ pc # "down" /\ stops < MaxStops
    /\ Forget
    /\ stops' = stops + 1

Restart ==
    /\ pc = "down"
    /\ pc' = "pop"
    /\ UNCHANGED <<lists, crawled, runs, process, replay, history, ledger>>

-----------------------------------------------------------------------------
(* replay, a process of its own.                                           *)

\* replayDomain: one query, which sees the rows as they are now.
ReplayStart(d) ==
    /\ rpc \in {"idle", "done", "failed"} /\ replays < MaxReplays
    /\ replays' = replays + 1
    /\ snapshot' = Picked(rows, {i \in DOMAIN rows : DomainOf[rows[i].url] = d})
    /\ cursor' = snapshot'
    /\ batch' = <<>> /\ total' = 0 /\ pushed' = <<>>
    /\ rpc' = "read"
    /\ UNCHANGED <<lists, crawled, runs, pc, process, history, ledger>>

\* rows.Next: a full batch is handled before the next row is read, and at the
\* end what is left, if anything.
ReplayRead ==
    /\ rpc = "read" /\ cursor # <<>>
    /\ batch' = Append(batch, Head(cursor))
    /\ cursor' = Tail(cursor)
    /\ rpc' = IF Len(batch') >= BatchSize THEN "push" ELSE "read"
    /\ UNCHANGED <<lists, crawled, runs, pc, process, total, replays, snapshot, pushed, history,
                   ledger>>

\* Fault: what is left in the batch is not handled.
ReplayEnd_short ==
    /\ rpc = "read" /\ cursor = <<>>
    /\ rpc' = "done"
    /\ UNCHANGED <<lists, crawled, runs, pc, process, cursor, batch, total, replays, snapshot,
                   pushed, history, ledger>>

ReplayEnd ==
    /\ rpc = "read" /\ cursor = <<>>
    /\ rpc' = IF batch = <<>> THEN "done" ELSE "push"
    /\ UNCHANGED <<lists, crawled, runs, pc, process, cursor, batch, total, replays, snapshot,
                   pushed, history, ledger>>

\* handle: RPUSH of the batch.
ReplayPush ==
    /\ rpc = "push"
    /\ output' = output \o batch
    /\ pushed' = pushed \o batch
    /\ total' = total + Len(batch)
    /\ batch' = <<>>
    /\ rpc' = "read"
    /\ UNCHANGED <<input, crawled, runs, pc, process, cursor, replays, snapshot, history,
                   ledger>>

\* A query or an RPUSH fails: the replay ends with an error.
ReplayFails ==
    /\ \/ rpc = "read" /\ "postgres" \in faults /\ UNCHANGED <<output, pushed>>
       \/ /\ rpc = "push" /\ "redis" \in faults
          /\ \/ UNCHANGED <<output, pushed>>
             \/ output' = output \o batch /\ pushed' = pushed \o batch
    /\ rpc' = "failed"
    /\ UNCHANGED <<input, crawled, runs, pc, process, cursor, batch, total, replays, snapshot,
                   history, ledger>>

Replay == ReplayRead \/ ReplayEnd \/ ReplayPush \/ ReplayFails

-----------------------------------------------------------------------------
Loop ==
    \/ Pop \/ PopTimeout \/ StartRun \/ StartRunFails \/ StoreSeed \/ StoreSeedFails
    \/ AddSeed \/ AddSeedFails \/ AddSeedUnstored
    \/ \E u \in frontier : Page(u) \/ PageFails(u) \/ StoreFails(u)
    \/ Flush \/ FlushFails \/ CrawlEnds \/ Finish \/ FinishFails \/ Exit

Next ==
    \/ \E q \in URL \cup Invalid : Enqueue(q)
    \/ Loop \/ Signal \/ Crash \/ Restart
    \/ \E d \in Domain : ReplayStart(d)
    \/ Replay

Spec == Init /\ [][Next]_vars

\* crawl returns (MapperCrawl), every client has a timeout, and
\* docker-compose.yml restarts a process that ended; one that was stopped is
\* started again.  Nobody has to ask for a replay.
Fairness == WF_vars(Loop) /\ WF_vars(Restart) /\ WF_vars(Replay)
FairSpec == Spec /\ Fairness

-----------------------------------------------------------------------------
(* Properties.                                                             *)

\* The visited set outlives runs, stops and crashes: no page is taken up by
\* two runs, however often its seed is asked for.
CrawledOnce ==
    \A q, r \in Run : q # r => handed[q] \cap handed[r] = {}

\* A run that is marked completed (main.go:181) was not cut short by a signal,
\* whenever it came: it took up every page that entered its frontier.  While
\* Redis and Postgres answer these are all the URLs that it put into the visited
\* set, which no later run takes up; else some of them may be lost, and where the
\* upsert of the seed itself fails (main.go:338) the links of the seed are,
\* although the run is marked completed.
CompletedIsWhole ==
    \A r \in Run :
        runs[r].status = "completed" =>
            /\ handed[r] = claimed[r]
            /\ faults \cap {"redis", "postgres"} = {} => handed[r] = marked[r]

\* Unless Postgres fails or the process dies, a run that crawled anything is
\* closed: also a stop, at any moment, leaves no such run running
\* (main.go:180: finishRun does not use the context that is done).
CrawledRunsEnd ==
    faults \cap {"postgres", "crash"} = {} =>
        \A r \in Run :
            runs[r].status = "running" /\ claimed[r] # {} =>
                r = run /\ pc \in {"crawl", "finish"}

\* Every request on mapper:out, sent by a crawl or a replay, names a row and a
\* run of its domain; the row may have been found again since, in a later run,
\* but never names an earlier one.
RequestsHaveRows ==
    \A i \in DOMAIN output :
        /\ output[i].run \in Run
        /\ DomainOf[runs[output[i].run].seed] = DomainOf[output[i].url]
        /\ \E j \in DOMAIN rows :
              rows[j].url = output[i].url /\ rows[j].run >= output[i].run

\* One row per URL, and a replay that ends without error has asked once, in
\* the order of the ids, for exactly the rows there were when it began, and
\* reports their number, whatever crawls and crashes happened meanwhile.
ReplayExact ==
    /\ \A i, j \in DOMAIN rows : rows[i].url = rows[j].url => i = j
    /\ rpc = "done" => pushed = snapshot /\ total = Len(snapshot)
    /\ IsPrefix(pushed, snapshot)

\* Whatever goes wrong, all crawl requests are taken up in the end, a stopped
\* process comes down and up again, and every replay ends.
Settles == <>[](pc = "pop" /\ ~stopping /\ input = <<>> /\ rpc \in {"idle", "done", "failed"})
=============================================================================
