---------------------------- MODULE MapperCrawl ----------------------------
(***************************************************************************)
(* One crawl of the mapper: the function crawl of services/mapper/main.go, *)
(* with the goroutines it starts and the three stores it writes.           *)
(*                                                                         *)
(*   - the worker goroutines, which pop pages off the frontier, fetch them *)
(*     and add the links they find;                                        *)
(*   - the frontier (urlQueue): a mutex, a condition variable, a slice and *)
(*     the count `outstanding` from which it infers that the crawl is over;*)
(*   - the goroutine that closes the frontier when the context is done;    *)
(*   - the writer goroutine, fed through the bounded channel `discovered`, *)
(*     which batches parse requests onto the Redis list mapper:out;        *)
(*   - the main goroutine, which adds the seed, starts the others and      *)
(*     waits for them.                                                     *)
(*                                                                         *)
(* A step is a critical section, a channel operation, a command to Redis,  *)
(* a transaction of Postgres or an HTTP request, so that goroutines        *)
(* interleave wherever they do in the program.  URLs are those that        *)
(* normalizeURL and sameDomain let through.                                *)
(***************************************************************************)
EXTENDS Integers, Sequences, FiniteSets

CONSTANTS URL,          \* normalised URLs of the crawled domain
          Seed,         \* the URL of the crawl request
          Links,        \* the same-domain links of each page
          Worker,       \* the worker goroutines
          Main,         \* the goroutine that runs crawl
          BatchSize,    \* REDIS_BATCH_SIZE
          MaxPages,     \* MAX_PAGES_PER_SEED, 0 for no limit
          VisitedBefore,\* URLs earlier crawls may have left in the visited set
          Faults        \* sets of what may go wrong in a crawl:
                        \*   "cancel", "redis", "postgres", "fetch"

ASSUME CrawlAssumption ==
    /\ IsFiniteSet(URL)
    /\ Seed \in URL
    /\ Links \in [URL -> SUBSET URL]
    /\ IsFiniteSet(Worker) /\ Worker # {}
    /\ Main \notin Worker
    /\ BatchSize \in Nat \ {0}
    /\ MaxPages \in Nat
    /\ VisitedBefore \subseteq URL

VARIABLES
    visited,      \* the Redis set mapper:visited:<domain>, which outlives the crawl
    stored,       \* the rows of the table urls touched by this run
    output,       \* the parse requests of this run that reached mapper:out,
                  \*   those that a resent RPUSH repeats counted once
    items,        \* urlQueue.items from head on
    outstanding,  \* urlQueue.outstanding
    closed,       \* urlQueue.closed
    pc,           \* where each goroutine of Worker \cup {Main} is
    page,         \* the page a worker popped
    todo,         \* what is left of the list a goroutine is looping over
    got,          \* what that loop has selected so far
    discovered,   \* the channel to the writer
    chanOpen,     \* close(discovered) has not run yet
    batch,        \* the writer's batch
    wpc,          \* where the writer is
    cancelled,    \* ctx.Done() is closed
    watcher,      \* the goroutine that waits for ctx.Done()
    seedAdded,    \* the result of addURL(job.Seed)
    stats,        \* crawlStats
    faults,       \* what may go wrong in this crawl
    before,       \* history: the visited set when the crawl began
    fetched       \* history: the pages handed to a worker

durable == <<visited, stored, output>>
queue   == <<items, outstanding, closed>>
local   == <<page, todo, got>>
writer  == <<discovered, chanOpen, batch, wpc>>
control == <<cancelled, watcher, seedAdded, faults, before>>
vars    == <<durable, queue, pc, local, writer, control, stats, fetched>>

Proc == Worker \cup {Main}

\* make(chan urlRecord, cfg.BatchSize*2)
ChanCap == 2 * BatchSize

\* The pcs between a pop and the matching done: the worker holds a page.
Busy == {"fetch", "limit", "sadd", "push", "upsert", "send", "done", "quit"}
Holding == {w \in Worker : pc[w] \in Busy}
Waiting == {w \in Worker : pc[w] = "wait"}

WorkerPC == Busy \cup {"idle", "pop", "wait", "exited"}
MainPC == {"limit", "sadd", "push", "upsert", "spawn", "join", "flush", "returned"}

\* The type invariant: what each goroutine of crawl may hold where it is; the
\* channel and the batch keep to their sizes (main.go:259, 521), and no full
\* batch waits for another record (main.go:542).
TypeOK ==
    /\ visited \subseteq URL /\ stored \subseteq URL /\ output \in Seq(URL)
    /\ items \in Seq(URL) /\ outstanding \in Nat /\ closed \in BOOLEAN
    /\ pc \in [Proc -> WorkerPC \cup MainPC]
    /\ pc[Main] \in MainPC /\ \A w \in Worker : pc[w] \in WorkerPC
    /\ page \in [Worker -> URL]
    /\ todo \in [Proc -> SUBSET URL] /\ got \in [Proc -> SUBSET URL]
    /\ discovered \in Seq(URL) /\ Len(discovered) <= ChanCap
    /\ batch \in Seq(URL) /\ Len(batch) <= BatchSize
    /\ wpc # "flush" => Len(batch) < BatchSize
    /\ chanOpen \in BOOLEAN /\ wpc \in {"recv", "flush", "ended"}
    /\ cancelled \in BOOLEAN /\ seedAdded \in BOOLEAN
    /\ watcher \in {"armed", "fired"}
    /\ stats \in [Pages : Nat, Links : Nat, Errors : Nat]
    /\ faults \in Faults /\ before \subseteq URL /\ fetched \subseteq URL

-----------------------------------------------------------------------------
\* The main loop has upserted the row of the seed before it calls crawl
\* (main.go:168); crawl's first act is addURL(job.Seed).
Init ==
    /\ faults \in Faults
    /\ before \in SUBSET VisitedBefore
    /\ visited = before
    /\ stored = {Seed}
    /\ output = <<>>
    /\ items = <<>> /\ outstanding = 0 /\ closed = FALSE
    /\ pc = [p \in Proc |-> IF p = Main THEN "limit" ELSE "idle"]
    /\ page = [w \in Worker |-> Seed]
    /\ todo = [p \in Proc |-> IF p = Main THEN {Seed} ELSE {}]
    /\ got = [p \in Proc |-> {}]
    /\ discovered = <<>> /\ chanOpen = TRUE /\ batch = <<>> /\ wpc = "recv"
    /\ cancelled = FALSE /\ watcher = "armed" /\ seedAdded = FALSE
    /\ stats = [Pages |-> 0, Links |-> 0, Errors |-> 0]
    /\ fetched = {}

-----------------------------------------------------------------------------
(* The condition variable of urlQueue.                                     *)

\* cond.Signal(): one waiter, if there is one, will look again.
Signalled(f) ==
    LET waiters == {w \in Worker : f[w] = "wait"}
    IN  IF waiters = {} THEN {f} ELSE {[f EXCEPT ![w] = "pop"] : w \in waiters}

\* Fault: Signal where Broadcast is meant.
Broadcast_one(f) == CHOOSE g \in Signalled(f) : TRUE

\* Fault: nobody is told.
Broadcast_none(f) == f

\* cond.Broadcast(): every waiter will look again.
Broadcast(f) == [p \in Proc |-> IF f[p] = "wait" THEN "pop" ELSE f[p]]

\* With ctx done a call fails; one already sent may still get through.
MayFail(fault) == fault \in faults \/ cancelled

-----------------------------------------------------------------------------
(* addURLs, run by the workers and, for the seed, by the main goroutine.   *)

\* addURLs returns `records`: a worker goes on to sendDiscovered, which does
\* nothing with no records; the main goroutine looks at their number.
AfterAdd(p, records) ==
    IF p = Main THEN "spawn" ELSE IF records = {} THEN "done" ELSE "send"

Return(p, records) ==
    /\ pc' = [pc EXCEPT ![p] = AfterAdd(p, records)]
    /\ todo' = [todo EXCEPT ![p] = records]
    /\ got' = [got EXCEPT ![p] = records]

LimitReached == MaxPages > 0 /\ stats.Pages >= MaxPages

\* Fault: the limit is not looked at.
CheckLimit_dropped(p) ==
    /\ pc[p] = "limit"
    /\ IF todo[p] = {}
         THEN Return(p, {})
         ELSE /\ pc' = [pc EXCEPT ![p] = "sadd"]
              /\ UNCHANGED <<todo, got>>
    /\ UNCHANGED <<durable, queue, page, writer, control, stats, fetched>>

\* The limit is read under statsMu and acted upon after it is released.
CheckLimit(p) ==
    /\ pc[p] = "limit"
    /\ IF todo[p] = {} \/ LimitReached
         THEN Return(p, {})
         ELSE /\ pc' = [pc EXCEPT ![p] = "sadd"]
              /\ UNCHANGED <<todo, got>>
    /\ UNCHANGED <<durable, queue, page, writer, control, stats, fetched>>

\* SADD answers 1 only to the first who adds the member.
FirstToAdd(u) == u \notin visited

\* What the goroutine has won once SADD of u is answered.  The Redis client
\* resends what got no reply, and the second answer is 0 whoever added u.
Won(p, u) ==
    {IF FirstToAdd(u) THEN got[p] \cup {u} ELSE got[p]}
      \cup (IF MayFail("redis") THEN {got[p]} ELSE {})

\* One command of the pipeline.  Commands of other clients may come between
\* two commands of a pipeline.
SAdd(p, u) ==
    /\ pc[p] = "sadd" /\ u \in todo[p]
    /\ visited' = visited \cup {u}
    /\ \E fresh \in Won(p, u) :
         IF todo[p] = {u}
           THEN /\ pc' = [pc EXCEPT ![p] = "push"]
                /\ todo' = [todo EXCEPT ![p] = fresh]
                /\ got' = [got EXCEPT ![p] = {}]
           ELSE /\ todo' = [todo EXCEPT ![p] = @ \ {u}]
                /\ got' = [got EXCEPT ![p] = fresh]
                /\ UNCHANGED pc
    /\ UNCHANGED <<stored, output, queue, page, writer, control, stats, fetched>>

\* pipe.Exec fails, after any number of its commands were applied: the
\* members they added stay in the set and are forgotten here.
SAddFails(p) ==
    /\ pc[p] = "sadd" /\ MayFail("redis")
    /\ Return(p, {})
    /\ UNCHANGED <<durable, queue, page, writer, control, stats, fetched>>

\* Fault: push does not look at `closed`.
Push_evenClosed(p, u) ==
    /\ pc[p] = "push" /\ u \in todo[p]
    /\ todo' = [todo EXCEPT ![p] = @ \ {u}]
    /\ items' = Append(items, u)
    /\ outstanding' = outstanding + 1
    /\ pc' \in Signalled(pc)
    /\ got' = [got EXCEPT ![p] = @ \cup {u}]
    /\ UNCHANGED <<durable, closed, page, writer, control, stats, fetched>>

\* urlQueue.push, for one URL of which this goroutine won the SADD.
Push(p, u) ==
    /\ pc[p] = "push" /\ u \in todo[p]
    /\ todo' = [todo EXCEPT ![p] = @ \ {u}]
    /\ IF closed
         THEN UNCHANGED <<items, outstanding, pc, got>>
         ELSE /\ items' = Append(items, u)
              /\ outstanding' = outstanding + 1
              /\ pc' \in Signalled(pc)
              /\ got' = [got EXCEPT ![p] = @ \cup {u}]
    /\ UNCHANGED <<durable, closed, page, writer, control, stats, fetched>>

PushesDone(p) ==
    /\ pc[p] = "push" /\ todo[p] = {}
    /\ IF got[p] = {}
         THEN Return(p, {})
         ELSE /\ pc' = [pc EXCEPT ![p] = "upsert"]
              /\ UNCHANGED <<todo, got>>
    /\ UNCHANGED <<durable, queue, page, writer, control, stats, fetched>>

\* store.upsertURLs: one transaction for all the URLs pushed.
Upsert(p) ==
    /\ pc[p] = "upsert"
    /\ stored' = stored \cup got[p]
    /\ Return(p, got[p])
    /\ UNCHANGED <<visited, output, queue, page, writer, control, stats, fetched>>

\* Fault: the records are returned along with the error.
UpsertFails_ignored(p) ==
    /\ pc[p] = "upsert" /\ MayFail("postgres")
    /\ Return(p, got[p])
    /\ UNCHANGED <<durable, queue, page, writer, control, stats, fetched>>

\* The transaction fails; when only the answer to COMMIT was lost the rows
\* are there all the same.
UpsertFails(p) ==
    /\ pc[p] = "upsert" /\ MayFail("postgres")
    /\ \/ UNCHANGED stored
       \/ stored' = stored \cup got[p]
    /\ Return(p, {})
    /\ UNCHANGED <<visited, output, queue, page, writer, control, stats, fetched>>

AddURLs(p) ==
    \/ CheckLimit(p)
    \/ \E u \in todo[p] : SAdd(p, u)
    \/ SAddFails(p)
    \/ \E u \in todo[p] : Push(p, u)
    \/ PushesDone(p)
    \/ Upsert(p)
    \/ UpsertFails(p)

-----------------------------------------------------------------------------
(* The workers.                                                            *)

\* urlQueue.pop hands out the first item, closed or not.
Pop(w) ==
    /\ pc[w] = "pop" /\ items # <<>>
    /\ page' = [page EXCEPT ![w] = Head(items)]
    /\ items' = Tail(items)
    /\ fetched' = fetched \cup {Head(items)}
    /\ pc' = [pc EXCEPT ![w] = "fetch"]
    /\ UNCHANGED <<durable, outstanding, closed, todo, got, writer, control, stats>>

\* urlQueue.pop: nothing there, so cond.Wait or the end of the worker.
PopNothing(w) ==
    /\ pc[w] = "pop" /\ items = <<>>
    /\ pc' = [pc EXCEPT ![w] = IF closed THEN "exited" ELSE "wait"]
    /\ UNCHANGED <<durable, queue, local, writer, control, stats, fetched>>

\* The links that are read: those of the page, or the first of them when its
\* body breaks off, which extractLinks takes for its end.
LinksRead(w) ==
    {Links[page[w]]} \cup (IF MayFail("fetch") THEN SUBSET Links[page[w]] ELSE {})

\* fetchLinks, then the filter that leaves the same-domain links.
Fetch(w) ==
    /\ pc[w] = "fetch"
    /\ stats' = [stats EXCEPT !.Pages = @ + 1]
    /\ \E links \in LinksRead(w) : todo' = [todo EXCEPT ![w] = links]
    /\ got' = [got EXCEPT ![w] = {}]
    /\ pc' = [pc EXCEPT ![w] = "limit"]
    /\ UNCHANGED <<durable, queue, page, writer, control, fetched>>

FetchFails(w) ==
    /\ pc[w] = "fetch" /\ MayFail("fetch")
    /\ stats' = [stats EXCEPT !.Errors = @ + 1]
    /\ pc' = [pc EXCEPT ![w] = "done"]
    /\ UNCHANGED <<durable, queue, local, writer, control, fetched>>

\* sendDiscovered: discovered <- record.  stats.Links grows once all are sent.
Send(w, u) ==
    /\ pc[w] = "send" /\ u \in todo[w]
    /\ Len(discovered) < ChanCap
    /\ discovered' = Append(discovered, u)
    /\ todo' = [todo EXCEPT ![w] = @ \ {u}]
    /\ IF todo[w] = {u}
         THEN /\ pc' = [pc EXCEPT ![w] = "done"]
              /\ stats' = [stats EXCEPT !.Links = @ + Cardinality(got[w])]
         ELSE UNCHANGED <<pc, stats>>
    /\ UNCHANGED <<durable, queue, page, got, chanOpen, batch, wpc, control, fetched>>

\* Fault: the worker leaves without frontier.done().
SendGivesUp_noDone(w) ==
    /\ pc[w] = "send" /\ cancelled
    /\ pc' = [pc EXCEPT ![w] = "exited"]
    /\ UNCHANGED <<durable, queue, local, writer, control, stats, fetched>>

\* sendDiscovered: <-ctx.Done() wins, and the worker leaves.
SendGivesUp(w) ==
    /\ pc[w] = "send" /\ cancelled
    /\ pc' = [pc EXCEPT ![w] = "quit"]
    /\ UNCHANGED <<durable, queue, local, writer, control, stats, fetched>>

\* With n pages outstanding the crawl is over.
Quiescent(n) == n = 0

\* urlQueue.done: the last page in flight closes the frontier.
Done(w) ==
    /\ pc[w] \in {"done", "quit"}
    /\ outstanding' = IF outstanding > 0 THEN outstanding - 1 ELSE outstanding
    /\ LET left == [pc EXCEPT ![w] = IF pc[w] = "quit" THEN "exited" ELSE "pop"]
       IN  IF Quiescent(outstanding')
             THEN closed' = TRUE /\ pc' = Broadcast(left)
             ELSE closed' = closed /\ pc' = left
    /\ todo' = [todo EXCEPT ![w] = {}]
    /\ got' = [got EXCEPT ![w] = {}]
    /\ UNCHANGED <<durable, items, page, writer, control, stats, fetched>>

WorkerStep(w) ==
    \/ Pop(w) \/ PopNothing(w)
    \/ Fetch(w) \/ FetchFails(w)
    \/ AddURLs(w)
    \/ \E u \in todo[w] : Send(w, u)
    \/ SendGivesUp(w)
    \/ Done(w)

-----------------------------------------------------------------------------
(* The main goroutine, the context and its watcher.                        *)

\* A seed that was not added closes the frontier; then the goroutines start.
\* Nobody is waiting on the frontier yet.
Spawn ==
    /\ pc[Main] = "spawn"
    /\ seedAdded' = (got[Main] # {})
    /\ closed' = (closed \/ got[Main] = {})
    /\ pc' = [p \in Proc |-> IF p = Main THEN "join" ELSE "pop"]
    /\ UNCHANGED <<durable, items, outstanding, local, writer, cancelled, watcher, faults, before,
                   stats, fetched>>

\* workers.Wait(); close(discovered)
Join ==
    /\ pc[Main] = "join"
    /\ \A w \in Worker : pc[w] = "exited"
    /\ chanOpen' = FALSE
    /\ pc' = [pc EXCEPT ![Main] = "flush"]
    /\ UNCHANGED <<durable, queue, local, discovered, batch, wpc, control, stats, fetched>>

\* writer.Wait() and the return of crawl.
Leave ==
    /\ pc[Main] = "flush" /\ wpc = "ended"
    /\ pc' = [pc EXCEPT ![Main] = "returned"]
    /\ UNCHANGED <<durable, queue, local, writer, control, stats, fetched>>

MainStep == AddURLs(Main) \/ Spawn \/ Join \/ Leave

\* SIGINT or SIGTERM.
Cancel ==
    /\ "cancel" \in faults /\ ~cancelled
    /\ cancelled' = TRUE
    /\ UNCHANGED <<durable, queue, pc, local, writer, watcher, seedAdded, faults, before,
                   stats, fetched>>

\* <-ctx.Done(); frontier.close().  The goroutine starts with the workers.
CloseOnCancel ==
    /\ cancelled /\ watcher = "armed"
    /\ pc[Main] \in {"join", "flush"}
    /\ watcher' = "fired"
    /\ closed' = TRUE
    /\ pc' = Broadcast(pc)
    /\ UNCHANGED <<durable, items, outstanding, local, writer, cancelled, seedAdded, faults, before,
                   stats, fetched>>

-----------------------------------------------------------------------------
(* The writer: flushParseRequests.                                         *)

WriterActive == pc[Main] \in {"join", "flush"}

\* Fault: the batch may grow one beyond its size.
NextWPC_late(n) == IF n > BatchSize THEN "flush" ELSE "recv"

\* A full batch must be flushed before the writer receives again.
NextWPC(n) == IF n >= BatchSize THEN "flush" ELSE "recv"

Receive ==
    /\ WriterActive /\ wpc = "recv" /\ discovered # <<>>
    /\ batch' = Append(batch, Head(discovered))
    /\ discovered' = Tail(discovered)
    /\ wpc' = NextWPC(Len(batch'))
    /\ UNCHANGED <<durable, queue, pc, local, chanOpen, control, stats, fetched>>

\* Fault: no flush after the last record.
Drained_noFlush ==
    /\ WriterActive /\ wpc = "recv" /\ discovered = <<>> /\ ~chanOpen
    /\ wpc' = "ended"
    /\ UNCHANGED <<durable, queue, pc, local, discovered, chanOpen, batch, control, stats, fetched>>

\* The channel is closed and drained: one last flush, or the end.
Drained ==
    /\ WriterActive /\ wpc = "recv" /\ discovered = <<>> /\ ~chanOpen
    /\ wpc' = IF batch = <<>> THEN "ended" ELSE "flush"
    /\ UNCHANGED <<durable, queue, pc, local, discovered, chanOpen, batch, control, stats, fetched>>

\* RPUSH mapper:out of the whole batch.
Flush ==
    /\ wpc = "flush"
    /\ output' = output \o batch
    /\ batch' = <<>>
    /\ wpc' = "recv"
    /\ UNCHANGED <<visited, stored, queue, pc, local, discovered, chanOpen, control, stats, fetched>>

\* RPUSH returns an error: the batch is logged, at most, and dropped.  It may
\* have reached the list.
FlushFails ==
    /\ wpc = "flush" /\ MayFail("redis")
    /\ \/ UNCHANGED output
       \/ output' = output \o batch
    /\ batch' = <<>>
    /\ wpc' = "recv"
    /\ UNCHANGED <<visited, stored, queue, pc, local, discovered, chanOpen, control, stats, fetched>>

WriterStep == Receive \/ Drained \/ Flush \/ FlushFails

-----------------------------------------------------------------------------
\* crawl has returned to the main loop.
Returned == pc[Main] = "returned" /\ UNCHANGED vars

Next ==
    \/ \E w \in Worker : WorkerStep(w)
    \/ MainStep
    \/ WriterStep
    \/ Cancel
    \/ CloseOnCancel
    \/ Returned

Spec == Init /\ [][Next]_vars

\* Every goroutine that can go on does: the Go scheduler is preemptive, the
\* HTTP client has a timeout (RequestTimeout) and so do the two databases'
\* clients.  Nothing makes the context be cancelled.
Fairness ==
    /\ \A w \in Worker : WF_vars(WorkerStep(w))
    /\ WF_vars(MainStep)
    /\ WF_vars(WriterStep)
    /\ WF_vars(CloseOnCancel)

FairSpec == Spec /\ Fairness
-----------------------------------------------------------------------------
(* Properties.                                                             *)

\* The crawl gave up before it was finished: the context was cancelled, or
\* the seed was not added.
Aborted == \/ watcher = "fired"
           \/ pc[Main] \in {"join", "flush", "returned"} /\ ~seedAdded

\* urlQueue.outstanding (main.go:411) is at every moment the number of URLs
\* in the frontier plus the number of workers between their pop and their
\* done, closed or not and whatever failed in between.
OutstandingExact == outstanding = Len(items) + Cardinality(Holding)

\* done (main.go:460) ends the crawl by counting: unless the crawl was given
\* up, a closed frontier means that no page is left and no worker can still
\* find one.
NoPrematureClose == closed /\ ~Aborted => items = <<>> /\ Holding = {}

\* pop waits on a condition variable that push signals once and close and
\* done broadcast: nobody waits on a closed frontier, and a worker that waits
\* while there is a page, or while one may still be found, is not alone.
NoLostWakeup ==
    Waiting # {} =>
        /\ ~closed
        /\ items # <<>> \/ Holding # {}
        /\ items # <<>> => \E w \in Worker : pc[w] \in Busy \cup {"pop"}

\* The parse requests that are on the list, in the writer's batch or in the
\* channel, in that order.
Emitted == output \o batch \o discovered

\* Whatever the workers' interleaving and the failures, a URL gets at most one
\* parse request from a crawl, and only when its row is in Postgres: the
\* request carries the id of that row.
EmittedOnce ==
    /\ \A i, j \in 1..Len(Emitted) : Emitted[i] = Emitted[j] => i = j
    /\ \A i \in 1..Len(Emitted) : Emitted[i] \in stored
    /\ \A w \in Worker : pc[w] = "send" =>
          /\ todo[w] \subseteq stored
          /\ \A i \in 1..Len(Emitted) : Emitted[i] \notin todo[w]
          /\ \A v \in Worker \ {w} : pc[v] = "send" => todo[v] \cap todo[w] = {}

\* Pages reachable from the seed without passing through what earlier crawls
\* had visited.
Reachable ==
    LET step(S) == S \cup ((UNION {Links[u] : u \in S}) \ before)
        upTo[n \in 0..Cardinality(URL)] ==
            IF n = 0 THEN {Seed} \ before ELSE step(upTo[n - 1])
    IN  upTo[Cardinality(URL)]

\* A crawl that nothing disturbed has fetched every reachable page, recorded
\* its URL, emitted a parse request for it unless it is the seed, and reports
\* exactly these numbers.
CrawlComplete ==
    pc[Main] = "returned" /\ faults = {} /\ MaxPages = 0 =>
        /\ fetched = Reachable
        /\ visited = before \cup Reachable
        /\ stored = Reachable \cup {Seed}
        /\ {output[i] : i \in 1..Len(output)} = Reachable \ {Seed}
        /\ stats = [Pages |-> Cardinality(Reachable), Links |-> Len(output), Errors |-> 0]

\* The page limit is checked under one lock and acted upon under others
\* (main.go:268), so workers past the check still add pages.  Once they are
\* through, the crawl finds nothing more.
Sealed == LimitReached /\ \A p \in Proc : pc[p] \notin {"sadd", "push", "upsert"}

LimitSeals == [][Sealed => Sealed' /\ UNCHANGED <<visited, stored>>]_vars

\* crawl returns, whatever fails and whenever it is cancelled: no goroutine is
\* left waiting on the frontier, on the full channel or on another goroutine
\* (main.go:395).
Termination == <>(pc[Main] = "returned")

\* The frontier hands out pages as WorkPool promises.
Pool == INSTANCE WorkPool WITH
            pool <- {items[i] : i \in 1..Len(items)},
            active <- {page[w] : w \in Holding},
            taken <- fetched,
            over <- closed,
            aborted <- Aborted

\* main.go:406-470 implements WorkPool: no page is handed out twice, and the
\* counter ends the crawl exactly when the last page in flight is finished.
RefinesWorkPool == Pool!Spec

\* docs/architecture.md:23 makes Postgres the source of truth for URLs; the
\* visited set would then hold no URL that Postgres does not.
VisitedHasRow == pc[Main] = "returned" => visited \subseteq before \cup stored
=============================================================================
