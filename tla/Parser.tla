------------------------------- MODULE Parser -------------------------------
(***************************************************************************)
(* The parser nodes (services/parser): PARSER_REPLICAS processes that pop  *)
(* parse requests off the Redis list mapper:out, fetch the pages and the   *)
(* PDFs they link to, keep every new version in Postgres and put a request *)
(* for each on parser:out.                                                 *)
(*                                                                         *)
(* Each process has a dispatcher, its main goroutine, that hands requests  *)
(* to worker goroutines over an unbuffered channel.  The replicas share    *)
(* nothing but the two stores.  A step is a command to Redis, a statement  *)
(* of Postgres where locks make it matter and else a transaction, one      *)
(* attempt at a page, or a channel operation.                              *)
(*                                                                         *)
(* A document is modelled by its URL and a version by its URL and content, *)
(* which is what the keys of the two tables are made of.  Titles, sources  *)
(* and the other attributes, the progress events and the heartbeats are    *)
(* left out; so are requests for URLs that Postgres does not know.         *)
(***************************************************************************)
EXTENDS Integers, Sequences, FiniteSets, SequencesExt

CONSTANTS Page,         \* URLs of HTML pages
          Pdf,          \* URLs of PDF documents
          Asset,        \* URLs the parser skips
          PdfLinks,     \* the PDFs a page links to
          Domain,       \* domains
          DomainOf,     \* the domain of a URL
          Content,      \* what a URL may serve
          Blank,        \* content from which no text can be extracted
          None,         \* no content, no holder, no request
          Node,         \* the replicas
          Worker,       \* the worker goroutines of all replicas
          NodeOf,       \* the replica of a worker
          MaxRetries,   \* MAX_RETRIES
          Faults,       \* sets of what may go wrong in one behaviour:
                        \*   "fetch", "redis", "postgres", "stop", "crash"
          MaxRequests,  \* bound: requests for pages
          MaxChanges,   \* bound: changes of the web
          MaxStops      \* bound: times a replica stops or dies

URL == Page \cup Pdf \cup Asset

ASSUME ParserAssumption ==
    /\ Page \cap Pdf = {} /\ Asset \cap (Page \cup Pdf) = {}
    /\ PdfLinks \in [Page -> SUBSET Pdf]
    /\ DomainOf \in [URL -> Domain]
    /\ Blank \notin Content /\ None \notin Content \cup {Blank} \cup Worker \cup URL
    /\ None \notin (Page \cup Pdf) \X Content
    /\ NodeOf \in [Worker -> Node] /\ IsFiniteSet(Worker) /\ IsFiniteSet(Node)
    /\ MaxRetries \in Nat /\ MaxRequests \in Nat /\ MaxChanges \in Nat /\ MaxStops \in Nat

VARIABLES
    input,      \* the list mapper:out
    web,        \* what each URL serves now
    latest,     \* page_documents.latest_content_hash, None before the first save
    versions,   \* page_document_versions
    broken,     \* the documents with a last_error
    holder,     \* who holds the lock on the row of a domain
    output,     \* the list parser:out, oldest first; a resent RPUSH counts once
    node,       \* each replica: "up", "stopping" or "down"
    hand,       \* the request a dispatcher offers to its workers
    work,       \* what each worker is doing
    faults,     \* what may go wrong
    asked,      \* history: requests so far
    changes,    \* history: changes of the web so far
    stops,      \* history: stops so far
    risked,     \* history: requests that stops found not looked up yet
    ended,      \* history: requests that a worker looked up and ran to the end
    commits     \* history: the versions committed as changes, oldest first

stores  == <<input, web, latest, versions, broken, holder, output>>
limits  == <<faults, asked, changes, stops, risked>>
bounds  == <<limits, ended>>
vars    == <<stores, node, hand, work, bounds, commits>>

PC == {"off", "idle", "target", "try", "fetch", "error", "save", "commit", "links", "push"}
Document == Page \cup Pdf
Version == Document \X Content

\* The local variables of processJob and processPDFJob.
Work == [pc : PC,
         job : URL \cup {None},          \* the URL of the request
         url : Document \cup {None},     \* the document at hand: the job's, or a PDF it links to
         content : Content \cup {None},  \* what was fetched
         result : Content \cup {None},   \* the version of the page to announce after the PDFs
         links : SUBSET Pdf,             \* the PDFs to come
         attempt : 0 .. MaxRetries + 1,  \* which attempt at fetching this is
         seen : Content \cup {None}]     \* the latest content the transaction read

NoWork(place) == [pc |-> place, job |-> None, url |-> None, content |-> None,
                  result |-> None, links |-> {}, attempt |-> 0, seen |-> None]

Cancelled(w) == node[NodeOf[w]] = "stopping"

\* The type invariant: workers run exactly in the replicas that are not down,
\* and attempts at a document stop at MAX_RETRIES + 1 (main.go:316).
TypeOK ==
    /\ input \in Seq(URL) /\ web \in [Document -> Content \cup {Blank}]
    /\ latest \in [Document -> Content \cup {None}]
    /\ versions \subseteq Version /\ broken \subseteq Document
    /\ holder \in [Domain -> Worker \cup {None}] /\ output \in Seq(Version)
    /\ node \in [Node -> {"up", "stopping", "down"}]
    /\ hand \in [Node -> URL \cup {None}]
    /\ work \in [Worker -> Work]
    /\ faults \in Faults
    /\ asked \in 0 .. MaxRequests /\ changes \in 0 .. MaxChanges /\ stops \in 0 .. MaxStops
    /\ risked \in Nat /\ ended \in Nat /\ commits \in Seq(Version)
    /\ \A w \in Worker : work[w].pc = "off" <=> node[NodeOf[w]] = "down"

Init ==
    /\ input = <<>> /\ web \in [Document -> Content \cup {Blank}]
    /\ latest = [u \in Document |-> None] /\ versions = {} /\ broken = {}
    /\ holder = [d \in Domain |-> None] /\ output = <<>>
    /\ node = [n \in Node |-> "up"] /\ hand = [n \in Node |-> None]
    /\ work = [w \in Worker |-> NoWork("idle")]
    /\ faults \in Faults /\ asked = 0 /\ changes = 0 /\ stops = 0 /\ risked = 0
    /\ ended = 0 /\ commits = <<>>

-----------------------------------------------------------------------------
(* Outside: the mapper and the monitor ask for pages, pages change.        *)

Ask(u) ==
    /\ asked < MaxRequests
    /\ asked' = asked + 1
    /\ input' = Append(input, u)
    /\ UNCHANGED <<web, latest, versions, broken, holder, output, node, hand, work,
                   faults, changes, stops, risked, ended, commits>>

Edit(u, c) ==
    /\ changes < MaxChanges /\ web[u] # c
    /\ changes' = changes + 1
    /\ web' = [web EXCEPT ![u] = c]
    /\ UNCHANGED <<input, latest, versions, broken, holder, output, node, hand, work,
                   faults, asked, stops, risked, ended, commits>>

-----------------------------------------------------------------------------
(* The dispatcher.                                                         *)

\* BRPOP takes the request off the list for good.
Pop(n) ==
    /\ node[n] = "up" /\ hand[n] = None /\ input # <<>>
    /\ input' = Front(input)
    /\ \/ hand' = [hand EXCEPT ![n] = Last(input)]
       \/ "redis" \in faults /\ UNCHANGED hand
    /\ UNCHANGED <<web, latest, versions, broken, holder, output, node, work, bounds, commits>>

\* BRPOP times out.
PopTimeout(n) ==
    /\ node[n] = "up" /\ hand[n] = None /\ input = <<>>
    /\ UNCHANGED vars

\* jobs <- parseJob
Give(w) ==
    LET n == NodeOf[w] IN
    /\ work[w].pc = "idle" /\ hand[n] # None
    /\ work' = [work EXCEPT ![w].pc = "target", ![w].job = hand[n]]
    /\ hand' = [hand EXCEPT ![n] = None]
    /\ UNCHANGED <<stores, node, bounds, commits>>

\* <-ctx.Done() instead: the request at hand is dropped.
Drop(n) ==
    /\ node[n] = "stopping" /\ hand[n] # None
    /\ hand' = [hand EXCEPT ![n] = None]
    /\ UNCHANGED <<stores, node, work, bounds, commits>>

WorkersOf(n) == {w \in Worker : NodeOf[w] = n}

\* The workers of a replica that are asking Postgres for the URL of a request.
Asking(n) == {w \in WorkersOf(n) : work[w].pc = "target"}

\* SIGTERM.  A BRPOP that is cut off may have taken a request already.
Stop(n) ==
    /\ "stop" \in faults /\ node[n] = "up" /\ stops < MaxStops
    /\ node' = [node EXCEPT ![n] = "stopping"]
    /\ stops' = stops + 1
    /\ risked' = risked + 1 + Cardinality(Asking(n))
    /\ \/ UNCHANGED input
       \/ hand[n] = None /\ input # <<>> /\ input' = Front(input)
    /\ UNCHANGED <<web, latest, versions, broken, holder, output, hand, work,
                   faults, asked, changes, ended, commits>>

AllWorkers(n, place) == [w \in Worker |-> IF w \in WorkersOf(n) THEN NoWork(place) ELSE work[w]]

\* Fault: main returns without wg.Wait().
Stopped_early(n) ==
    /\ node[n] = "stopping" /\ hand[n] = None
    /\ node' = [node EXCEPT ![n] = "down"]
    /\ work' = AllWorkers(n, "off")
    /\ UNCHANGED <<stores, hand, bounds, commits>>

\* close(jobs), wg.Wait() and the end of main.
Stopped(n) ==
    /\ node[n] = "stopping" /\ hand[n] = None
    /\ \A w \in WorkersOf(n) : work[w].pc = "idle"
    /\ node' = [node EXCEPT ![n] = "down"]
    /\ work' = AllWorkers(n, "off")
    /\ UNCHANGED <<stores, hand, bounds, commits>>

\* The process dies; Postgres rolls its transactions back.
Crash(n) ==
    /\ "crash" \in faults /\ node[n] # "down" /\ stops < MaxStops
    /\ node' = [node EXCEPT ![n] = "down"]
    /\ hand' = [hand EXCEPT ![n] = None]
    /\ work' = AllWorkers(n, "off")
    /\ holder' = [d \in Domain |-> IF holder[d] \in WorkersOf(n) THEN None ELSE holder[d]]
    /\ stops' = stops + 1
    /\ UNCHANGED <<input, web, latest, versions, broken, output, faults, asked, changes, risked,
                   ended, commits>>

Restart(n) ==
    /\ node[n] = "down"
    /\ node' = [node EXCEPT ![n] = "up"]
    /\ work' = AllWorkers(n, "idle")
    /\ UNCHANGED <<stores, hand, bounds, commits>>

-----------------------------------------------------------------------------
(* processJob and processPDFJob.                                           *)

Fetching(w, u) == [work EXCEPT ![w].pc = "try", ![w].url = u, ![w].attempt = 1]

\* What follows a document that is through: the next PDF, or the next job.
Through(w) ==
    IF work[w].url = work[w].job \/ work[w].pc = "target"
      THEN work' = [work EXCEPT ![w] = NoWork("idle")] /\ ended' = ended + 1
      ELSE work' = [work EXCEPT ![w].pc = "links", ![w].url = work[w].job] /\ UNCHANGED ended

\* The job goes on.
Go(then) == work' = then /\ UNCHANGED ended

\* getParseTarget and the choice between pages, PDFs and assets.
Target(w) ==
    /\ work[w].pc = "target" /\ ~Cancelled(w)
    /\ IF work[w].job \in Asset THEN Through(w) ELSE Go(Fetching(w, work[w].job))
    /\ UNCHANGED <<stores, node, hand, limits, commits>>

\* getParseTarget fails, as it does with a context that is done: the request is
\* dropped, and only the log tells of it.
TargetFails(w) ==
    /\ work[w].pc = "target" /\ ("postgres" \in faults \/ Cancelled(w))
    /\ Go([work EXCEPT ![w] = NoWork("idle")])
    /\ UNCHANGED <<stores, node, hand, limits, commits>>

\* withRetries looks at the context before each attempt.
Try(w) ==
    /\ work[w].pc = "try"
    /\ work' = [work EXCEPT ![w].pc = IF Cancelled(w) THEN "error" ELSE "fetch"]
    /\ UNCHANGED <<stores, node, hand, bounds, commits>>

\* renderer.Render and extractContent, or fetchAndParsePDF.
Fetch(w) ==
    LET u == work[w].url IN
    /\ work[w].pc = "fetch" /\ web[u] # Blank
    /\ work' = [work EXCEPT ![w].pc = "save", ![w].content = web[u]]
    /\ UNCHANGED <<stores, node, hand, bounds, commits>>

\* Fault: the attempts are not counted.
FetchFails_uncounted(w) ==
    /\ work[w].pc = "fetch"
    /\ "fetch" \in faults \/ Cancelled(w) \/ (work[w].url \in Pdf /\ web[work[w].url] = Blank)
    /\ work' = [work EXCEPT ![w].pc = "try"]
    /\ UNCHANGED <<stores, node, hand, bounds, commits>>

\* MaxRetries more attempts follow the first.  A PDF without text is tried
\* again.
FetchFails(w) ==
    /\ work[w].pc = "fetch"
    /\ "fetch" \in faults \/ Cancelled(w) \/ (work[w].url \in Pdf /\ web[work[w].url] = Blank)
    /\ work' = IF work[w].attempt <= MaxRetries
                 THEN [work EXCEPT ![w].pc = "try", ![w].attempt = @ + 1]
                 ELSE [work EXCEPT ![w].pc = "error"]
    /\ UNCHANGED <<stores, node, hand, bounds, commits>>

\* A page that renders but yields no text is not tried again.
ExtractFails(w) ==
    /\ work[w].pc = "fetch" /\ work[w].url \in Page /\ web[work[w].url] = Blank
    /\ work' = [work EXCEPT ![w].pc = "error"]
    /\ UNCHANGED <<stores, node, hand, bounds, commits>>

\* recordParseError: it waits for the row of the domain like a save does.
RecordError(w) ==
    LET u == work[w].url IN
    /\ work[w].pc = "error" /\ holder[DomainOf[u]] = None
    /\ broken' = IF latest[u] # None THEN broken \cup {u} ELSE broken
    /\ Through(w)
    /\ UNCHANGED <<input, web, latest, versions, holder, output, node, hand, limits, commits>>

RecordErrorFails(w) ==
    /\ work[w].pc = "error" /\ "postgres" \in faults
    /\ Through(w)
    /\ UNCHANGED <<stores, node, hand, limits, commits>>

-----------------------------------------------------------------------------
(* saveParsedPage.  Its first statement, upsertDomain, locks the row of    *)
(* the domain until the transaction ends.                                  *)

\* Fault: the content is read without a lock.
Save_unlocked(w) ==
    LET u == work[w].url IN
    /\ work[w].pc = "save"
    /\ work' = [work EXCEPT ![w].pc = "commit", ![w].seen = latest[u]]
    /\ UNCHANGED <<stores, node, hand, bounds, commits>>

\* upsertDomain, and the upsert of the document that returns its content.
Save(w) ==
    LET u == work[w].url IN
    /\ work[w].pc = "save" /\ holder[DomainOf[u]] = None
    /\ holder' = [holder EXCEPT ![DomainOf[u]] = w]
    /\ work' = [work EXCEPT ![w].pc = "commit", ![w].seen = latest[u]]
    /\ UNCHANGED <<input, web, latest, versions, broken, output, node, hand, bounds, commits>>

\* contentChanged
ContentChanged(w) == work[w].seen # work[w].content

\* The rest of the transaction up to its commit.
Committed(w) ==
    LET u == work[w].url  c == work[w].content IN
    /\ holder' = [holder EXCEPT ![DomainOf[u]] = None]
    /\ broken' = broken \ {u}
    /\ IF ContentChanged(w)
         THEN /\ latest' = [latest EXCEPT ![u] = c]
              /\ versions' = versions \cup {<<u, c>>}
              /\ commits' = Append(commits, <<u, c>>)
         ELSE UNCHANGED <<latest, versions, commits>>

\* Fault: a PDF that did not change ends the job it was found by.
Commit_endsJob(w) ==
    LET u == work[w].url  c == work[w].content IN
    /\ work[w].pc = "commit"
    /\ Committed(w)
    /\ CASE u \in Page -> Go([work EXCEPT ![w].pc = "links", ![w].links = PdfLinks[u],
                                         ![w].result = IF ContentChanged(w) THEN c ELSE None])
         [] u \in Pdf /\ ContentChanged(w)  -> Go([work EXCEPT ![w].pc = "push"])
         [] u \in Pdf /\ ~ContentChanged(w) -> work' = [work EXCEPT ![w] = NoWork("idle")] /\ ended' = ended + 1
    /\ UNCHANGED <<input, web, output, node, hand, limits>>

\* A page announces its new version after its PDFs, a PDF at once.
Commit(w) ==
    LET u == work[w].url  c == work[w].content IN
    /\ work[w].pc = "commit"
    /\ Committed(w)
    /\ CASE u \in Page -> Go([work EXCEPT ![w].pc = "links", ![w].links = PdfLinks[u],
                                         ![w].result = IF ContentChanged(w) THEN c ELSE None])
         [] u \in Pdf /\ ContentChanged(w)  -> Go([work EXCEPT ![w].pc = "push"])
         [] u \in Pdf /\ ~ContentChanged(w) -> Through(w)
    /\ UNCHANGED <<input, web, output, node, hand, limits>>

\* Fault: the transaction is left open.
SaveFails_open(w) ==
    /\ "postgres" \in faults /\ work[w].pc = "commit"
    /\ Through(w)
    /\ UNCHANGED <<stores, node, hand, limits, commits>>

\* Fault: a page that could not be saved is recorded as one that failed to parse.
SaveFails_recorded(w) ==
    /\ "postgres" \in faults /\ work[w].pc = "save"
    /\ Go([work EXCEPT ![w].pc = "error"])
    /\ UNCHANGED <<stores, node, hand, limits, commits>>

\* An error, before the commit or instead of the answer to it.
SaveFails(w) ==
    /\ "postgres" \in faults
    /\ \/ work[w].pc = "save" /\ UNCHANGED <<holder, broken, latest, versions, commits>>
       \/ /\ work[w].pc = "commit"
          /\ holder' = [holder EXCEPT ![DomainOf[work[w].url]] = None]
          /\ UNCHANGED <<broken, latest, versions, commits>>
       \/ work[w].pc = "commit" /\ Committed(w)
    /\ Through(w)
    /\ UNCHANGED <<input, web, output, node, hand, limits>>

\* extractPDFLinks: the PDFs of a page, changed or not, in this worker.
NextLink(w, u) ==
    /\ work[w].pc = "links" /\ u \in work[w].links
    /\ work' = [Fetching(w, u) EXCEPT ![w].links = @ \ {u}]
    /\ UNCHANGED <<stores, node, hand, bounds, commits>>

LinksDone(w) ==
    /\ work[w].pc = "links" /\ work[w].links = {}
    /\ IF work[w].result = None
         THEN Through(w)
         ELSE Go([work EXCEPT ![w].pc = "push", ![w].content = work[w].result])
    /\ UNCHANGED <<stores, node, hand, limits, commits>>

\* RPUSH parser:out
Push(w) ==
    /\ work[w].pc = "push" /\ ~Cancelled(w)
    /\ output' = Append(output, <<work[w].url, work[w].content>>)
    /\ Through(w)
    /\ UNCHANGED <<input, web, latest, versions, broken, holder, node, hand, limits, commits>>

\* An error is logged, whether or not the request reached the list.  Nothing
\* is sent once the context is done, but a call may be under way then.
PushFails(w) ==
    /\ work[w].pc = "push" /\ ("redis" \in faults \/ Cancelled(w))
    /\ \/ UNCHANGED output
       \/ output' = Append(output, <<work[w].url, work[w].content>>)
    /\ Through(w)
    /\ UNCHANGED <<input, web, latest, versions, broken, holder, node, hand, limits, commits>>

WorkerStep(w) ==
    \/ Target(w) \/ TargetFails(w)
    \/ Try(w) \/ Fetch(w) \/ FetchFails(w) \/ ExtractFails(w) \/ RecordError(w) \/ RecordErrorFails(w)
    \/ Save(w) \/ Commit(w) \/ SaveFails(w)
    \/ (\E u \in work[w].links : NextLink(w, u)) \/ LinksDone(w)
    \/ Push(w) \/ PushFails(w)

Dispatch(n) == Pop(n) \/ PopTimeout(n) \/ (\E w \in WorkersOf(n) : Give(w)) \/ Drop(n) \/ Stopped(n)

Next ==
    \/ \E u \in URL : Ask(u)
    \/ \E u \in Document, c \in Content \cup {Blank} : Edit(u, c)
    \/ \E n \in Node : Dispatch(n) \/ Stop(n) \/ Crash(n) \/ Restart(n)
    \/ \E w \in Worker : WorkerStep(w)

Spec == Init /\ [][Next]_vars

\* Attempts and transactions have time limits, Postgres grants a row lock
\* to those who wait for it, and docker-compose.yml restarts a process that
\* ends.
Fairness ==
    /\ \A w \in Worker : WF_vars(WorkerStep(w))
    /\ \A w \in Worker : SF_vars(Save(w) \/ RecordError(w))
    /\ \A n \in Node : WF_vars(Dispatch(n)) /\ WF_vars(Restart(n))
FairSpec == Spec /\ Fairness

-----------------------------------------------------------------------------
(* Properties.                                                             *)

Copies(v, s) == Cardinality({i \in DOMAIN s : s[i] = v})

\* The versions a worker has committed as changes and not announced yet, given
\* what it is doing.
Owes(k) ==
    (IF k.pc = "push" THEN {<<k.url, k.content>>} ELSE {})
      \cup (IF k.result # None THEN {<<k.job, k.result>>} ELSE {})

Announcing(v) == {w \in Worker : v \in Owes(work[w])}

\* As long as the stores do not fail and no replica is stopped, every change is
\* announced or its worker is still on the way to announcing it, also while
\* that worker fetches PDFs in between.
EveryChangeAnnounced ==
    faults \subseteq {"fetch", "stop"} /\ stops = 0 =>
        \A v \in Version : Copies(v, output) + Cardinality(Announcing(v)) = Copies(v, commits)

\* Whatever fails, the replicas together keep what VersionFeed promises the
\* vectorizer: every request on parser:out goes back to one change that
\* page_documents went through, and what is lost never comes back.
Feed == INSTANCE VersionFeed WITH
    Doc        <- Document,
    DocOf      <- [v \in Version |-> v[1]],
    latest     <- [u \in Document |-> IF latest[u] = None THEN None ELSE <<u, latest[u]>>],
    announcing <- [v \in Version |-> Cardinality(Announcing(v))],
    requests   <- output
RefinesFeed == Feed!Spec

\* Requests are kept nowhere while they are worked on.  A stop loses the one that
\* the dispatcher holds (main.go:132) or BRPOP is just taking, and those whose
\* workers are still asking for their URL (main.go:141), and no more: what was
\* looked up is run to its end, where Postgres gets a version or, also for an
\* attempt that the stop cut short, an error.
StopLosesFew ==
    LET offered == {n \in Node : hand[n] # None}
        busy    == {w \in Worker : work[w].job # None}
    IN  faults \subseteq {"fetch", "stop"} =>
            asked - (Len(input) + Cardinality(offered) + Cardinality(busy) + ended) \in 0 .. risked

\* last_error tells of the document and not of the parser: while pages can be
\* fetched and do not change none is marked, whatever fails when they are
\* saved.  That ends with the first stop, when attempts that are cut short are
\* recorded as failed (main.go:176, 319).
ErrorsFounded ==
    "fetch" \notin faults /\ changes = 0 /\ stops = 0 => broken = {}

\* A replica that gets SIGTERM comes to its end (main.go:135-137): no worker
\* waits for ever for a row another one holds, nor goes on retrying.
ShutsDown == \A n \in Node : node[n] = "stopping" ~> node[n] = "down"

\* Whatever fails, the requests are all taken and no worker hangs on one.
Drains ==
    <>[](/\ input = <<>> /\ \A n \in Node : hand[n] = None
         /\ \A w \in Worker : work[w].pc = "idle")

\* services/parser/README.md:3: the parser "stores document versions, and
\* emits `vectorize.request.v1`".  Once the workers are idle, the version a
\* document shows would then have been announced.
VersionAnnounced ==
    (\A w \in Worker : work[w].pc = "idle") =>
        \A u \in Document : latest[u] # None => \E i \in DOMAIN output : output[i] = <<u, latest[u]>>
=============================================================================
