------------------------------ MODULE Dashboard ------------------------------
(* The monitor's dashboard: one page of the browser, the requests it makes *)
(* of the FastAPI process, what that process keeps between requests (the   *)
(* history of queue lengths and one connection to Postgres), and the jobs  *)
(* and documents the numbers are about.  Of the three stages it shows the  *)
(* parser's is modelled; the others are computed in the same way.          *)
(*                                                                         *)
(* The connection is not in autocommit mode and nothing commits: its first *)
(* statement begins a transaction that never ends.  now() is the time of   *)
(* that statement from then on, while each statement sees the rows of its  *)
(* own time; and once a statement fails, all later ones do.                *)
EXTENDS Integers, Sequences, FiniteSets, SequencesExt

CONSTANTS Slot,         \* bound: requests the monitor works on at once
          Window,       \* recent_minutes
          Horizon,      \* how far back queue_drain_rate_per_min looks, 300 s
          Gap,          \* the least time between two samples, 1 s
          MaxSamples,   \* maxlen of queue_history, 120
          MaxTime,      \* bound: ticks of the clock, and
          ReplayTime,   \* bound: ticks of the clock when a page is replayed
          MaxJobs,      \* bound: jobs that are ever pushed
          None

ASSUME DashboardAssumption ==
    /\ {Window, Horizon, Gap, MaxSamples} \subseteq Nat \ {0}
    /\ {MaxTime, MaxJobs} \subseteq Nat /\ ReplayTime \in 0 .. MaxTime
    /\ None \notin Slot

VARIABLES
    clock,
    jobs,       \* length of mapper:out
    parsed,     \* last_parsed_at of the documents the parser made of jobs
    conn,       \* the connection: [ok, now], now is None before a statement
    samples,    \* state.queue_history: sequence of [ts, length]; `read` is when
                \* that was the length
    requests,   \* what the monitor is working on: [Slot -> request]
    page        \* the page in the browser

vars == <<clock, jobs, parsed, conn, samples, requests, page>>
world == <<clock, jobs, parsed>>
server == <<conn, samples>>

-----------------------------------------------------------------------------
(* What the numbers are computed from.                                     *)

\* now(), for a statement that is executed now.
Now == IF conn.now = None THEN clock ELSE conn.now

\* Fault: the connection reads one snapshot, as if it were REPEATABLE READ.
parser_done_snapshot == Cardinality({d \in DOMAIN parsed : parsed[d] \in Now - Window .. Now})

\* recent_count: a statement sees the rows of its own time, and counts those
\* from the Window before now() on.
parser_done == Cardinality({d \in DOMAIN parsed : parsed[d] >= Now - Window})

\* Rates are [jobs, ticks].
Still == [jobs |-> 0, ticks |-> 1]
AsFast(r, s) == r.jobs * s.ticks >= s.jobs * r.ticks
Fastest(rates) == CHOOSE r \in rates : \A s \in rates : AsFast(r, s)

\* The samples that are recent enough, by their places.
RecentSamples == {i \in DOMAIN samples : clock - samples[i].ts <= Horizon}

\* Fault: the time since the last sample is taken for the time since each.
queue_drain_rate_sinceLast(length) ==
    LET latest == Max(RecentSamples)
        fallen == {i \in RecentSamples : /\ i < latest /\ samples[i].length > length
                                         /\ clock > samples[latest].ts}
    IN  Fastest({Still} \cup {[jobs  |-> samples[i].length - length,
                               ticks |-> clock - samples[latest].ts] : i \in fallen})

\* queue_drain_rate_per_min: the best of the rates since the samples but the last.
queue_drain_rate(length) ==
    LET latest == Max(RecentSamples)
        fallen == {i \in RecentSamples : /\ i < latest /\ samples[i].length > length
                                         /\ samples[i].ts < samples[latest].ts}
    IN  Fastest({Still} \cup {[jobs  |-> samples[i].length - length,
                               ticks |-> samples[latest].ts - samples[i].ts] : i \in fallen})

-----------------------------------------------------------------------------

NoRequest == [at |-> "free", read |-> 0, length |-> 0, reads |-> "nothing"]

\* refreshInFlight is slot # None.  `action` is what the page knows of the
\* operator's replay, and `post` what the monitor has done about it.  Of what is
\* shown it matters whether it was read before or after the replay was pushed.
NewPage == [slot |-> None, queued |-> FALSE, ok |-> FALSE, shown |-> "nothing",
            action |-> "none", post |-> "none"]

Init ==
    /\ clock = 0 /\ jobs = 0 /\ parsed = <<>>
    /\ conn = [ok |-> TRUE, now |-> None]
    /\ samples = <<>>
    /\ requests = [s \in Slot |-> NoRequest]
    /\ page = NewPage

Tick ==
    /\ clock < IF page.action = "none" THEN MaxTime ELSE ReplayTime
    /\ clock' = clock + 1
    /\ UNCHANGED <<jobs, parsed, server, requests, page>>

\* The mapper pushes a parse request.
Push ==
    /\ jobs + Len(parsed) < MaxJobs
    /\ jobs' = jobs + 1
    /\ UNCHANGED <<clock, parsed, server, requests, page>>

\* The parser takes one and parses a document.
Parse ==
    /\ jobs > 0
    /\ jobs' = jobs - 1
    /\ parsed' = Append(parsed, clock)
    /\ UNCHANGED <<clock, server, requests, page>>

-----------------------------------------------------------------------------
(* The page.                                                               *)

\* refresh(): one at a time, and one more after it if it was called meanwhile.
\* A refresh asks for the dashboard, and for health, domains and runs, which use
\* the same connection.
Started(p, reqs, s) ==
    /\ reqs[s].at = "free"
    /\ page' = [p EXCEPT !.slot = s, !.queued = FALSE]
    /\ requests' = [reqs EXCEPT ![s] = [NoRequest EXCEPT !.at = "start"]]

Called(p) ==
    IF p.slot = None
      THEN \E s \in Slot : Started(p, requests, s)
      ELSE page' = [p EXCEPT !.queued = TRUE] /\ UNCHANGED requests

\* The timer, or the button.
Refresh == Called(page) /\ UNCHANGED <<world, conn, samples>>

\* The operator replays a page of a domain.
Replay ==
    /\ page.action = "none" /\ clock <= ReplayTime
    /\ page' = [page EXCEPT !.action = "asked", !.post = "sent"]
    /\ UNCHANGED <<world, conn, samples, requests>>

\* The page takes the answer as a reason to refresh ...
Replayed ==
    /\ page.action = "asked" /\ page.post = "pushed"
    /\ Called([page EXCEPT !.action = "answered"])
    /\ UNCHANGED <<world, conn, samples>>

\* ... but not an error, or that there was no answer for so long that fetchJSON
\* gave up: it shows that, and the monitor may still be at work on the replay.
ReplayFails ==
    /\ page.action = "asked"
    /\ page' = [page EXCEPT !.action = "failed"]
    /\ UNCHANGED <<world, conn, samples, requests>>

\* Fault: calls that came meanwhile are forgotten.
Ended_forgetful(p, reqs) ==
    page' = [p EXCEPT !.slot = None, !.queued = FALSE] /\ requests' = reqs

\* The end of refresh(), with what it renders: again if it was called meanwhile.
Ended(p, reqs) ==
    LET idle == [p EXCEPT !.slot = None]
    IN  IF p.queued THEN \E s \in Slot : Started(idle, reqs, s)
                    ELSE page' = idle /\ requests' = reqs

\* fetchJSON gives up after a while; the monitor goes on with the request.
GiveUp ==
    /\ page.slot # None
    /\ Ended([page EXCEPT !.ok = FALSE], requests)
    /\ UNCHANGED <<world, conn, samples>>

Browser == Refresh \/ Replay \/ Replayed \/ ReplayFails \/ GiveUp

-----------------------------------------------------------------------------
(* The monitor.  The end of a request is the end of the refresh that made  *)
(* it, unless the page has given it up.                                    *)

Freed(s) == [requests EXCEPT ![s] = NoRequest]
\* Fault: an answer is rendered whenever it comes.
Answered_late(s) ==
    LET rendered == [page EXCEPT !.shown = requests[s].reads, !.ok = TRUE]
    IN  IF s = page.slot THEN Ended(rendered, Freed(s))
                         ELSE requests' = Freed(s) /\ page' = rendered

Answered(s) ==
    IF s = page.slot THEN Ended([page EXCEPT !.shown = requests[s].reads, !.ok = TRUE], Freed(s))
                     ELSE requests' = Freed(s) /\ UNCHANGED page

Refused(s) ==
    IF s = page.slot THEN Ended([page EXCEPT !.ok = FALSE], Freed(s))
                     ELSE requests' = Freed(s) /\ UNCHANGED page

\* dashboard_payload: current_queue_lengths, from Redis, ...
ReadLengths(s) ==
    /\ requests[s].at = "start"
    /\ requests' = [requests EXCEPT ![s] = [at |-> "counted", read |-> clock, length |-> jobs,
                                            reads |-> IF page.post = "pushed" THEN "after" ELSE "before"]]
    /\ UNCHANGED <<world, server, page>>

\* The history with a sample that is taken now, unless there is one that is
\* hardly older.
Remembered(length, read) ==
    IF samples # <<>> /\ clock - Last(samples).ts < Gap THEN samples
    ELSE LET all == Append(samples, [ts |-> clock, length |-> length, read |-> read])
         IN  IF Len(all) > MaxSamples THEN Tail(all) ELSE all

\* ... and remember_queue_lengths.
Remember(s) ==
    /\ requests[s].at = "counted"
    /\ samples' = Remembered(requests[s].length, requests[s].read)
    /\ requests' = [requests EXCEPT ![s].at = "read"]
    /\ UNCHANGED <<world, conn, page>>

RedisFails(s) ==
    /\ requests[s].at = "start"
    /\ Refused(s)
    /\ UNCHANGED <<world, conn, samples>>

\* The rest of it: the counts, recent_count, and the rates.  The other requests of
\* the refresh are answered, too.
Answer(s) ==
    /\ requests[s].at = "read" /\ conn.ok
    /\ Answered(s)
    /\ conn' = [conn EXCEPT !.now = Now]
    /\ UNCHANGED <<world, samples>>

\* A statement fails, of this request or of the others of the refresh, because
\* an earlier one has failed or the connection is lost, or for a reason of its
\* own, and from then on no statement succeeds.
StatementFails(s) ==
    /\ requests[s].at # "free"
    /\ Refused(s)
    /\ conn' = [ok |-> FALSE, now |-> None]
    /\ UNCHANGED <<world, samples>>

\* replay_urls
PushReplay ==
    /\ page.post = "sent" /\ conn.ok /\ jobs + Len(parsed) < MaxJobs
    /\ jobs' = jobs + 1
    /\ conn' = [conn EXCEPT !.now = Now]
    /\ page' = [page EXCEPT !.post = "pushed"]
    /\ UNCHANGED <<clock, parsed, samples, requests>>

\* A statement fails, or the RPUSH.
PushReplayFails ==
    /\ page.post = "sent"
    /\ page' = [page EXCEPT !.post = "gone"]
    /\ conn' \in {conn, [ok |-> FALSE, now |-> None]}
    /\ UNCHANGED <<world, samples, requests>>

\* What was sent and not pushed never will be.
Forgotten(p) == [p EXCEPT !.post = IF @ = "sent" THEN "gone" ELSE @]

\* The monitor is restarted, and forgets what it was working on; the page's
\* request fails.
Restart ==
    /\ conn' = [ok |-> TRUE, now |-> None]
    /\ samples' = <<>>
    /\ LET none == [s \in Slot |-> NoRequest]
       IN  IF page.slot # None THEN Ended([Forgotten(page) EXCEPT !.ok = FALSE], none)
                               ELSE requests' = none /\ page' = Forgotten(page)
    /\ UNCHANGED world

Monitor(s) == ReadLengths(s) \/ Remember(s) \/ RedisFails(s) \/ Answer(s) \/ StatementFails(s)

Next ==
    \/ Tick \/ Push \/ Parse
    \/ Browser \/ (\E s \in Slot : Monitor(s)) \/ PushReplay \/ PushReplayFails \/ Restart

Spec == Init /\ [][Next]_vars

-----------------------------------------------------------------------------
(* Properties.                                                             *)

\* The type invariant.
Request == [at : {"free", "start", "counted", "read"}, read : Nat, length : Nat,
            reads : {"nothing", "before", "after"}]
Page == [slot : Slot \cup {None}, queued : BOOLEAN, ok : BOOLEAN,
         shown : {"nothing", "before", "after"},
         action : {"none", "asked", "answered", "failed"},
         post : {"none", "sent", "pushed", "gone"}]

TypeOK ==
    /\ clock \in 0 .. MaxTime /\ jobs \in Nat
    /\ parsed \in Seq(Nat) /\ (\A d \in DOMAIN parsed : parsed[d] <= clock)
    /\ jobs + Len(parsed) <= MaxJobs
    /\ conn \in [ok : BOOLEAN, now : {None} \cup 0 .. clock]
    /\ samples \in Seq([ts : Nat, length : Nat, read : Nat]) /\ Len(samples) <= MaxSamples
    /\ requests \in [Slot -> Request]
    /\ page \in Page /\ (page.queued => page.slot # None)

\* Requests that can be answered now, and so the states their numbers are taken
\* from: the counts and rates are not kept in a variable.
Answerable == {s \in Slot : requests[s].at = "read" /\ conn.ok}

\* What was parsed in the last Window.
Recent == {d \in DOMAIN parsed : parsed[d] >= clock - Window}

\* The parser's recent work is never shown as less than it is, however long the
\* monitor has run, because the transaction's now() can only be early
\* (services.py:74).  It is shown as more: all that was done since the first
\* statement counts as work of the last ten minutes.
RecentCovers == Answerable # {} => parser_done >= Cardinality(Recent)

\* The drain rate is real.  The jobs it counts were taken, in a period up to the
\* reading that is longer than the one it divides by only by less than a Gap, as
\* the length is the present one but the period ends with the last sample
\* (services.py:102), and by the time for which a length waited until it was put
\* down as a sample with a later date (services.py:91, 96).  It is not real when a
\* sample was taken after the reading: a queue that only grew is then shown as
\* being drained.
RateFounded ==
    \A s \in Answerable :
        LET r == requests[s]
            rate == queue_drain_rate(r.length)
            InLast(n) == Cardinality({i \in DOMAIN parsed : parsed[i] \in r.read - n .. r.read})
        IN  rate # Still /\ Last(samples).ts <= r.read =>
              \E i \in DOMAIN samples :
                \E n \in rate.ticks .. rate.ticks + (samples[i].ts - samples[i].read) + Gap - 1 :
                    InLast(n) >= rate.jobs

\* When the page has come to rest after an operator's replay and shows no error,
\* neither of the replay nor of a refresh, its numbers were read after the replay,
\* although the refresh that the replay asked for may have met one that was
\* already under way (ui.py:451).  Of a replay that timed out the page shows an
\* error and does not refresh for it (ui.py:526), although it may have been pushed
\* or still be: its numbers then come with the next refresh of the timer.
OwnActionShown ==
    page.action = "answered" /\ page.slot = None /\ page.ok => page.shown = "after"

\* The page never goes back to older numbers, although requests it has given up
\* are answered later than those it made after them.
NeverOlder ==
    [][\A numbers \in {"before", "after"} :
        page.shown = numbers => page'.shown \in {numbers, "after"}]_page
=============================================================================
