--------------------------- MODULE Dashboard_proofs ---------------------------
(***************************************************************************)
(* Theorems about Dashboard, for any number of requests at once, any       *)
(* length of the history, and any period the numbers are about.            *)
(***************************************************************************)
EXTENDS Dashboard, FiniteSetTheorems, SequenceTheorems, WellFoundedInduction, TLAPS

(***************************************************************************)
(* Types.                                                                  *)
(***************************************************************************)

LEMMA Constants == Gap \in Nat /\ MaxSamples \in Nat \ {0} /\ Window \in Nat /\ MaxTime \in Nat
                   /\ ReplayTime \in 0 .. MaxTime /\ MaxJobs \in Nat /\ None \notin Slot
  BY DashboardAssumption

LEMMA NewTypes == NoRequest \in Request /\ NewPage \in Page
  BY DEF NoRequest, Request, NewPage, Page

LEMMA TypeInit == Init => TypeOK
  <1> SUFFICES ASSUME Init PROVE TypeOK
    OBVIOUS
  <1>1. clock \in 0 .. MaxTime /\ jobs \in Nat /\ jobs + Len(parsed) <= MaxJobs
    BY Constants DEF Init
  <1>2. parsed \in Seq(Nat) /\ (\A d \in DOMAIN parsed : parsed[d] <= clock)
    BY DEF Init
  <1>3. samples \in Seq([ts : Nat, length : Nat, read : Nat]) /\ Len(samples) <= MaxSamples
    BY Constants DEF Init
  <1>4. conn \in [ok : BOOLEAN, now : {None} \cup 0 .. clock]
    BY DEF Init
  <1>5. requests \in [Slot -> Request] /\ page \in Page /\ ~page.queued
    BY NewTypes DEF Init, NewPage
  <1> QED
    BY <1>1, <1>2, <1>3, <1>4, <1>5 DEF TypeOK

\* The page and the requests after a refresh was asked for or has come to an end.
PageType == requests \in [Slot -> Request] /\ page \in Page /\ (page.queued => page.slot # None)

LEMMA StartedType ==
    ASSUME NEW p \in Page, NEW reqs \in [Slot -> Request], NEW s \in Slot, Started(p, reqs, s)
    PROVE  PageType'
  <1>1. [NoRequest EXCEPT !.at = "start"] \in Request
    BY DEF NoRequest, Request
  <1>2. requests' \in [Slot -> Request]
    BY <1>1 DEF Started
  <1>3. page' \in Page /\ page'.slot = s /\ ~page'.queued
    BY DEF Started, Page
  <1> QED
    BY <1>2, <1>3 DEF PageType

LEMMA CalledType ==
    ASSUME PageType, NEW p \in Page, p.slot = page.slot, Called(p)
    PROVE  PageType'
  <1>1. CASE p.slot = None
    BY <1>1, StartedType DEF Called, PageType
  <1>2. CASE p.slot # None
    <2>1. page' = [p EXCEPT !.queued = TRUE] /\ requests' = requests
      BY <1>2 DEF Called
    <2>2. page' \in Page /\ page'.slot # None
      BY <1>2, <2>1 DEF Page
    <2> QED
      BY <2>1, <2>2 DEF PageType
  <1> QED
    BY <1>1, <1>2

LEMMA EndedType ==
    ASSUME NEW p \in Page, NEW reqs \in [Slot -> Request], Ended(p, reqs)
    PROVE  PageType'
  <1>1. [p EXCEPT !.slot = None] \in Page
    BY DEF Page
  <1>2. CASE p.queued
    BY <1>1, <1>2, StartedType DEF Ended
  <1>3. CASE ~p.queued
    <2>1. page' = [p EXCEPT !.slot = None] /\ requests' = reqs
      BY <1>3 DEF Ended
    <2>2. ~page'.queued
      BY <1>3, <2>1 DEF Page
    <2> QED
      BY <1>1, <2>1, <2>2 DEF PageType
  <1> QED
    BY <1>2, <1>3

LEMMA AnsweredType ==
    ASSUME PageType, NEW s \in Slot, Answered(s) \/ Refused(s)
    PROVE  PageType'
  <1>1. Freed(s) \in [Slot -> Request]
    BY NewTypes DEF Freed, PageType
  <1>2. /\ [page EXCEPT !.shown = requests[s].reads, !.ok = TRUE] \in Page
        /\ [page EXCEPT !.ok = FALSE] \in Page
    BY DEF PageType, Page, Request
  <1>3. CASE s = page.slot
    BY <1>1, <1>2, <1>3, EndedType DEF Answered, Refused
  <1>4. CASE s # page.slot
    BY <1>1, <1>4 DEF Answered, Refused, PageType
  <1> QED
    BY <1>3, <1>4

LEMMA RememberedType ==
    ASSUME TypeOK, NEW length \in Nat, NEW read \in Nat
    PROVE  /\ Remembered(length, read) \in Seq([ts : Nat, length : Nat, read : Nat])
           /\ Len(Remembered(length, read)) <= MaxSamples
  <1> DEFINE S == [ts : Nat, length : Nat, read : Nat]
             sample == [ts |-> clock, length |-> length, read |-> read]
             all == Append(samples, sample)
  <1>1. sample \in S /\ samples \in Seq(S) /\ Len(samples) <= MaxSamples /\ Len(samples) \in Nat
    BY DEF TypeOK
  <1>2. /\ Remembered(length, read) \in {samples, all, Tail(all)}
        /\ Remembered(length, read) = all => Remembered(length, read) = samples \/ ~(Len(all) > MaxSamples)
    BY DEF Remembered
  <1> HIDE DEF S, sample
  <1>3. all \in Seq(S) /\ Len(all) = Len(samples) + 1 /\ all # <<>>
    BY <1>1, AppendProperties
  <1> HIDE DEF all
  <1>4. Tail(all) \in Seq(S) /\ Len(Tail(all)) = Len(samples)
    BY <1>1, <1>3, HeadTailProperties
  <1>5. Remembered(length, read) \in Seq(S) /\ Len(Remembered(length, read)) <= MaxSamples
    <2>1. CASE Remembered(length, read) = samples
      BY <1>1, <2>1
    <2>2. CASE Remembered(length, read) = Tail(all)
      BY <1>1, <1>4, <2>2
    <2>3. CASE Remembered(length, read) = all /\ ~(Len(all) > MaxSamples)
      BY <1>1, <1>3, <2>3, Constants
    <2> QED
      BY <1>2, <2>1, <2>2, <2>3
  <1> QED
    BY <1>5 DEF S

\* now() never runs ahead of the clock.
LEMMA NowType ==
    ASSUME TypeOK
    PROVE  Now \in 0 .. clock /\ [conn EXCEPT !.now = Now] \in [ok : BOOLEAN, now : {None} \cup 0 .. clock]
           /\ \A b \in BOOLEAN : [ok |-> b, now |-> None] \in [ok : BOOLEAN, now : {None} \cup 0 .. clock]
  <1>1. Now \in 0 .. clock
    BY DEF TypeOK, Now
  <1> QED
    BY <1>1 DEF TypeOK

LEMMA WorldType ==
    ASSUME TypeOK, Tick \/ Push \/ Parse
    PROVE  TypeOK'
  <1> USE DEF TypeOK, world, server
  <1>1. CASE Tick
    <2>1. clock \in Nat /\ clock' = clock + 1 /\ clock' \in 0 .. MaxTime
      BY <1>1, Constants DEF Tick
    <2>2. \A d \in DOMAIN parsed' : parsed'[d] <= clock'
      <3> SUFFICES ASSUME NEW d \in DOMAIN parsed PROVE parsed[d] <= clock + 1
        BY <1>1, <2>1 DEF Tick
      <3>1. parsed[d] \in Nat
        BY ElementOfSeq
      <3> QED
        BY <2>1, <3>1
    <2>3. conn' \in [ok : BOOLEAN, now : {None} \cup 0 .. clock']
      BY <1>1, <2>1 DEF Tick
    <2> QED
      BY <1>1, <2>1, <2>2, <2>3 DEF Tick
  <1>2. CASE Push
    <2>1. jobs' = jobs + 1 /\ UNCHANGED <<clock, parsed, conn, samples, requests, page>>
      BY <1>2 DEF Push
    <2>2. jobs' \in Nat /\ jobs' + Len(parsed) <= MaxJobs
      <3>1. Len(parsed) \in Nat /\ jobs + Len(parsed) < MaxJobs /\ jobs \in Nat
        BY <1>2 DEF Push
      <3> QED
        BY <2>1, <3>1, Constants
    <2> QED
      BY <2>1, <2>2
  <1>3. CASE Parse
    <2>1. clock \in Nat /\ parsed' \in Seq(Nat) /\ Len(parsed') = Len(parsed) + 1
          /\ Len(parsed) \in Nat /\ parsed' = Append(parsed, clock)
      BY <1>3, AppendProperties DEF Parse
    <2>2. \A d \in DOMAIN parsed' : parsed'[d] <= clock
      BY SMTT(30), <2>1, AppendProperties
    <2> QED
      BY <1>3, <2>1, <2>2 DEF Parse
  <1> QED
    BY <1>1, <1>2, <1>3

LEMMA BrowserType ==
    ASSUME TypeOK, Browser
    PROVE  TypeOK'
  <1>1. PageType
    BY DEF TypeOK, PageType
  <1>2. ASSUME PageType', UNCHANGED <<world, conn, samples>> PROVE TypeOK'
    BY <1>2 DEF TypeOK, PageType, world
  <1>3. CASE Refresh
    BY <1>1, <1>2, <1>3, CalledType DEF Refresh, PageType
  <1>4. CASE Replay \/ ReplayFails
    <2>1. page' \in Page /\ page'.slot = page.slot /\ page'.queued = page.queued
      BY <1>1, <1>4 DEF Replay, ReplayFails, PageType, Page
    <2> QED
      BY <1>1, <1>2, <1>4, <2>1 DEF Replay, ReplayFails, PageType
  <1>5. CASE Replayed
    <2> DEFINE p == [page EXCEPT !.action = "answered"]
    <2>1. p \in Page /\ p.slot = page.slot
      BY <1>1 DEF PageType, Page
    <2> QED
      BY <1>1, <1>2, <1>5, <2>1, CalledType DEF Replayed
  <1>6. CASE GiveUp
    <2>1. [page EXCEPT !.ok = FALSE] \in Page
      BY <1>1 DEF PageType, Page
    <2> QED
      BY <1>1, <1>2, <1>6, <2>1, EndedType DEF GiveUp, PageType
  <1> QED
    BY <1>3, <1>4, <1>5, <1>6 DEF Browser

LEMMA MonitorType ==
    ASSUME TypeOK, (\E s \in Slot : Monitor(s)) \/ PushReplay \/ PushReplayFails \/ Restart
    PROVE  TypeOK'
  <1>1. PageType
    BY DEF TypeOK, PageType
  <1>2. ASSUME PageType', UNCHANGED <<world, samples>>,
               conn' \in [ok : BOOLEAN, now : {None} \cup 0 .. clock]
        PROVE  TypeOK'
    BY <1>2 DEF TypeOK, PageType, world
  <1>3. conn \in [ok : BOOLEAN, now : {None} \cup 0 .. clock]
    BY DEF TypeOK
  <1>4. ASSUME NEW s \in Slot, Monitor(s) PROVE TypeOK'
    <2>1. CASE ReadLengths(s)
      <3>1. [at |-> "counted", read |-> clock, length |-> jobs,
             reads |-> IF page.post = "pushed" THEN "after" ELSE "before"] \in Request
        BY DEF TypeOK, Request
      <3>2. requests' \in [Slot -> Request]
        BY <2>1, <3>1 DEF ReadLengths, TypeOK
      <3> QED
        BY <2>1, <3>2 DEF ReadLengths, TypeOK, world, server
    <2>5. CASE Remember(s)
      <3>1. requests[s] \in Request
        BY DEF TypeOK
      <3>2. requests[s].length \in Nat /\ requests[s].read \in Nat
            /\ [requests[s] EXCEPT !.at = "read"] \in Request
        BY <3>1 DEF Request
      <3>3. /\ samples' \in Seq([ts : Nat, length : Nat, read : Nat])
            /\ Len(samples') <= MaxSamples
        BY <2>5, <3>2, RememberedType DEF Remember
      <3>4. requests' = [requests EXCEPT ![s] = [requests[s] EXCEPT !.at = "read"]]
        BY <2>5 DEF Remember
      <3>5. requests' \in [Slot -> Request]
        BY <3>2, <3>4 DEF TypeOK
      <3> QED
        BY <2>5, <3>3, <3>5 DEF Remember, TypeOK, world
    <2>2. CASE RedisFails(s)
      BY <1>1, <1>2, <1>3, <2>2, AnsweredType DEF RedisFails
    <2>3. CASE Answer(s)
      BY <1>1, <1>2, <2>3, AnsweredType, NowType DEF Answer
    <2>4. CASE StatementFails(s)
      BY <1>1, <1>2, <2>4, AnsweredType, NowType DEF StatementFails
    <2> QED
      BY <1>4, <2>1, <2>2, <2>3, <2>4, <2>5 DEF Monitor
  <1>5. CASE Restart
    <2> DEFINE none == [s \in Slot |-> NoRequest]
               left == Forgotten(page)
    <2>1. none \in [Slot -> Request] /\ left \in Page /\ [left EXCEPT !.ok = FALSE] \in Page
          /\ left.slot = page.slot /\ left.queued = page.queued
      BY <1>1, NewTypes DEF PageType, Page, Forgotten
    <2>2. PageType'
      <3>1. CASE page.slot # None
        BY <1>5, <2>1, <3>1, EndedType DEF Restart
      <3>2. CASE page.slot = None
        BY <1>1, <1>5, <2>1, <3>2 DEF Restart, PageType
      <3> QED
        BY <3>1, <3>2
    <2>3. samples' = <<>> /\ conn' = [ok |-> TRUE, now |-> None] /\ UNCHANGED world
      BY <1>5 DEF Restart
    <2> QED
      BY <2>2, <2>3, NowType, Constants DEF TypeOK, PageType, world
  <1>6. CASE PushReplay
    <2>1. page' \in Page /\ page'.slot = page.slot /\ page'.queued = page.queued
      BY <1>1, <1>6 DEF PushReplay, PageType, Page
    <2>2. jobs' \in Nat /\ jobs' + Len(parsed) <= MaxJobs
      BY <1>6, Constants DEF PushReplay, TypeOK
    <2> QED
      BY <1>1, <1>6, <2>1, <2>2, NowType DEF PushReplay, TypeOK
  <1>7. CASE PushReplayFails
    <2>1. page' \in Page /\ page'.slot = page.slot /\ page'.queued = page.queued
      BY <1>1, <1>7 DEF PushReplayFails, PageType, Page
    <2>2. conn' \in [ok : BOOLEAN, now : {None} \cup 0 .. clock]
      BY <1>3, <1>7, NowType DEF PushReplayFails
    <2> QED
      BY <1>1, <1>2, <1>7, <2>1, <2>2 DEF PushReplayFails, PageType
  <1> QED
    BY <1>4, <1>5, <1>6, <1>7

LEMMA TypeStep == TypeOK /\ [Next]_vars => TypeOK'
  <1> SUFFICES ASSUME TypeOK, [Next]_vars PROVE TypeOK'
    OBVIOUS
  <1>1. CASE UNCHANGED vars
    BY <1>1 DEF TypeOK, vars, world, server
  <1> QED
    BY <1>1, WorldType, BrowserType, MonitorType DEF Next

\* The history keeps to its length (state.py: deque with a maxlen), only a
\* refresh that is under way can be asked to run again, and now() is never late.
THEOREM TypeCorrect == Spec => []TypeOK
  BY TypeInit, TypeStep, PTL DEF Spec

(***************************************************************************)
(* What is counted.                                                        *)
(***************************************************************************)

\* For any number of minutes the count of the parser's recent work contains the
\* documents parsed in them, whenever the connection was opened: the transaction
\* it left open (app.py:26) makes now() early and never late.
THEOREM RecentShown == Spec => []RecentCovers
  <1>1. TypeOK => RecentCovers
    <2> SUFFICES ASSUME TypeOK PROVE parser_done >= Cardinality(Recent)
      BY DEF RecentCovers
    <2> DEFINE counted == {d \in DOMAIN parsed : parsed[d] >= Now - Window}
    <2>1. Now \in 0 .. clock /\ clock \in Nat /\ Window \in Nat
      BY NowType, Constants DEF TypeOK
    <2>2. Recent \subseteq counted
      <3> SUFFICES ASSUME NEW d \in Recent PROVE d \in counted
        OBVIOUS
      <3>1. d \in DOMAIN parsed /\ parsed[d] \in Nat /\ parsed[d] >= clock - Window
        BY ElementOfSeq DEF TypeOK, Recent
      <3> QED
        BY <2>1, <3>1
    <2>3. IsFiniteSet(counted)
      <3>1. DOMAIN parsed = 1 .. Len(parsed) /\ Len(parsed) \in Nat
        BY DEF TypeOK
      <3>2. IsFiniteSet(DOMAIN parsed)
        BY <3>1, FS_Interval
      <3> QED
        BY <3>2, FS_Subset
    <2>4. Cardinality(Recent) <= Cardinality(counted) /\ Cardinality(Recent) \in Nat
            /\ Cardinality(counted) \in Nat
      BY <2>2, <2>3, FS_Subset, FS_CardinalityType
    <2> QED
      BY <2>4 DEF parser_done
  <1> QED
    BY <1>1, TypeCorrect, PTL

(***************************************************************************)
(* What the page shows.                                                    *)
(***************************************************************************)

\* A request that is not through yet, or that has read after the replay.
Later(request) == request.at = "start" \/ request.reads = "after"

\* The replay has reached the queue.
Acted(p) == p.post = "pushed"

\* What is shown since the replay, and what was read since, was read after it.
Read(p, reqs) ==
    /\ p.action = "none" => p.post = "none"
    /\ p.action = "answered" => Acted(p)
    /\ p.shown = "after" => Acted(p)
    /\ \A s \in Slot : /\ reqs[s].at \in {"counted", "read"} => reqs[s].reads \in {"before", "after"}
                       /\ reqs[s].reads = "after" => Acted(p)

\* The refresh the page waits for will not bring older numbers than it shows, and
\* the last one since the replay brings later ones.
Awaited(p, reqs) ==
    /\ p.shown = "after" /\ p.slot # None => Later(reqs[p.slot])
    /\ p.action = "answered" =>
          IF p.slot = None THEN p.ok => p.shown = "after" ELSE p.queued \/ Later(reqs[p.slot])

ShownInv == Read(page, requests) /\ Awaited(page, requests)

LEMMA StartedShown ==
    ASSUME NEW p \in Page, NEW reqs \in [Slot -> Request], Read(p, reqs),
           NEW s \in Slot, Started(p, reqs, s)
    PROVE  Read(page', requests') /\ Awaited(page', requests')
  <1>1. /\ page' \in Page /\ page'.slot = s /\ page'.shown = p.shown
        /\ page'.post = p.post /\ page'.action = p.action
    BY DEF Started, Page
  <1>2. /\ requests'[s].at = "start" /\ requests'[s].reads = "nothing"
        /\ \A t \in Slot \ {s} : requests'[t] = reqs[t]
    BY DEF Started, NoRequest
  <1>3. Read(page', requests')
    BY <1>1, <1>2 DEF Read, Acted
  <1>4. Later(requests'[page'.slot]) /\ page'.slot # None
    BY <1>1, <1>2, Constants DEF Later
  <1> QED
    BY <1>3, <1>4 DEF Awaited

LEMMA CalledShown ==
    ASSUME TypeOK, NEW p \in Page, p.slot = page.slot, p.shown = page.shown,
           Read(p, requests), page.shown = "after" /\ page.slot # None => Later(requests[page.slot]),
           Called(p)
    PROVE  Read(page', requests') /\ Awaited(page', requests')
  <1>1. requests \in [Slot -> Request]
    BY DEF TypeOK
  <1>2. CASE p.slot = None
    BY <1>1, <1>2, StartedShown DEF Called
  <1>3. CASE p.slot # None
    <2>1. page' = [p EXCEPT !.queued = TRUE] /\ requests' = requests
      BY <1>3 DEF Called
    <2>2. /\ page'.queued /\ page'.slot = p.slot /\ page'.shown = p.shown
          /\ page'.post = p.post /\ page'.action = p.action
      BY <2>1 DEF Page
    <2> QED
      BY <1>3, <2>1, <2>2 DEF Read, Awaited, Acted
  <1> QED
    BY <1>2, <1>3

LEMMA EndedShown ==
    ASSUME NEW p \in Page, NEW reqs \in [Slot -> Request], Read(p, reqs),
           p.action = "answered" /\ ~p.queued => (p.ok => p.shown = "after"), Ended(p, reqs)
    PROVE  Read(page', requests') /\ Awaited(page', requests')
  <1> DEFINE idle == [p EXCEPT !.slot = None]
  <1>1. /\ idle \in Page /\ idle.slot = None /\ idle.shown = p.shown /\ idle.ok = p.ok
        /\ idle.post = p.post /\ idle.action = p.action
    BY DEF Page
  <1>2. Read(idle, reqs)
    BY <1>1 DEF Read, Acted
  <1>3. CASE p.queued
    <2>1. PICK s \in Slot : Started(idle, reqs, s)
      BY <1>3 DEF Ended
    <2> HIDE DEF idle
    <2> QED
      BY <1>1, <1>2, <2>1, StartedShown
  <1>4. CASE ~p.queued
    <2>1. page' = idle /\ requests' = reqs
      BY <1>4 DEF Ended
    <2> HIDE DEF idle
    <2> QED
      BY <1>1, <1>2, <1>4, <2>1 DEF Awaited
  <1> QED
    BY <1>3, <1>4

\* An answer, or an error, for the page or for nobody any more.
LEMMA AnsweredShown ==
    ASSUME TypeOK, ShownInv, NEW s \in Slot,
           (requests[s].at = "read" /\ Answered(s)) \/ Refused(s)
    PROVE  ShownInv'
  <1> SUFFICES Read(page', requests') /\ Awaited(page', requests')
    BY DEF ShownInv
  <1>1. requests \in [Slot -> Request] /\ page \in Page /\ Freed(s) \in [Slot -> Request]
    BY NewTypes DEF TypeOK, Freed
  <1>2. Freed(s)[s].at = "free" /\ Freed(s)[s].reads = "nothing"
        /\ \A t \in Slot \ {s} : Freed(s)[t] = requests[t]
    BY <1>1 DEF Freed, NoRequest
  <1>3. Read(page, Freed(s))
    BY <1>2 DEF ShownInv, Read
  <1>4. CASE s # page.slot
    <2>1. page' = page /\ requests' = Freed(s)
      BY <1>4 DEF Answered, Refused
    <2>2. page.slot # None => page.slot \in Slot \ {s}
      BY <1>1, <1>4 DEF Page
    <2> QED
      BY <1>2, <1>3, <2>1, <2>2 DEF ShownInv, Awaited
  <1>5. CASE s = page.slot /\ Refused(s)
    <2> DEFINE p == [page EXCEPT !.ok = FALSE]
    <2>1. p \in Page /\ ~p.ok /\ p.shown = page.shown /\ p.post = page.post /\ p.action = page.action
      BY <1>1 DEF Page
    <2>2. Ended(p, Freed(s))
      BY <1>5 DEF Refused
    <2>3. Read(p, Freed(s))
      BY <1>3, <2>1 DEF Read, Acted
    <2> HIDE DEF p
    <2> QED
      BY <1>1, <2>1, <2>2, <2>3, EndedShown
  <1>6. CASE s = page.slot /\ requests[s].at = "read" /\ Answered(s)
    <2> DEFINE p == [page EXCEPT !.shown = requests[s].reads, !.ok = TRUE]
    <2>1. /\ p \in Page /\ p.shown = requests[s].reads /\ p.queued = page.queued
          /\ p.post = page.post /\ p.action = page.action
      BY <1>1 DEF Page, Request
    <2>2. Ended(p, Freed(s))
      BY <1>6 DEF Answered
    <2>3. requests[s].reads = "after" => Acted(page)
      BY DEF ShownInv, Read
    <2>4. Read(p, Freed(s))
      BY <1>3, <2>1, <2>3 DEF Read, Acted
    <2>5. page.slot # None
      BY <1>6, Constants
    <2>6. p.action = "answered" /\ ~p.queued => p.shown = "after"
      BY <1>6, <2>1, <2>5 DEF ShownInv, Awaited, Later
    <2> HIDE DEF p
    <2> QED
      BY <1>1, <2>1, <2>2, <2>4, <2>6, EndedShown
  <1> QED
    BY <1>4, <1>5, <1>6

LEMMA ShownStep == TypeOK /\ ShownInv /\ [Next]_vars => ShownInv'
  <1> SUFFICES ASSUME TypeOK, ShownInv, [Next]_vars PROVE ShownInv'
    OBVIOUS
  <1> USE DEF ShownInv, Acted
  <1>1. requests \in [Slot -> Request] /\ page \in Page
    BY DEF TypeOK
  <1>2. CASE UNCHANGED vars \/ Tick \/ Push \/ Parse
    BY <1>2 DEF vars, Tick, Push, Parse
  <1>3. CASE Refresh
    BY <1>1, <1>3, CalledShown DEF Refresh, Awaited
  <1>4. CASE Replay
    <2>1. /\ page'.action = "asked" /\ page'.post = "sent" /\ page'.shown = page.shown
          /\ page'.slot = page.slot /\ requests' = requests /\ page.post = "none"
      BY <1>1, <1>4 DEF Replay, Page, Read
    <2> QED
      BY <2>1 DEF Read, Awaited
  <1>5. CASE Replayed
    <2> DEFINE p == [page EXCEPT !.action = "answered"]
    <2>1. /\ p \in Page /\ p.slot = page.slot /\ p.shown = page.shown /\ p.post = page.post
          /\ p.action = "answered"
      BY <1>1 DEF Page
    <2>2. Read(p, requests) /\ Called(p)
      BY <1>5, <2>1 DEF Read, Replayed
    <2> HIDE DEF p
    <2> QED
      BY <2>1, <2>2, CalledShown DEF Awaited
  <1>10. CASE ReplayFails
    <2>1. /\ page'.action = "failed" /\ page'.post = page.post /\ page'.shown = page.shown
          /\ page'.slot = page.slot /\ requests' = requests
      BY <1>1, <1>10 DEF ReplayFails, Page
    <2> QED
      BY <2>1 DEF Read, Awaited
  <1>11. CASE PushReplay \/ PushReplayFails
    <2>1. /\ page'.post \in {"pushed", "gone"} /\ page.post = "sent" /\ page'.action = page.action
          /\ page'.shown = page.shown /\ page'.slot = page.slot /\ requests' = requests
      BY <1>1, <1>11 DEF PushReplay, PushReplayFails, Page
    <2>2. page.action \notin {"none", "answered"}
      BY <2>1 DEF Read
    <2> QED
      BY <2>1, <2>2 DEF Read, Awaited
  <1>6. CASE GiveUp
    <2> DEFINE p == [page EXCEPT !.ok = FALSE]
    <2>1. p \in Page /\ ~p.ok /\ p.shown = page.shown /\ p.post = page.post /\ p.action = page.action
      BY <1>1 DEF Page
    <2>2. Read(p, requests) /\ Ended(p, requests)
      BY <1>6, <2>1 DEF Read, GiveUp
    <2> HIDE DEF p
    <2> QED
      BY <1>1, <2>1, <2>2, EndedShown
  <1>7. ASSUME NEW s \in Slot, ReadLengths(s) PROVE ShownInv'
    <2>1. page' = page /\ requests[s].at = "start"
      BY <1>7 DEF ReadLengths
    <2>2. /\ requests'[s].at = "counted" /\ requests'[s].reads = IF page.post = "pushed" THEN "after" ELSE "before"
          /\ \A t \in Slot \ {s} : requests'[t] = requests[t]
      BY <1>1, <1>7 DEF ReadLengths
    <2>3. Read(page, requests')
      BY <2>2 DEF Read
    <2>4. ASSUME Acted(page), page.slot # None, Later(requests[page.slot])
          PROVE  Later(requests'[page.slot])
      <3>1. page.slot \in Slot
        BY <1>1, <2>4 DEF Page
      <3> QED
        BY <2>2, <2>4, <3>1 DEF Later
    <2>5. Awaited(page, requests')
      BY <2>4 DEF Read, Awaited
    <2> QED
      BY <2>1, <2>3, <2>5
  <1>12. ASSUME NEW s \in Slot, Remember(s) PROVE ShownInv'
    <2>1. page' = page /\ requests[s].at = "counted"
      BY <1>12 DEF Remember
    <2>2. /\ requests'[s].at = "read" /\ requests'[s].reads = requests[s].reads
          /\ \A t \in Slot \ {s} : requests'[t] = requests[t]
      <3>1. requests[s] \in Request
        BY <1>1
      <3> QED
        BY <1>1, <1>12, <3>1 DEF Remember, Request
    <2>3. Read(page, requests')
      BY <2>1, <2>2 DEF Read
    <2>4. ASSUME page.slot # None, Later(requests[page.slot]) PROVE Later(requests'[page.slot])
      <3>1. page.slot \in Slot
        BY <1>1, <2>4 DEF Page
      <3> QED
        BY <2>1, <2>2, <2>4, <3>1 DEF Later
    <2>5. Awaited(page, requests')
      BY <2>4 DEF Awaited
    <2> QED
      BY <2>1, <2>3, <2>5
  <1>8. ASSUME NEW s \in Slot, RedisFails(s) \/ Answer(s) \/ StatementFails(s) PROVE ShownInv'
    <2>1. (requests[s].at = "read" /\ Answered(s)) \/ Refused(s)
      BY <1>8 DEF RedisFails, Answer, StatementFails
    <2> QED
      BY <2>1, AnsweredShown
  <1>9. CASE Restart
    <2> DEFINE none == [s \in Slot |-> NoRequest]
               left == Forgotten(page)
               p == [left EXCEPT !.ok = FALSE]
    <2>1. /\ left \in Page /\ left.shown = page.shown /\ left.action = page.action
          /\ left.slot = page.slot /\ left.ok = page.ok /\ (Acted(left) <=> Acted(page))
          /\ (left.post = "none" <=> page.post = "none")
      BY <1>1 DEF Page, Forgotten
    <2>6. p \in Page /\ ~p.ok /\ p.shown = left.shown /\ p.post = left.post /\ p.action = left.action
      BY <2>1 DEF Page
    <2>2. none \in [Slot -> Request] /\ \A s \in Slot : none[s].at = "free" /\ none[s].reads = "nothing"
      BY NewTypes DEF NoRequest
    <2> HIDE DEF none, left
    <2>3. Read(p, none) /\ Read(left, none)
      BY <2>1, <2>2, <2>6 DEF Read
    <2>4. CASE page.slot # None
      <3>1. Ended(p, none)
        BY <1>9, <2>4 DEF Restart, none, left
      <3> HIDE DEF p
      <3> QED
        BY <2>2, <2>3, <2>6, <3>1, EndedShown
    <2>5. CASE page.slot = None
      <3>1. page' = left /\ requests' = none
        BY <1>9, <2>5 DEF Restart, none, left
      <3> HIDE DEF p
      <3> QED
        BY <2>1, <2>3, <2>5, <3>1 DEF Awaited
    <2> QED
      BY <2>4, <2>5
  <1> QED
    BY <1>2, <1>3, <1>4, <1>5, <1>6, <1>7, <1>8, <1>9, <1>10, <1>11, <1>12 DEF Next, Browser, Monitor

LEMMA ShownInvariant == Spec => []ShownInv
  <1>1. Init => ShownInv
    BY DEF Init, NewPage, NoRequest, ShownInv, Read, Awaited, Acted
  <1> QED
    BY <1>1, ShownStep, TypeCorrect, PTL DEF Spec

\* However refreshes, timeouts and restarts fall together, a page at rest that
\* shows no error shows numbers that were read after its operator's replay
\* (refreshQueued, ui.py:451).
THEOREM OwnActionSeen == Spec => []OwnActionShown
  <1>1. ShownInv => OwnActionShown
    BY DEF ShownInv, Awaited, OwnActionShown
  <1> QED
    BY <1>1, ShownInvariant, PTL

\* And it never replaces such numbers by older ones, although requests it has
\* given up are answered after later ones (AbortController, ui.py).
THEOREM NothingOlder == Spec => NeverOlder
  <1>1. ASSUME TypeOK, ShownInv, [Next]_vars, NEW numbers \in {"before", "after"},
               page.shown = numbers
        PROVE  page'.shown \in {numbers, "after"}
    <2>1. page \in Page /\ requests \in [Slot -> Request]
      BY <1>1 DEF TypeOK
    <2>2. ASSUME NEW p \in Page, NEW reqs, Ended(p, reqs) PROVE page'.shown = p.shown
      BY <2>2 DEF Ended, Started, Page
    <2>3. ASSUME NEW p \in Page, Called(p) PROVE page'.shown = p.shown
      BY <2>3 DEF Called, Started, Page
    <2>4. /\ [page EXCEPT !.ok = FALSE] \in Page /\ [page EXCEPT !.ok = FALSE].shown = page.shown
          /\ [page EXCEPT !.action = "answered"] \in Page
          /\ [page EXCEPT !.action = "answered"].shown = page.shown
          /\ Forgotten(page) \in Page /\ Forgotten(page).shown = page.shown
          /\ [Forgotten(page) EXCEPT !.ok = FALSE] \in Page
          /\ [Forgotten(page) EXCEPT !.ok = FALSE].shown = page.shown
      BY <2>1 DEF Page, Forgotten
    <2>5. CASE UNCHANGED vars \/ Tick \/ Push \/ Parse
      BY <1>1, <2>5 DEF vars, Tick, Push, Parse
    <2>6. CASE Browser
      <3>1. CASE Refresh \/ Replayed
        BY <1>1, <2>1, <2>3, <2>4, <3>1 DEF Refresh, Replayed
      <3>2. CASE Replay \/ ReplayFails
        BY <1>1, <2>1, <3>2 DEF Replay, ReplayFails, Page
      <3>3. CASE GiveUp
        BY <1>1, <2>2, <2>4, <3>3 DEF GiveUp
      <3> QED
        BY <2>6, <3>1, <3>2, <3>3 DEF Browser
    <2>10. CASE PushReplay \/ PushReplayFails
      BY <1>1, <2>1, <2>10 DEF PushReplay, PushReplayFails, Page
    <2>7. ASSUME NEW s \in Slot, ReadLengths(s) \/ Remember(s) \/ RedisFails(s) \/ StatementFails(s)
          PROVE  page'.shown = page.shown
      BY <2>1, <2>2, <2>4, <2>7 DEF ReadLengths, Remember, RedisFails, StatementFails, Refused
    <2>8. ASSUME NEW s \in Slot, Answer(s) PROVE page'.shown \in {numbers, "after"}
      <3>1. CASE s # page.slot
        BY <1>1, <2>8, <3>1 DEF Answer, Answered
      <3>2. CASE s = page.slot
        <4> DEFINE p == [page EXCEPT !.shown = requests[s].reads, !.ok = TRUE]
        <4>1. p \in Page /\ p.shown = requests[s].reads /\ Ended(p, Freed(s))
          BY <2>1, <2>8, <3>2 DEF Answer, Answered, Page, Request
        <4>2. requests[s].at = "read" /\ requests[s].reads \in {"before", "after"} /\ page.slot # None
          BY <1>1, <2>8, <3>2, Constants DEF Answer, ShownInv, Read
        <4>3. numbers = "after" => requests[s].reads = "after"
          BY <1>1, <3>2, <4>2 DEF ShownInv, Awaited, Later
        <4>4. page'.shown = requests[s].reads
          BY <2>2, <4>1
        <4> QED
          BY <4>2, <4>3, <4>4
      <3> QED
        BY <3>1, <3>2
    <2>9. CASE Restart
      BY <1>1, <2>1, <2>2, <2>4, <2>9 DEF Restart
    <2> QED
      BY <1>1, <2>5, <2>6, <2>7, <2>8, <2>9, <2>10 DEF Next, Monitor
  <1>2. TypeOK /\ ShownInv /\ [Next]_vars =>
            [\A numbers \in {"before", "after"} :
                page.shown = numbers => page'.shown \in {numbers, "after"}]_page
    BY <1>1
  <1> QED
    BY <1>2, TypeCorrect, ShownInvariant, PTL DEF Spec, NeverOlder

(***************************************************************************)
(* The best of the rates.                                                  *)
(***************************************************************************)

\* Products, of which the solver knows little.
LEMMA Product ==
    ASSUME NEW a \in Nat, NEW b \in Nat
    PROVE a * b \in Nat
  OBVIOUS

LEMMA ProductMonotone ==
    ASSUME NEW a \in Int, NEW b \in Int, NEW c \in Nat, a <= b
    PROVE  a * c <= b * c
  <1>1. (b - a) \in Nat
    OBVIOUS
  <1>2. (b - a) * c \in Nat
    BY <1>1, Product
  <1>3. (b - a) * c = b * c - a * c
    OBVIOUS
  <1>4. a * c \in Int /\ b * c \in Int
    OBVIOUS
  <1> QED
    BY <1>2, <1>3, <1>4

LEMMA Distribute ==
    ASSUME NEW a \in Int, NEW c \in Int
    PROVE  (a + 1) * c = a * c + c
  OBVIOUS

\* Induction on the numbers, for what is said by membership in a set.
LEMMA Inductive ==
    ASSUME NEW G, 0 \in G, \A n \in Nat : n \in G => n + 1 \in G
    PROVE  \A n \in Nat : n \in G
  <1> DEFINE bad == {n \in Nat : n \notin G}
  <1> SUFFICES ASSUME bad # {} PROVE FALSE
    OBVIOUS
  <1>1. \E k \in bad : \A i \in bad : ~ (<<i, k>> \in OpToRel(<, Nat))
    <2>1. bad \subseteq Nat
      OBVIOUS
    <2> HIDE DEF bad
    <2> QED
      BY <2>1, NatLessThanWellFounded, WFMin
  <1>2. PICK k \in bad : \A i \in bad : ~ (<<i, k>> \in OpToRel(<, Nat))
    BY <1>1
  <1>3. k \in Nat /\ k # 0 /\ k - 1 \in Nat /\ (k - 1) + 1 = k
    OBVIOUS
  <1>4. <<k - 1, k>> \in OpToRel(<, Nat)
    <2>1. OpToRel(<, Nat) = {ss \in Nat \X Nat : ss[1] < ss[2]}
      BY DEF OpToRel
    <2>2. <<k - 1, k>> \in Nat \X Nat /\ k - 1 < k
      BY <1>3
    <2>3. <<k - 1, k>>[1] = k - 1 /\ <<k - 1, k>>[2] = k
      OBVIOUS
    <2> DEFINE ss == <<k - 1, k>>
    <2> HIDE DEF ss
    <2>4. ss \in Nat \X Nat /\ ss[1] < ss[2]
      BY <2>2, <2>3 DEF ss
    <2>5. ss \in OpToRel(<, Nat)
      BY <2>1, <2>4
    <2> QED
      BY <2>5 DEF ss
  <1>5. k - 1 \notin bad
    BY <1>2, <1>4
  <1> QED
    BY <1>2, <1>3, <1>5

Rate == [jobs : Nat, ticks : Nat \ {0}]

\* Two rates compare, and comparing is transitive.
LEMMA Comparable ==
    ASSUME NEW r \in Rate, NEW s \in Rate
    PROVE  AsFast(r, s) \/ AsFast(s, r)
  <1>1. r.jobs * s.ticks \in Nat /\ s.jobs * r.ticks \in Nat
    <2>1. r.jobs \in Nat /\ s.jobs \in Nat /\ r.ticks \in Nat /\ s.ticks \in Nat
      BY DEF Rate
    <2> QED
      BY <2>1, Product
  <1> DEFINE a == r.jobs * s.ticks
             b == s.jobs * r.ticks
  <1>2. a \in Nat /\ b \in Nat
    BY <1>1
  <1> HIDE DEF a, b
  <1>3. a >= b \/ b >= a
    BY <1>2
  <1> QED
    BY <1>3 DEF AsFast, a, b

\* A common factor.
LEMMA Cancel ==
    ASSUME NEW a \in Nat, NEW b \in Nat, NEW c \in Nat \ {0}, a * c <= b * c
    PROVE  a <= b
  <1> SUFFICES ASSUME b + 1 <= a PROVE FALSE
    OBVIOUS
  <1>1. (b + 1) * c <= a * c
    BY ProductMonotone
  <1>2. (b + 1) * c = b * c + c
    BY Distribute
  <1>3. a * c \in Nat /\ b * c \in Nat
    BY Product
  <1> QED
    BY <1>1, <1>2, <1>3

LEMMA Swap ==
    ASSUME NEW a \in Nat, NEW b \in Nat, NEW c \in Nat
    PROVE  (a * b) * c = (a * c) * b
  OBVIOUS

LEMMA AsFastThrough ==
    ASSUME NEW r \in Rate, NEW s \in Rate, NEW t \in Rate, AsFast(r, s), AsFast(s, t)
    PROVE  AsFast(r, t)
  <1> DEFINE rj == r.jobs
             rt == r.ticks
             sj == s.jobs
             st == s.ticks
             tj == t.jobs
             tt == t.ticks
  <1>1. /\ rj \in Nat /\ sj \in Nat /\ tj \in Nat
        /\ rt \in Nat \ {0} /\ st \in Nat \ {0} /\ tt \in Nat \ {0}
    BY DEF Rate
  <1>2. rj * st >= sj * rt /\ sj * tt >= tj * st
    BY DEF AsFast
  <1> HIDE DEF rj, rt, sj, st, tj, tt
  <1>3. /\ rj * st \in Nat /\ sj * rt \in Nat /\ sj * tt \in Nat /\ tj * st \in Nat
        /\ tj * rt \in Nat /\ rj * tt \in Nat
    BY <1>1, Product
  <1>4. (sj * rt) * tt <= (rj * st) * tt
    BY <1>1, <1>2, <1>3, ProductMonotone
  <1>5. (tj * st) * rt <= (sj * tt) * rt
    BY <1>1, <1>2, <1>3, ProductMonotone
  <1>6. /\ (sj * rt) * tt = (sj * tt) * rt
        /\ (rj * st) * tt = (rj * tt) * st
        /\ (tj * st) * rt = (tj * rt) * st
    BY <1>1, Swap
  <1>7. (tj * rt) * st <= (rj * tt) * st
    <2> DEFINE x == (tj * st) * rt
               y == (sj * tt) * rt
               z == (rj * st) * tt
    <2>1. x \in Nat /\ y \in Nat /\ z \in Nat
      BY <1>1, <1>3, Product
    <2>2. x <= y /\ y <= z
      BY <1>4, <1>5, <1>6
    <2> HIDE DEF x, y, z
    <2>3. x <= z
      BY <2>1, <2>2
    <2> QED
      BY <1>6, <2>3 DEF x, z
  <1>8. tj * rt <= rj * tt
    BY <1>1, <1>3, <1>7, Cancel
  <1>9. rj * tt >= tj * rt
    BY <1>3, <1>8
  <1> QED
    BY <1>9 DEF AsFast, rj, rt, tj, tt

\* Of finitely many rates one is the best.
LEMMA OneIsBest ==
    ASSUME NEW n \in Nat, NEW f \in [1 .. n -> Rate], NEW first \in Rate
    PROVE  LET rates == {first} \cup {f[i] : i \in 1 .. n}
           IN  Fastest(rates) \in rates
  <1> DEFINE upTo(k) == {first} \cup {f[i] : i \in {j \in 1 .. n : j <= k}}
             G == {k \in Nat : \E r \in upTo(k) : \A s \in upTo(k) : AsFast(r, s)}
  <1>1. \A k \in Nat : upTo(k) \subseteq Rate
    OBVIOUS
  <1>2. 0 \in G
    <2>1. upTo(0) = {first}
      <3>1. {j \in 1 .. n : j <= 0} = {}
        OBVIOUS
      <3> QED
        BY <3>1
    <2>2. AsFast(first, first)
      BY Comparable
    <2> HIDE DEF upTo
    <2> QED
      BY <2>1, <2>2
  <1>3. ASSUME NEW k \in Nat, k \in G PROVE k + 1 \in G
    <2>1. PICK r \in upTo(k) : \A s \in upTo(k) : AsFast(r, s)
      BY <1>3
    <2>2. r \in Rate /\ upTo(k) \subseteq Rate
      BY <1>1
    <2>3. CASE k + 1 \notin 1 .. n
      <3>1. {j \in 1 .. n : j <= k + 1} = {j \in 1 .. n : j <= k}
        BY <2>3
      <3>2. upTo(k + 1) = upTo(k)
        BY <3>1
      <3> HIDE DEF upTo
      <3> QED
        BY <2>1, <3>2
    <2>4. CASE k + 1 \in 1 .. n
      <3> DEFINE new == f[k + 1]
      <3>1. {j \in 1 .. n : j <= k + 1} = {j \in 1 .. n : j <= k} \cup {k + 1}
        BY <2>4
      <3>2. upTo(k + 1) = upTo(k) \cup {new} /\ new \in Rate
        BY <2>4, <3>1
      <3> HIDE DEF upTo, new
      <3>3. CASE AsFast(r, new)
        BY <2>1, <3>2, <3>3
      <3>4. CASE AsFast(new, r)
        <4>1. \A s \in upTo(k) : AsFast(new, s)
          BY <2>1, <2>2, <3>2, <3>4, AsFastThrough
        <4>2. AsFast(new, new)
          BY <3>2, Comparable
        <4>3. new \in upTo(k + 1) /\ \A s \in upTo(k + 1) : AsFast(new, s)
          BY <3>2, <4>1, <4>2
        <4> HIDE DEF AsFast
        <4> QED
          BY <4>3
      <3> QED
        BY <2>2, <3>2, <3>3, <3>4, Comparable
    <2> QED
      BY <2>3, <2>4
  <1>4. n \in G
    <2> HIDE DEF G
    <2> QED
      BY <1>2, <1>3, Inductive
  <1>5. upTo(n) = {first} \cup {f[i] : i \in 1 .. n}
    <2>1. {j \in 1 .. n : j <= n} = 1 .. n
      OBVIOUS
    <2> QED
      BY <2>1
  <1>6. \E r \in upTo(n) : \A s \in upTo(n) : AsFast(r, s)
    BY <1>4
  <1> DEFINE rates == {first} \cup {f[i] : i \in 1 .. n}
  <1>7. \E r \in rates : \A s \in rates : AsFast(r, s)
    BY <1>5, <1>6
  <1> HIDE DEF rates
  <1>8. Fastest(rates) \in rates
    BY <1>7 DEF Fastest
  <1> QED
    BY <1>8 DEF rates


(***************************************************************************)
(* What a rate stands for: jobs that were taken.                           *)
(***************************************************************************)

Sample == [ts : Nat, length : Nat, read : Nat]

\* The jobs done since t, and from t to u; done is when each was.
Since(done, t) == Cardinality({d \in DOMAIN done : done[d] >= t})
Took(done, t, u) == Cardinality({d \in DOMAIN done : done[d] \in t .. u})

\* The history is in the order of time, and its lengths were read before.
Sorted(history, now) ==
    /\ \A i, j \in DOMAIN history : i <= j => history[i].ts <= history[j].ts
    /\ \A i \in DOMAIN history : history[i].ts <= now /\ history[i].read <= history[i].ts

\* What was waiting when a length was read waits still or was taken since.
Held(x, done, waiting) == x.length <= waiting + Since(done, x.read)
Drained(history, done, waiting) == \A i \in DOMAIN history : Held(history[i], done, waiting)

\* The same at a reading r, for the samples before it.
Reading(r, history, done, now) ==
    /\ r.read <= now
    /\ \A i \in DOMAIN history :
          history[i].ts < r.read => history[i].length <= r.length + Took(done, history[i].read, r.read)

\* The last sample is less than a Gap older than the reading.
Fresh(r, history) == history # <<>> /\ r.read < history[Len(history)].ts + Gap

\* The requests that have read the lengths.
HasRead(request) == request.at \in {"counted", "read"}

RateInv ==
    /\ Sorted(samples, clock)
    /\ Drained(samples, parsed, jobs)
    /\ \A s \in Slot : HasRead(requests[s]) => Reading(requests[s], samples, parsed, clock)
    /\ \A s \in Slot : requests[s].at = "counted" => Held(requests[s], parsed, jobs)
    /\ \A s \in Slot : requests[s].at = "read" => Fresh(requests[s], samples)

\* Counts are numbers.
LEMMA SinceType ==
    ASSUME NEW done \in Seq(Nat), NEW t \in Nat
    PROVE  Since(done, t) \in Nat /\ IsFiniteSet({d \in DOMAIN done : done[d] >= t})
  <1>1. DOMAIN done = 1 .. Len(done) /\ Len(done) \in Nat
    BY LenProperties
  <1>2. IsFiniteSet(DOMAIN done)
    BY <1>1, FS_Interval
  <1> QED
    BY <1>2, FS_Subset, FS_CardinalityType DEF Since

LEMMA TookType ==
    ASSUME NEW done \in Seq(Nat), NEW t \in Nat, NEW u \in Nat
    PROVE  Took(done, t, u) \in Nat /\ IsFiniteSet({d \in DOMAIN done : done[d] \in t .. u})
  <1>1. DOMAIN done = 1 .. Len(done) /\ Len(done) \in Nat
    BY LenProperties
  <1>2. IsFiniteSet(DOMAIN done)
    BY <1>1, FS_Interval
  <1> QED
    BY <1>2, FS_Subset, FS_CardinalityType DEF Took

\* One job more is done, now.
LEMMA OneMore ==
    ASSUME NEW done \in Seq(Nat), NEW now \in Nat, NEW t \in Nat, NEW u \in Nat, t <= now
    PROVE  /\ Since(Append(done, now), t) = Since(done, t) + 1
           /\ Took(Append(done, now), t, u) >= Took(done, t, u)
  <1> DEFINE more == Append(done, now)
             n == Len(done)
             A == {d \in DOMAIN done : done[d] >= t}
             B == {d \in DOMAIN more : more[d] >= t}
             X == {d \in DOMAIN done : done[d] \in t .. u}
             Y == {d \in DOMAIN more : more[d] \in t .. u}
  <1>1. /\ more \in Seq(Nat) /\ n \in Nat /\ DOMAIN done = 1 .. n /\ DOMAIN more = 1 .. n + 1
        /\ more[n + 1] = now /\ \A d \in 1 .. n : more[d] = done[d]
    OBVIOUS
  <1>2. B = A \cup {n + 1} /\ n + 1 \notin A
    <2> HIDE DEF more
    <2>1. 1 .. n + 1 = 1 .. n \cup {n + 1} /\ n + 1 \notin 1 .. n
      BY <1>1
    <2> QED
      BY <1>1, <2>1
  <1>3. X \subseteq Y
    <2> HIDE DEF more
    <2>1. 1 .. n \subseteq 1 .. n + 1
      BY <1>1
    <2> QED
      BY <1>1, <2>1
  <1>4. IsFiniteSet(A) /\ IsFiniteSet(Y)
    BY <1>1, SinceType, TookType
  <1> HIDE DEF more, A, B, X, Y, n
  <1>5. Cardinality(B) = Cardinality(A) + 1
    BY <1>2, <1>4, FS_AddElement
  <1>6. Cardinality(X) <= Cardinality(Y) /\ Cardinality(X) \in Nat /\ Cardinality(Y) \in Nat
    BY <1>3, <1>4, FS_Subset, FS_CardinalityType
  <1> QED
    BY <1>5, <1>6 DEF Since, Took, more, A, B, X, Y

\* All that is done so far is done by now.
LEMMA UpToNow ==
    ASSUME NEW done \in Seq(Nat), NEW now \in Nat, \A d \in DOMAIN done : done[d] <= now, NEW t \in Nat
    PROVE  Since(done, t) = Took(done, t, now)
  <1>1. ASSUME NEW d \in DOMAIN done PROVE done[d] >= t <=> done[d] \in t .. now
    <2>1. done[d] \in Nat /\ done[d] <= now
      <3>1. d \in 1 .. Len(done)
        OBVIOUS
      <3> QED
        BY <3>1, ElementOfSeq
    <2> QED
      BY <2>1
  <1>2. {d \in DOMAIN done : done[d] >= t} = {d \in DOMAIN done : done[d] \in t .. now}
    BY <1>1
  <1> QED
    BY <1>2 DEF Since, Took

\* The fields of a sample.
LEMMA SampleType ==
    ASSUME NEW history \in Seq(Sample), NEW i \in DOMAIN history
    PROVE  history[i].ts \in Nat /\ history[i].length \in Nat /\ history[i].read \in Nat
  <1>1. i \in 1 .. Len(history)
    OBVIOUS
  <1>2. history[i] \in Sample
    BY <1>1, ElementOfSeq
  <1> QED
    BY <1>2 DEF Sample

\* A reading stays true when time goes on and jobs are done.
LEMMA ReadingStays ==
    ASSUME NEW r \in Request, NEW history \in Seq(Sample), NEW done \in Seq(Nat), NEW now \in Nat,
           Reading(r, history, done, now), Sorted(history, now)
    PROVE  Reading(r, history, done, now + 1) /\ Reading(r, history, Append(done, now), now)
  <1>1. r.read \in Nat /\ r.length \in Nat
    BY DEF Request
  <1>2. Reading(r, history, done, now + 1)
    BY <1>1 DEF Reading
  <1>3. ASSUME NEW i \in DOMAIN history, history[i].ts < r.read
        PROVE  history[i].length <= r.length + Took(Append(done, now), history[i].read, r.read)
    <2> DEFINE t == history[i].read
               l == history[i].length
    <2>1. t \in Nat /\ l \in Nat /\ history[i].ts \in Nat
      BY SampleType
    <2>2. t <= now /\ l <= r.length + Took(done, t, r.read)
      BY <1>3, <2>1 DEF Sorted, Reading
    <2> HIDE DEF t, l
    <2>3. /\ Took(done, t, r.read) \in Nat
          /\ Took(Append(done, now), t, r.read) >= Took(done, t, r.read)
      BY <1>1, <2>1, <2>2, OneMore, TookType
    <2>4. Took(Append(done, now), t, r.read) \in Nat
      <3>1. Append(done, now) \in Seq(Nat)
        OBVIOUS
      <3> QED
        BY <3>1, <1>1, <2>1, TookType
    <2>5. l <= r.length + Took(Append(done, now), t, r.read)
      BY <1>1, <2>1, <2>2, <2>3, <2>4
    <2> QED
      BY <2>5 DEF t, l
  <1> QED
    BY <1>2, <1>3 DEF Reading

\* What was waiting is accounted for when a job comes, and when one is taken.
LEMMA HeldStays ==
    ASSUME NEW x, x.read \in Nat, x.length \in Nat, NEW done \in Seq(Nat), NEW waiting \in Nat,
           NEW now \in Nat, Held(x, done, waiting)
    PROVE  /\ Held(x, done, waiting + 1)
           /\ x.read <= now => Held(x, Append(done, now), waiting - 1)
  <1> DEFINE t == x.read
             l == x.length
  <1>1. t \in Nat /\ l \in Nat /\ l <= waiting + Since(done, t) /\ Since(done, t) \in Nat
    BY SinceType DEF Held
  <1>2. t <= now => Since(Append(done, now), t) = Since(done, t) + 1
    BY <1>1, OneMore
  <1> HIDE DEF t, l
  <1>3. l <= (waiting + 1) + Since(done, t)
    BY <1>1
  <1>4. t <= now => l <= (waiting - 1) + Since(Append(done, now), t)
    BY <1>1, <1>2
  <1> QED
    BY <1>3, <1>4 DEF Held, t, l

\* The types of what the rates are computed from.
LEMMA RateTypes ==
    ASSUME TypeOK
    PROVE  /\ clock \in Nat /\ jobs \in Nat /\ parsed \in Seq(Nat) /\ samples \in Seq(Sample)
           /\ requests \in [Slot -> Request] /\ Gap \in Nat \ {0} /\ MaxSamples \in Nat \ {0}
           /\ \A d \in DOMAIN parsed : parsed[d] <= clock
  BY DashboardAssumption DEF TypeOK, Sample

\* The times and lengths a request and a sample hold.
LEMMA Times ==
    ASSUME TypeOK, RateInv
    PROVE  /\ \A i \in DOMAIN samples : samples[i].read \in Nat /\ samples[i].length \in Nat
                                         /\ samples[i].ts \in Nat /\ samples[i].read <= clock
           /\ \A s \in Slot : requests[s].read \in Nat /\ requests[s].length \in Nat
           /\ \A s \in Slot : HasRead(requests[s]) => requests[s].read <= clock
  <1>1. ASSUME NEW i \in DOMAIN samples
        PROVE  samples[i].read \in Nat /\ samples[i].length \in Nat
               /\ samples[i].ts \in Nat /\ samples[i].read <= clock
    <2>1. samples[i].read \in Nat /\ samples[i].length \in Nat /\ samples[i].ts \in Nat
      BY RateTypes, SampleType
    <2>2. samples[i].ts <= clock /\ samples[i].read <= samples[i].ts
      BY DEF RateInv, Sorted
    <2> QED
      BY <2>1, <2>2, RateTypes
  <1>2. \A s \in Slot : requests[s].read \in Nat /\ requests[s].length \in Nat
    BY RateTypes DEF Request
  <1>3. \A s \in Slot : HasRead(requests[s]) => requests[s].read <= clock
    BY DEF RateInv, Reading
  <1> QED
    BY <1>1, <1>2, <1>3

\* Time goes on, jobs come, and jobs are done.
LEMMA WorldRates ==
    ASSUME TypeOK, RateInv, Tick \/ Push \/ Parse
    PROVE  RateInv'
  <1>1. UNCHANGED <<samples, requests>>
    BY DEF Tick, Push, Parse, world, server
  <1>2. CASE Tick
    <2>1. clock' = clock + 1 /\ parsed' = parsed /\ jobs' = jobs
      BY <1>2 DEF Tick
    <2>2. Sorted(samples, clock + 1)
      <3>1. \A i \in DOMAIN samples : samples[i].ts \in Nat /\ samples[i].ts <= clock
        BY RateTypes, SampleType DEF RateInv, Sorted
      <3> QED
        BY <3>1, RateTypes DEF RateInv, Sorted
    <2>3. \A s \in Slot : HasRead(requests[s]) => Reading(requests[s], samples, parsed, clock + 1)
      BY RateTypes, ReadingStays DEF RateInv
    <2> QED
      BY <1>1, <2>1, <2>2, <2>3 DEF RateInv
  <1>3. CASE Push
    <2>1. clock' = clock /\ parsed' = parsed /\ jobs' = jobs + 1
      BY <1>3 DEF Push
    <2>2. Drained(samples, parsed, jobs + 1)
      BY RateTypes, Times, HeldStays DEF RateInv, Drained
    <2>3. \A s \in Slot : requests[s].at = "counted" => Held(requests[s], parsed, jobs + 1)
      BY RateTypes, Times, HeldStays DEF RateInv
    <2> QED
      BY <1>1, <2>1, <2>2, <2>3 DEF RateInv
  <1>4. CASE Parse
    <2>1. jobs > 0 /\ clock' = clock /\ parsed' = Append(parsed, clock) /\ jobs' = jobs - 1
      BY <1>4 DEF Parse
    <2>2. Drained(samples, Append(parsed, clock), jobs - 1)
      BY RateTypes, Times, HeldStays DEF RateInv, Drained
    <2>3. \A s \in Slot : HasRead(requests[s]) =>
              Reading(requests[s], samples, Append(parsed, clock), clock)
      BY RateTypes, ReadingStays DEF RateInv
    <2>4. \A s \in Slot : requests[s].at = "counted" =>
              Held(requests[s], Append(parsed, clock), jobs - 1)
      BY RateTypes, Times, HeldStays DEF RateInv, HasRead
    <2> QED
      BY <1>1, <2>1, <2>2, <2>3, <2>4 DEF RateInv
  <1> QED
    BY <1>2, <1>3, <1>4

(***************************************************************************)
(* Steps that take no reading.                                             *)
(***************************************************************************)

\* What has read is a request that had read before.
NoReading(reqs) == \A s \in Slot : HasRead(requests'[s]) => requests'[s] = reqs[s]

LEMMA StartedReads ==
    ASSUME NEW p, NEW reqs \in [Slot -> Request], NEW s \in Slot, Started(p, reqs, s)
    PROVE  NoReading(reqs)
  <1>1. [NoRequest EXCEPT !.at = "start"].at = "start"
    BY DEF NoRequest
  <1> QED
    BY <1>1 DEF Started, NoReading, HasRead

LEMMA EndedReads ==
    ASSUME NEW p, NEW reqs \in [Slot -> Request], Ended(p, reqs)
    PROVE  NoReading(reqs)
  <1>1. CASE p.queued
    BY <1>1, StartedReads DEF Ended
  <1>2. CASE ~p.queued
    BY <1>2 DEF Ended, NoReading
  <1> QED
    BY <1>1, <1>2

LEMMA CalledReads ==
    ASSUME TypeOK, NEW p, Called(p)
    PROVE  NoReading(requests)
  <1>1. CASE p.slot = None
    BY <1>1, RateTypes, StartedReads DEF Called
  <1>2. CASE p.slot # None
    BY <1>2 DEF Called, NoReading
  <1> QED
    BY <1>1, <1>2

LEMMA FreedReads ==
    ASSUME TypeOK, NEW s \in Slot, NoReading(Freed(s))
    PROVE  NoReading(requests)
  <1>1. ASSUME NEW t \in Slot, HasRead(requests'[t]) PROVE requests'[t] = requests[t]
    <2>1. requests'[t] = Freed(s)[t]
      BY <1>1 DEF NoReading
    <2>2. ~HasRead(NoRequest)
      BY DEF NoRequest, HasRead
    <2> QED
      BY <1>1, <2>1, <2>2, RateTypes DEF Freed
  <1> QED
    BY <1>1 DEF NoReading

LEMMA AnsweredReads ==
    ASSUME TypeOK, NEW s \in Slot, Answered(s) \/ Refused(s)
    PROVE  NoReading(requests)
  <1>1. Freed(s) \in [Slot -> Request]
    BY RateTypes, NewTypes DEF Freed
  <1>2. NoReading(Freed(s))
    <2>1. CASE s = page.slot
      BY <1>1, <2>1, EndedReads DEF Answered, Refused
    <2>2. CASE s # page.slot
      BY <2>2 DEF Answered, Refused, NoReading
    <2> QED
      BY <2>1, <2>2
  <1> QED
    BY <1>2, FreedReads

\* Then the invariant is kept.
LEMMA QuietRates ==
    ASSUME TypeOK, RateInv, NoReading(requests), UNCHANGED <<clock, parsed, samples>>,
           jobs' = jobs \/ jobs' = jobs + 1
    PROVE  RateInv'
  <1>1. Drained(samples, parsed, jobs')
    BY RateTypes, Times, HeldStays DEF RateInv, Drained
  <1>2. ASSUME NEW s \in Slot, HasRead(requests'[s])
        PROVE  /\ Reading(requests'[s], samples, parsed, clock)
               /\ requests'[s].at = "counted" => Held(requests'[s], parsed, jobs')
               /\ requests'[s].at = "read" => Fresh(requests'[s], samples)
    <2>1. requests'[s] = requests[s] /\ HasRead(requests[s])
      BY <1>2 DEF NoReading
    <2>2. requests[s].at = "counted" => Held(requests[s], parsed, jobs')
      BY RateTypes, Times, HeldStays DEF RateInv
    <2> QED
      BY <2>1, <2>2 DEF RateInv
  <1> QED
    BY <1>1, <1>2 DEF RateInv, HasRead

(***************************************************************************)
(* A reading, and the sample it may leave.                                 *)
(***************************************************************************)

\* The history new is old with the sample e after it, and perhaps without the
\* first one: new[k] is old[k + c].
Longer(old, new, e, c) ==
    /\ new \in Seq(Sample) /\ Len(new) \in Nat \ {0} /\ new[Len(new)] = e
    /\ \A k \in 1 .. Len(new) - 1 : k + c \in 1 .. Len(old) /\ new[k] = old[k + c]

\* What remember_queue_lengths does to the history.
LEMMA AfterAppend ==
    ASSUME NEW old \in Seq(Sample), NEW e \in Sample
    PROVE  /\ Longer(old, Append(old, e), e, 0)
           /\ Len(old) > 0 => Longer(old, Tail(Append(old, e)), e, 1)
  <1> DEFINE n == Len(old)
             all == Append(old, e)
             rest == Tail(all)
  <1>1. /\ n \in Nat /\ all \in Seq(Sample) /\ Len(all) = n + 1 /\ all # <<>>
        /\ all[n + 1] = e /\ \A k \in 1 .. n : all[k] = old[k]
    BY AppendProperties
  <1> HIDE DEF all, n
  <1>2. Longer(old, all, e, 0)
    BY <1>1 DEF Longer, n
  <1>3. /\ rest \in Seq(Sample) /\ Len(rest) = (n + 1) - 1
        /\ \A k \in 1 .. Len(rest) : rest[k] = all[k + 1]
    BY <1>1, HeadTailProperties
  <1> HIDE DEF rest
  <1>4. ASSUME n > 0 PROVE Longer(old, rest, e, 1)
    <2>1. Len(rest) = n /\ n \in Nat \ {0}
      BY <1>1, <1>3, <1>4
    <2>2. n \in 1 .. Len(rest)
      BY <2>1
    <2>3. rest[Len(rest)] = e
      BY <1>1, <1>3, <2>1, <2>2
    <2>4. ASSUME NEW k \in 1 .. Len(rest) - 1 PROVE k + 1 \in 1 .. n /\ rest[k] = old[k + 1]
      <3>1. k + 1 \in 1 .. n /\ k \in 1 .. Len(rest)
        BY <2>1
      <3> QED
        BY <1>1, <1>3, <3>1
    <2> QED
      BY <1>3, <2>1, <2>3, <2>4 DEF Longer, n
  <1> QED
    BY <1>2, <1>4 DEF all, rest, n

\* A sample is left unless there is one that is hardly older.
LEMMA SampleLeft ==
    ASSUME TypeOK, NEW length \in Nat, NEW read \in Nat
    PROVE  \/ /\ Remembered(length, read) = samples /\ samples # <<>>
              /\ clock - samples[Len(samples)].ts < Gap
           \/ /\ samples # <<>> => ~(clock - samples[Len(samples)].ts < Gap)
              /\ \E c \in {0, 1} :
                    Longer(samples, Remembered(length, read),
                           [ts |-> clock, length |-> length, read |-> read], c)
  <1> DEFINE e == [ts |-> clock, length |-> length, read |-> read]
             all == Append(samples, e)
  <1>1. samples \in Seq(Sample) /\ e \in Sample
    BY RateTypes DEF Sample
  <1>2. Last(samples) = samples[Len(samples)]
    BY DEF Last
  <1>3. CASE samples # <<>> /\ clock - Last(samples).ts < Gap
    <2>1. Remembered(length, read) = samples
      BY <1>3 DEF Remembered
    <2> QED
      BY <1>2, <1>3, <2>1
  <1>4. CASE ~(samples # <<>> /\ clock - Last(samples).ts < Gap)
    <2>1. Remembered(length, read) = IF Len(all) > MaxSamples THEN Tail(all) ELSE all
      BY <1>4 DEF Remembered
    <2>2. Len(all) = Len(samples) + 1 /\ Len(samples) \in Nat
      BY <1>1, AppendProperties, LenProperties
    <2> HIDE DEF e
    <2>3. CASE Len(all) > MaxSamples
      <3>1. Len(samples) > 0
        BY <2>2, <2>3, RateTypes
      <3>2. Longer(samples, Tail(all), e, 1)
        BY <1>1, <3>1, AfterAppend
      <3>3. Remembered(length, read) = Tail(all)
        BY <2>1, <2>3
      <3> HIDE DEF all
      <3>4. \E c \in {0, 1} : Longer(samples, Remembered(length, read), e, c)
        BY <3>2, <3>3
      <3> QED
        BY <1>2, <1>4, <3>4 DEF e
    <2>4. CASE ~(Len(all) > MaxSamples)
      <3>1. Longer(samples, all, e, 0)
        BY <1>1, AfterAppend
      <3>2. Remembered(length, read) = all
        BY <2>1, <2>4
      <3> HIDE DEF all
      <3>3. \E c \in {0, 1} : Longer(samples, Remembered(length, read), e, c)
        BY <3>1, <3>2
      <3> QED
        BY <1>2, <1>4, <3>3 DEF e
    <2> QED
      BY <2>3, <2>4
  <1> QED
    BY <1>3, <1>4

\* The history stays in order, and nothing is forgotten that was waiting.
LEMMA LongerHistory ==
    ASSUME NEW old \in Seq(Sample), NEW new \in Seq(Sample), NEW c \in {0, 1}, NEW done \in Seq(Nat),
           NEW now \in Nat, NEW waiting \in Nat, Sorted(old, now), Drained(old, done, waiting),
           NEW e \in Sample, e.ts = now, e.read <= now, Held(e, done, waiting), Longer(old, new, e, c)
    PROVE  Sorted(new, now) /\ Drained(new, done, waiting)
  <1> DEFINE n == Len(new)
             m == Len(old)
  <1>1. /\ n \in Nat \ {0} /\ m \in Nat /\ DOMAIN new = 1 .. n /\ DOMAIN old = 1 .. m
        /\ new[n] = e
        /\ \A k \in 1 .. n - 1 : k + c \in 1 .. m /\ new[k] = old[k + c]
    BY LenProperties DEF Longer
  <1>2. \A i \in 1 .. n : new[i].ts \in Nat /\ new[i].length \in Nat
    BY <1>1, SampleType
  <1> HIDE DEF n, m
  <1>3. \A i \in 1 .. n : i # n => i \in 1 .. n - 1
    BY <1>1
  <1>4. ASSUME NEW i \in 1 .. n PROVE new[i].ts <= now /\ new[i].read <= new[i].ts
    <2>1. CASE i = n
      BY <1>1, <2>1
    <2>2. CASE i # n
      <3>1. new[i] = old[i + c] /\ i + c \in DOMAIN old
        BY <1>1, <1>3, <2>2
      <3>2. old[i + c].ts <= now /\ old[i + c].read <= old[i + c].ts
        BY <3>1 DEF Sorted
      <3> QED
        BY <3>1, <3>2
    <2> QED
      BY <2>1, <2>2
  <1>5. ASSUME NEW i \in 1 .. n, NEW j \in 1 .. n, i <= j PROVE new[i].ts <= new[j].ts
    <2>1. CASE j = n
      BY <1>1, <1>4, <2>1
    <2>2. CASE j # n
      <3>1. i \in 1 .. n - 1 /\ j \in 1 .. n - 1 /\ i + c <= j + c
        BY <1>1, <1>3, <1>5, <2>2
      <3> QED
        BY <1>1, <3>1 DEF Sorted
    <2> QED
      BY <2>1, <2>2
  <1>6. ASSUME NEW i \in 1 .. n PROVE Held(new[i], done, waiting)
    <2>1. CASE i = n
      BY <1>1, <2>1
    <2>2. CASE i # n
      BY <1>1, <1>3, <2>2 DEF Drained
    <2> QED
      BY <2>1, <2>2
  <1> QED
    BY <1>1, <1>4, <1>5, <1>6 DEF Sorted, Drained

\* A reading is not touched by a sample that is added after it.
LEMMA EarlierReading ==
    ASSUME NEW old \in Seq(Sample), NEW new \in Seq(Sample), NEW c \in {0, 1}, NEW done \in Seq(Nat),
           NEW now \in Nat, NEW r \in Request, NEW e, e.ts = now,
           Reading(r, old, done, now), Longer(old, new, e, c)
    PROVE  Reading(r, new, done, now) /\ (0 < Gap => Fresh(r, new))
  <1> DEFINE n == Len(new)
             m == Len(old)
  <1>1. /\ n \in Nat \ {0} /\ m \in Nat /\ DOMAIN new = 1 .. n /\ DOMAIN old = 1 .. m
        /\ new[n].ts = now
        /\ \A k \in 1 .. n - 1 : k + c \in 1 .. m /\ new[k] = old[k + c]
    BY LenProperties DEF Longer
  <1>2. r.read <= now /\ r.read \in Nat
    BY DEF Reading, Request
  <1>3. new # <<>>
    BY <1>1, EmptySeq
  <1> HIDE DEF n, m
  <1>4. ASSUME NEW i \in 1 .. n, new[i].ts < r.read
        PROVE  new[i].length <= r.length + Took(done, new[i].read, r.read)
    <2>1. i # n
      BY <1>1, <1>2, <1>4
    <2>2. i \in 1 .. n - 1
      BY <1>1, <2>1
    <2> QED
      BY <1>1, <1>4, <2>2 DEF Reading
  <1>5. 0 < Gap => Fresh(r, new)
    BY <1>1, <1>2, <1>3, Constants DEF Fresh, n
  <1> QED
    BY <1>1, <1>2, <1>4, <1>5 DEF Reading

\* The reading itself.
LEMMA PresentReading ==
    ASSUME NEW history \in Seq(Sample), NEW done \in Seq(Nat), NEW now \in Nat, NEW waiting \in Nat,
           NEW r \in Request, r.read = now, r.length = waiting,
           Drained(history, done, waiting), \A d \in DOMAIN done : done[d] <= now
    PROVE  Reading(r, history, done, now) /\ Held(r, done, waiting)
  <1>1. ASSUME NEW i \in DOMAIN history
        PROVE  history[i].length <= waiting + Took(done, history[i].read, now)
    <2>1. history[i].read \in Nat
      BY SampleType
    <2>2. Since(done, history[i].read) = Took(done, history[i].read, now)
      BY <2>1, UpToNow
    <2> QED
      BY <2>2 DEF Drained, Held
  <1>2. Since(done, now) \in Nat
    BY SinceType
  <1> QED
    BY <1>1, <1>2 DEF Reading, Held

\* The step of a request that reads the lengths.
LEMMA ReadLengthsRates ==
    ASSUME TypeOK, RateInv, NEW s \in Slot, ReadLengths(s)
    PROVE  RateInv'
  <1> DEFINE r == [at |-> "counted", read |-> clock, length |-> jobs,
                   reads |-> IF page.post = "pushed" THEN "after" ELSE "before"]
  <1>1. requests' = [requests EXCEPT ![s] = r] /\ UNCHANGED <<clock, jobs, parsed, samples>>
    BY DEF ReadLengths, world, server
  <1>2. r \in Request /\ r.read = clock /\ r.length = jobs /\ r.at = "counted"
    BY RateTypes DEF Request
  <1>3. Drained(samples, parsed, jobs)
    BY DEF RateInv
  <1> HIDE DEF r
  <1>4. Reading(r, samples, parsed, clock) /\ Held(r, parsed, jobs)
    BY <1>2, <1>3, RateTypes, PresentReading
  <1>5. \A t \in Slot : requests'[t] = IF t = s THEN r ELSE requests[t]
    BY <1>1, RateTypes
  <1>6. \A t \in Slot : HasRead(requests'[t]) => Reading(requests'[t], samples, parsed, clock)
    BY <1>4, <1>5 DEF RateInv
  <1>7. \A t \in Slot : requests'[t].at = "counted" => Held(requests'[t], parsed, jobs)
    BY <1>4, <1>5 DEF RateInv
  <1>8. \A t \in Slot : requests'[t].at = "read" => Fresh(requests'[t], samples)
    BY <1>2, <1>5 DEF RateInv
  <1> QED
    BY <1>1, <1>6, <1>7, <1>8 DEF RateInv

\* And the step that puts them down.
LEMMA RememberRates ==
    ASSUME TypeOK, RateInv, NEW s \in Slot, Remember(s)
    PROVE  RateInv'
  <1> DEFINE r == requests[s]
             new == Remembered(r.length, r.read)
             e == [ts |-> clock, length |-> r.length, read |-> r.read]
  <1>1. /\ requests' = [requests EXCEPT ![s].at = "read"] /\ samples' = new /\ r.at = "counted"
        /\ UNCHANGED <<clock, jobs, parsed>>
    BY DEF Remember, world
  <1>2. /\ clock \in Nat /\ jobs \in Nat /\ parsed \in Seq(Nat) /\ samples \in Seq(Sample)
        /\ requests \in [Slot -> Request] /\ Gap \in Nat \ {0}
    BY RateTypes
  <1>3. r \in Request /\ r.read \in Nat /\ r.length \in Nat
    BY <1>2 DEF Request
  <1>4. /\ Sorted(samples, clock) /\ Drained(samples, parsed, jobs) /\ Held(r, parsed, jobs)
        /\ \A t \in Slot : HasRead(requests[t]) => Reading(requests[t], samples, parsed, clock)
    BY <1>1 DEF RateInv
  <1>5. e \in Sample /\ e.ts = clock /\ e.read = r.read /\ e.length = r.length
    BY <1>2, <1>3 DEF Sample
  <1>6. Reading(r, samples, parsed, clock) /\ r.read <= clock
    BY <1>1, <1>4 DEF HasRead, Reading
  <1>7. \A t \in Slot :
          /\ t # s => requests'[t] = requests[t]
          /\ requests'[t].read = requests[t].read /\ requests'[t].length = requests[t].length
          /\ HasRead(requests'[t]) => HasRead(requests[t])
          /\ requests'[t].at = "counted" => t # s
    <2>1. requests' = [requests EXCEPT ![s] = [r EXCEPT !.at = "read"]]
      BY <1>1
    <2>2. /\ [r EXCEPT !.at = "read"].at = "read" /\ [r EXCEPT !.at = "read"].read = r.read
          /\ [r EXCEPT !.at = "read"].length = r.length
      BY <1>3 DEF Request
    <2> QED
      BY <1>1, <1>2, <2>1, <2>2 DEF HasRead
  <1> HIDE DEF r, new, e
  <1>8. ASSUME Sorted(new, clock), Drained(new, parsed, jobs),
               \A t \in Slot : HasRead(requests[t]) => Reading(requests[t], new, parsed, clock),
               \A t \in Slot : requests[t].at = "read" => Fresh(requests[t], new),
               Fresh(r, new)
        PROVE  RateInv'
    <2>1. \A t \in Slot : HasRead(requests'[t]) => Reading(requests'[t], new, parsed, clock)
      BY <1>7, <1>8 DEF Reading
    <2>2. \A t \in Slot : requests'[t].at = "counted" => Held(requests'[t], parsed, jobs)
      BY <1>7 DEF RateInv
    <2>3. ASSUME NEW t \in Slot, requests'[t].at = "read" PROVE Fresh(requests'[t], new)
      BY <1>7, <1>8, <2>3 DEF Fresh, r
    <2> QED
      BY <1>1, <1>8, <2>1, <2>2, <2>3 DEF RateInv
  <1>9. CASE new = samples /\ samples # <<>> /\ clock - samples[Len(samples)].ts < Gap
    <2>1. Len(samples) \in DOMAIN samples
      BY <1>2, <1>9, EmptySeq, LenProperties
    <2>2. samples[Len(samples)].ts \in Nat
      BY <1>2, <2>1, SampleType
    <2>3. r.read < samples[Len(samples)].ts + Gap
      BY <1>2, <1>3, <1>6, <1>9, <2>2
    <2> QED
      BY <1>4, <1>8, <1>9, <2>3 DEF RateInv, Fresh
  <1>10. CASE \E c \in {0, 1} : Longer(samples, new, e, c)
    <2>1. PICK c \in {0, 1} : Longer(samples, new, e, c)
      BY <1>10
    <2>2. new \in Seq(Sample)
      BY <2>1 DEF Longer
    <2>3. Held(e, parsed, jobs) /\ e.read <= clock
      BY <1>4, <1>5, <1>6 DEF Held
    <2>4. Sorted(new, clock) /\ Drained(new, parsed, jobs)
      BY <1>2, <1>4, <1>5, <2>1, <2>2, <2>3, LongerHistory
    <2>5. ASSUME NEW t \in Slot, HasRead(requests[t])
          PROVE  Reading(requests[t], new, parsed, clock) /\ Fresh(requests[t], new)
      <3>1. Reading(requests[t], samples, parsed, clock) /\ requests[t] \in Request /\ 0 < Gap
        BY <1>2, <1>4, <2>5
      <3> QED
        BY <1>2, <1>5, <2>1, <2>2, <3>1, EarlierReading
    <2>6. HasRead(r) /\ r = requests[s]
      BY <1>1 DEF HasRead, r
    <2> QED
      BY <1>8, <2>4, <2>5, <2>6 DEF HasRead
  <1>11. \/ new = samples /\ samples # <<>> /\ clock - samples[Len(samples)].ts < Gap
         \/ \E c \in {0, 1} : Longer(samples, new, e, c)
    BY <1>3, SampleLeft DEF new, e
  <1> QED
    BY <1>9, <1>10, <1>11

\* Restarted, the monitor has no history and no requests.
LEMMA RestartRates ==
    ASSUME TypeOK, Restart
    PROVE  RateInv'
  <1> DEFINE none == [s \in Slot |-> NoRequest]
  <1>1. samples' = <<>> /\ UNCHANGED <<clock, jobs, parsed>>
    BY DEF Restart, world
  <1>2. none \in [Slot -> Request]
    BY NewTypes
  <1>3. NoReading(none)
    <2>1. CASE page.slot # None
      BY <1>2, <2>1, EndedReads DEF Restart
    <2>2. CASE page.slot = None
      BY <2>2 DEF Restart, NoReading
    <2> QED
      BY <2>1, <2>2
  <1>4. \A s \in Slot : ~HasRead(requests'[s])
    BY <1>3 DEF NoReading, NoRequest, HasRead
  <1>5. DOMAIN <<>> = {}
    OBVIOUS
  <1>6. Sorted(<<>>, clock) /\ Drained(<<>>, parsed, jobs)
    BY <1>5 DEF Sorted, Drained
  <1> QED
    BY <1>1, <1>4, <1>6 DEF RateInv, HasRead

LEMMA RateStep == TypeOK /\ RateInv /\ [Next]_vars => RateInv'
  <1> SUFFICES ASSUME TypeOK, RateInv, [Next]_vars PROVE RateInv'
    OBVIOUS
  <1>1. CASE UNCHANGED vars
    BY <1>1 DEF RateInv, vars
  <1>2. CASE Tick \/ Push \/ Parse
    BY <1>2, WorldRates
  <1>3. CASE Browser
    <2>1. CASE Refresh
      BY <2>1, CalledReads, QuietRates DEF Refresh, world
    <2>2. CASE Replay \/ ReplayFails
      <3>1. NoReading(requests)
        BY <2>2 DEF Replay, ReplayFails, NoReading
      <3> QED
        BY <2>2, <3>1, QuietRates DEF Replay, ReplayFails, world
    <2>3. CASE Replayed
      BY <2>3, CalledReads, QuietRates DEF Replayed, world
    <2>4. CASE GiveUp
      <3>1. NoReading(requests)
        BY <2>4, RateTypes, EndedReads DEF GiveUp
      <3> QED
        BY <2>4, <3>1, QuietRates DEF GiveUp, world
    <2> QED
      BY <1>3, <2>1, <2>2, <2>3, <2>4 DEF Browser
  <1>4. ASSUME NEW s \in Slot, Monitor(s) PROVE RateInv'
    <2>1. CASE ReadLengths(s)
      BY <2>1, ReadLengthsRates
    <2>3. CASE Remember(s)
      BY <2>3, RememberRates
    <2>2. CASE RedisFails(s) \/ Answer(s) \/ StatementFails(s)
      <3>1. Answered(s) \/ Refused(s)
        BY <2>2 DEF RedisFails, Answer, StatementFails
      <3>2. UNCHANGED <<clock, jobs, parsed, samples>>
        BY <2>2 DEF RedisFails, Answer, StatementFails, world
      <3> QED
        BY <3>1, <3>2, AnsweredReads, QuietRates
    <2> QED
      BY <1>4, <2>1, <2>2, <2>3 DEF Monitor
  <1>5. CASE Restart
    BY <1>5, RestartRates
  <1>6. CASE PushReplay \/ PushReplayFails
    <2>1. NoReading(requests)
      BY <1>6 DEF PushReplay, PushReplayFails, NoReading
    <2> QED
      BY <1>6, <2>1, QuietRates DEF PushReplay, PushReplayFails, world
  <1> QED
    BY <1>1, <1>2, <1>3, <1>4, <1>5, <1>6 DEF Next

\* The invariant of the rates.
LEMMA RateInvariant == Spec => [](TypeOK /\ RateInv)
  <1>1. Init => RateInv
    <2> SUFFICES ASSUME Init PROVE RateInv
      OBVIOUS
    <2>1. samples = <<>> /\ parsed = <<>> /\ requests = [s \in Slot |-> NoRequest]
      BY DEF Init
    <2>2. DOMAIN <<>> = {} /\ \A s \in Slot : ~HasRead(requests[s])
      BY <2>1 DEF NoRequest, HasRead
    <2> QED
      BY <2>1, <2>2 DEF RateInv, Sorted, Drained, HasRead
  <1> QED
    BY <1>1, RateStep, TypeCorrect, PTL DEF Spec

\* The rate, if it is not Still, is that since a sample of the history.
LEMMA RateOfSample ==
    ASSUME TypeOK, RateInv, NEW length \in Nat, queue_drain_rate(length) # Still
    PROVE  \E i \in DOMAIN samples :
              LET last == samples[Len(samples)]
              IN  /\ samples[i].length > length /\ samples[i].ts < last.ts /\ samples # <<>>
                  /\ queue_drain_rate(length) =
                        [jobs |-> samples[i].length - length, ticks |-> last.ts - samples[i].ts]
  <1> DEFINE n == Len(samples)
             latest == Max(RecentSamples)
             fallen == {i \in RecentSamples : /\ i < latest /\ samples[i].length > length
                                              /\ samples[i].ts < samples[latest].ts}
             rate(i) == [jobs  |-> samples[i].length - length,
                         ticks |-> samples[latest].ts - samples[i].ts]
             rates == {Still} \cup {rate(i) : i \in fallen}
             f == [i \in 1 .. n |-> IF i \in fallen THEN rate(i) ELSE Still]
  <1>1. n \in Nat /\ DOMAIN samples = 1 .. n /\ samples \in Seq(Sample) /\ clock \in Nat /\ Horizon \in Nat
    BY RateTypes, LenProperties, DashboardAssumption
  <1>2. \A i \in 1 .. n : samples[i].ts \in Nat /\ samples[i].length \in Nat
    BY <1>1, SampleType
  <1>3. RecentSamples \subseteq 1 .. n
    BY <1>1 DEF RecentSamples
  <1>4. RecentSamples # {} => latest = n /\ n \in RecentSamples
    <2> SUFFICES ASSUME RecentSamples # {} PROVE latest = n /\ n \in RecentSamples
      OBVIOUS
    <2>1. PICK i \in RecentSamples : TRUE
      OBVIOUS
    <2>2. i \in 1 .. n /\ n \in 1 .. n /\ clock - samples[i].ts <= Horizon
      BY <1>1, <1>3, <2>1 DEF RecentSamples
    <2>3. samples[i].ts <= samples[n].ts /\ samples[i].ts \in Nat /\ samples[n].ts \in Nat
      BY SMTT(30), <1>1, <1>2, <2>2 DEF RateInv, Sorted
    <2>4. clock - samples[n].ts <= Horizon
      BY <1>1, <2>2, <2>3
    <2>5. n \in RecentSamples
      BY <1>1, <2>2, <2>4 DEF RecentSamples
    <2> HIDE DEF n
    <2>6. \A k \in RecentSamples : k \in Int /\ n >= k
      BY <1>1, <1>3
    <2>7. \A m \in RecentSamples : (\A k \in RecentSamples : m >= k) => m = n
      <3> SUFFICES ASSUME NEW m \in RecentSamples, \A k \in RecentSamples : m >= k PROVE m = n
        OBVIOUS
      <3>1. m >= n /\ n >= m /\ m \in Int /\ n \in Int
        BY <2>5, <2>6
      <3> QED
        BY <3>1
    <2>8. latest = n
      BY <2>5, <2>6, <2>7 DEF Max
    <2> QED
      BY <2>5, <2>8
  <1>5. \A i \in fallen : i \in 1 .. n /\ latest = n /\ n \in 1 .. n /\ samples[i].length > length
                          /\ samples[i].ts < samples[n].ts
    BY <1>3, <1>4
  <1> HIDE DEF fallen, latest, n
  <1>6. \A i \in fallen : rate(i) \in Rate
    <2> SUFFICES ASSUME NEW i \in fallen PROVE rate(i) \in Rate
      OBVIOUS
    <2>1. /\ samples[i].length \in Nat /\ samples[i].length > length
          /\ samples[i].ts \in Nat /\ samples[latest].ts \in Nat /\ samples[i].ts < samples[latest].ts
      BY <1>2, <1>5
    <2>2. samples[i].length - length \in Nat /\ samples[latest].ts - samples[i].ts \in Nat \ {0}
      BY <2>1
    <2> QED
      BY <2>2 DEF Rate
  <1>7. Still \in Rate
    BY DEF Still, Rate
  <1> HIDE DEF rate
  <1>8. f \in [1 .. n -> Rate]
    BY <1>6, <1>7
  <1>9. rates = {Still} \cup {f[i] : i \in 1 .. n}
    <2>1. \A i \in 1 .. n : f[i] = IF i \in fallen THEN rate(i) ELSE Still
      OBVIOUS
    <2> HIDE DEF f
    <2>2. \A i \in fallen : f[i] = rate(i) /\ i \in 1 .. n
      BY <1>5, <2>1
    <2> QED
      BY <2>1, <2>2
  <1> HIDE DEF f
  <1>10. Fastest({Still} \cup {f[i] : i \in 1 .. n}) \in {Still} \cup {f[i] : i \in 1 .. n}
    BY <1>1, <1>7, <1>8, OneIsBest
  <1>11. Fastest(rates) \in rates
    BY <1>9, <1>10
  <1>12. queue_drain_rate(length) = Fastest(rates)
    BY DEF queue_drain_rate, fallen, latest, rate
  <1>13. PICK i \in fallen : queue_drain_rate(length) = rate(i)
    BY <1>11, <1>12
  <1>14. samples # <<>>
    BY <1>1, <1>5, <1>13, EmptySeq DEF n
  <1> QED
    BY <1>1, <1>5, <1>13, <1>14 DEF rate, n

\* Whatever requests meet and however the page, the clock and the work go on:
\* what queue_drain_rate_per_min (services.py:102) counts was really taken off
\* the queue, in a period up to the reading that is longer than the one it divides
\* by only by less than a Gap and by the time for which the older length waited
\* until it was put down, unless a sample was taken after the reading.
THEOREM RateReal == Spec => []RateFounded
  <1>1. TypeOK /\ RateInv => RateFounded
    <2> SUFFICES ASSUME TypeOK, RateInv, NEW s \in Answerable,
                        queue_drain_rate(requests[s].length) # Still,
                        Last(samples).ts <= requests[s].read
                 PROVE  LET r == requests[s]
                            rate == queue_drain_rate(r.length)
                            InLast(n) == Cardinality({i \in DOMAIN parsed : parsed[i] \in r.read - n .. r.read})
                        IN  \E i \in DOMAIN samples :
                              \E n \in rate.ticks .. rate.ticks + (samples[i].ts - samples[i].read) + Gap - 1 :
                                  InLast(n) >= rate.jobs
      BY DEF RateFounded
    <2> DEFINE r == requests[s]
               rate == queue_drain_rate(r.length)
               last == samples[Len(samples)].ts
    <2>1. /\ r \in Request /\ r.read \in Nat /\ r.length \in Nat
          /\ Reading(r, samples, parsed, clock) /\ Fresh(r, samples)
      BY RateTypes DEF Answerable, RateInv, Request, HasRead
    <2>2. PICK i \in DOMAIN samples :
             /\ samples[i].length > r.length /\ samples[i].ts < last /\ samples # <<>>
             /\ rate = [jobs |-> samples[i].length - r.length, ticks |-> last - samples[i].ts]
      BY <2>1, RateOfSample
    <2> DEFINE t == samples[i].ts
               b == samples[i].read
               l == samples[i].length
               n == r.read - b
    <2>3. /\ t \in Nat /\ b \in Nat /\ b <= t /\ l \in Nat /\ last \in Nat /\ Gap \in Nat \ {0}
          /\ l > r.length /\ t < last /\ rate.jobs = l - r.length /\ rate.ticks = last - t
      <3>1. Len(samples) \in DOMAIN samples
        BY <2>2, RateTypes, EmptySeq, LenProperties
      <3>2. b <= t
        BY DEF RateInv, Sorted
      <3> QED
        BY <2>2, <3>1, <3>2, RateTypes, SampleType
    <2>4. last <= r.read /\ r.read < last + Gap
      <3>1. Last(samples).ts = last
        BY DEF Last
      <3> QED
        BY <2>1, <3>1 DEF Fresh
    <2>5. t < r.read => l <= r.length + Took(parsed, b, r.read)
      BY <2>1 DEF Reading
    <2> HIDE DEF r, rate, last, t, b, l
    <2>6. n \in rate.ticks .. rate.ticks + (t - b) + Gap - 1 /\ r.read - n = b
      BY <2>1, <2>3, <2>4
    <2>7. Took(parsed, b, r.read) \in Nat
      BY <2>1, <2>3, RateTypes, TookType
    <2>8. Took(parsed, b, r.read) >= rate.jobs
      BY <2>1, <2>3, <2>4, <2>5, <2>7
    <2>9. Cardinality({d \in DOMAIN parsed : parsed[d] \in r.read - n .. r.read}) >= rate.jobs
      BY <2>6, <2>8 DEF Took
    <2> HIDE DEF n
    <2> QED
      BY <2>6, <2>9 DEF r, rate, t, b
  <1> QED
    BY <1>1, RateInvariant, PTL
=============================================================================
