-------------------------- MODULE MapperRuns_proofs --------------------------
(***************************************************************************)
(* Theorems about MapperRuns, for any sites, numbers of runs, stops and    *)
(* replays, and combinations of failures: what the visited set, which      *)
(* outlives the runs, and the row of each run say about its crawl.         *)
(***************************************************************************)
EXTENDS MapperRuns, SequenceTheorems, FiniteSetTheorems, WellFoundedInduction, TLAPS

(***************************************************************************)
(* The part of the state that this is about.                               *)
(***************************************************************************)

Status == {"running", "completed", "interrupted"}
RunRow == [seed : URL, status : Status]

\* Where a run is at hand, the last one of `runs`.
InRun == {"seed", "add", "crawl", "finish"}

CrawlType ==
    /\ runs \in Seq(RunRow)
    /\ claimed \in Seq(SUBSET URL) /\ handed \in Seq(SUBSET URL) /\ marked \in Seq(SUBSET URL)
    /\ Len(claimed) = Len(runs) /\ Len(handed) = Len(runs) /\ Len(marked) = Len(runs)
    /\ shut \in BOOLEAN
    /\ input \in Seq(URL \cup Invalid)
    /\ visited \subseteq URL /\ frontier \subseteq URL
    /\ pc \in PC /\ stopping \in BOOLEAN
    /\ pc \in InRun \cup {"start"} => seed \in URL
    /\ pc \in InRun => Len(runs) > 0

\* What entered a frontier was new to the visited set and is in it since, so
\* that no two runs share a page; what was taken up had entered.
ClaimsApart ==
    /\ \A q, r \in Run : q # r => claimed[q] \cap claimed[r] = {}
    /\ \A r \in Run : claimed[r] \subseteq visited /\ handed[r] \subseteq claimed[r]

\* The frontier of the run at hand is what it has still to take up.
FrontierInv ==
    /\ pc # "crawl" => frontier = {}
    /\ pc = "crawl" => frontier \subseteq claimed[run] /\ claimed[run] \subseteq handed[run] \cup frontier
    /\ pc = "finish" /\ ~stopping => handed[run] = claimed[run]
    /\ pc \in {"seed", "add"} => claimed[run] = {}

\* While the stores answer, nothing is marked that does not enter the frontier.
calm == faults \cap {"redis", "postgres"} = {} /\ ~stopping

MarkedInv ==
    /\ pc \in {"seed", "add"} => marked[run] = {}
    /\ calm /\ pc \in {"crawl", "finish"} => marked[run] = claimed[run]
    /\ calm => ~shut

\* The run at hand is open, a run that is open otherwise has crawled nothing
\* short of a crash or a failing Postgres, and one that completed is whole.
StatusInv ==
    /\ pc \in InRun => runs[run].status = "running"
    /\ CompletedIsWhole
    /\ CrawledRunsEnd

CrawlInv == CrawlType /\ ClaimsApart /\ FrontierInv /\ MarkedInv /\ StatusInv

(***************************************************************************)
(* The steps that leave all this as it is.                                 *)
(***************************************************************************)

crawling == <<visited, runs, pc, stopping, seed, frontier, shut, faults, ledger>>

LEMMA Untouched ==
    ASSUME CrawlInv, UNCHANGED crawling, input' \in Seq(URL \cup Invalid)
    PROVE  CrawlInv'
  BY DEF CrawlInv, CrawlType, ClaimsApart, FrontierInv, MarkedInv, calm, StatusInv, CompletedIsWhole,
         CrawledRunsEnd, Run, run, crawling, ledger

LEMMA ReplayUntouched ==
    ASSUME CrawlInv, (\E d \in Domain : ReplayStart(d)) \/ Replay \/ UNCHANGED vars \/ PopTimeout
    PROVE  CrawlInv'
  <1>1. UNCHANGED crawling /\ input' = input
    BY DEF ReplayStart, Replay, ReplayRead, ReplayEnd, ReplayPush, ReplayFails, PopTimeout, vars,
           lists, crawled, process, history, crawling
  <1> QED
    BY <1>1, Untouched DEF CrawlInv, CrawlType

(***************************************************************************)
(* The run at hand changes, and the others stay as they are.               *)
(***************************************************************************)

LEMMA TailType ==
    ASSUME CrawlType, input # <<>>
    PROVE  Tail(input) \in Seq(URL \cup Invalid) /\ Head(input) \in URL \cup Invalid
  BY HeadTailProperties DEF CrawlType

LEMMA LoopStartInv ==
    ASSUME CrawlInv, Pop \/ StartRun \/ StartRunFails \/ StoreSeed \/ StoreSeedFails
    PROVE  CrawlInv'
  <1> USE DEF CrawlInv, CrawlType, ClaimsApart, FrontierInv, MarkedInv, calm, StatusInv,
              CompletedIsWhole, CrawledRunsEnd, Run, run, InRun, ledger
  <1>1. CASE Pop
    <2>1. input # <<>> /\ input' = Tail(input) /\ pc = "pop"
          /\ UNCHANGED <<visited, runs, stopping, frontier, shut, faults, ledger>>
      BY <1>1 DEF Pop, crawled, history
    <2>2. pc' \in {"pop", "start"} /\ (pc' = "start" => seed' \in URL)
      BY <1>1, <2>1, TailType DEF Pop
    <2> QED
      BY <2>1, <2>2, TailType DEF PC
  <1>2. ASSUME pc = "start", OpenRun, pc' \in {"seed", "pop"},
               UNCHANGED <<input, visited, stopping, seed, frontier, shut, faults>>
        PROVE  CrawlInv'
    <2>1. [seed |-> seed, status |-> "running"] \in RunRow
      BY <1>2 DEF Status, RunRow
    <2>2. /\ runs' \in Seq(RunRow) /\ Len(runs') = Len(runs) + 1
          /\ claimed' \in Seq(SUBSET URL) /\ Len(claimed') = Len(runs) + 1
          /\ handed' \in Seq(SUBSET URL) /\ Len(handed') = Len(runs) + 1
          /\ marked' \in Seq(SUBSET URL) /\ Len(marked') = Len(runs) + 1
      BY <1>2, <2>1, AppendProperties DEF OpenRun
    <2>3. \A r \in 1 .. Len(runs) : /\ runs'[r] = runs[r] /\ claimed'[r] = claimed[r]
                                    /\ handed'[r] = handed[r] /\ marked'[r] = marked[r]
      BY <1>2, <2>1, AppendProperties DEF OpenRun
    <2>4. /\ runs'[Len(runs) + 1].status = "running"
          /\ claimed'[Len(runs) + 1] = {} /\ handed'[Len(runs) + 1] = {}
          /\ marked'[Len(runs) + 1] = {}
      BY <1>2, <2>1, AppendProperties DEF OpenRun
    <2>5. Len(runs) \in Nat /\ DOMAIN runs = 1 .. Len(runs) /\ DOMAIN runs' = 1 .. Len(runs) + 1
      BY <2>2, LenProperties
    <2>6. ClaimsApart'
      <3>1. \A q, r \in Run' : q # r => claimed'[q] \cap claimed'[r] = {}
        BY SMTT(30), <2>3, <2>4, <2>5
      <3>2. \A r \in Run' : claimed'[r] \subseteq visited' /\ handed'[r] \subseteq claimed'[r]
        BY <1>2, <2>3, <2>4, <2>5
      <3> QED
        BY <3>1, <3>2
    <2>7. FrontierInv' /\ MarkedInv'
      BY <1>2, <2>2, <2>4, <2>5
    <2>8. StatusInv'
      <3>1. \A r \in Run' : r \in DOMAIN runs \/ r = Len(runs) + 1
        BY <2>5
      <3>2. CompletedIsWhole'
        BY <1>2, <2>3, <2>4, <2>5, <3>1
      <3>3. CrawledRunsEnd'
        BY <1>2, <2>2, <2>3, <2>4, <2>5, <3>1
      <3> QED
        BY <1>2, <2>2, <2>4, <3>2, <3>3
    <2>9. CrawlType'
      BY <1>2, <2>2, <2>5 DEF PC
    <2> QED
      BY <2>6, <2>7, <2>8, <2>9
  <1>3. CASE StartRun \/ StartRunFails
    <2>1. CASE OpenRun
      BY <1>2, <1>3, <2>1 DEF StartRun, StartRunFails, lists, crawled, process, history
    <2>2. CASE UNCHANGED <<runs, ledger>> /\ ~OpenRun
      BY <1>3, <2>2 DEF StartRun, StartRunFails, lists, crawled, process, history, PC
    <2> QED
      BY <1>3, <2>1, <2>2 DEF StartRun, StartRunFails
  <1>4. CASE StoreSeed \/ StoreSeedFails
    <2>1. /\ pc = "seed" /\ pc' \in {"add", "pop"}
          /\ UNCHANGED <<input, visited, runs, stopping, seed, frontier, shut, faults, ledger>>
      BY <1>4 DEF StoreSeed, StoreSeedFails, lists, process, history
    <2>2. CrawlType' /\ ClaimsApart'
      BY <2>1 DEF PC
    <2>3. FrontierInv' /\ MarkedInv'
      BY <2>1
    <2>4. StatusInv'
      BY <2>1
    <2> QED
      BY <2>2, <2>3, <2>4
  <1> QED
    BY <1>1, <1>3, <1>4

\* The pages of the run at hand are more by `S`.
Extended(old, new, S) ==
    /\ new \in Seq(SUBSET URL) /\ Len(new) = Len(runs)
    /\ new[run] = old[run] \cup S
    /\ \A r \in 1 .. Len(runs) : r # run => new[r] = old[r]

LEMMA Extending ==
    ASSUME NEW old \in Seq(SUBSET URL), Len(old) = Len(runs), Len(runs) > 0, Len(runs) \in Nat,
           NEW S \in SUBSET URL
    PROVE  /\ Extended(old, [old EXCEPT ![run] = @ \cup S], S)
           /\ Extended(old, old, {})
  <1> DEFINE more == old[run] \cup S
  <1>1. old \in [1 .. Len(runs) -> SUBSET URL] /\ run \in 1 .. Len(runs)
    BY LenProperties DEF run
  <1>2. more \in SUBSET URL
    BY <1>1
  <1> HIDE DEF more
  <1>3. [old EXCEPT ![run] = more] \in Seq(SUBSET URL) /\ Len([old EXCEPT ![run] = more]) = Len(runs)
    BY <1>1, <1>2, ExceptSeq
  <1> USE DEF more
  <1> QED
    BY <1>1, <1>3 DEF Extended

\* The run at hand takes up `taken`, marks `more`, and lets `found` into its
\* frontier.
Grows(found, taken, more) ==
    /\ pc \in {"add", "crawl"} /\ pc' = "crawl"
    /\ found \subseteq URL /\ found \cap visited = {} /\ taken \subseteq frontier
    /\ visited \cup found \subseteq visited' /\ visited' \subseteq URL
    /\ frontier' = (frontier \ taken) \cup found
    /\ Extended(claimed, claimed', found) /\ Extended(handed, handed', taken)
    /\ Extended(marked, marked', more)
    /\ shut' \in BOOLEAN /\ (calm => more = found /\ ~shut')
    /\ UNCHANGED <<input, runs, stopping, seed, faults>>

LEMMA CrawlStepInv ==
    ASSUME CrawlInv, NEW found, NEW taken, NEW more, Grows(found, taken, more)
    PROVE  CrawlInv'
  <1> USE DEF CrawlInv, CrawlType, ClaimsApart, FrontierInv, MarkedInv, calm, StatusInv,
              CompletedIsWhole, CrawledRunsEnd, Run, run, InRun, ledger, Grows
  <1>1. /\ Len(runs) \in Nat /\ Len(runs) > 0 /\ DOMAIN runs = 1 .. Len(runs) /\ run \in DOMAIN runs
        /\ DOMAIN claimed = 1 .. Len(runs) /\ DOMAIN handed = 1 .. Len(runs)
        /\ DOMAIN marked = 1 .. Len(runs)
    BY LenProperties
  <1>2. /\ marked \in [1 .. Len(runs) -> SUBSET URL]
        /\ claimed \in [1 .. Len(runs) -> SUBSET URL] /\ handed \in [1 .. Len(runs) -> SUBSET URL]
    BY LenProperties
  <1>3. /\ claimed'[run] = claimed[run] \cup found /\ handed'[run] = handed[run] \cup taken
        /\ marked'[run] = marked[run] \cup more
        /\ \A r \in DOMAIN runs : r # run => /\ claimed'[r] = claimed[r] /\ handed'[r] = handed[r]
                                            /\ marked'[r] = marked[r]
    BY <1>1, <1>2 DEF Extended
  <1>4. /\ claimed' \in Seq(SUBSET URL) /\ Len(claimed') = Len(runs)
        /\ handed' \in Seq(SUBSET URL) /\ Len(handed') = Len(runs)
        /\ marked' \in Seq(SUBSET URL) /\ Len(marked') = Len(runs)
    BY DEF Extended
  <1>5. CrawlType'
    BY <1>1, <1>4 DEF PC
  <1>6. ClaimsApart'
    <2>1. \A q, r \in DOMAIN runs : q # r => claimed'[q] \cap claimed'[r] = {}
      BY <1>1, <1>3
    <2>2. \A r \in DOMAIN runs : claimed'[r] \subseteq visited' /\ handed'[r] \subseteq claimed'[r]
      BY <1>1, <1>3
    <2> QED
      BY <2>1, <2>2
  <1>7. FrontierInv'
    BY <1>1, <1>3
  <1>8. MarkedInv'
    BY <1>1, <1>3
  <1>9. StatusInv'
    <2>1. \A r \in DOMAIN runs : runs[r].status = "completed" => r # run
      BY <1>1
    <2>2. CompletedIsWhole'
      BY <1>1, <1>3, <2>1
    <2>3. CrawledRunsEnd'
      BY <1>1, <1>3
    <2> QED
      BY <1>1, <2>2, <2>3
  <1> QED
    BY <1>5, <1>6, <1>7, <1>8, <1>9

\* What Enters writes down.
LEMMA Entering ==
    ASSUME CrawlInv, pc \in InRun, visited' \subseteq URL, NEW S \in SUBSET URL, Enters(S)
    PROVE  /\ Extended(claimed, claimed', S) /\ Extended(marked, marked', visited' \ visited)
           /\ Extended(handed, handed, {})
           /\ \A T \in SUBSET URL : Extended(handed, [handed EXCEPT ![run] = @ \cup T], T)
  <1>1. /\ claimed \in Seq(SUBSET URL) /\ handed \in Seq(SUBSET URL) /\ marked \in Seq(SUBSET URL)
        /\ Len(claimed) = Len(runs) /\ Len(handed) = Len(runs) /\ Len(marked) = Len(runs)
        /\ Len(runs) \in Nat /\ Len(runs) > 0
    BY LenProperties DEF CrawlInv, CrawlType
  <1> DEFINE more == visited' \ visited
  <1>2. more \in SUBSET URL
    OBVIOUS
  <1>3. claimed' = [claimed EXCEPT ![run] = @ \cup S] /\ marked' = [marked EXCEPT ![run] = @ \cup more]
    BY DEF Enters
  <1> HIDE DEF more
  <1>4. Extended(claimed, claimed', S)
    BY <1>1, <1>3, Extending
  <1>5. Extended(marked, marked', more)
    BY <1>1, <1>2, <1>3, Extending
  <1>6. {} \in SUBSET URL
    OBVIOUS
  <1>7. Extended(handed, handed, {})
    BY <1>1, <1>6, Extending
  <1>8. \A T \in SUBSET URL : Extended(handed, [handed EXCEPT ![run] = @ \cup T], T)
    BY <1>1, Extending
  <1> QED
    BY <1>4, <1>5, <1>7, <1>8 DEF more

\* What enters the frontier was found; all of it does while the stores answer.
LEMMA PushedOf ==
    ASSUME CrawlInv, NEW found, NEW entered \in Pushed(found)
    PROVE  entered \subseteq found /\ (calm => entered = found)
  <1>1. calm => ~shut /\ ~MayFail("redis")
    BY DEF CrawlInv, MarkedInv, calm, MayFail
  <1> QED
    BY <1>1 DEF Pushed

LEMMA FoundInv ==
    ASSUME CrawlInv, NEW u \in frontier, NEW entered \in Pushed(New(Links[u])), Found(u, entered)
    PROVE  CrawlInv'
  <1>1. /\ visited \subseteq URL /\ u \in URL /\ Links[u] \subseteq URL
        /\ pc = "crawl" /\ pc \in InRun /\ shut \in BOOLEAN
    BY RunsAssumption DEF Found, TakenUp, InRun, CrawlInv, CrawlType
  <1>2. /\ pc' = "crawl" /\ visited' = visited \cup Links[u]
        /\ frontier' = (frontier \ {u}) \cup entered
        /\ Enters(entered) /\ handed' = [handed EXCEPT ![run] = @ \cup {u}]
        /\ UNCHANGED <<input, runs, stopping, seed, shut, faults>>
    BY <1>1 DEF Found, TakenUp, lists, history
  <1>3. entered \subseteq Links[u] \ visited /\ (calm => entered = Links[u] \ visited /\ ~shut)
    BY PushedOf DEF New, CrawlInv, MarkedInv
  <1>4. /\ entered \in SUBSET URL /\ entered \cap visited = {} /\ {u} \in SUBSET URL /\ {u} \subseteq frontier
        /\ visited \cup entered \subseteq visited' /\ visited' \subseteq URL
        /\ visited' \ visited = Links[u] \ visited
    BY <1>1, <1>2, <1>3
  <1> DEFINE more == visited' \ visited
  <1>5. Extended(claimed, claimed', entered) /\ Extended(handed, handed', {u}) /\ Extended(marked, marked', more)
    BY <1>1, <1>2, <1>4, Entering
  <1>6. calm => more = entered /\ ~shut'
    BY <1>2, <1>3, <1>4
  <1> HIDE DEF more
  <1>7. Grows(entered, {u}, more)
    BY <1>1, <1>2, <1>4, <1>5, <1>6 DEF Grows
  <1> QED
    BY <1>7, CrawlStepInv

LEMMA CrawlingInv ==
    ASSUME CrawlInv,
           \/ AddSeed \/ AddSeedFails \/ AddSeedUnstored
           \/ \E u \in frontier : Page(u) \/ PageFails(u) \/ StoreFails(u)
    PROVE  CrawlInv'
  <1>1. visited \subseteq URL /\ frontier \subseteq URL /\ shut \in BOOLEAN
    BY DEF CrawlInv, CrawlType
  <1> DEFINE more == visited' \ visited
  <1>2. CASE AddSeed
    <2> DEFINE found == {seed} \ visited
    <2>1. pc = "add" /\ pc \in InRun /\ seed \in URL /\ frontier = {}
      BY <1>2 DEF AddSeed, CrawlInv, CrawlType, FrontierInv, InRun
    <2>2. /\ pc' = "crawl" /\ visited' = visited \cup {seed} /\ frontier' = (frontier \ {}) \cup found
          /\ Enters(found) /\ handed' = handed /\ UNCHANGED <<input, runs, stopping, seed, shut, faults>>
      BY <1>2, <2>1 DEF AddSeed, New, lists, history
    <2>3. /\ found \in SUBSET URL /\ found \cap visited = {} /\ more = found
          /\ visited \cup found \subseteq visited' /\ visited' \subseteq URL
      BY <1>1, <2>1, <2>2
    <2> HIDE DEF found
    <2>4. Extended(claimed, claimed', found) /\ Extended(handed, handed', {}) /\ Extended(marked, marked', more)
      BY <2>1, <2>2, <2>3, Entering
    <2>5. calm => more = found /\ ~shut'
      BY <2>2, <2>3 DEF CrawlInv, MarkedInv
    <2> HIDE DEF more
    <2>6. Grows(found, {}, more)
      BY <1>1, <2>1, <2>2, <2>3, <2>4, <2>5 DEF Grows
    <2> QED
      BY <2>6, CrawlStepInv
  <1>3. CASE AddSeedFails
    <2>1. pc = "add" /\ pc \in InRun /\ seed \in URL /\ frontier = {} /\ ~calm
      BY <1>3 DEF AddSeedFails, CrawlInv, CrawlType, FrontierInv, InRun, MayFail, calm
    <2>2. /\ pc' = "crawl" /\ visited' \in {visited, visited \cup {seed}}
          /\ frontier' = (frontier \ {}) \cup {}
          /\ Enters({}) /\ handed' = handed /\ UNCHANGED <<input, runs, stopping, seed, shut, faults>>
      BY <1>3 DEF AddSeedFails, lists, history, process
    <2>3. visited \subseteq visited' /\ visited' \subseteq URL /\ {} \in SUBSET URL
      BY <1>1, <2>1, <2>2
    <2>4. Extended(claimed, claimed', {}) /\ Extended(handed, handed', {}) /\ Extended(marked, marked', more)
      BY <2>1, <2>2, <2>3, Entering
    <2> HIDE DEF more
    <2>5. Grows({}, {}, more)
      BY <1>1, <2>1, <2>2, <2>3, <2>4 DEF Grows
    <2> QED
      BY <2>5, CrawlStepInv
  <1>4. CASE AddSeedUnstored
    <2>1. pc = "add" /\ pc \in InRun /\ seed \in URL /\ frontier = {} /\ seed \notin visited /\ ~calm
      BY <1>4 DEF AddSeedUnstored, CrawlInv, CrawlType, FrontierInv, InRun, MayFail, calm
    <2>2. /\ pc' = "crawl" /\ visited' = visited \cup {seed} /\ shut' \in BOOLEAN
          /\ frontier' = (frontier \ {}) \cup {seed}
          /\ Enters({seed}) /\ handed' = handed /\ UNCHANGED <<input, runs, stopping, seed, faults>>
      BY <1>4, <2>1 DEF AddSeedUnstored, lists, history
    <2>3. /\ visited \cup {seed} \subseteq visited' /\ visited' \subseteq URL /\ {seed} \in SUBSET URL
          /\ {seed} \cap visited = {}
      BY <1>1, <2>1, <2>2
    <2>4. Extended(claimed, claimed', {seed}) /\ Extended(handed, handed', {}) /\ Extended(marked, marked', more)
      BY <2>1, <2>2, <2>3, Entering
    <2> HIDE DEF more
    <2>5. Grows({seed}, {}, more)
      BY <2>1, <2>2, <2>3, <2>4 DEF Grows
    <2> QED
      BY <2>5, CrawlStepInv
  <1>5. ASSUME NEW u \in frontier, Page(u) \/ StoreFails(u) PROVE CrawlInv'
    <2>1. PICK entered \in Pushed(New(Links[u])) : Found(u, entered)
      BY <1>5 DEF Page, StoreFails
    <2> QED
      BY <2>1, FoundInv
  <1>6. ASSUME NEW u \in frontier, PageFails(u) PROVE CrawlInv'
    <2>1. u \in URL /\ Links[u] \subseteq URL /\ pc = "crawl" /\ pc \in InRun
      BY <1>1, <1>6, RunsAssumption DEF PageFails, TakenUp, InRun
    <2>2. /\ pc' = "crawl" /\ visited \subseteq visited' /\ visited' \subseteq URL
          /\ frontier' = (frontier \ {u}) \cup {} /\ Enters({})
          /\ handed' = [handed EXCEPT ![run] = @ \cup {u}]
          /\ UNCHANGED <<input, runs, stopping, seed, shut, faults>>
      BY <1>1, <1>6, <2>1 DEF PageFails, TakenUp, lists, history
    <2>3. calm => visited' = visited
      BY <1>6 DEF PageFails, MayFail, calm
    <2>4. /\ Extended(claimed, claimed', {}) /\ Extended(handed, handed', {u}) /\ Extended(marked, marked', more)
          /\ {u} \subseteq frontier
      <3>1. {} \in SUBSET URL /\ {u} \in SUBSET URL
        BY <2>1
      <3> QED
        BY <2>1, <2>2, <3>1, Entering
    <2>5. calm => more = {} /\ ~shut'
      BY <2>2, <2>3 DEF CrawlInv, MarkedInv
    <2> HIDE DEF more
    <2>6. Grows({}, {u}, more)
      BY <1>1, <2>1, <2>2, <2>4, <2>5 DEF Grows
    <2> QED
      BY <2>6, CrawlStepInv
  <1> QED
    BY <1>2, <1>3, <1>4, <1>5, <1>6

(***************************************************************************)
(* The end of a run and of the process.                                    *)
(***************************************************************************)

LEMMA LoopEndInv ==
    ASSUME CrawlInv, Flush \/ FlushFails \/ CrawlEnds \/ Finish \/ FinishFails \/ Exit
    PROVE  CrawlInv'
  <1> USE DEF CrawlInv, CrawlType, ClaimsApart, FrontierInv, MarkedInv, calm, StatusInv,
              CompletedIsWhole, CrawledRunsEnd, Run, run, InRun, ledger
  <1>1. CASE Flush \/ FlushFails
    <2>1. UNCHANGED crawling /\ input' = input
      BY <1>1 DEF Flush, FlushFails, crawled, history, crawling
    <2> QED
      BY <2>1, Untouched
  <1>2. CASE CrawlEnds
    <2>1. /\ pc = "crawl" /\ pc' = "finish" /\ (frontier = {} \/ stopping) /\ frontier' = {}
          /\ shut' = FALSE /\ UNCHANGED <<input, visited, runs, stopping, seed, faults, ledger>>
      BY <1>2 DEF CrawlEnds, lists, crawled, history
    <2>2. run \in DOMAIN runs
      BY <2>1, LenProperties
    <2>3. FrontierInv' /\ MarkedInv'
      BY <2>1, <2>2
    <2>4. CrawlType' /\ ClaimsApart'
      BY <2>1 DEF PC
    <2>5. StatusInv'
      BY <2>1
    <2> QED
      BY <2>3, <2>4, <2>5
  <1>3. CASE Finish
    <2>1. pc = "finish" /\ Len(runs) \in Nat /\ Len(runs) > 0
      BY <1>3, LenProperties DEF Finish
    <2>2. /\ run \in DOMAIN runs /\ DOMAIN runs = 1 .. Len(runs)
          /\ runs \in [1 .. Len(runs) -> RunRow]
      <3>1. runs \in Seq(RunRow)
        OBVIOUS
      <3> QED
        BY <2>1, <3>1, LenProperties
    <2>3. runStatus \in Status /\ (runStatus = "completed" => ~stopping) /\ runStatus # "running"
      BY DEF runStatus, Status
    <2> DEFINE closed == [runs[run] EXCEPT !.status = runStatus]
    <2>4. runs' = [runs EXCEPT ![run] = closed]
      BY <1>3 DEF Finish
    <2>5. closed \in RunRow /\ closed.status = runStatus
      <3> HIDE DEF runStatus, run
      <3>1. runs[run] \in RunRow
        BY <2>2
      <3> QED
        BY <2>3, <3>1 DEF RunRow
    <2> HIDE DEF closed
    <2>6. /\ runs' \in [1 .. Len(runs) -> RunRow]
          /\ runs'[run].status = runStatus
          /\ \A r \in DOMAIN runs : r # run => runs'[r] = runs[r]
      BY <2>2, <2>4, <2>5
    <2>7. runs' \in Seq(RunRow) /\ Len(runs') = Len(runs) /\ DOMAIN runs' = DOMAIN runs
      BY <2>2, <2>4, <2>5, ExceptSeq
    <2>8. /\ pc = "finish" /\ pc' = "pop"
          /\ UNCHANGED <<input, visited, stopping, seed, frontier, shut, faults, ledger>>
      BY <1>3 DEF Finish, lists, crawled, process, history
    <2> QED
      <3>1. CrawlType' /\ ClaimsApart' /\ FrontierInv' /\ MarkedInv'
        BY <2>7, <2>8 DEF PC
      <3>2. CompletedIsWhole'
        BY <2>1, <2>2, <2>3, <2>6, <2>7, <2>8
      <3>3. CrawledRunsEnd'
        <4>1. /\ runs'[run].status # "running" /\ claimed' = claimed /\ faults' = faults
              /\ Run' = Run /\ \A r \in Run : r # run => runs'[r] = runs[r]
          BY <2>3, <2>6, <2>7, <2>8
        <4>2. faults \cap {"postgres", "crash"} = {} =>
                \A r \in Run : runs[r].status = "running" /\ claimed[r] # {} => r = run
          BY <2>8
        <4> HIDE DEF run, Run
        <4> QED
          BY <4>1, <4>2
      <3> QED
        BY <2>8, <3>1, <3>2, <3>3
  <1>4. CASE FinishFails
    BY <1>4 DEF FinishFails, lists, crawled, process, history, PC
  <1>5. CASE Exit
    BY <1>5 DEF Exit, Forget, lists, crawled, PC
  <1> QED
    BY <1>1, <1>2, <1>3, <1>4, <1>5

LEMMA LifeInv ==
    ASSUME CrawlInv, (\E q \in URL \cup Invalid : Enqueue(q)) \/ Signal \/ Crash \/ Restart
    PROVE  CrawlInv'
  <1>1. CASE \E q \in URL \cup Invalid : Enqueue(q)
    <2>1. PICK q \in URL \cup Invalid : Enqueue(q)
      BY <1>1
    <2>2. UNCHANGED crawling /\ input' \in Seq(URL \cup Invalid)
      BY <2>1, AppendProperties DEF Enqueue, crawled, process, crawling, CrawlInv, CrawlType
    <2> QED
      BY <2>2, Untouched
  <1> USE DEF CrawlInv, CrawlType, ClaimsApart, FrontierInv, MarkedInv, calm, StatusInv,
              CompletedIsWhole, CrawledRunsEnd, Run, run, InRun, ledger
  <1>2. CASE Signal
    <2>1. input' \in Seq(URL \cup Invalid)
      BY <1>2, TailType DEF Signal
    <2> QED
      BY <1>2, <2>1 DEF Signal, crawled
  <1>3. CASE Crash
    BY <1>3 DEF Crash, Forget, lists, crawled, PC
  <1>4. CASE Restart
    BY <1>4 DEF Restart, lists, crawled, process, history, PC
  <1> QED
    BY <1>1, <1>2, <1>3, <1>4

LEMMA CrawlInvariant == Spec => []CrawlInv
  <1>1. Init => CrawlInv
    <2> SUFFICES ASSUME Init PROVE CrawlInv
      OBVIOUS
    <2>1. runs = <<>> /\ claimed = <<>> /\ handed = <<>> /\ marked = <<>> /\ DOMAIN runs = {}
      BY DEF Init
    <2>2. /\ pc = "pop" /\ stopping = FALSE /\ input = <<>> /\ visited = {} /\ frontier = {}
          /\ shut = FALSE
      BY DEF Init
    <2>3. CrawlType
      BY <2>1, <2>2, EmptySeq DEF CrawlType, InRun, PC
    <2>4. ClaimsApart /\ FrontierInv /\ MarkedInv /\ StatusInv
      BY <2>1, <2>2 DEF ClaimsApart, FrontierInv, MarkedInv, StatusInv, CompletedIsWhole, CrawledRunsEnd, Run, InRun
    <2> QED
      BY <2>3, <2>4 DEF CrawlInv
  <1>2. CrawlInv /\ [Next]_vars => CrawlInv'
    BY ReplayUntouched, LoopStartInv, CrawlingInv, LoopEndInv, LifeInv DEF Next, Loop
  <1> QED
    BY <1>1, <1>2, PTL DEF Spec

\* The visited set in Redis outlives the runs (main.go:277-302): no page is taken up
\* by two of them, for any number of requests for the same seed, of processes that
\* stop or die, and of commands that fail after they took effect.
THEOREM PagesOfOneRun == Spec => []CrawledOnce
  <1>1. CrawlInv => CrawledOnce
    BY DEF CrawlInv, ClaimsApart, CrawledOnce
  <1> QED
    BY <1>1, CrawlInvariant, PTL

\* A run that finishRun marked completed (main.go:181) took up every page that
\* entered its frontier, whenever the signal came, and, unless Redis or Postgres
\* failed, everything that it put into the visited set.
THEOREM CompletedWhole == Spec => []CompletedIsWhole
  <1>1. CrawlInv => CompletedIsWhole
    BY DEF CrawlInv, StatusInv
  <1> QED
    BY <1>1, CrawlInvariant, PTL

\* Short of a failing Postgres and of crashes every run that crawled anything is
\* closed, as finishRun has a context of its own (main.go:180).
THEOREM RunsClosed == Spec => []CrawledRunsEnd
  <1>1. CrawlInv => CrawledRunsEnd
    BY DEF CrawlInv, StatusInv
  <1> QED
    BY <1>1, CrawlInvariant, PTL

(***************************************************************************)
(* The sequences that Picked and SetToSeq make.                            *)
(***************************************************************************)

\* Induction on the numbers, for what is said by membership in a set.
LEMMA Inductive ==
    ASSUME NEW G, 0 \in G, \A n \in Nat : n \in G => n + 1 \in G
    PROVE  \A n \in Nat : n \in G
  <1> DEFINE bad == {n \in Nat : n \notin G}
  <1> SUFFICES ASSUME bad # {} PROVE FALSE
    OBVIOUS
  <1>1. \E k \in bad : \A i \in bad : ~ (<<i, k>> \in OpToRel(<, Nat))
    <2>1. bad \subseteq Nat
      OBVIOUS
    <2> HIDE DEF bad
    <2> QED
      BY <2>1, NatLessThanWellFounded, WFMin
  <1>2. PICK k \in bad : \A i \in bad : ~ (<<i, k>> \in OpToRel(<, Nat))
    BY <1>1
  <1>3. k \in Nat /\ k # 0 /\ k - 1 \in Nat /\ (k - 1) + 1 = k
    OBVIOUS
  <1>4. <<k - 1, k>> \in OpToRel(<, Nat)
    <2>1. OpToRel(<, Nat) = {ss \in Nat \X Nat : ss[1] < ss[2]}
      BY DEF OpToRel
    <2>2. <<k - 1, k>> \in Nat \X Nat /\ k - 1 < k
      BY <1>3
    <2>3. <<k - 1, k>>[1] = k - 1 /\ <<k - 1, k>>[2] = k
      OBVIOUS
    <2> DEFINE ss == <<k - 1, k>>
    <2> HIDE DEF ss
    <2>4. ss \in Nat \X Nat /\ ss[1] < ss[2]
      BY <2>2, <2>3 DEF ss
    <2>5. ss \in OpToRel(<, Nat)
      BY <2>1, <2>4
    <2> QED
      BY <2>5 DEF ss
  <1>5. k - 1 \notin bad
    BY <1>2, <1>4
  <1> QED
    BY <1>2, <1>3, <1>5

\* The functions that list a set of numbers in order.
Orders(P) ==
    {f \in [1 .. Cardinality(P) -> P] : \A a, b \in DOMAIN f : a < b => f[a] < f[b]}

LEMMA Ordered ==
    ASSUME NEW m \in Nat, NEW P \in SUBSET (1 .. m)
    PROVE  Orders(P) # {} /\ IsFiniteSet(P) /\ Cardinality(P) \in Nat
  <1> DEFINE upTo(n) == {i \in P : i <= n}
             G == {n \in Nat : Orders(upTo(n)) # {}}
  <1>0. \A i \in P : i \in Nat /\ 1 <= i /\ i <= m
    OBVIOUS
  <1>1. ASSUME NEW n \in Nat PROVE IsFiniteSet(upTo(n)) /\ Cardinality(upTo(n)) \in Nat
    <2>1. upTo(n) \in SUBSET Nat /\ \A i \in upTo(n) : i <= n
      BY <1>0
    <2> HIDE DEF upTo
    <2> QED
      BY <2>1, FS_BoundedSetOfNaturals, FS_CardinalityType
  <1>2. 0 \in G
    <2>1. upTo(0) = {}
      <3>1. \A i \in P : ~(i <= 0)
        BY <1>0
      <3> QED
        BY <3>1
    <2>2. Cardinality({}) = 0
      BY FS_EmptySet
    <2>3. [i \in {} |-> 0] \in Orders({})
      BY <2>2 DEF Orders
    <2> HIDE DEF upTo
    <2> QED
      BY <2>1, <2>3
  <1>3. ASSUME NEW n \in Nat, n \in G PROVE n + 1 \in G
    <2>1. CASE n + 1 \notin P
      <3>1. upTo(n + 1) = upTo(n)
        <4>1. \A i \in P : i <= n + 1 <=> i <= n
          BY <1>0, <1>3, <2>1
        <4> QED
          BY <4>1
      <3> HIDE DEF upTo
      <3> QED
        BY <1>3, <3>1
    <2>2. CASE n + 1 \in P
      <3> DEFINE old == upTo(n)
                 new == upTo(n + 1)
                 k == Cardinality(old)
      <3>1. new = old \cup {n + 1} /\ n + 1 \notin old /\ \A i \in old : i \in Nat /\ i < n + 1
        <4>1. \A i \in P : i <= n + 1 <=> i <= n \/ i = n + 1
          BY <1>0, <1>3
        <4>2. \A i \in old : i \in Nat /\ i < n + 1
          BY <1>0, <1>3
        <4>3. n + 1 \notin old
          BY <1>3
        <4> QED
          BY <2>2, <4>1, <4>2, <4>3
      <3>2. IsFiniteSet(old) /\ k \in Nat
        BY <1>1
      <3>3. PICK f \in Orders(old) : TRUE
        BY <1>3
      <3> HIDE DEF old, new, k
      <3>4. Cardinality(new) = k + 1
        BY <3>1, <3>2, FS_AddElement DEF k
      <3>5. /\ f \in [1 .. k -> old]
            /\ \A a, b \in 1 .. k : a < b => f[a] < f[b]
        BY <3>3 DEF Orders, k
      <3> DEFINE g == [i \in 1 .. k + 1 |-> IF i = k + 1 THEN n + 1 ELSE f[i]]
      <3>6. g \in [1 .. k + 1 -> new]
        BY <3>1, <3>2, <3>5
      <3>7. ASSUME NEW a \in 1 .. k + 1, NEW b \in 1 .. k + 1, a < b PROVE g[a] < g[b]
        <4>1. a \in 1 .. k /\ a # k + 1
          BY <3>2, <3>7
        <4>2. CASE b = k + 1
          BY <3>1, <3>5, <4>1, <4>2
        <4>3. CASE b # k + 1
          <5>1. b \in 1 .. k
            BY <3>2, <4>3
          <5> QED
            BY <3>5, <3>7, <4>1, <4>3, <5>1
        <4> QED
          BY <4>2, <4>3
      <3>8. g \in Orders(new)
        BY <3>4, <3>6, <3>7 DEF Orders
      <3> HIDE DEF g
      <3>9. Orders(new) # {}
        BY <3>8
      <3> QED
        BY <3>9 DEF new
    <2> QED
      BY <2>1, <2>2
  <1>4. m \in G
    <2> HIDE DEF G
    <2> QED
      BY <1>2, <1>3, Inductive
  <1>5. upTo(m) = P
    BY <1>0
  <1> QED
    BY <1>1, <1>4, <1>5

\* What is picked of a sequence is of it.
LEMMA PickedType ==
    ASSUME NEW S, NEW s \in Seq(S), NEW places \in SUBSET DOMAIN s
    PROVE  /\ Picked(s, places) \in Seq(S)
           /\ \A k \in DOMAIN Picked(s, places) : \E i \in DOMAIN s : Picked(s, places)[k] = s[i]
  <1> DEFINE n == Cardinality(places)
             at == CHOOSE f \in [1 .. n -> places] : \A a, b \in DOMAIN f : a < b => f[a] < f[b]
  <1>1. Len(s) \in Nat /\ DOMAIN s = 1 .. Len(s)
    OBVIOUS
  <1>2. Orders(places) # {} /\ n \in Nat
    BY <1>1, Ordered
  <1>3. at \in [1 .. n -> places]
    BY <1>2 DEF Orders
  <1>4. Picked(s, places) = [k \in 1 .. n |-> s[at[k]]]
    BY DEF Picked
  <1> HIDE DEF n, at
  <1>5. \A k \in 1 .. n : at[k] \in DOMAIN s /\ s[at[k]] \in S
    BY <1>1, <1>3, ElementOfSeq
  <1>6. Picked(s, places) \in Seq(S) /\ DOMAIN Picked(s, places) = 1 .. n
    BY <1>2, <1>4, <1>5
  <1> QED
    BY <1>4, <1>5, <1>6

\* A finite set as a sequence.
LEMMA Listing ==
    ASSUME NEW S, IsFiniteSet(S)
    PROVE  LET s == SetToSeq(S)
           IN  /\ s \in Seq(S)
               /\ \A i, j \in DOMAIN s : s[i] = s[j] => i = j
               /\ \A e \in S : \E i \in DOMAIN s : s[i] = e
  <1> DEFINE n == Cardinality(S)
             s == SetToSeq(S)
  <1>1. n \in Nat /\ ExistsBijection(1 .. n, S)
    BY FS_CardinalityType
  <1>2. PICK f \in Bijection(1 .. n, S) : TRUE
    BY <1>1 DEF ExistsBijection
  <1>3. f \in [1 .. n -> S] /\ IsInjective(f)
    BY <1>2 DEF Bijection, Injection
  <1>4. s \in [1 .. n -> S] /\ IsInjective(s)
    BY <1>3 DEF SetToSeq
  <1> HIDE DEF s, n
  <1>5. s \in Seq(S) /\ DOMAIN s = 1 .. n
    BY <1>1, <1>4
  <1>6. s \in Surjection(1 .. n, S)
    <2>1. s \in Injection(1 .. n, S)
      BY <1>4 DEF Injection
    <2>2. \A k \in Nat : Cardinality(1 .. k) = k
      <3> TAKE k \in Nat
      <3>1. 1 \in Int /\ k \in Int
        OBVIOUS
      <3> QED
        BY <3>1, FS_Interval
    <2>3. Cardinality(1 .. n) = Cardinality(S)
      BY <1>1, <2>2 DEF n
    <2> QED
      BY <2>1, <2>3, FS_Injection
  <1>7. \A e \in S : \E i \in 1 .. n : s[i] = e
    BY <1>6 DEF Surjection
  <1> QED
    BY <1>4, <1>5, <1>7 DEF IsInjective, s


(***************************************************************************)
(* The rows, and the requests that name them.                              *)
(***************************************************************************)

\* Record r names a run of its domain, and a row that names no earlier one.
Known(r, R, Q) ==
    /\ r.run \in 1 .. Len(Q) /\ DomainOf[Q[r.run].seed] = DomainOf[r.url]
    /\ \E j \in DOMAIN R : R[j].url = r.url /\ R[j].run >= r.run
AllKnown(s, R, Q) == \A i \in DOMAIN s : Known(s[i], R, Q)
OneRow(R) == \A i, j \in DOMAIN R : R[i].url = R[j].url => i = j

RowsInv ==
    /\ rows \in Seq(Record) /\ output \in Seq(Record) /\ records \in Seq(Record)
    /\ cursor \in Seq(Record) /\ batch \in Seq(Record)
    /\ OneRow(rows)
    /\ AllKnown(rows, rows, runs) /\ AllKnown(output, rows, runs) /\ AllKnown(records, rows, runs)
    /\ AllKnown(cursor, rows, runs) /\ AllKnown(batch, rows, runs)
    /\ pc \in InRun => runs[run].seed = seed
    /\ \A u \in frontier : DomainOf[u] = DomainOf[seed]

\* Rows are not deleted and runs keep their seeds.
Later(R, T) == \A j \in DOMAIN R : \E i \in DOMAIN T : T[i].url = R[j].url /\ T[i].run >= R[j].run
SeedsKept(Q, P) == Len(Q) <= Len(P) /\ \A r \in 1 .. Len(Q) : P[r].seed = Q[r].seed

\* What names a row and a run still does when rows and runs have changed.
LEMMA StillKnown ==
    ASSUME NEW R \in Seq(Record), NEW T \in Seq(Record), Later(R, T),
           NEW Q \in Seq(RunRow), NEW P \in Seq(RunRow), SeedsKept(Q, P),
           NEW s \in Seq(Record), AllKnown(s, R, Q)
    PROVE  AllKnown(s, T, P)
  <1> SUFFICES ASSUME NEW i \in DOMAIN s PROVE Known(s[i], T, P)
    BY DEF AllKnown
  <1> DEFINE r == s[i]
  <1>1. r \in Record /\ Known(r, R, Q)
    <2>1. i \in 1 .. Len(s)
      OBVIOUS
    <2> QED
      BY <2>1, ElementOfSeq DEF AllKnown
  <1> HIDE DEF r
  <1>2. r.run \in 1 .. Len(Q) /\ Len(Q) \in Nat /\ Len(P) \in Nat /\ Len(Q) <= Len(P)
    BY <1>1 DEF Known, SeedsKept
  <1>3. r.run \in 1 .. Len(P) /\ P[r.run].seed = Q[r.run].seed
    BY <1>2 DEF SeedsKept
  <1>4. PICK j \in DOMAIN R : R[j].url = r.url /\ R[j].run >= r.run
    BY <1>1 DEF Known
  <1>5. PICK k \in DOMAIN T : T[k].url = R[j].url /\ T[k].run >= R[j].run
    BY DEF Later
  <1>6. R[j] \in Record /\ T[k] \in Record
    <2>1. j \in 1 .. Len(R) /\ k \in 1 .. Len(T)
      OBVIOUS
    <2> QED
      BY <2>1, ElementOfSeq
  <1>7. T[k].url = r.url /\ T[k].run >= r.run
    <2>1. R[j].run \in Nat /\ T[k].run \in Nat /\ r.run \in Nat
      BY <1>1, <1>6 DEF Record
    <2> QED
      BY <1>4, <1>5, <2>1
  <1>8. Known(r, T, P)
    BY <1>1, <1>3, <1>7 DEF Known
  <1> QED
    BY <1>8 DEF r

\* Nothing is new in a table or in runs that did not change.
LEMMA Unchanging ==
    ASSUME NEW R \in Seq(Record), NEW Q \in Seq(RunRow)
    PROVE  Later(R, R) /\ SeedsKept(Q, Q)
  <1>1. ASSUME NEW j \in DOMAIN R PROVE R[j].run >= R[j].run
    <2>1. j \in 1 .. Len(R)
      OBVIOUS
    <2>2. R[j] \in Record
      BY <2>1, ElementOfSeq
    <2>3. R[j].run \in Nat
      BY <2>2 DEF Record
    <2> QED
      BY <2>3
  <1>2. Len(Q) <= Len(Q)
    BY LenProperties
  <1> QED
    BY <1>1, <1>2 DEF Later, SeedsKept

\* What upsertURLs leaves: one row for each URL, those of S name the run.
LEMMA UpsertedRows ==
    ASSUME rows \in Seq(Record), OneRow(rows), NEW S \in SUBSET URL, IsFiniteSet(S),
           Len(runs) \in Nat, \A i \in DOMAIN rows : rows[i].run <= run
    PROVE  LET R == Upserted(S)
           IN  /\ R \in Seq(Record) /\ OneRow(R) /\ Later(rows, R)
               /\ \A u \in S : \E i \in DOMAIN R : R[i].url = u /\ R[i].run = run
               /\ \A i \in DOMAIN R : \/ \E j \in DOMAIN rows : R[i] = rows[j]
                                      \/ R[i].url \in S /\ R[i].run = run
  <1> DEFINE known == {rows[i].url : i \in DOMAIN rows}
             touch(i) == IF rows[i].url \in S THEN [rows[i] EXCEPT !.run = run] ELSE rows[i]
             touched == [i \in DOMAIN rows |-> touch(i)]
             fresh == SetToSeq(S \ known)
             new == [i \in DOMAIN fresh |-> [url |-> fresh[i], run |-> run]]
             n == Len(rows)
             m == Len(fresh)
             R == Upserted(S)
  <1>1. R = touched \o new
    BY DEF Upserted
  <1>2. run \in Nat /\ n \in Nat /\ DOMAIN rows = 1 .. n
    BY DEF run
  <1>3. IsFiniteSet(S \ known)
    BY FS_Subset
  <1>4. /\ fresh \in Seq(S \ known)
        /\ \A i, j \in DOMAIN fresh : fresh[i] = fresh[j] => i = j
        /\ \A e \in S \ known : \E i \in DOMAIN fresh : fresh[i] = e
    BY <1>3, Listing
  <1>5. m \in Nat /\ DOMAIN fresh = 1 .. m /\ \A i \in 1 .. m : fresh[i] \in S /\ fresh[i] \notin known
    <2> HIDE DEF fresh, known
    <2>1. Len(fresh) \in Nat /\ DOMAIN fresh = 1 .. Len(fresh)
      BY <1>4
    <2>2. \A i \in 1 .. Len(fresh) : fresh[i] \in S \ known
      BY <1>4, <2>1, ElementOfSeq
    <2> QED
      BY <2>1, <2>2
  <1>6. \A i \in 1 .. n : rows[i] \in Record /\ rows[i].url \in URL /\ rows[i].run \in Nat /\ rows[i].url \in known
    <2>1. \A i \in 1 .. n : rows[i] \in Record
      BY <1>2
    <2> QED
      BY <1>2, <2>1 DEF Record
  <1>7. \A i \in 1 .. n : /\ touch(i) \in Record /\ touch(i).url = rows[i].url
                          /\ rows[i].url \in S => touch(i).run = run
                          /\ rows[i].url \notin S => touch(i) = rows[i]
    BY <1>2, <1>6 DEF Record
  <1> HIDE DEF touch
  <1>8. touched \in Seq(Record) /\ Len(touched) = n /\ \A i \in 1 .. n : touched[i] = touch(i)
    BY <1>2, <1>7
  <1>9. \A i \in 1 .. m : [url |-> fresh[i], run |-> run] \in Record
    BY <1>2, <1>5 DEF Record
  <1> HIDE DEF fresh, known
  <1>10. new \in Seq(Record) /\ Len(new) = m /\ \A i \in 1 .. m : new[i].url = fresh[i] /\ new[i].run = run
    BY <1>5, <1>9
  <1> HIDE DEF touched, new, R, n, m
  <1>11. /\ R \in Seq(Record) /\ Len(R) = n + m
         /\ \A k \in 1 .. n + m : R[k] = IF k <= n THEN touched[k] ELSE new[k - n]
    BY <1>1, <1>8, <1>10, ConcatProperties
  <1>12. /\ DOMAIN R = 1 .. n + m
         /\ \A k \in 1 .. n : k \in DOMAIN R /\ R[k] = touch(k)
         /\ \A k \in 1 .. m : n + k \in DOMAIN R /\ R[n + k].url = fresh[k] /\ R[n + k].run = run
    <2>1. DOMAIN R = 1 .. n + m
      BY <1>11
    <2>2. ASSUME NEW k \in 1 .. n PROVE k \in DOMAIN R /\ R[k] = touch(k)
      <3>1. k \in 1 .. n + m /\ k <= n
        BY <1>2, <1>5
      <3> QED
        BY <1>8, <1>11, <2>1, <3>1
    <2>3. ASSUME NEW k \in 1 .. m PROVE n + k \in DOMAIN R /\ R[n + k] = new[k]
      <3>1. n + k \in 1 .. n + m /\ ~(n + k <= n) /\ (n + k) - n = k
        BY <1>2, <1>5
      <3> QED
        BY <1>11, <2>1, <3>1
    <2> QED
      BY <1>10, <2>1, <2>2, <2>3
  <1>13. \A k \in DOMAIN R : k \in 1 .. n \/ \E e \in 1 .. m : k = n + e
    <2> TAKE k \in DOMAIN R
    <2>1. CASE ~(k <= n)
      <3>1. k - n \in 1 .. m /\ k = n + (k - n)
        BY <1>2, <1>5, <1>12, <2>1
      <3> QED
        BY <3>1
    <2>2. CASE k <= n
      BY <1>2, <1>5, <1>12, <2>2
    <2> QED
      BY <2>1, <2>2
  <1>14. OneRow(R)
    <2> SUFFICES ASSUME NEW k \in DOMAIN R, NEW l \in DOMAIN R, R[k].url = R[l].url PROVE k = l
      BY DEF OneRow
    <2>1. CASE k \in 1 .. n /\ l \in 1 .. n
      BY <1>2, <1>7, <1>12, <2>1 DEF OneRow
    <2>2. ASSUME NEW e \in 1 .. m, k = n + e, l \in 1 .. n PROVE FALSE
      BY <1>5, <1>6, <1>7, <1>12, <2>2
    <2>3. ASSUME NEW e \in 1 .. m, l = n + e, k \in 1 .. n PROVE FALSE
      BY <1>5, <1>6, <1>7, <1>12, <2>3
    <2>4. ASSUME NEW e \in 1 .. m, NEW f \in 1 .. m, k = n + e, l = n + f PROVE k = l
      <3>1. R[k].url = fresh[e] /\ R[l].url = fresh[f]
        BY <1>12, <2>4
      <3>2. e = f
        BY <1>4, <1>5, <3>1
      <3> QED
        BY <2>4, <3>2
    <2> QED
      BY <1>13, <2>1, <2>2, <2>3, <2>4
  <1>15. Later(rows, R)
    <2> SUFFICES ASSUME NEW j \in 1 .. n PROVE \E i \in DOMAIN R : R[i].url = rows[j].url /\ R[i].run >= rows[j].run
      BY <1>2 DEF Later
    <2>1. j \in DOMAIN R /\ R[j].url = rows[j].url
      BY <1>7, <1>12
    <2>2. R[j].run >= rows[j].run
      <3>1. rows[j].run \in Nat /\ rows[j].run <= run
        BY <1>2, <1>6
      <3> QED
        BY <1>2, <1>7, <1>12, <3>1
    <2> QED
      BY <2>1, <2>2
  <1>16. ASSUME NEW u \in S PROVE \E i \in DOMAIN R : R[i].url = u /\ R[i].run = run
    <2>1. CASE u \in known
      <3>1. PICK j \in 1 .. n : rows[j].url = u
        BY <1>2, <2>1 DEF known
      <3> QED
        BY <1>7, <1>12, <3>1
    <2>2. CASE u \notin known
      <3>1. PICK e \in 1 .. m : fresh[e] = u
        BY <1>4, <1>5, <2>2
      <3> QED
        BY <1>12, <3>1
    <2> QED
      BY <2>1, <2>2
  <1>17. ASSUME NEW i \in DOMAIN R
         PROVE  (\E j \in DOMAIN rows : R[i] = rows[j]) \/ (R[i].url \in S /\ R[i].run = run)
    <2>1. CASE i \in 1 .. n
      BY <1>2, <1>7, <1>12, <2>1
    <2>2. ASSUME NEW e \in 1 .. m, i = n + e PROVE R[i].url \in S /\ R[i].run = run
      BY <1>5, <1>12, <2>2
    <2> QED
      BY <1>13, <2>1, <2>2
  <1> QED
    BY <1>11, <1>14, <1>15, <1>16, <1>17 DEF R


\* Two sequences of such records, one after the other.
LEMMA KnownConcat ==
    ASSUME NEW R, NEW Q, NEW s \in Seq(Record), NEW t \in Seq(Record), AllKnown(s, R, Q), AllKnown(t, R, Q)
    PROVE  s \o t \in Seq(Record) /\ AllKnown(s \o t, R, Q)
  <1> DEFINE u == s \o t
  <1>1. /\ Len(s) \in Nat /\ Len(t) \in Nat /\ DOMAIN s = 1 .. Len(s) /\ DOMAIN t = 1 .. Len(t)
        /\ u \in Seq(Record) /\ Len(u) = Len(s) + Len(t)
        /\ \A k \in 1 .. Len(s) + Len(t) : u[k] = IF k <= Len(s) THEN s[k] ELSE t[k - Len(s)]
    BY ConcatProperties, LenProperties
  <1> HIDE DEF u
  <1>2. ASSUME NEW k \in DOMAIN u PROVE Known(u[k], R, Q)
    <2>1. k \in 1 .. Len(s) + Len(t)
      BY <1>1
    <2>2. CASE k <= Len(s)
      BY <1>1, <2>1, <2>2 DEF AllKnown
    <2>3. CASE ~(k <= Len(s))
      <3>1. k - Len(s) \in DOMAIN t
        BY <1>1, <2>1, <2>3
      <3> QED
        BY <1>1, <2>1, <2>3, <3>1 DEF AllKnown
    <2> QED
      BY <2>2, <2>3
  <1> QED
    BY <1>1, <1>2 DEF AllKnown, u

\* A sequence of records of another.
LEMMA KnownPart ==
    ASSUME NEW R, NEW Q, NEW s, NEW t, AllKnown(s, R, Q),
           \A k \in DOMAIN t : \E i \in DOMAIN s : t[k] = s[i]
    PROVE  AllKnown(t, R, Q)
  BY DEF AllKnown

\* One record more.
LEMMA KnownAppend ==
    ASSUME NEW R, NEW Q, NEW s \in Seq(Record), NEW e \in Record, AllKnown(s, R, Q), Known(e, R, Q)
    PROVE  Append(s, e) \in Seq(Record) /\ AllKnown(Append(s, e), R, Q)
  <1> DEFINE t == Append(s, e)
  <1>1. /\ Len(s) \in Nat /\ DOMAIN s = 1 .. Len(s) /\ DOMAIN t = 1 .. Len(s) + 1 /\ t \in Seq(Record)
        /\ t[Len(s) + 1] = e /\ \A k \in 1 .. Len(s) : t[k] = s[k]
    BY AppendProperties, LenProperties
  <1> HIDE DEF t
  <1>2. \A k \in DOMAIN t : k \in DOMAIN s \/ k = Len(s) + 1
    BY <1>1
  <1> QED
    BY <1>1, <1>2 DEF AllKnown, t

\* Everything that was known still is.
LEMMA Carried ==
    ASSUME RowsInv, CrawlType, NEW T \in Seq(Record), Later(rows, T),
           NEW P \in Seq(RunRow), SeedsKept(runs, P)
    PROVE  /\ AllKnown(rows, T, P) /\ AllKnown(output, T, P) /\ AllKnown(records, T, P)
           /\ AllKnown(cursor, T, P) /\ AllKnown(batch, T, P)
  <1>1. /\ rows \in Seq(Record) /\ output \in Seq(Record) /\ records \in Seq(Record)
        /\ cursor \in Seq(Record) /\ batch \in Seq(Record) /\ runs \in Seq(RunRow)
        /\ AllKnown(rows, rows, runs) /\ AllKnown(output, rows, runs) /\ AllKnown(records, rows, runs)
        /\ AllKnown(cursor, rows, runs) /\ AllKnown(batch, rows, runs)
    BY DEF RowsInv, CrawlType
  <1> QED
    BY <1>1, StillKnown

\* The run at hand stores the URLs of S.
LEMMA StoredRows ==
    ASSUME RowsInv, CrawlType, pc \in InRun, NEW S \in SUBSET URL, IsFiniteSet(S),
           \A u \in S : DomainOf[u] = DomainOf[seed]
    PROVE  LET T == Upserted(S)
           IN  /\ T \in Seq(Record) /\ OneRow(T) /\ Later(rows, T) /\ AllKnown(T, T, runs)
               /\ \A u \in S : Known([url |-> u, run |-> run], T, runs)
  <1> DEFINE T == Upserted(S)
  <1>1. /\ rows \in Seq(Record) /\ OneRow(rows) /\ AllKnown(rows, rows, runs)
        /\ runs \in Seq(RunRow) /\ Len(runs) \in Nat /\ Len(runs) > 0
        /\ run \in 1 .. Len(runs) /\ runs[run].seed = seed
    BY LenProperties DEF RowsInv, CrawlType, run
  <1>2. \A i \in DOMAIN rows : rows[i].run <= run
    <2> TAKE i \in DOMAIN rows
    <2>1. rows[i].run \in 1 .. Len(runs)
      BY <1>1 DEF AllKnown, Known
    <2> QED
      BY <1>1, <2>1 DEF run
  <1>3. /\ T \in Seq(Record) /\ OneRow(T) /\ Later(rows, T)
        /\ \A u \in S : \E i \in DOMAIN T : T[i].url = u /\ T[i].run = run
        /\ \A i \in DOMAIN T : \/ \E j \in DOMAIN rows : T[i] = rows[j]
                               \/ T[i].url \in S /\ T[i].run = run
    BY <1>1, <1>2, UpsertedRows
  <1> HIDE DEF T
  <1>4. AllKnown(rows, T, runs)
    BY <1>1, <1>3, Unchanging, StillKnown
  <1>5. ASSUME NEW r, r.url \in S, r.run = run PROVE Known(r, T, runs)
    <2>1. PICK i \in DOMAIN T : T[i].url = r.url /\ T[i].run = run
      BY <1>3, <1>5
    <2>2. DomainOf[runs[r.run].seed] = DomainOf[r.url]
      BY <1>1, <1>5
    <2>3. T[i].run >= r.run
      BY <1>1, <1>5, <2>1
    <2> QED
      BY <1>1, <1>5, <2>1, <2>2, <2>3 DEF Known
  <1>6. AllKnown(T, T, runs)
    <2> SUFFICES ASSUME NEW i \in DOMAIN T PROVE Known(T[i], T, runs)
      BY DEF AllKnown
    <2>1. CASE \E j \in DOMAIN rows : T[i] = rows[j]
      BY <1>4, <2>1 DEF AllKnown
    <2>2. CASE T[i].url \in S /\ T[i].run = run
      BY <1>5, <2>2
    <2> QED
      BY <1>3, <2>1, <2>2
  <1>7. ASSUME NEW u \in S PROVE Known([url |-> u, run |-> run], T, runs)
    BY <1>5
  <1> QED
    BY <1>3, <1>6, <1>7 DEF T

\* Records are made for the URLs found.
LEMMA FoundRecords ==
    ASSUME CrawlType, NEW S \in SUBSET URL, IsFiniteSet(S), NEW T,
           \A u \in S : Known([url |-> u, run |-> run], T, runs)
    PROVE  LET order == SetToSeq(S)
               new == [i \in DOMAIN order |-> [url |-> order[i], run |-> run]]
           IN  new \in Seq(Record) /\ AllKnown(new, T, runs)
  <1> DEFINE order == SetToSeq(S)
             new == [i \in DOMAIN order |-> [url |-> order[i], run |-> run]]
  <1>1. order \in Seq(S) /\ run \in Nat
    BY Listing DEF CrawlType, run
  <1> HIDE DEF order
  <1>2. Len(order) \in Nat /\ DOMAIN order = 1 .. Len(order) /\ \A i \in 1 .. Len(order) : order[i] \in S
    BY <1>1
  <1>3. \A i \in DOMAIN order : [url |-> order[i], run |-> run] \in Record
    BY <1>1, <1>2 DEF Record
  <1>4. new \in Seq(Record)
    BY <1>2, <1>3
  <1>5. AllKnown(new, T, runs)
    BY <1>2 DEF AllKnown
  <1> QED
    BY <1>4, <1>5 DEF order


\* The types of what the records are kept in.
LEMMA RowsType ==
    ASSUME RowsInv, CrawlInv
    PROVE  /\ rows \in Seq(Record) /\ output \in Seq(Record) /\ records \in Seq(Record)
           /\ cursor \in Seq(Record) /\ batch \in Seq(Record) /\ runs \in Seq(RunRow)
           /\ Later(rows, rows) /\ SeedsKept(runs, runs)
           /\ AllKnown(rows, rows, runs) /\ AllKnown(output, rows, runs) /\ AllKnown(records, rows, runs)
           /\ AllKnown(cursor, rows, runs) /\ AllKnown(batch, rows, runs)
  <1>1. /\ rows \in Seq(Record) /\ output \in Seq(Record) /\ records \in Seq(Record)
        /\ cursor \in Seq(Record) /\ batch \in Seq(Record) /\ runs \in Seq(RunRow)
        /\ AllKnown(rows, rows, runs) /\ AllKnown(output, rows, runs) /\ AllKnown(records, rows, runs)
        /\ AllKnown(cursor, rows, runs) /\ AllKnown(batch, rows, runs)
    BY DEF RowsInv, CrawlInv, CrawlType
  <1> QED
    BY <1>1, Unchanging

\* Steps that send and store nothing.
LEMMA RowsAlone ==
    ASSUME RowsInv, UNCHANGED <<rows, output, cursor, batch, runs>>,
           records' = records \/ records' = <<>>,
           pc' \in InRun => pc \in InRun /\ seed' = seed,
           \A u \in frontier' : u \in frontier /\ seed' = seed
    PROVE  RowsInv'
  <1>1. records' \in Seq(Record) /\ AllKnown(records', rows, runs)
    <2>1. <<>> \in Seq(Record) /\ DOMAIN <<>> = {}
      OBVIOUS
    <2>2. AllKnown(<<>>, rows, runs)
      BY <2>1 DEF AllKnown
    <2> QED
      BY <2>1, <2>2 DEF RowsInv
  <1> QED
    BY <1>1 DEF RowsInv, run

\* The steps that neither store nor send.
LEMMA LoopRows ==
    ASSUME RowsInv, CrawlInv,
           \/ \E q \in URL \cup Invalid : Enqueue(q)
           \/ Pop \/ PopTimeout \/ AddSeedFails \/ CrawlEnds \/ FinishFails \/ Exit
           \/ (\E u \in frontier : PageFails(u))
           \/ Signal \/ Crash \/ Restart \/ ReplayEnd \/ UNCHANGED vars
    PROVE  RowsInv'
  <1> USE DEF lists, crawled, process, replay, history, InRun
  <1>1. CASE (\E q \in URL \cup Invalid : Enqueue(q)) \/ PopTimeout \/ Signal \/ ReplayEnd \/ UNCHANGED vars
    BY <1>1, RowsAlone DEF Enqueue, PopTimeout, Signal, ReplayEnd, vars
  <1>2. CASE Pop
    <2>1. frontier = {}
      BY <1>2 DEF CrawlInv, FrontierInv, Pop
    <2> QED
      BY <1>2, <2>1, RowsAlone DEF Pop
  <1>3. CASE AddSeedFails \/ (\E u \in frontier : PageFails(u))
    BY <1>3, RowsAlone DEF AddSeedFails, PageFails, TakenUp
  <1>4. CASE CrawlEnds \/ FinishFails \/ Exit \/ Crash \/ Restart
    BY <1>4, RowsAlone DEF CrawlEnds, FinishFails, Exit, Crash, Restart, Forget
  <1> QED
    BY <1>1, <1>2, <1>3, <1>4

\* A run is opened: the others keep their seeds.
LEMMA OpenRows ==
    ASSUME RowsInv, CrawlInv, StartRun \/ StartRunFails
    PROVE  RowsInv'
  <1> USE DEF lists, crawled, process, replay, history
  <1>1. /\ pc = "start" /\ seed \in URL /\ frontier = {}
        /\ UNCHANGED <<rows, output, records, cursor, batch, seed, frontier>>
    BY DEF StartRun, StartRunFails, CrawlInv, CrawlType, FrontierInv
  <1>2. CASE OpenRun
    <2> DEFINE e == [seed |-> seed, status |-> "running"]
    <2>1. e \in RunRow /\ e.seed = seed
      BY <1>1 DEF Status, RunRow
    <2>2. runs' = Append(runs, e)
      BY <1>2 DEF OpenRun
    <2> HIDE DEF e
    <2>3. runs \in Seq(RunRow)
      BY DEF CrawlInv, CrawlType
    <2>4. /\ runs' \in Seq(RunRow) /\ Len(runs') = Len(runs) + 1 /\ Len(runs) \in Nat
          /\ runs'[Len(runs) + 1] = e /\ \A r \in 1 .. Len(runs) : runs'[r] = runs[r]
      BY <2>1, <2>2, <2>3, AppendProperties
    <2>5. SeedsKept(runs, runs')
      BY <2>4 DEF SeedsKept
    <2>6. /\ AllKnown(rows, rows, runs') /\ AllKnown(output, rows, runs') /\ AllKnown(records, rows, runs')
          /\ AllKnown(cursor, rows, runs') /\ AllKnown(batch, rows, runs')
      BY <2>4, <2>5, RowsType, Carried DEF CrawlInv
    <2>7. runs'[run'].seed = seed'
      BY <1>1, <2>1, <2>4 DEF run
    <2> QED
      BY <1>1, <2>6, <2>7 DEF RowsInv
  <1>3. CASE ~OpenRun
    <2>1. runs' = runs /\ pc' = "pop"
      BY <1>3 DEF StartRun, StartRunFails
    <2> QED
      BY <1>1, <2>1, RowsAlone DEF InRun
  <1> QED
    BY <1>2, <1>3

\* upsertURLs, with what is found or not.
LEMMA StoreRows ==
    ASSUME RowsInv, CrawlInv, pc \in InRun, NEW S \in SUBSET URL, IsFiniteSet(S),
           \A u \in S : DomainOf[u] = DomainOf[seed],
           rows' = rows \/ rows' = Upserted(S),
           UNCHANGED <<output, cursor, batch, runs, seed>>,
           records' = records \/
              (LET order == SetToSeq(S)
               IN  /\ rows' = Upserted(S)
                   /\ records' = records \o [i \in DOMAIN order |-> [url |-> order[i], run |-> run]]),
           \A u \in frontier' : u \in frontier \cup S
    PROVE  RowsInv'
  <1>1. CrawlType
    BY DEF CrawlInv
  <1> DEFINE T == Upserted(S)
             order == SetToSeq(S)
             new == [i \in DOMAIN order |-> [url |-> order[i], run |-> run]]
  <1>2. /\ T \in Seq(Record) /\ OneRow(T) /\ Later(rows, T) /\ AllKnown(T, T, runs)
        /\ \A u \in S : Known([url |-> u, run |-> run], T, runs)
    BY <1>1, StoredRows
  <1>3. new \in Seq(Record) /\ AllKnown(new, T, runs)
    <2> HIDE DEF T
    <2> QED
      BY <1>1, <1>2, FoundRecords
  <1> HIDE DEF T, new
  <1>4. \A u \in frontier' : DomainOf[u] = DomainOf[seed']
    BY DEF RowsInv
  <1>5. pc' \in InRun => runs'[run'].seed = seed'
    BY DEF RowsInv, run
  <1>6. CASE rows' = T
    <2>1. /\ AllKnown(output, T, runs) /\ AllKnown(records, T, runs)
          /\ AllKnown(cursor, T, runs) /\ AllKnown(batch, T, runs)
      BY <1>1, <1>2, RowsType, Carried
    <2>2. records' \in Seq(Record) /\ AllKnown(records', T, runs)
      <3>1. records' = records \/ records' = records \o new
        BY DEF new
      <3> QED
        <4>1. CASE records' = records
          BY <2>1, <4>1, RowsType
        <4>2. CASE records' = records \o new
          <5>1. records \o new \in Seq(Record) /\ AllKnown(records \o new, T, runs)
            BY <1>3, <2>1, RowsType, KnownConcat
          <5> QED
            BY <4>2, <5>1
        <4> QED
          BY <3>1, <4>1, <4>2
    <2> QED
      BY <1>2, <1>4, <1>5, <1>6, <2>1, <2>2, RowsType DEF RowsInv
  <1>7. CASE rows' = rows /\ rows' # T
    <2>1. records' = records
      BY <1>7 DEF T
    <2> QED
      BY <1>4, <1>5, <1>7, <2>1, RowsType DEF RowsInv
  <1> QED
    BY <1>6, <1>7 DEF T

\* The steps that store rows.
LEMMA StoringRows ==
    ASSUME RowsInv, CrawlInv,
           \/ StoreSeed \/ StoreSeedFails \/ AddSeed \/ AddSeedUnstored
           \/ \E u \in frontier : Page(u) \/ StoreFails(u)
    PROVE  RowsInv'
  <1> USE DEF lists, crawled, process, replay, history
  <1>1. CASE StoreSeed \/ StoreSeedFails \/ AddSeed \/ AddSeedUnstored
    <2>1. /\ pc \in {"seed", "add"} /\ pc \in InRun /\ seed \in URL /\ frontier = {}
      BY <1>1 DEF StoreSeed, StoreSeedFails, AddSeed, AddSeedUnstored, CrawlInv, CrawlType, FrontierInv, InRun
    <2>2. {seed} \in SUBSET URL /\ IsFiniteSet({seed})
      BY <2>1, FS_Singleton
    <2>3. rows' = rows \/ rows' = Upserted({seed})
      BY <1>1 DEF StoreSeed, StoreSeedFails, AddSeed, AddSeedUnstored
    <2>4. /\ UNCHANGED <<output, cursor, batch, runs, seed, records>>
          /\ \A u \in frontier' : u \in frontier \cup {seed}
      BY <1>1 DEF StoreSeed, StoreSeedFails, AddSeed, AddSeedUnstored, New
    <2> QED
      BY <2>1, <2>2, <2>3, <2>4, StoreRows
  <1>2. ASSUME NEW u \in frontier, Page(u) \/ StoreFails(u) PROVE RowsInv'
    <2>1. PICK S \in Pushed(New(Links[u])) :
            /\ Found(u, S)
            /\ rows' = rows \/ rows' = Upserted(S)
            /\ records' = records \/ (rows' = Upserted(S) /\ Sent(S))
      BY <1>2 DEF Page, StoreFails
    <2>2. pc \in InRun /\ u \in URL /\ DomainOf[u] = DomainOf[seed]
      BY <2>1 DEF Found, TakenUp, InRun, RowsInv, CrawlInv, CrawlType
    <2>3. S \in SUBSET URL /\ IsFiniteSet(S) /\ \A v \in S : DomainOf[v] = DomainOf[seed]
      <3>1. /\ Links[u] \in SUBSET URL /\ IsFiniteSet(Links[u])
            /\ \A v \in Links[u] : DomainOf[v] = DomainOf[u]
        BY <2>2, RunsAssumption
      <3>2. S \in SUBSET Links[u]
        BY <2>1, PushedOf DEF New
      <3>3. IsFiniteSet(S)
        BY <3>1, <3>2, FS_Subset
      <3> QED
        BY <2>2, <3>1, <3>2, <3>3
    <2>4. UNCHANGED <<output, cursor, batch, runs, seed>> /\ \A v \in frontier' : v \in frontier \cup S
      BY <2>1 DEF Found
    <2>5. records' = records \/
              (LET order == SetToSeq(S)
               IN  /\ rows' = Upserted(S)
                   /\ records' = records \o [i \in DOMAIN order |-> [url |-> order[i], run |-> run]])
      BY <2>1 DEF Sent
    <2> QED
      BY <2>1, <2>2, <2>3, <2>4, <2>5, StoreRows
  <1> QED
    BY <1>1, <1>2


\* What the writer sends was found, and stays known.
LEMMA SendRows ==
    ASSUME RowsInv, CrawlInv, Flush \/ FlushFails
    PROVE  RowsInv'
  <1> USE DEF lists, crawled, process, replay, history
  <1>1. /\ UNCHANGED <<rows, cursor, batch, runs, seed, frontier, pc>> /\ records' = <<>>
    BY DEF Flush, FlushFails
  <1>2. output' \in Seq(Record) /\ AllKnown(output', rows, runs)
    <2>1. ASSUME NEW sent \in Seq(Record), AllKnown(sent, rows, runs), output' = output \o sent
          PROVE  output' \in Seq(Record) /\ AllKnown(output', rows, runs)
      BY <2>1, RowsType, KnownConcat
    <2>2. CASE Flush
      BY <2>1, <2>2, RowsType DEF Flush
    <2>3. CASE FlushFails
      <3>1. PICK sent \in SUBSET DOMAIN records : output' = output \o Picked(records, sent)
        BY <2>3 DEF FlushFails
      <3> DEFINE t == Picked(records, sent)
      <3>2. t \in Seq(Record) /\ \A k \in DOMAIN t : \E i \in DOMAIN records : t[k] = records[i]
        BY RowsType, PickedType
      <3> HIDE DEF t
      <3>3. AllKnown(t, rows, runs)
        BY <3>2, RowsType, KnownPart
      <3> QED
        BY <2>1, <3>1, <3>2, <3>3 DEF t
    <2> QED
      BY <2>2, <2>3
  <1>3. records' \in Seq(Record) /\ AllKnown(records', rows, runs)
    <2>1. <<>> \in Seq(Record) /\ DOMAIN <<>> = {}
      OBVIOUS
    <2> QED
      BY <1>1, <2>1 DEF AllKnown
  <1> QED
    BY <1>1, <1>2, <1>3 DEF RowsInv, run

\* A run that is closed keeps its seed.
LEMMA CloseRows ==
    ASSUME RowsInv, CrawlInv, Finish
    PROVE  RowsInv'
  <1> USE DEF lists, crawled, process, replay, history
  <1>1. /\ pc = "finish" /\ pc' = "pop" /\ runs' = [runs EXCEPT ![run].status = runStatus]
        /\ UNCHANGED <<rows, output, records, cursor, batch, seed, frontier>>
    BY DEF Finish
  <1>2. /\ runs \in Seq(RunRow) /\ Len(runs) \in Nat /\ run \in 1 .. Len(runs) /\ runs \in [1 .. Len(runs) -> RunRow]
    BY <1>1, LenProperties DEF CrawlInv, CrawlType, InRun, run
  <1> DEFINE closed == [runs[run] EXCEPT !.status = runStatus]
  <1>3. runs' = [runs EXCEPT ![run] = closed] /\ closed \in RunRow /\ closed.seed = runs[run].seed
    BY <1>1, <1>2 DEF RunRow, Status, runStatus
  <1> HIDE DEF closed
  <1>4. /\ runs' \in Seq(RunRow) /\ Len(runs') = Len(runs)
        /\ \A r \in 1 .. Len(runs) : runs'[r] = IF r = run THEN closed ELSE runs[r]
    BY <1>2, <1>3, ExceptSeq
  <1>5. SeedsKept(runs, runs')
    BY <1>2, <1>3, <1>4 DEF SeedsKept
  <1>6. /\ AllKnown(rows, rows, runs') /\ AllKnown(output, rows, runs') /\ AllKnown(records, rows, runs')
        /\ AllKnown(cursor, rows, runs') /\ AllKnown(batch, rows, runs')
    BY <1>4, <1>5, RowsType, Carried DEF CrawlInv
  <1> QED
    BY <1>1, <1>6 DEF RowsInv, InRun

\* A replay sends what it read in the table.
LEMMA ReplayRows ==
    ASSUME RowsInv, CrawlInv,
           (\E d \in Domain : ReplayStart(d)) \/ ReplayRead \/ ReplayPush \/ ReplayFails
    PROVE  RowsInv'
  <1> USE DEF lists, crawled, process, replay, history
  <1>1. UNCHANGED <<rows, records, runs, seed, frontier, pc>>
    BY DEF ReplayStart, ReplayRead, ReplayPush, ReplayFails
  <1>2. ASSUME output' \in Seq(Record), cursor' \in Seq(Record), batch' \in Seq(Record),
               AllKnown(output', rows, runs), AllKnown(cursor', rows, runs), AllKnown(batch', rows, runs)
        PROVE  RowsInv'
    BY <1>1, <1>2 DEF RowsInv, run
  <1>3. <<>> \in Seq(Record) /\ AllKnown(<<>>, rows, runs)
    <2>1. <<>> \in Seq(Record) /\ DOMAIN <<>> = {}
      OBVIOUS
    <2> QED
      BY <2>1 DEF AllKnown
  <1>4. output \o batch \in Seq(Record) /\ AllKnown(output \o batch, rows, runs)
    BY RowsType, KnownConcat
  <1>5. ASSUME NEW d \in Domain, ReplayStart(d) PROVE RowsInv'
    <2> DEFINE places == {i \in DOMAIN rows : DomainOf[rows[i].url] = d}
               t == Picked(rows, places)
    <2>1. cursor' = t /\ batch' = <<>> /\ output' = output
      BY <1>5 DEF ReplayStart
    <2>2. places \in SUBSET DOMAIN rows
      OBVIOUS
    <2> HIDE DEF places
    <2>3. t \in Seq(Record) /\ \A k \in DOMAIN t : \E i \in DOMAIN rows : t[k] = rows[i]
      BY <2>2, RowsType, PickedType
    <2> HIDE DEF t
    <2>4. AllKnown(t, rows, runs)
      BY <2>3, RowsType, KnownPart
    <2> QED
      BY <1>2, <1>3, <2>1, <2>3, <2>4, RowsType
  <1>6. CASE ReplayRead
    <2>1. cursor # <<>> /\ cursor' = Tail(cursor) /\ batch' = Append(batch, Head(cursor)) /\ output' = output
      BY <1>6 DEF ReplayRead
    <2>2. /\ Head(cursor) \in Record /\ Head(cursor) = cursor[1] /\ 1 \in DOMAIN cursor
          /\ Tail(cursor) \in Seq(Record)
          /\ \A k \in DOMAIN Tail(cursor) : \E i \in DOMAIN cursor : Tail(cursor)[k] = cursor[i]
      <3>1. /\ Head(cursor) \in Record /\ Head(cursor) = cursor[1]
            /\ Tail(cursor) \in Seq(Record) /\ Len(Tail(cursor)) = Len(cursor) - 1
            /\ \A i \in 1 .. Len(Tail(cursor)) : Tail(cursor)[i] = cursor[i + 1]
        BY <2>1, RowsType, HeadTailProperties
      <3>2. Len(cursor) \in Nat /\ Len(cursor) # 0 /\ DOMAIN cursor = 1 .. Len(cursor)
        BY <2>1, RowsType, EmptySeq, LenProperties
      <3>3. DOMAIN Tail(cursor) = 1 .. Len(cursor) - 1
        BY <3>1, LenProperties
      <3>4. \A k \in 1 .. Len(cursor) - 1 : k + 1 \in 1 .. Len(cursor)
        BY <3>2
      <3> QED
        BY <3>1, <3>2, <3>3, <3>4
    <2>3. AllKnown(Tail(cursor), rows, runs) /\ Known(Head(cursor), rows, runs)
      BY <2>2, RowsType, KnownPart DEF AllKnown
    <2>4. Append(batch, Head(cursor)) \in Seq(Record) /\ AllKnown(Append(batch, Head(cursor)), rows, runs)
      BY <2>2, <2>3, RowsType, KnownAppend
    <2> QED
      BY <1>2, <2>1, <2>2, <2>3, <2>4, RowsType
  <1>7. CASE ReplayPush
    <2>1. output' = output \o batch /\ batch' = <<>> /\ cursor' = cursor
      BY <1>7 DEF ReplayPush
    <2> QED
      BY <1>2, <1>3, <1>4, <2>1, RowsType
  <1>8. CASE ReplayFails
    <2>1. (output' = output \/ output' = output \o batch) /\ batch' = batch /\ cursor' = cursor
      BY <1>8 DEF ReplayFails
    <2> QED
      BY <1>2, <1>4, <2>1, RowsType
  <1> QED
    BY <1>5, <1>6, <1>7, <1>8

\* The invariant of the rows, next to that of the crawls.
LEMMA RowsInvariant == Spec => [](CrawlInv /\ RowsInv)
  <1>1. Init => RowsInv
    <2> SUFFICES ASSUME Init PROVE RowsInv
      OBVIOUS
    <2>1. /\ rows = <<>> /\ output = <<>> /\ records = <<>> /\ cursor = <<>> /\ batch = <<>>
          /\ pc = "pop" /\ frontier = {}
      BY DEF Init
    <2>2. <<>> \in Seq(Record) /\ DOMAIN <<>> = {}
      OBVIOUS
    <2> QED
      BY <2>1, <2>2 DEF RowsInv, OneRow, AllKnown, InRun
  <1>2. CrawlInv /\ RowsInv /\ [Next]_vars => RowsInv'
    BY LoopRows, OpenRows, StoringRows, SendRows, CloseRows, ReplayRows DEF Next, Loop, Replay
  <1> QED
    BY <1>1, <1>2, CrawlInvariant, PTL DEF Spec

\* Whatever fails, stops or is replayed, a request that crawl's writer or a
\* replay puts on mapper:out names a run of its domain, and a row that
\* upsertURLs (store.go) stored before: rows are upserted, never deleted, and
\* only ever move to later runs.
THEOREM RequestsKnown == Spec => []RequestsHaveRows
  <1>1. CrawlInv /\ RowsInv => RequestsHaveRows
    <2> SUFFICES ASSUME CrawlInv, RowsInv, NEW i \in DOMAIN output
                 PROVE  /\ output[i].run \in Run
                        /\ DomainOf[runs[output[i].run].seed] = DomainOf[output[i].url]
                        /\ \E j \in DOMAIN rows :
                              rows[j].url = output[i].url /\ rows[j].run >= output[i].run
      BY DEF RequestsHaveRows
    <2>1. Known(output[i], rows, runs)
      BY DEF RowsInv, AllKnown
    <2>2. Run = 1 .. Len(runs)
      BY LenProperties DEF CrawlInv, CrawlType, Run
    <2> QED
      BY <2>1, <2>2 DEF Known
  <1> QED
    BY <1>1, RowsInvariant, PTL


(***************************************************************************)
(* A replay.                                                               *)
(***************************************************************************)

\* A sequence begins with what it is put together of.
LEMMA BeginsWith ==
    ASSUME NEW S, NEW s \in Seq(S), NEW t \in Seq(S)
    PROVE  IsPrefix(s, s \o t)
  <1>1. /\ Len(s) \in Nat /\ Len(t) \in Nat /\ s \o t \in Seq(S) /\ Len(s \o t) = Len(s) + Len(t)
        /\ \A i \in 1 .. Len(s) : (s \o t)[i] = s[i]
    BY LenProperties, ConcatProperties
  <1> DEFINE u == s \o t
             n == Len(s)
             a == SubSeq(s, 1, n)
             b == SubSeq(u, 1, n)
  <1>2. /\ n \in Nat /\ Len(u) >= n /\ u \in Seq(S)
        /\ \A i \in 1 .. n : u[i] = s[i] /\ s[i] \in S
    BY <1>1, ElementOfSeq
  <1>3. a \in Seq(S) /\ Len(a) = n /\ \A i \in 1 .. n : a[i] = s[i]
    BY <1>2, SubSeqProperties
  <1>4. b \in Seq(S) /\ Len(b) = n /\ \A i \in 1 .. n : b[i] = u[i]
    BY <1>2, SubSeqProperties
  <1> HIDE DEF a, b
  <1>5. a = b
    BY <1>2, <1>3, <1>4, SeqEqual
  <1> QED
    BY <1>2, <1>5 DEF IsPrefix, a, b

\* The replay has pushed what came first; what it has not pushed is in its
\* batch and among the rows it has still to read, in their order.
ReplayInv ==
    /\ rpc \in {"idle", "read", "push", "done", "failed"}
    /\ snapshot \in Seq(Record) /\ pushed \in Seq(Record)
    /\ rpc \in {"read", "push", "done"} =>
          pushed \o (batch \o cursor) = snapshot /\ total = Len(pushed)
    /\ rpc = "done" => batch = <<>> /\ cursor = <<>>
    /\ IsPrefix(pushed, snapshot)

\* Steps of the crawl do not touch the replay.
LEMMA ReplayAlone ==
    ASSUME ReplayInv, UNCHANGED replay
    PROVE  ReplayInv'
  <1> QED
    BY DEF ReplayInv, replay

\* The query of a new replay.
LEMMA ReplayStartInv ==
    ASSUME RowsInv, CrawlInv, NEW d \in Domain, ReplayStart(d)
    PROVE  ReplayInv'
  <1> DEFINE places == {i \in DOMAIN rows : DomainOf[rows[i].url] = d}
             t == Picked(rows, places)
  <1>1. /\ snapshot' = t /\ cursor' = t /\ batch' = <<>> /\ total' = 0 /\ pushed' = <<>>
        /\ rpc' = "read"
    BY DEF ReplayStart
  <1>2. places \in SUBSET DOMAIN rows
    OBVIOUS
  <1> HIDE DEF places
  <1>3. t \in Seq(Record)
    BY <1>2, RowsType, PickedType
  <1> HIDE DEF t
  <1>4. <<>> \in Seq(Record) /\ <<>> \o t = t /\ Len(<<>>) = 0
    BY <1>3, ConcatEmptySeq, EmptySeq
  <1>5. IsPrefix(<<>>, t)
    BY <1>3, <1>4, BeginsWith
  <1>6. pushed' \o (batch' \o cursor') = snapshot' /\ total' = Len(pushed')
    BY <1>1, <1>4
  <1>7. IsPrefix(pushed', snapshot') /\ snapshot' \in Seq(Record) /\ pushed' \in Seq(Record)
    BY <1>1, <1>3, <1>4, <1>5
  <1> QED
    BY <1>1, <1>6, <1>7 DEF ReplayInv

\* Its rows move from the cursor to the batch and from there to mapper:out.
LEMMA ReplayStepInv ==
    ASSUME RowsInv, CrawlInv, ReplayInv, Replay
    PROVE  ReplayInv'
  <1>1. /\ cursor \in Seq(Record) /\ batch \in Seq(Record) /\ pushed \in Seq(Record)
        /\ snapshot \in Seq(Record) /\ IsPrefix(pushed, snapshot)
    BY RowsType DEF ReplayInv
  <1>2. CASE ReplayRead
    <2>1. /\ rpc = "read" /\ cursor # <<>> /\ cursor' = Tail(cursor)
          /\ batch' = Append(batch, Head(cursor)) /\ rpc' \in {"read", "push"}
          /\ pushed' = pushed /\ snapshot' = snapshot /\ total' = total
      BY <1>2 DEF ReplayRead
    <2>2. /\ Head(cursor) \in Record /\ Head(cursor) = cursor[1]
          /\ Tail(cursor) \in Seq(Record) /\ Len(Tail(cursor)) = Len(cursor) - 1
          /\ \A i \in 1 .. Len(Tail(cursor)) : Tail(cursor)[i] = cursor[i + 1]
      BY <1>1, <2>1, HeadTailProperties
    <2>3. Len(batch) \in Nat /\ Len(cursor) \in Nat /\ Len(cursor) # 0
      BY <1>1, <2>1, EmptySeq, LenProperties
    <2>4. /\ batch' \in Seq(Record) /\ Len(batch') = Len(batch) + 1
          /\ \A i \in 1 .. Len(batch') : batch'[i] = IF i <= Len(batch) THEN batch[i] ELSE cursor[1]
      BY <1>1, <2>1, <2>2, <2>3
    <2> DEFINE old == batch \o cursor
               new == batch' \o cursor'
               m == Len(batch)
               n == Len(cursor)
    <2>5. /\ old \in Seq(Record) /\ Len(old) = m + n
          /\ \A i \in 1 .. m + n : old[i] = IF i <= m THEN batch[i] ELSE cursor[i - m]
      BY <1>1, ConcatProperties
    <2>6. cursor' \in Seq(Record) /\ Len(cursor') = n - 1 /\ \A i \in 1 .. n - 1 : cursor'[i] = cursor[i + 1]
      BY <2>1, <2>2
    <2>7. /\ new \in Seq(Record) /\ Len(new) = (m + 1) + (n - 1)
          /\ \A i \in 1 .. (m + 1) + (n - 1) : new[i] = IF i <= m + 1 THEN batch'[i] ELSE cursor'[i - (m + 1)]
      <3> DEFINE b == batch'
                 c == cursor'
      <3>1. b \in Seq(Record) /\ c \in Seq(Record) /\ Len(b) = m + 1 /\ Len(c) = n - 1
        BY <2>4, <2>6
      <3> HIDE DEF b, c
      <3>2. /\ b \o c \in Seq(Record) /\ Len(b \o c) = Len(b) + Len(c)
            /\ \A i \in 1 .. Len(b) + Len(c) : (b \o c)[i] = IF i <= Len(b) THEN b[i] ELSE c[i - Len(b)]
        BY <3>1, ConcatProperties
      <3> HIDE DEF m, n
      <3>3. /\ b \o c \in Seq(Record) /\ Len(b \o c) = (m + 1) + (n - 1)
            /\ \A i \in 1 .. (m + 1) + (n - 1) : (b \o c)[i] = IF i <= m + 1 THEN b[i] ELSE c[i - (m + 1)]
        BY <3>1, <3>2
      <3> QED
        BY <3>3 DEF b, c
    <2>8. old = new
      <3>1. m \in Nat /\ n \in Nat /\ n # 0
        BY <2>3
      <3>2. \A i \in 1 .. m + 1 : batch'[i] = IF i <= m THEN batch[i] ELSE cursor[1]
        BY <2>4
      <3>3. \A i \in 1 .. n - 1 : cursor'[i] = cursor[i + 1]
        BY <2>6
      <3> HIDE DEF old, new, m, n
      <3>4. Len(old) = Len(new)
        BY <3>1, <2>5, <2>7
      <3>5. ASSUME NEW i \in 1 .. m + n PROVE old[i] = new[i]
        <4>1. i \in Int /\ i \in 1 .. (m + 1) + (n - 1)
          BY <3>1
        <4>2. CASE i <= m
          BY <4>1, <4>2, <3>1, <3>2, <2>5, <2>7
        <4>3. CASE i = m + 1
          <5>1. old[i] = cursor[i - m] /\ i - m = 1
            BY <4>1, <4>3, <3>1, <2>5
          <5>2. new[i] = batch'[i] /\ batch'[i] = cursor[1]
            BY <4>1, <4>3, <3>1, <3>2, <2>7
          <5> QED
            BY <5>1, <5>2
        <4>4. CASE i > m + 1
          <5>1. old[i] = cursor[i - m]
            BY <4>1, <4>4, <3>1, <2>5
          <5>2. new[i] = cursor'[i - (m + 1)] /\ i - (m + 1) \in 1 .. n - 1
            BY <4>1, <4>4, <3>1, <2>7
          <5>3. cursor'[i - (m + 1)] = cursor[i - (m + 1) + 1] /\ i - (m + 1) + 1 = i - m
            BY <5>2, <3>1, <3>3
          <5> QED
            BY <5>1, <5>2, <5>3
        <4> QED
          BY <4>1, <4>2, <4>3, <4>4, <3>1
      <3> QED
        BY <3>4, <3>5, <2>5, <2>7, SeqEqual
    <2>9. pushed \o (batch \o cursor) = snapshot /\ total = Len(pushed)
      BY <2>1 DEF ReplayInv
    <2>10. pushed' \o (batch' \o cursor') = snapshot' /\ total' = Len(pushed')
      BY <2>1, <2>8, <2>9
    <2> QED
      BY <1>1, <2>1, <2>10 DEF ReplayInv
  <1>3. CASE ReplayEnd
    <2>1. /\ rpc = "read" /\ cursor = <<>> /\ rpc' = (IF batch = <<>> THEN "done" ELSE "push")
          /\ UNCHANGED <<cursor, batch, total, snapshot, pushed>>
      BY <1>3 DEF ReplayEnd
    <2> QED
      BY <2>1 DEF ReplayInv
  <1>4. CASE ReplayPush
    <2>1. /\ rpc = "push" /\ pushed' = pushed \o batch /\ total' = total + Len(batch)
          /\ batch' = <<>> /\ rpc' = "read" /\ cursor' = cursor /\ snapshot' = snapshot
      BY <1>4 DEF ReplayPush
    <2>2. pushed \o (batch \o cursor) = snapshot /\ total = Len(pushed)
      BY <2>1 DEF ReplayInv
    <2>3. /\ pushed \o batch \in Seq(Record) /\ Len(pushed \o batch) = Len(pushed) + Len(batch)
          /\ (pushed \o batch) \o cursor = snapshot /\ <<>> \o cursor = cursor
      <3>1. (pushed \o batch) \o cursor = pushed \o (batch \o cursor)
        BY SMTT(30), <1>1, ConcatAssociative
      <3>2. pushed \o batch \in Seq(Record) /\ Len(pushed \o batch) = Len(pushed) + Len(batch)
        BY <1>1, ConcatProperties
      <3>3. <<>> \o cursor = cursor
        BY <1>1, ConcatEmptySeq
      <3> QED
        BY <2>2, <3>1, <3>2, <3>3
    <2>4. IsPrefix(pushed \o batch, snapshot)
      BY <1>1, <2>3, BeginsWith
    <2>5. /\ pushed' \o (batch' \o cursor') = snapshot' /\ total' = Len(pushed')
          /\ pushed' \in Seq(Record) /\ IsPrefix(pushed', snapshot')
      BY <2>1, <2>2, <2>3, <2>4
    <2> QED
      BY <1>1, <2>1, <2>5 DEF ReplayInv
  <1>5. CASE ReplayFails
    <2>1. /\ rpc' = "failed" /\ snapshot' = snapshot
          /\ pushed' = pushed \/ (rpc = "push" /\ pushed' = pushed \o batch)
      BY <1>5 DEF ReplayFails
    <2>2. CASE pushed' = pushed
      BY <1>1, <2>1, <2>2 DEF ReplayInv
    <2>3. CASE rpc = "push" /\ pushed' = pushed \o batch
      <3>1. pushed \o (batch \o cursor) = snapshot
        BY <2>3 DEF ReplayInv
      <3>2. pushed \o batch \in Seq(Record) /\ (pushed \o batch) \o cursor = snapshot
        <4>1. (pushed \o batch) \o cursor = pushed \o (batch \o cursor)
          BY SMTT(30), <1>1, ConcatAssociative
        <4>2. pushed \o batch \in Seq(Record)
          BY <1>1, ConcatProperties
        <4> QED
          BY <3>1, <4>1, <4>2
      <3>3. IsPrefix(pushed \o batch, snapshot)
        BY <1>1, <3>2, BeginsWith
      <3>4. IsPrefix(pushed', snapshot') /\ pushed' \in Seq(Record)
        BY <2>1, <2>3, <3>2, <3>3
      <3> QED
        BY <1>1, <2>1, <3>4 DEF ReplayInv
    <2> QED
      BY <2>1, <2>2, <2>3
  <1> QED
    BY <1>2, <1>3, <1>4, <1>5 DEF Replay

\* The invariant of the replay, on top of that of the rows.
LEMMA ReplayInvariant == Spec => [](CrawlInv /\ RowsInv /\ ReplayInv)
  <1>1. Init => ReplayInv
    <2> SUFFICES ASSUME Init PROVE ReplayInv
      OBVIOUS
    <2>1. rpc = "idle" /\ snapshot = <<>> /\ pushed = <<>>
      BY DEF Init
    <2>2. <<>> \in Seq(Record) /\ <<>> \o <<>> = <<>>
      OBVIOUS
    <2>3. IsPrefix(<<>>, <<>>)
      BY <2>2, BeginsWith
    <2> QED
      BY <2>1, <2>2, <2>3 DEF ReplayInv
  <1>2. CrawlInv /\ RowsInv /\ ReplayInv /\ [Next]_vars => ReplayInv'
    <2> SUFFICES ASSUME CrawlInv, RowsInv, ReplayInv, [Next]_vars PROVE ReplayInv'
      OBVIOUS
    <2>1. CASE \E d \in Domain : ReplayStart(d)
      BY <2>1, ReplayStartInv
    <2>2. CASE Replay
      BY <2>2, ReplayStepInv
    <2>3. CASE (\E q \in URL \cup Invalid : Enqueue(q)) \/ Loop \/ Signal \/ Crash \/ Restart \/ UNCHANGED vars
      <3>1. UNCHANGED replay
        BY <2>3 DEF Enqueue, Loop, Signal, Crash, Restart, Forget, Pop, PopTimeout, StartRun,
                    StartRunFails, StoreSeed, StoreSeedFails, AddSeed, AddSeedFails, AddSeedUnstored,
                    Page, PageFails, StoreFails, Found, Flush, FlushFails, CrawlEnds, Finish, FinishFails, Exit, vars
      <3> QED
        BY <3>1, ReplayAlone
    <2> QED
      BY <2>1, <2>2, <2>3 DEF Next
  <1> QED
    BY <1>1, <1>2, RowsInvariant, PTL DEF Spec

\* urls has one row per URL, and replayDomain (store.go) hands every row its
\* query saw to the RPUSH once, in the order of the ids: a replay that fails
\* has pushed a prefix of them, one that ends all of them, and counted them.
THEOREM ReplaysExact == Spec => []ReplayExact
  <1>1. RowsInv /\ ReplayInv => ReplayExact
    <2> SUFFICES ASSUME RowsInv, ReplayInv PROVE ReplayExact
      OBVIOUS
    <2>1. \A i, j \in DOMAIN rows : rows[i].url = rows[j].url => i = j
      BY DEF RowsInv, OneRow
    <2>2. ASSUME rpc = "done" PROVE pushed = snapshot /\ total = Len(snapshot)
      <3>1. /\ pushed \o (batch \o cursor) = snapshot /\ total = Len(pushed)
            /\ batch = <<>> /\ cursor = <<>> /\ pushed \in Seq(Record)
        BY <2>2 DEF ReplayInv
      <3>2. <<>> \o <<>> = <<>> /\ pushed \o <<>> = pushed
        BY <3>1, ConcatEmptySeq, EmptySeq
      <3> QED
        BY <3>1, <3>2
    <2> QED
      BY <2>1, <2>2 DEF ReplayExact, ReplayInv
  <1> QED
    BY <1>1, ReplayInvariant, PTL
=============================================================================
