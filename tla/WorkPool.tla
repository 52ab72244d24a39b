------------------------------ MODULE WorkPool ------------------------------
(***************************************************************************)
(* What one crawl promises about the distribution of its pages, with no    *)
(* counter, condition variable, database or goroutine in sight: a pool of  *)
(* pages nobody has taken, the pages being worked on, the pages taken so   *)
(* far, and whether the crawl is over.  A page enters the pool at most     *)
(* once and is taken at most once.  The crawl may declare itself over only *)
(* when there is provably nothing left to do, or when it was aborted.      *)
(*                                                                         *)
(* MapperCrawl implements this specification: its urlQueue decides that    *)
(* the crawl is over by counting.                                          *)
(***************************************************************************)
CONSTANT URL    \* the pages of the domain

VARIABLES pool,     \* pages waiting for a worker
          active,   \* pages some worker is processing
          taken,    \* pages handed to a worker so far
          over,     \* nothing more enters the pool
          aborted   \* the crawl was given up before it was finished

vars == <<pool, active, taken, over, aborted>>

Init == /\ pool = {}
        /\ active = {}
        /\ taken = {}
        /\ over = FALSE
        /\ aborted = FALSE

\* A page nobody has seen enters the pool.
Add(u) == /\ ~over
          /\ u \notin pool \cup taken
          /\ pool' = pool \cup {u}
          /\ UNCHANGED <<active, taken, over, aborted>>

\* A worker takes a page; no page is handed out twice.
Take(u) == /\ u \in pool \ taken
           /\ pool' = pool \ {u}
           /\ active' = active \cup {u}
           /\ taken' = taken \cup {u}
           /\ UNCHANGED <<over, aborted>>

\* A worker is through with its page; the last one ends the crawl.
Finish(u) == /\ u \in active
             /\ active' = active \ {u}
             /\ over' = (over \/ (pool = {} /\ active = {u}))
             /\ UNCHANGED <<pool, taken, aborted>>

\* The crawl is given up: the process is shutting down, or the seed could
\* not be recorded.
Abort == /\ over' = TRUE
         /\ aborted' = TRUE
         /\ UNCHANGED <<pool, active, taken>>

Next == \/ \E u \in URL : Add(u) \/ Take(u) \/ Finish(u)
        \/ Abort

Spec == Init /\ [][Next]_vars
=============================================================================
