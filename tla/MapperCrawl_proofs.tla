------------------------- MODULE MapperCrawl_proofs -------------------------
(***************************************************************************)
(* Theorems about MapperCrawl, for every site, every number of workers,    *)
(* every batch size and limit, and every combination of failures.          *)
(***************************************************************************)
EXTENDS MapperCrawl, FiniteSetTheorems, WellFoundedInduction, TLAPS

(***************************************************************************)
(* Type correctness.                                                       *)
(***************************************************************************)

\* What Signal and Broadcast do to the program counters: they move waiting
\* workers to "pop", and nothing else.
LEMMA SignalledType ==
    ASSUME NEW f \in [Proc -> WorkerPC \cup MainPC], NEW g \in Signalled(f)
    PROVE  /\ g \in [Proc -> WorkerPC \cup MainPC]
           /\ \A p \in Proc : g[p] = f[p] \/ (p \in Worker /\ f[p] = "wait" /\ g[p] = "pop")
  BY DEF Signalled, WorkerPC, Proc

LEMMA BroadcastType ==
    ASSUME NEW f \in [Proc -> WorkerPC \cup MainPC]
    PROVE  /\ Broadcast(f) \in [Proc -> WorkerPC \cup MainPC]
           /\ \A p \in Proc : Broadcast(f)[p] = IF f[p] = "wait" THEN "pop" ELSE f[p]
  BY DEF Broadcast, WorkerPC

\* What appending to, and taking from, a sequence of URLs does.
LEMMA SeqType ==
    ASSUME NEW S, NEW q \in Seq(S), NEW u \in S
    PROVE  /\ Append(q, u) \in Seq(S) /\ Len(Append(q, u)) = Len(q) + 1
           /\ q # <<>> => Head(q) \in S /\ Tail(q) \in Seq(S) /\ Len(Tail(q)) = Len(q) - 1
  OBVIOUS

LEMMA EmptySeqLen ==
    ASSUME NEW S
    PROVE  <<>> \in Seq(S) /\ Len(<<>>) = 0
  OBVIOUS

\* addURLs as a whole keeps the types, for whichever goroutine runs it.
LEMMA AddURLsType ==
    ASSUME TypeOK, NEW p \in Proc, AddURLs(p)
    PROVE  TypeOK'
  <1> USE DEF TypeOK, Proc, WorkerPC, MainPC, Busy, durable, queue, local,
              writer, control, ChanCap
  <1> USE CrawlAssumption
  <1>1. ASSUME NEW R \in SUBSET URL, pc[p] \in {"limit", "sadd", "push", "upsert"}, Return(p, R)
        PROVE  /\ pc' \in [Proc -> WorkerPC \cup MainPC]
               /\ pc'[Main] \in MainPC /\ \A w \in Worker : pc'[w] \in WorkerPC
               /\ todo' \in [Proc -> SUBSET URL] /\ got' \in [Proc -> SUBSET URL]
    BY <1>1 DEF Return, AfterAdd
  <1>2. CASE CheckLimit(p)
    <2>1. CASE Return(p, {})
      BY <1>1, <1>2, <2>1 DEF CheckLimit
    <2>2. CASE pc' = [pc EXCEPT ![p] = "sadd"] /\ UNCHANGED <<todo, got>>
      BY <1>2, <2>2 DEF CheckLimit
    <2> QED
      BY <1>2, <2>1, <2>2 DEF CheckLimit
  <1>3. ASSUME NEW u \in todo[p], SAdd(p, u)
        PROVE  TypeOK'
    <2> PICK fresh \in Won(p, u) :
               IF todo[p] = {u}
                 THEN /\ pc' = [pc EXCEPT ![p] = "push"]
                      /\ todo' = [todo EXCEPT ![p] = fresh]
                      /\ got' = [got EXCEPT ![p] = {}]
                 ELSE /\ todo' = [todo EXCEPT ![p] = @ \ {u}]
                      /\ got' = [got EXCEPT ![p] = fresh]
                      /\ UNCHANGED pc
      BY <1>3 DEF SAdd
    <2>1. u \in URL /\ fresh \in SUBSET URL /\ pc[p] = "sadd"
      BY <1>3 DEF SAdd, Won
    <2>2. CASE todo[p] = {u}
      <3>1. /\ pc' = [pc EXCEPT ![p] = "push"]
            /\ todo' = [todo EXCEPT ![p] = fresh]
            /\ got' = [got EXCEPT ![p] = {}]
        BY <2>2
      <3> QED
        BY <1>3, <2>1, <3>1 DEF SAdd
    <2>3. CASE todo[p] # {u}
      <3>1. /\ todo' = [todo EXCEPT ![p] = @ \ {u}]
            /\ got' = [got EXCEPT ![p] = fresh]
            /\ UNCHANGED pc
        BY <2>3
      <3> QED
        BY <1>3, <2>1, <3>1 DEF SAdd
    <2> QED
      BY <2>2, <2>3
  <1>4. CASE SAddFails(p)
    BY <1>1, <1>4 DEF SAddFails
  <1>5. ASSUME NEW u \in todo[p], Push(p, u)
        PROVE  TypeOK'
    <2>1. CASE closed
      BY <1>5, <2>1 DEF Push
    <2>2. CASE ~closed
      <3>1. pc' \in Signalled(pc)
        BY <1>5, <2>2 DEF Push
      <3>2. /\ pc' \in [Proc -> WorkerPC \cup MainPC]
            /\ \A q \in Proc : pc'[q] = pc[q] \/ (q \in Worker /\ pc[q] = "wait" /\ pc'[q] = "pop")
        BY <3>1, SignalledType
      <3>3. pc'[Main] \in MainPC /\ \A v \in Worker : pc'[v] \in WorkerPC
        BY <3>2
      <3>4. items' \in Seq(URL) /\ outstanding' \in Nat
        <4>1. u \in URL /\ items' = Append(items, u) /\ outstanding' = outstanding + 1
          BY <1>5, <2>2 DEF Push
        <4> QED
          BY <4>1, SeqType
      <3>5. /\ todo' \in [Proc -> SUBSET URL] /\ got' \in [Proc -> SUBSET URL]
            /\ UNCHANGED <<durable, closed, page, writer, control, stats, fetched>>
        BY <1>5, <2>2 DEF Push
      <3> QED
        BY <3>2, <3>3, <3>4, <3>5
    <2> QED
      BY <2>1, <2>2
  <1>6. CASE PushesDone(p)
    <2>1. CASE Return(p, {})
      BY <1>1, <1>6, <2>1 DEF PushesDone
    <2>2. CASE pc' = [pc EXCEPT ![p] = "upsert"] /\ UNCHANGED <<todo, got>>
      BY <1>6, <2>2 DEF PushesDone
    <2> QED
      BY <1>6, <2>1, <2>2 DEF PushesDone
  <1>7. CASE Upsert(p)
    BY <1>1, <1>7 DEF Upsert
  <1>8. CASE UpsertFails(p)
    BY <1>1, <1>8 DEF UpsertFails
  <1> QED
    BY <1>2, <1>3, <1>4, <1>5, <1>6, <1>7, <1>8 DEF AddURLs

\* Counting keeps the type of the statistics.
LEMMA StatsType ==
    ASSUME NEW st \in [Pages : Nat, Links : Nat, Errors : Nat], NEW n \in Nat
    PROVE  /\ [st EXCEPT !.Pages = @ + 1] \in [Pages : Nat, Links : Nat, Errors : Nat]
           /\ [st EXCEPT !.Errors = @ + 1] \in [Pages : Nat, Links : Nat, Errors : Nat]
           /\ [st EXCEPT !.Links = @ + n] \in [Pages : Nat, Links : Nat, Errors : Nat]
  OBVIOUS

LEMMA WorkerStepType ==
    ASSUME TypeOK, NEW w \in Worker, WorkerStep(w)
    PROVE  TypeOK'
  <1> USE DEF TypeOK, Proc, WorkerPC, MainPC, Busy, durable, queue, local,
              writer, control, ChanCap
  <1> USE CrawlAssumption
  <1>1. CASE Pop(w)
    BY <1>1 DEF Pop
  <1>2. CASE PopNothing(w)
    BY <1>2 DEF PopNothing
  <1>3. CASE Fetch(w)
    <2>1. stats' \in [Pages : Nat, Links : Nat, Errors : Nat]
      BY <1>3, StatsType DEF Fetch
    <2>2. PICK links \in LinksRead(w) :
          /\ pc' = [pc EXCEPT ![w] = "limit"]
          /\ todo' = [todo EXCEPT ![w] = links]
          /\ got' = [got EXCEPT ![w] = {}]
          /\ UNCHANGED <<durable, queue, page, writer, control, fetched>>
      BY <1>3 DEF Fetch
    <2>3. links \subseteq URL
      BY DEF LinksRead
    <2> QED
      BY <2>1, <2>2, <2>3
  <1>4. CASE FetchFails(w)
    <2>1. stats' \in [Pages : Nat, Links : Nat, Errors : Nat]
      BY <1>4, StatsType DEF FetchFails
    <2>2. /\ pc' = [pc EXCEPT ![w] = "done"]
          /\ UNCHANGED <<durable, queue, local, writer, control, fetched>>
      BY <1>4 DEF FetchFails
    <2> QED
      BY <2>1, <2>2
  <1>5. CASE AddURLs(w)
    BY <1>5, AddURLsType
  <1>6. ASSUME NEW u \in todo[w], Send(w, u)
        PROVE  TypeOK'
    <2>1. Cardinality(got[w]) \in Nat
      BY FS_Subset, FS_CardinalityType
    <2>2. stats' \in [Pages : Nat, Links : Nat, Errors : Nat]
      BY <1>6, <2>1, StatsType DEF Send
    <2>3. /\ Len(discovered) < ChanCap
          /\ discovered' = Append(discovered, u)
          /\ todo' = [todo EXCEPT ![w] = @ \ {u}]
          /\ pc' = [pc EXCEPT ![w] = "done"] \/ pc' = pc
          /\ UNCHANGED <<durable, queue, page, got, chanOpen, batch, wpc, control, fetched>>
      BY <1>6 DEF Send
    <2>4. discovered' \in Seq(URL) /\ Len(discovered') <= ChanCap
      BY <1>6, <2>3, SeqType
    <2> QED
      BY SMTT(30), <1>6, <2>2, <2>3, <2>4
  <1>7. CASE SendGivesUp(w)
    BY <1>7 DEF SendGivesUp
  <1>8. CASE Done(w)
    <2> DEFINE left == [pc EXCEPT ![w] = IF pc[w] = "quit" THEN "exited" ELSE "pop"]
    <2>1. left \in [Proc -> WorkerPC \cup MainPC]
      OBVIOUS
    <2>2. pc' = left \/ pc' = Broadcast(left)
      BY <1>8 DEF Done
    <2>3. /\ left[Main] \in MainPC /\ \A v \in Worker : left[v] \in WorkerPC
      OBVIOUS
    <2>4. /\ outstanding' \in Nat /\ (closed' = TRUE \/ closed' = closed)
          /\ todo' = [todo EXCEPT ![w] = {}]
          /\ got' = [got EXCEPT ![w] = {}]
          /\ UNCHANGED <<durable, items, page, writer, control, stats, fetched>>
      BY <1>8 DEF Done, Quiescent
    <2>5. closed' \in BOOLEAN
      BY <2>4
    <2> HIDE DEF left
    <2>6. CASE pc' = left
      BY <2>1, <2>3, <2>4, <2>5, <2>6
    <2>7. CASE pc' = Broadcast(left)
      <3>1. /\ pc' \in [Proc -> WorkerPC \cup MainPC]
            /\ \A p \in Proc : pc'[p] = IF left[p] = "wait" THEN "pop" ELSE left[p]
        BY <2>1, <2>7, BroadcastType
      <3>2. pc'[Main] \in MainPC /\ \A v \in Worker : pc'[v] \in WorkerPC
        BY <2>3, <3>1
      <3> QED
        BY <2>4, <2>5, <3>1, <3>2
    <2> QED
      BY <2>2, <2>6, <2>7
  <1> QED
    BY <1>1, <1>2, <1>3, <1>4, <1>5, <1>6, <1>7, <1>8 DEF WorkerStep

LEMMA InitType == Init => TypeOK
  <1> USE DEF TypeOK, Proc, WorkerPC, MainPC, Busy, durable, queue, local,
              writer, control, ChanCap
  <1> USE CrawlAssumption
  <1> SUFFICES ASSUME Init PROVE TypeOK
    OBVIOUS
  <1>1. pc \in [Proc -> WorkerPC \cup MainPC] /\ pc[Main] \in MainPC
    BY DEF Init
  <1>2. \A w \in Worker : pc[w] \in WorkerPC
    BY DEF Init
  <1>3. stats \in [Pages : Nat, Links : Nat, Errors : Nat]
    BY DEF Init
  <1>4. <<>> \in Seq(URL) /\ Len(<<>>) <= ChanCap /\ Len(<<>>) <= BatchSize
    BY EmptySeqLen
  <1>5. /\ visited \subseteq URL /\ stored \subseteq URL /\ before \subseteq URL
        /\ page \in [Worker -> URL]
        /\ todo \in [Proc -> SUBSET URL] /\ got \in [Proc -> SUBSET URL]
    BY DEF Init
  <1>6. /\ output = <<>> /\ items = <<>> /\ discovered = <<>> /\ batch = <<>>
        /\ outstanding = 0 /\ closed = FALSE /\ chanOpen = TRUE /\ wpc = "recv"
        /\ cancelled = FALSE /\ watcher = "armed" /\ seedAdded = FALSE /\ fetched = {}
        /\ faults \in Faults
    BY DEF Init
  <1>7. Len(batch) < BatchSize
    BY <1>6, EmptySeqLen
  <1> QED
    BY <1>1, <1>2, <1>3, <1>4, <1>5, <1>6, <1>7

\* Every value stays within its type, the channel within its capacity and the
\* writer's batch within REDIS_BATCH_SIZE.
THEOREM TypeCorrect == Spec => []TypeOK
  <1> USE DEF TypeOK, Proc, WorkerPC, MainPC, Busy, durable, queue, local,
              writer, control, ChanCap
  <1> USE CrawlAssumption
  <1>1. Init => TypeOK
    BY InitType
  <1>2. TypeOK /\ [Next]_vars => TypeOK'
    <2> SUFFICES ASSUME TypeOK, [Next]_vars PROVE TypeOK'
      OBVIOUS
    <2>1. CASE \E w \in Worker : WorkerStep(w)
      BY <2>1, WorkerStepType
    <2>2. CASE MainStep
      <3>1. CASE AddURLs(Main)
        BY <3>1, AddURLsType
      <3>2. CASE Spawn
        BY <3>2 DEF Spawn
      <3>3. CASE Join
        BY <3>3 DEF Join
      <3>4. CASE Leave
        BY <3>4 DEF Leave
      <3> QED
        BY <2>2, <3>1, <3>2, <3>3, <3>4 DEF MainStep
    <2>3. CASE WriterStep
      <3>1. CASE Receive
        <4>1. /\ discovered \in Seq(URL) /\ discovered # <<>>
              /\ batch' = Append(batch, Head(discovered))
              /\ discovered' = Tail(discovered)
              /\ UNCHANGED <<durable, queue, pc, local, chanOpen, control, stats, fetched>>
          BY <3>1 DEF Receive
        <4>2. batch' \in Seq(URL) /\ Len(batch') = Len(batch) + 1
          BY <4>1, SeqType
        <4>3. discovered' \in Seq(URL) /\ Len(discovered') <= ChanCap
          BY <4>1, SeqType
        <4> QED
          BY <3>1, <4>1, <4>2, <4>3 DEF Receive, NextWPC
      <3>2. CASE Drained
        BY <3>2 DEF Drained
      <3>3. CASE Flush
        BY <3>3 DEF Flush
      <3>4. CASE FlushFails
        <4>1. output \in Seq(URL) /\ batch \in Seq(URL) /\ output \o batch \in Seq(URL)
          OBVIOUS
        <4>2. output' = output \/ output' = output \o batch
          BY <3>4 DEF FlushFails
        <4>3. output' \in Seq(URL)
          BY <4>1, <4>2
        <4> QED
          BY <3>4, <4>3 DEF FlushFails
      <3> QED
        BY <2>3, <3>1, <3>2, <3>3, <3>4 DEF WriterStep
    <2>4. CASE Cancel
      BY <2>4 DEF Cancel
    <2>5. CASE CloseOnCancel
      BY <2>5, BroadcastType DEF CloseOnCancel
    <2>6. CASE UNCHANGED vars
      BY <2>6 DEF vars
    <2> QED
      BY <2>1, <2>2, <2>3, <2>4, <2>5, <2>6 DEF Next, Returned
  <1> QED
    BY <1>1, <1>2, PTL DEF Spec

(***************************************************************************)
(* The frontier counts right.                                              *)
(*                                                                         *)
(* OutstandingExact is inductive by itself.  NoPrematureClose is not: it   *)
(* needs that the count is 0 once done has closed the frontier, and that   *)
(* nothing is closed, and no worker runs, before the seed is dealt with.   *)
(***************************************************************************)

\* The main goroutine has not started the others yet.
SeedPhase == pc[Main] \in {"limit", "sadd", "push", "upsert", "spawn"}

AloneAtFirst == SeedPhase => ~closed /\ \A w \in Worker : pc[w] = "idle"

ClosedByCount == closed /\ ~Aborted => outstanding = 0

CountInv == /\ TypeOK
            /\ OutstandingExact
            /\ AloneAtFirst
            /\ ClosedByCount

LEMMA HoldingFinite == IsFiniteSet(Holding) /\ Cardinality(Holding) \in Nat
  BY CrawlAssumption, FS_Subset, FS_CardinalityType DEF Holding

\* The workers that hold a page are the same when each stays on its side of Busy.
LEMMA HoldingSame ==
    ASSUME \A w \in Worker : pc'[w] \in Busy <=> pc[w] \in Busy
    PROVE  Holding' = Holding
  BY DEF Holding

LEMMA HoldingGrows ==
    ASSUME NEW w \in Worker, pc[w] \notin Busy, pc'[w] \in Busy,
           \A v \in Worker \ {w} : pc'[v] \in Busy <=> pc[v] \in Busy
    PROVE  Holding' = Holding \cup {w} /\ Cardinality(Holding') = Cardinality(Holding) + 1
  <1>1. Holding' = Holding \cup {w} /\ w \notin Holding
    BY DEF Holding
  <1> QED
    BY <1>1, HoldingFinite, FS_AddElement

LEMMA HoldingShrinks ==
    ASSUME NEW w \in Worker, pc[w] \in Busy, pc'[w] \notin Busy,
           \A v \in Worker \ {w} : pc'[v] \in Busy <=> pc[v] \in Busy
    PROVE  Holding' = Holding \ {w} /\ Cardinality(Holding') = Cardinality(Holding) - 1
  <1>1. Holding' = Holding \ {w} /\ w \in Holding
    BY DEF Holding
  <1> QED
    BY <1>1, HoldingFinite, FS_RemoveElement

\* Whoever runs addURLs: the frontier grows by as much as its count, only
\* while it is open; no worker finishes its page, and the seed phase ends
\* nowhere else than in Spawn.
LEMMA AddURLsCounts ==
    ASSUME TypeOK, NEW p \in Proc, AddURLs(p)
    PROVE  /\ \/ UNCHANGED <<items, outstanding>>
              \/ ~closed /\ Len(items') = Len(items) + 1 /\ outstanding' = outstanding + 1
           /\ UNCHANGED <<closed, watcher, seedAdded>>
           /\ Holding' = Holding
           /\ SeedPhase' <=> SeedPhase
           /\ p = Main \/ (pc'[Main] = pc[Main] /\ pc[p] # "idle")
           /\ \A w \in Worker : pc[w] = "idle" => pc'[w] = "idle"
  <1> USE CrawlAssumption DEF TypeOK, Proc, queue, control, MainPC, WorkerPC
  <1> DEFINE Stays == \A w \in Worker : pc'[w] \in Busy <=> pc[w] \in Busy
  <1> DEFINE Rest == /\ SeedPhase' <=> SeedPhase
                     /\ p = Main \/ (pc'[Main] = pc[Main] /\ pc[p] # "idle")
                     /\ \A w \in Worker : pc[w] = "idle" => pc'[w] = "idle"
  <1>1. ASSUME NEW R, pc[p] \in {"limit", "sadd", "push", "upsert"}, Return(p, R)
        PROVE  Stays /\ Rest
    BY <1>1 DEF Return, AfterAdd, Busy, SeedPhase
  <1>2. CASE CheckLimit(p)
    <2>1. CASE Return(p, {})
      BY <1>1, <1>2, <2>1, HoldingSame DEF CheckLimit
    <2>2. CASE pc' = [pc EXCEPT ![p] = "sadd"]
      <3>1. Stays /\ Rest
        BY <1>2, <2>2 DEF CheckLimit, Busy, SeedPhase
      <3> QED
        BY <1>2, <3>1, HoldingSame DEF CheckLimit
    <2> QED
      BY <1>2, <2>1, <2>2 DEF CheckLimit
  <1>3. ASSUME NEW u \in todo[p], SAdd(p, u)
        PROVE  Stays /\ Rest /\ UNCHANGED <<items, outstanding, closed, watcher, seedAdded>>
    <2>1. pc[p] = "sadd" /\ (pc' = pc \/ pc' = [pc EXCEPT ![p] = "push"])
      BY <1>3 DEF SAdd
    <2>2. Stays /\ Rest
      BY <2>1 DEF Busy, SeedPhase
    <2> QED
      BY <1>3, <2>2 DEF SAdd
  <1>4. CASE SAddFails(p)
    BY <1>1, <1>4, HoldingSame DEF SAddFails
  <1>5. ASSUME NEW u \in todo[p], Push(p, u)
        PROVE  /\ Stays /\ Rest /\ UNCHANGED <<closed, watcher, seedAdded>>
               /\ \/ UNCHANGED <<items, outstanding>>
                  \/ ~closed /\ Len(items') = Len(items) + 1 /\ outstanding' = outstanding + 1
    <2>1. CASE closed
      BY <1>5, <2>1 DEF Push, Busy, SeedPhase
    <2>2. CASE ~closed
      <3>1. pc[p] = "push" /\ pc' \in Signalled(pc)
        BY <1>5, <2>2 DEF Push
      <3>2. /\ pc' \in [Proc -> WorkerPC \cup MainPC]
            /\ \A q \in Proc : pc'[q] = pc[q] \/ (q \in Worker /\ pc[q] = "wait" /\ pc'[q] = "pop")
        BY <3>1, SignalledType
      <3>3. Stays /\ Rest
        BY <3>1, <3>2 DEF Busy, SeedPhase
      <3>4. /\ u \in URL /\ items' = Append(items, u) /\ outstanding' = outstanding + 1
            /\ UNCHANGED <<closed, watcher, seedAdded>>
        BY <1>5, <2>2 DEF Push
      <3>5. Len(items') = Len(items) + 1
        BY <3>4, SeqType
      <3> QED
        BY <2>2, <3>3, <3>4, <3>5
    <2> QED
      BY <2>1, <2>2
  <1>6. CASE PushesDone(p)
    <2>1. CASE Return(p, {})
      BY <1>1, <1>6, <2>1, HoldingSame DEF PushesDone
    <2>2. CASE pc' = [pc EXCEPT ![p] = "upsert"]
      <3>1. Stays /\ Rest
        BY <1>6, <2>2 DEF PushesDone, Busy, SeedPhase
      <3> QED
        BY <1>6, <3>1, HoldingSame DEF PushesDone
    <2> QED
      BY <1>6, <2>1, <2>2 DEF PushesDone
  <1>7. CASE Upsert(p)
    BY <1>1, <1>7, HoldingSame DEF Upsert
  <1>8. CASE UpsertFails(p)
    BY <1>1, <1>8, HoldingSame DEF UpsertFails
  <1> QED
    BY <1>2, <1>3, <1>4, <1>5, <1>6, <1>7, <1>8, HoldingSame DEF AddURLs

LEMMA AddURLsCountInv ==
    ASSUME CountInv, NEW p \in Proc, AddURLs(p), TypeOK'
    PROVE  CountInv'
  <1>1. /\ \/ UNCHANGED <<items, outstanding>>
           \/ ~closed /\ Len(items') = Len(items) + 1 /\ outstanding' = outstanding + 1
        /\ UNCHANGED <<closed, watcher, seedAdded>>
        /\ Holding' = Holding
        /\ SeedPhase' <=> SeedPhase
        /\ p = Main \/ (pc'[Main] = pc[Main] /\ pc[p] # "idle")
        /\ \A w \in Worker : pc[w] = "idle" => pc'[w] = "idle"
    BY AddURLsCounts DEF CountInv
  <1>2. OutstandingExact'
    <2>1. Len(items) \in Nat /\ outstanding \in Nat
      BY DEF CountInv, TypeOK
    <2> QED
      BY <1>1, <2>1, HoldingFinite DEF CountInv, OutstandingExact
  <1>3. AloneAtFirst'
    BY <1>1 DEF CountInv, AloneAtFirst
  <1>4. Aborted' <=> Aborted
    BY <1>1, CrawlAssumption DEF Aborted, SeedPhase, CountInv, TypeOK, MainPC
  <1>5. ClosedByCount'
    BY <1>1, <1>4 DEF CountInv, ClosedByCount
  <1> QED
    BY <1>2, <1>3, <1>5 DEF CountInv

LEMMA WorkerStepCountInv ==
    ASSUME CountInv, NEW w \in Worker, WorkerStep(w), TypeOK'
    PROVE  CountInv'
  <1> USE CrawlAssumption
  <1> DEFINE mainStays == /\ pc'[Main] = pc[Main] /\ UNCHANGED <<watcher, seedAdded>>
                          /\ pc[w] # "idle"
  <1>1. /\ TypeOK /\ Len(items) \in Nat /\ outstanding \in Nat
        /\ OutstandingExact /\ AloneAtFirst /\ ClosedByCount
    BY SMTT(30) DEF CountInv, TypeOK
  <1>2. ASSUME mainStays, UNCHANGED closed
        PROVE  AloneAtFirst' /\ (closed' /\ ~Aborted' => outstanding = 0)
    <2>1. ~SeedPhase /\ ~SeedPhase'
      BY <1>1, <1>2 DEF AloneAtFirst, SeedPhase
    <2> QED
      BY <1>1, <1>2, <2>1 DEF AloneAtFirst, ClosedByCount, Aborted
  <1>3. CASE Pop(w)
    <2>1. mainStays /\ UNCHANGED <<closed, outstanding>>
      BY <1>1, <1>3 DEF Pop, control, TypeOK, Proc
    <2>2. Cardinality(Holding') = Cardinality(Holding) + 1
      BY <1>1, <1>3, HoldingGrows DEF Pop, Busy, TypeOK, Proc
    <2>3. items \in Seq(URL) /\ items # <<>> /\ items' = Tail(items)
      BY <1>1, <1>3 DEF Pop, TypeOK
    <2>4. Len(items') = Len(items) - 1
      BY <2>3, SeqType
    <2>5. OutstandingExact'
      BY <1>1, <2>1, <2>2, <2>4, HoldingFinite DEF OutstandingExact
    <2> QED
      BY <1>2, <2>1, <2>5 DEF CountInv, ClosedByCount
  <1>4. ASSUME mainStays, UNCHANGED <<items, outstanding, closed>>,
               \A v \in Worker : pc'[v] \in Busy <=> pc[v] \in Busy
        PROVE  CountInv'
    <2>1. Holding' = Holding
      BY <1>4, HoldingSame
    <2>2. OutstandingExact'
      BY <1>1, <1>4, <2>1 DEF OutstandingExact
    <2> QED
      BY <1>2, <1>4, <2>2 DEF CountInv, ClosedByCount
  <1>5. CASE PopNothing(w)
    BY <1>1, <1>4, <1>5 DEF PopNothing, Busy, TypeOK, Proc, queue, control
  <1>6. CASE Fetch(w)
    BY <1>1, <1>4, <1>6 DEF Fetch, Busy, TypeOK, Proc, queue, control
  <1>7. CASE FetchFails(w)
    BY <1>1, <1>4, <1>7 DEF FetchFails, Busy, TypeOK, Proc, queue, control
  <1>8. CASE AddURLs(w)
    BY <1>8, AddURLsCountInv DEF Proc
  <1>9. ASSUME NEW u \in todo[w], Send(w, u)
        PROVE  CountInv'
    <2>1. pc[w] = "send" /\ (pc' = pc \/ pc' = [pc EXCEPT ![w] = "done"])
      BY <1>9 DEF Send
    <2> QED
      BY <1>1, <1>4, <1>9, <2>1 DEF Send, Busy, TypeOK, Proc, queue, control
  <1>10. CASE SendGivesUp(w)
    BY <1>1, <1>4, <1>10 DEF SendGivesUp, Busy, TypeOK, Proc, queue, control
  <1>11. CASE Done(w)
    <2> DEFINE left == [pc EXCEPT ![w] = IF pc[w] = "quit" THEN "exited" ELSE "pop"]
    <2>1. /\ pc[w] \in {"done", "quit"} /\ UNCHANGED <<items, watcher, seedAdded>>
          /\ outstanding' = IF outstanding > 0 THEN outstanding - 1 ELSE outstanding
          /\ \/ outstanding' = 0 /\ closed' = TRUE /\ pc' = Broadcast(left)
             \/ closed' = closed /\ pc' = left
      BY <1>11 DEF Done, Quiescent, control
    <2>2. left \in [Proc -> WorkerPC \cup MainPC]
      BY <1>1 DEF TypeOK, WorkerPC, Proc
    <2>3. /\ left[w] \in {"exited", "pop"}
          /\ \A p \in Proc \ {w} : left[p] = pc[p]
      BY <1>1 DEF TypeOK, Proc
    <2>4. \A p \in Proc : pc'[p] = left[p] \/ (left[p] = "wait" /\ pc'[p] = "pop")
      BY <2>1, <2>2, BroadcastType
    <2>5. mainStays
      BY <1>1, <2>1, <2>3, <2>4 DEF TypeOK, MainPC, Proc
    <2>6. Holding' = Holding \ {w} /\ Cardinality(Holding') = Cardinality(Holding) - 1
      <3>1. pc[w] \in Busy /\ pc'[w] \notin Busy
        BY <2>1, <2>3, <2>4 DEF Busy, Proc
      <3>2. \A v \in Worker \ {w} : pc'[v] \in Busy <=> pc[v] \in Busy
        BY <2>3, <2>4 DEF Busy, Proc
      <3> QED
        BY <3>1, <3>2, HoldingShrinks
    <2>7. Cardinality(Holding) > 0
      BY <2>1, HoldingFinite, FS_EmptySet DEF Holding, Busy
    <2>8. outstanding > 0 /\ outstanding' = outstanding - 1
      BY <1>1, <2>1, <2>7, HoldingFinite DEF OutstandingExact
    <2>9. OutstandingExact'
      BY <1>1, <2>1, <2>6, <2>8, HoldingFinite DEF OutstandingExact
    <2>10. AloneAtFirst' /\ (Aborted' <=> Aborted)
      <3>1. ~SeedPhase /\ ~SeedPhase'
        BY <1>1, <2>5 DEF AloneAtFirst, SeedPhase
      <3> QED
        BY <2>1, <2>5, <3>1 DEF AloneAtFirst, Aborted
    <2>11. ClosedByCount'
      <3>1. closed => Aborted
        BY <1>1, <2>8 DEF ClosedByCount
      <3>2. CASE outstanding' = 0
        BY <3>2 DEF ClosedByCount
      <3>3. CASE closed' = closed
        BY <2>10, <3>1, <3>3 DEF ClosedByCount
      <3> QED
        BY <2>1, <3>2, <3>3
    <2> QED
      BY <2>9, <2>10, <2>11 DEF CountInv
  <1> QED
    BY <1>3, <1>5, <1>6, <1>7, <1>8, <1>9, <1>10, <1>11 DEF WorkerStep

\* The inductive invariant of the frontier.
LEMMA CountInvariant == Spec => []CountInv
  <1> USE CrawlAssumption
  <1>1. Init => CountInv
    <2> SUFFICES ASSUME Init PROVE CountInv
      OBVIOUS
    <2>1. TypeOK
      BY InitType
    <2>2. pc[Main] = "limit" /\ \A w \in Worker : pc[w] = "idle"
      BY DEF Init, Proc
    <2>3. Holding = {} /\ Cardinality(Holding) = 0
      BY <2>2, FS_EmptySet DEF Holding, Busy
    <2>4. items = <<>> /\ outstanding = 0 /\ closed = FALSE
      BY DEF Init
    <2>5. Len(items) = 0
      BY <2>4, EmptySeqLen
    <2> QED
      BY <2>1, <2>2, <2>3, <2>4, <2>5 DEF CountInv, OutstandingExact, AloneAtFirst, ClosedByCount
  <1>2. CountInv /\ TypeOK' /\ [Next]_vars => CountInv'
    <2> SUFFICES ASSUME CountInv, TypeOK', [Next]_vars PROVE CountInv'
      OBVIOUS
    <2>1. CASE \E w \in Worker : WorkerStep(w)
      BY <2>1, WorkerStepCountInv
    <2>2. ASSUME UNCHANGED <<items, outstanding, Holding>>,
                 AloneAtFirst', closed' /\ ~Aborted' => closed /\ ~Aborted
          PROVE  CountInv'
      BY <2>2 DEF CountInv, OutstandingExact, ClosedByCount
    <2>3. CASE MainStep
      <3>1. CASE AddURLs(Main)
        BY <3>1, AddURLsCountInv DEF Proc
      <3>2. CASE Spawn
        <4>1. \A w \in Worker : pc[w] = "idle" /\ pc'[w] = "pop"
          BY <3>2 DEF Spawn, CountInv, AloneAtFirst, SeedPhase, Proc
        <4>2. Holding' = Holding
          BY <4>1, HoldingSame DEF Busy
        <4>3. pc'[Main] = "join" /\ seedAdded' = (got[Main] # {}) /\ closed' = (closed \/ got[Main] = {})
          BY <3>2 DEF Spawn, Proc
        <4>4. AloneAtFirst'
          BY <4>3 DEF AloneAtFirst, SeedPhase
        <4>5. closed' /\ ~Aborted' => FALSE
          <5>1. ~closed
            BY <3>2 DEF Spawn, CountInv, AloneAtFirst, SeedPhase
          <5>2. CASE got[Main] = {}
            BY <4>3, <5>2 DEF Aborted
          <5>3. CASE got[Main] # {}
            BY <4>3, <5>1, <5>3
          <5> QED
            BY <5>2, <5>3
        <4> QED
          BY <2>2, <3>2, <4>2, <4>4, <4>5 DEF Spawn
      <3>3. CASE Join \/ Leave
        <4>1. /\ \A w \in Worker : pc'[w] = pc[w]
              /\ pc'[Main] \in {"flush", "returned"} /\ pc[Main] \in {"join", "flush"}
              /\ UNCHANGED <<items, outstanding, closed, watcher, seedAdded>>
          BY <3>3 DEF Join, Leave, CountInv, TypeOK, Proc, queue, control
        <4>2. Holding' = Holding
          BY <4>1, HoldingSame
        <4> QED
          BY <2>2, <4>1, <4>2 DEF AloneAtFirst, SeedPhase, Aborted
      <3> QED
        BY <2>3, <3>1, <3>2, <3>3 DEF MainStep
    <2>4. CASE WriterStep \/ Cancel \/ UNCHANGED vars
      <3>1. UNCHANGED <<items, outstanding, closed, pc, watcher, seedAdded>>
        BY <2>4 DEF WriterStep, Receive, Drained, Flush, FlushFails, Cancel, vars, queue, control
      <3>2. Holding' = Holding
        BY <3>1, HoldingSame
      <3> QED
        BY <2>2, <3>1, <3>2 DEF CountInv, AloneAtFirst, SeedPhase, Aborted
    <2>5. CASE CloseOnCancel
      <3>1. \A p \in Proc : pc'[p] = IF pc[p] = "wait" THEN "pop" ELSE pc[p]
        BY <2>5 DEF CloseOnCancel, Broadcast
      <3>2. Holding' = Holding
        BY <3>1, HoldingSame DEF Busy, Proc
      <3>3. pc'[Main] = pc[Main] /\ ~SeedPhase
        BY <2>5, <3>1 DEF CloseOnCancel, SeedPhase, Proc
      <3>4. AloneAtFirst' /\ Aborted'
        BY <2>5, <3>3 DEF AloneAtFirst, SeedPhase, Aborted, CloseOnCancel
      <3> QED
        BY <2>2, <2>5, <3>2, <3>4 DEF CloseOnCancel
    <2> QED
      BY <2>1, <2>3, <2>4, <2>5 DEF Next, Returned
  <1> QED
    BY <1>1, <1>2, TypeCorrect, PTL DEF Spec

\* The frontier counts its pages and the workers that hold one, and after an
\* undisturbed crawl has closed it there is neither: for every site, number of
\* workers and failure.
THEOREM CountsRight == Spec => [](OutstandingExact /\ NoPrematureClose)
  <1>1. CountInv => OutstandingExact /\ NoPrematureClose
    <2> SUFFICES ASSUME CountInv PROVE OutstandingExact /\ NoPrematureClose
      OBVIOUS
    <2>1. ASSUME closed, ~Aborted
          PROVE  items = <<>> /\ Holding = {}
      <3>1. Len(items) + Cardinality(Holding) = 0 /\ items \in Seq(URL)
        BY <2>1 DEF CountInv, ClosedByCount, OutstandingExact, TypeOK
      <3>2. Len(items) = 0 /\ Cardinality(Holding) = 0
        BY <3>1, HoldingFinite
      <3> QED
        BY <3>1, <3>2, HoldingFinite, FS_EmptySet
    <2> QED
      BY <2>1 DEF CountInv, NoPrematureClose
  <1> QED
    BY <1>1, CountInvariant, PTL

(***************************************************************************)
(* No page is handed out twice, and the crawl implements WorkPool.         *)
(*                                                                         *)
(* The visited set is what keeps the goroutines apart: a URL that one of   *)
(* them has claimed (it won the SADD and has not pushed it yet) is in no   *)
(* other's claim, not in the frontier and not fetched.                     *)
(***************************************************************************)

Elements(q) == {q[i] : i \in 1..Len(q)}

Distinct(q) == \A i, j \in 1..Len(q) : q[i] = q[j] => i = j

Pooled == Elements(items)

Claimed(p) == IF pc[p] \in {"limit", "sadd"} THEN got[p]
              ELSE IF pc[p] = "push" THEN todo[p] ELSE {}

ClaimsNew == \A p \in Proc : Claimed(p) \subseteq visited \ (Pooled \cup fetched)

ClaimsApart == \A p, q \in Proc : p # q => Claimed(p) \cap Claimed(q) = {}

PooledNew == /\ Pooled \cup fetched \subseteq visited
             /\ Pooled \cap fetched = {}
             /\ Distinct(items)

PagesApart == \A w \in Holding : /\ page[w] \in fetched
                                 /\ \A v \in Holding : page[v] = page[w] => v = w

UniqueInv == ClaimsNew /\ ClaimsApart /\ PooledNew /\ PagesApart

\* The elements of a queue without duplicates, when one is appended or taken.
LEMMA AppendElements ==
    ASSUME NEW S, NEW q \in Seq(S), NEW u \in S, u \notin Elements(q), Distinct(q)
    PROVE  Elements(Append(q, u)) = Elements(q) \cup {u} /\ Distinct(Append(q, u))
  <1> DEFINE r == Append(q, u)
  <1>1. /\ Len(q) \in Nat /\ Len(r) = Len(q) + 1 /\ r[Len(q) + 1] = u
        /\ \A i \in 1..Len(q) : r[i] = q[i]
    OBVIOUS
  <1> HIDE DEF r
  <1>2. 1..Len(r) = 1..Len(q) \cup {Len(q) + 1}
    BY <1>1
  <1>3. Elements(r) = Elements(q) \cup {u}
    BY <1>1, <1>2 DEF Elements
  <1>4. Distinct(r)
    BY <1>1, <1>2 DEF Elements, Distinct
  <1> QED
    BY <1>3, <1>4 DEF r

LEMMA TailElements ==
    ASSUME NEW S, NEW q \in Seq(S), q # <<>>, Distinct(q)
    PROVE  /\ Elements(Tail(q)) = Elements(q) \ {Head(q)} /\ Head(q) \in Elements(q)
           /\ Distinct(Tail(q))
  <1> DEFINE r == Tail(q)
  <1>1. /\ Len(q) \in Nat \ {0} /\ Len(r) = Len(q) - 1 /\ Head(q) = q[1]
        /\ \A i \in 1..Len(r) : r[i] = q[i + 1]
    OBVIOUS
  <1> HIDE DEF r
  <1>2. Distinct(r)
    BY <1>1 DEF Distinct
  <1>3. ASSUME NEW i \in 1..Len(r)
        PROVE  r[i] \in Elements(q) \ {Head(q)}
    <2>1. i + 1 \in 1..Len(q) /\ r[i] = q[i + 1] /\ i + 1 # 1 /\ 1 \in 1..Len(q)
      BY <1>1
    <2> QED
      BY <1>1, <2>1 DEF Elements, Distinct
  <1>4. ASSUME NEW k \in 1..Len(q), q[k] # Head(q)
        PROVE  \E i \in 1..Len(r) : r[i] = q[k]
    <2>1. k - 1 \in 1..Len(r) /\ r[k - 1] = q[k]
      BY <1>1, <1>4
    <2> QED
      BY <2>1
  <1>5. Head(q) \in Elements(q)
    BY <1>1 DEF Elements
  <1>6. Elements(r) = Elements(q) \ {Head(q)}
    BY <1>3, <1>4 DEF Elements
  <1> QED
    BY <1>2, <1>5, <1>6 DEF r

\* A step that leaves the frontier alone and in which nobody claims anything
\* new keeps the invariant.
LEMMA NoNewClaims ==
    ASSUME UniqueInv, UNCHANGED <<items, fetched, page, visited>>, Holding' \subseteq Holding,
           \A p \in Proc : Claimed(p)' \subseteq Claimed(p)
    PROVE  UniqueInv'
  <1>1. Pooled' = Pooled
    BY DEF Pooled
  <1>2. ClaimsNew'
    BY <1>1 DEF UniqueInv, ClaimsNew
  <1>3. ClaimsApart'
    BY DEF UniqueInv, ClaimsApart
  <1>4. PooledNew'
    BY <1>1 DEF UniqueInv, PooledNew
  <1>5. PagesApart'
    BY DEF UniqueInv, PagesApart
  <1> QED
    BY <1>2, <1>3, <1>4, <1>5 DEF UniqueInv

LEMMA AddURLsUnique ==
    ASSUME UniqueInv, TypeOK, NEW p \in Proc, AddURLs(p)
    PROVE  UniqueInv'
  <1> USE CrawlAssumption DEF TypeOK, durable, queue
  <1>1. Holding' = Holding
    BY AddURLsCounts
  <1>2. ASSUME NEW R, pc[p] \in {"limit", "sadd", "push", "upsert"}, Return(p, R)
        PROVE  \A q \in Proc : Claimed(q)' \subseteq Claimed(q)
    <2>1. /\ pc'[p] \in {"spawn", "done", "send"}
          /\ \A q \in Proc \ {p} : pc'[q] = pc[q] /\ got'[q] = got[q] /\ todo'[q] = todo[q]
      BY <1>2 DEF Return, AfterAdd
    <2> QED
      BY <2>1 DEF Claimed
  <1>3. CASE CheckLimit(p)
    <2>1. CASE Return(p, {})
      BY <1>1, <1>2, <1>3, <2>1, NoNewClaims DEF CheckLimit
    <2>2. CASE pc' = [pc EXCEPT ![p] = "sadd"] /\ UNCHANGED <<todo, got>>
      <3>1. \A q \in Proc : Claimed(q)' \subseteq Claimed(q)
        BY <1>3, <2>2 DEF CheckLimit, Claimed
      <3> QED
        BY <1>1, <1>3, <3>1, NoNewClaims DEF CheckLimit
    <2> QED
      BY <1>3, <2>1, <2>2 DEF CheckLimit
  <1>4. ASSUME NEW u \in todo[p], SAdd(p, u)
        PROVE  UniqueInv'
    <2> PICK fresh \in Won(p, u) :
               IF todo[p] = {u}
                 THEN /\ pc' = [pc EXCEPT ![p] = "push"]
                      /\ todo' = [todo EXCEPT ![p] = fresh]
                      /\ got' = [got EXCEPT ![p] = {}]
                 ELSE /\ todo' = [todo EXCEPT ![p] = @ \ {u}]
                      /\ got' = [got EXCEPT ![p] = fresh]
                      /\ UNCHANGED pc
      BY <1>4 DEF SAdd
    <2>1. /\ pc[p] = "sadd" /\ visited' = visited \cup {u}
          /\ \/ /\ pc' = [pc EXCEPT ![p] = "push"]
                /\ todo' = [todo EXCEPT ![p] = fresh]
                /\ got' = [got EXCEPT ![p] = {}]
             \/ /\ todo' = [todo EXCEPT ![p] = @ \ {u}]
                /\ got' = [got EXCEPT ![p] = fresh]
                /\ UNCHANGED pc
          /\ UNCHANGED <<items, fetched, page>>
      BY <1>4 DEF SAdd
    <2>2. /\ Claimed(p) = got[p] /\ Claimed(p)' = fresh
          /\ \A q \in Proc \ {p} : Claimed(q)' = Claimed(q)
      BY <2>1 DEF Claimed
    <2>3. Pooled' = Pooled
      BY <2>1 DEF Pooled
    <2>4. fresh \subseteq got[p] \cup {u} /\ (u \in visited => fresh = got[p])
      BY DEF Won, FirstToAdd
    <2>5. ClaimsNew'
      <3>1. visited' = visited \cup {u} /\ Pooled' = Pooled /\ fetched' = fetched
        BY <2>1, <2>3
      <3>2. \A q \in Proc : Claimed(q) \subseteq visited \ (Pooled \cup fetched)
        BY DEF UniqueInv, ClaimsNew
      <3>3. Claimed(p)' \subseteq visited' \ (Pooled' \cup fetched')
        <4>1. CASE u \in visited
          BY <4>1, <3>1, <3>2, <2>2, <2>4
        <4>2. CASE u \notin visited
          <5>1. u \notin Pooled \cup fetched
            BY <4>2 DEF UniqueInv, PooledNew
          <5> QED
            BY <5>1, <3>1, <3>2, <2>2, <2>4
        <4> QED
          BY <4>1, <4>2
      <3>4. \A q \in Proc \ {p} : Claimed(q)' \subseteq visited' \ (Pooled' \cup fetched')
        BY <3>1, <3>2, <2>2
      <3> QED
        BY <3>3, <3>4 DEF ClaimsNew
    <2>6. ClaimsApart'
      BY <2>2, <2>4 DEF UniqueInv, ClaimsApart, ClaimsNew
    <2>7. PooledNew' /\ PagesApart'
      BY <1>1, <2>1, <2>3 DEF UniqueInv, PooledNew, PagesApart
    <2> QED
      BY <2>5, <2>6, <2>7 DEF UniqueInv
  <1>5. CASE SAddFails(p)
    BY <1>1, <1>2, <1>5, NoNewClaims DEF SAddFails
  <1>6. ASSUME NEW u \in todo[p], Push(p, u)
        PROVE  UniqueInv'
    <2>1. /\ pc[p] = "push" /\ todo' = [todo EXCEPT ![p] = @ \ {u}]
          /\ UNCHANGED <<visited, page, fetched>>
      BY <1>6 DEF Push
    <2>2. \A q \in Proc : pc'[q] = pc[q] \/ (pc[q] = "wait" /\ pc'[q] = "pop")
      <3>1. CASE closed
        BY <1>6, <3>1 DEF Push
      <3>2. CASE ~closed
        <4>1. pc' \in Signalled(pc)
          BY <1>6, <3>2 DEF Push
        <4> QED
          BY <4>1, SignalledType
      <3> QED
        BY <3>1, <3>2
    <2>3. \A q \in Proc \ {p} : got'[q] = got[q]
      BY <1>6 DEF Push
    <2>4. /\ Claimed(p) = todo[p] /\ Claimed(p)' = todo[p] \ {u}
          /\ \A q \in Proc \ {p} : Claimed(q)' = Claimed(q)
      <3>1. pc'[p] = "push" /\ todo'[p] = todo[p] \ {u}
        BY <2>1, <2>2
      <3>2. \A q \in Proc \ {p} : todo'[q] = todo[q]
        BY <2>1
      <3> QED
        BY <2>1, <2>2, <2>3, <3>1, <3>2 DEF Claimed
    <2>5. CASE closed
      BY <1>1, <1>6, <2>1, <2>4, <2>5, NoNewClaims DEF Push
    <2>6. CASE ~closed
      <3>1. items \in Seq(URL) /\ u \in URL /\ items' = Append(items, u)
        BY <1>6, <2>6 DEF Push
      <3>2. u \in visited /\ u \notin Pooled /\ u \notin fetched
        BY <2>4 DEF UniqueInv, ClaimsNew
      <3>3. /\ Pooled' = Pooled \cup {u}
            /\ Distinct(items')
        BY <3>1, <3>2, AppendElements DEF Pooled, UniqueInv, PooledNew
      <3>4. ClaimsNew'
        <4> SUFFICES ASSUME NEW q \in Proc
                     PROVE  (Claimed(q) \subseteq visited \ (Pooled \cup fetched))'
          BY DEF ClaimsNew
        <4>1. Claimed(q)' \subseteq Claimed(q) /\ u \notin Claimed(q)'
          BY <2>4 DEF UniqueInv, ClaimsApart
        <4> QED
          BY <2>1, <3>3, <4>1 DEF UniqueInv, ClaimsNew
      <3>5. ClaimsApart'
        BY <2>4 DEF UniqueInv, ClaimsApart
      <3>6. PooledNew' /\ PagesApart'
        BY <1>1, <2>1, <3>2, <3>3 DEF UniqueInv, PooledNew, PagesApart
      <3> QED
        BY <3>4, <3>5, <3>6 DEF UniqueInv
    <2> QED
      BY <2>5, <2>6
  <1>7. CASE PushesDone(p)
    <2>1. CASE Return(p, {})
      BY <1>1, <1>2, <1>7, <2>1, NoNewClaims DEF PushesDone
    <2>2. CASE pc' = [pc EXCEPT ![p] = "upsert"] /\ UNCHANGED <<todo, got>>
      <3>1. \A q \in Proc : Claimed(q)' \subseteq Claimed(q)
        BY <1>7, <2>2 DEF PushesDone, Claimed
      <3> QED
        BY <1>1, <1>7, <3>1, NoNewClaims DEF PushesDone
    <2> QED
      BY <1>7, <2>1, <2>2 DEF PushesDone
  <1>8. CASE Upsert(p)
    BY <1>1, <1>2, <1>8, NoNewClaims DEF Upsert
  <1>9. CASE UpsertFails(p)
    BY <1>1, <1>2, <1>9, NoNewClaims DEF UpsertFails
  <1> QED
    BY <1>3, <1>4, <1>5, <1>6, <1>7, <1>8, <1>9 DEF AddURLs

LEMMA WorkerStepUnique ==
    ASSUME UniqueInv, TypeOK, NEW w \in Worker, WorkerStep(w)
    PROVE  UniqueInv'
  <1> USE CrawlAssumption DEF TypeOK, Proc, queue, durable, local
  <1>1. ASSUME UNCHANGED <<items, fetched, page, visited>>,
               pc'[w] \in Busy => pc[w] \in Busy,
               pc'[w] \in {"limit", "sadd"} => got'[w] = {}, pc'[w] # "push",
               \A p \in Proc \ {w} : /\ pc'[p] = pc[p] \/ (pc[p] = "wait" /\ pc'[p] = "pop")
                                    /\ got'[p] = got[p] /\ todo'[p] = todo[p]
        PROVE  UniqueInv'
    <2>1. Holding' \subseteq Holding
      BY <1>1 DEF Holding, Busy
    <2>2. \A p \in Proc : Claimed(p)' \subseteq Claimed(p)
      BY <1>1 DEF Claimed
    <2> QED
      BY <1>1, <2>1, <2>2, NoNewClaims
  <1>2. CASE Pop(w)
    <2>1. /\ pc[w] = "pop" /\ pc' = [pc EXCEPT ![w] = "fetch"]
          /\ page' = [page EXCEPT ![w] = Head(items)]
          /\ items \in Seq(URL) /\ items # <<>> /\ items' = Tail(items)
          /\ fetched' = fetched \cup {Head(items)}
          /\ UNCHANGED <<visited, todo, got>>
      BY <1>2 DEF Pop
    <2>2. /\ Pooled' = Pooled \ {Head(items)} /\ Head(items) \in Pooled
          /\ Distinct(items')
      BY <2>1, TailElements DEF Pooled, UniqueInv, PooledNew
    <2>3. \A p \in Proc : Claimed(p)' = Claimed(p)
      BY <2>1 DEF Claimed
    <2>4. ClaimsNew'
      BY <2>1, <2>2, <2>3 DEF UniqueInv, ClaimsNew
    <2>5. ClaimsApart'
      BY <2>3 DEF UniqueInv, ClaimsApart
    <2>6. PooledNew'
      BY <2>1, <2>2 DEF UniqueInv, PooledNew
    <2>7. PagesApart'
      <3>1. Holding' = Holding \cup {w} /\ w \notin Holding
        BY <2>1 DEF Holding, Busy
      <3>2. page'[w] = Head(items) /\ \A v \in Worker \ {w} : page'[v] = page[v]
        BY <2>1
      <3>3. Head(items) \notin fetched
        BY <2>2 DEF UniqueInv, PooledNew
      <3>4. Holding \subseteq Worker
        BY DEF Holding
      <3> QED
        BY <2>1, <3>1, <3>2, <3>3, <3>4 DEF UniqueInv, PagesApart
    <2> QED
      BY <2>4, <2>5, <2>6, <2>7 DEF UniqueInv
  <1>3. CASE PopNothing(w)
    BY <1>1, <1>3 DEF PopNothing, Busy
  <1>4. CASE Fetch(w)
    BY <1>1, <1>4 DEF Fetch, Busy
  <1>5. CASE FetchFails(w)
    BY <1>1, <1>5 DEF FetchFails, Busy
  <1>6. CASE AddURLs(w)
    BY <1>6, AddURLsUnique
  <1>7. ASSUME NEW u \in todo[w], Send(w, u)
        PROVE  UniqueInv'
    <2>1. /\ pc[w] = "send" /\ (pc' = pc \/ pc' = [pc EXCEPT ![w] = "done"])
          /\ todo' = [todo EXCEPT ![w] = @ \ {u}]
          /\ UNCHANGED <<items, fetched, page, visited, got>>
      BY <1>7 DEF Send
    <2>2. \A p \in Proc \ {w} : pc'[p] = pc[p] /\ got'[p] = got[p] /\ todo'[p] = todo[p]
      BY <2>1
    <2>3. pc'[w] \in {"send", "done"}
      BY <2>1
    <2> QED
      BY <1>1, <2>1, <2>2, <2>3 DEF Busy
  <1>8. CASE SendGivesUp(w)
    BY <1>1, <1>8 DEF SendGivesUp, Busy
  <1>9. CASE Done(w)
    <2> DEFINE left == [pc EXCEPT ![w] = IF pc[w] = "quit" THEN "exited" ELSE "pop"]
    <2>1. /\ pc' = Broadcast(left) \/ pc' = left
          /\ UNCHANGED <<items, fetched, page, visited>>
          /\ todo' = [todo EXCEPT ![w] = {}] /\ got' = [got EXCEPT ![w] = {}]
      BY <1>9 DEF Done
    <2>2. left \in [Proc -> WorkerPC \cup MainPC]
      BY DEF WorkerPC
    <2>3. left[w] \in {"exited", "pop"} /\ \A p \in Proc \ {w} : left[p] = pc[p]
      OBVIOUS
    <2>4. \A p \in Proc : pc'[p] = left[p] \/ (left[p] = "wait" /\ pc'[p] = "pop")
      BY ZenonT(40), <2>1, <2>2, BroadcastType
    <2> HIDE DEF left
    <2>5. pc'[w] \notin Busy \cup {"limit", "sadd", "push"}
      BY <2>3, <2>4 DEF Busy
    <2>6. \A p \in Proc \ {w} : /\ pc'[p] = pc[p] \/ (pc[p] = "wait" /\ pc'[p] = "pop")
                                /\ got'[p] = got[p] /\ todo'[p] = todo[p]
      BY <2>1, <2>3, <2>4
    <2> QED
      BY <1>1, <2>1, <2>5, <2>6
  <1> QED
    BY <1>2, <1>3, <1>4, <1>5, <1>6, <1>7, <1>8, <1>9 DEF WorkerStep

\* The steps of the main goroutine, the context and the writer claim nothing.
LEMMA OtherStepsUnique ==
    ASSUME UniqueInv, TypeOK, CountInv,
           Spawn \/ Join \/ Leave \/ WriterStep \/ Cancel \/ CloseOnCancel \/ UNCHANGED vars
    PROVE  UniqueInv' /\ Holding' = Holding
  <1> USE CrawlAssumption DEF TypeOK, Proc, queue, durable, local
  <1>1. UNCHANGED <<items, fetched, page, visited, todo, got>>
    BY DEF Spawn, Join, Leave, WriterStep, Receive, Drained, Flush, FlushFails, Cancel,
           CloseOnCancel, vars
  <1>2. \A p \in Proc : \/ pc'[p] = pc[p]
                       \/ {pc[p], pc'[p]} \cap (Busy \cup {"limit", "sadd", "push"}) = {}
    <2>1. CASE Spawn
      <3>1. \A w \in Worker : pc[w] = "idle" /\ pc'[w] = "pop"
        BY <2>1 DEF Spawn, CountInv, AloneAtFirst, SeedPhase
      <3>2. pc[Main] = "spawn" /\ pc'[Main] = "join"
        BY <2>1 DEF Spawn
      <3> QED
        BY <3>1, <3>2 DEF Busy
    <2>2. CASE Join \/ Leave
      BY <2>2 DEF Join, Leave, Busy
    <2>3. CASE CloseOnCancel
      BY <2>3, BroadcastType DEF CloseOnCancel, Busy
    <2>4. CASE WriterStep \/ Cancel \/ UNCHANGED vars
      BY <2>4 DEF WriterStep, Receive, Drained, Flush, FlushFails, Cancel, vars
    <2> QED
      BY <2>1, <2>2, <2>3, <2>4
  <1>3. Holding' = Holding
    BY <1>2 DEF Holding
  <1>4. \A p \in Proc : Claimed(p)' = Claimed(p)
    BY <1>1, <1>2 DEF Claimed
  <1> QED
    BY <1>1, <1>3, <1>4, NoNewClaims

\* No page is handed to two workers, nor twice to the same one: whatever is in
\* the frontier or claimed has not been fetched.
THEOREM PagesUnique == Spec => []UniqueInv
  <1> USE CrawlAssumption
  <1>1. Init => UniqueInv
    <2> SUFFICES ASSUME Init PROVE UniqueInv
      OBVIOUS
    <2>1. /\ items = <<>> /\ fetched = {} /\ \A p \in Proc : got[p] = {} /\ pc[p] # "push"
          /\ \A w \in Worker : pc[w] = "idle"
      BY DEF Init, Proc
    <2>2. Pooled = {} /\ Len(items) = 0
      BY <2>1, EmptySeqLen DEF Pooled, Elements
    <2>3. Holding = {} /\ \A p \in Proc : Claimed(p) = {}
      BY <2>1 DEF Holding, Busy, Claimed
    <2> QED
      BY <2>1, <2>2, <2>3 DEF UniqueInv, ClaimsNew, ClaimsApart, PooledNew, PagesApart, Distinct
  <1>2. UniqueInv /\ TypeOK /\ CountInv /\ [Next]_vars => UniqueInv'
    BY WorkerStepUnique, AddURLsUnique, OtherStepsUnique DEF Next, MainStep, Returned, Proc
  <1> QED
    BY <1>1, <1>2, TypeCorrect, CountInvariant, PTL DEF Spec

(***************************************************************************)
(* MapperCrawl implements WorkPool.                                        *)
(***************************************************************************)

Active == {page[w] : w \in Holding}

\* The steps of WorkPool, spelled out over the state of MapperCrawl.
PoolStutters == UNCHANGED <<Pooled, Active, fetched, closed>> /\ (Aborted' <=> Aborted)

PoolAdds == \E u \in URL : /\ closed = FALSE /\ u \notin Pooled \cup fetched
                           /\ Pooled' = Pooled \cup {u}
                           /\ UNCHANGED <<Active, fetched, closed>> /\ (Aborted' <=> Aborted)

PoolTakes == \E u \in URL : /\ u \in Pooled \ fetched
                            /\ Pooled' = Pooled \ {u}
                            /\ Active' = Active \cup {u}
                            /\ fetched' = fetched \cup {u}
                            /\ UNCHANGED closed /\ (Aborted' <=> Aborted)

PoolFinishes == \E u \in URL : /\ u \in Active
                               /\ Active' = Active \ {u}
                               /\ \/ closed' = TRUE /\ Pooled = {} /\ Active = {u}
                                  \/ closed' = closed /\ ~(Pooled = {} /\ Active = {u})
                               /\ UNCHANGED <<Pooled, fetched>> /\ (Aborted' <=> Aborted)

PoolAborts == closed' = TRUE /\ Aborted' /\ UNCHANGED <<Pooled, Active, fetched>>

PoolStep == PoolStutters \/ PoolAdds \/ PoolTakes \/ PoolFinishes \/ PoolAborts

LEMMA PoolStepIsNext == TypeOK /\ TypeOK' /\ PoolStep => [Pool!Next]_(Pool!vars)
  <1> USE DEF Pooled, Elements, Active
  <1> SUFFICES ASSUME TypeOK, TypeOK', PoolStep PROVE [Pool!Next]_(Pool!vars)
    OBVIOUS
  <1>1. Aborted \in BOOLEAN /\ Aborted' \in BOOLEAN /\ closed \in BOOLEAN /\ closed' \in BOOLEAN
    BY DEF Aborted, TypeOK
  <1>2. CASE PoolStutters
    BY <1>1, <1>2 DEF PoolStutters, Pool!vars
  <1>3. CASE PoolAdds
    BY <1>1, <1>3 DEF PoolAdds, Pool!Next, Pool!Add
  <1>4. CASE PoolTakes
    BY <1>1, <1>4 DEF PoolTakes, Pool!Next, Pool!Take
  <1>5. CASE PoolFinishes
    BY <1>1, <1>5 DEF PoolFinishes, Pool!Next, Pool!Finish
  <1>6. CASE PoolAborts
    BY <1>1, <1>6 DEF PoolAborts, Pool!Next, Pool!Abort
  <1> QED
    BY <1>2, <1>3, <1>4, <1>5, <1>6 DEF PoolStep

LEMMA AddURLsPoolStep ==
    ASSUME UniqueInv, CountInv, NEW p \in Proc, AddURLs(p)
    PROVE  PoolStutters \/ PoolAdds
  <1> USE CrawlAssumption DEF queue, control
  <1>1. /\ TypeOK /\ Holding' = Holding /\ (SeedPhase' <=> SeedPhase)
        /\ UNCHANGED <<closed, watcher, seedAdded>>
    BY AddURLsCounts DEF CountInv
  <1>2. Aborted' <=> Aborted
    <2>1. p = Main \/ pc'[Main] = pc[Main]
      BY <1>1, AddURLsCounts
    <2>2. CASE p = Main
      <3>1. pc[Main] \in {"limit", "sadd", "push", "upsert"}
        BY <2>2 DEF AddURLs, CheckLimit, SAdd, SAddFails, Push, PushesDone, Upsert, UpsertFails
      <3>2. SeedPhase /\ SeedPhase'
        BY <1>1, <3>1 DEF SeedPhase
      <3> QED
        BY <1>1, <3>2 DEF Aborted, SeedPhase
    <2>3. CASE pc'[Main] = pc[Main]
      BY <1>1, <2>3 DEF Aborted
    <2> QED
      BY <2>1, <2>2, <2>3
  <1>3. UNCHANGED <<page, fetched>>
    BY DEF AddURLs, CheckLimit, SAdd, SAddFails, Push, PushesDone, Upsert, UpsertFails
  <1>4. UNCHANGED Active
    BY <1>1, <1>3 DEF Active
  <1>5. CASE UNCHANGED items
    BY <1>1, <1>2, <1>3, <1>4, <1>5 DEF PoolStutters, Pooled
  <1>6. ASSUME NEW u \in todo[p], Push(p, u), ~closed
        PROVE  PoolAdds
    <2>1. u \in URL /\ items \in Seq(URL) /\ items' = Append(items, u) /\ pc[p] = "push"
      BY <1>1, <1>6 DEF Push, TypeOK
    <2>2. u \notin Pooled \cup fetched /\ Distinct(items)
      BY <2>1 DEF UniqueInv, ClaimsNew, PooledNew, Claimed
    <2>3. Pooled' = Pooled \cup {u}
      BY <2>1, <2>2, AppendElements DEF Pooled
    <2>4. closed = FALSE
      BY <1>1, <1>6 DEF TypeOK
    <2> QED
      BY <1>1, <1>2, <1>3, <1>4, <2>1, <2>2, <2>3, <2>4 DEF PoolAdds
  <1>7. UNCHANGED items \/ \E u \in todo[p] : Push(p, u) /\ ~closed
    BY DEF AddURLs, CheckLimit, SAdd, SAddFails, Push, PushesDone, Upsert, UpsertFails
  <1> QED
    BY <1>5, <1>6, <1>7

LEMMA WorkerStepPoolStep ==
    ASSUME UniqueInv, CountInv, NEW w \in Worker, WorkerStep(w)
    PROVE  PoolStep
  <1> USE CrawlAssumption DEF Proc, queue, control, durable
  <1>1. /\ TypeOK /\ Len(items) \in Nat /\ outstanding \in Nat
        /\ OutstandingExact /\ AloneAtFirst
    BY DEF CountInv, TypeOK
  <1>2. CASE AddURLs(w)
    BY <1>2, AddURLsPoolStep DEF PoolStep
  <1>3. ASSUME ~AddURLs(w)
        PROVE  pc'[Main] = pc[Main] /\ UNCHANGED <<watcher, seedAdded>> /\ (Aborted' <=> Aborted)
    <2>1. CASE Done(w)
      <3> DEFINE left == [pc EXCEPT ![w] = IF pc[w] = "quit" THEN "exited" ELSE "pop"]
      <3>1. left \in [Proc -> WorkerPC \cup MainPC] /\ left[Main] = pc[Main] /\ pc[Main] # "wait"
        BY <1>1 DEF TypeOK, WorkerPC, MainPC
      <3>2. (pc' = Broadcast(left) \/ pc' = left) /\ UNCHANGED <<watcher, seedAdded>>
        BY <2>1 DEF Done
      <3>3. pc'[Main] = pc[Main]
        BY <3>1, <3>2, BroadcastType
      <3> QED
        BY <3>2, <3>3 DEF Aborted
    <2>2. CASE Pop(w) \/ PopNothing(w) \/ Fetch(w) \/ FetchFails(w) \/ SendGivesUp(w)
      <3>1. pc'[Main] = pc[Main] /\ UNCHANGED <<watcher, seedAdded>>
        BY <1>1, <2>2 DEF TypeOK, Pop, PopNothing, Fetch, FetchFails, SendGivesUp
      <3> QED
        BY <3>1 DEF Aborted
    <2>3. ASSUME NEW u \in todo[w], Send(w, u)
          PROVE  pc'[Main] = pc[Main] /\ UNCHANGED <<watcher, seedAdded>> /\ (Aborted' <=> Aborted)
      <3>1. (pc' = pc \/ pc' = [pc EXCEPT ![w] = "done"]) /\ UNCHANGED <<watcher, seedAdded>>
        BY <2>3 DEF Send
      <3>2. pc'[Main] = pc[Main]
        BY <1>1, <3>1 DEF TypeOK
      <3> QED
        BY <3>1, <3>2 DEF Aborted
    <2> QED
      BY <1>3, <2>1, <2>2, <2>3 DEF WorkerStep
  <1>4. CASE Pop(w)
    <2>1. /\ pc[w] = "pop" /\ pc' = [pc EXCEPT ![w] = "fetch"]
          /\ page' = [page EXCEPT ![w] = Head(items)]
          /\ items \in Seq(URL) /\ items # <<>> /\ items' = Tail(items)
          /\ fetched' = fetched \cup {Head(items)} /\ UNCHANGED closed
      BY <1>1, <1>4 DEF Pop, TypeOK
    <2>2. ~AddURLs(w)
      BY <2>1 DEF AddURLs, CheckLimit, SAdd, SAddFails, Push, PushesDone, Upsert, UpsertFails
    <2>3. Pooled' = Pooled \ {Head(items)} /\ Head(items) \in Pooled /\ Head(items) \in URL
      BY <2>1, TailElements, SeqType DEF Pooled, UniqueInv, PooledNew
    <2>4. Head(items) \notin fetched
      BY <2>3 DEF UniqueInv, PooledNew
    <2>5. Holding' = Holding \cup {w} /\ w \notin Holding
      BY <1>1, <2>1 DEF Holding, Busy, TypeOK
    <2>6. page'[w] = Head(items) /\ \A v \in Holding : page'[v] = page[v]
      BY <1>1, <2>1, <2>5 DEF TypeOK, Holding
    <2>7. Active' = Active \cup {Head(items)}
      BY <2>5, <2>6 DEF Active
    <2> QED
      BY <1>3, <2>1, <2>2, <2>3, <2>4, <2>7 DEF PoolStep, PoolTakes
  <1>5. ASSUME UNCHANGED <<items, page, fetched, closed>>, ~AddURLs(w),
               \A v \in Worker : pc'[v] \in Busy <=> pc[v] \in Busy
        PROVE  PoolStep
    BY <1>3, <1>5, HoldingSame DEF PoolStep, PoolStutters, Pooled, Active
  <1>6. CASE PopNothing(w) \/ Fetch(w) \/ FetchFails(w) \/ SendGivesUp(w)
    <2>1. ~AddURLs(w)
      BY <1>6 DEF AddURLs, CheckLimit, SAdd, SAddFails, Push, PushesDone, Upsert, UpsertFails,
                  PopNothing, Fetch, FetchFails, SendGivesUp
    <2>2. \A v \in Worker : pc'[v] \in Busy <=> pc[v] \in Busy
      BY <1>1, <1>6 DEF PopNothing, Fetch, FetchFails, SendGivesUp, TypeOK, Busy
    <2> QED
      BY <1>5, <1>6, <2>1, <2>2 DEF PopNothing, Fetch, FetchFails, SendGivesUp, local
  <1>7. ASSUME NEW u \in todo[w], Send(w, u)
        PROVE  PoolStep
    <2>1. pc[w] = "send" /\ (pc' = pc \/ pc' = [pc EXCEPT ![w] = "done"])
      BY <1>7 DEF Send
    <2>2. ~AddURLs(w)
      BY <2>1 DEF AddURLs, CheckLimit, SAdd, SAddFails, Push, PushesDone, Upsert, UpsertFails
    <2>3. \A v \in Worker : pc'[v] \in Busy <=> pc[v] \in Busy
      BY <1>1, <2>1 DEF TypeOK, Busy
    <2> QED
      BY <1>5, <1>7, <2>2, <2>3 DEF Send
  <1>8. CASE Done(w)
    <2> DEFINE left == [pc EXCEPT ![w] = IF pc[w] = "quit" THEN "exited" ELSE "pop"]
    <2>1. /\ pc[w] \in {"done", "quit"} /\ UNCHANGED <<items, page, fetched>>
          /\ outstanding' = IF outstanding > 0 THEN outstanding - 1 ELSE outstanding
          /\ \/ outstanding' = 0 /\ closed' = TRUE /\ pc' = Broadcast(left)
             \/ outstanding' # 0 /\ closed' = closed /\ pc' = left
      BY <1>8 DEF Done, Quiescent
    <2>2. ~AddURLs(w)
      BY <2>1 DEF AddURLs, CheckLimit, SAdd, SAddFails, Push, PushesDone, Upsert, UpsertFails
    <2>3. /\ left \in [Proc -> WorkerPC \cup MainPC] /\ left[w] \in {"exited", "pop"}
          /\ \A p \in Proc \ {w} : left[p] = pc[p]
      BY <1>1 DEF TypeOK, WorkerPC
    <2>4. \A p \in Proc : pc'[p] = left[p] \/ (left[p] = "wait" /\ pc'[p] = "pop")
      <3>1. pc' = left \/ pc' = Broadcast(left)
        BY <2>1
      <3> HIDE DEF left
      <3> QED
        BY ZenonT(40), <2>3, <3>1, BroadcastType
    <2>5. Holding' = Holding \ {w} /\ Cardinality(Holding') = Cardinality(Holding) - 1 /\ w \in Holding
      <3>1. pc[w] \in Busy /\ pc'[w] \notin Busy
        BY <2>1, <2>3, <2>4 DEF Busy
      <3>2. \A v \in Worker \ {w} : pc'[v] \in Busy <=> pc[v] \in Busy
        BY <2>3, <2>4 DEF Busy
      <3> QED
        BY <3>1, <3>2, HoldingShrinks DEF Holding
    <2>6. Active' = Active \ {page[w]} /\ page[w] \in Active /\ page[w] \in URL
      BY <1>1, <2>1, <2>5 DEF UniqueInv, PagesApart, Active, Holding, TypeOK
    <2>7. outstanding' = Len(items) + Cardinality(Holding \ {w})
      <3>1. Cardinality(Holding \ {w}) \in Nat /\ Cardinality(Holding) > 0
        BY <2>5, HoldingFinite, FS_RemoveElement, FS_CardinalityType, FS_EmptySet
      <3> QED
        BY <1>1, <2>1, <2>5, <3>1, HoldingFinite DEF OutstandingExact
    <2>8. outstanding' = 0 <=> Pooled = {} /\ Active = {page[w]}
      <3>1. /\ IsFiniteSet(Holding \ {w}) /\ Cardinality(Holding \ {w}) \in Nat
            /\ Cardinality(Holding \ {w}) = 0 <=> Holding \ {w} = {}
        BY HoldingFinite, FS_RemoveElement, FS_CardinalityType, FS_EmptySet
      <3>2. Len(items) = 0 <=> Pooled = {}
        <4>1. CASE Len(items) = 0
          <5>1. 1..Len(items) = {}
            BY <4>1
          <5> QED
            BY <4>1, <5>1 DEF Pooled, Elements
        <4>2. CASE Len(items) # 0
          <5>1. 1 \in 1..Len(items)
            BY <1>1, <4>2
          <5> QED
            BY <4>2, <5>1 DEF Pooled, Elements
        <4> QED
          BY <4>1, <4>2
      <3>3. Holding \ {w} = {} <=> Active = {page[w]}
        BY <2>5 DEF UniqueInv, PagesApart, Active
      <3> QED
        BY <1>1, <2>7, <3>1, <3>2, <3>3
    <2>9. UNCHANGED <<Pooled, fetched>>
      BY <2>1 DEF Pooled
    <2> QED
      BY <1>3, <2>1, <2>2, <2>6, <2>8, <2>9 DEF PoolStep, PoolFinishes
  <1> QED
    BY <1>2, <1>4, <1>6, <1>7, <1>8 DEF WorkerStep

LEMMA OtherStepsPoolStep ==
    ASSUME UniqueInv, CountInv,
           Spawn \/ Join \/ Leave \/ WriterStep \/ Cancel \/ CloseOnCancel \/ UNCHANGED vars
    PROVE  PoolStep
  <1> USE CrawlAssumption DEF Proc, queue, control, durable, local
  <1>1. TypeOK /\ AloneAtFirst
    BY DEF CountInv
  <1>2. UNCHANGED <<Pooled, Active, fetched>>
    <2>1. Holding' = Holding
      BY <1>1, OtherStepsUnique
    <2>2. UNCHANGED <<items, page, fetched>>
      BY DEF Spawn, Join, Leave, WriterStep, Receive, Drained, Flush, FlushFails, Cancel,
             CloseOnCancel, vars
    <2> QED
      BY <2>1, <2>2 DEF Pooled, Active
  <1>3. CASE Spawn
    <2>1. /\ pc[Main] = "spawn" /\ pc'[Main] = "join" /\ UNCHANGED watcher
          /\ seedAdded' = (got[Main] # {}) /\ closed' = (closed \/ got[Main] = {})
      BY <1>3 DEF Spawn
    <2>2. CASE got[Main] = {}
      BY <1>2, <2>1, <2>2 DEF PoolStep, PoolAborts, Aborted
    <2>3. CASE got[Main] # {}
      <3>1. closed = FALSE /\ closed' = FALSE /\ seedAdded' = TRUE
        BY <1>1, <2>1, <2>3 DEF TypeOK, AloneAtFirst, SeedPhase
      <3> QED
        BY <1>2, <2>1, <3>1 DEF PoolStep, PoolStutters, Aborted
    <2> QED
      BY <2>2, <2>3
  <1>4. CASE Join \/ Leave
    <2>1. /\ pc'[Main] \in {"flush", "returned"} /\ pc[Main] \in {"join", "flush"}
          /\ UNCHANGED <<closed, watcher, seedAdded>>
      BY <1>1, <1>4 DEF Join, Leave, TypeOK
    <2> QED
      BY <1>2, <2>1 DEF PoolStep, PoolStutters, Aborted
  <1>5. CASE WriterStep \/ Cancel \/ UNCHANGED vars
    <2>1. UNCHANGED <<closed, pc, watcher, seedAdded>>
      BY <1>5 DEF WriterStep, Receive, Drained, Flush, FlushFails, Cancel, vars
    <2> QED
      BY <1>2, <2>1 DEF PoolStep, PoolStutters, Aborted
  <1>6. CASE CloseOnCancel
    BY <1>2, <1>6 DEF CloseOnCancel, PoolStep, PoolAborts, Aborted
  <1> QED
    BY <1>3, <1>4, <1>5, <1>6

\* The crawl distributes its pages as WorkPool promises, whatever the site, the
\* workers and the failures: a page is handed out once, and the count ends the
\* crawl exactly with the last page in flight.
THEOREM Refinement == Spec => RefinesWorkPool
  <1>1. Init => Pool!Init
    <2> SUFFICES ASSUME Init PROVE Pool!Init
      OBVIOUS
    <2>1. items = <<>> /\ Len(items) = 0 /\ fetched = {} /\ closed = FALSE
      BY EmptySeqLen DEF Init
    <2>2. Holding = {} /\ Aborted = FALSE
      BY CrawlAssumption DEF Init, Proc, Holding, Busy, Aborted
    <2> QED
      BY <2>1, <2>2 DEF Pool!Init
  <1>2. TypeOK /\ TypeOK' /\ CountInv /\ UniqueInv /\ [Next]_vars => [Pool!Next]_(Pool!vars)
    <2> SUFFICES ASSUME TypeOK, TypeOK', CountInv, UniqueInv, [Next]_vars
                 PROVE  PoolStep
      BY PoolStepIsNext
    <2>1. ASSUME NEW w \in Worker, WorkerStep(w)
          PROVE  PoolStep
      BY <2>1, WorkerStepPoolStep
    <2>2. CASE AddURLs(Main)
      BY <2>2, AddURLsPoolStep DEF PoolStep, Proc
    <2>3. CASE Spawn \/ Join \/ Leave \/ WriterStep \/ Cancel \/ CloseOnCancel \/ UNCHANGED vars
      BY <2>3, OtherStepsPoolStep
    <2> QED
      BY <2>1, <2>2, <2>3 DEF Next, MainStep, Returned
  <1> QED
    BY <1>1, <1>2, TypeCorrect, CountInvariant, PagesUnique, PTL DEF Spec, RefinesWorkPool, Pool!Spec

(***************************************************************************)
(* No wakeup is lost.                                                      *)
(*                                                                         *)
(* While somebody waits, every page in the frontier has a worker on its    *)
(* way to pop it: push wakes one for the page it adds, and who goes to     *)
(* wait found no page at all.  The worker that leaves after a cancelled    *)
(* send (main.go:326) is therefore never the one a page depended on.       *)
(***************************************************************************)

Poppers == {w \in Worker : pc[w] = "pop"}

Waking == Waiting # {} => ~closed /\ Len(items) <= Cardinality(Poppers)

\* An open frontier has pages to come, once the seed is dealt with.
OpenWorks == ~closed /\ ~SeedPhase => outstanding > 0

SeedPushed == pc[Main] \in {"push", "upsert", "spawn"} /\ got[Main] # {} => outstanding > 0

WakeInv == Waking /\ OpenWorks /\ SeedPushed

LEMMA PoppersFinite == IsFiniteSet(Poppers) /\ Cardinality(Poppers) \in Nat
  BY CrawlAssumption, FS_Subset, FS_CardinalityType DEF Poppers

LEMMA PoppersGrow ==
    ASSUME NEW w \in Worker, pc[w] # "pop", Poppers' = Poppers \cup {w}
    PROVE  Cardinality(Poppers') = Cardinality(Poppers) + 1
  BY PoppersFinite, FS_AddElement DEF Poppers

LEMMA PoppersShrink ==
    ASSUME NEW w \in Worker, pc[w] = "pop", Poppers' = Poppers \ {w}
    PROVE  Cardinality(Poppers') = Cardinality(Poppers) - 1
  <1>1. w \in Poppers
    BY DEF Poppers
  <1> QED
    BY <1>1, PoppersFinite, FS_RemoveElement

\* Nobody goes to sleep, nobody that was woken goes, and no page comes.
LEMMA WakingKept ==
    ASSUME Waking, TypeOK, UNCHANGED closed, Waiting' \subseteq Waiting, Poppers \subseteq Poppers',
           items' = items
    PROVE  Waking'
  <1>1. Cardinality(Poppers) <= Cardinality(Poppers')
    <2>1. IsFiniteSet(Poppers')
      BY CrawlAssumption, FS_Subset DEF Poppers
    <2> QED
      BY <2>1, FS_Subset
  <1>2. Cardinality(Poppers') \in Nat
    BY CrawlAssumption, FS_Subset, FS_CardinalityType DEF Poppers
  <1>3. Len(items) \in Nat
    BY DEF TypeOK
  <1> QED
    BY <1>1, <1>2, <1>3, PoppersFinite DEF Waking

LEMMA AddURLsWake ==
    ASSUME WakeInv, TypeOK, NEW p \in Proc, AddURLs(p)
    PROVE  WakeInv'
  <1> USE CrawlAssumption DEF TypeOK, Proc, queue, control, MainPC, WorkerPC
  <1>1. /\ UNCHANGED <<items, outstanding>> \/ outstanding' = outstanding + 1
        /\ UNCHANGED closed /\ (SeedPhase' <=> SeedPhase)
        /\ outstanding \in Nat /\ Len(items) \in Nat
    BY AddURLsCounts
  <1>2. OpenWorks'
    BY <1>1 DEF WakeInv, OpenWorks
  <1> DEFINE Calm   == /\ Waiting' \subseteq Waiting /\ Poppers \subseteq Poppers' /\ items' = items
             Honest == \/ p # Main /\ pc'[Main] = pc[Main] /\ got'[Main] = got[Main]
                       \/ p = Main /\ (pc'[Main] \in {"push", "upsert", "spawn"} /\ got'[Main] # {} =>
                                          outstanding' > 0)
  <1>3. ASSUME Calm, Honest PROVE WakeInv'
    <2>1. SeedPushed'
      BY <1>1, <1>3 DEF WakeInv, SeedPushed
    <2>2. Waking'
      BY <1>1, <1>3, WakingKept DEF WakeInv
    <2> QED
      BY <1>2, <2>1, <2>2 DEF WakeInv
  <1>4. ASSUME NEW R, pc[p] \in {"limit", "sadd", "push", "upsert"}, Return(p, R), items' = items
        PROVE  Calm /\ pc'[p] \notin {"push", "upsert"} /\ got'[p] = R
               /\ (p # Main => pc'[Main] = pc[Main] /\ got'[Main] = got[Main])
    BY <1>4 DEF Return, AfterAdd, Waiting, Poppers
  <1>5. CASE CheckLimit(p)
    <2>1. CASE Return(p, {})
      BY <1>3, <1>4, <1>5, <2>1 DEF CheckLimit
    <2>2. CASE pc' = [pc EXCEPT ![p] = "sadd"] /\ UNCHANGED <<todo, got>>
      <3>1. Calm /\ Honest
        BY <1>5, <2>2 DEF CheckLimit, Waiting, Poppers
      <3> QED
        BY <1>3, <3>1
    <2> QED
      BY <1>5, <2>1, <2>2 DEF CheckLimit
  <1>6. ASSUME NEW u \in todo[p], SAdd(p, u) PROVE WakeInv'
    <2>1. /\ pc[p] = "sadd" /\ items' = items
          /\ pc' = pc \/ (pc' = [pc EXCEPT ![p] = "push"] /\ got' = [got EXCEPT ![p] = {}])
          /\ \A q \in Proc \ {p} : got'[q] = got[q]
      BY <1>6 DEF SAdd
    <2>2. Calm /\ Honest
      BY <2>1 DEF Waiting, Poppers
    <2> QED
      BY <1>3, <2>2
  <1>7. CASE SAddFails(p)
    BY <1>3, <1>4, <1>7 DEF SAddFails
  <1>8. ASSUME NEW u \in todo[p], Push(p, u), closed PROVE WakeInv'
    <2>1. Calm /\ UNCHANGED <<pc, got, outstanding>>
      BY <1>8 DEF Push, Waiting, Poppers
    <2> QED
      BY <1>3, <2>1 DEF WakeInv, SeedPushed
  <1>9. ASSUME NEW u \in todo[p], Push(p, u), ~closed PROVE WakeInv'
    <2>1. /\ pc[p] = "push" /\ items' = Append(items, u) /\ outstanding' = outstanding + 1
          /\ pc' \in Signalled(pc) /\ u \in URL
      BY <1>9 DEF Push
    <2>2. Len(items') = Len(items) + 1
      BY <2>1, SeqType
    <2>3. SeedPushed'
      BY <1>1, <2>1 DEF SeedPushed
    <2>4. CASE Waiting = {}
      <3>1. pc' = pc
        BY <2>1, <2>4 DEF Signalled, Waiting
      <3> QED
        BY <1>2, <2>3, <2>4, <3>1 DEF WakeInv, Waking, Waiting
    <2>5. CASE Waiting # {}
      <3>1. PICK w \in Waiting : pc' = [pc EXCEPT ![w] = "pop"]
        BY <2>1, <2>5 DEF Signalled, Waiting
      <3>2. w \in Worker /\ pc[w] = "wait" /\ Poppers' = Poppers \cup {w}
        BY <3>1 DEF Waiting, Poppers
      <3>3. Cardinality(Poppers') = Cardinality(Poppers) + 1
        BY <3>2, PoppersGrow
      <3>4. ~closed' /\ Len(items') <= Cardinality(Poppers')
        BY <1>1, <1>9, <2>2, <2>5, <3>3, PoppersFinite DEF WakeInv, Waking
      <3> QED
        BY <1>2, <2>3, <3>4 DEF WakeInv, Waking
    <2> QED
      BY <2>4, <2>5
  <1>10. CASE PushesDone(p)
    <2>1. CASE Return(p, {})
      BY <1>3, <1>4, <1>10, <2>1 DEF PushesDone
    <2>2. CASE pc' = [pc EXCEPT ![p] = "upsert"] /\ UNCHANGED <<todo, got>>
      <3>1. Calm /\ pc[p] = "push" /\ outstanding' = outstanding
        BY <1>10, <2>2 DEF PushesDone, Waiting, Poppers
      <3>2. Honest
        BY <2>2, <3>1 DEF WakeInv, SeedPushed
      <3> QED
        BY <1>3, <3>1, <3>2
    <2> QED
      BY <1>10, <2>1, <2>2 DEF PushesDone
  <1>11. CASE Upsert(p)
    <2>1. pc[p] = "upsert" /\ Return(p, got[p]) /\ items' = items /\ outstanding' = outstanding
      BY <1>11 DEF Upsert
    <2>2. Calm /\ Honest
      BY <1>4, <2>1 DEF WakeInv, SeedPushed
    <2> QED
      BY <1>3, <2>2
  <1>12. CASE UpsertFails(p)
    BY <1>3, <1>4, <1>12 DEF UpsertFails
  <1> QED
    BY <1>5, <1>6, <1>7, <1>8, <1>9, <1>10, <1>11, <1>12 DEF AddURLs

LEMMA WorkerStepWake ==
    ASSUME WakeInv, CountInv, NEW w \in Worker, WorkerStep(w)
    PROVE  WakeInv'
  <1> USE CrawlAssumption
  <1>1. /\ TypeOK /\ Len(items) \in Nat /\ outstanding \in Nat /\ items \in Seq(URL)
        /\ OutstandingExact /\ AloneAtFirst /\ pc \in [Proc -> WorkerPC \cup MainPC]
        /\ Worker \subseteq Proc /\ Main \in Proc
    BY DEF CountInv, TypeOK, Proc
  <1>2. ASSUME ~AddURLs(w)
        PROVE  ~SeedPhase /\ pc[w] # "idle" /\ UNCHANGED <<chanOpen, seedAdded>>
    <2>1. pc[w] # "idle" /\ UNCHANGED <<chanOpen, seedAdded>>
      BY <1>2 DEF WorkerStep, Pop, PopNothing, Fetch, FetchFails, Send, SendGivesUp, Done, writer, control
    <2> QED
      BY <1>1, <2>1 DEF AloneAtFirst
  <1>3. ASSUME ~SeedPhase, pc'[Main] = pc[Main] PROVE SeedPushed' /\ ~SeedPhase'
    BY <1>3 DEF SeedPhase, SeedPushed
  <1>4. ASSUME ~AddURLs(w), pc'[Main] = pc[Main], UNCHANGED <<items, outstanding, closed>>,
               Waiting' \subseteq Waiting, Poppers \subseteq Poppers'
        PROVE  WakeInv'
    <2>1. SeedPushed' /\ OpenWorks'
      BY <1>2, <1>3, <1>4 DEF WakeInv, OpenWorks
    <2>2. Waking'
      BY <1>1, <1>4, WakingKept DEF WakeInv
    <2> QED
      BY <2>1, <2>2 DEF WakeInv
  <1>5. ASSUME NEW place, pc[w] # "pop", place # "wait", pc' = [pc EXCEPT ![w] = place]
        PROVE  pc'[Main] = pc[Main] /\ Waiting' \subseteq Waiting /\ Poppers \subseteq Poppers'
    BY <1>1, <1>5 DEF Waiting, Poppers
  <1>6. CASE AddURLs(w)
    BY <1>1, <1>6, AddURLsWake DEF WakeInv
  <1>7. CASE Pop(w) /\ ~AddURLs(w)
    <2>1. /\ pc[w] = "pop" /\ items # <<>> /\ items' = Tail(items)
          /\ pc' = [pc EXCEPT ![w] = "fetch"] /\ UNCHANGED <<outstanding, closed>>
      BY <1>7 DEF Pop
    <2>2. Waiting' = Waiting /\ Poppers' = Poppers \ {w} /\ pc'[Main] = pc[Main]
      BY <1>1, <2>1 DEF Waiting, Poppers
    <2>3. Len(items') = Len(items) - 1
      BY <1>1, <2>1, SeqType
    <2>4. Cardinality(Poppers') = Cardinality(Poppers) - 1
      BY <2>1, <2>2, PoppersShrink
    <2>5. Waking'
      BY <1>1, <2>1, <2>2, <2>3, <2>4, PoppersFinite DEF WakeInv, Waking
    <2>6. SeedPushed' /\ OpenWorks'
      BY <1>2, <1>3, <1>7, <2>1, <2>2 DEF WakeInv, OpenWorks
    <2> QED
      BY <2>5, <2>6 DEF WakeInv
  <1>8. CASE PopNothing(w) /\ ~AddURLs(w)
    <2>1. /\ pc[w] = "pop" /\ items = <<>> /\ UNCHANGED <<items, outstanding, closed>>
          /\ pc' = [pc EXCEPT ![w] = IF closed THEN "exited" ELSE "wait"]
      BY <1>8 DEF PopNothing, queue
    <2>2. pc'[Main] = pc[Main] /\ (closed => Waiting' = Waiting)
      BY <1>1, <2>1 DEF Waiting
    <2>3. Len(items') = 0
      BY <2>1, EmptySeqLen
    <2>4. Cardinality(Poppers') \in Nat
      BY FS_Subset, FS_CardinalityType DEF Poppers
    <2>5. Waking'
      BY <2>1, <2>2, <2>3, <2>4 DEF WakeInv, Waking
    <2>6. SeedPushed' /\ OpenWorks'
      BY <1>2, <1>3, <1>8, <2>1, <2>2 DEF WakeInv, OpenWorks
    <2> QED
      BY <2>5, <2>6 DEF WakeInv
  <1>9. CASE (Fetch(w) \/ FetchFails(w) \/ SendGivesUp(w)) /\ ~AddURLs(w)
    <2>1. /\ \E place \in {"limit", "done", "quit"} : pc' = [pc EXCEPT ![w] = place]
          /\ pc[w] # "pop" /\ UNCHANGED <<items, outstanding, closed>>
      BY <1>9 DEF Fetch, FetchFails, SendGivesUp, queue
    <2> QED
      BY <1>4, <1>5, <1>9, <2>1
  <1>10. ASSUME NEW u \in todo[w], Send(w, u), ~AddURLs(w) PROVE WakeInv'
    <2>1. /\ pc[w] = "send" /\ (pc' = pc \/ pc' = [pc EXCEPT ![w] = "done"])
          /\ UNCHANGED <<items, outstanding, closed>>
      BY <1>10 DEF Send, queue
    <2>2. pc'[Main] = pc[Main] /\ Waiting' \subseteq Waiting /\ Poppers \subseteq Poppers'
      BY <1>5, <2>1 DEF Waiting, Poppers
    <2> QED
      BY <1>4, <1>10, <2>1, <2>2
  <1>11. CASE Done(w) /\ ~AddURLs(w)
    <2> DEFINE left == [pc EXCEPT ![w] = IF pc[w] = "quit" THEN "exited" ELSE "pop"]
    <2>1. /\ pc[w] \in {"done", "quit"} /\ UNCHANGED items
          /\ outstanding' = IF outstanding > 0 THEN outstanding - 1 ELSE outstanding
          /\ \/ outstanding' = 0 /\ closed' = TRUE /\ pc' = Broadcast(left)
             \/ outstanding' # 0 /\ closed' = closed /\ pc' = left
      BY <1>11 DEF Done, Quiescent
    <2>2. left \in [Proc -> WorkerPC \cup MainPC] /\ left[w] \in {"exited", "pop"}
          /\ \A p \in Proc \ {w} : left[p] = pc[p]
      BY <1>1 DEF WorkerPC
    <2> HIDE DEF left
    <2>3. pc'[Main] = pc[Main]
      <3>1. left[Main] = pc[Main] /\ pc[Main] # "wait"
        BY <1>1, <2>2 DEF TypeOK, MainPC
      <3> QED
        BY <1>1, <2>1, <2>2, <3>1, BroadcastType
    <2>4. SeedPushed' /\ ~SeedPhase'
      BY <1>2, <1>3, <1>11, <2>3
    <2>5. CASE outstanding' = 0
      <3>1. \A p \in Proc : pc'[p] # "wait"
        BY <2>1, <2>2, <2>5, BroadcastType
      <3>2. Waiting' = {}
        BY <1>1, <3>1 DEF Waiting
      <3>3. closed'
        BY <2>1, <2>5
      <3> QED
        BY <2>4, <3>2, <3>3 DEF WakeInv, Waking, OpenWorks
    <2>6. CASE outstanding' # 0
      <3>1. Waiting' \subseteq Waiting /\ Poppers \subseteq Poppers' /\ UNCHANGED <<items, closed>>
        BY <1>1, <2>1, <2>2, <2>6 DEF Waiting, Poppers
      <3>2. Waking'
        BY <1>1, <3>1, WakingKept DEF WakeInv
      <3>3. outstanding' > 0
        BY <1>1, <2>1, <2>6
      <3> QED
        BY <2>4, <3>2, <3>3 DEF WakeInv, OpenWorks
    <2> QED
      BY <2>5, <2>6
  <1> QED
    BY <1>6, <1>7, <1>8, <1>9, <1>10, <1>11 DEF WorkerStep

LEMMA OtherStepsWake ==
    ASSUME WakeInv, CountInv,
           Spawn \/ Join \/ Leave \/ WriterStep \/ Cancel \/ CloseOnCancel \/ UNCHANGED vars
    PROVE  WakeInv'
  <1> USE CrawlAssumption
  <1>1. /\ TypeOK /\ outstanding \in Nat /\ AloneAtFirst
        /\ pc \in [Proc -> WorkerPC \cup MainPC] /\ Worker \subseteq Proc /\ Main \in Proc
    BY DEF CountInv, TypeOK, Proc
  <1>2. CASE Spawn
    <2>1. /\ pc[Main] = "spawn" /\ closed' = (closed \/ got[Main] = {})
          /\ pc' = [p \in Proc |-> IF p = Main THEN "join" ELSE "pop"] /\ outstanding' = outstanding
      BY <1>2 DEF Spawn
    <2>2. Waiting' = {} /\ pc'[Main] = "join"
      BY <1>1, <2>1 DEF Waiting
    <2>3. OpenWorks'
      BY <2>1 DEF WakeInv, SeedPushed, OpenWorks
    <2> QED
      BY <2>2, <2>3 DEF WakeInv, Waking, SeedPushed
  <1>3. ASSUME UNCHANGED <<items, outstanding, closed>>, Waiting' = Waiting, Poppers' = Poppers,
               SeedPhase' <=> SeedPhase, SeedPushed'
        PROVE  WakeInv'
    BY <1>1, <1>3, WakingKept DEF WakeInv, OpenWorks
  <1>4. CASE Join \/ Leave
    <2>1. /\ pc[Main] \in {"join", "flush"} /\ pc'[Main] \in {"flush", "returned"}
          /\ \A w \in Worker : pc'[w] = pc[w]
          /\ UNCHANGED <<items, outstanding, closed>>
      BY <1>1, <1>4 DEF Join, Leave, queue
    <2> QED
      BY <1>3, <2>1 DEF Waiting, Poppers, SeedPhase, SeedPushed
  <1>5. CASE WriterStep \/ Cancel \/ UNCHANGED vars
    <2>1. UNCHANGED <<items, outstanding, closed, pc, got>>
      BY <1>5 DEF WriterStep, Receive, Drained, Flush, FlushFails, Cancel, vars, queue, local
    <2> QED
      BY <1>3, <2>1 DEF Waiting, Poppers, SeedPhase, WakeInv, SeedPushed
  <1>6. CASE CloseOnCancel
    <2>1. closed' /\ pc' = Broadcast(pc) /\ pc[Main] \in {"join", "flush"}
      BY <1>6 DEF CloseOnCancel
    <2>2. Waiting' = {} /\ pc'[Main] = pc[Main]
      BY <1>1, <2>1, BroadcastType DEF Waiting
    <2> QED
      BY <2>1, <2>2 DEF WakeInv, Waking, OpenWorks, SeedPushed
  <1> QED
    BY <1>2, <1>4, <1>5, <1>6

\* Nobody waits on a closed frontier, and a worker that waits in pop while there
\* is a page is not alone: the one Signal of push and the Broadcasts of close
\* and done are enough, for any number of workers.
THEOREM NobodyForgotten == Spec => []NoLostWakeup
  <1> USE CrawlAssumption
  <1>1. Init => WakeInv
    <2> SUFFICES ASSUME Init PROVE WakeInv
      OBVIOUS
    <2>1. pc[Main] = "limit" /\ \A w \in Worker : pc[w] = "idle"
      BY DEF Init, Proc
    <2> QED
      BY <2>1 DEF WakeInv, Waking, Waiting, OpenWorks, SeedPhase, SeedPushed
  <1>2. WakeInv /\ CountInv /\ [Next]_vars => WakeInv'
    <2> SUFFICES ASSUME WakeInv, CountInv, [Next]_vars PROVE WakeInv'
      OBVIOUS
    <2>1. CASE AddURLs(Main)
      BY <2>1, AddURLsWake DEF CountInv, Proc
    <2> QED
      BY <2>1, WorkerStepWake, OtherStepsWake DEF Next, MainStep, Returned
  <1>3. WakeInv /\ CountInv => NoLostWakeup
    <2> SUFFICES ASSUME WakeInv, CountInv, Waiting # {}
                 PROVE  /\ ~closed /\ (items # <<>> \/ Holding # {})
                        /\ items # <<>> => \E w \in Worker : pc[w] \in Busy \cup {"pop"}
      BY DEF NoLostWakeup
    <2>1. ~closed /\ Len(items) <= Cardinality(Poppers) /\ ~SeedPhase
      BY DEF WakeInv, Waking, CountInv, AloneAtFirst, Waiting
    <2>2. outstanding > 0 /\ outstanding = Len(items) + Cardinality(Holding)
      BY <2>1 DEF WakeInv, OpenWorks, CountInv, OutstandingExact
    <2>3. items # <<>> \/ Holding # {}
      <3>1. Cardinality({}) = 0 /\ Len(<<>>) = 0
        BY FS_EmptySet
      <3>2. items = <<>> /\ Holding = {} => outstanding = 0 + 0
        BY <2>2, <3>1
      <3> QED
        BY <2>2, <3>2
    <2>4. ASSUME items # <<>> PROVE \E w \in Worker : pc[w] \in Busy \cup {"pop"}
      <3>1. Len(items) \in Nat /\ Len(items) # 0
        BY <2>4 DEF CountInv, TypeOK
      <3>2. Poppers # {}
        <4>1. Cardinality({}) = 0
          BY FS_EmptySet
        <4>2. Cardinality(Poppers) # 0
          BY <2>1, <3>1, PoppersFinite
        <4> QED
          BY <4>1, <4>2
      <3> QED
        BY <3>2 DEF Poppers
    <2> QED
      BY <2>1, <2>3, <2>4
  <1> QED
    BY <1>1, <1>2, <1>3, CountInvariant, PTL DEF Spec


(***************************************************************************)
(* At most one parse request for a URL.                                    *)
(*                                                                         *)
(* What PagesUnique follows up to the frontier goes on to the list: a URL  *)
(* a goroutine has won is its own until it is sent, and it is sent only    *)
(* when the transaction that wrote its row is committed.                   *)
(***************************************************************************)

\* The URLs goroutine `p` has won and not yet sent to the writer.
Owned(p) == IF pc[p] \in {"limit", "sadd", "upsert"} THEN got[p]
            ELSE IF pc[p] = "push" THEN got[p] \cup todo[p]
            ELSE IF pc[p] = "send" THEN todo[p] ELSE {}

Sent == Elements(output) \cup Elements(batch) \cup Elements(discovered)

OwnedNew   == \A p \in Proc : Owned(p) \subseteq visited \ Sent
OwnedApart == \A p, q \in Proc : p # q => Owned(p) \cap Owned(q) = {}
OwnedRows  == \A w \in Worker : pc[w] = "send" => todo[w] \subseteq stored
SentRows   == Sent \subseteq visited \cap stored
SentApart  ==
    /\ Distinct(output) /\ Distinct(batch) /\ Distinct(discovered)
    /\ Elements(output) \cap Elements(batch) = {}
    /\ Elements(discovered) \cap (Elements(output) \cup Elements(batch)) = {}

EmitInv == OwnedNew /\ OwnedApart /\ OwnedRows /\ SentRows /\ SentApart

\* The elements of two queues one behind the other.
LEMMA ConcatElements ==
    ASSUME NEW S, NEW q \in Seq(S), NEW r \in Seq(S), Distinct(q), Distinct(r),
           Elements(q) \cap Elements(r) = {}
    PROVE  /\ q \o r \in Seq(S) /\ Distinct(q \o r)
           /\ Elements(q \o r) = Elements(q) \cup Elements(r)
  <1> DEFINE s == q \o r
             m == Len(q)
             n == Len(r)
  <1>1. /\ s \in Seq(S) /\ m \in Nat /\ n \in Nat /\ Len(s) = m + n
        /\ \A i \in 1..Len(s) : s[i] = IF i <= m THEN q[i] ELSE r[i - m]
    OBVIOUS
  <1> HIDE DEF s, m, n
  <1>2. \A i \in 1..m : i \in 1..Len(s) /\ s[i] = q[i]
    BY <1>1
  <1>3. \A i \in 1..n : i + m \in 1..Len(s) /\ s[i + m] = r[i]
    BY <1>1
  <1>4. \A i \in 1..Len(s) : i \in 1..m \/ (i - m \in 1..n /\ s[i] = r[i - m] /\ ~(i <= m))
    BY <1>1
  <1>5. Elements(q) = {q[i] : i \in 1..m} /\ Elements(r) = {r[i] : i \in 1..n}
    BY DEF Elements, m, n
  <1>6. Elements(s) = Elements(q) \cup Elements(r)
    <2>1. ASSUME NEW x \in Elements(s) PROVE x \in Elements(q) \cup Elements(r)
      BY <1>2, <1>4, <1>5, <2>1 DEF Elements
    <2>2. Elements(q) \subseteq Elements(s)
      BY <1>2, <1>5 DEF Elements
    <2>3. Elements(r) \subseteq Elements(s)
      BY <1>3, <1>5 DEF Elements
    <2> QED
      BY <2>1, <2>2, <2>3
  <1>7. Distinct(s)
    <2> SUFFICES ASSUME NEW i \in 1..Len(s), NEW j \in 1..Len(s), s[i] = s[j] PROVE i = j
      BY DEF Distinct
    <2>1. CASE i \in 1..m /\ j \in 1..m
      BY <1>2, <2>1 DEF Distinct, m
    <2>2. CASE i \notin 1..m /\ j \notin 1..m
      <3>1. i - m \in 1..n /\ j - m \in 1..n /\ r[i - m] = r[j - m]
        BY <1>4, <2>2
      <3>2. i - m = j - m
        BY <3>1 DEF Distinct, n
      <3> QED
        BY <1>1, <3>2
    <2>3. CASE (i \in 1..m /\ j \notin 1..m) \/ (i \notin 1..m /\ j \in 1..m)
      BY <1>2, <1>4, <1>5, <2>3
    <2> QED
      BY <2>1, <2>2, <2>3
  <1> QED
    BY <1>1, <1>6, <1>7 DEF s

\* A step that sends nothing and in which nobody wins anything new.
LEMMA NothingSent ==
    ASSUME EmitInv, UNCHANGED <<output, batch, discovered>>,
           visited \subseteq visited', stored \subseteq stored',
           \A p \in Proc : Owned(p)' \subseteq Owned(p), OwnedRows'
    PROVE  EmitInv'
  <1>1. Sent' = Sent
    BY DEF Sent
  <1>2. OwnedNew'
    BY <1>1 DEF EmitInv, OwnedNew
  <1>3. OwnedApart'
    BY DEF EmitInv, OwnedApart
  <1>4. SentRows'
    BY <1>1 DEF EmitInv, SentRows
  <1>5. SentApart'
    BY DEF EmitInv, SentApart
  <1> QED
    BY <1>2, <1>3, <1>4, <1>5 DEF EmitInv

LEMMA AddURLsEmit ==
    ASSUME EmitInv, TypeOK, NEW p \in Proc, AddURLs(p)
    PROVE  EmitInv'
  <1> USE CrawlAssumption DEF TypeOK
  <1>1. UNCHANGED <<output, batch, discovered>> /\ visited \subseteq visited' /\ stored \subseteq stored'
    BY DEF AddURLs, CheckLimit, SAdd, SAddFails, Push, PushesDone, Upsert, UpsertFails, durable, writer
  <1>2. ASSUME NEW R, pc[p] \in {"limit", "sadd", "push", "upsert"}, Return(p, R),
               R \subseteq Owned(p), R \subseteq stored'
        PROVE  EmitInv'
    <2>1. /\ pc'[p] \in {"spawn", "done", "send"} /\ todo'[p] = R
          /\ \A q \in Proc \ {p} : pc'[q] = pc[q] /\ got'[q] = got[q] /\ todo'[q] = todo[q]
      BY <1>2 DEF Return, AfterAdd
    <2>2. \A q \in Proc : Owned(q)' \subseteq Owned(q)
      BY <1>2, <2>1 DEF Owned
    <2>3. OwnedRows'
      BY <1>1, <1>2, <2>1 DEF EmitInv, OwnedRows, Proc
    <2> QED
      BY <1>1, <2>2, <2>3, NothingSent
  <1>3. ASSUME pc[p] \in {"limit", "push"}, pc'[p] \in {"sadd", "upsert"}, UNCHANGED <<todo, got>>,
               pc' = [pc EXCEPT ![p] = pc'[p]]
        PROVE  EmitInv'
    <2>1. \A q \in Proc : Owned(q)' \subseteq Owned(q)
      BY <1>3 DEF Owned
    <2>2. OwnedRows'
      BY <1>1, <1>3 DEF EmitInv, OwnedRows, Proc
    <2> QED
      BY <1>1, <2>1, <2>2, NothingSent
  <1>4. CASE CheckLimit(p)
    BY <1>2, <1>3, <1>4 DEF CheckLimit
  <1>5. ASSUME NEW u \in todo[p], SAdd(p, u)
        PROVE  EmitInv'
    <2> PICK fresh \in Won(p, u) :
               IF todo[p] = {u}
                 THEN /\ pc' = [pc EXCEPT ![p] = "push"]
                      /\ todo' = [todo EXCEPT ![p] = fresh]
                      /\ got' = [got EXCEPT ![p] = {}]
                 ELSE /\ todo' = [todo EXCEPT ![p] = @ \ {u}]
                      /\ got' = [got EXCEPT ![p] = fresh]
                      /\ UNCHANGED pc
      BY <1>5 DEF SAdd
    <2>1. pc[p] = "sadd" /\ visited' = visited \cup {u} /\ u \in URL
          /\ UNCHANGED stored
      BY <1>5 DEF SAdd
    <2>10. /\ pc'[p] # "send"
           /\ \A q \in Proc \ {p} : pc'[q] = pc[q] /\ todo'[q] = todo[q] /\ got'[q] = got[q]
      BY <2>1
    <2>2. /\ Owned(p) = got[p] /\ Owned(p)' = fresh
          /\ \A q \in Proc \ {p} : Owned(q)' = Owned(q)
      <3>1. Owned(p) = got[p]
        BY <2>1 DEF Owned
      <3>2. Owned(p)' = fresh
        <4>1. CASE pc' = [pc EXCEPT ![p] = "push"] /\ todo' = [todo EXCEPT ![p] = fresh]
                   /\ got' = [got EXCEPT ![p] = {}]
          <5>1. pc'[p] = "push" /\ todo'[p] = fresh /\ got'[p] = {}
            BY <4>1
          <5> QED
            BY <5>1 DEF Owned
        <4>2. CASE got' = [got EXCEPT ![p] = fresh] /\ UNCHANGED pc
          <5>1. pc'[p] = "sadd" /\ got'[p] = fresh
            BY <2>1, <4>2
          <5> QED
            BY <5>1 DEF Owned
        <4> QED
          BY <4>1, <4>2
      <3>3. \A q \in Proc \ {p} : Owned(q)' = Owned(q)
        BY <2>10 DEF Owned
      <3> QED
        BY <3>1, <3>2, <3>3
    <2>3. fresh \subseteq got[p] \cup {u} /\ (u \in visited => fresh = got[p])
      BY DEF Won, FirstToAdd
    <2>4. Sent' = Sent
      BY <1>1 DEF Sent
    <2>5. u \notin visited => u \notin Sent /\ \A q \in Proc : u \notin Owned(q)
      BY DEF EmitInv, SentRows, OwnedNew
    <2>6. OwnedNew'
      <3>1. \A q \in Proc : Owned(q) \subseteq visited \ Sent
        BY DEF EmitInv, OwnedNew
      <3>2. \A q \in Proc : Owned(q)' \subseteq visited' \ Sent'
        BY <2>1, <2>2, <2>3, <2>4, <2>5, <3>1
      <3> QED
        BY <3>2 DEF OwnedNew
    <2>7. OwnedApart'
      <3>1. \A q, r \in Proc : q # r => Owned(q) \cap Owned(r) = {}
        BY DEF EmitInv, OwnedApart
      <3>2. \A q \in Proc : Owned(q)' \subseteq Owned(q) \/ (q = p /\ Owned(q)' \subseteq Owned(q) \cup {u}
                                                               /\ \A r \in Proc : u \notin Owned(r))
        BY <2>2, <2>3, <2>5
      <3> QED
        BY SMTT(30), <3>1, <3>2 DEF OwnedApart
    <2>8. OwnedRows'
      BY <2>1, <2>10 DEF EmitInv, OwnedRows, Proc
    <2>9. SentRows' /\ SentApart'
      BY <1>1, <2>1, <2>4 DEF EmitInv, SentRows, SentApart
    <2> QED
      BY <2>6, <2>7, <2>8, <2>9 DEF EmitInv
  <1>6. CASE SAddFails(p)
    BY <1>2, <1>6 DEF SAddFails
  <1>7. ASSUME NEW u \in todo[p], Push(p, u)
        PROVE  EmitInv'
    <2>1. /\ pc[p] = "push" /\ todo' = [todo EXCEPT ![p] = @ \ {u}]
          /\ got' \in {got, [got EXCEPT ![p] = @ \cup {u}]}
      BY <1>7 DEF Push
    <2>2. \A q \in Proc : pc'[q] = pc[q] \/ (pc[q] = "wait" /\ pc'[q] = "pop")
      <3>1. CASE closed
        BY <1>7, <3>1 DEF Push
      <3>2. CASE ~closed
        <4>1. pc' \in Signalled(pc)
          BY <1>7, <3>2 DEF Push
        <4> QED
          BY <4>1, SignalledType
      <3> QED
        BY <3>1, <3>2
    <2>3. pc'[p] = "push" /\ todo'[p] = todo[p] \ {u} /\ got'[p] \subseteq got[p] \cup {u}
      BY <2>1, <2>2
    <2>4. \A q \in Proc \ {p} : todo'[q] = todo[q] /\ got'[q] = got[q]
      BY <2>1
    <2>5. \A q \in Proc : Owned(q)' \subseteq Owned(q)
      BY <1>7, <2>1, <2>2, <2>3, <2>4 DEF Owned
    <2>6. OwnedRows'
      BY <1>1, <2>2, <2>3, <2>4 DEF EmitInv, OwnedRows, Proc
    <2> QED
      BY <1>1, <2>5, <2>6, NothingSent
  <1>8. CASE PushesDone(p)
    <2>1. CASE Return(p, {})
      BY SMTT(30), <1>2, <1>8, <2>1 DEF PushesDone
    <2>2. CASE pc' = [pc EXCEPT ![p] = "upsert"] /\ UNCHANGED <<todo, got>>
      <3>1. pc[p] = "push" /\ pc'[p] = "upsert" /\ pc' = [pc EXCEPT ![p] = pc'[p]]
        BY <1>8, <2>2 DEF PushesDone
      <3> QED
        BY <1>3, <2>2, <3>1
    <2> QED
      BY <1>8, <2>1, <2>2 DEF PushesDone
  <1>9. CASE Upsert(p)
    BY <1>2, <1>9 DEF Upsert, Owned
  <1>10. CASE UpsertFails(p)
    BY <1>2, <1>10 DEF UpsertFails
  <1> QED
    BY <1>4, <1>5, <1>6, <1>7, <1>8, <1>9, <1>10 DEF AddURLs

LEMMA SendEmit ==
    ASSUME EmitInv, TypeOK, NEW w \in Worker, NEW u \in todo[w], Send(w, u)
    PROVE  EmitInv'
  <1> USE CrawlAssumption DEF TypeOK, Proc
  <1>1. /\ pc[w] = "send" /\ discovered' = Append(discovered, u)
        /\ todo' = [todo EXCEPT ![w] = @ \ {u}]
        /\ pc' = pc \/ pc' = [pc EXCEPT ![w] = "done"]
        /\ UNCHANGED <<visited, stored, output, batch, got>> /\ u \in URL /\ discovered \in Seq(URL)
    BY DEF Send, durable
  <1>2. u \in stored /\ u \in visited /\ u \notin Sent /\ \A p \in Proc \ {w} : u \notin Owned(p)
    <2>1. u \in Owned(w)
      BY <1>1 DEF Owned
    <2> QED
      BY <1>1, <2>1 DEF EmitInv, OwnedNew, OwnedApart, OwnedRows
  <1>3. Elements(discovered') = Elements(discovered) \cup {u} /\ Distinct(discovered')
    BY <1>1, <1>2, AppendElements DEF EmitInv, SentApart, Sent
  <1>4. Sent' = Sent \cup {u}
    BY <1>1, <1>3 DEF Sent
  <1>5. \A p \in Proc : Owned(p)' \subseteq Owned(p) \ {u}
    <2>1. Owned(w)' \subseteq Owned(w) \ {u}
      BY <1>1 DEF Owned
    <2>2. \A p \in Proc \ {w} : Owned(p)' = Owned(p)
      BY <1>1 DEF Owned
    <2> QED
      BY <1>2, <2>1, <2>2
  <1>6. OwnedNew' /\ OwnedApart'
    BY <1>1, <1>4, <1>5 DEF EmitInv, OwnedNew, OwnedApart
  <1>7. OwnedRows'
    BY <1>1 DEF EmitInv, OwnedRows
  <1>8. SentRows' /\ SentApart'
    BY <1>1, <1>2, <1>3, <1>4 DEF EmitInv, SentRows, SentApart, Sent
  <1> QED
    BY <1>6, <1>7, <1>8 DEF EmitInv

LEMMA WorkerStepEmit ==
    ASSUME EmitInv, TypeOK, NEW w \in Worker, WorkerStep(w)
    PROVE  EmitInv'
  <1> USE CrawlAssumption DEF TypeOK, Proc
  <1>1. ASSUME UNCHANGED <<visited, stored, output, batch, discovered>>,
               pc'[w] \in {"limit", "sadd"} => got'[w] = {}, pc'[w] \notin {"push", "upsert", "send"},
               \A p \in Proc \ {w} : /\ pc'[p] = pc[p] \/ (pc[p] = "wait" /\ pc'[p] = "pop")
                                    /\ got'[p] = got[p] /\ todo'[p] = todo[p]
        PROVE  EmitInv'
    <2>1. \A p \in Proc : Owned(p)' \subseteq Owned(p)
      BY <1>1 DEF Owned
    <2>2. OwnedRows'
      BY <1>1 DEF EmitInv, OwnedRows
    <2> QED
      BY <1>1, <2>1, <2>2, NothingSent
  <1>2. CASE Pop(w) \/ PopNothing(w) \/ Fetch(w) \/ FetchFails(w) \/ SendGivesUp(w)
    <2>1. UNCHANGED <<visited, stored, output, batch, discovered>>
      BY <1>2 DEF Pop, PopNothing, Fetch, FetchFails, SendGivesUp, durable, writer
    <2>2. /\ pc'[w] \in {"fetch", "exited", "wait", "done", "quit"} \/ (pc'[w] = "limit" /\ got'[w] = {})
          /\ \A p \in Proc \ {w} : pc'[p] = pc[p] /\ got'[p] = got[p] /\ todo'[p] = todo[p]
      BY <1>2 DEF Pop, PopNothing, Fetch, FetchFails, SendGivesUp, local
    <2> QED
      BY <1>1, <2>1, <2>2
  <1>3. CASE AddURLs(w)
    BY <1>3, AddURLsEmit
  <1>4. ASSUME NEW u \in todo[w], Send(w, u) PROVE EmitInv'
    BY <1>4, SendEmit
  <1>5. CASE Done(w)
    <2> DEFINE left == [pc EXCEPT ![w] = IF pc[w] = "quit" THEN "exited" ELSE "pop"]
    <2>1. /\ pc' = Broadcast(left) \/ pc' = left
          /\ UNCHANGED <<visited, stored, output, batch, discovered>>
          /\ todo' = [todo EXCEPT ![w] = {}] /\ got' = [got EXCEPT ![w] = {}]
      BY <1>5 DEF Done, durable, writer
    <2>2. left \in [Proc -> WorkerPC \cup MainPC]
      BY DEF WorkerPC
    <2>3. left[w] \in {"exited", "pop"} /\ \A p \in Proc \ {w} : left[p] = pc[p]
      OBVIOUS
    <2>4. \A p \in Proc : pc'[p] = left[p] \/ (left[p] = "wait" /\ pc'[p] = "pop")
      BY ZenonT(40), <2>1, <2>2, BroadcastType
    <2> HIDE DEF left
    <2>5. pc'[w] \in {"exited", "pop"}
      BY <2>3, <2>4
    <2>6. \A p \in Proc \ {w} : /\ pc'[p] = pc[p] \/ (pc[p] = "wait" /\ pc'[p] = "pop")
                                /\ got'[p] = got[p] /\ todo'[p] = todo[p]
      BY <2>1, <2>3, <2>4
    <2> QED
      BY <1>1, <2>1, <2>5, <2>6
  <1> QED
    BY <1>2, <1>3, <1>4, <1>5 DEF WorkerStep

\* The writer moves requests on, in their order, or loses a batch.
LEMMA WriterStepEmit ==
    ASSUME EmitInv, TypeOK, WriterStep
    PROVE  EmitInv'
  <1>1. /\ UNCHANGED <<visited, stored, pc, todo, got>>
        /\ output \in Seq(URL) /\ batch \in Seq(URL) /\ discovered \in Seq(URL)
    BY DEF WriterStep, Receive, Drained, Flush, FlushFails, durable, local, TypeOK
  <1>2. \A p \in Proc : Owned(p)' = Owned(p)
    BY <1>1 DEF Owned
  <1>3. ASSUME Sent' \subseteq Sent, SentApart' PROVE EmitInv'
    <2>1. OwnedNew' /\ OwnedApart' /\ OwnedRows' /\ SentRows'
      BY <1>1, <1>2, <1>3 DEF EmitInv, OwnedNew, OwnedApart, OwnedRows, SentRows
    <2> QED
      BY <1>3, <2>1 DEF EmitInv
  <1>4. CASE Receive
    <2> DEFINE u == Head(discovered)
    <2>1. /\ discovered # <<>> /\ batch' = Append(batch, u) /\ discovered' = Tail(discovered)
          /\ output' = output
      BY <1>4 DEF Receive, durable
    <2>2. /\ Elements(discovered') = Elements(discovered) \ {u} /\ u \in Elements(discovered)
          /\ Distinct(discovered')
      BY <1>1, <2>1, TailElements DEF EmitInv, SentApart
    <2>3. u \in URL /\ u \notin Elements(batch)
      BY <1>1, <2>1, <2>2, SeqType DEF EmitInv, SentApart
    <2> HIDE DEF u
    <2>4. Elements(batch') = Elements(batch) \cup {u} /\ Distinct(batch')
      BY <1>1, <2>1, <2>3, AppendElements DEF EmitInv, SentApart
    <2>5. Sent' \subseteq Sent
      BY <2>1, <2>2, <2>4 DEF Sent
    <2>6. SentApart'
      BY <2>1, <2>2, <2>4 DEF EmitInv, SentApart
    <2> QED
      BY <1>3, <2>5, <2>6
  <1>5. CASE Drained
    <2>1. UNCHANGED <<output, batch, discovered>>
      BY <1>5 DEF Drained, durable
    <2> QED
      BY <1>3, <2>1 DEF Sent, EmitInv, SentApart
  <1>6. CASE Flush \/ FlushFails
    <2>1. output' \in {output, output \o batch} /\ batch' = <<>> /\ discovered' = discovered
      BY <1>6 DEF Flush, FlushFails
    <2>2. Elements(<<>>) = {} /\ Distinct(<<>>)
      BY EmptySeqLen DEF Elements, Distinct
    <2>3. Distinct(output \o batch) /\ Elements(output \o batch) = Elements(output) \cup Elements(batch)
      BY <1>1, ConcatElements DEF EmitInv, SentApart
    <2>4. Sent' \subseteq Sent
      BY <2>1, <2>2, <2>3 DEF Sent
    <2>5. SentApart'
      BY <2>1, <2>2, <2>3 DEF EmitInv, SentApart
    <2> QED
      BY <1>3, <2>4, <2>5
  <1> QED
    BY <1>4, <1>5, <1>6 DEF WriterStep

LEMMA OtherStepsEmit ==
    ASSUME EmitInv, TypeOK, CountInv,
           Spawn \/ Join \/ Leave \/ Cancel \/ CloseOnCancel \/ UNCHANGED vars
    PROVE  EmitInv'
  <1> USE CrawlAssumption DEF TypeOK, Proc
  <1>1. UNCHANGED <<visited, stored, output, batch, discovered, todo, got>>
    BY DEF Spawn, Join, Leave, Cancel, CloseOnCancel, vars, durable, local, writer
  <1>2. \A p \in Proc : \/ pc'[p] = pc[p]
                       \/ pc'[p] \notin {"limit", "sadd", "push", "upsert", "send"}
    <2>1. CASE Spawn \/ Join \/ Leave
      BY <2>1 DEF Spawn, Join, Leave
    <2>2. CASE CloseOnCancel
      BY <2>2, BroadcastType DEF CloseOnCancel
    <2>3. CASE Cancel \/ UNCHANGED vars
      BY <2>3 DEF Cancel, vars
    <2> QED
      BY <2>1, <2>2, <2>3
  <1>3. \A p \in Proc : Owned(p)' \subseteq Owned(p)
    BY <1>1, <1>2 DEF Owned
  <1>4. OwnedRows'
    BY <1>1, <1>2 DEF EmitInv, OwnedRows
  <1> QED
    BY <1>1, <1>3, <1>4, NothingSent

LEMMA EmitInvariant == Spec => []EmitInv
  <1>1. Init => EmitInv
    <2> SUFFICES ASSUME Init PROVE EmitInv
      OBVIOUS
    <2>1. /\ output = <<>> /\ batch = <<>> /\ discovered = <<>>
          /\ \A p \in Proc : got[p] = {} /\ pc[p] \in {"limit", "idle"}
      BY DEF Init
    <2>2. Elements(<<>>) = {} /\ Distinct(<<>>)
      BY EmptySeqLen DEF Elements, Distinct
    <2>3. Sent = {} /\ \A p \in Proc : Owned(p) = {}
      BY <2>1, <2>2 DEF Sent, Owned
    <2>4. OwnedRows
      BY <2>1 DEF OwnedRows, Proc
    <2> QED
      BY <2>1, <2>2, <2>3, <2>4 DEF EmitInv, OwnedNew, OwnedApart, SentRows, SentApart
  <1>2. EmitInv /\ TypeOK /\ CountInv /\ [Next]_vars => EmitInv'
    BY WorkerStepEmit, AddURLsEmit, WriterStepEmit, OtherStepsEmit DEF Next, MainStep, Returned, Proc
  <1> QED
    BY <1>1, <1>2, TypeCorrect, CountInvariant, PTL DEF Spec

\* A crawl asks for the parsing of a URL at most once, and only when Postgres has
\* the row the request names, however the workers, the transactions and the
\* writer interleave and whatever of them fails.
THEOREM NothingEmittedTwice == Spec => []EmittedOnce
  <1>1. EmitInv /\ TypeOK => EmittedOnce
    <2> SUFFICES ASSUME EmitInv, TypeOK PROVE EmittedOnce
      OBVIOUS
    <2>1. output \in Seq(URL) /\ batch \in Seq(URL) /\ discovered \in Seq(URL)
      BY DEF TypeOK
    <2> DEFINE written == output \o batch
    <2>2. /\ written \in Seq(URL) /\ Distinct(written)
          /\ Elements(written) = Elements(output) \cup Elements(batch)
      BY <2>1, ConcatElements DEF EmitInv, SentApart
    <2> HIDE DEF written
    <2>3. Distinct(written \o discovered) /\ Elements(written \o discovered) = Sent
      <3>1. Distinct(discovered) /\ Elements(written) \cap Elements(discovered) = {}
        BY <2>2 DEF EmitInv, SentApart
      <3> QED
        BY <2>1, <2>2, <3>1, ConcatElements DEF Sent
    <2>4. Emitted = written \o discovered
      BY DEF Emitted, written
    <2>5. \A i \in 1..Len(Emitted) : Emitted[i] \in Sent
      BY <2>3, <2>4 DEF Elements
    <2>6. \A w \in Worker : pc[w] = "send" => Owned(w) = todo[w] /\ w \in Proc
      BY DEF Owned, Proc
    <2>7. \A i, j \in 1..Len(Emitted) : Emitted[i] = Emitted[j] => i = j
      BY <2>3, <2>4 DEF Distinct
    <2>8. \A i \in 1..Len(Emitted) : Emitted[i] \in stored
      BY <2>5 DEF EmitInv, SentRows
    <2>9. ASSUME NEW w \in Worker, pc[w] = "send"
          PROVE  /\ todo[w] \subseteq stored
                 /\ \A i \in 1..Len(Emitted) : Emitted[i] \notin todo[w]
                 /\ \A v \in Worker \ {w} : pc[v] = "send" => todo[v] \cap todo[w] = {}
      BY <2>5, <2>6, <2>9 DEF EmitInv, OwnedNew, OwnedApart, OwnedRows
    <2> QED
      BY <2>7, <2>8, <2>9 DEF EmittedOnce
  <1> QED
    BY <1>1, EmitInvariant, TypeCorrect, PTL

(***************************************************************************)
(* The page limit.                                                         *)
(***************************************************************************)

\* Past the check nobody adds a page, and before it nobody passes.
LEMMA AddURLsSealed ==
    ASSUME TypeOK, Sealed, NEW p \in Proc, AddURLs(p)
    PROVE  UNCHANGED <<visited, stored, stats>> /\ \A q \in Proc : pc'[q] \notin {"sadd", "push", "upsert"}
  <1>1. pc[p] = "limit" /\ LimitReached /\ CheckLimit(p)
    BY DEF Sealed, AddURLs, CheckLimit, SAdd, SAddFails, Push, PushesDone, Upsert, UpsertFails
  <1>2. Return(p, {}) /\ UNCHANGED <<visited, stored, stats>>
    BY <1>1 DEF CheckLimit, durable
  <1> QED
    BY <1>2 DEF Return, AfterAdd, Sealed, TypeOK

\* Once the limit is reached and those past the check are through, neither the
\* visited set nor the table of URLs grows any more in this crawl.
THEOREM LimitHolds == Spec => LimitSeals
  <1> USE CrawlAssumption
  <1>1. TypeOK /\ [Next]_vars => [Sealed => Sealed' /\ UNCHANGED <<visited, stored>>]_vars
    <2> SUFFICES ASSUME TypeOK, [Next]_vars, Sealed
                 PROVE  Sealed' /\ UNCHANGED <<visited, stored>>
      OBVIOUS
    <2>1. pc \in [Proc -> WorkerPC \cup MainPC] /\ stats \in [Pages : Nat, Links : Nat, Errors : Nat]
          /\ Main \in Proc /\ Worker \subseteq Proc /\ MaxPages \in Nat
      BY DEF TypeOK, Proc
    <2>2. ASSUME stats'.Pages \in Nat, stats'.Pages >= stats.Pages PROVE LimitReached'
      BY <2>1, <2>2 DEF Sealed, LimitReached
    <2>3. ASSUME NEW p \in Proc, AddURLs(p) PROVE Sealed' /\ UNCHANGED <<visited, stored>>
      <3>1. UNCHANGED <<visited, stored, stats>> /\ \A q \in Proc : pc'[q] \notin {"sadd", "push", "upsert"}
        BY <2>3, AddURLsSealed
      <3> QED
        BY <2>1, <2>2, <3>1 DEF Sealed
    <2>4. ASSUME UNCHANGED <<visited, stored>>, stats'.Pages \in Nat, stats'.Pages >= stats.Pages,
                 \A q \in Proc : pc'[q] = pc[q] \/ pc'[q] \notin {"sadd", "push", "upsert"}
          PROVE  Sealed' /\ UNCHANGED <<visited, stored>>
      BY <2>2, <2>4 DEF Sealed
    <2>5. ASSUME NEW w \in Worker, WorkerStep(w) PROVE Sealed' /\ UNCHANGED <<visited, stored>>
      <3>1. CASE AddURLs(w)
        BY <2>1, <2>3, <3>1
      <3>2. CASE Done(w)
        <4> DEFINE left == [pc EXCEPT ![w] = IF pc[w] = "quit" THEN "exited" ELSE "pop"]
        <4>1. (pc' = Broadcast(left) \/ pc' = left) /\ UNCHANGED <<visited, stored, stats>>
          BY <3>2 DEF Done, durable
        <4>2. left \in [Proc -> WorkerPC \cup MainPC]
          BY <2>1 DEF WorkerPC
        <4>3. left[w] \in {"exited", "pop"} /\ \A p \in Proc \ {w} : left[p] = pc[p]
          BY <2>1
        <4>4. \A p \in Proc : pc'[p] = left[p] \/ pc'[p] = "pop"
          BY <4>1, <4>2, BroadcastType
        <4> HIDE DEF left
        <4>5. \A p \in Proc : pc'[p] = pc[p] \/ pc'[p] \in {"pop", "exited"}
          BY <2>1, <4>3, <4>4
        <4> QED
          BY <2>1, <2>4, <4>1, <4>5
      <3>3. CASE Pop(w) \/ PopNothing(w) \/ Fetch(w) \/ FetchFails(w) \/ SendGivesUp(w)
                 \/ \E u \in todo[w] : Send(w, u)
        <4>1. UNCHANGED <<visited, stored>>
          BY <3>3 DEF Pop, PopNothing, Fetch, FetchFails, SendGivesUp, Send, durable
        <4>2. \A q \in Proc : pc'[q] = pc[q] \/ pc'[q] \notin {"sadd", "push", "upsert"}
          BY <2>1, <3>3 DEF Pop, PopNothing, Fetch, FetchFails, SendGivesUp, Send
        <4>3. stats'.Pages \in {stats.Pages, stats.Pages + 1}
          BY <2>1, <3>3 DEF Pop, PopNothing, Fetch, FetchFails, SendGivesUp, Send
        <4> QED
          BY <2>1, <2>4, <4>1, <4>2, <4>3
      <3> QED
        BY <2>5, <3>1, <3>2, <3>3 DEF WorkerStep
    <2>6. CASE Spawn \/ Join \/ Leave \/ WriterStep \/ Cancel \/ CloseOnCancel \/ UNCHANGED vars
      <3>1. UNCHANGED <<visited, stored, stats>>
        BY <2>6 DEF Spawn, Join, Leave, WriterStep, Receive, Drained, Flush, FlushFails, Cancel,
                    CloseOnCancel, vars, durable
      <3>2. \A q \in Proc : pc'[q] = pc[q] \/ pc'[q] \notin {"sadd", "push", "upsert"}
        BY <2>1, <2>6, BroadcastType
           DEF Spawn, Join, Leave, WriterStep, Receive, Drained, Flush, FlushFails, Cancel,
               CloseOnCancel, vars
      <3> QED
        BY <2>1, <2>4, <3>1, <3>2
    <2> QED
      BY <2>1, <2>3, <2>5, <2>6 DEF Next, MainStep, Returned
  <1> QED
    BY <1>1, TypeCorrect, PTL DEF Spec, LimitSeals
(***************************************************************************)
(* Reachability, which MapperCrawl defines by as many turns as there are   *)
(* URLs: what is reachable is closed under the links to what was not       *)
(* visited before, and is the least such set.                              *)
(***************************************************************************)

\* Induction on the numbers, for what is said by membership in a set.
LEMMA Inductive ==
    ASSUME NEW G, 0 \in G, \A n \in Nat : n \in G => n + 1 \in G
    PROVE  \A n \in Nat : n \in G
  <1> DEFINE bad == {n \in Nat : n \notin G}
  <1> SUFFICES ASSUME bad # {} PROVE FALSE
    OBVIOUS
  <1>1. \E k \in bad : \A i \in bad : ~ (<<i, k>> \in OpToRel(<, Nat))
    <2>1. bad \subseteq Nat
      OBVIOUS
    <2> HIDE DEF bad
    <2> QED
      BY <2>1, NatLessThanWellFounded, WFMin
  <1>2. PICK k \in bad : \A i \in bad : ~ (<<i, k>> \in OpToRel(<, Nat))
    BY <1>1
  <1>3. k \in Nat /\ k # 0 /\ k - 1 \in Nat /\ (k - 1) + 1 = k
    OBVIOUS
  <1>4. <<k - 1, k>> \in OpToRel(<, Nat)
    <2>1. OpToRel(<, Nat) = {ss \in Nat \X Nat : ss[1] < ss[2]}
      BY DEF OpToRel
    <2>2. <<k - 1, k>> \in Nat \X Nat /\ k - 1 < k
      BY <1>3
    <2>3. <<k - 1, k>>[1] = k - 1 /\ <<k - 1, k>>[2] = k
      OBVIOUS
    <2> DEFINE ss == <<k - 1, k>>
    <2> HIDE DEF ss
    <2>4. ss \in Nat \X Nat /\ ss[1] < ss[2]
      BY <2>2, <2>3 DEF ss
    <2>5. ss \in OpToRel(<, Nat)
      BY <2>1, <2>4
    <2> QED
      BY <2>5 DEF ss
  <1>5. k - 1 \notin bad
    BY <1>2, <1>4
  <1> QED
    BY <1>2, <1>3, <1>5

\* A loop that does F[i] at its i-th turn has its states: from s it comes to
\* F[i][s].
LEMMA Looping ==
    ASSUME NEW S, NEW s0 \in S, NEW n \in Nat, NEW F \in [1 .. n -> [S -> S]]
    PROVE  \E f \in [0 .. n -> S] : f[0] = s0 /\ \A i \in 1 .. n : f[i] = F[i][f[i - 1]]
  <1> DEFINE runs(k) == {f \in [0 .. k -> S] : f[0] = s0 /\ \A i \in 1 .. k : f[i] = F[i][f[i - 1]]}
             G == {k \in Nat : k <= n => runs(k) # {}}
  <1>1. 0 \in G
    <2> DEFINE f == [i \in 0 .. 0 |-> s0]
    <2>1. f \in runs(0)
      OBVIOUS
    <2> QED
      BY <2>1
  <1>2. ASSUME NEW k \in Nat, k \in G PROVE k + 1 \in G
    <2> SUFFICES ASSUME k + 1 <= n PROVE runs(k + 1) # {}
      OBVIOUS
    <2>1. k <= n /\ k + 1 \in 1 .. n
      OBVIOUS
    <2>2. PICK f \in [0 .. k -> S] : f[0] = s0 /\ \A i \in 1 .. k : f[i] = F[i][f[i - 1]]
      BY <1>2, <2>1
    <2> DEFINE g == [i \in 0 .. k + 1 |-> IF i = k + 1 THEN F[k + 1][f[k]] ELSE f[i]]
    <2>3. F[k + 1] \in [S -> S] /\ f[k] \in S
      BY <2>1, <2>2
    <2>4. g \in [0 .. k + 1 -> S]
      BY <2>2, <2>3
    <2>5. g[0] = s0
      BY <2>2
    <2>6. ASSUME NEW i \in 1 .. k + 1 PROVE g[i] = F[i][g[i - 1]]
      <3>1. CASE i = k + 1
        <4>1. i - 1 = k /\ k \in 0 .. k + 1 /\ k # k + 1
          BY <3>1
        <4> QED
          BY <3>1, <4>1
      <3>2. CASE i # k + 1
        <4>1. i \in 1 .. k /\ i - 1 \in 0 .. k /\ i - 1 # k + 1 /\ i \in 0 .. k + 1 /\ i - 1 \in 0 .. k + 1
          BY <3>2
        <4>2. g[i] = f[i] /\ g[i - 1] = f[i - 1]
          BY <3>2, <4>1
        <4> QED
          BY <2>2, <4>1, <4>2
      <3> QED
        BY <3>1, <3>2
    <2> HIDE DEF g
    <2>7. g \in runs(k + 1)
      BY <2>4, <2>5, <2>6
    <2> QED
      BY <2>7
  <1>3. n \in G
    <2> HIDE DEF G
    <2> QED
      BY <1>1, <1>2, Inductive
  <1> QED
    BY <1>3

\* The turns that lead to Reachable.
Step(S) == S \cup ((UNION {Links[u] : u \in S}) \ before)
Turning(f) ==
    /\ f \in [0 .. Cardinality(URL) -> SUBSET URL]
    /\ f[0] = {Seed} \ before
    /\ \A i \in 1 .. Cardinality(URL) : f[i] = Step(f[i - 1])
    /\ Reachable = f[Cardinality(URL)]

LEMMA StepType == \A S \in SUBSET URL : S \subseteq Step(S) /\ Step(S) \in SUBSET URL
  BY CrawlAssumption DEF Step

LEMMA StepElements ==
    ASSUME NEW S, NEW x
    PROVE  x \in Step(S) <=> x \in S \/ \E u \in S : x \in Links[u] /\ x \notin before
  BY DEF Step

LEMMA Turns == \E f : Turning(f)
  <1> DEFINE n == Cardinality(URL)
             F == [i \in 1 .. n |-> [S \in SUBSET URL |-> Step(S)]]
             Loops(f) == f = [i \in 0 .. n |-> IF i = 0 THEN {Seed} \ before ELSE Step(f[i - 1])]
             loop == CHOOSE f : Loops(f)
  <1>1. n \in Nat
    BY CrawlAssumption, FS_CardinalityType
  <1>2. {Seed} \ before \in SUBSET URL /\ F \in [1 .. n -> [SUBSET URL -> SUBSET URL]]
    BY CrawlAssumption, StepType
  <1>3. PICK f \in [0 .. n -> SUBSET URL] :
              f[0] = {Seed} \ before /\ \A i \in 1 .. n : f[i] = F[i][f[i - 1]]
    <2> DEFINE S == SUBSET URL
               s0 == {Seed} \ before
    <2>1. n \in Nat /\ s0 \in S /\ F \in [1 .. n -> [S -> S]]
      BY <1>1, <1>2
    <2> HIDE DEF n, F, S, s0
    <2>2. \E f \in [0 .. n -> S] : f[0] = s0 /\ \A i \in 1 .. n : f[i] = F[i][f[i - 1]]
      BY <2>1, Looping
    <2> QED
      BY <2>2 DEF S, s0
  <1>4. \A i \in 1 .. n : f[i] = Step(f[i - 1])
    <2> SUFFICES ASSUME NEW i \in 1 .. n PROVE f[i] = Step(f[i - 1])
      OBVIOUS
    <2>1. i - 1 \in 0 .. n
      BY <1>1
    <2>2. f[i - 1] \in SUBSET URL
      BY <2>1
    <2> QED
      BY <1>3, <2>2
  <1>5. \A i \in 0 .. n : f[i] = IF i = 0 THEN {Seed} \ before ELSE Step(f[i - 1])
    <2>1. \A i \in 0 .. n : i # 0 => i \in 1 .. n
      BY <1>1
    <2> QED
      BY <1>3, <1>4, <2>1
  <1>6. Loops(f)
    BY <1>5
  <1>7. Loops(loop)
    BY <1>6
  <1>8. \A i \in 0 .. n : loop[i] = IF i = 0 THEN {Seed} \ before ELSE Step(loop[i - 1])
    BY <1>7
  <1>9. Reachable = loop[n]
    BY DEF Reachable, Step
  <1> DEFINE G == {i \in Nat : i <= n => loop[i] = f[i]}
  <1> HIDE DEF loop, F, n
  <1>10. 0 \in G
    <2>1. 0 \in 0 .. n
      BY <1>1
    <2>2. loop[0] = {Seed} \ before
      BY <1>8, <2>1
    <2> QED
      BY <1>3, <2>2
  <1>11. ASSUME NEW i \in Nat, i \in G PROVE i + 1 \in G
    <2> SUFFICES ASSUME i + 1 <= n PROVE loop[i + 1] = f[i + 1]
      OBVIOUS
    <2>1. i + 1 \in 1 .. n /\ i + 1 \in 0 .. n /\ i + 1 # 0 /\ (i + 1) - 1 = i /\ i <= n
      BY <1>1
    <2>2. loop[i + 1] = Step(loop[i]) /\ f[i + 1] = Step(f[i])
      BY <1>4, <1>8, <2>1
    <2> QED
      BY <1>11, <2>1, <2>2
  <1>12. n \in G
    <2> HIDE DEF G
    <2> QED
      BY <1>1, <1>10, <1>11, Inductive
  <1>13. loop[n] = f[n]
    BY <1>1, <1>12
  <1> QED
    BY <1>3, <1>4, <1>9, <1>13 DEF Turning, n

\* After each turn the set is closed, or has an element more than turns were made.
LEMMA ReachableClosed ==
    /\ Reachable \subseteq URL /\ {Seed} \ before \subseteq Reachable
    /\ \A u \in Reachable : Links[u] \subseteq Reachable \cup before
  <1> DEFINE n == Cardinality(URL)
             Size(S) == Cardinality(S)
             Shut(S) == Step(S) = S
  <1>1. n \in Nat /\ IsFiniteSet(URL)
    BY CrawlAssumption, FS_CardinalityType
  <1>2. PICK f : Turning(f)
    BY Turns
  <1>3. \A i \in 0 .. n : f[i] \in SUBSET URL
    BY <1>2 DEF Turning
  <1>4. \A i \in 1 .. n : f[i] = Step(f[i - 1])
    BY <1>2 DEF Turning
  <1>5. \A S \in SUBSET URL : IsFiniteSet(S) /\ Size(S) \in Nat /\ Size(S) <= n
    BY <1>1, FS_Subset, FS_CardinalityType
  <1> DEFINE G == {i \in Nat : i <= n => {Seed} \ before \subseteq f[i] /\ (Shut(f[i]) \/ Size(f[i]) >= i)}
  <1> HIDE DEF n
  <1>6. 0 \in G
    <2>1. 0 \in 0 .. n /\ f[0] = {Seed} \ before
      BY <1>1, <1>2 DEF Turning
    <2>2. f[0] \in SUBSET URL
      BY <1>3, <2>1
    <2> QED
      BY <1>5, <2>1, <2>2
  <1>7. ASSUME NEW i \in Nat, i \in G PROVE i + 1 \in G
    <2> DEFINE S == f[i]
               T == f[i + 1]
    <2> SUFFICES ASSUME i + 1 <= n PROVE {Seed} \ before \subseteq T /\ (Shut(T) \/ Size(T) >= i + 1)
      OBVIOUS
    <2>1. i + 1 \in 1 .. n /\ i \in 0 .. n /\ i + 1 \in 0 .. n /\ (i + 1) - 1 = i /\ i <= n
      BY <1>1
    <2>2. T = Step(S) /\ S \in SUBSET URL /\ T \in SUBSET URL
      BY <1>3, <1>4, <2>1
    <2>3. {Seed} \ before \subseteq S /\ (Shut(S) \/ Size(S) >= i)
      BY <1>7, <2>1
    <2> HIDE DEF S, T
    <2>4. S \subseteq T
      BY <2>2, StepType
    <2>5. CASE T = S
      BY <2>2, <2>3, <2>5
    <2>6. CASE T # S
      <3>1. PICK x \in T : x \notin S
        BY <2>4, <2>6
      <3>2. Size(S) >= i /\ IsFiniteSet(S) /\ Size(S) \in Nat /\ Size(T) \in Nat
        BY <1>5, <2>2, <2>3, <2>6
      <3>3. Size(S \cup {x}) = Size(S) + 1 /\ S \cup {x} \subseteq T
        BY <2>4, <3>1, <3>2, FS_AddElement
      <3>4. Size(S \cup {x}) <= Size(T)
        BY <1>5, <2>2, <3>3, FS_Subset
      <3> QED
        BY <2>3, <2>4, <3>2, <3>3, <3>4
    <2> QED
      BY <2>5, <2>6
  <1>8. n \in G
    <2> HIDE DEF G
    <2> QED
      BY <1>1, <1>6, <1>7, Inductive
  <1> DEFINE R == f[n]
  <1>9. R \in SUBSET URL /\ Reachable = R /\ {Seed} \ before \subseteq R /\ (Shut(R) \/ Size(R) >= n)
    BY <1>1, <1>2, <1>3, <1>8 DEF Turning, n
  <1> HIDE DEF R
  <1>10. CASE Shut(R)
    <2>1. ASSUME NEW u \in R, NEW x \in Links[u], x \notin before PROVE x \in R
      <3>1. x \in Step(R)
        BY <2>1, StepElements
      <3> QED
        BY <1>10, <3>1
    <2> QED
      BY <1>9, <2>1
  <1>11. CASE Size(R) >= n
    <2>1. R = URL
      BY <1>1, <1>5, <1>9, <1>11, FS_Subset DEF n
    <2> QED
      BY <1>9, <2>1, CrawlAssumption
  <1> QED
    BY <1>9, <1>10, <1>11

\* Nothing is reachable that need not be.
LEMMA ReachableLeast ==
    ASSUME NEW S, {Seed} \ before \subseteq S, \A u \in S \cap URL : Links[u] \subseteq S \cup before
    PROVE  Reachable \subseteq S
  <1> DEFINE n == Cardinality(URL)
  <1>1. n \in Nat
    BY CrawlAssumption, FS_CardinalityType
  <1>2. PICK f : Turning(f)
    BY Turns
  <1> DEFINE G == {i \in Nat : i <= n => f[i] \subseteq S}
  <1>3. /\ f[0] = {Seed} \ before /\ Reachable = f[n] /\ \A i \in 1 .. n : f[i] = Step(f[i - 1])
        /\ \A i \in 0 .. n : f[i] \in SUBSET URL
    BY <1>2 DEF Turning
  <1> HIDE DEF n
  <1>4. 0 \in G
    BY <1>3
  <1>5. ASSUME NEW i \in Nat, i \in G PROVE i + 1 \in G
    <2> SUFFICES ASSUME i + 1 <= n PROVE f[i + 1] \subseteq S
      OBVIOUS
    <2>1. i + 1 \in 1 .. n /\ i \in 0 .. n /\ (i + 1) - 1 = i /\ i <= n
      BY <1>1
    <2>2. f[i + 1] = Step(f[i]) /\ f[i] \subseteq S \cap URL
      BY <1>3, <1>5, <2>1
    <2>3. ASSUME NEW x \in Step(f[i]) PROVE x \in S
      <3>1. x \in f[i] \/ \E u \in f[i] : x \in Links[u] /\ x \notin before
        BY <2>3, StepElements
      <3> QED
        BY <2>2, <3>1
    <2> QED
      BY <2>2, <2>3
  <1>6. n \in G
    <2> HIDE DEF G
    <2> QED
      BY <1>1, <1>4, <1>5, Inductive
  <1> QED
    BY <1>1, <1>3, <1>6

(***************************************************************************)
(* An undisturbed crawl is complete.                                       *)
(*                                                                         *)
(* Without failures, cancellation and limit no URL is dropped between two  *)
(* of the stores it goes through: what was won is pushed, what was fetched *)
(* is followed, what was followed is requested, and the numbers of the     *)
(* report say how far that is.                                             *)
(***************************************************************************)

Undisturbed == faults = {} /\ MaxPages = 0

Quiet == ~cancelled /\ watcher = "armed" /\ \A w \in Worker : pc[w] # "quit"

\* The order in which an undisturbed crawl ends: workers, channel, writer, crawl.
Ending ==
    /\ \A w \in Worker : pc[w] = "exited" => closed
    /\ pc[Main] \in {"flush", "returned"} => \A w \in Worker : pc[w] = "exited"
    /\ ~chanOpen => pc[Main] \in {"flush", "returned"}
    /\ wpc = "ended" => ~chanOpen /\ discovered = <<>> /\ batch = <<>>
    /\ pc[Main] = "returned" => wpc = "ended"

\* The seed is the first URL added; if it was known, nothing happens.
Seeding ==
    /\ SeedPhase => fetched = {}
    /\ pc[Main] \in {"limit", "sadd"} => todo[Main] = {Seed} /\ got[Main] = {} /\ items = <<>>
    /\ pc[Main] \notin {"limit", "sadd"} => Seed \in visited
    /\ pc[Main] \in {"push", "upsert", "spawn"} =>
          /\ todo[Main] \cup got[Main] \subseteq {Seed}
          /\ got[Main] = {} => items = <<>>
    /\ ~SeedPhase /\ ~seedAdded => items = <<>> /\ Holding = {}

\* What is visited since the crawl began is claimed, in the frontier or fetched.
Accounted ==
    /\ before \subseteq visited
    /\ \A u \in before : u \notin Pooled \cup fetched /\ \A p \in Proc : u \notin Claimed(p)
    /\ \A u \in visited \ before : u \in Pooled \cup fetched \/ \E p \in Proc : u \in Claimed(p)

\* What is visited can be reached.
Found ==
    /\ visited \subseteq before \cup Reachable
    /\ \A w \in Worker : pc[w] \in {"limit", "sadd"} => todo[w] \subseteq Links[page[w]]

\* The links of a page are visited, or a worker is about to see to it.
Followed ==
    \A u \in fetched :
        \/ Links[u] \subseteq visited
        \/ \E w \in Worker : /\ page[w] = u
                             /\ \/ pc[w] = "fetch"
                                \/ pc[w] \in {"limit", "sadd"} /\ Links[u] \subseteq visited \cup todo[w]

\* Whatever was pushed, except the seed, is sent to the writer or is going to be.
Requested ==
    /\ Seed \in stored /\ stored \subseteq {Seed} \cup Pooled \cup fetched
    /\ Sent \subseteq (Pooled \cup fetched) \ {Seed}
    /\ \A p \in Proc : pc[p] \in {"push", "upsert", "send"} => got[p] \subseteq Pooled \cup fetched
    /\ \A w \in Worker : /\ pc[w] \in {"limit", "sadd", "push", "upsert", "send"} => Seed \notin got[w]
                         /\ pc[w] = "push" => Seed \notin todo[w]
                         /\ pc[w] = "limit" => got[w] = {}
                         /\ pc[w] = "send" => todo[w] \subseteq got[w] /\ got[w] \subseteq Sent \cup todo[w]
    /\ \A u \in (Pooled \cup fetched) \ {Seed} :
          u \in Sent \/ \E w \in Worker : pc[w] \in {"push", "upsert", "send"} /\ u \in got[w]

\* The statistics: a page counts when it is fetched, links when all of a page are sent.
Fetching == {w \in Worker : pc[w] = "fetch"}
Reported == {u \in Sent : \A w \in Worker : pc[w] = "send" => u \notin got[w]}
Counted ==
    /\ stats.Errors = 0
    /\ stats.Pages + Cardinality(Fetching) = Cardinality(fetched)
    /\ stats.Links = Cardinality(Reported)
    /\ \A v, w \in Worker : pc[v] = "send" /\ pc[w] = "send" /\ v # w => got[v] \cap got[w] = {}

WholeInv == Undisturbed => Quiet /\ Ending /\ Seeding /\ Accounted /\ Found /\ Followed /\ Requested /\ Counted

(* The steps of an undisturbed crawl, as far as the invariant sees them.   *)

\* Where the lists of a goroutine, or the page of a worker, still matter.
Adding == {"fetch", "limit", "sadd", "push", "upsert", "send"}
Same(q) ==
    pc[q] \in Adding \/ pc'[q] \in Adding => pc'[q] = pc[q] /\ todo'[q] = todo[q] /\ got'[q] = got[q]
Others(p) == \A q \in Proc \ {p} : Same(q)

Checks(p) ==
    /\ pc[p] = "limit" /\ pc'[p] = "sadd" /\ todo'[p] = todo[p] /\ got'[p] = got[p]
    /\ Others(p) /\ UNCHANGED <<visited, stored, Pooled, fetched, page, Sent, stats>>
Skips(p) ==
    /\ pc[p] \in {"limit", "push"} /\ pc'[p] \notin Adding /\ todo[p] = {} /\ got[p] = {}
    /\ Others(p) /\ UNCHANGED <<visited, stored, Pooled, fetched, page, Sent, stats>>
Fresh(p, u) == IF u \in visited THEN got[p] ELSE got[p] \cup {u}
Adds(p, u) ==
    /\ pc[p] = "sadd" /\ u \in todo[p] /\ visited' = visited \cup {u}
    /\ \/ todo[p] = {u} /\ pc'[p] = "push" /\ todo'[p] = Fresh(p, u) /\ got'[p] = {}
       \/ todo[p] # {u} /\ pc'[p] = "sadd" /\ todo'[p] = todo[p] \ {u} /\ got'[p] = Fresh(p, u)
    /\ Others(p) /\ UNCHANGED <<stored, Pooled, fetched, page, Sent, stats>>
Pushes(p, u) ==
    /\ pc[p] = "push" /\ pc'[p] = "push" /\ u \in todo[p]
    /\ todo'[p] = todo[p] \ {u} /\ got'[p] = got[p] \cup {u} /\ Pooled' = Pooled \cup {u}
    /\ Others(p) /\ UNCHANGED <<visited, stored, fetched, page, Sent, stats>>
Records(p) ==
    /\ pc[p] = "push" /\ pc'[p] = "upsert" /\ todo[p] = {} /\ todo'[p] = {} /\ got'[p] = got[p]
    /\ Others(p) /\ UNCHANGED <<visited, stored, Pooled, fetched, page, Sent, stats>>
Upserts(p) ==
    /\ pc[p] = "upsert" /\ stored' = stored \cup got[p]
    /\ \/ p # Main /\ pc'[p] = "send" /\ todo'[p] = got[p] /\ got'[p] = got[p]
       \/ (p = Main \/ got[p] = {}) /\ pc'[p] \notin Adding
    /\ Others(p) /\ UNCHANGED <<visited, Pooled, fetched, page, Sent, stats>>
Takes(w, u) ==
    /\ pc[w] = "pop" /\ pc'[w] = "fetch" /\ u \in Pooled /\ page' = [page EXCEPT ![w] = u]
    /\ Pooled' = Pooled \ {u} /\ fetched' = fetched \cup {u}
    /\ Others(w) /\ UNCHANGED <<visited, stored, Sent, stats>>
Fetches(w) ==
    /\ pc[w] = "fetch" /\ pc'[w] = "limit" /\ todo'[w] = Links[page[w]] /\ got'[w] = {}
    /\ stats' = [stats EXCEPT !.Pages = @ + 1]
    /\ Others(w) /\ UNCHANGED <<visited, stored, Pooled, fetched, page, Sent>>
Sends(w, u) ==
    /\ pc[w] = "send" /\ u \in todo[w] /\ Sent' = Sent \cup {u}
    /\ \/ /\ todo[w] = {u} /\ pc'[w] = "done"
          /\ stats' = [stats EXCEPT !.Links = @ + Cardinality(got[w])]
       \/ /\ todo[w] # {u} /\ pc'[w] = "send" /\ UNCHANGED stats
          /\ todo'[w] = todo[w] \ {u} /\ got'[w] = got[w]
    /\ Others(w) /\ UNCHANGED <<visited, stored, Pooled, fetched, page>>
Idles ==
    /\ \A q \in Proc : Same(q)
    /\ UNCHANGED <<visited, stored, Pooled, fetched, page, Sent, stats>>

Turn ==
    \/ \E p \in Proc : \/ Checks(p) \/ Skips(p) \/ Records(p) \/ Upserts(p)
                       \/ \E u \in URL : Adds(p, u) \/ Pushes(p, u)
    \/ \E w \in Worker : Fetches(w) \/ \E u \in URL : Takes(w, u) \/ Sends(w, u)
    \/ Idles

\* How the goroutines move.
Moves ==
    /\ closed => closed'
    /\ \A w \in Worker : /\ pc'[w] # "quit"
                         /\ pc'[w] = "exited" => pc[w] = "exited" \/ closed
                         /\ pc[w] = "exited" => pc'[w] = "exited"
    /\ pc[Main] \in {"flush", "returned"} => pc'[Main] \in {"flush", "returned"}
    /\ pc'[Main] \in {"flush", "returned"} =>
          pc[Main] \in {"flush", "returned"} \/ \A w \in Worker : pc[w] = "exited"
    /\ pc'[Main] = "returned" => pc[Main] = "returned" \/ wpc = "ended"

LEMMA AddURLsMoves ==
    ASSUME TypeOK, Quiet, NEW p \in Proc, AddURLs(p)
    PROVE  /\ \A q \in Proc : \/ pc'[q] = pc[q]
                              \/ pc[q] = "wait" /\ pc'[q] = "pop"
                              \/ /\ q = p /\ pc[q] \in {"limit", "sadd", "push", "upsert"}
                                 /\ pc'[q] \in {"sadd", "push", "upsert", "spawn", "done", "send"}
           /\ UNCHANGED <<closed, chanOpen, discovered, batch, wpc, cancelled, watcher, faults, before>>
  <1> USE DEF TypeOK, queue, control, writer
  <1>1. ASSUME NEW R, Return(p, R) PROVE /\ pc'[p] \in {"spawn", "done", "send"}
                                        /\ \A q \in Proc \ {p} : pc'[q] = pc[q]
    BY <1>1 DEF Return, AfterAdd
  <1>2. CASE CheckLimit(p)
    BY <1>1, <1>2 DEF CheckLimit
  <1>3. ASSUME NEW u \in todo[p], SAdd(p, u)
        PROVE  /\ pc[p] = "sadd" /\ (pc' = pc \/ pc' = [pc EXCEPT ![p] = "push"])
               /\ UNCHANGED <<closed, chanOpen, discovered, batch, wpc, cancelled, watcher, faults, before>>
    BY <1>3 DEF SAdd
  <1>4. CASE SAddFails(p)
    BY <1>1, <1>4 DEF SAddFails
  <1>5. ASSUME NEW u \in todo[p], Push(p, u)
        PROVE  /\ \A q \in Proc : pc'[q] = pc[q] \/ (pc[q] = "wait" /\ pc'[q] = "pop")
               /\ UNCHANGED <<closed, chanOpen, discovered, batch, wpc, cancelled, watcher, faults, before>>
    <2>1. pc' = pc \/ pc' \in Signalled(pc)
      BY <1>5 DEF Push
    <2>2. \A q \in Proc : pc'[q] = pc[q] \/ (pc[q] = "wait" /\ pc'[q] = "pop")
      BY <2>1, SignalledType
    <2> QED
      BY <1>5, <2>2 DEF Push
  <1>6. CASE PushesDone(p)
    BY <1>1, <1>6 DEF PushesDone
  <1>7. CASE Upsert(p)
    BY <1>1, <1>7 DEF Upsert
  <1>8. CASE UpsertFails(p)
    BY <1>1, <1>8 DEF UpsertFails
  <1> QED
    BY <1>2, <1>3, <1>4, <1>5, <1>6, <1>7, <1>8 DEF AddURLs

LEMMA DoneMoves ==
    ASSUME TypeOK, Quiet, NEW w \in Worker, Done(w)
    PROVE  /\ pc[w] = "done" /\ pc'[w] = "pop"
           /\ \A q \in Proc \ {w} : pc'[q] = pc[q] \/ (pc[q] = "wait" /\ pc'[q] = "pop")
  <1> DEFINE left == [pc EXCEPT ![w] = IF pc[w] = "quit" THEN "exited" ELSE "pop"]
  <1>1. pc[w] = "done" /\ (pc' = Broadcast(left) \/ pc' = left)
    BY DEF Done, Quiet
  <1>2. left \in [Proc -> WorkerPC \cup MainPC] /\ w \in Proc
    BY DEF TypeOK, WorkerPC, Proc
  <1>3. left[w] = "pop" /\ \A p \in Proc \ {w} : left[p] = pc[p]
    BY <1>1 DEF TypeOK, Proc
  <1>4. \A p \in Proc : pc'[p] = left[p] \/ (left[p] = "wait" /\ pc'[p] = "pop")
    BY <1>1, <1>2, BroadcastType
  <1> HIDE DEF left
  <1> QED
    BY <1>1, <1>2, <1>3, <1>4

LEMMA StepMoves ==
    ASSUME TypeOK, Undisturbed, Quiet, CountInv, Ending, [Next]_vars
    PROVE  Moves /\ ~cancelled' /\ watcher' = "armed" /\ faults' = {} /\ before' = before
  <1>0. ASSUME NEW p \in Proc, AddURLs(p)
        PROVE  /\ UNCHANGED <<cancelled, watcher, faults, before, closed>>
               /\ \A q \in Proc : \/ pc'[q] = pc[q]
                                  \/ pc[q] = "wait" /\ pc'[q] = "pop"
                                  \/ /\ q = p /\ pc[q] \in {"limit", "sadd", "push", "upsert"}
                                     /\ pc'[q] \in {"sadd", "push", "upsert", "spawn", "done", "send"}
    BY <1>0, AddURLsMoves
  <1> USE CrawlAssumption DEF TypeOK, Proc, durable, queue, local, writer, control
  <1>1. faults = {} /\ ~cancelled /\ watcher = "armed" /\ Worker # {}
    BY DEF Undisturbed, Quiet
  <1>2. ASSUME NEW w \in Worker, WorkerStep(w)
        PROVE  Moves /\ UNCHANGED <<cancelled, watcher, faults, before>>
    <2>1. CASE AddURLs(w)
      BY ZenonT(40), <1>0, <2>1 DEF Moves, Quiet, MainPC
    <2>2. CASE Done(w)
      <3>1. UNCHANGED <<cancelled, watcher, faults, before>> /\ (closed => closed')
        BY <2>2 DEF Done
      <3> QED
        BY <2>2, <3>1, DoneMoves DEF Moves, Quiet, MainPC
    <2>3. CASE Pop(w) \/ PopNothing(w) \/ Fetch(w) \/ FetchFails(w)
      BY <2>3 DEF Pop, PopNothing, Fetch, FetchFails, Moves, Quiet, MainPC
    <2>4. ASSUME NEW u \in todo[w], Send(w, u)
          PROVE  Moves /\ UNCHANGED <<cancelled, watcher, faults, before>>
      <3>1. pc[w] = "send" /\ (pc' = pc \/ pc' = [pc EXCEPT ![w] = "done"])
            /\ UNCHANGED <<closed, cancelled, watcher, faults, before>>
        BY <2>4 DEF Send
      <3> QED
        BY <3>1 DEF Moves, Quiet, MainPC
    <2>5. CASE SendGivesUp(w)
      BY <1>1, <2>5 DEF SendGivesUp
    <2> QED
      BY <1>2, <2>1, <2>2, <2>3, <2>4, <2>5 DEF WorkerStep
  <1>3. CASE AddURLs(Main)
    <2>1. Moves /\ UNCHANGED <<cancelled, watcher, faults, before>>
      BY ZenonT(40), <1>0, <1>3 DEF Moves, Quiet, MainPC
    <2> QED
      BY <1>1, <2>1
  <1>4. CASE Spawn
    <2>1. \A w \in Worker : pc[w] = "idle" /\ pc'[w] = "pop"
      BY <1>4 DEF Spawn, CountInv, AloneAtFirst, SeedPhase
    <2> QED
      BY <1>1, <1>4, <2>1 DEF Spawn, Moves
  <1>5. CASE Join \/ Leave
    BY <1>1, <1>5 DEF Join, Leave, Moves, Quiet
  <1>6. CASE WriterStep \/ UNCHANGED vars
    BY <1>1, <1>6 DEF WriterStep, Receive, Drained, Flush, FlushFails, vars, Moves, Quiet
  <1>7. CASE Cancel \/ CloseOnCancel
    BY <1>1, <1>7 DEF Cancel, CloseOnCancel
  <1> QED
    BY <1>1, <1>2, <1>3, <1>4, <1>5, <1>6, <1>7 DEF Next, MainStep, Returned


LEMMA QuietStep ==
    ASSUME TypeOK, Undisturbed, Quiet, CountInv, Ending, [Next]_vars
    PROVE  Quiet'
  BY StepMoves DEF Moves, Quiet

LEMMA EndingStep ==
    ASSUME TypeOK, Undisturbed, Quiet, CountInv, Ending, [Next]_vars
    PROVE  Ending'
  <1>1. Moves
    BY StepMoves
  <1>2. \/ UNCHANGED <<chanOpen, discovered, batch, wpc>>
        \/ UNCHANGED <<discovered, batch, wpc>> /\ chanOpen' = FALSE /\ pc'[Main] = "flush"
        \/ UNCHANGED <<chanOpen, batch, wpc>> /\ \E w \in Worker : pc[w] = "send"
        \/ /\ UNCHANGED chanOpen /\ wpc # "ended"
           /\ wpc' = "ended" => ~chanOpen /\ discovered' = <<>> /\ batch' = <<>>
    <2>1. ASSUME NEW p \in Proc, AddURLs(p) PROVE UNCHANGED <<chanOpen, discovered, batch, wpc>>
      BY <2>1, AddURLsMoves
    <2>2. ASSUME NEW w \in Worker, WorkerStep(w), ~AddURLs(w)
          PROVE  \/ UNCHANGED <<chanOpen, discovered, batch, wpc>>
                 \/ UNCHANGED <<chanOpen, batch, wpc>> /\ pc[w] = "send"
      BY <2>2 DEF WorkerStep, Pop, PopNothing, Fetch, FetchFails, Send, SendGivesUp, Done, writer
    <2>3. CASE Spawn \/ Leave \/ Cancel \/ CloseOnCancel \/ UNCHANGED vars
      BY <2>3 DEF Spawn, Leave, Cancel, CloseOnCancel, vars, writer
    <2>4. CASE Join
      BY <2>4 DEF Join, TypeOK, Proc
    <2>5. CASE WriterStep
      <3>1. CASE Receive
        BY <3>1 DEF Receive, NextWPC
      <3>2. CASE Drained \/ Flush \/ FlushFails
        BY <3>2 DEF Drained, Flush, FlushFails
      <3> QED
        BY <2>5, <3>1, <3>2 DEF WriterStep
    <2> QED
      BY <2>1, <2>2, <2>3, <2>4, <2>5 DEF Next, MainStep, Returned, Proc
  <1>3. (\E w \in Worker : pc[w] = "send") => chanOpen /\ wpc # "ended"
    BY DEF Ending
  <1>4. \A w \in Worker : pc'[w] = "exited" => closed'
    BY <1>1 DEF Moves, Ending
  <1>5. pc'[Main] \in {"flush", "returned"} => \A w \in Worker : pc'[w] = "exited"
    BY <1>1 DEF Moves, Ending
  <1>6. ~chanOpen' => pc'[Main] \in {"flush", "returned"}
    BY <1>1, <1>2 DEF Moves, Ending
  <1>7. wpc' = "ended" => ~chanOpen' /\ discovered' = <<>> /\ batch' = <<>>
    BY <1>2, <1>3 DEF Ending
  <1>8. pc'[Main] = "returned" => wpc' = "ended"
    BY <1>1, <1>2, <1>3 DEF Moves, Ending
  <1> QED
    BY <1>4, <1>5, <1>6, <1>7, <1>8 DEF Ending

\* What the main goroutine does with the seed.
LEMMA MainAddsSeed ==
    ASSUME TypeOK, Undisturbed, Quiet, CountInv, Seeding, AddURLs(Main)
    PROVE  Seeding'
  <1> USE CrawlAssumption DEF TypeOK, Proc, durable, queue, local, writer, control
  <1>1. ~MayFail("redis") /\ ~MayFail("postgres") /\ ~LimitReached
    BY DEF MayFail, LimitReached, Undisturbed, Quiet
  <1>2. SeedPhase /\ ~closed /\ fetched = {} /\ fetched' = fetched
    <2>1. SeedPhase
      BY DEF AddURLs, CheckLimit, SAdd, SAddFails, Push, PushesDone, Upsert, UpsertFails, SeedPhase
    <2>2. fetched' = fetched
      BY DEF AddURLs, CheckLimit, SAdd, SAddFails, Push, PushesDone, Upsert, UpsertFails
    <2> QED
      BY <2>1, <2>2 DEF CountInv, AloneAtFirst, Seeding
  <1>3. CASE CheckLimit(Main)
    <2>1. /\ pc[Main] = "limit" /\ pc'[Main] = "sadd" /\ UNCHANGED <<todo, got, items>>
      BY <1>1, <1>3 DEF CheckLimit, Seeding
    <2> QED
      BY <1>2, <2>1 DEF Seeding, SeedPhase
  <1>4. ASSUME NEW u \in todo[Main], SAdd(Main, u) PROVE Seeding'
    <2>1. pc[Main] = "sadd" /\ todo[Main] = {Seed} /\ got[Main] = {} /\ items = <<>> /\ u = Seed
      BY <1>4 DEF SAdd, Seeding
    <2>2. Won(Main, u) \subseteq {{}, {Seed}}
      BY <1>1, <2>1 DEF Won
    <2>3. /\ visited' = visited \cup {Seed} /\ pc'[Main] = "push" /\ todo'[Main] \in {{}, {Seed}}
          /\ got'[Main] = {} /\ items' = <<>>
      BY <1>4, <2>1, <2>2 DEF SAdd
    <2> QED
      BY <1>2, <2>3 DEF Seeding, SeedPhase
  <1>5. ASSUME NEW u \in todo[Main], Push(Main, u) PROVE Seeding'
    <2>1. /\ pc[Main] = "push" /\ u = Seed /\ todo[Main] \cup got[Main] \subseteq {Seed} /\ Seed \in visited
      BY <1>5 DEF Push, Seeding
    <2>2. pc' \in Signalled(pc) /\ todo'[Main] = todo[Main] \ {u} /\ got'[Main] = got[Main] \cup {u}
          /\ visited' = visited
      BY <1>2, <1>5 DEF Push
    <2>3. pc'[Main] = "push"
      BY <2>1, <2>2, SignalledType
    <2> QED
      BY <1>2, <2>1, <2>2, <2>3 DEF Seeding, SeedPhase
  <1>6. CASE PushesDone(Main)
    <2>1. /\ pc[Main] = "push" /\ visited' = visited /\ items' = items
          /\ pc'[Main] \in {"spawn", "upsert"}
          /\ todo'[Main] \subseteq todo[Main] /\ got'[Main] = got[Main]
      BY <1>6 DEF PushesDone, Return, AfterAdd
    <2> QED
      BY <1>2, <2>1 DEF Seeding, SeedPhase
  <1>7. CASE Upsert(Main)
    <2>1. /\ pc[Main] = "upsert" /\ visited' = visited /\ items' = items
          /\ pc'[Main] = "spawn" /\ todo'[Main] = got[Main] /\ got'[Main] = got[Main]
      BY <1>7 DEF Upsert, Return, AfterAdd
    <2> QED
      BY <1>2, <2>1 DEF Seeding, SeedPhase
  <1>8. CASE SAddFails(Main) \/ UpsertFails(Main)
    BY <1>1, <1>8 DEF SAddFails, UpsertFails
  <1> QED
    BY <1>3, <1>4, <1>5, <1>6, <1>7, <1>8 DEF AddURLs

LEMMA SeedingStep ==
    ASSUME TypeOK, Undisturbed, Quiet, CountInv, Ending, Seeding, [Next]_vars
    PROVE  Seeding'
  <1>1. ASSUME NEW w \in Worker, WorkerStep(w) PROVE Seeding'
    <2>1. pc[w] # "idle"
      BY <1>1 DEF WorkerStep, Pop, PopNothing, Fetch, FetchFails, AddURLs, CheckLimit, SAdd, SAddFails,
         Push, PushesDone, Upsert, UpsertFails, Send, SendGivesUp, Done
    <2>2. ~SeedPhase
      BY <2>1 DEF CountInv, AloneAtFirst
    <2>3. w \in Holding \/ (Pop(w) /\ items # <<>>) \/ PopNothing(w)
      BY <1>1 DEF WorkerStep, Pop, PopNothing, Fetch, FetchFails, AddURLs, CheckLimit, SAdd, SAddFails,
         Push, PushesDone, Upsert, UpsertFails, Send, SendGivesUp, Done, Holding, Busy
    <2>4. visited \subseteq visited'
      BY <1>1 DEF WorkerStep, Pop, PopNothing, Fetch, FetchFails, AddURLs, CheckLimit, SAdd, SAddFails,
         Push, PushesDone, Upsert, UpsertFails, Send, SendGivesUp, Done, durable
    <2>5. seedAdded' = seedAdded
      BY <1>1 DEF WorkerStep, Pop, PopNothing, Fetch, FetchFails, AddURLs, CheckLimit, SAdd, SAddFails,
         Push, PushesDone, Upsert, UpsertFails, Send, SendGivesUp, Done, control
    <2>6. pc'[Main] = pc[Main]
      <3>1. CASE AddURLs(w)
        BY <3>1, AddURLsMoves, CrawlAssumption DEF TypeOK, MainPC, Proc
      <3>2. CASE Done(w)
        BY <3>2, DoneMoves, CrawlAssumption DEF TypeOK, MainPC, Proc
      <3>3. CASE ~AddURLs(w) /\ ~Done(w)
        BY <1>1, <3>3, CrawlAssumption DEF WorkerStep, Pop, PopNothing, Fetch, FetchFails, Send,
           SendGivesUp, TypeOK, Proc
      <3> QED
        BY <3>1, <3>2, <3>3
    <2>7. ASSUME ~seedAdded PROVE items' = <<>> /\ Holding' = {}
      <3>1. items = <<>> /\ Holding = {}
        BY <2>2, <2>7 DEF Seeding
      <3>2. PopNothing(w)
        BY <2>3, <3>1
      <3>3. items' = items /\ pc'[w] \in {"exited", "wait"} /\ \A v \in Worker \ {w} : pc'[v] = pc[v]
        BY <3>2 DEF PopNothing, queue, TypeOK, Proc
      <3> QED
        BY <3>1, <3>3 DEF Holding, Busy
    <2> QED
      BY <2>2, <2>4, <2>5, <2>6, <2>7 DEF Seeding, SeedPhase
  <1>2. CASE AddURLs(Main)
    BY <1>2, MainAddsSeed
  <1>3. CASE Spawn
    <2>1. /\ pc[Main] = "spawn" /\ seedAdded' = (got[Main] # {}) /\ UNCHANGED <<visited, items>>
          /\ pc'[Main] = "join" /\ \A w \in Worker : pc'[w] = "pop"
      BY <1>3, CrawlAssumption DEF Spawn, durable, Proc
    <2>2. Holding' = {}
      BY <2>1 DEF Holding, Busy
    <2> QED
      BY <2>1, <2>2 DEF Seeding, SeedPhase
  <1>4. CASE Join \/ Leave
    <2>1. /\ UNCHANGED <<visited, items, seedAdded>>
          /\ pc[Main] \in {"join", "flush"} /\ pc'[Main] \in {"flush", "returned"}
          /\ \A w \in Worker : pc'[w] = pc[w]
      BY <1>4, CrawlAssumption DEF Join, Leave, durable, queue, control, TypeOK, Proc
    <2>2. Holding' = Holding
      BY <2>1 DEF Holding
    <2> QED
      BY <2>1, <2>2 DEF Seeding, SeedPhase
  <1>5. CASE WriterStep \/ UNCHANGED vars
    <2>1. UNCHANGED <<visited, items, seedAdded, pc, todo, got, fetched>>
      BY <1>5 DEF WriterStep, Receive, Drained, Flush, FlushFails, vars, durable, queue, control, local
    <2>2. Holding' = Holding
      BY <2>1 DEF Holding
    <2> QED
      BY <2>1, <2>2 DEF Seeding, SeedPhase
  <1>6. CASE Cancel \/ CloseOnCancel
    BY <1>6 DEF Cancel, CloseOnCancel, Undisturbed, Quiet
  <1> QED
    BY <1>1, <1>2, <1>3, <1>4, <1>5, <1>6 DEF Next, MainStep, Returned


\* Nothing is pushed to a closed frontier.
LEMMA PushesOpen ==
    ASSUME TypeOK, Undisturbed, Quiet, CountInv, Seeding, NEW p \in Proc, pc[p] = "push"
    PROVE  ~closed
  <1>1. CASE p = Main
    BY <1>1 DEF CountInv, AloneAtFirst, SeedPhase
  <1>2. CASE p # Main
    <2> SUFFICES ASSUME closed PROVE FALSE
      OBVIOUS
    <2>1. p \in Worker /\ p \in Holding
      BY <1>2 DEF Proc, Holding, Busy
    <2>2. Cardinality(Holding) # 0
      BY <2>1, HoldingFinite, FS_EmptySet
    <2>3. outstanding # 0
      BY <2>2, HoldingFinite DEF CountInv, OutstandingExact, TypeOK
    <2>4. Aborted
      BY <2>3 DEF CountInv, ClosedByCount
    <2>5. pc[Main] \in {"join", "flush", "returned"} /\ ~seedAdded
      BY <2>4 DEF Aborted, Quiet
    <2>6. Holding = {}
      BY <2>5 DEF Seeding, SeedPhase
    <2> QED
      BY <2>1, <2>6
  <1> QED
    BY <1>1, <1>2

LEMMA AddURLsTurn ==
    ASSUME TypeOK, Undisturbed, Quiet, CountInv, UniqueInv, Seeding, Requested,
           NEW p \in Proc, AddURLs(p)
    PROVE  Turn
  <1> USE CrawlAssumption DEF TypeOK
  <1>1. ~MayFail("redis") /\ ~MayFail("postgres") /\ ~LimitReached
    BY DEF MayFail, LimitReached, Undisturbed, Quiet
  <1>2. /\ UNCHANGED <<page, fetched, stats>> /\ Sent' = Sent
        /\ todo[p] \subseteq URL
    <2>1. UNCHANGED <<page, fetched, stats, output, batch, discovered>>
      BY DEF AddURLs, CheckLimit, SAdd, SAddFails, Push, PushesDone, Upsert, UpsertFails, durable, writer
    <2> QED
      BY <2>1 DEF Sent
  <1>3. \A R : Return(p, R) => /\ pc'[p] = AfterAdd(p, R) /\ todo'[p] = R /\ got'[p] = R /\ Others(p)
    BY DEF Return, Others, Same, Proc
  <1>4. pc[p] = "limit" => got[p] = {}
    <2>1. CASE p = Main
      BY <2>1 DEF Seeding
    <2>2. CASE p \in Worker
      BY <2>2 DEF Requested
    <2> QED
      BY <2>1, <2>2 DEF Proc
  <1>5. ASSUME CheckLimit(p) PROVE Checks(p) \/ Skips(p)
    <2>1. pc[p] = "limit" /\ got[p] = {} /\ UNCHANGED <<visited, stored, items>>
      BY <1>4, <1>5 DEF CheckLimit, durable, queue
    <2>2. Pooled' = Pooled
      BY <2>1 DEF Pooled
    <2>3. CASE todo[p] = {} /\ Return(p, {})
      <3>1. pc'[p] \in {"spawn", "done"} /\ Others(p)
        BY <1>3, <2>3 DEF AfterAdd
      <3> QED
        BY <1>2, <2>1, <2>2, <2>3, <3>1 DEF Skips, Adding
    <2>4. CASE pc' = [pc EXCEPT ![p] = "sadd"] /\ UNCHANGED <<todo, got>>
      <3>1. pc'[p] = "sadd" /\ Others(p)
        BY <2>4 DEF Others, Same
      <3> QED
        BY <1>2, <2>1, <2>2, <2>4, <3>1 DEF Checks
    <2> QED
      BY <1>1, <1>5, <2>3, <2>4 DEF CheckLimit
  <1>6. ASSUME NEW u \in todo[p], SAdd(p, u) PROVE Adds(p, u)
    <2>1. pc[p] = "sadd" /\ visited' = visited \cup {u} /\ UNCHANGED <<stored, items>>
      BY <1>6 DEF SAdd, queue
    <2>2. Pooled' = Pooled
      BY <2>1 DEF Pooled
    <2>3. Won(p, u) = {Fresh(p, u)}
      BY <1>1 DEF Won, FirstToAdd, Fresh
    <2> DEFINE new == Fresh(p, u)
    <2>4. IF todo[p] = {u}
            THEN /\ pc' = [pc EXCEPT ![p] = "push"] /\ todo' = [todo EXCEPT ![p] = new]
                 /\ got' = [got EXCEPT ![p] = {}]
            ELSE /\ todo' = [todo EXCEPT ![p] = @ \ {u}] /\ got' = [got EXCEPT ![p] = new]
                 /\ UNCHANGED pc
      BY <1>6, <2>3 DEF SAdd
    <2> HIDE DEF new
    <2>5. Others(p)
      BY <2>4 DEF Others, Same
    <2>6. \/ todo[p] = {u} /\ pc'[p] = "push" /\ todo'[p] = new /\ got'[p] = {}
          \/ todo[p] # {u} /\ pc'[p] = "sadd" /\ todo'[p] = todo[p] \ {u} /\ got'[p] = new
      BY <2>1, <2>4
    <2> QED
      BY <1>2, <2>1, <2>2, <2>5, <2>6 DEF Adds, new
  <1>7. ASSUME NEW u \in todo[p], Push(p, u) PROVE Pushes(p, u)
    <2>1. pc[p] = "push" /\ UNCHANGED <<visited, stored>>
      BY <1>7 DEF Push, durable
    <2>2. ~closed
      BY <2>1, PushesOpen
    <2>3. /\ todo' = [todo EXCEPT ![p] = @ \ {u}] /\ items' = Append(items, u) /\ pc' \in Signalled(pc)
          /\ got' = [got EXCEPT ![p] = @ \cup {u}]
      BY <1>7, <2>2 DEF Push
    <2>4. \A q \in Proc : pc'[q] = pc[q] \/ (pc[q] = "wait" /\ pc'[q] = "pop")
      BY <2>3, SignalledType
    <2>5. Others(p) /\ pc'[p] = "push" /\ todo'[p] = todo[p] \ {u} /\ got'[p] = got[p] \cup {u}
      BY <2>1, <2>3, <2>4 DEF Others, Same, Adding
    <2>6. u \notin Pooled /\ Distinct(items)
      <3>1. u \in Claimed(p)
        BY <2>1 DEF Claimed
      <3> QED
        BY <3>1 DEF UniqueInv, ClaimsNew, PooledNew
    <2>7. Pooled' = Pooled \cup {u}
      BY <1>2, <2>3, <2>6, AppendElements DEF Pooled
    <2> QED
      BY <1>2, <2>1, <2>5, <2>7 DEF Pushes
  <1>8. ASSUME PushesDone(p) PROVE Skips(p) \/ Records(p)
    <2>1. pc[p] = "push" /\ todo[p] = {} /\ UNCHANGED <<visited, stored, items>>
      BY <1>8 DEF PushesDone, durable, queue
    <2>2. Pooled' = Pooled
      BY <2>1 DEF Pooled
    <2>3. CASE got[p] = {} /\ Return(p, {})
      <3>1. pc'[p] \in {"spawn", "done"} /\ Others(p)
        BY <1>3, <2>3 DEF AfterAdd
      <3> QED
        BY <1>2, <2>1, <2>2, <2>3, <3>1 DEF Skips, Adding
    <2>4. CASE pc' = [pc EXCEPT ![p] = "upsert"] /\ UNCHANGED <<todo, got>>
      <3>1. pc'[p] = "upsert" /\ Others(p)
        BY <2>4 DEF Others, Same
      <3> QED
        BY <1>2, <2>1, <2>2, <2>4, <3>1 DEF Records
    <2> QED
      BY <1>8, <2>3, <2>4 DEF PushesDone
  <1>9. ASSUME Upsert(p) PROVE Upserts(p)
    <2>1. /\ pc[p] = "upsert" /\ stored' = stored \cup got[p] /\ UNCHANGED <<visited, items>>
          /\ Return(p, got[p])
      BY <1>9 DEF Upsert, queue
    <2>2. Pooled' = Pooled
      BY <2>1 DEF Pooled
    <2>3. pc'[p] = AfterAdd(p, got[p]) /\ todo'[p] = got[p] /\ got'[p] = got[p] /\ Others(p)
      BY <1>3, <2>1
    <2>4. \/ p # Main /\ pc'[p] = "send"
          \/ (p = Main \/ got[p] = {}) /\ pc'[p] \notin Adding
      BY <2>3 DEF AfterAdd, Adding
    <2> QED
      BY <1>2, <2>1, <2>2, <2>3, <2>4 DEF Upserts
  <1>10. ~SAddFails(p) /\ ~UpsertFails(p)
    BY <1>1 DEF SAddFails, UpsertFails
  <1> QED
    BY <1>2, <1>5, <1>6, <1>7, <1>8, <1>9, <1>10 DEF AddURLs, Turn

LEMMA StepTurn ==
    ASSUME TypeOK, Undisturbed, Quiet, CountInv, UniqueInv, EmitInv, Seeding, Requested, [Next]_vars
    PROVE  Turn
  <1> USE CrawlAssumption
  <1>1. \A p \in Proc : AddURLs(p) => Turn
    BY AddURLsTurn
  <1>2. ASSUME \A q \in Proc : Same(q), UNCHANGED <<visited, stored, items, fetched, page, stats>>,
               Sent' = Sent
        PROVE  Turn
    <2>1. Pooled' = Pooled
      BY <1>2 DEF Pooled
    <2> QED
      BY <1>2, <2>1 DEF Turn, Idles
  <1>3. ASSUME NEW w \in Worker, WorkerStep(w), ~AddURLs(w) PROVE Turn
    <2> USE DEF TypeOK, Proc
    <2>1. CASE Pop(w)
      <3> DEFINE u == Head(items)
      <3>1. /\ pc[w] = "pop" /\ pc' = [pc EXCEPT ![w] = "fetch"] /\ items # <<>> /\ items' = Tail(items)
            /\ page' = [page EXCEPT ![w] = u] /\ fetched' = fetched \cup {u}
            /\ UNCHANGED <<visited, stored, stats, todo, got, output, batch, discovered>>
        BY <2>1 DEF Pop, durable, writer
      <3>2. Pooled' = Pooled \ {u} /\ u \in Pooled /\ u \in URL
        BY <3>1, TailElements, SeqType DEF Pooled, UniqueInv, PooledNew
      <3> HIDE DEF u
      <3>3. pc'[w] = "fetch" /\ Others(w) /\ Sent' = Sent
        BY <3>1 DEF Others, Same, Sent
      <3>4. Takes(w, u)
        BY <3>1, <3>2, <3>3 DEF Takes
      <3> QED
        BY <3>2, <3>4 DEF Turn
    <2>2. CASE PopNothing(w)
      <3>1. /\ pc[w] = "pop" /\ \/ pc' = [pc EXCEPT ![w] = "exited"]
                                \/ pc' = [pc EXCEPT ![w] = "wait"]
            /\ UNCHANGED <<visited, stored, items, fetched, page, stats, todo, got, output, batch, discovered>>
        BY <2>2 DEF PopNothing, durable, queue, local, writer
      <3>2. \A q \in Proc : Same(q)
        BY <3>1 DEF Same, Adding
      <3> QED
        BY <1>2, <3>1, <3>2 DEF Sent
    <2>3. CASE Fetch(w)
      <3>1. /\ pc[w] = "fetch" /\ pc' = [pc EXCEPT ![w] = "limit"] /\ stats' = [stats EXCEPT !.Pages = @ + 1]
            /\ todo' = [todo EXCEPT ![w] = Links[page[w]]] /\ got' = [got EXCEPT ![w] = {}]
            /\ UNCHANGED <<visited, stored, items, fetched, page, output, batch, discovered>>
        <4>1. LinksRead(w) = {Links[page[w]]}
          BY DEF LinksRead, MayFail, Undisturbed, Quiet
        <4> QED
          BY <2>3, <4>1 DEF Fetch, durable, queue, writer
      <3>2. /\ pc'[w] = "limit" /\ todo'[w] = Links[page[w]] /\ got'[w] = {} /\ Others(w)
            /\ Sent' = Sent /\ Pooled' = Pooled
        BY <3>1 DEF Others, Same, Sent, Pooled
      <3>3. Fetches(w)
        BY <3>1, <3>2 DEF Fetches
      <3> QED
        BY <3>3 DEF Turn
    <2>4. ASSUME NEW u \in todo[w], Send(w, u) PROVE Turn
      <3>1. /\ pc[w] = "send" /\ discovered' = Append(discovered, u)
            /\ todo' = [todo EXCEPT ![w] = @ \ {u}]
            /\ IF todo[w] = {u}
                 THEN /\ pc' = [pc EXCEPT ![w] = "done"]
                      /\ stats' = [stats EXCEPT !.Links = @ + Cardinality(got[w])]
                 ELSE UNCHANGED <<pc, stats>>
            /\ UNCHANGED <<visited, stored, items, fetched, page, output, batch, got>>
            /\ u \in URL /\ discovered \in Seq(URL)
        BY <2>4 DEF Send, durable, queue
      <3>2. u \notin Elements(discovered) /\ Distinct(discovered)
        <4>1. u \in Owned(w)
          BY <3>1 DEF Owned
        <4> QED
          BY <4>1 DEF EmitInv, OwnedNew, SentApart, Sent
      <3>3. Sent' = Sent \cup {u} /\ Pooled' = Pooled
        BY <3>1, <3>2, AppendElements DEF Sent, Pooled
      <3>4. Others(w)
        BY <3>1 DEF Others, Same
      <3>5. \/ /\ todo[w] = {u} /\ pc'[w] = "done"
               /\ stats' = [stats EXCEPT !.Links = @ + Cardinality(got[w])]
            \/ /\ todo[w] # {u} /\ pc'[w] = "send" /\ UNCHANGED stats
               /\ todo'[w] = todo[w] \ {u} /\ got'[w] = got[w]
        BY <3>1
      <3>6. Sends(w, u)
        BY <3>1, <3>3, <3>4, <3>5 DEF Sends
      <3> QED
        BY <3>1, <3>6 DEF Turn
    <2>5. CASE Done(w)
      <3>1. /\ todo' = [todo EXCEPT ![w] = {}] /\ got' = [got EXCEPT ![w] = {}]
            /\ UNCHANGED <<visited, stored, items, fetched, page, stats, output, batch, discovered>>
        BY <2>5 DEF Done, durable, writer
      <3>2. \A q \in Proc : Same(q)
        BY <2>5, <3>1, DoneMoves DEF Same, Adding
      <3> QED
        BY <1>2, <3>1, <3>2 DEF Sent
    <2>6. ~FetchFails(w) /\ ~SendGivesUp(w)
      BY DEF FetchFails, SendGivesUp, MayFail, Undisturbed, Quiet
    <2> QED
      BY <1>3, <2>1, <2>2, <2>3, <2>4, <2>5, <2>6 DEF WorkerStep
  <1>4. CASE Spawn \/ Join \/ Leave
    <2> USE DEF TypeOK, Proc
    <2>1. UNCHANGED <<visited, stored, items, fetched, page, stats, todo, got, output, batch, discovered>>
      BY <1>4 DEF Spawn, Join, Leave, durable, queue, local, writer
    <2>2. \A q \in Proc : Same(q)
      <3>1. CASE Spawn
        <4>1. /\ \A w \in Worker : pc[w] = "idle" /\ pc'[w] = "pop"
              /\ pc[Main] = "spawn" /\ pc'[Main] = "join"
          BY <3>1 DEF Spawn, CountInv, AloneAtFirst, SeedPhase
        <4> QED
          BY <4>1 DEF Same, Adding
      <3>2. CASE Join \/ Leave
        <4>1. /\ pc[Main] \in {"join", "flush"} /\ pc'[Main] \in {"flush", "returned"}
              /\ \A w \in Worker : pc'[w] = pc[w]
              /\ todo' = todo /\ got' = got
          BY <3>2 DEF Join, Leave, local
        <4>2. pc[Main] \notin Adding /\ pc'[Main] \notin Adding
          BY <4>1 DEF Adding
        <4> QED
          BY <4>1, <4>2 DEF Same
      <3> QED
        BY <1>4, <3>1, <3>2
    <2> QED
      BY <1>2, <2>1, <2>2 DEF Sent
  <1>5. CASE WriterStep \/ UNCHANGED vars
    <2>1. UNCHANGED <<visited, stored, items, fetched, page, stats, todo, got, pc>>
      BY <1>5 DEF WriterStep, Receive, Drained, Flush, FlushFails, vars, durable, queue, local
    <2>2. \A q \in Proc : Same(q)
      BY <2>1 DEF Same
    <2>3. /\ output \in Seq(URL) /\ batch \in Seq(URL) /\ discovered \in Seq(URL)
          /\ Distinct(output) /\ Distinct(batch) /\ Distinct(discovered)
          /\ Elements(output) \cap Elements(batch) = {}
          /\ Elements(discovered) \cap (Elements(output) \cup Elements(batch)) = {}
      BY DEF TypeOK, EmitInv, SentApart
    <2>4. CASE Receive
      <3> DEFINE u == Head(discovered)
      <3>1. /\ discovered # <<>> /\ batch' = Append(batch, u) /\ discovered' = Tail(discovered)
            /\ output' = output
        BY <2>4 DEF Receive, durable
      <3>2. Elements(discovered') = Elements(discovered) \ {u} /\ u \in Elements(discovered) /\ u \in URL
        BY <2>3, <3>1, TailElements, SeqType
      <3> HIDE DEF u
      <3>3. Elements(batch') = Elements(batch) \cup {u}
        BY <2>3, <3>1, <3>2, AppendElements
      <3>4. Sent' = Sent
        BY <3>1, <3>2, <3>3 DEF Sent
      <3> QED
        BY <1>2, <2>1, <2>2, <3>4
    <2>5. CASE Flush
      <3>1. output' = output \o batch /\ batch' = <<>> /\ discovered' = discovered
        BY <2>5 DEF Flush
      <3>2. Elements(<<>>) = {}
        BY EmptySeqLen DEF Elements
      <3>3. Elements(output \o batch) = Elements(output) \cup Elements(batch)
        BY <2>3, ConcatElements
      <3>4. Sent' = Sent
        BY <3>1, <3>2, <3>3 DEF Sent
      <3> QED
        BY <1>2, <2>1, <2>2, <3>4
    <2>6. CASE Drained \/ UNCHANGED vars
      <3>1. UNCHANGED <<output, batch, discovered>>
        BY <2>6 DEF Drained, vars, durable, writer
      <3> QED
        BY <1>2, <2>1, <2>2, <3>1 DEF Sent
    <2>7. ~FlushFails
      BY DEF FlushFails, MayFail, Undisturbed, Quiet
    <2> QED
      BY <1>5, <2>4, <2>5, <2>6, <2>7 DEF WriterStep
  <1>6. CASE Cancel \/ CloseOnCancel
    BY <1>6 DEF Cancel, CloseOnCancel, Undisturbed, Quiet
  <1> QED
    BY <1>1, <1>3, <1>4, <1>5, <1>6 DEF Next, MainStep, Returned, Proc


LEMMA SameClaims == ASSUME NEW q, Same(q) PROVE Claimed(q)' = Claimed(q)
  BY DEF Same, Claimed, Adding

LEMMA TurnGrows ==
    ASSUME Turn
    PROVE  visited \subseteq visited' /\ Pooled \cup fetched \subseteq Pooled' \cup fetched' /\ Sent \subseteq Sent'
  <1>1. ASSUME NEW p \in Proc, Checks(p) \/ Skips(p) \/ Records(p) \/ Upserts(p)
        PROVE  UNCHANGED <<visited, Pooled, fetched, Sent>>
    BY <1>1 DEF Checks, Skips, Records, Upserts
  <1>2. ASSUME NEW p \in Proc, NEW u \in URL, Adds(p, u) \/ Pushes(p, u)
        PROVE  UNCHANGED <<fetched, Sent>> /\ visited \subseteq visited' /\ Pooled \subseteq Pooled'
    BY <1>2 DEF Adds, Pushes
  <1>3. ASSUME NEW w \in Worker, Fetches(w)
        PROVE  UNCHANGED <<visited, Pooled, fetched, Sent>>
    BY <1>3 DEF Fetches
  <1>4. ASSUME NEW w \in Worker, NEW u \in URL, Takes(w, u) \/ Sends(w, u)
        PROVE  /\ visited \subseteq visited' /\ Pooled \cup fetched \subseteq Pooled' \cup fetched'
               /\ Sent \subseteq Sent'
    BY <1>4 DEF Takes, Sends
  <1>5. CASE Idles
    BY <1>5 DEF Idles
  <1> QED
    BY <1>1, <1>2, <1>3, <1>4, <1>5 DEF Turn

LEMMA AccountedTurn ==
    ASSUME UniqueInv, Accounted, Turn, before' = before
    PROVE  Accounted'
  <1> DEFINE all == Pooled \cup fetched
  <1>1. ASSUME UNCHANGED visited, all' = all, \A p \in Proc : Claimed(p)' = Claimed(p)
        PROVE  Accounted'
    BY <1>1 DEF Accounted
  <1>2. ASSUME NEW p \in Proc, Checks(p) \/ Skips(p) \/ Records(p) \/ Upserts(p)
        PROVE  Accounted'
    <2>1. UNCHANGED <<visited, Pooled, fetched>> /\ Others(p)
      BY <1>2 DEF Checks, Skips, Records, Upserts
    <2>2. Claimed(p)' = Claimed(p)
      BY <1>2 DEF Checks, Skips, Records, Upserts, Claimed, Adding
    <2>3. \A q \in Proc : Claimed(q)' = Claimed(q)
      BY <2>1, <2>2, SameClaims DEF Others
    <2> QED
      BY <1>1, <2>1, <2>3
  <1>3. ASSUME NEW p \in Proc, NEW u \in URL, Adds(p, u) PROVE Accounted'
    <2>1. UNCHANGED <<Pooled, fetched>> /\ Others(p) /\ visited' = visited \cup {u}
      BY <1>3 DEF Adds
    <2>2. Claimed(p)' = IF u \in visited THEN Claimed(p) ELSE Claimed(p) \cup {u}
      BY <1>3 DEF Adds, Fresh, Claimed
    <2>3. \A q \in Proc \ {p} : Claimed(q)' = Claimed(q)
      BY <2>1, SameClaims DEF Others
    <2> QED
      BY <2>1, <2>2, <2>3 DEF Accounted
  <1>4. ASSUME NEW p \in Proc, NEW u \in URL, Pushes(p, u) PROVE Accounted'
    <2>1. UNCHANGED <<visited, fetched>> /\ Others(p) /\ Pooled' = Pooled \cup {u}
      BY <1>4 DEF Pushes
    <2>2. Claimed(p)' = Claimed(p) \ {u} /\ u \in Claimed(p)
      BY <1>4 DEF Pushes, Claimed
    <2>3. \A q \in Proc \ {p} : Claimed(q)' = Claimed(q)
      BY <2>1, SameClaims DEF Others
    <2> QED
      BY <2>1, <2>2, <2>3 DEF Accounted
  <1>5. ASSUME NEW w \in Worker, \/ Fetches(w)
                                 \/ \E u \in URL : Takes(w, u) \/ Sends(w, u)
        PROVE  Accounted'
    <2>1. UNCHANGED visited /\ Others(w) /\ all' = all
      BY <1>5 DEF Fetches, Takes, Sends
    <2>2. Claimed(w)' = Claimed(w)
      BY <1>5 DEF Fetches, Takes, Sends, Claimed
    <2>3. \A q \in Proc : Claimed(q)' = Claimed(q)
      BY <2>1, <2>2, SameClaims DEF Others
    <2> QED
      BY <1>1, <2>1, <2>3
  <1>6. CASE Idles
    <2>1. UNCHANGED <<visited, Pooled, fetched>> /\ \A q \in Proc : Same(q)
      BY <1>6 DEF Idles
    <2> QED
      BY <1>1, <2>1, SameClaims
  <1> QED
    BY <1>2, <1>3, <1>4, <1>5, <1>6 DEF Turn

\* What a worker is about to add are links of its page, before and after.
LEMMA FoundTurn ==
    ASSUME TypeOK, UniqueInv, Seeding, Accounted, Found, Turn, before' = before
    PROVE  Found'
  <1> DEFINE Near(w) == pc[w] \in {"limit", "sadd"} => todo[w] \subseteq Links[page[w]]
  <1>1. Reachable' = Reachable /\ \A w \in Worker : Near(w)
    BY DEF Reachable, Found
  <1>2. ASSUME visited' \subseteq visited \cup Reachable, \A w \in Worker : Near(w)' PROVE Found'
    BY <1>1, <1>2 DEF Found
  <1>3. ASSUME NEW q \in Worker, Same(q), page'[q] = page[q] PROVE Near(q)'
    BY <1>1, <1>3 DEF Same, Adding
  <1>4. Worker \subseteq Proc /\ page \in [Worker -> URL]
    BY DEF Proc, TypeOK
  <1>5. ASSUME NEW p \in Proc, Checks(p) \/ Skips(p) \/ Records(p) \/ Upserts(p)
        PROVE  Found'
    <2>1. UNCHANGED <<visited, page>> /\ Others(p)
      BY <1>5 DEF Checks, Skips, Records, Upserts
    <2>2. p \in Worker => Near(p)'
      BY <1>1, <1>5 DEF Checks, Skips, Records, Upserts, Adding
    <2> QED
      BY <1>2, <1>3, <1>4, <2>1, <2>2 DEF Others
  <1>6. ASSUME NEW p \in Proc, NEW u \in URL, Adds(p, u) PROVE Found'
    <2>1. /\ pc[p] = "sadd" /\ u \in todo[p] /\ visited' = visited \cup {u} /\ UNCHANGED page
          /\ Others(p) /\ (pc'[p] = "push" \/ todo'[p] \subseteq todo[p])
      BY <1>6 DEF Adds
    <2>2. p \in Worker => Near(p)'
      BY <1>1, <2>1
    <2>3. u \in before \cup Reachable
      <3>1. CASE p = Main
        BY <2>1, <3>1, ReachableClosed DEF Seeding
      <3>2. CASE p \in Worker
        <4>1. page[p] \in fetched /\ u \in Links[page[p]]
          BY <1>1, <2>1, <3>2 DEF UniqueInv, PagesApart, Holding, Busy
        <4>2. page[p] \in Reachable
          BY <4>1 DEF UniqueInv, PooledNew, Accounted, Found
        <4> QED
          BY <4>1, <4>2, ReachableClosed
      <3> QED
        BY <3>1, <3>2 DEF Proc
    <2>4. visited' \subseteq visited \cup Reachable
      BY <2>1, <2>3 DEF Accounted
    <2> QED
      BY <1>2, <1>3, <1>4, <2>1, <2>2, <2>4 DEF Others
  <1>7. ASSUME NEW p \in Proc, NEW u \in URL, Pushes(p, u) PROVE Found'
    <2>1. UNCHANGED <<visited, page>> /\ Others(p) /\ pc'[p] = "push"
      BY <1>7 DEF Pushes
    <2> QED
      BY <1>2, <1>3, <1>4, <2>1 DEF Others
  <1>8. ASSUME NEW w \in Worker, \/ Fetches(w)
                                 \/ \E u \in URL : Takes(w, u) \/ Sends(w, u)
        PROVE  Found'
    <2>1. UNCHANGED visited /\ Others(w) /\ \A q \in Worker \ {w} : page'[q] = page[q]
      BY <1>4, <1>8 DEF Fetches, Takes, Sends
    <2>2. Near(w)'
      BY <1>8 DEF Fetches, Takes, Sends
    <2> QED
      BY <1>2, <1>3, <1>4, <2>1, <2>2 DEF Others
  <1>9. CASE Idles
    <2>1. UNCHANGED <<visited, page>> /\ \A q \in Proc : Same(q)
      BY <1>9 DEF Idles
    <2> QED
      BY <1>2, <1>3, <1>4, <2>1
  <1> QED
    BY <1>5, <1>6, <1>7, <1>8, <1>9 DEF Turn

\* A worker sees to the links of the page it fetched.
LEMMA FollowedTurn ==
    ASSUME TypeOK, Followed, Turn
    PROVE  Followed'
  <1> DEFINE Sees(w, u) == /\ page[w] = u
                           /\ \/ pc[w] = "fetch"
                              \/ pc[w] \in {"limit", "sadd"} /\ Links[u] \subseteq visited \cup todo[w]
             Cared(u) == Links[u] \subseteq visited \/ \E w \in Worker : Sees(w, u)
  <1>1. visited \subseteq visited' /\ \A u \in fetched : Cared(u)
    BY TurnGrows DEF Followed
  <1>2. ASSUME \A u \in fetched' : Cared(u)' PROVE Followed'
    BY <1>2 DEF Followed
  <1>3. ASSUME NEW q \in Worker, NEW u, Same(q), page'[q] = page[q], Sees(q, u) PROVE Sees(q, u)'
    BY <1>1, <1>3 DEF Same, Adding
  <1>4. Worker \subseteq Proc /\ page \in [Worker -> URL]
    BY DEF Proc, TypeOK
  <1>5. ASSUME NEW w \in Worker, Others(w), fetched' = fetched,
               \A q \in Worker \ {w} : page'[q] = page[q],
               \A u \in fetched : Sees(w, u) => Sees(w, u)' \/ Links[u] \subseteq visited'
        PROVE  Followed'
    <2> HIDE DEF Sees
    <2>1. \A q \in Worker, u \in fetched : Sees(q, u) => Sees(q, u)' \/ Links[u] \subseteq visited'
      BY <1>3, <1>4, <1>5 DEF Others
    <2> QED
      BY <1>1, <1>2, <1>5, <2>1
  <1>6. ASSUME \A q \in Worker : Same(q), fetched' = fetched, page' = page
        PROVE  Followed'
    <2> HIDE DEF Sees
    <2>1. \A q \in Worker, u \in fetched : Sees(q, u) => Sees(q, u)'
      BY <1>3, <1>6
    <2> QED
      BY <1>1, <1>2, <1>6, <2>1
  <1>7. CASE \E p \in Proc : \/ Checks(p) \/ Skips(p) \/ Records(p) \/ Upserts(p)
                             \/ \E u \in URL : Adds(p, u) \/ Pushes(p, u)
    <2>1. PICK p \in Proc : \/ Checks(p) \/ Skips(p) \/ Records(p) \/ Upserts(p)
                            \/ \E u \in URL : Adds(p, u) \/ Pushes(p, u)
      BY <1>7
    <2>2. fetched' = fetched /\ page' = page /\ Others(p)
      BY <2>1 DEF Checks, Skips, Records, Upserts, Adds, Pushes
    <2>3. CASE p = Main
      BY <1>6, <2>2, <2>3, CrawlAssumption DEF Others, Proc
    <2>4. CASE p \in Worker
      <3>1. ASSUME NEW u, Sees(p, u) PROVE Sees(p, u)' \/ Links[u] \subseteq visited'
        <4>1. CASE Checks(p) \/ Skips(p) \/ Records(p) \/ Upserts(p)
          BY <1>1, <2>2, <3>1, <4>1 DEF Checks, Skips, Records, Upserts
        <4>2. ASSUME NEW v \in URL, Adds(p, v) PROVE Sees(p, u)' \/ Links[u] \subseteq visited'
          BY <1>1, <2>2, <3>1, <4>2 DEF Adds
        <4>3. ASSUME NEW v \in URL, Pushes(p, v) PROVE FALSE
          BY <3>1, <4>3 DEF Pushes
        <4> QED
          BY <2>1, <4>1, <4>2, <4>3
      <3> HIDE DEF Sees
      <3> QED
        BY <1>5, <2>2, <2>4, <3>1
    <2> QED
      BY <2>3, <2>4 DEF Proc
  <1>8. ASSUME NEW w \in Worker, Fetches(w) PROVE Followed'
    <2>1. Others(w) /\ fetched' = fetched /\ page' = page
          /\ pc'[w] = "limit" /\ todo'[w] = Links[page[w]]
      BY <1>8 DEF Fetches
    <2>2. \A u : Sees(w, u) => Sees(w, u)'
      BY <2>1
    <2> HIDE DEF Sees
    <2> QED
      BY <1>5, <2>1, <2>2
  <1>9. ASSUME NEW w \in Worker, NEW v \in URL, Takes(w, v) PROVE Followed'
    <2>1. /\ Others(w) /\ fetched' = fetched \cup {v} /\ pc[w] = "pop" /\ pc'[w] = "fetch"
          /\ page'[w] = v /\ \A q \in Worker \ {w} : page'[q] = page[q]
      BY <1>4, <1>9 DEF Takes
    <2>2. Sees(w, v)' /\ \A u : ~Sees(w, u)
      BY <2>1
    <2> HIDE DEF Sees
    <2>3. \A q \in Worker, u \in fetched : Sees(q, u) => Sees(q, u)'
      BY <1>3, <1>4, <2>1, <2>2 DEF Others
    <2> QED
      BY <1>1, <1>2, <2>1, <2>2, <2>3
  <1>10. ASSUME NEW w \in Worker, NEW v \in URL, Sends(w, v) PROVE Followed'
    <2>1. Others(w) /\ fetched' = fetched /\ page' = page /\ pc[w] = "send"
      BY <1>10 DEF Sends
    <2>2. \A u : ~Sees(w, u)
      BY <2>1
    <2> HIDE DEF Sees
    <2> QED
      BY <1>5, <2>1, <2>2
  <1>11. CASE Idles
    BY <1>4, <1>6, <1>11 DEF Idles
  <1> QED
    BY <1>7, <1>8, <1>9, <1>10, <1>11 DEF Turn


\* The four things Requested says of a worker that adds links.
SeedKept(w) ==
    /\ pc[w] \in {"limit", "sadd", "push", "upsert", "send"} => Seed \notin got[w]
    /\ pc[w] = "push" => Seed \notin todo[w]
    /\ pc[w] = "limit" => got[w] = {}
    /\ pc[w] = "send" => todo[w] \subseteq got[w] /\ got[w] \subseteq Sent \cup todo[w]

\* What goroutine `p` got was pushed.
GotPushed(p) == pc[p] \in {"push", "upsert", "send"} => got[p] \subseteq Pooled \cup fetched

\* Worker `w` is going to send `u`.
WillSend(w, u) == pc[w] \in {"push", "upsert", "send"} /\ u \in got[w]

LEMMA RequestedParts ==
    Requested <=> /\ Seed \in stored /\ stored \subseteq {Seed} \cup Pooled \cup fetched
                  /\ Sent \subseteq (Pooled \cup fetched) \ {Seed}
                  /\ \A p \in Proc : GotPushed(p)
                  /\ \A w \in Worker : SeedKept(w)
                  /\ \A u \in (Pooled \cup fetched) \ {Seed} :
                        u \in Sent \/ \E w \in Worker : WillSend(w, u)
  BY DEF Requested, GotPushed, SeedKept, WillSend

LEMMA SameKept ==
    ASSUME NEW q, Same(q), Turn
    PROVE  /\ GotPushed(q) => GotPushed(q)'
           /\ SeedKept(q) => SeedKept(q)'
           /\ \A u : WillSend(q, u) => WillSend(q, u)'
  <1>1. Pooled \cup fetched \subseteq Pooled' \cup fetched' /\ Sent \subseteq Sent'
    BY TurnGrows
  <1> QED
    BY <1>1 DEF Same, Adding, GotPushed, SeedKept, WillSend

\* Nothing new was pushed, and goroutine `p` alone moved.
LEMMA RequestedKept ==
    ASSUME Requested, Turn, Pooled' \cup fetched' = Pooled \cup fetched, NEW p \in Proc, Others(p),
           Seed \in stored', stored' \subseteq {Seed} \cup Pooled \cup fetched,
           Sent' \subseteq (Pooled \cup fetched) \ {Seed},
           GotPushed(p)', p \in Worker => SeedKept(p)',
           \A u : p \in Worker /\ WillSend(p, u) => u \in Sent' \/ WillSend(p, u)'
    PROVE  Requested'
  <1>1. \A q \in Proc \ {p} : Same(q)
    BY DEF Others
  <1>2. \A q \in Proc : GotPushed(q)'
    BY <1>1, SameKept, RequestedParts
  <1>3. \A w \in Worker : SeedKept(w)'
    BY <1>1, SameKept, RequestedParts DEF Proc
  <1>4. Sent \subseteq Sent'
    BY TurnGrows
  <1>5. ASSUME NEW u \in (Pooled' \cup fetched') \ {Seed}
        PROVE  u \in Sent' \/ \E w \in Worker : WillSend(w, u)'
    <2>1. u \in Sent \/ \E w \in Worker : WillSend(w, u)
      BY <1>5, RequestedParts
    <2>2. \A w \in Worker : WillSend(w, u) => u \in Sent' \/ WillSend(w, u)'
      BY <1>1, SameKept DEF Proc
    <2> QED
      BY <1>4, <2>1, <2>2
  <1> QED
    BY <1>2, <1>3, <1>5 DEF Requested, GotPushed, SeedKept, WillSend

LEMMA RequestedTurn ==
    ASSUME TypeOK, CountInv, UniqueInv, Seeding, Requested, Turn
    PROVE  Requested'
  <1> DEFINE all == Pooled \cup fetched
  <1>1. /\ Seed \in stored /\ stored \subseteq {Seed} \cup all /\ Sent \subseteq all \ {Seed}
        /\ \A p \in Proc : GotPushed(p)
        /\ \A w \in Worker : SeedKept(w)
    BY RequestedParts
  <1>2. Worker \subseteq Proc /\ Main \notin Worker
    BY CrawlAssumption DEF Proc
  <1>3. ASSUME NEW p \in Proc, Checks(p) \/ Skips(p) \/ Records(p) PROVE Requested'
    <2>1. UNCHANGED <<stored, Pooled, fetched, Sent>> /\ Others(p)
      BY <1>3 DEF Checks, Skips, Records
    <2>2. GotPushed(p)'
      BY <1>1, <1>3 DEF Checks, Skips, Records, GotPushed, Adding
    <2>3. p \in Worker => SeedKept(p)'
      BY <1>1, <1>3 DEF Checks, Skips, Records, SeedKept, Adding
    <2>4. \A u : WillSend(p, u) => WillSend(p, u)'
      BY <1>3 DEF Checks, Skips, Records, WillSend
    <2> QED
      BY <1>1, <2>1, <2>2, <2>3, <2>4, RequestedKept
  <1>4. ASSUME NEW p \in Proc, Upserts(p) PROVE Requested'
    <2>1. UNCHANGED <<Pooled, fetched, Sent>> /\ Others(p) /\ stored' = stored \cup got[p]
      BY <1>4 DEF Upserts
    <2>2. pc[p] = "upsert" /\ got[p] \subseteq all
      BY <1>1, <1>4 DEF Upserts, GotPushed
    <2>3. GotPushed(p)'
      BY <1>4, <2>1, <2>2 DEF Upserts, GotPushed, Adding
    <2>4. p \in Worker => SeedKept(p)'
      BY <1>1, <1>2, <1>4, <2>2 DEF Upserts, SeedKept, Adding
    <2>5. \A u : p \in Worker /\ WillSend(p, u) => WillSend(p, u)'
      BY <1>2, <1>4 DEF Upserts, WillSend
    <2>6. Seed \in stored' /\ stored' \subseteq {Seed} \cup all
      BY <1>1, <2>1, <2>2
    <2> QED
      BY <1>1, <2>1, <2>3, <2>4, <2>5, <2>6, RequestedKept
  <1>5. ASSUME NEW p \in Proc, NEW v \in URL, Adds(p, v) PROVE Requested'
    <2>1. UNCHANGED <<stored, Pooled, fetched, Sent>> /\ Others(p) /\ pc[p] = "sadd"
      BY <1>5 DEF Adds
    <2>2. GotPushed(p)'
      BY <1>5 DEF Adds, GotPushed
    <2>3. p \in Worker => SeedKept(p)'
      <3> SUFFICES ASSUME p \in Worker PROVE SeedKept(p)'
        OBVIOUS
      <3>1. Seed \in visited
        BY <2>1 DEF CountInv, AloneAtFirst, SeedPhase, Seeding
      <3>2. Seed \notin Fresh(p, v)
        BY <1>1, <2>1, <3>1 DEF Fresh, SeedKept
      <3> QED
        BY <1>5, <3>2 DEF Adds, SeedKept
    <2>4. \A u : ~WillSend(p, u)
      BY <2>1 DEF WillSend
    <2> QED
      BY <1>1, <2>1, <2>2, <2>3, <2>4, RequestedKept
  <1>6. ASSUME NEW p \in Proc, NEW v \in URL, Pushes(p, v) PROVE Requested'
    <2>1. /\ UNCHANGED <<stored, fetched, Sent>> /\ Others(p) /\ Pooled' = Pooled \cup {v}
          /\ pc[p] = "push" /\ pc'[p] = "push" /\ v \in todo[p]
          /\ todo'[p] = todo[p] \ {v} /\ got'[p] = got[p] \cup {v}
      BY <1>6 DEF Pushes
    <2>2. \A q \in Proc : GotPushed(q)'
      <3>1. GotPushed(p)'
        BY <1>1, <2>1 DEF GotPushed
      <3> QED
        BY <1>1, <2>1, <3>1, SameKept DEF Others
    <2>3. \A w \in Worker : SeedKept(w)'
      <3>1. p \in Worker => SeedKept(p)'
        BY <1>1, <2>1 DEF SeedKept
      <3> QED
        BY <1>1, <1>2, <2>1, <3>1, SameKept DEF Others
    <2>4. \A w \in Worker : \A u : WillSend(w, u) => WillSend(w, u)'
      <3>1. \A u : WillSend(p, u) => WillSend(p, u)'
        BY <2>1 DEF WillSend
      <3> QED
        BY <1>2, <2>1, <3>1, SameKept DEF Others
    <2>5. v = Seed \/ \E w \in Worker : WillSend(w, v)'
      <3>1. CASE p = Main
        BY <2>1, <3>1 DEF Seeding
      <3>2. CASE p \in Worker
        <4>1. WillSend(p, v)'
          BY <2>1 DEF WillSend
        <4> QED
          BY <3>2, <4>1
      <3> QED
        BY <3>1, <3>2 DEF Proc
    <2>6. \A u \in (Pooled' \cup fetched') \ {Seed} : u \in Sent' \/ \E w \in Worker : WillSend(w, u)'
      BY <2>1, <2>4, <2>5, RequestedParts
    <2>7. /\ Seed \in stored' /\ stored' \subseteq {Seed} \cup Pooled' \cup fetched'
          /\ Sent' \subseteq (Pooled' \cup fetched') \ {Seed}
      BY <1>1, <2>1
    <2> QED
      BY <2>2, <2>3, <2>6, <2>7 DEF Requested, GotPushed, SeedKept, WillSend
  <1>7. ASSUME NEW w \in Worker, Fetches(w) \/ \E u \in URL : Takes(w, u) PROVE Requested'
    <2>1. /\ UNCHANGED <<stored, Sent>> /\ Others(w) /\ all' = all
          /\ pc[w] \in {"fetch", "pop"} /\ (pc'[w] = "fetch" \/ (pc'[w] = "limit" /\ got'[w] = {}))
      BY <1>7 DEF Fetches, Takes
    <2>2. GotPushed(w)' /\ SeedKept(w)' /\ \A u : ~WillSend(w, u)
      BY <2>1 DEF GotPushed, SeedKept, WillSend
    <2> QED
      BY <1>1, <1>2, <2>1, <2>2, RequestedKept
  <1>8. ASSUME NEW w \in Worker, NEW v \in URL, Sends(w, v) PROVE Requested'
    <2>1. UNCHANGED <<stored, Pooled, fetched>> /\ Others(w) /\ pc[w] = "send" /\ v \in todo[w]
          /\ Sent' = Sent \cup {v}
      BY <1>8 DEF Sends
    <2>2. /\ Seed \notin got[w] /\ got[w] \subseteq all /\ todo[w] \subseteq got[w]
          /\ got[w] \subseteq Sent \cup todo[w]
      BY <1>1, <1>2, <2>1 DEF SeedKept, GotPushed
    <2>3. GotPushed(w)'
      BY <1>8, <2>1, <2>2 DEF Sends, GotPushed
    <2>4. SeedKept(w)'
      BY <1>8, <2>1, <2>2 DEF Sends, SeedKept
    <2>5. \A u : WillSend(w, u) => u \in Sent' \/ WillSend(w, u)'
      BY <1>8, <2>1, <2>2 DEF Sends, WillSend
    <2>6. Sent' \subseteq all \ {Seed}
      BY <1>1, <2>1, <2>2
    <2> QED
      BY <1>1, <1>2, <2>1, <2>3, <2>4, <2>5, <2>6, RequestedKept
  <1>9. CASE Idles
    <2>1. UNCHANGED <<stored, Pooled, fetched, Sent>> /\ \A q \in Proc : Same(q)
      BY <1>9 DEF Idles
    <2>2. /\ \A q \in Proc : GotPushed(q)'
          /\ \A w \in Worker : SeedKept(w)' /\ \A u : WillSend(w, u) => WillSend(w, u)'
      BY <1>1, <1>2, <2>1, SameKept
    <2> QED
      BY <1>1, <2>1, <2>2 DEF Requested, GotPushed, SeedKept, WillSend
  <1> QED
    BY <1>3, <1>4, <1>5, <1>6, <1>7, <1>8, <1>9 DEF Turn


\* No two workers send the same URL.
SendsApart == \A v, w \in Worker : pc[v] = "send" /\ pc[w] = "send" /\ v # w => got[v] \cap got[w] = {}

LEMMA CountedFinite ==
    ASSUME TypeOK
    PROVE  /\ IsFiniteSet(fetched) /\ Cardinality(fetched) \in Nat
           /\ IsFiniteSet(Fetching) /\ Cardinality(Fetching) \in Nat
           /\ \A w \in Worker : IsFiniteSet(got[w]) /\ Cardinality(got[w]) \in Nat
  <1>1. fetched \subseteq URL /\ Fetching \subseteq Worker /\ \A w \in Worker : got[w] \subseteq URL
    BY DEF TypeOK, Fetching, Proc
  <1> QED
    BY <1>1, CrawlAssumption, FS_Subset, FS_CardinalityType

LEMMA ReportedFinite ==
    ASSUME TypeOK, UniqueInv, Requested
    PROVE  IsFiniteSet(Reported) /\ Cardinality(Reported) \in Nat
  <1>1. Reported \subseteq URL
    BY DEF Reported, Requested, UniqueInv, PooledNew, TypeOK
  <1> QED
    BY <1>1, CrawlAssumption, FS_Subset, FS_CardinalityType

\* A step after which the same workers fetch and send what they did before.
LEMMA CountedKept ==
    ASSUME Counted, UNCHANGED <<stats, fetched, Sent>>,
           \A w \in Worker : /\ pc'[w] = "fetch" <=> pc[w] = "fetch"
                             /\ pc'[w] = "send" <=> pc[w] = "send"
                             /\ pc[w] = "send" => got'[w] = got[w]
    PROVE  Counted'
  <1>1. Fetching' = Fetching /\ Reported' = Reported
    BY DEF Fetching, Reported
  <1> QED
    BY <1>1 DEF Counted

LEMMA UpsertsCounted ==
    ASSUME TypeOK, EmitInv, Requested, Counted, NEW w \in Worker, Upserts(w)
    PROVE  Counted'
  <1>1. /\ UNCHANGED <<stats, fetched, Sent>> /\ pc[w] = "upsert" /\ pc'[w] # "fetch"
        /\ pc'[w] # "send" \/ (pc'[w] = "send" /\ got'[w] = got[w])
        /\ \A q \in Worker \ {w} : Same(q)
    BY DEF Upserts, Others, Proc, Adding
  <1>2. /\ \A q \in Worker : pc'[q] = "fetch" <=> pc[q] = "fetch"
        /\ \A q \in Worker \ {w} : /\ pc'[q] = "send" <=> pc[q] = "send"
                                   /\ pc[q] = "send" => got'[q] = got[q]
    BY <1>1 DEF Same, Adding
  <1>3. got[w] \cap Sent = {} /\ \A v \in Worker \ {w} : pc[v] = "send" => got[w] \cap got[v] = {}
    <2>1. Owned(w) = got[w] /\ w \in Proc
      BY <1>1 DEF Owned, Proc
    <2>2. ASSUME NEW v \in Worker \ {w}, pc[v] = "send" PROVE got[w] \cap got[v] = {}
      <3>1. Owned(v) = todo[v] /\ v \in Proc /\ got[v] \subseteq Sent \cup todo[v]
        BY <2>2 DEF Owned, Proc, Requested
      <3> QED
        BY <2>1, <3>1 DEF EmitInv, OwnedNew, OwnedApart
    <2> QED
      BY <2>1, <2>2 DEF EmitInv, OwnedNew
  <1>4. Fetching' = Fetching
    BY <1>2 DEF Fetching
  <1>5. Reported' = Reported
    BY <1>1, <1>2, <1>3 DEF Reported
  <1>6. SendsApart'
    BY <1>1, <1>2, <1>3 DEF SendsApart, Counted
  <1> QED
    BY <1>1, <1>4, <1>5, <1>6 DEF Counted, SendsApart

LEMMA FetchesCounted ==
    ASSUME TypeOK, Counted, NEW w \in Worker, Fetches(w)
    PROVE  Counted'
  <1>1. /\ UNCHANGED <<fetched, Sent>> /\ pc[w] = "fetch" /\ pc'[w] = "limit"
        /\ stats' = [stats EXCEPT !.Pages = @ + 1]
        /\ \A q \in Worker \ {w} : Same(q)
    BY DEF Fetches, Others, Proc
  <1>2. \A q \in Worker \ {w} : /\ pc'[q] = "fetch" <=> pc[q] = "fetch"
                                /\ pc'[q] = "send" <=> pc[q] = "send"
                                /\ pc[q] = "send" => got'[q] = got[q]
    BY <1>1 DEF Same, Adding
  <1>3. Fetching' = Fetching \ {w} /\ w \in Fetching
    BY <1>1, <1>2 DEF Fetching
  <1>4. Cardinality(Fetching') = Cardinality(Fetching) - 1
    BY <1>3, CountedFinite, FS_RemoveElement
  <1>5. Reported' = Reported /\ SendsApart'
    BY <1>1, <1>2 DEF Reported, SendsApart, Counted
  <1>6. /\ stats'.Pages = stats.Pages + 1 /\ stats'.Links = stats.Links /\ stats'.Errors = stats.Errors
        /\ stats.Pages \in Nat
    BY <1>1 DEF TypeOK
  <1>7. stats'.Pages + Cardinality(Fetching') = Cardinality(fetched')
    BY <1>1, <1>4, <1>6, CountedFinite DEF Counted
  <1> QED
    BY <1>5, <1>6, <1>7 DEF Counted, SendsApart

LEMMA TakesCounted ==
    ASSUME TypeOK, UniqueInv, Counted, NEW w \in Worker, NEW u \in URL, Takes(w, u)
    PROVE  Counted'
  <1>1. /\ UNCHANGED <<stats, Sent>> /\ pc[w] = "pop" /\ pc'[w] = "fetch" /\ u \in Pooled
        /\ fetched' = fetched \cup {u} /\ \A q \in Worker \ {w} : Same(q)
    BY DEF Takes, Others, Proc
  <1>2. \A q \in Worker \ {w} : /\ pc'[q] = "fetch" <=> pc[q] = "fetch"
                                /\ pc'[q] = "send" <=> pc[q] = "send"
                                /\ pc[q] = "send" => got'[q] = got[q]
    BY <1>1 DEF Same, Adding
  <1>3. Fetching' = Fetching \cup {w} /\ w \notin Fetching
    BY <1>1, <1>2 DEF Fetching
  <1>4. Cardinality(Fetching') = Cardinality(Fetching) + 1
    BY <1>3, CountedFinite, FS_AddElement
  <1>5. u \notin fetched
    BY <1>1 DEF UniqueInv, PooledNew
  <1>6. Cardinality(fetched') = Cardinality(fetched) + 1
    BY <1>1, <1>5, CountedFinite, FS_AddElement
  <1>7. Reported' = Reported /\ SendsApart'
    BY <1>1, <1>2 DEF Reported, SendsApart, Counted
  <1>8. stats.Pages \in Nat
    BY DEF TypeOK
  <1>9. stats'.Pages + Cardinality(Fetching') = Cardinality(fetched')
    BY <1>1, <1>4, <1>6, <1>8, CountedFinite DEF Counted
  <1> QED
    BY <1>1, <1>7, <1>9 DEF Counted, SendsApart

LEMMA SendsCounted ==
    ASSUME TypeOK, UniqueInv, Requested, Counted, NEW w \in Worker, NEW u \in URL, Sends(w, u)
    PROVE  Counted'
  <1>1. /\ UNCHANGED fetched /\ pc[w] = "send" /\ u \in todo[w] /\ Sent' = Sent \cup {u}
        /\ \A q \in Worker \ {w} : Same(q)
    BY DEF Sends, Others, Proc
  <1>2. \A q \in Worker \ {w} : /\ pc'[q] = "fetch" <=> pc[q] = "fetch"
                                /\ pc'[q] = "send" <=> pc[q] = "send"
                                /\ pc[q] = "send" => got'[q] = got[q]
    BY <1>1 DEF Same, Adding
  <1>3. todo[w] \subseteq got[w] /\ got[w] \subseteq Sent \cup todo[w]
    BY <1>1 DEF Requested
  <1>4. \A v \in Worker \ {w} : pc[v] = "send" => got[v] \cap got[w] = {}
    BY <1>1 DEF Counted
  <1>5. CASE todo[w] # {u} /\ pc'[w] = "send" /\ UNCHANGED stats /\ got'[w] = got[w]
    <2>1. Fetching' = Fetching
      BY <1>1, <1>2, <1>5 DEF Fetching
    <2>2. Reported' = Reported
      BY <1>1, <1>2, <1>3, <1>5 DEF Reported
    <2>3. SendsApart'
      BY <1>2, <1>4, <1>5 DEF SendsApart, Counted
    <2> QED
      BY <1>1, <1>5, <2>1, <2>2, <2>3 DEF Counted, SendsApart
  <1>6. CASE /\ todo[w] = {u} /\ pc'[w] = "done"
             /\ stats' = [stats EXCEPT !.Links = @ + Cardinality(got[w])]
    <2>1. Fetching' = Fetching
      BY <1>1, <1>2, <1>6 DEF Fetching
    <2>2. SendsApart'
      BY <1>2, <1>6 DEF SendsApart, Counted
    <2>3. Reported' = Reported \cup got[w]
      <3>1. \A x : x \in Reported' <=> x \in Sent' /\ \A v \in Worker \ {w} : pc[v] = "send" => x \notin got[v]
        BY <1>2, <1>6 DEF Reported
      <3>2. \A x : x \in Reported <=> /\ x \in Sent /\ x \notin got[w]
                                      /\ \A v \in Worker \ {w} : pc[v] = "send" => x \notin got[v]
        BY <1>1 DEF Reported
      <3>3. \A x : x \in Sent' <=> x \in Sent \/ x \in got[w]
        BY <1>1, <1>3, <1>6
      <3>4. \A x \in got[w] : \A v \in Worker \ {w} : pc[v] = "send" => x \notin got[v]
        BY <1>4
      <3> QED
        BY <3>1, <3>2, <3>3, <3>4
    <2>4. Reported \cap got[w] = {}
      BY <1>1 DEF Reported
    <2>5. Cardinality(Reported') = Cardinality(Reported) + Cardinality(got[w])
      <3>1. Cardinality(Reported \cup got[w])
              = Cardinality(Reported) + Cardinality(got[w]) - Cardinality(Reported \cap got[w])
        BY ReportedFinite, CountedFinite, FS_Union
      <3>2. Cardinality(Reported \cap got[w]) = 0
        BY <2>4, FS_EmptySet
      <3> QED
        BY <2>3, <3>1, <3>2, ReportedFinite, CountedFinite
    <2>6. /\ stats'.Links = stats.Links + Cardinality(got[w]) /\ stats'.Pages = stats.Pages
          /\ stats'.Errors = stats.Errors
      BY <1>6 DEF TypeOK
    <2> QED
      BY <1>1, <2>1, <2>2, <2>5, <2>6 DEF Counted, SendsApart
  <1> QED
    BY <1>5, <1>6 DEF Sends

LEMMA CountedTurn ==
    ASSUME TypeOK, UniqueInv, EmitInv, Requested, Counted, Turn
    PROVE  Counted'
  <1>1. ASSUME NEW p \in Proc, Checks(p) \/ Skips(p) \/ Records(p) \/ \E u \in URL : Adds(p, u) \/ Pushes(p, u)
        PROVE  Counted'
    <2>1. /\ UNCHANGED <<stats, fetched, Sent>> /\ Others(p)
          /\ pc[p] \notin {"fetch", "send"} /\ pc'[p] \notin {"fetch", "send"}
      BY <1>1 DEF Checks, Skips, Records, Adds, Pushes, Adding
    <2> QED
      BY <2>1, CountedKept DEF Others, Same, Adding, Proc
  <1>2. ASSUME NEW p \in Proc, Upserts(p) PROVE Counted'
    <2>1. CASE p \in Worker
      BY <1>2, <2>1, UpsertsCounted
    <2>2. CASE p = Main
      <3>1. UNCHANGED <<stats, fetched, Sent>> /\ \A q \in Worker : Same(q)
        BY <1>2, <2>2, CrawlAssumption DEF Upserts, Others, Proc
      <3> QED
        BY <3>1, CountedKept DEF Same, Adding
    <2> QED
      BY <2>1, <2>2 DEF Proc
  <1>3. CASE Idles
    <2>1. UNCHANGED <<stats, fetched, Sent>> /\ \A q \in Worker : Same(q)
      BY <1>3 DEF Idles, Proc
    <2> QED
      BY <2>1, CountedKept DEF Same, Adding
  <1> QED
    BY <1>1, <1>2, <1>3, FetchesCounted, TakesCounted, SendsCounted DEF Turn


LEMMA FaultsStay == [Next]_vars => faults' = faults
  <1>1. \A p \in Proc : AddURLs(p) => faults' = faults
    BY DEF AddURLs, CheckLimit, SAdd, SAddFails, Push, PushesDone, Upsert, UpsertFails, control
  <1>2. \A w \in Worker : WorkerStep(w) => faults' = faults
    BY <1>1 DEF WorkerStep, Pop, PopNothing, Fetch, FetchFails, Send, SendGivesUp, Done, control, Proc
  <1>3. MainStep => faults' = faults
    BY <1>1 DEF MainStep, Spawn, Join, Leave, control, Proc
  <1>4. WriterStep => faults' = faults
    BY DEF WriterStep, Receive, Drained, Flush, FlushFails, control
  <1> QED
    BY <1>2, <1>3, <1>4 DEF Next, Cancel, CloseOnCancel, Returned, vars, control

LEMMA WholeInit == Init => WholeInv
  <1> SUFFICES ASSUME Init PROVE WholeInv
    OBVIOUS
  <1>1. /\ \A w \in Worker : pc[w] = "idle" /\ got[w] = {} /\ todo[w] = {}
        /\ pc[Main] = "limit" /\ todo[Main] = {Seed} /\ got[Main] = {}
        /\ \A p \in Proc : got[p] = {} /\ pc[p] \in {"limit", "idle"}
        /\ items = <<>> /\ output = <<>> /\ batch = <<>> /\ discovered = <<>>
        /\ visited = before /\ stored = {Seed} /\ fetched = {}
        /\ stats = [Pages |-> 0, Links |-> 0, Errors |-> 0]
        /\ ~closed /\ chanOpen /\ wpc = "recv" /\ ~cancelled /\ watcher = "armed"
    BY CrawlAssumption DEF Init, Proc
  <1>2. Elements(<<>>) = {}
    BY EmptySeqLen DEF Elements
  <1>3. Pooled = {} /\ Sent = {} /\ \A p \in Proc : Claimed(p) = {}
    BY <1>1, <1>2 DEF Pooled, Sent, Claimed
  <1>4. Quiet /\ Ending
    BY <1>1 DEF Quiet, Ending
  <1>5. Seeding
    BY <1>1 DEF Seeding, SeedPhase
  <1>6. Accounted /\ Found /\ Followed
    BY <1>1, <1>3 DEF Accounted, Found, Followed
  <1>7. Requested
    BY <1>1, <1>3 DEF Requested
  <1>8. Counted
    <2>1. Fetching = {} /\ Reported = {} /\ Cardinality({}) = 0
      BY <1>1, <1>3, FS_EmptySet DEF Fetching, Reported
    <2> QED
      BY <1>1, <2>1 DEF Counted
  <1> QED
    BY <1>4, <1>5, <1>6, <1>7, <1>8 DEF WholeInv

LEMMA WholeStep == TypeOK /\ CountInv /\ UniqueInv /\ EmitInv /\ WholeInv /\ [Next]_vars => WholeInv'
  <1> SUFFICES ASSUME TypeOK, CountInv, UniqueInv, EmitInv, WholeInv, [Next]_vars, Undisturbed'
               PROVE  WholeInv'
    BY DEF WholeInv
  <1>1. Undisturbed
    BY FaultsStay DEF Undisturbed
  <1>2. Quiet /\ Ending /\ Seeding /\ Accounted /\ Found /\ Followed /\ Requested /\ Counted
    BY <1>1 DEF WholeInv
  <1>3. Turn /\ before' = before
    BY <1>1, <1>2, StepTurn, StepMoves
  <1>4. Quiet' /\ Ending' /\ Seeding'
    BY <1>1, <1>2, QuietStep, EndingStep, SeedingStep
  <1>5. Accounted' /\ Found' /\ Followed' /\ Requested' /\ Counted'
    BY <1>2, <1>3, AccountedTurn, FoundTurn, FollowedTurn, RequestedTurn, CountedTurn
  <1> QED
    BY <1>4, <1>5 DEF WholeInv

LEMMA QueueLength ==
    ASSUME NEW S, NEW q \in Seq(S), Distinct(q)
    PROVE  Cardinality(Elements(q)) = Len(q)
  <1> DEFINE n == Len(q)
             E == Elements(q)
             f == [i \in 1 .. n |-> q[i]]
  <1>1. n \in Nat
    OBVIOUS
  <1>2. f \in [1 .. n -> E] /\ \A i \in 1 .. n : f[i] = q[i]
    BY DEF Elements
  <1>3. \A e \in E : \E i \in 1 .. n : f[i] = e
    BY DEF Elements
  <1> HIDE DEF f
  <1>4. f \in Injection(1 .. n, E)
    BY <1>2 DEF Injection, IsInjective, Distinct
  <1> HIDE DEF E
  <1>5. f \in Surjection(1 .. n, E)
    BY <1>2, <1>3 DEF Surjection
  <1>6. ExistsBijection(1 .. n, E)
    BY <1>4, <1>5 DEF ExistsBijection, Bijection
  <1> HIDE DEF n
  <1>7. Cardinality(E) = n
    BY <1>1, <1>6, FS_CountingElements
  <1> QED
    BY <1>7 DEF E, n

LEMMA WholeReport ==
    ASSUME TypeOK, CountInv, UniqueInv, EmitInv, WholeInv
    PROVE  CrawlComplete
  <1> SUFFICES ASSUME pc[Main] = "returned", faults = {}, MaxPages = 0
               PROVE  /\ fetched = Reachable
                      /\ visited = before \cup Reachable
                      /\ stored = Reachable \cup {Seed}
                      /\ {output[i] : i \in 1 .. Len(output)} = Reachable \ {Seed}
                      /\ stats = [Pages |-> Cardinality(Reachable), Links |-> Len(output), Errors |-> 0]
    BY DEF CrawlComplete
  <1>1. Quiet /\ Ending /\ Seeding /\ Accounted /\ Found /\ Followed /\ Requested /\ Counted
    BY DEF WholeInv, Undisturbed
  <1>2. /\ closed /\ \A w \in Worker : pc[w] = "exited"
        /\ discovered = <<>> /\ batch = <<>>
    BY <1>1, CrawlAssumption DEF Ending
  <1>3. items = <<>>
    <2>1. CASE seedAdded
      <3>1. ~Aborted
        BY <1>1, <2>1 DEF Aborted, Quiet
      <3>2. outstanding = 0 /\ OutstandingExact /\ items \in Seq(URL)
        BY <1>2, <3>1 DEF CountInv, ClosedByCount, TypeOK
      <3>3. Len(items) \in Nat
        BY <3>2
      <3>4. Len(items) = 0
        BY <3>2, <3>3, HoldingFinite DEF OutstandingExact
      <3> QED
        BY <3>2, <3>4
    <2>2. CASE ~seedAdded
      BY <1>1, <2>2 DEF Seeding, SeedPhase
    <2> QED
      BY <2>1, <2>2
  <1>4. /\ Pooled = {} /\ Sent = Elements(output) /\ Fetching = {} /\ Reported = Sent
        /\ \A p \in Proc : Claimed(p) = {}
    <2>1. Elements(<<>>) = {}
      BY EmptySeqLen DEF Elements
    <2>2. Pooled = {} /\ Sent = Elements(output)
      BY <1>2, <1>3, <2>1 DEF Pooled, Sent
    <2>3. Fetching = {} /\ Reported = Sent
      BY <1>2 DEF Fetching, Reported
    <2>4. \A p \in Proc : Claimed(p) = {}
      BY <1>2 DEF Claimed, Proc
    <2> QED
      BY <2>2, <2>3, <2>4
  <1>5. visited = before \cup fetched /\ before \cap fetched = {}
    BY <1>1, <1>4 DEF Accounted, UniqueInv, PooledNew
  <1>6. fetched = Reachable
    <2>1. fetched \subseteq Reachable
      BY <1>1, <1>5 DEF Found
    <2>2. {Seed} \ before \subseteq fetched
      BY <1>1, <1>5 DEF Seeding
    <2>3. \A u \in fetched : Links[u] \subseteq fetched \cup before
      BY <1>1, <1>2, <1>5 DEF Followed
    <2>4. Reachable \subseteq fetched
      BY <2>2, <2>3, ReachableLeast
    <2> QED
      BY <2>1, <2>4
  <1>7. Sent = fetched \ {Seed}
    BY <1>1, <1>2, <1>4 DEF Requested
  <1>8. stored = fetched \cup {Seed}
    BY <1>1, <1>4, <1>7 DEF Requested, EmitInv, SentRows
  <1>9. stats = [Pages |-> Cardinality(fetched), Links |-> Len(output), Errors |-> 0]
    <2>1. Cardinality(Sent) = Len(output)
      BY <1>4, QueueLength DEF TypeOK, EmitInv, SentApart
    <2>2. Cardinality({}) = 0 /\ stats \in [Pages : Nat, Links : Nat, Errors : Nat]
      BY FS_EmptySet DEF TypeOK
    <2>3. stats.Pages = Cardinality(fetched) /\ stats.Links = Len(output) /\ stats.Errors = 0
      <3>1. /\ stats.Pages + Cardinality(Fetching) = Cardinality(fetched)
            /\ stats.Links = Cardinality(Reported) /\ stats.Errors = 0
        BY <1>1 DEF Counted
      <3> QED
        BY <1>4, <2>1, <2>2, <3>1
    <2> QED
      BY <2>2, <2>3
  <1> QED
    BY <1>4, <1>5, <1>6, <1>7, <1>8, <1>9 DEF Elements

\* A crawl that meets no failure, no cancellation and no limit has, when it returns,
\* fetched the pages its seed leads to and no other, recorded and requested each,
\* and counted them right (main.go:238-400), whatever the site and the number of
\* workers and in whatever order they ran.
THEOREM NothingLeftOut == Spec => []CrawlComplete
  <1> QED
    BY WholeInit, WholeStep, WholeReport, TypeCorrect, CountInvariant, PagesUnique, EmitInvariant, PTL DEF Spec
=============================================================================
