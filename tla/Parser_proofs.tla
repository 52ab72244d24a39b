---------------------------- MODULE Parser_proofs ----------------------------
(***************************************************************************)
(* Theorems about Parser, for any number of replicas and workers, any      *)
(* pages and PDFs, numbers of attempts, and combinations of failures.      *)
(***************************************************************************)
EXTENDS Parser, FiniteSetTheorems, SequenceTheorems, TLAPS

(***************************************************************************)
(* Where a worker is in a job: what the local variables of processJob and  *)
(* processPDFJob hold there.                                               *)
(***************************************************************************)

OnDocument == {"try", "fetch", "error", "save", "commit", "links", "push"}

\* `k` is what a worker is doing, an element of Work.
Placed(k) ==
    /\ k.pc \in {"off", "idle", "target"} => k.url = None /\ k.result = None
    /\ k.pc = "target" => k.job \in URL
    /\ k.pc \in OnDocument =>
          /\ k.job \in Document /\ k.url \in Document
          /\ k.url # k.job => k.job \in Page /\ k.url \in Pdf
    /\ k.pc = "links" => k.url = k.job /\ k.job \in Page
    /\ k.pc \in {"save", "commit", "push"} => k.content \in Content
    /\ k.result # None =>
          /\ k.job \in Page
          /\ k.url = k.job => k.pc \in {"links", "push"}
    /\ k.pc = "push" /\ k.url = k.job /\ k.job \in Page => k.result = k.content

LocalInv == \A w \in Worker : Placed(work[w])

LEMMA Names ==
    /\ None \notin Content /\ None \notin Worker /\ None \notin URL /\ None \notin Document
    /\ Document \subseteq URL /\ Page \subseteq Document /\ Pdf \subseteq Document
    /\ \A u \in Document : u \in Page \/ u \in Pdf
    /\ Page \cap Pdf = {} /\ \A u \in Document : u \notin Asset
    /\ \A u \in URL : u \in Asset \/ u \in Document
  BY ParserAssumption DEF URL, Document

LEMMA Attempts ==
    /\ 0 \in 0 .. MaxRetries + 1 /\ 1 \in 0 .. MaxRetries + 1
    /\ \A n \in 0 .. MaxRetries + 1 : n <= MaxRetries => n + 1 \in 0 .. MaxRetries + 1
  BY ParserAssumption

LEMMA NoWorkType ==
    ASSUME NEW place \in {"off", "idle"}
    PROVE  /\ NoWork(place) \in Work /\ Placed(NoWork(place)) /\ NoWork(place).pc = place
           /\ Owes(NoWork(place)) = {}
  <1>1. NoWork(place) \in Work
    BY Attempts DEF NoWork, Work, PC
  <1>2. Placed(NoWork(place))
    BY DEF NoWork, Placed, OnDocument
  <1>3. Owes(NoWork(place)) = {}
    BY DEF NoWork, Owes
  <1> QED
    BY <1>1, <1>2, <1>3 DEF NoWork

\* What Through makes of the work of a worker.
AfterThrough(k) ==
    IF k.url = k.job \/ k.pc = "target" THEN NoWork("idle")
    ELSE [k EXCEPT !.pc = "links", !.url = k.job]

LEMMA ThroughWork ==
    ASSUME TypeOK, LocalInv, NEW w \in Worker, Through(w), work[w].pc \in OnDocument \cup {"target"},
           work[w].pc = "links" => work[w].result = None
    PROVE  /\ work' = [work EXCEPT ![w] = AfterThrough(work[w])] /\ ended' \in Nat
           /\ AfterThrough(work[w]) \in Work /\ Placed(AfterThrough(work[w]))
           /\ AfterThrough(work[w]).pc \in {"idle", "links"}
           /\ Owes(AfterThrough(work[w])) = IF work[w].pc = "push" THEN Owes(work[w]) \ {<<work[w].url, work[w].content>>}
                                                          ELSE Owes(work[w])
  <1> DEFINE k == work[w]
  <1>1. work \in [Worker -> Work] /\ k \in Work /\ Placed(k)
    BY DEF TypeOK, LocalInv
  <1>2. work' = [work EXCEPT ![w] = AfterThrough(k)] /\ ended' \in Nat
    BY <1>1 DEF Through, AfterThrough, TypeOK, Work
  <1>3. CASE k.url = k.job \/ k.pc = "target"
    <2>1. AfterThrough(k) = NoWork("idle")
      BY <1>3 DEF AfterThrough
    <2>2. k.pc # "push" => Owes(k) = {}
      BY <1>1, <1>3 DEF Placed, Owes, OnDocument
    <2>3. k.pc = "push" => Owes(k) = {<<k.url, k.content>>}
      BY <1>1, <1>3, Names DEF Placed, Owes, OnDocument
    <2> QED
      BY <1>2, <2>1, <2>2, <2>3, NoWorkType
  <1>4. CASE k.url # k.job /\ k.pc # "target"
    <2> DEFINE m == [k EXCEPT !.pc = "links", !.url = k.job]
    <2>1. AfterThrough(k) = m
      BY <1>4 DEF AfterThrough
    <2>2. k.job \in Page /\ k.url \in Pdf
      BY <1>1, <1>4 DEF Placed
    <2>3. m \in Work
      BY <1>1, <2>2, Names DEF Work, PC
    <2>4. m.pc = "links" /\ m.url = k.job /\ m.job = k.job /\ m.result = k.result /\ m.content = k.content
      BY <1>1 DEF Work
    <2>5. Placed(m)
      BY <2>2, <2>4, Names DEF Placed, OnDocument
    <2>6. Owes(m) = IF k.pc = "push" THEN Owes(k) \ {<<k.url, k.content>>} ELSE Owes(k)
      BY <1>4, <2>4 DEF Owes
    <2> QED
      BY <1>2, <2>1, <2>3, <2>4, <2>5, <2>6
  <1> QED
    BY <1>3, <1>4

(***************************************************************************)
(* What a step of a worker does to the rest.                               *)
(***************************************************************************)

VersionAt(k) == <<k.url, k.content>>

\* Nothing a reader of parser:out could notice.
Silent(w, k) == Owes(k) = Owes(work[w]) /\ UNCHANGED <<latest, output, commits>>

\* A version is committed as a change and will be announced by this worker, or
\* not, if Postgres fails to say so.
Changes(w, k) ==
    LET v == VersionAt(work[w]) IN
    /\ work[w].pc = "commit" /\ v \in Version /\ work[w].seen # work[w].content
    /\ latest' = [latest EXCEPT ![work[w].url] = work[w].content] /\ UNCHANGED output
    /\ commits' = Append(commits, v)
    /\ \/ Owes(k) = Owes(work[w]) /\ "postgres" \in faults
       \/ v \notin Owes(work[w]) /\ Owes(k) = Owes(work[w]) \cup {v}

\* A version is announced, or its announcement is lost.
Announces(w, k) ==
    LET v == VersionAt(work[w]) IN
    /\ v \in Version /\ v \in Owes(work[w]) /\ Owes(k) = Owes(work[w]) \ {v}
    /\ \/ output' = Append(output, v)
       \/ UNCHANGED output /\ ("redis" \in faults \/ Cancelled(w))
    /\ UNCHANGED <<latest, commits>>

\* The locks: taken by Save, and given back at the end of the transaction.
Locks(w, k) ==
    LET was == work[w] IN
    \/ k.pc # "commit" /\ was.pc # "commit" /\ UNCHANGED <<holder, latest>>
    \/ /\ k.pc # "commit" /\ was.pc = "commit"
       /\ holder' = [holder EXCEPT ![DomainOf[was.url]] = None]
       /\ latest' \in {latest, [latest EXCEPT ![was.url] = was.content]}
    \/ /\ k.pc = "commit" /\ was.pc # "commit" /\ k.seen = latest[k.url]
       /\ holder[DomainOf[k.url]] = None /\ holder' = [holder EXCEPT ![DomainOf[k.url]] = w]
       /\ UNCHANGED latest

\* A worker does one thing at a time, and what it does has one of these effects.
Does(w, k) ==
    /\ work' = [work EXCEPT ![w] = k]
    /\ k \in Work /\ Placed(k) /\ k.pc # "off" /\ work[w].pc # "off"
    /\ Silent(w, k) \/ Changes(w, k) \/ Announces(w, k)
    /\ Locks(w, k)
    /\ UNCHANGED <<input, web, node, hand, limits>>
    /\ ended' \in Nat /\ versions' \subseteq Version /\ broken' \subseteq Document
    /\ commits' \in Seq(Version)

LEMMA FetchingDoes ==
    ASSUME TypeOK, LocalInv, NEW w \in Worker,
           Target(w) \/ TargetFails(w) \/ Try(w) \/ Fetch(w) \/ FetchFails(w) \/ ExtractFails(w)
    PROVE  \E k : Does(w, k)
  <1> DEFINE was == work[w]
  <1>1. work \in [Worker -> Work] /\ was \in Work /\ Placed(was)
        /\ ended \in Nat /\ versions \subseteq Version /\ broken \subseteq Document
        /\ commits \in Seq(Version)
    BY DEF TypeOK, LocalInv
  <1>2. ASSUME NEW k \in Work, work' = [work EXCEPT ![w] = k], Placed(k),
               k.pc \notin {"off", "commit"}, was.pc \notin {"off", "commit"},
               Owes(k) = Owes(was), ended' \in Nat,
               UNCHANGED <<stores, node, hand, limits, commits>>
        PROVE  \E m : Does(w, m)
    <2>1. Does(w, k)
      BY <1>1, <1>2 DEF Does, Silent, Locks, stores
    <2> QED
      BY <2>1
  <1>3. CASE Target(w) /\ was.job \in Asset
    <2>1. Through(w) /\ was.pc = "target" /\ UNCHANGED <<stores, node, hand, limits, commits>>
      BY <1>3 DEF Target
    <2> QED
      BY <1>2, <2>1, ThroughWork
  <1>7. CASE TargetFails(w)
    <2>1. /\ was.pc = "target" /\ work' = [work EXCEPT ![w] = NoWork("idle")] /\ ended' = ended
          /\ UNCHANGED <<stores, node, hand, limits, commits>>
      BY <1>7 DEF TargetFails, Go
    <2>2. Owes(was) = {}
      BY <1>1, <2>1, Names DEF Placed, Owes
    <2> QED
      BY <1>1, <1>2, <2>1, <2>2, NoWorkType
  <1>4. CASE Target(w) /\ was.job \notin Asset
    <2> DEFINE k == [was EXCEPT !.pc = "try", !.url = was.job, !.attempt = 1]
    <2>1. was.pc = "target" /\ work' = [work EXCEPT ![w] = k] /\ ended' = ended
          /\ UNCHANGED <<stores, node, hand, limits, commits>>
      BY <1>1, <1>4 DEF Target, Go, Fetching
    <2>2. was.job \in Document /\ was.result = None
      BY <1>1, <1>4, <2>1, Names DEF Placed
    <2>3. k \in Work /\ k.pc = "try" /\ k.url = was.job /\ k.job = was.job /\ k.result = was.result
      BY <1>1, <2>2, Attempts DEF Work, PC
    <2>4. Placed(k) /\ Owes(k) = Owes(was)
      BY <2>1, <2>2, <2>3 DEF Placed, Owes, OnDocument
    <2> HIDE DEF k
    <2> QED
      BY <1>1, <1>2, <2>1, <2>3, <2>4
  <1>5. CASE Try(w) \/ FetchFails(w) \/ ExtractFails(w)
    <2>1. PICK k :
            /\ work' = [work EXCEPT ![w] = k] /\ was.pc \in {"try", "fetch"}
            /\ \/ k = [was EXCEPT !.pc = "error"] \/ k = [was EXCEPT !.pc = "fetch"]
               \/ was.attempt <= MaxRetries /\ k = [was EXCEPT !.pc = "try", !.attempt = @ + 1]
            /\ UNCHANGED <<stores, node, hand, bounds, commits>>
      <3>1. CASE Try(w)
        BY <1>1, <3>1 DEF Try
      <3>2. CASE FetchFails(w)
        BY <1>1, <3>2 DEF FetchFails
      <3>3. CASE ExtractFails(w)
        BY <1>1, <3>3 DEF ExtractFails
      <3> QED
        BY <1>5, <3>1, <3>2, <3>3
    <2>2. k \in Work /\ k.pc \in {"error", "fetch", "try"} /\ k.url = was.url /\ k.job = was.job
          /\ k.result = was.result
      <3>1. was.attempt \in 0 .. MaxRetries + 1
        BY <1>1 DEF Work
      <3> QED
        BY ZenonT(40), <1>1, <2>1, <3>1, Attempts DEF Work, PC
    <2>3. Placed(k) /\ Owes(k) = Owes(was)
      BY <1>1, <2>1, <2>2 DEF Placed, Owes, OnDocument
    <2> QED
      BY <1>1, <1>2, <2>1, <2>2, <2>3 DEF bounds
  <1>6. CASE Fetch(w)
    <2> DEFINE k == [was EXCEPT !.pc = "save", !.content = web[was.url]]
    <2>1. /\ was.pc = "fetch" /\ web[was.url] # Blank /\ work' = [work EXCEPT ![w] = k]
          /\ UNCHANGED <<stores, node, hand, bounds, commits>>
      BY <1>1, <1>6 DEF Fetch
    <2>2. was.url \in Document /\ web[was.url] \in Content
      BY <1>1, <2>1 DEF Placed, OnDocument, TypeOK
    <2>3. k \in Work /\ k.pc = "save" /\ k.url = was.url /\ k.job = was.job
          /\ k.result = was.result /\ k.content \in Content
      BY <1>1, <2>2 DEF Work, PC
    <2>4. Placed(k) /\ Owes(k) = Owes(was)
      BY <1>1, <2>1, <2>3 DEF Placed, Owes, OnDocument
    <2> HIDE DEF k
    <2> QED
      BY <1>1, <1>2, <2>1, <2>3, <2>4 DEF bounds
  <1> QED
    BY <1>3, <1>4, <1>5, <1>6, <1>7

LEMMA SavingDoes ==
    ASSUME TypeOK, LocalInv, NEW w \in Worker,
           RecordError(w) \/ RecordErrorFails(w) \/ Save(w) \/ Commit(w) \/ SaveFails(w)
    PROVE  \E k : Does(w, k)
  <1> DEFINE was == work[w]
             v   == VersionAt(was)
  <1>1. work \in [Worker -> Work] /\ was \in Work /\ Placed(was)
        /\ ended \in Nat /\ versions \subseteq Version /\ broken \subseteq Document
        /\ commits \in Seq(Version) /\ output \in Seq(Version)
        /\ latest \in [Document -> Content \cup {None}]
    BY DEF TypeOK, LocalInv
  <1>2. CASE RecordError(w) \/ RecordErrorFails(w)
    <2>1. /\ was.pc = "error" /\ Through(w) /\ broken' \subseteq broken \cup {was.url}
          /\ UNCHANGED <<input, web, latest, versions, holder, output, node, hand, limits, commits>>
      BY <1>2 DEF RecordError, RecordErrorFails, stores
    <2>2. was.url \in Document
      BY <1>1, <2>1 DEF Placed, OnDocument
    <2>3. Does(w, AfterThrough(was))
      BY <1>1, <2>1, <2>2, ThroughWork DEF Does, Silent, Locks, OnDocument
    <2> QED
      BY <2>3
  <1>3. CASE Save(w)
    <2> DEFINE k == [was EXCEPT !.pc = "commit", !.seen = latest[was.url]]
    <2>1. /\ was.pc = "save" /\ work' = [work EXCEPT ![w] = k] /\ holder[DomainOf[was.url]] = None
          /\ holder' = [holder EXCEPT ![DomainOf[was.url]] = w]
          /\ UNCHANGED <<input, web, latest, versions, broken, output, node, hand, bounds, commits>>
      BY <1>1, <1>3 DEF Save
    <2>2. was.url \in Document
      BY <1>1, <2>1 DEF Placed, OnDocument
    <2>3. /\ k \in Work /\ k.pc = "commit" /\ k.url = was.url /\ k.job = was.job
          /\ k.result = was.result /\ k.content = was.content /\ k.seen = latest[was.url]
      BY <1>1, <2>2 DEF Work, PC
    <2>4. Placed(k) /\ Owes(k) = Owes(was)
      BY <1>1, <2>1, <2>3 DEF Placed, Owes, OnDocument
    <2> HIDE DEF k
    <2>5. Does(w, k)
      BY <1>1, <2>1, <2>3, <2>4 DEF Does, Silent, Locks, bounds
    <2> QED
      BY <2>5
  <1>4. ASSUME was.pc = "commit", Committed(w)
        PROVE  /\ was.url \in Document /\ was.content \in Content /\ v \in Version
               /\ holder' = [holder EXCEPT ![DomainOf[was.url]] = None]
               /\ broken' \subseteq Document /\ versions' \subseteq Version /\ commits' \in Seq(Version)
               /\ IF was.seen = was.content
                    THEN UNCHANGED <<latest, commits>>
                    ELSE /\ latest' = [latest EXCEPT ![was.url] = was.content]
                         /\ commits' = Append(commits, v)
    <2>1. was.url \in Document /\ was.content \in Content /\ v \in Version
      BY <1>1, <1>4 DEF Placed, OnDocument, VersionAt, Version
    <2>2. Append(commits, v) \in Seq(Version) /\ versions \cup {v} \subseteq Version
      BY <1>1, <2>1, AppendProperties
    <2> QED
      BY <1>1, <1>4, <2>1, <2>2 DEF Committed, ContentChanged, VersionAt
  <1>5. CASE Commit(w)
    <2>1. /\ was.pc = "commit" /\ Committed(w)
          /\ UNCHANGED <<input, web, output, node, hand, limits>>
      BY <1>5 DEF Commit
    <2>2. v \notin Owes(was)
      BY <1>1, <1>4, <2>1, Names DEF Placed, Owes, OnDocument, VersionAt
    <2>3. CASE was.url \in Page
      <3> DEFINE k == [was EXCEPT !.pc = "links", !.links = PdfLinks[was.url],
                                  !.result = IF ContentChanged(w) THEN was.content ELSE None]
      <3>1. work' = [work EXCEPT ![w] = k] /\ ended' = ended
        BY <1>1, <1>5, <2>3, Names DEF Commit, Go
      <3>2. was.url = was.job /\ was.result = None
        BY <1>1, <2>1, <2>3, Names DEF Placed, OnDocument
      <3>3. PdfLinks[was.url] \subseteq Pdf
        BY <2>3, ParserAssumption
      <3>4. /\ k \in Work /\ k.pc = "links" /\ k.url = was.url /\ k.job = was.job
            /\ k.result = IF was.seen # was.content THEN was.content ELSE None
        BY <1>1, <1>4, <2>1, <3>3 DEF Work, PC, ContentChanged
      <3> HIDE DEF k
      <3>5. Placed(k) /\ Owes(was) = {}
            /\ Owes(k) = IF was.seen # was.content THEN {v} ELSE {}
        BY <1>1, <1>4, <2>1, <2>3, <3>2, <3>4, Names DEF Placed, Owes, OnDocument, VersionAt
      <3>6. Silent(w, k) \/ Changes(w, k)
        BY <1>4, <2>1, <3>5 DEF Silent, Changes
      <3>7. Locks(w, k)
        BY <1>4, <2>1, <3>4 DEF Locks
      <3>8. Does(w, k)
        BY <1>1, <1>4, <2>1, <3>1, <3>4, <3>5, <3>6, <3>7 DEF Does
      <3> QED
        BY <3>8
    <2>4. CASE was.url \in Pdf /\ ContentChanged(w)
      <3> DEFINE k == [was EXCEPT !.pc = "push"]
      <3>1. work' = [work EXCEPT ![w] = k] /\ ended' = ended /\ was.seen # was.content
        BY <1>1, <1>5, <2>4, Names DEF Commit, Go, ContentChanged
      <3>2. /\ k \in Work /\ k.pc = "push" /\ k.url = was.url /\ k.job = was.job
            /\ k.content = was.content /\ k.result = was.result
        BY <1>1 DEF Work, PC
      <3> HIDE DEF k
      <3>3. Placed(k)
        BY <1>1, <1>4, <2>1, <2>4, <3>2, Names DEF Placed, OnDocument
      <3>4. Owes(k) = Owes(was) \cup {v}
        BY <2>1, <3>2 DEF Owes, VersionAt
      <3>5. Changes(w, k) /\ Locks(w, k)
        BY <1>4, <2>1, <2>2, <3>1, <3>2, <3>4 DEF Changes, Locks
      <3>6. Does(w, k)
        BY <1>1, <1>4, <2>1, <3>1, <3>2, <3>3, <3>5 DEF Does
      <3> QED
        BY <3>6
    <2>5. CASE was.url \in Pdf /\ ~ContentChanged(w)
      <3>1. Through(w) /\ was.seen = was.content
        BY <1>5, <2>5, Names DEF Commit, ContentChanged
      <3>2. Does(w, AfterThrough(was))
        BY <1>1, <1>4, <2>1, <3>1, ThroughWork DEF Does, Silent, Locks, OnDocument
      <3> QED
        BY <3>2
    <2> QED
      BY <1>4, <2>1, <2>3, <2>4, <2>5, Names
  <1>6. CASE SaveFails(w)
    <2>1. "postgres" \in faults /\ Through(w) /\ UNCHANGED <<input, web, output, node, hand, limits>>
      BY <1>6 DEF SaveFails
    <2>2. was.pc \in OnDocument /\ was.pc \in {"save", "commit"}
      BY <1>6 DEF SaveFails, OnDocument
    <2>3. CASE UNCHANGED <<broken, latest, versions, commits>>
      <3>1. Locks(w, AfterThrough(was))
        BY <1>6, <2>1, <2>2, <2>3, ThroughWork DEF SaveFails, Committed, Locks
      <3>2. Does(w, AfterThrough(was))
        BY <1>1, <2>1, <2>2, <2>3, <3>1, ThroughWork DEF Does, Silent
      <3> QED
        BY <3>2
    <2>4. CASE was.pc = "commit" /\ Committed(w)
      <3>1. Silent(w, AfterThrough(was)) \/ Changes(w, AfterThrough(was))
        BY <1>4, <2>1, <2>2, <2>4, ThroughWork DEF Silent, Changes
      <3>2. Locks(w, AfterThrough(was))
        BY <1>4, <2>1, <2>2, <2>4, ThroughWork DEF Locks
      <3>3. Does(w, AfterThrough(was))
        BY <1>1, <1>4, <2>1, <2>2, <2>4, <3>1, <3>2, ThroughWork DEF Does
      <3> QED
        BY <3>3
    <2> QED
      BY <1>6, <2>3, <2>4 DEF SaveFails
  <1> QED
    BY <1>2, <1>3, <1>5, <1>6

LEMMA AnnouncingDoes ==
    ASSUME TypeOK, LocalInv, NEW w \in Worker,
           (\E u \in work[w].links : NextLink(w, u)) \/ LinksDone(w) \/ Push(w) \/ PushFails(w)
    PROVE  \E k : Does(w, k)
  <1> DEFINE was == work[w]
             v   == VersionAt(was)
  <1>1. work \in [Worker -> Work] /\ was \in Work /\ Placed(was)
        /\ ended \in Nat /\ versions \subseteq Version /\ broken \subseteq Document
        /\ commits \in Seq(Version) /\ output \in Seq(Version)
    BY DEF TypeOK, LocalInv
  <1>2. ASSUME NEW u \in was.links, NextLink(w, u) PROVE \E k : Does(w, k)
    <2> DEFINE k == [was EXCEPT !.pc = "try", !.url = u, !.attempt = 1, !.links = @ \ {u}]
    <2>1. /\ was.pc = "links" /\ work' = [work EXCEPT ![w] = k]
          /\ UNCHANGED <<stores, node, hand, bounds, commits>>
      BY ZenonT(40), <1>1, <1>2 DEF NextLink, Fetching
    <2>2. u \in Pdf /\ u \in Document /\ was.links \subseteq Pdf
      BY <1>1, Names DEF Work
    <2>3. /\ k \in Work /\ k.pc = "try" /\ k.url = u /\ k.job = was.job /\ k.result = was.result
      BY <1>1, <2>2, Attempts DEF Work, PC
    <2> HIDE DEF k
    <2>4. Placed(k) /\ Owes(k) = Owes(was)
      BY <1>1, <2>1, <2>2, <2>3, Names DEF Placed, Owes, OnDocument
    <2>5. Does(w, k)
      BY <1>1, <2>1, <2>3, <2>4 DEF Does, Silent, Locks, bounds, stores
    <2> QED
      BY <2>5
  <1>3. CASE LinksDone(w) /\ was.result = None
    <2>1. was.pc = "links" /\ Through(w) /\ UNCHANGED <<stores, node, hand, limits, commits>>
      BY <1>3 DEF LinksDone
    <2>2. Does(w, AfterThrough(was))
      BY <1>1, <1>3, <2>1, ThroughWork DEF Does, Silent, Locks, OnDocument, stores
    <2> QED
      BY <2>2
  <1>4. CASE LinksDone(w) /\ was.result # None
    <2> DEFINE k == [was EXCEPT !.pc = "push", !.content = was.result]
    <2>1. /\ was.pc = "links" /\ work' = [work EXCEPT ![w] = k] /\ ended' = ended
          /\ UNCHANGED <<stores, node, hand, limits, commits>>
      BY <1>1, <1>4 DEF LinksDone, Go
    <2>2. was.result \in Content
      BY <1>1, <1>4 DEF Work
    <2>3. /\ k \in Work /\ k.pc = "push" /\ k.url = was.url /\ k.job = was.job
          /\ k.result = was.result /\ k.content = was.result
      BY <1>1, <2>2 DEF Work, PC
    <2> HIDE DEF k
    <2>4. Placed(k) /\ Owes(k) = Owes(was)
      BY <1>1, <1>4, <2>1, <2>2, <2>3, Names DEF Placed, Owes, OnDocument
    <2>5. Does(w, k)
      BY <1>1, <2>1, <2>3, <2>4 DEF Does, Silent, Locks, stores
    <2> QED
      BY <2>5
  <1>5. CASE Push(w) \/ PushFails(w)
    <2>1. /\ was.pc = "push" /\ Through(w)
          /\ \/ output' = Append(output, v)
             \/ UNCHANGED output /\ ("redis" \in faults \/ Cancelled(w))
          /\ UNCHANGED <<input, web, latest, versions, broken, holder, node, hand, limits, commits>>
      BY <1>5 DEF Push, PushFails, VersionAt
    <2>2. v \in Version /\ v \in Owes(was)
      BY <1>1, <2>1 DEF Placed, OnDocument, Owes, VersionAt, Version
    <2>3. Announces(w, AfterThrough(was)) /\ Locks(w, AfterThrough(was))
      BY <2>1, <2>2, ThroughWork DEF Announces, Locks, OnDocument, VersionAt
    <2>4. Does(w, AfterThrough(was))
      BY <1>1, <2>1, <2>3, ThroughWork DEF Does, OnDocument
    <2> QED
      BY <2>4
  <1> QED
    BY <1>2, <1>3, <1>4, <1>5

LEMMA WorkerDoes ==
    ASSUME TypeOK, LocalInv, NEW w \in Worker, WorkerStep(w)
    PROVE  \E k : Does(w, k)
  BY FetchingDoes, SavingDoes, AnnouncingDoes DEF WorkerStep

(***************************************************************************)
(* The invariant: types, places, and the lock of whoever is in the middle  *)
(* of a transaction, which keeps true what the transaction has read.       *)
(***************************************************************************)

LockInv ==
    \A w \in Worker : work[w].pc = "commit" =>
        holder[DomainOf[work[w].url]] = w /\ work[w].seen = latest[work[w].url]

Inv == TypeOK /\ LocalInv /\ LockInv

LEMMA InvInit == Init => Inv
  <1> SUFFICES ASSUME Init PROVE Inv
    OBVIOUS
  <1>1. work \in [Worker -> Work] /\ \A w \in Worker : work[w] = NoWork("idle")
    BY NoWorkType DEF Init
  <1>2. \A w \in Worker : work[w].pc = "idle" /\ Placed(work[w])
    BY <1>1, NoWorkType
  <1>3. /\ input \in Seq(URL) /\ output \in Seq(Version) /\ commits \in Seq(Version)
        /\ asked \in 0 .. MaxRequests /\ changes \in 0 .. MaxChanges /\ stops \in 0 .. MaxStops
        /\ ended \in Nat /\ risked \in Nat
    BY ParserAssumption DEF Init
  <1>4. /\ web \in [Document -> Content \cup {Blank}] /\ latest \in [Document -> Content \cup {None}]
        /\ versions \subseteq Version /\ broken \subseteq Document
        /\ holder \in [Domain -> Worker \cup {None}] /\ node \in [Node -> {"up", "stopping", "down"}]
        /\ hand \in [Node -> URL \cup {None}] /\ faults \in Faults
    BY DEF Init
  <1>5. \A w \in Worker : node[NodeOf[w]] = "up"
    BY ParserAssumption DEF Init
  <1>6. TypeOK
    BY <1>1, <1>2, <1>3, <1>4, <1>5 DEF TypeOK
  <1> QED
    BY <1>2, <1>6 DEF Inv, LocalInv, LockInv

\* The work of one worker changes, and no replica.
LEMMA WorkType ==
    ASSUME TypeOK, LocalInv, NEW w \in Worker, NEW k \in Work, Placed(k),
           k.pc # "off", work[w].pc # "off",
           work' = [work EXCEPT ![w] = k], node' = node
    PROVE  /\ work' \in [Worker -> Work] /\ LocalInv'
           /\ \A v \in Worker : work'[v].pc = "off" <=> node'[NodeOf[v]] = "down"
           /\ work'[w] = k /\ \A v \in Worker \ {w} : work'[v] = work[v]
  <1>1. work \in [Worker -> Work] /\ (\A v \in Worker : Placed(work[v]))
        /\ \A v \in Worker : work[v].pc = "off" <=> node[NodeOf[v]] = "down"
    BY DEF TypeOK, LocalInv
  <1>2. work' \in [Worker -> Work] /\ work'[w] = k /\ \A v \in Worker \ {w} : work'[v] = work[v]
    BY <1>1
  <1>3. \A v \in Worker : Placed(work'[v])
    BY <1>1, <1>2
  <1> QED
    BY <1>1, <1>2, <1>3 DEF LocalInv

LEMMA DoesInv ==
    ASSUME Inv, NEW w \in Worker, NEW k, Does(w, k)
    PROVE  Inv'
  <1> DEFINE was == work[w]
  <1>1. TypeOK /\ LocalInv /\ LockInv /\ was \in Work /\ Placed(was)
        /\ DomainOf \in [URL -> Domain]
    BY ParserAssumption DEF Inv, TypeOK, LocalInv
  <1>2. /\ work' \in [Worker -> Work] /\ LocalInv'
        /\ \A v \in Worker : work'[v].pc = "off" <=> node'[NodeOf[v]] = "down"
        /\ work'[w] = k /\ \A v \in Worker \ {w} : work'[v] = work[v]
    BY <1>1, WorkType DEF Does
  <1>3. /\ was.pc = "commit" => was.url \in Document /\ DomainOf[was.url] \in Domain /\ was.content \in Content
        /\ k.pc = "commit" => k.url \in Document /\ DomainOf[k.url] \in Domain
    BY <1>1, Names DEF Does, Placed, OnDocument
  <1>4. holder' \in [Domain -> Worker \cup {None}] /\ latest' \in [Document -> Content \cup {None}]
    BY <1>1, <1>3 DEF Does, Locks, TypeOK
  <1>5. output' \in Seq(Version)
    <2>1. output \in Seq(Version)
      BY <1>1 DEF TypeOK
    <2>2. \A v \in Version : Append(output, v) \in Seq(Version)
      BY <2>1, AppendProperties
    <2>3. output' = output \/ (VersionAt(was) \in Version /\ output' \in {output, Append(output, VersionAt(was))})
      BY DEF Does, Silent, Changes, Announces
    <2> QED
      BY <2>1, <2>2, <2>3
  <1>6. TypeOK'
    BY <1>1, <1>2, <1>4, <1>5 DEF TypeOK, Does, limits
  <1>7. ASSUME NEW v \in Worker, work'[v].pc = "commit"
        PROVE  holder'[DomainOf[work'[v].url]] = v /\ work'[v].seen = latest'[work'[v].url]
    <2>1. holder \in [Domain -> Worker \cup {None}] /\ latest \in [Document -> Content \cup {None}]
      BY <1>1 DEF TypeOK
    <2>2. CASE v = w
      BY <1>2, <1>3, <1>7, <2>1, <2>2 DEF Does, Locks
    <2>3. CASE v # w
      <3>1. work'[v] = work[v] /\ holder[DomainOf[work[v].url]] = v
            /\ work[v].seen = latest[work[v].url]
        BY <1>1, <1>2, <1>7, <2>3 DEF LockInv
      <3>2. work[v].url \in Document /\ DomainOf[work[v].url] \in Domain
        BY <1>1, <1>7, <3>1, Names DEF LocalInv, Placed, OnDocument
      <3>3. was.pc = "commit" => holder[DomainOf[was.url]] = w
        BY <1>1 DEF LockInv
      <3> QED
        BY <1>3, <2>1, <2>3, <3>1, <3>2, <3>3, Names DEF Does, Locks
    <2> QED
      BY <2>2, <2>3
  <1> QED
    BY <1>2, <1>6, <1>7 DEF Inv, LockInv

LEMMA FrontLast ==
    ASSUME NEW V, NEW s \in Seq(V), s # <<>>
    PROVE  Front(s) \in Seq(V) /\ Last(s) \in V
  <1>1. Len(s) \in Nat /\ Len(s) # 0
    BY EmptySeq
  <1>2. Front(s) = SubSeq(s, 1, Len(s) - 1) /\ Last(s) = s[Len(s)]
    BY DEF Front, Last
  <1> QED
    BY <1>1, <1>2, ElementOfSeq, SubSeqProperties

LEMMA OutsideInv ==
    ASSUME Inv, (\E u \in URL : Ask(u)) \/ (\E u \in Document, c \in Content \cup {Blank} : Edit(u, c))
    PROVE  Inv'
  <1>1. CASE \E u \in URL : Ask(u)
    <2>1. PICK u \in URL : Ask(u)
      BY <1>1
    <2>2. input' \in Seq(URL) /\ asked' \in 0 .. MaxRequests
      BY <2>1, AppendProperties, ParserAssumption DEF Ask, Inv, TypeOK
    <2> QED
      BY <2>1, <2>2 DEF Ask, Inv, TypeOK, LocalInv, LockInv
  <1>2. CASE \E u \in Document, c \in Content \cup {Blank} : Edit(u, c)
    <2>1. PICK u \in Document, c \in Content \cup {Blank} : Edit(u, c)
      BY <1>2
    <2>2. web' \in [Document -> Content \cup {Blank}] /\ changes' \in 0 .. MaxChanges
      BY <2>1, ParserAssumption DEF Edit, Inv, TypeOK
    <2> QED
      BY <2>1, <2>2 DEF Edit, Inv, TypeOK, LocalInv, LockInv
  <1> QED
    BY <1>1, <1>2

\* Finitely many workers are asking for a URL.
LEMMA Askings == \A n \in Node : Cardinality(Asking(n)) \in Nat
  <1>1. \A n \in Node : Asking(n) \in SUBSET Worker
    BY DEF Asking, WorkersOf
  <1> QED
    BY <1>1, FS_Subset, FS_CardinalityType, ParserAssumption

\* A dispatcher that takes, offers or drops a request, or is told to stop.
LEMMA DispatcherInv ==
    ASSUME Inv, NEW n \in Node,
           Pop(n) \/ PopTimeout(n) \/ (\E w \in WorkersOf(n) : Give(w)) \/ Drop(n) \/ Stop(n)
    PROVE  Inv'
  <1>1. CASE Pop(n)
    <2>1. input' \in Seq(URL) /\ hand' \in [Node -> URL \cup {None}]
      <3>1. input \in Seq(URL) /\ input # <<>> /\ hand \in [Node -> URL \cup {None}]
        BY <1>1 DEF Pop, Inv, TypeOK
      <3>2. Front(input) \in Seq(URL) /\ Last(input) \in URL
        BY <3>1, FrontLast
      <3> QED
        BY <1>1, <3>1, <3>2 DEF Pop
    <2> QED
      BY <1>1, <2>1 DEF Pop, Inv, TypeOK, LocalInv, LockInv, bounds, limits
  <1>2. CASE PopTimeout(n)
    BY <1>2 DEF PopTimeout, Inv, TypeOK, LocalInv, LockInv, vars, stores, bounds, limits
  <1>3. ASSUME NEW w \in WorkersOf(n), Give(w) PROVE Inv'
    <2> DEFINE k == [work[w] EXCEPT !.pc = "target", !.job = hand[NodeOf[w]]]
    <2>1. w \in Worker /\ NodeOf[w] \in Node /\ work[w] \in Work /\ Placed(work[w])
          /\ work \in [Worker -> Work] /\ hand \in [Node -> URL \cup {None}]
      BY ParserAssumption DEF WorkersOf, Inv, TypeOK, LocalInv
    <2>2. /\ work[w].pc = "idle" /\ hand[NodeOf[w]] \in URL /\ work' = [work EXCEPT ![w] = k]
          /\ hand' = [hand EXCEPT ![NodeOf[w]] = None] /\ UNCHANGED <<stores, node, bounds, commits>>
      BY <1>3, <2>1 DEF Give
    <2>3. /\ k \in Work /\ k.pc = "target" /\ k.job \in URL /\ k.url = work[w].url
          /\ k.result = work[w].result
      BY <2>1, <2>2 DEF Work, PC
    <2> HIDE DEF k
    <2>4. Placed(k)
      BY <2>1, <2>2, <2>3 DEF Placed, OnDocument
    <2>5. /\ work' \in [Worker -> Work] /\ LocalInv'
          /\ \A v \in Worker : work'[v].pc = "off" <=> node'[NodeOf[v]] = "down"
          /\ work'[w] = k /\ \A v \in Worker \ {w} : work'[v] = work[v]
      BY <2>1, <2>2, <2>3, <2>4, WorkType DEF Inv
    <2>6. LockInv'
      BY <2>2, <2>3, <2>5 DEF Inv, LockInv, stores
    <2>7. TypeOK'
      BY <2>1, <2>2, <2>5 DEF Inv, TypeOK, stores, bounds, limits
    <2> QED
      BY <2>5, <2>6, <2>7 DEF Inv
  <1>4. CASE Drop(n)
    <2>1. hand' \in [Node -> URL \cup {None}]
      BY <1>4 DEF Drop, Inv, TypeOK
    <2> QED
      BY <1>4, <2>1 DEF Drop, Inv, TypeOK, LocalInv, LockInv, stores, bounds, limits
  <1>5. CASE Stop(n)
    <2>1. input' \in Seq(URL) /\ node' \in [Node -> {"up", "stopping", "down"}]
      <3>1. input \in Seq(URL) /\ node \in [Node -> {"up", "stopping", "down"}]
        BY DEF Inv, TypeOK
      <3>2. input # <<>> => Front(input) \in Seq(URL)
        BY <3>1, FrontLast
      <3> QED
        BY <1>5, <3>1, <3>2 DEF Stop
    <2>2. stops' \in 0 .. MaxStops /\ risked' \in Nat
      <3>1. Cardinality(Asking(n)) \in Nat
        BY Askings
      <3> QED
        BY <1>5, <3>1, ParserAssumption DEF Stop, Inv, TypeOK
    <2>3. \A w \in Worker : node'[NodeOf[w]] = "down" <=> node[NodeOf[w]] = "down"
      BY <1>5, ParserAssumption DEF Stop, Inv, TypeOK
    <2>4. UNCHANGED <<web, latest, versions, broken, holder, output, hand, work, faults, asked,
                      changes, ended, commits>>
      BY <1>5 DEF Stop
    <2> QED
      BY <2>1, <2>2, <2>3, <2>4 DEF Inv, TypeOK, LocalInv, LockInv
  <1> QED
    BY <1>1, <1>2, <1>3, <1>4, <1>5

\* All the workers of a replica come to an end or begin.
LEMMA ReplicaInv ==
    ASSUME Inv, NEW n \in Node, Stopped(n) \/ Crash(n) \/ Restart(n)
    PROVE  Inv'
  <1>1. PICK place \in {"off", "idle"} :
          /\ work' = AllWorkers(n, place)
          /\ node' = [node EXCEPT ![n] = IF place = "off" THEN "down" ELSE "up"]
    BY DEF Stopped, Crash, Restart
  <1>2. work \in [Worker -> Work] /\ (\A w \in Worker : Placed(work[w]))
        /\ (\A w \in Worker : work[w].pc = "off" <=> node[NodeOf[w]] = "down")
        /\ node \in [Node -> {"up", "stopping", "down"}] /\ NodeOf \in [Worker -> Node]
    BY ParserAssumption DEF Inv, TypeOK, LocalInv
  <1>3. \A w \in Worker : work'[w] = IF NodeOf[w] = n THEN NoWork(place) ELSE work[w]
    BY <1>1 DEF AllWorkers, WorkersOf
  <1>4. work' \in [Worker -> Work]
    BY <1>1, <1>2, NoWorkType DEF AllWorkers
  <1>5. \A w \in Worker : Placed(work'[w])
    BY <1>2, <1>3, NoWorkType
  <1>6. \A w \in Worker : work'[w].pc = "off" <=> node'[NodeOf[w]] = "down"
    <2> TAKE w \in Worker
    <2>1. CASE NodeOf[w] = n
      BY <1>1, <1>2, <1>3, <2>1, NoWorkType
    <2>2. CASE NodeOf[w] # n
      BY <1>1, <1>2, <1>3, <2>2
    <2> QED
      BY <2>1, <2>2
  <1>7. node' \in [Node -> {"up", "stopping", "down"}]
    BY <1>1, <1>2
  <1>8. /\ holder' \in [Domain -> Worker \cup {None}] /\ hand' \in [Node -> URL \cup {None}]
        /\ stops' \in 0 .. MaxStops
        /\ UNCHANGED <<input, web, latest, versions, broken, output, faults, asked, changes, risked, ended, commits>>
    <2>1. /\ holder \in [Domain -> Worker \cup {None}] /\ hand \in [Node -> URL \cup {None}]
          /\ stops \in 0 .. MaxStops /\ MaxStops \in Nat
      BY ParserAssumption DEF Inv, TypeOK
    <2>2. CASE Stopped(n) \/ Restart(n)
      BY <2>1, <2>2 DEF Stopped, Restart, stores, bounds, limits
    <2>3. CASE Crash(n)
      BY <2>1, <2>3 DEF Crash
    <2> QED
      BY <2>2, <2>3
  <1>9. ASSUME NEW w \in Worker, work'[w].pc = "commit"
        PROVE  holder'[DomainOf[work'[w].url]] = w /\ work'[w].seen = latest'[work'[w].url]
    <2>1. NodeOf[w] # n /\ work'[w] = work[w]
      BY <1>3, <1>9, NoWorkType
    <2>2. holder[DomainOf[work[w].url]] = w /\ work[w].seen = latest[work[w].url]
          /\ DomainOf[work[w].url] \in Domain
      BY <1>9, <2>1, Names, ParserAssumption DEF Inv, LockInv, LocalInv, Placed, OnDocument
    <2>3. holder'[DomainOf[work[w].url]] = w
      BY <2>1, <2>2 DEF Stopped, Crash, Restart, WorkersOf, stores
    <2> QED
      BY <1>8, <2>1, <2>2, <2>3
  <1>10. TypeOK'
    BY <1>4, <1>6, <1>7, <1>8 DEF Inv, TypeOK
  <1> QED
    BY <1>5, <1>9, <1>10 DEF Inv, LocalInv, LockInv

LEMMA InvStep == Inv /\ [Next]_vars => Inv'
  <1> SUFFICES ASSUME Inv, [Next]_vars PROVE Inv'
    OBVIOUS
  <1>1. CASE UNCHANGED vars
    BY <1>1 DEF Inv, TypeOK, LocalInv, LockInv, vars, stores, bounds, limits
  <1>2. ASSUME NEW w \in Worker, WorkerStep(w) PROVE Inv'
    BY <1>2, WorkerDoes, DoesInv DEF Inv
  <1> QED
    BY <1>1, <1>2, OutsideInv, DispatcherInv, ReplicaInv DEF Next, Dispatch

\* Workers run exactly in the replicas that are not down, each document is tried at
\* most MAX_RETRIES + 1 times (withRetries, main.go:316), and what a worker
\* announces has been fetched.
THEOREM TypeCorrect == Spec => []TypeOK
  <1>1. Inv => TypeOK
    BY DEF Inv
  <1> QED
    BY <1>1, InvInit, InvStep, PTL DEF Spec

\* Of the workers of all replicas one at a time is in a transaction on a domain,
\* and what saveParsedPage read in it is still true when it commits (store.go):
\* the row lock does what contentChanged relies on.
THEOREM ReadsHold == Spec => []LockInv
  <1>1. Inv => LockInv
    BY DEF Inv
  <1> QED
    BY <1>1, InvInit, InvStep, PTL DEF Spec

(***************************************************************************)
(* Parser implements VersionFeed.                                          *)
(***************************************************************************)

\* What Feed substitutes for latest and announcing, the latter for any work `f`.
Shown == [u \in Document |-> IF latest[u] = None THEN None ELSE <<u, latest[u]>>]
DebtsOf(f) == [v \in Version |-> Cardinality({w \in Worker : v \in Owes(f[w])})]
Debts == DebtsOf(work)

\* The steps of VersionFeed, spelled out over the state of Parser.
FeedStutters == UNCHANGED <<Shown, Debts, output>>

FeedCommits == \E v \in Version :
    /\ Shown[v[1]] # v /\ Shown' = [Shown EXCEPT ![v[1]] = v]
    /\ Debts' \in {Debts, [Debts EXCEPT ![v] = @ + 1]}
    /\ UNCHANGED output

FeedAnnounces == \E v \in Version :
    /\ Debts[v] > 0 /\ Debts' = [Debts EXCEPT ![v] = @ - 1]
    /\ output' = Append(output, v) /\ UNCHANGED Shown

FeedLoses == (\A v \in Version : Debts'[v] <= Debts[v]) /\ UNCHANGED <<Shown, output>>

FeedStep == FeedStutters \/ FeedCommits \/ FeedAnnounces \/ FeedLoses

LEMMA FeedStepIsNext == FeedStep => [Feed!Next]_(Feed!feedVars)
  <1> USE DEF Shown, Debts, DebtsOf, Announcing, Owes
  <1> SUFFICES ASSUME FeedStep PROVE [Feed!Next]_(Feed!feedVars)
    OBVIOUS
  <1>1. CASE FeedStutters
    BY <1>1 DEF FeedStutters, Feed!feedVars
  <1>2. CASE FeedCommits
    BY <1>2 DEF FeedCommits, Feed!Next, Feed!Commit
  <1>3. CASE FeedAnnounces
    BY <1>3 DEF FeedAnnounces, Feed!Next, Feed!Announce
  <1>4. CASE FeedLoses
    BY <1>4 DEF FeedLoses, Feed!Next, Feed!Lose
  <1> QED
    BY <1>1, <1>2, <1>3, <1>4 DEF FeedStep

\* Between f and g one worker gets to do k.
Replaced(f, g, w, k) ==
    /\ f \in [Worker -> Work] /\ g \in [Worker -> Work] /\ w \in Worker /\ k \in Work
    /\ g[w] = k /\ \A y \in Worker \ {w} : g[y] = f[y]

\* The count of those who owe v goes up and down with what this worker owes.
LEMMA DebtsChange ==
    ASSUME NEW f, NEW g, NEW w, NEW k, Replaced(f, g, w, k)
    PROVE  /\ Owes(k) = Owes(f[w]) => DebtsOf(g) = DebtsOf(f)
           /\ \A v \in Version :
                 /\ v \notin Owes(f[w]) /\ Owes(k) = Owes(f[w]) \cup {v} =>
                       DebtsOf(g) = [DebtsOf(f) EXCEPT ![v] = @ + 1]
                 /\ v \in Owes(f[w]) /\ Owes(k) = Owes(f[w]) \ {v} =>
                       /\ DebtsOf(f)[v] > 0
                       /\ DebtsOf(g) = [DebtsOf(f) EXCEPT ![v] = @ - 1]
  <1> DEFINE Old(x) == {y \in Worker : x \in Owes(f[y])}
             New(x) == {y \in Worker : x \in Owes(g[y])}
  <1>1. w \in Worker /\ g[w] = k /\ \A y \in Worker : y # w => g[y] = f[y]
    BY DEF Replaced
  <1>2. \A x \in Version : IsFiniteSet(Old(x)) /\ IsFiniteSet(New(x))
    BY FS_Subset, ParserAssumption
  <1>3. \A x \in Version : Cardinality(Old(x)) \in Nat
    BY <1>2, FS_CardinalityType
  <1>4. \A x \in Version : (x \in Owes(k) <=> x \in Owes(f[w])) => New(x) = Old(x)
    BY <1>1
  <1>5. ASSUME NEW v \in Version, v \notin Owes(f[w]), Owes(k) = Owes(f[w]) \cup {v}
        PROVE  DebtsOf(g) = [DebtsOf(f) EXCEPT ![v] = @ + 1]
    <2>1. New(v) = Old(v) \cup {w} /\ w \notin Old(v)
      BY <1>1, <1>5
    <2>2. Cardinality(New(v)) = Cardinality(Old(v)) + 1
      BY <1>2, <2>1, FS_AddElement
    <2>3. \A x \in Version : x # v => New(x) = Old(x)
      BY <1>4, <1>5
    <2> QED
      BY <2>2, <2>3 DEF DebtsOf
  <1>6. ASSUME NEW v \in Version, v \in Owes(f[w]), Owes(k) = Owes(f[w]) \ {v}
        PROVE  DebtsOf(f)[v] > 0 /\ DebtsOf(g) = [DebtsOf(f) EXCEPT ![v] = @ - 1]
    <2>1. Old(v) = New(v) \cup {w} /\ w \notin New(v)
      BY <1>1, <1>6
    <2>2. Cardinality(Old(v)) = Cardinality(New(v)) + 1 /\ Cardinality(New(v)) \in Nat
      BY <1>2, <2>1, FS_AddElement, FS_CardinalityType
    <2>3. \A x \in Version : x # v => New(x) = Old(x)
      BY <1>4, <1>6
    <2>4. Cardinality(New(v)) = Cardinality(Old(v)) - 1 /\ Cardinality(Old(v)) > 0
      BY <2>2
    <2> QED
      BY <2>3, <2>4 DEF DebtsOf
  <1> QED
    BY <1>4, <1>5, <1>6 DEF DebtsOf

LEMMA DoesFeedStep ==
    ASSUME Inv, NEW w \in Worker, NEW k, Does(w, k)
    PROVE  FeedStep
  <1> DEFINE was == work[w]
             v   == VersionAt(was)
  <1>1. /\ TypeOK /\ work \in [Worker -> Work] /\ k \in Work /\ was \in Work /\ Placed(was)
        /\ latest \in [Document -> Content \cup {None}]
        /\ Replaced(work, work', w, k)
    BY DEF Inv, TypeOK, LocalInv, Does, Replaced
  <1>2. Debts' = DebtsOf(work')
    BY DEF Debts
  <1>3. CASE Silent(w, k)
    <2>1. Debts' = Debts
      BY <1>1, <1>2, <1>3, DebtsChange DEF Silent, Debts
    <2> QED
      BY <1>3, <2>1 DEF Silent, FeedStep, FeedStutters, Shown
  <1>4. CASE Changes(w, k)
    <2>1. /\ v \in Version /\ was.url \in Document /\ was.content \in Content
          /\ v[1] = was.url /\ v = <<was.url, was.content>> /\ was.content # None
      BY <1>1, <1>4, Names DEF Changes, Placed, OnDocument, VersionAt
    <2>2. Debts' \in {Debts, [Debts EXCEPT ![v] = @ + 1]}
      <3>1. Owes(k) = Owes(was) \/ (v \notin Owes(was) /\ Owes(k) = Owes(was) \cup {v})
        BY <1>4 DEF Changes
      <3> HIDE DEF v
      <3>2. \/ DebtsOf(work') = DebtsOf(work)
            \/ DebtsOf(work') = [DebtsOf(work) EXCEPT ![v] = @ + 1]
        BY <1>1, <2>1, <3>1, DebtsChange
      <3> QED
        BY <1>2, <3>2 DEF Debts
    <2>3. latest[was.url] # was.content
      BY <1>4 DEF Changes, Inv, LockInv
    <2>4. Shown[v[1]] # v
      <3>1. None \notin Document \X Content
        BY ParserAssumption DEF Document
      <3>2. Shown[was.url] = IF latest[was.url] = None THEN None ELSE <<was.url, latest[was.url]>>
        BY <2>1 DEF Shown
      <3>3. v # None
        BY <2>1, <3>1 DEF Version
      <3> QED
        BY <2>1, <2>3, <3>2, <3>3
    <2>5. Shown' = [Shown EXCEPT ![v[1]] = v]
      BY <1>1, <1>4, <2>1 DEF Shown, Changes
    <2> QED
      BY <1>4, <2>1, <2>2, <2>4, <2>5 DEF Changes, FeedStep, FeedCommits
  <1>5. CASE Announces(w, k)
    <2>1. v \in Version /\ Debts[v] > 0 /\ Debts' = [Debts EXCEPT ![v] = @ - 1]
      <3>1. v \in Version /\ v \in Owes(was) /\ Owes(k) = Owes(was) \ {v}
        BY <1>5 DEF Announces
      <3> HIDE DEF v
      <3>2. /\ DebtsOf(work)[v] > 0
            /\ DebtsOf(work') = [DebtsOf(work) EXCEPT ![v] = @ - 1]
        BY <1>1, <3>1, DebtsChange
      <3> QED
        BY <1>2, <3>1, <3>2 DEF Debts
    <2>2. Shown' = Shown
      BY <1>5 DEF Announces, Shown
    <2>3. \A x \in Version : Debts[x] \in Nat
      BY FS_Subset, FS_CardinalityType, ParserAssumption DEF Debts, DebtsOf
    <2>4. \A x \in Version : Debts'[x] <= Debts[x]
      <3>1. Debts = [x \in Version |-> Debts[x]]
        BY DEF Debts, DebtsOf
      <3> HIDE DEF v
      <3> QED
        BY <2>1, <2>3, <3>1
    <2> QED
      BY <1>5, <2>1, <2>2, <2>4 DEF Announces, FeedStep, FeedAnnounces, FeedLoses
  <1> QED
    BY <1>3, <1>4, <1>5 DEF Does

LEMMA GiveDebts ==
    ASSUME Inv, NEW w \in Worker, Give(w)
    PROVE  Debts' = Debts
  <1> DEFINE k == [work[w] EXCEPT !.pc = "target", !.job = hand[NodeOf[w]]]
  <1>1. work \in [Worker -> Work]
    BY DEF Inv, TypeOK
  <1>2. work[w].pc = "idle" /\ work' = [work EXCEPT ![w] = k] /\ hand[NodeOf[w]] \in URL
    BY <1>1, ParserAssumption DEF Give, Inv, TypeOK
  <1>3. work[w] \in Work /\ work[w].result = None
    BY <1>1, <1>2 DEF Inv, LocalInv, Placed
  <1>4. k \in Work /\ k.pc = "target" /\ k.result = None
    BY <1>2, <1>3 DEF Work, PC
  <1> HIDE DEF k
  <1>5. Owes(k) = Owes(work[w])
    BY <1>2, <1>3, <1>4 DEF Owes
  <1>6. Replaced(work, work', w, k)
    BY <1>1, <1>2, <1>4 DEF Replaced
  <1> QED
    BY <1>1, <1>4, <1>5, <1>6, DebtsChange DEF Debts

\* Neither the mapper, the web nor a dispatcher changes what is announced; with a
\* replica go the announcements its workers had still to make.
LEMMA OthersFeedStep ==
    ASSUME Inv, (\E u \in URL : Ask(u)) \/ (\E u \in Document, c \in Content \cup {Blank} : Edit(u, c))
                \/ (\E n \in Node : Dispatch(n) \/ Stop(n) \/ Crash(n) \/ Restart(n))
    PROVE  FeedStep
  <1>1. work \in [Worker -> Work]
    BY DEF Inv, TypeOK
  <1>2. UNCHANGED <<latest, output>> /\ Shown' = Shown
    BY DEF Ask, Edit, Dispatch, Pop, PopTimeout, Give, Drop, Stopped, Stop, Crash, Restart,
           stores, vars, Shown
  <1>3. ASSUME UNCHANGED work PROVE FeedStep
    <2>1. Debts' = Debts
      BY <1>3 DEF Debts
    <2> QED
      BY <1>2, <2>1 DEF FeedStep, FeedStutters
  <1>4. ASSUME NEW w \in Worker, Give(w) PROVE FeedStep
    BY <1>2, <1>4, GiveDebts DEF FeedStep, FeedStutters
  <1>5. ASSUME NEW n \in Node, NEW place \in {"off", "idle"}, work' = AllWorkers(n, place)
        PROVE  FeedStep
    <2>1. \A w \in Worker : work'[w] = IF NodeOf[w] = n THEN NoWork(place) ELSE work[w]
      BY <1>5 DEF AllWorkers, WorkersOf
    <2>2. \A w \in Worker : Owes(work'[w]) \subseteq Owes(work[w])
      BY <2>1, NoWorkType
    <2>3. \A v \in Version : Debts'[v] <= Debts[v]
      <3> TAKE v \in Version
      <3>1. {w \in Worker : v \in Owes(work'[w])} \subseteq {w \in Worker : v \in Owes(work[w])}
        BY <2>2
      <3>2. IsFiniteSet({w \in Worker : v \in Owes(work[w])})
        BY FS_Subset, ParserAssumption
      <3> QED
        BY <3>1, <3>2, FS_Subset DEF Debts, DebtsOf
    <2> QED
      BY <1>2, <2>3 DEF FeedStep, FeedLoses
  <1>6. ASSUME NEW n \in Node, Dispatch(n) \/ Stop(n) \/ Crash(n) \/ Restart(n)
        PROVE  FeedStep
    <2>1. CASE Pop(n) \/ PopTimeout(n) \/ Drop(n) \/ Stop(n)
      BY <1>3, <2>1 DEF Pop, PopTimeout, Drop, Stop, vars
    <2>2. CASE \E w \in WorkersOf(n) : Give(w)
      BY <1>4, <2>2 DEF WorkersOf
    <2>3. CASE Stopped(n) \/ Crash(n) \/ Restart(n)
      BY <1>5, <2>3 DEF Stopped, Crash, Restart
    <2> QED
      BY <1>6, <2>1, <2>2, <2>3 DEF Dispatch
  <1> QED
    BY <1>3, <1>6 DEF Ask, Edit

\* Whatever the pages do and whatever fails, the replicas together keep what
\* VersionFeed promises the vectorizer: every request on parser:out goes back to
\* one change that saveParsedPage committed, and to no other request's.
THEOREM Refinement == Spec => RefinesFeed
  <1>1. Init => Feed!Init
    <2> SUFFICES ASSUME Init PROVE Feed!Init
      OBVIOUS
    <2>1. \A w \in Worker : Owes(work[w]) = {}
      BY NoWorkType DEF Init
    <2>2. \A v \in Version : Announcing(v) = {}
      BY <2>1 DEF Announcing
    <2> QED
      BY <2>2, FS_EmptySet DEF Init, Feed!Init
  <1>2. Inv /\ [Next]_vars => [Feed!Next]_(Feed!feedVars)
    <2> SUFFICES ASSUME Inv, [Next]_vars PROVE FeedStep
      BY FeedStepIsNext
    <2>1. CASE UNCHANGED vars
      <3>1. Shown' = Shown /\ Debts' = Debts /\ UNCHANGED output
        BY <2>1 DEF Shown, Debts, vars, stores
      <3> QED
        BY <3>1 DEF FeedStep, FeedStutters
    <2>2. ASSUME NEW w \in Worker, WorkerStep(w) PROVE FeedStep
      BY <2>2, WorkerDoes, DoesFeedStep DEF Inv
    <2> QED
      BY <2>1, <2>2, OthersFeedStep DEF Next
  <1> QED
    BY <1>1, <1>2, InvInit, InvStep, PTL DEF Spec, RefinesFeed, Feed!Spec

(***************************************************************************)
(* Without a failure of the stores every change is announced.              *)
(***************************************************************************)

Sound == faults \subseteq {"fetch", "stop"} /\ stops = 0

\* No replica stops uncounted.
Running == stops = 0 => \A n \in Node : node[n] = "up"

LEMMA CopiesAppend ==
    ASSUME NEW s \in Seq(Version), NEW x \in Version, NEW v \in Version
    PROVE  Copies(v, s) \in Nat /\ Copies(v, Append(s, x)) = Copies(v, s) + (IF x = v THEN 1 ELSE 0)
  <1> DEFINE n      == Len(s)
             Was    == {i \in 1 .. n : s[i] = v}
             Is     == {i \in 1 .. n + 1 : Append(s, x)[i] = v}
  <1>1. n \in Nat /\ DOMAIN s = 1 .. n /\ DOMAIN Append(s, x) = 1 .. n + 1
    BY AppendProperties, LenProperties
  <1>2. Append(s, x)[n + 1] = x /\ \A i \in 1 .. n : Append(s, x)[i] = s[i]
    BY AppendProperties, LenProperties
  <1>3. IsFiniteSet(Was) /\ Cardinality(Was) \in Nat
    <2>1. IsFiniteSet(1 .. n)
      BY <1>1, FS_Interval
    <2>2. Was \in SUBSET (1 .. n)
      OBVIOUS
    <2>3. IsFiniteSet(Was)
      BY <2>1, <2>2, FS_Subset
    <2> QED
      BY <2>3, FS_CardinalityType
  <1>4. Copies(v, s) = Cardinality(Was) /\ Copies(v, Append(s, x)) = Cardinality(Is)
    BY <1>1 DEF Copies
  <1> HIDE DEF n
  <1>5. n + 1 \notin Was /\ Is = IF x = v THEN Was \cup {n + 1} ELSE Was
    BY <1>1, <1>2
  <1>6. Cardinality(Is) = Cardinality(Was) + (IF x = v THEN 1 ELSE 0)
    <2> HIDE DEF Was, Is
    <2>1. Cardinality(Was \cup {n + 1}) = Cardinality(Was) + 1
      BY <1>3, <1>5, FS_AddElement
    <2> QED
      BY <1>3, <1>5, <2>1
  <1> QED
    BY <1>3, <1>4, <1>6

LEMMA DoesAccounts ==
    ASSUME Inv, Sound, Running, EveryChangeAnnounced, NEW w \in Worker, NEW k, Does(w, k)
    PROVE  \A v \in Version : Copies(v, output') + Debts'[v] = Copies(v, commits')
  <1> DEFINE was == work[w]
             x   == VersionAt(was)
  <1>1. /\ TypeOK /\ work \in [Worker -> Work] /\ k \in Work /\ was \in Work
        /\ output \in Seq(Version) /\ commits \in Seq(Version)
        /\ Replaced(work, work', w, k)
    BY DEF Inv, TypeOK, Does, Replaced
  <1>2. \A v \in Version : Copies(v, output) + Debts[v] = Copies(v, commits)
    BY DEF EveryChangeAnnounced, Sound, Debts, DebtsOf, Announcing
  <1>3. \A v \in Version : Debts[v] \in Nat
    BY FS_Subset, FS_CardinalityType, ParserAssumption DEF Debts, DebtsOf
  <1>4. Debts = [v \in Version |-> Debts[v]] /\ Debts = DebtsOf(work) /\ Debts' = DebtsOf(work')
    BY DEF Debts, DebtsOf
  <1>5. CASE Silent(w, k)
    <2>1. Debts' = Debts
      BY <1>1, <1>4, <1>5, DebtsChange DEF Silent
    <2> QED
      BY <1>2, <1>5, <2>1 DEF Silent
  <1>6. CASE Changes(w, k)
    <2>1. x \in Version /\ output' = output /\ commits' = Append(commits, x)
          /\ x \notin Owes(was) /\ Owes(k) = Owes(was) \cup {x}
      BY <1>6 DEF Changes, Sound
    <2> HIDE DEF x
    <2>2. DebtsOf(work') = [DebtsOf(work) EXCEPT ![x] = @ + 1]
      BY <1>1, <2>1, DebtsChange
    <2>3. \A v \in Version : Debts'[v] = Debts[v] + (IF x = v THEN 1 ELSE 0)
      BY <1>3, <1>4, <2>1, <2>2
    <2>4. \A v \in Version : Copies(v, commits') = Copies(v, commits) + (IF x = v THEN 1 ELSE 0)
      BY <1>1, <2>1, CopiesAppend
    <2>5. \A v \in Version : Copies(v, output) \in Nat
      BY <1>1, <2>1, CopiesAppend
    <2> QED
      BY <1>2, <1>3, <2>1, <2>3, <2>4, <2>5
  <1>7. CASE Announces(w, k)
    <2>1. node[NodeOf[w]] = "up"
      BY ParserAssumption DEF Running, Sound
    <2>2. x \in Version /\ output' = Append(output, x) /\ commits' = commits
          /\ x \in Owes(was) /\ Owes(k) = Owes(was) \ {x}
      BY <1>7, <2>1 DEF Announces, Sound, Cancelled
    <2> HIDE DEF x
    <2>3. DebtsOf(work') = [DebtsOf(work) EXCEPT ![x] = @ - 1]
      BY <1>1, <2>2, DebtsChange
    <2>4. \A v \in Version : Debts'[v] = Debts[v] - (IF x = v THEN 1 ELSE 0)
      BY <1>3, <1>4, <2>2, <2>3
    <2>5. \A v \in Version : Copies(v, output') = Copies(v, output) + (IF x = v THEN 1 ELSE 0)
                             /\ Copies(v, output) \in Nat
      BY <1>1, <2>2, CopiesAppend
    <2>6. \A v \in Version : Copies(v, commits') = Copies(v, commits)
      BY <2>2
    <2> QED
      BY <1>2, <1>3, <2>4, <2>5, <2>6
  <1> QED
    BY <1>5, <1>6, <1>7 DEF Does

LEMMA RunningStep == Inv /\ Running /\ [Next]_vars => Running'
  <1> SUFFICES ASSUME Inv, Running, [Next]_vars, stops' = 0 PROVE \A n \in Node : node'[n] = "up"
    BY DEF Running
  <1>1. stops \in Nat /\ node \in [Node -> {"up", "stopping", "down"}]
    BY ParserAssumption DEF Inv, TypeOK
  <1>2. ASSUME NEW w \in Worker, WorkerStep(w) PROVE UNCHANGED <<node, stops>>
    BY <1>2, WorkerDoes DEF Does, limits, Inv
  <1>3. ASSUME NEW n \in Node, Dispatch(n) \/ Stop(n) \/ Crash(n) \/ Restart(n)
        PROVE  \/ UNCHANGED <<node, stops>> \/ stops' # 0
               \/ node[n] \in {"stopping", "down"} /\ UNCHANGED stops
    <2>1. CASE Dispatch(n)
      BY <2>1 DEF Dispatch, Pop, PopTimeout, Give, Drop, Stopped, bounds, limits, vars
    <2>2. CASE Stop(n) \/ Crash(n)
      BY <1>1, <2>2 DEF Stop, Crash
    <2>3. CASE Restart(n)
      BY <2>3 DEF Restart, bounds, limits
    <2> QED
      BY <1>3, <2>1, <2>2, <2>3
  <1>4. CASE UNCHANGED vars \/ (\E u \in URL : Ask(u))
             \/ (\E u \in Document, c \in Content \cup {Blank} : Edit(u, c))
    BY <1>4 DEF vars, limits, bounds, Ask, Edit, Running
  <1> QED
    BY <1>2, <1>3, <1>4 DEF Next, Running

\* As long as neither the stores fail nor a replica stops, every version that
\* saveParsedPage committed as a change is on parser:out, as often as it was
\* committed, or its worker is on the way to put it there.
THEOREM ChangesAnnounced == Spec => []EveryChangeAnnounced
  <1>1. Init => Running /\ EveryChangeAnnounced
    <2> SUFFICES ASSUME Init PROVE Running /\ EveryChangeAnnounced
      OBVIOUS
    <2>1. \A v \in Version : Announcing(v) = {}
      BY NoWorkType DEF Init, Announcing
    <2>2. \A v \in Version : {i \in DOMAIN <<>> : <<>>[i] = v} = {}
      OBVIOUS
    <2>3. \A v \in Version : Copies(v, <<>>) = 0
      BY <2>2, FS_EmptySet DEF Copies
    <2>4. output = <<>> /\ commits = <<>> /\ Cardinality({}) = 0 /\ Running
      BY FS_EmptySet DEF Init, Running
    <2> QED
      BY <2>1, <2>3, <2>4 DEF EveryChangeAnnounced
  <1>2. Inv /\ Running /\ EveryChangeAnnounced /\ [Next]_vars => EveryChangeAnnounced'
    <2> SUFFICES ASSUME Inv, Running, EveryChangeAnnounced, [Next]_vars, Sound'
                 PROVE  \A v \in Version : Copies(v, output') + Debts'[v] = Copies(v, commits')
      BY DEF EveryChangeAnnounced, Sound, Debts, DebtsOf, Announcing, Copies, Owes
    <2>1. stops \in Nat /\ stops' = 0 /\ faults' \subseteq {"fetch", "stop"}
      BY ParserAssumption DEF Inv, TypeOK, Sound
    <2>2. ASSUME NEW w \in Worker, WorkerStep(w)
          PROVE  \A v \in Version : Copies(v, output') + Debts'[v] = Copies(v, commits')
      <3>1. PICK k : Does(w, k)
        BY <2>2, WorkerDoes DEF Inv
      <3>2. Sound
        BY <2>1, <3>1 DEF Does, limits, Sound
      <3> QED
        BY <3>1, <3>2, DoesAccounts
    <2>3. ASSUME UNCHANGED <<output, commits, faults, stops>>, Debts' = Debts
          PROVE  \A v \in Version : Copies(v, output') + Debts'[v] = Copies(v, commits')
      <3>1. Sound
        BY <2>1, <2>3 DEF Sound
      <3>2. \A v \in Version : Copies(v, output) + Debts[v] = Copies(v, commits)
        BY <3>1 DEF EveryChangeAnnounced, Sound, Debts, DebtsOf, Announcing
      <3> QED
        BY <2>3, <3>2
    <2>4. CASE UNCHANGED vars \/ (\E u \in URL : Ask(u))
               \/ (\E u \in Document, c \in Content \cup {Blank} : Edit(u, c))
      <3>1. UNCHANGED <<output, commits, faults, stops, work>>
        BY <2>4 DEF vars, stores, bounds, limits, Ask, Edit
      <3>2. Debts' = Debts
        BY <3>1 DEF Debts
      <3> QED
        BY <2>3, <3>1, <3>2
    <2>5. ASSUME NEW n \in Node, Dispatch(n) \/ Stop(n) \/ Crash(n) \/ Restart(n)
          PROVE  \A v \in Version : Copies(v, output') + Debts'[v] = Copies(v, commits')
      <3>1. CASE Pop(n) \/ PopTimeout(n) \/ Drop(n)
        <4>1. UNCHANGED <<output, commits, faults, stops, work>>
          BY <3>1 DEF Pop, PopTimeout, Drop, vars, stores, bounds, limits
        <4>2. Debts' = Debts
          BY <4>1 DEF Debts
        <4> QED
          BY <2>3, <4>1, <4>2
      <3>2. ASSUME NEW w \in WorkersOf(n), Give(w)
            PROVE  \A v \in Version : Copies(v, output') + Debts'[v] = Copies(v, commits')
        <4>1. UNCHANGED <<output, commits, faults, stops>>
          BY <3>2 DEF Give, stores, bounds, limits
        <4>2. Debts' = Debts
          BY <3>2, GiveDebts DEF WorkersOf
        <4> QED
          BY <2>3, <4>1, <4>2
      <3>3. CASE Stop(n) \/ Crash(n)
        BY <2>1, <3>3 DEF Stop, Crash
      <3>4. CASE Stopped(n) \/ Restart(n)
        <4>1. stops = 0 /\ node[n] # "up"
          BY <2>1, <3>4 DEF Stopped, Restart, bounds, limits
        <4> QED
          BY <4>1 DEF Running
      <3> QED
        BY <2>5, <3>1, <3>2, <3>3, <3>4 DEF Dispatch
    <2> QED
      BY <2>2, <2>4, <2>5 DEF Next
  <1> QED
    BY <1>1, <1>2, RunningStep, InvInit, InvStep, PTL DEF Spec

(***************************************************************************)
(* While pages can be fetched and stay as they are, no document is marked  *)
(* as broken.                                                              *)
(***************************************************************************)

Calm == "fetch" \notin faults /\ changes = 0 /\ stops = 0

\* A page that serves no text never had any, so it never was saved.
NeverSaved == \A u \in Document : web[u] = Blank => latest[u] = None

\* A worker fails on a document only when that serves no text.
Tells(k) ==
    /\ k.pc = "error" => web[k.url] = Blank
    /\ k.pc \in {"save", "commit"} => web[k.url] # Blank

Founded == Calm => broken = {} /\ NeverSaved /\ \A w \in Worker : Tells(work[w])

LEMMA CalmBefore ==
    ASSUME Inv, [Next]_vars, Calm'
    PROVE  Calm /\ web' = web
  <1>1. changes \in Nat /\ stops \in Nat
    BY ParserAssumption DEF Inv, TypeOK
  <1>2. ASSUME NEW w \in Worker, WorkerStep(w) PROVE UNCHANGED <<web, limits>>
    BY <1>2, WorkerDoes DEF Does, Inv
  <1>3. ASSUME NEW n \in Node, Dispatch(n) \/ Stop(n) \/ Crash(n) \/ Restart(n)
        PROVE  UNCHANGED <<web, faults, changes>> /\ (UNCHANGED stops \/ stops' = stops + 1)
    BY <1>3 DEF Dispatch, Pop, PopTimeout, Give, Drop, Stopped, Stop, Crash, Restart,
                bounds, limits, stores, vars
  <1>4. CASE UNCHANGED vars \/ (\E u \in URL : Ask(u))
             \/ (\E u \in Document, c \in Content \cup {Blank} : Edit(u, c))
    BY <1>1, <1>4 DEF vars, stores, bounds, limits, Ask, Edit, Calm
  <1> QED
    BY <1>1, <1>2, <1>3, <1>4 DEF Next, Calm, limits

LEMMA WorkerFounded ==
    ASSUME Inv, Founded, Calm, Running, NEW w \in Worker, WorkerStep(w)
    PROVE  broken' = {} /\ NeverSaved' /\ (\A v \in Worker : Tells(work[v]))'
  <1> DEFINE was == work[w]
             is  == work'[w]
  <1>1. /\ was \in Work /\ Placed(was) /\ work \in [Worker -> Work] /\ web' = web
        /\ latest \in [Document -> Content \cup {None}]
        /\ broken = {} /\ NeverSaved /\ (\A v \in Worker : Tells(work[v]))
        /\ TypeOK /\ LocalInv /\ ~Cancelled(w)
    <2>1. web' = web
      BY WorkerDoes DEF Does, Inv
    <2>2. ~Cancelled(w)
      BY ParserAssumption DEF Running, Calm, Cancelled
    <2> QED
      BY <2>1, <2>2 DEF Inv, TypeOK, LocalInv, Founded
  <1>2. ASSUME Tells(work'[w]), broken' = {}, NeverSaved', \A v \in Worker \ {w} : work'[v] = work[v]
        PROVE  broken' = {} /\ NeverSaved' /\ (\A v \in Worker : Tells(work[v]))'
    BY <1>1, <1>2 DEF Tells
  <1>0. is = work'[w] /\ \A v \in Worker \ {w} : work'[v] = work[v]
    BY <1>1, WorkerDoes DEF Does, Inv
  <1>3. ASSUME UNCHANGED latest PROVE NeverSaved'
    BY <1>1, <1>3 DEF NeverSaved
  <1>4. ASSUME Through(w), was.pc \in OnDocument \cup {"target"},
               was.pc = "links" => was.result = None
        PROVE  Tells(is)
    <2>1. is = AfterThrough(was) /\ AfterThrough(was).pc \in {"idle", "links"}
      BY <1>1, <1>4, ThroughWork
    <2> QED
      BY <2>1 DEF Tells
  <1>5. CASE Target(w) \/ TargetFails(w)
    <2>1. UNCHANGED <<latest, broken>> /\ was.pc = "target"
      BY <1>5 DEF Target, TargetFails, stores
    <2>4. CASE TargetFails(w)
      <3>1. is.pc = "idle"
        BY <1>1, <2>4 DEF TargetFails, Go, NoWork
      <3> QED
        BY <1>0, <1>1, <1>2, <1>3, <2>1, <3>1 DEF Tells
    <2>2. CASE Through(w)
      BY <1>0, <1>1, <1>2, <1>3, <1>4, <2>1, <2>2
    <2>3. CASE Go(Fetching(w, was.job))
      <3>1. is.pc = "try"
        BY <1>1, <2>3 DEF Go, Fetching, Work
      <3> QED
        BY <1>0, <1>1, <1>2, <1>3, <2>1, <3>1 DEF Tells
    <2> QED
      BY <1>5, <2>2, <2>3, <2>4 DEF Target
  <1>6. CASE Try(w) \/ Fetch(w) \/ FetchFails(w) \/ ExtractFails(w)
    <2>1. UNCHANGED <<latest, broken>>
      BY <1>6 DEF Try, Fetch, FetchFails, ExtractFails, stores
    <2>2. CASE Try(w)
      <3>1. is.pc = "fetch"
        BY <1>1, <2>2 DEF Try, Work
      <3> QED
        BY <1>0, <1>1, <1>2, <1>3, <2>1, <3>1 DEF Tells
    <2>3. CASE Fetch(w)
      <3>1. is.pc = "save" /\ is.url = was.url /\ web[was.url] # Blank
        BY <1>1, <2>3 DEF Fetch, Work
      <3> QED
        BY <1>0, <1>1, <1>2, <1>3, <2>1, <3>1 DEF Tells
    <2>4. CASE FetchFails(w) \/ ExtractFails(w)
      <3>1. is.pc \in {"try", "error"} /\ is.url = was.url
           /\ web[was.url] = Blank
        BY <1>1, <2>4 DEF FetchFails, ExtractFails, Calm, Work
      <3> QED
        BY <1>0, <1>1, <1>2, <1>3, <2>1, <3>1 DEF Tells
    <2> QED
      BY <1>6, <2>2, <2>3, <2>4
  <1>7. CASE RecordError(w) \/ RecordErrorFails(w)
    <2>1. was.pc = "error" /\ Through(w) /\ UNCHANGED latest
      BY <1>7 DEF RecordError, RecordErrorFails, stores
    <2>2. was.url \in Document /\ latest[was.url] = None
      BY <1>1, <2>1 DEF Tells, NeverSaved, Placed, OnDocument
    <2>3. broken' = {}
      BY <1>1, <1>7, <2>2 DEF RecordError, RecordErrorFails, stores
    <2> QED
      BY <1>0, <1>1, <1>2, <1>3, <1>4, <2>1, <2>3 DEF OnDocument
  <1>8. CASE Save(w)
    <2>1. is.pc = "commit" /\ is.url = was.url
      BY <1>1, <1>8 DEF Save, Work
    <2>2. was.pc = "save" /\ UNCHANGED <<latest, broken>>
      BY <1>8 DEF Save
    <2> QED
      BY <1>0, <1>1, <1>2, <1>3, <2>1, <2>2 DEF Tells
  <1>9. ASSUME was.pc = "commit", Committed(w) PROVE broken' = {} /\ NeverSaved'
    <2>1. was.url \in Document /\ web[was.url] # Blank
      BY <1>1, <1>9 DEF Tells, Placed, OnDocument
    <2>2. broken' = {} /\ latest' \in {latest, [latest EXCEPT ![was.url] = was.content]}
      BY <1>1, <1>9 DEF Committed
    <2> QED
      BY <1>1, <2>1, <2>2 DEF NeverSaved
  <1>10. CASE Commit(w)
    <2>1. was.pc = "commit" /\ Committed(w) /\ was.url \in Document
      BY <1>1, <1>10 DEF Commit, Placed, OnDocument
    <2>2. CASE Through(w)
      BY <1>0, <1>1, <1>2, <1>4, <1>9, <2>1, <2>2 DEF OnDocument
    <2>3. CASE ~Through(w)
      <3>1. is.pc \in {"links", "push"}
        <4>1. CASE was.url \in Page
          <5> DEFINE k == [was EXCEPT !.pc = "links", !.links = PdfLinks[was.url],
                                      !.result = IF ContentChanged(w) THEN was.content ELSE None]
          <5>1. work' = [work EXCEPT ![w] = k]
            BY <1>1, <1>10, <4>1, Names DEF Commit, Go
          <5>2. k.pc = "links"
            BY <1>1 DEF Work
          <5> QED
            BY <1>1, <5>1, <5>2
        <4>2. CASE was.url \in Pdf
          <5>1. work' = [work EXCEPT ![w] = [was EXCEPT !.pc = "push"]]
            BY <1>1, <1>10, <2>3, <4>2, Names DEF Commit, Go
          <5> QED
            BY <1>1, <5>1 DEF Work
        <4> QED
          BY <2>1, <4>1, <4>2, Names
      <3> QED
        BY <1>0, <1>2, <1>9, <2>1, <3>1 DEF Tells
    <2> QED
      BY <2>2, <2>3
  <1>11. CASE SaveFails(w)
    <2>1. was.pc \in {"save", "commit"} /\ Through(w)
      BY <1>11 DEF SaveFails
    <2>2. broken' = {} /\ NeverSaved'
      BY <1>1, <1>3, <1>9, <1>11 DEF SaveFails
    <2> QED
      BY <1>0, <1>2, <1>4, <2>1, <2>2 DEF OnDocument
  <1>12. CASE (\E u \in was.links : NextLink(w, u)) \/ LinksDone(w)
    <2>1. UNCHANGED <<latest, broken>> /\ was.pc = "links"
      BY <1>12 DEF NextLink, LinksDone, stores
    <2>2. CASE LinksDone(w) /\ was.result = None
      BY <1>0, <1>1, <1>2, <1>3, <1>4, <2>1, <2>2 DEF LinksDone, OnDocument
    <2>3. CASE LinksDone(w) /\ was.result # None
      <3>1. is.pc = "push"
        BY <1>1, <2>3 DEF LinksDone, Go, Work
      <3> QED
        BY <1>0, <1>1, <1>2, <1>3, <2>1, <3>1 DEF Tells
    <2>4. CASE \E u \in was.links : NextLink(w, u)
      <3>1. is.pc = "try"
        BY <1>1, <2>4 DEF NextLink, Fetching, Work
      <3> QED
        BY <1>0, <1>1, <1>2, <1>3, <2>1, <3>1 DEF Tells
    <2> QED
      BY <1>12, <2>2, <2>3, <2>4
  <1>13. CASE Push(w) \/ PushFails(w)
    <2>1. UNCHANGED <<latest, broken>> /\ was.pc = "push" /\ Through(w)
      BY <1>13 DEF Push, PushFails
    <2> QED
      BY <1>0, <1>1, <1>2, <1>3, <1>4, <2>1 DEF OnDocument
  <1> QED
    BY <1>5, <1>6, <1>7, <1>8, <1>10, <1>11, <1>12, <1>13 DEF WorkerStep

LEMMA RestFounded ==
    ASSUME Inv, Founded, Calm, Calm',
           \/ UNCHANGED vars \/ (\E u \in URL : Ask(u))
           \/ \E u \in Document, c \in Content \cup {Blank} : Edit(u, c)
           \/ \E n \in Node : Dispatch(n) \/ Stop(n) \/ Crash(n) \/ Restart(n)
    PROVE  broken' = {} /\ NeverSaved' /\ (\A v \in Worker : Tells(work[v]))'
  <1>1. /\ work \in [Worker -> Work] /\ broken = {} /\ NeverSaved /\ \A v \in Worker : Tells(work[v])
        /\ changes \in Nat /\ stops \in Nat
    BY ParserAssumption DEF Inv, TypeOK, Founded
  <1>2. UNCHANGED <<web, latest, broken>>
    <2>1. ASSUME NEW u \in Document, NEW c \in Content \cup {Blank}, Edit(u, c) PROVE FALSE
      BY <1>1, <2>1 DEF Edit, Calm
    <2>2. ASSUME NEW n \in Node, Dispatch(n) \/ Stop(n) \/ Crash(n) \/ Restart(n)
          PROVE  UNCHANGED <<web, latest, broken>>
      BY <2>2 DEF stores, vars, Dispatch, Pop, PopTimeout, Give, Drop, Stopped, Stop, Crash, Restart
    <2>3. CASE UNCHANGED vars \/ (\E u \in URL : Ask(u))
      BY <2>3 DEF vars, stores, Ask
    <2> QED
      BY <2>1, <2>2, <2>3
  <1>3. \A v \in Worker : work'[v] = work[v] \/ work'[v].pc \in {"off", "idle", "target"}
    <2>1. ASSUME NEW n \in Node, NEW place \in {"off", "idle"}, work' = AllWorkers(n, place)
          PROVE  \A v \in Worker : work'[v] = work[v] \/ work'[v].pc \in {"off", "idle", "target"}
      BY <2>1 DEF AllWorkers, NoWork
    <2>2. ASSUME NEW v \in Worker, Give(v)
          PROVE  \A x \in Worker : work'[x] = work[x] \/ work'[x].pc \in {"off", "idle", "target"}
      BY <1>1, <2>2 DEF Give, Work
    <2> QED
      BY <2>1, <2>2 DEF vars, Ask, Edit, Dispatch, Pop, PopTimeout, WorkersOf, Drop,
                Stopped, Stop, Crash, Restart
  <1> QED
    BY <1>1, <1>2, <1>3 DEF NeverSaved, Tells

\* As long as pages can be fetched and do not change and no replica stops, what
\* recordParseError would mark was never saved: last_error stays empty, whatever
\* saveParsedPage, the queues and the announcements run into.
THEOREM NoFalseErrors == Spec => []ErrorsFounded
  <1>1. Init => Founded /\ Running
    BY DEF Init, Founded, Running, NeverSaved, Tells, NoWork
  <1>2. Inv /\ Running /\ Founded /\ [Next]_vars => Founded'
    <2> SUFFICES ASSUME Inv, Running, Founded, [Next]_vars, Calm'
                 PROVE  (broken = {} /\ NeverSaved /\ \A w \in Worker : Tells(work[w]))'
      BY DEF Founded
    <2>1. Calm
      BY CalmBefore
    <2> QED
      BY <2>1, WorkerFounded, RestFounded DEF Next
  <1>3. Founded => ErrorsFounded
    BY DEF Founded, Calm, ErrorsFounded
  <1> QED
    BY <1>1, <1>2, <1>3, RunningStep, InvInit, InvStep, PTL DEF Spec


(***************************************************************************)
(* What a stop costs.                                                      *)
(***************************************************************************)

\* The workers that have a job, the dispatchers that hold a request, and of both
\* those that may still drop theirs: `f`, `h` and `nd` are values of work, hand
\* and node.
Busy(f)      == {w \in Worker : f[w].job # None}
Offered(h)   == {n \in Node : h[n] # None}
AtRisk(h, nd) == {n \in Node : h[n] # None /\ nd[n] = "stopping"}
Failing(f, nd) == {w \in Worker : f[w].pc = "target" /\ nd[NodeOf[w]] = "stopping"}

\* A worker has a job exactly while it is running one.
Employed(k) == k.job = None <=> k.pc \in {"off", "idle"}
Employment  == \A w \in Worker : Employed(work[w])

Outstanding == Len(input) + Cardinality(Offered(hand)) + Cardinality(Busy(work)) + ended

Mild == faults \subseteq {"fetch", "stop"}

\* Every stop pays for the requests that its replica has lost or may still lose.
Paid == Mild =>
    /\ Outstanding <= asked
    /\ asked - Outstanding + Cardinality(AtRisk(hand, node)) + Cardinality(Failing(work, node)) <= risked
    /\ \A n \in Node : node[n] = "down" => hand[n] = None

\* The subsets of a finite set and what one element more or less counts.
LEMMA Counting ==
    /\ \A f : IsFiniteSet(Busy(f)) /\ Cardinality(Busy(f)) \in Nat
    /\ \A h : IsFiniteSet(Offered(h)) /\ Cardinality(Offered(h)) \in Nat
    /\ \A h, nd : IsFiniteSet(AtRisk(h, nd)) /\ Cardinality(AtRisk(h, nd)) \in Nat
    /\ \A f, nd : IsFiniteSet(Failing(f, nd)) /\ Cardinality(Failing(f, nd)) \in Nat
    /\ \A n \in Node : IsFiniteSet(Asking(n)) /\ Cardinality(Asking(n)) \in Nat
  <1>1. /\ \A f : Busy(f) \in SUBSET Worker
        /\ \A f, nd : Failing(f, nd) \in SUBSET Worker
        /\ \A n \in Node : Asking(n) \in SUBSET Worker
    BY DEF Busy, Failing, Asking, WorkersOf
  <1>2. \A h, nd : Offered(h) \in SUBSET Node /\ AtRisk(h, nd) \in SUBSET Node
    BY DEF Offered, AtRisk
  <1> QED
    BY <1>1, <1>2, FS_Subset, FS_CardinalityType, ParserAssumption

LEMMA OneLess ==
    ASSUME NEW S, NEW T, IsFiniteSet(S), NEW x \in S, T = S \ {x}
    PROVE  Cardinality(S) \in Nat /\ Cardinality(T) = Cardinality(S) - 1
  BY FS_RemoveElement, FS_CardinalityType

LEMMA OneMore ==
    ASSUME NEW S, NEW T, IsFiniteSet(S), NEW x, x \notin S, T = S \cup {x}
    PROVE  Cardinality(S) \in Nat /\ Cardinality(T) = Cardinality(S) + 1
  BY FS_AddElement, FS_CardinalityType

\* A worker whose replica stops does not get the URL of its job.
Dooms(w) == work[w].pc = "target" /\ node[NodeOf[w]] = "stopping"

\* A worker keeps its job, is through with it, or drops it.
Works(w) ==
    /\ Employed(work'[w]) /\ \A v \in Worker \ {w} : work'[v] = work[v]
    /\ work'[w].pc # "target"
    /\ \/ work'[w].job = work[w].job /\ ended' = ended /\ ~Dooms(w)
       \/ work[w].job # None /\ work'[w].job = None /\ ended' = ended + 1 /\ ~Dooms(w)
       \/ work[w].job # None /\ work'[w].job = None /\ ended' = ended /\ (Mild => Dooms(w))

LEMMA WorkerWorks ==
    ASSUME Inv, Employment, NEW w \in Worker, WorkerStep(w)
    PROVE  Works(w)
  <1> DEFINE was == work[w]
             is  == work'[w]
  <1>1. /\ was \in Work /\ Placed(was) /\ work \in [Worker -> Work] /\ Employed(was)
        /\ TypeOK /\ LocalInv
    BY DEF Inv, TypeOK, LocalInv, Employment
  <1>2. \A v \in Worker \ {w} : work'[v] = work[v]
    BY <1>1, WorkerDoes DEF Does, Inv
  <1>3. ASSUME Through(w), was.pc \in OnDocument \cup {"target"}, ~Dooms(w) PROVE Works(w)
    <2>1. was.job # None
      BY <1>1, <1>3, Names DEF Placed
    <2>2. CASE was.url = was.job \/ was.pc = "target"
      <3>1. is = NoWork("idle") /\ ended' = ended + 1
        BY <1>1, <1>3, <2>2 DEF Through
      <3> QED
        BY <1>2, <1>3, <2>1, <3>1 DEF Works, Employed, NoWork
    <2>3. CASE was.url # was.job /\ was.pc # "target"
      <3>1. is = [was EXCEPT !.pc = "links", !.url = was.job] /\ ended' = ended
        BY <1>1, <1>3, <2>3 DEF Through
      <3>2. is.job = was.job /\ is.pc = "links"
        BY <1>1, <3>1 DEF Work
      <3> QED
        BY <1>2, <1>3, <2>1, <3>1, <3>2 DEF Works, Employed
    <2> QED
      BY <2>2, <2>3
  <1>10. was.pc \in OnDocument => ~Dooms(w)
    BY DEF Dooms, OnDocument
  <1>4. ASSUME is.job = was.job, is.pc \in OnDocument, was.pc \notin {"off", "idle"}, ended' = ended,
               ~Dooms(w)
        PROVE  Works(w)
    BY <1>1, <1>2, <1>4 DEF Works, Employed, OnDocument
  <1>5. CASE Target(w)
    <2>1. was.pc = "target" /\ ~Dooms(w)
      BY <1>5 DEF Target, Cancelled, Dooms
    <2>2. CASE Through(w)
      BY <1>3, <2>1, <2>2
    <2>3. CASE Go(Fetching(w, was.job))
      <3>1. is.job = was.job /\ is.pc = "try" /\ ended' = ended
        BY <1>1, <2>3 DEF Go, Fetching, Work
      <3> QED
        BY <1>4, <2>1, <3>1 DEF OnDocument
    <2> QED
      BY <1>5, <2>2, <2>3 DEF Target
  <1>11. CASE TargetFails(w)
    <2>1. was.pc = "target" /\ is = NoWork("idle") /\ ended' = ended /\ was.job # None
      BY <1>1, <1>11, Names DEF TargetFails, Go, Placed
    <2>2. Mild => Dooms(w)
      BY <1>11 DEF TargetFails, Cancelled, Dooms, Mild
    <2> QED
      BY <1>2, <2>1, <2>2 DEF Works, Employed, NoWork
  <1>6. CASE Try(w) \/ Fetch(w) \/ FetchFails(w) \/ ExtractFails(w) \/ Save(w)
    <2>1. ended' = ended /\ was.pc \in {"try", "fetch", "save"} /\ ~Dooms(w)
      BY <1>6 DEF Try, Fetch, FetchFails, ExtractFails, Save, bounds, Dooms
    <2>2. CASE Try(w)
      BY <1>1, <1>4, <2>1, <2>2 DEF Try, Work, OnDocument
    <2>3. CASE Fetch(w) \/ ExtractFails(w)
      BY <1>1, <1>4, <2>1, <2>3 DEF Fetch, ExtractFails, Work, OnDocument
    <2>4. CASE FetchFails(w)
      BY <1>1, <1>4, <2>1, <2>4 DEF FetchFails, Work, OnDocument
    <2>5. CASE Save(w)
      BY <1>1, <1>4, <2>1, <2>5 DEF Save, Work, OnDocument
    <2> QED
      BY <1>6, <2>2, <2>3, <2>4, <2>5
  <1>7. CASE RecordError(w) \/ RecordErrorFails(w) \/ SaveFails(w) \/ Push(w) \/ PushFails(w)
    <2>1. Through(w) /\ was.pc \in OnDocument
      BY <1>7 DEF RecordError, RecordErrorFails, SaveFails, Push, PushFails, OnDocument
    <2> QED
      BY <1>3, <1>10, <2>1
  <1>8. CASE Commit(w)
    <2>1. was.pc = "commit" /\ was.url \in Document
      BY <1>1, <1>8 DEF Commit, Placed, OnDocument
    <2>2. CASE Through(w)
      BY <1>3, <1>10, <2>1, <2>2 DEF OnDocument
    <2>3. CASE was.url \in Page
      <3> DEFINE k == [was EXCEPT !.pc = "links", !.links = PdfLinks[was.url],
                                  !.result = IF ContentChanged(w) THEN was.content ELSE None]
      <3>1. work' = [work EXCEPT ![w] = k] /\ ended' = ended
        BY <1>1, <1>8, <2>3, Names DEF Commit, Go
      <3>2. k.pc = "links" /\ k.job = was.job
        BY <1>1 DEF Work
      <3> HIDE DEF k
      <3> QED
        BY <1>1, <1>4, <1>10, <2>1, <3>1, <3>2 DEF OnDocument
    <2>4. CASE was.url \in Pdf /\ ~Through(w)
      <3>1. work' = [work EXCEPT ![w] = [was EXCEPT !.pc = "push"]] /\ ended' = ended
        BY <1>1, <1>8, <2>4, Names DEF Commit, Go
      <3> QED
        BY <1>1, <1>4, <1>10, <2>1, <3>1 DEF Work, OnDocument
    <2> QED
      BY <2>1, <2>2, <2>3, <2>4, Names
  <1>9. CASE (\E u \in was.links : NextLink(w, u)) \/ LinksDone(w)
    <2>1. was.pc = "links"
      BY <1>9 DEF NextLink, LinksDone
    <2>2. CASE LinksDone(w) /\ was.result = None
      BY <1>3, <1>10, <2>1, <2>2 DEF LinksDone, OnDocument
    <2>3. CASE LinksDone(w) /\ was.result # None
      <3>1. is.job = was.job /\ is.pc = "push" /\ ended' = ended
        BY <1>1, <2>3 DEF LinksDone, Go, Work
      <3> QED
        BY <1>4, <1>10, <2>1, <3>1 DEF OnDocument
    <2>4. CASE \E u \in was.links : NextLink(w, u)
      <3>1. is.job = was.job /\ is.pc = "try" /\ ended' = ended
        BY <1>1, <2>4 DEF NextLink, Fetching, Work, bounds
      <3> QED
        BY <1>4, <1>10, <2>1, <3>1 DEF OnDocument
    <2> QED
      BY <1>9, <2>2, <2>3, <2>4
  <1> QED
    BY <1>5, <1>6, <1>7, <1>8, <1>9, <1>11 DEF WorkerStep

LEMMA WorkerPaid ==
    ASSUME Inv, Employment, Paid, NEW w \in Worker, WorkerStep(w)
    PROVE  Employment' /\ Paid'
  <1>1. Works(w) /\ UNCHANGED <<input, hand, node, limits>>
    BY WorkerWorks, WorkerDoes DEF Does, Inv
  <1>2. ended \in Nat /\ Len(input) \in Nat /\ asked \in Nat /\ risked \in Nat
    BY ParserAssumption DEF Inv, TypeOK
  <1>3. Employment'
    BY <1>1 DEF Employment, Works
  <1>4. /\ Cardinality(Busy(work)) \in Nat /\ Cardinality(Offered(hand)) \in Nat
        /\ Cardinality(Failing(work, node)) \in Nat /\ Cardinality(AtRisk(hand, node)) \in Nat
        /\ Cardinality(Busy(work')) \in Nat
    BY Counting
  <1>5. w \in Failing(work, node) <=> Dooms(w)
    BY DEF Failing, Dooms
  <1>6. Failing(work', node') = Failing(work, node) \ {w}
    BY <1>1 DEF Failing, Works
  <1>7. UNCHANGED <<asked, risked, faults, AtRisk(hand, node)>>
    BY <1>1 DEF limits
  <1>12. /\ Outstanding = Len(input) + Cardinality(Offered(hand)) + Cardinality(Busy(work)) + ended
         /\ Outstanding' = Len(input) + Cardinality(Offered(hand)) + Cardinality(Busy(work')) + ended'
    BY <1>1 DEF Outstanding
  <1>8. CASE work'[w].job = work[w].job /\ ended' = ended /\ ~Dooms(w)
    <2>1. Busy(work') = Busy(work) /\ Failing(work', node') = Failing(work, node)
      BY <1>1, <1>5, <1>6, <1>8 DEF Busy, Works
    <2>2. Outstanding' = Outstanding
      BY <1>1, <1>8, <2>1 DEF Outstanding
    <2> QED
      BY <1>1, <1>3, <1>7, <2>1, <2>2 DEF Paid, Mild
  <1>9. ASSUME work[w].job # None, work'[w].job = None
        PROVE  Cardinality(Busy(work')) = Cardinality(Busy(work)) - 1
    <2>1. w \in Busy(work) /\ Busy(work') = Busy(work) \ {w}
      BY <1>1, <1>9 DEF Busy, Works
    <2> QED
      BY <2>1, Counting, OneLess
  <1>10. CASE work[w].job # None /\ work'[w].job = None /\ ended' = ended + 1 /\ ~Dooms(w)
    <2>1. Failing(work', node') = Failing(work, node)
      BY <1>5, <1>6, <1>10
    <2>2. Outstanding' = Outstanding
      <3>1. Cardinality(Busy(work')) = Cardinality(Busy(work)) - 1 /\ ended' = ended + 1
        BY <1>9, <1>10
      <3> DEFINE rest == Len(input) + Cardinality(Offered(hand))
                 old == Cardinality(Busy(work))
                 new == Cardinality(Busy(work'))
      <3>2. rest \in Nat /\ old \in Nat /\ new = old - 1
        BY <1>2, <1>4, <3>1
      <3>3. Outstanding = rest + old + ended /\ Outstanding' = rest + new + ended'
        BY <1>12
      <3> HIDE DEF rest, old, new
      <3> QED
        BY <1>2, <3>1, <3>2, <3>3
    <2> QED
      BY <1>1, <1>3, <1>7, <2>1, <2>2 DEF Paid, Mild
  <1>11. CASE work[w].job # None /\ work'[w].job = None /\ ended' = ended /\ (Mild => Dooms(w))
    <2>1. Outstanding' = Outstanding - 1 /\ Outstanding \in Int
      <3>1. Cardinality(Busy(work')) = Cardinality(Busy(work)) - 1
        BY <1>9, <1>11
      <3> DEFINE rest == Len(input) + Cardinality(Offered(hand))
                 old == Cardinality(Busy(work))
                 new == Cardinality(Busy(work'))
      <3>2. rest \in Nat /\ old \in Nat /\ new = old - 1
        BY <1>2, <1>4, <3>1
      <3>3. Outstanding = rest + old + ended /\ Outstanding' = rest + new + ended
        BY <1>11, <1>12
      <3> HIDE DEF rest, old, new
      <3> QED
        BY <1>2, <3>2, <3>3
    <2>2. Mild => Cardinality(Failing(work', node')) = Cardinality(Failing(work, node)) - 1
      BY <1>5, <1>6, <1>11, Counting, OneLess
    <2>3. (Mild' <=> Mild) /\ UNCHANGED <<hand, node>>
      BY <1>1, <1>7 DEF Mild
    <2> DEFINE lost == asked - Outstanding
               old  == Cardinality(Failing(work, node))
               new  == Cardinality(Failing(work', node'))
               held == Cardinality(AtRisk(hand, node))
    <2>4. ASSUME Mild PROVE Outstanding' <= asked /\ asked - Outstanding' + held + new <= risked
      <3>1. new = old - 1 /\ old \in Nat /\ held \in Nat
        BY <1>4, <2>2, <2>4
      <3>2. Outstanding <= asked /\ asked - Outstanding + held + old <= risked
        BY <2>4 DEF Paid
      <3> HIDE DEF old, new, held
      <3> QED
        BY <1>2, <2>1, <3>1, <3>2
    <2>5. Cardinality(AtRisk(hand, node))' = held /\ asked' = asked /\ risked' = risked
      BY <1>7, <2>3
    <2>6. ASSUME Mild PROVE \A n \in Node : node'[n] = "down" => hand'[n] = None
      BY <2>3, <2>6 DEF Paid
    <2> QED
      BY <1>3, <2>3, <2>4, <2>5, <2>6 DEF Paid
  <1> QED
    BY <1>1, <1>8, <1>10, <1>11 DEF Works

\* What a step of a dispatcher, or of the outside, does to the requests.
LEMMA OthersPaid ==
    ASSUME Inv, Employment, Paid, [Next]_vars, ~\E w \in Worker : WorkerStep(w)
    PROVE  Employment' /\ Paid'
  <1>1. /\ input \in Seq(URL) /\ Len(input) \in Nat /\ ended \in Nat /\ asked \in Nat /\ risked \in Nat
        /\ work \in [Worker -> Work] /\ hand \in [Node -> URL \cup {None}]
        /\ node \in [Node -> {"up", "stopping", "down"}]
        /\ Cardinality(Offered(hand)) \in Nat /\ Cardinality(Busy(work)) \in Nat
        /\ Cardinality(AtRisk(hand, node)) \in Nat /\ Cardinality(Failing(work, node)) \in Nat
        /\ NodeOf \in [Worker -> Node]
    BY Counting, ParserAssumption DEF Inv, TypeOK
  <1>0. Outstanding \in Nat
    BY <1>1 DEF Outstanding
  <1>2. ASSUME UNCHANGED <<input, hand, work, ended, asked, node, risked, faults>>
        PROVE  Employment' /\ Paid'
    BY <1>2 DEF Employment, Paid, Outstanding, Mild
  <1>3. CASE UNCHANGED vars \/ (\E u \in Document, c \in Content \cup {Blank} : Edit(u, c))
    BY <1>2, <1>3 DEF vars, stores, bounds, limits, Edit
  <1>4. ASSUME NEW u \in URL, Ask(u) PROVE Employment' /\ Paid'
    <2>1. Len(input') = Len(input) + 1 /\ asked' = asked + 1
      BY <1>1, <1>4, AppendProperties DEF Ask
    <2>2. UNCHANGED <<hand, work, ended, node, risked, faults>>
      BY <1>4 DEF Ask
    <2>3. Outstanding' = Outstanding + 1
      BY <1>0, <1>1, <2>1, <2>2 DEF Outstanding
    <2> QED
      BY <1>0, <1>1, <2>1, <2>2, <2>3 DEF Employment, Paid, Mild
  <1>5. input # <<>> => Len(Front(input)) = Len(input) - 1 /\ Last(input) \in URL
    <2> SUFFICES ASSUME input # <<>> PROVE Len(Front(input)) = Len(input) - 1 /\ Last(input) \in URL
      OBVIOUS
    <2>1. Len(input) # 0 /\ Front(input) = SubSeq(input, 1, Len(input) - 1)
      BY <1>1, EmptySeq DEF Front
    <2>2. Last(input) \in URL
      BY <1>1, FrontLast
    <2>3. Len(input) - 1 \in Nat /\ \A i \in 1 .. Len(input) - 1 : input[i] \in URL
      BY <1>1, <2>1, ElementOfSeq
    <2> DEFINE last == Len(input) - 1
    <2>4. Len(SubSeq(input, 1, last)) = IF 1 <= last THEN last - 1 + 1 ELSE 0
      <3> HIDE DEF last
      <3>1. last \in Int /\ \A i \in 1 .. last : input[i] \in URL
        BY <2>3 DEF last
      <3> QED
        BY <3>1, SubSeqProperties
    <2>5. last \in Nat /\ last = Len(input) - 1 /\ Front(input) = SubSeq(input, 1, last)
      BY <2>1, <2>3
    <2> HIDE DEF last
    <2>6. Len(Front(input)) = last
      BY <2>4, <2>5
    <2> QED
      BY <2>2, <2>5, <2>6
  <1>6. ASSUME NEW n \in Node, Pop(n) PROVE Employment' /\ Paid'
    <2>1. CASE ~Mild
      BY <1>6, <2>1 DEF Pop, Employment, Paid, Mild, bounds, limits
    <2>2. CASE Mild
      <3>1. /\ Len(input') = Len(input) - 1 /\ hand[n] = None /\ node[n] = "up"
            /\ hand' = [hand EXCEPT ![n] = Last(input)] /\ Last(input) \in URL
            /\ UNCHANGED <<work, ended, asked, node, risked, faults>>
        BY <1>5, <1>6, <2>2 DEF Pop, Mild, bounds, limits
      <3>2. n \notin Offered(hand) /\ Offered(hand') = Offered(hand) \cup {n}
            /\ AtRisk(hand', node') = AtRisk(hand, node)
        BY <1>1, <3>1, Names DEF Offered, AtRisk
      <3>3. Cardinality(Offered(hand')) = Cardinality(Offered(hand)) + 1
        BY <3>2, Counting, OneMore
      <3>4. Outstanding' = Outstanding
        BY <1>1, <3>1, <3>3 DEF Outstanding
      <3> QED
        BY <1>1, <3>1, <3>2, <3>4 DEF Employment, Paid, Mild
    <2> QED
      BY <2>1, <2>2
  <1>7. ASSUME NEW w \in Worker, Give(w) PROVE Employment' /\ Paid'
    <2> DEFINE n == NodeOf[w]
    <2>1. /\ work[w].pc = "idle" /\ hand[n] # None /\ n \in Node /\ hand[n] \in URL
          /\ work' = [work EXCEPT ![w].pc = "target", ![w].job = hand[n]]
          /\ hand' = [hand EXCEPT ![n] = None]
          /\ UNCHANGED <<input, ended, asked, node, risked, faults>>
      BY <1>1, <1>7 DEF Give, stores, bounds, limits
    <2>2. /\ work'[w].pc = "target" /\ work'[w].job = hand[n] /\ work[w].job = None
          /\ \A v \in Worker \ {w} : work'[v] = work[v]
      BY <1>1, <2>1 DEF Work, Employment, Employed
    <2>3. w \notin Busy(work) /\ Busy(work') = Busy(work) \cup {w}
      BY <2>1, <2>2 DEF Busy
    <2>4. n \in Offered(hand) /\ Offered(hand') = Offered(hand) \ {n}
          /\ AtRisk(hand', node') \subseteq AtRisk(hand, node)
      BY <1>1, <2>1 DEF Offered, AtRisk
    <2>5. Cardinality(Busy(work')) = Cardinality(Busy(work)) + 1
      BY <2>3, Counting, OneMore
    <2>6. Cardinality(Offered(hand')) = Cardinality(Offered(hand)) - 1
      BY <2>4, Counting, OneLess
    <2>7. Outstanding' = Outstanding
      BY <1>0, <1>1, <2>1, <2>5, <2>6 DEF Outstanding
    <2>8. Cardinality(AtRisk(hand', node')) + Cardinality(Failing(work', node'))
            = Cardinality(AtRisk(hand, node)) + Cardinality(Failing(work, node))
      <3>1. w \notin Failing(work, node) /\ \A v \in Worker : work'[v].pc = "target" <=> v = w \/ work[v].pc = "target"
        BY <2>1, <2>2 DEF Failing
      <3>2. CASE node[n] = "stopping"
        <4>1. n \in AtRisk(hand, node) /\ AtRisk(hand', node') = AtRisk(hand, node) \ {n}
          BY <1>1, <2>1, <3>2 DEF AtRisk
        <4>2. Failing(work', node') = Failing(work, node) \cup {w}
          BY <2>1, <3>1, <3>2 DEF Failing
        <4>3. Cardinality(AtRisk(hand', node')) = Cardinality(AtRisk(hand, node)) - 1
          BY <4>1, Counting, OneLess
        <4>4. Cardinality(Failing(work', node')) = Cardinality(Failing(work, node)) + 1
          BY <3>1, <4>2, Counting, OneMore
        <4> QED
          BY <1>1, <4>3, <4>4
      <3>3. CASE node[n] # "stopping"
        <4>1. AtRisk(hand', node') = AtRisk(hand, node)
          BY <1>1, <2>1, <3>3 DEF AtRisk
        <4>2. Failing(work', node') = Failing(work, node)
          BY <2>1, <3>1, <3>3 DEF Failing
        <4> QED
          BY <4>1, <4>2
      <3> QED
        BY <3>2, <3>3
    <2>10. Cardinality(AtRisk(hand', node')) \in Nat /\ Cardinality(Failing(work', node')) \in Nat
      BY Counting
    <2>9. Employment'
      BY <2>1, <2>2, Names DEF Employment, Employed
    <2> DEFINE held  == Cardinality(AtRisk(hand, node))
               held2 == Cardinality(AtRisk(hand', node'))
               asks  == Cardinality(Failing(work, node))
               asks2 == Cardinality(Failing(work', node'))
    <2>11. ASSUME Mild PROVE Outstanding' <= asked /\ asked - Outstanding' + held2 + asks2 <= risked
      <3>1. held \in Nat /\ held2 \in Nat /\ asks \in Nat /\ asks2 \in Nat /\ held2 + asks2 = held + asks
        BY <1>1, <2>8, <2>10
      <3>2. Outstanding <= asked /\ asked - Outstanding + held + asks <= risked
        BY <2>11 DEF Paid
      <3> HIDE DEF held, held2, asks, asks2
      <3> QED
        BY <1>0, <1>1, <2>7, <3>1, <3>2
    <2>12. ASSUME Mild PROVE \A m \in Node : node'[m] = "down" => hand'[m] = None
      BY <1>1, <2>1, <2>12 DEF Paid
    <2>13. (Mild' <=> Mild) /\ asked' = asked /\ risked' = risked
      BY <2>1 DEF Mild
    <2> QED
      BY <2>9, <2>11, <2>12, <2>13 DEF Paid
  <1>8. ASSUME NEW n \in Node, Drop(n) PROVE Employment' /\ Paid'
    <2>1. /\ node[n] = "stopping" /\ hand[n] # None /\ hand' = [hand EXCEPT ![n] = None]
          /\ UNCHANGED <<input, work, ended, asked, node, risked, faults>>
      BY <1>8 DEF Drop, stores, bounds, limits
    <2>2. n \in Offered(hand) /\ Offered(hand') = Offered(hand) \ {n}
          /\ n \in AtRisk(hand, node) /\ AtRisk(hand', node') = AtRisk(hand, node) \ {n}
      BY <1>1, <2>1 DEF Offered, AtRisk
    <2>3. Cardinality(Offered(hand')) = Cardinality(Offered(hand)) - 1
          /\ Cardinality(AtRisk(hand', node')) = Cardinality(AtRisk(hand, node)) - 1
      BY <2>2, Counting, OneLess
    <2>4. Outstanding' = Outstanding - 1
      BY <1>0, <1>1, <2>1, <2>3 DEF Outstanding
    <2> QED
      BY <1>0, <1>1, <2>1, <2>3, <2>4 DEF Employment, Paid, Mild
  <1>9. ASSUME NEW n \in Node, Stop(n) PROVE Employment' /\ Paid'
    <2>1. /\ node[n] = "up" /\ node' = [node EXCEPT ![n] = "stopping"]
          /\ risked' = risked + 1 + Cardinality(Asking(n))
          /\ UNCHANGED <<hand, work, ended, asked, faults>>
      BY <1>9 DEF Stop
    <2>2. Cardinality(Failing(work', node')) = Cardinality(Failing(work, node)) + Cardinality(Asking(n))
          /\ Cardinality(Asking(n)) \in Nat
      <3>1. Failing(work', node') = Failing(work, node) \cup Asking(n)
        BY <1>1, <2>1 DEF Failing, Asking, WorkersOf
      <3>2. Failing(work, node) \cap Asking(n) = {}
        BY <2>1 DEF Failing, Asking, WorkersOf
      <3>3. /\ IsFiniteSet(Failing(work, node)) /\ IsFiniteSet(Asking(n))
            /\ Cardinality(Asking(n)) \in Nat /\ Cardinality(Failing(work, node)) \in Nat
        BY Counting
      <3>4. Cardinality(Failing(work, node) \cup Asking(n))
              = Cardinality(Failing(work, node)) + Cardinality(Asking(n)) - Cardinality({})
        BY <3>2, <3>3, FS_Union
      <3>5. Cardinality({}) = 0
        BY FS_EmptySet
      <3> QED
        BY <3>1, <3>3, <3>4, <3>5
    <2>3. ASSUME NEW lost \in {0, 1}, NEW held \in {0, 1}, lost + held <= 1,
                 Len(input') = Len(input) - lost,
                 Cardinality(AtRisk(hand', node')) = Cardinality(AtRisk(hand, node)) + held
          PROVE  Employment' /\ Paid'
      <3>1. Outstanding' = Outstanding - lost
        BY SMTT(30), <1>1, <2>1, <2>3 DEF Outstanding
      <3>2. \A m \in Node : node'[m] = "down" => node[m] = "down"
        BY <1>1, <2>1
      <3> DEFINE a == Cardinality(AtRisk(hand, node))
                 f == Cardinality(Failing(work, node))
                 g == Cardinality(Asking(n))
      <3>3. a \in Nat /\ f \in Nat /\ g \in Nat
        BY <1>1, <2>2
      <3>4. Mild => /\ Outstanding - lost <= asked
                    /\ asked - (Outstanding - lost) + (a + held) + (f + g) <= risked + 1 + g
        <4> HIDE DEF a, f, g
        <4>1. Mild => Outstanding <= asked /\ asked - Outstanding + a + f <= risked
          BY DEF Paid, a, f
        <4> QED
          BY <1>0, <1>1, <2>3, <3>3, <4>1
      <3> QED
        BY <2>1, <2>2, <2>3, <3>1, <3>2, <3>4 DEF Employment, Paid, Mild
    <2>4. CASE hand[n] = None
      <3>1. AtRisk(hand', node') = AtRisk(hand, node)
        BY <1>1, <2>1, <2>4 DEF AtRisk
      <3>2. Len(input') = Len(input) - 0 \/ Len(input') = Len(input) - 1
        BY <1>1, <1>5, <1>9 DEF Stop
      <3>3. Cardinality(AtRisk(hand', node')) = Cardinality(AtRisk(hand, node)) + 0
        BY <1>1, <3>1
      <3> QED
        BY <2>3, <3>2, <3>3
    <2>5. CASE hand[n] # None
      <3>1. n \notin AtRisk(hand, node) /\ AtRisk(hand', node') = AtRisk(hand, node) \cup {n}
        BY <1>1, <2>1, <2>5 DEF AtRisk
      <3>2. Cardinality(AtRisk(hand', node')) = Cardinality(AtRisk(hand, node)) + 1
        BY <3>1, Counting, OneMore
      <3>3. Len(input') = Len(input) - 0
        BY <1>1, <1>9, <2>5 DEF Stop
      <3> QED
        BY <2>3, <3>2, <3>3
    <2> QED
      BY <2>4, <2>5
  <1>10. ASSUME NEW n \in Node, Crash(n) PROVE Employment' /\ Paid'
    <2>1. ~Mild' /\ work' = AllWorkers(n, "off")
      BY <1>10 DEF Crash, Mild
    <2> QED
      BY <2>1 DEF Paid, Employment, Employed, AllWorkers, NoWork
  <1>11. ASSUME NEW n \in Node, Stopped(n) \/ Restart(n) PROVE Employment' /\ Paid'
    <2>1. PICK place \in {"off", "idle"} :
              /\ work' = AllWorkers(n, place)
              /\ UNCHANGED <<input, hand, ended, asked, risked, faults>>
      BY <1>11 DEF Stopped, Restart, stores, bounds, limits
    <2>2. /\ node[n] # "up" \/ hand[n] = None
          /\ \A v \in WorkersOf(n) : work[v].job = None
      <3>1. CASE Stopped(n)
        BY <3>1 DEF Stopped, WorkersOf, Employment, Employed
      <3>2. CASE Restart(n)
        <4>1. \A v \in WorkersOf(n) : work[v].pc = "off"
          BY <3>2 DEF Restart, WorkersOf, Inv, TypeOK
        <4> QED
          BY <3>2, <4>1 DEF Restart, WorkersOf, Employment, Employed
      <3> QED
        BY <1>11, <3>1, <3>2
    <2>3. Employment'
      BY <2>1 DEF Employment, Employed, AllWorkers, NoWork
    <2>4. Busy(work') = Busy(work)
      BY <2>1, <2>2 DEF Busy, AllWorkers, NoWork, WorkersOf
    <2>5. Outstanding' = Outstanding
      BY <2>1, <2>4 DEF Outstanding
    <2>7. Failing(work', node') = Failing(work, node)
      <3>1. /\ \A v \in WorkersOf(n) : work[v].pc # "target" /\ work'[v].pc # "target"
            /\ \A v \in Worker : v \notin WorkersOf(n) =>
                  work'[v] = work[v] /\ node'[NodeOf[v]] = node[NodeOf[v]]
        <4>1. \A v \in WorkersOf(n) : work[v].pc \in {"off", "idle"}
          BY <2>2 DEF Employment, Employed, WorkersOf
        <4>2. \A v \in Worker : work'[v] = IF v \in WorkersOf(n) THEN NoWork(place) ELSE work[v]
          BY <2>1 DEF AllWorkers
        <4>3. \A v \in WorkersOf(n) : work'[v].pc = place
          BY <4>2 DEF NoWork, WorkersOf
        <4> QED
          BY <1>1, <1>11, <2>1, <4>1, <4>2, <4>3 DEF Stopped, Restart, WorkersOf
      <3> QED
        BY <3>1 DEF Failing
    <2>6. Mild => /\ hand[n] = None /\ AtRisk(hand', node') = AtRisk(hand, node)
                  /\ \A m \in Node : node'[m] = "down" => hand'[m] = None
      BY <1>1, <1>11, <2>1 DEF Stopped, Restart, AtRisk, Paid
    <2> QED
      BY <2>1, <2>3, <2>5, <2>6, <2>7 DEF Paid, Mild
  <1>12. ASSUME NEW n \in Node, PopTimeout(n) PROVE Employment' /\ Paid'
    BY <1>3, <1>12 DEF PopTimeout
  <1> QED
    BY <1>3, <1>4, <1>6, <1>7, <1>8, <1>9, <1>10, <1>11, <1>12 DEF Next, Dispatch, WorkersOf

\* A replica that is stopped loses at most the request its dispatcher holds or is
\* just taking off mapper:out (main.go:132), and those that its workers are just
\* looking up (main.go:141): every other one stays on the list, or is run to the
\* end of processJob.
THEOREM StopsLoseFew == Spec => []StopLosesFew
  <1>1. Init => Employment /\ Paid
    <2> SUFFICES ASSUME Init PROVE Employment /\ Paid
      OBVIOUS
    <2>1. Busy(work) = {} /\ Offered(hand) = {} /\ AtRisk(hand, node) = {} /\ Failing(work, node) = {}
      BY DEF Init, Busy, Offered, AtRisk, Failing, NoWork
    <2>2. Cardinality({}) = 0 /\ Len(input) = 0 /\ ended = 0 /\ asked = 0 /\ risked = 0
      BY FS_EmptySet DEF Init
    <2>3. Employment
      BY DEF Init, Employment, Employed, NoWork
    <2>4. Outstanding = 0
      BY <2>1, <2>2 DEF Outstanding
    <2>5. \A n \in Node : node[n] = "up"
      BY DEF Init
    <2> QED
      BY <2>1, <2>2, <2>3, <2>4, <2>5 DEF Paid
  <1>2. Inv /\ Employment /\ Paid /\ [Next]_vars => (Employment /\ Paid)'
    BY WorkerPaid, OthersPaid
  <1>3. Inv /\ Paid => StopLosesFew
    <2> SUFFICES ASSUME Inv, Paid, Mild
                 PROVE  asked - Outstanding \in 0 .. risked
      BY DEF StopLosesFew, Outstanding, Offered, Busy, Mild
    <2>1. Outstanding \in Nat /\ asked \in Nat /\ risked \in Nat
          /\ Cardinality(AtRisk(hand, node)) \in Nat /\ Cardinality(Failing(work, node)) \in Nat
      <3>1. Len(input) \in Nat /\ ended \in Nat /\ asked \in Nat /\ risked \in Nat
        BY ParserAssumption DEF Inv, TypeOK
      <3> QED
        BY <3>1, Counting DEF Outstanding
    <2> QED
      BY <2>1 DEF Paid
  <1> QED
    BY <1>1, <1>2, <1>3, InvInit, InvStep, PTL DEF Spec
=============================================================================
