--------------------------- MODULE Pipeline_proofs ---------------------------
(***************************************************************************)
(* Theorems about Pipeline: what is proved of the vectorizer by itself     *)
(* holds of it behind the parsers, too, and what the two of them together  *)
(* leave in the index, for all documents, versions, collection scopes,     *)
(* configurations and faults.                                              *)
(***************************************************************************)
EXTENDS Pipeline, Vectorizer_proofs

\* For the vectorizer a step of the pipeline is a step of its own, the parser's
\* sending a message, or nothing.
LEMMA StepsOfVectorizer == [PNext]_pvars => [Next]_vars
  <1> SUFFICES ASSUME [PNext]_pvars PROVE [Next]_vars
    OBVIOUS
  <1>1. ASSUME NEW v \in Version, Commit(v) PROVE UNCHANGED vars
    BY <1>1 DEF Commit, Feed!Commit, vars, lists
  <1>2. CASE Feeding
    BY <1>2 DEF Feeding, Announce, Lose, Next
  <1>3. CASE Index \/ Outage \/ Again
    BY <1>3 DEF Index, Outage, Again, Next
  <1>4. CASE UNCHANGED pvars
    BY <1>4 DEF pvars
  <1> QED
    BY <1>1, <1>2, <1>3, <1>4 DEF PNext

\* Behind the parsers (main.go:231 pushes, main.py:112 takes) the vectorizer does
\* what it does on its own, so that each of its theorems is one of the pipeline's.
THEOREM PipelineVectorizes == PSpec => Spec
  <1>1. PInit => Init
    BY DEF PInit
  <1> QED
    BY <1>1, StepsOfVectorizer, PTL DEF PSpec, Spec

\* Nothing that is given up on disappears from the joint system either.
THEOREM PipelineKeeps == PSpec => []FailedKept
  BY PipelineVectorizes, GivenUpKept, PTL

(***************************************************************************)
(* The newest version.                                                     *)
(***************************************************************************)

\* A request for this version is not worked off yet.
Waiting(w) == announcing[w] > 0 \/ Copies(w, input) # 0 \/ Copies(w, processing) # 0
Wanted(p)  == {w \in Version : PlaceOf(w) = p /\ HasText(w) /\ Waiting(w)}

\* What is still to be done where nothing is disturbed: at most the newest
\* version is to be indexed, and it is wanted or shown.
Tidy(p) ==
    /\ \A w \in Wanted(p) : w = newest[p]
    /\ Wanted(p) # {} \/ Shows(p, newest[p])

FeedType ==
    /\ announcing \in [Version -> Nat]
    /\ newest \in [Place -> Version \cup {None}] /\ disturbed \subseteq Place

AllTidy == "resend" \notin faults => \A p \in Place : p \notin disturbed => Tidy(p)

PInv == Inv /\ Backed /\ FeedType /\ AllTidy

LEMMA Occurs ==
    ASSUME NEW V, NEW s \in Seq(V), NEW v
    PROVE  (\E i \in DOMAIN s : s[i] = v) <=> Copies(v, s) # 0
  <1> DEFINE S == {i \in DOMAIN s : s[i] = v}
  <1>1. IsFiniteSet(S)
    <2>1. IsFiniteSet(1 .. Len(s)) /\ DOMAIN s = 1 .. Len(s)
      BY FS_Interval
    <2> QED
      BY <2>1, FS_Subset
  <1> HIDE DEF S
  <1>2. Cardinality(S) = 0 <=> S = {}
    BY <1>1, FS_EmptySet
  <1> QED
    BY <1>2 DEF Copies, S

\* BRPOPLPUSH takes one copy from the other end.
LEMMA FrontCounts ==
    ASSUME NEW V, NEW s \in Seq(V), s # <<>>, NEW v
    PROVE  /\ Front(s) \in Seq(V)
           /\ Copies(v, s) = Copies(v, Front(s)) + (IF Last(s) = v THEN 1 ELSE 0)
  <1> DEFINE t == Front(s)
             k == Len(s)
  <1>1. /\ k \in 1 .. Len(s) /\ k \in Nat /\ s[k] = Last(s)
        /\ t \in Seq(V) /\ Len(t) = k - 1
        /\ \A j \in 1 .. k - 1 : t[j] = s[j]
    <2>1. Len(s) \in Nat /\ Len(s) # 0
      BY LenProperties, EmptySeq
    <2> DEFINE m == 1
               n == Len(s) - 1
    <2>2. m \in 1 .. Len(s) + 1 /\ n \in m - 1 .. Len(s) /\ n \in Nat
      BY <2>1
    <2> HIDE DEF m, n
    <2>3. /\ SubSeq(s, m, n) \in Seq(V)
          /\ Len(SubSeq(s, m, n)) = IF m <= n THEN n - m + 1 ELSE 0
          /\ \A j \in 1 .. n - m + 1 : SubSeq(s, m, n)[j] = s[m + j - 1]
      BY <2>2, SubSeqProperties
    <2>4. t = SubSeq(s, m, n) /\ m = 1 /\ n = k - 1
      BY DEF Front, m, n
    <2> HIDE DEF t
    <2>5. /\ t \in Seq(V) /\ Len(t) = k - 1 /\ \A j \in 1 .. k - 1 : t[j] = s[j]
      BY <2>1, <2>2, <2>3, <2>4
    <2> QED
      BY <2>1, <2>5 DEF Last
  <1> HIDE DEF t
  <1>2. \A j \in 1 .. Len(s) - 1 : t[j] = s[IF j < k THEN j ELSE j + 1]
    BY <1>1
  <1>3. Copies(v, s) = Copies(v, t) + (IF s[k] = v THEN 1 ELSE 0)
    BY <1>1, <1>2, DroppedCopies
  <1> QED
    BY <1>1, <1>3 DEF t

LEMMA TextOrNot ==
    ASSUME TypeOK, NEW v \in Version
    PROVE  HasText(v) <=> Size(v) # 0
  BY VectorizerAssumption DEF TypeOK, HasText, Size

LEMMA Places ==
    ASSUME NEW v \in Version
    PROVE  PlaceOf(v) \in Place /\ PlaceOf(v)[1] = DocOf[v] /\ PlaceOf(v)[2] = Collection[v]
  BY VectorizerAssumption DEF Place, PlaceOf

LEMMA PlacePair ==
    ASSUME NEW p \in Place
    PROVE  p = <<p[1], p[2]>>
  BY DEF Place

\* What is under way here, if it has text, is wanted.
LEMMA WantedUnderWay ==
    ASSUME TypeOK, NEW p
    PROVE  /\ ~UnderWay(p) => Wanted(p) = {}
           /\ \A w \in Version : PlaceOf(w) = p /\ Waiting(w) => UnderWay(p)
  BY Occurs DEF TypeOK, UnderWay, Wanted, Waiting

\* Where a step leaves alone what is wanted, what is newest and the index, it
\* leaves things tidy.
LEMMA StillTidy ==
    ASSUME NEW p \in Place, Tidy(p), newest'[p] = newest[p],
           \A w \in Version : PlaceOf(w) = p /\ HasText(w) => (Waiting(w)' <=> Waiting(w)),
           \/ Wanted(p) # {}
           \/ IndexOf(p[1], p[2])' = IndexOf(p[1], p[2])
    PROVE  Tidy(p)'
  <1>1. Wanted(p)' = Wanted(p)
    BY DEF Wanted, PlaceOf, HasText
  <1> QED
    BY <1>1 DEF Tidy, Shows, Exactly

\* A change is requested: alone, or the place is disturbed.
LEMMA CommitTidy ==
    ASSUME PInv, "resend" \notin faults, NEW v \in Version, Commit(v)
    PROVE  /\ FeedType'
           /\ \A p \in Place : p \notin disturbed' => Tidy(p)'
  <1>1. /\ announcing \in [Version -> Nat] /\ TypeOK
        /\ announcing' = [announcing EXCEPT ![v] = @ + 1] \/ announcing' = announcing
        /\ UNCHANGED <<input, processing, points, faults, config>>
        /\ \A p \in Place : p \notin disturbed => Tidy(p)
    BY DEF PInv, Inv, FeedType, AllTidy, Commit, Feed!Commit, history, process
  <1>2. PlaceOf(v) \in Place
    BY Places
  <1>3. FeedType'
    BY <1>1, <1>2 DEF PInv, FeedType, Commit
  <1>4. \A w \in Version : w # v => (Waiting(w)' <=> Waiting(w))
    BY <1>1 DEF Waiting
  <1>5. ASSUME NEW p \in Place, p \notin disturbed', Size(v) = 0 \/ p # PlaceOf(v)
        PROVE  Tidy(p)'
    <2>1. p \notin disturbed /\ newest'[p] = newest[p]
      BY <1>2, <1>5 DEF Commit, PInv, FeedType
    <2>2. \A w \in Version : PlaceOf(w) = p /\ HasText(w) => (Waiting(w)' <=> Waiting(w))
      BY <1>1, <1>4, <1>5, TextOrNot
    <2>3. IndexOf(p[1], p[2])' = IndexOf(p[1], p[2])
      BY <1>1 DEF IndexOf
    <2> QED
      BY <1>1, <2>1, <2>2, <2>3, StillTidy
  <1>6. ASSUME PlaceOf(v) \notin disturbed', Size(v) # 0
        PROVE  Tidy(PlaceOf(v))'
    <2> DEFINE p == PlaceOf(v)
    <2>1. /\ newest' = [newest EXCEPT ![p] = v]
          /\ ~UnderWay(p) /\ announcing' # announcing
      BY <1>6 DEF Commit
    <2>2. newest'[p] = v /\ announcing'[v] > 0
      BY <1>1, <1>2, <2>1 DEF PInv, FeedType
    <2>3. ASSUME NEW w \in Version, PlaceOf(w) = p, Waiting(w)' PROVE w = v
      BY <1>1, <1>4, <2>1, <2>3, WantedUnderWay
    <2>4. v \in Wanted(p)'
      BY <1>1, <1>6, <2>2, TextOrNot DEF Wanted, Waiting, PlaceOf, HasText
    <2>5. \A w \in Wanted(p)' : w = newest'[p]
      BY <2>2, <2>3 DEF Wanted, PlaceOf
    <2> QED
      BY <2>4, <2>5 DEF Tidy, PlaceOf
  <1> QED
    BY <1>3, <1>5, <1>6


\* Announcing a change moves its request from the worker to the list; a lost one
\* disturbs its place.
LEMMA FeedingTidy ==
    ASSUME PInv, "resend" \notin faults, NEW v \in Version, Announce(v) \/ Lose(v)
    PROVE  /\ FeedType'
           /\ \A p \in Place : p \notin disturbed' => Tidy(p)'
  <1>1. /\ announcing \in [Version -> Nat] /\ TypeOK /\ input \in Seq(Version)
        /\ announcing' = [announcing EXCEPT ![v] = @ - 1] /\ announcing[v] > 0
        /\ UNCHANGED <<processing, points, newest>>
        /\ \A p \in Place : p \notin disturbed => Tidy(p)
    BY DEF PInv, Inv, TypeOK, FeedType, AllTidy, Announce, Lose, Send, Feed!Announce, vars, lists
  <1>2. FeedType'
    <2>1. announcing[v] - 1 \in Nat
      BY <1>1
    <2>2. announcing' \in [Version -> Nat]
      BY <1>1, <2>1
    <2>3. disturbed' \subseteq Place
      BY Places DEF PInv, FeedType, Announce, Lose
    <2> QED
      BY <1>1, <2>2, <2>3 DEF PInv, FeedType
  <1>3. ASSUME NEW p \in Place, p \notin disturbed' PROVE Tidy(p)'
    <2>1. p \notin disturbed /\ (PlaceOf(v) = p => Announce(v))
      BY <1>3 DEF Announce, Lose
    <2>2. ASSUME NEW w \in Version, PlaceOf(w) = p PROVE Waiting(w)' <=> Waiting(w)
      <3>1. CASE w # v
        <4>1. announcing'[w] = announcing[w] /\ Copies(w, input') = Copies(w, input)
          <5>1. CASE Announce(v)
            <6>1. input' = Append(input, v)
              BY <5>1 DEF Announce, Send
            <6>2. Copies(w, input) \in Nat
              BY <1>1, CopiesType
            <6> QED
              BY <1>1, <3>1, <6>1, <6>2, AppendCounts
          <5>2. CASE Lose(v)
            BY <1>1, <3>1, <5>2 DEF Lose, vars, lists
          <5> QED
            BY <5>1, <5>2
        <4> QED
          BY <1>1, <4>1 DEF Waiting
      <3>2. CASE w = v
        <4>1. input' = Append(input, v)
          BY <2>1, <2>2, <3>2 DEF Announce, Send
        <4>2. Copies(w, input) \in Nat /\ Copies(w, input') = Copies(w, input) + 1
          BY <1>1, <3>2, <4>1, AppendCounts, CopiesType
        <4>3. Copies(w, input') # 0
          BY <4>2
        <4> QED
          BY <1>1, <3>2, <4>3 DEF Waiting
      <3> QED
        BY <3>1, <3>2
    <2>3. IndexOf(p[1], p[2])' = IndexOf(p[1], p[2])
      BY <1>1 DEF IndexOf
    <2> QED
      BY <1>1, <2>1, <2>2, <2>3, StillTidy
  <1> QED
    BY <1>2, <1>3

\* LREM adds no copies.
LEMMA RemoveFirstLess ==
    ASSUME NEW V, NEW s \in Seq(V), NEW e, NEW v
    PROVE  Copies(v, RemoveFirst(s, e)) <= Copies(v, s)
  <1> DEFINE r == RemoveFirst(s, e)
  <1>1. CASE r = s
    <2>1. Copies(v, s) \in Nat
      BY CopiesType
    <2> QED
      BY <1>1, <2>1
  <1>2. CASE \E k \in 1 .. Len(s) :
               /\ s[k] = e
               /\ r \in Seq(V) /\ Len(r) = Len(s) - 1
               /\ \A j \in 1 .. Len(s) - 1 : r[j] = s[IF j < k THEN j ELSE j + 1]
    <2> HIDE DEF r
    <2>1. PICK k \in 1 .. Len(s) :
             /\ r \in Seq(V) /\ Len(r) = Len(s) - 1
             /\ \A j \in 1 .. Len(s) - 1 : r[j] = s[IF j < k THEN j ELSE j + 1]
      BY <1>2
    <2>2. r \in Seq(V) /\ Copies(v, r) \in Nat
      BY <2>1, CopiesType
    <2>3. Copies(v, s) = Copies(v, r) + (IF s[k] = v THEN 1 ELSE 0)
      BY <2>1, <2>2, DroppedCopies
    <2> QED
      BY <2>2, <2>3 DEF r
  <1> QED
    BY <1>1, <1>2, RemoveFirstTakesOne

\* What the vectorizer does leaves places tidy: it works on what is wanted there,
\* and a message it is done with is shown or is given up on.
LEMMA WorkTidy ==
    ASSUME PInv, Inv', "resend" \notin faults, Step, UNCHANGED <<announcing, newest>>,
           NEW p \in Place, p \notin disturbed, Tidy(p),
           givenUp' # givenUp => p # PlaceOf(raw)
    PROVE  Tidy(p)'
  <1> USE DEF lists, process, history
  <1>1. /\ Inv /\ Backed /\ TypeOK /\ raw \in Version /\ config \in Config
        /\ processing \in Seq(Version) /\ input \in Seq(Version)
        /\ announcing \in [Version -> Nat]
        /\ \A w : Copies(w, processing) \in Nat /\ Copies(w, input) \in Nat
    BY CopiesType DEF PInv, Inv, TypeOK, FeedType
  <1>2. ASSUME UNCHANGED <<input, processing>> PROVE \A w \in Version : Waiting(w)' <=> Waiting(w)
    BY <1>2 DEF Waiting
  <1>3. ASSUME UNCHANGED points PROVE IndexOf(p[1], p[2])' = IndexOf(p[1], p[2])
    BY <1>3 DEF IndexOf
  <1>4. ASSUME UNCHANGED <<input, processing, points>> PROVE Tidy(p)'
    BY <1>2, <1>3, <1>4, StillTidy
  <1>5. ASSUME Touched(points'), UNCHANGED <<input, processing>> PROVE Tidy(p)'
    <2>1. CASE p = PlaceOf(raw)
      <3>1. HasText(raw) /\ Copies(raw, processing) # 0
        BY <1>1, <1>5, RawDue DEF Touched
      <3>2. raw \in Wanted(p)
        BY <1>1, <2>1, <3>1 DEF Wanted, Waiting
      <3> QED
        BY <1>2, <1>5, <3>2, StillTidy
    <2>2. CASE p # PlaceOf(raw)
      <3>1. ~(DocOf[raw] = p[1] /\ Collection[raw] = p[2])
        BY <2>2, PlacePair DEF PlaceOf
      <3>2. IndexOf(p[1], p[2])' = IndexOf(p[1], p[2])
        <4> DEFINE d == p[1]
                   c == p[2]
        <4> HIDE DEF d, c
        <4>1. {q \in points' : DocOf[q.version] = d /\ Collection[q.version] = c} = IndexOf(d, c)
          BY <1>5, <3>1, TouchedInPlace DEF d, c
        <4> QED
          BY <4>1 DEF IndexOf, d, c
      <3> QED
        BY <1>2, <1>5, <3>2, StillTidy
    <2> QED
      BY <2>1, <2>2
  <1>6. CASE Poll \/ PopTimeout \/ Recover \/ RecoveryEnds \/ Start \/ StartFails
               \/ Finish \/ FinishFails \/ Bury \/ Exit
    BY <1>4, <1>6 DEF Poll, PopTimeout, Recover, RecoveryEnds, Start, StartFails, Finish,
       FinishFails, Bury, Exit, Goto, AttemptFails
  <1>7. CASE Upsert \/ DeleteStale \/ DeleteSurplus
    BY <1>5, <1>7 DEF Upsert, DeleteStale, DeleteSurplus, Goto, Touched
  <1>8. CASE QdrantFails
    BY <1>4, <1>5, <1>8 DEF QdrantFails, AttemptFails, Touched
  <1>9. CASE Pop
    <2> DEFINE e == Last(input)
    <2>1. /\ input # <<>> /\ input' = Front(input) /\ processing' = <<e>> \o processing
          /\ UNCHANGED points
      BY <1>9 DEF Pop
    <2>2. e \in Version
      BY <1>1, <2>1, FrontLast
    <2>3. \A w : Copies(w, input) = Copies(w, Front(input)) + (IF e = w THEN 1 ELSE 0)
      BY <1>1, <2>1, FrontCounts
    <2> HIDE DEF e
    <2>4. ASSUME NEW w \in Version PROVE Waiting(w)' <=> Waiting(w)
      <3>1. /\ Copies(w, input) = Copies(w, input') + (IF e = w THEN 1 ELSE 0)
            /\ Copies(w, processing') = Copies(w, processing) + (IF e = w THEN 1 ELSE 0)
        BY <1>1, <2>1, <2>2, <2>3, FirstCounts
      <3>2. Copies(w, input') \in Nat /\ Copies(w, processing) \in Nat /\ Copies(w, input) \in Nat
        BY <1>1, CopiesType DEF PInv, Inv, TypeOK
      <3>3. Copies(w, input) # 0 \/ Copies(w, processing) # 0
              <=> Copies(w, input') # 0 \/ Copies(w, processing') # 0
        BY <3>1, <3>2
      <3> QED
        BY <3>3 DEF Waiting
    <2> QED
      BY <1>3, <2>1, <2>4, StillTidy
  <1>10. ASSUME NEW n \in Times, processing' = Removed(n), UNCHANGED <<input, points>>
         PROVE  \A w \in Version : w # raw => (Waiting(w)' <=> Waiting(w))
    <2> SUFFICES ASSUME NEW w \in Version, w # raw PROVE Waiting(w)' <=> Waiting(w)
      OBVIOUS
    <2>1. Copies(w, processing) <= Copies(w, processing') /\ Copies(w, processing') \in Nat
      BY <1>1, <1>10, RemovedOthers, CopiesType
    <2>2. Copies(w, processing') <= Copies(w, processing)
      <3>1. n \in {0, 1}
        BY DEF Times
      <3>2. CASE n = 0
        BY <1>1, <1>10, <3>2, RemovedCounts
      <3>3. CASE n = 1
        <4>1. processing' = RemoveFirst(processing, raw)
          BY <1>10, <3>3 DEF Removed
        <4> QED
          BY <1>1, <2>1, <4>1, RemoveFirstLess
      <3> QED
        BY <3>1, <3>2, <3>3
    <2>3. Copies(w, processing') = Copies(w, processing)
      BY <1>1, <2>1, <2>2
    <2> QED
      BY <1>10, <2>3 DEF Waiting
  <1>11. CASE Ack
    <2>1. pc = "ack" /\ UNCHANGED <<input, points>>
      BY <1>11 DEF Ack
    <2>2. PICK n \in Times : processing' = Removed(n)
      BY <1>11 DEF Ack
    <2>3. \A w \in Version : w # raw => (Waiting(w)' <=> Waiting(w))
      BY <1>10, <2>1, <2>2
    <2>4. CASE PlaceOf(raw) # p \/ ~HasText(raw)
      BY <1>3, <2>1, <2>3, <2>4, StillTidy
    <2>5. CASE PlaceOf(raw) = p /\ HasText(raw)
      <3>1. Mine(raw) = 1 /\ Copies(raw, pending) \in Nat
        BY <2>1, CopiesType DEF Mine, InService, PInv, Inv, TypeOK
      <3>2. Copies(raw, pending) + 1 <= Copies(raw, processing)
        BY <1>1, <3>1 DEF Backed
      <3>3. Copies(raw, processing) # 0
        BY <1>1, <3>1, <3>2
      <3>4. raw = newest[p]
        BY <1>1, <2>5, <3>3 DEF Tidy, Wanted, Waiting
      <3>5. Indexed(raw)
        BY <1>1, <2>1, <2>5, TextOrNot DEF Inv, Progress
      <3>6. IndexOf(p[1], p[2]) = Exactly(raw, config)
        BY <2>5, <3>5, Places DEF Indexed, PlaceOf
      <3>7. Shows(p, newest[p])'
        <4>1. newest'[p] = raw /\ raw # None
          BY <1>1, <3>4, PipelineAssumption
        <4>2. IndexOf(p[1], p[2])' = Exactly(raw, config)
          BY <1>3, <2>1, <3>6
        <4>3. \E k \in Config : IndexOf(p[1], p[2])' = Exactly(newest'[p], k)
          BY <1>1, <4>1, <4>2
        <4> QED
          BY <4>1, <4>3 DEF Shows, Exactly
      <3>8. Wanted(p)' \subseteq Wanted(p)
        <4>1. Waiting(raw)
          BY <3>3 DEF Waiting
        <4> QED
          BY <1>1, <2>3, <4>1 DEF Wanted, PlaceOf, HasText
      <3> QED
        BY <3>7, <3>8 DEF Tidy
    <2> QED
      BY <2>4, <2>5
  <1>12. CASE Unqueue
    <2>1. UNCHANGED <<input, points>>
      BY <1>12 DEF Unqueue
    <2>2. PICK n \in Times : /\ processing' = Removed(n)
                             /\ givenUp' = IF n > 0 THEN Append(givenUp, raw) ELSE givenUp
      BY <1>12 DEF Unqueue
    <2>3. CASE n = 0
      BY <1>1, <1>4, <2>1, <2>2, <2>3, RemovedCounts
    <2>4. CASE n # 0
      <3>1. n > 0 /\ givenUp \in Seq(Version)
        BY <2>4 DEF Times, PInv, Inv, TypeOK
      <3>2. Len(givenUp') = Len(givenUp) + 1 /\ Len(givenUp) \in Nat
        BY <1>1, <2>2, <3>1, AppendProperties, LenProperties
      <3>3. p # PlaceOf(raw)
        <4>1. givenUp' # givenUp
          BY <3>2
        <4> QED
          BY <4>1
      <3> QED
        BY <1>3, <1>10, <2>1, <2>2, <3>3, StillTidy
    <2> QED
      BY <2>3, <2>4
  <1> QED
    BY <1>6, <1>7, <1>8, <1>9, <1>11, <1>12 DEF Step


LEMMA TidyInit == PInit => PInv
  <1> SUFFICES ASSUME PInit PROVE PInv
    OBVIOUS
  <1>1. Init /\ announcing = [v \in Version |-> 0] /\ input = <<>>
        /\ newest = [p \in Place |-> None] /\ disturbed = {}
    BY DEF PInit, Feed!Init
  <1>2. Inv
    BY <1>1, TypeInit, ProgressInit DEF Inv
  <1>3. Backed
    <2>1. \A v \in Version : Mine(v) = 0
      BY <1>1 DEF Init, Mine, InService, Attempting
    <2> QED
      BY <1>1, <2>1, NoCopies DEF Init, Backed
  <1>4. FeedType
    BY <1>1 DEF FeedType
  <1>5. \A p \in Place : Wanted(p) = {}
    BY <1>1, NoCopies DEF Init, Wanted, Waiting
  <1>6. \A p \in Place : newest[p] = None /\ IndexOf(p[1], p[2]) = {}
    BY <1>1 DEF Init, IndexOf
  <1>7. AllTidy
    BY <1>5, <1>6 DEF AllTidy, Tidy, Shows
  <1> QED
    BY <1>2, <1>3, <1>4, <1>7 DEF PInv

LEMMA TidyStep == PInv /\ [PNext]_pvars => PInv'
  <1> SUFFICES ASSUME PInv, [PNext]_pvars PROVE PInv'
    OBVIOUS
  <1>1. Inv' /\ Backed' /\ faults' = faults
    BY StepsOfVectorizer, TypeStep, ProgressStep, BackedStep, FaultsFixed DEF PInv, Inv
  <1>2. ASSUME UNCHANGED feed \/ Index PROVE FeedType'
    BY <1>2, Places DEF PInv, Inv, TypeOK, FeedType, Index, feed
  <1>3. FeedType'
    <2>1. CASE Index \/ Outage \/ Again \/ UNCHANGED pvars
      BY <1>2, <2>1 DEF Outage, Again, pvars
    <2>2. ASSUME NEW v \in Version, Commit(v) PROVE FeedType'
      <3>1. /\ announcing \in [Version -> Nat]
            /\ announcing' = [announcing EXCEPT ![v] = @ + 1] \/ announcing' = announcing
        BY <2>2 DEF PInv, FeedType, Commit, Feed!Commit
      <3> QED
        BY <2>2, <3>1, Places DEF PInv, FeedType, Commit
    <2>3. CASE Feeding
      <3>1. PICK v \in Version : Announce(v) \/ Lose(v)
        BY <2>3 DEF Feeding
      <3>2. /\ announcing \in [Version -> Nat] /\ announcing[v] > 0
            /\ announcing' = [announcing EXCEPT ![v] = @ - 1]
        BY <3>1 DEF PInv, FeedType, Announce, Lose, Feed!Announce
      <3>3. announcing[v] - 1 \in Nat
        BY <3>2
      <3> QED
        BY <3>1, <3>2, <3>3, Places DEF PInv, FeedType, Announce, Lose
    <2> QED
      BY <2>1, <2>2, <2>3 DEF PNext
  <1>4. ASSUME "resend" \notin faults, NEW p \in Place, p \notin disturbed'
        PROVE  Tidy(p)'
    <2>1. CASE \E v \in Version : Commit(v)
      BY <1>4, <2>1, CommitTidy
    <2>2. CASE Feeding
      BY <1>4, <2>2, FeedingTidy DEF Feeding
    <2>3. CASE Index
      <3>1. Step /\ UNCHANGED <<announcing, newest>> /\ p \notin disturbed
            /\ (givenUp' # givenUp => p # PlaceOf(raw))
        BY <1>4, <2>3 DEF Index
      <3>2. Tidy(p)
        BY <1>4, <3>1 DEF PInv, AllTidy
      <3>3. Inv' /\ Backed' /\ FeedType'
        BY <1>1, <1>3
      <3> QED
        BY <1>4, <3>1, <3>2, <3>3, WorkTidy
    <2>4. CASE Outage \/ Again \/ UNCHANGED pvars
      <3>1. UNCHANGED <<feed, input, processing, points>>
        BY <2>4 DEF Outage, Again, Signal, Crash, Restart, pvars, vars, lists
      <3>2. Tidy(p)
        BY <1>4, <3>1 DEF PInv, AllTidy, feed
      <3> QED
        BY <3>1, <3>2, StillTidy DEF feed, Waiting, IndexOf
    <2> QED
      BY <2>1, <2>2, <2>3, <2>4 DEF PNext
  <1> QED
    BY <1>1, <1>3, <1>4 DEF PInv, AllTidy

LEMMA Tidiness == PSpec => []PInv
  BY TidyInit, TidyStep, PTL DEF PSpec

\* What is worked off leaves the newest version in each collection, for all
\* documents, scopes and configurations and in spite of failing requests,
\* crashes, lost replies and repeated work, wherever no other request was
\* waiting when the newest was made, and none was lost or given up on: where
\* nothing is disturbed, only the newest version is ever waiting.
THEOREM NewestShown == PSpec => []IndexShowsNewest
  <1>1. PInv => IndexShowsNewest
    <2> SUFFICES ASSUME PInv, "resend" \notin faults,
                        NEW p \in Place, ~UnderWay(p), p \notin disturbed
                 PROVE  Shows(p, newest[p])
      BY DEF IndexShowsNewest
    <2>1. Tidy(p) /\ TypeOK
      BY DEF PInv, Inv, AllTidy
    <2> QED
      BY <2>1, WantedUnderWay DEF Tidy
  <1> QED
    BY <1>1, Tidiness, PTL

\* Indexing a version again leaves it alone, and whole where it was cut the same way.
LEMMA FoundAgain ==
    ASSUME PInv, NEW v \in Version, raw = v, NEW p \in Place, PlaceOf(v) = p, Touched(points')
    PROVE  /\ Alone(p, v) => Alone(p, v)'
           /\ Exactly(v, config) \subseteq IndexOf(p[1], p[2]) =>
                  Exactly(v, config) \subseteq IndexOf(p[1], p[2])'
  <1>1. Inv /\ p[1] = DocOf[v] /\ p[2] = Collection[v]
    BY Places DEF PInv
  <1>2. \A q \in points' : q \in points \/ q.version = v
    BY DEF Touched, Upserted
  <1>3. ASSUME Exactly(v, config) \subseteq points PROVE Exactly(v, config) \subseteq points'
    <2>1. CASE points' = Upserted(next, BatchEnd)
      BY <1>3, <2>1, UpsertedKeeps
    <2>2. CASE pc \in {"stale", "surplus"}
      <3>1. points' = {q \in points : ~Stale(q)} \/ points' = {q \in points : ~Surplus(q)}
        BY <2>2 DEF Touched
      <3> QED
        BY <1>1, <2>2, <3>1, DeletionSpares
    <2> QED
      BY <2>1, <2>2 DEF Touched
  <1>4. \A q \in Exactly(v, config) : q.version = v
    BY DEF Exactly
  <1>5. ASSUME Exactly(v, config) \subseteq IndexOf(p[1], p[2])
        PROVE  Exactly(v, config) \subseteq IndexOf(p[1], p[2])'
    <2>1. Exactly(v, config) \subseteq points'
      BY <1>3, <1>5 DEF IndexOf
    <2> QED
      BY <1>1, <1>4, <2>1 DEF IndexOf
  <1>6. ASSUME Alone(p, v) PROVE Alone(p, v)'
    BY <1>2, <1>6 DEF Alone, IndexOf
  <1> QED
    BY <1>5, <1>6

\* Undisturbed, the vectorizer touches a place only for its newest version.  So
\* once that version is alone there it stays alone until the next change, and
\* once it is whole it stays whole under the same configuration, although requests
\* are repeated after crashes and failures.
THEOREM NewestStays == PSpec => FreshStays
  <1>1. ASSUME PInv, [PNext]_pvars, NEW p \in Place, NEW v \in Version \cup {None},
               newest[p] = v, newest'[p] = v, p \notin disturbed', "resend" \notin faults
        PROVE  /\ Alone(p, v) => Alone(p, v)'
               /\ v # None /\ Exactly(v, config) \subseteq IndexOf(p[1], p[2]) =>
                      Exactly(v, config) \subseteq IndexOf(p[1], p[2])'
    <2>1. CASE UNCHANGED points
      BY <2>1 DEF Alone, IndexOf
    <2>2. CASE Index /\ Touched(points')
      <3>1. p \notin disturbed /\ Inv /\ Backed
        BY <1>1, <2>2 DEF Index, PInv
      <3>2. Tidy(p)
        BY <1>1, <3>1 DEF PInv, AllTidy
      <3>3. CASE PlaceOf(raw) = p
        <4>1. raw \in Version /\ HasText(raw) /\ Copies(raw, processing) # 0
          BY <1>1, <2>2, <3>1, RawDue DEF Touched
        <4>2. raw = v
          BY <1>1, <3>2, <3>3, <4>1 DEF Tidy, Wanted, Waiting
        <4> QED
          BY <1>1, <2>2, <3>3, <4>1, <4>2, FoundAgain
      <3>4. CASE PlaceOf(raw) # p
        <4>1. ~(DocOf[raw] = p[1] /\ Collection[raw] = p[2])
          BY <1>1, <3>4, PlacePair DEF PlaceOf
        <4> DEFINE d == p[1]
                   c == p[2]
        <4> HIDE DEF d, c
        <4>2. {q \in points' : DocOf[q.version] = d /\ Collection[q.version] = c} = IndexOf(d, c)
          BY <2>2, <4>1, TouchedInPlace DEF d, c
        <4>3. IndexOf(p[1], p[2])' = IndexOf(p[1], p[2])
          BY <4>2 DEF IndexOf, d, c
        <4> QED
          BY <4>3 DEF Alone
      <3> QED
        BY <3>3, <3>4
    <2>3. CASE Index
      <3>1. CASE Upsert \/ DeleteStale \/ DeleteSurplus \/ QdrantFails
        <4>1. Touched(points') \/ UNCHANGED points
          BY <3>1 DEF Upsert, DeleteStale, DeleteSurplus, QdrantFails, Touched
        <4> QED
          BY <2>1, <2>2, <2>3, <4>1
      <3>2. CASE Poll \/ Pop \/ PopTimeout \/ Recover \/ RecoveryEnds \/ Start \/ StartFails
                   \/ Finish \/ FinishFails \/ Ack \/ Unqueue \/ Bury \/ Exit
        BY <2>1, <3>2 DEF Poll, Pop, PopTimeout, Recover, RecoveryEnds, Start, StartFails,
           Finish, FinishFails, Ack, Unqueue, Bury, Exit
      <3> QED
        BY <2>3, <3>1, <3>2 DEF Index, Step
    <2>4. CASE (\E w \in Version : Commit(w)) \/ Feeding \/ Outage \/ Again \/ UNCHANGED pvars
      BY <2>1, <2>4 DEF Commit, Feeding, Announce, Send, Lose, Outage, Signal, Crash, Again,
         Restart, pvars, vars
    <2> QED
      BY <1>1, <2>3, <2>4 DEF PNext
  <1>2. PInv /\ [PNext]_pvars =>
            [\A p \in Place, v \in Version \cup {None} :
                newest[p] = v /\ newest'[p] = v /\ p \notin disturbed' /\ "resend" \notin faults =>
                    /\ Alone(p, v) => Alone(p, v)'
                    /\ v # None /\ Exactly(v, config) \subseteq IndexOf(p[1], p[2]) =>
                           Exactly(v, config) \subseteq IndexOf(p[1], p[2])']_pvars
    BY <1>1
  <1> QED
    BY <1>2, Tidiness, PTL DEF PSpec, FreshStays
=============================================================================
