-------------------------- MODULE Vectorizer_proofs --------------------------
(***************************************************************************)
(* Theorems about Vectorizer, for all documents, versions, configurations, *)
(* batch sizes, numbers of attempts, and combinations of failures.         *)
(***************************************************************************)
EXTENDS Vectorizer, SequenceTheorems, FiniteSetTheorems, WellFoundedInduction, TLAPS

(***************************************************************************)
(* The processing list: what LREM and BRPOPLPUSH do to the copies of a     *)
(* message.                                                                *)
(***************************************************************************)

\* RemoveFirst takes one occurrence away, if there is one.
LEMMA RemoveFirstTakesOne ==
    ASSUME NEW V, NEW s \in Seq(V), NEW e
    PROVE  \/ RemoveFirst(s, e) = s
           \/ \E k \in 1 .. Len(s) :
                /\ s[k] = e
                /\ RemoveFirst(s, e) \in Seq(V)
                /\ Len(RemoveFirst(s, e)) = Len(s) - 1
                /\ \A j \in 1 .. Len(s) - 1 :
                     RemoveFirst(s, e)[j] = s[IF j < k THEN j ELSE j + 1]
  <1> DEFINE I == {i \in 1 .. Len(s) : s[i] = e}
  <1>1. CASE I = {}
    BY <1>1 DEF RemoveFirst
  <1>2. CASE I # {}
    <2>1. \E k \in I : \A i \in I : ~ (<<i, k>> \in OpToRel(<, Nat))
      <3>1. I \subseteq Nat
        OBVIOUS
      <3> HIDE DEF I
      <3> QED
        BY <1>2, <3>1, NatLessThanWellFounded, WFMin
    <2>2. PICK k \in I : \A i \in I : ~ (<<i, k>> \in OpToRel(<, Nat))
      BY <2>1
    <2>3. \A i \in I : k <= i
      <3>1. OpToRel(<, Nat) = {ss \in Nat \X Nat : ss[1] < ss[2]}
        BY DEF OpToRel
      <3>2. SUFFICES ASSUME NEW i \in I, i < k PROVE FALSE
        OBVIOUS
      <3>3. <<i, k>> \in Nat \X Nat
        OBVIOUS
      <3>4. <<i, k>> \in {ss \in Nat \X Nat : ss[1] < ss[2]}
        BY <3>2, <3>3
      <3> QED
        BY <2>2, <3>1, <3>4
    <2>4. Min(I) = k
      <3>1. I \subseteq Int
        OBVIOUS
      <3> HIDE DEF I
      <3>2. \A m \in I : (\A i \in I : m =< i) => m = k
        BY <2>3, <3>1
      <3> QED
        BY <2>3, <3>2 DEF Min
    <2>5. RemoveFirst(s, e) = SubSeq(s, 1, k - 1) \o SubSeq(s, k + 1, Len(s))
      <3>1. \E i \in 1 .. Len(s) : s[i] = e
        BY <1>2
      <3>2. SelectInSeq(s, LAMBDA v : v = e) = IF I # {} THEN Min(I) ELSE 0
        BY DEF SelectInSeq
      <3> QED
        BY <1>2, <2>4, <3>1, <3>2 DEF RemoveFirst, RemoveAt
    <2>6. /\ SubSeq(s, 1, k - 1) \in Seq(V) /\ Len(SubSeq(s, 1, k - 1)) = k - 1
          /\ \A j \in 1 .. k - 1 : SubSeq(s, 1, k - 1)[j] = s[j]
      <3>1. k \in 1 .. Len(s) /\ Len(s) \in Nat
        OBVIOUS
      <3> QED
        BY <3>1, SubSeqProperties
    <2>7. /\ SubSeq(s, k + 1, Len(s)) \in Seq(V) /\ Len(SubSeq(s, k + 1, Len(s))) = Len(s) - k
          /\ \A j \in 1 .. Len(s) - k : SubSeq(s, k + 1, Len(s))[j] = s[k + j]
      <3>1. k \in 1 .. Len(s) /\ Len(s) \in Nat
        OBVIOUS
      <3> QED
        BY <3>1, SubSeqProperties
    <2>8. /\ RemoveFirst(s, e) \in Seq(V) /\ Len(RemoveFirst(s, e)) = Len(s) - 1
          /\ \A j \in 1 .. Len(s) - 1 :
               RemoveFirst(s, e)[j] =
                 IF j <= k - 1 THEN SubSeq(s, 1, k - 1)[j] ELSE SubSeq(s, k + 1, Len(s))[j - (k - 1)]
      <3> DEFINE front == SubSeq(s, 1, k - 1)
                 back  == SubSeq(s, k + 1, Len(s))
      <3>1. k \in 1 .. Len(s) /\ Len(s) \in Nat
        OBVIOUS
      <3> HIDE DEF front, back
      <3>2. /\ front \o back \in Seq(V) /\ Len(front \o back) = Len(front) + Len(back)
            /\ \A i \in 1 .. Len(front) + Len(back) :
                 (front \o back)[i] = IF i <= Len(front) THEN front[i] ELSE back[i - Len(front)]
        BY <2>6, <2>7, ConcatProperties DEF front, back
      <3>3. /\ RemoveFirst(s, e) = front \o back
            /\ Len(front) = k - 1 /\ Len(back) = Len(s) - k
        BY <2>5, <2>6, <2>7 DEF front, back
      <3>4. /\ RemoveFirst(s, e) \in Seq(V) /\ Len(RemoveFirst(s, e)) = Len(s) - 1
            /\ \A j \in 1 .. Len(s) - 1 :
                 RemoveFirst(s, e)[j] = IF j <= k - 1 THEN front[j] ELSE back[j - (k - 1)]
        BY <3>1, <3>2, <3>3
      <3> QED
        BY <3>4 DEF front, back
    <2> QED
      <3>1. \A j \in 1 .. Len(s) - 1 : RemoveFirst(s, e)[j] = s[IF j < k THEN j ELSE j + 1]
        <4>1. k \in 1 .. Len(s) /\ Len(s) \in Nat
          OBVIOUS
        <4> TAKE j \in 1 .. Len(s) - 1
        <4>2. CASE j < k
          BY <2>6, <2>8, <4>1, <4>2
        <4>3. CASE j >= k
          <5>1. j - (k - 1) \in 1 .. Len(s) - k /\ k + (j - (k - 1)) = j + 1
            BY <4>1, <4>3
          <5> QED
            BY <2>7, <2>8, <4>1, <4>3, <5>1
        <4> QED
          BY <4>1, <4>2, <4>3
      <3> QED
        BY <2>8, <3>1
  <1> QED
    BY <1>1, <1>2

\* A message that occurs in t wherever it occurs in s, up to a renumbering of the
\* places, has at least as many copies there.
LEMMA CopiesInjected ==
    ASSUME NEW V, NEW s \in Seq(V), NEW t \in Seq(V), NEW v,
           NEW f \in Injection({i \in DOMAIN s : s[i] = v}, {i \in DOMAIN t : t[i] = v})
    PROVE  Copies(v, s) <= Copies(v, t)
  <1>1. IsFiniteSet({i \in DOMAIN t : t[i] = v})
    <2>1. IsFiniteSet(1 .. Len(t)) /\ DOMAIN t = 1 .. Len(t)
      BY FS_Interval
    <2> QED
      BY <2>1, FS_Subset
  <1> QED
    BY <1>1, FS_Injection DEF Copies

\* LREM of one string leaves the copies of the others.
LEMMA RemoveFirstCopies ==
    ASSUME NEW V, NEW s \in Seq(V), NEW e, NEW v, v # e
    PROVE  RemoveFirst(s, e) \in Seq(V) /\ Copies(v, s) <= Copies(v, RemoveFirst(s, e))
  <1> DEFINE r == RemoveFirst(s, e)
  <1>1. CASE r = s
    <2>1. Copies(v, s) \in Nat
      <3>1. IsFiniteSet({i \in DOMAIN s : s[i] = v})
        <4>1. IsFiniteSet(1 .. Len(s)) /\ DOMAIN s = 1 .. Len(s)
          BY FS_Interval
        <4> QED
          BY <4>1, FS_Subset
      <3> QED
        BY <3>1, FS_CardinalityType DEF Copies
    <2> QED
      BY <1>1, <2>1
  <1>2. CASE \E k \in 1 .. Len(s) :
               /\ s[k] = e
               /\ r \in Seq(V) /\ Len(r) = Len(s) - 1
               /\ \A j \in 1 .. Len(s) - 1 : r[j] = s[IF j < k THEN j ELSE j + 1]
    <2> HIDE DEF r
    <2>1. PICK k \in 1 .. Len(s) :
             /\ s[k] = e
             /\ r \in Seq(V) /\ Len(r) = Len(s) - 1
             /\ \A j \in 1 .. Len(s) - 1 : r[j] = s[IF j < k THEN j ELSE j + 1]
      BY <1>2
    <2> DEFINE S == {i \in DOMAIN s : s[i] = v}
               T == {i \in DOMAIN r : r[i] = v}
               f == [i \in S |-> IF i < k THEN i ELSE i - 1]
    <2>2. DOMAIN s = 1 .. Len(s) /\ DOMAIN r = 1 .. Len(s) - 1 /\ Len(s) \in Nat
      BY <2>1
    <2>3. \A i \in S : i # k
      BY <2>1
    <2>4. \A i \in S : f[i] \in T
      <3> TAKE i \in S
      <3>1. CASE i < k
        BY <2>1, <2>2, <3>1
      <3>2. CASE i > k
        <4>1. i - 1 \in 1 .. Len(s) - 1 /\ ~(i - 1 < k) /\ (i - 1) + 1 = i
          BY <2>1, <2>2, <3>2
        <4>2. r[i - 1] = s[i]
          BY <2>1, <4>1
        <4> QED
          BY <2>2, <3>2, <4>1, <4>2
      <3> QED
        BY <2>2, <2>3, <3>1, <3>2
    <2>5. \A i, j \in S : f[i] = f[j] => i = j
      BY <2>2, <2>3
    <2>6. f \in Injection(S, T)
      <3>1. f \in [S -> T]
        BY <2>4
      <3> HIDE DEF f, S, T
      <3> QED
        BY <2>5, <3>1 DEF Injection, IsInjective
    <2>7. r \in Seq(V)
      BY <2>1
    <2> HIDE DEF f
    <2> QED
      BY <2>6, <2>7, CopiesInjected DEF r
  <1> QED
    BY <1>1, <1>2, RemoveFirstTakesOne

\* BRPOPLPUSH leaves the copies of all.
LEMMA PrependCopies ==
    ASSUME NEW V, NEW s \in Seq(V), NEW e \in V, NEW v
    PROVE  <<e>> \o s \in Seq(V) /\ Copies(v, s) <= Copies(v, <<e>> \o s)
  <1> DEFINE t == <<e>> \o s
             S == {i \in DOMAIN s : s[i] = v}
             T == {i \in DOMAIN t : t[i] = v}
             f == [i \in S |-> i + 1]
  <1>1. /\ t \in Seq(V) /\ Len(t) = Len(s) + 1 /\ Len(s) \in Nat
        /\ \A i \in 1 .. Len(s) : t[i + 1] = s[i]
    OBVIOUS
  <1> HIDE DEF t
  <1>2. DOMAIN s = 1 .. Len(s) /\ DOMAIN t = 1 .. Len(s) + 1
    BY <1>1
  <1>3. \A i \in S : f[i] \in T
    BY <1>1, <1>2
  <1>4. f \in Injection(S, T)
    <2>1. f \in [S -> T]
      BY <1>3
    <2>2. \A i, j \in S : f[i] = f[j] => i = j
      BY <1>2
    <2> HIDE DEF f, S, T
    <2> QED
      BY <2>1, <2>2 DEF Injection, IsInjective
  <1> HIDE DEF f
  <1>5. Copies(v, s) <= Copies(v, t)
    BY <1>1, <1>4, CopiesInjected
  <1> QED
    BY <1>1, <1>5 DEF t

\* Copies are counted.
LEMMA CopiesType ==
    ASSUME NEW V, NEW s \in Seq(V), NEW v
    PROVE  Copies(v, s) \in Nat
  <1>1. IsFiniteSet({i \in DOMAIN s : s[i] = v})
    <2>1. IsFiniteSet(1 .. Len(s)) /\ DOMAIN s = 1 .. Len(s)
      BY FS_Interval
    <2> QED
      BY <2>1, FS_Subset
  <1> QED
    BY <1>1, FS_CardinalityType DEF Copies

\* However often LREM takes effect, the other messages stay.
LEMMA RemovedOthers ==
    ASSUME TypeOK, NEW n \in Times, NEW v
    PROVE  /\ Removed(n) \in Seq(Version)
           /\ v # raw => Copies(v, processing) <= Copies(v, Removed(n))
  <1>2. \A s \in Seq(Version) : RemoveFirst(s, raw) \in Seq(Version)
    BY RemoveFirstTakesOne
  <1>3. processing \in Seq(Version)
    BY DEF TypeOK
  <1> DEFINE once  == RemoveFirst(processing, raw)
             twice == RemoveFirst(once, raw)
  <1>4. once \in Seq(Version) /\ twice \in Seq(Version)
    BY <1>2, <1>3
  <1>5. ASSUME v # raw
        PROVE  Copies(v, processing) <= Copies(v, once) /\ Copies(v, once) <= Copies(v, twice)
    BY <1>3, <1>4, <1>5, RemoveFirstCopies
  <1>6. /\ Copies(v, processing) \in Nat /\ Copies(v, once) \in Nat /\ Copies(v, twice) \in Nat
    BY <1>3, <1>4, CopiesType
  <1>7. n \in {0, 1, 2}
    BY DEF Times
  <1>8. CASE n = 0
    BY <1>3, <1>6, <1>8 DEF Removed
  <1>9. CASE n = 1
    BY <1>4, <1>5, <1>9 DEF Removed
  <1>10. CASE n = 2
    <2>1. Removed(n) = twice
      BY <1>10 DEF Removed
    <2> HIDE DEF once, twice
    <2> QED
      BY <1>4, <1>5, <1>6, <2>1
  <1> QED
    BY <1>7, <1>8, <1>9, <1>10

(***************************************************************************)
(* Type correctness.                                                       *)
(***************************************************************************)

LEMMA Empty == <<>> \in Seq(Version)
  OBVIOUS

LEMMA FrontLast ==
    ASSUME NEW V, NEW s \in Seq(V), s # <<>>
    PROVE  Front(s) \in Seq(V) /\ Last(s) \in V
  <1>1. Len(s) \in 1 .. Len(s) /\ Len(s) \in Nat
    BY EmptySeq
  <1>2. Front(s) \in Seq(V)
    BY <1>1, SubSeqProperties DEF Front
  <1> QED
    BY <1>1, <1>2 DEF Last

LEMMA ZeroAttempts == 0 \in 0 .. MaxRetries /\ 0 \in 0 .. MaxMessages /\ 0 \in 0 .. MaxRestarts
  BY VectorizerAssumption

LEMMA TypeInit == Init => TypeOK
  <1> SUFFICES ASSUME Init PROVE TypeOK
    OBVIOUS
  <1>1. /\ stopping \in BOOLEAN /\ recovering \in BOOLEAN /\ ~recovering
        /\ pc \in PC /\ pc # "upsert"
    BY DEF Init, PC, Attempting
  <1>2. /\ input \in Seq(Version) /\ processing \in Seq(Version) /\ failed \in Seq(Version)
        /\ pending \in Seq(Version) /\ givenUp \in Seq(Version) /\ pending = <<>>
    BY Empty DEF Init
  <1> QED
    BY <1>1, <1>2, ZeroAttempts DEF Init, TypeOK

LEMMA SizeType ==
    ASSUME TypeOK
    PROVE  Size(raw) \in Nat /\ \A v \in Version, k \in Config : Chunks[k][v] \in Nat
  BY VectorizerAssumption DEF TypeOK, Size

\* A failed attempt leads to another one or to the message being given up on.
LEMMA AttemptFailsType ==
    ASSUME TypeOK, pc \in Attempting, AttemptFails, points' \subseteq Point
    PROVE  TypeOK'
  <1>1. /\ pc' \in {"start", "unqueue"} /\ attempt' \in 0 .. MaxRetries /\ next' \in Nat
        /\ pc' \in PC /\ pc' # "upsert" /\ pc' \notin {"poll", "popping", "down"}
    BY SMTT(30), VectorizerAssumption DEF TypeOK, AttemptFails, PC, Attempting
  <1>2. UNCHANGED <<input, processing, failed, config, stopping, recovering, pending, raw,
                    faults, sent, stops, givenUp>>
    BY DEF AttemptFails, lists, history
  <1> QED
    BY <1>1, <1>2 DEF TypeOK

LEMMA UpsertedType ==
    ASSUME TypeOK, pc = "upsert"
    PROVE  /\ Upserted(next, BatchEnd) \subseteq Point
           /\ BatchEnd \in Nat /\ next < BatchEnd /\ BatchEnd <= Size(raw)
  <1>1. BatchEnd \in Nat /\ next < BatchEnd /\ BatchEnd <= Size(raw)
    BY VectorizerAssumption, SizeType DEF TypeOK, BatchEnd
  <1> QED
    BY <1>1 DEF Upserted, TypeOK, Point

\* Taking messages.
LEMMA TakingType ==
    ASSUME TypeOK, Poll \/ Pop \/ PopTimeout \/ Recover \/ RecoveryEnds
    PROVE  TypeOK'
  <1> USE VectorizerAssumption DEF TypeOK, lists, process, history, PC, Attempting
  <1>1. CASE Poll
    BY <1>1 DEF Poll, Size
  <1>2. CASE Pop
    <2>1. /\ Front(input) \in Seq(Version) /\ Last(input) \in Version
          /\ <<Last(input)>> \o processing \in Seq(Version)
      <3>1. Last(input) \in Version /\ Front(input) \in Seq(Version)
        BY <1>2, FrontLast DEF Pop
      <3> QED
        BY <3>1
    <2>2. input' \in Seq(Version) /\ processing' \in Seq(Version)
      BY <1>2, <2>1 DEF Pop
    <2>3. CASE Take(Last(input), "start")
      BY <1>2, <2>1, <2>2, <2>3 DEF Pop, Take
    <2>4. CASE pc' = "poll" /\ UNCHANGED <<raw, attempt, next>>
      BY <1>2, <2>2, <2>4 DEF Pop
    <2> QED
      BY <1>2, <2>3, <2>4 DEF Pop
  <1>3. CASE PopTimeout
    BY <1>3 DEF PopTimeout, Size
  <1>4. CASE Recover
    BY <1>4 DEF Recover, Take
  <1>5. CASE RecoveryEnds
    BY <1>5, Empty DEF RecoveryEnds
  <1> QED
    BY <1>1, <1>2, <1>3, <1>4, <1>5

\* One attempt.
LEMMA AttemptType ==
    ASSUME TypeOK,
           Start \/ StartFails \/ Upsert \/ DeleteStale \/ DeleteSurplus \/ QdrantFails
             \/ Finish \/ FinishFails
    PROVE  TypeOK'
  <1> USE VectorizerAssumption DEF TypeOK, lists, history, PC, Attempting
  <1>1. CASE Start
    <2>1. Size(raw) \in Nat /\ UNCHANGED <<raw, config>>
      BY <1>1, SizeType DEF Start, Goto
    <2> QED
      BY <1>1, <2>1 DEF Start, Goto, Size
  <1>2. CASE StartFails
    BY <1>2, AttemptFailsType DEF StartFails
  <1>3. CASE Upsert
    <2>1. /\ points' \subseteq Point /\ next' \in Nat
          /\ BatchEnd # Size(raw) => next' < Size(raw)
      BY <1>3, SizeType, UpsertedType DEF Upsert
    <2>2. UNCHANGED <<raw, config>> /\ pc' = IF BatchEnd = Size(raw) THEN "stale" ELSE "upsert"
      BY <1>3 DEF Upsert, Goto
    <2>3. pc' = "upsert" => next' < Size(raw)'
      BY <2>1, <2>2 DEF Size
    <2> QED
      BY <1>3, <2>1, <2>2, <2>3 DEF Upsert, Goto
  <1>4. CASE DeleteStale
    BY <1>4 DEF DeleteStale, Goto
  <1>5. CASE DeleteSurplus
    BY <1>5 DEF DeleteSurplus, Goto
  <1>6. CASE QdrantFails
    <2>1. pc \in Attempting /\ points' \subseteq Point /\ AttemptFails
      BY <1>6, UpsertedType DEF QdrantFails
    <2> QED
      BY <2>1, AttemptFailsType
  <1>7. CASE Finish
    BY <1>7 DEF Finish, Goto
  <1>8. CASE FinishFails
    BY <1>8, AttemptFailsType DEF FinishFails
  <1> QED
    BY <1>1, <1>2, <1>3, <1>4, <1>5, <1>6, <1>7, <1>8

\* What is done with the message afterwards.
LEMMA AfterwardsType ==
    ASSUME TypeOK, Ack \/ Unqueue \/ Bury
    PROVE  TypeOK'
  <1> USE DEF TypeOK, lists, process, history, PC, Attempting
  <1>1. ASSUME ItemDone
        PROVE  /\ pc' \in PC /\ pc' # "upsert" /\ (pc' \in {"poll", "popping", "down"} => ~recovering')
               /\ UNCHANGED <<config, stopping, recovering, pending, raw, attempt, next>>
    BY <1>1 DEF ItemDone, NextItem
  <1>2. ASSUME RedisErrorRaised
        PROVE  /\ pc' \in PC /\ pc' # "upsert" /\ ~recovering' /\ recovering' \in BOOLEAN
               /\ pending' = <<>> /\ pending' \in Seq(Version) /\ UNCHANGED <<config, stopping, raw, attempt, next>>
    BY <1>2, Empty DEF RedisErrorRaised
  <1>3. CASE Ack
    <2>1. PICK n \in Times : /\ processing' = Removed(n)
                             /\ ItemDone \/ RedisErrorRaised
      BY <1>3 DEF Ack
    <2>2. processing' \in Seq(Version)
      BY <2>1, RemovedOthers
    <2> QED
      BY <1>1, <1>2, <1>3, <2>1, <2>2 DEF Ack
  <1>4. CASE Unqueue
    <2>1. PICK n \in Times : /\ processing' = Removed(n)
                             /\ givenUp' = IF n > 0 THEN Append(givenUp, raw) ELSE givenUp
                             /\ (pc' = "bury" /\ UNCHANGED process) \/ RedisErrorRaised
      BY <1>4 DEF Unqueue
    <2>2. processing' \in Seq(Version) /\ givenUp' \in Seq(Version)
      <3>1. Append(givenUp, raw) \in Seq(Version)
        BY AppendProperties
      <3> QED
        BY <2>1, <3>1, RemovedOthers
    <2> QED
      BY <1>2, <1>4, <2>1, <2>2 DEF Unqueue
  <1>5. CASE Bury
    <2>1. PICK n \in Times : /\ failed' = [i \in 1 .. n |-> raw] \o failed
                             /\ ItemDone \/ RedisErrorRaised
      BY <1>5 DEF Bury
    <2>2. failed' \in Seq(Version)
      <3>1. n \in Nat
        BY DEF Times
      <3>2. [i \in 1 .. n |-> raw] \in Seq(Version)
        BY <3>1
      <3> QED
        BY <2>1, <3>2
    <2> QED
      BY <1>1, <1>2, <1>5, <2>1, <2>2 DEF Bury
  <1> QED
    BY <1>3, <1>4, <1>5

\* The parser, and the life of the process.
LEMMA OutsideType ==
    ASSUME TypeOK,
           (\E v \in Version : Send(v)) \/ Exit \/ Signal \/ Crash \/ Restart
    PROVE  TypeOK'
  <1> USE VectorizerAssumption DEF TypeOK, lists, process, history, PC, Attempting
  <1>1. ASSUME NEW v \in Version, Send(v) PROVE TypeOK'
    BY <1>1 DEF Send, Size
  <1>2. ASSUME Forget
        PROVE  /\ stopping' \in BOOLEAN /\ recovering' \in BOOLEAN /\ ~recovering'
               /\ pc' \in PC /\ pc' # "upsert"
               /\ pending' \in Seq(Version) /\ pending' = <<>>
               /\ attempt' \in 0 .. MaxRetries /\ next' \in Nat
               /\ UNCHANGED <<config, raw>>
    <2>1. pending' \in Seq(Version) /\ attempt' \in 0 .. MaxRetries /\ next' \in Nat
      BY <1>2, Empty, ZeroAttempts DEF Forget
    <2> QED
      BY <1>2, <2>1 DEF Forget
  <1>3. CASE Exit
    BY <1>2, <1>3 DEF Exit
  <1>4. CASE Signal
    BY <1>4 DEF Signal, Size
  <1>5. CASE Crash
    BY <1>2, <1>5 DEF Crash
  <1>6. CASE Restart
    BY <1>6 DEF Restart
  <1> QED
    BY <1>1, <1>3, <1>4, <1>5, <1>6

LEMMA TypeStep == TypeOK /\ [Next]_vars => TypeOK'
  <1> SUFFICES ASSUME TypeOK, [Next]_vars PROVE TypeOK'
    OBVIOUS
  <1>1. CASE UNCHANGED vars
    BY <1>1 DEF TypeOK, vars, lists, process, history, Size
  <1> QED
    BY <1>1, TakingType, AttemptType, AfterwardsType, OutsideType DEF Next, Step

\* The variables of the process fit where it is, for every instance: what is
\* still to be recovered is recovered, and there are never more attempts than
\* MAX_RETRIES (main.py:164).
THEOREM TypeCorrect == Spec => []TypeOK
  BY TypeInit, TypeStep, PTL DEF Spec

(***************************************************************************)
(* What an attempt has achieved so far.                                    *)
(***************************************************************************)

\* The first n chunks of the version at hand are points, cut as the process
\* is configured, whatever older attempts left.
Done(n) ==
    /\ \A i \in 0 .. n - 1 : [version |-> raw, chunk |-> i, config |-> config] \in points
    /\ \A p \in points : p.version = raw /\ p.chunk < n => p.config = config

NoStale == \A p \in points : ~Stale(p)

Progress ==
    /\ pc = "upsert" => Done(next)
    /\ pc \in {"stale", "surplus"} => Size(raw) > 0 /\ Done(Size(raw))
    /\ pc = "surplus" => NoStale
    /\ pc = "finish" => Indexed(raw)
    /\ pc = "ack" => Size(raw) = 0 \/ Indexed(raw)
    /\ pc = "unqueue" => attempt = MaxRetries

Inv == TypeOK /\ Progress

LEMMA ProgressInit == Init => Progress
  BY DEF Init, Progress

\* One batch more.
LEMMA UpsertedDone ==
    ASSUME Inv, pc = "upsert"
    PROVE  LET now == Upserted(next, BatchEnd)
           IN  /\ \A i \in 0 .. BatchEnd - 1 :
                     [version |-> raw, chunk |-> i, config |-> config] \in now
               /\ \A p \in now : p.version = raw /\ p.chunk < BatchEnd => p.config = config
  <1> DEFINE pt(i) == [version |-> raw, chunk |-> i, config |-> config]
  <1>1. /\ BatchEnd \in Nat /\ next \in Nat /\ next < BatchEnd
        /\ points \subseteq Point /\ Done(next)
    BY UpsertedType DEF Inv, TypeOK, Progress
  <1>2. ASSUME NEW i \in 0 .. BatchEnd - 1
        PROVE  pt(i) \in Upserted(next, BatchEnd)
    <2>1. CASE i < next
      <3>1. pt(i) \in points /\ pt(i).chunk = i
        BY <1>1, <1>2, <2>1 DEF Done
      <3> QED
        BY <1>1, <2>1, <3>1 DEF Upserted
    <2>2. CASE i >= next
      <3>1. i \in next .. BatchEnd - 1
        BY <1>1, <2>2
      <3> QED
        BY <3>1 DEF Upserted
    <2> QED
      BY <1>1, <2>1, <2>2
  <1>3. ASSUME NEW p \in Upserted(next, BatchEnd), p.version = raw, p.chunk < BatchEnd
        PROVE  p.config = config
    <2>1. CASE p \in points /\ p.chunk \notin next .. BatchEnd - 1
      <3>1. p.chunk \in Nat
        BY <1>1, <2>1 DEF Point
      <3>2. p.chunk < next
        BY <1>1, <1>3, <2>1, <3>1
      <3> QED
        BY <1>1, <1>3, <2>1, <3>2 DEF Done
    <2>2. CASE \E i \in next .. BatchEnd - 1 : p = pt(i)
      BY <2>2
    <2> QED
      BY <1>3, <2>1, <2>2 DEF Upserted
  <1> QED
    BY <1>2, <1>3

\* The second deletion leaves exactly the points of the version.
LEMMA SurplusLeft ==
    ASSUME Inv, pc = "surplus", NEW p
    PROVE  (p \in points /\ ~Surplus(p) /\ DocOf[p.version] = DocOf[raw]
              /\ Collection[p.version] = Collection[raw])
           <=> p \in Exactly(raw, config)
  <1> USE DEF Size, Surplus
  <1>1. /\ points \subseteq Point /\ Done(Size(raw)) /\ NoStale
        /\ Size(raw) \in Nat
    BY SizeType DEF Inv, TypeOK, Progress
  <1>2. ASSUME p \in points, ~Surplus(p), DocOf[p.version] = DocOf[raw],
               Collection[p.version] = Collection[raw]
        PROVE  p \in Exactly(raw, config)
    <2>1. p \in Point /\ p.chunk \in Nat
      BY <1>1, <1>2 DEF Point
    <2>2. p.version = raw
      BY <1>1, <1>2 DEF NoStale, Stale
    <2>3. p.chunk \in 0 .. Size(raw) - 1
      BY <1>1, <1>2, <2>1, <2>2
    <2>4. p.config = config
      BY <1>1, <1>2, <2>2, <2>3 DEF Done
    <2>5. p = [version |-> p.version, chunk |-> p.chunk, config |-> p.config]
      BY <2>1 DEF Point
    <2> QED
      BY <2>2, <2>3, <2>4, <2>5 DEF Exactly
  <1>3. ASSUME p \in Exactly(raw, config)
        PROVE  /\ p \in points /\ ~Surplus(p) /\ DocOf[p.version] = DocOf[raw]
               /\ Collection[p.version] = Collection[raw]
    <2>1. PICK i \in 0 .. Size(raw) - 1 : p = [version |-> raw, chunk |-> i, config |-> config]
      BY <1>3 DEF Exactly
    <2>2. p \in points
      BY <1>1, <2>1 DEF Done
    <2> QED
      BY <1>1, <2>1, <2>2
  <1> QED
    BY <1>2, <1>3

LEMMA ProgressStep == Inv /\ [Next]_vars => Progress'
  <1> SUFFICES ASSUME Inv, [Next]_vars PROVE Progress'
    OBVIOUS
  <1> USE DEF Inv, lists, process, history
  <1>1. CASE UNCHANGED vars
    BY <1>1 DEF vars, Progress, Done, NoStale, Stale, Indexed, IndexOf, Exactly, Size
  <1>2. ASSUME pc' \notin {"upsert", "stale", "surplus", "finish", "ack", "unqueue"} PROVE Progress'
    BY <1>2 DEF Progress
  <1>3. ASSUME UNCHANGED <<points, pc, config, raw, attempt, next>> PROVE Progress'
    BY <1>3 DEF Progress, Done, NoStale, Stale, Indexed, IndexOf, Exactly, Size
  <1>4. ASSUME AttemptFails PROVE Progress'
    <2>1. attempt \in 0 .. MaxRetries /\ MaxRetries \in Nat
      BY VectorizerAssumption DEF TypeOK
    <2>2. CASE attempt < MaxRetries
      BY <1>2, <1>4, <2>2 DEF AttemptFails
    <2>3. CASE attempt = MaxRetries
      BY <1>4, <2>1, <2>3 DEF AttemptFails, Progress
    <2> QED
      BY <2>1, <2>2, <2>3
  <1>5. ASSUME ItemDone \/ RedisErrorRaised PROVE Progress'
    BY <1>2, <1>5 DEF ItemDone, NextItem, RedisErrorRaised
  <1>6. CASE \E v \in Version : Send(v)
    BY <1>3, <1>6 DEF Send
  <1>7. CASE Poll \/ Pop \/ PopTimeout \/ Recover \/ RecoveryEnds
    BY <1>2, <1>7 DEF Poll, Pop, PopTimeout, Recover, RecoveryEnds, Take
  <1>8. CASE Start
    <2>1. CASE Size(raw) = 0
      BY <1>8, <2>1 DEF Start, Goto, Progress, Size
    <2>2. CASE Size(raw) # 0
      BY <1>8, <2>2 DEF Start, Goto, Progress, Done, TypeOK, Point
    <2> QED
      BY <2>1, <2>2
  <1>9. CASE StartFails \/ QdrantFails \/ FinishFails
    BY <1>4, <1>9 DEF StartFails, QdrantFails, FinishFails
  <1>10. CASE Upsert
    <2>1. /\ pc = "upsert" /\ points' = Upserted(next, BatchEnd) /\ UNCHANGED <<raw, config>>
          /\ next' = BatchEnd /\ pc' = IF BatchEnd = Size(raw) THEN "stale" ELSE "upsert"
      BY <1>10 DEF Upsert, Goto
    <2>2. /\ \A i \in 0 .. next' - 1 :
                [version |-> raw', chunk |-> i, config |-> config'] \in points'
          /\ \A p \in points' : p.version = raw' /\ p.chunk < next' => p.config = config'
      BY <2>1, UpsertedDone
    <2>3. CASE BatchEnd = Size(raw)
      <3>1. Size(raw) > 0 /\ pc' = "stale" /\ next' = Size(raw)
        BY <2>1, <2>3, UpsertedType DEF TypeOK
      <3>2. pc' \notin {"upsert", "surplus", "finish", "ack", "unqueue"} /\ Size(raw)' = Size(raw)
        BY <2>1, <3>1 DEF Size
      <3> QED
        BY <2>2, <3>1, <3>2 DEF Progress, Done
    <2>4. CASE BatchEnd # Size(raw)
      <3>1. pc' = "upsert"
        BY <2>1, <2>4
      <3> QED
        BY <2>2, <3>1 DEF Progress, Done
    <2> QED
      BY <2>3, <2>4
  <1>11. CASE DeleteStale
    <2>1. /\ points' = {p \in points : ~Stale(p)} /\ UNCHANGED <<raw, config>>
          /\ pc = "stale" /\ pc' = "surplus"
      BY <1>11 DEF DeleteStale, Goto
    <2>2. Size(raw) > 0 /\ Done(Size(raw))
      BY <2>1 DEF Progress
    <2>3. \A i \in 0 .. Size(raw) - 1 :
              [version |-> raw, chunk |-> i, config |-> config] \in points'
      BY <2>1, <2>2 DEF Done, Stale
    <2>4. NoStale'
      BY <2>1 DEF NoStale, Stale
    <2> QED
      BY <2>1, <2>2, <2>3, <2>4 DEF Progress, Done, Size
  <1>12. CASE DeleteSurplus
    <2>1. pc = "surplus" /\ pc' = "finish"
      BY <1>12 DEF DeleteSurplus, Goto
    <2>2. points' = {p \in points : ~Surplus(p)} /\ UNCHANGED <<raw, config>>
      BY <1>12 DEF DeleteSurplus, Goto
    <2>3. ASSUME NEW p
          PROVE  (p \in points' /\ DocOf[p.version] = DocOf[raw]
                    /\ Collection[p.version] = Collection[raw])
                 <=> p \in Exactly(raw, config)
      BY <2>1, <2>2, SurplusLeft
    <2>4. Indexed(raw)'
      BY <2>2, <2>3 DEF Indexed, IndexOf, Exactly
    <2> QED
      BY <2>1, <2>4 DEF Progress
  <1>13. CASE Finish
    BY <1>13 DEF Finish, Goto, Progress, Indexed, IndexOf, Exactly, Size
  <1>14. CASE Ack \/ Bury
    BY <1>5, <1>14 DEF Ack, Bury
  <1>15. CASE Unqueue
    BY <1>2, <1>5, <1>15 DEF Unqueue
  <1>16. CASE Exit \/ Crash \/ Restart
    BY <1>2, <1>16 DEF Exit, Crash, Restart, Forget
  <1>17. CASE Signal
    BY <1>3, <1>17 DEF Signal
  <1> QED
    BY <1>1, <1>6, <1>7, <1>8, <1>9, <1>10, <1>11, <1>12, <1>13, <1>14, <1>15, <1>16, <1>17
       DEF Next, Step

LEMMA Invariance == Spec => []Inv
  <1>1. Init => Inv
    BY TypeInit, ProgressInit DEF Inv
  <1>2. Inv /\ [Next]_vars => Inv'
    BY TypeStep, ProgressStep DEF Inv
  <1> QED
    BY <1>1, <1>2, PTL DEF Spec

(***************************************************************************)
(* What an attempt may never do.                                           *)
(***************************************************************************)

\* A message goes off vectorizer:processing only through the LREM of
\* process_processing_item (main.py:133, 141), and then its version is indexed,
\* has no chunks or was given up on, for all sets of documents and versions, all
\* batch sizes and numbers of retries.
THEOREM Served == Spec => RemovedOnceServed
  <1>1. ASSUME Inv, [Next]_vars, NEW v \in Version, Copies(v, processing') < Copies(v, processing)
        PROVE  \/ Indexed(v) \/ Size(v) = 0
               \/ pc = "unqueue" /\ raw = v /\ attempt = MaxRetries
    <2>1. TypeOK /\ processing \in Seq(Version) /\ Copies(v, processing) \in Nat
      BY <1>1, CopiesType DEF Inv, TypeOK
    <2>2. processing' # processing
      BY <1>1, <2>1
    <2>3. ASSUME NEW n \in Times, processing' = Removed(n) PROVE v = raw
      <3>1. Copies(v, Removed(n)) \in Nat /\ (v # raw => Copies(v, processing) <= Copies(v, Removed(n)))
        BY <2>1, RemovedOthers, CopiesType
      <3> QED
        BY <1>1, <2>1, <2>3, <3>1
    <2>4. CASE Pop
      <3>1. input # <<>> /\ processing' = <<Last(input)>> \o processing /\ input \in Seq(Version)
        BY <2>1, <2>4 DEF Pop, TypeOK
      <3>2. Last(input) \in Version
        BY <3>1, FrontLast
      <3>3. <<Last(input)>> \o processing \in Seq(Version)
            /\ Copies(v, processing) <= Copies(v, <<Last(input)>> \o processing)
        BY <2>1, <3>2, PrependCopies
      <3>4. Copies(v, processing') \in Nat
        BY <3>1, <3>3, CopiesType
      <3> QED
        BY <1>1, <2>1, <3>1, <3>3, <3>4
    <2>5. CASE Ack
      <3>1. pc = "ack" /\ v = raw
        BY <2>3, <2>5 DEF Ack
      <3> QED
        BY <1>1, <3>1 DEF Inv, Progress
    <2>6. CASE Unqueue
      <3>1. pc = "unqueue" /\ v = raw
        BY <2>3, <2>6 DEF Unqueue
      <3> QED
        BY <1>1, <3>1 DEF Inv, Progress
    <2>7. CASE UNCHANGED vars
      BY <2>2, <2>7 DEF vars, lists
    <2>8. CASE Poll \/ PopTimeout \/ Recover \/ RecoveryEnds
      BY <2>2, <2>8 DEF Poll, PopTimeout, Recover, RecoveryEnds, lists
    <2>9. CASE Start \/ StartFails \/ Upsert \/ DeleteStale \/ DeleteSurplus \/ QdrantFails
                 \/ Finish \/ FinishFails
      BY <2>2, <2>9 DEF Start, StartFails, Upsert, DeleteStale, DeleteSurplus, QdrantFails,
         Finish, FinishFails, Goto, AttemptFails, lists
    <2>10. CASE Bury
      BY <2>2, <2>10 DEF Bury
    <2>11. CASE (\E w \in Version : Send(w)) \/ Exit \/ Signal \/ Crash \/ Restart
      BY <2>2, <2>11 DEF Send, Exit, Signal, Crash, Restart, lists
    <2> QED
      BY <1>1, <2>4, <2>5, <2>6, <2>7, <2>8, <2>9, <2>10, <2>11 DEF Next, Step
  <1>2. Inv /\ [Next]_vars =>
            [\A v \in Version :
                Copies(v, processing') < Copies(v, processing) =>
                    Indexed(v) \/ Size(v) = 0 \/ (pc = "unqueue" /\ raw = v /\ attempt = MaxRetries)]_vars
    BY <1>1
  <1> QED
    BY <1>2, Invariance, PTL DEF Spec, RemovedOnceServed

\* A batch overwrites nothing but points of the version at hand with another
\* configuration.
LEMMA UpsertedKeeps ==
    ASSUME NEW v, NEW k, Exactly(v, k) \subseteq points, v # raw \/ k = config
    PROVE  Exactly(v, k) \subseteq Upserted(next, BatchEnd)
  <1> SUFFICES ASSUME NEW i \in 0 .. Chunks[k][v] - 1
               PROVE  [version |-> v, chunk |-> i, config |-> k] \in Upserted(next, BatchEnd)
    BY DEF Exactly
  <1> DEFINE p == [version |-> v, chunk |-> i, config |-> k]
  <1>1. p \in points /\ p.version = v /\ p.chunk = i
    BY DEF Exactly
  <1>2. CASE v # raw \/ i \notin next .. BatchEnd - 1
    BY <1>1, <1>2 DEF Upserted
  <1>3. CASE v = raw /\ i \in next .. BatchEnd - 1
    BY <1>3 DEF Upserted
  <1> QED
    BY <1>2, <1>3

\* When the batches are written, the version at hand is there, whole, and the
\* deletions leave it there.
LEMMA DeletionSpares ==
    ASSUME Inv, pc \in {"stale", "surplus"}, NEW now,
           \/ now = {p \in points : ~Stale(p)}
           \/ now = {p \in points : ~Surplus(p)}
    PROVE  Exactly(raw, config) \subseteq now
  <1>1. Chunks[config][raw] \in Nat /\ Done(Chunks[config][raw])
    BY SizeType DEF Inv, TypeOK, Progress, Size
  <1> SUFFICES ASSUME NEW i \in 0 .. Chunks[config][raw] - 1
               PROVE  [version |-> raw, chunk |-> i, config |-> config] \in now
    BY DEF Exactly
  <1> DEFINE p == [version |-> raw, chunk |-> i, config |-> config]
  <1>2. p \in points /\ p.version = raw /\ p.chunk = i
    BY <1>1 DEF Done
  <1>3. ~Stale(p) /\ ~Surplus(p)
    BY <1>1, <1>2 DEF Stale, Surplus, Size
  <1> QED
    BY <1>2, <1>3

\* Of other documents they take nothing.
LEMMA DeletionElsewhere ==
    ASSUME NEW v, DocOf[v] # DocOf[raw], NEW k, Exactly(v, k) \subseteq points, NEW now,
           \/ now = {p \in points : ~Stale(p)}
           \/ now = {p \in points : ~Surplus(p)}
    PROVE  Exactly(v, k) \subseteq now
  <1> SUFFICES ASSUME NEW i \in 0 .. Chunks[k][v] - 1
               PROVE  [version |-> v, chunk |-> i, config |-> k] \in now
    BY DEF Exactly
  <1> DEFINE p == [version |-> v, chunk |-> i, config |-> k]
  <1>1. p \in points /\ p.version = v
    BY DEF Exactly
  <1>2. ~Stale(p) /\ ~Surplus(p)
    BY <1>1 DEF Stale, Surplus
  <1> QED
    BY <1>1, <1>2

\* Only the batches of a new cut of the version that a document is found by can
\* make it less than whole (point_id, qdrant.py): other versions are written
\* beside it, and the deletions come after the last batch.
THEOREM Findable == Spec => NeverLost
  <1>1. ASSUME Inv, [Next]_vars, NEW d \in Doc, Whole(d), ~CutAnew(d)
        PROVE  Whole(d)'
    <2>10. ASSUME NEW v \in Version, NEW k \in Config, DocOf[v] = d, Chunks[k][v] > 0,
                  Exactly(v, k) \subseteq points'
           PROVE  Whole(d)'
      BY <2>10 DEF Whole, WholeAs, Exactly
    <2>11. PICK v \in Version, k \in Config : DocOf[v] = d /\ WholeAs(v, k)
      BY <1>1 DEF Whole
    <2>1. CASE UNCHANGED points
      BY <2>1, <2>10, <2>11 DEF WholeAs
    <2>2. ASSUME pc = "upsert", points' = Upserted(next, BatchEnd) PROVE Whole(d)'
      <3>1. \E w \in Version, l \in Config : DocOf[w] = d /\ WholeAs(w, l) /\ (w # raw \/ l = config)
        <4>1. CASE DocOf[raw] = d
          BY <1>1, <2>2, <4>1 DEF CutAnew
        <4>2. CASE DocOf[raw] # d
          BY <2>11, <4>2
        <4> QED
          BY <4>1, <4>2
      <3>2. PICK w \in Version, l \in Config : DocOf[w] = d /\ WholeAs(w, l) /\ (w # raw \/ l = config)
        BY <3>1
      <3>3. Exactly(w, l) \subseteq points'
        BY <2>2, <3>2, UpsertedKeeps DEF WholeAs
      <3> QED
        BY <2>10, <3>2, <3>3 DEF WholeAs
    <2>3. ASSUME pc \in {"stale", "surplus"},
                 \/ points' = {p \in points : ~Stale(p)}
                 \/ points' = {p \in points : ~Surplus(p)}
          PROVE  Whole(d)'
      <3>1. CASE DocOf[raw] = d
        <4>1. raw \in Version /\ config \in Config /\ Chunks[config][raw] > 0
          BY <1>1, <2>3 DEF Inv, TypeOK, Progress, Size
        <4>2. Exactly(raw, config) \subseteq points'
          BY <1>1, <2>3, DeletionSpares
        <4> QED
          BY <2>10, <3>1, <4>1, <4>2
      <3>2. CASE DocOf[raw] # d
        <4>1. Exactly(v, k) \subseteq points'
          BY <2>3, <2>11, <3>2, DeletionElsewhere DEF WholeAs
        <4> QED
          BY <2>10, <2>11, <4>1 DEF WholeAs
      <3> QED
        BY <3>1, <3>2
    <2>4. CASE Upsert
      BY <2>2, <2>4 DEF Upsert
    <2>5. CASE DeleteStale \/ DeleteSurplus
      BY <2>3, <2>5 DEF DeleteStale, DeleteSurplus
    <2>6. CASE QdrantFails
      BY <2>1, <2>2, <2>3, <2>6 DEF QdrantFails
    <2>7. CASE UNCHANGED vars
      BY <2>1, <2>7 DEF vars
    <2>8. CASE Poll \/ Pop \/ PopTimeout \/ Recover \/ RecoveryEnds \/ Start \/ StartFails
                 \/ Finish \/ FinishFails \/ Ack \/ Unqueue \/ Bury \/ Exit
      BY <2>1, <2>8 DEF Poll, Pop, PopTimeout, Recover, RecoveryEnds, Start, StartFails,
         Finish, FinishFails, Ack, Unqueue, Bury, Exit
    <2>9. CASE (\E w \in Version : Send(w)) \/ Signal \/ Crash \/ Restart
      BY <2>1, <2>9 DEF Send, Signal, Crash, Restart
    <2> QED
      BY <1>1, <2>4, <2>5, <2>6, <2>7, <2>8, <2>9 DEF Next, Step
  <1>2. Inv /\ [Next]_vars => [\A d \in Doc : Whole(d) /\ ~CutAnew(d) => Whole(d)']_vars
    BY <1>1
  <1> QED
    BY <1>2, Invariance, PTL DEF Spec, NeverLost

(***************************************************************************)
(* What a stop costs.                                                      *)
(***************************************************************************)

\* The message that is off the processing list and not yet on the other.
InHand == IF pc = "bury" THEN 1 ELSE 0

\* While every command takes effect once, each message given up on is on the
\* failed list, in hand, or went with a process that stopped.
Buried ==
    {"redis", "resend"} \cap faults = {} =>
        /\ Len(failed) + InHand <= Len(givenUp)
        /\ Len(givenUp) <= Len(failed) + InHand + stops

LEMMA BuriedStep == Inv /\ Buried /\ [Next]_vars => Buried'
  <1> SUFFICES ASSUME Inv, Buried, [Next]_vars, {"redis", "resend"} \cap faults' = {}
               PROVE  Buried'
    BY DEF Buried
  <1> USE DEF lists, process, history
  <1>1. faults' = faults
    BY DEF vars, Next, Step, Send, Poll, Pop, PopTimeout, Recover, RecoveryEnds, Start,
       StartFails, Upsert, DeleteStale, DeleteSurplus, QdrantFails, Finish, FinishFails, Goto,
       AttemptFails, Ack, Unqueue, Bury, Exit, Signal, Crash, Restart
  <1>2. Times = {1} /\ ~Raised(1)
    BY <1>1 DEF Times, Raised
  <1>3. /\ failed \in Seq(Version) /\ givenUp \in Seq(Version) /\ raw \in Version
        /\ stops \in Nat /\ Len(failed) \in Nat /\ Len(givenUp) \in Nat
    BY VectorizerAssumption, LenProperties DEF Inv, TypeOK
  <1>4. /\ Len(failed) + InHand <= Len(givenUp)
        /\ Len(givenUp) <= Len(failed) + InHand + stops
    BY <1>1 DEF Buried
  <1>5. ASSUME UNCHANGED <<failed, givenUp, stops>>, pc # "bury", pc' # "bury"
        PROVE  Buried'
    BY <1>4, <1>5 DEF Buried, InHand
  <1>6. ASSUME UNCHANGED <<failed, givenUp, stops, pc>>
        PROVE  Buried'
    BY <1>4, <1>6 DEF Buried, InHand
  <1>7. ASSUME UNCHANGED <<failed, givenUp>>, stops' = stops + 1, pc' \in {pc, "down"}
        PROVE  Buried'
    <2>1. /\ Len(failed) + InHand' <= Len(givenUp) /\ InHand' \in Nat
          /\ Len(givenUp) <= Len(failed) + InHand' + (stops + 1)
      <3>1. InHand' \in {0, 1} /\ InHand \in {0, 1} /\ InHand' <= InHand
        BY <1>7 DEF InHand
      <3> QED
        BY <1>3, <1>4, <3>1
    <2> QED
      BY <1>7, <2>1 DEF Buried
  <1>8. CASE UNCHANGED vars \/ (\E v \in Version : Send(v))
    BY <1>6, <1>8 DEF vars, Send
  <1>9. CASE Poll \/ Pop \/ PopTimeout \/ Recover \/ RecoveryEnds
    BY <1>5, <1>9 DEF Poll, Pop, PopTimeout, Recover, RecoveryEnds, Take
  <1>10. CASE Start \/ StartFails \/ Upsert \/ DeleteStale \/ DeleteSurplus \/ QdrantFails
                \/ Finish \/ FinishFails
    BY <1>5, <1>10 DEF Start, StartFails, Upsert, DeleteStale, DeleteSurplus, QdrantFails,
       Finish, FinishFails, Goto, AttemptFails
  <1>11. CASE Ack
    BY <1>2, <1>5, <1>11 DEF Ack, ItemDone, NextItem
  <1>12. CASE Unqueue
    <2>1. /\ pc = "unqueue" /\ pc' = "bury" /\ givenUp' = Append(givenUp, raw)
          /\ UNCHANGED <<failed, stops>>
      BY <1>2, <1>12 DEF Unqueue
    <2>2. Len(givenUp') = Len(givenUp) + 1
      BY <1>3, <2>1, AppendProperties
    <2> QED
      BY <1>3, <1>4, <2>1, <2>2 DEF Buried, InHand
  <1>13. CASE Bury
    <2>1. /\ pc = "bury" /\ pc' # "bury" /\ failed' = [i \in 1 .. 1 |-> raw] \o failed
          /\ UNCHANGED <<givenUp, stops>>
      BY <1>2, <1>13 DEF Bury, ItemDone, NextItem
    <2>2. [i \in 1 .. 1 |-> raw] \in Seq(Version) /\ Len([i \in 1 .. 1 |-> raw]) = 1
      BY <1>3
    <2>3. Len(failed') = 1 + Len(failed)
      BY <1>3, <2>1, <2>2, ConcatProperties
    <2> QED
      BY <1>3, <1>4, <2>1, <2>3 DEF Buried, InHand
  <1>14. CASE Exit \/ Restart
    BY <1>5, <1>14 DEF Exit, Restart, Forget
  <1>15. CASE Signal \/ Crash
    BY <1>7, <1>15 DEF Signal, Crash, Forget
  <1> QED
    BY <1>8, <1>9, <1>10, <1>11, <1>12, <1>13, <1>14, <1>15 DEF Next, Step

\* Nothing that is given up on disappears, but what a stop between the two
\* commands takes with it (main.py:140), for every number of attempts, stops and
\* messages.
THEOREM GivenUpKept == Spec => []FailedKept
  <1>1. Init => Buried
    <2>1. Len(<<>>) = 0
      OBVIOUS
    <2> QED
      BY <2>1 DEF Init, Buried, InHand
  <1>2. Inv /\ Buried => FailedKept
    <2> SUFFICES ASSUME Inv, Buried, {"redis", "resend"} \cap faults = {}
                 PROVE  Len(givenUp) - Len(failed) - InHand \in 0 .. stops
      BY DEF FailedKept, InHand
    <2>1. Len(failed) \in Nat /\ Len(givenUp) \in Nat /\ stops \in Nat /\ InHand \in Nat
      BY VectorizerAssumption, LenProperties DEF Inv, TypeOK, InHand
    <2>2. Len(failed) + InHand <= Len(givenUp) /\ Len(givenUp) <= Len(failed) + InHand + stops
      BY DEF Buried
    <2> QED
      BY <2>1, <2>2
  <1> QED
    BY <1>1, <1>2, BuriedStep, Invariance, PTL DEF Spec


(***************************************************************************)
(* What is left when the processing list is.                               *)
(***************************************************************************)

\* One element less is one copy less of it.
LEMMA DroppedCopies ==
    ASSUME NEW V, NEW s \in Seq(V), NEW t \in Seq(V), NEW k \in 1 .. Len(s), NEW v,
           Len(t) = Len(s) - 1,
           \A j \in 1 .. Len(s) - 1 : t[j] = s[IF j < k THEN j ELSE j + 1]
    PROVE  Copies(v, s) = Copies(v, t) + (IF s[k] = v THEN 1 ELSE 0)
  <1> DEFINE S == {i \in DOMAIN s : s[i] = v}
             T == {i \in DOMAIN t : t[i] = v}
             f == [j \in T |-> IF j < k THEN j ELSE j + 1]
  <1>1. /\ Len(s) \in Nat /\ DOMAIN s = 1 .. Len(s) /\ DOMAIN t = 1 .. Len(t) /\ Len(t) = Len(s) - 1
        /\ IsFiniteSet(1 .. Len(s)) /\ IsFiniteSet(1 .. Len(t))
    <2>1. \A n \in Nat : IsFiniteSet(1 .. n)
      BY FS_Interval
    <2> QED
      BY <2>1, LenProperties
  <1>2. IsFiniteSet(S) /\ IsFiniteSet(T)
    BY <1>1, FS_Subset
  <1>3. \A j \in T : f[j] \in S \ {k}
    BY <1>1
  <1>4. \A i, j \in T : f[i] = f[j] => i = j
    BY <1>1
  <1>5. \A i \in S \ {k} : \E j \in T : f[j] = i
    <2> SUFFICES ASSUME NEW i \in S \ {k} PROVE \E j \in T : f[j] = i
      OBVIOUS
    <2>1. CASE i < k
      <3>1. i \in T
        BY <1>1, <2>1
      <3> QED
        BY <2>1, <3>1
    <2>2. CASE i > k
      <3>1. i - 1 \in 1 .. Len(s) - 1 /\ ~(i - 1 < k) /\ (i - 1) + 1 = i
        BY <1>1, <2>2
      <3>2. i - 1 \in T
        BY <1>1, <3>1
      <3> QED
        BY <3>1, <3>2
    <2> QED
      BY SMTT(30), <1>1, <2>1, <2>2
  <1>6. Cardinality(T) = Cardinality(S \ {k})
    <2>1. f \in [T -> S \ {k}]
      BY <1>3
    <2> HIDE DEF f, S, T
    <2>2. f \in Bijection(T, S \ {k})
      BY <1>4, <1>5, <2>1 DEF Bijection, Injection, Surjection, IsInjective
    <2>3. ExistsBijection(T, S \ {k})
      BY <2>2 DEF ExistsBijection
    <2> QED
      BY <1>2, <2>3, FS_Bijection
  <1>7. Cardinality(S) \in Nat /\ Cardinality(T) \in Nat
    BY <1>2, FS_CardinalityType
  <1>8. Cardinality(S \ {k}) = IF k \in S THEN Cardinality(S) - 1 ELSE Cardinality(S)
    BY <1>2, FS_RemoveElement
  <1>9. k \in S <=> s[k] = v
    BY <1>1
  <1> HIDE DEF S, T, f
  <1>10. Cardinality(S) = Cardinality(T) + (IF s[k] = v THEN 1 ELSE 0)
    BY <1>6, <1>7, <1>8, <1>9
  <1> QED
    BY <1>10 DEF Copies, S, T

\* LREM takes one copy of its argument, if there is one.
LEMMA RemoveFirstCounts ==
    ASSUME NEW V, NEW s \in Seq(V), NEW e, NEW v
    PROVE  /\ RemoveFirst(s, e) \in Seq(V)
           /\ Copies(v, s) <= Copies(v, RemoveFirst(s, e)) + (IF v = e THEN 1 ELSE 0)
  <1> DEFINE r == RemoveFirst(s, e)
  <1>1. CASE r = s
    <2>1. Copies(v, s) \in Nat
      BY CopiesType
    <2> QED
      BY <1>1, <2>1
  <1>2. CASE \E k \in 1 .. Len(s) :
               /\ s[k] = e
               /\ r \in Seq(V) /\ Len(r) = Len(s) - 1
               /\ \A j \in 1 .. Len(s) - 1 : r[j] = s[IF j < k THEN j ELSE j + 1]
    <2> HIDE DEF r
    <2>1. PICK k \in 1 .. Len(s) :
             /\ s[k] = e
             /\ r \in Seq(V) /\ Len(r) = Len(s) - 1
             /\ \A j \in 1 .. Len(s) - 1 : r[j] = s[IF j < k THEN j ELSE j + 1]
      BY <1>2
    <2>2. r \in Seq(V) /\ Copies(v, r) \in Nat
      BY <2>1, CopiesType
    <2>3. Copies(v, s) = Copies(v, r) + (IF s[k] = v THEN 1 ELSE 0)
      BY <2>1, <2>2, DroppedCopies
    <2> QED
      BY <2>1, <2>2, <2>3 DEF r
  <1> QED
    BY <1>1, <1>2, RemoveFirstTakesOne

\* BRPOPLPUSH puts one copy before the others, and so does recovery the reverse.
LEMMA FirstCounts ==
    ASSUME NEW V, NEW s \in Seq(V), NEW e \in V, NEW v
    PROVE  /\ <<e>> \o s \in Seq(V)
           /\ Copies(v, <<e>> \o s) = Copies(v, s) + (IF e = v THEN 1 ELSE 0)
  <1> DEFINE t == <<e>> \o s
  <1>1. /\ t \in Seq(V) /\ Len(t) = Len(s) + 1 /\ Len(s) \in Nat /\ t[1] = e
        /\ \A j \in 1 .. Len(s) : s[j] = t[j + 1]
    OBVIOUS
  <1> HIDE DEF t
  <1>2. \A j \in 1 .. Len(t) - 1 : s[j] = t[IF j < 1 THEN j ELSE j + 1]
    BY <1>1
  <1> DEFINE k == 1
  <1>3. k \in 1 .. Len(t) /\ Len(s) = Len(t) - 1 /\ \A j \in 1 .. Len(t) - 1 : s[j] = t[IF j < k THEN j ELSE j + 1]
    BY <1>1, <1>2
  <1> HIDE DEF k
  <1>4. Copies(v, t) = Copies(v, s) + (IF t[k] = v THEN 1 ELSE 0)
    BY SMTT(30), <1>1, <1>3, DroppedCopies
  <1> QED
    BY <1>1, <1>4 DEF t, k

LEMMA TailCounts ==
    ASSUME NEW V, NEW s \in Seq(V), s # <<>>, NEW v
    PROVE  /\ Tail(s) \in Seq(V)
           /\ Copies(v, s) = Copies(v, Tail(s)) + (IF Head(s) = v THEN 1 ELSE 0)
  <1> DEFINE t == Tail(s)
  <1>1. /\ t \in Seq(V) /\ Len(t) = Len(s) - 1 /\ Len(s) \in Nat /\ Len(s) # 0 /\ Head(s) = s[1]
        /\ \A j \in 1 .. Len(s) - 1 : t[j] = s[j + 1]
    BY HeadTailProperties, EmptySeq
  <1> HIDE DEF t
  <1>2. \A j \in 1 .. Len(s) - 1 : t[j] = s[IF j < 1 THEN j ELSE j + 1]
    BY <1>1
  <1>3. 1 \in 1 .. Len(s)
    BY <1>1
  <1>4. Copies(v, s) = Copies(v, t) + (IF s[1] = v THEN 1 ELSE 0)
    BY <1>1, <1>2, <1>3, DroppedCopies
  <1> QED
    BY <1>1, <1>4 DEF t

\* What is appended to a history adds to the copies there.
LEMMA AppendCounts ==
    ASSUME NEW V, NEW s \in Seq(V), NEW e \in V, NEW v
    PROVE  /\ Append(s, e) \in Seq(V)
           /\ Copies(v, Append(s, e)) = Copies(v, s) + (IF e = v THEN 1 ELSE 0)
  <1> DEFINE t == Append(s, e)
  <1>1. /\ t \in Seq(V) /\ Len(t) = Len(s) + 1 /\ Len(s) \in Nat /\ t[Len(s) + 1] = e
        /\ \A j \in 1 .. Len(s) : s[j] = t[j]
    BY AppendProperties
  <1> HIDE DEF t
  <1>2. \A j \in 1 .. Len(t) - 1 : s[j] = t[IF j < Len(t) THEN j ELSE j + 1]
    BY <1>1
  <1>3. Len(t) \in 1 .. Len(t) /\ Len(s) = Len(t) - 1
    BY <1>1
  <1>4. Copies(v, t) = Copies(v, s) + (IF t[Len(t)] = v THEN 1 ELSE 0)
    BY <1>1, <1>2, <1>3, DroppedCopies
  <1> QED
    BY <1>1, <1>4 DEF t

LEMMA NoCopies == \A v : Copies(v, <<>>) = 0
  <1>1. \A v : {i \in DOMAIN <<>> : <<>>[i] = v} = {}
    OBVIOUS
  <1> QED
    BY <1>1, FS_EmptySet DEF Copies

\* One copy of a message is for the process that has it in hand.
InService == Attempting \cup {"ack", "unqueue"}
Mine(v) == IF pc \in InService /\ raw = v THEN 1 ELSE 0

\* What is in hand and what is to be recovered is on the processing list, as
\* often as it is going to be acknowledged.
Backed ==
    "resend" \notin faults =>
        \A v \in Version : Copies(v, pending) + Mine(v) <= Copies(v, processing)

\* Versions that some configuration, and therefore each, finds text in.
HasText(v) == \E k \in Config : Chunks[k][v] # 0
SamePlace(v, w) == DocOf[w] = DocOf[v] /\ Collection[w] = Collection[v]

\* Something that has text is still to be indexed here, or was given up on.
Due(v) ==
    \E w \in Version : /\ SamePlace(v, w) /\ HasText(w)
                       /\ (Copies(w, processing) # 0 \/ Copies(w, givenUp) # 0)
Settled(v) ==
    LET index == IndexOf(DocOf[v], Collection[v])
    IN  index = {} \/ \E w \in Version, k \in Config : SamePlace(v, w) /\ index = Exactly(w, k)

\* An index is in order or there is a message that will put it in order.
InOrder == "resend" \notin faults => \A v \in Version : Due(v) \/ Settled(v)


\* An LREM that takes effect at most once takes at most the copy in hand.
LEMMA RemovedCounts ==
    ASSUME TypeOK, "resend" \notin faults, NEW n \in Times, NEW v
    PROVE  /\ Removed(n) \in Seq(Version)
           /\ Copies(v, processing) <= Copies(v, Removed(n)) + (IF v = raw THEN 1 ELSE 0)
           /\ n = 0 => Removed(n) = processing
  <1>1. n \in {0, 1} /\ processing \in Seq(Version)
    BY DEF Times, TypeOK
  <1>2. Copies(v, processing) \in Nat
    BY <1>1, CopiesType
  <1>3. CASE n = 0
    BY <1>1, <1>2, <1>3 DEF Removed
  <1>4. CASE n = 1
    <2>1. Removed(n) = RemoveFirst(processing, raw)
      BY <1>4 DEF Removed
    <2> QED
      BY <1>1, <1>4, <2>1, RemoveFirstCounts
  <1> QED
    BY <1>1, <1>3, <1>4

LEMMA FaultsFixed == [Next]_vars => faults' = faults
  BY DEF vars, history, Next, Step, Send, Poll, Pop, PopTimeout, Recover, RecoveryEnds, Start,
     StartFails, Upsert, DeleteStale, DeleteSurplus, QdrantFails, Finish, FinishFails, Goto,
     AttemptFails, Ack, Unqueue, Bury, Exit, Signal, Crash, Restart

LEMMA BackedStep == TypeOK /\ TypeOK' /\ Backed /\ [Next]_vars => Backed'
  <1> SUFFICES ASSUME TypeOK, TypeOK', Backed, [Next]_vars, "resend" \notin faults', NEW v \in Version
               PROVE  Copies(v, pending') + Mine(v)' <= Copies(v, processing')
    BY DEF Backed
  <1> USE DEF lists, process, history
  <1>1. "resend" \notin faults /\ Copies(v, pending) + Mine(v) <= Copies(v, processing)
    BY FaultsFixed DEF Backed
  <1>2. /\ processing \in Seq(Version) /\ pending \in Seq(Version) /\ raw \in Version
        /\ processing' \in Seq(Version) /\ pending' \in Seq(Version)
    BY DEF TypeOK
  <1>3. /\ Copies(v, pending) \in Nat /\ Copies(v, processing) \in Nat
        /\ Copies(v, pending') \in Nat /\ Copies(v, processing') \in Nat
        /\ Copies(v, <<>>) = 0
    BY <1>2, CopiesType, NoCopies
  <1>4. Mine(v) \in {0, 1} /\ Mine(v)' \in {0, 1}
    BY DEF Mine
  <1>5. pc' \notin InService => Mine(v)' = 0
    BY DEF Mine
  <1>6. ASSUME UNCHANGED <<processing, pending, raw>>, pc \in InService PROVE Mine(v)' <= Mine(v)
    BY <1>6 DEF Mine
  <1>7. ASSUME UNCHANGED <<processing, pending, raw>>, pc \in InService \/ pc' \notin InService \/ pc' = pc
        PROVE  Copies(v, pending') + Mine(v)' <= Copies(v, processing')
    <2>1. Mine(v)' <= Mine(v)
      BY <1>7 DEF Mine
    <2> QED
      BY <1>1, <1>3, <1>4, <1>7, <2>1
  <1>8. ASSUME pending' = <<>>, pc' \notin InService
        PROVE  Copies(v, pending') + Mine(v)' <= Copies(v, processing')
    BY <1>3, <1>5, <1>8
  <1>9. CASE UNCHANGED vars \/ (\E w \in Version : Send(w)) \/ Signal
    BY <1>7, <1>9 DEF vars, Send, Signal
  <1>10. CASE Poll \/ PopTimeout
    BY <1>7, <1>10 DEF Poll, PopTimeout, InService, Attempting
  <1>11. CASE RecoveryEnds \/ Exit \/ Crash
    BY <1>8, <1>11 DEF RecoveryEnds, Exit, Crash, Forget, InService, Attempting
  <1>12. CASE Pop
    <2>1. pending = <<>> /\ pending' = pending
      BY <1>12 DEF Pop, TypeOK
    <2> DEFINE e == Last(input)
    <2>2. /\ input \in Seq(Version) /\ input # <<>> /\ processing' = <<e>> \o processing
          /\ pc' \in InService => raw' = e
      BY <1>12 DEF Pop, TypeOK, Take, InService, Attempting
    <2>3. e \in Version
      BY <2>2, FrontLast
    <2> HIDE DEF e
    <2>4. Copies(v, processing') = Copies(v, processing) + (IF e = v THEN 1 ELSE 0)
      BY <1>2, <2>2, <2>3, FirstCounts
    <2>5. Mine(v)' <= IF e = v THEN 1 ELSE 0
      BY <2>2 DEF Mine
    <2> QED
      BY <1>3, <1>4, <2>1, <2>4, <2>5
  <1>13. CASE Recover
    <2>1. /\ pending # <<>> /\ raw' = Head(pending) /\ pending' = Tail(pending)
          /\ UNCHANGED processing /\ pc \notin InService
      BY <1>13 DEF Recover, Take, InService, Attempting
    <2>2. Copies(v, pending) = Copies(v, pending') + (IF Head(pending) = v THEN 1 ELSE 0)
      BY <1>2, <2>1, TailCounts
    <2>3. Mine(v)' <= (IF Head(pending) = v THEN 1 ELSE 0) /\ Mine(v) = 0
      BY <2>1 DEF Mine
    <2> QED
      BY <1>1, <1>3, <1>4, <2>1, <2>2, <2>3
  <1>14. CASE Start \/ StartFails \/ Upsert \/ DeleteStale \/ DeleteSurplus \/ QdrantFails
                \/ Finish \/ FinishFails
    BY <1>7, <1>14 DEF Start, StartFails, Upsert, DeleteStale, DeleteSurplus, QdrantFails,
       Finish, FinishFails, Goto, AttemptFails, InService, Attempting
  <1>15. CASE Ack \/ Unqueue
    <2>1. PICK n \in Times : processing' = Removed(n)
      BY <1>15 DEF Ack, Unqueue
    <2>2. Copies(v, processing) <= Copies(v, processing') + (IF v = raw THEN 1 ELSE 0)
      BY <1>1, <2>1, RemovedCounts
    <2>3. pc \in InService /\ pc' \notin InService
      BY <1>15 DEF Ack, Unqueue, ItemDone, NextItem, RedisErrorRaised, InService, Attempting
    <2>4. Mine(v) = (IF v = raw THEN 1 ELSE 0) /\ Mine(v)' = 0
      BY <2>3 DEF Mine
    <2>5. Copies(v, pending') <= Copies(v, pending)
      <3>1. pending' = pending \/ pending' = <<>>
        BY <1>15 DEF Ack, Unqueue, ItemDone, RedisErrorRaised
      <3> QED
        BY <1>3, <3>1
    <2> QED
      BY <1>1, <1>3, <2>2, <2>4, <2>5
  <1>16. CASE Bury
    <2>1. pc' \notin InService /\ UNCHANGED processing /\ (pending' = pending \/ pending' = <<>>)
      BY <1>16 DEF Bury, ItemDone, NextItem, RedisErrorRaised, InService, Attempting
    <2> QED
      BY <1>1, <1>3, <1>4, <1>5, <2>1
  <1>17. CASE Restart
    <2>1. pc' \notin InService /\ pending' = processing /\ processing' = processing
      BY <1>17 DEF Restart, InService, Attempting
    <2> QED
      BY <1>3, <1>5, <2>1
  <1> QED
    BY <1>9, <1>10, <1>11, <1>12, <1>13, <1>14, <1>15, <1>16, <1>17 DEF Next, Step

\* A step that changes no index and takes no message away leaves things in order.
LEMMA StillDue ==
    ASSUME NEW v \in Version, Due(v),
           \A w \in Version : /\ Copies(w, processing) # 0 => Copies(w, processing') # 0
                              /\ Copies(w, givenUp) # 0 => Copies(w, givenUp') # 0
    PROVE  Due(v)'
  BY DEF Due, SamePlace, HasText

LEMMA StillSettled ==
    ASSUME NEW v \in Version, Settled(v),
           IndexOf(DocOf[v], Collection[v])' = IndexOf(DocOf[v], Collection[v])
    PROVE  Settled(v)'
  BY DEF Settled, SamePlace, Exactly


\* The three requests to Qdrant touch only the place of the version in hand.
Touched(now) ==
    \/ pc = "upsert" /\ now = Upserted(next, BatchEnd)
    \/ pc = "stale" /\ now = {p \in points : ~Stale(p)}
    \/ pc = "surplus" /\ now = {p \in points : ~Surplus(p)}

LEMMA TouchedInPlace ==
    ASSUME NEW d, NEW c, NEW now, Touched(now), ~(DocOf[raw] = d /\ Collection[raw] = c)
    PROVE  {p \in now : DocOf[p.version] = d /\ Collection[p.version] = c} = IndexOf(d, c)
  <1> SUFFICES ASSUME NEW p, DocOf[p.version] = d, Collection[p.version] = c
               PROVE  p \in now <=> p \in points
    BY DEF IndexOf
  <1>1. p.version # raw /\ ~Stale(p) /\ ~Surplus(p)
    BY DEF Stale, Surplus
  <1>2. ASSUME p \in points PROVE p \in Upserted(next, BatchEnd)
    BY <1>1, <1>2 DEF Upserted
  <1>3. ASSUME p \in Upserted(next, BatchEnd) PROVE p \in points
    <2>1. p \notin {[version |-> raw, chunk |-> i, config |-> config] : i \in next .. BatchEnd - 1}
      BY <1>1
    <2> QED
      BY <1>3, <2>1 DEF Upserted
  <1> QED
    BY <1>1, <1>2, <1>3 DEF Touched

\* Requests to Qdrant are made for a version with text, on the processing list.
LEMMA RawDue ==
    ASSUME Inv, Backed, "resend" \notin faults, pc \in {"upsert", "stale", "surplus"}
    PROVE  raw \in Version /\ HasText(raw) /\ Copies(raw, processing) # 0
  <1>1. raw \in Version /\ config \in Config /\ Size(raw) \in Nat /\ Size(raw) # 0
    BY SizeType DEF Inv, TypeOK, Progress
  <1>2. Mine(raw) = 1
    BY DEF Mine, InService, Attempting
  <1>3. Copies(raw, pending) + 1 <= Copies(raw, processing)
    BY <1>1, <1>2 DEF Backed
  <1>4. Copies(raw, pending) \in Nat /\ Copies(raw, processing) \in Nat
    BY CopiesType DEF Inv, TypeOK
  <1> QED
    BY <1>1, <1>3, <1>4 DEF HasText, Size

LEMMA InOrderStep == Inv /\ Inv' /\ Backed /\ InOrder /\ [Next]_vars => InOrder'
  <1> SUFFICES ASSUME Inv, Inv', Backed, InOrder, [Next]_vars, "resend" \notin faults',
                      NEW v \in Version
               PROVE  Due(v)' \/ Settled(v)'
    BY DEF InOrder
  <1> USE DEF lists, process, history
  <1>1. "resend" \notin faults /\ (Due(v) \/ Settled(v)) /\ TypeOK
    BY FaultsFixed DEF InOrder, Inv
  <1>2. /\ processing \in Seq(Version) /\ givenUp \in Seq(Version) /\ raw \in Version
        /\ config \in Config
        /\ \A w : Copies(w, processing) \in Nat /\ Copies(w, givenUp) \in Nat
    BY <1>1, CopiesType DEF TypeOK
  <1>3. ASSUME UNCHANGED points PROVE Settled(v) => Settled(v)'
    BY <1>3, StillSettled DEF IndexOf
  <1>4. ASSUME UNCHANGED <<points, processing, givenUp>> PROVE Due(v)' \/ Settled(v)'
    BY <1>1, <1>3, <1>4, StillDue
  <1>5. ASSUME points' = points \/ Touched(points'), UNCHANGED <<processing, givenUp>>
        PROVE  Due(v)' \/ Settled(v)'
    <2>1. CASE points' = points
      BY <1>4, <1>5, <2>1
    <2>2. CASE Touched(points') /\ SamePlace(v, raw)
      <3>1. HasText(raw) /\ Copies(raw, processing) # 0
        BY <1>1, <2>2, RawDue DEF Touched
      <3>2. Due(v)
        BY <1>2, <2>2, <3>1 DEF Due
      <3> QED
        BY <1>5, <3>2, StillDue
    <2>3. CASE Touched(points') /\ ~SamePlace(v, raw)
      <3>1. IndexOf(DocOf[v], Collection[v])' = IndexOf(DocOf[v], Collection[v])
        BY <2>3, TouchedInPlace DEF IndexOf, SamePlace
      <3> QED
        BY <1>1, <1>5, <3>1, StillDue, StillSettled
    <2> QED
      BY <1>5, <2>1, <2>2, <2>3
  <1>6. CASE UNCHANGED vars \/ (\E w \in Version : Send(w)) \/ Signal \/ Exit \/ Crash \/ Restart
    BY <1>4, <1>6 DEF vars, Send, Signal, Exit, Crash, Restart
  <1>7. CASE Poll \/ PopTimeout \/ Recover \/ RecoveryEnds
    BY <1>4, <1>7 DEF Poll, PopTimeout, Recover, RecoveryEnds
  <1>8. CASE Pop
    <2> DEFINE e == Last(input)
    <2>1. /\ input \in Seq(Version) /\ input # <<>> /\ processing' = <<e>> \o processing
          /\ UNCHANGED <<points, givenUp>>
      BY <1>1, <1>8 DEF Pop, TypeOK
    <2>2. e \in Version
      BY <2>1, FrontLast
    <2> HIDE DEF e
    <2>3. ASSUME NEW w PROVE Copies(w, processing') = Copies(w, processing) + (IF e = w THEN 1 ELSE 0)
      BY <1>2, <2>1, <2>2, FirstCounts
    <2>4. \A w \in Version : Copies(w, processing) # 0 => Copies(w, processing') # 0
      BY <1>2, <2>3
    <2> QED
      BY <1>1, <1>3, <2>1, <2>4, StillDue
  <1>9. CASE Upsert \/ DeleteStale \/ DeleteSurplus
    BY <1>5, <1>9 DEF Upsert, DeleteStale, DeleteSurplus, Goto, Touched
  <1>10. CASE QdrantFails
    BY <1>5, <1>10 DEF QdrantFails, AttemptFails, Touched
  <1>11. CASE Start \/ StartFails \/ Finish \/ FinishFails
    BY <1>4, <1>11 DEF Start, StartFails, Finish, FinishFails, Goto, AttemptFails
  <1>12. CASE Bury
    BY <1>4, <1>12 DEF Bury
  <1>13. CASE Ack
    <2>1. pc = "ack" /\ UNCHANGED <<points, givenUp>> /\ Copies(raw, processing) \in Nat
      BY <1>2, <1>13 DEF Ack
    <2>2. PICK n \in Times : processing' = Removed(n)
      BY <1>13 DEF Ack
    <2>3. \A w \in Version : w # raw /\ Copies(w, processing) # 0 => Copies(w, processing') # 0
      <3>1. ASSUME NEW w \in Version, w # raw PROVE Copies(w, processing) <= Copies(w, processing')
        <4>1. Copies(w, processing) <= Copies(w, processing') + (IF w = raw THEN 1 ELSE 0)
          BY <1>1, <2>2, RemovedCounts
        <4>2. Copies(w, processing') \in Nat
          BY CopiesType DEF Inv, TypeOK
        <4> QED
          BY <1>2, <3>1, <4>1, <4>2
      <3>2. \A w \in Version : Copies(w, processing') \in Nat
        BY CopiesType DEF Inv, TypeOK
      <3> QED
        BY <1>2, <3>1, <3>2
    <2>4. CASE Settled(v)
      BY <1>3, <2>1, <2>4
    <2>5. CASE Due(v)
      <3>1. PICK w \in Version : /\ SamePlace(v, w) /\ HasText(w)
                                 /\ (Copies(w, processing) # 0 \/ Copies(w, givenUp) # 0)
        BY <2>5 DEF Due
      <3>2. CASE w # raw
        BY <2>1, <2>3, <3>1, <3>2 DEF Due, SamePlace, HasText
      <3>3. CASE w = raw
        <4>1. Size(raw) # 0
          BY <1>2, <3>1, <3>3, VectorizerAssumption DEF HasText, Size
        <4>2. Indexed(raw)
          BY <2>1, <4>1 DEF Inv, Progress
        <4>3. Settled(v)
          BY <1>2, <3>1, <3>3, <4>2 DEF Settled, Indexed, SamePlace
        <4> QED
          BY <1>3, <2>1, <4>3
      <3> QED
        BY <3>2, <3>3
    <2> QED
      BY <1>1, <2>4, <2>5
  <1>14. CASE Unqueue
    <2>1. PICK n \in Times :
             /\ processing' = Removed(n)
             /\ givenUp' = IF n > 0 THEN Append(givenUp, raw) ELSE givenUp
      BY <1>14 DEF Unqueue
    <2>2. n \in {0, 1} /\ UNCHANGED points
      BY <1>1, <1>14 DEF Times, Unqueue
    <2>3. CASE n = 0
      BY <1>1, <1>4, <2>1, <2>2, <2>3, RemovedCounts
    <2>4. CASE n = 1
      <3>1. ASSUME NEW w \in Version
            PROVE  /\ Copies(w, processing) <= Copies(w, processing') + (IF w = raw THEN 1 ELSE 0)
                   /\ Copies(w, givenUp') = Copies(w, givenUp) + (IF raw = w THEN 1 ELSE 0)
                   /\ Copies(w, processing') \in Nat
        <4>1. givenUp' = Append(givenUp, raw)
          BY <2>1, <2>4
        <4>2. Copies(w, processing') \in Nat
          BY CopiesType DEF Inv, TypeOK
        <4> QED
          BY <1>1, <1>2, <2>1, <4>1, <4>2, RemovedCounts, AppendCounts
      <3>2. ASSUME NEW w \in Version, Copies(w, processing) # 0 \/ Copies(w, givenUp) # 0
            PROVE  Copies(w, processing') # 0 \/ Copies(w, givenUp') # 0
        BY <1>2, <3>1, <3>2
      <3>3. Due(v) => Due(v)'
        BY <3>2 DEF Due, SamePlace, HasText
      <3> QED
        BY <1>1, <1>3, <2>2, <3>3
    <2> QED
      BY <2>2, <2>3, <2>4
  <1> QED
    BY <1>6, <1>7, <1>8, <1>9, <1>10, <1>11, <1>12, <1>13, <1>14 DEF Next, Step

\* What a document's messages leave behind is one version, whole, however many
\* attempts, crashes, configurations and other documents it took, for all of
\* these and for every combination of faults but a resent LREM: a message leaves
\* the processing list only with its place in order (main.py:133), and it is on
\* it whenever a point is touched (main.py:115).
THEOREM IndexSettles == Spec => []SettledIndex
  <1>1. Init => Backed /\ InOrder
    <2> SUFFICES ASSUME Init PROVE Backed /\ InOrder
      OBVIOUS
    <2>1. \A v \in Version : Mine(v) = 0
      BY DEF Init, Mine, InService, Attempting
    <2>2. Backed
      BY <2>1, NoCopies DEF Init, Backed
    <2>3. \A v \in Version : IndexOf(DocOf[v], Collection[v]) = {}
      BY DEF Init, IndexOf
    <2> QED
      BY <2>2, <2>3 DEF InOrder, Settled
  <1>2. InOrder => SettledIndex
    BY DEF InOrder, SettledIndex, Due, Settled, SamePlace
  <1>3. Inv /\ Inv' /\ Backed /\ InOrder /\ [Next]_vars => Backed' /\ InOrder'
    BY BackedStep, InOrderStep DEF Inv
  <1> QED
    BY <1>1, <1>2, <1>3, Invariance, PTL DEF Spec
=============================================================================
