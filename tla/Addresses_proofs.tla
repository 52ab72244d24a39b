--------------------------- MODULE Addresses_proofs ---------------------------
(***************************************************************************)
(* Theorems about Addresses, for any hosts, segments and links, and any    *)
(* number of pages and documents.                                          *)
(***************************************************************************)
EXTENDS Addresses, SequenceTheorems, FiniteSetTheorems, WellFoundedInduction, TLAPS

(***************************************************************************)
(* Loops over a path.                                                      *)
(***************************************************************************)

\* Induction on the numbers, for what is said by membership in a set.
LEMMA Inductive ==
    ASSUME NEW G, 0 \in G, \A n \in Nat : n \in G => n + 1 \in G
    PROVE  \A n \in Nat : n \in G
  <1> DEFINE bad == {n \in Nat : n \notin G}
  <1> SUFFICES ASSUME bad # {} PROVE FALSE
    OBVIOUS
  <1>1. \E k \in bad : \A i \in bad : ~ (<<i, k>> \in OpToRel(<, Nat))
    <2>1. bad \subseteq Nat
      OBVIOUS
    <2> HIDE DEF bad
    <2> QED
      BY <2>1, NatLessThanWellFounded, WFMin
  <1>2. PICK k \in bad : \A i \in bad : ~ (<<i, k>> \in OpToRel(<, Nat))
    BY <1>1
  <1>3. k \in Nat /\ k # 0 /\ k - 1 \in Nat /\ (k - 1) + 1 = k
    OBVIOUS
  <1>4. <<k - 1, k>> \in OpToRel(<, Nat)
    <2>1. OpToRel(<, Nat) = {ss \in Nat \X Nat : ss[1] < ss[2]}
      BY DEF OpToRel
    <2>2. <<k - 1, k>> \in Nat \X Nat /\ k - 1 < k
      BY <1>3
    <2>3. <<k - 1, k>>[1] = k - 1 /\ <<k - 1, k>>[2] = k
      OBVIOUS
    <2> DEFINE ss == <<k - 1, k>>
    <2> HIDE DEF ss
    <2>4. ss \in Nat \X Nat /\ ss[1] < ss[2]
      BY <2>2, <2>3 DEF ss
    <2>5. ss \in OpToRel(<, Nat)
      BY <2>1, <2>4
    <2> QED
      BY <2>5 DEF ss
  <1>5. k - 1 \notin bad
    BY <1>2, <1>4
  <1> QED
    BY <1>2, <1>3, <1>5

\* A loop that does F[i] at its i-th turn has its states: from s it comes to
\* F[i][s].
LEMMA Looping ==
    ASSUME NEW S, NEW s0 \in S, NEW n \in Nat, NEW F \in [1 .. n -> [S -> S]]
    PROVE  \E f \in [0 .. n -> S] : f[0] = s0 /\ \A i \in 1 .. n : f[i] = F[i][f[i - 1]]
  <1> DEFINE runs(k) == {f \in [0 .. k -> S] : f[0] = s0 /\ \A i \in 1 .. k : f[i] = F[i][f[i - 1]]}
             G == {k \in Nat : k <= n => runs(k) # {}}
  <1>1. 0 \in G
    <2> DEFINE f == [i \in 0 .. 0 |-> s0]
    <2>1. f \in runs(0)
      OBVIOUS
    <2> QED
      BY <2>1
  <1>2. ASSUME NEW k \in Nat, k \in G PROVE k + 1 \in G
    <2> SUFFICES ASSUME k + 1 <= n PROVE runs(k + 1) # {}
      OBVIOUS
    <2>1. k <= n /\ k + 1 \in 1 .. n
      OBVIOUS
    <2>2. PICK f \in [0 .. k -> S] : f[0] = s0 /\ \A i \in 1 .. k : f[i] = F[i][f[i - 1]]
      BY <1>2, <2>1
    <2> DEFINE g == [i \in 0 .. k + 1 |-> IF i = k + 1 THEN F[k + 1][f[k]] ELSE f[i]]
    <2>3. F[k + 1] \in [S -> S] /\ f[k] \in S
      BY <2>1, <2>2
    <2>4. g \in [0 .. k + 1 -> S]
      BY <2>2, <2>3
    <2>5. g[0] = s0
      BY <2>2
    <2>6. ASSUME NEW i \in 1 .. k + 1 PROVE g[i] = F[i][g[i - 1]]
      <3>1. CASE i = k + 1
        <4>1. i - 1 = k /\ k \in 0 .. k + 1 /\ k # k + 1
          BY <3>1
        <4> QED
          BY <3>1, <4>1
      <3>2. CASE i # k + 1
        <4>1. i \in 1 .. k /\ i - 1 \in 0 .. k /\ i - 1 # k + 1 /\ i \in 0 .. k + 1 /\ i - 1 \in 0 .. k + 1
          BY <3>2
        <4>2. g[i] = f[i] /\ g[i - 1] = f[i - 1]
          BY <3>2, <4>1
        <4> QED
          BY <2>2, <4>1, <4>2
      <3> QED
        BY <3>1, <3>2
    <2> HIDE DEF g
    <2>7. g \in runs(k + 1)
      BY <2>4, <2>5, <2>6
    <2> QED
      BY <2>7
  <1>3. n \in G
    <2> HIDE DEF G
    <2> QED
      BY <1>1, <1>2, Inductive
  <1> QED
    BY <1>3

\* What stands for itself, and the names among it.
Fixed == {s \in Segment : Decoded[s] = <<s>>}
Named == Segment \ {"", ".", ".."}
FixedNames == Fixed \cap Named

\* The loops of unescape, cleanPath and ResolveReference.
Unescaping(p, f) ==
    /\ f \in [0 .. Len(p) -> Seq(Fixed)]
    /\ f[0] = <<>> /\ \A i \in 1 .. Len(p) : f[i] = f[i - 1] \o Decoded[p[i]]
    /\ unescape(p) = f[Len(p)]
Parting(S, u, f) ==
    /\ f \in [0 .. Len(u) -> Seq(S)]
    /\ f[0] = <<>> /\ \A i \in 1 .. Len(u) : f[i] = Part(f[i - 1], u[i])
    /\ Parts(u) = f[Len(u)]
Merging(u, f) ==
    /\ f \in [0 .. Len(u) -> Seq(Segment)]
    /\ f[0] = <<>> /\ \A i \in 1 .. Len(u) : f[i] = Merged(f[i - 1], u[i])
    /\ Merge(u) = f[Len(u)]

\* Such a loop is the function that the model defines by recursion.
LEMMA UnescapeLoop ==
    ASSUME NEW p \in Seq(Segment)
    PROVE  \E f : Unescaping(p, f)
  <1> DEFINE n == Len(p)
             F == [i \in 1 .. n |-> [s \in Seq(Fixed) |-> s \o Decoded[p[i]]]]
             Turns(f) == f = [i \in 0 .. n |-> IF i = 0 THEN <<>> ELSE f[i - 1] \o Decoded[p[i]]]
             loop == CHOOSE f : Turns(f)
  <1>1. n \in Nat /\ <<>> \in Seq(Fixed)
    BY EmptySeq, LenProperties
  <1>2. \A i \in 1 .. n : Decoded[p[i]] \in Seq(Fixed)
    <2> SUFFICES ASSUME NEW i \in 1 .. n PROVE Decoded[p[i]] \in Seq(Fixed)
      OBVIOUS
    <2> DEFINE d == Decoded[p[i]]
    <2>1. p[i] \in Segment
      BY ElementOfSeq
    <2>2. d \in Seq(Segment) /\ \A k \in DOMAIN d : Decoded[d[k]] = <<d[k]>>
      BY <2>1, AddressesAssumption
    <2> HIDE DEF d
    <2>3. Len(d) \in Nat /\ DOMAIN d = 1 .. Len(d) /\ d \in [1 .. Len(d) -> Segment]
      BY <2>2, LenProperties
    <2>4. \A k \in 1 .. Len(d) : d[k] \in Fixed
      BY <2>2, <2>3 DEF Fixed
    <2>5. d \in Seq(Fixed)
      BY <2>3, <2>4
    <2> QED
      BY <2>5 DEF d
  <1>3. F \in [1 .. n -> [Seq(Fixed) -> Seq(Fixed)]]
    <2>1. ASSUME NEW i \in 1 .. n, NEW s \in Seq(Fixed) PROVE s \o Decoded[p[i]] \in Seq(Fixed)
      BY <1>2, ConcatProperties
    <2> QED
      BY <2>1
  <1>4. PICK f \in [0 .. n -> Seq(Fixed)] : f[0] = <<>> /\ \A i \in 1 .. n : f[i] = F[i][f[i - 1]]
    <2> DEFINE S == Seq(Fixed)
               s0 == <<>>
    <2>1. n \in Nat /\ s0 \in S /\ F \in [1 .. n -> [S -> S]]
      BY <1>1, <1>3
    <2> HIDE DEF n, F, S, s0
    <2>2. \E f \in [0 .. n -> S] : f[0] = s0 /\ \A i \in 1 .. n : f[i] = F[i][f[i - 1]]
      BY <2>1, Looping
    <2> QED
      BY <2>2 DEF S, s0
  <1>5. \A i \in 1 .. n : f[i] = f[i - 1] \o Decoded[p[i]]
    <2> SUFFICES ASSUME NEW i \in 1 .. n PROVE f[i] = f[i - 1] \o Decoded[p[i]]
      OBVIOUS
    <2>1. i - 1 \in 0 .. n
      BY <1>1
    <2>2. f[i - 1] \in Seq(Fixed)
      BY <2>1
    <2> QED
      BY <1>4, <2>2
  <1>6. \A i \in 0 .. n : f[i] = IF i = 0 THEN <<>> ELSE f[i - 1] \o Decoded[p[i]]
    <2>1. \A i \in 0 .. n : i # 0 => i \in 1 .. n
      BY <1>1
    <2> QED
      BY <1>4, <1>5, <2>1
  <1>7. Turns(f)
    BY <1>6
  <1>8. Turns(loop)
    BY <1>7
  <1>9. \A i \in 0 .. n : loop[i] = IF i = 0 THEN <<>> ELSE loop[i - 1] \o Decoded[p[i]]
    BY <1>8
  <1>10. unescape(p) = loop[n]
    BY DEF unescape
  <1> DEFINE G == {i \in Nat : i <= n => loop[i] = f[i]}
  <1> HIDE DEF loop, F, n
  <1>11. 0 \in G
    BY <1>1, <1>4, <1>9
  <1>12. ASSUME NEW i \in Nat, i \in G PROVE i + 1 \in G
    <2> SUFFICES ASSUME i + 1 <= n PROVE loop[i + 1] = f[i + 1]
      OBVIOUS
    <2>1. i + 1 \in 1 .. n /\ i + 1 \in 0 .. n /\ i + 1 # 0 /\ (i + 1) - 1 = i /\ i <= n
      BY <1>1
    <2>2. loop[i + 1] = loop[i] \o Decoded[p[i + 1]] /\ f[i + 1] = f[i] \o Decoded[p[i + 1]]
      BY <1>5, <1>9, <2>1
    <2> QED
      BY <1>12, <2>1, <2>2
  <1>13. n \in G
    <2> HIDE DEF G
    <2> QED
      BY <1>1, <1>11, <1>12, Inductive
  <1>14. loop[n] = f[n]
    BY <1>1, <1>13
  <1> QED
    BY <1>4, <1>5, <1>10, <1>14 DEF Unescaping, n

\* The names of U are of S.
NamesIn(U, S) == \A x \in U : x \notin {"", ".", ".."} => x \in S

\* All but the last.
LEMMA FrontProperties ==
    ASSUME NEW S, NEW s \in Seq(S), s # <<>>
    PROVE  /\ Front(s) \in Seq(S) /\ Len(Front(s)) = Len(s) - 1
           /\ \A k \in 1 .. Len(s) - 1 : Front(s)[k] = s[k]
  <1> DEFINE n == Len(s)
  <1>1. n \in Nat /\ n # 0
    BY EmptySeq
  <1>2. \A k \in 1 .. n - 1 : k \in 1 .. n /\ s[k] \in S
    BY <1>1, ElementOfSeq
  <1> HIDE DEF n
  <1>3. n - 1 \in Int /\ (n - 1) - 1 + 1 = n - 1
    BY <1>1
  <1> DEFINE m == n - 1
  <1>4. m \in Nat /\ \A k \in 1 .. m : s[k] \in S
    BY <1>1, <1>2
  <1> HIDE DEF m
  <1>5. /\ SubSeq(s, 1, m) \in Seq(S) /\ Len(SubSeq(s, 1, m)) = (IF 1 <= m THEN m - 1 + 1 ELSE 0)
        /\ \A k \in 1 .. m - 1 + 1 : SubSeq(s, 1, m)[k] = s[1 + k - 1]
    BY <1>4, SubSeqProperties
  <1>6. Len(SubSeq(s, 1, m)) = m /\ \A k \in 1 .. m : SubSeq(s, 1, m)[k] = s[k]
    <2>1. m - 1 + 1 = m /\ \A k \in 1 .. m : 1 + k - 1 = k
      BY <1>4
    <2>2. (IF 1 <= m THEN m - 1 + 1 ELSE 0) = m
      BY <1>4
    <2> QED
      BY <1>5, <2>1, <2>2
  <1> QED
    BY <1>5, <1>6 DEF Front, m, n

\* The loop of cleanPath keeps names only.
LEMMA PartLoop ==
    ASSUME NEW S, NEW U, NamesIn(U, S), NEW u \in Seq(U)
    PROVE  \E f : Parting(S, u, f)
  <1> DEFINE n == Len(u)
             F == [i \in 1 .. n |-> [s \in Seq(S) |-> Part(s, u[i])]]
             Turns(f) == f = [i \in 0 .. n |-> IF i = 0 THEN <<>> ELSE Part(f[i - 1], u[i])]
             loop == CHOOSE f : Turns(f)
  <1>1. n \in Nat /\ <<>> \in Seq(S)
    BY EmptySeq, LenProperties
  <1>2. \A i \in 1 .. n : \A s \in Seq(S) : Part(s, u[i]) \in Seq(S)
    <2> SUFFICES ASSUME NEW i \in 1 .. n, NEW s \in Seq(S) PROVE Part(s, u[i]) \in Seq(S)
      OBVIOUS
    <2> DEFINE x == u[i]
    <2>1. x \notin {"", ".", ".."} => x \in S
      BY ElementOfSeq DEF NamesIn
    <2> HIDE DEF x
    <2>2. CASE x \in {"", "."}
      <3>1. Part(s, x) = s
        BY <2>2 DEF Part
      <3> QED
        BY <3>1 DEF x
    <2>3. CASE x = ".."
      <3>1. Part(s, x) = IF s = <<>> THEN <<>> ELSE Front(s)
        BY <2>3 DEF Part
      <3> QED
        BY <1>1, <3>1, FrontProperties DEF x
    <2>4. CASE x \notin {"", ".", ".."}
      <3>1. Part(s, x) = Append(s, x) /\ x \in S
        BY <2>1, <2>4 DEF Part
      <3> QED
        BY <3>1 DEF x
    <2> QED
      BY <2>2, <2>3, <2>4 DEF x
  <1>3. F \in [1 .. n -> [Seq(S) -> Seq(S)]]
    BY <1>2
  <1>4. PICK f \in [0 .. n -> Seq(S)] : f[0] = <<>> /\ \A i \in 1 .. n : f[i] = F[i][f[i - 1]]
    <2> DEFINE T == Seq(S)
               s0 == <<>>
    <2>1. n \in Nat /\ s0 \in T /\ F \in [1 .. n -> [T -> T]]
      BY <1>1, <1>3
    <2> HIDE DEF n, F, T, s0
    <2>2. \E f \in [0 .. n -> T] : f[0] = s0 /\ \A i \in 1 .. n : f[i] = F[i][f[i - 1]]
      BY <2>1, Looping
    <2> QED
      BY <2>2 DEF T, s0
  <1>5. \A i \in 1 .. n : f[i] = Part(f[i - 1], u[i])
    <2> SUFFICES ASSUME NEW i \in 1 .. n PROVE f[i] = Part(f[i - 1], u[i])
      OBVIOUS
    <2>1. i - 1 \in 0 .. n
      BY <1>1
    <2>2. f[i - 1] \in Seq(S)
      BY <2>1
    <2> QED
      BY <1>4, <2>2
  <1>6. \A i \in 0 .. n : f[i] = IF i = 0 THEN <<>> ELSE Part(f[i - 1], u[i])
    <2>1. \A i \in 0 .. n : i # 0 => i \in 1 .. n
      BY <1>1
    <2> QED
      BY <1>4, <1>5, <2>1
  <1>7. Turns(f)
    BY <1>6
  <1>8. Turns(loop)
    BY <1>7
  <1>9. \A i \in 0 .. n : loop[i] = IF i = 0 THEN <<>> ELSE Part(loop[i - 1], u[i])
    BY <1>8
  <1>10. Parts(u) = loop[n]
    BY DEF Parts
  <1> DEFINE G == {i \in Nat : i <= n => loop[i] = f[i]}
  <1> HIDE DEF loop, F, n
  <1>11. 0 \in G
    BY <1>1, <1>4, <1>9
  <1>12. ASSUME NEW i \in Nat, i \in G PROVE i + 1 \in G
    <2> SUFFICES ASSUME i + 1 <= n PROVE loop[i + 1] = f[i + 1]
      OBVIOUS
    <2>1. i + 1 \in 1 .. n /\ i + 1 \in 0 .. n /\ i + 1 # 0 /\ (i + 1) - 1 = i /\ i <= n
      BY <1>1
    <2>2. loop[i + 1] = Part(loop[i], u[i + 1]) /\ f[i + 1] = Part(f[i], u[i + 1])
      BY <1>5, <1>9, <2>1
    <2> QED
      BY <1>12, <2>1, <2>2
  <1>13. n \in G
    <2> HIDE DEF G
    <2> QED
      BY <1>1, <1>11, <1>12, Inductive
  <1>14. loop[n] = f[n]
    BY <1>1, <1>13
  <1> QED
    BY <1>4, <1>5, <1>10, <1>14 DEF Parting, n

\* The loop of ResolveReference.
LEMMA MergeLoop ==
    ASSUME NEW u \in Seq(Segment)
    PROVE  \E f : Merging(u, f)
  <1> DEFINE n == Len(u)
             F == [i \in 1 .. n |-> [s \in Seq(Segment) |-> Merged(s, u[i])]]
             Turns(f) == f = [i \in 0 .. n |-> IF i = 0 THEN <<>> ELSE Merged(f[i - 1], u[i])]
             loop == CHOOSE f : Turns(f)
  <1>1. n \in Nat /\ <<>> \in Seq(Segment)
    BY EmptySeq, LenProperties
  <1>2. \A i \in 1 .. n : \A s \in Seq(Segment) : Merged(s, u[i]) \in Seq(Segment)
    <2> SUFFICES ASSUME NEW i \in 1 .. n, NEW s \in Seq(Segment) PROVE Merged(s, u[i]) \in Seq(Segment)
      OBVIOUS
    <2> DEFINE x == u[i]
    <2>1. x \in Segment
      BY ElementOfSeq
    <2> HIDE DEF x
    <2>2. CASE x = "."
      BY <2>2 DEF Merged, x
    <2>3. CASE x = ".."
      <3>1. Merged(s, x) = IF s = <<>> THEN <<>> ELSE Front(s)
        BY <2>3 DEF Merged
      <3> QED
        BY <1>1, <3>1, FrontProperties DEF x
    <2>4. CASE x \notin {".", ".."}
      <3>1. Merged(s, x) = Append(s, x)
        BY <2>1, <2>4 DEF Merged
      <3> QED
        BY <2>1, <3>1 DEF x
    <2> QED
      BY <2>2, <2>3, <2>4 DEF x
  <1>3. F \in [1 .. n -> [Seq(Segment) -> Seq(Segment)]]
    BY <1>2
  <1>4. PICK f \in [0 .. n -> Seq(Segment)] : f[0] = <<>> /\ \A i \in 1 .. n : f[i] = F[i][f[i - 1]]
    <2> DEFINE T == Seq(Segment)
               s0 == <<>>
    <2>1. n \in Nat /\ s0 \in T /\ F \in [1 .. n -> [T -> T]]
      BY <1>1, <1>3
    <2> HIDE DEF n, F, T, s0
    <2>2. \E f \in [0 .. n -> T] : f[0] = s0 /\ \A i \in 1 .. n : f[i] = F[i][f[i - 1]]
      BY <2>1, Looping
    <2> QED
      BY <2>2 DEF T, s0
  <1>5. \A i \in 1 .. n : f[i] = Merged(f[i - 1], u[i])
    <2> SUFFICES ASSUME NEW i \in 1 .. n PROVE f[i] = Merged(f[i - 1], u[i])
      OBVIOUS
    <2>1. i - 1 \in 0 .. n
      BY <1>1
    <2>2. f[i - 1] \in Seq(Segment)
      BY <2>1
    <2> QED
      BY <1>4, <2>2
  <1>6. \A i \in 0 .. n : f[i] = IF i = 0 THEN <<>> ELSE Merged(f[i - 1], u[i])
    <2>1. \A i \in 0 .. n : i # 0 => i \in 1 .. n
      BY <1>1
    <2> QED
      BY <1>4, <1>5, <2>1
  <1>7. Turns(f)
    BY <1>6
  <1>8. Turns(loop)
    BY <1>7
  <1>9. \A i \in 0 .. n : loop[i] = IF i = 0 THEN <<>> ELSE Merged(loop[i - 1], u[i])
    BY <1>8
  <1>10. Merge(u) = loop[n]
    BY DEF Merge
  <1> DEFINE G == {i \in Nat : i <= n => loop[i] = f[i]}
  <1> HIDE DEF loop, F, n
  <1>11. 0 \in G
    BY <1>1, <1>4, <1>9
  <1>12. ASSUME NEW i \in Nat, i \in G PROVE i + 1 \in G
    <2> SUFFICES ASSUME i + 1 <= n PROVE loop[i + 1] = f[i + 1]
      OBVIOUS
    <2>1. i + 1 \in 1 .. n /\ i + 1 \in 0 .. n /\ i + 1 # 0 /\ (i + 1) - 1 = i /\ i <= n
      BY <1>1
    <2>2. loop[i + 1] = Merged(loop[i], u[i + 1]) /\ f[i + 1] = Merged(f[i], u[i + 1])
      BY <1>5, <1>9, <2>1
    <2> QED
      BY <1>12, <2>1, <2>2
  <1>13. n \in G
    <2> HIDE DEF G
    <2> QED
      BY <1>1, <1>11, <1>12, Inductive
  <1>14. loop[n] = f[n]
    BY <1>1, <1>13
  <1> QED
    BY <1>4, <1>5, <1>10, <1>14 DEF Merging, n


(***************************************************************************)
(* What cleanPath and ResolveReference leave.                              *)
(***************************************************************************)

\* The sets of segments that the proofs speak of.
LEMMA Sets ==
    /\ Fixed \subseteq Segment /\ Named \subseteq Segment /\ FixedNames \subseteq Fixed
    /\ FixedNames \subseteq Named /\ {"", ".", ".."} \subseteq Fixed /\ {"", ".", ".."} \subseteq Segment
    /\ NamesIn(Segment, Named) /\ NamesIn(Fixed, FixedNames) /\ NamesIn(Named, Named)
    /\ \A x \in Named : x \notin {"", ".", ".."}
  <1>1. {"", ".", ".."} \subseteq Segment /\ \A s \in {"", ".", ".."} : Decoded[s] = <<s>>
    BY AddressesAssumption
  <1>2. {"", ".", ".."} \subseteq Fixed
    BY <1>1 DEF Fixed
  <1>3. Fixed \subseteq Segment
    BY DEF Fixed
  <1> QED
    BY <1>1, <1>2, <1>3 DEF Named, FixedNames, NamesIn

\* A sequence of some of them is one of more of them.
LEMMA Wider ==
    ASSUME NEW p
    PROVE  /\ p \in Seq(Fixed) => p \in Seq(Segment)
           /\ p \in Seq(FixedNames) => p \in Seq(Fixed) /\ p \in Seq(Named) /\ p \in Seq(Segment)
           /\ p \in Seq(Named) => p \in Seq(Segment)
  BY Sets, SeqMonotonic

\* Taking escapes off leaves what stands for itself, and that as it is.
LEMMA Unescaped ==
    ASSUME NEW p \in Seq(Segment)
    PROVE  unescape(p) \in Seq(Fixed)
  <1>1. PICK f : Unescaping(p, f)
    BY UnescapeLoop
  <1>2. Len(p) \in 0 .. Len(p)
    BY LenProperties
  <1> QED
    BY <1>1, <1>2 DEF Unescaping

\* One element more.
LEMMA UpTo ==
    ASSUME NEW S, NEW s \in Seq(S), NEW i \in Nat, i + 1 <= Len(s)
    PROVE  /\ SubSeq(s, 1, i + 1) = SubSeq(s, 1, i) \o <<s[i + 1]>>
           /\ SubSeq(s, 1, i + 1) = Append(SubSeq(s, 1, i), s[i + 1])
           /\ SubSeq(s, 1, i) \in Seq(S) /\ s[i + 1] \in S
  <1>1. Len(s) \in Nat
    BY LenProperties
  <1> DEFINE m == i + 1
  <1>2. m \in 1 .. Len(s) /\ 1 \in 1 .. Len(s) /\ m - 1 = i
    BY <1>1
  <1>3. s[m] \in S
    BY <1>2, ElementOfSeq
  <1>4. SubSeq(s, 1, i) \in Seq(S)
    <2>1. \A k \in 1 .. i : k \in 1 .. Len(s)
      BY <1>1
    <2>2. \A k \in 1 .. i : s[k] \in S
      BY <2>1, ElementOfSeq
    <2> QED
      BY <2>2, SubSeqProperties
  <1> HIDE DEF m
  <1>5. SubSeq(s, 1, m) = SubSeq(s, 1, m - 1) \o <<s[m]>>
    <2>1. m \in 1 .. Len(s)
      BY <1>2
    <2> QED
      BY <1>2, <2>1, SubSeqRecursiveSecond
  <1>6. Append(SubSeq(s, 1, i), s[m]) = SubSeq(s, 1, i) \o <<s[m]>>
    BY <1>3, <1>4, AppendIsConcat
  <1> QED
    BY <1>2, <1>3, <1>4, <1>5, <1>6 DEF m

\* There is nothing to take off what stands for itself.
LEMMA UnescapeFixed ==
    ASSUME NEW p \in Seq(Fixed)
    PROVE  unescape(p) = p
  <1> DEFINE n == Len(p)
  <1>1. PICK f : Unescaping(p, f)
    BY Wider, UnescapeLoop
  <1>2. n \in Nat /\ f[0] = <<>> /\ \A i \in 1 .. n : f[i] = f[i - 1] \o Decoded[p[i]]
    BY <1>1, LenProperties DEF Unescaping
  <1> DEFINE G == {i \in Nat : i <= n => f[i] = SubSeq(p, 1, i)}
  <1>3. 0 \in G
    <2>1. SubSeq(p, 1, 0) = <<>>
      BY SubSeqEmpty
    <2> QED
      BY <1>2, <2>1
  <1>4. ASSUME NEW i \in Nat, i \in G PROVE i + 1 \in G
    <2> SUFFICES ASSUME i + 1 <= n PROVE f[i + 1] = SubSeq(p, 1, i + 1)
      OBVIOUS
    <2>1. i <= n /\ i + 1 \in 1 .. n /\ (i + 1) - 1 = i
      BY <1>2
    <2>2. SubSeq(p, 1, i + 1) = SubSeq(p, 1, i) \o <<p[i + 1]>> /\ p[i + 1] \in Fixed
      BY UpTo
    <2>3. f[i + 1] = f[i] \o Decoded[p[i + 1]] /\ f[i] = SubSeq(p, 1, i)
      BY <1>2, <1>4, <2>1
    <2>4. Decoded[p[i + 1]] = <<p[i + 1]>>
      BY <2>2 DEF Fixed
    <2> QED
      BY <2>2, <2>3, <2>4
  <1>5. n \in G
    <2> HIDE DEF G, n
    <2> QED
      BY <1>2, <1>3, <1>4, Inductive
  <1>6. f[n] = p
    BY <1>2, <1>5, SubSeqFull
  <1> QED
    BY <1>1, <1>6 DEF Unescaping

\* The loops, one turn more.
LEMMA PartsAppend ==
    ASSUME NEW u \in Seq(Segment), NEW x \in Segment
    PROVE  Parts(Append(u, x)) = Part(Parts(u), x)
  <1> DEFINE n == Len(u)
             v == Append(u, x)
  <1>1. v \in Seq(Segment) /\ Len(v) = n + 1 /\ n \in Nat /\ v[n + 1] = x /\ \A i \in 1 .. n : v[i] = u[i]
    BY AppendProperties, LenProperties
  <1> HIDE DEF v
  <1>2. PICK f : Parting(Named, u, f)
    BY Sets, PartLoop
  <1>3. PICK g : Parting(Named, v, g)
    BY <1>1, Sets, PartLoop
  <1>4. f[0] = <<>> /\ (\A i \in 1 .. n : f[i] = Part(f[i - 1], u[i])) /\ Parts(u) = f[n]
    BY <1>2 DEF Parting
  <1>5. g[0] = <<>> /\ (\A i \in 1 .. n + 1 : g[i] = Part(g[i - 1], v[i])) /\ Parts(v) = g[n + 1]
    BY <1>1, <1>3 DEF Parting
  <1> DEFINE G == {i \in Nat : i <= n => g[i] = f[i]}
  <1> HIDE DEF n
  <1>6. 0 \in G
    BY <1>4, <1>5
  <1>7. ASSUME NEW i \in Nat, i \in G PROVE i + 1 \in G
    <2> SUFFICES ASSUME i + 1 <= n PROVE g[i + 1] = f[i + 1]
      OBVIOUS
    <2>1. i <= n /\ i + 1 \in 1 .. n /\ i + 1 \in 1 .. n + 1 /\ (i + 1) - 1 = i
      BY <1>1
    <2>2. g[i + 1] = Part(g[i], v[i + 1]) /\ f[i + 1] = Part(f[i], u[i + 1]) /\ v[i + 1] = u[i + 1]
      BY <1>1, <1>4, <1>5, <2>1
    <2> QED
      BY <1>7, <2>1, <2>2
  <1>8. n \in G
    <2> HIDE DEF G
    <2> QED
      BY <1>1, <1>6, <1>7, Inductive
  <1>9. g[n + 1] = Part(g[n], x) /\ g[n] = f[n]
    <2>1. n + 1 \in 1 .. n + 1 /\ (n + 1) - 1 = n
      BY <1>1
    <2> QED
      BY <1>1, <1>5, <1>8, <2>1
  <1> QED
    BY <1>4, <1>5, <1>9 DEF v

\* One part more, for ResolveReference.
LEMMA MergeAppend ==
    ASSUME NEW u \in Seq(Segment), NEW x \in Segment
    PROVE  Merge(Append(u, x)) = Merged(Merge(u), x)
  <1> DEFINE n == Len(u)
             v == Append(u, x)
  <1>1. v \in Seq(Segment) /\ Len(v) = n + 1 /\ n \in Nat /\ v[n + 1] = x /\ \A i \in 1 .. n : v[i] = u[i]
    BY AppendProperties, LenProperties
  <1> HIDE DEF v
  <1>2. PICK f : Merging(u, f)
    BY MergeLoop
  <1>3. PICK g : Merging(v, g)
    BY <1>1, MergeLoop
  <1>4. f[0] = <<>> /\ (\A i \in 1 .. n : f[i] = Merged(f[i - 1], u[i])) /\ Merge(u) = f[n]
    BY <1>2 DEF Merging
  <1>5. g[0] = <<>> /\ (\A i \in 1 .. n + 1 : g[i] = Merged(g[i - 1], v[i])) /\ Merge(v) = g[n + 1]
    BY <1>1, <1>3 DEF Merging
  <1> DEFINE G == {i \in Nat : i <= n => g[i] = f[i]}
  <1> HIDE DEF n
  <1>6. 0 \in G
    BY <1>4, <1>5
  <1>7. ASSUME NEW i \in Nat, i \in G PROVE i + 1 \in G
    <2> SUFFICES ASSUME i + 1 <= n PROVE g[i + 1] = f[i + 1]
      OBVIOUS
    <2>1. i <= n /\ i + 1 \in 1 .. n /\ i + 1 \in 1 .. n + 1 /\ (i + 1) - 1 = i
      BY <1>1
    <2>2. g[i + 1] = Merged(g[i], v[i + 1]) /\ f[i + 1] = Merged(f[i], u[i + 1]) /\ v[i + 1] = u[i + 1]
      BY <1>1, <1>4, <1>5, <2>1
    <2> QED
      BY <1>7, <2>1, <2>2
  <1>8. n \in G
    <2> HIDE DEF G
    <2> QED
      BY <1>1, <1>6, <1>7, Inductive
  <1>9. g[n + 1] = Merged(g[n], x) /\ g[n] = f[n]
    <2>1. n + 1 \in 1 .. n + 1 /\ (n + 1) - 1 = n
      BY <1>1
    <2> QED
      BY <1>1, <1>5, <1>8, <2>1
  <1> QED
    BY <1>4, <1>5, <1>9 DEF v

\* The parts of a path are names.
LEMMA PartsType ==
    ASSUME NEW u
    PROVE  /\ u \in Seq(Segment) => Parts(u) \in Seq(Named)
           /\ u \in Seq(Fixed) => Parts(u) \in Seq(FixedNames)
           /\ Parts(<<>>) = <<>> /\ Merge(<<>>) = <<>>
  <1>1. ASSUME NEW S, NEW U, NamesIn(U, S), u \in Seq(U) PROVE Parts(u) \in Seq(S)
    <2>1. PICK f : Parting(S, u, f)
      BY <1>1, PartLoop
    <2>2. Len(u) \in 0 .. Len(u)
      BY <1>1, LenProperties
    <2> QED
      BY <2>1, <2>2 DEF Parting
  <1>2. Parts(<<>>) = <<>>
    <2>1. <<>> \in Seq(Segment) /\ Len(<<>>) = 0
      OBVIOUS
    <2>2. PICK f : Parting(Named, <<>>, f)
      BY <2>1, Sets, PartLoop
    <2> QED
      BY <2>1, <2>2 DEF Parting
  <1>3. Merge(<<>>) = <<>>
    <2>1. <<>> \in Seq(Segment) /\ Len(<<>>) = 0
      OBVIOUS
    <2>2. PICK f : Merging(<<>>, f)
      BY <2>1, MergeLoop
    <2> QED
      BY <2>1, <2>2 DEF Merging
  <1> QED
    BY <1>1, <1>2, <1>3, Sets

\* Names stay.
LEMMA PartsOfNames ==
    ASSUME NEW s \in Seq(Named)
    PROVE  Parts(s) = s /\ Parts(Append(s, "")) = s
  <1> DEFINE n == Len(s)
             G == {i \in Nat : i <= n => Parts(SubSeq(s, 1, i)) = SubSeq(s, 1, i)}
  <1>1. n \in Nat
    BY LenProperties
  <1>2. 0 \in G
    <2>1. SubSeq(s, 1, 0) = <<>>
      BY SubSeqEmpty
    <2> QED
      BY <2>1, PartsType
  <1>3. ASSUME NEW i \in Nat, i \in G PROVE i + 1 \in G
    <2> SUFFICES ASSUME i + 1 <= n PROVE Parts(SubSeq(s, 1, i + 1)) = SubSeq(s, 1, i + 1)
      OBVIOUS
    <2> DEFINE t == SubSeq(s, 1, i)
               x == s[i + 1]
    <2>1. SubSeq(s, 1, i + 1) = Append(t, x) /\ t \in Seq(Named) /\ x \in Named
      BY UpTo
    <2>2. Parts(t) = t
      <3>1. i <= n
        BY <1>1
      <3> QED
        BY <1>3, <3>1
    <2> HIDE DEF t, x
    <2>3. Parts(Append(t, x)) = Part(Parts(t), x)
      <3>1. t \in Seq(Segment) /\ x \in Segment
        BY <2>1, Sets, Wider
      <3> QED
        BY <3>1, PartsAppend
    <2>4. Part(t, x) = Append(t, x)
      BY <2>1, Sets DEF Part
    <2> QED
      BY <2>1, <2>2, <2>3, <2>4
  <1>4. n \in G
    <2> HIDE DEF G, n
    <2> QED
      BY <1>1, <1>2, <1>3, Inductive
  <1>5. Parts(s) = s
    <2>1. Parts(SubSeq(s, 1, n)) = SubSeq(s, 1, n)
      BY <1>1, <1>4
    <2>2. SubSeq(s, 1, Len(s)) = s
      BY SubSeqFull
    <2> QED
      BY <2>1, <2>2
  <1>6. Parts(Append(s, "")) = Part(Parts(s), "")
    <2>1. s \in Seq(Segment) /\ "" \in Segment
      BY Sets, Wider
    <2> QED
      BY <2>1, PartsAppend
  <1>7. Part(s, "") = s
    BY DEF Part
  <1> QED
    BY <1>5, <1>6, <1>7


\* The paths that cleanPath makes.
CleanPaths ==
    {<<"">>} \cup {s \in Seq(FixedNames) : s # <<>>}
    \cup {Append(s, "") : s \in {t \in Seq(FixedNames) : t # <<>>}}

\* A path of names, closed or not, is one that cleanPath makes,
LEMMA ClosedType ==
    ASSUME NEW s \in Seq(FixedNames), NEW slash \in BOOLEAN
    PROVE  Closed(s, slash) \in CleanPaths
  BY DEF Closed, CleanPaths

\* and cleanPath makes no others.
LEMMA CleanPathType ==
    ASSUME NEW p \in Seq(Segment)
    PROVE  cleanPath(p) \in CleanPaths
  <1>1. CASE p = <<>>
    BY <1>1 DEF cleanPath, CleanPaths
  <1>2. CASE p # <<>>
    <2> DEFINE u == unescape(p)
               b == (Last(u) = "")
    <2>1. Parts(u) \in Seq(FixedNames)
      BY Unescaped, PartsType
    <2>2. b \in BOOLEAN
      OBVIOUS
    <2>3. cleanPath(p) = Closed(Parts(u), b)
      BY <1>2 DEF cleanPath
    <2> HIDE DEF u, b
    <2> QED
      BY <2>1, <2>2, <2>3, ClosedType
  <1> QED
    BY <1>1, <1>2

\* A path that ends with a name does not end with a slash.
LEMMA LastName ==
    ASSUME NEW s \in Seq(Named), s # <<>>
    PROVE  Last(s) \in Named /\ Last(s) # ""
  <1>1. Len(s) \in 1 .. Len(s)
    BY EmptySeq
  <1>2. s[Len(s)] \in Named
    BY <1>1, ElementOfSeq
  <1> QED
    BY <1>2, Sets DEF Last

\* What was put at the end stands there.
LEMMA LastAppended ==
    ASSUME NEW S, NEW s \in Seq(S), NEW x \in S
    PROVE  Last(Append(s, x)) = x /\ Append(s, x) # <<>> /\ Append(s, x) \in Seq(S)
  <1>1. Append(s, x) \in Seq(S) /\ Len(Append(s, x)) = Len(s) + 1 /\ Append(s, x)[Len(s) + 1] = x /\ Len(s) \in Nat
    BY AppendProperties, LenProperties
  <1>2. Append(s, x) # <<>>
    BY <1>1, AppendProperties
  <1> QED
    BY <1>1, <1>2 DEF Last

\* What cleanPath makes of names, with or without a slash after them.
LEMMA CleanNames ==
    ASSUME NEW s \in Seq(FixedNames)
    PROVE  /\ s # <<>> => cleanPath(s) = s
           /\ cleanPath(Append(s, "")) = Closed(s, TRUE)
  <1>1. s \in Seq(Fixed) /\ s \in Seq(Named) /\ "" \in Fixed
    BY Wider, Sets
  <1>2. Parts(s) = s /\ Parts(Append(s, "")) = s
    BY <1>1, PartsOfNames
  <1>3. ASSUME s # <<>> PROVE cleanPath(s) = s
    <2>1. unescape(s) = s /\ Last(s) # ""
      BY <1>1, <1>3, UnescapeFixed, LastName
    <2> QED
      BY <1>2, <1>3, <2>1 DEF cleanPath, Closed
  <1>4. cleanPath(Append(s, "")) = Closed(s, TRUE)
    <2> DEFINE p == Append(s, "")
    <2>1. p \in Seq(Fixed) /\ p # <<>> /\ Last(p) = ""
      BY <1>1, LastAppended
    <2>2. Parts(p) = s
      BY <1>2
    <2> HIDE DEF p
    <2>3. unescape(p) = p
      BY <2>1, UnescapeFixed
    <2>4. cleanPath(p) = Closed(s, TRUE)
      BY <2>1, <2>2, <2>3 DEF cleanPath, Closed
    <2> QED
      BY <2>4 DEF p
  <1> QED
    BY <1>3, <1>4

\* cleanPath changes nothing a second time.
LEMMA CleanTwice ==
    ASSUME NEW p \in CleanPaths
    PROVE  cleanPath(p) = p /\ p \in Seq(Segment) /\ p # <<>>
  <1>0. "" \in Fixed /\ "" \in Segment
    BY Sets
  <1>1. CASE p = <<"">>
    <2>1. <<>> \in Seq(FixedNames) /\ Append(<<>>, "") = <<"">>
      OBVIOUS
    <2>2. cleanPath(Append(<<>>, "")) = Closed(<<>>, TRUE)
      BY <2>1, CleanNames
    <2>3. Closed(<<>>, TRUE) = <<"">>
      BY DEF Closed
    <2>4. <<"">> \in Seq(Segment) /\ <<"">> # <<>>
      <3>1. <<>> \in Seq(Segment)
        OBVIOUS
      <3>2. Append(<<>>, "") \in Seq(Segment) /\ Append(<<>>, "") # <<>>
        BY <1>0, <3>1, LastAppended
      <3> QED
        BY <2>1, <3>2
    <2> QED
      BY <1>1, <2>1, <2>2, <2>3, <2>4
  <1>2. CASE p \in Seq(FixedNames) /\ p # <<>>
    BY <1>2, CleanNames, Wider
  <1>3. CASE \E s \in Seq(FixedNames) : s # <<>> /\ p = Append(s, "")
    <2>1. PICK s \in Seq(FixedNames) : s # <<>> /\ p = Append(s, "")
      BY <1>3
    <2>2. cleanPath(Append(s, "")) = Closed(s, TRUE) /\ Closed(s, TRUE) = Append(s, "")
      BY <2>1, CleanNames DEF Closed
    <2>3. s \in Seq(Segment)
      BY Wider
    <2>4. Append(s, "") \in Seq(Segment) /\ Append(s, "") # <<>>
      BY <1>0, <2>3, LastAppended
    <2> QED
      BY <2>1, <2>2, <2>4
  <1> QED
    BY <1>1, <1>2, <1>3 DEF CleanPaths

NoGaps(q) == \A i \in 1 .. Len(q) : q[i] # ""

\* On parts that are not empty the two loops do the same.
LEMMA SameLoops ==
    ASSUME NEW q \in Seq(Segment), NoGaps(q)
    PROVE  Merge(q) = Parts(q)
  <1> DEFINE n == Len(q)
             G == {i \in Nat : i <= n => Merge(SubSeq(q, 1, i)) = Parts(SubSeq(q, 1, i))}
  <1>1. n \in Nat
    BY LenProperties
  <1>2. 0 \in G
    <2>1. SubSeq(q, 1, 0) = <<>>
      BY SubSeqEmpty
    <2> QED
      BY <2>1, PartsType
  <1>3. ASSUME NEW i \in Nat, i \in G PROVE i + 1 \in G
    <2> SUFFICES ASSUME i + 1 <= n PROVE Merge(SubSeq(q, 1, i + 1)) = Parts(SubSeq(q, 1, i + 1))
      OBVIOUS
    <2> DEFINE t == SubSeq(q, 1, i)
               x == q[i + 1]
    <2>1. SubSeq(q, 1, i + 1) = Append(t, x) /\ t \in Seq(Segment) /\ x \in Segment
      BY UpTo
    <2>2. Merge(t) = Parts(t) /\ x # ""
      <3>1. i <= n /\ i + 1 \in 1 .. Len(q)
        BY <1>1
      <3> QED
        BY <1>3, <3>1 DEF NoGaps
    <2> HIDE DEF t, x
    <2>3. Parts(Append(t, x)) = Part(Parts(t), x) /\ Merge(Append(t, x)) = Merged(Merge(t), x)
      BY <2>1, PartsAppend, MergeAppend
    <2>4. Part(Parts(t), x) = Merged(Parts(t), x)
      BY <2>2 DEF Part, Merged
    <2> QED
      BY <2>1, <2>2, <2>3, <2>4
  <1>4. n \in G
    <2> HIDE DEF G, n
    <2> QED
      BY <1>1, <1>2, <1>3, Inductive
  <1>5. Merge(SubSeq(q, 1, n)) = Parts(SubSeq(q, 1, n))
    BY <1>1, <1>4
  <1>6. SubSeq(q, 1, Len(q)) = q
    BY SubSeqFull
  <1> QED
    BY <1>5, <1>6

\* The other half of ReadAlike.
TakesNames(p) ==
    \A j \in DOMAIN p : p[j] = ".." => \A i \in 1 .. j - 1 : p[i] # "" /\ Decoded[p[i]] = <<p[i]>>

\* What comes before a part that is taken back stands for itself, and is not
\* empty.
LEMMA DottedPrefix ==
    ASSUME NEW p \in Seq(Segment), TakesNames(p), NEW i \in Nat, i + 1 <= Len(p), p[i + 1] = ".."
    PROVE  Append(SubSeq(p, 1, i), p[i + 1]) \in Seq(Fixed) /\ NoGaps(Append(SubSeq(p, 1, i), p[i + 1]))
  <1> DEFINE m == i + 1
             w == SubSeq(p, 1, m)
  <1>1. Len(p) \in Nat /\ DOMAIN p = 1 .. Len(p) /\ m \in 1 .. Len(p) /\ m - 1 = i /\ m \in Nat /\ m # 0
    <2>1. Len(p) \in Nat /\ DOMAIN p = 1 .. Len(p)
      BY LenProperties
    <2> QED
      BY <2>1
  <1>2. \A k \in 1 .. i : p[k] # "" /\ Decoded[p[k]] = <<p[k]>>
    <2> HIDE DEF m
    <2>1. p[m] = ".."
      BY DEF m
    <2> QED
      BY <1>1, <2>1 DEF TakesNames
  <1>3. \A k \in 1 .. m : p[k] \in Fixed /\ p[k] # ""
    <2> SUFFICES ASSUME NEW k \in 1 .. m PROVE p[k] \in Fixed /\ p[k] # ""
      OBVIOUS
    <2>1. CASE k = m
      BY <2>1, Sets
    <2>2. CASE k # m
      <3>1. k \in 1 .. i /\ k \in 1 .. Len(p)
        <4> HIDE DEF m
        <4> QED
          BY <1>1, <2>2
      <3>2. p[k] \in Segment
        BY <3>1, ElementOfSeq
      <3> QED
        BY <1>2, <3>1, <3>2 DEF Fixed
    <2> QED
      BY <2>1, <2>2
  <1>4. Append(SubSeq(p, 1, i), p[i + 1]) = w
    BY UpTo
  <1> HIDE DEF m
  <1>5. /\ w \in Seq(Fixed) /\ Len(w) = m
        /\ \A k \in 1 .. m : w[k] = p[k]
    <2>1. /\ SubSeq(p, 1, m) \in Seq(Fixed) /\ Len(SubSeq(p, 1, m)) = (IF 1 <= m THEN m - 1 + 1 ELSE 0)
          /\ \A k \in 1 .. m - 1 + 1 : SubSeq(p, 1, m)[k] = p[1 + k - 1]
      <3>1. \A k \in 1 .. m : p[k] \in Fixed
        BY <1>3
      <3> QED
        BY <1>1, <3>1, SubSeqProperties
    <2>2. m - 1 + 1 = m /\ (IF 1 <= m THEN m - 1 + 1 ELSE 0) = m
      BY <1>1
    <2>3. \A k \in 1 .. m : 1 + k - 1 = k
      BY <1>1
    <2> QED
      BY <2>1, <2>2, <2>3
  <1>6. \A k \in 1 .. Len(w) : w[k] # ""
    BY <1>3, <1>5
  <1> HIDE DEF w
  <1>7. w \in Seq(Fixed) /\ NoGaps(w)
    BY <1>5, <1>6 DEF NoGaps
  <1> QED
    BY <1>4, <1>7

\* ResolveReference leaves segments.
LEMMA MergeType ==
    ASSUME NEW full \in Seq(Segment)
    PROVE  Merge(full) \in Seq(Segment)
  <1>1. PICK f : Merging(full, f)
    BY MergeLoop
  <1>2. Len(full) \in 0 .. Len(full)
    BY LenProperties
  <1> QED
    BY <1>1, <1>2 DEF Merging

\* Taking escapes off, one part more.
LEMMA UnescapeAppend ==
    ASSUME NEW u \in Seq(Segment), NEW x \in Segment
    PROVE  unescape(Append(u, x)) = unescape(u) \o Decoded[x]
  <1> DEFINE n == Len(u)
             v == Append(u, x)
  <1>1. v \in Seq(Segment) /\ Len(v) = n + 1 /\ n \in Nat /\ v[n + 1] = x /\ \A i \in 1 .. n : v[i] = u[i]
    BY AppendProperties, LenProperties
  <1> HIDE DEF v
  <1>2. PICK f : Unescaping(u, f)
    BY UnescapeLoop
  <1>3. PICK g : Unescaping(v, g)
    BY <1>1, UnescapeLoop
  <1>4. f[0] = <<>> /\ (\A i \in 1 .. n : f[i] = f[i - 1] \o Decoded[u[i]]) /\ unescape(u) = f[n]
    BY <1>2 DEF Unescaping
  <1>5. g[0] = <<>> /\ (\A i \in 1 .. n + 1 : g[i] = g[i - 1] \o Decoded[v[i]]) /\ unescape(v) = g[n + 1]
    BY <1>1, <1>3 DEF Unescaping
  <1> DEFINE G == {i \in Nat : i <= n => g[i] = f[i]}
  <1> HIDE DEF n
  <1>6. 0 \in G
    BY <1>4, <1>5
  <1>7. ASSUME NEW i \in Nat, i \in G PROVE i + 1 \in G
    <2> SUFFICES ASSUME i + 1 <= n PROVE g[i + 1] = f[i + 1]
      OBVIOUS
    <2>1. i <= n /\ i + 1 \in 1 .. n /\ i + 1 \in 1 .. n + 1 /\ (i + 1) - 1 = i
      BY <1>1
    <2>2. /\ g[i + 1] = g[i] \o Decoded[v[i + 1]] /\ f[i + 1] = f[i] \o Decoded[u[i + 1]]
          /\ v[i + 1] = u[i + 1]
      BY <1>1, <1>4, <1>5, <2>1
    <2> QED
      BY <1>7, <2>1, <2>2
  <1>8. n \in G
    <2> HIDE DEF G
    <2> QED
      BY <1>1, <1>6, <1>7, Inductive
  <1>9. g[n + 1] = g[n] \o Decoded[x] /\ g[n] = f[n]
    <2>1. n + 1 \in 1 .. n + 1 /\ (n + 1) - 1 = n
      BY <1>1
    <2>2. g[n + 1] = g[n] \o Decoded[v[n + 1]]
      BY <1>5, <2>1
    <2>3. g[n] = f[n]
      BY <1>1, <1>8
    <2> QED
      BY <1>1, <2>2, <2>3
  <1> QED
    BY <1>4, <1>5, <1>9 DEF v

\* Texts with the same parts have the same parts when both go on alike.
LEMMA PartsConcat ==
    ASSUME NEW a \in Seq(Segment), NEW b \in Seq(Segment), NEW y \in Seq(Segment), Parts(a) = Parts(b)
    PROVE  Parts(a \o y) = Parts(b \o y)
  <1> DEFINE n == Len(y)
             G == {i \in Nat : i <= n => Parts(a \o SubSeq(y, 1, i)) = Parts(b \o SubSeq(y, 1, i))}
  <1>1. n \in Nat
    BY LenProperties
  <1>2. 0 \in G
    <2>1. SubSeq(y, 1, 0) = <<>>
      BY SubSeqEmpty
    <2>2. a \o <<>> = a /\ b \o <<>> = b
      BY ConcatEmptySeq
    <2> QED
      BY <2>1, <2>2
  <1>3. ASSUME NEW i \in Nat, i \in G PROVE i + 1 \in G
    <2> SUFFICES ASSUME i + 1 <= n PROVE Parts(a \o SubSeq(y, 1, i + 1)) = Parts(b \o SubSeq(y, 1, i + 1))
      OBVIOUS
    <2> DEFINE t == SubSeq(y, 1, i)
               x == y[i + 1]
    <2>1. SubSeq(y, 1, i + 1) = t \o <<x>> /\ t \in Seq(Segment) /\ x \in Segment
      BY UpTo
    <2>2. Parts(a \o t) = Parts(b \o t)
      <3>1. i <= n
        BY <1>1
      <3> QED
        BY <1>3, <3>1
    <2> HIDE DEF t, x
    <2>3. ASSUME NEW c \in Seq(Segment) PROVE Parts(c \o (t \o <<x>>)) = Part(Parts(c \o t), x)
      <3>1. c \o t \in Seq(Segment) /\ <<x>> \in Seq(Segment)
        BY <2>1, ConcatProperties
      <3>2. c \o (t \o <<x>>) = Append(c \o t, x)
        <4>1. t \in Seq(Segment) /\ x \in Segment
          BY <2>1
        <4> QED
          BY ONLY <4>1, c \in Seq(Segment)
      <3> QED
        BY <2>1, <3>1, <3>2, PartsAppend
    <2> QED
      BY <2>1, <2>2, <2>3
  <1>4. n \in G
    <2> HIDE DEF G, n
    <2> QED
      BY <1>1, <1>2, <1>3, Inductive
  <1>5. Parts(a \o SubSeq(y, 1, n)) = Parts(b \o SubSeq(y, 1, n))
    BY <1>1, <1>4
  <1>6. SubSeq(y, 1, Len(y)) = y
    BY SubSeqFull
  <1> QED
    BY <1>5, <1>6

\* What is put behind decides about the end.
LEMMA LastConcat ==
    ASSUME NEW S, NEW a \in Seq(S), NEW y \in Seq(S), y # <<>>
    PROVE  Last(a \o y) = Last(y) /\ a \o y # <<>>
  <1>1. /\ Len(a \o y) = Len(a) + Len(y) /\ Len(a) \in Nat /\ Len(y) \in Nat /\ Len(y) # 0
        /\ \A i \in 1 .. Len(a) + Len(y) : (a \o y)[i] = IF i <= Len(a) THEN a[i] ELSE y[i - Len(a)]
    BY ConcatProperties, LenProperties, EmptySeq
  <1> DEFINE k == Len(a)
             n == Len(y)
             m == k + n
  <1>2. m \in 1 .. m /\ ~(m <= k) /\ m - k = n /\ m # 0
    BY <1>1
  <1>3. (a \o y)[m] = y[n] /\ Len(a \o y) = m
    <2> HIDE DEF m
    <2> QED
      BY <1>1, <1>2 DEF m
  <1>4. a \o y # <<>>
    BY <1>2, <1>3
  <1> QED
    BY <1>3, <1>4 DEF Last

\* A segment without its escapes is one or more.
LEMMA DecodedType ==
    ASSUME NEW x \in Segment
    PROVE  Decoded[x] \in Seq(Segment) /\ Decoded[x] # <<>>
  BY AddressesAssumption

\* Resolving a path first leaves the same parts when ".." takes back names only:
\* up to the last ".." the two loops do the same, and after it both add what comes.
LEMMA ResolvedParts ==
    ASSUME NEW p \in Seq(Segment), TakesNames(p)
    PROVE  \A i \in Nat : i <= Len(p) =>
               /\ Parts(unescape(Merge(SubSeq(p, 1, i)))) = Parts(unescape(SubSeq(p, 1, i)))
               /\ Merge(SubSeq(p, 1, i)) \in Seq(Segment)
  <1> DEFINE n == Len(p)
             Same(t) == Parts(unescape(Merge(t))) = Parts(unescape(t)) /\ Merge(t) \in Seq(Segment)
             G == {i \in Nat : i <= n => Same(SubSeq(p, 1, i))}
  <1>1. n \in Nat /\ DOMAIN p = 1 .. n
    BY LenProperties
  <1>2. 0 \in G
    <2>1. SubSeq(p, 1, 0) = <<>>
      BY SubSeqEmpty
    <2>2. <<>> \in Seq(Segment)
      OBVIOUS
    <2> QED
      BY <2>1, <2>2, PartsType
  <1>3. ASSUME NEW i \in Nat, i \in G PROVE i + 1 \in G
    <2> SUFFICES ASSUME i + 1 <= n PROVE Same(SubSeq(p, 1, i + 1))
      OBVIOUS
    <2> DEFINE t == SubSeq(p, 1, i)
               x == p[i + 1]
               m == Merge(t)
               d == Decoded[x]
    <2>1. SubSeq(p, 1, i + 1) = Append(t, x) /\ t \in Seq(Segment) /\ x \in Segment
      BY UpTo
    <2>2. Parts(unescape(m)) = Parts(unescape(t)) /\ m \in Seq(Segment)
      <3>1. i <= n
        BY <1>1
      <3> QED
        BY <1>3, <3>1
    <2>3. d \in Seq(Segment)
      <3> HIDE DEF x
      <3> QED
        BY <2>1, DecodedType
    <2>4. CASE x = ".."
      <3>1. Append(t, x) \in Seq(Fixed) /\ NoGaps(Append(t, x))
        BY <2>1, <2>4, DottedPrefix
      <3> DEFINE w == Append(t, x)
      <3> HIDE DEF w, n
      <3>2. w \in Seq(Segment) /\ Merge(w) = Parts(w) /\ unescape(w) = w
        BY <3>1, Wider, SameLoops, UnescapeFixed DEF w
      <3>3. Parts(w) \in Seq(FixedNames)
        BY <3>1, PartsType DEF w
      <3>4. Parts(w) \in Seq(Named) /\ Parts(w) \in Seq(Fixed) /\ Parts(w) \in Seq(Segment)
        BY <3>3, Wider
      <3>5. Parts(Parts(w)) = Parts(w) /\ unescape(Parts(w)) = Parts(w)
        BY <3>4, PartsOfNames, UnescapeFixed
      <3>6. Same(w)
        BY <3>2, <3>4, <3>5
      <3> QED
        BY <2>1, <3>6 DEF w
    <2> HIDE DEF t, x, d, n
    <2>5. Merge(Append(t, x)) = Merged(m, x) /\ unescape(Append(t, x)) = unescape(t) \o d
      BY <2>1, MergeAppend, UnescapeAppend DEF d, m
    <2> HIDE DEF m
    <2>6. unescape(t) \in Seq(Segment) /\ unescape(m) \in Seq(Segment)
      BY <2>1, <2>2, Unescaped, Wider
    <2>7. Parts(unescape(m) \o d) = Parts(unescape(t) \o d)
      BY <2>2, <2>3, <2>6, PartsConcat
    <2>8. CASE x = "."
      <3>1. d = <<x>> /\ Merged(m, x) = m
        BY <2>8, AddressesAssumption DEF d, Merged
      <3>2. unescape(t) \o d = Append(unescape(t), x)
        BY <2>1, <2>6, <3>1, AppendIsConcat
      <3>3. Parts(Append(unescape(t), x)) = Part(Parts(unescape(t)), x)
        BY <2>1, <2>6, PartsAppend
      <3>4. Part(Parts(unescape(t)), x) = Parts(unescape(t))
        BY <2>8 DEF Part
      <3>5. Parts(unescape(Append(t, x))) = Parts(unescape(m)) /\ Merge(Append(t, x)) = m
        BY <2>2, <2>5, <3>1, <3>2, <3>3, <3>4
      <3> QED
        BY <2>1, <2>2, <3>5
    <2>9. CASE x # "." /\ x # ".."
      <3>1. Merged(m, x) = Append(m, x)
        BY <2>9 DEF Merged
      <3>2. unescape(Append(m, x)) = unescape(m) \o d /\ Append(m, x) \in Seq(Segment)
        BY <2>1, <2>2, UnescapeAppend, LastAppended DEF d
      <3> QED
        BY <2>1, <2>5, <2>7, <3>1, <3>2
    <2> QED
      BY <2>4, <2>8, <2>9
  <1> SUFFICES ASSUME NEW i \in Nat PROVE i \in G
    OBVIOUS
  <1> HIDE DEF G, n
  <1> QED
    BY <1>2, <1>3, Inductive

\* A path that is read alike may be resolved first.
LEMMA CleanResolved ==
    ASSUME NEW p \in Seq(Segment), ReadAlike(p)
    PROVE  cleanPath(resolvePath(p)) = cleanPath(p)
  <1>1. CASE p = <<>>
    <2>1. resolvePath(p) = <<>>
      BY <1>1 DEF resolvePath
    <2> QED
      BY <1>1, <2>1
  <1>2. CASE p # <<>>
    <2>1. PICK q \in Seq(Segment), x \in Segment : p = Append(q, x)
      BY <1>2, SequenceEmptyOrAppend
    <2>2. x # "." /\ x # ".."
      BY <1>2, <2>1, LastAppended DEF ReadAlike
    <2>3. resolvePath(p) = Append(Merge(q), x) /\ Merge(p) = Append(Merge(q), x)
      <3>1. Merge(p) = Append(Merge(q), x)
        BY <2>1, <2>2, MergeAppend DEF Merged
      <3>2. Last(p) = x
        BY <2>1, LastAppended
      <3> QED
        BY <1>2, <2>2, <3>1, <3>2 DEF resolvePath
    <2>4. Parts(unescape(Merge(p))) = Parts(unescape(p))
      <3>1. Len(p) \in Nat /\ SubSeq(p, 1, Len(p)) = p
        BY LenProperties, SubSeqFull
      <3>2. TakesNames(p)
        BY DEF ReadAlike, TakesNames
      <3>3. Parts(unescape(Merge(SubSeq(p, 1, Len(p))))) = Parts(unescape(SubSeq(p, 1, Len(p))))
        BY <3>1, <3>2, ResolvedParts
      <3> QED
        BY <3>1, <3>3
    <2> DEFINE m == Merge(q)
               d == Decoded[x]
    <2>5. m \in Seq(Segment)
      BY MergeType
    <2>6. d \in Seq(Segment) /\ d # <<>>
      BY DecodedType
    <2>7. unescape(p) = unescape(q) \o d /\ unescape(Append(m, x)) = unescape(m) \o d
      BY <2>1, <2>5, UnescapeAppend
    <2>8. unescape(q) \in Seq(Segment) /\ unescape(m) \in Seq(Segment)
      BY <2>5, Unescaped, Wider
    <2>9. Append(m, x) # <<>>
      BY <2>5, LastAppended
    <2> HIDE DEF m, d
    <2>10. Last(unescape(q) \o d) = Last(d) /\ Last(unescape(m) \o d) = Last(d)
      BY <2>6, <2>8, LastConcat
    <2> DEFINE u == unescape(p)
               v == unescape(Append(m, x))
    <2>11. Last(u) = Last(v) /\ Parts(v) = Parts(u)
      BY <2>3, <2>4, <2>7, <2>10 DEF m
    <2>12. cleanPath(p) = Closed(Parts(u), Last(u) = "")
      BY <1>2 DEF cleanPath
    <2>13. cleanPath(Append(m, x)) = Closed(Parts(v), Last(v) = "")
      BY <2>9 DEF cleanPath
    <2> HIDE DEF u, v
    <2>14. cleanPath(Append(m, x)) = cleanPath(p)
      BY <2>11, <2>12, <2>13
    <2> QED
      BY <2>3, <2>14 DEF m
  <1> QED
    BY <1>1, <1>2


(***************************************************************************)
(* What is stored: rows and documents.                                     *)
(***************************************************************************)

\* What stands for a port.
Port == STRING \cup {""}

\* What is written and what is resolved, and what the mapper makes of it.
IsAddress(u) ==
    /\ u.scheme \in {"", "http", "https"} /\ u.host \in {<<>>} \cup DOMAIN Registrable
    /\ u.port \in Port /\ u.path \in Seq(Segment)
URL == [scheme : {"http", "https"}, host : DOMAIN Registrable, port : Port, path : CleanPaths]
Normalized == {u \in URL : u.port # DefaultPort[u.scheme]}

\* Hosts have labels.
LEMMA HostType ==
    ASSUME NEW h \in DOMAIN Registrable
    PROVE  h # <<>> /\ h \in Seq(STRING) /\ Len(h) \in Nat \ {0}
  <1>1. h \in Seq(STRING) /\ Ends(Registrable[h], h)
    BY AddressesAssumption
  <1>2. Len(h) \in Nat /\ Len(Registrable[h]) \in 1 .. Len(h)
    BY <1>1, LenProperties DEF Ends
  <1>3. Len(h) # 0
    BY <1>2
  <1> QED
    BY <1>1, <1>2, <1>3, EmptySeq

\* What operators and pages write is an address,
LEMMA TextAddress ==
    ASSUME NEW t \in Text
    PROVE  IsAddress(t)
  BY DEF Text, IsAddress, Port

\* and an address with a host has a normal URL.
LEMMA NormalType ==
    ASSUME NEW u, IsAddress(u)
    PROVE  /\ u.host = <<>> => Normal(u) = NoURL
           /\ u.host # <<>> => /\ Normal(u) \in Normalized /\ Normal(u) # NoURL
                               /\ Normal(u).path = cleanPath(u.path) /\ Normal(u).host = u.host
  <1>1. CASE u.host = <<>>
    BY <1>1 DEF Normal
  <1>2. CASE u.host # <<>>
    <2> DEFINE scheme == IF u.scheme = "" THEN "https" ELSE u.scheme
               port == IF u.port = DefaultPort[scheme] THEN "" ELSE u.port
               path == cleanPath(u.path)
               v == [scheme |-> scheme, host |-> u.host, port |-> port, path |-> path]
    <2>1. Normal(u) = v
      BY <1>2 DEF Normal
    <2>2. scheme \in {"http", "https"} /\ u.host \in DOMAIN Registrable /\ path \in CleanPaths
      BY <1>2, CleanPathType DEF IsAddress
    <2>3. port \in Port /\ port # DefaultPort[scheme]
      <3>1. DefaultPort["http"] = "80" /\ DefaultPort["https"] = "443"
        BY DEF DefaultPort
      <3>2. DefaultPort[scheme] # "" /\ u.port \in Port /\ "" \in Port
        <4>1. scheme = "http" \/ scheme = "https"
          BY <2>2
        <4>2. "80" # "" /\ "443" # ""
          OBVIOUS
        <4>3. u.port \in Port
          BY DEF IsAddress
        <4>6. "" \in Port
          BY DEF Port
        <4> HIDE DEF scheme
        <4>4. DefaultPort[scheme] = "80" \/ DefaultPort[scheme] = "443"
          BY <3>1, <4>1
        <4>5. DefaultPort[scheme] # ""
          BY <4>2, <4>4
        <4> QED
          BY <4>3, <4>5, <4>6
      <3>3. CASE u.port = DefaultPort[scheme]
        BY <3>2, <3>3
      <3>4. CASE u.port # DefaultPort[scheme]
        BY <3>2, <3>4
      <3> QED
        BY <3>3, <3>4
    <2> HIDE DEF scheme, port, path
    <2>4. v \in Normalized
      BY <2>2, <2>3 DEF Normalized, URL
    <2>5. v # NoURL
      <3>1. v.host = u.host /\ NoURL.host = <<>>
        BY DEF NoURL
      <3> QED
        BY <1>2, <3>1
    <2> QED
      BY <1>2, <2>1, <2>4, <2>5 DEF path
  <1> QED
    BY <1>1, <1>2

\* What was normalized is normal.
LEMMA NormalTwice ==
    ASSUME NEW u \in Normalized
    PROVE  Normal(u) = u /\ IsAddress(u)
  <1>1. /\ u = [scheme |-> u.scheme, host |-> u.host, port |-> u.port, path |-> u.path]
        /\ u.scheme \in {"http", "https"} /\ u.host \in DOMAIN Registrable /\ u.port \in Port
        /\ u.path \in CleanPaths /\ u.port # DefaultPort[u.scheme]
    BY DEF Normalized, URL
  <1>2. u.host # <<>>
    BY <1>1, HostType
  <1>3. cleanPath(u.path) = u.path /\ u.path \in Seq(Segment)
    BY <1>1, CleanTwice
  <1>4. (IF u.scheme = "" THEN "https" ELSE u.scheme) = u.scheme
    BY <1>1
  <1>5. Normal(u) = [scheme |-> u.scheme, host |-> u.host, port |-> u.port, path |-> u.path]
    BY <1>1, <1>2, <1>3, <1>4 DEF Normal
  <1> QED
    BY <1>1, <1>3, <1>5 DEF IsAddress

\* The path that a link means is one,
LEMMA FullType ==
    ASSUME NEW page \in Normalized, NEW ref \in Text
    PROVE  Full(ref, page) \in Seq(Segment)
  <1>1. page.path \in Seq(Segment) /\ page.path # <<>> /\ ref.path \in Seq(Segment)
    BY CleanTwice DEF Normalized, URL, Text
  <1>2. Front(page.path) \in Seq(Segment)
    BY <1>1, FrontProperties
  <1>3. Front(page.path) \o ref.path \in Seq(Segment)
    BY <1>1, <1>2, ConcatProperties
  <1> QED
    BY <1>1, <1>3 DEF Full

\* and so is what ResolveReference makes of it.
LEMMA ResolveType ==
    ASSUME NEW full \in Seq(Segment)
    PROVE  resolvePath(full) \in Seq(Segment)
  <1>1. Merge(full) \in Seq(Segment)
    BY MergeType
  <1>2. Append(Merge(full), "") \in Seq(Segment)
    BY <1>1, Sets, LastAppended
  <1>3. <<>> \in Seq(Segment)
    OBVIOUS
  <1> QED
    BY <1>1, <1>2, <1>3 DEF resolvePath

\* A link on a page has a host, and so a normal URL.
LEMMA ResolvedAddress ==
    ASSUME NEW page \in Normalized, NEW ref \in Text
    PROVE  /\ IsAddress(ResolveReference(page, ref)) /\ ResolveReference(page, ref).host # <<>>
           /\ normalizeLink(ref, page) \in Normalized
           /\ normalizeLink(ref, page).path = cleanPath(resolvePath(Full(ref, page)))
  <1> DEFINE v == ResolveReference(page, ref)
             path == resolvePath(Full(ref, page))
  <1>1. path \in Seq(Segment)
    BY FullType, ResolveType
  <1>2. /\ page.scheme \in {"http", "https"} /\ page.host \in DOMAIN Registrable /\ page.port \in Port
        /\ page.host # <<>>
    BY HostType DEF Normalized, URL
  <1>3. /\ ref.scheme \in {"", "http", "https"} /\ ref.host \in {<<>>} \cup DOMAIN Registrable
        /\ ref.port \in Port
    BY DEF Text, Port
  <1>4. v = [scheme |-> IF ref.scheme = "" THEN page.scheme ELSE ref.scheme,
             host   |-> IF ref.host = <<>> THEN page.host ELSE ref.host,
             port   |-> IF ref.host = <<>> THEN page.port ELSE ref.port,
             path   |-> path]
    BY DEF ResolveReference
  <1> HIDE DEF v, path
  <1>5. IsAddress(v) /\ v.host # <<>> /\ v.path = path
    BY <1>1, <1>2, <1>3, <1>4 DEF IsAddress
  <1>6. Normal(v) \in Normalized /\ Normal(v).path = cleanPath(path)
    BY <1>5, NormalType
  <1> QED
    BY <1>5, <1>6 DEF v, path, normalizeLink

\* A link to a PDF that the mapper and the parser read alike.
LEMMA SamePdf ==
    ASSUME NEW page \in Normalized, NEW ref \in Text,
           ref.host = <<>> \/ (ReadAlike(ref.path) /\ (ref.scheme # "" \/ page.scheme = "https"))
    PROVE  pdfLink(ref, page) = normalizeLink(ref, page)
  <1>1. CASE ref.host = <<>>
    <2>1. Normal(ref) = NoURL
      BY <1>1, TextAddress, NormalType
    <2> QED
      BY <2>1 DEF pdfLink, normalizeLink
  <1>2. CASE ref.host # <<>>
    <2> DEFINE scheme == IF ref.scheme = "" THEN "https" ELSE ref.scheme
               v == ResolveReference(page, ref)
    <2>1. Full(ref, page) = ref.path /\ ref.path \in Seq(Segment)
      BY <1>2 DEF Full, Text
    <2>2. v = [scheme |-> scheme, host |-> ref.host, port |-> ref.port, path |-> resolvePath(ref.path)]
      <3>1. (IF ref.scheme = "" THEN page.scheme ELSE ref.scheme) = scheme
        BY <1>2
      <3> QED
        BY <1>2, <2>1, <3>1 DEF ResolveReference
    <2>3. cleanPath(resolvePath(ref.path)) = cleanPath(ref.path)
      BY <1>2, <2>1, CleanResolved
    <2>4. (IF scheme = "" THEN "https" ELSE scheme) = scheme
      OBVIOUS
    <2> HIDE DEF scheme, v
    <2>5. v.host = ref.host /\ v.port = ref.port /\ v.scheme = scheme /\ v.path = resolvePath(ref.path)
      BY <2>2
    <2>6. Normal(v) = [scheme |-> scheme, host |-> ref.host,
                       port |-> IF ref.port = DefaultPort[scheme] THEN "" ELSE ref.port,
                       path |-> cleanPath(ref.path)]
      BY <1>2, <2>3, <2>4, <2>5 DEF Normal
    <2>7. Normal(ref) = [scheme |-> scheme, host |-> ref.host,
                         port |-> IF ref.port = DefaultPort[scheme] THEN "" ELSE ref.port,
                         path |-> cleanPath(ref.path)]
      BY <1>2 DEF Normal, scheme
    <2>8. Normal(ref) # NoURL
      BY <1>2, TextAddress, NormalType
    <2> QED
      BY <2>6, <2>7, <2>8 DEF pdfLink, normalizeLink, v
  <1> QED
    BY <1>1, <1>2

\* Rows: their URL is normal, belongs to their domain, and has the path that was
\* said, cleaned, unless a link said it that is not read alike.
DomainIn(m, u) == IF m = "host" THEN u.host ELSE Registrable[u.host]
RowIn(m, r) ==
    /\ r.url \in Normalized /\ r.domain = DomainIn(m, r.url)
    /\ r.said \in Seq(Segment)
    /\ (r.linked => ReadAlike(r.said)) => r.url.path = cleanPath(r.said)

\* Documents: see OneDocument and DocumentHasRow.
DocumentIn(m, d) ==
    /\ d.url = d.other /\ d.hash = d.url
    /\ d.url = d.from.url /\ ~(isPDFURL(d.url) /\ m = "host") => d.domain = d.from.domain

StoredInv ==
    /\ \A r \in rows : RowIn(mode, r)
    /\ \A d \in docs : DocumentIn(mode, d)

\* Storing a row like that keeps the invariant,
LEMMA StoreRow ==
    ASSUME StoredInv, NEW url \in Normalized, NEW said \in Seq(Segment), NEW linked,
           (linked => ReadAlike(said)) => url.path = cleanPath(said),
           Stored(url, said, linked), crawl' = DomainIn(mode, url), UNCHANGED <<mode, docs>>
    PROVE  StoredInv'
  <1> DEFINE r == [url |-> url, domain |-> crawl', said |-> said, linked |-> linked]
  <1>1. /\ rows' = rows \cup {r} /\ r.url = url /\ r.domain = crawl'
        /\ r.said = said /\ r.linked = linked
    BY DEF Stored
  <1> HIDE DEF r
  <1>2. RowIn(mode, r)
    BY <1>1 DEF RowIn
  <1> QED
    BY <1>1, <1>2 DEF StoredInv

\* and so does storing a document like that.
LEMMA StoreDocument ==
    ASSUME StoredInv, NEW url, NEW hash, NEW domain, NEW from, NEW other,
           Document(url, hash, domain, from, other), url = other, hash = url,
           url = from.url /\ ~(isPDFURL(url) /\ mode = "host") => domain = from.domain
    PROVE  StoredInv'
  <1> DEFINE d == [url |-> url, hash |-> hash, domain |-> domain, from |-> from, other |-> other]
  <1>1. /\ docs' = docs \cup {d} /\ UNCHANGED <<mode, crawl, rows>>
        /\ d.url = url /\ d.hash = hash /\ d.domain = domain /\ d.from = from /\ d.other = other
    BY DEF Document
  <1> HIDE DEF d
  <1>2. DocumentIn(mode, d)
    BY <1>1 DEF DocumentIn
  <1> QED
    BY <1>1, <1>2 DEF StoredInv

\* A seed is stored under its own domain.
LEMMA CrawlStored ==
    ASSUME StoredInv, NEW text \in Seeds, NEW monitor \in BOOLEAN, Crawl(text, monitor)
    PROVE  StoredInv'
  <1> DEFINE t == IF monitor THEN simple_url(text) ELSE text
             url == Normal(t)
  <1>1. text \in Text
    BY AddressesAssumption
  <1>2. IsAddress(t) /\ t.path = text.path /\ text.path \in Seq(Segment)
    BY <1>1 DEF simple_url, Text, IsAddress, Port
  <1>3. url # NoURL /\ crawl' = DomainIn(mode, url) /\ Stored(url, text.path, FALSE) /\ UNCHANGED <<mode, docs>>
    BY DEF Crawl, normalizeSeed, domainForURL, DomainIn
  <1>4. url \in Normalized /\ url.path = cleanPath(text.path)
    <2> HIDE DEF t
    <2> QED
      BY <1>2, <1>3, NormalType
  <1> HIDE DEF url
  <1> QED
    BY <1>2, <1>3, <1>4, StoreRow

\* A link is stored when its domain is that of the crawl.
LEMMA FollowStored ==
    ASSUME StoredInv, NEW r \in rows, NEW ref \in Links, Follow(r, ref)
    PROVE  StoredInv'
  <1> DEFINE page == r.url
             url == normalizeLink(ref, page)
             full == Full(ref, page)
  <1>1. page \in Normalized /\ ref \in Text
    BY AddressesAssumption DEF StoredInv, RowIn
  <1>2. crawl' = DomainIn(mode, url) /\ Stored(url, full, TRUE) /\ UNCHANGED <<mode, docs>>
    BY DEF Follow, sameDomain, domainForURL, DomainIn
  <1> HIDE DEF page
  <1>3. url \in Normalized /\ url.path = cleanPath(resolvePath(full)) /\ full \in Seq(Segment)
    BY <1>1, ResolvedAddress, FullType
  <1> HIDE DEF url, full
  <1>4. ReadAlike(full) => url.path = cleanPath(full)
    BY <1>3, CleanResolved
  <1> QED
    BY <1>2, <1>3, <1>4, StoreRow

\* A page in a job keeps its name.
LEMMA ParseStored ==
    ASSUME StoredInv, NEW r \in rows, Parse(r)
    PROVE  StoredInv'
  <1> DEFINE url == normalizeTarget(r.url)
  <1>1. r.url \in Normalized /\ r.domain = DomainIn(mode, r.url)
    BY DEF StoredInv, RowIn
  <1>2. url = r.url
    BY <1>1, NormalTwice DEF normalizeTarget
  <1>3. CASE isPDFURL(url)
    <2>1. Document(url, url, domainForPdf(url), r, r.url)
      BY <1>3 DEF Parse
    <2>2. url = r.url /\ ~(isPDFURL(url) /\ mode = "host") => domainForPdf(url) = r.domain
      BY <1>1, <1>2, <1>3 DEF domainForPdf, DomainIn
    <2> HIDE DEF url
    <2> QED
      BY <1>2, <2>1, <2>2, StoreDocument
  <1>4. CASE ~isPDFURL(url)
    <2>1. Document(url, r.url, r.domain, r, r.url)
      BY <1>4 DEF Parse
    <2> HIDE DEF url
    <2> QED
      BY <1>2, <2>1, StoreDocument
  <1> QED
    BY <1>3, <1>4

\* A PDF that is linked gets the name that the mapper has for it.
LEMMA ParsePdfStored ==
    ASSUME StoredInv, NEW r \in rows, NEW ref \in Links, ParsePdf(r, ref)
    PROVE  StoredInv'
  <1> DEFINE page == r.url
             url == pdfLink(ref, page)
             alike == \/ ref.host = <<>>
                      \/ ReadAlike(ref.path) /\ (ref.scheme # "" \/ page.scheme = "https")
             other == IF alike THEN normalizeLink(ref, page) ELSE url
  <1>1. page \in Normalized /\ ref \in Text
    BY AddressesAssumption DEF StoredInv, RowIn
  <1>2. /\ ~isPDFURL(page) /\ isPDFURL(url)
        /\ Document(url, url, domainForPdf(url), r, other)
    BY DEF ParsePdf
  <1>3. url # r.url
    BY <1>2
  <1>4. other = url
    BY <1>1, SamePdf
  <1> HIDE DEF url, other
  <1> QED
    BY <1>2, <1>3, <1>4, StoreDocument

\* So what is stored is always like that.
LEMMA StoredInvariant == Spec => []StoredInv
  <1>1. Init => StoredInv
    BY DEF Init, StoredInv
  <1>2. StoredInv /\ [Next]_vars => StoredInv'
    <2> SUFFICES ASSUME StoredInv, [Next]_vars PROVE StoredInv'
      OBVIOUS
    <2>1. CASE UNCHANGED vars
      BY <2>1 DEF StoredInv, vars
    <2>2. CASE Next
      BY <2>2, CrawlStored, FollowStored, ParseStored, ParsePdfStored DEF Next
    <2> QED
      BY <2>1, <2>2
  <1> QED
    BY <1>1, <1>2, PTL DEF Spec


\* The parser names pages as the mapper does: a page that it reads again under
\* the URL in its job, and a PDF that it finds on a page, has one document, under
\* the URL the mapper has for it (parser main.go:146, 153, 205, 354).
THEOREM OneName == Spec => []OneDocument
  <1>1. StoredInv => OneDocument
    BY DEF StoredInv, DocumentIn, OneDocument
  <1> QED
    BY <1>1, StoredInvariant, PTL

\* Documents are stored under the domain that their row has, so the parser's
\* lookup of the row by domain and URL finds it; PDFs are the exception, when the
\* mapper crawls by hosts (parser main.go:404).
THEOREM RowsFound == Spec => []DocumentHasRow
  <1>1. StoredInv => DocumentHasRow
    BY DEF StoredInv, DocumentIn, DocumentHasRow
  <1> QED
    BY <1>1, StoredInvariant, PTL

\* What was typed for a stored host.
LEMMA TypedHost ==
    ASSUME StoredInv, NEW r \in rows, NEW text \in Targets, text.host = r.url.host
    PROVE  /\ text \in Text /\ IsAddress(text) /\ text.host \in DOMAIN Registrable /\ text.host # <<>>
           /\ r.domain = DomainIn(mode, r.url)
  <1>1. text \in Text /\ r.url \in Normalized /\ r.domain = DomainIn(mode, r.url)
    BY AddressesAssumption DEF StoredInv, RowIn
  <1>2. text.host \in DOMAIN Registrable
    BY <1>1 DEF Normalized, URL
  <1> QED
    BY <1>1, <1>2, HostType, TextAddress

\* `mapper replay` takes the URL, or the host, of any stored page for its
\* domain, in both modes (mapper's replayDomainKey).
THEOREM CommandFindsRows == Spec => []CommandFinds
  <1>1. StoredInv => CommandFinds
    <2> SUFFICES ASSUME StoredInv, NEW r \in rows, NEW text \in Targets, text.host = r.url.host
                 PROVE  replayDomainKey(text) = r.domain
      BY DEF CommandFinds
    <2>1. Normal(text).host = text.host
      BY TypedHost, NormalType
    <2> QED
      BY <2>1, TypedHost DEF replayDomainKey, domainForURL, DomainIn
  <1> QED
    BY <1>1, StoredInvariant, PTL

\* The end of a host that has as many labels as its registrable domain is that
\* domain, and comes among the ends that have two labels.
LEMMA EndOfHost ==
    ASSUME NEW h \in DOMAIN Registrable
    PROVE  /\ Len(Registrable[h]) \in 1 .. Len(h)
           /\ Registrable[h] = SubSeq(h, Len(h) - Len(Registrable[h]) + 1, Len(h))
           /\ Len(h) - Len(Registrable[h]) + 1 \in 1 .. (IF Len(h) > 2 THEN Len(h) - 1 ELSE 1)
  <1> DEFINE d == Registrable[h]
  <1>1. Len(d) \in 1 .. Len(h) /\ d = SubSeq(h, Len(h) - Len(d) + 1, Len(h)) /\ (d = h \/ Len(d) >= 2)
    BY AddressesAssumption DEF Ends
  <1>2. Len(h) \in Nat \ {0}
    BY HostType
  <1> HIDE DEF d
  <1>3. Len(d) \in Nat /\ (d = h => Len(d) = Len(h))
    BY <1>1, <1>2
  <1>4. Len(h) - Len(d) + 1 \in 1 .. (IF Len(h) > 2 THEN Len(h) - 1 ELSE 1)
    BY <1>1, <1>2, <1>3
  <1> QED
    BY <1>1, <1>4 DEF d

\* The least of a set.
LEMMA LeastIs ==
    ASSUME NEW S \in SUBSET Int, NEW m \in S, \A i \in S : m <= i
    PROVE  Min(S) = m
  <1>1. \A x \in S : (\A y \in S : x <= y) => x = m
    OBVIOUS
  <1> QED
    BY <1>1 DEF Min

\* An end of a host.
LEMMA SubEnds ==
    ASSUME NEW h \in Seq(STRING), NEW i \in 1 .. Len(h)
    PROVE  Ends(SubSeq(h, i, Len(h)), h) /\ Len(SubSeq(h, i, Len(h))) = Len(h) - i + 1
  <1> DEFINE n == Len(h)
             d == SubSeq(h, i, n)
  <1>1. n \in Nat /\ i \in Nat /\ i <= n
    BY LenProperties
  <1>2. Len(d) = n - i + 1
    BY <1>1, SubSeqProperties
  <1>3. Len(d) \in 1 .. n /\ n - Len(d) + 1 = i
    BY <1>1, <1>2
  <1> QED
    BY <1>2, <1>3 DEF Ends

\* What the monitor takes for a host, or for a URL.
Typed(text) ==
    Last(text.host) # "" /\ (text.scheme # "" \/ normalize_domain_key(text).rest = <<>>)

\* The monitor finds the domain of a stored page, too, from its URL and from its
\* host, in both modes: of the ends of the host that it tries, longest first, none
\* but the domain of the host's pages has rows (services.py).
THEOREM MonitorFindsRows == Spec => []MonitorFinds
  <1>1. StoredInv => MonitorFinds
    <2> SUFFICES ASSUME StoredInv, NEW r \in rows, NEW text \in Targets,
                        text.host = r.url.host, Typed(text)
                 PROVE  resolve_domain(text) = r.domain
      BY DEF MonitorFinds, Typed
    <2> DEFINE h == text.host
               n == Len(h)
               c == IF n > 2 THEN n - 1 ELSE 1
               known == [labels : {q.domain : q \in rows}, rest : {<<>>}]
               Try(i) == [labels |-> SubSeq(h, i, n), rest |-> <<>>]
               found == {i \in 1 .. c : Try(i) \in known}
    <2>1. h \in DOMAIN Registrable /\ r.domain = DomainIn(mode, r.url) /\ r.url.host = h
      BY TypedHost
    <2>2. h \in Seq(STRING) /\ n \in Nat \ {0}
      BY <2>1, HostType
    <2>3. normalize_domain_key(text) = [labels |-> h, rest |-> <<>>]
      <3>1. (IF Last(text.host) = "" THEN Front(text.host) ELSE text.host) = h
        BY DEF Typed
      <3>2. <<text.port, text.path>> # <<>>
        OBVIOUS
      <3> QED
        BY <3>1, <3>2 DEF normalize_domain_key, Typed
    <2>4. domain_candidates(text) = [i \in 1 .. c |-> Try(i)]
      <3> DEFINE key == normalize_domain_key(text)
                 m == Len(key.labels)
      <3>1. domain_candidates(text)
              = [i \in 1 .. (IF m > 2 THEN m - 1 ELSE 1) |-> [key EXCEPT !.labels = SubSeq(key.labels, i, m)]]
        BY DEF domain_candidates
      <3>2. key = [labels |-> h, rest |-> <<>>]
        BY <2>3
      <3> HIDE DEF key
      <3>3. key.labels = h /\ m = n
        BY <3>2
      <3>4. ASSUME NEW i PROVE [key EXCEPT !.labels = SubSeq(key.labels, i, m)] = Try(i)
        <4>1. SubSeq(key.labels, i, m) = SubSeq(h, i, n)
          BY <3>3
        <4> HIDE DEF m, n
        <4> DEFINE e == SubSeq(h, i, n)
        <4> HIDE DEF e, h
        <4>2. [[labels |-> h, rest |-> <<>>] EXCEPT !.labels = e] = [labels |-> e, rest |-> <<>>]
          OBVIOUS
        <4> QED
          BY <3>2, <4>1, <4>2 DEF e
      <3> HIDE DEF Try, m
      <3> QED
        BY <3>1, <3>3, <3>4
    <2>5. \A i \in 1 .. c : Try(i) \in known <=> \E q \in rows : q.domain = SubSeq(h, i, n)
      OBVIOUS
    <2>6. c \in 1 .. n /\ n \in Nat
      <3> HIDE DEF h
      <3>1. n \in Nat /\ n # 0
        BY <2>2
      <3> HIDE DEF n
      <3> QED
        BY <3>1
    <2>15. \A i : i \in found <=> i \in 1 .. c /\ Try(i) \in known
      OBVIOUS
    <2>16. \A i : Try(i).labels = SubSeq(h, i, n)
      OBVIOUS
    <2> HIDE DEF known, c, n, found, Try, h
    <2>7. \E m \in found : SubSeq(h, m, n) = r.domain /\ \A i \in found : m <= i
      <3>1. CASE mode = "host"
        <4>1. 1 \in 1 .. c /\ r.domain = h
          BY <2>1, <2>6, <3>1 DEF DomainIn
        <4>4. SubSeq(h, 1, n) = h
          BY <2>2, SubSeqFull DEF n
        <4>2. 1 \in found
          BY <2>5, <2>15, <4>1, <4>4
        <4>3. \A i \in found : 1 <= i
          BY <2>6, <2>15
        <4> QED
          BY <4>1, <4>2, <4>3, <4>4
      <3>2. CASE mode # "host"
        <4> DEFINE d == Registrable[h]
                   m == n - Len(d) + 1
        <4>1. r.domain = d /\ Len(d) \in 1 .. n /\ d = SubSeq(h, m, n) /\ m \in 1 .. c
          BY <2>1, <3>2, EndOfHost DEF DomainIn, c, n
        <4>2. m \in found
          BY <2>5, <2>15, <4>1
        <4>3. ASSUME NEW i \in found PROVE m <= i
          <5>1. PICK q \in rows : q.domain = SubSeq(h, i, n)
            BY <2>5, <2>15
          <5> DEFINE g == q.url.host
                     e == SubSeq(h, i, n)
          <5>2. g \in DOMAIN Registrable /\ Registrable[g] = e
            BY <3>2, <5>1 DEF StoredInv, RowIn, Normalized, URL, DomainIn
          <5>3. i \in 1 .. n
            BY <2>6, <2>15
          <5>4. Ends(e, h) /\ Len(e) = n - i + 1
            BY <2>2, <5>3, SubEnds DEF n
          <5>5. Len(e) <= Len(d)
            BY <2>1, <5>2, <5>4, AddressesAssumption
          <5>6. Len(d) \in Int /\ m = n - Len(d) + 1
            BY <4>1
          <5> HIDE DEF e, d, m
          <5> QED
            BY <2>6, <5>3, <5>4, <5>5, <5>6
        <4> QED
          BY <4>1, <4>2, <4>3
      <3> QED
        BY <3>1, <3>2
    <2>8. PICK m \in found : SubSeq(h, m, n) = r.domain /\ \A i \in found : m <= i
      BY <2>7
    <2>9. Min(found) = m
      <3>1. found \subseteq Int
        BY <2>6, <2>15
      <3> QED
        BY <2>8, <3>1, LeastIs
    <2> DEFINE candidates == [i \in 1 .. c |-> Try(i)]
    <2>10. DOMAIN candidates = 1 .. c /\ \A i \in 1 .. c : candidates[i] = Try(i)
      OBVIOUS
    <2>11. resolve_domain(text) = LET f == {i \in DOMAIN candidates : candidates[i] \in known}
                                 IN  IF f = {} THEN <<>> ELSE candidates[Min(f)].labels
      BY <2>4 DEF resolve_domain, known
    <2> HIDE DEF candidates
    <2>12. {i \in DOMAIN candidates : candidates[i] \in known} = found
      BY <2>10, <2>15
    <2>13. found # {} /\ m \in 1 .. c
      BY <2>8, <2>15
    <2>14. candidates[m].labels = SubSeq(h, m, n)
      <3>1. candidates[m] = Try(m)
        BY <2>10, <2>13
      <3> QED
        BY <2>16, <3>1
    <2> QED
      BY <2>8, <2>9, <2>11, <2>12, <2>13, <2>14
  <1> QED
    BY <1>1, StoredInvariant, PTL


(***************************************************************************)
(* What is meant by a path.                                                *)
(***************************************************************************)

IsName(x) == x \notin {"", ".", ".."}
IsDots(x) == x = ".."

\* The parts that no later ".." takes back.
Kept(u) ==
    {i \in DOMAIN u : IsName(u[i]) /\ \A j \in i + 1 .. Len(u) : Dots(u, i + 1, j) <= Names(u, i + 1, j)}

\* What stands after a place.
DotsAfter(u, i)  == Dots(u, i + 1, Len(u))
NamesAfter(u, i) == Names(u, i + 1, Len(u))

\* Where the parts that the loop has on its stack come from: one after the other
\* from the places that are kept, and after each of them as many names are still
\* open as there are parts above it.
Marks(u, e) ==
    /\ e \in Seq(Nat) /\ Len(e) = Len(Parts(u))
    /\ \A k \in 1 .. Len(e) : e[k] \in 1 .. Len(u) /\ Parts(u)[k] = u[e[k]]
    /\ \A k, l \in 1 .. Len(e) : k < l => e[k] < e[l]
    /\ {e[k] : k \in 1 .. Len(e)} = Kept(u)
    /\ \A k \in 1 .. Len(e) : NamesAfter(u, e[k]) = DotsAfter(u, e[k]) + (Len(e) - k)

\* What cleanPath does with a part.
LEMMA Kinds ==
    ASSUME NEW x
    PROVE  /\ IsName(x) => ~IsDots(x) /\ \A s : Part(s, x) = Append(s, x)
           /\ IsDots(x) => \A s : Part(s, x) = IF s = <<>> THEN <<>> ELSE Front(s)
           /\ ~IsName(x) /\ ~IsDots(x) => \A s : Part(s, x) = s
  <1>1. CASE IsName(x)
    BY <1>1 DEF IsName, IsDots, Part
  <1>2. CASE IsDots(x)
    BY <1>2 DEF IsName, IsDots, Part
  <1>3. CASE ~IsName(x) /\ ~IsDots(x)
    BY <1>3 DEF IsName, IsDots, Part
  <1> QED
    BY <1>1, <1>2, <1>3

\* How much of a set stands between two places.
Among(C, i, j) == Cardinality({k \in i .. j : k \in C})

\* Counting goes on at the next place.
LEMMA Counted ==
    ASSUME NEW i \in Nat, NEW n \in Nat, i <= n + 1, NEW C
    PROVE  /\ Among(C, i, n) \in Nat
           /\ Among(C, i, n + 1) = Among(C, i, n) + (IF n + 1 \in C THEN 1 ELSE 0)
  <1> DEFINE S == {k \in i .. n : k \in C}
             T == {k \in i .. n + 1 : k \in C}
  <1>1. IsFiniteSet(S)
    <2>1. IsFiniteSet(i .. n)
      BY FS_Interval
    <2> QED
      BY <2>1, FS_Subset
  <1>2. Cardinality(S) \in Nat
    BY <1>1, FS_CardinalityType
  <1>3. n + 1 \notin S
    OBVIOUS
  <1>6. Among(C, i, n) = Cardinality(S) /\ Among(C, i, n + 1) = Cardinality(T)
    BY DEF Among
  <1>4. CASE n + 1 \in C
    <2>1. T = S \cup {n + 1}
      BY <1>4
    <2> HIDE DEF S, T
    <2>2. Cardinality(T) = Cardinality(S) + 1
      BY <1>1, <1>3, <2>1, FS_AddElement
    <2> QED
      BY <1>2, <1>4, <1>6, <2>2
  <1>5. CASE n + 1 \notin C
    <2>1. T = S
      BY <1>5
    <2> HIDE DEF S, T
    <2>2. Cardinality(T) = Cardinality(S) + 0
      BY <1>2, <2>1
    <2> QED
      BY <1>2, <1>5, <1>6, <2>2
  <1> QED
    BY <1>2, <1>4, <1>5, <1>6

\* Counting dots and names of a path with one part more.
LEMMA CountAppend ==
    ASSUME NEW u \in Seq(Segment), NEW x \in Segment, NEW i \in Nat \ {0}, i <= Len(u) + 1
    PROVE  /\ Dots(u, i, Len(u)) \in Nat /\ Names(u, i, Len(u)) \in Nat
           /\ \A j \in Int : j <= Len(u) =>
                 Dots(Append(u, x), i, j) = Dots(u, i, j) /\ Names(Append(u, x), i, j) = Names(u, i, j)
           /\ Dots(Append(u, x), i, Len(u) + 1) = Dots(u, i, Len(u)) + (IF IsDots(x) THEN 1 ELSE 0)
           /\ Names(Append(u, x), i, Len(u) + 1) = Names(u, i, Len(u)) + (IF IsName(x) THEN 1 ELSE 0)
  <1> DEFINE n == Len(u)
             v == Append(u, x)
             C == {k \in 1 .. n + 1 : IsDots(v[k])}
             N == {k \in 1 .. n + 1 : IsName(v[k])}
  <1>1. v[n + 1] = x /\ n \in Nat /\ \A k \in 1 .. n : v[k] = u[k]
    BY AppendProperties, LenProperties
  <1> HIDE DEF n, v
  <1>2. ASSUME NEW j \in Int, j <= n
        PROVE  /\ Dots(u, i, j) = Among(C, i, j)
               /\ Names(u, i, j) = Among(N, i, j)
               /\ Dots(v, i, j) = Among(C, i, j)
               /\ Names(v, i, j) = Among(N, i, j)
    <2>1. \A k \in i .. j : k \in 1 .. n /\ k \in 1 .. n + 1 /\ v[k] = u[k]
      BY <1>1, <1>2
    <2>2. {k \in i .. j : u[k] = ".."} = {k \in i .. j : k \in C}
      BY <2>1 DEF IsDots
    <2>3. {k \in i .. j : v[k] = ".."} = {k \in i .. j : k \in C}
      BY <2>1 DEF IsDots
    <2>4. {k \in i .. j : u[k] \notin {"", ".", ".."}} = {k \in i .. j : k \in N}
      BY <2>1 DEF IsName
    <2>5. {k \in i .. j : v[k] \notin {"", ".", ".."}} = {k \in i .. j : k \in N}
      BY <2>1 DEF IsName
    <2> QED
      BY <2>2, <2>3, <2>4, <2>5 DEF Dots, Names, Among
  <1>3. /\ Dots(v, i, n + 1) = Among(C, i, n + 1)
        /\ Names(v, i, n + 1) = Among(N, i, n + 1)
    <2>1. \A k \in i .. n + 1 : k \in 1 .. n + 1
      BY <1>1
    <2>3. {k \in i .. n + 1 : v[k] = ".."} = {k \in i .. n + 1 : k \in C}
      BY <2>1 DEF IsDots
    <2>5. {k \in i .. n + 1 : v[k] \notin {"", ".", ".."}} = {k \in i .. n + 1 : k \in N}
      BY <2>1 DEF IsName
    <2> QED
      BY <2>3, <2>5 DEF Dots, Names, Among
  <1>4. (n + 1 \in C <=> IsDots(x)) /\ (n + 1 \in N <=> IsName(x))
    BY <1>1
  <1> HIDE DEF C, N
  <1>5. i \in Nat /\ n \in Nat /\ n \in Int /\ n <= n /\ i <= n + 1
    BY <1>1 DEF n
  <1>6. /\ Among(C, i, n) \in Nat
        /\ Among(C, i, n + 1)
             = Among(C, i, n) + (IF n + 1 \in C THEN 1 ELSE 0)
    BY <1>5, Counted
  <1>7. /\ Among(N, i, n) \in Nat
        /\ Among(N, i, n + 1)
             = Among(N, i, n) + (IF n + 1 \in N THEN 1 ELSE 0)
    BY <1>5, Counted
  <1>8. Dots(u, i, n) \in Nat /\ Names(u, i, n) \in Nat
    BY <1>2, <1>5, <1>6, <1>7
  <1>9. Dots(v, i, n + 1) = Dots(u, i, n) + (IF IsDots(x) THEN 1 ELSE 0)
    BY <1>2, <1>3, <1>4, <1>5, <1>6
  <1>10. Names(v, i, n + 1) = Names(u, i, n) + (IF IsName(x) THEN 1 ELSE 0)
    BY <1>2, <1>3, <1>4, <1>5, <1>7
  <1> QED
    BY <1>2, <1>8, <1>9, <1>10 DEF n, v

\* There is nothing after the end.
LEMMA CountEmpty ==
    ASSUME NEW u, NEW n \in Int
    PROVE  Dots(u, n + 1, n) = 0 /\ Names(u, n + 1, n) = 0
  <1>1. n + 1 .. n = {}
    OBVIOUS
  <1>2. {k \in n + 1 .. n : u[k] = ".."} = {} /\ {k \in n + 1 .. n : u[k] \notin {"", ".", ".."}} = {}
    BY <1>1
  <1> QED
    BY <1>2, FS_EmptySet DEF Dots, Names

\* What is kept of a path with one part more.
LEMMA KeptAppend ==
    ASSUME NEW u \in Seq(Segment), NEW x \in Segment
    PROVE  /\ Kept(Append(u, x)) \subseteq 1 .. Len(u) + 1 /\ Kept(u) \subseteq 1 .. Len(u)
           /\ Len(u) + 1 \in Kept(Append(u, x)) <=> IsName(x)
           /\ \A i \in 1 .. Len(u) : i \in Kept(Append(u, x)) <=>
                 i \in Kept(u) /\ Dots(Append(u, x), i + 1, Len(u) + 1) <= Names(Append(u, x), i + 1, Len(u) + 1)
           /\ \A i \in Kept(u) : Dots(u, i + 1, Len(u)) <= Names(u, i + 1, Len(u))
  <1> DEFINE n == Len(u)
             v == Append(u, x)
  <1>1. v[n + 1] = x /\ n \in Nat /\ (\A k \in 1 .. n : v[k] = u[k]) /\ Len(v) = n + 1
        /\ DOMAIN v = 1 .. n + 1 /\ DOMAIN u = 1 .. n
    BY AppendProperties, LenProperties
  <1> HIDE DEF n, v
  <1>2. ASSUME NEW i \in 1 .. n, NEW j \in i + 1 .. n
        PROVE  Dots(v, i + 1, j) = Dots(u, i + 1, j) /\ Names(v, i + 1, j) = Names(u, i + 1, j)
    <2> DEFINE k == i + 1
    <2>1. k \in Nat \ {0} /\ k <= n + 1 /\ j \in Int /\ j <= n
      BY <1>1
    <2> HIDE DEF k
    <2>2. Dots(v, k, j) = Dots(u, k, j) /\ Names(v, k, j) = Names(u, k, j)
      BY <2>1, CountAppend DEF n, v
    <2> QED
      BY <2>2 DEF k
  <1>3. Kept(v) \subseteq 1 .. n + 1 /\ Kept(u) \subseteq 1 .. n
    BY <1>1 DEF Kept
  <1>4. n + 1 \in Kept(v) <=> IsName(x)
    <2>1. (n + 1) + 1 .. n + 1 = {} /\ n + 1 \in 1 .. n + 1
      BY <1>1
    <2> QED
      BY <1>1, <2>1 DEF Kept
  <1>5. ASSUME NEW i \in 1 .. n
        PROVE  i \in Kept(v) <=> i \in Kept(u) /\ Dots(v, i + 1, n + 1) <= Names(v, i + 1, n + 1)
    <2>1. i + 1 .. n + 1 = (i + 1 .. n) \cup {n + 1} /\ i \in 1 .. n + 1 /\ v[i] = u[i]
      BY <1>1
    <2>2. i \in Kept(v) <=> IsName(v[i]) /\ \A j \in i + 1 .. n + 1 : Dots(v, i + 1, j) <= Names(v, i + 1, j)
      BY <1>1, <2>1 DEF Kept
    <2>3. i \in Kept(u) <=> IsName(u[i]) /\ \A j \in i + 1 .. n : Dots(u, i + 1, j) <= Names(u, i + 1, j)
      BY <1>1 DEF Kept, n
    <2>4. (\A j \in i + 1 .. n + 1 : Dots(v, i + 1, j) <= Names(v, i + 1, j))
            <=> /\ \A j \in i + 1 .. n : Dots(u, i + 1, j) <= Names(u, i + 1, j)
                /\ Dots(v, i + 1, n + 1) <= Names(v, i + 1, n + 1)
      BY <1>2, <2>1
    <2> QED
      BY <2>1, <2>2, <2>3, <2>4
  <1>6. ASSUME NEW i \in Kept(u) PROVE Dots(u, i + 1, n) <= Names(u, i + 1, n)
    <2>1. CASE i = n
      BY <1>1, <2>1, CountEmpty
    <2>2. CASE i # n
      <3>1. n \in i + 1 .. n
        BY <1>1, <1>3, <2>2
      <3> QED
        BY <3>1 DEF Kept, n
    <2> QED
      BY <2>1, <2>2
  <1> QED
    BY <1>3, <1>4, <1>5, <1>6 DEF n, v


\* What changes with one part more.
LEMMA AfterAppend ==
    ASSUME NEW u \in Seq(Segment), NEW x \in Segment, NEW i \in 1 .. Len(u)
    PROVE  /\ DotsAfter(u, i) \in Nat /\ NamesAfter(u, i) \in Nat
           /\ DotsAfter(Append(u, x), i) = DotsAfter(u, i) + (IF IsDots(x) THEN 1 ELSE 0)
           /\ NamesAfter(Append(u, x), i) = NamesAfter(u, i) + (IF IsName(x) THEN 1 ELSE 0)
           /\ i \in Kept(Append(u, x))
                <=> i \in Kept(u) /\ DotsAfter(Append(u, x), i) <= NamesAfter(Append(u, x), i)
           /\ i \in Kept(u) => DotsAfter(u, i) <= NamesAfter(u, i)
  <1> DEFINE n == Len(u)
             v == Append(u, x)
             k == i + 1
  <1>1. n \in Nat /\ Len(v) = n + 1
    BY AppendProperties, LenProperties
  <1>2. k \in Nat \ {0} /\ k <= n + 1
    BY <1>1
  <1> HIDE DEF k
  <1>3. /\ Dots(u, k, n) \in Nat /\ Names(u, k, n) \in Nat
        /\ Dots(v, k, n + 1) = Dots(u, k, n) + (IF IsDots(x) THEN 1 ELSE 0)
        /\ Names(v, k, n + 1) = Names(u, k, n) + (IF IsName(x) THEN 1 ELSE 0)
    BY <1>2, CountAppend
  <1>4. i \in Kept(v) <=> i \in Kept(u) /\ Dots(v, k, n + 1) <= Names(v, k, n + 1)
    BY KeptAppend DEF k
  <1>5. i \in Kept(u) => Dots(u, k, n) <= Names(u, k, n)
    BY KeptAppend DEF k
  <1>6. /\ DotsAfter(u, i) = Dots(u, k, n) /\ NamesAfter(u, i) = Names(u, k, n)
        /\ DotsAfter(v, i) = Dots(v, k, n + 1) /\ NamesAfter(v, i) = Names(v, k, n + 1)
    BY <1>1 DEF DotsAfter, NamesAfter, k
  <1> HIDE DEF n, v
  <1>7. QED
    BY <1>3, <1>4, <1>5, <1>6 DEF v

\* Nothing stands after the part that was added.
LEMMA AfterLast ==
    ASSUME NEW u \in Seq(Segment), NEW x \in Segment
    PROVE  /\ DotsAfter(Append(u, x), Len(u) + 1) = 0 /\ NamesAfter(Append(u, x), Len(u) + 1) = 0
           /\ Len(u) + 1 \in Kept(Append(u, x)) <=> IsName(x)
           /\ Kept(Append(u, x)) \subseteq 1 .. Len(u) + 1 /\ Kept(u) \subseteq 1 .. Len(u)
  <1> DEFINE m == Len(u) + 1
             v == Append(u, x)
  <1>1. Len(v) = m /\ m \in Int
    BY AppendProperties, LenProperties
  <1> HIDE DEF m, v
  <1>2. DotsAfter(v, m) = 0 /\ NamesAfter(v, m) = 0
    BY <1>1, CountEmpty DEF DotsAfter, NamesAfter
  <1> QED
    BY <1>2, KeptAppend DEF m, v

\* One part more: it is skipped,
LEMMA MarkSkip ==
    ASSUME NEW u \in Seq(Segment), NEW x \in Segment, NEW e, Marks(u, e), ~IsName(x), ~IsDots(x)
    PROVE  Marks(Append(u, x), e)
  <1> DEFINE v == Append(u, x)
             n == Len(u)
  <1>1. v \in Seq(Segment) /\ Len(v) = n + 1 /\ n \in Nat /\ \A i \in 1 .. n : v[i] = u[i]
    BY AppendProperties, LenProperties
  <1>2. Parts(v) = Parts(u)
    BY PartsAppend, Kinds
  <1>3. /\ e \in Seq(Nat) /\ Len(e) = Len(Parts(u))
        /\ \A k \in 1 .. Len(e) : e[k] \in 1 .. n /\ Parts(u)[k] = u[e[k]]
        /\ \A k, l \in 1 .. Len(e) : k < l => e[k] < e[l]
        /\ {e[k] : k \in 1 .. Len(e)} = Kept(u)
        /\ \A k \in 1 .. Len(e) : NamesAfter(u, e[k]) = DotsAfter(u, e[k]) + (Len(e) - k)
    BY DEF Marks
  <1>4. \A i \in 1 .. n : /\ DotsAfter(v, i) = DotsAfter(u, i) /\ NamesAfter(v, i) = NamesAfter(u, i)
                          /\ i \in Kept(v) <=> i \in Kept(u)
    BY AfterAppend
  <1>5. Kept(v) = Kept(u)
    <2>1. n + 1 \notin Kept(v) /\ Kept(v) \subseteq 1 .. n + 1 /\ Kept(u) \subseteq 1 .. n
      BY AfterLast
    <2>2. \A i \in 1 .. n + 1 : i # n + 1 => i \in 1 .. n
      BY <1>1
    <2> HIDE DEF v, n
    <2> QED
      BY <1>4, <2>1, <2>2
  <1> HIDE DEF v, n
  <1>6. ASSUME NEW k \in 1 .. Len(e)
        PROVE  /\ e[k] \in 1 .. n + 1 /\ Parts(v)[k] = v[e[k]]
               /\ NamesAfter(v, e[k]) = DotsAfter(v, e[k]) + (Len(e) - k)
    <2>1. e[k] \in 1 .. n
      BY <1>3
    <2>2. e[k] \in 1 .. n + 1
      BY <1>1, <2>1
    <2> QED
      BY <1>1, <1>2, <1>3, <1>4, <2>1, <2>2
  <1> QED
    BY <1>1, <1>2, <1>3, <1>5, <1>6 DEF Marks, v

\* it is a name,
LEMMA MarkName ==
    ASSUME NEW u \in Seq(Segment), NEW x \in Segment, NEW e, Marks(u, e), IsName(x)
    PROVE  Marks(Append(u, x), Append(e, Len(u) + 1))
  <1> DEFINE v == Append(u, x)
             n == Len(u)
             s == Parts(u)
             m == Len(e)
             d == Append(e, n + 1)
             t == Append(s, x)
  <1>1. /\ v \in Seq(Segment) /\ Len(v) = n + 1 /\ n \in Nat /\ v[n + 1] = x
        /\ \A i \in 1 .. n : v[i] = u[i]
    BY AppendProperties, LenProperties
  <1>2. Parts(v) = t
    BY PartsAppend, Kinds
  <1>3. /\ e \in Seq(Nat) /\ m = Len(s) /\ m \in Nat
        /\ \A k \in 1 .. m : e[k] \in 1 .. n /\ s[k] = u[e[k]]
        /\ \A k, l \in 1 .. m : k < l => e[k] < e[l]
        /\ {e[k] : k \in 1 .. m} = Kept(u)
        /\ \A k \in 1 .. m : NamesAfter(u, e[k]) = DotsAfter(u, e[k]) + (m - k)
    BY LenProperties DEF Marks
  <1>4. /\ d \in Seq(Nat) /\ Len(d) = m + 1 /\ d[m + 1] = n + 1 /\ \A k \in 1 .. m : d[k] = e[k]
    <2>1. n + 1 \in Nat
      BY <1>1
    <2> DEFINE y == n + 1
    <2> HIDE DEF y
    <2>2. Append(e, y) \in Seq(Nat) /\ Len(Append(e, y)) = Len(e) + 1 /\ Append(e, y)[Len(e) + 1] = y
          /\ \A k \in 1 .. Len(e) : Append(e, y)[k] = e[k]
      BY <1>3, <2>1, AppendProperties DEF y
    <2> QED
      BY <2>2 DEF y
  <1>5. Len(t) = m + 1 /\ t[m + 1] = x /\ \A k \in 1 .. m : t[k] = s[k]
    <2>1. s \in Seq(Segment)
      BY PartsType, Wider
    <2> HIDE DEF s
    <2> QED
      BY <1>3, <2>1, AppendProperties
  <1>6. \A i \in 1 .. n : /\ DotsAfter(u, i) \in Nat /\ NamesAfter(u, i) \in Nat
                          /\ DotsAfter(v, i) = DotsAfter(u, i) /\ NamesAfter(v, i) = NamesAfter(u, i) + 1
                          /\ i \in Kept(v) <=> i \in Kept(u)
    <2> SUFFICES ASSUME NEW i \in 1 .. n
                 PROVE  /\ DotsAfter(u, i) \in Nat /\ NamesAfter(u, i) \in Nat
                        /\ DotsAfter(v, i) = DotsAfter(u, i) /\ NamesAfter(v, i) = NamesAfter(u, i) + 1
                        /\ i \in Kept(v) <=> i \in Kept(u)
      OBVIOUS
    <2>1. ~IsDots(x)
      BY Kinds
    <2>2. /\ DotsAfter(u, i) \in Nat /\ NamesAfter(u, i) \in Nat
          /\ DotsAfter(v, i) = DotsAfter(u, i) + 0 /\ NamesAfter(v, i) = NamesAfter(u, i) + 1
          /\ i \in Kept(v) <=> i \in Kept(u) /\ DotsAfter(v, i) <= NamesAfter(v, i)
          /\ i \in Kept(u) => DotsAfter(u, i) <= NamesAfter(u, i)
      BY <2>1, AfterAppend
    <2> HIDE DEF v
    <2> QED
      BY <2>2
  <1>7. /\ DotsAfter(v, n + 1) = 0 /\ NamesAfter(v, n + 1) = 0
        /\ n + 1 \in Kept(v) /\ Kept(v) \subseteq 1 .. n + 1 /\ Kept(u) \subseteq 1 .. n
    BY AfterLast
  <1> HIDE DEF v, n, s, m, d, t
  <1>8. Kept(v) = Kept(u) \cup {n + 1}
    <2>1. \A i \in 1 .. n + 1 : i # n + 1 => i \in 1 .. n
      BY <1>1
    <2> QED
      BY <1>6, <1>7, <2>1
  <1>9. \A k \in 1 .. m + 1 : k # m + 1 => k \in 1 .. m
    BY <1>3
  <1>10. ASSUME NEW k \in 1 .. m + 1
         PROVE  /\ d[k] \in 1 .. n + 1 /\ t[k] = v[d[k]]
                /\ NamesAfter(v, d[k]) = DotsAfter(v, d[k]) + (m + 1 - k)
    <2>1. CASE k = m + 1
      <3>1. m + 1 - k = 0 /\ n + 1 \in 1 .. n + 1
        BY <1>1, <1>3, <2>1
      <3> QED
        BY <1>1, <1>4, <1>5, <1>7, <2>1, <3>1
    <2>2. CASE k # m + 1
      <3>1. k \in 1 .. m
        BY <1>9, <2>2
      <3> DEFINE i == e[k]
      <3>2. i \in 1 .. n /\ d[k] = i /\ t[k] = u[i] /\ NamesAfter(u, i) = DotsAfter(u, i) + (m - k)
        BY <1>3, <1>4, <1>5, <3>1
      <3> HIDE DEF i
      <3>3. i \in 1 .. n + 1 /\ v[i] = u[i]
        BY <1>1, <3>2
      <3>4. NamesAfter(v, i) = DotsAfter(v, i) + (m + 1 - k)
        BY <1>3, <1>6, <3>1, <3>2
      <3> QED
        BY <3>2, <3>3, <3>4
    <2> QED
      BY <2>1, <2>2
  <1>11. ASSUME NEW k \in 1 .. m + 1, NEW l \in 1 .. m + 1, k < l PROVE d[k] < d[l]
    <2>1. k \in 1 .. m
      BY <1>3, <1>11
    <2>2. CASE l = m + 1
      <3>1. d[k] \in 1 .. n
        BY <1>3, <1>4, <2>1
      <3> QED
        BY <1>1, <1>4, <2>2, <3>1
    <2>3. CASE l # m + 1
      BY <1>3, <1>4, <1>9, <1>11, <2>1, <2>3
    <2> QED
      BY <2>2, <2>3
  <1>12. {d[k] : k \in 1 .. m + 1} = Kept(v)
    <2>1. \A k \in 1 .. m : k \in 1 .. m + 1
      BY <1>3
    <2>2. m + 1 \in 1 .. m + 1
      BY <1>3
    <2>3. ASSUME NEW k \in 1 .. m + 1 PROVE d[k] \in Kept(v)
      BY <1>3, <1>4, <1>8, <1>9
    <2>4. ASSUME NEW i \in Kept(v) PROVE \E k \in 1 .. m + 1 : d[k] = i
      <3>1. CASE i = n + 1
        BY <1>4, <2>2, <3>1
      <3>2. CASE i # n + 1
        <4>1. i \in Kept(u)
          BY <1>8, <3>2
        <4>2. PICK k \in 1 .. m : e[k] = i
          BY <1>3, <4>1
        <4> QED
          BY <1>4, <2>1, <4>2
      <3> QED
        BY <3>1, <3>2
    <2> QED
      BY <2>3, <2>4
  <1>13. Marks(v, d)
    <2>1. d \in Seq(Nat) /\ Len(d) = Len(Parts(v))
      BY <1>2, <1>4, <1>5
    <2>2. \A k \in 1 .. Len(d) : d[k] \in 1 .. Len(v) /\ Parts(v)[k] = v[d[k]]
      BY <1>1, <1>2, <1>4, <1>10
    <2>3. \A k, l \in 1 .. Len(d) : k < l => d[k] < d[l]
      BY <1>4, <1>11
    <2>4. {d[k] : k \in 1 .. Len(d)} = Kept(v)
      BY <1>4, <1>12
    <2>5. \A k \in 1 .. Len(d) : NamesAfter(v, d[k]) = DotsAfter(v, d[k]) + (Len(d) - k)
      <3> SUFFICES ASSUME NEW k \in 1 .. Len(d)
                   PROVE  NamesAfter(v, d[k]) = DotsAfter(v, d[k]) + (Len(d) - k)
        OBVIOUS
      <3>1. k \in 1 .. m + 1 /\ Len(d) - k = m + 1 - k
        BY <1>3, <1>4
      <3> QED
        BY <1>10, <3>1
    <2> QED
      BY <2>1, <2>2, <2>3, <2>4, <2>5 DEF Marks
  <1> QED
    BY <1>13 DEF v, d, n


\* or it takes the last name back.
LEMMA MarkDots ==
    ASSUME NEW u \in Seq(Segment), NEW x \in Segment, NEW e, Marks(u, e), IsDots(x)
    PROVE  Marks(Append(u, x), IF e = <<>> THEN <<>> ELSE Front(e))
  <1> DEFINE v == Append(u, x)
             n == Len(u)
             s == Parts(u)
             m == Len(e)
             d == IF e = <<>> THEN <<>> ELSE Front(e)
             t == IF s = <<>> THEN <<>> ELSE Front(s)
             o == IF m = 0 THEN 0 ELSE m - 1
  <1>1. /\ v \in Seq(Segment) /\ Len(v) = n + 1 /\ n \in Nat /\ \A i \in 1 .. n : v[i] = u[i]
    BY AppendProperties, LenProperties
  <1>2. Parts(v) = t
    BY PartsAppend, Kinds
  <1>3. /\ e \in Seq(Nat) /\ m = Len(s) /\ m \in Nat
        /\ \A k \in 1 .. m : e[k] \in 1 .. n /\ s[k] = u[e[k]]
        /\ \A k, l \in 1 .. m : k < l => e[k] < e[l]
        /\ {e[k] : k \in 1 .. m} = Kept(u)
        /\ \A k \in 1 .. m : NamesAfter(u, e[k]) = DotsAfter(u, e[k]) + (m - k)
    BY LenProperties DEF Marks
  <1>4. d \in Seq(Nat) /\ Len(d) = o /\ \A k \in 1 .. o : d[k] = e[k]
    <2>1. CASE e = <<>>
      <3>1. m = 0 /\ d = <<>> /\ Len(<<>>) = 0 /\ <<>> \in Seq(Nat)
        BY <2>1, EmptySeq
      <3> HIDE DEF d, m
      <3>2. o = 0 /\ 1 .. o = {}
        BY <3>1
      <3> QED
        BY <3>1, <3>2
    <2>2. CASE e # <<>>
      <3>1. m # 0 /\ d = Front(e)
        BY <1>3, <2>2, EmptySeq
      <3>2. Front(e) \in Seq(Nat) /\ Len(Front(e)) = m - 1 /\ \A k \in 1 .. m - 1 : Front(e)[k] = e[k]
        BY <1>3, <2>2, FrontProperties
      <3> HIDE DEF d, m
      <3> QED
        BY <3>1, <3>2
    <2> QED
      BY <2>1, <2>2
  <1>5. Len(t) = o /\ \A k \in 1 .. o : t[k] = s[k]
    <2>1. s \in Seq(Segment)
      BY PartsType, Wider
    <2>2. CASE s = <<>>
      <3>1. m = 0 /\ t = <<>> /\ Len(<<>>) = 0
        BY <1>3, <2>2, EmptySeq
      <3> HIDE DEF t, m
      <3>2. o = 0 /\ 1 .. o = {}
        BY <3>1
      <3> QED
        BY <3>1, <3>2
    <2>3. CASE s # <<>>
      <3>1. m # 0 /\ t = Front(s)
        BY <1>3, <2>1, <2>3, EmptySeq
      <3> HIDE DEF s
      <3>2. Len(Front(s)) = m - 1 /\ \A k \in 1 .. m - 1 : Front(s)[k] = s[k]
        BY <1>3, <2>1, <2>3, FrontProperties
      <3> HIDE DEF t, m
      <3> QED
        BY <3>1, <3>2
    <2> QED
      BY <2>2, <2>3
  <1>6. \A i \in 1 .. n : /\ DotsAfter(u, i) \in Nat /\ NamesAfter(u, i) \in Nat
                          /\ DotsAfter(v, i) = DotsAfter(u, i) + 1 /\ NamesAfter(v, i) = NamesAfter(u, i)
                          /\ i \in Kept(v) <=> i \in Kept(u) /\ DotsAfter(v, i) <= NamesAfter(v, i)
    <2> SUFFICES ASSUME NEW i \in 1 .. n
                 PROVE  /\ DotsAfter(u, i) \in Nat /\ NamesAfter(u, i) \in Nat
                        /\ DotsAfter(v, i) = DotsAfter(u, i) + 1 /\ NamesAfter(v, i) = NamesAfter(u, i)
                        /\ i \in Kept(v) <=> i \in Kept(u) /\ DotsAfter(v, i) <= NamesAfter(v, i)
      OBVIOUS
    <2>1. ~IsName(x)
      BY Kinds
    <2>2. /\ DotsAfter(u, i) \in Nat /\ NamesAfter(u, i) \in Nat
          /\ DotsAfter(v, i) = DotsAfter(u, i) + 1 /\ NamesAfter(v, i) = NamesAfter(u, i) + 0
          /\ i \in Kept(v) <=> i \in Kept(u) /\ DotsAfter(v, i) <= NamesAfter(v, i)
      BY <2>1, AfterAppend
    <2> HIDE DEF v
    <2> QED
      BY <2>2
  <1>7. n + 1 \notin Kept(v) /\ Kept(v) \subseteq 1 .. n + 1 /\ Kept(u) \subseteq 1 .. n
    <2>1. ~IsName(x)
      BY Kinds
    <2> QED
      BY <2>1, AfterLast
  <1>8. o \in Nat /\ (\A k \in 1 .. m : k \in 1 .. o <=> k # m) /\ (\A k \in 1 .. o : k \in 1 .. m /\ o - k = m - k - 1)
    <2>1. m \in Nat
      BY <1>3
    <2> HIDE DEF m
    <2> QED
      BY <2>1
  <1> HIDE DEF v, n, s, m, d, t, o
  <1>9. ASSUME NEW k \in 1 .. m
        PROVE  /\ e[k] \in 1 .. n /\ DotsAfter(v, e[k]) = DotsAfter(u, e[k]) + 1 /\ DotsAfter(u, e[k]) \in Nat
               /\ NamesAfter(v, e[k]) = DotsAfter(u, e[k]) + (m - k)
               /\ e[k] \in Kept(v) <=> k \in 1 .. o
    <2> DEFINE i == e[k]
    <2>1. i \in 1 .. n /\ NamesAfter(u, i) = DotsAfter(u, i) + (m - k) /\ i \in Kept(u)
      BY <1>3
    <2> HIDE DEF i
    <2>2. /\ DotsAfter(u, i) \in Nat /\ DotsAfter(v, i) = DotsAfter(u, i) + 1
          /\ NamesAfter(v, i) = DotsAfter(u, i) + (m - k)
          /\ i \in Kept(v) <=> DotsAfter(v, i) <= NamesAfter(v, i)
      BY <1>6, <2>1
    <2>3. DotsAfter(v, i) <= NamesAfter(v, i) <=> k # m
      BY <1>3, <2>2
    <2> QED
      BY <1>8, <2>1, <2>2, <2>3 DEF i
  <1>10. ASSUME NEW k \in 1 .. o
         PROVE  /\ d[k] \in 1 .. n + 1 /\ t[k] = v[d[k]]
                /\ NamesAfter(v, d[k]) = DotsAfter(v, d[k]) + (o - k)
    <2> DEFINE i == e[k]
    <2>1. k \in 1 .. m /\ d[k] = i /\ t[k] = s[k] /\ o - k = m - k - 1
      BY <1>4, <1>5, <1>8
    <2>2. /\ i \in 1 .. n /\ DotsAfter(v, i) = DotsAfter(u, i) + 1 /\ DotsAfter(u, i) \in Nat
          /\ NamesAfter(v, i) = DotsAfter(u, i) + (m - k) /\ s[k] = u[i]
      BY <1>3, <1>9, <2>1
    <2> HIDE DEF i
    <2>3. i \in 1 .. n + 1 /\ v[i] = u[i]
      BY <1>1, <2>2
    <2>4. NamesAfter(v, i) = DotsAfter(v, i) + (o - k)
      BY <1>3, <2>1, <2>2
    <2> QED
      BY <2>1, <2>2, <2>3, <2>4
  <1>11. {d[k] : k \in 1 .. o} = Kept(v)
    <2>1. ASSUME NEW k \in 1 .. o PROVE d[k] \in Kept(v)
      BY <1>4, <1>8, <1>9
    <2>2. ASSUME NEW i \in Kept(v) PROVE \E k \in 1 .. o : d[k] = i
      <3>1. i \in 1 .. n
        BY <1>1, <1>7
      <3>2. i \in Kept(u)
        BY <1>6, <3>1
      <3>3. PICK k \in 1 .. m : e[k] = i
        BY <1>3, <3>2
      <3>4. k \in 1 .. o
        BY <1>9, <3>3
      <3> QED
        BY <1>4, <3>3, <3>4
    <2> QED
      BY <2>1, <2>2
  <1>12. Marks(v, d)
    <2>1. d \in Seq(Nat) /\ Len(d) = Len(Parts(v))
      BY <1>2, <1>4, <1>5
    <2>2. \A k \in 1 .. Len(d) : d[k] \in 1 .. Len(v) /\ Parts(v)[k] = v[d[k]]
      BY <1>1, <1>2, <1>4, <1>10
    <2>3. \A k, l \in 1 .. Len(d) : k < l => d[k] < d[l]
      BY <1>3, <1>4, <1>8
    <2>4. {d[k] : k \in 1 .. Len(d)} = Kept(v)
      BY <1>4, <1>11
    <2>5. \A k \in 1 .. Len(d) : NamesAfter(v, d[k]) = DotsAfter(v, d[k]) + (Len(d) - k)
      BY <1>4, <1>10
    <2> QED
      BY <2>1, <2>2, <2>3, <2>4, <2>5 DEF Marks
  <1> QED
    BY <1>12 DEF v, d

\* So the loop and what is meant go together to the end.
LEMMA MarkAll ==
    ASSUME NEW u \in Seq(Segment)
    PROVE  \E e : Marks(u, e)
  <1> DEFINE n == Len(u)
             G == {i \in Nat : i <= n => \E e : Marks(SubSeq(u, 1, i), e)}
  <1>1. n \in Nat
    BY LenProperties
  <1>2. 0 \in G
    <2>1. SubSeq(u, 1, 0) = <<>>
      BY SubSeqEmpty
    <2>2. Marks(<<>>, <<>>)
      <3>1. <<>> \in Seq(Nat) /\ Len(<<>>) = 0 /\ Parts(<<>>) = <<>> /\ 1 .. 0 = {}
        BY PartsType
      <3> DEFINE none == <<>>
      <3>2. none \in Seq(Nat) /\ Len(none) = 0 /\ Parts(none) = none /\ DOMAIN none = {}
        BY <3>1
      <3> HIDE DEF none
      <3>3. Kept(none) = {}
        BY <3>2 DEF Kept
      <3>4. Marks(none, none)
        BY <3>1, <3>2, <3>3 DEF Marks
      <3> QED
        BY <3>4 DEF none
    <2> QED
      BY <2>1, <2>2
  <1>3. ASSUME NEW i \in Nat, i \in G PROVE i + 1 \in G
    <2> SUFFICES ASSUME i + 1 <= n PROVE \E e : Marks(SubSeq(u, 1, i + 1), e)
      OBVIOUS
    <2> DEFINE q == SubSeq(u, 1, i)
               x == u[i + 1]
    <2>1. SubSeq(u, 1, i + 1) = Append(q, x) /\ q \in Seq(Segment) /\ x \in Segment
      BY UpTo
    <2>2. i <= n
      BY <1>1
    <2>3. PICK e : Marks(q, e)
      BY <1>3, <2>2
    <2> HIDE DEF q, x
    <2>4. \E d : Marks(Append(q, x), d)
      <3>1. CASE IsName(x)
        BY <2>1, <2>3, <3>1, MarkName
      <3>2. CASE IsDots(x)
        BY <2>1, <2>3, <3>2, MarkDots
      <3>3. CASE ~IsName(x) /\ ~IsDots(x)
        BY <2>1, <2>3, <3>3, MarkSkip
      <3> QED
        BY <3>1, <3>2, <3>3
    <2> QED
      BY <2>1, <2>4
  <1>4. n \in G
    <2> HIDE DEF G, n
    <2> QED
      BY <1>1, <1>2, <1>3, Inductive
  <1>5. \E e : Marks(SubSeq(u, 1, n), e)
    BY <1>1, <1>4
  <1>6. SubSeq(u, 1, n) = u
    BY SubSeqFull
  <1> QED
    BY <1>5, <1>6


\* A rising sequence has as many elements as places.
LEMMA Ranked ==
    ASSUME NEW e \in Seq(Nat), \A k, l \in 1 .. Len(e) : k < l => e[k] < e[l], NEW m \in 0 .. Len(e)
    PROVE  Cardinality({e[k] : k \in 1 .. m}) = m
  <1> DEFINE S == {e[k] : k \in 1 .. m}
             f == [k \in 1 .. m |-> e[k]]
  <1>1. m \in Nat /\ \A k \in 1 .. m : k \in 1 .. Len(e)
    BY LenProperties
  <1>2. \A k \in 1 .. m : e[k] \in Nat
    BY <1>1, ElementOfSeq
  <1>3. \A k, l \in 1 .. m : e[k] = e[l] => k = l
    <2> SUFFICES ASSUME NEW k \in 1 .. m, NEW l \in 1 .. m, e[k] = e[l] PROVE k = l
      OBVIOUS
    <2>1. ~(k < l) /\ ~(l < k)
      <3>1. k \in 1 .. Len(e) /\ l \in 1 .. Len(e) /\ e[k] \in Nat /\ e[l] \in Nat
        BY <1>1, <1>2
      <3> QED
        BY <3>1
    <2> QED
      BY <1>1, <2>1
  <1>4. f \in Bijection(1 .. m, S)
    <2>1. f \in [1 .. m -> S] /\ \A k \in 1 .. m : f[k] = e[k]
      OBVIOUS
    <2>2. \A t \in S : \E k \in 1 .. m : f[k] = t
      OBVIOUS
    <2> HIDE DEF f, S
    <2>3. f \in Injection(1 .. m, S)
      BY <1>3, <2>1 DEF Injection, IsInjective
    <2>4. f \in Surjection(1 .. m, S)
      BY <2>1, <2>2 DEF Surjection
    <2> QED
      BY <2>3, <2>4 DEF Bijection
  <1> HIDE DEF S, f
  <1>5. ExistsBijection(1 .. m, S)
    BY <1>4 DEF ExistsBijection
  <1> QED
    BY <1>1, <1>5, FS_CountingElements DEF S

\* The parts that are kept, in their order, are those the loop keeps.
Ordered(u) ==
    [k \in 1 .. Cardinality(Kept(u)) |->
        u[CHOOSE i \in Kept(u) : Cardinality({j \in Kept(u) : j <= i}) = k]]

\* So they are the parts of the path.
LEMMA PartsKept ==
    ASSUME NEW u \in Seq(Segment)
    PROVE  Ordered(u) = Parts(u)
  <1> DEFINE s == Parts(u)
             m == Len(s)
             K == Kept(u)
             Rank(i) == Cardinality({j \in K : j <= i})
  <1>1. PICK e : Marks(u, e)
    BY MarkAll
  <1>2. /\ e \in Seq(Nat) /\ Len(e) = m /\ m \in Nat
        /\ \A k \in 1 .. m : e[k] \in 1 .. Len(u) /\ s[k] = u[e[k]]
        /\ \A k, l \in 1 .. m : k < l => e[k] < e[l]
        /\ {e[k] : k \in 1 .. m} = K
    BY <1>1, LenProperties DEF Marks
  <1> HIDE DEF m, K
  <1>3. Cardinality(K) = m
    <2>1. m \in 0 .. Len(e)
      BY <1>2
    <2> QED
      BY <1>2, <2>1, Ranked
  <1>4. ASSUME NEW k \in 1 .. m PROVE Rank(e[k]) = k /\ e[k] \in K
    <2>1. {j \in K : j <= e[k]} = {e[l] : l \in 1 .. k}
      <3>1. ASSUME NEW l \in 1 .. m PROVE e[l] <= e[k] <=> l \in 1 .. k
        <4>1. e[l] \in Nat /\ e[k] \in Nat
          BY <1>2, ElementOfSeq
        <4>2. CASE l < k
          BY <1>2, <4>1, <4>2
        <4>3. CASE l = k
          BY <1>2, <4>1, <4>3
        <4>4. CASE k < l
          BY <1>2, <4>1, <4>4
        <4> QED
          BY <1>2, <4>2, <4>3, <4>4
      <3>2. \A l \in 1 .. k : l \in 1 .. m
        BY <1>2
      <3> QED
        BY <1>2, <3>1, <3>2
    <2>2. k \in 0 .. Len(e)
      BY <1>2
    <2>3. Cardinality({e[l] : l \in 1 .. k}) = k
      BY <1>2, <2>2, Ranked
    <2> QED
      BY <1>2, <2>1, <2>3
  <1> HIDE DEF Rank
  <1>5. ASSUME NEW k \in 1 .. m PROVE (CHOOSE i \in K : Rank(i) = k) = e[k]
    <2>1. \A i \in K : Rank(i) = k => i = e[k]
      <3> SUFFICES ASSUME NEW i \in K, Rank(i) = k PROVE i = e[k]
        OBVIOUS
      <3>1. PICK l \in 1 .. m : e[l] = i
        BY <1>2
      <3> QED
        BY <1>4, <3>1
    <2>2. Rank(e[k]) = k /\ e[k] \in K
      BY <1>4
    <2> QED
      BY <2>1, <2>2
  <1>6. Ordered(u) = [k \in 1 .. m |-> u[CHOOSE i \in K : Rank(i) = k]]
    BY <1>3 DEF Ordered, K, Rank
  <1>7. [k \in 1 .. m |-> u[CHOOSE i \in K : Rank(i) = k]] = [k \in 1 .. m |-> s[k]]
    BY <1>2, <1>5
  <1>8. s = [k \in 1 .. m |-> s[k]]
    <2>1. s \in Seq(Named)
      BY PartsType
    <2> HIDE DEF s
    <2>2. s \in [1 .. Len(s) -> Named]
      BY <2>1, LenProperties
    <2> QED
      BY <2>2 DEF m
  <1> QED
    BY <1>6, <1>7, <1>8

\* cleanPath makes of a path what is meant by it.
LEMMA CleanMeant ==
    ASSUME NEW p \in Seq(Segment)
    PROVE  cleanPath(p) = Meant(p)
  <1> DEFINE u == unescape(p)
  <1>1. u \in Seq(Segment)
    BY Unescaped, Wider
  <1>2. Ordered(u) = Parts(u)
    <2> HIDE DEF u
    <2> QED
      BY <1>1, PartsKept
  <1>3. Meant(p) = IF Ordered(u) = <<>> THEN <<"">> ELSE IF Last(u) = "" THEN Append(Ordered(u), "") ELSE Ordered(u)
    BY DEF Meant, Ordered, Kept, IsName
  <1>4. CASE p = <<>>
    <2>1. u = <<>>
      <3>1. <<>> \in Seq(Fixed)
        OBVIOUS
      <3> QED
        BY <1>4, <3>1, UnescapeFixed
    <2>2. Ordered(u) = <<>>
      BY <1>2, <2>1, PartsType
    <2> QED
      BY <1>3, <1>4, <2>2 DEF cleanPath
  <1>5. CASE p # <<>>
    <2>1. cleanPath(p) = Closed(Parts(u), Last(u) = "")
      BY <1>5 DEF cleanPath
    <2> DEFINE slash == (Last(u) = "")
    <2>2. Meant(p) = IF Parts(u) = <<>> THEN <<"">> ELSE IF slash THEN Append(Parts(u), "") ELSE Parts(u)
      BY <1>2, <1>3
    <2>3. cleanPath(p) = Closed(Parts(u), slash)
      BY <2>1
    <2> HIDE DEF u, slash
    <2> QED
      BY <2>2, <2>3 DEF Closed
  <1> QED
    BY <1>4, <1>5

\* Rows are stored under the path that is meant by what a seed or a link says:
\* taking escapes off, leaving out what says nothing and taking names back with
\* "..", in one pass with a stack, comes to matching them as brackets, whatever
\* the path (mapper cleanPath), and resolving a link first changes nothing, as
\* long as it does not end in dots and takes back only what is neither empty nor
\* escaped (normalizeURL, main.go:566).
THEOREM MeantStored == Spec => []PathsMeant
  <1>1. StoredInv => PathsMeant
    <2> SUFFICES ASSUME StoredInv, NEW r \in rows, r.linked => ReadAlike(r.said)
                 PROVE  r.url.path = Meant(r.said)
      BY DEF PathsMeant
    <2>1. RowIn(mode, r)
      BY DEF StoredInv
    <2>2. r.said \in Seq(Segment) /\ r.url.path = cleanPath(r.said)
      BY <2>1 DEF RowIn
    <2> QED
      BY <2>2, CleanMeant
  <1> QED
    BY <1>1, StoredInvariant, PTL
=============================================================================
