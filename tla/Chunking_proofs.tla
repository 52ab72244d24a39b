--------------------------- MODULE Chunking_proofs ---------------------------
(***************************************************************************)
(* Theorems about Chunking, for all documents, budgets, overlaps and       *)
(* limits.                                                                 *)
(***************************************************************************)
EXTENDS Chunking, SequenceTheorems, TLAPS

(***************************************************************************)
(* Arithmetic.                                                             *)
(***************************************************************************)

LEMMA DivMod ==
    ASSUME NEW a \in Nat, NEW b \in Nat \ {0}
    PROVE  /\ a \div b \in Nat /\ a % b \in Nat /\ a % b < b
           /\ a = b * (a \div b) + (a % b)
  OBVIOUS

LEMMA Product ==
    ASSUME NEW a \in Nat, NEW b \in Nat
    PROVE a * b \in Nat
  OBVIOUS

LEMMA ProductMonotone ==
    ASSUME NEW a \in Int, NEW b \in Int, NEW c \in Nat, a <= b
    PROVE  a * c <= b * c
  <1>1. (b - a) \in Nat
    OBVIOUS
  <1>2. (b - a) * c \in Nat
    BY <1>1, Product
  <1>3. (b - a) * c = b * c - a * c
    OBVIOUS
  <1>4. a * c \in Int /\ b * c \in Int
    OBVIOUS
  <1> QED
    BY <1>2, <1>3, <1>4

LEMMA Distribute ==
    ASSUME NEW a \in Int, NEW c \in Int
    PROVE  (a + 1) * c = a * c + c
  OBVIOUS

LEMMA Ceiling ==
    ASSUME NEW a \in Nat, NEW b \in Nat \ {0}
    PROVE  LET n == (a + b - 1) \div b
           IN  n \in Nat /\ n * b >= a /\ (n - 1) * b < a
  <1> DEFINE n == (a + b - 1) \div b
             c == a + b - 1
  <1>1. c \in Nat
    OBVIOUS
  <1> HIDE DEF c
  <1>2. /\ c \div b \in Nat /\ c % b \in Nat /\ c % b < b
        /\ c = b * (c \div b) + (c % b)
    BY <1>1, DivMod
  <1>3. n \in Nat /\ n = c \div b
    BY <1>2 DEF c
  <1> HIDE DEF n
  <1>4. n * b = b * n /\ (n - 1) * b = n * b - b /\ n * b \in Int
    BY <1>3
  <1>5. n * b >= a /\ (n - 1) * b < a
    BY <1>2, <1>3, <1>4 DEF c
  <1> QED
    BY <1>3, <1>5 DEF n

(***************************************************************************)
(* Documents and pieces.                                                    *)
(***************************************************************************)

LEMMA StepType == Step \in Nat \ {0} /\ Step <= ChunkTokens /\ ChunkTokens \in Nat \ {0}
  BY ChunkingAssumption DEF Step, Most

\* A document begins at 0, and its blocks are not empty.
LEMMA Documents ==
    ASSUME ends \in Document
    PROVE  /\ Len(ends) \in Nat /\ Blocks \in Nat /\ Len(ends) = Blocks + 1
           /\ ends[1] = 0
           /\ \A i \in 1 .. Blocks + 1 : ends[i] \in Nat
           /\ \A i, j \in 1 .. Blocks + 1 : i < j => ends[i] < ends[j]
           /\ \A i, j \in 1 .. Blocks + 1 : i <= j => ends[i] <= ends[j]
  <1>1. /\ ends \in Seq(Nat) /\ Len(ends) > 0 /\ ends[1] = 0
        /\ \A i, j \in 1 .. Len(ends) : i < j => ends[i] < ends[j]
    BY ChunkingAssumption
  <1>2. Len(ends) \in Nat /\ \A i \in 1 .. Len(ends) : ends[i] \in Nat
    BY <1>1
  <1>3. Blocks \in Nat /\ Len(ends) = Blocks + 1
    BY <1>1, <1>2 DEF Blocks
  <1>4. ASSUME NEW i \in 1 .. Blocks + 1, NEW j \in 1 .. Blocks + 1, i <= j PROVE ends[i] <= ends[j]
    <2>1. CASE i = j
      BY <1>2, <1>3, <2>1
    <2>2. CASE i # j
      <3>1. i < j
        BY <1>3, <1>4, <2>2
      <3>2. ends[i] < ends[j] /\ ends[i] \in Nat /\ ends[j] \in Nat
        BY <1>1, <1>2, <1>3, <3>1
      <3> QED
        BY <3>2
    <2> QED
      BY <2>1, <2>2
  <1> QED
    BY <1>1, <1>2, <1>3, <1>4

LEMMA Sizes ==
    ASSUME ends \in Document, NEW i \in 1 .. Blocks
    PROVE  /\ i \in 1 .. Blocks + 1 /\ i + 1 \in 1 .. Blocks + 1
           /\ ends[i] \in Nat /\ ends[i + 1] \in Nat /\ ends[i] < ends[i + 1]
           /\ Size(i) \in Nat \ {0} /\ ends[i + 1] = ends[i] + Size(i)
  <1>1. i \in 1 .. Blocks + 1 /\ i + 1 \in 1 .. Blocks + 1 /\ i < i + 1
    BY Documents
  <1>2. ends[i] \in Nat /\ ends[i + 1] \in Nat /\ ends[i] < ends[i + 1]
    BY <1>1, Documents
  <1> QED
    BY <1>1, <1>2 DEF Size

\* The pieces of a large block: where they begin and end.
LEMMA PiecesOf ==
    ASSUME ends \in Document, NEW b \in 1 .. Blocks
    PROVE  LET n == (Size(b) + Step - 1) \div Step
           IN  /\ n \in Nat \ {0} /\ Len(Pieces(b)) = n /\ Pieces(b) \in Seq(Window)
               /\ \A k \in 1 .. n :
                     /\ Pieces(b)[k] \in Window /\ Pieces(b)[k].large
                     /\ Pieces(b)[k].from = ends[b] + (k - 1) * Step
                     /\ Pieces(b)[k].to = Least(Pieces(b)[k].from + ChunkTokens, ends[b + 1])
                     /\ Pieces(b)[k].from < ends[b + 1]
                     /\ Pieces(b)[k].from >= ends[b]
               /\ \A k \in 1 .. n - 1 : Pieces(b)[k + 1].from = Pieces(b)[k].from + Step
               /\ Pieces(b)[1].from = ends[b]
               /\ Pieces(b)[n].from + Step >= ends[b + 1] /\ Pieces(b)[n].to = ends[b + 1]
  <1> DEFINE n == (Size(b) + Step - 1) \div Step
             at(k) == ends[b] + (k - 1) * Step
             piece(k) == [from |-> at(k), to |-> Least(at(k) + ChunkTokens, ends[b + 1]), large |-> TRUE]
  <1>1. /\ Size(b) \in Nat \ {0} /\ ends[b] \in Nat /\ ends[b + 1] = ends[b] + Size(b)
        /\ Step \in Nat \ {0} /\ Step <= ChunkTokens /\ ChunkTokens \in Nat
    BY Sizes, StepType
  <1>2. n \in Nat /\ n * Step >= Size(b) /\ (n - 1) * Step < Size(b)
    BY <1>1, Ceiling
  <1>3. Pieces(b) = [k \in 1 .. n |-> piece(k)]
    BY DEF Pieces
  <1> HIDE DEF n
  <1>4. n # 0
    BY <1>1, <1>2
  <1>5. ASSUME NEW k \in 1 .. n
        PROVE  /\ (k - 1) * Step \in Nat /\ (k - 1) * Step < Size(b)
    <2>1. k - 1 \in Nat /\ k - 1 <= n - 1 /\ n - 1 \in Int
      BY <1>2
    <2>2. (k - 1) * Step <= (n - 1) * Step
      BY <1>1, <2>1, ProductMonotone
    <2>3. (k - 1) * Step \in Nat /\ (n - 1) * Step \in Int
      BY <1>1, <1>2, <2>1, Product
    <2> QED
      BY <1>1, <1>2, <2>2, <2>3
  <1>6. ASSUME NEW k \in 1 .. n
        PROVE  /\ at(k) \in Nat /\ at(k) < ends[b + 1] /\ at(k) >= ends[b]
               /\ Least(at(k) + ChunkTokens, ends[b + 1]) \in Nat
               /\ piece(k) \in Window
    <2>1. /\ at(k) \in Nat /\ at(k) < ends[b + 1] /\ at(k) >= ends[b]
      BY <1>1, <1>5
    <2>2. Least(at(k) + ChunkTokens, ends[b + 1]) \in Nat
      BY <1>1, <2>1 DEF Least
    <2> HIDE DEF at
    <2> QED
      BY <2>1, <2>2 DEF Window
  <1>7. \A k \in 1 .. n - 1 : at(k + 1) = at(k) + Step
    <2> TAKE k \in 1 .. n - 1
    <2>1. k - 1 \in Int /\ (k - 1) + 1 = k
      BY <1>2
    <2>2. k * Step = (k - 1) * Step + Step
      BY <1>1, <2>1, Distribute
    <2>3. (k - 1) * Step \in Int /\ k * Step \in Int /\ (k + 1) - 1 = k
      BY <1>1, <2>1
    <2> QED
      BY <1>1, <2>2, <2>3
  <1>8. at(1) = ends[b]
    BY <1>1
  <1>9. at(n) + Step >= ends[b + 1]
    <2>1. n * Step = (n - 1) * Step + Step
      BY <1>1, <1>2
    <2> QED
      BY <1>1, <1>2, <2>1
  <1>10. Least(at(n) + ChunkTokens, ends[b + 1]) = ends[b + 1]
    <2>1. n \in 1 .. n
      BY <1>2, <1>4
    <2>2. at(n) \in Nat
      BY <1>6, <2>1
    <2> QED
      BY <1>1, <1>9, <2>2 DEF Least
  <1> HIDE DEF at
  <1>11. Pieces(b) \in Seq(Window) /\ Len(Pieces(b)) = n /\ \A k \in 1 .. n : Pieces(b)[k] = piece(k)
    BY <1>2, <1>3, <1>6
  <1>12. 1 \in 1 .. n /\ n \in 1 .. n /\ \A k \in 1 .. n - 1 : k \in 1 .. n /\ k + 1 \in 1 .. n
    BY <1>2, <1>4
  <1>13. ASSUME NEW k \in 1 .. n
         PROVE  /\ Pieces(b)[k] \in Window /\ Pieces(b)[k].large /\ Pieces(b)[k].from = at(k)
                /\ Pieces(b)[k].to = Least(at(k) + ChunkTokens, ends[b + 1])
                /\ at(k) < ends[b + 1] /\ at(k) >= ends[b]
    BY <1>6, <1>11
  <1>14. \A k \in 1 .. n : at(k) = ends[b] + (k - 1) * Step
    BY DEF at
  <1>15. \A k \in 1 .. n - 1 : Pieces(b)[k + 1].from = Pieces(b)[k].from + Step
    BY <1>7, <1>12, <1>13
  <1>16. \A k \in 1 .. n :
            /\ Pieces(b)[k] \in Window /\ Pieces(b)[k].large
            /\ Pieces(b)[k].from = ends[b] + (k - 1) * Step
            /\ Pieces(b)[k].to = Least(Pieces(b)[k].from + ChunkTokens, ends[b + 1])
            /\ Pieces(b)[k].from < ends[b + 1]
            /\ Pieces(b)[k].from >= ends[b]
    BY <1>13, <1>14
  <1>17. /\ Pieces(b)[1].from = ends[b]
         /\ Pieces(b)[n].from + Step >= ends[b + 1] /\ Pieces(b)[n].to = ends[b + 1]
    BY <1>8, <1>9, <1>10, <1>12, <1>13
  <1> QED
    BY <1>2, <1>4, <1>11, <1>15, <1>16, <1>17 DEF n

\* What the selection and the grouping return.
LEMMA RoundType ==
    ASSUME NEW a \in Nat, NEW b \in Nat \ {0}
    PROVE  Round(a, b) \in Nat
  BY DivMod DEF Round

LEMMA RepresentativesType ==
    ASSUME NEW n \in Nat \ {0}, NEW k \in Nat
    PROVE  /\ Representatives(n, k) \in Seq(Nat \ {0}) /\ Len(Representatives(n, k)) = k
           /\ k # 1 => \A slot \in 1 .. k : Representatives(n, k)[slot] = Spread(n, k, slot)
  <1>1. CASE k = 1
    BY <1>1 DEF Representatives
  <1>2. CASE k # 1
    <2>1. ASSUME NEW slot \in 1 .. k PROVE Spread(n, k, slot) \in Nat \ {0}
      <3> DEFINE a == (slot - 1) * (n - 1)
                 b == k - 1
      <3>1. slot - 1 \in Nat /\ n - 1 \in Nat /\ b \in Nat \ {0}
        BY <1>2
      <3>2. a \in Nat
        BY <3>1, Product
      <3> HIDE DEF a, b
      <3>3. Round(a, b) \in Nat
        BY <3>1, <3>2, RoundType
      <3> QED
        BY <3>3 DEF Spread, a, b
    <2>2. Representatives(n, k) = [slot \in 1 .. k |-> Spread(n, k, slot)]
      BY <1>2 DEF Representatives
    <2> QED
      BY <2>1, <2>2
  <1> QED
    BY <1>1, <1>2

Group == [from : Nat, to : Nat]

LEMMA GroupsType ==
    ASSUME NEW n \in Nat
    PROVE  /\ Groups(n) \in Seq(Group) /\ Len(Groups(n)) = (n + GroupSize - 1) \div GroupSize
           /\ \A g \in 1 .. Len(Groups(n)) :
                 /\ Groups(n)[g].from = (g - 1) * GroupSize + 1
                 /\ Groups(n)[g].to = Least(g * GroupSize, n)
  <1> DEFINE m == (n + GroupSize - 1) \div GroupSize
             group(g) == [from |-> (g - 1) * GroupSize + 1, to |-> Least(g * GroupSize, n)]
  <1>1. GroupSize \in Nat \ {0}
    BY ChunkingAssumption
  <1>2. m \in Nat
    BY <1>1, Ceiling
  <1>3. Groups(n) = [g \in 1 .. m |-> group(g)]
    BY DEF Groups
  <1>4. ASSUME NEW g \in 1 .. m PROVE group(g) \in Group
    <2>1. g - 1 \in Nat /\ g \in Nat
      OBVIOUS
    <2>2. (g - 1) * GroupSize \in Nat /\ g * GroupSize \in Nat
      BY <1>1, <2>1, Product
    <2>3. Least(g * GroupSize, n) \in Nat
      BY <2>2 DEF Least
    <2>4. (g - 1) * GroupSize + 1 \in Nat
      BY <2>2
    <2> QED
      BY <2>3, <2>4 DEF Group
  <1> HIDE DEF m
  <1>5. /\ Groups(n) \in Seq(Group) /\ Len(Groups(n)) = m
        /\ \A g \in 1 .. m : Groups(n)[g] = group(g)
    <2> HIDE DEF group
    <2> QED
      BY <1>2, <1>3, <1>4
  <1>6. \A g \in 1 .. m : /\ Groups(n)[g].from = (g - 1) * GroupSize + 1
                           /\ Groups(n)[g].to = Least(g * GroupSize, n)
    BY <1>5
  <1>7. m = (n + GroupSize - 1) \div GroupSize
    BY DEF m
  <1> QED
    BY <1>5, <1>6, <1>7

(***************************************************************************)
(* Windows.                                                                *)
(***************************************************************************)

\* A piece of the large block b of document d, and a window of small blocks,
\* from a to the one before c, which may exceed the budget by what it repeats.
Extent(d, i) == d[i + 1] - d[i]
Piece(d, w, b) ==
    /\ w.large /\ Extent(d, b) > ChunkTokens
    /\ d[b] <= w.from /\ w.from < d[b + 1]
    /\ w.to = Least(w.from + ChunkTokens, d[b + 1])
Run(d, w, a, c) ==
    /\ ~w.large /\ a < c /\ w.from = d[a] /\ w.to = d[c]
    /\ \A i \in a .. c - 1 : Extent(d, i) <= ChunkTokens
    /\ w.to - w.from <= ChunkTokens + Most(OverlapTokens, Extent(d, a))
Shaped(d, w) ==
    \/ \E b \in 1 .. Len(d) - 1 : Piece(d, w, b)
    \/ \E a, c \in 1 .. Len(d) : Run(d, w, a, c)

\* What comes after a piece is the next piece, a step further, or reaches beyond
\* the block.
Follows(d, v, w) ==
    /\ v.from <= w.from /\ v.to <= w.to /\ w.from <= v.to
    /\ \A b \in 1 .. Len(d) - 1 :
          Piece(d, v, b) => \/ Piece(d, w, b) /\ w.from = v.from + Step
                            \/ w.to > d[b + 1]

\* Each window has its shape and follows the one before, the first from the beginning.
InARow(d, s) ==
    /\ \A k \in 1 .. Len(s) : Shaped(d, s[k])
    /\ \A k \in 1 .. Len(s) - 1 : Follows(d, s[k], s[k + 1])
FromStart(s) == s # <<>> => s[1].from = 0

LEMMA Offsets ==
    ASSUME NEW d \in Document
    PROVE  /\ Len(d) \in Nat \ {0} /\ d[1] = 0
           /\ \A i \in 1 .. Len(d) : d[i] \in Nat
           /\ \A i, j \in 1 .. Len(d) : i < j => d[i] < d[j]
  <1>1. /\ d \in Seq(Nat) /\ Len(d) > 0 /\ d[1] = 0
        /\ \A i, j \in 1 .. Len(d) : i < j => d[i] < d[j]
    BY ChunkingAssumption
  <1> QED
    BY <1>1

\* Windows are not empty.
LEMMA ShapedFilled ==
    ASSUME NEW d \in Document, NEW w \in Window, Shaped(d, w)
    PROVE  w.from \in Nat /\ w.to \in Nat /\ w.from < w.to
  <1>1. w.from \in Nat /\ w.to \in Nat
    BY DEF Window
  <1>2. ASSUME NEW b \in 1 .. Len(d) - 1, Piece(d, w, b) PROVE w.from < w.to
    <2>1. d[b + 1] \in Nat /\ ChunkTokens \in Nat \ {0}
      BY Offsets, StepType
    <2> QED
      BY <1>1, <1>2, <2>1 DEF Piece, Least
  <1>3. ASSUME NEW a \in 1 .. Len(d), NEW c \in 1 .. Len(d), Run(d, w, a, c) PROVE w.from < w.to
    BY <1>1, <1>3, Offsets DEF Run
  <1> QED
    BY <1>1, <1>2, <1>3 DEF Shaped

\* A piece belongs to one block.
LEMMA SameBlock ==
    ASSUME NEW d \in Document, NEW x \in Nat, NEW b \in 1 .. Len(d) - 1, NEW e \in 1 .. Len(d) - 1,
           d[b] <= x, x < d[b + 1], d[e] <= x, x < d[e + 1]
    PROVE  b = e
  <1>1. /\ b \in 1 .. Len(d) /\ b + 1 \in 1 .. Len(d) /\ e \in 1 .. Len(d) /\ e + 1 \in 1 .. Len(d)
    BY Offsets
  <1>2. d[b] \in Nat /\ d[b + 1] \in Nat /\ d[e] \in Nat /\ d[e + 1] \in Nat
    BY <1>1, Offsets
  <1>3. CASE b < e
    <2>1. d[b + 1] <= d[e]
      <3>1. b + 1 = e \/ b + 1 < e
        BY <1>1, <1>3
      <3> QED
        BY <1>1, <1>2, <3>1, Offsets
    <2> QED
      BY <1>2, <2>1
  <1>4. CASE e < b
    <2>1. d[e + 1] <= d[b]
      <3>1. e + 1 = b \/ e + 1 < b
        BY <1>1, <1>4
      <3> QED
        BY <1>1, <1>2, <3>1, Offsets
    <2> QED
      BY <1>2, <2>1
  <1> QED
    BY <1>3, <1>4

LEMMA AppendInARow ==
    ASSUME NEW d, NEW s \in Seq(Window), NEW w \in Window,
           InARow(d, s), Shaped(d, w), s # <<>> => Follows(d, s[Len(s)], w)
    PROVE  InARow(d, Append(s, w))
  <1> DEFINE t == Append(s, w)
  <1>1. /\ Len(s) \in Nat /\ Len(t) = Len(s) + 1 /\ t[Len(s) + 1] = w
        /\ \A k \in 1 .. Len(s) : t[k] = s[k]
    BY AppendProperties
  <1> HIDE DEF t
  <1>2. \A k \in 1 .. Len(t) : Shaped(d, t[k])
    <2> TAKE k \in 1 .. Len(t)
    <2>1. k \in 1 .. Len(s) \/ k = Len(s) + 1
      BY <1>1
    <2> QED
      BY <1>1, <2>1 DEF InARow
  <1>3. \A k \in 1 .. Len(t) - 1 : Follows(d, t[k], t[k + 1])
    <2> TAKE k \in 1 .. Len(t) - 1
    <2>1. k \in 1 .. Len(s)
      BY <1>1
    <2>2. CASE k = Len(s)
      <3>1. s # <<>> /\ t[k] = s[Len(s)] /\ t[k + 1] = w
        BY <1>1, <2>1, <2>2
      <3> QED
        BY <3>1
    <2>3. CASE k # Len(s)
      <3>1. k \in 1 .. Len(s) - 1 /\ k + 1 \in 1 .. Len(s)
        BY <1>1, <2>1, <2>3
      <3> QED
        BY <1>1, <2>1, <3>1 DEF InARow
    <2> QED
      BY <2>2, <2>3
  <1> QED
    BY <1>2, <1>3 DEF InARow, t

LEMMA ConcatInARow ==
    ASSUME NEW d, NEW s \in Seq(Window), NEW t \in Seq(Window),
           InARow(d, s), InARow(d, t), t # <<>>, s # <<>> => Follows(d, s[Len(s)], t[1])
    PROVE  InARow(d, s \o t)
  <1> DEFINE u == s \o t
  <1>1. /\ Len(s) \in Nat /\ Len(t) \in Nat /\ Len(t) # 0 /\ Len(u) = Len(s) + Len(t)
        /\ \A k \in 1 .. Len(s) + Len(t) : u[k] = IF k <= Len(s) THEN s[k] ELSE t[k - Len(s)]
    BY ConcatProperties, EmptySeq
  <1> HIDE DEF u
  <1>2. \A k \in 1 .. Len(u) : Shaped(d, u[k])
    <2> TAKE k \in 1 .. Len(u)
    <2>1. CASE k <= Len(s)
      BY <1>1, <2>1 DEF InARow
    <2>2. CASE k > Len(s)
      <3>1. k - Len(s) \in 1 .. Len(t) /\ u[k] = t[k - Len(s)]
        BY <1>1, <2>2
      <3> QED
        BY <3>1 DEF InARow
    <2> QED
      BY <1>1, <2>1, <2>2
  <1>3. \A k \in 1 .. Len(u) - 1 : Follows(d, u[k], u[k + 1])
    <2> TAKE k \in 1 .. Len(u) - 1
    <2>1. CASE k < Len(s)
      <3>1. k \in 1 .. Len(s) - 1 /\ u[k] = s[k] /\ u[k + 1] = s[k + 1]
        BY <1>1, <2>1
      <3> QED
        BY <3>1 DEF InARow
    <2>2. CASE k = Len(s)
      <3>1. u[k] = s[Len(s)] /\ u[k + 1] = t[1] /\ s # <<>>
        BY <1>1, <2>2
      <3> QED
        BY <3>1
    <2>3. CASE k > Len(s)
      <3> DEFINE j == k - Len(s)
      <3>1. j \in 1 .. Len(t) - 1 /\ u[k] = t[j] /\ u[k + 1] = t[j + 1]
        <4>1. /\ k \in 1 .. Len(u) /\ k + 1 \in 1 .. Len(u) /\ (k + 1) - Len(s) = j + 1
              /\ ~(k <= Len(s)) /\ ~(k + 1 <= Len(s)) /\ j \in 1 .. Len(t) - 1
          BY <1>1, <2>3
        <4> QED
          BY <1>1, <4>1
      <3> HIDE DEF j
      <3> QED
        BY <3>1 DEF InARow
    <2> QED
      BY <1>1, <2>1, <2>2, <2>3
  <1> QED
    BY <1>2, <1>3 DEF InARow, u

\* The pieces of a large block are in a row, from its beginning to its end.
LEMMA PiecesInARow ==
    ASSUME ends \in Document, NEW b \in 1 .. Blocks, Size(b) > ChunkTokens
    PROVE  LET t == Pieces(b)
           IN  /\ t \in Seq(Window) /\ t # <<>> /\ InARow(ends, t)
               /\ t[1].from = ends[b] /\ t[1].to <= ends[b + 1] /\ t[1].to > ends[b]
               /\ t[Len(t)].to = ends[b + 1] /\ t[Len(t)].from <= ends[b + 1]
               /\ t[Len(t)].from >= ends[b]
               /\ \A k \in 1 .. Len(t) : Piece(ends, t[k], b)
  <1> DEFINE t == Pieces(b)
             n == (Size(b) + Step - 1) \div Step
  <1>1. /\ n \in Nat \ {0} /\ Len(t) = n /\ t \in Seq(Window)
        /\ \A k \in 1 .. n :
              /\ t[k] \in Window /\ t[k].large
              /\ t[k].to = Least(t[k].from + ChunkTokens, ends[b + 1])
              /\ t[k].from < ends[b + 1]
              /\ t[k].from >= ends[b]
        /\ \A k \in 1 .. n - 1 : t[k + 1].from = t[k].from + Step
        /\ t[1].from = ends[b]
        /\ t[n].from + Step >= ends[b + 1] /\ t[n].to = ends[b + 1]
    BY PiecesOf
  <1> HIDE DEF t, n
  <1>2. /\ ends[b] \in Nat /\ ends[b + 1] \in Nat /\ ends[b] < ends[b + 1]
        /\ Blocks = Len(ends) - 1 /\ Step \in Nat \ {0} /\ Step <= ChunkTokens /\ ChunkTokens \in Nat
    <2>1. ends[b] \in Nat /\ ends[b + 1] \in Nat /\ ends[b] < ends[b + 1]
      BY Sizes
    <2>2. Step \in Nat \ {0} /\ Step <= ChunkTokens /\ ChunkTokens \in Nat
      BY StepType
    <2> QED
      BY <2>1, <2>2 DEF Blocks
  <1>3. \A k \in 1 .. n : t[k].from \in Nat /\ t[k].to \in Nat
    BY <1>1 DEF Window
  <1>4. \A k \in 1 .. n : Piece(ends, t[k], b)
    BY <1>1 DEF Piece, Extent, Size
  <1>5. \A k \in 1 .. n : Shaped(ends, t[k])
    BY <1>2, <1>4 DEF Shaped
  <1>6. ASSUME NEW k \in 1 .. n - 1 PROVE Follows(ends, t[k], t[k + 1])
    <2>1. k \in 1 .. n /\ k + 1 \in 1 .. n
      BY <1>1
    <2>2. /\ t[k].from <= t[k + 1].from /\ t[k].to <= t[k + 1].to /\ t[k + 1].from <= t[k].to
      <3> DEFINE x == t[k].from
                 y == t[k + 1].from
      <3>1. /\ x \in Nat /\ y \in Nat /\ y = x + Step /\ y < ends[b + 1]
            /\ t[k].to = Least(x + ChunkTokens, ends[b + 1])
            /\ t[k + 1].to = Least(y + ChunkTokens, ends[b + 1])
        BY <1>1, <1>3, <2>1
      <3> HIDE DEF x, y
      <3>2. /\ x <= y /\ y <= Least(x + ChunkTokens, ends[b + 1])
            /\ Least(x + ChunkTokens, ends[b + 1]) <= Least(y + ChunkTokens, ends[b + 1])
        BY SMTT(30), <1>2, <3>1 DEF Least
      <3> QED
        BY <3>1, <3>2 DEF x, y
    <2>3. ASSUME NEW e \in 1 .. Len(ends) - 1, Piece(ends, t[k], e)
          PROVE  e = b
      BY <1>2, <1>3, <1>4, <2>1, <2>3, SameBlock DEF Piece
    <2> QED
      BY <1>1, <1>4, <2>1, <2>2, <2>3 DEF Follows
  <1>7. 1 \in 1 .. n /\ n \in 1 .. n /\ t # <<>>
    BY <1>1
  <1>8. t[1].to <= ends[b + 1] /\ t[1].to > ends[b]
    BY <1>1, <1>2, <1>7 DEF Least
  <1>9. InARow(ends, t)
    BY <1>1, <1>5, <1>6 DEF InARow
  <1> QED
    BY <1>1, <1>2, <1>3, <1>4, <1>7, <1>8, <1>9 DEF t


\* The last window begins no later than `current` and ends in it; a last piece
\* belongs to a block before it.
Tip(d, s, f, p) ==
    /\ s = <<>> => f = 1
    /\ s # <<>> =>
          LET w == s[Len(s)]
          IN  /\ w.from <= d[f] /\ d[f] <= w.to /\ w.to <= d[p] /\ (f = p => w.to = d[p])
              /\ \A b \in 1 .. Len(d) - 1 : Piece(d, w, b) => d[b + 1] <= d[f]

\* `current` holds small blocks, and no more than the budget and what it repeats.
Small(d, f, p) ==
    /\ \A i \in f .. p - 1 : Extent(d, i) <= ChunkTokens
    /\ f < p => d[p] - d[f] <= ChunkTokens + Most(OverlapTokens, Extent(d, f))

\* The invariant of split, and what it leaves for to_chunks.
SplitInv ==
    /\ ends \in Document /\ phase \in {"split", "chunk", "select", "done"}
    /\ pos \in 1 .. Len(ends) /\ first \in 1 .. pos
    /\ tokens = ends[pos] - ends[first]
    /\ windows \in Seq(Window) /\ InARow(ends, windows) /\ FromStart(windows)
    /\ phase = "split" => Tip(ends, windows, first, pos) /\ Small(ends, first, pos)
    /\ phase # "split" => Tip(ends, windows, Len(ends), Len(ends))

\* What the two variables point at.
LEMMA Positions ==
    ASSUME SplitInv
    PROVE  /\ Len(ends) \in Nat \ {0} /\ Blocks = Len(ends) - 1
           /\ pos \in 1 .. Len(ends) /\ first \in 1 .. Len(ends) /\ first <= pos
           /\ ends[pos] \in Nat /\ ends[first] \in Nat /\ ends[first] <= ends[pos]
           /\ first < pos => ends[first] < ends[pos]
           /\ Joined \in Window
  <1>1. /\ Len(ends) \in Nat \ {0} /\ pos \in 1 .. Len(ends) /\ first \in 1 .. Len(ends)
        /\ first <= pos /\ Blocks = Len(ends) - 1
    BY Offsets DEF SplitInv, Blocks
  <1>2. /\ ends[pos] \in Nat /\ ends[first] \in Nat
        /\ first < pos => ends[first] < ends[pos]
    BY <1>1, Offsets DEF SplitInv
  <1>3. ends[first] <= ends[pos]
    BY <1>1, <1>2
  <1>4. Joined \in Window
    BY <1>2 DEF Joined, Window
  <1> QED
    BY <1>1, <1>2, <1>3, <1>4

\* A window of the blocks in `current` can follow.
LEMMA JoinedFollows ==
    ASSUME SplitInv, phase = "split", first < pos
    PROVE  LET t == Append(windows, Joined)
           IN  /\ t \in Seq(Window) /\ InARow(ends, t) /\ FromStart(t)
               /\ t # <<>> /\ t[Len(t)] = Joined
  <1> DEFINE t == Append(windows, Joined)
  <1>1. /\ windows \in Seq(Window) /\ Joined \in Window /\ InARow(ends, windows)
        /\ Tip(ends, windows, first, pos) /\ Small(ends, first, pos) /\ FromStart(windows)
        /\ ends[pos] \in Nat /\ ends[first] \in Nat /\ ends[first] < ends[pos]
        /\ pos \in 1 .. Len(ends) /\ first \in 1 .. Len(ends) /\ ends[1] = 0
    BY Positions, Offsets DEF SplitInv
  <1>2. Joined = [from |-> ends[first], to |-> ends[pos], large |-> FALSE]
    BY DEF Joined
  <1>3. Run(ends, Joined, first, pos)
    BY <1>1, <1>2 DEF Run, Small
  <1>4. Shaped(ends, Joined)
    BY <1>1, <1>3 DEF Shaped
  <1>5. ASSUME windows # <<>> PROVE Follows(ends, windows[Len(windows)], Joined)
    <2> DEFINE w == windows[Len(windows)]
    <2>1. Len(windows) \in 1 .. Len(windows)
      BY <1>1, <1>5, EmptySeq
    <2>2. w \in Window
      BY <1>1, <2>1
    <2>3. /\ w.from <= ends[first] /\ ends[first] <= w.to /\ w.to <= ends[pos]
          /\ \A b \in 1 .. Len(ends) - 1 : Piece(ends, w, b) => ends[b + 1] <= ends[first]
      BY <1>1, <1>5 DEF Tip
    <2> HIDE DEF w
    <2>4. \A b \in 1 .. Len(ends) - 1 : Piece(ends, w, b) => ends[pos] > ends[b + 1]
      <3> TAKE b \in 1 .. Len(ends) - 1
      <3> HAVE Piece(ends, w, b)
      <3>1. b + 1 \in 1 .. Len(ends) /\ ends[b + 1] <= ends[first]
        BY <2>3
      <3>2. ends[b + 1] \in Nat
        BY <3>1, Offsets DEF SplitInv
      <3> QED
        BY <1>1, <3>1, <3>2
    <2>5. Follows(ends, w, Joined)
      BY <1>1, <1>2, <2>2, <2>3, <2>4 DEF Follows, Window
    <2> QED
      BY <2>5 DEF w
  <1>6. InARow(ends, t)
    BY <1>1, <1>4, <1>5, AppendInARow
  <1>7. t \in Seq(Window) /\ Len(t) = Len(windows) + 1 /\ Len(windows) \in Nat /\ t[Len(t)] = Joined
        /\ \A k \in 1 .. Len(windows) : t[k] = windows[k]
    BY <1>1, AppendProperties
  <1>8. t # <<>>
    BY <1>7
  <1>9. t[1].from = 0
    <2>1. CASE windows = <<>>
      <3>1. first = 1 /\ t[1] = Joined
        BY <1>1, <1>7, <2>1 DEF Tip
      <3> QED
        BY <1>1, <1>2, <3>1
    <2>2. CASE windows # <<>>
      <3>1. 1 \in 1 .. Len(windows)
        BY <1>1, <2>2, EmptySeq
      <3> QED
        BY <1>1, <1>7, <2>2, <3>1 DEF FromStart
    <2> QED
      BY <2>1, <2>2
  <1> QED
    BY <1>6, <1>7, <1>8, <1>9 DEF FromStart

\* So do the windows when `current` is emptied.
LEMMA FlushedFollows ==
    ASSUME SplitInv, phase = "split"
    PROVE  /\ Flushed \in Seq(Window) /\ InARow(ends, Flushed) /\ FromStart(Flushed)
           /\ Tip(ends, Flushed, pos, pos)
  <1>1. /\ windows \in Seq(Window) /\ InARow(ends, windows)
        /\ Tip(ends, windows, first, pos) /\ FromStart(windows)
        /\ ends[pos] \in Nat /\ ends[first] \in Nat /\ first <= pos
        /\ pos \in 1 .. Len(ends) /\ first \in 1 .. Len(ends)
    BY Positions DEF SplitInv
  <1>2. CASE first < pos
    <2> DEFINE t == Append(windows, Joined)
    <2>1. /\ t \in Seq(Window) /\ InARow(ends, t) /\ FromStart(t)
          /\ t # <<>> /\ t[Len(t)] = Joined
      BY <1>2, JoinedFollows
    <2>2. Flushed = t
      BY <1>2 DEF Flushed
    <2> HIDE DEF t
    <2>3. Joined.from = ends[first] /\ Joined.to = ends[pos] /\ ~Joined.large
      BY DEF Joined
    <2>4. ends[first] <= ends[pos]
      BY Positions
    <2>5. Tip(ends, t, pos, pos)
      BY <1>1, <2>1, <2>3, <2>4 DEF Tip, Piece
    <2> QED
      BY <2>1, <2>2, <2>5
  <1>3. CASE first = pos
    BY <1>1, <1>3 DEF Flushed
  <1> QED
    BY <1>1, <1>2, <1>3

LEMMA SplitInit == Init => SplitInv
  <1> SUFFICES ASSUME Init PROVE SplitInv
    OBVIOUS
  <1>1. /\ ends \in Document /\ phase = "split" /\ pos = 1 /\ first = 1 /\ tokens = 0
        /\ windows = <<>>
    BY DEF Init
  <1>2. Len(ends) \in Nat \ {0} /\ ends[1] \in Nat
    BY <1>1, Offsets
  <1>3. InARow(ends, windows) /\ FromStart(windows) /\ windows \in Seq(Window)
    BY <1>1 DEF InARow, FromStart
  <1>4. Small(ends, first, pos) /\ Tip(ends, windows, first, pos)
    BY <1>1 DEF Small, Tip
  <1> QED
    BY <1>1, <1>2, <1>3, <1>4 DEF SplitInv

LEMMA SplitStep == SplitInv /\ [Next]_vars => SplitInv'
  <1> SUFFICES ASSUME SplitInv, [Next]_vars PROVE SplitInv'
    OBVIOUS
  <1> USE DEF splitting, numbering, chosen
  <1>1. /\ Len(ends) \in Nat \ {0} /\ Blocks = Len(ends) - 1
        /\ pos \in 1 .. Len(ends) /\ first \in 1 .. Len(ends) /\ first <= pos
        /\ ends[pos] \in Nat /\ ends[first] \in Nat /\ ends[first] <= ends[pos]
        /\ windows \in Seq(Window) /\ InARow(ends, windows) /\ FromStart(windows)
        /\ ends \in Document /\ tokens = ends[pos] - ends[first]
    BY Positions DEF SplitInv
  <1>2. CASE SplitLarge
    <2>1. /\ phase = "split" /\ pos \in 1 .. Blocks /\ Size(pos) > ChunkTokens
          /\ windows' = Flushed \o Pieces(pos) /\ pos' = pos + 1 /\ first' = pos + 1 /\ tokens' = 0
          /\ UNCHANGED <<ends, phase>>
      BY <1>1, <1>2 DEF SplitLarge
    <2> DEFINE t == Pieces(pos)
               u == Flushed \o t
    <2>2. /\ Flushed \in Seq(Window) /\ InARow(ends, Flushed) /\ FromStart(Flushed)
          /\ Tip(ends, Flushed, pos, pos)
      BY <2>1, FlushedFollows
    <2>3. /\ t \in Seq(Window) /\ t # <<>> /\ InARow(ends, t)
          /\ t[1].from = ends[pos] /\ t[1].to <= ends[pos + 1] /\ t[1].to > ends[pos]
          /\ t[Len(t)].to = ends[pos + 1] /\ t[Len(t)].from <= ends[pos + 1]
          /\ \A k \in 1 .. Len(t) : Piece(ends, t[k], pos)
      BY <1>1, <2>1, PiecesInARow
    <2>4. /\ pos + 1 \in 1 .. Len(ends) /\ ends[pos + 1] \in Nat
      BY <1>1, <2>1, Offsets
    <2> HIDE DEF t
    <2>5. /\ Len(Flushed) \in Nat /\ Len(t) \in Nat /\ Len(t) # 0
          /\ u \in Seq(Window) /\ Len(u) = Len(Flushed) + Len(t)
          /\ \A k \in 1 .. Len(Flushed) + Len(t) :
                u[k] = IF k <= Len(Flushed) THEN Flushed[k] ELSE t[k - Len(Flushed)]
      BY <2>2, <2>3, ConcatProperties, EmptySeq
    <2>6. 1 \in 1 .. Len(t) /\ Len(t) \in 1 .. Len(t)
      BY <2>5
    <2>7. ASSUME Flushed # <<>> PROVE Follows(ends, Flushed[Len(Flushed)], t[1])
      <3> DEFINE w == Flushed[Len(Flushed)]
      <3>1. Len(Flushed) \in 1 .. Len(Flushed)
        BY <2>2, <2>7, EmptySeq
      <3>2. w \in Window /\ w.from \in Nat /\ w.to \in Nat
        <4>1. w \in Window
          BY <2>2, <3>1, ElementOfSeq
        <4> QED
          BY <4>1 DEF Window
      <3>3. /\ w.from <= ends[pos] /\ w.to = ends[pos]
            /\ \A b \in 1 .. Len(ends) - 1 : Piece(ends, w, b) => ends[b + 1] <= ends[pos]
        BY <2>2, <2>7 DEF Tip
      <3> HIDE DEF w
      <3>4. t[1].to \in Nat
        <4>1. t[1] \in Window
          BY <2>3, <2>6, ElementOfSeq
        <4> QED
          BY <4>1 DEF Window
      <3>5. \A b \in 1 .. Len(ends) - 1 : Piece(ends, w, b) => t[1].to > ends[b + 1]
        <4> TAKE b \in 1 .. Len(ends) - 1
        <4> HAVE Piece(ends, w, b)
        <4>1. ends[b + 1] \in Nat /\ ends[b + 1] <= ends[pos]
          BY <1>1, <3>3, Offsets
        <4> QED
          BY SMTT(30), <1>1, <2>3, <3>4, <4>1
      <3>6. Follows(ends, w, t[1])
        BY SMTT(30), <1>1, <2>3, <3>2, <3>3, <3>4, <3>5 DEF Follows
      <3> QED
        BY <3>6 DEF w
    <2>8. InARow(ends, u)
      BY <2>2, <2>3, <2>7, ConcatInARow
    <2> HIDE DEF u
    <2>9. u # <<>> /\ u[Len(u)] = t[Len(t)]
      <3>1. Len(u) # 0 /\ Len(u) \in 1 .. Len(Flushed) + Len(t) /\ ~(Len(u) <= Len(Flushed))
            /\ Len(u) - Len(Flushed) = Len(t)
        BY <2>5
      <3> QED
        BY <2>5, <3>1
    <2>10. FromStart(u)
      <3>1. CASE Flushed = <<>>
        <4>1. u[1] = t[1] /\ pos = 1
          <5>1. Len(Flushed) = 0 /\ 1 \in 1 .. Len(Flushed) + Len(t) /\ ~(1 <= Len(Flushed))
                /\ 1 - Len(Flushed) = 1
            BY <2>5, <3>1
          <5> QED
            BY <2>2, <2>5, <3>1, <5>1 DEF Tip
        <4> QED
          BY <1>1, <2>3, <4>1, Offsets DEF FromStart
      <3>2. CASE Flushed # <<>>
        <4>1. 1 <= Len(Flushed) /\ 1 \in 1 .. Len(Flushed) + Len(t)
          BY <2>2, <2>5, <3>2, EmptySeq
        <4>2. u[1] = Flushed[1]
          BY <2>5, <4>1
        <4> QED
          BY <2>2, <3>2, <4>2 DEF FromStart
      <3> QED
        BY <3>1, <3>2
    <2>11. Tip(ends, u, pos + 1, pos + 1)
      <3>1. ASSUME NEW b \in 1 .. Len(ends) - 1, Piece(ends, t[Len(t)], b) PROVE ends[b + 1] <= ends[pos + 1]
        <4>1. Piece(ends, t[Len(t)], pos) /\ t[Len(t)].from \in Nat
          <5>1. t[Len(t)] \in Window
            BY <2>3, <2>6, ElementOfSeq
          <5> QED
            BY <2>3, <2>6, <5>1 DEF Window
        <4>2. b = pos
          BY <1>1, <2>1, <3>1, <4>1, SameBlock DEF Piece
        <4> QED
          BY <2>4, <4>2
      <3> QED
        BY <2>3, <2>4, <2>9, <3>1 DEF Tip
    <2>12. Small(ends, pos + 1, pos + 1)
      BY <1>1 DEF Small
    <2>13. windows' = u /\ tokens' = ends[pos'] - ends[first']
      BY <2>1, <2>4 DEF u, t
    <2> QED
      BY <1>1, <2>1, <2>4, <2>5, <2>8, <2>10, <2>11, <2>12, <2>13 DEF SplitInv
  <1>3. CASE AddBlock
    <2>1. /\ phase = "split" /\ pos \in 1 .. Blocks /\ Size(pos) <= ChunkTokens /\ Fits(pos)
          /\ pos' = pos + 1 /\ tokens' = tokens + Size(pos)
          /\ UNCHANGED <<ends, phase, first, windows>>
      BY <1>1, <1>3 DEF AddBlock
    <2>2. /\ pos + 1 \in 1 .. Len(ends) /\ ends[pos + 1] \in Nat /\ Size(pos) \in Nat
          /\ ends[pos + 1] = ends[pos] + Size(pos)
      BY <1>1, <2>1, Sizes
    <2>3. Tip(ends, windows, first, pos) /\ Small(ends, first, pos)
      BY <2>1 DEF SplitInv
    <2>4. Tip(ends, windows, first, pos + 1)
      <3>1. CASE windows = <<>>
        BY <2>3, <3>1 DEF Tip
      <3>2. CASE windows # <<>>
        <4> DEFINE w == windows[Len(windows)]
        <4>1. w \in Window
          <5>1. Len(windows) \in 1 .. Len(windows)
            BY <1>1, <3>2, EmptySeq
          <5> QED
            BY <1>1, <5>1, ElementOfSeq
        <4>2. w.to \in Nat
          BY <4>1 DEF Window
        <4>3. w.to <= ends[pos] /\ ends[pos] <= ends[pos + 1] /\ first # pos + 1
          BY <1>1, <2>2, <2>3, <3>2 DEF Tip
        <4>4. w.to <= ends[pos + 1]
          BY SMTT(30), <1>1, <2>2, <4>2, <4>3
        <4> QED
          BY <2>3, <3>2, <4>3, <4>4 DEF Tip
      <3> QED
        BY <3>1, <3>2
    <2>5. Small(ends, first, pos + 1)
      <3>1. \A i \in first .. (pos + 1) - 1 : Extent(ends, i) <= ChunkTokens
        <4> TAKE i \in first .. (pos + 1) - 1
        <4>1. i = pos \/ i \in first .. pos - 1
          BY <1>1
        <4> QED
          BY <2>1, <2>3, <4>1 DEF Small, Size, Extent
      <3>2. ends[pos + 1] - ends[first] <= ChunkTokens
        BY SMTT(30), <1>1, <2>1, <2>2, StepType DEF Fits
      <3>3. Most(OverlapTokens, Extent(ends, first)) >= 0 /\ Most(OverlapTokens, Extent(ends, first)) \in Int
        <4>1. Extent(ends, first) \in Int
          <5>1. first + 1 \in 1 .. Len(ends)
            BY <1>1, <2>1
          <5> QED
            BY SMTT(30), <1>1, <5>1, Offsets DEF Extent
        <4> QED
          BY <4>1, ChunkingAssumption DEF Most
      <3> QED
        BY SMTT(30), <1>1, <2>2, <3>1, <3>2, <3>3, StepType DEF Small
    <2>6. tokens' = ends[pos'] - ends[first']
      BY <1>1, <2>1, <2>2
    <2> QED
      BY <1>1, <2>1, <2>2, <2>4, <2>5, <2>6 DEF SplitInv
  <1>4. CASE CloseWindow
    <2>1. /\ phase = "split" /\ pos \in 1 .. Blocks /\ Size(pos) <= ChunkTokens /\ ~Fits(pos)
          /\ windows' = Append(windows, Joined)
          /\ pos' = pos + 1
          /\ UNCHANGED <<ends, phase>>
      BY <1>1, <1>4 DEF CloseWindow
    <2>2. PICK f \in first .. pos :
             TailFrom(f) /\ first' = f /\ tokens' = ends[pos] - ends[f] + Size(pos)
      BY <1>4 DEF CloseWindow
    <2>3. /\ pos + 1 \in 1 .. Len(ends) /\ ends[pos + 1] \in Nat /\ Size(pos) \in Nat
          /\ ends[pos + 1] = ends[pos] + Size(pos)
      BY <1>1, <2>1, Sizes
    <2>4. /\ first < pos /\ f \in 1 .. Len(ends) /\ f <= pos /\ first <= f
      BY <1>1, <2>1, <2>2 DEF Fits
    <2>5. /\ ends[f] \in Nat /\ ends[first] <= ends[f] /\ ends[f] <= ends[pos]
      <3>1. /\ f \in 1 .. Blocks + 1 /\ first \in 1 .. Blocks + 1 /\ pos \in 1 .. Blocks + 1
            /\ f <= pos /\ first <= f
        BY <1>1, <2>4
      <3> QED
        BY <1>1, <3>1, Documents
    <2> DEFINE t == Append(windows, Joined)
    <2>6. /\ t \in Seq(Window) /\ InARow(ends, t) /\ FromStart(t)
          /\ t # <<>> /\ t[Len(t)] = Joined
      BY <2>1, <2>4, JoinedFollows
    <2> HIDE DEF t
    <2>7. Tip(ends, t, f, pos + 1)
      <3>1. Joined.from = ends[first] /\ Joined.to = ends[pos] /\ ~Joined.large
        BY DEF Joined
      <3>2. ends[pos] <= ends[pos + 1] /\ f # pos + 1
        BY <1>1, <2>3, <2>4
      <3> QED
        BY <2>5, <2>6, <3>1, <3>2 DEF Tip, Piece
    <2>8. Small(ends, first, pos)
      BY <2>1 DEF SplitInv
    <2>9. Small(ends, f, pos + 1)
      <3>1. \A i \in f .. (pos + 1) - 1 : Extent(ends, i) <= ChunkTokens
        <4> TAKE i \in f .. (pos + 1) - 1
        <4>1. i = pos \/ i \in first .. pos - 1
          BY <1>1, <2>4
        <4> QED
          BY <2>1, <2>8, <4>1 DEF Small, Size, Extent
      <3>2. Extent(ends, f) \in Int /\ OverlapTokens \in Nat
        <4>1. f + 1 \in 1 .. Len(ends)
          BY <1>1, <2>1, <2>4
        <4>2. ends[f + 1] \in Nat
          BY <1>1, <4>1, Offsets
        <4> QED
          BY <2>5, <4>2, ChunkingAssumption DEF Extent
      <3>3. ends[pos] - ends[f] <= Most(OverlapTokens, Extent(ends, f))
        <4>1. CASE OverlapTokens = 0
          <5>1. f = pos
            BY <2>2, <4>1 DEF TailFrom
          <5> QED
            BY <2>5, <3>2, <5>1 DEF Most
        <4>2. CASE OverlapTokens # 0 /\ f = pos - 1
          <5>1. Extent(ends, f) = ends[pos] - ends[f]
            <6>1. f + 1 = pos
              BY <1>1, <4>2
            <6> QED
              BY <6>1 DEF Extent
          <5> QED
            BY <3>2, <5>1 DEF Most
        <4>3. CASE OverlapTokens # 0 /\ ends[pos] - ends[f] <= OverlapTokens
          BY <1>1, <2>5, <3>2, <4>3 DEF Most
        <4> QED
          BY <2>2, <4>1, <4>2, <4>3 DEF TailFrom
      <3>4. Most(OverlapTokens, Extent(ends, f)) \in Int
        BY <3>2 DEF Most
      <3>5. ends[pos + 1] - ends[f] <= ChunkTokens + Most(OverlapTokens, Extent(ends, f))
        <4> DEFINE most == Most(OverlapTokens, Extent(ends, f))
        <4>1. most \in Int /\ ends[pos] - ends[f] <= most
          BY <3>3, <3>4
        <4> HIDE DEF most
        <4>2. ends[pos + 1] - ends[f] = (ends[pos] - ends[f]) + Size(pos)
          BY <1>1, <2>3, <2>5
        <4>3. ends[pos] - ends[f] \in Int /\ Size(pos) \in Int /\ Size(pos) <= ChunkTokens /\ ChunkTokens \in Int
          BY SMTT(30), <1>1, <2>1, <2>3, <2>5, StepType
        <4>4. ends[pos + 1] - ends[f] <= ChunkTokens + most
          BY <4>1, <4>2, <4>3
        <4> QED
          BY <4>4 DEF most
      <3> QED
        BY <3>1, <3>5 DEF Small
    <2>10. tokens' = ends[pos'] - ends[first'] /\ windows' = t /\ first' \in 1 .. pos'
      BY SMTT(30), <1>1, <2>1, <2>2, <2>3, <2>4, <2>5 DEF t
    <2> QED
      BY <1>1, <2>1, <2>2, <2>3, <2>6, <2>7, <2>9, <2>10 DEF SplitInv
  <1>5. CASE EndSplit
    <2>1. /\ phase = "split" /\ pos = Len(ends) /\ windows' = Flushed /\ phase' = "chunk"
          /\ UNCHANGED <<ends, pos, first, tokens>>
      BY <1>1, <1>5 DEF EndSplit
    <2>2. /\ Flushed \in Seq(Window) /\ InARow(ends, Flushed) /\ FromStart(Flushed)
          /\ Tip(ends, Flushed, pos, pos)
      BY <2>1, FlushedFollows
    <2> HIDE DEF splitting
    <2> QED
      BY <2>1, <2>2 DEF SplitInv
  <1>6. ASSUME UNCHANGED <<ends, splitting>>,
               phase' = phase \/ (phase # "split" /\ phase' \in {"chunk", "select", "done"})
        PROVE  SplitInv'
    BY <1>6 DEF SplitInv
  <1>7. CASE \E context \in 0 .. MaxContext : ToChunk(context)
    BY <1>6, <1>7 DEF ToChunk
  <1>8. CASE EndChunks \/ Select
    BY <1>6, <1>8 DEF EndChunks, Select
  <1>9. CASE Finished \/ UNCHANGED vars
    BY <1>6, <1>9 DEF Finished, vars
  <1> QED
    BY <1>2, <1>3, <1>4, <1>5, <1>7, <1>8, <1>9 DEF Next


\* Shape of the windows, through the whole run.
LEMMA Split == Spec => []SplitInv
  <1>1. SplitInv /\ [Next]_vars => SplitInv'
    BY SplitStep
  <1> QED
    BY SplitInit, <1>1, PTL DEF Spec

\* What the shape says of the size.
LEMMA MostBound ==
    ASSUME NEW w, NEW d \in Document, Shaped(d, w), w \in Window
    PROVE  IF w.large
              THEN w.to - w.from <= ChunkTokens
              ELSE \E i \in 1 .. Len(d) - 1 :
                      /\ d[i] = w.from
                      /\ w.to - w.from <= ChunkTokens + Most(OverlapTokens, Extent(d, i))
  <1>1. w.from \in Nat /\ w.to \in Nat
    BY DEF Window
  <1>2. ASSUME NEW b \in 1 .. Len(d) - 1, Piece(d, w, b)
        PROVE  w.large /\ w.to - w.from <= ChunkTokens
    <2>1. b + 1 \in 1 .. Len(d) /\ ChunkTokens \in Nat
      BY Offsets, StepType
    <2>2. d[b + 1] \in Nat
      BY <2>1, Offsets
    <2>3. w.large /\ w.to = Least(w.from + ChunkTokens, d[b + 1])
      BY <1>2 DEF Piece
    <2>4. Least(w.from + ChunkTokens, d[b + 1]) <= w.from + ChunkTokens
      BY <1>1, <2>1, <2>2 DEF Least
    <2> QED
      BY <1>1, <2>1, <2>3, <2>4
  <1>3. ASSUME NEW a \in 1 .. Len(d), NEW c \in 1 .. Len(d), Run(d, w, a, c)
        PROVE  ~w.large /\ \E i \in 1 .. Len(d) - 1 :
                      /\ d[i] = w.from
                      /\ w.to - w.from <= ChunkTokens + Most(OverlapTokens, Extent(d, i))
    <2>1. a \in 1 .. Len(d) - 1
      BY <1>3, Offsets DEF Run
    <2> QED
      BY <1>3, <2>1 DEF Run
  <1> QED
    BY <1>2, <1>3 DEF Shaped

\* Every window split makes is within CHUNK_TOKENS plus what it repeats, a piece
\* of a large block within CHUNK_TOKENS: flushing, cutting and the tail that
\* overlap_tail brings over included.
THEOREM BudgetKept == Spec => []WindowBudget
  <1>1. SplitInv => WindowBudget
    <2> SUFFICES ASSUME SplitInv, NEW k \in DOMAIN windows
                 PROVE  LET w == windows[k]
                        IN  IF w.large
                              THEN w.to - w.from <= ChunkTokens
                              ELSE \E i \in 1 .. Blocks :
                                      /\ ends[i] = w.from
                                      /\ w.to - w.from <= ChunkTokens + Most(OverlapTokens, Size(i))
      BY DEF WindowBudget
    <2> DEFINE w == windows[k]
    <2>1. windows \in Seq(Window) /\ ends \in Document /\ k \in 1 .. Len(windows) /\ InARow(ends, windows)
      BY DEF SplitInv
    <2>2. w \in Window /\ Shaped(ends, w)
      BY <2>1, ElementOfSeq DEF InARow
    <2> HIDE DEF w
    <2>3. IF w.large
              THEN w.to - w.from <= ChunkTokens
              ELSE \E i \in 1 .. Len(ends) - 1 :
                      /\ ends[i] = w.from
                      /\ w.to - w.from <= ChunkTokens + Most(OverlapTokens, Extent(ends, i))
      BY <2>1, <2>2, MostBound
    <2>4. IF w.large
              THEN w.to - w.from <= ChunkTokens
              ELSE \E i \in 1 .. Blocks :
                      /\ ends[i] = w.from
                      /\ w.to - w.from <= ChunkTokens + Most(OverlapTokens, Size(i))
      BY <2>3 DEF Blocks, Extent, Size
    <2> QED
      BY <2>4 DEF w
  <1> QED
    BY Split, <1>1, PTL

(***************************************************************************)
(* Chunks.                                                                 *)
(***************************************************************************)

\* A chunk lies in one large block.
Within(d, c, b) == Extent(d, b) > ChunkTokens /\ d[b] <= c.from /\ c.to <= d[b + 1]

\* MIN_CHUNK_TOKENS is small enough for the overlap.
Joins == 2 * (MinTokens - 1) <= OverlapTokens /\ MinTokens <= ChunkTokens - OverlapTokens

\* Within a large block the chunk is within the budget.
Lean(d, c) == \A b \in 1 .. Len(d) - 1 : Within(d, c, b) => c.tokens <= ChunkTokens + MaxContext

\* The last chunk ends with the window it was made of or joined by; within a
\* large block it is that window alone, unless no other piece comes after it.
Latest(d, c, w) ==
    /\ c.to = w.to /\ c.from <= w.from
    /\ Joins => \A b \in 1 .. Len(d) - 1 :
          Within(d, c, b) => \/ c.from = w.from /\ c.tokens <= w.to - w.from + MaxContext
                             \/ w.from + Step >= d[b + 1]

\* A chunk goes on where the one before ends, or before that.
Overlapped(c, e) == c.from <= e.from /\ c.to <= e.to /\ e.from <= c.to

\* The invariant of to_chunks.
ChunkInv ==
    /\ taken \in 0 .. Len(windows) /\ cursor \in Nat /\ chunks \in Seq(Chunk)
    /\ taken = 0 => chunks = <<>>
    /\ chunks = <<>> => taken = 0
    /\ phase = "split" => taken = 0
    /\ phase \in {"select", "done"} => taken = Len(windows)
    /\ \A k \in 1 .. Len(chunks) - 1 : Overlapped(chunks[k], chunks[k + 1])
    /\ chunks # <<>> => chunks[1].from = 0 /\ Latest(ends, chunks[Len(chunks)], windows[taken])
    /\ Joins => \A k \in 1 .. Len(chunks) : Lean(ends, chunks[k])

\* A window within a large block is a piece of it.
LEMMA InLargeBlock ==
    ASSUME NEW d \in Document, NEW w \in Window, Shaped(d, w),
           NEW b \in 1 .. Len(d) - 1, Extent(d, b) > ChunkTokens, d[b] <= w.from, w.to <= d[b + 1]
    PROVE  Piece(d, w, b)
  <1>1. w.from \in Nat /\ w.to \in Nat /\ w.from < w.to
    BY ShapedFilled
  <1>2. /\ Len(d) \in Nat /\ b \in 1 .. Len(d) /\ b + 1 \in 1 .. Len(d)
        /\ d[b] \in Nat /\ d[b + 1] \in Nat
    <2>1. Len(d) \in Nat /\ b \in 1 .. Len(d) /\ b + 1 \in 1 .. Len(d)
      BY Offsets
    <2> QED
      BY <2>1, Offsets
  <1>3. w.from < d[b + 1]
    BY <1>1, <1>2
  <1>4. ASSUME NEW e \in 1 .. Len(d) - 1, Piece(d, w, e) PROVE Piece(d, w, b)
    <2>1. e = b
      BY <1>1, <1>3, <1>4, SameBlock DEF Piece
    <2> QED
      BY <1>4, <2>1
  <1>5. ASSUME NEW a \in 1 .. Len(d), NEW c \in 1 .. Len(d), Run(d, w, a, c) PROVE FALSE
    <2>1. /\ a < c /\ w.from = d[a] /\ w.to = d[c]
          /\ \A i \in a .. c - 1 : Extent(d, i) <= ChunkTokens
      BY <1>5 DEF Run
    <2>2. d[a] \in Nat /\ d[c] \in Nat
      BY Offsets
    <2>3. ~(a < b)
      BY <1>2, <2>1, <2>2, Offsets
    <2>4. ~(b + 1 < c)
      BY <1>2, <2>1, <2>2, Offsets
    <2>5. b \in a .. c - 1
      BY <1>2, <2>1, <2>3, <2>4
    <2>6. Extent(d, b) <= ChunkTokens
      BY <2>1, <2>5
    <2>7. Extent(d, b) \in Int /\ ChunkTokens \in Int
      BY <1>2, StepType DEF Extent
    <2> QED
      BY <2>6, <2>7
  <1> QED
    BY <1>4, <1>5 DEF Shaped


\* A piece ends within the budget and within its block.
LEMMA PieceBound ==
    ASSUME NEW d \in Document, NEW w \in Window, NEW b \in 1 .. Len(d) - 1, Piece(d, w, b)
    PROVE  /\ w.from \in Nat /\ w.to \in Nat /\ d[b + 1] \in Nat /\ w.from < d[b + 1]
           /\ w.to <= w.from + ChunkTokens /\ w.to <= d[b + 1]
           /\ w.to = w.from + ChunkTokens \/ w.to = d[b + 1]
  <1>1. w.from \in Nat /\ w.to \in Nat
    BY DEF Window
  <1>2. b + 1 \in 1 .. Len(d) /\ ChunkTokens \in Nat
    BY Offsets, StepType
  <1>3. d[b + 1] \in Nat
    BY <1>2, Offsets
  <1>4. w.to = Least(w.from + ChunkTokens, d[b + 1]) /\ w.from < d[b + 1]
    BY DEF Piece
  <1> QED
    BY <1>1, <1>2, <1>3, <1>4 DEF Least

\* A chunk of its own.
LEMMA FreshChunk ==
    ASSUME NEW d \in Document, NEW w \in Window, Shaped(d, w), NEW context \in 0 .. MaxContext,
           NEW c, c.from = w.from, c.to = w.to, c.tokens = w.to - w.from + context
    PROVE  Lean(d, c) /\ Latest(d, c, w)
  <1>1. w.from \in Nat /\ w.to \in Nat /\ context \in Nat /\ context <= MaxContext /\ MaxContext \in Nat
        /\ ChunkTokens \in Nat
    BY ChunkingAssumption DEF Window
  <1>2. c.tokens <= w.to - w.from + MaxContext
    BY <1>1
  <1>3. ASSUME NEW b \in 1 .. Len(d) - 1, Within(d, c, b) PROVE c.tokens <= ChunkTokens + MaxContext
    <2>1. Piece(d, w, b)
      BY <1>3, InLargeBlock DEF Within
    <2>2. w.to <= w.from + ChunkTokens
      BY <2>1, PieceBound
    <2> QED
      BY <1>1, <2>2
  <1> QED
    BY <1>1, <1>2, <1>3 DEF Lean, Latest

\* A chunk that takes in the window after it: in a large block the window is the
\* last piece, and what is counted twice is made up for by the overlap.
LEMMA JoinedChunk ==
    ASSUME NEW d \in Document, NEW v \in Window, NEW w \in Window, Shaped(d, v), Shaped(d, w),
           Follows(d, v, w), NEW context \in 0 .. MaxContext, w.to - w.from + context < MinTokens,
           NEW c \in Chunk, Latest(d, c, v),
           NEW e, e.from = c.from, e.to = w.to, e.tokens = c.tokens + (w.to - w.from + context)
    PROVE  Latest(d, e, w) /\ (Joins => Lean(d, e))
  <1>1. /\ v.from \in Nat /\ v.to \in Nat /\ w.from \in Nat /\ w.to \in Nat
        /\ context \in Nat /\ context <= MaxContext /\ MaxContext \in Nat
        /\ ChunkTokens \in Nat /\ OverlapTokens \in Nat /\ MinTokens \in Nat
        /\ c.from \in Nat /\ c.tokens \in Nat
    BY ChunkingAssumption DEF Window, Chunk
  <1>2. v.from <= w.from /\ v.to <= w.to /\ c.to = v.to /\ c.from <= v.from
    BY DEF Follows, Latest
  <1>3. e.to = w.to /\ e.from <= w.from
    BY <1>1, <1>2
  <1>4. ASSUME Joins, NEW b \in 1 .. Len(d) - 1, Within(d, e, b)
        PROVE  /\ w.from + Step >= d[b + 1]
               /\ e.tokens <= ChunkTokens + MaxContext
    <2>1. /\ b + 1 \in 1 .. Len(d) /\ b \in 1 .. Len(d)
      BY Offsets
    <2>2. /\ d[b] \in Nat /\ d[b + 1] \in Nat
      BY <2>1, Offsets
    <2>3. Extent(d, b) > ChunkTokens /\ d[b] <= c.from /\ w.to <= d[b + 1]
      BY <1>4 DEF Within
    <2>4. d[b] <= v.from /\ d[b] <= w.from /\ v.to <= d[b + 1]
      <3> DEFINE lo == d[b]
                 hi == d[b + 1]
                 x == c.from
                 v0 == v.from
                 v1 == v.to
                 w0 == w.from
                 w1 == w.to
      <3>1. /\ lo \in Nat /\ hi \in Nat /\ x \in Nat
            /\ v0 \in Nat /\ v1 \in Nat /\ w0 \in Nat /\ w1 \in Nat
            /\ lo <= x /\ x <= v0 /\ v0 <= w0 /\ v1 <= w1 /\ w1 <= hi
        BY <1>1, <1>2, <2>2, <2>3
      <3> HIDE DEF lo, hi, x, v0, v1, w0, w1
      <3>2. lo <= v0 /\ lo <= w0 /\ v1 <= hi
        BY <3>1
      <3> QED
        BY <3>2 DEF lo, hi, v0, v1, w0, w1
    <2>5. Piece(d, v, b)
      BY <2>3, <2>4, InLargeBlock
    <2>6. Piece(d, w, b)
      BY <2>3, <2>4, InLargeBlock
    <2>7. /\ w.from < d[b + 1]
          /\ w.to = w.from + ChunkTokens \/ w.to = d[b + 1]
      BY <2>5, <2>6, PieceBound
    <2>8. w.from = v.from + Step
      <3>1. (Piece(d, w, b) /\ w.from = v.from + Step) \/ w.to > d[b + 1]
        BY <2>5 DEF Follows
      <3> QED
        BY SMTT(30), <1>1, <2>2, <2>3, <3>1
    <2>9. Step = ChunkTokens - OverlapTokens
      <3>1. ChunkTokens - OverlapTokens >= 1 /\ ChunkTokens - OverlapTokens \in Int
        BY <1>1, ChunkingAssumption
      <3> QED
        BY <3>1 DEF Step, Most
    <2>10. /\ w.from + (ChunkTokens - OverlapTokens) >= d[b + 1]
           /\ ~(v.from + (ChunkTokens - OverlapTokens) >= d[b + 1])
           /\ c.tokens <= v.to - v.from + MaxContext =>
                 c.tokens + (w.to - w.from + context) <= ChunkTokens + MaxContext
      <3>1. w.from = v.from + (ChunkTokens - OverlapTokens)
        BY <2>8, <2>9
      <3> DEFINE v0 == v.from
                 v1 == v.to
                 w0 == w.from
                 w1 == w.to
                 hi == d[b + 1]
                 count == c.tokens
      <3>2. /\ v0 \in Nat /\ v1 \in Nat /\ w0 \in Nat /\ w1 \in Nat /\ hi \in Nat
            /\ context \in Nat /\ count \in Nat
        BY <1>1, <2>2
      <3>3. /\ w0 = v0 + (ChunkTokens - OverlapTokens) /\ w0 < hi /\ v1 <= w1 /\ w1 <= hi
        BY <1>2, <2>3, <2>7, <3>1
      <3>4. w1 = w0 + ChunkTokens \/ w1 = hi
        BY <2>7
      <3>5. w1 - w0 + context < MinTokens
        OBVIOUS
      <3>6. 2 * (MinTokens - 1) <= OverlapTokens /\ MinTokens <= ChunkTokens - OverlapTokens
        BY <1>4 DEF Joins
      <3> HIDE DEF v0, v1, w0, w1, hi, count
      <3>7. w1 = hi
        BY <1>1, <3>2, <3>4, <3>5, <3>6
      <3>8. /\ w0 + (ChunkTokens - OverlapTokens) >= hi
            /\ ~(v0 + (ChunkTokens - OverlapTokens) >= hi)
        BY <1>1, <3>2, <3>3, <3>5, <3>6, <3>7
      <3>9. count <= v1 - v0 + MaxContext => count + (w1 - w0 + context) <= ChunkTokens + MaxContext
        BY <1>1, <3>2, <3>3, <3>5, <3>6, <3>7
      <3> QED
        BY <3>8, <3>9 DEF v0, v1, w0, w1, hi, count
    <2>12. w.from + Step >= d[b + 1]
      BY <2>9, <2>10
    <2>13. c.from = v.from /\ c.tokens <= v.to - v.from + MaxContext
      <3>1. Within(d, c, b)
        BY <1>2, <2>3, <2>4 DEF Within
      <3>2. ~(v.from + Step >= d[b + 1])
        BY <2>9, <2>10
      <3> QED
        BY <1>4, <3>1, <3>2 DEF Latest
    <2>14. e.tokens <= ChunkTokens + MaxContext
      BY <2>10, <2>13
    <2> QED
      BY <2>12, <2>14
  <1> QED
    BY <1>3, <1>4 DEF Latest, Lean


LEMMA ChunkInit == Init => ChunkInv
  <1> SUFFICES ASSUME Init PROVE ChunkInv
    OBVIOUS
  <1>1. taken = 0 /\ chunks = <<>> /\ cursor = 0 /\ phase = "split" /\ windows = <<>>
    BY DEF Init
  <1>2. Len(windows) = 0 /\ Len(chunks) = 0 /\ chunks \in Seq(Chunk)
    BY <1>1
  <1> QED
    BY <1>1, <1>2 DEF ChunkInv

\* The windows are not touched while chunks are made of them.
LEMMA ToChunkStep ==
    ASSUME SplitInv, ChunkInv, NEW context \in 0 .. MaxContext, ToChunk(context)
    PROVE  ChunkInv'
  <1> DEFINE w == windows[taken + 1]
             v == windows[taken]
             n == Len(chunks)
             last == chunks[n]
             count == w.to - w.from + context
             s == chunks'
  <1> USE DEF splitting, chosen
  <1>1. /\ taken \in Nat /\ taken < Len(windows) /\ Len(windows) \in Nat /\ cursor \in Nat
        /\ windows \in Seq(Window) /\ chunks \in Seq(Chunk) /\ n \in Nat
        /\ ends \in Document /\ InARow(ends, windows) /\ FromStart(windows) /\ phase = "chunk"
    BY DEF SplitInv, ChunkInv, ToChunk
  <1>2. w \in Window /\ Shaped(ends, w)
    <2>1. taken + 1 \in 1 .. Len(windows)
      BY <1>1
    <2> QED
      BY <1>1, <2>1, ElementOfSeq DEF InARow
  <1>3. w.from \in Nat /\ w.to \in Nat /\ w.from < w.to /\ count \in Nat
    <2>1. w.from \in Nat /\ w.to \in Nat /\ w.from < w.to
      BY <1>1, <1>2, ShapedFilled
    <2> QED
      BY <2>1
  <1>4. cursor + Most(1, count - OverlapTokens) \in Nat /\ cursor + count \in Nat
    BY SMTT(30), <1>1, <1>3, ChunkingAssumption DEF Most
  <1>5. /\ taken' = taken + 1 /\ cursor' = cursor + Most(1, count - OverlapTokens)
        /\ ends' = ends /\ windows' = windows /\ phase' = phase
        /\ s = IF count < MinTokens /\ chunks # <<>>
                 THEN [chunks EXCEPT ![n] = Merged(last, w, count)]
                 ELSE Append(chunks, [from |-> w.from, to |-> w.to, tokens |-> count,
                                      start |-> cursor, end |-> cursor + count])
    BY DEF ToChunk
  <1>6. ASSUME chunks # <<>>
        PROVE  /\ n \in 1 .. n /\ taken \in 1 .. Len(windows) /\ last \in Chunk
               /\ v \in Window /\ Shaped(ends, v) /\ Follows(ends, v, w)
               /\ Latest(ends, last, v) /\ chunks[1].from = 0
    <2>1. n \in 1 .. n /\ taken # 0
      BY <1>1, <1>6, EmptySeq DEF ChunkInv
    <2>2. taken \in 1 .. Len(windows) /\ taken \in 1 .. Len(windows) - 1
      BY <1>1, <2>1
    <2>3. last \in Chunk /\ v \in Window
      BY <1>1, <2>1, <2>2, ElementOfSeq
    <2>4. Shaped(ends, v) /\ Follows(ends, v, w)
      BY <1>1, <2>2 DEF InARow
    <2> QED
      BY <1>6, <2>1, <2>2, <2>3, <2>4 DEF ChunkInv
  <1>7. /\ \A k \in 1 .. n - 1 : Overlapped(chunks[k], chunks[k + 1])
        /\ Joins => \A k \in 1 .. n : Lean(ends, chunks[k])
    BY DEF ChunkInv
  <1> HIDE DEF w, v, count, last
  <1>8. CASE count < MinTokens /\ chunks # <<>>
    <2> DEFINE e == Merged(last, w, count)
    <2>1. /\ last \in Chunk /\ last.from \in Nat /\ last.to \in Nat /\ last.tokens \in Nat
          /\ cursor + count \in Nat
      BY <1>4, <1>6, <1>8 DEF Chunk, count
    <2>2. /\ e.from = last.from /\ e.to = w.to /\ e.tokens = last.tokens + count
      BY <2>1 DEF Merged, Chunk
    <2>3. e \in Chunk
      <3>1. last.tokens + count \in Nat /\ w.to \in Nat
        BY <1>3, <2>1 DEF count
      <3> QED
        BY <2>1, <3>1 DEF Merged, Chunk
    <2> HIDE DEF e
    <2>4. Latest(ends, e, w) /\ (Joins => Lean(ends, e))
      BY <1>1, <1>2, <1>6, <1>8, <2>2, JoinedChunk DEF count
    <2>5. /\ s \in Seq(Chunk) /\ Len(s) = n
          /\ \A k \in 1 .. n : s[k] = IF k = n THEN e ELSE chunks[k]
      <3>1. s = [chunks EXCEPT ![n] = e]
        BY <1>5, <1>8 DEF e
      <3>2. DOMAIN chunks = 1 .. n
        BY <1>1
      <3> QED
        BY <1>1, <1>6, <1>8, <2>3, <3>1, <3>2
    <2> HIDE DEF s
    <2>6. s # <<>> /\ s[Len(s)] = e /\ 1 \in 1 .. n
      <3>1. n # 0 /\ 1 \in 1 .. n /\ n \in 1 .. n
        BY <1>1, <1>6, <1>8
      <3> QED
        BY <2>5, <3>1
    <2>7. s[1].from = 0
      BY <1>6, <1>8, <2>2, <2>5, <2>6 DEF last
    <2>8. \A k \in 1 .. n - 1 : Overlapped(s[k], s[k + 1])
      <3> TAKE k \in 1 .. n - 1
      <3>1. k \in 1 .. n /\ k + 1 \in 1 .. n /\ k # n
        BY <1>1
      <3>2. s[k] = chunks[k] /\ Overlapped(chunks[k], chunks[k + 1])
        BY <1>7, <2>5, <3>1
      <3>3. CASE k + 1 # n
        BY <2>5, <3>1, <3>2, <3>3
      <3>4. CASE k + 1 = n
        <4>1. s[k + 1] = e /\ chunks[k + 1] = last
          BY <2>5, <3>1, <3>4 DEF last
        <4>2. chunks[k] \in Chunk
          BY <1>1, <3>1, ElementOfSeq
        <4>3. chunks[k].to \in Nat /\ chunks[k].to <= last.to
          BY <3>2, <4>1, <4>2 DEF Chunk, Overlapped
        <4>4. last.to <= w.to
          BY <1>6, <1>8 DEF Latest, Follows
        <4>5. chunks[k].to <= e.to
          BY SMTT(30), <1>3, <2>1, <2>2, <4>3, <4>4
        <4> QED
          BY <2>2, <3>2, <4>1, <4>5 DEF Overlapped
      <3> QED
        BY <3>3, <3>4
    <2>9. Joins => \A k \in 1 .. n : Lean(ends, s[k])
      BY <1>7, <2>4, <2>5
    <2>10. /\ s = chunks' /\ w = windows'[taken']
      BY <1>5 DEF s, w
    <2> HIDE DEF n
    <2> QED
      <3>1. /\ taken' \in 0 .. Len(windows') /\ cursor' \in Nat /\ taken' # 0 /\ phase' = "chunk"
        BY <1>1, <1>4, <1>5 DEF count
      <3>2. /\ chunks' \in Seq(Chunk) /\ chunks' # <<>> /\ chunks'[1].from = 0
        BY <2>5, <2>6, <2>7, <2>10
      <3>3. /\ \A k \in 1 .. Len(chunks') - 1 : Overlapped(chunks'[k], chunks'[k + 1])
            /\ Joins => \A k \in 1 .. Len(chunks') : Lean(ends', chunks'[k])
        BY <1>5, <2>5, <2>8, <2>9, <2>10
      <3>4. Latest(ends', chunks'[Len(chunks')], windows'[taken'])
        BY <1>5, <2>4, <2>6, <2>10
      <3> QED
        BY <3>1, <3>2, <3>3, <3>4 DEF ChunkInv
  <1>9. CASE ~(count < MinTokens /\ chunks # <<>>)
    <2> DEFINE e == [from |-> w.from, to |-> w.to, tokens |-> count,
                     start |-> cursor, end |-> cursor + count]
    <2>1. /\ e.from = w.from /\ e.to = w.to /\ e.tokens = count
      OBVIOUS
    <2>2. e \in Chunk
      BY <1>1, <1>3, <1>4 DEF Chunk
    <2>3. s = Append(chunks, e)
      BY <1>5, <1>9
    <2> HIDE DEF e
    <2>4. Latest(ends, e, w) /\ Lean(ends, e)
      BY <1>1, <1>2, <2>1, FreshChunk DEF count
    <2>5. /\ s \in Seq(Chunk) /\ Len(s) = n + 1 /\ s[n + 1] = e
          /\ \A k \in 1 .. n : s[k] = chunks[k]
      BY <1>1, <2>2, <2>3, AppendProperties
    <2> HIDE DEF s
    <2>6. s # <<>> /\ s[Len(s)] = e
      BY <1>1, <2>5
    <2>7. s[1].from = 0
      <3>1. CASE chunks = <<>>
        <4>1. n + 1 = 1 /\ taken + 1 = 1 /\ windows # <<>>
          BY <1>1, <3>1 DEF ChunkInv
        <4>2. w.from = 0
          BY <1>1, <4>1 DEF w, FromStart
        <4> QED
          BY <2>1, <2>5, <4>1, <4>2
      <3>2. CASE chunks # <<>>
        <4>1. 1 \in 1 .. n
          BY <1>6, <3>2
        <4> QED
          BY <1>6, <2>5, <3>2, <4>1
      <3> QED
        BY <3>1, <3>2
    <2>8. \A k \in 1 .. Len(s) - 1 : Overlapped(s[k], s[k + 1])
      <3> TAKE k \in 1 .. Len(s) - 1
      <3>1. k \in 1 .. n
        BY <1>1, <2>5
      <3>2. CASE k # n
        <4>1. k \in 1 .. n - 1 /\ k + 1 \in 1 .. n
          BY <1>1, <3>1, <3>2
        <4> QED
          BY <1>7, <2>5, <3>1, <4>1
      <3>3. CASE k = n
        <4>1. chunks # <<>> /\ s[k] = last /\ s[k + 1] = e
          BY <1>1, <2>5, <3>1, <3>3 DEF last
        <4>2. /\ last.from <= v.from /\ last.to = v.to
              /\ v.from <= w.from /\ v.to <= w.to /\ w.from <= v.to
          BY <1>6, <4>1 DEF Latest, Follows
        <4>3. last.from \in Nat /\ v.from \in Nat
          BY <1>6, <4>1 DEF Chunk, Window
        <4>4. last.from <= w.from
          BY <1>3, <4>2, <4>3
        <4> QED
          BY <2>1, <4>1, <4>2, <4>4 DEF Overlapped
      <3> QED
        BY <3>2, <3>3
    <2>9. Joins => \A k \in 1 .. Len(s) : Lean(ends, s[k])
      <3> SUFFICES ASSUME Joins, NEW k \in 1 .. Len(s) PROVE Lean(ends, s[k])
        OBVIOUS
      <3>1. k \in 1 .. n \/ k = n + 1
        BY <1>1, <2>5
      <3> QED
        BY <1>7, <2>4, <2>5, <3>1
    <2>10. s = chunks' /\ w = windows'[taken']
      BY <1>5 DEF s, w
    <2> HIDE DEF n
    <2> QED
      <3>1. /\ taken' \in 0 .. Len(windows') /\ cursor' \in Nat /\ taken' # 0 /\ phase' = "chunk"
        BY <1>1, <1>4, <1>5 DEF count
      <3>2. /\ chunks' \in Seq(Chunk) /\ chunks' # <<>> /\ chunks'[1].from = 0
        BY <2>5, <2>6, <2>7, <2>10
      <3>3. /\ \A k \in 1 .. Len(chunks') - 1 : Overlapped(chunks'[k], chunks'[k + 1])
            /\ Joins => \A k \in 1 .. Len(chunks') : Lean(ends', chunks'[k])
        BY <1>5, <2>5, <2>8, <2>9, <2>10
      <3>4. Latest(ends', chunks'[Len(chunks')], windows'[taken'])
        BY <1>5, <2>4, <2>6, <2>10
      <3> QED
        BY <3>1, <3>2, <3>3, <3>4 DEF ChunkInv
  <1> QED
    BY <1>8, <1>9


LEMMA ChunkStep == SplitInv /\ SplitInv' /\ ChunkInv /\ [Next]_vars => ChunkInv'
  <1> SUFFICES ASSUME SplitInv, SplitInv', ChunkInv, [Next]_vars PROVE ChunkInv'
    OBVIOUS
  <1> USE DEF splitting, numbering, chosen
  <1>1. windows' \in Seq(Window) /\ Len(windows') \in Nat
    BY DEF SplitInv
  <1>2. ASSUME phase = "split", phase' \in {"split", "chunk"}, UNCHANGED numbering
        PROVE  ChunkInv'
    <2>1. taken = 0 /\ chunks = <<>> /\ cursor \in Nat
      BY <1>2 DEF ChunkInv
    <2>2. taken' = 0 /\ chunks' = <<>> /\ cursor' \in Nat
      BY <1>2, <2>1
    <2>3. Len(chunks') = 0 /\ chunks' \in Seq(Chunk)
      BY <2>2
    <2> QED
      BY <1>1, <1>2, <2>2, <2>3 DEF ChunkInv
  <1>3. CASE SplitLarge \/ AddBlock \/ CloseWindow \/ EndSplit
    BY <1>2, <1>3 DEF SplitLarge, AddBlock, CloseWindow, EndSplit
  <1>4. CASE \E context \in 0 .. MaxContext : ToChunk(context)
    BY <1>4, ToChunkStep
  <1>5. ASSUME UNCHANGED <<ends, splitting, numbering>>,
               \/ phase' = phase
               \/ phase' = "select" /\ taken = Len(windows)
               \/ phase' = "done" /\ phase = "select"
        PROVE  ChunkInv'
    <2>1. /\ phase' \in {"select", "done"} => taken = Len(windows)
          /\ phase' = "split" => taken = 0
      BY <1>5 DEF ChunkInv
    <2> QED
      BY <1>5, <2>1 DEF ChunkInv
  <1>6. CASE EndChunks
    BY <1>5, <1>6 DEF EndChunks
  <1>7. CASE Select
    BY <1>5, <1>7 DEF Select
  <1>8. CASE Finished \/ UNCHANGED vars
    BY <1>5, <1>8 DEF Finished, vars
  <1> QED
    BY <1>3, <1>4, <1>6, <1>7, <1>8 DEF Next

\* Both invariants hold throughout.
LEMMA Cut == Spec => [](SplitInv /\ ChunkInv)
  <1>1. Init => SplitInv /\ ChunkInv
    BY SplitInit, ChunkInit
  <1>2. SplitInv /\ ChunkInv /\ [Next]_vars => (SplitInv /\ ChunkInv)'
    BY SplitStep, ChunkStep
  <1> QED
    BY <1>1, <1>2, PTL DEF Spec

\* Windows in a row leave no gap.
LEMMA RowCovers ==
    ASSUME NEW d, NEW s \in Seq(Window), InARow(d, s), FromStart(s), s # <<>>
    PROVE  Covers(s, s[Len(s)].to)
  <1>1. \A i \in 1 .. Len(s) - 1 :
           /\ s[i].from <= s[i + 1].from /\ s[i].to <= s[i + 1].to
           /\ s[i + 1].from <= s[i].to
    BY DEF InARow, Follows
  <1> QED
    BY <1>1 DEF FromStart, Covers

\* Whatever the blocks, budgets and overlap: split leaves no token out between
\* the windows and `current`, and to_chunks none between windows and chunks.
THEOREM TokensKept == Spec => []NothingLost
  <1>1. SplitInv /\ ChunkInv => NothingLost
    <2> SUFFICES ASSUME SplitInv, ChunkInv PROVE NothingLost
      OBVIOUS
    <2>1. /\ windows \in Seq(Window) /\ InARow(ends, windows) /\ FromStart(windows)
          /\ ends \in Document /\ chunks \in Seq(Chunk)
          /\ Len(ends) \in Nat \ {0} /\ ends[1] = 0 /\ Blocks + 1 = Len(ends)
          /\ ends[pos] \in Nat /\ ends[first] \in Nat /\ ends[first] <= ends[pos]
      BY Positions, Offsets DEF SplitInv, ChunkInv
    <2>2. ASSUME NEW f \in {first, Len(ends)}, NEW p \in {pos, Len(ends)},
                 Tip(ends, windows, f, p), ends[f] \in Nat, ends[p] \in Nat, ends[f] <= ends[p]
          PROVE  \E to \in ends[f] .. ends[p] : Covers(windows, to) /\ (f = p => to = ends[p])
      <3>1. CASE windows = <<>>
        <4>1. f = 1
          BY <2>2, <3>1 DEF Tip
        <4>2. Covers(windows, ends[f]) /\ ends[f] \in ends[f] .. ends[p]
          BY <2>1, <2>2, <3>1, <4>1 DEF Covers
        <4> QED
          BY <4>2
      <3>2. CASE windows # <<>>
        <4> DEFINE w == windows[Len(windows)]
        <4>1. w \in Window
          <5>1. Len(windows) \in 1 .. Len(windows)
            BY <2>1, <3>2, EmptySeq
          <5> QED
            BY <2>1, <5>1, ElementOfSeq
        <4>2. w.to \in Nat
          BY <4>1 DEF Window
        <4>3. ends[f] <= w.to /\ w.to <= ends[p] /\ (f = p => w.to = ends[p])
          BY <2>2, <3>2 DEF Tip
        <4>4. Covers(windows, w.to)
          BY <2>1, <3>2, RowCovers
        <4> HIDE DEF w
        <4>5. w.to \in ends[f] .. ends[p]
          BY <2>2, <4>2, <4>3
        <4> QED
          BY <4>3, <4>4, <4>5
      <3> QED
        BY <3>1, <3>2
    <2>3. phase = "split" =>
             \E to \in ends[first] .. ends[pos] : Covers(windows, to) /\ (first = pos => to = ends[pos])
      BY <2>1, <2>2 DEF SplitInv
    <2>4. ASSUME phase # "split" PROVE Covers(windows, ends[Blocks + 1])
      <3>1. ends[Len(ends)] \in Nat
        BY <2>1, Offsets
      <3>2. Tip(ends, windows, Len(ends), Len(ends))
        BY <2>4 DEF SplitInv
      <3>3. \E to \in ends[Len(ends)] .. ends[Len(ends)] :
               Covers(windows, to) /\ to = ends[Len(ends)]
        BY <2>2, <3>1, <3>2
      <3> QED
        BY <2>1, <3>3
    <2>5. ASSUME phase \in {"select", "done"} PROVE Covers(chunks, ends[Blocks + 1])
      <3>1. taken = Len(windows) /\ Covers(windows, ends[Blocks + 1])
        BY <2>4, <2>5 DEF ChunkInv
      <3>2. CASE chunks = <<>>
        <4>1. windows = <<>>
          BY <2>1, <3>1, <3>2, EmptySeq DEF ChunkInv
        <4> QED
          BY <3>1, <3>2, <4>1 DEF Covers
      <3>3. CASE chunks # <<>>
        <4>1. chunks[1].from = 0 /\ chunks[Len(chunks)].to = windows[Len(windows)].to
          BY <3>1, <3>3 DEF ChunkInv, Latest
        <4>2. windows # <<>>
          <5>1. Len(windows) # 0
            BY <3>1, <3>3 DEF ChunkInv
          <5> QED
            BY <5>1
        <4>3. windows[Len(windows)].to = ends[Blocks + 1]
          BY <3>1, <4>2 DEF Covers
        <4> QED
          BY <3>3, <4>1, <4>3 DEF Covers, ChunkInv, Overlapped
      <3> QED
        BY <3>2, <3>3
    <2> QED
      BY <2>3, <2>4, <2>5 DEF NothingLost
  <1> QED
    BY Cut, <1>1, PTL

\* No chunk that lies within a block above CHUNK_TOKENS exceeds the budget,
\* joined short pieces included, when MIN_CHUNK_TOKENS suits the overlap.
THEOREM LargeBlocksKept == Spec => []LargeBudget
  <1>1. SplitInv /\ ChunkInv => LargeBudget
    <2> SUFFICES ASSUME SplitInv, ChunkInv,
                        2 * (MinTokens - 1) <= OverlapTokens /\ MinTokens <= ChunkTokens - OverlapTokens,
                        NEW k \in DOMAIN chunks,
                        NEW i \in 1 .. Blocks,
                        Size(i) > ChunkTokens, ends[i] <= chunks[k].from, chunks[k].to <= ends[i + 1]
                 PROVE  chunks[k].tokens <= ChunkTokens + MaxContext
      BY DEF LargeBudget
    <2>1. Joins
      BY DEF Joins
    <2>2. k \in 1 .. Len(chunks)
      BY DEF ChunkInv
    <2>3. Lean(ends, chunks[k])
      BY <2>1, <2>2 DEF ChunkInv
    <2>4. Within(ends, chunks[k], i) /\ i \in 1 .. Len(ends) - 1
      BY DEF Within, Extent, Size, Blocks
    <2> QED
      BY <2>3, <2>4 DEF Lean
  <1> QED
    BY Cut, <1>1, PTL


(***************************************************************************)
(* The selection.                                                          *)
(***************************************************************************)

\* round(x / b) is no further from x / b than a half.
LEMMA RoundNear ==
    ASSUME NEW x \in Nat, NEW b \in Nat \ {0}
    PROVE  /\ Round(x, b) \in Nat /\ b * Round(x, b) \in Nat
           /\ 2 * (b * Round(x, b)) <= 2 * x + b
           /\ 2 * (b * Round(x, b)) >= 2 * x - b
  <1> DEFINE q == x \div b
             r == x % b
  <1>1. q \in Nat /\ r \in Nat /\ r < b /\ x = b * q + r
    BY DivMod
  <1>2. Round(x, b) \in {q, q + 1} /\ (Round(x, b) = q => 2 * r <= b) /\ (Round(x, b) = q + 1 => 2 * r >= b)
    <2>1. Round(x, b) = IF 2 * r < b \/ (2 * r = b /\ q % 2 = 0) THEN q ELSE q + 1
      BY DEF Round
    <2> HIDE DEF q, r
    <2> QED
      BY <1>1, <2>1
  <1> HIDE DEF q, r
  <1>3. b * q \in Nat /\ b * (q + 1) = b * q + b
    BY <1>1, Product
  <1>4. CASE Round(x, b) = q
    BY <1>1, <1>2, <1>3, <1>4
  <1>5. CASE Round(x, b) = q + 1
    <2>1. b * Round(x, b) = b * q + b /\ 2 * r >= b /\ Round(x, b) \in Nat
      BY <1>1, <1>2, <1>3, <1>5
    <2> QED
      BY <1>1, <1>3, <2>1
  <1> QED
    BY <1>2, <1>4, <1>5

\* Multiples of b that are less than b apart.
LEMMA SameMultiple ==
    ASSUME NEW b \in Nat \ {0}, NEW p \in Int, NEW q \in Int, b * p < b * q + b
    PROVE  p <= q
  <1> SUFFICES ASSUME p > q PROVE FALSE
    OBVIOUS
  <1>1. (q + 1) * b <= p * b
    BY ProductMonotone
  <1>2. (q + 1) * b = b * q + b /\ p * b = b * p /\ b * q \in Int /\ b * p \in Int
    OBVIOUS
  <1> QED
    BY <1>1, <1>2

\* A multiple of b is rounded to itself.
LEMMA RoundMultiple ==
    ASSUME NEW q \in Nat, NEW b \in Nat \ {0}
    PROVE  Round(q * b, b) = q
  <1> DEFINE x == q * b
             r == Round(x, b)
  <1>1. x \in Nat /\ x = b * q /\ b * q \in Nat
    BY Product
  <1> HIDE DEF x
  <1>2. /\ r \in Nat /\ b * r \in Nat
        /\ 2 * (b * r) <= 2 * x + b /\ 2 * (b * r) >= 2 * x - b
    BY <1>1, RoundNear
  <1> HIDE DEF r
  <1>3. b * r < b * q + b /\ b * q < b * r + b
    BY <1>1, <1>2
  <1>4. r <= q /\ q <= r
    BY <1>2, <1>3, SameMultiple
  <1>5. r = q
    BY <1>2, <1>4
  <1> QED
    BY <1>5 DEF r, x

\* Half of b is no multiple of b.
LEMMA NoHalf ==
    ASSUME NEW b \in Nat \ {0}, NEW m \in Int, 2 * (b * m) = - b
    PROVE  FALSE
  <1>1. b * m \in Int /\ b * 0 = 0
    OBVIOUS
  <1>2. b * m < b * 0 + b /\ b * 0 < b * m + b
    BY <1>1
  <1>3. m <= 0 /\ 0 <= m
    BY <1>2, SameMultiple
  <1>4. m = 0
    BY <1>3
  <1> QED
    BY <1>1, <1>4

\* The chunks that fill two slots, the one after the other: a chunk further on,
\* and not by more than the even distribution and one.
LEMMA Apart ==
    ASSUME NEW a \in Nat, NEW b \in Nat \ {0}, b < a, NEW x \in Nat
    PROVE  LET p == Round(x * a, b)
               q == Round((x + 1) * a, b)
           IN  p \in Nat /\ q \in Nat /\ p < q /\ (q - p - 1) * b < a
  <1> DEFINE u == x * a
             v == (x + 1) * a
             p == Round(u, b)
             q == Round(v, b)
  <1>1. u \in Nat /\ v \in Nat /\ v = u + a
    BY Product, Distribute
  <1> HIDE DEF u, v
  <1>2. /\ p \in Nat /\ b * p \in Nat
        /\ 2 * (b * p) <= 2 * u + b /\ 2 * (b * p) >= 2 * u - b
    BY <1>1, RoundNear
  <1>3. /\ q \in Nat /\ b * q \in Nat
        /\ 2 * (b * q) <= 2 * v + b /\ 2 * (b * q) >= 2 * v - b
    BY <1>1, RoundNear
  <1> HIDE DEF p, q
  <1>4. p < q
    <2> SUFFICES ASSUME q <= p PROVE FALSE
      BY <1>2, <1>3
    <2>1. q * b <= p * b
      BY <1>2, <1>3, ProductMonotone
    <2>2. q * b = b * q /\ p * b = b * p
      BY <1>2, <1>3
    <2> QED
      BY <1>1, <1>2, <1>3, <2>1, <2>2
  <1>5. (q - p - 1) * b = b * q - b * p - b
    BY <1>2, <1>3
  <1>6. (q - p - 1) * b <= a
    BY <1>1, <1>2, <1>3, <1>5
  <1>7. ASSUME (q - p - 1) * b = a PROVE FALSE
    <2> DEFINE d == q - p - 1
               m == p - x * d
    <2>1. 2 * (b * p) = 2 * u - b
      BY <1>1, <1>2, <1>3, <1>5, <1>7
    <2>2. d \in Int /\ a = d * b
      BY <1>2, <1>3, <1>7
    <2> HIDE DEF d
    <2>3. u = b * (x * d)
      <3>1. x * (d * b) = b * (x * d)
        BY <2>2
      <3> QED
        BY <2>2, <3>1 DEF u
    <2>4. x * d \in Int
      BY <2>2
    <2>5. b * (p - x * d) = b * p - b * (x * d)
      BY <1>2, <2>4
    <2>6. m \in Int /\ b * m = b * p - u
      BY <1>2, <2>3, <2>4, <2>5
    <2> HIDE DEF m
    <2>7. 2 * (b * m) = - b
      BY <1>1, <1>2, <2>1, <2>6
    <2> QED
      BY <2>6, <2>7, NoHalf
  <1>8. (q - p - 1) * b < a
    <2>1. (q - p - 1) * b \in Int
      BY <1>2, <1>3
    <2> QED
      BY <1>6, <1>7, <2>1
  <1> QED
    BY <1>2, <1>3, <1>4, <1>8 DEF p, q, u, v


LEMMA RepresentativesSpread ==
    ASSUME NEW n \in Nat, NEW k \in Nat, k < n
    PROVE  LET s == Representatives(n, k)
           IN  /\ s \in Seq(Nat \ {0}) /\ Len(s) = k
               /\ \A i \in 1 .. k : s[i] \in 1 .. n
               /\ k > 0 => s[1] = 1
               /\ k > 1 => /\ s[k] = n
                           /\ \A i \in 1 .. k - 1 :
                                 s[i] < s[i + 1] /\ (s[i + 1] - s[i] - 1) * (k - 1) < n - 1
  <1> DEFINE s == Representatives(n, k)
             a == n - 1
             b == k - 1
             at(x) == Round(x * a, b)
  <1>1. n \in Nat \ {0} /\ a \in Nat
    OBVIOUS
  <1>2. /\ s \in Seq(Nat \ {0}) /\ Len(s) = k
        /\ k # 1 => \A slot \in 1 .. k : s[slot] = 1 + at(slot - 1)
    BY <1>1, RepresentativesType DEF Spread
  <1>3. CASE k = 0
    BY <1>2, <1>3
  <1>4. CASE k = 1
    <2>1. s = <<1>>
      BY <1>4 DEF Representatives
    <2> QED
      BY <1>1, <1>2, <1>4, <2>1
  <1>5. CASE k > 1
    <2>1. b \in Nat \ {0} /\ b < a
      BY <1>5
    <2> HIDE DEF a, b
    <2>2. ASSUME NEW x \in Nat PROVE /\ at(x) \in Nat /\ at(x + 1) \in Nat /\ at(x) < at(x + 1)
                                     /\ (at(x + 1) - at(x) - 1) * b < a
      BY <1>1, <2>1, Apart
    <2>3. at(0) = 0
      <3>1. 0 * a = 0 * b
        BY <1>1, <2>1
      <3>2. Round(0 * b, b) = 0
        BY <2>1, RoundMultiple
      <3> QED
        BY <3>1, <3>2
    <2>4. at(b) = a
      <3>1. b * a = a * b
        BY <1>1, <2>1
      <3>2. Round(a * b, b) = a
        BY <1>1, <2>1, RoundMultiple
      <3> QED
        BY <3>1, <3>2
    <2>5. ASSUME NEW x \in Nat, x <= b PROVE at(x) <= a
      <3>1. /\ at(x) \in Nat /\ b * at(x) \in Nat /\ x * a \in Nat
            /\ 2 * (b * at(x)) <= 2 * (x * a) + b
        BY <1>1, <2>1, Product, RoundNear
      <3>2. x * a <= b * a /\ b * a \in Nat
        BY <1>1, <2>1, <2>5, Product, ProductMonotone
      <3> HIDE DEF at
      <3>3. b * at(x) < b * a + b
        BY <2>1, <3>1, <3>2
      <3> QED
        BY <1>1, <2>1, <3>1, <3>3, SameMultiple
    <2>6. n = a + 1 /\ k = b + 1
      BY DEF a, b
    <2> HIDE DEF at, s
    <2>7. \A i \in 1 .. k : s[i] \in 1 .. n
      <3> TAKE i \in 1 .. k
      <3>1. i - 1 \in Nat /\ i - 1 <= b /\ s[i] = 1 + at(i - 1)
        BY <1>2, <1>5, <2>1, <2>6
      <3>2. at(i - 1) \in Nat /\ at(i - 1) <= a
        BY <2>2, <2>5, <3>1
      <3> QED
        BY <1>1, <2>6, <3>1, <3>2
    <2>8. s[1] = 1 /\ s[k] = n
      <3>1. /\ 1 \in 1 .. k /\ k \in 1 .. k /\ 1 - 1 = 0 /\ k - 1 = b
        BY <1>5, <2>1, <2>6
      <3>2. s[1] = 1 + at(0) /\ s[k] = 1 + at(b)
        BY <1>2, <1>5, <3>1
      <3> QED
        BY <1>1, <2>3, <2>4, <2>6, <3>2
    <2>9. \A i \in 1 .. k - 1 : s[i] < s[i + 1] /\ (s[i + 1] - s[i] - 1) * b < a
      <3> TAKE i \in 1 .. k - 1
      <3> DEFINE x == i - 1
      <3>1. x \in Nat /\ i \in 1 .. k /\ i + 1 \in 1 .. k /\ (i + 1) - 1 = x + 1
        OBVIOUS
      <3>2. s[i] = 1 + at(x) /\ s[i + 1] = 1 + at(x + 1)
        BY <1>2, <1>5, <3>1
      <3> HIDE DEF x
      <3>3. /\ at(x) \in Nat /\ at(x + 1) \in Nat /\ at(x) < at(x + 1)
            /\ (at(x + 1) - at(x) - 1) * b < a
        BY <2>2, <3>1
      <3>4. s[i + 1] - s[i] - 1 = at(x + 1) - at(x) - 1
        BY <3>2, <3>3
      <3> QED
        BY <3>2, <3>3, <3>4
    <2> QED
      BY <1>2, <2>7, <2>8, <2>9 DEF a, b, s
  <1> QED
    BY <1>3, <1>4, <1>5

\* Every chunk is in a group.
LEMMA GroupsCover ==
    ASSUME NEW n \in Nat, NEW c \in 1 .. n
    PROVE  \E g \in 1 .. Len(Groups(n)) : Groups(n)[g].from <= c /\ c <= Groups(n)[g].to
  <1> DEFINE q == (c - 1) \div GroupSize
             g == q + 1
             m == (n + GroupSize - 1) \div GroupSize
  <1>1. GroupSize \in Nat \ {0} /\ c - 1 \in Nat /\ n \in Nat
    BY ChunkingAssumption
  <1>2. /\ q \in Nat /\ (c - 1) % GroupSize \in Nat /\ (c - 1) % GroupSize < GroupSize
        /\ c - 1 = GroupSize * q + ((c - 1) % GroupSize)
    <2> DEFINE x == c - 1
    <2>1. x \in Nat
      BY <1>1
    <2> HIDE DEF x
    <2>2. /\ x \div GroupSize \in Nat /\ x % GroupSize \in Nat /\ x % GroupSize < GroupSize
          /\ x = GroupSize * (x \div GroupSize) + (x % GroupSize)
      BY <1>1, <2>1, DivMod
    <2> QED
      BY <2>2 DEF x
  <1>3. m \in Nat /\ m * GroupSize >= n
    BY <1>1, Ceiling
  <1> HIDE DEF q, m
  <1>4. q * GroupSize \in Nat /\ q * GroupSize = GroupSize * q /\ (q + 1) * GroupSize = q * GroupSize + GroupSize
    BY <1>1, <1>2, Product, Distribute
  <1>5. q * GroupSize + 1 <= c /\ c <= (q + 1) * GroupSize
    BY <1>1, <1>2, <1>4
  <1>6. GroupSize * q < GroupSize * (m - 1) + GroupSize
    <2>1. GroupSize * (m - 1) + GroupSize = m * GroupSize /\ m * GroupSize \in Nat
      BY <1>1, <1>3, Product
    <2> QED
      BY <1>1, <1>3, <1>4, <1>5, <2>1
  <1>7. q <= m - 1
    <2>1. m - 1 \in Int /\ q \in Int
      BY <1>2, <1>3
    <2> DEFINE p == m - 1
    <2> HIDE DEF p
    <2>2. p \in Int /\ GroupSize * q < GroupSize * p + GroupSize
      BY <1>6, <2>1 DEF p
    <2>3. q <= p
      BY <1>1, <2>1, <2>2, SameMultiple
    <2> QED
      BY <2>3 DEF p
  <1>8. g \in 1 .. m /\ g - 1 = q
    BY <1>2, <1>3, <1>7
  <1>9. Len(Groups(n)) = m /\ Groups(n)[g].from = (g - 1) * GroupSize + 1
        /\ Groups(n)[g].to = Least(g * GroupSize, n)
    BY <1>1, <1>8, GroupsType DEF m
  <1>10. c <= Least(g * GroupSize, n)
    BY <1>1, <1>5 DEF Least
  <1> QED
    BY <1>5, <1>8, <1>9, <1>10


\* What the summaries of n chunks cover.
Sections(n) ==
    IF MaxSummaries > 0 /\ Len(Groups(n)) > MaxSummaries
      THEN LET pick == Representatives(Len(Groups(n)), MaxSummaries)
           IN  [i \in 1 .. MaxSummaries |-> Groups(n)[pick[i]]]
      ELSE Groups(n)

\* The invariant of prepare_chunks.
SelectInv ==
    /\ content \in Seq(Nat) /\ groups \in Seq(Group)
    /\ phase = "done" /\ Len(chunks) > MaxChunks =>
          content = Representatives(Len(chunks), MaxChunks) /\ groups = Sections(Len(chunks))

LEMMA SectionsType ==
    ASSUME NEW n \in Nat
    PROVE  /\ Sections(n) \in Seq(Group)
           /\ MaxSummaries > 0 => Len(Sections(n)) <= MaxSummaries
  <1> DEFINE all == Groups(n)
             pick == Representatives(Len(all), MaxSummaries)
  <1>1. all \in Seq(Group) /\ Len(all) \in Nat /\ MaxSummaries \in Nat
    BY GroupsType, ChunkingAssumption
  <1>2. CASE MaxSummaries > 0 /\ Len(all) > MaxSummaries
    <2>1. \A i \in 1 .. MaxSummaries : pick[i] \in 1 .. Len(all)
      BY <1>1, <1>2, RepresentativesSpread
    <2>2. Sections(n) = [i \in 1 .. MaxSummaries |-> all[pick[i]]]
      BY <1>2 DEF Sections
    <2> HIDE DEF all, pick
    <2>3. \A i \in 1 .. MaxSummaries : all[pick[i]] \in Group
      BY <1>1, <2>1, ElementOfSeq
    <2>4. Sections(n) \in Seq(Group) /\ Len(Sections(n)) = MaxSummaries
      BY <1>1, <2>2, <2>3
    <2> QED
      BY <1>1, <2>4
  <1>3. CASE ~(MaxSummaries > 0 /\ Len(all) > MaxSummaries)
    BY <1>1, <1>3 DEF Sections
  <1> QED
    BY <1>2, <1>3

LEMMA SelectStep == ChunkInv /\ SelectInv /\ [Next]_vars => SelectInv'
  <1> SUFFICES ASSUME ChunkInv, SelectInv, [Next]_vars PROVE SelectInv'
    OBVIOUS
  <1> USE DEF splitting, numbering, chosen
  <1>1. CASE Select
    <2> DEFINE n == Len(chunks)
    <2>1. n \in Nat /\ MaxChunks \in Nat /\ chunks' = chunks
      BY <1>1, ChunkingAssumption DEF ChunkInv, Select
    <2>2. CASE n <= MaxChunks
      <3>1. content' = [i \in 1 .. n |-> i] /\ groups' = <<>>
        BY <1>1, <2>2 DEF Select
      <3>2. content' \in Seq(Nat) /\ groups' \in Seq(Group)
        BY <2>1, <3>1
      <3> QED
        BY <2>1, <2>2, <3>2 DEF SelectInv
    <2>3. CASE n > MaxChunks
      <3>1. content' = Representatives(n, MaxChunks) /\ groups' = Sections(n)
        BY <1>1, <2>1, <2>3 DEF Select, Sections
      <3>2. Representatives(n, MaxChunks) \in Seq(Nat \ {0})
        BY <2>1, <2>3, RepresentativesSpread
      <3>3. Sections(n) \in Seq(Group)
        BY <2>1, SectionsType
      <3> HIDE DEF n
      <3>4. content' \in Seq(Nat) /\ groups' \in Seq(Group)
        <4>1. content' \in Seq(Nat \ {0})
          BY <3>1, <3>2
        <4>2. content' \in Seq(Nat)
          BY <4>1
        <4> QED
          BY <3>1, <3>3, <4>2
      <3> QED
        BY <2>1, <3>1, <3>4 DEF SelectInv, n
    <2> QED
      BY <2>1, <2>2, <2>3
  <1>2. ASSUME UNCHANGED chosen, phase' # "done" PROVE SelectInv'
    BY <1>2 DEF SelectInv
  <1>3. ASSUME UNCHANGED vars PROVE SelectInv'
    BY <1>3 DEF SelectInv, vars
  <1>4. CASE SplitLarge \/ AddBlock \/ CloseWindow \/ EndSplit \/ EndChunks
    BY <1>2, <1>4 DEF SplitLarge, AddBlock, CloseWindow, EndSplit, EndChunks
  <1>5. CASE \E context \in 0 .. MaxContext : ToChunk(context)
    BY <1>2, <1>5 DEF ToChunk
  <1>6. CASE Finished \/ UNCHANGED vars
    BY <1>3, <1>6 DEF Finished
  <1> QED
    BY <1>1, <1>4, <1>5, <1>6 DEF Next

LEMMA Chosen == Spec => [](SplitInv /\ ChunkInv /\ SelectInv)
  <1>1. Init => SelectInv
    BY DEF Init, SelectInv
  <1>2. ChunkInv /\ SelectInv /\ [Next]_vars => SelectInv'
    BY SelectStep
  <1> QED
    BY Cut, <1>1, <1>2, PTL DEF Spec

\* The indices into blocks, windows and chunks stay in range, and
\* current_tokens is the size of what `current` holds after every step.
THEOREM TypesKept == Spec => []TypeOK
  <1>1. SplitInv /\ ChunkInv /\ SelectInv => TypeOK
    BY Positions DEF SplitInv, ChunkInv, SelectInv, TypeOK, Group
  <1> QED
    BY Chosen, <1>1, PTL

\* select_representative_chunks and select_representative_groups fill their slots
\* with different chunks, evenly, from the first to the last, whatever round()
\* makes of halves; and the sections of an oversized document leave out no chunk.
THEOREM SelectionKept == Spec => []SelectionSpread
  <1>1. SplitInv /\ ChunkInv /\ SelectInv => SelectionSpread
    <2> DEFINE n == Len(chunks)
    <2> SUFFICES ASSUME ChunkInv, SelectInv, phase = "done" /\ n > MaxChunks
                 PROVE  /\ Len(content) = MaxChunks
                        /\ MaxChunks > 0 => content[1] = 1
                        /\ MaxChunks > 1 =>
                              /\ content[MaxChunks] = n
                              /\ \A i \in 1 .. MaxChunks - 1 :
                                    /\ content[i] < content[i + 1]
                                    /\ (content[i + 1] - content[i] - 1) * (MaxChunks - 1) < n - 1
                        /\ MaxSummaries > 0 => Len(groups) <= MaxSummaries
                        /\ Len(Groups(n)) <= MaxSummaries \/ MaxSummaries = 0 =>
                              \A c \in 1 .. n : \E g \in DOMAIN groups :
                                 groups[g].from <= c /\ c <= groups[g].to
      BY DEF SelectionSpread
    <2>1. n \in Nat /\ MaxChunks \in Nat /\ MaxChunks < n /\ MaxSummaries \in Nat
      BY ChunkingAssumption DEF ChunkInv
    <2>2. content = Representatives(n, MaxChunks) /\ groups = Sections(n) /\ groups \in Seq(Group)
      BY DEF SelectInv
    <2> HIDE DEF n
    <2>3. /\ Len(content) = MaxChunks
          /\ MaxChunks > 0 => content[1] = 1
          /\ MaxChunks > 1 =>
                /\ content[MaxChunks] = n
                /\ \A i \in 1 .. MaxChunks - 1 :
                      /\ content[i] < content[i + 1]
                      /\ (content[i + 1] - content[i] - 1) * (MaxChunks - 1) < n - 1
      BY <2>1, <2>2, RepresentativesSpread
    <2>4. MaxSummaries > 0 => Len(groups) <= MaxSummaries
      BY <2>1, <2>2, SectionsType
    <2>5. ASSUME Len(Groups(n)) <= MaxSummaries \/ MaxSummaries = 0, NEW c \in 1 .. n
          PROVE  \E g \in DOMAIN groups : groups[g].from <= c /\ c <= groups[g].to
      <3>1. Len(Groups(n)) \in Nat
        BY <2>1, GroupsType
      <3>2. groups = Groups(n)
        BY <2>1, <2>2, <2>5, <3>1 DEF Sections
      <3>3. \E g \in 1 .. Len(Groups(n)) : Groups(n)[g].from <= c /\ c <= Groups(n)[g].to
        BY <2>1, GroupsCover
      <3>4. DOMAIN groups = 1 .. Len(groups)
        BY <2>2
      <3> QED
        BY <3>2, <3>3, <3>4
    <2> QED
      BY <2>3, <2>4, <2>5
  <1> QED
    BY Chosen, <1>1, PTL
=============================================================================
