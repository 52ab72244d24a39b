------------------------------ MODULE Chunking ------------------------------
(***************************************************************************)
(* How the vectorizer cuts a document into chunks: MarkdownChunker.split   *)
(* (services/vectorizer/src/vectorizer/chunking.py) and prepare_chunks     *)
(* (hierarchy.py), one step per turn of their loops.                       *)
(*                                                                         *)
(* A document is a sequence of Markdown blocks.  Only the number of tokens *)
(* of a block matters, so the document is given by the offsets at which    *)
(* its blocks begin and end: block i lies between ends[i] and ends[i + 1]. *)
(* Whatever the splitter makes of consecutive tokens is then an interval   *)
(* of offsets.  The separators between blocks are not counted.  The line   *)
(* "Context: ..." that names the headings of a chunk costs between 0 and   *)
(* MaxContext tokens.                                                      *)
(***************************************************************************)
EXTENDS Integers, Sequences

CONSTANTS Document,      \* the documents to be cut, as offsets of their blocks
          ChunkTokens,   \* CHUNK_TOKENS
          OverlapTokens, \* CHUNK_OVERLAP_TOKENS, below CHUNK_TOKENS (config.py:44)
          MinTokens,     \* MIN_CHUNK_TOKENS
          MaxContext,    \* tokens of the longest heading context
          MaxChunks,     \* MAX_CHUNKS_PER_DOCUMENT
          GroupSize,     \* SUMMARY_GROUP_CHUNKS
          MaxSummaries   \* MAX_SUMMARY_CHUNKS, 0 for no limit

ASSUME ChunkingAssumption ==
    /\ \A d \in Document :
          /\ d \in Seq(Nat) /\ Len(d) > 0 /\ d[1] = 0
          /\ \A i, j \in 1 .. Len(d) : i < j => d[i] < d[j]
    /\ ChunkTokens \in Nat /\ OverlapTokens \in Nat /\ OverlapTokens < ChunkTokens
    /\ MinTokens \in Nat /\ MaxContext \in Nat
    /\ MaxChunks \in Nat /\ GroupSize \in Nat \ {0} /\ MaxSummaries \in Nat

VARIABLES
    ends,     \* the document
    pos,      \* split: the block at hand
    first,    \* split: `current` holds the blocks from this one up to the one at hand
    tokens,   \* split: current_tokens
    windows,  \* split: the windows so far
    phase,    \* "split", "chunk", "select" or "done"
    taken,    \* to_chunks: the windows gone through
    chunks,   \* to_chunks: the chunks so far
    cursor,   \* to_chunks: the estimated offset of the next window
    content,  \* prepare_chunks: the numbers of the content chunks indexed
    groups    \* prepare_chunks: what the section summaries cover

splitting == <<pos, first, tokens, windows>>
numbering == <<taken, chunks, cursor>>
chosen    == <<content, groups>>
vars == <<ends, phase, splitting, numbering, chosen>>

Blocks == Len(ends) - 1
Size(i) == ends[i + 1] - ends[i]
Least(a, b) == IF a <= b THEN a ELSE b
Most(a, b)  == IF a >= b THEN a ELSE b

Window == [from : Nat, to : Nat, large : BOOLEAN]
Chunk  == [from : Nat, to : Nat, tokens : Nat, start : Nat, end : Nat]

\* The type invariant; current_tokens is at every turn the size of the blocks
\* in `current`, after it was emptied or cut back to the overlap, too.
TypeOK ==
    /\ phase \in {"split", "chunk", "select", "done"}
    /\ pos \in 1 .. Blocks + 1 /\ first \in 1 .. pos
    /\ tokens = ends[pos] - ends[first]
    /\ windows \in Seq(Window) /\ chunks \in Seq(Chunk)
    /\ taken \in 0 .. Len(windows) /\ cursor \in Nat
    /\ content \in Seq(Nat) /\ groups \in Seq([from : Nat, to : Nat])

Init ==
    /\ ends \in Document /\ phase = "split"
    /\ pos = 1 /\ first = 1 /\ tokens = 0 /\ windows = <<>>
    /\ taken = 0 /\ chunks = <<>> /\ cursor = 0
    /\ content = <<>> /\ groups = <<>>

-----------------------------------------------------------------------------
(* split: blocks to windows.                                               *)

\* join_blocks(current)
Joined == [from |-> ends[first], to |-> ends[pos], large |-> FALSE]
Flushed == IF first < pos THEN Append(windows, Joined) ELSE windows

\* Fault: the pieces do not overlap.
Step_whole == ChunkTokens

\* split_large_block goes on by this much from piece to piece.
Step == Most(1, ChunkTokens - OverlapTokens)

\* The pieces of a large block.  A piece is decoded, stripped and counted anew
\* (chunking.py:68); here it has the tokens it was cut from, and is not blank.
Pieces(b) ==
    LET at(k) == ends[b] + (k - 1) * Step
    IN  [k \in 1 .. (Size(b) + Step - 1) \div Step |->
            [from |-> at(k), to |-> Least(at(k) + ChunkTokens, ends[b + 1]), large |-> TRUE]]

\* Fault: the blocks before a large one are dropped.
SplitLarge_noFlush ==
    /\ phase = "split" /\ pos <= Blocks /\ Size(pos) > ChunkTokens
    /\ windows' = windows \o Pieces(pos)
    /\ pos' = pos + 1 /\ first' = pos + 1 /\ tokens' = 0
    /\ UNCHANGED <<ends, phase, numbering, chosen>>

\* A block that is too large is cut by itself.
SplitLarge ==
    /\ phase = "split" /\ pos <= Blocks /\ Size(pos) > ChunkTokens
    /\ windows' = Flushed \o Pieces(pos)
    /\ pos' = pos + 1 /\ first' = pos + 1 /\ tokens' = 0
    /\ UNCHANGED <<ends, phase, numbering, chosen>>

\* Fault: the size of the new block is forgotten.
Fits_before(b) == first = pos \/ tokens <= ChunkTokens

\* Block b still fits into the window, or is its first.
Fits(b) == first = pos \/ tokens + Size(b) <= ChunkTokens

AddBlock ==
    /\ phase = "split" /\ pos <= Blocks /\ Size(pos) <= ChunkTokens
    /\ Fits(pos)
    /\ pos' = pos + 1 /\ tokens' = tokens + Size(pos)
    /\ UNCHANGED <<ends, phase, first, windows, numbering, chosen>>

\* overlap_tail: the last block of the window, and as many before it as stay
\* within the overlap.
TailFrom(f) ==
    IF OverlapTokens = 0
      THEN f = pos
      ELSE LET repeated == {pos - 1} \cup
                           {i \in first .. pos - 1 : ends[pos] - ends[i] <= OverlapTokens}
           IN  f \in repeated /\ \A i \in repeated : f <= i

\* The window is full: the next begins with its tail and goes on with the block.
CloseWindow ==
    /\ phase = "split" /\ pos <= Blocks /\ Size(pos) <= ChunkTokens
    /\ ~Fits(pos)
    /\ windows' = Append(windows, Joined)
    /\ \E f \in first .. pos :
         /\ TailFrom(f)
         /\ first' = f
         /\ tokens' = ends[pos] - ends[f] + Size(pos)
    /\ pos' = pos + 1
    /\ UNCHANGED <<ends, phase, numbering, chosen>>

EndSplit ==
    /\ phase = "split" /\ pos = Blocks + 1
    /\ windows' = Flushed
    /\ phase' = "chunk"
    /\ UNCHANGED <<ends, pos, first, tokens, numbering, chosen>>

-----------------------------------------------------------------------------
(* to_chunks: windows to chunks.                                           *)

\* A short window joins the chunk before it, context line and all.
Merged(c, w, count) ==
    [c EXCEPT !.to = w.to, !.tokens = @ + count, !.end = cursor + count]

ToChunk(context) ==
    LET w == windows[taken + 1]
        count == w.to - w.from + context
        n == Len(chunks)
    IN  /\ phase = "chunk" /\ taken < Len(windows)
        /\ chunks' =
             IF count < MinTokens /\ chunks # <<>>
               THEN [chunks EXCEPT ![n] = Merged(chunks[n], w, count)]
               ELSE Append(chunks, [from |-> w.from, to |-> w.to, tokens |-> count,
                                    start |-> cursor, end |-> cursor + count])
        /\ cursor' = cursor + Most(1, count - OverlapTokens)
        /\ taken' = taken + 1
        /\ UNCHANGED <<ends, phase, splitting, chosen>>

EndChunks ==
    /\ phase = "chunk" /\ taken = Len(windows)
    /\ phase' = "select"
    /\ UNCHANGED <<ends, splitting, numbering, chosen>>

-----------------------------------------------------------------------------
(* prepare_chunks: which chunks are indexed.  They are counted from 1.     *)

\* Python's round(a / b): to the nearest integer, and halves to the even one.
Round(a, b) ==
    LET q == a \div b  r == a % b
    IN  IF 2 * r < b \/ (2 * r = b /\ q % 2 = 0) THEN q ELSE q + 1

\* Fault: the slots are spread over one chunk too many.
Spread_wide(n, k, slot) == 1 + Round((slot - 1) * n, k)

\* The chunk of n that fills a slot of k.
Spread(n, k, slot) == 1 + Round((slot - 1) * (n - 1), k - 1)

\* select_representative_chunks and select_representative_groups, when there
\* are more than k.
Representatives(n, k) ==
    IF k = 1 THEN <<1>> ELSE [slot \in 1 .. k |-> Spread(n, k, slot)]

Groups(n) ==
    [g \in 1 .. (n + GroupSize - 1) \div GroupSize |->
        [from |-> (g - 1) * GroupSize + 1, to |-> Least(g * GroupSize, n)]]

\* All the chunks, or a selection and the summaries of the sections.
Select ==
    LET n == Len(chunks)
        all == Groups(n)
    IN  /\ phase = "select"
        /\ phase' = "done"
        /\ IF n <= MaxChunks
             THEN content' = [i \in 1 .. n |-> i] /\ groups' = <<>>
             ELSE /\ content' = Representatives(n, MaxChunks)
                  /\ groups' =
                       IF MaxSummaries > 0 /\ Len(all) > MaxSummaries
                         THEN LET pick == Representatives(Len(all), MaxSummaries)
                              IN  [i \in 1 .. MaxSummaries |-> all[pick[i]]]
                         ELSE all
        /\ UNCHANGED <<ends, splitting, numbering>>

Finished == phase = "done" /\ UNCHANGED vars

Next ==
    \/ SplitLarge \/ AddBlock \/ CloseWindow \/ EndSplit
    \/ (\E context \in 0 .. MaxContext : ToChunk(context)) \/ EndChunks
    \/ Select \/ Finished

Spec == Init /\ [][Next]_vars

-----------------------------------------------------------------------------
(* Properties.                                                             *)

\* The intervals follow each other in order and without a gap, from the beginning of the
\* document to the given offset.
Covers(s, to) ==
    IF s = <<>>
      THEN to = 0
      ELSE /\ s[1].from = 0 /\ s[Len(s)].to = to
           /\ \A i \in 1 .. Len(s) - 1 :
                 /\ s[i].from <= s[i + 1].from /\ s[i].to <= s[i + 1].to
                 /\ s[i + 1].from <= s[i].to

\* No token of the document is lost on the way to the chunks, in spite of the
\* overlap, of blocks cut to pieces and of windows joined to others: before
\* the blocks in `current` all is in windows, and in the end all is in chunks.
NothingLost ==
    /\ phase = "split" =>
          \E to \in ends[first] .. ends[pos] : Covers(windows, to) /\ (first = pos => to = ends[pos])
    /\ phase # "split" => Covers(windows, ends[Blocks + 1])
    /\ phase \in {"select", "done"} => Covers(chunks, ends[Blocks + 1])

\* A window of small blocks exceeds CHUNK_TOKENS by no more than what it
\* repeats of the one before: the overlap, or a block that is larger.
\* A piece of a large block never does.
WindowBudget ==
    \A k \in DOMAIN windows :
        LET w == windows[k]
        IN  IF w.large
              THEN w.to - w.from <= ChunkTokens
              ELSE \E i \in 1 .. Blocks :
                      /\ ends[i] = w.from
                      /\ w.to - w.from <= ChunkTokens + Most(OverlapTokens, Size(i))

\* README, Chunking: "splits very large blocks without exceeding the target
\* token budget", the context line aside.  Joining a short last piece to the
\* one before, which repeats what they share, keeps to this when MIN_CHUNK_TOKENS
\* is small enough for the overlap, as it is by default.
LargeBudget ==
    2 * (MinTokens - 1) <= OverlapTokens /\ MinTokens <= ChunkTokens - OverlapTokens =>
        \A k \in DOMAIN chunks :
            (\E i \in 1 .. Blocks : /\ Size(i) > ChunkTokens
                                    /\ ends[i] <= chunks[k].from /\ chunks[k].to <= ends[i + 1])
            => chunks[k].tokens <= ChunkTokens + MaxContext

\* What is indexed of an oversized document: MAX_CHUNKS_PER_DOCUMENT different
\* chunks in order, the first and the last among them, no two neighbours
\* further apart than an even distribution allows; and at most
\* MAX_SUMMARY_CHUNKS sections, all of them when there is no limit.
SelectionSpread ==
    phase = "done" /\ Len(chunks) > MaxChunks =>
        LET n == Len(chunks)
        IN  /\ Len(content) = MaxChunks
            /\ MaxChunks > 0 => content[1] = 1
            /\ MaxChunks > 1 =>
                  /\ content[MaxChunks] = n
                  /\ \A i \in 1 .. MaxChunks - 1 :
                        /\ content[i] < content[i + 1]
                        /\ (content[i + 1] - content[i] - 1) * (MaxChunks - 1) < n - 1
            /\ MaxSummaries > 0 => Len(groups) <= MaxSummaries
            /\ Len(Groups(n)) <= MaxSummaries \/ MaxSummaries = 0 =>
                  \A c \in 1 .. n : \E g \in DOMAIN groups : groups[g].from <= c /\ c <= groups[g].to
=============================================================================
