----------------------------- MODULE MCChunking -----------------------------
(* Chunking on all documents of a few blocks of a few sizes.               *)
EXTENDS Chunking

CONSTANTS Sizes, MaxBlocks

\* The documents that have one block more than those of D.
Longer(D) == {Append(d, d[Len(d)] + size) : d \in D, size \in Sizes}

LengthOf[n \in Nat] == IF n = 0 THEN {<<0>>} ELSE Longer(LengthOf[n - 1])

Documents == UNION {LengthOf[n] : n \in 0 .. MaxBlocks}
=============================================================================
