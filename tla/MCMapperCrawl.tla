--------------------------- MODULE MCMapperCrawl ---------------------------
(* Small sites for MapperCrawl.  They have cycles, and pages that several  *)
(* workers find at the same time.                                          *)
EXTENDS MapperCrawl, TLC

CONSTANTS s, a, b, c    \* URLs

\* s links to a and b, which both link to c; a links to b and back to s, too.
Diamond == (s :> {a, b}) @@ (a :> {s, b, c}) @@ (b :> {c}) @@ (c :> {s})

\* Three pages that all know each other but for one link.
Triangle == (s :> {a, b}) @@ (a :> {s, b}) @@ (b :> {a})

\* s links to all: with a batch size of one the channel fills up.
Star == (s :> {a, b, c}) @@ (a :> {s, c}) @@ (b :> {a}) @@ (c :> {})

SymmetricWorkers == Permutations(Worker)
=============================================================================
