------------------------------ MODULE MCParser ------------------------------
(* Small instances of Parser: a page that links to a PDF.                  *)
EXTENDS Parser

CONSTANTS page, pdf, image, site, old, new, blank, none, n1, n2, w1, w2

PageLinks == page :> {pdf}
OneSite   == [u \in URL |-> site]

\* Two workers of one replica, or one of each of two.
OneNode  == w1 :> n1 @@ w2 :> n1
TwoNodes == w1 :> n1 @@ w2 :> n2

\* The replicas are alike, each with its worker, as are the workers of one
\* replica, and the two contents.
Swapped(swap) == [x \in {n1, n2, w1, w2, old, new} |->
                    IF x \in DOMAIN swap THEN swap[x] ELSE x]
Replicas == n1 :> n2 @@ n2 :> n1 @@ w1 :> w2 @@ w2 :> w1
Workers  == w1 :> w2 @@ w2 :> w1
Contents == old :> new @@ new :> old
Symmetric == {Swapped(f) : f \in {Replicas, Contents, Replicas @@ Contents}}
SymmetricOneNode == {Swapped(f) : f \in {Workers, Contents, Workers @@ Contents}}
=============================================================================
