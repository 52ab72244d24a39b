---------------------------- MODULE MCVectorizer ----------------------------
(* Small instances of Vectorizer: a document with a long and a short       *)
(* version, and one whose only version yields no chunks.                   *)
EXTENDS Vectorizer

CONSTANTS page, note, page1, page2, note1, coarse, fine, main

Docs     == {page, note}
Versions == {page1, page2, note1}
DocsOf   == page1 :> page @@ page2 :> page @@ note1 :> note
OneCollection == [v \in Versions |-> main]

\* The fine configuration cuts the long version into three chunks.
OneCut  == fine :> (page1 :> 3 @@ page2 :> 1 @@ note1 :> 0)
TwoCuts == OneCut @@ coarse :> (page1 :> 2 @@ page2 :> 1 @@ note1 :> 0)
=============================================================================
