----------------------------- MODULE MCPipeline -----------------------------
(* A small instance of Pipeline: a page with a long and a short version, a *)
(* version fetched from another host after a redirect, and one without any *)
(* text to index.                                                          *)
EXTENDS Pipeline

CONSTANTS page, long, short, moved, empty, cut, coarse, site, www, none

Versions == {long, short, moved, empty}
OnePage  == [v \in Versions |-> page]
OneSite  == [v \in Versions |-> site]
AllHtml  == [v \in Versions |-> "html"]
Hosts    == [v \in Versions |-> IF v = moved THEN www ELSE site]
TwoCuts  == cut :> (long :> 3 @@ short :> 1 @@ moved :> 1 @@ empty :> 0)
              @@ coarse :> (long :> 2 @@ short :> 1 @@ moved :> 1 @@ empty :> 0)
ByHost   == [v \in Versions |-> <<Hosts[v]>>]
=============================================================================
