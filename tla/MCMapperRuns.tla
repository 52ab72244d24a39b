---------------------------- MODULE MCMapperRuns ----------------------------
(* A small instance of MapperRuns: a site of three pages, and a domain     *)
(* that was never crawled.                                                 *)
EXTENDS MapperRuns

CONSTANTS home, about, news, site, other, junk

Site    == home :> {about, news} @@ about :> {home} @@ news :> {about}
OneSite == [u \in URL |-> site]
=============================================================================
