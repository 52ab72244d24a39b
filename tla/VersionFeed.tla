----------------------------- MODULE VersionFeed -----------------------------
(***************************************************************************)
(* What the parsers promise to whoever reads parser:out: a version is      *)
(* requested only after it was committed as a change of its document, once *)
(* per change, in whatever order the workers get to it; what is lost, when *)
(* a process ends or Redis fails, is lost for good.  Parser implements     *)
(* this, and Pipeline puts it before the vectorizer.                       *)
(***************************************************************************)
EXTENDS Naturals, Sequences

CONSTANTS Doc, Version,
          DocOf,        \* the document of a version
          None          \* no version

VARIABLES
    latest,      \* the version each document shows
    announcing,  \* how many requests for each version are still to be made
    requests     \* the list parser:out

feedVars == <<latest, announcing, requests>>

Init ==
    /\ latest = [d \in Doc |-> None]
    /\ announcing = [v \in Version |-> 0]
    /\ requests = <<>>

\* saveParsedPage with Changed = TRUE.  A worker that gets no answer to its
\* commit does not announce it.
Commit(v) ==
    /\ latest[DocOf[v]] # v
    /\ latest' = [latest EXCEPT ![DocOf[v]] = v]
    /\ \/ announcing' = [announcing EXCEPT ![v] = @ + 1]
       \/ UNCHANGED announcing
    /\ UNCHANGED requests

\* RPUSH parser:out
Announce(v) ==
    /\ announcing[v] > 0
    /\ announcing' = [announcing EXCEPT ![v] = @ - 1]
    /\ requests' = Append(requests, v)
    /\ UNCHANGED latest

\* RPUSH fails, or the process ends with all that its workers had to announce.
Lose ==
    /\ UNCHANGED <<requests, latest>>
    /\ \A v \in Version : announcing'[v] <= announcing[v]

Next == Lose \/ \E v \in Version : Announce(v) \/ Commit(v)

Spec == Init /\ [][Next]_feedVars
=============================================================================
