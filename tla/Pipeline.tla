------------------------------ MODULE Pipeline ------------------------------
(***************************************************************************)
(* The parsers (VersionFeed, which Parser implements) and the vectorizer   *)
(* (Vectorizer, every command of it) joined by the list parser:out, with   *)
(* Postgres on one end and Qdrant on the other.  Nothing in the code ties  *)
(* the two stores together: the vectorizer indexes the version a message   *)
(* names, deletes the other versions of the document in the collection of  *)
(* that version, and never looks at latest_content_hash.                   *)
(***************************************************************************)
EXTENDS Vectorizer

CONSTANTS Scope,        \* COLLECTION_SCOPE
          DomainOf,     \* the domain of a version's document
          TypeOf,       \* the document type of a version
          HostOf,       \* the host of the URL a version was fetched from
          None          \* no version

VARIABLES
    latest,      \* the version each document shows in Postgres
    announcing,  \* requests the parsers have still to make, by version
    commits,     \* history: changes committed so far
    newest,      \* history: the newest version with chunks, by document and collection
    disturbed    \* history: documents, by collection, whose newest version was
                 \* requested next to another, or lost on the way

Feed == INSTANCE VersionFeed WITH requests <- input

feed  == <<latest, announcing, commits, newest, disturbed>>
pvars == <<vars, feed>>

\* collection_for
CollectionFor(v) ==
    CASE Scope = "document_type" -> <<DomainOf[v], TypeOf[v]>>
      [] Scope = "host"          -> <<HostOf[v]>>
      [] OTHER                   -> <<DomainOf[v]>>
Endpoint == [v \in Version |-> CollectionFor(v)]
ASSUME PipelineAssumption ==
    /\ Collection = Endpoint
    /\ None \notin Version

Place == Doc \X {Collection[v] : v \in Version}
PlaceOf(v) == <<DocOf[v], Collection[v]>>

PInit ==
    /\ Init /\ Feed!Init
    /\ commits = 0
    /\ newest = [p \in Place |-> None] /\ disturbed = {}

-----------------------------------------------------------------------------
\* A request for something at this place is not worked off yet.
UnderWay(p) ==
    \E w \in Version :
        /\ PlaceOf(w) = p
        /\ \/ announcing[w] > 0
           \/ \E i \in DOMAIN input : input[i] = w
           \/ \E i \in DOMAIN processing : processing[i] = w

\* A version without chunks changes nothing in the index.
Commit(v) ==
    LET p == PlaceOf(v) IN
    /\ commits < MaxMessages
    /\ Feed!Commit(v)
    /\ commits' = commits + 1
    /\ IF Size(v) = 0
         THEN UNCHANGED <<newest, disturbed>>
         ELSE /\ newest' = [newest EXCEPT ![p] = v]
              /\ disturbed' = IF UnderWay(p) \/ UNCHANGED announcing
                                THEN disturbed \cup {p}
                                ELSE disturbed \ {p}
    /\ UNCHANGED <<processing, failed, points, pc, process, history>>

Announce(v) ==
    /\ Feed!Announce(v)
    /\ Send(v)
    /\ UNCHANGED <<commits, newest, disturbed>>

Lose(v) ==
    /\ "lost" \in faults
    /\ announcing[v] > 0
    /\ announcing' = [announcing EXCEPT ![v] = @ - 1]
    /\ Feed!Lose
    /\ disturbed' = disturbed \cup {PlaceOf(v)}
    /\ UNCHANGED <<vars, commits, newest>>

\* A step of the vectorizer; a message that it gives up on is lost, too.
Index ==
    /\ Step
    /\ disturbed' = IF givenUp' = givenUp THEN disturbed ELSE disturbed \cup {PlaceOf(raw)}
    /\ UNCHANGED <<latest, announcing, commits, newest>>

Outage == (Signal \/ Crash) /\ UNCHANGED feed
Again  == Restart /\ UNCHANGED feed

Feeding == \E v \in Version : Announce(v) \/ Lose(v)

PNext == (\E v \in Version : Commit(v)) \/ Feeding \/ Index \/ Outage \/ Again

\* Vectorizer's fairness; the workers of the parsers come to an end.
PSpec == PInit /\ [][PNext]_pvars
PFairSpec == PSpec /\ WF_pvars(Index) /\ WF_pvars(Again) /\ WF_pvars(Feeding)

-----------------------------------------------------------------------------
(* Properties.                                                             *)

\* The points of a document in a collection are those of one version, whole.
Shows(p, v) ==
    LET index == IndexOf(p[1], p[2])
    IN  IF v = None THEN index = {} ELSE \E k \in Config : index = Exactly(v, k)

\* Although parser:out is served newest first, and although nobody compares
\* versions: what is worked off leaves the newest version in each collection,
\* unless its request was under way together with another one, was lost or was
\* given up on; and the next change repairs even that.  (As in SettledIndex, no
\* LREM is resent.)  With the default scope a document has one collection, so
\* its index is what Postgres shows.  With the others, an older version stays in
\* the collection a document has left (qdrant.py:70, 74).
IndexShowsNewest ==
    "resend" \notin faults =>
        \A p \in Place : ~UnderWay(p) /\ p \notin disturbed => Shows(p, newest[p])

\* No version but this one is to be found.
Alone(p, v) == \A q \in IndexOf(p[1], p[2]) : q.version = v

\* Redoing what was done already, after a crash or a failed attempt, or under
\* another configuration, does not bring back an older version: once the newest
\* is alone it stays alone until the next change.  Nor does it take points away
\* from a cut that is whole, as long as the process runs with the configuration
\* of that cut; under another one they are overwritten batch by batch (NeverLost).
FreshStays ==
    [][\A p \in Place, v \in Version \cup {None} :
         newest[p] = v /\ newest'[p] = v /\ p \notin disturbed' /\ "resend" \notin faults =>
             /\ Alone(p, v) => Alone(p, v)'
             /\ v # None /\ Exactly(v, config) \subseteq IndexOf(p[1], p[2]) =>
                    Exactly(v, config) \subseteq IndexOf(p[1], p[2])']_pvars
=============================================================================
