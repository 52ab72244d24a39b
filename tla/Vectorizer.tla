----------------------------- MODULE Vectorizer -----------------------------
(***************************************************************************)
(* The vectorizer node (services/vectorizer): one process that moves each  *)
(* message of the Redis list parser:out to vectorizer:processing, indexes  *)
(* the document version it names in Qdrant, and then takes it off the      *)
(* processing list.  The lists and the points outlive the process; what it *)
(* knows itself is gone when it stops or dies.                             *)
(*                                                                         *)
(* A step is one command to Redis, Postgres or Qdrant.  A command to a     *)
(* store that is failing may have taken effect even though the caller gets *)
(* an error, and the Redis client sends again what got no reply.           *)
(*                                                                         *)
(* A message names a document version; messages for the same version are   *)
(* the same string, which is how LREM finds them, so a message is modelled *)
(* by its version.  The heads of the lists are on the left.  Text, vectors *)
(* and payloads are left out: a point is identified by its version and its *)
(* chunk number, as in point_id, and remembers the configuration it was    *)
(* cut under.  The list of oversized documents, which only people read,    *)
(* and the heartbeats are left out too.                                    *)
(***************************************************************************)
EXTENDS Integers, Sequences, FiniteSets, SequencesExt

CONSTANTS Doc,          \* documents
          Version,      \* document versions
          DocOf,        \* the document of a version
          Collection,   \* the Qdrant collection a version belongs to
          Config,       \* configurations the process may be started with
          Chunks,       \* how many chunks a configuration cuts a version into
          BatchSize,    \* BATCH_SIZE
          MaxRetries,   \* MAX_RETRIES
          Faults,       \* sets of what may go wrong in one behaviour:
                        \*   "redis", "resend", "postgres", "qdrant", "crash"
          MaxMessages,  \* bound: messages the parser sends
          MaxRestarts   \* bound: times the process stops or dies

ASSUME VectorizerAssumption ==
    /\ DocOf \in [Version -> Doc]
    /\ DOMAIN Collection = Version
    /\ Chunks \in [Config -> [Version -> Nat]]
    \* Whether there is anything to index depends on the text alone: of a
    \* document that is not blank every configuration leaves a chunk.
    /\ \A v \in Version, k, l \in Config : Chunks[k][v] = 0 => Chunks[l][v] = 0
    /\ Config # {}
    /\ BatchSize \in Nat \ {0}
    /\ MaxRetries \in Nat \ {0}
    /\ MaxMessages \in Nat /\ MaxRestarts \in Nat

VARIABLES
    input,       \* the list parser:out
    processing,  \* the list vectorizer:processing
    failed,      \* the list vectorizer:failed
    points,      \* the points in Qdrant
    pc,          \* where the process is
    config,      \* the configuration it runs with
    stopping,    \* Runtime.stopping
    recovering,  \* it is in recover_processing_queue, not in run
    pending,     \* what that has still to go through
    raw,         \* the message in hand
    attempt,     \* which attempt at it this is
    next,        \* the first chunk that is not upserted yet
    faults,      \* what may go wrong
    sent,        \* history: how many messages the parser has sent
    stops,       \* history: how often the process stopped or died
    givenUp      \* history: the messages given up on, oldest first

lists   == <<input, processing, failed>>
process == <<config, stopping, recovering, pending, raw, attempt, next>>
history == <<faults, sent, stops, givenUp>>
vars    == <<lists, points, pc, process, history>>

Attempting == {"start", "upsert", "stale", "surplus", "finish"}
PC == Attempting \cup {"down", "recover", "poll", "popping", "ack", "unqueue", "bury"}

Point == [version : Version, chunk : Nat, config : Config]
Size(v) == Chunks[config][v]

\* The type invariant: the variables of the process have values that fit where
\* it is; attempts stop at MAX_RETRIES (main.py:164).
TypeOK ==
    /\ input \in Seq(Version) /\ processing \in Seq(Version) /\ failed \in Seq(Version)
    /\ points \subseteq Point
    /\ pc \in PC /\ config \in Config /\ stopping \in BOOLEAN /\ recovering \in BOOLEAN
    /\ pending \in Seq(Version) /\ (pending # <<>> => recovering)
    /\ raw \in Version /\ attempt \in 0 .. MaxRetries /\ next \in Nat
    /\ pc = "upsert" => next < Size(raw)
    /\ pc \in {"poll", "popping", "down"} => ~recovering
    /\ faults \in Faults /\ sent \in 0 .. MaxMessages /\ stops \in 0 .. MaxRestarts
    /\ givenUp \in Seq(Version)

Init ==
    /\ input = <<>> /\ processing = <<>> /\ failed = <<>> /\ points = {}
    /\ pc = "down" /\ config \in Config /\ stopping = FALSE
    /\ recovering = FALSE /\ pending = <<>>
    /\ raw \in Version /\ attempt = 0 /\ next = 0
    /\ faults \in Faults /\ sent = 0 /\ stops = 0 /\ givenUp = <<>>

-----------------------------------------------------------------------------
(* The parser, from outside; the same version may be asked for again.      *)
Send(v) ==
    /\ sent < MaxMessages
    /\ sent' = sent + 1
    /\ input' = Append(input, v)
    /\ UNCHANGED <<processing, failed, points, pc, process, faults, stops, givenUp>>

-----------------------------------------------------------------------------
(* Commands that may not go as planned.                                    *)

\* How often a command takes effect: the client resends one without a reply.
Times ==
    {1} \cup (IF "redis" \in faults THEN {0} ELSE {})
        \cup (IF "resend" \in faults THEN {2} ELSE {})

\* The caller gets the reply, or an error although it may have taken effect.
Replied(n) == n > 0
Raised(n)  == "redis" \in faults

\* LREM processing 1 raw
Removed(n) ==
    CASE n = 0 -> processing
      [] n = 1 -> RemoveFirst(processing, raw)
      [] n = 2 -> RemoveFirst(RemoveFirst(processing, raw), raw)

\* What the loop around process_processing_item does next.
NextItem == IF recovering THEN "recover" ELSE "poll"

\* A RedisError ends recovery for good; run waits a second and polls.
RedisErrorRaised ==
    /\ pc' = "poll" /\ recovering' = FALSE /\ pending' = <<>>
    /\ UNCHANGED <<config, stopping, raw, attempt, next>>

ItemDone ==
    /\ pc' = NextItem
    /\ UNCHANGED process

-----------------------------------------------------------------------------
(* Taking messages.                                                        *)

Take(v, at) ==
    /\ raw' = v /\ attempt' = 1 /\ next' = 0 /\ pc' = at

\* run: the loop looks at stopping, then blocks in BRPOPLPUSH; a signal does
\* not call it back.
Poll ==
    /\ pc = "poll" /\ ~stopping
    /\ pc' = "popping"
    /\ UNCHANGED <<lists, points, process, history>>

\* If the reply is lost the message stays where the command put it.
Pop ==
    /\ pc = "popping" /\ input # <<>>
    /\ input' = Front(input)
    /\ processing' = <<Last(input)>> \o processing
    /\ \/ Take(Last(input), "start")
       \/ "redis" \in faults /\ pc' = "poll" /\ UNCHANGED <<raw, attempt, next>>
    /\ UNCHANGED <<failed, points, config, stopping, recovering, pending, history>>

\* Nothing came in time, or the connection failed.
PopTimeout ==
    /\ pc = "popping" /\ (input = <<>> \/ "redis" \in faults)
    /\ pc' = "poll"
    /\ UNCHANGED <<lists, points, process, history>>

\* recover_processing_queue: the next message of the list read at the start.
Recover ==
    /\ pc = "recover" /\ ~stopping /\ pending # <<>>
    /\ Take(Head(pending), "start")
    /\ pending' = Tail(pending)
    /\ UNCHANGED <<lists, points, config, stopping, recovering, history>>

RecoveryEnds ==
    /\ pc = "recover" /\ (stopping \/ pending = <<>>)
    /\ pc' = "poll" /\ recovering' = FALSE /\ pending' = <<>>
    /\ UNCHANGED <<lists, points, config, stopping, raw, attempt, next, history>>

-----------------------------------------------------------------------------
(* One attempt at the message in hand: process_message.                    *)

\* Fault: no further attempt is made.
AttemptFails_once ==
    /\ pc' = "unqueue"
    /\ next' = 0
    /\ UNCHANGED <<lists, config, stopping, recovering, pending, raw, attempt, history>>

\* Fault: a message given up on is acknowledged like one that was served.
AttemptFails_acked ==
    /\ IF attempt < MaxRetries
         THEN pc' = "start" /\ attempt' = attempt + 1
         ELSE pc' = "ack" /\ UNCHANGED attempt
    /\ next' = 0
    /\ UNCHANGED <<lists, config, stopping, recovering, pending, raw, history>>

\* Any exception but a RedisError: another attempt, or give up.
AttemptFails ==
    /\ IF attempt < MaxRetries
         THEN pc' = "start" /\ attempt' = attempt + 1
         ELSE pc' = "unqueue" /\ UNCHANGED attempt
    /\ next' = 0
    /\ UNCHANGED <<lists, config, stopping, recovering, pending, raw, history>>

Goto(place) ==
    /\ pc' = place
    /\ UNCHANGED <<lists, config, stopping, recovering, pending, raw, attempt, history>>

\* pipeline_event, get_document_version and prepare_chunks.  A version that
\* yields no chunks is done.
Start ==
    /\ pc = "start"
    /\ Goto(IF Size(raw) = 0 THEN "ack" ELSE "upsert")
    /\ next' = 0
    /\ UNCHANGED points

StartFails ==
    /\ pc = "start" /\ "postgres" \in faults
    /\ AttemptFails
    /\ UNCHANGED points

BatchEnd == IF next + BatchSize < Size(raw) THEN next + BatchSize ELSE Size(raw)

\* The points of one batch; a point replaces the one with the same id.
Upserted(lo, hi) ==
    {p \in points : p.version # raw \/ p.chunk \notin lo .. hi - 1}
      \cup {[version |-> raw, chunk |-> i, config |-> config] : i \in lo .. hi - 1}

\* sink.upsert_document, one batch.
Upsert ==
    /\ pc = "upsert"
    /\ points' = Upserted(next, BatchEnd)
    /\ next' = BatchEnd
    /\ Goto(IF BatchEnd = Size(raw) THEN "stale" ELSE "upsert")

\* Fault: the filter forgets to spare the version at hand.
Stale_all(p) ==
    /\ DocOf[p.version] = DocOf[raw]
    /\ Collection[p.version] = Collection[raw]

\* Fault: chunk numbers start at one.
Surplus_offByOne(p) == p.version = raw /\ p.chunk > Size(raw)

\* The filters of delete_stale_versions and delete_surplus_current_version.
Stale(p) ==
    /\ DocOf[p.version] = DocOf[raw]
    /\ Collection[p.version] = Collection[raw]
    /\ p.version # raw
Surplus(p) == p.version = raw /\ p.chunk >= Size(raw)

DeleteStale ==
    /\ pc = "stale"
    /\ points' = {p \in points : ~Stale(p)}
    /\ Goto("surplus")
    /\ UNCHANGED next

DeleteSurplus ==
    /\ pc = "surplus"
    /\ points' = {p \in points : ~Surplus(p)}
    /\ Goto("finish")
    /\ UNCHANGED next

\* A request to Qdrant fails, before or after it took effect.
QdrantFails ==
    /\ "qdrant" \in faults
    /\ \/ pc = "upsert"  /\ points' \in {points, Upserted(next, BatchEnd)}
       \/ pc = "stale"   /\ points' \in {points, {p \in points : ~Stale(p)}}
       \/ pc = "surplus" /\ points' \in {points, {p \in points : ~Surplus(p)}}
    /\ AttemptFails

\* pipeline_event "vectorize_finished"
Finish ==
    /\ pc = "finish"
    /\ Goto("ack")
    /\ UNCHANGED <<points, next>>

FinishFails ==
    /\ pc = "finish" /\ "postgres" \in faults
    /\ AttemptFails
    /\ UNCHANGED points

-----------------------------------------------------------------------------
(* What process_processing_item does with the message afterwards.          *)

Ack ==
    /\ pc = "ack"
    /\ \E n \in Times :
         /\ processing' = Removed(n)
         /\ \/ Replied(n) /\ ItemDone
            \/ Raised(n) /\ RedisErrorRaised
    /\ UNCHANGED <<input, failed, points, history>>

\* Fault: it is not put anywhere else.
Unqueue_only ==
    /\ pc = "unqueue"
    /\ processing' = Removed(1)
    /\ givenUp' = Append(givenUp, raw)
    /\ ItemDone
    /\ UNCHANGED <<input, failed, points, faults, sent, stops>>

\* The attempts are used up: off the processing list ...
Unqueue ==
    /\ pc = "unqueue"
    /\ \E n \in Times :
         /\ processing' = Removed(n)
         /\ givenUp' = IF n > 0 THEN Append(givenUp, raw) ELSE givenUp
         /\ \/ Replied(n) /\ pc' = "bury" /\ UNCHANGED process
            \/ Raised(n) /\ RedisErrorRaised
    /\ UNCHANGED <<input, failed, points, faults, sent, stops>>

\* ... and onto the list of failed ones.
Bury ==
    /\ pc = "bury"
    /\ \E n \in Times :
         /\ failed' = [i \in 1 .. n |-> raw] \o failed
         /\ \/ Replied(n) /\ ItemDone
            \/ Raised(n) /\ RedisErrorRaised
    /\ UNCHANGED <<input, processing, points, history>>

-----------------------------------------------------------------------------
(* The life of the process.                                                *)

Forget ==
    /\ pc' = "down" /\ stopping' = FALSE /\ recovering' = FALSE /\ pending' = <<>>
    /\ attempt' = 0 /\ next' = 0
    /\ UNCHANGED <<config, raw>>

\* SIGTERM: the process finishes the message in hand, retries included.
Signal ==
    /\ pc # "down" /\ ~stopping /\ stops < MaxRestarts
    /\ stopping' = TRUE
    /\ stops' = stops + 1
    /\ UNCHANGED <<lists, points, pc, config, recovering, pending, raw, attempt, next,
                   faults, sent, givenUp>>

Exit ==
    /\ pc = "poll" /\ stopping
    /\ Forget
    /\ UNCHANGED <<lists, points, history>>

Crash ==
    /\ "crash" \in faults /\ pc # "down" /\ stops < MaxRestarts
    /\ Forget
    /\ stops' = stops + 1
    /\ UNCHANGED <<lists, points, faults, sent, givenUp>>

\* Fault: the process starts polling at once.
Restart_noRecovery ==
    /\ pc = "down"
    /\ pc' = "recover" /\ recovering' = TRUE /\ pending' = <<>>
    /\ config' \in Config
    /\ UNCHANGED <<lists, points, stopping, raw, attempt, next, history>>

\* main: LRANGE of the processing list, then the messages on it one by one.
Restart ==
    /\ pc = "down"
    /\ pc' = "recover" /\ recovering' = TRUE /\ pending' = processing
    /\ config' \in Config
    /\ UNCHANGED <<lists, points, stopping, raw, attempt, next, history>>

-----------------------------------------------------------------------------
Step ==
    \/ Poll \/ Pop \/ PopTimeout \/ Recover \/ RecoveryEnds
    \/ Start \/ StartFails \/ Upsert \/ DeleteStale \/ DeleteSurplus \/ QdrantFails
    \/ Finish \/ FinishFails \/ Ack \/ Unqueue \/ Bury \/ Exit

Next ==
    \/ \E v \in Version : Send(v)
    \/ Step \/ Signal \/ Crash \/ Restart

Spec == Init /\ [][Next]_vars

\* The process never waits for ever: every client has a timeout and the
\* attempts are counted.  docker-compose.yml restarts it when it ends.
Fairness == WF_vars(Step) /\ WF_vars(Restart)
FairSpec == Spec /\ Fairness

-----------------------------------------------------------------------------
(* Properties.                                                             *)

Copies(v, s) == Cardinality({i \in DOMAIN s : s[i] = v})
IndexOf(d, c) == {p \in points : DocOf[p.version] = d /\ Collection[p.version] = c}

\* The points a version has when it alone is indexed, cut under configuration k.
Exactly(v, k) == {[version |-> v, chunk |-> i, config |-> k] : i \in 0 .. Chunks[k][v] - 1}

\* The collection holds this version of its document, whole, and no other.
Indexed(v) == IndexOf(DocOf[v], Collection[v]) = Exactly(v, config)

\* README, Reliability: a message leaves the processing list only after its
\* version is indexed, complete and alone in its collection; or when every
\* attempt has failed; or because there was nothing to index.
RemovedOnceServed ==
    [][\A v \in Version :
         Copies(v, processing') < Copies(v, processing) =>
             Indexed(v) \/ Size(v) = 0 \/ (pc = "unqueue" /\ raw = v /\ attempt = MaxRetries)]_vars

\* A document can be found whole if all points of one cut of a version are there.
WholeAs(v, k) == Chunks[k][v] > 0 /\ Exactly(v, k) \subseteq points
Whole(d) == \E v \in Version, k \in Config : DocOf[v] = d /\ WholeAs(v, k)

\* The very version it is found by is being cut anew under another configuration.
CutAnew(d) ==
    /\ pc = "upsert" /\ DocOf[raw] = d
    /\ \A v \in Version, k \in Config : DocOf[v] = d /\ WholeAs(v, k) => v = raw /\ k # config

\* A document that can be found whole stays so, whatever is indexed, deleted,
\* interrupted or repeated: the new points come before the deletions
\* (qdrant.py:46-68).  The one exception is a version that is cut anew.  The id
\* of a point does not tell the configuration (qdrant.py:186), so each batch
\* overwrites chunks of the old cut, and until the last one is written some text
\* can be missing; SettledIndex says when that is over.
NeverLost == [][\A d \in Doc : Whole(d) /\ ~CutAnew(d) => Whole(d)']_vars

\* A document none of whose messages is on the processing list or was given up
\* on is indexed as one version, cut under one configuration, or not at all,
\* however many attempts, crashes and configurations it took.  (An LREM that is
\* resent may take off a second, equal message that is still to be served.)
SettledIndex ==
    "resend" \notin faults =>
        \A v \in Version :
            LET peers == {w \in Version : DocOf[w] = DocOf[v] /\ Collection[w] = Collection[v]}
                index == IndexOf(DocOf[v], Collection[v])
            IN  (\A w \in peers : Copies(w, processing) = 0 /\ Copies(w, givenUp) = 0) =>
                    index = {} \/ \E w \in peers, k \in Config : index = Exactly(w, k)

\* Whatever crashes, every message is eventually off both lists.
EventuallyServed == <>[](input = <<>> /\ processing = <<>>)

\* README, Reliability: "Failed messages are pushed to `FAILED_QUEUE`."  As long
\* as Redis answers at once (an LPUSH that is resent leaves two entries), all that
\* were given up on are there, in spite of failing attempts, but for one per
\* stop: a process that dies between the two commands (main.py:140) takes its
\* message with it.
FailedKept ==
    {"redis", "resend"} \cap faults = {} =>
        Len(givenUp) - Len(failed) - (IF pc = "bury" THEN 1 ELSE 0) \in 0 .. stops
=============================================================================
