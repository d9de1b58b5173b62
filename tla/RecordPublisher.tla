-------------------------- MODULE RecordPublisher --------------------------
(***************************************************************************)
(* publish_batch of extractor_transformer/src/output/google_pubsub.rs: the *)
(* records of one range and one table are sent to the table's topic in     *)
(* chunks.  Each chunk is one bulk publish; its answers are awaited in     *)
(* order, and a message whose publish failed is sent again, alone, until   *)
(* the topic takes it.  A publish that reports an error may have stored    *)
(* its message.                                                            *)
(*                                                                         *)
(* A range is delivered at least once, so several attempts may publish the *)
(* same records, one after the other or side by side.                      *)
(***************************************************************************)
EXTENDS Integers, FiniteSets

CONSTANTS
    RecordCount,  \* number of records of the batch
    ChunkSize,    \* records of one bulk publish, 900 in the code
    Attempt,      \* deliveries of the range: workers publishing the batch
    MaxFailures,  \* bound: publishes that report an error
    MaxCrashes    \* bound: workers killed

ASSUME RecordCountAssumption == RecordCount \in Nat
ASSUME ChunkSizeAssumption == ChunkSize \in Nat \ {0}
ASSUME AttemptAssumption == Attempt # {} /\ IsFiniteSet(Attempt)
ASSUME FaultsAssumption == MaxFailures \in Nat /\ MaxCrashes \in Nat

Record == 1 .. RecordCount

VARIABLES
    topic,     \* how often each record is in the topic
    pc,        \* where each attempt is
    first,     \* the first record of the attempt's chunk
    next,      \* the record whose answer is awaited
    inFlight,  \* the records of a bulk publish without an answer yet
    failed,    \* the records whose publish reported an error
    sent,      \* history: how often a bulk publish had the record
    reported,  \* history: how often an error was reported for the record
    failures, crashes

vars == <<topic, pc, first, next, inFlight, failed, sent, reported, failures,
          crashes>>
attemptVars == <<pc, first, next>>

Init ==
    /\ topic = [r \in Record |-> 0]
    /\ pc = [a \in Attempt |-> IF RecordCount = 0 THEN "done" ELSE "bulk"]
    /\ first = [a \in Attempt |-> 1]
    /\ next = [a \in Attempt |-> 1]
    /\ inFlight = [a \in Attempt |-> {}]
    /\ failed = [a \in Attempt |-> {}]
    /\ sent = [r \in Record |-> 0]
    /\ reported = [r \in Record |-> 0]
    /\ failures = 0
    /\ crashes = 0

\* Mutant: the batch is one chunk.
LastOfChunkIsAll(f) == RecordCount

\* The last record of the chunk that starts with record f.
LastOfChunk(f) ==
    IF f + ChunkSize - 1 < RecordCount THEN f + ChunkSize - 1 ELSE RecordCount

Goto(a, l) == pc' = [pc EXCEPT ![a] = l]

\* Mutant: chunks overlap a record beyond the last one.
ChunkTooLong(f) == f .. LastOfChunk(f) + 1

Chunk(f) == f .. LastOfChunk(f)

-----------------------------------------------------------------------------
(* The topic *)

\* The records of a set reach the topic.
Stored(records) ==
    topic' = [r \in Record |-> IF r \in records THEN topic[r] + 1 ELSE topic[r]]

StoredMaybe(r) == Stored({r}) \/ UNCHANGED topic

Answered(a, r) ==
    /\ r \in inFlight[a]
    /\ inFlight' = [inFlight EXCEPT ![a] = @ \ {r}]
    /\ UNCHANGED <<attemptVars, sent, crashes>>

AnswerOk(a, r) ==
    /\ Answered(a, r)
    /\ Stored({r})
    /\ UNCHANGED <<failed, reported, failures>>

ReportError(r) ==
    /\ failures < MaxFailures
    /\ failures' = failures + 1
    /\ reported' = [reported EXCEPT ![r] = @ + 1]
    /\ StoredMaybe(r)

AnswerError(a, r) ==
    /\ Answered(a, r)
    /\ ReportError(r)
    /\ failed' = [failed EXCEPT ![a] = @ \cup {r}]

-----------------------------------------------------------------------------
(* publish_batch, publish_batch_with_backoff, publish_with_backoff *)

\* publish_bulk takes the next chunk.
SendChunk(a) ==
    /\ pc[a] = "bulk"
    /\ Goto(a, "await")
    /\ first' = [first EXCEPT ![a] = next[a]]
    /\ inFlight' = [inFlight EXCEPT ![a] = Chunk(next[a])]
    /\ sent' = [r \in Record |->
                  IF r \in Chunk(next[a]) THEN sent[r] + 1 ELSE sent[r]]
    /\ UNCHANGED <<topic, next, failed, reported, failures, crashes>>

\* Mutant: the chunk ends one record late.
AdvanceTooLate(a) ==
    /\ next' = [next EXCEPT ![a] = @ + 1]
    /\ Goto(a, IF next[a] <= LastOfChunk(first[a]) THEN "await"
               ELSE IF next[a] < RecordCount THEN "bulk"
               ELSE "done")

\* The loops over the awaiters and over the chunks.
Advance(a) ==
    /\ next' = [next EXCEPT ![a] = @ + 1]
    /\ Goto(a, IF next[a] < LastOfChunk(first[a]) THEN "await"
               ELSE IF next[a] < RecordCount THEN "bulk"
               ELSE "done")

Confirmed(a) ==
    /\ pc[a] = "await"
    /\ next[a] \in Chunk(first[a]) \ (inFlight[a] \cup failed[a])
    /\ Advance(a)
    /\ UNCHANGED <<topic, first, inFlight, failed, sent, reported, failures,
                   crashes>>

\* Mutant: one failure sends all that is left of the chunk again.
RejectedChunk(a) ==
    /\ pc[a] = "await"
    /\ next[a] \in failed[a]
    /\ Goto(a, "publish")
    /\ failed' = [failed EXCEPT ![a] = (@ \cup Chunk(next[a])) \ inFlight[a]]
    /\ UNCHANGED <<topic, first, next, inFlight, sent, reported, failures,
                   crashes>>

\* Mutant: a failed message is passed over.
RejectedIsSkipped(a) ==
    /\ pc[a] = "await"
    /\ next[a] \in failed[a]
    /\ Advance(a)
    /\ UNCHANGED <<topic, first, inFlight, failed, sent, reported, failures,
                   crashes>>

\* The awaited message failed: it is published alone.
Rejected(a) ==
    /\ pc[a] = "await"
    /\ next[a] \in failed[a]
    /\ Goto(a, "publish")
    /\ UNCHANGED <<topic, first, next, inFlight, failed, sent, reported,
                   failures, crashes>>

Republished(a) ==
    /\ pc[a] = "publish"
    /\ Stored({next[a]})
    /\ failed' = [failed EXCEPT ![a] = @ \ {next[a]}]
    /\ Advance(a)
    /\ UNCHANGED <<first, inFlight, sent, reported, failures, crashes>>

\* The publish fails; after a sleep, a second longer each time, it is repeated.
RepublishFails(a) ==
    /\ pc[a] = "publish"
    /\ ReportError(next[a])
    /\ UNCHANGED <<attemptVars, inFlight, failed, sent, crashes>>

\* The records a worker has given to the client library, not yet answered.
Underway(a) == inFlight[a] \cup (IF pc[a] = "publish" THEN {next[a]} ELSE {})

\* The worker dies with messages under way, of which the topic may get some;
\* the range is delivered again.
Kill(a) ==
    /\ pc[a] # "done"
    /\ crashes < MaxCrashes
    /\ crashes' = crashes + 1
    /\ Goto(a, "bulk")
    /\ next' = [next EXCEPT ![a] = 1]
    /\ first' = [first EXCEPT ![a] = 1]
    /\ \E records \in SUBSET Underway(a) : Stored(records)
    /\ inFlight' = [inFlight EXCEPT ![a] = {}]
    /\ failed' = [failed EXCEPT ![a] = {}]
    /\ UNCHANGED <<sent, reported, failures>>

Answer(a) == \E r \in Record : AnswerOk(a, r) \/ AnswerError(a, r)

Publish(a) == SendChunk(a) \/ Confirmed(a) \/ Rejected(a)

Next ==
    \E a \in Attempt :
        \/ Answer(a)
        \/ Publish(a)
        \/ Republished(a)
        \/ RepublishFails(a)
        \/ Kill(a)

Spec == Init /\ [][Next]_vars

\* Every message of a bulk publish gets its answer, a worker goes on as long
\* as it can, and a publish that is repeated for ever is not refused for ever.
FairSpec ==
    /\ Spec
    /\ \A a \in Attempt :
        /\ WF_vars(Answer(a))
        /\ WF_vars(Publish(a))
        /\ WF_vars(Republished(a))

-----------------------------------------------------------------------------
(* Properties *)

\* Every variable has its type.
PublisherTypeOK ==
    /\ topic \in [Record -> Nat]
    /\ pc \in [Attempt -> {"bulk", "await", "publish", "done"}]
    /\ first \in [Attempt -> Nat \ {0}]
    /\ next \in [Attempt -> Nat \ {0}]
    /\ inFlight \in [Attempt -> SUBSET Record]
    /\ failed \in [Attempt -> SUBSET Record]
    /\ sent \in [Record -> Nat]
    /\ reported \in [Record -> Nat]
    /\ failures \in Nat
    /\ crashes \in Nat

InTopic == {r \in Record : topic[r] > 0}

\* When publish_batch has returned in one attempt, every record is in the
\* topic, whichever messages of the bulk publish failed (google_pubsub.rs:151)
\* and whatever other attempts do: the ack of the range may follow.
ReturnedMeansStored ==
    (\E a \in Attempt : pc[a] = "done") => InTopic = Record

\* The attempts that will store a record once more, as far as they know.
Waiting(r) == {a \in Attempt : r \in inFlight[a] \cup failed[a]}

\* A record is in the topic more than once only as often as it was sent again
\* for a reason: a redelivery of the range, or an error reported for this very
\* record.  The failure of one message of a chunk duplicates no other.
DuplicatesHaveAReason ==
    \A r \in Record : topic[r] + Cardinality(Waiting(r)) <= sent[r] + reported[r]

Publication == INSTANCE BatchPublication
    WITH stored <- InTopic,
         finished <- \E a \in Attempt : pc[a] = "done"

\* Publishing in chunks implements the promise of BatchPublication: records
\* overtake each other by less than a chunk (google_pubsub.rs:108-111 awaits
\* one chunk before the next), and all are stored before it returns.
ImplementsPublication == Publication!Spec

\* Every attempt returns in the end, through failed publishes and restarts.
AttemptsReturn == \A a \in Attempt : <>(pc[a] = "done")
=============================================================================
