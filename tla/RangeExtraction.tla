--------------------------- MODULE RangeExtraction ---------------------------
(***************************************************************************)
(* The extractor_transformer instances and the Pub/Sub subscription they   *)
(* share: subscribe_and_extract and extract_range of                       *)
(* extractor_transformer/src/aptos_config/mod.rs.                          *)
(*                                                                         *)
(* A worker pulls one message, requests the message's range of versions    *)
(* from the node as a stream, accumulates records until it has seen the    *)
(* last version of the range, publishes them table by table and            *)
(* acknowledges the message.  The subscription delivers at least once: the *)
(* ack deadline (10 seconds, never extended) can pass while a worker is    *)
(* busy, and the message is then delivered to a second one.                *)
(***************************************************************************)
EXTENDS IndexingRanges

CONSTANTS
    Worker,       \* the extractor_transformer instances
    MessageId,    \* identities of Pub/Sub messages
    Inbox,        \* the messages the publishers of ranges may send
    TableCount,   \* number of tables, published in the order 1, 2, ...
    Undecodable,  \* versions whose transaction fails extraction
    MaxFaults,    \* bound: kills, signals, failed requests, lost nacks
    NoMessage     \* a worker without a message

ASSUME TableCountAssumption == TableCount \in Nat \ {0}
ASSUME UndecodableAssumption == Undecodable \subseteq Version
ASSUME MaxFaultsAssumption == MaxFaults \in Nat

Table == 1 .. TableCount
Message == [id : MessageId, start : Version, end : Version]

ASSUME InboxAssumption == \A m \in Inbox : m \in Message /\ m.start <= m.end
ASSUME NoMessageAssumption == NoMessage \notin Message

VARIABLES
    ready,       \* messages waiting in the subscription
    leased,      \* messages delivered, neither acknowledged nor expired
    acked,       \* messages acknowledged
    rows,        \* the versions each table has the rows of
    givenUp,     \* history: messages whose stream ended early
    faults,      \* faults so far
    workerPc,          \* where each worker is
    terminated,  \* each worker's shutdown flag
    job,         \* the message each worker holds
    seen,        \* transactions of the job accumulated so far
    tab,         \* the table each worker is publishing to
    out          \* the versions of the job already published to that table

subscription == <<ready, leased, acked>>
attempt == <<seen, tab, out>>
workers == <<workerPc, terminated, job, attempt>>
extractionVars == <<subscription, rows, givenUp, faults, workers>>

sent == ready \cup leased \cup acked

Length(m) == m.end - m.start + 1

\* A failure the environment inflicts; their number is bounded.
Fault ==
    /\ faults < MaxFaults
    /\ faults' = faults + 1

Goto(w, l) == workerPc' = [workerPc EXCEPT ![w] = l]

\* extract_range has returned: its locals are gone.
Release(w) ==
    /\ job' = [job EXCEPT ![w] = NoMessage]
    /\ seen' = [seen EXCEPT ![w] = 0]
    /\ tab' = [tab EXCEPT ![w] = 1]
    /\ out' = [out EXCEPT ![w] = {}]

\* The process ends, and its shutdown flag with it.
Stop(w) ==
    /\ Goto(w, "stopped")
    /\ terminated' = [terminated EXCEPT ![w] = FALSE]
    /\ Release(w)

ExtractionInit ==
    /\ ready = {}
    /\ leased = {}
    /\ acked = {}
    /\ rows = [t \in Table |-> {}]
    /\ givenUp = {}
    /\ faults = 0
    /\ workerPc = [w \in Worker |-> "stopped"]
    /\ terminated = [w \in Worker |-> FALSE]
    /\ job = [w \in Worker |-> NoMessage]
    /\ seen = [w \in Worker |-> 0]
    /\ tab = [w \in Worker |-> 1]
    /\ out = [w \in Worker |-> {}]

-----------------------------------------------------------------------------
(* The subscription *)

\* A range is published: by the coordinator, or by a backfill.
Arrive(m) ==
    /\ \A n \in sent : n.id # m.id
    /\ ready' = ready \cup {m}
    /\ UNCHANGED <<leased, acked, rows, givenUp, faults, workerPc,
                   terminated, job,
                   attempt>>

\* The ack deadline passes, whatever the worker is doing.
Expire(m) ==
    /\ m \in leased
    /\ leased' = leased \ {m}
    /\ ready' = ready \cup {m}
    /\ UNCHANGED <<acked, rows, givenUp, faults, workerPc, terminated, job,
                   attempt>>

-----------------------------------------------------------------------------
(* subscribe_and_extract *)

\* Kubernetes starts the container.
StartWorker(w) ==
    /\ workerPc[w] = "stopped"
    /\ Goto(w, "loop")
    /\ UNCHANGED <<subscription, rows, givenUp, faults, terminated, job,
                   attempt>>

\* Mutant: the loop does not look at the flag.
LoopTestIgnoresFlag(w) ==
    /\ workerPc[w] = "loop"
    /\ Goto(w, "pull")
    /\ UNCHANGED <<subscription, rows, givenUp, faults, terminated, job,
                   attempt>>

\* while !terminated.load(..)
LoopTest(w) ==
    /\ workerPc[w] = "loop"
    /\ ~ terminated[w]
    /\ Goto(w, "pull")
    /\ UNCHANGED <<subscription, rows, givenUp, faults, terminated, job,
                   attempt>>

LoopExit(w) ==
    /\ workerPc[w] = "loop"
    /\ terminated[w]
    /\ Stop(w)
    /\ UNCHANGED <<subscription, rows, givenUp, faults>>

\* Mutant: the message is acknowledged when it is pulled.
PullAcks(w, m) ==
    /\ workerPc[w] = "pull"
    /\ m \in ready
    /\ Goto(w, "open")
    /\ job' = [job EXCEPT ![w] = m]
    /\ ready' = ready \ {m}
    /\ acked' = acked \cup {m}
    /\ UNCHANGED <<leased, rows, givenUp, faults, terminated, attempt>>

Pull(w, m) ==
    /\ workerPc[w] = "pull"
    /\ m \in ready
    /\ Goto(w, "open")
    /\ job' = [job EXCEPT ![w] = m]
    /\ ready' = ready \ {m}
    /\ leased' = leased \cup {m}
    /\ UNCHANGED <<acked, rows, givenUp, faults, terminated, attempt>>

\* The pull fails or returns no message.
PullNothing(w) ==
    /\ workerPc[w] = "pull"
    /\ Goto(w, "loop")
    /\ UNCHANGED <<subscription, rows, givenUp, faults, terminated, job,
                   attempt>>

-----------------------------------------------------------------------------
(* extract_range: reading the stream *)

OpenStream(w) ==
    /\ workerPc[w] = "open"
    /\ Goto(w, "stream")
    /\ UNCHANGED <<subscription, rows, givenUp, faults, terminated, job,
                   attempt>>

\* get_stream fails, or the stream answers with an error status.
StreamFails(w) ==
    /\ workerPc[w] \in {"open", "stream"}
    /\ Fault
    /\ Goto(w, "nack")
    /\ UNCHANGED <<subscription, rows, givenUp, terminated, job, attempt>>

\* Mutant: the end is taken to be exclusive.
AtEndExclusive(m, n) == IF n = 0 THEN m.start = m.end ELSE n = Length(m) - 1

\* `cur_version == end` after n transactions.  cur_version is start before the
\* first transaction, so a range of one version is at its end from the outset.
AtEnd(m, n) == IF n = 0 THEN m.start = m.end ELSE n = Length(m)

\* A response of k transactions, all of which become records.
Respond(w, k) ==
    /\ workerPc[w] = "stream"
    /\ k \in 0 .. Length(job[w]) - seen[w]
    /\ \A i \in 0 .. k - 1 : job[w].start + seen[w] + i \notin Undecodable
    /\ seen' = [seen EXCEPT ![w] = @ + k]
    /\ IF AtEnd(job[w], seen[w] + k)
       THEN /\ Goto(w, "publish")
            /\ givenUp' = IF seen[w] + k = 0 THEN givenUp \cup {job[w]}
                                             ELSE givenUp
       ELSE UNCHANGED <<workerPc, givenUp>>
    /\ UNCHANGED <<subscription, rows, faults, terminated, job, tab, out>>

\* Mutant: what was accumulated before the failure is published.
BadTransactionPublishes(w) ==
    /\ workerPc[w] = "stream"
    /\ \E v \in Versions(job[w]) : v >= job[w].start + seen[w] /\ v \in Undecodable
    /\ Goto(w, "publish")
    /\ UNCHANGED <<subscription, rows, givenUp, faults, terminated, job, attempt>>

\* A response with a transaction that fails extraction.
BadTransaction(w) ==
    /\ workerPc[w] = "stream"
    /\ \E v \in Versions(job[w]) : v >= job[w].start + seen[w] /\ v \in Undecodable
    /\ Goto(w, "nack")
    /\ UNCHANGED <<subscription, rows, givenUp, faults, terminated, job,
                   attempt>>

\* The stream ends before the last version: extract_range returns Ok and
\* drops what it accumulated.
Exhausted(w) ==
    /\ workerPc[w] = "stream"
    /\ Goto(w, "ack")
    /\ givenUp' = givenUp \cup {job[w]}
    /\ UNCHANGED <<subscription, rows, faults, terminated, job, attempt>>

-----------------------------------------------------------------------------
(* extract_range: publishing *)

\* The versions a worker has accumulated the records of.
Read(w) == job[w].start .. job[w].start + seen[w] - 1

\* Mutant: the tables are published in the opposite order.
PublishRowReversed(w, v) ==
    /\ workerPc[w] = "publish"
    /\ v \in Read(w) \ out[w]
    /\ rows' = [rows EXCEPT ![TableCount + 1 - tab[w]] = @ \cup {v}]
    /\ out' = [out EXCEPT ![w] = @ \cup {v}]
    /\ UNCHANGED <<subscription, givenUp, faults, workerPc, terminated, job, seen,
                   tab>>

\* The records of a version reach the table; those of a batch do so in any
\* order.
PublishRow(w, v) ==
    /\ workerPc[w] = "publish"
    /\ v \in Read(w) \ out[w]
    /\ rows' = [rows EXCEPT ![tab[w]] = @ \cup {v}]
    /\ out' = [out EXCEPT ![w] = @ \cup {v}]
    /\ UNCHANGED <<subscription, givenUp, faults, workerPc, terminated, job, seen,
                   tab>>

\* Mutant: a table is looked for behind the last one.
TableDoneTooFar(w) ==
    /\ workerPc[w] = "publish"
    /\ out[w] = Read(w)
    /\ IF tab[w] <= TableCount
       THEN /\ tab' = [tab EXCEPT ![w] = @ + 1]
            /\ out' = [out EXCEPT ![w] = {}]
            /\ UNCHANGED workerPc
       ELSE /\ Goto(w, "ack")
            /\ UNCHANGED <<tab, out>>
    /\ UNCHANGED <<subscription, rows, givenUp, faults, terminated, job, seen>>

\* Mutant: the range counts as done after its first table.
TableDoneFirst(w) ==
    /\ workerPc[w] = "publish"
    /\ out[w] = Read(w)
    /\ Goto(w, "ack")
    /\ UNCHANGED <<subscription, rows, givenUp, faults, terminated, job, attempt>>

TableDone(w) ==
    /\ workerPc[w] = "publish"
    /\ out[w] = Read(w)
    /\ IF tab[w] < TableCount
       THEN /\ tab' = [tab EXCEPT ![w] = @ + 1]
            /\ out' = [out EXCEPT ![w] = {}]
            /\ UNCHANGED workerPc
       ELSE /\ Goto(w, "ack")
            /\ UNCHANGED <<tab, out>>
    /\ UNCHANGED <<subscription, rows, givenUp, faults, terminated, job, seen>>

-----------------------------------------------------------------------------
(* subscribe_and_extract: the end of a message *)

\* The subscription may accept an ack even after the deadline.
Ack(w) ==
    /\ workerPc[w] = "ack"
    /\ Goto(w, "loop")
    /\ Release(w)
    /\ acked' = acked \cup {job[w]}
    /\ ready' = ready \ {job[w]}
    /\ leased' = leased \ {job[w]}
    /\ UNCHANGED <<rows, givenUp, faults, terminated>>

\* The ack fails, is lost, or comes after the deadline and has no effect; the
\* worker carries on with the next message.
AckLost(w) ==
    /\ workerPc[w] = "ack"
    /\ Goto(w, "loop")
    /\ Release(w)
    /\ UNCHANGED <<subscription, rows, givenUp, faults, terminated>>

\* Mutant: the message is not offered again.
NackDrops(w) ==
    /\ workerPc[w] = "nack"
    /\ Stop(w)
    /\ leased' = leased \ {job[w]}
    /\ UNCHANGED <<ready, acked, rows, givenUp, faults>>

\* The worker returns its error, on which main panics.
Nack(w) ==
    /\ workerPc[w] = "nack"
    /\ Stop(w)
    /\ leased' = leased \ {job[w]}
    /\ ready' = IF job[w] \in leased THEN ready \cup {job[w]} ELSE ready
    /\ UNCHANGED <<acked, rows, givenUp, faults>>

NackLost(w) ==
    /\ workerPc[w] = "nack"
    /\ Fault
    /\ Stop(w)
    /\ UNCHANGED <<subscription, rows, givenUp>>

-----------------------------------------------------------------------------
(* Signals and crashes *)

\* The terminator task sets the flag.
SigTerm(w) ==
    /\ workerPc[w] # "stopped"
    /\ ~ terminated[w]
    /\ Fault
    /\ terminated' = [terminated EXCEPT ![w] = TRUE]
    /\ UNCHANGED <<subscription, rows, givenUp, workerPc, job, attempt>>

\* A panic, the out-of-memory killer, the end of the grace period.
Kill(w) ==
    /\ workerPc[w] # "stopped"
    /\ Fault
    /\ Stop(w)
    /\ UNCHANGED <<subscription, rows, givenUp>>

WorkerStep(w) ==
    \/ StartWorker(w)
    \/ LoopTest(w)
    \/ LoopExit(w)
    \/ \E m \in ready : Pull(w, m)
    \/ PullNothing(w)
    \/ OpenStream(w)
    \/ StreamFails(w)
    \/ \E k \in 0 .. MaxVersion + 1 : Respond(w, k)
    \/ BadTransaction(w)
    \/ Exhausted(w)
    \/ \E v \in Version : PublishRow(w, v)
    \/ TableDone(w)
    \/ Ack(w)
    \/ AckLost(w)
    \/ Nack(w)
    \/ NackLost(w)
    \/ SigTerm(w)
    \/ Kill(w)

ExtractionNext ==
    \/ \E m \in Inbox : Arrive(m)
    \/ \E m \in leased : Expire(m)
    \/ \E w \in Worker : WorkerStep(w)

ExtractionSpec == ExtractionInit /\ [][ExtractionNext]_extractionVars

\* A stream that stays open delivers; it may start with an empty response.
StreamMoves(w) ==
    \/ \E k \in 1 .. MaxVersion + 1 : Respond(w, k)
    \/ BadTransaction(w)
    \/ Exhausted(w)

\* Containers restart, workers never idle between two awaits, publishers retry
\* until they succeed and deadlines expire.  The subscription keeps offering
\* every message it holds to workers that pull, and does not ignore the acks of
\* one message forever.  No pull is assumed to return while it is empty.
ExtractionFairness ==
    /\ \A m \in Inbox : WF_extractionVars(Expire(m))
    /\ \A m \in Inbox : SF_extractionVars(\E w \in Worker : Pull(w, m))
    /\ \A m \in Inbox : SF_extractionVars(\E w \in Worker : job[w] = m /\ Ack(w))
    /\ \A w \in Worker :
        /\ WF_extractionVars(StartWorker(w))
        /\ WF_extractionVars(LoopTest(w))
        /\ WF_extractionVars(LoopExit(w))
        /\ WF_extractionVars(OpenStream(w))
        /\ WF_extractionVars(StreamMoves(w))
        /\ WF_extractionVars(\E v \in Version : PublishRow(w, v))
        /\ WF_extractionVars(TableDone(w))
        /\ WF_extractionVars(Ack(w) \/ AckLost(w))
        /\ WF_extractionVars(Nack(w))

ExtractionFairSpec == ExtractionSpec /\ ExtractionFairness

-----------------------------------------------------------------------------
(* Properties *)

\* Every variable has its type, and a worker at work holds a message.
ExtractionTypeOK ==
    /\ ready \subseteq Message
    /\ leased \subseteq Message
    /\ acked \subseteq Message
    /\ rows \in [Table -> SUBSET Version]
    /\ givenUp \subseteq Message
    /\ faults \in 0 .. MaxFaults
    /\ workerPc \in [Worker -> {"stopped", "loop", "pull", "open", "stream",
                          "publish", "ack", "nack"}]
    /\ terminated \in [Worker -> BOOLEAN]
    /\ job \in [Worker -> Message \cup {NoMessage}]
    /\ seen \in [Worker -> 0 .. MaxVersion + 1]
    /\ tab \in [Worker -> Table]
    /\ out \in [Worker -> SUBSET Version]

\* mod.rs:558 acks "to prevent the message from being re-delivered": by then
\* every table must hold the rows of the whole range, unless the stream of one
\* of its deliveries ended early.
AckedIsComplete ==
    \A m \in acked \ givenUp : \A t \in Table : Versions(m) \subseteq rows[t]

\* mod.rs:723, "we do not want to start publishing until we ensure that no
\* errors occur": every row in a table comes from a range of which no
\* transaction fails.
FailedRangePublishesNothing ==
    \A t \in Table : \A v \in rows[t] :
        \E m \in sent : v \in Versions(m) /\ Versions(m) \cap Undecodable = {}

\* Tables are published in order (mod.rs:909-1012), so whatever crashes and
\* redeliveries happen, a version present in one table is present in all the
\* tables published before it.
TablesFillInOrder ==
    \A t \in Table : t > 1 => rows[t] \subseteq rows[t - 1]

\* Every range of which all transactions can be extracted is acknowledged in
\* the end, even while a range that fails every time keeps killing workers.
HealthyRangesSettle ==
    \A m \in Inbox :
        Versions(m) \cap Undecodable = {} => (m \in sent ~> m \in acked)

\* A worker that is told to stop while it is not waiting in a pull finishes
\* the message at hand, if any, and stops.
SignalledWorkerStops ==
    \A w \in Worker :
        (terminated[w] /\ workerPc[w] # "pull") ~> (workerPc[w] = "stopped")

\* The workers and their subscription implement the delivery promise.
Delivery == INSTANCE RangeDelivery WITH settled <- acked
ImplementsDelivery == Delivery!Spec

\* mod.rs:555-558: an acknowledged range was extracted and transformed.
AckedMeansExtracted ==
    \A m \in acked : \A t \in Table : Versions(m) \subseteq rows[t]
=============================================================================
