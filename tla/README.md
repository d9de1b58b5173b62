# A verification project for aptos-etl

aptos-etl moves the transactions of the Aptos chain into BigQuery. This directory
holds TLA+ models of its moving parts, the TLC configurations that check them on
small instances, and TLAPS proofs of the properties that must hold for every
instance. Line references are to the repository's files; `mod.rs` is
`extractor_transformer/src/aptos_config/mod.rs`, `gcs.rs` is
`extractor_transformer/src/output/gcs.rs`, `publish_ranges.py` is
`indexing_coordinator/publish_ranges.py`.

## 1. Inventory of the system

A full node serves transactions, numbered by *version*. One **indexing
coordinator** per network polls the node's REST interface, cuts the new versions
into ranges and publishes them to a Pub/Sub topic. Several **extractor_transformer**
instances share one subscription to the topic; each pulls a range, requests it as a
gRPC stream, turns every transaction into records of eight tables, and publishes the
records, to one Pub/Sub topic per table (mainnet, on to BigQuery by Dataflow) or to
one bucket per table (testnet, loaded hourly by Airflow). Daily Airflow jobs look for
missing versions, republish them as ranges, and remove duplicates.

| Component | State | Operations | Talks to | What is hard | What makes it correct |
|---|---|---|---|---|---|
| Indexing coordinator (`publish_ranges.py`) | last end, ledger version, generator, the last serialized range | resume, poll, cut, publish, hand over on a signal | node, topic, resumption subscription | a signal between any two lines, SIGKILL, empty pulls, stale polls, off-by-one at the seams | nothing behind the point it goes on from is left out; every version is reached |
| Range topic and subscription (`pubsub.tf`) | waiting, leased and acknowledged messages | deliver, expire, ack, nack | coordinator, extractors, backfill | at least once, 10 s deadline, lost and late acks, no dead letters | (external) |
| Range extraction (`subscribe_and_extract`, `extract_range`) | shutdown flag, message, accumulated records | pull, stream, convert, publish by table, ack, nack | subscription, node, publishers | redelivery to a second worker, crash between tables, early end of a stream, poison ranges | an ack means every table has the range; a failed range leaves nothing |
| GCS publisher (`gcs.rs`) | record strings, positions, retry counter | split by half hour, upload, retry | bucket | retries, partial batches, concurrent redelivery | each record once, in its directory |
| Pub/Sub record publisher (`google_pubsub.rs`) | chunk, answers awaited | publish in chunks, republish failures | record topics | partial failure of a bulk publish, duplicates | each record at least once |
| Other publishers (json, jsonl, RabbitMQ, Kafka) | connections | publish | files, brokers | none of them is deployed | |
| Stream creation (`grpc/stream.rs`) | none | request, fall back | nodes | a panic and an error take different paths | |
| Transformation (`processing/`) | records and timestamps of the range, the signature count | records of each selected table from a transaction | | large sum types, values left open, tables that need each other, parallel lists | records complete, counted, attributed and independent of the selection |
| Offline commands (`extract_txs`, `transform_txs`), command line (`main.rs`) | files | extract, transform, resume a range | node, files | ends of ranges | |
| Batch loader (`dag_hourly_aptos_etl_testnet.py`) | bucket, temporary and final tables | remove, load, copy | BigQuery | task retries, late objects, the hour already present | each record of the hour in the final table once |
| Quality control (`daily_qc_airflow/`) | final tables | backfill, dedupe, count rows | BigQuery, range topic | empty days, edges of a day, swallowed failures | gaps are found and closed |
| Alerts, metrics, infrastructure, build scripts | | | | | |

The hazards this code is exposed to are listed, each at its line, in `PROJECT.json`.

## 2. What is modelled

| Module | Models | Checked by | Proved in |
|---|---|---|---|
| `IndexingRanges` | versions and the `IndexingRange` message | the runs of the modules that use it | |
| `VersionFeed` | *abstract:* a growing prefix of the chain | as a property of `coordinator` | |
| `IndexingCoordinator` | `publish_ranges.py` | `coordinator`, `coordinator_skips` | `IndexingCoordinatorProofs` |
| `RangeDelivery` | *abstract:* rows before settlement, tables in order | as a property of `extraction` | |
| `RangeExtraction` | `subscribe_and_extract`, `extract_range`, the subscription | `extraction`, `extraction_early_end` | `RangeExtractionProofs` |
| `Pipeline` | coordinator and extractors joined by the topic | `pipeline` | `PipelineProofs` |
| `BatchPublication` | *abstract:* a batch stored in order up to a window | as a property of `record_publisher` | |
| `RecordPublisher` | `publish_batch` of `google_pubsub.rs` | `record_publisher` | `RecordPublisherProofs` |
| `GcsPublisher` | `publish_batch` of `gcs.rs` | `gcs`, `gcs_retry` | `GcsPublisherProofs` |
| `BatchLoader` | `dag_hourly_aptos_etl_testnet.py` | `loader` | `BatchLoaderProofs` |
| `QualityControl` | `daily_backfill_mainnet.py`, `daily_dedupe_*.py`, `row_counts.py` | `quality_control`, `row_counts_blind` | `QualityControlProofs` |
| `Options` | values that may be missing | the runs of the modules that use it | |
| `MoveRecords` | addresses, Move types, struct tags and ABIs, which convert and which do not, as operators | `transformation` | |
| `SignatureRecords` | signatures and deferred values, as operators | `transformation` | |
| `PayloadRecords` | payloads and their errors, as operators | `transformation` | |
| `TransactionRecords` | one transaction in each of the eight tables, as operators | `transformation` | |
| `Transformation` | the conversion loop of `extract_range` | `transformation` | `TransformationProofs` |

The `MC*` modules add the sets the configurations use. Definitions with a comment
"Mutant:" are plausible bugs; each stands before the definition it would replace and
documents what the properties can tell apart. They are not part of any
specification.

### The coordinator

`pc` is where the main program stands: `down`, `resume` (inside
`pick_up_from_previous_run`), `poll`, `generate` (the `for` asks the generator),
`publish` (between the serialization at line 155 and the result at line 159).
`lastEnd`, `ledger`, `current` and `serialized` are the Python variables
`last_indexed_end`, `ledger_version`, the generator's `current` and
`indexing_range_serialized`. `topic` and `resumption` are the two Pub/Sub channels.
`Signal` is the handler, which Python runs in the main thread between any two
bytecodes, hence enabled in every state; it publishes `serialized` as the resumption
message, or fails its assertion, and the process ends either way. `Crash` is every
other end. A publish under way reaches the topic or does not. `skipped` and `cutOff`
are history variables: versions the main loop stepped over (line 153 with
start = end), and versions of a range whose publish did not get through. Both are
losses the code really has, and the properties are stated modulo exactly these.

### The extractors

Each worker is at `loop`, `pull`, `open`, `stream`, `publish`, `ack`, `nack` or
`stopped`. `seen` counts the transactions accumulated; `cur_version` of the code is
`start` while `seen = 0` and `start + seen - 1` after that, which is why `AtEnd`
distinguishes the two: a range of one version is at its end before anything was read.
`tab` and `out` are the table being published and the versions of it already out;
publishing is a step per version, so that a crash can fall between any two. The eight
tables are `1 .. TableCount` in the order of mod.rs:909-1012. A message is `ready`,
`leased` or `acked`; `Expire` returns a leased message while its worker goes on.
Transactions that no conversion accepts are the constant `Undecodable`. Every error
becomes a nack and a panic of `main` (`unwrap` at main.rs:400), after which the
container restarts. `givenUp` is the history of ranges acknowledged though their
stream ended early.

### The pipeline

`Pipeline` extends both modules. A publish of the coordinator and the arrival of a
message with a fresh identity are one step; all other steps belong to one side.

### The record publisher

Mainnet's publisher. A record is its position in the batch; `topic` counts how often
the topic has it. Each attempt `a`, that is, each delivery of the range, is at `bulk`
(about to send the next chunk), `await` (waiting for the answer of record `next[a]`),
`publish` (sending a failed record alone) or `done`. `inFlight[a]` are the records of
the chunk the topic has not answered, `failed[a]` those it answered with an error.
Answers come in any order; the code looks at them in the order of the chunk. A publish
that reports an error may have stored its message. A killed worker leaves any part of
what was under way in the topic (the unanswered part of the chunk, or the one record it
republishes), and the range comes back. `sent` and `reported` are
the history that tells a duplicate with a reason from one without.

### The GCS publisher

Testnet's publisher. A record is its position in the batch, a directory the number of
its half hour. The locals of `publish_batch` are the fields of `local[a]` for each
attempt `a`. `wrong` is the history of objects whose last writer had failed to upload a
part before, the one thing that displaces records.

### The batch loader

`task[h]` is the statement the run of hour `h` is at: `remove` (the first task), `load`
(the second), `check` and `insert` (the two statements of the third), or `done` or
`failed`. Tables count their rows, so duplicates show. An object is in the bucket from
the moment the GCS publisher stores it, before, during or after the hour's run, and may
be replaced. A task fails without effect, or loses contact: Airflow counts it as failed
and tries again while its job becomes one of `stray`, which runs its statements whenever
it likes. `disturbed` are the hours that lost contact or that got a displaced row (from
the defect that `gcs_retry` shows): for those the code promises nothing, and the
properties except exactly these. `loaded` and `copied` record what a load found.

### Quality control

The tables count copies of each row, and streaming leaves them with rows lost, late or
repeated. The backfill is a task at a time (`query`, `array`, `check`, `publish`); `seen`
is what the query returned, `queue` the ranges still to be published. What it publishes is
`requested` and arrives in any order, also while the other jobs run: they are kept apart
only by the clock. `Merge` is one table's deduplication, `CountRows` the query of one
table's counts with the check of its result; both run table by table, in any order.
`swallowed` are days of which a publication failed (`finally: return` hides it),
`late` are rows that came after the deduplication of their table. The loop over the
missing versions (`Ranges`) is a fold in ascending order, each turn of which either
extends the last range or begins another (`Extend`). A version whose block
falls on midnight is in the windows of two days, because `BETWEEN` includes both ends. A
merge refused because of rows in the streaming buffer changes nothing and is no step.
`Key` is what the merge groups a table's rows by. Most tables have a number in it that
tells the rows of a transaction apart; the signatures are grouped by values, and
`SignatureKey` says of each signature row which it has. Nothing is assumed about it: two
rows of a transaction may agree, and the merge then deletes one of them (`Twins`).

### The transformation

`RangeExtraction` only knows that a transaction converts or does not. What it converts
to is the subject of five modules of their own. `MoveRecords`, `SignatureRecords`,
`PayloadRecords` and `TransactionRecords` are the pure part: each fallible function of `processing/` is
two operators, whether it fails and what it returns when it does not, and an `Option`
is a set of at most one element (`Options`). `Transformation` is the loop of mod.rs:701-906, a
step for each table in the code's order; `conversionPc` names the table that is next,
`sigCnt`, `records` and `timestamps` are the code's variables, and `Add` keeps what a
selected table gets. `tables/all.rs`, which the offline command uses, converts the same
transaction in another order and for all tables at once (`ExtractRecords`); the loop
must agree with it whatever is selected.

`OnlyTwinKeysCollide` joins the two ends, by the key that `SQL_MERGE_TABLE` takes for a
row's identity. For the signatures that is `signature.value`, `public_key.value`,
`public_key.index`, `signer` and two of the roles (line 41), and `public_key.index` is set
by `from_multied25519` alone (reps/signatures.rs:403): the keys of a MultiKey account
have none (468, publickey.rs:61). So a MultiKey that lists a public key twice and signs
with neither copy has two rows that the merge takes for one, and `transformation` has
such accounts. The property says that this is the only case: the deduplication removes
repetitions, and rows of such *twin* keys, and nothing else.

Inputs are abstract: an account signature has a type, its public keys, its signatures
and the indices of the keys these are of; an address is what it is the address of, and
whether its text has too many digits or other characters (it then does not encode); a
change has a type, the type of the data it carries, an address, and a
struct tag or an ABI; a Move type is its top and the nodes below it; anything the code
rejects is missing or bad. `InputTransaction` is the set of all of them, of any length,
and the proofs are about every subset of it. The text that the conversions write is left
out; whether they write any is modelled. Two assumptions of `WellFormed` are about the chain, not the
code: users do not submit direct write sets, and event data is JSON. Block timestamps
are taken to be within BigQuery's range. `WellSigned` is what the VM demands of a
signature before it commits the transaction: as many secondary signers as addresses, no
address twice, no signature without its key, and further signers only in the types that
have them. The conversion checks none of it, and it is needed: with a secondary address
twice, two rows of the signatures table may agree in the key of the deduplication though
they are of different signers. That the keys of an account differ it does not ask.

## 3. What the runs show, and their bounds

| Run | Instance | Shows |
|---|---|---|
| `coordinator` | versions 0-3, step 2, polls lag by at most 1, 2 stops | with both kinds of range end (cut by the step, cut by the ledger), a stop during and after a resumed run, and a ledger that goes back: no version behind `lastEnd` or a resumption message is unaccounted for; the feed is refined; every version is dealt with |
| `coordinator_skips` | versions 0-3, no stops | *violated:* the previous end of line 152 need not have been indexed |
| `extraction` | 2 workers, 2 neighbouring ranges sharing a version, 2 tables, the last version undecodable, 1 fault | with a range in the hands of both workers at once: acks, tables and failed ranges are sound; next to a poison range the healthy one settles and a signalled worker stops; `RangeDelivery` is refined |
| `extraction_early_end` | 1 worker, a range of one version and one of two, no fault but a stream that ends early | *violated:* a range is acked without being extracted |
| `pipeline` | versions 0-1, step 1, 1 stop, 1 worker, 2 messages, 1 fault | no version falls through between the two processes; every version is indexed or lost for a recorded reason |
| `record_publisher` | 3 records, chunks of 2, 2 attempts, 2 reported errors, 1 crash | a return means the batch is stored; a duplicate has a reason; `BatchPublication` is refined; attempts return |
| `gcs` | all ascending batches of up to 4 records over 3 half hours, 2 attempts, 1 failure of a part, 1 of the rest, 1 crash | naming, wholeness and termination under redelivery |
| `gcs_retry` | one attempt, one failed part | *violated:* records land in another directory |
| `loader` | 2 hours, 3 rows, 3 objects, one retry of a task, 2 failures, 1 lost contact, 1 rerun | the final table has nothing of an hour or one load of it, which stays; a done hour is copied; every hour ends |
| `quality_control` | 1 day with both midnights, 5 versions, 3 signatures of one, of which two are twins, 2 rows lost, late or repeated, 1 interruption or failed publication | the backfill asks for exactly the gaps, and they close; no row disappears but a signature whose twin stays; a day counted clean after its deduplication is complete |
| `row_counts_blind` | 1 day, a block whose row may be lost | *violated:* a missing block is reported |
| `transformation` | all pairs of transactions out of the universe of `MCTransformation`, good and bad, 12 selections | the tables agree with their timestamps, with each other, with the counts and with `extract_records`; good transactions convert; the deduplication's keys tell all rows apart but those of twin keys |

Bounds, all named constants: `MaxVersion`, `MaxLag`, `MaxStops`, `MaxFaults`,
`MaxFailures`, `MaxPartFailures`, `MaxRestFailures`, `MaxCrashes`, `MaxLost`, `MaxReruns`,
`MaxIrregular`, the finite `Inbox`, `Worker`, `MessageId`, `Attempt`, `Hour`, `Row`,
`ObjectName`, `Version`, `Day`. Lost acks and expired deadlines are not bounded. Why they
are enough:

* Two tables, two workers, two attempts and two hours show anything pairwise, and the
  safety properties that the passing runs check are all proved without the bounds. For
  that reason the instance of `pipeline` may be as small as its liveness property needs.
* `record_publisher` has a full chunk and a shorter one; two errors let a bulk publish
  and the republish that follows it fail for one record, or two records of a chunk.
* `loader` has `MaxTries` 2, the DAG 3: with two failures a task can still be retried with
  success, fail for good at any statement, and be run again by hand on what it left.
  Hour 1 has a row in two of its objects, an object that is replaced, and one that may
  hold hour 2's row; the load of an hour without objects fails without a fault.
* `quality_control` has two gaps with one version between them, or one gap of two
  versions, or a gap at an edge of the day, with or without a signature lost or repeated.
  The signatures are of the first version, which a backfill never requests; that rows of
  a child table come again from a backfill is covered by the theorems only.
  With one failure a task is interrupted and retried, or a publication fails; a backfill
  that fails for good (two interruptions, or a day without any row) is in the model but
  beyond this instance, and `GapsClose` promises nothing for it.
* In `transformation` the sets `Transaction` and `Selection` are finite and `RangeLength`
  is 2: transactions do not influence each other except through the lists they are
  appended to and a signature count that must not survive its transaction, and two show
  both. `MCTransformation` holds at least one transaction for each signature, account
  signature, payload and change type, errors of each of the conversions, and each fate of
  a failed transaction; accounts list a key twice as a MultiEd25519 and as a MultiKey, with
  one copy signing and with none; its assumptions `GoodIsGood`, `BadIsBad` and `SignedIsSigned` say
  which of them are `WellFormed`, and that all are `WellSigned`.

Five models may stop, and their runs do not check for deadlock: `gcs` and
`record_publisher` (all attempts have returned), `loader` (all hours have settled),
`quality_control` (the day's tasks have ended) and `transformation` (the range is
converted or has failed). The others never stop.

The four violated properties quote the repository and are explained under "findings" in
`PROJECT.json`: the skipped version, the early end of a stream, the drain inside the
retry loop, and the row counts that cannot see a missing block.

### Fairness

* Coordinator: weak fairness of the program's own steps, because Kubernetes restarts
  the container always (`restartPolicy: Always`) and the client retries a publish.
  Strong fairness of a poll that answers the newest version: both nodes follow the
  chain, but each single answer may lag. Nothing is assumed of signals, crashes and
  the growth of the chain.
* Workers: weak fairness of each worker's own steps; of an open stream only that it
  delivers, fails or ends (`StreamMoves`). A pull on an empty subscription need not
  return: mod.rs:511 says it may hang. Pub/Sub is assumed to offer each message again
  and again to workers that pull (strong fairness of `Pull`), and not to ignore the
  acks of one message for ever (strong fairness of `Ack`).
* Record publisher: every message of a bulk publish gets an answer (the client's
  awaiter resolves with an id or an error), the worker goes on, and a publish that is
  repeated for ever is not refused for ever. Each is weak fairness.
* GCS: an attempt that keeps retrying gets an upload through; the number of failures is
  bounded by the constants.
* Batch loader: Airflow schedules every task that is due. Nothing is assumed of uploads,
  reruns and stray jobs.
* Quality control: the backfill's tasks are scheduled, and requested rows arrive in the
  end, which is what the pipeline promises for ranges that convert. Nothing is assumed of
  the deduplication and the counts.

## 4. What is proved

With TLAPS, for every value of the constants allowed by their `ASSUME`s:

* **Coordinator.** `TypeOK`, `NothingBehindIsMissing`, `ResumptionIsSound` and the
  refinement of `VersionFeed`. The two safety properties are not inductive. The
  strengthening `IInv` adds that what is handled is always an interval from genesis
  (a prefix), that `current` stays within the prefix or one past it while a batch runs,
  and that a serialized range begins where the prefix still reaches. The delicate case
  is a ledger that went back: `lastEnd` moves backward and the prefix must not shrink.
* **Extraction.** Types, `AckedIsComplete`, `FailedRangePublishesNothing`,
  `TablesFillInOrder` and the refinement of `RangeDelivery`. `ExtractionIInv` adds, for
  every worker, what its place in the program says of the tables: while it publishes,
  all tables before `tab` hold the range, table `tab` holds `out`, the range was read
  whole or is given up, and none of its transactions is undecodable; when it is about
  to ack, the range is complete or given up. Rows only grow, so one worker cannot
  invalidate another's part, nor can an expired lease.
* **Pipeline.** Each behaviour of the composition is a behaviour of both parts
  (`PipelineImplementsParts`), so their theorems carry over; with the lemma that the
  coordinator's topic is contained in the messages sent, they give
  `NoVersionFallsThrough` and `ResumptionLosesNothing`.
* **Record publisher.** Types, `ReturnedMeansStored`, `DuplicatesHaveAReason` and the
  refinement of `BatchPublication`. `IInv` says of each attempt that the chunks before its
  own are stored, and that of its own chunk everything is that is neither in flight nor
  failed; both lie at or behind the record it waits for. The window of the abstract
  specification is what a crash in the middle of a chunk leaves behind.
  `DuplicatesHaveAReason` counts the attempts that will store a record once more
  (`Waiting`); a step changes the count by the one attempt that takes it, and what the
  count loses the topic gains. That needs `IInv`, by which a record is never in flight and
  failed in one attempt, and that there are finitely many attempts.
* **GCS publisher.** Types, `OneObjectPerDirectory`, `ObjectsAreWhole` and
  `FinishedMeansStored`, for every finite ascending batch. What two attempts at the same
  batch have in common is the key: the name of an object is determined by its directory,
  so a second attempt writes over the first one's objects and never beside them. The name
  is where the directory starts, except for a last directory of a single record, whose
  name is where the directory *before* starts, because no scan has set `file_name` in
  between. `IInv` states this of every object, that a clean attempt's remaining records
  are exactly those it has not uploaded, and that all it has passed have their objects.
* **Batch loader.** Types, `FinalIsOneLoad`, `DoneIsCopied` and `CopiedHoursStay`. `IInv`
  says for each undisturbed hour what the statement it is at means for the two tables: the
  temporary one has nothing of the hour before the load, and before the insertion either
  exactly the load, or nothing and the final table has the hour. Stray jobs belong to
  disturbed hours; the rows of different hours are disjoint, so that jobs of other hours,
  stray or not, preserve it.
* **Transformation.** All seven properties the run checks, for every set of input
  transactions, every selection of tables and every length of a range. None of them is
  inductive: each speaks of lists that the loop has appended to, and of where it ended.
  `TransformationInv` says what those lists are at every step: the rows that
  `extract_records` makes of the transactions done, and of the transaction at hand as far
  as the loop has come, each list with the timestamps that belong to it; every table made
  so far converted, and where the loop has given up some table does not convert. That is
  `TablesAreIndependent` between the steps of the loop, and the other properties follow
  from it by what the operators do to one transaction: the counts of a row are the lengths
  of its lists; the table of a change, and with it its index, is in the detail row;
  no record of a signature that converts is left open, by cases on the type of the
  transaction's signature and of each account's; the rows of a signature lie party after
  party and key after key, which counts those of each signer; rows of two parties differ
  in the key of deduplication by role or address, and rows of one party by what they show
  of their key, unless that is listed twice by a MultiKey and signed alike.
  `OnlyTwinsAreDeduplicated` and `EverySignerHasItsRows` assume that all
  signatures are `WellSigned`.
* **Quality control.** `BackfillRequestsTheGaps`, `NoRowDisappears` and
  `CleanDayIsComplete`, for any days, versions, tables and rows. The core of the first is a
  lemma about the loop of `publish_range_f`: for every set of versions seen, what it
  returns are the maximal intervals of versions not seen between two that were. `QCInv`
  adds what each task of the backfill knows: what was published and what is still in the
  queue are such gaps, and all of them while the publishing task runs. `NoRowDisappears`
  (theorem `RowsStay`) rests on the merge keeping a row of each key, and on the keys of
  all tables but the signatures telling rows apart; of the signatures nothing is assumed,
  and what stays in place of a row is its twin. For `CleanDayIsComplete`, `QCInv` has that
  no row of a deduplicated table is there twice unless it came later; then the count of
  the join can only agree with the sum of the transaction's counts if no row is missing. `BlocksAssumption` is what makes a key of
  the blocks table identify its row.

What the model assumes of its constants is named where they are declared, and TLC
evaluates it on each run: among others that a block has one metadata transaction, that
block times do not go down with the version, that versions have no gap, and that every
conversion starts from an `InputTransaction`.

Some of these proofs are by induction over data: the lengths of sequences, the missing
versions, the signers of a transaction. A principle with a predicate for a parameter
cannot be instantiated by the provers, so each is stated for a *set* (`NatSetInduction`,
`SubsetInduction`), and derived from the library's theorems that there is a minimal
element. The folds of the community modules are related by lemmas to the recursive
functions they are defined by.

Only model-checked is liveness, because fairness and ENABLED are beyond the prover:
`EveryVersionHandled`, `HealthyRangesSettle`, `SignalledWorkerStops`,
`EveryVersionIndexed`, `EventuallyFinished`, `HoursSettle`, `GapsClose` and
`AttemptsReturn`; and the four violations, which are single behaviours.

## 5. What is not modelled, and the plan

Order of work, most important behaviour first; 1-8 are done.

1. `IndexingCoordinator` with `VersionFeed`, checked and proved.
2. `RangeExtraction` with `RangeDelivery`, checked and proved.
3. `Pipeline`, composing both, checked and proved.
4. `GcsPublisher`, checked and proved.
5. `Transformation` with its record modules, checked and proved.
6. `BatchLoader`, checked and proved.
7. `RecordPublisher` with `BatchPublication`, checked and proved.
8. `QualityControl`, checked and proved.
9. Left: the offline commands, the resumption of a range on the command line, and the
   fallback of `grpc/stream.rs`, whose second node is asked only when the task that asks
   the first one panics (83-159): for the worker both end in an open stream or an error,
   which `OpenStream` and `StreamFails` are.
10. Left: the safety parts that the liveness properties rest on (what each state with
    work left enables), where they can be said without ENABLED.
11. Left: the extraction composed with the record publisher in place of its publishing
    loop, and the loader with the GCS publisher in place of `Upload`.

Not modelled, and why:

* The offline commands `extract_txs` and `transform_txs` read and write files in one pass
  with nobody beside them. Reading them shows that an early end of the stream counts as
  success, that `extract` takes the first version for the last as well (mod.rs:602), and
  that the test of `name_str.is_empty()` (mod.rs:364-367) is inverted.
* `pick_up_from_previous_range` is commented out (main.rs:414-430).
* `row_counts_72hrs.py` counts what `row_counts.py` counts over another window.
* The publishers no deployment uses (JSON, JSONL, RabbitMQ, Kafka), and the single-record
  publish functions this build never calls.
* The conversions' formatting, protobuf and JSON encoding, logging, metrics, alert texts,
  terraform and helm files (their values are cited where a model depends on them), and
  build scripts.
* Time: a sleep is a step that takes as long as it likes. The backoff of a part, which
  starts at 1 and stays there because it is squared (gcs.rs:170), and the jitter that exceeds
  the fifteen minutes of gcs.rs:216-217, are therefore not seen.

Further disagreements met while reading, which the models leave room for and no property
is about: ranges that are said to be disjoint share their seams (publish_ranges.py:96 and
154); `mod.rs:537` panics on a message that does not decode before it could nack it, so it
returns until its retention ends; end - start underflows for a descending range
(mod.rs:657); the row counts compare nothing for a transaction whose child rows are all
missing; an attempt of the loader that loses contact may duplicate the hour or lose it.
daily_dedupe_mainnet.py:30 calls its keys "the fields for each table that determines if
two records are unique or duplicates", but the two rows of twin keys are records of
their own and the transaction counts both (transactions.rs:158-165), so that after the
deduplication the row count of line 16-25 of row_counts.py reports the transaction.
