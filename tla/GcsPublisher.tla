---------------------------- MODULE GcsPublisher ----------------------------
(***************************************************************************)
(* publish_batch of extractor_transformer/src/output/gcs.rs: the records   *)
(* of one range and one table are split by the half hour of their          *)
(* timestamps, and each slice is uploaded as one object of the bucket.     *)
(* The loader later picks up one such directory at a time.                 *)
(*                                                                         *)
(* A range is delivered at least once, so several attempts to publish the  *)
(* same batch may run, one after the other or side by side, and any of     *)
(* them may fail an upload, panic or be killed.                            *)
(***************************************************************************)
EXTENDS Integers, Sequences

CONSTANTS
    Attempt,          \* deliveries of the range: workers publishing the batch
    Batches,          \* the batches to consider: directories of the records
    MaxPartFailures,  \* bound: failed uploads in the loop over the records
    MaxRestFailures,  \* bound: failed uploads of the last slice
    MaxCrashes,       \* bound: workers killed
    NoDirectory       \* cur_dir is None

\* A directory is a half hour; timestamps ascend with the versions (gcs.rs:89).
ASSUME BatchesAssumption ==
    /\ Batches \subseteq Seq(Nat)
    /\ \A b \in Batches : \A q, r \in DOMAIN b : (q <= r) => (b[q] <= b[r])
ASSUME BoundsAssumption ==
    MaxPartFailures \in Nat /\ MaxRestFailures \in Nat /\ MaxCrashes \in Nat
ASSUME NoDirectoryAssumption == NoDirectory \notin Nat

VARIABLES
    batch,     \* the directory of each record, by position
    bucket,    \* the objects and the records in them
    wrong,     \* history: objects last written after a failed part
    finished,  \* whether some attempt has returned
    pc,        \* where each attempt is
    local,     \* the locals of publish_batch in each attempt
    partFailures, restFailures, crashes

vars == <<batch, bucket, wrong, finished, pc, local, partFailures,
          restFailures, crashes>>

counters == <<partFailures, restFailures, crashes>>

\* An object's name: its directory and the position its file is named after.
Object(dir, file) == [dir |-> dir, file |-> file]

\* The locals on entry: left is record_strings.
Fresh == [i |-> 0, prev |-> 0, dir |-> NoDirectory, file |-> 0,
          left |-> [r \in DOMAIN batch |-> r], clean |-> TRUE]

Init ==
    /\ batch \in Batches
    /\ bucket = << >>
    /\ wrong = {}
    /\ finished = FALSE
    /\ pc = [a \in Attempt |-> "idle"]
    /\ local = [a \in Attempt |-> Fresh]
    /\ partFailures = 0
    /\ restFailures = 0
    /\ crashes = 0

Goto(a, l) == pc' = [pc EXCEPT ![a] = l]

-----------------------------------------------------------------------------
(* The bucket *)

\* Creates or replaces an object.
Store(a, o, records) ==
    /\ bucket' = [n \in DOMAIN bucket \cup {o} |->
                    IF n = o THEN records ELSE bucket[n]]
    /\ wrong' = IF local[a].clean THEN wrong \ {o} ELSE wrong \cup {o}

\* An upload that returns an error stored its object or did not.
StoreMaybe(a, o, records) ==
    \/ Store(a, o, records)
    \/ UNCHANGED <<bucket, wrong>>

-----------------------------------------------------------------------------
(* publish_batch *)

\* A worker has the records of the range; an empty batch is skipped.
Begin(a) ==
    /\ pc[a] = "idle"
    /\ IF batch = << >>
       THEN /\ Goto(a, "done")
            /\ finished' = TRUE
       ELSE /\ Goto(a, "scan")
            /\ UNCHANGED finished
    /\ UNCHANGED <<batch, bucket, wrong, local, counters>>

Directory(a) == batch[local[a].i + 1]

\* A record of the directory of the one before it, or the first record.
SameDirectory(a) ==
    /\ pc[a] = "scan"
    /\ local[a].i < Len(batch)
    /\ local[a].dir \in {NoDirectory, Directory(a)}
    /\ local' = [local EXCEPT ![a].file = local[a].prev,
                              ![a].dir = Directory(a),
                              ![a].i = @ + 1]
    /\ UNCHANGED <<batch, bucket, wrong, finished, pc, counters>>

\* Mutant: the file is named after the position after the slice's first.
NewDirectoryMisnamed(a) ==
    /\ pc[a] = "scan"
    /\ local[a].i < Len(batch)
    /\ local[a].dir \notin {NoDirectory, Directory(a)}
    /\ Goto(a, "part")
    /\ local' = [local EXCEPT ![a].file = local[a].prev + 1]
    /\ UNCHANGED <<batch, bucket, wrong, finished, counters>>

\* A record of another directory: the slice before it is to be uploaded.
NewDirectory(a) ==
    /\ pc[a] = "scan"
    /\ local[a].i < Len(batch)
    /\ local[a].dir \notin {NoDirectory, Directory(a)}
    /\ Goto(a, "part")
    /\ local' = [local EXCEPT ![a].file = local[a].prev]
    /\ UNCHANGED <<batch, bucket, wrong, finished, counters>>

\* Mutant: the scan never finds the end.
AllScannedTooLate(a) ==
    /\ pc[a] = "scan"
    /\ local[a].i > Len(batch)
    /\ Goto(a, "rest")
    /\ UNCHANGED <<batch, bucket, wrong, finished, local, counters>>

AllScanned(a) ==
    /\ pc[a] = "scan"
    /\ local[a].i = Len(batch)
    /\ Goto(a, "rest")
    /\ UNCHANGED <<batch, bucket, wrong, finished, local, counters>>

\* Mutant: one record too many, as the comment on split_off would have it.
DrainedOneMore(a) == local[a].i - local[a].prev + 1

\* num_to_drain, and what drain leaves of record_strings.
Drained(a) == local[a].i - local[a].prev
Drain(a) == SubSeq(local[a].left, Drained(a) + 1, Len(local[a].left))

\* The records the next upload of a part takes.
Part(a) == SubSeq(local[a].left, 1, Drained(a))
PartObject(a) == Object(local[a].dir, local[a].file)

UploadPart(a) ==
    /\ pc[a] = "part"
    /\ Drained(a) <= Len(local[a].left)
    /\ Goto(a, "scan")
    /\ Store(a, PartObject(a), Part(a))
    /\ local' = [local EXCEPT ![a].left = Drain(a),
                              ![a].prev = local[a].i,
                              ![a].dir = Directory(a),
                              ![a].i = @ + 1]
    /\ UNCHANGED <<batch, finished, counters>>

\* The loop around the upload drains the records anew in each turn.
UploadPartFails(a) ==
    /\ pc[a] = "part"
    /\ partFailures < MaxPartFailures
    /\ partFailures' = partFailures + 1
    /\ Drained(a) <= Len(local[a].left)
    /\ StoreMaybe(a, PartObject(a), Part(a))
    /\ local' = [local EXCEPT ![a].left = Drain(a),
                              ![a].clean = FALSE]
    /\ UNCHANGED <<batch, finished, pc, restFailures, crashes>>

\* The worker panics or is killed, and the range is delivered again.
Restart(a) ==
    /\ Goto(a, "idle")
    /\ local' = [local EXCEPT ![a] = Fresh]

\* Fewer records are left than are to be drained.
DrainPanics(a) ==
    /\ pc[a] = "part"
    /\ Drained(a) > Len(local[a].left)
    /\ Restart(a)
    /\ UNCHANGED <<batch, bucket, wrong, finished, counters>>

\* Mutant: the file is named after the number of records that are left.
RestObjectBySize(a) == Object(local[a].dir, Len(local[a].left))

RestObject(a) == Object(local[a].dir, local[a].file)

UploadRest(a) ==
    /\ pc[a] = "rest"
    /\ Goto(a, "done")
    /\ Store(a, RestObject(a), local[a].left)
    /\ finished' = TRUE
    /\ UNCHANGED <<batch, local, counters>>

\* Mutant: a failed upload is not retried.
UploadRestGivesUp(a) ==
    /\ pc[a] = "rest"
    /\ restFailures < MaxRestFailures
    /\ restFailures' = restFailures + 1
    /\ StoreMaybe(a, RestObject(a), local[a].left)
    /\ Goto(a, "done")
    /\ finished' = TRUE
    /\ UNCHANGED <<batch, local, partFailures, crashes>>

UploadRestFails(a) ==
    /\ pc[a] = "rest"
    /\ restFailures < MaxRestFailures
    /\ restFailures' = restFailures + 1
    /\ StoreMaybe(a, RestObject(a), local[a].left)
    /\ UNCHANGED <<batch, finished, pc, local, partFailures, crashes>>

Kill(a) ==
    /\ pc[a] \in {"scan", "part", "rest"}
    /\ crashes < MaxCrashes
    /\ crashes' = crashes + 1
    /\ Restart(a)
    /\ UNCHANGED <<batch, bucket, wrong, finished, partFailures,
                   restFailures>>

AttemptStep(a) ==
    \/ Begin(a)
    \/ SameDirectory(a)
    \/ NewDirectory(a)
    \/ AllScanned(a)
    \/ UploadPart(a)
    \/ UploadPartFails(a)
    \/ DrainPanics(a)
    \/ UploadRest(a)
    \/ UploadRestFails(a)
    \/ Kill(a)

Next == \E a \in Attempt : AttemptStep(a)

Spec == Init /\ [][Next]_vars

\* The range is delivered until it is acknowledged, and an attempt goes on
\* retrying until an upload succeeds.
FairSpec ==
    /\ Spec
    /\ \A a \in Attempt :
        /\ WF_vars(Begin(a) \/ SameDirectory(a) \/ NewDirectory(a) \/ AllScanned(a))
        /\ WF_vars(UploadPart(a) \/ DrainPanics(a))
        /\ WF_vars(UploadRest(a))

-----------------------------------------------------------------------------
(* Properties *)

Positions == DOMAIN batch

\* The locals of publish_batch.
Locals ==
    [i : 0 .. Len(batch), prev : 0 .. Len(batch), dir : Nat \cup {NoDirectory},
     file : 0 .. Len(batch), left : Seq(Positions), clean : BOOLEAN]

\* Every variable has its type.
TypeOK ==
    /\ batch \in Batches
    /\ DOMAIN bucket \subseteq [dir : Nat, file : Nat]
    /\ \A o \in DOMAIN bucket : bucket[o] \in Seq(Positions)
    /\ wrong \subseteq DOMAIN bucket
    /\ finished \in BOOLEAN
    /\ pc \in [Attempt -> {"idle", "scan", "part", "rest", "done"}]
    /\ local \in [Attempt -> Locals]
    /\ partFailures \in Nat
    /\ restFailures \in Nat
    /\ crashes \in Nat

RecordsOf(dir) == {r \in Positions : batch[r] = dir}
Contents(o) == {bucket[o][k] : k \in DOMAIN bucket[o]}

\* The object holds the records of its directory: all of them, nothing else.
IsWhole(o) == Contents(o) = RecordsOf(o.dir)

\* Objects are named after positions in the batch, not after attempts: however
\* often the range is redelivered and whatever failed in between, a directory
\* has one object of the range, so that no record is loaded twice.
OneObjectPerDirectory ==
    \A o, p \in DOMAIN bucket : o.dir = p.dir => o = p

\* An object holds all records of its directory and no others, unless the last
\* attempt to write it had failed to upload a part before.  So redelivery
\* repairs what a failed upload displaced.
ObjectsAreWhole == \A o \in DOMAIN bucket \ wrong : IsWhole(o)

\* Once an attempt has returned, each directory of the batch has its object,
\* whatever other attempts do at the same time.
FinishedMeansStored ==
    finished => \A r \in Positions : \E o \in DOMAIN bucket :
        o.dir = batch[r] /\ (o \in wrong \/ IsWhole(o))

\* publish_batch returns in the end, in some attempt.
EventuallyFinished == <>finished

\* gcs.rs:91, "publish them into the correct directory": once an attempt has
\* returned, every record is in an object of its own directory.
RecordsInTheirDirectory ==
    finished => \A r \in Positions : \E o \in DOMAIN bucket :
        o.dir = batch[r] /\ r \in Contents(o)
=============================================================================
