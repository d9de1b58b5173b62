------------------------- MODULE IndexingCoordinator -------------------------
(***************************************************************************)
(* indexing_coordinator/publish_ranges.py: the single process that polls   *)
(* the node for its ledger version, cuts the new versions into ranges,     *)
(* publishes each range to the work topic and, when it is told to stop,    *)
(* leaves the last range it serialized in the resumption subscription for  *)
(* its successor.                                                          *)
(*                                                                         *)
(* Any two lines of the main program can be separated by a signal, which   *)
(* Python runs in the main thread (Signal), or by a crash (Crash).         *)
(* Kubernetes restarts the container (Start).                              *)
(***************************************************************************)
EXTENDS IndexingRanges

CONSTANTS
    Step,       \* versions of a range: the default `step` of range_generator
    MaxLag,     \* bound: how far behind the chain a polled node may answer
    MaxStops,   \* bound: signals and crashes together
    NoRange     \* Python's None for indexing_range_serialized

ASSUME StepAssumption == Step \in Nat \ {0}
ASSUME MaxLagAssumption == MaxLag \in Nat
ASSUME MaxStopsAssumption == MaxStops \in Nat
ASSUME NoRangeAssumption == NoRange \notin IndexingRange

VARIABLES
    tip,         \* the newest version of the chain
    stops,       \* signals and crashes so far
    pc,          \* where the main program is
    lastEnd,     \* last_indexed_end
    ledger,      \* ledger_version of this turn of the main loop
    current,     \* `current` of the running range_generator
    serialized,  \* indexing_range_serialized, read by the signal handler
    topic,       \* the ranges published to the work topic
    resumption,  \* the ranges waiting in the resumption subscription
    skipped,     \* history: versions the main loop stepped over
    cutOff       \* history: versions of a range whose publish was cut short

vars == <<tip, stops, pc, lastEnd, ledger, current, serialized, topic,
          resumption, skipped, cutOff>>

process == <<pc, lastEnd, ledger, current, serialized>>
history == <<skipped, cutOff>>

\* The versions this and earlier runs of the coordinator dealt with: they are
\* in the topic, or they are lost for a reason the history records.
Handled == Covered(topic) \cup skipped \cup cutOff

Init ==
    /\ tip = 0
    /\ stops = 0
    /\ pc = "down"
    /\ lastEnd = -1
    /\ ledger = 0
    /\ current = 0
    /\ serialized = NoRange
    /\ topic = {}
    /\ resumption = {}
    /\ skipped = {}
    /\ cutOff = {}

-----------------------------------------------------------------------------
(* The environment *)

ChainGrows ==
    /\ tip < MaxVersion
    /\ tip' = tip + 1
    /\ UNCHANGED <<stops, process, topic, resumption, history>>

-----------------------------------------------------------------------------
(* Startup *)

\* The module is loaded: its globals are fresh and the handlers installed.
Start ==
    /\ pc = "down"
    /\ pc' = "resume"
    /\ UNCHANGED <<tip, stops, lastEnd, ledger, current, serialized, topic,
                   resumption, history>>

\* pick_up_from_previous_run with a message.  The acknowledgement that follows
\* the pull may be lost, and the message then stays for a later run.
PickUpFromMessage(r) ==
    /\ pc = "resume"
    /\ pc' = "poll"
    /\ lastEnd' = r.end
    /\ resumption' \in {resumption, resumption \ {r}}
    /\ UNCHANGED <<tip, stops, ledger, current, serialized, topic, history>>

\* pick_up_from_previous_run without one: a pull may return nothing even
\* when a message waits.  The run starts from genesis.
PickUpFromGenesis ==
    /\ pc = "resume"
    /\ pc' = "poll"
    /\ lastEnd' = -1
    /\ UNCHANGED <<tip, stops, ledger, current, serialized, topic, resumption,
                   history>>

PickUp ==
    \/ \E r \in resumption : PickUpFromMessage(r)
    \/ PickUpFromGenesis

-----------------------------------------------------------------------------
(* The main loop *)

\* Mutant: the first version of every batch is left out.
GetLedgerVersionSkipsFirst(v) ==
    /\ pc = "poll"
    /\ pc' = "generate"
    /\ ledger' = v
    /\ current' = lastEnd + 2
    /\ UNCHANGED <<tip, stops, lastEnd, serialized, topic, resumption, history>>

\* get_ledger_version answers v, and range_generator is created.  The answer
\* comes from whichever node did not fail, so it may be older than the last.
GetLedgerVersion(v) ==
    /\ pc = "poll"
    /\ pc' = "generate"
    /\ ledger' = v
    /\ current' = lastEnd + 1
    /\ UNCHANGED <<tip, stops, lastEnd, serialized, topic, resumption, history>>

\* Mutant: a range may end beyond the ledger version.
NextStopUnclamped == current + Step

\* The generator's next_position, plus one: range(..).stop.
NextStop == IF current + Step <= ledger THEN current + Step ELSE ledger

\* The generator yields a range, which the loop body serializes.
NextRange ==
    /\ pc = "generate"
    /\ current < ledger
    /\ pc' = "publish"
    /\ serialized' = [start |-> current, end |-> NextStop]
    /\ UNCHANGED <<tip, stops, lastEnd, ledger, current, topic, resumption,
                   history>>

\* Mutant: the next range starts past the end of the last one, as if no version
\* were left over when that end is the ledger version.
PublishWithoutSeam ==
    /\ pc = "publish"
    /\ pc' = "generate"
    /\ topic' = topic \cup {serialized}
    /\ current' = serialized.end + 1
    /\ UNCHANGED <<tip, stops, lastEnd, ledger, serialized, resumption, history>>

\* publisher.publish(..) and future.result().
Publish ==
    /\ pc = "publish"
    /\ pc' = "generate"
    /\ topic' = topic \cup {serialized}
    /\ current' = serialized.end
    /\ UNCHANGED <<tip, stops, lastEnd, ledger, serialized, resumption, history>>

\* Mutant: the generator waits for a version past the ledger version.
BatchDoneTooLate ==
    /\ pc = "generate"
    /\ current > ledger
    /\ pc' = "poll"
    /\ lastEnd' = ledger
    /\ skipped' = IF ledger = lastEnd + 1 THEN skipped \cup {ledger} ELSE skipped
    /\ UNCHANGED <<tip, stops, ledger, current, serialized, topic, resumption,
                   cutOff>>

\* The generator is exhausted.  One that was created with start = end yielded
\* nothing, and its only version is stepped over.
BatchDone ==
    /\ pc = "generate"
    /\ current >= ledger
    /\ pc' = "poll"
    /\ lastEnd' = ledger
    /\ skipped' = IF ledger = lastEnd + 1 THEN skipped \cup {ledger} ELSE skipped
    /\ UNCHANGED <<tip, stops, ledger, current, serialized, topic, resumption,
                   cutOff>>

-----------------------------------------------------------------------------
(* The end of a run *)

\* A publish that is under way when the process goes away reached the topic
\* or did not.
AbandonPublish ==
    IF pc = "publish"
    THEN \/ /\ topic' = topic \cup {serialized}
            /\ UNCHANGED cutOff
         \/ /\ cutOff' = cutOff \cup Versions(serialized)
            /\ UNCHANGED topic
    ELSE UNCHANGED <<topic, cutOff>>

\* The memory of the process goes with it.
MemoryLost ==
    /\ pc' = "down"
    /\ lastEnd' = -1
    /\ ledger' = 0
    /\ current' = 0
    /\ serialized' = NoRange

\* Mutant: the ledger version is handed over instead of the last range's end.
SignalHandsOverLedger ==
    /\ pc # "down"
    /\ stops < MaxStops
    /\ stops' = stops + 1
    /\ MemoryLost
    /\ resumption' = IF serialized = NoRange
                     THEN resumption
                     ELSE resumption \cup {[start |-> serialized.start,
                                            end |-> ledger]}
    /\ AbandonPublish
    /\ UNCHANGED <<tip, skipped>>

\* signal_handler: the last serialized range becomes the resumption message.
\* Without one the assertion fails and the process ends all the same.
Signal ==
    /\ pc # "down"
    /\ stops < MaxStops
    /\ stops' = stops + 1
    /\ MemoryLost
    /\ resumption' = IF serialized = NoRange
                     THEN resumption
                     ELSE resumption \cup {serialized}
    /\ AbandonPublish
    /\ UNCHANGED <<tip, skipped>>

\* SIGKILL, an exception of a client library, a lost node.
Crash ==
    /\ pc # "down"
    /\ stops < MaxStops
    /\ stops' = stops + 1
    /\ MemoryLost
    /\ AbandonPublish
    /\ UNCHANGED <<tip, resumption, skipped>>

Poll == \E v \in Version : tip - MaxLag <= v /\ v <= tip /\ GetLedgerVersion(v)

Next ==
    \/ ChainGrows
    \/ Start
    \/ PickUp
    \/ Poll
    \/ NextRange
    \/ Publish
    \/ BatchDone
    \/ Signal
    \/ Crash

Spec == Init /\ [][Next]_vars

\* The container is always restarted, a publish is retried by its client until
\* it succeeds or the process dies, and requests to the node are retried
\* forever.  A poll answers the chain's newest version again and again: both
\* nodes follow the chain, although each answer may lag.
Fairness ==
    /\ WF_vars(Start)
    /\ WF_vars(PickUp)
    /\ SF_vars(GetLedgerVersion(tip))
    /\ WF_vars(NextRange)
    /\ WF_vars(Publish)
    /\ WF_vars(BatchDone)

FairSpec == Spec /\ Fairness

-----------------------------------------------------------------------------
(* Properties *)

\* Every variable has its type, and a publish has a range to send.
TypeOK ==
    /\ tip \in Version
    /\ stops \in 0 .. MaxStops
    /\ pc \in {"down", "resume", "poll", "generate", "publish"}
    /\ lastEnd \in Version \cup {-1}
    /\ ledger \in Version
    /\ current \in 0 .. MaxVersion + 1
    /\ serialized \in IndexingRange \cup {NoRange}
    /\ pc = "publish" => serialized \in IndexingRange
    /\ topic \subseteq IndexingRange
    /\ resumption \subseteq IndexingRange
    /\ skipped \subseteq Version
    /\ cutOff \subseteq Version

\* A turn of the main loop starts one past lastEnd (publish_ranges.py:153), so
\* every version up to lastEnd must have been dealt with: this or an earlier
\* run published it, stepped over it, or was stopped while publishing it.
NothingBehindIsMissing ==
    pc \in {"poll", "generate", "publish"} => HasPrefix(Handled, lastEnd)

\* Whatever range a stopped run left behind, a run that resumes from it has
\* no undealt-with version behind it (publish_ranges.py:42, 119).
ResumptionIsSound == \A r \in resumption : HasPrefix(Handled, r.end)

\* Once the chain has reached a version, the coordinator eventually deals with
\* it, however often it is stopped and however stale some polls are.
EveryVersionHandled == \A v \in Version : (tip >= v) ~> (v \in Handled)

\* The coordinator implements the feed: what it dealt with is a growing prefix
\* of the chain, across batches, stale polls, signals, crashes and restarts.
Feed == INSTANCE VersionFeed WITH handled <- Handled
ImplementsFeed == Feed!Spec

\* publish_ranges.py:152, "we don't want to re-index the previous end value":
\* the version a turn of the main loop leaves behind, genesis aside, is in a
\* range that was published.
PreviousEndIsIndexed ==
    pc = "poll" /\ lastEnd > 0 => lastEnd \in Covered(topic)
=============================================================================
