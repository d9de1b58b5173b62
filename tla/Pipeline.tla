------------------------------ MODULE Pipeline ------------------------------
(***************************************************************************)
(* The indexing coordinator and the extractor_transformer instances        *)
(* together: the topic the coordinator publishes to feeds the subscription *)
(* the workers pull from.  Every range the coordinator publishes arrives   *)
(* there as a message of its own, and neither side learns anything else of *)
(* the other: not how far it is, not that it crashed.                      *)
(***************************************************************************)
EXTENDS IndexingCoordinator, RangeExtraction

pipelineVars == <<vars, extractionVars>>

RangeOf(m) == [start |-> m.start, end |-> m.end]

PipelineInit ==
    /\ Init
    /\ ExtractionInit

\* The coordinator does something the subscription does not see.
CoordinatorStep ==
    /\ \/ ChainGrows
       \/ Start
       \/ PickUp
       \/ Poll
       \/ NextRange
       \/ BatchDone
    /\ UNCHANGED extractionVars

\* The range being published becomes a message.
MessageSent ==
    /\ pc = "publish"
    /\ \E m \in Inbox : RangeOf(m) = serialized /\ Arrive(m)

\* publisher.publish returns.
PublishRange ==
    /\ Publish
    /\ MessageSent

\* The coordinator goes away; a publish that was under way got through ...
StopAfterPublish ==
    /\ Signal \/ Crash
    /\ serialized \in topic' /\ UNCHANGED cutOff
    /\ MessageSent

\* ... or it did not, or there was none.
StopWithoutPublish ==
    /\ Signal \/ Crash
    /\ UNCHANGED topic
    /\ pc = "publish" => Versions(serialized) \subseteq cutOff'
    /\ UNCHANGED extractionVars

\* The subscription or a worker moves.
ExtractionStep ==
    /\ \/ \E m \in leased : Expire(m)
       \/ \E w \in Worker : WorkerStep(w)
    /\ UNCHANGED vars

PipelineNext ==
    \/ CoordinatorStep
    \/ PublishRange
    \/ StopAfterPublish
    \/ StopWithoutPublish
    \/ ExtractionStep

PipelineSpec == PipelineInit /\ [][PipelineNext]_pipelineVars

\* The fairness of both sides; a publish is now a step of both.
PipelineFairness ==
    /\ WF_vars(Start)
    /\ WF_vars(PickUp)
    /\ SF_vars(GetLedgerVersion(tip))
    /\ WF_vars(NextRange)
    /\ WF_pipelineVars(PublishRange)
    /\ WF_vars(BatchDone)
    /\ ExtractionFairness

PipelineFairSpec == PipelineSpec /\ PipelineFairness

-----------------------------------------------------------------------------
(* Properties *)

\* The version is in every table.
Indexed(v) == \A t \in Table : v \in rows[t]

\* A message that will be delivered again covers the version.
Pending(v) == v \in Covered(sent \ acked)

\* The version is lost, for one of three reasons the models record: the main
\* loop stepped over it, the coordinator was stopped while publishing it, or a
\* worker gave up a range that covers it.
Lost(v) == v \in skipped \cup cutOff \cup Covered(givenUp)

\* The coordinator never looks behind lastEnd again (publish_ranges.py:153),
\* and the workers never look behind an ack (mod.rs:558): between the two, no
\* version falls through that is neither indexed, nor going to be delivered
\* again, nor lost for a recorded reason.
NoVersionFallsThrough ==
    pc \in {"poll", "generate", "publish"} =>
        \A v \in 0 .. lastEnd : Indexed(v) \/ Pending(v) \/ Lost(v)

\* The same of the versions a resumption message lets a later run skip
\* (publish_ranges.py:42, 119).
ResumptionLosesNothing ==
    \A r \in resumption : \A v \in 0 .. r.end :
        Indexed(v) \/ Pending(v) \/ Lost(v)

\* Every version of the chain is indexed in the end, lost for a recorded
\* reason, or in a range that has a transaction which fails extraction.
EveryVersionIndexed ==
    \A v \in Version :
        (tip >= v) ~>
            \/ Indexed(v)
            \/ Lost(v)
            \/ \E m \in sent : v \in Versions(m) /\ Versions(m) \cap Undecodable # {}
=============================================================================
