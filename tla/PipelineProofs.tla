--------------------------- MODULE PipelineProofs ---------------------------
(***************************************************************************)
(* Proofs about Pipeline, for every value of the constants.                *)
(*                                                                         *)
(* Every behaviour of the pipeline is a behaviour of the coordinator and   *)
(* one of the workers, so what IndexingCoordinatorProofs and               *)
(* RangeExtractionProofs prove of the parts holds of the whole.  What is   *)
(* left to prove is that the topic is the subscription: each range in it   *)
(* is a message the workers were sent.                                     *)
(***************************************************************************)
EXTENDS Pipeline, IndexingCoordinatorProofs, RangeExtractionProofs

\* Every published range is a message of the subscription.
TopicIsSent == \A r \in topic : \E m \in sent : RangeOf(m) = r

-----------------------------------------------------------------------------
(* The pipeline is made of its parts *)

\* A message that arrives is a step of the subscription.
LEMMA ArrivalStep == MessageSent => ExtractionNext
BY DEF MessageSent, ExtractionNext

\* A step of the pipeline is a step of the coordinator or leaves it alone.
LEMMA StepOfCoordinator == [PipelineNext]_pipelineVars => [Next]_vars
BY DEF PipelineNext, CoordinatorStep, PublishRange, StopAfterPublish,
       StopWithoutPublish, ExtractionStep, Next, pipelineVars

\* A step of the pipeline is a step of the workers and their subscription or
\* leaves them alone.
LEMMA StepOfExtraction ==
    [PipelineNext]_pipelineVars => [ExtractionNext]_extractionVars
<1> SUFFICES ASSUME [PipelineNext]_pipelineVars
             PROVE  [ExtractionNext]_extractionVars
  OBVIOUS
<1>1. CASE CoordinatorStep BY <1>1 DEF CoordinatorStep
<1>2. CASE PublishRange BY <1>2, ArrivalStep DEF PublishRange
<1>3. CASE StopAfterPublish BY <1>3, ArrivalStep DEF StopAfterPublish
<1>4. CASE StopWithoutPublish BY <1>4 DEF StopWithoutPublish
<1>5. CASE ExtractionStep BY <1>5 DEF ExtractionStep, ExtractionNext
<1>6. CASE UNCHANGED pipelineVars BY <1>6 DEF pipelineVars
<1> QED BY <1>1, <1>2, <1>3, <1>4, <1>5, <1>6 DEF PipelineNext

\* The pipeline implements both components: each of them behaves, inside it,
\* as its own specification says.
THEOREM PipelineImplementsParts == PipelineSpec => Spec /\ ExtractionSpec
<1>1. PipelineInit => Init /\ ExtractionInit BY DEF PipelineInit
<1> QED BY <1>1, StepOfCoordinator, StepOfExtraction, PTL
        DEF PipelineSpec, Spec, ExtractionSpec

-----------------------------------------------------------------------------
(* The topic is the subscription *)

LEMMA TopicInit == PipelineInit => TopicIsSent
BY DEF PipelineInit, Init, TopicIsSent

\* A step that publishes sends the message, and messages are never forgotten.
LEMMA TopicStep ==
    ASSUME TypeOK, ExtractionIInv, TopicIsSent, [PipelineNext]_pipelineVars
    PROVE  TopicIsSent'
<1>1. ASSUME UNCHANGED topic, sent \subseteq sent' PROVE TopicIsSent'
  BY <1>1 DEF TopicIsSent
<1>2. ASSUME MessageSent, topic' \subseteq topic \cup {serialized}
      PROVE  TopicIsSent'
  <2>1. PICK m \in Inbox : RangeOf(m) = serialized /\ Arrive(m)
    BY <1>2 DEF MessageSent
  <2>2. sent' = sent \cup {m} BY <2>1 DEF Arrive, sent
  <2> QED BY <1>2, <2>1, <2>2 DEF TopicIsSent
<1>3. CASE CoordinatorStep
  <2>1. UNCHANGED topic
    BY <1>3 DEF CoordinatorStep, ChainGrows, Start, PickUp, PickUpFromMessage,
                PickUpFromGenesis, Poll, GetLedgerVersion, NextRange, BatchDone
  <2>2. sent' = sent
    BY <1>3 DEF CoordinatorStep, extractionVars, subscription, sent
  <2> QED BY <1>1, <2>1, <2>2
<1>4. CASE PublishRange BY <1>2, <1>4 DEF PublishRange, Publish
<1>5. CASE StopAfterPublish
  <2>1. MessageSent /\ pc = "publish" BY <1>5 DEF StopAfterPublish, MessageSent
  <2>2. topic' \subseteq topic \cup {serialized}
    BY <1>5, <2>1 DEF StopAfterPublish, Signal, Crash, AbandonPublish
  <2> QED BY <1>2, <2>1, <2>2
<1>6. CASE StopWithoutPublish
  <2>1. sent' = sent
    BY <1>6 DEF StopWithoutPublish, extractionVars, subscription, sent
  <2> QED BY <1>1, <1>6, <2>1 DEF StopWithoutPublish
<1>7. CASE ExtractionStep
  <2>1. UNCHANGED topic BY <1>7 DEF ExtractionStep, vars
  <2>2. sent \subseteq sent'
    BY <1>7, SubscriptionGrows, WorkerGrows DEF ExtractionStep, ExtractionIInv, Grows
  <2> QED BY <1>1, <2>1, <2>2
<1>8. CASE UNCHANGED pipelineVars
  BY <1>1, <1>8 DEF pipelineVars, vars, extractionVars, subscription, sent
<1> QED BY <1>3, <1>4, <1>5, <1>6, <1>7, <1>8 DEF PipelineNext

\* Throughout a run of the pipeline, the topic is part of the subscription.
LEMMA TopicAlwaysSent == PipelineSpec => []TopicIsSent
<1>1. ExtractionIInv /\ TypeOK /\ TopicIsSent /\ [PipelineNext]_pipelineVars
      => TopicIsSent'
  BY TopicStep
<1> QED BY <1>1, TopicInit, PipelineImplementsParts, TypeCorrect,
           ExtractionInvariance, PTL DEF PipelineSpec

-----------------------------------------------------------------------------
(* Nothing falls through *)

\* Whatever the coordinator dealt with is indexed, will be delivered again, or
\* is lost for a recorded reason.
LEMMA HandledIsSafe ==
    ASSUME TopicIsSent, AckedIsComplete, NEW v \in Handled
    PROVE  Indexed(v) \/ Pending(v) \/ Lost(v)
<1>1. CASE v \in Covered(topic)
  <2>1. PICK r \in topic : v \in Versions(r) BY <1>1 DEF Covered
  <2>2. PICK m \in sent : RangeOf(m) = r BY DEF TopicIsSent
  <2>3. v \in Versions(m) BY <2>1, <2>2 DEF RangeOf, Versions
  <2>4. CASE m \notin acked BY <2>3, <2>4 DEF Pending, Covered
  <2>5. CASE m \in givenUp BY <2>3, <2>5 DEF Lost, Covered
  <2>6. CASE m \in acked \ givenUp BY <2>3, <2>6 DEF AckedIsComplete, Indexed
  <2> QED BY <2>4, <2>5, <2>6
<1>2. CASE v \in skipped \cup cutOff BY <1>2 DEF Lost
<1> QED BY <1>1, <1>2 DEF Handled

\* No version behind the coordinator is forgotten: it is in every table, or
\* will be delivered again, or is lost for one of the recorded reasons.
THEOREM NothingFallsThrough == PipelineSpec => []NoVersionFallsThrough
<1>1. TopicIsSent /\ AckedIsComplete /\ NothingBehindIsMissing
      => NoVersionFallsThrough
  BY HandledIsSafe DEF NothingBehindIsMissing, NoVersionFallsThrough, HasPrefix
<1> QED BY <1>1, PipelineImplementsParts, TopicAlwaysSent, AckedComplete,
           NoGapBehind, PTL

\* The same of every version a resumption message lets a later run skip.
THEOREM NothingLostOnResumption == PipelineSpec => []ResumptionLosesNothing
<1>1. TopicIsSent /\ AckedIsComplete /\ ResumptionIsSound
      => ResumptionLosesNothing
  BY HandledIsSafe DEF ResumptionIsSound, ResumptionLosesNothing, HasPrefix
<1> QED BY <1>1, PipelineImplementsParts, TopicAlwaysSent, AckedComplete,
           ResumptionSound, PTL
=============================================================================
