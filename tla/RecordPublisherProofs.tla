----------------------- MODULE RecordPublisherProofs -----------------------
(***************************************************************************)
(* Proofs about RecordPublisher, for batches, chunks and numbers of        *)
(* attempts of any size: types, that a publish that returned has stored    *)
(* its batch, and the implementation of BatchPublication.                  *)
(***************************************************************************)
EXTENDS RecordPublisher, FiniteSetTheorems, TLAPS

\* What the place of an attempt in the program says of the topic: the chunks
\* before its own are stored, and of its own the records it does not wait for.
BulkInv(a) ==
    /\ next[a] \in Record
    /\ 1 .. next[a] - 1 \subseteq InTopic
    /\ inFlight[a] = {}
    /\ failed[a] = {}

ChunkInv(a) ==
    /\ first[a] \in Record
    /\ next[a] \in Chunk(first[a])
    /\ 1 .. first[a] - 1 \subseteq InTopic
    /\ inFlight[a] \cup failed[a] \subseteq next[a] .. LastOfChunk(first[a])
    /\ inFlight[a] \cap failed[a] = {}
    /\ Chunk(first[a]) \ (inFlight[a] \cup failed[a]) \subseteq InTopic

AttemptInv(a) ==
    /\ pc[a] = "bulk" => BulkInv(a)
    /\ pc[a] \in {"await", "publish"} => ChunkInv(a)
    /\ pc[a] = "publish" => next[a] \in failed[a]
    /\ pc[a] = "done" => /\ InTopic = Record
                         /\ inFlight[a] = {}
                         /\ failed[a] = {}

IInv == PublisherTypeOK /\ \A a \in Attempt : AttemptInv(a)

\* A chunk of a record holds the record and lies within the batch and within
\* ChunkSize of its first record.
LEMMA ChunkBounds ==
    ASSUME NEW f \in Record
    PROVE  /\ LastOfChunk(f) \in f .. RecordCount
           /\ LastOfChunk(f) <= f + ChunkSize - 1
           /\ Chunk(f) \subseteq Record
  BY RecordCountAssumption, ChunkSizeAssumption
     DEF Record, LastOfChunk, Chunk

\* Storing keeps the topic's type, loses no record, and adds those stored.
LEMMA StoredGrows ==
    ASSUME topic \in [Record -> Nat], NEW records, Stored(records)
    PROVE  /\ topic' \in [Record -> Nat]
           /\ InTopic \subseteq InTopic'
           /\ InTopic' = InTopic \cup (records \cap Record)
  BY DEF Stored, InTopic

\* An attempt that neither moves nor gets an answer keeps its invariant while
\* the topic grows.
LEMMA OthersKeep ==
    ASSUME NEW a, AttemptInv(a), InTopic \subseteq InTopic', InTopic' \subseteq Record,
           pc'[a] = pc[a], first'[a] = first[a], next'[a] = next[a],
           inFlight'[a] = inFlight[a], failed'[a] = failed[a]
    PROVE  AttemptInv(a)'
  BY DEF AttemptInv, BulkInv, ChunkInv, Chunk, LastOfChunk

LEMMA InTopicInRecord == InTopic' \subseteq Record
  BY DEF InTopic

LEMMA InitIInv == Init => IInv
  BY RecordCountAssumption
     DEF Init, IInv, PublisherTypeOK, AttemptInv, BulkInv, Record, InTopic

-----------------------------------------------------------------------------
(* The steps *)

LEMMA AnswerOkStep ==
    ASSUME IInv, NEW a \in Attempt, NEW r \in Record, AnswerOk(a, r)
    PROVE  IInv'
<1>0. USE DEF IInv
<1>1. /\ topic' \in [Record -> Nat]
      /\ InTopic \subseteq InTopic'
      /\ InTopic' = InTopic \cup {r}
  BY StoredGrows DEF AnswerOk, PublisherTypeOK
<1>2. PublisherTypeOK'
  BY <1>1 DEF AnswerOk, Answered, attemptVars, PublisherTypeOK
<1>3. AttemptInv(a)'
  BY <1>1, InTopicInRecord
     DEF AnswerOk, Answered, attemptVars, PublisherTypeOK, AttemptInv, BulkInv,
         ChunkInv, Chunk, LastOfChunk
<1>4. ASSUME NEW b \in Attempt, b # a
      PROVE  AttemptInv(b)'
  BY <1>1, <1>4, OthersKeep, InTopicInRecord
     DEF AnswerOk, Answered, attemptVars, PublisherTypeOK
<1>q. QED  BY <1>2, <1>3, <1>4

\* A reported error leaves the topic as it was, or with the record in it.
LEMMA ReportErrorGrows ==
    ASSUME PublisherTypeOK, NEW r \in Record, ReportError(r)
    PROVE  /\ topic' \in [Record -> Nat]
           /\ InTopic \subseteq InTopic'
           /\ reported' \in [Record -> Nat]
           /\ failures' \in Nat
<1>1. CASE Stored({r})
  BY <1>1, StoredGrows DEF ReportError, PublisherTypeOK
<1>2. CASE UNCHANGED topic
  BY <1>2 DEF ReportError, PublisherTypeOK, InTopic
<1>q. QED  BY <1>1, <1>2 DEF ReportError, StoredMaybe

LEMMA AnswerErrorStep ==
    ASSUME IInv, NEW a \in Attempt, NEW r \in Record, AnswerError(a, r)
    PROVE  IInv'
<1>0. USE DEF IInv
<1>1. /\ topic' \in [Record -> Nat]
      /\ InTopic \subseteq InTopic'
      /\ reported' \in [Record -> Nat]
      /\ failures' \in Nat
  BY ReportErrorGrows DEF AnswerError
<1>2. PublisherTypeOK'
  BY <1>1 DEF AnswerError, Answered, attemptVars, PublisherTypeOK
<1>3. AttemptInv(a)'
  BY <1>1, InTopicInRecord
     DEF AnswerError, Answered, attemptVars, PublisherTypeOK, AttemptInv,
         BulkInv, ChunkInv, Chunk, LastOfChunk
<1>4. ASSUME NEW b \in Attempt, b # a
      PROVE  AttemptInv(b)'
  BY <1>1, <1>4, OthersKeep, InTopicInRecord
     DEF AnswerError, Answered, attemptVars, PublisherTypeOK
<1>q. QED  BY <1>2, <1>3, <1>4

LEMMA SendChunkStep ==
    ASSUME IInv, NEW a \in Attempt, SendChunk(a)
    PROVE  IInv'
<1>0. USE DEF IInv
<1>1. BulkInv(a)
  BY DEF SendChunk, AttemptInv
<1>2. /\ InTopic' = InTopic
      /\ next[a] \in Record
      /\ Chunk(next[a]) \subseteq Record
      /\ LastOfChunk(next[a]) \in next[a] .. RecordCount
  BY <1>1, ChunkBounds DEF SendChunk, InTopic, BulkInv
<1>3. PublisherTypeOK'
  <2>1. sent' \in [Record -> Nat]
    BY DEF SendChunk, PublisherTypeOK
  <2>q. QED  BY <2>1, <1>2 DEF SendChunk, Goto, PublisherTypeOK, Record
<1>4. AttemptInv(a)'
  BY <1>1, <1>2
     DEF SendChunk, Goto, PublisherTypeOK, AttemptInv, BulkInv, ChunkInv,
         Chunk, LastOfChunk, Record
<1>5. ASSUME NEW b \in Attempt, b # a
      PROVE  AttemptInv(b)'
  BY <1>2, <1>5, OthersKeep, InTopicInRecord
     DEF SendChunk, Goto, PublisherTypeOK
<1>q. QED  BY <1>3, <1>4, <1>5

\* Moving past a record that is stored and no longer waited for.
LEMMA AdvanceKeeps ==
    ASSUME PublisherTypeOK, NEW a \in Attempt, ChunkInv(a), Advance(a),
           next[a] \in InTopic', InTopic \subseteq InTopic',
           UNCHANGED <<first, inFlight>>,
           failed' = [failed EXCEPT ![a] = @ \ {next[a]}],
           next[a] \notin inFlight[a]
    PROVE  AttemptInv(a)'
<1>1. /\ LastOfChunk(first[a]) \in first[a] .. RecordCount
      /\ Chunk(first[a]) \subseteq Record
      /\ next[a] \in Record
      /\ next'[a] = next[a] + 1
      /\ first'[a] = first[a]
      /\ inFlight'[a] = inFlight[a]
      /\ failed'[a] = failed[a] \ {next[a]}
  BY ChunkBounds DEF ChunkInv, Advance, PublisherTypeOK
<1>2. inFlight'[a] \cup failed'[a] \subseteq next[a] + 1 .. LastOfChunk(first[a])
  BY <1>1 DEF ChunkInv, Record, PublisherTypeOK
<1>3. Chunk(first[a]) \ (inFlight'[a] \cup failed'[a]) \subseteq InTopic'
  BY <1>1 DEF ChunkInv
<1>4. CASE next[a] < LastOfChunk(first[a])
  <2>1. pc'[a] = "await"
    BY <1>4 DEF Advance, Goto, PublisherTypeOK
  <2>2. next[a] + 1 \in Chunk(first[a])
    BY <1>4, <1>1 DEF Chunk, ChunkInv, Record
  <2>3. ChunkInv(a)'
    BY <2>2, <1>1, <1>2, <1>3 DEF ChunkInv, Chunk, LastOfChunk
  <2>q. QED  BY <2>1, <2>3 DEF AttemptInv
<1>5. CASE ~(next[a] < LastOfChunk(first[a]))
  <2>1. /\ inFlight'[a] = {}
        /\ failed'[a] = {}
        /\ next[a] = LastOfChunk(first[a])
    <3>1. next[a] = LastOfChunk(first[a])
      BY <1>5, <1>1 DEF ChunkInv, Chunk, Record
    <3>2. next[a] + 1 .. LastOfChunk(first[a]) = {}
      BY <3>1, <1>1 DEF Record
    <3>q. QED  BY <3>1, <3>2, <1>2
  <2>2. 1 .. next[a] \subseteq InTopic'
    <3>1. 1 .. next[a] \subseteq (1 .. first[a] - 1) \cup Chunk(first[a])
      BY <2>1, <1>1 DEF Chunk, Record, ChunkInv
    <3>q. QED  BY <3>1, <2>1, <1>3 DEF ChunkInv
  <2>3. CASE next[a] < RecordCount
    <3>1. pc'[a] = "bulk"
      BY <1>5, <2>3 DEF Advance, Goto, PublisherTypeOK
    <3>2. BulkInv(a)'
      BY <2>1, <2>2, <2>3, <1>1, RecordCountAssumption DEF BulkInv, Record
    <3>q. QED  BY <3>1, <3>2 DEF AttemptInv
  <2>4. CASE ~(next[a] < RecordCount)
    <3>1. pc'[a] = "done"
      BY <1>5, <2>4 DEF Advance, Goto, PublisherTypeOK
    <3>2. next[a] = RecordCount
      BY <2>4, <1>1, RecordCountAssumption DEF Record
    <3>3. InTopic' = Record
      BY <3>2, <2>2, InTopicInRecord DEF Record
    <3>q. QED  BY <3>1, <3>3, <2>1 DEF AttemptInv
  <2>q. QED  BY <2>3, <2>4
<1>q. QED  BY <1>4, <1>5

LEMMA ConfirmedStep ==
    ASSUME IInv, NEW a \in Attempt, Confirmed(a)
    PROVE  IInv'
<1>0. USE DEF IInv
<1>1. /\ ChunkInv(a)
      /\ InTopic' = InTopic
      /\ next[a] \in InTopic'
      /\ next[a] \notin inFlight[a]
  BY DEF Confirmed, AttemptInv, ChunkInv, InTopic
<1>2. failed' = [failed EXCEPT ![a] = @ \ {next[a]}]
  BY DEF Confirmed, PublisherTypeOK
<1>3. AttemptInv(a)'
  BY <1>1, <1>2, AdvanceKeeps DEF Confirmed
<1>4. PublisherTypeOK'
  BY DEF Confirmed, Advance, Goto, PublisherTypeOK
<1>5. ASSUME NEW b \in Attempt, b # a
      PROVE  AttemptInv(b)'
  BY <1>1, <1>5, OthersKeep, InTopicInRecord
     DEF Confirmed, Advance, Goto, PublisherTypeOK
<1>q. QED  BY <1>3, <1>4, <1>5

LEMMA RejectedStep ==
    ASSUME IInv, NEW a \in Attempt, Rejected(a)
    PROVE  IInv'
<1>0. USE DEF IInv
<1>1. InTopic' = InTopic
  BY DEF Rejected, InTopic
<1>2. PublisherTypeOK'
  BY DEF Rejected, Goto, PublisherTypeOK
<1>3. AttemptInv(a)'
  BY <1>1 DEF Rejected, Goto, PublisherTypeOK, AttemptInv, ChunkInv, Chunk,
              LastOfChunk
<1>4. ASSUME NEW b \in Attempt, b # a
      PROVE  AttemptInv(b)'
  BY <1>1, <1>4, OthersKeep, InTopicInRecord
     DEF Rejected, Goto, PublisherTypeOK
<1>q. QED  BY <1>2, <1>3, <1>4

LEMMA RepublishedStep ==
    ASSUME IInv, NEW a \in Attempt, Republished(a)
    PROVE  IInv'
<1>0. USE DEF IInv
<1>1. /\ ChunkInv(a)
      /\ next[a] \in Record
      /\ next[a] \notin inFlight[a]
  BY ChunkBounds DEF Republished, AttemptInv, ChunkInv
<1>2. /\ topic' \in [Record -> Nat]
      /\ InTopic \subseteq InTopic'
      /\ next[a] \in InTopic'
  BY <1>1, StoredGrows DEF Republished, PublisherTypeOK
<1>3. AttemptInv(a)'
  BY <1>1, <1>2, AdvanceKeeps DEF Republished
<1>4. PublisherTypeOK'
  BY <1>2 DEF Republished, Advance, Goto, PublisherTypeOK
<1>5. ASSUME NEW b \in Attempt, b # a
      PROVE  AttemptInv(b)'
  BY <1>2, <1>5, OthersKeep, InTopicInRecord
     DEF Republished, Advance, Goto, PublisherTypeOK
<1>q. QED  BY <1>3, <1>4, <1>5

LEMMA RepublishFailsStep ==
    ASSUME IInv, NEW a \in Attempt, RepublishFails(a)
    PROVE  IInv'
<1>0. USE DEF IInv
<1>1. next[a] \in Record
  BY ChunkBounds DEF RepublishFails, AttemptInv, ChunkInv
<1>2. /\ topic' \in [Record -> Nat]
      /\ InTopic \subseteq InTopic'
      /\ reported' \in [Record -> Nat]
      /\ failures' \in Nat
  BY <1>1, ReportErrorGrows DEF RepublishFails
<1>3. PublisherTypeOK'
  BY <1>2 DEF RepublishFails, attemptVars, PublisherTypeOK
<1>4. ASSUME NEW b \in Attempt
      PROVE  AttemptInv(b)'
  BY <1>2, OthersKeep, InTopicInRecord DEF RepublishFails, attemptVars
<1>q. QED  BY <1>3, <1>4

\* A message that is repeated alone was refused before: a dying worker leaves
\* nothing in the topic but what it waited for.
LEMMA UnderwayIsHeld ==
    ASSUME IInv, NEW a \in Attempt
    PROVE  Underway(a) \subseteq inFlight[a] \cup failed[a]
  BY DEF IInv, AttemptInv, Underway

LEMMA KillStep ==
    ASSUME IInv, NEW a \in Attempt, Kill(a)
    PROVE  IInv'
<1>0. USE DEF IInv
<1>1. PICK records \in SUBSET Underway(a) : Stored(records)
  BY DEF Kill
<1>2. /\ topic' \in [Record -> Nat]
      /\ InTopic \subseteq InTopic'
  BY <1>1, StoredGrows DEF PublisherTypeOK
<1>3. PublisherTypeOK'
  BY <1>2 DEF Kill, Goto, PublisherTypeOK
<1>4. AttemptInv(a)'
  <2>1. RecordCount >= 1
    <3>1. pc[a] \in {"bulk", "await", "publish"}
      BY DEF Kill, PublisherTypeOK
    <3>2. Record # {}
      BY <3>1 DEF AttemptInv, BulkInv, ChunkInv
    <3>q. QED  BY <3>2, RecordCountAssumption DEF Record
  <2>2. /\ pc'[a] = "bulk"
        /\ next'[a] = 1
        /\ inFlight'[a] = {}
        /\ failed'[a] = {}
    BY DEF Kill, Goto, PublisherTypeOK
  <2>q. QED  BY <2>1, <2>2, RecordCountAssumption DEF AttemptInv, BulkInv, Record
<1>5. ASSUME NEW b \in Attempt, b # a
      PROVE  AttemptInv(b)'
  BY <1>2, <1>5, OthersKeep, InTopicInRecord DEF Kill, Goto, PublisherTypeOK
<1>q. QED  BY <1>3, <1>4, <1>5

LEMMA StutterStep == IInv /\ UNCHANGED vars => IInv'
  BY DEF IInv, vars, PublisherTypeOK, AttemptInv, BulkInv, ChunkInv, Chunk,
         LastOfChunk, InTopic

LEMMA NextIInv == IInv /\ [Next]_vars => IInv'
<1>1. SUFFICES ASSUME IInv, Next PROVE IInv'
  BY StutterStep
<1>2. PICK a \in Attempt :
        \/ Answer(a) \/ Publish(a) \/ Republished(a) \/ RepublishFails(a) \/ Kill(a)
  BY <1>1 DEF Next
<1>3. CASE Answer(a)
  BY <1>1, <1>3, AnswerOkStep, AnswerErrorStep DEF Answer
<1>4. CASE Publish(a)
  BY <1>1, <1>4, SendChunkStep, ConfirmedStep, RejectedStep DEF Publish
<1>5. CASE Republished(a)
  BY <1>1, <1>5, RepublishedStep
<1>6. CASE RepublishFails(a)
  BY <1>1, <1>6, RepublishFailsStep
<1>7. CASE Kill(a)
  BY <1>1, <1>7, KillStep
<1>q. QED  BY <1>2, <1>3, <1>4, <1>5, <1>6, <1>7

THEOREM SpecIInv == Spec => []IInv
  BY InitIInv, NextIInv, PTL DEF Spec

\* The variables of the record publisher keep their types.
THEOREM PublisherTypeCorrect == Spec => []PublisherTypeOK
<1>1. IInv => PublisherTypeOK
  BY DEF IInv
<1>q. QED  BY <1>1, SpecIInv, PTL

\* publish_batch returns only when all records of its batch are in the topic
\* (google_pubsub.rs:102-112 with 145-157).
THEOREM ReturnStores == Spec => []ReturnedMeansStored
<1>1. IInv => ReturnedMeansStored
  BY DEF IInv, AttemptInv, ReturnedMeansStored
<1>q. QED  BY <1>1, SpecIInv, PTL

-----------------------------------------------------------------------------
(* Duplicates: each record was sent, or reported, as often as it is in the  *)
(* topic or still waited for.                                               *)

Holds(a, r) == r \in inFlight[a] \cup failed[a]

\* A step of one attempt changes who waits for a record by that attempt at most.
LEMMA WaitingChanges ==
    ASSUME NEW a \in Attempt, NEW r,
           \A b \in Attempt \ {a} : inFlight'[b] = inFlight[b] /\ failed'[b] = failed[b]
    PROVE  /\ Cardinality(Waiting(r)) \in Nat
           /\ Cardinality(Waiting(r)') \in Nat
           /\ Holds(a, r)' /\ ~Holds(a, r)
                => Cardinality(Waiting(r)') = Cardinality(Waiting(r)) + 1
           /\ Holds(a, r) /\ ~Holds(a, r)'
                => Cardinality(Waiting(r)') = Cardinality(Waiting(r)) - 1
           /\ (Holds(a, r) <=> Holds(a, r)')
                => Cardinality(Waiting(r)') = Cardinality(Waiting(r))
<1>1. IsFiniteSet(Waiting(r)) /\ IsFiniteSet(Waiting(r)')
  BY AttemptAssumption, FS_Subset DEF Waiting
<1>2. /\ Holds(a, r) <=> a \in Waiting(r)
      /\ Holds(a, r)' <=> a \in Waiting(r)'
      /\ Waiting(r) \ {a} = Waiting(r)' \ {a}
  BY DEF Holds, Waiting
<1>3. /\ Cardinality(Waiting(r)) \in Nat
      /\ Cardinality(Waiting(r)') \in Nat
  BY <1>1, FS_CardinalityType
<1>4. CASE Holds(a, r)' /\ ~Holds(a, r)
  <2>1. Waiting(r)' = Waiting(r) \cup {a} /\ a \notin Waiting(r)
    BY <1>2, <1>4
  <2>2. Cardinality(Waiting(r) \cup {a}) = Cardinality(Waiting(r)) + 1
    BY <1>1, <2>1, FS_AddElement
  <2> QED BY <1>3, <1>4, <2>1, <2>2
<1>5. CASE Holds(a, r) /\ ~Holds(a, r)'
  <2>1. Waiting(r)' = Waiting(r) \ {a} /\ a \in Waiting(r)
    BY <1>2, <1>5
  <2>2. Cardinality(Waiting(r) \ {a}) = Cardinality(Waiting(r)) - 1
    BY <1>1, <2>1, FS_RemoveElement
  <2> QED BY <1>3, <1>5, <2>1, <2>2
<1>6. CASE Holds(a, r) <=> Holds(a, r)'
  <2>1. Waiting(r)' = Waiting(r)
    BY <1>2, <1>6
  <2> QED BY <1>3, <1>6, <2>1
<1> QED BY <1>4, <1>5, <1>6

\* What a step may do about one record: the sum of what is in the topic and
\* what is waited for grows by no more than the sum of the reasons.
Accounted(a, r) ==
    \/ /\ topic'[r] = topic[r]
       /\ Holds(a, r)' => Holds(a, r)
       /\ sent'[r] + reported'[r] = sent[r] + reported[r]
    \/ /\ topic'[r] = topic[r] + 1
       /\ Holds(a, r) /\ ~Holds(a, r)'
       /\ sent'[r] + reported'[r] = sent[r] + reported[r]
    \/ /\ topic'[r] \in {topic[r], topic[r] + 1}
       /\ Holds(a, r) <=> Holds(a, r)'
       /\ sent'[r] + reported'[r] = sent[r] + reported[r] + 1
    \/ /\ topic'[r] = topic[r]
       /\ sent'[r] + reported'[r] = sent[r] + reported[r] + 1

LEMMA AccountedKeeps ==
    ASSUME IInv, DuplicatesHaveAReason, NEW a \in Attempt,
           \A b \in Attempt \ {a} : inFlight'[b] = inFlight[b] /\ failed'[b] = failed[b],
           \A r \in Record : Accounted(a, r)
    PROVE  DuplicatesHaveAReason'
<1>1. SUFFICES ASSUME NEW r \in Record
               PROVE  topic'[r] + Cardinality(Waiting(r)') <= sent'[r] + reported'[r]
  BY DEF DuplicatesHaveAReason
<1> DEFINE c == Cardinality(Waiting(r))
           d == Cardinality(Waiting(r)')
<1>2. /\ c \in Nat /\ d \in Nat
      /\ Holds(a, r)' /\ ~Holds(a, r) => d = c + 1
      /\ Holds(a, r) /\ ~Holds(a, r)' => d = c - 1
      /\ (Holds(a, r) <=> Holds(a, r)') => d = c
  BY WaitingChanges
<1>3. topic[r] + c <= sent[r] + reported[r]
  BY DEF DuplicatesHaveAReason
<1>4. topic[r] \in Nat /\ sent[r] \in Nat /\ reported[r] \in Nat
  BY DEF IInv, PublisherTypeOK
<1> HIDE DEF c, d
<1>5. topic'[r] + d <= sent'[r] + reported'[r]
  <2>1. CASE /\ topic'[r] = topic[r]
             /\ Holds(a, r)' => Holds(a, r)
             /\ sent'[r] + reported'[r] = sent[r] + reported[r]
    BY <1>2, <1>3, <1>4, <2>1
  <2>2. CASE /\ topic'[r] = topic[r] + 1
             /\ Holds(a, r) /\ ~Holds(a, r)'
             /\ sent'[r] + reported'[r] = sent[r] + reported[r]
    BY <1>2, <1>3, <1>4, <2>2
  <2>3. CASE /\ topic'[r] \in {topic[r], topic[r] + 1}
             /\ Holds(a, r) <=> Holds(a, r)'
             /\ sent'[r] + reported'[r] = sent[r] + reported[r] + 1
    BY <1>2, <1>3, <1>4, <2>3
  <2>4. CASE /\ topic'[r] = topic[r]
             /\ sent'[r] + reported'[r] = sent[r] + reported[r] + 1
    BY <1>2, <1>3, <1>4, <2>4
  <2> QED BY <2>1, <2>2, <2>3, <2>4 DEF Accounted
<1> QED BY <1>5 DEF d

LEMMA StepAccounted ==
    ASSUME IInv, NEW a \in Attempt,
           \/ Answer(a) \/ Publish(a) \/ Republished(a)
           \/ RepublishFails(a) \/ Kill(a)
    PROVE  /\ \A b \in Attempt \ {a} : inFlight'[b] = inFlight[b] /\ failed'[b] = failed[b]
           /\ \A r \in Record : Accounted(a, r)
<1> DEFINE Others == \A b \in Attempt \ {a} : /\ inFlight'[b] = inFlight[b]
                                              /\ failed'[b] = failed[b]
<1>0. /\ PublisherTypeOK
      /\ AttemptInv(a)
  BY DEF IInv
<1>1. ASSUME NEW q \in Record, AnswerOk(a, q)
      PROVE  Others /\ \A r \in Record : Accounted(a, r)
  <2>1. ChunkInv(a) /\ q \in inFlight[a] /\ q \notin failed[a]
    BY <1>0, <1>1 DEF AnswerOk, Answered, PublisherTypeOK, AttemptInv, BulkInv, ChunkInv
  <2>2. /\ inFlight'[a] = inFlight[a] \ {q} /\ failed'[a] = failed[a]
        /\ Others
        /\ \A r \in Record : /\ topic'[r] = IF r = q THEN topic[r] + 1 ELSE topic[r]
                             /\ sent'[r] = sent[r] /\ reported'[r] = reported[r]
    BY <1>0, <1>1 DEF AnswerOk, Answered, Stored, PublisherTypeOK
  <2> QED BY <2>1, <2>2 DEF Accounted, Holds
<1>2. ASSUME NEW q \in Record, ReportError(q)
      PROVE  \A r \in Record :
               /\ r # q => topic'[r] = topic[r] /\ reported'[r] = reported[r]
               /\ r = q => /\ topic'[r] \in {topic[r], topic[r] + 1}
                           /\ reported'[r] = reported[r] + 1
  BY <1>0, <1>2 DEF ReportError, StoredMaybe, Stored, PublisherTypeOK
<1>3. ASSUME NEW q \in Record, AnswerError(a, q)
      PROVE  Others /\ \A r \in Record : Accounted(a, r)
  <2>1. q \in inFlight[a] /\ ReportError(q)
    BY <1>3 DEF AnswerError, Answered
  <2>2. /\ inFlight'[a] = inFlight[a] \ {q} /\ failed'[a] = failed[a] \cup {q}
        /\ Others
        /\ \A r \in Record : sent'[r] = sent[r]
    BY <1>0, <1>3 DEF AnswerError, Answered, PublisherTypeOK
  <2>3. ASSUME NEW r \in Record PROVE Accounted(a, r)
    <3>1. Holds(a, r) <=> Holds(a, r)'
      BY <2>1, <2>2 DEF Holds
    <3>2. reported[r] \in Nat /\ sent[r] \in Nat
      BY <1>0 DEF PublisherTypeOK
    <3>3. CASE r = q
      BY <1>2, <2>1, <2>2, <3>1, <3>2, <3>3 DEF Accounted
    <3>4. CASE r # q
      BY <1>2, <2>1, <2>2, <3>1, <3>2, <3>4 DEF Accounted
    <3> QED BY <3>3, <3>4
  <2> QED BY <2>2, <2>3
<1>4. CASE SendChunk(a)
  <2>1. inFlight[a] = {} /\ failed[a] = {}
    BY <1>0, <1>4 DEF SendChunk, AttemptInv, BulkInv
  <2>2. /\ inFlight'[a] = Chunk(next[a]) /\ failed'[a] = failed[a]
        /\ Others
        /\ \A r \in Record :
              /\ topic'[r] = topic[r] /\ reported'[r] = reported[r]
              /\ sent'[r] = IF r \in Chunk(next[a]) THEN sent[r] + 1 ELSE sent[r]
    BY <1>0, <1>4 DEF SendChunk, PublisherTypeOK
  <2>3. ASSUME NEW r \in Record PROVE Accounted(a, r)
    <3>1. reported[r] \in Nat /\ sent[r] \in Nat
      BY <1>0 DEF PublisherTypeOK
    <3>2. CASE r \in Chunk(next[a])
      BY <2>2, <3>1, <3>2 DEF Accounted
    <3>3. CASE r \notin Chunk(next[a])
      BY <2>1, <2>2, <3>1, <3>3 DEF Accounted, Holds
    <3> QED BY <3>2, <3>3
  <2> QED BY <2>2, <2>3
<1>5. CASE Confirmed(a) \/ Rejected(a)
  BY <1>5 DEF Confirmed, Rejected, Accounted, Holds
<1>6. CASE Republished(a)
  <2>1. next[a] \in failed[a] /\ next[a] \notin inFlight[a]
    BY <1>0, <1>6 DEF Republished, AttemptInv, ChunkInv
  <2>2. /\ inFlight'[a] = inFlight[a] /\ failed'[a] = failed[a] \ {next[a]}
        /\ Others
        /\ \A r \in Record : /\ topic'[r] = IF r = next[a] THEN topic[r] + 1 ELSE topic[r]
                             /\ sent'[r] = sent[r] /\ reported'[r] = reported[r]
    BY <1>0, <1>6 DEF Republished, Stored, PublisherTypeOK
  <2> QED BY <2>1, <2>2 DEF Accounted, Holds
<1>7. CASE RepublishFails(a)
  <2>1. next[a] \in Record /\ ReportError(next[a])
    BY <1>0, <1>7, ChunkBounds DEF RepublishFails, AttemptInv, ChunkInv
  <2>2. inFlight' = inFlight /\ failed' = failed /\ sent' = sent
    BY <1>7 DEF RepublishFails
  <2>3. ASSUME NEW r \in Record PROVE Accounted(a, r)
    <3>1. reported[r] \in Nat /\ sent[r] \in Nat
      BY <1>0 DEF PublisherTypeOK
    <3>2. Holds(a, r) <=> Holds(a, r)'
      BY <2>2 DEF Holds
    <3>3. CASE r = next[a]
      BY <1>2, <2>1, <2>2, <3>1, <3>2, <3>3 DEF Accounted
    <3>4. CASE r # next[a]
      BY <1>2, <2>1, <2>2, <3>1, <3>2, <3>4 DEF Accounted
    <3> QED BY <3>3, <3>4
  <2> QED BY <2>2, <2>3
<1>8. CASE Kill(a)
  <2>1. PICK records \in SUBSET Underway(a) : Stored(records)
    BY <1>8 DEF Kill
  <2>2. /\ inFlight'[a] = {} /\ failed'[a] = {}
        /\ Others
        /\ \A r \in Record : /\ topic'[r] = IF r \in records THEN topic[r] + 1 ELSE topic[r]
                             /\ sent'[r] = sent[r] /\ reported'[r] = reported[r]
    BY <1>0, <1>8, <2>1 DEF Kill, Stored, PublisherTypeOK
  <2>3. records \subseteq inFlight[a] \cup failed[a]
    BY <2>1, UnderwayIsHeld
  <2> QED BY <2>2, <2>3 DEF Accounted, Holds
<1> QED BY <1>1, <1>3, <1>4, <1>5, <1>6, <1>7, <1>8 DEF Answer, Publish

\* A record is in the topic more than once only for as many redeliveries of the
\* range and reported errors (google_pubsub.rs:145-157), with any number of
\* attempts at work.
THEOREM NoNeedlessDuplicates == Spec => []DuplicatesHaveAReason
<1>1. Init => DuplicatesHaveAReason
  <2>1. SUFFICES ASSUME Init, NEW r \in Record
                 PROVE  topic[r] + Cardinality(Waiting(r)) <= sent[r] + reported[r]
    BY DEF DuplicatesHaveAReason
  <2>2. Waiting(r) = {}
    BY <2>1 DEF Init, Waiting
  <2> QED BY <2>1, <2>2, FS_EmptySet DEF Init
<1>2. IInv /\ DuplicatesHaveAReason /\ [Next]_vars => DuplicatesHaveAReason'
  <2>1. ASSUME IInv, DuplicatesHaveAReason, Next PROVE DuplicatesHaveAReason'
    BY <2>1, StepAccounted, AccountedKeeps DEF Next
  <2>2. ASSUME DuplicatesHaveAReason, UNCHANGED vars PROVE DuplicatesHaveAReason'
    BY <2>2 DEF vars, DuplicatesHaveAReason, Waiting
  <2> QED BY <2>1, <2>2
<1> QED BY <1>1, <1>2, SpecIInv, PTL DEF Spec

-----------------------------------------------------------------------------
(* The implementation of BatchPublication *)

\* Whatever is more than a chunk in front of a chunk's records is stored.
LEMMA WindowStored ==
    ASSUME NEW a, ChunkInv(a), NEW r \in Chunk(first[a])
    PROVE  1 .. r - ChunkSize \subseteq InTopic
<1>1. r - ChunkSize <= first[a] - 1
  BY ChunkBounds, ChunkSizeAssumption, RecordCountAssumption
     DEF ChunkInv, Chunk, Record
<1>2. 1 .. r - ChunkSize \subseteq 1 .. first[a] - 1
  BY <1>1, ChunkSizeAssumption, RecordCountAssumption
     DEF ChunkInv, Chunk, Record, LastOfChunk
<1>q. QED  BY <1>2 DEF ChunkInv

\* A step that stores records of one window is a step of the abstract
\* publication, if a publication that returned stays so.
LEMMA StoreImplements ==
    ASSUME IInv', NEW batch \in SUBSET Record,
           \A r \in batch : 1 .. r - ChunkSize \subseteq InTopic,
           InTopic' = InTopic \cup batch,
           (\E a \in Attempt : pc[a] = "done") => \E a \in Attempt : pc'[a] = "done"
    PROVE  Publication!Store
<1>1. (\E a \in Attempt : pc'[a] = "done") => InTopic' = Record
  BY DEF IInv, AttemptInv, Record
<1>2. (\E a \in Attempt : pc'[a] = "done")
        \in {\E a \in Attempt : pc[a] = "done", InTopic' = Record}
  BY <1>1
<1>q. QED  BY <1>2 DEF Publication!Store, Publication!Record, Record

\* The records an attempt waits for, or sends alone, are of its chunk.
LEMMA WaitsInChunk ==
    ASSUME IInv, NEW a \in Attempt, NEW r \in Record,
           r \in inFlight[a] \/ (pc[a] = "publish" /\ r = next[a])
    PROVE  ChunkInv(a) /\ r \in Chunk(first[a])
<1>1. ChunkInv(a)
  BY DEF IInv, PublisherTypeOK, AttemptInv, BulkInv
<1>2. r \in next[a] .. LastOfChunk(first[a]) \/ r = next[a]
  BY <1>1 DEF ChunkInv
<1>q. QED
  BY <1>1, <1>2, ChunkBounds, RecordCountAssumption DEF ChunkInv, Chunk, Record

\* What a step adds to the topic lies in the window.
LEMMA Adds ==
    ASSUME IInv, NEW a \in Attempt,
           \/ Answer(a) \/ Publish(a) \/ Republished(a)
           \/ RepublishFails(a) \/ Kill(a)
    PROVE  \E batch \in SUBSET Record :
             /\ \A r \in batch : 1 .. r - ChunkSize \subseteq InTopic
             /\ InTopic' = InTopic \cup batch
<1>0. topic \in [Record -> Nat]
  BY DEF IInv, PublisherTypeOK
<1>1. ASSUME UNCHANGED topic PROVE InTopic' = InTopic \cup {}
  BY <1>1 DEF InTopic
<1>2. ASSUME NEW r \in Record, Stored({r}),
             r \in inFlight[a] \/ (pc[a] = "publish" /\ r = next[a])
      PROVE  /\ 1 .. r - ChunkSize \subseteq InTopic
             /\ InTopic' = InTopic \cup {r}
  <2>1. ChunkInv(a) /\ r \in Chunk(first[a])
    BY <1>2, WaitsInChunk
  <2>2. 1 .. r - ChunkSize \subseteq InTopic
    BY <2>1, WindowStored
  <2>3. InTopic' = InTopic \cup ({r} \cap Record)
    BY <1>0, <1>2, StoredGrows
  <2>q. QED  BY <2>2, <2>3
<1>3. ASSUME NEW r \in Record, Answer(a), AnswerOk(a, r) \/ AnswerError(a, r)
      PROVE  UNCHANGED topic \/ (r \in inFlight[a] /\ Stored({r}))
  BY <1>3 DEF AnswerOk, AnswerError, Answered, ReportError, StoredMaybe
<1>4. CASE Answer(a)
  <2>1. PICK r \in Record : AnswerOk(a, r) \/ AnswerError(a, r)
    BY <1>4 DEF Answer
  <2>2. CASE UNCHANGED topic
    BY <2>2, <1>1
  <2>3. CASE r \in inFlight[a] /\ Stored({r})
    BY <2>3, <1>2
  <2>q. QED  BY <1>3, <1>4, <2>1, <2>2, <2>3
<1>5. CASE Publish(a)
  BY <1>1, <1>5 DEF Publish, SendChunk, Confirmed, Rejected
<1>6. ASSUME pc[a] = "publish" PROVE next[a] \in Record
  BY <1>6, ChunkBounds DEF IInv, AttemptInv, ChunkInv
<1>7. CASE Republished(a)
  BY <1>2, <1>6, <1>7 DEF Republished
<1>8. CASE RepublishFails(a)
  <2>1. pc[a] = "publish" /\ next[a] \in Record
    BY <1>6, <1>8 DEF RepublishFails
  <2>2. CASE UNCHANGED topic
    BY <2>2, <1>1
  <2>3. CASE Stored({next[a]})
    BY <2>1, <2>3, <1>2
  <2>q. QED  BY <2>2, <2>3, <1>8 DEF RepublishFails, ReportError, StoredMaybe
<1>9. CASE Kill(a)
  <2>1. PICK records \in SUBSET Underway(a) : Stored(records)
    BY <1>9 DEF Kill
  <2>2. records \subseteq Record
    BY <2>1, UnderwayIsHeld DEF IInv, PublisherTypeOK
  <2>3. InTopic' = InTopic \cup records
    BY <1>0, <2>1, <2>2, StoredGrows
  <2>4. ASSUME NEW r \in records PROVE 1 .. r - ChunkSize \subseteq InTopic
    <3>1. ChunkInv(a) /\ r \in Chunk(first[a])
      BY <2>1, <2>2, <2>4, WaitsInChunk DEF Underway
    <3>q. QED  BY <3>1, WindowStored
  <2>q. QED  BY <2>2, <2>3, <2>4
<1>q. QED  BY <1>4, <1>5, <1>7, <1>8, <1>9

\* An attempt that has returned stays so.
LEMMA DoneStays ==
    ASSUME PublisherTypeOK, NEW a \in Attempt, NEW b \in Attempt, pc[b] = "done",
           \/ Answer(a) \/ Publish(a) \/ Republished(a)
           \/ RepublishFails(a) \/ Kill(a)
    PROVE  pc'[b] = "done"
<1>1. CASE pc[a] = "done"
  BY <1>1 DEF Answer, AnswerOk, AnswerError, Answered, attemptVars, Publish,
              SendChunk, Confirmed, Rejected, Republished, RepublishFails, Kill
<1>2. CASE a # b
  BY <1>2 DEF Answer, AnswerOk, AnswerError, Answered, attemptVars, Publish,
              SendChunk, Confirmed, Rejected, Republished, RepublishFails, Kill,
              Advance, Goto, PublisherTypeOK
<1>q. QED  BY <1>1, <1>2

LEMMA StepImplements ==
    ASSUME IInv, IInv', Next
    PROVE  Publication!Store
<1>1. PICK a \in Attempt :
        \/ Answer(a) \/ Publish(a) \/ Republished(a) \/ RepublishFails(a) \/ Kill(a)
  BY DEF Next
<1>2. PICK batch \in SUBSET Record :
        /\ \A r \in batch : 1 .. r - ChunkSize \subseteq InTopic
        /\ InTopic' = InTopic \cup batch
  BY <1>1, Adds
<1>3. \A b \in Attempt : pc[b] = "done" => pc'[b] = "done"
  BY <1>1, DoneStays DEF IInv
<1>q. QED  BY <1>2, <1>3, StoreImplements

LEMMA InitImplements == Init => Publication!Init
<1>1. SUFFICES ASSUME Init PROVE Publication!Init
  OBVIOUS
<1>2. InTopic = {}
  BY <1>1 DEF Init, InTopic
<1>3. (\E a \in Attempt : pc[a] = "done") <=> RecordCount = 0
  BY <1>1, AttemptAssumption DEF Init
<1>q. QED  BY <1>2, <1>3 DEF Publication!Init

\* Publishing in chunks with individual retries implements the abstract
\* publication of a batch, for chunks of any size.
THEOREM PublicationRefinement == Spec => ImplementsPublication
<1>1. IInv /\ IInv' /\ [Next]_vars => [Publication!Store]_(Publication!vars)
  BY StepImplements DEF vars, Publication!vars, InTopic
<1>q. QED
  BY <1>1, InitImplements, SpecIInv, PTL DEF Spec, ImplementsPublication, Publication!Spec
=============================================================================
