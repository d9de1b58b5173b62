---------------------- MODULE IndexingCoordinatorProofs ----------------------
(***************************************************************************)
(* Proofs about IndexingCoordinator, for every chain length, step, lag and *)
(* number of stops.                                                        *)
(*                                                                         *)
(* The inductive invariant follows one set, Handled, through the main      *)
(* loop.  It is a prefix of the chain (NoHoles); lastEnd and every         *)
(* resumption message lie inside it; and the three places a later message  *)
(* is computed from, `current`, the range being published and the range    *)
(* the signal handler would hand over, lie at most at its edge.            *)
(***************************************************************************)
EXTENDS IndexingCoordinator, TLAPS

USE MaxVersionAssumption, StepAssumption, MaxLagAssumption,
    MaxStopsAssumption, NoRangeAssumption

\* What has been dealt with is a prefix of the chain.
NoHoles == \A v \in Handled : HasPrefix(Handled, v)

\* Where the running generator stands.
GeneratorIsContiguous ==
    pc \in {"generate", "publish"} =>
        /\ HasPrefix(Handled, current - 1)
        /\ current > lastEnd
        /\ current > lastEnd + 1 => current \in Handled

\* The range a publish is about to send starts where the generator stands.
PublishIsNext ==
    pc = "publish" => /\ serialized \in IndexingRange
                      /\ serialized.start = current
                      /\ serialized.start < serialized.end
                      /\ serialized.end <= ledger

\* The range the signal handler would hand to the next run.
SerializedIsSound ==
    serialized # NoRange /\ pc # "publish" => HasPrefix(Handled, serialized.end)

IInv ==
    /\ TypeOK
    /\ NoHoles
    /\ NothingBehindIsMissing
    /\ ResumptionIsSound
    /\ GeneratorIsContiguous
    /\ PublishIsNext
    /\ SerializedIsSound

-----------------------------------------------------------------------------

\* The versions of a range are versions of the chain.
LEMMA VersionsTyped ==
    ASSUME NEW r \in IndexingRange
    PROVE  Versions(r) \subseteq Version
BY DEF Versions, IndexingRange, Version

\* What a stopped process leaves of its publish is typed.
LEMMA AbandonTyped ==
    ASSUME TypeOK, AbandonPublish
    PROVE  topic' \subseteq IndexingRange /\ cutOff' \subseteq Version
<1>1. CASE pc = "publish"
  <2>1. Versions(serialized) \subseteq Version BY <1>1, VersionsTyped DEF TypeOK
  <2> QED BY <1>1, <2>1 DEF TypeOK, AbandonPublish
<1>2. CASE pc # "publish" BY <1>2 DEF TypeOK, AbandonPublish
<1> QED BY <1>1, <1>2

\* A step keeps the types.
LEMMA TypeStep == TypeOK /\ [Next]_vars => TypeOK'
<1> SUFFICES ASSUME TypeOK, [Next]_vars PROVE TypeOK'
  OBVIOUS
<1> USE DEF TypeOK, Version, process, history
<1>1. CASE ChainGrows BY <1>1 DEF ChainGrows
<1>2. CASE Start BY <1>2 DEF Start
<1>3. CASE PickUp
  BY <1>3 DEF PickUp, PickUpFromMessage, PickUpFromGenesis, IndexingRange
<1>4. CASE Poll BY <1>4 DEF Poll, GetLedgerVersion
<1>5. CASE NextRange
  <2>1. NextStop \in Version BY <1>5 DEF NextRange, NextStop
  <2> QED BY <1>5, <2>1 DEF NextRange, IndexingRange
<1>6. CASE Publish BY <1>6 DEF Publish, IndexingRange
<1>7. CASE BatchDone BY <1>7 DEF BatchDone
<1>8. CASE Signal BY <1>8, AbandonTyped DEF Signal, MemoryLost
<1>9. CASE Crash BY <1>9, AbandonTyped DEF Crash, MemoryLost
<1>10. CASE UNCHANGED vars BY <1>10 DEF vars
<1> QED BY <1>1, <1>2, <1>3, <1>4, <1>5, <1>6, <1>7, <1>8, <1>9, <1>10 DEF Next

\* Every variable of the coordinator keeps its type, and a publish always has
\* a range to send.
THEOREM TypeCorrect == Spec => []TypeOK
<1>1. Init => TypeOK
  BY DEF Init, TypeOK, Version
<1> QED BY <1>1, TypeStep, PTL DEF Spec

-----------------------------------------------------------------------------
(* How a step changes what has been dealt with *)

\* A range that starts at the edge of a prefix extends the prefix.
LEMMA PrefixExtends ==
    ASSUME NEW H, NEW v \in Int, NEW r \in IndexingRange,
           HasPrefix(H, r.start - 1), v <= r.end
    PROVE  HasPrefix(H \cup Versions(r), v)
<1> SUFFICES ASSUME NEW x \in 0 .. v PROVE x \in H \cup Versions(r)
  BY DEF HasPrefix
<1> USE DEF IndexingRange, Version
<1>1. CASE x < r.start BY <1>1 DEF HasPrefix
<1>2. CASE x >= r.start BY <1>2 DEF Versions
<1> QED BY <1>1, <1>2

\* A set that keeps its elements keeps its prefixes.
LEMMA PrefixKept ==
    ASSUME NEW H, NEW K, NEW v, H \subseteq K, HasPrefix(H, v)
    PROVE  HasPrefix(K, v)
BY DEF HasPrefix

\* A step that publishes nothing and loses nothing leaves Handled alone.
LEMMA HandledKept ==
    ASSUME UNCHANGED <<topic, skipped, cutOff>>
    PROVE  Handled' = Handled
BY DEF Handled, Covered

\* A publish that succeeds or is abandoned adds the versions of its range.
LEMMA HandledExtended ==
    ASSUME UNCHANGED skipped,
           \/ topic' = topic \cup {serialized} /\ UNCHANGED cutOff
           \/ cutOff' = cutOff \cup Versions(serialized) /\ UNCHANGED topic
    PROVE  Handled' = Handled \cup Versions(serialized)
<1>1. Covered(topic \cup {serialized}) = Covered(topic) \cup Versions(serialized)
  BY DEF Covered
<1>2. CASE topic' = topic \cup {serialized} /\ UNCHANGED cutOff
  BY <1>1, <1>2 DEF Handled, Covered
<1>3. CASE cutOff' = cutOff \cup Versions(serialized) /\ UNCHANGED topic
  BY <1>3 DEF Handled, Covered
<1> QED BY <1>2, <1>3

\* Everything that is in Handled is a version of the chain.
LEMMA HandledTyped == TypeOK => Handled \subseteq Version
<1> SUFFICES ASSUME TypeOK, NEW v \in Covered(topic) PROVE v \in Version
  BY DEF Handled, TypeOK
<1>1. PICK r \in topic : v \in Versions(r) BY DEF Covered
<1> QED BY <1>1, VersionsTyped DEF TypeOK

\* Every step either leaves Handled alone or adds a range of versions that
\* starts at its edge.
LEMMA StepExtends ==
    ASSUME IInv, [Next]_vars
    PROVE  \/ Handled' = Handled
           \/ \E r \in IndexingRange : /\ HasPrefix(Handled, r.start - 1)
                                       /\ Handled' = Handled \cup Versions(r)
<1> USE DEF IInv, process, history
<1>1. CASE ChainGrows BY <1>1, HandledKept DEF ChainGrows
<1>2. CASE Start BY <1>2, HandledKept DEF Start
<1>3. CASE PickUp
  BY <1>3, HandledKept DEF PickUp, PickUpFromMessage, PickUpFromGenesis
<1>4. CASE Poll BY <1>4, HandledKept DEF Poll, GetLedgerVersion
<1>5. CASE NextRange BY <1>5, HandledKept DEF NextRange
<1>6. CASE pc = "publish" /\ (Publish \/ Signal \/ Crash)
  <2>1. serialized \in IndexingRange /\ HasPrefix(Handled, serialized.start - 1)
    BY <1>6 DEF PublishIsNext, GeneratorIsContiguous
  <2>2. Handled' = Handled \cup Versions(serialized)
    BY <1>6, HandledExtended DEF Publish, Signal, Crash, AbandonPublish
  <2> QED BY <2>1, <2>2
<1>7. CASE BatchDone
  <2>1. CASE ledger = lastEnd + 1
    <3> DEFINE r == [start |-> ledger, end |-> ledger]
    <3>1. r \in IndexingRange BY DEF TypeOK, IndexingRange
    <3>2. Versions(r) = {ledger} BY DEF Versions, TypeOK, Version
    <3>3. Handled' = Handled \cup {ledger}
      BY <1>7, <2>1 DEF BatchDone, Handled, Covered
    <3>4. HasPrefix(Handled, r.start - 1)
      BY <1>7, <2>1 DEF BatchDone, NothingBehindIsMissing, TypeOK, Version
    <3> QED BY <3>1, <3>2, <3>3, <3>4
  <2>2. CASE ledger # lastEnd + 1
    BY <1>7, <2>2, HandledKept DEF BatchDone
  <2> QED BY <2>1, <2>2
<1>8. CASE pc # "publish" /\ (Signal \/ Crash)
  BY <1>8, HandledKept DEF Signal, Crash, AbandonPublish
<1>9. CASE UNCHANGED vars BY <1>9, HandledKept DEF vars
<1>10. ASSUME Publish PROVE pc = "publish" BY <1>10 DEF Publish
<1> QED
  BY <1>1, <1>2, <1>3, <1>4, <1>5, <1>6, <1>7, <1>8, <1>9, <1>10 DEF Next

\* Nothing dealt with is ever forgotten.
LEMMA HandledGrows ==
    ASSUME IInv, [Next]_vars
    PROVE  Handled \subseteq Handled'
BY StepExtends

\* Handled stays a prefix of the chain.
LEMMA NoHolesKept ==
    ASSUME IInv, [Next]_vars
    PROVE  NoHoles'
<1>1. CASE Handled' = Handled BY <1>1 DEF IInv, NoHoles, HasPrefix
<1>2. ASSUME NEW r \in IndexingRange,
             HasPrefix(Handled, r.start - 1),
             Handled' = Handled \cup Versions(r)
      PROVE  NoHoles'
  <2> SUFFICES ASSUME NEW v \in Handled' PROVE HasPrefix(Handled', v)
    BY DEF NoHoles, HasPrefix
  <2>1. CASE v \in Handled BY <1>2, <2>1, PrefixKept DEF IInv, NoHoles
  <2>2. CASE v \in Versions(r)
    <3>1. v \in Int /\ v <= r.end
      BY <2>2 DEF Versions, IndexingRange, Version
    <3> QED BY <1>2, <3>1, PrefixExtends
  <2> QED BY <1>2, <2>1, <2>2
<1> QED BY <1>1, <1>2, StepExtends

-----------------------------------------------------------------------------
(* The inductive invariant *)

LEMMA InitIInv == Init => IInv
<1> SUFFICES ASSUME Init PROVE IInv
  OBVIOUS
<1>1. TypeOK BY DEF Init, TypeOK, Version
<1>2. Handled = {} BY DEF Init, Handled, Covered
<1> QED
  BY <1>1, <1>2 DEF Init, IInv, NoHoles, NothingBehindIsMissing,
     ResumptionIsSound, GeneratorIsContiguous, PublishIsNext, SerializedIsSound

\* A prefix of Handled is still one after the step.
LEMMA PrefixesKept ==
    ASSUME IInv, [Next]_vars, NEW v, HasPrefix(Handled, v)
    PROVE  HasPrefix(Handled', v)
BY HandledGrows, PrefixKept

\* Once a range's publish is over or abandoned, everything up to its end is
\* dealt with.
LEMMA PublishedPrefix ==
    ASSUME IInv, pc = "publish",
           Handled' = Handled \cup Versions(serialized),
           NEW v \in Int, v <= serialized.end
    PROVE  HasPrefix(Handled', v)
BY PrefixExtends DEF IInv, PublishIsNext, GeneratorIsContiguous

\* The end of a batch: everything up to ledger is dealt with, stepped over
\* included.
LEMMA BatchPrefix ==
    ASSUME IInv, BatchDone
    PROVE  HasPrefix(Handled', ledger)
<1> USE DEF IInv, TypeOK, Version, BatchDone
<1>1. HasPrefix(Handled, current - 1) BY DEF GeneratorIsContiguous
<1>2. Handled \subseteq Handled' BY HandledGrows DEF Next
<1>3. ledger < current \/ ledger = current BY DEF GeneratorIsContiguous
<1>4. CASE ledger < current BY <1>1, <1>2, <1>4 DEF HasPrefix
<1>5. CASE ledger = current
  <2>1. ledger \in Handled'
    <3>1. CASE ledger = lastEnd + 1 BY <3>1 DEF Handled
    <3>2. CASE ledger # lastEnd + 1
      BY <1>2, <1>5, <3>2 DEF GeneratorIsContiguous
    <3> QED BY <3>1, <3>2
  <2> QED BY <1>1, <1>2, <1>5, <2>1 DEF HasPrefix
<1> QED BY <1>3, <1>4, <1>5

LEMMA NextIInv == IInv /\ [Next]_vars => IInv'
<1> SUFFICES ASSUME IInv, [Next]_vars PROVE IInv'
  OBVIOUS
<1> USE DEF process, history
<1>1. TypeOK' BY TypeStep DEF IInv
<1>2. NoHoles' BY NoHolesKept
<1>3. NothingBehindIsMissing'
  <2>1. CASE PickUp
    <3>1. CASE PickUpFromGenesis
      BY <3>1 DEF PickUpFromGenesis, NothingBehindIsMissing, HasPrefix
    <3>2. ASSUME NEW r \in resumption, PickUpFromMessage(r)
          PROVE  NothingBehindIsMissing'
      BY <3>2, PrefixesKept
         DEF IInv, ResumptionIsSound, PickUpFromMessage, NothingBehindIsMissing
    <3> QED BY <2>1, <3>1, <3>2 DEF PickUp
  <2>2. CASE BatchDone
    BY <2>2, BatchPrefix DEF BatchDone, NothingBehindIsMissing
  <2>3. CASE Start \/ Signal \/ Crash
    BY <2>3 DEF Start, Signal, Crash, MemoryLost, NothingBehindIsMissing
  <2>4. CASE UNCHANGED lastEnd /\ pc \in {"poll", "generate", "publish"}
    BY <2>4, PrefixesKept DEF IInv, NothingBehindIsMissing
  <2>5. CASE UNCHANGED <<lastEnd, pc>>
    BY <2>5, PrefixesKept DEF IInv, NothingBehindIsMissing
  <2> QED
    BY <2>1, <2>2, <2>3, <2>4, <2>5
       DEF Next, ChainGrows, Poll, GetLedgerVersion, NextRange, Publish, vars
<1>4. ResumptionIsSound'
  <2>1. CASE Signal
    <3>1. CASE serialized = NoRange
      BY <2>1, <3>1, PrefixesKept DEF Signal, IInv, ResumptionIsSound
    <3>2. CASE serialized # NoRange
      <4>1. HasPrefix(Handled', serialized.end)
        <5>1. CASE pc = "publish"
          <6>1. Handled' = Handled \cup Versions(serialized)
            BY <2>1, <5>1, HandledExtended DEF Signal, AbandonPublish
          <6>2. serialized.end \in Int
            BY <5>1 DEF IInv, PublishIsNext, IndexingRange, Version
          <6> QED BY <5>1, <6>1, <6>2, PublishedPrefix
        <5>2. CASE pc # "publish"
          BY <3>2, <5>2, PrefixesKept DEF IInv, SerializedIsSound
        <5> QED BY <5>1, <5>2
      <4>2. \A r \in resumption : HasPrefix(Handled', r.end)
        BY PrefixesKept DEF IInv, ResumptionIsSound
      <4> QED BY <2>1, <3>2, <4>1, <4>2 DEF Signal, ResumptionIsSound
    <3> QED BY <3>1, <3>2
  <2>2. CASE resumption' \subseteq resumption
    BY <2>2, PrefixesKept DEF IInv, ResumptionIsSound
  <2>3. ASSUME ~ Signal PROVE resumption' \subseteq resumption
    BY <2>3 DEF Next, ChainGrows, Start, PickUp, PickUpFromMessage,
       PickUpFromGenesis, Poll, GetLedgerVersion, NextRange, Publish, BatchDone,
       Crash, vars
  <2> QED BY <2>1, <2>2, <2>3
<1>5. GeneratorIsContiguous'
  <2>1. CASE Poll
    <3>1. lastEnd \in Int BY DEF IInv, TypeOK, Version
    <3>2. HasPrefix(Handled', lastEnd)
      BY <2>1, PrefixesKept
         DEF IInv, Poll, GetLedgerVersion, NothingBehindIsMissing
    <3> QED BY <2>1, <3>1, <3>2 DEF Poll, GetLedgerVersion, GeneratorIsContiguous
  <2>2. CASE NextRange
    BY <2>2, PrefixesKept, HandledGrows DEF IInv, NextRange, GeneratorIsContiguous
  <2>3. CASE Publish
    <3>1. Handled' = Handled \cup Versions(serialized)
      BY <2>3, HandledExtended DEF Publish
    <3>2. /\ serialized.end \in Int /\ serialized.start \in Int
          /\ serialized.end > serialized.start
          /\ serialized.start = current
      BY <2>3 DEF IInv, PublishIsNext, IndexingRange, Version, Publish
    <3>3. HasPrefix(Handled', serialized.end - 1)
      BY <2>3, <3>1, <3>2, PublishedPrefix DEF Publish
    <3>4. serialized.end \in Handled' BY <3>1, <3>2 DEF Versions
    <3>5. current > lastEnd /\ current \in Int /\ lastEnd \in Int
      BY <2>3 DEF IInv, GeneratorIsContiguous, Publish, TypeOK, Version
    <3> QED BY <2>3, <3>2, <3>3, <3>4, <3>5 DEF Publish, GeneratorIsContiguous
  <2>4. CASE UNCHANGED <<pc, lastEnd, current>>
    BY <2>4, PrefixesKept, HandledGrows DEF IInv, GeneratorIsContiguous
  <2>5. CASE Start \/ PickUp \/ BatchDone \/ Signal \/ Crash
    BY <2>5 DEF Start, PickUp, PickUpFromMessage, PickUpFromGenesis, BatchDone,
       Signal, Crash, MemoryLost, GeneratorIsContiguous
  <2> QED BY <2>1, <2>2, <2>3, <2>4, <2>5 DEF Next, ChainGrows, vars
<1>6. PublishIsNext'
  <2>1. CASE NextRange
    <3>1. /\ NextStop \in Version /\ NextStop <= ledger /\ current < NextStop
          /\ current \in Version
      BY <2>1 DEF IInv, TypeOK, Version, NextRange, NextStop
    <3> QED BY <2>1, <3>1 DEF NextRange, PublishIsNext, IndexingRange
  <2>2. CASE UNCHANGED <<pc, current, ledger, serialized>>
    BY <2>2 DEF IInv, PublishIsNext
  <2>3. CASE pc' # "publish" BY <2>3 DEF PublishIsNext
  <2> QED
    BY <2>1, <2>2, <2>3
       DEF Next, ChainGrows, Start, PickUp, PickUpFromMessage, PickUpFromGenesis,
           Poll, GetLedgerVersion, Publish, BatchDone, Signal, Crash, MemoryLost,
           vars
<1>7. SerializedIsSound'
  <2>1. CASE Publish
    <3>1. Handled' = Handled \cup Versions(serialized)
      BY <2>1, HandledExtended DEF Publish
    <3>2. serialized.end \in Int
      BY <2>1 DEF IInv, PublishIsNext, IndexingRange, Version, Publish
    <3> QED
      BY <2>1, <3>1, <3>2, PublishedPrefix DEF Publish, SerializedIsSound
  <2>2. CASE UNCHANGED serialized /\ (pc # "publish" \/ UNCHANGED pc)
    BY <2>2, PrefixesKept DEF IInv, SerializedIsSound
  <2>3. CASE NextRange \/ Signal \/ Crash
    BY <2>3 DEF NextRange, Signal, Crash, MemoryLost, SerializedIsSound
  <2> QED
    BY <2>1, <2>2, <2>3
       DEF Next, ChainGrows, Start, PickUp, PickUpFromMessage, PickUpFromGenesis,
           Poll, GetLedgerVersion, BatchDone, vars
<1> QED BY <1>1, <1>2, <1>3, <1>4, <1>5, <1>6, <1>7 DEF IInv

\* The inductive invariant holds throughout.
THEOREM Invariance == Spec => []IInv
BY InitIInv, NextIInv, PTL DEF Spec

\* NothingBehindIsMissing: when a turn of the main loop starts one past
\* lastEnd, everything up to lastEnd has been dealt with.
THEOREM NoGapBehind == Spec => []NothingBehindIsMissing
<1>1. IInv => NothingBehindIsMissing BY DEF IInv
<1> QED BY <1>1, Invariance, PTL

\* ResumptionIsSound: resuming from any message a stopped run left behind
\* skips nothing.
THEOREM ResumptionSound == Spec => []ResumptionIsSound
<1>1. IInv => ResumptionIsSound BY DEF IInv
<1> QED BY <1>1, Invariance, PTL

-----------------------------------------------------------------------------
(* Refinement *)

\* A step of the coordinator is a step of the feed or changes nothing of it.
LEMMA StepRefinesFeed == IInv /\ [Next]_vars => [Feed!Extend]_Handled
<1> SUFFICES ASSUME IInv, [Next]_vars, Handled' # Handled PROVE Feed!Extend
  OBVIOUS
<1>1. PICK r \in IndexingRange : /\ HasPrefix(Handled, r.start - 1)
                                 /\ Handled' = Handled \cup Versions(r)
  BY StepExtends
<1>2. r.start \in Int /\ r.end \in Int /\ r.end \in Version
  BY <1>1 DEF IndexingRange, Version
<1>3. HasPrefix(Handled', r.end)
  <2>1. r.end <= r.end BY <1>2
  <2>2. HasPrefix(Handled, r.start - 1) BY <1>1
  <2>3. HasPrefix(Handled \cup Versions(r), r.end)
    BY <1>2, <2>1, <2>2, PrefixExtends
  <2> QED BY <1>1, <2>3
<1>4. r.end \notin Handled
  <2> SUFFICES ASSUME r.end \in Handled PROVE FALSE
    OBVIOUS
  <2>1. 0 .. r.end \subseteq Handled BY DEF IInv, NoHoles, HasPrefix
  <2>2. Versions(r) \subseteq 0 .. r.end
    BY <1>1, <1>2 DEF Versions, IndexingRange, Version
  <2> QED BY <1>1, <2>1, <2>2
<1>5. Handled \subseteq 0 .. r.end
  <2> SUFFICES ASSUME NEW v \in Handled, v > r.end PROVE FALSE
    BY HandledTyped, <1>2 DEF IInv, Version
  <2>1. v \in Int BY HandledTyped DEF IInv, Version
  <2>2. r.end \in 0 .. v BY <1>2, <2>1 DEF Version
  <2> QED BY <1>4, <2>2 DEF IInv, NoHoles, HasPrefix
<1>6. Handled' \subseteq 0 .. r.end
  <2>1. Versions(r) \subseteq 0 .. r.end
    BY <1>2 DEF Versions, IndexingRange, Version
  <2> QED BY <1>1, <1>5, <2>1
<1>7. Handled' = 0 .. r.end BY <1>3, <1>6 DEF HasPrefix
<1> QED BY <1>2, <1>5, <1>7 DEF Feed!Extend, Feed!Version, Version

\* ImplementsFeed: through every batch, stale poll, signal, crash and restart
\* what has been dealt with is a growing prefix of the chain.
THEOREM FeedRefinement == Spec => ImplementsFeed
<1>1. Init => Feed!Init BY DEF Init, Feed!Init, Handled, Covered
<1> QED BY <1>1, StepRefinesFeed, Invariance, PTL DEF Spec, ImplementsFeed, Feed!Spec
=============================================================================
