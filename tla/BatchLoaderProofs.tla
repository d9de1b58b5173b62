------------------------- MODULE BatchLoaderProofs -------------------------
(***************************************************************************)
(* Proofs about BatchLoader, for any number of hours, rows, objects,       *)
(* retries and faults: types, and that an hour of which no attempt lost    *)
(* contact and into which no row was displaced is copied once.             *)
(***************************************************************************)
EXTENDS BatchLoader, TLAPS, FiniteSetTheorems

\* Where an undisturbed hour stands, in terms of the two tables.
HourInv(h) ==
    /\ SameRows(final, copied[h], h)
    /\ task[h] = "load" => ~Has(temp, h)
    /\ task[h] = "check" => \/ SameRows(temp, loaded[h], h)
                            \/ Has(final, h) /\ ~Has(temp, h)
    /\ task[h] = "insert" => IF Has(final, h) THEN ~Has(temp, h)
                             ELSE SameRows(temp, loaded[h], h)
    /\ task[h] = "done" /\ Has(loaded[h], h) => Has(final, h)

IInv ==
    /\ LoaderTypeOK
    /\ \A job \in stray : job.hour \in disturbed
    /\ \A h \in Hour \ disturbed : HourInv(h)

\* A job of hour k leaves the rows of hour h and what is recorded of it alone.
Elsewhere(h) ==
    /\ SameRows(temp', temp, h)
    /\ SameRows(final', final, h)
    /\ loaded'[h] = loaded[h]
    /\ copied'[h] = copied[h]

LEMMA InBucketType ==
    ASSUME bucket \in [ObjectName -> SUBSET Row], NEW h
    PROVE  InBucket(h) \in [Row -> Nat]
<1>1. ASSUME NEW r \in Row
      PROVE  Cardinality({o \in Matching(h) : r \in bucket[o]}) \in Nat
  <2>1. {o \in Matching(h) : r \in bucket[o]} \subseteq ObjectName
    BY DEF Matching
  <2>q. QED  BY <2>1, ObjectNameAssumption, FS_Subset, FS_CardinalityType
<1>q. QED  BY <1>1 DEF InBucket

\* Whatever job runs, the tables and histories keep their types.
LEMMA RunTypes ==
    ASSUME LoaderTypeOK, NEW h \in Hour, NEW stage, Run(stage, h)
    PROVE  /\ temp' \in [Row -> Nat]
           /\ final' \in [Row -> Nat]
           /\ loaded' \in [Hour -> [Row -> Nat]]
           /\ copied' \in [Hour -> [Row -> Nat]]
           /\ disturbed' \subseteq Hour
           /\ disturbed \subseteq disturbed'
<1>1. InBucket(h) \in [Row -> Nat]
  BY InBucketType DEF LoaderTypeOK
<1>2. CASE Remove(h)
  BY <1>2 DEF Remove, Without, LoaderTypeOK
<1>3. CASE Load(h)
  <2>1. Displaced(h) \subseteq Hour
    BY HourOfAssumption DEF Displaced
  <2>q. QED  BY <1>1, <1>3, <2>1 DEF Load, LoaderTypeOK
<1>4. CASE Check(h)
  BY <1>4 DEF Check, Without, LoaderTypeOK
<1>5. CASE Insert(h)
  BY <1>5 DEF Insert, LoaderTypeOK
<1>q. QED  BY <1>2, <1>3, <1>4, <1>5 DEF Run

\* A job of another hour does not reach an hour it does not disturb.
LEMMA RunElsewhere ==
    ASSUME LoaderTypeOK, NEW k \in Hour, NEW stage, Run(stage, k),
           NEW h \in Hour \ disturbed', h # k
    PROVE  Elsewhere(h)
<1>1. \A r \in RowsOf(h) : r \in Row /\ r \notin RowsOf(k)
  BY DEF RowsOf
<1>2. CASE Remove(k)
  BY <1>1, <1>2 DEF Remove, Without, Elsewhere, SameRows
<1>3. CASE Load(k)
  <2>1. InBucket(k) \in [Row -> Nat]
    BY InBucketType DEF LoaderTypeOK
  <2>2. \A r \in RowsOf(h) : InBucket(k)[r] = 0
    BY <1>3, <2>1 DEF Load, Displaced, RowsOf
  <2>3. \A r \in RowsOf(h) : temp'[r] = temp[r] + InBucket(k)[r]
    BY <1>1, <1>3 DEF Load
  <2>4. \A r \in RowsOf(h) : temp[r] \in Nat
    BY <1>1 DEF LoaderTypeOK
  <2>q. QED  BY <1>1, <1>3, <2>2, <2>3, <2>4 DEF Load, Elsewhere, SameRows, LoaderTypeOK
<1>4. CASE Check(k)
  BY <1>1, <1>4 DEF Check, Without, Elsewhere, SameRows
<1>5. CASE Insert(k)
  BY <1>1, <1>5 DEF Insert, Elsewhere, SameRows, LoaderTypeOK
<1>q. QED  BY <1>2, <1>3, <1>4, <1>5 DEF Run

\* An hour whose rows and records are left alone keeps its invariant, if it
\* stays where it is or its task is tried again or cleared.
LEMMA ElsewhereKeeps ==
    ASSUME LoaderTypeOK, NEW h \in Hour, HourInv(h), Elsewhere(h),
           \/ task'[h] = task[h]
           \/ task[h] = "insert" /\ task'[h] = "check"
           \/ task'[h] \in {"remove", "failed"}
    PROVE  HourInv(h)'
<1>1. /\ Has(temp', h) <=> Has(temp, h)
      /\ Has(final', h) <=> Has(final, h)
  BY DEF Elsewhere, SameRows, Has
<1>2. /\ SameRows(temp', loaded'[h], h) <=> SameRows(temp, loaded[h], h)
      /\ SameRows(final', copied'[h], h) <=> SameRows(final, copied[h], h)
  BY DEF Elsewhere, SameRows
<1>q. QED  BY <1>1, <1>2 DEF HourInv, Elsewhere, Has, SameRows, RowsOf

-----------------------------------------------------------------------------
(* The steps *)

\* The hour whose own statement succeeds.
LEMMA SucceedOwn ==
    ASSUME IInv, NEW h \in Hour, h \notin disturbed', Succeed(h)
    PROVE  HourInv(h)'
<1>0. /\ LoaderTypeOK
      /\ HourInv(h)
      /\ \A r \in RowsOf(h) : /\ r \in Row
                              /\ temp[r] \in Nat
                              /\ final[r] \in Nat
                              /\ loaded[h][r] \in Nat
  BY RunTypes DEF IInv, Succeed, RowsOf, LoaderTypeOK
<1>1. CASE task[h] = "remove"
  <2>1. /\ Remove(h)
        /\ task'[h] = "load"
    BY <1>0, <1>1 DEF Succeed, Run, After, LoaderTypeOK
  <2>2. ~Has(temp, h)'
    BY <2>1 DEF Remove, Without, Has, RowsOf
  <2>q. QED  BY <1>0, <2>1, <2>2 DEF Remove, HourInv, SameRows, RowsOf
<1>2. CASE task[h] = "load"
  <2>1. /\ Load(h)
        /\ task'[h] = "check"
    BY <1>0, <1>2 DEF Succeed, Run, After, LoaderTypeOK
  <2>2. \A r \in RowsOf(h) : temp[r] = 0
    BY <1>0, <1>2 DEF HourInv, Has
  <2>3. InBucket(h) \in [Row -> Nat]
    BY <1>0, InBucketType DEF LoaderTypeOK
  <2>4. \A r \in RowsOf(h) : temp'[r] = InBucket(h)[r] /\ loaded'[h] = InBucket(h)
    BY <1>0, <2>1, <2>2, <2>3 DEF Load, LoaderTypeOK
  <2>5. SameRows(temp, loaded[h], h)'
    BY <2>4 DEF SameRows, RowsOf
  <2>q. QED  BY <1>0, <2>1, <2>5 DEF Load, HourInv, SameRows, RowsOf
<1>3. CASE task[h] = "check"
  <2>1. /\ Check(h)
        /\ task'[h] = "insert"
    BY <1>0, <1>3 DEF Succeed, Run, After, LoaderTypeOK
  <2>2. CASE Has(final, h)
    <3>1. ~Has(temp, h)'
      BY <2>1, <2>2 DEF Check, Without, Has, RowsOf
    <3>2. Has(final, h)'
      BY <2>1, <2>2 DEF Check, Has, RowsOf
    <3>q. QED  BY <1>0, <2>1, <3>1, <3>2 DEF Check, HourInv, SameRows, RowsOf
  <2>3. CASE ~Has(final, h)
    <3>1. SameRows(temp, loaded[h], h)
      BY <1>0, <1>3, <2>3 DEF HourInv
    <3>2. /\ temp' = temp
          /\ ~Has(final, h)'
      BY <2>1, <2>3 DEF Check, Has, RowsOf
    <3>q. QED  BY <1>0, <2>1, <3>1, <3>2 DEF Check, HourInv, SameRows, RowsOf
  <2>q. QED  BY <2>2, <2>3
<1>4. CASE task[h] = "insert"
  <2>1. /\ Insert(h)
        /\ task'[h] = "done"
    BY <1>0, <1>4 DEF Succeed, Run, After, LoaderTypeOK
  <2>2. \A r \in RowsOf(h) : final'[r] = final[r] + temp[r]
    BY <1>0, <2>1 DEF Insert
  <2>3. CASE Has(final, h)
    <3>1. \A r \in RowsOf(h) : temp[r] = 0
      BY <1>0, <1>4, <2>3 DEF HourInv, Has
    <3>2. \A r \in RowsOf(h) : final'[r] = final[r]
      BY <1>0, <2>2, <3>1
    <3>3. copied' = copied
      BY <2>1, <2>3 DEF Insert
    <3>4. Has(final, h)'
      BY <2>3, <3>2 DEF Has, RowsOf
    <3>q. QED  BY <1>0, <2>1, <3>2, <3>3, <3>4 DEF HourInv, SameRows, RowsOf
  <2>4. CASE ~Has(final, h)
    <3>1. \A r \in RowsOf(h) : final[r] = 0 /\ temp[r] = loaded[h][r]
      BY <1>0, <1>4, <2>4 DEF HourInv, Has, SameRows
    <3>2. \A r \in RowsOf(h) : final'[r] = loaded[h][r]
      BY <1>0, <2>2, <3>1
    <3>3. loaded' = loaded
      BY <2>1 DEF Insert
    <3>4. CASE Has(temp, h)
      <4>1. copied'[h] = loaded[h]
        BY <1>0, <2>1, <2>4, <3>4 DEF Insert, LoaderTypeOK
      <4>2. Has(final, h)'
        BY <3>1, <3>2, <3>4 DEF Has, RowsOf
      <4>q. QED  BY <2>1, <3>2, <4>1, <4>2 DEF HourInv, SameRows, RowsOf
    <3>5. CASE ~Has(temp, h)
      <4>1. \A r \in RowsOf(h) : final'[r] = final[r] /\ ~(loaded[h][r] > 0)
        BY <1>0, <2>2, <3>1, <3>5 DEF Has
      <4>2. copied' = copied
        BY <2>1, <3>5 DEF Insert
      <4>q. QED  BY <1>0, <2>1, <3>3, <4>1, <4>2 DEF HourInv, SameRows, Has, RowsOf
    <3>q. QED  BY <3>4, <3>5
  <2>q. QED  BY <2>3, <2>4
<1>q. QED  BY <1>1, <1>2, <1>3, <1>4 DEF Succeed, Stage

LEMMA SucceedStep ==
    ASSUME IInv, NEW h \in Hour, Succeed(h)
    PROVE  IInv'
<1>1. /\ LoaderTypeOK
      /\ temp' \in [Row -> Nat]
      /\ final' \in [Row -> Nat]
      /\ loaded' \in [Hour -> [Row -> Nat]]
      /\ copied' \in [Hour -> [Row -> Nat]]
      /\ disturbed' \subseteq Hour
      /\ disturbed \subseteq disturbed'
  BY RunTypes DEF IInv, Succeed
<1>2. LoaderTypeOK'
  <2>1. task' \in [Hour -> Stage \cup Settled]
    BY <1>1 DEF Succeed, After, Stage, Settled, LoaderTypeOK
  <2>2. tries' \in [Hour -> 0 .. MaxTries - 1]
    BY <1>1, MaxTriesAssumption DEF Succeed, LoaderTypeOK
  <2>q. QED  BY <1>1, <2>1, <2>2 DEF Succeed, counters, LoaderTypeOK
<1>3. ASSUME NEW k \in Hour \ disturbed' PROVE HourInv(k)'
  <2>1. CASE k = h
    BY <2>1, <1>3, SucceedOwn
  <2>2. CASE k # h
    <3>1. Elsewhere(k)
      BY <1>1, <1>3, <2>2, RunElsewhere DEF Succeed
    <3>2. task'[k] = task[k]
      BY <1>1, <2>2 DEF Succeed, LoaderTypeOK
    <3>3. HourInv(k)
      BY <1>1, <1>3 DEF IInv
    <3>q. QED  BY <1>1, <3>1, <3>2, <3>3, ElsewhereKeeps
  <2>q. QED  BY <2>1, <2>2
<1>4. \A job \in stray' : job.hour \in disturbed'
  BY <1>1 DEF IInv, Succeed
<1>q. QED  BY <1>2, <1>3, <1>4 DEF IInv

LEMMA TryAgainTypes ==
    ASSUME LoaderTypeOK, NEW h \in Hour, TryAgain(h), task[h] \in Stage
    PROVE  /\ task' \in [Hour -> Stage \cup Settled]
           /\ tries' \in [Hour -> 0 .. MaxTries - 1]
           /\ \A k \in Hour : \/ task'[k] = task[k]
                              \/ task[k] = "insert" /\ task'[k] = "check"
                              \/ task'[k] = "failed"
<1>1. CASE tries[h] + 1 < MaxTries
  <2>1. /\ task' = [task EXCEPT ![h] = IF @ = "insert" THEN "check" ELSE @]
        /\ tries' = [tries EXCEPT ![h] = @ + 1]
    BY <1>1 DEF TryAgain
  <2>2. task' \in [Hour -> Stage \cup Settled]
    BY <2>1 DEF LoaderTypeOK, Stage, Settled
  <2>3. tries[h] + 1 \in 0 .. MaxTries - 1
    BY <1>1, MaxTriesAssumption DEF LoaderTypeOK
  <2>4. tries' \in [Hour -> 0 .. MaxTries - 1]
    BY <2>1, <2>3 DEF LoaderTypeOK
  <2>5. \A k \in Hour : \/ task'[k] = task[k]
                        \/ task[k] = "insert" /\ task'[k] = "check"
    BY <2>1 DEF LoaderTypeOK
  <2>q. QED  BY <2>2, <2>4, <2>5
<1>2. CASE ~(tries[h] + 1 < MaxTries)
  BY <1>2 DEF TryAgain, LoaderTypeOK, Stage, Settled
<1>q. QED  BY <1>1, <1>2

\* A step of an attempt that does not touch the tables.
LEMMA IdleStep ==
    ASSUME IInv, UNCHANGED tables, disturbed \subseteq disturbed', LoaderTypeOK',
           \A job \in stray' : job.hour \in disturbed',
           \A k \in Hour : \/ task'[k] = task[k]
                           \/ task[k] = "insert" /\ task'[k] = "check"
                           \/ task'[k] \in {"remove", "failed"}
    PROVE  IInv'
<1>1. ASSUME NEW k \in Hour \ disturbed' PROVE HourInv(k)'
  <2>1. Elsewhere(k)
    BY DEF tables, Elsewhere, SameRows
  <2>2. HourInv(k)
    BY <1>1 DEF IInv
  <2>q. QED  BY <2>1, <2>2, ElsewhereKeeps DEF IInv
<1>q. QED  BY <1>1 DEF IInv

LEMMA RetryStep ==
    ASSUME IInv, NEW h \in Hour, Fail(h) \/ LoadNothing(h) \/ LoseContact(h)
    PROVE  IInv'
<1>1. /\ task' \in [Hour -> Stage \cup Settled]
      /\ tries' \in [Hour -> 0 .. MaxTries - 1]
      /\ \A k \in Hour : \/ task'[k] = task[k]
                         \/ task[k] = "insert" /\ task'[k] = "check"
                         \/ task'[k] \in {"remove", "failed"}
  <2>1. TryAgain(h) /\ task[h] \in Stage
    BY DEF Fail, LoadNothing, LoseContact, Stage
  <2>q. QED  BY <2>1, TryAgainTypes DEF IInv
<1>2. CASE Fail(h) \/ LoadNothing(h)
  <2>1. LoaderTypeOK'
    BY <1>1, <1>2 DEF IInv, LoaderTypeOK, Fail, LoadNothing, tables, counters
  <2>q. QED  BY <1>1, <1>2, <2>1, IdleStep DEF IInv, Fail, LoadNothing
<1>3. CASE LoseContact(h)
  <2>1. LoaderTypeOK'
    BY <1>1, <1>3 DEF IInv, LoaderTypeOK, LoseContact, tables
  <2>2. \A job \in stray' : job.hour \in disturbed'
    BY <1>3 DEF IInv, LoseContact
  <2>q. QED  BY <1>1, <1>3, <2>1, <2>2, IdleStep DEF LoseContact
<1>q. QED  BY <1>2, <1>3

LEMMA RerunStep ==
    ASSUME IInv, NEW h \in Hour, Rerun(h)
    PROVE  IInv'
<1>1. LoaderTypeOK'
  BY MaxTriesAssumption DEF IInv, LoaderTypeOK, Rerun, tables, Stage
<1>2. \A k \in Hour : task'[k] = task[k] \/ task'[k] = "remove"
  BY DEF IInv, LoaderTypeOK, Rerun
<1>q. QED  BY <1>1, <1>2, IdleStep DEF IInv, Rerun

LEMMA UploadStep ==
    ASSUME IInv, NEW o \in ObjectName, Upload(o)
    PROVE  IInv'
<1>1. bucket' \in [ObjectName -> SUBSET Row]
  <2>1. PICK rows \in Uploads[o] \ {bucket[o]} : bucket' = [bucket EXCEPT ![o] = rows]
    BY DEF Upload
  <2>2. rows \in SUBSET Row
    BY UploadsAssumption
  <2>q. QED  BY <2>1, <2>2 DEF IInv, LoaderTypeOK
<1>2. LoaderTypeOK'
  BY <1>1 DEF IInv, LoaderTypeOK, Upload, tables, counters
<1>q. QED  BY <1>2, IdleStep DEF IInv, Upload

LEMMA StrayStepStep ==
    ASSUME IInv, NEW job \in stray, StrayStep(job)
    PROVE  IInv'
<1>1. job \in [hour : Hour, stage : Stage] /\ job.hour \in disturbed
  BY DEF IInv, LoaderTypeOK
<1>2. /\ temp' \in [Row -> Nat]
      /\ final' \in [Row -> Nat]
      /\ loaded' \in [Hour -> [Row -> Nat]]
      /\ copied' \in [Hour -> [Row -> Nat]]
      /\ disturbed' \subseteq Hour
      /\ disturbed \subseteq disturbed'
  BY <1>1, RunTypes DEF IInv, StrayStep
<1>3. /\ stray' \subseteq [hour : Hour, stage : Stage]
      /\ \A j \in stray' : j.hour \in disturbed'
  BY <1>1, <1>2 DEF IInv, LoaderTypeOK, StrayStep, Stage
<1>4. LoaderTypeOK'
  BY <1>2, <1>3 DEF IInv, LoaderTypeOK, StrayStep, counters
<1>5. ASSUME NEW k \in Hour \ disturbed' PROVE HourInv(k)'
  <2>1. Elsewhere(k)
    BY <1>1, <1>2, <1>5, RunElsewhere DEF IInv, StrayStep
  <2>2. HourInv(k) /\ task'[k] = task[k]
    BY <1>2, <1>5 DEF IInv, StrayStep
  <2>q. QED  BY <2>1, <2>2, ElsewhereKeeps DEF IInv
<1>q. QED  BY <1>3, <1>4, <1>5 DEF IInv

-----------------------------------------------------------------------------
(* The invariant *)

LEMMA InitIInv == Init => IInv
<1> SUFFICES ASSUME Init PROVE IInv
  OBVIOUS
<1>1. LoaderTypeOK
  BY MaxTriesAssumption DEF Init, LoaderTypeOK, NoRows, Stage
<1>2. ASSUME NEW h \in Hour PROVE HourInv(h)
  BY DEF Init, HourInv, SameRows, Has, RowsOf, NoRows
<1>q. QED  BY <1>1, <1>2 DEF Init, IInv

LEMMA NextIInv == IInv /\ [Next]_vars => IInv'
<1> SUFFICES ASSUME IInv, [Next]_vars PROVE IInv'
  OBVIOUS
<1>1. CASE \E o \in ObjectName : Upload(o)
  BY <1>1, UploadStep
<1>2. ASSUME NEW h \in Hour, Succeed(h) PROVE IInv'
  BY <1>2, SucceedStep
<1>3. ASSUME NEW h \in Hour, Fail(h) \/ LoadNothing(h) \/ LoseContact(h) PROVE IInv'
  BY <1>3, RetryStep
<1>4. ASSUME NEW h \in Hour, Rerun(h) PROVE IInv'
  BY <1>4, RerunStep
<1>5. CASE \E job \in stray : StrayStep(job)
  BY <1>5, StrayStepStep
<1>6. CASE UNCHANGED vars
  <2>1. LoaderTypeOK'
    BY <1>6 DEF IInv, LoaderTypeOK, vars, tables, counters
  <2>q. QED  BY <1>6, <2>1, IdleStep DEF IInv, vars
<1>q. QED  BY <1>1, <1>2, <1>3, <1>4, <1>5, <1>6 DEF Next

THEOREM LoaderIInv == Spec => []IInv
BY InitIInv, NextIInv, PTL DEF Spec

\* Type correctness, for any number of hours, rows, objects, attempts and faults.
THEOREM LoaderTypeCorrect == Spec => []LoaderTypeOK
<1>1. IInv => LoaderTypeOK
  BY DEF IInv
<1>q. QED  BY <1>1, LoaderIInv, PTL

\* Whatever is retried, cleared or uploaded late, the final table holds one load
\* of an hour or nothing of it (the two deletions of dag_hourly_aptos_etl_testnet.py,
\* 103 and 147), unless contact was lost or rows were displaced.
THEOREM HourIsOneLoad == Spec => []FinalIsOneLoad
<1>1. IInv => FinalIsOneLoad
  BY DEF IInv, HourInv, FinalIsOneLoad
<1>q. QED  BY <1>1, LoaderIInv, PTL

\* An hour that is done is in the final table, with the same exceptions.
THEOREM DoneHourIsCopied == Spec => []DoneIsCopied
<1>1. IInv => DoneIsCopied
  BY DEF IInv, HourInv, DoneIsCopied
<1>q. QED  BY <1>1, LoaderIInv, PTL

-----------------------------------------------------------------------------
(* What is copied stays *)

\* Only an insertion changes the final table, and only its own hour.
LEMMA RunFinal ==
    ASSUME LoaderTypeOK, NEW k \in Hour, NEW stage, Run(stage, k),
           NEW h \in Hour, stage = "insert" => h # k
    PROVE  SameRows(final', final, h)
<1>1. CASE stage = "insert"
  <2>1. Insert(k)
    BY <1>1 DEF Run
  <2>2. \A r \in RowsOf(h) : r \in Row /\ r \notin RowsOf(k)
    BY <1>1 DEF RowsOf
  <2>q. QED  BY <2>1, <2>2 DEF Insert, SameRows
<1>2. CASE stage # "insert"
  <2>1. final' = final
    BY <1>2 DEF Run, Remove, Load, Check
  <2>q. QED  BY <2>1 DEF SameRows
<1>q. QED  BY <1>1, <1>2

\* No step changes what the final table has of an hour, with the same exceptions
\* (dag_hourly_aptos_etl_testnet.py:147).
THEOREM CopiedStays == Spec => CopiedHoursStay
<1>1. ASSUME IInv, [Next]_vars, NEW h \in Hour \ disturbed, Has(final, h)
      PROVE  SameRows(final', final, h)
  <2>1. CASE \E k \in Hour : Succeed(k)
    <3>1. PICK k \in Hour : Succeed(k)
      BY <2>1
    <3>2. CASE task[k] = "insert" /\ h = k
      <4>1. Insert(h)
        BY <3>1, <3>2 DEF Succeed, Run
      <4>2. \A r \in RowsOf(h) : temp[r] = 0 /\ final[r] \in Nat /\ r \in Row
        BY <1>1, <3>2, SMTT(20) DEF IInv, HourInv, LoaderTypeOK, Has, RowsOf
      <4>q. QED  BY <4>1, <4>2 DEF Insert, SameRows
    <3>3. CASE ~(task[k] = "insert" /\ h = k)
      BY <1>1, <3>1, <3>3, RunFinal DEF IInv, Succeed
    <3>q. QED  BY <3>2, <3>3
  <2>2. CASE \E job \in stray : StrayStep(job)
    <3>1. PICK job \in stray : StrayStep(job)
      BY <2>2
    <3>2. job.hour \in Hour /\ job.hour # h
      BY <1>1 DEF IInv, LoaderTypeOK
    <3>q. QED  BY <1>1, <3>1, <3>2, RunFinal DEF IInv, StrayStep
  <2>3. CASE final' = final
    BY <2>3 DEF SameRows
  <2>q. QED
    BY <1>1, <2>1, <2>2, <2>3
    DEF Next, Upload, Fail, LoadNothing, LoseContact, Rerun, vars, tables
<1>2. IInv /\ [Next]_vars =>
      [\A h \in Hour \ disturbed : Has(final, h) => SameRows(final', final, h)]_vars
  BY <1>1
<1>q. QED  BY <1>2, LoaderIInv, PTL DEF Spec, CopiedHoursStay
=============================================================================
