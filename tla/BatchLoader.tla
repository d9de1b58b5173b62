---------------------------- MODULE BatchLoader ----------------------------
(***************************************************************************)
(* loader/airflow_dags/dag_hourly_aptos_etl_testnet.py: every hour, for    *)
(* each table, the objects of the hour's directories of the bucket are     *)
(* loaded into a temporary table and copied to the final one.  The three   *)
(* tasks of an hour run in order and are retried on their own; the hours   *)
(* run side by side.  The tables do not influence each other, so the model *)
(* has one.                                                                *)
(*                                                                         *)
(* A task is a job of BigQuery.  Its attempt succeeds, fails without       *)
(* effect, or loses contact: Airflow takes it for failed and tries again   *)
(* while the job may go on.                                                *)
(***************************************************************************)
EXTENDS Integers, FiniteSets

CONSTANTS
    Hour,         \* the hours, one run of the DAG for each
    Row,          \* the rows of the table
    HourOf,       \* the hour of each row's block timestamp
    ObjectName,   \* the objects the GCS publisher may store
    DirectoryOf,  \* the hour whose directories an object is in
    Uploads,      \* the row sets an object may be stored with
    MaxTries,     \* attempts of a task: 1 + retries
    MaxFailures,  \* bound: attempts that fail without effect
    MaxLost,      \* bound: attempts that lose contact
    MaxReruns     \* bound: hours cleared by hand and run again

ASSUME HourOfAssumption == HourOf \in [Row -> Hour]
ASSUME ObjectNameAssumption == IsFiniteSet(ObjectName)
ASSUME DirectoryOfAssumption == DirectoryOf \in [ObjectName -> Hour]
ASSUME UploadsAssumption == Uploads \in [ObjectName -> SUBSET SUBSET Row]
ASSUME MaxTriesAssumption == MaxTries \in Nat \ {0}
ASSUME FaultBoundsAssumption ==
    MaxFailures \in Nat /\ MaxLost \in Nat /\ MaxReruns \in Nat

VARIABLES
    bucket,    \* the rows of each object; {} when it is not there
    temp,      \* the temporary table: how often it has each row
    final,     \* the final table
    task,      \* where each hour is: a task, a statement of it, or an end
    tries,     \* failed attempts of the hour's current task
    stray,     \* jobs whose contact was lost and that still run
    loaded,    \* history: what the hour's last load appended
    copied,    \* history: loaded when rows of the hour were first inserted
    disturbed, \* history: hours that lost contact, or got displaced rows
    failures, lost, reruns

tables == <<temp, final, loaded, copied>>
counters == <<failures, lost, reruns>>
vars == <<bucket, tables, task, tries, stray, disturbed, counters>>

Stage == {"remove", "load", "check", "insert"}
Settled == {"done", "failed"}

NoRows == [r \in Row |-> 0]

Init ==
    /\ bucket = [o \in ObjectName |-> {}]
    /\ temp = NoRows
    /\ final = NoRows
    /\ task = [h \in Hour |-> "remove"]
    /\ tries = [h \in Hour |-> 0]
    /\ stray = {}
    /\ loaded = [h \in Hour |-> NoRows]
    /\ copied = [h \in Hour |-> NoRows]
    /\ disturbed = {}
    /\ failures = 0
    /\ lost = 0
    /\ reruns = 0

-----------------------------------------------------------------------------
(* The jobs: what each statement does to the tables *)

RowsOf(h) == {r \in Row : HourOf[r] = h}
Has(table, h) == \E r \in RowsOf(h) : table[r] > 0
Without(table, h) == [r \in Row |-> IF r \in RowsOf(h) THEN 0 ELSE table[r]]

\* The objects matching the load's patterns, and how often they have a row.
Matching(h) == {o \in ObjectName : DirectoryOf[o] = h /\ bucket[o] # {}}
InBucket(h) == [r \in Row |-> Cardinality({o \in Matching(h) : r \in bucket[o]})]
Displaced(h) == {HourOf[r] : r \in {q \in Row : InBucket(h)[q] > 0}} \ {h}

\* Mutant: the temporary table keeps what an earlier run left in it.
RemoveNothing(h) == UNCHANGED <<tables, disturbed>>

\* remove_sql: clears the temporary table of the hour.
Remove(h) ==
    /\ temp' = Without(temp, h)
    /\ UNCHANGED <<final, loaded, copied, disturbed>>

\* Appends the objects' rows, whatever hour they are of.
Load(h) ==
    /\ Matching(h) # {}
    /\ temp' = [r \in Row |-> temp[r] + InBucket(h)[r]]
    /\ loaded' = [loaded EXCEPT ![h] = InBucket(h)]
    /\ disturbed' = disturbed \cup Displaced(h)
    /\ UNCHANGED <<final, copied>>

\* Mutant: what is already there is looked up in the temporary table.
CheckTemp(h) ==
    /\ temp' = IF Has(temp, h) THEN Without(temp, h) ELSE temp
    /\ UNCHANGED <<final, loaded, copied, disturbed>>

\* Mutant: the hour is not looked up before it is inserted.
CheckNothing(h) == UNCHANGED <<tables, disturbed>>

\* add_sql, IF EXISTS: an hour already in the final table is not inserted.
Check(h) ==
    /\ temp' = IF Has(final, h) THEN Without(temp, h) ELSE temp
    /\ UNCHANGED <<final, loaded, copied, disturbed>>

\* add_sql, INSERT.
Insert(h) ==
    /\ final' = [r \in Row |-> IF r \in RowsOf(h) THEN final[r] + temp[r]
                               ELSE final[r]]
    /\ copied' = IF Has(temp, h) /\ ~Has(final, h)
                 THEN [copied EXCEPT ![h] = loaded[h]] ELSE copied
    /\ UNCHANGED <<temp, loaded, disturbed>>

Run(stage, h) ==
    \/ stage = "remove" /\ Remove(h)
    \/ stage = "load" /\ Load(h)
    \/ stage = "check" /\ Check(h)
    \/ stage = "insert" /\ Insert(h)

\* The statement that follows; a stray job ends with its task's last one.
After(stage) ==
    CASE stage = "remove" -> "load"
      [] stage = "load" -> "check"
      [] stage = "check" -> "insert"
      [] stage = "insert" -> "done"

-----------------------------------------------------------------------------
(* The runs of the DAG *)

\* The GCS publisher stores an object, perhaps over an earlier one, whenever
\* its range is extracted: before, during or after the hour's run.
Upload(o) ==
    /\ \E rows \in Uploads[o] \ {bucket[o]} : bucket' = [bucket EXCEPT ![o] = rows]
    /\ UNCHANGED <<tables, task, tries, stray, disturbed, counters>>

\* A statement of the hour's current task succeeds.
Succeed(h) ==
    /\ task[h] \in Stage
    /\ Run(task[h], h)
    /\ task' = [task EXCEPT ![h] = After(task[h])]
    /\ tries' = [tries EXCEPT ![h] = IF task[h] = "check" THEN @ ELSE 0]
    /\ UNCHANGED <<bucket, stray, counters>>

\* Mutant: the last failure is retried as well.
TryAgainForEver(h) ==
    /\ task' = [task EXCEPT ![h] = IF task[h] = "insert" THEN "check" ELSE task[h]]
    /\ tries' = [tries EXCEPT ![h] = IF tries[h] + 1 < MaxTries THEN @ + 1 ELSE 0]

\* Mutant: retries are counted as if the first attempt were one of them.
TryAgainOnceMore(h) ==
    IF tries[h] < MaxTries
    THEN /\ task' = [task EXCEPT ![h] = IF @ = "insert" THEN "check" ELSE @]
         /\ tries' = [tries EXCEPT ![h] = @ + 1]
    ELSE /\ task' = [task EXCEPT ![h] = "failed"]
         /\ UNCHANGED tries

\* The task is tried again from its first statement, or has failed.
TryAgain(h) ==
    IF tries[h] + 1 < MaxTries
    THEN /\ task' = [task EXCEPT ![h] = IF @ = "insert" THEN "check" ELSE @]
         /\ tries' = [tries EXCEPT ![h] = @ + 1]
    ELSE /\ task' = [task EXCEPT ![h] = "failed"]
         /\ UNCHANGED tries

Fail(h) ==
    /\ task[h] \in Stage
    /\ failures < MaxFailures
    /\ failures' = failures + 1
    /\ TryAgain(h)
    /\ UNCHANGED <<bucket, tables, stray, disturbed, lost, reruns>>

\* A load whose patterns match no object fails.
LoadNothing(h) ==
    /\ task[h] = "load"
    /\ Matching(h) = {}
    /\ TryAgain(h)
    /\ UNCHANGED <<bucket, tables, stray, disturbed, counters>>

\* The job goes on, or has ended, but the attempt counts as failed.
LoseContact(h) ==
    /\ task[h] \in Stage
    /\ lost < MaxLost
    /\ lost' = lost + 1
    /\ stray' = stray \cup {[hour |-> h, stage |-> task[h]]}
    /\ disturbed' = disturbed \cup {h}
    /\ TryAgain(h)
    /\ UNCHANGED <<bucket, tables, failures, reruns>>

StrayStep(job) ==
    /\ Run(job.stage, job.hour)
    /\ stray' = (stray \ {job}) \cup
                  (IF job.stage = "check" THEN {[job EXCEPT !.stage = "insert"]} ELSE {})
    /\ UNCHANGED <<bucket, task, tries, counters>>

\* The tasks of an hour are cleared, and Airflow runs them anew.
Rerun(h) ==
    /\ task[h] \in Settled
    /\ reruns < MaxReruns
    /\ reruns' = reruns + 1
    /\ task' = [task EXCEPT ![h] = "remove"]
    /\ tries' = [tries EXCEPT ![h] = 0]
    /\ UNCHANGED <<bucket, tables, stray, disturbed, failures, lost>>

Next ==
    \/ \E o \in ObjectName : Upload(o)
    \/ \E h \in Hour : \/ Succeed(h)
                       \/ Fail(h)
                       \/ LoadNothing(h)
                       \/ LoseContact(h)
                       \/ Rerun(h)
    \/ \E job \in stray : StrayStep(job)

Spec == Init /\ [][Next]_vars

\* Airflow schedules every task that is due.  Nothing is assumed of the
\* objects: they may come late or never.
FairSpec == Spec /\ \A h \in Hour : WF_vars(Succeed(h) \/ LoadNothing(h))

-----------------------------------------------------------------------------
(* Properties *)

\* Every variable has its type.
LoaderTypeOK ==
    /\ bucket \in [ObjectName -> SUBSET Row]
    /\ temp \in [Row -> Nat]
    /\ final \in [Row -> Nat]
    /\ task \in [Hour -> Stage \cup Settled]
    /\ tries \in [Hour -> 0 .. MaxTries - 1]
    /\ stray \subseteq [hour : Hour, stage : Stage]
    /\ loaded \in [Hour -> [Row -> Nat]]
    /\ copied \in [Hour -> [Row -> Nat]]
    /\ disturbed \subseteq Hour
    /\ failures \in Nat
    /\ lost \in Nat
    /\ reruns \in Nat

SameRows(table, other, h) == \A r \in RowsOf(h) : table[r] = other[r]

\* The final table has nothing of an hour or exactly what one load of it found
\* in the bucket: no retry, rerun or other hour adds a load on top, or half of
\* one.  (dag_hourly_aptos_etl_testnet.py:103 and 147 delete for this purpose.)
\* Excepted are hours of which an attempt lost contact or rows were displaced.
FinalIsOneLoad ==
    \A h \in Hour \ disturbed : SameRows(final, copied[h], h)

\* An hour that is done is in the final table, if its load found any row of it.
DoneIsCopied ==
    \A h \in Hour \ disturbed :
        task[h] = "done" /\ Has(loaded[h], h) => Has(final, h)

\* Once the final table has rows of an hour they stay as they are: objects that
\* come late are never added, not even by running the hour again (line 147).
\* The same hours are excepted.
CopiedHoursStay ==
    [][\A h \in Hour \ disturbed : Has(final, h) => SameRows(final', final, h)]_vars

\* Every hour's tasks end, done or failed, and stay so.
HoursSettle == \A h \in Hour : <>[](task[h] \in Settled)
=============================================================================
