--------------------------- MODULE QualityControl ---------------------------
(***************************************************************************)
(* daily_qc_airflow: what is done every night about the day before, once   *)
(* its rows were streamed into the tables.  daily_backfill_mainnet.py      *)
(* looks for versions missing from the transactions table and requests     *)
(* them again, daily_dedupe_mainnet.py (and its testnet copy) removes      *)
(* duplicate rows, row_counts.py compares the number of rows a table has   *)
(* of a transaction with the number the transaction states.                *)
(*                                                                         *)
(* The three DAGs are only kept apart by their times, half past midnight,  *)
(* two and three o'clock; late or repeated runs overlap, and rows arrive   *)
(* when they arrive.                                                       *)
(***************************************************************************)
EXTENDS Integers, FiniteSets, SequencesExt

CONSTANTS
    Version,        \* transaction versions, numbered without a gap
    Day,            \* the days, 0, 1, ...
    Stamp,          \* the time of each version's block, in half days
    BlockOf,        \* the block of each version
    Table,          \* the tables
    Expected,       \* the rows each table should have of each version
    SignatureKey,   \* signature, public key, signer and roles of signature rows
    MaxIrregular,   \* bound: rows the streaming loses, delays or repeats
    MaxFailures     \* bound: interrupted tasks and failed publications

ASSUME TableAssumption == "transactions" \in Table
ASSUME VersionAssumption ==
    /\ Version \subseteq Nat /\ IsFiniteSet(Version)
    /\ \A v, w \in Version : v .. w \subseteq Version
ASSUME DayAssumption == Day \subseteq Nat
ASSUME StampAssumption ==
    /\ Stamp \in [Version -> Nat]
    /\ \A v, w \in Version : (v < w) => (Stamp[v] <= Stamp[w])
ASSUME ExpectedAssumption ==
    /\ Expected \in [Table -> [Version -> Nat]]
    /\ \A v \in Version : Expected["transactions"][v] = 1
\* Nothing says that two signature rows of a transaction differ in those.
ASSUME SignatureKeyAssumption ==
    "signatures" \in Table =>
        /\ SignatureKey \in [Version -> Seq(STRING)]
        /\ \A v \in Version : Len(SignatureKey[v]) = Expected["signatures"][v]
\* A block has one row, about the block metadata it begins with.
ASSUME BlocksAssumption ==
    "blocks" \in Table =>
        \A v, w \in Version :
            /\ Expected["blocks"][v] <= 1
            /\ (/\ Expected["blocks"][v] = 1 /\ Expected["blocks"][w] = 1
                /\ BlockOf[v] = BlockOf[w]) => v = w
ASSUME BoundsAssumption ==
    MaxIrregular \in Nat /\ MaxFailures \in Nat

\* The tables whose rows are counted, and among them those with a number of rows
\* per transaction, such as events.
Counted == Table \ {"transactions"}
Child == Counted \ {"blocks"}

\* The rows the tables should have.
Row == UNION {{[table |-> t, version |-> v, index |-> i] : i \in 1 .. Expected[t][v]} :
              t \in Table, v \in Version}

VARIABLES
    copies,      \* how often each row is in its table
    requested,   \* rows on their way
    task,        \* the task each day's backfill is at, or how it ended
    tries,       \* failed attempts of that task
    seen,        \* the versions the backfill's query returned
    queue,      \* the ranges publish_range has still to publish
    merged,      \* how the deduplication of each day and table stands
    report,      \* what the row counts of each day and table say
    published,   \* history: the ranges published for each day
    swallowed,   \* history: days of which a publication failed
    late,        \* history: rows that came after their table was deduplicated
    failures

backfill == <<task, tries, seen, queue, published, swallowed>>
vars == <<copies, requested, backfill, merged, report, late, failures>>

\* WHERE block_timestamp BETWEEN midnight AND the next one, both included.
InWindow(d, v) == 2 * d <= Stamp[v] /\ Stamp[v] <= 2 * d + 2

RowsOf(d, t) == {r \in Row : r.table = t /\ InWindow(d, r.version)}
Present(rows) == {r \in rows : copies[r] > 0}
TransactionOf(v) == [table |-> "transactions", version |-> v, index |-> 1]
Stored(v) == copies[TransactionOf(v)] > 0

\* What the streaming left when the days were over.  A row may be missing: its
\* range was acknowledged without it, its batch was rejected, its message expired.
Streamed ==
    /\ copies \in [Row -> 0 .. 2]
    /\ requested \in SUBSET Row
    /\ Cardinality({r \in Row : copies[r] # 1} \cup requested) <= MaxIrregular

Init ==
    /\ Streamed
    /\ task = [d \in Day |-> "query"]
    /\ tries = [d \in Day |-> 0]
    /\ seen = [d \in Day |-> {}]
    /\ queue = [d \in Day |-> <<>>]
    /\ merged = [d \in Day |-> [t \in Table |-> "due"]]
    /\ report = [d \in Day |-> [c \in Counted |-> "due"]]
    /\ published = [d \in Day |-> {}]
    /\ swallowed = {}
    /\ late = {}
    /\ failures = 0

-----------------------------------------------------------------------------
(* Streaming: the extractors and the subscriptions that write to the tables *)

\* A row is inserted, late or once more; they come in no order.
Arrive(r) ==
    /\ r \in requested
    /\ copies' = [copies EXCEPT ![r] = @ + 1]
    /\ requested' = requested \ {r}
    /\ late' = late \cup {q \in {r} : \E d \in Day : /\ InWindow(d, r.version)
                                                  /\ merged[d][r.table] = "done"}
    /\ UNCHANGED <<backfill, merged, report, failures>>

-----------------------------------------------------------------------------
(* backfill_missing_transactions: one run at a time, the earliest day first *)

Ended == {"done", "failed"}

At(d, t) ==
    /\ task[d] = t
    /\ \A e \in Day : (e < d) => (task[e] \in Ended)

\* The task succeeds, and Airflow runs the next one.
ContinueAt(d, t) ==
    /\ task' = [task EXCEPT ![d] = t]
    /\ tries' = [tries EXCEPT ![d] = 0]

Missing(versions) == (Min(versions) .. Max(versions)) \ versions

\* Mutant: one version in between does not end a range.
ExtendLate(ranges, n) ==
    LET last == ranges[Len(ranges)]
    IN  IF n > last[2] + 2 THEN Append(ranges, <<n, n>>)
        ELSE [ranges EXCEPT ![Len(ranges)] = <<last[1], n>>]

\* Mutant: only the last range is kept.
ExtendLast(ranges, n) ==
    LET last == ranges[Len(ranges)]
    IN  IF n > last[2] + 1 THEN <<<<n, n>>>>
        ELSE [ranges EXCEPT ![Len(ranges)] = <<last[1], n>>]

\* publish_range_f's loop over the missing versions in ascending order: the last
\* range is the one it holds in cur_start and cur_end.
Extend(ranges, n) ==
    LET last == ranges[Len(ranges)]
    IN  IF n > last[2] + 1 THEN Append(ranges, <<n, n>>)
        ELSE [ranges EXCEPT ![Len(ranges)] = <<last[1], n>>]

Ranges(missing) ==
    IF missing = {} THEN <<>>
    ELSE LET first == Min(missing)
         IN  MapThenFoldSet(LAMBDA n, ranges : Extend(ranges, n), <<<<first, first>>>>,
                            LAMBDA n : n, Max, missing \ {first})

\* The attempt fails; retries is 1.
AttemptFails(d) ==
    IF tries[d] = 0
    THEN /\ tries' = [tries EXCEPT ![d] = 1]
         /\ queue' = [queue EXCEPT ![d] = IF task[d] = "publish"
                                           THEN Ranges(Missing(seen[d])) ELSE <<>>]
         /\ UNCHANGED task
    ELSE /\ task' = [task EXCEPT ![d] = "failed"]
         /\ UNCHANGED <<tries, queue>>

external == <<copies, merged, report, late>>

bigquery_all_versions(d) ==
    /\ At(d, "query")
    /\ seen' = [seen EXCEPT ![d] = {v \in Version : InWindow(d, v) /\ Stored(v)}]
    /\ ContinueAt(d, "array")
    /\ UNCHANGED <<requested, queue, published, swallowed, failures, external>>

\* all_versions[0] of an empty day is an IndexError; otherwise all integers
\* from the least to the greatest version are compared with the query's.
generate_integers_array(d) ==
    /\ At(d, "array")
    /\ IF seen[d] = {} THEN AttemptFails(d)
       ELSE ContinueAt(d, "check") /\ UNCHANGED queue
    /\ UNCHANGED <<requested, seen, published, swallowed, failures, external>>

check_missing_values(d) ==
    /\ At(d, "check")
    /\ ContinueAt(d, "publish")
    /\ queue' = [queue EXCEPT ![d] = Ranges(Missing(seen[d]))]
    /\ UNCHANGED <<requested, seen, published, swallowed, failures, external>>

\* The next range is published; every row of its versions is extracted again.
publish_range(d) ==
    /\ At(d, "publish")
    /\ IF queue[d] # <<>>
       THEN LET range == Head(queue[d]) IN
            /\ queue' = [queue EXCEPT ![d] = Tail(@)]
            /\ published' = [published EXCEPT ![d] = @ \cup {range}]
            /\ requested' = requested \cup {r \in Row : r.version \in range[1] .. range[2]}
            /\ UNCHANGED <<task, tries>>
       ELSE /\ ContinueAt(d, "done")
            /\ UNCHANGED <<requested, queue, published>>
    /\ UNCHANGED <<seen, swallowed, failures, external>>

\* hook.publish raises.  `finally: return` drops the exception, and the ranges
\* that were to follow with it.
PublishRaises(d) ==
    /\ At(d, "publish")
    /\ queue[d] # <<>>
    /\ failures < MaxFailures
    /\ failures' = failures + 1
    /\ ContinueAt(d, "done")
    /\ swallowed' = swallowed \cup {d}
    /\ UNCHANGED <<requested, seen, queue, published, external>>

\* The worker of a task dies, or the query fails.
Interrupt(d) ==
    /\ \E t \in {"query", "array", "check", "publish"} : At(d, t)
    /\ failures < MaxFailures
    /\ failures' = failures + 1
    /\ AttemptFails(d)
    /\ UNCHANGED <<requested, seen, published, swallowed, external>>

-----------------------------------------------------------------------------
(* daily_dedupe: one task for each table *)

\* Mutant: signatures are identified by their transaction alone.
KeyWithoutValues(r) ==
    CASE r.table \in {"transactions", "signatures"} -> <<r.version>>
      [] r.table = "blocks" -> <<BlockOf[r.version]>>
      [] r.table \in Child \ {"signatures"} -> <<r.index, r.version>>

\* SQL_MERGE_TABLE: rows with the same key are duplicates.
Key(r) ==
    CASE r.table = "transactions" -> <<r.version>>
      [] r.table = "blocks" -> <<BlockOf[r.version]>>
      [] r.table = "signatures" -> <<SignatureKey[r.version][r.index], r.version>>
      [] r.table \in Child \ {"signatures"} -> <<r.index, r.version>>

OnePerKey(kept, rows) ==
    /\ \A r \in rows : \E k \in kept : Key(k) = Key(r)
    /\ \A k, l \in kept : (Key(k) = Key(l)) => (k = l)

\* Mutant: the midnight at which the day begins is not in the merge's window.
MergeEvening(d, t) ==
    LET rows == Present({r \in RowsOf(d, t) : Stamp[r.version] > 2 * d}) IN
    /\ merged[d][t] = "due"
    /\ merged' = [merged EXCEPT ![d][t] = "done"]
    /\ \E kept \in SUBSET rows :
           /\ OnePerKey(kept, rows)
           /\ copies' = [r \in Row |-> IF r \notin rows THEN copies[r]
                                       ELSE IF r \in kept THEN 1 ELSE 0]
    /\ late' = late \ RowsOf(d, t)
    /\ UNCHANGED <<requested, backfill, report, failures>>

\* MERGE: in one transaction the rows of the window are deleted and one row of
\* each key inserted.  Where a row of the window is in the streaming buffer still
\* BigQuery refuses; a refused attempt changes nothing, nor does the task that
\* fails with its last one.
Merge(d, t) ==
    LET rows == Present(RowsOf(d, t)) IN
    /\ merged[d][t] = "due"
    /\ merged' = [merged EXCEPT ![d][t] = "done"]
    /\ \E kept \in SUBSET rows :
           /\ OnePerKey(kept, rows)
           /\ copies' = [r \in Row |-> IF r \notin rows THEN copies[r]
                                       ELSE IF r \in kept THEN 1 ELSE 0]
    /\ late' = late \ RowsOf(d, t)
    /\ UNCHANGED <<requested, backfill, report, failures>>

-----------------------------------------------------------------------------
(* check_row_counts *)

RowsAbout(c, v) == {r \in Row : r.table = c /\ r.version = v}
Copies(rows) == FoldSet(LAMBDA r, n : copies[r] + n, 0, rows)

\* The join has a row for each pair of a transaction's row and one of the child
\* table; the condition on the child's timestamp drops transactions without any.
Mismatched(d, c) ==
    {v \in Version : /\ InWindow(d, v) /\ Stored(v)
                     /\ Present(RowsAbout(c, v)) # {}
                     /\ Expected[c][v] #
                            copies[TransactionOf(v)] * Copies(RowsAbout(c, v))}

NoBlock == -1

\* blocks: the left join gives a transaction without a block a row of NULLs,
\* whose timestamp is between no two others.
MismatchedBlocks(d) ==
    LET blocks == {r.version : r \in Present({q \in Row : q.table = "blocks"})}
        joined == {j \in Version \X (blocks \cup {NoBlock}) :
                       /\ Stored(j[1])
                       /\ IF j[2] = NoBlock
                          THEN \A c \in blocks : BlockOf[c] # BlockOf[j[1]]
                          ELSE BlockOf[j[2]] = BlockOf[j[1]]}
    IN  {j \in joined : /\ InWindow(d, j[1])
                        /\ j[2] # NoBlock /\ InWindow(d, j[2])
                        /\ j[2] = NoBlock}

\* The query of one table, and check_mismatches_length, which looks at nothing but
\* the query's result and alerts.  The tables' queries run in any order.
CountRows(d, c) ==
    LET mismatches == IF c = "blocks" THEN MismatchedBlocks(d) ELSE Mismatched(d, c)
    IN  /\ report[d][c] = "due"
        /\ report' = [report EXCEPT ![d][c] = IF mismatches = {} THEN "clean" ELSE "alert"]
        /\ UNCHANGED <<copies, requested, backfill, merged, late, failures>>

-----------------------------------------------------------------------------

Backfill(d) ==
    \/ bigquery_all_versions(d)
    \/ generate_integers_array(d)
    \/ check_missing_values(d)
    \/ publish_range(d)

Next ==
    \/ \E r \in Row : Arrive(r)
    \/ \E d \in Day : Backfill(d) \/ PublishRaises(d) \/ Interrupt(d)
    \/ \E d \in Day, t \in Table : Merge(d, t)
    \/ \E d \in Day, c \in Counted : CountRows(d, c)

Spec == Init /\ [][Next]_vars

\* Airflow schedules the tasks that are due, and a row on its way arrives.
FairSpec ==
    /\ Spec
    /\ \A d \in Day : WF_vars(Backfill(d))
    /\ WF_vars(\E r \in Row : Arrive(r))

-----------------------------------------------------------------------------
(* Properties *)

\* The maximal intervals of versions between two that were seen.
Gaps(versions) ==
    {g \in Version \X Version : /\ g[1] <= g[2]
                                /\ (g[1] .. g[2]) \cap versions = {}
                                /\ {g[1] - 1, g[2] + 1} \subseteq versions}

\* However often the task is interrupted, a backfill requests gaps of what its
\* query saw and nothing else, and all of them if it ended without a failure
\* (daily_backfill_mainnet.py:109-120, the loop over the missing versions).
BackfillRequestsTheGaps ==
    \A d \in Day : /\ published[d] \subseteq Gaps(seen[d])
                   /\ (task[d] = "done" /\ d \notin swallowed) =>
                          (published[d] = Gaps(seen[d]))

\* The versions between two that the query saw and it did not see itself.
Between(versions) == {v \in Version \ versions : \E a, b \in versions : a < v /\ v < b}

\* In the end every version that was missing between two others is in the
\* table, unless the backfill failed: what is requested again arrives, and no
\* version is left out of the ranges (daily_backfill_mainnet.py:67-128).
GapsClose ==
    <>[](\A d \in Day : task[d] \in Ended
             /\ (task[d] = "failed" \/ d \in swallowed \/ \A v \in Between(seen[d]) : Stored(v)))

\* The other signature rows of the transaction that agree with r in all that
\* daily_dedupe_mainnet.py:41 looks at.
Twins(r) ==
    {q \in Row : /\ {q.table, r.table} = {"signatures"}
                 /\ q.version = r.version /\ q # r
                 /\ SignatureKey[q.version][q.index] = SignatureKey[r.version][r.index]}

\* Whatever is deduplicated when, a row disappears altogether only if it is a
\* signature's and a twin of it stays: otherwise the keys of SQL_MERGE_TABLE tell
\* different rows of a table apart (daily_dedupe_mainnet.py:33-42 and 72-88).
NoRowDisappears ==
    [][\A r \in Row : (copies[r] > 0) =>
           (copies'[r] > 0 \/ \E q \in Twins(r) : copies'[q] > 0)]_vars

\* If the row counts find nothing in a child table on a day of which that table
\* and the transactions were deduplicated before, and nothing came later, then
\* every transaction that has rows there has all of them: a signature lost to its
\* twin is not overlooked, and without the deduplication two copies of a
\* transaction make up for half of its rows (row_counts.py:93-104).
CleanDayIsComplete ==
    [][\A d \in Day, c \in Child :
           (/\ report[d][c] = "due" /\ report'[d][c] = "clean"
            /\ \A t \in {"transactions", c} :
                   merged[d][t] = "done" /\ RowsOf(d, t) \cap late = {}) =>
           \A v \in Version :
               (InWindow(d, v) /\ Stored(v) /\ Present(RowsAbout(c, v)) # {}) =>
                   (Present(RowsAbout(c, v)) = RowsAbout(c, v))]_vars

\* row_counts.py:71-72: "blocks is a special case, it compares the unique
\* block_height values in blocks table and transactions table.  a mismatch is
\* considered a block_height value that is present in one table but not the
\* other".  Once nothing is on its way, a
\* day with a transaction of which the block is missing is reported.
MissingBlocksAreReported ==
    [][\A d \in Day :
           (/\ report[d]["blocks"] = "due" /\ report'[d]["blocks"] # "due"
            /\ requested = {}
            /\ \E v \in Version :
                   /\ InWindow(d, v) /\ Stored(v)
                   /\ \A r \in Present({q \in Row : q.table = "blocks"}) :
                          BlockOf[r.version] # BlockOf[v]) =>
           (report'[d]["blocks"] = "alert")]_vars
=============================================================================
