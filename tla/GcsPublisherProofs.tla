------------------------ MODULE GcsPublisherProofs ------------------------
(***************************************************************************)
(* Proofs about GcsPublisher, for all batches and any number of attempts,  *)
(* failures and crashes: types, that a directory never gets a second       *)
(* object, that objects whose last writer had no failed part are whole,    *)
(* and that every directory has its object once an attempt has returned.   *)
(***************************************************************************)
EXTENDS GcsPublisher, SequenceTheorems, TLAPS

\* A new directory begins behind the first p records.
Starts(p) == p = 0 \/ batch[p] < batch[p + 1]

\* f is where the directory of record p begins.
BeginsAt(p, f) ==
    /\ f \in 0 .. p - 1
    /\ Starts(f)
    /\ batch[f + 1] = batch[p]

\* What the object of the directory behind the first p records is named after:
\* p, but if the directory is the last record alone, it is the start of the
\* directory before, because no scan of a record has set file_name again.
NamedAfter(p, f) ==
    IF p > 0 /\ p + 1 = Len(batch) THEN BeginsAt(p, f) ELSE f = p

Named(o) ==
    \E p \in 0 .. Len(batch) - 1 :
        Starts(p) /\ batch[p + 1] = o.dir /\ NamedAfter(p, o.file)

\* The first n records have an object of their directory each.
StoredUpTo(n) ==
    \A r \in 1 .. n : \E o \in DOMAIN bucket : o.dir = batch[r]

\* The records after prev up to i are the beginning of a directory.
Slice(a) ==
    /\ local[a].prev < local[a].i
    /\ local[a].dir = batch[local[a].i]
    /\ \A r \in local[a].prev + 1 .. local[a].i : batch[r] = local[a].dir
    /\ Starts(local[a].prev)

FileInv(a) ==
    IF local[a].prev > 0 /\ local[a].i = local[a].prev + 1
    THEN BeginsAt(local[a].prev, local[a].file)
    ELSE local[a].file = local[a].prev

\* Without a failed part, record_strings holds the records after prev.
LeftInv(a) ==
    local[a].clean =>
        /\ Len(local[a].left) = Len(batch) - local[a].prev
        /\ \A k \in 1 .. Len(local[a].left) : local[a].left[k] = local[a].prev + k

AtEntry(a) ==
    /\ local[a].i = 0
    /\ local[a].prev = 0
    /\ local[a].file = 0
    /\ local[a].dir = NoDirectory

AttemptInv(a) ==
    /\ pc[a] = "idle" => local[a] = Fresh
    /\ pc[a] \in {"scan", "part", "rest"} =>
           LeftInv(a) /\ StoredUpTo(local[a].prev)
    /\ pc[a] = "scan" => Len(batch) > 0 /\ (AtEntry(a) \/ (Slice(a) /\ FileInv(a)))
    /\ pc[a] = "part" => /\ Slice(a)
                         /\ local[a].file = local[a].prev
                         /\ local[a].i < Len(batch)
                         /\ batch[local[a].i + 1] # local[a].dir
    /\ pc[a] = "rest" => Slice(a) /\ FileInv(a) /\ local[a].i = Len(batch)

BucketInv ==
    /\ \A o \in DOMAIN bucket : Named(o)
    /\ ObjectsAreWhole
    /\ finished => StoredUpTo(Len(batch))

IInv == TypeOK /\ BucketInv /\ \A a \in Attempt : AttemptInv(a)

-----------------------------------------------------------------------------
(* The batch *)

LEMMA BatchType ==
    ASSUME TypeOK
    PROVE  /\ batch \in Seq(Nat)
           /\ Len(batch) \in Nat
           /\ Positions = 1 .. Len(batch)
           /\ \A r \in 1 .. Len(batch) : batch[r] \in Nat
           /\ \A q, r \in 1 .. Len(batch) : (q <= r) => (batch[q] <= batch[r])
<1>1. batch \in Seq(Nat)
  BY BatchesAssumption DEF TypeOK
<1>2. Len(batch) \in Nat /\ DOMAIN batch = 1 .. Len(batch)
  BY <1>1
<1>. QED
  BY <1>1, <1>2, BatchesAssumption, SMTT(20) DEF TypeOK, Positions

\* A directory begins in one place.
LEMMA StartIsUnique ==
    ASSUME TypeOK,
           NEW p \in 0 .. Len(batch) - 1, NEW q \in 0 .. Len(batch) - 1,
           Starts(p), Starts(q), batch[p + 1] = batch[q + 1]
    PROVE  p = q
<1>0. /\ Len(batch) \in Nat
      /\ \A m \in 1 .. Len(batch) : batch[m] \in Nat
      /\ \A m, n \in 1 .. Len(batch) : (m <= n) => (batch[m] <= batch[n])
  BY BatchType
<1>1. ASSUME NEW m \in 0 .. Len(batch) - 1, NEW n \in 0 .. Len(batch) - 1,
             m < n, Starts(n), batch[m + 1] = batch[n + 1]
      PROVE  FALSE
  <2>1. n \in 1 .. Len(batch) /\ m + 1 \in 1 .. Len(batch) /\ m + 1 <= n
    BY <1>0, <1>1
  <2>2. batch[n] < batch[n + 1]
    BY <1>1, <2>1 DEF Starts
  <2>3. batch[m + 1] <= batch[n]
    BY <1>0, <2>1
  <2>4. batch[m + 1] \in Nat /\ batch[n] \in Nat /\ batch[n + 1] \in Nat
    BY <1>0, <1>1, <2>1
  <2>. QED
    BY <1>1, <2>2, <2>3, <2>4
<1>. QED
  BY <1>0, <1>1

LEMMA NameIsUnique ==
    ASSUME TypeOK, NEW o \in DOMAIN bucket, NEW p \in DOMAIN bucket,
           Named(o), Named(p), o.dir = p.dir
    PROVE  o = p
<1>0. Len(batch) \in Nat
  BY BatchType
<1>1. PICK m \in 0 .. Len(batch) - 1 :
          Starts(m) /\ batch[m + 1] = o.dir /\ NamedAfter(m, o.file)
  BY DEF Named
<1>2. PICK n \in 0 .. Len(batch) - 1 :
          Starts(n) /\ batch[n + 1] = p.dir /\ NamedAfter(n, p.file)
  BY DEF Named
<1>3. m = n
  BY <1>1, <1>2, StartIsUnique
<1>4. o.file = p.file
  <2>1. CASE m > 0 /\ m + 1 = Len(batch)
    <3>1. BeginsAt(m, o.file) /\ BeginsAt(m, p.file)
      BY <1>1, <1>2, <1>3, <2>1 DEF NamedAfter
    <3>2. o.file \in 0 .. Len(batch) - 1 /\ p.file \in 0 .. Len(batch) - 1
      BY <3>1, <1>0 DEF BeginsAt
    <3>. QED
      BY <3>1, <3>2, StartIsUnique DEF BeginsAt
  <2>2. CASE ~(m > 0 /\ m + 1 = Len(batch))
    BY <1>1, <1>2, <1>3, <2>2 DEF NamedAfter
  <2>. QED
    BY <2>1, <2>2
<1>5. o \in [dir : Nat, file : Nat] /\ p \in [dir : Nat, file : Nat]
  BY DEF TypeOK
<1>. QED
  BY <1>4, <1>5

\* The records of a slice that ends where its directory does.
LEMMA SliceIsDirectory ==
    ASSUME TypeOK, NEW a \in Attempt, Slice(a),
           \/ local[a].i = Len(batch)
           \/ local[a].i < Len(batch) /\ batch[local[a].i + 1] # local[a].dir
    PROVE  RecordsOf(local[a].dir) = local[a].prev + 1 .. local[a].i
<1>. DEFINE i == local[a].i
            prev == local[a].prev
            dir == local[a].dir
<1>0. /\ Len(batch) \in Nat
      /\ Positions = 1 .. Len(batch)
      /\ \A m \in 1 .. Len(batch) : batch[m] \in Nat
      /\ \A m, n \in 1 .. Len(batch) : (m <= n) => (batch[m] <= batch[n])
  BY BatchType
<1>1. i \in 0 .. Len(batch) /\ prev \in 0 .. Len(batch) /\ prev < i
  BY DEF TypeOK, Locals, Slice
<1>2. ASSUME NEW r \in 1 .. Len(batch), batch[r] = dir
      PROVE  r \in prev + 1 .. i
  <2>1. batch[prev + 1] = dir /\ batch[i] = dir
    BY <1>0, <1>1 DEF Slice
  <2>2. prev > 0 => batch[prev] < dir
    BY <2>1, <1>1 DEF Slice, Starts
  <2>3. r > prev
    <3>1. SUFFICES ASSUME r <= prev PROVE FALSE
      BY <1>0, <1>1
    <3>2. batch[r] <= batch[prev] /\ batch[prev] < dir /\ batch[prev] \in Nat
      BY <1>0, <1>1, <2>2, <3>1
    <3>. QED
      BY <1>2, <3>2, <1>0
  <2>4. r <= i
    <3>1. SUFFICES ASSUME r > i PROVE FALSE
      BY <1>0, <1>1
    <3>2. i + 1 \in 1 .. Len(batch) /\ batch[i + 1] # dir
      BY <1>0, <1>1, <3>1
    <3>3. batch[i] <= batch[i + 1] /\ batch[i + 1] <= batch[r]
      BY <1>0, <1>1, <3>1, <3>2
    <3>4. batch[i] \in Nat /\ batch[i + 1] \in Nat /\ batch[r] \in Nat
      BY <1>0, <1>1, <3>2
    <3>. QED
      BY <1>2, <2>1, <3>2, <3>3, <3>4
  <2>. QED
    BY <1>0, <1>1, <2>3, <2>4
<1>3. \A r \in prev + 1 .. i : r \in 1 .. Len(batch) /\ batch[r] = dir
  BY <1>0, <1>1 DEF Slice
<1>. QED
  BY <1>0, <1>2, <1>3 DEF RecordsOf

-----------------------------------------------------------------------------
(* What steps keep *)

\* An attempt that does not move keeps its invariant while objects are added.
LEMMA OthersKeep ==
    ASSUME NEW b, AttemptInv(b), batch' = batch,
           pc'[b] = pc[b], local'[b] = local[b],
           DOMAIN bucket \subseteq DOMAIN bucket'
    PROVE  AttemptInv(b)'
<1>1. \A n : StoredUpTo(n) => StoredUpTo(n)'
  BY DEF StoredUpTo
<1>2. StoredUpTo(local[b].prev) => StoredUpTo(local[b].prev)'
  BY <1>1 DEF StoredUpTo
<1>. QED
  BY <1>2 DEF AttemptInv, Fresh, LeftInv, AtEntry, Slice, FileInv, Starts,
              BeginsAt, StoredUpTo

LEMMA MoveKeeps ==
    ASSUME IInv, NEW a \in Attempt, batch' = batch,
           \A b \in Attempt \ {a} : pc'[b] = pc[b] /\ local'[b] = local[b],
           DOMAIN bucket \subseteq DOMAIN bucket',
           TypeOK', BucketInv', AttemptInv(a)'
    PROVE  IInv'
<1>1. ASSUME NEW b \in Attempt PROVE AttemptInv(b)'
  <2>1. CASE b = a
    BY <2>1
  <2>2. CASE b # a
    BY <2>2, OthersKeep DEF IInv
  <2>. QED
    BY <2>1, <2>2
<1>. QED
  BY <1>1 DEF IInv

LEMMA SameObjects ==
    ASSUME UNCHANGED <<batch, bucket, wrong>>,
           \A o \in DOMAIN bucket : Named(o), ObjectsAreWhole
    PROVE  (\A o \in DOMAIN bucket' : Named(o)') /\ ObjectsAreWhole'
<1>1. \A o : Named(o) => Named(o)'
  BY DEF Named, Starts, NamedAfter, BeginsAt
<1>2. \A o : IsWhole(o) => IsWhole(o)'
  BY DEF IsWhole, Contents, RecordsOf, Positions
<1>. QED
  BY <1>1, <1>2 DEF ObjectsAreWhole

LEMMA SameBucket ==
    ASSUME BucketInv, UNCHANGED <<batch, bucket, wrong, finished>>
    PROVE  BucketInv'
<1>1. StoredUpTo(Len(batch)) => StoredUpTo(Len(batch))'
  BY DEF StoredUpTo
<1>. QED
  BY <1>1, SameObjects DEF BucketInv

\* A stored object is the only one of its directory, and whole if its writer
\* had no failed part.
LEMMA StoreKeeps ==
    ASSUME IInv, NEW a \in Attempt, NEW o \in [dir : Nat, file : Nat],
           NEW records \in Seq(Positions), Named(o), Store(a, o, records),
           UNCHANGED batch,
           local[a].clean =>
               {records[k] : k \in DOMAIN records} = RecordsOf(o.dir)
    PROVE  /\ DOMAIN bucket' = DOMAIN bucket \cup {o}
           /\ DOMAIN bucket' \subseteq [dir : Nat, file : Nat]
           /\ \A n \in DOMAIN bucket' : bucket'[n] \in Seq(Positions)
           /\ wrong' \subseteq DOMAIN bucket'
           /\ \A n \in DOMAIN bucket' : Named(n)'
           /\ ObjectsAreWhole'
<1>1. /\ DOMAIN bucket' = DOMAIN bucket \cup {o}
      /\ \A n \in DOMAIN bucket' :
             bucket'[n] = IF n = o THEN records ELSE bucket[n]
      /\ wrong' = IF local[a].clean THEN wrong \ {o} ELSE wrong \cup {o}
  BY DEF Store
<1>2. /\ DOMAIN bucket \subseteq [dir : Nat, file : Nat]
      /\ \A n \in DOMAIN bucket : bucket[n] \in Seq(Positions)
      /\ wrong \subseteq DOMAIN bucket
  BY DEF IInv, TypeOK, Locals
<1>3. \A n \in DOMAIN bucket' : Named(n)'
  <2>1. \A n : Named(n) => Named(n)'
    BY DEF Named, Starts, NamedAfter, BeginsAt
  <2>. QED
    BY <1>1, <2>1 DEF IInv, BucketInv
<1>4. ObjectsAreWhole'
  <2>1. SUFFICES ASSUME NEW n \in DOMAIN bucket', n \notin wrong'
                 PROVE  Contents(n)' = RecordsOf(n.dir)'
    BY DEF ObjectsAreWhole, IsWhole
  <2>2. RecordsOf(n.dir)' = RecordsOf(n.dir)
    BY DEF RecordsOf, Positions
  <2>3. CASE n = o
    <3>1. local[a].clean /\ bucket'[n] = records
      BY <1>1, <2>1, <2>3
    <3>2. Contents(n)' = {records[k] : k \in DOMAIN records}
      BY <3>1 DEF Contents
    <3>. QED
      BY <2>2, <2>3, <3>1, <3>2
  <2>4. CASE n # o
    <3>1. n \in DOMAIN bucket \ wrong /\ bucket'[n] = bucket[n]
      BY <1>1, <2>1, <2>4
    <3>2. Contents(n) = RecordsOf(n.dir)
      BY <3>1 DEF IInv, BucketInv, ObjectsAreWhole, IsWhole
    <3>3. Contents(n)' = Contents(n)
      BY <3>1 DEF Contents
    <3>. QED
      BY <2>2, <3>2, <3>3
  <2>. QED
    BY <2>3, <2>4
<1>. QED
  BY <1>1, <1>2, <1>3, <1>4

\* The same for an upload that fails.
LEMMA StoreMaybeKeeps ==
    ASSUME IInv, NEW a \in Attempt, NEW o \in [dir : Nat, file : Nat],
           NEW records \in Seq(Positions), Named(o), StoreMaybe(a, o, records),
           UNCHANGED batch,
           local[a].clean =>
               {records[k] : k \in DOMAIN records} = RecordsOf(o.dir)
    PROVE  /\ DOMAIN bucket \subseteq DOMAIN bucket'
           /\ DOMAIN bucket' \subseteq [dir : Nat, file : Nat]
           /\ \A n \in DOMAIN bucket' : bucket'[n] \in Seq(Positions)
           /\ wrong' \subseteq DOMAIN bucket'
           /\ \A n \in DOMAIN bucket' : Named(n)'
           /\ ObjectsAreWhole'
<1>1. CASE Store(a, o, records)
  BY <1>1, StoreKeeps
<1>2. CASE UNCHANGED <<bucket, wrong>>
  BY <1>2, SameObjects DEF IInv, TypeOK, BucketInv
<1>. QED
  BY <1>1, <1>2 DEF StoreMaybe

-----------------------------------------------------------------------------
(* The steps *)

LEMMA FreshType ==
    ASSUME TypeOK
    PROVE  Fresh \in Locals
<1>1. Len(batch) \in Nat /\ Positions = 1 .. Len(batch) /\ DOMAIN batch = Positions
  BY BatchType DEF Positions
<1>2. [r \in DOMAIN batch |-> r] \in Seq(Positions)
  BY <1>1
<1>. QED
  BY <1>1, <1>2 DEF Fresh, Locals

LEMMA FreshInv ==
    ASSUME TypeOK, NEW a \in Attempt, local[a] = Fresh
    PROVE  AtEntry(a) /\ LeftInv(a) /\ StoredUpTo(local[a].prev)
<1>1. Len(batch) \in Nat /\ DOMAIN batch = 1 .. Len(batch)
  BY BatchType DEF Positions
<1>2. Len(Fresh.left) = Len(batch) /\ \A k \in 1 .. Len(batch) : Fresh.left[k] = k
  BY <1>1 DEF Fresh
<1>. QED
  BY <1>1, <1>2 DEF Fresh, AtEntry, LeftInv, StoredUpTo

LEMMA InitIInv == Init => IInv
<1>. SUFFICES ASSUME Init PROVE IInv
  OBVIOUS
<1>1. TypeOK
  <2>1. Len(batch) \in Nat /\ Positions = 1 .. Len(batch) /\ DOMAIN batch = Positions
    BY BatchesAssumption DEF Init, Positions
  <2>2. [r \in DOMAIN batch |-> r] \in Seq(Positions)
    BY <2>1
  <2>3. DOMAIN bucket = {}
    BY DEF Init
  <2>4. Fresh \in Locals
    BY <2>1, <2>2 DEF Fresh, Locals
  <2>. QED
    BY <2>3, <2>4 DEF Init, TypeOK
<1>2. BucketInv
  <2>1. DOMAIN bucket = {} /\ ~ finished
    BY DEF Init
  <2>. QED
    BY <2>1 DEF BucketInv, ObjectsAreWhole
<1>. QED
  BY <1>1, <1>2 DEF Init, IInv, AttemptInv

LEMMA BeginStep ==
    ASSUME IInv, NEW a \in Attempt, Begin(a)
    PROVE  IInv'
<1>0. /\ pc[a] = "idle" /\ local[a] = Fresh
      /\ UNCHANGED <<batch, bucket, wrong, local, counters>>
  BY DEF Begin, IInv, AttemptInv
<1>1. \A b \in Attempt \ {a} : pc'[b] = pc[b] /\ local'[b] = local[b]
  BY DEF Begin, Goto, IInv, TypeOK
<1>2. TypeOK'
  BY DEF Begin, Goto, IInv, TypeOK, Locals, Positions, counters
<1>3. CASE batch = << >>
  <2>1. pc'[a] = "done" /\ Len(batch) = 0
    BY <1>3 DEF Begin, Goto, IInv, TypeOK
  <2>2. BucketInv'
    BY <1>0, <2>1, SameObjects DEF IInv, BucketInv, StoredUpTo
  <2>3. AttemptInv(a)'
    BY <2>1 DEF AttemptInv
  <2>. QED
    BY <1>0, <1>1, <1>2, <2>2, <2>3, MoveKeeps
<1>4. CASE batch # << >>
  <2>1. pc'[a] = "scan" /\ finished' = finished
    BY <1>4 DEF Begin, Goto, IInv, TypeOK
  <2>2. BucketInv'
    BY <1>0, <2>1, SameBucket DEF IInv
  <2>3. Len(batch) > 0
    BY <1>4, BatchType, EmptySeq DEF IInv
  <2>4. AtEntry(a) /\ LeftInv(a) /\ StoredUpTo(local[a].prev)
    BY <1>0, FreshInv DEF IInv
  <2>5. AttemptInv(a)'
    BY <1>0, <2>1, <2>3, <2>4 DEF AttemptInv, AtEntry, LeftInv, StoredUpTo
  <2>. QED
    BY <1>0, <1>1, <1>2, <2>2, <2>5, MoveKeeps
<1>. QED
  BY <1>3, <1>4

LEMMA SameDirectoryStep ==
    ASSUME IInv, NEW a \in Attempt, SameDirectory(a)
    PROVE  IInv'
<1>0. /\ pc[a] = "scan" /\ local[a].i < Len(batch)
      /\ local[a].dir \in {NoDirectory, batch[local[a].i + 1]}
      /\ UNCHANGED <<batch, bucket, wrong, finished, pc, counters>>
  BY DEF SameDirectory, Directory
<1>1. /\ local'[a] = [local[a] EXCEPT !.file = local[a].prev,
                                      !.dir = batch[local[a].i + 1],
                                      !.i = @ + 1]
      /\ \A b \in Attempt \ {a} : local'[b] = local[b]
      /\ DOMAIN local' = Attempt
      /\ local' = [local EXCEPT ![a] = local'[a]]
  BY DEF SameDirectory, Directory, IInv, TypeOK
<1>2. /\ local'[a].file = local[a].prev
      /\ local'[a].dir = batch[local[a].i + 1]
      /\ local'[a].i = local[a].i + 1
      /\ local'[a].prev = local[a].prev
      /\ local'[a].left = local[a].left
      /\ local'[a].clean = local[a].clean
  BY <1>1 DEF IInv, TypeOK, Locals
<1>3. /\ batch \in Seq(Nat) /\ Len(batch) \in Nat
      /\ local[a].i \in 0 .. Len(batch) /\ local[a].prev \in 0 .. Len(batch)
      /\ batch[local[a].i + 1] \in Nat
  BY <1>0, BatchType DEF IInv, TypeOK, Locals
<1>4. TypeOK'
  <2>1. local'[a] \in Locals
    <3>1. /\ local[a].i + 1 \in 0 .. Len(batch)
          /\ batch[local[a].i + 1] \in Nat \cup {NoDirectory}
      BY <1>0, <1>3
    <3>2. local[a] \in Locals
      BY DEF IInv, TypeOK, Locals
    <3>. QED
      BY <1>1, <1>3, <3>1, <3>2 DEF Locals
  <2>. QED
    BY <1>0, <1>1, <2>1 DEF IInv, TypeOK, Locals, Positions, counters
<1>5. BucketInv'
  BY <1>0, SameBucket DEF IInv
<1>6. AtEntry(a) \/ Slice(a)
  BY <1>0 DEF IInv, AttemptInv
<1>7. Slice(a)'
  <2>1. CASE AtEntry(a)
    BY <1>0, <1>2, <1>3, <2>1 DEF AtEntry, Slice, Starts
  <2>2. CASE Slice(a)
    <3>1. local[a].dir = batch[local[a].i + 1]
      <4>1. local[a].i \in 1 .. Len(batch) /\ local[a].dir = batch[local[a].i]
        BY <1>3, <2>2 DEF Slice
      <4>2. local[a].dir \in Nat
        BY <1>3, <4>1
      <4>. QED
        BY <1>0, <4>2, NoDirectoryAssumption
    <3>. QED
      BY <1>0, <1>2, <1>3, <2>2, <3>1, SMTT(20) DEF Slice, Starts
  <2>. QED
    BY <1>6, <2>1, <2>2
<1>8. FileInv(a)'
  <2>1. local[a].i = 0 \/ local[a].i > local[a].prev
    BY <1>6 DEF AtEntry, Slice
  <2>2. local[a].i = 0 => local[a].prev = 0
    BY <1>3, <1>6 DEF AtEntry, Slice
  <2>. QED
    BY <1>2, <1>3, <2>1, <2>2 DEF FileInv
<1>9. AttemptInv(a)'
  BY <1>0, <1>2, <1>7, <1>8 DEF IInv, AttemptInv, LeftInv, StoredUpTo
<1>. QED
  BY <1>0, <1>1, <1>4, <1>5, <1>9, MoveKeeps

LEMMA NewDirectoryStep ==
    ASSUME IInv, NEW a \in Attempt, NewDirectory(a)
    PROVE  IInv'
<1>0. /\ pc[a] = "scan" /\ local[a].i < Len(batch)
      /\ local[a].dir \notin {NoDirectory, batch[local[a].i + 1]}
      /\ UNCHANGED <<batch, bucket, wrong, finished, counters>>
  BY DEF NewDirectory, Directory
<1>1. /\ local'[a] = [local[a] EXCEPT !.file = local[a].prev]
      /\ pc'[a] = "part"
      /\ \A b \in Attempt \ {a} : local'[b] = local[b] /\ pc'[b] = pc[b]
      /\ local' = [local EXCEPT ![a] = local'[a]]
      /\ pc' = [pc EXCEPT ![a] = "part"]
  BY DEF NewDirectory, Goto, IInv, TypeOK
<1>2. /\ local'[a].file = local[a].prev
      /\ local'[a].dir = local[a].dir
      /\ local'[a].i = local[a].i
      /\ local'[a].prev = local[a].prev
      /\ local'[a].left = local[a].left
      /\ local'[a].clean = local[a].clean
  BY <1>1 DEF IInv, TypeOK, Locals
<1>3. TypeOK'
  <2>1. local'[a] \in Locals
    BY <1>1 DEF IInv, TypeOK, Locals
  <2>. QED
    BY <1>0, <1>1, <2>1 DEF IInv, TypeOK, Locals, Positions, counters
<1>4. BucketInv'
  BY <1>0, SameBucket DEF IInv
<1>5. Slice(a)
  BY <1>0 DEF IInv, AttemptInv, AtEntry
<1>6. AttemptInv(a)'
  BY <1>0, <1>1, <1>2, <1>5
     DEF IInv, AttemptInv, LeftInv, StoredUpTo, Slice, Starts
<1>. QED
  BY <1>0, <1>1, <1>3, <1>4, <1>6, MoveKeeps

LEMMA AllScannedStep ==
    ASSUME IInv, NEW a \in Attempt, AllScanned(a)
    PROVE  IInv'
<1>0. /\ pc[a] = "scan" /\ local[a].i = Len(batch)
      /\ UNCHANGED <<batch, bucket, wrong, finished, local, counters>>
  BY DEF AllScanned
<1>1. /\ pc'[a] = "rest"
      /\ \A b \in Attempt \ {a} : pc'[b] = pc[b]
      /\ pc' = [pc EXCEPT ![a] = "rest"]
  BY DEF AllScanned, Goto, IInv, TypeOK
<1>2. TypeOK'
  BY <1>0, <1>1 DEF IInv, TypeOK, Locals, Positions, counters
<1>3. BucketInv'
  BY <1>0, SameBucket DEF IInv
<1>4. Slice(a) /\ FileInv(a)
  BY <1>0 DEF IInv, AttemptInv, AtEntry
<1>5. AttemptInv(a)'
  BY <1>0, <1>1, <1>4 DEF IInv, AttemptInv, LeftInv, StoredUpTo, Slice, FileInv,
                          Starts, BeginsAt
<1>. QED
  BY <1>0, <1>1, <1>2, <1>3, <1>5, MoveKeeps

\* The types of an attempt's locals and the range of its slice.
LEMMA SliceType ==
    ASSUME TypeOK, NEW a \in Attempt, Slice(a)
    PROVE  /\ local[a].i \in 1 .. Len(batch)
           /\ local[a].prev \in 0 .. local[a].i - 1
           /\ local[a].left \in Seq(Positions)
           /\ local[a].file \in Nat
           /\ local[a].dir \in Nat
           /\ local[a].dir = batch[local[a].prev + 1]
<1>1. /\ batch \in Seq(Nat) /\ Len(batch) \in Nat
      /\ local[a].i \in 0 .. Len(batch) /\ local[a].prev \in 0 .. Len(batch)
      /\ local[a].file \in 0 .. Len(batch) /\ local[a].left \in Seq(Positions)
  BY BatchType DEF TypeOK, Locals
<1>2. local[a].i \in 1 .. Len(batch) /\ local[a].prev \in 0 .. local[a].i - 1
  BY <1>1 DEF Slice
<1>3. batch[local[a].i] \in Nat
  BY <1>1, <1>2
<1>4. local[a].prev + 1 \in local[a].prev + 1 .. local[a].i
  BY <1>1, <1>2
<1>5. local[a].dir \in Nat /\ local[a].dir = batch[local[a].prev + 1]
  BY <1>3, <1>4 DEF Slice
<1>. QED
  BY <1>1, <1>2, <1>5

\* What is drained is the directory, and its object is named as any attempt
\* would name it.
LEMMA PartFacts ==
    ASSUME IInv, NEW a \in Attempt, pc[a] = "part",
           Drained(a) <= Len(local[a].left)
    PROVE  /\ PartObject(a) \in [dir : Nat, file : Nat]
           /\ Named(PartObject(a))
           /\ Part(a) \in Seq(Positions)
           /\ Drain(a) \in Seq(Positions)
           /\ Len(Drain(a)) = Len(local[a].left) - Drained(a)
           /\ \A k \in 1 .. Len(Drain(a)) :
                  Drain(a)[k] = local[a].left[Drained(a) + k]
           /\ local[a].clean =>
                  {Part(a)[k] : k \in DOMAIN Part(a)} = RecordsOf(PartObject(a).dir)
<1>0. /\ Slice(a) /\ LeftInv(a) /\ local[a].file = local[a].prev
      /\ local[a].i < Len(batch) /\ batch[local[a].i + 1] # local[a].dir
  BY DEF IInv, AttemptInv
<1>1. /\ local[a].i \in 1 .. Len(batch) /\ Len(batch) \in Nat
      /\ local[a].prev \in 0 .. local[a].i - 1
      /\ local[a].left \in Seq(Positions)
      /\ local[a].dir \in Nat /\ local[a].dir = batch[local[a].prev + 1]
  BY <1>0, SliceType, BatchType DEF IInv
<1>. DEFINE D == Drained(a)
            left == local[a].left
<1>2. D \in 1 .. Len(left) /\ Len(left) \in Nat /\ D = local[a].i - local[a].prev
  BY <1>1, SMTT(20) DEF Drained
<1>3. \A k \in 1 .. Len(left) : left[k] \in Positions
  BY <1>1
<1>4. /\ Part(a) \in Seq(Positions)
      /\ Len(Part(a)) = D
      /\ \A k \in 1 .. D : Part(a)[k] = left[k]
  <2>1. \A k \in 1 .. D : left[k] \in Positions
    BY <1>2, <1>3
  <2>. QED
    BY <1>2, <2>1, SubSeqProperties DEF Part
<1>5. /\ Drain(a) \in Seq(Positions)
      /\ Len(Drain(a)) = Len(left) - D
      /\ \A k \in 1 .. Len(left) - D : Drain(a)[k] = left[D + k]
  <2>1. \A k \in D + 1 .. Len(left) : left[k] \in Positions
    BY <1>2, <1>3
  <2>2. D + 1 \in Int /\ Len(left) \in Int /\ Len(left) - (D + 1) + 1 = Len(left) - D
    BY <1>2
  <2>3. /\ Drain(a) \in Seq(Positions)
        /\ Len(Drain(a)) = IF D + 1 <= Len(left) THEN Len(left) - (D + 1) + 1 ELSE 0
        /\ \A k \in 1 .. Len(left) - (D + 1) + 1 : Drain(a)[k] = left[D + 1 + k - 1]
    <3>1. Drain(a) = SubSeq(left, D + 1, Len(left))
      BY DEF Drain
    <3>. HIDE DEF D, left
    <3>. QED
      BY <2>1, <2>2, <3>1, SubSeqProperties
  <2>4. D \in Nat /\ Len(left) \in Nat /\ D <= Len(left)
    BY <1>2
  <2>. HIDE DEF D, left
  <2>5. Len(Drain(a)) = Len(left) - D
    BY <2>3, <2>4
  <2>6. ASSUME NEW k \in 1 .. Len(left) - D PROVE Drain(a)[k] = left[D + k]
    <3>1. k \in Int /\ D + 1 + k - 1 = D + k /\ k \in 1 .. Len(left) - (D + 1) + 1
      BY <2>4
    <3>. QED
      BY <2>3, <3>1
  <2>. QED
    BY <2>3, <2>5, <2>6
<1>6. PartObject(a) \in [dir : Nat, file : Nat]
  BY <1>0, <1>1 DEF PartObject, Object
<1>7. Named(PartObject(a))
  <2>1. local[a].prev \in 0 .. Len(batch) - 1 /\ local[a].prev + 1 # Len(batch)
    BY <1>0, <1>1
  <2>2. Starts(local[a].prev)
    BY <1>0 DEF Slice
  <2>. QED
    BY <1>0, <1>1, <2>1, <2>2 DEF PartObject, Object, Named, NamedAfter
<1>8. ASSUME local[a].clean
      PROVE  {Part(a)[k] : k \in DOMAIN Part(a)} = RecordsOf(PartObject(a).dir)
  <2>1. DOMAIN Part(a) = 1 .. D
    BY <1>2, <1>4
  <2>2. \A k \in 1 .. D : Part(a)[k] = local[a].prev + k
    BY <1>0, <1>2, <1>4, <1>8 DEF LeftInv
  <2>3. RecordsOf(local[a].dir) = local[a].prev + 1 .. local[a].i
    BY <1>0, SliceIsDirectory DEF IInv
  <2>4. ASSUME NEW r \in local[a].prev + 1 .. local[a].i
        PROVE  \E k \in 1 .. D : r = local[a].prev + k
    <3>1. r - local[a].prev \in 1 .. D
      BY <1>1, <1>2, SMTT(20)
    <3>. QED
      BY <1>1, <3>1
  <2>5. \A k \in 1 .. D : local[a].prev + k \in local[a].prev + 1 .. local[a].i
    BY <1>1, <1>2, SMTT(20)
  <2>6. PartObject(a).dir = local[a].dir
    BY DEF PartObject, Object
  <2>7. \A r : r \in RecordsOf(local[a].dir) <=> \E k \in 1 .. D : r = Part(a)[k]
    BY <2>2, <2>3, <2>4, <2>5
  <2>. HIDE DEF D
  <2>. QED
    BY <2>1, <2>6, <2>7
<1>. QED
  BY <1>4, <1>5, <1>6, <1>7, <1>8

LEMMA UploadPartStep ==
    ASSUME IInv, NEW a \in Attempt, UploadPart(a)
    PROVE  IInv'
<1>0. /\ pc[a] = "part" /\ Drained(a) <= Len(local[a].left)
      /\ Store(a, PartObject(a), Part(a))
      /\ UNCHANGED <<batch, finished, counters>>
  BY DEF UploadPart
<1>1. /\ Slice(a) /\ LeftInv(a) /\ StoredUpTo(local[a].prev)
      /\ local[a].file = local[a].prev
      /\ local[a].i < Len(batch) /\ batch[local[a].i + 1] # local[a].dir
  BY <1>0 DEF IInv, AttemptInv
<1>2. /\ local[a].i \in 1 .. Len(batch) /\ Len(batch) \in Nat
      /\ local[a].prev \in 0 .. local[a].i - 1
      /\ local[a].left \in Seq(Positions)
      /\ batch \in Seq(Nat)
  BY <1>1, SliceType, BatchType DEF IInv
<1>3. /\ DOMAIN bucket' = DOMAIN bucket \cup {PartObject(a)}
      /\ DOMAIN bucket' \subseteq [dir : Nat, file : Nat]
      /\ \A n \in DOMAIN bucket' : bucket'[n] \in Seq(Positions)
      /\ wrong' \subseteq DOMAIN bucket'
      /\ \A n \in DOMAIN bucket' : Named(n)'
      /\ ObjectsAreWhole'
  BY <1>0, PartFacts, StoreKeeps
<1>4. /\ local'[a] = [local[a] EXCEPT !.left = Drain(a), !.prev = local[a].i,
                                      !.dir = batch[local[a].i + 1], !.i = @ + 1]
      /\ pc'[a] = "scan"
      /\ \A b \in Attempt \ {a} : pc'[b] = pc[b] /\ local'[b] = local[b]
      /\ local' = [local EXCEPT ![a] = local'[a]]
      /\ pc' = [pc EXCEPT ![a] = "scan"]
  BY DEF UploadPart, Directory, Goto, IInv, TypeOK
<1>5. local[a] \in Locals
  BY DEF IInv, TypeOK
<1>6. /\ local'[a].file = local[a].file
      /\ local'[a].dir = batch[local[a].i + 1]
      /\ local'[a].i = local[a].i + 1
      /\ local'[a].prev = local[a].i
      /\ local'[a].left = Drain(a)
      /\ local'[a].clean = local[a].clean
  BY <1>4, <1>5 DEF Locals
<1>7. TypeOK'
  <2>1. /\ local[a].i + 1 \in 0 .. Len(batch) /\ local[a].i \in 0 .. Len(batch)
        /\ batch[local[a].i + 1] \in Nat \cup {NoDirectory}
        /\ Drain(a) \in Seq(Positions)
    <3>1. local[a].i + 1 \in 1 .. Len(batch) /\ local[a].i \in 0 .. Len(batch)
      BY <1>1, <1>2, SMTT(20)
    <3>2. batch[local[a].i + 1] \in Nat
      BY <1>2, <3>1, SMTT(20)
    <3>3. Drain(a) \in Seq(Positions)
      BY <1>0, PartFacts
    <3>. QED
      BY <1>2, <3>1, <3>2, <3>3
  <2>2. local'[a] \in Locals
    BY <1>4, <1>5, <2>1 DEF Locals
  <2>. QED
    BY <1>0, <1>3, <1>4, <2>2 DEF IInv, TypeOK, Locals, Positions, counters
<1>8. \A r \in 1 .. local[a].i : \E o \in DOMAIN bucket' : o.dir = batch[r]
  <2>1. SUFFICES ASSUME NEW r \in 1 .. local[a].i
                 PROVE  \E o \in DOMAIN bucket' : o.dir = batch[r]
    OBVIOUS
  <2>2. CASE r \in 1 .. local[a].prev
    BY <1>1, <1>3, <2>2 DEF StoredUpTo
  <2>3. CASE r \in local[a].prev + 1 .. local[a].i
    <3>1. batch[r] = local[a].dir /\ PartObject(a).dir = local[a].dir
      BY <1>1, <2>3 DEF Slice, PartObject, Object
    <3>. QED
      BY <1>3, <3>1
  <2>. QED
    BY <1>2, <2>1, <2>2, <2>3
<1>9. BucketInv'
  <2>1. StoredUpTo(Len(batch)) => StoredUpTo(Len(batch))'
    BY <1>0, <1>3 DEF StoredUpTo
  <2>. QED
    BY <1>0, <1>3, <2>1 DEF IInv, BucketInv
<1>10. LeftInv(a)'
  <2>1. SUFFICES ASSUME local[a].clean
                 PROVE  /\ Len(Drain(a)) = Len(batch) - local[a].i
                        /\ \A k \in 1 .. Len(Drain(a)) :
                               Drain(a)[k] = local[a].i + k
    BY <1>0, <1>6 DEF LeftInv
  <2>2. /\ Len(local[a].left) = Len(batch) - local[a].prev
        /\ \A k \in 1 .. Len(local[a].left) : local[a].left[k] = local[a].prev + k
    BY <1>1, <2>1 DEF LeftInv
  <2>3. /\ Len(Drain(a)) = Len(local[a].left) - Drained(a)
        /\ \A k \in 1 .. Len(Drain(a)) :
               Drain(a)[k] = local[a].left[Drained(a) + k]
    BY <1>0, PartFacts
  <2>4. Drained(a) = local[a].i - local[a].prev
    BY DEF Drained
  <2>5. Len(local[a].left) \in Nat /\ local[a].i \in Int /\ local[a].prev \in Int
    BY <1>2
  <2>6. Drained(a) \in Nat
    BY <1>2, <2>4
  <2>7. Len(Drain(a)) = Len(batch) - local[a].i
    BY <1>2, <2>2, <2>3, <2>4, <2>5, SMTT(20)
  <2>8. ASSUME NEW k \in 1 .. Len(Drain(a))
        PROVE  Drain(a)[k] = local[a].i + k
    <3>1. Drained(a) + k \in 1 .. Len(local[a].left)
      BY <1>2, <2>3, <2>5, <2>6, <2>8
    <3>2. Drain(a)[k] = local[a].prev + (Drained(a) + k)
      BY <2>2, <2>3, <2>8, <3>1
    <3>3. k \in Int
      BY <1>2, <2>7
    <3>. QED
      BY <2>4, <2>5, <3>2, <3>3
  <2>. QED
    BY <2>7, <2>8
<1>11. Slice(a)' /\ FileInv(a)'
  <2>1. Starts(local[a].i)
    <3>1. batch[local[a].i] = local[a].dir
      BY <1>1 DEF Slice
    <3>2. /\ batch[local[a].i] <= batch[local[a].i + 1]
          /\ batch[local[a].i] \in Nat /\ batch[local[a].i + 1] \in Nat
      <4>1. /\ local[a].i \in 1 .. Len(batch) /\ local[a].i + 1 \in 1 .. Len(batch)
            /\ local[a].i <= local[a].i + 1
        BY <1>1, <1>2, SMTT(20)
      <4>2. \A q, r \in 1 .. Len(batch) : (q <= r) => (batch[q] <= batch[r])
        BY BatchType DEF IInv
      <4>3. batch[local[a].i] <= batch[local[a].i + 1]
        BY <4>1, <4>2
      <4>4. batch[local[a].i] \in Nat /\ batch[local[a].i + 1] \in Nat
        BY <4>1, BatchType DEF IInv
      <4>. QED
        BY <4>3, <4>4
    <3>. QED
      BY <1>1, <3>1, <3>2 DEF Starts
  <2>2. BeginsAt(local[a].i, local[a].prev)
    <3>0. local[a].prev + 1 \in local[a].prev + 1 .. local[a].i
      BY <1>2
    <3>1. batch[local[a].prev + 1] = batch[local[a].i] /\ Starts(local[a].prev)
      BY <1>1, <3>0 DEF Slice
    <3>. QED
      BY <1>2, <3>1 DEF BeginsAt
  <2>3. Slice(a)'
    BY <1>0, <1>2, <1>6, <2>1 DEF Slice, Starts
  <2>4. FileInv(a)'
    BY <1>0, <1>1, <1>2, <1>6, <2>2 DEF FileInv, BeginsAt, Starts
  <2>. QED
    BY <2>3, <2>4
<1>12. AttemptInv(a)'
  <2>1. StoredUpTo(local[a].prev)'
    BY <1>0, <1>6, <1>8 DEF StoredUpTo
  <2>2. Len(batch)' > 0
    BY <1>0, <1>2
  <2>. QED
    BY <1>4, <1>10, <1>11, <2>1, <2>2 DEF AttemptInv
<1>. QED
  BY <1>0, <1>3, <1>4, <1>7, <1>9, <1>12, MoveKeeps

LEMMA UploadPartFailsStep ==
    ASSUME IInv, NEW a \in Attempt, UploadPartFails(a)
    PROVE  IInv'
<1>0. /\ pc[a] = "part" /\ Drained(a) <= Len(local[a].left)
      /\ StoreMaybe(a, PartObject(a), Part(a))
      /\ partFailures' = partFailures + 1
      /\ UNCHANGED <<batch, finished, pc, restFailures, crashes>>
  BY DEF UploadPartFails
<1>1. /\ DOMAIN bucket \subseteq DOMAIN bucket'
      /\ DOMAIN bucket' \subseteq [dir : Nat, file : Nat]
      /\ \A n \in DOMAIN bucket' : bucket'[n] \in Seq(Positions)
      /\ wrong' \subseteq DOMAIN bucket'
      /\ \A n \in DOMAIN bucket' : Named(n)'
      /\ ObjectsAreWhole'
  BY <1>0, PartFacts, StoreMaybeKeeps
<1>2. /\ local'[a] = [local[a] EXCEPT !.left = Drain(a), !.clean = FALSE]
      /\ \A b \in Attempt \ {a} : local'[b] = local[b]
      /\ local' = [local EXCEPT ![a] = local'[a]]
  BY DEF UploadPartFails, IInv, TypeOK
<1>3. local[a] \in Locals /\ Drain(a) \in Seq(Positions)
  BY <1>0, PartFacts DEF IInv, TypeOK
<1>4. /\ local'[a].file = local[a].file
      /\ local'[a].dir = local[a].dir
      /\ local'[a].i = local[a].i
      /\ local'[a].prev = local[a].prev
      /\ local'[a].clean = FALSE
  BY <1>2, <1>3 DEF Locals
<1>5. TypeOK'
  <2>1. local'[a] \in Locals
    BY <1>2, <1>3 DEF Locals
  <2>2. Positions' = Positions /\ Locals' = Locals
    BY <1>0 DEF Positions, Locals
  <2>3. local' \in [Attempt -> Locals]
    BY <1>2, <2>1 DEF IInv, TypeOK
  <2>4. partFailures' \in Nat /\ restFailures' \in Nat /\ crashes' \in Nat
    BY <1>0 DEF IInv, TypeOK
  <2>. QED
    BY <1>0, <1>1, <2>2, <2>3, <2>4 DEF IInv, TypeOK
<1>6. \A n : StoredUpTo(n) => \A r \in 1 .. n : \E o \in DOMAIN bucket' : o.dir = batch[r]
  BY <1>1 DEF StoredUpTo
<1>7. BucketInv'
  <2>1. StoredUpTo(Len(batch)) => StoredUpTo(Len(batch))'
    BY <1>0, <1>6 DEF StoredUpTo
  <2>. QED
    BY <1>0, <1>1, <2>1 DEF IInv, BucketInv
<1>8. AttemptInv(a)'
  <2>1. /\ Slice(a) /\ StoredUpTo(local[a].prev)
        /\ local[a].file = local[a].prev
        /\ local[a].i < Len(batch) /\ batch[local[a].i + 1] # local[a].dir
    BY <1>0 DEF IInv, AttemptInv
  <2>2. Slice(a)'
    BY <1>0, <1>4, <2>1 DEF Slice, Starts
  <2>3. StoredUpTo(local[a].prev)'
    BY <1>0, <1>4, <1>6, <2>1 DEF StoredUpTo
  <2>4. LeftInv(a)'
    BY <1>4 DEF LeftInv
  <2>. QED
    BY <1>0, <1>4, <2>1, <2>2, <2>3, <2>4 DEF AttemptInv
<1>. QED
  BY <1>0, <1>1, <1>2, <1>5, <1>7, <1>8, MoveKeeps

LEMMA RestartStep ==
    ASSUME IInv, NEW a \in Attempt, Restart(a),
           UNCHANGED <<batch, bucket, wrong, finished>>,
           partFailures' \in Nat, restFailures' \in Nat, crashes' \in Nat
    PROVE  IInv'
<1>1. /\ local'[a] = Fresh /\ pc'[a] = "idle"
      /\ \A b \in Attempt \ {a} : local'[b] = local[b] /\ pc'[b] = pc[b]
      /\ local' = [local EXCEPT ![a] = Fresh]
      /\ pc' = [pc EXCEPT ![a] = "idle"]
  BY DEF Restart, Goto, IInv, TypeOK
<1>2. TypeOK'
  BY <1>1, FreshType DEF IInv, TypeOK, Locals, Positions
<1>3. BucketInv'
  BY SameBucket DEF IInv
<1>4. AttemptInv(a)'
  BY <1>1 DEF AttemptInv, Fresh
<1>. QED
  BY <1>1, <1>2, <1>3, <1>4, MoveKeeps

\* The last slice is its directory, named as any attempt would name it.
LEMMA RestFacts ==
    ASSUME IInv, NEW a \in Attempt, pc[a] = "rest"
    PROVE  /\ RestObject(a) \in [dir : Nat, file : Nat]
           /\ Named(RestObject(a))
           /\ local[a].left \in Seq(Positions)
           /\ local[a].clean =>
                  {local[a].left[k] : k \in DOMAIN local[a].left}
                      = RecordsOf(RestObject(a).dir)
<1>0. Slice(a) /\ LeftInv(a) /\ FileInv(a) /\ local[a].i = Len(batch)
  BY DEF IInv, AttemptInv
<1>1. /\ local[a].i \in 1 .. Len(batch) /\ Len(batch) \in Nat
      /\ local[a].prev \in 0 .. local[a].i - 1
      /\ local[a].left \in Seq(Positions) /\ local[a].file \in Nat
      /\ local[a].dir \in Nat /\ local[a].dir = batch[local[a].prev + 1]
  BY <1>0, SliceType, BatchType DEF IInv
<1>2. RestObject(a) \in [dir : Nat, file : Nat]
  BY <1>1 DEF RestObject, Object
<1>3. Named(RestObject(a))
  <2>1. local[a].prev \in 0 .. Len(batch) - 1
    BY <1>0, <1>1
  <2>2. NamedAfter(local[a].prev, local[a].file)
    BY <1>0, <1>1 DEF FileInv, NamedAfter
  <2>3. Starts(local[a].prev)
    BY <1>0 DEF Slice
  <2>. QED
    BY <1>1, <2>1, <2>2, <2>3 DEF RestObject, Object, Named
<1>4. ASSUME local[a].clean
      PROVE  {local[a].left[k] : k \in DOMAIN local[a].left}
                 = RecordsOf(RestObject(a).dir)
  <2>. DEFINE left == local[a].left
              prev == local[a].prev
  <2>1. /\ Len(left) = Len(batch) - prev
        /\ \A k \in 1 .. Len(left) : left[k] = prev + k
    BY <1>0, <1>4 DEF LeftInv
  <2>2. DOMAIN left = 1 .. Len(left)
    BY <1>1
  <2>3. RecordsOf(local[a].dir) = prev + 1 .. Len(batch)
    BY <1>0, SliceIsDirectory DEF IInv
  <2>4. ASSUME NEW r \in prev + 1 .. Len(batch)
        PROVE  \E k \in 1 .. Len(left) : r = prev + k
    <3>1. r - prev \in 1 .. Len(left)
      BY <1>1, <2>1
    <3>. QED
      BY <1>1, <3>1
  <2>5. \A k \in 1 .. Len(left) : prev + k \in prev + 1 .. Len(batch)
    BY <1>1, <2>1, SMTT(20)
  <2>6. RestObject(a).dir = local[a].dir
    BY DEF RestObject, Object
  <2>7. \A r : r \in RecordsOf(local[a].dir) <=> \E k \in 1 .. Len(left) : r = left[k]
    BY <2>1, <2>3, <2>4, <2>5
  <2>. HIDE DEF left
  <2>. QED
    BY <2>2, <2>6, <2>7 DEF left
<1>. QED
  BY <1>1, <1>2, <1>3, <1>4

LEMMA UploadRestStep ==
    ASSUME IInv, NEW a \in Attempt, UploadRest(a)
    PROVE  IInv'
<1>0. /\ pc[a] = "rest"
      /\ Store(a, RestObject(a), local[a].left)
      /\ finished'
      /\ UNCHANGED <<batch, local, counters>>
  BY DEF UploadRest
<1>1. /\ DOMAIN bucket' = DOMAIN bucket \cup {RestObject(a)}
      /\ DOMAIN bucket' \subseteq [dir : Nat, file : Nat]
      /\ \A n \in DOMAIN bucket' : bucket'[n] \in Seq(Positions)
      /\ wrong' \subseteq DOMAIN bucket'
      /\ \A n \in DOMAIN bucket' : Named(n)'
      /\ ObjectsAreWhole'
  BY <1>0, RestFacts, StoreKeeps
<1>2. /\ pc'[a] = "done"
      /\ \A b \in Attempt \ {a} : pc'[b] = pc[b]
      /\ pc' = [pc EXCEPT ![a] = "done"]
  BY DEF UploadRest, Goto, IInv, TypeOK
<1>3. TypeOK'
  BY <1>0, <1>1, <1>2 DEF UploadRest, IInv, TypeOK, Locals, Positions, counters
<1>4. StoredUpTo(Len(batch))'
  <2>1. /\ Slice(a) /\ StoredUpTo(local[a].prev) /\ local[a].i = Len(batch)
    BY <1>0 DEF IInv, AttemptInv
  <2>2. local[a].prev \in 0 .. Len(batch) - 1 /\ Len(batch) \in Nat
    BY <2>1, SliceType, BatchType DEF IInv
  <2>3. SUFFICES ASSUME NEW r \in 1 .. Len(batch)
                 PROVE  \E o \in DOMAIN bucket' : o.dir = batch[r]
    BY <1>0 DEF StoredUpTo
  <2>4. CASE r \in 1 .. local[a].prev
    BY <1>1, <2>1, <2>4 DEF StoredUpTo
  <2>5. CASE r \in local[a].prev + 1 .. local[a].i
    <3>1. batch[r] = local[a].dir /\ RestObject(a).dir = local[a].dir
      BY <2>1, <2>5 DEF Slice, RestObject, Object
    <3>. QED
      BY <1>1, <3>1
  <2>. QED
    BY <2>1, <2>2, <2>4, <2>5
<1>5. BucketInv'
  BY <1>1, <1>4 DEF BucketInv
<1>6. AttemptInv(a)'
  BY <1>2 DEF AttemptInv
<1>. QED
  BY <1>0, <1>1, <1>2, <1>3, <1>5, <1>6, MoveKeeps

LEMMA UploadRestFailsStep ==
    ASSUME IInv, NEW a \in Attempt, UploadRestFails(a)
    PROVE  IInv'
<1>0. /\ pc[a] = "rest"
      /\ StoreMaybe(a, RestObject(a), local[a].left)
      /\ restFailures' = restFailures + 1
      /\ UNCHANGED <<batch, finished, pc, local, partFailures, crashes>>
  BY DEF UploadRestFails
<1>1. /\ DOMAIN bucket \subseteq DOMAIN bucket'
      /\ DOMAIN bucket' \subseteq [dir : Nat, file : Nat]
      /\ \A n \in DOMAIN bucket' : bucket'[n] \in Seq(Positions)
      /\ wrong' \subseteq DOMAIN bucket'
      /\ \A n \in DOMAIN bucket' : Named(n)'
      /\ ObjectsAreWhole'
  BY <1>0, RestFacts, StoreMaybeKeeps
<1>2. TypeOK'
  BY <1>0, <1>1 DEF IInv, TypeOK, Locals, Positions
<1>3. BucketInv'
  <2>1. StoredUpTo(Len(batch)) => StoredUpTo(Len(batch))'
    BY <1>0, <1>1 DEF StoredUpTo
  <2>. QED
    BY <1>0, <1>1, <2>1 DEF IInv, BucketInv
<1>4. AttemptInv(a)'
  BY <1>0, <1>1, OthersKeep DEF IInv
<1>. QED
  BY <1>0, <1>1, <1>2, <1>3, <1>4, MoveKeeps

LEMMA NextKeepsIInv == IInv /\ [Next]_vars => IInv'
<1>. SUFFICES ASSUME IInv, [Next]_vars PROVE IInv'
  OBVIOUS
<1>1. ASSUME NEW a \in Attempt, AttemptStep(a) PROVE IInv'
  <2>1. CASE DrainPanics(a)
    BY <2>1, RestartStep DEF DrainPanics, counters, IInv, TypeOK
  <2>2. CASE Kill(a)
    BY <2>2, RestartStep DEF Kill, IInv, TypeOK
  <2>. QED
    BY <1>1, <2>1, <2>2, BeginStep, SameDirectoryStep, NewDirectoryStep,
       AllScannedStep, UploadPartStep, UploadPartFailsStep, UploadRestStep,
       UploadRestFailsStep DEF AttemptStep
<1>2. CASE UNCHANGED vars
  <2>1. TypeOK'
    BY <1>2 DEF vars, IInv, TypeOK, Locals, Positions
  <2>2. BucketInv'
    BY <1>2, SameBucket DEF vars, IInv
  <2>3. \A b \in Attempt : AttemptInv(b)'
    BY <1>2, OthersKeep DEF vars, IInv
  <2>. QED
    BY <2>1, <2>2, <2>3 DEF IInv
<1>. QED
  BY <1>1, <1>2 DEF Next

-----------------------------------------------------------------------------
(* The theorems *)

THEOREM SpecIInv == Spec => []IInv
  BY InitIInv, NextKeepsIInv, PTL DEF Spec

\* Every variable of the publisher keeps its type.
THEOREM GcsTypeCorrect == Spec => []TypeOK
<1>1. IInv => TypeOK
  BY DEF IInv
<1>. QED
  BY <1>1, SpecIInv, PTL

\* However many attempts write a batch, a directory never gets a second object
\* of it: an object's name follows from its directory.
THEOREM DirectoryHasOneObject == Spec => []OneObjectPerDirectory
<1>1. IInv => OneObjectPerDirectory
  <2>1. SUFFICES ASSUME IInv, NEW o \in DOMAIN bucket, NEW p \in DOMAIN bucket,
                        o.dir = p.dir
                 PROVE  o = p
    BY DEF OneObjectPerDirectory
  <2>. QED
    BY <2>1, NameIsUnique DEF IInv, BucketInv
<1>. QED
  BY <1>1, SpecIInv, PTL

\* An object whose last writer had no failed part holds its directory's records.
THEOREM ObjectsWhole == Spec => []ObjectsAreWhole
<1>1. IInv => ObjectsAreWhole
  BY DEF IInv, BucketInv
<1>. QED
  BY <1>1, SpecIInv, PTL

\* When an attempt has returned, every directory of the batch has its object.
THEOREM FinishedStores == Spec => []FinishedMeansStored
<1>1. IInv => FinishedMeansStored
  <2>1. SUFFICES ASSUME IInv, finished, NEW r \in Positions
                 PROVE  \E o \in DOMAIN bucket :
                            o.dir = batch[r] /\ (o \in wrong \/ IsWhole(o))
    BY DEF FinishedMeansStored
  <2>2. r \in 1 .. Len(batch)
    BY <2>1, BatchType DEF IInv
  <2>. QED
    BY <2>1, <2>2 DEF IInv, BucketInv, StoredUpTo, ObjectsAreWhole
<1>. QED
  BY <1>1, SpecIInv, PTL
=============================================================================
