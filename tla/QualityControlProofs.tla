----------------------- MODULE QualityControlProofs -----------------------
(***************************************************************************)
(* Proofs about QualityControl, for any tables, days, versions and rows:   *)
(* that a backfill requests exactly the gaps of what its query saw, that   *)
(* no deduplication makes a row disappear but signatures that have a twin, *)
(* and that a deduplicated day whose row counts agree is complete.         *)
(***************************************************************************)
EXTENDS QualityControl, SequenceTheorems, FiniteSetTheorems,
        WellFoundedInduction, TLAPS

-----------------------------------------------------------------------------
(* Induction over finite sets; the loop of publish_range_f as a recursive   *)
(* function.                                                                *)

\* A family of sets with every subset of S all of whose own subsets are in
\* it has all of them.
LEMMA SubsetInduction ==
  ASSUME NEW S, IsFiniteSet(S), NEW T,
         \A s \in SUBSET S : (\A u \in SUBSET s : u # s => u \in T) => s \in T
  PROVE  SUBSET S \subseteq T
<1> DEFINE U == (SUBSET S) \ T
           R == StrictSubsetOrdering(S)
<1> SUFFICES ASSUME U # {} PROVE FALSE
  OBVIOUS
<1>1. IsWellFoundedOn(R, SUBSET S)
  <2>1. IsWellFoundedOn(StrictSubsetOrdering(S), FiniteSubsetsOf(S))
    BY FS_StrictSubsetOrderingWellFounded
  <2>2. FiniteSubsetsOf(S) = SUBSET S
    BY FS_FiniteSubsetsOfFinite
  <2> QED BY <2>1, <2>2
<1>2. U \subseteq SUBSET S
  OBVIOUS
<1> HIDE DEF R, U
<1>3. PICK s \in U : \A u \in U : ~ (<<u, s>> \in R)
  BY <1>1, <1>2, WFMin
<1>4. \A u \in SUBSET s : u # s => u \in T
  BY <1>3 DEF R, U, StrictSubsetOrdering
<1> QED BY <1>3, <1>4 DEF U

\* A finite set of naturals that is not empty has a greatest and a least element.
LEMMA Extrema ==
  ASSUME NEW s, s \subseteq Nat, IsFiniteSet(s), s # {}
  PROVE  /\ Max(s) \in s /\ \A n \in s : n <= Max(s)
         /\ Min(s) \in s /\ \A n \in s : Min(s) <= n
<1> DEFINE T == {u \in SUBSET s : u # {} => /\ \E x \in u : \A n \in u : x >= n
                                            /\ \E x \in u : \A n \in u : x =< n}
<1>1. ASSUME NEW u \in SUBSET s, \A w \in SUBSET u : w # u => w \in T
      PROVE  u \in T
  <2>1. SUFFICES ASSUME u # {}
                 PROVE  /\ \E x \in u : \A n \in u : x >= n
                        /\ \E x \in u : \A n \in u : x =< n
    OBVIOUS
  <2>2. PICK y \in u : TRUE
    BY <2>1
  <2> DEFINE w == u \ {y}
  <2>3. w \in SUBSET u /\ w # u
    OBVIOUS
  <2>4. w \in T
    BY <1>1, <2>3
  <2>5. CASE w = {}
    <3>1. u = {y} /\ y \in Nat
      BY <2>5
    <3> QED BY <3>1
  <2>6. CASE w # {}
    <3>1. PICK a \in w : \A n \in w : a >= n
      BY <2>4, <2>6
    <3>2. PICK b \in w : \A n \in w : b =< n
      BY <2>4, <2>6
    <3>3. a \in Nat /\ b \in Nat /\ y \in Nat /\ \A n \in u : n = y \/ n \in w
      OBVIOUS
    <3>4. \E x \in u : \A n \in u : x >= n
      <4>1. CASE a >= y
        BY <3>1, <3>3, <4>1
      <4>2. CASE a < y
        <5>1. \A n \in w : n \in Nat /\ y >= n
          BY <3>1, <3>3, <4>2
        <5> QED BY <3>3, <5>1
      <4> QED BY <3>3, <4>1, <4>2
    <3>5. \E x \in u : \A n \in u : x =< n
      <4>1. CASE b <= y
        BY <3>2, <3>3, <4>1
      <4>2. CASE b > y
        <5>1. \A n \in w : n \in Nat /\ y <= n
          BY <3>2, <3>3, <4>2
        <5> QED BY <3>3, <5>1
      <4> QED BY <3>3, <4>1, <4>2
    <3> QED BY <3>4, <3>5
  <2> QED BY <2>5, <2>6
<1> HIDE DEF T
<1>2. SUBSET s \subseteq T
  BY <1>1, SubsetInduction
<1>3. /\ \E x \in s : \A n \in s : x >= n
      /\ \E x \in s : \A n \in s : x =< n
  BY <1>2 DEF T
<1>4. Max(s) \in s /\ \A n \in s : Max(s) >= n
  BY <1>3 DEF Max
<1>5. Min(s) \in s /\ \A n \in s : Min(s) =< n
  BY <1>3 DEF Min
<1> QED BY <1>4, <1>5

\* f[s] is what publish_range_f's loop holds when it has passed the versions of
\* s: the recursive function that Ranges is defined by.
Looping(f, b, S) ==
  f = [s \in SUBSET S |-> IF s = {} THEN b ELSE Extend(f[s \ {Max(s)}], Max(s))]

LEMMA LoopingExists ==
  ASSUME NEW S, S \subseteq Nat, IsFiniteSet(S), NEW b
  PROVE  \E f : Looping(f, b, S)
<1> DEFINE T == {s \in SUBSET S : \E f : Looping(f, b, s)}
<1>1. ASSUME NEW s \in SUBSET S, \A u \in SUBSET s : u # s => u \in T
      PROVE  s \in T
  <2>1. CASE s = {}
    <3> DEFINE f == [u \in SUBSET s |-> b]
    <3>1. \A u \in SUBSET s : u = {}
      BY <2>1
    <3>2. f = [u \in SUBSET s |-> IF u = {} THEN b ELSE Extend(f[u \ {Max(u)}], Max(u))]
      BY <3>1
    <3>3. Looping(f, b, s)
      BY <3>2 DEF Looping
    <3> QED BY <3>3
  <2>2. CASE s # {}
    <3> DEFINE x == Max(s)
               w == s \ {x}
    <3>1. IsFiniteSet(s) /\ s \subseteq Nat
      BY FS_Subset
    <3>2. x \in s /\ \A n \in s : n <= x
      BY <2>2, <3>1, Extrema
    <3> HIDE DEF x
    <3>3. w \in SUBSET s /\ w # s
      BY <3>2
    <3>4. PICK g : Looping(g, b, w)
      BY <1>1, <3>3
    <3>5. \A u \in SUBSET w : g[u] = IF u = {} THEN b ELSE Extend(g[u \ {Max(u)}], Max(u))
      BY <3>4 DEF Looping
    <3> DEFINE f == [u \in SUBSET s |-> IF x \in u THEN Extend(g[u \ {x}], x) ELSE g[u]]
    <3>6. ASSUME NEW u \in SUBSET s
          PROVE  f[u] = IF u = {} THEN b ELSE Extend(f[u \ {Max(u)}], Max(u))
      <4>1. CASE x \in u
        <5>1. u # {} /\ u \subseteq Nat /\ IsFiniteSet(u)
          BY <3>1, <4>1, FS_Subset
        <5>2. Max(u) \in u /\ \A n \in u : n <= Max(u)
          BY <5>1, Extrema
        <5>3. Max(u) = x
          <6>1. Max(u) \in s /\ x <= Max(u)
            BY <4>1, <5>2
          <6>2. Max(u) \in Nat /\ x \in Nat /\ Max(u) <= x
            BY <3>1, <3>2, <6>1
          <6> QED BY <6>1, <6>2
        <5>4. u \ {x} \in SUBSET s /\ x \notin u \ {x}
          OBVIOUS
        <5>5. f[u \ {x}] = g[u \ {x}]
          BY <5>4
        <5> QED BY <4>1, <5>1, <5>3, <5>5
      <4>2. CASE x \notin u
        <5>1. u \in SUBSET w /\ f[u] = g[u]
          BY <4>2
        <5>2. f[u \ {Max(u)}] = g[u \ {Max(u)}]
          BY <4>2
        <5> QED BY <3>5, <5>1, <5>2
      <4> QED BY <4>1, <4>2
    <3>7. f = [u \in SUBSET s |-> IF u = {} THEN b ELSE Extend(f[u \ {Max(u)}], Max(u))]
      BY <3>6
    <3>8. Looping(f, b, s)
      BY <3>7 DEF Looping
    <3> QED BY <3>8
  <2> QED BY <2>1, <2>2
<1> HIDE DEF T
<1>2. SUBSET S \subseteq T
  BY <1>1, SubsetInduction
<1> QED BY <1>2 DEF T

\* Ranges is the last value of its recursive function.
LEMMA RangesDef ==
  ASSUME NEW missing, missing \subseteq Nat, IsFiniteSet(missing), missing # {}
  PROVE  \E f : /\ Looping(f, <<<<Min(missing), Min(missing)>>>>, missing \ {Min(missing)})
                /\ Ranges(missing) = f[missing \ {Min(missing)}]
<1> DEFINE S == missing \ {Min(missing)}
           b == <<<<Min(missing), Min(missing)>>>>
<1>1. S \subseteq Nat /\ IsFiniteSet(S)
  BY FS_Subset
<1>2. \E f : Looping(f, b, S)
  BY <1>1, LoopingExists
<1> QED BY <1>2 DEF Ranges, MapThenFoldSet, Looping

-----------------------------------------------------------------------------
(* The loop returns the maximal intervals of the missing versions.          *)

\* The maximal intervals of a set of naturals.
Intervals(T) ==
    {g \in Nat \X Nat : /\ g[1] <= g[2]
                        /\ g[1] .. g[2] \subseteq T
                        /\ g[1] - 1 \notin T /\ g[2] + 1 \notin T}

\* A version that is more than one beyond all the others is an interval of its own.
LEMMA IntervalApart ==
  ASSUME NEW T, T \subseteq Nat, NEW x \in Nat, \A n \in T : n + 1 < x
  PROVE  Intervals(T \cup {x}) = Intervals(T) \cup {<<x, x>>}
<1> DEFINE U == T \cup {x}
<1>1. ASSUME NEW g \in Intervals(U) PROVE g \in Intervals(T) \cup {<<x, x>>}
  <2>1. /\ g \in Nat \X Nat /\ g[1] <= g[2]
        /\ \A n \in Int : g[1] <= n /\ n <= g[2] => n \in U
        /\ g[1] - 1 \notin U /\ g[2] + 1 \notin U
    BY DEF Intervals
  <2>2. g[1] \in Nat /\ g[2] \in Nat /\ g = <<g[1], g[2]>>
    BY <2>1
  <2>3. g[1] \in U /\ g[2] \in U
    BY <2>1, <2>2
  <2>4. CASE g[2] = x
    <3>1. g[1] = x
      <4>1. SUFFICES ASSUME g[1] # x PROVE FALSE
        OBVIOUS
      <4>2. g[1] \in T /\ g[1] + 1 < x
        BY <2>3, <4>1
      <4>3. x - 1 \in U
        BY <2>1, <2>2, <2>4, <4>2
      <4>4. x - 1 \in T
        BY <4>3
      <4> QED BY <4>4
    <3> QED BY <2>2, <2>4, <3>1
  <2>5. CASE g[2] # x
    <3>1. g[2] \in T /\ g[2] + 1 < x
      BY <2>3, <2>5
    <3>2. \A n \in Int : g[1] <= n /\ n <= g[2] => n \in T
      BY <2>1, <2>2, <3>1
    <3>3. g[1] .. g[2] \subseteq T /\ g[1] - 1 \notin T /\ g[2] + 1 \notin T
      BY <2>1, <2>2, <3>2
    <3> QED BY <2>1, <3>3 DEF Intervals
  <2> QED BY <2>4, <2>5
<1>2. ASSUME NEW g \in Intervals(T) PROVE g \in Intervals(U)
  <2>1. /\ g \in Nat \X Nat /\ g[1] <= g[2]
        /\ g[1] .. g[2] \subseteq T /\ g[1] - 1 \notin T /\ g[2] + 1 \notin T
    BY DEF Intervals
  <2>2. g[1] \in Nat /\ g[2] \in Nat /\ g[1] \in T /\ g[2] \in T
    BY <2>1
  <2>3. g[1] - 1 # x /\ g[2] + 1 # x
    BY <2>2
  <2> QED BY <2>1, <2>3 DEF Intervals
<1>3. <<x, x>> \in Intervals(U)
  <2>1. x .. x \subseteq U
    OBVIOUS
  <2>2. x - 1 \notin U /\ x + 1 \notin U
    OBVIOUS
  <2> QED BY <2>1, <2>2 DEF Intervals
<1> QED BY <1>1, <1>2, <1>3

\* The last interval of a set, and what becomes of the set's intervals with the
\* number that follows it.
IsLast(a, e, T) == T \subseteq Nat /\ <<a, e>> \in Intervals(T) /\ \A n \in T : n <= e

Joined(a, e, T) ==
    Intervals(T \cup {e + 1}) = (Intervals(T) \ {<<a, e>>}) \cup {<<a, e + 1>>}

\* A version next to the last interval makes that interval one longer.
LEMMA IntervalJoined ==
  ASSUME NEW T, NEW a \in Nat, NEW e \in Nat, IsLast(a, e, T)
  PROVE  Joined(a, e, T)
<1> DEFINE x == e + 1
           U == T \cup {x}
<1>0. /\ a <= e /\ a - 1 \notin T /\ x \notin T
      /\ \A n \in Int : a <= n /\ n <= e => n \in T
  <2>1. a <= e /\ a .. e \subseteq T /\ a - 1 \notin T /\ x \notin T
    BY DEF Intervals, IsLast
  <2> QED BY <2>1
<1>t. T \subseteq Nat /\ <<a, e>> \in Intervals(T) /\ \A n \in T : n <= e
  BY DEF IsLast
<1>1. ASSUME NEW g \in Intervals(U) PROVE g \in (Intervals(T) \ {<<a, e>>}) \cup {<<a, x>>}
  <2>1. /\ g \in Nat \X Nat /\ g[1] <= g[2]
        /\ \A n \in Int : g[1] <= n /\ n <= g[2] => n \in U
        /\ g[1] - 1 \notin U /\ g[2] + 1 \notin U
    BY DEF Intervals
  <2>2. g[1] \in Nat /\ g[2] \in Nat /\ g = <<g[1], g[2]>>
    BY <2>1
  <2>3. g[1] \in U /\ g[2] \in U
    BY <2>1, <2>2
  <2>4. CASE g[2] = x
    <3>1. ~ (g[1] > a)
      <4>1. SUFFICES ASSUME g[1] > a PROVE FALSE
        OBVIOUS
      <4>2. a <= g[1] - 1 /\ g[1] - 1 <= e /\ g[1] - 1 \in Int
        BY <2>1, <2>2, <2>4, <4>1
      <4> QED BY <1>0, <2>1, <4>2
    <3>2. ~ (g[1] < a)
      <4>1. SUFFICES ASSUME g[1] < a PROVE FALSE
        OBVIOUS
      <4>2. g[1] <= a - 1 /\ a - 1 <= g[2] /\ a - 1 \in Int /\ a - 1 # x
        BY <1>0, <2>2, <2>4, <4>1
      <4> QED BY <1>0, <2>1, <4>2
    <3> QED BY <2>2, <2>4, <3>1, <3>2
  <2>5. CASE g[2] # x
    <3>1. g[2] \in T /\ g[2] <= e /\ g[2] # e
      BY <1>t, <2>1, <2>2, <2>3, <2>5
    <3>2. \A n \in Int : g[1] <= n /\ n <= g[2] => n \in T
      BY <2>1, <2>2, <3>1
    <3>3. g[1] .. g[2] \subseteq T /\ g[1] - 1 \notin T /\ g[2] + 1 \notin T
      BY <2>1, <2>2, <3>2
    <3>4. g \in Intervals(T) /\ g # <<a, e>>
      BY <2>1, <2>2, <3>1, <3>3 DEF Intervals
    <3> QED BY <3>4
  <2> QED BY <2>4, <2>5
<1>2. ASSUME NEW g \in Intervals(T), g # <<a, e>> PROVE g \in Intervals(U)
  <2>1. /\ g \in Nat \X Nat /\ g[1] <= g[2]
        /\ g[1] .. g[2] \subseteq T /\ g[1] - 1 \notin T /\ g[2] + 1 \notin T
    BY DEF Intervals
  <2>2. g[1] \in Nat /\ g[2] \in Nat /\ g[2] \in T /\ g[2] <= e /\ g = <<g[1], g[2]>>
        /\ g[1] - 1 # x
    BY <1>t, <2>1
  <2>3. g[2] # e
    <3>1. SUFFICES ASSUME g[2] = e PROVE FALSE
      OBVIOUS
    <3>2. ~ (g[1] > a)
      <4>1. SUFFICES ASSUME g[1] > a PROVE FALSE
        OBVIOUS
      <4>2. a <= g[1] - 1 /\ g[1] - 1 <= e /\ g[1] - 1 \in Int
        BY <2>1, <2>2, <4>1
      <4> QED BY <1>0, <2>1, <4>2
    <3>3. ~ (g[1] < a)
      <4>1. SUFFICES ASSUME g[1] < a PROVE FALSE
        OBVIOUS
      <4>2. a - 1 \in g[1] .. g[2]
        BY <1>0, <2>2, <3>1, <4>1
      <4> QED BY <1>0, <2>1, <4>2
    <3> QED BY <1>2, <2>2, <3>1, <3>2, <3>3
  <2>4. g[2] + 1 # x
    BY <2>2, <2>3
  <2> QED BY <2>1, <2>2, <2>4 DEF Intervals
<1>3. <<a, x>> \in Intervals(U)
  <2>1. a .. x \subseteq U
    BY <1>0
  <2>2. a - 1 \notin U /\ x + 1 \notin U
    BY <1>0, <1>t
  <2> QED BY <1>0, <2>1, <2>2 DEF Intervals
<1>4. Intervals(U) = (Intervals(T) \ {<<a, e>>}) \cup {<<a, x>>}
  BY <1>1, <1>2, <1>3
<1> QED BY <1>4 DEF Joined

Pair == Nat \X Nat

\* What the loop holds when it has passed the versions of T: the intervals of
\* T, the last of which ends with T's greatest version.
IsRangesOf(r, T) ==
    /\ r \in Seq(Pair) /\ Len(r) >= 1
    /\ Range(r) = Intervals(T)
    /\ \A n \in T : n <= r[Len(r)][2]
    /\ \A i \in 1 .. Len(r) - 1 : r[i][2] < r[Len(r)][1]

Listed(r, n) == \A g : g \in Range(r) <=> \E i \in 1 .. n : g = r[i]

LEMMA SequenceIsListed ==
  ASSUME NEW S, NEW r \in Seq(S), NEW n, n = Len(r)
  PROVE  Listed(r, n)
<1>1. DOMAIN r = 1 .. n
  BY LenProperties
<1> QED BY <1>1 DEF Range, Listed

LEMMA ExtendIsRanges ==
  ASSUME NEW T, T \subseteq Nat, NEW r, IsRangesOf(r, T), NEW x \in Nat, \A n \in T : n < x
  PROVE  IsRangesOf(Extend(r, x), T \cup {x})
<1> DEFINE n == Len(r)
           a == r[n][1]
           e == r[n][2]
<1>1. /\ n \in Nat /\ n >= 1 /\ r \in Seq(Pair)
      /\ \A i \in 1 .. n : r[i] \in Pair
      /\ \A g : g \in Range(r) <=> \E i \in 1 .. n : g = r[i]
      /\ Range(r) = Intervals(T)
      /\ \A i \in 1 .. n - 1 : r[i][2] < a
      /\ \A k \in T : k <= e
  <2>1. /\ r \in Seq(Pair) /\ Len(r) >= 1 /\ Range(r) = Intervals(T)
        /\ \A k \in T : k <= e
        /\ \A i \in 1 .. n - 1 : r[i][2] < a
    BY DEF IsRangesOf
  <2>2. \A g : g \in Range(r) <=> \E i \in 1 .. n : g = r[i]
    <3>1. Listed(r, n)
      BY <2>1, SequenceIsListed
    <3> QED BY <3>1 DEF Listed
  <2>3. n \in Nat /\ \A i \in 1 .. n : r[i] \in Pair
    BY <2>1, LenProperties, ElementOfSeq
  <2>4. n >= 1
    BY <2>1
  <2> HIDE DEF n, a, e
  <2> QED BY <2>1, <2>2, <2>3, <2>4
<1>2. /\ a \in Nat /\ e \in Nat /\ r[n] = <<a, e>> /\ <<a, e>> \in Intervals(T)
      /\ a <= e /\ e \in T
  <2>1. r[n] \in Pair /\ r[n] \in Intervals(T)
    BY <1>1
  <2>2. a \in Nat /\ e \in Nat /\ r[n] = <<a, e>> /\ a <= e /\ a .. e \subseteq T
    BY <2>1 DEF Intervals, Pair
  <2> QED BY <2>1, <2>2
<1>3. Extend(r, x) = IF x > e + 1 THEN Append(r, <<x, x>>)
                     ELSE [r EXCEPT ![n] = <<a, x>>]
  BY DEF Extend
<1> HIDE DEF n, a, e
<1>4. CASE x > e + 1
  <2> DEFINE q == Append(r, <<x, x>>)
  <2>1. /\ q \in Seq(Pair) /\ Len(q) = n + 1
        /\ q[n + 1] = <<x, x>> /\ \A i \in 1 .. n : q[i] = r[i]
    <3>1. <<x, x>> \in Pair
      BY DEF Pair
    <3> QED BY <1>1, <3>1, AppendProperties DEF n
  <2> HIDE DEF q
  <2>2. \A g : g \in Range(q) <=> \E i \in 1 .. n + 1 : g = q[i]
    <3> DEFINE k == n + 1
    <3>1. Listed(q, k)
      BY <2>1, SequenceIsListed
    <3> QED BY <3>1 DEF Listed
  <2>3. Range(q) = Range(r) \cup {<<x, x>>}
    <3>1. n + 1 \in 1 .. n + 1 /\ \A i \in 1 .. n : i \in 1 .. n + 1
      BY <1>1
    <3>2. \A i \in 1 .. n + 1 : i = n + 1 \/ i \in 1 .. n
      BY <1>1
    <3>3. ASSUME NEW g \in Range(q) PROVE g \in Range(r) \cup {<<x, x>>}
      <4>1. PICK i \in 1 .. n + 1 : g = q[i]
        BY <2>2
      <4> QED BY <1>1, <2>1, <3>2, <4>1
    <3>4. ASSUME NEW g \in Range(r) PROVE g \in Range(q)
      <4>1. PICK i \in 1 .. n : g = r[i]
        BY <1>1
      <4> QED BY <2>1, <2>2, <3>1, <4>1
    <3>5. <<x, x>> \in Range(q)
      BY <2>1, <2>2, <3>1
    <3> QED BY <3>3, <3>4, <3>5
  <2>4. Intervals(T \cup {x}) = Intervals(T) \cup {<<x, x>>}
    <3>1. \A k \in T : k + 1 < x
      BY <1>1, <1>2, <1>4
    <3> QED BY <3>1, IntervalApart
  <2>5. \A i \in 1 .. n : q[i][2] < x
    <3>1. ASSUME NEW i \in 1 .. n PROVE r[i][2] < x
      <4>1. r[i] \in Pair /\ (i \in 1 .. n - 1 \/ i = n)
        BY <1>1
      <4> QED BY <1>1, <1>2, <1>4, <4>1, SMTT(20) DEF Pair
    <3> QED BY <2>1, <3>1
  <2>6. q[n + 1][1] = x /\ q[n + 1][2] = x /\ (n + 1) - 1 = n
    BY <1>1, <2>1
  <2>7. \A k \in T \cup {x} : k <= q[n + 1][2]
    BY <1>1, <1>2, <1>4, <2>6
  <2>8. /\ Len(q) >= 1 /\ q[Len(q)] = q[n + 1] /\ Len(q) - 1 = n
        /\ Range(q) = Intervals(T \cup {x})
    <3>1. Range(q) = Intervals(T \cup {x})
      BY <1>1, <2>3, <2>4
    <3> QED BY <1>1, <2>1, <3>1
  <2>9. IsRangesOf(q, T \cup {x})
    BY <2>1, <2>5, <2>6, <2>7, <2>8 DEF IsRangesOf
  <2> QED BY <1>3, <1>4, <2>9 DEF q
<1>5. CASE ~ (x > e + 1)
  <2> DEFINE q == [r EXCEPT ![n] = <<a, x>>]
  <2>0. x = e + 1
    BY <1>1, <1>2, <1>5
  <2>1. /\ q \in Seq(Pair) /\ Len(q) = n
        /\ \A i \in 1 .. n : q[i] = IF i = n THEN <<a, x>> ELSE r[i]
    <3>1. <<a, x>> \in Pair /\ n \in 1 .. Len(r)
      BY <1>1, <1>2 DEF n, Pair
    <3> QED BY <1>1, <3>1, ExceptSeq DEF n
  <2> HIDE DEF q
  <2>2. \A g : g \in Range(q) <=> \E i \in 1 .. n : g = q[i]
    <3>1. Listed(q, n)
      BY <2>1, SequenceIsListed
    <3> QED BY <3>1 DEF Listed
  <2>3. \A i \in 1 .. n - 1 : r[i] # <<a, e>> /\ q[i] = r[i]
    <3>1. ASSUME NEW i \in 1 .. n - 1 PROVE r[i] # <<a, e>>
      <4>1. r[i] \in Pair /\ r[i][2] < a
        BY <1>1
      <4> QED BY <1>2, <4>1
    <3> QED BY <1>1, <2>1, <3>1
  <2>4. Range(q) = (Range(r) \ {<<a, e>>}) \cup {<<a, x>>}
    <3>1. \A i \in 1 .. n : i = n \/ i \in 1 .. n - 1
      BY <1>1
    <3>2. n \in 1 .. n /\ q[n] = <<a, x>> /\ \A i \in 1 .. n - 1 : i \in 1 .. n
      BY <1>1, <2>1
    <3>3. ASSUME NEW g \in Range(q) PROVE g \in (Range(r) \ {<<a, e>>}) \cup {<<a, x>>}
      <4>1. PICK i \in 1 .. n : g = q[i]
        BY <2>2
      <4>2. CASE i = n
        BY <3>2, <4>1, <4>2
      <4>3. CASE i \in 1 .. n - 1
        BY <1>1, <2>3, <3>2, <4>1, <4>3
      <4> QED BY <3>1, <4>2, <4>3
    <3>4. ASSUME NEW g \in Range(r), g # <<a, e>> PROVE g \in Range(q)
      BY <1>1, <1>2, <2>2, <2>3, <3>1, <3>2, <3>4
    <3>5. <<a, x>> \in Range(q)
      BY <2>2, <3>2
    <3> QED BY <3>3, <3>4, <3>5
  <2>5. Intervals(T \cup {x}) = (Intervals(T) \ {<<a, e>>}) \cup {<<a, x>>}
    <3>1. a \in Nat /\ e \in Nat /\ IsLast(a, e, T)
      BY <1>1, <1>2 DEF IsLast
    <3>2. Joined(a, e, T)
      BY <3>1, IntervalJoined
    <3> QED BY <2>0, <3>2 DEF Joined
  <2>6. q[n] = <<a, x>>
    BY <1>1, <2>1
  <2>7. \A k \in T \cup {x} : k <= q[n][2]
    BY <1>1, <1>2, <2>0, <2>6
  <2>8. \A i \in 1 .. n - 1 : q[i][2] < q[n][1]
    <3>1. q[n][1] = a
      BY <2>6
    <3> QED BY <1>1, <2>3, <3>1
  <2>9. IsRangesOf(q, T \cup {x})
    BY <1>1, <2>1, <2>4, <2>5, <2>7, <2>8 DEF IsRangesOf
  <2> QED BY <1>3, <1>5, <2>9 DEF q
<1> QED BY <1>4, <1>5

\* Ranges returns the maximal intervals of the missing versions.
LEMMA RangesAreIntervals ==
  ASSUME NEW missing, missing \subseteq Nat, IsFiniteSet(missing)
  PROVE  /\ Ranges(missing) \in Seq(Pair)
         /\ Range(Ranges(missing)) = Intervals(missing)
<1>1. CASE missing = {}
  <2>1. Ranges(missing) = <<>>
    BY <1>1 DEF Ranges
  <2>2. Range(<<>>) = {}
    BY DEF Range
  <2>3. \A g \in Nat \X Nat : g[1] <= g[2] => g[1] \in g[1] .. g[2]
    OBVIOUS
  <2>4. Intervals(missing) = {}
    BY <1>1, <2>3 DEF Intervals
  <2> QED BY <2>1, <2>2, <2>4
<1>2. CASE missing # {}
  <2> DEFINE m == Min(missing)
             S == missing \ {m}
             b == <<<<m, m>>>>
  <2>1. m \in missing /\ m \in Nat /\ \A n \in missing : m <= n
    BY <1>2, Extrema
  <2>2. PICK f : Looping(f, b, S) /\ Ranges(missing) = f[S]
    BY <1>2, RangesDef
  <2> HIDE DEF m
  <2>3. S \subseteq Nat /\ IsFiniteSet(S)
    BY FS_Subset
  <2>4. \A s \in SUBSET S : f[s] = IF s = {} THEN b ELSE Extend(f[s \ {Max(s)}], Max(s))
    BY <2>2 DEF Looping
  <2> DEFINE T == {s \in SUBSET S : IsRangesOf(f[s], s \cup {m})}
  <2>5. ASSUME NEW s \in SUBSET S, \A u \in SUBSET s : u # s => u \in T
        PROVE  s \in T
    <3>1. CASE s = {}
      <4>1. f[s] = b /\ s \cup {m} = {m}
        BY <2>4, <3>1
      <4>2. /\ b \in Seq(Pair) /\ Len(b) = 1 /\ b[1] = <<m, m>>
        BY <2>1 DEF Pair
      <4>3. Range(b) = {<<m, m>>}
        <5> HIDE DEF b
        <5>1. Listed(b, 1)
          BY <4>2, SequenceIsListed
        <5>2. 1 .. 1 = {1}
          OBVIOUS
        <5>3. \A g : g \in Range(b) <=> g = b[1]
          BY <5>1, <5>2 DEF Listed
        <5> QED BY <4>2, <5>3
      <4>4. Intervals({m}) = {<<m, m>>}
        <5>1. ASSUME NEW g \in Intervals({m}) PROVE g = <<m, m>>
          <6>1. g \in Nat \X Nat /\ g[1] <= g[2] /\ g[1] .. g[2] \subseteq {m}
            BY DEF Intervals
          <6>2. g[1] \in {m} /\ g[2] \in {m} /\ g = <<g[1], g[2]>>
            BY <6>1
          <6> QED BY <6>2
        <5>2. m .. m = {m} /\ m - 1 \notin {m} /\ m + 1 \notin {m}
          BY <2>1
        <5>3. <<m, m>> \in Intervals({m})
          BY <2>1, <5>2 DEF Intervals
        <5> QED BY <5>1, <5>3
      <4> HIDE DEF b
      <4>5. IsRangesOf(b, {m})
        BY <2>1, <4>2, <4>3, <4>4 DEF IsRangesOf
      <4> QED BY <4>1, <4>5
    <3>2. CASE s # {}
      <4> DEFINE x == Max(s)
                 u == s \ {x}
      <4>1. s \subseteq Nat /\ IsFiniteSet(s)
        BY <2>3, FS_Subset
      <4>2. x \in s /\ \A n \in s : n <= x
        BY <3>2, <4>1, Extrema
      <4>3. f[s] = Extend(f[u], x)
        BY <2>4, <3>2
      <4> HIDE DEF x
      <4>4. u \in SUBSET s /\ u # s
        BY <4>2
      <4>5. IsRangesOf(f[u], u \cup {m})
        BY <2>5, <4>4
      <4>6. /\ u \cup {m} \subseteq Nat /\ x \in Nat /\ \A n \in u \cup {m} : n < x
            /\ (u \cup {m}) \cup {x} = s \cup {m}
        <5>1. x \in Nat /\ m \in Nat /\ m # x /\ m <= x
          BY <2>1, <4>1, <4>2
        <5>2. \A n \in u : n \in Nat /\ n # x /\ n <= x
          BY <4>1, <4>2
        <5> QED BY <4>1, <4>2, <5>1, <5>2
      <4>7. IsRangesOf(Extend(f[u], x), (u \cup {m}) \cup {x})
        <5> DEFINE U == u \cup {m}
                   r == f[u]
        <5>1. U \subseteq Nat /\ x \in Nat /\ IsRangesOf(r, U) /\ \A n \in U : n < x
          BY <4>5, <4>6
        <5> HIDE DEF U, r
        <5>2. IsRangesOf(Extend(r, x), U \cup {x})
          BY <5>1, ExtendIsRanges
        <5> QED BY <5>2 DEF U, r
      <4> QED BY <4>3, <4>6, <4>7
    <3> QED BY <3>1, <3>2
  <2> HIDE DEF T
  <2>6. SUBSET S \subseteq T
    <3>1. IsFiniteSet(S) /\ \A s \in SUBSET S : (\A u \in SUBSET s : u # s => u \in T) => s \in T
      BY <2>3, <2>5
    <3> HIDE DEF S
    <3> QED BY <3>1, SubsetInduction
  <2>7. IsRangesOf(f[S], S \cup {m})
    BY <2>6 DEF T
  <2>8. S \cup {m} = missing
    BY <2>1
  <2> QED BY <2>2, <2>7, <2>8 DEF IsRangesOf
<1> QED BY <1>1, <1>2

-----------------------------------------------------------------------------
(* The intervals of the missing versions are the gaps.                      *)

\* What the query saw, what the ranges then are: the gaps.
LEMMA MissingIsVersions ==
  ASSUME NEW versions, versions \subseteq Version, versions # {}
  PROVE  /\ Missing(versions) \subseteq Version /\ Missing(versions) \subseteq Nat
         /\ IsFiniteSet(Missing(versions))
<1>1. versions \subseteq Nat /\ IsFiniteSet(versions)
  BY VersionAssumption, FS_Subset
<1>2. Min(versions) \in Version /\ Max(versions) \in Version
  BY <1>1, Extrema
<1>3. Missing(versions) \subseteq Version
  BY <1>2, VersionAssumption DEF Missing
<1> QED BY <1>3, VersionAssumption, FS_Subset

LEMMA IntervalsAreGaps ==
  ASSUME NEW versions, versions \subseteq Version, versions # {}
  PROVE  Intervals(Missing(versions)) = Gaps(versions)
<1> DEFINE M == Missing(versions)
           lo == Min(versions)
           hi == Max(versions)
<1>1. versions \subseteq Nat /\ IsFiniteSet(versions)
  BY VersionAssumption, FS_Subset
<1>2. /\ lo \in versions /\ hi \in versions /\ lo \in Nat /\ hi \in Nat
      /\ \A n \in versions : n \in Nat /\ lo <= n /\ n <= hi
  BY <1>1, Extrema
<1>3. M \subseteq Version /\ M \subseteq Nat
  BY MissingIsVersions
<1>4. \A n : n \in M <=> n \in Int /\ lo <= n /\ n <= hi /\ n \notin versions
  BY <1>2 DEF Missing
<1> HIDE DEF M, lo, hi
<1>5. ASSUME NEW g \in Intervals(M) PROVE g \in Gaps(versions)
  <2>1. /\ g \in Nat \X Nat /\ g[1] <= g[2] /\ g[1] .. g[2] \subseteq M
        /\ g[1] - 1 \notin M /\ g[2] + 1 \notin M
    BY DEF Intervals
  <2>2. g[1] \in M /\ g[2] \in M /\ g[1] \in Nat /\ g[2] \in Nat /\ g = <<g[1], g[2]>>
    BY <2>1
  <2>3. g[1] # lo /\ g[2] # hi
    BY <1>2, <1>4, <2>2
  <2>4. g[1] - 1 \in versions /\ g[2] + 1 \in versions
    <3>1. lo <= g[1] - 1 /\ g[1] - 1 <= hi /\ g[1] - 1 \in Int
      BY <1>2, <1>4, <2>2, <2>3
    <3>2. lo <= g[2] + 1 /\ g[2] + 1 <= hi /\ g[2] + 1 \in Int
      BY <1>2, <1>4, <2>2, <2>3
    <3> QED BY <1>4, <2>1, <3>1, <3>2
  <2>5. (g[1] .. g[2]) \cap versions = {}
    BY <1>4, <2>1
  <2>6. g \in Version \X Version
    BY <1>3, <2>2
  <2> QED BY <2>1, <2>4, <2>5, <2>6 DEF Gaps
<1>6. ASSUME NEW g \in Gaps(versions) PROVE g \in Intervals(M)
  <2>1. /\ g \in Version \X Version /\ g[1] <= g[2]
        /\ (g[1] .. g[2]) \cap versions = {}
        /\ g[1] - 1 \in versions /\ g[2] + 1 \in versions
    BY DEF Gaps
  <2>2. g[1] \in Nat /\ g[2] \in Nat /\ g = <<g[1], g[2]>> /\ g \in Nat \X Nat
    <3>1. g[1] \in Version /\ g[2] \in Version /\ g = <<g[1], g[2]>>
      BY <2>1
    <3>2. g[1] \in Nat /\ g[2] \in Nat
      BY <3>1, VersionAssumption
    <3> QED BY <3>1, <3>2
  <2>3. g[1] - 1 \notin M /\ g[2] + 1 \notin M
    BY <1>4, <2>1
  <2>4. g[1] .. g[2] \subseteq M
    <3>1. SUFFICES ASSUME NEW n \in g[1] .. g[2] PROVE n \in M
      OBVIOUS
    <3>2. lo <= g[1] - 1 /\ g[2] + 1 <= hi
      BY <1>2, <2>1
    <3>3. n \in Int /\ lo <= n /\ n <= hi /\ n \notin versions
      BY <1>2, <2>1, <2>2, <3>2
    <3> QED BY <1>4, <3>3
  <2> QED BY <2>1, <2>2, <2>3, <2>4 DEF Intervals
<1>7. Intervals(M) = Gaps(versions)
  BY <1>5, <1>6
<1> QED BY <1>7 DEF M

LEMMA RangesAreGaps ==
  ASSUME NEW versions, versions \subseteq Version, versions # {}
  PROVE  /\ Ranges(Missing(versions)) \in Seq(Pair)
         /\ Range(Ranges(Missing(versions))) = Gaps(versions)
<1> DEFINE M == Missing(versions)
<1>1. M \subseteq Nat /\ IsFiniteSet(M) /\ Intervals(M) = Gaps(versions)
  BY MissingIsVersions, IntervalsAreGaps
<1> HIDE DEF M
<1>2. Ranges(M) \in Seq(Pair) /\ Range(Ranges(M)) = Intervals(M)
  BY <1>1, RangesAreIntervals DEF Pair
<1> QED BY <1>1, <1>2 DEF M

\* The first of a sequence's elements, and the others.
LEMMA HeadAndTail ==
  ASSUME NEW S, NEW q \in Seq(S), q # <<>>
  PROVE  /\ Tail(q) \in Seq(S)
         /\ Range(q) = Range(Tail(q)) \cup {Head(q)}
<1> DEFINE t == Tail(q)
           n == Len(q)
           m == Len(t)
<1>1. /\ Head(q) = q[1] /\ t \in Seq(S) /\ m = n - 1
      /\ \A i \in 1 .. m : t[i] = q[i + 1]
  BY HeadTailProperties
<1>2. n \in Nat /\ n # 0
  BY EmptySeq, LenProperties
<1>3. Listed(q, n) /\ Listed(t, m)
  BY <1>1, SequenceIsListed
<1> HIDE DEF t, n, m
<1>4. ASSUME NEW g \in Range(q) PROVE g \in Range(t) \cup {Head(q)}
  <2>1. PICK i \in 1 .. n : g = q[i]
    BY <1>3 DEF Listed
  <2>2. CASE i = 1
    BY <1>1, <2>1, <2>2
  <2>3. CASE i # 1
    <3>1. i - 1 \in 1 .. m /\ (i - 1) + 1 = i
      BY <1>1, <1>2, <2>3
    <3>2. g = t[i - 1]
      BY <1>1, <2>1, <3>1
    <3> QED BY <1>3, <3>1, <3>2 DEF Listed
  <2> QED BY <2>2, <2>3
<1>5. ASSUME NEW g \in Range(t) PROVE g \in Range(q)
  <2>1. PICK i \in 1 .. m : g = t[i]
    BY <1>3 DEF Listed
  <2>2. i + 1 \in 1 .. n /\ g = q[i + 1]
    BY <1>1, <1>2, <2>1
  <2> QED BY <1>3, <2>2 DEF Listed
<1>6. Head(q) \in Range(q)
  <2>1. 1 \in 1 .. n
    BY <1>2
  <2> QED BY <1>1, <1>3, <2>1 DEF Listed
<1>7. Range(q) = Range(t) \cup {Head(q)}
  BY <1>4, <1>5, <1>6
<1> QED BY <1>1, <1>7 DEF t

-----------------------------------------------------------------------------
(* The inductive invariant and the tasks of the backfill                    *)

Task == {"query", "array", "check", "publish", "done", "failed"}

TypeInv ==
    /\ copies \in [Row -> Nat]
    /\ requested \subseteq Row
    /\ task \in [Day -> Task]
    /\ seen \in [Day -> SUBSET Version]
    /\ queue \in [Day -> Seq(Pair)]
    /\ published \in [Day -> SUBSET Pair]
    /\ merged \in [Day -> [Table -> {"due", "done"}]]
    /\ report \in [Day -> [Counted -> {"due", "clean", "alert"}]]

\* What was published and what is still to be published are gaps of what the
\* query saw, and in the publishing task they are all of them.
BackfillInv(d) ==
    /\ published[d] \subseteq Gaps(seen[d])
    /\ task[d] \in {"query", "array", "check"} => queue[d] = <<>> /\ published[d] = {}
    /\ task[d] = "query" => seen[d] = {}
    /\ task[d] \in {"check", "publish", "done"} => seen[d] # {}
    /\ task[d] = "publish" => published[d] \cup Range(queue[d]) = Gaps(seen[d])
    /\ task[d] = "done" /\ d \notin swallowed => published[d] = Gaps(seen[d])
    /\ d \in swallowed => task[d] = "done"

\* A row of a deduplicated day that did not come later is there once at most.
MergedInv ==
    \A d \in Day, t \in Table :
        merged[d][t] = "done" => \A r \in RowsOf(d, t) : r \in late \/ copies[r] <= 1

QCInv == TypeInv /\ (\A d \in Day : BackfillInv(d)) /\ MergedInv

LEMMA NoGapsOfNothing == Gaps({}) = {}
  BY DEF Gaps

LEMMA RangeOfEmpty == Range(<<>>) = {}
  BY DEF Range

LEMMA InitInv == Init => QCInv
<1> SUFFICES ASSUME Init PROVE QCInv
  OBVIOUS
<1>1. /\ copies \in [Row -> 0 .. 2] /\ requested \subseteq Row
      /\ task = [d \in Day |-> "query"] /\ seen = [d \in Day |-> {}]
      /\ queue = [d \in Day |-> <<>>] /\ published = [d \in Day |-> {}]
      /\ swallowed = {}
      /\ merged = [d \in Day |-> [t \in Table |-> "due"]]
      /\ report = [d \in Day |-> [c \in Counted |-> "due"]]
  BY DEF Init, Streamed
<1>2. TypeInv
  <2>1. copies \in [Row -> Nat]
    BY <1>1
  <2>2. queue \in [Day -> Seq(Pair)]
    BY <1>1, EmptySeq
  <2> QED BY <1>1, <2>1, <2>2 DEF TypeInv, Task
<1>3. ASSUME NEW d \in Day PROVE BackfillInv(d)
  BY <1>1, NoGapsOfNothing DEF BackfillInv
<1>4. MergedInv
  BY <1>1 DEF MergedInv
<1> QED BY <1>2, <1>3, <1>4 DEF QCInv

-----------------------------------------------------------------------------
\* A day of whose backfill nothing changes keeps its invariant.
LEMMA OtherDays ==
  ASSUME NEW d \in Day, BackfillInv(d),
         task'[d] = task[d], seen'[d] = seen[d], queue'[d] = queue[d],
         published'[d] = published[d], (d \in swallowed') <=> (d \in swallowed)
  PROVE  BackfillInv(d)'
  BY DEF BackfillInv, Gaps

LEMMA BackfillKept ==
  ASSUME QCInv, UNCHANGED backfill
  PROVE  \A d \in Day : BackfillInv(d)'
  BY OtherDays DEF QCInv, backfill

LEMMA MergedKept ==
  ASSUME QCInv, UNCHANGED <<copies, merged, late>>
  PROVE  MergedInv'
  BY DEF QCInv, MergedInv, RowsOf, InWindow

\* The task fails and is repeated, or has failed.
LEMMA AttemptFailsInv ==
  ASSUME QCInv, NEW d \in Day, \E t \in {"query", "array", "check", "publish"} : At(d, t),
         AttemptFails(d), UNCHANGED <<requested, seen, published, swallowed, external>>
  PROVE  QCInv'
<1>1. /\ TypeInv /\ \A e \in Day : BackfillInv(e)
      /\ task[d] \in {"query", "array", "check", "publish"}
      /\ d \notin swallowed
  BY DEF QCInv, At, BackfillInv
<1>2. MergedInv'
  BY MergedKept DEF external
<1>3. CASE tries[d] = 0
  <2> DEFINE q == IF task[d] = "publish" THEN Ranges(Missing(seen[d])) ELSE <<>>
  <2>1. queue' = [queue EXCEPT ![d] = q] /\ UNCHANGED task
    BY <1>3 DEF AttemptFails
  <2>2. q \in Seq(Pair) /\ (task[d] = "publish" => Range(q) = Gaps(seen[d]))
    <3>1. CASE task[d] = "publish"
      <4>1. seen[d] \subseteq Version /\ seen[d] # {}
        BY <1>1, <3>1 DEF TypeInv, BackfillInv
      <4> QED BY <3>1, <4>1, RangesAreGaps
    <3>2. CASE task[d] # "publish"
      BY <3>2, EmptySeq
    <3> QED BY <3>1, <3>2
  <2>3. task[d] # "publish" => q = <<>>
    OBVIOUS
  <2> HIDE DEF q
  <2>4. TypeInv'
    BY <1>1, <2>1, <2>2 DEF TypeInv, external
  <2>5. /\ queue'[d] = q /\ task'[d] = task[d] /\ seen' = seen /\ published' = published
        /\ swallowed' = swallowed
        /\ \A e \in Day : e # d => queue'[e] = queue[e]
    BY <1>1, <2>1 DEF TypeInv
  <2>6. BackfillInv(d)'
    BY <1>1, <2>2, <2>3, <2>5 DEF BackfillInv, Gaps
  <2>7. ASSUME NEW e \in Day, e # d PROVE BackfillInv(e)'
    BY <1>1, <2>1, <2>5, <2>7, OtherDays
  <2> QED BY <1>2, <2>4, <2>6, <2>7 DEF QCInv
<1>4. CASE tries[d] # 0
  <2>1. task' = [task EXCEPT ![d] = "failed"] /\ UNCHANGED queue
    BY <1>4 DEF AttemptFails
  <2>2. TypeInv'
    BY <1>1, <2>1 DEF TypeInv, Task, external
  <2>3. /\ task'[d] = "failed" /\ seen' = seen /\ published' = published
        /\ swallowed' = swallowed /\ \A e \in Day : e # d => task'[e] = task[e]
    BY <1>1, <2>1 DEF TypeInv
  <2>4. BackfillInv(d)'
    BY <1>1, <2>3 DEF BackfillInv, Gaps
  <2>5. ASSUME NEW e \in Day, e # d PROVE BackfillInv(e)'
    BY <1>1, <2>1, <2>3, <2>5, OtherDays
  <2> QED BY <1>2, <2>2, <2>4, <2>5 DEF QCInv
<1> QED BY <1>3, <1>4

LEMMA QueryInv ==
  ASSUME QCInv, NEW d \in Day, bigquery_all_versions(d)
  PROVE  QCInv'
<1>1. /\ TypeInv /\ \A e \in Day : BackfillInv(e)
      /\ task[d] = "query"
      /\ task' = [task EXCEPT ![d] = "array"]
      /\ seen' = [seen EXCEPT ![d] = {v \in Version : InWindow(d, v) /\ Stored(v)}]
      /\ UNCHANGED <<requested, queue, published, swallowed, external>>
  BY DEF QCInv, bigquery_all_versions, At, ContinueAt
<1>2. MergedInv'
  BY <1>1, MergedKept DEF external
<1>3. TypeInv'
  BY <1>1 DEF TypeInv, Task, external
<1>4. ASSUME NEW e \in Day, e # d PROVE BackfillInv(e)'
  BY <1>1, <1>4, OtherDays DEF TypeInv
<1>5. BackfillInv(d)'
  <2>1. task'[d] = "array" /\ queue'[d] = <<>> /\ published'[d] = {} /\ d \notin swallowed'
    BY <1>1 DEF TypeInv, BackfillInv
  <2> QED BY <2>1 DEF BackfillInv
<1> QED BY <1>2, <1>3, <1>4, <1>5 DEF QCInv

LEMMA ArrayInv ==
  ASSUME QCInv, NEW d \in Day, generate_integers_array(d)
  PROVE  QCInv'
<1>1. /\ TypeInv /\ \A e \in Day : BackfillInv(e)
      /\ At(d, "array") /\ task[d] = "array"
      /\ UNCHANGED <<requested, seen, published, swallowed, external>>
  BY DEF QCInv, generate_integers_array, At
<1>2. CASE seen[d] = {}
  <2>1. AttemptFails(d)
    BY <1>2 DEF generate_integers_array
  <2> QED BY <1>1, <2>1, AttemptFailsInv
<1>3. CASE seen[d] # {}
  <2>1. task' = [task EXCEPT ![d] = "check"] /\ UNCHANGED queue
    BY <1>3 DEF generate_integers_array, ContinueAt
  <2>2. MergedInv'
    BY <1>1, MergedKept DEF external
  <2>3. TypeInv'
    BY <1>1, <2>1 DEF TypeInv, Task, external
  <2>4. ASSUME NEW e \in Day, e # d PROVE BackfillInv(e)'
    BY <1>1, <2>1, <2>4, OtherDays DEF TypeInv
  <2>5. BackfillInv(d)'
    <3>1. /\ task'[d] = "check" /\ queue'[d] = <<>> /\ published'[d] = {}
          /\ d \notin swallowed' /\ seen'[d] # {}
      BY <1>1, <1>3, <2>1 DEF TypeInv, BackfillInv
    <3> QED BY <3>1 DEF BackfillInv
  <2> QED BY <2>2, <2>3, <2>4, <2>5 DEF QCInv
<1> QED BY <1>2, <1>3

LEMMA CheckInv ==
  ASSUME QCInv, NEW d \in Day, check_missing_values(d)
  PROVE  QCInv'
<1> DEFINE q == Ranges(Missing(seen[d]))
<1>1. /\ TypeInv /\ \A e \in Day : BackfillInv(e)
      /\ task[d] = "check"
      /\ task' = [task EXCEPT ![d] = "publish"]
      /\ queue' = [queue EXCEPT ![d] = q]
      /\ UNCHANGED <<requested, seen, published, swallowed, external>>
  BY DEF QCInv, check_missing_values, At, ContinueAt
<1>2. q \in Seq(Pair) /\ Range(q) = Gaps(seen[d])
  <2>1. seen[d] \subseteq Version /\ seen[d] # {}
    BY <1>1 DEF TypeInv, BackfillInv
  <2> QED BY <2>1, RangesAreGaps
<1> HIDE DEF q
<1>3. MergedInv'
  BY <1>1, MergedKept DEF external
<1>4. TypeInv'
  BY <1>1, <1>2 DEF TypeInv, Task, external
<1>5. ASSUME NEW e \in Day, e # d PROVE BackfillInv(e)'
  BY <1>1, <1>5, OtherDays DEF TypeInv
<1>6. BackfillInv(d)'
  <2>1. /\ task'[d] = "publish" /\ queue'[d] = q /\ published'[d] = {}
        /\ d \notin swallowed' /\ seen'[d] = seen[d] /\ seen[d] # {}
    BY <1>1 DEF TypeInv, BackfillInv
  <2> QED BY <1>2, <2>1 DEF BackfillInv, Gaps
<1> QED BY <1>3, <1>4, <1>5, <1>6 DEF QCInv

LEMMA PublishInv ==
  ASSUME QCInv, NEW d \in Day, publish_range(d)
  PROVE  QCInv'
<1>1. /\ TypeInv /\ \A e \in Day : BackfillInv(e)
      /\ task[d] = "publish" /\ d \notin swallowed
      /\ UNCHANGED <<seen, swallowed, external>>
  BY DEF QCInv, publish_range, At, BackfillInv
<1>2. MergedInv'
  BY <1>1, MergedKept DEF external
<1>3. CASE queue[d] # <<>>
  <2> DEFINE q == queue[d]
  <2>1. /\ queue' = [queue EXCEPT ![d] = Tail(q)]
        /\ published' = [published EXCEPT ![d] = @ \cup {Head(q)}]
        /\ requested' = requested \cup
              {r \in Row : r.version \in Head(q)[1] .. Head(q)[2]}
        /\ UNCHANGED task
    BY <1>3 DEF publish_range
  <2>2. q \in Seq(Pair) /\ published[d] \subseteq Pair
    BY <1>1 DEF TypeInv
  <2>3. Tail(q) \in Seq(Pair) /\ Head(q) \in Pair /\ Range(q) = Range(Tail(q)) \cup {Head(q)}
    BY <1>3, <2>2, HeadAndTail, HeadTailProperties
  <2>4. published[d] \cup Range(q) = Gaps(seen[d]) /\ seen[d] # {}
    BY <1>1 DEF BackfillInv
  <2> HIDE DEF q
  <2>5. TypeInv'
    <3>1. queue' \in [Day -> Seq(Pair)]
      BY <1>1, <2>1, <2>3 DEF TypeInv
    <3>2. published' \in [Day -> SUBSET Pair]
      BY <1>1, <2>1, <2>2, <2>3 DEF TypeInv
    <3>3. requested' \subseteq Row
      BY <1>1, <2>1 DEF TypeInv
    <3> QED BY <1>1, <2>1, <3>1, <3>2, <3>3 DEF TypeInv, external
  <2>6. ASSUME NEW e \in Day, e # d PROVE BackfillInv(e)'
    BY <1>1, <2>1, <2>6, OtherDays DEF TypeInv
  <2>7. BackfillInv(d)'
    <3>1. /\ task'[d] = "publish" /\ queue'[d] = Tail(q)
          /\ published'[d] = published[d] \cup {Head(q)}
          /\ d \notin swallowed' /\ seen'[d] = seen[d]
      BY <1>1, <2>1 DEF TypeInv
    <3>2. /\ published'[d] \cup Range(Tail(q)) = Gaps(seen[d])
          /\ published'[d] \subseteq Gaps(seen[d])
      BY <2>3, <2>4, <3>1
    <3> QED BY <2>4, <3>1, <3>2 DEF BackfillInv, Gaps
  <2> QED BY <1>2, <2>5, <2>6, <2>7 DEF QCInv
<1>4. CASE queue[d] = <<>>
  <2>1. /\ task' = [task EXCEPT ![d] = "done"]
        /\ UNCHANGED <<requested, queue, published>>
    BY <1>4 DEF publish_range, ContinueAt
  <2>2. TypeInv'
    BY <1>1, <2>1 DEF TypeInv, Task, external
  <2>3. ASSUME NEW e \in Day, e # d PROVE BackfillInv(e)'
    BY <1>1, <2>1, <2>3, OtherDays DEF TypeInv
  <2>4. BackfillInv(d)'
    <3>1. /\ task'[d] = "done" /\ published'[d] = published[d] /\ d \notin swallowed'
          /\ seen'[d] = seen[d] /\ seen[d] # {}
      BY <1>1, <2>1 DEF TypeInv, BackfillInv
    <3>2. published[d] = Gaps(seen[d])
      <4>1. published[d] \cup Range(queue[d]) = Gaps(seen[d]) /\ Range(queue[d]) = {}
        BY <1>1, <1>4, RangeOfEmpty DEF BackfillInv
      <4> QED BY <4>1
    <3> QED BY <3>1, <3>2 DEF BackfillInv, Gaps
  <2> QED BY <1>2, <2>2, <2>3, <2>4 DEF QCInv
<1> QED BY <1>3, <1>4

LEMMA RaisesInv ==
  ASSUME QCInv, NEW d \in Day, PublishRaises(d)
  PROVE  QCInv'
<1>1. /\ TypeInv /\ \A e \in Day : BackfillInv(e)
      /\ task[d] = "publish"
      /\ task' = [task EXCEPT ![d] = "done"]
      /\ swallowed' = swallowed \cup {d}
      /\ UNCHANGED <<requested, seen, queue, published, external>>
  BY DEF QCInv, PublishRaises, At, ContinueAt
<1>2. MergedInv'
  BY <1>1, MergedKept DEF external
<1>3. TypeInv'
  BY <1>1 DEF TypeInv, Task, external
<1>4. ASSUME NEW e \in Day, e # d PROVE BackfillInv(e)'
  BY <1>1, <1>4, OtherDays DEF TypeInv
<1>5. BackfillInv(d)'
  <2>1. /\ task'[d] = "done" /\ published'[d] = published[d] /\ d \in swallowed'
        /\ seen'[d] = seen[d] /\ seen[d] # {} /\ published[d] \subseteq Gaps(seen[d])
    BY <1>1 DEF TypeInv, BackfillInv
  <2> QED BY <2>1 DEF BackfillInv, Gaps
<1> QED BY <1>2, <1>3, <1>4, <1>5 DEF QCInv

LEMMA InterruptInv ==
  ASSUME QCInv, NEW d \in Day, Interrupt(d)
  PROVE  QCInv'
<1>1. /\ \E t \in {"query", "array", "check", "publish"} : At(d, t)
      /\ AttemptFails(d)
      /\ UNCHANGED <<requested, seen, published, swallowed, external>>
  BY DEF Interrupt
<1> QED BY <1>1, AttemptFailsInv

LEMMA CountInv ==
  ASSUME QCInv, NEW d \in Day, NEW c \in Counted, CountRows(d, c)
  PROVE  QCInv'
<1>1. TypeInv /\ UNCHANGED <<copies, requested, backfill, merged, late>>
      /\ report' \in [Day -> [Counted -> {"due", "clean", "alert"}]]
  BY DEF QCInv, CountRows, TypeInv
<1>2. MergedInv' /\ \A e \in Day : BackfillInv(e)'
  BY <1>1, MergedKept, BackfillKept
<1>3. TypeInv'
  BY <1>1 DEF TypeInv, backfill
<1> QED BY <1>2, <1>3 DEF QCInv

-----------------------------------------------------------------------------
(* The deduplication, the streaming, and the theorems they are needed for   *)

\* The fields of a row.
LEMMA RowFields ==
  ASSUME NEW r \in Row
  PROVE  /\ r.table \in Table /\ r.version \in Version
         /\ r.index \in 1 .. Expected[r.table][r.version]
         /\ r = [table |-> r.table, version |-> r.version, index |-> r.index]
<1>1. PICK t \in Table, v \in Version :
         r \in {[table |-> t, version |-> v, index |-> i] : i \in 1 .. Expected[t][v]}
  BY DEF Row
<1>2. PICK i \in 1 .. Expected[t][v] : r = [table |-> t, version |-> v, index |-> i]
  BY <1>1
<1>3. r.table = t /\ r.version = v /\ r.index = i
  BY <1>2
<1> QED BY <1>2, <1>3

RowsFor(t, v) == {[table |-> t, version |-> v, index |-> i] : i \in 1 .. Expected[t][v]}

LEMMA RowOf ==
  ASSUME NEW t \in Table, NEW v \in Version
  PROVE  RowsFor(t, v) \subseteq Row
<1>1. Row = UNION {RowsFor(u, w) : u \in Table, w \in Version}
  BY DEF Row, RowsFor
<1>2. RowsFor(t, v) \in {RowsFor(u, w) : u \in Table, w \in Version}
  OBVIOUS
<1> QED BY <1>1, <1>2

\* SQL_MERGE_TABLE's keys tell the rows of a table apart, but for a signature and
\* its twins.
LEMMA KeysTellApart ==
  ASSUME NEW r \in Row, NEW k \in Row, r.table = k.table, Key(k) = Key(r)
  PROVE  k = r \/ k \in Twins(r)
<1> DEFINE t == r.table
<1>1. /\ t \in Table /\ r.version \in Version /\ k.version \in Version
      /\ Expected[t][r.version] \in Nat /\ Expected[t][k.version] \in Nat
      /\ r.index \in 1 .. Expected[t][r.version]
      /\ k.index \in 1 .. Expected[t][k.version]
      /\ r = [table |-> t, version |-> r.version, index |-> r.index]
      /\ k = [table |-> t, version |-> k.version, index |-> k.index]
  BY RowFields, ExpectedAssumption
<1>2. CASE t = "signatures"
  <2>1. /\ Key(r) = <<SignatureKey[r.version][r.index], r.version>>
        /\ Key(k) = <<SignatureKey[k.version][k.index], k.version>>
    <3>1. r.table = "signatures" /\ k.table = "signatures"
      BY <1>2
    <3> QED BY <3>1 DEF Key
  <2>2. k.version = r.version
        /\ SignatureKey[k.version][k.index] = SignatureKey[r.version][r.index]
    BY <2>1
  <2> QED BY <1>2, <2>2 DEF Twins
<1>3. CASE t # "signatures" /\ k.version = r.version /\ k.index = r.index
  BY <1>1, <1>3
<1>4. ASSUME t # "signatures" PROVE k.version = r.version /\ k.index = r.index
  <2>1. CASE t = "transactions"
    <3>1. Key(r) = <<r.version>> /\ Key(k) = <<k.version>>
      <4>1. r.table = "transactions" /\ k.table = "transactions" /\ "transactions" \notin Child
        BY <2>1 DEF Child, Counted
      <4> QED BY <4>1 DEF Key
    <3>2. Expected[t][r.version] = 1 /\ Expected[t][k.version] = 1
      BY <1>1, <2>1, ExpectedAssumption
    <3> QED BY <1>1, <3>1, <3>2
  <2>2. CASE t = "blocks"
    <3>1. Key(r) = <<BlockOf[r.version]>> /\ Key(k) = <<BlockOf[k.version]>>
      <4>1. r.table = "blocks" /\ k.table = "blocks" /\ "blocks" \notin Child
        BY <2>2 DEF Child, Counted
      <4> QED BY <4>1 DEF Key
    <3>2. BlockOf[r.version] = BlockOf[k.version]
      BY <3>1
    <3>3. Expected[t][r.version] = 1 /\ Expected[t][k.version] = 1
      <4>1. Expected[t][r.version] <= 1 /\ Expected[t][k.version] <= 1
        BY <1>1, <2>2, BlocksAssumption
      <4> QED BY <1>1, <4>1
    <3>4. r.version = k.version
      BY <1>1, <2>2, <3>2, <3>3, BlocksAssumption
    <3> QED BY <1>1, <3>3, <3>4
  <2>3. CASE t \in Child
    <3>1. t # "transactions" /\ t # "blocks"
      BY <2>3 DEF Child, Counted
    <3>2. Key(r) = <<r.index, r.version>> /\ Key(k) = <<k.index, k.version>>
      BY <1>4, <2>3, <3>1 DEF Key
    <3> QED BY <3>2
  <2> QED BY <1>1, <2>1, <2>2, <2>3 DEF Child, Counted
<1> QED BY <1>2, <1>3, <1>4

\* The merge leaves each row it finds in the window there once, or a twin of it
\* if it does not keep the row, and the other rows as they are.
LEMMA MergeKeepsOne ==
  ASSUME TypeInv, NEW d \in Day, NEW t \in Table, Merge(d, t)
  PROVE  /\ copies' \in [Row -> Nat]
         /\ \A r \in Row : r \notin Present(RowsOf(d, t)) => copies'[r] = copies[r]
         /\ \A r \in Present(RowsOf(d, t)) :
               /\ copies'[r] \in {0, 1}
               /\ copies'[r] = 1 \/ \E q \in Twins(r) : copies'[q] = 1
<1> DEFINE rows == Present(RowsOf(d, t))
<1>1. PICK kept \in SUBSET rows :
         /\ OnePerKey(kept, rows)
         /\ copies' = [r \in Row |-> IF r \notin rows THEN copies[r]
                                     ELSE IF r \in kept THEN 1 ELSE 0]
  BY DEF Merge
<1>2. \A r \in rows : r \in Row /\ r.table = t
  BY DEF Present, RowsOf
<1> HIDE DEF rows
<1>3. \A r \in kept : r \in Row /\ copies'[r] = 1
  BY <1>1, <1>2
<1>4. ASSUME NEW r \in rows PROVE r \in kept \/ \E q \in Twins(r) : q \in kept
  <2>1. PICK k \in kept : Key(k) = Key(r)
    BY <1>1 DEF OnePerKey
  <2>2. k = r \/ k \in Twins(r)
    BY <1>2, <1>3, <2>1, KeysTellApart
  <2> QED BY <2>1, <2>2
<1>5. \A r \in Row : /\ r \notin rows => copies'[r] = copies[r]
                     /\ r \in rows => copies'[r] \in {0, 1}
  BY <1>1
<1>6. \A r \in rows : copies'[r] = 1 \/ \E q \in Twins(r) : copies'[q] = 1
  BY <1>3, <1>4
<1>7. copies' \in [Row -> Nat]
  BY <1>1 DEF TypeInv
<1> QED BY <1>2, <1>5, <1>6, <1>7 DEF rows

LEMMA MergeInv ==
  ASSUME QCInv, NEW d \in Day, NEW t \in Table, Merge(d, t)
  PROVE  QCInv'
<1> DEFINE rows == Present(RowsOf(d, t))
<1>1. /\ TypeInv /\ MergedInv
      /\ copies' \in [Row -> Nat]
      /\ \A r \in Row : /\ r \in rows => copies'[r] \in {0, 1}
                        /\ r \notin rows => copies'[r] = copies[r]
      /\ \A r \in Row : copies[r] \in Nat
  BY MergeKeepsOne DEF QCInv, TypeInv
<1>2. /\ merged' = [merged EXCEPT ![d][t] = "done"] /\ late' = late \ RowsOf(d, t)
      /\ UNCHANGED <<requested, backfill, report>>
  BY DEF Merge
<1>3. merged' \in [Day -> [Table -> {"due", "done"}]]
      /\ \A e \in Day, u \in Table :
            merged'[e][u] = "done" => merged[e][u] = "done" \/ (e = d /\ u = t)
  BY <1>1, <1>2 DEF TypeInv
<1>4. TypeInv'
  BY <1>1, <1>2, <1>3 DEF TypeInv, backfill
<1>5. \A e \in Day : BackfillInv(e)'
  BY <1>2, BackfillKept
<1>6. \A r \in Row : r \in rows <=> r \in RowsOf(d, t) /\ copies[r] > 0
  BY DEF Present
<1> HIDE DEF rows
<1>7. ASSUME NEW e \in Day, NEW u \in Table, merged'[e][u] = "done", NEW r \in RowsOf(e, u)
      PROVE  r \in late' \/ copies'[r] <= 1
  <2>1. r \in Row
    BY DEF RowsOf
  <2>2. CASE r \in rows
    BY <1>1, <2>1, <2>2
  <2>3. CASE r \notin rows /\ r \in RowsOf(d, t)
    BY <1>1, <1>6, <2>1, <2>3
  <2>4. CASE r \notin rows /\ r \notin RowsOf(d, t)
    <3>1. merged[e][u] = "done"
      BY <1>3, <1>7, <2>4
    <3>2. r \in late \/ copies[r] <= 1
      BY <1>1, <3>1 DEF MergedInv
    <3> QED BY <1>1, <1>2, <2>1, <2>4, <3>2
  <2> QED BY <2>2, <2>3, <2>4
<1>8. \A e \in Day, u \in Table : RowsOf(e, u)' = RowsOf(e, u)
  BY DEF RowsOf, InWindow
<1>9. MergedInv'
  BY <1>7, <1>8 DEF MergedInv
<1> QED BY <1>4, <1>5, <1>9 DEF QCInv

LEMMA ArriveInv ==
  ASSUME QCInv, NEW q \in Row, Arrive(q)
  PROVE  QCInv'
<1>1. /\ TypeInv /\ MergedInv /\ copies \in [Row -> Nat] /\ requested \subseteq Row
      /\ copies' = [copies EXCEPT ![q] = @ + 1] /\ requested' = requested \ {q}
      /\ UNCHANGED <<backfill, merged, report>>
      /\ late \subseteq late'
      /\ \A e \in Day : InWindow(e, q.version) /\ merged[e][q.table] = "done" => q \in late'
  BY DEF QCInv, TypeInv, Arrive
<1>2. copies' \in [Row -> Nat] /\ \A r \in Row : r # q => copies'[r] = copies[r]
  BY <1>1
<1>3. TypeInv'
  BY <1>1, <1>2 DEF TypeInv, backfill
<1>4. \A e \in Day : BackfillInv(e)'
  BY <1>1, BackfillKept
<1>5. ASSUME NEW e \in Day, NEW u \in Table, merged[e][u] = "done", NEW r \in RowsOf(e, u)
      PROVE  r \in late' \/ copies'[r] <= 1
  <2>1. r \in Row /\ r.table = u /\ InWindow(e, r.version)
    BY DEF RowsOf
  <2>2. CASE r = q
    BY <1>1, <1>5, <2>1, <2>2
  <2>3. CASE r # q
    <3>1. r \in late \/ copies[r] <= 1
      BY <1>1, <1>5 DEF MergedInv
    <3> QED BY <1>1, <1>2, <2>1, <2>3, <3>1
  <2> QED BY <2>2, <2>3
<1>6. /\ \A e \in Day, u \in Table : RowsOf(e, u)' = RowsOf(e, u)
      /\ merged' = merged
  BY <1>1 DEF RowsOf, InWindow
<1>7. MergedInv'
  BY <1>5, <1>6 DEF MergedInv
<1> QED BY <1>3, <1>4, <1>7 DEF QCInv

LEMMA StutterInv ==
  ASSUME QCInv, UNCHANGED vars
  PROVE  QCInv'
<1>1. MergedInv' /\ \A e \in Day : BackfillInv(e)'
  BY MergedKept, BackfillKept DEF vars
<1>2. TypeInv'
  BY DEF QCInv, TypeInv, vars, backfill
<1> QED BY <1>1, <1>2 DEF QCInv

LEMMA NextInv == QCInv /\ [Next]_vars => QCInv'
<1> SUFFICES ASSUME QCInv, [Next]_vars PROVE QCInv'
  OBVIOUS
<1>1. CASE UNCHANGED vars
  BY <1>1, StutterInv
<1>2. ASSUME NEW r \in Row, Arrive(r) PROVE QCInv'
  BY <1>2, ArriveInv
<1>3. ASSUME NEW d \in Day, Backfill(d) PROVE QCInv'
  BY <1>3, QueryInv, ArrayInv, CheckInv, PublishInv DEF Backfill
<1>4. ASSUME NEW d \in Day, PublishRaises(d) \/ Interrupt(d) PROVE QCInv'
  BY <1>4, RaisesInv, InterruptInv
<1>6. ASSUME NEW d \in Day, NEW c \in Counted, CountRows(d, c) PROVE QCInv'
  BY <1>6, CountInv
<1>5. ASSUME NEW d \in Day, NEW t \in Table, Merge(d, t) PROVE QCInv'
  BY <1>5, MergeInv
<1> QED BY <1>1, <1>2, <1>3, <1>4, <1>5, <1>6 DEF Next

\* The inductive invariant of the nightly tasks: types, what each day's backfill
\* has published of its gaps, and that a deduplicated row is there once.
THEOREM QualityControlInvariant == Spec => []QCInv
  BY InitInv, NextInv, PTL DEF Spec

\* A backfill requests exactly the gaps of what its query saw, for any versions
\* (daily_backfill_mainnet.py:90-128).
THEOREM GapsAreRequested == Spec => []BackfillRequestsTheGaps
<1>1. QCInv => BackfillRequestsTheGaps
  BY DEF QCInv, BackfillInv, BackfillRequestsTheGaps
<1> QED BY <1>1, QualityControlInvariant, PTL

\* The deduplication takes no row whose twin it does not keep; nothing else takes
\* a row.
LEMMA OnlyMergeTakes ==
  ASSUME TypeInv, Next, NEW r \in Row, copies[r] > 0
  PROVE  copies'[r] > 0 \/ \E q \in Twins(r) : copies'[q] > 0
<1>1. copies \in [Row -> Nat] /\ copies[r] \in Nat
  BY DEF TypeInv
<1>2. ASSUME NEW q \in Row, Arrive(q) PROVE copies'[r] > 0
  BY <1>1, <1>2 DEF Arrive
<1>3. ASSUME NEW d \in Day, Backfill(d) \/ PublishRaises(d) \/ Interrupt(d)
      PROVE  copies'[r] > 0
  BY <1>3 DEF Backfill, bigquery_all_versions, generate_integers_array,
              check_missing_values, publish_range, PublishRaises, Interrupt, external
<1>4. ASSUME NEW d \in Day, NEW t \in Table, Merge(d, t)
      PROVE  copies'[r] > 0 \/ \E q \in Twins(r) : copies'[q] > 0
  <2>1. CASE r \in Present(RowsOf(d, t))
    <3>1. copies'[r] = 1 \/ \E q \in Twins(r) : copies'[q] = 1
      BY <1>4, <2>1, MergeKeepsOne
    <3> QED BY <3>1
  <2>2. CASE r \notin Present(RowsOf(d, t))
    <3>1. copies'[r] = copies[r]
      BY <1>4, <2>2, MergeKeepsOne
    <3> QED BY <3>1
  <2> QED BY <2>1, <2>2
<1>5. ASSUME NEW d \in Day, NEW c \in Counted, CountRows(d, c) PROVE copies'[r] > 0
  BY <1>5 DEF CountRows
<1> QED BY <1>2, <1>3, <1>4, <1>5 DEF Next

\* No deduplication makes a row disappear but a signature whose twin, equal in all
\* that daily_dedupe_mainnet.py:41 looks at, stays; in any number of tables, days
\* and versions, and whatever the values of the signatures.
THEOREM RowsStay == Spec => NoRowDisappears
<1>1. QCInv /\ [Next]_vars =>
        [\A r \in Row : (copies[r] > 0) =>
            (copies'[r] > 0 \/ \E q \in Twins(r) : copies'[q] > 0)]_vars
  BY OnlyMergeTakes DEF QCInv
<1> QED BY <1>1, QualityControlInvariant, PTL DEF Spec, NoRowDisappears

-----------------------------------------------------------------------------
(* The row counts                                                           *)

\* f[s] is the number of copies of the rows of s: the recursive function that
\* Copies is defined by.
Summing(f, rows) ==
  f = [s \in SUBSET rows |->
          IF s = {} THEN 0
          ELSE copies[CHOOSE x \in s : TRUE] + f[s \ {CHOOSE x \in s : TRUE}]]

There(s) == {r \in s : copies[r] = 1}

\* Of rows that are there once or not at all, one more or one less.
LEMMA OneLess ==
  ASSUME NEW s, IsFiniteSet(s), NEW x \in s, \A r \in s : copies[r] \in {0, 1}
  PROVE  /\ Cardinality(There(s)) \in Nat
         /\ Cardinality(There(s)) = copies[x] + Cardinality(There(s \ {x}))
<1>1. IsFiniteSet(There(s)) /\ IsFiniteSet(There(s \ {x}))
  <2>1. There(s) \in SUBSET s /\ There(s \ {x}) \in SUBSET s
    BY DEF There
  <2> QED BY <2>1, FS_Subset
<1>2. Cardinality(There(s)) \in Nat /\ Cardinality(There(s \ {x})) \in Nat
  BY <1>1, FS_CardinalityType
<1>3. CASE copies[x] = 1
  <2>1. There(s \ {x}) = There(s) \ {x} /\ x \in There(s)
    BY <1>3 DEF There
  <2>2. Cardinality(There(s) \ {x}) = Cardinality(There(s)) - 1
    BY <1>1, <2>1, FS_RemoveElement
  <2>3. Cardinality(There(s \ {x})) = Cardinality(There(s)) - 1
    BY <2>1, <2>2
  <2> QED BY <1>2, <1>3, <2>3
<1>4. CASE copies[x] = 0
  <2>1. There(s \ {x}) = There(s)
    BY <1>4 DEF There
  <2> QED BY <1>2, <1>4, <2>1
<1> QED BY <1>3, <1>4

LEMMA SummingExists ==
  ASSUME NEW rows, IsFiniteSet(rows), \A r \in rows : copies[r] \in {0, 1}
  PROVE  \E f : Summing(f, rows)
<1> DEFINE f == [s \in SUBSET rows |-> Cardinality(There(s))]
<1>1. ASSUME NEW s \in SUBSET rows
      PROVE  f[s] = IF s = {} THEN 0
                    ELSE copies[CHOOSE x \in s : TRUE] + f[s \ {CHOOSE x \in s : TRUE}]
  <2>1. CASE s = {}
    <3>1. There(s) = {}
      BY <2>1 DEF There
    <3> QED BY <2>1, <3>1, FS_EmptySet
  <2>2. CASE s # {}
    <3> DEFINE x == CHOOSE y \in s : TRUE
    <3>1. x \in s
      BY <2>2
    <3> HIDE DEF x
    <3>2. IsFiniteSet(s)
      BY FS_Subset
    <3>3. Cardinality(There(s)) = copies[x] + Cardinality(There(s \ {x}))
      BY <3>1, <3>2, OneLess
    <3>4. f[s] = copies[x] + f[s \ {x}]
      BY <3>3
    <3> QED BY <2>2, <3>4 DEF x
  <2> QED BY <2>1, <2>2
<1>2. f = [s \in SUBSET rows |->
              IF s = {} THEN 0
              ELSE copies[CHOOSE x \in s : TRUE] + f[s \ {CHOOSE x \in s : TRUE}]]
  BY <1>1
<1>3. Summing(f, rows)
  BY <1>2 DEF Summing
<1> QED BY <1>3

LEMMA CopiesDef ==
  ASSUME NEW rows, \E f : Summing(f, rows)
  PROVE  \E f : Summing(f, rows) /\ Copies(rows) = f[rows]
  BY DEF Copies, FoldSet, MapThenFoldSet, Summing

\* Of rows that are there once at most, as many copies as rows are there.
LEMMA CopiesCount ==
  ASSUME NEW rows, IsFiniteSet(rows), \A r \in rows : copies[r] \in {0, 1}
  PROVE  Copies(rows) = Cardinality(There(rows))
<1>1. PICK f : Summing(f, rows) /\ Copies(rows) = f[rows]
  BY SummingExists, CopiesDef
<1>2. \A s \in SUBSET rows :
         f[s] = IF s = {} THEN 0
                ELSE copies[CHOOSE x \in s : TRUE] + f[s \ {CHOOSE x \in s : TRUE}]
  BY <1>1 DEF Summing
<1> DEFINE T == {s \in SUBSET rows : f[s] = Cardinality(There(s))}
<1>3. ASSUME NEW s \in SUBSET rows, \A u \in SUBSET s : u # s => u \in T
      PROVE  s \in T
  <2>1. CASE s = {}
    <3>1. There(s) = {}
      BY <2>1 DEF There
    <3> QED BY <1>2, <2>1, <3>1, FS_EmptySet
  <2>2. CASE s # {}
    <3> DEFINE x == CHOOSE y \in s : TRUE
               u == s \ {x}
    <3>1. x \in s /\ f[s] = copies[x] + f[u]
      BY <1>2, <2>2
    <3> HIDE DEF x
    <3>2. IsFiniteSet(s) /\ \A r \in s : copies[r] \in {0, 1}
      BY FS_Subset
    <3>3. Cardinality(There(s)) = copies[x] + Cardinality(There(u))
      BY <3>1, <3>2, OneLess
    <3>4. u \in SUBSET s /\ u # s
      BY <3>1
    <3>5. f[u] = Cardinality(There(u))
      BY <1>3, <3>4
    <3> QED BY <3>1, <3>3, <3>5
  <2> QED BY <2>1, <2>2
<1> HIDE DEF T
<1>4. rows \in T
  <2>1. SUBSET rows \subseteq T
    BY <1>3, SubsetInduction
  <2> QED BY <2>1
<1> QED BY <1>1, <1>4 DEF T

\* A child table should have Expected[c][v] rows of a transaction.
LEMMA RowsAboutOne ==
  ASSUME NEW c \in Table, NEW v \in Version
  PROVE  /\ RowsAbout(c, v) \subseteq Row /\ IsFiniteSet(RowsAbout(c, v))
         /\ Cardinality(RowsAbout(c, v)) = Expected[c][v]
<1> DEFINE n == Expected[c][v]
           R == RowsFor(c, v)
           f == [i \in 1 .. n |-> [table |-> c, version |-> v, index |-> i]]
<1>1. n \in Nat
  BY ExpectedAssumption
<1>2. RowsAbout(c, v) = R
  <2>1. ASSUME NEW r \in RowsAbout(c, v) PROVE r \in R
    <3>1. r \in Row /\ r.table = c /\ r.version = v
      BY DEF RowsAbout
    <3>2. /\ r.index \in 1 .. Expected[r.table][r.version]
          /\ r = [table |-> r.table, version |-> r.version, index |-> r.index]
      BY <3>1, RowFields
    <3>3. r.index \in 1 .. n /\ r = [table |-> c, version |-> v, index |-> r.index]
      BY <3>1, <3>2
    <3> QED BY <3>3 DEF RowsFor
  <2>2. R \subseteq RowsAbout(c, v)
    <3>1. R \subseteq Row
      BY RowOf
    <3>2. \A r \in R : r.table = c /\ r.version = v
      BY DEF RowsFor
    <3> QED BY <3>1, <3>2 DEF RowsAbout
  <2> QED BY <2>1, <2>2
<1> HIDE DEF n
<1>3. IsFiniteSet(1 .. n) /\ Cardinality(1 .. n) = n
  <2>1. /\ IsFiniteSet(1 .. n)
        /\ Cardinality(1 .. n) = IF 1 > n THEN 0 ELSE n - 1 + 1
    BY <1>1, FS_Interval
  <2> QED BY <1>1, <2>1
<1>4. f \in Bijection(1 .. n, R)
  <2>1. R = {[table |-> c, version |-> v, index |-> i] : i \in 1 .. n}
    BY DEF RowsFor, n
  <2>2. f \in [1 .. n -> R] /\ \A r \in R : \E i \in 1 .. n : f[i] = r
    BY <2>1
  <2>3. \A i, j \in 1 .. n : f[i] = f[j] => i = j
    OBVIOUS
  <2> QED BY <2>2, <2>3 DEF Bijection, Injection, Surjection, IsInjective
<1>5. ExistsBijection(1 .. n, R)
  BY <1>4 DEF ExistsBijection
<1>6. IsFiniteSet(R) /\ Cardinality(R) = n
  BY <1>3, <1>5, FS_Bijection
<1>7. R \subseteq Row
  BY RowOf
<1> QED BY <1>2, <1>6, <1>7 DEF n

\* If the counts agree and no row is there twice, then all rows are there.
LEMMA CountsCatchGaps ==
  ASSUME TypeInv, NEW d \in Day, NEW c \in Child, NEW v \in Version,
         Mismatched(d, c) = {}, InWindow(d, v), Stored(v),
         Present(RowsAbout(c, v)) # {},
         \A t \in {"transactions", c} : \A r \in RowsOf(d, t) : copies[r] <= 1
  PROVE  Present(RowsAbout(c, v)) = RowsAbout(c, v)
<1> DEFINE rows == RowsAbout(c, v)
           tx == TransactionOf(v)
<1>1. c \in Table /\ "transactions" \in Table
  BY TableAssumption DEF Child, Counted
<1>2. rows \subseteq Row /\ IsFiniteSet(rows) /\ Cardinality(rows) = Expected[c][v]
  BY <1>1, RowsAboutOne
<1>3. \A r \in rows : copies[r] \in {0, 1}
  <2>1. SUFFICES ASSUME NEW r \in rows PROVE copies[r] \in {0, 1}
    OBVIOUS
  <2>2. r \in RowsOf(d, c)
    BY DEF RowsAbout, RowsOf
  <2>3. copies[r] <= 1 /\ copies[r] \in Nat
    BY <1>1, <1>2, <2>2 DEF TypeInv
  <2> QED BY <2>3
<1>4. copies[tx] = 1
  <2>1. tx \in Row /\ tx.table = "transactions" /\ tx.version = v
    <3>1. 1 \in 1 .. Expected["transactions"][v]
      BY ExpectedAssumption
    <3>2. tx \in RowsFor("transactions", v)
      BY <3>1 DEF RowsFor, TransactionOf
    <3>3. RowsFor("transactions", v) \subseteq Row
      BY <1>1, RowOf
    <3> QED BY <3>2, <3>3 DEF TransactionOf
  <2>2. tx \in RowsOf(d, "transactions")
    BY <2>1 DEF RowsOf
  <2>3. copies[tx] <= 1 /\ copies[tx] > 0 /\ copies[tx] \in Nat
    BY <1>1, <2>1, <2>2 DEF Stored, TypeInv
  <2> QED BY <2>3
<1>5. Expected[c][v] = copies[tx] * Copies(rows)
  BY DEF Mismatched
<1>6. Copies(rows) = Cardinality(There(rows))
  BY <1>2, <1>3, CopiesCount
<1> HIDE DEF rows, tx
<1>7. There(rows) \in SUBSET rows
  BY DEF There
<1>8. Cardinality(There(rows)) \in Nat
  BY <1>2, <1>7, FS_Subset, FS_CardinalityType
<1>9. Cardinality(rows) = Cardinality(There(rows))
  BY <1>2, <1>4, <1>5, <1>6, <1>8
<1>10. There(rows) = rows
  BY <1>2, <1>7, <1>9, FS_Subset
<1>11. Present(rows) = rows
  BY <1>10 DEF There, Present
<1> QED BY <1>11 DEF rows

\* Only the table's count reports.
LEMMA OnlyCountReports ==
  ASSUME TypeInv, Next, NEW d \in Day, NEW c \in Counted,
         report[d][c] = "due", report'[d][c] = "clean"
  PROVE  CountRows(d, c)
<1>1. ASSUME NEW r \in Row, Arrive(r) PROVE FALSE
  BY <1>1 DEF Arrive
<1>2. ASSUME NEW e \in Day, Backfill(e) \/ PublishRaises(e) \/ Interrupt(e) PROVE FALSE
  BY <1>2 DEF Backfill, bigquery_all_versions, generate_integers_array,
              check_missing_values, publish_range, PublishRaises, Interrupt, external
<1>3. ASSUME NEW e \in Day, NEW b \in Counted, CountRows(e, b) PROVE e = d /\ b = c
  BY <1>3 DEF CountRows, TypeInv
<1>4. ASSUME NEW e \in Day, NEW t \in Table, Merge(e, t) PROVE FALSE
  BY <1>4 DEF Merge
<1> QED BY <1>1, <1>2, <1>3, <1>4 DEF Next

\* If the count of a deduplicated child table finds nothing, then the transactions
\* that have rows in it have all of them (row_counts.py:93-104), for any number of
\* rows.
THEOREM CleanMeansComplete == Spec => CleanDayIsComplete
<1> DEFINE A == \A d \in Day, c \in Child :
                  (/\ report[d][c] = "due" /\ report'[d][c] = "clean"
                   /\ \A t \in {"transactions", c} :
                          merged[d][t] = "done" /\ RowsOf(d, t) \cap late = {}) =>
                  \A v \in Version :
                      (InWindow(d, v) /\ Stored(v) /\ Present(RowsAbout(c, v)) # {}) =>
                          (Present(RowsAbout(c, v)) = RowsAbout(c, v))
<1>1. ASSUME QCInv, [Next]_vars PROVE A
  <2>1. SUFFICES ASSUME NEW d \in Day, NEW c \in Child,
                        report[d][c] = "due", report'[d][c] = "clean",
                        \A t \in {"transactions", c} :
                            merged[d][t] = "done" /\ RowsOf(d, t) \cap late = {},
                        NEW v \in Version,
                        InWindow(d, v), Stored(v), Present(RowsAbout(c, v)) # {}
                 PROVE  Present(RowsAbout(c, v)) = RowsAbout(c, v)
    OBVIOUS
  <2>2. Next
    BY <1>1, <2>1 DEF vars
  <2>3. TypeInv /\ MergedInv
    BY <1>1 DEF QCInv
  <2>4. c \in Counted /\ c # "blocks" /\ c \in Table /\ "transactions" \in Table
    BY TableAssumption DEF Child, Counted
  <2>5. CountRows(d, c)
    BY <2>1, <2>2, <2>3, <2>4, OnlyCountReports
  <2>6. Mismatched(d, c) = {}
    BY <2>1, <2>3, <2>4, <2>5 DEF CountRows, TypeInv
  <2>7. \A t \in {"transactions", c} : \A r \in RowsOf(d, t) : copies[r] <= 1
    BY <2>1, <2>3, <2>4 DEF MergedInv
  <2> QED BY <2>1, <2>3, <2>6, <2>7, CountsCatchGaps
<1>2. QCInv /\ [Next]_vars => [A]_vars
  BY <1>1
<1> QED BY <1>2, QualityControlInvariant, PTL DEF Spec, CleanDayIsComplete
=============================================================================
