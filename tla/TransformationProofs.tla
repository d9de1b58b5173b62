------------------------ MODULE TransformationProofs ------------------------
(***************************************************************************)
(* Proofs about Transformation, for all transactions, selections of tables *)
(* and lengths of the range: what is accumulated at each step of the       *)
(* conversion loop, and from it that timestamps stay parallel, that tables *)
(* do not depend on each other, that well formed transactions convert,     *)
(* that counts, details and signature rows agree with the transactions,    *)
(* and that only rows of twin keys are duplicates.                         *)
(***************************************************************************)
EXTENDS Transformation, SequenceTheorems, FiniteSetTheorems,
        WellFoundedInduction, TLAPS

-----------------------------------------------------------------------------
(* Sequences and sets: induction, flattening, counting *)

\* A set of naturals that is not empty has a least element; induction over data
\* rests on it, as it quantifies over sets and not over predicates.
LEMMA LeastElement ==
  ASSUME NEW T, T \subseteq Nat, T # {}
  PROVE  \E m \in T : \A n \in T : m <= n
<1> DEFINE R == OpToRel(<, Nat)
<1>1. IsWellFoundedOn(R, Nat)
  BY NatLessThanWellFounded
<1>2. \A x, y \in Nat : <<y, x>> \in R <=> y < x
  BY DEF OpToRel
<1> HIDE DEF R
<1>3. PICK x \in T : \A y \in T : ~ (<<y, x>> \in R)
  BY <1>1, WFMin
<1>4. \A y \in T : ~ (y < x)
  BY <1>2, <1>3
<1>5. \A y \in T : x <= y
  BY <1>4
<1> QED BY <1>5

\* A set that has 0, and n + 1 with each n, has every natural.
LEMMA NatSetInduction ==
  ASSUME NEW T, 0 \in T, \A n \in Nat : n \in T => n + 1 \in T
  PROVE  Nat \subseteq T
<1> DEFINE U == Nat \ T
<1> SUFFICES ASSUME U # {} PROVE FALSE
  OBVIOUS
<1>1. PICK m \in U : \A n \in U : m <= n
  BY LeastElement
<1>2. m - 1 \in Nat /\ m - 1 \notin U
  BY <1>1
<1> QED BY <1>2

\* f[i] is what the first i sequences of s are in one: the recursive function
\* that FlattenSeq of SequencesExt is defined by.
Flattening(f, s, n) ==
  f = [i \in 1 .. n |-> IF i = 1 THEN s[i] ELSE f[i - 1] \o s[i]]

\* The recursive function exists, for sequences of any length.
LEMMA FlatteningExists ==
  ASSUME NEW s, NEW n \in Nat
  PROVE  \E f : Flattening(f, s, n)
<1> DEFINE T == {k \in Nat : \E f : Flattening(f, s, k)}
<1>1. 0 \in T
  <2> DEFINE f == [i \in 1 .. 0 |-> 0]
  <2>1. Flattening(f, s, 0)
    BY DEF Flattening
  <2> QED BY <2>1
<1>2. ASSUME NEW k \in Nat, k \in T
      PROVE  k + 1 \in T
  <2>1. PICK g : Flattening(g, s, k)
    BY <1>2
  <2> DEFINE f == [i \in 1 .. k + 1 |->
                     IF i = k + 1 THEN IF i = 1 THEN s[i] ELSE g[k] \o s[i] ELSE g[i]]
  <2>2. \A i \in 1 .. k : g[i] = IF i = 1 THEN s[i] ELSE g[i - 1] \o s[i]
    BY <2>1 DEF Flattening
  <2>3. \A i \in 1 .. k + 1 : f[i] = IF i = 1 THEN s[i] ELSE f[i - 1] \o s[i]
    BY <2>2
  <2>4. Flattening(f, s, k + 1)
    BY <2>3 DEF Flattening
  <2> QED BY <2>4
<1> HIDE DEF T
<1>3. Nat \subseteq T
  BY <1>1, <1>2, NatSetInduction
<1> QED BY <1>3 DEF T

\* FlattenSeq is the last value of its recursive function.
LEMMA FlattenSeqDef ==
  ASSUME NEW s, Len(s) \in Nat \ {0}
  PROVE  \E f : Flattening(f, s, Len(s)) /\ FlattenSeq(s) = f[Len(s)]
<1>1. \E f : Flattening(f, s, Len(s))
  BY FlatteningExists
<1> QED BY <1>1 DEF FlattenSeq, Flattening

LEMMA FlatteningFirst ==
  ASSUME NEW f, NEW s, NEW n \in Nat \ {0}, Flattening(f, s, n)
  PROVE  f[1] = s[1]
<1> DEFINE h == [j \in 1 .. n |-> IF j = 1 THEN s[j] ELSE f[j - 1] \o s[j]]
<1>1. h[1] = s[1]
  OBVIOUS
<1>2. f = h
  BY DEF Flattening
<1> HIDE DEF h
<1> QED BY <1>1, <1>2

LEMMA FlatteningNext ==
  ASSUME NEW f, NEW s, NEW n \in Nat, Flattening(f, s, n), NEW k \in Nat, k # 0, k + 1 \in 1 .. n
  PROVE  f[k + 1] = f[k] \o s[k + 1]
<1> DEFINE h == [j \in 1 .. n |-> IF j = 1 THEN s[j] ELSE f[j - 1] \o s[j]]
<1>1. \A j \in 1 .. n : j # 1 => h[j] = f[j - 1] \o s[j]
  OBVIOUS
<1>2. (k + 1) - 1 = k /\ k + 1 # 1
  OBVIOUS
<1>3. f = h
  BY DEF Flattening
<1> HIDE DEF h
<1> QED BY <1>1, <1>2, <1>3

\* Flattening one sequence more appends its elements.
LEMMA FlattenSeqAppend ==
  ASSUME NEW S, NEW s \in Seq(Seq(S)), NEW x \in Seq(S)
  PROVE  FlattenSeq(Append(s, x)) = FlattenSeq(s) \o x
<1> DEFINE u == Append(s, x)
           n == Len(s)
<1>1. /\ u \in Seq(Seq(S)) /\ n \in Nat /\ Len(u) = n + 1
      /\ u[n + 1] = x /\ \A i \in 1 .. n : u[i] = s[i]
  BY AppendProperties, LenProperties
<1> HIDE DEF u
<1>2. PICK g : Flattening(g, u, n + 1) /\ FlattenSeq(u) = g[n + 1]
  <2>1. Len(u) \in Nat \ {0}
    BY <1>1
  <2>2. \E g : Flattening(g, u, Len(u)) /\ FlattenSeq(u) = g[Len(u)]
    BY <2>1, FlattenSeqDef
  <2> QED BY <2>2, <1>1
<1>3. CASE n = 0
  <2>1. s = <<>> /\ FlattenSeq(s) = <<>>
    BY <1>3, EmptySeq DEF FlattenSeq
  <2>2. g[1] = u[1]
    BY <1>2, <1>1, <1>3 DEF Flattening
  <2> QED BY <2>1, <2>2, <1>1, <1>2, <1>3, ConcatEmptySeq DEF u
<1>4. CASE n # 0
  <2>1. PICK f : Flattening(f, s, n) /\ FlattenSeq(s) = f[n]
    BY <1>1, <1>4, FlattenSeqDef
  <2> DEFINE T == {k \in Nat : k \in 1 .. n => f[k] = g[k]}
  <2>2. 0 \in T
    OBVIOUS
  <2>3. ASSUME NEW k \in Nat, k \in T
        PROVE  k + 1 \in T
    <3>1. SUFFICES ASSUME k + 1 \in 1 .. n PROVE f[k + 1] = g[k + 1]
      OBVIOUS
    <3>2. CASE k = 0
      <4>1. n \in Nat \ {0} /\ n + 1 \in Nat \ {0} /\ k + 1 = 1 /\ 1 \in 1 .. n
        BY <3>2, <1>1, <1>4
      <4>2. f[1] = s[1]
        BY <4>1, <2>1, FlatteningFirst
      <4>3. g[1] = u[1]
        <5> DEFINE m == n + 1
        <5>1. m \in Nat \ {0} /\ Flattening(g, u, m)
          BY <4>1, <1>2
        <5> HIDE DEF m
        <5> QED BY <5>1, FlatteningFirst
      <4>4. u[1] = s[1]
        BY <4>1, <1>1
      <4> QED BY <4>1, <4>2, <4>3, <4>4
    <3>3. CASE k # 0
      <4>1. f[k] = g[k]
        BY <2>3, <3>1, <3>3, <1>1
      <4>2. f[k + 1] = f[k] \o s[k + 1]
        BY <3>1, <3>3, <2>1, <1>1, FlatteningNext
      <4>3. n + 1 \in Nat /\ k + 1 \in 1 .. n + 1
        BY <3>1, <1>1
      <4>4. g[k + 1] = g[k] \o u[k + 1]
        BY <4>3, <3>3, <1>2, FlatteningNext
      <4> QED BY <4>1, <4>2, <4>4, <3>1, <1>1
    <3> QED BY <3>2, <3>3
  <2> HIDE DEF T
  <2>4. Nat \subseteq T
    BY <2>2, <2>3, NatSetInduction
  <2>5. f[n] = g[n]
    BY <2>4, <1>1, <1>4 DEF T
  <2>6. g[n + 1] = g[n] \o u[n + 1]
    <3>1. n + 1 \in 1 .. n + 1 /\ n + 1 \in Nat
      BY <1>1
    <3> QED BY <1>1, <1>2, <1>4, <3>1, FlatteningNext
  <2> QED BY <2>1, <2>5, <2>6, <1>1, <1>2 DEF u
<1> QED BY <1>3, <1>4

LEMMA FlattenSeqEmpty == FlattenSeq(<<>>) = <<>>
  BY EmptySeq DEF FlattenSeq

\* What holds of the empty sequence, and of each with one more element,
\* holds of all.
LEMMA SequenceInduction ==
  ASSUME NEW S, NEW T, <<>> \in T,
         \A s \in Seq(S), x \in S : s \in T => Append(s, x) \in T
  PROVE  Seq(S) \subseteq T
<1> DEFINE N == {n \in Nat : \A s \in Seq(S) : Len(s) = n => s \in T}
<1>1. 0 \in N
  BY EmptySeq
<1>2. ASSUME NEW n \in Nat, n \in N
      PROVE  n + 1 \in N
  <2>1. SUFFICES ASSUME NEW s \in Seq(S), Len(s) = n + 1 PROVE s \in T
    OBVIOUS
  <2>2. s # <<>>
    BY <2>1, EmptySeq
  <2>3. PICK r \in Seq(S), x \in S : s = Append(r, x)
    BY <2>2, SequenceEmptyOrAppend
  <2>4. Len(r) = n
    BY <2>1, <2>3, AppendProperties, LenProperties
  <2> QED BY <1>2, <2>3, <2>4
<1> HIDE DEF N
<1>3. Nat \subseteq N
  BY <1>1, <1>2, NatSetInduction
<1> QED BY <1>3, LenProperties DEF N

\* What is flattened keeps the type of the elements.
LEMMA FlattenSeqType ==
  ASSUME NEW S, NEW s \in Seq(Seq(S))
  PROVE  FlattenSeq(s) \in Seq(S)
<1> DEFINE T == {r \in Seq(Seq(S)) : FlattenSeq(r) \in Seq(S)}
<1>1. <<>> \in T
  BY FlattenSeqEmpty, EmptySeq
<1>2. ASSUME NEW r \in Seq(Seq(S)), NEW x \in Seq(S), r \in T
      PROVE  Append(r, x) \in T
  <2>1. Append(r, x) \in Seq(Seq(S))
    BY AppendProperties
  <2>2. FlattenSeq(Append(r, x)) \in Seq(S)
    BY <1>2, FlattenSeqAppend, ConcatProperties
  <2> QED BY <2>1, <2>2
<1> HIDE DEF T
<1>3. Seq(Seq(S)) \subseteq T
  BY <1>1, <1>2, SequenceInduction
<1> QED BY <1>3 DEF T

\* In the flattened ss, element j of sequence i stands at o[i] + j, and nothing
\* else is there.
Placed(o, ss) ==
  /\ o \in [1 .. Len(ss) -> Nat]
  /\ \A i \in 1 .. Len(ss) : \A j \in 1 .. Len(ss[i]) :
        /\ o[i] + j \in 1 .. Len(FlattenSeq(ss))
        /\ FlattenSeq(ss)[o[i] + j] = ss[i][j]
  /\ \A k \in 1 .. Len(FlattenSeq(ss)) :
        \E i \in 1 .. Len(ss) : \E j \in 1 .. Len(ss[i]) : k = o[i] + j

\* Every element of a flattened sequence has its place, and only one origin.
LEMMA Placement ==
  ASSUME NEW S, NEW ss \in Seq(Seq(S))
  PROVE  \E o : Placed(o, ss)
<1> DEFINE T == {r \in Seq(Seq(S)) : \E o : Placed(o, r)}
<1>1. <<>> \in T
  <2> DEFINE o == [i \in 1 .. 0 |-> 0]
  <2>1. <<>> \in Seq(Seq(S)) /\ Len(<<>>) = 0 /\ FlattenSeq(<<>>) = <<>>
    BY EmptySeq, FlattenSeqEmpty
  <2>2. Placed(o, <<>>)
    BY <2>1 DEF Placed
  <2> QED BY <2>1, <2>2
<1>2. ASSUME NEW r \in Seq(Seq(S)), NEW x \in Seq(S), r \in T
      PROVE  Append(r, x) \in T
  <2> DEFINE u == Append(r, x)
             n == Len(r)
             F == FlattenSeq(r)
             G == FlattenSeq(u)
  <2>1. PICK o : Placed(o, r)
    BY <1>2
  <2>2. /\ u \in Seq(Seq(S)) /\ n \in Nat /\ Len(u) = n + 1
        /\ u[n + 1] = x /\ \A i \in 1 .. n : u[i] = r[i]
    BY AppendProperties, LenProperties
  <2>3. G = F \o x /\ F \in Seq(S)
    BY FlattenSeqAppend, FlattenSeqType
  <2> HIDE DEF u, G, F
  <2>4. /\ Len(F) \in Nat /\ Len(x) \in Nat /\ Len(G) = Len(F) + Len(x)
        /\ \A k \in 1 .. Len(F) : G[k] = F[k]
        /\ \A j \in 1 .. Len(x) : G[Len(F) + j] = x[j]
    BY <2>3, ConcatProperties, LenProperties
  <2> DEFINE p == [i \in 1 .. n + 1 |-> IF i = n + 1 THEN Len(F) ELSE o[i]]
  <2>5. /\ o \in [1 .. n -> Nat]
        /\ \A i \in 1 .. n : \A j \in 1 .. Len(r[i]) :
             o[i] + j \in 1 .. Len(F) /\ F[o[i] + j] = r[i][j]
        /\ \A k \in 1 .. Len(F) :
             \E i \in 1 .. n : \E j \in 1 .. Len(r[i]) : k = o[i] + j
    BY <2>1 DEF Placed, F
  <2>6. /\ p \in [1 .. n + 1 -> Nat] /\ p[n + 1] = Len(F)
        /\ \A i \in 1 .. n : p[i] = o[i]
    BY <2>2, <2>4, <2>5
  <2> HIDE DEF p
  <2>7. ASSUME NEW i \in 1 .. n + 1, NEW j \in 1 .. Len(u[i])
        PROVE  p[i] + j \in 1 .. Len(G) /\ G[p[i] + j] = u[i][j]
    <3>1. CASE i = n + 1
      <4>1. u[i] = x /\ p[i] = Len(F)
        BY <3>1, <2>2, <2>6
      <4>2. j \in 1 .. Len(x)
        BY <4>1
      <4>3. Len(F) + j \in 1 .. Len(G)
        BY <4>2, <2>4
      <4>4. G[Len(F) + j] = x[j]
        BY <4>2, <2>4
      <4> QED BY <4>1, <4>3, <4>4
    <3>2. CASE i # n + 1
      <4>1. i \in 1 .. n
        BY <3>2, <2>2
      <4>2. u[i] = r[i] /\ p[i] = o[i]
        BY <4>1, <2>2, <2>6
      <4>3. o[i] + j \in 1 .. Len(F) /\ F[o[i] + j] = r[i][j]
        BY <4>1, <4>2, <2>5
      <4>4. o[i] + j \in 1 .. Len(G)
        BY <4>3, <2>4
      <4>5. G[o[i] + j] = F[o[i] + j]
        BY <4>3, <2>4
      <4> QED BY <4>2, <4>3, <4>4, <4>5
    <3> QED BY <3>1, <3>2
  <2>8. ASSUME NEW k \in 1 .. Len(G)
        PROVE  \E i \in 1 .. n + 1 : \E j \in 1 .. Len(u[i]) : k = p[i] + j
    <3>1. CASE k \in 1 .. Len(F)
      <4>1. PICK i \in 1 .. n : \E j \in 1 .. Len(r[i]) : k = o[i] + j
        BY <3>1, <2>5
      <4>2. i \in 1 .. n + 1 /\ u[i] = r[i] /\ p[i] = o[i]
        BY <2>2, <2>6
      <4> QED BY <4>1, <4>2
    <3>2. CASE k \notin 1 .. Len(F)
      <4>1. k - Len(F) \in 1 .. Len(x) /\ k = Len(F) + (k - Len(F))
        BY <3>2, <2>4
      <4>2. n + 1 \in 1 .. n + 1
        BY <2>2
      <4> QED BY <4>1, <4>2, <2>2, <2>6
    <3> QED BY <3>1, <3>2
  <2>9. Placed(p, u)
    BY <2>2, <2>6, <2>7, <2>8 DEF Placed, G
  <2> QED BY <2>2, <2>9 DEF u
<1> HIDE DEF T
<1>3. Seq(Seq(S)) \subseteq T
  BY <1>1, <1>2, SequenceInduction
<1> QED BY <1>3 DEF T

\* Sets between which there is a bijection have as many elements.
LEMMA Counting ==
  ASSUME NEW S, NEW T, NEW f \in [S -> T], IsFiniteSet(S),
         \A x, y \in S : f[x] = f[y] => x = y,
         \A z \in T : \E x \in S : f[x] = z
  PROVE  IsFiniteSet(T) /\ Cardinality(T) = Cardinality(S)
<1>1. f \in Bijection(S, T)
  BY DEF Bijection, Injection, Surjection, IsInjective
<1> QED BY <1>1, FS_Bijection DEF ExistsBijection

LEMMA UpToIsFinite ==
  ASSUME NEW n \in Nat
  PROVE  IsFiniteSet(1 .. n) /\ Cardinality(1 .. n) = n
<1>1. 1 \in Int /\ n \in Int
  OBVIOUS
<1>2. /\ IsFiniteSet(1 .. n)
      /\ Cardinality(1 .. n) = IF 1 > n THEN 0 ELSE n - 1 + 1
  BY <1>1, FS_Interval
<1> QED BY <1>2

\* The positions of the rows of version i that are in Q, and of all rows that are.
RowsIn(F, i, Q) == {k \in DOMAIN F : F[k].version = i /\ F[k] \in Q}
Among(rs, Q) == {j \in DOMAIN rs : rs[j] \in Q}

\* If all rows of the i-th sequence have version i, then the rows of version i
\* in the flattened sequence are as many as in the i-th, whatever is counted.
LEMMA VersionCount ==
  ASSUME NEW S, NEW ss \in Seq(Seq(S)), NEW Q,
         \A i \in 1 .. Len(ss) : \A j \in 1 .. Len(ss[i]) : ss[i][j].version = i,
         NEW i \in 1 .. Len(ss)
  PROVE  Cardinality(RowsIn(FlattenSeq(ss), i, Q)) = Cardinality(Among(ss[i], Q))
<1> DEFINE F == FlattenSeq(ss)
           K == {k \in DOMAIN F : F[k].version = i /\ F[k] \in Q}
           J == {j \in DOMAIN ss[i] : ss[i][j] \in Q}
<1>1. F \in Seq(S) /\ ss[i] \in Seq(S)
  BY FlattenSeqType, ElementOfSeq
<1>2. /\ Len(F) \in Nat /\ DOMAIN F = 1 .. Len(F)
      /\ Len(ss[i]) \in Nat /\ DOMAIN ss[i] = 1 .. Len(ss[i])
  BY <1>1, LenProperties
<1>3. PICK o : Placed(o, ss)
  BY Placement
<1> HIDE DEF F
<1>4. /\ o \in [1 .. Len(ss) -> Nat]
      /\ \A h \in 1 .. Len(ss) : \A j \in 1 .. Len(ss[h]) :
            o[h] + j \in 1 .. Len(F) /\ F[o[h] + j] = ss[h][j]
      /\ \A k \in 1 .. Len(F) :
            \E h \in 1 .. Len(ss) : \E j \in 1 .. Len(ss[h]) : k = o[h] + j
  BY <1>3 DEF Placed, F
<1>5. o[i] \in Nat
  BY <1>4
<1> DEFINE f == [j \in J |-> o[i] + j]
<1>6. f \in [J -> K]
  BY <1>2, <1>4
<1>7. \A x, y \in J : f[x] = f[y] => x = y
  BY <1>2, <1>5
<1>8. ASSUME NEW z \in K PROVE \E x \in J : f[x] = z
  <2>1. PICK h \in 1 .. Len(ss) : \E j \in 1 .. Len(ss[h]) : z = o[h] + j
    BY <1>2, <1>4
  <2>2. PICK j \in 1 .. Len(ss[h]) : z = o[h] + j
    BY <2>1
  <2>3. F[z] = ss[h][j] /\ ss[h][j].version = h
    BY <2>2, <1>4
  <2>4. h = i
    BY <2>3
  <2>5. j \in J
    BY <2>3, <2>4, <1>2
  <2> QED BY <2>2, <2>4, <2>5
<1>9. IsFiniteSet(J)
  <2>1. IsFiniteSet(1 .. Len(ss[i]))
    BY <1>2, UpToIsFinite
  <2> QED BY <2>1, <1>2, FS_Subset
<1> HIDE DEF J, K, f
<1>10. Cardinality(K) = Cardinality(J)
  BY <1>6, <1>7, <1>8, <1>9, Counting
<1> QED BY <1>10 DEF J, K, F, RowsIn, Among

LEMMA SequenceByElements ==
  ASSUME NEW S, NEW s, NEW n \in Nat, s \in [1 .. n -> S]
  PROVE  s \in Seq(S) /\ Len(s) = n /\ DOMAIN s = 1 .. n
<1>1. s \in Seq(S)
  BY SeqDef
<1>2. DOMAIN s = 1 .. n /\ DOMAIN s = 1 .. Len(s) /\ Len(s) \in Nat
  BY <1>1, LenProperties
<1> QED BY <1>1, <1>2

LEMMA IsSequence ==
  ASSUME NEW n \in Nat, NEW s, DOMAIN s = 1 .. n, s = [i \in 1 .. n |-> s[i]]
  PROVE  s \in Seq(Range(s)) /\ Len(s) = n
<1>1. s \in [1 .. n -> Range(s)]
  BY DEF Range
<1> QED BY <1>1, SequenceByElements

-----------------------------------------------------------------------------
(* The rows of one transaction, signatures aside *)

LEMMA RowCounts ==
  ASSUME NEW tx \in InputTransaction
  PROVE  /\ Len(tx.changes) \in Nat /\ DOMAIN tx.changes = 1 .. Len(tx.changes)
         /\ Len(tx.events) \in Nat /\ DOMAIN tx.events = 1 .. Len(tx.events)
<1>1. tx.changes \in Seq(Change) /\ tx.events \in Seq(Event)
  BY DEF InputTransaction
<1> QED BY <1>1, LenProperties

LEMMA EmptyRows ==
  <<>> \in Seq(Range(<<>>)) /\ Len(<<>>) = 0
BY EmptySeq

LEMMA SingleRow ==
  ASSUME NEW r
  PROVE  /\ <<r>> \in Seq(Range(<<r>>)) /\ <<r>> \in Seq({r})
         /\ Len(<<r>>) = 1 /\ <<r>>[1] = r
<1>1. r \in Range(<<r>>)
  <2>1. 1 \in DOMAIN <<r>> /\ <<r>>[1] = r
    OBVIOUS
  <2> HIDE DEF Range
  <2> QED BY <2>1 DEF Range
<1> QED BY <1>1

\* The changes table gets a row for each change, in order.
LEMMA ChangeRows ==
  ASSUME NEW tx \in InputTransaction, NEW v
  PROVE  LET rs == GetChanges(tx, v)["changes"]
         IN  /\ rs \in Seq(Range(rs)) /\ Len(rs) = Len(tx.changes)
             /\ \A j \in 1 .. Len(tx.changes) : rs[j] = ChangeRecord(tx, v, j)
<1> DEFINE rs == GetChanges(tx, v)["changes"]
           n == Len(tx.changes)
<1>1. n \in Nat /\ DOMAIN tx.changes = 1 .. n
  BY RowCounts
<1>2. rs = [j \in 1 .. n |-> ChangeRecord(tx, v, j)]
  BY <1>1 DEF GetChanges
<1>3. DOMAIN rs = 1 .. n /\ rs = [j \in 1 .. n |-> rs[j]]
  BY <1>2
<1>4. \A j \in 1 .. n : rs[j] = ChangeRecord(tx, v, j)
  BY <1>2
<1> HIDE DEF rs
<1>5. rs \in Seq(Range(rs)) /\ Len(rs) = n
  BY <1>1, <1>3, IsSequence
<1> QED BY <1>4, <1>5 DEF rs

\* The events table gets a row for each event, or none if there are none to have.
LEMMA EventRows ==
  ASSUME NEW tx \in InputTransaction, NEW v
  PROVE  LET rs == GetEvents(tx, v)
         IN  /\ rs \in Seq(Range(rs))
             /\ Len(rs) = IF Events(tx) = None THEN 0 ELSE Len(tx.events)
             /\ \A j \in 1 .. Len(rs) :
                   rs[j] = [version |-> v, event_index |-> j - 1]
<1> DEFINE rs == GetEvents(tx, v)
           n == Len(tx.events)
<1>1. n \in Nat /\ DOMAIN tx.events = 1 .. n
  BY RowCounts
<1>2. CASE Events(tx) = None
  <2>1. rs = <<>>
    BY <1>2 DEF GetEvents
  <2> QED BY <2>1, <1>2, EmptyRows
<1>3. CASE Events(tx) # None
  <2>1. rs = [j \in 1 .. n |-> [version |-> v, event_index |-> j - 1]]
    BY <1>1, <1>3 DEF GetEvents
  <2>2. DOMAIN rs = 1 .. n /\ rs = [j \in 1 .. n |-> rs[j]]
    BY <2>1
  <2>3. \A j \in 1 .. n : rs[j] = [version |-> v, event_index |-> j - 1]
    BY <2>1
  <2> HIDE DEF rs
  <2>4. rs \in Seq(Range(rs)) /\ Len(rs) = n
    BY <1>1, <2>2, IsSequence
  <2> QED BY <2>3, <2>4, <1>3 DEF rs
<1> QED BY <1>2, <1>3

\* The elements of ss are the one-element sequences of the r[i] with i in P,
\* and the empty one for the others.
Picks(ss, n, r, P) ==
    /\ P \in SUBSET (1 .. n)
    /\ \A i, j \in P : r[i] = r[j] => i = j
    /\ \A i \in 1 .. n : ss[i] = IF i \in P THEN <<r[i]>> ELSE <<>>

\* The sequence F lists the r[i] with i in P.
Lists(F, r, P) ==
    \E g \in [P -> 1 .. Len(F)] :
        /\ \A i \in P : F[g[i]] = r[i]
        /\ \A k \in 1 .. Len(F) : \E i \in P : k = g[i]

\* Flattening one-element and empty sequences lists the elements.
LEMMA Picking ==
  ASSUME NEW S, NEW n \in Nat, NEW r, NEW P,
         NEW ss \in [1 .. n -> Seq(S)], Picks(ss, n, r, P)
  PROVE  FlattenSeq(ss) \in Seq(S) /\ Lists(FlattenSeq(ss), r, P)
<1> DEFINE F == FlattenSeq(ss)
<1>1. /\ P \in SUBSET (1 .. n)
      /\ \A i \in 1 .. n : ss[i] = IF i \in P THEN <<r[i]>> ELSE <<>>
  BY DEF Picks
<1>3. ss \in Seq(Seq(S)) /\ Len(ss) = n
  BY SequenceByElements
<1>4. F \in Seq(S)
  BY <1>3, FlattenSeqType
<1>5. PICK o : Placed(o, ss)
  BY <1>3, Placement
<1> HIDE DEF F
<1>6. /\ o \in [1 .. n -> Nat]
      /\ \A i \in 1 .. n : \A j \in 1 .. Len(ss[i]) :
            o[i] + j \in 1 .. Len(F) /\ F[o[i] + j] = ss[i][j]
      /\ \A k \in 1 .. Len(F) :
            \E i \in 1 .. n : \E j \in 1 .. Len(ss[i]) : k = o[i] + j
  BY <1>3, <1>5 DEF Placed, F
<1>7. \A i \in P : Len(ss[i]) = 1 /\ ss[i][1] = r[i]
  BY <1>1, SingleRow
<1>8. \A i \in (1 .. n) \ P : Len(ss[i]) = 0
  BY <1>1, EmptyRows
<1> DEFINE g == [i \in P |-> o[i] + 1]
<1>9. \A i \in P : o[i] + 1 \in 1 .. Len(F) /\ F[o[i] + 1] = r[i]
  <2>1. ASSUME NEW i \in P PROVE o[i] + 1 \in 1 .. Len(F) /\ F[o[i] + 1] = r[i]
    <3>1. i \in 1 .. n /\ 1 \in 1 .. Len(ss[i])
      BY <1>1, <1>7
    <3> QED BY <3>1, <1>6, <1>7
  <2> QED BY <2>1
<1>10. g \in [P -> 1 .. Len(F)] /\ \A i \in P : F[g[i]] = r[i]
  BY <1>9
<1>11. ASSUME NEW k \in 1 .. Len(F) PROVE \E i \in P : k = g[i]
  <2>1. PICK i \in 1 .. n : \E j \in 1 .. Len(ss[i]) : k = o[i] + j
    BY <1>6
  <2>2. i \in P
    BY <2>1, <1>8
  <2>3. PICK j \in 1 .. Len(ss[i]) : k = o[i] + j
    BY <2>1
  <2>4. j = 1
    <3>1. Len(ss[i]) = 1
      BY <2>2, <1>7
    <3>2. j \in 1 .. 1
      BY <3>1
    <3> QED BY <3>2
  <2> QED BY <2>2, <2>3, <2>4
<1> HIDE DEF g
<1> QED BY <1>4, <1>10, <1>11 DEF F, Lists

\* The changes whose details are in a table, and the records of those.
DetailPlaces(tx, t) ==
    {i \in 1 .. Len(tx.changes) : DetailTable(tx.changes[i].type) = t}

DetailRow(tx, v, t) == {ChangeRecord(tx, v, i) : i \in DetailPlaces(tx, t)}

\* The detail of change i is at g[i], and there are no others.
DetailsAt(g, rs, tx, v, t) ==
    /\ g \in [DetailPlaces(tx, t) -> 1 .. Len(rs)]
    /\ \A i \in DetailPlaces(tx, t) : rs[g[i]] = ChangeRecord(tx, v, i)
    /\ \A k \in 1 .. Len(rs) : \E i \in DetailPlaces(tx, t) : k = g[i]

\* A table of details gets a row for each of its changes.
LEMMA DetailRows ==
  ASSUME NEW tx \in InputTransaction, NEW v, NEW table
  PROVE  /\ Details(tx, v, table) \in Seq(DetailRow(tx, v, table))
         /\ \E g : DetailsAt(g, Details(tx, v, table), tx, v, table)
<1> DEFINE n == Len(tx.changes)
           P == {i \in 1 .. n : DetailTable(tx.changes[i].type) = table}
           r == [i \in 1 .. n |-> ChangeRecord(tx, v, i)]
           ss == [i \in 1 .. n |-> IF DetailTable(tx.changes[i].type) = table
                                   THEN << ChangeRecord(tx, v, i) >> ELSE <<>>]
           F == Details(tx, v, table)
<1>1. n \in Nat /\ DOMAIN tx.changes = 1 .. n
  BY RowCounts
<1>2. F = FlattenSeq(ss)
  BY <1>1 DEF Details
<1>3. P \in SUBSET (1 .. n)
  OBVIOUS
<1>4. \A i \in P : r[i] = ChangeRecord(tx, v, i)
  OBVIOUS
<1>5. \A i, j \in P : r[i] = r[j] => i = j
  <2>1. \A i \in 1 .. n : ChangeRecord(tx, v, i).change_index = i - 1
    BY DEF ChangeRecord
  <2> QED BY <2>1
<1> DEFINE S == {ChangeRecord(tx, v, i) : i \in P}
<1>6. \A i \in P : r[i] \in S
  BY <1>4
<1>7. \A i \in 1 .. n : ss[i] = IF i \in P THEN <<r[i]>> ELSE <<>>
  OBVIOUS
<1>10. ss \in [1 .. n -> Seq(S)]
  <2>1. ASSUME NEW i \in 1 .. n
        PROVE  (IF DetailTable(tx.changes[i].type) = table
                THEN << ChangeRecord(tx, v, i) >> ELSE <<>>) \in Seq(S)
    <3>1. CASE i \in P
      <4>1. /\ << ChangeRecord(tx, v, i) >> \in Seq({ChangeRecord(tx, v, i)})
            /\ {ChangeRecord(tx, v, i)} \subseteq S
        BY <3>1, SingleRow
      <4> HIDE DEF S
      <4>2. << ChangeRecord(tx, v, i) >> \in Seq(S)
        BY <4>1, SeqMonotonic
      <4> QED BY <3>1, <4>2
    <3>2. CASE i \notin P
      BY <3>2, EmptySeq
    <3> QED BY <3>1, <3>2
  <2> HIDE DEF S
  <2> QED BY <2>1
<1> HIDE DEF P, r, n, ss, F, S
<1>8. Picks(ss, n, r, P)
  BY <1>3, <1>5, <1>7 DEF Picks
<1>11. F \in Seq(S) /\ Lists(F, r, P)
  BY <1>1, <1>2, <1>8, <1>10, Picking
<1>9. F \in Seq(S) /\ \E g \in [P -> 1 .. Len(F)] :
            /\ \A i \in P : F[g[i]] = ChangeRecord(tx, v, i)
            /\ \A k \in 1 .. Len(F) : \E i \in P : k = g[i]
  BY <1>4, <1>11 DEF Lists
<1> QED BY <1>9 DEF P, n, F, S, DetailPlaces, DetailRow, DetailsAt

-----------------------------------------------------------------------------
(* The rows of a signature: subrecords by party and key *)

\* The number of signature records, as get_signatures says it.
SigCnt(tx, v) == {Len(s) : s \in GetSignatures(tx, v)}

\* The rows of one table can be made of a transaction.
Convertible(tx, v, t) ==
    /\ ~ TransactionExtractionFails(tx)
    /\ t \in {"signatures", "transactions"} => ~ GetSignaturesFails(tx)
    /\ t = "transactions" => ~ GetTransactionsFails(tx, SigCnt(tx, v))
    /\ t = "blocks" => ~ GetBlockFails(tx)
    /\ t = "events" => ~ GetEventsFails(tx) /\ ~ GetEventsPanics(tx)
    /\ t \in ChangeTables => ~ GetChangesFails(tx)

\* A list is a sequence of its own elements.
IsList(s) == \E n \in Nat : DOMAIN s = 1 .. n /\ s = [i \in 1 .. n |-> s[i]]

LEMMA ListIsSequence ==
  ASSUME NEW s
  PROVE  IsList(s) <=> s \in Seq(Range(s))
<1>1. ASSUME IsList(s) PROVE s \in Seq(Range(s))
  BY <1>1, IsSequence DEF IsList
<1>2. ASSUME s \in Seq(Range(s)) PROVE IsList(s)
  <2>1. /\ Len(s) \in Nat /\ DOMAIN s = 1 .. Len(s)
        /\ s \in [1 .. Len(s) -> Range(s)]
    BY <1>2, LenProperties
  <2> QED BY <2>1 DEF IsList
<1> QED BY <1>1, <1>2

LEMMA ElementsAreInRange ==
  ASSUME NEW S, NEW s \in Seq(S)
  PROVE  s \in Seq(Range(s)) /\ Range(s) = {s[i] : i \in 1 .. Len(s)}
<1>1. /\ Len(s) \in Nat /\ DOMAIN s = 1 .. Len(s) /\ s \in [1 .. Len(s) -> S]
  BY LenProperties
<1>2. IsList(s)
  BY <1>1 DEF IsList
<1> QED BY <1>1, <1>2, ListIsSequence DEF Range

Keys(a) == Len(a.public_keys)

\* The k-th public key of an account as its records show it.
KeyOf(a, k) ==
    PublicKey(IF a.type = "Abstraction" THEN "Abstraction" ELSE a.public_keys[k],
              KeyIndex(a, k))

\* The subrecord of the k-th key of an account.
OfKey(r, a, k) ==
    /\ r = SubRecord(r.buildtype, KeyOf(a, k), SignatureOf(a, k), r.is_sender)
    /\ IsUsable(r.is_sender) /\ r.is_sender.value = None

LEMMA SubRecordOfKey ==
  ASSUME NEW b, NEW a, NEW k, NEW flag \in {Present(None), DeferredFallback(None)}
  PROVE  /\ OfKey(SubRecord(b, KeyOf(a, k), SignatureOf(a, k), flag), a, k)
         /\ SubRecord(b, KeyOf(a, k), SignatureOf(a, k), flag).buildtype = b
<1>1. IsUsable(flag) /\ flag.value = None
  BY DEF IsUsable, Present, DeferredFallback
<1>2. \A x, y : /\ SubRecord(b, x, y, flag).buildtype = b
                /\ SubRecord(b, x, y, flag).is_sender = flag
  BY DEF SubRecord
<1> QED BY <1>1, <1>2 DEF OfKey

\* The parts of an account.
LEMMA AccountParts ==
  ASSUME NEW a \in AccountSignature
  PROVE  /\ Keys(a) \in Nat /\ DOMAIN a.public_keys = 1 .. Keys(a)
         /\ a.type \in AccountSignatureType
         /\ a.type \in {"Ed25519", "SingleKey", "Abstraction"} =>
               Keys(a) = 1 /\ a.indices = <<0>>
<1>1. a.public_keys \in Seq(STRING)
  BY DEF AccountSignature
<1>2. Keys(a) \in Nat /\ DOMAIN a.public_keys = 1 .. Keys(a)
  BY <1>1, LenProperties DEF Keys
<1> QED BY <1>2 DEF AccountSignature, Keys

\* An account that converts has one subrecord per key.
LEMMA AccountRows ==
  ASSUME NEW a \in AccountSignature, ~ AccountSignatureFails(a)
  PROVE  /\ FromAccountSignature(a) \in Seq(Range(FromAccountSignature(a)))
         /\ Len(FromAccountSignature(a)) = Keys(a)
         /\ \A k \in 1 .. Keys(a) :
               /\ OfKey(FromAccountSignature(a)[k], a, k)
               /\ a.type \in {"Ed25519", "MultiEd25519"} =>
                     FromAccountSignature(a)[k].buildtype = DeferredFallback(a.type)
<1> DEFINE f == FromAccountSignature(a)
<1>1. /\ Keys(a) \in Nat /\ a.type \in AccountSignatureType \ {"Unspecified"}
      /\ a.type \in {"Ed25519", "SingleKey", "Abstraction"} =>
            Keys(a) = 1 /\ a.indices = <<0>>
  BY AccountParts DEF AccountSignatureFails
<1>2. CASE a.type \in {"Ed25519", "SingleKey", "Abstraction"}
  <2> DEFINE b == IF a.type = "Ed25519" THEN DeferredFallback("Ed25519") ELSE Deferred
             flag == IF a.type = "Abstraction" THEN DeferredFallback(None)
                     ELSE Present(None)
             r == SubRecord(b, KeyOf(a, 1), SignatureOf(a, 1), flag)
  <2>1. Some(a.signatures[1]) = SignatureOf(a, 1)
    <3>1. a.indices = <<0>>
      BY <1>1, <1>2
    <3>2. DOMAIN <<0>> = {1} /\ <<0>>[1] = 0
      OBVIOUS
    <3>3. {i \in DOMAIN a.indices : a.indices[i] = 1 - 1} = {1}
      BY <3>1, <3>2
    <3> QED BY <3>3 DEF SignatureOf, Some
  <2>2. f = << r >>
    BY <1>2, <2>1 DEF FromAccountSignature, OneRecord, KeyOf, KeyIndex
  <2>3. flag \in {Present(None), DeferredFallback(None)}
    OBVIOUS
  <2> HIDE DEF flag
  <2>4. OfKey(r, a, 1) /\ r.buildtype = b
    BY <2>3, SubRecordOfKey
  <2>5. a.type = "Ed25519" => b = DeferredFallback(a.type)
    OBVIOUS
  <2> HIDE DEF r, f, b
  <2>6. /\ f \in Seq(Range(f)) /\ Len(f) = 1 /\ f[1] = r
    BY <2>2, SingleRow
  <2>7. \A k \in 1 .. Keys(a) : k = 1
    BY <1>1, <1>2
  <2>8. a.type # "MultiEd25519"
    BY <1>2
  <2> QED BY <1>1, <1>2, <2>4, <2>5, <2>6, <2>7, <2>8 DEF f
<1>3. CASE a.type \in {"MultiEd25519", "MultiKey"}
  <2> DEFINE b == IF a.type = "MultiEd25519" THEN DeferredFallback("MultiEd25519")
                  ELSE Deferred
             Rec(k) == SubRecord(b, KeyOf(a, k), SignatureOf(a, k), Present(None))
  <2>1. f = [k \in 1 .. Keys(a) |-> Rec(k)]
    <3>1. DOMAIN a.public_keys = 1 .. Keys(a)
      BY AccountParts
    <3>2. f = MultiRecords(a, b)
      BY <1>3 DEF FromAccountSignature
    <3>3. a.type # "Abstraction"
      BY <1>3
    <3> HIDE DEF b
    <3> QED BY <3>1, <3>2, <3>3 DEF MultiRecords, KeyOf
  <2>2. a.type = "MultiEd25519" => b = DeferredFallback(a.type)
    OBVIOUS
  <2>3. \A k \in 1 .. Keys(a) : OfKey(Rec(k), a, k) /\ Rec(k).buildtype = b
    <3> HIDE DEF b
    <3> QED BY SubRecordOfKey
  <2> HIDE DEF f, b, Rec
  <2>4. /\ DOMAIN f = 1 .. Keys(a) /\ f = [k \in 1 .. Keys(a) |-> f[k]]
        /\ \A k \in 1 .. Keys(a) : f[k] = Rec(k)
    BY <2>1
  <2>5. f \in Seq(Range(f)) /\ Len(f) = Keys(a)
    BY <1>1, <2>4, IsSequence
  <2> QED BY <1>3, <2>2, <2>3, <2>4, <2>5 DEF f
<1> QED BY <1>1, <1>2, <1>3 DEF AccountSignatureType

\* Who signs: the accounts in the order of their subrecords.
Party == [role : {"sender", "feepayer", "secondary"}, address : Address \cup {"none"},
          account : AccountSignature]

Of(role, address, account) == [role |-> role, address |-> address, account |-> account]

SenderOf(sig) == Of("sender", "none", CHOOSE a \in sig.sender : TRUE)
PayerOf(sig) == Of("feepayer", sig.fee_payer_address, CHOOSE a \in sig.fee_payer : TRUE)
SecondsOf(sig) ==
    [i \in DOMAIN Secondaries(sig) |->
        Of("secondary", Secondaries(sig)[i][2], Secondaries(sig)[i][1])]

PartiesOf(sig) ==
    IF sig.type = "MultiAgent" THEN SecondsOf(sig) \o << SenderOf(sig) >>
    ELSE IF sig.type = "FeePayer"
         THEN << SenderOf(sig) >> \o << PayerOf(sig) >> \o SecondsOf(sig)
    ELSE << SenderOf(sig) >>

\* What a signature of several signers, or of one, makes of a party.
PartyRows(sig, p) ==
    IF sig.type \in {"MultiAgent", "FeePayer"}
    THEN WithRole(p.account, sig.type, p.role, p.address)
    ELSE IF sig.type = "SingleSender" THEN FromSingleSender(sig)
    ELSE FromAccountSignature(p.account)

\* The subrecord of the k-th key of a party.
OfParty(r, sig, p, k) ==
    /\ r.buildtype = DeferredFallback(sig.type)
    /\ r.public_key = KeyOf(p.account, k)
    /\ r.signature = SignatureOf(p.account, k)
    /\ r.signer = IF p.role = "sender" THEN Deferred ELSE Present(p.address)
    /\ IsUsable(r.is_secondary) /\ IsUsable(r.is_feepayer) /\ IsUsable(r.is_sender)
    /\ IF sig.type \in {"MultiAgent", "FeePayer"}
       THEN /\ r.is_secondary.value = Some(p.role = "secondary")
            /\ r.is_sender.value = Some(p.role = "sender")
       ELSE r.is_secondary.value = None /\ r.is_sender.value = None
    /\ r.is_feepayer.value = IF sig.type = "FeePayer" THEN Some(p.role = "feepayer") ELSE None

\* An account that converts, and for one signer the sender himself.
MayBeParty(sig, p) ==
    /\ p \in Party
    /\ ~ AccountSignatureFails(p.account)
    /\ sig.type \notin {"MultiAgent", "FeePayer"} =>
          /\ p = SenderOf(sig)
          /\ p.account.type = sig.type \/ sig.type = "SingleSender"

\* The subrecords of a party are one per key, all of the party.
LEMMA PartyRowsType ==
  ASSUME NEW sig \in Signature, sig.type # "Unspecified", NEW p, MayBeParty(sig, p)
  PROVE  /\ PartyRows(sig, p) \in Seq(Range(PartyRows(sig, p)))
         /\ Len(PartyRows(sig, p)) = Keys(p.account)
         /\ \A k \in 1 .. Keys(p.account) : OfParty(PartyRows(sig, p)[k], sig, p, k)
<1> DEFINE a == p.account
           f == FromAccountSignature(a)
           w == PartyRows(sig, p)
<1>1. a \in AccountSignature /\ ~ AccountSignatureFails(a) /\ Keys(a) \in Nat
      /\ p.role \in {"sender", "feepayer", "secondary"}
  BY AccountParts DEF MayBeParty, Party
<1>2. /\ f \in Seq(Range(f)) /\ Len(f) = Keys(a)
      /\ \A k \in 1 .. Keys(a) :
            /\ OfKey(f[k], a, k)
            /\ a.type \in {"Ed25519", "MultiEd25519"} =>
                  f[k].buildtype = DeferredFallback(a.type)
  BY <1>1, AccountRows
<1>3. DOMAIN f = 1 .. Keys(a)
  BY <1>2, LenProperties
<1>4. CASE sig.type \in {"MultiAgent", "FeePayer"}
  <2> DEFINE Play(r) ==
          [r EXCEPT
            !.buildtype = DeferredFallback(sig.type),
            !.signer = IF p.role = "sender" THEN @ ELSE Present(p.address),
            !.is_secondary = Present(Some(p.role = "secondary")),
            !.is_sender = Present(Some(p.role = "sender")),
            !.is_feepayer = IF sig.type = "FeePayer"
                            THEN Present(Some(p.role = "feepayer")) ELSE @]
  <2>1. w = [k \in 1 .. Keys(a) |-> Play(f[k])]
    BY <1>3, <1>4 DEF PartyRows, WithRole
  <2>2. ASSUME NEW k \in 1 .. Keys(a) PROVE OfParty(Play(f[k]), sig, p, k)
    <3> DEFINE b == f[k].buildtype
               y == KeyOf(a, k)
               z == SignatureOf(a, k)
               flag == f[k].is_sender
               q == [buildtype |-> b, public_key |-> y, signature |-> z, signer |-> Deferred,
                     is_secondary |-> flag, is_feepayer |-> flag, is_sender |-> flag]
    <3>1. f[k] = q
      BY <1>2 DEF OfKey, SubRecord
    <3>2. y = KeyOf(a, k) /\ z = SignatureOf(a, k) /\ IsUsable(flag) /\ flag.value = None
      BY <1>2 DEF OfKey
    <3> HIDE DEF b, y, z, flag
    <3> DEFINE x == Play(q)
    <3>3. /\ x.buildtype = DeferredFallback(sig.type) /\ x.public_key = y /\ x.signature = z
          /\ x.signer = IF p.role = "sender" THEN Deferred ELSE Present(p.address)
          /\ x.is_secondary = Present(Some(p.role = "secondary"))
          /\ x.is_sender = Present(Some(p.role = "sender"))
          /\ x.is_feepayer = IF sig.type = "FeePayer"
                             THEN Present(Some(p.role = "feepayer")) ELSE flag
      OBVIOUS
    <3> HIDE DEF x
    <3>4. \A v : IsUsable(Present(v)) /\ Present(v).value = v
      BY DEF IsUsable, Present
    <3>5. OfParty(x, sig, p, k)
      BY <3>2, <3>3, <3>4, <1>4 DEF OfParty
    <3> QED BY <3>1, <3>5 DEF x
  <2>3. DOMAIN w = 1 .. Keys(a) /\ w = [k \in 1 .. Keys(a) |-> w[k]]
        /\ \A k \in 1 .. Keys(a) : OfParty(w[k], sig, p, k)
    <3> HIDE DEF Play
    <3> QED BY <2>1, <2>2
  <2> QED BY <1>1, <2>3, IsSequence
<1>5. CASE sig.type = "SingleSender"
  <2> DEFINE Play(r) == [r EXCEPT !.buildtype = DeferredFallback("SingleSender")]
  <2>0. a = CHOOSE s \in sig.sender : TRUE
    BY <1>5 DEF MayBeParty, SenderOf, Of
  <2>1. w = [k \in 1 .. Keys(a) |-> Play(f[k])]
    BY <1>3, <1>5, <2>0 DEF PartyRows, FromSingleSender
  <2>2. ASSUME NEW k \in 1 .. Keys(a) PROVE OfParty(Play(f[k]), sig, p, k)
    <3> DEFINE b == f[k].buildtype
               y == KeyOf(a, k)
               z == SignatureOf(a, k)
               flag == f[k].is_sender
               q == [buildtype |-> b, public_key |-> y, signature |-> z, signer |-> Deferred,
                     is_secondary |-> flag, is_feepayer |-> flag, is_sender |-> flag]
    <3>1. f[k] = q
      BY <1>2 DEF OfKey, SubRecord
    <3>2. y = KeyOf(a, k) /\ z = SignatureOf(a, k) /\ IsUsable(flag) /\ flag.value = None
      BY <1>2 DEF OfKey
    <3> HIDE DEF b, y, z, flag
    <3> DEFINE x == Play(q)
    <3>3. /\ x.buildtype = DeferredFallback("SingleSender") /\ x.public_key = y /\ x.signature = z
          /\ x.signer = Deferred /\ x.is_secondary = flag /\ x.is_sender = flag
          /\ x.is_feepayer = flag
      OBVIOUS
    <3> HIDE DEF x
    <3>4. p.role = "sender"
      BY <1>5 DEF MayBeParty, SenderOf, Of
    <3>5. OfParty(x, sig, p, k)
      BY <3>2, <3>3, <3>4, <1>5 DEF OfParty
    <3> QED BY <3>1, <3>5 DEF x
  <2>3. DOMAIN w = 1 .. Keys(a) /\ w = [k \in 1 .. Keys(a) |-> w[k]]
        /\ \A k \in 1 .. Keys(a) : OfParty(w[k], sig, p, k)
    <3> HIDE DEF Play
    <3> QED BY <2>1, <2>2
  <2> QED BY <1>1, <2>3, IsSequence
<1>6. CASE sig.type \in {"Ed25519", "MultiEd25519"}
  <2>1. w = f
    BY <1>6 DEF PartyRows
  <2>2. a.type = sig.type /\ p.role = "sender"
    BY <1>6 DEF MayBeParty, SenderOf, Of
  <2>3. ASSUME NEW k \in 1 .. Keys(a) PROVE OfParty(f[k], sig, p, k)
    <3> DEFINE b == f[k].buildtype
               y == KeyOf(a, k)
               z == SignatureOf(a, k)
               flag == f[k].is_sender
    <3>1. f[k] = SubRecord(b, y, z, flag)
      BY <1>2 DEF OfKey
    <3>2. f[k].buildtype = DeferredFallback(sig.type)
      BY <1>2, <1>6, <2>2
    <3>3. IsUsable(f[k].is_sender) /\ f[k].is_sender.value = None
      BY <1>2 DEF OfKey
    <3>4. f[k].public_key = y /\ f[k].signature = z /\ f[k].signer = Deferred
          /\ f[k].is_secondary = flag /\ f[k].is_feepayer = flag
      <4> DEFINE q == SubRecord(b, y, z, flag)
      <4>1. q.public_key = y /\ q.signature = z /\ q.signer = Deferred
            /\ q.is_secondary = flag /\ q.is_feepayer = flag
        <5> HIDE DEF b, y, z, flag
        <5> QED BY DEF SubRecord
      <4> QED BY <3>1, <4>1
    <3>5. IsUsable(f[k].is_secondary) /\ IsUsable(f[k].is_feepayer)
      BY <3>3, <3>4
    <3> QED BY <3>2, <3>3, <3>4, <3>5, <2>2, <1>6 DEF OfParty
  <2> QED BY <1>2, <2>1, <2>3
<1> QED BY <1>4, <1>5, <1>6 DEF Signature

Layout(sig, ps) == [i \in 1 .. Len(ps) |-> PartyRows(sig, ps[i])]

SubRow(sig) == UNION {Range(PartyRows(sig, p)) : p \in Party}

Parties(sig) == {p \in Party : MayBeParty(sig, p)}

LEMMA LayoutType ==
  ASSUME NEW sig \in Signature, sig.type # "Unspecified", NEW ps \in Seq(Parties(sig))
  PROVE  /\ Layout(sig, ps) \in Seq(Seq(SubRow(sig)))
         /\ Len(Layout(sig, ps)) = Len(ps)
         /\ \A i \in 1 .. Len(ps) : Layout(sig, ps)[i] = PartyRows(sig, ps[i])
<1>1. Len(ps) \in Nat /\ \A i \in 1 .. Len(ps) : ps[i] \in Parties(sig)
  BY LenProperties, ElementOfSeq
<1>2. ASSUME NEW p \in Parties(sig) PROVE PartyRows(sig, p) \in Seq(SubRow(sig))
  <2>1. PartyRows(sig, p) \in Seq(Range(PartyRows(sig, p)))
    BY PartyRowsType DEF Parties
  <2>2. Range(PartyRows(sig, p)) \subseteq SubRow(sig)
    BY DEF SubRow, Parties
  <2> QED BY <2>1, <2>2, SeqMonotonic
<1>3. Layout(sig, ps) \in [1 .. Len(ps) -> Seq(SubRow(sig))]
  BY <1>1, <1>2 DEF Layout
<1>4. Layout(sig, ps) \in Seq(Seq(SubRow(sig))) /\ Len(Layout(sig, ps)) = Len(ps)
  BY <1>1, <1>3, SequenceByElements
<1> QED BY <1>4 DEF Layout

LEMMA LayoutConcat ==
  ASSUME NEW sig \in Signature, sig.type # "Unspecified",
         NEW a \in Seq(Parties(sig)), NEW b \in Seq(Parties(sig))
  PROVE  Layout(sig, a \o b) = Layout(sig, a) \o Layout(sig, b)
<1> DEFINE V == Seq(SubRow(sig))
           c == a \o b
           la == Layout(sig, a)
           lb == Layout(sig, b)
           lc == Layout(sig, c)
           d == la \o lb
<1>1. /\ Len(a) \in Nat /\ Len(b) \in Nat
      /\ c \in Seq(Parties(sig)) /\ Len(c) = Len(a) + Len(b)
      /\ \A i \in 1 .. Len(a) + Len(b) :
            c[i] = IF i <= Len(a) THEN a[i] ELSE b[i - Len(a)]
  BY ConcatProperties, LenProperties
<1>2. /\ la \in Seq(V) /\ Len(la) = Len(a)
      /\ \A i \in 1 .. Len(a) : la[i] = PartyRows(sig, a[i])
  BY LayoutType
<1>3. /\ lb \in Seq(V) /\ Len(lb) = Len(b)
      /\ \A i \in 1 .. Len(b) : lb[i] = PartyRows(sig, b[i])
  BY LayoutType
<1> HIDE DEF c
<1>4. /\ lc \in Seq(V) /\ Len(lc) = Len(c)
      /\ \A i \in 1 .. Len(c) : lc[i] = PartyRows(sig, c[i])
  BY <1>1, LayoutType
<1> HIDE DEF V, la, lb, lc
<1>5. /\ d \in Seq(V) /\ Len(d) = Len(a) + Len(b)
      /\ \A i \in 1 .. Len(a) + Len(b) :
            d[i] = IF i <= Len(a) THEN la[i] ELSE lb[i - Len(a)]
  <2>1. /\ d \in Seq(V) /\ Len(d) = Len(la) + Len(lb)
        /\ \A i \in 1 .. Len(la) + Len(lb) :
              d[i] = IF i <= Len(la) THEN la[i] ELSE lb[i - Len(la)]
    <3>1. la \in Seq(V) /\ lb \in Seq(V)
      BY <1>2, <1>3
    <3> QED BY <3>1, ConcatProperties
  <2> QED BY <2>1, <1>2, <1>3
<1> HIDE DEF d
<1>6. ASSUME NEW i \in 1 .. Len(c) PROVE lc[i] = d[i]
  <2>1. CASE i <= Len(a)
    <3>1. i \in 1 .. Len(a)
      BY <2>1, <1>1
    <3> QED BY <2>1, <3>1, <1>1, <1>2, <1>4, <1>5
  <2>2. CASE ~ (i <= Len(a))
    <3>1. i - Len(a) \in 1 .. Len(b)
      BY <2>2, <1>1
    <3> QED BY <2>2, <3>1, <1>1, <1>3, <1>4, <1>5
  <2> QED BY <2>1, <2>2
<1>7. lc = d
  BY <1>1, <1>4, <1>5, <1>6, SeqEqual
<1> QED BY <1>7 DEF lc, c, d, la, lb

LEMMA FlattenSeqOne ==
  ASSUME NEW S, NEW x \in Seq(S)
  PROVE  FlattenSeq(<<x>>) = x
<1>1. <<>> \in Seq(Seq(S)) /\ Append(<<>>, x) = <<x>>
  BY EmptySeq
<1>2. FlattenSeq(Append(<<>>, x)) = FlattenSeq(<<>>) \o x
  BY <1>1, FlattenSeqAppend
<1> QED BY <1>1, <1>2, FlattenSeqEmpty, ConcatEmptySeq

\* What is appended to a sequence is appended to a concatenation it ends.
LEMMA AppendConcat ==
  ASSUME NEW W, NEW u \in Seq(W), NEW r \in Seq(W), NEW x \in W
  PROVE  u \o Append(r, x) = Append(u \o r, x)
<1> DEFINE y == <<x>>
<1>1. y \in Seq(W)
  OBVIOUS
<1>2. Append(r, x) = r \o y
  BY AppendIsConcat
<1>3. u \o r \in Seq(W)
  BY ConcatProperties
<1>4. Append(u \o r, x) = (u \o r) \o y
  BY <1>3, AppendIsConcat
<1> HIDE DEF y
<1>5. (u \o r) \o y = u \o (r \o y)
  BY <1>1, ConcatAssociative
<1> QED BY <1>2, <1>4, <1>5

\* Flattening distributes over concatenation.
LEMMA FlattenSeqConcat ==
  ASSUME NEW S, NEW s \in Seq(Seq(S)), NEW t \in Seq(Seq(S))
  PROVE  FlattenSeq(s \o t) = FlattenSeq(s) \o FlattenSeq(t)
<1> DEFINE T == {r \in Seq(Seq(S)) : FlattenSeq(s \o r) = FlattenSeq(s) \o FlattenSeq(r)}
<1>0. FlattenSeq(s) \in Seq(S)
  BY FlattenSeqType
<1>1. <<>> \in T
  <2>1. s \o <<>> = s /\ FlattenSeq(s) \o <<>> = FlattenSeq(s)
    BY <1>0, ConcatEmptySeq
  <2> QED BY <2>1, FlattenSeqEmpty, EmptySeq
<1>2. ASSUME NEW r \in Seq(Seq(S)), NEW x \in Seq(S), r \in T
      PROVE  Append(r, x) \in T
  <2>1. Append(r, x) \in Seq(Seq(S))
    BY AppendProperties
  <2>2. s \o Append(r, x) = Append(s \o r, x)
    BY <1>2, AppendConcat, SMTT(20)
  <2>3. s \o r \in Seq(Seq(S))
    BY ConcatProperties
  <2>4. FlattenSeq(Append(s \o r, x)) = FlattenSeq(s \o r) \o x
    BY <2>3, FlattenSeqAppend
  <2>5. FlattenSeq(Append(r, x)) = FlattenSeq(r) \o x
    BY FlattenSeqAppend
  <2>6. FlattenSeq(r) \in Seq(S)
    BY FlattenSeqType
  <2>7. (FlattenSeq(s) \o FlattenSeq(r)) \o x = FlattenSeq(s) \o (FlattenSeq(r) \o x)
    BY <1>0, <2>6, ConcatAssociative, SMTT(20)
  <2> QED BY <1>2, <2>1, <2>2, <2>4, <2>5, <2>7
<1> HIDE DEF T
<1>3. Seq(Seq(S)) \subseteq T
  BY <1>1, <1>2, SequenceInduction
<1> QED BY <1>3 DEF T

\* The secondary signers are paired with the addresses as far as both go.
PairCount(sig) ==
    IF Len(sig.secondary_signers) <= Len(sig.secondary_addresses)
    THEN Len(sig.secondary_signers) ELSE Len(sig.secondary_addresses)

LEMMA SecondaryPairs ==
  ASSUME NEW sig \in Signature
  PROVE  /\ PairCount(sig) \in Nat /\ DOMAIN Secondaries(sig) = 1 .. PairCount(sig)
         /\ 1 .. PairCount(sig) \subseteq DOMAIN sig.secondary_signers
         /\ 1 .. PairCount(sig) \subseteq DOMAIN sig.secondary_addresses
         /\ \A i \in 1 .. PairCount(sig) :
               /\ Secondaries(sig)[i][1] = sig.secondary_signers[i]
               /\ Secondaries(sig)[i][2] = sig.secondary_addresses[i]
               /\ sig.secondary_signers[i] \in AccountSignature
               /\ sig.secondary_addresses[i] \in Address
<1> DEFINE n == PairCount(sig)
           a == sig.secondary_signers
           b == sig.secondary_addresses
<1>1. a \in Seq(AccountSignature) /\ b \in Seq(Address)
  BY DEF Signature
<1> HIDE DEF a, b
<1>2. /\ Len(a) \in Nat /\ Len(b) \in Nat /\ DOMAIN a = 1 .. Len(a) /\ DOMAIN b = 1 .. Len(b)
      /\ \A i \in 1 .. Len(a) : a[i] \in AccountSignature
      /\ \A i \in 1 .. Len(b) : b[i] \in Address
  BY <1>1, LenProperties, ElementOfSeq
<1>3. n \in Nat /\ n <= Len(a) /\ n <= Len(b)
  BY <1>2 DEF PairCount, a, b
<1>4. Secondaries(sig) = [i \in 1 .. n |-> <<a[i], b[i]>>]
  BY DEF Secondaries, Zip, PairCount, a, b
<1> HIDE DEF n
<1>5. /\ \A i \in 1 .. n : a[i] \in AccountSignature /\ b[i] \in Address
      /\ 1 .. n \subseteq DOMAIN a /\ 1 .. n \subseteq DOMAIN b
  BY <1>2, <1>3
<1> QED BY <1>3, <1>4, <1>5 DEF n, a, b

\* The parties of a signature that converts are accounts that convert.
LEMMA PartiesType ==
  ASSUME NEW sig \in Signature, ~ SignatureFails(sig)
  PROVE  /\ sig.type # "Unspecified"
         /\ SenderOf(sig) \in Parties(sig)
         /\ sig.type = "FeePayer" => PayerOf(sig) \in Parties(sig)
         /\ sig.type \in {"MultiAgent", "FeePayer"} => SecondsOf(sig) \in Seq(Parties(sig))
         /\ PartiesOf(sig) \in Seq(Parties(sig))
<1>1. /\ sig.type # "Unspecified" /\ sig.sender # {}
      /\ sig.sender \subseteq AccountSignature /\ sig.fee_payer \subseteq AccountSignature
      /\ sig.type \in {"Ed25519", "MultiEd25519"} => \A a \in sig.sender : a.type = sig.type
      /\ sig.type \in {"Ed25519", "MultiEd25519", "MultiAgent", "FeePayer", "SingleSender"}
      /\ sig.fee_payer_address \in Address
      /\ sig.secondary_signers \in Seq(AccountSignature)
      /\ sig.secondary_addresses \in Seq(Address)
  BY DEF SignatureFails, Signature, None, Option
<1>2. SenderOf(sig) \in Parties(sig)
  <2> DEFINE a == CHOOSE s \in sig.sender : TRUE
  <2>1. a \in sig.sender
    BY <1>1
  <2>2. /\ a \in AccountSignature /\ ~ AccountSignatureFails(a)
        /\ sig.type \in {"Ed25519", "MultiEd25519"} => a.type = sig.type
    BY <1>1, <2>1 DEF SignatureFails
  <2> HIDE DEF a
  <2>3. SenderOf(sig) = Of("sender", "none", a)
    BY DEF SenderOf, a
  <2>4. SenderOf(sig) \in Party /\ SenderOf(sig).account = a
    BY <2>2, <2>3 DEF Of, Party
  <2>5. MayBeParty(sig, SenderOf(sig))
    BY <1>1, <2>2, <2>4 DEF MayBeParty
  <2> QED BY <2>4, <2>5 DEF Parties
<1>3. ASSUME sig.type = "FeePayer" PROVE PayerOf(sig) \in Parties(sig)
  <2> DEFINE a == CHOOSE s \in sig.fee_payer : TRUE
  <2>1. a \in sig.fee_payer
    BY <1>3 DEF SignatureFails, None
  <2>2. a \in AccountSignature /\ ~ AccountSignatureFails(a)
    BY <1>1, <1>3, <2>1 DEF SignatureFails
  <2> HIDE DEF a
  <2>3. PayerOf(sig) = Of("feepayer", sig.fee_payer_address, a)
    BY DEF PayerOf, a
  <2>4. PayerOf(sig) \in Party /\ PayerOf(sig).account = a
    BY <1>1, <2>2, <2>3 DEF Of, Party
  <2>5. MayBeParty(sig, PayerOf(sig))
    BY <1>3, <2>2, <2>4 DEF MayBeParty
  <2> QED BY <2>4, <2>5 DEF Parties
<1> DEFINE n == PairCount(sig)
<1>4. /\ n \in Nat /\ DOMAIN Secondaries(sig) = 1 .. n
      /\ \A i \in 1 .. n : /\ Secondaries(sig)[i][1] = sig.secondary_signers[i]
                           /\ Secondaries(sig)[i][2] = sig.secondary_addresses[i]
                           /\ sig.secondary_signers[i] \in AccountSignature
                           /\ sig.secondary_addresses[i] \in Address
  BY SecondaryPairs
<1> HIDE DEF n
<1>5. ASSUME sig.type \in {"MultiAgent", "FeePayer"}
      PROVE  SecondsOf(sig) \in Seq(Parties(sig))
  <2>1. ASSUME NEW i \in 1 .. n
        PROVE  Of("secondary", Secondaries(sig)[i][2], Secondaries(sig)[i][1]) \in Parties(sig)
    <3> DEFINE a == Secondaries(sig)[i][1]
               p == Of("secondary", Secondaries(sig)[i][2], a)
    <3>1. a \in AccountSignature /\ ~ AccountSignatureFails(a)
          /\ Secondaries(sig)[i][2] \in Address
      BY <1>4, <1>5, <2>1 DEF SignatureFails
    <3>2. p \in Party /\ p.account = a
      BY <3>1 DEF Of, Party
    <3> HIDE DEF a, p
    <3>3. MayBeParty(sig, p)
      BY <1>5, <3>1, <3>2 DEF MayBeParty
    <3>4. p \in Parties(sig)
      BY <3>2, <3>3 DEF Parties
    <3> QED BY <3>4 DEF p, a
  <2>2. SecondsOf(sig) \in [1 .. n -> Parties(sig)]
    BY <1>4, <2>1 DEF SecondsOf
  <2> QED BY <1>4, <2>2, SequenceByElements
<1>6. PartiesOf(sig) \in Seq(Parties(sig))
  <2>1. << SenderOf(sig) >> \in Seq(Parties(sig))
    BY <1>2
  <2>2. CASE sig.type = "MultiAgent"
    BY <2>1, <2>2, <1>5, ConcatProperties DEF PartiesOf
  <2>3. CASE sig.type = "FeePayer"
    <3>1. << PayerOf(sig) >> \in Seq(Parties(sig))
      BY <1>3, <2>3
    <3>2. << SenderOf(sig) >> \o << PayerOf(sig) >> \in Seq(Parties(sig))
      BY <2>1, <3>1, ConcatProperties
    <3>3. (<< SenderOf(sig) >> \o << PayerOf(sig) >>) \o SecondsOf(sig) \in Seq(Parties(sig))
      BY <3>2, <1>5, <2>3, ConcatProperties
    <3> QED BY <3>3, <2>3 DEF PartiesOf
  <2>4. CASE sig.type \notin {"MultiAgent", "FeePayer"}
    BY <2>1, <2>4 DEF PartiesOf
  <2> QED BY <2>2, <2>3, <2>4
<1> QED BY <1>1, <1>2, <1>3, <1>5, <1>6

SecondOf(sig, i) == Of("secondary", sig.secondary_addresses[i], sig.secondary_signers[i])

\* The parties of a signature by their places.
LEMMA PartyPlaces ==
  ASSUME NEW sig \in Signature, ~ SignatureFails(sig)
  PROVE  /\ sig.type \notin {"MultiAgent", "FeePayer"} =>
               Len(PartiesOf(sig)) = 1 /\ PartiesOf(sig)[1] = SenderOf(sig)
         /\ sig.type = "MultiAgent" =>
               /\ Len(PartiesOf(sig)) = PairCount(sig) + 1
               /\ PartiesOf(sig)[PairCount(sig) + 1] = SenderOf(sig)
               /\ \A i \in 1 .. PairCount(sig) : PartiesOf(sig)[i] = SecondOf(sig, i)
         /\ sig.type = "FeePayer" =>
               /\ Len(PartiesOf(sig)) = PairCount(sig) + 2
               /\ PartiesOf(sig)[1] = SenderOf(sig) /\ PartiesOf(sig)[2] = PayerOf(sig)
               /\ \A i \in 1 .. PairCount(sig) : PartiesOf(sig)[i + 2] = SecondOf(sig, i)
<1> DEFINE n == PairCount(sig)
           S == Parties(sig)
           q == SecondsOf(sig)
           x == SenderOf(sig)
           y == PayerOf(sig)
<1>1. /\ n \in Nat /\ DOMAIN Secondaries(sig) = 1 .. n
      /\ \A i \in 1 .. n : /\ Secondaries(sig)[i][1] = sig.secondary_signers[i]
                           /\ Secondaries(sig)[i][2] = sig.secondary_addresses[i]
  BY SecondaryPairs
<1> HIDE DEF n
<1>2. DOMAIN q = 1 .. n /\ \A i \in 1 .. n : q[i] = SecondOf(sig, i)
  BY <1>1 DEF SecondsOf, SecondOf
<1>3. /\ x \in S
      /\ sig.type = "FeePayer" => y \in S
      /\ sig.type \in {"MultiAgent", "FeePayer"} => q \in Seq(S)
  BY PartiesType
<1> HIDE DEF q, x, y, S
<1>4. CASE sig.type \notin {"MultiAgent", "FeePayer"}
  <2>1. PartiesOf(sig) = <<x>>
    BY <1>4 DEF PartiesOf, x
  <2> QED BY <1>4, <2>1, SingleRow DEF x
<1>5. CASE sig.type = "MultiAgent"
  <2>1. PartiesOf(sig) = q \o <<x>>
    BY <1>5 DEF PartiesOf, q, x
  <2>2. q \in Seq(S) /\ <<x>> \in Seq(S)
    BY <1>3, <1>5
  <2>3. Len(q) = n /\ Len(<<x>>) = 1 /\ <<x>>[1] = x
    BY <1>1, <1>2, <2>2, LenProperties, SingleRow
  <2> DEFINE z == <<x>>
  <2> HIDE DEF z
  <2>4. /\ Len(q \o z) = Len(q) + Len(z)
        /\ \A i \in 1 .. Len(q) : (q \o z)[i] = q[i]
        /\ \A i \in 1 .. Len(z) : (q \o z)[Len(q) + i] = z[i]
    BY <2>2, ConcatProperties, LenProperties DEF z
  <2>5. Len(z) = 1 /\ z[1] = x
    BY <2>3 DEF z
  <2>6. /\ Len(PartiesOf(sig)) = n + 1 /\ PartiesOf(sig)[n + 1] = x
        /\ \A i \in 1 .. n : PartiesOf(sig)[i] = q[i]
    BY <2>1, <2>3, <2>4, <2>5 DEF z
  <2> QED BY <1>2, <1>5, <2>6 DEF n, x
<1>6. CASE sig.type = "FeePayer"
  <2> DEFINE w == <<x>> \o <<y>>
             p == w \o q
  <2>1. PartiesOf(sig) = p
    BY <1>6 DEF PartiesOf, q, x, y
  <2>2. q \in Seq(S) /\ <<x>> \in Seq(S) /\ <<y>> \in Seq(S)
    BY <1>3, <1>6
  <2>3. w \in Seq(S) /\ Len(w) = 2 /\ w[1] = x /\ w[2] = y
    BY <1>3, <1>6
  <2> HIDE DEF w
  <2>4. Len(q) = n
    BY <1>1, <1>2, <2>2, LenProperties
  <2>5. /\ Len(p) = Len(w) + Len(q)
        /\ \A i \in 1 .. Len(w) : p[i] = w[i]
        /\ \A i \in 1 .. Len(q) : p[Len(w) + i] = q[i]
    <3>1. w \in Seq(S)
      BY <2>3
    <3>2. Len(w) \in Nat /\ Len(q) \in Nat
      BY <2>2, <3>1, LenProperties
    <3> QED BY <2>2, <3>1, <3>2, ConcatProperties
  <2> HIDE DEF p
  <2>6. Len(p) = n + 2 /\ p[1] = x /\ p[2] = y
    BY <1>1, <2>3, <2>4, <2>5
  <2>7. \A i \in 1 .. n : p[i + 2] = q[i]
    BY <1>1, <2>3, <2>4, <2>5
  <2> QED BY <1>2, <1>6, <2>1, <2>6, <2>7 DEF n, x, y
<1> QED BY <1>4, <1>5, <1>6

\* The subrecords of a signature are those of its parties, one after another.
LEMMA SignatureLayout ==
  ASSUME NEW sig \in Signature, ~ SignatureFails(sig)
  PROVE  FromSignature(sig) = FlattenSeq(Layout(sig, PartiesOf(sig)))
<1> DEFINE S == SubRow(sig)
           Flat(ps) == FlattenSeq(Layout(sig, ps))
           sender == << SenderOf(sig) >>
           payer == << PayerOf(sig) >>
           seconds == SecondsOf(sig)
<1>1. /\ sig.type # "Unspecified"
      /\ sender \in Seq(Parties(sig))
      /\ sig.type = "FeePayer" => payer \in Seq(Parties(sig))
      /\ sig.type \in {"MultiAgent", "FeePayer"} => seconds \in Seq(Parties(sig))
  BY PartiesType
<1>2. ASSUME NEW p \in Parties(sig) PROVE Flat(<<p>>) = PartyRows(sig, p)
  <2> DEFINE ps == <<p>>
             x == PartyRows(sig, p)
  <2>1. ps \in Seq(Parties(sig)) /\ Len(ps) = 1 /\ ps[1] = p
    OBVIOUS
  <2> HIDE DEF ps
  <2>2. /\ Layout(sig, ps) \in Seq(Seq(S)) /\ Len(Layout(sig, ps)) = 1
        /\ Layout(sig, ps)[1] = x
    BY <1>1, <2>1, LayoutType
  <2>3. Layout(sig, ps) = <<x>> /\ x \in Seq(S)
    <3> DEFINE l == Layout(sig, ps)
               y == <<x>>
    <3>1. x \in Seq(Range(x))
      BY <1>1, PartyRowsType DEF Parties
    <3>2. x \in Seq(S)
      <4>1. Range(x) \subseteq S
        BY DEF SubRow, Parties
      <4> HIDE DEF S, x
      <4> QED BY <3>1, <4>1, SeqMonotonic
    <3>3. y \in Seq(Seq(S)) /\ Len(y) = 1 /\ y[1] = x
      BY <3>2
    <3> HIDE DEF l, y, x
    <3>4. l \in Seq(Seq(S)) /\ Len(l) = 1 /\ l[1] = x
      BY <2>2 DEF l, x
    <3>5. \A i \in 1 .. Len(l) : l[i] = y[i]
      BY <3>3, <3>4
    <3> HIDE DEF S
    <3>6. l = y
      BY <3>3, <3>4, <3>5, SeqEqual
    <3> QED BY <3>2, <3>6 DEF l, y
  <2>4. FlattenSeq(<<x>>) = x
    BY <2>3, FlattenSeqOne
  <2> QED BY <2>3, <2>4 DEF ps
<1>3. ASSUME NEW a \in Seq(Parties(sig)), NEW b \in Seq(Parties(sig))
      PROVE  Flat(a \o b) = Flat(a) \o Flat(b)
  <2>1. Layout(sig, a \o b) = Layout(sig, a) \o Layout(sig, b)
    BY <1>1, LayoutConcat
  <2>2. Layout(sig, a) \in Seq(Seq(S)) /\ Layout(sig, b) \in Seq(Seq(S))
    BY <1>1, LayoutType
  <2>3. FlattenSeq(Layout(sig, a) \o Layout(sig, b))
          = FlattenSeq(Layout(sig, a)) \o FlattenSeq(Layout(sig, b))
    BY <2>2, FlattenSeqConcat
  <2> QED BY <2>1, <2>3
<1>4. ASSUME sig.type \in {"MultiAgent", "FeePayer"}
      PROVE  SecondaryRecords(sig, sig.type) = Flat(seconds)
  <2> DEFINE n == Len(Secondaries(sig))
             D == DOMAIN Secondaries(sig)
  <2>1. seconds = [i \in D |-> Of("secondary", Secondaries(sig)[i][2], Secondaries(sig)[i][1])]
    BY DEF SecondsOf
  <2>2. DOMAIN seconds = D /\ DOMAIN seconds = 1 .. Len(seconds)
    <3>1. DOMAIN seconds = D
      BY <2>1
    <3>2. DOMAIN seconds = 1 .. Len(seconds)
      BY <1>1, <1>4, LenProperties
    <3> QED BY <3>1, <3>2
  <2>3. \A i \in D : PartyRows(sig, seconds[i]) =
           WithRole(Secondaries(sig)[i][1], sig.type, "secondary", Secondaries(sig)[i][2])
    BY <2>1, <1>4 DEF PartyRows, Of
  <2>4. Layout(sig, seconds) = [i \in D |-> PartyRows(sig, seconds[i])]
    BY <2>2 DEF Layout
  <2>5. [i \in D |-> WithRole(Secondaries(sig)[i][1], sig.type, "secondary",
                              Secondaries(sig)[i][2])]
          = [i \in D |-> PartyRows(sig, seconds[i])]
    <3> HIDE DEF D, seconds
    <3> QED BY <2>3
  <2> QED BY <2>4, <2>5 DEF SecondaryRecords
<1>5. SenderOf(sig) \in Parties(sig) /\ (sig.type = "FeePayer" => PayerOf(sig) \in Parties(sig))
  BY PartiesType
<1>6. Flat(sender) = PartyRows(sig, SenderOf(sig))
  BY <1>2, <1>5
<1> HIDE DEF Flat
<1>7. CASE sig.type = "MultiAgent"
  <2>1. FromSignature(sig) = Flat(seconds) \o PartyRows(sig, SenderOf(sig))
    BY <1>4, <1>7 DEF FromSignature, FromMultiAgent, PartyRows, SenderOf, Of
  <2>2. PartiesOf(sig) = seconds \o sender
    BY <1>7 DEF PartiesOf
  <2> HIDE DEF seconds, sender
  <2>3. Flat(PartiesOf(sig)) = Flat(seconds) \o Flat(sender)
    BY <1>1, <1>3, <1>7, <2>2
  <2> QED BY <1>6, <2>1, <2>3 DEF Flat
<1>8. CASE sig.type = "FeePayer"
  <2>1. FromSignature(sig) =
          (PartyRows(sig, SenderOf(sig)) \o PartyRows(sig, PayerOf(sig))) \o Flat(seconds)
    BY <1>4, <1>8 DEF FromSignature, FromFeePayer, PartyRows, SenderOf, PayerOf, Of
  <2>2. PartiesOf(sig) = (sender \o payer) \o seconds
    BY <1>8 DEF PartiesOf
  <2>3. Flat(payer) = PartyRows(sig, PayerOf(sig))
    BY <1>2, <1>5, <1>8 DEF Flat
  <2> HIDE DEF seconds, sender, payer
  <2>4. sender \o payer \in Seq(Parties(sig))
    BY <1>1, <1>8, ConcatProperties
  <2>5. Flat(sender \o payer) = Flat(sender) \o Flat(payer)
    BY <1>1, <1>3, <1>8
  <2>6. Flat((sender \o payer) \o seconds) = Flat(sender \o payer) \o Flat(seconds)
    BY <1>1, <1>3, <1>8, <2>4
  <2> QED BY <1>6, <2>1, <2>2, <2>3, <2>5, <2>6 DEF Flat
<1>9. CASE sig.type \in {"Ed25519", "MultiEd25519", "SingleSender"}
  <2>1. FromSignature(sig) = PartyRows(sig, SenderOf(sig))
    BY <1>9 DEF FromSignature, PartyRows, SenderOf, Of
  <2>2. PartiesOf(sig) = sender
    BY <1>9 DEF PartiesOf
  <2> QED BY <1>6, <2>1, <2>2 DEF Flat
<1> QED BY <1>1, <1>7, <1>8, <1>9 DEF Signature

\* The subrecords rs are those of the parties ps: those of the i-th from o[i] on.
Arranged(o, rs, sig, ps) ==
    /\ o \in [1 .. Len(ps) -> Nat]
    /\ \A i \in 1 .. Len(ps) : \A k \in 1 .. Keys(ps[i].account) :
          o[i] + k \in 1 .. Len(rs) /\ OfParty(rs[o[i] + k], sig, ps[i], k)
    /\ \A j \in 1 .. Len(rs) :
          \E i \in 1 .. Len(ps) : \E k \in 1 .. Keys(ps[i].account) : j = o[i] + k

\* The subrecords of a signature are arranged by its parties.
LEMMA SignatureRows ==
  ASSUME NEW sig \in Signature, ~ SignatureFails(sig)
  PROVE  /\ FromSignature(sig) \in Seq(Range(FromSignature(sig)))
         /\ \E o : Arranged(o, FromSignature(sig), sig, PartiesOf(sig))
<1> DEFINE ps == PartiesOf(sig)
           ss == Layout(sig, ps)
           rs == FromSignature(sig)
           n == Len(ps)
<1>1. sig.type # "Unspecified" /\ ps \in Seq(Parties(sig))
  BY PartiesType
<1>2. n \in Nat /\ \A i \in 1 .. n : ps[i] \in Parties(sig)
  BY <1>1, LenProperties, ElementOfSeq
<1>3. ss \in Seq(Seq(SubRow(sig))) /\ Len(ss) = n
      /\ \A i \in 1 .. n : ss[i] = PartyRows(sig, ps[i])
  BY <1>1, LayoutType
<1>4. rs = FlattenSeq(ss)
  BY SignatureLayout
<1> HIDE DEF ps, rs, ss
<1>5. rs \in Seq(SubRow(sig))
  BY <1>3, <1>4, FlattenSeqType
<1>6. PICK o : Placed(o, ss)
  BY <1>3, Placement
<1>7. \A i \in 1 .. n : Len(ss[i]) = Keys(ps[i].account)
                        /\ \A k \in 1 .. Keys(ps[i].account) : OfParty(ss[i][k], sig, ps[i], k)
  <2>1. ASSUME NEW i \in 1 .. n
        PROVE  Len(ss[i]) = Keys(ps[i].account)
               /\ \A k \in 1 .. Keys(ps[i].account) : OfParty(ss[i][k], sig, ps[i], k)
    <3>1. MayBeParty(sig, ps[i])
      BY <1>2, <2>1 DEF Parties
    <3>2. /\ Len(PartyRows(sig, ps[i])) = Keys(ps[i].account)
          /\ \A k \in 1 .. Keys(ps[i].account) :
                OfParty(PartyRows(sig, ps[i])[k], sig, ps[i], k)
      BY <1>1, <3>1, PartyRowsType
    <3> QED BY <3>2, <1>3
  <2> QED BY <2>1
<1>8. /\ o \in [1 .. n -> Nat]
      /\ \A i \in 1 .. n : \A j \in 1 .. Len(ss[i]) :
            o[i] + j \in 1 .. Len(rs) /\ rs[o[i] + j] = ss[i][j]
      /\ \A k \in 1 .. Len(rs) :
            \E i \in 1 .. n : \E j \in 1 .. Len(ss[i]) : k = o[i] + j
  BY <1>3, <1>4, <1>6 DEF Placed
<1>9. \A i \in 1 .. n : \A k \in 1 .. Keys(ps[i].account) :
         o[i] + k \in 1 .. Len(rs) /\ OfParty(rs[o[i] + k], sig, ps[i], k)
  <2>1. ASSUME NEW i \in 1 .. n, NEW k \in 1 .. Keys(ps[i].account)
        PROVE  o[i] + k \in 1 .. Len(rs) /\ OfParty(rs[o[i] + k], sig, ps[i], k)
    <3>1. k \in 1 .. Len(ss[i]) /\ OfParty(ss[i][k], sig, ps[i], k)
      BY <1>7, <2>1
    <3>2. o[i] + k \in 1 .. Len(rs) /\ rs[o[i] + k] = ss[i][k]
      BY <1>8, <2>1, <3>1
    <3> QED BY <3>1, <3>2
  <2> QED BY <2>1
<1>10. \A j \in 1 .. Len(rs) :
          \E i \in 1 .. n : \E k \in 1 .. Keys(ps[i].account) : j = o[i] + k
  <2>1. ASSUME NEW j \in 1 .. Len(rs)
        PROVE  \E i \in 1 .. n : \E k \in 1 .. Keys(ps[i].account) : j = o[i] + k
    <3>1. PICK i \in 1 .. n : \E k \in 1 .. Len(ss[i]) : j = o[i] + k
      BY <1>8
    <3>2. Len(ss[i]) = Keys(ps[i].account)
      BY <1>7
    <3> QED BY <3>1, <3>2
  <2> QED BY <2>1
<1>11. Arranged(o, rs, sig, ps)
  BY <1>8, <1>9, <1>10 DEF Arranged
<1>12. rs \in Seq(Range(rs))
  BY <1>5, ElementsAreInRange
<1> QED BY <1>11, <1>12 DEF rs, ps

\* No deferred value that must be set is open when get_signatures reads it.
LEMMA NothingLeftOpen ==
  ASSUME NEW sig \in Signature, ~ SignatureFails(sig), NEW r \in Range(FromSignature(sig))
  PROVE  ~ LeftOpen(r)
<1> DEFINE rs == FromSignature(sig)
           ps == PartiesOf(sig)
<1>1. PICK o : Arranged(o, rs, sig, ps)
  BY SignatureRows
<1>2. rs \in Seq(Range(rs))
  BY SignatureRows
<1>3. DOMAIN rs = 1 .. Len(rs)
  BY <1>2, LenProperties
<1> HIDE DEF rs, ps
<1>4. PICK j \in 1 .. Len(rs) : r = rs[j]
  BY <1>3 DEF rs, Range
<1>5. PICK i \in 1 .. Len(ps) : \E k \in 1 .. Keys(ps[i].account) : j = o[i] + k
  BY <1>1 DEF Arranged
<1>6. PICK k \in 1 .. Keys(ps[i].account) : j = o[i] + k
  BY <1>5
<1>7. OfParty(r, sig, ps[i], k)
  BY <1>1, <1>4, <1>6 DEF Arranged
<1> QED BY <1>7 DEF OfParty, LeftOpen, IsUsable, DeferredFallback

\* The records of signatures.
LEMMA SignatureTable ==
  ASSUME NEW tx \in InputTransaction, NEW v, ~ GetSignaturesFails(tx)
  PROVE  LET rs == OrNone(GetSignatures(tx, v))
         IN  /\ rs \in Seq(Range(rs))
             /\ \A j \in 1 .. Len(rs) : rs[j].version = v
             /\ SigCnt(tx, v) = IF tx.type = "User" THEN Some(Len(rs)) ELSE None
             /\ tx.type = "User" =>
                   \E sig \in tx.signature :
                      /\ tx.signature = Some(sig) /\ sig \in Signature /\ ~ SignatureFails(sig)
                      /\ Len(rs) = Len(FromSignature(sig))
                      /\ \A j \in 1 .. Len(rs) :
                            rs[j] = SignatureRecord(tx, v, FromSignature(sig)[j])
<1> DEFINE rs == OrNone(GetSignatures(tx, v))
<1>1. CASE tx.type # "User"
  <2>1. rs = <<>> /\ SigCnt(tx, v) = {}
    BY <1>1 DEF GetSignatures, OrNone, SigCnt, None
  <2> QED BY <1>1, <2>1, EmptyRows DEF None
<1>2. CASE tx.type = "User"
  <2> DEFINE sig == CHOOSE s \in tx.signature : TRUE
             sub == FromSignature(sig)
             n == Len(sub)
             out == [i \in 1 .. n |-> SignatureRecord(tx, v, sub[i])]
  <2>1. tx.signature # {} /\ tx.signature \in Option(Signature)
    BY <1>2 DEF GetSignaturesFails, None, InputTransaction
  <2>2. sig \in tx.signature /\ sig \in Signature /\ tx.signature = Some(sig)
    <3>1. sig \in tx.signature
      BY <2>1
    <3> HIDE DEF sig
    <3> QED BY <2>1, <3>1 DEF Option, Some
  <2>3. ~ SignatureFails(sig)
    BY <1>2, <2>2 DEF GetSignaturesFails
  <2> HIDE DEF sig
  <2>4. sub \in Seq(Range(sub))
    BY <2>2, <2>3, SignatureRows
  <2>5. n \in Nat /\ DOMAIN sub = 1 .. n
    BY <2>4, LenProperties
  <2>6. GetSignatures(tx, v) = {out}
    BY <1>2, <2>5 DEF GetSignatures, Some, sig
  <2>7. DOMAIN out = 1 .. n /\ out = [i \in 1 .. n |-> out[i]]
        /\ \A i \in 1 .. n : out[i] = SignatureRecord(tx, v, sub[i])
    OBVIOUS
  <2> HIDE DEF out, sub
  <2>8. rs = out
    BY <2>6 DEF OrNone, None
  <2>9. rs \in Seq(Range(rs)) /\ Len(rs) = n
    <3> HIDE DEF rs
    <3> QED BY <2>5, <2>7, <2>8, IsSequence
  <2>10. \A j \in 1 .. n : rs[j] = SignatureRecord(tx, v, sub[j])
    BY <2>7, <2>8
  <2>11. \A j \in 1 .. n : rs[j].version = v
    <3>1. \A j \in 1 .. n : SignatureRecord(tx, v, sub[j]).version = v
      BY DEF SignatureRecord
    <3> HIDE DEF rs, n
    <3> QED BY <2>10, <3>1
  <2>12. SigCnt(tx, v) = Some(Len(rs))
    BY <2>6, <2>8 DEF SigCnt, Some
  <2> HIDE DEF rs, n
  <2> QED BY <1>2, <2>2, <2>3, <2>9, <2>10, <2>11, <2>12 DEF sub, n, rs
<1> QED BY <1>1, <1>2

\* The rows of a transaction are a sequence, and all have its version.
LEMMA OneTransaction ==
  ASSUME NEW tx \in InputTransaction, NEW v \in Nat, NEW t \in Table,
         Convertible(tx, v, t)
  PROVE  /\ ExtractRecords(tx, v)[t] \in Seq(Range(ExtractRecords(tx, v)[t]))
         /\ \A j \in 1 .. Len(ExtractRecords(tx, v)[t]) :
               ExtractRecords(tx, v)[t][j].version = v
<1> DEFINE rs == ExtractRecords(tx, v)[t]
<1>1. CASE t = "blocks"
  <2>1. rs = GetBlock(tx, v)
    BY <1>1 DEF ExtractRecords
  <2> DEFINE r == [version |-> v]
  <2>2. CASE tx.type = "BlockMetadata"
    <3>1. rs = <<r>>
      BY <2>1, <2>2 DEF GetBlock
    <3>2. r.version = v
      OBVIOUS
    <3> HIDE DEF rs, r
    <3>3. rs \in Seq(Range(rs)) /\ Len(rs) = 1 /\ rs[1] = r
      BY <3>1, SingleRow
    <3> QED BY <3>2, <3>3 DEF rs
  <2>3. CASE tx.type # "BlockMetadata"
    <3>1. rs = <<>>
      BY <2>1, <2>3 DEF GetBlock
    <3> QED BY <3>1, EmptyRows
  <2> QED BY <2>2, <2>3
<1>2. CASE t = "transactions"
  <2> DEFINE r == GetTransactions(tx, v, SigCnt(tx, v))
  <2>1. rs = <<r>>
    BY <1>2 DEF ExtractRecords, SigCnt
  <2>2. r.version = v
    BY DEF GetTransactions
  <2> HIDE DEF rs, r
  <2>3. rs \in Seq(Range(rs)) /\ Len(rs) = 1 /\ rs[1] = r
    BY <2>1, SingleRow
  <2> QED BY <2>2, <2>3 DEF rs
<1>3. CASE t = "events"
  <2>1. rs = GetEvents(tx, v)
    BY <1>3 DEF ExtractRecords
  <2>2. /\ rs \in Seq(Range(rs))
        /\ \A j \in 1 .. Len(rs) : rs[j] = [version |-> v, event_index |-> j - 1]
    BY <2>1, EventRows
  <2>3. \A j \in 1 .. Len(rs) : rs[j].version = v
    <3> DEFINE r(j) == [version |-> v, event_index |-> j - 1]
    <3>1. \A j \in 1 .. Len(rs) : r(j).version = v
      OBVIOUS
    <3>2. \A j \in 1 .. Len(rs) : rs[j] = r(j)
      BY <2>2
    <3> HIDE DEF r, rs
    <3> QED BY <3>1, <3>2
  <2> HIDE DEF rs
  <2> QED BY <2>2, <2>3 DEF rs
<1>4. CASE t = "signatures"
  <2>1. rs = OrNone(GetSignatures(tx, v))
    BY <1>4 DEF ExtractRecords
  <2>2. ~ GetSignaturesFails(tx)
    BY <1>4 DEF Convertible
  <2> QED BY <2>1, <2>2, SignatureTable
<1>5. CASE t = "changes"
  <2>1. rs = GetChanges(tx, v)["changes"]
    BY <1>5 DEF ExtractRecords
  <2>2. /\ rs \in Seq(Range(rs)) /\ Len(rs) = Len(tx.changes)
        /\ \A j \in 1 .. Len(tx.changes) : rs[j] = ChangeRecord(tx, v, j)
    BY <2>1, ChangeRows
  <2>3. \A j : ChangeRecord(tx, v, j).version = v
    BY DEF ChangeRecord
  <2> HIDE DEF rs
  <2>4. \A j \in 1 .. Len(rs) : rs[j].version = v
    BY <2>2, <2>3
  <2> QED BY <2>2, <2>4 DEF rs
<1>6. CASE t \in {"modules", "resources", "table_items"}
  <2>1. rs = Details(tx, v, t)
    BY <1>6 DEF ExtractRecords, GetChanges
  <2> DEFINE S == DetailRow(tx, v, t)
  <2>2. rs \in Seq(S)
    BY <2>1, DetailRows
  <2>3. \A r \in S : r.version = v
    BY DEF ChangeRecord, DetailRow
  <2> HIDE DEF rs, S
  <2>4. rs \in Seq(Range(rs)) /\ \A j \in 1 .. Len(rs) : rs[j] \in S
    BY <2>2, ElementsAreInRange, ElementOfSeq
  <2> QED BY <2>3, <2>4 DEF rs
<1> QED BY <1>1, <1>2, <1>3, <1>4, <1>5, <1>6 DEF Table

-----------------------------------------------------------------------------
(* The inductive invariant *)

\* The rows of each of the transactions txs, and those of all of them.
Conversions(txs, t) == [i \in 1 .. Len(txs) |-> ExtractRecords(txs[i], i)[t]]

Rows(txs, t) == FlattenSeq(Conversions(txs, t))

\* What is accumulated when of the transaction at hand the tables M are made.
RowsUpTo(sel, txs, tx, M) ==
    [t \in Table |-> IF t \notin sel THEN <<>>
                     ELSE Rows(IF t \in M THEN Append(txs, tx) ELSE txs, t)]

\* What is accumulated between two transactions.
RowsOfAll(sel, txs) ==
    [t \in Table |-> IF t \notin sel THEN <<>> ELSE Rows(txs, t)]

\* Within a transaction, and the tables that are made by then.
InProgress == {"signatures", "blocks", "transactions", "events", "changes"}

Made(pc) ==
    (IF pc \in {"blocks", "transactions", "events", "changes"} THEN {"signatures"} ELSE {})
    \cup (IF pc \in {"transactions", "events", "changes"} THEN {"blocks"} ELSE {})
    \cup (IF pc \in {"events", "changes"} THEN {"transactions"} ELSE {})
    \cup (IF pc = "changes" THEN {"events"} ELSE {})

\* The inductive invariant: at each point of the loop the rows of every
\* selected table are those of the transactions done, and of the one at hand
\* if its turn has come; the transactions done, and the tables made, converted;
\* and where the loop gave up, some table of the transaction does not convert.
BetweenTransactions ==
    /\ conversionPc \in {"extract", "publish"}
    /\ current = None
    /\ records = RowsOfAll(selected, done)

WithinTransaction(tx) ==
    /\ conversionPc \in InProgress
    /\ current = Some(tx)
    /\ ~ TransactionExtractionFails(tx)
    /\ \A t \in Made(conversionPc) \cap selected : Convertible(tx, version, t)
    /\ (conversionPc \in {"blocks", "transactions"} /\ "transactions" \in selected) =>
          ~ GetSignaturesFails(tx) /\ sigCnt = SigCnt(tx, version)
    /\ records = RowsUpTo(selected, done, tx, Made(conversionPc))

GivenUp(tx) ==
    /\ conversionPc \in {"failed", "panicked"}
    /\ current = Some(tx)
    /\ \E t \in Table : ~ Convertible(tx, version, t)
    /\ \E M \in SUBSET Table :
          /\ \A t \in M \cap selected : Convertible(tx, version, t)
          /\ records = RowsUpTo(selected, done, tx, M)

TransformationInv ==
    /\ selected \in Selection
    /\ done \in Seq(Transaction)
    /\ \A i \in 1 .. Len(done) : \A t \in selected : Convertible(done[i], i, t)
    /\ timestamps = [t \in Table |-> Stamps(records[t])]
    /\ \/ BetweenTransactions
       \/ \E tx \in Transaction : WithinTransaction(tx) \/ GivenUp(tx)

-----------------------------------------------------------------------------
(* Rows of many transactions *)

Row(t) == UNION {Range(ExtractRecords(tx, v)[t]) : tx \in Transaction, v \in Nat}

LEMMA ExtractRecordsType ==
  ASSUME NEW tx \in Transaction, NEW v \in Nat, NEW t \in Table,
         Convertible(tx, v, t)
  PROVE  ExtractRecords(tx, v)[t] \in Seq(Row(t))
<1>1. tx \in InputTransaction
  BY TransactionAssumption
<1> DEFINE rs == ExtractRecords(tx, v)[t]
<1>2. rs \in Seq(Range(rs))
  BY <1>1, OneTransaction
<1>3. Range(rs) \subseteq Row(t)
  BY DEF Row
<1> HIDE DEF rs
<1>4. rs \in Seq(Row(t))
  BY <1>2, <1>3, SeqMonotonic
<1> QED BY <1>4 DEF rs

AllConvertible(txs, t) ==
  /\ txs \in Seq(Transaction)
  /\ \A i \in 1 .. Len(txs) : Convertible(txs[i], i, t)

\* The rows of many transactions are sequences of rows.
LEMMA ConversionsType ==
  ASSUME NEW t \in Table, NEW txs, AllConvertible(txs, t)
  PROVE  /\ Conversions(txs, t) \in Seq(Seq(Row(t)))
         /\ Len(Conversions(txs, t)) = Len(txs)
         /\ Rows(txs, t) \in Seq(Row(t))
         /\ \A i \in 1 .. Len(txs) : \A j \in 1 .. Len(Conversions(txs, t)[i]) :
               Conversions(txs, t)[i][j].version = i
<1> DEFINE n == Len(txs)
           c == Conversions(txs, t)
<1>1. n \in Nat /\ \A i \in 1 .. n : txs[i] \in Transaction
  BY LenProperties, ElementOfSeq DEF AllConvertible
<1>2. \A i \in 1 .. n : ExtractRecords(txs[i], i)[t] \in Seq(Row(t))
  <2>1. ASSUME NEW i \in 1 .. n PROVE ExtractRecords(txs[i], i)[t] \in Seq(Row(t))
    <3>1. i \in Nat /\ txs[i] \in Transaction /\ Convertible(txs[i], i, t)
      BY <1>1, <2>1 DEF AllConvertible
    <3> QED BY <3>1, ExtractRecordsType
  <2> QED BY <2>1
<1>3. c \in [1 .. n -> Seq(Row(t))]
  BY <1>2 DEF Conversions
<1>4. c \in Seq(Seq(Row(t))) /\ Len(c) = n
  BY <1>1, <1>3, SequenceByElements
<1>5. FlattenSeq(c) \in Seq(Row(t))
  BY <1>4, FlattenSeqType
<1>6. ASSUME NEW i \in 1 .. n, NEW j \in 1 .. Len(c[i])
      PROVE  c[i][j].version = i
  <2>1. i \in Nat /\ txs[i] \in InputTransaction /\ Convertible(txs[i], i, t)
    BY <1>1, <1>6, TransactionAssumption DEF AllConvertible
  <2>2. \A h \in 1 .. Len(ExtractRecords(txs[i], i)[t]) :
           ExtractRecords(txs[i], i)[t][h].version = i
    BY <2>1, OneTransaction
  <2>3. c[i] = ExtractRecords(txs[i], i)[t]
    BY DEF Conversions
  <2> QED BY <2>2, <2>3
<1> QED BY <1>4, <1>5, <1>6 DEF Rows

\* One transaction more appends its rows.
LEMMA RowsAppend ==
  ASSUME NEW t \in Table, NEW txs, AllConvertible(txs, t),
         NEW tx \in Transaction, Convertible(tx, Len(txs) + 1, t)
  PROVE  /\ Rows(Append(txs, tx), t) = Rows(txs, t) \o ExtractRecords(tx, Len(txs) + 1)[t]
         /\ AllConvertible(Append(txs, tx), t)
<1> DEFINE n == Len(txs)
           u == Append(txs, tx)
           x == ExtractRecords(tx, n + 1)[t]
           c == Conversions(txs, t)
           d == Conversions(u, t)
<1>1. txs \in Seq(Transaction) /\ n \in Nat /\ n + 1 \in Nat
  BY LenProperties DEF AllConvertible
<1>2. /\ u \in Seq(Transaction) /\ Len(u) = n + 1
      /\ u[n + 1] = tx /\ \A i \in 1 .. n : u[i] = txs[i]
  BY <1>1, AppendProperties
<1> HIDE DEF u
<1>3. \A i \in 1 .. n + 1 : Convertible(u[i], i, t)
  BY <1>1, <1>2 DEF AllConvertible
<1>4. AllConvertible(u, t)
  BY <1>2, <1>3 DEF AllConvertible
<1>5. x \in Seq(Row(t))
  BY <1>1, ExtractRecordsType
<1>6. c \in Seq(Seq(Row(t))) /\ Len(c) = n
  BY ConversionsType
<1>7. d \in Seq(Seq(Row(t))) /\ Len(d) = n + 1
  BY <1>2, <1>4, ConversionsType
<1>8. \A i \in 1 .. n : c[i] = ExtractRecords(txs[i], i)[t]
  BY DEF Conversions
<1>9. \A i \in 1 .. n + 1 : d[i] = ExtractRecords(u[i], i)[t]
  BY <1>2 DEF Conversions
<1> HIDE DEF c, d, x
<1>10. d = Append(c, x)
  <2> DEFINE e == Append(c, x)
  <2>1. /\ e \in Seq(Seq(Row(t))) /\ Len(e) = n + 1
        /\ e[n + 1] = x /\ \A i \in 1 .. n : e[i] = c[i]
    BY <1>5, <1>6, AppendProperties
  <2> HIDE DEF e
  <2>2. ASSUME NEW i \in 1 .. n + 1 PROVE d[i] = e[i]
    <3>1. CASE i = n + 1
      BY <3>1, <2>1, <1>9, <1>2 DEF x
    <3>2. CASE i # n + 1
      <4>1. i \in 1 .. n
        BY <3>2, <1>1
      <4> QED BY <4>1, <2>1, <1>2, <1>8, <1>9
    <3> QED BY <3>1, <3>2
  <2>3. d = e
    BY <2>1, <2>2, <1>7, SeqEqual
  <2> QED BY <2>3 DEF e
<1>11. FlattenSeq(d) = FlattenSeq(c) \o x
  BY <1>5, <1>6, <1>10, FlattenSeqAppend
<1> QED BY <1>4, <1>11 DEF Rows, c, d, x, u

LEMMA StampsType ==
  ASSUME NEW S, NEW s \in Seq(S)
  PROVE  /\ Stamps(s) \in Seq({r.version : r \in S})
         /\ Len(Stamps(s)) = Len(s)
         /\ \A i \in 1 .. Len(s) : Stamps(s)[i] = s[i].version
<1> DEFINE V == {r.version : r \in S}
<1>1. Len(s) \in Nat /\ DOMAIN s = 1 .. Len(s) /\ \A i \in 1 .. Len(s) : s[i] \in S
  BY LenProperties, ElementOfSeq
<1>2. Stamps(s) \in [1 .. Len(s) -> V]
  BY <1>1 DEF Stamps
<1>3. Stamps(s) \in Seq(V) /\ Len(Stamps(s)) = Len(s)
  BY <1>1, <1>2, SequenceByElements
<1> QED BY <1>1, <1>3 DEF Stamps

\* Stamps of a concatenation are those of both.
LEMMA StampsConcat ==
  ASSUME NEW S, NEW a \in Seq(S), NEW b \in Seq(S)
  PROVE  Stamps(a \o b) = Stamps(a) \o Stamps(b)
<1> DEFINE V == {r.version : r \in S}
           c == a \o b
           d == Stamps(a) \o Stamps(b)
<1>1. /\ Len(a) \in Nat /\ Len(b) \in Nat
      /\ c \in Seq(S) /\ Len(c) = Len(a) + Len(b)
      /\ \A i \in 1 .. Len(a) + Len(b) :
            c[i] = IF i <= Len(a) THEN a[i] ELSE b[i - Len(a)]
  BY ConcatProperties, LenProperties
<1>2. /\ Stamps(a) \in Seq(V) /\ Len(Stamps(a)) = Len(a)
      /\ \A i \in 1 .. Len(a) : Stamps(a)[i] = a[i].version
  BY StampsType
<1>3. /\ Stamps(b) \in Seq(V) /\ Len(Stamps(b)) = Len(b)
      /\ \A i \in 1 .. Len(b) : Stamps(b)[i] = b[i].version
  BY StampsType
<1> HIDE DEF V, c
<1>4. /\ Stamps(c) \in Seq({r.version : r \in S}) /\ Len(Stamps(c)) = Len(c)
      /\ \A i \in 1 .. Len(c) : Stamps(c)[i] = c[i].version
  BY <1>1, StampsType
<1>5. /\ d \in Seq(V) /\ Len(d) = Len(a) + Len(b)
      /\ \A i \in 1 .. Len(a) + Len(b) :
            d[i] = IF i <= Len(a) THEN Stamps(a)[i] ELSE Stamps(b)[i - Len(a)]
  <2> DEFINE p == Stamps(a)
             q == Stamps(b)
  <2>1. p \in Seq(V) /\ q \in Seq(V) /\ Len(p) = Len(a) /\ Len(q) = Len(b)
    BY <1>2, <1>3
  <2> HIDE DEF p, q
  <2>2. /\ p \o q \in Seq(V) /\ Len(p \o q) = Len(p) + Len(q)
        /\ \A i \in 1 .. Len(p) + Len(q) :
              (p \o q)[i] = IF i <= Len(p) THEN p[i] ELSE q[i - Len(p)]
    BY <2>1, ConcatProperties
  <2> QED BY <2>1, <2>2 DEF p, q
<1> HIDE DEF d
<1>6. ASSUME NEW i \in 1 .. Len(c) PROVE Stamps(c)[i] = d[i]
  <2>1. CASE i <= Len(a)
    <3>1. i \in 1 .. Len(a)
      BY <2>1, <1>1
    <3> QED BY <2>1, <3>1, <1>1, <1>2, <1>4, <1>5
  <2>2. CASE ~ (i <= Len(a))
    <3>1. i - Len(a) \in 1 .. Len(b)
      BY <2>2, <1>1
    <3> QED BY <2>2, <3>1, <1>1, <1>3, <1>4, <1>5
  <2> QED BY <2>1, <2>2
<1>7. Stamps(c) = d
  BY <1>1, <1>4, <1>5, <1>6, SeqEqual DEF V
<1> QED BY <1>7 DEF c, d

-----------------------------------------------------------------------------
(* The steps *)

LEMMA TypedInv ==
  ASSUME TransformationInv
  PROVE  /\ selected \subseteq Table
         /\ done \in Seq(Transaction) /\ Len(done) \in Nat /\ version \in Nat
         /\ \A t \in selected : AllConvertible(done, t)
<1>1. selected \subseteq Table
  BY SelectionAssumption DEF TransformationInv
<1>2. done \in Seq(Transaction)
  BY DEF TransformationInv
<1>3. Len(done) \in Nat /\ version \in Nat
  BY <1>2, LenProperties DEF version
<1> QED BY <1>1, <1>2, <1>3 DEF TransformationInv, AllConvertible

\* What Add does to the rows.
LEMMA Adding ==
  ASSUME TransformationInv, NEW tx \in Transaction, NEW M \in SUBSET Table,
         records = RowsUpTo(selected, done, tx, M),
         NEW tables \in SUBSET Table, tables \cap M = {},
         NEW rs, Add(tables, rs),
         \A t \in tables \cap selected :
            Convertible(tx, version, t) /\ rs[t] = ExtractRecords(tx, version)[t]
  PROVE  /\ records' = RowsUpTo(selected, done, tx, M \cup tables)
         /\ timestamps' = [t \in Table |-> Stamps(records'[t])]
<1>1. /\ selected \subseteq Table /\ done \in Seq(Transaction)
      /\ \A t \in selected : AllConvertible(done, t)
      /\ version \in Nat
  BY TypedInv
<1> DEFINE x(t) == ExtractRecords(tx, version)[t]
<1>2. ASSUME NEW t \in tables \cap selected
      PROVE  /\ Rows(Append(done, tx), t) = Rows(done, t) \o rs[t]
             /\ Rows(done, t) \in Seq(Row(t)) /\ rs[t] \in Seq(Row(t))
  <2>1. t \in Table /\ AllConvertible(done, t) /\ Convertible(tx, version, t)
    BY <1>1, <1>2
  <2>2. Rows(Append(done, tx), t) = Rows(done, t) \o x(t)
    BY <2>1, RowsAppend DEF version
  <2>3. Rows(done, t) \in Seq(Row(t))
    BY <2>1, ConversionsType
  <2>4. x(t) \in Seq(Row(t))
    BY <2>1, <1>1, ExtractRecordsType
  <2> QED BY <2>2, <2>3, <2>4
<1>3. \A t \in Table : records[t] =
         IF t \notin selected THEN <<>>
         ELSE Rows(IF t \in M THEN Append(done, tx) ELSE done, t)
  BY DEF RowsUpTo
<1>4. records' = RowsUpTo(selected, done, tx, M \cup tables)
  <2>1. ASSUME NEW t \in Table
        PROVE  (IF t \in tables \cap selected THEN records[t] \o rs[t] ELSE records[t])
                 = IF t \notin selected THEN <<>>
                   ELSE Rows(IF t \in M \cup tables THEN Append(done, tx) ELSE done, t)
    <3>1. CASE t \in tables \cap selected
      BY <3>1, <1>2, <1>3
    <3>2. CASE t \notin tables \cap selected
      BY <3>2, <1>3
    <3> QED BY <3>1, <3>2
  <2> QED BY <2>1 DEF RowsUpTo, Add
<1>5. timestamps' = [t \in Table |-> Stamps(records'[t])]
  <2>1. timestamps = [t \in Table |-> Stamps(records[t])]
    BY DEF TransformationInv
  <2>2. ASSUME NEW t \in Table
        PROVE  (IF t \in tables \cap selected THEN timestamps[t] \o Stamps(rs[t])
                ELSE timestamps[t])
                 = Stamps(IF t \in tables \cap selected THEN records[t] \o rs[t]
                          ELSE records[t])
    <3>1. CASE t \in tables \cap selected
      <4>1. records[t] = Rows(done, t)
        BY <3>1, <1>3
      <4>2. Stamps(records[t] \o rs[t]) = Stamps(records[t]) \o Stamps(rs[t])
        BY <3>1, <4>1, <1>2, StampsConcat
      <4> QED BY <3>1, <4>2, <2>1
    <3>2. CASE t \notin tables \cap selected
      BY <3>2, <2>1
    <3> QED BY <3>1, <3>2
  <2>3. \A t \in Table : records'[t] =
           IF t \in tables \cap selected THEN records[t] \o rs[t] ELSE records[t]
    BY DEF Add
  <2> QED BY <2>2, <2>3 DEF Add
<1> QED BY <1>4, <1>5

LEMMA InitInv == TransformationInit => TransformationInv
<1> SUFFICES ASSUME TransformationInit PROVE TransformationInv
  OBVIOUS
<1> USE DEF TransformationInit
<1>1. done \in Seq(Transaction) /\ Len(done) = 0
  BY EmptySeq
<1>2. records = RowsOfAll(selected, done)
  <2>1. \A t \in Table : Rows(done, t) = <<>>
    <3>1. ASSUME NEW t \in Table PROVE Rows(done, t) = <<>>
      <4>1. Conversions(done, t) \in [1 .. 0 -> {}]
        BY <1>1 DEF Conversions
      <4>2. Conversions(done, t) \in Seq({}) /\ Len(Conversions(done, t)) = 0
        BY <4>1, SequenceByElements
      <4>3. Conversions(done, t) = <<>>
        BY <4>2, EmptySeq
      <4> QED BY <4>3, FlattenSeqEmpty DEF Rows
    <3> QED BY <3>1
  <2> QED BY <2>1 DEF RowsOfAll
<1>3. timestamps = [t \in Table |-> Stamps(records[t])]
  BY DEF Stamps
<1> QED BY <1>1, <1>2, <1>3 DEF TransformationInv, BetweenTransactions

\* The steps keep the invariant.
LEMMA ExtractInv ==
  ASSUME TransformationInv, NEW tx \in Transaction, ExtractTransaction(tx)
  PROVE  TransformationInv'
<1>1. BetweenTransactions
  BY DEF ExtractTransaction, TransformationInv, WithinTransaction, GivenUp, InProgress
<1>2. records' = RowsUpTo(selected, done, tx, {})
  BY <1>1 DEF ExtractTransaction, BetweenTransactions, RowsUpTo, RowsOfAll
<1>3. /\ UNCHANGED <<selected, done, version, records, timestamps>>
      /\ current' = Some(tx)
  BY DEF ExtractTransaction, version
<1>4. CASE TransactionExtractionFails(tx)
  <2>1. conversionPc' = "failed"
    BY <1>4 DEF ExtractTransaction
  <2>2. "blocks" \in Table /\ ~ Convertible(tx, version, "blocks")
    BY <1>4 DEF Convertible, Table
  <2>3. GivenUp(tx)'
    BY <2>1, <2>2, <1>2, <1>3 DEF GivenUp
  <2> QED BY <2>3, <1>3 DEF TransformationInv
<1>5. CASE ~ TransactionExtractionFails(tx)
  <2>1. conversionPc' = "signatures" /\ Made("signatures") = {}
    BY <1>5 DEF ExtractTransaction, Made
  <2>2. WithinTransaction(tx)'
    BY <2>1, <1>2, <1>3, <1>5 DEF WithinTransaction, InProgress
  <2> QED BY <2>2, <1>3 DEF TransformationInv
<1> QED BY <1>4, <1>5

LEMMA AtHand ==
  ASSUME TransformationInv, NEW tx \in current, conversionPc \in InProgress
  PROVE  tx \in Transaction /\ WithinTransaction(tx)
BY DEF TransformationInv, BetweenTransactions, WithinTransaction, GivenUp, InProgress,
       None, Some

\* One more table is made.
LEMMA TableMade ==
  ASSUME TransformationInv, NEW tx \in Transaction, WithinTransaction(tx),
         UNCHANGED <<selected, current, done>>,
         NEW table \in Table, table \notin Made(conversionPc),
         Made(conversionPc') = Made(conversionPc) \cup {table},
         NEW rs,
         \/ Add({table}, rs) /\ (table \in selected =>
               Convertible(tx, version, table) /\ rs[table] = ExtractRecords(tx, version)[table])
         \/ table \notin selected /\ UNCHANGED <<records, timestamps>>,
         conversionPc' \in InProgress,
         (conversionPc' \in {"blocks", "transactions"} /\ "transactions" \in selected) =>
            ~ GetSignaturesFails(tx) /\ sigCnt' = SigCnt(tx, version)
  PROVE  TransformationInv'
<1> DEFINE M == Made(conversionPc)
<1>1. version' = version
  BY DEF version
<1>2. M \in SUBSET Table /\ {table} \in SUBSET Table /\ {table} \cap M = {}
  BY DEF Made, Table
<1>3. records = RowsUpTo(selected, done, tx, M)
  BY DEF WithinTransaction
<1>4. timestamps = [t \in Table |-> Stamps(records[t])]
  BY DEF TransformationInv
<1>5. /\ records' = RowsUpTo(selected, done, tx, M \cup {table})
      /\ timestamps' = [t \in Table |-> Stamps(records'[t])]
      /\ table \in selected => Convertible(tx, version, table)
  <2>1. CASE table \notin selected /\ UNCHANGED <<records, timestamps>>
    BY <2>1, <1>3, <1>4 DEF RowsUpTo
  <2>2. CASE /\ Add({table}, rs)
             /\ table \in selected =>
                   /\ Convertible(tx, version, table)
                   /\ rs[table] = ExtractRecords(tx, version)[table]
    <3>1. \A t \in {table} \cap selected :
             Convertible(tx, version, t) /\ rs[t] = ExtractRecords(tx, version)[t]
      BY <2>2
    <3> HIDE DEF M
    <3> QED BY <2>2, <3>1, <1>2, <1>3, Adding
  <2> QED BY <2>1, <2>2
<1>6. \A t \in Made(conversionPc') \cap selected : Convertible(tx, version, t)
  BY <1>5 DEF WithinTransaction
<1>7. WithinTransaction(tx)'
  BY <1>1, <1>5, <1>6 DEF WithinTransaction
<1> QED BY <1>1, <1>5, <1>7 DEF TransformationInv

\* A table that does not convert ends the loop.
LEMMA Failing ==
  ASSUME TransformationInv, NEW tx \in Transaction, WithinTransaction(tx),
         UNCHANGED <<selected, current, done, records, timestamps>>,
         conversionPc' \in {"failed", "panicked"},
         NEW table \in Table, ~ Convertible(tx, version, table)
  PROVE  TransformationInv'
<1>1. version' = version
  BY DEF version
<1>2. Made(conversionPc) \in SUBSET Table
  BY DEF Made, Table
<1>3. GivenUp(tx)'
  BY <1>1, <1>2 DEF GivenUp, WithinTransaction
<1> QED BY <1>1, <1>3 DEF TransformationInv

LEMMA SignaturesInv ==
  ASSUME TransformationInv, NEW tx \in current, MakeSignatures(tx)
  PROVE  TransformationInv'
<1>1. conversionPc = "signatures" /\ conversionPc \in InProgress
  BY DEF MakeSignatures, InProgress
<1>2. tx \in Transaction /\ WithinTransaction(tx)
  BY <1>1, AtHand
<1>3. UNCHANGED <<selected, current, done>>
  BY DEF MakeSignatures
<1>4. "signatures" \in Table /\ "transactions" \in Table
  BY DEF Table
<1>5. /\ "signatures" \notin Made(conversionPc)
      /\ Made("blocks") = Made(conversionPc) \cup {"signatures"}
      /\ "blocks" \in InProgress
  BY <1>1 DEF Made, InProgress
<1> DEFINE rs == [t \in Table |-> OrNone(GetSignatures(tx, version))]
<1>6. rs["signatures"] = ExtractRecords(tx, version)["signatures"]
  BY <1>4 DEF ExtractRecords
<1>7. CASE selected \cap {"signatures", "transactions"} = {}
  <2>1. /\ conversionPc' = "blocks" /\ UNCHANGED <<records, timestamps>>
        /\ "signatures" \notin selected /\ "transactions" \notin selected
    BY <1>7 DEF MakeSignatures
  <2> QED BY <2>1, <1>2, <1>3, <1>4, <1>5, TableMade
<1>8. CASE selected \cap {"signatures", "transactions"} # {} /\ GetSignaturesFails(tx)
  <2>1. conversionPc' = "failed" /\ UNCHANGED <<records, timestamps>>
    BY <1>8 DEF MakeSignatures
  <2>2. ~ Convertible(tx, version, "signatures")
    BY <1>8 DEF Convertible
  <2> QED BY <2>1, <2>2, <1>2, <1>3, <1>4, Failing
<1>9. CASE selected \cap {"signatures", "transactions"} # {} /\ ~ GetSignaturesFails(tx)
  <2>1. conversionPc' = "blocks" /\ Add({"signatures"}, rs)
    BY <1>9 DEF MakeSignatures
  <2>2. sigCnt' = SigCnt(tx, version)
    BY <1>9 DEF MakeSignatures, SigCnt
  <2>3. Convertible(tx, version, "signatures")
    BY <1>2, <1>9 DEF Convertible, WithinTransaction, ChangeTables
  <2> HIDE DEF rs
  <2> QED BY <2>1, <2>2, <2>3, <1>2, <1>3, <1>4, <1>5, <1>6, <1>9, TableMade
<1> QED BY <1>7, <1>8, <1>9

LEMMA BlockInv ==
  ASSUME TransformationInv, NEW tx \in current, MakeBlock(tx)
  PROVE  TransformationInv'
<1>1. conversionPc = "blocks" /\ conversionPc \in InProgress
  BY DEF MakeBlock, InProgress
<1>2. tx \in Transaction /\ WithinTransaction(tx)
  BY <1>1, AtHand
<1>3. UNCHANGED <<selected, current, done, sigCnt>>
  BY DEF MakeBlock
<1>4. /\ "blocks" \in Table /\ "blocks" \notin Made(conversionPc)
      /\ Made("transactions") = Made(conversionPc) \cup {"blocks"}
      /\ "transactions" \in InProgress
  BY <1>1 DEF Made, InProgress, Table
<1>5. CASE "blocks" \in selected /\ GetBlockFails(tx)
  <2>1. conversionPc' = "failed" /\ UNCHANGED <<records, timestamps>>
    BY <1>5 DEF MakeBlock
  <2>2. ~ Convertible(tx, version, "blocks")
    BY <1>5 DEF Convertible
  <2> QED BY <2>1, <2>2, <1>2, <1>3, <1>4, Failing
<1>6. CASE ~ ("blocks" \in selected /\ GetBlockFails(tx))
  <2> DEFINE rs == [t \in Table |-> GetBlock(tx, version)]
  <2>1. conversionPc' = "transactions" /\ Add({"blocks"}, rs)
    BY <1>6 DEF MakeBlock
  <2>2. rs["blocks"] = ExtractRecords(tx, version)["blocks"]
    BY <1>4 DEF ExtractRecords
  <2>3. "blocks" \in selected => Convertible(tx, version, "blocks")
    BY <1>2, <1>6 DEF Convertible, WithinTransaction, ChangeTables
  <2>4. "transactions" \in selected =>
           ~ GetSignaturesFails(tx) /\ sigCnt' = SigCnt(tx, version)
    BY <1>1, <1>2, <1>3 DEF WithinTransaction
  <2> HIDE DEF rs
  <2> QED BY <1>2, <1>3, <1>4, <2>1, <2>2, <2>3, <2>4, TableMade
<1> QED BY <1>5, <1>6

LEMMA TransactionInv ==
  ASSUME TransformationInv, NEW tx \in current, MakeTransaction(tx)
  PROVE  TransformationInv'
<1>1. conversionPc = "transactions" /\ conversionPc \in InProgress
  BY DEF MakeTransaction, InProgress
<1>2. tx \in Transaction /\ WithinTransaction(tx)
  BY <1>1, AtHand
<1>3. UNCHANGED <<selected, current, done, sigCnt>>
  BY DEF MakeTransaction
<1>4. /\ "transactions" \in Table /\ "transactions" \notin Made(conversionPc)
      /\ Made("events") = Made(conversionPc) \cup {"transactions"}
      /\ "events" \in InProgress
  BY <1>1 DEF Made, InProgress, Table
<1>5. "transactions" \in selected =>
         ~ GetSignaturesFails(tx) /\ sigCnt = SigCnt(tx, version)
  BY <1>1, <1>2 DEF WithinTransaction
<1>6. CASE "transactions" \in selected /\ GetTransactionsFails(tx, sigCnt)
  <2>1. conversionPc' = "failed" /\ UNCHANGED <<records, timestamps>>
    BY <1>6 DEF MakeTransaction
  <2>2. ~ Convertible(tx, version, "transactions")
    BY <1>5, <1>6 DEF Convertible
  <2> QED BY <2>1, <2>2, <1>2, <1>3, <1>4, Failing
<1>7. CASE ~ ("transactions" \in selected /\ GetTransactionsFails(tx, sigCnt))
  <2> DEFINE rs == [t \in Table |-> << GetTransactions(tx, version, sigCnt) >>]
  <2>1. conversionPc' = "events" /\ Add({"transactions"}, rs)
    BY <1>7 DEF MakeTransaction
  <2>2. ASSUME "transactions" \in selected
        PROVE  /\ Convertible(tx, version, "transactions")
               /\ rs["transactions"] = ExtractRecords(tx, version)["transactions"]
    <3>1. Convertible(tx, version, "transactions")
      BY <1>2, <1>5, <1>7, <2>2 DEF Convertible, WithinTransaction, ChangeTables
    <3>2. ExtractRecords(tx, version)["transactions"] =
             << GetTransactions(tx, version, SigCnt(tx, version)) >>
      BY <1>4 DEF ExtractRecords, SigCnt
    <3> QED BY <3>1, <3>2, <1>4, <1>5, <2>2
  <2> HIDE DEF rs
  <2> QED BY <2>1, <2>2, <1>2, <1>3, <1>4, TableMade
<1> QED BY <1>6, <1>7

LEMMA EventsInv ==
  ASSUME TransformationInv, NEW tx \in current, MakeEvents(tx)
  PROVE  TransformationInv'
<1>1. conversionPc = "events" /\ conversionPc \in InProgress
  BY DEF MakeEvents, InProgress
<1>2. tx \in Transaction /\ WithinTransaction(tx)
  BY <1>1, AtHand
<1>3. UNCHANGED <<selected, current, done, sigCnt>>
  BY DEF MakeEvents
<1>4. /\ "events" \in Table /\ "events" \notin Made(conversionPc)
      /\ Made("changes") = Made(conversionPc) \cup {"events"}
      /\ "changes" \in InProgress
  BY <1>1 DEF Made, InProgress, Table
<1>5. CASE "events" \in selected /\ (GetEventsPanics(tx) \/ GetEventsFails(tx))
  <2>1. conversionPc' \in {"failed", "panicked"} /\ UNCHANGED <<records, timestamps>>
    BY <1>5 DEF MakeEvents
  <2>2. ~ Convertible(tx, version, "events")
    BY <1>5 DEF Convertible
  <2> QED BY <2>1, <2>2, <1>2, <1>3, <1>4, Failing
<1>6. CASE ~ ("events" \in selected /\ (GetEventsPanics(tx) \/ GetEventsFails(tx)))
  <2> DEFINE rs == [t \in Table |-> GetEvents(tx, version)]
  <2>1. conversionPc' = "changes" /\ Add({"events"}, rs)
    BY <1>6 DEF MakeEvents
  <2>2. rs["events"] = ExtractRecords(tx, version)["events"]
    BY <1>4 DEF ExtractRecords
  <2>3. "events" \in selected => Convertible(tx, version, "events")
    BY <1>2, <1>6 DEF Convertible, WithinTransaction, ChangeTables
  <2> HIDE DEF rs
  <2> QED BY <2>1, <2>2, <2>3, <1>2, <1>3, <1>4, TableMade
<1> QED BY <1>5, <1>6

LEMMA ChangesInv ==
  ASSUME TransformationInv, NEW tx \in current, MakeChanges(tx)
  PROVE  TransformationInv'
<1>1. conversionPc = "changes" /\ conversionPc \in InProgress
  BY DEF MakeChanges, InProgress
<1>2. tx \in Transaction /\ WithinTransaction(tx)
  BY <1>1, AtHand
<1>3. UNCHANGED <<selected, sigCnt>>
  BY DEF MakeChanges
<1>4. CASE selected \cap ChangeTables # {} /\ GetChangesFails(tx)
  <2>1. conversionPc' = "failed" /\ UNCHANGED <<current, done, records, timestamps>>
    BY <1>4 DEF MakeChanges
  <2>2. "changes" \in Table /\ ~ Convertible(tx, version, "changes")
    BY <1>4 DEF Convertible, ChangeTables, Table
  <2> QED BY <2>1, <2>2, <1>2, <1>3, Failing
<1>5. CASE ~ (selected \cap ChangeTables # {} /\ GetChangesFails(tx))
  <2> DEFINE rs == GetChanges(tx, version)
             M == Made(conversionPc)
  <2>1. EndTransaction(tx) /\ Add(ChangeTables, rs)
    BY <1>5 DEF MakeChanges
  <2>2. /\ M \in SUBSET Table /\ ChangeTables \in SUBSET Table
        /\ ChangeTables \cap M = {} /\ M \cup ChangeTables = Table
    BY <1>1 DEF Made, ChangeTables, Table
  <2>3. \A t \in ChangeTables : rs[t] = ExtractRecords(tx, version)[t]
    BY DEF ExtractRecords, ChangeTables, Table
  <2>4. \A t \in ChangeTables \cap selected : Convertible(tx, version, t)
    BY <1>2, <1>5 DEF Convertible, WithinTransaction, ChangeTables
  <2>5. records = RowsUpTo(selected, done, tx, M)
    BY <1>2 DEF WithinTransaction
  <2>6. \A t \in M \cap selected : Convertible(tx, version, t)
    BY <1>2 DEF WithinTransaction
  <2> HIDE DEF rs, M
  <2>7. /\ records' = RowsUpTo(selected, done, tx, M \cup ChangeTables)
        /\ timestamps' = [t \in Table |-> Stamps(records'[t])]
    BY <2>1, <2>2, <2>3, <2>4, <2>5, <1>2, Adding
  <2>8. /\ done' = Append(done, tx) /\ current' = None
        /\ conversionPc' \in {"extract", "publish"}
    BY <2>1 DEF EndTransaction
  <2>9. records' = RowsOfAll(selected, done')
    BY <2>2, <2>7, <2>8 DEF RowsUpTo, RowsOfAll
  <2>10. BetweenTransactions'
    BY <2>8, <2>9, <1>3 DEF BetweenTransactions
  <2>11. selected \subseteq Table /\ \A t \in selected : AllConvertible(done, t)
    BY TypedInv
  <2>12. \A t \in selected : Convertible(tx, Len(done) + 1, t)
    BY <2>2, <2>4, <2>6, <2>11 DEF version
  <2>13. \A t \in selected : AllConvertible(done', t)
    BY <2>8, <2>11, <2>12, <1>2, RowsAppend
  <2>14. done' \in Seq(Transaction)
    BY <2>8, <1>2, AppendProperties DEF TransformationInv
  <2>15. \A i \in 1 .. Len(done') : \A t \in selected : Convertible(done'[i], i, t)
    BY <2>13 DEF AllConvertible
  <2> QED BY <2>7, <2>10, <2>14, <2>15, <1>3 DEF TransformationInv
<1> QED BY <1>4, <1>5

LEMMA NextInv ==
  TransformationInv /\ [TransformationNext]_transformationVars => TransformationInv'
<1> SUFFICES ASSUME TransformationInv, [TransformationNext]_transformationVars
             PROVE  TransformationInv'
  OBVIOUS
<1>1. ASSUME NEW tx \in Transaction, ExtractTransaction(tx) PROVE TransformationInv'
  BY <1>1, ExtractInv
<1>2. ASSUME NEW tx \in current, MakeSignatures(tx) PROVE TransformationInv'
  BY <1>2, SignaturesInv
<1>3. ASSUME NEW tx \in current, MakeBlock(tx) PROVE TransformationInv'
  BY <1>3, BlockInv
<1>4. ASSUME NEW tx \in current, MakeTransaction(tx) PROVE TransformationInv'
  BY <1>4, TransactionInv
<1>5. ASSUME NEW tx \in current, MakeEvents(tx) PROVE TransformationInv'
  BY <1>5, EventsInv
<1>6. ASSUME NEW tx \in current, MakeChanges(tx) PROVE TransformationInv'
  BY <1>6, ChangesInv
<1>7. CASE UNCHANGED transformationVars
  BY <1>7 DEF transformationVars, TransformationInv, BetweenTransactions,
              WithinTransaction, GivenUp, version
<1> QED BY <1>1, <1>2, <1>3, <1>4, <1>5, <1>6, <1>7 DEF TransformationNext

-----------------------------------------------------------------------------
(* The invariant holds; parallel timestamps, independent tables *)

\* The accumulated rows and timestamps of the conversion loop
\* (aptos_config/mod.rs:701-901) are at every step those of the invariant.
THEOREM TransformationInvariant == TransformationSpec => []TransformationInv
BY InitInv, NextInv, PTL DEF TransformationSpec

\* Every list of timestamps stays parallel to its list of records, whichever
\* tables are selected and wherever the loop fails (mod.rs:732-891): the
\* assertion of the bucket publisher (gcs.rs:68) cannot fail.
THEOREM StampsStayParallel == TransformationSpec => []TimestampsAreParallel
<1>1. TransformationInv => TimestampsAreParallel
  BY DEF TransformationInv, TimestampsAreParallel
<1> QED BY <1>1, TransformationInvariant, PTL

\* extract_records converts a transaction if each table does.
LEMMA ConvertibleTables ==
  ASSUME NEW tx, NEW v
  PROVE  ExtractRecordsFails(tx, v) <=> \E t \in Table : ~ Convertible(tx, v, t)
<1>1. ASSUME NEW t \in Table, ~ Convertible(tx, v, t) PROVE ExtractRecordsFails(tx, v)
  BY <1>1 DEF Convertible, ExtractRecordsFails, SigCnt
<1>2. ASSUME \A t \in Table : Convertible(tx, v, t) PROVE ~ ExtractRecordsFails(tx, v)
  <2>1. {"blocks", "changes", "events", "signatures", "transactions"} \subseteq Table
    BY DEF Table
  <2>2. /\ Convertible(tx, v, "changes") /\ Convertible(tx, v, "events")
        /\ Convertible(tx, v, "blocks")
        /\ Convertible(tx, v, "signatures") /\ Convertible(tx, v, "transactions")
    BY <1>2, <2>1
  <2> QED BY <2>2 DEF Convertible, ExtractRecordsFails, SigCnt, ChangeTables
<1> QED BY <1>1, <1>2

\* What a selected table gets is what extract_records (tables/all.rs) makes
\* of the same transactions for all tables at once.
THEOREM SelectionDoesNotMatter == TransformationSpec => []TablesAreIndependent
<1>1. ASSUME TransformationInv PROVE TablesAreIndependent
  <2>1. /\ selected \subseteq Table /\ DOMAIN done = 1 .. Len(done)
        /\ \A t \in selected : AllConvertible(done, t)
    BY <1>1, TypedInv, LenProperties
  <2>2. ASSUME conversionPc \in {"extract", "publish"}, NEW t \in selected
        PROVE  records[t] = FlattenSeq([i \in DOMAIN done |->
                                          ExtractRecords(done[i], i)[t]])
    <3>1. records = RowsOfAll(selected, done)
      BY <1>1, <2>2 DEF TransformationInv, BetweenTransactions, WithinTransaction,
                        GivenUp, InProgress
    <3> QED BY <2>1, <2>2, <3>1 DEF RowsOfAll, Rows, Conversions
  <2>3. ASSUME conversionPc \in {"failed", "panicked"}, NEW tx \in current
        PROVE  ExtractRecordsFails(tx, version)
    <3>1. \E t \in Table : ~ Convertible(tx, version, t)
      BY <1>1, <2>3 DEF TransformationInv, BetweenTransactions, WithinTransaction,
                        GivenUp, InProgress, Some
    <3> QED BY <3>1, ConvertibleTables
  <2>4. ASSUME selected = Table, NEW i \in DOMAIN done
        PROVE  ~ ExtractRecordsFails(done[i], i)
    BY <2>1, <2>4, ConvertibleTables DEF AllConvertible
  <2> QED BY <2>2, <2>3, <2>4 DEF TablesAreIndependent
<1> QED BY <1>1, TransformationInvariant, PTL

-----------------------------------------------------------------------------
(* Well formed transactions convert *)

\* What is well formed converts: types, addresses, the parts of an ABI,
\* struct tags, payloads, events, changes, and signatures.
LEMMA WellFormedTypes ==
  ASSUME NEW m, WellFormedType(m)
  PROVE  ~ DecodeFails(m) /\ ~ EncodeFails(m)
<1>1. ASSUME NEW n, WellFormedNode(n) PROVE ~ NodeFails(n)
  BY <1>1 DEF WellFormedNode, NodeFails, None
<1>2. m.top \in {m.top} \cup m.nested
  OBVIOUS
<1>3. ~ EncodeFails(m)
  BY <1>1 DEF WellFormedType, EncodeFails
<1>4. ~ DecodeFails(m)
  BY <1>2 DEF WellFormedType, WellFormedNode, DecodeFails
<1> QED BY <1>3, <1>4

LEMMA WellFormedAddresses ==
  ASSUME NEW a, WellFormedAddress(a)
  PROVE  ~ AddressFails(a)
BY DEF WellFormedAddress, AddressFails

LEMMA WellFormedFunctions ==
  ASSUME NEW f, WellFormedFunction(f)
  PROVE  ~ FunctionDecodeFails(f) /\ ~ FunctionEncodeFails(f)
BY WellFormedTypes
   DEF WellFormedFunction, FunctionDecodeFails, FunctionEncodeFails,
       GenericTypeParamFails, AbilityFails, VisibilityFails

LEMMA WellFormedStructs ==
  ASSUME NEW s, WellFormedStruct(s)
  PROVE  ~ StructDecodeFails(s) /\ ~ StructEncodeFails(s)
BY WellFormedTypes
   DEF WellFormedStruct, StructDecodeFails, StructEncodeFails,
       GenericTypeParamFails, AbilityFails

LEMMA WellFormedModules ==
  ASSUME NEW abi, WellFormedModule(abi)
  PROVE  ~ ModuleFails(abi)
BY WellFormedFunctions, WellFormedStructs, WellFormedAddresses
   DEF WellFormedModule, ModuleFails, ModuleExtractionFails

LEMMA WellFormedTags ==
  ASSUME NEW tag, WellFormedTag(tag)
  PROVE  ~ StructTagDecodeFails(tag) /\ ~ StructTagEncodeFails(tag)
BY WellFormedTypes, WellFormedAddresses
   DEF WellFormedTag, StructTagDecodeFails, StructTagEncodeFails

LEMMA WellFormedPayloads ==
  ASSUME NEW p, WellFormedPayload(Some(p))
  PROVE  ~ TryEncodeFails(p)
<1>1. /\ p.kind = "EntryFunctionPayload" =>
            p.function # None /\ \A a \in p.function : WellFormedAddress(a)
      /\ p.kind = "WriteSetPayload" => p.write_set = {"script"}
      /\ UsesScript(p) => p.script
      /\ UsesScript(p) \/ p.kind = "ScriptPayload" =>
            p.code # None /\ \A abi \in p.code : \A f \in abi : WellFormedFunction(f)
      /\ UsesScript(p) \/ p.kind \in {"EntryFunctionPayload", "ScriptPayload"} =>
            \A m \in p.type_arguments : WellFormedType(m)
  BY DEF WellFormedPayload, Some
<1>2. UsesScript(p) => ~ ExtractScriptPayloadFails(p)
  BY <1>1 DEF UsesScript, ExtractScriptPayloadFails, Some
<1>3. ~ EncodeFunctionIdFails(p)
  BY <1>1, WellFormedAddresses DEF EncodeFunctionIdFails
<1>4. ~ TypeArgumentsFails(p) /\ ~ ArgumentsFails(p)
  BY <1>1, <1>2, WellFormedTypes DEF TypeArgumentsFails, ArgumentsFails
<1>5. ~ CodeFails(p)
  BY <1>1, <1>2, WellFormedFunctions DEF CodeFails
<1>6. ~ ExecuteAsFails(p)
  BY <1>1 DEF ExecuteAsFails, Some
<1> QED BY <1>3, <1>4, <1>5, <1>6 DEF TryEncodeFails

LEMMA WellFormedEvents ==
  ASSUME NEW e, WellFormedEvent(e)
  PROVE  /\ ~ EventExtractionFails(e) /\ ~ EventExtractionPanics(e)
         /\ \A a \in e.key : ~ AddressFails(a)
<1>1. e.key # None /\ e.type # None /\ e.json
  BY DEF WellFormedEvent
<1>2. \A m \in e.type : ~ DecodeFails(m)
  BY WellFormedTypes DEF WellFormedEvent
<1>3. \A a \in e.key : ~ AddressFails(a)
  BY WellFormedAddresses DEF WellFormedEvent
<1> QED BY <1>1, <1>2, <1>3 DEF EventExtractionFails, EventExtractionPanics

LEMMA WellFormedChanges ==
  ASSUME NEW c, WellFormedChange(c)
  PROVE  ~ IncompleteChangeRecordFails(c) /\ ~ ChangeFails(c)
<1>1. c.data = Some(c.type) /\ c.whole /\ ~ AddressFails(c.address)
  BY WellFormedAddresses DEF WellFormedChange
<1>2. \A tag \in c.struct_tag : ~ StructTagDecodeFails(tag) /\ ~ StructTagEncodeFails(tag)
  BY WellFormedTags DEF WellFormedChange
<1>3. \A abi \in c.abi : ~ ModuleFails(abi)
  BY WellFormedModules DEF WellFormedChange
<1> QED BY <1>1, <1>2, <1>3 DEF IncompleteChangeRecordFails, ChangeFails

LEMMA WellFormedAccounts ==
  ASSUME NEW a, WellFormedAccount(a)
  PROVE  ~ AccountSignatureFails(a)
BY DEF WellFormedAccount, AccountSignatureFails, IndexRepeated

LEMMA WellFormedSignatures ==
  ASSUME NEW sig \in Signature, WellFormedSignature(sig)
  PROVE  ~ SignatureFails(sig)
<1>1. /\ sig.type # "Unspecified" /\ sig.sender # None
      /\ (sig.type = "FeePayer") => (sig.fee_payer # None)
      /\ \A a \in sig.sender \cup sig.fee_payer \cup Range(sig.secondary_signers) :
            ~ AccountSignatureFails(a)
  BY WellFormedAccounts DEF WellFormedSignature
<1>2. \A i \in DOMAIN Secondaries(sig) :
         Secondaries(sig)[i][1] \in Range(sig.secondary_signers)
  <2>1. /\ sig.secondary_signers \in Seq(AccountSignature)
        /\ sig.secondary_addresses \in Seq(Address)
    BY DEF Signature
  <2> DEFINE a == sig.secondary_signers
             b == sig.secondary_addresses
             n == IF Len(a) < Len(b) THEN Len(a) ELSE Len(b)
  <2>2. /\ Len(a) \in Nat /\ Len(b) \in Nat /\ DOMAIN a = 1 .. Len(a)
        /\ DOMAIN b = 1 .. Len(b)
    BY <2>1, LenProperties
  <2>3. Secondaries(sig) = Zip(a, b)
    BY DEF Secondaries
  <2> HIDE DEF a, b
  <2>4. DOMAIN Zip(a, b) \subseteq DOMAIN a /\ \A i \in DOMAIN Zip(a, b) : Zip(a, b)[i][1] = a[i]
    BY <2>2 DEF Zip
  <2> QED BY <2>3, <2>4 DEF Range, a
<1> QED BY <1>1, <1>2 DEF SignatureFails

\* The addresses of a well formed signature convert.
LEMMA WellFormedSigners ==
  ASSUME NEW sig \in Signature, WellFormedSignature(sig), NEW r \in Range(FromSignature(sig))
  PROVE  ~ SignerFails(r)
<1> DEFINE rs == FromSignature(sig)
           ps == PartiesOf(sig)
           n == PairCount(sig)
<1>0. ~ SignatureFails(sig)
  BY WellFormedSignatures
<1>1. /\ rs \in Seq(Range(rs))
      /\ \E o : Arranged(o, rs, sig, ps)
  BY <1>0, SignatureRows
<1>2. PICK o : Arranged(o, rs, sig, ps)
  BY <1>1
<1>3. DOMAIN rs = 1 .. Len(rs)
  BY <1>1, LenProperties
<1>4. ASSUME NEW i \in 1 .. Len(ps), ps[i].role # "sender" PROVE ~ AddressFails(ps[i].address)
  <2>1. SenderOf(sig).role = "sender"
    BY DEF SenderOf, Of
  <2>2. sig.type = "FeePayer" => ~ AddressFails(PayerOf(sig).address)
    BY WellFormedAddresses DEF WellFormedSignature, PayerOf, Of
  <2>3. n \in Nat /\ \A h \in 1 .. n : ~ AddressFails(SecondOf(sig, h).address)
    BY SecondaryPairs, WellFormedAddresses DEF WellFormedSignature, SecondOf, Of, Range
  <2>4. CASE sig.type \notin {"MultiAgent", "FeePayer"}
    BY <1>0, <1>4, <2>1, <2>4, PartyPlaces
  <2>5. CASE sig.type = "MultiAgent"
    <3>1. i = n + 1 \/ i \in 1 .. n
      BY <1>0, <2>3, <2>5, PartyPlaces
    <3> QED BY <1>0, <1>4, <2>1, <2>3, <2>5, <3>1, PartyPlaces
  <2>6. CASE sig.type = "FeePayer"
    <3>1. i = 1 \/ i = 2 \/ (i - 2 \in 1 .. n /\ i = (i - 2) + 2)
      BY <1>0, <2>3, <2>6, PartyPlaces
    <3> QED BY <1>0, <1>4, <2>1, <2>2, <2>3, <2>6, <3>1, PartyPlaces
  <2> QED BY <2>4, <2>5, <2>6
<1> HIDE DEF rs, ps
<1>5. PICK j \in 1 .. Len(rs) : r = rs[j]
  BY <1>3 DEF rs, Range
<1>6. PICK i \in 1 .. Len(ps) : \E k \in 1 .. Keys(ps[i].account) : j = o[i] + k
  BY <1>2 DEF Arranged
<1>7. r.signer = IF ps[i].role = "sender" THEN Deferred ELSE Present(ps[i].address)
  BY <1>2, <1>5, <1>6 DEF Arranged, OfParty
<1> QED BY <1>4, <1>7 DEF SignerFails, IsUsable, Deferred, Present

\* Every table of a well formed transaction converts.
LEMMA WellFormedConverts ==
  ASSUME NEW tx \in InputTransaction, NEW v \in Nat, NEW t \in Table, WellFormed(tx)
  PROVE  Convertible(tx, v, t)
<1>1. /\ tx.type # "Unspecified" /\ tx.whole
      /\ \A i \in DOMAIN tx.events : WellFormedEvent(tx.events[i])
      /\ \A i \in DOMAIN tx.changes : WellFormedChange(tx.changes[i])
  BY DEF WellFormed
<1>2. tx.type = "User" =>
         /\ tx.request
         /\ ~ AddressFails(tx.sender)
         /\ tx.signature # None
         /\ \A sig \in tx.signature : WellFormedSignature(sig)
         /\ tx.expiration # "broken"
  BY WellFormedAddresses DEF WellFormed
<1>3. ~ RequestFails(tx)
  BY <1>2 DEF RequestFails
<1>4. ~ TransactionExtractionFails(tx)
  BY <1>1, WellFormedChanges DEF TransactionExtractionFails
<1>5. ~ GetChangesFails(tx)
  BY <1>1, <1>3, WellFormedChanges DEF GetChangesFails
<1>6. ~ GetEventsFails(tx) /\ ~ GetEventsPanics(tx)
  <2>1. FirstBadEvent(tx) = {}
    BY <1>1, <1>3, WellFormedEvents DEF FirstBadEvent
  <2> QED BY <2>1 DEF GetEventsFails, GetEventsPanics
<1>7. ~ GetSignaturesFails(tx)
  <2>1. CASE tx.type # "User"
    BY <2>1 DEF GetSignaturesFails
  <2>2. CASE tx.type = "User"
    <3>1. tx.signature \subseteq Signature
      BY DEF InputTransaction, Option
    <3>2. \A sig \in tx.signature : ~ SignatureFails(sig)
      BY <1>2, <2>2, <3>1, WellFormedSignatures
    <3>3. \A sig \in tx.signature : \A r \in Range(FromSignature(sig)) :
             ~ LeftOpen(r) /\ ~ SignerFails(r)
      BY <1>2, <2>2, <3>1, <3>2, NothingLeftOpen, WellFormedSigners
    <3> QED BY <1>2, <2>2, <3>2, <3>3 DEF GetSignaturesFails
  <2> QED BY <2>1, <2>2
<1>8. ~ GetTransactionsFails(tx, SigCnt(tx, v))
  <2>1. tx.type = "User" => SigCnt(tx, v) # None
    BY <1>7, SignatureTable DEF Some, None
  <2>2. CASE ~ tx.success
    BY <2>2, <1>3, <1>2 DEF GetTransactionsFails, GetFailedTransactionFails
  <2>3. CASE tx.success
    <3>1. HasPayload(tx) => WellFormedPayload(tx.payload)
      BY <2>3 DEF WellFormed
    <3>2. ~ PayloadFails(tx)
      BY <3>1, <1>2 DEF PayloadFails, WellFormedPayload
    <3>3. ASSUME HasPayload(tx), NEW p \in tx.payload PROVE ~ TryEncodeFails(p)
      <4>1. \A u, w \in tx.payload : u = w
        BY DEF InputTransaction, Option
      <4>2. tx.payload = Some(p)
        BY <4>1 DEF Some
      <4> QED BY <3>1, <3>3, <4>2, WellFormedPayloads
    <3> QED BY <2>1, <2>3, <1>3, <1>2, <3>2, <3>3
         DEF GetTransactionsFails, GetSuccessfulTransactionFails
  <2> QED BY <2>2, <2>3
<1>9. ~ GetBlockFails(tx)
  BY WellFormedAddresses DEF WellFormed, GetBlockFails
<1> QED BY <1>4, <1>5, <1>6, <1>7, <1>8, <1>9 DEF Convertible

\* A well formed transaction never fails its range, whichever tables are
\* selected: nothing a conversion may refuse is in it, no deferred value of
\* its signature stays open (deferred.rs), and its signature count is there
\* when the transactions table asks for it (tables/transactions.rs:160-166).
THEOREM WellFormedNeverFails == TransformationSpec => []WellFormedTransactionsConvert
<1>1. TransformationInv => WellFormedTransactionsConvert
  <2> SUFFICES ASSUME TransformationInv, conversionPc \in {"failed", "panicked"},
                      NEW tx \in current
               PROVE  ~ WellFormed(tx)
    BY DEF WellFormedTransactionsConvert
  <2>1. PICK x \in Transaction : WithinTransaction(x) \/ GivenUp(x)
    BY DEF TransformationInv, BetweenTransactions
  <2>2. GivenUp(x)
    BY <2>1 DEF WithinTransaction, InProgress
  <2>3. tx = x /\ \E t \in Table : ~ Convertible(x, version, t)
    BY <2>2 DEF GivenUp, Some
  <2>4. x \in InputTransaction /\ version \in Nat
    BY TransactionAssumption, TypedInv
  <2> QED BY <2>3, <2>4, WellFormedConverts
<1> QED BY <1>1, TransformationInvariant, PTL

-----------------------------------------------------------------------------
(* Counts *)

\* At every step the rows of a selected table are those of some transactions
\* that convert; between two transactions, of those done.
LEMMA WhereRowsComeFrom ==
  ASSUME TransformationInv, NEW t \in selected
  PROVE  \E txs : /\ AllConvertible(txs, t) /\ records[t] = Rows(txs, t)
                  /\ conversionPc \in {"extract", "publish"} => txs = done
<1>1. /\ t \in Table /\ AllConvertible(done, t)
      /\ done \in Seq(Transaction) /\ version = Len(done) + 1
  BY TypedInv DEF version
<1>2. CASE BetweenTransactions
  BY <1>1, <1>2 DEF BetweenTransactions, RowsOfAll
<1>3. ASSUME NEW tx \in Transaction, NEW M,
             \A u \in M \cap selected : Convertible(tx, version, u),
             records = RowsUpTo(selected, done, tx, M)
      PROVE  \E txs : AllConvertible(txs, t) /\ records[t] = Rows(txs, t)
  <2>1. CASE t \in M
    <3>1. AllConvertible(Append(done, tx), t)
      BY <1>1, <1>3, <2>1, RowsAppend
    <3> QED BY <1>1, <1>3, <2>1, <3>1 DEF RowsUpTo
  <2>2. CASE t \notin M
    BY <1>1, <1>3, <2>2 DEF RowsUpTo
  <2> QED BY <2>1, <2>2
<1>4. ASSUME NEW tx \in Transaction, WithinTransaction(tx)
      PROVE  /\ conversionPc \notin {"extract", "publish"}
             /\ \E txs : AllConvertible(txs, t) /\ records[t] = Rows(txs, t)
  BY <1>3, <1>4 DEF WithinTransaction, InProgress
<1>5. ASSUME NEW tx \in Transaction, GivenUp(tx)
      PROVE  /\ conversionPc \notin {"extract", "publish"}
             /\ \E txs : AllConvertible(txs, t) /\ records[t] = Rows(txs, t)
  BY <1>3, <1>5 DEF GivenUp
<1> QED BY <1>2, <1>4, <1>5 DEF TransformationInv

LEMMA RowsByTransaction ==
  ASSUME NEW t \in Table, NEW txs, AllConvertible(txs, t)
  PROVE  /\ DOMAIN Rows(txs, t) = 1 .. Len(Rows(txs, t))
         /\ Len(Rows(txs, t)) \in Nat /\ Len(txs) \in Nat
         /\ Rows(txs, t) \in Seq(Row(t))
         /\ \A i \in 1 .. Len(txs) :
               /\ txs[i] \in InputTransaction /\ Convertible(txs[i], i, t) /\ i \in Nat
               /\ Conversions(txs, t)[i] = ExtractRecords(txs[i], i)[t]
               /\ Conversions(txs, t)[i] \in Seq(Row(t))
               /\ Len(Conversions(txs, t)[i]) \in Nat
               /\ DOMAIN Conversions(txs, t)[i] = 1 .. Len(Conversions(txs, t)[i])
<1>1. txs \in Seq(Transaction) /\ \A i \in 1 .. Len(txs) : Convertible(txs[i], i, t)
  BY DEF AllConvertible
<1>2. Len(txs) \in Nat /\ \A i \in 1 .. Len(txs) : txs[i] \in InputTransaction
  BY <1>1, LenProperties, ElementOfSeq, TransactionAssumption
<1>3. Rows(txs, t) \in Seq(Row(t)) /\ Conversions(txs, t) \in Seq(Seq(Row(t)))
      /\ Len(Conversions(txs, t)) = Len(txs)
  BY ConversionsType
<1>4. \A i \in 1 .. Len(txs) : Conversions(txs, t)[i] \in Seq(Row(t))
  BY <1>3, ElementOfSeq
<1>5. \A i \in 1 .. Len(txs) : Conversions(txs, t)[i] = ExtractRecords(txs[i], i)[t]
  BY DEF Conversions
<1> QED BY <1>1, <1>2, <1>3, <1>4, <1>5, LenProperties

\* Where row j of transaction i stands in a table.
RowsAt(o, txs, t) ==
    /\ o \in [1 .. Len(txs) -> Nat]
    /\ \A i \in 1 .. Len(txs) : \A j \in 1 .. Len(Conversions(txs, t)[i]) :
          /\ o[i] + j \in DOMAIN Rows(txs, t)
          /\ Rows(txs, t)[o[i] + j] = Conversions(txs, t)[i][j]
          /\ Conversions(txs, t)[i][j].version = i
    /\ \A k \in DOMAIN Rows(txs, t) :
          \E i \in 1 .. Len(txs) : \E j \in 1 .. Len(Conversions(txs, t)[i]) :
             k = o[i] + j

LEMMA RowPlaces ==
  ASSUME NEW t \in Table, NEW txs, AllConvertible(txs, t)
  PROVE  \E o : RowsAt(o, txs, t)
<1> DEFINE c == Conversions(txs, t)
<1>1. /\ c \in Seq(Seq(Row(t))) /\ Len(c) = Len(txs)
      /\ \A i \in 1 .. Len(txs) : \A j \in 1 .. Len(c[i]) : c[i][j].version = i
  BY ConversionsType
<1>2. DOMAIN Rows(txs, t) = 1 .. Len(Rows(txs, t)) /\ Rows(txs, t) = FlattenSeq(c)
  BY RowsByTransaction DEF Rows
<1> HIDE DEF c
<1>3. PICK o : Placed(o, c)
  BY <1>1, Placement
<1> DEFINE F == Rows(txs, t)
<1>4. /\ o \in [1 .. Len(txs) -> Nat]
      /\ \A i \in 1 .. Len(txs) : \A j \in 1 .. Len(c[i]) :
            /\ o[i] + j \in DOMAIN F
            /\ F[o[i] + j] = c[i][j]
            /\ c[i][j].version = i
      /\ \A k \in DOMAIN F : \E i \in 1 .. Len(txs) : \E j \in 1 .. Len(c[i]) : k = o[i] + j
  <2> HIDE DEF F
  <2>1. Len(c) = Len(txs) /\ DOMAIN F = 1 .. Len(FlattenSeq(c)) /\ F = FlattenSeq(c)
    BY <1>1, <1>2 DEF F
  <2>2. o \in [1 .. Len(txs) -> Nat]
    BY <1>3, <2>1 DEF Placed
  <2>3. ASSUME NEW i \in 1 .. Len(txs), NEW j \in 1 .. Len(c[i])
        PROVE  o[i] + j \in DOMAIN F /\ F[o[i] + j] = c[i][j] /\ c[i][j].version = i
    BY <1>1, <1>3, <2>1 DEF Placed
  <2>4. ASSUME NEW k \in DOMAIN F
        PROVE  \E i \in 1 .. Len(txs) : \E j \in 1 .. Len(c[i]) : k = o[i] + j
    BY <1>3, <2>1 DEF Placed
  <2> QED BY <2>2, <2>3, <2>4
<1>5. RowsAt(o, txs, t)
  BY <1>4 DEF RowsAt, c
<1> QED BY <1>5

\* The rows of one transaction in a table are as many as it was made into.
LEMMA RowsOfOne ==
  ASSUME NEW t \in Table, NEW txs, AllConvertible(txs, t),
         NEW i \in 1 .. Len(txs), NEW Q
  PROVE  Cardinality(RowsIn(Rows(txs, t), i, Q))
           = Cardinality(Among(ExtractRecords(txs[i], i)[t], Q))
<1> DEFINE c == Conversions(txs, t)
<1>1. /\ c \in Seq(Seq(Row(t))) /\ Len(c) = Len(txs)
      /\ \A h \in 1 .. Len(c) : \A j \in 1 .. Len(c[h]) : c[h][j].version = h
  BY ConversionsType
<1>2. c[i] = ExtractRecords(txs[i], i)[t] /\ Rows(txs, t) = FlattenSeq(c)
  BY DEF Conversions, Rows
<1> HIDE DEF c
<1>3. Cardinality(RowsIn(FlattenSeq(c), i, Q)) = Cardinality(Among(c[i], Q))
  BY <1>1, VersionCount
<1> QED BY <1>2, <1>3

LEMMA HowManyRows ==
  ASSUME NEW t \in Table, NEW txs, AllConvertible(txs, t), NEW i \in 1 .. Len(txs)
  PROVE  Cardinality({k \in DOMAIN Rows(txs, t) : Rows(txs, t)[k].version = i})
           = Len(ExtractRecords(txs[i], i)[t])
<1> DEFINE F == Rows(txs, t)
           rs == ExtractRecords(txs[i], i)[t]
           Q == Row(t)
<1>1. F \in Seq(Q) /\ rs \in Seq(Q)
  BY RowsByTransaction
<1> HIDE DEF Q
<1>2. Cardinality(RowsIn(F, i, Q)) = Cardinality(Among(rs, Q))
  BY RowsOfOne
<1> HIDE DEF F, rs
<1>3. /\ Len(F) \in Nat /\ DOMAIN F = 1 .. Len(F) /\ \A k \in DOMAIN F : F[k] \in Q
      /\ Len(rs) \in Nat /\ DOMAIN rs = 1 .. Len(rs) /\ \A j \in DOMAIN rs : rs[j] \in Q
  BY <1>1, LenProperties, ElementOfSeq
<1>4. /\ RowsIn(F, i, Q) = {k \in DOMAIN F : F[k].version = i}
      /\ Among(rs, Q) = 1 .. Len(rs)
  BY <1>3 DEF RowsIn, Among
<1>5. Cardinality(1 .. Len(rs)) = Len(rs)
  BY <1>3, UpToIsFinite
<1> QED BY <1>2, <1>4, <1>5 DEF F, rs

\* The changes of one type, and their rows in a list and in a table.
ChangesOf(tx, type) == {i \in DOMAIN tx.changes : tx.changes[i].type = type}

OfType(rs, type) == {j \in DOMAIN rs : rs[j].change_type = type}

OfTypeIn(F, i, type) == {k \in DOMAIN F : F[k].version = i /\ F[k].change_type = type}

\* A change has a row in the changes table and one in the table of its type.
LEMMA ChangesOfType ==
  ASSUME NEW tx \in InputTransaction, NEW v, NEW type \in WriteSetChangeType,
         NEW t \in {"changes", DetailTable(type)} \cap ChangeTables
  PROVE  Cardinality(OfType(ExtractRecords(tx, v)[t], type)) = Cardinality(ChangesOf(tx, type))
<1> DEFINE n == Len(tx.changes)
           I == {i \in 1 .. n : tx.changes[i].type = type}
           rs == ExtractRecords(tx, v)[t]
           J == {j \in DOMAIN rs : rs[j].change_type = type}
<1>1. n \in Nat /\ DOMAIN tx.changes = 1 .. n
  BY RowCounts
<1>2. \A i : ChangeRecord(tx, v, i).change_type = tx.changes[i].type
  BY DEF ChangeRecord
<1>3. rs = GetChanges(tx, v)[t]
  BY DEF ExtractRecords, ChangeTables, Table
<1>4. CASE t = "changes"
  <2>1. /\ rs \in Seq(Range(rs)) /\ Len(rs) = n
        /\ \A j \in 1 .. n : rs[j] = ChangeRecord(tx, v, j)
    BY <1>3, <1>4, ChangeRows
  <2> HIDE DEF rs
  <2>2. DOMAIN rs = 1 .. n
    BY <2>1, LenProperties
  <2>3. J = I
    BY <2>1, <2>2, <1>2
  <2> QED BY <2>3, <1>1 DEF rs, OfType, ChangesOf
<1>5. CASE t # "changes"
  <2>1. t = DetailTable(type) /\ rs = Details(tx, v, t)
    BY <1>3, <1>5 DEF GetChanges, ChangeTables
  <2> DEFINE P == DetailPlaces(tx, t)
  <2>2. rs \in Seq(DetailRow(tx, v, t)) /\ \E g : DetailsAt(g, rs, tx, v, t)
    BY <2>1, DetailRows
  <2> HIDE DEF rs, P
  <2>3. Len(rs) \in Nat /\ DOMAIN rs = 1 .. Len(rs)
    BY <2>2, LenProperties
  <2>12. PICK g : DetailsAt(g, rs, tx, v, t)
    BY <2>2
  <2>4. /\ g \in [P -> 1 .. Len(rs)]
        /\ \A i \in P : rs[g[i]] = ChangeRecord(tx, v, i)
        /\ \A k \in 1 .. Len(rs) : \E i \in P : k = g[i]
    BY <2>12 DEF DetailsAt, P
  <2>5. I \subseteq P /\ P \subseteq 1 .. n
    BY <2>1 DEF P, DetailPlaces
  <2> DEFINE f == [i \in I |-> g[i]]
  <2>6. f \in [I -> J]
    BY <1>2, <2>3, <2>4, <2>5
  <2>7. \A x, y \in P : g[x] = g[y] => x = y
    <3>1. \A i : ChangeRecord(tx, v, i).change_index = i - 1
      BY DEF ChangeRecord
    <3>2. \A i \in P : rs[g[i]].change_index = i - 1
      BY <2>4, <3>1
    <3> QED BY <3>2, <2>5
  <2>8. \A x, y \in I : f[x] = f[y] => x = y
    BY <2>5, <2>7
  <2>9. ASSUME NEW z \in J PROVE \E x \in I : f[x] = z
    <3>1. PICK i \in P : z = g[i]
      BY <2>3, <2>4
    <3>2. rs[z].change_type = tx.changes[i].type
      BY <3>1, <2>4, <1>2
    <3>3. i \in I
      BY <3>2, <2>5
    <3> QED BY <3>1, <3>3
  <2>10. IsFiniteSet(I)
    <3>1. IsFiniteSet(1 .. n)
      BY <1>1, UpToIsFinite
    <3> QED BY <3>1, FS_Subset
  <2> HIDE DEF f, I, J
  <2>11. Cardinality(J) = Cardinality(I)
    BY <2>6, <2>8, <2>9, <2>10, Counting
  <2> QED BY <2>11, <1>1 DEF I, J, rs, OfType, ChangesOf
<1> QED BY <1>4, <1>5

\* The count of one type in a transaction's row is the number of its rows.
LEMMA TypeCounted ==
  ASSUME NEW t \in ChangeTables, NEW txs, AllConvertible(txs, t), NEW i \in 1 .. Len(txs),
         NEW type \in WriteSetChangeType, t \in {"changes", DetailTable(type)}
  PROVE  CalculateChangesAggregate(txs[i])[type]
           = Cardinality(OfTypeIn(Rows(txs, t), i, type))
<1> DEFINE tx == txs[i]
           F == Rows(txs, t)
           rs == ExtractRecords(tx, i)[t]
           Q == {r \in Row(t) : r.change_type = type}
<1>0. t \in Table
  BY DEF ChangeTables, Table
<1>1. /\ F \in Seq(Row(t)) /\ rs \in Seq(Row(t)) /\ tx \in InputTransaction
  BY <1>0, RowsByTransaction
<1> HIDE DEF Q
<1>2. Cardinality(RowsIn(F, i, Q)) = Cardinality(Among(rs, Q))
  BY <1>0, RowsOfOne
<1>3. Cardinality(OfType(rs, type)) = Cardinality(ChangesOf(tx, type))
  BY <1>1, ChangesOfType
<1>4. CalculateChangesAggregate(tx)[type] = Cardinality(ChangesOf(tx, type))
  <2>1. type # "total"
    BY DEF WriteSetChangeType
  <2> QED BY <2>1 DEF CalculateChangesAggregate, ChangesOf
<1> HIDE DEF F, rs, tx
<1>5. /\ DOMAIN F = 1 .. Len(F) /\ \A k \in DOMAIN F : F[k] \in Row(t)
      /\ DOMAIN rs = 1 .. Len(rs) /\ \A j \in DOMAIN rs : rs[j] \in Row(t)
  BY <1>1, LenProperties, ElementOfSeq
<1>6. RowsIn(F, i, Q) = OfTypeIn(F, i, type)
  BY <1>5 DEF RowsIn, OfTypeIn, Q
<1>7. Among(rs, Q) = OfType(rs, type)
  BY <1>5 DEF Among, OfType, Q
<1> QED BY <1>2, <1>3, <1>4, <1>6, <1>7 DEF F, rs, tx

\* The row of a transaction in the transactions table.
LEMMA TransactionRow ==
  ASSUME NEW txs, AllConvertible(txs, "transactions"),
         NEW k \in DOMAIN Rows(txs, "transactions"),
         NEW i \in 1 .. Len(txs), Rows(txs, "transactions")[k].version = i
  PROVE  /\ Rows(txs, "transactions")[k] = GetTransactions(txs[i], i, SigCnt(txs[i], i))
         /\ ~ GetSignaturesFails(txs[i])
<1> DEFINE t == "transactions"
           c == Conversions(txs, t)
<1>0. t \in Table
  BY DEF Table
<1>1. PICK o : RowsAt(o, txs, t)
  BY <1>0, RowPlaces
<1>2. PICK h \in 1 .. Len(txs) : \E j \in 1 .. Len(c[h]) : k = o[h] + j
  BY <1>1 DEF RowsAt
<1>3. PICK j \in 1 .. Len(c[h]) : k = o[h] + j
  BY <1>2
<1>4. Rows(txs, t)[k] = c[h][j] /\ c[h][j].version = h
  BY <1>1, <1>3 DEF RowsAt
<1>5. h = i
  BY <1>4
<1>6. c[i] = << GetTransactions(txs[i], i, SigCnt(txs[i], i)) >>
  BY DEF Conversions, ExtractRecords, SigCnt, Table
<1>7. Len(c[i]) = 1 /\ c[i][1] = GetTransactions(txs[i], i, SigCnt(txs[i], i))
  BY <1>6, SingleRow
<1> HIDE DEF c
<1>8. j = 1
  <2>1. j \in 1 .. 1
    BY <1>3, <1>5, <1>7
  <2> QED BY <2>1
<1>9. ~ GetSignaturesFails(txs[i])
  BY DEF AllConvertible, Convertible
<1> QED BY <1>4, <1>5, <1>7, <1>8, <1>9

\* The counts in the row of a transaction are the numbers of its rows in the
\* tables they count: signatures, events, changes, and changes of each type
\* (tables/transactions.rs, tx_info.rs:35-72).
THEOREM RowsAreCounted == TransformationSpec => []CountsMatchRows
<1>1. ASSUME TransformationInv PROVE CountsMatchRows
  <2> SUFFICES ASSUME conversionPc \in {"extract", "publish"},
                      NEW i \in DOMAIN done, NEW k \in RowsOf(i, "transactions")
               PROVE  LET row == records["transactions"][k]
                      IN  /\ (row.tx_type = "User") => (row.num_signatures # None)
                          /\ (row.num_signatures # None /\ "signatures" \in selected) =>
                                row.num_signatures = Some(Cardinality(RowsOf(i, "signatures")))
                          /\ "events" \in selected =>
                                row.num_events = IF Events(done[i]) = None THEN None
                                                 ELSE Some(Cardinality(RowsOf(i, "events")))
                          /\ "changes" \in selected =>
                                row.num_changes["total"] = Cardinality(RowsOf(i, "changes"))
                          /\ \A t \in selected \cap ChangeTables, type \in WriteSetChangeType :
                                t \in {"changes", DetailTable(type)} =>
                                  row.num_changes[type] =
                                    Cardinality({r \in RowsOf(i, t) :
                                                   records[t][r].change_type = type})
    BY DEF CountsMatchRows
  <2> DEFINE tx == done[i]
             row == records["transactions"][k]
             sig_cnt == SigCnt(tx, i)
  <2>1. /\ selected \subseteq Table /\ DOMAIN done = 1 .. Len(done)
        /\ \A t \in selected : AllConvertible(done, t)
    BY <1>1, TypedInv, LenProperties
  <2>2. records = RowsOfAll(selected, done)
    BY <1>1 DEF TransformationInv, BetweenTransactions, WithinTransaction,
                GivenUp, InProgress
  <2>3. \A t \in selected : records[t] = Rows(done, t)
    BY <2>1, <2>2 DEF RowsOfAll
  <2>4. "transactions" \in selected
    <3>1. "transactions" \notin selected => records["transactions"] = <<>>
      BY <2>2 DEF RowsOfAll, Table
    <3>2. DOMAIN <<>> = {}
      OBVIOUS
    <3> QED BY <3>1, <3>2 DEF RowsOf
  <2>5. i \in 1 .. Len(done) /\ k \in DOMAIN records["transactions"] /\ row.version = i
    BY <2>1 DEF RowsOf
  <2>6. row = GetTransactions(tx, i, sig_cnt) /\ ~ GetSignaturesFails(tx)
    BY <2>1, <2>3, <2>4, <2>5, TransactionRow
  <2>7. /\ row.tx_type = tx.type /\ row.num_changes = CalculateChangesAggregate(tx)
        /\ row.num_events = NumEvents(tx)
        /\ row.num_signatures = NumSignatures(tx, sig_cnt)
    BY <2>6 DEF GetTransactions
  <2>8. tx \in InputTransaction /\ i \in Nat
    BY <2>1, <2>4, <2>5, RowsByTransaction
  <2>9. sig_cnt = IF tx.type = "User" THEN Some(Len(OrNone(GetSignatures(tx, i)))) ELSE None
    BY <2>6, <2>8, SignatureTable
  <2>10. \A t \in selected : Cardinality(RowsOf(i, t)) = Len(ExtractRecords(tx, i)[t])
    BY <2>1, <2>3, <2>5, HowManyRows DEF RowsOf
  <2>11. "signatures" \in selected =>
            Cardinality(RowsOf(i, "signatures")) = Len(OrNone(GetSignatures(tx, i)))
    BY <2>10 DEF ExtractRecords, Table
  <2>12. "events" \in selected =>
            Cardinality(RowsOf(i, "events")) = Len(GetEvents(tx, i))
    BY <2>10 DEF ExtractRecords, Table
  <2>13. "changes" \in selected =>
            Cardinality(RowsOf(i, "changes")) = Len(GetChanges(tx, i)["changes"])
    BY <2>10 DEF ExtractRecords, Table
  <2> HIDE DEF row
  <2>14. row.tx_type = "User" => row.num_signatures # None
    BY <2>7, <2>9 DEF NumSignatures, Some, None
  <2>15. (row.num_signatures # None /\ "signatures" \in selected) =>
            row.num_signatures = Some(Cardinality(RowsOf(i, "signatures")))
    BY <2>7, <2>9, <2>11 DEF NumSignatures
  <2>16. "events" \in selected =>
            row.num_events = IF Events(tx) = None THEN None
                             ELSE Some(Cardinality(RowsOf(i, "events")))
    <3>1. Events(tx) # None => Len(GetEvents(tx, i)) = Len(tx.events)
      BY <2>8, EventRows
    <3>2. NumEvents(tx) = IF Events(tx) = None THEN None ELSE Some(Len(tx.events))
      BY DEF NumEvents, Events, None, Some
    <3> QED BY <3>1, <3>2, <2>7, <2>12
  <2>17. "changes" \in selected =>
            row.num_changes["total"] = Cardinality(RowsOf(i, "changes"))
    <3>1. Len(GetChanges(tx, i)["changes"]) = Len(tx.changes)
      BY <2>8, ChangeRows
    <3>2. CalculateChangesAggregate(tx)["total"] = Len(tx.changes)
      BY DEF CalculateChangesAggregate
    <3> QED BY <3>1, <3>2, <2>7, <2>13
  <2>18. ASSUME NEW t \in selected \cap ChangeTables, NEW type \in WriteSetChangeType,
                t \in {"changes", DetailTable(type)}
         PROVE  row.num_changes[type] =
                   Cardinality({r \in RowsOf(i, t) : records[t][r].change_type = type})
    <3>1. AllConvertible(done, t) /\ records[t] = Rows(done, t)
      BY <2>1, <2>3, <2>18
    <3>2. CalculateChangesAggregate(tx)[type]
            = Cardinality(OfTypeIn(Rows(done, t), i, type))
      BY <3>1, <2>5, <2>18, TypeCounted
    <3>3. {r \in RowsOf(i, t) : records[t][r].change_type = type}
            = OfTypeIn(Rows(done, t), i, type)
      BY <3>1 DEF RowsOf, OfTypeIn
    <3> QED BY <3>2, <3>3, <2>7
  <2> QED BY <2>14, <2>15, <2>16, <2>17, <2>18 DEF row
<1> QED BY <1>1, TransformationInvariant, PTL

-----------------------------------------------------------------------------
(* Details and duplicates *)

\* No two rows of a list are duplicates by the keys of the deduplication.
NoDuplicates(t, rs) ==
    \A j, k \in DOMAIN rs : DedupeKey(t, rs[j]) = DedupeKey(t, rs[k]) => j = k

LEMMA SameKeySameVersion ==
  ASSUME NEW t \in Table, NEW r, NEW s, DedupeKey(t, r) = DedupeKey(t, s)
  PROVE  r.version = s.version
<1>1. CASE t \in {"transactions", "blocks"}
  BY <1>1 DEF DedupeKey
<1>2. CASE t = "events"
  BY <1>2 DEF DedupeKey
<1>3. CASE t \in ChangeTables
  BY <1>3 DEF DedupeKey, ChangeTables
<1>4. CASE t = "signatures"
  BY <1>4 DEF DedupeKey, ChangeTables
<1> QED BY <1>1, <1>2, <1>3, <1>4 DEF Table, ChangeTables

LEMMA SameKeySameIndex ==
  ASSUME NEW r, NEW s, DedupeKey("events", r) = DedupeKey("events", s)
  PROVE  r.event_index = s.event_index
BY DEF DedupeKey, ChangeTables

\* A row of one of two keys of an account of the transaction that no row tells
\* apart.
TwinRow(t, tx, r) ==
    /\ t = "signatures"
    /\ \E s \in Signers(tx) :
          RoleOf(r) = s.role /\ r.signer = s.address /\ OfTwinKeys(s.account, r)

\* Two rows of a list are duplicates only if they are of twin keys.
OnlyTwins(t, tx, rs) ==
    \A j, k \in DOMAIN rs :
        DedupeKey(t, rs[j]) = DedupeKey(t, rs[k]) => j = k \/ TwinRow(t, tx, rs[j])

\* If this holds of each transaction, it holds of all their rows.
LEMMA OnlyTwinsInRows ==
  ASSUME NEW t \in Table, NEW txs, AllConvertible(txs, t),
         \A i \in 1 .. Len(txs) : OnlyTwins(t, txs[i], Conversions(txs, t)[i]),
         NEW x \in DOMAIN Rows(txs, t), NEW y \in DOMAIN Rows(txs, t),
         DedupeKey(t, Rows(txs, t)[x]) = DedupeKey(t, Rows(txs, t)[y])
  PROVE  x = y \/ TwinRow(t, txs[Rows(txs, t)[x].version], Rows(txs, t)[x])
<1> DEFINE F == Rows(txs, t)
           c == Conversions(txs, t)
<1>1. PICK o : RowsAt(o, txs, t)
  BY RowPlaces
<1>2. DedupeKey(t, F[x]) = DedupeKey(t, F[y])
  OBVIOUS
<1> HIDE DEF F
<1>3. PICK i \in 1 .. Len(txs) : \E j \in 1 .. Len(c[i]) : x = o[i] + j
  BY <1>1 DEF RowsAt, F
<1>4. PICK j \in 1 .. Len(c[i]) : x = o[i] + j
  BY <1>3
<1>5. PICK h \in 1 .. Len(txs) : \E k \in 1 .. Len(c[h]) : y = o[h] + k
  BY <1>1 DEF RowsAt, F
<1>6. PICK k \in 1 .. Len(c[h]) : y = o[h] + k
  BY <1>5
<1>7. /\ F[x] = c[i][j] /\ c[i][j].version = i
      /\ F[y] = c[h][k] /\ c[h][k].version = h
  BY <1>1, <1>4, <1>6 DEF RowsAt, F
<1>8. i = h
  <2>1. F[x].version = F[y].version
    BY <1>2, SameKeySameVersion
  <2> QED BY <2>1, <1>7
<1>9. j = k \/ TwinRow(t, txs[i], c[i][j])
  <2>1. j \in DOMAIN c[i] /\ k \in DOMAIN c[i]
    BY <1>4, <1>6, <1>8, RowsByTransaction
  <2>2. DedupeKey(t, c[i][j]) = DedupeKey(t, c[i][k])
    BY <1>2, <1>7, <1>8
  <2>3. OnlyTwins(t, txs[i], c[i])
    OBVIOUS
  <2> HIDE DEF c
  <2> QED BY <2>1, <2>2, <2>3 DEF OnlyTwins
<1>10. x = y \/ TwinRow(t, txs[F[x].version], F[x])
  BY <1>4, <1>6, <1>7, <1>8, <1>9
<1> QED BY <1>10 DEF F

\* No two rows of a transaction have the same key, signatures aside.
LEMMA NoDuplicatesInOne ==
  ASSUME NEW tx \in InputTransaction, NEW v \in Nat, NEW t \in Table \ {"signatures"},
         Convertible(tx, v, t)
  PROVE  NoDuplicates(t, ExtractRecords(tx, v)[t])
<1> DEFINE rs == ExtractRecords(tx, v)[t]
<1>1. rs \in Seq(Range(rs))
  BY OneTransaction
<1>2. Len(rs) \in Nat /\ DOMAIN rs = 1 .. Len(rs)
  BY <1>1, LenProperties
<1>3. CASE t = "blocks"
  <2>1. rs = GetBlock(tx, v)
    BY <1>3 DEF ExtractRecords
  <2>2. Len(rs) \in {0, 1}
    <3>1. Len(<<>>) = 0 /\ Len(<< [version |-> v] >>) = 1
      BY EmptyRows, SingleRow
    <3>2. rs = << [version |-> v] >> \/ rs = <<>>
      BY <2>1 DEF GetBlock
    <3> QED BY <3>1, <3>2
  <2> HIDE DEF rs
  <2>3. \A j, k \in 1 .. Len(rs) : j = k
    BY <2>2, <1>2
  <2> QED BY <2>3, <1>2 DEF NoDuplicates, rs
<1>4. CASE t = "transactions"
  <2> DEFINE r == GetTransactions(tx, v, SigCnt(tx, v))
  <2>1. rs = <<r>>
    BY <1>4 DEF ExtractRecords, SigCnt
  <2> HIDE DEF rs, r
  <2>2. Len(rs) = 1
    BY <2>1, SingleRow
  <2>3. \A j, k \in 1 .. Len(rs) : j = k
    BY <2>2
  <2> QED BY <2>3, <1>2 DEF NoDuplicates, rs
<1>5. CASE t = "events"
  <2>1. rs = GetEvents(tx, v)
    BY <1>5 DEF ExtractRecords
  <2>2. \A j \in 1 .. Len(rs) : rs[j] = [version |-> v, event_index |-> j - 1]
    BY <2>1, EventRows
  <2> HIDE DEF rs
  <2> DEFINE r(j) == [version |-> v, event_index |-> j - 1]
  <2>3. \A j \in 1 .. Len(rs) : rs[j].event_index = j - 1
    <3>1. \A j : r(j).event_index = j - 1
      OBVIOUS
    <3>2. \A j \in 1 .. Len(rs) : rs[j] = r(j)
      BY <2>2
    <3> HIDE DEF r
    <3> QED BY <3>1, <3>2
  <2>5. ASSUME NEW j \in 1 .. Len(rs), NEW k \in 1 .. Len(rs),
               DedupeKey(t, rs[j]) = DedupeKey(t, rs[k])
        PROVE  j = k
    <3>1. rs[j].event_index = rs[k].event_index
      BY <2>5, <1>5, SameKeySameIndex
    <3>2. j - 1 = k - 1
      BY <2>3, <3>1
    <3> QED BY <3>2, <1>2
  <2> QED BY <2>5, <1>2 DEF NoDuplicates, rs
<1>6. CASE t \in ChangeTables
  <2>1. rs = GetChanges(tx, v)[t]
    BY <1>6 DEF ExtractRecords, ChangeTables, Table
  <2>2. \E P \in SUBSET Int : \E g \in [P -> 1 .. Len(rs)] :
           /\ \A i \in P : rs[g[i]].change_index = i - 1
           /\ \A k \in 1 .. Len(rs) : \E i \in P : k = g[i]
    <3>0. \A i : ChangeRecord(tx, v, i).change_index = i - 1
      BY DEF ChangeRecord
    <3>1. CASE t = "changes"
      <4> DEFINE P == 1 .. Len(rs)
                 g == [i \in P |-> i]
      <4>1. \A i \in P : rs[i] = ChangeRecord(tx, v, i)
        BY <2>1, <3>1, ChangeRows
      <4> HIDE DEF rs
      <4>2. g \in [P -> 1 .. Len(rs)] /\ \A i \in P : rs[g[i]].change_index = i - 1
        BY <4>1, <3>0
      <4>3. P \in SUBSET Int /\ \A k \in 1 .. Len(rs) : \E i \in P : k = g[i]
        OBVIOUS
      <4> HIDE DEF P, g
      <4> QED BY <4>2, <4>3
    <3>2. CASE t # "changes"
      <4>1. rs = Details(tx, v, t)
        BY <2>1, <3>2, <1>6 DEF GetChanges, ChangeTables
      <4> DEFINE P == DetailPlaces(tx, t)
      <4>2. PICK g : DetailsAt(g, rs, tx, v, t)
        BY <4>1, DetailRows
      <4> HIDE DEF rs
      <4>3. P \in SUBSET Int
        BY RowCounts DEF DetailPlaces
      <4>4. /\ g \in [P -> 1 .. Len(rs)]
            /\ \A i \in P : rs[g[i]] = ChangeRecord(tx, v, i)
            /\ \A k \in 1 .. Len(rs) : \E i \in P : k = g[i]
        BY <4>2 DEF DetailsAt
      <4>5. \A i \in P : rs[g[i]].change_index = i - 1
        BY <4>4, <3>0
      <4> HIDE DEF P
      <4> QED BY <4>3, <4>4, <4>5
    <3> QED BY <3>1, <3>2
  <2> HIDE DEF rs
  <2>3. PICK P \in SUBSET Int : \E g \in [P -> 1 .. Len(rs)] :
           /\ \A i \in P : rs[g[i]].change_index = i - 1
           /\ \A k \in 1 .. Len(rs) : \E i \in P : k = g[i]
    BY <2>2
  <2>4. PICK g \in [P -> 1 .. Len(rs)] :
           /\ \A i \in P : rs[g[i]].change_index = i - 1
           /\ \A k \in 1 .. Len(rs) : \E i \in P : k = g[i]
    BY <2>3
  <2>5. ASSUME NEW j \in 1 .. Len(rs), NEW k \in 1 .. Len(rs),
               DedupeKey(t, rs[j]) = DedupeKey(t, rs[k])
        PROVE  j = k
    <3>1. rs[j].change_index = rs[k].change_index
      BY <2>5, <1>6 DEF DedupeKey, ChangeTables
    <3>2. PICK i \in P : j = g[i]
      BY <2>4
    <3>3. PICK h \in P : k = g[h]
      BY <2>4
    <3>4. i - 1 = h - 1
      BY <2>4, <3>1, <3>2, <3>3
    <3>5. i = h
      BY <3>4
    <3> QED BY <3>2, <3>3, <3>5
  <2> QED BY <2>5, <1>2 DEF NoDuplicates, rs
<1> QED BY <1>3, <1>4, <1>5, <1>6 DEF Table, ChangeTables

\* Every change has exactly one detail, in the table of its type and under its
\* change_index, and every detail belongs to a change (reps/changes.rs:173-296).
THEOREM DetailsAreJoined == TransformationSpec => []DetailsJoinChanges
<1>1. ASSUME TransformationInv PROVE DetailsJoinChanges
  <2> SUFFICES ASSUME conversionPc \in {"extract", "publish"}, "changes" \in selected,
                      NEW t \in selected \cap (ChangeTables \ {"changes"})
               PROVE  /\ Range(records[t]) = {r \in Range(records["changes"]) :
                                                 DetailTable(r.change_type) = t}
                      /\ IsInjective(records[t])
    BY DEF DetailsJoinChanges
  <2>1. selected \subseteq Table /\ \A u \in selected : AllConvertible(done, u)
    BY <1>1, TypedInv
  <2>2. \A u \in selected : records[u] = Rows(done, u)
    <3>1. records = RowsOfAll(selected, done)
      BY <1>1 DEF TransformationInv, BetweenTransactions, WithinTransaction,
                  GivenUp, InProgress
    <3> QED BY <3>1, <2>1 DEF RowsOfAll
  <2> DEFINE F == Rows(done, t)
             G == Rows(done, "changes")
             c == Conversions(done, t)
             d == Conversions(done, "changes")
  <2>3. t \in Table /\ AllConvertible(done, t)
    BY <2>1
  <2>4. "changes" \in Table /\ AllConvertible(done, "changes")
    BY <2>1
  <2>5. \A i \in 1 .. Len(done) :
           /\ done[i] \in InputTransaction /\ i \in Nat /\ Convertible(done[i], i, t)
           /\ Len(d[i]) = Len(done[i].changes)
           /\ \A h \in 1 .. Len(done[i].changes) : d[i][h] = ChangeRecord(done[i], i, h)
           /\ \E g : DetailsAt(g, c[i], done[i], i, t)
    <3>1. ASSUME NEW i \in 1 .. Len(done)
          PROVE  /\ done[i] \in InputTransaction /\ i \in Nat /\ Convertible(done[i], i, t)
                 /\ Len(d[i]) = Len(done[i].changes)
                 /\ \A h \in 1 .. Len(done[i].changes) : d[i][h] = ChangeRecord(done[i], i, h)
                 /\ \E g : DetailsAt(g, c[i], done[i], i, t)
      <4>1. done[i] \in InputTransaction /\ i \in Nat /\ Convertible(done[i], i, t)
        BY <2>3, RowsByTransaction
      <4>2. d[i] = GetChanges(done[i], i)["changes"]
        BY DEF Conversions, ExtractRecords, Table
      <4>3. c[i] = Details(done[i], i, t)
        BY <2>3 DEF Conversions, ExtractRecords, ChangeTables, GetChanges
      <4>4. \E g : DetailsAt(g, c[i], done[i], i, t)
        BY <4>1, <4>3, DetailRows
      <4> HIDE DEF c, d
      <4> QED BY <4>1, <4>2, <4>4, ChangeRows
    <3> HIDE DEF c, d
    <3> QED BY <3>1
  <2>6. PICK o : RowsAt(o, done, t)
    BY <2>3, RowPlaces
  <2>7. PICK p : RowsAt(p, done, "changes")
    BY <2>4, RowPlaces
  <2> HIDE DEF F, G, c, d
  <2>8. /\ \A i \in 1 .. Len(done) : \A j \in 1 .. Len(c[i]) :
              o[i] + j \in DOMAIN F /\ F[o[i] + j] = c[i][j]
        /\ \A k \in DOMAIN F :
              \E i \in 1 .. Len(done) : \E j \in 1 .. Len(c[i]) : k = o[i] + j
    BY <2>6 DEF RowsAt, F, c
  <2>9. /\ \A i \in 1 .. Len(done) : \A j \in 1 .. Len(d[i]) :
              p[i] + j \in DOMAIN G /\ G[p[i] + j] = d[i][j]
        /\ \A k \in DOMAIN G :
              \E i \in 1 .. Len(done) : \E j \in 1 .. Len(d[i]) : k = p[i] + j
    BY <2>7 DEF RowsAt, G, d
  <2>10. \A tx, v, h : ChangeRecord(tx, v, h).change_type = tx.changes[h].type
    BY DEF ChangeRecord
  <2>11. ASSUME NEW k \in DOMAIN F
         PROVE  F[k] \in Range(G) /\ DetailTable(F[k].change_type) = t
    <3>1. PICK i \in 1 .. Len(done) : \E j \in 1 .. Len(c[i]) : k = o[i] + j
      BY <2>8
    <3>2. PICK j \in 1 .. Len(c[i]) : k = o[i] + j
      BY <3>1
    <3>3. F[k] = c[i][j]
      BY <2>8, <3>2
    <3>4. PICK g : DetailsAt(g, c[i], done[i], i, t)
      BY <2>5
    <3>5. PICK h \in DetailPlaces(done[i], t) : j = g[h]
      BY <3>4 DEF DetailsAt
    <3>6. c[i][j] = ChangeRecord(done[i], i, h)
      BY <3>4, <3>5 DEF DetailsAt
    <3>7. h \in 1 .. Len(done[i].changes) /\ DetailTable(done[i].changes[h].type) = t
      BY DEF DetailPlaces
    <3>8. h \in 1 .. Len(d[i]) /\ d[i][h] = F[k]
      BY <2>5, <3>3, <3>6, <3>7
    <3>9. p[i] + h \in DOMAIN G /\ G[p[i] + h] = F[k]
      BY <2>9, <3>8
    <3>10. DetailTable(F[k].change_type) = t
      BY <2>10, <3>3, <3>6, <3>7
    <3> QED BY <3>9, <3>10 DEF Range
  <2>12. ASSUME NEW k \in DOMAIN G, DetailTable(G[k].change_type) = t
         PROVE  G[k] \in Range(F)
    <3>1. PICK i \in 1 .. Len(done) : \E j \in 1 .. Len(d[i]) : k = p[i] + j
      BY <2>9
    <3>2. PICK h \in 1 .. Len(d[i]) : k = p[i] + h
      BY <3>1
    <3>3. G[k] = ChangeRecord(done[i], i, h) /\ h \in 1 .. Len(done[i].changes)
      BY <2>5, <2>9, <3>2
    <3>4. h \in DetailPlaces(done[i], t)
      BY <2>12, <3>3, <2>10 DEF DetailPlaces
    <3>5. PICK g : DetailsAt(g, c[i], done[i], i, t)
      BY <2>5
    <3>6. g[h] \in 1 .. Len(c[i]) /\ c[i][g[h]] = G[k]
      BY <3>3, <3>4, <3>5 DEF DetailsAt
    <3>7. o[i] + g[h] \in DOMAIN F /\ F[o[i] + g[h]] = G[k]
      BY <2>8, <3>6
    <3> QED BY <3>7 DEF Range
  <2>13. Range(F) = {r \in Range(G) : DetailTable(r.change_type) = t}
    BY <2>11, <2>12 DEF Range
  <2>14. NoDuplicates(t, F)
    <3>1. t # "signatures"
      BY DEF ChangeTables
    <3>2. \A i \in 1 .. Len(done) : OnlyTwins(t, done[i], Conversions(done, t)[i])
      <4>1. ASSUME NEW i \in 1 .. Len(done)
            PROVE  OnlyTwins(t, done[i], Conversions(done, t)[i])
        <5>1. /\ Conversions(done, t)[i] = ExtractRecords(done[i], i)[t]
              /\ done[i] \in InputTransaction /\ i \in Nat /\ Convertible(done[i], i, t)
          BY <2>3, RowsByTransaction
        <5>2. NoDuplicates(t, ExtractRecords(done[i], i)[t])
          BY <3>1, <5>1, <2>3, NoDuplicatesInOne
        <5> QED BY <5>1, <5>2 DEF NoDuplicates, OnlyTwins
      <4> QED BY <4>1
    <3>3. ASSUME NEW x \in DOMAIN F, NEW y \in DOMAIN F,
                 DedupeKey(t, F[x]) = DedupeKey(t, F[y])
          PROVE  x = y
      <4>1. ~ TwinRow(t, done[F[x].version], F[x])
        BY <3>1 DEF TwinRow
      <4>2. \/ x = y
            \/ TwinRow(t, done[F[x].version], F[x])
        BY <2>3, <3>2, <3>3, OnlyTwinsInRows DEF F
      <4> QED BY <4>1, <4>2
    <3> QED BY <3>3 DEF NoDuplicates
  <2>15. IsInjective(F)
    BY <2>14 DEF NoDuplicates, IsInjective
  <2> QED BY <2>2, <2>13, <2>15 DEF F, G
<1> QED BY <1>1, TransformationInvariant, PTL

-----------------------------------------------------------------------------
(* Signatures: parties are told apart *)

\* The roles a type of signature has.
MayPlay(sig, role) ==
    IF sig.type = "FeePayer" THEN role \in {"sender", "feepayer", "secondary"}
    ELSE IF sig.type = "MultiAgent" THEN role \in {"sender", "secondary"}
    ELSE role = "sender"

\* A party is known by its role and address.
LEMMA PartiesDiffer ==
  ASSUME NEW sig \in Signature, ~ SignatureFails(sig), WellSigned(sig)
  PROVE  /\ \A i \in 1 .. Len(PartiesOf(sig)) : MayPlay(sig, PartiesOf(sig)[i].role)
         /\ \A i, j \in 1 .. Len(PartiesOf(sig)) :
               (/\ PartiesOf(sig)[i].role = PartiesOf(sig)[j].role
                /\ PartiesOf(sig)[i].role = "secondary" =>
                      Encoded(PartiesOf(sig)[i].address)
                        = Encoded(PartiesOf(sig)[j].address)) => i = j
<1> DEFINE ps == PartiesOf(sig)
           n == PairCount(sig)
<1>1. /\ SenderOf(sig).role = "sender" /\ PayerOf(sig).role = "feepayer"
      /\ \A i : /\ SecondOf(sig, i).role = "secondary"
                /\ SecondOf(sig, i).address = sig.secondary_addresses[i]
  BY DEF SenderOf, PayerOf, SecondOf, Of
<1>2. n \in Nat /\ \A i, j \in 1 .. n :
         Encoded(sig.secondary_addresses[i]) = Encoded(sig.secondary_addresses[j]) => i = j
  BY SecondaryPairs DEF WellSigned, IsInjective
<1>3. CASE sig.type \notin {"MultiAgent", "FeePayer"}
  BY <1>1, <1>3, PartyPlaces DEF MayPlay
<1>4. CASE sig.type = "MultiAgent"
  <2>1. /\ Len(ps) = n + 1 /\ ps[n + 1].role = "sender"
        /\ \A i \in 1 .. n : ps[i].role = "secondary" /\ ps[i].address = sig.secondary_addresses[i]
    BY <1>1, <1>4, PartyPlaces
  <2> HIDE DEF ps, n
  <2>2. \A i \in 1 .. Len(ps) : i \in 1 .. n \/ i = n + 1
    BY <1>2, <2>1
  <2> QED BY <1>2, <1>4, <2>1, <2>2 DEF MayPlay, ps
<1>5. CASE sig.type = "FeePayer"
  <2>1. /\ Len(ps) = n + 2 /\ ps[1].role = "sender" /\ ps[2].role = "feepayer"
        /\ \A i \in 1 .. n : /\ ps[i + 2].role = "secondary"
                             /\ ps[i + 2].address = sig.secondary_addresses[i]
    BY <1>1, <1>5, PartyPlaces
  <2> HIDE DEF ps, n
  <2>2. \A i \in 1 .. Len(ps) : i = 1 \/ i = 2 \/ \E h \in 1 .. n : i = h + 2
    <3>1. ASSUME NEW i \in 1 .. Len(ps), i # 1, i # 2 PROVE i - 2 \in 1 .. n /\ i = (i - 2) + 2
      BY <1>2, <2>1, <3>1
    <3> QED BY <3>1
  <2>3. \A i \in 1 .. Len(ps) : ps[i].role \in {"sender", "feepayer", "secondary"}
    BY <2>1, <2>2
  <2>4. ASSUME NEW i \in 1 .. Len(ps), NEW j \in 1 .. Len(ps), ps[i].role = ps[j].role,
               ps[i].role = "secondary" => Encoded(ps[i].address) = Encoded(ps[j].address)
        PROVE  i = j
    <3>1. CASE i \in {1, 2} \/ j \in {1, 2}
      BY <2>1, <2>2, <2>4, <3>1
    <3>2. CASE i \notin {1, 2} /\ j \notin {1, 2}
      <4>1. PICK h \in 1 .. n : i = h + 2
        BY <2>2, <3>2
      <4>2. PICK k \in 1 .. n : j = k + 2
        BY <2>2, <3>2
      <4>3. h = k
        BY <1>2, <2>1, <2>4, <4>1, <4>2
      <4> QED BY <4>1, <4>2, <4>3
    <3> QED BY <3>1, <3>2
  <2> QED BY <1>5, <2>3, <2>4 DEF MayPlay, ps
<1> QED BY <1>3, <1>4, <1>5

\* The row of the k-th key of a party.
RowOf(r, tx, sig, p, k) ==
    /\ r.build_type = sig.type
    /\ r.public_key = KeyOf(p.account, k)
    /\ r.signature = SignatureOf(p.account, k)
    /\ r.signer = Encoded(IF p.role = "sender" THEN tx.sender ELSE p.address)
    /\ r.is_sender = IF sig.type \in {"MultiAgent", "FeePayer"}
                     THEN Some(p.role = "sender") ELSE None
    /\ r.is_secondary = IF sig.type \in {"MultiAgent", "FeePayer"}
                        THEN Some(p.role = "secondary") ELSE None
    /\ r.is_fee_payer = IF sig.type = "FeePayer" THEN Some(p.role = "feepayer") ELSE None

LEMMA SubRecordRow ==
  ASSUME NEW tx, NEW v, NEW r, NEW sig, NEW p, NEW k, OfParty(r, sig, p, k)
  PROVE  RowOf(SignatureRecord(tx, v, r), tx, sig, p, k)
<1> DEFINE w == SignatureRecord(tx, v, r)
<1>1. /\ w.build_type = r.buildtype.value
      /\ w.public_key = r.public_key /\ w.signature = r.signature
      /\ w.signer = Encoded(IF IsUsable(r.signer) THEN r.signer.value ELSE tx.sender)
      /\ w.is_secondary = r.is_secondary.value
      /\ w.is_fee_payer = r.is_feepayer.value /\ w.is_sender = r.is_sender.value
  BY DEF SignatureRecord
<1>2. /\ ~ IsUsable(Deferred)
      /\ \A x : /\ IsUsable(Present(x)) /\ Present(x).value = x
                /\ DeferredFallback(x).value = x
  BY DEF IsUsable, Deferred, Present, DeferredFallback
<1> HIDE DEF w
<1>3. /\ r.buildtype = DeferredFallback(sig.type)
      /\ r.public_key = KeyOf(p.account, k) /\ r.signature = SignatureOf(p.account, k)
      /\ r.signer = IF p.role = "sender" THEN Deferred ELSE Present(p.address)
  BY DEF OfParty
<1>4. w.signer = Encoded(IF p.role = "sender" THEN tx.sender ELSE p.address)
  BY <1>1, <1>2, <1>3
<1>5. w.build_type = sig.type
  BY <1>1, <1>2, <1>3
<1>6. IF sig.type \in {"MultiAgent", "FeePayer"}
      THEN w.is_secondary = Some(p.role = "secondary") /\ w.is_sender = Some(p.role = "sender")
      ELSE w.is_secondary = None /\ w.is_sender = None
  BY <1>1 DEF OfParty
<1>7. w.is_fee_payer = IF sig.type = "FeePayer" THEN Some(p.role = "feepayer") ELSE None
  BY <1>1 DEF OfParty
<1> QED BY <1>1, <1>3, <1>4, <1>5, <1>6, <1>7 DEF RowOf, w

\* The rows rs of a transaction are those of its parties, one after another.
RowsArranged(o, rs, tx, sig, ps) ==
    /\ o \in [1 .. Len(ps) -> Nat]
    /\ \A i \in 1 .. Len(ps) : \A k \in 1 .. Keys(ps[i].account) :
          o[i] + k \in 1 .. Len(rs) /\ RowOf(rs[o[i] + k], tx, sig, ps[i], k)
    /\ \A j \in 1 .. Len(rs) :
          \E i \in 1 .. Len(ps) : \E k \in 1 .. Keys(ps[i].account) :
             j = o[i] + k /\ RowOf(rs[j], tx, sig, ps[i], k)

\* The rows of a signed transaction are arranged by the parties of its signature.
LEMMA RowsOfParties ==
  ASSUME NEW tx \in InputTransaction, NEW v, ~ GetSignaturesFails(tx), tx.type = "User"
  PROVE  \E sig \in tx.signature :
            /\ tx.signature = Some(sig) /\ sig \in Signature /\ ~ SignatureFails(sig)
            /\ \E o : RowsArranged(o, ExtractRecords(tx, v)["signatures"], tx, sig, PartiesOf(sig))
<1> DEFINE rs == OrNone(GetSignatures(tx, v))
<1>1. PICK sig \in tx.signature :
         /\ tx.signature = Some(sig) /\ sig \in Signature /\ ~ SignatureFails(sig)
         /\ Len(rs) = Len(FromSignature(sig))
         /\ \A j \in 1 .. Len(rs) : rs[j] = SignatureRecord(tx, v, FromSignature(sig)[j])
  BY SignatureTable
<1>2. rs = ExtractRecords(tx, v)["signatures"]
  BY DEF ExtractRecords, Table
<1> DEFINE sub == FromSignature(sig)
           ps == PartiesOf(sig)
<1>3. PICK o : Arranged(o, sub, sig, ps)
  BY <1>1, SignatureRows
<1> HIDE DEF rs, sub, ps
<1>4. /\ o \in [1 .. Len(ps) -> Nat]
      /\ \A i \in 1 .. Len(ps) : \A k \in 1 .. Keys(ps[i].account) :
            o[i] + k \in 1 .. Len(rs) /\ OfParty(sub[o[i] + k], sig, ps[i], k)
      /\ \A j \in 1 .. Len(rs) :
            \E i \in 1 .. Len(ps) : \E k \in 1 .. Keys(ps[i].account) : j = o[i] + k
  BY <1>1, <1>3 DEF Arranged, sub
<1>5. ASSUME NEW i \in 1 .. Len(ps), NEW k \in 1 .. Keys(ps[i].account)
      PROVE  o[i] + k \in 1 .. Len(rs) /\ RowOf(rs[o[i] + k], tx, sig, ps[i], k)
  <2>1. o[i] + k \in 1 .. Len(rs) /\ OfParty(sub[o[i] + k], sig, ps[i], k)
    BY <1>4
  <2>2. rs[o[i] + k] = SignatureRecord(tx, v, sub[o[i] + k])
    BY <1>1, <2>1 DEF sub
  <2> QED BY <2>1, <2>2, SubRecordRow
<1>6. RowsArranged(o, rs, tx, sig, ps)
  <2>1. ASSUME NEW j \in 1 .. Len(rs)
        PROVE  \E i \in 1 .. Len(ps) : \E k \in 1 .. Keys(ps[i].account) :
                  j = o[i] + k /\ RowOf(rs[j], tx, sig, ps[i], k)
    BY <1>4, <1>5
  <2> QED BY <1>4, <1>5, <2>1 DEF RowsArranged
<1> QED BY <1>1, <1>2, <1>6 DEF ps

\* The two flags of a row in the deduplication key say its role.
LEMMA SameRole ==
  ASSUME NEW sig, NEW tx, NEW r, NEW s, NEW p, NEW q, NEW j, NEW k,
         RowOf(r, tx, sig, p, j), RowOf(s, tx, sig, q, k),
         MayPlay(sig, p.role), MayPlay(sig, q.role),
         r.is_sender = s.is_sender, r.is_fee_payer = s.is_fee_payer
  PROVE  p.role = q.role
<1>1. \A a, b \in BOOLEAN : Some(a) = Some(b) => a = b
  BY DEF Some
<1>2. CASE sig.type \notin {"MultiAgent", "FeePayer"}
  BY <1>2 DEF MayPlay
<1>3. CASE sig.type \in {"MultiAgent", "FeePayer"}
  <2>1. (p.role = "sender") = (q.role = "sender")
    <3>1. r.is_sender = Some(p.role = "sender") /\ s.is_sender = Some(q.role = "sender")
      BY <1>3 DEF RowOf
    <3> QED BY <1>1, <3>1
  <2>2. CASE sig.type = "MultiAgent"
    BY <2>1, <2>2 DEF MayPlay
  <2>3. CASE sig.type = "FeePayer"
    <3>1. (p.role = "feepayer") = (q.role = "feepayer")
      <4>1. r.is_fee_payer = Some(p.role = "feepayer") /\ s.is_fee_payer = Some(q.role = "feepayer")
        BY <2>3 DEF RowOf
      <4> QED BY <1>1, <4>1
    <3> QED BY <2>1, <3>1, <2>3 DEF MayPlay
  <2> QED BY <1>3, <2>2, <2>3
<1> QED BY <1>2, <1>3

LEMMA SameSignatureKey ==
  ASSUME NEW r, NEW s, DedupeKey("signatures", r) = DedupeKey("signatures", s)
  PROVE  /\ r.public_key.value = s.public_key.value
         /\ r.public_key.index = s.public_key.index
         /\ r.signature = s.signature /\ r.signer = s.signer
         /\ r.is_sender = s.is_sender /\ r.is_fee_payer = s.is_fee_payer
BY DEF DedupeKey, ChangeTables

\* How a party signs, as Signers says it.
SignsAs(tx, p) ==
    [role |-> p.role, address |-> Encoded(IF p.role = "sender" THEN tx.sender ELSE p.address),
     account |-> p.account]

LEMMA RoleOfRow ==
  ASSUME NEW tx, NEW sig, NEW r, NEW p, NEW k, RowOf(r, tx, sig, p, k), MayPlay(sig, p.role)
  PROVE  /\ RoleOf(r) = p.role
         /\ r.is_sender # None => r.is_sender = Some(RoleOf(r) = "sender")
<1>1. /\ \A b \in BOOLEAN : Some(b) = Some(TRUE) => b
      /\ None # Some(TRUE)
  BY DEF Some, None
<1>2. CASE sig.type \notin {"MultiAgent", "FeePayer"}
  <2>1. r.is_sender = None /\ r.is_secondary = None /\ r.is_fee_payer = None
    BY <1>2 DEF RowOf
  <2> QED BY <1>1, <1>2, <2>1 DEF RoleOf, MayPlay
<1>3. CASE sig.type \in {"MultiAgent", "FeePayer"}
  <2>1. /\ r.is_sender = Some(p.role = "sender") /\ r.is_secondary = Some(p.role = "secondary")
        /\ r.is_fee_payer = IF sig.type = "FeePayer" THEN Some(p.role = "feepayer") ELSE None
    BY <1>3 DEF RowOf
  <2>2. r.is_secondary = Some(TRUE) <=> p.role = "secondary"
    BY <1>1, <2>1
  <2>3. r.is_fee_payer = Some(TRUE) <=> (sig.type = "FeePayer" /\ p.role = "feepayer")
    BY <1>1, <2>1
  <2>4. RoleOf(r) = p.role
    BY <1>3, <2>2, <2>3 DEF RoleOf, MayPlay
  <2> QED BY <2>1, <2>4
<1> QED BY <1>2, <1>3

\* The parties are the signers.
LEMMA SignersAreParties ==
  ASSUME NEW tx, NEW sig \in Signature, tx.signature = Some(sig), ~ SignatureFails(sig),
         WellSigned(sig)
  PROVE  /\ \A s \in Signers(tx) : \E i \in 1 .. Len(PartiesOf(sig)) :
               s = SignsAs(tx, PartiesOf(sig)[i])
         /\ \A i \in 1 .. Len(PartiesOf(sig)) : SignsAs(tx, PartiesOf(sig)[i]) \in Signers(tx)
<1> DEFINE ps == PartiesOf(sig)
           n == PairCount(sig)
           Senders == {[role |-> "sender", address |-> Encoded(tx.sender),
                        account |-> a] : a \in sig.sender}
           Payers == {[role |-> "feepayer", address |-> Encoded(sig.fee_payer_address),
                       account |-> a] : a \in sig.fee_payer}
           Seconds == {[role |-> "secondary", address |-> Encoded(sig.secondary_addresses[i]),
                        account |-> sig.secondary_signers[i]] :
                           i \in DOMAIN sig.secondary_signers}
<1>1. Signers(tx) = Senders \cup Payers \cup Seconds
  BY DEF Signers, Some
<1>2. DOMAIN sig.secondary_signers = 1 .. n
  <2>1. sig.secondary_signers \in Seq(AccountSignature)
    BY DEF Signature
  <2> QED BY <2>1, LenProperties DEF WellSigned, PairCount
<1>3. \A i : SignsAs(tx, SecondOf(sig, i))
               = [role |-> "secondary", address |-> Encoded(sig.secondary_addresses[i]),
                  account |-> sig.secondary_signers[i]]
  BY DEF SignsAs, SecondOf, Of
<1>4. /\ sig.sender # {} /\ \A a, b \in sig.sender : a = b
      /\ sig.type = "FeePayer" => sig.fee_payer # {}
      /\ \A a, b \in sig.fee_payer : a = b
  BY DEF SignatureFails, Signature, None, Option
<1>5. Senders = {SignsAs(tx, SenderOf(sig))}
  <2> DEFINE a == CHOOSE s \in sig.sender : TRUE
  <2>1. sig.sender = {a}
    BY <1>4
  <2>2. SenderOf(sig) = Of("sender", "none", a)
    BY DEF SenderOf
  <2> HIDE DEF a
  <2> QED BY <2>1, <2>2 DEF SignsAs, Of
<1>6. sig.type = "FeePayer" => Payers = {SignsAs(tx, PayerOf(sig))}
  <2> DEFINE a == CHOOSE s \in sig.fee_payer : TRUE
  <2>1. sig.type = "FeePayer" => sig.fee_payer = {a}
    BY <1>4
  <2>2. PayerOf(sig) = Of("feepayer", sig.fee_payer_address, a)
    BY DEF PayerOf
  <2> HIDE DEF a
  <2> QED BY <2>1, <2>2 DEF SignsAs, Of
<1>7. sig.type # "FeePayer" => Payers = {}
  BY DEF WellSigned, None
<1>8. Seconds = {SignsAs(tx, SecondOf(sig, i)) : i \in 1 .. n}
  BY <1>2, <1>3
<1>9. sig.type \notin {"MultiAgent", "FeePayer"} => Seconds = {}
  <2>1. DOMAIN <<>> = {}
    OBVIOUS
  <2> QED BY <2>1 DEF WellSigned
<1>10. n \in Nat
  BY SecondaryPairs
<1> HIDE DEF Senders, Payers, Seconds, n, ps
<1>11. CASE sig.type \notin {"MultiAgent", "FeePayer"}
  <2>1. Len(ps) = 1 /\ ps[1] = SenderOf(sig)
    BY <1>11, PartyPlaces DEF ps
  <2> QED BY <1>1, <1>5, <1>7, <1>9, <1>11, <2>1 DEF ps
<1>12. CASE sig.type = "MultiAgent"
  <2>1. /\ Len(ps) = n + 1 /\ ps[n + 1] = SenderOf(sig)
        /\ \A i \in 1 .. n : ps[i] = SecondOf(sig, i)
    BY <1>12, PartyPlaces DEF ps, n
  <2>2. Signers(tx) = {SignsAs(tx, ps[n + 1])} \cup {SignsAs(tx, ps[i]) : i \in 1 .. n}
    BY <1>1, <1>5, <1>7, <1>8, <1>12, <2>1
  <2>3. 1 .. Len(ps) = (1 .. n) \cup {n + 1}
    BY <1>10, <2>1
  <2> QED BY <2>2, <2>3 DEF ps
<1>13. CASE sig.type = "FeePayer"
  <2>1. /\ Len(ps) = n + 2 /\ ps[1] = SenderOf(sig) /\ ps[2] = PayerOf(sig)
        /\ \A i \in 1 .. n : ps[i + 2] = SecondOf(sig, i)
    BY <1>13, PartyPlaces DEF ps, n
  <2>2. Signers(tx) = {SignsAs(tx, ps[1]), SignsAs(tx, ps[2])}
                        \cup {SignsAs(tx, ps[i + 2]) : i \in 1 .. n}
    BY <1>1, <1>5, <1>6, <1>8, <1>13, <2>1
  <2>3. ASSUME NEW i \in 1 .. Len(ps) PROVE SignsAs(tx, ps[i]) \in Signers(tx)
    <3>1. CASE i \in {1, 2}
      BY <2>2, <3>1
    <3>2. CASE i \notin {1, 2}
      <4>1. i - 2 \in 1 .. n /\ i = (i - 2) + 2
        BY <1>10, <2>1, <3>2
      <4> QED BY <2>2, <4>1
    <3> QED BY <3>1, <3>2
  <2>4. ASSUME NEW s \in Signers(tx) PROVE \E i \in 1 .. Len(ps) : s = SignsAs(tx, ps[i])
    <3>1. 1 \in 1 .. Len(ps) /\ 2 \in 1 .. Len(ps) /\ \A i \in 1 .. n : i + 2 \in 1 .. Len(ps)
      BY <1>10, <2>1
    <3> QED BY <2>2, <3>1
  <2> QED BY <2>3, <2>4 DEF ps
<1> QED BY <1>11, <1>12, <1>13

\* The rows of two keys of one account have the same key only if these are twins.
LEMMA SameKeyOfAccount ==
  ASSUME NEW a \in AccountSignature, NEW k \in 1 .. Keys(a), NEW m \in 1 .. Keys(a), k # m,
         NEW r, r.public_key = KeyOf(a, k), r.signature = SignatureOf(a, k),
         NEW q, q.public_key = KeyOf(a, m), q.signature = SignatureOf(a, m),
         r.public_key.value = q.public_key.value, r.public_key.index = q.public_key.index,
         r.signature = q.signature, a.type # "Unspecified"
  PROVE  OfTwinKeys(a, r)
<1>1. Keys(a) \in Nat /\ DOMAIN a.public_keys = 1 .. Keys(a)
  BY AccountParts
<1>2. a.type \in {"MultiEd25519", "MultiKey"}
  BY <1>1, AccountParts DEF AccountSignatureType
<1>3. /\ KeyOf(a, k).value = a.public_keys[k] /\ KeyOf(a, m).value = a.public_keys[m]
      /\ KeyOf(a, k).index = KeyIndex(a, k) /\ KeyOf(a, m).index = KeyIndex(a, m)
  BY <1>2 DEF KeyOf, PublicKey
<1>4. a.type = "MultiKey"
  <2>1. ASSUME a.type = "MultiEd25519" PROVE FALSE
    <3>1. Some(k - 1) = Some(m - 1)
      BY <1>3, <2>1 DEF KeyIndex
    <3>2. k - 1 = m - 1
      BY <3>1 DEF Some
    <3> QED BY <3>2
  <2> QED BY <1>2, <2>1
<1>5. /\ a.public_keys[k] = r.public_key.value /\ SignatureOf(a, k) = r.signature
      /\ a.public_keys[m] = r.public_key.value /\ SignatureOf(a, m) = r.signature
  BY <1>3
<1> QED BY <1>1, <1>4, <1>5 DEF OfTwinKeys

\* Signature rows of a transaction have the same key only if they are of twin
\* keys, as no two of its signers have the same role and address.
LEMMA OnlyTwinsInSignatures ==
  ASSUME NEW tx \in InputTransaction, NEW v \in Nat, Convertible(tx, v, "signatures"),
         \A sig \in tx.signature : WellSigned(sig)
  PROVE  OnlyTwins("signatures", tx, ExtractRecords(tx, v)["signatures"])
<1> DEFINE rs == ExtractRecords(tx, v)["signatures"]
<1>0. "signatures" \in Table
  BY DEF Table
<1>1. rs \in Seq(Range(rs)) /\ ~ GetSignaturesFails(tx)
  BY <1>0, OneTransaction DEF Convertible
<1>2. Len(rs) \in Nat /\ DOMAIN rs = 1 .. Len(rs)
  BY <1>1, LenProperties
<1>3. CASE tx.type # "User"
  <2>1. rs = <<>>
    BY <1>3 DEF ExtractRecords, Table, GetSignatures, OrNone
  <2>2. DOMAIN <<>> = {}
    OBVIOUS
  <2> QED BY <2>1, <2>2 DEF OnlyTwins
<1>4. CASE tx.type = "User"
  <2>1. PICK sig \in tx.signature :
           /\ tx.signature = Some(sig) /\ sig \in Signature /\ ~ SignatureFails(sig)
           /\ \E o : RowsArranged(o, rs, tx, sig, PartiesOf(sig))
    BY <1>1, <1>4, RowsOfParties
  <2> DEFINE ps == PartiesOf(sig)
  <2>2. PICK o : RowsArranged(o, rs, tx, sig, ps)
    BY <2>1
  <2>3. WellSigned(sig)
    OBVIOUS
  <2>4. /\ \A i \in 1 .. Len(ps) : MayPlay(sig, ps[i].role)
        /\ \A i, j \in 1 .. Len(ps) :
              (/\ ps[i].role = ps[j].role
               /\ ps[i].role = "secondary" => Encoded(ps[i].address) = Encoded(ps[j].address))
                 => i = j
    BY <2>1, <2>3, PartiesDiffer
  <2>5. \A i \in 1 .. Len(ps) : SignsAs(tx, ps[i]) \in Signers(tx)
    BY <2>1, <2>3, SignersAreParties
  <2>6. ASSUME NEW i \in 1 .. Len(ps)
        PROVE  ps[i].account \in AccountSignature /\ ps[i].account.type # "Unspecified"
    <3>1. ps[i] \in Parties(sig)
      BY <2>1, PartiesType, ElementOfSeq
    <3> QED BY <3>1 DEF Parties, MayBeParty, Party, AccountSignatureFails
  <2> HIDE DEF ps, rs
  <2>7. ASSUME NEW x \in 1 .. Len(rs), NEW y \in 1 .. Len(rs),
               DedupeKey("signatures", rs[x]) = DedupeKey("signatures", rs[y])
        PROVE  x = y \/ TwinRow("signatures", tx, rs[x])
    <3>1. PICK i \in 1 .. Len(ps) : \E k \in 1 .. Keys(ps[i].account) :
             x = o[i] + k /\ RowOf(rs[x], tx, sig, ps[i], k)
      BY <2>2 DEF RowsArranged
    <3>2. PICK k \in 1 .. Keys(ps[i].account) : x = o[i] + k /\ RowOf(rs[x], tx, sig, ps[i], k)
      BY <3>1
    <3>3. PICK h \in 1 .. Len(ps) : \E m \in 1 .. Keys(ps[h].account) :
             y = o[h] + m /\ RowOf(rs[y], tx, sig, ps[h], m)
      BY <2>2 DEF RowsArranged
    <3>4. PICK m \in 1 .. Keys(ps[h].account) : y = o[h] + m /\ RowOf(rs[y], tx, sig, ps[h], m)
      BY <3>3
    <3>5. /\ rs[x].public_key.value = rs[y].public_key.value
          /\ rs[x].public_key.index = rs[y].public_key.index
          /\ rs[x].signature = rs[y].signature /\ rs[x].signer = rs[y].signer
          /\ rs[x].is_sender = rs[y].is_sender /\ rs[x].is_fee_payer = rs[y].is_fee_payer
      BY <2>7, SameSignatureKey
    <3>6. ps[i].role = ps[h].role
      BY <2>4, <3>2, <3>4, <3>5, SameRole, SMTT(20)
    <3>7. ps[i].role = "secondary" => Encoded(ps[i].address) = Encoded(ps[h].address)
      <4>1. /\ rs[x].signer = Encoded(IF ps[i].role = "sender" THEN tx.sender ELSE ps[i].address)
            /\ rs[y].signer = Encoded(IF ps[h].role = "sender" THEN tx.sender ELSE ps[h].address)
        BY <3>2, <3>4 DEF RowOf
      <4> QED BY <3>5, <3>6, <4>1
    <3>8. i = h
      BY <2>4, <3>6, <3>7
    <3>9. CASE k = m
      BY <3>2, <3>4, <3>8, <3>9
    <3>10. CASE k # m
      <4> DEFINE a == ps[i].account
      <4>1. a \in AccountSignature /\ a.type # "Unspecified"
        BY <2>6
      <4>2. /\ rs[x].public_key = KeyOf(a, k) /\ rs[x].signature = SignatureOf(a, k)
            /\ rs[y].public_key = KeyOf(a, m) /\ rs[y].signature = SignatureOf(a, m)
        BY <3>2, <3>4, <3>8 DEF RowOf
      <4>3. k \in 1 .. Keys(a) /\ m \in 1 .. Keys(a)
        BY <3>8
      <4>4. OfTwinKeys(a, rs[x])
        <5> HIDE DEF a
        <5> QED BY <3>5, <3>10, <4>1, <4>2, <4>3, SameKeyOfAccount
      <4>5. RoleOf(rs[x]) = ps[i].role
        BY <2>4, <3>2, RoleOfRow
      <4>6. rs[x].signer = Encoded(IF ps[i].role = "sender" THEN tx.sender ELSE ps[i].address)
        BY <3>2 DEF RowOf
      <4>7. /\ SignsAs(tx, ps[i]) \in Signers(tx)
            /\ SignsAs(tx, ps[i]).role = ps[i].role
            /\ SignsAs(tx, ps[i]).account = a
            /\ SignsAs(tx, ps[i]).address
                  = Encoded(IF ps[i].role = "sender" THEN tx.sender ELSE ps[i].address)
        BY <2>5 DEF SignsAs
      <4> QED BY <4>4, <4>5, <4>6, <4>7 DEF TwinRow
    <3> QED BY <3>9, <3>10
  <2> QED BY <1>2, <2>7 DEF OnlyTwins, rs
<1> QED BY <1>3, <1>4

\* Two rows of a range have one key of the nightly deduplication
\* (daily_dedupe_mainnet.py:33-42) only if they are signature rows of one
\* account, a MultiKey that lists a key twice and does not sign differently with
\* its copies, provided that signed transactions are signed as the VM demands.
THEOREM OnlyTwinsAreDeduplicated ==
  ASSUME \A tx \in Transaction : \A sig \in tx.signature : WellSigned(sig)
  PROVE  TransformationSpec => []OnlyTwinKeysCollide
<1>1. ASSUME TransformationInv, conversionPc \in {"extract", "publish"}, NEW t \in selected,
             NEW i \in DOMAIN records[t], NEW j \in DOMAIN records[t],
             DedupeKey(t, records[t][i]) = DedupeKey(t, records[t][j])
      PROVE  i = j \/ TwinRow(t, done[records[t][i].version], records[t][i])
  <2>1. t \in Table /\ AllConvertible(done, t)
    BY <1>1, TypedInv
  <2>2. records[t] = Rows(done, t)
    <3>1. records = RowsOfAll(selected, done)
      BY <1>1 DEF TransformationInv, BetweenTransactions, WithinTransaction,
                  GivenUp, InProgress
    <3> QED BY <3>1, <2>1, <1>1 DEF RowsOfAll
  <2>3. ASSUME NEW h \in 1 .. Len(done) PROVE OnlyTwins(t, done[h], Conversions(done, t)[h])
    <3>1. /\ Conversions(done, t)[h] = ExtractRecords(done[h], h)[t]
          /\ done[h] \in InputTransaction /\ h \in Nat /\ Convertible(done[h], h, t)
      BY <2>1, RowsByTransaction
    <3>2. CASE t # "signatures"
      <4>1. NoDuplicates(t, Conversions(done, t)[h])
        BY <2>1, <3>1, <3>2, NoDuplicatesInOne
      <4> QED BY <4>1 DEF NoDuplicates, OnlyTwins
    <3>3. CASE t = "signatures"
      <4>1. \A sig \in done[h].signature : WellSigned(sig)
        BY <2>1, ElementOfSeq DEF AllConvertible
      <4> QED BY <3>1, <3>3, <4>1, OnlyTwinsInSignatures
    <3> QED BY <3>2, <3>3
  <2> QED BY <1>1, <2>1, <2>2, <2>3, OnlyTwinsInRows
<1>2. TransformationInv => OnlyTwinKeysCollide
  BY <1>1 DEF OnlyTwinKeysCollide, TwinRow
<1> QED BY <1>2, TransformationInvariant, PTL

-----------------------------------------------------------------------------
(* Signatures: every signer has his rows *)

\* The rows of one signer in a list, and the signed ones.
SignerRows(rs, s) == {j \in DOMAIN rs : RoleOf(rs[j]) = s.role /\ rs[j].signer = s.address}

SignedRows(rs, s) == {j \in SignerRows(rs, s) : rs[j].signature # None}

\* The keys of an account that signed.
SigningKeys(a) == {k \in 1 .. Keys(a) : k - 1 \in Range(a.indices)}

\* Every signature of an account is of a key of its own.
LEMMA SigningKeysCounted ==
  ASSUME NEW a \in AccountSignature, ~ AccountSignatureFails(a),
         Range(a.indices) \subseteq 0 .. Keys(a) - 1
  PROVE  Cardinality(SigningKeys(a)) = Len(a.indices)
<1> DEFINE s == a.indices
           K == SigningKeys(a)
           f == [i \in 1 .. Len(s) |-> s[i] + 1]
<1>1. s \in Seq(Nat) /\ Keys(a) \in Nat
  BY AccountParts DEF AccountSignature
<1>2. Len(s) \in Nat /\ DOMAIN s = 1 .. Len(s) /\ \A i \in 1 .. Len(s) : s[i] \in Nat
  BY <1>1, LenProperties, ElementOfSeq
<1>3. \A i, j \in 1 .. Len(s) : s[i] = s[j] => i = j
  <2>1. CASE a.type \in {"MultiEd25519", "MultiKey"}
    BY <2>1, <1>2 DEF AccountSignatureFails, IndexRepeated, IsInjective
  <2>2. CASE a.type \notin {"MultiEd25519", "MultiKey"}
    <3>1. a.type \in {"Ed25519", "SingleKey", "Abstraction"}
      BY <2>2 DEF AccountSignature, AccountSignatureType, AccountSignatureFails
    <3>2. s = <<0>>
      BY <3>1 DEF AccountSignature
    <3>3. Len(s) = 1
      BY <3>2, SingleRow
    <3>4. \A i, j \in 1 .. 1 : i = j
      OBVIOUS
    <3> QED BY <3>3, <3>4
  <2> QED BY <2>1, <2>2
<1>4. \A i \in 1 .. Len(s) : s[i] \in Range(s)
  BY <1>2 DEF Range
<1> HIDE DEF s
<1>5. f \in [1 .. Len(s) -> K]
  <2>1. ASSUME NEW i \in 1 .. Len(s) PROVE s[i] + 1 \in K
    <3>1. s[i] \in Range(a.indices) /\ s[i] \in 0 .. Keys(a) - 1
      BY <1>4 DEF s
    <3>2. s[i] + 1 \in 1 .. Keys(a) /\ (s[i] + 1) - 1 = s[i]
      BY <1>1, <1>2, <3>1
    <3> QED BY <3>1, <3>2 DEF SigningKeys
  <2> QED BY <2>1
<1>6. \A x, y \in 1 .. Len(s) : f[x] = f[y] => x = y
  BY <1>2, <1>3
<1>7. ASSUME NEW z \in K PROVE \E x \in 1 .. Len(s) : f[x] = z
  <2>1. z \in 1 .. Keys(a) /\ z - 1 \in Range(s)
    BY DEF SigningKeys, s
  <2>2. PICK i \in 1 .. Len(s) : s[i] = z - 1
    BY <1>2, <2>1 DEF Range
  <2> QED BY <1>1, <2>1, <2>2
<1> HIDE DEF f, K
<1>8. IsFiniteSet(1 .. Len(s)) /\ Cardinality(1 .. Len(s)) = Len(s)
  BY <1>2, UpToIsFinite
<1>9. Cardinality(K) = Cardinality(1 .. Len(s))
  BY <1>5, <1>6, <1>7, <1>8, Counting
<1> QED BY <1>8, <1>9 DEF K, s

\* Rows that lie at fixed places behind an offset are as many as the places.
LEMMA OffsetCount ==
  ASSUME NEW n \in Nat, NEW K \in SUBSET (1 .. n), NEW d \in Nat, NEW J,
         \A j : j \in J <=> \E k \in K : j = d + k
  PROVE  Cardinality(J) = Cardinality(K)
<1> DEFINE f == [k \in K |-> d + k]
<1>1. f \in [K -> J]
  OBVIOUS
<1>2. \A x, y \in K : f[x] = f[y] => x = y
  OBVIOUS
<1>3. \A z \in J : \E x \in K : f[x] = z
  OBVIOUS
<1>4. IsFiniteSet(K)
  BY UpToIsFinite, FS_Subset
<1> HIDE DEF f
<1> QED BY <1>1, <1>2, <1>3, <1>4, Counting

\* Each signer has a row per key in the rows of a transaction, and as many
\* signed ones as signatures.
LEMMA RowsOfSigners ==
  ASSUME NEW tx, NEW sig \in Signature, ~ SignatureFails(sig), WellSigned(sig),
         NEW rs, DOMAIN rs = 1 .. Len(rs),
         NEW o, RowsArranged(o, rs, tx, sig, PartiesOf(sig)),
         NEW i \in 1 .. Len(PartiesOf(sig))
  PROVE  /\ Cardinality(SignerRows(rs, SignsAs(tx, PartiesOf(sig)[i])))
              = Keys(PartiesOf(sig)[i].account)
         /\ Cardinality(SignedRows(rs, SignsAs(tx, PartiesOf(sig)[i])))
              = Len(PartiesOf(sig)[i].account.indices)
<1> DEFINE ps == PartiesOf(sig)
           p == ps[i]
           a == p.account
           s == SignsAs(tx, p)
           J == SignerRows(rs, s)
<1>1. /\ o \in [1 .. Len(ps) -> Nat]
      /\ \A h \in 1 .. Len(ps) : \A k \in 1 .. Keys(ps[h].account) :
            o[h] + k \in 1 .. Len(rs) /\ RowOf(rs[o[h] + k], tx, sig, ps[h], k)
      /\ \A j \in 1 .. Len(rs) :
            \E h \in 1 .. Len(ps) : \E k \in 1 .. Keys(ps[h].account) :
               j = o[h] + k /\ RowOf(rs[j], tx, sig, ps[h], k)
  BY DEF RowsArranged
<1>2. /\ \A h \in 1 .. Len(ps) : MayPlay(sig, ps[h].role)
      /\ \A h, j \in 1 .. Len(ps) :
            (/\ ps[h].role = ps[j].role
             /\ ps[h].role = "secondary" => Encoded(ps[h].address) = Encoded(ps[j].address)) => h = j
  BY PartiesDiffer
<1>3. a \in AccountSignature /\ Keys(a) \in Nat /\ ~ AccountSignatureFails(a)
  <2>1. p \in Parties(sig)
    BY PartiesType, ElementOfSeq
  <2> QED BY <2>1, AccountParts DEF Parties, MayBeParty, Party
<1>4. Range(a.indices) \subseteq 0 .. Keys(a) - 1
  <2>1. a \in sig.sender \cup sig.fee_payer \cup Range(sig.secondary_signers)
    <3>1. sig.sender # {} /\ (sig.type = "FeePayer" => sig.fee_payer # {})
      BY DEF SignatureFails, None
    <3>2. SenderOf(sig).account \in sig.sender
      BY <3>1 DEF SenderOf, Of
    <3>3. sig.type = "FeePayer" => PayerOf(sig).account \in sig.fee_payer
      BY <3>1 DEF PayerOf, Of
    <3>4. \A h \in 1 .. PairCount(sig) :
             SecondOf(sig, h).account \in Range(sig.secondary_signers)
      BY SecondaryPairs DEF SecondOf, Of, Range
    <3>5. PairCount(sig) \in Nat
      BY SecondaryPairs
    <3>6. CASE sig.type \notin {"MultiAgent", "FeePayer"}
      BY <3>2, <3>6, PartyPlaces
    <3>7. CASE sig.type = "MultiAgent"
      <4>1. i = PairCount(sig) + 1 \/ i \in 1 .. PairCount(sig)
        BY <3>5, <3>7, PartyPlaces
      <4> QED BY <3>2, <3>4, <3>7, <4>1, PartyPlaces
    <3>8. CASE sig.type = "FeePayer"
      <4>1. i = 1 \/ i = 2 \/ (i - 2 \in 1 .. PairCount(sig) /\ i = (i - 2) + 2)
        BY <3>5, <3>8, PartyPlaces
      <4> QED BY <3>2, <3>3, <3>4, <3>8, <4>1, PartyPlaces
    <3> QED BY <3>6, <3>7, <3>8
  <2> QED BY <2>1 DEF WellSigned, Keys
<1> HIDE DEF ps
<1>5. s.role = p.role /\ s.address = Encoded(IF p.role = "sender" THEN tx.sender ELSE p.address)
  BY DEF SignsAs
<1> HIDE DEF s
<1>6. ASSUME NEW k \in 1 .. Keys(a) PROVE o[i] + k \in J
  <2>1. o[i] + k \in DOMAIN rs /\ RowOf(rs[o[i] + k], tx, sig, p, k)
    BY <1>1 DEF ps
  <2>2. RoleOf(rs[o[i] + k]) = p.role
    BY <1>2, <2>1, RoleOfRow DEF ps
  <2>3. rs[o[i] + k].signer = Encoded(IF p.role = "sender" THEN tx.sender ELSE p.address)
    BY <2>1 DEF RowOf
  <2> QED BY <1>5, <2>1, <2>2, <2>3 DEF SignerRows
<1>7. ASSUME NEW j \in J PROVE \E k \in 1 .. Keys(a) : j = o[i] + k
  <2>1. j \in 1 .. Len(rs) /\ RoleOf(rs[j]) = s.role /\ rs[j].signer = s.address
    BY DEF SignerRows
  <2>2. PICK h \in 1 .. Len(ps) : \E k \in 1 .. Keys(ps[h].account) :
           j = o[h] + k /\ RowOf(rs[j], tx, sig, ps[h], k)
    BY <1>1, <2>1
  <2>3. PICK k \in 1 .. Keys(ps[h].account) :
           j = o[h] + k /\ RowOf(rs[j], tx, sig, ps[h], k)
    BY <2>2
  <2>4. RoleOf(rs[j]) = ps[h].role
    BY <1>2, <2>3, RoleOfRow
  <2>5. rs[j].signer = Encoded(IF ps[h].role = "sender" THEN tx.sender ELSE ps[h].address)
    BY <2>3 DEF RowOf
  <2>6. h = i
    <3>1. ps[h].role = p.role
      BY <1>5, <2>1, <2>4
    <3>2. ps[h].role = "secondary" => Encoded(ps[h].address) = Encoded(p.address)
      BY <1>5, <2>1, <2>5, <3>1
    <3> QED BY <1>2, <3>1, <3>2 DEF ps
  <2> QED BY <2>3, <2>6
<1>8. o[i] \in Nat
  BY <1>1 DEF ps
<1>9. \A k \in 1 .. Keys(a) : rs[o[i] + k].signature # None <=> k \in SigningKeys(a)
  <2>1. \A k \in 1 .. Keys(a) : rs[o[i] + k].signature = SignatureOf(a, k)
    BY <1>1 DEF RowOf, ps
  <2>2. \A k \in 1 .. Keys(a) : SignatureOf(a, k) # None <=> k - 1 \in Range(a.indices)
    BY DEF SignatureOf, None, Range
  <2> QED BY <2>1, <2>2 DEF SigningKeys
<1> HIDE DEF p, a, J
<1>10. Cardinality(J) = Keys(a)
  <2> DEFINE K == 1 .. Keys(a)
  <2>1. K \in SUBSET (1 .. Keys(a)) /\ \A j : j \in J <=> \E k \in K : j = o[i] + k
    BY <1>6, <1>7
  <2> HIDE DEF K
  <2>2. Cardinality(J) = Cardinality(K)
    BY <1>3, <1>8, <2>1, OffsetCount
  <2> QED BY <2>2, <1>3, UpToIsFinite DEF K
<1>11. Cardinality(SignedRows(rs, s)) = Len(a.indices)
  <2>1. SigningKeys(a) \in SUBSET (1 .. Keys(a))
    BY DEF SigningKeys
  <2>2. \A j : j \in SignedRows(rs, s) <=> \E k \in SigningKeys(a) : j = o[i] + k
    BY <1>6, <1>7, <1>9, <2>1 DEF SignedRows, J
  <2>3. Cardinality(SignedRows(rs, s)) = Cardinality(SigningKeys(a))
    BY <1>3, <1>8, <2>1, <2>2, OffsetCount
  <2> QED BY <2>3, <1>3, <1>4, SigningKeysCounted
<1> QED BY <1>10, <1>11 DEF J, s, a, p, ps

\* The rows of a user transaction are, for each account that signs it, one for
\* each of its keys, under its address and role and the build type of the whole
\* signature, and as many of them are signed as there are signatures
\* (reps/signatures.rs), provided that it is signed as the VM demands.
THEOREM EverySignerHasItsRows ==
  ASSUME \A tx \in Transaction : \A sig \in tx.signature : WellSigned(sig)
  PROVE  TransformationSpec => []SignaturesAreAttributed
<1>1. ASSUME TransformationInv, conversionPc \in {"extract", "publish"},
             "signatures" \in selected, NEW i \in DOMAIN done, done[i].type = "User"
      PROVE  LET row == records["signatures"]
                 RowsOfSigner(s) == {k \in RowsOf(i, "signatures") :
                                       RoleOf(row[k]) = s.role /\ row[k].signer = s.address}
             IN  /\ \A k \in RowsOf(i, "signatures") :
                       /\ row[k].build_type \in {sig.type : sig \in done[i].signature}
                       /\ \E s \in Signers(done[i]) : k \in RowsOfSigner(s)
                       /\ (row[k].is_sender # None) =>
                             (row[k].is_sender = Some(RoleOf(row[k]) = "sender"))
                 /\ \A s \in Signers(done[i]) :
                       /\ Cardinality(RowsOfSigner(s)) = Len(s.account.public_keys)
                       /\ Cardinality({k \in RowsOfSigner(s) : row[k].signature # None})
                            = Len(s.account.indices)
  <2> DEFINE t == "signatures"
             tx == done[i]
             F == Rows(done, t)
             rs == ExtractRecords(tx, i)[t]
  <2>1. t \in Table /\ AllConvertible(done, t) /\ i \in 1 .. Len(done)
    BY <1>1, TypedInv, LenProperties
  <2>2. records[t] = F
    <3>1. records = RowsOfAll(selected, done)
      BY <1>1 DEF TransformationInv, BetweenTransactions, WithinTransaction,
                  GivenUp, InProgress
    <3> QED BY <3>1, <2>1, <1>1 DEF RowsOfAll
  <2>3. /\ tx \in InputTransaction /\ Convertible(tx, i, t) /\ i \in Nat
        /\ F \in Seq(Row(t)) /\ DOMAIN F = 1 .. Len(F)
        /\ Conversions(done, t)[i] = rs /\ rs \in Seq(Row(t)) /\ DOMAIN rs = 1 .. Len(rs)
    BY <2>1, RowsByTransaction
  <2>4. ~ GetSignaturesFails(tx) /\ \A sig \in tx.signature : WellSigned(sig)
    <3>1. tx \in Transaction
      BY <2>1, ElementOfSeq DEF AllConvertible
    <3> QED BY <2>3, <3>1 DEF Convertible
  <2>5. PICK sig \in tx.signature :
           /\ tx.signature = Some(sig) /\ sig \in Signature /\ ~ SignatureFails(sig)
           /\ \E o : RowsArranged(o, rs, tx, sig, PartiesOf(sig))
    BY <1>1, <2>3, <2>4, RowsOfParties
  <2> DEFINE ps == PartiesOf(sig)
  <2>6. PICK o : RowsArranged(o, rs, tx, sig, ps)
    BY <2>5
  <2>7. WellSigned(sig)
    BY <2>4
  <2>8. /\ \A s \in Signers(tx) : \E h \in 1 .. Len(ps) : s = SignsAs(tx, ps[h])
        /\ \A h \in 1 .. Len(ps) : SignsAs(tx, ps[h]) \in Signers(tx)
    BY <2>5, <2>7, SignersAreParties
  <2> HIDE DEF F, rs
  <2>9. ASSUME NEW k \in DOMAIN F, F[k].version = i
        PROVE  \E j \in 1 .. Len(rs) : F[k] = rs[j]
    <3>1. PICK q : RowsAt(q, done, t)
      BY <2>1, RowPlaces
    <3>2. PICK h \in 1 .. Len(done) : \E j \in 1 .. Len(Conversions(done, t)[h]) : k = q[h] + j
      BY <2>9, <3>1 DEF RowsAt, F
    <3>3. PICK j \in 1 .. Len(Conversions(done, t)[h]) : k = q[h] + j
      BY <3>2
    <3>4. F[k] = Conversions(done, t)[h][j] /\ Conversions(done, t)[h][j].version = h
      BY <3>1, <3>3 DEF RowsAt, F
    <3>5. h = i
      BY <2>9, <3>4
    <3> QED BY <2>3, <3>3, <3>4, <3>5
  <2>10. ASSUME NEW k \in DOMAIN F, F[k].version = i
         PROVE  /\ F[k].build_type = sig.type
                /\ \E s \in Signers(tx) : RoleOf(F[k]) = s.role /\ F[k].signer = s.address
                /\ F[k].is_sender # None => F[k].is_sender = Some(RoleOf(F[k]) = "sender")
    <3>1. PICK j \in 1 .. Len(rs) : F[k] = rs[j]
      BY <2>9, <2>10
    <3>2. PICK h \in 1 .. Len(ps) : \E m \in 1 .. Keys(ps[h].account) :
             j = o[h] + m /\ RowOf(rs[j], tx, sig, ps[h], m)
      BY <2>6 DEF RowsArranged
    <3>3. PICK m \in 1 .. Keys(ps[h].account) : RowOf(F[k], tx, sig, ps[h], m)
      BY <3>1, <3>2
    <3>4. MayPlay(sig, ps[h].role)
      BY <2>5, <2>7, PartiesDiffer
    <3>5. /\ RoleOf(F[k]) = ps[h].role
          /\ F[k].is_sender # None => F[k].is_sender = Some(RoleOf(F[k]) = "sender")
      BY <3>3, <3>4, RoleOfRow
    <3>6. F[k].build_type = sig.type
          /\ F[k].signer = Encoded(IF ps[h].role = "sender" THEN tx.sender ELSE ps[h].address)
      BY <3>3 DEF RowOf
    <3>7. /\ SignsAs(tx, ps[h]).role = ps[h].role
          /\ SignsAs(tx, ps[h]).address
               = Encoded(IF ps[h].role = "sender" THEN tx.sender ELSE ps[h].address)
      BY DEF SignsAs
    <3> QED BY <2>8, <3>5, <3>6, <3>7
  <2>11. ASSUME NEW s \in Signers(tx)
         PROVE  /\ Cardinality({k \in DOMAIN F : /\ F[k].version = i
                                   /\ RoleOf(F[k]) = s.role /\ F[k].signer = s.address})
                     = Keys(s.account)
                /\ Cardinality({k \in DOMAIN F : /\ F[k].version = i
                                   /\ RoleOf(F[k]) = s.role /\ F[k].signer = s.address
                                   /\ F[k].signature # None})
                     = Len(s.account.indices)
    <3>1. PICK h \in 1 .. Len(ps) : s = SignsAs(tx, ps[h])
      BY <2>8
    <3>2. s.account = ps[h].account
      BY <3>1 DEF SignsAs
    <3>3. /\ Cardinality(SignerRows(rs, s)) = Keys(s.account)
          /\ Cardinality(SignedRows(rs, s)) = Len(s.account.indices)
      BY <2>3, <2>5, <2>6, <2>7, <3>1, <3>2, RowsOfSigners
    <3> DEFINE Q == {r \in Row(t) : RoleOf(r) = s.role /\ r.signer = s.address}
               Z == {r \in Q : r.signature # None}
    <3>4. /\ \A k \in DOMAIN F : F[k] \in Row(t)
          /\ \A j \in DOMAIN rs : rs[j] \in Row(t)
      BY <2>3, ElementOfSeq
    <3> HIDE DEF Q, Z
    <3>5. /\ Cardinality(RowsIn(F, i, Q)) = Cardinality(Among(rs, Q))
          /\ Cardinality(RowsIn(F, i, Z)) = Cardinality(Among(rs, Z))
      BY <2>1, RowsOfOne DEF F, rs
    <3>6. Among(rs, Q) = SignerRows(rs, s) /\ Among(rs, Z) = SignedRows(rs, s)
      BY <3>4 DEF Among, SignerRows, SignedRows, Q, Z
    <3>7. /\ RowsIn(F, i, Q) = {k \in DOMAIN F : /\ F[k].version = i
                                   /\ RoleOf(F[k]) = s.role /\ F[k].signer = s.address}
          /\ RowsIn(F, i, Z) = {k \in DOMAIN F : /\ F[k].version = i
                                   /\ RoleOf(F[k]) = s.role /\ F[k].signer = s.address
                                   /\ F[k].signature # None}
      BY <3>4 DEF RowsIn, Q, Z
    <3> QED BY <3>3, <3>5, <3>6, <3>7
  <2>12. RowsOf(i, "signatures") = {k \in DOMAIN F : F[k].version = i}
    BY <2>2 DEF RowsOf
  <2> DEFINE SignerOf(s) == {k \in RowsOf(i, "signatures") :
                               RoleOf(F[k]) = s.role /\ F[k].signer = s.address}
  <2>13. \A s : /\ SignerOf(s) = {k \in DOMAIN F : /\ F[k].version = i
                                    /\ RoleOf(F[k]) = s.role /\ F[k].signer = s.address}
                /\ {k \in SignerOf(s) : F[k].signature # None}
                     = {k \in DOMAIN F : /\ F[k].version = i
                                    /\ RoleOf(F[k]) = s.role /\ F[k].signer = s.address
                                    /\ F[k].signature # None}
    BY <2>12
  <2>14. \A s \in Signers(tx) :
            /\ Cardinality(SignerOf(s)) = Keys(s.account)
            /\ Cardinality({k \in SignerOf(s) : F[k].signature # None}) = Len(s.account.indices)
    BY <2>11, <2>13
  <2>15. \A k \in RowsOf(i, "signatures") :
            /\ F[k].build_type \in {g.type : g \in tx.signature}
            /\ \E s \in Signers(tx) : k \in SignerOf(s)
            /\ F[k].is_sender # None => F[k].is_sender = Some(RoleOf(F[k]) = "sender")
    BY <2>5, <2>10, <2>12
  <2> QED BY <2>2, <2>14, <2>15 DEF Keys
<1>2. TransformationInv => SignaturesAreAttributed
  BY <1>1 DEF SignaturesAreAttributed
<1> QED BY <1>2, TransformationInvariant, PTL
=============================================================================
