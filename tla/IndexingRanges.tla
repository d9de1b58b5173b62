--------------------------- MODULE IndexingRanges ---------------------------
(***************************************************************************)
(* The vocabulary the pipeline's processes share: transaction versions and *)
(* the IndexingRange message by which the indexing coordinator hands a     *)
(* slice of the chain to the extractors.                                   *)
(***************************************************************************)
EXTENDS Integers

CONSTANT MaxVersion   \* bound: the last transaction version of the chain

ASSUME MaxVersionAssumption == MaxVersion \in Nat

Version == 0 .. MaxVersion

\* The protobuf message; its optional table selection is never set by the
\* publishers under src/, so it stands for all tables and is left out.
IndexingRange == [start : Version, end : Version]

\* What an extractor makes of a range: both bounds are included.
Versions(r) == r.start .. r.end

Covered(ranges) == UNION {Versions(r) : r \in ranges}

\* S contains every version from genesis up to and including v.
HasPrefix(S, v) == 0 .. v \subseteq S
=============================================================================
