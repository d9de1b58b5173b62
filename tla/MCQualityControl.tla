-------------------------- MODULE MCQualityControl --------------------------
(* QualityControl on small instances. *)
EXTENDS QualityControl

\* Day 0's window includes the midnights before and after it.
MCStamp == 0 :> 0 @@ 1 :> 0 @@ 2 :> 1 @@ 3 :> 1 @@ 4 :> 2
MCBlockOf == 0 :> 0 @@ 1 :> 0 @@ 2 :> 0 @@ 3 :> 0 @@ 4 :> 1

\* Version 0 is signed by an account of three keys, two of which are the same and
\* sign neither: their rows are twins.
MCExpected ==
    "transactions" :> [v \in 0 .. 4 |-> 1]
    @@ "signatures" :> [v \in 0 .. 4 |-> IF v = 0 THEN 3 ELSE 0]
MCSignatureKey == [v \in 0 .. 4 |-> IF v = 0 THEN <<"unsigned", "signed", "unsigned">> ELSE <<>>]

\* With a block row about the first version of each block.
MCStampOneDay == 0 :> 1 @@ 1 :> 1
MCBlockOfOneDay == 0 :> 0 @@ 1 :> 0
MCExpectedBlocks ==
    "transactions" :> [v \in 0 .. 1 |-> 1]
    @@ "blocks" :> [v \in 0 .. 1 |-> IF v = 0 THEN 1 ELSE 0]
    @@ "events" :> [v \in 0 .. 1 |-> v]
MCNoSignatures == [v \in 0 .. 1 |-> <<>>]
=============================================================================
