---------------------------- MODULE VersionFeed ----------------------------
(***************************************************************************)
(* What the indexing coordinator promises the rest of the pipeline: the    *)
(* versions it has dealt with always form a prefix of the chain, and that  *)
(* prefix only grows.  It never runs ahead and leaves a hole behind it,    *)
(* whatever restarts it goes through.                                      *)
(***************************************************************************)
EXTENDS IndexingRanges

VARIABLE handled    \* the versions dealt with so far

Init == handled = {}

Extend ==
    \E v \in Version :
        /\ handled \subseteq 0 .. v
        /\ handled' = 0 .. v

Spec == Init /\ [][Extend]_handled
=============================================================================
