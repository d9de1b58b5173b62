-------------------------- MODULE MCRangeExtraction --------------------------
(* RangeExtraction on small instances. *)
EXTENDS RangeExtraction

\* Two neighbours as the coordinator cuts them: they share version 1.
MCInbox == {[id |-> 1, start |-> 0, end |-> 1],
            [id |-> 2, start |-> 1, end |-> 2]}

\* A range of one version, as a backfill publishes it, and a longer one.
MCInboxBackfill == {[id |-> 1, start |-> 0, end |-> 0],
                    [id |-> 2, start |-> 1, end |-> 2]}
=============================================================================
