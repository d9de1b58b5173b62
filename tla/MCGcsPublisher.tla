--------------------------- MODULE MCGcsPublisher ---------------------------
(* GcsPublisher on small instances. *)
EXTENDS GcsPublisher

\* The batches of up to n records over three half hours, in time order.
Ascending(n) ==
    {b \in UNION {[1 .. k -> 1 .. 3] : k \in 0 .. n} :
        \A r \in DOMAIN b : \A q \in 1 .. r : b[q] <= b[r]}

MCBatches == Ascending(4)
=============================================================================
