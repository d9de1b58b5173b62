------------------------- MODULE MCRecordPublisher -------------------------
(* RecordPublisher on small instances. *)
EXTENDS RecordPublisher
=============================================================================
