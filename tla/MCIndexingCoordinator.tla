------------------------ MODULE MCIndexingCoordinator ------------------------
(* IndexingCoordinator on small instances. *)
EXTENDS IndexingCoordinator
=============================================================================
