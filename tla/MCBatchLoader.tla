--------------------------- MODULE MCBatchLoader ---------------------------
(* BatchLoader on small instances. *)
EXTENDS BatchLoader, TLC

\* Hour 1 has two rows, one of them in both of its objects: neighbouring ranges
\* share a version.  The second object may get hour 2's row instead of its own.
MCHourOf == 1 :> 1 @@ 2 :> 1 @@ 3 :> 2
MCDirectoryOf == "a" :> 1 @@ "b" :> 1 @@ "c" :> 2
MCUploads == "a" :> {{1}} @@ "b" :> {{1, 2}, {3}} @@ "c" :> {{3}}
=============================================================================
