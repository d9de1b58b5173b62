------------------------------ MODULE Options ------------------------------
(* Values that may be missing: an Option is a set of at most one element. *)

Some(v) == {v}
None == {}

Option(S) == {o \in SUBSET S : \A u, v \in o : u = v}

\* The records of an Option of records.
OrNone(records) == IF records = None THEN <<>> ELSE CHOOSE rs \in records : TRUE
=============================================================================
