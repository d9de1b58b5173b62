---------------------------- MODULE RangeDelivery ----------------------------
(***************************************************************************)
(* What the extraction stage promises: the rows of a published range reach *)
(* every table before the range is settled, tables are filled in a fixed   *)
(* order, and no row comes from a range with a transaction that cannot be  *)
(* decoded.  The one way out is a range that is given up because the node  *)
(* ended its answer early.                                                 *)
(***************************************************************************)
EXTENDS IndexingRanges

CONSTANTS
    MessageId,    \* identities of Pub/Sub messages
    TableCount,   \* number of tables a range is published to
    Undecodable   \* versions whose transaction cannot be turned into records

VARIABLES
    sent,      \* the range messages published so far
    settled,   \* the messages that will not be delivered again
    rows,      \* the versions each table has the rows of
    givenUp    \* the messages a worker read only in part, yet reported done

vars == <<sent, settled, rows, givenUp>>

Table == 1 .. TableCount
Message == [id : MessageId, start : Version, end : Version]

Decodable(m) == Versions(m) \cap Undecodable = {}
Complete(m) == \A t \in Table : Versions(m) \subseteq rows[t]

Init ==
    /\ sent = {}
    /\ settled = {}
    /\ rows = [t \in Table |-> {}]
    /\ givenUp = {}

Send ==
    \E m \in Message :
        /\ m \notin sent
        /\ sent' = sent \cup {m}
        /\ UNCHANGED <<settled, rows, givenUp>>

\* The rows of one version of a range reach a table, never before they have
\* reached the table in front of it.
WriteRow ==
    \E m \in sent, t \in Table : \E v \in Versions(m) :
        /\ Decodable(m)
        /\ t = 1 \/ v \in rows[t - 1]
        /\ rows' = [rows EXCEPT ![t] = @ \cup {v}]
        /\ UNCHANGED <<sent, settled, givenUp>>

GiveUp ==
    \E m \in sent :
        /\ givenUp' = givenUp \cup {m}
        /\ UNCHANGED <<sent, settled, rows>>

Settle ==
    \E m \in sent :
        /\ Complete(m) \/ m \in givenUp
        /\ settled' = settled \cup {m}
        /\ UNCHANGED <<sent, rows, givenUp>>

Next == Send \/ WriteRow \/ GiveUp \/ Settle

Spec == Init /\ [][Next]_vars
=============================================================================
