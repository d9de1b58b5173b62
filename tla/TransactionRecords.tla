------------------------- MODULE TransactionRecords -------------------------
(***************************************************************************)
(* What one transaction becomes in each of the eight tables:               *)
(* TransactionExtraction (processing/reps/transaction/), the changes       *)
(* (reps/changes.rs), the get_* functions of processing/tables/, and       *)
(* extract_records of tables/all.rs.                                       *)
(***************************************************************************)
EXTENDS SignatureRecords, PayloadRecords

(***************************************************************************)
(* Input.  A transaction has                                               *)
(*   type, whole        its type; whether timestamp, info and data are     *)
(*                      there and the data is that of the type             *)
(*   success            what the VM made of it                             *)
(*   request, sender, signature, expiration                                *)
(*                      of a user transaction (signature is an Option)     *)
(*   payload            of a user or genesis transaction (an Option)       *)
(*   proposer           of a block metadata transaction                    *)
(*   events, changes    sequences                                          *)
(***************************************************************************)
TransactionType == {"User", "Genesis", "BlockMetadata", "StateCheckpoint",
                    "Validator", "BlockEpilogue", "Unspecified"}

\* "old": before the year 1900, or out of chrono's range; "broken": negative
\* nanoseconds, or none given.
ExpirationState == {"good", "late", "old", "broken"}

WriteSetChangeType == {"WriteModule", "DeleteModule", "WriteResource",
                       "DeleteResource", "WriteTableItem", "DeleteTableItem"}

\* An event: the address of its key, its Move type (Options), and whether its
\* data is JSON.
Event == [key : Option(Address), type : Option(MoveType), json : BOOLEAN]

\* A change: its type, the type of the data it carries (an Option), the address,
\* whether a table item has its data and a written module its bytecode, and
\* Options of the struct tag of a resource and of the ABI of a module.
Change == [type : WriteSetChangeType \cup {"Unspecified"},
           data : Option(WriteSetChangeType),
           address : Address,
           whole : BOOLEAN,
           struct_tag : Option(StructTag),
           abi : Option(MoveModule)]

InputTransaction ==
    [type : TransactionType, whole : BOOLEAN, success : BOOLEAN,
     request : BOOLEAN, sender : Address, signature : Option(Signature),
     payload : Option(Payload), proposer : Address, expiration : ExpirationState,
     events : Seq(Event), changes : Seq(Change)]

Table == {"transactions", "changes", "modules", "table_items", "resources",
          "blocks", "events", "signatures"}

-----------------------------------------------------------------------------
(* TransactionExtraction *)

IncompleteChangeRecordFails(c) ==
    \/ c.data # Some(c.type)
    \/ c.type \in {"WriteTableItem", "DeleteTableItem", "WriteModule"} /\ ~ c.whole
    \/ /\ c.type \in {"WriteResource", "DeleteResource"}
       /\ \E tag \in c.struct_tag : StructTagDecodeFails(tag)

TransactionExtractionFails(tx) ==
    \/ tx.type = "Unspecified"
    \/ ~ tx.whole
    \/ \E i \in DOMAIN tx.changes : IncompleteChangeRecordFails(tx.changes[i])

\* Every accessor of a field of the request fails on a user transaction
\* without one, and gives None for the other types.
RequestFails(tx) == tx.type = "User" /\ ~ tx.request

\* TxDataExtract::events
Events(tx) == IF tx.type \in {"StateCheckpoint", "BlockEpilogue"}
              THEN None ELSE Some(tx.events)

-----------------------------------------------------------------------------
(* get_block, get_events *)

GetBlockFails(tx) == tx.type = "BlockMetadata" /\ AddressFails(tx.proposer)

GetBlock(tx, version) ==
    IF tx.type = "BlockMetadata" THEN << [version |-> version] >> ELSE <<>>

\* The key is looked at first, then the type, then the JSON.
EventExtractionFails(e) ==
    e.key = None \/ e.type = None \/ \E m \in e.type : DecodeFails(m)

\* JSON that does not parse is not an error but a panic.
EventExtractionPanics(e) == ~ EventExtractionFails(e) /\ ~ e.json

\* The first event that does not convert decides; the sequence number is
\* asked for after its conversion, and again for each event, then the address
\* is encoded.
FirstBadEvent(tx) ==
    LET bad == {i \in DOMAIN tx.events :
                  \/ EventExtractionFails(tx.events[i])
                  \/ EventExtractionPanics(tx.events[i])
                  \/ RequestFails(tx)
                  \/ \E a \in tx.events[i].key : AddressFails(a)}
    IN  {i \in bad : \A j \in bad : i <= j}

GetEventsPanics(tx) ==
    \E events \in Events(tx), i \in FirstBadEvent(tx) :
        EventExtractionPanics(events[i])

GetEventsFails(tx) ==
    \E events \in Events(tx), i \in FirstBadEvent(tx) :
        ~ EventExtractionPanics(events[i])

GetEvents(tx, version) ==
    IF Events(tx) = None THEN <<>>
    ELSE [i \in DOMAIN tx.events |-> [version |-> version, event_index |-> i - 1]]

-----------------------------------------------------------------------------
(* get_changes *)

\* The table of the derived record of a change.
DetailTable(type) ==
    CASE type \in {"WriteModule", "DeleteModule"} -> "modules"
      [] type \in {"WriteResource", "DeleteResource"} -> "resources"
      [] type \in {"WriteTableItem", "DeleteTableItem"} -> "table_items"

ChangeFails(c) ==
    \/ AddressFails(c.address)
    \/ c.type = "WriteModule" /\ \E abi \in c.abi : ModuleFails(abi)
    \/ /\ c.type \in {"WriteResource", "DeleteResource"}
       /\ \E tag \in c.struct_tag : StructTagEncodeFails(tag)

GetChangesFails(tx) ==
    RequestFails(tx) \/ \E i \in DOMAIN tx.changes : ChangeFails(tx.changes[i])

ChangeRecord(tx, version, i) ==
    [version |-> version, change_index |-> i - 1,
     change_type |-> tx.changes[i].type]

\* Mutant: a detail is numbered within its own table.
DetailsNumberedPerTable(tx, version, table) ==
    LET of == {i \in DOMAIN tx.changes : DetailTable(tx.changes[i].type) = table}
        Numbered(i) == [ChangeRecord(tx, version, i)
                          EXCEPT !.change_index = Cardinality({j \in of : j < i})]
    IN  FlattenSeq([i \in DOMAIN tx.changes |->
                       IF i \in of THEN << Numbered(i) >> ELSE <<>>])

\* The records of the changes' details that belong to one table.
Details(tx, version, table) ==
    FlattenSeq([i \in DOMAIN tx.changes |->
                   IF DetailTable(tx.changes[i].type) = table
                   THEN << ChangeRecord(tx, version, i) >> ELSE <<>>])

GetChanges(tx, version) ==
    [table \in {"changes", "modules", "resources", "table_items"} |->
        IF table = "changes"
        THEN [i \in DOMAIN tx.changes |-> ChangeRecord(tx, version, i)]
        ELSE Details(tx, version, table)]

\* Mutant: deletions of table items are forgotten.
AggregateWithoutDeletedItems(tx) ==
    [type \in WriteSetChangeType \cup {"total"} |->
        IF type = "total" THEN Len(tx.changes)
        ELSE IF type = "DeleteTableItem" THEN 0
        ELSE Cardinality({i \in DOMAIN tx.changes : tx.changes[i].type = type})]

CalculateChangesAggregate(tx) ==
    [type \in WriteSetChangeType \cup {"total"} |->
        IF type = "total" THEN Len(tx.changes)
        ELSE Cardinality({i \in DOMAIN tx.changes : tx.changes[i].type = type})]

-----------------------------------------------------------------------------
(* get_transactions *)

GetSuccessfulTransactionFails(tx, sig_cnt) ==
    \/ RequestFails(tx)
    \/ PayloadFails(tx)
    \/ HasPayload(tx) /\ \E p \in tx.payload : TryEncodeFails(p)
    \/ tx.type = "User" /\ AddressFails(tx.sender)
    \/ tx.type = "User" /\ tx.expiration = "broken"
    \/ tx.type = "User" /\ sig_cnt = None

\* A failed transaction keeps its record although the payload or the sender's
\* address does not convert; a missing signature count stays missing.
GetFailedTransactionFails(tx) ==
    \/ RequestFails(tx)
    \/ tx.type = "User" /\ tx.expiration = "broken"

GetTransactionsFails(tx, sig_cnt) ==
    IF tx.success THEN GetSuccessfulTransactionFails(tx, sig_cnt)
                  ELSE GetFailedTransactionFails(tx)

\* The formatted expiration is clamped at the largest timestamp of BigQuery;
\* one before its smallest is left blank only if the transaction succeeded.
ExpirationTimestamp(tx) ==
    IF tx.type # "User" THEN None
    ELSE IF tx.expiration = "good" THEN Some("formatted")
    ELSE IF tx.expiration = "old" /\ tx.success THEN None
    ELSE Some("maximum")

Sender(tx) ==
    IF tx.type = "User" /\ ~ AddressFails(tx.sender)
    THEN Some(Encoded(tx.sender)) ELSE None

NumSignatures(tx, sig_cnt) ==
    IF tx.success /\ tx.type # "User" THEN None ELSE sig_cnt

NumEvents(tx) == {Len(e) : e \in Events(tx)}

GetTransactions(tx, version, sig_cnt) ==
    [version |-> version,
     tx_type |-> tx.type,
     success |-> tx.success,
     sender |-> Sender(tx),
     num_changes |-> CalculateChangesAggregate(tx),
     num_events |-> NumEvents(tx),
     num_signatures |-> NumSignatures(tx, sig_cnt),
     expiration_timestamp |-> ExpirationTimestamp(tx),
     payload |-> {p.kind : p \in {q \in tx.payload : ~ TryEncodeFails(q)}}]

-----------------------------------------------------------------------------
(* extract_records: all tables at once, in another order *)

ExtractRecordsFails(tx, version) ==
    \/ TransactionExtractionFails(tx)
    \/ GetChangesFails(tx)
    \/ GetEventsFails(tx)
    \/ GetEventsPanics(tx)
    \/ GetBlockFails(tx)
    \/ GetSignaturesFails(tx)
    \/ GetTransactionsFails(tx, {Len(s) : s \in GetSignatures(tx, version)})

ExtractRecords(tx, version) ==
    LET sigs == GetSignatures(tx, version)
        sig_cnt == {Len(s) : s \in sigs}
    IN  [table \in Table |->
          CASE table = "blocks" -> GetBlock(tx, version)
            [] table = "events" -> GetEvents(tx, version)
            [] table = "signatures" -> OrNone(sigs)
            [] table = "transactions" ->
                 << GetTransactions(tx, version, sig_cnt) >>
            [] OTHER -> GetChanges(tx, version)[table]]
=============================================================================
