--------------------------- MODULE Transformation ---------------------------
(***************************************************************************)
(* The conversion loop of extract_range                                    *)
(* (extractor_transformer/src/aptos_config/mod.rs:701-901): transaction    *)
(* after transaction, table after table, the records of the tables a       *)
(* message selects are accumulated, with a list of timestamps beside each  *)
(* list of records.  What a transaction becomes in each table is in        *)
(* TransactionRecords; reading the stream and publishing are in            *)
(* RangeExtraction.                                                        *)
(*                                                                         *)
(* The i-th transaction of the range has version i; all records of a       *)
(* transaction have its timestamp, so its version stands for that too.     *)
(***************************************************************************)
EXTENDS TransactionRecords

CONSTANTS
    Transaction,   \* the transactions the node may send
    Selection,     \* the sets of tables a message may select
    RangeLength    \* number of versions in the range

ASSUME TransactionAssumption == Transaction \subseteq InputTransaction
ASSUME SelectionAssumption == \A s \in Selection : s \subseteq Table
ASSUME RangeLengthAssumption == RangeLength \in Nat \ {0}

VARIABLES
    selected,    \* table_options
    conversionPc, \* the table whose records are made next, or how it ended
    current,     \* the transaction at hand (an Option)
    done,        \* the transactions converted so far
    sigCnt,      \* sig_cnt
    records,     \* all_*_records, by table
    timestamps   \* all_*_timestamps, by table

transformationVars ==
    <<selected, conversionPc, current, done, sigCnt, records, timestamps>>

version == Len(done) + 1

TransformationInit ==
    /\ selected \in Selection
    /\ conversionPc = "extract"
    /\ current = None
    /\ done = <<>>
    /\ sigCnt = None
    /\ records = [t \in Table |-> <<>>]
    /\ timestamps = [t \in Table |-> <<>>]

Stamps(rs) == [i \in DOMAIN rs |-> rs[i].version]

\* Records are made for the tables in `tables`; those of selected ones stay.
Add(tables, rs) ==
    /\ records' = [t \in Table |-> IF t \in tables \cap selected
                                   THEN records[t] \o rs[t] ELSE records[t]]
    /\ timestamps' = [t \in Table |-> IF t \in tables \cap selected
                                      THEN timestamps[t] \o Stamps(rs[t])
                                      ELSE timestamps[t]]

-----------------------------------------------------------------------------

\* TransactionExtraction::try_from
ExtractTransaction(tx) ==
    /\ conversionPc = "extract"
    /\ current' = Some(tx)
    /\ sigCnt' = None
    /\ conversionPc' = IF TransactionExtractionFails(tx)
                       THEN "failed" ELSE "signatures"
    /\ UNCHANGED <<selected, done, records, timestamps>>

\* Mutant: signatures are looked at only if their table is selected.
MakeSignaturesIfSelected(tx) ==
    /\ conversionPc = "signatures"
    /\ IF "signatures" \notin selected
       THEN /\ conversionPc' = "blocks"
            /\ UNCHANGED <<sigCnt, records, timestamps>>
       ELSE IF GetSignaturesFails(tx)
       THEN /\ conversionPc' = "failed"
            /\ UNCHANGED <<sigCnt, records, timestamps>>
       ELSE /\ conversionPc' = "blocks"
            /\ sigCnt' = {Len(s) : s \in GetSignatures(tx, version)}
            /\ Add({"signatures"},
                   [t \in Table |-> OrNone(GetSignatures(tx, version))])
    /\ UNCHANGED <<selected, current, done>>

\* The transactions table needs the number of signatures.
MakeSignatures(tx) ==
    /\ conversionPc = "signatures"
    /\ IF selected \cap {"signatures", "transactions"} = {}
       THEN /\ conversionPc' = "blocks"
            /\ UNCHANGED <<sigCnt, records, timestamps>>
       ELSE IF GetSignaturesFails(tx)
       THEN /\ conversionPc' = "failed"
            /\ UNCHANGED <<sigCnt, records, timestamps>>
       ELSE /\ conversionPc' = "blocks"
            /\ sigCnt' = {Len(s) : s \in GetSignatures(tx, version)}
            /\ Add({"signatures"},
                   [t \in Table |-> OrNone(GetSignatures(tx, version))])
    /\ UNCHANGED <<selected, current, done>>

MakeBlock(tx) ==
    /\ conversionPc = "blocks"
    /\ IF "blocks" \in selected /\ GetBlockFails(tx)
       THEN /\ conversionPc' = "failed"
            /\ UNCHANGED <<records, timestamps>>
       ELSE /\ conversionPc' = "transactions"
            /\ Add({"blocks"}, [t \in Table |-> GetBlock(tx, version)])
    /\ UNCHANGED <<selected, current, done, sigCnt>>

MakeTransaction(tx) ==
    /\ conversionPc = "transactions"
    /\ IF "transactions" \in selected /\ GetTransactionsFails(tx, sigCnt)
       THEN /\ conversionPc' = "failed"
            /\ UNCHANGED <<records, timestamps>>
       ELSE /\ conversionPc' = "events"
            /\ Add({"transactions"},
                   [t \in Table |-> << GetTransactions(tx, version, sigCnt) >>])
    /\ UNCHANGED <<selected, current, done, sigCnt>>

MakeEvents(tx) ==
    /\ conversionPc = "events"
    /\ IF "events" \in selected /\ (GetEventsPanics(tx) \/ GetEventsFails(tx))
       THEN /\ conversionPc' = IF GetEventsPanics(tx) THEN "panicked" ELSE "failed"
            /\ UNCHANGED <<records, timestamps>>
       ELSE /\ conversionPc' = "changes"
            /\ Add({"events"}, [t \in Table |-> GetEvents(tx, version)])
    /\ UNCHANGED <<selected, current, done, sigCnt>>

ChangeTables == {"changes", "modules", "resources", "table_items"}

\* The transaction is complete; the loop ends behind the last version.
EndTransaction(tx) ==
    /\ done' = Append(done, tx)
    /\ conversionPc' = IF version = RangeLength THEN "publish" ELSE "extract"
    /\ current' = None

\* Mutant: the timestamps of details are kept whether or not their table is
\* selected.
MakeChangesStampsAll(tx) ==
    /\ conversionPc = "changes"
    /\ IF selected \cap ChangeTables # {} /\ GetChangesFails(tx)
       THEN /\ conversionPc' = "failed"
            /\ UNCHANGED <<current, done, records, timestamps>>
       ELSE /\ EndTransaction(tx)
            /\ records' = [t \in Table |->
                  IF t \in ChangeTables \cap selected
                  THEN records[t] \o GetChanges(tx, version)[t] ELSE records[t]]
            /\ timestamps' = [t \in Table |->
                  IF t \in ChangeTables
                  THEN timestamps[t] \o Stamps(GetChanges(tx, version)[t])
                  ELSE timestamps[t]]
    /\ UNCHANGED <<selected, sigCnt>>

MakeChanges(tx) ==
    /\ conversionPc = "changes"
    /\ IF selected \cap ChangeTables # {} /\ GetChangesFails(tx)
       THEN /\ conversionPc' = "failed"
            /\ UNCHANGED <<current, done, records, timestamps>>
       ELSE /\ EndTransaction(tx)
            /\ Add(ChangeTables, GetChanges(tx, version))
    /\ UNCHANGED <<selected, sigCnt>>

TransformationNext ==
    \/ \E tx \in Transaction : ExtractTransaction(tx)
    \/ \E tx \in current :
         \/ MakeSignatures(tx)
         \/ MakeBlock(tx)
         \/ MakeTransaction(tx)
         \/ MakeEvents(tx)
         \/ MakeChanges(tx)

TransformationSpec == TransformationInit /\ [][TransformationNext]_transformationVars

-----------------------------------------------------------------------------
(* Properties *)

\* Each list of timestamps names, position by position, the transactions of
\* its list of records; publish_records of the bucket publisher asserts equal
\* lengths (gcs.rs:68) and cuts both at the same positions.
TimestampsAreParallel ==
    \A t \in Table : timestamps[t] = Stamps(records[t])

\* What a selected table gets does not depend on which other tables are
\* selected: it is what extract_records (tables/all.rs) makes of the same
\* transactions for all tables at once, in another order.  The loop fails on
\* no transaction that extract_records converts, and on each it does not if
\* all tables are selected.
TablesAreIndependent ==
    /\ conversionPc \in {"extract", "publish"} =>
          \A t \in selected :
            records[t] = FlattenSeq([i \in DOMAIN done |->
                                        ExtractRecords(done[i], i)[t]])
    /\ conversionPc \in {"failed", "panicked"} =>
          \A tx \in current : ExtractRecordsFails(tx, version)
    /\ selected = Table =>
          \A i \in DOMAIN done : ~ ExtractRecordsFails(done[i], i)

\* A transaction the node vouches for: complete, signed in a known way, and
\* with a payload if it succeeded; no user writes the state directly.
WellFormedAddress(a) == a.hex /\ a.digits # "more"

WellFormedAccount(a) ==
    /\ a.whole /\ a.type # "Unspecified"
    /\ Len(a.signatures) = Len(a.indices) /\ IsInjective(a.indices)

WellFormedSignature(sig) ==
    /\ sig.type # "Unspecified"
    /\ sig.sender # None
    /\ (sig.type = "FeePayer") =>
          (sig.fee_payer # None /\ WellFormedAddress(sig.fee_payer_address))
    /\ \A x \in Range(sig.secondary_addresses) : WellFormedAddress(x)
    /\ \A a \in sig.sender \cup sig.fee_payer \cup Range(sig.secondary_signers) :
          WellFormedAccount(a)

\* Every type carries what it must, down to the leaves.
WellFormedNode(n) ==
    /\ n.type # "unknown"
    /\ (n.content # {}) = (n.type \in Content)
    /\ \A c \in n.content : c.of = n.type /\ c.sound

WellFormedType(m) == \A n \in {m.top} \cup m.nested : WellFormedNode(n)

WellFormedTag(tag) ==
    WellFormedAddress(tag.address) /\ \A m \in tag.generic_type_params : WellFormedType(m)

WellFormedFunction(f) ==
    /\ "Unspecified" \notin {f.visibility} \cup f.constraints
    /\ \A m \in f.params \cup f.return : WellFormedType(m)

WellFormedStruct(s) ==
    /\ "Unspecified" \notin s.abilities \cup s.constraints
    /\ \A field \in s.fields : field # None /\ \A m \in field : WellFormedType(m)

WellFormedModule(abi) ==
    /\ \A a \in abi.friends : WellFormedAddress(a)
    /\ \A f \in abi.exposed_functions : WellFormedFunction(f)
    /\ \A s \in abi.structs : WellFormedStruct(s)

\* Only what a payload of its kind carries is asked for: a write set of a
\* user, or of the genesis if it is a script, is one of a script.
WellFormedPayload(payload) ==
    /\ payload # None
    /\ \A p \in payload :
          /\ (p.kind = "EntryFunctionPayload") =>
                /\ p.function # None
                /\ \A a \in p.function : WellFormedAddress(a)
          /\ (p.kind = "WriteSetPayload") => (p.write_set = {"script"})
          /\ UsesScript(p) => p.script
          /\ (UsesScript(p) \/ p.kind = "ScriptPayload") =>
                /\ p.code # None
                /\ \A abi \in p.code : \A f \in abi : WellFormedFunction(f)
          /\ (UsesScript(p) \/ p.kind \in {"EntryFunctionPayload", "ScriptPayload"}) =>
                \A m \in p.type_arguments : WellFormedType(m)

WellFormedEvent(e) ==
    /\ e.key # None /\ e.type # None /\ e.json
    /\ \A a \in e.key : WellFormedAddress(a)
    /\ \A m \in e.type : WellFormedType(m)

WellFormedChange(c) ==
    /\ c.type # "Unspecified" /\ c.data = Some(c.type) /\ c.whole
    /\ WellFormedAddress(c.address)
    /\ \A tag \in c.struct_tag : WellFormedTag(tag)
    /\ \A abi \in c.abi : WellFormedModule(abi)

WellFormed(tx) ==
    /\ tx.type # "Unspecified" /\ tx.whole
    /\ (tx.type = "User") =>
          /\ tx.request
          /\ WellFormedAddress(tx.sender)
          /\ tx.signature # None
          /\ \A sig \in tx.signature : WellFormedSignature(sig)
          /\ tx.expiration # "broken"
    /\ (tx.type = "BlockMetadata") => WellFormedAddress(tx.proposer)
    /\ (tx.success /\ HasPayload(tx)) => WellFormedPayload(tx.payload)
    /\ \A i \in DOMAIN tx.events : WellFormedEvent(tx.events[i])
    /\ \A i \in DOMAIN tx.changes : WellFormedChange(tx.changes[i])

\* A well formed transaction never fails its range, whichever tables are
\* selected: no deferred value stays open (deferred.rs), no signature count is
\* missing (transactions.rs:160-166).  A range that fails is never indexed, as
\* it is delivered and fails again for ever.
WellFormedTransactionsConvert ==
    conversionPc \in {"failed", "panicked"} => \A tx \in current : ~ WellFormed(tx)

\* The rows of transaction i, by their positions.
RowsOf(i, t) == {k \in DOMAIN records[t] : records[t][k].version = i}

\* The counts in a transaction's row are the numbers of its rows in the tables
\* they count, succeeded or not (transactions.rs, tx_info.rs:35-72).
CountsMatchRows ==
    conversionPc \in {"extract", "publish"} =>
        \A i \in DOMAIN done : \A k \in RowsOf(i, "transactions") :
            LET row == records["transactions"][k]
            IN  /\ (row.tx_type = "User") => (row.num_signatures # None)
                /\ (row.num_signatures # None /\ "signatures" \in selected) =>
                      row.num_signatures = Some(Cardinality(RowsOf(i, "signatures")))
                /\ "events" \in selected =>
                      row.num_events = IF Events(done[i]) = None THEN None
                                       ELSE Some(Cardinality(RowsOf(i, "events")))
                /\ "changes" \in selected =>
                      row.num_changes["total"] = Cardinality(RowsOf(i, "changes"))
                /\ \A t \in selected \cap ChangeTables, type \in WriteSetChangeType :
                      t \in {"changes", DetailTable(type)} =>
                        row.num_changes[type] =
                          Cardinality({r \in RowsOf(i, t) :
                                         records[t][r].change_type = type})

\* Every change has exactly one detail, in the table of its type and under the
\* same change_index, and a detail belongs to a change: the tables join on
\* (tx_version, change_index) (changes.rs:173-296).
DetailsJoinChanges ==
    (conversionPc \in {"extract", "publish"} /\ "changes" \in selected) =>
        \A t \in selected \cap (ChangeTables \ {"changes"}) :
            /\ Range(records[t]) = {r \in Range(records["changes"]) :
                                        DetailTable(r.change_type) = t}
            /\ IsInjective(records[t])

\* What the VM makes sure of before it commits a signed transaction: every
\* secondary signer has an address and no two have the same, every signature
\* is of a key there is, and only the types of several signers have those.
WellSigned(sig) ==
    /\ Len(sig.secondary_signers) = Len(sig.secondary_addresses)
    /\ IsInjective([i \in DOMAIN sig.secondary_addresses |->
                        Encoded(sig.secondary_addresses[i])])
    /\ (sig.secondary_signers # <<>>) => (sig.type \in {"MultiAgent", "FeePayer"})
    /\ (sig.fee_payer # None) => (sig.type = "FeePayer")
    /\ \A a \in sig.sender \cup sig.fee_payer \cup Range(sig.secondary_signers) :
          Range(a.indices) \subseteq 0 .. Len(a.public_keys) - 1

\* The accounts that sign a transaction, each with the role and address its
\* rows must have.
Signers(tx) ==
    UNION {{[role |-> "sender", address |-> Encoded(tx.sender), account |-> a] :
                a \in sig.sender}
             \cup {[role |-> "feepayer", address |-> Encoded(sig.fee_payer_address),
                    account |-> a] : a \in sig.fee_payer}
             \cup {[role |-> "secondary", address |-> Encoded(sig.secondary_addresses[i]),
                    account |-> sig.secondary_signers[i]] :
                       i \in DOMAIN sig.secondary_signers} : sig \in tx.signature}

\* A row that says nothing of roles is the sender's.
RoleOf(r) ==
    IF r.is_fee_payer = Some(TRUE) THEN "feepayer"
    ELSE IF r.is_secondary = Some(TRUE) THEN "secondary" ELSE "sender"

\* The rows of a user transaction are, for each account that signs it, one for
\* each of its keys, under the account's address and role and the build type of
\* the whole signature, and as many of them are signed as there are signatures
\* (reps/signatures.rs).
SignaturesAreAttributed ==
    (conversionPc \in {"extract", "publish"} /\ "signatures" \in selected) =>
        \A i \in DOMAIN done : done[i].type = "User" =>
            LET row == records["signatures"]
                RowsOfSigner(s) == {k \in RowsOf(i, "signatures") :
                                      RoleOf(row[k]) = s.role /\ row[k].signer = s.address}
            IN  /\ \A k \in RowsOf(i, "signatures") :
                      /\ row[k].build_type \in {sig.type : sig \in done[i].signature}
                      /\ \E s \in Signers(done[i]) : k \in RowsOfSigner(s)
                      /\ (row[k].is_sender # None) =>
                            (row[k].is_sender = Some(RoleOf(row[k]) = "sender"))
                /\ \A s \in Signers(done[i]) :
                      /\ Cardinality(RowsOfSigner(s)) = Len(s.account.public_keys)
                      /\ Cardinality({k \in RowsOfSigner(s) : row[k].signature # None})
                           = Len(s.account.indices)

\* What daily_dedupe_mainnet.py takes for the identity of a row (33-42).
DedupeKey(t, r) ==
    CASE t \in {"transactions", "blocks"} -> <<r.version>>
      [] t = "events" -> <<r.event_index, r.version>>
      [] t \in ChangeTables -> <<r.change_index, r.version>>
      [] t = "signatures" ->
            <<r.version, r.signature, r.public_key.value, r.public_key.index,
              r.signer, r.is_sender, r.is_fee_payer>>

\* The account lists the key of the row twice, as a MultiKey may, and neither
\* copy signs, or both do with the same signature.
OfTwinKeys(a, r) ==
    /\ a.type = "MultiKey"
    /\ \E k, l \in DOMAIN a.public_keys :
          /\ k # l
          /\ \A m \in {k, l} : /\ a.public_keys[m] = r.public_key.value
                               /\ SignatureOf(a, m) = r.signature

\* Two rows of a range have one key of the nightly deduplication, which deletes
\* one of them, only if they are of twin keys: an account may sign for the fee
\* and as another signer, a MultiEd25519 may list a key twice, and the changes
\* of a transaction are spread over several tables.  The rows of twin keys do
\* lose one, for only MultiEd25519 numbers its keys (signatures.rs:403, 468).
OnlyTwinKeysCollide ==
    conversionPc \in {"extract", "publish"} =>
        \A t \in selected : \A i, j \in DOMAIN records[t] :
            LET r == records[t][i]
            IN  DedupeKey(t, r) = DedupeKey(t, records[t][j]) =>
                    \/ i = j
                    \/ /\ t = "signatures"
                       /\ \E s \in Signers(done[r.version]) :
                             /\ RoleOf(r) = s.role /\ r.signer = s.address
                             /\ OfTwinKeys(s.account, r)
=============================================================================
