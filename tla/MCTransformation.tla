-------------------------- MODULE MCTransformation --------------------------
(* Transformation on small instances. *)
EXTENDS Transformation

Hex(number) == [of |-> number, digits |-> "few", hex |-> TRUE]
address == Hex("0x1")
longAddress == [Hex("0x1") EXCEPT !.digits = "more"]

\* An account signs, with the keys of `indices`, signatures that show whose
\* they are.
Account(type, keys, indices) ==
    [type |-> type, public_keys |-> keys, indices |-> indices, whole |-> TRUE,
     signatures |-> [i \in DOMAIN indices |->
                        IF indices[i] < Len(keys) THEN keys[indices[i] + 1] ELSE "stray"]]

ed25519 == Account("Ed25519", <<"a">>, <<0>>)
singleKey == Account("SingleKey", <<"b">>, <<0>>)
abstraction == Account("Abstraction", <<"a">>, <<0>>)

\* An account of several keys may list one twice: its rows differ by the index
\* of the key (MultiEd25519), by who signed, or, as with the last, in nothing.
multiEd25519 == Account("MultiEd25519", <<"a", "b", "a", "b">>, <<2, 1>>)
twiceUnsigned == Account("MultiEd25519", <<"a", "b", "b">>, <<0>>)
multiKey == Account("MultiKey", <<"a", "b", "b">>, <<1>>)
twinKeys == Account("MultiKey", <<"a", "b", "b">>, <<0>>)

\* Signatures of one signer, and of several.
By(type, a) ==
    [type |-> type, sender |-> Some(a), fee_payer |-> None,
     fee_payer_address |-> address, secondary_signers |-> <<>>,
     secondary_addresses |-> <<>>]

With(type, a, payer, seconds) ==
    [By(type, a) EXCEPT !.fee_payer = payer,
                        !.fee_payer_address = Hex("0xfee"),
                        !.secondary_signers = seconds,
                        !.secondary_addresses =
                            SubSeq(<<Hex("0x2"), Hex("0x3")>>, 1, Len(seconds))]

GoodSignature ==
    {By("Ed25519", ed25519)}
    \cup {By("MultiEd25519", a) : a \in {multiEd25519, twiceUnsigned}}
    \cup {By("SingleSender", a) :
              a \in {ed25519, singleKey, multiKey, twinKeys, abstraction}}
    \cup {With("MultiAgent", singleKey, None, <<multiEd25519, multiKey>>),
          With("FeePayer", multiKey, Some(singleKey), <<>>),
          With("FeePayer", ed25519, Some(abstraction), <<twinKeys>>),
          [With("FeePayer", ed25519, Some(singleKey), <<singleKey>>)
             EXCEPT !.secondary_addresses = <<Hex("0xfee")>>]}

BadSignature ==
    {By("MultiEd25519", Account("MultiEd25519", <<"a", "b">>, <<1, 1>>)),
     By("MultiEd25519", [multiEd25519 EXCEPT !.signatures = <<"a">>]),
     By("SingleSender", Account("Unspecified", <<"a">>, <<0>>)),
     With("FeePayer", ed25519, None, <<>>),
     [With("FeePayer", ed25519, Some(singleKey), <<>>)
        EXCEPT !.fee_payer_address = longAddress],
     [With("MultiAgent", ed25519, None, <<singleKey>>)
        EXCEPT !.secondary_addresses = <<longAddress>>]}

\* Move types.
Node(type, content) ==
    [type |-> type, content |-> {[of |-> c, sound |-> TRUE] : c \in content}]

TypeOf(top, nested) == [top |-> top, nested |-> nested]

u64 == TypeOf(Node("plain", {}), {})
unknownType == TypeOf(Node("unknown", {}), {})

\* &vector<0x1::coin::Coin<T0>>, and the same about a type nobody knows.
reference == TypeOf(Node("Reference", {"Reference"}),
                    {Node("Vector", {"Vector"}), Node("Struct", {"Struct"}),
                     Node("GenericTypeParam", {"GenericTypeParam"})})
deepUnknown == [reference EXCEPT !.nested = @ \cup {Node("unknown", {})}]
emptyReference ==
    TypeOf([type |-> "Reference", content |-> {[of |-> "Reference", sound |-> FALSE]}], {})
bareVector == TypeOf(Node("Vector", {}), {})
mismatch == TypeOf(Node("plain", {"Struct"}), {})

Tag(params) == [address |-> address, generic_type_params |-> params]

function == [visibility |-> "Public", constraints |-> {"Copy", "Drop"},
             params |-> {u64, reference}, return |-> {u64}]

coin == [abilities |-> {"Store"}, constraints |-> {"Key"},
         fields |-> {Some(u64), Some(reference)}]

module == [friends |-> {address}, exposed_functions |-> {function}, structs |-> {coin}]

event == [key |-> Some(address), type |-> Some(reference), json |-> TRUE]

ChangeOf(type) ==
    [type |-> type, data |-> Some(type), address |-> address, whole |-> TRUE,
     struct_tag |-> IF type = "WriteResource" THEN Some(Tag({u64, reference})) ELSE None,
     abi |-> IF type = "WriteModule" THEN Some(module) ELSE None]

Changes(types) == [i \in DOMAIN types |-> ChangeOf(types[i])]

SomeChanges == Changes(<<"WriteResource", "WriteTableItem", "DeleteModule",
                         "WriteModule", "DeleteTableItem", "WriteResource">>)

\* A payload carries what its kind has, and nothing else.
PayloadOf(kind, write_set) ==
    LET script == kind = "ScriptPayload" \/ write_set = Some("script")
    IN  [kind |-> kind, write_set |-> write_set, script |-> script,
         function |-> IF kind = "EntryFunctionPayload" THEN Some(address) ELSE None,
         type_arguments |-> IF script \/ kind = "EntryFunctionPayload" THEN {u64} ELSE {},
         code |-> IF script THEN Some(Some(function)) ELSE None]

entryFunction == PayloadOf("EntryFunctionPayload", None)

GoodPayload ==
    {PayloadOf(kind, None) : kind \in PayloadKind \ {"WriteSetPayload", "Genesis"}}
    \cup {PayloadOf("WriteSetPayload", Some("script")),
          [PayloadOf("ScriptPayload", None) EXCEPT !.code = Some(None)]}

BadPayload ==
    {[entryFunction EXCEPT !.function = None],
     [entryFunction EXCEPT !.type_arguments = {u64, emptyReference}],
     [PayloadOf("ScriptPayload", None) EXCEPT !.code = None],
     [PayloadOf("WriteSetPayload", Some("script"))
        EXCEPT !.code = Some(Some([function EXCEPT !.visibility = "Unspecified"]))],
     PayloadOf("WriteSetPayload", Some("direct"))}

\* What may stand in the place of a change of SomeChanges; and an event whose
\* type does not convert below its top, where nobody looks.
BadResource ==
    {[ChangeOf("WriteResource") EXCEPT !.struct_tag = Some(Tag({t}))] :
        t \in {unknownType, deepUnknown}}

BadModule ==
    {[ChangeOf("WriteModule") EXCEPT !.abi = Some(m)] :
        m \in {[module EXCEPT !.structs = {[coin EXCEPT !.fields = {None}]}],
               [module EXCEPT !.structs = {[coin EXCEPT !.abilities = {"Unspecified"}]}],
               [module EXCEPT !.exposed_functions =
                    {[function EXCEPT !.params = {bareVector}, !.return = {mismatch}]}]}}

BadEvent == {[event EXCEPT !.json = FALSE], [event EXCEPT !.key = None],
             [event EXCEPT !.type = Some(unknownType), !.json = FALSE],
             [event EXCEPT !.key = Some(longAddress)],
             [event EXCEPT !.type = Some(deepUnknown)]}

\* A transaction nobody signs.
System(type, events, changes) ==
    [type |-> type, whole |-> TRUE, success |-> TRUE, request |-> FALSE,
     sender |-> address, signature |-> None, payload |-> None,
     proposer |-> address, expiration |-> "good", events |-> events, changes |-> changes]

User(sig) ==
    [System("User", <<event, event>>, SomeChanges)
       EXCEPT !.request = TRUE, !.signature = Some(sig), !.payload = Some(entryFunction)]

user == User(With("FeePayer", ed25519, Some(singleKey), <<>>))

GoodTransaction ==
    {User(sig) : sig \in GoodSignature}
    \cup {[user EXCEPT !.payload = Some(p)] : p \in GoodPayload}
    \cup {[user EXCEPT !.success = FALSE, !.payload = p, !.changes = <<>>] :
             p \in {None} \cup {Some(q) : q \in BadPayload}}
    \cup {[user EXCEPT !.success = s, !.expiration = e] :
             s \in BOOLEAN, e \in {"late", "old"}}
    \cup {[System("Genesis", <<event>>, SomeChanges)
             EXCEPT !.payload = Some(PayloadOf("Genesis", ws))] :
                ws \in {Some("direct"), Some("script")}}
    \cup {System("BlockMetadata", <<event>>, Changes(<<"DeleteResource">>)),
          [System("Validator", <<>>, Changes(<<"WriteModule">>))
             EXCEPT !.changes[1].abi = None],
          System("StateCheckpoint", <<>>, <<>>),
          System("BlockEpilogue", <<>>, Changes(<<"WriteTableItem">>))}

BadTransaction ==
    {User(sig) : sig \in BadSignature}
    \cup {[user EXCEPT !.payload = Some(p)] : p \in BadPayload}
    \cup {[user EXCEPT !.events = <<event, e>>] : e \in BadEvent}
    \cup {[user EXCEPT !.changes[1] = c] : c \in BadResource}
    \cup {[user EXCEPT !.changes[4] = c] : c \in BadModule}
    \cup {System("Genesis", <<event>>, SomeChanges),
          [user EXCEPT !.success = FALSE, !.expiration = "broken"],
          [user EXCEPT !.sender = longAddress],
          [user EXCEPT !.sender = longAddress, !.success = FALSE],
          [System("BlockMetadata", <<event>>, <<>>) EXCEPT !.proposer = longAddress],
          [user EXCEPT !.changes[3].data = Some("WriteModule")],
          [user EXCEPT !.changes[5].address = longAddress],
          [user EXCEPT !.changes[2].whole = FALSE],
          [user EXCEPT !.signature = None],
          [user EXCEPT !.request = FALSE],
          [user EXCEPT !.whole = FALSE],
          [user EXCEPT !.type = "Unspecified"]}

\* The sets keep what their names promise.
ASSUME GoodIsGood == \A tx \in GoodTransaction : WellFormed(tx)
ASSUME BadIsBad == \A tx \in BadTransaction : ~ WellFormed(tx)

MCTransaction == GoodTransaction \cup BadTransaction

ASSUME SignedIsSigned == \A tx \in MCTransaction : \A sig \in tx.signature : WellSigned(sig)

\* What a backfill may ask for: everything, each table alone, a table with
\* the one it refers to.
MCSelection ==
    {Table} \cup {{t} : t \in Table}
    \cup {{"transactions", "signatures"}, {"changes", "resources"},
          {"transactions", "modules", "table_items"}}
=============================================================================
