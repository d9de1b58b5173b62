--------------------------- MODULE PayloadRecords ---------------------------
(***************************************************************************)
(* The payload of a user or genesis transaction: payload                   *)
(* (processing/reps/transaction/tx_data.rs) and TxPayloadExtract           *)
(* (processing/reps/payload.rs).                                           *)
(*                                                                         *)
(* A payload is a record of                                                *)
(*   kind       its type, whose data it carries; "Genesis" is the write    *)
(*              set of a genesis transaction                               *)
(*   function   the address of the module of its entry function            *)
(*   write_set  the variant of its write set                               *)
(*   script     whether a script write set holds a script                  *)
(*   type_arguments                                                        *)
(*   code       the bytecode of its script, that is the ABI beside it      *)
(* All but kind, script and type_arguments are Options, and the ABI is one *)
(* again: None is no code, Some(None) code without an ABI.                 *)
(***************************************************************************)
EXTENDS MoveRecords

PayloadKind == {"EntryFunctionPayload", "MultisigPayload", "ScriptPayload",
                "WriteSetPayload", "EncryptedTransactionPayload", "Genesis"}

Payload == [kind : PayloadKind,
            function : Option(Address),
            write_set : Option({"script", "direct"}),
            script : BOOLEAN,
            type_arguments : SUBSET MoveType,
            code : Option(Option(Function))]

\* Only a genesis write set that is direct is asked for nothing.
UsesScript(p) ==
    \/ p.kind = "WriteSetPayload"
    \/ p.kind = "Genesis" /\ p.write_set = Some("script")

ExtractScriptPayloadFails(p) ==
    p.write_set # Some("script") \/ ~ p.script

EncodeFunctionIdFails(p) ==
    /\ p.kind = "EntryFunctionPayload"
    /\ p.function = None \/ \E a \in p.function : AddressFails(a)

TypeArgumentsFails(p) ==
    \/ UsesScript(p) /\ ExtractScriptPayloadFails(p)
    \/ /\ UsesScript(p) \/ p.kind \in {"EntryFunctionPayload", "ScriptPayload"}
       /\ \E m \in p.type_arguments : DecodeFails(m) \/ EncodeFails(m)

ArgumentsFails(p) == UsesScript(p) /\ ExtractScriptPayloadFails(p)

CodeFails(p) ==
    \/ UsesScript(p) /\ ExtractScriptPayloadFails(p)
    \/ /\ UsesScript(p) \/ p.kind = "ScriptPayload"
       /\ \/ p.code = None
          \/ \E abi \in p.code : \E f \in abi :
                FunctionDecodeFails(f) \/ FunctionEncodeFails(f)

\* A direct write set has nobody to execute as, which is an error unless it is
\* the genesis.
ExecuteAsFails(p) == p.kind = "WriteSetPayload" /\ p.write_set # Some("script")

TryEncodeFails(p) ==
    \/ EncodeFunctionIdFails(p)
    \/ TypeArgumentsFails(p)
    \/ ArgumentsFails(p)
    \/ CodeFails(p)
    \/ ExecuteAsFails(p)

\* The transactions that carry a payload; without one that is of its type they
\* fail before anything is encoded.
HasPayload(tx) == tx.type \in {"User", "Genesis"}

PayloadFails(tx) ==
    /\ HasPayload(tx)
    /\ \/ tx.type = "User" /\ ~ tx.request
       \/ tx.payload = None
=============================================================================
