-------------------------- MODULE SignatureRecords --------------------------
(***************************************************************************)
(* The signature records of a transaction: from_signature and what it      *)
(* calls (processing/reps/signatures.rs), the values that may be set later *)
(* (processing/deferred.rs), and get_signatures                            *)
(* (processing/tables/signatures.rs).                                      *)
(*                                                                         *)
(* A conversion is two operators: whether it fails, and the records it     *)
(* returns when it does not.                                               *)
(***************************************************************************)
EXTENDS MoveRecords, Integers, Sequences, Functions, SequencesExt

(***************************************************************************)
(* Input.  An AccountSignature is a record of its type, its public keys,   *)
(* its signatures, the indices of the keys these are of, and whether all   *)
(* its parts are there: the data, of the type it says, every key and every *)
(* signature of a known type.  The types of one key have one signature, of *)
(* that key; only MultiEd25519 has its indices in a list of their own.     *)
(*                                                                         *)
(* A Signature has a type and its parties: the account signatures of the   *)
(* sender and the fee payer (Options), and of the secondary signers, whose *)
(* addresses come in a list of their own.  For the types Ed25519 and       *)
(* MultiEd25519 the sender's account signature stands for the data; data   *)
(* that is missing, or not of the type, is a missing sender.               *)
(***************************************************************************)
AccountSignatureType == {"Unspecified", "Ed25519", "MultiEd25519", "SingleKey",
                         "MultiKey", "Abstraction"}

AccountSignature ==
    {a \in [type : AccountSignatureType, public_keys : Seq(STRING),
            signatures : Seq(STRING), indices : Seq(Nat), whole : BOOLEAN] :
        /\ (a.type # "MultiEd25519") => (Len(a.signatures) = Len(a.indices))
        /\ (a.type \in {"Ed25519", "SingleKey", "Abstraction"}) =>
               (Len(a.public_keys) = 1 /\ a.indices = <<0>>)}

Signature ==
    {sig \in [type : {"Unspecified", "Ed25519", "MultiEd25519", "MultiAgent",
                      "FeePayer", "SingleSender"},
              sender : Option(AccountSignature),
              fee_payer : Option(AccountSignature),
              fee_payer_address : Address,
              secondary_signers : Seq(AccountSignature),
              secondary_addresses : Seq(Address)] :
        sig.type \in {"Ed25519", "MultiEd25519"} =>
            \A a \in sig.sender : a.type = sig.type}

-----------------------------------------------------------------------------
(* Deferred values *)

Present(v) == [variant |-> "Present", value |-> v]
DeferredFallback(v) == [variant |-> "DeferredFallback", value |-> v]
Deferred == [variant |-> "Deferred"]

IsUsable(d) == d.variant # "Deferred"

-----------------------------------------------------------------------------
(* Subrecords of one account *)

PublicKey(value, index) == [value |-> value, index |-> index]

\* What the five leaf conversions have in common; the signer stays open.  The
\* signature is an Option of its value; the threshold, the index of a signature
\* and the types of keys and signatures are left out.
SubRecord(buildtype, public_key, signature, flag) ==
    [buildtype |-> buildtype, public_key |-> public_key, signature |-> signature,
     signer |-> Deferred, is_secondary |-> flag, is_feepayer |-> flag,
     is_sender |-> flag]

\* Two signatures point to the same public key.
IndexRepeated(a) == ~ IsInjective(a.indices)

AccountSignatureFails(a) ==
    \/ a.type = "Unspecified"
    \/ ~ a.whole
    \/ a.type = "MultiEd25519" /\ Len(a.signatures) # Len(a.indices)
    \/ a.type \in {"MultiEd25519", "MultiKey"} /\ IndexRepeated(a)

\* The signature of the k-th key, an Option.
SignatureOf(a, k) == {a.signatures[j] : j \in {i \in DOMAIN a.indices : a.indices[i] = k - 1}}

\* Mutant: the keys of a MultiEd25519 have no index, like those of a MultiKey.
KeyIndexNone(a, k) == None

\* A key has an index only if the account is a MultiEd25519.
KeyIndex(a, k) == IF a.type = "MultiEd25519" THEN Some(k - 1) ELSE None

\* One record per public key; a signature whose index no key has is dropped.
MultiRecords(a, buildtype) ==
    [k \in DOMAIN a.public_keys |->
        SubRecord(buildtype, PublicKey(a.public_keys[k], KeyIndex(a, k)),
                  SignatureOf(a, k), Present(None))]

OneRecord(a, buildtype, value, flag) ==
    << SubRecord(buildtype, PublicKey(value, None), Some(a.signatures[1]), flag) >>

FromAccountSignature(a) ==
    CASE a.type = "Ed25519" ->
            OneRecord(a, DeferredFallback("Ed25519"), a.public_keys[1], Present(None))
      [] a.type = "MultiEd25519" ->
            MultiRecords(a, DeferredFallback("MultiEd25519"))
      [] a.type = "SingleKey" ->
            OneRecord(a, Deferred, a.public_keys[1], Present(None))
      [] a.type = "MultiKey" -> MultiRecords(a, Deferred)
      [] a.type = "Abstraction" ->
            OneRecord(a, Deferred, "Abstraction", DeferredFallback(None))

-----------------------------------------------------------------------------
(* Subrecords of a transaction *)

\* A secondary signer beyond the last address is not looked at.
Secondaries(sig) == Zip(sig.secondary_signers, sig.secondary_addresses)

\* Mutant: the build type of the account is kept.
FromSingleSenderKeepsType(sig) ==
    FromAccountSignature(CHOOSE a \in sig.sender : TRUE)

FromSingleSender(sig) ==
    LET a == CHOOSE s \in sig.sender : TRUE
        OfSender(r) == [r EXCEPT !.buildtype = DeferredFallback("SingleSender")]
    IN  [i \in DOMAIN FromAccountSignature(a) |->
            OfSender(FromAccountSignature(a)[i])]

\* The records of one account with the context of a transaction of several
\* signers.  With a fee payer each record also says whether it is his.
WithRole(a, buildtype, role, signer) ==
    LET Play(r) ==
          [r EXCEPT
            !.buildtype = DeferredFallback(buildtype),
            !.signer = IF role = "sender" THEN @ ELSE Present(signer),
            !.is_secondary = Present(Some(role = "secondary")),
            !.is_sender = Present(Some(role = "sender")),
            !.is_feepayer = IF buildtype = "FeePayer"
                            THEN Present(Some(role = "feepayer")) ELSE @]
    IN  [i \in DOMAIN FromAccountSignature(a) |->
            Play(FromAccountSignature(a)[i])]

SecondaryRecords(sig, buildtype) ==
    FlattenSeq([i \in DOMAIN Secondaries(sig) |->
        WithRole(Secondaries(sig)[i][1], buildtype, "secondary",
                 Secondaries(sig)[i][2])])

FromMultiAgent(sig) ==
    SecondaryRecords(sig, "MultiAgent")
        \o WithRole(CHOOSE a \in sig.sender : TRUE, "MultiAgent", "sender", "none")

\* Mutant: the fee payer is passed over for the sender.
FromFeePayerSenderPays(sig) ==
    WithRole(CHOOSE a \in sig.sender : TRUE, "FeePayer", "sender", "none")
        \o WithRole(CHOOSE a \in sig.sender : TRUE, "FeePayer", "feepayer",
                    sig.fee_payer_address)
        \o SecondaryRecords(sig, "FeePayer")

FromFeePayer(sig) ==
    WithRole(CHOOSE a \in sig.sender : TRUE, "FeePayer", "sender", "none")
        \o WithRole(CHOOSE a \in sig.fee_payer : TRUE, "FeePayer", "feepayer",
                    sig.fee_payer_address)
        \o SecondaryRecords(sig, "FeePayer")

FromSignature(sig) ==
    CASE sig.type \in {"Ed25519", "MultiEd25519"} ->
            FromAccountSignature(CHOOSE a \in sig.sender : TRUE)
      [] sig.type = "MultiAgent" -> FromMultiAgent(sig)
      [] sig.type = "FeePayer" -> FromFeePayer(sig)
      [] sig.type = "SingleSender" -> FromSingleSender(sig)

\* The secondary signers beyond the last address cannot fail.
SignatureFails(sig) ==
    \/ sig.type = "Unspecified"
    \/ sig.sender = None
    \/ \E a \in sig.sender : AccountSignatureFails(a)
    \/ /\ sig.type = "FeePayer"
       /\ \/ sig.fee_payer = None
          \/ \E a \in sig.fee_payer : AccountSignatureFails(a)
    \/ /\ sig.type \in {"MultiAgent", "FeePayer"}
       /\ \E i \in DOMAIN Secondaries(sig) :
            AccountSignatureFails(Secondaries(sig)[i][1])

-----------------------------------------------------------------------------
(* get_signatures *)

\* A value that is still open fails the transaction; only the signer has a
\* default.
LeftOpen(r) ==
    ~ (/\ IsUsable(r.buildtype)
       /\ IsUsable(r.is_secondary)
       /\ IsUsable(r.is_feepayer)
       /\ IsUsable(r.is_sender))

SignerFails(r) == IsUsable(r.signer) /\ AddressFails(r.signer.value)

\* The sender's address is encoded whether or not a record needs it.
GetSignaturesFails(tx) ==
    /\ tx.type = "User"
    /\ \/ ~ tx.request
       \/ tx.signature = None
       \/ AddressFails(tx.sender)
       \/ \E sig \in tx.signature :
            \/ SignatureFails(sig)
            \/ \E r \in Range(FromSignature(sig)) : LeftOpen(r) \/ SignerFails(r)

SignatureRecord(tx, version, r) ==
    [version |-> version, build_type |-> r.buildtype.value,
     public_key |-> r.public_key, signature |-> r.signature,
     signer |-> Encoded(IF IsUsable(r.signer) THEN r.signer.value ELSE tx.sender),
     is_secondary |-> r.is_secondary.value,
     is_fee_payer |-> r.is_feepayer.value, is_sender |-> r.is_sender.value]

\* None for a transaction that nobody signs.
GetSignatures(tx, version) ==
    IF tx.type # "User" THEN None
    ELSE LET subrecords == FromSignature(CHOOSE s \in tx.signature : TRUE)
         IN  Some([i \in DOMAIN subrecords |->
                      SignatureRecord(tx, version, subrecords[i])])
=============================================================================
