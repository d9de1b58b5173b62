---------------------------- MODULE MoveRecords ----------------------------
(***************************************************************************)
(* Addresses, Move types, struct tags, and the ABI of functions, structs   *)
(* and modules (processing/reps/): which of them convert.                  *)
(*                                                                         *)
(* Each goes through two steps, which fail for different reasons and at    *)
(* different times: decoding (try_from), which looks at the top of a type  *)
(* only, and encoding (try_encode), which looks into it.  A list is the    *)
(* set of its members, as one that does not convert is one too many        *)
(* wherever it stands.                                                     *)
(***************************************************************************)
EXTENDS Options

(***************************************************************************)
(* The prefix of an address and its leading zeros are repaired, its length *)
(* beyond 64 digits and other characters are not.  What it is an address   *)
(* of, its number, is the same however it was written.                     *)
(***************************************************************************)
Address == [of : STRING, digits : {"few", "all", "more"}, hex : BOOLEAN]

AddressFails(a) == a.digits = "more" \/ ~ a.hex

\* Address::try_encode; the repaired forms of one number are the same.
Encoded(a) == a.of

-----------------------------------------------------------------------------
(***************************************************************************)
(* A Move type is a tree: references, vectors and struct tags hold types.  *)
(* It is modelled by its top and the set of the nodes below it, at any     *)
(* depth.  "plain" is every type that carries nothing, "unknown" a number  *)
(* no type has.  The content of a node says what kind it is, and whether   *)
(* it can be written: a reference may point to nothing, a struct tag may   *)
(* have an address that fails, of what the node could not parse only       *)
(* "function" is known.                                                    *)
(***************************************************************************)
MoveTypes == {"plain", "Reference", "Vector", "Struct", "GenericTypeParam",
              "Unparsable", "unknown"}

Content == {"Reference", "Vector", "Struct", "GenericTypeParam", "Unparsable"}

MoveNode == [type : MoveTypes,
             content : Option([of : Content, sound : BOOLEAN])]

MoveType == [top : MoveNode, nested : SUBSET MoveNode]

DecodeFails(m) == m.top.type = "unknown"

\* A type that must carry something and does not, or carries what is not its
\* own.  A type that may be unparsable may also say nothing.
NodeFails(n) ==
    \/ n.type = "unknown"
    \/ n.content = None /\ n.type \in Content \ {"Unparsable"}
    \/ \E c \in n.content : c.of # n.type \/ ~ c.sound

\* Encoding decodes and encodes what is nested, so it stops at the first node
\* of the tree that does not convert.
EncodeFails(m) == \E n \in {m.top} \cup m.nested : NodeFails(n)

StructTag == [address : Address, generic_type_params : SUBSET MoveType]

StructTagDecodeFails(tag) == \E m \in tag.generic_type_params : DecodeFails(m)

StructTagEncodeFails(tag) ==
    \/ AddressFails(tag.address)
    \/ \E m \in tag.generic_type_params : EncodeFails(m)

-----------------------------------------------------------------------------
(***************************************************************************)
(* ABIs.  The generic type parameters of a function or struct are modelled *)
(* by the union of their constraints.  Unknown abilities are skipped by    *)
(* the accessor of the protobuf library, an unknown visibility is          *)
(* unspecified there.                                                      *)
(***************************************************************************)
Ability == {"Copy", "Drop", "Store", "Key", "Unspecified"}

Visibility == {"Public", "Private", "Friend", "Unspecified"}

AbilityFails(a) == a = "Unspecified"

VisibilityFails(v) == v = "Unspecified"

GenericTypeParamFails(constraints) == \E a \in constraints : AbilityFails(a)

Function == [visibility : Visibility, constraints : SUBSET Ability,
             params : SUBSET MoveType, return : SUBSET MoveType]

FunctionDecodeFails(f) == \E m \in f.params \cup f.return : DecodeFails(m)

FunctionEncodeFails(f) ==
    \/ GenericTypeParamFails(f.constraints)
    \/ \E m \in f.params \cup f.return : EncodeFails(m)
    \/ VisibilityFails(f.visibility)

MvStruct == [abilities : SUBSET Ability, constraints : SUBSET Ability,
             fields : SUBSET Option(MoveType)]

StructDecodeFails(s) ==
    \E field \in s.fields : field = None \/ \E m \in field : DecodeFails(m)

StructEncodeFails(s) ==
    \/ \E a \in s.abilities : AbilityFails(a)
    \/ GenericTypeParamFails(s.constraints)
    \/ \E field \in s.fields : \E m \in field : EncodeFails(m)

MoveModule == [friends : SUBSET Address, exposed_functions : SUBSET Function,
               structs : SUBSET MvStruct]

ModuleExtractionFails(abi) ==
    \/ \E f \in abi.exposed_functions : FunctionDecodeFails(f)
    \/ \E s \in abi.structs : StructDecodeFails(s)

\* What get_changes makes of an ABI.
ModuleFails(abi) ==
    \/ ModuleExtractionFails(abi)
    \/ \E a \in abi.friends : AddressFails(a)
    \/ \E f \in abi.exposed_functions : FunctionEncodeFails(f)
    \/ \E s \in abi.structs : StructEncodeFails(s)
=============================================================================
