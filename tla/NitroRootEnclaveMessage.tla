---------------------- MODULE NitroRootEnclaveMessage ----------------------
(***************************************************************************)
(* The messages between the host and the Nitro root enclave (enum          *)
(* NitroRootEnclaveMessage of nitro.rs) and their encoding on the wire:    *)
(* the index of the variant in the order of declaration, then its fields   *)
(* in order, a field of variable length behind its length.                 *)
(*                                                                         *)
(* A unit of the encoding is a natural number: an index, a length, a       *)
(* count, an i32 or a byte.  A length or a number takes one unit where the *)
(* wire has four or eight bytes.  Decoding is written as the reader of the *)
(* bytes, apart from the encoding, so that the round trip compares two     *)
(* definitions.                                                            *)
(***************************************************************************)
EXTENDS Naturals, Sequences, SequencesExt

CONSTANTS
    Byte,       \* the bytes a Vec<u8> or a String is made of
    I32,        \* device and challenge ids
    Status,     \* the values of runtime_manager_message::Status, by index
    MaxLen,     \* bound: the length of a Vec<u8> or a String
    MaxCerts,   \* bound: the length of the Vec<Vec<u8>> of CertChain
    Malformed   \* what decoding makes of bytes that are no message

ASSUME Byte \cup I32 \cup Status \subseteq Nat /\ {MaxLen, MaxCerts} \subseteq Nat

\* The variants, in the order the enum declares them.
Variants ==
    <<"Status", "FetchFirmwareVersion", "FirmwareVersion", "SetCertChain",
      "NativeAttestation", "TokenData", "StartProxy", "ChallengeData",
      "ProxyAttestation", "CertChain", "Success">>

\* The types of the fields of each variant.
FieldTypes ==
    [Status               |-> <<"Status">>,
     FetchFirmwareVersion |-> <<>>,
     FirmwareVersion      |-> <<"String">>,
     SetCertChain         |-> <<"Vec<u8>", "Vec<u8>">>,
     NativeAttestation    |-> <<"Vec<u8>", "i32">>,
     TokenData            |-> <<"Vec<u8>", "Vec<u8>">>,
     StartProxy           |-> <<>>,
     ChallengeData        |-> <<"Vec<u8>", "i32">>,
     ProxyAttestation     |-> <<"Vec<u8>", "i32">>,
     CertChain            |-> <<"Vec<Vec<u8>>">>,
     Success              |-> <<>>]

\* The values of a type, within the bounds.
Values(type) ==
    CASE type = "Status"        -> Status
      [] type = "i32"           -> I32
      [] type = "Vec<Vec<u8>>"  -> BoundedSeq(BoundedSeq(Byte, MaxLen), MaxCerts)
      [] OTHER                  -> BoundedSeq(Byte, MaxLen)

\* The values of a variant: one value of its type for each field.
FieldsOf(v) ==
    LET types == FieldTypes[v] IN
    CASE Len(types) = 0 -> {<<>>}
      [] Len(types) = 1 -> {<<a>> : a \in Values(types[1])}
      [] Len(types) = 2 -> Values(types[1]) \X Values(types[2])

Messages == UNION {[tag : {v}, values : FieldsOf(v)] : v \in ToSet(Variants)}

-----------------------------------------------------------------------------
(* The codec *)

\* The index that stands for a variant on the wire: the first is 0.
VariantIndex(v) == (CHOOSE i \in DOMAIN Variants : Variants[i] = v) - 1

LengthPrefixed(bytes) == <<Len(bytes)>> \o bytes

\* An encoding that writes a Vec<u8> without its length.
EncodeFieldBare(type, x) ==
    CASE type \in {"Status", "i32"} -> <<x>>
      [] type = "Vec<Vec<u8>>" -> <<Len(x)>> \o FlattenSeq(x)
      [] OTHER -> x

\* A number is one unit; a Vec<u8> and a String are their length and their
\* bytes; a Vec<Vec<u8>> is the number of its elements and then each of them.
EncodeField(type, x) ==
    CASE type \in {"Status", "i32"} -> <<x>>
      [] type = "Vec<Vec<u8>>" ->
            <<Len(x)>> \o FlattenSeq([i \in DOMAIN x |-> LengthPrefixed(x[i])])
      [] OTHER -> LengthPrefixed(x)

Encode(m) ==
    <<VariantIndex(m.tag)>>
    \o FlattenSeq([i \in DOMAIN m.values |->
                      EncodeField(FieldTypes[m.tag][i], m.values[i])])

\* What a reader can take off the front of bytes: the value read and the
\* bytes behind it.  The readers give the set of what they can take: one
\* reading, or none when the bytes end too early or hold no value of the type.
Taken(value, rest) == [value |-> value, rest |-> rest]

TakeBytes(s) ==
    IF s = <<>> \/ Len(s) < 1 + s[1] THEN {}
    ELSE {Taken(SubSeq(s, 2, 1 + s[1]), SubSeq(s, 2 + s[1], Len(s)))}

\* n values, each read by TakeBytes.
RECURSIVE TakeVecs(_, _)
TakeVecs(n, s) ==
    IF n = 0 THEN {Taken(<<>>, s)}
    ELSE UNION {{Taken(<<first.value>> \o others.value, others.rest) :
                    others \in TakeVecs(n - 1, first.rest)} :
                first \in TakeBytes(s)}

\* A Status is an enum of its own: a number that is no index of it is
\* refused.  An i32 is whatever number is there.
TakeField(type, s) ==
    CASE type \in {"Vec<u8>", "String"}        -> TakeBytes(s)
      [] s = <<>>                               -> {}
      [] type = "Status" /\ s[1] \notin Status  -> {}
      [] type = "Vec<Vec<u8>>"                  -> TakeVecs(s[1], Tail(s))
      [] OTHER                                  -> {Taken(s[1], Tail(s))}

\* The fields of the given types, one after the other.
RECURSIVE TakeFields(_, _)
TakeFields(types, s) ==
    IF types = <<>> THEN {Taken(<<>>, s)}
    ELSE UNION {{Taken(<<first.value>> \o others.value, others.rest) :
                    others \in TakeFields(Tail(types), first.rest)} :
                first \in TakeField(Head(types), s)}

\* Decoding: the index names the variant, its fields follow in order, and
\* nothing may be left over ("decoding MUST reject trailing bytes").  Bytes
\* without an index, with an index no variant has, too few for the fields
\* or with some left over are Malformed.
Decode(bytes) ==
    LET v == Variants[bytes[1] + 1]
        whole == {fields \in TakeFields(FieldTypes[v], Tail(bytes)) :
                    fields.rest = <<>>}
    IN  IF bytes = <<>> \/ bytes[1] >= Len(Variants) \/ whole = {}
        THEN Malformed
        ELSE [tag |-> v, values |-> (CHOOSE fields \in whole : TRUE).value]
=============================================================================
