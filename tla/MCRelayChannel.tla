--------------------------- MODULE MCRelayChannel ---------------------------
(***************************************************************************)
(* RelayChannel for TLC: two units of ciphertext, session ids 0..2,        *)
(* response bodies of up to two records after the id, and writes of an     *)
(* empty buffer and of two that differ.                                    *)
(***************************************************************************)
EXTENDS RelayChannel

CONSTANTS a, b

MCByte == {a, b}

\* The first item of a body: a session id or no number.  The items after it:
\* records, or no base64.
MCIds == [u32 : 0..U32_MAX, bytes : {Malformed}]
MCNoId == [u32 |-> Malformed, bytes |-> Malformed]
MCRecord(bytes) == [u32 |-> Malformed, bytes |-> bytes]

\* Bodies with nothing, one record and two records behind the id, a bad item
\* before, behind and in place of a good one; a body without an id.
MCTails ==
    {<<>>, <<<<a>>>>, <<Malformed>>, <<<<a>>, <<b, a>>>>, <<<<b, a>>, <<a>>>>,
     <<<<a>>, Malformed>>, <<Malformed, <<a>>>>}

MCReplies ==
    {HttpError, <<>>, <<MCNoId>>, <<MCNoId, MCRecord(<<a>>)>>}
    \cup {<<id>> \o [i \in DOMAIN t |-> MCRecord(t[i])] : id \in MCIds, t \in MCTails}

MCData == {<<>>, <<a>>, <<a, b>>}
MCRecords == {<<a>>, <<b, a>>}
=============================================================================
