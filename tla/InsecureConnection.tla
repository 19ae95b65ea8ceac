------------------------- MODULE InsecureConnection -------------------------
(***************************************************************************)
(* The transport that VeracruzClient hands to the TLS engine               *)
(* (struct InsecureConnection of veracruz_client.rs).  The engine reads    *)
(* and writes ciphertext through the Read and Write traits; write() turns  *)
(* every buffer into one HTTP POST to /runtime_manager and files the       *)
(* records of the response body in read_buffer, read() hands them out.     *)
(*                                                                         *)
(* write() blocks on the thread that performs the POST, so it is two       *)
(* steps here: WritePost puts the request on the wire, WriteReturn         *)
(* processes whatever came back.  What came back is an input: the host     *)
(* that answers is not trusted.                                            *)
(*                                                                         *)
(* Data is abstracted to what the code tells apart.  A unit of ciphertext  *)
(* is a member of Byte.  An item of a response body is known by what       *)
(* parse::<u32> and base64::decode make of it: a number or Malformed, a    *)
(* sequence of Byte or Malformed.                                          *)
(*                                                                         *)
(* The two "lock failed" returns of write() are not outcomes here: the     *)
(* lock on remote_session_id is held for the length of one expression in   *)
(* which nothing can panic, so it is never poisoned.                       *)
(***************************************************************************)
EXTENDS Naturals, Sequences, SequencesExt

CONSTANTS
    Byte,       \* the units of ciphertext the engine writes and reads
    U32_MAX,    \* the largest number parse::<u32> accepts
    Malformed,  \* the outcome of a parse or a decode that fails
    HttpError,  \* a POST that did not end in a 200 response with a text body
    NoPost      \* no POST is in flight

ASSUME U32_MAX \in Nat \ {0}

VARIABLES
    read_buffer,        \* InsecureConnection.read_buffer
    remote_session_id,  \* the number in the shared Option<u32>; it is never None
    post,               \* the request of the POST in flight, or NoPost
    io                  \* what the last read() or write() returned to the engine

connVars == <<read_buffer, remote_session_id, post, io>>

-----------------------------------------------------------------------------
(* Data *)

\* The body of a POST: "<session id> <base64 of the data>".
Request == [sid : 0..U32_MAX, data : Seq(Byte)]

\* A parse that takes what does not fit 32 bits for a number.
ParseWide(item) == IF item.u32 = Malformed THEN U32_MAX + 1 ELSE item.u32

\* The outcomes of parse::<u32> and of base64::decode on an item of a body.
ParseU32(item) == item.u32
Base64Decode(item) == item.bytes

\* The outcome of the thread that posts: the text of a response of status
\* 200, an error for any other.
Posted(response) ==
    IF response.status # 200 THEN HttpError ELSE response.body

\* What read() and write() return: Ok(n), with the bytes read() copied out,
\* or an std::io::Error.
Ok(call, n, bytes) == [call |-> call, ok |-> TRUE, n |-> n, bytes |-> bytes]
Err(call) == [call |-> call, ok |-> FALSE, n |-> 0, bytes |-> <<>>]

\* A loop that steps over an item it cannot decode and carries on.
DecodedItemsSkippingBad(items) ==
    SelectSeq([i \in DOMAIN items |-> Base64Decode(items[i])],
              LAMBDA d : d # Malformed)

\* The items of a body that the loop over body_items.iter().skip(1) decodes
\* before it meets one that base64::decode rejects.
DecodedItems(items) ==
    LET bad == {i \in DOMAIN items : Base64Decode(items[i]) = Malformed}
        stop == Min(bad \cup {Len(items) + 1})
    IN  [i \in 1..(stop - 1) |-> Base64Decode(items[i])]

-----------------------------------------------------------------------------
(* Operations *)

\* The connection as with_policy_and_hash builds it.
Create ==
    /\ read_buffer = <<>>
    /\ remote_session_id = 0
    /\ post = NoPost
    /\ io = Ok("new", 0, <<>>)

\* A later context builds its connection anew.
Recreate ==
    /\ read_buffer' = <<>>
    /\ remote_session_id' = 0
    /\ post' = NoPost
    /\ io' = Ok("new", 0, <<>>)

\* A read() that hands out read_buffer whole or not at all.
ReadWholeOrNothing(n) ==
    LET k == IF n < Len(read_buffer) THEN 0 ELSE Len(read_buffer) IN
    /\ post = NoPost
    /\ io' = Ok("read", k, SubSeq(read_buffer, 1, k))
    /\ read_buffer' = SubSeq(read_buffer, k + 1, Len(read_buffer))
    /\ UNCHANGED <<remote_session_id, post>>

\* read(): as much of read_buffer as fits the engine's buffer of n bytes.
Read(n) ==
    LET k == Min({n, Len(read_buffer)}) IN
    /\ post = NoPost
    /\ io' = Ok("read", k, SubSeq(read_buffer, 1, k))
    /\ read_buffer' = SubSeq(read_buffer, k + 1, Len(read_buffer))
    /\ UNCHANGED <<remote_session_id, post>>

\* A write() that sends the id the connection was built with.
WritePostInitialId(data) ==
    /\ post = NoPost
    /\ post' = [sid |-> 0, data |-> data]
    /\ UNCHANGED <<read_buffer, remote_session_id, io>>

\* write(), up to the POST: the request carries the session id held now.
WritePost(data) ==
    /\ post = NoPost
    /\ post' = [sid |-> remote_session_id, data |-> data]
    /\ UNCHANGED <<read_buffer, remote_session_id, io>>

\* write(), from the POST's outcome on.  The session id is replaced before
\* the items are decoded, and every item decoded before a bad one stays in
\* read_buffer although write() then fails.
WriteReturn(reply) ==
    /\ post # NoPost
    /\ post' = NoPost
    /\ \/ /\ reply = HttpError
          /\ io' = Err("write")
          /\ UNCHANGED <<read_buffer, remote_session_id>>
       \/ /\ reply # HttpError
          /\ reply = <<>>
          /\ io' = Ok("write", Len(post.data), <<>>)
          /\ UNCHANGED <<read_buffer, remote_session_id>>
       \/ /\ reply # HttpError
          /\ reply # <<>>
          /\ ParseU32(Head(reply)) = Malformed
          /\ io' = Err("write")
          /\ UNCHANGED <<read_buffer, remote_session_id>>
       \/ /\ reply # HttpError
          /\ reply # <<>>
          /\ ParseU32(Head(reply)) # Malformed
          /\ LET decoded == DecodedItems(Tail(reply)) IN
             /\ remote_session_id' = ParseU32(Head(reply))
             /\ read_buffer' = read_buffer \o FlattenSeq(decoded)
             /\ io' = IF Len(decoded) = Len(reply) - 1
                      THEN Ok("write", Len(post.data), <<>>)
                      ELSE Err("write")

-----------------------------------------------------------------------------

ConnTypeOK ==
    /\ read_buffer \in Seq(Byte)
    /\ remote_session_id \in 0..U32_MAX
    /\ post \in Request \cup {NoPost}
    /\ io \in [call : {"new", "read", "write"}, ok : BOOLEAN,
               n : Nat, bytes : Seq(Byte)]
=============================================================================
