---------------------------- MODULE RelayChannel ----------------------------
(***************************************************************************)
(* InsecureConnection on its own, driven by a TLS engine that writes and   *)
(* reads as it likes and answered by a host that may return anything: an   *)
(* HTTP error, an empty body, a body whose first item is no number, items  *)
(* that are no base64, any session id.  History variables record what the  *)
(* host handed over and what the engine was given, so that the properties  *)
(* can compare the two.                                                    *)
(*                                                                         *)
(* The host either hands the request to the handler of the Veracruz server *)
(* and the response back (HostRelays), or answers as it likes              *)
(* (HostAnswers).  What is promised of the two ends together is promised   *)
(* while the host has only relayed.                                        *)
(***************************************************************************)
EXTENDS InsecureConnection, VeracruzServer

CONSTANTS
    Data,       \* the buffers the engine writes
    Replies,    \* the outcomes of a POST: HttpError, or a body (a sequence of items)
    MaxRead,    \* bound: the largest buffer the engine reads into
    MaxPosts    \* bound: the number of POSTs in a behaviour

VARIABLES
    nposts,         \* history: the number of POSTs made
    last_assigned,  \* history: the id heading the last body that had one, else 0
    accepted,       \* history: the bytes of the well-formed records received
    delivered,      \* history: the bytes read() has handed to the engine
    relayed,        \* history: the host has only relayed so far
    written,        \* history: the buffers of the writes that returned Ok
    taken           \* history: the records tls_data took

history == <<nposts, last_assigned, accepted, delivered, relayed, written, taken>>
vars == <<connVars, serverVars, history>>

-----------------------------------------------------------------------------
(* What the host handed over, defined without reference to write() *)

BodyWithId(reply) ==
    /\ reply # HttpError
    /\ reply # <<>>
    /\ Head(reply).u32 # Malformed

\* The bytes of the records of a body, in order, up to the first that is no
\* base64.
RECURSIVE RecordBytes(_)
RecordBytes(items) ==
    IF items = <<>> \/ Head(items).bytes = Malformed
    THEN <<>>
    ELSE Head(items).bytes \o RecordBytes(Tail(items))

-----------------------------------------------------------------------------

Init ==
    /\ Create /\ New
    /\ nposts = 0 /\ last_assigned = 0
    /\ accepted = <<>> /\ delivered = <<>>
    /\ relayed = TRUE /\ written = <<>> /\ taken = <<>>

EngineWrites ==
    \E data \in Data :
        /\ nposts < MaxPosts
        /\ WritePost(data)
        /\ nposts' = nposts + 1
        /\ UNCHANGED <<serverVars, last_assigned, accepted, delivered,
                       relayed, written, taken>>

\* The text of a response, nothing, "<session id> <base64> ..." or the
\* Debug form of an error, as the items write() splits it into.
Text(response) ==
    LET body == response.body IN
    [response EXCEPT !.body =
        CASE response.status # 200 -> <<[u32 |-> Malformed, bytes |-> Malformed]>>
          [] body = None           -> <<>>
          [] OTHER -> <<[u32 |-> body.sid, bytes |-> Malformed]>>
                      \o [i \in DOMAIN body.records |->
                             [u32 |-> Malformed, bytes |-> body.records[i]]]]

\* write() returns on a reply, and the history of what the host handed over.
Returns(reply) ==
    /\ WriteReturn(reply)
    /\ last_assigned' = IF BodyWithId(reply) THEN Head(reply).u32
                        ELSE last_assigned
    /\ accepted' = IF BodyWithId(reply)
                   THEN accepted \o RecordBytes(Tail(reply))
                   ELSE accepted
    /\ UNCHANGED <<nposts, delivered>>

HostAnswers ==
    \E reply \in Replies :
        /\ Returns(reply)
        /\ relayed' = FALSE /\ written' = <<>> /\ taken' = <<>>
        /\ UNCHANGED serverVars

HostRelays ==
    \E minted \in NewTlsSession \cup {None} :
      \E out \in TlsData(0, {0}) \cup {None} :
        /\ post # NoPost
        /\ RuntimeManagerRequest(post, minted, out)
        /\ Returns(Posted(Text(Responder(post, minted, out))))
        /\ written' = IF relayed /\ io'.ok
                      THEN Append(written, [sid |-> remote_session_id', data |-> post.data])
                      ELSE written
        /\ taken' = IF relayed /\ RequestError(post, minted, out) = NoError
                    THEN Append(taken, [sid |-> SessionOf(post, minted), data |-> post.data])
                    ELSE taken
        /\ UNCHANGED relayed

\* The embedder of the server uses the enclave beside the handler.
ServerActs ==
    \/ \E session_id \in sessions :
          CloseTlsSession(session_id) /\ UNCHANGED <<connVars, history>>
    \/ ShutdownIsolate /\ UNCHANGED <<connVars, history>>
    \/ PlaintextData /\ UNCHANGED <<connVars, history>>

EngineReads ==
    \E n \in 0..MaxRead :
        /\ Read(n)
        /\ delivered' = delivered \o io'.bytes
        /\ UNCHANGED <<serverVars, nposts, last_assigned, accepted,
                       relayed, written, taken>>

Next == EngineWrites \/ HostAnswers \/ HostRelays \/ ServerActs \/ EngineReads

Spec == Init /\ [][Next]_vars

\* A POST ends, with a response or an error, and the engine reads on while
\* there is something to read.  Nothing is assumed of the engine writing.
FairSpec ==
    /\ Spec
    /\ WF_vars(HostAnswers \/ HostRelays)
    /\ WF_vars(EngineReads)

-----------------------------------------------------------------------------
(* Properties *)

TypeOK ==
    /\ ConnTypeOK /\ ServerTypeOK
    /\ relayed \in BOOLEAN
    /\ {written, taken} \subseteq Seq([sid : 0..U32_MAX, data : Data])
    /\ nposts \in 0..MaxPosts
    /\ last_assigned \in 0..U32_MAX
    /\ accepted \in Seq(Byte)
    /\ delivered \in Seq(Byte)

\* The bytes given to the TLS engine by read(), followed by those still in
\* read_buffer, are exactly the bytes of the well-formed records the host
\* returned, in the order it returned them: read() and the append loop of
\* write() neither lose, repeat nor reorder ciphertext, whatever sizes the
\* engine reads with and whichever writes failed half way.
FifoDelivery == delivered \o read_buffer = accepted

\* Every POST carries the session id that headed the last response body
\* that had one (0 before the first): write() replaces the id as soon as it
\* has parsed it, also when a later item of the same body makes it fail.
PostEchoesLastSessionId ==
    /\ remote_session_id = last_assigned
    /\ post # NoPost => post.sid = last_assigned

\* "Once assigned, the session id is constant for the life of the TLS
\* context": a step never changes a session id that is not 0.  write() has
\* no such check; it stores whatever number heads the body.
SessionIdStable ==
    [][remote_session_id # 0 => remote_session_id' = remote_session_id]_vars

\* While the host only relays, the specification's invariant holds of the
\* two ends together: the handler of the server answers a request that
\* names a session with the id it named, so the id write() stores is the
\* one it sent.
SessionIdStableWhenRelayed ==
    [][relayed' /\ remote_session_id # 0
          => remote_session_id' = remote_session_id]_vars

\* While the host only relays, the writes that returned Ok to the TLS engine
\* are the records tls_data took, in order: a request the handler fails at
\* any step (no record, a poisoned lock, no enclave, no session, the
\* enclave's refusal) reaches the engine as a failed write, by status_code
\* and the status check of write().  After each the client holds the
\* session the record was taken in, or none: write() leaves the id alone on
\* an empty body, so a client whose first record the enclave answered with
\* nothing yet still holds 0 and its next write asks for a session again.
WrittenIsTaken ==
    /\ Len(written) = Len(taken)
    /\ \A i \in DOMAIN written :
          /\ written[i].data = taken[i].data
          /\ written[i].sid \in {taken[i].sid, 0}

\* Every byte of a well-formed record the host returned reaches the TLS
\* engine: read() hands out min(n, len) bytes and keeps the rest, so an engine
\* whose buffer is smaller than read_buffer drains it in several reads and
\* no byte stays behind for good.
AcceptedIsDelivered == []<>(delivered = accepted)
=============================================================================
