--------------------------- MODULE VeracruzClient ---------------------------
(***************************************************************************)
(* The client library (struct VeracruzClient of veracruz_client.rs) with   *)
(* what it talks to: its InsecureConnection, the untrusted host that       *)
(* relays TLS records between the POSTs and the enclave, and the runtime   *)
(* manager in the enclave.                                                 *)
(*                                                                         *)
(* A call of the library is a sequence of send()s.  In a send() the engine *)
(* writes the request record by record (Post), each POST returns whatever  *)
(* the host makes it return (HostReplies, HostFails), and when the last    *)
(* has returned the engine reads what is in read_buffer and the call goes  *)
(* on or returns (SendFails and the ...Done actions).  Between any two of  *)
(* them the host may hand the next record to the enclave (HostForward).    *)
(*                                                                         *)
(* Data is abstracted to what the code compares.  A unit of ciphertext is  *)
(* a whole TLS record, named by the message it protects: the host can hold *)
(* records back, drop them and add garbage, but cannot read, forge or      *)
(* reorder them.  A request carries the number of the call that made it,   *)
(* and a response the number and kind of the request it answers; the       *)
(* client never reads these two fields, the properties do.                 *)
(*                                                                         *)
(* The TLS engine and the enclave are not in the sources and are here as   *)
(* the specification has them.  Bounds of the model: a flight of the       *)
(* handshake and a response are one record each, and a request is one      *)
(* record, or two when its payload is in Large.                            *)
(*                                                                         *)
(* The returns of the code that no state reaches are left out of the       *)
(* actions and named where they would stand: "lock failed" and LockFailed  *)
(* (no holder of the lock on remote_session_id can panic, so it is never   *)
(* poisoned), the expect() of new() (from_json has hashed the policy it    *)
(* returns), and UnableToReadError (read_bytes_to_end cannot fail).        *)
(***************************************************************************)
EXTENDS Naturals, Sequences, FiniteSets, FiniteSetsExt

CONSTANTS
    PolicyHash,     \* fingerprints of policies
    RuntimeHash,    \* measurements of runtime-manager binaries
    Genuine,        \* the measurements of binaries that follow the protocol
    Policies,       \* the policies a caller may build a client with
    Configs,        \* the certificate and key files a caller may name
    Calls,          \* the calls a caller may make: operation, path, payload
    Blob,           \* programs, data and results
    Large,          \* the payloads the engine writes as two records
    Enclaves,       \* the enclaves the host may run: certificate and policy
    HostFaults,     \* what the host may do: "error", "withhold", "garble"
    CallerDiscards, \* TRUE: the caller drops a client whose call failed
    MaxCalls,       \* bound: the number of calls in a behaviour, new() included
    U32_MAX, Malformed, HttpError, NoPost,  \* as in InsecureConnection
    None,           \* an absent optional value
    NonUtf8,        \* a path that to_str() rejects
    Untrusted       \* a certificate the proxy CA of the policy did not sign

ASSUME /\ Genuine \subseteq RuntimeHash
       /\ Large \subseteq Blob
       /\ HostFaults \subseteq {"error", "withhold", "garble"}
       /\ CallerDiscards \in BOOLEAN
       /\ MaxCalls \in Nat

VARIABLES
    pc,         \* where the caller's thread is: absent, idle, posting, posted, written
    nwritten,   \* the records of the request write_all() has given to write()
    stage,      \* which send() of the call is under way
    call,       \* the call under way
    policy,     \* VeracruzClient.policy and .policy_hash
    client_cert,\* the certificate push_cert() gave the TLS configuration
    peer_cert,  \* tls_context.peer_cert(): None before a handshake, then a list
    result,     \* what the last call returned; Pending while one is under way
    ncalls,     \* history: the number of calls made, new() included
    tainted,    \* history: check_policy_hash or check_runtime_hash failed here
    read_buffer, remote_session_id, post, io,   \* the InsecureConnection
    inbox,      \* host: requests received and not yet given to the enclave
    held,       \* host: records of the enclave not yet returned to the client
    enclave,    \* the enclave's certificate and the policy it was provisioned with
    rm          \* the runtime manager: whether it runs, all it has answered,
                \* and the first record of a request it has not all of

built == <<policy, client_cert>>     \* what new() fixes for the client's life
clientVars ==
    <<pc, nwritten, stage, call, policy, client_cert, peer_cert, result,
      ncalls, tainted>>
connVars == <<read_buffer, remote_session_id, post, io>>
hostVars == <<inbox, held>>
vars == <<clientVars, connVars, hostVars, enclave, rm>>

-----------------------------------------------------------------------------
(* Messages *)

Platforms == <<"Linux", "Nitro", "IceCap">>
NoHash == None      \* the policy has no runtime hash for a platform
BadHex == Malformed \* it has one that hex::decode rejects

Uploads == {"send_program", "send_data"}
Reads == {"request_compute", "get_results"}
DataPlane == Uploads \cup Reads
Operations == DataPlane \cup {"request_shutdown"}
Handshake == {"ClientHello", "ClientFinished"}
RequestKinds == Handshake \cup {"RequestPolicyHash"} \cup Operations

Char == {"/", "f"}
WirePath == Seq(Char)

\* A record of a request: the request, and which part of it the record is.
Requests ==
    [kind : RequestKinds, call : 0..MaxCalls,
     path : WirePath \cup {None}, data : Blob \cup {None},
     part : {"whole", "first", "last"}]

\* A certificate of an enclave: the runtime hash in its extension, and
\* whether webpki takes it for an end-entity certificate.
Certificates ==
    [extension : RuntimeHash \cup {None}, webpki : BOOLEAN] \cup {Untrusted}

\* A record no peer of this session wrote: the engine refuses it.
Junk == [kind |-> "Junk"]

Responses ==
    [kind : {"ServerHello"}, cert : Certificates]
    \cup [kind : {"ServerFinished", "Alert"}]
    \cup [kind : {"Response"}, status : {"SUCCESS", "FAILED"},
          policy_hash : PolicyHash \cup {None, NonUtf8},
          result : Blob \cup {None}, re : 1..MaxCalls, for : RequestKinds]

Records == Requests \cup Responses \cup {Junk}

Conn == INSTANCE InsecureConnection WITH Byte <- Records

\* The items of a response body, as the host writes them.
IdItem(n) == [u32 |-> n, bytes |-> Malformed]
RecordItem(r) == [u32 |-> Malformed, bytes |-> <<r>>]
Garbage == [u32 |-> Malformed, bytes |-> Malformed]

\* The session the enclave opens for a context.  Contexts follow one another,
\* so one number stands for all of them.
SessionId == 1

NoError == None
Success(op, c, v) == [op |-> op, call |-> c, ok |-> TRUE, err |-> NoError, value |-> v]
Failure(op, c, e) == [op |-> op, call |-> c, ok |-> FALSE, err |-> e, value |-> None]
Pending == Success("none", 0, None)     \* no call has returned yet

-----------------------------------------------------------------------------
(* Pure functions of the client *)

\* A sequence of checks made one after the other, each returning early on
\* its error: the error of the first that fails.
Require(holds, error) == IF holds THEN NoError ELSE error
FirstError(checks) ==
    LET failed == {i \in DOMAIN checks : checks[i] # NoError}
    IN  IF failed = {} THEN NoError ELSE checks[Min(failed)]

\* A certificate file as one reading finds it: whether it can be read, how
\* many PEM blocks mbedtls finds in it, and of the first of them whether
\* x509_parser accepts it, whether mbedtls can read its public key, whether
\* that is the key of the key file and whether its validity has run out.
CertFiles ==
    [readable : BOOLEAN, pem : {"none", "one", "several"}, x509 : BOOLEAN,
     pki : BOOLEAN, key_matches : BOOLEAN, expired : BOOLEAN]

\* read_cert: the file as with_policy_and_hash() reads it first.
ReadCert(file) ==
    <<Require(file.readable,        "IOError"),
      Require(file.pem # "none",    "TLSUnspecifiedError"),
      Require(file.pem = "one",     "InvalidLengthError")>>

\* read_private_key.
ReadPrivateKey(key) ==
    <<Require(key # "unreadable",   "IOError"),
      Require(key # "not_a_key",    "TLSUnspecifiedError")>>

\* A check_certificate_validity that does not look at the validity.
CheckKeyOnly(file) ==
    <<Require(file.readable,        "IOError"),
      Require(file.pem # "none",    "X509ParserPEMError"),
      Require(file.x509,            "X509ParserError"),
      Require(file.pki,             "TlsError"),
      Require(file.key_matches,     "MismatchError")>>

\* check_certificate_validity: it opens the file again, takes the first PEM
\* block, and compares its key and its validity.
CheckCertificateValidity(file) ==
    CheckKeyOnly(file) \o <<Require(~file.expired, "CertificateExpireError")>>

\* new() and with_policy_and_hash() before the handshake: the policy, then
\* the certificate file, the key file, the certificate file as it is read
\* the second time, the proxy certificate of the policy, its ciphersuite,
\* and around the ciphersuite the calls of mbedtls that end the constructor
\* when the library fails them (cfg.mbedtls names the one that fails).
ConfigError(cfg, p) ==
    FirstError(
        <<Require(p.json # Malformed,       "PolicyError")>>
        \o ReadCert(cfg.cert)
        \o ReadPrivateKey(cfg.key)
        \o CheckCertificateValidity(cfg.cert_again)
        \o <<Require(p.proxy_cert_ok,      "X509ParserError"),
             Require(cfg.mbedtls \notin {"set_min_version", "set_max_version"},
                                           "TlsError"),
             Require(p.ciphersuite_known,  "TLSInvalidCiphersuiteError"),
             Require(cfg.mbedtls \notin {"CtrDrbg::new", "push_cert"},
                                           "TlsError")>>)

\* The path a request carries: a leading "/" is put before a path without.
EnforceLeadingBackslash(path) ==
    IF path # <<>> /\ Head(path) = "/" THEN path ELSE <<"/">> \o path

\* send(), the ? on read_to_end(): the engine fails the read at a record it
\* refuses.
ReadError(response) ==
    Require(\A i \in DOMAIN response : response[i] # Junk, "IOError")

\* parse_runtime_manager_response: the one message of the response, if the
\* response is one message of the session protocol.
ParseResponse(response) ==
    IF Len(response) = 1 /\ response[1].kind = "Response"
    THEN response[1] ELSE Malformed

\* The first platform, in the order compare_runtime_hash tries them, whose
\* hash in policy p is one of hashes; one past the last if there is none.
FirstPlatform(p, hashes) ==
    Min({i \in DOMAIN Platforms : p.runtime_manager_hash[Platforms[i]] \in hashes}
        \cup {Len(Platforms) + 1})

\* A loop that falls out of its end with Ok.
CompareWithoutVerdict(p, received) ==
    Require(FirstPlatform(p, {BadHex}) > Len(Platforms),
            "FromHexError")

\* A loop that gives up at the first platform without a hash.
CompareUntilGap(p, received) ==
    LET gap == FirstPlatform(p, {NoHash})
        match == FirstPlatform(p, {received})
        bad == FirstPlatform(p, {BadHex})
    IN  FirstError(<<
            Require(bad >= Min({match, gap}), "FromHexError"),
            Require(match < gap,             "NoMatchingRuntimeIsolateHash") >>)

\* compare_runtime_hash: a platform without a hash is passed over, a hash
\* that is no hex ends the loop with an error, a hash that is the received
\* one ends it with Ok.
CompareRuntimeHash(p, received) ==
    LET match == FirstPlatform(p, {received})
        bad == FirstPlatform(p, {BadHex})
    IN  FirstError(<<
            Require(bad >= match,            "FromHexError"),
            Require(match <= Len(Platforms), "NoMatchingRuntimeIsolateHash") >>)

\* check_runtime_hash: peer_cert() without a session, with no list or an
\* empty one, then the first certificate of the list.
CheckRuntimeHash(p, certs) ==
    CASE certs = None                   -> "NoPeerCertificatesError"
      [] certs = <<>>                   -> "UnexpectedCertificateError"
      [] ~Head(certs).webpki            -> "WebpkiError"
      [] Head(certs).extension = None   -> "RuntimeHashExtensionMissingError"
      [] OTHER -> CompareRuntimeHash(p, Head(certs).extension)

\* A check that looks at the status only.
CheckStatusOnly(p, response) ==
    LET parsed == ParseResponse(response) IN
    FirstError(<<
        Require(parsed # Malformed,          "TransportProtocolError"),
        Require(parsed = Malformed \/ parsed.status = "SUCCESS",
                                             "ResponseError") >>)

\* check_policy_hash, from the response on.
CheckPolicyHash(p, response) ==
    LET parsed == ParseResponse(response) IN
    FirstError(<<
        CheckStatusOnly(p, response),
        Require(parsed = Malformed \/ parsed.policy_hash # NonUtf8,
                                             "Utf8Error"),
        Require(parsed = Malformed \/ parsed.policy_hash = p.hash,
                                             "MismatchError") >>)

\* A call that does not look at the status.
ErrorWhateverStatus(c, parsed) ==
    Require(parsed # Malformed, "TransportProtocolError")

\* The error of send_program, send_data, request_compute or get_results,
\* from the response to its request on.
ResponseErrorOf(c, parsed) ==
    FirstError(<<
        Require(parsed # Malformed,          "TransportProtocolError"),
        Require(parsed = Malformed \/ parsed.status = "SUCCESS",
                                             "ResponseError"),
        Require(parsed = Malformed \/ c.op \notin Reads \/ parsed.result # None,
                                    "VeracruzServerResponseNoResultError") >>)

\* request_shutdown, once send() has returned: the response is not looked at.
ShutdownResult(c, response) == Success(c.op, c.id, None)

\* What a call returns, from the read_to_end() of its request on.
RequestResult(c, response) ==
    LET parsed == ParseResponse(response)
        error == ResponseErrorOf(c, parsed)
    IN  CASE ReadError(response) # NoError ->
                Failure(c.op, c.id, ReadError(response))
          [] c.op = "request_shutdown" -> ShutdownResult(c, response)
          [] error # NoError -> Failure(c.op, c.id, error)
          [] OTHER -> Success(c.op, c.id,
                              IF c.op \in Reads THEN parsed.result ELSE None)

\* The request of the send() under way.
RequestOf(s, c) ==
    LET request(kind, id, path, data) ==
            [kind |-> kind, call |-> id, path |-> path, data |-> data,
             part |-> "whole"]
    IN  CASE s = "hello"    -> request("ClientHello", 0, None, None)
          [] s = "finished" -> request("ClientFinished", 0, None, None)
          [] s = "probe"    -> request("RequestPolicyHash", c.id, None, None)
          [] s = "request"  ->
                request(c.op, c.id,
                        IF c.path = None THEN None
                        ELSE EnforceLeadingBackslash(c.path),
                        c.data)

\* The records write_all() gives to write(), one call each: the engine
\* cuts a request with a payload past the size of a record in two.
RecordsOf(request) ==
    IF request.data \in Large
    THEN <<[request EXCEPT !.part = "first"], [request EXCEPT !.part = "last"]>>
    ELSE <<request>>

-----------------------------------------------------------------------------
(* The enclave *)

\* What the runtime manager may answer to a request.  A genuine one answers
\* the handshake with its certificate, the probe with the policy it was
\* provisioned with, an upload with SUCCESS or (a path the policy does not
\* grant) FAILED, a read with a result or FAILED; it ends the handshake of
\* a client whose certificate has run out or is of another key than the
\* client signs with.  Any other binary answers what it likes, under the
\* certificate that was issued for it.
Answers(req) ==
    LET reply(status, hash, res) ==
            [kind |-> "Response", status |-> status, policy_hash |-> hash,
             result |-> res, re |-> req.call, for |-> req.kind]
        honest ==
            CASE req.kind = "RequestPolicyHash" ->
                    {reply("SUCCESS", enclave.policy, None)}
              [] req.kind = "request_shutdown" ->
                    {reply("SUCCESS", None, None)}
              [] req.kind \in Uploads ->
                    {reply(s, None, None) : s \in {"SUCCESS", "FAILED"}}
              [] req.kind \in Reads ->
                    {reply("SUCCESS", None, r) : r \in Blob \cup {None}}
                    \cup {reply("FAILED", None, None)}
        rogue ==
            {reply(s, h, r) : s \in {"SUCCESS", "FAILED"},
                              h \in PolicyHash \cup {None, NonUtf8},
                              r \in Blob \cup {None}}
        genuine == enclave.cert # Untrusted /\ enclave.cert.extension \in Genuine
    IN  CASE req.kind = "ClientHello" ->
                {[kind |-> "ServerHello", cert |-> enclave.cert]}
          [] req.kind = "ClientFinished" ->
                IF genuine /\ (~client_cert.key_matches \/ client_cert.expired)
                THEN {[kind |-> "Alert"]}
                ELSE {[kind |-> "ServerFinished"]}
          [] OTHER -> IF genuine THEN honest ELSE rogue

-----------------------------------------------------------------------------
(* The caller and the client *)

Init ==
    /\ pc = "absent" /\ nwritten = 0 /\ stage = "none" /\ call = None
    /\ policy = None /\ client_cert = None /\ peer_cert = None
    /\ result = Pending
    /\ ncalls = 0 /\ tainted = FALSE
    /\ Conn!Create
    /\ inbox = <<>> /\ held = <<>>
    /\ enclave \in Enclaves
    /\ rm = [alive |-> TRUE, answered |-> {}, partial |-> None]

\* A call returns r.  A failed new() leaves no client behind.
Return(r) ==
    /\ result' = r
    /\ pc' = IF r.op = "new" /\ ~r.ok THEN "absent" ELSE "idle"
    /\ nwritten' = 0
    /\ stage' = "none"
    /\ call' = None

\* The call goes on to its next send().
GoOn(s) ==
    /\ pc' = "posting" /\ nwritten' = 0 /\ stage' = s
    /\ UNCHANGED <<call, result>>

\* new() and with_policy_and_hash(), up to ctx.establish().
New(cfg, p) ==
    /\ pc = "absent"
    /\ ncalls < MaxCalls
    /\ ncalls' = ncalls + 1
    /\ IF ConfigError(cfg, p) # NoError
       THEN /\ result' = Failure("new", 0, ConfigError(cfg, p))
            /\ UNCHANGED <<pc, nwritten, stage, call, built, peer_cert,
                           tainted, connVars, hostVars>>
       ELSE /\ policy' = p
            /\ client_cert' = cfg.cert
            /\ peer_cert' = None
            /\ tainted' = FALSE
            /\ Conn!Recreate
            /\ pc' = "posting" /\ nwritten' = 0 /\ stage' = "hello"
            /\ result' = Pending
            /\ inbox' = <<>> /\ held' = <<>>
            /\ UNCHANGED call
    /\ UNCHANGED <<enclave, rm>>

\* The caller drops the client.
Discard ==
    /\ pc = "idle"
    /\ pc' = "absent"
    /\ UNCHANGED <<nwritten, stage, call, built, peer_cert, result, ncalls, tainted,
                   connVars, hostVars, enclave, rm>>

\* The caller makes a call: every one but request_shutdown begins with
\* check_policy_hash.
BeginCall(c) ==
    /\ pc = "idle"
    /\ ncalls < MaxCalls
    /\ CallerDiscards => result.ok
    /\ ncalls' = ncalls + 1
    /\ call' = [op |-> c.op, path |-> c.path, data |-> c.data, id |-> ncalls + 1]
    /\ stage' = IF c.op = "request_shutdown" THEN "request" ELSE "probe"
    /\ pc' = "posting" /\ nwritten' = 0
    /\ result' = Pending
    /\ UNCHANGED <<built, peer_cert, tainted, connVars, hostVars, enclave, rm>>

\* The records of the send() under way that are yet to be written.
ToWrite == SubSeq(RecordsOf(RequestOf(stage, call)), nwritten + 1,
                  Len(RecordsOf(RequestOf(stage, call))))

\* send(), write_all(): the engine gives write() the next record of the
\* request, the first, or the one after a record whose write() returned Ok.
Post ==
    /\ pc = "posting" \/ (pc = "written" /\ io.ok)
    /\ ToWrite # <<>>
    /\ Conn!WritePost(<<Head(ToWrite)>>)
    /\ inbox' = Append(inbox, Head(ToWrite))
    /\ nwritten' = nwritten + 1
    /\ pc' = "posted"
    /\ UNCHANGED <<stage, call, built, peer_cert, result, ncalls, tainted,
                   held, enclave, rm>>

\* A send() that posts its record again when the POST has failed.
SendRetries ==
    /\ pc = "written"
    /\ ~io.ok
    /\ pc' = "posting" /\ nwritten' = nwritten - 1
    /\ UNCHANGED <<stage, call, built, peer_cert, result, ncalls, tainted,
                   connVars, hostVars, enclave, rm>>

\* send(), write_all() failed: the call returns the error with the records
\* after the failed one unwritten, and what write() put in read_buffer
\* before it failed stays there.  A failed check_policy_hash is remembered.
SendFails ==
    /\ pc = "written"
    /\ ~io.ok
    /\ Return(Failure(IF stage \in {"hello", "finished"} THEN "new" ELSE call.op,
                      IF call = None THEN 0 ELSE call.id, "IOError"))
    /\ tainted' = (tainted \/ stage = "probe")
    /\ UNCHANGED <<built, peer_cert, ncalls, connVars, hostVars, enclave, rm>>

\* A read_to_end() that waits until there is something to read.
ReadWhenThereIs(s) ==
    /\ pc = "written"
    /\ io.ok
    /\ stage = s
    /\ ToWrite = <<>>
    /\ read_buffer # <<>>
    /\ Conn!Read(Len(read_buffer))

\* send(), read_to_end(), once write_all() has written every record: the
\* engine is given all that read_buffer holds.
ReadToEnd(s) ==
    /\ pc = "written"
    /\ io.ok
    /\ stage = s
    /\ ToWrite = <<>>
    /\ Conn!Read(Len(read_buffer))

\* ctx.establish(), first flight: the certificate of the enclave is verified
\* against the proxy CA of the policy.
HelloDone ==
    /\ ReadToEnd("hello")
    /\ LET flight == read_buffer IN
       IF Len(flight) = 1 /\ flight[1].kind = "ServerHello"
          /\ flight[1].cert # Untrusted
       THEN /\ peer_cert' = <<flight[1].cert>>
            /\ GoOn("finished")
       ELSE /\ Return(Failure("new", 0, "TlsError"))
            /\ UNCHANGED peer_cert
    /\ UNCHANGED <<built, ncalls, tainted, hostVars, enclave, rm>>

\* ctx.establish(), second flight, in which the client presents its
\* certificate, and the Ok of with_policy_and_hash().
FinishedDone ==
    /\ ReadToEnd("finished")
    /\ Return(IF read_buffer = <<[kind |-> "ServerFinished"]>>
              THEN Success("new", 0, None)
              ELSE Failure("new", 0, "TlsError"))
    /\ UNCHANGED <<built, peer_cert, ncalls, tainted, hostVars, enclave, rm>>

\* The checks that stand before the request of a call: check_policy_hash on
\* the response just read, check_runtime_hash on the peer certificate, and
\* the path's to_str().
ProbeError ==
    FirstError(<<
        ReadError(read_buffer),
        CheckPolicyHash(policy, read_buffer),
        CheckRuntimeHash(policy, peer_cert),
        Require(call.path # NonUtf8, "InvalidPath") >>)

\* The call goes on to its request, or returns the error of a check.  A
\* check_policy_hash or check_runtime_hash that failed is remembered.
ProbeDone ==
    /\ ReadToEnd("probe")
    /\ IF ProbeError = NoError
       THEN GoOn("request")
       ELSE Return(Failure(call.op, call.id, ProbeError))
    /\ tainted' = (tainted \/ ProbeError \notin {NoError, "InvalidPath"})
    /\ UNCHANGED <<built, peer_cert, ncalls, hostVars, enclave, rm>>

\* The rest of send_program, send_data, request_compute, get_results and
\* request_shutdown.
RequestDone ==
    /\ ReadToEnd("request")
    /\ Return(RequestResult(call, read_buffer))
    /\ UNCHANGED <<built, peer_cert, ncalls, tainted, hostVars, enclave, rm>>

-----------------------------------------------------------------------------
(* The host *)

\* The request a record completes in the runtime manager, if it does: one
\* that is whole when the manager waits for no other, or the last record of
\* the one it has the first of.
Completed(record) ==
    IF \/ rm.partial = None /\ record.part = "whole"
       \/ rm.partial # None /\ record.part = "last"
          /\ record = [rm.partial EXCEPT !.part = "last"]
    THEN {[record EXCEPT !.part = "whole"]}
    ELSE {}

\* The host gives the oldest record to the enclave and keeps the answer.
\* The runtime manager answers a request when it has all of it; it keeps
\* the first record of one and takes what follows for the rest of it.
HostForward ==
    /\ inbox # <<>>
    /\ rm.alive
    /\ \/ \E request \in Completed(Head(inbox)) :
            \E answer \in Answers(request) :
                /\ held' = Append(held, answer)
                /\ rm' = [alive |-> request.kind # "request_shutdown",
                          answered |-> rm.answered \cup {answer},
                          partial |-> None]
       \/ /\ Completed(Head(inbox)) = {}
          /\ rm' = [rm EXCEPT !.partial = IF @ = None THEN Head(inbox) ELSE @]
          /\ UNCHANGED held
    /\ inbox' = Tail(inbox)
    /\ UNCHANGED <<clientVars, connVars, enclave>>

\* The POST returns a body: the session id and the first k records the host
\* holds, and behind them what a host that garbles adds, an item that is no
\* base64 or a record of its own making.  An honest host has given the
\* request to the enclave and returns all it holds.
HostReplies(k, added) ==
    /\ pc = "posted"
    /\ "withhold" \in HostFaults \/ (inbox = <<>> /\ k = Len(held))
    /\ added # <<>> => "garble" \in HostFaults
    /\ Conn!WriteReturn(
          IF k = 0 /\ added = <<>> THEN <<>>
          ELSE <<IdItem(SessionId)>> \o [i \in 1..k |-> RecordItem(held[i])]
               \o added)
    /\ held' = SubSeq(held, k + 1, Len(held))
    /\ pc' = "written"
    /\ UNCHANGED <<nwritten, stage, call, built, peer_cert, result, ncalls,
                   tainted, inbox, enclave, rm>>

\* The POST fails: no connection, a status that is not 200, the deadline.
\* A host whose enclave is gone can do nothing else.
HostFails ==
    /\ pc = "posted"
    /\ "error" \in HostFaults \/ ~rm.alive
    /\ Conn!WriteReturn(HttpError)
    /\ pc' = "written"
    /\ UNCHANGED <<nwritten, stage, call, built, peer_cert, result, ncalls,
                   tainted, hostVars, enclave, rm>>

-----------------------------------------------------------------------------

\* What a host that garbles puts behind the records of a body.
Additions == {<<>>, <<Garbage>>, <<RecordItem(Junk)>>}

PostReturns ==
    \/ HostFails
    \/ \E k \in 0..Len(held), added \in Additions : HostReplies(k, added)

Continue ==
    SendFails \/ HelloDone \/ FinishedDone \/ ProbeDone \/ RequestDone

Next ==
    \/ \E cfg \in Configs, p \in Policies : New(cfg, p)
    \/ Discard
    \/ \E c \in Calls : BeginCall(c)
    \/ Post
    \/ SendFails
    \/ HelloDone
    \/ FinishedDone
    \/ ProbeDone
    \/ RequestDone
    \/ HostForward
    \/ HostFails
    \/ \E k \in 0..Len(held), added \in Additions : HostReplies(k, added)

\* A call under way goes on: the engine writes, the POST returns (reqwest
\* gives every request a deadline), the engine reads.  Nothing is assumed of
\* the caller, nor of what the host does with a request.
Fairness ==
    /\ WF_vars(Post)
    /\ WF_vars(PostReturns)
    /\ WF_vars(Continue)

Spec == Init /\ [][Next]_vars
FairSpec == Spec /\ Fairness

-----------------------------------------------------------------------------
(* Properties *)

ResultType ==
    [op : Operations \cup {"new", "none"}, call : 0..MaxCalls, ok : BOOLEAN,
     err : STRING \cup {NoError}, value : Blob \cup {None}]

\* The variables hold values of their types.  In particular a
\* request_compute or get_results that returns Ok returns a result: the
\* has_result() test stands between a response without one and the caller.
TypeOK ==
    /\ pc \in {"absent", "idle", "posting", "posted", "written"}
    /\ nwritten \in 0..2
    /\ stage \in {"none", "hello", "finished", "probe", "request"}
    /\ call = None
       \/ /\ [op |-> call.op, path |-> call.path, data |-> call.data] \in Calls
          /\ call.id \in 1..MaxCalls
    /\ policy \in Policies \cup {None}
    /\ client_cert \in CertFiles \cup {None}
    /\ peer_cert \in {None} \cup {<<cert>> : cert \in Certificates}
    /\ result \in ResultType
    /\ result.ok /\ result.op \in Reads => result.value \in Blob
    /\ ncalls \in 0..MaxCalls
    /\ tainted \in BOOLEAN
    /\ Conn!ConnTypeOK
    /\ inbox \in Seq(Requests)
    /\ held \in Seq(Responses)
    /\ enclave \in Enclaves
    /\ rm \in [alive : BOOLEAN, answered : SUBSET Responses,
                partial : Requests \cup {None}]

\* A request that carries a program, data, or the name of what to compute or
\* read is on its way.
PayloadPosted == post # NoPost /\ post.data[1].kind \in DataPlane

\* The runtime hashes policy p approves.
Approved(p) ==
    {p.runtime_manager_hash[Platforms[i]] : i \in DOMAIN Platforms}
    \cap RuntimeHash

\* No program, data, compute or read request leaves the client for an
\* enclave whose runtime the client's policy does not approve: send_program,
\* send_data, request_compute and get_results run check_runtime_hash on the
\* peer certificate first, whatever the host did to the earlier calls.
PayloadOnlyToApprovedRuntime ==
    PayloadPosted =>
        /\ enclave.cert # Untrusted
        /\ enclave.cert.extension \in Approved(policy)

\* No such request leaves the client for a genuine runtime that was
\* provisioned with another policy than the client's: check_policy_hash
\* stands before every one of them, and no response the host can swap in for
\* the probe's carries the client's hash.
PayloadOnlyUnderAgreedPolicy ==
    PayloadPosted /\ enclave.cert.extension \in Genuine =>
        enclave.policy = policy.hash

\* compare_runtime_hash rejects for the reason it gives:
\* NoMatchingRuntimeIsolateHash only if no platform of the policy has the
\* hash of the enclave (a platform without a hash is passed over, not the
\* end of the search), FromHexError only if a hash that is no hex comes
\* before the first that matches.
RuntimeVerdictIsJustified ==
    pc = "idle" /\ ~result.ok /\ peer_cert # None =>
        /\ result.err = "NoMatchingRuntimeIsolateHash" =>
              Head(peer_cert).extension \notin Approved(policy)
        /\ result.err = "FromHexError" =>
              FirstPlatform(policy, {BadHex})
                < FirstPlatform(policy, {Head(peer_cert).extension})

\* A call that returns Ok was answered by the enclave, for this very call
\* and operation, with SUCCESS and with the result the caller is given:
\* the response send() reads is the response to the request it wrote.  This
\* rests on the caller dropping a client whose call failed; the library
\* itself keeps no record of a failed send().
OkMeansEnclaveDidIt ==
    result.ok /\ result.op \in DataPlane =>
        \E answer \in rm.answered :
            /\ answer.kind = "Response"
            /\ answer.re = result.call /\ answer.for = result.op
            /\ answer.status = "SUCCESS"
            /\ answer.result = result.value

\* Every call returns, whatever the host does with the requests, as long as
\* every POST ends: send() never waits for a response the host held back,
\* and nothing is tried again.
CallsReturn == pc \in {"posting", "posted", "written"} ~> pc \in {"idle", "absent"}

\* The enclave answers every request it is given once: no request of a call
\* is written twice, so no two different answers exist to the same request.
\* send() returns the error of a POST that failed, although the host may
\* have passed the request on before it failed, and never posts it again.
EnclaveSeesEachRequestOnce ==
    \A a, b \in rm.answered :
        a.kind = "Response" /\ b.kind = "Response"
        /\ a.re = b.re /\ a.for = b.for => a = b

\* "Certificate validity is checked against the paired key ... and against
\* expiration", "expired certificate, key/cert mismatch: fatal at
\* construction": the certificate the handshake presents to the peer, before
\* the client knows what runs there, is one whose key is the client's and
\* whose validity has not run out.  with_policy_and_hash() gives push_cert()
\* what read_cert found and checks what check_certificate_validity finds
\* when it opens the file again.
ClientCertificateWasChecked ==
    post # NoPost /\ post.data[1].kind = "ClientFinished" =>
        client_cert.key_matches /\ ~client_cert.expired

\* "Runtime-hash verifier accepts iff the extracted extension bytes equal
\* some runtime_hash_for(platform)": the other direction of
\* PayloadOnlyToApprovedRuntime, that check_runtime_hash does not reject an
\* enclave whose hash the policy has.  compare_runtime_hash returns at the
\* first hash hex::decode rejects, before it has tried the platforms after.
VerifierAcceptsApproved ==
    /\ pc = "idle" /\ peer_cert # None
    /\ Head(peer_cert).extension \in Approved(policy)
    => result.err \notin {"FromHexError", "NoMatchingRuntimeIsolateHash"}

\* The requests send() wrote whose response the engine has not read: those
\* on their way to the enclave, and those whose response is on its way back.
Outstanding ==
    LET answered(records) ==
            {<<records[i].re, records[i].for>> :
                i \in {j \in DOMAIN records : records[j].kind = "Response"}}
    IN  {<<inbox[i].call, inbox[i].kind>> : i \in DOMAIN inbox}
        \cup answered(held) \cup answered(read_buffer)

\* "TLS context ... Invariant: at most one outstanding request at a time per
\* context": of the requests send() wrote, at most one has a response the
\* engine has not read.  send() returns when the POST has failed or brought
\* nothing, and the next call writes on the same context.
AtMostOneOutstandingRequest == Cardinality(Outstanding) <= 1

\* "A failed check_policy_hash or check_runtime_hash taints the context;
\* subsequent data-plane calls MUST refuse to run": once a check of the
\* enclave has failed on a client, no payload request leaves it.  The
\* library has no such mark; every call runs the checks anew.
TaintedContextRefuses == tainted => ~PayloadPosted

\* "request_shutdown is best-effort and MUST NOT raise on transport failure
\* after the shutdown record has been sent": request_shutdown returns Ok.
\* The library returns the error of send().
ShutdownBestEffort == result.op = "request_shutdown" => result.ok
=============================================================================
