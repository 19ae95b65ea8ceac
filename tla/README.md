# Veracruz client, relay, server, framed transport and attestation server: TLA+ models

Veracruz runs computations inside an enclave. A client holds a policy, opens a
TLS session with the runtime manager in the enclave, and uploads programs and
data and reads results over it. The TLS records do not travel on a socket: the
client hands each buffer of ciphertext to an untrusted host as an HTTP POST, and
the host gives the records to the enclave and returns the enclave's records in
the response body. The host and the root enclave exchange messages as
length-prefixed frames on a stream, and a proxy attestation server issues the
certificates the enclaves present. This directory models the client and its
relay transport, the Veracruz server the relay ends at, the framed transport
with the root enclave's messages, and the attestation server's start-up and
routing, in TLA+, and checks them with TLC.

## 1. Inventory of the system

| Part | Source | State | Operations |
|---|---|---|---|
| `InsecureConnection` | `veracruz-client/src/veracruz_client.rs` 40-112 | `read_buffer`, shared `remote_session_id` | `read`, `write` (POST, parse the id, decode and append the records), `flush` |
| `VeracruzClient` | same file, 25-36 and 114-532 | TLS context, policy, policy hash, shared session id | `new`, `with_policy_and_hash`, `send_program`, `send_data`, `request_compute`, `get_results`, `request_shutdown`, `check_policy_hash`, `check_runtime_hash`, `compare_runtime_hash`, `send` |
| Proxy attestation server | `proxy-attestation-server/src/server.rs` | process-wide debug flag, CA certificate and key | `server` (start-up), `psa_router`, `nitro_router` |
| Framed transport | `io-utils/src/tcp.rs` | a stream | `send_message`, `receive_message` |
| Nitro root enclave messages | `veracruz-utils/src/platform/nitro/nitro.rs` | none (an enum) | none |
| `VeracruzServer` trait, errors | `veracruz-server/src/common.rs` | the enclave behind the trait | `new`, `plaintext_data`, `new_tls_session`, `close_tls_session`, `tls_data`, `shutdown_isolate`; the conversions into `VeracruzServerError`; `error_response`, `status_code` |
| TLS engine, policy parser, session protocol codec, runtime manager | not in the sources | | |

How they interact. Every call of the client but `request_shutdown` first sends
a policy-hash probe (`check_policy_hash`), then checks the runtime hash in the
enclave's certificate against the policy (`check_runtime_hash`), then sends its
request. Each of these is one `send()`: `write_all` makes the TLS engine call
`InsecureConnection::write` once for every record it cuts the request into,
each call makes one POST and files the records of the response in
`read_buffer`; `read_to_end` makes the engine call `read` until `read_buffer`
is empty.

What makes it hard. The host is not trusted: it can fail a POST, return an
empty body, hold records back and return them with a later POST, add items that
are no base64 or records of its own making, and head a body with any session
id. It cannot read, forge or reorder TLS records. A POST can fail after the host has passed the request on.
`write()` changes the session id and `read_buffer` before it fails. The client
keeps nothing of an earlier failure.

A host that does relay hands the body of the POST to the handler of the
Veracruz server, which opens a session for a client that names none
(`new_tls_session`), gives the record to the enclave (`tls_data`) and answers
with an empty body when the enclave has nothing to deliver yet, with the
session id and the enclave's records when it has, or with status 500 and the
`Debug` form of the first error. The embedder closes sessions and shuts the
enclave down beside the handler, and a thread that panics with the lock on the
enclave in its hands poisons it for every request after.

The framed transport is apart from this: one end calls `send_message`, the
other `receive_message`, on a stream where a transmission can stop after any
part of a frame. The attestation server is apart again: `server()` changes
statics of the process in steps, each of which can fail, and the workers of a
server that listens read those statics while they answer requests.

What correct means.

* Transport: the engine is given exactly the bytes of the well-formed records
  the host returned, in order; every POST echoes the session id last received.
* Client and server together, while the host only relays: a write returns `Ok`
  exactly when `tls_data` took its record, in the session the client then
  holds if it holds one, and an assigned session id never changes.
* Client: no program, data, compute or read request leaves for an enclave whose
  runtime hash the policy does not have, nor for a genuine runtime that holds
  another policy; a rejection names its true reason; an `Ok` is the enclave's
  `SUCCESS` to that very request; every call returns; the enclave is given no
  request twice; the handshake presents a certificate that passed the checks.
* Framed transport: messages arrive as sent, whole and in order; a frame cut
  short and a payload that is no message take nothing with them; what is sent
  is received.
* Attestation server: a certificate is issued under the CA of the files the
  listening server was started with, on a route of a platform the build has.

## 2. Modules

| Module | Models | Composition |
|---|---|---|
| `InsecureConnection` | `read`, `write`, the connection as `with_policy_and_hash` builds it | a component: no `Next` of its own |
| `VeracruzServer` | the errors, the responses and the trait of `common.rs`; the handler of `POST /runtime_manager` | a component: no `Next` of its own |
| `RelayChannel` | the connection under an arbitrary engine, and a host that relays to the server or answers as it likes | `EXTENDS InsecureConnection, VeracruzServer`, adds history variables; `FairSpec` |
| `MCRelayChannel` | constants for TLC | |
| `VeracruzClient` | the client library, the caller, the host and the runtime manager | `Conn == INSTANCE InsecureConnection WITH Byte <- Records` |
| `MCVeracruzClient` | constants for TLC | |
| `NitroRootEnclaveMessage` | the enum of `nitro.rs` and its encoding | a component: no `Next` of its own |
| `FramedTransport` | `send_message`, `receive_message`, the stream between them | `EXTENDS NitroRootEnclaveMessage`; `Channel == INSTANCE BufferChannel WITH ...` |
| `BufferChannel` | the channel of whole buffers the transport promises | the abstract specification |
| `MCFramedTransport` | constants for TLC | |
| `ProxyAttestationServer` | `server()`, `psa_router`, `nitro_router`, the workers | |
| `MCProxyAttestationServer` | constants for TLC | |

### InsecureConnection

`write()` blocks on the thread that makes the POST, so it is two actions.
`WritePost(data)` puts `[sid, data]` on the wire with the session id held now.
`WriteReturn(reply)` is everything after: `HttpError` (no connection, a status
other than 200, no text) fails the write; an empty body changes nothing; a first
item that is no `u32` fails the write; otherwise the id is replaced, the items
are decoded up to the first that `base64::decode` rejects and appended, and the
write fails if there was such an item. `Read(n)` hands out
`min(n, len(read_buffer))` bytes.

Data is abstracted to what the code tells apart: an item of a body is a record
`[u32, bytes]` of what `parse::<u32>` and `base64::decode` make of it, each a
value or `Malformed`. The conversions are not the identity: `ParseU32` and
`Base64Decode` fail on the items that have `Malformed` in that field.

### VeracruzServer and RelayChannel

| Definition | Code |
|---|---|
| `VeracruzServerError` | the enum, with the variants the `Features` of the build add |
| `From(cause)` | `impl From<PoisonError<T>>`, `impl From<anyhow::Error>` and, in a build for Nitro, `impl From<Box<bincode::ErrorKind>>` |
| `ErrorResponse`, `StatusCode` | `error_response`, `status_code`: every error is status 500 with its `Debug` form as the body |
| `New` | `VeracruzServer::new` has returned an enclave |
| `NewTlsSession`, `TlsData(id, open)` | the results `new_tls_session` and `tls_data` may return: an error, or an id not in use; an error, or whether the enclave is still active and the records it gives back |
| `CloseTlsSession(id)`, `ShutdownIsolate` | the two operations when they return `Ok`; an `Err` changes nothing |
| `PlaintextData` | `unimplemented!()`: the caller panics with the lock, which is poisoned from then on |

`enclave` is the `Option` the handler holds the server in, `poisoned` the state
of the lock around it, `sessions` the ids given out and not closed. An
operation of the trait has no body in `common.rs`: it is the set of results its
signature allows, and the handler's step takes one of them. What an operation
does to the enclave (an id not in use and never 0, a closed session gone, the
lock poisoned by the panic of `plaintext_data`) is the specification's, and
`PROJECT.json` marks these definitions as modelled from it.

The handler is not in the sources and follows the specification of the relay.
`RuntimeManagerRequest(request, minted, out)` is one request: `RequestError` is
the first step that fails (a request without a record, the poisoned lock, no
enclave, `new_tls_session`, `tls_data`), `Responder` the response. A session
opened for a request stays open when `tls_data` then fails, and an enclave that
answers that it is no longer active is shut down after its answer. The body
of the answer is empty when `tls_data` gives no output (`None`), and the
session id followed by the records when it gives some, were it none at all
(the two cases the specification tells apart as "nothing to deliver yet" and
"only a session id and no records"). `write()` leaves the session id alone on
an empty body, so a client whose first record was answered with one holds 0
after a write that returned `Ok`, and its next record opens another session.

`RelayChannel` has both ends. `HostRelays` hands the POST to the handler and
the response to `write()`: `Text` is the body as the items `write()` splits it
into, `Posted` the status check of `write()`. `HostAnswers` is the host that
returns what it likes; `relayed` records that it has not done so yet.
`ServerActs` is the embedder calling `close_tls_session`, `shutdown_isolate` or
`plaintext_data` between requests. `written` and `taken` record the writes that
returned `Ok` and the records `tls_data` took, each with its session.

### VeracruzClient

`pc` is where the caller's thread stands: `absent` (no client), `idle`,
`posting`, `posted`, `written`. `stage` is the `send()` under way: `hello` and
`finished` (the two flights of `ctx.establish`), `probe`
(`check_policy_hash`), `request`.

| Action | Code |
|---|---|
| `New(cfg, p)` | `new`, `with_policy_and_hash` up to `ctx.establish`; `ConfigError` is the first error of `Policy::from_json`, `ReadCert`, `ReadPrivateKey`, `CheckCertificateValidity`, the proxy certificate, `set_min_version` and `set_max_version`, the ciphersuite, `CtrDrbg::new` and `push_cert` |
| `BeginCall(c)` | entry of the five operations |
| `Post` | `send`: `write_all` gives `write()` the next record of the request (`RecordsOf`, `ToWrite`), up to the POST |
| `HostFails`, `HostReplies(k, added)` | the POST's outcome, through `Conn!WriteReturn` |
| `SendFails` | `send`: the `?` on `write_all`, with the records after the failed one unwritten |
| `HelloDone`, `FinishedDone` | `ctx.establish` |
| `ProbeDone` | the `?` on `read_to_end` (`ReadError`), `check_policy_hash`, `check_runtime_hash`, the path's `to_str`, in that order (`ProbeError`) |
| `RequestDone` | the rest of the call (`RequestResult`) |
| `HostForward` | the host gives the oldest record to the enclave, which answers when it has all of a request (`Completed`, `Answers`) |
| `Discard` | the caller drops the client |

A sequence of `?` is `FirstError` over a sequence of `Require`s: the error of
the first check that fails. `CompareRuntimeHash` is the loop over Linux, Nitro,
IceCap: a platform without a hash is passed over, a hash that is no hex ends
the loop with `FromHexError`, a hash equal to the received one ends it with Ok.
`CheckRuntimeHash` is `check_runtime_hash` on what `peer_cert()` returns:
no session, no list or an empty one, a first certificate that webpki refuses,
one without the extension, and the comparison. `CheckPolicyHash` is
`check_policy_hash` from the response on: the parse, the status, `from_utf8`
on the hash, the comparison.

Some returns of the code are reached by no state and are named in the module
without being outcomes of an action: the "lock failed" of `write()` and the
`LockFailed` of `check_policy_hash` (the lock on the session id is held for one
expression in which nothing can panic), the `expect` of `new()`
(`Policy::from_json` has hashed the policy it returns), `UnableToReadError`
(the reader given to `read_all` cannot fail). `NoPeerCertificatesError` and
`UnexpectedCertificateError` are cases of `CheckRuntimeHash` that a client
whose handshake succeeded does not meet: `peer_cert` is `None` before the
handshake and a list of one certificate after it.

A TLS record is named by the message it protects. Requests carry the number of
the call that made them, responses the number and kind of the request they
answer; the client never reads these fields, the properties do. A request whose
payload is in `Large` is two records, `first` and `last`, each written by a
`write()` and a POST of its own; the runtime manager keeps the first record of
a request and answers when the last has come, and what comes in between is
lost in the request it waits for. An enclave whose certificate carries a hash
in `Genuine` follows the protocol, and ends the handshake of a client whose
certificate has expired or is of another key than the client's; any other
answers what it likes. A host that garbles adds to a body an item that is no
base64, which fails the write, or a record of its own making (`Junk`), which
the engine refuses at `read_to_end`. The handshake, the session messages, the path
normalisation and the runtime manager are not in the sources and are modelled
from the specification; `PROJECT.json` marks them.

The certificate file is read twice: `read_cert` parses it for the TLS
configuration, `check_certificate_validity` opens it again. `cfg.cert` is the
file as the first reading finds it and `cfg.cert_again` as the second does, each
a record of what the code tests (readable, the number of PEM blocks, whether
`x509_parser` accepts the first, whether its key is the client's, whether it has
expired). `client_cert` is what `push_cert` was given. `cfg.mbedtls` names the
call of the library that fails in this construction, if one does.

`CallerDiscards = TRUE` is a caller that makes no call on a client whose last
call failed. `HostFaults` is what the host may do: `"error"`, `"withhold"`,
`"garble"`.

### NitroRootEnclaveMessage

`Variants` is the enum in the order of its declaration, `FieldTypes` the types
of the fields of each variant, `Messages` every value within the bounds. A
message is `[tag, values]`. `Encode` is what the serializer the enum derives
writes: the index of the variant, then each field, a `Vec` or `String` behind
its length, the `Vec<Vec<u8>>` of `CertChain` behind its count. A unit of the
encoding is a natural number, so a length, an index and a byte can be taken for
one another, as on the wire. `Decode` is written as the reader, apart from
`Encode`: it reads the index, then takes the fields of that variant off the
front of the bytes one after the other (`TakeFields`, `TakeField`, `TakeBytes`,
`TakeVecs`), and refuses bytes that end too early, a status that is none, and
bytes with something left over. That the two agree is checked, not defined.

### FramedTransport and BufferChannel

`wire` is the stream: the units written and not yet read. `SendMessage(m)` is
`send_message`: `Serialize`, then the frame (the length of the payload in
`LenWidth` units, the lowest first, then the payload) goes out up to any unit,
one in the middle of the length included; `SendError` is what the call returns. A
sender whose transmission failed closes the stream (`SenderRetries = FALSE`) or
goes on (`TRUE`). `ReceiveMessage` is `receive_message`: it waits for a whole
frame (`Complete`), takes it off the stream, and returns the message or
`DeserializeError`; on a stream that has ended it returns `IOError`.
`send_buffer` and `receive_buffer` are in a file that is not in the sources
and are modelled from the specification (`Frame`, `LittleEndian`, `Declared`,
`Complete`, `Payload`, `Rest`).

`BufferChannel` is the transport as the specification states it: `Send(buf)`,
`Receive`, `Close` on a queue of buffers. `FramedTransport` implements it under
the mapping `queue <- Buffers(wire)`, the payloads of the whole frames in the
stream, and `open <- ~eof`: a `SendMessage` that succeeds is a `Send`, one that
fails part way is a `Close`, a `ReceiveMessage` that finds a frame is a
`Receive`, everything else changes nothing of the channel.

### ProxyAttestationServer

| Action | Code |
|---|---|
| `Server(url, cert, key, debug, binds)` | `server()` to the `?` on `load_ca_certificate`: the flag and the certificate |
| `LoadCaKey` | `server()` to the `?` on `load_ca_key` |
| `Bind` | `server()` from `HttpServer::new` on: `bind`, `run`, `Ok(server)` |
| `Handle(route, op)` | a worker of a listening server on `/Start`, `/PSA/{op}`, `/Nitro/{op}`: `PsaRouter`, `NitroRouter` |

`features` is the build, chosen once. `DEBUG_MODE`, `ca_cert` and `ca_key` are
the statics of the process; a step of `server()` that fails leaves what the
steps before it stored. `call` is the `server()` in progress with the step it
is at; `StartError` is the first step that fails and `Proceed` the `?` after a
step. Between the steps the workers of a server that listens already answer
requests (`OneServer = FALSE`). A file is what loading it yields: the certificate or
key of some CA, or `Unreadable`. The attestation handlers are not in the
sources: a token that reaches a handler has a certificate issued under the
`ca_cert` and `ca_key` of that moment.

## 3. Runs

| Run | Config | Result | Shows |
|---|---|---|---|
| `relay` | `MCRelayChannel.cfg` | holds, 126,911 states | `FifoDelivery`, `PostEchoesLastSessionId`, `WrittenIsTaken`, `SessionIdStableWhenRelayed`, `AcceptedIsDelivered`, `TypeOK` |
| `relay_session_id` | `MCRelaySessionId.cfg` | violated | `SessionIdStable` |
| `client_adversarial` | `MCVeracruzClient.cfg` | holds, 1,208,107 states | `PayloadOnlyToApprovedRuntime`, `PayloadOnlyUnderAgreedPolicy`, `RuntimeVerdictIsJustified`, `EnclaveSeesEachRequestOnce`, `ClientCertificateWasChecked`, `TypeOK` |
| `client_disciplined` | `MCVeracruzDisciplined.cfg` | holds, 21,152 states | `OkMeansEnclaveDidIt`, `CallsReturn` |
| `client_one_outstanding` | `MCVeracruzReuse.cfg` | violated | `AtMostOneOutstandingRequest` |
| `client_taint` | `MCVeracruzTaint.cfg` | violated | `TaintedContextRefuses` |
| `client_shutdown` | `MCVeracruzShutdown.cfg` | violated | `ShutdownBestEffort` |
| `client_verifier` | `MCVeracruzVerifier.cfg` | violated | `VerifierAcceptsApproved` |
| `client_certificate` | `MCVeracruzCertificate.cfg` | violated | `ClientCertificateWasChecked` |
| `framed_transport` | `MCFramedTransport.cfg` | holds, 21,912 states | `NothingLostInFlight`, `ImplementsChannel`, `SentIsReceived`, `TypeOK` |
| `framed_retry` | `MCFramedRetry.cfg` | violated | `ReceivedWereSent` |
| `proxy_server` | `MCProxyAttestationServer.cfg` | holds, 2,089 states | `IssuedUnderTheCaOfTheStart`, `TypeOK` |

What holds.

* `FifoDelivery`: what `read()` has handed over, followed by `read_buffer`, is
  the bytes of the well-formed records received, whatever sizes the engine
  reads with and whichever writes failed half way.
* `PostEchoesLastSessionId`: every POST carries the id that headed the last
  body that had one.
* `AcceptedIsDelivered`: an engine that reads on is given every byte of the
  records received. `FifoDelivery` alone allows a `read()` that leaves bytes in
  `read_buffer` for good, for instance one that hands the buffer out only when
  it fits whole.
* `WrittenIsTaken`: while the host only relays, the writes that returned `Ok`
  are the records `tls_data` took, in order, and after each the client holds
  the session the record was taken in, or none (the answer was an empty
  body). Every failure of the handler (an empty write, a poisoned lock, an
  enclave that was shut down, a session that was closed, a session that could
  not be opened, a record the enclave refused) is a failed write, and no
  failed write was taken.
* `SessionIdStableWhenRelayed`: against the handler, the id `write()` stores
  is the id it sent, once it has one. `SessionIdStable` below fails only
  against a host that answers on its own.
* `PayloadOnlyToApprovedRuntime` and `PayloadOnlyUnderAgreedPolicy` hold against
  the strongest host and a caller that reuses a client after any error: the
  checks stand before every payload, and no response the host can swap in for
  the probe's carries the client's policy hash unless the enclave holds it.
* `RuntimeVerdictIsJustified`: `NoMatchingRuntimeIsolateHash` only when no
  platform has the hash, `FromHexError` only when a bad hash comes before the
  first match.
* `OkMeansEnclaveDidIt` holds only for the caller that drops a failed client.
* `CallsReturn`: `send()` never waits for a record the host held back.
* `EnclaveSeesEachRequestOnce`: a POST that failed is not made again, so the
  enclave never answers one request twice, although the host may have passed
  the request on before the POST failed.
* `ClientCertificateWasChecked`, with files nobody writes while `new()` runs:
  the handshake presents only a certificate of the client's own key that has
  not expired.
* `NothingLostInFlight`: the messages received, followed by those whose frames
  are in the stream, are the messages `send_message` returned `Ok` for. It is
  checked for every message of the enum within the bounds, so it is also the
  round trip of the codec through a frame: the reader gives back what the
  writer was given, and no two values share an encoding.
* `ImplementsChannel`: every step of the transport is a step of
  `BufferChannel`.
* `SentIsReceived`: a receiver that goes on receiving gets every message.
* `IssuedUnderTheCaOfTheStart`: starts that fail at any step, followed by one
  that succeeds, leave the server with the CA certificate and key of the
  files the successful start named; tokens are handled only on the routes of
  the build's platforms. It is of the caller that starts no second server
  while one listens (`OneServer = TRUE`). With `OneServer = FALSE` in
  `MCProxyAttestationServer.cfg` TLC finds, in six states, a second `server()`
  that has stored its certificate and not yet its key while a worker of the
  first issues a certificate under the new CA certificate signed with the old
  key. The specification calls the CA immutable after startup and does not say
  that `server()` is called once in a process, so this is a hazard of
  `PROJECT.json` and not a finding.

What does not hold, each a statement of the specification that the code does
not keep; `PROJECT.json` records them as findings.

* `SessionIdStable`: `write()` stores whatever id heads a body.
* `AtMostOneOutstandingRequest`: `send()` returns without its response and the
  next call writes on the same context. With it, `OkMeansEnclaveDidIt` fails
  for a caller that goes on: an upload can return `Ok` on the response to the
  probe.
* `TaintedContextRefuses`: the library keeps no mark of a failed check.
  `tainted` is set by every failure of `check_policy_hash` and
  `check_runtime_hash`, the failure of the probe's POST included.
* `ShutdownBestEffort`: `request_shutdown` returns the error of `send()`.
* `VerifierAcceptsApproved`: a hash that is no hex, for a platform the enclave
  is not, rejects an enclave whose hash the policy has for a later platform.
* `ClientCertificateWasChecked`, with a certificate file that is replaced
  while `new()` runs: the certificate loaded is the one of the first reading,
  the one checked is the one of the second. The trace ends inside the
  constructor, when the handshake has put the certificate on the wire. Whether
  a client results is the peer's choice: a genuine enclave ends the handshake,
  and construction fails with a TLS error from `establish()` instead of the
  error of the check.
* `ReceivedWereSent`, with a sender that sends again after a transmission
  failed part way: the next frame completes the broken one, and
  `receive_message` returns `Ok` with a message nobody sent. Two failed sends
  are enough: the first leaves a length of 1 (the units `1`, `0`), the second
  the low unit of its own length, `1`, which is read as the payload, the
  index of `FetchFirmwareVersion`.

## 4. Bounds

| Bound | Value | Why it is enough |
|---|---|---|
| `U32_MAX` | 2 | ids 0, 1, 2 and `Malformed`: unassigned, two distinct assigned ids, and a number out of range |
| `MaxPosts` | 3 | a failed write between two good ones |
| `Data` | three buffers | the empty write, which the handler refuses, and two that differ, so that an order shows |
| `Features` | `{"nitro"}` | the build with the most variants of the error |
| `MaxSessions` | 2 | a session left open by a request that failed, the session opened after it, and no id left for a third |
| `Records`, `MaxOutput` | two records, 1 | an answer without records, with none, and with one of either length |
| `MaxRead` | 2 | reads of 0, fewer than, exactly and more than `read_buffer` holds |
| relay bodies | an id (0, 1, 2 or no number) and up to two items | no record, one, two in either order, a bad item alone, behind and before a good one; two bytes in a record so that a read of `MaxRead` bytes leaves part of the buffer |
| `MaxCalls` | 3 (4 in `client_taint`) | `new()` and two calls: a call that fails and the call after it, which is where a stale response is read; a tainted call needs one call more |
| policies | three | a platform without a hash before the match; a bad hash before the match; a bad hash after the match and before another hash |
| enclaves | six | the genuine runtime under either policy, another runtime, a certificate without the extension, one that webpki refuses, a certificate of another CA |
| `Blob`, `Large` | two payloads, one of them large | a request of one record and one of two: a POST that fails or is answered between the records of a request |
| records of a request, a flight, a response | at most 2, 1, 1 | the engine cuts at a fixed size, so two records show every case of a request in parts: none written, part written, all written; the flights of the handshake and the responses are kept whole |
| certificate files | eight | the file in order, and one for each test of `read_cert` and `check_certificate_validity` that it fails |
| `cfg.mbedtls` | three | no call of the library fails, one before the lookup of the ciphersuite, one after it |
| `Byte`, `MaxLen` | {0, 1}, 1 | an empty and a non-empty `Vec`, a byte that reads as a length and as an index |
| `I32`, `Status` | {1}, {0} | one value each: they are one unit on the wire, whatever the value |
| `MaxCerts` | 1 | an empty and a non-empty certificate chain |
| `MaxSends` | 2 | a frame behind a frame, and a frame behind one cut short |
| `LenWidth` | 2 | the length of a frame takes several units, so that a transmission can stop inside it and a unit of a length can be read as payload; the wire has 8, of which the upper ones are 0 for every frame within the bounds, as the second unit is here |
| `MaxWire` | 14 | two frames of the longest message (seven units each) |
| builds | three | Linux, Nitro, no platform |
| `Urls`, `CAs` | two each | a start that fails on an address another call could bind; the certificate of one CA with the key of another |

Every behaviour ends when `MaxCalls` calls have been made: a caller may stop
calling at any time, so the client configurations do not check deadlock. That
no call stops half way is `CallsReturn`. The relay, transport and attestation
server runs check deadlock.

## 5. Fairness

`FairSpec` assumes weak fairness of `Post`, of `PostReturns` (`HostFails` or
`HostReplies`) and of `Continue` (`SendFails` and the `...Done` actions). The
first and last are the caller's own thread, which runs once the call has
started. The second is the POST ending: `write()` joins a thread that makes a
blocking request with the HTTP client's default deadline, so the request ends
with a response or an error. Nothing is assumed of `HostForward`: the host need
not pass anything on. Nothing is assumed of the caller starting calls.

`FairSpec` of `FramedTransport` assumes weak fairness of `ReceiveMessage`: the
receiving end is a loop that calls `receive_message` again (the root enclave is
a single-threaded event loop over the transport). Nothing is assumed of the
sender.

`FairSpec` of `RelayChannel` assumes weak fairness of the POST returning
(`HostAnswers` or `HostRelays`), for the reason given above, and of
`EngineReads`: `send()` calls `read_to_end`, which calls `read` until it
returns 0. Nothing is assumed of the engine writing, nor of what the host or
the enclave answer: they owe the client no answer that is not an error. A step
of `EngineReads` that reads nothing from a buffer that holds something changes
no variable, so it does not count as the engine reading.

The attestation server has no liveness property.

## 6. Not modelled

* The cryptography of TLS and of attestation: a record is opaque and
  unforgeable, a certificate is `Untrusted` or carries a hash.
* The enclave's file store and the computation: a response has a status and a
  result.
* The file system under `new()` beyond the two readings of the certificate
  file: the key file is read once and has one outcome.
* The attestation handlers (`attestation::start`, `psa::attestation_token`,
  `nitro::attestation_token`) and the loading of the CA files: they are not in
  the sources. The model has what `server.rs` does with them.
* The implementations of the `VeracruzServer` trait for the platforms, and the
  handler of `POST /runtime_manager`: not in the sources. An operation of the
  trait is the set of results its signature allows, and the handler is the
  specification's. In `VeracruzClient` the host stands for both.
* Several clients on one server. What keeps two clients apart is how an
  implementation chooses the id of a new session and whether it gives a closed
  one out again; `common.rs` says neither, and a model of it would check an
  assumption, not the code.
* That no session is left open without a holder. The handler leaves one when
  `tls_data` fails on the first record of a client or answers it with no
  output; `common.rs` has `close_tls_session` and nothing that calls it.
* A flight of the handshake in several records and a response in several
  records. The engine is not in the sources; the model has the request in
  parts, where the code under `src/` decides what happens next (the `?` on
  `write_all`).
* What the runtime manager makes of the records that follow part of a request
  the client gave up. The model has it lose them in the request it waits for;
  the framing of the session protocol is not in the sources.
* The root enclave that answers the messages of `nitro.rs`. The enum and its
  encoding are modelled; the enclave is not in the sources. The specification
  gives it as one fixed order of requests, in which `SetCertChain` comes after
  `CertChain`, while the comments of `nitro.rs` have `CertChain` carry the
  root enclave certificate and the CA certificate that `SetCertChain`
  installs. A module written from either would check its own assumptions.
* What `DEBUG_MODE` does. `server()` sets it before it loads the CA and never
  clears it, so a start that fails leaves it set; `ProxyAttestationServer`
  carries it. Its readers are the attestation handlers, for logging only, and
  the specification has correctness not depend on it, so no property reads it.
* `print_hex` and `decode_tls_message` (dead code for debugging) and the
  `pub_` wrappers of the tests.
* The width of numbers on the wire other than the length of a frame: an index,
  a count, a length inside a payload and an `i32` are one unit each.
* `CertChain` is documented as three certificates and typed as a list of any
  length; the model follows the type. Who reads it is not in the sources.

## 7. Plan

1. A run of `ProxyAttestationServer` with a second `server()` while one
   listens (the model has the interleaving, section 3), once it is settled
   what the specification's "immutable after startup" requires of it.
2. The relay composed with `VeracruzClient` in place of its host, once the
   handler is in the sources.
