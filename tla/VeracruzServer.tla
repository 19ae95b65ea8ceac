--------------------------- MODULE VeracruzServer ---------------------------
(***************************************************************************)
(* The Veracruz server as common.rs has it: the trait VeracruzServer that  *)
(* the enclave of a platform implements, the errors of the server, and how *)
(* an error leaves the server as an HTTP response.                         *)
(*                                                                         *)
(* The handler of POST /runtime_manager and the enclaves are not in the    *)
(* sources.  They are here as the specification has the relay: a request   *)
(* is "<session id> <record>", a client without a session sends 0 and is   *)
(* given a new one, and the answer is empty when the enclave has nothing   *)
(* to deliver yet, else the session id and the records the enclave gave    *)
(* back.  An operation of the trait is known by its result: what it does   *)
(* to the enclave is the specification's, the trait has signatures only.   *)
(***************************************************************************)
EXTENDS Naturals, Sequences, SequencesExt

CONSTANTS
    Features,       \* the platform features of the build
    Records,        \* the TLS records an enclave gives back
    MaxSessions,    \* bound: the sessions an enclave opens
    MaxOutput,      \* bound: the records of one answer
    NoError, None

ASSUME Features \subseteq {"linux", "nitro", "icecap"} /\ {MaxSessions, MaxOutput} \subseteq Nat

VARIABLES
    enclave,    \* the Option<VeracruzServer> of the handler: "running" or "absent"
    poisoned,   \* the lock around it was held by a thread that panicked
    sessions    \* the ids new_tls_session gave and close_tls_session has not had

serverVars == <<enclave, poisoned, sessions>>

-----------------------------------------------------------------------------
(* Errors and responses *)

\* The variants of the build.
VeracruzServerError ==
    {"SerdeJsonError", "IOError", "Base64Error", "LockError", "ParseIntError",
     "MpscSendEmptyError", "TransportProtocolError", "JoinError",
     "UninitializedEnclaveError", "InvalidRequestFormatError",
     "UnimplementedError", "RuntimeManagerFailed", "Anyhow"}
    \cup (IF Features \cap {"linux", "nitro"} = {} THEN {}
          ELSE {"BincodeError", "Status", "InvalidRuntimeManagerResponse"})
    \cup (IF "nitro" \notin Features THEN {}
          ELSE {"InvalidProtoBufMessage", "NixError", "VeracruzSocketError", "NitroError"})
    \cup (IF "icecap" \in Features THEN {"IceCapError"} ELSE {})

\* What the ? operator makes of the error of a callee.  The conversion of
\* a bincode error is there in a build for nitro only.
From(cause) ==
    CASE cause = "PoisonError"   -> "LockError"
      [] cause = "anyhow::Error" -> "Anyhow"
      [] cause = "Box<bincode::ErrorKind>" /\ "nitro" \in Features -> "BincodeError"

StatusCode(error) == 500

\* A VeracruzServerResponder as the response the client is sent: the body
\* of an error is its Debug form.  The body of an answer is empty when the
\* enclave gave no output, and "<session id> <record> ..." when it gave
\* some, were it no record at all.
ErrorResponse(error) == [status |-> StatusCode(error), body |-> error]
OkResponse(session_id, output) ==
    [status |-> 200,
     body |-> IF output = None THEN None
              ELSE [sid |-> session_id, records |-> output]]

-----------------------------------------------------------------------------
(* The trait *)

\* VeracruzServer::new has returned an enclave to the handler.
New ==
    /\ enclave = "running"
    /\ poisoned = FALSE
    /\ sessions = {}

\* A VeracruzServerResult<T> is [error : ...] or a record of T.
IsErr(result) == result # None /\ "error" \in DOMAIN result

\* The results of new_tls_session: an id not in use, never 0.
NewTlsSession ==
    [session_id : (1..MaxSessions) \ sessions] \cup [error : VeracruzServerError]

\* The results of tls_data: whether the enclave is still active and the
\* records of its answer, for a session that is open.
TlsData(session_id, open) ==
    [error : VeracruzServerError] \cup
    (IF session_id \notin open THEN {}
     ELSE [active : BOOLEAN, output : {None} \cup BoundedSeq(Records, MaxOutput)])

CloseTlsSession(session_id) ==
    /\ enclave = "running" /\ ~poisoned
    /\ session_id \in sessions
    /\ sessions' = sessions \ {session_id}
    /\ UNCHANGED <<enclave, poisoned>>

ShutdownIsolate ==
    /\ enclave = "running" /\ ~poisoned
    /\ enclave' = "absent"
    /\ sessions' = {}
    /\ UNCHANGED poisoned

\* plaintext_data is unimplemented!(): the thread that calls it panics with
\* the lock on the enclave in its hands.
PlaintextData ==
    /\ enclave = "running" /\ ~poisoned
    /\ poisoned' = TRUE
    /\ UNCHANGED <<enclave, sessions>>

-----------------------------------------------------------------------------
(* POST /runtime_manager *)

\* A handler that opens a session for every request.
NeedsSessionAlways(request) == TRUE

\* The client that has no session yet sends 0.
NeedsSession(request) == request.sid = 0

SessionOf(request, minted) ==
    IF ~NeedsSession(request) THEN request.sid
    ELSE IF IsErr(minted) THEN 0 ELSE minted.session_id

\* The first step of the handler that fails, or NoError: the request has no
\* record, the lock is poisoned, the enclave is gone, no session could be
\* opened, the enclave refused the record.
RequestError(request, minted, out) ==
    CASE request.data = <<>>            -> "InvalidRequestFormatError"
      [] poisoned                       -> From("PoisonError")
      [] enclave = "absent"             -> "UninitializedEnclaveError"
      [] IsErr(minted)                  -> minted.error
      [] IsErr(out)                     -> out.error
      [] OTHER                          -> NoError

\* A handler that answers every request with its session id and no record.
ResponderAlwaysOk(request, minted, out) ==
    OkResponse(request.sid, <<>>)

\* The response to a request: the error, or the session and the records.
Responder(request, minted, out) ==
    LET error == RequestError(request, minted, out) IN
    IF error # NoError THEN ErrorResponse(error)
    ELSE OkResponse(SessionOf(request, minted), out.output)

\* The handler.  new_tls_session and tls_data are called when the steps
\* before them went well; a session that was opened stays open when the
\* enclave then refuses the record or has nothing to deliver, and an
\* enclave that says it is no longer active is shut down.
RuntimeManagerRequest(request, minted, out) ==
    LET early == request.data = <<>> \/ poisoned \/ enclave = "absent"
        opened == IF early \/ minted = None \/ IsErr(minted) THEN {}
                  ELSE {minted.session_id}
    IN  /\ minted \in IF ~early /\ NeedsSession(request)
                      THEN NewTlsSession ELSE {None}
        /\ out \in IF early \/ IsErr(minted) THEN {None}
                   ELSE TlsData(SessionOf(request, minted), sessions \cup opened)
        /\ IF RequestError(request, minted, out) = NoError /\ ~out.active
           THEN enclave' = "absent" /\ sessions' = {}
           ELSE enclave' = enclave /\ sessions' = sessions \cup opened
        /\ UNCHANGED poisoned

ServerTypeOK ==
    /\ enclave \in {"running", "absent"}
    /\ poisoned \in BOOLEAN
    /\ sessions \subseteq 1..MaxSessions
=============================================================================
