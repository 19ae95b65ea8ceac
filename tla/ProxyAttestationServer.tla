----------------------- MODULE ProxyAttestationServer -----------------------
(***************************************************************************)
(* The proxy attestation server of server.rs: server(), which sets the     *)
(* debug flag, loads the CA certificate and the CA key into the statics of *)
(* the process and binds the listener, each step able to fail with the     *)
(* steps before it done; and the two routers, as the workers of a          *)
(* listening server run them on the requests that come in.  server() is    *)
(* three steps, one for each of its calls, so that the workers of a server *)
(* that listens already run between them.                                  *)
(*                                                                         *)
(* A file is what loading it yields: the certificate or the key of a CA,   *)
(* or Unreadable.  The attestation itself is not in the sources: a token   *)
(* that is handled has a certificate issued under the CA the statics hold. *)
(***************************************************************************)
EXTENDS Naturals, FiniteSets

CONSTANTS
    Builds,         \* the sets of platform features a build may have
    Urls,           \* the addresses a caller may name
    CAs,            \* the certificate authorities the files may hold
    Ops,            \* the operations a request may name
    OneServer,      \* TRUE: server() is not called while a server listens
    Unreadable, None

ASSUME /\ \A build \in Builds : build \subseteq {"linux", "icecap", "nitro"}
       /\ "AttestationToken" \in Ops
       /\ OneServer \in BOOLEAN

VARIABLES
    features,       \* the features of this build
    DEBUG_MODE,     \* the static of that name
    ca_cert,        \* the CA certificate load_ca_certificate stored
    ca_key,         \* the CA key load_ca_key stored
    listening,      \* the addresses bound by a server that runs
    call,           \* the server() in progress and the step it is at, or None
    started_with,   \* history: the files of the server() that returned Ok
    result,         \* what the last server() returned
    response,       \* what the last request was answered
    issued          \* history: the certificates issued

vars == <<features, DEBUG_MODE, ca_cert, ca_key, listening, call,
          started_with, result, response, issued>>

Init ==
    /\ features \in Builds
    /\ DEBUG_MODE = FALSE
    /\ ca_cert = None /\ ca_key = None
    /\ listening = {}
    /\ call = None
    /\ started_with = None
    /\ result = None /\ response = None
    /\ issued = {}

\* A server() that goes on when load_ca_key has failed.
StartErrorIgnoringKey(url, cert, key, binds) ==
    CASE cert = Unreadable                  -> "load_ca_certificate"
      [] ~binds \/ url \in listening        -> "binding error"
      [] OTHER                              -> "Ok"

\* The first step of server() that fails, or "Ok".  binds is whether the
\* system gives the address; one that listens already is taken.
StartError(url, cert, key, binds) ==
    CASE cert = Unreadable                  -> "load_ca_certificate"
      [] key = Unreadable                   -> "load_ca_key"
      [] ~binds \/ url \in listening        -> "binding error"
      [] OTHER                              -> "Ok"

\* server() returns the error of the step it is at, or goes on to the next.
Proceed(args, step, next) ==
    IF StartError(args.url, args.cert, args.key, args.binds) = step
    THEN call' = None /\ result' = step
    ELSE call' = [args EXCEPT !.pc = next] /\ UNCHANGED result

\* server(), to the ? on load_ca_certificate: the flag is set and never
\* cleared, and the certificate of a file that could be read is stored.
\* One server() runs at a time.
Server(url, cert, key, debug, binds) ==
    /\ call = None
    /\ OneServer => listening = {}
    /\ DEBUG_MODE' = (DEBUG_MODE \/ debug)
    /\ ca_cert' = IF cert # Unreadable THEN cert ELSE ca_cert
    /\ Proceed([url |-> url, cert |-> cert, key |-> key, binds |-> binds,
                pc |-> "load_ca_certificate"],
               "load_ca_certificate", "load_ca_key")
    /\ UNCHANGED <<features, ca_key, listening, started_with, response, issued>>

\* server(), to the ? on load_ca_key: the key is stored with the
\* certificate of this start stored already.
LoadCaKey ==
    /\ call # None /\ call.pc = "load_ca_key"
    /\ ca_key' = IF call.key # Unreadable THEN call.key ELSE ca_key
    /\ Proceed(call, "load_ca_key", "bind")
    /\ UNCHANGED <<features, DEBUG_MODE, ca_cert, listening, started_with,
                   response, issued>>

\* server(), from HttpServer::new on: the address is bound and the server
\* runs, or the binding error is returned with both statics replaced.
Bind ==
    LET error == StartError(call.url, call.cert, call.key, call.binds) IN
    /\ call # None /\ call.pc = "bind"
    /\ call' = None
    /\ result' = error
    /\ listening' = IF error = "Ok" THEN listening \cup {call.url} ELSE listening
    /\ started_with' = IF error = "Ok" THEN [cert |-> call.cert, key |-> call.key]
                       ELSE started_with
    /\ UNCHANGED <<features, DEBUG_MODE, ca_cert, ca_key, response, issued>>

\* psa_router and nitro_router: a platform the build does not have, an
\* operation that is not AttestationToken, or the handler of the platform.
Router(enabled, op) ==
    CASE ~enabled                   -> "UnimplementedRequestError"
      [] op # "AttestationToken"    -> "UnsupportedRequestError"
      [] OTHER                      -> "attestation_token"

PsaRouter(op) == Router(features \cap {"linux", "icecap"} # {}, op)
NitroRouter(op) == Router("nitro" \in features, op)

\* A worker answers POST /Start, POST /PSA/{op} or POST /Nitro/{op}.  The
\* handler of a token issues a certificate under the CA certificate and key
\* the statics hold.
Handle(route, op) ==
    /\ listening # {}
    /\ response' = CASE route = "Start" -> "start"
                      [] route = "PSA"   -> PsaRouter(op)
                      [] route = "Nitro" -> NitroRouter(op)
    /\ issued' = issued \cup
          (IF response' = "attestation_token"
           THEN {[route |-> route, issuer |-> ca_cert, signed_with |-> ca_key]}
           ELSE {})
    /\ UNCHANGED <<features, DEBUG_MODE, ca_cert, ca_key, listening, call,
                   started_with, result>>

Next ==
    \/ \E url \in Urls, cert, key \in CAs \cup {Unreadable}, debug, binds \in BOOLEAN :
          Server(url, cert, key, debug, binds)
    \/ LoadCaKey
    \/ Bind
    \/ \E route \in {"Start", "PSA", "Nitro"}, op \in Ops : Handle(route, op)

Spec == Init /\ [][Next]_vars

-----------------------------------------------------------------------------
(* Properties *)

\* The variables hold values of their types, and a server that listens has
\* a CA certificate and a CA key: "either failure is fatal".
TypeOK ==
    /\ features \in Builds
    /\ DEBUG_MODE \in BOOLEAN
    /\ ca_cert \in CAs \cup {None}
    /\ ca_key \in CAs \cup {None}
    /\ listening \subseteq Urls
    /\ call \in {None} \cup [url : Urls, cert : CAs, key : CAs \cup {Unreadable},
                             binds : BOOLEAN, pc : {"load_ca_key", "bind"}]
    /\ listening # {} => ca_cert \in CAs /\ ca_key \in CAs
    /\ started_with \in [cert : CAs, key : CAs] \cup {None}
    /\ result \in {None, "Ok", "load_ca_certificate", "load_ca_key", "binding error"}
    /\ response \in {None, "UnimplementedRequestError", "UnsupportedRequestError",
                     "attestation_token", "start"}
    /\ issued \subseteq [route : {"PSA", "Nitro"}, issuer : CAs, signed_with : CAs]

\* Every certificate the server issues is issued under the CA certificate
\* and signed with the CA key of the files its server() was called with,
\* on a route of a platform the build has.  server() stores the certificate
\* of a start before it has read the key, and a start that fails leaves
\* what it stored; the start that succeeds has stored both anew.  This is
\* of the caller that calls server() only while no server of the process
\* listens.
IssuedUnderTheCaOfTheStart ==
    \A c \in issued :
        /\ c.issuer = started_with.cert
        /\ c.signed_with = started_with.key
        /\ c.route = "PSA" => features \cap {"linux", "icecap"} # {}
        /\ c.route = "Nitro" => "nitro" \in features
=============================================================================
