-------------------------- MODULE MCVeracruzClient --------------------------
(***************************************************************************)
(* VeracruzClient for TLC: two policy fingerprints, two runtimes of which  *)
(* one is genuine, policies that between them have every kind of entry     *)
(* compare_runtime_hash tells apart, every fault of the certificate and    *)
(* key files, and every operation with every kind of path.                 *)
(***************************************************************************)
EXTENDS VeracruzClient

CONSTANTS p1, p2, h1, h2, d, dd

MCPolicyHash == {p1, p2}
MCRuntimeHash == {h1, h2}
MCGenuine == {h1}
MCBlob == {d, dd}
MCLarge == {dd}

Hashes(linux, nitro, icecap) ==
    [x \in {"Linux", "Nitro", "IceCap"} |->
        CASE x = "Linux" -> linux [] x = "Nitro" -> nitro [] OTHER -> icecap]

Policy(hash, hashes) ==
    [json |-> "ok", hash |-> hash, runtime_manager_hash |-> hashes,
     proxy_cert_ok |-> TRUE, ciphersuite_known |-> TRUE]

\* A Nitro deployment; one whose first hash is no hex; one with a hash that is
\* no hex after the genuine one.
NitroPolicy == Policy(p1, Hashes(NoHash, h1, NoHash))
HexFirstPolicy == Policy(p1, Hashes(BadHex, h1, NoHash))
HexLaterPolicy == Policy(p1, Hashes(h1, BadHex, h2))

MCGoodPolicies == {NitroPolicy, HexFirstPolicy, HexLaterPolicy}

MCPolicies ==
    MCGoodPolicies
    \cup {[NitroPolicy EXCEPT !.json = Malformed],
          [NitroPolicy EXCEPT !.proxy_cert_ok = FALSE],
          [NitroPolicy EXCEPT !.ciphersuite_known = FALSE]}

GoodCert ==
    [readable |-> TRUE, pem |-> "one", x509 |-> TRUE, pki |-> TRUE,
     key_matches |-> TRUE, expired |-> FALSE]

\* The certificate in order, and every way in which one field of it is not.
MCCertFiles ==
    {GoodCert,
     [GoodCert EXCEPT !.readable = FALSE],
     [GoodCert EXCEPT !.pem = "none"],
     [GoodCert EXCEPT !.pem = "several"],
     [GoodCert EXCEPT !.x509 = FALSE],
     [GoodCert EXCEPT !.pki = FALSE],
     [GoodCert EXCEPT !.key_matches = FALSE],
     [GoodCert EXCEPT !.expired = TRUE]}

Config(cert, again, key) ==
    [cert |-> cert, cert_again |-> again, key |-> key, mbedtls |-> "ok"]

\* A caller whose files and policy are in order.
MCGoodConfigs == {Config(GoodCert, GoodCert, "key")}
MCNitroPolicies == {NitroPolicy}

\* Files that nobody writes while new() runs: both readings find the same.
\* With files in order, a call of mbedtls before and one after the lookup
\* of the ciphersuite that fails.
MCConfigs ==
    {Config(c, c, k) : c \in MCCertFiles, k \in {"key", "unreadable", "not_a_key"}}
    \cup {[Config(GoodCert, GoodCert, "key") EXCEPT !.mbedtls = failing] :
            failing \in {"set_min_version", "CtrDrbg::new"}}

\* A certificate file that is replaced while new() runs.
MCChangingConfigs ==
    {Config(c1, c2, "key") :
        c1, c2 \in {GoodCert, [GoodCert EXCEPT !.expired = TRUE],
                    [GoodCert EXCEPT !.key_matches = FALSE]}}

\* Every operation with a path that needs the "/", and an upload and a read
\* with a path that is no UTF-8.
MCCalls ==
    {[op |-> "send_program", path |-> <<"f">>, data |-> dd],
     [op |-> "send_data", path |-> <<"f">>, data |-> d]}
    \cup [op : Reads, path : {<<"f">>}, data : {None}]
    \cup {[op |-> "send_data", path |-> NonUtf8, data |-> d],
          [op |-> "get_results", path |-> NonUtf8, data |-> None],
          [op |-> "request_shutdown", path |-> None, data |-> None]}

\* One call of each kind, with a path that needs the "/".
MCFewCalls ==
    {[op |-> "send_data", path |-> <<"f">>, data |-> d],
     [op |-> "send_program", path |-> <<"f">>, data |-> dd],
     [op |-> "get_results", path |-> <<"f">>, data |-> None],
     [op |-> "request_shutdown", path |-> None, data |-> None]}

Cert(hash) == [extension |-> hash, webpki |-> TRUE]

\* A genuine runtime provisioned with either policy, one whose certificate
\* webpki refuses, and every other certificate an enclave may show (what it
\* says of its policy is its own choice, answer by answer).
MCEnclaves ==
    [cert : {Cert(h1)}, policy : MCPolicyHash]
    \cup [cert : {Cert(h2), Cert(None), [Cert(h1) EXCEPT !.webpki = FALSE],
                  Untrusted},
          policy : {p1}]

\* The enclave the Nitro policy describes.
MCGenuineEnclave == {[cert |-> Cert(h1), policy |-> p1]}

AnyHost == {"error", "withhold", "garble"}
=============================================================================
