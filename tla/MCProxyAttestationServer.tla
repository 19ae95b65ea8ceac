---------------------- MODULE MCProxyAttestationServer ----------------------
(***************************************************************************)
(* ProxyAttestationServer for TLC.                                         *)
(***************************************************************************)
EXTENDS ProxyAttestationServer

\* A build for Linux, one for Nitro, and one without a platform.
MCBuilds == {{"linux"}, {"nitro"}, {}}
MCOps == {"AttestationToken", "Other"}
=============================================================================
