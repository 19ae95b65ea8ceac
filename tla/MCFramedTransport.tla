------------------------- MODULE MCFramedTransport -------------------------
(***************************************************************************)
(* FramedTransport for TLC.                                                *)
(***************************************************************************)
EXTENDS FramedTransport

CONSTANT Unserializable     \* a value serialize() fails on

\* Every message within the bounds, a value of another type and one that
\* cannot be serialized.
MCMsg == Messages \cup {Foreign, Unserializable}
=============================================================================
