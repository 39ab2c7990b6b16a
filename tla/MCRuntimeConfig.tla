--------------------------- MODULE MCRuntimeConfig ---------------------------
(* A small instance of RuntimeConfig for TLC. *)
EXTENDS RuntimeConfig

CONSTANTS r1, r2, tracking, malware, listed, Upper

\* Upper is another spelling of listed, which is on a list.
MCCanonical == [n \in Names |-> listed]
MCListed == [n \in Names |-> tracking]
=============================================================================
