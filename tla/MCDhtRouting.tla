---------------------------- MODULE MCDhtRouting ----------------------------
(* The routing table on small instances, for TLC. *)
EXTENDS DhtRouting
=============================================================================
