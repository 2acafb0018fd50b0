---------------------------- MODULE MCDhtSearch ----------------------------
(* The search on small instances, for TLC. *)
EXTENDS DhtSearch

FiveNodes == 1..5
TwoNodes == 1..2
=============================================================================
