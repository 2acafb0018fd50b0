------------------------------ MODULE MCEngine ------------------------------
(* Both programs, with up to three engines, for TLC. *)
EXTENDS EngineHosts

ThreeEngines == 1..3
BothHosts == {"linux", "android"}
=============================================================================
