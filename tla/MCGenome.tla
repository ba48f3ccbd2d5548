------------------------------ MODULE MCGenome ------------------------------
(***************************************************************************)
(* Strategies bred from recipes with and without a gate, an exit rule and  *)
(* a trend filter.                                                         *)
(***************************************************************************)
EXTENDS Genome

\* A target of 2R, and a stop that three mutations can widen past the tuner's 6.
MCRisks == {[stop_kind |-> "atr", stop |-> 32, target_kind |-> "rr", target |-> 20, timed |-> FALSE]}

MCStops == {32, 51, 81, 129}
MCTargets == {20, 30}
MCLevels == {0, 150, 850, 1060}
MCGateLevels == {300, 400}
=============================================================================
