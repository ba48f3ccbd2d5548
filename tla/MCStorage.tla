----------------------------- MODULE MCStorage ------------------------------
(***************************************************************************)
(* Two deliveries of one strategy on one day, or of two strategies, one    *)
(* market, and the settings that differ: the shipped configuration         *)
(* (minimised, no store), the same with a private bucket, files that are   *)
(* released to a public bucket, and files that are kept without a store.   *)
(***************************************************************************)
EXTENDS Storage

CONSTANTS p1, p2, name1, name2, marketData, tester

Same == [p \in Package |-> name1]
Own == [p \in Package |-> IF p = p1 THEN name1 ELSE name2]

MCSettings ==
  {[mode |-> "minimised", bucket |-> "off", name |-> Same],
   [mode |-> "minimised", bucket |-> "private", name |-> Same],
   [mode |-> "released", bucket |-> "public", name |-> Own],
   [mode |-> "kept", bucket |-> "off", name |-> Same]}
=============================================================================
