----------------------------- MODULE MCPipeline -----------------------------
(***************************************************************************)
(* Pipeline with ideas that all have one shape: any of them can be tuned,  *)
(* or relocated, into any other.                                           *)
(***************************************************************************)
EXTENDS Pipeline, TLC

MCShape == [f \in Ideas |-> "shape"]
Alike == Permutations(Projects) \union Permutations(Strategies) \union Permutations(Ideas)
=============================================================================
