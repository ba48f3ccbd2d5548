----------------------------- MODULE MCLearning -----------------------------
(***************************************************************************)
(* Two strategies of different recipes.                                    *)
(***************************************************************************)
EXTENDS Learning

CONSTANTS s1, s2, breakout, reversal

MCRecipeOf == [s \in Strategy |-> IF s = s1 THEN breakout ELSE reversal]
=============================================================================
