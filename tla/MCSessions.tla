----------------------------- MODULE MCSessions -----------------------------
(***************************************************************************)
(* Sessions with interchangeable tokens and requests.                      *)
(***************************************************************************)
EXTENDS Sessions, TLC

mc_Symmetry == Permutations(Token) \cup Permutations(Request)
=============================================================================
