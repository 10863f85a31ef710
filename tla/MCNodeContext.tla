----------------------------- MODULE MCNodeContext -----------------------------
(* Names are interchangeable: the code only compares them for equality.      *)
EXTENDS NodeContext, TLC

NamesSymmetry == Permutations(Names)
===============================================================================
