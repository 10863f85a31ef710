----------------------------- MODULE MCModelStore -----------------------------
(* Instances of ModelStore for TLC; the models differ by their names only.   *)
EXTENDS ModelStore, TLC

NamesSymmetry == Permutations(Names)
===============================================================================
