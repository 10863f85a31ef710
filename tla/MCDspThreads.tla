----------------------------- MODULE MCDspThreads -----------------------------
(* Buffers of seven elements.  A sample is a residue modulo a prime, so that *)
(* an element made twice, or made from made ones, differs from one made well.*)
EXTENDS DspThreads

MCValue  == 0 .. 100
MCOther  == [j \in 0 .. Len - 1 |-> 40 + 3 * j]
MCInputs == {[j \in 0 .. Len - 1 |-> j + 1], [j \in 0 .. Len - 1 |-> 20 - 2 * j]}

\* Every element looks at its left neighbour, as a filter or a shift does.
MCMade(j, old, parent) ==
  (5 * old + 7 * parent[IF j = 0 THEN Len - 1 ELSE j - 1] + 11) % 101

\* Every element looks at its own place in the other stream, as a mask does.
MCMask(j, old, parent) == (3 * old + parent[j]) % 101
===============================================================================
