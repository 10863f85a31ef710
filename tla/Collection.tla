------------------------------ MODULE Collection ------------------------------
(***************************************************************************)
(* VLBICollection (vlbi/collection.cpp): an array of named items, the base *)
(* of the collections of nodes, baselines, models and contexts.  An entry  *)
(* is a record with at least the field name.                               *)
(***************************************************************************)
EXTENDS Integers, Sequences

NamesOf(items) == {items[j].name : j \in DOMAIN items}

Contains(items, name) == name \in NamesOf(items)

\* get, remove and contains take the first entry of that name; add sees to it
\* that there is no other.
IndexOf(items, name) == CHOOSE j \in DOMAIN items : items[j].name = name

Get(items, name) == items[IndexOf(items, name)]

\* Mutant: nobody looks whether the name is taken.
BlindAdd(items, item) == Append(items, item)

\* An entry whose name is taken is dropped without a word.
Add(items, item) ==
  IF Contains(items, item.name) THEN items ELSE Append(items, item)

\* Mutant: the gap is closed, but the count is not taken back.
StaleRemove(items, name) ==
  IF ~Contains(items, name)
  THEN items
  ELSE [j \in DOMAIN items |->
          IF j < IndexOf(items, name) \/ j = Len(items) THEN items[j] ELSE items[j + 1]]

\* The item is set to 0 and defrag closes the gap; no other item is 0.
Remove(items, name) ==
  IF ~Contains(items, name)
  THEN items
  ELSE [j \in 1 .. Len(items) - 1 |->
          IF j < IndexOf(items, name) THEN items[j] ELSE items[j + 1]]

\* No two entries have the same name.
UniqueNames(items) ==
  \A j, k \in DOMAIN items : items[j].name = items[k].name => j = k
===============================================================================
