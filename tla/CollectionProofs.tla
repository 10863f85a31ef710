---------------------------- MODULE CollectionProofs ----------------------------
(* What the operations of a collection keep, for entries of any set S whose *)
(* members have a name.                                                     *)
EXTENDS Collection, TLAPS

\* IndexOf is the place of an entry of that name.
LEMMA IndexOfPlace ==
  ASSUME NEW S, NEW items \in Seq(S), NEW name, Contains(items, name)
  PROVE  /\ IndexOf(items, name) \in 1 .. Len(items)
         /\ items[IndexOf(items, name)].name = name
<1>1. \E j \in DOMAIN items : items[j].name = name
  BY DEF Contains, NamesOf
<1>2. /\ IndexOf(items, name) \in DOMAIN items
      /\ items[IndexOf(items, name)].name = name
  BY <1>1 DEF IndexOf
<1> QED BY <1>2

\* add leaves a sequence of entries, at most one longer.
LEMMA AddSeq ==
  ASSUME NEW S, NEW items \in Seq(S), NEW item \in S
  PROVE  /\ Add(items, item) \in Seq(S)
         /\ Len(Add(items, item)) \in {Len(items), Len(items) + 1}
BY DEF Add

\* add never makes two entries of one name.
LEMMA AddUnique ==
  ASSUME NEW S, NEW items \in Seq(S), NEW item \in S, UniqueNames(items)
  PROVE  UniqueNames(Add(items, item))
<1>1. CASE Contains(items, item.name)
  BY <1>1 DEF Add
<1>2. CASE ~Contains(items, item.name)
  <2> DEFINE new == Append(items, item)
  <2>1. Add(items, item) = new
    BY <1>2 DEF Add
  <2>2. \A j \in 1 .. Len(items) : items[j].name # item.name
    BY <1>2 DEF Contains, NamesOf
  <2>3. /\ Len(new) = Len(items) + 1
        /\ DOMAIN new = 1 .. Len(items) + 1
        /\ new[Len(items) + 1] = item
        /\ \A j \in 1 .. Len(items) : new[j] = items[j]
    OBVIOUS
  <2>4. \A j, k \in 1 .. Len(items) : items[j].name = items[k].name => j = k
    BY DEF UniqueNames
  <2> HIDE DEF new
  <2>5. ASSUME NEW j \in DOMAIN new, NEW k \in DOMAIN new,
               new[j].name = new[k].name
        PROVE  j = k
    <3>1. CASE j \in 1 .. Len(items) /\ k \in 1 .. Len(items)
      BY <3>1, <2>3, <2>4, <2>5
    <3>2. CASE j = Len(items) + 1 /\ k \in 1 .. Len(items)
      BY <3>2, <2>2, <2>3, <2>5
    <3>3. CASE k = Len(items) + 1 /\ j \in 1 .. Len(items)
      BY <3>3, <2>2, <2>3, <2>5
    <3>4. CASE j = Len(items) + 1 /\ k = Len(items) + 1
      BY <3>4
    <3> QED BY <2>3, <3>1, <3>2, <3>3, <3>4
  <2> QED BY <2>1, <2>5 DEF UniqueNames
<1> QED BY <1>1, <1>2

\* remove takes one entry out and leaves the others in their order.
LEMMA RemoveSeq ==
  ASSUME NEW S, NEW items \in Seq(S), NEW name, Contains(items, name)
  PROVE  /\ Remove(items, name) \in Seq(S)
         /\ Len(Remove(items, name)) = Len(items) - 1
         /\ \A j \in 1 .. Len(items) - 1 :
              Remove(items, name)[j] =
                IF j < IndexOf(items, name) THEN items[j] ELSE items[j + 1]
<1> DEFINE at == IndexOf(items, name)
           rest == [j \in 1 .. Len(items) - 1 |->
                      IF j < at THEN items[j] ELSE items[j + 1]]
<1>1. at \in 1 .. Len(items)
  BY IndexOfPlace
<1>2. Remove(items, name) = rest
  BY DEF Remove
<1> HIDE DEF at
<1>3. Len(items) - 1 \in Nat
  BY <1>1
<1>4. \A j \in 1 .. Len(items) - 1 :
        (IF j < at THEN items[j] ELSE items[j + 1]) \in S
  BY <1>1
<1>5. rest \in Seq(S) /\ Len(rest) = Len(items) - 1
  BY <1>3, <1>4
<1>6. \A j \in 1 .. Len(items) - 1 :
        rest[j] = IF j < at THEN items[j] ELSE items[j + 1]
  OBVIOUS
<1> QED BY <1>2, <1>5, <1>6 DEF at

\* remove never makes two entries of one name.
LEMMA RemoveUnique ==
  ASSUME NEW S, NEW items \in Seq(S), NEW name, Contains(items, name),
         UniqueNames(items)
  PROVE  UniqueNames(Remove(items, name))
<1> DEFINE rest == Remove(items, name)
           at == IndexOf(items, name)
           Old(j) == IF j < at THEN j ELSE j + 1
<1>1. /\ at \in 1 .. Len(items)
      /\ rest \in Seq(S) /\ Len(rest) = Len(items) - 1
      /\ \A j \in 1 .. Len(items) - 1 :
           rest[j] = IF j < at THEN items[j] ELSE items[j + 1]
  BY IndexOfPlace, RemoveSeq
<1> HIDE DEF rest, at
<1>2. \A j \in 1 .. Len(items) - 1 :
        Old(j) \in 1 .. Len(items) /\ rest[j] = items[Old(j)]
  BY <1>1
<1>3. \A j, k \in 1 .. Len(items) - 1 : Old(j) = Old(k) => j = k
  BY <1>1
<1>4. \A j, k \in 1 .. Len(items) : items[j].name = items[k].name => j = k
  BY DEF UniqueNames
<1>5. DOMAIN rest = 1 .. Len(items) - 1
  BY <1>1
<1> HIDE DEF Old
<1>6. ASSUME NEW j \in DOMAIN rest, NEW k \in DOMAIN rest,
             rest[j].name = rest[k].name
      PROVE  j = k
  <2>1. /\ Old(j) \in 1 .. Len(items) /\ rest[j] = items[Old(j)]
        /\ Old(k) \in 1 .. Len(items) /\ rest[k] = items[Old(k)]
    BY <1>2, <1>5
  <2>2. Old(j) = Old(k)
    BY <2>1, <1>4, <1>6, Zenon
  <2> QED BY <2>2, <1>3, <1>5
<1> QED BY <1>6 DEF UniqueNames, rest
===============================================================================
