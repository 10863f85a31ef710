--------------------------- MODULE ModelFilesProofs ---------------------------
(* Theorems of ModelStore, for any names and any number of streams, and of   *)
(* ModelFiles, for any channels as well.                                     *)
EXTENDS ModelFiles, CollectionProofs, FiniteSetTheorems

-------------------------------------------------------------------------------
(* The invariant, in two halves that are about one part of the state each.   *)

\* Items of streams up to n, named as the streams are but for those in ag.
Proper(items, lab, ag, n) ==
  /\ items \in Seq(Entry) /\ UniqueNames(items) /\ ag \in SUBSET Streams
  /\ \A k \in DOMAIN items :
       /\ items[k].stream <= n
       /\ lab[items[k].stream] = items[k].name \/ items[k].stream \in ag
  /\ \A j, k \in DOMAIN items :
       items[j].stream = items[k].stream => j = k \/ items[j].stream \in ag

\* Streams up to n whose parts are theirs alone.
Tidy(mag, phi, n) ==
  /\ mag \in [Streams -> Streams \cup {Null}]
  /\ phi \in [Streams -> Streams \cup {Null}]
  /\ \A s \in Streams :
       /\ mag[s] # Null => s < mag[s] /\ mag[s] <= n
       /\ phi[s] # Null => s < phi[s] /\ phi[s] <= n
  /\ \A r, s \in Streams :
       /\ mag[s] # Null => mag[s] # phi[r]
       /\ r # s /\ mag[s] # Null => mag[s] # mag[r]
       /\ r # s /\ phi[s] # Null => phi[s] # phi[r]

LEMMA StreamsNat == \A s \in Streams : s \in Nat \ {0}
BY ModelAssumption DEF Streams

LEMMA ItemsOf ==
  ASSUME NEW items \in Seq(Entry)
  PROVE  \A k \in DOMAIN items : items[k].stream \in Streams /\ items[k].stream \in Nat
<1>1. \A k \in DOMAIN items : items[k] \in Entry
  OBVIOUS
<1>2. \A k \in DOMAIN items : items[k].stream \in Streams
  BY <1>1 DEF Entry
<1> QED BY <1>2, StreamsNat

LEMMA Halves ==
  IInv <=> /\ Proper(models, label, again, made) /\ Tidy(magnitude, phase, made)
           /\ made \in 0 .. MaxStreams
           /\ freed \in SUBSET Streams /\ \A s \in freed : s <= made
           /\ label \in [Streams -> Names \cup {NoName}]
<1>1. InOrder <=>
        /\ \A k \in DOMAIN models : models[k].stream <= made
        /\ \A s \in freed : s <= made
        /\ \A s \in Streams :
             /\ magnitude[s] # Null => s < magnitude[s] /\ magnitude[s] <= made
             /\ phase[s] # Null => s < phase[s] /\ phase[s] <= made
  BY DEF InOrder, Parts
<1> QED BY <1>1 DEF IInv, TypeOK, NamesAgree, OneParent, Proper, Tidy

\* The same of the next state.
LEMMA HalvesNext ==
  ASSUME Proper(models', label', again', made'), Tidy(magnitude', phase', made'),
         made' \in 0 .. MaxStreams,
         freed' \in SUBSET Streams, \A s \in freed' : s <= made',
         label' \in [Streams -> Names \cup {NoName}]
  PROVE  IInv'
<1>1. InOrder'
  BY DEF InOrder, Parts, Proper, Tidy
<1> QED BY <1>1 DEF IInv, TypeOK, NamesAgree, OneParent, Proper, Tidy

\* A new name for new streams touches no item.
LEMMA Relabelled ==
  ASSUME NEW items, NEW lab, NEW lab2, NEW ag, NEW n \in Nat, NEW m \in Nat, n <= m,
         Proper(items, lab, ag, n),
         \A s \in Streams : s <= n => lab2[s] = lab[s]
  PROVE  Proper(items, lab2, ag, m)
<1>1. \A k \in DOMAIN items : items[k].stream \in Streams
  BY ItemsOf DEF Proper
<1>2. \A k \in DOMAIN items : items[k].stream \in Nat
  BY ItemsOf DEF Proper
<1> QED BY <1>1, <1>2 DEF Proper

\* A new stream can be listed under the name it carries.
LEMMA ListedNew ==
  ASSUME NEW items, NEW lab, NEW ag, NEW n \in Nat, NEW m \in Nat, n <= m,
         Proper(items, lab, ag, n), NEW s \in Streams, n < s, s <= m,
         NEW name \in Names, lab[s] = name
  PROVE  Proper(AddTo(items, s, name), lab, ag, m)
<1> DEFINE item == [name |-> name, stream |-> s]
           new == AddTo(items, s, name)
<1>1. items \in Seq(Entry) /\ item \in Entry
  BY DEF Proper, Entry
<1>2. new \in Seq(Entry) /\ UniqueNames(new)
  BY <1>1, AddSeq, AddUnique DEF Proper, AddTo
<1>3. \A k \in DOMAIN items : items[k].stream \in Nat
  BY <1>1, ItemsOf
<1>4. s \in Nat
  BY StreamsNat
<1>5. CASE Contains(items, name)
  <2>1. new = items
    BY <1>5 DEF AddTo, Add
  <2> QED BY <1>3, <2>1 DEF Proper
<1>6. CASE ~Contains(items, name)
  <2>1. new = Append(items, item)
    BY <1>6 DEF AddTo, Add
  <2>2. /\ DOMAIN items = 1 .. Len(items) /\ Len(items) \in Nat
        /\ DOMAIN new = 1 .. Len(items) + 1
        /\ new[Len(items) + 1] = item
        /\ \A k \in 1 .. Len(items) : new[k] = items[k]
    BY <1>1, <2>1
  <2> HIDE DEF new
  <2>3. \A k \in DOMAIN new : k \in DOMAIN items \/ k = Len(items) + 1
    BY <2>2
  <2>4. \A k \in DOMAIN items : new[k].stream = items[k].stream /\ items[k].stream < s
    BY <1>3, <1>4, <2>2 DEF Proper
  <2>5. \A k \in DOMAIN new : 
        /\ new[k].stream <= m
        /\ lab[new[k].stream] = new[k].name \/ new[k].stream \in ag
    BY <1>3, <1>4, <2>2, <2>3 DEF Proper
  <2>6. ASSUME NEW j \in DOMAIN new, NEW k \in DOMAIN new,
               new[j].stream = new[k].stream
        PROVE  j = k \/ new[j].stream \in ag
    <3>1. CASE j \in DOMAIN items /\ k \in DOMAIN items
      BY <2>2, <2>6, <3>1 DEF Proper
    <3>2. CASE ~(j \in DOMAIN items /\ k \in DOMAIN items)
      <4>1. item.stream = s
        OBVIOUS
      <4> QED BY <1>3, <1>4, <2>2, <2>3, <2>4, <2>6, <3>2, <4>1
    <3> QED BY <3>1, <3>2
  <2> QED BY <1>2, <2>5, <2>6 DEF Proper, new
<1> QED BY <1>5, <1>6

\* A stream that is listed can be listed again, whatever it is called.
LEMMA ListedAgain ==
  ASSUME NEW items, NEW lab, NEW lab2, NEW ag, NEW n \in Nat,
         Proper(items, lab, ag, n), NEW s \in Streams, s <= n, NEW name \in Names,
         \A r \in Streams : r # s => lab2[r] = lab[r]
  PROVE  Proper(AddTo(items, s, name), lab2, ag \cup {s}, n)
<1> DEFINE item == [name |-> name, stream |-> s]
           new == AddTo(items, s, name)
           more == ag \cup {s}
<1>1. items \in Seq(Entry) /\ item \in Entry /\ item.stream = s
  BY DEF Proper, Entry
<1>2. new \in Seq(Entry) /\ UniqueNames(new) /\ more \in SUBSET Streams
  BY <1>1, AddSeq, AddUnique DEF Proper, AddTo
<1>3. \A k \in DOMAIN items : items[k].stream \in Streams
  BY <1>1, ItemsOf
<1>4. /\ \A k \in DOMAIN items :
           /\ items[k].stream <= n
           /\ lab2[items[k].stream] = items[k].name \/ items[k].stream \in more
      /\ \A j, k \in DOMAIN items :
           items[j].stream = items[k].stream => j = k \/ items[j].stream \in more
  BY <1>3 DEF Proper
<1>5. CASE Contains(items, name)
  <2>1. new = items
    BY <1>5 DEF AddTo, Add
  <2> HIDE DEF new, more
  <2>2. Proper(new, lab2, more, n)
    BY <1>2, <1>4, <2>1 DEF Proper
  <2> QED BY <2>2 DEF new, more
<1>6. CASE ~Contains(items, name)
  <2>1. new = Append(items, item)
    BY <1>6 DEF AddTo, Add
  <2>2. /\ DOMAIN items = 1 .. Len(items) /\ Len(items) \in Nat
        /\ DOMAIN new = 1 .. Len(items) + 1
        /\ new[Len(items) + 1] = item
        /\ \A k \in 1 .. Len(items) : new[k] = items[k]
    BY <1>1, <2>1
  <2>3. s \in more
    OBVIOUS
  <2> HIDE DEF new, item, more
  <2>4. \A k \in DOMAIN new :
          \/ k \in DOMAIN items /\ new[k] = items[k]
          \/ new[k] = item
    BY <2>2
  <2>5. /\ \A k \in DOMAIN new :
             /\ new[k].stream <= n
             /\ lab2[new[k].stream] = new[k].name \/ new[k].stream \in more
        /\ \A j, k \in DOMAIN new :
             new[j].stream = new[k].stream => j = k \/ new[j].stream \in more
    BY <1>1, <1>4, <2>3, <2>4
  <2>6. Proper(new, lab2, more, n)
    BY <1>2, <2>5 DEF Proper
  <2> QED BY <2>6 DEF new, more
<1> QED BY <1>5, <1>6

\* New streams touch no part.
LEMMA Untouched ==
  ASSUME NEW mag, NEW phi, NEW n \in Nat, NEW m \in Nat, n <= m, Tidy(mag, phi, n)
  PROVE  Tidy(mag, phi, m)
<1>1. \A s \in Streams : mag[s] \in Streams \cup {Null} /\ phi[s] \in Streams \cup {Null}
  BY DEF Tidy
<1>2. \A s \in Streams : mag[s] \in Nat /\ phi[s] \in Nat
  BY <1>1, StreamsNat DEF Null
<1> QED BY <1>2 DEF Tidy

\* A stream can get new parts, or keep those it has.
LEMMA Repointed ==
  ASSUME NEW mag, NEW phi, NEW n \in Nat, NEW m \in Nat, n <= m,
         Tidy(mag, phi, n), NEW s \in Streams,
         NEW p \in Streams, NEW q \in Streams, p # q,
         p = phi[s] \/ (n < p /\ s < p /\ p <= m),
         q = mag[s] \/ (n < q /\ s < q /\ q <= m)
  PROVE  Tidy([mag EXCEPT ![s] = q], [phi EXCEPT ![s] = p], m)
<1> DEFINE mag2 == [mag EXCEPT ![s] = q]
           phi2 == [phi EXCEPT ![s] = p]
<1>1. \A r \in Streams \cup {Null} : r \in Nat
  BY StreamsNat DEF Null
<1>2. /\ mag \in [Streams -> Streams \cup {Null}]
      /\ phi \in [Streams -> Streams \cup {Null}]
  BY DEF Tidy
<1>3. \A r \in Streams : /\ mag2[r] = IF r = s THEN q ELSE mag[r]
                         /\ phi2[r] = IF r = s THEN p ELSE phi[r]
  BY <1>2
<1>4. /\ mag2 \in [Streams -> Streams \cup {Null}]
      /\ phi2 \in [Streams -> Streams \cup {Null}]
  BY <1>2
<1>5. \A r \in Streams : /\ mag[r] \in Streams \cup {Null}
                         /\ phi[r] \in Streams \cup {Null}
  BY <1>2
<1> HIDE DEF mag2, phi2
<1>6. \A r \in Streams :
        /\ mag[r] # Null => r < mag[r] /\ mag[r] <= n
        /\ phi[r] # Null => r < phi[r] /\ phi[r] <= n
  BY DEF Tidy
<1>7. Null = 0 /\ Null \notin Streams
  BY StreamsNat DEF Null
<1>8. \A r \in Streams :
        /\ mag2[r] # Null => r < mag2[r] /\ mag2[r] <= m
        /\ phi2[r] # Null => r < phi2[r] /\ phi2[r] <= m
  BY <1>1, <1>3, <1>5, <1>6, <1>7
<1>9. \A r \in Streams :
        /\ mag[r] <= n
        /\ phi[r] <= n
  BY <1>1, <1>5, <1>6, <1>7
<1>10. ASSUME NEW r \in Streams, NEW x \in Streams
       PROVE  /\ mag2[x] # Null => mag2[x] # phi2[r]
              /\ r # x /\ mag2[x] # Null => mag2[x] # mag2[r]
              /\ r # x /\ phi2[x] # Null => phi2[x] # phi2[r]
  <2>1. /\ mag[x] # Null => mag[x] # phi[r]
        /\ r # x /\ mag[x] # Null => mag[x] # mag[r]
        /\ r # x /\ phi[x] # Null => phi[x] # phi[r]
        /\ mag[s] # Null => mag[s] # phi[r]
        /\ mag[x] # Null => mag[x] # phi[s]
        /\ mag[r] # Null => mag[r] # phi[s]
    BY DEF Tidy
  <2>2. p \in Nat /\ q \in Nat /\ p # Null /\ q # Null
    BY <1>1, <1>7
  <2>3. /\ mag[x] \in Nat /\ mag[r] \in Nat /\ phi[x] \in Nat /\ phi[r] \in Nat
        /\ mag[x] <= n /\ mag[r] <= n /\ phi[x] <= n /\ phi[r] <= n
    BY <1>1, <1>5, <1>9
  <2>4. /\ mag2[x] = IF x = s THEN q ELSE mag[x]
        /\ mag2[r] = IF r = s THEN q ELSE mag[r]
        /\ phi2[x] = IF x = s THEN p ELSE phi[x]
        /\ phi2[r] = IF r = s THEN p ELSE phi[r]
    BY <1>3
  <2> QED BY <2>1, <2>2, <2>3, <2>4
<1> QED BY <1>4, <1>8, <1>10 DEF Tidy, mag2, phi2

\* What a stream's deletion frees has all been made.
LEMMA TreeMade ==
  ASSUME IInv, NEW s \in Streams, s <= made
  PROVE  \A x \in Tree(s) : x \in Streams /\ x <= made
<1>1. made \in 0 .. MaxStreams /\ MaxStreams \in Nat
  BY ModelAssumption DEF IInv, TypeOK
<1>2. \A x \in Tree(s) : x \in s .. made
  BY DEF Tree
<1> QED BY <1>1, <1>2 DEF Streams


-------------------------------------------------------------------------------
(* The steps.                                                                *)

LEMMA InitIInv == Init => IInv
<1> SUFFICES ASSUME Init PROVE IInv
  OBVIOUS
<1>1. models \in Seq(Entry) /\ DOMAIN models = {}
  BY DEF Init
<1>2. Proper(models, label, again, made)
  BY <1>1 DEF Proper, UniqueNames, Init
<1>3. Tidy(magnitude, phase, made)
  BY DEF Init, Tidy
<1> QED BY <1>2, <1>3, Halves, ModelAssumption DEF Init

\* What every step says of the number of streams.
LEMMA Making ==
  ASSUME IInv, NEW n \in Nat, Make(n)
  PROVE  /\ made \in Nat /\ made' = made + n /\ made' \in 0 .. MaxStreams
         /\ \A k \in 1 .. n : made + k \in Streams
BY ModelAssumption DEF IInv, TypeOK, Make, Streams

LEMMA ListedStream ==
  ASSUME IInv, NEW name, Contains(models, name)
  PROVE  StreamOf(name) \in Streams /\ StreamOf(name) <= made
<1>1. models \in Seq(Entry)
  BY DEF IInv, TypeOK
<1>2. IndexOf(models, name) \in DOMAIN models
  BY <1>1, IndexOfPlace
<1> QED BY <1>1, <1>2, ItemsOf DEF StreamOf, Get, IInv, InOrder

\* What is freed was made.
LEMMA FreedMade ==
  ASSUME IInv
  PROVE  /\ freed \in SUBSET Streams /\ made \in Nat
         /\ \A r \in freed : r \in Nat /\ r <= made
BY Halves, StreamsNat, ModelAssumption

LEMMA RegisterStep ==
  ASSUME IInv, NEW name \in Names, Register(name)
  PROVE  IInv'
<1>1. /\ made \in Nat /\ made' = made + 1 /\ made' \in 0 .. MaxStreams
      /\ First \in Streams
  BY Making DEF Register, First
<1>2. Proper(models, label, again, made) /\ label \in [Streams -> Names \cup {NoName}]
  BY Halves
<1>3. label' \in [Streams -> Names \cup {NoName}] /\ label'[First] = name
      /\ \A s \in Streams : s <= made => label'[s] = label[s]
  BY <1>1, <1>2 DEF Register, First
<1>4. Proper(models, label', again, made)
  BY <1>1, <1>2, <1>3, Relabelled
<1>5. Proper(models', label', again', made')
  <2>1. made' \in Nat /\ made <= made' /\ made < First /\ First <= made'
    BY <1>1 DEF First
  <2> QED BY <1>1, <1>3, <1>4, <2>1, ListedNew DEF Register
<1>6. Tidy(magnitude', phase', made')
  BY <1>1, Halves, Untouched DEF Register
<1>7. freed' \in SUBSET Streams /\ \A s \in freed' : s <= made'
  BY <1>1, StreamsNat, Halves DEF Register
<1> QED BY <1>1, <1>3, <1>5, <1>6, <1>7, HalvesNext

LEMMA AddAgainStep ==
  ASSUME IInv, NEW name \in Names, NEW node \in Names, AddAgain(name, node)
  PROVE  IInv'
<1> DEFINE s == StreamOf(node)
<1>1. s \in Streams /\ s <= made
  BY ListedStream DEF AddAgain, Usable
<1>2. /\ Proper(models, label, again, made) /\ label \in [Streams -> Names \cup {NoName}]
      /\ Tidy(magnitude, phase, made) /\ made \in 0 .. MaxStreams /\ made \in Nat
  BY Halves, ModelAssumption
<1>3. /\ label' = [label EXCEPT ![s] = name] /\ models' = AddTo(models, s, name)
      /\ again' = again \cup {s} /\ UNCHANGED <<made, freed, magnitude, phase>>
  BY DEF AddAgain
<1> HIDE DEF s
<1>4. /\ label' \in [Streams -> Names \cup {NoName}]
      /\ \A r \in Streams : r # s => label'[r] = label[r]
  BY <1>1, <1>2, <1>3
<1>5. Proper(models', label', again', made')
  BY <1>1, <1>2, <1>3, <1>4, ListedAgain
<1>6. freed' \in SUBSET Streams /\ \A r \in freed' : r <= made'
  BY <1>3, FreedMade
<1> QED BY <1>2, <1>3, <1>4, <1>5, <1>6, HalvesNext

LEMMA GetFftStep ==
  ASSUME IInv, NEW name \in Names, NEW mag \in Names, NEW phi \in Names,
         GetFft(name, mag, phi)
  PROVE  IInv'
<1> DEFINE s == StreamOf(name)
           between == AddTo(models, First, phi)
<1>1. /\ made \in Nat /\ made' = made + 2 /\ made' \in 0 .. MaxStreams
      /\ First \in Streams /\ Second \in Streams
      /\ First = made + 1 /\ Second = made + 2
  BY Making DEF GetFft, First, Second
<1>2. s \in Streams /\ s <= made /\ s \in Nat
  BY ListedStream, StreamsNat DEF GetFft, Usable
<1>3. /\ Proper(models, label, again, made) /\ label \in [Streams -> Names \cup {NoName}]
      /\ Tidy(magnitude, phase, made)
  BY Halves
<1>4. /\ label' \in [Streams -> Names \cup {NoName}]
      /\ label'[First] = phi /\ label'[Second] = mag
      /\ \A r \in Streams : r <= made => label'[r] = label[r]
  BY <1>1, <1>3 DEF GetFft
<1> HIDE DEF s
<1>5. Proper(models, label', again, made)
  BY <1>1, <1>3, <1>4, Relabelled
<1>6. Proper(between, label', again, made + 1)
  <2>1. made + 1 \in Nat /\ made <= made + 1 /\ made < First /\ First <= made + 1
    BY <1>1
  <2> QED BY <1>1, <1>4, <1>5, <2>1, ListedNew
<1>7. Proper(models', label', again', made')
  <2>1. /\ made + 1 \in Nat /\ made' \in Nat /\ made + 1 <= made'
        /\ made + 1 < Second /\ Second <= made'
    BY <1>1
  <2>2. models' = AddTo(between, Second, mag) /\ again' = again
    BY DEF GetFft
  <2> HIDE DEF between
  <2> QED BY <1>1, <1>4, <1>6, <2>1, <2>2, ListedNew
<1>8. Tidy(magnitude', phase', made')
  <2>1. /\ made' \in Nat /\ made <= made' /\ First # Second
        /\ made < First /\ s < First /\ First <= made'
        /\ made < Second /\ s < Second /\ Second <= made'
    BY <1>1, <1>2
  <2>2. Tidy([magnitude EXCEPT ![s] = Second], [phase EXCEPT ![s] = First], made')
    BY <1>1, <1>2, <1>3, <2>1, Repointed
  <2> QED BY <2>2 DEF GetFft, s
<1>9. freed' \in SUBSET Streams /\ \A r \in freed' : r <= made'
  BY <1>1, FreedMade DEF GetFft
<1> QED BY <1>1, <1>4, <1>7, <1>8, <1>9, HalvesNext

LEMMA IfftIntoStep ==
  ASSUME IInv, NEW name \in Names, NEW mag \in Names, NEW phi \in Names,
         IfftInto(name, mag, phi)
  PROVE  IInv'
<1> DEFINE s == StreamOf(name)
<1>1. /\ made \in Nat /\ made' = made + 2 /\ made' \in 0 .. MaxStreams
      /\ First \in Streams /\ Second \in Streams
      /\ First = made + 1 /\ Second = made + 2
  BY Making DEF IfftInto, First, Second
<1>2. s \in Streams /\ s <= made /\ s \in Nat
  BY ListedStream, StreamsNat DEF IfftInto, Usable
<1>3. /\ Proper(models, label, again, made) /\ label \in [Streams -> Names \cup {NoName}]
      /\ Tidy(magnitude, phase, made)
  BY Halves
<1> HIDE DEF s
<1>4. Proper(models', label', again', made')
  BY <1>1, <1>3, Relabelled DEF IfftInto
<1>5. Tidy(magnitude', phase', made')
  <2>1. /\ made' \in Nat /\ made <= made' /\ First # Second
        /\ made < First /\ s < First /\ First <= made'
        /\ made < Second /\ s < Second /\ Second <= made'
    BY <1>1, <1>2
  <2>2. Tidy([magnitude EXCEPT ![s] = Second], [phase EXCEPT ![s] = First], made')
    BY <1>1, <1>2, <1>3, <2>1, Repointed
  <2> QED BY <2>2 DEF IfftInto, s
<1>6. freed' \in SUBSET Streams /\ \A r \in freed' : r <= made'
  BY <1>1, FreedMade DEF IfftInto
<1>7. label' = label
  BY DEF IfftInto
<1> QED BY <1>1, <1>3, <1>4, <1>5, <1>6, <1>7, HalvesNext

LEMMA GetIfftStep ==
  ASSUME IInv, NEW name \in Names, NEW mag \in Names, NEW phi \in Names,
         GetIfft(name, mag, phi)
  PROVE  IInv'
<1>1. /\ made \in Nat /\ made' = made + 3 /\ made' \in 0 .. MaxStreams
      /\ First \in Streams /\ Second \in Streams /\ Third \in Streams
      /\ First = made + 1 /\ Second = made + 2 /\ Third = made + 3
  BY Making DEF GetIfft, First, Second, Third
<1>2. /\ Proper(models, label, again, made) /\ label \in [Streams -> Names \cup {NoName}]
      /\ Tidy(magnitude, phase, made)
  BY Halves
<1>3. /\ label' \in [Streams -> Names \cup {NoName}] /\ label'[First] = name
      /\ \A r \in Streams : r <= made => label'[r] = label[r]
  BY <1>1, <1>2 DEF GetIfft
<1>4. Proper(models, label', again, made)
  BY <1>1, <1>2, <1>3, Relabelled
<1>5. made' \in Nat /\ made <= made' /\ made < First /\ First <= made'
  BY <1>1
<1>6. Proper(models', label', again', made')
  BY <1>1, <1>3, <1>4, <1>5, ListedNew DEF GetIfft
<1>7. Tidy(magnitude', phase', made')
  <2>1. /\ Second # Third
        /\ made < Second /\ First < Second /\ Second <= made'
        /\ made < Third /\ First < Third /\ Third <= made'
    BY <1>1
  <2>2. Tidy([magnitude EXCEPT ![First] = Third], [phase EXCEPT ![First] = Second], made')
    BY <1>1, <1>2, <1>5, <2>1, Repointed
  <2> QED BY <2>2 DEF GetIfft
<1>8. freed' \in SUBSET Streams /\ \A r \in freed' : r <= made'
  BY <1>1, FreedMade DEF GetIfft
<1> QED BY <1>1, <1>3, <1>6, <1>7, <1>8, HalvesNext

\* The parts of the matrix are the new ones or those it has.
LEMMA ConvolveStep ==
  ASSUME IInv, NEW name \in Names, NEW model \in Names, NEW matrix \in Names,
         Convolve(name, model, matrix)
  PROVE  IInv'
<1> DEFINE m == StreamOf(matrix)
           lacking(part) == IF part[m] = Null THEN 1 ELSE 0
           newphi == IF phase[m] = Null THEN made + 4 ELSE phase[m]
           newmag == IF magnitude[m] = Null THEN made' ELSE magnitude[m]
           gone == {Second, Third, newphi, newmag} \cup UNION {Tree(p) : p \in Parts(m)}
<1>1. /\ Make(3 + lacking(phase) + lacking(magnitude))
      /\ phase' = [phase EXCEPT ![First] = Second, ![m] = newphi]
      /\ magnitude' = [magnitude EXCEPT ![First] = Third, ![m] = newmag]
      /\ freed' = freed \cup gone
      /\ label' = [label EXCEPT ![First] = name]
      /\ models' = AddTo(models, First, name) /\ again' = again
  BY DEF Convolve
<1>2. m \in Streams /\ m <= made /\ m \in Nat
  BY ListedStream, StreamsNat DEF Convolve, Usable
<1> DEFINE n == 3 + lacking(phase) + lacking(magnitude)
<1>3. /\ made \in Nat /\ made' = made + n /\ made' \in 0 .. MaxStreams
      /\ n \in Nat /\ \A k \in 1 .. n : made + k \in Streams
  <2>1. n \in Nat
    OBVIOUS
  <2> HIDE DEF n
  <2> QED BY <1>1, <2>1, Making DEF n
<1>4. /\ First \in Streams /\ Second \in Streams /\ Third \in Streams
      /\ First = made + 1 /\ Second = made + 2 /\ Third = made + 3
      /\ made + 3 <= made' /\ made' \in Nat
  BY <1>3 DEF First, Second, Third
<1>5. /\ Proper(models, label, again, made) /\ label \in [Streams -> Names \cup {NoName}]
      /\ Tidy(magnitude, phase, made)
  BY Halves
<1>6. /\ magnitude[m] # Null => m < magnitude[m] /\ magnitude[m] <= made
      /\ phase[m] # Null => m < phase[m] /\ phase[m] <= made
      /\ magnitude[m] # Null => magnitude[m] # phase[m]
      /\ magnitude[m] \in Streams \cup {Null} /\ phase[m] \in Streams \cup {Null}
  BY <1>2, <1>5 DEF Tidy
<1>7. /\ newphi \in Streams
      /\ newphi = phase[m] \/ (made + 3 < newphi /\ m < newphi /\ newphi <= made')
  <2>1. CASE phase[m] = Null
    <3>1. n \in {4, 5} /\ newphi = made + 4
      BY <2>1
    <3> HIDE DEF n, newphi
    <3> QED BY <1>2, <1>3, <3>1
  <2>2. CASE phase[m] # Null
    BY <1>6, <2>2
  <2> QED BY <2>1, <2>2
<1>8. /\ newmag \in Streams
      /\ newmag = magnitude[m] \/ (made + 3 < newmag /\ m < newmag /\ newmag <= made')
  <2>1. CASE magnitude[m] = Null
    <3>1. n \in {4, 5} /\ newmag = made'
      BY <2>1
    <3> HIDE DEF n, newmag
    <3> QED BY <1>2, <1>3, <3>1
  <2>2. CASE magnitude[m] # Null
    BY <1>6, <2>2
  <2> QED BY <2>1, <2>2
<1>9. newphi # newmag
  <2>1. CASE phase[m] = Null /\ magnitude[m] = Null
    <3>1. n = 5 /\ newphi = made + 4 /\ newmag = made'
      BY <2>1
    <3> HIDE DEF n, newphi, newmag
    <3> QED BY <1>3, <3>1
  <2>2. CASE phase[m] = Null /\ magnitude[m] # Null
    <3>1. newphi = made + 4 /\ newmag = magnitude[m]
      BY <2>2
    <3> HIDE DEF n, newphi, newmag
    <3> QED BY <1>2, <1>3, <1>6, <2>2, <3>1, StreamsNat
  <2>3. CASE phase[m] # Null /\ magnitude[m] = Null
    <3>1. n = 4 /\ newphi = phase[m] /\ newmag = made'
      BY <2>3
    <3> HIDE DEF n, newphi, newmag
    <3> QED BY <1>2, <1>3, <1>6, <2>3, <3>1, StreamsNat
  <2>4. CASE phase[m] # Null /\ magnitude[m] # Null
    BY <1>6, <2>4
  <2> QED BY <2>1, <2>2, <2>3, <2>4
<1> HIDE DEF m, n, newphi, newmag
<1>10. newphi <= made' /\ newmag <= made'
  <2>1. /\ newphi \in Nat /\ newmag \in Nat /\ newphi # Null /\ newmag # Null
    BY <1>7, <1>8, StreamsNat DEF Null
  <2>2. made <= made'
    BY <1>3, <1>4
  <2> QED BY <1>3, <1>4, <1>6, <1>7, <1>8, <2>1, <2>2
<1>11. /\ label' \in [Streams -> Names \cup {NoName}] /\ label'[First] = name
       /\ \A r \in Streams : r <= made => label'[r] = label[r]
  <2>1. \A r \in Streams : r <= made => r # First
    BY <1>3, <1>4
  <2> QED BY <1>1, <1>4, <1>5, <2>1
<1>12. Proper(models, label', again, made)
  BY <1>4, <1>5, <1>11, Relabelled, <1>3
<1>13. made <= made' /\ made < First /\ First <= made'
  BY <1>3, <1>4
<1>14. Proper(models', label', again', made')
  BY <1>1, <1>3, <1>4, <1>11, <1>12, <1>13, ListedNew
<1> DEFINE mag1 == [magnitude EXCEPT ![First] = Third]
           phi1 == [phase EXCEPT ![First] = Second]
<1>15. Tidy(mag1, phi1, made + 3)
  <2>1. /\ made + 3 \in Nat /\ made <= made + 3 /\ Second # Third
        /\ made < Second /\ First < Second /\ Second <= made + 3
        /\ made < Third /\ First < Third /\ Third <= made + 3
    BY <1>3, <1>4
  <2> QED BY <1>3, <1>4, <1>5, <2>1, Repointed
<1>16. /\ mag1[m] = magnitude[m] /\ phi1[m] = phase[m]
       /\ magnitude' = [mag1 EXCEPT ![m] = newmag]
       /\ phase' = [phi1 EXCEPT ![m] = newphi]
  <2>1. m # First
    BY <1>2, <1>3, <1>4
  <2>2. /\ magnitude \in [Streams -> Streams \cup {Null}]
        /\ phase \in [Streams -> Streams \cup {Null}]
    BY <1>5 DEF Tidy
  <2> QED BY <1>1, <1>2, <1>4, <2>1, <2>2
<1> HIDE DEF mag1, phi1
<1>17. Tidy(magnitude', phase', made')
  <2>1. made + 3 \in Nat
    BY <1>3
  <2> QED BY <1>2, <1>4, <1>7, <1>8, <1>9, <1>15, <1>16, <2>1, Repointed
<1>18. \A r \in gone : r \in Streams /\ r <= made'
  <2>1. \A p \in Parts(m) : p \in Streams /\ p <= made
    BY <1>2, <1>6 DEF Parts
  <2>2. \A p \in Parts(m) : \A x \in Tree(p) : x \in Streams /\ x <= made
    BY <2>1, TreeMade
  <2>3. \A x \in Streams : x \in Nat
    BY StreamsNat
  <2>4. ASSUME NEW r \in gone
        PROVE  r \in Streams /\ r <= made'
    <3>1. CASE r \in {Second, Third, newphi, newmag}
      BY <1>4, <1>3, <1>7, <1>8, <1>10, <3>1
    <3>2. CASE \E p \in Parts(m) : r \in Tree(p)
      <4>1. r \in Streams /\ r <= made
        BY <2>2, <3>2
      <4> QED BY <1>3, <1>4, <2>3, <4>1
    <3> QED BY <2>4, <3>1, <3>2
  <2> QED BY <2>4
<1>19. freed' \in SUBSET Streams /\ \A r \in freed' : r <= made'
  <2>1. \A r \in freed : r <= made'
    BY <1>4, <1>13, FreedMade
  <2> HIDE DEF gone
  <2> QED BY <1>1, <1>18, <2>1, FreedMade
<1> QED BY <1>3, <1>11, <1>14, <1>17, <1>19, HalvesNext

LEMMA LoseStep ==
  ASSUME IInv, NEW n \in 1 .. 2, Lose(n)
  PROVE  IInv'
<1>1. made \in Nat /\ made' \in 0 .. MaxStreams /\ made' \in Nat /\ made <= made'
  BY Making DEF Lose
<1>2. UNCHANGED <<models, freed, magnitude, phase, label, again>>
  BY DEF Lose
<1>3. /\ Proper(models, label, again, made) /\ label \in [Streams -> Names \cup {NoName}]
      /\ Tidy(magnitude, phase, made)
  BY Halves
<1>4. Proper(models', label', again', made')
  BY <1>1, <1>2, <1>3, Relabelled
<1>5. Tidy(magnitude', phase', made')
  BY <1>1, <1>2, <1>3, Untouched
<1>6. freed \in SUBSET Streams /\ \A r \in freed : r <= made'
  BY <1>1, FreedMade
<1> QED BY <1>1, <1>2, <1>3, <1>4, <1>5, <1>6, HalvesNext

\* The models that stay are listed as they were.
LEMMA DelModelStep ==
  ASSUME IInv, NEW name \in Names, DelModel(name)
  PROVE  IInv'
<1> DEFINE rest == Remove(models, name)
           at == IndexOf(models, name)
           Old(j) == IF j < at THEN j ELSE j + 1
<1>1. /\ models \in Seq(Entry) /\ UniqueNames(models) /\ Contains(models, name)
      /\ models' = rest /\ UNCHANGED <<made, magnitude, phase, label, again>>
  BY DEF IInv, TypeOK, DelModel
<1>2. /\ Proper(models, label, again, made) /\ label \in [Streams -> Names \cup {NoName}]
      /\ Tidy(magnitude, phase, made) /\ made \in 0 .. MaxStreams
  BY Halves
<1>3. /\ at \in 1 .. Len(models) /\ Len(models) \in Nat
      /\ DOMAIN models = 1 .. Len(models)
  BY <1>1, IndexOfPlace
<1>4. /\ rest \in Seq(Entry) /\ DOMAIN rest = 1 .. Len(models) - 1
      /\ \A j \in 1 .. Len(models) - 1 : rest[j] = models[Old(j)]
  BY <1>1, RemoveSeq
<1>5. UniqueNames(rest)
  BY <1>1, RemoveUnique
<1> HIDE DEF rest, at
<1>6. \A j \in 1 .. Len(models) - 1 : Old(j) \in 1 .. Len(models)
  BY <1>3
<1>7. \A j, k \in 1 .. Len(models) - 1 : Old(j) = Old(k) => j = k
  BY <1>3
<1> HIDE DEF Old
<1>8. \A k \in DOMAIN rest :
        /\ rest[k].stream <= made
        /\ label[rest[k].stream] = rest[k].name \/ rest[k].stream \in again
  BY <1>2, <1>3, <1>4, <1>6 DEF Proper
<1>9. ASSUME NEW j \in DOMAIN rest, NEW k \in DOMAIN rest,
             rest[j].stream = rest[k].stream
      PROVE  j = k \/ rest[j].stream \in again
  <2>1. Old(j) \in DOMAIN models /\ Old(k) \in DOMAIN models
    BY <1>3, <1>4, <1>6
  <2>2. models[Old(j)].stream = models[Old(k)].stream
    BY <1>4, <1>9
  <2>3. Old(j) = Old(k) \/ models[Old(j)].stream \in again
    BY <1>2, <2>1, <2>2 DEF Proper
  <2> QED BY <1>4, <1>7, <2>3
<1>10. Proper(models', label', again', made')
  BY <1>1, <1>2, <1>4, <1>5, <1>8, <1>9 DEF Proper
<1>11. freed' \in SUBSET Streams /\ \A r \in freed' : r <= made'
  <2>1. StreamOf(name) \in Streams /\ StreamOf(name) <= made
    BY <1>1, ListedStream
  <2>2. Tree(StreamOf(name)) \in SUBSET Streams /\ \A x \in Tree(StreamOf(name)) : x <= made
    BY <2>1, TreeMade
  <2>3. made \in Nat /\ made <= made /\ made' = made
    BY <1>1, <1>2, ModelAssumption
  <2>4. freed' = freed \cup Tree(StreamOf(name))
    BY DEF DelModel
  <2> HIDE DEF Tree
  <2> QED BY <2>2, <2>3, <2>4, FreedMade
<1> QED BY <1>1, <1>2, <1>10, <1>11, HalvesNext

LEMMA NextIInv == IInv /\ [Next]_vars => IInv'
<1> SUFFICES ASSUME IInv, [Next]_vars PROVE IInv'
  OBVIOUS
<1>1. ASSUME NEW name \in Names, AddModel(name) PROVE IInv'
  BY <1>1, RegisterStep DEF AddModel
<1>2. ASSUME NEW name \in Names, DelModel(name) PROVE IInv'
  BY <1>2, DelModelStep
<1>3. ASSUME NEW name \in Names, NEW node \in Names, CopyModel(name, node) PROVE IInv'
  BY <1>3, RegisterStep DEF CopyModel
<1>4. ASSUME NEW a \in Names, NEW b \in Names, Mismatch(a, b) PROVE IInv'
  BY <1>4, LoseStep DEF Mismatch
<1>5. ASSUME NEW name \in Names, NEW a \in Names, NEW b \in Names, Combine(name, a, b)
      PROVE  IInv'
  BY <1>5, RegisterStep DEF Combine
<1>6. ASSUME NEW name \in Names, NEW a \in Names, NEW b \in Names, Convolve(name, a, b)
      PROVE  IInv'
  BY <1>6, ConvolveStep
<1>7. ASSUME NEW name \in Names, NEW a \in Names, NEW b \in Names, GetFft(name, a, b)
      PROVE  IInv'
  BY <1>7, GetFftStep
<1>8. ASSUME NEW name \in Names, NEW a \in Names, NEW b \in Names, GetIfft(name, a, b)
      PROVE  IInv'
  BY <1>8, GetIfftStep
<1>9. ASSUME NEW name \in Names, NEW a \in Names, NEW b \in Names, IfftInto(name, a, b)
      PROVE  IInv'
  BY <1>9, IfftIntoStep
<1>10. ASSUME NEW n \in 1 .. 2, Lose(n) PROVE IInv'
  BY <1>10, LoseStep
<1>11. CASE UNCHANGED vars
  BY <1>11 DEF vars, IInv, TypeOK, NamesAgree, OneParent, InOrder, Parts
<1>12. ASSUME NEW name \in Names, Plot(name) PROVE IInv'
  BY <1>11, <1>12, RegisterStep DEF Plot
<1>13. ASSUME NEW name \in Names, NEW node \in Names, AddAgain(name, node) PROVE IInv'
  BY <1>13, AddAgainStep
<1> QED BY <1>1, <1>2, <1>3, <1>4, <1>5, <1>6, <1>7, <1>8, <1>9, <1>10, <1>11, <1>12, <1>13
        DEF Next

-------------------------------------------------------------------------------
\* The invariant above holds in every state.
THEOREM ModelsConsistent == Spec => []IInv
<1> QED BY InitIInv, NextIInv, PTL DEF Spec

\* The variables keep their types and a name stands for one model.
THEOREM TypeCorrect == Spec => []TypeOK
<1>1. IInv => TypeOK
  BY DEF IInv
<1> QED BY <1>1, ModelsConsistent, PTL

\* A model is listed under its stream's own name, and a stream only once, but
\* for streams that were added when they were listed.
THEOREM OneListing == Spec => []NamesAgree
<1>1. IInv => NamesAgree
  BY DEF IInv
<1> QED BY <1>1, ModelsConsistent, PTL

\* No stream is a part of two.
THEOREM PartsApart == Spec => []OneParent
<1>1. IInv => OneParent
  BY DEF IInv
<1> QED BY <1>1, ModelsConsistent, PTL

-------------------------------------------------------------------------------
(* ModelFiles: what an addition leaves of the other entries.                 *)

LEMMA AddedEntry ==
  ASSUME NEW items \in Seq(Entry), UniqueNames(items),
         NEW s \in Streams, NEW name \in Names, ~Contains(items, name)
  PROVE  /\ Contains(AddTo(items, s, name), name)
         /\ Get(AddTo(items, s, name), name).stream = s
         /\ \A other : other # name =>
              (Contains(AddTo(items, s, name), other) <=> Contains(items, other))
         /\ \A other : Contains(items, other) =>
              Get(AddTo(items, s, name), other) = Get(items, other)
<1> DEFINE item == [name |-> name, stream |-> s]
           new == AddTo(items, s, name)
<1>1. new = Append(items, item)
  BY DEF AddTo, Add
<1>2. item \in Entry /\ item.name = name /\ item.stream = s
  BY DEF Entry
<1>3. new \in Seq(Entry) /\ UniqueNames(new)
  BY <1>2, AddSeq, AddUnique DEF AddTo
<1>4. /\ Len(items) \in Nat /\ DOMAIN items = 1 .. Len(items)
      /\ DOMAIN new = 1 .. Len(items) + 1
      /\ new[Len(items) + 1] = item
      /\ \A k \in 1 .. Len(items) : new[k] = items[k]
  BY <1>1, <1>2
<1> HIDE DEF new, item
<1>5. \A k \in DOMAIN new : k \in DOMAIN items \/ k = Len(items) + 1
  BY <1>4
<1>6. DOMAIN items \subseteq DOMAIN new /\ Len(items) + 1 \in DOMAIN new
  BY <1>4
<1>7. \A other : Contains(new, other) <=> Contains(items, other) \/ other = name
  BY <1>2, <1>4, <1>5, <1>6 DEF Contains, NamesOf
<1>8. Get(new, name) = item
  <2>1. IndexOf(new, name) \in DOMAIN new /\ new[IndexOf(new, name)].name = name
    BY <1>3, <1>7, IndexOfPlace
  <2>2. new[Len(items) + 1].name = name
    BY <1>2, <1>4
  <2>3. IndexOf(new, name) = Len(items) + 1
    BY <1>3, <1>6, <2>1, <2>2 DEF UniqueNames
  <2> QED BY <1>4, <2>3 DEF Get
<1>9. ASSUME NEW other, Contains(items, other)
      PROVE  Get(new, other) = Get(items, other)
  <2>1. /\ IndexOf(items, other) \in DOMAIN items
        /\ items[IndexOf(items, other)].name = other
    BY <1>9, IndexOfPlace
  <2>2. IndexOf(new, other) \in DOMAIN new /\ new[IndexOf(new, other)].name = other
    BY <1>3, <1>7, <1>9, IndexOfPlace
  <2>3. IndexOf(new, other) = IndexOf(items, other)
    BY <1>3, <1>4, <1>6, <2>1, <2>2 DEF UniqueNames
  <2> QED BY <1>4, <2>1, <2>3 DEF Get
<1> QED BY <1>2, <1>7, <1>8, <1>9 DEF new

\* A name stands for a stream, or for none.
ListedIn(items, name, s) ==
  IF s = Null THEN ~Contains(items, name)
  ELSE Contains(items, name) /\ Get(items, name).stream = s

\* A name that is taken keeps its stream, and a free one gets the new stream.
LEMMA AddedAs ==
  ASSUME NEW items \in Seq(Entry), UniqueNames(items),
         NEW s \in Streams, NEW name \in Names
  PROVE  /\ \A t : ListedIn(items, name, t) =>
                     ListedIn(AddTo(items, s, name), name, IF t = Null THEN s ELSE t)
         /\ \A t, other : other # name /\ ListedIn(items, other, t) =>
                     ListedIn(AddTo(items, s, name), other, t)
<1> DEFINE new == AddTo(items, s, name)
<1>1. s # Null
  BY StreamsNat DEF Null
<1>2. CASE Contains(items, name)
  <2>1. new = items
    BY <1>2 DEF AddTo, Add
  <2> HIDE DEF new
  <2>2. \A t : ListedIn(items, name, t) => t # Null
    BY <1>2 DEF ListedIn
  <2> QED BY <2>1, <2>2 DEF new
<1>3. CASE ~Contains(items, name)
  <2>1. /\ Contains(new, name) /\ Get(new, name).stream = s
        /\ \A other : other # name => (Contains(new, other) <=> Contains(items, other))
        /\ \A other : Contains(items, other) => Get(new, other) = Get(items, other)
    BY <1>3, AddedEntry
  <2> HIDE DEF new
  <2>2. \A t : ListedIn(items, name, t) => t = Null
    BY <1>3 DEF ListedIn
  <2>3. ListedIn(new, name, s)
    BY <1>1, <2>1 DEF ListedIn
  <2>4. \A t, other : other # name /\ ListedIn(items, other, t) => ListedIn(new, other, t)
    BY <2>1 DEF ListedIn
  <2> QED BY <2>2, <2>3, <2>4 DEF new
<1> QED BY <1>2, <1>3

\* What the file's names stand for, when the channels up to n are listed.
LEMMA NamesOfFile ==
  ASSUME NEW n
  PROVE  /\ \A name, s : ListedAs(name, s) <=> ListedIn(models, name, s)
         /\ ChannelsUpTo(n) <=>
              \A c \in 0 .. MaxChannels - 1 :
                ListedIn(models, Channel(job.name, c),
                         IF job.channels > 1 /\ c < n
                         THEN Given(Channel(job.name, c), job.first + c)
                         ELSE job.before[Channel(job.name, c)])
<1>1. \A name, s : ListedAs(name, s) <=> ListedIn(models, name, s)
  BY DEF ListedAs, ListedIn, StreamOf
<1> QED BY <1>1 DEF ChannelsUpTo

-------------------------------------------------------------------------------
(* The files do with the models what ModelStore says.                        *)

LEMMA PlainNames == \A name \in Plain : name \in Names
BY ChannelAssumption

LEMMA StepStore == FilesTypeOK /\ Progress /\ [FilesNext]_<<vars, fileVars>> => [Next]_vars
<1> SUFFICES ASSUME FilesTypeOK, Progress, [FilesNext]_<<vars, fileVars>>
             PROVE  [Next]_vars
  OBVIOUS
<1>1. ASSUME NEW name \in Plain, NEW channels \in 1 .. MaxChannels,
             Load(name, channels) \/ Upload(name, channels)
      PROVE  UNCHANGED vars
  BY <1>1 DEF Load, Upload
<1>2. ListChannel => Next
  <2> SUFFICES ASSUME ListChannel PROVE Next
    OBVIOUS
  <2>1. CASE job.channels > 1
    <3>1. Channel(job.name, job.next) \in Names
      BY ChannelAssumption DEF ListChannel, Progress, InProgress
    <3> QED BY <2>1, <3>1 DEF ListChannel, Next, AddModel
  <2>2. CASE ~(job.channels > 1)
    <3>1. Lose(1) /\ 1 \in 1 .. 2
      BY <2>2 DEF ListChannel
    <3> QED BY <3>1 DEF Next
  <2> QED BY <2>1, <2>2
<1>3. ListWhole => Next
  BY PlainNames DEF ListWhole, Next, AddModel, Progress, InProgress
<1>4. ASSUME NEW name \in Plain, Save(name) PROVE UNCHANGED vars
  BY <1>4 DEF Save
<1>5. ASSUME NEW name \in Plain, Download(name) PROVE Next
  <2>1. Lose(2) /\ 2 \in 1 .. 2
    BY <1>5 DEF Download
  <2> QED BY <2>1 DEF Next
<1>6. Other => Next
  BY DEF Other
<1> QED BY <1>1, <1>2, <1>3, <1>4, <1>5, <1>6 DEF FilesNext

-------------------------------------------------------------------------------
(* The streams that are saved.                                               *)

\* As many channels as were counted are listed, the first of them.
LEMMA Counted ==
  ASSUME NEW name, NEW more,
         more = {c \in 1 .. MaxChannels - 1 :
                   \A d \in 1 .. c : Contains(models, Channel(name, d))}
  PROVE  /\ Cardinality(more) \in Nat
         /\ \A c \in 1 .. Cardinality(more) : Contains(models, Channel(name, c))
<1>1. MaxChannels \in Nat \ {0}
  BY ChannelAssumption
<1>2. IsFiniteSet(more) /\ Cardinality(more) \in Nat
  <2>1. IsFiniteSet(1 .. MaxChannels - 1)
    BY <1>1, FS_Interval
  <2>2. more \subseteq 1 .. MaxChannels - 1
    OBVIOUS
  <2> QED BY <2>1, <2>2, FS_Subset, FS_CardinalityType
<1>3. ASSUME NEW c \in 1 .. Cardinality(more), ~Contains(models, Channel(name, c))
      PROVE  FALSE
  <2>1. c \in Nat /\ c >= 1 /\ c <= Cardinality(more)
    BY <1>2
  <2>2. more \subseteq 1 .. c - 1
    BY <1>1, <1>3, <2>1
  <2>3. IsFiniteSet(1 .. c - 1) /\ Cardinality(1 .. c - 1) = c - 1
    <3>1. 1 \in Int /\ c - 1 \in Int
      BY <2>1
    <3>2. IsFiniteSet(1 .. c - 1)
      BY <3>1, FS_Interval
    <3>3. Cardinality(1 .. c - 1) = IF 1 > c - 1 THEN 0 ELSE (c - 1) - 1 + 1
      BY <3>1, FS_Interval
    <3> QED BY <2>1, <3>2, <3>3
  <2>4. Cardinality(more) <= Cardinality(1 .. c - 1)
    BY <2>2, <2>3, FS_Subset
  <2> QED BY <1>2, <2>1, <2>3, <2>4
<1> QED BY <1>2, <1>3

LEMMA SavedStreams ==
  ASSUME IInv, NEW name
  PROVE  SavedList(name) \in Seq(Streams)
<1> DEFINE zero  == Channel(name, 0)
           start == IF Contains(models, zero) THEN zero ELSE name
           more  == {c \in 1 .. MaxChannels - 1 :
                       \A d \in 1 .. c : Contains(models, Channel(name, d))}
           size  == Cardinality(more) + 2
           list  == [k \in 1 .. size |->
                       IF k <= 2 THEN StreamOf(start) ELSE StreamOf(Channel(name, k - 2))]
<1>1. /\ Cardinality(more) \in Nat
      /\ \A c \in 1 .. Cardinality(more) : Contains(models, Channel(name, c))
  BY Counted
<1>2. CASE ~Contains(models, start)
  <2>1. SavedList(name) = <<>>
    BY <1>2 DEF SavedList
  <2> QED BY <2>1
<1>3. CASE Contains(models, start)
  <2>1. SavedList(name) = list
    BY <1>3 DEF SavedList
  <2>2. StreamOf(start) \in Streams
    BY <1>3, ListedStream
  <2> HIDE DEF more, start
  <2>3. ASSUME NEW k \in 1 .. size
        PROVE  list[k] \in Streams
    <3>1. CASE k <= 2
      BY <2>2, <3>1
    <3>2. CASE ~(k <= 2)
      <4>1. k - 2 \in 1 .. Cardinality(more)
        BY <1>1, <3>2
      <4>2. StreamOf(Channel(name, k - 2)) \in Streams
        BY <1>1, <4>1, ListedStream
      <4> QED BY <3>2, <4>2
    <3> QED BY <3>1, <3>2
  <2>4. list \in [1 .. size -> Streams] /\ size \in Nat
    BY <1>1, <2>3
  <2> HIDE DEF list, size
  <2> QED BY <2>1, <2>4
<1> QED BY <1>2, <1>3

-------------------------------------------------------------------------------
(* The steps.                                                                *)

Jobs == [at : {"idle", "listing", "loaded", "saved"}, name : Plain \cup {NoName},
         next : 0 .. MaxChannels, channels : 0 .. MaxChannels,
         first : 0 .. MaxStreams, before : [Names -> Streams \cup {Null}]]

LEMMA IdleJob == Idle \in Jobs /\ Idle.at = "idle"
BY ChannelAssumption, ModelAssumption DEF Idle, Jobs

LEMMA InitFiles == FilesInit => FilesIInv
<1> SUFFICES ASSUME FilesInit PROVE FilesIInv
  OBVIOUS
<1>1. IInv /\ TypeOK
  BY InitIInv DEF FilesInit, IInv
<1>2. job \in Jobs /\ job.at = "idle" /\ saved \in Seq(Streams)
  BY IdleJob DEF FilesInit
<1> QED BY <1>1, <1>2 DEF FilesIInv, FilesTypeOK, Jobs, Progress, Listing, LoadedTogether,
                        ChannelsSaved

\* Steps after which nothing is being listed.
LEMMA Resting ==
  ASSUME IInv', job' = Idle, saved' \in Seq(Streams)
  PROVE  FilesIInv'
<1>1. job' \in Jobs /\ job'.at = "idle"
  BY IdleJob
<1>2. TypeOK'
  BY DEF IInv
<1> QED BY <1>1, <1>2 DEF FilesIInv, FilesTypeOK, Jobs, Progress, Listing, LoadedTogether,
                        ChannelsSaved

\* The numbers of the channels are names, and none is the file's own.
LEMMA ChannelNames ==
  ASSUME NEW name \in Plain, NEW c \in 0 .. MaxChannels - 1
  PROVE  Channel(name, c) \in Names /\ Channel(name, c) # name
BY ChannelAssumption

LEMMA LoadStep ==
  ASSUME FilesIInv, IInv', NEW name \in Plain, NEW channels \in 1 .. MaxChannels,
         Load(name, channels)
  PROVE  FilesIInv'
<1> DEFINE was == [other \in Names |->
                     IF Contains(models, other) THEN StreamOf(other) ELSE Null]
<1>1. UNCHANGED <<models, made>> /\ made + channels + 1 <= MaxStreams
  BY DEF Load, vars
<1>2. /\ job'.at = "listing" /\ job'.name = name /\ job'.next = 0
      /\ job'.channels = channels /\ job'.first = made + 1 /\ job'.before = was
  BY DEF Load
<1>3. MaxChannels \in Nat /\ MaxStreams \in Nat /\ made \in Nat
  BY ChannelAssumption, ModelAssumption DEF FilesIInv, IInv, TypeOK
<1>4. made + 1 \in 0 .. MaxStreams /\ made + 1 \in Streams
  BY <1>1, <1>3 DEF Streams
<1>5. \A other \in Names : Contains(models, other) => StreamOf(other) \in Streams
  BY ListedStream DEF FilesIInv
<1>6. was \in [Names -> Streams \cup {Null}]
  BY <1>5
<1>7. \A other \in Names : ListedIn(models, other, was[other])
  BY <1>5, StreamsNat DEF ListedIn, StreamOf, Null
<1>8. job' = [at |-> "listing", name |-> name, next |-> 0, channels |-> channels,
              first |-> made + 1, before |-> was]
  BY DEF Load
<1> HIDE DEF was
<1>9. job' \in Jobs
  BY <1>3, <1>4, <1>6, <1>8 DEF Jobs
<1>10. TypeOK' /\ saved' \in Seq(Streams)
  BY DEF IInv, Load
<1>11. ASSUME NEW c \in 0 .. MaxChannels - 1
       PROVE  ~(c < 0) /\ ListedIn(models', Channel(name, c), was[Channel(name, c)])
  BY <1>1, <1>7, ChannelNames
<1>12. ListedIn(models', name, was[name])
  BY <1>1, <1>7, PlainNames
<1>13. InProgress'
  BY <1>1, <1>2, <1>3, <1>4, <1>11, <1>12
     DEF InProgress, ChannelsUpTo, ListedAs, ListedIn, StreamOf
<1> QED BY <1>2, <1>9, <1>10, <1>13
        DEF FilesIInv, FilesTypeOK, Jobs, Progress, LoadedTogether, ChannelsSaved

\* What the names of a file stand for while it is being listed.
LEMMA WhileListing ==
  ASSUME FilesIInv, Listing
  PROVE  /\ job \in Jobs /\ saved \in Seq(Streams) /\ IInv
         /\ models \in Seq(Entry) /\ UniqueNames(models)
         /\ job.at = "listing" /\ job.name \in Plain /\ job.channels \in 1 .. MaxChannels
         /\ job.next \in 0 .. job.channels /\ job.first \in Streams
         /\ made + 1 = job.first + job.next
         /\ made \in Nat /\ job.first \in Nat /\ MaxChannels \in Nat /\ MaxStreams \in Nat
         /\ ListedIn(models, job.name, job.before[job.name])
         /\ \A c \in 0 .. MaxChannels - 1 :
              ListedIn(models, Channel(job.name, c),
                       IF job.channels > 1 /\ c < job.next
                       THEN Given(Channel(job.name, c), job.first + c)
                       ELSE job.before[Channel(job.name, c)])
<1>1. InProgress /\ IInv /\ TypeOK /\ FilesTypeOK
  BY DEF FilesIInv, Progress, FilesTypeOK
<1>2. job \in Jobs /\ saved \in Seq(Streams)
  BY <1>1 DEF FilesTypeOK, Jobs
<1>3. ChannelsUpTo(job.next) /\ ListedAs(job.name, job.before[job.name])
  BY <1>1 DEF InProgress
<1> QED BY <1>1, <1>2, <1>3, NamesOfFile, ChannelAssumption, ModelAssumption
        DEF InProgress, Listing, TypeOK, Jobs

LEMMA ListChannelStep ==
  ASSUME FilesIInv, IInv', ListChannel
  PROVE  FilesIInv'
<1> DEFINE B(c) == job.before[Channel(job.name, c)]
           G(c) == IF B(c) = Null THEN job.first + c ELSE B(c)
           name == Channel(job.name, job.next)
           Flat == /\ ListedIn(models', job.name, job.before[job.name])
                   /\ \A c \in 0 .. MaxChannels - 1 :
                        ListedIn(models', Channel(job.name, c),
                                 IF job.channels > 1 /\ c < job.next + 1 THEN G(c) ELSE B(c))
<1>1. Listing /\ saved' = saved /\ TypeOK' /\ job.next < job.channels
  BY DEF ListChannel, IInv
<1>2. /\ job \in Jobs /\ saved \in Seq(Streams) /\ IInv
      /\ models \in Seq(Entry) /\ UniqueNames(models)
      /\ job.at = "listing" /\ job.name \in Plain /\ job.channels \in 1 .. MaxChannels
      /\ job.next \in 0 .. job.channels /\ job.first \in Streams
      /\ made + 1 = job.first + job.next
      /\ made \in Nat /\ job.first \in Nat /\ MaxChannels \in Nat /\ MaxStreams \in Nat
      /\ ListedIn(models, job.name, job.before[job.name])
  BY <1>1, WhileListing
<1>3. \A c \in 0 .. MaxChannels - 1 :
        ListedIn(models, Channel(job.name, c),
                 IF job.channels > 1 /\ c < job.next THEN G(c) ELSE B(c))
  BY <1>1, WhileListing DEF Given
<1>4. /\ job'.at = "listing" /\ job'.name = job.name /\ job'.next = job.next + 1
      /\ job'.channels = job.channels /\ job'.first = job.first
      /\ job'.before = job.before /\ job' \in Jobs
  <2>1. job.next + 1 \in 0 .. MaxChannels
    BY <1>1, <1>2
  <2> QED BY <1>2, <2>1 DEF ListChannel, Jobs
<1>5. made' = made + 1 /\ made + 1 <= MaxStreams
  BY DEF ListChannel, Register, Lose, Make
<1>6. job.next \in 0 .. MaxChannels - 1
  BY <1>1, <1>2
<1>7. ASSUME job.channels > 1 PROVE Flat
  <2>1. models' = AddTo(models, First, name)
    BY <1>7 DEF ListChannel, Register
  <2>2. First \in Streams /\ First = job.first + job.next
    BY <1>2, <1>5 DEF First, Streams
  <2>3. name \in Names /\ name # job.name
    BY <1>2, <1>6, ChannelNames
  <2>4. \A c \in 0 .. MaxChannels - 1 : Channel(job.name, c) = name => c = job.next
    BY <1>2, <1>6, ChannelAssumption
  <2>5. /\ \A t : ListedIn(models, name, t) =>
                    ListedIn(models', name, IF t = Null THEN First ELSE t)
        /\ \A t, other : other # name /\ ListedIn(models, other, t) =>
                    ListedIn(models', other, t)
    <3> HIDE DEF name
    <3> QED BY <1>2, <2>1, <2>2, <2>3, AddedAs
  <2>6. ListedIn(models', job.name, job.before[job.name])
    BY <1>2, <2>3, <2>5
  <2>7. ASSUME NEW c \in 0 .. MaxChannels - 1
        PROVE  ListedIn(models', Channel(job.name, c),
                        IF c < job.next + 1 THEN G(c) ELSE B(c))
    <3>1. CASE c = job.next
      <4>1. ListedIn(models, name, B(c)) /\ c < job.next + 1
        BY <1>2, <1>3, <3>1
      <4>2. ListedIn(models', name, IF B(c) = Null THEN First ELSE B(c))
        BY <2>5, <4>1
      <4>3. G(c) = IF B(c) = Null THEN First ELSE B(c)
        BY <2>2, <3>1
      <4> QED BY <3>1, <4>1, <4>2, <4>3
    <3>2. CASE c # job.next
      <4>1. Channel(job.name, c) # name
        BY <2>4, <3>2
      <4>2. c < job.next + 1 <=> c < job.next
        BY <1>2, <3>2
      <4>3. ListedIn(models, Channel(job.name, c), IF c < job.next THEN G(c) ELSE B(c))
        BY <1>3, <1>7
      <4>4. ListedIn(models', Channel(job.name, c), IF c < job.next THEN G(c) ELSE B(c))
        <5> HIDE DEF name, B, G
        <5> QED BY <2>5, <4>1, <4>3
      <4> QED BY <4>2, <4>4
    <3> QED BY <3>1, <3>2
  <2> QED BY <1>7, <2>6, <2>7
<1>8. ASSUME ~(job.channels > 1) PROVE Flat
  <2>1. models' = models
    BY <1>8 DEF ListChannel, Lose
  <2> QED BY <1>2, <1>3, <1>8, <2>1
<1>9. Flat
  BY <1>7, <1>8
<1> HIDE DEF name
<1>10. InProgress'
  BY <1>1, <1>2, <1>4, <1>5, <1>9
     DEF InProgress, ChannelsUpTo, ListedAs, ListedIn, StreamOf, Given
<1> QED BY <1>1, <1>2, <1>4, <1>10
        DEF FilesIInv, FilesTypeOK, Jobs, Progress, LoadedTogether, ChannelsSaved

LEMMA ListWholeStep ==
  ASSUME FilesIInv, IInv', ListWhole
  PROVE  FilesIInv'
<1> DEFINE B(c) == job.before[Channel(job.name, c)]
           G(c) == IF B(c) = Null THEN job.first + c ELSE B(c)
           own  == job.before[job.name]
<1>1. /\ Listing /\ job.next = job.channels /\ saved' = saved /\ TypeOK' /\ Make(1)
      /\ models' = AddTo(models, First, job.name)
  BY DEF ListWhole, IInv, Register
<1>2. /\ job \in Jobs /\ saved \in Seq(Streams)
      /\ models \in Seq(Entry) /\ UniqueNames(models)
      /\ job.name \in Plain /\ job.channels \in 1 .. MaxChannels
      /\ job.first \in Streams
      /\ made + 1 = job.first + job.next
      /\ made \in Nat /\ job.first \in Nat /\ MaxChannels \in Nat /\ MaxStreams \in Nat
      /\ ListedIn(models, job.name, own)
  BY <1>1, WhileListing
<1>3. \A c \in 0 .. MaxChannels - 1 :
        ListedIn(models, Channel(job.name, c),
                 IF job.channels > 1 /\ c < job.channels THEN G(c) ELSE B(c))
  BY <1>1, WhileListing DEF Given
<1>4. /\ job'.at = "loaded" /\ job'.name = job.name /\ job'.channels = job.channels
      /\ job'.first = job.first /\ job'.before = job.before /\ job' \in Jobs
  BY <1>2 DEF ListWhole, Jobs
<1>5. First \in Streams /\ First = job.first + job.channels
  BY <1>1, <1>2 DEF First, Streams, Make
<1>6. job.name \in Names /\ \A c \in 0 .. MaxChannels - 1 : Channel(job.name, c) # job.name
  BY <1>2, ChannelNames, PlainNames
<1>7. /\ \A t : ListedIn(models, job.name, t) =>
                  ListedIn(models', job.name, IF t = Null THEN First ELSE t)
      /\ \A t, other : other # job.name /\ ListedIn(models, other, t) =>
                  ListedIn(models', other, t)
  BY <1>1, <1>2, <1>5, <1>6, AddedAs
<1>8. ListedIn(models', job.name, IF own = Null THEN First ELSE own)
  BY <1>2, <1>7
<1>9. \A c \in 0 .. MaxChannels - 1 :
        ListedIn(models', Channel(job.name, c),
                 IF job.channels > 1 /\ c < job.channels THEN G(c) ELSE B(c))
  <2> HIDE DEF B, G
  <2> QED BY <1>3, <1>6, <1>7
<1>10. LoadedTogether'
  BY <1>4, <1>5, <1>8, <1>9
     DEF LoadedTogether, ChannelsUpTo, ListedAs, ListedIn, StreamOf, Given
<1> QED BY <1>1, <1>2, <1>4, <1>10
        DEF FilesIInv, FilesTypeOK, Jobs, Progress, Listing, ChannelsSaved

\* What is saved of a file that was loaded under names that were free.
LEMMA SavedChannels ==
  ASSUME FilesIInv, job.at = "loaded", Alone
  PROVE  LET list == SavedList(job.name)
         IN  /\ {list[k] : k \in DOMAIN list} = Source
             /\ \A j, k \in DOMAIN list : j <= k => list[j] <= list[k]
<1> DEFINE name  == job.name
           n     == job.channels
           first == job.first
           zero  == Channel(name, 0)
           start == IF Contains(models, zero) THEN zero ELSE name
           more  == {c \in 1 .. MaxChannels - 1 :
                       \A d \in 1 .. c : Contains(models, Channel(name, d))}
           list  == [k \in 1 .. Cardinality(more) + 2 |->
                       IF k <= 2 THEN StreamOf(start) ELSE StreamOf(Channel(name, k - 2))]
<1>1. /\ n \in 1 .. MaxChannels /\ MaxChannels \in Nat /\ name \in Plain
      /\ first \in Nat /\ first # 0
  BY ChannelAssumption, StreamsNat DEF FilesIInv
<1>2. \A c \in 0 .. MaxChannels - 1 : job.before[Channel(name, c)] = Null
  BY DEF Alone
<1>3. job.before[name] = Null
  BY DEF Alone
<1>4. Null = 0
  BY DEF Null
<1>5. ListedIn(models, name, first + n)
  BY <1>1, <1>3, <1>4 DEF FilesIInv, LoadedTogether, ListedAs, ListedIn, Given, StreamOf
<1>6. \A c \in 0 .. MaxChannels - 1 :
        ListedIn(models, Channel(name, c), IF n > 1 /\ c < n THEN first + c ELSE Null)
  BY <1>1, <1>2, NamesOfFile DEF FilesIInv, LoadedTogether, Given
<1>7. SavedList(name) = IF Contains(models, start) THEN list ELSE <<>>
  BY DEF SavedList
<1> HIDE DEF name, n, first
<1>8. CASE n > 1
  <2>1. \A c \in 0 .. n - 1 : /\ Contains(models, Channel(name, c))
                              /\ StreamOf(Channel(name, c)) = first + c
    BY <1>1, <1>4, <1>6, <1>8 DEF ListedIn, StreamOf
  <2>2. \A c \in n .. MaxChannels - 1 : ~Contains(models, Channel(name, c))
    BY <1>1, <1>6 DEF ListedIn
  <2>3. start = zero /\ Contains(models, start) /\ StreamOf(start) = first
    BY <1>1, <1>8, <2>1
  <2>4. more = 1 .. n - 1
    <3>1. ASSUME NEW c \in more PROVE c \in 1 .. n - 1
      <4>1. c \in 1 .. MaxChannels - 1 /\ Contains(models, Channel(name, c))
        BY <1>1
      <4> QED BY <1>1, <2>2, <4>1
    <3>2. ASSUME NEW c \in 1 .. n - 1 PROVE c \in more
      <4>1. c \in 1 .. MaxChannels - 1 /\ \A d \in 1 .. c : d \in 0 .. n - 1
        BY <1>1
      <4> QED BY <2>1, <4>1
    <3> QED BY <3>1, <3>2
  <2> HIDE DEF more, start
  <2>5. Cardinality(more) = n - 1
    <3>1. 1 \in Int /\ n - 1 \in Int
      BY <1>1
    <3>2. Cardinality(1 .. n - 1) = IF 1 > n - 1 THEN 0 ELSE (n - 1) - 1 + 1
      BY <3>1, FS_Interval
    <3> QED BY <1>1, <1>8, <2>4, <3>2
  <2>6. /\ DOMAIN list = 1 .. n + 1
        /\ \A k \in 1 .. n + 1 : list[k] = IF k <= 2 THEN first ELSE first + (k - 2)
    <3>1. DOMAIN list = 1 .. n + 1
      BY <1>1, <2>5
    <3>2. ASSUME NEW k \in 1 .. n + 1, ~(k <= 2)
          PROVE  StreamOf(Channel(name, k - 2)) = first + (k - 2)
      <4>1. k - 2 \in 0 .. n - 1
        BY <1>1, <3>2
      <4> QED BY <2>1, <4>1
    <3> QED BY <1>1, <2>3, <2>5, <3>1, <3>2
  <2>7. Source = first .. first + n - 1
    BY <1>8 DEF Source, first, n
  <2> HIDE DEF list
  <2>8. ASSUME NEW x \in first .. first + n - 1
        PROVE  \E k \in 1 .. n + 1 : list[k] = x
    <3>1. CASE x = first
      BY <1>1, <2>6, <3>1
    <3>2. CASE x # first
      <4>1. (x - first) + 2 \in 1 .. n + 1 /\ ~((x - first) + 2 <= 2)
        BY <1>1, <3>2
      <4>2. list[(x - first) + 2] = first + (((x - first) + 2) - 2)
        BY <2>6, <4>1
      <4>3. first + (((x - first) + 2) - 2) = x
        BY <1>1
      <4> QED BY <4>1, <4>2, <4>3
    <3> QED BY <3>1, <3>2
  <2>9. \A k \in 1 .. n + 1 : list[k] \in first .. first + n - 1
    BY <1>1, <1>8, <2>6
  <2>10. {list[k] : k \in DOMAIN list} = first .. first + n - 1
    BY <2>6, <2>8, <2>9
  <2>11. \A j, k \in DOMAIN list : j <= k => list[j] <= list[k]
    BY <1>1, <2>6
  <2>12. SavedList(name) = list
    BY <1>7, <2>3
  <2> QED BY <2>7, <2>10, <2>11, <2>12 DEF name
<1>9. CASE ~(n > 1)
  <2>1. n = 1 /\ \A c \in 0 .. MaxChannels - 1 : ~Contains(models, Channel(name, c))
    BY <1>1, <1>6, <1>9 DEF ListedIn
  <2>2. 0 \in 0 .. MaxChannels - 1
    BY <1>1
  <2>3. Contains(models, name) /\ StreamOf(name) = first + 1
    BY <1>1, <1>4, <1>5, <2>1 DEF ListedIn, StreamOf
  <2>4. start = name /\ Contains(models, start) /\ StreamOf(start) = first + 1
    BY <2>1, <2>2, <2>3
  <2>5. more = {}
    <3>1. ASSUME NEW c \in more PROVE FALSE
      <4>1. c \in 0 .. MaxChannels - 1 /\ Contains(models, Channel(name, c))
        BY <1>1
      <4> QED BY <2>1, <4>1
    <3> QED BY <3>1
  <2> HIDE DEF more, start
  <2>6. Cardinality(more) = 0
    BY <2>5, FS_EmptySet
  <2>7. DOMAIN list = 1 .. 2 /\ \A k \in 1 .. 2 : list[k] = first + 1
    BY <2>4, <2>6
  <2>8. Source = {first + 1}
    BY <2>1, <1>9 DEF Source, first, n
  <2> HIDE DEF list
  <2>9. {list[k] : k \in DOMAIN list} = {first + 1}
    BY <2>7
  <2>10. \A j, k \in DOMAIN list : j <= k => list[j] <= list[k]
    BY <1>1, <2>7
  <2>11. SavedList(name) = list
    BY <1>7, <2>4
  <2> QED BY <2>8, <2>9, <2>10, <2>11 DEF name
<1> QED BY <1>8, <1>9

LEMMA SaveStep ==
  ASSUME FilesIInv, IInv', NEW name \in Plain, Save(name)
  PROVE  FilesIInv'
<1>1. saved' \in Seq(Streams) /\ saved' = SavedList(name)
  BY SavedStreams DEF Save, FilesIInv
<1>2. CASE job.at = "loaded" /\ job.name = name
  <2>1. job \in Jobs
    BY DEF FilesIInv, FilesTypeOK, Jobs
  <2>2. /\ job'.at = "saved" /\ job'.channels = job.channels
        /\ job'.first = job.first /\ job'.before = job.before /\ job' \in Jobs
        /\ job'.name = name /\ job.name = name
    BY <1>2, <2>1 DEF Save, Jobs
  <2>3. Alone' = Alone /\ Source' = Source
    BY <2>2 DEF Alone, Source
  <2>5. ChannelsSaved'
    BY <1>1, <1>2, <2>2, <2>3, SavedChannels DEF ChannelsSaved
  <2>4. TypeOK'
    BY DEF IInv
  <2> QED BY <1>1, <2>2, <2>4, <2>5
          DEF FilesIInv, FilesTypeOK, Jobs, Progress, Listing, LoadedTogether
<1>3. CASE ~(job.at = "loaded" /\ job.name = name)
  <2>1. job' = Idle
    BY <1>3 DEF Save
  <2> QED BY <1>1, <2>1, Resting
<1> QED BY <1>2, <1>3

LEMMA NextFiles ==
  FilesIInv /\ [FilesNext]_<<vars, fileVars>> => FilesIInv' /\ [Next]_vars
<1> SUFFICES ASSUME FilesIInv, [FilesNext]_<<vars, fileVars>>
             PROVE  FilesIInv' /\ [Next]_vars
  OBVIOUS
<1>1. [Next]_vars
  BY StepStore DEF FilesIInv
<1>2. IInv'
  BY <1>1, NextIInv DEF FilesIInv
<1>3. IInv /\ saved \in Seq(Streams)
  BY DEF FilesIInv, FilesTypeOK
<1>4. ASSUME NEW name \in Plain, NEW channels \in 1 .. MaxChannels,
             Load(name, channels) \/ Upload(name, channels)
      PROVE  FilesIInv'
  BY <1>2, <1>4, LoadStep DEF Upload
<1>5. ListChannel => FilesIInv'
  BY <1>2, ListChannelStep
<1>6. ListWhole => FilesIInv'
  BY <1>2, ListWholeStep
<1>7. ASSUME NEW name \in Plain, Save(name) PROVE FilesIInv'
  BY <1>2, <1>7, SaveStep
<1>8. ASSUME NEW name \in Plain, Download(name) PROVE FilesIInv'
  <2>1. made + 1 \in Streams
    BY <1>3, <1>8, Making DEF Download, Lose
  <2>2. saved' \in Seq(Streams) /\ job' = Idle
    BY <1>8, <2>1 DEF Download
  <2> QED BY <1>2, <2>2, Resting
<1>9. Other => FilesIInv'
  <2> SUFFICES ASSUME Other PROVE FilesIInv'
    OBVIOUS
  <2>1. saved' \in Seq(Streams) /\ job' = Idle
    BY DEF Other
  <2> QED BY <1>2, <2>1, Resting
<1>10. CASE UNCHANGED <<vars, fileVars>>
  <2>1. models' = models /\ made' = made /\ job' = job /\ saved' = saved
    BY <1>10 DEF vars, fileVars
  <2>2. FilesTypeOK'
    BY <1>2, <2>1 DEF FilesIInv, FilesTypeOK, IInv
  <2>3. Progress'
    BY <2>1 DEF FilesIInv, Progress, Listing, InProgress, ListedAs, ChannelsUpTo, Given,
                StreamOf
  <2>4. LoadedTogether'
    BY <2>1 DEF FilesIInv, LoadedTogether, ListedAs, ChannelsUpTo, Given, StreamOf
  <2>5. ChannelsSaved'
    BY <2>1 DEF FilesIInv, ChannelsSaved, Alone, Source
  <2> QED BY <1>1, <1>2, <2>1, <2>2, <2>3, <2>4, <2>5 DEF FilesIInv
<1> QED BY <1>1, <1>4, <1>5, <1>6, <1>7, <1>8, <1>9, <1>10 DEF FilesNext

-------------------------------------------------------------------------------
\* The invariant above holds in every state.
THEOREM FilesConsistent == FilesSpec => []FilesIInv
<1> QED BY InitFiles, NextFiles, PTL DEF FilesSpec

\* The variables have their types.
THEOREM FilesTypeCorrect == FilesSpec => []FilesTypeOK
<1>1. FilesIInv => FilesTypeOK
  BY DEF FilesIInv
<1> QED BY <1>1, FilesConsistent, PTL

\* A file is listed as a whole, and the names that were taken stay what they
\* were.
THEOREM ListedWhole == FilesSpec => []LoadedTogether
<1>1. FilesIInv => LoadedTogether
  BY DEF FilesIInv
<1> QED BY <1>1, FilesConsistent, PTL

\* What was loaded under a new name and is saved at once goes to the file whole,
\* in the order it came, and nothing else does.
THEOREM SavedAsLoaded == FilesSpec => []ChannelsSaved
<1>1. FilesIInv => ChannelsSaved
  BY DEF FilesIInv
<1> QED BY <1>1, FilesConsistent, PTL

\* Loading and saving keep names and streams in agreement.
THEOREM FilesOneListing == FilesSpec => []NamesAgree
<1>1. FilesIInv => NamesAgree
  BY DEF FilesIInv, IInv
<1> QED BY <1>1, FilesConsistent, PTL

\* Loading and saving make no stream a part of two.
THEOREM FilesPartsApart == FilesSpec => []OneParent
<1>1. FilesIInv => OneParent
  BY DEF FilesIInv, IInv
<1> QED BY <1>1, FilesConsistent, PTL
===============================================================================
