------------------------------ MODULE NodeContext ------------------------------
(***************************************************************************)
(* A context of OpenVLBI (a NodeCollection): its nodes, the baselines made *)
(* of them, the correlation order and the locks of the baselines.          *)
(*                                                                         *)
(* The order is kept twice, by the collection of the nodes and by the      *)
(* collection of the baselines, and the baselines are thrown away and made *)
(* anew by whatever calls setCorrelationOrder: every node added (the       *)
(* refused ones too), every node removed, every change of the order, as    *)
(* long as the context has enough nodes for that order.                    *)
(***************************************************************************)
EXTENDS Collection, FiniteSets

CONSTANTS
  Names,    \* names of nodes
  Orders,   \* arguments of vlbi_set_correlation_order
  MaxNodes, \* bound: how many VLBINode objects are ever made
  MaxLocks  \* bound: how many baselines the caller has locked at a time

ASSUME ContextAssumption ==
  /\ Orders \in SUBSET Int
  /\ MaxNodes \in Nat
  /\ MaxLocks \in Nat

\* A VLBINode; id tells two objects of the same name apart.
Node == [name : Names, id : Nat]

VARIABLES
  nodes,        \* the NodeCollection's items
  order,        \* NodeCollection::correlation_order
  relative,     \* NodeCollection::relative
  baselines,    \* the BaselineCollection's items
  border,       \* BaselineCollection::correlation_order
  brelative,    \* BaselineCollection::relative
  made,         \* how many VLBINode objects were made
  promised      \* history: the baselines the caller has locked, as node ids

vars == <<nodes, order, relative, baselines, border, brelative, made, promised>>

Ids(ns) == {ns[k].id : k \in DOMAIN ns}

-------------------------------------------------------------------------------
(* The baselines of n nodes.                                                 *)

Larger(a, b)  == IF a > b THEN a ELSE b
Smaller(a, b) == IF a < b THEN a ELSE b

BaselineCount(n) == (n * (n - 1)) \div 2

\* Mutant: the second lap over the nodes repeats the distance of the first.
StuckIndex(n, i, o) == (i + o) % n

\* The o-th node of baseline i: idx = (i + o * (i / count + 1)) % count.
NodeIndex(n, i, o) == (i + o * (i \div n + 1)) % n

Correlated(ns, i, k) == [o \in 1 .. k |-> ns[NodeIndex(Len(ns), i, o - 1) + 1]]

\* BaselineCollection::update makes a baseline for every i.  None is refused
\* for its name, the nodes' names joined by "*": no two of them have the same
\* nodes in the same places.  (The names of nodes are taken to hold no "*".)
Rebuilt(ns, k) ==
  [i \in 1 .. BaselineCount(Len(ns)) |->
     [nodes |-> Correlated(ns, i - 1, k), locked |-> FALSE,
      relative |-> brelative]]

\* fmax(order, fmin(count(), 2))
Effective(o, n) == Larger(o, Smaller(n, 2))

\* BaselineCollection::setCorrelationOrder for the nodes ns, and update.
SetBaselineOrder(ns, o) ==
  /\ border' = Effective(o, Len(ns))
  /\ IF Len(ns) < Effective(o, Len(ns)) \/ Len(ns) < 2
     THEN UNCHANGED baselines
     ELSE baselines' = Rebuilt(ns, Effective(o, Len(ns)))

\* Mutant: the order is taken even if there are too few nodes.
RashOrderOf(ns, o) ==
  /\ order' = Effective(o, Len(ns))
  /\ SetBaselineOrder(ns, o)

\* Mutant: as many nodes as the order are too few.
NarrowOrderOf(ns, o) ==
  /\ order' = Effective(o, Len(ns))
  /\ IF Len(ns) <= Effective(o, Len(ns))
     THEN UNCHANGED <<border, baselines>>
     ELSE SetBaselineOrder(ns, o)

\* NodeCollection::setCorrelationOrder for the nodes ns.
SetOrderOf(ns, o) ==
  /\ order' = Effective(o, Len(ns))
  /\ IF Len(ns) < Effective(o, Len(ns))
     THEN UNCHANGED <<border, baselines>>
     ELSE SetBaselineOrder(ns, o)

-------------------------------------------------------------------------------
(* What vlbi_set_baseline_buffer, vlbi_set_baseline_stream,                  *)
(* vlbi_get_baseline_stream and vlbi_unlock_baseline look for: the first     *)
(* baseline with at least as many equal (place, place) pairs as the order.   *)

Matches(b, names) ==
  Cardinality({yz \in (1 .. border) \X (1 .. border) :
                 b.nodes[yz[1]].name = names[yz[2]]})

\* Mutant: the loop stops at the first equal name.
FoundOne(names) == {i \in DOMAIN baselines : Matches(baselines[i], names) >= 1}

Found(names) == {i \in DOMAIN baselines : Matches(baselines[i], names) >= border}

IsLookup(i, names) == i \in Found(names) /\ \A j \in Found(names) : i <= j

NameLists == [1 .. border -> Names]

-------------------------------------------------------------------------------
Init ==
  /\ nodes = <<>>
  /\ order = 2
  /\ relative = FALSE
  /\ baselines = <<>>
  /\ border = 2
  /\ brelative \in BOOLEAN     \* BaselineCollection never initializes it
  /\ made = 0
  /\ promised = {}

New(name) == [name |-> name, id |-> made]

\* NodeCollection::add: a refused node rebuilds the baselines as well.
Join(node) ==
  /\ made < MaxNodes
  /\ made' = made + 1
  /\ nodes' = Add(nodes, node)
  /\ SetOrderOf(Add(nodes, node), order)
  /\ UNCHANGED <<relative, brelative, promised>>

\* vlbi_add_node
AddNode(name) == Join(New(name))

\* vlbi_copy_node
CopyNode(name, node) == Contains(nodes, node) /\ Join(New(name))

\* vlbi_filter_lp_node and its three sisters; the node must be there.
FilterNode(name, node) == Contains(nodes, node) /\ Join(New(name))

\* Mutant: the baselines are left as they are.
QuietDelNode(name) ==
  /\ Contains(nodes, name)
  /\ nodes' = Remove(nodes, name)
  /\ promised' = {p \in promised : Get(nodes, name).id \notin p}
  /\ UNCHANGED <<relative, brelative, made, order, border, baselines>>

\* vlbi_del_node.  Nobody expects anything of its baselines any more.
DelNode(name) ==
  /\ Contains(nodes, name)
  /\ nodes' = Remove(nodes, name)
  /\ SetOrderOf(Remove(nodes, name), order)
  /\ promised' = {p \in promised : Get(nodes, name).id \notin p}
  /\ UNCHANGED <<relative, brelative, made>>

\* vlbi_set_correlation_order
SetCorrelationOrder(o) ==
  /\ SetOrderOf(nodes, o)
  /\ UNCHANGED <<nodes, relative, brelative, made, promised>>

\* Mutant: the baselines are told, their collection is not.
ForgetfulSetLocation ==
  /\ relative' = TRUE
  /\ baselines' = [i \in DOMAIN baselines |-> [baselines[i] EXCEPT !.relative = TRUE]]
  /\ UNCHANGED <<nodes, order, border, brelative, made, promised>>

\* vlbi_set_location: NodeCollection::setRelative(true).
SetLocation ==
  /\ relative' = TRUE
  /\ brelative' = TRUE
  /\ baselines' = [i \in DOMAIN baselines |-> [baselines[i] EXCEPT !.relative = TRUE]]
  /\ UNCHANGED <<nodes, order, border, made, promised>>

\* vlbi_set_baseline_buffer, vlbi_set_baseline_stream
LockBaseline(names) ==
  /\ Cardinality(promised) < MaxLocks
  /\ \E i \in DOMAIN baselines :
       /\ IsLookup(i, names)
       /\ baselines' = [baselines EXCEPT ![i].locked = TRUE]
       /\ promised' = promised \cup {Ids(baselines[i].nodes)}
       /\ UNCHANGED <<nodes, order, relative, border, brelative, made>>

\* vlbi_unlock_baseline
UnlockBaseline(names) ==
  \E i \in DOMAIN baselines :
    /\ IsLookup(i, names)
    /\ baselines' = [baselines EXCEPT ![i].locked = FALSE]
    /\ promised' = promised \ {Ids(baselines[i].nodes)}
    /\ UNCHANGED <<nodes, order, relative, border, brelative, made>>

Next ==
  \/ \E name \in Names : AddNode(name) \/ DelNode(name)
  \/ \E name, node \in Names : CopyNode(name, node) \/ FilterNode(name, node)
  \/ \E o \in Orders : SetCorrelationOrder(o)
  \/ SetLocation
  \/ \E names \in NameLists : LockBaseline(names) \/ UnlockBaseline(names)

Spec == Init /\ [][Next]_vars

-------------------------------------------------------------------------------
(* Properties                                                                *)

Baseline == [nodes : Seq(Node), locked : BOOLEAN, relative : BOOLEAN]

\* The types of the variables; a node's name is its own in the collection.
TypeOK ==
  /\ nodes \in Seq(Node) /\ UniqueNames(nodes)
  /\ order \in Int /\ border \in Int
  /\ relative \in BOOLEAN /\ brelative \in BOOLEAN
  /\ baselines \in Seq(Baseline)
  /\ made \in 0 .. MaxNodes
  /\ promised \in SUBSET SUBSET Nat

Enough == Len(nodes) >= 2 /\ Len(nodes) >= order

Joins(b, p, q) == {b.nodes[1], b.nodes[2]} = {p, q}

\* With enough nodes for the order, whatever was added, removed or reordered
\* before, the first two nodes of the baselines run through the pairs of nodes:
\* each pair once, and no node with itself (BaselineCollection::update).
AllPairs ==
  Enough =>
    /\ \A i \in DOMAIN baselines : baselines[i].nodes[1] # baselines[i].nodes[2]
    /\ \A j, k \in DOMAIN nodes : j < k =>
         \E i \in DOMAIN baselines :
           /\ Joins(baselines[i], nodes[j], nodes[k])
           /\ \A h \in DOMAIN baselines :
                Joins(baselines[h], nodes[j], nodes[k]) => h = i

\* No baseline holds a node vlbi_del_node has destroyed, as long as the nodes
\* suffice for the order (vlbi_del_node rebuilds after it removes).
NoDeletedNode ==
  Enough => \A i \in DOMAIN baselines : Ids(baselines[i].nodes) \subseteq Ids(nodes)

\* The lookups of vlbi_set_baseline_buffer and its sisters index the nodes of a
\* baseline up to the collection's order, never past the end of the array the
\* baseline was made with, even when the order has changed since.
NoOverrun == \A i \in DOMAIN baselines : border <= Len(baselines[i].nodes)

\* The two copies of the order agree whenever the nodes suffice for it.
OrdersAgree == Len(nodes) >= order => border = order

\* At order two the names of two nodes find the baseline between them.
LookupFindsPair ==
  (Enough /\ order = 2) =>
    \A j, k \in DOMAIN nodes : j # k =>
      \E i \in DOMAIN baselines :
        /\ IsLookup(i, <<nodes[j].name, nodes[k].name>>)
        /\ Joins(baselines[i], nodes[j], nodes[k])

\* Once the context has a location, every baseline made later is relative to it.
RelativeKept == relative => \A i \in DOMAIN baselines : baselines[i].relative

-------------------------------------------------------------------------------
(* The inductive invariant behind them.                                      *)

\* With enough nodes the baselines are the ones update makes of them.
Fresh ==
  Enough =>
    /\ order >= 2
    /\ Len(baselines) = BaselineCount(Len(nodes))
    /\ \A i \in DOMAIN baselines :
         baselines[i].nodes = Correlated(nodes, i - 1, order)

\* Stale baselines have two nodes at least; the order only falls below two
\* when there are fewer nodes than that.
Roomy == \A i \in DOMAIN baselines : Len(baselines[i].nodes) >= Larger(2, border)

IInv ==
  /\ TypeOK
  /\ OrdersAgree
  /\ Fresh
  /\ Roomy
  /\ relative => brelative
  /\ RelativeKept

-------------------------------------------------------------------------------
(* What the documentation says and the code does not do.                     *)

\* vlbi.h: a baseline given data is locked and vlbi_unlock_baseline unlocks it;
\* adding a node unlocks it too.
LockKept ==
  order = 2 => \A p \in promised :
    \E i \in DOMAIN baselines :
      Ids(baselines[i].nodes) = p /\ baselines[i].locked

===============================================================================
