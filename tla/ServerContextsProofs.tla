------------------------- MODULE ServerContextsProofs -------------------------
(* Theorems of ServerContexts, for any names and any number of instances.    *)
EXTENDS ServerContexts, CollectionProofs

LEMMA InitIInv == Init => IInv
<1> SUFFICES ASSUME Init PROVE IInv
  OBVIOUS
<1>1. FirstName \in Names /\ MaxContexts \in Nat
  BY ServerAssumption
<1>2. TypeOK
  <2>1. contexts \in Seq(Entry) /\ DOMAIN contexts = {}
    BY DEF Init
  <2>2. UniqueNames(contexts)
    BY <2>1 DEF UniqueNames
  <2>3. step \in Steps
    BY DEF Init, Steps
  <2>4. closed \in [Instances -> Nat]
    BY DEF Init
  <2>5. current \in Names /\ made \in 0 .. MaxContexts
    BY <1>1 DEF Init
  <2>6. mutex_initialized \in BOOLEAN /\ process = "running" /\ caught \subseteq Signals
        /\ handler = "none" /\ destroyed \in Nat
    BY DEF Init
  <2> QED BY <2>1, <2>2, <2>3, <2>4, <2>5, <2>6 DEF TypeOK
<1>3. OneHolder
  BY DEF Init, OneHolder, Listed, Idle, NoContext
<1>4. ClosedByOne
  BY DEF Init, ClosedByOne
<1> QED BY <1>1, <1>2, <1>3, <1>4 DEF Init, IInv, NoOrphan, Listed, Idle, Instances

\* The steps that leave the instances, the entries and the hand alone.
LEMMA QuietStep ==
  ASSUME IInv, UNCHANGED <<instanceVars, step, destroyed>>,
         current' \in Names,
         process' \in {"running", "leaving", "returning", "over"},
         process' \in {"leaving", "returning"} => step = Idle,
         caught' \subseteq Signals,
         handler' \in {"none", "entered", "destroyed"},
         Main' /\ process' \in {"running", "leaving"} =>
           Main /\ process \in {"running", "leaving"}
  PROVE  IInv'
<1> USE DEF instanceVars
<1>1. TypeOK'
  BY DEF IInv, TypeOK, Steps
<1>2. OneHolder' /\ ClosedByOne' /\ NoOrphan'
  BY DEF IInv, OneHolder, Listed, ClosedByOne, NoOrphan
<1> QED BY <1>1, <1>2 DEF IInv, Contains, NamesOf

LEMMA ListedRange ==
  ASSUME TypeOK
  PROVE  \A c \in Listed : c \in Instances /\ c \in Nat \ {0}
<1>1. contexts \in Seq(Entry)
  BY DEF TypeOK
<1>2. \A j \in DOMAIN contexts : contexts[j] \in Entry
  BY <1>1
<1> QED BY <1>2 DEF Listed, Entry, Instances

LEMMA BeginAddStep ==
  ASSUME IInv, NEW name \in Names, BeginAdd(name)
  PROVE  IInv'
<1> USE DEF BeginAdd, Open, Free, signalVars
<1> DEFINE new == made + 1
<1>1. MaxContexts \in Nat
  BY ServerAssumption
<1>2. new \in Instances /\ made \in Nat /\ new \in Nat
  BY <1>1 DEF IInv, TypeOK, Instances
<1>3. step' = Adding(new, name) /\ step' \in Steps /\ step'.context = new
      /\ step'.at = "adding" /\ step'.name = name
  BY <1>2 DEF Steps, Adding
<1>4. TypeOK'
  BY <1>1, <1>2, <1>3 DEF IInv, TypeOK, Instances, Steps
<1>5. \A c \in Listed : c \in Int /\ c <= made
  BY ListedRange DEF IInv, OneHolder
<1>6. OneHolder'
  <2>1. contexts' = contexts /\ Listed' = Listed /\ made' = new
    BY DEF Listed
  <2>2. \A j, k \in DOMAIN contexts :
          contexts[j].context = contexts[k].context => j = k
    BY DEF IInv, OneHolder
  <2>3. new \notin Listed /\ \A c \in Listed : c <= new
    BY <1>2, <1>5
  <2> QED BY <1>2, <1>3, <2>1, <2>2, <2>3 DEF OneHolder
<1>7. closed[new] = 0
  BY <1>2 DEF IInv
<1>8. ClosedByOne'
  BY DEF IInv, ClosedByOne, Listed
<1>9. NoOrphan'
  <2>1. \A c \in 1 .. made : closed[c] = 0 => c \in Listed
    BY DEF IInv, NoOrphan, Idle, NoContext
  <2> QED BY <1>2, <1>3, <2>1 DEF NoOrphan, Listed
<1>10. \A c \in Instances : c > made' => closed'[c] = 0
  BY <1>2 DEF IInv, Instances
<1> QED BY <1>2, <1>3, <1>4, <1>6, <1>7, <1>8, <1>9, <1>10 DEF IInv, Contains, NamesOf

LEMMA EndAddStep ==
  ASSUME IInv, EndAdd
  PROVE  IInv'
<1> USE DEF EndAdd, signalVars
<1> DEFINE entry == [name |-> step.name, context |-> step.context]
<1>1. PICK c \in Instances, n \in Names : step = Adding(c, n)
  BY DEF IInv, TypeOK, Steps, Idle, Adding, Closing
<1>2. step.context = c /\ step.name = n /\ entry \in Entry
  BY <1>1 DEF Adding, Entry
<1>3. ~ Contains(contexts, n) /\ closed[c] = 0 /\ c \in 1 .. made
  BY <1>1, <1>2 DEF IInv, OneHolder, Instances, TypeOK
<1>4. contexts \in Seq(Entry) /\ UniqueNames(contexts)
  BY DEF IInv, TypeOK
<1>5. contexts' = Append(contexts, entry)
  BY <1>2, <1>3 DEF Add
<1>6. contexts' \in Seq(Entry) /\ UniqueNames(contexts')
  BY <1>2, <1>4, AddSeq, AddUnique
<1>7. Listed' = Listed \cup {c}
  <2>1. Len(contexts') = Len(contexts) + 1
    BY <1>2, <1>4, <1>5
  <2>2. \A j \in 1 .. Len(contexts) : contexts'[j] = contexts[j]
    BY <1>2, <1>4, <1>5
  <2>3. contexts'[Len(contexts) + 1] = entry
    BY <1>2, <1>4, <1>5
  <2>4. DOMAIN contexts' = 1 .. Len(contexts) + 1 /\ DOMAIN contexts = 1 .. Len(contexts)
    BY <1>4, <1>6, <2>1
  <2> QED BY <1>2, <1>4, <2>2, <2>3, <2>4 DEF Listed
<1>8. step' = Idle /\ Idle.context = 0 /\ Idle \in Steps
  BY DEF Idle, Steps, NoContext
<1>9. TypeOK'
  BY <1>6, <1>8 DEF IInv, TypeOK
<1>10. OneHolder'
  <2>1. c \notin Listed
    BY <1>2 DEF IInv, OneHolder
  <2>2. \A j, k \in DOMAIN contexts' :
          contexts'[j].context = contexts'[k].context => j = k
    <3>1. SUFFICES ASSUME NEW j \in DOMAIN contexts', NEW k \in DOMAIN contexts',
                          contexts'[j].context = contexts'[k].context
                   PROVE  j = k
      OBVIOUS
    <3>2. \A h \in DOMAIN contexts' : h \in DOMAIN contexts \/ h = Len(contexts) + 1
      BY <1>2, <1>4, <1>5
    <3>3. \A h \in DOMAIN contexts : contexts'[h] = contexts[h] /\ contexts[h].context \in Listed
      BY <1>2, <1>4, <1>5 DEF Listed
    <3>4. contexts'[Len(contexts) + 1].context = c
      BY <1>2, <1>4, <1>5
    <3>5. j \in DOMAIN contexts /\ k \in DOMAIN contexts => j = k
      BY <3>1, <3>3 DEF IInv, OneHolder
    <3> QED BY <2>1, <3>1, <3>2, <3>3, <3>4, <3>5
  <2>3. 0 \notin Listed'
    BY <1>3, <1>7, ListedRange DEF IInv
  <2>4. \A d \in Listed' : d <= made'
    BY <1>3, <1>7 DEF IInv, OneHolder
  <2>5. 0 <= made'
    BY DEF IInv, TypeOK
  <2> QED BY <1>8, <2>2, <2>3, <2>4, <2>5 DEF OneHolder
<1>11. ClosedByOne'
  BY <1>3, <1>7 DEF IInv, ClosedByOne, TypeOK
<1>12. NoOrphan'
  BY <1>2, <1>7 DEF IInv, NoOrphan
<1> QED BY <1>8, <1>9, <1>10, <1>11, <1>12 DEF IInv, Idle

\* An entry that is taken out takes its instance with it.
LEMMA RemovedListed ==
  ASSUME IInv, NEW name \in Names, Contains(contexts, name)
  PROVE  LET c == Get(contexts, name).context
             rest == Remove(contexts, name)
         IN  /\ c \in Listed
             /\ {rest[j].context : j \in DOMAIN rest} = Listed \ {c}
             /\ \A j, k \in DOMAIN rest : rest[j].context = rest[k].context => j = k
<1> DEFINE c == Get(contexts, name).context
           rest == Remove(contexts, name)
           at == IndexOf(contexts, name)
           Old(j) == IF j < at THEN j ELSE j + 1
<1>1. contexts \in Seq(Entry)
  BY DEF IInv, TypeOK
<1>2. at \in 1 .. Len(contexts) /\ c = contexts[at].context /\ Len(contexts) \in Nat
  BY <1>1, IndexOfPlace DEF Get
<1>3. /\ rest \in Seq(Entry) /\ Len(rest) = Len(contexts) - 1
      /\ \A j \in 1 .. Len(contexts) - 1 : rest[j] = contexts[Old(j)]
  BY <1>1, RemoveSeq
<1>4. DOMAIN rest = 1 .. Len(contexts) - 1 /\ DOMAIN contexts = 1 .. Len(contexts)
  BY <1>1, <1>3
<1> HIDE DEF c, rest, at
<1>5. \A j, k \in 1 .. Len(contexts) : contexts[j].context = contexts[k].context => j = k
  BY <1>4 DEF IInv, OneHolder
<1>6. \A j \in 1 .. Len(contexts) - 1 : Old(j) \in 1 .. Len(contexts) /\ Old(j) # at
  BY <1>2
<1>7. \A i \in 1 .. Len(contexts) : i # at =>
        \E j \in 1 .. Len(contexts) - 1 : Old(j) = i
  <2>1. SUFFICES ASSUME NEW i \in 1 .. Len(contexts), i # at
                 PROVE  \E j \in 1 .. Len(contexts) - 1 : Old(j) = i
    OBVIOUS
  <2>2. CASE i < at
    <3>1. i \in 1 .. Len(contexts) - 1 /\ Old(i) = i
      BY <1>2, <2>2
    <3> QED BY <3>1
  <2>3. CASE ~(i < at)
    <3>1. i - 1 \in 1 .. Len(contexts) - 1 /\ Old(i - 1) = i
      BY <1>2, <2>1, <2>3
    <3> QED BY <3>1
  <2> QED BY <2>2, <2>3
<1>8. \A j, k \in 1 .. Len(contexts) - 1 : Old(j) = Old(k) => j = k
  BY <1>2
<1> HIDE DEF Old
<1>9. c \in Listed
  BY <1>2, <1>4 DEF Listed
<1>10. {rest[j].context : j \in DOMAIN rest} = Listed \ {c}
  <2>1. ASSUME NEW d \in Listed \ {c}
        PROVE  d \in {rest[j].context : j \in DOMAIN rest}
    <3>1. PICK i \in 1 .. Len(contexts) : d = contexts[i].context
      BY <1>4 DEF Listed
    <3>2. i # at
      BY <1>2, <3>1
    <3>3. PICK j \in 1 .. Len(contexts) - 1 : Old(j) = i
      BY <1>7, <3>2
    <3> QED BY <1>3, <1>4, <3>1, <3>3
  <2>2. ASSUME NEW j \in DOMAIN rest
        PROVE  rest[j].context \in Listed \ {c}
    <3>1. Old(j) \in DOMAIN contexts /\ Old(j) # at /\ rest[j] = contexts[Old(j)]
      BY <1>3, <1>4, <1>6
    <3>2. contexts[Old(j)].context # c
      BY <1>2, <1>4, <1>5, <3>1
    <3> QED BY <3>1, <3>2 DEF Listed
  <2> QED BY <2>1, <2>2
<1>11. \A j, k \in DOMAIN rest : rest[j].context = rest[k].context => j = k
  BY <1>3, <1>4, <1>5, <1>6, <1>8
<1> QED BY <1>9, <1>10, <1>11 DEF c, rest

LEMMA BeginDelStep ==
  ASSUME IInv, NEW name \in Names, BeginDel(name)
  PROVE  IInv'
<1> USE DEF BeginDel, Free, signalVars
<1> DEFINE c == Get(contexts, name).context
<1>1. contexts \in Seq(Entry) /\ UniqueNames(contexts) /\ step = Idle
  BY DEF IInv, TypeOK
<1>2. contexts' \in Seq(Entry) /\ UniqueNames(contexts')
  BY <1>1, RemoveSeq, RemoveUnique
<1>3. /\ c \in Listed /\ Listed' = Listed \ {c}
      /\ \A j, k \in DOMAIN contexts' :
           contexts'[j].context = contexts'[k].context => j = k
  BY RemovedListed DEF Listed
<1>4. c \in Instances /\ closed[c] = 0 /\ c <= made
  BY <1>3, ListedRange DEF IInv, OneHolder, ClosedByOne, TypeOK
<1>5. step' = Closing(c, name)
  OBVIOUS
<1> HIDE DEF c
<1>6. step' \in Steps /\ step'.context = c /\ step'.at = "closing"
  BY <1>4, <1>5 DEF Steps, Closing
<1>7. TypeOK'
  BY <1>2, <1>6 DEF IInv, TypeOK, Steps
<1>8. OneHolder'
  BY <1>3, <1>4, <1>6 DEF IInv, OneHolder
<1>9. ClosedByOne'
  BY <1>3, <1>4 DEF IInv, ClosedByOne, TypeOK
<1>10. NoOrphan'
  <2>1. \A d \in 1 .. made : closed[d] = 0 => d \in Listed \/ d = 0
    BY <1>1 DEF IInv, NoOrphan, Idle, NoContext
  <2> QED BY <1>3, <1>6, <2>1 DEF NoOrphan
<1> QED BY <1>4, <1>6, <1>7, <1>8, <1>9, <1>10 DEF IInv

LEMMA EndDelStep ==
  ASSUME IInv, EndDel
  PROVE  IInv'
<1> USE DEF EndDel, Close, signalVars
<1>1. PICK c \in Instances, n \in Names : step = Closing(c, n)
  BY DEF IInv, TypeOK, Steps, Idle, Adding, Closing
<1>2. step.context = c
  BY <1>1 DEF Closing
<1>3. closed[c] = 0 /\ c \notin Listed /\ c <= made
  BY <1>2 DEF IInv, OneHolder
<1>4. closed' = [closed EXCEPT ![c] = @ + 1] /\ closed \in [Instances -> Nat]
  BY <1>2 DEF IInv, TypeOK
<1>5. closed' \in [Instances -> Nat] /\ closed'[c] = 1
      /\ \A d \in Instances : d # c => closed'[d] = closed[d]
  BY <1>3, <1>4
<1>6. step' = Idle /\ Idle.context = 0 /\ Idle \in Steps /\ Idle.at = "idle"
  BY DEF Idle, Steps, NoContext
<1>7. TypeOK'
  BY <1>5, <1>6 DEF IInv, TypeOK
<1>8. Listed' = Listed /\ \A d \in Listed : d \in Instances /\ d # 0
  BY ListedRange DEF IInv, Listed
<1>9. OneHolder'
  BY <1>6, <1>8 DEF IInv, OneHolder, TypeOK
<1>10. ClosedByOne'
  BY <1>3, <1>5, <1>8 DEF IInv, ClosedByOne
<1>11. NoOrphan'
  <2>1. \A d \in 1 .. made : d \in Instances
    BY ServerAssumption DEF IInv, TypeOK, Instances
  <2> QED BY <1>2, <1>5, <1>8, <2>1 DEF IInv, NoOrphan
<1>12. \A d \in Instances : d > made' => closed'[d] = 0
  BY <1>3, <1>5 DEF IInv, Instances, TypeOK
<1> QED BY <1>6, <1>7, <1>9, <1>10, <1>11, <1>12 DEF IInv

\* What the end of the process does to the instances.
LEMMA DestroyStep ==
  ASSUME IInv, Destroy, UNCHANGED <<contexts, current, made, step>>,
         process' \in {"running", "leaving", "returning", "over"},
         process' \in {"leaving", "returning"} => step = Idle,
         caught' \subseteq Signals,
         handler' \in {"none", "entered", "destroyed"},
         ~(Main' /\ process' \in {"running", "leaving"})
  PROVE  IInv'
<1> USE DEF Destroy, Close
<1>1. /\ closed \in [Instances -> Nat] /\ mutex_initialized \in BOOLEAN
      /\ destroyed \in Nat /\ destroyed' = destroyed + 1
  BY DEF IInv, TypeOK
<1>2. Target \in Listed \cup {NoContext}
  <2>1. contexts \in Seq(Entry)
    BY DEF IInv, TypeOK
  <2>2. Contains(contexts, current) =>
          IndexOf(contexts, current) \in DOMAIN contexts
    BY <2>1, IndexOfPlace
  <2> QED BY <2>2 DEF Target, Get, Listed
<1>3. /\ closed' \in [Instances -> Nat]
      /\ \A d \in Instances : closed'[d] = closed[d] \/ (closed'[d] = closed[d] + 1 /\ d = Target)
      /\ mutex_initialized' => closed' = closed /\ mutex_initialized
      /\ mutex_initialized' \in BOOLEAN
  <2>1. CASE Target = NoContext
    BY <1>1, <2>1
  <2>2. CASE Target # NoContext
    <3>1. closed' = [closed EXCEPT ![Target] = @ + 1] /\ mutex_initialized' = FALSE
      BY <2>2
    <3>2. Target \in Instances
      BY <1>2, <2>2, ListedRange DEF IInv
    <3>3. closed' \in [Instances -> Nat] /\ closed'[Target] = closed[Target] + 1
      BY <1>1, <3>1, <3>2
    <3>4. \A d \in Instances : d # Target => closed'[d] = closed[d]
      BY <1>1, <3>1, <3>2
    <3>5. \A d \in Instances :
            closed'[d] = closed[d] \/ (closed'[d] = closed[d] + 1 /\ d = Target)
      BY <3>3, <3>4, Zenon
    <3> QED BY <3>1, <3>3, <3>5, Zenon
  <2> QED BY <2>1, <2>2
<1>5. \A d \in Listed : d \in Instances /\ d <= made
  BY ListedRange DEF IInv, OneHolder
<1>6. TypeOK'
  BY <1>1, <1>3 DEF IInv, TypeOK, Steps
<1>7. OneHolder' /\ Listed' = Listed
  BY DEF IInv, OneHolder, Listed
<1>8. NoOrphan'
  <2>1. \A d \in 1 .. made : d \in Instances
    BY ServerAssumption DEF IInv, TypeOK, Instances
  <2>2. \A d \in 1 .. made : closed'[d] = 0 => closed[d] = 0
    BY <1>1, <1>3, <2>1
  <2> QED BY <1>7, <2>2 DEF IInv, NoOrphan
<1>9. \A d \in Instances : d # Target => closed'[d] = closed[d]
  BY <1>3
<1>10. \A d \in Instances : d > made' => closed'[d] = 0
  <2>1. made \in Int /\ \A d \in Instances : d \in Int /\ d > 0
    BY ServerAssumption DEF IInv, TypeOK, Instances
  <2>2. ASSUME NEW d \in Instances, d > made
        PROVE  d # Target
    BY <1>2, <1>5, <2>1, <2>2 DEF NoContext
  <2>3. \A d \in Instances : d > made => closed[d] = 0
    BY DEF IInv
  <2> QED BY <1>9, <2>2, <2>3
<1>11. step.at = "adding" => ~ Contains(contexts, step.name)
  BY DEF IInv
<1>12. mutex_initialized' => closed'[made'] = 0 /\ made' > 0
  BY <1>3 DEF IInv
<1>13. ClosedByOne'
  <2>1. \A d \in Instances : closed[d] <= IF d \in Listed THEN destroyed ELSE 1
    BY DEF IInv, ClosedByOne
  <2>2. ASSUME NEW d \in Instances
        PROVE  closed'[d] <= IF d \in Listed THEN destroyed' ELSE 1
    <3>1. closed[d] \in Nat /\ closed'[d] \in Nat
      BY <1>1, <1>3
    <3>2. CASE d \in Listed
      BY <1>1, <1>3, <2>1, <3>1, <3>2
    <3>3. CASE d \notin Listed
      <4>1. d # Target
        BY <1>2, <3>3, ServerAssumption DEF NoContext, Instances
      <4> QED BY <1>9, <2>1, <3>3, <4>1
    <3> QED BY <3>2, <3>3
  <2> QED BY <1>7, <2>2 DEF ClosedByOne
<1>14. step.at # "idle" => closed'[step.context] = 0
  <2>1. ASSUME step.at # "idle"
        PROVE  closed'[step.context] = 0
    <3>1. step.context \in Instances /\ step.context \notin Listed
      BY <2>1 DEF IInv, TypeOK, OneHolder, Steps, Idle, Adding, Closing
    <3>2. step.context # Target
      BY <1>2, <3>1, ServerAssumption DEF NoContext, Instances
    <3>3. closed[step.context] = 0
      BY <2>1 DEF IInv
    <3> QED BY <1>9, <3>1, <3>2, <3>3
  <2> QED BY <2>1
<1> QED BY <1>6, <1>7, <1>8, <1>10, <1>11, <1>12, <1>13, <1>14 DEF IInv, Contains, NamesOf

LEMMA NextIInv == IInv /\ [Next]_vars => IInv'
<1> SUFFICES ASSUME IInv, [Next]_vars PROVE IInv'
  OBVIOUS
<1>0. current \in Names /\ process \in {"running", "leaving", "returning", "over"}
      /\ (process \in {"leaving", "returning"} => step = Idle)
      /\ caught \subseteq Signals /\ handler \in {"none", "entered", "destroyed"}
  BY DEF IInv, TypeOK
<1> USE DEF signalVars
<1>1. ASSUME NEW name \in Names, BeginAdd(name) PROVE IInv'
  BY <1>1, BeginAddStep
<1>2. ASSUME NEW name \in Names, SetContext(name) PROVE IInv'
  BY <1>0, <1>2, QuietStep DEF SetContext, Free, Main
<1>3. ASSUME NEW name \in Names, BeginDel(name) PROVE IInv'
  BY <1>3, BeginDelStep
<1>4. CASE EndAdd
  BY <1>4, EndAddStep
<1>5. CASE EndDel
  BY <1>5, EndDelStep
<1>6. CASE Quit
  BY <1>0, <1>6, QuietStep DEF Quit, Free
<1>7. CASE Leave
  BY <1>0, <1>7, DestroyStep DEF Leave
<1>8. CASE Return
  BY <1>0, <1>8, QuietStep DEF Return
<1>9. ASSUME NEW signum \in Signals, Signal(signum) PROVE IInv'
  BY <1>0, <1>9, QuietStep DEF Signal, Main
<1>10. CASE HandlerDestroys
  BY <1>0, <1>10, DestroyStep DEF HandlerDestroys, Main
<1>11. CASE HandlerExits
  BY <1>0, <1>11, QuietStep DEF HandlerExits
<1>12. CASE Abort
  BY <1>0, <1>12, QuietStep DEF Abort, Free
<1>13. CASE UNCHANGED vars
  BY <1>0, <1>13, QuietStep DEF vars, Main
<1> QED BY <1>1, <1>2, <1>3, <1>4, <1>5, <1>6, <1>7, <1>8, <1>9, <1>10, <1>11, <1>12,
           <1>13 DEF Next

-------------------------------------------------------------------------------
\* The invariant above holds in every state.
THEOREM ContextsConsistent == Spec => []IInv
<1> QED BY InitIInv, NextIInv, PTL DEF Spec

\* No command reaches an instance that was closed.
THEOREM NeverClosedTarget == Spec => []ListedOpen
<1>1. IInv => ListedOpen
  <2> SUFFICES ASSUME IInv, destroyed = 0, NEW c \in Listed
               PROVE  closed[c] = 0
    BY DEF ListedOpen
  <2>1. c \in Instances /\ closed[c] \in Nat
    BY ListedRange DEF IInv, TypeOK
  <2> QED BY <2>1 DEF IInv, ClosedByOne
<1> QED BY <1>1, ContextsConsistent, PTL

\* Every open instance is listed or in the hand of a command.
THEOREM NothingOrphaned == Spec => []NoOrphan
<1>1. IInv => NoOrphan
  BY DEF IInv
<1> QED BY <1>1, ContextsConsistent, PTL

\* The mutex is only said to be usable for the sake of an open instance.
THEOREM MutexUsed == Spec => []MutexHasUser
<1>1. IInv => MutexHasUser
  BY ServerAssumption DEF IInv, TypeOK, MutexHasUser
<1> QED BY <1>1, ContextsConsistent, PTL

\* Wherever signals interrupt the server or one another, an instance that is
\* listed was closed at most as often as the server was destroyed, and every
\* other one at most once.
THEOREM ClosedOnce == Spec => []ClosedByOne
<1>1. IInv => ClosedByOne
  BY DEF IInv
<1> QED BY <1>1, ContextsConsistent, PTL
===============================================================================
