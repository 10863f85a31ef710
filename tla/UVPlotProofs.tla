----------------------------- MODULE UVPlotProofs -----------------------------
(***************************************************************************)
(* Proofs about UVPlot for every number of nodes, baselines, samples and   *)
(* threads and every geometry.                                             *)
(***************************************************************************)
EXTENDS UVPlot, FiniteSetTheorems, TLAPS

-------------------------------------------------------------------------------
(* Types.  t, l and i stay natural because the stride never becomes          *)
(* negative: e is the iteration of an earlier sample.                        *)

StrideInv == \A b \in Baselines : e[b] <= l[b]

TypeInv == TypeOK /\ StrideInv

\* The initial states are well typed.
LEMMA InitType == Init => TypeInv
  <1> SUFFICES ASSUME Init PROVE TypeInv
    OBVIOUS
  <1>1. 0 \in Baselines /\ 0 \in Nodes /\ 0 \in Cells
    BY PlotAssumption DEF Baselines, Nodes, Cells
  <1>2. plane \in [Cells -> Seq(Term)]
    BY DEF Init, EmptyPlane
  <1>3. acc \in [Baselines -> Seq(Term)]
    BY DEF Init
  <1>4. /\ t \in [Baselines -> Nat] /\ l \in [Baselines -> Nat]
        /\ e \in [Baselines -> Nat] /\ i \in [Baselines -> Nat]
        /\ stack \in [Baselines -> Int] /\ creg \in [Baselines -> Int]
        /\ location \in [Nodes -> Nat]
    BY DEF Init
  <1>5. oldidx \in [Baselines -> Cells] /\ x \in [Baselines -> Nodes]
    BY <1>1 DEF Init
  <1>6. pc \in [Baselines -> Places]
    BY DEF Init, Places
  <1>7. bi \in Baselines /\ reg \in Int /\ threads_running \in Int
    BY <1>1 DEF Init
  <1>8. TypeOK
    BY <1>2, <1>3, <1>4, <1>5, <1>6, <1>7, Zenon DEF TypeOK, Init
  <1>9. StrideInv
    BY DEF StrideInv, Init
  <1>10. QED
    BY <1>8, <1>9 DEF TypeInv

\* The dispatcher's loops stay within the baselines.
LEMMA NextBaselineType ==
  ASSUME bi \in Baselines, NEW this, NEW next, NextBaseline(this, next)
  PROVE  /\ bi' \in Baselines
         /\ main' = this \/ main' = next
  BY PlotAssumption DEF NextBaseline, Baselines

\* Every step of the dispatcher keeps the types.
LEMMA DispatcherType ==
  TypeInv /\ (StartPlot \/ Interrupt \/ Dispatch) => TypeInv'
  <1> SUFFICES ASSUME TypeInv, StartPlot \/ Interrupt \/ Dispatch
               PROVE  TypeInv'
    OBVIOUS
  <1> USE DEF TypeInv, TypeOK, StrideInv, loopvars, dispatcher
  <1>1. CASE StartPlot
    <2>1. EmptyPlane \in [Cells -> Seq(Term)]
      BY DEF EmptyPlane
    <2>2. bi' \in Baselines
      BY <1>1, PlotAssumption DEF StartPlot, Baselines
    <2>3. pc' \in [Baselines -> Places]
      BY <1>1 DEF StartPlot, Places
    <2>4. reg' \in Int /\ threads_running' \in Int
      BY <1>1 DEF StartPlot
    <2>5. StrideInv'
      BY <1>1 DEF StartPlot
    <2>6. TypeOK'
      BY <1>1, <2>1, <2>2, <2>3, <2>4, Zenon DEF StartPlot
    <2>7. QED
      BY <2>5, <2>6
  <1>2. CASE Interrupt
    BY <1>2 DEF Interrupt
  <1>3. CASE Spin
    BY <1>3 DEF Spin
  <1>4. CASE IncRead
    BY <1>4 DEF IncRead
  <1>5. CASE IncWrite
    <2>1. threads_running' \in Int
      BY <1>5 DEF IncWrite
    <2>2. QED
      BY <1>5, <2>1, Zenon DEF IncWrite
  <1>6. CASE Create
    <2>1. bi' \in Baselines /\ main' \in {"spin", "join"}
      BY <1>6, NextBaselineType DEF Create
    <2>2. pc' \in [Baselines -> Places]
      BY <1>6 DEF Create, Places
    <2>3. QED
      BY <1>6, <2>1, <2>2 DEF Create
  <1>7. CASE Join
    <2>1. bi' \in Baselines /\ main' \in {"join", "save"}
      BY <1>7, NextBaselineType DEF Join
    <2>2. QED
      BY <1>7, <2>1 DEF Join
  <1>8. CASE Save
    BY <1>8 DEF Save
  <1>9. QED
    BY <1>1, <1>2, <1>3, <1>4, <1>5, <1>6, <1>7, <1>8 DEF Dispatch

\* The arithmetic of the loop's end keeps time, iteration and stride natural.
LEMMA AdvanceType ==
  ASSUME TypeInv, NEW b \in Baselines, NEW newe \in Nat, newe <= l[b],
         Advance(b, newe)
  PROVE  /\ e' \in [Baselines -> Nat]
         /\ i' \in [Baselines -> Nat]
         /\ t' \in [Baselines -> Nat]
         /\ l' \in [Baselines -> Nat]
         /\ StrideInv'
  <1>1. /\ e \in [Baselines -> Nat] /\ i \in [Baselines -> Nat]
        /\ t \in [Baselines -> Nat] /\ l \in [Baselines -> Nat]
    BY DEF TypeInv, TypeOK
  <1>2. /\ l[b] + 1 - newe \in Nat
        /\ t[b] + (l[b] + 1 - newe) \in Nat
        /\ l[b] + 1 \in Nat
    BY <1>1
  <1>3. /\ e' \in [Baselines -> Nat] /\ i' \in [Baselines -> Nat]
        /\ t' \in [Baselines -> Nat] /\ l' \in [Baselines -> Nat]
    BY <1>1, <1>2 DEF Advance
  <1>4. StrideInv'
    BY <1>1 DEF Advance, TypeInv, StrideInv
  <1>5. QED
    BY <1>3, <1>4

\* Every step of a thread keeps the types.
LEMMA WorkerType ==
  ASSUME TypeInv, NEW b \in Baselines, Worker(b)
  PROVE  TypeInv'
  <1> USE DEF Goto, loopvars, dispatcher, Places
  <1>1. CASE Begin(b)
    <2>1. 0 \in Cells
      BY PlotAssumption DEF Cells
    <2>2. /\ t' \in [Baselines -> Nat] /\ l' \in [Baselines -> Nat]
          /\ e' \in [Baselines -> Nat] /\ i' \in [Baselines -> Nat]
          /\ oldidx' \in [Baselines -> Cells]
          /\ stack' \in [Baselines -> Int]
      BY <1>1, <2>1 DEF Begin, TypeInv, TypeOK
    <2>3. StrideInv'
      BY <1>1 DEF Begin, TypeInv, TypeOK, StrideInv
    <2>4. TypeOK'
      BY <1>1, <2>2 DEF Begin, TypeInv, TypeOK
    <2>5. QED
      BY <2>3, <2>4 DEF TypeInv
  <1>2. CASE Leave(b)
    BY <1>2 DEF Leave, TypeInv, TypeOK, StrideInv
  <1>3. CASE Enter(b)
    <2>1. 0 \in Nodes
      BY PlotAssumption DEF Nodes
    <2>2. x' \in [Baselines -> Nodes]
      BY <1>3, <2>1 DEF Enter, TypeInv, TypeOK
    <2>3. QED
      BY <1>3, <2>2 DEF Enter, TypeInv, TypeOK, StrideInv
  <1>4. CASE Locate(b)
    <2>1. x[b] \in Nodes /\ LocationIndex(b) \in Nat
      BY DEF TypeInv, TypeOK, LocationIndex
    <2>2. MovedTo(x[b], LocationIndex(b)) \in Nat
      BY <2>1 DEF TypeInv, TypeOK, MovedTo
    <2>3. location' \in [Nodes -> Nat]
      BY <1>4, <2>1, <2>2 DEF Locate, TypeInv, TypeOK
    <2>4. x[b] + 1 < NodeCount => x[b] + 1 \in Nodes
      BY <2>1, PlotAssumption DEF Nodes
    <2>5. x' \in [Baselines -> Nodes]
      BY <1>4, <2>4 DEF Locate, TypeInv, TypeOK
    <2>6. QED
      BY <1>4, <2>3, <2>5 DEF Locate, TypeInv, TypeOK, StrideInv
  <1>5. CASE Skip(b)
    <2>1. e[b] \in Nat /\ e[b] <= l[b]
      BY DEF TypeInv, TypeOK, StrideInv
    <2>2. Advance(b, e[b])
      BY <1>5 DEF Skip
    <2>3. QED
      BY <1>5, <2>1, <2>2, AdvanceType DEF Skip, TypeInv, TypeOK
  <1>6. CASE Drop(b)
    <2>1. l[b] \in Nat /\ l[b] <= l[b]
      BY DEF TypeInv, TypeOK
    <2>2. Advance(b, l[b])
      BY <1>6 DEF Drop
    <2>3. oldidx' \in [Baselines -> Cells]
      BY <1>6 DEF Drop, NewPixel, TypeInv, TypeOK
    <2>4. QED
      BY <1>6, <2>1, <2>2, <2>3, AdvanceType DEF Drop, TypeInv, TypeOK
  <1>7. CASE Project(b)
    <2>1. oldidx' \in [Baselines -> Cells]
      BY <1>7 DEF Project, NewPixel, TypeInv, TypeOK
    <2>2. QED
      BY <1>7, <2>1 DEF Project, TypeInv, TypeOK, StrideInv
  <1>8. CASE Lock(b)
    BY <1>8 DEF Lock, TypeInv, TypeOK, StrideInv
  <1>9. CASE ReadPixel(b)
    BY <1>9 DEF ReadPixel, TypeInv, TypeOK, StrideInv
  <1>10. CASE WritePixel(b)
    <2>1. TermOf(b) \in Term
      BY DEF TermOf, Term, TypeInv, TypeOK
    <2>2. Append(acc[b], TermOf(b)) \in Seq(Term)
      BY <2>1 DEF TypeInv, TypeOK
    <2>3. plane' \in [Cells -> Seq(Term)]
      BY <1>10, <2>2 DEF WritePixel, TypeInv, TypeOK
    <2>4. <<b, t[b]>> \in Baselines \X Nat
      BY DEF TypeInv, TypeOK
    <2>5. written' \in SUBSET (Baselines \X Nat)
      BY <1>10, <2>4 DEF WritePixel, TypeInv, TypeOK
    <2>6. QED
      BY <1>10, <2>3, <2>5 DEF WritePixel, TypeInv, TypeOK, StrideInv
  <1>11. CASE Unlock(b)
    <2>1. l[b] \in Nat /\ l[b] <= l[b]
      BY DEF TypeInv, TypeOK
    <2>2. Advance(b, l[b])
      BY <1>11 DEF Unlock
    <2>3. QED
      BY <1>11, <2>1, <2>2, AdvanceType DEF Unlock, TypeInv, TypeOK
  <1>12. CASE DecRead(b)
    BY <1>12 DEF DecRead, TypeInv, TypeOK, StrideInv
  <1>13. CASE DecWrite(b)
    <2>1. threads_running' \in Int
      BY <1>13 DEF DecWrite, TypeInv, TypeOK
    <2>2. pc' \in [Baselines -> Places]
      BY <1>13 DEF DecWrite, TypeInv, TypeOK
    <2>3. QED
      BY <1>13, <2>1, <2>2, Zenon DEF DecWrite, TypeInv, TypeOK, StrideInv
  <1>14. QED
    BY <1>1, <1>2, <1>3, <1>4, <1>5, <1>6, <1>7, <1>8, <1>9, <1>10, <1>11,
       <1>12, <1>13 DEF Worker

\* A step that changes nothing keeps the types.
LEMMA StutterType == TypeInv /\ UNCHANGED vars => TypeInv'
  BY DEF TypeInv, TypeOK, StrideInv, vars

\* UVPlot is type correct: every variable of the plot keeps its type, and
\* the time, iteration and stride of a thread never become negative.
LEMMA TypeInvariant == Spec => []TypeInv
  <1>1. TypeInv /\ [Next]_vars => TypeInv'
    BY DispatcherType, WorkerType, StutterType DEF Next
  <1>2. QED
    BY InitType, <1>1, PTL DEF Spec

\* In particular every variable of the plot keeps the type it has in the code.
THEOREM TypeCorrect == Spec => []TypeOK
  <1>1. TypeInv => TypeOK
    BY DEF TypeInv
  <1>2. QED
    BY <1>1, TypeInvariant, PTL

-------------------------------------------------------------------------------
(* The throttle.  A lost decrement can leave the counter too high for good,  *)
(* and a lost increment too low, but a thread only ever stores a value below *)
(* MaxThreads.  A counter at its limit was therefore stored by the           *)
(* dispatcher, and the thread it created right after has not decremented it. *)

Last == bi - 1

ThrottleInv ==
  /\ threads_running <= MaxThreads
  /\ main \in {"incread", "incwrite"} => threads_running < MaxThreads
  /\ main = "incwrite" => reg < MaxThreads
  /\ \A b \in Baselines : pc[b] = "decwrite" => creg[b] <= MaxThreads
  /\ main = "spin" /\ threads_running = MaxThreads =>
       Last \in Baselines /\ pc[Last] \notin {"absent", "done"}

\* No counter is at its limit before the first plot.
LEMMA InitThrottle == Init => ThrottleInv
  BY PlotAssumption DEF Init, ThrottleInv

\* The dispatcher passes its throttle only below the limit, and stores at
\* most the limit right before it creates a thread.
LEMMA DispatcherThrottle ==
  TypeInv /\ ThrottleInv /\ (StartPlot \/ Interrupt \/ Dispatch) => ThrottleInv'
  <1> SUFFICES ASSUME TypeInv, ThrottleInv, StartPlot \/ Interrupt \/ Dispatch
               PROVE  ThrottleInv'
    OBVIOUS
  <1>0. /\ MaxThreads \in Nat \ {0} /\ BaselineCount \in Nat \ {0}
        /\ threads_running \in Int /\ reg \in Int /\ bi \in Baselines
        /\ pc \in [Baselines -> Places] /\ creg \in [Baselines -> Int]
    BY PlotAssumption DEF TypeInv, TypeOK
  <1> USE DEF ThrottleInv, Last
  <1>1. CASE StartPlot
    BY <1>0, <1>1 DEF StartPlot, loopvars
  <1>2. CASE Interrupt
    BY <1>0, <1>2 DEF Interrupt, dispatcher
  <1>3. CASE Spin
    BY <1>0, <1>3 DEF Spin
  <1>4. CASE IncRead
    BY <1>0, <1>4 DEF IncRead
  <1>5. CASE IncWrite
    BY <1>0, <1>5 DEF IncWrite
  <1>6. CASE Create
    <2>1. /\ main' \in {"spin", "join"}
          /\ main' = "spin" => bi' = bi + 1 /\ bi + 1 < BaselineCount
      BY <1>6 DEF Create, NextBaseline
    <2>2. pc'[bi] = "started"
      BY <1>0, <1>6 DEF Create
    <2>3. \A b \in Baselines : pc'[b] = "decwrite" => creg'[b] <= MaxThreads'
      BY <1>0, <1>6 DEF Create
    <2>4. threads_running' = threads_running
      BY <1>6 DEF Create
    <2>5. QED
      BY <1>0, <2>1, <2>2, <2>3, <2>4 DEF Baselines
  <1>7. CASE Join
    <2>1. main' \in {"join", "save"}
      BY <1>7 DEF Join, NextBaseline
    <2>2. QED
      BY <1>0, <1>7, <2>1 DEF Join
  <1>8. CASE Save
    BY <1>0, <1>8 DEF Save
  <1>9. QED
    BY <1>1, <1>2, <1>3, <1>4, <1>5, <1>6, <1>7, <1>8 DEF Dispatch

\* A thread moves on to one of its own places and touches the counter only
\* with the store of its decrement.
LEMMA WorkerFrame ==
  ASSUME TypeInv, NEW b \in Baselines, Worker(b)
  PROVE  /\ UNCHANGED dispatcher
         /\ \E p \in Places \ {"absent", "started"} :
              pc' = [pc EXCEPT ![b] = p]
         /\ pc[b] \notin {"absent", "done"}
         /\ UNCHANGED threads_running \/ DecWrite(b)
         /\ \A c \in Baselines : c # b => creg'[c] = creg[c]
         /\ pc'[b] = "decwrite" => creg'[b] = threads_running
  <1>0. pc \in [Baselines -> Places] /\ creg \in [Baselines -> Int]
    BY DEF TypeInv, TypeOK
  <1>1. CASE DecRead(b)
    BY <1>0, <1>1 DEF DecRead, Goto, Places
  <1>2. CASE DecWrite(b)
    BY <1>0, <1>2 DEF DecWrite, Goto, Places
  <1>3. CASE Locate(b)
    BY <1>0, <1>3 DEF Locate, Goto, Places
  <1>4. CASE Begin(b) \/ Leave(b) \/ Enter(b) \/ Skip(b) \/ Drop(b) \/ Project(b)
    BY <1>0, <1>4 DEF Begin, Leave, Enter, Skip, Drop, Project, Goto, Places
  <1>5. CASE Lock(b) \/ ReadPixel(b) \/ WritePixel(b) \/ Unlock(b)
    BY <1>0, <1>5 DEF Lock, ReadPixel, WritePixel, Unlock, Goto, Places
  <1>6. QED
    BY <1>1, <1>2, <1>3, <1>4, <1>5 DEF Worker

\* A thread stores a value below the limit, whatever it lost.
LEMMA WorkerThrottle ==
  ASSUME TypeInv, ThrottleInv, NEW b \in Baselines, Worker(b)
  PROVE  ThrottleInv'
  <1>0. /\ MaxThreads \in Nat \ {0}
        /\ threads_running \in Int /\ reg \in Int /\ bi \in Baselines
        /\ pc \in [Baselines -> Places] /\ creg \in [Baselines -> Int]
    BY PlotAssumption DEF TypeInv, TypeOK
  <1>1. UNCHANGED dispatcher
    BY WorkerFrame
  <1>2. PICK p \in Places \ {"absent", "started"} : pc' = [pc EXCEPT ![b] = p]
    BY WorkerFrame
  <1>3. \A c \in Baselines : pc'[c] = "decwrite" => creg'[c] <= MaxThreads
    BY <1>0, <1>2, WorkerFrame DEF ThrottleInv
  <1>4. CASE DecWrite(b)
    <2>1. threads_running' < MaxThreads /\ threads_running' \in Int
      BY <1>0, <1>4 DEF DecWrite, Goto, ThrottleInv
    <2>2. QED
      BY <1>0, <1>1, <1>3, <2>1 DEF ThrottleInv, dispatcher
  <1>5. CASE UNCHANGED threads_running /\ ~DecWrite(b)
    <2>1. pc'[b] # "done"
      <3>1. ~DecWrite(b) /\ Worker(b)
        BY <1>5
      <3>2. QED
        BY <1>0, <3>1 DEF Worker, Begin, Leave, Enter, Locate, Skip, Drop,
           Project, Lock, ReadPixel, WritePixel, Unlock, DecRead, Goto
    <2>2. \A c \in Baselines :
            pc[c] \notin {"absent", "done"} => pc'[c] \notin {"absent", "done"}
      BY <1>0, <1>2, <2>1
    <2>3. QED
      BY <1>0, <1>1, <1>3, <1>5, <2>2 DEF ThrottleInv, dispatcher, Last
  <1>6. QED
    BY <1>4, <1>5, WorkerFrame

\* The invariant of the throttle holds in every state of every plot.
LEMMA ThrottleCorrect == Spec => []ThrottleInv
  <1>1. TypeInv /\ ThrottleInv /\ [Next]_vars => ThrottleInv'
    <2>1. TypeInv /\ ThrottleInv /\ UNCHANGED vars => ThrottleInv'
      BY DEF ThrottleInv, vars, Last
    <2>2. QED
      BY <2>1, DispatcherThrottle, WorkerThrottle DEF Next
  <1>2. QED
    BY InitThrottle, <1>1, TypeInvariant, PTL DEF Spec

\* The dispatcher never waits for threads that are all gone: in its throttle
\* with the counter at the limit, the thread it created last is still to
\* store a smaller value, whatever increments and decrements were lost.
THEOREM NeverStranded == Spec => []NotStranded
  <1>1. TypeInv /\ ThrottleInv => NotStranded
    <2> SUFFICES ASSUME TypeInv, ThrottleInv, main = "spin",
                        threads_running > MaxThreads - 1
                 PROVE  Alive # {}
      BY DEF NotStranded
    <2>1. threads_running = MaxThreads
      BY PlotAssumption DEF TypeInv, TypeOK, ThrottleInv
    <2>2. Last \in Alive
      BY <2>1 DEF ThrottleInv, Alive
    <2>3. QED
      BY <2>2
  <1>2. QED
    BY <1>1, TypeInvariant, ThrottleCorrect, PTL

-------------------------------------------------------------------------------
(* The plane.  A thread between Lock and Unlock holds the mutex, so the      *)
(* pixel it loaded is still what the plane holds when it stores the sum.     *)

MutexInv == \A b \in Baselines : pc[b] \in Critical => mutex = b

AccInv == \A b \in Baselines : pc[b] = "write" => acc[b] = plane[oldidx[b]]

PlaneInv == MutexInv /\ AccInv /\ NoLostTerm

\* Nothing is plotted in an empty plane.
LEMMA PlottedEmpty == Plotted(EmptyPlane) = {}
  BY DEF Plotted, EmptyPlane

\* One more term in one pixel is one more plotted sample, and the others stay.
LEMMA PlottedAppend ==
  ASSUME NEW p \in [Cells -> Seq(Term)], NEW c \in Cells, NEW term \in Term
  PROVE  Plotted([p EXCEPT ![c] = Append(p[c], term)])
           = Plotted(p) \cup {<<term.b, term.t>>}
  <1> DEFINE q == [p EXCEPT ![c] = Append(p[c], term)]
  <1>1. /\ q[c] = Append(p[c], term)
        /\ \A d \in Cells : d # c => q[d] = p[d]
    OBVIOUS
  <1>2. /\ p[c] \in Seq(Term) /\ Len(p[c]) \in Nat
        /\ DOMAIN p[c] = 1 .. Len(p[c])
        /\ DOMAIN q[c] = 1 .. Len(p[c]) + 1
    BY <1>1
  <1>3. /\ \A j \in DOMAIN p[c] : j \in DOMAIN q[c] /\ q[c][j] = p[c][j]
        /\ Len(p[c]) + 1 \in DOMAIN q[c]
        /\ q[c][Len(p[c]) + 1] = term
        /\ \A j \in DOMAIN q[c] : j \in DOMAIN p[c] \/ j = Len(p[c]) + 1
    BY <1>1, <1>2
  <1> HIDE DEF q
  <1> DEFINE Pairs(s) == {<<s[j].b, s[j].t>> : j \in DOMAIN s}
  <1>4. Pairs(q[c]) = Pairs(p[c]) \cup {<<term.b, term.t>>}
    BY <1>3
  <1>5. \A d \in Cells : d # c => Pairs(q[d]) = Pairs(p[d])
    BY <1>1
  <1>6. /\ Plotted(q) = UNION {Pairs(q[d]) : d \in Cells}
        /\ Plotted(p) = UNION {Pairs(p[d]) : d \in Cells}
    BY DEF Plotted
  <1> HIDE DEF Pairs
  <1>7. ASSUME NEW w
        PROVE  w \in Plotted(q) <=> w \in Plotted(p) \/ w = <<term.b, term.t>>
    <2>1. /\ w \in Plotted(q) <=> \E d \in Cells : w \in Pairs(q[d])
          /\ w \in Plotted(p) <=> \E d \in Cells : w \in Pairs(p[d])
      BY <1>6
    <2>2. QED
      BY <1>4, <1>5, <2>1
  <1>8. Plotted(q) = Plotted(p) \cup {<<term.b, term.t>>}
    BY <1>7
  <1>9. QED
    BY <1>8, Zenon DEF q

\* The plane and the history of plotted samples start empty.
LEMMA InitPlane == Init => PlaneInv
  BY PlottedEmpty DEF Init, PlaneInv, MutexInv, AccInv, NoLostTerm, Critical

\* The dispatcher touches neither the mutex nor a pixel, except for a new plane.
LEMMA DispatcherPlane ==
  TypeInv /\ PlaneInv /\ (StartPlot \/ Interrupt \/ Dispatch) => PlaneInv'
  <1> SUFFICES ASSUME TypeInv, PlaneInv, StartPlot \/ Interrupt \/ Dispatch
               PROVE  PlaneInv'
    OBVIOUS
  <1>1. CASE StartPlot
    <2>1. /\ plane' = EmptyPlane /\ written' = {}
          /\ \A b \in Baselines : pc'[b] = "absent"
      BY <1>1 DEF StartPlot
    <2>2. NoLostTerm'
      BY <2>1, PlottedEmpty DEF NoLostTerm, Plotted
    <2>3. QED
      BY <2>1, <2>2 DEF PlaneInv, MutexInv, AccInv, Critical
  <1>2. CASE Interrupt \/ Dispatch
    <2>1. UNCHANGED <<mutex, plane, written, acc, oldidx>>
      BY <1>2 DEF Interrupt, Dispatch, Spin, IncRead, IncWrite, Create, Join,
         Save, loopvars
    <2>2. \A b \in Baselines : pc'[b] = pc[b] \/ pc'[b] = "started"
      BY <1>2 DEF Interrupt, Dispatch, Spin, IncRead, IncWrite, Create, Join,
         Save, TypeInv, TypeOK
    <2>3. NoLostTerm'
      BY <2>1 DEF PlaneInv, NoLostTerm, Plotted
    <2>4. QED
      BY <2>1, <2>2, <2>3 DEF PlaneInv, MutexInv, AccInv, Critical
  <1>3. QED
    BY <1>1, <1>2

\* Only the holder of the mutex stores a pixel, and it stores what it loaded
\* and one more term.
LEMMA WorkerPlane ==
  ASSUME TypeInv, PlaneInv, NEW b \in Baselines, Worker(b)
  PROVE  PlaneInv'
  <1>0. /\ pc \in [Baselines -> Places] /\ acc \in [Baselines -> Seq(Term)]
        /\ plane \in [Cells -> Seq(Term)] /\ oldidx \in [Baselines -> Cells]
        /\ mutex \in Baselines \cup {Free} /\ Free \notin Baselines
        /\ t \in [Baselines -> Nat] /\ stack \in [Baselines -> Int]
    <2>1. Free \notin Baselines
      BY PlotAssumption DEF Free, Baselines
    <2>2. QED
      BY <2>1 DEF TypeInv, TypeOK
  <1> USE DEF Goto, Critical
  <1>1. CASE \/ Begin(b) \/ Leave(b) \/ Enter(b) \/ Locate(b) \/ Skip(b)
             \/ Drop(b) \/ Project(b) \/ DecRead(b) \/ DecWrite(b)
    <2>1. UNCHANGED <<mutex, plane, written, acc>>
      BY <1>1 DEF Begin, Leave, Enter, Locate, Skip, Drop, Project, DecRead,
         DecWrite
    <2>2. /\ pc'[b] \notin Critical
          /\ \A c \in Baselines : c # b => /\ pc'[c] = pc[c]
                                          /\ oldidx'[c] = oldidx[c]
      BY <1>0, <1>1 DEF Begin, Leave, Enter, Locate, Skip, Drop, Project,
         DecRead, DecWrite, loopvars
    <2>3. NoLostTerm'
      BY <2>1 DEF PlaneInv, NoLostTerm, Plotted
    <2>4. QED
      BY <2>1, <2>2, <2>3 DEF PlaneInv, MutexInv, AccInv
  <1>2. CASE Lock(b)
    <2>1. NoLostTerm'
      BY <1>2 DEF Lock, PlaneInv, NoLostTerm, Plotted
    <2>2. MutexInv'
      BY <1>0, <1>2 DEF Lock, PlaneInv, MutexInv
    <2>3. AccInv'
      BY <1>0, <1>2 DEF Lock, loopvars, PlaneInv, AccInv
    <2>4. QED
      BY <2>1, <2>2, <2>3 DEF PlaneInv
  <1>3. CASE ReadPixel(b)
    <2>1. NoLostTerm'
      BY <1>3 DEF ReadPixel, PlaneInv, NoLostTerm, Plotted
    <2>2. MutexInv'
      BY <1>0, <1>3 DEF ReadPixel, PlaneInv, MutexInv
    <2>3. AccInv'
      BY <1>0, <1>3 DEF ReadPixel, loopvars, PlaneInv, AccInv
    <2>4. QED
      BY <2>1, <2>2, <2>3 DEF PlaneInv
  <1>4. CASE WritePixel(b)
    <2>1. acc[b] = plane[oldidx[b]] /\ mutex = b
      BY <1>4 DEF WritePixel, PlaneInv, AccInv, MutexInv
    <2>2. TermOf(b) \in Term /\ oldidx[b] \in Cells
      BY <1>0 DEF TermOf, Term
    <2>3. Plotted(plane') = Plotted(plane) \cup {<<TermOf(b).b, TermOf(b).t>>}
      <3>1. plane' = [plane EXCEPT ![oldidx[b]]
                        = Append(plane[oldidx[b]], TermOf(b))]
        BY <1>4, <2>1, Zenon DEF WritePixel
      <3>2. plane \in [Cells -> Seq(Term)]
        BY <1>0
      <3>3. QED
        BY <2>2, <3>1, <3>2, PlottedAppend, Zenon
    <2>4. Plotted(plane') = written'
      BY <1>4, <2>3 DEF WritePixel, TermOf, PlaneInv, NoLostTerm
    <2>5. NoLostTerm'
      BY <2>4 DEF NoLostTerm, Plotted
    <2>6. MutexInv'
      BY <1>0, <1>4 DEF WritePixel, PlaneInv, MutexInv
    <2>7. \A c \in Baselines : pc'[c] # "write"
      BY <1>0, <1>4, <2>1 DEF WritePixel, PlaneInv, MutexInv
    <2>8. QED
      BY <2>5, <2>6, <2>7 DEF PlaneInv, AccInv
  <1>5. CASE Unlock(b)
    <2>1. NoLostTerm'
      BY <1>5 DEF Unlock, PlaneInv, NoLostTerm, Plotted
    <2>2. mutex = b
      BY <1>5 DEF Unlock, PlaneInv, MutexInv
    <2>3. \A c \in Baselines : pc'[c] \notin Critical
      BY <1>0, <1>5, <2>2 DEF Unlock, PlaneInv, MutexInv
    <2>4. QED
      BY <2>1, <2>3 DEF PlaneInv, MutexInv, AccInv
  <1>6. QED
    BY <1>1, <1>2, <1>3, <1>4, <1>5 DEF Worker

\* The invariant of the plane holds in every state of every plot.
LEMMA PlaneCorrect == Spec => []PlaneInv
  <1>1. TypeInv /\ PlaneInv /\ [Next]_vars => PlaneInv'
    <2>1. TypeInv /\ PlaneInv /\ UNCHANGED vars => PlaneInv'
      BY DEF PlaneInv, MutexInv, AccInv, NoLostTerm, Plotted, vars
    <2>2. QED
      BY <2>1, DispatcherPlane, WorkerPlane DEF Next
  <1>2. QED
    BY InitPlane, <1>1, TypeInvariant, PTL DEF Spec

\* Two threads never lose an update of the plane: every sample a thread
\* plotted is in it, however their loads and stores interleave.
THEOREM NothingLost == Spec => []NoLostTerm
  <1>1. PlaneInv => NoLostTerm
    BY DEF PlaneInv
  <1>2. QED
    BY <1>1, PlaneCorrect, PTL

-------------------------------------------------------------------------------
(* The stored model.  The second loop has joined the threads before bi.      *)

JoinInv ==
  /\ main = "join" => \A b \in Baselines : b < bi => pc[b] = "done"
  /\ main = "save" => \A b \in Baselines : pc[b] = "done"
  /\ result # NoResult => /\ main = "idle"
                          /\ \A b \in Baselines : pc[b] = "done"
                          /\ result = plane

\* Before the first plot nothing is stored.
LEMMA InitJoin == Init => JoinInv
  BY DEF Init, JoinInv

\* The dispatcher gets to the store only when it has joined every thread.
LEMMA DispatcherJoin ==
  TypeInv /\ JoinInv /\ (StartPlot \/ Interrupt \/ Dispatch) => JoinInv'
  <1> SUFFICES ASSUME TypeInv, JoinInv, StartPlot \/ Interrupt \/ Dispatch
               PROVE  JoinInv'
    OBVIOUS
  <1>0. /\ BaselineCount \in Nat \ {0} /\ bi \in Baselines
        /\ \A b \in Baselines : b \in Int /\ 0 <= b /\ b < BaselineCount
    BY PlotAssumption DEF TypeInv, TypeOK, Baselines
  <1> USE DEF JoinInv
  <1>1. CASE StartPlot
    BY <1>1 DEF StartPlot
  <1>2. CASE Interrupt
    BY <1>2 DEF Interrupt, dispatcher
  <1>3. CASE Spin \/ IncRead \/ IncWrite
    BY <1>3 DEF Spin, IncRead, IncWrite
  <1>4. CASE Create
    <2>1. main' = "spin" \/ (main' = "join" /\ bi' = 0)
      BY <1>4 DEF Create, NextBaseline
    <2>2. result' = NoResult
      BY <1>4 DEF Create
    <2>3. QED
      BY <1>0, <2>1, <2>2
  <1>5. CASE Join
    <2>1. UNCHANGED <<pc, result, plane>> /\ main = "join" /\ pc[bi] = "done"
      BY <1>5 DEF Join
    <2>2. result' = NoResult
      BY <2>1
    <2>3. \A b \in Baselines : b < bi + 1 => pc'[b] = "done"
      BY <1>0, <2>1
    <2>4. \/ main' = "join" /\ bi' = bi + 1
          \/ main' = "save" /\ bi + 1 >= BaselineCount
      BY <1>0, <1>5 DEF Join, NextBaseline
    <2>5. QED
      BY <1>0, <2>2, <2>3, <2>4
  <1>6. CASE Save
    BY <1>6 DEF Save
  <1>7. QED
    BY <1>1, <1>2, <1>3, <1>4, <1>5, <1>6 DEF Dispatch

\* While a thread moves, the dispatcher has neither joined it nor stored
\* anything.
LEMMA WorkerJoin ==
  ASSUME TypeInv, JoinInv, NEW b \in Baselines, Worker(b)
  PROVE  JoinInv'
  <1>1. UNCHANGED dispatcher /\ pc[b] # "done"
    BY WorkerFrame
  <1>2. \A c \in Baselines : c # b => pc'[c] = pc[c]
    BY WorkerFrame DEF TypeInv, TypeOK
  <1>3. UNCHANGED result
    BY DEF Worker, Begin, Leave, Enter, Locate, Skip, Drop, Project, Lock,
       ReadPixel, WritePixel, Unlock, DecRead, DecWrite
  <1>4. QED
    BY <1>1, <1>2, <1>3 DEF JoinInv, dispatcher

\* What the dispatcher stored and joined, in every state of every plot.
LEMMA JoinCorrect == Spec => []JoinInv
  <1>1. TypeInv /\ JoinInv /\ [Next]_vars => JoinInv'
    <2>1. TypeInv /\ JoinInv /\ UNCHANGED vars => JoinInv'
      BY DEF JoinInv, vars
    <2>2. QED
      BY <2>1, DispatcherJoin, WorkerJoin DEF Next
  <1>2. QED
    BY InitJoin, <1>1, TypeInvariant, PTL DEF Spec

\* The model that a plot stores is final: it is the plane after the last
\* thread was joined, it holds all they plotted, and none touches it again.
THEOREM StoredFinal == Spec => []StoredIsFinal
  <1>1. JoinInv /\ PlaneInv => StoredIsFinal
    BY DEF JoinInv, PlaneInv, NoLostTerm, StoredIsFinal
  <1>2. QED
    BY <1>1, JoinCorrect, PlaneCorrect, PTL

-------------------------------------------------------------------------------
(* One thread at most, the default: the counter is exact, because nobody     *)
(* else is between the load and the store of the one who changes it.         *)

Solo ==
  /\ threads_running \in {0, 1}
  /\ \A b, c \in Alive : b = c
  /\ Alive # {} => threads_running = 1
  /\ main \in {"incread", "incwrite", "create"} => Alive = {}
  /\ main \in {"incread", "incwrite"} => threads_running = 0
  /\ main = "incwrite" => reg = 0
  /\ main = "create" => threads_running = 1
  /\ \A b \in Baselines : pc[b] = "decwrite" => creg[b] = 1
  /\ \A b \in Baselines : pc[b] \notin {"absent", "started"} => stack[b] = 1

SoloInv == MaxThreads = 1 => Solo

\* No thread exists before the first plot.
LEMMA InitSolo == Init => SoloInv
  BY DEF Init, SoloInv, Solo, Alive

\* The dispatcher passes its throttle when the only thread is over.
LEMMA DispatcherSolo ==
  TypeInv /\ SoloInv /\ (StartPlot \/ Interrupt \/ Dispatch) => SoloInv'
  <1> SUFFICES ASSUME TypeInv, MaxThreads = 1, Solo,
                      StartPlot \/ Interrupt \/ Dispatch
               PROVE  Solo'
    BY DEF SoloInv
  <1>0. bi \in Baselines /\ pc \in [Baselines -> Places]
    BY DEF TypeInv, TypeOK
  <1> USE DEF Solo, Alive
  <1>1. CASE StartPlot
    BY <1>1 DEF StartPlot
  <1>2. CASE Interrupt
    BY <1>2 DEF Interrupt, dispatcher
  <1>3. CASE Spin
    BY <1>3 DEF Spin
  <1>4. CASE IncRead
    BY <1>4 DEF IncRead
  <1>5. CASE IncWrite
    BY <1>5 DEF IncWrite
  <1>6. CASE Create
    <2>1. main' \in {"spin", "join"}
      BY <1>6 DEF Create, NextBaseline
    <2>2. Alive' = {bi}
      BY <1>0, <1>6 DEF Create, Places
    <2>3. UNCHANGED <<threads_running, reg, creg, stack>> /\ threads_running = 1
      BY <1>6 DEF Create
    <2>4. \A b \in Baselines : pc'[b] = pc[b] \/ pc'[b] = "started"
      BY <1>0, <1>6 DEF Create
    <2> HIDE DEF Alive
    <2>5. QED
      BY <2>1, <2>2, <2>3, <2>4
  <1>7. CASE Join
    <2>1. main' \in {"join", "save"}
      BY <1>7 DEF Join, NextBaseline
    <2>2. QED
      BY <1>7, <2>1 DEF Join
  <1>8. CASE Save
    BY <1>8 DEF Save
  <1>9. QED
    BY <1>1, <1>2, <1>3, <1>4, <1>5, <1>6, <1>7, <1>8 DEF Dispatch

\* The only thread finds 1 in the counter and leaves 0.
LEMMA WorkerSolo ==
  ASSUME TypeInv, SoloInv, NEW b \in Baselines, Worker(b)
  PROVE  SoloInv'
  <1> SUFFICES ASSUME MaxThreads = 1, Solo
               PROVE  Solo'
    BY DEF SoloInv
  <1>0. /\ pc \in [Baselines -> Places] /\ creg \in [Baselines -> Int]
        /\ stack \in [Baselines -> Int]
    BY DEF TypeInv, TypeOK
  <1>1. /\ UNCHANGED dispatcher
        /\ b \in Alive
    BY WorkerFrame DEF Alive
  <1>2. PICK p \in Places \ {"absent", "started"} : pc' = [pc EXCEPT ![b] = p]
    BY WorkerFrame
  <1>3. threads_running = 1 /\ Alive = {b}
    BY <1>1 DEF Solo
  <1>4. Alive' \subseteq {b}
    BY <1>0, <1>2, <1>3 DEF Alive
  <1>5. main \notin {"incread", "incwrite", "create"}
    BY <1>1 DEF Solo
  <1>6. \A c \in Baselines : pc'[c] = "decwrite" => creg'[c] = 1
    BY <1>0, <1>2, <1>3, WorkerFrame DEF Solo
  <1>7. \A c \in Baselines : pc'[c] \notin {"absent", "started"} => stack'[c] = 1
    <2>1. CASE Begin(b)
      BY <1>0, <1>3, <2>1 DEF Begin, Goto, Solo
    <2>2. CASE ~Begin(b)
      <3>1. UNCHANGED stack /\ pc[b] # "started"
        BY <2>2 DEF Worker, Leave, Enter, Locate, Skip, Drop, Project, Lock,
           ReadPixel, WritePixel, Unlock, DecRead, DecWrite, Goto
      <3>2. QED
        BY <1>0, <1>1, <1>2, <3>1 DEF Solo, Alive
    <2>3. QED
      BY <2>1, <2>2
  <1>8. CASE DecWrite(b)
    <2>1. threads_running' = 0 /\ pc'[b] = "done"
      BY <1>0, <1>8 DEF DecWrite, Goto, Solo
    <2>2. Alive' = {}
      BY <1>4, <2>1 DEF Alive
    <2>3. QED
      BY <1>1, <1>5, <1>6, <1>7, <2>1, <2>2 DEF Solo, dispatcher
  <1>9. CASE UNCHANGED threads_running
    <2>1. threads_running' = 1
      BY <1>3, <1>9
    <2>2. \A c, d \in Alive' : c = d
      BY <1>4
    <2>3. QED
      BY <1>1, <1>5, <1>6, <1>7, <2>1, <2>2 DEF Solo, dispatcher
  <1>10. QED
    BY <1>8, <1>9, WorkerFrame

\* With one thread the invariant holds in every state of every plot.
LEMMA SoloCorrect == Spec => []SoloInv
  <1>1. TypeInv /\ SoloInv /\ [Next]_vars => SoloInv'
    <2>1. TypeInv /\ SoloInv /\ UNCHANGED vars => SoloInv'
      BY DEF SoloInv, Solo, Alive, vars
    <2>2. QED
      BY <2>1, DispatcherSolo, WorkerSolo DEF Next
  <1>2. QED
    BY InitSolo, <1>1, TypeInvariant, PTL DEF Spec

\* vlbi_max_threads(1) serialises the plot although nothing protects the
\* counter: the next thread is created only when the previous one is over.
THEOREM Serialised == Spec => []OneThread
  <1>1. SoloInv => OneThread
    BY DEF SoloInv, Solo, OneThread
  <1>2. QED
    BY <1>1, SoloCorrect, PTL

\* With one thread every term is divided by 1, never by 0.
THEOREM UnitDivisor == Spec => []UnitStack
  <1>1. SoloInv => UnitStack
    BY DEF SoloInv, Solo, UnitStack
  <1>2. QED
    BY <1>1, SoloCorrect, PTL

-------------------------------------------------------------------------------
(* The locations.  setLocation moves the nodes of the whole context, the     *)
(* first x[b] of them so far.                                                *)

Set(b, n) == StreamLen[n] > LocationIndex(b) => location[n] = LocationIndex(b)

OwnInv ==
  MaxThreads = 1 =>
    \A b \in Baselines : \A n \in Nodes :
      \/ pc[b] = "locate" /\ n < x[b]
      \/ pc[b] = "project"
      => Set(b, n)

\* A thread that runs alone projects from the locations it has just set.
LEMMA WorkerOwn ==
  ASSUME TypeInv, SoloInv, OwnInv, NEW b \in Baselines, Worker(b)
  PROVE  OwnInv'
  <1> SUFFICES ASSUME MaxThreads = 1,
                      NEW c \in Baselines, NEW n \in Nodes,
                      \/ pc'[c] = "locate" /\ n < x'[c]
                      \/ pc'[c] = "project"
               PROVE  Set(c, n)'
    BY DEF OwnInv
  <1>0. /\ pc \in [Baselines -> Places] /\ x \in [Baselines -> Nodes]
        /\ location \in [Nodes -> Nat] /\ NodeCount \in Nat \ {0}
        /\ \A m \in Nodes : m \in Int /\ 0 <= m /\ m < NodeCount
    <2>1. /\ NodeCount \in Nat \ {0}
          /\ \A m \in Nodes : m \in Int /\ 0 <= m /\ m < NodeCount
      BY PlotAssumption DEF Nodes
    <2>2. QED
      BY <2>1 DEF TypeInv, TypeOK
  <1>1. c = b
    <2>1. b \in Alive
      BY WorkerFrame DEF Alive
    <2>2. PICK p \in Places \ {"absent", "started"} :
            pc' = [pc EXCEPT ![b] = p]
      BY WorkerFrame
    <2>3. c # b => c \in Alive
      BY <1>0, <2>2 DEF Alive
    <2>4. QED
      BY <2>1, <2>3 DEF SoloInv, Solo
  <1>2. CASE Locate(b)
    <2>1. UNCHANGED l
      BY <1>2 DEF Locate, loopvars
    <2>2. n <= x[b]
      BY <1>0, <1>1, <1>2 DEF Locate, Goto
    <2>3. location' = [location EXCEPT ![x[b]] = MovedTo(x[b], LocationIndex(b))]
      BY <1>2 DEF Locate
    <2>4. CASE n = x[b]
      BY <1>0, <1>1, <2>1, <2>3, <2>4 DEF Set, MovedTo, LocationIndex
    <2>5. CASE n < x[b]
      <3>1. Set(b, n)
        BY <1>2, <2>5 DEF OwnInv, Locate, Goto
      <3>2. location'[n] = location[n]
        BY <1>0, <2>3, <2>5
      <3>3. QED
        BY <1>1, <2>1, <3>1, <3>2 DEF Set, LocationIndex
    <2>6. QED
      BY <1>0, <2>2, <2>4, <2>5
  <1>3. CASE Enter(b)
    BY <1>0, <1>1, <1>3 DEF Enter, Goto
  <1>4. CASE ~Locate(b) /\ ~Enter(b)
    <2>1. pc'[b] \notin {"locate", "project"}
      BY <1>0, <1>4 DEF Worker, Begin, Leave, Skip, Drop, Project, Lock,
         ReadPixel, WritePixel, Unlock, DecRead, DecWrite, Goto
    <2>2. QED
      BY <1>1, <2>1
  <1>5. QED
    BY <1>2, <1>3, <1>4

\* With one thread a baseline is projected from the locations that its own
\* thread gave to the nodes, although the nodes are shared by all of them.
THEOREM ProjectedWhereSet == Spec => []OwnLocations
  <1>1. Init => OwnInv
    BY DEF Init, OwnInv
  <1>2. TypeInv /\ SoloInv /\ OwnInv /\ [Next]_vars => OwnInv'
    <2> SUFFICES ASSUME TypeInv, SoloInv, OwnInv, [Next]_vars
                 PROVE  OwnInv'
      OBVIOUS
    <2>1. CASE StartPlot
      BY <2>1 DEF StartPlot, OwnInv
    <2>2. CASE Interrupt \/ Dispatch
      <3>1. UNCHANGED <<x, l, location>>
        BY <2>2 DEF Interrupt, Dispatch, Spin, IncRead, IncWrite, Create,
           Join, Save, loopvars
      <3>2. \A b \in Baselines : pc'[b] = pc[b] \/ pc'[b] = "started"
        BY <2>2 DEF Interrupt, Dispatch, Spin, IncRead, IncWrite, Create,
           Join, Save, TypeInv, TypeOK
      <3>3. QED
        BY <3>1, <3>2 DEF OwnInv, Set, LocationIndex
    <2>3. CASE \E b \in Baselines : Worker(b)
      BY <2>3, WorkerOwn
    <2>4. CASE UNCHANGED vars
      BY <2>4 DEF OwnInv, Set, LocationIndex, vars
    <2>5. QED
      BY <2>1, <2>2, <2>3, <2>4 DEF Next
  <1>3. OwnInv => OwnLocations
    BY PlotAssumption DEF OwnInv, OwnLocations, Set
  <1>4. QED
    BY <1>1, <1>2, <1>3, TypeInvariant, SoloCorrect, PTL DEF Spec

-------------------------------------------------------------------------------
(* The order in which the threads are created is that of the baselines.      *)

Creating == {"spin", "incread", "incwrite", "create"}

CreatedInv ==
  main \in Creating => \A b \in Baselines : pc[b] = "absent" <=> b >= bi

\* The dispatcher creates one thread after the other.
LEMMA DispatcherCreated ==
  TypeInv /\ CreatedInv /\ (StartPlot \/ Interrupt \/ Dispatch) => CreatedInv'
  <1> SUFFICES ASSUME TypeInv, CreatedInv, StartPlot \/ Interrupt \/ Dispatch,
                      main' \in Creating, NEW b \in Baselines
               PROVE  pc'[b] = "absent" <=> b >= bi'
    BY DEF CreatedInv
  <1>0. /\ BaselineCount \in Nat \ {0} /\ bi \in Baselines /\ bi \in Int
        /\ b \in Int /\ 0 <= b /\ pc \in [Baselines -> Places]
    BY PlotAssumption DEF TypeInv, TypeOK, Baselines
  <1> USE DEF CreatedInv, Creating
  <1>1. CASE StartPlot
    BY <1>0, <1>1 DEF StartPlot
  <1>2. CASE Interrupt
    BY <1>2 DEF Interrupt, dispatcher
  <1>3. CASE Spin \/ IncRead \/ IncWrite
    BY <1>3 DEF Spin, IncRead, IncWrite
  <1>4. CASE Create
    <2>1. bi' = bi + 1 /\ (pc[b] = "absent" <=> b >= bi)
      BY <1>4 DEF Create, NextBaseline
    <2>2. pc'[b] = IF b = bi THEN "started" ELSE pc[b]
      BY <1>0, <1>4 DEF Create
    <2> QED BY <1>0, <2>1, <2>2
  <1>5. CASE Join \/ Save
    BY <1>5 DEF Join, Save, NextBaseline
  <1> QED BY <1>1, <1>2, <1>3, <1>4, <1>5 DEF Dispatch

\* With as many threads as there are, each was created in its turn.
LEMMA CreatedCorrect == Spec => []CreatedInv
  <1>1. Init => CreatedInv
    BY DEF Init, CreatedInv, Creating
  <1>2. ASSUME TypeInv, CreatedInv, NEW b \in Baselines, Worker(b)
        PROVE  CreatedInv'
    <2>1. UNCHANGED dispatcher /\ pc \in [Baselines -> Places]
      BY <1>2, WorkerFrame DEF TypeInv, TypeOK
    <2>2. PICK p \in Places \ {"absent", "started"} : pc' = [pc EXCEPT ![b] = p]
      BY <1>2, WorkerFrame
    <2>3. pc[b] # "absent"
      BY <1>2, WorkerFrame
    <2>4. \A c \in Baselines : pc'[c] = "absent" <=> pc[c] = "absent"
      BY <2>1, <2>2, <2>3
    <2> QED BY <1>2, <2>1, <2>4 DEF CreatedInv, dispatcher
  <1>3. CreatedInv /\ UNCHANGED vars => CreatedInv'
    BY DEF CreatedInv, vars
  <1>4. TypeInv /\ CreatedInv /\ [Next]_vars => CreatedInv'
    BY <1>2, <1>3, DispatcherCreated DEF Next
  <1> QED BY <1>1, <1>4, TypeInvariant, PTL DEF Spec

-------------------------------------------------------------------------------
(* The stride.  Between two samples that a thread plots, t runs through the  *)
(* triangular numbers of l - e.                                              *)

Looking == {"loop", "locate", "project", "lock", "read", "write"}

\* The sample that b plotted last is the one at time u.
IsLast(b, u) ==
  /\ \A w \in written : w[1] = b => w[2] <= u
  /\ \/ <<b, u>> \in written
     \/ u = 0 /\ \A w \in written : w[1] # b

Triangle(b, u) == 2 * (t[b] - u) = (l[b] - e[b]) * (l[b] - e[b] + 1)

\* What the invariant says of one thread.
Striding(b) ==
  /\ pc[b] \in {"absent", "started"} => \A w \in written : w[1] # b
  /\ pc[b] \in Looking => \E u \in Nat : u <= t[b] /\ IsLast(b, u) /\ Triangle(b, u)
  /\ pc[b] = "unlock" => IsLast(b, t[b])

StridingInv == mutex_initialized => \A b \in Baselines : Striding(b)

\* LastPlotted is the last sample when there is one, whatever CHOOSE takes.
LEMMA LastPlottedIs ==
  ASSUME TypeInv, NEW b \in Baselines, NEW u \in Nat, IsLast(b, u)
  PROVE  LastPlotted(b) = u
  <1> DEFINE mine == {w \in written : w[1] = b}
             Latest(w) == \A v \in mine : v[2] <= w[2]
  <1>0. \A w \in mine : w[2] \in Nat /\ w[2] <= u
    <2>1. written \subseteq Baselines \X Nat
      BY DEF TypeInv, TypeOK
    <2> QED BY <2>1 DEF IsLast
  <1>1. CASE mine = {}
    <2>1. <<b, u>> \notin written
      BY <1>1
    <2>2. u = 0
      BY <2>1 DEF IsLast
    <2> QED BY <1>1, <2>2 DEF LastPlotted
  <1>2. CASE mine # {}
    <2>1. PICK w \in mine : TRUE
      BY <1>2
    <2>2. w[1] = b /\ w \in written
      BY <2>1
    <2>3. <<b, u>> \in mine /\ <<b, u>>[2] = u
      BY <2>2 DEF IsLast
    <2>4. Latest(<<b, u>>)
      BY <1>0
    <2> DEFINE last == CHOOSE v \in mine : Latest(v)
    <2>5. last \in mine /\ Latest(last)
      BY <2>3, <2>4
    <2>6. LastPlotted(b) = last[2]
      BY <1>2 DEF LastPlotted
    <2> HIDE DEF last, mine
    <2>7. u <= last[2] /\ last[2] <= u /\ last[2] \in Nat
      BY <1>0, <2>3, <2>5
    <2> QED BY <2>6, <2>7
  <1> QED BY <1>1, <1>2

\* A thread that neither moves nor plots keeps its stride.
LEMMA StridingKept ==
  ASSUME NEW b \in Baselines, Striding(b),
         t'[b] = t[b], l'[b] = l[b], e'[b] = e[b],
         \/ pc'[b] = pc[b]
         \/ pc[b] \in Looking /\ pc'[b] \in Looking \cup {"decread"}
         \/ pc'[b] \in {"decread", "decwrite", "done"},
         written \subseteq written',
         \A w \in written' : w[1] = b => w \in written
  PROVE  Striding(b)'
  <1>1. \A u : IsLast(b, u) => IsLast(b, u)'
    BY DEF IsLast
  <1>2. \A u : Triangle(b, u) => Triangle(b, u)'
    BY DEF Triangle
  <1>3. ASSUME pc'[b] \in Looking
        PROVE  \E u \in Nat : u <= t'[b] /\ IsLast(b, u)' /\ Triangle(b, u)'
    <2>1. pc[b] \in Looking
      BY <1>3 DEF Looking
    <2>2. PICK u \in Nat : u <= t[b] /\ IsLast(b, u) /\ Triangle(b, u)
      BY <2>1 DEF Striding
    <2> QED BY <1>1, <1>2, <2>2
  <1>4. pc'[b] = "unlock" => IsLast(b, t[b])'
    BY <1>1 DEF Striding, Looking
  <1>5. pc'[b] \in {"absent", "started"} => \A w \in written' : w[1] # b
    BY DEF Striding, Looking
  <1> QED BY <1>3, <1>4, <1>5 DEF Striding

\* From one triangular number to the next.
LEMMA TriangleGrows ==
  \A d \in Nat : (d + 1) * (d + 1 + 1) = d * (d + 1) + 2 * (d + 1)
  OBVIOUS

\* The next iteration after one that plotted nothing: the stride is one longer.
LEMMA SkipStride ==
  ASSUME TypeInv, NEW b \in Baselines, Striding(b), Skip(b)
  PROVE  Striding(b)'
  <1>0. /\ t \in [Baselines -> Nat] /\ l \in [Baselines -> Nat]
        /\ e \in [Baselines -> Nat] /\ e[b] <= l[b] /\ pc \in [Baselines -> Places]
    BY DEF TypeInv, TypeOK, StrideInv
  <1>1. pc[b] = "project" /\ pc'[b] = "loop" /\ UNCHANGED written
    BY <1>0 DEF Skip, Goto
  <1>2. PICK u \in Nat : u <= t[b] /\ IsLast(b, u) /\ Triangle(b, u)
    BY <1>1 DEF Striding, Looking
  <1> DEFINE d == l[b] - e[b]
  <1>3. /\ t'[b] = t[b] + (l[b] + 1 - e[b])
        /\ l'[b] = l[b] + 1 /\ e'[b] = e[b]
    BY <1>0 DEF Skip, Advance
  <1>4. l'[b] - e'[b] = d + 1 /\ t'[b] = t[b] + (d + 1) /\ d \in Nat
    BY <1>0, <1>3
  <1>5. 2 * (t[b] - u) = d * (d + 1)
    BY <1>2 DEF Triangle
  <1>6. t[b] \in Nat
    BY <1>0
  <1> HIDE DEF d
  <1>7. (d + 1) * (d + 1 + 1) = d * (d + 1) + 2 * (d + 1)
    BY <1>4, TriangleGrows
  <1>8. 2 * (t'[b] - u) = 2 * (t[b] - u) + 2 * (d + 1) /\ u <= t'[b]
    BY <1>2, <1>4, <1>6
  <1>9. Triangle(b, u)'
    BY <1>4, <1>5, <1>7, <1>8 DEF Triangle
  <1>10. IsLast(b, u)'
    BY <1>1, <1>2 DEF IsLast
  <1> QED BY <1>1, <1>8, <1>9, <1>10 DEF Striding, Looking

\* The next iteration after one that plotted: one sample further.
LEMMA UnlockStride ==
  ASSUME TypeInv, NEW b \in Baselines, Striding(b), Unlock(b)
  PROVE  Striding(b)'
  <1>0. /\ t \in [Baselines -> Nat] /\ l \in [Baselines -> Nat]
        /\ e \in [Baselines -> Nat] /\ pc \in [Baselines -> Places]
    BY DEF TypeInv, TypeOK
  <1>1. pc[b] = "unlock" /\ pc'[b] = "loop" /\ UNCHANGED written
    BY <1>0 DEF Unlock, Goto
  <1>2. t'[b] = t[b] + (l[b] + 1 - l[b]) /\ l'[b] = l[b] + 1 /\ e'[b] = l[b]
    BY <1>0 DEF Unlock, Advance
  <1>3. t[b] \in Nat /\ l[b] \in Nat
    BY <1>0
  <1>4. t'[b] = t[b] + 1 /\ l'[b] - e'[b] = 1
    BY <1>2, <1>3
  <1>5. PICK u \in Nat : u = t[b]
    BY <1>3
  <1>6. 2 * (t'[b] - u) = (l'[b] - e'[b]) * (l'[b] - e'[b] + 1)
    BY <1>4, <1>5
  <1>7. IsLast(b, u)'
    BY <1>1, <1>5 DEF Striding, IsLast
  <1>8. u <= t'[b] /\ Triangle(b, u)'
    BY <1>4, <1>5, <1>6 DEF Triangle
  <1> QED BY <1>1, <1>7, <1>8 DEF Striding, Looking

\* Only the thread that moves changes its time, its stride and its samples.
LEMMA WorkerStriding ==
  ASSUME TypeInv, StridingInv, NEW b \in Baselines, Worker(b)
  PROVE  StridingInv'
  <1> SUFFICES ASSUME mutex_initialized', NEW c \in Baselines
               PROVE  Striding(c)'
    BY DEF StridingInv
  <1>0. /\ pc \in [Baselines -> Places] /\ t \in [Baselines -> Nat]
        /\ l \in [Baselines -> Nat] /\ e \in [Baselines -> Nat]
    BY DEF TypeInv, TypeOK
  <1>1. mutex_initialized /\ Striding(b) /\ Striding(c)
    <2>1. UNCHANGED mutex_initialized
      BY DEF Worker, Begin, Leave, Enter, Locate, Skip, Drop, Project, Lock,
         ReadPixel, WritePixel, Unlock, DecRead, DecWrite
    <2> QED BY <2>1 DEF StridingInv
  <1> USE DEF Goto, Looking
  <1>2. CASE c # b
    <2>1. pc'[c] = pc[c] /\ t'[c] = t[c] /\ l'[c] = l[c] /\ e'[c] = e[c]
      BY <1>0, <1>2 DEF Worker, Begin, Leave, Enter, Locate, Skip, Drop,
         Project, Lock, ReadPixel, WritePixel, Unlock, DecRead, DecWrite,
         Advance, loopvars
    <2>2. written' = written \/ written' = written \cup {<<b, t[b]>>}
      BY DEF Worker, Begin, Leave, Enter, Locate, Skip, Drop, Project, Lock,
         ReadPixel, WritePixel, Unlock, DecRead, DecWrite
    <2>3. /\ written \subseteq written'
          /\ \A w \in written' : w[1] = c => w \in written
      BY <1>2, <2>2
    <2> QED BY <1>1, <2>1, <2>3, StridingKept
  <1>3. CASE c = b /\ Begin(b)
    <2>1. /\ pc[b] = "started" /\ pc'[b] = "loop" /\ UNCHANGED written
          /\ t'[b] = 0 /\ l'[b] = 0 /\ e'[b] = 0
      BY <1>0, <1>3 DEF Begin
    <2>2. IsLast(b, 0)'
      BY <1>1, <2>1 DEF Striding, IsLast
    <2>3. Triangle(b, 0)' /\ 0 <= t'[b]
      BY <2>1 DEF Triangle
    <2> QED BY <1>3, <2>1, <2>2, <2>3 DEF Striding
  <1>4. CASE c = b /\ (Leave(b) \/ Enter(b) \/ Locate(b) \/ Project(b)
                        \/ Lock(b) \/ ReadPixel(b) \/ DecRead(b) \/ DecWrite(b))
    <2>1. UNCHANGED <<written, t, l, e>>
      BY <1>4 DEF Leave, Enter, Locate, Project, Lock, ReadPixel, DecRead,
         DecWrite, loopvars
    <2>2. \/ pc'[b] = pc[b]
          \/ pc[b] \in Looking /\ pc'[b] \in Looking \cup {"decread"}
          \/ pc'[b] \in {"decread", "decwrite", "done"}
      BY <1>0, <1>4 DEF Leave, Enter, Locate, Project, Lock, ReadPixel,
         DecRead, DecWrite
    <2> QED BY <1>1, <1>4, <2>1, <2>2, StridingKept
  <1>5. CASE c = b /\ Skip(b)
    BY <1>1, <1>5, SkipStride
  <1>6. CASE c = b /\ WritePixel(b)
    <2>1. /\ pc[b] = "write" /\ pc'[b] = "unlock" /\ UNCHANGED t
          /\ written' = written \cup {<<b, t[b]>>}
      BY <1>0, <1>6 DEF WritePixel, loopvars
    <2>2. PICK u \in Nat : u <= t[b] /\ IsLast(b, u)
      BY <1>1, <2>1 DEF Striding
    <2>3. t[b] \in Nat /\ written \subseteq Baselines \X Nat
      BY <1>0 DEF TypeInv, TypeOK
    <2>4. \A w \in written' : w[1] = b => w[2] <= t[b]
      BY <2>1, <2>2, <2>3 DEF IsLast
    <2>5. IsLast(b, t[b])'
      BY <2>1, <2>4 DEF IsLast
    <2> QED BY <1>6, <2>1, <2>5 DEF Striding
  <1>7. CASE c = b /\ Unlock(b)
    BY <1>1, <1>7, UnlockStride
  <1>8. CASE Drop(b)
    BY <1>1, <1>8 DEF Drop
  <1> QED BY <1>2, <1>3, <1>4, <1>5, <1>6, <1>7, <1>8 DEF Worker

\* Creating a thread leaves it without a sample.
LEMMA DispatcherStriding ==
  TypeInv /\ CreatedInv /\ StridingInv /\ (StartPlot \/ Interrupt \/ Dispatch)
    => StridingInv'
  <1> SUFFICES ASSUME TypeInv, CreatedInv, StridingInv, StartPlot \/ Interrupt \/ Dispatch,
                      mutex_initialized', NEW b \in Baselines
               PROVE  Striding(b)'
    BY DEF StridingInv
  <1>0. mutex_initialized
    BY DEF StartPlot, Interrupt, Dispatch, Spin, IncRead, IncWrite, Create,
       Join, Save
  <1>1. CASE StartPlot
    BY <1>1 DEF StartPlot, Striding, Looking
  <1>2. CASE Create /\ b = bi
    <2>1. pc'[b] = "started" /\ UNCHANGED written
      BY <1>2 DEF Create, TypeInv, TypeOK
    <2>2. pc[b] = "absent"
      BY <1>2, PlotAssumption DEF Create, CreatedInv, Creating, Baselines
    <2> QED BY <1>0, <2>1, <2>2 DEF StridingInv, Striding, Looking
  <1>3. CASE Interrupt \/ (Dispatch /\ ~(Create /\ b = bi))
    <2>1. pc'[b] = pc[b] /\ UNCHANGED <<t, l, e, written>>
      BY <1>3 DEF Interrupt, Dispatch, Spin, IncRead, IncWrite, Create, Join,
         Save, TypeInv, TypeOK, loopvars
    <2> QED BY <1>0, <2>1, StridingKept DEF StridingInv
  <1> QED BY <1>1, <1>2, <1>3

\* The invariant of the stride holds in every state of every plot.
LEMMA StridingCorrect == Spec => []StridingInv
  <1>1. Init => StridingInv
    BY DEF Init, StridingInv, Striding, Looking
  <1>2. StridingInv /\ UNCHANGED vars => StridingInv'
    BY DEF StridingInv, Striding, IsLast, Triangle, vars
  <1>3. TypeInv /\ CreatedInv /\ StridingInv /\ [Next]_vars => StridingInv'
    BY <1>2, DispatcherStriding, WorkerStriding DEF Next
  <1> QED BY <1>1, <1>3, TypeInvariant, CreatedCorrect, PTL DEF Spec

\* After the sample it plotted last a thread looks at the samples 1, 3, 6, 10 ...
\* further on and at no other, whatever the geometry makes it skip.
THEOREM StrideGrows == Spec => []GrowingStride
  <1>1. TypeInv /\ StridingInv => GrowingStride
    <2> SUFFICES ASSUME TypeInv, mutex_initialized, NEW b \in Baselines,
                        Striding(b), pc[b] \in Looking
                 PROVE  Triangle(b, LastPlotted(b))
      BY DEF StridingInv, GrowingStride, Triangle, Looking
    <2>1. PICK u \in Nat : IsLast(b, u) /\ Triangle(b, u)
      BY DEF Striding
    <2> QED BY <2>1, LastPlottedIs
  <1> QED BY <1>1, TypeInvariant, StridingCorrect, PTL

-------------------------------------------------------------------------------
(* The past.  What a thread has plotted lies before the time it looks at, so *)
(* that every sample it adds is later.                                       *)

Past(b) ==
  \A w \in written : w[1] = b =>
    /\ pc[b] \notin {"absent", "started"}
    /\ pc[b] \in Looking => w[2] < t[b]
    /\ pc[b] = "unlock" => w[2] <= t[b]

PastInv == \A b \in Baselines : Past(b)

\* Time only goes on.
LEMMA AdvanceLater ==
  ASSUME TypeInv, NEW b \in Baselines, NEW newe \in Nat, newe <= l[b],
         Advance(b, newe)
  PROVE  /\ t[b] \in Nat /\ t'[b] \in Nat /\ t[b] < t'[b]
         /\ \A c \in Baselines : c # b => t'[c] = t[c]
  <1>1. t \in [Baselines -> Nat] /\ l \in [Baselines -> Nat]
    BY DEF TypeInv, TypeOK
  <1>2. t' = [t EXCEPT ![b] = @ + (l[b] + 1 - newe)]
    BY DEF Advance
  <1> QED BY <1>1, <1>2

\* Only the thread that moves changes its time and its past.
LEMMA WorkerPast ==
  ASSUME TypeInv, PastInv, NEW b \in Baselines, Worker(b)
  PROVE  PastInv'
  <1> SUFFICES ASSUME NEW c \in Baselines
               PROVE  Past(c)'
    BY DEF PastInv
  <1>0. /\ pc \in [Baselines -> Places] /\ t \in [Baselines -> Nat]
        /\ e[b] \in Nat /\ l[b] \in Nat /\ e[b] <= l[b]
        /\ written \subseteq Baselines \X Nat
    BY DEF TypeInv, TypeOK, StrideInv
  <1>1. Past(b) /\ Past(c)
    BY DEF PastInv
  <1> USE DEF Goto, Looking, Past
  <1>2. CASE c # b
    <2>1. pc'[c] = pc[c]
      BY <1>0, <1>2, WorkerFrame
    <2>2. t'[c] = t[c]
      BY <1>0, <1>2 DEF Worker, Begin, Leave, Enter, Locate, Skip, Drop,
         Project, Lock, ReadPixel, WritePixel, Unlock, DecRead, DecWrite,
         Advance, loopvars
    <2>3. written' = written \/ written' = written \cup {<<b, t[b]>>}
      BY DEF Worker, Begin, Leave, Enter, Locate, Skip, Drop, Project, Lock,
         ReadPixel, WritePixel, Unlock, DecRead, DecWrite
    <2> QED BY <1>1, <1>2, <2>1, <2>2, <2>3
  <1>3. CASE c = b /\ Begin(b)
    BY <1>0, <1>1, <1>3 DEF Begin
  <1>4. CASE c = b /\ (Leave(b) \/ Enter(b) \/ Locate(b) \/ Project(b)
                        \/ Lock(b) \/ ReadPixel(b) \/ DecRead(b) \/ DecWrite(b))
    <2>1. UNCHANGED <<written, t>>
      BY <1>4 DEF Leave, Enter, Locate, Project, Lock, ReadPixel, DecRead,
         DecWrite, loopvars
    <2>2. /\ pc'[b] \notin {"absent", "started", "unlock"}
          /\ pc'[b] \in Looking => pc[b] \in Looking
      BY <1>0, <1>4 DEF Leave, Enter, Locate, Project, Lock, ReadPixel,
         DecRead, DecWrite
    <2> QED BY <1>1, <1>4, <2>1, <2>2
  <1>5. CASE c = b /\ (Skip(b) \/ Drop(b) \/ Unlock(b))
    <2>1. /\ UNCHANGED written /\ pc'[b] = "loop"
          /\ pc[b] \in {"project", "unlock"}
      BY <1>0, <1>5 DEF Skip, Drop, Unlock
    <2>2. \E newe \in Nat : newe <= l[b] /\ Advance(b, newe)
      BY <1>0, <1>5 DEF Skip, Drop, Unlock
    <2>3. t[b] \in Nat /\ t'[b] \in Nat /\ t[b] < t'[b]
      BY <2>2, AdvanceLater
    <2> QED BY <1>0, <1>1, <1>5, <2>1, <2>3
  <1>6. CASE c = b /\ WritePixel(b)
    <2>1. /\ pc[b] = "write" /\ pc'[b] = "unlock" /\ UNCHANGED t
          /\ written' = written \cup {<<b, t[b]>>}
      BY <1>0, <1>6 DEF WritePixel, loopvars
    <2>2. t[b] \in Nat
      BY <1>0
    <2> QED BY <1>0, <1>1, <1>6, <2>1, <2>2
  <1> QED BY <1>2, <1>3, <1>4, <1>5, <1>6 DEF Worker

\* The dispatcher creates threads without a past, and a plot starts without one.
LEMMA DispatcherPast ==
  TypeInv /\ CreatedInv /\ PastInv /\ (StartPlot \/ Interrupt \/ Dispatch)
    => PastInv'
  <1> SUFFICES ASSUME TypeInv, CreatedInv, PastInv,
                      StartPlot \/ Interrupt \/ Dispatch, NEW b \in Baselines
               PROVE  Past(b)'
    BY DEF PastInv
  <1>0. Past(b)
    BY DEF PastInv
  <1>1. CASE StartPlot
    BY <1>1 DEF StartPlot, Past
  <1>2. CASE Create /\ b = bi
    <2>1. UNCHANGED written
      BY <1>2 DEF Create
    <2>2. pc[b] = "absent"
      BY <1>2, PlotAssumption DEF Create, CreatedInv, Creating, Baselines
    <2> QED BY <1>0, <2>1, <2>2 DEF Past
  <1>3. CASE Interrupt \/ (Dispatch /\ ~(Create /\ b = bi))
    <2>1. pc'[b] = pc[b] /\ UNCHANGED <<t, written>>
      BY <1>3 DEF Interrupt, Dispatch, Spin, IncRead, IncWrite, Create, Join,
         Save, TypeInv, TypeOK, loopvars
    <2> QED BY <1>0, <2>1 DEF Past
  <1> QED BY <1>1, <1>2, <1>3

\* What was plotted is always in the past of its thread.
LEMMA PastCorrect == Spec => []PastInv
  <1>1. Init => PastInv
    BY DEF Init, PastInv, Past
  <1>2. PastInv /\ UNCHANGED vars => PastInv'
    BY DEF PastInv, Past, vars
  <1>3. TypeInv /\ CreatedInv /\ PastInv /\ [Next]_vars => PastInv'
    BY <1>2, DispatcherPast, WorkerPast DEF Next
  <1> QED BY <1>1, <1>3, TypeInvariant, CreatedCorrect, PTL DEF Spec

\* Every term of the plane is a sample that its thread has plotted.
LEMMA TermPlotted ==
  ASSUME TypeInv, NoLostTerm, NEW c \in Cells, NEW j \in DOMAIN plane[c]
  PROVE  /\ plane[c][j] \in Term
         /\ <<plane[c][j].b, plane[c][j].t>> \in written
  <1>1. plane[c] \in Seq(Term)
    BY DEF TypeInv, TypeOK
  <1>2. plane[c][j] \in Term
    BY <1>1
  <1>3. <<plane[c][j].b, plane[c][j].t>> \in Plotted(plane)
    BY DEF Plotted
  <1> QED BY <1>2, <1>3 DEF NoLostTerm

-------------------------------------------------------------------------------
(* The order of the terms, with one thread at most: the one that runs is the *)
(* last that was created.                                                    *)

LastRuns ==
  MaxThreads = 1 =>
    \A b \in Alive : \A c \in Baselines : c > b => pc[c] = "absent"

OrderInv == LastRuns /\ SequentialOrder

\* The thread that is created finds all earlier ones over.
LEMMA DispatcherOrder ==
  TypeInv /\ SoloInv /\ CreatedInv /\ OrderInv
    /\ (StartPlot \/ Interrupt \/ Dispatch) => OrderInv'
  <1> SUFFICES ASSUME TypeInv, SoloInv, CreatedInv, OrderInv,
                      StartPlot \/ Interrupt \/ Dispatch
               PROVE  OrderInv'
    OBVIOUS
  <1>0. /\ bi \in Baselines /\ pc \in [Baselines -> Places]
        /\ \A b \in Baselines : b \in Int
    BY PlotAssumption DEF TypeInv, TypeOK, Baselines
  <1> USE DEF OrderInv, LastRuns, SequentialOrder
  <1>1. CASE StartPlot
    <2>1. /\ \A c \in Cells : DOMAIN plane'[c] = {}
          /\ \A b \in Baselines : pc'[b] = "absent"
      BY <1>1 DEF StartPlot, EmptyPlane
    <2> QED BY <2>1 DEF Alive
  <1>2. CASE Create
    <2>1. UNCHANGED plane /\ pc' = [pc EXCEPT ![bi] = "started"] /\ main = "create"
      BY <1>2 DEF Create
    <2>2. MaxThreads = 1 => Alive = {}
      BY <2>1 DEF SoloInv, Solo
    <2>3. MaxThreads = 1 => Alive' \subseteq {bi}
      BY <1>0, <2>1, <2>2 DEF Alive
    <2>4. \A c \in Baselines : c > bi => pc'[c] = "absent"
      BY <1>0, <2>1 DEF CreatedInv, Creating
    <2>5. LastRuns'
      BY <2>3, <2>4
    <2> QED BY <2>1, <2>5
  <1>3. CASE Interrupt \/ Spin \/ IncRead \/ IncWrite \/ Join \/ Save
    <2>1. UNCHANGED <<plane, pc>>
      BY <1>3 DEF Interrupt, Spin, IncRead, IncWrite, Join, Save
    <2> QED BY <2>1 DEF Alive
  <1> QED BY <1>1, <1>2, <1>3 DEF Dispatch

\* The term that is added is of the last thread and of its latest sample.
LEMMA WorkerOrder ==
  ASSUME TypeInv, SoloInv, PlaneInv, PastInv, OrderInv,
         NEW b \in Baselines, Worker(b)
  PROVE  OrderInv'
  <1>0. /\ pc \in [Baselines -> Places] /\ plane \in [Cells -> Seq(Term)]
        /\ oldidx \in [Baselines -> Cells] /\ t \in [Baselines -> Nat]
        /\ \A c \in Baselines : c \in Int
    <2>1. \A c \in Baselines : c \in Int
      BY PlotAssumption DEF Baselines
    <2> QED BY <2>1 DEF TypeInv, TypeOK
  <1>1. LastRuns'
    <2>1. PICK p \in Places \ {"absent", "started"} : pc' = [pc EXCEPT ![b] = p]
      BY WorkerFrame
    <2>2. pc[b] \notin {"absent", "done"}
      BY WorkerFrame
    <2>3. Alive' \subseteq Alive /\ \A c \in Baselines : pc[c] = "absent" => pc'[c] = "absent"
      BY <1>0, <2>1, <2>2 DEF Alive
    <2> QED BY <2>3 DEF OrderInv, LastRuns
  <1>2. SequentialOrder'
    <2>1. CASE ~WritePixel(b)
      <3>1. UNCHANGED plane
        BY <2>1 DEF Worker, Begin, Leave, Enter, Locate, Skip, Drop, Project,
           Lock, ReadPixel, Unlock, DecRead, DecWrite
      <3> QED BY <3>1 DEF OrderInv, SequentialOrder
    <2>2. CASE WritePixel(b) /\ MaxThreads = 1
      <3> DEFINE d == oldidx[b]
                 s == plane[d]
      <3>1. pc[b] = "write" /\ acc[b] = s
        BY <2>2 DEF WritePixel, Goto, PlaneInv, AccInv
      <3>2. d \in Cells /\ s \in Seq(Term) /\ Len(s) \in Nat
        BY <1>0
      <3>3. plane' = [plane EXCEPT ![d] = Append(s, TermOf(b))]
        BY <2>2, <3>1, Zenon DEF WritePixel
      <3>4. ASSUME NEW j \in DOMAIN s
            PROVE  s[j].b < b \/ (s[j].b = b /\ s[j].t < t[b])
        <4>1. s[j] \in Term /\ <<s[j].b, s[j].t>> \in written
          BY <3>2, TermPlotted DEF PlaneInv
        <4>2. s[j].b \in Baselines
          BY <4>1 DEF Term
        <4>3. Past(s[j].b)
          BY <4>2 DEF PastInv
        <4>4. pc[s[j].b] # "absent" /\ (s[j].b = b => s[j].t < t[b])
          BY <3>1, <4>1, <4>3 DEF Past, Looking
        <4>5. b \in Alive
          BY <3>1 DEF Alive
        <4>6. ~(s[j].b > b)
          BY <2>2, <4>2, <4>4, <4>5 DEF OrderInv, LastRuns
        <4> QED BY <1>0, <4>2, <4>4, <4>6
      <3>5. \A c \in Cells : c # d => plane'[c] = plane[c]
        BY <1>0, <3>3
      <3>6. plane'[d] = Append(s, TermOf(b))
        BY <1>0, <3>2, <3>3
      <3>7. TermOf(b).b = b /\ TermOf(b).t = t[b]
        BY DEF TermOf
      <3> HIDE DEF d, s
      <3>8. /\ DOMAIN s = 1 .. Len(s) /\ DOMAIN plane'[d] = 1 .. Len(s) + 1
            /\ \A j \in DOMAIN s : plane'[d][j] = s[j]
            /\ plane'[d][Len(s) + 1] = TermOf(b)
        BY <3>2, <3>6
      <3>9. ASSUME NEW j \in DOMAIN plane'[d], NEW k \in DOMAIN plane'[d], j < k
            PROVE  \/ plane'[d][j].b < plane'[d][k].b
                   \/ /\ plane'[d][j].b = plane'[d][k].b
                      /\ plane'[d][j].t < plane'[d][k].t
        <4>1. j \in DOMAIN s
          BY <3>2, <3>8, <3>9
        <4>2. CASE k \in DOMAIN s
          BY <2>2, <3>2, <3>8, <3>9, <4>1, <4>2 DEF OrderInv, SequentialOrder, s
        <4>3. CASE k = Len(s) + 1
          BY <3>4, <3>7, <3>8, <4>1, <4>3
        <4> QED BY <3>2, <3>8, <4>2, <4>3
      <3> QED BY <2>2, <3>5, <3>9 DEF OrderInv, SequentialOrder
    <2> QED BY <2>1, <2>2 DEF SequentialOrder
  <1> QED BY <1>1, <1>2 DEF OrderInv

\* With one thread the terms of every pixel are in the order of a sequential
\* loop over the baselines and their samples: the plot is reproducible.
THEOREM InSequence == Spec => []SequentialOrder
  <1>1. Init => OrderInv
    BY DEF Init, OrderInv, LastRuns, SequentialOrder, Alive, EmptyPlane
  <1>2. OrderInv /\ UNCHANGED vars => OrderInv'
    BY DEF OrderInv, LastRuns, SequentialOrder, Alive, vars
  <1>3. TypeInv /\ SoloInv /\ CreatedInv /\ PlaneInv /\ PastInv /\ OrderInv
          /\ [Next]_vars => OrderInv'
    BY <1>2, DispatcherOrder, WorkerOrder, Zenon DEF Next
  <1>4. OrderInv => SequentialOrder
    BY DEF OrderInv
  <1> QED
    BY <1>1, <1>3, <1>4, TypeInvariant, SoloCorrect, CreatedCorrect, PlaneCorrect,
       PastCorrect, PTL DEF Spec

-------------------------------------------------------------------------------
(* What a thread takes for its divisor.  A thread that is over has stored    *)
(* once what it had read and one less, so that the counter is below zero by  *)
(* at most the number of the threads that are over.                          *)

Ended == {b \in Baselines : pc[b] = "done"}
Lowest == -Cardinality(Ended)

DivisorInv ==
  /\ Lowest <= threads_running
  /\ main = "incwrite" => Lowest <= reg
  /\ \A b \in Baselines : pc[b] = "decwrite" => Lowest <= creg[b]
  /\ \A b \in Baselines : pc[b] \notin {"absent", "started"} =>
       stack[b] \in 1 - BaselineCount .. MaxThreads

\* The threads that are over can be counted.
LEMMA EndedFinite ==
  /\ IsFiniteSet(Baselines) /\ Cardinality(Baselines) = BaselineCount
  /\ IsFiniteSet(Ended) /\ Cardinality(Ended) \in Nat
  /\ IsFiniteSet(Ended') /\ Cardinality(Ended') \in Nat
  <1>1. 0 \in Int /\ BaselineCount - 1 \in Int /\ BaselineCount \in Nat \ {0}
    BY PlotAssumption
  <1>2. IsFiniteSet(0 .. BaselineCount - 1)
        /\ Cardinality(0 .. BaselineCount - 1) = BaselineCount
    BY <1>1, FS_Interval
  <1>3. IsFiniteSet(Baselines) /\ Cardinality(Baselines) = BaselineCount
    BY <1>2 DEF Baselines
  <1>4. Ended \subseteq Baselines /\ Ended' \subseteq Baselines
    BY DEF Ended
  <1>5. IsFiniteSet(Ended) /\ IsFiniteSet(Ended')
    BY <1>3, <1>4, FS_Subset
  <1> QED BY <1>3, <1>5, FS_CardinalityType

\* While a thread is not over, fewer than all are.
LEMMA LowestBound ==
  ASSUME NEW b \in Baselines, pc[b] # "done"
  PROVE  Lowest \in Int /\ 1 - BaselineCount <= Lowest
  <1>1. Ended \subseteq Baselines \ {b}
    BY DEF Ended
  <1>2. Cardinality(Baselines \ {b}) = BaselineCount - 1
    BY EndedFinite, FS_RemoveElement
  <1>3. IsFiniteSet(Baselines \ {b})
    BY EndedFinite, FS_RemoveElement
  <1>4. Cardinality(Ended) <= BaselineCount - 1
    BY <1>1, <1>2, <1>3, FS_Subset
  <1>5. Cardinality(Ended) \in Nat /\ BaselineCount \in Nat
    BY EndedFinite, PlotAssumption
  <1> QED BY <1>4, <1>5 DEF Lowest

\* The dispatcher only adds to the counter, and no thread is over when it clears it.
LEMMA DispatcherDivisor ==
  TypeInv /\ ThrottleInv /\ CreatedInv /\ DivisorInv
    /\ (StartPlot \/ Interrupt \/ Dispatch) => DivisorInv'
  <1> SUFFICES ASSUME TypeInv, ThrottleInv, CreatedInv, DivisorInv,
                      StartPlot \/ Interrupt \/ Dispatch
               PROVE  DivisorInv'
    OBVIOUS
  <1>0. /\ threads_running \in Int /\ reg \in Int /\ bi \in Baselines
        /\ pc \in [Baselines -> Places] /\ creg \in [Baselines -> Int]
    BY DEF TypeInv, TypeOK
  <1>1. Lowest \in Int /\ Lowest <= 0 /\ Lowest' \in Int
    BY EndedFinite DEF Lowest
  <1>2. CASE StartPlot
    <2>1. Ended' = {}
      BY <1>2 DEF StartPlot, Ended
    <2>2. Lowest' = 0
      BY <2>1, FS_EmptySet DEF Lowest
    <2> QED BY <1>2, <2>2 DEF StartPlot, DivisorInv
  <1>3. CASE Create
    <2>1. pc[bi] = "absent"
      <3>1. bi \in Int /\ main \in Creating
        BY <1>0, <1>3, PlotAssumption DEF Baselines, Create, Creating
      <3> QED BY <1>0, <3>1 DEF CreatedInv
    <2>2. pc' = [pc EXCEPT ![bi] = "started"]
      BY <1>3 DEF Create
    <2>3. Ended' = Ended
      BY <1>0, <2>1, <2>2 DEF Ended
    <2>4. main' \in {"spin", "join"} /\ UNCHANGED <<threads_running, creg, stack>>
      BY <1>3 DEF Create, NextBaseline
    <2>5. Lowest' = Lowest
      BY <2>3 DEF Lowest
    <2> QED BY <1>0, <2>2, <2>4, <2>5 DEF DivisorInv
  <1>4. CASE Interrupt \/ Spin \/ IncRead \/ IncWrite \/ Join \/ Save
    <2>1. UNCHANGED <<pc, creg, stack>>
      BY <1>4 DEF Interrupt, Spin, IncRead, IncWrite, Join, Save
    <2>2. Lowest' = Lowest
      BY <2>1 DEF Lowest, Ended
    <2>3. Lowest <= threads_running'
      BY <1>0, <1>1, <1>4 DEF Interrupt, Spin, IncRead, IncWrite, Join, Save, DivisorInv
    <2>4. main' = "incwrite" => Lowest <= reg'
      BY <1>0, <1>1, <1>4 DEF Interrupt, Spin, IncRead, IncWrite, Join, Save,
         NextBaseline, dispatcher, DivisorInv
    <2> QED BY <2>1, <2>2, <2>3, <2>4 DEF DivisorInv
  <1> QED BY <1>2, <1>3, <1>4 DEF Dispatch

\* A thread takes one from the counter when it ends, and a divisor when it begins.
LEMMA WorkerDivisor ==
  ASSUME TypeInv, ThrottleInv, DivisorInv, NEW b \in Baselines, Worker(b)
  PROVE  DivisorInv'
  <1>0. /\ threads_running \in Int /\ reg \in Int
        /\ pc \in [Baselines -> Places] /\ creg \in [Baselines -> Int]
        /\ stack \in [Baselines -> Int] /\ MaxThreads \in Nat /\ BaselineCount \in Nat
    BY PlotAssumption DEF TypeInv, TypeOK
  <1>1. PICK p \in Places \ {"absent", "started"} : pc' = [pc EXCEPT ![b] = p]
    BY WorkerFrame
  <1>2. pc[b] \notin {"absent", "done"} /\ UNCHANGED dispatcher
    BY WorkerFrame
  <1>3. Lowest \in Int /\ Lowest' \in Int /\ 1 - BaselineCount <= Lowest
    BY <1>2, EndedFinite, LowestBound DEF Lowest
  <1>4. IF p = "done" THEN Lowest' = Lowest - 1 ELSE Lowest' = Lowest
    <2>1. CASE p = "done"
      <3>1. Ended' = Ended \cup {b} /\ b \notin Ended
        BY <1>0, <1>1, <1>2, <2>1 DEF Ended
      <3>2. Cardinality(Ended') = Cardinality(Ended) + 1
        BY <3>1, EndedFinite, FS_AddElement
      <3> QED BY <2>1, <3>2, EndedFinite DEF Lowest
    <2>2. CASE p # "done"
      <3>1. Ended' = Ended
        BY <1>0, <1>1, <1>2, <2>2 DEF Ended
      <3> QED BY <2>2, <3>1 DEF Lowest
    <2> QED BY <2>1, <2>2
  <1>5. p = "done" <=> DecWrite(b)
    <2>1. pc'[b] = p
      BY <1>0, <1>1
    <2> QED BY <1>0, <2>1 DEF Worker, Begin, Leave, Enter, Locate, Skip, Drop,
           Project, Lock, ReadPixel, WritePixel, Unlock, DecRead, DecWrite, Goto
  <1>6. Lowest' <= threads_running'
    <2>1. CASE DecWrite(b)
      <3>1. threads_running' = creg[b] - 1 /\ Lowest <= creg[b] /\ creg[b] \in Int
        BY <1>0, <2>1 DEF DecWrite, Goto, DivisorInv
      <3> QED BY <1>3, <1>4, <1>5, <2>1, <3>1
    <2>2. CASE ~DecWrite(b)
      <3>1. UNCHANGED threads_running
        BY <2>2, WorkerFrame
      <3> QED BY <1>4, <1>5, <2>2, <3>1 DEF DivisorInv
    <2> QED BY <2>1, <2>2
  <1>7. main' = "incwrite" => Lowest' <= reg'
    BY <1>0, <1>2, <1>3, <1>4 DEF dispatcher, DivisorInv
  <1>8. \A c \in Baselines : pc'[c] = "decwrite" => Lowest' <= creg'[c]
    <2> TAKE c \in Baselines
    <2>1. CASE c = b
      <3>1. pc'[b] = "decwrite" => creg'[b] = threads_running /\ Lowest' = Lowest
        BY <1>0, <1>1, <1>4, WorkerFrame
      <3> QED BY <2>1, <3>1 DEF DivisorInv
    <2>2. CASE c # b
      <3>1. pc'[c] = pc[c] /\ creg'[c] = creg[c] /\ creg[c] \in Int
        BY <1>0, <1>1, <2>2, WorkerFrame
      <3>2. Lowest' <= Lowest
        BY <1>3, <1>4
      <3>3. pc[c] = "decwrite" => Lowest <= creg[c]
        BY DEF DivisorInv
      <3> QED BY <1>3, <3>1, <3>2, <3>3
    <2> QED BY <2>1, <2>2
  <1>9. \A c \in Baselines : pc'[c] \notin {"absent", "started"} =>
          stack'[c] \in 1 - BaselineCount .. MaxThreads
    <2>1. CASE Begin(b)
      <3>1. stack' = [stack EXCEPT ![b] = threads_running]
        BY <2>1 DEF Begin
      <3>2. threads_running \in 1 - BaselineCount .. MaxThreads
        BY <1>0, <1>3 DEF DivisorInv, ThrottleInv
      <3>3. pc[b] = "started" /\ \A c \in Baselines : c # b => pc'[c] = pc[c] /\ stack'[c] = stack[c]
        BY <1>0, <1>1, <2>1, <3>1 DEF Begin, Goto
      <3>4. stack'[b] = threads_running
        BY <1>0, <3>1
      <3> QED BY <3>2, <3>3, <3>4 DEF DivisorInv
    <2>2. CASE ~Begin(b)
      <3>1. UNCHANGED stack /\ pc[b] # "started"
        BY <2>2 DEF Worker, Leave, Enter, Locate, Skip, Drop, Project, Lock,
           ReadPixel, WritePixel, Unlock, DecRead, DecWrite, Goto
      <3> QED BY <1>0, <1>1, <1>2, <3>1 DEF DivisorInv
    <2> QED BY <2>1, <2>2
  <1> QED BY <1>6, <1>7, <1>8, <1>9 DEF DivisorInv

\* The divisors are within their bounds in every state of every plot.
LEMMA DivisorCorrect == Spec => []DivisorInv
  <1>1. Init => DivisorInv
    <2> SUFFICES ASSUME Init PROVE DivisorInv
      OBVIOUS
    <2>1. Ended = {}
      BY DEF Init, Ended
    <2>2. Lowest = 0
      BY <2>1, FS_EmptySet DEF Lowest
    <2> QED BY <2>2 DEF Init, DivisorInv
  <1>2. DivisorInv /\ UNCHANGED vars => DivisorInv'
    BY DEF DivisorInv, Lowest, Ended, vars
  <1>3. TypeInv /\ ThrottleInv /\ CreatedInv /\ DivisorInv /\ [Next]_vars => DivisorInv'
    BY <1>2, DispatcherDivisor, WorkerDivisor DEF Next
  <1> QED BY <1>1, <1>3, TypeInvariant, ThrottleCorrect, CreatedCorrect, PTL DEF Spec

-------------------------------------------------------------------------------
(* The service.  A thread looks at no sample past the end of its time, and    *)
(* between two calls no thread is at work.                                   *)

Within == {"locate", "project", "lock", "read", "write"}

WithinInv == \A b \in Baselines : pc[b] \in Within => t[b] < Samples[b]

QuietInv == main = "idle" => \A b \in Baselines : pc[b] \in {"absent", "done"}

\* The sample loop leaves when the time is over.
LEMMA WithinCorrect == Spec => []WithinInv
  <1>1. Init => WithinInv
    BY DEF Init, WithinInv, Within
  <1>2. ASSUME TypeInv, WithinInv, StartPlot \/ Interrupt \/ Dispatch
        PROVE  WithinInv'
    <2>1. \A b \in Baselines : pc'[b] \in Within => pc[b] \in Within
      BY <1>2 DEF StartPlot, Interrupt, Dispatch, Spin, IncRead, IncWrite, Create,
         Join, Save, Within, TypeInv, TypeOK
    <2>2. UNCHANGED t
      BY <1>2 DEF StartPlot, Interrupt, Dispatch, Spin, IncRead, IncWrite, Create,
         Join, Save, loopvars
    <2> QED BY <1>2, <2>1, <2>2 DEF WithinInv
  <1>3. ASSUME TypeInv, WithinInv, NEW b \in Baselines, Worker(b)
        PROVE  WithinInv'
    <2>0. pc \in [Baselines -> Places] /\ t \in [Baselines -> Nat]
      BY <1>3 DEF TypeInv, TypeOK
    <2> SUFFICES ASSUME NEW c \in Baselines, pc'[c] \in Within
                 PROVE  t'[c] < Samples[c]
      BY DEF WithinInv
    <2> USE DEF Goto, Within
    <2>1. CASE c # b
      <3>1. pc'[c] = pc[c]
        BY <1>3, <2>0, <2>1, WorkerFrame
      <3>2. t'[c] = t[c]
        BY <1>3, <2>0, <2>1 DEF Worker, Begin, Leave, Enter, Locate, Skip, Drop,
           Project, Lock, ReadPixel, WritePixel, Unlock, DecRead, DecWrite,
           Advance, loopvars
      <3> QED BY <1>3, <3>1, <3>2 DEF WithinInv
    <2>2. CASE c = b /\ (Enter(b) \/ Locate(b) \/ Project(b) \/ Lock(b) \/ ReadPixel(b))
      <3>1. UNCHANGED t
        BY <2>2 DEF Enter, Locate, Project, Lock, ReadPixel, loopvars
      <3>2. Enter(b) \/ pc[b] \in Within
        BY <2>2 DEF Locate, Project, Lock, ReadPixel
      <3> QED BY <1>3, <2>2, <3>1, <3>2 DEF WithinInv, Enter
    <2>3. CASE c = b /\ (Begin(b) \/ Leave(b) \/ Skip(b) \/ Drop(b) \/ WritePixel(b)
                          \/ Unlock(b) \/ DecRead(b) \/ DecWrite(b))
      BY <2>0, <2>3 DEF Begin, Leave, Skip, Drop, WritePixel, Unlock, DecRead, DecWrite
    <2> QED BY <1>3, <2>1, <2>2, <2>3 DEF Worker
  <1>4. WithinInv /\ UNCHANGED vars => WithinInv'
    BY DEF WithinInv, vars
  <1>5. TypeInv /\ WithinInv /\ [Next]_vars => WithinInv'
    BY <1>2, <1>3, <1>4 DEF Next
  <1> QED BY <1>1, <1>5, TypeInvariant, PTL DEF Spec

\* A call returns when all of its threads are over.
LEMMA QuietCorrect == Spec => []QuietInv
  <1>1. Init => QuietInv
    BY DEF Init, QuietInv
  <1>2. ASSUME TypeInv, JoinInv, QuietInv, StartPlot \/ Interrupt \/ Dispatch
        PROVE  QuietInv'
    <2>1. CASE Save
      BY <2>1, <1>2 DEF Save, JoinInv, QuietInv
    <2>2. CASE Interrupt
      BY <2>2, <1>2 DEF Interrupt, QuietInv, dispatcher
    <2>3. CASE StartPlot \/ (Dispatch /\ ~Save)
      <3>1. main' # "idle"
        BY <2>3 DEF StartPlot, Dispatch, Spin, IncRead, IncWrite, Create, Join,
           NextBaseline
      <3> QED BY <3>1 DEF QuietInv
    <2> QED BY <1>2, <2>1, <2>2, <2>3
  <1>3. ASSUME TypeInv, QuietInv, NEW b \in Baselines, Worker(b)
        PROVE  QuietInv'
    <2>1. UNCHANGED dispatcher /\ pc[b] \notin {"absent", "done"}
      BY <1>3, WorkerFrame
    <2> QED BY <1>3, <2>1 DEF QuietInv, dispatcher
  <1>4. QuietInv /\ UNCHANGED vars => QuietInv'
    BY DEF QuietInv, vars
  <1>5. TypeInv /\ JoinInv /\ QuietInv /\ [Next]_vars => QuietInv'
    BY <1>2, <1>3, <1>4 DEF Next
  <1> QED BY <1>1, <1>5, TypeInvariant, JoinCorrect, PTL DEF Spec

\* What the steps of the service are shown from.
ServiceInv ==
  /\ TypeInv /\ CreatedInv /\ PlaneInv /\ JoinInv /\ PastInv /\ DivisorInv
  /\ WithinInv /\ QuietInv

Todo == IF main = "idle" THEN {} ELSE {b \in Baselines : pc[b] # "done"}

\* What the caller sees of a step that is none of the service's.
LEMMA Unseen ==
  ASSUME UNCHANGED <<plane, result>>, (main' = "idle") = (main = "idle"),
         \A b \in Baselines : pc'[b] = "done" <=> pc[b] = "done"
  PROVE  UNCHANGED Service!vars
  <1>1. (main' # "idle") = (main # "idle")
    OBVIOUS
  <1>2. Todo' = Todo
    BY DEF Todo
  <1>3. UNCHANGED Todo
    BY <1>2
  <1> QED BY <1>1, <1>3 DEF Service!vars, Todo

\* The dispatcher calls the service, delivers, or does nothing that is seen.
LEMMA DispatcherService ==
  ASSUME ServiceInv, StartPlot \/ Interrupt \/ Dispatch
  PROVE  [Service!Next]_Service!vars
  <1>0. TypeInv /\ CreatedInv /\ JoinInv
    BY DEF ServiceInv
  <1>1. CASE StartPlot
    <2>1. /\ main = "idle" /\ main' # "idle" /\ plane' = EmptyPlane
          /\ result' = NoResult /\ pc' = [b \in Baselines |-> "absent"]
      BY <1>1 DEF StartPlot
    <2>2. Todo' = Baselines
      BY <2>1 DEF Todo
    <2>3. Service!Call
      BY <2>1, <2>2 DEF Service!Call, Service!EmptySum, EmptyPlane, Todo
    <2> QED BY <2>3 DEF Service!Next
  <1>2. CASE Save
    <2>1. /\ main = "save" /\ main' = "idle" /\ result' = plane
          /\ UNCHANGED <<plane, pc>>
      BY <1>2 DEF Save
    <2>2. Todo = {} /\ Todo' = {}
      BY <1>0, <2>1 DEF JoinInv, Todo
    <2>3. Service!Deliver
      BY <2>1, <2>2 DEF Service!Deliver, Todo
    <2> QED BY <2>3 DEF Service!Next
  <1>3. CASE Create
    <2>1. /\ UNCHANGED <<plane, result>> /\ main = "create" /\ main' # "idle"
          /\ pc' = [pc EXCEPT ![bi] = "started"]
      BY <1>3 DEF Create, NextBaseline
    <2>2. bi \in Baselines /\ pc \in [Baselines -> Places]
      BY <1>0 DEF TypeInv, TypeOK
    <2>3. bi >= bi
      BY <2>2, PlotAssumption DEF Baselines
    <2>4. pc[bi] = "absent"
      BY <1>0, <2>1, <2>2, <2>3 DEF CreatedInv, Creating
    <2>5. \A b \in Baselines : pc'[b] = "done" <=> pc[b] = "done"
      BY <2>1, <2>2, <2>4
    <2> QED BY <2>1, <2>5, Unseen
  <1>4. CASE Interrupt \/ Spin \/ IncRead \/ IncWrite \/ Join
    <2>1. /\ UNCHANGED <<plane, result, pc>>
          /\ (main' = "idle") = (main = "idle")
      BY <1>4 DEF Interrupt, Spin, IncRead, IncWrite, Join, NextBaseline, dispatcher
    <2> QED BY <2>1, Unseen
  <1> QED BY <1>1, <1>2, <1>3, <1>4 DEF Dispatch

\* A thread adds its next sample, finishes, or does nothing that is seen.
LEMMA WorkerService ==
  ASSUME ServiceInv, NEW b \in Baselines, Worker(b)
  PROVE  [Service!Next]_Service!vars
  <1>0. /\ TypeInv /\ PlaneInv /\ PastInv /\ DivisorInv /\ WithinInv /\ QuietInv
        /\ pc \in [Baselines -> Places] /\ plane \in [Cells -> Seq(Term)]
        /\ oldidx \in [Baselines -> Cells] /\ t \in [Baselines -> Nat]
        /\ Samples \in [Baselines -> Nat \ {0}]
    BY PlotAssumption DEF ServiceInv, TypeInv, TypeOK
  <1>1. PICK p \in Places \ {"absent", "started"} : pc' = [pc EXCEPT ![b] = p]
    BY <1>0, WorkerFrame
  <1>2. pc[b] \notin {"absent", "done"} /\ main' = main
    BY <1>0, WorkerFrame DEF dispatcher
  <1>3. main # "idle"
    BY <1>0, <1>2 DEF QuietInv
  <1>4. b \in Todo
    BY <1>2, <1>3 DEF Todo
  <1>5. UNCHANGED result
    BY DEF Worker, Begin, Leave, Enter, Locate, Skip, Drop, Project, Lock,
       ReadPixel, WritePixel, Unlock, DecRead, DecWrite
  <1>6. CASE WritePixel(b)
    <2>1. pc[b] = "write" /\ p = "unlock" /\ acc[b] = plane[oldidx[b]]
      BY <1>0, <1>1, <1>6 DEF WritePixel, Goto, PlaneInv, AccInv
    <2>2. plane' = [plane EXCEPT ![oldidx[b]] = Append(plane[oldidx[b]], TermOf(b))]
      BY <1>6, <2>1, Zenon DEF WritePixel
    <2>3. oldidx[b] \in Cells
      BY <1>0
    <2>4. t[b] \in UNION {0 .. Samples[c] - 1 : c \in Baselines}
      <3>1. t[b] < Samples[b] /\ t[b] \in Nat /\ Samples[b] \in Nat
        BY <1>0, <2>1 DEF WithinInv, Within
      <3>2. t[b] \in 0 .. Samples[b] - 1
        BY <3>1
      <3> QED BY <3>2
    <2>5. stack[b] \in 1 - BaselineCount .. MaxThreads
      BY <1>0, <2>1 DEF DivisorInv
    <2>6. ASSUME NEW c \in Cells, NEW j \in DOMAIN plane[c], plane[c][j].b = b
          PROVE  plane[c][j].t < t[b]
      <3>1. <<plane[c][j].b, plane[c][j].t>> \in written
        BY <1>0, TermPlotted DEF PlaneInv
      <3> QED BY <1>0, <2>1, <2>6, <3>1 DEF PastInv, Past, Looking
    <2>7. Service!Later(b, t[b])
      BY <2>6 DEF Service!Later
    <2>8. Todo' = Todo
      BY <1>0, <1>1, <1>2, <2>1 DEF Todo
    <2>9. plane' = [plane EXCEPT ![oldidx[b]] =
                      Append(@, [b |-> b, t |-> t[b], stack |-> stack[b]])]
      BY <2>2, Zenon DEF TermOf
    <2>10. Service!Add(b)
      BY <1>2, <1>3, <1>4, <1>5, <2>3, <2>4, <2>5, <2>7, <2>8, <2>9 DEF Service!Add, Todo
    <2> QED BY <2>10 DEF Service!Next
  <1>7. CASE ~WritePixel(b)
    <2>1. UNCHANGED plane
      BY <1>7 DEF Worker, Begin, Leave, Enter, Locate, Skip, Drop, Project, Lock,
         ReadPixel, Unlock, DecRead, DecWrite
    <2>2. CASE p = "done"
      <3>1. Todo' = Todo \ {b}
        BY <1>0, <1>1, <1>2, <1>3, <2>2 DEF Todo
      <3>2. Service!Finish(b)
        BY <1>2, <1>3, <1>4, <1>5, <2>1, <3>1 DEF Service!Finish, Todo
      <3> QED BY <3>2 DEF Service!Next
    <2>3. CASE p # "done"
      <3>1. \A c \in Baselines : pc'[c] = "done" <=> pc[c] = "done"
        BY <1>0, <1>1, <1>2, <2>3
      <3> QED BY <1>2, <1>5, <2>1, <3>1, Unseen
    <2> QED BY <2>2, <2>3
  <1> QED BY <1>6, <1>7

\* The threads of vlbi_get_uv_plot, with the counter that nothing protects and the
\* mutex around one pixel, implement the service that adds the samples one at a
\* time, each baseline's in the order of time, and delivers their sum once.
THEOREM Implements == Spec => ImplementsService
  <1>1. Init => Service!Init
    <2> SUFFICES ASSUME Init PROVE Service!Init
      OBVIOUS
    <2> QED BY DEF Init, Service!Init, Service!EmptySum, EmptyPlane
  <1>2. ServiceInv /\ [Next]_vars => [Service!Next]_Service!vars
    <2>1. UNCHANGED vars => UNCHANGED Service!vars
      BY DEF vars, Service!vars
    <2> QED BY <2>1, DispatcherService, WorkerService DEF Next
  <1>3. Spec => []ServiceInv
    <2>1. TypeInv /\ CreatedInv /\ PlaneInv /\ JoinInv /\ PastInv /\ DivisorInv
            /\ WithinInv /\ QuietInv => ServiceInv
      BY DEF ServiceInv
    <2> QED
      BY <2>1, TypeInvariant, CreatedCorrect, PlaneCorrect, JoinCorrect, PastCorrect,
         DivisorCorrect, WithinCorrect, QuietCorrect, PTL
  <1> QED BY <1>1, <1>2, <1>3, PTL DEF Spec, ImplementsService, Service!Spec

===============================================================================
