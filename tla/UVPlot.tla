-------------------------------- MODULE UVPlot --------------------------------
(***************************************************************************)
(* vlbi_get_uv_plot (vlbi/stream.cpp) and the fillplane threads it starts. *)
(*                                                                         *)
(* The caller's thread (the dispatcher) starts one thread per baseline and *)
(* throttles itself on the int threads_running, which it increments and    *)
(* every thread decrements without any lock.  Each thread walks the        *)
(* samples of its baseline, moves every node of the context to the         *)
(* location of its current iteration, projects the baseline and adds the   *)
(* correlation to one pixel of the shared plane, under the library's       *)
(* mutex.  The dispatcher joins the threads and stores the plane.          *)
(*                                                                         *)
(* A pixel holds the sequence of the terms added to it instead of a        *)
(* double: buf = (buf + val/stack)/(stack+1) is determined by that         *)
(* sequence and depends on its order.  The geometry is the constant        *)
(* operator Pixel.                                                         *)
(***************************************************************************)
EXTENDS Integers, Sequences, FiniteSets

CONSTANTS
  NodeCount,       \* nodes->count()
  BaselineCount,   \* baselines->count()
  NodesOf,         \* the nodes a baseline correlates
  StreamLen,       \* the length of a node's stream and of its locations
  Samples,         \* samples between the start and end time of a baseline
  Pixel(_, _, _),  \* the pixel of a baseline at a sample, given the locations
  PlaneSize,       \* u * v, the pixels of the plane
  MaxThreads,      \* vlbi_max_threads(0)
  MovingBaseline,  \* the parameter moving_baseline
  Interruptible    \* whether the caller passed an interrupt pointer

Nodes     == 0 .. NodeCount - 1
Baselines == 0 .. BaselineCount - 1
Cells     == 0 .. PlaneSize - 1

\* With fewer than two nodes there is no baseline, no thread is started and
\* an empty plane is stored: BaselineCount = 0 is left out.
ASSUME PlotAssumption ==
  /\ NodeCount \in Nat \ {0}
  /\ BaselineCount \in Nat \ {0}
  /\ NodesOf \in [Baselines -> SUBSET Nodes]
  /\ StreamLen \in [Nodes -> Nat \ {0}]
  /\ Samples \in [Baselines -> Nat \ {0}]
  /\ PlaneSize \in Nat \ {0}
  /\ MaxThreads \in Nat \ {0}
  /\ MovingBaseline \in BOOLEAN
  /\ Interruptible \in BOOLEAN

Free     == -1                  \* nobody holds the mutex
NoResult == <<>>                \* this call has not stored a model yet
Term     == [b : Baselines, t : Nat, stack : Int]

VARIABLES
  main,              \* where the dispatcher is
  bi,                \* its loop index i
  reg,               \* the value it read for threads_running++
  threads_running,
  stop,              \* the int that *interrupt points to
  mutex_initialized,
  mutex,             \* the thread that holds the plane's mutex
  plane,             \* parent->buf: per pixel, the terms added so far
  result,            \* the model stored by this call
  location,          \* per node, the index of the location it is set to
  pc,                \* where a thread is; "absent" before pthread_create
  stack,             \* threads_running as a thread saw it at its start
  t, l, e, i,        \* time (in samples), iteration, and the loop's stride
  oldidx,            \* the last pixel a thread visited
  x,                 \* its loop index over the nodes
  acc,               \* the value of the pixel it read under the mutex
  creg,              \* the value it read for (*nthreads)--
  written            \* history: the <<baseline, sample>> pairs it plotted

dispatcher == <<main, bi, reg>>
loopvars   == <<t, l, e, i, oldidx>>
vars == <<main, bi, reg, threads_running, stop, mutex_initialized, mutex,
          plane, result, location, pc, stack, t, l, e, i, oldidx, x, acc,
          creg, written>>

-------------------------------------------------------------------------------

EmptyPlane == [c \in Cells |-> <<>>]

\* vlbi_init initialises the mutex and any vlbi_exit destroys it: a plot may
\* find it in either state, which does not change while it runs.
Init ==
  /\ main = "idle"
  /\ bi = 0
  /\ reg = 0
  /\ threads_running = 0
  /\ stop = FALSE
  /\ mutex_initialized \in BOOLEAN
  /\ mutex = Free
  /\ plane = EmptyPlane
  /\ result = NoResult
  /\ location = [n \in Nodes |-> 0]
  /\ pc = [b \in Baselines |-> "absent"]
  /\ stack = [b \in Baselines |-> 0]
  /\ t = [b \in Baselines |-> 0]
  /\ l = [b \in Baselines |-> 0]
  /\ e = [b \in Baselines |-> 0]
  /\ i = [b \in Baselines |-> 1]
  /\ oldidx = [b \in Baselines |-> 0]
  /\ x = [b \in Baselines |-> 0]
  /\ acc = [b \in Baselines |-> <<>>]
  /\ creg = [b \in Baselines |-> 0]
  /\ written = {}

-------------------------------------------------------------------------------
(* The dispatcher, the body of vlbi_get_uv_plot.                             *)

\* Without a caller's flag *stop is a local variable; a flag may be set already.
StartPlot ==
  /\ main = "idle"
  /\ main' = "spin"
  /\ bi' = 0
  /\ reg' = 0
  /\ threads_running' = 0
  /\ stop' \in IF Interruptible THEN BOOLEAN ELSE {FALSE}
  /\ plane' = EmptyPlane
  /\ result' = NoResult
  /\ pc' = [b \in Baselines |-> "absent"]
  /\ written' = {}
  /\ UNCHANGED <<mutex_initialized, mutex, location, stack, loopvars, x, acc,
                 creg>>

\* Mutant: the throttle lets one thread too many pass.
LooseSpin ==
  /\ main = "spin"
  /\ ~(threads_running > MaxThreads)
  /\ main' = "incread"
  /\ UNCHANGED <<bi, reg, threads_running, stop, mutex_initialized, mutex,
                 plane, result, location, pc, stack, loopvars, x, acc, creg,
                 written>>

\* while(threads_running > max_threads - 1) usleep(100000);
Spin ==
  /\ main = "spin"
  /\ ~(threads_running > MaxThreads - 1)
  /\ main' = "incread"
  /\ UNCHANGED <<bi, reg, threads_running, stop, mutex_initialized, mutex,
                 plane, result, location, pc, stack, loopvars, x, acc, creg,
                 written>>

\* threads_running++ is a load and a store of an int nobody protects.
IncRead ==
  /\ main = "incread"
  /\ main' = "incwrite"
  /\ reg' = threads_running
  /\ UNCHANGED <<bi, threads_running, stop, mutex_initialized, mutex, plane,
                 result, location, pc, stack, loopvars, x, acc, creg, written>>

IncWrite ==
  /\ main = "incwrite"
  /\ main' = "create"
  /\ threads_running' = reg + 1
  /\ UNCHANGED <<bi, reg, stop, mutex_initialized, mutex, plane, result,
                 location, pc, stack, loopvars, x, acc, creg, written>>

\* The loops over the baselines: the next index, or the next phase.
NextBaseline(this, next) ==
  IF bi + 1 < BaselineCount
  THEN bi' = bi + 1 /\ main' = this
  ELSE bi' = 0 /\ main' = next

Create ==
  /\ main = "create"
  /\ pc' = [pc EXCEPT ![bi] = "started"]
  /\ NextBaseline("spin", "join")
  /\ UNCHANGED <<reg, threads_running, stop, mutex_initialized, mutex, plane,
                 result, location, stack, loopvars, x, acc, creg, written>>

\* Mutant: a thread is joined before it is over.
HastyJoin ==
  /\ main = "join"
  /\ pc[bi] # "absent"
  /\ NextBaseline("join", "save")
  /\ UNCHANGED <<reg, threads_running, stop, mutex_initialized, mutex, plane,
                 result, location, pc, stack, loopvars, x, acc, creg, written>>

Join ==
  /\ main = "join"
  /\ pc[bi] = "done"
  /\ NextBaseline("join", "save")
  /\ UNCHANGED <<reg, threads_running, stop, mutex_initialized, mutex, plane,
                 result, location, pc, stack, loopvars, x, acc, creg, written>>

\* Whether a model of that name exists or not, its buffer is now the plane.
Save ==
  /\ main = "save"
  /\ main' = "idle"
  /\ result' = plane
  /\ UNCHANGED <<bi, reg, threads_running, stop, mutex_initialized, mutex,
                 plane, location, pc, stack, loopvars, x, acc, creg, written>>

\* The owner of the interrupt pointer asks for the plot to be aborted.
Interrupt ==
  /\ Interruptible
  /\ main # "idle"
  /\ ~stop
  /\ stop' = TRUE
  /\ UNCHANGED <<dispatcher, threads_running, mutex_initialized, mutex, plane,
                 result, location, pc, stack, loopvars, x, acc, creg, written>>

-------------------------------------------------------------------------------
(* A thread, the body of fillplane for baseline b.                           *)

Goto(b, from, to) ==
  /\ pc[b] = from
  /\ pc' = [pc EXCEPT ![b] = to]

\* stack = *nthreads and the locals of the loop.
Begin(b) ==
  /\ Goto(b, "started", "loop")
  /\ stack' = [stack EXCEPT ![b] = threads_running]
  /\ t' = [t EXCEPT ![b] = 0]
  /\ l' = [l EXCEPT ![b] = 0]
  /\ e' = [e EXCEPT ![b] = 0]
  /\ i' = [i EXCEPT ![b] = 1]
  /\ oldidx' = [oldidx EXCEPT ![b] = 0]
  /\ UNCHANGED <<dispatcher, threads_running, stop, mutex_initialized, mutex,
                 plane, result, location, x, acc, creg, written>>

\* The end of the loop: no sample is left, or *stop is set.
Leave(b) ==
  /\ t[b] >= Samples[b] \/ stop
  /\ Goto(b, "loop", "decread")
  /\ UNCHANGED <<dispatcher, threads_running, stop, mutex_initialized, mutex,
                 plane, result, location, stack, loopvars, x, acc, creg,
                 written>>

Enter(b) ==
  /\ t[b] < Samples[b] /\ ~stop
  /\ Goto(b, "loop", "locate")
  /\ x' = [x EXCEPT ![b] = 0]
  /\ UNCHANGED <<dispatcher, threads_running, stop, mutex_initialized, mutex,
                 plane, result, location, stack, loopvars, acc, creg, written>>

\* VLBINode::setLocation(int) leaves a node alone past the end of its stream.
MovedTo(n, index) == IF StreamLen[n] > index THEN index ELSE location[n]
LocationIndex(b)  == IF MovingBaseline THEN l[b] ELSE 0

\* Mutant: the loop over the nodes ends before the last one.
ShortLocate(b) ==
  /\ location' = [location EXCEPT ![x[b]] = MovedTo(x[b], LocationIndex(b))]
  /\ IF x[b] + 2 < NodeCount
     THEN /\ pc[b] = "locate"
          /\ x' = [x EXCEPT ![b] = @ + 1]
          /\ UNCHANGED pc
     ELSE /\ Goto(b, "locate", "project")
          /\ UNCHANGED x
  /\ UNCHANGED <<dispatcher, threads_running, stop, mutex_initialized, mutex,
                 plane, result, stack, loopvars, acc, creg, written>>

\* Mutant: the loop over the nodes ends after the last one.
LongLocate(b) ==
  /\ location' = [location EXCEPT ![x[b]] = MovedTo(x[b], LocationIndex(b))]
  /\ IF x[b] < NodeCount
     THEN /\ pc[b] = "locate"
          /\ x' = [x EXCEPT ![b] = @ + 1]
          /\ UNCHANGED pc
     ELSE /\ Goto(b, "locate", "project")
          /\ UNCHANGED x
  /\ UNCHANGED <<dispatcher, threads_running, stop, mutex_initialized, mutex,
                 plane, result, stack, loopvars, acc, creg, written>>

\* nodes->at(x)->setLocation(l), one node of the whole context at a time.
Locate(b) ==
  /\ location' = [location EXCEPT ![x[b]] = MovedTo(x[b], LocationIndex(b))]
  /\ IF x[b] + 1 < NodeCount
     THEN /\ pc[b] = "locate"
          /\ x' = [x EXCEPT ![b] = @ + 1]
          /\ UNCHANGED pc
     ELSE /\ Goto(b, "locate", "project")
          /\ UNCHANGED x
  /\ UNCHANGED <<dispatcher, threads_running, stop, mutex_initialized, mutex,
                 plane, result, stack, loopvars, acc, creg, written>>

\* Mutant: the time always advances by one sample.
EvenAdvance(b, newe) ==
  /\ e' = [e EXCEPT ![b] = newe]
  /\ i' = [i EXCEPT ![b] = l[b] + 1 - newe]
  /\ t' = [t EXCEPT ![b] = @ + 1]
  /\ l' = [l EXCEPT ![b] = @ + 1]

\* s = l + 1; i = s - e; t += tau * i; l++.  At the head of the loop s = l
\* always holds, so s is not kept and "e = s" is newe = l[b].
Advance(b, newe) ==
  /\ e' = [e EXCEPT ![b] = newe]
  /\ i' = [i EXCEPT ![b] = l[b] + 1 - newe]
  /\ t' = [t EXCEPT ![b] = @ + (l[b] + 1 - newe)]
  /\ l' = [l EXCEPT ![b] = @ + 1]

\* The pixel of this sample, from the locations the nodes have now.
Here(b) == Pixel(b, t[b], location)
NewPixel(b) == Here(b) \in Cells /\ Here(b) # oldidx[b]

\* Out of the plane, or still in the pixel visited last: nothing to add.
Skip(b) ==
  /\ Goto(b, "project", "loop")
  /\ ~NewPixel(b)
  /\ Advance(b, e[b])
  /\ UNCHANGED <<dispatcher, threads_running, stop, mutex_initialized, mutex,
                 plane, result, location, stack, oldidx, x, acc, creg, written>>

\* Without a mutex the sample is dropped, but it counts as plotted.
Drop(b) ==
  /\ Goto(b, "project", "loop")
  /\ NewPixel(b)
  /\ ~mutex_initialized
  /\ oldidx' = [oldidx EXCEPT ![b] = Here(b)]
  /\ Advance(b, l[b])
  /\ UNCHANGED <<dispatcher, threads_running, stop, mutex_initialized, mutex,
                 plane, result, location, stack, x, acc, creg, written>>

Project(b) ==
  /\ Goto(b, "project", "lock")
  /\ NewPixel(b)
  /\ mutex_initialized
  /\ oldidx' = [oldidx EXCEPT ![b] = Here(b)]
  /\ UNCHANGED <<dispatcher, threads_running, stop, mutex_initialized, mutex,
                 plane, result, location, stack, t, l, e, i, x, acc, creg,
                 written>>

\* Mutant: the lock is taken without a look at its owner.
BlindLock(b) ==
  /\ Goto(b, "lock", "read")
  /\ mutex' = b
  /\ UNCHANGED <<dispatcher, threads_running, stop, mutex_initialized, plane,
                 result, location, stack, loopvars, x, acc, creg, written>>

\* lock_mutex: while(pthread_mutex_trylock(&mutex)) usleep(100);
Lock(b) ==
  /\ mutex = Free
  /\ Goto(b, "lock", "read")
  /\ mutex' = b
  /\ UNCHANGED <<dispatcher, threads_running, stop, mutex_initialized, plane,
                 result, location, stack, loopvars, x, acc, creg, written>>

\* parent->buf[idx] = (parent->buf[idx]+val/stack)/(stack+1): the load ...
ReadPixel(b) ==
  /\ Goto(b, "read", "write")
  /\ acc' = [acc EXCEPT ![b] = plane[oldidx[b]]]
  /\ UNCHANGED <<dispatcher, threads_running, stop, mutex_initialized, mutex,
                 plane, result, location, stack, loopvars, x, creg, written>>

\* ... and the store.
TermOf(b) == [b |-> b, t |-> t[b], stack |-> stack[b]]
WritePixel(b) ==
  /\ Goto(b, "write", "unlock")
  /\ plane' = [plane EXCEPT ![oldidx[b]] = Append(acc[b], TermOf(b))]
  /\ written' = written \cup {<<b, t[b]>>}
  /\ UNCHANGED <<dispatcher, threads_running, stop, mutex_initialized, mutex,
                 result, location, stack, loopvars, x, acc, creg>>

\* Mutant: the mutex is never given back.
ForgetfulUnlock(b) ==
  /\ Goto(b, "unlock", "loop")
  /\ Advance(b, l[b])
  /\ UNCHANGED <<dispatcher, threads_running, stop, mutex_initialized, mutex,
                 plane, result, location, stack, oldidx, x, acc, creg, written>>

Unlock(b) ==
  /\ Goto(b, "unlock", "loop")
  /\ mutex' = Free
  /\ Advance(b, l[b])
  /\ UNCHANGED <<dispatcher, threads_running, stop, mutex_initialized, plane,
                 result, location, stack, oldidx, x, acc, creg, written>>

\* (*nthreads)--, again a load and a store.
DecRead(b) ==
  /\ Goto(b, "decread", "decwrite")
  /\ creg' = [creg EXCEPT ![b] = threads_running]
  /\ UNCHANGED <<dispatcher, threads_running, stop, mutex_initialized, mutex,
                 plane, result, location, stack, loopvars, x, acc, written>>

\* Mutant: a thread that ends keeps its place in the counter.
KeptPlace(b) ==
  /\ Goto(b, "decwrite", "done")
  /\ threads_running' = creg[b]
  /\ UNCHANGED <<dispatcher, stop, mutex_initialized, mutex, plane, result,
                 location, stack, loopvars, x, acc, creg, written>>

DecWrite(b) ==
  /\ Goto(b, "decwrite", "done")
  /\ threads_running' = creg[b] - 1
  /\ UNCHANGED <<dispatcher, stop, mutex_initialized, mutex, plane, result,
                 location, stack, loopvars, x, acc, creg, written>>

-------------------------------------------------------------------------------

Dispatch == Spin \/ IncRead \/ IncWrite \/ Create \/ Join \/ Save

Worker(b) ==
  \/ Begin(b) \/ Leave(b) \/ Enter(b) \/ Locate(b)
  \/ Skip(b) \/ Drop(b) \/ Project(b)
  \/ Lock(b) \/ ReadPixel(b) \/ WritePixel(b) \/ Unlock(b)
  \/ DecRead(b) \/ DecWrite(b)

Next ==
  \/ StartPlot
  \/ Interrupt
  \/ Dispatch
  \/ \E b \in Baselines : Worker(b)

Spec == Init /\ [][Next]_vars

\* Every thread that can run is scheduled in the end.  Nobody has to start a
\* plot or to interrupt one, and no order among the threads is promised.
FairSpec ==
  /\ Spec
  /\ WF_vars(Dispatch)
  /\ \A b \in Baselines : WF_vars(Worker(b))

-------------------------------------------------------------------------------

\* Threads between pthread_create and the store of their decrement.
Alive == {b \in Baselines : pc[b] \notin {"absent", "done"}}

Places ==
  {"absent", "started", "loop", "locate", "project", "lock", "read", "write",
   "unlock", "decread", "decwrite", "done"}
Critical == {"read", "write", "unlock"}

\* Every variable keeps the type it has in the code.
TypeOK ==
  /\ main \in {"idle", "spin", "incread", "incwrite", "create", "join", "save"}
  /\ bi \in Baselines
  /\ reg \in Int
  /\ threads_running \in Int
  /\ stop \in BOOLEAN
  /\ mutex_initialized \in BOOLEAN
  /\ mutex \in Baselines \cup {Free}
  /\ plane \in [Cells -> Seq(Term)]
  /\ result \in [Cells -> Seq(Term)] \cup {NoResult}
  /\ location \in [Nodes -> Nat]
  /\ pc \in [Baselines -> Places]
  /\ stack \in [Baselines -> Int]
  /\ t \in [Baselines -> Nat]
  /\ l \in [Baselines -> Nat]
  /\ e \in [Baselines -> Nat]
  /\ i \in [Baselines -> Nat]
  /\ oldidx \in [Baselines -> Cells]
  /\ x \in [Baselines -> Nodes]
  /\ acc \in [Baselines -> Seq(Term)]
  /\ creg \in [Baselines -> Int]
  /\ written \in SUBSET (Baselines \X Nat)

-------------------------------------------------------------------------------
(* What holds for every number of threads.                                   *)

\* The samples that a plane holds a term of.
Plotted(p) ==
  UNION {{<<p[c][j].b, p[c][j].t>> : j \in DOMAIN p[c]} : c \in Cells}

\* No update of the plane is lost: whatever the threads plotted (the load,
\* the store and the mutex of fillplane around them) is in the plane.
NoLostTerm == Plotted(plane) = written

\* The stored model is the work of threads that are all over: the dispatcher
\* joined every one of them before it copied the plane, and nothing is added
\* to the plane (nor is the freed argument array read) after that.
StoredIsFinal ==
  result # NoResult => /\ \A b \in Baselines : pc[b] = "done"
                       /\ result = plane
                       /\ Plotted(result) = written

\* The unprotected counter loses increments and decrements, but the
\* dispatcher never waits in its throttle for threads that are all gone.
NotStranded ==
  main = "spin" /\ threads_running > MaxThreads - 1 => Alive # {}

\* A plot that was started ends: the throttle, the mutex and the stride of
\* the sample loop hold up no thread forever.
Termination == (main = "spin") ~> (main = "idle")

\* The sample a thread looks at: after the sample it plotted last the stride
\* grows by one with every iteration that plots nothing, so that it looks
\* only at the samples 1, 3, 6, 10 ... after that one.
LastPlotted(b) ==
  LET mine == {w \in written : w[1] = b}
  IN  IF mine = {} THEN 0
      ELSE (CHOOSE w \in mine : \A v \in mine : v[2] <= w[2])[2]

GrowingStride ==
  mutex_initialized =>
    \A b \in Baselines :
      pc[b] \in {"loop", "locate", "project", "lock", "read", "write"} =>
        2 * (t[b] - LastPlotted(b)) = (l[b] - e[b]) * (l[b] - e[b] + 1)

-------------------------------------------------------------------------------
(* What holds with vlbi_max_threads(1), the default.                         *)

\* A thread is started only when the previous one is over.
OneThread ==
  MaxThreads = 1 => \A b, c \in Alive : b = c

\* Every term has the same weight: a thread finds itself alone in the
\* counter, so the divisor val/stack is 1 and never 0.
UnitStack ==
  MaxThreads = 1 =>
    \A b \in Baselines : pc[b] \notin {"absent", "started"} => stack[b] = 1

\* When a thread projects its baseline, the nodes are where that thread put
\* them, and not where the thread of another baseline did.
OwnLocations ==
  MaxThreads = 1 =>
    \A b \in Baselines : pc[b] = "project" =>
      \A n \in NodesOf[b] :
        StreamLen[n] > LocationIndex(b) => location[n] = LocationIndex(b)

\* The terms of a pixel are in the order of the baselines and, for one
\* baseline, of the samples: the plot is the one a sequential loop makes.
SequentialOrder ==
  MaxThreads = 1 =>
    \A c \in Cells : \A j, k \in DOMAIN plane[c] :
      j < k => \/ plane[c][j].b < plane[c][k].b
               \/ /\ plane[c][j].b = plane[c][k].b
                  /\ plane[c][j].t < plane[c][k].t

-------------------------------------------------------------------------------
(* What the caller of vlbi_get_uv_plot sees.                                 *)

\* The counter that a thread takes its divisor from may be below 1: every thread
\* that is over may have taken an increment with it.
Service ==
  INSTANCE PlotService WITH
    busy   <- main # "idle",
    todo   <- IF main = "idle" THEN {} ELSE {b \in Baselines : pc[b] # "done"},
    sum    <- plane,
    Times  <- UNION {0 .. Samples[b] - 1 : b \in Baselines},
    Stacks <- 1 - BaselineCount .. MaxThreads

\* Every step of the dispatcher and of the threads is a step of the service,
\* or changes nothing the caller of vlbi_get_uv_plot can see.
ImplementsService == Service!Spec

-------------------------------------------------------------------------------
(* What the documentation says and the code does not do.                     *)

\* vlbi.h: "get/set the maximum number of threads allowed".  The threads that
\* have not yet given their place back never exceed it.
ThreadLimit == Cardinality(Alive) <= MaxThreads

===============================================================================
