------------------------------ MODULE DspThreads ------------------------------
(***************************************************************************)
(* The operations of dsp/stream.c that share a buffer among                *)
(* dsp_max_threads threads: dsp_stream_align, crop, scale, rotate, sum,    *)
(* multiply and subtract.  (dsp_buffer_median and sigma divide a buffer in *)
(* the same way, but a window of theirs that leaves the buffer keeps what  *)
(* the last one held: they are not of this shape.)                         *)
(*                                                                         *)
(* They all have one shape.  The caller works on a copy of its stream, set *)
(* to zero or not, gives every thread a part of it, joins the threads and  *)
(* copies the copy back.  A thread makes each element of its part from     *)
(* that element and from the buffer of the copy's parent, which is the     *)
(* caller's own stream or a second one.  What it makes is the constant     *)
(* operator Made.                                                          *)
(***************************************************************************)
EXTENDS Integers

CONSTANTS
  Len,           \* stream->len
  Threads,       \* dsp_max_threads(0), the same during a call
  Value,         \* the samples
  Zero,          \* 0.0
  Zeroed,        \* whether the copy is set to zero (all but sum and its sisters)
  SameStream,    \* whether the parent is the caller's stream (again, all but)
  Other,         \* the buffer of the second stream
  Inputs,        \* what the caller's buffer may hold
  Made(_, _, _)  \* element, its old value, parent's buffer |-> its new value

Elements == 0 .. Len - 1
Pool     == 0 .. Threads - 1

\* The product cur_th * len is an int.
ASSUME DspAssumption ==
  /\ Len \in Nat
  /\ Threads \in Nat \ {0}
  /\ Threads * Len <= 2147483647
  /\ Zero \in Value
  /\ Zeroed \in BOOLEAN
  /\ SameStream \in BOOLEAN
  /\ Other \in [Elements -> Value]
  /\ Inputs \in SUBSET [Elements -> Value]
  /\ \A y \in Elements, old \in Value, parent \in Inputs \cup {Other} :
       Made(y, old, parent) \in Value

VARIABLES
  main,   \* where the caller is
  k,      \* its loop index over the threads
  buf,    \* in->buf
  work,   \* the copy's buffer, stream->buf
  pc,     \* where a thread is; "absent" before pthread_create
  y,      \* its loop index over its part
  made,   \* the value it has computed for that element
  given   \* history: the buffer the caller called with

vars == <<main, k, buf, work, pc, y, made, given>>

\* Mutant: the end of a part is rounded up.
WideEnd(c) == ((c + 1) * Len + Threads - 1) \div Threads

\* int start = cur_th * len / threads, end = start + len / threads; the Min
\* with len changes nothing.
First(c) == (c * Len) \div Threads
End(c)   == First(c) + Len \div Threads

Part(c) == First(c) .. End(c) - 1

Parent == IF SameStream THEN buf ELSE Other

-------------------------------------------------------------------------------
Init ==
  /\ main = "idle"
  /\ k = 0
  /\ buf \in Inputs
  /\ work = buf
  /\ pc = [c \in Pool |-> "absent"]
  /\ y = [c \in Pool |-> 0]
  /\ made = [c \in Pool |-> Zero]
  /\ given = buf

\* dsp_stream_copy, dsp_buffer_set and the arguments of the threads.
Call ==
  /\ main = "idle"
  /\ main' = "create"
  /\ buf' \in Inputs
  /\ given' = buf'
  /\ work' = IF Zeroed THEN [j \in Elements |-> Zero] ELSE buf'
  /\ pc' = [c \in Pool |-> "absent"]
  /\ k' = 0
  /\ UNCHANGED <<y, made>>

\* The loops over the threads: the next index, or the next phase.
NextThread(this, next) ==
  IF k + 1 < Threads
  THEN k' = k + 1 /\ main' = this
  ELSE k' = 0 /\ main' = next

Create ==
  /\ main = "create"
  /\ pc' = [pc EXCEPT ![k] = "loop"]
  /\ y' = [y EXCEPT ![k] = First(k)]
  /\ NextThread("create", "join")
  /\ UNCHANGED <<buf, work, made, given>>

Join ==
  /\ main = "join"
  /\ pc[k] = "done"
  /\ NextThread("join", "store")
  /\ UNCHANGED <<buf, work, pc, y, made, given>>

\* dsp_buffer_copy(stream->buf, in->buf, stream->len), and the copy is freed.
CopyBack ==
  /\ main = "store"
  /\ main' = "idle"
  /\ buf' = work
  /\ UNCHANGED <<k, work, pc, y, made, given>>

\* A thread reads its element and the parent ...
Load(c) ==
  /\ pc[c] = "loop"
  /\ y[c] < End(c)
  /\ pc' = [pc EXCEPT ![c] = "store"]
  /\ made' = [made EXCEPT ![c] = Made(y[c], work[y[c]], Parent)]
  /\ UNCHANGED <<main, k, buf, work, y, given>>

\* Mutant: the thread writes to the caller's stream.
InPlaceStore(c) ==
  /\ pc[c] = "store"
  /\ pc' = [pc EXCEPT ![c] = "loop"]
  /\ work' = [work EXCEPT ![y[c]] = made[c]]
  /\ buf' = [buf EXCEPT ![y[c]] = made[c]]
  /\ y' = [y EXCEPT ![c] = @ + 1]
  /\ UNCHANGED <<main, k, made, given>>

\* ... and writes its element.
Store(c) ==
  /\ pc[c] = "store"
  /\ pc' = [pc EXCEPT ![c] = "loop"]
  /\ work' = [work EXCEPT ![y[c]] = made[c]]
  /\ y' = [y EXCEPT ![c] = @ + 1]
  /\ UNCHANGED <<main, k, buf, made, given>>

\* Mutant: a thread goes on until it reaches the end of the buffer.
EndlessFinish(c) ==
  /\ pc[c] = "loop"
  /\ y[c] = Len
  /\ pc' = [pc EXCEPT ![c] = "done"]
  /\ UNCHANGED <<main, k, buf, work, y, made, given>>

Finish(c) ==
  /\ pc[c] = "loop"
  /\ y[c] >= End(c)
  /\ pc' = [pc EXCEPT ![c] = "done"]
  /\ UNCHANGED <<main, k, buf, work, y, made, given>>

Caller    == Create \/ Join \/ CopyBack
Worker(c) == Load(c) \/ Store(c) \/ Finish(c)

Next == Call \/ Caller \/ \E c \in Pool : Worker(c)

Spec == Init /\ [][Next]_vars

\* A thread that can run is scheduled in the end; nobody has to call.
FairSpec == Spec /\ WF_vars(Caller) /\ \A c \in Pool : WF_vars(Worker(c))

-------------------------------------------------------------------------------
(* Properties                                                                *)

\* The types of the variables.
TypeOK ==
  /\ main \in {"idle", "create", "join", "store"}
  /\ k \in Pool
  /\ buf \in [Elements -> Value]
  /\ work \in [Elements -> Value]
  /\ pc \in [Pool -> {"absent", "loop", "store", "done"}]
  /\ y \in [Pool -> 0 .. Len]
  /\ made \in [Pool -> Value]
  /\ given \in Inputs

Running(c) == pc[c] \in {"loop", "store"}

\* Two threads are never at the same element: the parts, which every thread
\* computes for itself from its number, do not overlap.
NoSharedElement ==
  \A c, d \in Pool :
    (c # d /\ pc[c] = "store" /\ pc[d] = "store") => y[c] # y[d]

Covered == UNION {Part(c) : c \in Pool}

Fresh(j) == IF Zeroed THEN Zero ELSE given[j]

\* The element j of a call with the buffer given, made by one thread alone.
Whole(j) == Made(j, Fresh(j), IF SameStream THEN given ELSE Other)

Mapped ==
  [j \in Elements |-> IF j \in Covered THEN Whole(j) ELSE Fresh(j)]

\* However the threads interleave, the caller's buffer is left alone until
\* they are all over, and then it holds what one thread would have made of the
\* covered elements: no thread reads what another one has written.
AllAtOnce == buf = given \/ (main = "idle" /\ buf = Mapped)

\* A call ends: the threads' loops and the caller's joins do.
Returns == main = "create" ~> main = "idle"

-------------------------------------------------------------------------------
(* The inductive invariant behind them.                                      *)

\* What a thread has behind it is made, what it has before it is not.
Progress(c) ==
  /\ First(c) <= y[c] /\ y[c] <= End(c)
  /\ pc[c] = "store" => y[c] < End(c) /\ made[c] = Whole(y[c])
  /\ pc[c] = "done" => y[c] = End(c)

Behind(j) == \E c \in Pool : pc[c] # "absent" /\ First(c) <= j /\ j < y[c]

IInv ==
  /\ TypeOK
  /\ main # "idle" => buf = given
  /\ main = "idle" => buf = given \/ buf = Mapped
  /\ main = "create" => \A c \in Pool : c >= k <=> pc[c] = "absent"
  /\ main # "create" /\ main # "idle" => \A c \in Pool : pc[c] # "absent"
  /\ main = "join" => \A c \in Pool : c < k => pc[c] = "done"
  /\ main \in {"idle", "store"} => \A c \in Pool : ~Running(c)
  /\ main = "store" => \A c \in Pool : pc[c] = "done"
  /\ main # "idle" =>
       \A j \in Elements : work[j] = IF Behind(j) THEN Whole(j) ELSE Fresh(j)
  /\ \A c \in Pool : pc[c] # "absent" => Progress(c)

-------------------------------------------------------------------------------
(* What the documentation says and the code does not do.                     *)

\* vlbi.h: vlbi_apply_mask masks a model "by multiplication of each element";
\* the elements between the parts are left as they were.
EachElement ==
  main = "idle" => buf = given \/ \A j \in Elements : buf[j] = Whole(j)
===============================================================================
