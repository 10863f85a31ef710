----------------------------- MODULE PlotService -----------------------------
(***************************************************************************)
(* What a call of vlbi_get_uv_plot promises, whatever the number of its    *)
(* threads and however they interleave: the baselines add their samples to *)
(* the plane one at a time, every addition takes the plane as the previous *)
(* one left it, a baseline adds its samples in the order of time and none  *)
(* after it has finished, and the model that is stored is the sum of all   *)
(* of them once every baseline has finished.                               *)
(***************************************************************************)
EXTENDS Integers, Sequences

CONSTANTS
  Baselines,  \* the baselines to plot
  Cells,      \* the pixels of the plane
  Times,      \* the samples of the integration time
  Stacks,     \* the divisors a thread may have seen
  NoResult    \* no model is stored yet

VARIABLES
  busy,    \* a call is in progress
  todo,    \* the baselines that have not finished
  sum,     \* per pixel, the terms added by this call
  result   \* the model this call has stored

vars == <<busy, todo, sum, result>>

EmptySum == [c \in Cells |-> <<>>]

Init ==
  /\ busy = FALSE
  /\ todo = {}
  /\ sum = EmptySum
  /\ result = NoResult

Call ==
  /\ ~busy
  /\ busy' = TRUE
  /\ todo' = Baselines
  /\ sum' = EmptySum
  /\ result' = NoResult

\* A baseline's samples reach the plane in the order of time.
Later(b, time) ==
  \A c \in Cells : \A j \in DOMAIN sum[c] :
    sum[c][j].b = b => sum[c][j].t < time

Add(b) ==
  /\ busy
  /\ b \in todo
  /\ \E c \in Cells, time \in Times, stack \in Stacks :
       /\ Later(b, time)
       /\ sum' = [sum EXCEPT ![c] =
                    Append(@, [b |-> b, t |-> time, stack |-> stack])]
  /\ UNCHANGED <<busy, todo, result>>

Finish(b) ==
  /\ busy
  /\ b \in todo
  /\ todo' = todo \ {b}
  /\ UNCHANGED <<busy, sum, result>>

Deliver ==
  /\ busy
  /\ todo = {}
  /\ busy' = FALSE
  /\ result' = sum
  /\ UNCHANGED <<todo, sum>>

Next == Call \/ Deliver \/ \E b \in Baselines : Add(b) \/ Finish(b)

Spec == Init /\ [][Next]_vars
===============================================================================
