------------------------------ MODULE ModelStore ------------------------------
(***************************************************************************)
(* The models of a context (vlbi/stream.cpp, vlbi/modelcollection.cpp) and *)
(* the dsp_streams behind them (dsp/stream.c, dsp/fft.c): which stream is  *)
(* listed under which name, which one is the magnitude or the phase of     *)
(* which, and which have been freed.  What the samples are is left out.    *)
(*                                                                         *)
(* A stream is known by the order in which it was made; the address of a   *)
(* freed one is never mistaken for that of a new one.  The program is      *)
(* followed up to the first use of a freed stream: a step that would read  *)
(* or free one is not taken.                                               *)
(***************************************************************************)
EXTENDS Collection, FiniteSets

CONSTANTS
  Names,      \* names of models
  NoName,     \* of a stream that has none yet
  MaxStreams, \* bound: how many streams are ever made
  MaxAgain    \* bound: how many times a listed stream is added again

ASSUME ModelAssumption ==
  /\ NoName \notin Names
  /\ MaxStreams \in Nat /\ MaxAgain \in Nat

Streams == 1 .. MaxStreams
Null    == 0

Entry == [name : Names, stream : Streams]

VARIABLES
  models,     \* the ModelCollection's items
  made,       \* how many streams were made
  freed,      \* the streams that were freed
  magnitude,  \* stream->magnitude
  phase,      \* stream->phase
  label,      \* stream->name
  again       \* history: the streams that were added when they were listed

vars == <<models, made, freed, magnitude, phase, label, again>>

Init ==
  /\ models = <<>>
  /\ made = 0
  /\ freed = {}
  /\ magnitude = [s \in Streams |-> Null]
  /\ phase = [s \in Streams |-> Null]
  /\ label = [s \in Streams |-> NoName]
  /\ again = {}

StreamOf(name) == Get(models, name).stream

Live(s) == s \notin freed
Usable(name) == Contains(models, name) /\ Live(StreamOf(name))

\* dsp_stream_free_buffer and dsp_stream_free follow both pointers, to streams that
\* were made later.
Parts(s) == {magnitude[s], phase[s]} \ {Null}

Tree(s) ==
  {x \in s .. made :
     \A S \in SUBSET (s .. made) :
       (s \in S /\ \A y \in S : Parts(y) \subseteq S) => x \in S}

\* Streams that dsp_stream_new or dsp_stream_copy makes in this step; the copy
\* has the samples of the original and neither its magnitude nor its phase.
Make(n) == made + n <= MaxStreams /\ made' = made + n
First   == made + 1
Second  == made + 2
Third   == made + 3

\* ModelCollection::add writes the name into the stream before the collection
\* looks whether that name is taken.
AddTo(items, s, name) == Add(items, [name |-> name, stream |-> s])

-------------------------------------------------------------------------------
(* Models that are made of samples.                                          *)

\* A stream that was just made gets a name and is listed, if the name is free.
Register(name) ==
  /\ Make(1)
  /\ label' = [label EXCEPT ![First] = name]
  /\ models' = AddTo(models, First, name)
  /\ UNCHANGED <<freed, magnitude, phase, again>>

\* vlbi_add_model of a stream of the caller's ...
AddModel(name) == Register(name)

\* ... or of one that vlbi_get_model has given it.
AddAgain(name, node) ==
  /\ Usable(node)
  /\ Cardinality(again) < MaxAgain
  /\ label' = [label EXCEPT ![StreamOf(node)] = name]
  /\ models' = AddTo(models, StreamOf(node), name)
  /\ again' = again \cup {StreamOf(node)}
  /\ UNCHANGED <<made, freed, magnitude, phase>>

\* vlbi_get_uv_plot: a copy of the plot is listed under a new name.  A model of
\* that name stays; its buffers, and those of its parts, are allocated anew.
Plot(name) ==
  \/ ~Contains(models, name) /\ Register(name)
  \/ /\ Contains(models, name)
     /\ Tree(StreamOf(name)) \cap freed = {}
     /\ UNCHANGED vars

\* Mutant: the copy keeps the original's magnitude.
ShallowCopyModel(name, node) ==
  /\ Usable(node)
  /\ Make(1)
  /\ label' = [label EXCEPT ![First] = name]
  /\ models' = AddTo(models, First, name)
  /\ magnitude' = [magnitude EXCEPT ![First] = magnitude[StreamOf(node)]]
  /\ UNCHANGED <<freed, phase, again>>

\* vlbi_copy_model
CopyModel(name, node) == Usable(node) /\ Register(name)

\* vlbi_apply_mask, vlbi_stack_models and, if their dimensions are as many,
\* vlbi_diff_models: a copy of the first is changed by what the second holds.
Combine(name, first, second) == Usable(first) /\ Usable(second) /\ Register(name)

-------------------------------------------------------------------------------
(* Transforms.                                                               *)

\* Mutant: the pointers are not cleared, so that dsp_fourier_dft takes the
\* streams of the last transform again.
SameFft(name, mag, phi) ==
  LET s == StreamOf(name)
      newphi == IF phase[s] = Null THEN First ELSE phase[s]
      newmag == IF magnitude[s] = Null THEN Second ELSE magnitude[s]
  IN  /\ Usable(name)
      /\ Make(2)
      /\ phase' = [phase EXCEPT ![s] = newphi]
      /\ magnitude' = [magnitude EXCEPT ![s] = newmag]
      /\ label' = [label EXCEPT ![newphi] = phi, ![newmag] = mag]
      /\ models' = AddTo(AddTo(models, newphi, phi), newmag, mag)
      /\ UNCHANGED <<freed, again>>

\* vlbi_get_fft: the model gets a new phase and a new magnitude, which are then
\* listed as models of their own, the phase first.
GetFft(name, mag, phi) ==
  /\ Usable(name)
  /\ Make(2)
  /\ phase' = [phase EXCEPT ![StreamOf(name)] = First]
  /\ magnitude' = [magnitude EXCEPT ![StreamOf(name)] = Second]
  /\ label' = [label EXCEPT ![First] = phi, ![Second] = mag]
  /\ models' = AddTo(AddTo(models, First, phi), Second, mag)
  /\ UNCHANGED <<freed, again>>

\* vlbi_get_ifft into a listed model: it is transformed with a copy of the
\* phase and one of the magnitude, which are freed and stay its parts.
IfftInto(name, mag, phi) ==
  /\ Usable(name) /\ Usable(mag) /\ Usable(phi)
  /\ Make(2)
  /\ phase' = [phase EXCEPT ![StreamOf(name)] = First]
  /\ magnitude' = [magnitude EXCEPT ![StreamOf(name)] = Second]
  /\ freed' = freed \cup {First, Second}
  /\ UNCHANGED <<models, label, again>>

\* vlbi_get_ifft under a new name: the same with a copy of the magnitude.
GetIfft(name, mag, phi) ==
  /\ ~Contains(models, name) /\ Usable(mag) /\ Usable(phi)
  /\ Make(3)
  /\ phase' = [phase EXCEPT ![First] = Second]
  /\ magnitude' = [magnitude EXCEPT ![First] = Third]
  /\ freed' = freed \cup {Second, Third}
  /\ label' = [label EXCEPT ![First] = name]
  /\ models' = AddTo(models, First, name)
  /\ UNCHANGED again

\* vlbi_apply_convolution_matrix.  A copy of the model and the matrix itself
\* are transformed; the matrix keeps the parts it has, and only gets those it
\* lacks.  The parts of both are freed, and stay their parts.
Convolve(name, model, matrix) ==
  LET m == StreamOf(matrix)
      lacking(part) == IF part[m] = Null THEN 1 ELSE 0
      newphi == IF phase[m] = Null THEN made + 4 ELSE phase[m]
      newmag == IF magnitude[m] = Null THEN made' ELSE magnitude[m]
  IN  /\ Usable(model) /\ Usable(matrix)
      /\ UNION {Tree(p) : p \in Parts(m)} \cap freed = {}
      /\ Make(3 + lacking(phase) + lacking(magnitude))
      /\ phase' = [phase EXCEPT ![First] = Second, ![m] = newphi]
      /\ magnitude' = [magnitude EXCEPT ![First] = Third, ![m] = newmag]
      /\ freed' = freed \cup {Second, Third, newphi, newmag}
                        \cup UNION {Tree(p) : p \in Parts(m)}
      /\ label' = [label EXCEPT ![First] = name]
      /\ models' = AddTo(models, First, name)
      /\ UNCHANGED again

\* Streams that are made, and neither listed nor freed.
Lose(n) == Make(n) /\ UNCHANGED <<models, freed, magnitude, phase, label, again>>

\* With a different number of dimensions only the copy is made, and lost: so
\* is that of vlbi_diff_models.
Mismatch(model, matrix) == Usable(model) /\ Usable(matrix) /\ Lose(1)

\* vlbi_del_model frees the stream, its magnitude and its phase, and theirs.
DelModel(name) ==
  /\ Contains(models, name)
  /\ Tree(StreamOf(name)) \cap freed = {}
  /\ models' = Remove(models, name)
  /\ freed' = freed \cup Tree(StreamOf(name))
  /\ UNCHANGED <<made, magnitude, phase, label, again>>

Next ==
  \/ \E name \in Names : AddModel(name) \/ Plot(name) \/ DelModel(name)
  \/ \E name, node \in Names :
       AddAgain(name, node) \/ CopyModel(name, node) \/ Mismatch(name, node)
  \/ \E name, a, b \in Names :
       \/ Combine(name, a, b) \/ Convolve(name, a, b)
       \/ GetFft(name, a, b) \/ GetIfft(name, a, b) \/ IfftInto(name, a, b)
  \/ \E n \in 1 .. 2 : Lose(n)

Spec == Init /\ [][Next]_vars

-------------------------------------------------------------------------------
(* Properties                                                                *)

\* The types of the variables; a name stands for one model.
TypeOK ==
  /\ models \in Seq(Entry) /\ UniqueNames(models)
  /\ made \in 0 .. MaxStreams
  /\ freed \in SUBSET Streams
  /\ magnitude \in [Streams -> Streams \cup {Null}]
  /\ phase \in [Streams -> Streams \cup {Null}]
  /\ label \in [Streams -> Names \cup {NoName}]
  /\ again \in SUBSET Streams

\* A model is listed under the name its stream carries, and a stream under one
\* name only, although vlbi_get_fft lists streams that are parts of another
\* model, too.  A stream that is added again carries the name that was given
\* last, whether or not it was listed under it.
NamesAgree ==
  /\ \A k \in DOMAIN models :
       label[models[k].stream] = models[k].name \/ models[k].stream \in again
  /\ \A j, k \in DOMAIN models :
       models[j].stream = models[k].stream => j = k \/ models[j].stream \in again

\* No stream is a part of two, or both parts of one: freeing a model can reach
\* a stream along one way only.
OneParent ==
  \A r, s \in Streams :
    /\ magnitude[s] # Null => magnitude[s] # phase[r]
    /\ r # s /\ magnitude[s] # Null => magnitude[s] # magnitude[r]
    /\ r # s /\ phase[s] # Null => phase[s] # phase[r]

-------------------------------------------------------------------------------
(* The inductive invariant behind them.                                      *)

\* Streams are made in order, a part after its whole.
InOrder ==
  /\ \A k \in DOMAIN models : models[k].stream <= made
  /\ \A s \in freed : s <= made
  /\ \A s \in Streams : \A p \in Parts(s) : s < p /\ p <= made

IInv == TypeOK /\ NamesAgree /\ OneParent /\ InOrder

-------------------------------------------------------------------------------
(* What the documentation says and the code does not do.                     *)

Listed == {models[k].stream : k \in DOMAIN models}

\* vlbi.h: a model can be removed by its "friendly name".  Removing one that
\* vlbi_get_ifft has made, or the matrix of a convolution, frees the parts that
\* are freed already; and a model that vlbi_get_fft has listed is freed with the
\* model it is a part of.
Removable == \A s \in Listed : Tree(s) \cap freed = {}
===============================================================================
