# OpenVLBI in TLA+

OpenVLBI is a library for very long baseline interferometry with a small server
in front of it. A *context* holds *nodes* (antennas, with a stream of samples
each), the *baselines* between them and *models* (images and planes). A *plot*
correlates the nodes of every baseline, sample after sample, and adds each
visibility to the pixel of the UV plane that the baseline points at, one thread
per baseline. Models are transformed, combined, saved and loaded. libdsp, in
`dsp/`, is the signal library underneath, with threads of its own. The server
reads commands from lines of text or from JSON documents.

This directory holds TLA+ modules for the parts of the program where order,
sharing and bookkeeping matter, TLC configurations that check them on small
instances, and TLAPS proofs of the properties for every value of the constants.

## 1. The system's parts

Paths are relative to the repository. "Hard" says what a test would hardly
reach.

| Part | State | Operations | Hard |
|---|---|---|---|
| Collections (`vlbi/collection.cpp` and its subclasses) | an array of named items | add, remove, get, at, contains, clear | silence about names that are taken; compaction after a removal |
| Nodes and baselines (`vlbi/nodecollection.cpp`, `baselinecollection.cpp`, `stream.cpp` 263-627) | nodes, the correlation order in two copies, baselines with locks, buffers, relative flags | add, copy, filter, delete nodes; order, location; lock, unlock, look up baselines | everything is rebuilt when a node comes or goes; the order and the count bound each other; index arithmetic modulo the count |
| UV plot (`vlbi/stream.cpp` 143-244, 629-707) | the plane, the running count, the mutex, the threads, the nodes' locations | plot, interrupt | threads of many baselines on one plane and on shared nodes; an unprotected count that throttles and divides; a growing stride |
| Models (`vlbi/stream.cpp` 409-473, 709-852, `dsp/fft.c`) | listed streams, their magnitude and phase | add, add again, copy, delete, plot into, transform both ways, mask, stack, subtract, convolve, shift | two ways to one stream: as a model of its own and as a part of another; freed parts that stay parts |
| Contexts (`vlbi/stream.cpp` 246-261, `vlbi_server.cpp` 683-776) | named instances, the current one, one mutex for all | add, set, delete a context; quit; signals | a signal between two steps, and another in its handler; one mutex destroyed by whoever closes first |
| Threaded stream operations (`dsp/stream.c` 481-868) | the caller's buffer, the copy, the threads' indices | align, crop, scale, rotate, sum, multiply, subtract | parts by integer division, computed by every thread for itself |
| Shape of a stream (`dsp/stream.c` 234-480) | dimensions, children, stars, triangles | add, set, delete; index from position and back | arrays that are moved by hand |
| Buffers, filters, signals, statistics (`dsp/buffer.c`, `filters.c`, `signals.c`, `stats.c`) | samples | element-wise arithmetic, median, sigma, shift | windows over an edge, odd sizes |
| Picture files (`dsp/file.c`) | the caller's streams; files, structures and buffers in hand | read and write FITS, PNG and JPEG; the sites of a Bayer mosaic | a failure at any step; samples interleaved or in planes; writers that rescale what they write; edges, phases and the array of a mosaic |
| Models and files (`vlbi/stream.cpp` 854-1029, `vlbi_server.cpp` 244-344) | lists of channels | load, save, upload, download | a file becomes several models, of which some names may be taken; a saver finds them again by their names |
| Geometry and time (`vlbi/baseline.cpp`, `astro.c`, `matrix.c`, `time.c`) | a baseline's time and projection | projection, offsets, conversions | floating point only |
| Base64 (`vlbi/base64.c`) | none | encode, decode | lengths that are no multiple |
| Server: text and JSON (`vlbi_server.cpp`, `vlbi_server_json.cpp`) | the current context, the plot's settings and delegate, the section in hand | about forty commands | fields that a document leaves out; settings, delegates and code that an earlier message left, and code without an end; names that end where a line should |
| INDI front end (`vlbi_server_indi.cpp`) | a device's client | | does not fit the server's class in this repository |
| Third-party code and data (`mjs.c`, `json.c`, `getline.c`, `cat/`) | | | not part of the program's own logic |

How they interact: the server calls the library's C functions, which find a
context's `NodeCollection`, its `BaselineCollection` and its `ModelCollection`.
Every change of the nodes calls the baselines' `update`. A plot reads the nodes
and the baselines and ends by listing a model. Models are `dsp_stream`s, and
the operations on them call libdsp's; loading and saving go through libdsp's
functions on files. A message of text or a document becomes calls of the
library on the current context, with settings that the server keeps. Plot threads share the plane, the running
count, the nodes and, with every other context, one static mutex.

What makes each part correct: a collection never has a name twice; the
baselines are the pairs of the nodes there are; a plot loses no term, ends, and
stores what its threads made once they are over; a model is what its name says
and no stream has two owners; no closed context is used or closed again; a
call goes to the context that was named, with the settings and the delegate of its own
message; a picture's samples are in their channels, and what was loaded
together is saved together; a function on files uses only what it holds; a
threaded operation has the result of a single thread.

## 2. Modules

| Module | What it models |
|---|---|
| `Collection` | operators: the collection as a sequence of named records |
| `NodeContext` | nodes and baselines of one context, over `Collection` |
| `UVPlot` | one plot after the other: the dispatcher and one thread per baseline |
| `PlotService` | what a plot promises, abstractly; `UVPlot` implements it |
| `DspThreads` | one threaded operation of libdsp, whatever it computes |
| `ModelStore` | models and the streams behind them, over `Collection` |
| `ServerContexts` | contexts, the mutex, and the end of the process, over `Collection` |
| `ServerCommands` | text messages and JSON documents, over `ServerContexts` |
| `ModelFiles` | models from and to files, channel by channel, over `ModelStore` |
| `StreamGrid` | operators: indices and positions, the shift, the sites of a mosaic |
| `PictureFiles` | the functions that read and write pictures, step by step, over `StreamGrid` |
| `...Proofs` | the theorems of the module of that name; `ModelFilesProofs` has those of `ModelStore` too, and `PictureFilesProofs` those of `StreamGrid` |
| `MC...` | the constants for TLC |

### Collection

`Add` drops an entry whose name is taken, `Remove` closes the gap that `defrag`
closes, `Get` takes the first entry of a name. The modules of nodes, models and contexts take
every listing from here, so that what the collection does wrong, they do.

### NodeContext

`nodes` and `baselines` are the two collections. `order` is
`NodeCollection::correlation_order`, `border` the copy that the baselines keep;
`SetOrderOf` is the whole of `NodeCollection::setCorrelationOrder`, with the
bounds by the count, the early return and the rebuilding of all baselines
(`Rebuilt`, with `NodeIndex` for the modular index of `update`). `AddNode`,
`CopyNode`, `FilterNode` and `DelNode` end by it, as in the code. A node's `id`
tells apart what the program tells apart by address, so that a baseline can
refer to a deleted node. `promised` is a history variable: which pairs a caller
has locked. The flag `relative` of the baselines starts with any value, because
it is not initialised. Baselines are listed under the names of their nodes,
joined by asterisks; nodes are taken to have none in theirs. Samples,
frequencies, positions and a node's index are left out.

### UVPlot

The dispatcher (`main`, `bi`) runs the loop of `vlbi_get_uv_plot`: it waits in
the throttle (`Spin`), increments the running count in two steps (`IncRead`,
`IncWrite`), creates the thread, and at the end joins all threads and stores
the model (`Join`, `Save`). A thread (`pc[b]` and its local variables) runs
`fillplane`: it reads the count for its divisor (`Begin`), looks at the
interrupt flag, moves the nodes of the whole context (`Locate`, one step per
node), projects (`Project`, or `Skip` and `Drop` when nothing is plotted), adds
to the pixel between `Lock` and `Unlock` in two steps (`ReadPixel`,
`WritePixel`), and decrements the count in two steps. A caller's interrupt flag may be set at any
time, before the plot too. The mutex may not be
initialised; then nothing is plotted, as in the code. A pixel is the sequence of
the terms that were added to it. Which pixel a baseline points at is the
constant operator `Pixel`, of the time and of the locations of its nodes.

`PlotService` has no threads: terms are added one at a time, in any order
that keeps each baseline's own, and a finished plot is delivered once. The
refinement mapping is `Service`, at the end of `UVPlot`: the service is busy unless
the dispatcher is idle, and has to do the baselines whose threads are not over.

### DspThreads

The caller copies its stream, sets the copy to zero or not (`Zeroed`), starts
`Threads` threads, joins them and copies the result back. A thread handles the
elements from `First(c)` up to `End(c)`, the code's integer divisions, each in
two steps. `Made` is what it computes from an element and from the parent's
buffer, which is the caller's own (`SameStream`) or another's. The threads are
assumed as many throughout a call, and the product of their number and the
length to fit an int (`DspAssumption`).

### ModelStore

A stream is a number, in order of its making. `magnitude` and `phase` are its
parts, `label` its name, `freed` what was freed. `Tree(s)` is what
`dsp_stream_free` reaches. Each function on models is an action with all its
calls: `Convolve` makes, transforms, lists and frees. `Register` is the end that
many of them share: a new stream gets a name and is listed. `Plot` lists a copy
of the plane under a new name; a model of that name is kept, and its buffer and
those of its parts are allocated anew, which the model takes only while none of
them is freed. `AddAgain` is `vlbi_add_model` of a stream that is listed:
`again` remembers which. The program is followed
up to the first use of a freed stream; after that the code has no defined
meaning, and the action is not taken. `Lose` is the making of streams that nobody lists or frees, `Mismatch` that of the convolution or the
difference of models with different dimensions.

### ModelFiles

`Load` begins what `vlbi_add_model_from_png`, `_jpeg` and `_fits` do with a file
that could be read, `ListChannel` and `ListWhole` list its streams one after
the other, as the code does. `SavedList` is the loop of the savers as it is,
with the first stream twice. `Upload` and `Download` are the server's functions.
`job` and `saved` are history: what was loaded and saved last, and what the names
of the file stood for before it was loaded. Everything else that is done with
models is a step of `ModelStore` (`Other`).

### StreamGrid and PictureFiles

`Position` and `Index` are the two functions of `dsp/stream.c`, `Shifted` the
loop of `dsp_buffer_shift`, `Sites` what the four branches of
`dsp_file_bayer_2_composite` and `dsp_file_bayer_2_rgb` take a pixel's colours
from. Where they write them is `Place` of `PictureFiles`: the composite has a
plane for each colour, the array of `dsp_file_bayer_2_rgb` leaves its first
element out and goes on one past the last, the element `3 * Product(sizes)` of
`result`. In `PictureFiles` each function of
`dsp/file.c` is a sequence of steps that take, use and give back a file,
a structure or a buffer, and may fail with the label or the return where they
go then (`ReadFits`, `WritePngComposite`, ...). `Succeed` and `Fail` run such a
sequence; its end delivers streams (`Deliver`), a file (`Complete`) or nothing
(`GiveUp`). The samples are told apart by channel and pixel: `Streams` is how
streams are made of a buffer, `Laid` how a file is laid out. A file of the world
may have a channel of opacity, or be a mosaic: the FITS reader takes
its colours apart as words of 32 bits, of which each element of the array has two
(`Words`). A loaded stream may be shifted, as `vlbi_shift`
does, between reading and writing. A sample knows whether it was stretched
(`Stretch`); that it was stretched again makes no difference, for after the first
time it has the range that the second gives it. Depths, compression, byte order and the
range itself are left out.

### ServerContexts

`addContext` and `delContext` are two steps each, because the signal handler
can run between them. The handler is three steps: `Signal` enters it,
`HandlerDestroys` runs the destructor, `HandlerExits` calls `exit`. It ignores
its own signal only, so that another of those it is installed for may interrupt
it and begin again; `caught` are those that came. `main` destroys the server too,
and a signal may still come before it returns. `destroyed` counts the runs of the
destructor. Signals are taken between steps: one that comes inside of
`vlbi_init`, `vlbi_exit`, a plot or the collection's own functions finds their
variables in the middle of a change, about which nothing is said. `closed` counts how often an
instance was given to `vlbi_exit`; `mutex_initialized` is the library's flag,
which every `vlbi_init` sets and every `vlbi_exit` clears. `Abort` is the end of
the process where `Parse` reads through a null pointer.

### ServerCommands

`front` says which of the two servers it is. A text message is one or more
lines; `Word` is what becomes of its last word when there are more. Every
command of `Parse` is one action, or one operation of `TextCall`, that keeps
the call it makes (`call`: which, on which instance, what was asked for) and
the settings it writes (`written`). A document is a number of sections, read
one after the other (`reader`); a section gives all of its fields but a few
(`Given`), each sets its bit (`Bits`, with the bit that frequency and sample
rate share), and `CheckMask` decides. A context's section adds it and makes it the
current one in steps between which a signal may come. `delegate` and
`code` are what a plot leaves in the server for the next. The code of a document
is copied without its end: `Copied` is the message's own, or that and more. Values, and
whether arguments are numbers or base64, are left out.

## 3. What the runs check

Passing runs:

| Run | Instance | Properties |
|---|---|---|
| `plot_one_thread` | three nodes, three baselines, up to five samples, moving nodes of unequal streams, interrupts, one thread at a time | types; the samples looked at are those a growing stride leaves; threads follow each other, project from their own locations, and plot in sequential order; the plot ends |
| `plot_service` | the same with two threads at a time, one or two samples and no interrupt | no term is lost; a stored model is final; the throttle never waits for threads that are all gone; the threads implement `PlotService`; the plot ends |
| `context_baselines` | four names, up to five nodes made, orders 1 to 3, one lock | types; every pair once; no deleted node; no read past a baseline's nodes; the two orders agree; locations hold; two names find the baseline between them |
| `dsp_own_stream` | seven elements, three threads, two inputs | no two threads at one element; the result appears at once and is that of one thread; the call returns |
| `server_contexts` | two names and what a second line makes of them, three instances, two signals, documents of one or two sections that leave out a field or none | types; until the server is destroyed no closed context is listed; no open one is lost; the mutex has a user; a listed instance is closed no more often than the destructor was run, another one once; calls go to the context that the document named; a plot has the delegate its message asks for; a section that is acted upon has written the settings it uses |
| `model_store` | two names, six streams, one addition of a listed stream | names and streams agree, but for the stream that was added again; no stream is a part of two |
| `model_files` | one name for files and two for its channels, five streams | the same with three names, but for additions; a file is listed as a whole under those of its names that were free, and the others stay; when all were free, what is saved at once holds each channel, in their order, and nothing else |
| `picture_files` | pictures of 4x4, 2x2 and 3x2, one or three channels, opacity, mosaics, one stream shifted, all phases of a mosaic | samples are in their channels after any writing and reading; a function uses and gives back only what it holds; the shift is its own inverse for even sizes, and the caller's samples change by it and by `dsp_file_write_jpeg` only; the colours of a mosaic come from sites of these colours and are not written over |

Each property has a mutant, an operator beside the one it replaces, which is the
code with a plausible mistake (a dropped lock, a hasty join, an eager
allocation), and which TLC finds to break the property.

Runs that find a disagreement between the code and its documentation (the
module states the property last, under "What the documentation says"):

| Run | What it shows |
|---|---|
| `plot_thread_limit` | with a limit of two, three threads run after a lost increment |
| `context_lock` | adding a node unlocks every baseline |
| `dsp_each_element` | an element between two parts is not multiplied by the mask |
| `model_removable` | a model that was the matrix of a convolution cannot be removed without freeing its parts twice (nor one made by the inverse transform); deleting a transformed model frees two models that stay listed |

Other disagreements, seen while modelling and too plain to need a run:

* At order three a baseline can have one node twice: `update`'s index of the
  x-th node (`vlbi/baselinecollection.cpp:55`) repeats, while
  `vlbi/vlbi.h.cmake:649` counts the nodes correlated into a baseline.
  `AllPairs` speaks of the first two nodes of a baseline, for this reason.
* After a deletion that leaves fewer nodes than the order,
  `setCorrelationOrder` returns before it rebuilds
  (`vlbi/nodecollection.cpp:87`), and baselines of the deleted node stay
  listed. `NoDeletedNode` is stated for enough nodes, for this reason.
* A node's index is the count when it was added (`vlbi/stream.cpp:279`); after
  a deletion nobody may have index zero, though `vlbi/vlbi.h.cmake:95` says
  "oldest zero".
* `BaselineCollection::relative` is not initialised
  (`vlbi/baselinecollection.cpp:68` reads it): until `vlbi_set_location` the
  flag that a baseline reports is arbitrary, as `NodeContext`'s `Init` has it.
* The location of a moving node is indexed by the count of iterations
  (`vlbi/stream.cpp:196`), not by the sample: once the stride has passed over a
  sample, the samples after it are projected from earlier ones' locations,
  though `vlbi/vlbi.h.cmake:743` has a location for each element.

In the server:

* Only the first line of a message is obeyed: `vlbi_server.cpp:364` replaces the
  last line end only, so that the words of a second line join the last word of the
  first, or are ignored. `README.md:149` and `scripts/test.sh` list one command
  after another.
* `get models`, `get nodes` and `get baselines` without a further word are
  ignored (`vlbi_server.cpp:379`), though `README.md:171` shows them so.
* The filters of a document's section `edit` are looked for only where the field
  `edit` is missing, and then compare its null pointer
  (`vlbi_server_json.cpp:501`); in the model this ends the process.
* Frequency and sample rate share a bit of the mask
  (`vlbi_server_json.cpp:261` and 266): a plot is made when either is given.
  `OwnSettings` says what is left.
* The flag `relative` is not initialised (`vlbi_server_json.cpp:42`), and is
  handed on as the argument `geo` of `addNode`, its opposite.
* `add node` of a message gives the node a pointer to a local variable as its
  location (`vlbi_server.cpp:542`), though `vlbi_server.h` says "don't free() it
  until the node is deleted".
* `CopyNode` calls `vlbi_copy_model` (`vlbi_server.cpp:206`).

* `code` is reallocated to the length of the text and copied without its NUL
  (`vlbi_server_json.cpp:303`), while `js_callback` takes it for a string (line
  35): what the memory holds after it, the rest of a longer earlier code for
  one, is part of the callback. `DelegateFits` says that the message's own code comes first.
* A signal that comes while the handler of another is running, or after `main`
  has destroyed the server, runs the destructor again (`vlbi_server.cpp:716`):
  the current instance, which is still listed, is closed a second time.
  `ClosedByOne` counts the runs.
* Closing one context destroys the mutex of all (`vlbi/stream.cpp:260`). Until the
  next `vlbi_init`, a plot of any context runs its whole loop and only the addition to
  the plane is skipped (line 226).

Of models and files:

* A saver puts the first stream twice (`vlbi/stream.cpp:940`): a gray model is
  written with two components and one of three channels with four, while
  `dsp/dsp.h.cmake:1466` knows 1 or 3. `ChannelsSaved` says what holds nevertheless.
* `vlbi_add_model` of a stream that is listed renames it, whether or not the new
  name is free (`vlbi/modelcollection.cpp:33`): its first entry keeps the old name, and a
  second entry may give one stream two names.
* A plot into a model that was transformed reaches its magnitude and phase too
  (`dsp/stream.c:94`), which may be freed.
* The functions that write JPEG and FITS composites read `stream[components]`
  (`dsp/file.c:269` and 607), which the savers' array has not.
* `vlbi_del_model` of a file's name leaves the models of its channels, and the
  next file of that name lists its own sum beside them.
* A loader does not list a stream whose name is taken, and loses it:
  `LoadedTogether` says so.
* A SDFITS file's primary array is asked for as a table, and of several nodes under
  one name only the first is kept.

Of `dsp/file.c`:

* `dsp_file_write_jpeg` stretches the caller's samples in place (line 563);
  `ShiftedBack` says for which streams it does.
* After a failure what was taken is kept; after `dsp_file_read_jpeg` the file and
  the structure are kept in any case, and after `dsp_file_write_jpeg` of a mosaic the array
  of its colours (line 562). `Kept` lists them for `InHand`.
* A mosaic's colours are doubles, and the FITS reader takes them apart as words of 32
  bits (line 140): it reads the first half of the array, each sample in two.
* A picture with opacity is read in rows of one channel more than its components
  are taken apart by (line 698): `OwnStream` leaves it out.
* With a phase other than 0, a mosaic's edges take colours from outside of
  the picture or from other colours' sites; `DrawnFromOwn` leaves those
  edges out. `dsp_file_bayer_2_rgb` begins at its second element (line 1059) and
  writes one past the end, though `dsp/dsp.h.cmake:1482` has "a ordered 3 RGB
  array": who reads it as one takes the blue of a pixel for the next one's red.
  `DrawnFromOwn` speaks of the elements that are written (`Place`).
* `fmax(16, bpp)` (line 56) takes bytes and floating point for 16 bits.
* The PNG writer never calls `png_write_end`, and writes samples in the byte order
  of the machine, while the reader swaps them.

Of libdsp's buffers and streams:

* A shift of odd sizes leaves elements unset (`dsp/buffer.c:28`); `ShiftedBack` is
  stated for even ones.
* `dsp_stream_del_child`, `_del_star` and `_del_dim` use the arrays they have
  freed, and `_del_triangle` frees the last triangle after it has moved it
  (`dsp/stream.c` 278-443).
* The threads of median and sigma read windows that keep, at the edges, what the
  last window had (`dsp/buffer.c:264`).
* The inverse transform of a transform is not the stream again: half of the
  spectrum is used (`dsp/fft.c`).

Why the bounds are enough. Three baselines of three nodes are the least in
which every two baselines share a node and two may be alive at once; the plane
and the `Pixel` of `MCUVPlot` let baselines share a pixel, stay in one and
leave the plane; five samples let the stride reach three. Six baselines are
needed for the count to lose an increment and pass the limit. Four nodes make
the index arithmetic wrap around for the first time; one node more than there
are names lets a name be used again. Seven elements and three threads leave
gaps of one; a buffer's values are chosen so that an element made twice, or of
made elements, differs. Six streams (`model_store`, `model_removable`) let a model be
convolved with itself, and a transformed one with another; five let a
transformed model be transformed again, with both of its parts listed, and a
file of two channels be loaded and one of its models be transformed, downloaded
or copied before it is saved. One stream that is added again is enough to have two
entries and to lose its name. Three instances of the library are one that is
current, one that is deleted and one that takes its name. Two signals let a handler
be interrupted after `main` has destroyed the server. Two sections are enough
for one to use what an earlier one has left, and a missing field for each to be
missing alone, each of the two that share a bit too; both of them are in the
theorem `SettingsOwn`. A picture of 4x4 has
sites of every colour inside and at every edge; 3x2 has an odd size. What holds only for these
instances is not claimed: the theorems of the next section are for all.

Symmetry is used for names and signals, which the code only compares, and in runs without
temporal properties. Interrupts of a plot with two threads, and operations on
two streams (`SameStream` false), have no run of their own: the theorems of
`UVPlotProofs` and `DspThreadsProofs` hold for them too.

Deadlock is checked, except in `ServerContexts` and `ServerCommands`, where the
process ends, and in `ModelStore` and `ModelFiles`, which stop when the streams
are used up or when every continuation uses a freed one.

Fairness. `UVPlot` assumes weak fairness of the dispatcher and of every thread
(the operating system schedules them; the throttle sleeps and looks again).
Nothing is assumed of the order in which the mutex is given: a thread that waits
for it competes with finitely many iterations of others, so that it gets it in
the end. `DspThreads` assumes weak fairness of the caller and of every thread.
Nobody has to begin a plot or a call, and an interrupt may never come.

## 4. What is proved

Theorems are for any number of nodes, baselines, samples, threads, elements,
names, instances and streams, under the assumptions that the modules name
(`...Assumption`), which TLC evaluates for the instances.

* `UVPlotProofs`. `TypeCorrect`; `NothingLost`: no term is lost, because only
  the holder of the mutex is between its load and its store (the invariant says
  that what it has loaded is still there); `StoredFinal`: at the end every
  thread has been joined; `NeverStranded`: the throttle waits only while some
  thread is alive, by an invariant on the last thread that was created, whose
  store is still to come; with a limit of one, `Serialised`, `UnitDivisor` and
  `ProjectedWhereSet` follow from an invariant that ties the count to the
  place of the only thread.
  `StrideGrows`: between two samples that a thread plots, its time runs through the
  triangular numbers of its step (`Striding`, which names the sample plotted last
  as a witness, and knows that a thread that has not begun has plotted nothing:
  `CreatedInv`). `InSequence`: with a limit of one, the pixels have their terms in
  the order of a sequential loop, because the thread that runs is the last that was
  created (`LastRuns`) and what it has plotted lies before its time (`PastInv`).
  `Implements`: each step of a thread or of the dispatcher is a step of
  `PlotService` or leaves what the caller sees as it was. It needs that a sample is
  added within the time (`WithinInv`) and later than those before it (`PastInv`),
  that no thread is at work between two calls (`QuietInv`), and bounds for the
  divisor: the racy count may fall below one, but by no more than one for each
  thread that is over (`DivisorInv`).
* `NodeContextProofs`. Index arithmetic first: `EveryPairMade`, `NoPairTwice`,
  `NoSelfPair` say of any `n` that the n(n-1)/2 indices modulo n are the pairs,
  each once. Then `ContextConsistent`: `IInv` says that with enough nodes the
  baselines are those `update` would make now (`Fresh`), which no property says
  by itself but all need. From it `PairsComplete` and with it `PairFound` (the
  names of two nodes find their baseline and no other), `DeletedGone`,
  `NeverOverrun`, `OrdersKept`, `LocationKept`, `TypeCorrect`.
* `DspThreadsProofs`. `Apart`: the parts never overlap; `SmallGaps`: at most one
  element is left out between two; `EvenParts` and `EvenIsWhole`: none when
  the threads divide the length, and then the documented result holds (what
  `dsp_each_element` refutes otherwise); `Atomic`: the caller's buffer changes
  at once. The invariant (`PartsConsistent`) says of every element of the copy whether a thread has it behind it.
* `ServerContextsProofs`. `ContextsConsistent`, with `OneHolder`: an instance is
  listed once or in the hand of a command, never both. From it
  `NeverClosedTarget`, `NothingOrphaned`, `MutexUsed`. `ClosedOnce` needs no more:
  an instance that leaves the list was not closed by a destructor before, since `main` does
  not go on after one has run but to return.
* `ServerCommandsProofs`. `CommandsConsistent`, with `NameHeld`: between two
  sections the context a document named last is the current one, and the call was
  made with it. From it `CallsReachNamed`, `DelegateAsAsked`, `SettingsOwn`,
  `ServerTypeCorrect`. A command changes the contexts by an action of
  `ServerContexts` only, so that its invariant is kept here too.
* `ModelFilesProofs`. First for `ModelStore`: `ModelsConsistent`, with `InOrder`:
  a part is made after its whole and before the next stream, so that a new
  stream is nobody's part. From it `OneListing`, `PartsApart`, `TypeCorrect`.
  Then for `ModelFiles`: `FilesConsistent`, with `InProgress`: while a file is
  listed, the channels before the next one are listed under their numbers if these were free, and
  every other name of the file stands for what it did before. From it `ListedWhole`,
  `SavedAsLoaded` (the channels are the numbers of which all before are listed,
  so that the loop finds each of them in turn), and with what is proved of
  `ModelStore` `FilesOneListing` and `FilesPartsApart`.
* `PictureFilesProofs`, for pictures of any two sizes. The functions of
  `StreamGrid` are folds of the community modules, each the choice of a function
  that solves a recursion on sets. `Induction` (from the well-foundedness of the
  naturals) and `FoldExists` show that there is such a function, so that the
  choice has its properties: `IndexOfPosition` and `PositionOfIndex`, the shift's
  steps (`ShiftSteps`), and that in even sizes each element has been taken from
  its opposite after the last (`ShiftedIs`).
  `CallsConsistent`: a table (`HoldOf`) says what each function has in hand
  before each of its steps; `ProgramsInOrder` checks the functions against the
  table, and a failure leads to the last step or out. From it `HeldInHand`.
  `PicturesConsistent`: what a file has in its data are its channels in the
  layout of its format, whoever wrote it, and what a reader takes out of that layout
  are the channels again (`PlanarIs`, `InterleavedIs`). From it `ChannelsOwn` and
  `ShiftsBack`. For the latter the caller's streams are the loaded ones, shifted or
  not and stretched or not, as `turned`, `scaled` and the step of a running
  `dsp_file_write_jpeg` say; it needs that the shift of a stretched stream is the shifted
  one stretched (`StretchedShift`), and that stretching twice is stretching
  (`StretchedTwice`).
  `MosaicsConsistent`: the elements hold the sites of the pixels that were passed,
  since no two pixels share one (`PlacesApart`). From it `MosaicDrawn`: off the edges, and in
  phase 0 at the edges too, each of the four branches names sites that are in
  the picture, next to the pixel and of the colour asked for (`SitesOwn`).
* `CollectionProofs`. Lemmas: what `Add` and `Remove` keep.

Every safety invariant, action property and refinement that a passing run checks
has its theorem. Model-checked only is liveness (`Termination`, `Returns`), which
is out of the prover's reach. The proofs keep the abstractions of the models: sizes are any numbers, so that their
product is not bounded by the width of an int, and a picture has two sizes and one or
three channels.

## 5. What is not modelled

* Values: visibilities, geometry, time, and samples but for the ones that
  `PictureFiles` tells apart. TLC has no real numbers, and the properties here
  do not depend on them.
* The results of `pthread_create` and `malloc`.
* libpng, libjpeg, cfitsio, fftw, and the vendored scripting engine, JSON parser
  and getline (`mjs.c`, `mjs.h`, `json.c`, `getline.c`), which are half of the
  lines of the repository's C and C++, and the tables of `base64_luts.h` and
  `dsp/fitsidi.h`, another sixth. What the program does with them is modelled where they are called.
* The front end for INDI: it calls functions that `vlbi_server.h` does not
  declare (`SetFreq` and others), so that there is no program to check.
* Children, stars and triangles of a stream, and their alignment: their removal uses
  what it has freed, and the rest is floating point.
* Median, sigma, filters, generators, statistics, features: arithmetic on
  samples without control of its own.
* `dsp_file_write_fits_bayer`, `dsp_file_bayer_2_gray`, which makes one channel of a
  mosaic, and `dsp_file_composite_2_bayer`, which adds to memory it has not set.
* Signals inside of the library's functions: a plot that is interrupted by one, or
  `vlbi_exit` by another's `vlbi_exit`, is in the middle of changes that the modules
  take for one step.
* Adding a listed stream again has a run of its own, since the run on files has no room for
  it (`MaxAgain` is 0 there); the theorems on files leave nothing out.
* The base64 codec: a table and a loop over characters.

## 6. Plan

What is left, in this order:

1. `NodeContext` and `ModelFiles` together under `ServerCommands`: a command's call
   as a step of the context it goes to.
2. The lemmas of `PictureFilesProofs` for streams of any number of dimensions:
   `IndexOfPosition` and `ShiftedIs` with products of many sizes.
3. The base64 codec against its inverse, for short inputs.
