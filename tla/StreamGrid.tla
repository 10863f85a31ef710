------------------------------ MODULE StreamGrid ------------------------------
(***************************************************************************)
(* Where the elements of a stream are (dsp/stream.c 441-480), the shift of *)
(* a stream by half its sizes (dsp/buffer.c 23-44), and the sites of a     *)
(* Bayer mosaic that a pixel's colours are taken from (dsp/file.c          *)
(* 953-1141).  A stream of sizes <<w, h, ...>> is a function on the        *)
(* indices 0 .. w * h * ... - 1.                                           *)
(***************************************************************************)
EXTENDS Integers, SequencesExt

CONSTANT Unset  \* what an element holds that was never written

Product(sizes) == FoldLeft(LAMBDA m, size : m * size, 1, sizes)

\* The step of one in dimension d.
Stride(sizes, d) == Product(SubSeq(sizes, 1, d - 1))

Indices(sizes) == 0 .. Product(sizes) - 1

\* dsp_stream_get_position
Position(sizes, index) ==
  [d \in DOMAIN sizes |-> (index \div Stride(sizes, d)) % sizes[d]]

\* dsp_stream_set_position
Index(sizes, pos) ==
  FoldLeftDomain(LAMBDA index, d : index + Stride(sizes, d) * pos[d], 0, sizes)

\* The element that one changes places with.
Opposite(sizes, index) ==
  LET pos == Position(sizes, index)
  IN  Index(sizes, [d \in DOMAIN sizes |->
        LET half == sizes[d] \div 2
        IN  IF pos[d] < half THEN pos[d] + half ELSE pos[d] - half])

\* Mutant: without the fresh buffer, what is written first is gone.
ShiftedInPlace(sizes, buf) ==
  FoldLeft(LAMBDA b, x : [b EXCEPT ![x] = b[Opposite(sizes, x)],
                                   ![Opposite(sizes, x)] = b[Opposite(sizes, x)]],
           buf, [n \in 1 .. Product(sizes) \div 2 |-> n - 1])

\* dsp_buffer_shift: the first half of the elements is walked through, and each
\* written over its opposite and its opposite over it, in a fresh buffer.
Shifted(sizes, buf) ==
  FoldLeft(LAMBDA tmp, x : [tmp EXCEPT ![x] = buf[Opposite(sizes, x)],
                                       ![Opposite(sizes, x)] = buf[x]],
           [x \in Indices(sizes) |-> Unset],
           [n \in 1 .. Product(sizes) \div 2 |-> n - 1])

Even(sizes) == \A d \in DOMAIN sizes : sizes[d] % 2 = 0

-------------------------------------------------------------------------------
(* A Bayer mosaic of width w and height h, with the phase r in 0 .. 3.       *)

\* What is at a site: a row of the phase holds blue and green, another green and
\* red.
Colour(w, r, i) ==
  LET own == (i \div w) % 2 = r \div 2
      at  == i % 2 = r % 2
  IN  CASE own /\ at   -> "B"
        [] own /\ ~at  -> "GB"
        [] ~own /\ at  -> "GR"
        [] ~own /\ ~at -> "R"

Beside(i) == {i - 1, i + 1}
Above(w, i) == {i - w, i + w}
Around(w, i) == {i - w - 1, i - w + 1, i + w - 1, i + w + 1}

\* Something for each of the three colours.
Colours(red, green, blue) == [red |-> red, green |-> green, blue |-> blue]

\* Mutant: a blue site takes its first row for any other.
SitesOfAnyRow(w, h, r, i) ==
  LET col == i % w > 0
      bottom == i < w * (h - 1)
      right == i % w < w - 1
  IN  CASE Colour(w, r, i) = "B" ->
             IF col THEN Colours(Around(w, i), Beside(i) \cup Above(w, i), {i})
             ELSE Colours({i + w + 1}, {i + 1, i + w}, {i})
        [] Colour(w, r, i) = "GB" ->
             IF right THEN Colours(Above(w, i), {i}, Beside(i))
             ELSE Colours({i + w}, {i}, {i - 1})
        [] Colour(w, r, i) = "GR" ->
             IF bottom /\ col THEN Colours(Beside(i), {i}, Above(w, i))
             ELSE Colours({i + 1}, {i}, {i - w})
        [] Colour(w, r, i) = "R" ->
             IF bottom /\ right THEN Colours({i}, Beside(i) \cup Above(w, i), Around(w, i))
             ELSE Colours({i}, {i - 1, i - w}, {i - w - 1})

\* dsp_file_bayer_2_composite and dsp_file_bayer_2_rgb: the sites whose mean is the
\* red, the green and the blue of pixel i.  The four kinds of sites tell the edges
\* of the picture apart, each those it expects to lie at.
Sites(w, h, r, i) ==
  LET row == i > w           \* not in the first row
      col == i % w > 0
      bottom == i < w * (h - 1)
      right == i % w < w - 1
  IN  CASE Colour(w, r, i) = "B" ->
             IF row /\ col THEN Colours(Around(w, i), Beside(i) \cup Above(w, i), {i})
             ELSE Colours({i + w + 1}, {i + 1, i + w}, {i})
        [] Colour(w, r, i) = "GB" ->
             IF row /\ right THEN Colours(Above(w, i), {i}, Beside(i))
             ELSE Colours({i + w}, {i}, {i - 1})
        [] Colour(w, r, i) = "GR" ->
             IF bottom /\ col THEN Colours(Beside(i), {i}, Above(w, i))
             ELSE Colours({i + 1}, {i}, {i - w})
        [] Colour(w, r, i) = "R" ->
             IF bottom /\ right THEN Colours({i}, Beside(i) \cup Above(w, i), Around(w, i))
             ELSE Colours({i}, {i - 1, i - w}, {i - w - 1})
===============================================================================
