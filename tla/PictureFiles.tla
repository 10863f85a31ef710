----------------------------- MODULE PictureFiles -----------------------------
(***************************************************************************)
(* Reading and writing pictures (dsp/file.c): the order in which each      *)
(* function takes, uses and gives back its files, structures and buffers,  *)
(* the steps that may fail and where they lead, and where the samples go.  *)
(* A picture in memory is a stream per channel and one more of their mean, *)
(* which can be shifted (vlbi_shift).  Depths of samples, compression, the *)
(* order of bytes and the range that samples are stretched to are left     *)
(* out: a stretch changes samples once.                                    *)
(***************************************************************************)
EXTENDS StreamGrid

CONSTANTS
  AllSizes,   \* sizes of pictures, a width and a height
  MaxColours, \* bound: channels of a picture, 1 or 3
  MaxShifted  \* bound: the streams up to this one are shifted

ASSUME PictureAssumption ==
  /\ AllSizes \subseteq [1 .. 2 -> Nat \ {0}]
  /\ MaxColours \in {1, 3} /\ MaxShifted \in Nat

VARIABLES
  sizes,    \* the sizes of the picture
  file,     \* the file
  picture,  \* the caller's streams, the mean last; empty if nothing was loaded
  call,     \* the function that runs: op, the step it is at, and its success
  held,     \* what it has taken and not given back
  loaded,   \* history: the picture as it was loaded
  source,   \* history: the channels that the file loaded from was made of
  turned,   \* history: the streams that were shifted an odd number of times
  scaled,   \* history: the streams that dsp_file_write_jpeg was called for
  result    \* the sites that the colours of a mosaic were taken from, by the
            \* element of the new array that they were written to

vars == <<sizes, file, picture, call, held, loaded, source, turned, scaled, result>>

Pixels == Indices(sizes)
Formats == {"fits", "png", "jpeg"}
Kinds   == {"plain", "opacity", "mosaic"}
Readers == {"read_fits", "read_fits_mosaic", "read_png", "read_jpeg"}
Writers == {"write_fits", "write_fits_composite", "write_png_composite",
            "write_jpeg", "write_jpeg_mosaic", "write_jpeg_composite"}
Mosaics == {"bayer_2_rgb", "bayer_2_composite"}

FormatOf(op) ==
  CASE op \in {"read_fits", "read_fits_mosaic", "write_fits", "write_fits_composite"} -> "fits"
    [] op \in {"read_png", "write_png_composite"} -> "png"
    [] op \in {"read_jpeg", "write_jpeg", "write_jpeg_mosaic", "write_jpeg_composite"} -> "jpeg"

-------------------------------------------------------------------------------
(* Where the samples are.                                                    *)

Sample(v)     == [of |-> v, stretched |-> FALSE]
Mean(samples) == Sample([mean |-> samples])

\* dsp_buffer_stretch; of a sample that was never written nothing is known then.
Stretch(v) == IF v = Unset THEN Unset ELSE [of |-> v.of, stretched |-> TRUE]
Stretched(buf) == [x \in Pixels |-> Stretch(buf[x])]

\* The samples of one pixel next to each other, or channel after channel.
Interleaved(channels) ==
  [i \in 0 .. Len(channels) * Product(sizes) - 1 |->
     channels[(i % Len(channels)) + 1][i \div Len(channels)]]
Planar(channels) ==
  [i \in 0 .. Len(channels) * Product(sizes) - 1 |->
     channels[(i \div Product(sizes)) + 1][i % Product(sizes)]]

Laid(format, channels) == IF format = "fits" THEN Planar(channels) ELSE Interleaved(channels)

\* The streams of n channels and their mean, taken from a buffer by a function that
\* says where the sample of a channel and a pixel is.
Streams(buf, n, At(_, _)) ==
  [k \in 1 .. n + 1 |-> [x \in Pixels |->
     IF k <= n THEN buf[At(k - 1, x)] ELSE Mean([c \in 1 .. n |-> buf[At(c - 1, x)]])]]

\* dsp_stream_from_components
FromComponents(buf, n) == Streams(buf, n, LAMBDA y, x : y * Product(sizes) + x)

\* Mutant: one channel is taken after the other.
RgbInPlanes(buf, n) == Streams(buf, n, LAMBDA y, x : y * Product(sizes) + x)

\* dsp_buffer_rgb_to_components
RgbToComponents(buf, n) == Streams(buf, n, LAMBDA y, x : x * n + y)

\* A file of the world, with its channels told apart, and maybe one of opacity; a
\* mosaic has a single one.
Foreign(format, n, kind) ==
  LET channels == [c \in 1 .. n |-> [x \in Pixels |-> Sample([channel |-> c, pixel |-> x])]]
      opacity  == [x \in Pixels |-> Sample([channel |-> 0, pixel |-> x])]
  IN  [format |-> format, channels |-> channels, kind |-> kind,
       data |-> Laid(format, IF kind = "opacity" THEN Append(channels, opacity) ELSE channels)]

\* The array that dsp_file_bayer_2_rgb makes of a mosaic, as words of 32 bits: two
\* for each of its elements, of which the first half of the array is read.
Words == [j \in 0 .. 3 * Product(sizes) - 1 |-> Sample([word |-> j])]

\* What a reader makes of a file.  It reads rows of all the channels and then
\* forgets the opacity.
Read(from) ==
  CASE from.kind = "mosaic" -> RgbToComponents(Words, 3)
    [] from.kind # "mosaic" /\ from.format = "fits" ->
         FromComponents(from.data, Len(from.channels))
    [] from.kind # "mosaic" /\ from.format # "fits" ->
         RgbToComponents(from.data, Len(from.channels))

\* What a writer makes of the first n streams, of stretched copies or what it has
\* stretched in place: dsp_buffer_components_to_rgb, or one after the other.
Written(format, n) ==
  LET channels == [k \in 1 .. n |-> Stretched(picture[k])]
  IN  [format |-> format, channels |-> channels, kind |-> "plain",
       data |-> Laid(format, channels)]

Torn(format) == [format |-> format, channels |-> <<>>, kind |-> "plain", data |-> <<>>]

-------------------------------------------------------------------------------
(* The functions, as sequences of steps.  A step takes, needs and gives back *)
(* things; one that may fail has the step to go to then, 0 if it may not.    *)

Step == [takes |-> {}, needs |-> {}, gives |-> {}, fails |-> 0, rescales |-> FALSE]
Take(things) == [Step EXCEPT !.takes = things]
Use(things) == [Step EXCEPT !.needs = things]
Give(things) == [Step EXCEPT !.gives = things]
Rescale == [Step EXCEPT !.rescales = TRUE]
Try(takes, needs, exit) == [Step EXCEPT !.takes = takes, !.needs = needs, !.fails = exit]

Return == 100  \* past the last step of every function

\* Mutant: the array is given back where a failure ends, and has been before.
ReadFitsFreeTwice == <<
  Try({"fptr"}, {}, 11), Try({}, {"fptr"}, 11), Try({}, {"fptr"}, 11),
  Take({"array", "buf"}), Use({"fptr", "array", "buf"}), Give({"array"}),
  Try({}, {}, 11), Try({}, {"fptr"}, 11), Give({"fptr"}),
  Use({"buf"}), Give({"array", "buf"})>>

\* dsp_file_read_fits; what is taken before a failure is not given back.
ReadFits == <<
  Try({"fptr"}, {}, Return), Try({}, {"fptr"}, Return), Try({}, {"fptr"}, Return),
  Take({"array", "buf"}), Use({"fptr", "array", "buf"}), Give({"array"}),
  Try({}, {}, Return), Try({}, {"fptr"}, Return), Give({"fptr"}),
  Use({"buf"}), Give({"buf"})>>

\* The same of a mosaic: the array of its colours is given back by the function that
\* reads it.
ReadFitsMosaic == <<
  Try({"fptr"}, {}, Return), Try({}, {"fptr"}, Return), Try({}, {"fptr"}, Return),
  Take({"array", "buf"}), Use({"fptr", "array", "buf"}), Give({"array"}),
  Try({}, {}, Return), Try({}, {"fptr"}, Return), Give({"fptr"}),
  Try({"rgb"}, {"buf"}, 0), Give({"rgb"}), Give({"buf"})>>

\* dsp_file_write_fits; the third step fails for a depth that FITS has not.
WriteFits == <<
  Take({"tmp", "buf", "naxes"}), Use({"tmp", "buf", "naxes"}), Try({}, {}, 9),
  Try({"fptr"}, {}, 9), Try({}, {"fptr", "naxes"}, 9), Try({}, {"fptr", "buf"}, 9),
  Try({}, {"fptr"}, 9), Give({"fptr"}), Give({"tmp", "naxes", "buf"})>>

\* dsp_file_write_fits_composite; the second and the third step are the loop over
\* the components, which takes and gives back a copy of each.
WriteFitsComposite == <<
  Take({"buf", "naxes"}), Take({"tmp"}), Give({"tmp"}),
  Try({"fptr"}, {}, 9), Try({}, {"fptr", "naxes"}, 9), Try({}, {"fptr", "buf"}, 9),
  Try({}, {"fptr"}, 9), Give({"fptr"}), Give({"naxes", "buf"})>>

\* dsp_file_read_jpeg; libjpeg ends the process where it fails.  The file and the
\* structure are kept.
ReadJpeg == <<
  Take({"info"}), Try({"jpeg"}, {}, Return), Use({"info", "jpeg"}), Take({"buf"}),
  Use({"info", "jpeg", "buf"}), Give({"buf"})>>

\* dsp_file_write_jpeg of a stream without a mosaic, whose samples it stretches.
WriteJpeg == <<
  Take({"buf"}), Rescale, Take({"cinfo"}),
  Try({"outfile"}, {}, Return), Use({"cinfo", "outfile", "buf"}), Give({"buf"}),
  Use({"cinfo", "outfile"}), Give({"outfile"}), Give({"cinfo"})>>

\* The same of a mosaic: what is stretched is the array of its colours, which is
\* never given back.
WriteJpegMosaic == <<
  Take({"buf"}), Take({"data"}), Use({"data", "buf"}), Take({"cinfo"}),
  Try({"outfile"}, {}, Return), Use({"cinfo", "outfile", "buf"}), Give({"buf"}),
  Use({"cinfo", "outfile"}), Give({"outfile"}), Give({"cinfo"})>>

\* Mutant: the samples are stretched in place, without a copy.
RescalingJpegComposite == <<
  Take({"buf"}), Rescale, Try({"outfile"}, {}, Return), Take({"cinfo"}),
  Use({"cinfo", "outfile", "buf"}), Give({"cinfo"}), Give({"outfile"}), Give({"buf"})>>

\* dsp_file_write_jpeg_composite, with the copies of dsp_buffer_components_to_rgb.
WriteJpegComposite == <<
  Take({"buf"}), Take({"in"}), Give({"in"}), Try({"outfile"}, {}, Return), Take({"cinfo"}),
  Use({"cinfo", "outfile", "buf"}), Give({"cinfo"}), Give({"outfile"}), Give({"buf"})>>

\* dsp_file_read_png; a long jump out of libpng returns at once too.
ReadPng == <<
  Try({"infile"}, {}, Return), Try({"png"}, {}, Return), Try({"info"}, {"png"}, Return),
  Try({"end_info"}, {"png"}, Return), Try({}, {"png", "info", "infile"}, Return),
  Take({"buf"}), Try({}, {"png", "infile", "buf"}, Return),
  Give({"png", "info", "end_info"}), Give({"infile"}), Use({"buf"}), Give({"buf"})>>

\* dsp_file_write_png_composite
WritePngComposite == <<
  Try({"png"}, {}, Return), Try({"info"}, {"png"}, Return), Try({"outfile"}, {}, Return),
  Try({}, {"png", "info", "outfile"}, Return), Take({"buf"}), Take({"in"}), Give({"in"}),
  Try({}, {"png", "outfile", "buf"}, Return),
  Give({"png", "info"}), Give({"buf"}), Give({"outfile"})>>

Program(op) ==
  CASE op = "read_fits" -> ReadFits
    [] op = "read_fits_mosaic" -> ReadFitsMosaic
    [] op = "read_png" -> ReadPng
    [] op = "read_jpeg" -> ReadJpeg
    [] op = "write_fits" -> WriteFits
    [] op = "write_fits_composite" -> WriteFitsComposite
    [] op = "write_png_composite" -> WritePngComposite
    [] op = "write_jpeg" -> WriteJpeg
    [] op = "write_jpeg_mosaic" -> WriteJpegMosaic
    [] op = "write_jpeg_composite" -> WriteJpegComposite

-------------------------------------------------------------------------------

Idle == [op |-> "none", at |-> 0, n |-> 0, ok |-> TRUE]

Init ==
  /\ sizes \in AllSizes
  /\ file = Torn("none") /\ picture = <<>> /\ call = Idle /\ held = {}
  /\ loaded = <<>> /\ source = Torn("none") /\ turned = {} /\ scaled = {} /\ result = <<>>

\* Somebody puts a file there.
Arrive(format, n, kind) ==
  /\ call = Idle /\ file.format = "none"
  /\ kind = "opacity" => format = "png"
  /\ kind = "mosaic" => format = "fits" /\ n = 1
  /\ file' = Foreign(format, n, kind)
  /\ UNCHANGED <<sizes, picture, call, held, loaded, source, turned, scaled, result>>

\* vlbi_shift of the model that a stream was listed as.
Shift(k) ==
  /\ call = Idle
  /\ k <= MaxShifted
  /\ picture' = [picture EXCEPT ![k] = Shifted(sizes, @)]
  /\ turned' = IF k \in turned THEN turned \ {k} ELSE turned \cup {k}
  /\ UNCHANGED <<sizes, file, call, held, loaded, source, scaled, result>>

Begin(op, n) ==
  /\ call = Idle
  /\ call' = [op |-> op, at |-> 1, n |-> n, ok |-> TRUE]
  /\ held' = {}
  /\ UNCHANGED <<sizes, file, picture, loaded, source, turned, scaled, result>>

BeginRead(op) ==
  /\ file.format = FormatOf(op) /\ file.channels # <<>>
  /\ op = "read_fits_mosaic" <=> file.kind = "mosaic"
  /\ Begin(op, 0)

\* Of n streams, 1 or 3 as documented.
BeginWrite(op, n) ==
  /\ n < Len(picture)
  /\ op \in {"write_fits", "write_jpeg", "write_jpeg_mosaic"} => n = 1
  /\ Begin(op, n)

Running == call.op \in Readers \cup Writers
Over == Running /\ call.at > Len(Program(call.op))
Now == Program(call.op)[call.at]

\* The step opens the file that is written.
Opens == call.op \in Writers /\ Now.takes \cap {"fptr", "outfile"} # {}

Succeed ==
  /\ Running /\ ~Over
  /\ call' = [call EXCEPT !.at = @ + 1]
  /\ held' = (held \cup Now.takes) \ Now.gives
  /\ picture' = IF ~Now.rescales THEN picture
                ELSE [k \in DOMAIN picture |->
                        IF k <= call.n THEN Stretched(picture[k]) ELSE picture[k]]
  /\ file' = IF Opens THEN Torn(FormatOf(call.op)) ELSE file
  /\ UNCHANGED <<sizes, loaded, source, turned, scaled, result>>

\* The functions that write FITS remove the file before they make it.
Fail ==
  /\ Running /\ ~Over /\ Now.fails # 0
  /\ call' = [call EXCEPT !.at = Now.fails, !.ok = FALSE]
  /\ file' = IF Opens /\ FormatOf(call.op) = "fits" THEN Torn("none") ELSE file
  /\ UNCHANGED <<sizes, picture, held, loaded, source, turned, scaled, result>>

Deliver ==
  /\ Over /\ call.ok /\ call.op \in Readers
  /\ picture' = Read(file) /\ loaded' = Read(file) /\ source' = file
  /\ turned' = {} /\ scaled' = {}
  /\ call' = Idle /\ held' = {}
  /\ UNCHANGED <<sizes, file, result>>

\* The streams that the call which returns now was to write as a JPEG file.
Jpeged == IF call.op = "write_jpeg" THEN 1 .. call.n ELSE {}

\* The colours of a mosaic make a picture of three channels of its own.
Complete ==
  /\ Over /\ call.ok /\ call.op \in Writers
  /\ file' = IF call.op = "write_jpeg_mosaic" THEN Foreign("jpeg", 3, "plain")
             ELSE Written(FormatOf(call.op), call.n)
  /\ scaled' = scaled \cup Jpeged
  /\ call' = Idle /\ held' = {}
  /\ UNCHANGED <<sizes, picture, loaded, source, turned, result>>

\* A reader returns a null pointer, a writer leaves what it has made.
GiveUp ==
  /\ Over /\ ~call.ok
  /\ scaled' = scaled \cup Jpeged
  /\ call' = Idle /\ held' = {}
  /\ UNCHANGED <<sizes, file, picture, loaded, source, turned, result>>

\* dsp_file_bayer_2_rgb and dsp_file_bayer_2_composite, for a mosaic of the phase r.
\* Bound: they are called before there is a file or a picture, none of which they
\* touch.
BeginMosaic(op, r) ==
  /\ call = Idle /\ file.format = "none" /\ picture = <<>>
  /\ call' = [op |-> op, at |-> 0, n |-> r, ok |-> TRUE]
  /\ result' = [e \in 0 .. 3 * Product(sizes) |-> {}]
  /\ UNCHANGED <<sizes, file, picture, held, loaded, source, turned, scaled>>

\* Where the colours of pixel i are written.  dsp_file_bayer_2_rgb leaves the first
\* element out, and writes one past the last in the end.
Place(op, i) ==
  IF op = "bayer_2_rgb" THEN Colours(3 * i + 1, 3 * i + 2, 3 * i + 3)
  ELSE Colours(2 * Product(sizes) + i, Product(sizes) + i, i)

\* Their loop.
NextSite ==
  LET sites == Sites(sizes[1], sizes[2], call.n, call.at)
      place == Place(call.op, call.at)
  IN  /\ call.op \in Mosaics /\ call.at \in Pixels
      /\ result' = [result EXCEPT ![place.red] = sites.red, ![place.green] = sites.green,
                                  ![place.blue] = sites.blue]
      /\ call' = [call EXCEPT !.at = @ + 1]
      /\ UNCHANGED <<sizes, file, picture, held, loaded, source, turned, scaled>>

EndMosaic ==
  /\ call.op \in Mosaics /\ call.at \notin Pixels
  /\ call' = Idle /\ result' = <<>>
  /\ UNCHANGED <<sizes, file, picture, held, loaded, source, turned, scaled>>

Next ==
  \/ \E format \in Formats, n \in {1, MaxColours}, kind \in Kinds : Arrive(format, n, kind)
  \/ \E k \in DOMAIN picture : Shift(k)
  \/ \E op \in Readers : BeginRead(op)
  \/ \E op \in Writers, n \in {1, MaxColours} : BeginWrite(op, n)
  \/ Succeed \/ Fail \/ Deliver \/ Complete \/ GiveUp
  \/ \E op \in Mosaics, r \in 0 .. 3 : BeginMosaic(op, r)
  \/ NextSite \/ EndMosaic

Spec == Init /\ [][Next]_vars

-------------------------------------------------------------------------------
(* Properties                                                                *)

\* dsp.h.cmake: "each color channel has its own stream in this array and an
\* additional grayscale at end".  A picture that was loaded, from a file of the
\* world or from one that a writer made of another picture, has the channels of
\* the file in its streams, sample by sample, and their mean in the last.  A
\* picture with opacity or made of a mosaic has not.
OwnStream ==
  source.kind = "plain" =>
    \A k \in DOMAIN loaded :
      IF k \in DOMAIN source.channels THEN loaded[k] = source.channels[k]
      ELSE loaded[k] = [x \in Pixels |-> Mean([c \in DOMAIN source.channels |->
                                               source.channels[c][x]])]

\* What a function keeps although it succeeds: an opened JPEG file that was read, and
\* the colours of a mosaic that were written.
Kept(op) ==
  CASE op = "read_jpeg" -> {"info", "jpeg"}
    [] op = "write_jpeg_mosaic" -> {"data"}
    [] OTHER -> {}

\* Whatever step of a function fails, it uses and gives back only what it holds,
\* takes nothing twice, and when it succeeds keeps nothing but the above.
InHand ==
  /\ Running /\ ~Over =>
       /\ Now.needs \cup Now.gives \subseteq held
       /\ Now.takes \cap held = {}
  /\ Over /\ call.ok => held \subseteq Kept(call.op)

\* Writing a picture leaves it as it is, save that dsp_file_write_jpeg stretches the
\* stream it is given.  When all sizes are even, shifting a stream loses no sample,
\* and shifting it again restores it, whatever was written and read in between.
ShiftedBack ==
  Even(sizes) /\ call.op # "write_jpeg" =>
    \A k \in DOMAIN picture :
      LET was == IF k \in scaled THEN Stretched(loaded[k]) ELSE loaded[k]
      IN  IF k \in turned THEN {picture[k][x] : x \in Pixels} = {was[x] : x \in Pixels}
          ELSE picture[k] = was

\* The site j is next to pixel i.
Near(i, j) ==
  LET w == sizes[1]
  IN  j \in Pixels /\ (j % w) - (i % w) \in -1 .. 1 /\ (j \div w) - (i \div w) \in -1 .. 1

\* What was written to the elements of a place is of pixel i: there is something,
\* and it comes from sites of the place's colours next to the pixel.
DrawnOf(i, place) ==
  LET Of(j) == Colour(sizes[1], call.n, j)
  IN  /\ {} \notin {result[place.red], result[place.green], result[place.blue]}
      /\ \A j \in result[place.red] : Near(i, j) /\ Of(j) = "R"
      /\ \A j \in result[place.green] : Near(i, j) /\ Of(j) \in {"GR", "GB"}
      /\ \A j \in result[place.blue] : Near(i, j) /\ Of(j) = "B"

\* The pixels that were drawn so far and are to have the right colours: of a mosaic of
\* even sizes all when its first row and column have the phase 0, and those off the
\* edges for the other phases.
Drawn ==
  {i \in Pixels : /\ i < call.at /\ Even(sizes)
                  /\ \/ call.n = 0
                     \/ i % sizes[1] \notin {0, sizes[1] - 1} /\ i \div sizes[1] \notin {0, sizes[2] - 1}}

\* The colours of each pixel are in elements of its own, and stay there while others
\* are drawn: the composite has them in a plane each, the array of
\* dsp_file_bayer_2_rgb one after the other, all of them an element late.
DrawnFromOwn ==
  call.op \in Mosaics => \A i \in Drawn : DrawnOf(i, Place(call.op, i))
===============================================================================
