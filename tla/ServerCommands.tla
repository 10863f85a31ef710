---------------------------- MODULE ServerCommands ----------------------------
(***************************************************************************)
(* The commands of VLBI::Server (vlbi_server.cpp) and of JSONServer        *)
(* (vlbi_server_json.cpp) over the contexts of ServerContexts: what Parse  *)
(* makes of a message, the settings and the delegate that later commands   *)
(* use, and the context that each call of the library goes to.             *)
(*                                                                         *)
(* Parse reads up to a NUL or the end of the input.  A message of text is  *)
(* one or more lines, a JSON document one or more sections.  Arguments are *)
(* as many as the command wants; that they are numbers or base64 is not    *)
(* looked at.                                                              *)
(***************************************************************************)
EXTENDS ServerContexts, FiniteSets

CONSTANTS
  Plain,        \* the names without a line end
  Joined(_),    \* a name, a line end and the first word of the next line
  NoName,
  MaxSections,  \* bound: sections of a document
  MaxMissing    \* bound: fields that a section leaves out

ASSUME CommandAssumption ==
  /\ Plain \subseteq Names
  /\ FirstName \in Plain
  /\ \A name \in Plain : Joined(name) \in Names \ Plain
  /\ NoName \notin Names

ASSUME SectionsAssumption == MaxSections \in Nat

VARIABLES
  front,     \* which server this is
  reader,    \* what JSONServer::Parse is in the middle of
  relative,  \* JSONServer::relative
  delegate,  \* Server::delegate
  code,      \* whose code js_code_str begins with, and whether more follows
  written,   \* the settings that the present message or section has written
  call       \* the call of the library that the present message or section made

readerVars == <<front, reader>>
callVars   == <<relative, delegate, code, written, call>>
serverVars == <<vars, readerVars, callVars>>

Waiting == [at |-> "waiting", left |-> 0, name |-> NoName]
NoCall  == [op |-> "none", context |-> NoContext, asked |-> "nothing"]

ServerInit ==
  /\ Init
  /\ front \in {"text", "json"}
  /\ reader = Waiting
  /\ relative \in BOOLEAN  \* the constructor leaves it as it is
  /\ delegate = "unset"
  /\ code = "none"
  /\ written = {}
  /\ call = NoCall

\* Every call of the library is made with the answer of getContext; for none
\* the library takes a context of its own.
Call(op, asked) == call' = [op |-> op, context |-> Target, asked |-> asked]

\* Mutant: only the first plot chooses.
KeptDelegate(set, type, custom) ==
  IF custom \/ set # "unset" THEN set
  ELSE IF type = "coverage" THEN "coverage" ELSE "default"

\* Plot keeps the delegate that was set for it, or chooses one.
PlotDelegate(set, type, custom) ==
  IF custom THEN set ELSE IF type = "coverage" THEN "coverage" ELSE "default"

-------------------------------------------------------------------------------
(* Messages of text.                                                         *)

\* A message is read when the last one is done with.
TextMessage == front = "text" /\ Free

Lines == {"one", "more"}

\* Only the first line is looked at: its last word ends with what comes before
\* the first blank of the next line, if there is one.
Word(name, lines) == IF lines = "one" THEN name ELSE Joined(name)

\* A message that makes no call, and what it writes.
Wrote(settings) ==
  /\ written' = settings /\ call' = NoCall
  /\ UNCHANGED <<relative, delegate, code>>

\* "add context", "set context", "del context"
TextAdd(name, lines) ==
  /\ TextMessage
  /\ BeginAdd(Word(name, lines))
  /\ Wrote({})
  /\ UNCHANGED readerVars

TextSet(name, lines) ==
  /\ TextMessage
  /\ SetContext(Word(name, lines))
  /\ Wrote({})
  /\ UNCHANGED readerVars

TextDel(name, lines) ==
  /\ TextMessage
  /\ BeginDel(Word(name, lines))
  /\ Wrote({})
  /\ UNCHANGED readerVars

\* The second half of addContext and delContext.
TextEnd ==
  /\ front = "text"
  /\ EndAdd \/ EndDel
  /\ UNCHANGED <<readerVars, callVars>>

\* A name that is taken, or that nobody has, does nothing; nor does a command
\* without an argument, an argument that Parse does not know (the last one of
\* "add plot", if another line follows), or "quit" when a line follows.
TextNothing ==
  /\ TextMessage
  /\ Wrote({})
  /\ UNCHANGED <<vars, readerVars>>

\* "set resolution", "set target", "set frequency", "set samplerate" and
\* "set bitspersample"
TextSettings ==
  {{"width", "height"}, {"ra", "dec"}, {"frequency"}, {"samplerate"}, {"bitspersample"}}

TextSetting(settings) ==
  /\ TextMessage
  /\ Wrote(settings)
  /\ UNCHANGED <<vars, readerVars>>

\* The commands that end in one call of the library.
TextSetOps == {"location", "mask", "shift"}
TextGetOps == {"models", "nodes", "baselines", "download"}
TextAddOps == {"node", "idft", "dft", "upload"}
TextDelOps == {"del node", "del model"}
TextOps == TextSetOps \cup TextGetOps \cup TextAddOps \cup TextDelOps

TextCall(op) ==
  /\ TextMessage
  /\ Call(op, "nothing")
  /\ written' = {}
  /\ UNCHANGED <<vars, readerVars, relative, delegate, code>>

\* "add plot": the last word must be one of two.
TextPlot(type) ==
  /\ TextMessage
  /\ Call("plot", type)
  /\ delegate' = PlotDelegate(delegate, type, FALSE)
  /\ written' = {}
  /\ UNCHANGED <<vars, readerVars, relative, code>>

\* Parse reads through a null pointer: of the last line end, of an argument less
\* than the command wants, or of a model to download that is not there.
TextAbort ==
  /\ TextMessage
  /\ Abort
  /\ UNCHANGED <<readerVars, callVars>>

Text ==
  \/ \E name \in Plain, lines \in Lines :
       TextAdd(name, lines) \/ TextSet(name, lines) \/ TextDel(name, lines)
  \/ \E settings \in TextSettings : TextSetting(settings)
  \/ \E op \in TextOps : TextCall(op)
  \/ \E type \in {"raw", "coverage"} : TextPlot(type)
  \/ TextNothing \/ TextEnd \/ TextAbort

-------------------------------------------------------------------------------
(* JSON documents.                                                           *)

\* Mutant: the mask is complete from its highest bit on.
HighMask(mask, n) == n - 1 \in mask

\* The lowest n bits are set.
CheckMask(mask, n) == 0 .. n - 1 \subseteq mask

\* The bit that each field of a section sets; two fields of a plot share one.
Bits ==
  [location |-> [latitude |-> 0, longitude |-> 1, elevation |-> 2],
   fits     |-> [name |-> 0, buffer |-> 1],
   sdfits   |-> [name |-> 0, buffer |-> 1],
   node     |-> [name |-> 0, starttime |-> 1, bitspersample |-> 2,
                 buffer |-> 3, locations |-> 4],
   plot     |-> [name |-> 0, ra |-> 1, dec |-> 2, frequency |-> 3, samplerate |-> 3,
                 width |-> 4, height |-> 5, projection |-> 6, type |-> 7,
                 adjust_delays |-> 8],
   download |-> [name |-> 0, format |-> 1],
   upload   |-> [name |-> 0, format |-> 1, buffer |-> 2],
   dft      |-> [inverse |-> 0, idft |-> 1, magnitude |-> 2, phase |-> 3],
   edit     |-> [edit |-> 0, name |-> 1, model |-> 2, arg |-> 3, node |-> 4,
                 arg1 |-> 5, arg2 |-> 6]]

\* The fields that a document may give: all but a few.
Given ==
  [kind \in DOMAIN Bits |->
     {F \in SUBSET DOMAIN Bits[kind] :
        Cardinality(DOMAIN Bits[kind] \ F) <= MaxMissing}]

Mask(kind, given) == {Bits[kind][f] : f \in given}

Settings ==
  {"width", "height", "ra", "dec", "frequency", "samplerate", "bitspersample"}

Reading == front = "json" /\ Free /\ reader.at = "reading"

\* Parse begins with a document, and comes to its next section.
Document ==
  /\ front = "json" /\ Free /\ reader = Waiting
  /\ \E n \in 1 .. MaxSections : reader' = [Waiting EXCEPT !.at = "reading", !.left = n]
  /\ UNCHANGED <<vars, front, callVars>>

\* The code of a field is copied without its end, so that whatever the buffer
\* holds after it, the rest of a longer earlier code for one, may run on.
Copied == {"own", "own and more"}

OldCode == IF code \in Copied THEN "old" ELSE code

\* What a section of the document does that is no context: the settings it
\* writes are written whether or not its mask is complete in the end.
Section(given) ==
  /\ Reading /\ reader.left > 0
  /\ reader' = [reader EXCEPT !.left = @ - 1]
  /\ written' = given \cap Settings
  /\ UNCHANGED front

CallIf(complete, op, asked) ==
  IF complete THEN Call(op, asked) ELSE call' = NoCall

\* "fits", "sdfits", "download", "upload" and "dft"
PlainSections ==
  [fits |-> 2, sdfits |-> 2, download |-> 2, upload |-> 3, dft |-> 4]

JsonCall(kind, given) ==
  /\ Section({})
  /\ CallIf(CheckMask(Mask(kind, given), PlainSections[kind]), kind, "nothing")
  /\ code' = OldCode
  /\ UNCHANGED <<vars, relative, delegate>>

JsonLocation(given) ==
  /\ Section({})
  /\ LET complete == CheckMask(Mask("location", given), 3)
     IN  /\ CallIf(complete, "location", "nothing")
         /\ relative' = (relative \/ complete)
  /\ code' = OldCode
  /\ UNCHANGED <<vars, delegate>>

\* The flag relative is what vlbi_add_node takes for geo.
JsonNode(given) ==
  /\ Section(given)
  /\ CallIf(CheckMask(Mask("node", given), 5), "node",
            IF relative THEN "geographic" ELSE "xyz")
  /\ code' = OldCode
  /\ UNCHANGED <<vars, relative, delegate>>

\* A type that is neither of the two names another field of the plot, whose
\* text is the code ("code"), or none ("unknown").
PlotTypes == {"default", "coverage", "code", "unknown"}

JsonPlot(given, type) ==
  LET custom   == "type" \in given /\ type = "code"
      set      == IF custom THEN "js" ELSE delegate
      complete == CheckMask(Mask("plot", given), 9)
  IN  /\ Section(given)
      /\ CallIf(complete, "plot", type)
      /\ delegate' = IF complete THEN PlotDelegate(set, type, custom) ELSE set
      /\ IF custom THEN code' \in Copied ELSE code' = OldCode
      /\ UNCHANGED <<vars, relative>>

\* "edit" with two models, or with one.
EditsOfTwo == {"mask", "stack", "diff", "convolve"}
Edits      == EditsOfTwo \cup {"shift", "filter"}

\* The filters are looked for where the field "edit" is missing.
JsonEdit(given, edit) ==
  /\ Section({})
  /\ LET mask == Mask("edit", given)
     IN  /\ ~(0 \notin mask /\ 5 \in mask)
         /\ CallIf(\/ edit = "shift" /\ CheckMask(mask, 2)
                   \/ edit \in EditsOfTwo /\ CheckMask(mask, 4),
                   edit, "nothing")
  /\ code' = OldCode
  /\ UNCHANGED <<vars, relative, delegate>>

\* The filter's name is compared with a field that is not there.
JsonAbort ==
  /\ Reading /\ reader.left > 0
  /\ \E given \in Given["edit"] :
       LET mask == Mask("edit", given) IN 0 \notin mask /\ 5 \in mask
  /\ Abort
  /\ UNCHANGED <<readerVars, callVars>>

\* A section "context": addContext ...
JsonContext(name) ==
  /\ Reading /\ reader.left > 0
  /\ Contains(contexts, name) \/ made < MaxContexts
  /\ reader' = [at |-> "naming", left |-> reader.left - 1, name |-> name]
  /\ written' = {} /\ call' = NoCall /\ code' = OldCode
  /\ UNCHANGED <<vars, front, relative, delegate>>

JsonAdd ==
  /\ front = "json" /\ reader.at = "naming"
  /\ BeginAdd(reader.name)
  /\ UNCHANGED <<readerVars, callVars>>

JsonAdded ==
  /\ front = "json" /\ EndAdd
  /\ UNCHANGED <<readerVars, callVars>>

\* Mutant: only a context that is new becomes the current one.
NewJsonSet ==
  /\ front = "json" /\ reader.at = "naming" /\ Free
  /\ Contains(contexts, reader.name)
  /\ current' = IF Get(contexts, reader.name).context = made
                THEN reader.name ELSE current
  /\ reader' = [reader EXCEPT !.at = "reading"]
  /\ UNCHANGED <<instanceVars, step, process, signalVars, front, callVars>>

\* ... and setContext.
JsonSet ==
  /\ front = "json" /\ reader.at = "naming"
  /\ SetContext(reader.name)
  /\ reader' = [reader EXCEPT !.at = "reading"]
  /\ UNCHANGED <<front, callVars>>

DocumentOver ==
  /\ Reading /\ reader.left = 0
  /\ reader' = Waiting
  /\ written' = {} /\ call' = NoCall /\ code' = OldCode
  /\ UNCHANGED <<vars, front, relative, delegate>>

Json ==
  \/ Document \/ DocumentOver
  \/ \E name \in Plain : JsonContext(name)
  \/ JsonAdd \/ JsonAdded \/ JsonSet
  \/ \E kind \in DOMAIN PlainSections : \E given \in Given[kind] : JsonCall(kind, given)
  \/ \E given \in Given["location"] : JsonLocation(given)
  \/ \E given \in Given["node"] : JsonNode(given)
  \/ \E given \in Given["plot"], type \in PlotTypes : JsonPlot(given, type)
  \/ \E given \in Given["edit"], edit \in Edits : JsonEdit(given, edit)
  \/ JsonAbort

-------------------------------------------------------------------------------
(* main.                                                                     *)

\* "quit" alone in a message of text, or the end of the input.
Ends ==
  /\ \/ reader = Waiting /\ Quit
     \/ Leave \/ Return
     \/ \E signum \in Signals : Signal(signum)
     \/ HandlerDestroys \/ HandlerExits
  /\ UNCHANGED <<readerVars, callVars>>

ServerNext == Text \/ Json \/ Ends

ServerSpec == ServerInit /\ [][ServerNext]_serverVars

-------------------------------------------------------------------------------
(* Properties                                                                *)

CallOps == TextOps \cup {"none", "plot"} \cup DOMAIN PlainSections \cup EditsOfTwo
Asked   == {"nothing", "raw", "xyz", "geographic"} \cup PlotTypes

\* The types of all variables, those of the contexts too.
ServerTypeOK ==
  /\ TypeOK
  /\ front \in {"text", "json"}
  /\ reader \in [at : {"waiting", "reading", "naming"}, left : 0 .. MaxSections,
                 name : Names \cup {NoName}]
  /\ relative \in BOOLEAN
  /\ delegate \in {"unset", "default", "coverage", "js"}
  /\ code \in {"none", "old"} \cup Copied
  /\ written \in SUBSET Settings
  /\ call \in [op : CallOps, context : Instances \cup {NoContext}, asked : Asked]

\* Once a document has named a context, whether that was new or not, its calls
\* go to the open instance of that name, and to no other.
NamedTarget ==
  (destroyed = 0 /\ reader.at = "reading" /\ reader.name # NoName /\ call # NoCall)
    => /\ Contains(contexts, reader.name)
       /\ call.context = Get(contexts, reader.name).context
       /\ closed[call.context] = 0

\* A plot is made with the delegate its own message asks for, none that an
\* earlier plot, complete or not, has left behind; its own code comes first in
\* the buffer, but an earlier one's rest may follow.
DelegateFits ==
  call.op = "plot" =>
    /\ call.asked = "coverage" => delegate = "coverage"
    /\ call.asked = "code"     => delegate = "js" /\ code \in Copied
    /\ call.asked \notin {"coverage", "code"} => delegate = "default"

\* A section of a document that is acted upon has written every setting that
\* is used; but the frequency of a plot, or else its sample rate, may be that
\* of an earlier one.
OwnSettings ==
  front = "json" =>
    /\ call.op = "plot" => /\ {"ra", "dec", "width", "height"} \subseteq written
                           /\ {"frequency", "samplerate"} \cap written # {}
    /\ call.op = "node" => "bitspersample" \in written

-------------------------------------------------------------------------------
(* The inductive invariant behind them.                                      *)

\* Between two sections the context that the document has named last is the
\* current one, and the section's call was made with it.
NameHeld ==
  /\ reader.at = "waiting" => reader = Waiting
  /\ reader.at = "naming" => reader.name \in Plain /\ call = NoCall
  /\ reader.at # "waiting" => front = "json"
  /\ front = "json" /\ step # Idle => reader.at = "naming"
  /\ reader.at = "reading" /\ reader.name # NoName =>
       /\ Contains(contexts, reader.name) /\ current = reader.name
       /\ call # NoCall => call.context = Target

ServerIInv == ServerTypeOK /\ IInv /\ NameHeld /\ DelegateFits /\ OwnSettings
===============================================================================
