------------------------- MODULE ServerCommandsProofs -------------------------
(* Theorems of ServerCommands, for any names, sections and instances.        *)
EXTENDS ServerCommands, ServerContextsProofs

-------------------------------------------------------------------------------
(* The commands do with the contexts what ServerContexts says.               *)

LEMMA TextContexts == Text => [Next]_vars
<1> SUFFICES ASSUME Text PROVE [Next]_vars
  OBVIOUS
<1>1. ASSUME NEW name \in Plain, NEW lines \in Lines,
             TextAdd(name, lines) \/ TextSet(name, lines) \/ TextDel(name, lines)
      PROVE  Next
  <2>1. Word(name, lines) \in Names
    BY CommandAssumption DEF Word
  <2>2. BeginAdd(Word(name, lines)) \/ SetContext(Word(name, lines))
        \/ BeginDel(Word(name, lines))
    BY <1>1 DEF TextAdd, TextSet, TextDel
  <2> QED BY <2>1, <2>2 DEF Next
<1>2. ASSUME NEW settings \in TextSettings, TextSetting(settings)
      PROVE  UNCHANGED vars
  BY <1>2 DEF TextSetting
<1>3. ASSUME NEW op \in TextOps, TextCall(op)
      PROVE  UNCHANGED vars
  BY <1>3 DEF TextCall
<1>4. ASSUME NEW type \in {"raw", "coverage"}, TextPlot(type)
      PROVE  UNCHANGED vars
  BY <1>4 DEF TextPlot
<1>5. TextNothing => UNCHANGED vars
  BY DEF TextNothing
<1>6. TextEnd => Next
  BY DEF TextEnd, Next
<1>7. TextAbort => Next
  BY DEF TextAbort, Next
<1> QED BY <1>1, <1>2, <1>3, <1>4, <1>5, <1>6, <1>7 DEF Text

LEMMA JsonContexts == NameHeld /\ Json => [Next]_vars
<1> SUFFICES ASSUME NameHeld, Json PROVE [Next]_vars
  OBVIOUS
<1>1. Document \/ DocumentOver => UNCHANGED vars
  BY DEF Document, DocumentOver
<1>2. ASSUME NEW name \in Plain, JsonContext(name)
      PROVE  UNCHANGED vars
  BY <1>2 DEF JsonContext
<1>3. reader.at = "naming" => reader.name \in Names
  BY CommandAssumption DEF NameHeld
<1>4. JsonAdd => Next
  BY <1>3 DEF JsonAdd, Next
<1>5. JsonAdded => Next
  BY DEF JsonAdded, Next
<1>6. JsonSet => Next
  BY <1>3 DEF JsonSet, Next
<1>7. ASSUME NEW kind \in DOMAIN PlainSections, NEW given, JsonCall(kind, given)
      PROVE  UNCHANGED vars
  BY <1>7 DEF JsonCall
<1>8. ASSUME NEW given, JsonLocation(given) \/ JsonNode(given)
      PROVE  UNCHANGED vars
  BY <1>8 DEF JsonLocation, JsonNode
<1>9. ASSUME NEW given, NEW type, JsonPlot(given, type)
      PROVE  UNCHANGED vars
  BY <1>9 DEF JsonPlot
<1>10. ASSUME NEW given, NEW edit, JsonEdit(given, edit)
      PROVE  UNCHANGED vars
  BY <1>10 DEF JsonEdit
<1>11. JsonAbort => Next
  BY DEF JsonAbort, Next
<1> QED BY <1>1, <1>2, <1>4, <1>5, <1>6, <1>7, <1>8, <1>9, <1>10, <1>11 DEF Json

LEMMA StepContexts == NameHeld /\ [ServerNext]_serverVars => [Next]_vars
<1>1. Ends => Next
  BY DEF Ends, Next
<1>2. UNCHANGED serverVars => UNCHANGED vars
  BY DEF serverVars
<1> QED BY <1>1, <1>2, TextContexts, JsonContexts DEF ServerNext

-------------------------------------------------------------------------------
(* What a section's mask says of its fields.                                 *)

LEMMA PlotMask ==
  ASSUME NEW given \in SUBSET DOMAIN Bits["plot"], CheckMask(Mask("plot", given), 9)
  PROVE  /\ {"ra", "dec", "width", "height", "type"} \subseteq given
         /\ {"frequency", "samplerate"} \cap given # {}
<1> DEFINE P == Bits["plot"]
<1>1. P = [name |-> 0, ra |-> 1, dec |-> 2, frequency |-> 3, samplerate |-> 3,
           width |-> 4, height |-> 5, projection |-> 6, type |-> 7, adjust_delays |-> 8]
  BY DEF Bits
<1>2. \A b \in {1, 2, 3, 4, 5, 7} : \E f \in given : P[f] = b
  BY DEF CheckMask, Mask
<1>3. given \subseteq {"name", "ra", "dec", "frequency", "samplerate", "width",
                       "height", "projection", "type", "adjust_delays"}
  BY <1>1
<1> HIDE DEF P
<1>4. /\ P["name"] = 0 /\ P["ra"] = 1 /\ P["dec"] = 2 /\ P["frequency"] = 3
      /\ P["samplerate"] = 3 /\ P["width"] = 4 /\ P["height"] = 5
      /\ P["projection"] = 6 /\ P["type"] = 7 /\ P["adjust_delays"] = 8
  BY <1>1
<1>5. "ra" \in given
  BY <1>2, <1>3, <1>4
<1>6. "dec" \in given
  BY <1>2, <1>3, <1>4
<1>7. "width" \in given
  BY <1>2, <1>3, <1>4
<1>8. "height" \in given
  BY <1>2, <1>3, <1>4
<1>9. "frequency" \in given \/ "samplerate" \in given
  BY <1>2, <1>3, <1>4
<1>10. "type" \in given
  BY <1>2, <1>3, <1>4
<1> QED BY <1>5, <1>6, <1>7, <1>8, <1>9, <1>10

LEMMA NodeMask ==
  ASSUME NEW given \in SUBSET DOMAIN Bits["node"], CheckMask(Mask("node", given), 5)
  PROVE  "bitspersample" \in given
<1> DEFINE P == Bits["node"]
<1>1. P = [name |-> 0, starttime |-> 1, bitspersample |-> 2, buffer |-> 3,
           locations |-> 4]
  BY DEF Bits
<1>2. \E f \in given : P[f] = 2
  BY DEF CheckMask, Mask
<1>3. given \subseteq {"name", "starttime", "bitspersample", "buffer", "locations"}
  BY <1>1
<1> HIDE DEF P
<1>4. /\ P["name"] = 0 /\ P["starttime"] = 1 /\ P["bitspersample"] = 2
      /\ P["buffer"] = 3 /\ P["locations"] = 4
  BY <1>1
<1> QED BY <1>2, <1>3, <1>4

LEMMA GivenFields ==
  ASSUME NEW kind \in DOMAIN Bits, NEW given \in Given[kind]
  PROVE  given \in SUBSET DOMAIN Bits[kind]
BY DEF Given

-------------------------------------------------------------------------------
(* The invariant.                                                            *)

LEMMA TargetRange == IInv => Target \in Instances \cup {NoContext}
<1> SUFFICES ASSUME IInv, Contains(contexts, current)
             PROVE  Target \in Instances
  BY DEF Target
<1>1. contexts \in Seq(Entry)
  BY DEF IInv, TypeOK
<1>2. Target \in Listed
  BY <1>1, IndexOfPlace DEF Target, Get, Listed
<1> QED BY <1>2, ListedRange DEF IInv

LEMMA InitServer == ServerInit => ServerIInv
<1> SUFFICES ASSUME ServerInit PROVE ServerIInv
  OBVIOUS
<1>1. IInv /\ TypeOK
  BY InitIInv DEF ServerInit, IInv
<1>2. reader = Waiting /\ call = NoCall /\ written = {} /\ delegate = "unset"
      /\ code = "none" /\ front \in {"text", "json"}
      /\ relative \in BOOLEAN /\ step = Idle
  BY DEF ServerInit, Init
<1>3. Waiting \in [at : {"waiting", "reading", "naming"}, left : 0 .. MaxSections,
                   name : Names \cup {NoName}]
  BY SectionsAssumption DEF Waiting
<1>4. NoCall \in [op : CallOps, context : Instances \cup {NoContext}, asked : Asked]
  BY DEF NoCall, CallOps, Asked
<1>5. ServerTypeOK
  BY <1>1, <1>2, <1>3, <1>4 DEF ServerTypeOK
<1>6. NameHeld
  BY <1>2 DEF NameHeld, Waiting
<1>7. DelegateFits /\ OwnSettings
  BY <1>2 DEF DelegateFits, OwnSettings, NoCall
<1> QED BY <1>1, <1>5, <1>6, <1>7 DEF ServerIInv

\* A call with the context that getContext answers with has its type.
LEMMA CallType ==
  ASSUME IInv, NEW op \in CallOps, NEW asked \in Asked, Call(op, asked)
  PROVE  /\ call' \in [op : CallOps, context : Instances \cup {NoContext}, asked : Asked]
         /\ call'.op = op /\ call'.asked = asked /\ call'.context = Target
         /\ call'.op \in CallOps
BY TargetRange DEF Call

LEMMA NoCallType ==
  /\ NoCall \in [op : CallOps, context : Instances \cup {NoContext}, asked : Asked]
  /\ NoCall.op = "none"
BY DEF NoCall, CallOps, Asked

\* Steps that write and call nothing, and leave the document alone.
LEMMA QuietStepServer ==
  ASSUME ServerIInv, IInv', UNCHANGED <<readerVars, callVars>>,
         reader.at = "reading" => UNCHANGED <<contexts, current, step>>,
         front = "json" /\ step' # Idle => step # Idle \/ reader.at = "naming"
  PROVE  ServerIInv'
<1> USE DEF readerVars, callVars
<1>1. ServerTypeOK'
  BY DEF ServerIInv, ServerTypeOK, IInv
<1>2. NameHeld'
  BY DEF ServerIInv, NameHeld, Target, Contains, NamesOf, Get, IndexOf
<1>3. DelegateFits' /\ OwnSettings'
  BY DEF ServerIInv, DelegateFits, OwnSettings
<1> QED BY <1>1, <1>2, <1>3 DEF ServerIInv

LEMMA TextFront == ServerIInv /\ front = "text" => reader = Waiting
BY DEF ServerIInv, NameHeld

\* A message of text, but for the second half of a command on contexts.
LEMMA MessageStep ==
  ASSUME ServerIInv, IInv', UNCHANGED readerVars, front = "text",
         relative' = relative, delegate' \in {"unset", "default", "coverage", "js"},
         code' = code, written' \in SUBSET Settings,
         call' \in [op : CallOps, context : Instances \cup {NoContext}, asked : Asked],
         call'.op = "plot" =>
           /\ call'.asked \in {"raw", "coverage"}
           /\ delegate' = IF call'.asked = "coverage" THEN "coverage" ELSE "default"
  PROVE  ServerIInv'
<1>1. reader' = reader /\ reader = Waiting /\ front' = front
  BY TextFront DEF readerVars
<1>3. TypeOK'
  BY DEF IInv
<1>4. ServerTypeOK'
  BY <1>1, <1>3 DEF ServerIInv, ServerTypeOK
<1>5. NameHeld'
  BY <1>1 DEF NameHeld, Waiting
<1>6. DelegateFits' /\ OwnSettings'
  BY <1>1 DEF DelegateFits, OwnSettings
<1> QED BY <1>4, <1>5, <1>6 DEF ServerIInv

LEMMA TextStep == ServerIInv /\ IInv' /\ Text => ServerIInv'
<1> SUFFICES ASSUME ServerIInv, IInv', Text PROVE ServerIInv'
  OBVIOUS
<1>0. /\ IInv
      /\ relative \in BOOLEAN /\ delegate \in {"unset", "default", "coverage", "js"}
  BY DEF ServerIInv, ServerTypeOK
<1>1. ASSUME NEW settings, Wrote(settings), UNCHANGED readerVars, front = "text",
             settings \in SUBSET Settings
      PROVE  ServerIInv'
  BY <1>0, <1>1, NoCallType, MessageStep DEF Wrote
<1>2. ASSUME NEW name \in Plain, NEW lines \in Lines,
             TextAdd(name, lines) \/ TextSet(name, lines) \/ TextDel(name, lines)
      PROVE  ServerIInv'
  BY <1>1, <1>2 DEF TextAdd, TextSet, TextDel, TextMessage
<1>3. ASSUME NEW settings \in TextSettings, TextSetting(settings)
      PROVE  ServerIInv'
  <2>1. settings \in SUBSET Settings
    BY DEF TextSettings, Settings
  <2> QED BY <1>1, <1>3, <2>1 DEF TextSetting, TextMessage
<1>4. ASSUME NEW op \in TextOps, TextCall(op)
      PROVE  ServerIInv'
  <2>1. op \in CallOps /\ "nothing" \in Asked /\ op # "plot"
    BY DEF CallOps, Asked, TextOps, TextSetOps, TextGetOps, TextAddOps, TextDelOps
  <2>2. Call(op, "nothing") /\ UNCHANGED readerVars /\ front = "text" /\ written' = {}
        /\ relative' = relative /\ delegate' = delegate /\ code' = code
    BY <1>4 DEF TextCall, TextMessage
  <2> QED BY <1>0, <2>1, <2>2, CallType, MessageStep
<1>5. ASSUME NEW type \in {"raw", "coverage"}, TextPlot(type)
      PROVE  ServerIInv'
  <2>1. "plot" \in CallOps /\ type \in Asked
    BY DEF CallOps, Asked, PlotTypes
  <2>2. Call("plot", type) /\ UNCHANGED readerVars /\ front = "text" /\ written' = {}
        /\ relative' = relative /\ code' = code
        /\ delegate' = IF type = "coverage" THEN "coverage" ELSE "default"
    BY <1>5 DEF TextPlot, TextMessage, PlotDelegate
  <2>3. call'.asked = type
        /\ call' \in [op : CallOps, context : Instances \cup {NoContext}, asked : Asked]
    BY <1>0, <2>1, <2>2, CallType
  <2> QED BY <2>2, <2>3, MessageStep
<1>6. CASE TextNothing
  BY <1>1, <1>6 DEF TextNothing, TextMessage
<1>7. CASE TextEnd
  BY <1>7, TextFront, QuietStepServer DEF TextEnd, Waiting
<1>8. CASE TextAbort
  BY <1>8, QuietStepServer DEF TextAbort, Abort, instanceVars
<1> QED BY <1>2, <1>3, <1>4, <1>5, <1>6, <1>7, <1>8 DEF Text

LEMMA SectionStep ==
  ASSUME ServerIInv, IInv', NEW given, Section(given), UNCHANGED vars,
         relative' \in BOOLEAN, delegate' \in {"unset", "default", "coverage", "js"},
         code' \in {"none", "old"} \cup Copied,
         \/ call' = NoCall
         \/ /\ call' \in [op : CallOps, context : Instances \cup {NoContext}, asked : Asked]
            /\ call'.context = Target,
         DelegateFits', OwnSettings'
  PROVE  ServerIInv'
<1>1. /\ front = "json" /\ front' = front /\ written' \in SUBSET Settings
      /\ reader.at = "reading" /\ reader.left > 0 /\ step = Idle
      /\ reader' = [reader EXCEPT !.left = @ - 1]
  BY DEF Section, Reading, Free
<1>2. reader \in [at : {"waiting", "reading", "naming"}, left : 0 .. MaxSections,
                  name : Names \cup {NoName}]
  BY DEF ServerIInv, ServerTypeOK
<1>3. /\ reader' \in [at : {"waiting", "reading", "naming"}, left : 0 .. MaxSections,
                      name : Names \cup {NoName}]
      /\ reader'.at = "reading" /\ reader'.name = reader.name
  BY <1>1, <1>2, SectionsAssumption
<1>4. ServerTypeOK'
  BY <1>1, <1>3, NoCallType DEF ServerIInv, ServerTypeOK, IInv
<1>5. contexts' = contexts /\ current' = current /\ step' = step
  BY DEF vars, instanceVars
<1>6. Target' = Target
  BY <1>5 DEF Target, Contains, NamesOf, Get, IndexOf
<1>7. NameHeld'
  BY <1>1, <1>3, <1>5, <1>6 DEF ServerIInv, NameHeld, Contains, NamesOf
<1> QED BY <1>4, <1>7 DEF ServerIInv

\* Whether or not its mask was complete, a section's call has its type, and
\* where it made none nothing is said of it.
LEMMA CallIfType ==
  ASSUME IInv, NEW complete \in BOOLEAN, NEW op \in CallOps, NEW asked \in Asked,
         CallIf(complete, op, asked)
  PROVE  /\ \/ call' = NoCall
            \/ /\ call' \in [op : CallOps, context : Instances \cup {NoContext}, asked : Asked]
               /\ call'.context = Target
         /\ IF complete THEN call'.op = op /\ call'.asked = asked ELSE call'.op = "none"
<1>1. CASE complete
  BY <1>1, CallType DEF CallIf
<1>2. CASE ~complete
  BY <1>2, NoCallType DEF CallIf
<1> QED BY <1>1, <1>2

LEMMA OldCodeType == ServerTypeOK => OldCode \in {"none", "old"} \cup Copied
BY DEF ServerTypeOK, OldCode

LEMMA PlotSection ==
  ASSUME ServerIInv, IInv', NEW given \in Given["plot"], NEW type \in PlotTypes,
         JsonPlot(given, type)
  PROVE  ServerIInv'
<1> DEFINE custom   == "type" \in given /\ type = "code"
           set      == IF custom THEN "js" ELSE delegate
           complete == CheckMask(Mask("plot", given), 9)
<1>1. /\ Section(given) /\ CallIf(complete, "plot", type)
      /\ delegate' = IF complete THEN PlotDelegate(set, type, custom) ELSE set
      /\ IF custom THEN code' \in Copied ELSE code' = OldCode
      /\ UNCHANGED <<vars, relative>>
  BY DEF JsonPlot
<1>2. IInv /\ relative \in BOOLEAN /\ delegate \in {"unset", "default", "coverage", "js"}
      /\ OldCode \in {"none", "old"} \cup Copied
  BY OldCodeType DEF ServerIInv, ServerTypeOK
<1>3. complete \in BOOLEAN /\ custom \in BOOLEAN
  BY DEF CheckMask
<1>4. "plot" \in CallOps /\ type \in Asked
  BY DEF CallOps, Asked
<1>5. given \in SUBSET DOMAIN Bits["plot"]
  BY GivenFields DEF Bits
<1>6. complete => "type" \in given
  BY <1>5, PlotMask
<1> HIDE DEF complete
<1>7. /\ \/ call' = NoCall
         \/ /\ call' \in [op : CallOps, context : Instances \cup {NoContext}, asked : Asked]
            /\ call'.context = Target
      /\ IF complete THEN call'.op = "plot" /\ call'.asked = type ELSE call'.op = "none"
  BY <1>1, <1>2, <1>3, <1>4, CallIfType
<1>8. delegate' \in {"unset", "default", "coverage", "js"} /\ code' \in {"none", "old"} \cup Copied
  BY <1>1, <1>2 DEF PlotDelegate
<1>9. DelegateFits'
  BY <1>1, <1>6, <1>7 DEF DelegateFits, PlotDelegate
<1>10. written' = given \cap Settings
  BY <1>1 DEF Section
<1>11. complete => /\ {"ra", "dec", "width", "height"} \subseteq written'
                   /\ {"frequency", "samplerate"} \cap written' # {}
  BY <1>5, <1>10, PlotMask DEF complete, Settings
<1>12. OwnSettings'
  BY <1>7, <1>11 DEF OwnSettings
<1> QED BY <1>1, <1>2, <1>7, <1>8, <1>9, <1>12, SectionStep

LEMMA NodeSection ==
  ASSUME ServerIInv, IInv', NEW given \in Given["node"], JsonNode(given)
  PROVE  ServerIInv'
<1> DEFINE complete == CheckMask(Mask("node", given), 5)
           asked    == IF relative THEN "geographic" ELSE "xyz"
<1>1. Section(given) /\ CallIf(complete, "node", asked)
      /\ code' = OldCode /\ UNCHANGED <<vars, relative, delegate>>
  BY DEF JsonNode
<1>2. IInv /\ relative \in BOOLEAN /\ delegate \in {"unset", "default", "coverage", "js"}
      /\ OldCode \in {"none", "old"} \cup Copied
  BY OldCodeType DEF ServerIInv, ServerTypeOK
<1>3. complete \in BOOLEAN /\ "node" \in CallOps /\ asked \in Asked
  BY DEF CheckMask, CallOps, TextOps, TextAddOps, Asked
<1>4. given \in SUBSET DOMAIN Bits["node"]
  BY GivenFields DEF Bits
<1>5. complete => "bitspersample" \in written'
  BY <1>1, <1>4, NodeMask DEF Section, Settings
<1> HIDE DEF complete, asked
<1>6. /\ \/ call' = NoCall
         \/ /\ call' \in [op : CallOps, context : Instances \cup {NoContext}, asked : Asked]
            /\ call'.context = Target
      /\ IF complete THEN call'.op = "node" ELSE call'.op = "none"
  BY <1>1, <1>2, <1>3, CallIfType
<1>7. DelegateFits' /\ OwnSettings'
  BY <1>3, <1>5, <1>6 DEF DelegateFits, OwnSettings
<1> QED BY <1>1, <1>2, <1>6, <1>7, SectionStep

\* The sections that are neither a plot nor a node.
LEMMA OtherSection ==
  ASSUME ServerIInv, IInv', NEW complete \in BOOLEAN,
         NEW op \in CallOps \ {"plot", "node"}, Section({}),
         CallIf(complete, op, "nothing"), relative' \in BOOLEAN,
         code' = OldCode, UNCHANGED <<vars, delegate>>
  PROVE  ServerIInv'
<1>1. IInv /\ delegate \in {"unset", "default", "coverage", "js"}
      /\ OldCode \in {"none", "old"} \cup Copied
  BY OldCodeType DEF ServerIInv, ServerTypeOK
<1>2. "nothing" \in Asked
  BY DEF Asked
<1>3. /\ \/ call' = NoCall
         \/ /\ call' \in [op : CallOps, context : Instances \cup {NoContext}, asked : Asked]
            /\ call'.context = Target
      /\ IF complete THEN call'.op = op ELSE call'.op = "none"
  BY <1>1, <1>2, CallIfType
<1>4. DelegateFits' /\ OwnSettings'
  BY <1>3 DEF DelegateFits, OwnSettings
<1> QED BY <1>1, <1>3, <1>4, SectionStep

LEMMA JsonStep == ServerIInv /\ IInv' /\ Json => ServerIInv'
<1> SUFFICES ASSUME ServerIInv, IInv', Json PROVE ServerIInv'
  OBVIOUS
<1>0. /\ relative \in BOOLEAN /\ delegate \in {"unset", "default", "coverage", "js"}
      /\ OldCode \in {"none", "old"} \cup Copied /\ NameHeld
      /\ reader \in [at : {"waiting", "reading", "naming"}, left : 0 .. MaxSections,
                     name : Names \cup {NoName}]
  BY OldCodeType DEF ServerIInv, ServerTypeOK
<1>1. ASSUME UNCHANGED <<front, relative, delegate>>, front = "json",
             written' = {}, call' = NoCall, code' \in {"none", "old"} \cup Copied,
             reader' \in [at : {"waiting", "reading", "naming"}, left : 0 .. MaxSections,
                         name : Names \cup {NoName}],
             NameHeld'
      PROVE  ServerIInv'
  <2>1. ServerTypeOK'
    BY <1>0, <1>1, NoCallType DEF ServerIInv, ServerTypeOK, IInv
  <2>2. DelegateFits' /\ OwnSettings'
    BY <1>1, NoCallType DEF DelegateFits, OwnSettings
  <2> QED BY <1>1, <2>1, <2>2 DEF ServerIInv
<1>2. CASE Document
  <2>1. PICK n \in 1 .. MaxSections : reader' = [Waiting EXCEPT !.at = "reading", !.left = n]
    BY <1>2 DEF Document
  <2>2. reader' = [at |-> "reading", left |-> n, name |-> NoName]
    BY <2>1 DEF Waiting
  <2>3. /\ front = "json" /\ step = Idle /\ UNCHANGED <<vars, front, callVars>>
    BY <1>2 DEF Document, Free
  <2>4. NameHeld'
    BY <2>2, <2>3 DEF NameHeld, vars
  <2>5. ServerTypeOK'
    BY <1>0, <2>2, <2>3, SectionsAssumption DEF ServerIInv, ServerTypeOK, IInv, callVars
  <2>6. DelegateFits' /\ OwnSettings'
    BY <2>3 DEF ServerIInv, DelegateFits, OwnSettings, callVars
  <2> QED BY <2>4, <2>5, <2>6 DEF ServerIInv
<1>3. CASE DocumentOver
  <2>1. front = "json" /\ step = Idle /\ reader' = Waiting /\ UNCHANGED <<vars, front>>
    BY <1>3 DEF DocumentOver, Reading, Free
  <2>2. NameHeld'
    BY <2>1 DEF NameHeld, Waiting, vars
  <2>3. Waiting \in [at : {"waiting", "reading", "naming"}, left : 0 .. MaxSections,
                     name : Names \cup {NoName}]
    BY SectionsAssumption DEF Waiting
  <2> QED BY <1>0, <1>1, <1>3, <2>1, <2>2, <2>3 DEF DocumentOver
<1>4. ASSUME NEW name \in Plain, JsonContext(name) PROVE ServerIInv'
  <2>1. front = "json" /\ UNCHANGED <<vars, front>> /\ call' = NoCall /\ reader.left > 0
        /\ reader' = [at |-> "naming", left |-> reader.left - 1, name |-> name]
    BY <1>4 DEF JsonContext, Reading
  <2>2. NameHeld'
    BY <2>1 DEF NameHeld, vars
  <2>3. reader' \in [at : {"waiting", "reading", "naming"}, left : 0 .. MaxSections,
                    name : Names \cup {NoName}]
    BY <1>0, <2>1, SectionsAssumption, CommandAssumption
  <2> QED BY <1>0, <1>1, <1>4, <2>1, <2>2, <2>3 DEF JsonContext
<1>5. CASE JsonAdd
  BY <1>5, QuietStepServer DEF JsonAdd
<1>6. CASE JsonAdded
  <2>1. front = "json" /\ step # Idle
    BY <1>6 DEF JsonAdded, EndAdd, Idle
  <2>2. reader.at = "naming"
    BY <1>0, <2>1 DEF NameHeld
  <2> QED BY <1>6, <2>2, QuietStepServer DEF JsonAdded
<1>7. CASE JsonSet
  <2>1. /\ front = "json" /\ reader.at = "naming" /\ step = Idle /\ step' = step
        /\ Contains(contexts, reader.name) /\ contexts' = contexts
        /\ current' = reader.name /\ reader' = [reader EXCEPT !.at = "reading"]
        /\ UNCHANGED <<front, callVars>> /\ call = NoCall
    BY <1>0, <1>7 DEF JsonSet, SetContext, Free, NameHeld, instanceVars
  <2>2. reader'.at = "reading" /\ reader'.name = reader.name
        /\ reader' \in [at : {"waiting", "reading", "naming"}, left : 0 .. MaxSections,
                        name : Names \cup {NoName}]
    BY <1>0, <2>1
  <2>3. NameHeld'
    BY <2>1, <2>2 DEF NameHeld, Contains, NamesOf, callVars
  <2>4. ServerTypeOK'
    BY <1>0, <2>1, <2>2 DEF ServerIInv, ServerTypeOK, IInv, callVars
  <2>5. DelegateFits' /\ OwnSettings'
    BY <2>1 DEF ServerIInv, DelegateFits, OwnSettings, callVars
  <2> QED BY <2>3, <2>4, <2>5 DEF ServerIInv
<1>8. ASSUME NEW kind \in DOMAIN PlainSections, NEW given \in Given[kind],
             JsonCall(kind, given)
      PROVE  ServerIInv'
  <2>1. kind \in CallOps \ {"plot", "node"}
    BY DEF CallOps, PlainSections
  <2> DEFINE complete == CheckMask(Mask(kind, given), PlainSections[kind])
  <2>2. complete \in BOOLEAN
    BY DEF CheckMask
  <2>3. Section({}) /\ CallIf(complete, kind, "nothing") /\ relative' = relative
        /\ code' = OldCode /\ UNCHANGED <<vars, delegate>>
    BY <1>8 DEF JsonCall
  <2> HIDE DEF complete
  <2> QED BY <1>0, <2>1, <2>2, <2>3, OtherSection
<1>9. ASSUME NEW given \in Given["location"], JsonLocation(given) PROVE ServerIInv'
  <2>1. "location" \in CallOps \ {"plot", "node"}
    BY DEF CallOps, TextOps, TextSetOps
  <2> DEFINE complete == CheckMask(Mask("location", given), 3)
  <2>2. complete \in BOOLEAN
    BY DEF CheckMask
  <2>3. Section({}) /\ CallIf(complete, "location", "nothing")
        /\ relative' = (relative \/ complete)
        /\ code' = OldCode /\ UNCHANGED <<vars, delegate>>
    BY <1>9 DEF JsonLocation
  <2> HIDE DEF complete
  <2> QED BY <1>0, <2>1, <2>2, <2>3, OtherSection
<1>10. ASSUME NEW given \in Given["node"], JsonNode(given) PROVE ServerIInv'
  BY <1>10, NodeSection
<1>11. ASSUME NEW given \in Given["plot"], NEW type \in PlotTypes, JsonPlot(given, type)
       PROVE  ServerIInv'
  BY <1>11, PlotSection
<1>12. ASSUME NEW given \in Given["edit"], NEW edit \in Edits, JsonEdit(given, edit)
       PROVE  ServerIInv'
  <2> DEFINE mask == Mask("edit", given)
             complete == \/ edit = "shift" /\ CheckMask(mask, 2)
                         \/ edit \in EditsOfTwo /\ CheckMask(mask, 4)
  <2>1. complete \in BOOLEAN
    OBVIOUS
  <2>2. Section({}) /\ CallIf(complete, edit, "nothing") /\ relative' = relative
        /\ code' = OldCode /\ UNCHANGED <<vars, delegate>>
    BY <1>12 DEF JsonEdit
  <2>3. CASE edit = "filter"
    <3>1. ~complete
      BY <2>3 DEF EditsOfTwo
    <3>2. CallIf(FALSE, "shift", "nothing")
      BY <2>2, <3>1 DEF CallIf
    <3>3. "shift" \in CallOps \ {"plot", "node"}
      BY DEF CallOps, TextOps, TextSetOps
    <3> HIDE DEF complete
    <3> QED BY <1>0, <2>2, <3>2, <3>3, OtherSection
  <2>4. CASE edit # "filter"
    <3>1. edit \in CallOps \ {"plot", "node"}
      BY <2>4 DEF CallOps, TextOps, TextSetOps, Edits, EditsOfTwo
    <3> HIDE DEF complete
    <3> QED BY <1>0, <2>1, <2>2, <3>1, OtherSection
  <2> QED BY <2>3, <2>4
<1>13. CASE JsonAbort
  BY <1>13, QuietStepServer DEF JsonAbort, Abort, instanceVars
<1> QED BY <1>2, <1>3, <1>4, <1>5, <1>6, <1>7, <1>8, <1>9, <1>10, <1>11, <1>12, <1>13
        DEF Json

LEMMA EndsStep == ServerIInv /\ IInv' /\ Ends => ServerIInv'
<1> SUFFICES ASSUME ServerIInv, IInv', Ends PROVE ServerIInv'
  OBVIOUS
<1>1. UNCHANGED <<contexts, current, step, readerVars, callVars>>
  BY DEF Ends, Quit, Leave, Return, Signal, HandlerDestroys, HandlerExits, instanceVars
<1> QED BY <1>1, QuietStepServer

LEMMA NextServer == ServerIInv /\ [ServerNext]_serverVars => ServerIInv' /\ [Next]_vars
<1> SUFFICES ASSUME ServerIInv, [ServerNext]_serverVars
             PROVE  ServerIInv' /\ [Next]_vars
  OBVIOUS
<1>1. [Next]_vars
  BY StepContexts DEF ServerIInv
<1>2. IInv'
  BY <1>1, NextIInv DEF ServerIInv
<1>3. CASE UNCHANGED serverVars
  BY <1>2, <1>3, QuietStepServer DEF serverVars, vars, instanceVars
<1> QED BY <1>1, <1>2, <1>3, TextStep, JsonStep, EndsStep DEF ServerNext

-------------------------------------------------------------------------------
\* The invariant above holds in every state.
THEOREM CommandsConsistent == ServerSpec => []ServerIInv
<1> QED BY InitServer, NextServer, PTL DEF ServerSpec

\* The variables have their types.
THEOREM ServerTypeCorrect == ServerSpec => []ServerTypeOK
<1>1. ServerIInv => ServerTypeOK
  BY DEF ServerIInv
<1> QED BY <1>1, CommandsConsistent, PTL

\* The calls of a document go to the open instance of the context it named.
THEOREM CallsReachNamed == ServerSpec => []NamedTarget
<1>1. ServerIInv => NamedTarget
  <2> SUFFICES ASSUME ServerIInv, destroyed = 0, reader.at = "reading",
                      reader.name # NoName, call # NoCall
               PROVE  /\ Contains(contexts, reader.name)
                      /\ call.context = Get(contexts, reader.name).context
                      /\ closed[call.context] = 0
    BY DEF NamedTarget
  <2>1. Contains(contexts, current) /\ current = reader.name /\ call.context = Target
    BY DEF ServerIInv, NameHeld
  <2>2. Target = Get(contexts, current).context
    BY <2>1 DEF Target
  <2>3. contexts \in Seq(Entry)
    BY DEF ServerIInv, IInv, TypeOK
  <2>4. Target \in Listed
    BY <2>1, <2>2, <2>3, IndexOfPlace DEF Get, Listed
  <2>5. closed[Target] = 0
    <3>1. Target \in Instances /\ closed[Target] \in Nat
      BY <2>4, ListedRange DEF ServerIInv, IInv, TypeOK
    <3> QED BY <2>4, <3>1 DEF ServerIInv, IInv, ClosedByOne
  <2> QED BY <2>1, <2>2, <2>5
<1> QED BY <1>1, CommandsConsistent, PTL

\* A plot is made with the delegate that its own message asks for.
THEOREM DelegateAsAsked == ServerSpec => []DelegateFits
<1>1. ServerIInv => DelegateFits
  BY DEF ServerIInv
<1> QED BY <1>1, CommandsConsistent, PTL

\* A section that is acted upon has written what it uses, but for one of two.
THEOREM SettingsOwn == ServerSpec => []OwnSettings
<1>1. ServerIInv => OwnSettings
  BY DEF ServerIInv
<1> QED BY <1>1, CommandsConsistent, PTL
===============================================================================
