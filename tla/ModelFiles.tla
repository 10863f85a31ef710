------------------------------ MODULE ModelFiles ------------------------------
(***************************************************************************)
(* Models from and to picture files (vlbi/stream.cpp 854-1003) and through *)
(* the server (vlbi_server.cpp 249-344), over the models of ModelStore.  A *)
(* file has a number of channels; it becomes one model per channel, under  *)
(* the name and the channel's number, and one of all channels together.    *)
(* What the pictures show is left out.                                     *)
(***************************************************************************)
EXTENDS ModelStore

CONSTANTS
  Plain,          \* the names that files are loaded and saved under
  Channel(_, _),  \* a plain name and a number make a name
  MaxChannels     \* bound: channels of a file

ASSUME ChannelAssumption ==
  /\ Plain \subseteq Names
  /\ MaxChannels \in Nat \ {0}
  /\ \A name \in Plain, c \in 0 .. MaxChannels - 1 : Channel(name, c) \in Names \ Plain
  /\ \A name, other \in Plain, c, d \in 0 .. MaxChannels - 1 :
       Channel(name, c) = Channel(other, d) => name = other /\ c = d

VARIABLES
  job,   \* history: the file that was loaded last, while nothing else was done
  saved  \* the streams that were given to a writer, in the order of the file

fileVars == <<job, saved>>

Idle == [at |-> "idle", name |-> NoName, next |-> 0, channels |-> 0, first |-> 0,
         before |-> [name \in Names |-> Null]]

FilesInit == Init /\ job = Idle /\ saved = <<>>

\* vlbi_add_model_from_png, _jpeg or _fits, of a file that could be read: the
\* reader has a stream for each channel and one more.
Load(name, channels) ==
  /\ job.at # "listing"
  /\ made + channels + 1 <= MaxStreams
  /\ job' = [at |-> "listing", name |-> name, next |-> 0, channels |-> channels,
             first |-> made + 1,
             before |-> [other \in Names |->
                           IF Contains(models, other) THEN StreamOf(other) ELSE Null]]
  /\ saved' = <<>>
  /\ UNCHANGED vars

\* VLBI::Server::addModel leaves a name that is taken alone.
Upload(name, channels) == ~Contains(models, name) /\ Load(name, channels)

Listing == job.at = "listing"

\* A channel is listed under its number, if it is not the only one.
ListChannel ==
  /\ Listing /\ job.next < job.channels
  /\ IF job.channels > 1 THEN Register(Channel(job.name, job.next)) ELSE Lose(1)
  /\ job' = [job EXCEPT !.next = @ + 1]
  /\ UNCHANGED saved

\* Mutant: what is listed under the name is the last channel.
ListLast ==
  /\ Listing /\ job.next = job.channels
  /\ models' = AddTo(models, made, job.name)
  /\ label' = [label EXCEPT ![made] = job.name]
  /\ job' = [job EXCEPT !.at = "loaded"]
  /\ UNCHANGED <<made, freed, magnitude, phase, again, saved>>

\* The last stream, of all channels, is listed under the name itself.
ListWhole ==
  /\ Listing /\ job.next = job.channels
  /\ Register(job.name)
  /\ job' = [job EXCEPT !.at = "loaded"]
  /\ UNCHANGED saved

\* Mutant: a name that is taken is preferred to its channels.
SavedListWhole(name) ==
  LET start == IF Contains(models, name) THEN name ELSE Channel(name, 0)
      more  == {c \in 1 .. MaxChannels - 1 :
                  \A d \in 1 .. c : Contains(models, Channel(name, d))}
  IN  IF ~Contains(models, start) THEN <<>>
      ELSE [k \in 1 .. Cardinality(more) + 2 |->
              IF k <= 2 THEN StreamOf(start) ELSE StreamOf(Channel(name, k - 2))]

\* The loop of vlbi_get_model_to_png, _jpeg and _fits appends what it has found
\* last and looks for the next: what was found before the loop, the channel 0
\* or else the whole, is in the list, and in it again when the loop begins.
SavedList(name) ==
  LET zero  == Channel(name, 0)
      start == IF Contains(models, zero) THEN zero ELSE name
      more  == {c \in 1 .. MaxChannels - 1 :
                  \A d \in 1 .. c : Contains(models, Channel(name, d))}
  IN  IF ~Contains(models, start) THEN <<>>
      ELSE [k \in 1 .. Cardinality(more) + 2 |->
              IF k <= 2 THEN StreamOf(start) ELSE StreamOf(Channel(name, k - 2))]

\* vlbi_get_model_to_png, _jpeg or _fits
Save(name) ==
  /\ ~Listing
  /\ \A k \in DOMAIN SavedList(name) : Live(SavedList(name)[k])
  /\ saved' = SavedList(name)
  /\ job' = IF job.at = "loaded" /\ job.name = name THEN [job EXCEPT !.at = "saved"] ELSE Idle
  /\ UNCHANGED vars

\* VLBI::Server::getModel copies the model twice, one copy for the only channel
\* and one for the whole, and keeps both.
Download(name) ==
  /\ ~Listing
  /\ Usable(name)
  /\ Lose(2)
  /\ saved' = <<made + 1>>
  /\ job' = Idle

\* Everything else that is done with models.
Other == ~Listing /\ Next /\ job' = Idle /\ saved' = <<>>

FilesNext ==
  \/ \E name \in Plain, channels \in 1 .. MaxChannels :
       Load(name, channels) \/ Upload(name, channels)
  \/ ListChannel \/ ListWhole
  \/ \E name \in Plain : Save(name) \/ Download(name)
  \/ Other

FilesSpec == FilesInit /\ [][FilesNext]_<<vars, fileVars>>

-------------------------------------------------------------------------------
(* Properties                                                                *)

\* The types of all variables, those of the models too.
FilesTypeOK ==
  /\ TypeOK
  /\ job \in [at : {"idle", "listing", "loaded", "saved"}, name : Plain \cup {NoName},
              next : 0 .. MaxChannels, channels : 0 .. MaxChannels,
              first : 0 .. MaxStreams, before : [Names -> Streams \cup {Null}]]
  /\ saved \in Seq(Streams)

\* The number of a channel and the file's own name belong to the file if they
\* were free when it was loaded, and to what they were the name of otherwise.
ListedAs(name, s) ==
  IF s = Null THEN ~Contains(models, name)
  ELSE Contains(models, name) /\ StreamOf(name) = s

Given(name, s) == IF job.before[name] = Null THEN s ELSE job.before[name]

ChannelsUpTo(n) ==
  \A c \in 0 .. MaxChannels - 1 :
    LET name == Channel(job.name, c)
    IN  ListedAs(name, IF job.channels > 1 /\ c < n THEN Given(name, job.first + c)
                       ELSE job.before[name])

\* A file is listed as a whole, whichever of its names were taken: each channel
\* under its own number, in the order of the file, and the sum of them under
\* the name; a name that was taken stays what it was.
LoadedTogether ==
  job.at = "loaded" =>
    /\ ListedAs(job.name, Given(job.name, job.first + job.channels))
    /\ ChannelsUpTo(job.channels)

\* The name and all its numbers were free.
Alone ==
  /\ job.before[job.name] = Null
  /\ \A c \in 0 .. MaxChannels - 1 : job.before[Channel(job.name, c)] = Null

\* The streams of the file: its channels, or the only one there is.
Source ==
  IF job.channels > 1 THEN job.first .. job.first + job.channels - 1
  ELSE {job.first + job.channels}

\* What was loaded under a new name and is saved at once goes to the file whole,
\* in the order it came, and nothing else does.
ChannelsSaved ==
  job.at = "saved" /\ Alone =>
    /\ {saved[k] : k \in DOMAIN saved} = Source
    /\ \A j, k \in DOMAIN saved : j <= k => saved[j] <= saved[k]

-------------------------------------------------------------------------------
(* The inductive invariant behind them.                                      *)

\* The channels before the next one are listed, and nothing else of the file.
InProgress ==
  /\ job.name \in Plain /\ job.first \in Streams
  /\ job.channels \in 1 .. MaxChannels /\ job.next \in 0 .. job.channels
  /\ made + 1 = job.first + job.next
  /\ ListedAs(job.name, job.before[job.name])
  /\ ChannelsUpTo(job.next)

Progress == Listing => InProgress

FilesIInv ==
  /\ IInv /\ FilesTypeOK /\ Progress /\ LoadedTogether /\ ChannelsSaved
  /\ job.at = "loaded" =>
       job.name \in Plain /\ job.first \in Streams /\ job.channels \in 1 .. MaxChannels
===============================================================================
