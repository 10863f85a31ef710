---------------------------- MODULE ServerContexts ----------------------------
(***************************************************************************)
(* The contexts of VLBI::Server (vlbi_server.cpp): a collection of named   *)
(* instances of the library, the name of the current one, and the mutex    *)
(* the library shares among all of its instances (vlbi/stream.cpp).        *)
(*                                                                         *)
(* A signal may arrive between any two steps: its handler destroys the     *)
(* server, which closes the current instance, and leaves the process.  The *)
(* handler ignores its own signal only, so another one may interrupt it.   *)
(* vlbi_init, vlbi_exit and what a command does with the collection are    *)
(* steps of their own: no signal is taken inside of them.                  *)
(***************************************************************************)
EXTENDS Collection

CONSTANTS
  Names,       \* names of contexts
  FirstName,   \* "OpenVLBI", the current name before any context is added
  Signals,     \* those of the handler's signals that can be caught
  MaxContexts  \* bound: how many times vlbi_init is called

ASSUME ServerAssumption ==
  /\ FirstName \in Names
  /\ MaxContexts \in Nat

\* The instances vlbi_init returns, and the library's own vlbi_nodes.
Instances == 1 .. MaxContexts
NoContext == 0

Entry == [name : Names, context : Instances]

VARIABLES
  contexts,           \* the InstanceCollection's items
  current,            \* the name of the current context
  made,               \* how many times vlbi_init was called
  closed,             \* how many times an instance was given to vlbi_exit
  mutex_initialized,  \* whether fillplane may use the library's mutex
  step,               \* what addContext or delContext is in the middle of
  process,            \* main(), and what its end is in the middle of
  caught,             \* the signals whose handlers were entered
  handler,            \* what the newest of the handlers is in the middle of
  destroyed           \* how many times the server's destructor was run

instanceVars == <<contexts, made, closed, mutex_initialized>>
signalVars   == <<caught, handler, destroyed>>
vars         == <<instanceVars, current, step, process, signalVars>>

Idle          == [at |-> "idle", context |-> NoContext, name |-> FirstName]
Adding(c, n)  == [at |-> "adding", context |-> c, name |-> n]
Closing(c, n) == [at |-> "closing", context |-> c, name |-> n]

Init ==
  /\ contexts = <<>>
  /\ current = FirstName
  /\ made = 0
  /\ closed = [c \in Instances |-> 0]
  /\ mutex_initialized = FALSE
  /\ step = Idle
  /\ process = "running"
  /\ caught = {}
  /\ handler = "none"
  /\ destroyed = 0

\* main goes on: a handler never comes back to what it has interrupted.
Main == handler = "none"

Free == Main /\ process = "running" /\ step = Idle

-------------------------------------------------------------------------------
(* vlbi_init and vlbi_exit.                                                  *)

\* vlbi_init makes a context and initializes the mutex, again if need be.
Open ==
  /\ made < MaxContexts
  /\ made' = made + 1
  /\ mutex_initialized' = TRUE

\* Mutant: the flag survives the mutex.
CloseMutexOnly(c) ==
  /\ closed' = [closed EXCEPT ![c] = @ + 1]
  /\ UNCHANGED mutex_initialized

\* vlbi_exit destroys the context and the mutex, whoever else may need it.
Close(c) ==
  /\ closed' = [closed EXCEPT ![c] = @ + 1]
  /\ mutex_initialized' = FALSE

-------------------------------------------------------------------------------
(* The commands.                                                             *)

\* Mutant: the instance is made before anyone looks whether the name is taken.
EagerBeginAdd(name) ==
  /\ Free
  /\ Open
  /\ step' = Adding(made + 1, name)
  /\ UNCHANGED <<contexts, current, closed, process, signalVars>>

\* addContext: if(!contexts->contains(name)) contexts->add(vlbi_init(), name)
BeginAdd(name) ==
  /\ Free
  /\ ~Contains(contexts, name)
  /\ Open
  /\ step' = Adding(made + 1, name)
  /\ UNCHANGED <<contexts, current, closed, process, signalVars>>

EndAdd ==
  /\ Main /\ process = "running" /\ step.at = "adding"
  /\ contexts' = Add(contexts, [name |-> step.name, context |-> step.context])
  /\ step' = Idle
  /\ UNCHANGED <<current, made, closed, mutex_initialized, process, signalVars>>

SetContext(name) ==
  /\ Free
  /\ Contains(contexts, name)
  /\ current' = name
  /\ UNCHANGED <<instanceVars, step, process, signalVars>>

\* Mutant: the instance stays in the collection until it is closed.
LateBeginDel(name) ==
  /\ Free
  /\ Contains(contexts, name)
  /\ step' = Closing(Get(contexts, name).context, name)
  /\ UNCHANGED <<instanceVars, current, process, signalVars>>

\* delContext takes the instance out of the collection ...
BeginDel(name) ==
  /\ Free
  /\ Contains(contexts, name)
  /\ contexts' = Remove(contexts, name)
  /\ step' = Closing(Get(contexts, name).context, name)
  /\ UNCHANGED <<current, made, closed, mutex_initialized, process, signalVars>>

\* ... and closes it.
EndDel ==
  /\ Main /\ process = "running" /\ step.at = "closing"
  /\ Close(step.context)
  /\ step' = Idle
  /\ UNCHANGED <<contexts, current, made, process, signalVars>>

\* "quit", or the end of the input: main leaves its loop.
Quit ==
  /\ Free
  /\ process' = "leaving"
  /\ UNCHANGED <<instanceVars, current, step, signalVars>>

-------------------------------------------------------------------------------
(* The end of the process.                                                   *)

\* getContext: without a current one, the library uses its own.
Target ==
  IF Contains(contexts, current) THEN Get(contexts, current).context ELSE NoContext

\* ~Server closes the current context, if there is one; it stays listed.
Destroy ==
  /\ destroyed' = destroyed + 1
  /\ IF Target = NoContext
     THEN UNCHANGED <<closed, mutex_initialized>>
     ELSE Close(Target)

\* main destroys the server and returns.
Leave ==
  /\ Main /\ process = "leaving"
  /\ Destroy
  /\ process' = "returning"
  /\ UNCHANGED <<contexts, current, made, step, caught, handler>>

Return ==
  /\ Main /\ process = "returning"
  /\ process' = "over"
  /\ UNCHANGED <<instanceVars, current, step, signalVars>>

\* sighandler is entered, wherever main or another handler is.  From then on
\* its own signal is blocked or ignored; the others are not.
Signal(signum) ==
  /\ process # "over" /\ signum \notin caught
  /\ caught' = caught \cup {signum}
  /\ handler' = "entered"
  /\ UNCHANGED <<instanceVars, current, step, process, destroyed>>

\* It destroys the server, destroyed before or not ...
HandlerDestroys ==
  /\ process # "over" /\ handler = "entered"
  /\ Destroy
  /\ handler' = "destroyed"
  /\ UNCHANGED <<contexts, current, made, step, process, caught>>

\* ... and calls exit.
HandlerExits ==
  /\ process # "over" /\ handler = "destroyed"
  /\ process' = "over"
  /\ UNCHANGED <<instanceVars, current, step, signalVars>>

\* A command that reads a null pointer ends the process with nothing closed.
Abort ==
  /\ Free
  /\ process' = "over"
  /\ UNCHANGED <<instanceVars, current, step, signalVars>>

Next ==
  \/ \E name \in Names : BeginAdd(name) \/ SetContext(name) \/ BeginDel(name)
  \/ EndAdd \/ EndDel \/ Quit \/ Leave \/ Return \/ Abort
  \/ \E signum \in Signals : Signal(signum)
  \/ HandlerDestroys \/ HandlerExits

Spec == Init /\ [][Next]_vars

-------------------------------------------------------------------------------
(* Properties                                                                *)

Steps ==
  {Idle} \cup {Adding(c, n) : c \in Instances, n \in Names}
         \cup {Closing(c, n) : c \in Instances, n \in Names}

\* The types of the variables; a name stands for one context.
TypeOK ==
  /\ contexts \in Seq(Entry) /\ UniqueNames(contexts)
  /\ current \in Names
  /\ made \in 0 .. MaxContexts
  /\ closed \in [Instances -> Nat]
  /\ mutex_initialized \in BOOLEAN
  /\ step \in Steps
  /\ process \in {"running", "leaving", "returning", "over"}
  /\ caught \subseteq Signals
  /\ handler \in {"none", "entered", "destroyed"}
  /\ destroyed \in Nat

Listed == {contexts[j].context : j \in DOMAIN contexts}

\* No command reaches an instance that was closed: until the server is
\* destroyed, getContext answers with an open instance or with none.
ListedOpen == destroyed = 0 => \A c \in Listed : closed[c] = 0

\* Every open instance can still be reached by its name, or is the one that
\* addContext or delContext has in hand.
NoOrphan ==
  \A c \in 1 .. made : closed[c] = 0 => c \in Listed \/ c = step.context

\* Wherever signals interrupt addContext, delContext, the end of main or one
\* another, an instance that a command has closed is closed once, and one that
\* is listed no more often than the destructor was run: it is only a second run
\* of it that closes an instance twice.
ClosedByOne ==
  \A c \in Instances : closed[c] <= IF c \in Listed THEN destroyed ELSE 1

\* The mutex is only ever said to be usable for the sake of an open instance.
MutexHasUser == mutex_initialized => \E c \in 1 .. made : closed[c] = 0

-------------------------------------------------------------------------------
(* The inductive invariant behind them.                                      *)

\* An instance has one entry, and none while a command has it in hand.
OneHolder ==
  /\ \A j, k \in DOMAIN contexts :
       contexts[j].context = contexts[k].context => j = k
  /\ step.context \notin Listed
  /\ \A c \in Listed : c <= made
  /\ step.context <= made

IInv ==
  /\ TypeOK
  /\ OneHolder
  /\ ClosedByOne
  /\ Main /\ process \in {"running", "leaving"} => destroyed = 0
  /\ step.at # "idle" => closed[step.context] = 0
  /\ step.at = "adding" => ~Contains(contexts, step.name)
  /\ process \in {"leaving", "returning"} => step = Idle
  /\ \A c \in Instances : c > made => closed[c] = 0
  /\ NoOrphan
  /\ mutex_initialized => closed[made] = 0 /\ made > 0
===============================================================================
