----------------------------- MODULE SharedLogger -----------------------------
(***************************************************************************)
(* Several LoggerFactories in one process, of which some have the same     *)
(* service_name: logging.getLogger(service_name) then gives them the same  *)
(* root logger, and shutdown() closes and removes every handler it finds   *)
(* there. Construction and shutdown run on threads of their own; each      *)
(* factory has a console and at least one sink behind its queue. The       *)
(* registry is that of Registry: publishing is the last thing __init__     *)
(* does, withdrawing the last thing shutdown() does.                       *)
(***************************************************************************)
EXTENDS Registry, RecordPath

CONSTANT NameOf     \* NameOf[f]: the service_name of f

Names        == {NameOf[f] : f \in Factories}
Namesakes(f) == {g \in Factories \ {f} : NameOf[g] = NameOf[f]}

ASSUME NameOfAssumption == DOMAIN NameOf = Factories

VARIABLES
    attached,   \* attached[n]: root.handlers of the logger n
    phase,      \* phase[f]: how far f is, next to at[f]
    listening,  \* the factories whose QueueListener thread runs
    toClose,    \* toClose[f]: the rest of list(root.handlers) in shutdown()
    exposed     \* history: the factories that were there when the shutdown()
                \* of another one of their name listed the handlers

loggerVars == <<attached, phase, listening, toClose, exposed>>
sharedVars == <<registryVars, loggerVars>>

Phases == {"new", "console", "queue", "up", "stopping", "closing"}

SharedInit ==
    /\ RegistryInit
    /\ attached = [n \in Names |-> << >>]
    /\ phase = [f \in Factories |-> "new"]
    /\ listening = {}
    /\ toClose = [f \in Factories |-> << >>]
    /\ exposed = {}

Enters(f, p)  == phase' = [phase EXCEPT ![f] = p]
Attach(f, h)  == attached' = [attached EXCEPT ![NameOf[f]] = Append(@, <<f, h>>)]

(***************************************************************************)
(* LoggerFactory.__init__                                                  *)
(***************************************************************************)
(* self._root.addHandler(h) for the console handler                        *)
AddConsole(f) ==
    /\ phase[f] = "new"
    /\ Attach(f, "console")
    /\ Enters(f, "console")
    /\ UNCHANGED <<registryVars, listening, toClose, exposed>>

(* self._root.addHandler(qh)                                               *)
AddQueue(f) ==
    /\ phase[f] = "console"
    /\ Attach(f, "queue")
    /\ Enters(f, "queue")
    /\ UNCHANGED <<registryVars, listening, toClose, exposed>>

(* listener.start()                                                        *)
StartListener(f) ==
    /\ phase[f] = "queue"
    /\ listening' = listening \cup {f}
    /\ Enters(f, "up")
    /\ UNCHANGED <<registryVars, attached, toClose, exposed>>

(* The factory is published before its handlers are there.                 *)
Bug_Publish(f) ==
    /\ phase[f] # "new"
    /\ PublishAppend(f)
    /\ UNCHANGED loggerVars

(* publish(self)                                                           *)
Publish(f) ==
    /\ phase[f] = "up"
    /\ PublishAppend(f)
    /\ UNCHANGED loggerVars

(***************************************************************************)
(* LoggerFactory.shutdown(), under the factory's own lock                  *)
(***************************************************************************)
(* _shutdown is set.                                                       *)
BeginShutdown(f) ==
    /\ phase[f] = "up"
    /\ at[f] = "live"
    /\ Enters(f, "stopping")
    /\ UNCHANGED <<registryVars, attached, listening, toClose, exposed>>

(* listener.stop() has joined the thread; list(self._root.handlers)        *)
StopListener(f) ==
    /\ phase[f] = "stopping"
    /\ listening' = listening \ {f}
    /\ toClose' = [toClose EXCEPT ![f] = attached[NameOf[f]]]
    /\ exposed' = exposed \cup {g \in Namesakes(f) : phase[g] # "new"}
    /\ Enters(f, "closing")
    /\ UNCHANGED <<registryVars, attached>>

(* self._root.removeHandler(h)                                             *)
Detach(n, h) ==
    \/ /\ ~Contains(attached[n], h)
       /\ UNCHANGED attached
    \/ \E i \in 1..Len(attached[n]) :
          /\ attached[n][i] = h
          /\ attached' = [attached EXCEPT ![n] = RemoveAt(@, i)]

(* The live list is iterated over, and not a copy of it: the removal moves *)
(* the next handler out of the way.                                        *)
Bug_CloseHandler(f) ==
    /\ phase[f] = "closing"
    /\ toClose[f] # << >>
    /\ Detach(NameOf[f], Head(toClose[f]))
    /\ toClose' = [toClose EXCEPT ![f] = IF Len(@) > 1 THEN Tail(Tail(@)) ELSE << >>]
    /\ UNCHANGED <<registryVars, phase, listening, exposed>>

(* h.close(); removeHandler(h), whoever attached it; nothing happens if it *)
(* is gone already.                                                        *)
CloseHandler(f) ==
    /\ phase[f] = "closing"
    /\ toClose[f] # << >>
    /\ Detach(NameOf[f], Head(toClose[f]))
    /\ toClose' = [toClose EXCEPT ![f] = Tail(@)]
    /\ UNCHANGED <<registryVars, phase, listening, exposed>>

(* withdraw(self)                                                          *)
Withdraw(f) ==
    /\ phase[f] = "closing"
    /\ toClose[f] = << >>
    /\ WithdrawRemove(f)
    /\ UNCHANGED loggerVars

RegistrySteps(f) == Finishes(f) /\ UNCHANGED loggerVars

SharedNext ==
    \E f \in Factories : \/ AddConsole(f)
                         \/ AddQueue(f)
                         \/ StartListener(f)
                         \/ Publish(f)
                         \/ BeginShutdown(f)
                         \/ StopListener(f)
                         \/ CloseHandler(f)
                         \/ Withdraw(f)
                         \/ RegistrySteps(f)

SharedSpec == SharedInit /\ [][SharedNext]_sharedVars
-----------------------------------------------------------------------------
(* The factories whose sinks get a record logged through the logger of f:  *)
(* their queue handler is on it, and their listener runs.                  *)
Served(f) == {g \in listening : Contains(attached[NameOf[f]], <<g, "queue">>)}

Stops(f) == phase[f] \in {"stopping", "closing"}

(* A factory that decorators can find in the registry, and that is not     *)
(* shutting down, is served by its own sinks, whoever is built or shut down*)
(* meanwhile: unless a factory of its name shut down beside it, which      *)
(* closes its handlers. One that is built later has nothing to fear        *)
(* (LoggerFactory.__init__ publishes last, shutdown closes what it listed).*)
ServedUnlessExposed ==
    \A f \in Factories : InStack(f) /\ ~Stops(f) /\ f \notin exposed => f \in Served(f)

(* A shutdown() that has returned leaves nothing of its factory behind, in *)
(* the registry or on the logger, whatever other factories of the name do  *)
(* meanwhile (LoggerFactory.shutdown).                                     *)
DownIsDetached ==
    \A f \in Factories : at[f] = "gone" =>
        /\ f \notin listening
        /\ \A i \in 1..Len(attached[NameOf[f]]) : attached[NameOf[f]][i][1] # f

(* What is logged: fields of the user and of the decorators, with or       *)
(* without a traceback, through a BoundLogger or the logger itself.        *)
Logged ==
    {LogRecord(Process(fields), "own", frames) :
        fields \in SUBSET {"type", "function", "user"}, frames \in {<< >>, <<1, 2>>}}
    \cup {LogRecord({}, "none", frames) : frames \in {<< >>, <<1, 2>>}}

HandlersOf(n) == [i \in DOMAIN attached[n] |-> attached[n][i][2]]

(* Every sink behind every queue says the same of a record, whichever      *)
(* handlers of other factories had their turn before: its traceback once   *)
(* and whole, its own trace, and in the file all of its fields ("function" *)
(* is the name of a key of the line and is lost).                          *)
SinksAgree ==
    \A n \in Names : \A rec \in Logged : \A copy \in Copies(HandlersOf(n), rec) :
        LET line == JSONLine(copy)
            wire == Wire(copy)
            frames == [i \in DOMAIN line.tracebacks |-> line.tracebacks[i].frames]
        IN  /\ frames = IF rec.excInfo = << >> THEN << >> ELSE <<rec.excInfo>>
            /\ wire.tracebacks = line.tracebacks
            /\ wire.trace = line.trace
            /\ rec.attrs # {} => line.trace = rec.trace
            /\ rec.attrs \ {"function"} \subseteq line.fields
=============================================================================
