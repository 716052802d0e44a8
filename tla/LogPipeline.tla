----------------------------- MODULE LogPipeline -----------------------------
(***************************************************************************)
(* One LoggerFactory: the handlers on its root logger, the bounded queue,  *)
(* the QueueListener thread with its sinks, the threads that log and the   *)
(* threads that call shutdown().                                           *)
(*                                                                         *)
(* A record is a pair <<thread, n>>: the n-th record that thread logs.     *)
(***************************************************************************)
EXTENDS Integers, SequencesExt

CONSTANTS Producers,   \* threads that log through a BoundLogger
          Stoppers,    \* threads that call LoggerFactory.shutdown()
          Configs,     \* the LoggerConfigs considered
          MaxLogs,     \* bound: the number of log calls of each producer
          Sentinel,    \* the listener's end marker (None in the code)
          NoThread     \* the factory lock is free

Overflows == {"drop_oldest", "drop_newest", "block"}
SinkNames == {"file", "amqp"}
SinkPlans == {<< >>, <<"file">>, <<"amqp">>, <<"file", "amqp">>}

(* The fields of LoggerConfig that the pipeline reads. A capacity of 0 or  *)
(* less is accepted by QueueSettings.                                      *)
ConfigType == [console : BOOLEAN, sinks : SinkPlans, capacity : Int,
               overflow : Overflows, failOpen : BOOLEAN]

Records == UNION {{t} \X (1..MaxLogs[t]) : t \in Producers}
Items   == Records \cup {Sentinel}

ASSUME ConfigsAssumption == Configs \subseteq ConfigType
ASSUME MaxLogsAssumption == MaxLogs \in [Producers -> Nat]
ASSUME SentinelAssumption == Sentinel \notin Records
ASSUME ThreadsAssumption ==
    /\ Producers \cap Stoppers = {}
    /\ NoThread \notin Stoppers

VARIABLES
    config,     \* the LoggerConfig, never changed
    handlers,   \* root.handlers, a list of "console" and "queue"
    queue,      \* the bounded queue.Queue
    listener,   \* the listener thread: see ListenerStates
    sinkIdx,    \* index in config.sinks of the sink it hands its record to
    handed,     \* handed[s]: the records whose handle() by sink s returned
    shutdown,   \* LoggerFactory._shutdown
    lock,       \* holder of LoggerFactory._lock
    toClose,    \* the rest of list(root.handlers) in shutdown()
    published,  \* the factory is in the registry
    pc,         \* where each thread is
    pos,        \* pos[t]: index of t's iteration over root.handlers
    logged,     \* logged[t]: number of log calls t has made
    fate,       \* history: what became of a record at the queue
    puts,       \* history: everything ever put in the queue
    taken       \* history: everything ever taken out of it

queueVars    == <<queue, puts>>
listenerVars == <<listener, sinkIdx, handed, taken>>
factoryVars  == <<handlers, shutdown, lock, toClose, published>>
producerVars == <<pos, logged, fate>>
pipeVars == <<config, queueVars, listenerVars, factoryVars, producerVars, pc>>

ListenerStates == {"absent", "waiting", "handling", "stopped", "dead"}
ProducerPCs == {"new", "refused", "idle", "flushed", "dispatch", "put"}
StopperPCs  == {"idle", "acquire", "stop", "join", "close", "returned", "raised"}
Fates == {"unsent", "logging", "rejected", "full", "queued", "missed"}

Alive == listener \in {"waiting", "handling"}

(***************************************************************************)
(* The queue. A maxsize of 0 or less makes a Queue unbounded.              *)
(***************************************************************************)
QueueFull == config.capacity > 0 /\ Len(queue) >= config.capacity

(* OverflowFilter.filter: reads the queue's size outside of any lock.      *)
OverflowAdmits ==
    \/ Len(queue) < config.capacity
    \/ config.overflow # "drop_newest"

(***************************************************************************)
(* LoggerFactory.__init__ has returned: build_handlers made the console    *)
(* handler if it is enabled, and the queue with its started listener if    *)
(* there is a sink.                                                        *)
(***************************************************************************)
BuildHandlers(cfg) ==
    (IF cfg.console THEN <<"console">> ELSE << >>) \o
    (IF cfg.sinks # << >> THEN <<"queue">> ELSE << >>)

PipeInit ==
    /\ config \in Configs
    /\ handlers = BuildHandlers(config)
    /\ queue = << >>
    /\ listener = IF config.sinks # << >> THEN "waiting" ELSE "absent"
    /\ sinkIdx = 1
    /\ handed = [s \in SinkNames |-> << >>]
    /\ shutdown = FALSE
    /\ lock = NoThread
    /\ toClose = << >>
    /\ published = TRUE
    /\ pc = [t \in Producers \cup Stoppers |-> IF t \in Producers THEN "new" ELSE "idle"]
    /\ pos = [t \in Producers |-> 1]
    /\ logged = [t \in Producers |-> 0]
    /\ fate = [r \in Records |-> "unsent"]
    /\ puts = << >>
    /\ taken = << >>

(***************************************************************************)
(* The threads that log.                                                   *)
(***************************************************************************)
GoTo(t, where) == pc' = [pc EXCEPT ![t] = where]

(* The record of the log call that t is in.                                *)
Current(t) == <<t, logged[t]>>

Becomes(t, f) == fate' = [fate EXCEPT ![Current(t)] = f]

NextHandler(t) == pos' = [pos EXCEPT ![t] = @ + 1]

(* get_logger(): refused with ShutdownError once _shutdown is set. The     *)
(* BoundLogger it returns is used as long as the thread likes.             *)
GetLogger(t) ==
    /\ pc[t] = "new"
    /\ GoTo(t, IF shutdown THEN "refused" ELSE "idle")
    /\ UNCHANGED <<config, listenerVars, factoryVars, producerVars, queueVars>>

(* factory.flush(): calls flush() of every handler on the root logger. The *)
(* console handler flushes its stream; QueueHandler inherits a flush()     *)
(* that does nothing, and the sinks are not on the root logger.            *)
Flush(t) ==
    /\ pc[t] = "idle"
    /\ GoTo(t, "flushed")
    /\ UNCHANGED <<config, listenerVars, factoryVars, producerVars, queueVars>>

(* A log call starts to iterate over the live list root.handlers.          *)
Log(t) ==
    /\ pc[t] \in {"idle", "flushed"}
    /\ logged[t] < MaxLogs[t]
    /\ logged' = [logged EXCEPT ![t] = @ + 1]
    /\ fate' = [fate EXCEPT ![<<t, logged[t] + 1>>] = "logging"]
    /\ GoTo(t, "dispatch")
    /\ UNCHANGED <<config, listenerVars, factoryVars, queueVars, pos>>

(* The console handler writes the record at once, on the caller's thread.  *)
EmitConsole(t) ==
    /\ pc[t] = "dispatch"
    /\ pos[t] <= Len(handlers)
    /\ handlers[pos[t]] = "console"
    /\ NextHandler(t)
    /\ UNCHANGED <<config, listenerVars, factoryVars, queueVars, pc, logged, fate>>

(* The queue handler runs its OverflowFilter before it takes its lock.     *)
Filter(t) ==
    /\ pc[t] = "dispatch"
    /\ pos[t] <= Len(handlers)
    /\ handlers[pos[t]] = "queue"
    /\ \/ /\ OverflowAdmits
          /\ GoTo(t, "put")
          /\ UNCHANGED <<pos, fate>>
       \/ /\ ~OverflowAdmits
          /\ Becomes(t, "rejected")
          /\ NextHandler(t)
          /\ UNCHANGED pc
    /\ UNCHANGED <<config, listenerVars, factoryVars, queueVars, logged>>

(* The record is still offered to the handler it was just given to.        *)
Bug_PutAgain(t) ==
    /\ pc[t] = "put"
    /\ IF QueueFull
       THEN Becomes(t, "full") /\ UNCHANGED <<queue, puts>> /\ NextHandler(t)
       ELSE /\ queue' = Append(queue, Current(t))
            /\ puts' = Append(puts, Current(t))
            /\ Becomes(t, "queued")
            /\ UNCHANGED pos
    /\ GoTo(t, "dispatch")
    /\ UNCHANGED <<config, listenerVars, factoryVars, logged>>

(* QueueHandler.emit: put_nowait whatever the overflow policy; queue.Full  *)
(* goes to handleError, which reports on stderr, and the record is gone.   *)
Put(t) ==
    /\ pc[t] = "put"
    /\ \/ /\ ~QueueFull
          /\ queue' = Append(queue, Current(t))
          /\ puts' = Append(puts, Current(t))
          /\ Becomes(t, "queued")
       \/ /\ QueueFull
          /\ Becomes(t, "full")
          /\ UNCHANGED <<queue, puts>>
    /\ NextHandler(t)
    /\ GoTo(t, "dispatch")
    /\ UNCHANGED <<config, listenerVars, factoryVars, logged>>

(* The iteration is over. A record that met no queue handler is missed:    *)
(* there is none, or shutdown() removed one from under the iteration.      *)
LogDone(t) ==
    /\ pc[t] = "dispatch"
    /\ pos[t] > Len(handlers)
    /\ fate' = IF fate[Current(t)] = "logging"
               THEN [fate EXCEPT ![Current(t)] = "missed"] ELSE fate
    /\ pos' = [pos EXCEPT ![t] = 1]
    /\ GoTo(t, "idle")
    /\ UNCHANGED <<config, listenerVars, factoryVars, queueVars, logged>>

Produce(t) == \/ GetLogger(t)
              \/ Flush(t)
              \/ Log(t)
              \/ EmitConsole(t)
              \/ Filter(t)
              \/ Put(t)
              \/ LogDone(t)

(***************************************************************************)
(* The listener thread: QueueListener._monitor.                            *)
(***************************************************************************)
(* The newest item is taken first.                                         *)
Bug_Get ==
    /\ listener = "waiting"
    /\ queue # << >>
    /\ LET item == queue[Len(queue)]
       IN  /\ taken' = Append(taken, item)
           /\ listener' = IF item = Sentinel THEN "stopped" ELSE "handling"
    /\ queue' = SubSeq(queue, 1, Len(queue) - 1)
    /\ UNCHANGED <<config, factoryVars, producerVars, sinkIdx, handed, pc, puts>>

(* The thread waits until two items are there.                             *)
Bug_GetTwo ==
    /\ listener = "waiting"
    /\ Len(queue) >= 2
    /\ LET item == Head(queue)
       IN  /\ taken' = Append(taken, item)
           /\ listener' = IF item = Sentinel THEN "stopped" ELSE "handling"
    /\ queue' = Tail(queue)
    /\ UNCHANGED <<config, factoryVars, producerVars, sinkIdx, handed, pc, puts>>

(* The thread blocks on the queue, and ends when it takes the sentinel.    *)
Get ==
    /\ listener = "waiting"
    /\ queue # << >>
    /\ LET item == Head(queue)
       IN  /\ taken' = Append(taken, item)
           /\ listener' = IF item = Sentinel THEN "stopped" ELSE "handling"
    /\ queue' = Tail(queue)
    /\ UNCHANGED <<config, factoryVars, producerVars, sinkIdx, handed, pc, puts>>

InHand == taken[Len(taken)]

(* The next record is fetched while a sink is still to be served.          *)
Bug_HandToSink ==
    /\ listener = "handling"
    /\ handed' = [handed EXCEPT ![config.sinks[sinkIdx]] = Append(@, InHand)]
    /\ listener' = "waiting"
    /\ UNCHANGED <<config, factoryVars, producerVars, queueVars, sinkIdx, pc, taken>>

(* Each sink in turn handles the record.                                   *)
HandToSink ==
    /\ listener = "handling"
    /\ handed' = [handed EXCEPT ![config.sinks[sinkIdx]] = Append(@, InHand)]
    /\ IF sinkIdx = Len(config.sinks)
       THEN listener' = "waiting" /\ sinkIdx' = 1
       ELSE sinkIdx' = sinkIdx + 1 /\ UNCHANGED listener
    /\ UNCHANGED <<config, factoryVars, producerVars, queueVars, pc, taken>>

(* AMQPSyncHandler.emit lets the exception of a failed publish through when*)
(* fail_open is off. _monitor catches only queue.Empty: the thread ends.   *)
SinkRaises ==
    /\ listener = "handling"
    /\ config.sinks[sinkIdx] = "amqp"
    /\ ~config.failOpen
    /\ listener' = "dead"
    /\ UNCHANGED <<config, factoryVars, producerVars, queueVars, sinkIdx, handed, pc, taken>>

Listen == Get \/ HandToSink \/ SinkRaises

(***************************************************************************)
(* LoggerFactory.shutdown().                                               *)
(***************************************************************************)
CallShutdown(s) ==
    /\ pc[s] = "idle"
    /\ GoTo(s, "acquire")
    /\ UNCHANGED <<config, queueVars, listenerVars, factoryVars, producerVars>>

(* Where a caller that goes on goes to, and the list it is to close then.  *)
ToListenerOrClose(s) ==
    IF config.sinks # << >>
    THEN GoTo(s, "stop") /\ UNCHANGED toClose
    ELSE GoTo(s, "close") /\ toClose' = handlers

(* The flag is not looked at.                                              *)
Bug_Acquire(s) ==
    /\ pc[s] = "acquire"
    /\ lock = NoThread
    /\ shutdown' = TRUE
    /\ lock' = s
    /\ ToListenerOrClose(s)
    /\ UNCHANGED <<config, queueVars, listenerVars, producerVars, handlers, published>>

(* The flag is read before the lock is asked for.                          *)
Bug_AcquireLate(s) ==
    /\ pc[s] = "acquire"
    /\ \/ /\ shutdown
          /\ GoTo(s, "returned")
          /\ UNCHANGED factoryVars
       \/ /\ ~shutdown
          /\ lock = NoThread
          /\ shutdown' = TRUE
          /\ lock' = s
          /\ ToListenerOrClose(s)
          /\ UNCHANGED <<handlers, published>>
    /\ UNCHANGED <<config, queueVars, listenerVars, producerVars>>

(* with self._lock: the first caller sets the flag and goes on, every later*)
(* one returns at once.                                                    *)
Acquire(s) ==
    /\ pc[s] = "acquire"
    /\ lock = NoThread
    /\ \/ /\ shutdown
          /\ GoTo(s, "returned")
          /\ UNCHANGED factoryVars
       \/ /\ ~shutdown
          /\ shutdown' = TRUE
          /\ lock' = s
          /\ ToListenerOrClose(s)
          /\ UNCHANGED <<handlers, published>>
    /\ UNCHANGED <<config, queueVars, listenerVars, producerVars>>

(* The lock is not released when the sentinel does not fit.                *)
Bug_StopListener(s) ==
    /\ pc[s] = "stop"
    /\ \/ /\ ~QueueFull
          /\ queue' = Append(queue, Sentinel)
          /\ puts' = Append(puts, Sentinel)
          /\ GoTo(s, "join")
       \/ /\ QueueFull
          /\ GoTo(s, "raised")
          /\ UNCHANGED queueVars
    /\ UNCHANGED <<config, listenerVars, producerVars, factoryVars>>

(* QueueListener.stop: put_nowait of the sentinel. On a full queue it      *)
(* raises queue.Full, which leaves shutdown() with nothing closed.         *)
StopListener(s) ==
    /\ pc[s] = "stop"
    /\ \/ /\ ~QueueFull
          /\ queue' = Append(queue, Sentinel)
          /\ puts' = Append(puts, Sentinel)
          /\ GoTo(s, "join")
          /\ UNCHANGED lock
       \/ /\ QueueFull
          /\ lock' = NoThread
          /\ GoTo(s, "raised")
          /\ UNCHANGED queueVars
    /\ UNCHANGED <<config, listenerVars, producerVars, handlers, shutdown, toClose, published>>

(* The handlers are closed without waiting for the thread.                 *)
Bug_Join(s) ==
    /\ pc[s] = "join"
    /\ toClose' = handlers
    /\ GoTo(s, "close")
    /\ UNCHANGED <<config, queueVars, listenerVars, producerVars, handlers, shutdown, lock,
                   published>>

(* QueueListener.stop: self._thread.join(). Then the handlers are listed.  *)
Join(s) ==
    /\ pc[s] = "join"
    /\ ~Alive
    /\ toClose' = handlers
    /\ GoTo(s, "close")
    /\ UNCHANGED <<config, queueVars, listenerVars, producerVars, handlers, shutdown, lock,
                   published>>

(* h.close() and root.removeHandler(h) for each handler of the copied list.*)
CloseHandler(s) ==
    /\ pc[s] = "close"
    /\ toClose # << >>
    /\ \E i \in 1..Len(handlers) : /\ handlers[i] = Head(toClose)
                                   /\ handlers' = RemoveAt(handlers, i)
    /\ toClose' = Tail(toClose)
    /\ UNCHANGED <<config, queueVars, listenerVars, producerVars, pc, shutdown, lock, published>>

(* withdraw(self), and the lock is released.                               *)
Withdraw(s) ==
    /\ pc[s] = "close"
    /\ toClose = << >>
    /\ published' = FALSE
    /\ lock' = NoThread
    /\ GoTo(s, "returned")
    /\ UNCHANGED <<config, queueVars, listenerVars, producerVars, handlers, shutdown, toClose>>

StopSteps(s) == \/ Acquire(s)
                \/ StopListener(s)
                \/ Join(s)
                \/ CloseHandler(s)
                \/ Withdraw(s)

PipeNext == \/ \E t \in Producers : Produce(t)
            \/ Listen
            \/ \E s \in Stoppers : CallShutdown(s) \/ StopSteps(s)

PipeSpec == PipeInit /\ [][PipeNext]_pipeVars

(* Threads the operating system keeps running: the listener, a log call    *)
(* once it was made and a shutdown() once it was called. Nobody has to log *)
(* or to call shutdown().                                                  *)
CallSteps(t) == EmitConsole(t) \/ Filter(t) \/ Put(t) \/ LogDone(t)

FairPipeSpec == /\ PipeSpec
                /\ WF_pipeVars(Listen)
                /\ \A t \in Producers : WF_pipeVars(CallSteps(t))
                /\ \A s \in Stoppers : WF_pipeVars(StopSteps(s))
-----------------------------------------------------------------------------
(* Every variable stays within the values the code uses.                   *)
VarsTyped ==
    /\ config \in Configs
    /\ handlers \in Seq({"console", "queue"})
    /\ queue \in Seq(Items)
    /\ listener \in ListenerStates
    /\ sinkIdx \in 1..2
    /\ handed \in [SinkNames -> Seq(Items)]
    /\ shutdown \in BOOLEAN
    /\ lock \in Stoppers \cup {NoThread}
    /\ toClose \in Seq({"console", "queue"})
    /\ published \in BOOLEAN
    /\ pc \in [Producers \cup Stoppers -> ProducerPCs \cup StopperPCs]
    /\ \A t \in Producers : pc[t] \in ProducerPCs
    /\ \A s \in Stoppers : pc[s] \in StopperPCs
    /\ pos \in [Producers -> Nat \ {0}]
    /\ logged \in [Producers -> Nat]
    /\ \A t \in Producers : logged[t] <= MaxLogs[t]
    /\ fate \in [Records -> Fates]
    /\ puts \in Seq(Items)
    /\ taken \in Seq(Items)

(* Type correctness, and the factory's lock is held by the caller of       *)
(* shutdown() that is inside it and by nobody else, also after queue.Full  *)
(* has left it.                                                            *)
TypeOK ==
    /\ VarsTyped
    /\ \A s \in Stoppers : lock = s <=> pc[s] \in {"stop", "join", "close"}

(* The pipeline is a FIFO channel to the listener: records reach it in the *)
(* order in which they entered the queue, once, whatever the interleaving; *)
(* the sentinel enters at most once, however many threads call shutdown(). *)
Fifo == INSTANCE FifoDelivery
            WITH accepted <- puts, received <- taken, open <- Alive,
                 Payloads <- Records, Marker <- Sentinel

FifoDelivered == Fifo!FifoSpec

(* Each sink has been handed, in order and once, everything the listener   *)
(* has taken, but for the record in hand if the sink's turn has not come;  *)
(* if a sink raised, the record it raised on is the only one it and the    *)
(* sinks after it miss (QueueListener.handle).                             *)
ServedTo(i) ==
    LET served == IF \/ listener = "stopped"
                     \/ listener \in {"handling", "dead"} /\ i >= sinkIdx
                  THEN Len(taken) - 1
                  ELSE Len(taken)
    IN  SubSeq(taken, 1, served)

SinksInStep ==
    \A i \in 1..Len(config.sinks) : handed[config.sinks[i]] = ServedTo(i)

(* A record is in the queue's history exactly if its fate says so, never   *)
(* twice, and the records of one thread are in the order it logged them:   *)
(* nothing is lost between OverflowFilter and put without being accounted  *)
(* as rejected, full or missed.                                            *)
RecordsAccounted ==
    /\ {r \in Records : fate[r] = "queued"} = ToSet(puts) \ {Sentinel}
    /\ \A i, j \in 1..Len(puts) :
          (i < j /\ puts[i] # Sentinel /\ puts[j] # Sentinel) =>
              (puts[i][1] = puts[j][1] => puts[i][2] < puts[j][2])
    /\ \A t \in Producers : pc[t] \in {"idle", "flushed"} =>
          \A n \in 1..logged[t] : fate[<<t, n>>] \in {"rejected", "full", "queued", "missed"}

HasRaised == \E s \in Stoppers : pc[s] = "raised"

(* When shutdown() returns and the listener ended by its sentinel, every   *)
(* record put in the queue before the sentinel has been handed to every    *)
(* sink ("Always shut down at exit to drain the queue").                   *)
DrainedOnReturn ==
    (\E s \in Stoppers : pc[s] = "returned") /\ ~HasRaised /\ listener = "stopped" =>
        \A k, e \in 1..Len(puts) :
            puts[e] = Sentinel /\ k < e =>
                \A i \in 1..Len(config.sinks) : Contains(handed[config.sinks[i]], puts[k])

(* No caller of shutdown() returns before the one that does the work has   *)
(* finished: unless that one raised, the listener thread is gone, the      *)
(* handlers are removed and the factory is out of the registry.            *)
ReleasedOnReturn ==
    (\E s \in Stoppers : pc[s] = "returned") /\ ~HasRaised =>
        ~Alive /\ handlers = << >> /\ ~published

(* A log call may iterate over root.handlers while shutdown() removes from *)
(* it. It never skips the queue while there is a listener to serve it.     *)
MissedOnlyAfterStop ==
    \A r \in Records : fate[r] = "missed" => ~Alive

(* Nobody waits for ever: a shutdown() that was called returns or raises,  *)
(* and a log call returns whatever the policy, the state of the queue and  *)
(* of the listener.                                                        *)
CallsTerminate ==
    /\ \A s \in Stoppers : pc[s] = "acquire" ~> pc[s] \in {"returned", "raised"}
    /\ \A t \in Producers : pc[t] = "dispatch" ~> pc[t] = "idle"

(* Every item put in the queue is taken out, unless the listener is gone.  *)
PutsAreTaken ==
    \A n \in 1..(Cardinality(Records) + 1) :
        Len(puts) >= n ~> (Len(taken) >= n \/ ~Alive)

-----------------------------------------------------------------------------
(* What the documentation says and the code does not do.                   *)

(* overflow.py: under drop_oldest "new records are still admitted and the  *)
(* oldest get evicted", and under block "the producer will block on put":  *)
(* under both, no record is lost because the queue is full when it comes,  *)
(* as long as nobody shuts the factory down.                               *)
AdmittedIsQueued ==
    ~shutdown /\ config.overflow \in {"drop_oldest", "block"} => \A r \in Records : fate[r] # "full"

(* LoggerFactory.flush: "Drain the in-memory queue and flush every handler *)
(* synchronously": when flush() returns, the records this thread logged    *)
(* before are out of the queue.                                            *)
FlushDrains ==
    \A t \in Producers : pc[t] = "flushed" =>
        \A i \in 1..Len(queue) : queue[i] = Sentinel \/ queue[i][1] # t

(* Documentation.md on shutdown: "Close and remove all handlers": a caller *)
(* that returns leaves no handler on the root logger.                      *)
ShutdownRemovesHandlers ==
    (\E s \in Stoppers : pc[s] = "returned") => handlers = << >>
=============================================================================
