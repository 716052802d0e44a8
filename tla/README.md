# Verification of obserlog

TLA+ models of the `obserlog` package (`src/src/obserlog/`), the TLC runs that
check them on small instances, and TLAPS proofs for every value of the
constants. `PROJECT.json` lists the runs, the lines each definition stands for,
the mutants that show each property can fail, the hazards and the theorems.

Contents: 1 inventory, 2 modules, 3 runs and bounds, 4 fairness, 5 proofs,
6 where the code and its documentation differ, 7 what is not modelled, 8 plan.

## 1. Inventory

| part | state it keeps | operations | hard behaviour |
|---|---|---|---|
| `LoggerFactory` and its pipeline (`factory/logger_factory.py`, `factory/builder.py`, `handlers/queue.py`, `core/filters/overflow.py`) | handlers of a root logger, a bounded queue, a listener thread with its sinks, `_shutdown` and `_lock` | construct, `get_logger`, log calls, `flush`, `shutdown`, `with` | producers on any thread, the listener and several `shutdown()` at once; a full queue; a sink that raises; records that enter behind the sentinel |
| registry of active factories (`factory/registry.py`) | `_STACK` under a lock, an attribute of `logging.Logger` outside of it | `publish`, `withdraw`, `active` | compare, delete and restore in separate steps; withdrawal in any order |
| factories of one `service_name` (`factory/logger_factory.py`) | the handlers of the root logger they share | construct and `shutdown`, on any threads | each attaches to, lists, closes and removes what the others have there |
| a record on its way (`core/context.py`, `core/formatters/`, `core/exception_render.py`, `handlers/amqp/common.py`) | attributes of the `LogRecord`, its cached `exc_text` | `process`, the two formatters, `serialize_record` | handlers work on one record in turn and leave things in it |
| `AMQPSyncHandler` (`handlers/amqp/sync.py`) | a buffer, `_last_flush`, `_closed`, a connection, two locks | `emit`, `flush`, `close` | a publish that fails in the middle of a batch, `close` against `emit`, `logging.shutdown()` |
| `AMQPAsyncHandler`, `LoopRunner`, `make_amqp_handler` (`handlers/amqp/`) | an inbox, the batch of a consumer coroutine, events, `_closing`, `_closed`, a loop thread or a loop handed in | construct, `emit`, `flush_sync`, `close`, `stop` | threads against coroutines, waits that time out while the coroutine still comes, cancellation, a caller on the loop's own thread |
| rotating file sink (`handlers/rotating_file.py`) | a log file, numbered or dated backups, `.gz` files, `rolloverAt` | write, roll over, compress | a crash or a full disk between two steps of a rollover |
| decorators (`decorators/`) | `sys.excepthook`, the links of a traceback | calls, class decoration | nested calls with exceptions, a factory that goes in between |
| tracing, bound loggers (`core/tracer.py`, `core/context.py`) | context variables | `set_trace`, `clear`, `process` | tasks and pool threads |
| sampling (`core/filters/sampling.py`) | none | `should_keep` | one decision for one trace |
| caller lookup, parsing of settings, OpenTelemetry, `BatchBuffer` | none of their own, or unused | | not modelled, see 7 |

How they interact: a log call runs the filters and handlers of the root logger
on the caller's thread; the queue handler hands the record to the listener,
which calls the sinks one after the other on its own thread, so `emit` of the
AMQP handlers and of the file runs there (and, without a queue, on the thread
that logs). The asynchronous AMQP handler hands it on to a coroutine on a loop
thread. `shutdown()` runs on any thread, joins the listener and closes the
handlers. The decorators find the factory through the registry, which a factory
enters as the last step of its construction and leaves as the last step of its
shutdown. Factories of one `service_name` have one root logger. What makes each
part correct is the list of properties in section 3.

## 2. Modules

| module | models | composes |
|---|---|---|
| `LogPipeline` | one `LoggerFactory`: threads that log, the queue, the listener with its sinks, threads in `shutdown()` | implements `FifoDelivery` |
| `FifoDelivery` | abstract: a channel that delivers in order, each payload once, closed by one marker | |
| `Registry` | `publish`, `withdraw`, `active` for any set of factories | |
| `AmqpSync` | the buffer and the two locks of `AMQPSyncHandler` | |
| `RecordPath` | operators: what `BoundLogger.process`, the formatters, the queue handler and `serialize_record` make of a record | |
| `SharedLogger` | construction and shutdown of several factories, some of one name, on threads of their own | `Registry`, `RecordPath` |
| `AmqpAsync` | inbox, consumer, `flush_sync`, `close`, `LoopRunner.stop`, the end of a loop | |
| `AmqpConnect` | the constructor of `AMQPAsyncHandler` and the choice of its loop | `AmqpAsync`, from the moment it is built |
| `RotatingFile` | the directory under the rotating handlers, step by step | |
| `DecoratedCalls` | decorated calls on stacks of frames, the records they log, trace ids, sampling, tracebacks | decorators, tracer, bound logger, sampling |
| `MC*` | the instances TLC checks | |
| `BrokerDelivery` | abstract: records are dealt with in order, a stretch at a time, sent or lost; a handler that retries may go back instead | implemented by `AmqpSync` and `AmqpConnect` (proved) |
| `Histories` | `PartOf`: what came out is a part of what went in, in order | used by `AmqpSync`, `AmqpAsync` |
| `SeqLemmas` | lemmas: removal from a list, order, parts and stretches of a sequence, what flattening makes of them, recursion along a length | |
| `LogPipelineProofs`, `RegistryProofs`, `SharedLoggerProofs`, `AmqpSyncProofs`, `AmqpConnectProofs`, `RotatingFileProofs`, `DecoratedCallsProofs` | proofs about the module of that name; `AmqpConnectProofs` also about `AmqpAsync` | |

Each action stands for one operation or for what a thread does between two
points where another one can come in; `PROJECT.json` gives the lines. Some
choices that hold throughout:

* A thread's place in the code is `pc`; a step is an access to shared state, or
  what runs under one lock, or what a coroutine does between two awaits.
* A record is a pair of a thread and a number (`RotatingFile`: a number). Text,
  layout and levels are left out, but for the levels the sampling reads.
* History variables (marked so where they are declared) only record what
  happened and never guard a step.
* The standard library (`logging`, `queue`, `logging.handlers`), `pika`,
  `aio_pika` and `asyncio` are modelled from how the code uses them and marked
  external in the map. `LogPipeline!Put` is `QueueHandler.enqueue`
  (`put_nowait`), `Get` and `HandToSink` are `QueueListener._monitor`; the
  rollover steps are those of CPython 3.11.
* An operator `Bug_X` is a mutant of `X`: a plausible mistake under which one
  property fails. No specification uses it.

Notes by module:

* **LogPipeline.** `handlers` is `root.handlers`, `handed[s]` what sink `s` was
  given, `puts` and `taken` the history of the queue, `fate` what became of each
  record: rejected by the filter, lost on a full queue, queued, or missed
  because the handler list changed under the iteration. A capacity of 0 or less
  makes `queue.Queue` unbounded while `OverflowFilter` calls it full.
  `Produce` lets a thread go on logging after `shutdown()`, as a `BoundLogger`
  that outlives its factory does.
* **Registry.** A read-only `active()` is the operator `Active`; each access of
  `withdraw` outside the lock is a step. The list is changed under `_LOCK` in a
  single step. It is checked as part of `SharedLogger`.
* **SharedLogger.** `attached[n]` is `root.handlers` of the logger `n`, a handler
  being its factory and its kind. `toClose[f]` is what is left of
  `list(self._root.handlers)` in the loop of `shutdown()`. Every factory has a
  console and a queue; what these do inside is `LogPipeline`. `exposed` is
  history: who was there when a namesake's `shutdown()` made its list.
* **RecordPath.** Fields and tracebacks of a record; a traceback is a sequence of
  frames. `Turns` takes a record through the handlers of a logger, as
  `callHandlers` does, and `Copies` are what their queues get of it. The console comes
  before the queue of its own factory; with two factories on a logger a record
  passes console, queue, console, queue, or any other order of attaching.
* **AmqpSync.** `hlock` is `logging.Handler.lock`, which `Handler.handle` holds
  around `emit` and `logging.shutdown()` around `flush` and `close`. `due` says
  that the interval has passed. The buffer is looked at only when a record comes
  or somebody flushes: there is no timer, so a quiet program keeps its last
  records in memory until it exits.
* **AmqpAsync.** The consumer's `wait_for` ends by the event or by its timeout, so
  the event itself need not be kept. `CallSoon` may fail when `close()` has
  cleared the event in between (`async_handler.py:214`), and a second `close()`
  may meet what the first has stopped or cleared, and raise (`Join`), although
  its docstring says that it is idempotent. When the handler is not fail-open a
  failed publish ends the consumer: the inbox then grows, and nothing reports it.
  `late` holds the coroutines whose caller gave up waiting: they still run, and
  clear the flag, close the connection, cancel the consumer or stop the loop then.
  A cancelled consumer may still publish what is in the inbox ("cancelling"), for
  as long as the broker likes. `LoopRunner.stop()` waits 2 s for that and stops
  the loop anyway (`StopAnyway`); a consumer that is publishing then stays pending
  for ever ("stranded"). `LoopFree` says that no caller on the loop's thread keeps
  it from running; `LoopCancels` and `LoopEnds` are a program that ends the loop it
  handed in, before or after `close()`, as `asyncio.run` does: it cancels the
  consumer, waits for it without hurry, and closes the loop.
* **AmqpConnect.** Three callers: a script, for which the handler starts its own
  loop; another thread that hands in a running loop; and `make_amqp_handler()`,
  which attaches to the loop of the thread it runs on. Its two coroutines are
  `dial` and `setup`, each waited for with a timeout. `AsyncNext` is enabled from
  the moment the constructor returns.
* **RotatingFile.** `dir` maps the names that exist to their contents. Records
  have one length. `faults` counts crashes and failed compressions together.
* **DecoratedCalls.** A frame is known by its depth, a traceback is a head and a
  function `links`, as `tb_next` is. An exception with `base` is a
  `BaseException` that is no `Exception` (`SystemExit`, `KeyboardInterrupt`,
  `CancelledError`): `except Exception` lets it pass, so the call it leaves has an
  entry record and no exit record. `out` then gets a mark, "Abandoned", which is
  history: the code logs nothing there. `klass` says whether the methods of a class
  were wrapped when it was defined; those that `class_log` passes over stay plain
  for good. `hash` in the sampling settings is the set of keys whose
  `_stable_float` is below the rate.

## 3. Runs

Every run uses `CHECK_DEADLOCK FALSE`: threads finish their bounded work and
the rest of the program is idle by design. That nobody waits for ever is
checked as liveness instead.

**pipeline** — two producers with two and one log calls, two threads in
`shutdown()`, five configurations (console only; queues of one and two slots,
unbounded; each overflow policy; one and two sinks, one that may raise). Three
records fill each bounded queue and overflow it, also with the sentinel.

* `TypeOK` includes that `_lock` is held by exactly the thread that is inside the
  body it protects, on every way out of it.
* `SinksInStep`: each sink has, in order and once, what the listener took, but
  for the record in hand.
* `RecordsAccounted`: no record disappears between filter and queue without a
  reason, none is put twice, each thread's records stay in order.
* `DrainedOnReturn`: what entered the queue before the sentinel is with every
  sink when `shutdown()` returns.
* `ReleasedOnReturn`: no caller of `shutdown()` returns before the work is done
  by whoever does it.
* `MissedOnlyAfterStop`: removing handlers under a running log call costs no
  record the listener could still have served.
* `FifoDelivered`: refinement of `FifoDelivery`.
* `CallsTerminate`: no log call and no `shutdown()` waits for ever.
* `PutsAreTaken`: what was put is taken, unless the listener's thread has ended.

**registry** — three factories, two of one `service_name`, each constructed and
shut down once by a thread of its own: two are enough to be closed by one
another, the third one overlaps with them in the registry and must be left alone
on its own logger.

* `ActiveIsNotGone`: `active()` never returns a factory whose `withdraw()` has
  returned. `NoneOnlyInWindow`: it is `None` beside published factories only
  inside a call that is about to set it. `NewestWhenSequential`: without overlap
  it is the newest one left.
* `ServedUnlessExposed`: a factory in the registry that is not shutting down has
  its queue handler on the logger and its listener running, unless it was there
  when a namesake's `shutdown()` listed the handlers. The exception is what the
  code does to a namesake, and its exact extent.
* `DownIsDetached`: a `shutdown()` that has returned leaves no handler and no
  listener behind, although another one may be removing from the same list.
* `SinksAgree`: in every reachable order of handlers on a logger, every copy of a
  record has its traceback once and whole, its own trace id, and all its fields
  in the JSON line; and the line and what goes to the broker say the same.

**amqp_sync** — two emitters with two and one records, two users that flush,
close or run `logging.shutdown()`, batch size 2, fail-open or not, any publish
may fail. `TypeOK` includes that a fail-open buffer never exceeds a batch.
`AtMostOnce` (fail-open: nothing twice, nothing both sent and reported lost),
`AtLeastOnce` (otherwise: nothing forgotten), `FlushIsBarrier` (across two
threads that flush), `ExitStrandsNothing`, `EmitReturns`.

**amqp_async** — a handler built in each of the three ways, then one emitter, as
the listener thread is the only one, with two records, and two users of which
one is on the loop's thread when the loop was handed in.

* `BuiltIsReady`: a constructor that returns has opened a connection and made
  the consumer task, whatever was given up or came late. (That on the loop's own
  thread it never returns is no property of this run: it is in section 6.)
* `DeliveredInOrder` relates the inbox, the batch and the broker at every step.
  `CloseDelivers`: without trouble `close()` delivers what was accepted before
  it. `FlushWhenIdle`: when `flush_sync()` is the barrier it is documented to be.
  `ClosedMeansEnded`: no consumer runs on after `close()` on a loop of its own;
  only where a wait was given up may it be pending, on a loop that has stopped or
  is told to.
* `CallsReturn`: constructor, `flush_sync()` and `close()` end, also with a dead
  consumer, a closed loop, or on the loop's thread. `InboxIsServed`: a consumer that
  waits goes on to publish what is in the inbox, or ends, although nobody logs
  again. `ConsumerEnds`: the consumer of a closed handler ends or is left on a
  stopped loop; on a loop handed in only a publish that does not return keeps it.

**rotating_file** — eight settings: by size, by period and by fixed day, one to
three backups, values of 0, with and without compression; seven records, two
faults at any step. Each setting evicts backups and, in the timed ones, restarts
within a period. `NewestSurvives`: the last rolled file is whole in some file at
every step. `ReadsAsSuffix`: uncompressed backups and log file read as the end
of what was written, without a gap. `RetainsBackups`: `backup_count` of them are
kept, a crash costs at most one, and the number of files is bounded.

**decorated_calls** — the main task, a second task and a pool thread, two
decorated calls, three settings of flags and sampling, two uses of `set_trace`.
Two calls nest, and one may raise `ShutdownError` from two frames below, so a
traceback has hidden frames in a row and in the middle; what the functions raise
may be an `Exception` or another `BaseException`. `RecordsNest`: entry and exit
records pair up like the calls, but for the calls that such an exception leaves,
and there the log is short of exactly their exits. `RendersUserFrames`: what is
rendered, and what the caller catches, has every frame of the user. `TaskTraces`:
no id leaks between tasks. `SampledWhole`: one decision for a trace, of whatever
task or thread; of records without a trace it says nothing. The settings sample by
trace, drop everything below the floor, and keep everything; a coin for each
record, without `deterministic`, promises nothing.

**overflow, flush, wedged_shutdown, amqp_sync_close, amqp_async_barrier,
rotating_backups** — one documented statement each, and a behaviour of the code
that breaks it; see 6.

## 4. Fairness

`FairPipeSpec` is weak fairness of the listener, of a log call that was made and
of a `shutdown()` that was called: threads the operating system keeps running.
`put_nowait` does not wait and `_lock` has no other holder than a `shutdown()`
that ends, so weak fairness is enough. `FairSyncSpec` is strong fairness of a
thread in a call: it competes for a lock that others take and release again and
again, and gets it in the end; without a fair lock no bound on waiting exists.
`FairConnectSpec` is weak fairness of the thread in the constructor, of the
consumer where it waits for its event (`Cycle`: that wait has a timeout of its
own), of a loop that was told to stop (`Halt`) and of callers; a wait with a
timeout is a choice between its result and its end, so a caller goes on although
the coroutine never runs. Of `publish()` nothing is assumed: it is awaited without
a timeout (`async_handler.py:291`), so it may never end, and what the liveness
properties say of the consumer is no more than what holds all the same. Nobody
has to log, to flush or to shut down, no broker has to answer, no interval has to
pass. `SharedLogger`, `RotatingFile` and `DecoratedCalls` state no
liveness.

## 5. Proofs

Checked by TLAPS for every value of the constants that meets the named
assumptions (threads of different roles differ, the sentinel is no record, a
configuration is a `LoggerConfig`, `None` is no factory, every factory has a
name).

* `RegistryProofs`. `TypeOK` is inductive: the list and the stage of each
  factory determine each other, and appending or removing keeps the list without
  repetition (`SeqLemmas!RemoveAtFacts`). With it the three safety properties are
  proved together as `RegistryInv`: `ActiveIsNotGone` holds because a factory
  leaves the attribute before its `withdraw` ends, `NoneOnlyInWindow` because
  every `None` has an author that has yet to restore, and `NewestWhenSequential`
  follows the last element of the list while no two calls overlap.
* `SharedLoggerProofs`, for any factories and any names. Each step is one of the
  registry or leaves it alone (`StepsTheRegistry`), so `UsesRegistry` carries the
  theorems of `RegistryProofs` over, as `SharedNeverActiveWhenGone` does for one.
  `DownIsDetached` and `ServedUnlessExposed` say nothing of a shutdown under way,
  so `SharedInv` adds it: a logger has each handler once and only from factories
  that have attached it (`AttachedInv`); what a factory in `shutdown()` still has
  attached is still to be closed by it (`PhaseInv`), since nobody attaches it
  again; and whoever is in the list of another one is exposed (`ServedInv`). That
  `removeHandler` takes off that handler and no other is
  `SeqLemmas!RemoveAtDistinct`. `SinksAgree` needs of the state only that each
  logger has a list of handlers: whatever these are, a record between two of them
  is as `Halfway` says, and each copy as `Kept` says (`TurnsKeep`).
* `LogPipelineProofs`. The types alone (`VarsTyped`) are not inductive: that a
  listener at a sink has a record in hand, and where in the list a producer is, is
  needed too (`ListenerInv`, `ProducerInv`; together `TypeInv`). What `TypeOK` says
  of the lock is part of `LockInv`. `PipelineIsFifo` shows that
  the pipeline implements `FifoDelivery`, by `FifoInv`: what was put is what was
  taken followed by the queue (`ChannelInv`), and the sentinel is put at most
  once because the one thread between setting the flag and the sentinel holds the
  lock (`LockInv`). Each step maps to a step of the channel or a stutter.
  On this rest the five safety properties. `ReleasedOnReturn` and
  `MissedOnlyAfterStop` come together from `ReleaseInv`: the queue handler is the
  last in the list (`HandlersInv`), what `shutdown()` has still to close is what is
  still attached and the listener is gone by then (`ShutdownInv`), and a log call
  that has not met the queue has not passed it (`IterationInv`). `SinksInStep` is
  inductive beside `TypeInv`. `DrainedOnReturn` adds that there is one sentinel
  (`SentinelOnce`), so what comes before it is what was taken. `RecordsAccounted`
  adds `AccountInv`: which records of a thread are settled, and that the history
  of the queue holds exactly the queued ones.
* `AmqpSyncProofs`. `TypeInv` says where a user can be in which call and who holds
  which lock. The buffer is the end of what was accepted (`BufferInv`), so
  `Settled`, the number of records that have left it, says where every other one
  is. `AtMostOnce` (`OnceInv`) and `AtLeastOnce` (`KeptInv`) are the two sides of
  one step, the one that clears the buffer: what was not sent by then is reported
  lost, or there is no such record. `FlushIsBarrier` keeps that `Settled` has
  passed what a caller found (`BarrierInv`). `ExitStrandsNothing` needs that an
  exit at `close()` holds the handler's own lock while no emitter is past its
  check of `_closed` (`ExitInv`); it is claimed, and holds, while nobody else
  calls `close()`. `HandlerDelivers` shows that the handler implements
  `BrokerDelivery`: a publish settles the next record, a batch that is dropped
  settles all that is left, a batch that is kept goes back to `Settled`, and the
  end of the loop confirms. What is passed is `Settled + next - 1`.
* `AmqpConnectProofs`, for the handler from its constructor on. `BuiltIsReady` from
  `BuildInv`: each stage says which coroutine has run. `BuildInv` also has that on
  the loop's thread no constructor returns (section 6), as no coroutine can run
  there before it has given up. Types, `ThreadInv` and `FreshInv`
  (nobody uses a handler that is being built) are inductive with it. The records
  are counted as in `AmqpSync`, once for the inbox (`Taken`) and once for the
  batch (`Passed`); `DeliveredInOrder` is `OrderInv`, that what was sent or
  dropped are the first `Passed` records. `FlushWhenIdle` (`IdleInv`): with the
  consumer waiting at the kick, the drained flag stays clear until it has taken
  what was there. `CloseDelivers` (`CloseInv`): without trouble only the consumer
  touches what is to be sent before it has ended, and it ends with nothing left.
  `ClosedMeansEnded` (`StopInv`): an own loop is not told to stop before what is on
  it is cancelled, and it stops under a consumer only after a wait was given up.
  `HandlerDelivers`: this handler implements `BrokerDelivery` too, as one that never
  retries, with `Passed` for what is passed and confirmed; a cancelled consumer
  loses its batch, and then sends the records of the inbox one at a time until it
  loses the rest of them or is stranded.
* `RotatingFileProofs`, for all settings, periods, numbers of records and of
  faults. `TypeInv` adds what each step of a rollover needs of the directory.
  `NewestSurvives` is by two invariants of different kind. By size (`SizeInv`) the
  last rolled file is under a number that the renames below it do not reach. By
  time (`TimedInv`) every backup's date is before the start of the running
  period, and a period begins at a multiple of its length (or where the handler
  was started), so that the next rollover takes no name that is there, and what is
  pruned is never the newest. That arithmetic is `NextRolloverFacts`.
  `ReadsAsSuffix` and `RetainsBackups` are about where the contents come from:
  what was written is cut into stretches, one for each rolled file and one for
  the log file (`CutInv`), and the files of an uncompressed sink are the last of
  these stretches in the order of their names (`Chain`, within `TimedChain` and
  `SizeChain`). Flattening consecutive stretches gives one stretch back
  (`SeqLemmas!FlattenSegments`), so it reads as a suffix. For the count, a timed
  sink has what it needs or all there was, plus one file for each fault that came
  before its pruning. By size a crash between two renames leaves a number free,
  and a later rollover then drops the oldest file although there would be room;
  counting files alone is not inductive, so `SizeChain` also bounds the number of
  the oldest file by the files and the faults so far. `NumbersInv` says that no
  other names are in use.
* `DecoratedCallsProofs`, for any workers, depth and settings. `TypeInv`: a frame
  of the user is on top whenever the user's code runs, a wrapper that will still
  call the function has room for its frame, an exception is where its stack is,
  and each record has an id of its worker and the sampling decision of its id;
  `TaskTraces` and `SampledWhole` follow. `RecordsNest` is proved as an equation:
  what the records and marks of a worker leave open (`LeftOpen`) are the guarded
  calls on its stack (`Pending`), which every step changes alike (`NestInv`).
  `RendersUserFrames` rests on links that only lead to deeper frames (`Linked`),
  so a traceback is a rising chain (`ChainFacts`) and taking one node out of it
  leaves the others (`Unlink`). `Walk` is the loop invariant of
  `_rewind_decorator_frames`: behind the node it is at, the chain has the frames
  of the user and no other, before it the chain is as it was; after a turn for
  each node nothing is left before it (`RewindFacts`). `ExcInv` says so of each
  exception in flight at any level of nested calls, also where the option to show
  the wrappers' frames leaves them in, `TracebackInv` of what was rendered.

`LeftOpen`, `Pending` and `RecordPath!Turns` are recursive functions over a
sequence, `Chain` and `Rewind` over the nodes of a traceback. What such a function
does is proved with `SeqLemmas!SmallestOf` (a set of naturals has a least
element), from which a recursion of any length has one solution
(`RecursionExists`, `SameByRecursion`): the set of its values stands for the
operator that an induction rule would take as its parameter.

Every safety invariant and every action property of the passing runs is proved.
Only model-checked is liveness (`CallsTerminate`, `PutsAreTaken`, `EmitReturns`,
`CallsReturn`, `InboxIsServed`, `ConsumerEnds`), which is out of the prover's
reach. Only proved, with no run of their own, are the inductive invariants and
the two refinements of `BrokerDelivery`; the proofs speak of the modules the runs
check, without any bound but the constants that name one (`MaxEmits`,
`MaxRecords`, `MaxFaults`, `MaxDepth` and the like), which may be any number.

## 6. Where the code and its documentation differ

Each has a run whose counterexample shows it:

* **overflow** — under `drop_oldest` and `block` a record that finds the queue
  full is itself lost: nothing is evicted, nobody waits (`overflow.py:30-35`).
* **flush** — `LoggerFactory.flush()` reaches neither the queue nor the sinks
  (`logger_factory.py:76`).
* **wedged_shutdown** — `listener.stop()` raises `queue.Full` when the sentinel
  finds no slot; the flag is set already, so no later call finishes the work
  (`Documentation.md:890`).
* **amqp_sync_close** — `close()` sets `_closed` first, and `flush()` then
  returns at once (`README.md:360`).
* **amqp_async_barrier** — `flush_sync()` returns on the signal of a batch that
  was under way (`async_handler.py:34-36`).
* **rotating_backups** — the rolled file is compressed to `.1.gz`, which nothing
  shifts: one backup is kept, not `backup_count` (`README.md:292`).

Seen while modelling, without a run of their own: a timed rotation never
compresses, because `_gzip_after_rollover` looks for `.1`, or for the date of the
next rollover (`Candidate` in `RotatingFile`; `README.md:332`); the silent
excepthook is never restored when the caller catches (`functions.py:161-163`
against `:244-254`); a traceback is rendered once at each level of nested
decorated calls (`README.md:382` says once); a decorated call in the window
between the flag and `withdraw()` raises `ShutdownError` instead of running the
function (`base.py:64`); a `SystemExit`, `KeyboardInterrupt` or `CancelledError`
out of a decorated function leaves an entry record and neither a result nor an
error, as `functions.py:211` catches `Exception` only.

Of sampling: `sampling.py:39-42` says that a record without a trace is keyed by
logger and message; `sampling.py:85` and `README.md:67` and `:289` have context
and message in the key of every record. The code keys a traced record by its trace
alone; and no record of a `BoundLogger` is without a `trace_id`: `process` gives
it the zeros of the tracer (`context.py:35`, `tracer.py:82`), a string that is not
empty, so all its untraced records have one key and are kept or dropped together.
The test of the fallback (`falls_back_to_message`) gives the filter a record that
has no such attribute. `SampledWhole` therefore speaks of traced records only.

Of numbers: a queue `capacity` of 0 or less makes the queue unbounded, while the
filter takes it for full and, under `drop_newest`, rejects every record. In
`rotating_file.py` a `backup_count` or a `max_bytes` of 0 means the default.

Of factories and records: two factories that keep the default `service_name`
share a logger, and the shutdown of one silences the other, although
`README.md:156` says that two can coexist. `build_handlers` "never raises"
(`builder.py:35`), but does when AMQP fails with `fail_open` off. Behind the queue
a record has no `exc_info` any more: the JSON line never has the structured
`exception` field of `json_formatter.py:46-49`, and its message has the text of
whichever formatter came first, the console's with its colours. The console also
leaves `extras` and `asctime` in the record, which the file's line then shows, and
the zeros it gives a record without a trace are in the file only if the console is
on. The `function` that a decorator adds to a record is the name of a key of the
line and is lost there; no field of the user goes to the broker.

Of the asynchronous handler: attaching to the loop that runs, as
`factory.py:20-24` and `Documentation.md:945-947` promise, always times out,
because the constructor waits on the loop's thread for a coroutine of that loop;
the `AMQPError` is no `RuntimeError`, so the fallback of `factory.py:30` does not
come in. So what these lines promise is not what the code does, and that is
proved: the last part of `BuildInv` has it that such a constructor never returns a
handler. `LoopRunner.stop()` stops the loop 2 s after it cancelled the tasks on
it, whether they have ended or not (`async_loop.py:151-158`), so a consumer in its
last publish is left pending and what it still had is lost. A cancelled consumer
clears its batch without a word (`async_handler.py:295-300`). A constructor that
gives up leaves its loop thread running, and a connection that comes late open. A
second `close()` may raise.

Of parts that are not modelled: `provider.py:31` imports a module of another path
than the package's; a frame beyond line 9999 is not marked as the offending one
(`exception_render.py:378`); `README.md:224` says that the caller of a record is
always the user's, and a frame of a decorator's wrapper is not skipped.

## 7. What is not modelled, and why

* `LoopRunner.run`, `BatchBuffer`: no caller in the package.
* Caller lookup: a walk over the interpreter's frames whose result is one field
  of a record. Parsing of settings and environment: pydantic's.
* An interrupt that strikes in the decorator's own lines, between two of its
  records: `DecoratedCalls` has it only out of the function that was called.
* Text, colours, source lines and local variables in formatters and tracebacks;
  the fallbacks for an error inside the renderer.
* OpenTelemetry: construction of objects of its SDK; span ids behave like trace
  ids.
* Two factories with one log file: each has a handler with a lock of its own, and
  the rollover of one moves the file under the other.
* Connecting of the synchronous handler: one blocking call whose outcome is an
  exception, as for the asynchronous one in `AmqpConnect!Fails`.
* `module_levels` and other loggers than the root logger of a factory.
* A negative `backup_count`, which `RotationSettings` accepts: the rollover then
  renames nothing and the log file only grows.
* Failures of `os.rename` and `os.remove` inside the standard library's rollover,
  changes of daylight saving time, records of different length.

## 8. Plan

Done: all modules of section 2 with their runs, and proofs of every safety
property of the runs. What could come next:

* the synchronous handler as a sink of the pipeline, so that what `shutdown()`
  promises of the sinks is carried over to the broker;
* two handlers on one log file, as two factories of one configuration make them;
* the batch buffer and `LoopRunner.run`, once something calls them.
