--------------------------- MODULE DecoratedCalls ---------------------------
(***************************************************************************)
(* Calls of decorated functions and methods on the tasks and pool threads  *)
(* of a program (decorators/), the records they log, the trace id these    *)
(* carry (core/tracer.py, core/context.py), the sampling of the records    *)
(* (core/filters/sampling.py) and the traceback of an exception on its way *)
(* up through nested decorated calls.                                      *)
(*                                                                         *)
(* A stack frame is known by its depth.  A traceback is what CPython makes *)
(* of it: linked nodes, one for each frame the exception has passed, that  *)
(* _rewind_decorator_frames re-links in place.                             *)
(***************************************************************************)
EXTENDS Integers, Sequences, FiniteSets, SequencesExt

CONSTANTS
    Workers, Tasks,   \* threads and tasks; Tasks are the asyncio tasks
    Main,             \* the worker the program starts with
    Traces, NoTrace,  \* trace ids; NoTrace is "0" * 32
    Settings,         \* the settings a run starts from
    MaxDepth, MaxCalls,   \* bounds on frames and on calls,
    MaxJobs, MaxSets      \* on jobs and on uses of set_trace

Message == {"Execution", "Result", "Error", "Traceback"}
\* The flags of function_log, SamplingSettings with min_level WARNING, and the
\* keys whose _stable_float is below the rate.
OptionType == [log_exceptions : BOOLEAN, render : BOOLEAN, show_frames : BOOLEAN,
               suppress : BOOLEAN]
SamplingType == [rate : {"zero", "some", "one"}, deterministic : BOOLEAN,
                 hash : SUBSET (Traces \cup {NoTrace} \cup Message)]

ASSUME CallsAssumption ==
    /\ Tasks \subseteq Workers /\ Main \in Tasks
    /\ NoTrace \notin Traces
    /\ \A s \in Settings : s.options \in OptionType /\ s.sampling \in SamplingType
    /\ MaxDepth \in Nat \ {0} /\ {MaxCalls, MaxJobs, MaxSets} \subseteq Nat

VARIABLES
    options, sampling, \* the settings of this run
    factory,   \* "none", "up", "closing" (flag set, still active), "gone"
    klass,     \* a method of a class under class_log: "undefined", "plain", "wrapped"
    stack,     \* the frames of each worker, the outermost first
    exc,       \* the exception on its way up in each worker, or NoExc
    trace,     \* the value of _trace_var in the context of each worker
    hook,      \* sys.excepthook: "default" or "silent"
    out,       \* the records each worker has logged and, as history, a mark
               \* "Abandoned" where a call was left without a record
    calls, jobs, sets, \* calls of decorated functions, jobs and set_trace so far
    own        \* history: the ids a worker was started with or has set itself

vars == <<options, sampling, factory, klass, stack, exc, trace, hook, out, calls, jobs, sets, own>>

NoExc == [head |-> 0]
Frame(kind, pc, id) == [kind |-> kind, pc |-> pc, id |-> id]
User == Frame("user", "run", 0)
Depth(w) == Len(stack[w])
Top(w) == Last(stack[w])
Push(w, f) == stack' = [stack EXCEPT ![w] = Append(@, f)]
Pop(w, n) == stack' = [stack EXCEPT ![w] = SubSeq(@, 1, Len(@) - n)]
Marked(w, pc) == [stack[w] EXCEPT ![Depth(w)].pc = pc]
SetTop(w, pc) == stack' = [stack EXCEPT ![w] = Marked(w, pc)]

\* The user's code of a worker is running.
Running(w) == stack[w] # <<>> /\ exc[w] = NoExc /\ Top(w).kind = "user"
At(w, pc) == stack[w] # <<>> /\ exc[w] = NoExc /\ Top(w).pc = pc

----------------------------------------------------------------------------
\* Tracebacks.  head is the outermost node, links gives the next one or 0.

Nodes == 1..(MaxDepth + 2)
Chain(head, links) ==
    LET from[n \in 0..(MaxDepth + 2)] ==
            IF n = 0 THEN <<>> ELSE <<n>> \o from[links[n]]
    IN  from[head]

\* A new exception.  base: it is no Exception, but SystemExit, CancelledError
\* or another BaseException.
Nothing(base) == [head |-> 0, links |-> [n \in Nodes |-> 0], hidden |-> {},
                  passed |-> {}, base |-> base]
\* The exception passes the frame at depth n, of the decorators or not.
Through(e, n, isHidden) ==
    [head |-> n, links |-> [e.links EXCEPT ![n] = e.head],
     hidden |-> e.hidden \cup (IF isHidden THEN {n} ELSE {}),
     passed |-> e.passed \cup {n}, base |-> e.base]

\* Mutant of RewindStep: the chain is cut at a frame of the decorators.
Bug_RewindCuts(hidden, a) ==
    LET nxt == a.links[a.cur]
    IN  IF a.cur = 0 THEN a
        ELSE IF a.cur \notin hidden THEN [a EXCEPT !.prev = a.cur, !.cur = nxt]
        ELSE IF a.prev = 0 THEN [a EXCEPT !.head = nxt, !.cur = nxt]
        ELSE [a EXCEPT !.links[a.prev] = 0, !.cur = nxt]
\* One turn of the loop of _rewind_decorator_frames; at cur = 0 it has ended.
RewindStep(hidden, a) ==
    LET nxt == a.links[a.cur]
    IN  IF a.cur = 0 THEN a
        ELSE IF a.cur \notin hidden THEN [a EXCEPT !.prev = a.cur, !.cur = nxt]
        ELSE IF a.prev = 0 THEN [a EXCEPT !.head = nxt, !.cur = nxt]
        ELSE [a EXCEPT !.links[a.prev] = nxt, !.cur = nxt]
\* A turn for each node there may be.
Rewind(e) ==
    LET loop[i \in 0..(MaxDepth + 2)] ==
            IF i = 0 THEN [head |-> e.head, prev |-> 0, cur |-> e.head, links |-> e.links]
            ELSE RewindStep(e.hidden, loop[i - 1])
    IN  loop[MaxDepth + 2]

\* Mutant of Rewound: the exception is given the new head as well.
Bug_Rewound(e, r) == [e EXCEPT !.links = r.links, !.head = r.head]
\* What rendering leaves of the exception: re-linked nodes, the same head.
Rewound(e, r) == [e EXCEPT !.links = r.links]

----------------------------------------------------------------------------
\* Records.  BoundLogger.process gives a record the trace id of the context
\* it is logged in; the sampling filter keeps what is WARNING or above.

\* Mutant of Key: the key is the message.
Bug_Key(id, message) == message
Key(id, message) == id     \* _stable_key: NoTrace is not empty, so a key too
Keeps(id, message) ==
    IF message \in {"Error", "Traceback"} \/ sampling.rate = "one" THEN {TRUE}
    ELSE IF sampling.rate = "zero" THEN {FALSE}
    ELSE IF sampling.deterministic THEN {Key(id, message) \in sampling.hash}
    ELSE BOOLEAN

Entry(w, id, message, tb, path, k) ==
    [call |-> id, message |-> message, trace |-> trace[w], tb |-> tb, path |-> path, kept |-> k]
Record(w, id, message, tb, path) ==
    {Entry(w, id, message, tb, path, k) : k \in Keeps(trace[w], message)}
Log(w, id, message) ==
    \E r \in Record(w, id, message, <<>>, {}) : out' = [out EXCEPT ![w] = Append(@, r)]

CallsInit ==
    /\ \E s \in Settings : options = s.options /\ sampling = s.sampling
    /\ factory = "none" /\ klass = "undefined" /\ hook = "default"
    /\ stack = [w \in Workers |-> IF w = Main THEN <<User>> ELSE <<>>]
    /\ exc = [w \in Workers |-> NoExc]
    /\ trace = [w \in Workers |-> NoTrace]
    /\ out = [w \in Workers |-> <<>>]
    /\ calls = 0 /\ jobs = 0 /\ sets = 0
    /\ own = [w \in Workers |-> {NoTrace}]
----------------------------------------------------------------------------
\* The factory: construction, the flag of shutdown(), and withdraw().
FactoryStep ==
    /\ \/ factory = "none" /\ factory' = "up"
       \/ factory = "up" /\ factory' = "closing"
       \/ factory = "closing" /\ factory' = "gone"
    /\ UNCHANGED <<options, sampling, klass, stack, exc, trace, hook, out, calls, jobs, sets, own>>

IsActive == factory \in {"up", "closing"}

\* class_log wraps a method only if a factory is active just then, and passes
\* over a private one, one it cannot call and one the class refuses to replace.
DefineClass ==
    /\ klass = "undefined"
    /\ klass' \in IF IsActive THEN {"wrapped", "plain"} ELSE {"plain"}
    /\ UNCHANGED <<options, sampling, factory, stack, exc, trace, hook, out, calls, jobs, sets, own>>

\* A job starts on a free worker: a task gets a copy of the context of the
\* one that creates it, a pool thread keeps the context it has.
StartJob(w, v) ==
    /\ Running(w) /\ stack[v] = <<>> /\ jobs < MaxJobs
    /\ v \in Tasks => out[v] = <<>> /\ v # Main
    /\ jobs' = jobs + 1
    /\ Push(v, User)
    /\ IF v \in Tasks
       THEN trace' = [trace EXCEPT ![v] = trace[w]] /\ own' = [own EXCEPT ![v] = {trace[w]}]
       ELSE UNCHANGED <<trace, own>>
    /\ UNCHANGED <<options, sampling, factory, klass, exc, hook, out, calls, sets>>

\* Mutant of SetTrace: the id is a global, not a ContextVar.
Bug_SetTrace(w, id) ==
    /\ Running(w) /\ id # trace[w] /\ sets < MaxSets
    /\ sets' = sets + 1
    /\ trace' = [v \in Workers |-> id]
    /\ own' = [own EXCEPT ![w] = @ \cup {id}]
    /\ UNCHANGED <<options, sampling, factory, klass, stack, exc, hook, out, calls, jobs>>

\* set_trace and clear, by the code of the user.
SetTrace(w, id) ==
    /\ Running(w) /\ id # trace[w] /\ sets < MaxSets
    /\ sets' = sets + 1
    /\ trace' = [trace EXCEPT ![w] = id]
    /\ own' = [own EXCEPT ![w] = @ \cup {id}]
    /\ UNCHANGED <<options, sampling, factory, klass, stack, exc, hook, out, calls, jobs>>

\* A call of a decorated function, or of a method of the class.
Call(w) ==
    /\ Running(w) /\ Depth(w) + 2 <= MaxDepth /\ calls < MaxCalls
    /\ calls' = calls + 1
    /\ \/ Push(w, Frame("wrapper", "lookup", calls + 1))
       \/ klass = "wrapped" /\ Push(w, Frame("wrapper", "lookup", calls + 1))
       \/ klass = "plain" /\ Push(w, User)
    /\ UNCHANGED <<options, sampling, factory, klass, exc, trace, hook, out, jobs, sets, own>>

\* Without an active factory the wrapper only calls the function.
Lookup(w) ==
    /\ At(w, "lookup")
    /\ IF IsActive THEN SetTop(w, "bind")
       ELSE stack' = [stack EXCEPT ![w] = Append(Marked(w, "transparent"), User)]
    /\ UNCHANGED <<options, sampling, factory, klass, exc, trace, hook, out, calls, jobs, sets, own>>

\* get_logger() raises ShutdownError once the flag is set: outside of the
\* try, and two frames further down, the first of them in decorators/base.py.
Bind(w) ==
    /\ At(w, "bind")
    /\ IF factory = "up" THEN SetTop(w, "enter") /\ UNCHANGED exc
       ELSE /\ SetTop(w, "unguarded")
            /\ exc' = [exc EXCEPT ![w] =
                   Through(Through(Through(Nothing(FALSE), Depth(w) + 2, FALSE),
                                   Depth(w) + 1, TRUE), Depth(w), TRUE)]
    /\ UNCHANGED <<options, sampling, factory, klass, trace, hook, out, calls, jobs, sets, own>>

Enter(w) ==
    /\ At(w, "enter")
    /\ Log(w, Top(w).id, "Execution")
    /\ stack' = [stack EXCEPT ![w] = Append(Marked(w, "guarded"), User)]
    /\ UNCHANGED <<options, sampling, factory, klass, exc, trace, hook, calls, jobs, sets, own>>

\* Mutant of Return: the result is only logged while the factory is active.
Bug_Return(w) ==
    /\ Running(w)
    /\ IF Depth(w) > 1 /\ stack[w][Depth(w) - 1].kind = "wrapper"
       THEN /\ Pop(w, 2)
            /\ IF stack[w][Depth(w) - 1].pc = "guarded" /\ IsActive
               THEN Log(w, stack[w][Depth(w) - 1].id, "Result") ELSE UNCHANGED out
       ELSE Pop(w, 1) /\ UNCHANGED out
    /\ UNCHANGED <<options, sampling, factory, klass, exc, trace, hook, calls, jobs, sets, own>>

\* The function returns; a wrapper that has a logger logs its result.
Return(w) ==
    /\ Running(w)
    /\ IF Depth(w) > 1 /\ stack[w][Depth(w) - 1].kind = "wrapper"
       THEN /\ Pop(w, 2)
            /\ IF stack[w][Depth(w) - 1].pc = "guarded"
               THEN Log(w, stack[w][Depth(w) - 1].id, "Result") ELSE UNCHANGED out
       ELSE Pop(w, 1) /\ UNCHANGED out
    /\ UNCHANGED <<options, sampling, factory, klass, exc, trace, hook, calls, jobs, sets, own>>

\* The code of the user raises, or is interrupted or cancelled where it waits.
Raise(w) ==
    /\ Running(w)
    /\ \E base \in BOOLEAN :
          exc' = [exc EXCEPT ![w] = Through(Nothing(base), Depth(w), FALSE)]
    /\ UNCHANGED <<options, sampling, factory, klass, stack, trace, hook, out, calls, jobs, sets, own>>

\* A function of the user catches what came out of a call it made.
Catch(w) ==
    /\ exc[w] # NoExc /\ Top(w).kind = "user"
    /\ exc' = [exc EXCEPT ![w] = NoExc]
    /\ UNCHANGED <<options, sampling, factory, klass, stack, trace, hook, out, calls, jobs, sets, own>>

\* It goes on to the caller, where there is one.  What is no Exception passes
\* the wrapper, too, and the call it leaves logs nothing more.
Unwind(w) ==
    /\ exc[w] # NoExc /\ (Top(w).pc = "guarded" => exc[w].base)
    /\ Pop(w, 1)
    /\ out' = IF Top(w).pc = "guarded"
              THEN [out EXCEPT ![w] =
                       Append(@, Entry(w, Top(w).id, "Abandoned", <<>>, {}, FALSE))]
              ELSE out
    /\ exc' = [exc EXCEPT ![w] =
           IF Depth(w) = 1 THEN NoExc
           ELSE Through(@, Depth(w) - 1, stack[w][Depth(w) - 1].kind = "wrapper")]
    /\ UNCHANGED <<options, sampling, factory, klass, trace, hook, calls, jobs, sets, own>>

\* The wrapper's "except Exception": the records, the hook, the bare raise.
Except(w) ==
    /\ exc[w] # NoExc /\ Top(w).pc = "guarded" /\ ~exc[w].base
    /\ LET e == exc[w]
           rewound == IF options.show_frames THEN e ELSE Rewind(e)
           rendered == options.log_exceptions /\ options.render
           Visible == IF options.show_frames THEN e.passed ELSE e.passed \ e.hidden
       IN  /\ \E r \in Record(w, Top(w).id, "Error", <<>>, {}),
                 t \in Record(w, Top(w).id, "Traceback",
                              Chain(rewound.head, rewound.links), Visible) :
                 out' = [out EXCEPT ![w] = @ \o
                     (IF options.log_exceptions THEN <<r>> ELSE <<>>)
                     \o (IF rendered THEN <<t>> ELSE <<>>)]
           /\ exc' = [exc EXCEPT ![w] = IF rendered THEN Rewound(e, rewound) ELSE e]
    /\ hook' = IF options.suppress THEN "silent" ELSE hook
    /\ SetTop(w, "unguarded")
    /\ UNCHANGED <<options, sampling, factory, klass, trace, calls, jobs, sets, own>>

\* restore_default_excepthook, by the code of the user.
RestoreHook ==
    /\ hook = "silent" /\ hook' = "default"
    /\ UNCHANGED <<options, sampling, factory, klass, stack, exc, trace, out, calls, jobs, sets, own>>

Step(w) ==
    Call(w) \/ Lookup(w) \/ Bind(w) \/ Enter(w) \/ Return(w) \/ Raise(w)
    \/ Catch(w) \/ Unwind(w) \/ Except(w)
Next ==
    \/ FactoryStep \/ DefineClass \/ RestoreHook
    \/ \E w \in Workers : Step(w) \/ \E id \in Traces \cup {NoTrace} : SetTrace(w, id)
    \/ \E w, v \in Workers : StartJob(w, v)
Spec == CallsInit /\ [][Next]_vars
----------------------------------------------------------------------------
\* Properties.

Ids == Traces \cup {NoTrace}

\* Every variable keeps its type, and only a worker with a frame to unwind
\* has an exception under way.
TypeOK ==
    /\ \E s \in Settings : options = s.options /\ sampling = s.sampling
    /\ factory \in {"none", "up", "closing", "gone"}
    /\ klass \in {"undefined", "plain", "wrapped"} /\ hook \in {"default", "silent"}
    /\ calls \in 0..MaxCalls /\ jobs \in 0..MaxJobs /\ sets \in 0..MaxSets
    /\ \A w \in Workers :
          /\ Depth(w) <= MaxDepth
          /\ trace[w] \in own[w] /\ own[w] \subseteq Ids
          /\ exc[w] # NoExc => stack[w] # <<>> /\ exc[w].head = Depth(w)
          /\ \A i \in DOMAIN out[w] :
                out[w][i].message \in Message \cup {"Abandoned"} /\ out[w][i].trace \in Ids

\* The records of a worker nest like its calls: each "Execution" is closed by
\* one result or one error of the same call, the innermost one first, unless
\* what left the call was no Exception; and the calls not yet closed are those
\* on the stack, whatever happens to the factory meanwhile.  No record comes
\* from inside a call that was closed or left, and none is closed twice.
ParseRecord(open, r) ==
    CASE r.message = "Execution" -> Append(open, r.call)
      [] r.message = "Traceback" -> open
      [] OTHER -> IF open # <<>> /\ Last(open) = r.call THEN Front(open) ELSE <<0>>
Opened(records) ==
    LET open[i \in 0..Len(records)] ==
            IF i = 0 THEN <<>> ELSE ParseRecord(open[i - 1], records[i])
    IN  open
GuardFrame(ids, f) == IF f.pc = "guarded" THEN Append(ids, f.id) ELSE ids
Guarded(frames) ==
    LET ids[i \in 0..Len(frames)] ==
            IF i = 0 THEN <<>> ELSE GuardFrame(ids[i - 1], frames[i])
    IN  ids
RecordsNest ==
    options.log_exceptions =>
        \A w \in Workers : Opened(out[w])[Len(out[w])] = Guarded(stack[w])[Depth(w)]

\* The traceback in a record shows every frame of the user between the call
\* and the raise, from the outside in, and none of the decorators; and the
\* exception that goes on to the caller still has every one of them: the nodes
\* that are re-linked in an inner call take nothing from what comes after.
RendersUserFrames ==
    \A w \in Workers :
        /\ \A i \in DOMAIN out[w] :
              LET r == out[w][i]
              IN  r.message = "Traceback" => /\ ToSet(r.tb) = r.path
                                             /\ \A j \in 2..Len(r.tb) : r.tb[j - 1] < r.tb[j]
        /\ exc[w] # NoExc =>
              exc[w].passed \ exc[w].hidden \subseteq ToSet(Chain(exc[w].head, exc[w].links))

\* The records of a task carry the id it was started with or one that it set
\* itself, never one of another task that runs at the same time.  (A thread
\* of a pool keeps the id of the job before.)
TaskTraces ==
    \A w \in Tasks : \A i \in DOMAIN out[w] : out[w][i].trace \in own[w]

\* With deterministic sampling the records below WARNING of a trace are all
\* kept or all dropped, entries and results, on whichever worker they are
\* logged.  Records without a trace are promised nothing of the kind.
SampledWhole ==
    sampling.deterministic =>
        \A v, w \in Workers : \A i \in DOMAIN out[v], j \in DOMAIN out[w] :
            LET r == out[v][i]
                s == out[w][j]
            IN  /\ {r.message, s.message} \subseteq {"Execution", "Result"}
                /\ r.trace = s.trace /\ r.trace # NoTrace
                => r.kept = s.kept
=============================================================================
