----------------------------- MODULE RecordPath -----------------------------
(***************************************************************************)
(* A log record on its way through the handlers of a logger: the console's *)
(* formatter and the queue handler work on one and the same LogRecord, and *)
(* each leaves something in it for the next; what is handed to the sinks   *)
(* behind the queue is a copy. Text is left out, but for the tracebacks    *)
(* in it; a field is known by its name.                                    *)
(***************************************************************************)
EXTENDS Integers, SequencesExt

(* A record: the attributes that not every LogRecord has, its trace_id, the*)
(* traceback handed in as exc_info, the cached exc_text, and the tracebacks*)
(* in its message. A traceback is the sequence of its frames.              *)
LogRecord(fields, trace, frames) ==
    [attrs |-> fields, trace |-> trace, excInfo |-> frames, excText |-> << >>,
     inMessage |-> << >>]

Bound == {"context", "trace_id", "span_id"}

(* BoundLogger.process: a field of that name that was bound or passed wins.*)
Process(fields) == fields \cup Bound

(* format_exception_pretty and the standard library's: every frame, from   *)
(* the outermost to the one that raised.                                   *)
Rendered(frames, style) ==
    IF frames = << >> THEN << >> ELSE <<[style |-> style, frames |-> frames]>>

(* logging.Formatter.format: what an earlier formatter rendered is taken.  *)
Formatted(rec, style) ==
    [rec EXCEPT !.attrs = @ \cup {"message"},
                !.excText = IF @ = << >> THEN Rendered(rec.excInfo, style) ELSE @]

(* ConsoleFormatter.format gives the record what it lacks, for good.       *)
Console(rec) ==
    LET full == [rec EXCEPT !.attrs = @ \cup Bound \cup {"extras", "asctime"},
                            !.trace = IF "trace_id" \in rec.attrs THEN @ ELSE "zeros"]
    IN  Formatted(full, "pretty")

(* exc_info is kept in the copy.                                           *)
Bug_Prepare(rec) ==
    [rec EXCEPT !.inMessage = rec.excText, !.excText = << >>]

(* QueueHandler.prepare, after its formatter: the text becomes the message.*)
Prepare(rec) ==
    [rec EXCEPT !.inMessage = rec.excText, !.excInfo = << >>, !.excText = << >>]

Promoted == {"type", "result", "cur_args", "cur_kwargs"}

(* The keys of the line that JSONFormatter.format writes.                  *)
Payload(rec) ==
    {"timestamp", "level", "message", "logger", "service", "context", "trace_id",
     "span_id", "module", "function", "line", "pathname", "process", "thread"}
    \cup (rec.attrs \cap (Promoted \cup {"otel_status"}))
    \cup (IF rec.excInfo = << >> THEN {} ELSE {"exception"})

(* Its line; fields are those attributes of the record that it shows.      *)
JSONLine(rec) ==
    [trace |-> rec.trace,
     fields |-> (rec.attrs \cap (Promoted \cup {"otel_status"} \cup Bound))
                \cup (rec.attrs \ Payload(rec)),
     tracebacks |-> rec.inMessage \o Rendered(rec.excInfo, "structured")]

(* serialize_record, for the broker.                                       *)
Wire(rec) ==
    [trace |-> rec.trace, fields |-> rec.attrs \cap Bound, tracebacks |-> rec.inMessage]

(* A handler of the logger has its turn; copies are what the queues got.   *)
Handle(path, handler) ==
    IF handler = "console"
    THEN [path EXCEPT !.record = Console(@)]
    ELSE LET rec == Formatted(path.record, "plain")
         IN  [record |-> rec, copies |-> Append(path.copies, Prepare(rec))]

(* Logger.callHandlers: the record after each handler has had its turn.    *)
Turns(handlers, rec) ==
    LET path[i \in 0..Len(handlers)] ==
            IF i = 0 THEN [record |-> rec, copies |-> << >>]
            ELSE Handle(path[i - 1], handlers[i])
    IN  path
(* What it leaves with the sinks.                                          *)
Copies(handlers, rec) == ToSet(Turns(handlers, rec)[Len(handlers)].copies)
=============================================================================
