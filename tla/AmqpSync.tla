------------------------------ MODULE AmqpSync ------------------------------
(***************************************************************************)
(* AMQPSyncHandler: a buffer guarded by a lock, flushed to the broker on   *)
(* the thread that fills it. Emitters call handle(), which holds the       *)
(* handler's own lock (logging.Handler.lock) around emit(); users call     *)
(* flush() or close(), or logging.shutdown(), which takes the handler's    *)
(* own lock, flushes and closes.                                           *)
(*                                                                         *)
(* A record is a pair <<thread, n>>: the n-th that thread hands over.      *)
(***************************************************************************)
EXTENDS Integers, SequencesExt, Histories

CONSTANTS Emitters,     \* threads that hand records to the handler
          Users,        \* threads that make one call of flush, close or exit
          BatchSizes,   \* the values of AMQPSettings.batch_size considered
          MaxEmits,     \* bound: MaxEmits[t] is the number of records of t
          NoThread      \* a lock is free

ASSUME BatchSizesAssumption == BatchSizes \subseteq Nat \ {0}
ASSUME MaxEmitsAssumption == MaxEmits \in [Emitters -> Nat]
ASSUME ThreadsAssumption ==
    /\ Emitters \cap Users = {}
    /\ NoThread \notin Emitters \cup Users

Threads == Emitters \cup Users
Records == UNION {{t} \X (1..MaxEmits[t]) : t \in Emitters}

VARIABLES
    settings,   \* batchSize and failOpen of the AMQPSettings, never changed
    buffer,     \* _buffer
    due,        \* flush_interval_s has passed since _last_flush
    closed,     \* _closed
    connOpen,   \* _conn.is_open
    lock,       \* holder of _lock
    hlock,      \* holder of logging.Handler.lock
    next,       \* index of the flush loop of the thread that holds _lock, else 1
    pc,         \* where each thread is
    call,       \* call[u]: what user u has called
    emitted,    \* emitted[t]: number of records t has handed over
    accepted,   \* history: the records appended to the buffer
    sent,       \* history: the records the broker received
    dropped,    \* history: the records cleared from the buffer unsent
    before      \* history: before[u]: Len(accepted) when u called flush()

bufferVars == <<buffer, due, next, accepted, sent, dropped>>
closeVars  == <<closed, connOpen>>
callVars   == <<call, emitted, before>>
syncVars == <<settings, bufferVars, closeVars, callVars, lock, hlock, pc>>

EmitterPCs == {"idle", "enter", "append", "publish"}
UserPCs == {"idle", "exit", "flush", "lock", "publish", "close", "set", "conn",
            "returned", "raised"}
Calls == {"none", "flush", "close", "exit"}

(* The handler was built and is connected.                                 *)
SyncInit ==
    /\ settings \in [batchSize : BatchSizes, failOpen : BOOLEAN]
    /\ buffer = << >>
    /\ due = FALSE
    /\ closed = FALSE
    /\ connOpen = TRUE
    /\ lock = NoThread
    /\ hlock = NoThread
    /\ next = 1
    /\ pc = [t \in Threads |-> "idle"]
    /\ call = [u \in Users |-> "none"]
    /\ emitted = [t \in Emitters |-> 0]
    /\ accepted = << >>
    /\ sent = << >>
    /\ dropped = {}
    /\ before = [u \in Users |-> 0]

GoTo(t, where) == pc' = [pc EXCEPT ![t] = where]

(* flush_interval_s passes.                                                *)
IntervalElapses ==
    /\ ~due
    /\ due' = TRUE
    /\ UNCHANGED <<settings, buffer, next, accepted, sent, dropped, closeVars, callVars,
                   lock, hlock, pc>>

(***************************************************************************)
(* Leaving a call. An emitter leaves handle(), a user flush() or what      *)
(* called it: logging.shutdown() goes on with close().                     *)
(***************************************************************************)
LeaveHandler(t) == hlock' = IF hlock = t THEN NoThread ELSE hlock

FlushReturns(t) ==
    IF t \in Emitters THEN GoTo(t, "idle") /\ LeaveHandler(t)
    ELSE IF call[t] = "exit" THEN GoTo(t, "close") /\ UNCHANGED hlock
    ELSE GoTo(t, "returned") /\ UNCHANGED hlock

FlushRaises(t) == GoTo(t, IF t \in Emitters THEN "idle" ELSE "raised") /\ LeaveHandler(t)

CloseReturns(u) == GoTo(u, "returned") /\ LeaveHandler(u)

(***************************************************************************)
(* _flush_locked(), on the thread that holds _lock.                        *)
(***************************************************************************)
(* basic_publish of the next message of the buffer.                        *)
Publish(t) ==
    /\ pc[t] = "publish"
    /\ next <= Len(buffer)
    /\ connOpen
    /\ sent' = Append(sent, buffer[next])
    /\ next' = next + 1
    /\ UNCHANGED <<settings, buffer, due, accepted, dropped, closeVars, callVars, lock, hlock, pc>>

(* The failed batch is kept for the next flush.                            *)
Bug_PublishKeeps(t) ==
    /\ pc[t] = "publish"
    /\ next <= Len(buffer)
    /\ \/ settings.failOpen /\ FlushReturns(t)
       \/ ~settings.failOpen /\ FlushRaises(t)
    /\ lock' = NoThread
    /\ next' = 1
    /\ UNCHANGED <<settings, buffer, due, accepted, sent, dropped, closeVars, callVars>>

(* The buffer is cleared whether or not the exception is let through.      *)
Bug_PublishClears(t) ==
    /\ pc[t] = "publish"
    /\ next <= Len(buffer)
    /\ buffer' = << >>
    /\ dropped' = dropped \cup {buffer[i] : i \in next..Len(buffer)}
    /\ \/ settings.failOpen /\ FlushReturns(t)
       \/ ~settings.failOpen /\ FlushRaises(t)
    /\ lock' = NoThread
    /\ next' = 1
    /\ UNCHANGED <<settings, due, accepted, sent, closeVars, callVars>>

(* basic_publish raises: the broker failed, or the connection was closed.  *)
(* Fail-open clears the whole buffer; otherwise the exception leaves the   *)
(* buffer as it is, with what was already published.                       *)
PublishRaises(t) ==
    /\ pc[t] = "publish"
    /\ next <= Len(buffer)
    /\ \/ /\ settings.failOpen
          /\ buffer' = << >>
          /\ dropped' = dropped \cup {buffer[i] : i \in next..Len(buffer)}
          /\ FlushReturns(t)
       \/ /\ ~settings.failOpen
          /\ FlushRaises(t)
          /\ UNCHANGED <<buffer, dropped>>
    /\ lock' = NoThread
    /\ next' = 1
    /\ UNCHANGED <<settings, due, accepted, sent, closeVars, callVars>>

(* The loop is over: the buffer is cleared, _last_flush is now.            *)
FlushDone(t) ==
    /\ pc[t] = "publish"
    /\ next > Len(buffer)
    /\ buffer' = << >>
    /\ due' = FALSE
    /\ lock' = NoThread
    /\ next' = 1
    /\ FlushReturns(t)
    /\ UNCHANGED <<settings, accepted, sent, dropped, closeVars, callVars>>

(***************************************************************************)
(* handle() and emit().                                                    *)
(***************************************************************************)
CallHandle(t) ==
    /\ pc[t] = "idle"
    /\ emitted[t] < MaxEmits[t]
    /\ emitted' = [emitted EXCEPT ![t] = @ + 1]
    /\ GoTo(t, "enter")
    /\ UNCHANGED <<settings, bufferVars, closeVars, call, before, lock, hlock>>

(* handle() gets the handler's own lock, and emit() looks at _closed: no   *)
(* other lock is held then.                                                *)
Enter(t) ==
    /\ pc[t] = "enter"
    /\ hlock = NoThread
    /\ \/ /\ closed
          /\ GoTo(t, "idle")
          /\ UNCHANGED hlock
       \/ /\ ~closed
          /\ hlock' = t
          /\ GoTo(t, "append")
    /\ UNCHANGED <<settings, bufferVars, closeVars, callVars, lock>>

Bug_BatchIsFull(records) == Len(records) > settings.batchSize
BatchIsFull(records) == Len(records) >= settings.batchSize

(* The flush is asked of flush(), which takes _lock again.                 *)
Bug_AppendRecord(t) ==
    /\ pc[t] = "append"
    /\ lock = NoThread
    /\ LET record == <<t, emitted[t]>>
       IN  /\ buffer' = Append(buffer, record)
           /\ accepted' = Append(accepted, record)
    /\ IF BatchIsFull(buffer') \/ due
       THEN lock' = t /\ GoTo(t, "lock") /\ UNCHANGED hlock
       ELSE GoTo(t, "idle") /\ LeaveHandler(t) /\ UNCHANGED lock
    /\ UNCHANGED <<settings, due, next, sent, dropped, closeVars, callVars>>

(* emit(): with _lock, appends the record, and goes on to flush if the     *)
(* batch is full or the interval is over.                                  *)
AppendRecord(t) ==
    /\ pc[t] = "append"
    /\ lock = NoThread
    /\ LET record == <<t, emitted[t]>>
       IN  /\ buffer' = Append(buffer, record)
           /\ accepted' = Append(accepted, record)
    /\ IF BatchIsFull(buffer') \/ due
       THEN lock' = t /\ GoTo(t, "publish") /\ UNCHANGED hlock
       ELSE GoTo(t, "idle") /\ LeaveHandler(t) /\ UNCHANGED lock
    /\ UNCHANGED <<settings, due, next, sent, dropped, closeVars, callVars>>

(***************************************************************************)
(* flush(), close() and logging.shutdown().                                *)
(***************************************************************************)
UserCalls(u) ==
    /\ pc[u] = "idle"
    /\ \E c \in {"flush", "close", "exit"} :
          /\ call' = [call EXCEPT ![u] = c]
          /\ before' = [before EXCEPT ![u] = IF c = "flush" THEN Len(accepted) ELSE 0]
          /\ GoTo(u, c)
    /\ UNCHANGED <<settings, bufferVars, closeVars, emitted, lock, hlock>>

(* logging.shutdown() does not take the handler's own lock.                *)
Bug_ExitEnter(u) ==
    /\ pc[u] = "exit"
    /\ GoTo(u, "flush")
    /\ UNCHANGED <<settings, bufferVars, closeVars, callVars, lock, hlock>>

(* logging.shutdown(): h.acquire(), then h.flush() and h.close().          *)
ExitEnter(u) ==
    /\ pc[u] = "exit"
    /\ hlock = NoThread
    /\ hlock' = u
    /\ GoTo(u, "flush")
    /\ UNCHANGED <<settings, bufferVars, closeVars, callVars, lock>>

(* flush() does nothing on a closed handler.                               *)
FlushCheck(u) ==
    /\ pc[u] = "flush"
    /\ IF closed THEN FlushReturns(u) ELSE GoTo(u, "lock") /\ UNCHANGED hlock
    /\ UNCHANGED <<settings, bufferVars, closeVars, callVars, lock>>

(* A flush under way is taken for the caller's own.                        *)
Bug_FlushLocked(u) ==
    /\ pc[u] = "lock"
    /\ \/ /\ buffer = << >> \/ lock # NoThread
          /\ FlushReturns(u)
          /\ UNCHANGED lock
       \/ /\ buffer # << >>
          /\ lock = NoThread
          /\ lock' = u
          /\ GoTo(u, "publish")
          /\ UNCHANGED hlock
    /\ UNCHANGED <<settings, bufferVars, closeVars, callVars>>

(* flush() gets _lock; _flush_locked() returns if the buffer is empty.     *)
FlushLocked(u) ==
    /\ pc[u] = "lock"
    /\ lock = NoThread
    /\ \/ /\ buffer = << >>
          /\ FlushReturns(u)
          /\ UNCHANGED lock
       \/ /\ buffer # << >>
          /\ lock' = u
          /\ GoTo(u, "publish")
          /\ UNCHANGED hlock
    /\ UNCHANGED <<settings, bufferVars, closeVars, callVars>>

(* close(): if self._closed: return.                                       *)
CloseCheck(u) ==
    /\ pc[u] = "close"
    /\ IF closed THEN CloseReturns(u) ELSE GoTo(u, "set") /\ UNCHANGED hlock
    /\ UNCHANGED <<settings, bufferVars, closeVars, callVars, lock>>

(* close() sets _closed. The flush() it then calls finds it set and returns*)
(* at once.                                                                *)
CloseSet(u) ==
    /\ pc[u] = "set"
    /\ closed' = TRUE
    /\ GoTo(u, "conn")
    /\ UNCHANGED <<settings, bufferVars, connOpen, callVars, lock, hlock>>

(* close() closes the connection if it is open, holding neither lock.      *)
CloseConn(u) ==
    /\ pc[u] = "conn"
    /\ connOpen' = FALSE
    /\ CloseReturns(u)
    /\ UNCHANGED <<settings, bufferVars, closed, callVars, lock>>

FlushSteps(t) == Publish(t) \/ PublishRaises(t) \/ FlushDone(t)
EmitSteps(t) == Enter(t) \/ AppendRecord(t) \/ FlushSteps(t)
UserSteps(u) == \/ ExitEnter(u)
                \/ FlushCheck(u)
                \/ FlushLocked(u)
                \/ CloseCheck(u)
                \/ CloseSet(u)
                \/ CloseConn(u)
                \/ FlushSteps(u)

SyncNext == \/ IntervalElapses
            \/ \E t \in Emitters : CallHandle(t) \/ EmitSteps(t)
            \/ \E u \in Users : UserCalls(u) \/ UserSteps(u)

SyncSpec == SyncInit /\ [][SyncNext]_syncVars

(* A thread that is in a call keeps running, and gets a lock that is free  *)
(* again and again. Nobody has to log or to call anything, and the interval*)
(* need not pass.                                                          *)
FairSyncSpec == /\ SyncSpec
                /\ \A t \in Emitters : SF_syncVars(EmitSteps(t))
                /\ \A u \in Users : SF_syncVars(UserSteps(u))
-----------------------------------------------------------------------------
(* Type correctness; each lock is held by exactly the thread that is       *)
(* between its acquisition and its release; and a full batch is never left *)
(* in the buffer of a fail-open handler, so a broker that is down does not *)
(* make it grow.                                                           *)
TypeOK ==
    /\ settings \in [batchSize : BatchSizes, failOpen : BOOLEAN]
    /\ buffer \in Seq(Records)
    /\ settings.failOpen /\ lock = NoThread => Len(buffer) < settings.batchSize
    /\ due \in BOOLEAN
    /\ closed \in BOOLEAN
    /\ connOpen \in BOOLEAN
    /\ next \in 1..(Len(buffer) + 1)
    /\ lock = NoThread => next = 1
    /\ pc \in [Threads -> EmitterPCs \cup UserPCs]
    /\ \A t \in Emitters : pc[t] \in EmitterPCs
    /\ \A u \in Users : pc[u] \in UserPCs
    /\ call \in [Users -> Calls]
    /\ emitted \in [Emitters -> Nat]
    /\ \A t \in Emitters : emitted[t] <= MaxEmits[t]
    /\ accepted \in Seq(Records)
    /\ sent \in Seq(Records)
    /\ dropped \subseteq Records
    /\ before \in [Users -> Nat]
    /\ lock \in Threads \cup {NoThread}
    /\ \A t \in Threads : pc[t] = "publish" <=> lock = t
    /\ hlock \in Threads \cup {NoThread}
    /\ \A t \in Emitters : pc[t] \in {"append", "publish"} <=> hlock = t
    /\ \A u \in Users :
          call[u] = "exit" /\ pc[u] \notin {"exit", "returned", "raised"} <=> hlock = u

(* A fail-open handler delivers at most once: the broker receives records  *)
(* in the order they were accepted, none twice, and none that was reported *)
(* lost or that is going to be sent (_flush_locked).                       *)
AtMostOnce ==
    settings.failOpen =>
        /\ PartOf(sent, accepted)
        /\ ToSet(sent) \cap dropped = {}
        /\ lock = NoThread => ToSet(sent) \cap ToSet(buffer) = {}

(* A handler that is not fail-open never forgets: every record it accepted *)
(* has reached the broker or is still in the buffer (_flush_locked).       *)
AtLeastOnce ==
    ~settings.failOpen => ToSet(accepted) \subseteq ToSet(sent) \cup ToSet(buffer)

(* flush() is a barrier: when it returns on a handler that is not closed,  *)
(* no record accepted before the call is still in the buffer, whoever else *)
(* was flushing.                                                           *)
FlushIsBarrier ==
    \A u \in Users : call[u] = "flush" /\ pc[u] = "returned" /\ ~closed =>
        \A i \in 1..before[u] : ~Contains(buffer, accepted[i])

(* logging.shutdown() strands nothing, although close() alone does: it     *)
(* flushes first, and its hold on the handler's own lock keeps emitters    *)
(* from adding a record between the flush and the close.                   *)
ExitStrandsNothing ==
    /\ \E u \in Users : call[u] = "exit" /\ pc[u] = "returned"
    /\ \A u \in Users : call[u] # "close"
    => buffer = << >>

(* Handing a record over returns or raises: the two locks are taken in one *)
(* order, and both are released on every path.                             *)
EmitReturns == \A t \in Emitters : pc[t] = "enter" ~> pc[t] = "idle"

-----------------------------------------------------------------------------
(* README.md on both AMQP handlers: they "flush on close". A close() that  *)
(* returned leaves no record in the buffer.                                *)
CloseFlushes ==
    (\E u \in Users : call[u] = "close" /\ pc[u] = "returned") => buffer = << >>
=============================================================================
