------------------------------ MODULE AmqpAsync ------------------------------
(***************************************************************************)
(* AMQPAsyncHandler: emit() puts the record in an inbox; one consumer      *)
(* coroutine on the loop's thread drains the inbox and publishes;          *)
(* flush_sync() and close() run on the threads of their callers and wait   *)
(* for the consumer, for so long. The loop is the handler's own, run by a  *)
(* LoopRunner, or one that the program hands in and ends when it likes. In *)
(* a program with a loop of its own some callers run on its thread: while  *)
(* they are in a call, the loop does nothing.                              *)
(*                                                                         *)
(* The loop's thread runs one coroutine until it awaits, so a step of the  *)
(* consumer goes from one await to the next. The event that wakes it up is *)
(* not kept: it also wakes up by itself after flush_interval_s.            *)
(*                                                                         *)
(* How the handler is built, and the specification, are in AmqpConnect.    *)
(***************************************************************************)
EXTENDS Integers, SequencesExt, Histories

CONSTANTS Emitters,     \* threads that call emit()
          Users,        \* threads that make one call of flush_sync() or close()
          LoopUsers,    \* those of them that are on the loop's thread, if the
                        \* loop was handed in
          MaxEmits      \* bound: MaxEmits[t] is the number of records of t

ASSUME MaxEmitsAssumption == MaxEmits \in [Emitters -> Nat]
ASSUME ThreadsAssumption == Emitters \cap Users = {} /\ LoopUsers \subseteq Users

Threads == Emitters \cup Users
Records == UNION {{t} \X (1..MaxEmits[t]) : t \in Emitters}

VARIABLES
    failOpen,   \* AMQPSettings.fail_open, never changed
    external,   \* _external_loop, never changed
    inbox,      \* _inbox
    buffer,     \* the consumer's batch
    next,       \* the index of the loop over the batch in _publish_buffer
    consumer,   \* where the consumer task is
    drained,    \* _drained_event
    closing,    \* _closing
    closed,     \* _closed; the events and the task are None from then on
    connOpen,   \* the aio_pika connection is open
    running,    \* the loop accepts coroutines: the LoopRunner has its _loop, or
                \* the program's loop is not closed
    late,       \* what is left on the loop that nobody waits for any more, and
                \* what LoopRunner.stop() schedules there
    pc,         \* where each thread is
    call,       \* call[u]: what user u has called
    emitted,    \* emitted[t]: number of records t has tried to emit
    accepted,   \* history: the records put in the inbox
    sent,       \* history: the records published
    dropped,    \* history: the records taken from the inbox and not published
    before,     \* history: before[u]: Len(accepted) when u called flush_sync()
    idleAt,     \* history: idleAt[u]: the consumer was waiting at u's kick
    atClose,    \* history: Len(accepted) when _closing was first set
    trouble     \* history: the broker failed, or close() gave up waiting

config    == <<failOpen, external>>
batchVars == <<inbox, buffer, next, consumer, drained, accepted, sent, dropped>>
lifeVars  == <<closing, closed, connOpen, running, late, atClose>>
userVars  == <<call, before, idleAt>>
asyncVars == <<config, batchVars, lifeVars, userVars, emitted, trouble, pc>>

ConsumerStates == {"wait", "publish", "final", "cancelling", "done", "dead", "cancelled",
                   "stranded"}
EmitterPCs == {"idle", "put", "wake", "callSoon", "raised"}
UserPCs == {"idle", "flush", "kick", "await", "close", "set", "join", "conn", "stop",
            "cancel", "finish", "returned", "gaveUp", "raised"}
Calls == {"none", "flush", "close"}

LoopIsClosed == external /\ ~running
OnLoop(u) == external /\ u \in LoopUsers

(* A stranded consumer is pending on a stopped loop: it never runs again.  *)
Ended    == consumer \in {"done", "dead", "cancelled"}
Stranded == consumer = "stranded"

(* A handler that nobody has used.                                         *)
Unused ==
    /\ failOpen \in BOOLEAN
    /\ inbox = << >>
    /\ buffer = << >>
    /\ next = 1
    /\ consumer = "wait"
    /\ drained = TRUE
    /\ closing = FALSE
    /\ closed = FALSE
    /\ late = {}
    /\ pc = [t \in Threads |-> "idle"]
    /\ call = [u \in Users |-> "none"]
    /\ emitted = [t \in Emitters |-> 0]
    /\ accepted = << >>
    /\ sent = << >>
    /\ dropped = {}
    /\ before = [u \in Users |-> 0]
    /\ idleAt = [u \in Users |-> FALSE]
    /\ atClose = 0
    /\ trouble = FALSE

GoTo(t, where) == pc' = [pc EXCEPT ![t] = where]
InCall(u) == pc[u] \notin {"idle", "returned", "gaveUp", "raised"}

(* Nobody keeps the loop's thread from running coroutines.                 *)
LoopFree == ~LoopIsClosed /\ \A u \in LoopUsers : OnLoop(u) => ~InCall(u)

(***************************************************************************)
(* emit(), on any thread.                                                  *)
(***************************************************************************)
(* The flags are read, without a lock, and whether the loop is closed.     *)
Emit(t) ==
    /\ pc[t] = "idle"
    /\ emitted[t] < MaxEmits[t]
    /\ emitted' = [emitted EXCEPT ![t] = @ + 1]
    /\ GoTo(t, IF closing \/ closed \/ LoopIsClosed THEN "idle" ELSE "put")
    /\ UNCHANGED <<config, batchVars, lifeVars, userVars, trouble>>

(* The record is put in the inbox, whatever has become of the consumer.    *)
PutInbox(t) ==
    /\ pc[t] = "put"
    /\ inbox' = Append(inbox, <<t, emitted[t]>>)
    /\ accepted' = Append(accepted, <<t, emitted[t]>>)
    /\ GoTo(t, "wake")
    /\ UNCHANGED <<config, buffer, next, consumer, drained, sent, dropped, lifeVars,
                   userVars, emitted, trouble>>

(* if self._wake_event is not None                                         *)
SeeEvent(t) ==
    /\ pc[t] = "wake"
    /\ GoTo(t, IF closed THEN "idle" ELSE "callSoon")
    /\ UNCHANGED <<config, batchVars, lifeVars, userVars, emitted, trouble>>

(* call_soon_threadsafe(self._wake_event.set): the attribute is read again;*)
(* if close() has cleared it, emit() raises AttributeError.                *)
CallSoon(t) ==
    /\ pc[t] = "callSoon"
    /\ GoTo(t, IF closed THEN "raised" ELSE "idle")
    /\ UNCHANGED <<config, batchVars, lifeVars, userVars, emitted, trouble>>

EmitSteps(t) == PutInbox(t) \/ SeeEvent(t) \/ CallSoon(t)

(***************************************************************************)
(* _consumer(), on the loop's thread.                                      *)
(***************************************************************************)
(* _closing is looked at only after a batch.                               *)
Bug_GoesOn ==
    /\ drained' = TRUE
    /\ consumer' = IF closing /\ buffer # << >> THEN "done" ELSE "wait"
    /\ buffer' = << >>
    /\ UNCHANGED inbox

(* From the end of a batch to the next await: _drained_event.set(), and if *)
(* _closing is set, one final drain. If close() has cleared the event, the *)
(* coroutine ends in an AttributeError.                                    *)
GoesOn ==
    \/ /\ closed
       /\ consumer' = "dead"
       /\ buffer' = << >>
       /\ UNCHANGED <<inbox, drained>>
    \/ /\ ~closed
       /\ drained' = TRUE
       /\ IF closing /\ consumer # "final" /\ inbox # << >>
          THEN consumer' = "final" /\ buffer' = inbox /\ inbox' = << >>
          ELSE /\ consumer' = IF closing THEN "done" ELSE "wait"
               /\ buffer' = << >>
               /\ UNCHANGED inbox

(* A batch is published only when two records are there.                   *)
Bug_Cycle ==
    /\ consumer = "wait"
    /\ LoopFree
    /\ \/ /\ Len(inbox) >= 2
          /\ buffer' = inbox
          /\ inbox' = << >>
          /\ consumer' = "publish"
          /\ UNCHANGED drained
       \/ inbox = << >> /\ GoesOn
    /\ UNCHANGED <<config, next, accepted, sent, dropped, lifeVars, userVars, emitted,
                   trouble, pc>>

(* It wakes up, and drains the inbox into the batch.                       *)
Cycle ==
    /\ consumer = "wait"
    /\ LoopFree
    /\ \/ /\ inbox # << >> /\ ~closed
          /\ buffer' = inbox
          /\ inbox' = << >>
          /\ consumer' = "publish"
          /\ UNCHANGED drained
       \/ /\ inbox = << >> \/ closed
          /\ GoesOn
    /\ UNCHANGED <<config, next, accepted, sent, dropped, lifeVars, userVars, emitted,
                   trouble, pc>>

(* It awaits a publish(), if need be one of those after its cancellation.   *)
Publishing == consumer \in {"publish", "final", "cancelling"}

(* publish() of the next message: it is on the wire, and is awaited.       *)
Publish ==
    /\ Publishing
    /\ LoopFree
    /\ next <= Len(buffer)
    /\ connOpen
    /\ sent' = Append(sent, buffer[next])
    /\ next' = next + 1
    /\ UNCHANGED <<config, inbox, buffer, consumer, drained, accepted, dropped, lifeVars,
                   userVars, emitted, trouble, pc>>

(* The batch is not cleared.                                               *)
Bug_Published ==
    /\ Publishing
    /\ next > Len(buffer)
    /\ next' = 1
    /\ drained' = TRUE
    /\ consumer' = IF closing THEN "done" ELSE "wait"
    /\ UNCHANGED <<config, inbox, buffer, accepted, sent, dropped, lifeVars, userVars,
                   emitted, trouble, pc>>

(* The end of a consumer that was cancelled: _drained_event.set(), if it is*)
(* still there, and the CancelledError is raised again.                    *)
EndsCancelled ==
    /\ consumer' = "cancelled"
    /\ buffer' = << >>
    /\ drained' = (drained \/ ~closed)
    /\ UNCHANGED inbox

(* The last publish() of the batch returns; buffer.clear().                *)
Published ==
    /\ Publishing
    /\ LoopFree
    /\ next > Len(buffer)
    /\ next' = 1
    /\ IF consumer = "cancelling" THEN EndsCancelled ELSE GoesOn
    /\ UNCHANGED <<config, accepted, sent, dropped, lifeVars, userVars, emitted, trouble, pc>>

Rest == {buffer[i] : i \in next..Len(buffer)}

(* The failed message and those after it are put back in the inbox.        *)
Bug_PublishRaises ==
    /\ Publishing
    /\ next <= Len(buffer)
    /\ trouble' = (trouble \/ connOpen)
    /\ inbox' = inbox \o SubSeq(buffer, next, Len(buffer))
    /\ buffer' = << >>
    /\ next' = 1
    /\ consumer' = "wait"
    /\ drained' = TRUE
    /\ UNCHANGED <<config, accepted, sent, dropped, lifeVars, userVars, emitted, pc>>

(* publish() raises: the broker fails, or the connection was closed. The   *)
(* batch is cleared in any case. If fail_open is off, the consumer ends;   *)
(* one that was cancelled has nothing more to do.                          *)
PublishRaises ==
    /\ Publishing
    /\ LoopFree
    /\ next <= Len(buffer)
    /\ trouble' = (trouble \/ connOpen)
    /\ dropped' = dropped \cup Rest
    /\ next' = 1
    /\ \/ consumer = "cancelling" /\ EndsCancelled
       \/ consumer # "cancelling" /\ failOpen /\ GoesOn
       \/ /\ consumer # "cancelling"
          /\ ~failOpen
          /\ buffer' = << >>
          /\ consumer' = "dead"
          /\ UNCHANGED <<inbox, drained>>
    /\ UNCHANGED <<config, accepted, sent, lifeVars, userVars, emitted, pc>>

ConsumerSteps == Cycle \/ Publish \/ Published \/ PublishRaises

(* A coroutine whose caller has given up is run all the same.              *)
RunLate(what) ==
    /\ what \in late \cap {"kick", "conn.close"}
    /\ LoopFree
    /\ running
    /\ late' = late \ {what}
    /\ drained' = (drained /\ (what # "kick" \/ closed))
    /\ connOpen' = (connOpen /\ what # "conn.close")
    /\ UNCHANGED <<config, inbox, buffer, next, consumer, accepted, sent, dropped, closing,
                   closed, running, atClose, userVars, emitted, trouble, pc>>

(* The CancelledError reaches the consumer. It loses the batch that it is  *)
(* publishing, drains the inbox and starts to publish that; in its wait, it*)
(* uses the event first, which close() may have cleared.                   *)
Cancelled ==
    \/ Ended /\ UNCHANGED batchVars
    \/ /\ consumer = "wait"
       /\ closed
       /\ GoesOn
       /\ UNCHANGED <<next, accepted, sent, dropped>>
    \/ /\ consumer \in {"publish", "final"} \/ (consumer = "wait" /\ ~closed)
       /\ dropped' = dropped \cup Rest
       /\ next' = 1
       /\ IF inbox # << >>
          THEN consumer' = "cancelling" /\ buffer' = inbox /\ inbox' = << >> /\ UNCHANGED drained
          ELSE EndsCancelled
       /\ UNCHANGED <<accepted, sent>>

(* The program's loop is brought to its end (asyncio.run), whether the     *)
(* handler was closed or not: the tasks are cancelled, ...                 *)
LoopCancels ==
    /\ external
    /\ LoopFree
    /\ ~Ended
    /\ Cancelled
    /\ trouble' = TRUE
    /\ UNCHANGED <<config, lifeVars, userVars, emitted, pc>>

(* ... and when they have ended, which is not hurried, the loop is closed. *)
LoopEnds ==
    /\ external
    /\ LoopFree
    /\ Ended
    /\ running' = FALSE
    /\ trouble' = TRUE
    /\ UNCHANGED <<config, batchVars, closing, closed, connOpen, late, userVars, emitted,
                   atClose, pc>>

(* _cancel_all() of LoopRunner.stop(), on the handler's own loop, cancels  *)
(* the consumer if it is still there, and the coroutines.                  *)
CancelAll ==
    /\ "cancel" \in late
    /\ Cancelled
    /\ late' = late \cap {"stop"}
    /\ UNCHANGED <<config, closing, closed, connOpen, running, atClose, userVars, emitted,
                   trouble, pc>>

(* loop.stop(): the loop stops under whatever is still pending on it.      *)
Halt ==
    /\ "stop" \in late
    /\ consumer' = IF Ended THEN consumer ELSE "stranded"
    /\ late' = {}
    /\ UNCHANGED <<config, inbox, buffer, next, drained, accepted, sent, dropped, closing,
                   closed, connOpen, running, atClose, userVars, emitted, trouble, pc>>

LoopSteps == LoopCancels \/ LoopEnds \/ CancelAll \/ Halt \/ \E what \in late : RunLate(what)

(***************************************************************************)
(* flush_sync().                                                           *)
(***************************************************************************)
UserCalls(u) ==
    /\ pc[u] = "idle"
    /\ OnLoop(u) => LoopFree
    /\ \E c \in {"flush", "close"} :
          /\ call' = [call EXCEPT ![u] = c]
          /\ before' = [before EXCEPT ![u] = IF c = "flush" THEN Len(accepted) ELSE 0]
          /\ GoTo(u, c)
    /\ UNCHANGED <<config, batchVars, lifeVars, idleAt, emitted, trouble>>

FlushCheck(u) ==
    /\ pc[u] = "flush"
    /\ GoTo(u, IF closing \/ closed \/ LoopIsClosed THEN "gaveUp" ELSE "kick")
    /\ UNCHANGED <<config, batchVars, lifeVars, userVars, emitted, trouble>>

(* The drained flag is not cleared.                                        *)
Bug_Kick(u) ==
    /\ pc[u] = "kick"
    /\ running
    /\ LoopFree
    /\ idleAt' = [idleAt EXCEPT ![u] = consumer = "wait"]
    /\ GoTo(u, "await")
    /\ UNCHANGED <<config, batchVars, lifeVars, call, before, emitted, trouble>>

(* _kick_and_wait() runs on the loop: the drained flag is cleared.         *)
Kick(u) ==
    /\ pc[u] = "kick"
    /\ running
    /\ ~closed
    /\ LoopFree
    /\ drained' = FALSE
    /\ idleAt' = [idleAt EXCEPT ![u] = consumer = "wait"]
    /\ GoTo(u, "await")
    /\ UNCHANGED <<config, inbox, buffer, next, consumer, accepted, sent, dropped, lifeVars,
                   call, before, emitted, trouble>>

(* _await_drain() sees the flag; or the timeout is over, or the loop is    *)
(* stopped, and flush_sync() returns all the same.                         *)
AwaitDrain(u) ==
    /\ pc[u] = "await"
    /\ \/ drained /\ running /\ LoopFree /\ GoTo(u, "returned")
       \/ GoTo(u, "gaveUp")
    /\ UNCHANGED <<config, batchVars, lifeVars, userVars, emitted, trouble>>

(* The kick is refused, or it was not run in time and still will be.       *)
KickFails(u) ==
    /\ pc[u] = "kick"
    /\ late' = IF running THEN late \cup {"kick"} ELSE late
    /\ GoTo(u, "gaveUp")
    /\ UNCHANGED <<config, batchVars, closing, closed, connOpen, running, atClose, userVars,
                   emitted, trouble>>

(***************************************************************************)
(* close().                                                                *)
(***************************************************************************)
CloseCheck(u) ==
    /\ pc[u] = "close"
    /\ GoTo(u, IF closed THEN "returned" ELSE "set")
    /\ UNCHANGED <<config, batchVars, lifeVars, userVars, emitted, trouble>>

(* _closing is set; the event is there, or is not.                         *)
CloseSet(u) ==
    /\ pc[u] = "set"
    /\ closing' = TRUE
    /\ atClose' = IF closing THEN atClose ELSE Len(accepted)
    /\ GoTo(u, "join")
    /\ UNCHANGED <<config, batchVars, closed, connOpen, running, late, userVars, emitted,
                   trouble>>

(* The connection is closed without waiting for the consumer.              *)
Bug_Join(u) ==
    /\ pc[u] = "join"
    /\ GoTo(u, "conn")
    /\ UNCHANGED <<config, batchVars, lifeVars, userVars, emitted, trouble>>

(* The consumer is woken up, and its task waited for, unless another       *)
(* close() has cleared it. If that other close() clears the event or stops *)
(* the runner between a check and a use of them, close() raises. A loop of *)
(* the program that refuses is ignored. After 5 s it goes on regardless.   *)
Join(u) ==
    /\ pc[u] = "join"
    /\ \/ /\ closed \/ (running /\ LoopFree /\ Ended)
          /\ GoTo(u, "conn")
          /\ UNCHANGED trouble
       \/ /\ closed \/ ~(running \/ external)
          /\ GoTo(u, "raised")
          /\ UNCHANGED trouble
       \/ /\ external
          /\ ~running
          /\ GoTo(u, "conn")
          /\ UNCHANGED trouble
       \/ /\ ~closed
          /\ running
          /\ ~Ended \/ ~LoopFree
          /\ GoTo(u, "conn")
          /\ trouble' = TRUE
    /\ UNCHANGED <<config, batchVars, lifeVars, userVars, emitted>>

(* conn.close() on the loop; if it takes too long, close() goes on. A loop *)
(* that was handed in is left running.                                     *)
CloseConn(u) ==
    /\ pc[u] = "conn"
    /\ \/ running /\ LoopFree /\ connOpen' = FALSE /\ UNCHANGED <<trouble, late>>
       \/ /\ late' = IF running THEN late \cup {"conn.close"} ELSE late
          /\ trouble' = TRUE
          /\ UNCHANGED connOpen
    /\ GoTo(u, IF external THEN "finish" ELSE "stop")
    /\ UNCHANGED <<config, batchVars, closing, closed, running, atClose, userVars, emitted>>

(* LoopRunner.stop(): from now on the runner refuses coroutines; its last  *)
(* one is _cancel_all(). stop() does nothing on a runner that another      *)
(* close() is stopping.                                                    *)
StopLoop(u) ==
    /\ pc[u] = "stop"
    /\ running' = FALSE
    /\ late' = IF running THEN late \cup {"cancel"} ELSE late
    /\ GoTo(u, IF running THEN "cancel" ELSE "finish")
    /\ UNCHANGED <<config, batchVars, closing, closed, connOpen, atClose, userVars, emitted,
                   trouble>>

(* The loop is stopped only if the tasks have ended in time.               *)
Bug_StopAnyway(u) ==
    /\ pc[u] = "cancel"
    /\ late' = IF Ended THEN late \cup {"stop"} ELSE late
    /\ GoTo(u, "finish")
    /\ UNCHANGED <<config, batchVars, closing, closed, connOpen, running, atClose, userVars,
                   emitted, trouble>>

(* The tasks have been cancelled and have ended, or the 2 s for that are   *)
(* over: in either case the loop is told to stop, and its thread is joined,*)
(* for 2 s at most.                                                        *)
StopAnyway(u) ==
    /\ pc[u] = "cancel"
    /\ late' = late \cup {"stop"}
    /\ GoTo(u, "finish")
    /\ UNCHANGED <<config, batchVars, closing, closed, connOpen, running, atClose, userVars,
                   emitted, trouble>>

(* _closed is set; the events and the task are cleared.                    *)
CloseFinish(u) ==
    /\ pc[u] = "finish"
    /\ closed' = TRUE
    /\ GoTo(u, "returned")
    /\ UNCHANGED <<config, batchVars, closing, connOpen, running, late, atClose, userVars,
                   emitted, trouble>>

UserSteps(u) == \/ FlushCheck(u)
                \/ Kick(u)
                \/ KickFails(u)
                \/ AwaitDrain(u)
                \/ CloseCheck(u)
                \/ CloseSet(u)
                \/ Join(u)
                \/ CloseConn(u)
                \/ StopLoop(u)
                \/ StopAnyway(u)
                \/ CloseFinish(u)

AsyncNext == \/ \E t \in Emitters : Emit(t) \/ EmitSteps(t)
             \/ ConsumerSteps
             \/ LoopSteps
             \/ \E u \in Users : UserCalls(u) \/ UserSteps(u)
-----------------------------------------------------------------------------
(* Type correctness, and when the consumer has a batch.                    *)
TypeOK ==
    /\ failOpen \in BOOLEAN
    /\ external \in BOOLEAN
    /\ inbox \in Seq(Records)
    /\ buffer \in Seq(Records)
    /\ next \in 1..(Len(buffer) + 1)
    /\ consumer \in ConsumerStates
    /\ Publishing => buffer # << >>
    /\ buffer # << >> => Publishing \/ Stranded
    /\ drained \in BOOLEAN
    /\ closing \in BOOLEAN
    /\ closed \in BOOLEAN
    /\ connOpen \in BOOLEAN
    /\ running \in BOOLEAN
    /\ late \subseteq {"kick", "conn.close", "cancel", "stop"}
    /\ pc \in [Threads -> EmitterPCs \cup UserPCs]
    /\ call \in [Users -> Calls]
    /\ emitted \in [Emitters -> Nat]
    /\ accepted \in Seq(Records)
    /\ sent \in Seq(Records)
    /\ dropped \subseteq Records
    /\ before \in [Users -> Nat]
    /\ idleAt \in [Users -> BOOLEAN]
    /\ atClose \in 0..Len(accepted)
    /\ trouble \in BOOLEAN

(* Records reach the broker in the order they entered the inbox, none      *)
(* twice; and the first n records that entered it were sent or lost, which *)
(* is reported on stderr or not, and the others wait in that order         *)
(* (_consumer, _publish_buffer, LoopRunner.stop).                          *)
DeliveredInOrder ==
    /\ PartOf(sent, accepted)
    /\ ToSet(sent) \cap dropped = {}
    /\ \E n \in 0..Len(accepted) :
          /\ ToSet(sent) \cup dropped = {accepted[i] : i \in 1..n}
          /\ SubSeq(accepted, n + 1, Len(accepted)) = SubSeq(buffer, next, Len(buffer)) \o inbox

(* "Drain BEFORE closing the connection": a close() that returned, with no *)
(* failure of the broker and no wait given up, has delivered every record  *)
(* that was in the inbox when _closing was set (close).                    *)
CloseDelivers ==
    closed /\ ~trouble => \A i \in 1..atClose : Contains(sent, accepted[i])

(* flush_sync() is a barrier if the consumer was waiting at its kick: when *)
(* the flag is seen, no record put in the inbox before the call is still   *)
(* there or in the batch.                                                  *)
FlushWhenIdle ==
    \A u \in Users : call[u] = "flush" /\ pc[u] = "returned" /\ idleAt[u] =>
        \A i \in 1..before[u] : ~Contains(inbox, accepted[i]) /\ accepted[i] \notin Rest

(* Nothing runs on after close() on a loop of the handler's own: once it   *)
(* has returned, and no other close() is under way, the consumer has ended.*)
(* Only where a wait of close() was given up may it be pending instead, and*)
(* then its loop has stopped or is about to (close, LoopRunner.stop).      *)
ClosedMeansEnded ==
    closed /\ ~external
           /\ (\A u \in Users : pc[u] \notin {"conn", "stop", "cancel", "finish"})
        => Ended \/ (trouble /\ (Stranded \/ "stop" \in late))

(* The consumer of a closed handler ends, or is abandoned on a loop that   *)
(* has stopped, although close() may have given up waiting for it and no   *)
(* publish() has to return. Only on a loop that was handed in may a publish*)
(* keep it; when that publish returns, the consumer goes on to its end     *)
(* (_consumer, close, LoopRunner.stop).                                    *)
ConsumerEnds == closed ~> Ended \/ Stranded \/ (external /\ Publishing)

(* No record is left in the inbox by a consumer that waits, although nobody*)
(* logs again: it goes on to publish, or ends (_consumer: the wait for the *)
(* event times out). Whether a publish() returns is the broker's affair.   *)
InboxIsServed == inbox # << >> ~> Publishing \/ Ended \/ Stranded

-----------------------------------------------------------------------------
(* The module's docstring on flush_sync(): "callers see a true barrier that*)
(* only fires once all currently-queued records are on the wire".          *)
FlushIsBarrier ==
    \A u \in Users : call[u] = "flush" /\ pc[u] = "returned" /\ ~trouble =>
        \A i \in 1..before[u] : Contains(sent, accepted[i])
=============================================================================
