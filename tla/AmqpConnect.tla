----------------------------- MODULE AmqpConnect -----------------------------
(***************************************************************************)
(* The life of an AMQPAsyncHandler from its constructor on. The thread     *)
(* that builds it submits two coroutines to the loop, one that connects and*)
(* one that makes the events and the consumer task, and waits for each of  *)
(* them for so long. The loop is the handler's own (a script); or one that *)
(* is running, handed in by another thread; or, as make_amqp_handler() does*)
(* whenever it finds one, the loop of the very thread that builds it.      *)
(***************************************************************************)
EXTENDS AmqpAsync

VARIABLES
    caller,     \* who builds the handler, see Callers
    stage,      \* where the constructor is, or how it ended
    dial,       \* the coroutine that connects
    setup       \* the coroutine that makes the consumer task

buildVars   == <<caller, stage, dial, setup>>
connectVars == <<asyncVars, buildVars>>

Callers == {"script", "otherThread", "loopThread"}
Coroutines == {"none", "scheduled", "done", "failed"}
UnderWay == {"choose", "start", "connect", "connecting", "setup", "settingUp"}
Outcomes == {"built", "disabled", "raised"}

ConnectInit ==
    /\ Unused
    /\ external = FALSE
    /\ connOpen = FALSE
    /\ caller \in Callers
    /\ running = (caller # "script")
    /\ stage = "choose"
    /\ dial = "none"
    /\ setup = "none"

(* The loop is there, and its thread is not waiting in the constructor.    *)
LoopRuns == running /\ ~(external /\ caller = "loopThread" /\ stage \in UnderWay)

(* The constructor raises. build_handlers() catches what the handler's     *)
(* choice raises: the pipeline goes on without AMQP, if fail_open is on.   *)
Fails == stage' = IF failOpen /\ caller # "otherThread" THEN "disabled" ELSE "raised"

-----------------------------------------------------------------------------
(* The settings are validated, and a running loop is attached to.          *)
ChooseLoop ==
    /\ stage = "choose"
    /\ external' = (caller # "script")
    /\ \/ stage' = IF caller = "script" THEN "start" ELSE "connect"
       \/ Fails
    /\ UNCHANGED <<failOpen, batchVars, lifeVars, userVars, emitted, trouble, pc, caller,
                   dial, setup>>

(* LoopRunner.start(): the thread reports that it runs, within 2 s.        *)
StartLoop ==
    /\ stage = "start"
    /\ \/ running' = TRUE /\ stage' = "connect"
       \/ UNCHANGED running /\ Fails
    /\ UNCHANGED <<config, batchVars, closing, closed, connOpen, late, atClose, userVars,
                   emitted, trouble, pc, caller, dial, setup>>

(* aio_pika is imported, if it is there, and a coroutine is submitted, if  *)
(* the loop is not closed.                                                 *)
Connect ==
    /\ stage = "connect"
    /\ \/ running /\ dial' = "scheduled" /\ stage' = "connecting"
       \/ UNCHANGED dial /\ Fails
    /\ UNCHANGED <<asyncVars, caller, setup>>

(* The coroutine connects or fails, also when nobody waits for it any more.*)
Dial ==
    /\ dial = "scheduled"
    /\ LoopRuns
    /\ \/ dial' = "done" /\ connOpen' = TRUE
       \/ dial' = "failed" /\ UNCHANGED connOpen
    /\ UNCHANGED <<config, batchVars, closing, closed, running, late, atClose, userVars,
                   emitted, trouble, pc, caller, stage, setup>>

(* The result is waited for without a timeout.                             *)
Bug_Connected ==
    /\ stage = "connecting"
    /\ \/ dial = "done" /\ stage' = "setup"
       \/ dial = "failed" /\ Fails
    /\ UNCHANGED <<asyncVars, caller, dial, setup>>

(* The result comes, or connect_timeout_s is over before it.               *)
Connected ==
    /\ stage = "connecting"
    /\ \/ dial = "done" /\ stage' = "setup"
       \/ dial # "done" /\ Fails
    /\ UNCHANGED <<asyncVars, caller, dial, setup>>

Bootstrap ==
    /\ stage = "setup"
    /\ \/ running /\ setup' = "scheduled" /\ stage' = "settingUp"
       \/ ~running /\ UNCHANGED setup /\ Fails
    /\ UNCHANGED <<asyncVars, caller, dial>>

(* The events and the consumer task are made.                              *)
RunSetup ==
    /\ setup = "scheduled"
    /\ LoopRuns
    /\ setup' = "done"
    /\ UNCHANGED <<asyncVars, caller, stage, dial>>

(* A wait that was given up is not reported, as in close().                *)
Bug_SetUp ==
    /\ stage = "settingUp"
    /\ stage' = "built"
    /\ UNCHANGED <<asyncVars, caller, dial, setup>>

(* The handler is built, or 2 s are over before it.                        *)
SetUp ==
    /\ stage = "settingUp"
    /\ IF setup = "done" THEN stage' = "built" ELSE Fails
    /\ UNCHANGED <<asyncVars, caller, dial, setup>>

(* The program ends its loop while another thread builds the handler.      *)
LoopEndsEarly ==
    /\ stage \in UnderWay
    /\ external
    /\ LoopRuns
    /\ running' = FALSE
    /\ trouble' = TRUE
    /\ dial' = IF dial = "scheduled" THEN "failed" ELSE dial
    /\ setup' = IF setup = "scheduled" THEN "failed" ELSE setup
    /\ IF setup = "done" THEN Cancelled ELSE UNCHANGED batchVars
    /\ UNCHANGED <<config, closing, closed, connOpen, late, atClose, userVars, emitted, pc,
                   caller, stage>>

BuilderSteps == ChooseLoop \/ StartLoop \/ Connect \/ Connected \/ Bootstrap \/ SetUp

(* From then on it is the handler of AmqpAsync.                            *)
Built(A) == stage = "built" /\ A /\ UNCHANGED buildVars

ConnectNext == \/ BuilderSteps
               \/ Dial
               \/ RunSetup
               \/ LoopEndsEarly
               \/ Built(AsyncNext)

ConnectSpec == ConnectInit /\ [][ConnectNext]_connectVars

(* The thread that builds and the callers go on, and their waits come to   *)
(* their end. The loop's thread wakes up the consumer, whose wait has a    *)
(* timeout, and stops when it is told to. No broker has to answer: of the  *)
(* publish() that the consumer awaits nothing is assumed.                  *)
FairConnectSpec == /\ ConnectSpec
                   /\ WF_connectVars(BuilderSteps)
                   /\ WF_connectVars(Built(Cycle))
                   /\ WF_connectVars(Built(Halt))
                   /\ \A u \in Users : WF_connectVars(Built(UserSteps(u)))
-----------------------------------------------------------------------------
(* Type correctness of the constructor's variables and the handler's.      *)
ConnectTypeOK ==
    /\ TypeOK
    /\ caller \in Callers
    /\ stage \in UnderWay \cup Outcomes
    /\ dial \in Coroutines
    /\ setup \in Coroutines

(* A handler comes out of the constructor only with its consumer task made *)
(* on a connection that was opened, whatever was given up or came late     *)
(* (_connect, _bootstrap_async_state).                                     *)
BuiltIsReady == stage = "built" => dial = "done" /\ setup = "done"

Waiting == stage \in UnderWay \/ \E u \in Users : InCall(u)

(* Nobody waits for ever: the constructor ends, also where its coroutines  *)
(* cannot run, and so do the calls of flush_sync() and close(), although   *)
(* the consumer may have ended, the loop be closed or its thread be the    *)
(* caller's.                                                               *)
CallsReturn == Waiting ~> ~Waiting
=============================================================================
