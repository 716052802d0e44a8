-------------------------- MODULE AmqpConnectProofs --------------------------
(***************************************************************************)
(* The life of an AMQPAsyncHandler, for any threads and any number of      *)
(* records: what the constructor returns is ready, the records reach the   *)
(* broker in the order of the inbox, close() delivers them and leaves no   *)
(* coroutine behind, and flush_sync() waits for them where it can.         *)
(***************************************************************************)
EXTENDS AmqpConnect, SeqLemmas

(* Past each wait, its coroutine has run to its end. On the loop's thread  *)
(* no coroutine runs before the constructor has given up, so the first     *)
(* wait is never passed.                                                   *)
BuildInv ==
    /\ stage \in {"setup", "settingUp", "built"} => dial = "done"
    /\ stage = "built" => setup = "done"
    /\ caller = "loopThread" =>
          /\ stage \notin {"start", "setup", "settingUp", "built"}
          /\ stage \in {"connect", "connecting"} => external /\ dial # "done"
          /\ stage = "choose" => dial = "none"

LEMMA BuildInvInit == ConnectInit => BuildInv
  BY DEF ConnectInit, BuildInv

LEMMA BuildInvStep == BuildInv /\ [ConnectNext]_connectVars => BuildInv'
<1> SUFFICES ASSUME BuildInv, [ConnectNext]_connectVars
             PROVE  BuildInv'
  OBVIOUS
<1> USE DEF BuildInv
<1>1. CASE UNCHANGED connectVars
  BY <1>1 DEF connectVars, asyncVars, config, buildVars
<1>2. CASE ChooseLoop
  BY <1>2 DEF ChooseLoop, Fails
<1>3. CASE StartLoop
  BY <1>3 DEF StartLoop, Fails, config
<1>4. CASE Connect
  BY <1>4 DEF Connect, Fails, asyncVars, config
<1>5. CASE Dial
  BY <1>5 DEF Dial, LoopRuns, UnderWay, config
<1>6. CASE Connected
  BY <1>6 DEF Connected, Fails, asyncVars, config
<1>7. CASE Bootstrap
  BY <1>7 DEF Bootstrap, Fails, asyncVars, config
<1>8. CASE RunSetup
  BY <1>8 DEF RunSetup, asyncVars, config
<1>9. CASE SetUp
  BY <1>9 DEF SetUp, Fails, asyncVars, config
<1>10. CASE LoopEndsEarly
  BY <1>10 DEF LoopEndsEarly, LoopRuns, config
<1>11. CASE Built(AsyncNext)
  BY <1>11 DEF Built, buildVars
<1> QED
  BY <1>1, <1>2, <1>3, <1>4, <1>5, <1>6, <1>7, <1>8, <1>9, <1>10, <1>11
     DEF ConnectNext, BuilderSteps

(* A constructor that returns has opened a connection and made the consumer*)
(* task, whatever was given up or came late (_connect,                     *)
(* _bootstrap_async_state).                                                *)
THEOREM ConstructorIsSound == ConnectSpec => []BuiltIsReady
<1>1. BuildInv => BuiltIsReady
  BY DEF BuildInv, BuiltIsReady
<1> QED
  BY <1>1, BuildInvInit, BuildInvStep, PTL DEF ConnectSpec

(***************************************************************************)
(* The types, with where each thread can be. While the handler is being    *)
(* built nobody uses it, and its loop, if it is its own, runs.             *)
(***************************************************************************)
ThreadInv ==
    /\ \A t \in Emitters :
          /\ pc[t] \in EmitterPCs
          /\ emitted[t] <= MaxEmits[t]
          /\ pc[t] = "put" => emitted[t] >= 1
    /\ \A u \in Users :
          /\ pc[u] \in UserPCs
          /\ pc[u] \in {"flush", "kick", "await"} => call[u] = "flush"
          /\ pc[u] \in {"close", "set", "join", "conn", "stop", "cancel", "finish"} =>
                call[u] = "close"
          /\ pc[u] \in {"stop", "cancel"} => ~external

FreshInv ==
    /\ stage # "built" =>
          /\ \A t \in Threads : pc[t] = "idle"
          /\ ~closing /\ ~closed /\ atClose = 0 /\ late = {}
          /\ inbox = << >> /\ buffer = << >> /\ accepted = << >> /\ sent = << >> /\ dropped = {}
          /\ consumer = "wait" \/ trouble
          /\ dial = "done" => connOpen
    /\ stage = "choose" => ~external /\ (running <=> caller # "script")
    /\ ~external /\ stage \in {"connect", "connecting", "setup", "settingUp"} => running
    /\ external /\ ~running => trouble

TypeInv == ConnectTypeOK /\ ThreadInv /\ FreshInv /\ BuildInv

(***************************************************************************)
(* The records. Taken of them have left the inbox, Passed have been sent   *)
(* or dropped; the batch is what lies between, and what it has passed.     *)
(***************************************************************************)
Taken  == Len(accepted) - Len(inbox)
Passed == Taken - Len(buffer) + next - 1

AcceptedInv ==
    /\ \A i \in 1..Len(accepted) :
          /\ accepted[i][2] <= emitted[accepted[i][1]]
          /\ pc[accepted[i][1]] = "put" => accepted[i][2] < emitted[accepted[i][1]]
    /\ \A i, j \in 1..Len(accepted) : accepted[i] = accepted[j] => i = j

BatchInv ==
    /\ Taken - Len(buffer) \in Nat
    /\ Taken \in Nat
    /\ \A i \in 1..Len(inbox) : inbox[i] = accepted[Taken + i]
    /\ \A i \in 1..Len(buffer) : buffer[i] = accepted[Taken - Len(buffer) + i]

OrderInv ==
    /\ PartOf(sent, accepted)
    /\ ToSet(sent) \cap dropped = {}
    /\ \A r \in ToSet(sent) \cup dropped : \E b \in 1..Passed : accepted[b] = r
    /\ \A b \in 1..Passed : accepted[b] \in ToSet(sent) \cup dropped

(***************************************************************************)
(* close(). Once one is past the consumer's end, or the connection is      *)
(* closed, what it had to deliver is delivered, or there was trouble.      *)
(***************************************************************************)
AfterJoin == {"conn", "stop", "cancel", "finish"}

PastJoin == \/ closed
            \/ \E u \in Users : pc[u] \in AfterJoin
            \/ stage = "built" /\ ~connOpen
            \/ Ended

Delivered == \A i \in 1..atClose : accepted[i] \in ToSet(sent)

CloseInv ==
    /\ \A u \in Users : pc[u] \in AfterJoin \cup {"join"} => closing
    /\ consumer = "final" => closing /\ atClose <= Taken
    /\ "conn.close" \in late => trouble
    /\ ~trouble /\ PastJoin => closing /\ Delivered
    /\ ~trouble => dropped = {} \/ PastJoin

(***************************************************************************)
(* The handler's own loop is stopped by a close(), under whatever is still *)
(* pending on it. What a close() does once it has stopped waiting for the  *)
(* consumer, and what comes of it, finds the consumer at its end, unless a *)
(* wait was given up.                                                      *)
(***************************************************************************)
Leaving == \/ closed
           \/ \E u \in Users : pc[u] \in AfterJoin
           \/ "cancel" \in late
           \/ "stop" \in late
           \/ consumer \in {"cancelling", "stranded"}

StopInv ==
    /\ Leaving => Ended \/ trouble
    /\ ~external /\ stage = "built" /\ ~running =>
          Ended \/ Stranded \/ "stop" \in late \/ \E u \in Users : pc[u] = "cancel"
    /\ \A u \in Users : pc[u] \in {"cancel", "finish"} /\ ~external => ~running
    /\ closed /\ ~external => ~running

(***************************************************************************)
(* flush_sync() with the consumer waiting at its kick: until the consumer  *)
(* has taken what was in the inbox then, the drained flag stays clear.     *)
(***************************************************************************)
IdleOf(u) ==
    /\ before[u] <= Len(accepted)
    /\ pc[u] = "await" /\ idleAt[u] =>
          /\ drained => before[u] <= Passed
          /\ \/ before[u] <= Taken
             \/ (consumer = "wait" \/ Ended \/ Stranded) /\ ~drained
    /\ call[u] = "flush" /\ pc[u] = "returned" /\ idleAt[u] => before[u] <= Passed

IdleInv == \A u \in Users : IdleOf(u)

(***************************************************************************)
(* Steps. One builds the handler, or one thread, or the loop, moves in a   *)
(* handler that is built.                                                  *)
(***************************************************************************)
BuildStep == BuilderSteps \/ Dial \/ RunSetup
EmitterStep(t) == Emit(t) \/ EmitSteps(t)
UserStep(u) == UserCalls(u) \/ UserSteps(u)

LEMMA NextCases ==
    ASSUME [ConnectNext]_connectVars
    PROVE  \/ UNCHANGED connectVars
           \/ BuildStep
           \/ LoopEndsEarly
           \/ /\ stage = "built" /\ UNCHANGED buildVars
              /\ \/ \E t \in Emitters : EmitterStep(t)
                 \/ ConsumerSteps
                 \/ LoopSteps
                 \/ \E u \in Users : UserStep(u)
  BY DEF ConnectNext, BuildStep, Built, AsyncNext, EmitterStep, UserStep

LEMMA EmittersAndUsers ==
    ASSUME NEW t \in Threads
    PROVE  t \in Emitters <=> t \notin Users
  BY ThreadsAssumption DEF Threads

LEMMA RecordIsPair ==
    /\ \A r \in Records : /\ r[1] \in Emitters /\ r[2] \in Nat
                          /\ r[2] >= 1 /\ r[2] <= MaxEmits[r[1]] /\ r = <<r[1], r[2]>>
    /\ \A t \in Emitters, n \in Nat : n >= 1 /\ n <= MaxEmits[t] => <<t, n>> \in Records
<1>1. ASSUME NEW r \in Records
      PROVE  /\ r[1] \in Emitters /\ r[2] \in Nat
             /\ r[2] >= 1 /\ r[2] <= MaxEmits[r[1]] /\ r = <<r[1], r[2]>>
  <2>1. PICK t \in Emitters : r \in {t} \X (1..MaxEmits[t])
    BY DEF Records
  <2>2. MaxEmits[t] \in Nat
    BY MaxEmitsAssumption
  <2> QED
    BY <2>1, <2>2
<1>2. ASSUME NEW t \in Emitters, NEW n \in Nat, n >= 1, n <= MaxEmits[t]
      PROVE  <<t, n>> \in Records
  <2>1. n \in 1..MaxEmits[t]
    BY <1>2, MaxEmitsAssumption
  <2>2. <<t, n>> \in {t} \X (1..MaxEmits[t])
    BY <2>1
  <2> QED
    BY <2>2 DEF Records
<1> QED
  BY <1>1, <1>2

(* What TypeInv says of the threads, the records and the rest.             *)
ThreadOK ==
    /\ pc \in [Threads -> EmitterPCs \cup UserPCs]
    /\ call \in [Users -> Calls]
    /\ emitted \in [Emitters -> Nat]
    /\ before \in [Users -> Nat]
    /\ idleAt \in [Users -> BOOLEAN]
    /\ ThreadInv

DataOK ==
    /\ inbox \in Seq(Records)
    /\ buffer \in Seq(Records)
    /\ next \in 1..(Len(buffer) + 1)
    /\ consumer \in ConsumerStates
    /\ Publishing => buffer # << >>
    /\ buffer # << >> => Publishing \/ Stranded
    /\ accepted \in Seq(Records)
    /\ sent \in Seq(Records)
    /\ dropped \subseteq Records
    /\ atClose \in 0..Len(accepted)

LifeOK ==
    /\ failOpen \in BOOLEAN /\ external \in BOOLEAN
    /\ drained \in BOOLEAN /\ closing \in BOOLEAN /\ closed \in BOOLEAN
    /\ connOpen \in BOOLEAN /\ running \in BOOLEAN /\ trouble \in BOOLEAN
    /\ late \subseteq {"kick", "conn.close", "cancel", "stop"}

BuildOK ==
    /\ caller \in Callers
    /\ stage \in UnderWay \cup Outcomes
    /\ dial \in Coroutines
    /\ setup \in Coroutines

LEMMA TypeParts == TypeInv <=> ThreadOK /\ DataOK /\ LifeOK /\ BuildOK /\ FreshInv /\ BuildInv
  BY DEF TypeInv, ConnectTypeOK, TypeOK, ThreadOK, DataOK, LifeOK, BuildOK

LEMMA TypePartsNext == TypeInv' <=> ThreadOK' /\ DataOK' /\ LifeOK' /\ BuildOK' /\ FreshInv' /\ BuildInv'
  BY DEF TypeInv, ConnectTypeOK, TypeOK, ThreadOK, DataOK, LifeOK, BuildOK

(***************************************************************************)
(* What each kind of step leaves alone.                                    *)
(***************************************************************************)
LEMMA BuildFrame ==
    ASSUME BuildStep
    PROVE  /\ UNCHANGED <<failOpen, batchVars, closing, closed, late, atClose, userVars,
                          emitted, trouble, pc, caller>>
           /\ TypeInv => /\ external' \in BOOLEAN /\ running' \in BOOLEAN /\ connOpen' \in BOOLEAN
                         /\ stage' \in UnderWay \cup Outcomes
                         /\ dial' \in Coroutines /\ setup' \in Coroutines
<1>1. CASE ChooseLoop
  BY <1>1 DEF ChooseLoop, Fails, lifeVars, TypeInv, ConnectTypeOK, TypeOK, UnderWay, Outcomes
<1>2. CASE StartLoop
  BY <1>2 DEF StartLoop, Fails, config, TypeInv, ConnectTypeOK, TypeOK, UnderWay, Outcomes
<1>3. CASE Connect
  BY <1>3 DEF Connect, Fails, asyncVars, config, lifeVars, TypeInv, ConnectTypeOK, TypeOK,
     UnderWay, Outcomes, Coroutines
<1>4. CASE Connected
  BY <1>4 DEF Connected, Fails, asyncVars, config, lifeVars, TypeInv, ConnectTypeOK, TypeOK,
     UnderWay, Outcomes
<1>5. CASE Bootstrap
  BY <1>5 DEF Bootstrap, Fails, asyncVars, config, lifeVars, TypeInv, ConnectTypeOK, TypeOK,
     UnderWay, Outcomes, Coroutines
<1>6. CASE SetUp
  BY <1>6 DEF SetUp, Fails, asyncVars, config, lifeVars, TypeInv, ConnectTypeOK, TypeOK,
     UnderWay, Outcomes
<1>7. CASE Dial
  BY <1>7 DEF Dial, config, TypeInv, ConnectTypeOK, TypeOK, Coroutines
<1>8. CASE RunSetup
  BY <1>8 DEF RunSetup, asyncVars, config, lifeVars, TypeInv, ConnectTypeOK, TypeOK, Coroutines
<1> QED
  BY <1>1, <1>2, <1>3, <1>4, <1>5, <1>6, <1>7, <1>8 DEF BuildStep, BuilderSteps

LEMMA EmitterFrame ==
    ASSUME NEW t \in Emitters, EmitterStep(t)
    PROVE  /\ UNCHANGED <<config, lifeVars, userVars, trouble, buffer, next, consumer,
                          drained, sent, dropped>>
           /\ \E w \in EmitterPCs : GoTo(t, w)
  BY DEF EmitterStep, EmitSteps, Emit, PutInbox, SeeEvent, CallSoon, EmitterPCs, batchVars

LEMMA ConsumerFrame ==
    ASSUME ConsumerSteps
    PROVE  /\ UNCHANGED <<config, lifeVars, userVars, emitted, pc, accepted>>
           /\ trouble => trouble'
<1>1. trouble' = trouble \/ trouble' = (trouble \/ connOpen)
  BY DEF ConsumerSteps, Cycle, Publish, Published, PublishRaises
<1>2. trouble => trouble'
  BY <1>1
<1> QED
  BY <1>2 DEF ConsumerSteps, Cycle, Publish, Published, PublishRaises

LEMMA LoopFrame ==
    ASSUME LoopSteps
    PROVE  /\ UNCHANGED <<config, accepted, closing, closed, atClose, userVars, emitted, pc>>
           /\ late' \subseteq late
           /\ drained' \in {drained, TRUE, FALSE}
           /\ connOpen' \in {connOpen, FALSE}
           /\ running' \in {running, FALSE}
           /\ trouble' \in {trouble, TRUE}
           /\ UNCHANGED running \/ external
           /\ ~external => UNCHANGED trouble
<1>1. CASE LoopCancels
  BY <1>1 DEF LoopCancels, Cancelled, GoesOn, EndsCancelled, batchVars, lifeVars
<1>2. CASE LoopEnds
  BY <1>2 DEF LoopEnds, batchVars
<1>3. CASE CancelAll
  BY <1>3 DEF CancelAll, Cancelled, GoesOn, EndsCancelled, batchVars
<1>4. CASE Halt
  BY <1>4 DEF Halt
<1>5. ASSUME NEW what \in late, RunLate(what)
      PROVE  /\ UNCHANGED <<config, accepted, closing, closed, atClose, userVars, emitted, pc>>
             /\ late' \subseteq late
             /\ drained' \in {drained, TRUE, FALSE}
             /\ connOpen' \in {connOpen, FALSE}
             /\ UNCHANGED <<running, trouble>>
  <2>1. drained' \in {drained, TRUE, FALSE} /\ connOpen' \in {connOpen, FALSE}
    BY <1>5 DEF RunLate
  <2>4. /\ UNCHANGED <<config, accepted, closing, closed, atClose, userVars, emitted, pc>>
        /\ late' \subseteq late
        /\ UNCHANGED <<running, trouble>>
    BY <1>5 DEF RunLate
  <2> QED
    BY <2>1, <2>4
<1> QED
  BY <1>1, <1>2, <1>3, <1>4, <1>5 DEF LoopSteps

LEMMA UserFrame ==
    ASSUME NEW u \in Users, UserStep(u)
    PROVE  /\ UNCHANGED <<config, emitted, accepted>>
           /\ \E w \in UserPCs : GoTo(u, w)
           /\ UNCHANGED <<inbox, buffer, next, consumer, sent, dropped>>
           /\ trouble => trouble'
<1> USE DEF GoTo, UserPCs, batchVars
<1>1. CASE UserCalls(u) \/ FlushCheck(u) \/ Kick(u) \/ KickFails(u) \/ AwaitDrain(u)
  BY <1>1 DEF UserCalls, FlushCheck, Kick, KickFails, AwaitDrain
<1>2. CASE CloseCheck(u) \/ CloseSet(u) \/ StopLoop(u) \/ CloseFinish(u)
  BY <1>2 DEF CloseCheck, CloseSet, StopLoop, CloseFinish
<1>3. CASE Join(u)
  BY <1>3 DEF Join
<1>4. CASE CloseConn(u)
  <2>1. pc' = [pc EXCEPT ![u] = "finish"] \/ pc' = [pc EXCEPT ![u] = "stop"]
    BY <1>4 DEF CloseConn
  <2>2. \E w \in UserPCs : GoTo(u, w)
    BY <2>1
  <2>3. trouble => trouble'
    BY <1>4 DEF CloseConn
  <2> QED
    BY <1>4, <2>2, <2>3 DEF CloseConn
<1>5. CASE StopAnyway(u)
  BY <1>5 DEF StopAnyway
<1> QED
  BY <1>1, <1>2, <1>3, <1>4, <1>5 DEF UserStep, UserSteps
(***************************************************************************)
(* The threads.                                                            *)
(***************************************************************************)
LEMMA ThreadSame ==
    ASSUME ThreadOK, UNCHANGED <<external, userVars, emitted, pc>>
    PROVE  ThreadOK'
  BY DEF ThreadOK, ThreadInv, userVars

LEMMA ThreadEmit ==
    ASSUME ThreadOK, NEW t \in Emitters, EmitterStep(t)
    PROVE  ThreadOK'
<1>0. /\ t \in Threads /\ t \notin Users /\ emitted[t] \in Nat /\ MaxEmits[t] \in Nat
      /\ pc \in [Threads -> EmitterPCs \cup UserPCs] /\ emitted \in [Emitters -> Nat]
  BY EmittersAndUsers, MaxEmitsAssumption DEF Threads, ThreadOK
<1>1. UNCHANGED <<external, call, before, idleAt>>
  BY EmitterFrame DEF config, userVars
<1>2. PICK w \in EmitterPCs : pc' = [pc EXCEPT ![t] = w]
  BY EmitterFrame DEF GoTo
<1>3. /\ pc' \in [Threads -> EmitterPCs \cup UserPCs]
      /\ pc'[t] = w
      /\ \A x \in Threads : x # t => pc'[x] = pc[x]
  BY <1>0, <1>2
<1>4. \/ UNCHANGED emitted /\ w # "put"
      \/ emitted[t] < MaxEmits[t] /\ emitted' = [emitted EXCEPT ![t] = @ + 1]
  BY <1>0, <1>2, <1>3 DEF EmitterStep, Emit, EmitSteps, PutInbox, SeeEvent, CallSoon, GoTo
<1>5. /\ emitted' \in [Emitters -> Nat]
      /\ \A x \in Emitters : x # t => emitted'[x] = emitted[x]
      /\ emitted'[t] <= MaxEmits[t]
      /\ w = "put" => emitted'[t] >= 1
  <2>1. CASE UNCHANGED emitted /\ w # "put"
    BY <1>0, <2>1 DEF ThreadOK, ThreadInv
  <2>2. CASE emitted[t] < MaxEmits[t] /\ emitted' = [emitted EXCEPT ![t] = @ + 1]
    <3>1. emitted'[t] = emitted[t] + 1 /\ emitted' \in [Emitters -> Nat]
      BY <1>0, <2>2
    <3>2. emitted'[t] <= MaxEmits[t] /\ emitted'[t] >= 1
      BY <1>0, <2>2, <3>1
    <3> QED
      BY <1>0, <2>2, <3>1, <3>2
  <2> QED
    BY <1>4, <2>1, <2>2
<1>6. /\ \A x \in Emitters : x \in Threads
      /\ \A u \in Users : u \in Threads /\ u # t
  BY <1>0 DEF Threads
<1>7. \A x \in Emitters : /\ pc'[x] \in EmitterPCs
                          /\ emitted'[x] <= MaxEmits[x]
                          /\ pc'[x] = "put" => emitted'[x] >= 1
  BY <1>3, <1>5, <1>6 DEF ThreadOK, ThreadInv
<1>8. \A u \in Users : pc'[u] = pc[u]
  BY <1>3, <1>6
<1> QED
  BY <1>1, <1>3, <1>5, <1>7, <1>8 DEF ThreadOK, ThreadInv

(* Where a step takes the user that makes it.                              *)
LEMMA UserMoves ==
    ASSUME TypeInv, NEW u \in Users, UserStep(u)
    PROVE  /\ pc'[u] \in UserPCs
           /\ pc'[u] \in {"flush", "kick", "await"} => call'[u] = "flush"
           /\ pc'[u] \in {"close", "set", "join", "conn", "stop", "cancel", "finish"} =>
                 call'[u] = "close"
           /\ pc'[u] \in {"stop", "cancel"} => ~external
           /\ call' \in [Users -> Calls]
           /\ before' \in [Users -> Nat]
           /\ idleAt' \in [Users -> BOOLEAN]
           /\ \A x \in Users : x # u =>
                 call'[x] = call[x] /\ before'[x] = before[x] /\ idleAt'[x] = idleAt[x]
<1>0. /\ pc \in [Threads -> EmitterPCs \cup UserPCs] /\ u \in Threads
      /\ call \in [Users -> Calls] /\ before \in [Users -> Nat] /\ idleAt \in [Users -> BOOLEAN]
      /\ pc[u] \in {"flush", "kick", "await"} => call[u] = "flush"
      /\ pc[u] \in {"close", "set", "join", "conn", "stop", "cancel", "finish"} =>
            call[u] = "close"
      /\ pc[u] \in {"stop", "cancel"} => ~external
      /\ Len(accepted) \in Nat
  BY TypeParts DEF ThreadOK, ThreadInv, DataOK, Threads
<1>1. CASE UserCalls(u)
  <2>1. PICK c \in {"flush", "close"} :
            /\ call' = [call EXCEPT ![u] = c]
            /\ before' = [before EXCEPT ![u] = IF c = "flush" THEN Len(accepted) ELSE 0]
            /\ pc' = [pc EXCEPT ![u] = c]
            /\ UNCHANGED idleAt
    BY <1>1 DEF UserCalls, GoTo
  <2>2. c \in Calls /\ c \in UserPCs /\ pc'[u] = c /\ call'[u] = c
    BY <1>0, <2>1 DEF Calls, UserPCs
  <2>3. (IF c = "flush" THEN Len(accepted) ELSE 0) \in Nat
    BY <1>0
  <2> QED
    BY <1>0, <2>1, <2>2, <2>3
<1>2. CASE Kick(u)
  <2>1. /\ pc[u] = "kick" /\ pc' = [pc EXCEPT ![u] = "await"]
        /\ idleAt' = [idleAt EXCEPT ![u] = (consumer = "wait")]
        /\ UNCHANGED <<call, before>>
    BY <1>2 DEF Kick, GoTo
  <2> QED
    BY <1>0, <2>1 DEF UserPCs
<1>3. CASE FlushCheck(u) \/ KickFails(u) \/ AwaitDrain(u)
  <2>1. UNCHANGED <<call, before, idleAt>> /\ pc[u] \in {"flush", "kick", "await"}
    BY <1>3 DEF FlushCheck, KickFails, AwaitDrain, userVars
  <2>2. pc'[u] \in {"kick", "returned", "gaveUp"}
    BY <1>0, <1>3 DEF FlushCheck, KickFails, AwaitDrain, GoTo
  <2> QED
    BY <1>0, <2>1, <2>2 DEF UserPCs
<1>4. CASE CloseCheck(u) \/ CloseSet(u) \/ Join(u) \/ CloseConn(u) \/ StopLoop(u)
           \/ StopAnyway(u) \/ CloseFinish(u)
  <2>1. /\ UNCHANGED <<call, before, idleAt>>
        /\ pc[u] \in {"close", "set", "join", "conn", "stop", "cancel", "finish"}
    BY <1>4 DEF CloseCheck, CloseSet, Join, CloseConn, StopLoop, StopAnyway, CloseFinish,
       userVars
  <2>2. /\ pc'[u] \in {"set", "join", "conn", "stop", "cancel", "finish", "returned", "raised"}
        /\ pc'[u] = "stop" => ~external
        /\ pc'[u] = "cancel" => pc[u] = "stop"
    <3>1. CASE CloseCheck(u)
      BY <1>0, <3>1 DEF CloseCheck, GoTo
    <3>2. CASE CloseSet(u)
      BY <1>0, <3>2 DEF CloseSet, GoTo
    <3>3. CASE Join(u)
      BY <1>0, <3>3 DEF Join, GoTo
    <3>4. CASE CloseConn(u)
      BY <1>0, <3>4 DEF CloseConn, GoTo
    <3>5. CASE StopLoop(u)
      BY <1>0, <3>5 DEF StopLoop, GoTo
    <3>6. CASE StopAnyway(u) \/ CloseFinish(u)
      BY <1>0, <3>6 DEF StopAnyway, CloseFinish, GoTo
    <3> QED
      BY <1>4, <3>1, <3>2, <3>3, <3>4, <3>5, <3>6
  <2> QED
    BY <1>0, <2>1, <2>2 DEF UserPCs
<1> QED
  BY <1>1, <1>2, <1>3, <1>4 DEF UserStep, UserSteps

(* Only the thread that steps moves.                                       *)
LEMMA OthersStay ==
    ASSUME TypeInv, NEW t \in Threads, NEW x \in Threads, x # t, NEW w, GoTo(t, w)
    PROVE  pc'[x] = pc[x]
  BY TypeParts DEF GoTo, ThreadOK

LEMMA ThreadUser ==
    ASSUME TypeInv, NEW u \in Users, UserStep(u)
    PROVE  ThreadOK'
<1>0. /\ u \in Threads /\ u \notin Emitters
      /\ \A x \in Emitters : x \in Threads /\ x # u
      /\ \A x \in Users : x \in Threads
  BY EmittersAndUsers DEF Threads
<1>1. UNCHANGED <<external, emitted>>
  BY UserFrame DEF config
<1>2. PICK w \in UserPCs : GoTo(u, w)
  BY UserFrame
<1>3. pc' \in [Threads -> EmitterPCs \cup UserPCs] /\ \A x \in Threads : x # u => pc'[x] = pc[x]
  BY <1>0, <1>2, TypeParts, OthersStay DEF GoTo, ThreadOK
<1>4. ThreadOK
  BY TypeParts
<1>5. \A x \in Emitters : pc'[x] = pc[x]
  BY <1>0, <1>3
<1>6. ASSUME NEW x \in Users
      PROVE  /\ pc'[x] \in UserPCs
             /\ pc'[x] \in {"flush", "kick", "await"} => call'[x] = "flush"
             /\ pc'[x] \in {"close", "set", "join", "conn", "stop", "cancel", "finish"} =>
                   call'[x] = "close"
             /\ pc'[x] \in {"stop", "cancel"} => ~external
  <2>1. CASE x = u
    BY <2>1, UserMoves
  <2>2. CASE x # u
    <3>1. pc'[x] = pc[x] /\ call'[x] = call[x]
      BY <1>0, <1>3, <2>2, UserMoves
    <3> QED
      BY <1>4, <3>1 DEF ThreadOK, ThreadInv
  <2> QED
    BY <2>1, <2>2
<1> QED
  BY <1>1, <1>3, <1>4, <1>5, <1>6, UserMoves DEF ThreadOK, ThreadInv
LEMMA ThreadBuild ==
    ASSUME TypeInv, BuildStep
    PROVE  ThreadOK'
<1>1. UNCHANGED <<userVars, emitted, pc>>
  BY BuildFrame
<1>2. ThreadOK /\ FreshInv
  BY TypeParts
<1>3. CASE UNCHANGED external
  BY <1>1, <1>2, <1>3, ThreadSame
<1>4. CASE ChooseLoop
  <2>1. \A u \in Users : pc[u] = "idle"
    BY <1>2, <1>4 DEF ChooseLoop, FreshInv, Threads
  <2> QED
    BY <1>1, <1>2, <2>1 DEF ThreadOK, ThreadInv, userVars
<1> QED
  BY <1>3, <1>4 DEF BuildStep, BuilderSteps, StartLoop, Connect, Connected, Bootstrap, SetUp,
     Dial, RunSetup, asyncVars, config

(***************************************************************************)
(* The records: what a step does to the inbox, the batch and the histories.*)
(***************************************************************************)
Quiet == UNCHANGED <<inbox, buffer, next, consumer, accepted, sent, dropped>>

Puts(t) == /\ pc[t] = "put"
           /\ inbox' = Append(inbox, <<t, emitted[t]>>)
           /\ accepted' = Append(accepted, <<t, emitted[t]>>)
           /\ UNCHANGED <<buffer, next, consumer, drained, sent, dropped, emitted, atClose>>

Sends == /\ Publishing
         /\ next <= Len(buffer)
         /\ sent' = Append(sent, buffer[next])
         /\ next' = next + 1
         /\ UNCHANGED <<inbox, buffer, consumer, drained, accepted, dropped, atClose>>

(* The batch is over, or given up, and the next one may be taken.          *)
Ends == /\ ~Ended /\ ~Stranded
        /\ dropped' = dropped \cup Rest
        /\ next' = 1
        /\ \/ /\ buffer' = << >> /\ UNCHANGED inbox
              /\ consumer' \in {"done", "dead", "wait", "cancelled"}
           \/ /\ inbox # << >> /\ buffer' = inbox /\ inbox' = << >>
              /\ consumer' \in {"publish", "final", "cancelling"}
        /\ UNCHANGED <<accepted, sent, atClose>>

(* The loop stops under the consumer.                                      *)
Strands == /\ ~Ended
           /\ consumer' = "stranded"
           /\ UNCHANGED <<inbox, buffer, next, drained, accepted, sent, dropped, atClose>>

(* Rest is empty where the batch has been published, and where there is    *)
(* none.                                                                   *)
LEMMA NothingRests ==
    ASSUME TypeInv
    PROVE  /\ next \in Nat /\ next >= 1 /\ next <= Len(buffer) + 1 /\ Len(buffer) \in Nat
           /\ next > Len(buffer) => Rest = {} /\ dropped \cup Rest = dropped
           /\ ~Publishing /\ ~Stranded => buffer = << >> /\ next = 1 /\ Len(buffer) = 0
<1>1. /\ next \in Nat /\ next >= 1 /\ next <= Len(buffer) + 1 /\ Len(buffer) \in Nat
      /\ ~Publishing /\ ~Stranded => buffer = << >>
  BY TypeParts DEF DataOK
<1>2. ~Publishing /\ ~Stranded => next = 1 /\ Len(buffer) = 0
  BY <1>1
<1>3. ASSUME next > Len(buffer)
      PROVE  Rest = {}
  <2>1. next..Len(buffer) = {}
    BY <1>1, <1>3
  <2> QED
    BY <2>1 DEF Rest
<1> QED
  BY <1>1, <1>2, <1>3

LEMMA GoesOnEnds ==
    ASSUME GoesOn, consumer \in {"wait", "publish", "final"}, next' = 1,
           dropped' = dropped \cup Rest, UNCHANGED <<accepted, sent, atClose>>
    PROVE  Ends
<1> USE DEF Ends, Ended, Stranded
<1>1. CASE closed
  BY <1>1 DEF GoesOn
<1>2. CASE ~closed /\ closing /\ consumer # "final" /\ inbox # << >>
  BY <1>2 DEF GoesOn
<1>3. CASE ~closed /\ ~(closing /\ consumer # "final" /\ inbox # << >>)
  <2>1. (IF closing THEN "done" ELSE "wait") \in {"done", "dead", "wait", "cancelled"}
    OBVIOUS
  <2> QED
    BY <1>3, <2>1 DEF GoesOn
<1> QED
  BY <1>1, <1>2, <1>3

LEMMA CancelledKinds ==
    ASSUME TypeInv, Cancelled, UNCHANGED atClose
    PROVE  Quiet \/ Ends
<1>1. CASE Ended /\ UNCHANGED batchVars
  BY <1>1 DEF Quiet, batchVars
<1>2. CASE consumer = "wait" /\ GoesOn /\ UNCHANGED <<next, accepted, sent, dropped>>
  <2>1. ~Publishing /\ ~Stranded
    BY <1>2 DEF Publishing, Stranded
  <2>2. next' = 1 /\ dropped' = dropped \cup Rest
    BY <1>2, <2>1, NothingRests
  <2> QED
    BY <1>2, <2>2, GoesOnEnds
<1>3. CASE /\ consumer \in {"publish", "final"} \/ (consumer = "wait" /\ ~closed)
           /\ dropped' = dropped \cup Rest
           /\ next' = 1
           /\ IF inbox # << >>
              THEN consumer' = "cancelling" /\ buffer' = inbox /\ inbox' = << >>
                   /\ UNCHANGED drained
              ELSE EndsCancelled
           /\ UNCHANGED <<accepted, sent>>
  BY <1>3 DEF Ends, Ended, Stranded, EndsCancelled
<1> QED
  BY <1>1, <1>2, <1>3 DEF Cancelled

LEMMA LoopKinds ==
    ASSUME TypeInv, LoopSteps
    PROVE  Quiet \/ Ends \/ Strands
<1>0. UNCHANGED atClose
  BY LoopFrame
<1>1. CASE LoopCancels \/ CancelAll
  BY <1>0, <1>1, CancelledKinds DEF LoopCancels, CancelAll
<1>2. CASE LoopEnds \/ \E what \in late : RunLate(what)
  BY <1>2 DEF LoopEnds, RunLate, Quiet, batchVars
<1>3. CASE Halt
  BY <1>3 DEF Halt, Quiet, Strands
<1> QED
  BY <1>1, <1>2, <1>3 DEF LoopSteps

LEMMA ConsumerKinds ==
    ASSUME TypeInv, ConsumerSteps
    PROVE  Sends \/ Ends
<1>0. UNCHANGED <<accepted, atClose>>
  BY ConsumerFrame DEF lifeVars
<1>1. CASE Cycle
  <2>1. consumer = "wait" /\ UNCHANGED <<next, accepted, sent, dropped>>
    BY <1>1 DEF Cycle
  <2>2. ~Publishing /\ ~Ended /\ ~Stranded
    BY <2>1 DEF Publishing, Ended, Stranded
  <2>3. next' = 1 /\ dropped' = dropped \cup Rest
    BY <2>1, <2>2, NothingRests
  <2>4. CASE GoesOn
    BY <1>0, <2>1, <2>3, <2>4, GoesOnEnds
  <2>5. CASE inbox # << >> /\ buffer' = inbox /\ inbox' = << >> /\ consumer' = "publish"
    BY <1>0, <2>1, <2>2, <2>3, <2>5 DEF Ends
  <2> QED
    BY <1>1, <2>4, <2>5 DEF Cycle
<1>2. CASE Publish
  BY <1>0, <1>2 DEF Publish, Sends
<1>3. CASE Published \/ PublishRaises
  <2>1. /\ Publishing /\ next' = 1 /\ UNCHANGED <<accepted, sent>>
        /\ \/ consumer = "cancelling" /\ EndsCancelled
           \/ consumer # "cancelling" /\ GoesOn
           \/ buffer' = << >> /\ consumer' = "dead" /\ UNCHANGED inbox
    BY <1>3 DEF Published, PublishRaises
  <2>2. dropped' = dropped \cup Rest
    BY <1>3, NothingRests DEF Published, PublishRaises
  <2>3. CASE consumer # "cancelling" /\ GoesOn
    BY <1>0, <2>1, <2>2, <2>3, GoesOnEnds DEF Publishing
  <2>4. CASE \/ consumer = "cancelling" /\ EndsCancelled
             \/ buffer' = << >> /\ consumer' = "dead" /\ UNCHANGED inbox
    BY <1>0, <2>1, <2>2, <2>4 DEF Ends, Publishing, Ended, Stranded, EndsCancelled
  <2> QED
    BY <2>1, <2>3, <2>4
<1> QED
  BY <1>1, <1>2, <1>3 DEF ConsumerSteps

LEMMA DataKinds ==
    ASSUME TypeInv, [ConnectNext]_connectVars
    PROVE  \/ Quiet \/ Sends \/ Ends \/ Strands
           \/ \E t \in Emitters : EmitterStep(t) /\ Puts(t)
<1>1. CASE UNCHANGED connectVars
  BY <1>1 DEF connectVars, asyncVars, batchVars, Quiet
<1>2. CASE BuildStep
  BY <1>2, BuildFrame DEF batchVars, Quiet
<1>3. CASE LoopEndsEarly
  <2>1. UNCHANGED atClose /\ (Cancelled \/ UNCHANGED batchVars)
    BY <1>3 DEF LoopEndsEarly
  <2> QED
    BY <2>1, CancelledKinds DEF batchVars, Quiet
<1>4. ASSUME NEW t \in Emitters, EmitterStep(t)
      PROVE  Quiet \/ (EmitterStep(t) /\ Puts(t))
  BY <1>4 DEF EmitterStep, EmitSteps, Emit, PutInbox, SeeEvent, CallSoon, Quiet, Puts,
     batchVars, lifeVars
<1>5. ASSUME NEW u \in Users, UserStep(u)
      PROVE  Quiet
  BY <1>5, UserFrame DEF Quiet
<1> QED
  BY <1>1, <1>2, <1>3, <1>4, <1>5, ConsumerKinds, LoopKinds, NextCases

LEMMA RecordPut ==
    ASSUME TypeInv, NEW t \in Emitters, Puts(t)
    PROVE  <<t, emitted[t]>> \in Records /\ emitted[t] \in Nat
<1>1. emitted[t] \in Nat /\ emitted[t] >= 1 /\ emitted[t] <= MaxEmits[t]
  BY TypeParts DEF ThreadOK, ThreadInv, Puts
<1> QED
  BY <1>1, RecordIsPair

(* atClose changes only in close(), to the number of records then.         *)
LEMMA CloseHistory ==
    ASSUME TypeInv, [ConnectNext]_connectVars, ~UNCHANGED atClose
    PROVE  /\ \E u \in Users : UserStep(u) /\ CloseSet(u) /\ ~closing
           /\ atClose' = Len(accepted) /\ Quiet
<1>1. \A u \in Users : UserStep(u) => UNCHANGED atClose \/ CloseSet(u)
  BY DEF UserStep, UserSteps, UserCalls, FlushCheck, Kick, KickFails, AwaitDrain, CloseCheck,
     Join, CloseConn, StopLoop, StopAnyway, CloseFinish, lifeVars
<1>2. ~ \E t \in Emitters : EmitterStep(t)
  BY EmitterFrame DEF lifeVars
<1>3. ~LoopSteps
  BY LoopFrame
<1>4. \E u \in Users : UserStep(u) /\ CloseSet(u)
  BY <1>1, <1>2, <1>3, NextCases, BuildFrame, ConsumerFrame
     DEF connectVars, asyncVars, lifeVars, LoopEndsEarly
<1> QED
  BY <1>4 DEF CloseSet, Quiet, batchVars

LEMMA DataStep ==
    ASSUME TypeInv, [ConnectNext]_connectVars
    PROVE  DataOK'
<1>0. /\ inbox \in Seq(Records) /\ buffer \in Seq(Records) /\ accepted \in Seq(Records)
      /\ sent \in Seq(Records) /\ dropped \subseteq Records
      /\ consumer \in ConsumerStates /\ (Publishing => buffer # << >>)
      /\ (buffer # << >> => Publishing \/ Stranded)
      /\ atClose \in 0..Len(accepted) /\ Len(accepted) \in Nat /\ DataOK
  BY TypeParts DEF DataOK
<1>e. << >> \in Seq(Records) /\ Len(<< >>) = 0 /\ 1 \in 1..(0 + 1)
  OBVIOUS
<1>1. CASE Quiet
  <2>1. atClose' \in 0..Len(accepted)
    BY <1>0, CloseHistory
  <2> QED
    BY <1>0, <1>1, <2>1 DEF Quiet, DataOK, Publishing, Stranded
<1>2. CASE Sends
  <2>1. buffer[next] \in Records /\ next' \in 1..(Len(buffer) + 1)
    BY <1>0, <1>2, NothingRests DEF Sends
  <2>2. sent' \in Seq(Records)
    BY <1>0, <1>2, <2>1 DEF Sends
  <2> QED
    BY <1>0, <1>2, <2>1, <2>2 DEF Sends, DataOK, Publishing, Stranded
<1>r. Rest \subseteq Records
  BY <1>0, NothingRests DEF Rest
<1>3. CASE Ends
  <2>1. /\ dropped' \subseteq Records /\ next' = 1 /\ UNCHANGED <<accepted, sent, atClose>>
    BY <1>0, <1>3, <1>r DEF Ends
  <2>2. CASE /\ buffer' = << >> /\ UNCHANGED inbox
             /\ consumer' \in {"done", "dead", "wait", "cancelled"}
    BY <1>0, <1>e, <2>1, <2>2 DEF DataOK, Publishing, Stranded, ConsumerStates
  <2>3. CASE /\ inbox # << >> /\ buffer' = inbox /\ inbox' = << >>
             /\ consumer' \in {"publish", "final", "cancelling"}
    <3>1. 1 \in 1..(Len(inbox) + 1)
      BY <1>0
    <3> QED
      BY <1>0, <1>e, <2>1, <2>3, <3>1 DEF DataOK, Publishing, Stranded, ConsumerStates
  <2> QED
    BY <1>3, <2>2, <2>3 DEF Ends
<1>4. CASE Strands
  BY <1>0, <1>4 DEF Strands, DataOK, Publishing, Stranded, ConsumerStates
<1>5. ASSUME NEW t \in Emitters, Puts(t)
      PROVE  DataOK'
  <2> DEFINE r == <<t, emitted[t]>>
  <2>1. r \in Records
    BY <1>5, RecordPut
  <2>2. /\ inbox' = Append(inbox, r) /\ accepted' = Append(accepted, r)
        /\ UNCHANGED <<buffer, next, consumer, sent, dropped, atClose>>
    BY <1>5 DEF Puts
  <2> HIDE DEF r
  <2>3. /\ inbox' \in Seq(Records) /\ accepted' \in Seq(Records)
        /\ Len(accepted') = Len(accepted) + 1
    BY <1>0, <2>1, <2>2
  <2>4. atClose' \in 0..Len(accepted')
    BY <1>0, <2>2, <2>3
  <2> QED
    BY <1>0, <2>2, <2>3, <2>4 DEF DataOK, Publishing, Stranded
<1> QED
  BY <1>1, <1>2, <1>3, <1>4, <1>5, DataKinds
(***************************************************************************)
(* The flags.                                                              *)
(***************************************************************************)
LEMMA CancelledDrained ==
    ASSUME Cancelled
    PROVE  drained' \in {drained, TRUE, FALSE}
<1>1. drained' \in {drained, TRUE} \/ drained' = (drained \/ ~closed)
  BY DEF Cancelled, GoesOn, EndsCancelled, batchVars
<1> QED
  BY <1>1

LEMMA ConsumerDrained ==
    ASSUME ConsumerSteps
    PROVE  /\ drained' \in {drained, TRUE, FALSE}
           /\ trouble' \in {trouble, trouble \/ connOpen}
<1>1. drained' \in {drained, TRUE} \/ drained' = (drained \/ ~closed)
  BY DEF ConsumerSteps, Cycle, Publish, Published, PublishRaises, GoesOn, EndsCancelled
<1>2. trouble' \in {trouble, trouble \/ connOpen}
  BY DEF ConsumerSteps, Cycle, Publish, Published, PublishRaises
<1> QED
  BY <1>1, <1>2

LEMMA LifeUser ==
    ASSUME LifeOK, NEW u \in Users, UserStep(u)
    PROVE  LifeOK'
<1> USE DEF LifeOK
<1>1. CASE UserCalls(u) \/ FlushCheck(u) \/ AwaitDrain(u) \/ CloseCheck(u)
  BY <1>1 DEF UserCalls, FlushCheck, AwaitDrain, CloseCheck, config, batchVars, lifeVars
<1>2. CASE Kick(u)
  BY <1>2 DEF Kick, config, lifeVars
<1>3. CASE KickFails(u)
  BY <1>3 DEF KickFails, config, batchVars
<1>4. CASE CloseSet(u) \/ CloseFinish(u)
  BY <1>4 DEF CloseSet, CloseFinish, config, batchVars
<1>5. CASE Join(u)
  <2>1. trouble' = trouble \/ trouble' = TRUE
    BY <1>5 DEF Join
  <2> QED
    BY <1>5, <2>1 DEF Join, config, batchVars, lifeVars
<1>6. CASE CloseConn(u)
  <2>1. /\ trouble' = trouble \/ trouble' = TRUE
        /\ connOpen' = connOpen \/ connOpen' = FALSE
        /\ late' = late \/ late' = late \cup {"conn.close"}
    BY <1>6 DEF CloseConn
  <2> QED
    BY <1>6, <2>1 DEF CloseConn, config, batchVars
<1>7. CASE StopLoop(u) \/ StopAnyway(u)
  <2>1. /\ late' = late \/ late' = late \cup {"cancel"} \/ late' = late \cup {"stop"}
        /\ running' \in {running, FALSE}
    BY <1>7 DEF StopLoop, StopAnyway
  <2> QED
    BY <1>7, <2>1 DEF StopLoop, StopAnyway, config, batchVars
<1> QED
  BY <1>1, <1>2, <1>3, <1>4, <1>5, <1>6, <1>7 DEF UserStep, UserSteps

LEMMA LifeStep ==
    ASSUME TypeInv, [ConnectNext]_connectVars
    PROVE  LifeOK'
<1>0. LifeOK
  BY TypeParts
<1>1. CASE UNCHANGED connectVars
  BY <1>0, <1>1 DEF LifeOK, connectVars, asyncVars, config, batchVars, lifeVars
<1>2. CASE BuildStep
  BY <1>0, <1>2, BuildFrame DEF LifeOK, batchVars
<1>3. CASE LoopEndsEarly
  <2>1. drained' \in {drained, TRUE, FALSE}
    BY <1>3, CancelledDrained DEF LoopEndsEarly, batchVars
  <2> QED
    BY <1>0, <1>3, <2>1 DEF LifeOK, LoopEndsEarly, config
<1>4. ASSUME NEW t \in Emitters, EmitterStep(t)
      PROVE  LifeOK'
  BY <1>0, <1>4, EmitterFrame DEF LifeOK, config, lifeVars
<1>5. CASE ConsumerSteps
  <2>1. trouble' \in BOOLEAN /\ drained' \in BOOLEAN
    BY <1>0, <1>5, ConsumerDrained DEF LifeOK
  <2> QED
    BY <1>0, <1>5, <2>1, ConsumerFrame DEF LifeOK, config, lifeVars
<1>6. CASE LoopSteps
  BY <1>0, <1>6, LoopFrame DEF LifeOK, config
<1>8. ASSUME NEW u \in Users, UserStep(u)
      PROVE  LifeOK'
  BY <1>0, <1>8, LifeUser
<1> QED
  BY <1>1, <1>2, <1>3, <1>4, <1>5, <1>6, <1>8, NextCases

LEMMA BuildOKStep ==
    ASSUME TypeInv, [ConnectNext]_connectVars
    PROVE  BuildOK'
<1>0. BuildOK
  BY TypeParts
<1>1. CASE UNCHANGED connectVars \/ UNCHANGED buildVars
  BY <1>0, <1>1 DEF BuildOK, connectVars, buildVars
<1>2. CASE BuildStep
  BY <1>0, <1>2, BuildFrame DEF BuildOK
<1>3. CASE LoopEndsEarly
  <2>1. dial' \in {dial, "failed"} /\ setup' \in {setup, "failed"} /\ UNCHANGED <<caller, stage>>
    BY <1>3 DEF LoopEndsEarly
  <2> QED
    BY <1>0, <2>1 DEF BuildOK, Coroutines
<1> QED
  BY <1>1, <1>2, <1>3, NextCases

(***************************************************************************)
(* The constructor.                                                        *)
(***************************************************************************)
LEMMA FreshBuild ==
    ASSUME TypeInv, BuildStep
    PROVE  FreshInv'
<1>0. FreshInv /\ BuildInv /\ caller \in Callers /\ running \in BOOLEAN /\ external \in BOOLEAN
  BY TypeParts DEF BuildOK, LifeOK
<1>1. UNCHANGED <<inbox, buffer, consumer, accepted, sent, dropped, closing, closed, late,
                  atClose, trouble, pc, caller>>
  BY BuildFrame DEF batchVars
<1>2. stage # "built"
  BY <1>0 DEF BuildStep, BuilderSteps, ChooseLoop, StartLoop, Connect, Connected,
     Bootstrap, SetUp, Dial, RunSetup, BuildInv
<1>3. /\ \A t \in Threads : pc'[t] = "idle"
      /\ ~closing' /\ ~closed' /\ atClose' = 0 /\ late' = {}
      /\ inbox' = << >> /\ buffer' = << >> /\ accepted' = << >> /\ sent' = << >> /\ dropped' = {}
      /\ consumer' = "wait" \/ trouble'
  BY <1>0, <1>1, <1>2 DEF FreshInv
<1>4. /\ dial' = "done" => connOpen'
      /\ stage' = "choose" => ~external' /\ (running' <=> caller' # "script")
      /\ ~external' /\ stage' \in {"connect", "connecting", "setup", "settingUp"} => running'
      /\ external' /\ ~running' => trouble'
  <2> USE <1>0, <1>1, <1>2 DEF FreshInv
  <2>1. CASE ChooseLoop
    <3>1. /\ stage = "choose" /\ external' = (caller # "script")
          /\ UNCHANGED <<running, connOpen, dial>>
          /\ stage' = (IF caller = "script" THEN "start" ELSE "connect")
             \/ stage' \in {"disabled", "raised"}
      BY <2>1 DEF ChooseLoop, Fails, lifeVars
    <3> QED
      BY <3>1
  <2>2. CASE StartLoop
    BY <2>2 DEF StartLoop, Fails, config
  <2>3. CASE Connect
    BY <2>3 DEF Connect, Fails, asyncVars, config, lifeVars
  <2>4. CASE Connected
    BY <2>4 DEF Connected, Fails, asyncVars, config, lifeVars
  <2>5. CASE Bootstrap
    BY <2>5 DEF Bootstrap, Fails, asyncVars, config, lifeVars
  <2>6. CASE SetUp
    BY <2>6 DEF SetUp, Fails, asyncVars, config, lifeVars
  <2>7. CASE Dial
    BY <2>7 DEF Dial, config
  <2>8. CASE RunSetup
    BY <2>8 DEF RunSetup, asyncVars, config, lifeVars
  <2> QED
    BY <2>1, <2>2, <2>3, <2>4, <2>5, <2>6, <2>7, <2>8 DEF BuildStep, BuilderSteps
<1> QED
  BY <1>3, <1>4 DEF FreshInv

LEMMA FreshLoopEnds ==
    ASSUME TypeInv, LoopEndsEarly
    PROVE  FreshInv'
<1>0. FreshInv /\ external \in BOOLEAN
  BY TypeParts DEF LifeOK
<1>1. /\ stage \in UnderWay /\ external /\ external' = external /\ stage' = stage
      /\ stage # "built" /\ trouble' = TRUE
      /\ UNCHANGED <<closing, closed, late, atClose, pc, connOpen>>
      /\ dial' = "done" => dial = "done"
  BY DEF LoopEndsEarly, config, UnderWay
<1>2. inbox' = << >> /\ buffer' = << >> /\ accepted' = << >> /\ sent' = << >> /\ dropped' = {}
  <2>1. inbox = << >> /\ buffer = << >> /\ accepted = << >> /\ sent = << >> /\ dropped = {}
    BY <1>0, <1>1 DEF FreshInv
  <2>2. CASE UNCHANGED batchVars
    BY <2>1, <2>2 DEF batchVars
  <2>3. CASE Cancelled
    <3>0. Quiet \/ Ends
      BY <1>1, <2>3, CancelledKinds
    <3>1. CASE Quiet
      BY <2>1, <3>1 DEF Quiet
    <3>2. Rest = {} /\ dropped \cup Rest = {}
      <4>1. Len(buffer) = 0
        BY <2>1
      <4> QED
        BY <2>1, <4>1, NothingRests
    <3>3. CASE Ends
      BY <2>1, <3>2, <3>3 DEF Ends
    <3> QED
      BY <3>0, <3>1, <3>3
  <2> QED
    BY <2>2, <2>3 DEF LoopEndsEarly
<1> QED
  BY <1>0, <1>1, <1>2 DEF FreshInv

LEMMA FreshStep ==
    ASSUME TypeInv, [ConnectNext]_connectVars
    PROVE  FreshInv'
<1>0. FreshInv /\ ThreadInv /\ LifeOK
  BY TypeParts DEF ThreadOK
<1>1. CASE UNCHANGED connectVars
  BY <1>0, <1>1 DEF FreshInv, connectVars, buildVars, asyncVars, config, batchVars, lifeVars
<1>2. CASE stage = "built" /\ UNCHANGED <<stage, external>> /\ (UNCHANGED running \/ ~external)
           /\ (trouble => trouble')
  BY <1>0, <1>2 DEF FreshInv
<1>3. ASSUME NEW t \in Emitters, EmitterStep(t)
      PROVE  UNCHANGED <<external, running, trouble>>
  BY <1>3, EmitterFrame DEF config, lifeVars
<1>5. CASE LoopSteps /\ stage = "built" /\ UNCHANGED buildVars
  <2>1. UNCHANGED <<stage, external>>
    BY <1>5, LoopFrame DEF buildVars, config
  <2>2. CASE UNCHANGED running
    BY <1>2, <1>5, <2>1, <2>2, LoopFrame
  <2>3. CASE LoopEnds
    BY <1>5, <2>1, <2>3 DEF LoopEnds, FreshInv
  <2> QED
    BY <1>5, <2>2, <2>3 DEF LoopSteps, LoopCancels, CancelAll, Halt, RunLate, lifeVars
<1>7. ASSUME NEW u \in Users, UserStep(u)
      PROVE  UNCHANGED external /\ (UNCHANGED running \/ ~external) /\ (trouble => trouble')
  <2>1. UNCHANGED external /\ (trouble => trouble')
    BY <1>7, UserFrame DEF config
  <2>2. CASE StopLoop(u)
    BY <1>0, <2>1, <2>2 DEF StopLoop, ThreadInv
  <2>3. CASE ~StopLoop(u)
    BY <1>7, <2>1, <2>3 DEF UserStep, UserSteps, UserCalls, FlushCheck, Kick, KickFails,
       AwaitDrain, CloseCheck, CloseSet, Join, CloseConn, StopAnyway, CloseFinish, lifeVars
  <2> QED
    BY <2>2, <2>3
<1>8. CASE /\ stage = "built" /\ UNCHANGED buildVars
           /\ \/ \E t \in Emitters : EmitterStep(t)
              \/ ConsumerSteps
              \/ \E u \in Users : UserStep(u)
  <2>1. UNCHANGED external /\ (UNCHANGED running \/ ~external) /\ (trouble => trouble')
    BY <1>3, <1>7, <1>8, ConsumerFrame DEF config, lifeVars
  <2> QED
    BY <1>2, <1>8, <2>1 DEF buildVars
<1> QED
  BY <1>1, <1>5, <1>8, NextCases, FreshBuild, FreshLoopEnds

LEMMA TypeInit == ConnectInit => TypeInv
<1> SUFFICES ASSUME ConnectInit PROVE TypeInv
  OBVIOUS
<1>e. << >> \in Seq(Records) /\ Len(<< >>) = 0 /\ 1 \in 1..(0 + 1) /\ 0 \in 0..0
  OBVIOUS
<1>1. DataOK
  BY <1>e DEF ConnectInit, Unused, DataOK, Publishing, Stranded, ConsumerStates
<1>2. ThreadOK
  <2>1. \A t \in Emitters : 0 <= MaxEmits[t]
    BY MaxEmitsAssumption
  <2> QED
    BY <2>1 DEF ConnectInit, Unused, ThreadOK, ThreadInv, Threads, EmitterPCs, UserPCs, Calls
<1>3. LifeOK
  BY DEF ConnectInit, Unused, LifeOK
<1>4. BuildOK
  BY DEF ConnectInit, Unused, BuildOK, UnderWay, Coroutines
<1>5. FreshInv
  BY DEF ConnectInit, Unused, FreshInv
<1> QED
  BY <1>1, <1>2, <1>3, <1>4, <1>5, BuildInvInit, TypeParts

LEMMA TypeStep ==
    ASSUME TypeInv, [ConnectNext]_connectVars
    PROVE  TypeInv'
<1>0. ThreadOK /\ BuildInv
  BY TypeParts
<1>1. ThreadOK'
  <2>1. CASE UNCHANGED connectVars
    BY <1>0, <2>1, ThreadSame DEF connectVars, asyncVars, config
  <2>2. CASE LoopEndsEarly \/ ConsumerSteps
    BY <1>0, <2>2, ThreadSame, ConsumerFrame DEF LoopEndsEarly, config
  <2>3. CASE LoopSteps
    BY <1>0, <2>3, ThreadSame, LoopFrame DEF config
  <2> QED
    BY <1>0, <2>1, <2>2, <2>3, ThreadBuild, ThreadEmit, ThreadUser, NextCases
<1>2. BuildInv'
  BY <1>0, BuildInvStep
<1> QED
  BY <1>1, <1>2, DataStep, LifeStep, BuildOKStep, FreshStep, TypePartsNext

(* The inductive invariant of the types and the constructor's stages.      *)
THEOREM TypeInvariance == ConnectSpec => []TypeInv
<1>1. TypeInv /\ [ConnectNext]_connectVars => TypeInv'
  BY TypeStep
<1> QED
  BY <1>1, TypeInit, PTL DEF ConnectSpec

(* Type correctness of the handler and its constructor; the consumer has a *)
(* batch exactly while it publishes (_consumer).                           *)
THEOREM TypeCorrect == ConnectSpec => []ConnectTypeOK
<1>1. TypeInv => ConnectTypeOK
  BY DEF TypeInv
<1> QED
  BY <1>1, TypeInvariance, PTL
(***************************************************************************)
(* The records are distinct, and the inbox and the batch hold the last ones*)
(* accepted.                                                               *)
(***************************************************************************)
LEMMA EmitterLocal ==
    ASSUME TypeInv, [ConnectNext]_connectVars, NEW x \in Emitters
    PROVE  /\ emitted[x] \in Nat /\ emitted'[x] \in {emitted[x], emitted[x] + 1}
           /\ pc'[x] = "put" => pc[x] = "put" \/ emitted'[x] = emitted[x] + 1
<1>0. /\ emitted \in [Emitters -> Nat] /\ emitted[x] \in Nat
      /\ pc \in [Threads -> EmitterPCs \cup UserPCs] /\ x \in Threads /\ x \notin Users
  BY TypeParts, EmittersAndUsers DEF ThreadOK, Threads
<1>1. CASE UNCHANGED <<emitted, pc>>
  BY <1>0, <1>1
<1>2. ASSUME NEW t \in Emitters, EmitterStep(t)
      PROVE  /\ emitted'[x] \in {emitted[x], emitted[x] + 1}
             /\ pc'[x] = "put" => pc[x] = "put" \/ emitted'[x] = emitted[x] + 1
  <2>0. t \in Threads
    BY DEF Threads
  <2>1. CASE t # x
    <3>1. pc'[x] = pc[x]
      BY <1>0, <1>2, <2>0, <2>1, EmitterFrame, OthersStay
    <3>2. emitted'[x] = emitted[x]
      BY <1>0, <1>2, <2>1 DEF EmitterStep, Emit, EmitSteps, PutInbox, SeeEvent, CallSoon
    <3> QED
      BY <3>1, <3>2
  <2>2. CASE t = x /\ Emit(t)
    BY <1>0, <2>2 DEF Emit
  <2>3. CASE t = x /\ EmitSteps(t)
    BY <1>0, <2>3 DEF EmitSteps, PutInbox, SeeEvent, CallSoon, GoTo
  <2> QED
    BY <1>2, <2>1, <2>2, <2>3 DEF EmitterStep
<1>3. ASSUME NEW u \in Users, UserStep(u)
      PROVE  emitted' = emitted /\ pc'[x] = pc[x]
  <2>1. u \in Threads /\ u # x
    BY <1>0 DEF Threads
  <2> QED
    BY <1>0, <1>3, <2>1, UserFrame, OthersStay
<1>4. \/ UNCHANGED <<emitted, pc>> \/ (\E t \in Emitters : EmitterStep(t))
      \/ (\E u \in Users : UserStep(u))
  BY NextCases, BuildFrame, ConsumerFrame, LoopFrame
     DEF connectVars, asyncVars, LoopEndsEarly
<1> QED
  BY <1>0, <1>1, <1>2, <1>3, <1>4

LEMMA AcceptedStep ==
    ASSUME TypeInv, AcceptedInv, [ConnectNext]_connectVars
    PROVE  AcceptedInv'
<1>0. accepted \in Seq(Records)
  BY TypeParts DEF DataOK
<1>1. ASSUME NEW i \in 1..Len(accepted)
      PROVE  /\ accepted[i][2] <= emitted'[accepted[i][1]]
             /\ pc'[accepted[i][1]] = "put" => accepted[i][2] < emitted'[accepted[i][1]]
  <2> DEFINE x == accepted[i][1]
             n == accepted[i][2]
  <2>1. x \in Emitters /\ n \in Nat
    BY <1>0, RecordIsPair
  <2>2. n <= emitted[x] /\ (pc[x] = "put" => n < emitted[x])
    BY DEF AcceptedInv
  <2> HIDE DEF x, n
  <2>3. /\ emitted[x] \in Nat /\ emitted'[x] \in {emitted[x], emitted[x] + 1}
        /\ pc'[x] = "put" => pc[x] = "put" \/ emitted'[x] = emitted[x] + 1
    BY <2>1, EmitterLocal
  <2>4. n <= emitted'[x] /\ (pc'[x] = "put" => n < emitted'[x])
    BY <2>1, <2>2, <2>3
  <2> QED
    BY <2>4 DEF x, n
<1>2. CASE UNCHANGED accepted
  BY <1>1, <1>2 DEF AcceptedInv
<1>3. ASSUME NEW t \in Emitters, EmitterStep(t), Puts(t)
      PROVE  AcceptedInv'
  <2> DEFINE r == <<t, emitted[t]>>
  <2>1. r \in Records /\ emitted[t] \in Nat
    BY <1>3, RecordPut
  <2>2. /\ accepted' = Append(accepted, r) /\ UNCHANGED emitted /\ pc[t] = "put"
    BY <1>3 DEF Puts
  <2>3. pc'[t] # "put"
    <3>1. t \in Threads /\ pc \in [Threads -> EmitterPCs \cup UserPCs]
      BY TypeParts DEF ThreadOK, Threads
    <3> QED
      BY <1>3, <2>2, <3>1 DEF EmitterStep, Emit, EmitSteps, PutInbox, SeeEvent, CallSoon, GoTo
  <2>4. r[1] = t /\ r[2] = emitted[t]
    OBVIOUS
  <2> HIDE DEF r
  <2>5. /\ Len(accepted') = Len(accepted) + 1 /\ Len(accepted) \in Nat
        /\ accepted'[Len(accepted) + 1] = r
        /\ \A i \in 1..Len(accepted) : accepted'[i] = accepted[i]
        /\ \A i \in 1..Len(accepted') : i = Len(accepted) + 1 \/ i \in 1..Len(accepted)
    BY <1>0, <2>1, <2>2
  <2>6. ASSUME NEW i \in 1..Len(accepted)
        PROVE  accepted[i] # r
    <3>1. accepted[i][1] = t => accepted[i][2] < emitted[t]
      BY <2>2 DEF AcceptedInv
    <3>2. accepted[i][2] \in Nat
      BY <1>0, RecordIsPair
    <3> QED
      BY <2>1, <2>4, <3>1, <3>2
  <2>7. ASSUME NEW i \in 1..Len(accepted')
        PROVE  /\ accepted'[i][2] <= emitted'[accepted'[i][1]]
               /\ pc'[accepted'[i][1]] = "put" => accepted'[i][2] < emitted'[accepted'[i][1]]
    <3>1. CASE i = Len(accepted) + 1
      BY <2>1, <2>2, <2>3, <2>4, <2>5, <3>1
    <3>2. CASE i # Len(accepted) + 1
      BY <1>1, <2>5, <3>2
    <3> QED
      BY <3>1, <3>2
  <2>8. ASSUME NEW i \in 1..Len(accepted'), NEW j \in 1..Len(accepted'),
               accepted'[i] = accepted'[j]
        PROVE  i = j
    BY <2>5, <2>6, <2>8 DEF AcceptedInv
  <2> QED
    BY <2>7, <2>8 DEF AcceptedInv
<1> QED
  BY <1>2, <1>3, DataKinds DEF Quiet, Sends, Ends, Strands

LEMMA Counts ==
    ASSUME TypeInv, BatchInv
    PROVE  /\ Len(accepted) \in Nat /\ Len(inbox) \in Nat /\ Len(buffer) \in Nat
           /\ Taken \in Nat /\ Passed \in Nat
           /\ Len(accepted) = Taken + Len(inbox)
           /\ Passed = Taken - Len(buffer) + next - 1
           /\ Passed <= Taken /\ Taken <= Len(accepted)
<1>1. /\ Len(accepted) \in Nat /\ Len(inbox) \in Nat /\ Len(buffer) \in Nat
      /\ next \in Nat /\ next >= 1 /\ next <= Len(buffer) + 1
      /\ Taken \in Nat /\ Taken - Len(buffer) \in Nat
  BY TypeParts DEF DataOK, BatchInv
<1>2. Len(accepted) = Taken + Len(inbox) /\ Taken <= Len(accepted)
  BY <1>1 DEF Taken
<1>3. Passed = Taken - Len(buffer) + next - 1
  BY DEF Passed
<1> QED
  BY <1>1, <1>2, <1>3

(* What each kind of step does to the counts.                              *)
LEMMA CountsStep ==
    ASSUME TypeInv, BatchInv, [ConnectNext]_connectVars
    PROVE  /\ Quiet \/ Strands => UNCHANGED <<Taken, Passed>>
           /\ Sends => Taken' = Taken /\ Passed' = Passed + 1
           /\ Ends => /\ Passed' = Taken
                      /\ Taken' = IF inbox' = inbox THEN Taken ELSE Len(accepted)
           /\ \A t \in Emitters : Puts(t) => UNCHANGED <<Taken, Passed>>
<1>0. /\ inbox \in Seq(Records) /\ buffer \in Seq(Records) /\ accepted \in Seq(Records)
      /\ Len(inbox) \in Nat /\ Len(buffer) \in Nat /\ Len(accepted) \in Nat
      /\ next \in Nat
  BY TypeParts DEF DataOK
<1>e. Len(<< >>) = 0
  OBVIOUS
<1>1. Quiet \/ Strands => UNCHANGED <<Taken, Passed>>
  BY DEF Quiet, Strands, Taken, Passed
<1>2. ASSUME Sends
      PROVE  Taken' = Taken /\ Passed' = Passed + 1
  <2>1. next' = next + 1 /\ UNCHANGED <<inbox, buffer, accepted>>
    BY <1>2 DEF Sends
  <2> QED
    BY <1>0, <2>1 DEF Taken, Passed
<1>3. ASSUME Ends
      PROVE  Passed' = Taken /\ Taken' = IF inbox' = inbox THEN Taken ELSE Len(accepted)
  <2>1. next' = 1 /\ UNCHANGED accepted
    BY <1>3 DEF Ends
  <2>2. CASE buffer' = << >> /\ UNCHANGED inbox
    <3>1. Len(buffer') = 0 /\ Len(inbox') = Len(inbox)
      BY <1>e, <2>2
    <3> QED
      BY <1>0, <2>1, <2>2, <3>1 DEF Taken, Passed
  <2>3. CASE inbox # << >> /\ buffer' = inbox /\ inbox' = << >>
    <3>1. Len(buffer') = Len(inbox) /\ Len(inbox') = 0 /\ inbox' # inbox
      BY <1>e, <2>3
    <3>2. Taken' = Len(accepted)
      BY <1>0, <2>1, <3>1 DEF Taken
    <3>3. Passed' = Len(accepted) - Len(inbox)
      BY <1>0, <2>1, <3>1, <3>2 DEF Passed
    <3> QED
      BY <3>1, <3>2, <3>3 DEF Taken
  <2> QED
    BY <1>3, <2>2, <2>3 DEF Ends
<1>5. ASSUME NEW t \in Emitters, Puts(t)
      PROVE  UNCHANGED <<Taken, Passed>>
  <2>1. /\ <<t, emitted[t]>> \in Records
        /\ inbox' = Append(inbox, <<t, emitted[t]>>)
        /\ accepted' = Append(accepted, <<t, emitted[t]>>)
        /\ UNCHANGED <<buffer, next>>
    BY <1>5, RecordPut DEF Puts
  <2>2. Len(inbox') = Len(inbox) + 1 /\ Len(accepted') = Len(accepted) + 1
    BY <1>0, <2>1
  <2> QED
    BY <1>0, <2>1, <2>2 DEF Taken, Passed
<1> QED
  BY <1>1, <1>2, <1>3, <1>5

LEMMA BatchStep ==
    ASSUME TypeInv, BatchInv, [ConnectNext]_connectVars
    PROVE  BatchInv'
<1>0. /\ inbox \in Seq(Records) /\ buffer \in Seq(Records) /\ accepted \in Seq(Records)
      /\ Len(inbox) \in Nat /\ Len(buffer) \in Nat /\ Len(accepted) \in Nat
      /\ Taken \in Nat /\ Taken - Len(buffer) \in Nat /\ Len(accepted) = Taken + Len(inbox)
  BY TypeParts, Counts DEF DataOK, BatchInv
<1>e. Len(<< >>) = 0 /\ 1..0 = {}
  OBVIOUS
<1>1. CASE Quiet \/ Sends \/ Strands
  BY <1>1 DEF Quiet, Sends, Strands, BatchInv, Taken
<1>2. CASE Ends
  <2>1. CASE buffer' = << >> /\ UNCHANGED <<inbox, accepted>>
    <3>1. Taken' = Taken /\ Len(buffer') = 0
      BY <1>e, <2>1 DEF Taken
    <3>2. 1..Len(buffer') = {} /\ Taken' - Len(buffer') \in Nat
      BY <1>0, <3>1
    <3> QED
      BY <1>0, <2>1, <3>1, <3>2 DEF BatchInv
  <2>2. CASE buffer' = inbox /\ inbox' = << >> /\ UNCHANGED accepted
    <3>1. Len(inbox') = 0 /\ Len(buffer') = Len(inbox)
      BY <1>e, <2>2
    <3>2. Taken' = Len(accepted) /\ Taken' - Len(buffer') = Taken /\ 1..Len(inbox') = {}
      BY <1>0, <2>2, <3>1 DEF Taken
    <3> QED
      BY <1>0, <2>2, <3>1, <3>2 DEF BatchInv
  <2> QED
    BY <1>2, <2>1, <2>2 DEF Ends
<1>4. ASSUME NEW t \in Emitters, Puts(t)
      PROVE  BatchInv'
  <2> DEFINE r == <<t, emitted[t]>>
  <2>1. r \in Records /\ Taken' = Taken
    BY <1>4, RecordPut, CountsStep
  <2>2. inbox' = Append(inbox, r) /\ accepted' = Append(accepted, r) /\ UNCHANGED buffer
    BY <1>4 DEF Puts
  <2> HIDE DEF r
  <2>3. /\ Len(inbox') = Len(inbox) + 1 /\ Len(accepted') = Len(accepted) + 1
        /\ inbox'[Len(inbox) + 1] = r /\ accepted'[Len(accepted) + 1] = r
        /\ \A i \in 1..Len(inbox) : inbox'[i] = inbox[i]
        /\ \A i \in 1..Len(accepted) : accepted'[i] = accepted[i]
    <3>1. /\ Len(Append(inbox, r)) = Len(inbox) + 1
          /\ Append(inbox, r)[Len(inbox) + 1] = r
          /\ \A i \in 1..Len(inbox) : Append(inbox, r)[i] = inbox[i]
      BY <1>0, <2>1, AppendProperties
    <3>2. /\ Len(Append(accepted, r)) = Len(accepted) + 1
          /\ Append(accepted, r)[Len(accepted) + 1] = r
          /\ \A i \in 1..Len(accepted) : Append(accepted, r)[i] = accepted[i]
      BY <1>0, <2>1, AppendProperties
    <3> QED
      BY <2>2, <3>1, <3>2
  <2>4. ASSUME NEW i \in 1..Len(inbox')
        PROVE  inbox'[i] = accepted'[Taken + i]
    <3>1. CASE i = Len(inbox) + 1
      <4>1. Taken + i = Len(accepted) + 1
        BY <1>0, <3>1
      <4> QED
        BY <2>3, <3>1, <4>1
    <3>2. CASE i # Len(inbox) + 1
      <4>1. i \in 1..Len(inbox) /\ Taken + i \in 1..Len(accepted)
        BY <1>0, <2>3, <3>2
      <4> QED
        BY <2>3, <4>1 DEF BatchInv
    <3> QED
      BY <3>1, <3>2
  <2>5. ASSUME NEW i \in 1..Len(buffer)
        PROVE  buffer[i] = accepted'[Taken - Len(buffer) + i]
    <3>1. Taken - Len(buffer) + i \in 1..Len(accepted)
      BY <1>0
    <3>2. buffer[i] = accepted[Taken - Len(buffer) + i]
      BY DEF BatchInv
    <3> QED
      BY <2>3, <3>1, <3>2
  <2> QED
    BY <1>0, <2>1, <2>2, <2>4, <2>5 DEF BatchInv
<1> QED
  BY <1>1, <1>2, <1>4, DataKinds

RecordsInv == AcceptedInv /\ BatchInv

(* Where the records in the inbox and the batch stand among those accepted.*)
THEOREM RecordsInvariance == ConnectSpec => []RecordsInv
<1>1. ConnectInit => RecordsInv
  <2> SUFFICES ASSUME ConnectInit PROVE RecordsInv
    OBVIOUS
  <2>1. accepted = << >> /\ inbox = << >> /\ buffer = << >> /\ Len(<< >>) = 0 /\ 1..0 = {}
    BY DEF ConnectInit, Unused
  <2> QED
    BY <2>1 DEF RecordsInv, AcceptedInv, BatchInv, Taken
<1>2. TypeInv /\ RecordsInv /\ [ConnectNext]_connectVars => RecordsInv'
  BY AcceptedStep, BatchStep DEF RecordsInv
<1> QED
  BY <1>1, <1>2, TypeInvariance, PTL DEF ConnectSpec
(***************************************************************************)
(* The broker's side: the order of what was sent, and what was dropped.    *)
(***************************************************************************)
(* Where the records that are still to be sent were accepted.              *)
LEMMA WhereRecordsAre ==
    ASSUME TypeInv, RecordsInv
    PROVE  /\ \A i \in 1..Len(inbox) :
                 Taken + i \in 1..Len(accepted) /\ inbox[i] = accepted[Taken + i]
           /\ \A i \in next..Len(buffer) :
                 /\ Passed + 1 + i - next \in (Passed + 1)..Taken
                 /\ buffer[i] = accepted[Passed + 1 + i - next]
           /\ \A x : x \in Rest <=> \E b \in (Passed + 1)..Taken : accepted[b] = x
           /\ \A a, b \in 1..Len(accepted) : accepted[a] = accepted[b] => a = b
<1>0. /\ Len(accepted) \in Nat /\ Len(inbox) \in Nat /\ Len(buffer) \in Nat
      /\ Taken \in Nat /\ Passed \in Nat /\ Len(accepted) = Taken + Len(inbox)
      /\ Passed = Taken - Len(buffer) + next - 1
      /\ next \in Nat /\ next >= 1 /\ next <= Len(buffer) + 1
  BY Counts, NothingRests DEF RecordsInv
<1>1. ASSUME NEW i \in 1..Len(inbox)
      PROVE  Taken + i \in 1..Len(accepted) /\ inbox[i] = accepted[Taken + i]
  BY <1>0 DEF RecordsInv, BatchInv
<1>2. ASSUME NEW i \in next..Len(buffer)
      PROVE  /\ Passed + 1 + i - next \in (Passed + 1)..Taken
             /\ buffer[i] = accepted[Passed + 1 + i - next]
  <2>1. i \in 1..Len(buffer) /\ Passed + 1 + i - next = Taken - Len(buffer) + i
    BY <1>0
  <2>2. buffer[i] = accepted[Taken - Len(buffer) + i]
    BY <2>1 DEF RecordsInv, BatchInv
  <2>3. Passed + 1 + i - next \in (Passed + 1)..Taken
    BY <1>0
  <2> QED
    BY <2>1, <2>2, <2>3
<1>3. ASSUME NEW x, NEW b \in (Passed + 1)..Taken, accepted[b] = x
      PROVE  x \in Rest
  <2>1. b - Passed - 1 + next \in next..Len(buffer)
        /\ Passed + 1 + (b - Passed - 1 + next) - next = b
    BY <1>0
  <2>2. buffer[b - Passed - 1 + next] = accepted[b]
    BY <1>2, <2>1
  <2> QED
    BY <1>3, <2>1, <2>2 DEF Rest
<1>4. ASSUME NEW x \in Rest
      PROVE  \E b \in (Passed + 1)..Taken : accepted[b] = x
  BY <1>2 DEF Rest
<1>5. \A x : x \in Rest <=> \E b \in (Passed + 1)..Taken : accepted[b] = x
  BY <1>3, <1>4
<1> QED
  BY <1>1, <1>2, <1>5 DEF RecordsInv, AcceptedInv

(* Nothing that is still to be sent has been sent or dropped.              *)
LEMMA PassedOnly ==
    ASSUME TypeInv, RecordsInv, OrderInv, NEW b \in 1..Len(accepted), b > Passed
    PROVE  accepted[b] \notin ToSet(sent) /\ accepted[b] \notin dropped
<1>1. ASSUME accepted[b] \in ToSet(sent) \cup dropped
      PROVE  FALSE
  <2>1. PICK c \in 1..Passed : accepted[c] = accepted[b]
    BY <1>1 DEF OrderInv
  <2>2. c \in 1..Len(accepted) /\ c # b
    BY Counts DEF RecordsInv
  <2> QED
    BY <2>1, <2>2, WhereRecordsAre
<1> QED
  BY <1>1

LEMMA OrderSends ==
    ASSUME TypeInv, RecordsInv, OrderInv, [ConnectNext]_connectVars, Sends
    PROVE  OrderInv'
<1> DEFINE c == Passed + 1
<1>0. /\ sent \in Seq(Records) /\ accepted \in Seq(Records)
      /\ Passed \in Nat /\ Passed' = c /\ c \in Nat /\ Passed < c /\ c - 1 = Passed
  <2>1. sent \in Seq(Records) /\ accepted \in Seq(Records)
    BY TypeParts DEF DataOK
  <2>2. Passed \in Nat
    BY Counts DEF RecordsInv
  <2>3. Passed' = Passed + 1
    BY CountsStep DEF RecordsInv
  <2> QED
    BY <2>1, <2>2, <2>3
<1>1. /\ next <= Len(buffer) /\ sent' = Append(sent, buffer[next])
      /\ UNCHANGED <<accepted, dropped>>
  BY DEF Sends
<1>2. buffer[next] = accepted[c] /\ c \in 1..Len(accepted)
  <2>1. next \in next..Len(buffer) /\ Passed + 1 + next - next = c
    BY <1>0, <1>1, NothingRests
  <2>2. c \in (Passed + 1)..Taken /\ buffer[next] = accepted[c]
    BY <2>1, WhereRecordsAre
  <2> QED
    BY <2>2, Counts DEF RecordsInv
<1>3. accepted[c] \in Records /\ sent' = Append(sent, accepted[c])
  BY <1>0, <1>1, <1>2
<1> HIDE DEF c
<1>4. accepted[c] \notin ToSet(sent) /\ accepted[c] \notin dropped
  BY <1>0, <1>2, PassedOnly
<1>5. \A x : x \in ToSet(sent') <=> x \in ToSet(sent) \/ x = accepted[c]
  <2>1. /\ Len(sent') = Len(sent) + 1 /\ Len(sent) \in Nat /\ sent'[Len(sent) + 1] = accepted[c]
        /\ \A j \in 1..Len(sent) : sent'[j] = sent[j] /\ j \in 1..Len(sent')
        /\ \A j \in 1..Len(sent') : j = Len(sent) + 1 \/ j \in 1..Len(sent)
        /\ Len(sent) + 1 \in 1..Len(sent')
        /\ sent' \in Seq(Records)
    BY <1>0, <1>3
  <2>2. ASSUME NEW x \in ToSet(sent')
        PROVE  x \in ToSet(sent) \/ x = accepted[c]
    BY <1>0, <2>1, ToSetFacts
  <2>3. ASSUME NEW x, x \in ToSet(sent) \/ x = accepted[c]
        PROVE  x \in ToSet(sent')
    BY <1>0, <2>1, <2>3, ToSetFacts
  <2> QED
    BY <2>2, <2>3
<1>6. PartOf(sent', accepted)
  <2>1. \A j \in 1..Len(sent) :
           sent[j] # accepted[c] /\ \E b \in 1..(c - 1) : accepted[b] = sent[j]
    BY <1>0, <1>4, ToSetFacts DEF OrderInv
  <2> QED
    BY <1>0, <1>2, <1>3, <2>1, PartOfAppend DEF OrderInv
<1>7. \A b \in 1..c : b = c \/ b \in 1..Passed
  BY <1>0
<1>8. c \in 1..c /\ \A b \in 1..Passed : b \in 1..c
  BY <1>0
<1>9. /\ \A r \in ToSet(sent') \cup dropped : \E b \in 1..c : accepted[b] = r
      /\ \A b \in 1..c : accepted[b] \in ToSet(sent') \cup dropped
      /\ ToSet(sent') \cap dropped = {}
  <2>1. \A r \in ToSet(sent') \cup dropped : \E b \in 1..c : accepted[b] = r
    BY <1>5, <1>8 DEF OrderInv
  <2>2. \A b \in 1..c : accepted[b] \in ToSet(sent') \cup dropped
    BY <1>5, <1>7 DEF OrderInv
  <2>3. ToSet(sent') \cap dropped = {}
    BY <1>4, <1>5 DEF OrderInv
  <2> QED
    BY <2>1, <2>2, <2>3
<1> QED
  BY <1>0, <1>1, <1>6, <1>9 DEF OrderInv

LEMMA OrderEnds ==
    ASSUME TypeInv, RecordsInv, OrderInv, [ConnectNext]_connectVars, Ends
    PROVE  OrderInv'
<1>0. /\ Passed \in Nat /\ Taken \in Nat /\ Passed <= Taken /\ Passed' = Taken
      /\ Taken <= Len(accepted) /\ Len(accepted) \in Nat
      /\ dropped' = dropped \cup Rest /\ UNCHANGED <<sent, accepted>>
  BY Counts, CountsStep DEF RecordsInv, Ends
<1>1. \A x : x \in Rest <=> \E b \in (Passed + 1)..Taken : accepted[b] = x
  BY WhereRecordsAre
<1>2. /\ \A b \in 1..Taken : b \in 1..Passed \/ b \in (Passed + 1)..Taken
      /\ \A b \in 1..Passed : b \in 1..Taken
      /\ \A b \in (Passed + 1)..Taken : b \in 1..Taken /\ b \in 1..Len(accepted) /\ b > Passed
  BY <1>0
<1>3. \A r \in ToSet(sent) \cup dropped' : \E b \in 1..Taken : accepted[b] = r
  BY <1>0, <1>1, <1>2 DEF OrderInv
<1>4. \A b \in 1..Taken : accepted[b] \in ToSet(sent) \cup dropped'
  BY <1>0, <1>1, <1>2 DEF OrderInv
<1>5. \A x \in Rest : x \notin ToSet(sent)
  BY <1>1, <1>2, PassedOnly
<1>6. ToSet(sent) \cap dropped' = {}
  BY <1>0, <1>5 DEF OrderInv
<1> QED
  BY <1>0, <1>3, <1>4, <1>6 DEF OrderInv

LEMMA OrderPuts ==
    ASSUME TypeInv, RecordsInv, OrderInv, [ConnectNext]_connectVars,
           NEW t \in Emitters, Puts(t)
    PROVE  OrderInv'
<1> DEFINE r == <<t, emitted[t]>>
<1>0. /\ r \in Records /\ accepted \in Seq(Records) /\ sent \in Seq(Records)
      /\ Passed' = Passed
      /\ \A b \in 1..Passed : b \in 1..Len(accepted)
  BY RecordPut, TypeParts, CountsStep, Counts DEF DataOK, RecordsInv
<1>1. accepted' = Append(accepted, r) /\ UNCHANGED <<sent, dropped>>
  BY DEF Puts
<1> HIDE DEF r
<1>2. \A b \in 1..Len(accepted) : accepted'[b] = accepted[b]
  BY <1>0, <1>1
<1>3. PartOf(sent, accepted')
  BY <1>0, <1>1, PartOfGrows DEF OrderInv
<1>4. \A b \in 1..Passed : accepted'[b] = accepted[b]
  BY <1>0, <1>2
<1> QED
  BY <1>0, <1>1, <1>3, <1>4 DEF OrderInv

(* What SubSeq(accepted, n + 1, Len(accepted)) is, for n = Passed.         *)
LEMMA PendingIsLast ==
    ASSUME TypeInv, RecordsInv
    PROVE  SubSeq(accepted, Passed + 1, Len(accepted)) =
              SubSeq(buffer, next, Len(buffer)) \o inbox
<1> DEFINE a == SubSeq(accepted, Passed + 1, Len(accepted))
           b == SubSeq(buffer, next, Len(buffer))
<1>0. /\ Len(accepted) \in Nat /\ Len(inbox) \in Nat /\ Len(buffer) \in Nat
      /\ Taken \in Nat /\ Passed \in Nat /\ Len(accepted) = Taken + Len(inbox)
      /\ Passed = Taken - Len(buffer) + next - 1
      /\ next \in Nat /\ next >= 1 /\ next <= Len(buffer) + 1
      /\ inbox \in Seq(Records) /\ accepted \in Seq(Records) /\ buffer \in Seq(Records)
  BY Counts, NothingRests, TypeParts DEF RecordsInv, DataOK
<1>1. /\ a \in Seq(Records) /\ Len(a) = Len(accepted) - Passed
      /\ \A i \in 1..Len(a) : a[i] = accepted[Passed + i]
  <2>1. Passed + 1 \in 1..(Len(accepted) + 1)
    BY <1>0
  <2>2. a \in Seq(Records)
    BY <1>0, <2>1, SubSeqProperties
  <2>3. Len(a) = Len(accepted) - Passed
    BY <1>0, <2>1, SubSeqProperties
  <2>4. \A i \in 1..Len(a) : a[i] = accepted[Passed + i]
    <3>1. \A i \in 1..Len(a) : a[i] = accepted[Passed + 1 + i - 1]
      BY <1>0, <2>1, <2>3, SubSeqProperties
    <3>2. \A i \in 1..Len(a) : Passed + 1 + i - 1 = Passed + i
      BY <1>0
    <3> QED
      BY <3>1, <3>2
  <2> QED
    BY <2>2, <2>3, <2>4
<1>2. /\ b \in Seq(Records) /\ Len(b) = Len(buffer) + 1 - next
      /\ \A i \in 1..Len(b) : b[i] = buffer[next + i - 1]
  BY <1>0, SubSeqProperties
<1> HIDE DEF a, b
<1>3. /\ b \o inbox \in Seq(Records) /\ Len(b \o inbox) = Len(a)
      /\ \A i \in 1..Len(a) : (b \o inbox)[i] = IF i <= Len(b) THEN b[i] ELSE inbox[i - Len(b)]
  <2>1. /\ b \o inbox \in Seq(Records) /\ Len(b \o inbox) = Len(b) + Len(inbox)
        /\ \A i \in 1..(Len(b) + Len(inbox)) :
              (b \o inbox)[i] = IF i <= Len(b) THEN b[i] ELSE inbox[i - Len(b)]
    BY <1>0, <1>2, ConcatProperties
  <2>2. Len(b) + Len(inbox) = Len(a)
    BY <1>0, <1>1, <1>2
  <2> QED
    BY <2>1, <2>2
<1>4. ASSUME NEW i \in 1..Len(a)
      PROVE  a[i] = (b \o inbox)[i]
  <2>1. CASE i <= Len(b)
    <3>0. /\ Len(a) \in Int /\ i \in Int /\ i >= 1 /\ i <= Len(b)
          /\ Len(b) = Len(buffer) + 1 - next
      BY <1>0, <1>1, <1>2, <2>1
    <3>1. i \in 1..Len(b) /\ next + i - 1 \in next..Len(buffer)
          /\ Passed + 1 + (next + i - 1) - next = Passed + i
      <4>1. next \in Nat /\ Passed \in Nat /\ Len(buffer) \in Nat
        BY <1>0
      <4> QED
        BY <3>0, <4>1
    <3>2. buffer[next + i - 1] = accepted[Passed + i]
      <4> DEFINE k == next + i - 1
      <4>1. k \in next..Len(buffer) /\ Passed + 1 + k - next = Passed + i
        BY <3>1
      <4> HIDE DEF k
      <4>2. buffer[k] = accepted[Passed + 1 + k - next]
        BY <4>1, WhereRecordsAre
      <4> QED
        BY <4>1, <4>2 DEF k
    <3> QED
      BY <1>1, <1>2, <1>3, <2>1, <3>1, <3>2
  <2>2. CASE ~(i <= Len(b))
    <3>1. i - Len(b) \in 1..Len(inbox) /\ Taken + (i - Len(b)) = Passed + i
      BY <1>0, <1>1, <1>2, <2>2
    <3>2. inbox[i - Len(b)] = accepted[Passed + i]
      BY <3>1, WhereRecordsAre
    <3> QED
      BY <1>1, <1>3, <2>2, <3>2
  <2> QED
    BY <2>1, <2>2
<1>5. a = b \o inbox
  BY <1>1, <1>3, <1>4, SeqEqual
<1> QED
  BY <1>5 DEF a, b

LEMMA OrderStep ==
    ASSUME TypeInv, RecordsInv, OrderInv, [ConnectNext]_connectVars
    PROVE  OrderInv'
<1>1. CASE Quiet \/ Strands
  <2>1. UNCHANGED Passed
    BY <1>1, CountsStep DEF RecordsInv
  <2> QED
    BY <1>1, <2>1 DEF Quiet, Strands, OrderInv
<1> QED
  BY <1>1, OrderSends, OrderEnds, OrderPuts, DataKinds

(* What was sent, and what was dropped, are the first Passed records.      *)
THEOREM OrderInvariance == ConnectSpec => []OrderInv
<1>1. ConnectInit => OrderInv
  <2> SUFFICES ASSUME ConnectInit PROVE OrderInv
    OBVIOUS
  <2>1. /\ accepted = << >> /\ inbox = << >> /\ buffer = << >> /\ sent = << >> /\ dropped = {}
        /\ next = 1 /\ Len(<< >>) = 0 /\ 1..0 = {}
    BY DEF ConnectInit, Unused
  <2>2. Passed = 0
    <3>1. Len(accepted) = 0 /\ Len(inbox) = 0 /\ Len(buffer) = 0
      BY <2>1
    <3>2. next = 1
      BY <2>1
    <3>3. Taken = 0
      BY <3>1 DEF Taken
    <3> QED
      BY <3>1, <3>2, <3>3 DEF Passed
  <2>3. ToSet(sent) = {}
    BY <2>1 DEF ToSet
  <2> QED
    BY <2>1, <2>2, <2>3 DEF OrderInv, PartOf
<1>2. TypeInv /\ RecordsInv /\ OrderInv /\ [ConnectNext]_connectVars => OrderInv'
  BY OrderStep
<1> QED
  BY <1>1, <1>2, TypeInvariance, RecordsInvariance, PTL DEF ConnectSpec

(* The records reach the broker in the order they entered the inbox, none  *)
(* twice; each of them was sent, was lost (on stderr or unsaid) or waits in*)
(* that order, whoever closes, cancels or stops the loop (_consumer,       *)
(* _publish_buffer, LoopRunner.stop).                                      *)
THEOREM BrokerSeesInboxOrder == ConnectSpec => []DeliveredInOrder
<1>1. ASSUME TypeInv, RecordsInv, OrderInv
      PROVE  DeliveredInOrder
  <2>1. Passed \in 0..Len(accepted)
    BY <1>1, Counts DEF RecordsInv
  <2>2. ToSet(sent) \cup dropped = {accepted[i] : i \in 1..Passed}
    BY <1>1 DEF OrderInv
  <2> QED
    BY <1>1, <2>1, <2>2, PendingIsLast DEF DeliveredInOrder, OrderInv
<1> QED
  BY <1>1, TypeInvariance, RecordsInvariance, OrderInvariance, PTL
(***************************************************************************)
(* flush_sync().                                                           *)
(***************************************************************************)
(* A user that does not step, and what is recorded of it, stay as they are.*)
LEMMA UserSame ==
    ASSUME TypeInv, [ConnectNext]_connectVars, NEW u \in Users, ~UserStep(u)
    PROVE  /\ pc'[u] = pc[u] /\ call'[u] = call[u]
           /\ before'[u] = before[u] /\ idleAt'[u] = idleAt[u]
<1>0. u \in Threads /\ u \notin Emitters
  BY EmittersAndUsers DEF Threads
<1>1. CASE UNCHANGED <<pc, userVars>>
  BY <1>1 DEF userVars
<1>2. ASSUME NEW t \in Emitters, EmitterStep(t)
      PROVE  UNCHANGED userVars /\ pc'[u] = pc[u]
  <2>1. t \in Threads /\ t # u
    BY <1>0 DEF Threads
  <2> QED
    BY <1>0, <1>2, <2>1, EmitterFrame, OthersStay
<1>3. ASSUME NEW x \in Users, UserStep(x)
      PROVE  /\ pc'[u] = pc[u] /\ call'[u] = call[u]
             /\ before'[u] = before[u] /\ idleAt'[u] = idleAt[u]
  <2>1. x \in Threads /\ x # u
    BY <1>3 DEF Threads
  <2>2. pc'[u] = pc[u]
    BY <1>0, <1>3, <2>1, UserFrame, OthersStay
  <2> QED
    BY <1>3, <2>1, <2>2, UserMoves
<1>4. \/ UNCHANGED <<pc, userVars>>
      \/ \E t \in Emitters : EmitterStep(t)
      \/ \E x \in Users : UserStep(x)
  BY NextCases, BuildFrame, ConsumerFrame, LoopFrame
     DEF connectVars, asyncVars, LoopEndsEarly
<1> QED
  BY <1>1, <1>2, <1>3, <1>4 DEF userVars

LEMMA CountsGrow ==
    ASSUME TypeInv, RecordsInv, [ConnectNext]_connectVars
    PROVE  /\ Passed <= Passed' /\ Taken <= Taken' /\ Len(accepted) <= Len(accepted')
           /\ Passed' \in Nat /\ Taken' \in Nat /\ Len(accepted') \in Nat
<1>0. /\ Len(accepted) \in Nat /\ Taken \in Nat /\ Passed \in Nat
      /\ Passed <= Taken /\ Taken <= Len(accepted)
  BY Counts DEF RecordsInv
<1>1. BatchInv
  BY DEF RecordsInv
<1>2. CASE Quiet \/ Strands
  <2>1. Passed' = Passed /\ Taken' = Taken /\ accepted' = accepted
    BY <1>1, <1>2, CountsStep DEF Quiet, Strands
  <2> QED
    BY <1>0, <2>1
<1>3. CASE Sends
  <2>1. Passed' = Passed + 1 /\ Taken' = Taken /\ accepted' = accepted
    BY <1>1, <1>3, CountsStep DEF Sends
  <2> QED
    BY <1>0, <2>1
<1>4. CASE Ends
  <2>1. Passed' = Taken /\ Taken' \in {Taken, Len(accepted)} /\ accepted' = accepted
    BY <1>1, <1>4, CountsStep DEF Ends
  <2> QED
    BY <1>0, <2>1
<1>6. ASSUME NEW t \in Emitters, Puts(t)
      PROVE  /\ Passed' = Passed /\ Taken' = Taken
             /\ Len(accepted') = Len(accepted) + 1
  <2>1. <<t, emitted[t]>> \in Records /\ accepted \in Seq(Records)
    BY <1>6, RecordPut, TypeParts DEF DataOK
  <2> QED
    BY <1>1, <1>6, <2>1, CountsStep DEF Puts
<1> QED
  BY <1>0, <1>2, <1>3, <1>4, <1>6, DataKinds

(* The drained flag is set only where a batch ends, where the consumer     *)
(* wakes up to an empty inbox, and where it is cancelled with an empty one.*)
LEMMA CancelledDrains ==
    ASSUME TypeInv, Cancelled, UNCHANGED atClose
    PROVE  (drained' => drained) \/ (Ends /\ inbox = << >>)
<1>1. CASE Ended /\ UNCHANGED batchVars
  BY <1>1 DEF batchVars
<1>2. CASE closed /\ GoesOn
  BY <1>2 DEF GoesOn
<1>3. CASE /\ consumer \in {"publish", "final"} \/ (consumer = "wait" /\ ~closed)
           /\ dropped' = dropped \cup Rest
           /\ next' = 1
           /\ IF inbox # << >>
              THEN consumer' = "cancelling" /\ buffer' = inbox /\ inbox' = << >>
                   /\ UNCHANGED drained
              ELSE EndsCancelled
           /\ UNCHANGED <<accepted, sent>>
  BY <1>3 DEF Ends, Ended, Stranded, EndsCancelled
<1> QED
  BY <1>1, <1>2, <1>3 DEF Cancelled

LEMMA DrainKinds ==
    ASSUME TypeInv, [ConnectNext]_connectVars
    PROVE  (drained' => drained) \/ (Ends /\ (Publishing \/ inbox = << >>))
<1>1. CASE UNCHANGED drained
  BY <1>1
<1>2. CASE LoopEndsEarly
  <2>1. UNCHANGED atClose /\ (Cancelled \/ UNCHANGED batchVars)
    BY <1>2 DEF LoopEndsEarly
  <2> QED
    BY <2>1, CancelledDrains DEF batchVars
<1>3. CASE ConsumerSteps
  <2>1. CASE Cycle
    <3>1. CASE inbox # << >> /\ ~closed
      BY <2>1, <3>1 DEF Cycle
    <3>2. CASE closed
      BY <2>1, <3>2 DEF Cycle, GoesOn
    <3>3. CASE inbox = << >>
      <4>1. Ends
        BY <1>3, <2>1, ConsumerKinds DEF Cycle, Sends, Publishing
      <4> QED
        BY <3>3, <4>1
    <3> QED
      BY <3>1, <3>2, <3>3
  <2>2. CASE Publish
    BY <2>2 DEF Publish
  <2>3. CASE Published \/ PublishRaises
    <3>1. Publishing /\ next' = 1
      BY <2>3 DEF Published, PublishRaises
    <3>2. next \in Nat /\ next >= 1
      BY NothingRests
    <3>3. ~Sends
      <4>1. Sends => next' = next + 1
        BY DEF Sends
      <4> QED
        BY <3>1, <3>2, <4>1
    <3> QED
      BY <1>3, <3>1, <3>3, ConsumerKinds
  <2> QED
    BY <1>3, <2>1, <2>2, <2>3 DEF ConsumerSteps
<1>4. CASE LoopSteps
  <2>0. UNCHANGED atClose
    BY <1>4, LoopFrame
  <2>1. CASE LoopCancels \/ CancelAll
    BY <2>0, <2>1, CancelledDrains DEF LoopCancels, CancelAll
  <2>2. CASE LoopEnds \/ Halt
    BY <2>2 DEF LoopEnds, Halt, batchVars
  <2>3. CASE \E what \in late : RunLate(what)
    BY <2>3 DEF RunLate
  <2> QED
    BY <1>4, <2>1, <2>2, <2>3 DEF LoopSteps
<1>5. ASSUME NEW u \in Users, UserStep(u)
      PROVE  drained' => drained
  BY <1>5 DEF UserStep, UserSteps, UserCalls, FlushCheck, Kick, KickFails, AwaitDrain,
     CloseCheck, CloseSet, Join, CloseConn, StopLoop, StopAnyway, CloseFinish, batchVars
<1>6. ASSUME NEW t \in Emitters, EmitterStep(t)
      PROVE  UNCHANGED drained
  BY <1>6, EmitterFrame
<1> QED
  BY <1>1, <1>2, <1>3, <1>4, <1>5, <1>6, NextCases, BuildFrame
     DEF connectVars, asyncVars, batchVars

(* While the caller waits, the flag is set only once all that was in the   *)
(* inbox at its kick has been published or dropped.                        *)
LEMMA IdleStays ==
    ASSUME TypeInv, RecordsInv, [ConnectNext]_connectVars, NEW u \in Users, IdleOf(u),
           pc'[u] = pc[u], call'[u] = call[u], before'[u] = before[u], idleAt'[u] = idleAt[u]
    PROVE  IdleOf(u)'
<1> DEFINE b == before[u]
<1>0. /\ b \in Nat /\ Len(accepted) \in Nat /\ Taken \in Nat /\ Passed \in Nat
      /\ Passed <= Taken /\ Taken <= Len(accepted) /\ b <= Len(accepted)
  BY Counts, TypeParts DEF ThreadOK, RecordsInv, IdleOf
<1>1. /\ Passed <= Passed' /\ Taken <= Taken' /\ Len(accepted) <= Len(accepted')
      /\ Passed' \in Nat /\ Taken' \in Nat /\ Len(accepted') \in Nat
  BY CountsGrow
<1>2. before'[u] = b
  OBVIOUS
<1>5. /\ pc[u] = "await" /\ idleAt[u] =>
            /\ drained => b <= Passed
            /\ b <= Taken \/ ((consumer = "wait" \/ Ended \/ Stranded) /\ ~drained)
      /\ call[u] = "flush" /\ pc[u] = "returned" /\ idleAt[u] => b <= Passed
  BY DEF IdleOf
<1> HIDE DEF b
<1>3. ASSUME b <= Passed
      PROVE  b <= Passed' /\ b <= Taken'
  BY <1>0, <1>1, <1>3
<1>4. ASSUME b <= Taken
      PROVE  b <= Taken'
  BY <1>0, <1>1, <1>4
<1>6. b <= Len(accepted')
  BY <1>0, <1>1
<1>7. ASSUME pc[u] = "await", idleAt[u]
      PROVE  /\ drained' => b <= Passed'
             /\ b <= Taken' \/ ((consumer' = "wait" \/ Ended' \/ Stranded') /\ ~drained')
  <2>1. CASE b <= Passed
    BY <1>3, <2>1
  <2>2. CASE ~(b <= Passed)
    <3>1. ~drained
      BY <1>5, <1>7, <2>2
    <3>3. CASE Ends /\ (Publishing \/ inbox = << >>)
      <4>1. b <= Taken
        <5>1. CASE Publishing
          BY <1>5, <1>7, <5>1 DEF Publishing, Ended, Stranded
        <5>2. CASE inbox = << >>
          <6>1. Len(inbox) = 0
            BY <5>2
          <6> QED
            BY <1>0, <6>1, Counts DEF RecordsInv
        <5> QED
          BY <3>3, <5>1, <5>2
      <4>2. Passed' = Taken
        BY <3>3, CountsStep DEF RecordsInv
      <4> QED
        BY <1>4, <4>1, <4>2
    <3>4. CASE ~drained'
      <4>1. CASE b <= Taken
        BY <1>4, <3>4, <4>1
      <4>2. CASE consumer = "wait" \/ Ended \/ Stranded
        <5>1. CASE consumer' = consumer \/ consumer' = "stranded"
          BY <3>4, <4>2, <5>1 DEF Ended, Stranded
        <5>2. CASE Ends /\ inbox' = inbox
          <6>1. consumer' \in {"done", "dead", "wait", "cancelled"}
            BY <5>2 DEF Ends
          <6> QED
            BY <3>4, <6>1 DEF Ended
        <5>3. CASE Ends /\ inbox' # inbox
          <6>1. Taken' = Len(accepted)
            BY <5>3, CountsStep DEF RecordsInv
          <6> QED
            BY <1>0, <3>4, <6>1
        <5> QED
          BY <5>1, <5>2, <5>3, DataKinds DEF Quiet, Sends, Strands, Puts
      <4> QED
        BY <1>5, <1>7, <4>1, <4>2
    <3> QED
      BY <3>1, <3>3, <3>4, DrainKinds
  <2> QED
    BY <2>1, <2>2
<1> QED
  BY <1>2, <1>3, <1>5, <1>6, <1>7 DEF IdleOf
LEMMA IdleMoves ==
    ASSUME TypeInv, RecordsInv, [ConnectNext]_connectVars, NEW u \in Users, UserStep(u),
           IdleOf(u)
    PROVE  IdleOf(u)'
<1>0. /\ u \in Threads /\ pc \in [Threads -> EmitterPCs \cup UserPCs]
      /\ before \in [Users -> Nat] /\ idleAt \in [Users -> BOOLEAN] /\ call \in [Users -> Calls]
      /\ before[u] <= Len(accepted) /\ before[u] \in Nat
      /\ pc[u] \in {"close", "set", "join", "conn", "stop", "cancel", "finish"} =>
            call[u] = "close"
  BY TypeParts DEF ThreadOK, ThreadInv, Threads, IdleOf
<1>1. /\ Len(accepted) \in Nat /\ Taken \in Nat /\ Passed \in Nat /\ 0 <= Len(accepted)
      /\ Len(accepted) = Taken + Len(inbox) /\ Len(inbox) \in Nat
  BY Counts DEF RecordsInv
<1>2. accepted' = accepted
  BY UserFrame
<1>3. CASE UserCalls(u)
  <2>1. PICK c \in {"flush", "close"} :
            /\ before' = [before EXCEPT ![u] = IF c = "flush" THEN Len(accepted) ELSE 0]
            /\ pc' = [pc EXCEPT ![u] = c]
    BY <1>3 DEF UserCalls, GoTo
  <2>2. pc'[u] = c /\ before'[u] \in {Len(accepted), 0}
    BY <1>0, <2>1
  <2>3. before'[u] <= Len(accepted)
    BY <1>1, <2>2
  <2> QED
    BY <1>2, <2>2, <2>3 DEF IdleOf
<1>4. CASE Kick(u)
  <2>1. /\ pc' = [pc EXCEPT ![u] = "await"] /\ drained' = FALSE
        /\ idleAt' = [idleAt EXCEPT ![u] = consumer = "wait"]
        /\ UNCHANGED <<consumer, call, before>>
    BY <1>4 DEF Kick, GoTo
  <2>2. pc'[u] = "await" /\ idleAt'[u] = (consumer = "wait")
    BY <1>0, <2>1
  <2> QED
    BY <1>0, <1>2, <2>1, <2>2 DEF IdleOf
<1>5. CASE AwaitDrain(u)
  <2>1. /\ pc[u] = "await" /\ UNCHANGED <<call, before, idleAt, inbox, buffer, next>>
        /\ (drained /\ GoTo(u, "returned")) \/ GoTo(u, "gaveUp")
    BY <1>5 DEF AwaitDrain, userVars, batchVars
  <2>2. Taken' = Taken /\ Passed' = Passed
    BY <1>2, <2>1 DEF Taken, Passed
  <2>3. (pc'[u] = "returned" /\ drained) \/ pc'[u] = "gaveUp"
    BY <1>0, <2>1 DEF GoTo
  <2> QED
    BY <1>0, <1>2, <2>1, <2>2, <2>3 DEF IdleOf
<1>6. CASE FlushCheck(u) \/ KickFails(u)
  <2>1. UNCHANGED before /\ pc'[u] \in {"gaveUp", "kick"}
    BY <1>0, <1>6 DEF FlushCheck, KickFails, GoTo, userVars
  <2> QED
    BY <1>0, <1>2, <2>1 DEF IdleOf
<1>7. CASE CloseCheck(u) \/ CloseSet(u) \/ Join(u) \/ CloseConn(u) \/ StopLoop(u)
           \/ StopAnyway(u) \/ CloseFinish(u)
  <2>1. /\ UNCHANGED <<before, call>> /\ call[u] = "close"
    BY <1>0, <1>7 DEF CloseCheck, CloseSet, Join, CloseConn, StopLoop, StopAnyway,
       CloseFinish, userVars
  <2>2. pc'[u] # "await"
    BY <2>1, UserMoves
  <2> QED
    BY <1>0, <1>2, <2>1, <2>2 DEF IdleOf
<1> QED
  BY <1>3, <1>4, <1>5, <1>6, <1>7 DEF UserStep, UserSteps

(* How far the consumer is while, and after, a flush_sync() waits for it.  *)
THEOREM IdleInvariance == ConnectSpec => []IdleInv
<1>1. ConnectInit => IdleInv
  <2> SUFFICES ASSUME ConnectInit, NEW u \in Users PROVE IdleOf(u)
    BY DEF IdleInv
  <2>1. pc[u] = "idle" /\ before[u] = 0 /\ accepted = << >> /\ Len(<< >>) = 0
    BY DEF ConnectInit, Unused, Threads
  <2> QED
    BY <2>1 DEF IdleOf
<1>2. ASSUME TypeInv, RecordsInv, IdleInv, [ConnectNext]_connectVars, NEW u \in Users
      PROVE  IdleOf(u)'
  <2>1. IdleOf(u)
    BY <1>2 DEF IdleInv
  <2>2. CASE UserStep(u)
    BY <1>2, <2>1, <2>2, IdleMoves
  <2>3. CASE ~UserStep(u)
    <3>1. /\ pc'[u] = pc[u] /\ call'[u] = call[u]
          /\ before'[u] = before[u] /\ idleAt'[u] = idleAt[u]
      BY <1>2, <2>3, UserSame
    <3> QED
      BY <1>2, <2>1, <3>1, IdleStays
  <2> QED
    BY <2>2, <2>3
<1>3. TypeInv /\ RecordsInv /\ IdleInv /\ [ConnectNext]_connectVars => IdleInv'
  BY <1>2 DEF IdleInv
<1> QED
  BY <1>1, <1>3, TypeInvariance, RecordsInvariance, PTL DEF ConnectSpec

(* flush_sync() is a barrier if the consumer was waiting at its kick: what *)
(* was in the inbox before the call has then left it and the batch         *)
(* (flush_sync, _kick_and_wait, _await_drain).                             *)
THEOREM IdleFlushIsBarrier == ConnectSpec => []FlushWhenIdle
<1>1. ASSUME TypeInv, RecordsInv, IdleInv
      PROVE  FlushWhenIdle
  <2> SUFFICES ASSUME NEW u \in Users, call[u] = "flush", pc[u] = "returned", idleAt[u],
                      NEW i \in 1..before[u]
               PROVE  ~Contains(inbox, accepted[i]) /\ accepted[i] \notin Rest
    BY DEF FlushWhenIdle
  <2>1. before[u] <= Passed /\ before[u] \in Nat
    BY <1>1, TypeParts DEF IdleInv, IdleOf, ThreadOK
  <2>2. /\ Passed \in Nat /\ Taken \in Nat /\ Len(accepted) \in Nat /\ Len(inbox) \in Nat
        /\ Passed <= Taken /\ Taken <= Len(accepted) /\ Len(accepted) = Taken + Len(inbox)
    BY <1>1, Counts DEF RecordsInv
  <2>3. i \in 1..Len(accepted) /\ i <= Passed
    BY <2>1, <2>2
  <2>4. ASSUME Contains(inbox, accepted[i])
        PROVE  FALSE
    <3>1. PICK j \in 1..Len(inbox) : inbox[j] = accepted[i]
      <4>1. inbox \in Seq(Records)
        BY <1>1, TypeParts DEF DataOK
      <4> QED
        BY <2>4, <4>1 DEF Contains
    <3>2. Taken + j \in 1..Len(accepted) /\ accepted[Taken + j] = accepted[i] /\ Taken + j # i
      BY <1>1, <2>2, <2>3, <3>1, WhereRecordsAre
    <3> QED
      BY <1>1, <2>3, <3>2, WhereRecordsAre
  <2>5. ASSUME accepted[i] \in Rest
        PROVE  FALSE
    <3>1. PICK b \in (Passed + 1)..Taken : accepted[b] = accepted[i]
      BY <1>1, <2>5, WhereRecordsAre
    <3>2. b \in 1..Len(accepted) /\ b # i
      BY <2>2, <2>3
    <3> QED
      BY <1>1, <2>3, <3>1, <3>2, WhereRecordsAre
  <2> QED
    BY <2>4, <2>5
<1> QED
  BY <1>1, TypeInvariance, RecordsInvariance, IdleInvariance, PTL
(***************************************************************************)
(* The end of the consumer.                                                *)
(***************************************************************************)
LEMMA EndedStays ==
    ASSUME TypeInv, [ConnectNext]_connectVars, Ended
    PROVE  Ended' /\ (Quiet \/ \E t \in Emitters : Puts(t))
<1>1. ~Sends
  BY DEF Sends, Publishing, Ended
<1>2. ~Ends /\ ~Strands
  BY DEF Ends, Strands
<1> QED
  BY <1>1, <1>2, DataKinds DEF Quiet, Puts, Ended

(* What can become of a handler that is built.                             *)
LEMMA BuiltSteps ==
    ASSUME TypeInv, [ConnectNext]_connectVars, stage = "built"
    PROVE  /\ stage' = "built" /\ external' = external
           /\ \/ UNCHANGED connectVars
              \/ \E t \in Emitters : EmitterStep(t)
              \/ ConsumerSteps
              \/ LoopSteps
              \/ \E u \in Users : UserStep(u)
<1>1. BuildInv
  BY TypeParts
<1>2. ~BuildStep
  BY <1>1 DEF BuildInv, BuildStep, BuilderSteps, ChooseLoop, StartLoop, Connect, Connected,
     Bootstrap, SetUp, Dial, RunSetup
<1>3. ~LoopEndsEarly
  BY DEF LoopEndsEarly, UnderWay
<1>4. \A t \in Emitters : EmitterStep(t) => external' = external
  BY EmitterFrame DEF config
<1>5. LoopSteps => external' = external
  BY LoopFrame DEF config
<1>6. \A u \in Users : UserStep(u) => external' = external
  BY UserFrame DEF config
<1> QED
  BY <1>2, <1>3, <1>4, <1>5, <1>6, NextCases, ConsumerFrame
     DEF connectVars, asyncVars, config, buildVars

(* The flags of close() change only in its steps.                          *)
LEMMA UserFlags ==
    ASSUME NEW u \in Users, UserStep(u)
    PROVE  /\ UNCHANGED running \/ StopLoop(u)
           /\ UNCHANGED closed \/ CloseFinish(u)
           /\ UNCHANGED <<closing, atClose>> \/ CloseSet(u)
           /\ UNCHANGED connOpen \/ CloseConn(u)
           /\ UNCHANGED late \/ KickFails(u) \/ CloseConn(u) \/ StopLoop(u) \/ StopAnyway(u)
<1>1. CASE UserCalls(u) \/ FlushCheck(u) \/ Kick(u) \/ KickFails(u) \/ AwaitDrain(u)
  BY <1>1 DEF UserCalls, FlushCheck, Kick, KickFails, AwaitDrain, lifeVars
<1>2. CASE CloseCheck(u) \/ CloseSet(u) \/ Join(u) \/ StopLoop(u) \/ StopAnyway(u)
           \/ CloseFinish(u) \/ CloseConn(u)
  BY <1>2 DEF CloseCheck, CloseSet, Join, StopLoop, StopAnyway, CloseFinish, CloseConn,
     lifeVars
<1> QED
  BY <1>1, <1>2 DEF UserStep, UserSteps

LEMMA BuiltFlags ==
    ASSUME TypeInv, [ConnectNext]_connectVars, stage = "built"
    PROVE  /\ UNCHANGED running \/ external \/ \E u \in Users : UserStep(u) /\ StopLoop(u)
           /\ UNCHANGED closed \/ \E u \in Users : UserStep(u) /\ CloseFinish(u)
           /\ \/ UNCHANGED <<closing, atClose>>
              \/ \E u \in Users : UserStep(u) /\ CloseSet(u)
           /\ \/ connOpen' = connOpen
              \/ \E u \in Users : UserStep(u) /\ CloseConn(u)
              \/ ~connOpen' /\ "conn.close" \in late
           /\ \/ late' \subseteq late
              \/ \E u \in Users :
                    /\ UserStep(u)
                    /\ KickFails(u) \/ CloseConn(u) \/ StopLoop(u) \/ StopAnyway(u)
<1>1. ASSUME NEW t \in Emitters, EmitterStep(t)
      PROVE  UNCHANGED lifeVars
  BY <1>1, EmitterFrame
<1>2. CASE LoopSteps
  <2>1. /\ UNCHANGED <<closing, closed, atClose>>
        /\ UNCHANGED running \/ external
        /\ late' \subseteq late
    BY <1>2, LoopFrame
  <2>2. connOpen' = connOpen \/ (~connOpen' /\ "conn.close" \in late)
    <3>1. connOpen \in BOOLEAN
      BY TypeParts DEF LifeOK
    <3>2. ASSUME NEW what \in late, RunLate(what)
          PROVE  connOpen' = connOpen \/ (~connOpen' /\ "conn.close" \in late)
      BY <3>1, <3>2 DEF RunLate
    <3> QED
      BY <1>2, <3>2 DEF LoopSteps, LoopCancels, LoopEnds, CancelAll, Halt, lifeVars
  <2> QED
    BY <2>1, <2>2
<1>3. CASE UNCHANGED connectVars \/ ConsumerSteps
  BY <1>3, ConsumerFrame DEF connectVars, asyncVars, lifeVars
<1> QED
  BY <1>1, <1>2, <1>3, BuiltSteps, UserFlags DEF lifeVars

(* Where a step takes a user behind its wait for the consumer.             *)
LEMMA JoinSteps ==
    ASSUME TypeInv, [ConnectNext]_connectVars, NEW u \in Users, pc'[u] \in AfterJoin,
           pc[u] \notin AfterJoin
    PROVE  UserStep(u) /\ Join(u)
<1>0. pc \in [Threads -> EmitterPCs \cup UserPCs] /\ u \in Threads
  BY TypeParts DEF ThreadOK, Threads
<1>1. UserStep(u)
  BY UserSame
<1>2. ~(UserCalls(u) \/ FlushCheck(u) \/ Kick(u) \/ KickFails(u) \/ AwaitDrain(u))
  BY <1>0 DEF UserCalls, FlushCheck, Kick, KickFails, AwaitDrain, GoTo, AfterJoin
<1>3. ~(CloseCheck(u) \/ CloseSet(u))
  BY <1>0 DEF CloseCheck, CloseSet, GoTo, AfterJoin
<1>4. ~(CloseConn(u) \/ StopLoop(u) \/ StopAnyway(u) \/ CloseFinish(u))
  BY DEF CloseConn, StopLoop, StopAnyway, CloseFinish, AfterJoin
<1> QED
  BY <1>1, <1>2, <1>3, <1>4 DEF UserStep, UserSteps

(* What a step may do to a handler that is not built, or has just been.    *)
LEMMA FreshAfter ==
    ASSUME TypeInv, [ConnectNext]_connectVars, stage # "built"
    PROVE  /\ \A t \in Threads : pc'[t] = "idle"
           /\ ~closed' /\ late' = {} /\ buffer' = << >> /\ dropped' = {}
           /\ consumer' = "wait" \/ trouble'
           /\ stage' = "built" => connOpen' /\ (~external' => running')
<1>1. FreshInv /\ FreshInv'
  BY TypeParts, FreshStep
<1>2. CASE stage' # "built"
  BY <1>1, <1>2 DEF FreshInv
<1>3. CASE stage' = "built"
  <2>1. SetUp
    BY <1>3, NextCases DEF BuildStep, BuilderSteps, ChooseLoop, StartLoop, Connect, Connected,
       Bootstrap, Dial, RunSetup, Fails, LoopEndsEarly, connectVars, buildVars
  <2>2. /\ UNCHANGED <<pc, closed, late, buffer, dropped, consumer, trouble, connOpen, external,
                       running>>
        /\ dial = "done" /\ stage = "settingUp"
    BY <2>1, TypeParts DEF SetUp, asyncVars, config, lifeVars, batchVars, BuildInv
  <2> QED
    BY <1>1, <2>2 DEF FreshInv
<1> QED
  BY <1>2, <1>3

(* Nothing puts an end to the consumer's work, but close() when it has     *)
(* waited for it, and the failures.                                        *)
LEMMA LeavingStep ==
    ASSUME TypeInv, StopInv, [ConnectNext]_connectVars, stage = "built", Leaving', ~trouble'
    PROVE  Ended'
<1>0. FreshInv /\ LifeOK
  BY TypeParts
<1>1. ~trouble
  <2>1. \A t \in Emitters : EmitterStep(t) => trouble' = trouble
    BY EmitterFrame
  <2>2. trouble => trouble'
    BY <1>0, <2>1, BuiltSteps, UserFrame, ConsumerFrame, LoopFrame
       DEF connectVars, asyncVars, LifeOK
  <2> QED
    BY <2>2
<1>2. CASE Ended
  BY <1>2, EndedStays
<1>3. CASE ~Ended
  <2>1. ~Leaving
    BY <1>1, <1>3 DEF StopInv
  <2>2. ~closed'
    BY <2>1, BuiltFlags DEF CloseFinish, Leaving, AfterJoin
  <2>3. ASSUME NEW u \in Users, pc'[u] \in AfterJoin
        PROVE  Ended'
    <3>1. UserStep(u) /\ Join(u)
      BY <2>1, <2>3, JoinSteps DEF Leaving
    <3>2. GoTo(u, "raised")
      BY <1>0, <1>1, <1>3, <2>1, <3>1 DEF Join, FreshInv, Leaving
    <3>3. pc \in [Threads -> EmitterPCs \cup UserPCs] /\ u \in Threads
      BY TypeParts DEF ThreadOK, Threads
    <3> QED
      BY <2>3, <3>2, <3>3 DEF GoTo, AfterJoin
  <2>4. "cancel" \notin late' /\ "stop" \notin late'
    <3>1. CASE late' \subseteq late
      BY <2>1, <3>1 DEF Leaving
    <3>2. ASSUME NEW u \in Users, KickFails(u) \/ CloseConn(u) \/ StopLoop(u) \/ StopAnyway(u)
          PROVE  "cancel" \notin late' /\ "stop" \notin late'
      <4>1. KickFails(u)
        BY <2>1, <3>2 DEF CloseConn, StopLoop, StopAnyway, Leaving, AfterJoin
      <4> QED
        BY <2>1, <4>1 DEF KickFails, Leaving
    <3> QED
      BY <3>1, <3>2, BuiltFlags
  <2>5. consumer' \notin {"cancelling", "stranded"}
    <3>1. CASE UNCHANGED consumer
      BY <2>1, <3>1 DEF Leaving
    <3>2. CASE ConsumerSteps
      BY <2>1, <3>2 DEF ConsumerSteps, Cycle, Publish, Published, PublishRaises, GoesOn,
         Leaving
    <3>3. CASE LoopSteps
      <4>1. ~LoopCancels /\ ~LoopEnds
        BY DEF LoopCancels, LoopEnds
      <4>2. ~CancelAll /\ ~Halt
        BY <2>1 DEF CancelAll, Halt, Leaving
      <4> QED
        BY <3>1, <3>3, <4>1, <4>2 DEF LoopSteps, RunLate
    <3> QED
      BY <3>1, <3>2, <3>3, BuiltSteps, EmitterFrame, UserFrame
         DEF connectVars, asyncVars, batchVars
  <2> QED
    BY <2>2, <2>3, <2>4, <2>5 DEF Leaving
<1> QED
  BY <1>2, <1>3

(* A loop that is told to stop does, with the consumer at its end or not.  *)
LEMMA StopStays ==
    ASSUME TypeInv, [ConnectNext]_connectVars, stage = "built",
           Ended \/ Stranded \/ "stop" \in late
    PROVE  Ended' \/ Stranded' \/ "stop" \in late'
<1>1. CASE Ended
  BY <1>1, EndedStays
<1>2. CASE Stranded
  <2>1. ~Sends /\ ~Ends
    BY <1>2 DEF Sends, Ends, Publishing, Stranded
  <2> QED
    BY <1>2, <2>1, DataKinds DEF Quiet, Puts, Strands, Stranded
<1>3. CASE "stop" \in late
  <2>1. CASE UNCHANGED late
    BY <1>3, <2>1
  <2>2. CASE LoopSteps
    <3>1. CASE Halt
      BY <3>1 DEF Halt, Stranded, Ended
    <3>2. CASE ~Halt
      BY <1>3, <2>2, <3>2 DEF LoopSteps, LoopCancels, LoopEnds, CancelAll, RunLate, lifeVars
    <3> QED
      BY <3>1, <3>2
  <2>3. ASSUME NEW u \in Users, UserStep(u)
        PROVE  "stop" \in late'
    BY <1>3, <2>3, UserFlags DEF KickFails, CloseConn, StopLoop, StopAnyway
  <2> QED
    BY <2>1, <2>2, <2>3, BuiltSteps, EmitterFrame, ConsumerFrame
       DEF connectVars, asyncVars, lifeVars
<1> QED
  BY <1>1, <1>2, <1>3

LEMMA StopStep ==
    ASSUME TypeInv, StopInv, [ConnectNext]_connectVars
    PROVE  StopInv'
<1>0. /\ pc \in [Threads -> EmitterPCs \cup UserPCs]
      /\ \A u \in Users : u \in Threads
  BY TypeParts DEF ThreadOK, Threads
<1>1. CASE stage # "built"
  <2>1. \A u \in Users : pc'[u] = "idle"
    BY <1>0, <1>1, FreshAfter
  <2> QED
    BY <1>1, <2>1, FreshAfter DEF StopInv, Leaving, AfterJoin
<1>3. CASE stage = "built"
  <2>0. stage' = "built" /\ external' = external
    BY <1>3, BuiltSteps
  <2>L. Leaving' => Ended' \/ trouble'
    BY <1>3, LeavingStep
  <2>E. CASE external
    BY <2>0, <2>L, <2>E DEF StopInv
  <2>O. CASE ~external
    <3>1. UNCHANGED running \/ \E u \in Users : UserStep(u) /\ StopLoop(u)
      BY <1>3, <2>O, BuiltFlags
    <3>2. ~running => ~running'
      BY <3>1 DEF StopLoop
    <3>3. ASSUME ~running'
          PROVE  Ended' \/ Stranded' \/ "stop" \in late' \/ \E u \in Users : pc'[u] = "cancel"
      <4>1. CASE running
        <5>1. PICK u \in Users : StopLoop(u)
          BY <3>1, <3>3, <4>1
        <5>2. pc'[u] = "cancel"
          BY <1>0, <4>1, <5>1 DEF StopLoop, GoTo
        <5> QED
          BY <5>2
      <4>2. CASE Ended \/ Stranded \/ "stop" \in late
        BY <1>3, <4>2, StopStays
      <4>3. ASSUME NEW u \in Users, pc[u] = "cancel"
            PROVE  "stop" \in late' \/ pc'[u] = "cancel"
        <5>1. CASE StopAnyway(u)
          BY <5>1 DEF StopAnyway
        <5>2. CASE UserStep(u) /\ ~StopAnyway(u)
          BY <4>3, <5>2 DEF UserStep, UserSteps, UserCalls, FlushCheck, Kick, KickFails,
             AwaitDrain, CloseCheck, CloseSet, Join, CloseConn, StopLoop, CloseFinish
        <5>3. CASE ~UserStep(u)
          BY <4>3, <5>3, UserSame
        <5> QED
          BY <5>1, <5>2, <5>3
      <4> QED
        BY <1>3, <2>O, <4>1, <4>2, <4>3 DEF StopInv
    <3>4. ASSUME NEW u \in Users, pc'[u] \in {"cancel", "finish"}
          PROVE  ~running'
      <4>1. CASE pc[u] \in {"cancel", "finish"}
        BY <2>O, <3>2, <4>1 DEF StopInv
      <4>2. CASE pc[u] \notin {"cancel", "finish"}
        <5>1. UserStep(u)
          BY <3>4, <4>2, UserSame
        <5>2. StopLoop(u)
          <6>1. ~(UserCalls(u) \/ FlushCheck(u) \/ Kick(u) \/ KickFails(u) \/ AwaitDrain(u))
            BY <1>0, <3>4 DEF UserCalls, FlushCheck, Kick, KickFails, AwaitDrain, GoTo
          <6>2. ~(CloseCheck(u) \/ CloseSet(u) \/ Join(u))
            BY <1>0, <3>4 DEF CloseCheck, CloseSet, Join, GoTo
          <6>3. ~(CloseConn(u) \/ StopAnyway(u) \/ CloseFinish(u))
            BY <1>0, <2>O, <3>4, <4>2 DEF CloseConn, StopAnyway, CloseFinish, GoTo
          <6> QED
            BY <5>1, <6>1, <6>2, <6>3 DEF UserStep, UserSteps
        <5> QED
          BY <5>2 DEF StopLoop
      <4> QED
        BY <4>1, <4>2
    <3>5. ASSUME closed'
          PROVE  ~running'
      <4>1. CASE closed
        BY <2>O, <3>2, <4>1 DEF StopInv
      <4>2. CASE ~closed
        <5>1. PICK u \in Users : CloseFinish(u)
          BY <1>3, <3>5, <4>2, BuiltFlags
        <5> QED
          BY <2>O, <3>2, <5>1 DEF CloseFinish, StopInv
      <4> QED
        BY <4>1, <4>2
    <3> QED
      BY <2>L, <3>3, <3>4, <3>5 DEF StopInv
  <2> QED
    BY <2>E, <2>O
<1> QED
  BY <1>1, <1>3

(* How far a close() has come, and the consumer with it.                   *)
THEOREM StopInvariance == ConnectSpec => []StopInv
<1>1. ConnectInit => StopInv
  <2>1. ConnectInit => /\ ~closed /\ late = {} /\ consumer = "wait" /\ stage = "choose"
                       /\ \A u \in Users : pc[u] = "idle"
    BY DEF ConnectInit, Unused, Threads
  <2> QED
    BY <2>1 DEF StopInv, Leaving, AfterJoin
<1>2. TypeInv /\ StopInv /\ [ConnectNext]_connectVars => StopInv'
  BY StopStep
<1> QED
  BY <1>1, <1>2, TypeInvariance, PTL DEF ConnectSpec

(* Nothing runs on after close() on a loop of the handler's own: when every*)
(* close() is over, the consumer has ended; or, only where a wait was given*)
(* up, it is pending on a loop that has stopped or has been told to (close,*)
(* LoopRunner.stop).                                                       *)
THEOREM CloseEndsConsumer == ConnectSpec => []ClosedMeansEnded
<1>1. ASSUME TypeInv, StopInv
      PROVE  ClosedMeansEnded
  <2>1. closed => stage = "built"
    BY <1>1, TypeParts DEF FreshInv
  <2> QED
    BY <1>1, <2>1 DEF StopInv, ClosedMeansEnded, Leaving
<1> QED
  BY <1>1, TypeInvariance, StopInvariance, PTL
(***************************************************************************)
(* close() delivers.                                                       *)
(***************************************************************************)
LEMMA SentGrows ==
    ASSUME TypeInv, [ConnectNext]_connectVars
    PROVE  /\ \A x : x \in ToSet(sent) => x \in ToSet(sent')
           /\ \A i \in 1..Len(accepted) : accepted'[i] = accepted[i] /\ i \in 1..Len(accepted')
<1>0. /\ sent \in Seq(Records) /\ accepted \in Seq(Records) /\ inbox \in Seq(Records)
      /\ buffer \in Seq(Records) /\ Len(sent) \in Nat /\ Len(accepted) \in Nat
  BY TypeParts DEF DataOK
<1>1. CASE UNCHANGED <<sent, accepted>>
  BY <1>1
<1>p. ASSUME sent' \in Seq(Records),
             \A j \in 1..Len(sent) : sent'[j] = sent[j] /\ j \in 1..Len(sent')
      PROVE  \A x : x \in ToSet(sent) => x \in ToSet(sent')
  <2>1. ASSUME NEW x \in ToSet(sent)
        PROVE  x \in ToSet(sent')
    <3>1. PICK j \in 1..Len(sent) : sent[j] = x
      BY <1>0, <2>1, ToSetFacts
    <3>2. sent'[j] = x /\ j \in 1..Len(sent')
      BY <1>p, <3>1
    <3> QED
      BY <1>p, <3>2, ToSetFacts
  <2> QED
    BY <2>1
<1>2. CASE Sends
  <2>1. buffer[next] \in Records
    BY <1>0, <1>2, NothingRests DEF Sends
  <2>2. /\ sent' = Append(sent, buffer[next]) /\ accepted' = accepted
    BY <1>2 DEF Sends
  <2>3. /\ sent' \in Seq(Records)
        /\ \A j \in 1..Len(sent) : sent'[j] = sent[j] /\ j \in 1..Len(sent')
    BY <1>0, <2>1, <2>2
  <2> QED
    BY <1>p, <2>2, <2>3
<1>4. ASSUME NEW t \in Emitters, Puts(t)
      PROVE  /\ sent' = sent
             /\ \A i \in 1..Len(accepted) : accepted'[i] = accepted[i] /\ i \in 1..Len(accepted')
  <2>1. /\ <<t, emitted[t]>> \in Records /\ sent' = sent
        /\ accepted' = Append(accepted, <<t, emitted[t]>>)
    BY <1>4, RecordPut DEF Puts
  <2> QED
    BY <1>0, <2>1
<1> QED
  BY <1>1, <1>2, <1>4, DataKinds DEF Quiet, Ends, Strands

LEMMA FlagsStay ==
    ASSUME TypeInv, [ConnectNext]_connectVars, stage = "built"
    PROVE  /\ closing => closing' /\ atClose' = atClose
           /\ closed => closed'
           /\ trouble => trouble'
           /\ ~connOpen => ~connOpen'
<1>1. closing => closing' /\ atClose' = atClose
  BY BuiltFlags, CloseHistory DEF CloseSet
<1>2. closed => closed'
  BY BuiltFlags DEF CloseFinish
<1>3. ~connOpen => ~connOpen'
  BY BuiltFlags DEF CloseConn
<1>4. \A t \in Emitters : EmitterStep(t) => trouble' = trouble
  BY EmitterFrame
<1>5. LoopSteps => trouble' \in {trouble, TRUE}
  BY LoopFrame
<1>6. trouble => trouble'
  BY <1>4, <1>5, BuiltSteps, UserFrame, ConsumerFrame DEF connectVars, asyncVars
<1> QED
  BY <1>1, <1>2, <1>3, <1>6

LEMMA PastJoinStays ==
    ASSUME TypeInv, [ConnectNext]_connectVars, stage = "built", PastJoin
    PROVE  PastJoin'
<1>1. stage' = "built"
  BY BuiltSteps
<1>2. CASE closed \/ Ended \/ ~connOpen
  BY <1>1, <1>2, FlagsStay, EndedStays DEF PastJoin
<1>3. ASSUME NEW u \in Users, pc[u] \in AfterJoin
      PROVE  PastJoin'
  <2>0. pc \in [Threads -> EmitterPCs \cup UserPCs] /\ u \in Threads
    BY TypeParts DEF ThreadOK, Threads
  <2>1. CASE ~UserStep(u)
    BY <1>3, <2>1, UserSame DEF PastJoin
  <2>2. CASE UserStep(u)
    <3>1. CloseConn(u) \/ StopLoop(u) \/ StopAnyway(u) \/ CloseFinish(u)
      BY <1>3, <2>2 DEF UserStep, UserSteps, UserCalls, FlushCheck, Kick, KickFails, AwaitDrain,
         CloseCheck, CloseSet, Join, AfterJoin
    <3>2. CASE CloseFinish(u)
      BY <3>2 DEF CloseFinish, PastJoin
    <3>3. CASE CloseConn(u) \/ StopLoop(u) \/ StopAnyway(u)
      <4>1. pc'[u] \in AfterJoin
        BY <2>0, <3>3 DEF CloseConn, StopLoop, StopAnyway, GoTo, AfterJoin
      <4> QED
        BY <4>1 DEF PastJoin
    <3> QED
      BY <3>1, <3>2, <3>3
  <2> QED
    BY <2>1, <2>2
<1> QED
  BY <1>2, <1>3 DEF PastJoin

LEMMA DeliveredStays ==
    ASSUME TypeInv, [ConnectNext]_connectVars, stage = "built", closing, Delivered
    PROVE  closing' /\ Delivered'
<1>1. closing' /\ atClose' = atClose
  BY FlagsStay
<1>2. \A i \in 1..atClose : i \in 1..Len(accepted)
  BY TypeParts DEF DataOK
<1> QED
  BY <1>1, <1>2, SentGrows DEF Delivered

LEMMA GoesOnFacts ==
    ASSUME GoesOn
    PROVE  /\ consumer' = "final" => closing /\ inbox # << >> /\ inbox' = << >>
           /\ ~closed => consumer' \in {"wait", "done", "final"}
           /\ consumer' = "done" => closing /\ (consumer = "final" \/ inbox = << >>)
<1>1. CASE closed /\ consumer' = "dead"
  BY <1>1
<1>2. CASE ~closed /\ closing /\ consumer # "final" /\ inbox # << >>
  BY <1>2 DEF GoesOn
<1>3. CASE ~closed /\ ~(closing /\ consumer # "final" /\ inbox # << >>)
  <2>1. consumer' = IF closing THEN "done" ELSE "wait"
    BY <1>3 DEF GoesOn
  <2>2. CASE closing
    BY <1>3, <2>1, <2>2
  <2>3. CASE ~closing
    BY <2>1, <2>3
  <2> QED
    BY <2>2, <2>3
<1> QED
  BY <1>1, <1>2, <1>3 DEF GoesOn

(* The final drain takes all that was in the inbox when _closing was set.  *)
LEMMA FinalKind ==
    ASSUME TypeInv, [ConnectNext]_connectVars, consumer' = "final", consumer # "final"
    PROVE  closing /\ Ends /\ inbox' # inbox
<1>1. ~Cancelled
  BY DEF Cancelled, GoesOn, EndsCancelled, batchVars
<1>2. \A u \in Users : ~UserStep(u)
  BY UserFrame
<1>3. \A t \in Emitters : EmitterStep(t) => UNCHANGED consumer
  BY EmitterFrame
<1>4. ~LoopSteps
  BY <1>1 DEF LoopSteps, LoopCancels, LoopEnds, CancelAll, Halt, RunLate, batchVars
<1>5. ConsumerSteps
  <2>1. ~BuildStep /\ ~UNCHANGED connectVars
    BY BuildFrame DEF connectVars, asyncVars, batchVars
  <2>2. ~LoopEndsEarly
    BY <1>1 DEF LoopEndsEarly, batchVars
  <2> QED
    BY <1>2, <1>3, <1>4, <2>1, <2>2, NextCases
<1>6. Ends
  BY <1>5, ConsumerKinds DEF Sends
<1>7. GoesOn
  BY <1>5 DEF ConsumerSteps, Cycle, Publish, Published, PublishRaises, EndsCancelled
<1> QED
  BY <1>6, <1>7, GoesOnFacts

(* Before any close() is past the consumer's end, and with no trouble, only*)
(* the consumer itself touches what is to be sent.                         *)
LEMMA BeforeJoin ==
    ASSUME TypeInv, StopInv, CloseInv, [ConnectNext]_connectVars, stage = "built", ~PastJoin,
           ~trouble'
    PROVE  /\ ~Leaving /\ connOpen /\ connOpen' /\ ~closed /\ ~closed' /\ ~Ended /\ dropped = {} /\ ~trouble
           /\ \A u \in Users : pc'[u] \notin AfterJoin
           /\ ConsumerSteps \/ (dropped' = dropped /\ consumer' = consumer)
           /\ ~PublishRaises
<1>0. /\ pc \in [Threads -> EmitterPCs \cup UserPCs] /\ \A u \in Users : u \in Threads
      /\ FreshInv
  BY TypeParts DEF ThreadOK, Threads
<1>1. /\ connOpen /\ ~closed /\ ~Ended /\ \A u \in Users : pc[u] \notin AfterJoin
  BY DEF PastJoin
<1>2. ~trouble
  BY FlagsStay
<1>3. dropped = {} /\ "conn.close" \notin late
  BY <1>2 DEF CloseInv
<1>4. connOpen'
  BY <1>1, <1>3, BuiltFlags DEF CloseConn, AfterJoin
<1>5. ~closed'
  BY <1>1, BuiltFlags DEF CloseFinish, AfterJoin
<1>l. ~Leaving
  BY <1>1, <1>2 DEF StopInv
<1>6. ASSUME NEW u \in Users, pc'[u] \in AfterJoin
      PROVE  FALSE
  <2>2. Join(u)
    BY <1>1, <1>6, JoinSteps
  <2>3. ~(external /\ ~running)
    BY <1>0, <1>2 DEF FreshInv
  <2>4. GoTo(u, "raised")
    BY <1>1, <2>2, <2>3 DEF Join
  <2> QED
    BY <1>0, <1>6, <2>4 DEF GoTo, AfterJoin
<1>7. ASSUME ~ConsumerSteps
      PROVE  dropped' = dropped /\ consumer' = consumer
  <2>1. \A u \in Users : UserStep(u) => UNCHANGED <<dropped, consumer>>
    BY UserFrame
  <2>2. \A t \in Emitters : EmitterStep(t) => UNCHANGED <<dropped, consumer>>
    BY EmitterFrame
  <2>3. LoopSteps => UNCHANGED <<dropped, consumer>>
    <3>1. ~LoopCancels /\ ~LoopEnds
      BY DEF LoopCancels, LoopEnds
    <3>2. ~CancelAll /\ ~Halt
      BY <1>l DEF CancelAll, Halt, Leaving
    <3> QED
      BY <3>1, <3>2 DEF LoopSteps, RunLate
  <2> QED
    BY <1>7, <2>1, <2>2, <2>3, BuiltSteps DEF connectVars, asyncVars, batchVars
<1>8. ~PublishRaises
  <2>1. PublishRaises => trouble' = (trouble \/ connOpen)
    BY DEF PublishRaises
  <2> QED
    BY <1>1, <2>1
<1> QED
  BY <1>1, <1>2, <1>3, <1>l, <1>4, <1>5, <1>6, <1>7, <1>8

(* Where the consumer ends by itself, it has passed all it had to deliver. *)
LEMMA EndsDelivered ==
    ASSUME TypeInv, RecordsInv, OrderInv, StopInv, CloseInv, [ConnectNext]_connectVars,
           stage = "built", ~PastJoin, ~trouble', Ended'
    PROVE  closing' /\ Delivered'
<1>0. /\ ~closed /\ ~Ended /\ dropped = {} /\ ~PublishRaises /\ ConsumerSteps
      /\ consumer # "cancelling"
  BY BeforeJoin DEF Ended, Leaving
<1>1. /\ Len(accepted) \in Nat /\ Len(inbox) \in Nat /\ Len(buffer) \in Nat
      /\ Taken \in Nat /\ Passed \in Nat /\ Passed <= Taken
      /\ Len(accepted) = Taken + Len(inbox) /\ Passed = Taken - Len(buffer) + next - 1
      /\ next \in Nat /\ next <= Len(buffer) + 1 /\ atClose \in 0..Len(accepted)
  BY Counts, NothingRests, TypeParts DEF RecordsInv, DataOK
<1>2. Cycle \/ Published
  BY <1>0 DEF ConsumerSteps, Publish, Ended
<1>3. GoesOn /\ UNCHANGED <<accepted, sent, closing, atClose>> /\ next = Len(buffer) + 1
  <2>1. CASE Cycle
    <3>1. ~Publishing /\ ~Stranded
      BY <2>1 DEF Cycle, Publishing, Stranded
    <3>2. next = 1 /\ Len(buffer) = 0
      BY <3>1, NothingRests
    <3> QED
      BY <2>1, <3>2 DEF Cycle, lifeVars, Ended
  <2>2. CASE Published
    <3>1. next = Len(buffer) + 1
      BY <1>1, <2>2 DEF Published
    <3> QED
      BY <1>0, <2>2, <3>1 DEF Published, lifeVars
  <2> QED
    BY <1>2, <2>1, <2>2
<1>4. consumer' = "done"
  BY <1>0, <1>3, GoesOnFacts DEF Ended
<1>5. closing /\ (consumer = "final" \/ inbox = << >>)
  BY <1>3, <1>4, GoesOnFacts
<1>6. atClose <= Taken
  <2>1. CASE consumer = "final"
    BY <2>1 DEF CloseInv
  <2>2. CASE inbox = << >>
    <3>1. Len(inbox) = 0
      BY <2>2
    <3> QED
      BY <1>1, <3>1
  <2> QED
    BY <1>5, <2>1, <2>2
<1>7. Passed = Taken
  BY <1>1, <1>3
<1>8. \A i \in 1..atClose : i \in 1..Passed
  BY <1>1, <1>6, <1>7
<1>9. \A b \in 1..Passed : accepted[b] \in ToSet(sent)
  BY <1>0 DEF OrderInv
<1> QED
  BY <1>3, <1>5, <1>8, <1>9 DEF Delivered
LEMMA CloseFresh ==
    ASSUME TypeInv, [ConnectNext]_connectVars, stage # "built"
    PROVE  CloseInv'
<1>1. consumer' # "final"
  BY FreshAfter, DataStep DEF DataOK, Publishing
<1>2. \A u \in Users : pc'[u] \notin AfterJoin \cup {"join"}
  BY FreshAfter DEF Threads, AfterJoin
<1>3. ~trouble' => ~PastJoin'
  BY <1>2, FreshAfter DEF PastJoin, Ended
<1> QED
  BY <1>1, <1>2, <1>3, FreshAfter DEF CloseInv

LEMMA CloseBuilt ==
    ASSUME TypeInv, RecordsInv, OrderInv, StopInv, CloseInv, [ConnectNext]_connectVars,
           stage = "built"
    PROVE  CloseInv'
<1>0. /\ pc \in [Threads -> EmitterPCs \cup UserPCs]
      /\ \A u \in Users : u \in Threads
      /\ Taken \in Nat /\ Len(accepted) \in Nat /\ atClose \in 0..Len(accepted)
  BY Counts, TypeParts DEF ThreadOK, Threads, RecordsInv, DataOK
<1>1. closing => closing' /\ atClose' = atClose
  BY FlagsStay
<1>2. trouble => trouble'
  BY FlagsStay
<1>3. ASSUME NEW u \in Users, pc'[u] \in AfterJoin \cup {"join"}
      PROVE  closing'
  <2>1. CASE pc[u] \in AfterJoin \cup {"join"}
    BY <1>1, <2>1 DEF CloseInv
  <2>2. CASE pc[u] \notin AfterJoin \cup {"join"}
    <3>1. UserStep(u)
      BY <1>3, <2>2, UserSame
    <3>2. CloseSet(u)
      <4>1. ~(UserCalls(u) \/ FlushCheck(u) \/ Kick(u) \/ KickFails(u) \/ AwaitDrain(u)
              \/ CloseCheck(u))
        BY <1>0, <1>3 DEF UserCalls, FlushCheck, Kick, KickFails, AwaitDrain, CloseCheck,
           GoTo, AfterJoin
      <4>2. ~(Join(u) \/ CloseConn(u) \/ StopLoop(u) \/ StopAnyway(u) \/ CloseFinish(u))
        BY <2>2 DEF Join, CloseConn, StopLoop, StopAnyway, CloseFinish, AfterJoin
      <4> QED
        BY <3>1, <4>1, <4>2 DEF UserStep, UserSteps
    <3> QED
      BY <3>2 DEF CloseSet
  <2> QED
    BY <2>1, <2>2
<1>4. ASSUME consumer' = "final"
      PROVE  closing' /\ atClose' <= Taken'
  <2>1. CASE consumer = "final"
    <3>1. closing /\ atClose <= Taken
      BY <2>1 DEF CloseInv
    <3> QED
      BY <1>0, <1>1, <3>1, CountsGrow
  <2>2. CASE consumer # "final"
    <3>1. closing /\ Ends /\ inbox' # inbox
      BY <1>4, <2>2, FinalKind
    <3>2. Taken' = Len(accepted)
      BY <3>1, CountsStep DEF RecordsInv
    <3> QED
      BY <1>0, <1>1, <3>1, <3>2
  <2> QED
    BY <2>1, <2>2
<1>5. ASSUME "conn.close" \in late'
      PROVE  trouble'
  <2>1. CASE "conn.close" \in late
    BY <1>2, <2>1 DEF CloseInv
  <2>2. CASE "conn.close" \notin late
    <3>1. PICK u \in Users : KickFails(u) \/ CloseConn(u) \/ StopLoop(u) \/ StopAnyway(u)
      BY <1>5, <2>2, BuiltFlags
    <3>2. CloseConn(u)
      BY <1>5, <2>2, <3>1 DEF KickFails, StopLoop, StopAnyway
    <3> QED
      BY <1>5, <2>2, <3>2 DEF CloseConn
  <2> QED
    BY <2>1, <2>2
<1>6. ASSUME ~trouble', PastJoin'
      PROVE  closing' /\ Delivered'
  <2>1. CASE PastJoin
    <3>1. closing /\ Delivered
      BY <1>2, <1>6, <2>1 DEF CloseInv
    <3> QED
      BY <3>1, DeliveredStays
  <2>2. CASE ~PastJoin
    <3>1. connOpen' /\ ~closed' /\ \A u \in Users : pc'[u] \notin AfterJoin
      BY <1>6, <2>2, BeforeJoin
    <3>2. Ended'
      BY <1>6, <3>1 DEF PastJoin
    <3> QED
      BY <1>6, <2>2, <3>2, EndsDelivered
  <2> QED
    BY <2>1, <2>2
<1>7. ASSUME ~trouble', ~PastJoin'
      PROVE  dropped' = {}
  <2>1. ~PastJoin
    BY <1>7, PastJoinStays
  <2>2. /\ dropped = {} /\ ~PublishRaises
        /\ ConsumerSteps \/ dropped' = dropped
    BY <1>7, <2>1, BeforeJoin
  <2> QED
    BY <2>2 DEF ConsumerSteps, Cycle, Publish, Published
<1> QED
  BY <1>3, <1>4, <1>5, <1>6, <1>7 DEF CloseInv

(* A close() that returned, with no failure of the broker and no wait given*)
(* up, has delivered every record that was in the inbox when _closing was  *)
(* first set: it drains before it closes the connection (close, _consumer).*)
THEOREM CloseDrainsFirst == ConnectSpec => []CloseDelivers
<1>1. ConnectInit => CloseInv
  <2> SUFFICES ASSUME ConnectInit PROVE CloseInv
    OBVIOUS
  <2>1. /\ ~closed /\ late = {} /\ dropped = {} /\ consumer = "wait" /\ stage = "choose"
        /\ \A u \in Users : pc[u] = "idle"
    BY DEF ConnectInit, Unused, Threads
  <2> QED
    BY <2>1 DEF CloseInv, PastJoin, AfterJoin, Ended
<1>2. TypeInv /\ RecordsInv /\ OrderInv /\ StopInv /\ CloseInv /\ [ConnectNext]_connectVars
         => CloseInv'
  BY CloseFresh, CloseBuilt
<1>3. ASSUME TypeInv, CloseInv
      PROVE  CloseDelivers
  <2> SUFFICES ASSUME closed, ~trouble, NEW i \in 1..atClose
               PROVE  Contains(sent, accepted[i])
    BY DEF CloseDelivers
  <2>1. accepted[i] \in ToSet(sent) /\ sent \in Seq(Records)
    BY <1>3, TypeParts DEF CloseInv, PastJoin, Delivered, DataOK
  <2> QED
    BY <2>1, ToSetFacts DEF Contains
<1> QED
  BY <1>1, <1>2, <1>3, TypeInvariance, RecordsInvariance, OrderInvariance, StopInvariance, PTL
     DEF ConnectSpec
(***************************************************************************)
(* The handler implements what BrokerDelivery promises of one that never   *)
(* tries again: what has been passed is done with.                         *)
(***************************************************************************)
Delivery == INSTANCE BrokerDelivery
            WITH retries <- FALSE, lost <- dropped, passed <- Passed, confirmed <- Passed

LEMMA DeliveryInit == ConnectInit => Delivery!DeliveryInit
<1> SUFFICES ASSUME ConnectInit PROVE Delivery!DeliveryInit
  OBVIOUS
<1>1. /\ accepted = << >> /\ inbox = << >> /\ buffer = << >> /\ sent = << >> /\ dropped = {}
      /\ next = 1
  BY DEF ConnectInit, Unused
<1>2. Passed = 0
  <2>1. Len(accepted) = 0 /\ Len(inbox) = 0 /\ Len(buffer) = 0
    BY <1>1
  <2>2. Taken = 0
    BY <2>1 DEF Taken
  <2>3. next = 1
    BY <1>1
  <2> QED
    BY <2>1, <2>2, <2>3 DEF Passed
<1> QED
  BY <1>1, <1>2 DEF Delivery!DeliveryInit

(* The next message of the batch is published.                             *)
LEMMA SendSettles ==
    ASSUME TypeInv, RecordsInv, [ConnectNext]_connectVars, Sends
    PROVE  Delivery!DeliveryNext
<1> DEFINE p == Passed
<1>1. /\ p \in Nat /\ p + 1 \in Nat /\ sent \in Seq(Records) /\ accepted \in Seq(Records)
  BY Counts, TypeParts DEF RecordsInv, DataOK
<1>2. buffer[next] = accepted[p + 1] /\ p + 1 <= Len(accepted)
  <2>1. next \in next..Len(buffer) /\ p + 1 + next - next = p + 1
    BY <1>1, NothingRests DEF Sends
  <2>2. p + 1 \in (p + 1)..Taken /\ buffer[next] = accepted[p + 1]
    BY <2>1, WhereRecordsAre
  <2> QED
    BY <1>1, <2>2, Counts DEF RecordsInv
<1>3. Passed' = p + 1
  BY CountsStep DEF RecordsInv
<1>4. sent' = Append(sent, accepted[p + 1]) /\ UNCHANGED <<accepted, dropped>>
  BY <1>2 DEF Sends
<1> HIDE DEF p
<1>5. sent' = sent \o SubSeq(accepted, p + 1, p + 1)
  BY <1>1, <1>2, <1>4, Stretches
<1>6. ((p + 1)..p) \cup ((p + 1 + 1)..(p + 1)) = {}
  BY <1>1
<1>7. Delivery!Settle(p, p + 1, p + 1)
  <2>1. p <= p /\ p <= p + 1 /\ p + 1 <= p + 1
    BY <1>1
  <2>2. dropped' = dropped \cup {accepted[m] : m \in ((p + 1)..p) \cup ((p + 1 + 1)..(p + 1))}
    BY <1>4, <1>6
  <2> QED
    BY <1>2, <1>3, <1>4, <1>5, <2>1, <2>2 DEF Delivery!Settle, p
<1> QED
  BY <1>1, <1>7 DEF Delivery!DeliveryNext

(* What is left of a batch that is over is lost.                           *)
LEMMA EndSettles ==
    ASSUME TypeInv, RecordsInv, [ConnectNext]_connectVars, Ends
    PROVE  Delivery!DeliveryNext
<1> DEFINE p == Passed
           n == Taken
<1>1. /\ p \in Nat /\ n \in Nat /\ p <= p /\ p <= n /\ n <= Len(accepted) /\ Passed' = n
      /\ sent \in Seq(Records) /\ accepted \in Seq(Records)
  BY Counts, CountsStep, TypeParts DEF RecordsInv, DataOK
<1>2. dropped' = dropped \cup Rest /\ UNCHANGED <<sent, accepted>>
  BY DEF Ends
<1>3. Rest = {accepted[m] : m \in ((p + 1)..p) \cup ((p + 1)..n)}
  <2>1. (p + 1)..p = {}
    BY <1>1
  <2>2. \A x : x \in Rest <=> \E b \in (p + 1)..n : accepted[b] = x
    BY WhereRecordsAre
  <2> HIDE DEF p, n
  <2> QED
    BY <2>1, <2>2
<1> HIDE DEF p, n
<1>4. sent' = sent \o SubSeq(accepted, p + 1, p)
  BY <1>1, <1>2, Stretches
<1>5. Delivery!Settle(p, p, n)
  BY <1>1, <1>2, <1>3, <1>4 DEF Delivery!Settle, p
<1> QED
  BY <1>1, <1>5 DEF Delivery!DeliveryNext

(* A record that is put in the inbox was never put there before.           *)
LEMMA PutAccepts ==
    ASSUME TypeInv, RecordsInv, RecordsInv', [ConnectNext]_connectVars,
           NEW t \in Emitters, Puts(t)
    PROVE  Delivery!DeliveryNext
<1> DEFINE r == <<t, emitted[t]>>
           n == Len(accepted)
<1>1. /\ r \in Records /\ accepted \in Seq(Records) /\ n \in Nat /\ Passed' = Passed
  BY RecordPut, TypeParts, CountsStep DEF DataOK, RecordsInv
<1>2. accepted' = Append(accepted, r) /\ UNCHANGED <<sent, dropped>>
  BY DEF Puts
<1> HIDE DEF r
<1>3. /\ Len(accepted') = n + 1 /\ accepted'[n + 1] = r
      /\ \A i \in 1..n : accepted'[i] = accepted[i]
  BY <1>1, <1>2
<1>4. \A i \in 1..n : accepted[i] # r
  <2>1. ASSUME NEW i \in 1..n, accepted[i] = r
        PROVE  FALSE
    <3>1. i \in 1..(n + 1) /\ n + 1 \in 1..(n + 1) /\ i # n + 1
      BY <1>1
    <3>2. accepted'[i] = accepted'[n + 1]
      BY <1>3, <2>1
    <3> QED
      BY <1>3, <3>1, <3>2 DEF RecordsInv, AcceptedInv
  <2> QED
    BY <2>1
<1>5. Delivery!Accept(r)
  BY <1>1, <1>2, <1>4 DEF Delivery!Accept
<1> QED
  BY <1>1, <1>5 DEF Delivery!DeliveryNext

LEMMA DeliveryStep ==
    ASSUME TypeInv, RecordsInv, RecordsInv', [ConnectNext]_connectVars
    PROVE  [Delivery!DeliveryNext]_(Delivery!deliveryVars)
<1>1. CASE Quiet \/ Strands
  <2>1. UNCHANGED <<accepted, sent, dropped, Passed>>
    BY <1>1, CountsStep DEF Quiet, Strands, RecordsInv
  <2> QED
    BY <2>1 DEF Delivery!deliveryVars
<1> QED
  BY <1>1, DataKinds, SendSettles, EndSettles, PutAccepts

(* Whatever its threads, its loop and the broker do, the handler deals with*)
(* the records in the order in which they entered the inbox, each once: it *)
(* publishes some in that order and loses the others, and it never sends a *)
(* record again (_consumer, _publish_buffer, close).                       *)
THEOREM HandlerDelivers == ConnectSpec => Delivery!DeliverySpec
<1>1. ConnectInit => Delivery!DeliveryInit
  BY DeliveryInit
<1>2. TypeInv /\ RecordsInv /\ RecordsInv' /\ [ConnectNext]_connectVars
         => [Delivery!DeliveryNext]_(Delivery!deliveryVars)
  BY DeliveryStep
<1> QED
  BY <1>1, <1>2, TypeInvariance, RecordsInvariance, PTL DEF ConnectSpec, Delivery!DeliverySpec
=============================================================================
