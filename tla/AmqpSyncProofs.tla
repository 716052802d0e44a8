---------------------------- MODULE AmqpSyncProofs ----------------------------
(***************************************************************************)
(* Proofs about AmqpSync for any threads, any number of records of each and*)
(* any batch sizes.                                                        *)
(***************************************************************************)
EXTENDS AmqpSync, SeqLemmas

(***************************************************************************)
(* Where a user can be in which call. With it the types, and who holds     *)
(* which lock, are inductive.                                              *)
(***************************************************************************)
CallInv ==
    /\ \A u \in Users :
          /\ pc[u] = "idle" <=> call[u] = "none"
          /\ pc[u] = "exit" => call[u] = "exit"
          /\ pc[u] \in {"flush", "lock", "publish"} => call[u] \in {"flush", "exit"}
          /\ pc[u] \in {"close", "set", "conn"} => call[u] \in {"close", "exit"}
    /\ \A t \in Emitters : pc[t] # "idle" => emitted[t] >= 1

TypeInv == TypeOK /\ CallInv

(***************************************************************************)
(* The records. No record is accepted twice; and the buffer holds the      *)
(* last ones accepted: the first Settled of them have left it.             *)
(***************************************************************************)
Settled == Len(accepted) - Len(buffer)

AcceptedInv ==
    /\ \A i \in 1..Len(accepted) :
          /\ accepted[i][2] <= emitted[accepted[i][1]]
          /\ pc[accepted[i][1]] \in {"enter", "append"} =>
                accepted[i][2] < emitted[accepted[i][1]]
    /\ \A i, j \in 1..Len(accepted) : accepted[i] = accepted[j] => i = j

BufferInv ==
    /\ Settled \in Nat
    /\ \A i \in 1..Len(buffer) : buffer[i] = accepted[Settled + i]

(* With fail-open, what was sent comes before what is still to be sent, and*)
(* what was dropped has left the buffer.                                   *)
OnceInv ==
    settings.failOpen =>
        /\ PartOf(sent, accepted)
        /\ \A j \in 1..Len(sent) : \E b \in 1..(Settled + next - 1) : accepted[b] = sent[j]
        /\ \A r \in dropped : \E b \in 1..Settled : accepted[b] = r
        /\ ToSet(sent) \cap dropped = {}

(* Without it, what has left the buffer was sent, and what the loop has    *)
(* passed.                                                                 *)
KeptInv ==
    ~settings.failOpen =>
        /\ \A b \in 1..Settled : accepted[b] \in ToSet(sent)
        /\ \A i \in 1..(next - 1) : buffer[i] \in ToSet(sent)

BarrierInv ==
    \A u \in Users :
        /\ before[u] <= Len(accepted)
        /\ call[u] = "flush" /\ pc[u] = "returned" => closed \/ before[u] <= Settled

(***************************************************************************)
(* An exit closes an empty handler, and keeps emitters out while it does.  *)
(***************************************************************************)
NobodyCloses == \A u \in Users : call[u] # "close"

ExitInv ==
    /\ \A u \in Users : pc[u] = "conn" \/ (call[u] = "exit" /\ pc[u] = "returned") => closed
    /\ NobodyCloses =>
          /\ closed => buffer = << >> /\ \A t \in Emitters : pc[t] \notin {"append", "publish"}
          /\ \A u \in Users : pc[u] \in {"close", "set"} => buffer = << >>
(***************************************************************************)
(* Steps. Whatever a step does, it moves at most one thread.               *)
(***************************************************************************)
ThreadSteps(t) ==
    \/ t \in Emitters /\ (CallHandle(t) \/ EmitSteps(t))
    \/ t \in Users /\ (UserCalls(t) \/ UserSteps(t))

LEMMA NextCases ==
    ASSUME [SyncNext]_syncVars
    PROVE  \/ UNCHANGED <<settings, buffer, next, accepted, sent, dropped, closeVars,
                          callVars, lock, hlock, pc>> /\ due' \in {due, TRUE}
           \/ \E t \in Threads : ThreadSteps(t)
  BY DEF SyncNext, syncVars, bufferVars, closeVars, callVars, IntervalElapses, Threads, ThreadSteps

LEMMA EmittersAndUsers ==
    ASSUME NEW t \in Threads
    PROVE  t # NoThread /\ (t \in Emitters <=> t \notin Users)
  BY ThreadsAssumption DEF Threads

LEMMA RecordIsPair ==
    /\ \A r \in Records : /\ r[1] \in Emitters /\ r[2] \in Nat
                          /\ r[2] >= 1 /\ r[2] <= MaxEmits[r[1]] /\ r = <<r[1], r[2]>>
    /\ \A t \in Emitters, n \in Nat : n >= 1 /\ n <= MaxEmits[t] => <<t, n>> \in Records
<1>1. ASSUME NEW r \in Records
      PROVE  /\ r[1] \in Emitters /\ r[2] \in Nat
             /\ r[2] >= 1 /\ r[2] <= MaxEmits[r[1]] /\ r = <<r[1], r[2]>>
  <2>1. PICK t \in Emitters : r \in {t} \X (1..MaxEmits[t])
    BY DEF Records
  <2>2. MaxEmits[t] \in Nat
    BY MaxEmitsAssumption
  <2> QED
    BY <2>1, <2>2
<1>2. ASSUME NEW t \in Emitters, NEW n \in Nat, n >= 1, n <= MaxEmits[t]
      PROVE  <<t, n>> \in Records
  <2>1. n \in 1..MaxEmits[t]
    BY <1>2, MaxEmitsAssumption
  <2>2. <<t, n>> \in {t} \X (1..MaxEmits[t])
    BY <2>1
  <2> QED
    BY <2>2 DEF Records
<1> QED
  BY <1>1, <1>2

(***************************************************************************)
(* Types and locks. Control is what TypeInv says of the threads and the    *)
(* locks, DataOK what it says of the rest.                                 *)
(***************************************************************************)
Control ==
    /\ pc \in [Threads -> EmitterPCs \cup UserPCs]
    /\ \A t \in Emitters : pc[t] \in EmitterPCs
    /\ \A u \in Users : pc[u] \in UserPCs
    /\ call \in [Users -> Calls]
    /\ lock \in Threads \cup {NoThread}
    /\ \A t \in Threads : pc[t] = "publish" <=> lock = t
    /\ hlock \in Threads \cup {NoThread}
    /\ \A t \in Emitters : pc[t] \in {"append", "publish"} <=> hlock = t
    /\ \A u \in Users :
          call[u] = "exit" /\ pc[u] \notin {"exit", "returned", "raised"} <=> hlock = u
    /\ \A u \in Users :
          /\ pc[u] = "idle" <=> call[u] = "none"
          /\ pc[u] = "exit" => call[u] = "exit"
          /\ pc[u] \in {"flush", "lock", "publish"} => call[u] \in {"flush", "exit"}
          /\ pc[u] \in {"close", "set", "conn"} => call[u] \in {"close", "exit"}

EmittedOK ==
    /\ emitted \in [Emitters -> Nat]
    /\ \A t \in Emitters : emitted[t] <= MaxEmits[t]
    /\ \A t \in Emitters : pc[t] # "idle" => emitted[t] >= 1

DataOK ==
    /\ settings \in [batchSize : BatchSizes, failOpen : BOOLEAN]
    /\ buffer \in Seq(Records)
    /\ settings.failOpen /\ lock = NoThread => Len(buffer) < settings.batchSize
    /\ due \in BOOLEAN
    /\ closed \in BOOLEAN
    /\ connOpen \in BOOLEAN
    /\ next \in 1..(Len(buffer) + 1)
    /\ lock = NoThread => next = 1
    /\ accepted \in Seq(Records)
    /\ sent \in Seq(Records)
    /\ dropped \subseteq Records
    /\ before \in [Users -> Nat]

LEMMA BatchSizePositive ==
    ASSUME settings \in [batchSize : BatchSizes, failOpen : BOOLEAN]
    PROVE  settings.batchSize \in Nat /\ settings.batchSize >= 1
<1>1. settings.batchSize \in Nat \ {0}
  BY BatchSizesAssumption
<1> QED
  BY <1>1

LEMMA TypeParts == TypeInv <=> Control /\ EmittedOK /\ DataOK
  BY DEF TypeInv, TypeOK, CallInv, Control, EmittedOK, DataOK

LEMMA TypePartsNext == TypeInv' <=> Control' /\ EmittedOK' /\ DataOK'
  BY DEF TypeInv, TypeOK, CallInv, Control, EmittedOK, DataOK

(* A thread that is in a call moves to w, and takes or releases locks for  *)
(* itself alone.                                                           *)
LEMMA ControlMove ==
    ASSUME Control, NEW t \in Threads, NEW w, GoTo(t, w), UNCHANGED call,
           t \in Emitters => w \in EmitterPCs,
           t \in Users => /\ w \in UserPCs /\ w # "idle" /\ call[t] # "none"
                          /\ w = "exit" => call[t] = "exit"
                          /\ w \in {"flush", "lock", "publish"} => call[t] \in {"flush", "exit"}
                          /\ w \in {"close", "set", "conn"} => call[t] \in {"close", "exit"},
           lock' = lock \/ (lock = NoThread /\ lock' = t) \/ (lock = t /\ lock' = NoThread),
           w = "publish" <=> lock' = t,
           hlock' = hlock \/ (hlock = NoThread /\ hlock' = t) \/ (hlock = t /\ hlock' = NoThread),
           t \in Emitters => (w \in {"append", "publish"} <=> hlock' = t),
           t \in Users =>
              (call[t] = "exit" /\ w \notin {"exit", "returned", "raised"} <=> hlock' = t)
    PROVE  Control'
<1>0. t # NoThread /\ (t \in Emitters <=> t \notin Users) /\ t \in Emitters \cup Users
  BY EmittersAndUsers DEF Threads
<1>1. /\ pc' \in [Threads -> EmitterPCs \cup UserPCs]
      /\ pc'[t] = w
      /\ \A x \in Threads : x # t => pc'[x] = pc[x]
  <2>1. w \in EmitterPCs \cup UserPCs
    BY <1>0
  <2> QED
    BY <2>1 DEF GoTo, Control
<1>2. \A x \in Threads : x # t => (lock' = x <=> lock = x) /\ (hlock' = x <=> hlock = x)
  BY <1>0, EmittersAndUsers
<1>3. lock' \in Threads \cup {NoThread} /\ hlock' \in Threads \cup {NoThread}
  BY DEF Control
<1>4. /\ \A x \in Emitters : pc'[x] \in EmitterPCs
      /\ \A u \in Users : pc'[u] \in UserPCs
  BY <1>0, <1>1 DEF Control, Threads
<1>5. \A x \in Threads : pc'[x] = "publish" <=> lock' = x
  BY <1>1, <1>2 DEF Control
<1>6. \A x \in Emitters : pc'[x] \in {"append", "publish"} <=> hlock' = x
  BY <1>0, <1>1, <1>2 DEF Control, Threads
<1>7. \A u \in Users :
         call[u] = "exit" /\ pc'[u] \notin {"exit", "returned", "raised"} <=> hlock' = u
  BY <1>0, <1>1, <1>2 DEF Control, Threads
<1>8. \A u \in Users :
          /\ pc'[u] = "idle" <=> call[u] = "none"
          /\ pc'[u] = "exit" => call[u] = "exit"
          /\ pc'[u] \in {"flush", "lock", "publish"} => call[u] \in {"flush", "exit"}
          /\ pc'[u] \in {"close", "set", "conn"} => call[u] \in {"close", "exit"}
  BY <1>0, <1>1 DEF Control, Threads
<1> QED
  BY <1>1, <1>3, <1>4, <1>5, <1>6, <1>7, <1>8 DEF Control

LEMMA ReturnMove ==
    ASSUME Control, NEW t \in Threads, FlushReturns(t) \/ FlushRaises(t), UNCHANGED call,
           pc[t] \in {"flush", "lock", "publish"},
           (lock' = lock /\ lock # t) \/ (lock = t /\ lock' = NoThread)
    PROVE  Control'
<1>0. t # NoThread /\ (t \in Emitters <=> t \notin Users) /\ t \in Emitters \cup Users
  BY EmittersAndUsers DEF Threads
<1>1. lock' # t /\ (lock' = lock \/ (lock = t /\ lock' = NoThread))
  BY <1>0
<1>2. CASE t \in Emitters
  <2>1. GoTo(t, "idle") /\ hlock' = IF hlock = t THEN NoThread ELSE hlock
    BY <1>2 DEF FlushReturns, FlushRaises, LeaveHandler
  <2>2. hlock' # t
    BY <1>0, <2>1
  <2> QED
    BY <1>0, <1>1, <1>2, <2>1, <2>2, ControlMove DEF EmitterPCs
<1>3. CASE t \in Users
  <2>1. call[t] \in {"flush", "exit"} /\ (call[t] = "exit" <=> hlock = t)
    BY <1>3 DEF Control
  <2>2. CASE FlushReturns(t) /\ call[t] = "exit"
    <3>1. GoTo(t, "close") /\ hlock' = hlock
      BY <1>0, <1>3, <2>2 DEF FlushReturns
    <3> QED
      BY <1>0, <1>1, <1>3, <2>1, <2>2, <3>1, ControlMove DEF UserPCs
  <2>3. CASE FlushReturns(t) /\ call[t] # "exit"
    <3>1. GoTo(t, "returned") /\ hlock' = hlock
      BY <1>0, <1>3, <2>3 DEF FlushReturns
    <3> QED
      BY <1>0, <1>1, <1>3, <2>1, <2>3, <3>1, ControlMove DEF UserPCs
  <2>4. CASE FlushRaises(t)
    <3>1. GoTo(t, "raised") /\ hlock' = IF hlock = t THEN NoThread ELSE hlock
      BY <1>0, <1>3, <2>4 DEF FlushRaises, LeaveHandler
    <3>2. hlock' # t
      BY <1>0, <3>1
    <3> QED
      BY <1>0, <1>1, <1>3, <2>1, <3>1, <3>2, ControlMove DEF UserPCs
  <2> QED
    BY <2>2, <2>3, <2>4
<1> QED
  BY <1>0, <1>2, <1>3

LEMMA ControlEmit ==
    ASSUME Control, NEW t \in Emitters, CallHandle(t) \/ Enter(t) \/ AppendRecord(t)
    PROVE  Control'
<1>0. t \in Threads /\ t # NoThread /\ t \notin Users
  BY EmittersAndUsers DEF Threads
<1>1. CASE CallHandle(t)
  <2>1. pc[t] = "idle" /\ GoTo(t, "enter") /\ UNCHANGED <<call, lock, hlock>>
    BY <1>1 DEF CallHandle
  <2>2. lock # t /\ hlock # t
    BY <1>0, <2>1 DEF Control
  <2> QED
    BY <1>0, <2>1, <2>2, ControlMove DEF EmitterPCs
<1>2. CASE Enter(t)
  <2>1. /\ pc[t] = "enter" /\ hlock = NoThread /\ UNCHANGED <<call, lock>>
        /\ \/ GoTo(t, "idle") /\ hlock' = hlock
           \/ GoTo(t, "append") /\ hlock' = t
    BY <1>2 DEF Enter, callVars
  <2>2. lock # t
    BY <1>0, <2>1 DEF Control
  <2>3. CASE GoTo(t, "idle") /\ hlock' = hlock
    BY <1>0, <2>1, <2>2, <2>3, ControlMove DEF EmitterPCs
  <2>4. CASE GoTo(t, "append") /\ hlock' = t
    BY <1>0, <2>1, <2>2, <2>4, ControlMove DEF EmitterPCs
  <2> QED
    BY <2>1, <2>3, <2>4
<1>3. CASE AppendRecord(t)
  <2>1. /\ pc[t] = "append" /\ lock = NoThread /\ UNCHANGED call
        /\ \/ GoTo(t, "publish") /\ lock' = t /\ hlock' = hlock
           \/ GoTo(t, "idle") /\ lock' = lock /\ hlock' = IF hlock = t THEN NoThread ELSE hlock
    BY <1>3 DEF AppendRecord, callVars, LeaveHandler
  <2>2. hlock = t
    BY <2>1 DEF Control
  <2>3. CASE GoTo(t, "publish") /\ lock' = t /\ hlock' = hlock
    BY <1>0, <2>1, <2>2, <2>3, ControlMove DEF EmitterPCs
  <2>4. CASE GoTo(t, "idle") /\ lock' = lock /\ hlock' = IF hlock = t THEN NoThread ELSE hlock
    BY <1>0, <2>1, <2>2, <2>4, ControlMove DEF EmitterPCs
  <2> QED
    BY <2>1, <2>3, <2>4
<1> QED
  BY <1>1, <1>2, <1>3

LEMMA ControlFlush ==
    ASSUME Control, NEW t \in Threads, FlushSteps(t)
    PROVE  Control'
<1>1. CASE Publish(t)
  BY <1>1 DEF Publish, Control, callVars
<1>2. CASE PublishRaises(t) \/ FlushDone(t)
  <2>1. /\ pc[t] = "publish" /\ lock' = NoThread /\ UNCHANGED call
        /\ FlushReturns(t) \/ FlushRaises(t)
    BY <1>2 DEF PublishRaises, FlushDone, callVars
  <2>2. lock = t
    BY <2>1 DEF Control
  <2> QED
    BY <2>1, <2>2, ReturnMove
<1> QED
  BY <1>1, <1>2 DEF FlushSteps

LEMMA ControlCall ==
    ASSUME Control, NEW u \in Users, UserCalls(u)
    PROVE  Control'
<1>0. u \in Threads /\ u # NoThread /\ u \notin Emitters
  BY EmittersAndUsers DEF Threads
<1>1. PICK c \in {"flush", "close", "exit"} :
         /\ pc[u] = "idle" /\ UNCHANGED <<lock, hlock>>
         /\ call' = [call EXCEPT ![u] = c]
         /\ pc' = [pc EXCEPT ![u] = c]
  BY DEF UserCalls, GoTo
<1>2. /\ pc'[u] = c /\ call'[u] = c
      /\ \A x \in Threads : x # u => pc'[x] = pc[x]
      /\ \A x \in Users : x # u => call'[x] = call[x]
      /\ pc' \in [Threads -> EmitterPCs \cup UserPCs]
      /\ call' \in [Users -> Calls]
  BY <1>0, <1>1 DEF Control, UserPCs, Calls
<1>3. lock # u /\ hlock # u
  BY <1>0, <1>1 DEF Control
<1>4. /\ \A t \in Emitters : pc'[t] \in EmitterPCs
      /\ \A x \in Users : pc'[x] \in UserPCs
  BY <1>0, <1>2 DEF Control, Threads, UserPCs
<1>5. /\ \A t \in Threads : pc'[t] = "publish" <=> lock' = t
      /\ \A t \in Emitters : pc'[t] \in {"append", "publish"} <=> hlock' = t
  BY <1>0, <1>1, <1>2, <1>3 DEF Control, Threads
<1>6. \A x \in Users :
         /\ call'[x] = "exit" /\ pc'[x] \notin {"exit", "returned", "raised"} <=> hlock' = x
         /\ pc'[x] = "idle" <=> call'[x] = "none"
         /\ pc'[x] = "exit" => call'[x] = "exit"
         /\ pc'[x] \in {"flush", "lock", "publish"} => call'[x] \in {"flush", "exit"}
         /\ pc'[x] \in {"close", "set", "conn"} => call'[x] \in {"close", "exit"}
  BY <1>0, <1>1, <1>2, <1>3 DEF Control, Threads
<1>7. lock' \in Threads \cup {NoThread} /\ hlock' \in Threads \cup {NoThread}
  BY <1>1 DEF Control
<1> QED
  BY <1>2, <1>4, <1>5, <1>6, <1>7 DEF Control

LEMMA ControlUser ==
    ASSUME Control, NEW u \in Users,
           \/ ExitEnter(u) \/ FlushCheck(u) \/ FlushLocked(u)
           \/ CloseCheck(u) \/ CloseSet(u) \/ CloseConn(u)
    PROVE  Control'
<1>0. u \in Threads /\ u # NoThread /\ u \notin Emitters
  BY EmittersAndUsers DEF Threads
<1>1. CASE ExitEnter(u)
  <2>1. /\ pc[u] = "exit" /\ hlock = NoThread /\ hlock' = u /\ GoTo(u, "flush")
        /\ UNCHANGED <<call, lock>>
    BY <1>1 DEF ExitEnter, callVars
  <2>2. call[u] = "exit" /\ lock # u
    BY <1>0, <2>1 DEF Control
  <2> QED
    BY <1>0, <2>1, <2>2, ControlMove DEF UserPCs
<1>2. CASE FlushCheck(u)
  <2>1. pc[u] = "flush" /\ UNCHANGED <<call, lock>>
    BY <1>2 DEF FlushCheck, callVars
  <2>2. lock # u /\ call[u] \in {"flush", "exit"} /\ (call[u] = "exit" <=> hlock = u)
    BY <1>0, <2>1 DEF Control
  <2>3. CASE FlushReturns(u)
    BY <1>0, <2>1, <2>2, <2>3, ReturnMove
  <2>4. CASE GoTo(u, "lock") /\ UNCHANGED hlock
    BY <1>0, <2>1, <2>2, <2>4, ControlMove DEF UserPCs
  <2> QED
    BY <1>2, <2>3, <2>4 DEF FlushCheck
<1>3. CASE FlushLocked(u)
  <2>1. pc[u] = "lock" /\ lock = NoThread /\ UNCHANGED call
    BY <1>3 DEF FlushLocked, callVars
  <2>2. call[u] \in {"flush", "exit"} /\ (call[u] = "exit" <=> hlock = u)
    BY <1>0, <2>1 DEF Control
  <2>3. CASE FlushReturns(u) /\ UNCHANGED lock
    BY <1>0, <2>1, <2>2, <2>3, ReturnMove
  <2>4. CASE lock' = u /\ GoTo(u, "publish") /\ UNCHANGED hlock
    BY <1>0, <2>1, <2>2, <2>4, ControlMove DEF UserPCs
  <2> QED
    BY <1>3, <2>3, <2>4 DEF FlushLocked
<1>4. CASE CloseCheck(u) \/ CloseSet(u) \/ CloseConn(u)
  <2>1. pc[u] \in {"close", "set", "conn"} /\ UNCHANGED <<call, lock>>
    BY <1>4 DEF CloseCheck, CloseSet, CloseConn, callVars
  <2>2. lock # u /\ call[u] \in {"close", "exit"} /\ (call[u] = "exit" <=> hlock = u)
    BY <1>0, <2>1 DEF Control
  <2>3. CASE CloseReturns(u)
    <3>1. GoTo(u, "returned") /\ hlock' = IF hlock = u THEN NoThread ELSE hlock
      BY <2>3 DEF CloseReturns, LeaveHandler
    <3>2. hlock' # u
      BY <1>0, <3>1
    <3> QED
      BY <1>0, <2>1, <2>2, <3>1, <3>2, ControlMove DEF UserPCs
  <2>4. CASE GoTo(u, "set") /\ UNCHANGED hlock
    BY <1>0, <2>1, <2>2, <2>4, ControlMove DEF UserPCs
  <2>5. CASE GoTo(u, "conn") /\ UNCHANGED hlock
    BY <1>0, <2>1, <2>2, <2>5, ControlMove DEF UserPCs
  <2> QED
    BY <1>4, <2>3, <2>4, <2>5 DEF CloseCheck, CloseSet, CloseConn
<1> QED
  BY <1>1, <1>2, <1>3, <1>4

LEMMA ControlStep ==
    ASSUME Control, NEW t \in Threads, ThreadSteps(t)
    PROVE  Control'
<1>1. CASE t \in Emitters /\ (CallHandle(t) \/ EmitSteps(t))
  BY <1>1, ControlEmit, ControlFlush DEF EmitSteps
<1>2. CASE t \in Users /\ (UserCalls(t) \/ UserSteps(t))
  BY <1>2, ControlCall, ControlUser, ControlFlush DEF UserSteps
<1> QED
  BY <1>1, <1>2 DEF ThreadSteps
(* Only CallHandle changes emitted, and only it leaves idle for a call.    *)
LEMMA StepLeavesEmitted ==
    ASSUME NEW t \in Threads, ThreadSteps(t), ~(t \in Emitters /\ CallHandle(t))
    PROVE  /\ UNCHANGED emitted
           /\ t \in Emitters => pc[t] # "idle"
           /\ \E w : GoTo(t, w) \/ pc' = pc
<1>1. t \in Emitters <=> t \notin Users
  BY EmittersAndUsers
<1>2. CASE t \in Emitters
  <2>1. EmitSteps(t)
    BY <1>1, <1>2 DEF ThreadSteps
  <2> QED
    BY <1>2, <2>1 DEF EmitSteps, FlushSteps, Enter, AppendRecord, Publish, PublishRaises,
       FlushDone, FlushReturns, FlushRaises, GoTo, callVars
<1>3. CASE t \in Users
  <2>1. UserCalls(t) \/ UserSteps(t)
    BY <1>1, <1>3 DEF ThreadSteps
  <2> QED
    BY <1>1, <1>3, <2>1 DEF UserSteps, UserCalls, FlushSteps, ExitEnter, FlushCheck,
       FlushLocked, CloseCheck, CloseSet, CloseConn, CloseReturns, Publish, PublishRaises,
       FlushDone, FlushReturns, FlushRaises, GoTo, callVars
<1> QED
  BY <1>2, <1>3 DEF Threads

LEMMA EmittedStep ==
    ASSUME Control, EmittedOK, NEW t \in Threads, ThreadSteps(t)
    PROVE  EmittedOK'
<1>1. CASE t \in Emitters /\ CallHandle(t)
  <2>1. /\ emitted[t] < MaxEmits[t]
        /\ emitted' = [emitted EXCEPT ![t] = @ + 1]
        /\ pc' = [pc EXCEPT ![t] = "enter"]
    BY <1>1 DEF CallHandle, GoTo
  <2>2. emitted \in [Emitters -> Nat] /\ MaxEmits[t] \in Nat /\ emitted[t] \in Nat
    BY <1>1, MaxEmitsAssumption DEF EmittedOK
  <2>3. /\ emitted' \in [Emitters -> Nat]
        /\ emitted'[t] = emitted[t] + 1
        /\ \A x \in Emitters : x # t => emitted'[x] = emitted[x] /\ pc'[x] = pc[x]
    BY <1>1, <2>1, <2>2 DEF Control, Threads
  <2>4. emitted'[t] <= MaxEmits[t] /\ emitted'[t] >= 1
    BY <2>1, <2>2, <2>3
  <2> QED
    BY <1>1, <2>3, <2>4 DEF EmittedOK
<1>2. CASE ~(t \in Emitters /\ CallHandle(t))
  <2>1. UNCHANGED emitted /\ (t \in Emitters => pc[t] # "idle")
    BY <1>2, StepLeavesEmitted
  <2>2. PICK w : GoTo(t, w) \/ pc' = pc
    BY <1>2, StepLeavesEmitted
  <2>3. \A x \in Emitters : pc'[x] # "idle" => pc[x] # "idle"
    BY <2>1, <2>2 DEF GoTo, Control, Threads
  <2> QED
    BY <2>1, <2>3 DEF EmittedOK
<1> QED
  BY <1>1, <1>2

(***************************************************************************)
(* What a step does to the buffer. Most leave it alone.                    *)
(***************************************************************************)
Quiet == UNCHANGED <<settings, buffer, next, accepted, sent, dropped>>

LEMMA StepKinds ==
    ASSUME NEW t \in Threads, ThreadSteps(t)
    PROVE  \/ Publish(t)
           \/ PublishRaises(t)
           \/ FlushDone(t)
           \/ t \in Emitters /\ AppendRecord(t)
           \/ t \in Users /\ FlushLocked(t)
           \/ /\ Quiet
              /\ UNCHANGED <<lock, due>>
              /\ closed' \in {closed, TRUE}
              /\ connOpen' \in {connOpen, FALSE}
              /\ \/ UNCHANGED before
                 \/ t \in Users /\ UserCalls(t)
<1>1. CASE t \in Emitters /\ (CallHandle(t) \/ EmitSteps(t))
  BY <1>1 DEF EmitSteps, FlushSteps, CallHandle, Enter, Quiet, bufferVars, closeVars, callVars
<1>2. CASE t \in Users /\ (UserCalls(t) \/ UserSteps(t))
  BY <1>2 DEF UserSteps, UserCalls, FlushSteps, ExitEnter, FlushCheck,
       CloseCheck, CloseSet, CloseConn, Quiet, bufferVars, closeVars, callVars
<1> QED
  BY <1>1, <1>2 DEF ThreadSteps

LEMMA DataStep ==
    ASSUME Control, EmittedOK, DataOK, NEW t \in Threads, ThreadSteps(t)
    PROVE  DataOK'
<1>0. /\ buffer \in Seq(Records) /\ accepted \in Seq(Records) /\ sent \in Seq(Records)
      /\ Len(buffer) \in Nat /\ next \in Nat /\ next >= 1 /\ next <= Len(buffer) + 1
      /\ t # NoThread
  BY EmittersAndUsers DEF DataOK
<1>b. settings.batchSize \in Nat /\ settings.batchSize >= 1
  BY BatchSizePositive DEF DataOK
<1>e. << >> \in Seq(Records) /\ Len(<< >>) = 0 /\ 1 \in 1..(0 + 1)
  OBVIOUS
<1>1. CASE Publish(t)
  <2>1. /\ pc[t] = "publish" /\ next <= Len(buffer)
        /\ sent' = Append(sent, buffer[next]) /\ next' = next + 1
        /\ UNCHANGED <<settings, buffer, due, accepted, dropped, closed, connOpen, before, lock>>
    BY <1>1 DEF Publish, closeVars, callVars
  <2>2. buffer[next] \in Records
    BY <1>0, <2>1
  <2>3. sent' \in Seq(Records) /\ next' \in 1..(Len(buffer) + 1)
    BY <1>0, <2>1, <2>2
  <2>4. lock # NoThread
    BY <1>0, <2>1 DEF Control
  <2> QED
    BY <2>1, <2>3, <2>4 DEF DataOK
<1>2. CASE PublishRaises(t)
  <2>1. /\ pc[t] = "publish" /\ next' = 1
        /\ UNCHANGED <<settings, due, accepted, sent, closed, connOpen, before>>
        /\ \/ /\ buffer' = << >>
              /\ dropped' = dropped \cup {buffer[i] : i \in next..Len(buffer)}
           \/ ~settings.failOpen /\ UNCHANGED <<buffer, dropped>>
    BY <1>2 DEF PublishRaises, closeVars, callVars
  <2>2. \A i \in next..Len(buffer) : buffer[i] \in Records
    BY <1>0
  <2>3. buffer' \in Seq(Records) /\ dropped' \subseteq Records
    BY <1>e, <2>1, <2>2 DEF DataOK
  <2>4. settings.failOpen => Len(buffer') < settings.batchSize
    BY <1>b, <1>e, <2>1
  <2>5. Len(buffer') \in Nat
    BY <2>3
  <2>6. next' \in 1..(Len(buffer') + 1)
    BY <2>1, <2>5
  <2> QED
    BY <2>1, <2>3, <2>4, <2>6 DEF DataOK
<1>3. CASE FlushDone(t)
  <2>1. /\ buffer' = << >> /\ due' = FALSE /\ next' = 1
        /\ UNCHANGED <<settings, accepted, sent, dropped, closed, connOpen, before>>
    BY <1>3 DEF FlushDone, closeVars, callVars
  <2>2. Len(buffer') < settings.batchSize /\ next' \in 1..(Len(buffer') + 1)
    BY <1>b, <1>e, <2>1
  <2> QED
    BY <1>e, <2>1, <2>2 DEF DataOK
<1>4. CASE t \in Emitters /\ AppendRecord(t)
  <2> DEFINE record == <<t, emitted[t]>>
  <2>1. /\ pc[t] = "append" /\ lock = NoThread
        /\ buffer' = Append(buffer, record)
        /\ accepted' = Append(accepted, record)
        /\ UNCHANGED <<settings, due, next, sent, dropped, closed, connOpen, before>>
        /\ lock' = NoThread => ~(Len(buffer') >= settings.batchSize)
    BY <1>0, <1>4 DEF AppendRecord, BatchIsFull, closeVars, callVars
  <2>2. record \in Records
    BY <1>4, <2>1, RecordIsPair DEF EmittedOK
  <2> HIDE DEF record
  <2>3. /\ buffer' \in Seq(Records) /\ Len(buffer') = Len(buffer) + 1
        /\ accepted' \in Seq(Records)
    BY <1>0, <2>1, <2>2
  <2>4. /\ next' \in 1..(Len(buffer') + 1)
        /\ lock' = NoThread => Len(buffer') < settings.batchSize
        /\ next' = 1
    BY <1>0, <1>b, <2>1, <2>3 DEF DataOK
  <2> QED
    BY <2>1, <2>3, <2>4 DEF DataOK
<1>5. CASE t \in Users /\ FlushLocked(t)
  <2>1. /\ lock = NoThread
        /\ UNCHANGED <<settings, buffer, next, accepted, sent, dropped, due, closed,
                       connOpen, before>>
    BY <1>5 DEF FlushLocked, bufferVars, closeVars, callVars
  <2> QED
    BY <2>1 DEF DataOK
<1>6. CASE /\ Quiet /\ UNCHANGED <<lock, due>>
           /\ closed' \in {closed, TRUE} /\ connOpen' \in {connOpen, FALSE}
           /\ UNCHANGED before \/ (t \in Users /\ UserCalls(t))
  <2>1. before' \in [Users -> Nat]
    <3>1. CASE UNCHANGED before
      BY <3>1 DEF DataOK
    <3>2. CASE t \in Users /\ UserCalls(t)
      <4>1. PICK n \in {Len(accepted), 0} : before' = [before EXCEPT ![t] = n]
        BY <3>2 DEF UserCalls
      <4>2. n \in Nat
        BY <1>0
      <4> QED
        BY <4>1, <4>2 DEF DataOK
    <3> QED
      BY <1>6, <3>1, <3>2
  <2>2. UNCHANGED <<settings, buffer, next, accepted, sent, dropped, lock, due>>
    BY <1>6 DEF Quiet
  <2>3. closed' \in BOOLEAN /\ connOpen' \in BOOLEAN
    BY <1>6 DEF DataOK
  <2> QED
    BY <2>1, <2>2, <2>3 DEF DataOK
<1> QED
  BY <1>1, <1>2, <1>3, <1>4, <1>5, <1>6, StepKinds

LEMMA TypeInit == SyncInit => TypeInv
<1> SUFFICES ASSUME SyncInit PROVE TypeInv
  OBVIOUS
<1>1. \A t \in Threads : t # NoThread /\ (t \in Emitters <=> t \notin Users)
  BY EmittersAndUsers
<1>2. Control
  BY <1>1 DEF SyncInit, Control, Threads, EmitterPCs, UserPCs, Calls
<1>3. EmittedOK
  <2>1. \A t \in Emitters : 0 <= MaxEmits[t]
    BY MaxEmitsAssumption
  <2> QED
    BY <2>1 DEF SyncInit, EmittedOK, Threads
<1>4. DataOK
  <2>1. settings.batchSize \in Nat /\ settings.batchSize >= 1
    BY BatchSizePositive DEF SyncInit
  <2>2. << >> \in Seq(Records) /\ Len(<< >>) = 0 /\ 1 \in 1..(0 + 1)
    OBVIOUS
  <2>3. /\ buffer \in Seq(Records) /\ accepted \in Seq(Records) /\ sent \in Seq(Records)
        /\ Len(buffer) = 0 /\ next = 1 /\ next \in 1..(Len(buffer) + 1)
    BY <2>2 DEF SyncInit
  <2>4. /\ settings \in [batchSize : BatchSizes, failOpen : BOOLEAN]
        /\ due \in BOOLEAN /\ closed \in BOOLEAN /\ connOpen \in BOOLEAN
        /\ dropped \subseteq Records /\ before \in [Users -> Nat]
    BY DEF SyncInit
  <2>5. Len(buffer) < settings.batchSize
    BY <2>1, <2>3
  <2> QED
    BY <2>3, <2>4, <2>5 DEF DataOK
<1> QED
  BY <1>2, <1>3, <1>4, TypeParts

LEMMA TypeStep ==
    ASSUME TypeInv, [SyncNext]_syncVars
    PROVE  TypeInv'
<1>1. Control /\ EmittedOK /\ DataOK
  BY TypeParts
<1>2. CASE /\ UNCHANGED <<settings, buffer, next, accepted, sent, dropped, closeVars,
                          callVars, lock, hlock, pc>>
           /\ due' \in {due, TRUE}
  BY <1>1, <1>2, TypePartsNext DEF Control, EmittedOK, DataOK, closeVars, callVars
<1>3. ASSUME NEW t \in Threads, ThreadSteps(t)
      PROVE  TypeInv'
  BY <1>1, <1>3, ControlStep, EmittedStep, DataStep, TypePartsNext
<1> QED
  BY <1>2, <1>3, NextCases

(* The types, where a user can be in which call, and who holds which lock  *)
(* are inductive together (emit, flush, close).                            *)
THEOREM TypeInvariance == SyncSpec => []TypeInv
<1>1. TypeInv /\ [SyncNext]_syncVars => TypeInv'
  BY TypeStep
<1> QED
  BY <1>1, TypeInit, PTL DEF SyncSpec

(* Type correctness: each lock is held by exactly the thread that is       *)
(* between its acquisition and its release, and a fail-open handler never  *)
(* leaves a full batch in the buffer (emit, _flush_locked).                *)
THEOREM TypeCorrect == SyncSpec => []TypeOK
<1>1. TypeInv => TypeOK
  BY DEF TypeInv
<1> QED
  BY <1>1, TypeInvariance, PTL
(***************************************************************************)
(* The same step, seen from the buffer and its histories.                  *)
(***************************************************************************)
Sends == /\ next <= Len(buffer)
         /\ sent' = Append(sent, buffer[next])
         /\ next' = next + 1
         /\ UNCHANGED <<settings, buffer, accepted, dropped>>

Drops == /\ settings.failOpen
         /\ buffer' = << >>
         /\ dropped' = dropped \cup {buffer[i] : i \in next..Len(buffer)}
         /\ next' = 1
         /\ UNCHANGED <<settings, accepted, sent>>

Keeps == /\ ~settings.failOpen
         /\ next' = 1
         /\ UNCHANGED <<settings, buffer, accepted, sent, dropped>>

Clears == /\ next = Len(buffer) + 1
          /\ buffer' = << >>
          /\ next' = 1
          /\ UNCHANGED <<settings, accepted, sent, dropped>>

Appends(t) == /\ pc[t] = "append"
              /\ pc'[t] \in {"publish", "idle"}
              /\ next = 1
              /\ buffer' = Append(buffer, <<t, emitted[t]>>)
              /\ accepted' = Append(accepted, <<t, emitted[t]>>)
              /\ UNCHANGED <<settings, next, sent, dropped, emitted>>

LEMMA DataKinds ==
    ASSUME TypeInv, NEW t \in Threads, ThreadSteps(t)
    PROVE  Sends \/ Drops \/ Keeps \/ Clears \/ Quiet \/ (t \in Emitters /\ Appends(t))
<1>0. Len(buffer) \in Nat /\ next \in Nat /\ next <= Len(buffer) + 1
  BY TypeParts DEF DataOK
<1>1. CASE Publish(t)
  BY <1>1 DEF Publish, Sends
<1>2. CASE PublishRaises(t)
  BY <1>2 DEF PublishRaises, Drops, Keeps
<1>3. CASE FlushDone(t)
  BY <1>0, <1>3 DEF FlushDone, Clears
<1>4. CASE t \in Emitters /\ AppendRecord(t)
  <2>1. pc[t] = "append" /\ (GoTo(t, "publish") \/ GoTo(t, "idle")) /\ lock = NoThread
    BY <1>4 DEF AppendRecord
  <2>2. pc'[t] \in {"publish", "idle"}
    BY <2>1, TypeParts DEF GoTo, Control
  <2>3. next = 1
    BY <2>1, TypeParts DEF DataOK
  <2> QED
    BY <1>4, <2>1, <2>2, <2>3 DEF AppendRecord, Appends, callVars
<1>5. CASE t \in Users /\ FlushLocked(t)
  BY <1>5 DEF FlushLocked, bufferVars, Quiet
<1> QED
  BY <1>1, <1>2, <1>3, <1>4, <1>5, StepKinds

(* emitted only grows, and a thread that comes to handle() has just counted*)
(* the record it brings.                                                   *)
LEMMA EmitterLocal ==
    ASSUME TypeInv, NEW t \in Threads, ThreadSteps(t), NEW x \in Emitters
    PROVE  /\ emitted[x] \in Nat /\ emitted'[x] \in {emitted[x], emitted[x] + 1}
           /\ pc'[x] \in {"enter", "append"} =>
                 pc[x] \in {"enter", "append"} \/ emitted'[x] = emitted[x] + 1
<1>0. /\ emitted \in [Emitters -> Nat] /\ emitted[x] \in Nat
      /\ pc \in [Threads -> EmitterPCs \cup UserPCs] /\ x \in Threads
      /\ t \in Emitters <=> t \notin Users
  BY TypeParts, EmittersAndUsers DEF Control, EmittedOK, Threads
<1>1. CASE t = x /\ CallHandle(t)
  BY <1>0, <1>1 DEF CallHandle
<1>2. CASE t = x /\ EmitSteps(t)
  <2>1. UNCHANGED emitted
    BY <1>2 DEF EmitSteps, FlushSteps, Enter, AppendRecord, Publish, PublishRaises,
       FlushDone, callVars
  <2>2. CASE Enter(t)
    BY <1>0, <1>2, <2>1, <2>2 DEF Enter
  <2>3. CASE Publish(t)
    BY <1>0, <1>2, <2>1, <2>3 DEF Publish
  <2>4. CASE AppendRecord(t) \/ PublishRaises(t) \/ FlushDone(t)
    <3>1. GoTo(t, "publish") \/ GoTo(t, "idle")
      BY <1>2, <2>4 DEF AppendRecord, PublishRaises, FlushDone, FlushReturns, FlushRaises
    <3> QED
      BY <1>0, <1>2, <2>1, <3>1 DEF GoTo
  <2> QED
    BY <1>2, <2>2, <2>3, <2>4 DEF EmitSteps, FlushSteps
<1>3. CASE t # x
  <2>1. pc'[x] = pc[x]
    <3>1. CASE t \in Emitters /\ CallHandle(t)
      BY <1>0, <1>3, <3>1 DEF CallHandle, GoTo
    <3>2. CASE ~(t \in Emitters /\ CallHandle(t))
      <4>1. PICK w : GoTo(t, w) \/ pc' = pc
        BY <3>2, StepLeavesEmitted
      <4> QED
        BY <1>0, <1>3, <4>1 DEF GoTo
    <3> QED
      BY <3>1, <3>2
  <2>2. emitted'[x] = emitted[x]
    <3>1. CASE t \in Emitters /\ CallHandle(t)
      BY <1>0, <1>3, <3>1 DEF CallHandle
    <3>2. CASE ~(t \in Emitters /\ CallHandle(t))
      BY <3>2, StepLeavesEmitted
    <3> QED
      BY <3>1, <3>2
  <2> QED
    BY <1>0, <2>1, <2>2
<1> QED
  BY <1>0, <1>1, <1>2, <1>3 DEF ThreadSteps

RecordsInv == AcceptedInv /\ BufferInv

LEMMA RecordsInit == SyncInit => RecordsInv
<1> SUFFICES ASSUME SyncInit PROVE RecordsInv
  OBVIOUS
<1>1. accepted = << >> /\ buffer = << >> /\ Len(<< >>) = 0 /\ 1..0 = {}
  BY DEF SyncInit
<1> QED
  BY <1>1 DEF RecordsInv, AcceptedInv, BufferInv, Settled

LEMMA AcceptedSame ==
    ASSUME TypeInv, AcceptedInv, NEW t \in Threads, ThreadSteps(t), UNCHANGED accepted
    PROVE  AcceptedInv'
<1>1. ASSUME NEW i \in 1..Len(accepted)
      PROVE  /\ accepted[i][2] <= emitted'[accepted[i][1]]
             /\ pc'[accepted[i][1]] \in {"enter", "append"} =>
                   accepted[i][2] < emitted'[accepted[i][1]]
  <2> DEFINE x == accepted[i][1]
             n == accepted[i][2]
  <2>1. accepted[i] \in Records
    BY TypeParts DEF DataOK
  <2>2. x \in Emitters /\ n \in Nat
    BY <2>1, RecordIsPair
  <2>3. n <= emitted[x] /\ (pc[x] \in {"enter", "append"} => n < emitted[x])
    BY DEF AcceptedInv
  <2> HIDE DEF x, n
  <2>4. /\ emitted[x] \in Nat /\ emitted'[x] \in {emitted[x], emitted[x] + 1}
        /\ pc'[x] \in {"enter", "append"} =>
              pc[x] \in {"enter", "append"} \/ emitted'[x] = emitted[x] + 1
    BY <2>2, EmitterLocal
  <2>5. n <= emitted'[x] /\ (pc'[x] \in {"enter", "append"} => n < emitted'[x])
    BY <2>2, <2>3, <2>4
  <2> QED
    BY <2>5 DEF x, n
<1> QED
  BY <1>1 DEF AcceptedInv

LEMMA AcceptedAppends ==
    ASSUME TypeInv, AcceptedInv, NEW t \in Emitters, ThreadSteps(t), Appends(t)
    PROVE  AcceptedInv'
<1> DEFINE r == <<t, emitted[t]>>
<1>0. t \in Threads /\ accepted \in Seq(Records) /\ emitted[t] \in Nat /\ pc[t] = "append"
  BY TypeParts DEF Threads, DataOK, EmittedOK, Appends
<1>1. r \in Records
  <2>1. emitted[t] >= 1 /\ emitted[t] <= MaxEmits[t]
    BY <1>0, TypeParts DEF EmittedOK
  <2> QED
    BY <1>0, <2>1, RecordIsPair
<1>2. /\ accepted' = Append(accepted, r) /\ UNCHANGED emitted
      /\ pc'[t] \notin {"enter", "append"}
  BY DEF Appends
<1>3. r[1] = t /\ r[2] = emitted[t]
  OBVIOUS
<1> HIDE DEF r
<1>4. /\ Len(accepted') = Len(accepted) + 1 /\ Len(accepted) \in Nat
      /\ accepted'[Len(accepted) + 1] = r
      /\ \A i \in 1..Len(accepted) : accepted'[i] = accepted[i]
  BY <1>0, <1>1, <1>2
<1>5. ASSUME NEW i \in 1..Len(accepted)
      PROVE  /\ accepted[i] # r
             /\ accepted[i][2] <= emitted'[accepted[i][1]]
             /\ pc'[accepted[i][1]] \in {"enter", "append"} =>
                   accepted[i][2] < emitted'[accepted[i][1]]
  <2> DEFINE x == accepted[i][1]
             n == accepted[i][2]
  <2>1. accepted[i] \in Records
    BY <1>0
  <2>2. x \in Emitters /\ n \in Nat
    BY <2>1, RecordIsPair
  <2>3. n <= emitted[x] /\ (pc[x] \in {"enter", "append"} => n < emitted[x])
    BY DEF AcceptedInv
  <2>4. x = t => n # emitted[t]
    BY <1>0, <2>2, <2>3
  <2>5. accepted[i] # r
    BY <1>3, <2>4
  <2> HIDE DEF x, n
  <2>6. /\ emitted[x] \in Nat /\ emitted'[x] = emitted[x]
        /\ pc'[x] \in {"enter", "append"} =>
              pc[x] \in {"enter", "append"} \/ emitted'[x] = emitted[x] + 1
    BY <1>0, <1>2, <2>2, EmitterLocal
  <2>7. n <= emitted'[x] /\ (pc'[x] \in {"enter", "append"} => n < emitted'[x])
    BY <2>2, <2>3, <2>6
  <2> QED
    BY <2>5, <2>7 DEF x, n
<1>6. ASSUME NEW i \in 1..Len(accepted')
      PROVE  /\ accepted'[i][2] <= emitted'[accepted'[i][1]]
             /\ pc'[accepted'[i][1]] \in {"enter", "append"} =>
                   accepted'[i][2] < emitted'[accepted'[i][1]]
  <2>1. CASE i = Len(accepted) + 1
    BY <1>0, <1>2, <1>3, <1>4, <2>1
  <2>2. CASE i # Len(accepted) + 1
    <3>1. i \in 1..Len(accepted)
      BY <1>4, <2>2
    <3> QED
      BY <1>4, <1>5, <3>1
  <2> QED
    BY <2>1, <2>2
<1>7. ASSUME NEW i \in 1..Len(accepted'), NEW j \in 1..Len(accepted'), accepted'[i] = accepted'[j]
      PROVE  i = j
  <2>1. \A k \in 1..Len(accepted') : k = Len(accepted) + 1 \/ k \in 1..Len(accepted)
    BY <1>4
  <2> QED
    BY <1>4, <1>5, <1>7, <2>1 DEF AcceptedInv
<1> QED
  BY <1>6, <1>7 DEF AcceptedInv

LEMMA BufferStep ==
    ASSUME TypeInv, TypeInv', BufferInv, NEW t \in Threads, ThreadSteps(t)
    PROVE  BufferInv' /\ Settled' >= Settled
<1>0. /\ buffer \in Seq(Records) /\ accepted \in Seq(Records)
      /\ Len(buffer) \in Nat /\ Len(accepted) \in Nat
  BY TypeParts DEF DataOK
<1>1. CASE Sends \/ Keeps \/ Quiet
  <2>1. UNCHANGED <<buffer, accepted>>
    BY <1>1 DEF Sends, Keeps, Quiet
  <2> QED
    BY <1>0, <2>1 DEF BufferInv, Settled
<1>2. CASE Drops \/ Clears
  <2>1. buffer' = << >> /\ UNCHANGED accepted /\ Len(<< >>) = 0 /\ 1..0 = {}
    BY <1>2 DEF Drops, Clears
  <2> QED
    BY <1>0, <2>1 DEF BufferInv, Settled
<1>3. CASE t \in Emitters /\ Appends(t)
  <2> DEFINE r == <<t, emitted[t]>>
  <2>1. buffer' = Append(buffer, r) /\ accepted' = Append(accepted, r)
    BY <1>3 DEF Appends
  <2>2. r \in Records
    <3>1. emitted[t] \in Nat /\ emitted[t] >= 1 /\ emitted[t] <= MaxEmits[t]
      BY <1>3, TypeParts DEF EmittedOK, Appends
    <3> QED
      BY <1>3, <3>1, RecordIsPair
  <2> HIDE DEF r
  <2>3. /\ Len(buffer') = Len(buffer) + 1 /\ Len(accepted') = Len(accepted) + 1
        /\ buffer'[Len(buffer) + 1] = r /\ accepted'[Len(accepted) + 1] = r
        /\ \A i \in 1..Len(buffer) : buffer'[i] = buffer[i]
        /\ \A i \in 1..Len(accepted) : accepted'[i] = accepted[i]
    BY <1>0, <2>1, <2>2
  <2>4. Settled' = Settled /\ Settled = Len(accepted) - Len(buffer) /\ Settled \in Nat
    BY <1>0, <2>3 DEF Settled, BufferInv
  <2>5. ASSUME NEW i \in 1..Len(buffer')
        PROVE  buffer'[i] = accepted'[Settled + i]
    <3>1. CASE i = Len(buffer) + 1
      <4>1. Settled + i = Len(accepted) + 1
        BY <1>0, <2>4, <3>1
      <4> QED
        BY <2>3, <3>1, <4>1
    <3>2. CASE i # Len(buffer) + 1
      <4>1. i \in 1..Len(buffer) /\ Settled + i \in 1..Len(accepted)
        BY <1>0, <2>3, <2>4, <3>2
      <4>2. buffer[i] = accepted[Settled + i]
        BY <4>1 DEF BufferInv
      <4> QED
        BY <2>3, <4>1, <4>2
    <3> QED
      BY <3>1, <3>2
  <2> QED
    BY <2>4, <2>5 DEF BufferInv
<1> QED
  BY <1>1, <1>2, <1>3, DataKinds
LEMMA RecordsStep ==
    ASSUME TypeInv, TypeInv', RecordsInv, [SyncNext]_syncVars
    PROVE  RecordsInv' /\ Settled' >= Settled
<1>1. CASE /\ UNCHANGED <<settings, buffer, next, accepted, sent, dropped, closeVars,
                          callVars, lock, hlock, pc>>
           /\ due' \in {due, TRUE}
  <2>1. Settled \in Int
    BY DEF RecordsInv, BufferInv
  <2> QED
    BY <1>1, <2>1 DEF RecordsInv, AcceptedInv, BufferInv, Settled, callVars
<1>2. ASSUME NEW t \in Threads, ThreadSteps(t)
      PROVE  RecordsInv' /\ Settled' >= Settled
  <2>1. BufferInv' /\ Settled' >= Settled
    BY <1>2, BufferStep DEF RecordsInv
  <2>2. AcceptedInv'
    <3>1. CASE UNCHANGED accepted
      BY <1>2, <3>1, AcceptedSame DEF RecordsInv
    <3>2. CASE t \in Emitters /\ Appends(t)
      BY <1>2, <3>2, AcceptedAppends DEF RecordsInv
    <3> QED
      BY <1>2, <3>1, <3>2, DataKinds DEF Sends, Drops, Keeps, Clears, Quiet
  <2> QED
    BY <2>1, <2>2 DEF RecordsInv
<1> QED
  BY <1>1, <1>2, NextCases

(* The buffer always holds the last records accepted, none of them twice   *)
(* (emit, _flush_locked).                                                  *)
THEOREM RecordsInvariance == SyncSpec => []RecordsInv
<1>1. TypeInv /\ TypeInv' /\ RecordsInv /\ [SyncNext]_syncVars => RecordsInv'
  BY RecordsStep
<1> QED
  BY <1>1, RecordsInit, TypeInvariance, PTL DEF SyncSpec

(* Where the records of the buffer are among those accepted.               *)
LEMMA BufferIsLast ==
    ASSUME TypeInv, RecordsInv
    PROVE  /\ Settled \in Nat /\ Len(accepted) = Settled + Len(buffer)
           /\ Len(buffer) \in Nat /\ Len(accepted) \in Nat
           /\ next \in Nat /\ next >= 1 /\ next <= Len(buffer) + 1
           /\ \A i \in 1..Len(buffer) :
                 Settled + i \in 1..Len(accepted) /\ accepted[Settled + i] = buffer[i]
<1>1. /\ Len(buffer) \in Nat /\ Len(accepted) \in Nat
      /\ next \in Nat /\ next >= 1 /\ next <= Len(buffer) + 1
  BY TypeParts DEF DataOK
<1>2. Settled \in Nat /\ Len(accepted) = Settled + Len(buffer)
  BY <1>1 DEF RecordsInv, BufferInv, Settled
<1>3. ASSUME NEW i \in 1..Len(buffer)
      PROVE  Settled + i \in 1..Len(accepted) /\ accepted[Settled + i] = buffer[i]
  BY <1>1, <1>2 DEF RecordsInv, BufferInv
<1> QED
  BY <1>1, <1>2, <1>3

(***************************************************************************)
(* With fail-open, at most once.                                           *)
(***************************************************************************)
LEMMA OnceInit == SyncInit => OnceInv
<1> SUFFICES ASSUME SyncInit PROVE OnceInv
  OBVIOUS
<1>1. sent = << >> /\ dropped = {} /\ Len(<< >>) = 0 /\ 1..0 = {}
  BY DEF SyncInit
<1> QED
  BY <1>1 DEF OnceInv, PartOf

LEMMA OnceSends ==
    ASSUME TypeInv, TypeInv', RecordsInv, OnceInv, settings.failOpen, Sends
    PROVE  OnceInv'
<1>0. /\ sent \in Seq(Records) /\ accepted \in Seq(Records) /\ buffer \in Seq(Records)
      /\ sent' \in Seq(Records) /\ Len(sent) \in Nat
  BY TypeParts, TypePartsNext DEF DataOK
<1>1. /\ next <= Len(buffer) /\ sent' = Append(sent, buffer[next]) /\ next' = next + 1
      /\ UNCHANGED <<settings, buffer, accepted, dropped>>
      /\ Settled' = Settled
  BY DEF Sends, Settled
<1> DEFINE c == Settled + next
<1>2. /\ c \in 1..Len(accepted) /\ accepted[c] = buffer[next]
      /\ Settled + next' - 1 = c /\ Settled + next - 1 = c - 1
      /\ Settled \in Nat /\ Settled < c /\ c \in Nat
  BY <1>1, BufferIsLast
<1> HIDE DEF c
<1>3. /\ PartOf(sent, accepted)
      /\ \A j \in 1..Len(sent) : \E b \in 1..(c - 1) : accepted[b] = sent[j]
      /\ \A r \in dropped : \E b \in 1..Settled : accepted[b] = r
      /\ ToSet(sent) \cap dropped = {}
  BY <1>2 DEF OnceInv
<1>4. \A b \in 1..(c - 1) : b \in 1..Len(accepted) /\ accepted[b] # accepted[c]
  BY <1>0, <1>2 DEF RecordsInv, AcceptedInv
<1>5. PartOf(sent', accepted)
  <2>1. \A j \in 1..Len(sent) :
           sent[j] # accepted[c] /\ \E b \in 1..(c - 1) : accepted[b] = sent[j]
    BY <1>3, <1>4
  <2>2. PartOf(Append(sent, accepted[c]), accepted)
    BY <1>0, <1>2, <1>3, <2>1, PartOfAppend
  <2> QED
    BY <1>1, <1>2, <2>2
<1>6. /\ Len(sent') = Len(sent) + 1 /\ sent'[Len(sent) + 1] = accepted[c]
      /\ \A j \in 1..Len(sent) : sent'[j] = sent[j]
      /\ \A j \in 1..Len(sent') : j = Len(sent) + 1 \/ j \in 1..Len(sent)
  <2>1. buffer[next] \in Records
    BY <1>0, <1>1, TypeParts DEF DataOK
  <2> QED
    BY <1>0, <1>1, <1>2, <2>1
<1>7. \A j \in 1..Len(sent') : \E b \in 1..c : accepted[b] = sent'[j]
  <2>1. c \in 1..c /\ \A b \in 1..(c - 1) : b \in 1..c
    BY <1>2
  <2> QED
    BY <1>3, <1>6, <2>1
<1>8. accepted[c] \notin dropped
  <2>1. \A b \in 1..Settled : b \in 1..(c - 1)
    BY <1>2
  <2> QED
    BY <1>3, <1>4, <2>1
<1>9. ToSet(sent') \cap dropped = {}
  <2>1. ASSUME NEW x \in ToSet(sent')
        PROVE  x \notin dropped
    <3>1. PICK j \in 1..Len(sent') : sent'[j] = x
      BY <1>0, ToSetFacts
    <3>2. j \in 1..Len(sent) => sent[j] \in ToSet(sent)
      BY <1>0, ToSetFacts
    <3> QED
      BY <1>3, <1>6, <1>8, <3>1, <3>2
  <2> QED
    BY <2>1
<1> QED
  BY <1>1, <1>2, <1>3, <1>5, <1>7, <1>9 DEF OnceInv

(* The buffer is emptied; what it still had to send counts as dropped, or  *)
(* there was nothing of it.                                                *)
LEMMA OnceEmpties ==
    ASSUME TypeInv, RecordsInv, OnceInv, settings.failOpen, Drops \/ Clears
    PROVE  OnceInv'
<1>0. sent \in Seq(Records) /\ accepted \in Seq(Records)
  BY TypeParts DEF DataOK
<1> DEFINE lost == {buffer[i] : i \in next..Len(buffer)}
<1>1. /\ buffer' = << >> /\ next' = 1 /\ UNCHANGED <<settings, accepted, sent>>
      /\ dropped' \subseteq dropped \cup lost
  BY DEF Drops, Clears
<1> DEFINE n == Len(accepted)
<1>2. Settled' = n /\ n \in Nat /\ Settled + next - 1 <= n /\ Settled <= n
      /\ Settled' + next' - 1 = n /\ Settled \in Nat /\ next \in Nat /\ next >= 1
  <2>1. Len(buffer') = 0
    BY <1>1
  <2> QED
    BY <1>1, <2>1, BufferIsLast DEF Settled
<1>3. \A b \in 1..(Settled + next - 1) : b \in 1..n
  BY <1>2
<1>4. \A b \in 1..Settled : b \in 1..n
  BY <1>2
<1>5. ASSUME NEW r \in lost
      PROVE  r \notin ToSet(sent) /\ \E b \in 1..n : accepted[b] = r
  <2>1. PICK i \in next..Len(buffer) : r = buffer[i]
    OBVIOUS
  <2>2. i \in 1..Len(buffer) /\ i >= next /\ i \in Nat
    BY <1>2, <2>1, BufferIsLast
  <2>3. Settled + i \in 1..n /\ accepted[Settled + i] = r
    BY <2>1, <2>2, BufferIsLast
  <2>4. ASSUME NEW j \in 1..Len(sent)
        PROVE  sent[j] # r
    <3>1. PICK b \in 1..(Settled + next - 1) : accepted[b] = sent[j]
      BY DEF OnceInv
    <3>2. b \in 1..n /\ b # Settled + i
      BY <1>2, <1>3, <2>2
    <3> QED
      BY <2>3, <3>1, <3>2 DEF RecordsInv, AcceptedInv
  <2> QED
    BY <1>0, <2>3, <2>4, ToSetFacts
<1> HIDE DEF lost
<1>6. \A r \in dropped' : \E b \in 1..n : accepted[b] = r
  BY <1>1, <1>4, <1>5 DEF OnceInv
<1>7. \A j \in 1..Len(sent) : \E b \in 1..n : accepted[b] = sent[j]
  BY <1>3 DEF OnceInv
<1>8. ToSet(sent) \cap dropped' = {}
  BY <1>1, <1>5 DEF OnceInv
<1> HIDE DEF n
<1> QED
  BY <1>1, <1>2, <1>6, <1>7, <1>8 DEF OnceInv

LEMMA OnceAppends ==
    ASSUME TypeInv, RecordsInv, OnceInv, settings.failOpen, NEW t \in Emitters, Appends(t)
    PROVE  OnceInv'
<1> DEFINE r == <<t, emitted[t]>>
<1>0. /\ sent \in Seq(Records) /\ accepted \in Seq(Records) /\ buffer \in Seq(Records)
  BY TypeParts DEF DataOK
<1>1. /\ buffer' = Append(buffer, r) /\ accepted' = Append(accepted, r)
      /\ UNCHANGED <<settings, next, sent, dropped>>
  BY DEF Appends
<1>2. r \in Records
  <2>1. emitted[t] \in Nat /\ emitted[t] >= 1 /\ emitted[t] <= MaxEmits[t]
    BY TypeParts DEF EmittedOK, Appends
  <2> QED
    BY <2>1, RecordIsPair
<1> HIDE DEF r
<1>3. /\ Settled' = Settled
      /\ \A b \in 1..Len(accepted) : accepted'[b] = accepted[b]
  BY <1>0, <1>1, <1>2 DEF Settled
<1>4. PartOf(sent, accepted')
  BY <1>0, <1>1, <1>2, PartOfGrows DEF OnceInv
<1>5. /\ \A b \in 1..(Settled + next - 1) : b \in 1..Len(accepted)
      /\ \A b \in 1..Settled : b \in 1..Len(accepted)
  BY BufferIsLast
<1>6. /\ \A j \in 1..Len(sent) : \E b \in 1..(Settled + next - 1) : accepted'[b] = sent[j]
      /\ \A x \in dropped : \E b \in 1..Settled : accepted'[b] = x
  BY <1>3, <1>5 DEF OnceInv
<1> QED
  BY <1>1, <1>3, <1>4, <1>6 DEF OnceInv

LEMMA OnceStep ==
    ASSUME TypeInv, TypeInv', RecordsInv, OnceInv, [SyncNext]_syncVars
    PROVE  OnceInv'
<1>1. UNCHANGED settings
  <2>1. ASSUME NEW t \in Threads, ThreadSteps(t)
        PROVE  UNCHANGED settings
    BY <2>1, DataKinds DEF Sends, Drops, Keeps, Clears, Quiet, Appends
  <2> QED
    BY <2>1, NextCases
<1>2. CASE ~settings.failOpen
  BY <1>1, <1>2 DEF OnceInv
<1>3. ASSUME settings.failOpen,
             UNCHANGED <<settings, buffer, next, accepted, sent, dropped>>
      PROVE  OnceInv'
  BY <1>3 DEF OnceInv, Settled
<1>4. ASSUME settings.failOpen, NEW t \in Threads, ThreadSteps(t)
      PROVE  OnceInv'
  <2>1. ~Keeps
    BY <1>4 DEF Keeps
  <2> QED
    BY <1>3, <1>4, <2>1, OnceSends, OnceEmpties, OnceAppends, DataKinds DEF Quiet
<1> QED
  BY <1>2, <1>3, <1>4, NextCases

(* A fail-open handler delivers at most once: the broker receives records  *)
(* in the order they were accepted, none twice, none that was dropped, and *)
(* none that a later flush will send (_flush_locked).                      *)
THEOREM FailOpenIsAtMostOnce == SyncSpec => []AtMostOnce
<1>1. TypeInv /\ TypeInv' /\ RecordsInv /\ OnceInv /\ [SyncNext]_syncVars => OnceInv'
  BY OnceStep
<1>2. ASSUME TypeInv, RecordsInv, OnceInv
      PROVE  AtMostOnce
  <2>1. ASSUME settings.failOpen, lock = NoThread, NEW x \in ToSet(sent), x \in ToSet(buffer)
        PROVE  FALSE
    <3>0. sent \in Seq(Records) /\ buffer \in Seq(Records) /\ next = 1
      BY <2>1, <1>2, TypeParts DEF DataOK
    <3>1. PICK j \in 1..Len(sent) : sent[j] = x
      BY <3>0, ToSetFacts
    <3>2. PICK b \in 1..(Settled + next - 1) : accepted[b] = sent[j]
      BY <1>2, <2>1 DEF OnceInv
    <3>3. PICK i \in 1..Len(buffer) : buffer[i] = x
      BY <2>1, <3>0, ToSetFacts
    <3>4. /\ Settled + i \in 1..Len(accepted) /\ accepted[Settled + i] = x
          /\ b \in 1..Len(accepted) /\ b # Settled + i
      BY <1>2, <3>0, <3>2, <3>3, BufferIsLast
    <3> QED
      BY <1>2, <3>1, <3>2, <3>4 DEF RecordsInv, AcceptedInv
  <2> QED
    BY <1>2, <2>1 DEF AtMostOnce, OnceInv
<1> QED
  BY <1>1, <1>2, OnceInit, TypeInvariance, RecordsInvariance, PTL DEF SyncSpec
(***************************************************************************)
(* Without it, at least once.                                              *)
(***************************************************************************)
LEMMA KeptInit == SyncInit => KeptInv
<1> SUFFICES ASSUME SyncInit PROVE KeptInv
  OBVIOUS
<1>1. Settled = 0 /\ next = 1 /\ 1..0 = {} /\ 1..(next - 1) = {}
  BY DEF SyncInit, Settled
<1> QED
  BY <1>1 DEF KeptInv

LEMMA KeptSends ==
    ASSUME TypeInv, RecordsInv, KeptInv, ~settings.failOpen, Sends
    PROVE  KeptInv'
<1>0. sent \in Seq(Records) /\ buffer \in Seq(Records)
  BY TypeParts DEF DataOK
<1>1. /\ next <= Len(buffer) /\ sent' = Append(sent, buffer[next]) /\ next' = next + 1
      /\ UNCHANGED <<settings, buffer, accepted>>
      /\ Settled' = Settled
  BY DEF Sends, Settled
<1>2. next \in 1..Len(buffer) /\ next \in Nat /\ buffer[next] \in Records
  BY <1>0, <1>1, BufferIsLast
<1>3. buffer[next] \in ToSet(sent') /\ \A x \in ToSet(sent) : x \in ToSet(sent')
  <2>1. /\ sent' \in Seq(Records) /\ Len(sent') = Len(sent) + 1 /\ Len(sent) \in Nat
        /\ sent'[Len(sent) + 1] = buffer[next]
        /\ \A j \in 1..Len(sent) : sent'[j] = sent[j] /\ j \in 1..(Len(sent) + 1)
    BY <1>0, <1>1, <1>2
  <2>2. Len(sent) + 1 \in 1..Len(sent')
    BY <2>1
  <2> QED
    BY <1>0, <2>1, <2>2, ToSetFacts
<1>4. \A i \in 1..(next' - 1) : i = next \/ i \in 1..(next - 1)
  BY <1>1, <1>2
<1> QED
  BY <1>1, <1>3, <1>4 DEF KeptInv

LEMMA KeptStep ==
    ASSUME TypeInv, RecordsInv, KeptInv, [SyncNext]_syncVars
    PROVE  KeptInv'
<1>1. UNCHANGED settings
  <2>1. ASSUME NEW t \in Threads, ThreadSteps(t)
        PROVE  UNCHANGED settings
    BY <2>1, DataKinds DEF Sends, Drops, Keeps, Clears, Quiet, Appends
  <2> QED
    BY <2>1, NextCases
<1>2. CASE settings.failOpen
  BY <1>1, <1>2 DEF KeptInv
<1>3. ASSUME ~settings.failOpen, UNCHANGED <<settings, buffer, next, accepted, sent>>
      PROVE  KeptInv'
  BY <1>3 DEF KeptInv, Settled
<1>4. ASSUME ~settings.failOpen, NEW t \in Threads, ThreadSteps(t)
      PROVE  KeptInv'
  <2>1. CASE Keeps
    <3>1. next' = 1 /\ 1..(1 - 1) = {}
      BY <2>1 DEF Keeps
    <3> QED
      BY <1>4, <2>1, <3>1 DEF Keeps, KeptInv, Settled
  <2>2. CASE Clears
    <3>1. /\ next = Len(buffer) + 1 /\ buffer' = << >> /\ next' = 1
          /\ UNCHANGED <<settings, accepted, sent>>
      BY <2>2 DEF Clears
    <3>2. /\ Len(buffer') = 0 /\ Settled' = Len(accepted) /\ 1..(next' - 1) = {}
          /\ Len(accepted) = Settled + Len(buffer) /\ Settled \in Nat /\ Len(buffer) \in Nat
      <4>1. Len(buffer') = 0
        BY <3>1
      <4> QED
        BY <3>1, <4>1, BufferIsLast DEF Settled
    <3>3. ASSUME NEW b \in 1..Len(accepted)
          PROVE  accepted[b] \in ToSet(sent)
      <4>1. CASE b \in 1..Settled
        BY <1>4, <4>1 DEF KeptInv
      <4>2. CASE b \notin 1..Settled
        <5>1. b - Settled \in 1..Len(buffer) /\ Settled + (b - Settled) = b
          BY <3>2, <4>2
        <5>2. b - Settled \in 1..(next - 1) /\ accepted[b] = buffer[b - Settled]
          BY <3>1, <3>2, <5>1, BufferIsLast
        <5> QED
          BY <1>4, <5>2 DEF KeptInv
      <4> QED
        BY <4>1, <4>2
    <3> QED
      BY <3>1, <3>2, <3>3 DEF KeptInv
  <2>3. CASE t \in Emitters /\ Appends(t)
    <3> DEFINE r == <<t, emitted[t]>>
    <3>1. /\ buffer' = Append(buffer, r) /\ accepted' = Append(accepted, r)
          /\ next = 1 /\ UNCHANGED <<settings, next, sent>>
      BY <2>3 DEF Appends
    <3>2. r \in Records /\ accepted \in Seq(Records) /\ buffer \in Seq(Records)
      <4>1. emitted[t] \in Nat /\ emitted[t] >= 1 /\ emitted[t] <= MaxEmits[t]
        BY <2>3, TypeParts DEF EmittedOK, Appends
      <4> QED
        BY <2>3, <4>1, RecordIsPair, TypeParts DEF DataOK
    <3> HIDE DEF r
    <3>3. Settled' = Settled /\ \A b \in 1..Len(accepted) : accepted'[b] = accepted[b]
      BY <3>1, <3>2 DEF Settled
    <3>4. 1..(next' - 1) = {} /\ \A b \in 1..Settled : b \in 1..Len(accepted)
      BY <3>1, BufferIsLast
    <3> QED
      BY <1>4, <3>1, <3>3, <3>4 DEF KeptInv
  <2>4. ~Drops
    BY <1>4 DEF Drops
  <2> QED
    BY <1>3, <1>4, <2>1, <2>2, <2>3, <2>4, KeptSends, DataKinds DEF Quiet
<1> QED
  BY <1>2, <1>3, <1>4, NextCases

(* A handler that is not fail-open never forgets a record: it is still in  *)
(* the buffer until the broker has received it (_flush_locked).            *)
THEOREM FailClosedIsAtLeastOnce == SyncSpec => []AtLeastOnce
<1>1. TypeInv /\ RecordsInv /\ KeptInv /\ [SyncNext]_syncVars => KeptInv'
  BY KeptStep
<1>2. ASSUME TypeInv, RecordsInv, KeptInv
      PROVE  AtLeastOnce
  <2>1. ASSUME ~settings.failOpen, NEW x \in ToSet(accepted)
        PROVE  x \in ToSet(sent) \cup ToSet(buffer)
    <3>0. accepted \in Seq(Records) /\ buffer \in Seq(Records)
      BY <1>2, TypeParts DEF DataOK
    <3>1. PICK b \in 1..Len(accepted) : accepted[b] = x
      BY <3>0, ToSetFacts
    <3>2. CASE b \in 1..Settled
      BY <1>2, <2>1, <3>1, <3>2 DEF KeptInv
    <3>3. CASE b \notin 1..Settled
      <4>1. b - Settled \in 1..Len(buffer) /\ Settled + (b - Settled) = b
        BY <1>2, <3>3, BufferIsLast
      <4>2. buffer[b - Settled] = x
        BY <1>2, <3>1, <4>1, BufferIsLast
      <4> QED
        BY <3>0, <4>1, <4>2, ToSetFacts
    <3> QED
      BY <3>2, <3>3
  <2> QED
    BY <2>1 DEF AtLeastOnce
<1> QED
  BY <1>1, <1>2, KeptInit, TypeInvariance, RecordsInvariance, PTL DEF SyncSpec

(***************************************************************************)
(* flush() as a barrier.                                                   *)
(***************************************************************************)
(* A thread whose flush returns leaves the buffer empty, or found the      *)
(* handler closed.                                                         *)
LEMMA FlushCallReturns ==
    ASSUME TypeInv, NEW t \in Threads, ThreadSteps(t), NEW u \in Users,
           call'[u] = "flush", pc'[u] = "returned"
    PROVE  \/ call[u] = "flush" /\ pc[u] = "returned"
           \/ closed
           \/ buffer' = << >>
<1>0. /\ call \in [Users -> Calls] /\ pc \in [Threads -> EmitterPCs \cup UserPCs]
      /\ u \in Threads /\ u \notin Emitters
      /\ t \in Emitters <=> t \notin Users
      /\ pc[u] \in {"close", "set", "conn"} => call[u] \in {"close", "exit"}
  BY TypeParts, EmittersAndUsers DEF Control, Threads
<1>1. CASE t \in Users /\ UserCalls(t)
  <2>1. PICK c \in {"flush", "close", "exit"} :
            call' = [call EXCEPT ![t] = c] /\ pc' = [pc EXCEPT ![t] = c]
    BY <1>1 DEF UserCalls, GoTo
  <2>2. t # u
    BY <1>0, <2>1
  <2> QED
    BY <1>0, <2>1, <2>2
<1>2. CASE ~(t \in Users /\ UserCalls(t))
  <2>1. call' = call
    BY <1>0, <1>2 DEF ThreadSteps, CallHandle, EmitSteps, Enter, AppendRecord, UserSteps,
       ExitEnter, FlushCheck, FlushLocked, CloseCheck, CloseSet, CloseConn,
       FlushSteps, Publish, PublishRaises, FlushDone, callVars
  <2>2. CASE t # u
    <3>1. CASE t \in Emitters /\ CallHandle(t)
      BY <1>0, <2>1, <2>2, <3>1 DEF CallHandle, GoTo
    <3>2. CASE ~(t \in Emitters /\ CallHandle(t))
      <4>1. PICK w : GoTo(t, w) \/ pc' = pc
        BY <3>2, StepLeavesEmitted
      <4> QED
        BY <1>0, <2>1, <2>2, <4>1 DEF GoTo
    <3> QED
      BY <3>1, <3>2
  <2>3. CASE t = u
    <3>1. UserSteps(u)
      BY <1>0, <1>2, <2>3 DEF ThreadSteps
    <3>2. CASE ExitEnter(u)
      BY <1>0, <3>2 DEF ExitEnter, GoTo
    <3>3. CASE FlushCheck(u)
      BY <1>0, <3>3 DEF FlushCheck, GoTo
    <3>4. CASE FlushLocked(u)
      BY <1>0, <3>4 DEF FlushLocked, GoTo, bufferVars
    <3>5. CASE CloseCheck(u) \/ CloseSet(u) \/ CloseConn(u)
      BY <1>0, <2>1, <3>5 DEF CloseCheck, CloseSet, CloseConn, GoTo
    <3>6. CASE Publish(u)
      BY <1>0, <2>1, <3>6 DEF Publish
    <3>7. CASE PublishRaises(u)
      <4>1. FlushRaises(u) => pc'[u] # "returned"
        BY <1>0 DEF FlushRaises, GoTo
      <4> QED
        BY <3>7, <4>1 DEF PublishRaises
    <3>8. CASE FlushDone(u)
      BY <3>8 DEF FlushDone
    <3> QED
      BY <3>1, <3>2, <3>3, <3>4, <3>5, <3>6, <3>7, <3>8 DEF UserSteps, FlushSteps
  <2> QED
    BY <2>2, <2>3
<1> QED
  BY <1>1, <1>2

LEMMA ClosedStays ==
    ASSUME TypeInv, [SyncNext]_syncVars, closed
    PROVE  closed'
<1>1. ASSUME NEW t \in Threads, ThreadSteps(t)
      PROVE  closed'
  BY <1>1, StepKinds DEF Publish, PublishRaises, FlushDone, AppendRecord, FlushLocked, closeVars
<1> QED
  BY <1>1, NextCases DEF closeVars

LEMMA BeforeStep ==
    ASSUME TypeInv, NEW t \in Threads, ThreadSteps(t), NEW u \in Users
    PROVE  /\ Len(accepted') >= Len(accepted)
           /\ before'[u] \in {before[u], Len(accepted), 0}
           /\ call'[u] = "flush" /\ pc'[u] = "returned" => before'[u] = before[u]
<1>0. /\ accepted \in Seq(Records) /\ Len(accepted) \in Nat /\ before \in [Users -> Nat]
      /\ pc \in [Threads -> EmitterPCs \cup UserPCs]
      /\ t \in Emitters <=> t \notin Users
  BY TypeParts, EmittersAndUsers DEF DataOK, Control
<1>1. Len(accepted') >= Len(accepted)
  <2>1. CASE t \in Emitters /\ Appends(t)
    <3>1. accepted' = Append(accepted, <<t, emitted[t]>>)
      BY <2>1 DEF Appends
    <3>2. Len(accepted') = Len(accepted) + 1
      BY <1>0, <3>1
    <3> QED
      BY <1>0, <3>2
  <2>2. CASE UNCHANGED accepted
    BY <1>0, <2>2
  <2> QED
    BY <2>1, <2>2, DataKinds DEF Sends, Drops, Keeps, Clears, Quiet
<1>2. CASE t \in Users /\ UserCalls(t)
  <2>1. PICK c \in {"flush", "close", "exit"} :
            /\ pc' = [pc EXCEPT ![t] = c]
            /\ before' = [before EXCEPT ![t] = IF c = "flush" THEN Len(accepted) ELSE 0]
    BY <1>2 DEF UserCalls, GoTo
  <2>2. t = u => pc'[u] # "returned"
    BY <1>0, <2>1, <1>2 DEF Threads
  <2>3. before'[u] \in {before[u], Len(accepted), 0} /\ (t # u => before'[u] = before[u])
    BY <1>0, <1>2, <2>1
  <2> QED
    BY <1>1, <2>2, <2>3
<1>3. CASE ~(t \in Users /\ UserCalls(t))
  <2>1. before' = before
    BY <1>0, <1>3 DEF ThreadSteps, CallHandle, EmitSteps, Enter, AppendRecord, UserSteps,
       ExitEnter, FlushCheck, FlushLocked, CloseCheck, CloseSet, CloseConn,
       FlushSteps, Publish, PublishRaises, FlushDone, callVars
  <2> QED
    BY <1>1, <2>1
<1> QED
  BY <1>2, <1>3

LEMMA BarrierStep ==
    ASSUME TypeInv, TypeInv', RecordsInv, BarrierInv, [SyncNext]_syncVars
    PROVE  BarrierInv'
<1>0. RecordsInv' /\ Settled' >= Settled /\ Settled \in Nat /\ Settled' \in Nat
  BY RecordsStep DEF RecordsInv, BufferInv
<1>1. CASE /\ UNCHANGED <<settings, buffer, next, accepted, sent, dropped, closeVars,
                          callVars, lock, hlock, pc>>
           /\ due' \in {due, TRUE}
  BY <1>1 DEF BarrierInv, Settled, closeVars, callVars
<1>2. ASSUME NEW t \in Threads, ThreadSteps(t), NEW u \in Users
      PROVE  /\ before'[u] <= Len(accepted')
             /\ call'[u] = "flush" /\ pc'[u] = "returned" => closed' \/ before'[u] <= Settled'
  <2>0. /\ Len(accepted) \in Nat /\ Len(accepted') \in Nat
        /\ before[u] \in Nat /\ before'[u] \in Nat
    BY TypeParts, TypePartsNext DEF DataOK
  <2>1. before'[u] <= Len(accepted')
    BY <1>2, <2>0, BeforeStep DEF BarrierInv
  <2>2. ASSUME call'[u] = "flush", pc'[u] = "returned"
        PROVE  closed' \/ before'[u] <= Settled'
    <3>1. CASE call[u] = "flush" /\ pc[u] = "returned"
      <4>1. closed \/ before[u] <= Settled
        BY <3>1 DEF BarrierInv
      <4>2. before'[u] = before[u]
        BY <1>2, <2>2, BeforeStep
      <4>3. CASE closed
        BY <4>3, ClosedStays
      <4>4. CASE before[u] <= Settled
        BY <1>0, <2>0, <4>2, <4>4
      <4> QED
        BY <4>1, <4>3, <4>4
    <3>2. CASE closed
      BY <3>2, ClosedStays
    <3>3. CASE buffer' = << >>
      <4>1. Settled' = Len(accepted')
        <5>1. Len(buffer') = 0
          BY <3>3
        <5> QED
          BY <2>0, <5>1 DEF Settled
      <4> QED
        BY <2>1, <4>1
    <3> QED
      BY <1>2, <2>2, <3>1, <3>2, <3>3, FlushCallReturns
  <2> QED
    BY <2>1, <2>2
<1> QED
  BY <1>1, <1>2, NextCases DEF BarrierInv

(* flush() is a barrier: once it has returned on a handler that is not     *)
(* closed, no record accepted before the call is in the buffer, whoever    *)
(* emptied it (flush, _flush_locked).                                      *)
THEOREM FlushMakesBarrier == SyncSpec => []FlushIsBarrier
<1>1. SyncInit => BarrierInv
  BY DEF SyncInit, BarrierInv
<1>2. TypeInv /\ TypeInv' /\ RecordsInv /\ BarrierInv /\ [SyncNext]_syncVars => BarrierInv'
  BY BarrierStep
<1>3. ASSUME TypeInv, RecordsInv, BarrierInv
      PROVE  FlushIsBarrier
  <2>1. ASSUME NEW u \in Users, call[u] = "flush", pc[u] = "returned", ~closed,
               NEW i \in 1..before[u], NEW j \in 1..Len(buffer), buffer[j] = accepted[i]
        PROVE  FALSE
    <3>1. before[u] <= Settled /\ before[u] \in Nat
      BY <1>3, <2>1, TypeParts DEF BarrierInv, DataOK
    <3>2. Settled + j \in 1..Len(accepted) /\ accepted[Settled + j] = buffer[j]
      BY <1>3, BufferIsLast
    <3>3. i \in 1..Len(accepted) /\ i # Settled + j
      BY <1>3, <3>1, BufferIsLast
    <3> QED
      BY <1>3, <2>1, <3>2, <3>3 DEF RecordsInv, AcceptedInv
  <2> QED
    BY <2>1 DEF FlushIsBarrier, Contains
<1> QED
  BY <1>1, <1>2, <1>3, TypeInvariance, RecordsInvariance, PTL DEF SyncSpec
(***************************************************************************)
(* logging.shutdown() strands nothing.                                     *)
(***************************************************************************)
(* Only AppendRecord puts something in the buffer.                         *)
LEMMA EmptyStays ==
    ASSUME TypeInv, NEW t \in Threads, ThreadSteps(t), buffer = << >>,
           \A x \in Emitters : pc[x] # "append"
    PROVE  buffer' = << >>
BY DataKinds DEF Sends, Drops, Keeps, Clears, Quiet, Appends

(* A user other than the one that steps stays where it is.                 *)
LEMMA UserLocal ==
    ASSUME TypeInv, NEW t \in Threads, ThreadSteps(t), NEW x \in Threads, x # t
    PROVE  pc'[x] = pc[x] /\ (x \in Users => call'[x] = call[x])
<1>0. /\ call \in [Users -> Calls] /\ pc \in [Threads -> EmitterPCs \cup UserPCs]
      /\ t \in Emitters <=> t \notin Users
  BY TypeParts, EmittersAndUsers DEF Control
<1>1. CASE t \in Emitters /\ CallHandle(t)
  BY <1>0, <1>1 DEF CallHandle, GoTo
<1>2. CASE ~(t \in Emitters /\ CallHandle(t))
  <2>1. PICK w : GoTo(t, w) \/ pc' = pc
    BY <1>2, StepLeavesEmitted
  <2>2. call' = call \/ (t \in Users /\ UserCalls(t))
    BY <1>0, <1>2 DEF ThreadSteps, CallHandle, EmitSteps, Enter, AppendRecord, UserSteps,
       ExitEnter, FlushCheck, FlushLocked, CloseCheck, CloseSet, CloseConn,
       FlushSteps, Publish, PublishRaises, FlushDone, callVars
  <2>3. x \in Users => call'[x] = call[x]
    BY <1>0, <2>2 DEF UserCalls
  <2> QED
    BY <1>0, <2>1, <2>3 DEF GoTo
<1> QED
  BY <1>1, <1>2

(* Where a user comes to close, and with what.                             *)
LEMMA ExitMoves ==
    ASSUME TypeInv, NEW u \in Users, ThreadSteps(u)
    PROVE  /\ call'[u] = call[u] \/ call[u] = "none"
           /\ pc'[u] = "close" => \/ buffer' = << >> \/ closed
                                  \/ call'[u] = "close"
           /\ pc'[u] = "set" => UNCHANGED buffer /\ pc[u] \in {"close", "set"}
           /\ pc'[u] = "conn" => closed' \/ pc[u] = "conn"
           /\ closed' # closed => pc[u] = "set" /\ UNCHANGED buffer
           /\ call'[u] = "exit" /\ pc'[u] = "returned" =>
                 closed \/ pc[u] = "conn" \/ (call[u] = "exit" /\ pc[u] = "returned")
<1>0. /\ call \in [Users -> Calls] /\ pc \in [Threads -> EmitterPCs \cup UserPCs]
      /\ u \in Threads /\ u \notin Emitters
      /\ pc[u] = "idle" <=> call[u] = "none"
  BY TypeParts, EmittersAndUsers DEF Control, Threads
<1>1. CASE UserCalls(u)
  <2>1. PICK c \in {"flush", "close", "exit"} :
            call' = [call EXCEPT ![u] = c] /\ pc' = [pc EXCEPT ![u] = c]
    BY <1>1 DEF UserCalls, GoTo
  <2>2. UNCHANGED <<buffer, closed>> /\ pc[u] = "idle"
    BY <1>1 DEF UserCalls, bufferVars, closeVars
  <2> QED
    BY <1>0, <2>1, <2>2
<1>2. CASE ExitEnter(u)
  BY <1>0, <1>2 DEF ExitEnter, GoTo, bufferVars, closeVars, callVars
<1>3. CASE FlushCheck(u)
  BY <1>0, <1>3 DEF FlushCheck, FlushReturns, GoTo, bufferVars, closeVars, callVars
<1>4. CASE FlushLocked(u)
  BY <1>0, <1>4 DEF FlushLocked, FlushReturns, GoTo, bufferVars, closeVars, callVars
<1>5. CASE CloseCheck(u)
  BY <1>0, <1>5 DEF CloseCheck, CloseReturns, GoTo, bufferVars, closeVars, callVars
<1>6. CASE CloseSet(u) \/ CloseConn(u)
  BY <1>0, <1>6 DEF CloseSet, CloseConn, CloseReturns, GoTo, bufferVars, closeVars, callVars
<1>7. CASE Publish(u)
  <2>1. pc' = pc /\ call' = call /\ closed' = closed /\ buffer' = buffer /\ pc[u] = "publish"
    BY <1>7 DEF Publish, closeVars, callVars
  <2> QED
    BY <2>1
<1>8. CASE PublishRaises(u) \/ FlushDone(u)
  <2>1. /\ pc[u] = "publish" /\ call' = call /\ closed' = closed
        /\ \/ buffer' = << >> /\ FlushReturns(u)
           \/ FlushRaises(u)
    BY <1>8 DEF PublishRaises, FlushDone, closeVars, callVars
  <2> QED
    BY <1>0, <2>1 DEF FlushReturns, FlushRaises, GoTo
<1> QED
  BY <1>0, <1>1, <1>2, <1>3, <1>4, <1>5, <1>6, <1>7, <1>8 DEF ThreadSteps, UserSteps, FlushSteps

(* An emitter enters emit() only on an open handler that no exit holds.    *)
LEMMA EmitterEnters ==
    ASSUME TypeInv, NEW t \in Threads, ThreadSteps(t), NEW x \in Emitters,
           pc'[x] \in {"append", "publish"}, pc[x] \notin {"append", "publish"}
    PROVE  t = x /\ ~closed /\ hlock = NoThread /\ UNCHANGED closed
<1>0. /\ pc \in [Threads -> EmitterPCs \cup UserPCs]
      /\ x \in Threads /\ x \notin Users
  BY TypeParts, EmittersAndUsers DEF Control, Threads
<1>1. t = x
  BY <1>0, UserLocal
<1>2. CASE Enter(x)
  <2>1. hlock = NoThread /\ UNCHANGED closed /\ (~closed \/ GoTo(x, "idle"))
    BY <1>2 DEF Enter, closeVars
  <2>2. ~GoTo(x, "idle")
    BY <1>0 DEF GoTo
  <2> QED
    BY <1>1, <2>1, <2>2
<1>3. CASE CallHandle(x)
  BY <1>0, <1>3 DEF CallHandle, GoTo
<1>4. CASE AppendRecord(x) \/ FlushSteps(x)
  <2>1. pc[x] \in {"append", "publish"}
    BY <1>4 DEF AppendRecord, FlushSteps, Publish, PublishRaises, FlushDone
  <2> QED
    BY <2>1
<1>5. CallHandle(x) \/ Enter(x) \/ AppendRecord(x) \/ FlushSteps(x)
  BY <1>0, <1>1 DEF ThreadSteps, EmitSteps
<1> QED
  BY <1>1, <1>2, <1>3, <1>4, <1>5

LEMMA EmitterOpen ==
    ASSUME NEW t \in Threads, ThreadSteps(t), t \in Emitters
    PROVE  UNCHANGED closed
<1>1. t \notin Users
  BY EmittersAndUsers
<1> QED
  BY <1>1 DEF ThreadSteps, CallHandle, EmitSteps, Enter, AppendRecord, FlushSteps,
     Publish, PublishRaises, FlushDone, closeVars

(* While an exit is at close, or about to set _closed, it holds the        *)
(* handler's own lock, and no emitter is in emit().                        *)
LEMMA ExitKeepsOut ==
    ASSUME TypeInv, NobodyCloses, NEW u \in Users, pc[u] \in {"close", "set"}
    PROVE  hlock = u /\ \A x \in Emitters : pc[x] \notin {"append", "publish"}
<1>1. call[u] = "exit"
  BY TypeParts DEF Control, NobodyCloses
<1>2. hlock = u
  BY <1>1, TypeParts DEF Control
<1> QED
  BY <1>2, TypeParts, EmittersAndUsers DEF Control, Threads

LEMMA ExitStep ==
    ASSUME TypeInv, TypeInv', ExitInv, NEW t \in Threads, ThreadSteps(t)
    PROVE  ExitInv'
<1>0. /\ \A u \in Users : u \in Threads /\ u \notin Emitters
      /\ \A x \in Emitters : x \in Threads
      /\ t \in Emitters \cup Users
  BY EmittersAndUsers DEF Threads
<1>1. closed => closed'
  BY ClosedStays DEF SyncNext, ThreadSteps
<1>2. ASSUME NEW u \in Users, pc'[u] = "conn" \/ (call'[u] = "exit" /\ pc'[u] = "returned")
      PROVE  closed'
  <2>1. CASE u = t
    BY <1>1, <1>2, <2>1, ExitMoves DEF ExitInv
  <2>2. CASE u # t
    BY <1>0, <1>1, <1>2, <2>2, UserLocal DEF ExitInv
  <2> QED
    BY <2>1, <2>2
<1>3. NobodyCloses' => NobodyCloses
  <2>1. ASSUME NEW u \in Users, call[u] = "close"
        PROVE  call'[u] = "close"
    <3>1. CASE u = t
      BY <2>1, <3>1, ExitMoves
    <3>2. CASE u # t
      BY <1>0, <2>1, <3>2, UserLocal
    <3> QED
      BY <3>1, <3>2
  <2> QED
    BY <2>1 DEF NobodyCloses
<1>4. ASSUME NobodyCloses', closed'
      PROVE  buffer' = << >> /\ \A x \in Emitters : pc'[x] \notin {"append", "publish"}
  <2>1. buffer = << >> /\ \A x \in Emitters : pc[x] \notin {"append", "publish"}
    <3>1. CASE closed
      BY <1>3, <1>4, <3>1 DEF ExitInv
    <3>2. CASE ~closed
      <4>1. t \in Users /\ pc[t] = "set"
        BY <1>0, <1>4, <3>2, EmitterOpen, ExitMoves
      <4>2. buffer = << >>
        BY <1>3, <1>4, <4>1 DEF ExitInv
      <4> QED
        BY <1>3, <1>4, <4>1, <4>2, ExitKeepsOut
    <3> QED
      BY <3>1, <3>2
  <2>2. buffer' = << >>
    BY <2>1, EmptyStays
  <2>3. ASSUME NEW x \in Emitters, pc'[x] \in {"append", "publish"}
        PROVE  FALSE
    BY <1>4, <2>1, <2>3, EmitterEnters
  <2> QED
    BY <2>2, <2>3
<1>5. ASSUME NobodyCloses', NEW u \in Users, pc'[u] \in {"close", "set"}
      PROVE  buffer' = << >>
  <2>1. CASE u # t
    <3>1. pc[u] \in {"close", "set"}
      BY <1>0, <1>5, <2>1, UserLocal
    <3>2. buffer = << >> /\ \A x \in Emitters : pc[x] \notin {"append", "publish"}
      BY <1>3, <1>5, <3>1, ExitKeepsOut DEF ExitInv
    <3> QED
      BY <3>2, EmptyStays
  <2>2. CASE u = t /\ pc'[u] = "close"
    <3>1. call'[u] # "close"
      BY <1>5 DEF NobodyCloses
    <3>2. buffer' = << >> \/ closed
      BY <2>2, <3>1, ExitMoves
    <3> QED
      BY <1>1, <1>4, <1>5, <3>2
  <2>3. CASE u = t /\ pc'[u] = "set"
    <3>1. UNCHANGED buffer /\ pc[u] \in {"close", "set"}
      BY <2>3, ExitMoves
    <3> QED
      BY <1>3, <1>5, <3>1 DEF ExitInv
  <2> QED
    BY <1>5, <2>1, <2>2, <2>3
<1> QED
  BY <1>2, <1>4, <1>5 DEF ExitInv

(* logging.shutdown() strands nothing, although close() does: it flushes   *)
(* first, and by its hold on the handler's own lock no emitter adds a      *)
(* record before the handler is closed (flush, close, emit).               *)
THEOREM ExitLeavesNothing == SyncSpec => []ExitStrandsNothing
<1>1. SyncInit => ExitInv
  BY EmittersAndUsers DEF SyncInit, ExitInv, Threads
<1>2. ASSUME TypeInv, TypeInv', ExitInv, [SyncNext]_syncVars
      PROVE  ExitInv'
  <2>1. CASE /\ UNCHANGED <<settings, buffer, next, accepted, sent, dropped, closeVars,
                            callVars, lock, hlock, pc>>
             /\ due' \in {due, TRUE}
    BY <1>2, <2>1 DEF ExitInv, NobodyCloses, closeVars, callVars
  <2> QED
    BY <1>2, <2>1, ExitStep, NextCases
<1>3. ExitInv => ExitStrandsNothing
  BY DEF ExitInv, ExitStrandsNothing, NobodyCloses
<1> QED
  BY <1>1, <1>2, <1>3, TypeInvariance, PTL DEF SyncSpec
(***************************************************************************)
(* The handler implements what BrokerDelivery promises. With fail-open off *)
(* it retries; what has left the buffer is confirmed.                      *)
(***************************************************************************)
Delivery == INSTANCE BrokerDelivery
            WITH retries <- ~settings.failOpen, lost <- dropped,
                 passed <- Settled + next - 1, confirmed <- Settled

LEMMA DeliveryInit == SyncInit => Delivery!DeliveryInit
<1> SUFFICES ASSUME SyncInit PROVE Delivery!DeliveryInit
  OBVIOUS
<1>1. accepted = << >> /\ buffer = << >> /\ sent = << >> /\ dropped = {} /\ next = 1
  BY DEF SyncInit
<1>2. Settled = 0 /\ Settled + next - 1 = 0
  <2>1. Len(<< >>) = 0
    OBVIOUS
  <2> QED
    BY <1>1, <2>1 DEF Settled
<1> QED
  BY <1>1, <1>2 DEF Delivery!DeliveryInit

(* Where the flush loop stands among the records accepted.                 *)
LEMMA FlushCounts ==
    ASSUME TypeInv, RecordsInv
    PROVE  /\ Settled \in Nat /\ Len(buffer) \in Nat /\ Len(accepted) \in Nat
           /\ Len(accepted) = Settled + Len(buffer)
           /\ next \in Nat /\ next >= 1 /\ next <= Len(buffer) + 1
           /\ buffer \in Seq(Records) /\ accepted \in Seq(Records) /\ sent \in Seq(Records)
           /\ \A i \in 1..Len(buffer) : buffer[i] = accepted[Settled + i]
<1>1. /\ Len(buffer) \in Nat /\ Len(accepted) \in Nat
      /\ next \in Nat /\ next >= 1 /\ next <= Len(buffer) + 1
      /\ buffer \in Seq(Records) /\ accepted \in Seq(Records) /\ sent \in Seq(Records)
  BY TypeParts DEF DataOK
<1>2. Settled \in Nat /\ \A i \in 1..Len(buffer) : buffer[i] = accepted[Settled + i]
  BY DEF RecordsInv, BufferInv
<1>3. Len(accepted) = Settled + Len(buffer)
  <2>1. Settled = Len(accepted) - Len(buffer)
    BY DEF Settled
  <2> QED
    BY <1>1, <2>1
<1> QED
  BY <1>1, <1>2, <1>3

LEMMA SendSettles ==
    ASSUME TypeInv, RecordsInv, Sends
    PROVE  Delivery!DeliveryNext
<1> DEFINE p == Settled + next - 1
<1>1. /\ p \in Nat /\ p + 1 = Settled + next /\ p + 1 <= Len(accepted) /\ p + 1 \in Nat
      /\ Settled \in Nat /\ accepted \in Seq(Records) /\ sent \in Seq(Records)
  BY FlushCounts DEF Sends
<1>2. buffer[next] = accepted[p + 1]
  <2>1. next \in 1..Len(buffer)
    BY FlushCounts DEF Sends
  <2> QED
    BY <1>1, <2>1, FlushCounts
<1>3. Settled' = Settled /\ Settled' + next' - 1 = p + 1
  <2>1. Settled' = Settled /\ next' = next + 1
    BY DEF Sends, Settled
  <2> QED
    BY <1>1, <2>1, FlushCounts
<1>4. /\ sent' = Append(sent, accepted[p + 1])
      /\ UNCHANGED <<settings, accepted, dropped>>
  BY <1>2 DEF Sends
<1> HIDE DEF p
<1>5. sent' = sent \o SubSeq(accepted, p + 1, p + 1)
  BY <1>1, <1>4, Stretches
<1>6. ((p + 1)..p) \cup ((p + 1 + 1)..(p + 1)) = {}
  BY <1>1
<1>7. Delivery!Settle(p, p + 1, p + 1)
  <2>1. p <= p /\ p <= p + 1 /\ p + 1 <= p + 1
    BY <1>1
  <2>2. dropped' = dropped \cup {accepted[m] : m \in ((p + 1)..p) \cup ((p + 1 + 1)..(p + 1))}
    BY <1>4, <1>6
  <2> QED
    BY <1>1, <1>3, <1>4, <1>5, <2>1, <2>2 DEF Delivery!Settle, p
<1> QED
  BY <1>1, <1>7 DEF Delivery!DeliveryNext

(* A fail-open handler gives up what the loop has not sent.                *)
LEMMA DropSettles ==
    ASSUME TypeInv, RecordsInv, Drops
    PROVE  Delivery!DeliveryNext
<1> DEFINE p == Settled + next - 1
           n == Len(accepted)
<1>1. /\ p \in Nat /\ n \in Nat /\ p <= n /\ Settled \in Nat /\ next \in Nat
      /\ p + 1 = Settled + next /\ n = Settled + Len(buffer) /\ Len(buffer) \in Nat
      /\ accepted \in Seq(Records) /\ sent \in Seq(Records)
  BY FlushCounts
<1>2. Settled' = n /\ Settled' + next' - 1 = n
  <2>1. Len(buffer') = 0 /\ next' = 1 /\ Settled' = Len(accepted') - Len(buffer')
        /\ accepted' = accepted
    BY DEF Drops, Settled
  <2>2. Settled' = n - 0
    BY <2>1
  <2> QED
    BY <1>1, <2>1, <2>2
<1>3. {buffer[i] : i \in next..Len(buffer)}
         = {accepted[m] : m \in ((p + 1)..p) \cup ((p + 1)..n)}
  <2>1. ASSUME NEW i \in next..Len(buffer)
        PROVE  Settled + i \in (p + 1)..n /\ buffer[i] = accepted[Settled + i]
    <3>1. i \in 1..Len(buffer) /\ Settled + i \in (p + 1)..n
      BY <1>1, FlushCounts
    <3> QED
      BY <3>1, FlushCounts
  <2>2. ASSUME NEW m \in ((p + 1)..p) \cup ((p + 1)..n)
        PROVE  m - Settled \in next..Len(buffer) /\ accepted[m] = buffer[m - Settled]
    <3>1. m \in Int /\ p + 1 <= m /\ m <= n
      BY <1>1
    <3>2. m - Settled \in next..Len(buffer) /\ m - Settled \in 1..Len(buffer)
          /\ Settled + (m - Settled) = m
      BY <1>1, <3>1, FlushCounts
    <3>3. buffer[m - Settled] = accepted[Settled + (m - Settled)]
      BY <3>2, FlushCounts
    <3> QED
      BY <3>2, <3>3
  <2> HIDE DEF p, n
  <2> QED
    BY <2>1, <2>2
<1>4. /\ settings.failOpen /\ UNCHANGED <<settings, accepted, sent>>
      /\ dropped' = dropped \cup {buffer[i] : i \in next..Len(buffer)}
  BY DEF Drops
<1> HIDE DEF p
<1>5. sent' = sent \o SubSeq(accepted, p + 1, p)
  BY <1>1, <1>4, Stretches
<1>6. p <= p /\ p <= n /\ n <= Len(accepted)
  BY <1>1
<1>7. Delivery!Settle(p, p, n)
  BY <1>2, <1>3, <1>4, <1>5, <1>6 DEF Delivery!Settle, p
<1> QED
  BY <1>1, <1>7 DEF Delivery!DeliveryNext

(* A failed batch is kept: the loop starts again at its first record.      *)
LEMMA KeepGoesBack ==
    ASSUME TypeInv, RecordsInv, Keeps
    PROVE  Delivery!DeliveryNext
<1>1. Settled' = Settled /\ Settled' + next' - 1 = Settled
  <2>1. Settled' = Settled /\ next' = 1
    BY DEF Keeps, Settled
  <2> QED
    BY <2>1, FlushCounts
<1>2. ~settings.failOpen /\ UNCHANGED <<settings, accepted, sent, dropped>>
  BY DEF Keeps
<1> QED
  BY <1>1, <1>2 DEF Delivery!DeliveryNext, Delivery!GoBack

(* The loop came to the end: the buffer is cleared.                        *)
LEMMA ClearConfirms ==
    ASSUME TypeInv, RecordsInv, Clears
    PROVE  Delivery!DeliveryNext
<1>1. /\ next = Len(buffer) + 1 /\ Len(buffer') = 0 /\ next' = 1
      /\ UNCHANGED <<settings, accepted, sent, dropped>>
  BY DEF Clears
<1>2. Settled' = Settled + next - 1
  <2>1. Settled' = Len(accepted) - 0
    BY <1>1 DEF Settled
  <2> QED
    BY <1>1, <2>1, FlushCounts
<1>3. Settled' + next' - 1 = Settled + next - 1
  <2>1. Settled + next - 1 \in Int
    BY FlushCounts
  <2> QED
    BY <1>1, <1>2, <2>1
<1> QED
  BY <1>1, <1>2, <1>3 DEF Delivery!DeliveryNext, Delivery!Confirm

(* A record that is appended was never accepted before.                    *)
LEMMA AppendAccepts ==
    ASSUME TypeInv, RecordsInv, RecordsInv', NEW t \in Emitters, Appends(t)
    PROVE  Delivery!DeliveryNext
<1> DEFINE r == <<t, emitted[t]>>
           n == Len(accepted)
<1>1. /\ next' = next /\ accepted' = Append(accepted, r) /\ buffer' = Append(buffer, r)
      /\ UNCHANGED <<settings, sent, dropped>> /\ pc[t] = "append"
  BY DEF Appends
<1>2. r \in Records
  <2>1. emitted[t] \in Nat /\ emitted[t] >= 1 /\ emitted[t] <= MaxEmits[t]
    BY <1>1, TypeParts DEF EmittedOK
  <2> QED
    BY <2>1, RecordIsPair
<1> HIDE DEF r
<1>3. /\ Len(accepted') = n + 1 /\ accepted'[n + 1] = r
      /\ \A i \in 1..n : accepted'[i] = accepted[i]
      /\ Len(buffer') = Len(buffer) + 1
  BY <1>1, <1>2, FlushCounts
<1>4. Settled' = Settled
  <2>1. Settled' = (Len(accepted) + 1) - (Len(buffer) + 1) /\ Settled = Len(accepted) - Len(buffer)
    BY <1>3 DEF Settled
  <2> QED
    BY <2>1, FlushCounts
<1>5. \A i \in 1..n : accepted[i] # r
  <2>1. ASSUME NEW i \in 1..n, accepted[i] = r
        PROVE  FALSE
    <3>1. n \in Nat /\ i \in 1..(n + 1) /\ n + 1 \in 1..(n + 1) /\ i # n + 1
      BY FlushCounts
    <3>2. accepted'[i] = accepted'[n + 1]
      BY <1>3, <2>1
    <3> QED
      BY <1>3, <3>1, <3>2 DEF RecordsInv, AcceptedInv
  <2> QED
    BY <2>1
<1>6. Settled' + next' - 1 = Settled + next - 1
  BY <1>1, <1>4
<1>7. Delivery!Accept(r)
  BY <1>1, <1>4, <1>5, <1>6 DEF Delivery!Accept
<1> QED
  BY <1>2, <1>7 DEF Delivery!DeliveryNext

LEMMA DeliveryStep ==
    ASSUME TypeInv, RecordsInv, RecordsInv', [SyncNext]_syncVars
    PROVE  [Delivery!DeliveryNext]_(Delivery!deliveryVars)
<1>1. ASSUME UNCHANGED <<settings, buffer, next, accepted, sent, dropped>>
      PROVE  UNCHANGED Delivery!deliveryVars
  BY <1>1 DEF Delivery!deliveryVars, Settled
<1>2. ASSUME NEW t \in Threads, ThreadSteps(t)
      PROVE  Delivery!DeliveryNext \/ UNCHANGED <<settings, buffer, next, accepted, sent, dropped>>
  BY <1>2, DataKinds, SendSettles, DropSettles, KeepGoesBack, ClearConfirms, AppendAccepts
     DEF Quiet
<1> QED
  BY <1>1, <1>2, NextCases

(* Whatever its threads do, the handler deals with the records in the order*)
(* in which it accepted them, each once: it sends some in that order and   *)
(* drops the others, or, without fail-open, drops none and goes back to the*)
(* first one it still holds (emit, _flush_locked, flush, close).           *)
THEOREM HandlerDelivers == SyncSpec => Delivery!DeliverySpec
<1>1. SyncInit => Delivery!DeliveryInit
  BY DeliveryInit
<1>2. TypeInv /\ RecordsInv /\ RecordsInv' /\ [SyncNext]_syncVars
         => [Delivery!DeliveryNext]_(Delivery!deliveryVars)
  BY DeliveryStep
<1> QED
  BY <1>1, <1>2, TypeInvariance, RecordsInvariance, PTL DEF SyncSpec, Delivery!DeliverySpec
===============================================================================
