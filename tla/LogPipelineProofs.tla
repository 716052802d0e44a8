-------------------------- MODULE LogPipelineProofs --------------------------
(***************************************************************************)
(* Proofs about LogPipeline for any sets of producers and stoppers, any    *)
(* configurations and any number of log calls.                             *)
(***************************************************************************)
EXTENDS LogPipeline, SeqLemmas

(***************************************************************************)
(* Who changes what. A step is one of a producer, of the listener or of a  *)
(* stopper, and each leaves the variables of the others alone.             *)
(***************************************************************************)
StopperStep(s) == CallShutdown(s) \/ StopSteps(s)

LEMMA NextCases ==
    ASSUME PipeNext
    PROVE  \/ \E t \in Producers : Produce(t)
           \/ Listen
           \/ \E s \in Stoppers : StopperStep(s)
  BY DEF PipeNext, StopperStep

LEMMA ProducerFrame ==
    ASSUME NEW t \in Producers, Produce(t)
    PROVE  UNCHANGED <<config, listenerVars, factoryVars>>
  BY DEF Produce, GetLogger, Flush, Log, EmitConsole, Filter, Put, LogDone

LEMMA ListenerFrame ==
    ASSUME Listen
    PROVE  UNCHANGED <<config, factoryVars, producerVars, pc, puts>>
  BY DEF Listen, Get, HandToSink, SinkRaises, queueVars

LEMMA StopperFrame ==
    ASSUME NEW s \in Stoppers, StopperStep(s)
    PROVE  UNCHANGED <<config, listenerVars, producerVars>>
  BY DEF StopperStep, StopSteps, CallShutdown, Acquire, StopListener, Join,
         CloseHandler, Withdraw

LEMMA ProducersAndStoppers ==
    ASSUME NEW t \in Producers, NEW s \in Stoppers
    PROVE  t # s /\ t \in Producers \cup Stoppers /\ s \in Producers \cup Stoppers
  BY ThreadsAssumption

LEMMA SinkPlanFacts ==
    ASSUME config \in Configs
    PROVE  /\ config.sinks \in Seq(SinkNames)
           /\ Len(config.sinks) \in 0..2
           /\ config.sinks # << >> => Len(config.sinks) >= 1
           /\ \A i, j \in 1..Len(config.sinks) :
                 config.sinks[i] = config.sinks[j] => i = j
<1> DEFINE p == config.sinks
<1>1. p \in SinkPlans
  BY ConfigsAssumption DEF ConfigType
<1> HIDE DEF p
<1>2. CASE p = << >>
  <2>1. p \in Seq(SinkNames) /\ Len(p) = 0
    BY <1>2
  <2> QED
    BY <1>2, <2>1 DEF p
<1>3. ASSUME NEW x \in SinkNames, p = <<x>>
      PROVE  p \in Seq(SinkNames) /\ Len(p) = 1
  BY <1>3
<1>4. CASE p = <<"file", "amqp">>
  <2>1. p \in Seq(SinkNames) /\ Len(p) = 2 /\ p[1] = "file" /\ p[2] = "amqp"
    BY <1>4 DEF SinkNames
  <2> QED
    BY <2>1 DEF p
<1>5. ASSUME NEW x \in SinkNames, p = <<x>>
      PROVE  /\ p \in Seq(SinkNames) /\ Len(p) \in 0..2
             /\ p # << >> => Len(p) >= 1
             /\ \A i, j \in 1..Len(p) : p[i] = p[j] => i = j
  BY <1>3, <1>5
<1>6. p = << >> \/ p = <<"file", "amqp">> \/ \E x \in SinkNames : p = <<x>>
  BY <1>1 DEF SinkPlans, SinkNames
<1> QED
  BY <1>2, <1>4, <1>5, <1>6 DEF p

HandlerNames == {"console", "queue"}

(* The queue handler comes last, and no handler comes twice.               *)
LEMMA BuildHandlersFacts ==
    ASSUME NEW cfg
    PROVE  LET h == BuildHandlers(cfg) IN
           /\ h \in Seq(HandlerNames)
           /\ \A i, j \in 1..Len(h) : h[i] = h[j] => i = j
           /\ \A i \in 1..Len(h) : h[i] = "queue" <=> (cfg.sinks # << >> /\ i = Len(h))
           /\ cfg.sinks # << >> => Len(h) >= 1
<1> DEFINE a == IF cfg.console THEN <<"console">> ELSE << >>
           b == IF cfg.sinks # << >> THEN <<"queue">> ELSE << >>
<1>1. /\ a \in Seq(HandlerNames) /\ Len(a) \in 0..1
      /\ \A i \in 1..Len(a) : a[i] = "console"
  <2>1. CASE cfg.console
    <3>1. a = <<"console">> /\ "console" \in HandlerNames
      BY <2>1 DEF HandlerNames
    <3> HIDE DEF a
    <3> QED
      BY <3>1, Singleton
  <2>2. CASE ~cfg.console
    <3>1. a = << >>
      BY <2>2
    <3> QED
      BY <3>1
  <2> QED
    BY <2>1, <2>2
<1>2. /\ b \in Seq(HandlerNames) /\ Len(b) \in 0..1
      /\ \A i \in 1..Len(b) : b[i] = "queue"
      /\ cfg.sinks # << >> <=> Len(b) = 1
  <2>1. CASE cfg.sinks # << >>
    <3>1. b = <<"queue">>
      BY <2>1
    <3> QED
      BY <2>1, <3>1 DEF HandlerNames
  <2>2. CASE cfg.sinks = << >>
    <3>1. b = << >>
      BY <2>2
    <3> QED
      BY <2>2, <3>1
  <2> QED
    BY <2>1, <2>2
<1> HIDE DEF a, b
<1>3. /\ a \o b \in Seq(HandlerNames)
      /\ Len(a \o b) = Len(a) + Len(b)
      /\ \A i \in 1..(Len(a) + Len(b)) :
            (a \o b)[i] = IF i <= Len(a) THEN a[i] ELSE b[i - Len(a)]
  BY <1>1, <1>2, ConcatProperties
<1>4. \A i \in 1..Len(a \o b) : (a \o b)[i] = IF i <= Len(a) THEN "console" ELSE "queue"
  BY <1>1, <1>2, <1>3
<1>5. BuildHandlers(cfg) = a \o b
  BY DEF BuildHandlers, a, b
<1> DEFINE h == a \o b
<1>6. h \in Seq(HandlerNames) /\ (cfg.sinks # << >> => Len(h) >= 1)
  BY <1>1, <1>2, <1>3
<1>7. \A i \in 1..Len(h) : h[i] = "queue" <=> (cfg.sinks # << >> /\ i = Len(h))
  BY <1>1, <1>2, <1>3, <1>4
<1>8. \A i, j \in 1..Len(h) : h[i] = h[j] => i = j
  BY <1>1, <1>2, <1>3, <1>4
<1> HIDE DEF h
<1> QED
  BY <1>5, <1>6, <1>7, <1>8 DEF h

(***************************************************************************)
(* Type correctness, with what the types of the listener's and of the      *)
(* producers' steps rest on.                                               *)
(***************************************************************************)
ListenerInv ==
    /\ listener = "absent" <=> config.sinks = << >>
    /\ listener # "absent" => sinkIdx <= Len(config.sinks)
    /\ listener \in {"handling", "dead"} => taken # << >> /\ InHand # Sentinel
    /\ listener = "stopped" => taken # << >> /\ InHand = Sentinel
    /\ listener = "waiting" => sinkIdx = 1

ProducerInv ==
    \A t \in Producers : pc[t] \in {"dispatch", "put"} => logged[t] >= 1

TypeInv == VarsTyped /\ ListenerInv /\ ProducerInv

LEMMA RecordFacts ==
    ASSUME NEW t \in Producers, NEW n \in Nat, n >= 1, n <= MaxLogs[t]
    PROVE  <<t, n>> \in Records /\ <<t, n>> \in Items /\ <<t, n>> # Sentinel
<1>1. <<t, n>> \in Records
  BY MaxLogsAssumption DEF Records
<1> QED
  BY <1>1, SentinelAssumption DEF Items

LEMMA TypeInit == PipeInit => TypeInv
<1> SUFFICES ASSUME PipeInit PROVE TypeInv
  OBVIOUS
<1>1. config \in Configs /\ handlers \in Seq({"console", "queue"})
  BY BuildHandlersFacts DEF PipeInit, HandlerNames
<1>2. /\ queue \in Seq(Items) /\ puts \in Seq(Items) /\ taken \in Seq(Items)
      /\ toClose \in Seq({"console", "queue"})
      /\ handed \in [SinkNames -> Seq(Items)]
      /\ fate \in [Records -> Fates]
  BY DEF PipeInit, Fates
<1>3. /\ listener \in ListenerStates /\ sinkIdx = 1
      /\ listener = "absent" <=> config.sinks = << >>
      /\ listener = "waiting" <=> config.sinks # << >>
  BY DEF PipeInit, ListenerStates
<1>4. /\ shutdown \in BOOLEAN /\ published \in BOOLEAN
      /\ lock \in Stoppers \cup {NoThread}
  BY DEF PipeInit
<1>5. /\ pc \in [Producers \cup Stoppers -> ProducerPCs \cup StopperPCs]
      /\ \A t \in Producers : pc[t] = "new"
      /\ \A s \in Stoppers : pc[s] = "idle"
  BY ThreadsAssumption DEF PipeInit, ProducerPCs, StopperPCs
<1>6. /\ pos \in [Producers -> Nat \ {0}] /\ logged \in [Producers -> Nat]
      /\ \A t \in Producers : logged[t] = 0 /\ MaxLogs[t] \in Nat
  BY MaxLogsAssumption DEF PipeInit
<1>7. VarsTyped
  BY <1>1, <1>2, <1>3, <1>4, <1>5, <1>6 DEF VarsTyped, ProducerPCs, StopperPCs
<1>8. ListenerInv
  BY <1>1, <1>3, SinkPlanFacts DEF ListenerInv
<1>9. ProducerInv
  BY <1>5 DEF ProducerInv
<1> QED
  BY <1>7, <1>8, <1>9 DEF TypeInv

(* Every step of a producer.                                               *)
LEMMA TypeProducer ==
    ASSUME TypeInv, NEW t \in Producers, Produce(t)
    PROVE  TypeInv'
<1> USE DEF TypeInv, VarsTyped
<1>0. UNCHANGED <<config, listenerVars, factoryVars>>
  BY ProducerFrame
<1>1. ListenerInv'
  BY <1>0 DEF ListenerInv, listenerVars, InHand
<1>2. t \in Producers \cup Stoppers /\ \A s \in Stoppers : s # t
  BY ThreadsAssumption
<1>3. ASSUME NEW where \in ProducerPCs, GoTo(t, where)
      PROVE  /\ pc' \in [Producers \cup Stoppers -> ProducerPCs \cup StopperPCs]
             /\ \A u \in Producers : pc'[u] \in ProducerPCs
             /\ \A s \in Stoppers : pc'[s] \in StopperPCs
  BY <1>2, <1>3 DEF GoTo
<1>4. NextHandler(t) => pos' \in [Producers -> Nat \ {0}]
  BY DEF NextHandler
<1>5. \A f \in Fates : Becomes(t, f) => fate' \in [Records -> Fates]
  BY DEF Becomes
<1>6. logged[t] >= 1 => Current(t) \in Items
  BY RecordFacts DEF Current
<1> USE DEF Fates, ProducerPCs
<1>7. CASE GetLogger(t)
  BY <1>0, <1>1, <1>2, <1>3, <1>7 DEF GetLogger, ProducerInv, GoTo, listenerVars, factoryVars,
     queueVars, producerVars
<1>8. CASE Flush(t)
  BY <1>0, <1>1, <1>2, <1>3, <1>8 DEF Flush, ProducerInv, GoTo, listenerVars, factoryVars,
     queueVars, producerVars
<1>9. CASE Log(t)
  <2>1. /\ logged' \in [Producers -> Nat] /\ \A u \in Producers : logged'[u] <= MaxLogs[u]
        /\ logged'[t] >= 1
    <3>1. /\ logged' = [logged EXCEPT ![t] = logged[t] + 1]
          /\ logged[t] \in Nat /\ MaxLogs[t] \in Nat /\ logged[t] < MaxLogs[t]
      BY <1>9, MaxLogsAssumption DEF Log
    <3> QED
      BY <3>1
  <2>3. fate' \in [Records -> Fates]
    BY <1>9 DEF Log
  <2>2. ProducerInv'
    BY <1>9, <2>1 DEF Log, ProducerInv, GoTo
  <2> QED
    BY <1>0, <1>1, <1>3, <1>9, <2>1, <2>2, <2>3 DEF Log, listenerVars, factoryVars, queueVars
<1>10. CASE EmitConsole(t)
  BY <1>0, <1>1, <1>4, <1>10 DEF EmitConsole, ProducerInv, listenerVars, factoryVars, queueVars
<1>11. CASE Filter(t)
  <2>1. /\ pc' \in [Producers \cup Stoppers -> ProducerPCs \cup StopperPCs]
        /\ \A u \in Producers : pc'[u] \in ProducerPCs
        /\ \A s \in Stoppers : pc'[s] \in StopperPCs
    BY <1>3, <1>11 DEF Filter
  <2>2. pos' \in [Producers -> Nat \ {0}] /\ fate' \in [Records -> Fates]
    BY <1>4, <1>5, <1>11 DEF Filter
  <2>3. ProducerInv'
    BY <1>11 DEF Filter, ProducerInv, GoTo
  <2> QED
    BY <1>0, <1>1, <1>11, <2>1, <2>2, <2>3 DEF Filter, listenerVars, factoryVars, queueVars
<1>12. CASE Put(t)
  <2>1. Current(t) \in Items
    BY <1>6, <1>12 DEF Put, ProducerInv
  <2>2. queue' \in Seq(Items) /\ puts' \in Seq(Items)
    <3>1. Append(queue, Current(t)) \in Seq(Items) /\ Append(puts, Current(t)) \in Seq(Items)
      BY <2>1, AppendProperties
    <3> QED
      BY <1>12, <3>1 DEF Put
  <2>3. pos' \in [Producers -> Nat \ {0}] /\ fate' \in [Records -> Fates]
    BY <1>4, <1>5, <1>12 DEF Put
  <2>4. ProducerInv'
    BY <1>12 DEF Put, ProducerInv, GoTo
  <2> QED
    BY <1>0, <1>1, <1>3, <1>12, <2>2, <2>3, <2>4 DEF Put, listenerVars, factoryVars
<1>13. CASE LogDone(t)
  <2>1. pos' \in [Producers -> Nat \ {0}]
    BY <1>13 DEF LogDone
  <2>3. fate' \in [Records -> Fates]
    <3>1. [fate EXCEPT ![Current(t)] = "missed"] \in [Records -> Fates]
      OBVIOUS
    <3> QED
      BY <1>13, <3>1 DEF LogDone
  <2>2. ProducerInv'
    BY <1>13 DEF LogDone, ProducerInv, GoTo
  <2> QED
    BY <1>0, <1>1, <1>3, <1>13, <2>1, <2>2, <2>3 DEF LogDone, listenerVars, factoryVars, queueVars
<1> QED
  BY <1>7, <1>8, <1>9, <1>10, <1>11, <1>12, <1>13 DEF Produce

(* Every step of the listener. A record in hand goes to a sink that is in  *)
(* the plan, and only a queue that was built is read.                      *)
LEMMA TypeListener ==
    ASSUME TypeInv, Listen
    PROVE  TypeInv'
<1> USE DEF TypeInv
<1>0. UNCHANGED <<config, factoryVars, producerVars, pc, puts>>
  BY ListenerFrame
<1>1. ProducerInv'
  BY <1>0 DEF ProducerInv, producerVars
<1>2. /\ Len(config.sinks) \in 0..2 /\ (config.sinks # << >> => Len(config.sinks) >= 1)
      /\ config.sinks \in Seq(SinkNames)
  BY SinkPlanFacts DEF VarsTyped
<1>3. ASSUME /\ queue' \in Seq(Items) /\ taken' \in Seq(Items)
             /\ listener' \in ListenerStates
             /\ sinkIdx' \in 1..2 /\ handed' \in [SinkNames -> Seq(Items)]
      PROVE  VarsTyped'
  BY <1>0, <1>3 DEF VarsTyped, factoryVars, producerVars
<1>4. CASE Get
  <2>1. Head(queue) \in Items /\ Tail(queue) \in Seq(Items)
    BY <1>4 DEF Get, VarsTyped
  <2>2. /\ taken' \in Seq(Items) /\ taken' # << >>
        /\ taken'[Len(taken')] = Head(queue)
    BY <1>4, <2>1, AppendProperties DEF Get, VarsTyped
  <2>3. /\ queue' \in Seq(Items) /\ sinkIdx' = 1 /\ handed' = handed
        /\ listener' = IF Head(queue) = Sentinel THEN "stopped" ELSE "handling"
        /\ listener = "waiting"
    BY <1>4, <2>1 DEF Get, ListenerInv
  <2>4. ListenerInv'
    BY <1>0, <1>2, <2>2, <2>3 DEF ListenerInv, InHand
  <2>5. listener' \in ListenerStates
    BY <2>3 DEF ListenerStates
  <2>6. sinkIdx' \in 1..2 /\ handed' \in [SinkNames -> Seq(Items)]
    BY <2>3 DEF VarsTyped
  <2> QED
    BY <1>1, <1>3, <2>2, <2>3, <2>4, <2>5, <2>6
<1>5. CASE HandToSink
  <2>0. taken \in Seq(Items) /\ taken # << >> /\ sinkIdx \in 1..2 /\ sinkIdx <= Len(config.sinks)
    BY <1>5 DEF HandToSink, ListenerInv, VarsTyped
  <2>1. InHand \in Items /\ sinkIdx \in 1..Len(config.sinks)
    BY <1>2, <2>0 DEF InHand
  <2>2. handed' \in [SinkNames -> Seq(Items)]
    <3>1. config.sinks[sinkIdx] \in SinkNames
      BY <1>2, <2>1
    <3>2. Append(handed[config.sinks[sinkIdx]], InHand) \in Seq(Items)
      BY <2>1, <3>1, AppendProperties DEF VarsTyped
    <3> QED
      BY <1>5, <3>1, <3>2 DEF HandToSink, VarsTyped
  <2>3. /\ sinkIdx' \in 1..2 /\ listener' \in {"waiting", "handling"}
        /\ sinkIdx' <= Len(config.sinks)
        /\ listener' = "waiting" => sinkIdx' = 1
        /\ config.sinks # << >> /\ queue' = queue /\ taken' = taken
    <3>1. /\ listener = "handling" /\ queue' = queue /\ taken' = taken
          /\ IF sinkIdx = Len(config.sinks)
             THEN listener' = "waiting" /\ sinkIdx' = 1
             ELSE sinkIdx' = sinkIdx + 1 /\ listener' = listener
      BY <1>5 DEF HandToSink, queueVars
    <3>2. config.sinks # << >>
      BY <3>1 DEF ListenerInv
    <3>3. CASE sinkIdx = Len(config.sinks)
      BY <1>2, <3>1, <3>2, <3>3
    <3>4. CASE sinkIdx # Len(config.sinks)
      <4> DEFINE n == Len(config.sinks)
      <4>1. n \in 0..2 /\ sinkIdx \in 1..2 /\ sinkIdx <= n /\ sinkIdx # n
        BY <1>2, <2>0, <3>4
      <4> HIDE DEF n
      <4>2. sinkIdx + 1 \in 1..2 /\ sinkIdx + 1 <= n
        BY <4>1
      <4> QED
        BY <3>1, <3>2, <3>4, <4>2 DEF n
    <3> QED
      BY <3>3, <3>4
  <2>4. ListenerInv'
    BY <1>0, <1>5, <2>3 DEF ListenerInv, InHand, HandToSink
  <2>5. listener' \in ListenerStates /\ queue' \in Seq(Items) /\ taken' \in Seq(Items)
    BY <2>3 DEF ListenerStates, VarsTyped
  <2> QED
    BY <1>1, <1>3, <2>2, <2>3, <2>4, <2>5
<1>6. CASE SinkRaises
  <2>1. /\ listener' = "dead" /\ listener = "handling"
        /\ UNCHANGED <<queue, sinkIdx, handed, taken>>
    BY <1>6 DEF SinkRaises, queueVars
  <2>2. ListenerInv'
    BY <1>0, <2>1 DEF ListenerInv, InHand
  <2>3. VarsTyped'
    BY <1>0, <2>1 DEF VarsTyped, ListenerStates, factoryVars, producerVars
  <2> QED
    BY <1>1, <2>2, <2>3
<1> QED
  BY <1>4, <1>5, <1>6 DEF Listen

(* Every step of a thread that is in shutdown().                           *)
LEMMA TypeStopper ==
    ASSUME TypeInv, NEW s \in Stoppers, StopperStep(s)
    PROVE  TypeInv'
<1> USE DEF TypeInv
<1>0. UNCHANGED <<config, listenerVars, producerVars>>
  BY StopperFrame
<1>1. ListenerInv'
  BY <1>0 DEF ListenerInv, listenerVars, InHand
<1>2. s \in Producers \cup Stoppers /\ \A t \in Producers : t # s
  BY ThreadsAssumption
<1> DEFINE PcOK == /\ pc' \in [Producers \cup Stoppers -> ProducerPCs \cup StopperPCs]
                   /\ \A t \in Producers : pc'[t] \in ProducerPCs
                   /\ \A u \in Stoppers : pc'[u] \in StopperPCs
                   /\ ProducerInv'
<1>3. ASSUME NEW where \in StopperPCs, GoTo(s, where) PROVE PcOK
  <2>1. pc' = [pc EXCEPT ![s] = where]
    BY <1>3 DEF GoTo
  <2>2. \A t \in Producers : pc'[t] = pc[t]
    BY <1>2, <2>1 DEF VarsTyped
  <2>3. ProducerInv'
    BY <1>0, <2>2 DEF ProducerInv, producerVars
  <2> QED
    BY <1>2, <2>1, <2>2, <2>3 DEF VarsTyped
<1>4. pc' = pc => PcOK
  BY <1>0 DEF VarsTyped, ProducerInv, producerVars
<1> HIDE DEF PcOK
<1>5. ASSUME PcOK,
             queue' \in Seq(Items), puts' \in Seq(Items),
             handlers' \in Seq({"console", "queue"}), toClose' \in Seq({"console", "queue"}),
             shutdown' \in BOOLEAN, published' \in BOOLEAN, lock' \in Stoppers \cup {NoThread}
      PROVE  TypeInv'
  BY <1>0, <1>1, <1>5 DEF VarsTyped, PcOK, listenerVars, producerVars
<1> USE DEF StopperPCs
<1>6. CASE CallShutdown(s)
  <2>1. PcOK
    BY <1>3, <1>6 DEF CallShutdown
  <2> QED
    BY <1>5, <1>6, <2>1 DEF CallShutdown, VarsTyped, queueVars, factoryVars
<1>7. CASE Acquire(s)
  <2>1. CASE shutdown
    <3>1. PcOK /\ UNCHANGED <<queueVars, factoryVars>>
      BY <1>3, <1>7, <2>1 DEF Acquire
    <3> QED
      BY <1>5, <3>1 DEF VarsTyped, queueVars, factoryVars
  <2>2. CASE ~shutdown
    <3>1. PcOK
      BY <1>3, <1>7, <2>2 DEF Acquire, ToListenerOrClose
    <3>2. toClose' \in Seq({"console", "queue"})
      BY <1>7, <2>2 DEF Acquire, ToListenerOrClose, VarsTyped
    <3> QED
      BY <1>5, <1>7, <2>2, <3>1, <3>2 DEF Acquire, VarsTyped, queueVars
  <2> QED
    BY <2>1, <2>2 DEF VarsTyped
<1>8. CASE StopListener(s)
  <2>1. PcOK
    BY <1>3, <1>8 DEF StopListener
  <2>2. Sentinel \in Items
    BY DEF Items
  <2>3. Append(queue, Sentinel) \in Seq(Items) /\ Append(puts, Sentinel) \in Seq(Items)
    BY <2>2, AppendProperties DEF VarsTyped
  <2>4. queue' \in Seq(Items) /\ puts' \in Seq(Items)
    BY <1>8, <2>3 DEF StopListener, VarsTyped, queueVars
  <2>5. lock' \in Stoppers \cup {NoThread}
    BY <1>8 DEF StopListener, VarsTyped
  <2> QED
    BY <1>5, <1>8, <2>1, <2>4, <2>5 DEF StopListener, VarsTyped
<1>9. CASE Join(s)
  <2>1. PcOK
    BY <1>3, <1>9 DEF Join
  <2> QED
    BY <1>5, <1>9, <2>1 DEF Join, VarsTyped, queueVars
<1>10. CASE CloseHandler(s)
  <2>1. PcOK
    BY <1>4, <1>10 DEF CloseHandler
  <2>2. handlers' \in Seq({"console", "queue"}) /\ toClose' \in Seq({"console", "queue"})
    BY <1>10, RemoveAtFacts DEF CloseHandler, VarsTyped
  <2> QED
    BY <1>5, <1>10, <2>1, <2>2 DEF CloseHandler, VarsTyped, queueVars
<1>11. CASE Withdraw(s)
  <2>1. PcOK
    BY <1>3, <1>11 DEF Withdraw
  <2> QED
    BY <1>5, <1>11, <2>1 DEF Withdraw, VarsTyped, queueVars
<1> QED
  BY <1>6, <1>7, <1>8, <1>9, <1>10, <1>11 DEF StopperStep, StopSteps

LEMMA TypeStutter ==
    ASSUME TypeInv, UNCHANGED pipeVars
    PROVE  TypeInv'
  BY DEF TypeInv, VarsTyped, ListenerInv, ProducerInv, InHand, pipeVars, queueVars, listenerVars,
         factoryVars, producerVars

(* The types, with the record a listener has in hand and where a log call  *)
(* is in its list of handlers (_monitor, callHandlers).                    *)
THEOREM TypeInvariance == PipeSpec => []TypeInv
<1>1. TypeInv /\ [PipeNext]_pipeVars => TypeInv'
  BY NextCases, TypeProducer, TypeListener, TypeStopper, TypeStutter
<1> QED
  BY <1>1, TypeInit, PTL DEF PipeSpec

(***************************************************************************)
(* The pipeline implements FifoDelivery. What was put is what was taken    *)
(* followed by what is in the queue; the flag and the lock let one thread, *)
(* once, put the sentinel.                                                 *)
(***************************************************************************)
ChannelInv == puts = taken \o queue

NoSentinel == \A i \in 1..Len(puts) : puts[i] # Sentinel

LockInv ==
    /\ \A s \in Stoppers : pc[s] \in {"stop", "join", "close"} => lock = s /\ shutdown
    /\ \A s \in Stoppers : lock = s => pc[s] \in {"stop", "join", "close"}
    /\ \A s \in Stoppers : pc[s] = "stop" => NoSentinel
    /\ ~shutdown => NoSentinel

FifoInv == TypeInv /\ ChannelInv /\ LockInv

LEMMA FifoInvInit == PipeInit => FifoInv
<1> SUFFICES ASSUME PipeInit PROVE FifoInv
  OBVIOUS
<1>1. TypeInv
  BY TypeInit
<1>2. ChannelInv
  <2>1. puts = << >> /\ taken = << >> /\ queue = << >>
    BY DEF PipeInit
  <2>2. << >> \o << >> = << >>
    OBVIOUS
  <2> QED
    BY <2>1, <2>2 DEF ChannelInv
<1>3. NoSentinel
  BY DEF PipeInit, NoSentinel
<1>4. \A s \in Stoppers : pc[s] = "idle" /\ lock # s
  BY ThreadsAssumption DEF PipeInit
<1> QED
  BY <1>1, <1>2, <1>3, <1>4 DEF FifoInv, LockInv

(* What a put does to the history, and that it keeps order.                *)
LEMMA PutChannel ==
    ASSUME TypeInv, ChannelInv, NEW m \in Items,
           queue' = Append(queue, m), puts' = Append(puts, m), taken' = taken
    PROVE  ChannelInv'
<1>1. taken \in Seq(Items) /\ queue \in Seq(Items)
  BY DEF TypeInv, VarsTyped
<1>2. taken \o queue \in Seq(Items) /\ <<m>> \in Seq(Items)
  BY <1>1
<1>3. Append(taken \o queue, m) = (taken \o queue) \o <<m>> /\ Append(queue, m) = queue \o <<m>>
  BY <1>1, <1>2, AppendIsConcat
<1>4. (taken \o queue) \o <<m>> = taken \o (queue \o <<m>>)
  BY <1>1, <1>2, ConcatAssociative
<1>5. puts' = taken \o (queue \o <<m>>) /\ queue' = queue \o <<m>>
  BY <1>3, <1>4 DEF ChannelInv
<1> QED
  BY <1>5 DEF ChannelInv

LEMMA FifoProducer ==
    ASSUME FifoInv, NEW t \in Producers, Produce(t)
    PROVE  FifoInv'
<1> USE DEF FifoInv
<1>1. TypeInv'
  BY TypeProducer
<1>2. UNCHANGED <<taken, lock, shutdown>> /\ \A s \in Stoppers : pc'[s] = pc[s]
  <2>1. UNCHANGED <<taken, lock, shutdown>>
    BY ProducerFrame DEF listenerVars, factoryVars
  <2>2. \A s \in Stoppers : t # s
    BY ThreadsAssumption
  <2>3. pc \in [Producers \cup Stoppers -> ProducerPCs \cup StopperPCs]
    BY DEF TypeInv, VarsTyped
  <2> QED
    BY <2>1, <2>2, <2>3 DEF Produce, GetLogger, Flush, Log, EmitConsole, Filter, Put, LogDone, GoTo
<1>3. \/ UNCHANGED queueVars
      \/ /\ Current(t) \in Items /\ Current(t) # Sentinel
         /\ queue' = Append(queue, Current(t)) /\ puts' = Append(puts, Current(t))
  <2>1. CASE Put(t)
    <3>1. Current(t) \in Items /\ Current(t) # Sentinel
      BY <2>1, RecordFacts DEF Put, TypeInv, VarsTyped, ProducerInv, Current
    <3> QED
      BY <2>1, <3>1 DEF Put, queueVars
  <2>2. CASE ~Put(t)
    BY <2>2 DEF Produce, GetLogger, Flush, Log, EmitConsole, Filter, LogDone, queueVars
  <2> QED
    BY <2>1, <2>2
<1>4. ChannelInv' /\ (NoSentinel => NoSentinel')
  <2>1. CASE UNCHANGED queueVars
    BY <1>2, <2>1 DEF ChannelInv, NoSentinel, queueVars
  <2>2. CASE /\ Current(t) \in Items /\ Current(t) # Sentinel
             /\ queue' = Append(queue, Current(t)) /\ puts' = Append(puts, Current(t))
    <3>1. ChannelInv'
      BY <1>2, <2>2, PutChannel
    <3>2. puts \in Seq(Items)
      BY DEF TypeInv, VarsTyped
    <3>3. NoSentinel => NoSentinel'
      BY <2>2, <3>2, AppendProperties DEF NoSentinel
    <3> QED
      BY <3>1, <3>3
  <2> QED
    BY <1>3, <2>1, <2>2
<1> QED
  BY <1>1, <1>2, <1>4 DEF LockInv

LEMMA FifoListener ==
    ASSUME FifoInv, Listen
    PROVE  FifoInv'
<1> USE DEF FifoInv
<1>1. TypeInv'
  BY TypeListener
<1>2. UNCHANGED <<puts, pc, lock, shutdown>>
  BY ListenerFrame DEF factoryVars
<1>3. LockInv'
  BY <1>2 DEF LockInv, NoSentinel
<1>4. ChannelInv'
  <2>1. CASE Get
    <3>1. /\ queue # << >> /\ taken \in Seq(Items) /\ queue \in Seq(Items)
          /\ taken' = Append(taken, Head(queue)) /\ queue' = Tail(queue)
      BY <2>1 DEF Get, TypeInv, VarsTyped
    <3> QED
      BY <1>2, <3>1, MoveHead DEF ChannelInv
  <2>2. CASE HandToSink \/ SinkRaises
    BY <2>2 DEF HandToSink, SinkRaises, queueVars, ChannelInv
  <2> QED
    BY <2>1, <2>2 DEF Listen
<1> QED
  BY <1>1, <1>3, <1>4

LEMMA FifoStopper ==
    ASSUME FifoInv, NEW s \in Stoppers, StopperStep(s)
    PROVE  FifoInv'
<1> USE DEF FifoInv
<1>1. TypeInv'
  BY TypeStopper
<1>2. UNCHANGED taken
  BY StopperFrame DEF listenerVars
<1>3. /\ pc \in [Producers \cup Stoppers -> ProducerPCs \cup StopperPCs]
      /\ s \in Producers \cup Stoppers /\ s # NoThread
      /\ puts \in Seq(Items) /\ Sentinel \in Items
  BY ThreadsAssumption DEF TypeInv, VarsTyped, Items
<1>4. ASSUME UNCHANGED queueVars PROVE ChannelInv' /\ NoSentinel' = NoSentinel
  BY <1>2, <1>4 DEF ChannelInv, NoSentinel, queueVars
<1>5. CASE CallShutdown(s)
  <2>1. UNCHANGED <<queueVars, lock, shutdown>> /\ pc' = [pc EXCEPT ![s] = "acquire"]
    BY <1>5 DEF CallShutdown, GoTo, factoryVars
  <2>2. lock # s
    BY <1>5 DEF CallShutdown, LockInv
  <2> QED
    BY <1>1, <1>3, <1>4, <2>1, <2>2 DEF LockInv
<1>6. CASE Acquire(s)
  <2>1. UNCHANGED queueVars /\ lock = NoThread
    BY <1>6 DEF Acquire
  <2>2. \A u \in Stoppers : pc[u] \notin {"stop", "join", "close"}
    BY <2>1, ThreadsAssumption DEF LockInv
  <2>3. CASE shutdown
    <3>1. pc' = [pc EXCEPT ![s] = "returned"] /\ UNCHANGED <<lock, shutdown>>
      BY <1>6, <2>3 DEF Acquire, GoTo, factoryVars
    <3> QED
      BY <1>1, <1>3, <1>4, <2>1, <2>2, <3>1 DEF LockInv
  <2>4. CASE ~shutdown
    <3>1. /\ shutdown' /\ lock' = s /\ pc'[s] \in {"stop", "close"}
          /\ \A u \in Stoppers : u # s => pc'[u] = pc[u]
      BY <1>3, <1>6, <2>4 DEF Acquire, ToListenerOrClose, GoTo
    <3>2. NoSentinel'
      BY <1>4, <2>1, <2>4 DEF LockInv
    <3> QED
      BY <1>1, <1>4, <2>1, <2>2, <3>1, <3>2 DEF LockInv
  <2> QED
    BY <2>3, <2>4
<1>7. CASE StopListener(s)
  <2>1. lock = s /\ shutdown /\ shutdown' /\ \A u \in Stoppers : pc[u] = "stop" => u = s
    BY <1>7 DEF StopListener, LockInv
  <2>2. \A u \in Stoppers : u # s => pc'[u] = pc[u] /\ pc[u] \notin {"stop", "join", "close"}
    BY <1>3, <1>7, <2>1 DEF StopListener, GoTo, LockInv
  <2>3. (pc'[s] = "join" /\ lock' = lock) \/ (pc'[s] = "raised" /\ lock' \notin Stoppers)
    BY <1>3, <1>7, ThreadsAssumption DEF StopListener, GoTo
  <2>4. ChannelInv'
    <3>1. CASE UNCHANGED queueVars
      BY <1>4, <3>1
    <3>2. CASE queue' = Append(queue, Sentinel) /\ puts' = Append(puts, Sentinel)
      BY <1>2, <1>3, <3>2, PutChannel
    <3> QED
      BY <1>7, <3>1, <3>2 DEF StopListener
  <2> QED
    BY <1>1, <2>1, <2>2, <2>3, <2>4 DEF LockInv
<1>8. CASE Join(s)
  <2>1. UNCHANGED <<queueVars, lock, shutdown>> /\ pc' = [pc EXCEPT ![s] = "close"]
    BY <1>8 DEF Join, GoTo
  <2>2. lock = s /\ shutdown
    BY <1>8 DEF Join, LockInv
  <2> QED
    BY <1>1, <1>3, <1>4, <2>1, <2>2 DEF LockInv
<1>9. CASE CloseHandler(s)
  <2>1. UNCHANGED <<queueVars, lock, shutdown, pc>>
    BY <1>9 DEF CloseHandler
  <2> QED
    BY <1>1, <1>4, <2>1 DEF LockInv
<1>10. CASE Withdraw(s)
  <2>1. UNCHANGED <<queueVars, shutdown>> /\ pc' = [pc EXCEPT ![s] = "returned"]
    BY <1>10 DEF Withdraw, GoTo
  <2>2. lock = s /\ shutdown
    BY <1>10 DEF Withdraw, LockInv
  <2>3. lock' \notin Stoppers
    BY <1>10, ThreadsAssumption DEF Withdraw
  <2>4. \A u \in Stoppers : u # s => pc[u] \notin {"stop", "join", "close"}
    BY <2>2 DEF LockInv
  <2> QED
    BY <1>1, <1>3, <1>4, <2>1, <2>2, <2>3, <2>4 DEF LockInv
<1> QED
  BY <1>5, <1>6, <1>7, <1>8, <1>9, <1>10 DEF StopperStep, StopSteps

LEMMA FifoStutter ==
    ASSUME FifoInv, UNCHANGED pipeVars
    PROVE  FifoInv'
<1>1. TypeInv'
  BY TypeStutter DEF FifoInv
<1> QED
  BY <1>1 DEF FifoInv, ChannelInv, LockInv, NoSentinel, pipeVars, queueVars, listenerVars,
              factoryVars

(* What was put is what was taken followed by the queue, and one thread at *)
(* most is between setting the flag and the sentinel (shutdown).           *)
THEOREM FifoInvariance == PipeSpec => []FifoInv
<1>1. FifoInv /\ [PipeNext]_pipeVars => FifoInv'
  BY NextCases, FifoProducer, FifoListener, FifoStopper, FifoStutter
<1> QED
  BY <1>1, FifoInvInit, PTL DEF PipeSpec

(* Every variable of the pipeline keeps its type: in particular a log call *)
(* only ever puts a record of its own thread in the queue, and only the    *)
(* listed sinks are handed anything; and LoggerFactory._lock is with the   *)
(* thread that is inside shutdown(), however many call it or fail in it.   *)
THEOREM TypeCorrect == PipeSpec => []TypeOK
<1>1. FifoInv => TypeOK
  BY DEF FifoInv, TypeInv, LockInv, TypeOK
<1> QED
  BY <1>1, FifoInvariance, PTL

(***************************************************************************)
(* Each step of the pipeline is a step of FifoDelivery or changes nothing  *)
(* there.                                                                  *)
(***************************************************************************)
LEMMA ProducerImplements ==
    ASSUME FifoInv, NEW t \in Producers, Produce(t)
    PROVE  [Fifo!FifoNext]_(Fifo!fifoVars)
<1>1. UNCHANGED <<taken, Alive>>
  BY ProducerFrame DEF listenerVars, Alive
<1>2. CASE Put(t)
  <2>1. Current(t) \in Records /\ Current(t) # Sentinel
    BY <1>2, RecordFacts DEF Put, FifoInv, TypeInv, VarsTyped, ProducerInv, Current
  <2>2. UNCHANGED puts \/ puts' = Append(puts, Current(t))
    BY <1>2 DEF Put
  <2>3. ASSUME puts' = Append(puts, Current(t)) PROVE Fifo!Accept(Current(t))
    BY <1>1, <2>1, <2>3 DEF Fifo!Accept
  <2> QED
    BY <1>1, <2>1, <2>2, <2>3 DEF Fifo!FifoNext, Fifo!fifoVars
<1>3. CASE ~Put(t)
  <2>1. UNCHANGED puts
    BY <1>3 DEF Produce, GetLogger, Flush, Log, EmitConsole, Filter, LogDone, queueVars
  <2> QED
    BY <1>1, <2>1 DEF Fifo!fifoVars
<1> QED
  BY <1>2, <1>3

LEMMA ListenerImplements ==
    ASSUME FifoInv, Listen
    PROVE  [Fifo!FifoNext]_(Fifo!fifoVars)
<1>1. UNCHANGED puts
  BY ListenerFrame
<1>2. CASE Get
  <2>1. /\ queue # << >> /\ taken \in Seq(Items) /\ queue \in Seq(Items)
        /\ puts = taken \o queue
    BY <1>2 DEF Get, FifoInv, TypeInv, VarsTyped, ChannelInv
  <2>2. Len(taken) < Len(puts) /\ puts[Len(taken) + 1] = Head(queue)
    <3>1. /\ Len(taken) \in Nat /\ Len(queue) \in Nat /\ Len(queue) >= 1
          /\ Head(queue) = queue[1]
      BY <2>1
    <3>2. /\ Len(puts) = Len(taken) + Len(queue)
          /\ \A i \in 1..(Len(taken) + Len(queue)) :
                puts[i] = IF i <= Len(taken) THEN taken[i] ELSE queue[i - Len(taken)]
      BY <2>1, ConcatProperties
    <3>3. /\ Len(taken) + 1 \in 1..(Len(taken) + Len(queue))
          /\ ~(Len(taken) + 1 <= Len(taken)) /\ (Len(taken) + 1) - Len(taken) = 1
      BY <3>1
    <3>4. puts[Len(taken) + 1] = queue[1]
      BY <3>2, <3>3
    <3> QED
      BY <3>1, <3>2, <3>4
  <2>3. Alive /\ taken' = Append(taken, Head(queue)) /\ Alive' = (Head(queue) # Sentinel)
    BY <1>2 DEF Get, Alive
  <2>4. Fifo!Receive
    BY <1>1, <2>2, <2>3 DEF Fifo!Receive
  <2> QED
    BY <2>4 DEF Fifo!FifoNext
<1>3. CASE HandToSink
  <2>1. UNCHANGED <<taken, Alive>>
    BY <1>3 DEF HandToSink, Alive
  <2> QED
    BY <1>1, <2>1 DEF Fifo!fifoVars
<1>4. CASE SinkRaises
  <2>1. Alive /\ Alive' = FALSE /\ UNCHANGED taken
    BY <1>4 DEF SinkRaises, Alive
  <2> QED
    BY <1>1, <2>1 DEF Fifo!FifoNext, Fifo!Fail
<1> QED
  BY <1>2, <1>3, <1>4 DEF Listen

LEMMA StopperImplements ==
    ASSUME FifoInv, NEW s \in Stoppers, StopperStep(s)
    PROVE  [Fifo!FifoNext]_(Fifo!fifoVars)
<1>1. UNCHANGED <<taken, Alive>>
  BY StopperFrame DEF listenerVars, Alive
<1>2. CASE StopListener(s)
  <2>1. NoSentinel
    BY <1>2 DEF StopListener, FifoInv, LockInv
  <2>2. UNCHANGED puts \/ puts' = Append(puts, Sentinel)
    BY <1>2 DEF StopListener, queueVars
  <2>3. ASSUME puts' = Append(puts, Sentinel) PROVE Fifo!Accept(Sentinel)
    BY <1>1, <2>1, <2>3 DEF Fifo!Accept, NoSentinel
  <2> QED
    BY <1>1, <2>2, <2>3 DEF Fifo!FifoNext, Fifo!fifoVars
<1>3. CASE ~StopListener(s)
  <2>1. UNCHANGED puts
    BY <1>3 DEF StopperStep, StopSteps, CallShutdown, Acquire, Join, CloseHandler, Withdraw,
                queueVars
  <2> QED
    BY <1>1, <2>1 DEF Fifo!fifoVars
<1> QED
  BY <1>2, <1>3

(* The pipeline implements the FIFO channel: whatever the interleaving of  *)
(* log calls, listener and shutdown() calls, records reach the listener in *)
(* the order they entered the queue, once, and the sentinel enters at most *)
(* once (QueueHandler.emit, QueueListener._monitor, LoggerFactory.shutdown).*)
THEOREM PipelineIsFifo == PipeSpec => FifoDelivered
<1>1. PipeInit => Fifo!FifoInit
  BY DEF PipeInit, Fifo!FifoInit, Alive
<1>2. FifoInv /\ [PipeNext]_pipeVars => [Fifo!FifoNext]_(Fifo!fifoVars)
  <2>1. ASSUME UNCHANGED pipeVars PROVE UNCHANGED Fifo!fifoVars
    BY <2>1 DEF pipeVars, queueVars, listenerVars, Fifo!fifoVars, Alive
  <2> QED
    BY <2>1, NextCases, ProducerImplements, ListenerImplements, StopperImplements
<1> QED
  BY <1>1, <1>2, FifoInvariance, PTL DEF PipeSpec, Fifo!FifoSpec, FifoDelivered

(***************************************************************************)
(* What shutdown() leaves. The handlers it lists are those it removes, one *)
(* after the other from the front, and it has joined the listener before:  *)
(* while the listener runs, the queue handler is on the logger, at the end *)
(* of the list, and a log call has not passed it before its record has met *)
(* it.                                                                     *)
(***************************************************************************)
HandlersInv ==
    /\ \A i, j \in 1..Len(handlers) : handlers[i] = handlers[j] => i = j
    /\ \A i \in 1..Len(handlers) :
          handlers[i] = "queue" <=> config.sinks # << >> /\ i = Len(handlers)
    /\ Alive => handlers # << >>

ShutdownInv ==
    /\ \A s \in Stoppers : pc[s] = "close" => ~Alive /\ toClose = handlers
    /\ \A s \in Stoppers : pc[s] \in {"returned", "raised"} => shutdown /\ lock = NoThread
    /\ shutdown /\ lock = NoThread /\ ~HasRaised => ~Alive /\ handlers = << >> /\ ~published

InLogCall(t) == pc[t] \in {"dispatch", "put"}

IterationInv ==
    \A t \in Producers :
        /\ ~InLogCall(t) => pos[t] = 1
        /\ pc[t] = "put" => fate[Current(t)] = "logging" /\ pos[t] >= Len(handlers)
        /\ pc[t] = "dispatch" => \/ fate[Current(t)] = "logging"
                                 \/ /\ fate[Current(t)] \in {"rejected", "full", "queued"}
                                    /\ pos[t] > Len(handlers)
        /\ Alive /\ InLogCall(t) /\ fate[Current(t)] = "logging" => pos[t] <= Len(handlers)

ReleaseInv == HandlersInv /\ ShutdownInv /\ IterationInv /\ MissedOnlyAfterStop

(***************************************************************************)
(* What became of a record. Those a thread has not logged yet are unsent,  *)
(* those of its calls before are settled, and the queue's history holds    *)
(* exactly the queued ones, those of one thread in their order.            *)
(***************************************************************************)
Settled == {"rejected", "full", "queued", "missed"}

AccountInv ==
    /\ \A t \in Producers : \A n \in 1..MaxLogs[t] : n > logged[t] => fate[<<t, n>>] = "unsent"
    /\ \A t \in Producers : \A n \in 1..logged[t] :
          fate[<<t, n>>] \in Settled \/ (n = logged[t] /\ InLogCall(t))
    /\ \A r \in Records : fate[r] = "queued" <=> \E i \in 1..Len(puts) : puts[i] = r
    /\ \A i, j \in 1..Len(puts) :
          (i < j /\ puts[i] # Sentinel /\ puts[j] # Sentinel) =>
              (puts[i][1] = puts[j][1] => puts[i][2] < puts[j][2])

SentinelOnce ==
    \A i, j \in 1..Len(puts) : puts[i] = Sentinel /\ puts[j] = Sentinel => i = j

(* A step of a producer touches its own call and its own record.           *)
LEMMA ProducerLocal ==
    ASSUME TypeInv, NEW t \in Producers, Produce(t)
    PROVE  /\ UNCHANGED <<config, listener, handlers, toClose, shutdown, lock, published>>
           /\ \A s \in Stoppers : pc'[s] = pc[s]
           /\ \A u \in Producers \ {t} :
                 /\ pc'[u] = pc[u] /\ pos'[u] = pos[u] /\ logged'[u] = logged[u]
                 /\ InLogCall(u) => fate'[<<u, logged[u]>>] = fate[<<u, logged[u]>>]
           /\ \A r \in Records : r # <<t, logged'[t]>> => fate'[r] = fate[r]
<1> USE DEF TypeInv, VarsTyped
<1>1. UNCHANGED <<config, listener, handlers, toClose, shutdown, lock, published>>
  BY ProducerFrame DEF listenerVars, factoryVars
<1>2. t \in Producers \cup Stoppers /\ \A s \in Stoppers : s # t
  BY ThreadsAssumption
<1>3. \A s \in Stoppers : pc'[s] = pc[s]
  BY <1>2 DEF Produce, GetLogger, Flush, Log, EmitConsole, Filter, Put, LogDone, GoTo
<1>4. ASSUME NEW u \in Producers \ {t}
      PROVE  pc'[u] = pc[u] /\ pos'[u] = pos[u] /\ logged'[u] = logged[u]
  <2>1. pc'[u] = pc[u]
    BY <1>2 DEF Produce, GetLogger, Flush, Log, EmitConsole, Filter, Put, LogDone, GoTo
  <2>2. pos'[u] = pos[u]
    BY DEF Produce, GetLogger, Flush, Log, EmitConsole, Filter, Put, LogDone, NextHandler,
           producerVars
  <2>3. logged'[u] = logged[u]
    BY DEF Produce, GetLogger, Flush, Log, EmitConsole, Filter, Put, LogDone, producerVars
  <2> QED
    BY <2>1, <2>2, <2>3
<1>5. UNCHANGED fate \/ \E f \in Fates : fate' = [fate EXCEPT ![<<t, logged'[t]>>] = f]
  <2>1. CASE Log(t)
    <3>1. logged'[t] = logged[t] + 1
      BY <2>1 DEF Log
    <3> QED
      BY <2>1, <3>1 DEF Log, Fates
  <2>2. CASE ~Log(t)
    <3>1. logged'[t] = logged[t]
      BY <2>2 DEF Produce, GetLogger, Flush, EmitConsole, Filter, Put, LogDone, producerVars
    <3> QED
      BY <2>2, <3>1 DEF Produce, GetLogger, Flush, EmitConsole, Filter, Put, LogDone,
                        producerVars, Becomes, Current, Fates
  <2> QED
    BY <2>1, <2>2
<1>6. \A r \in Records : r # <<t, logged'[t]>> => fate'[r] = fate[r]
  BY <1>5
<1>7. ASSUME NEW u \in Producers \ {t}, InLogCall(u)
      PROVE  fate'[<<u, logged[u]>>] = fate[<<u, logged[u]>>]
  <2>1. <<u, logged[u]>> \in Records
    BY <1>7, RecordFacts DEF InLogCall, ProducerInv
  <2> QED
    BY <1>6, <2>1
<1> QED
  BY <1>1, <1>3, <1>4, <1>6, <1>7

LEMMA ReleaseInit == PipeInit => ReleaseInv
<1> SUFFICES ASSUME PipeInit PROVE ReleaseInv
  OBVIOUS
<1>1. /\ \A t \in Producers : pc[t] = "new" /\ pos[t] = 1
      /\ \A s \in Stoppers : pc[s] = "idle"
      /\ \A r \in Records : fate[r] = "unsent"
      /\ ~shutdown
  BY ThreadsAssumption DEF PipeInit
<1>2. HandlersInv
  <2>1. /\ handlers = BuildHandlers(config)
        /\ Alive => config.sinks # << >>
    BY DEF PipeInit, Alive
  <2>2. config.sinks # << >> => handlers # << >>
    BY <2>1, BuildHandlersFacts, EmptySeq
  <2> QED
    BY <2>1, <2>2, BuildHandlersFacts DEF HandlersInv
<1> QED
  BY <1>1, <1>2 DEF ReleaseInv, ShutdownInv, IterationInv, MissedOnlyAfterStop, InLogCall

LEMMA ReleaseProducer ==
    ASSUME TypeInv, ReleaseInv, NEW t \in Producers, Produce(t)
    PROVE  ReleaseInv'
<1> USE DEF TypeInv, ReleaseInv
<1>1. /\ UNCHANGED <<config, listener, handlers, toClose, shutdown, lock, published>>
      /\ \A s \in Stoppers : pc'[s] = pc[s]
      /\ \A u \in Producers \ {t} :
            /\ pc'[u] = pc[u] /\ pos'[u] = pos[u] /\ logged'[u] = logged[u]
            /\ InLogCall(u) => fate'[<<u, logged[u]>>] = fate[<<u, logged[u]>>]
      /\ \A r \in Records : r # <<t, logged'[t]>> => fate'[r] = fate[r]
  BY ProducerLocal
<1>2. HandlersInv' /\ ShutdownInv'
  BY <1>1 DEF HandlersInv, ShutdownInv, HasRaised, Alive
<1> DEFINE Iterates(u) ==
        /\ ~InLogCall(u) => pos[u] = 1
        /\ pc[u] = "put" => fate[Current(u)] = "logging" /\ pos[u] >= Len(handlers)
        /\ pc[u] = "dispatch" => \/ fate[Current(u)] = "logging"
                                 \/ /\ fate[Current(u)] \in {"rejected", "full", "queued"}
                                    /\ pos[u] > Len(handlers)
        /\ Alive /\ InLogCall(u) /\ fate[Current(u)] = "logging" => pos[u] <= Len(handlers)
<1>3. \A u \in Producers \ {t} : Iterates(u)'
  BY <1>1 DEF IterationInv, InLogCall, Current, Alive
<1>4. /\ t \in Producers \cup Stoppers
      /\ pc \in [Producers \cup Stoppers -> ProducerPCs \cup StopperPCs]
      /\ pos \in [Producers -> Nat \ {0}] /\ logged \in [Producers -> Nat]
      /\ fate \in [Records -> Fates]
      /\ Len(handlers) \in Nat /\ pos[t] \in Nat /\ pos[t] >= 1
      /\ \A i \in 1..Len(handlers) : handlers[i] \in {"console", "queue"}
  BY DEF VarsTyped
<1>5. InLogCall(t) => Current(t) \in Records
  BY RecordFacts DEF VarsTyped, ProducerInv, InLogCall, Current
<1>6. Alive => /\ config.sinks # << >> /\ Len(handlers) >= 1
               /\ \A i \in 1..Len(handlers) : handlers[i] = "queue" <=> i = Len(handlers)
  <2>1. Alive => config.sinks # << >> /\ handlers # << >>
    BY DEF ListenerInv, HandlersInv, Alive
  <2>2. handlers # << >> => Len(handlers) >= 1
    BY DEF VarsTyped
  <2> QED
    BY <2>1, <2>2 DEF HandlersInv
<1>7. Iterates(t)
  BY DEF IterationInv
<1>8. Iterates(t)' /\ (fate'[<<t, logged'[t]>>] = "missed" /\ <<t, logged'[t]>> \in Records
                          => fate[<<t, logged'[t]>>] = "missed" \/ ~Alive)
  <2>1. CASE GetLogger(t) \/ Flush(t)
    <3>1. /\ ~InLogCall(t) /\ pc'[t] \in {"refused", "idle", "flushed"}
          /\ UNCHANGED <<pos, logged, fate>>
      BY <1>4, <2>1 DEF GetLogger, Flush, GoTo, InLogCall, producerVars
    <3> QED
      BY <1>7, <3>1 DEF InLogCall
  <2>2. CASE Log(t)
    <3>1. ~InLogCall(t) /\ pc'[t] = "dispatch" /\ logged'[t] = logged[t] + 1 /\ pos' = pos
      BY <1>4, <2>2 DEF Log, GoTo, InLogCall
    <3>2. <<t, logged[t] + 1>> \in Records
      <4>1. /\ logged[t] + 1 \in Nat /\ logged[t] + 1 >= 1
            /\ logged[t] + 1 <= MaxLogs[t]
        <5>1. logged[t] < MaxLogs[t] /\ logged[t] \in Nat /\ MaxLogs[t] \in Nat
          BY <1>4, <2>2, MaxLogsAssumption DEF Log
        <5> QED
          BY <5>1
      <4> QED
        BY <4>1, RecordFacts
    <3>3. fate'[<<t, logged'[t]>>] = "logging"
      BY <1>4, <2>2, <3>1, <3>2 DEF Log
    <3>4. pos'[t] = 1
      BY <1>7, <3>1
    <3> QED
      BY <1>1, <1>6, <3>1, <3>3, <3>4 DEF InLogCall, Current, Alive
  <2>3. CASE EmitConsole(t)
    <3>1. /\ pc[t] = "dispatch" /\ UNCHANGED <<pc, logged, fate>> /\ pos'[t] = pos[t] + 1
          /\ pos[t] <= Len(handlers) /\ handlers[pos[t]] = "console"
      BY <1>4, <2>3 DEF EmitConsole, NextHandler
    <3>2. pos[t] \in 1..Len(handlers)
      BY <1>4, <3>1
    <3>3. Alive => pos[t] # Len(handlers)
      BY <1>6, <3>1, <3>2
    <3>4. fate[Current(t)] = "logging"
      BY <1>4, <1>7, <3>1
    <3>5. Alive => pos'[t] <= Len(handlers)
      BY <1>4, <3>1, <3>3
    <3> QED
      BY <1>1, <3>1, <3>4, <3>5 DEF InLogCall, Current, Alive
  <2>4. CASE Filter(t)
    <3>1. /\ pc[t] = "dispatch" /\ logged' = logged
          /\ pos[t] <= Len(handlers) /\ handlers[pos[t]] = "queue"
      BY <1>4, <2>4 DEF Filter
    <3>2. pos[t] = Len(handlers)
      BY <1>4, <3>1 DEF HandlersInv
    <3>3. fate[Current(t)] = "logging"
      BY <1>4, <1>7, <3>1
    <3>4. CASE OverflowAdmits
      <4>1. pc'[t] = "put" /\ UNCHANGED <<pos, fate>>
        BY <1>4, <2>4, <3>4 DEF Filter, GoTo
      <4> QED
        BY <1>1, <1>4, <3>1, <3>2, <3>3, <4>1 DEF InLogCall, Current, Alive
    <3>5. CASE ~OverflowAdmits
      <4>1. /\ pc'[t] = "dispatch" /\ pos'[t] = pos[t] + 1
            /\ fate'[Current(t)] = "rejected"
        BY <1>4, <1>5, <2>4, <3>1, <3>5 DEF Filter, NextHandler, Becomes, InLogCall
      <4> QED
        BY <1>1, <1>4, <3>1, <3>2, <4>1 DEF InLogCall, Current, Alive
    <3> QED
      BY <3>4, <3>5
  <2>5. CASE Put(t)
    <3>1. /\ pc[t] = "put" /\ logged' = logged /\ pc'[t] = "dispatch"
          /\ pos'[t] = pos[t] + 1
      BY <1>4, <2>5 DEF Put, GoTo, NextHandler
    <3>2. fate'[Current(t)] \in {"queued", "full"}
      BY <1>4, <1>5, <2>5, <3>1 DEF Put, Becomes, InLogCall
    <3>3. pos[t] >= Len(handlers)
      BY <1>7, <3>1
    <3> QED
      BY <1>1, <1>4, <3>1, <3>2, <3>3 DEF InLogCall, Current, Alive
  <2>6. CASE LogDone(t)
    <3>1. /\ pc[t] = "dispatch" /\ logged' = logged /\ pc'[t] = "idle" /\ pos'[t] = 1
          /\ pos[t] > Len(handlers)
      BY <1>4, <2>6 DEF LogDone, GoTo
    <3>2. fate[Current(t)] = "logging" => ~Alive
      BY <1>4, <1>7, <3>1 DEF InLogCall
    <3>3. fate[Current(t)] # "logging" => fate' = fate
      BY <2>6 DEF LogDone
    <3> QED
      BY <3>1, <3>2, <3>3 DEF InLogCall, Current
  <2> QED
    BY <2>1, <2>2, <2>3, <2>4, <2>5, <2>6 DEF Produce
<1>9. IterationInv'
  BY <1>3, <1>8 DEF IterationInv
<1>10. MissedOnlyAfterStop'
  <2>1. Alive' = Alive
    BY <1>1 DEF Alive
  <2> QED
    BY <1>1, <1>8, <2>1 DEF MissedOnlyAfterStop
<1> QED
  BY <1>2, <1>9, <1>10

LEMMA ReleaseListener ==
    ASSUME TypeInv, ReleaseInv, Listen
    PROVE  ReleaseInv'
<1> USE DEF ReleaseInv
<1>1. UNCHANGED <<config, factoryVars, producerVars, pc>>
  BY ListenerFrame
<1>2. Alive' => Alive
  BY DEF Alive, Listen, Get, HandToSink, SinkRaises
<1>3. HandlersInv'
  BY <1>1, <1>2 DEF HandlersInv, factoryVars
<1>4. ShutdownInv'
  BY <1>1, <1>2 DEF ShutdownInv, HasRaised, factoryVars
<1>5. IterationInv'
  BY <1>1, <1>2 DEF IterationInv, InLogCall, Current, factoryVars, producerVars
<1>6. MissedOnlyAfterStop'
  BY <1>1, <1>2 DEF MissedOnlyAfterStop, producerVars
<1> QED
  BY <1>3, <1>4, <1>5, <1>6

LEMMA ReleaseStopper ==
    ASSUME FifoInv, ReleaseInv, NEW s \in Stoppers, StopperStep(s)
    PROVE  ReleaseInv'
<1> USE DEF ReleaseInv
<1>1. UNCHANGED <<config, listener, producerVars>>
  BY StopperFrame DEF listenerVars
<1>2. Alive' = Alive
  BY <1>1 DEF Alive
<1>3. /\ pc \in [Producers \cup Stoppers -> ProducerPCs \cup StopperPCs]
      /\ s \in Producers \cup Stoppers /\ s # NoThread
      /\ handlers \in Seq(HandlerNames)
  BY ThreadsAssumption DEF FifoInv, TypeInv, VarsTyped, HandlerNames
<1>4. MissedOnlyAfterStop'
  BY <1>1, <1>2 DEF MissedOnlyAfterStop, producerVars
<1>5. \A t \in Producers : pc'[t] = pc[t]
  <2>1. \A t \in Producers : t # s /\ t \in Producers \cup Stoppers
    BY ThreadsAssumption
  <2> QED
    BY <1>3, <2>1 DEF StopperStep, StopSteps, CallShutdown, Acquire, ToListenerOrClose,
       StopListener, Join, CloseHandler, Withdraw, GoTo
<1>6. ASSUME UNCHANGED handlers
      PROVE  HandlersInv' /\ IterationInv'
  <2>1. HandlersInv'
    BY <1>1, <1>2, <1>6 DEF HandlersInv
  <2>2. IterationInv'
    BY <1>1, <1>2, <1>5, <1>6 DEF IterationInv, InLogCall, Current, producerVars
  <2> QED
    BY <2>1, <2>2
<1>7. config.sinks = << >> => ~Alive
  BY DEF FifoInv, TypeInv, ListenerInv, Alive
<1>8. CASE CallShutdown(s)
  <2>1. UNCHANGED <<handlers, toClose, shutdown, lock, published>>
        /\ pc' = [pc EXCEPT ![s] = "acquire"] /\ pc[s] = "idle"
    BY <1>8 DEF CallShutdown, GoTo, factoryVars
  <2>2. \A u \in Stoppers : pc'[u] # "acquire" => pc'[u] = pc[u]
    BY <1>3, <2>1
  <2>3. HasRaised' = HasRaised
    BY <1>3, <2>1 DEF HasRaised
  <2>4. ShutdownInv'
    BY <1>2, <2>1, <2>2, <2>3 DEF ShutdownInv
  <2> QED
    BY <1>4, <1>6, <2>1, <2>4
<1>9. CASE Acquire(s)
  <2>1. pc[s] = "acquire" /\ lock = NoThread /\ UNCHANGED handlers
    BY <1>9 DEF Acquire, factoryVars
  <2>2. CASE shutdown
    <3>1. pc' = [pc EXCEPT ![s] = "returned"]
          /\ UNCHANGED <<toClose, shutdown, lock, published>>
      BY <1>9, <2>2 DEF Acquire, GoTo, factoryVars
    <3>2. \A u \in Stoppers : pc'[u] # "returned" => pc'[u] = pc[u]
      BY <1>3, <3>1
    <3>3. HasRaised' = HasRaised
      BY <1>3, <2>1, <3>1 DEF HasRaised
    <3>4. ShutdownInv'
      BY <1>2, <2>1, <2>2, <3>1, <3>2, <3>3 DEF ShutdownInv
    <3> QED
      BY <1>4, <1>6, <2>1, <3>4
  <2>3. CASE ~shutdown
    <3>1. /\ lock' = s /\ shutdown'
          /\ \/ pc' = [pc EXCEPT ![s] = "stop"] /\ UNCHANGED toClose
             \/ /\ pc' = [pc EXCEPT ![s] = "close"] /\ toClose' = handlers
                /\ config.sinks = << >>
      BY <1>9, <2>3 DEF Acquire, ToListenerOrClose, GoTo
    <3>2. \A u \in Stoppers : pc[u] \notin {"close", "returned", "raised"}
      BY <2>1, <2>3, ThreadsAssumption DEF ShutdownInv, FifoInv, LockInv
    <3>3. /\ \A u \in Stoppers : pc'[u] \notin {"returned", "raised"}
          /\ \A u \in Stoppers : pc'[u] = "close" => ~Alive /\ toClose' = handlers
      BY <1>3, <1>7, <3>1, <3>2
    <3>4. ShutdownInv'
      BY <1>2, <1>3, <2>1, <3>1, <3>3 DEF ShutdownInv
    <3> QED
      BY <1>4, <1>6, <2>1, <3>4
  <2> QED
    BY <2>2, <2>3
<1>10. ASSUME pc[s] \in {"stop", "join", "close"}
       PROVE  /\ lock = s /\ shutdown
              /\ \A u \in Stoppers : u # s => pc[u] \notin {"stop", "join", "close"}
              /\ \A u \in Stoppers : pc[u] \notin {"returned", "raised"}
  <2>1. lock = s /\ shutdown
    BY <1>10 DEF FifoInv, LockInv
  <2> QED
    BY <1>3, <2>1 DEF FifoInv, LockInv, ShutdownInv
<1>11. CASE StopListener(s)
  <2>1. /\ UNCHANGED <<handlers, shutdown, toClose, published>> /\ pc[s] = "stop"
        /\ \/ pc' = [pc EXCEPT ![s] = "join"] /\ UNCHANGED lock
           \/ pc' = [pc EXCEPT ![s] = "raised"] /\ lock' = NoThread
    BY <1>11 DEF StopListener, GoTo
  <2>2. CASE pc' = [pc EXCEPT ![s] = "join"] /\ UNCHANGED lock
    BY <1>2, <1>3, <1>4, <1>6, <1>10, <2>1, <2>2 DEF ShutdownInv
  <2>3. CASE pc' = [pc EXCEPT ![s] = "raised"] /\ lock' = NoThread
    <3>1. HasRaised'
      BY <1>3, <2>3 DEF HasRaised
    <3>2. ShutdownInv'
      BY <1>2, <1>3, <1>10, <2>1, <2>3, <3>1 DEF ShutdownInv
    <3> QED
      BY <1>4, <1>6, <2>1, <3>2
  <2> QED
    BY <2>1, <2>2, <2>3
<1>12. CASE Join(s)
  <2>1. /\ UNCHANGED <<handlers, shutdown, lock, published>> /\ pc[s] = "join"
        /\ pc' = [pc EXCEPT ![s] = "close"] /\ toClose' = handlers /\ ~Alive
    BY <1>12 DEF Join, GoTo
  <2>2. ShutdownInv'
    BY <1>2, <1>3, <1>10, <2>1 DEF ShutdownInv
  <2> QED
    BY <1>4, <1>6, <2>1, <2>2
<1>13. CASE CloseHandler(s)
  <2>1. /\ UNCHANGED <<shutdown, lock, published, pc>> /\ pc[s] = "close"
        /\ toClose # << >> /\ toClose' = Tail(toClose)
    BY <1>13 DEF CloseHandler
  <2>2. ~Alive /\ toClose = handlers
    BY <2>1 DEF ShutdownInv
  <2>3. PICK i \in 1..Len(handlers) : /\ handlers[i] = Head(handlers)
                                      /\ handlers' = RemoveAt(handlers, i)
    BY <1>13, <2>2 DEF CloseHandler
  <2>4. /\ Len(handlers) \in Nat /\ Len(handlers) >= 1 /\ Head(handlers) = handlers[1]
    BY <1>3, <2>1, <2>2
  <2>5. i = 1
    BY <2>3, <2>4 DEF HandlersInv
  <2>6. /\ handlers' \in Seq(HandlerNames) /\ Len(handlers') = Len(handlers) - 1
        /\ \A j \in 1..(Len(handlers) - 1) : handlers'[j] = handlers[j + 1]
    BY <1>3, <2>3, <2>5, RemoveAtFacts
  <2>7. toClose' = handlers'
    <3>1. /\ Tail(handlers) \in Seq(HandlerNames) /\ Len(Tail(handlers)) = Len(handlers) - 1
          /\ \A j \in 1..Len(Tail(handlers)) : Tail(handlers)[j] = handlers[j + 1]
      BY <1>3, <2>1, <2>2, HeadTailProperties
    <3>2. Tail(handlers) = handlers'
      BY <2>6, <3>1, SeqEqual
    <3> QED
      BY <2>1, <2>2, <3>2
  <2>8. HandlersInv'
    <3>1. \A j \in 1..Len(handlers') : j + 1 \in 1..Len(handlers) /\ handlers'[j] = handlers[j + 1]
      BY <2>4, <2>6
    <3>2. \A j, k \in 1..Len(handlers') : handlers'[j] = handlers'[k] => j = k
      <4>1. ASSUME NEW j \in 1..Len(handlers'), NEW k \in 1..Len(handlers'),
                   handlers'[j] = handlers'[k]
            PROVE  j = k
        <5>1. j + 1 = k + 1
          BY <3>1, <4>1 DEF HandlersInv
        <5> QED
          BY <5>1
      <4> QED
        BY <4>1
    <3>3. ASSUME NEW j \in 1..Len(handlers')
          PROVE  handlers'[j] = "queue" <=> config'.sinks # << >> /\ j = Len(handlers')
      <4>1. j = Len(handlers') <=> j + 1 = Len(handlers)
        BY <2>4, <2>6
      <4>2. handlers[j + 1] = "queue" <=> config.sinks # << >> /\ j + 1 = Len(handlers)
        BY <3>1 DEF HandlersInv
      <4> QED
        BY <1>1, <3>1, <4>1, <4>2
    <3> QED
      BY <1>2, <2>2, <3>2, <3>3 DEF HandlersInv
  <2>9. ShutdownInv'
    BY <1>2, <1>10, <2>1, <2>2, <2>7, <1>3 DEF ShutdownInv
  <2>10. IterationInv'
    <3>1. /\ \A t \in Producers : pos[t] \in Nat
          /\ UNCHANGED <<pos, logged, fate>>
      BY <1>1 DEF FifoInv, TypeInv, VarsTyped, producerVars
    <3>2. Len(handlers') \in Nat /\ Len(handlers') <= Len(handlers)
      BY <2>4, <2>6
    <3>3. ASSUME NEW t \in Producers
          PROVE  /\ pos[t] >= Len(handlers) => pos'[t] >= Len(handlers')
                 /\ pos[t] > Len(handlers) => pos'[t] > Len(handlers')
      BY <2>4, <3>1, <3>2
    <3> QED
      BY <1>2, <1>5, <2>2, <3>1, <3>3 DEF IterationInv, InLogCall, Current
  <2> QED
    BY <1>4, <2>8, <2>9, <2>10
<1>14. CASE Withdraw(s)
  <2>1. /\ UNCHANGED <<handlers, shutdown, toClose>> /\ pc[s] = "close" /\ toClose = << >>
        /\ pc' = [pc EXCEPT ![s] = "returned"] /\ lock' = NoThread /\ published' = FALSE
    BY <1>14 DEF Withdraw, GoTo
  <2>2. ~Alive /\ handlers = << >>
    BY <2>1 DEF ShutdownInv
  <2>3. ShutdownInv'
    BY <1>2, <1>3, <1>10, <2>1, <2>2 DEF ShutdownInv
  <2> QED
    BY <1>4, <1>6, <2>1, <2>3
<1> QED
  BY <1>8, <1>9, <1>11, <1>12, <1>13, <1>14 DEF StopperStep, StopSteps

LEMMA ReleaseStutter ==
    ASSUME ReleaseInv, UNCHANGED pipeVars
    PROVE  ReleaseInv'
<1> USE DEF pipeVars, listenerVars, factoryVars, producerVars
<1>1. HandlersInv' /\ ShutdownInv'
  BY DEF ReleaseInv, HandlersInv, ShutdownInv, HasRaised, Alive
<1>2. IterationInv' /\ MissedOnlyAfterStop'
  BY DEF ReleaseInv, IterationInv, MissedOnlyAfterStop, InLogCall, Current, Alive
<1> QED
  BY <1>1, <1>2 DEF ReleaseInv

(* The handlers, the flag and the listener agree in every step of the      *)
(* callers of shutdown() and of the log calls beside them.                *)
THEOREM ReleaseInvariance == PipeSpec => []ReleaseInv
<1>1. FifoInv => TypeInv
  BY DEF FifoInv
<1>2. FifoInv /\ ReleaseInv /\ [PipeNext]_pipeVars => ReleaseInv'
  BY <1>1, NextCases, ReleaseProducer, ReleaseListener, ReleaseStopper, ReleaseStutter
<1> QED
  BY <1>2, ReleaseInit, FifoInvariance, PTL DEF PipeSpec

(* No caller of shutdown() returns before the work is done, however many   *)
(* call it and whatever is logged meanwhile: unless one of them raised,    *)
(* the listener is gone, the handlers are removed and the factory is       *)
(* withdrawn (LoggerFactory.shutdown).                                     *)
THEOREM ShutdownReleases == PipeSpec => []ReleasedOnReturn
<1>1. ReleaseInv => ReleasedOnReturn
  BY DEF ReleaseInv, ShutdownInv, ReleasedOnReturn
<1> QED
  BY <1>1, ReleaseInvariance, PTL

(* A log call that iterates over root.handlers while shutdown() removes    *)
(* from it never skips the queue of a listener that still runs             *)
(* (Logger.callHandlers, LoggerFactory.shutdown).                          *)
THEOREM QueueIsNotSkipped == PipeSpec => []MissedOnlyAfterStop
<1>1. ReleaseInv => MissedOnlyAfterStop
  BY DEF ReleaseInv
<1> QED
  BY <1>1, ReleaseInvariance, PTL

(***************************************************************************)
(* What the sinks get.                                                     *)
(***************************************************************************)
LEMMA SinksInit == PipeInit => SinksInStep
<1> SUFFICES ASSUME PipeInit, NEW i \in 1..Len(config.sinks)
             PROVE  handed[config.sinks[i]] = ServedTo(i)
  BY DEF SinksInStep
<1>1. config.sinks[i] \in SinkNames
  BY SinkPlanFacts DEF PipeInit
<1>2. /\ handed[config.sinks[i]] = << >> /\ taken = << >>
      /\ listener \in {"waiting", "absent"}
  BY <1>1 DEF PipeInit
<1>3. ServedTo(i) = SubSeq(<< >>, 1, 0)
  BY <1>2 DEF ServedTo
<1> QED
  BY <1>2, <1>3

LEMMA SinksListener ==
    ASSUME TypeInv, SinksInStep, Listen
    PROVE  SinksInStep'
<1> DEFINE n == Len(config.sinks)
           sink(i) == config.sinks[i]
<1>1. /\ config' = config
      /\ n \in 0..2 /\ \A i \in 1..n : sink(i) \in SinkNames
      /\ \A i, j \in 1..n : sink(i) = sink(j) => i = j
  BY ListenerFrame, SinkPlanFacts DEF TypeInv, VarsTyped
<1>2. /\ taken \in Seq(Items) /\ handed \in [SinkNames -> Seq(Items)]
      /\ Len(taken) \in Nat /\ sinkIdx \in 1..2
  BY DEF TypeInv, VarsTyped
<1>3. \A i \in 1..n : handed[sink(i)] = ServedTo(i)
  BY DEF SinksInStep
<1>4. SubSeq(taken, 1, Len(taken)) = taken
  BY <1>2, SubSeqFull
<1> HIDE DEF n, sink
<1>5. ASSUME \A i \in 1..n : handed'[sink(i)] = ServedTo(i)'
      PROVE  SinksInStep'
  BY <1>1, <1>5 DEF SinksInStep, n, sink
<1>6. CASE Get
  <2> DEFINE item == Head(queue)
  <2>1. /\ listener = "waiting" /\ listener' \in {"stopped", "handling"}
        /\ taken' = Append(taken, item) /\ handed' = handed /\ sinkIdx' = sinkIdx
        /\ item \in Items /\ sinkIdx = 1
    BY <1>6 DEF Get, TypeInv, VarsTyped, ListenerInv
  <2> HIDE DEF item
  <2>2. /\ Len(taken') = Len(taken) + 1
        /\ SubSeq(taken', 1, Len(taken)) = taken
    <3>1. /\ Len(Append(taken, item)) = Len(taken) + 1
          /\ Append(taken, item) \in Seq(Items)
          /\ \A k \in 1..Len(taken) : Append(taken, item)[k] = taken[k]
      BY <1>2, <2>1, AppendProperties
    <3> DEFINE a == Append(taken, item)
               b == SubSeq(a, 1, Len(taken))
    <3>2. b \in Seq(Items) /\ Len(b) = Len(taken) /\ \A k \in 1..Len(taken) : b[k] = a[k]
      <4>1. \A k \in 1..Len(taken) : a[k] \in Items
        BY <1>2, <3>1
      <4> HIDE DEF a
      <4> QED
        BY <1>2, <4>1, SubSeqProperties
    <3> HIDE DEF b
    <3>3. b = taken
      BY <1>2, <3>1, <3>2, SeqEqual
    <3> QED
      BY <2>1, <3>1, <3>3 DEF b
  <2>3. ASSUME NEW i \in 1..n PROVE handed'[sink(i)] = ServedTo(i)'
    <3>1. ServedTo(i) = taken
      BY <1>4, <2>1 DEF ServedTo
    <3>2. ServedTo(i)' = SubSeq(taken', 1, Len(taken') - 1)
      BY <1>1, <2>1 DEF ServedTo
    <3>3. Len(taken') - 1 = Len(taken)
      BY <1>2, <2>2
    <3> QED
      BY <1>3, <2>1, <2>2, <3>1, <3>2, <3>3
  <2> QED
    BY <1>5, <2>3
<1>7. CASE HandToSink
  <2>1. /\ listener = "handling" /\ taken' = taken /\ taken # << >>
        /\ handed' = [handed EXCEPT ![sink(sinkIdx)] = Append(handed[sink(sinkIdx)], InHand)]
        /\ \/ sinkIdx = n /\ listener' = "waiting" /\ sinkIdx' = 1
           \/ sinkIdx # n /\ listener' = "handling" /\ sinkIdx' = sinkIdx + 1
        /\ sinkIdx <= n
    BY <1>7 DEF HandToSink, TypeInv, ListenerInv, n, sink
  <2>2. sinkIdx \in 1..n /\ sink(sinkIdx) \in SinkNames
    BY <1>1, <1>2, <2>1
  <2>3. Append(SubSeq(taken, 1, Len(taken) - 1), InHand) = taken
    <3>1. Len(taken) \in 1..Len(taken) /\ taken[Len(taken)] \in Items
      BY <1>2, <2>1
    <3>2. SubSeq(taken, 1, Len(taken)) = SubSeq(taken, 1, Len(taken) - 1) \o <<taken[Len(taken)]>>
      BY <1>2, <3>1, SubSeqRecursiveSecond
    <3>3. SubSeq(taken, 1, Len(taken) - 1) \in Seq(Items)
      BY <1>2
    <3> QED
      BY <1>4, <3>1, <3>2, <3>3, AppendIsConcat DEF InHand
  <2>4. ASSUME NEW i \in 1..n PROVE handed'[sink(i)] = ServedTo(i)'
    <3>0. i \in Int /\ 1 <= i /\ i <= n /\ n \in Int
      BY <1>1
    <3>1. CASE i = sinkIdx
      <4>1. ServedTo(i) = SubSeq(taken, 1, Len(taken) - 1)
        BY <2>1, <3>0, <3>1, <1>2 DEF ServedTo
      <4>2. handed'[sink(i)] = taken
        BY <1>2, <1>3, <2>1, <2>2, <2>3, <3>1, <4>1
      <4>3. ~(listener' = "handling" /\ i >= sinkIdx')
        BY <1>2, <2>1, <3>0, <3>1
      <4>4. listener' \notin {"stopped", "dead"}
        BY <2>1
      <4>5. ServedTo(i)' = SubSeq(taken', 1, Len(taken'))
        BY <4>3, <4>4 DEF ServedTo
      <4> QED
        BY <1>4, <2>1, <4>2, <4>5
    <3>2. CASE i # sinkIdx
      <4>1. sink(i) # sink(sinkIdx)
        BY <1>1, <2>2, <3>2
      <4>2. handed'[sink(i)] = handed[sink(i)]
        BY <1>1, <1>2, <2>1, <4>1
      <4>3. (listener' = "handling" /\ i >= sinkIdx') <=> i >= sinkIdx
        BY <1>2, <2>1, <3>0, <3>2
      <4>4. ServedTo(i)' = ServedTo(i)
        BY <2>1, <4>3 DEF ServedTo
      <4> QED
        BY <1>3, <4>2, <4>4
    <3> QED
      BY <3>1, <3>2
  <2> QED
    BY <1>5, <2>4
<1>8. CASE SinkRaises
  <2>1. /\ listener = "handling" /\ listener' = "dead"
        /\ UNCHANGED <<taken, handed, sinkIdx>>
    BY <1>8 DEF SinkRaises
  <2>2. \A i \in 1..n : ServedTo(i)' = ServedTo(i)
    BY <2>1 DEF ServedTo
  <2> QED
    BY <1>3, <1>5, <2>1, <2>2
<1> QED
  BY <1>6, <1>7, <1>8 DEF Listen

(* Whatever the interleaving, and also when a sink has raised, each sink   *)
(* has been handed exactly what the listener has taken, in that order and  *)
(* once, but for the record in hand (QueueListener.handle).                *)
THEOREM SinksAreInStep == PipeSpec => []SinksInStep
<1>1. ASSUME UNCHANGED <<config, listenerVars>>, SinksInStep
      PROVE  SinksInStep'
  BY <1>1 DEF SinksInStep, ServedTo, listenerVars
<1>2. ASSUME TypeInv, SinksInStep, [PipeNext]_pipeVars
      PROVE  SinksInStep'
  <2>1. CASE UNCHANGED pipeVars
    BY <1>1, <1>2, <2>1 DEF pipeVars
  <2>2. CASE Listen
    BY <1>2, <2>2, SinksListener
  <2>3. CASE \E t \in Producers : Produce(t)
    BY <1>1, <1>2, <2>3, ProducerFrame
  <2>4. CASE \E s \in Stoppers : StopperStep(s)
    BY <1>1, <1>2, <2>4, StopperFrame
  <2> QED
    BY <1>2, <2>1, <2>2, <2>3, <2>4, NextCases
<1> QED
  BY <1>2, SinksInit, TypeInvariance, PTL DEF PipeSpec

(***************************************************************************)
(* The sentinel enters the queue once.                                     *)
(***************************************************************************)
LEMMA SentinelStep ==
    ASSUME FifoInv, SentinelOnce, [PipeNext]_pipeVars
    PROVE  SentinelOnce'
<1>1. puts \in Seq(Items) /\ Len(puts) \in Nat
  BY DEF FifoInv, TypeInv, VarsTyped
<1>2. ASSUME UNCHANGED puts PROVE SentinelOnce'
  BY <1>2 DEF SentinelOnce
<1>3. ASSUME NEW m \in Items, puts' = Append(puts, m), m = Sentinel => NoSentinel
      PROVE  SentinelOnce'
  <2>1. /\ Len(puts') = Len(puts) + 1
        /\ \A i \in 1..Len(puts) : puts'[i] = puts[i]
        /\ puts'[Len(puts) + 1] = m
    BY <1>1, <1>3, AppendProperties
  <2>2. ASSUME NEW i \in 1..Len(puts'), NEW j \in 1..Len(puts'),
               puts'[i] = Sentinel, puts'[j] = Sentinel
        PROVE  i = j
    <3>1. \A k \in 1..Len(puts') : k \in 1..Len(puts) \/ k = Len(puts) + 1
      BY <1>1, <2>1
    <3> QED
      BY <1>3, <2>1, <2>2, <3>1 DEF SentinelOnce, NoSentinel
  <2> QED
    BY <2>2 DEF SentinelOnce
<1>4. CASE UNCHANGED pipeVars
  BY <1>2, <1>4 DEF pipeVars, queueVars
<1>5. CASE Listen
  BY <1>2, <1>5, ListenerFrame
<1>6. ASSUME NEW t \in Producers, Produce(t) PROVE SentinelOnce'
  <2>1. CASE Put(t)
    <3>1. Current(t) \in Items /\ Current(t) # Sentinel
      BY <2>1, RecordFacts DEF Put, FifoInv, TypeInv, VarsTyped, ProducerInv, Current
    <3>2. UNCHANGED puts \/ puts' = Append(puts, Current(t))
      BY <2>1 DEF Put
    <3> QED
      BY <1>2, <1>3, <3>1, <3>2
  <2>2. CASE ~Put(t)
    <3>1. UNCHANGED puts
      BY <1>6, <2>2 DEF Produce, GetLogger, Flush, Log, EmitConsole, Filter, LogDone, queueVars
    <3> QED
      BY <1>2, <3>1
  <2> QED
    BY <2>1, <2>2
<1>7. ASSUME NEW s \in Stoppers, StopperStep(s) PROVE SentinelOnce'
  <2>1. CASE StopListener(s)
    <3>1. NoSentinel /\ Sentinel \in Items
      BY <2>1 DEF StopListener, FifoInv, LockInv, Items
    <3>2. UNCHANGED puts \/ puts' = Append(puts, Sentinel)
      BY <2>1 DEF StopListener, queueVars
    <3> QED
      BY <1>2, <1>3, <3>1, <3>2
  <2>2. CASE ~StopListener(s)
    <3>1. UNCHANGED puts
      BY <1>7, <2>2 DEF StopperStep, StopSteps, CallShutdown, Acquire, Join, CloseHandler,
                        Withdraw, queueVars
    <3> QED
      BY <1>2, <3>1
  <2> QED
    BY <2>1, <2>2
<1> QED
  BY <1>4, <1>5, <1>6, <1>7, NextCases

(* A listener that has ended by its sentinel took that item last. So what  *)
(* it took before, and handed to every sink, is all that was put in the    *)
(* queue before the sentinel.                                              *)
LEMMA StoppedIsDrained ==
    ASSUME FifoInv, SentinelOnce, SinksInStep, listener = "stopped",
           NEW k \in 1..Len(puts), NEW e \in 1..Len(puts), puts[e] = Sentinel, k < e,
           NEW i \in 1..Len(config.sinks)
    PROVE  Contains(handed[config.sinks[i]], puts[k])
<1> DEFINE n == Len(taken)
<1>1. /\ taken \in Seq(Items) /\ queue \in Seq(Items) /\ puts = taken \o queue
      /\ taken # << >> /\ taken[Len(taken)] = Sentinel
  BY DEF FifoInv, TypeInv, VarsTyped, ChannelInv, ListenerInv, InHand
<1>2. /\ n \in Nat /\ n >= 1 /\ Len(queue) \in Nat
      /\ Len(puts) = n + Len(queue)
      /\ \A j \in 1..(n + Len(queue)) : puts[j] = IF j <= n THEN taken[j] ELSE queue[j - n]
  BY <1>1, ConcatProperties
<1>3. n \in 1..Len(puts) /\ puts[n] = Sentinel
  BY <1>1, <1>2
<1>4. e = n
  BY <1>3 DEF SentinelOnce
<1>5. k \in 1..(n - 1) /\ puts[k] = taken[k]
  BY <1>2, <1>4
<1>6. handed[config.sinks[i]] = SubSeq(taken, 1, n - 1)
  BY DEF SinksInStep, ServedTo
<1>7. /\ Len(SubSeq(taken, 1, n - 1)) = n - 1
      /\ SubSeq(taken, 1, n - 1)[k] = taken[k]
  BY <1>1, <1>2, <1>5
<1> QED
  BY <1>5, <1>6, <1>7 DEF Contains

(* "Always shut down at exit to drain the queue": when shutdown() returns  *)
(* and the listener ended by its sentinel, every sink has been handed every*)
(* record that was in the queue before (LoggerFactory.shutdown,            *)
(* QueueListener.stop).                                                    *)
THEOREM ShutdownDrains == PipeSpec => []DrainedOnReturn
<1>1. PipeInit => SentinelOnce
  BY DEF PipeInit, SentinelOnce
<1>2. FifoInv /\ SentinelOnce /\ SinksInStep => DrainedOnReturn
  BY StoppedIsDrained DEF DrainedOnReturn
<1> QED
  BY <1>1, <1>2, SentinelStep, FifoInvariance, SinksAreInStep, PTL DEF PipeSpec

(***************************************************************************)
(* What becomes of each record.                                            *)
(***************************************************************************)
LEMMA RecordIsPair ==
    ASSUME NEW r \in Records
    PROVE  /\ r[1] \in Producers /\ r[2] \in Nat /\ r[2] \in 1..MaxLogs[r[1]]
           /\ r = <<r[1], r[2]>> /\ r # Sentinel
<1>1. PICK t \in Producers : r \in {t} \X (1..MaxLogs[t])
  BY DEF Records
<1>2. MaxLogs[t] \in Nat
  BY MaxLogsAssumption
<1> QED
  BY <1>1, <1>2, SentinelAssumption

LEMMA AccountInit == PipeInit => AccountInv
<1> SUFFICES ASSUME PipeInit PROVE AccountInv
  OBVIOUS
<1>1. /\ \A r \in Records : fate[r] = "unsent"
      /\ \A t \in Producers : logged[t] = 0 /\ MaxLogs[t] \in Nat
      /\ puts = << >>
  BY MaxLogsAssumption DEF PipeInit
<1>2. ASSUME NEW t \in Producers, NEW n \in 1..MaxLogs[t] PROVE <<t, n>> \in Records
  <2>1. n \in Nat /\ n >= 1 /\ n <= MaxLogs[t]
    BY <1>1
  <2> QED
    BY <2>1, RecordFacts
<1> QED
  BY <1>1, <1>2 DEF AccountInv

(* A call that the iteration is over has met the queue or missed it.       *)
LEMMA AccountProducer ==
    ASSUME TypeInv, ReleaseInv, AccountInv, NEW t \in Producers, Produce(t)
    PROVE  AccountInv'
<1> USE DEF TypeInv
<1>1. /\ \A u \in Producers \ {t} : pc'[u] = pc[u] /\ logged'[u] = logged[u]
      /\ \A r \in Records : r # <<t, logged'[t]>> => fate'[r] = fate[r]
  BY ProducerLocal
<1>2. /\ pc \in [Producers \cup Stoppers -> ProducerPCs \cup StopperPCs]
      /\ logged \in [Producers -> Nat] /\ \A u \in Producers : logged[u] <= MaxLogs[u]
      /\ fate \in [Records -> Fates] /\ t \in Producers \cup Stoppers
      /\ puts \in Seq(Items) /\ Len(puts) \in Nat
      /\ \A u \in Producers : MaxLogs[u] \in Nat /\ logged[u] \in Nat
  BY MaxLogsAssumption DEF VarsTyped
<1>3. InLogCall(t) => logged[t] >= 1 /\ Current(t) \in Records
  BY RecordFacts DEF VarsTyped, ProducerInv, InLogCall, Current
<1> DEFINE Unsent(u) == \A n \in 1..MaxLogs[u] : n > logged[u] => fate[<<u, n>>] = "unsent"
           Past(u) == \A n \in 1..logged[u] :
                          fate[<<u, n>>] \in Settled \/ (n = logged[u] /\ InLogCall(u))
           Queued(r) == fate[r] = "queued" <=> \E i \in 1..Len(puts) : puts[i] = r
           Ordered == \A i, j \in 1..Len(puts) :
                         (i < j /\ puts[i] # Sentinel /\ puts[j] # Sentinel) =>
                             (puts[i][1] = puts[j][1] => puts[i][2] < puts[j][2])
<1>4. (\A u \in Producers : Unsent(u) /\ Past(u)) /\ (\A r \in Records : Queued(r)) /\ Ordered
  BY DEF AccountInv
<1>5. ASSUME NEW u \in Producers \ {t} PROVE (Unsent(u) /\ Past(u))'
  <2>1. \A n \in 1..MaxLogs[u] : fate'[<<u, n>>] = fate[<<u, n>>]
    <3>1. ASSUME NEW n \in 1..MaxLogs[u]
          PROVE  <<u, n>> \in Records /\ <<u, n>> # <<t, logged'[t]>>
      <4>1. n \in Nat /\ n >= 1 /\ n <= MaxLogs[u]
        BY <1>2
      <4> QED
        BY <4>1, RecordFacts
    <3> QED
      BY <1>1, <3>1
  <2>2. 1..logged[u] \subseteq 1..MaxLogs[u]
    BY <1>2
  <2> QED
    BY <1>1, <1>4, <2>1, <2>2 DEF InLogCall
<1>6. ASSUME /\ logged' = logged
             /\ fate'[Current(t)] = fate[Current(t)] \/ fate'[Current(t)] \in Settled
             /\ InLogCall(t) => InLogCall(t)' \/ fate'[Current(t)] \in Settled
             /\ UNCHANGED puts
             /\ ~InLogCall(t) => fate' = fate
             /\ InLogCall(t) => (fate'[Current(t)] = "queued" <=> fate[Current(t)] = "queued")
      PROVE  AccountInv'
  <2>1. \A n \in 1..MaxLogs[t] : n # logged[t] => fate'[<<t, n>>] = fate[<<t, n>>]
    <3>1. ASSUME NEW n \in 1..MaxLogs[t], n # logged[t]
          PROVE  <<t, n>> \in Records /\ <<t, n>> # <<t, logged'[t]>>
      <4>1. n \in Nat /\ n >= 1 /\ n <= MaxLogs[t]
        BY <1>2
      <4> QED
        BY <1>6, <3>1, <4>1, RecordFacts
    <3> QED
      BY <1>1, <3>1
  <2>2. Unsent(t)'
    BY <1>2, <1>4, <1>6, <2>1
  <2>3. Past(t)'
    <3>1. ASSUME NEW n \in 1..logged[t]
          PROVE  fate'[<<t, n>>] \in Settled \/ (n = logged[t] /\ InLogCall(t)')
      <4>1. n \in 1..MaxLogs[t]
        BY <1>2
      <4>2. fate[<<t, n>>] \in Settled \/ (n = logged[t] /\ InLogCall(t))
        BY <1>4
      <4>3. CASE n # logged[t]
        BY <2>1, <4>1, <4>2, <4>3
      <4>4. CASE n = logged[t] /\ InLogCall(t)
        <5>1. fate'[<<t, n>>] = fate'[Current(t)] /\ fate[<<t, n>>] = fate[Current(t)]
          BY <4>4 DEF Current
        <5> QED
          BY <1>6, <4>2, <4>4, <5>1
      <4>5. CASE ~InLogCall(t)
        BY <1>6, <4>2, <4>5
      <4> QED
        BY <4>3, <4>4, <4>5
    <3> QED
      BY <1>6, <3>1
  <2>4. ASSUME NEW r \in Records PROVE Queued(r)'
    <3>1. fate'[r] = "queued" <=> fate[r] = "queued"
      BY <1>1, <1>6 DEF Current
    <3> QED
      BY <1>4, <1>6, <3>1
  <2>5. Ordered'
    BY <1>4, <1>6
  <2> QED
    BY <1>5, <2>2, <2>3, <2>4, <2>5 DEF AccountInv
<1>7. CASE GetLogger(t) \/ Flush(t)
  <2>1. /\ UNCHANGED <<logged, fate, puts>> /\ ~InLogCall(t)
    BY <1>7 DEF GetLogger, Flush, InLogCall, producerVars, queueVars
  <2> QED
    BY <1>6, <2>1
<1>8. CASE Log(t)
  <2>1. /\ logged'[t] = logged[t] + 1 /\ pc'[t] = "dispatch" /\ ~InLogCall(t)
        /\ UNCHANGED puts /\ logged[t] < MaxLogs[t]
        /\ fate' = [fate EXCEPT ![<<t, logged[t] + 1>>] = "logging"]
    BY <1>2, <1>8 DEF Log, GoTo, InLogCall, queueVars
  <2>2. logged[t] + 1 \in 1..MaxLogs[t] /\ <<t, logged[t] + 1>> \in Records
    <3>1. logged[t] + 1 \in Nat /\ logged[t] + 1 >= 1 /\ logged[t] + 1 <= MaxLogs[t]
      BY <1>2, <2>1
    <3> QED
      BY <1>2, <3>1, RecordFacts
  <2>3. \A n \in 1..MaxLogs[t] : n # logged[t] + 1 => fate'[<<t, n>>] = fate[<<t, n>>]
    <3>1. ASSUME NEW n \in 1..MaxLogs[t], n # logged[t] + 1
          PROVE  <<t, n>> \in Records /\ <<t, n>> # <<t, logged'[t]>>
      <4>1. n \in Nat /\ n >= 1 /\ n <= MaxLogs[t]
        BY <1>2
      <4> QED
        BY <2>1, <3>1, <4>1, RecordFacts
    <3> QED
      BY <1>1, <3>1
  <2>4. Unsent(t)'
    BY <1>2, <1>4, <2>1, <2>3
  <2>5. Past(t)'
    <3>1. ASSUME NEW n \in 1..(logged[t] + 1)
          PROVE  fate'[<<t, n>>] \in Settled \/ n = logged[t] + 1
      <4>1. CASE n # logged[t] + 1
        <5>1. n \in 1..logged[t] /\ n \in 1..MaxLogs[t]
          BY <1>2, <4>1
        <5> QED
          BY <1>4, <2>1, <2>3, <4>1, <5>1
      <4> QED
        BY <4>1
    <3> QED
      BY <2>1, <3>1 DEF InLogCall
  <2>6. ASSUME NEW r \in Records PROVE Queued(r)'
    <3>1. fate[<<t, logged[t] + 1>>] = "unsent"
      BY <1>2, <1>4, <2>2
    <3>2. fate'[r] = "queued" <=> fate[r] = "queued"
      BY <1>2, <2>1, <2>2, <3>1
    <3> QED
      BY <1>4, <2>1, <3>2
  <2>7. Ordered'
    BY <1>4, <2>1
  <2> QED
    BY <1>5, <2>4, <2>5, <2>6, <2>7 DEF AccountInv
<1>9. CASE EmitConsole(t)
  <2>1. UNCHANGED <<logged, fate, puts, pc>>
    BY <1>9 DEF EmitConsole, queueVars
  <2> QED
    BY <1>6, <2>1 DEF InLogCall
<1>10. CASE Filter(t)
  <2>1. /\ UNCHANGED <<logged, puts>> /\ pc[t] = "dispatch"
        /\ pos[t] <= Len(handlers)
        /\ \/ pc'[t] = "put" /\ UNCHANGED fate
           \/ pc'[t] = "dispatch" /\ fate' = [fate EXCEPT ![Current(t)] = "rejected"]
    BY <1>2, <1>10 DEF Filter, GoTo, Becomes, queueVars
  <2>2. fate[Current(t)] = "logging"
    <3>1. pos[t] \in Nat /\ Len(handlers) \in Nat
      BY DEF VarsTyped
    <3> QED
      BY <2>1, <3>1 DEF ReleaseInv, IterationInv
  <2>3. InLogCall(t) /\ InLogCall(t)'
    BY <2>1 DEF InLogCall
  <2>4. fate'[Current(t)] = fate[Current(t)] \/ fate'[Current(t)] = "rejected"
    BY <1>2, <1>3, <2>1, <2>3
  <2> QED
    BY <1>6, <2>1, <2>2, <2>3, <2>4 DEF Settled
<1>11. CASE Put(t)
  <2>1. /\ UNCHANGED logged /\ pc[t] = "put" /\ pc'[t] = "dispatch"
        /\ \/ /\ UNCHANGED puts
              /\ fate' = [fate EXCEPT ![Current(t)] = "full"]
           \/ /\ puts' = Append(puts, Current(t))
              /\ fate' = [fate EXCEPT ![Current(t)] = "queued"]
    BY <1>2, <1>11 DEF Put, GoTo, Becomes
  <2>2. /\ fate[Current(t)] = "logging" /\ InLogCall(t) /\ InLogCall(t)'
        /\ Current(t) \in Records
    BY <1>3, <2>1 DEF ReleaseInv, IterationInv, InLogCall
  <2>3. CASE UNCHANGED puts /\ fate' = [fate EXCEPT ![Current(t)] = "full"]
    <3>1. fate'[Current(t)] = "full"
      BY <1>2, <2>2, <2>3
    <3> QED
      BY <1>6, <2>1, <2>2, <2>3, <3>1 DEF Settled
  <2>4. CASE /\ puts' = Append(puts, Current(t))
             /\ fate' = [fate EXCEPT ![Current(t)] = "queued"]
    <3>1. /\ fate'[Current(t)] = "queued"
          /\ \A r \in Records : r # Current(t) => fate'[r] = fate[r]
      BY <1>2, <2>2, <2>4
    <3>2. /\ Len(puts') = Len(puts) + 1
          /\ \A i \in 1..Len(puts) : puts'[i] = puts[i]
          /\ puts'[Len(puts) + 1] = Current(t)
          /\ \A i \in 1..Len(puts') : i \in 1..Len(puts) \/ i = Len(puts) + 1
      <4>1. Current(t) \in Items
        BY <2>2 DEF Items
      <4>2. /\ Len(puts') = Len(puts) + 1
            /\ \A i \in 1..Len(puts) : puts'[i] = puts[i]
            /\ puts'[Len(puts) + 1] = Current(t)
        BY <1>2, <2>4, <4>1, AppendProperties
      <4> QED
        BY <1>2, <4>2
    <3>3. ASSUME NEW r \in Records PROVE Queued(r)'
      <4>1. CASE r = Current(t)
        <5>1. Len(puts) + 1 \in 1..Len(puts')
          BY <1>2, <3>2
        <5> QED
          BY <3>1, <3>2, <4>1, <5>1
      <4>2. CASE r # Current(t)
        <5>1. (\E i \in 1..Len(puts') : puts'[i] = r) <=> (\E i \in 1..Len(puts) : puts[i] = r)
          <6>1. 1..Len(puts) \subseteq 1..Len(puts')
            BY <1>2, <3>2
          <6> QED
            BY <3>2, <4>2, <6>1
        <5> QED
          BY <1>4, <3>1, <4>2, <5>1
      <4> QED
        BY <4>1, <4>2
    <3>4. Unsent(t)' /\ Past(t)'
      <4>1. \A n \in 1..MaxLogs[t] : n # logged[t] => fate'[<<t, n>>] = fate[<<t, n>>]
        <5>1. ASSUME NEW n \in 1..MaxLogs[t], n # logged[t]
              PROVE  <<t, n>> \in Records /\ <<t, n>> # Current(t)
          <6>1. n \in Nat /\ n >= 1 /\ n <= MaxLogs[t]
            BY <1>2
          <6> QED
            BY <5>1, <6>1, RecordFacts DEF Current
        <5> QED
          BY <3>1, <5>1
      <4>2. Unsent(t)'
        BY <1>2, <1>4, <2>1, <4>1
      <4>3. Past(t)'
        <5>1. ASSUME NEW n \in 1..logged[t] PROVE fate'[<<t, n>>] \in Settled
          <6>1. n \in 1..MaxLogs[t]
            BY <1>2
          <6>2. CASE n = logged[t]
            BY <3>1, <6>2 DEF Current, Settled
          <6>3. CASE n # logged[t]
            <7>1. fate[<<t, n>>] \in Settled
              BY <1>4, <6>3
            <7> QED
              BY <4>1, <6>1, <6>3, <7>1
          <6> QED
            BY <6>2, <6>3
        <5> QED
          BY <2>1, <5>1
      <4> QED
        BY <4>2, <4>3
    <3>5. ASSUME NEW i \in 1..Len(puts), puts[i] # Sentinel, puts[i][1] = t
          PROVE  puts[i][2] < logged[t]
      <4>1. puts[i] \in Records
        BY <1>2, <3>5 DEF Items
      <4> DEFINE n == puts[i][2]
      <4>2. puts[i] = <<t, n>> /\ n \in 1..MaxLogs[t] /\ n \in Nat
        BY <3>5, <4>1, RecordIsPair
      <4>3. fate[<<t, n>>] = "queued"
        BY <1>4, <4>1, <4>2
      <4> HIDE DEF n
      <4>4. ~(n > logged[t])
        BY <1>4, <4>2, <4>3
      <4>5. n # logged[t]
        BY <2>2, <4>3 DEF Current
      <4>6. n < logged[t]
        BY <1>2, <4>2, <4>4, <4>5
      <4> QED
        BY <4>6 DEF n
    <3>6. Ordered'
      <4>1. ASSUME NEW i \in 1..Len(puts'), NEW j \in 1..Len(puts'), i < j,
                   puts'[i] # Sentinel, puts'[j] # Sentinel, puts'[i][1] = puts'[j][1]
            PROVE  puts'[i][2] < puts'[j][2]
        <5>1. i \in 1..Len(puts)
          BY <1>2, <3>2, <4>1
        <5>2. CASE j \in 1..Len(puts)
          BY <1>4, <3>2, <4>1, <5>1, <5>2
        <5>3. CASE j = Len(puts) + 1
          <6>1. puts'[j] = <<t, logged[t]>> /\ puts'[i] = puts[i]
            BY <3>2, <5>1, <5>3 DEF Current
          <6>2. puts'[j][1] = t /\ puts'[j][2] = logged[t]
            BY <6>1
          <6> QED
            BY <3>5, <4>1, <5>1, <6>1, <6>2
        <5> QED
          BY <3>2, <5>2, <5>3
      <4> QED
        BY <4>1
    <3> QED
      BY <1>5, <3>3, <3>4, <3>6 DEF AccountInv
  <2> QED
    BY <2>1, <2>3, <2>4
<1>12. CASE LogDone(t)
  <2>1. /\ UNCHANGED <<logged, puts>> /\ pc[t] = "dispatch"
        /\ IF fate[Current(t)] = "logging"
           THEN fate' = [fate EXCEPT ![Current(t)] = "missed"] ELSE fate' = fate
    BY <1>12 DEF LogDone, queueVars
  <2>2. /\ InLogCall(t) /\ Current(t) \in Records
        /\ fate[Current(t)] \in {"logging", "rejected", "full", "queued"}
    BY <1>3, <2>1 DEF ReleaseInv, IterationInv, InLogCall
  <2>3. /\ fate'[Current(t)] \in Settled
        /\ fate'[Current(t)] = "queued" <=> fate[Current(t)] = "queued"
    BY <1>2, <2>1, <2>2 DEF Settled
  <2> QED
    BY <1>6, <2>1, <2>2, <2>3
<1> QED
  BY <1>7, <1>8, <1>9, <1>10, <1>11, <1>12 DEF Produce

LEMMA AccountStopper ==
    ASSUME TypeInv, AccountInv, NEW s \in Stoppers, StopperStep(s)
    PROVE  AccountInv'
<1>1. UNCHANGED <<logged, fate>>
  BY StopperFrame DEF producerVars
<1>2. \A t \in Producers : pc'[t] = pc[t]
  <2>1. pc \in [Producers \cup Stoppers -> ProducerPCs \cup StopperPCs]
        /\ \A t \in Producers : t # s /\ t \in Producers \cup Stoppers
    BY ThreadsAssumption DEF TypeInv, VarsTyped
  <2> QED
    BY <2>1 DEF StopperStep, StopSteps, CallShutdown, Acquire, ToListenerOrClose,
       StopListener, Join, CloseHandler, Withdraw, GoTo
<1>3. CASE UNCHANGED puts
  BY <1>1, <1>2, <1>3 DEF AccountInv, InLogCall
<1>4. CASE puts' = Append(puts, Sentinel)
  <2>1. puts \in Seq(Items) /\ Len(puts) \in Nat /\ Sentinel \in Items
    BY DEF TypeInv, VarsTyped, Items
  <2>2. /\ Len(puts') = Len(puts) + 1
        /\ \A i \in 1..Len(puts) : puts'[i] = puts[i]
        /\ puts'[Len(puts) + 1] = Sentinel
    BY <1>4, <2>1, AppendProperties
  <2>3. /\ 1..Len(puts) \subseteq 1..Len(puts')
        /\ \A i \in 1..Len(puts') : i \in 1..Len(puts) \/ i = Len(puts) + 1
    BY <2>1, <2>2
  <2>4. \A r \in Records :
           (\E i \in 1..Len(puts') : puts'[i] = r) <=> (\E i \in 1..Len(puts) : puts[i] = r)
    BY <2>2, <2>3, SentinelAssumption
  <2>5. \A i, j \in 1..Len(puts') :
           (i < j /\ puts'[i] # Sentinel /\ puts'[j] # Sentinel) =>
               (puts'[i][1] = puts'[j][1] => puts'[i][2] < puts'[j][2])
    BY <2>2, <2>3 DEF AccountInv
  <2>6. /\ \A t \in Producers : \A n \in 1..MaxLogs[t] :
              n > logged'[t] => fate'[<<t, n>>] = "unsent"
        /\ \A t \in Producers : \A n \in 1..logged'[t] :
              fate'[<<t, n>>] \in Settled \/ (n = logged'[t] /\ InLogCall(t)')
    BY <1>1, <1>2 DEF AccountInv, InLogCall
  <2>7. \A r \in Records : fate'[r] = "queued" <=> \E i \in 1..Len(puts') : puts'[i] = r
    BY <1>1, <2>4 DEF AccountInv
  <2> QED
    BY <2>5, <2>6, <2>7 DEF AccountInv
<1> QED
  BY <1>3, <1>4 DEF StopperStep, StopSteps, CallShutdown, Acquire, StopListener, Join,
                    CloseHandler, Withdraw, queueVars

(* Nothing is lost unaccounted: a record is in the queue's history exactly *)
(* if its fate says so, the records of one thread in the order it logged   *)
(* them and none twice, and a log call that returned has settled its record*)
(* (OverflowFilter.filter, QueueHandler.emit, handleError).                *)
THEOREM NothingIsLost == PipeSpec => []RecordsAccounted
<1>1. ASSUME AccountInv, UNCHANGED <<logged, fate, puts, pc>> PROVE AccountInv'
  BY <1>1 DEF AccountInv, InLogCall
<1>2. ASSUME TypeInv, ReleaseInv, AccountInv, [PipeNext]_pipeVars PROVE AccountInv'
  <2>1. CASE UNCHANGED pipeVars
    BY <1>1, <1>2, <2>1 DEF pipeVars, queueVars, producerVars
  <2>2. CASE Listen
    BY <1>1, <1>2, <2>2, ListenerFrame DEF producerVars
  <2> QED
    BY <1>2, <2>1, <2>2, NextCases, AccountProducer, AccountStopper
<1>3. ASSUME TypeInv, AccountInv PROVE RecordsAccounted
  <2>1. {r \in Records : fate[r] = "queued"} = ToSet(puts) \ {Sentinel}
    <3>1. puts \in Seq(Items) /\ ToSet(puts) = {puts[i] : i \in 1..Len(puts)}
      BY <1>3 DEF TypeInv, VarsTyped, ToSet
    <3>2. \A i \in 1..Len(puts) : puts[i] \in Records \cup {Sentinel}
      BY <3>1 DEF Items
    <3> QED
      BY <1>3, <3>1, <3>2, SentinelAssumption DEF AccountInv
  <2>2. \A t \in Producers : pc[t] \in {"idle", "flushed"} => ~InLogCall(t)
    BY DEF InLogCall
  <2> QED
    BY <1>3, <2>1, <2>2 DEF AccountInv, RecordsAccounted, Settled
<1> QED
  BY <1>2, <1>3, AccountInit, TypeInvariance, ReleaseInvariance, PTL DEF PipeSpec
=============================================================================
