------------------------- MODULE SharedLoggerProofs -------------------------
(***************************************************************************)
(* Factories that share loggers, for any set of factories and any names:   *)
(* they use the registry as Registry says, a shutdown() that has returned  *)
(* leaves nothing behind, and a published factory is served by its sinks   *)
(* unless one of its name was shut down beside it.                         *)
(***************************************************************************)
EXTENDS SharedLogger, RegistryProofs

Kinds    == {"console", "queue"}
Handlers == Factories \X Kinds
In(s, h) == \E i \in 1..Len(s) : s[i] = h

SharedTypeOK ==
    /\ attached \in [Names -> Seq(Handlers)]
    /\ phase \in [Factories -> Phases]
    /\ listening \subseteq Factories
    /\ toClose \in [Factories -> Seq(Handlers)]
    /\ exposed \subseteq Factories

(* A logger has a handler once, and only those that factories of its name  *)
(* have attached so far.                                                   *)
AttachedInv ==
    \A n \in Names :
        /\ \A i, j \in 1..Len(attached[n]) : attached[n][i] = attached[n][j] => i = j
        /\ \A f \in Factories, k \in Kinds : In(attached[n], <<f, k>>) =>
              /\ NameOf[f] = n
              /\ phase[f] # "new"
              /\ k = "queue" => phase[f] # "console"

(* A factory publishes last and withdraws last; what shutdown() still has  *)
(* to close covers what the factory still has attached.                    *)
PhaseInv ==
    \A f \in Factories :
        /\ phase[f] \in {"new", "console", "queue"} => f \notin listening /\ at[f] = "new"
        /\ phase[f] = "closing" =>
              /\ f \notin listening
              /\ \A k \in Kinds : In(attached[NameOf[f]], <<f, k>>) => In(toClose[f], <<f, k>>)
        /\ at[f] \notin {"new", "appended", "live"} => phase[f] = "closing" /\ toClose[f] = << >>

(* Only an exposed factory loses its queue handler to another one.         *)
ServedInv ==
    \A f \in Factories :
        /\ phase[f] = "up" => f \in listening
        /\ phase[f] \in {"queue", "up"} /\ f \notin exposed =>
              In(attached[NameOf[f]], <<f, "queue">>)
        /\ \A g \in Factories \ {f} : In(toClose[g], <<f, "queue">>) => f \in exposed
        /\ phase[f] # "closing" => toClose[f] = << >>

SharedInv == TypeOK /\ SharedTypeOK /\ AttachedInv /\ PhaseInv /\ ServedInv

-----------------------------------------------------------------------------
(* Each step is a step of the registry, or leaves it alone.                *)
LEMMA StepsTheRegistry == [SharedNext]_sharedVars => [RegistryNext]_registryVars
<1> SUFFICES ASSUME [SharedNext]_sharedVars
             PROVE  [RegistryNext]_registryVars
  OBVIOUS
<1>1. CASE UNCHANGED sharedVars
  BY <1>1 DEF sharedVars
<1>2. ASSUME NEW f \in Factories,
             \/ AddConsole(f) \/ AddQueue(f) \/ StartListener(f) \/ BeginShutdown(f)
             \/ StopListener(f) \/ CloseHandler(f)
      PROVE  UNCHANGED registryVars
  BY <1>2 DEF AddConsole, AddQueue, StartListener, BeginShutdown, StopListener, CloseHandler
<1>3. ASSUME NEW f \in Factories, Publish(f) \/ Withdraw(f) \/ RegistrySteps(f)
      PROVE  RegistryNext
  BY <1>3 DEF Publish, Withdraw, RegistrySteps, RegistryNext
<1> QED
  BY <1>1, <1>2, <1>3 DEF SharedNext

(* Factories that are built and shut down use the registry as Registry has *)
(* it: every theorem about it holds of them (LoggerFactory.__init__,       *)
(* shutdown).                                                              *)
THEOREM UsesRegistry == SharedSpec => RegistrySpec
<1>1. SharedInit => RegistryInit
  BY DEF SharedInit
<1> QED
  BY <1>1, StepsTheRegistry, PTL DEF SharedSpec, RegistrySpec

LEMMA SharedInvInit == SharedInit => SharedInv
<1> SUFFICES ASSUME SharedInit
             PROVE  SharedInv
  OBVIOUS
<1>1. TypeOK
  BY TypeOKInit DEF SharedInit
<1>2. SharedTypeOK
  BY DEF SharedInit, SharedTypeOK, Phases
<1>3. AttachedInv
  BY DEF SharedInit, AttachedInv, In
<1>4. at = [f \in Factories |-> "new"]
  BY DEF SharedInit, RegistryInit
<1>5. PhaseInv
  BY <1>4 DEF SharedInit, PhaseInv
<1>6. ServedInv
  BY DEF SharedInit, ServedInv, In
<1> QED
  BY <1>1, <1>2, <1>3, <1>5, <1>6 DEF SharedInv

(* A handler that is attached is one more, at the end.                     *)
LEMMA AppendIn ==
    ASSUME NEW s \in Seq(Handlers), NEW h \in Handlers,
           \A i, j \in 1..Len(s) : s[i] = s[j] => i = j
    PROVE  /\ Append(s, h) \in Seq(Handlers)
           /\ \A x : In(Append(s, h), x) <=> In(s, x) \/ x = h
           /\ ~In(s, h) => \A i, j \in 1..Len(Append(s, h)) :
                 Append(s, h)[i] = Append(s, h)[j] => i = j
<1>1. /\ Append(s, h) \in Seq(Handlers)
      /\ Len(Append(s, h)) = Len(s) + 1
      /\ \A i \in 1..Len(s) : Append(s, h)[i] = s[i]
      /\ Append(s, h)[Len(s) + 1] = h
  OBVIOUS
<1>2. Len(s) \in Nat
  OBVIOUS
<1>3. ASSUME NEW x
      PROVE  In(Append(s, h), x) <=> In(s, x) \/ x = h
  BY <1>1, <1>2 DEF In
<1>4. ASSUME ~In(s, h), NEW i \in 1..Len(Append(s, h)), NEW j \in 1..Len(Append(s, h)),
             Append(s, h)[i] = Append(s, h)[j]
      PROVE  i = j
  BY <1>1, <1>2, <1>4 DEF In
<1> QED
  BY <1>1, <1>3, <1>4

(* The console handler of f is attached.                                    *)
LEMMA AddConsoleStep ==
    ASSUME SharedInv, NEW f \in Factories, AddConsole(f)
    PROVE  SharedTypeOK' /\ AttachedInv' /\ PhaseInv' /\ ServedInv'
<1> USE DEF SharedInv, SharedTypeOK
<1> DEFINE n == NameOf[f]
           h == <<f, "console">>
<1>1. /\ phase[f] = "new"
      /\ attached' = [attached EXCEPT ![n] = Append(@, h)]
      /\ phase' = [phase EXCEPT ![f] = "console"]
      /\ UNCHANGED <<at, listening, toClose, exposed>>
  BY DEF AddConsole, Attach, Enters, registryVars
<1>2. n \in Names /\ h \in Handlers /\ attached[n] \in Seq(Handlers)
  BY DEF Names, Handlers, Kinds
<1>3. ~In(attached[n], h)
  BY <1>1, <1>2 DEF AttachedInv, Kinds
<1> HIDE DEF n, h
<1>4. /\ attached'[n] \in Seq(Handlers)
      /\ \A x : In(attached'[n], x) <=> In(attached[n], x) \/ x = h
      /\ \A i, j \in 1..Len(attached'[n]) : attached'[n][i] = attached'[n][j] => i = j
      /\ \A m \in Names \ {n} : attached'[m] = attached[m]
  <2>1. \A i, j \in 1..Len(attached[n]) : attached[n][i] = attached[n][j] => i = j
    BY <1>2 DEF AttachedInv
  <2>2. attached'[n] = Append(attached[n], h)
    BY <1>1, <1>2
  <2>3. /\ Append(attached[n], h) \in Seq(Handlers)
        /\ \A x : In(Append(attached[n], h), x) <=> In(attached[n], x) \/ x = h
        /\ \A i, j \in 1..Len(Append(attached[n], h)) :
              Append(attached[n], h)[i] = Append(attached[n], h)[j] => i = j
    BY <1>2, <1>3, <2>1, AppendIn
  <2>4. \A m \in Names \ {n} : attached'[m] = attached[m]
    BY <1>1
  <2> QED
    BY <2>2, <2>3, <2>4
<1>5. SharedTypeOK'
  BY <1>1, <1>2, <1>4 DEF Phases
<1>6. /\ phase'[f] = "console"
      /\ \A g \in Factories \ {f} : phase'[g] = phase[g]
  BY <1>1
<1>7. AttachedInv'
  <2>1. ASSUME NEW m \in Names
        PROVE  \A i, j \in 1..Len(attached'[m]) : attached'[m][i] = attached'[m][j] => i = j
    BY <1>4 DEF AttachedInv
  <2>2. ASSUME NEW m \in Names, NEW g \in Factories, NEW k \in Kinds,
               In(attached'[m], <<g, k>>)
        PROVE  NameOf[g] = m /\ phase'[g] # "new" /\ (k = "queue" => phase'[g] # "console")
    <3>1. CASE <<g, k>> = h /\ m = n
      BY <1>6, <3>1 DEF n, h
    <3>2. CASE In(attached[m], <<g, k>>)
      BY <1>1, <1>6, <2>2, <3>2 DEF AttachedInv
    <3> QED
      BY <1>4, <2>2, <3>1, <3>2
  <2> QED
    BY <2>1, <2>2 DEF AttachedInv
<1>8. PhaseInv'
  <2>1. ASSUME NEW g \in Factories, phase'[g] = "closing", NEW k \in Kinds,
               In(attached'[NameOf[g]], <<g, k>>)
        PROVE  In(toClose[g], <<g, k>>)
    <3>1. g # f /\ phase[g] = "closing" /\ <<g, k>> # h
      BY <1>6, <2>1 DEF h
    <3>2. In(attached[NameOf[g]], <<g, k>>)
      BY <1>4, <2>1, <3>1 DEF Names
    <3> QED
      BY <3>1, <3>2 DEF PhaseInv
  <2> QED
    BY <1>1, <1>6, <2>1 DEF PhaseInv
<1>9. ServedInv'
  <2>1. ASSUME NEW g \in Factories, phase'[g] \in {"queue", "up"}, g \notin exposed
        PROVE  In(attached'[NameOf[g]], <<g, "queue">>)
    <3>1. CASE g = f
      BY <1>4, <1>6, <2>1, <3>1 DEF n, h
    <3>2. CASE g # f
      <4>1. In(attached[NameOf[g]], <<g, "queue">>)
        BY <1>6, <2>1, <3>2 DEF ServedInv
      <4> QED
        BY <1>4, <4>1 DEF Names
    <3> QED
      BY <3>1, <3>2
  <2> QED
    BY <1>1, <1>6, <2>1 DEF ServedInv
<1> QED
  BY <1>5, <1>7, <1>8, <1>9

(* The queue handler of f is attached.                                    *)
LEMMA AddQueueStep ==
    ASSUME SharedInv, NEW f \in Factories, AddQueue(f)
    PROVE  SharedTypeOK' /\ AttachedInv' /\ PhaseInv' /\ ServedInv'
<1> USE DEF SharedInv, SharedTypeOK
<1> DEFINE n == NameOf[f]
           h == <<f, "queue">>
<1>1. /\ phase[f] = "console"
      /\ attached' = [attached EXCEPT ![n] = Append(@, h)]
      /\ phase' = [phase EXCEPT ![f] = "queue"]
      /\ UNCHANGED <<at, listening, toClose, exposed>>
  BY DEF AddQueue, Attach, Enters, registryVars
<1>2. n \in Names /\ h \in Handlers /\ attached[n] \in Seq(Handlers)
  BY DEF Names, Handlers, Kinds
<1>3. ~In(attached[n], h)
  BY <1>1, <1>2 DEF AttachedInv, Kinds
<1> HIDE DEF n, h
<1>4. /\ attached'[n] \in Seq(Handlers)
      /\ \A x : In(attached'[n], x) <=> In(attached[n], x) \/ x = h
      /\ \A i, j \in 1..Len(attached'[n]) : attached'[n][i] = attached'[n][j] => i = j
      /\ \A m \in Names \ {n} : attached'[m] = attached[m]
  <2>1. \A i, j \in 1..Len(attached[n]) : attached[n][i] = attached[n][j] => i = j
    BY <1>2 DEF AttachedInv
  <2>2. attached'[n] = Append(attached[n], h)
    BY <1>1, <1>2
  <2>3. /\ Append(attached[n], h) \in Seq(Handlers)
        /\ \A x : In(Append(attached[n], h), x) <=> In(attached[n], x) \/ x = h
        /\ \A i, j \in 1..Len(Append(attached[n], h)) :
              Append(attached[n], h)[i] = Append(attached[n], h)[j] => i = j
    BY <1>2, <1>3, <2>1, AppendIn
  <2>4. \A m \in Names \ {n} : attached'[m] = attached[m]
    BY <1>1
  <2> QED
    BY <2>2, <2>3, <2>4
<1>5. SharedTypeOK'
  BY <1>1, <1>2, <1>4 DEF Phases
<1>6. /\ phase'[f] = "queue"
      /\ \A g \in Factories \ {f} : phase'[g] = phase[g]
  BY <1>1
<1>7. AttachedInv'
  <2>1. ASSUME NEW m \in Names
        PROVE  \A i, j \in 1..Len(attached'[m]) : attached'[m][i] = attached'[m][j] => i = j
    BY <1>4 DEF AttachedInv
  <2>2. ASSUME NEW m \in Names, NEW g \in Factories, NEW k \in Kinds,
               In(attached'[m], <<g, k>>)
        PROVE  NameOf[g] = m /\ phase'[g] # "new" /\ (k = "queue" => phase'[g] # "console")
    <3>1. CASE <<g, k>> = h /\ m = n
      BY <1>6, <3>1 DEF n, h
    <3>2. CASE In(attached[m], <<g, k>>)
      BY <1>1, <1>6, <2>2, <3>2 DEF AttachedInv
    <3> QED
      BY <1>4, <2>2, <3>1, <3>2
  <2> QED
    BY <2>1, <2>2 DEF AttachedInv
<1>8. PhaseInv'
  <2>1. ASSUME NEW g \in Factories, phase'[g] = "closing", NEW k \in Kinds,
               In(attached'[NameOf[g]], <<g, k>>)
        PROVE  In(toClose[g], <<g, k>>)
    <3>1. g # f /\ phase[g] = "closing" /\ <<g, k>> # h
      BY <1>6, <2>1 DEF h
    <3>2. In(attached[NameOf[g]], <<g, k>>)
      BY <1>4, <2>1, <3>1 DEF Names
    <3> QED
      BY <3>1, <3>2 DEF PhaseInv
  <2> QED
    BY <1>1, <1>6, <2>1 DEF PhaseInv
<1>9. ServedInv'
  <2>1. ASSUME NEW g \in Factories, phase'[g] \in {"queue", "up"}, g \notin exposed
        PROVE  In(attached'[NameOf[g]], <<g, "queue">>)
    <3>1. CASE g = f
      BY <1>4, <1>6, <2>1, <3>1 DEF n, h
    <3>2. CASE g # f
      <4>1. In(attached[NameOf[g]], <<g, "queue">>)
        BY <1>6, <2>1, <3>2 DEF ServedInv
      <4> QED
        BY <1>4, <4>1 DEF Names
    <3> QED
      BY <3>1, <3>2
  <2> QED
    BY <1>1, <1>6, <2>1 DEF ServedInv
<1> QED
  BY <1>5, <1>7, <1>8, <1>9

LEMMA StartListenerStep ==
    ASSUME SharedInv, NEW f \in Factories, StartListener(f)
    PROVE  SharedTypeOK' /\ AttachedInv' /\ PhaseInv' /\ ServedInv'
<1> USE DEF SharedInv, SharedTypeOK
<1>1. /\ phase[f] = "queue"
      /\ listening' = listening \cup {f}
      /\ phase' = [phase EXCEPT ![f] = "up"]
      /\ UNCHANGED <<at, attached, toClose, exposed>>
  BY DEF StartListener, Enters, registryVars
<1>2. SharedTypeOK'
  BY <1>1 DEF Phases
<1>3. AttachedInv'
  BY <1>1 DEF AttachedInv
<1>4. PhaseInv'
  BY <1>1 DEF PhaseInv
<1>5. ServedInv'
  BY <1>1 DEF ServedInv
<1> QED
  BY <1>2, <1>3, <1>4, <1>5

(* publish(), withdraw() and what follows in them.                         *)
LEMMA RegistryStep ==
    ASSUME SharedInv, NEW f \in Factories, Publish(f) \/ Withdraw(f) \/ RegistrySteps(f)
    PROVE  SharedTypeOK' /\ AttachedInv' /\ PhaseInv' /\ ServedInv'
<1> USE DEF SharedInv, SharedTypeOK
<1>1. UNCHANGED <<attached, phase, listening, toClose, exposed>>
  BY DEF Publish, Withdraw, RegistrySteps, loggerVars
<1>2. SharedTypeOK' /\ AttachedInv' /\ ServedInv'
  BY <1>1 DEF AttachedInv, ServedInv
<1>3. at \in [Factories -> Stages] /\ \A g \in Factories \ {f} : at'[g] = at[g]
  BY DEF TypeOK, Publish, Withdraw, RegistrySteps, Finishes, PublishAppend, WithdrawRemove,
         PublishSet, WithdrawCompare, WithdrawDelete, WithdrawRestore, Moves
<1>4. CASE Publish(f)
  <2>1. phase[f] = "up" /\ at'[f] = "appended"
    BY <1>3, <1>4 DEF Publish, PublishAppend, Moves
  <2>2. PhaseInv'
    BY <1>1, <1>3, <2>1 DEF PhaseInv
  <2> QED
    BY <1>2, <2>2
<1>5. CASE Withdraw(f)
  <2>1. phase[f] = "closing" /\ toClose[f] = << >>
    BY <1>5 DEF Withdraw
  <2>2. PhaseInv'
    BY <1>1, <1>3, <2>1 DEF PhaseInv
  <2> QED
    BY <1>2, <2>2
<1>6. CASE RegistrySteps(f)
  <2>1. at[f] # "new" /\ (at'[f] \in {"appended", "live"} => at[f] = "appended")
    BY <1>3, <1>6 DEF RegistrySteps, Finishes, PublishSet, WithdrawCompare, WithdrawDelete,
                      WithdrawRestore, Moves
  <2>2. at'[f] \notin {"new", "appended", "live"} => at[f] \notin {"new", "appended", "live"}
    BY <1>3, <1>6 DEF RegistrySteps, Finishes, PublishSet, WithdrawCompare, WithdrawDelete,
                      WithdrawRestore, Moves
  <2>3. PhaseInv'
    BY <1>1, <1>3, <2>1, <2>2 DEF PhaseInv
  <2> QED
    BY <1>2, <2>3
<1> QED
  BY <1>4, <1>5, <1>6

LEMMA BeginShutdownStep ==
    ASSUME SharedInv, NEW f \in Factories, BeginShutdown(f)
    PROVE  SharedTypeOK' /\ AttachedInv' /\ PhaseInv' /\ ServedInv'
<1> USE DEF SharedInv, SharedTypeOK
<1>1. /\ phase[f] = "up" /\ at[f] = "live"
      /\ phase' = [phase EXCEPT ![f] = "stopping"]
      /\ UNCHANGED <<at, attached, listening, toClose, exposed>>
  BY DEF BeginShutdown, Enters, registryVars
<1>2. SharedTypeOK'
  BY <1>1 DEF Phases
<1>3. AttachedInv'
  BY <1>1 DEF AttachedInv
<1>4. PhaseInv'
  BY <1>1 DEF PhaseInv
<1>5. ServedInv'
  BY <1>1 DEF ServedInv
<1> QED
  BY <1>2, <1>3, <1>4, <1>5

(* The list that f is going to close has its own handlers and those of     *)
(* factories that are exposed by it.                                       *)
LEMMA StopListenerStep ==
    ASSUME SharedInv, NEW f \in Factories, StopListener(f)
    PROVE  SharedTypeOK' /\ AttachedInv' /\ PhaseInv' /\ ServedInv'
<1> USE DEF SharedInv, SharedTypeOK
<1>1. /\ phase[f] = "stopping"
      /\ listening' = listening \ {f}
      /\ toClose' = [toClose EXCEPT ![f] = attached[NameOf[f]]]
      /\ exposed' = exposed \cup {g \in Namesakes(f) : phase[g] # "new"}
      /\ phase' = [phase EXCEPT ![f] = "closing"]
      /\ UNCHANGED <<at, attached>>
  BY DEF StopListener, Enters, registryVars
<1>2. NameOf[f] \in Names
  BY DEF Names
<1>3. SharedTypeOK'
  BY <1>1, <1>2 DEF Phases, Namesakes
<1>4. AttachedInv'
  BY <1>1 DEF AttachedInv
<1>5. PhaseInv'
  BY <1>1 DEF PhaseInv
<1>6. ASSUME NEW g \in Factories, NEW d \in Factories \ {g}, In(toClose'[d], <<g, "queue">>)
      PROVE  g \in exposed'
  <2>1. CASE d = f
    <3>1. In(attached[NameOf[f]], <<g, "queue">>)
      BY <1>1, <1>6, <2>1
    <3>2. NameOf[g] = NameOf[f] /\ phase[g] # "new"
      BY <1>2, <3>1 DEF AttachedInv, Kinds
    <3> QED
      BY <1>1, <2>1, <3>2 DEF Namesakes
  <2>2. CASE d # f
    BY <1>1, <1>6, <2>2 DEF ServedInv
  <2> QED
    BY <2>1, <2>2
<1>7. ServedInv'
  BY <1>1, <1>6 DEF ServedInv
<1> QED
  BY <1>3, <1>4, <1>5, <1>7

(* What is left to close after the first handler of the list.              *)
LEMMA TailIn ==
    ASSUME NEW s \in Seq(Handlers), s # << >>
    PROVE  /\ Tail(s) \in Seq(Handlers)
           /\ Head(s) \in Handlers
           /\ In(s, Head(s))
           /\ \A x : In(Tail(s), x) => In(s, x)
           /\ \A x : In(s, x) /\ x # Head(s) => In(Tail(s), x)
<1>1. /\ Tail(s) \in Seq(Handlers)
      /\ Len(s) \in Nat /\ Len(s) >= 1
      /\ Len(Tail(s)) = Len(s) - 1
      /\ \A i \in 1..Len(Tail(s)) : Tail(s)[i] = s[i + 1]
      /\ Head(s) = s[1]
      /\ Head(s) \in Handlers
  OBVIOUS
<1>2. In(s, Head(s))
  BY <1>1 DEF In
<1>3. ASSUME NEW i \in 1..Len(Tail(s))
      PROVE  i + 1 \in 1..Len(s) /\ Tail(s)[i] = s[i + 1]
  BY <1>1
<1>4. ASSUME NEW i \in 1..Len(s), s[i] # Head(s)
      PROVE  i - 1 \in 1..Len(Tail(s)) /\ Tail(s)[i - 1] = s[i]
  <2>1. i # 1 /\ i - 1 \in 1..Len(Tail(s)) /\ (i - 1) + 1 = i
    BY <1>1, <1>4
  <2> QED
    BY <1>1, <2>1
<1>5. \A x : In(Tail(s), x) => In(s, x)
  BY <1>3 DEF In
<1>6. \A x : In(s, x) /\ x # Head(s) => In(Tail(s), x)
  BY <1>4 DEF In
<1> QED
  BY <1>1, <1>2, <1>5, <1>6

(* removeHandler takes that handler off, and no other one.                 *)
LEMMA DetachIn ==
    ASSUME SharedInv, NEW n \in Names, NEW h, Detach(n, h)
    PROVE  /\ attached' \in [Names -> Seq(Handlers)]
           /\ \A x : In(attached'[n], x) <=> In(attached[n], x) /\ x # h
           /\ \A i, j \in 1..Len(attached'[n]) : attached'[n][i] = attached'[n][j] => i = j
           /\ \A m \in Names \ {n} : attached'[m] = attached[m]
<1>1. /\ attached \in [Names -> Seq(Handlers)]
      /\ \A i, j \in 1..Len(attached[n]) : attached[n][i] = attached[n][j] => i = j
  BY DEF SharedInv, SharedTypeOK, AttachedInv
<1>2. CASE ~Contains(attached[n], h) /\ UNCHANGED attached
  <2>1. ~In(attached[n], h)
    BY <1>2 DEF Contains, In
  <2> QED
    BY <1>1, <1>2, <2>1
<1>3. ASSUME NEW i \in 1..Len(attached[n]), attached[n][i] = h,
             attached' = [attached EXCEPT ![n] = RemoveAt(@, i)]
      PROVE  /\ attached' \in [Names -> Seq(Handlers)]
             /\ \A x : In(attached'[n], x) <=> In(attached[n], x) /\ x # h
             /\ \A j, k \in 1..Len(attached'[n]) : attached'[n][j] = attached'[n][k] => j = k
             /\ \A m \in Names \ {n} : attached'[m] = attached[m]
  <2>1. attached[n] \in Seq(Handlers)
    BY <1>1
  <2>2. /\ RemoveAt(attached[n], i) \in Seq(Handlers)
        /\ \A j, k \in 1..Len(RemoveAt(attached[n], i)) :
              RemoveAt(attached[n], i)[j] = RemoveAt(attached[n], i)[k] => j = k
        /\ \A x : In(RemoveAt(attached[n], i), x) <=> x # attached[n][i] /\ In(attached[n], x)
    BY <1>1, <2>1, RemoveAtDistinct DEF In
  <2>3. attached'[n] = RemoveAt(attached[n], i)
    BY <1>1, <1>3
  <2> HIDE DEF In
  <2> QED
    BY <1>1, <1>3, <2>2, <2>3
<1> QED
  BY <1>2, <1>3 DEF Detach

LEMMA CloseHandlerStep ==
    ASSUME SharedInv, NEW f \in Factories, CloseHandler(f)
    PROVE  SharedTypeOK' /\ AttachedInv' /\ PhaseInv' /\ ServedInv'
<1> USE DEF SharedInv, SharedTypeOK
<1> DEFINE n == NameOf[f]
           h == Head(toClose[f])
<1>1. /\ phase[f] = "closing"
      /\ toClose[f] \in Seq(Handlers) /\ toClose[f] # << >>
      /\ Detach(n, h)
      /\ toClose' = [toClose EXCEPT ![f] = Tail(@)]
      /\ UNCHANGED <<at, phase, listening, exposed>>
  BY DEF CloseHandler, registryVars
<1>2. n \in Names
  BY DEF Names
<1>3. /\ Tail(toClose[f]) \in Seq(Handlers)
      /\ In(toClose[f], h)
      /\ \A x : In(Tail(toClose[f]), x) => In(toClose[f], x)
      /\ \A x : In(toClose[f], x) /\ x # h => In(Tail(toClose[f]), x)
  BY <1>1, TailIn
<1>4. /\ attached' \in [Names -> Seq(Handlers)]
      /\ \A x : In(attached'[n], x) <=> In(attached[n], x) /\ x # h
      /\ \A i, j \in 1..Len(attached'[n]) : attached'[n][i] = attached'[n][j] => i = j
      /\ \A m \in Names \ {n} : attached'[m] = attached[m]
  BY <1>1, <1>2, DetachIn
<1>5. /\ toClose'[f] = Tail(toClose[f])
      /\ \A g \in Factories \ {f} : toClose'[g] = toClose[g]
  BY <1>1
<1>6. \A m \in Names : \A x : In(attached'[m], x) => In(attached[m], x)
  BY <1>4
<1>7. SharedTypeOK'
  BY <1>1, <1>3, <1>4
<1> HIDE DEF n, h
<1>8. AttachedInv'
  <2>1. ASSUME NEW m \in Names
        PROVE  \A i, j \in 1..Len(attached'[m]) : attached'[m][i] = attached'[m][j] => i = j
    BY <1>4 DEF AttachedInv
  <2>2. ASSUME NEW m \in Names, NEW g \in Factories, NEW k \in Kinds,
               In(attached'[m], <<g, k>>)
        PROVE  NameOf[g] = m /\ phase'[g] # "new" /\ (k = "queue" => phase'[g] # "console")
    BY <1>1, <1>6, <2>2 DEF AttachedInv
  <2> QED
    BY <2>1, <2>2 DEF AttachedInv
<1>9. PhaseInv'
  <2>1. ASSUME NEW g \in Factories, phase[g] = "closing", NEW k \in Kinds,
               In(attached'[NameOf[g]], <<g, k>>)
        PROVE  In(toClose'[g], <<g, k>>)
    <3>1. NameOf[g] \in Names
      BY DEF Names
    <3>2. In(toClose[g], <<g, k>>)
      BY <1>6, <2>1, <3>1 DEF PhaseInv
    <3>3. CASE g = f
      <4>1. <<g, k>> # h
        BY <1>4, <2>1, <3>3 DEF n
      <4> QED
        BY <1>3, <1>5, <3>2, <3>3, <4>1
    <3>4. CASE g # f
      BY <1>5, <3>2, <3>4
    <3> QED
      BY <3>3, <3>4
  <2>2. \A g \in Factories : at[g] \notin {"new", "appended", "live"} =>
            phase[g] = "closing" /\ toClose'[g] = << >>
    BY <1>1, <1>5 DEF PhaseInv
  <2> QED
    BY <1>1, <2>1, <2>2 DEF PhaseInv
<1>10. ServedInv'
  <2>1. ASSUME NEW g \in Factories, phase[g] \in {"queue", "up"}, g \notin exposed
        PROVE  In(attached'[NameOf[g]], <<g, "queue">>)
    <3>1. In(attached[NameOf[g]], <<g, "queue">>) /\ NameOf[g] \in Names /\ g # f
      BY <1>1, <2>1 DEF ServedInv, Names
    <3>2. <<g, "queue">> # h
      BY <1>3, <2>1, <3>1 DEF ServedInv
    <3> QED
      BY <1>4, <3>1, <3>2
  <2>2. ASSUME NEW g \in Factories, NEW d \in Factories \ {g}, In(toClose'[d], <<g, "queue">>)
        PROVE  g \in exposed
    <3>1. In(toClose[d], <<g, "queue">>)
      BY <1>3, <1>5, <2>2
    <3> QED
      BY <3>1 DEF ServedInv
  <2>3. \A g \in Factories : phase[g] # "closing" => toClose'[g] = << >>
    BY <1>1, <1>5 DEF ServedInv
  <2> QED
    BY <1>1, <2>1, <2>2, <2>3 DEF ServedInv
<1> QED
  BY <1>7, <1>8, <1>9, <1>10

LEMMA SharedInvStep == SharedInv /\ [SharedNext]_sharedVars => SharedInv'
<1> SUFFICES ASSUME SharedInv, [SharedNext]_sharedVars
             PROVE  SharedInv'
  OBVIOUS
<1>1. TypeOK'
  BY TypeOKStep, StepsTheRegistry DEF SharedInv
<1>2. CASE UNCHANGED sharedVars
  <2>1. UNCHANGED <<at, attached, phase, listening, toClose, exposed>>
    BY <1>2 DEF sharedVars, loggerVars, registryVars
  <2> QED
    BY <1>1, <2>1 DEF SharedInv, SharedTypeOK, AttachedInv, PhaseInv, ServedInv
<1>3. CASE SharedNext
  BY <1>1, <1>3, AddConsoleStep, AddQueueStep, StartListenerStep, RegistryStep,
     BeginShutdownStep, StopListenerStep, CloseHandlerStep DEF SharedNext, SharedInv
<1> QED
  BY <1>2, <1>3

(* The invariant holds in every reachable state.                           *)
THEOREM SharedInvariance == SharedSpec => []SharedInv
  BY SharedInvInit, SharedInvStep, PTL DEF SharedSpec

(* A shutdown() that has returned leaves neither a handler nor a running   *)
(* listener of its factory behind (LoggerFactory.shutdown).                *)
THEOREM GoneIsDetached == SharedSpec => []DownIsDetached
<1>1. SharedInv => DownIsDetached
  <2> SUFFICES ASSUME SharedInv, NEW f \in Factories, at[f] = "gone"
               PROVE  /\ f \notin listening
                      /\ \A i \in 1..Len(attached[NameOf[f]]) : attached[NameOf[f]][i][1] # f
    BY DEF DownIsDetached
  <2>1. phase[f] = "closing" /\ toClose[f] = << >> /\ f \notin listening
    BY DEF SharedInv, PhaseInv
  <2>2. \A k \in Kinds : ~In(toClose[f], <<f, k>>)
    BY <2>1 DEF In
  <2>3. \A k \in Kinds : ~In(attached[NameOf[f]], <<f, k>>)
    BY <2>1, <2>2 DEF SharedInv, PhaseInv
  <2>4. attached[NameOf[f]] \in Seq(Handlers)
    BY DEF SharedInv, SharedTypeOK, Names
  <2>5. ASSUME NEW i \in 1..Len(attached[NameOf[f]]), attached[NameOf[f]][i][1] = f
        PROVE  FALSE
    <3>1. attached[NameOf[f]][i] \in Handlers
      BY <2>4
    <3>2. PICK k \in Kinds : attached[NameOf[f]][i] = <<f, k>>
      BY <2>5, <3>1 DEF Handlers
    <3> QED
      BY <2>3, <3>2 DEF In
  <2> QED
    BY <2>1, <2>5
<1> QED
  BY <1>1, SharedInvariance, PTL

(* A factory that can be found in the registry is served by its own sinks, *)
(* unless one of its name was shut down beside it (LoggerFactory.__init__).*)
THEOREM PublishedIsServed == SharedSpec => []ServedUnlessExposed
<1>1. SharedInv => ServedUnlessExposed
  <2> SUFFICES ASSUME SharedInv, NEW f \in Factories, InStack(f), ~Stops(f), f \notin exposed
               PROVE  f \in Served(f)
    BY DEF ServedUnlessExposed
  <2>1. at[f] \in {"appended", "live"}
    BY DEF SharedInv, TypeOK
  <2>2. phase[f] = "up"
    BY <2>1 DEF SharedInv, SharedTypeOK, PhaseInv, Stops, Phases
  <2>3. f \in listening /\ In(attached[NameOf[f]], <<f, "queue">>)
    BY <2>2 DEF SharedInv, ServedInv
  <2> QED
    BY <2>3 DEF Served, Contains, In
<1> QED
  BY <1>1, SharedInvariance, PTL

(* What is proved of the registry alone holds of factories that use it:    *)
(* none is active once its shutdown() has returned (registry.withdraw).    *)
COROLLARY SharedNeverActiveWhenGone == SharedSpec => []ActiveIsNotGone
  BY UsesRegistry, NeverActiveWhenGone, PTL
-----------------------------------------------------------------------------
(***************************************************************************)
(* What the sinks say of a record, for any handlers in any order. Halfway  *)
(* is what a record can be between two handlers, Kept what a queue gets.   *)
(***************************************************************************)
Texts(rec)  == {Rendered(rec.excInfo, "plain"), Rendered(rec.excInfo, "pretty")}
Grown(rec)  == {a \in SUBSET (rec.attrs \cup Bound \cup {"message", "extras", "asctime"}) :
                  rec.attrs \subseteq a}
Traces(rec) == IF rec.attrs = {} THEN {rec.trace, "zeros"} ELSE {rec.trace}
Halfway(rec) ==
    [attrs : Grown(rec), trace : Traces(rec), excInfo : {rec.excInfo},
     excText : {<< >>} \cup Texts(rec), inMessage : {<< >>}]
Kept(rec) ==
    [attrs : Grown(rec), trace : Traces(rec), excInfo : {<< >>}, excText : {<< >>},
     inMessage : Texts(rec)]
Path(rec) == [record : Halfway(rec), copies : Seq(Kept(rec))]
Traced(rec) == rec.attrs # {} => "trace_id" \in rec.attrs
Start(rec) == [record |-> rec, copies |-> << >>]

LEMMA FormatKeeps ==
    ASSUME NEW rec, NEW r \in Halfway(rec), NEW style \in {"plain", "pretty"}
    PROVE  /\ Formatted(r, style) \in Halfway(rec)
           /\ Formatted(r, style).excText \in Texts(rec)
<1> DEFINE b == r.attrs \cup {"message"}
           y == IF r.excText = << >> THEN Rendered(r.excInfo, style) ELSE r.excText
<1>1. b \in Grown(rec)
  BY DEF Halfway, Grown
<1>2. y \in Texts(rec) /\ y \in {<< >>} \cup Texts(rec)
  <2>1. r.excInfo = rec.excInfo /\ r.excText \in {<< >>} \cup Texts(rec)
    BY DEF Halfway
  <2> QED
    BY <2>1 DEF Texts
<1>3. Formatted(r, style) = [r EXCEPT !.attrs = b, !.excText = y]
  BY DEF Formatted
<1> HIDE DEF b, y
<1>4. [r EXCEPT !.attrs = b, !.excText = y] \in Halfway(rec)
  BY <1>1, <1>2 DEF Halfway
<1>5. [r EXCEPT !.attrs = b, !.excText = y].excText = y
  BY DEF Halfway
<1> QED
  BY <1>2, <1>3, <1>4, <1>5

LEMMA ConsoleKeeps ==
    ASSUME NEW rec, Traced(rec), NEW r \in Halfway(rec)
    PROVE  Console(r) \in Halfway(rec)
<1> DEFINE b == r.attrs \cup Bound \cup {"extras", "asctime"}
           z == IF "trace_id" \in r.attrs THEN r.trace ELSE "zeros"
           full == [r EXCEPT !.attrs = b, !.trace = z]
<1>1. b \in Grown(rec)
  BY DEF Halfway, Grown
<1>2. z \in Traces(rec)
  BY DEF Halfway, Grown, Traces, Traced
<1>3. Console(r) = Formatted(full, "pretty")
  BY DEF Console
<1> HIDE DEF b, z
<1>4. full \in Halfway(rec)
  BY <1>1, <1>2 DEF Halfway
<1> QED
  BY <1>3, <1>4, FormatKeeps

LEMMA QueueKeeps ==
    ASSUME NEW rec, NEW r \in Halfway(rec), r.excText \in Texts(rec)
    PROVE  Prepare(r) \in Kept(rec)
<1> DEFINE All == [attrs : Grown(rec), trace : Traces(rec), excInfo : {rec.excInfo, << >>},
                   excText : {<< >>} \cup Texts(rec), inMessage : {<< >>} \cup Texts(rec)]
           x == r.excText
           new == [r EXCEPT !.inMessage = x, !.excInfo = << >>, !.excText = << >>]
<1>1. r \in All
  BY DEF Halfway
<1>2. new \in All
  BY <1>1
<1>3. new.excInfo = << >> /\ new.excText = << >> /\ new.inMessage = x
  BY <1>1
<1>4. Prepare(r) = new
  BY DEF Prepare
<1> HIDE DEF new
<1>5. new \in Kept(rec)
  BY <1>2, <1>3 DEF Kept
<1> QED
  BY <1>4, <1>5

LEMMA HandleKeeps ==
    ASSUME NEW rec, Traced(rec), NEW path \in Path(rec), NEW h
    PROVE  Handle(path, h) \in Path(rec)
<1> DEFINE r == path.record
           new == Formatted(r, "plain")
<1>1. /\ r \in Halfway(rec) /\ path.copies \in Seq(Kept(rec))
      /\ path = [record |-> r, copies |-> path.copies]
  BY DEF Path
<1>2. /\ Console(r) \in Halfway(rec) /\ new \in Halfway(rec)
      /\ Prepare(new) \in Kept(rec)
  BY <1>1, ConsoleKeeps, FormatKeeps, QueueKeeps
<1>3. Append(path.copies, Prepare(new)) \in Seq(Kept(rec))
  BY <1>1, <1>2, AppendProperties
<1>4. \/ Handle(path, h) = [record |-> Console(r), copies |-> path.copies]
      \/ Handle(path, h) = [record |-> new, copies |-> Append(path.copies, Prepare(new))]
  BY <1>1 DEF Handle
<1> HIDE DEF r, new
<1> QED
  BY <1>1, <1>2, <1>3, <1>4 DEF Path

LEMMA TurnsKeep ==
    ASSUME NEW rec, Traced(rec),
           Start(rec) \in Path(rec), NEW hs, Len(hs) \in Nat
    PROVE  Turns(hs, rec)[Len(hs)] \in Path(rec)
<1> DEFINE n == Len(hs)
           S == Path(rec)
           base == Start(rec)
           step == [i \in 1..n |-> [a \in S |-> Handle(a, hs[i])]]
<1>1. step \in [1..n -> [S -> S]]
  BY HandleKeeps
<1>2. PICK f \in [0..n -> S] : f[0] = base /\ \A i \in 1..n : f[i] = step[i][f[i - 1]]
  <2>1. base \in S /\ n \in Nat /\ step \in [1..n -> [S -> S]]
    BY <1>1
  <2> HIDE DEF step, S, n, base
  <2> QED
    BY <2>1, RecursionExists
<1>3. \A i \in 1..n : i - 1 \in 0..n /\ f[i - 1] \in S
  <2>1. \A i \in 1..n : i - 1 \in 0..n
    OBVIOUS
  <2> HIDE DEF S
  <2> QED
    BY <2>1
<1>4. \A i \in 1..n : f[i] = Handle(f[i - 1], hs[i])
  BY <1>2, <1>3
<1>5. f = [i \in 0..n |-> IF i = 0 THEN base ELSE Handle(f[i - 1], hs[i])]
  <2>1. \A i \in 0..n : i = 0 \/ i \in 1..n
    OBVIOUS
  <2> HIDE DEF S, base, n
  <2> QED
    BY <1>2, <1>4, <2>1
<1> DEFINE path == Turns(hs, rec)
<1>6. path = [i \in 0..n |-> IF i = 0 THEN base ELSE Handle(path[i - 1], hs[i])]
  BY <1>5 DEF Turns, Start
<1> HIDE DEF path
<1>7. path[0] = base /\ \A i \in 1..n : path[i] = Handle(path[i - 1], hs[i])
  <2>1. 0 \in 0..n /\ \A i \in 1..n : i \in 0..n /\ i # 0
    OBVIOUS
  <2> HIDE DEF base, n
  <2> QED
    BY <1>6, <2>1
<1>8. path[n] = f[n] /\ n \in 0..n
  <2>1. path[0] = f[0] /\ \A i \in 1..n : path[i - 1] = f[i - 1] => path[i] = f[i]
    BY <1>2, <1>4, <1>7
  <2>2. n \in Nat /\ n \in 0..n
    OBVIOUS
  <2> HIDE DEF n
  <2>3. \A i \in 0..n : path[i] = f[i]
    BY <2>1, <2>2, SameByRecursion
  <2> QED
    BY <2>2, <2>3
<1>9. path[n] \in S
  <2> HIDE DEF S, n
  <2> QED
    BY <1>8
<1> QED
  BY <1>9 DEF path
(* What a record that is logged looks like, and that it is on its way      *)
(* before any handler had its turn.                                        *)
LEMMA LoggedFacts ==
    ASSUME NEW rec \in Logged
    PROVE  /\ Traced(rec)
           /\ rec.attrs \subseteq {"type", "function", "user"} \cup Bound
           /\ rec.excInfo \in {<< >>, <<1, 2>>}
           /\ Start(rec) \in Path(rec)
<1>1. PICK fields \in SUBSET ({"type", "function", "user"} \cup Bound),
           trace \in {"own", "none"}, frames \in {<< >>, <<1, 2>>} :
         /\ rec = LogRecord(fields, trace, frames)
         /\ fields = {} \/ Bound \subseteq fields
  <2>1. CASE \E fields \in SUBSET {"type", "function", "user"}, frames \in {<< >>, <<1, 2>>} :
                rec = LogRecord(Process(fields), "own", frames)
    BY <2>1 DEF Process
  <2>2. CASE \E frames \in {<< >>, <<1, 2>>} : rec = LogRecord({}, "none", frames)
    BY <2>2
  <2> QED
    BY <2>1, <2>2 DEF Logged
<1>2. rec = [attrs |-> fields, trace |-> trace, excInfo |-> frames, excText |-> << >>,
             inMessage |-> << >>]
  BY <1>1 DEF LogRecord
<1>3. "trace_id" \in Bound
  BY DEF Bound
<1>4. rec.attrs = fields /\ rec.excInfo = frames /\ rec.trace = trace
  BY <1>2
<1>5. rec \in Halfway(rec)
  <2>1. fields \in Grown(rec) /\ trace \in Traces(rec)
    BY <1>4 DEF Grown, Traces
  <2> QED
    BY <1>2, <1>4, <2>1 DEF Halfway
<1>6. << >> \in Seq(Kept(rec))
  OBVIOUS
<1> QED
  BY <1>1, <1>3, <1>4, <1>5, <1>6 DEF Path, Start, Traced

(* Each copy that a queue gets says the same of its record.                *)
LEMMA CopyAgrees ==
    ASSUME NEW rec \in Logged, NEW copy \in Kept(rec)
    PROVE  LET line == JSONLine(copy)
               wire == Wire(copy)
               frames == [i \in DOMAIN line.tracebacks |-> line.tracebacks[i].frames]
           IN  /\ frames = IF rec.excInfo = << >> THEN << >> ELSE <<rec.excInfo>>
               /\ wire.tracebacks = line.tracebacks
               /\ wire.trace = line.trace
               /\ rec.attrs # {} => line.trace = rec.trace
               /\ rec.attrs \ {"function"} \subseteq line.fields
<1> DEFINE line == JSONLine(copy)
           frames == [i \in DOMAIN copy.inMessage |-> copy.inMessage[i].frames]
<1>1. /\ rec.attrs \subseteq copy.attrs /\ copy.trace \in Traces(rec) /\ copy.excInfo = << >>
      /\ copy.inMessage \in Texts(rec)
  BY DEF Kept, Grown
<1>2. copy.inMessage \in {<< >>} \/ \E t : copy.inMessage = <<t>>
  BY <1>1 DEF Texts, Rendered
<1>3. line.tracebacks = copy.inMessage
  <2>1. Rendered(copy.excInfo, "structured") = << >>
    BY <1>1 DEF Rendered
  <2>2. copy.inMessage \o << >> = copy.inMessage
    <3>1. << >> \o << >> = << >> /\ \A t : <<t>> \o << >> = <<t>>
      OBVIOUS
    <3> QED
      BY <1>2, <3>1
  <2> QED
    BY <2>1, <2>2 DEF JSONLine
<1>4. frames = IF rec.excInfo = << >> THEN << >> ELSE <<rec.excInfo>>
  <2>1. CASE rec.excInfo = << >>
    <3>1. copy.inMessage = << >>
      BY <1>1, <2>1 DEF Texts, Rendered
    <3>2. DOMAIN << >> = {} /\ Len(<< >>) = 0
      OBVIOUS
    <3>3. frames = << >>
      BY <3>1, <3>2
    <3> QED
      BY <2>1, <3>3
  <2>2. CASE rec.excInfo # << >>
    <3>1. PICK style : copy.inMessage = <<[style |-> style, frames |-> rec.excInfo]>>
      BY <1>1, <2>2 DEF Texts, Rendered
    <3>2. DOMAIN copy.inMessage = 1..1 /\ copy.inMessage[1].frames = rec.excInfo
      BY <3>1
    <3>3. frames = [i \in 1..1 |-> rec.excInfo]
      BY <3>2
    <3>4. <<rec.excInfo>> = [i \in 1..1 |-> rec.excInfo]
      OBVIOUS
    <3> QED
      BY <2>2, <3>3, <3>4
  <2> QED
    BY <2>1, <2>2
<1>5. /\ Wire(copy).tracebacks = copy.inMessage /\ Wire(copy).trace = copy.trace
      /\ line.trace = copy.trace
  BY DEF Wire, JSONLine
<1>6. rec.attrs # {} => copy.trace = rec.trace
  BY <1>1 DEF Traces
<1>7. rec.attrs \ {"function"} \subseteq line.fields
  <2> SUFFICES ASSUME NEW x \in rec.attrs, x # "function"
               PROVE  x \in line.fields
    OBVIOUS
  <2>1. x \in {"type", "user"} \cup Bound /\ x \in copy.attrs
    BY <1>1, LoggedFacts
  <2>2. line.fields = (copy.attrs \cap (Promoted \cup {"otel_status"} \cup Bound))
                      \cup (copy.attrs \ Payload(copy))
    BY DEF JSONLine
  <2>3. "type" \in Promoted /\ "user" \notin Payload(copy)
    BY <1>1 DEF Promoted, Payload
  <2> QED
    BY <2>1, <2>2, <2>3
<1> QED
  BY <1>3, <1>4, <1>5, <1>6, <1>7

(* Every sink behind every queue says the same of a record, its traceback  *)
(* once and whole, its own trace and all its fields, however many handlers *)
(* of whichever factories are on the logger and in whatever order they are *)
(* attached (ConsoleFormatter, QueueHandler.prepare, JSONFormatter).       *)
THEOREM SinksSayTheSame == SharedSpec => []SinksAgree
<1>1. SharedInv => SinksAgree
  <2> SUFFICES ASSUME SharedInv, NEW n \in Names, NEW rec \in Logged,
                      NEW copy \in Copies(HandlersOf(n), rec)
               PROVE  copy \in Kept(rec)
    BY CopyAgrees DEF SinksAgree
  <2> DEFINE hs == HandlersOf(n)
  <2>1. attached[n] \in Seq(Handlers)
    BY DEF SharedInv, SharedTypeOK
  <2>2. Len(hs) \in Nat
    <3>1. DOMAIN attached[n] = 1..Len(attached[n]) /\ Len(attached[n]) \in Nat
      BY <2>1
    <3>2. DOMAIN hs = 1..Len(attached[n])
      BY <3>1 DEF HandlersOf
    <3>3. hs \in Seq({hs[i] : i \in DOMAIN hs})
      <4>1. hs = [i \in 1..Len(attached[n]) |-> attached[n][i][2]]
        BY <3>1 DEF HandlersOf
      <4> QED
        BY <3>1, <3>2, <4>1
    <3> HIDE DEF hs
    <3> QED
      BY <3>3
  <2> HIDE DEF hs
  <2>3. Turns(hs, rec)[Len(hs)] \in Path(rec)
    BY <2>2, LoggedFacts, TurnsKeep
  <2>4. Turns(hs, rec)[Len(hs)].copies \in Seq(Kept(rec))
    BY <2>3 DEF Path
  <2>5. copy \in ToSet(Turns(hs, rec)[Len(hs)].copies)
    BY DEF Copies, hs
  <2> QED
    BY <2>4, <2>5 DEF ToSet
<1> QED
  BY <1>1, SharedInvariance, PTL
=============================================================================
