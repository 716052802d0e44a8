--------------------------- MODULE RegistryProofs ---------------------------
(***************************************************************************)
(* The registry's safety for any set of factories: none that is gone is    *)
(* ever active, no interleaving leaves published factories without an      *)
(* active one, and calls that do not overlap keep to last-in, first-out.   *)
(***************************************************************************)
EXTENDS Registry, SeqLemmas

Top == IF stack = << >> THEN None ELSE stack[Len(stack)]

(* The attribute names a factory that is in the list, or one whose own     *)
(* withdraw() will still see it there and delete it.                       *)
ActiveInv ==
    \A f \in Factories : attr = f => at[f] \in {"appended", "live", "removed", "matched"}

(* If no calls have overlapped, at most one factory is between two steps,  *)
(* and the attribute is what that step of that factory leaves it to be.    *)
SequentialInv ==
    ~overlap =>
        /\ \A f, g \in Factories : ~Quiet(f) /\ ~Quiet(g) => f = g
        /\ (\A f \in Factories : Quiet(f)) => attr = Top
        /\ \A f \in Factories :
              /\ at[f] = "appended" => Top = f
              /\ at[f] = "removed" => attr \in {f, Top}
              /\ at[f] = "deleted" => attr = None

RegistryInv == TypeOK /\ ActiveInv /\ NoneOnlyInWindow /\ SequentialInv

LEMMA TypeOKInit == RegistryInit => TypeOK
<1> SUFFICES ASSUME RegistryInit PROVE TypeOK
  OBVIOUS
<1>1. stack \in Seq(Factories) /\ Len(stack) = 0
  BY DEF RegistryInit
<1>2. \A f \in Factories : ~InStack(f) /\ at[f] = "new"
  BY <1>1 DEF RegistryInit, InStack
<1>3. at \in [Factories -> Stages] /\ attr \in Factories \cup {None} /\ overlap \in BOOLEAN
  BY DEF RegistryInit, Stages
<1>4. \A f \in Factories : InStack(f) <=> at[f] \in {"appended", "live"}
  BY <1>2
<1>5. \A i, j \in 1..Len(stack) : stack[i] = stack[j] => i = j
  BY <1>1
<1> QED
  BY <1>1, <1>3, <1>4, <1>5 DEF TypeOK

(* Publishing: the new factory is the only new entry of the list.          *)
LEMMA AppendType ==
    ASSUME TypeOK, NEW f \in Factories, PublishAppend(f)
    PROVE  TypeOK'
<1> USE DEF TypeOK, PublishAppend, Moves, Begins
<1>1. /\ stack' \in Seq(Factories)
      /\ Len(stack') = Len(stack) + 1
      /\ \A i \in 1..Len(stack) : stack'[i] = stack[i]
      /\ stack'[Len(stack) + 1] = f
  BY AppendProperties
<1>2. ~InStack(f)
  OBVIOUS
<1>3. ASSUME NEW g \in Factories
      PROVE  InStack(g)' <=> at'[g] \in {"appended", "live"}
  <2>1. CASE g = f
    <3>1. at'[g] = "appended"
      BY <2>1
    <3>2. Len(stack) + 1 \in 1..Len(stack')
      BY <1>1
    <3> QED
      BY <1>1, <2>1, <3>1, <3>2 DEF InStack
  <2>2. CASE g # f
    <3>1. at'[g] = at[g]
      BY <2>2
    <3>2. InStack(g)' <=> InStack(g)
      BY <1>1, <2>2 DEF InStack
    <3> QED
      BY <3>1, <3>2
  <2> QED
    BY <2>1, <2>2
<1>4. \A i, j \in 1..Len(stack') : stack'[i] = stack'[j] => i = j
  BY <1>1, <1>2 DEF InStack
<1> QED
  BY <1>1, <1>3, <1>4 DEF Stages

(* Withdrawing: the factory was in the list once, and no longer is.        *)
LEMMA RemoveType ==
    ASSUME TypeOK, NEW f \in Factories, WithdrawRemove(f)
    PROVE  TypeOK'
<1> USE DEF TypeOK
<1>1. PICK i \in 1..Len(stack) : stack[i] = f /\ stack' = RemoveAt(stack, i)
  BY DEF WithdrawRemove
<1>2. /\ stack' \in Seq(Factories)
      /\ Len(stack') = Len(stack) - 1
      /\ \A j \in 1..(Len(stack) - 1) :
            stack'[j] = IF j < i THEN stack[j] ELSE stack[j + 1]
  BY <1>1, RemoveAtFacts
<1>3. Len(stack) \in Nat /\ i \in Int /\ 1 <= i /\ i <= Len(stack)
  OBVIOUS
<1>4. at' = [at EXCEPT ![f] = "removed"] /\ overlap' \in BOOLEAN /\ attr' = attr
  BY DEF WithdrawRemove, Moves, Begins
<1>5. ASSUME NEW g \in Factories
      PROVE  InStack(g)' <=> at'[g] \in {"appended", "live"}
  <2>1. CASE g = f
    <3>1. ~InStack(f)'
      BY <1>1, <1>2, <1>3 DEF InStack
    <3> QED
      BY <1>4, <2>1, <3>1
  <2>2. CASE g # f
    <3>1. ASSUME InStack(g) PROVE InStack(g)'
      <4>1. PICK k \in 1..Len(stack) : stack[k] = g
        BY <3>1 DEF InStack
      <4>2. k # i
        BY <1>1, <2>2, <4>1
      <4>3. CASE k < i
        <5>1. k \in 1..(Len(stack) - 1) /\ stack'[k] = g
          BY <1>2, <1>3, <4>1, <4>3
        <5> QED
          BY <1>2, <5>1 DEF InStack
      <4>4. CASE k > i
        <5>1. k - 1 \in 1..(Len(stack) - 1) /\ ~(k - 1 < i) /\ (k - 1) + 1 = k
          BY <1>3, <4>4
        <5>2. stack'[k - 1] = g
          BY <1>2, <4>1, <5>1
        <5> QED
          BY <1>2, <5>1, <5>2 DEF InStack
      <4> QED
        BY <1>3, <4>2, <4>3, <4>4
    <3>2. ASSUME InStack(g)' PROVE InStack(g)
      BY <1>2, <1>3, <3>2 DEF InStack
    <3> QED
      BY <1>4, <2>2, <3>1, <3>2
  <2> QED
    BY <2>1, <2>2
<1>6. \A j, k \in 1..Len(stack') : stack'[j] = stack'[k] => j = k
  <2> SUFFICES ASSUME NEW j \in 1..Len(stack'), NEW k \in 1..Len(stack'),
                      stack'[j] = stack'[k]
               PROVE  j = k
    OBVIOUS
  <2> DEFINE Old(n) == IF n < i THEN n ELSE n + 1
  <2>1. /\ Old(j) \in 1..Len(stack) /\ stack'[j] = stack[Old(j)]
        /\ Old(k) \in 1..Len(stack) /\ stack'[k] = stack[Old(k)]
    BY <1>2, <1>3
  <2>2. Old(j) = Old(k)
    BY <2>1
  <2> QED
    BY <1>2, <1>3, <2>2
<1> QED
  BY <1>2, <1>4, <1>5, <1>6 DEF Stages

LEMMA TypeOKStep == TypeOK /\ [RegistryNext]_registryVars => TypeOK'
<1> SUFFICES ASSUME TypeOK, [RegistryNext]_registryVars PROVE TypeOK'
  OBVIOUS
<1>1. CASE UNCHANGED registryVars
  BY <1>1 DEF TypeOK, InStack, registryVars
<1>2. ASSUME NEW f \in Factories, PublishSet(f) PROVE TypeOK'
  BY <1>2 DEF TypeOK, InStack, PublishSet, Moves, Stages
<1>3. ASSUME NEW f \in Factories, WithdrawCompare(f) PROVE TypeOK'
  BY <1>3 DEF TypeOK, InStack, WithdrawCompare, Moves, Stages
<1>4. ASSUME NEW f \in Factories, WithdrawDelete(f) PROVE TypeOK'
  BY <1>4 DEF TypeOK, InStack, WithdrawDelete, Moves, Stages
<1>5. ASSUME NEW f \in Factories, WithdrawRestore(f) PROVE TypeOK'
  <2>1. attr' \in Factories \cup {None}
    BY <1>5 DEF TypeOK, WithdrawRestore
  <2> QED
    BY <1>5, <2>1 DEF TypeOK, InStack, WithdrawRestore, Moves, Stages
<1> QED
  BY <1>1, <1>2, <1>3, <1>4, <1>5, AppendType, RemoveType DEF RegistryNext, Finishes

LEMMA ActiveStep ==
    TypeOK /\ ActiveInv /\ [RegistryNext]_registryVars => ActiveInv'
<1> SUFFICES ASSUME TypeOK, ActiveInv, [RegistryNext]_registryVars PROVE ActiveInv'
  OBVIOUS
<1> USE DEF ActiveInv, TypeOK
<1>1. CASE UNCHANGED registryVars
  BY <1>1 DEF registryVars
<1>2. ASSUME NEW f \in Factories, PublishAppend(f) PROVE ActiveInv'
  BY <1>2 DEF PublishAppend, Moves
<1>3. ASSUME NEW f \in Factories, PublishSet(f) PROVE ActiveInv'
  BY <1>3 DEF PublishSet, Moves
<1>4. ASSUME NEW f \in Factories, WithdrawRemove(f) PROVE ActiveInv'
  BY <1>4 DEF WithdrawRemove, Moves
<1>5. ASSUME NEW f \in Factories, WithdrawCompare(f) PROVE ActiveInv'
  BY <1>5 DEF WithdrawCompare, Moves
<1>6. ASSUME NEW f \in Factories, WithdrawDelete(f) PROVE ActiveInv'
  BY <1>6, NoneAssumption DEF WithdrawDelete, Moves
<1>7. ASSUME NEW f \in Factories, WithdrawRestore(f) PROVE ActiveInv'
  <2>1. CASE stack = << >>
    BY <1>7, <2>1 DEF WithdrawRestore, Moves
  <2>2. CASE stack # << >>
    <3>1. Len(stack) \in 1..Len(stack) /\ attr' = stack[Len(stack)]
      BY <1>7, <2>2 DEF WithdrawRestore
    <3>2. attr' \in Factories /\ at[attr'] \in {"appended", "live"}
      BY <3>1 DEF InStack
    <3> QED
      BY <1>7, <3>2 DEF WithdrawRestore, Moves
  <2> QED
    BY <2>1, <2>2
<1> QED
  BY <1>1, <1>2, <1>3, <1>4, <1>5, <1>6, <1>7 DEF RegistryNext, Finishes

LEMMA WindowStep ==
    TypeOK /\ NoneOnlyInWindow /\ [RegistryNext]_registryVars => NoneOnlyInWindow'
<1> SUFFICES ASSUME TypeOK, NoneOnlyInWindow, [RegistryNext]_registryVars
             PROVE  NoneOnlyInWindow'
  OBVIOUS
<1> USE DEF NoneOnlyInWindow, Active, TypeOK
<1>1. CASE UNCHANGED registryVars
  BY <1>1 DEF registryVars
<1>2. ASSUME NEW f \in Factories, PublishAppend(f) PROVE NoneOnlyInWindow'
  BY <1>2 DEF PublishAppend, Moves
<1>3. ASSUME NEW f \in Factories, PublishSet(f) PROVE NoneOnlyInWindow'
  BY <1>3, NoneAssumption DEF PublishSet, Moves
<1>4. ASSUME NEW f \in Factories, WithdrawRemove(f) PROVE NoneOnlyInWindow'
  <2>1. stack # << >>
    BY <1>4 DEF WithdrawRemove
  <2> QED
    BY <1>4, <2>1 DEF WithdrawRemove, Moves
<1>5. ASSUME NEW f \in Factories, WithdrawCompare(f) PROVE NoneOnlyInWindow'
  BY <1>5 DEF WithdrawCompare, Moves
<1>6. ASSUME NEW f \in Factories, WithdrawDelete(f) PROVE NoneOnlyInWindow'
  BY <1>6 DEF WithdrawDelete, Moves
<1>7. ASSUME NEW f \in Factories, WithdrawRestore(f) PROVE NoneOnlyInWindow'
  <2>1. CASE stack = << >>
    BY <1>7, <2>1 DEF WithdrawRestore
  <2>2. CASE stack # << >>
    <3>1. stack[Len(stack)] \in Factories
      BY <2>2
    <3> QED
      BY <1>7, <2>2, <3>1, NoneAssumption DEF WithdrawRestore
  <2> QED
    BY <2>1, <2>2
<1> QED
  BY <1>1, <1>2, <1>3, <1>4, <1>5, <1>6, <1>7 DEF RegistryNext, Finishes

(* A call that begins without overlapping finds every factory quiet.       *)
LEMMA SequentialStep ==
    RegistryInv /\ [RegistryNext]_registryVars => SequentialInv'
<1> SUFFICES ASSUME RegistryInv, [RegistryNext]_registryVars, ~overlap' PROVE SequentialInv'
  BY DEF SequentialInv
<1> USE DEF RegistryInv, TypeOK
<1>1. CASE UNCHANGED registryVars
  BY <1>1 DEF registryVars, SequentialInv, Top, Quiet
<1>2. ASSUME NEW f \in Factories, PublishAppend(f) PROVE SequentialInv'
  <2>1. ~overlap /\ \A g \in Factories : Quiet(g)
    BY <1>2 DEF PublishAppend, Begins
  <2>2. at' = [at EXCEPT ![f] = "appended"] /\ attr' = attr
    BY <1>2 DEF PublishAppend, Moves
  <2>3. ~Quiet(f)' /\ \A g \in Factories \ {f} : Quiet(g)'
    BY <2>1, <2>2 DEF Quiet
  <2>4. Top' = f
    <3>1. stack' # << >> /\ Len(stack') = Len(stack) + 1 /\ stack'[Len(stack) + 1] = f
      BY <1>2, AppendProperties DEF PublishAppend
    <3> QED
      BY <3>1 DEF Top
  <2> QED
    BY <2>2, <2>3, <2>4 DEF SequentialInv, Quiet
<1>3. ASSUME NEW f \in Factories, Finishes(f)
      PROVE  ~overlap /\ \A g \in Factories \ {f} : Quiet(g) /\ Quiet(g)'
  <2>1. ~overlap /\ ~Quiet(f) /\ \A g \in Factories \ {f} : at'[g] = at[g]
    BY <1>3 DEF Finishes, PublishSet, WithdrawCompare, WithdrawDelete, WithdrawRestore,
                Moves, Quiet
  <2>2. \A g \in Factories \ {f} : Quiet(g)
    BY <2>1 DEF SequentialInv
  <2> QED
    BY <2>1, <2>2 DEF Quiet
<1>4. ASSUME NEW f \in Factories, PublishSet(f) PROVE SequentialInv'
  <2>1. at'[f] = "live" /\ attr' = f /\ at[f] = "appended" /\ stack' = stack
    BY <1>4 DEF PublishSet, Moves
  <2>2. Top' = f
    BY <1>3, <1>4, <2>1 DEF SequentialInv, Finishes, Top
  <2> QED
    BY <1>3, <1>4, <2>1, <2>2 DEF SequentialInv, Finishes, Quiet
<1>5. ASSUME NEW f \in Factories, WithdrawRemove(f) PROVE SequentialInv'
  <2>1. ~overlap /\ \A g \in Factories : Quiet(g)
    BY <1>5 DEF WithdrawRemove, Begins
  <2>2. at' = [at EXCEPT ![f] = "removed"] /\ attr' = attr
    BY <1>5 DEF WithdrawRemove, Moves
  <2>3. ~Quiet(f)' /\ \A g \in Factories \ {f} : Quiet(g)'
    BY <2>1, <2>2 DEF Quiet
  <2>4. attr = Top
    BY <2>1 DEF SequentialInv
  <2>5. attr \in {f, Top'}
    <3>1. PICK i \in 1..Len(stack) : stack[i] = f /\ stack' = RemoveAt(stack, i)
      BY <1>5 DEF WithdrawRemove
    <3>2. Len(stack) \in Nat /\ i \in Int /\ 1 <= i /\ i <= Len(stack) /\ stack # << >>
      OBVIOUS
    <3>3. CASE i = Len(stack)
      BY <2>4, <3>1, <3>2, <3>3 DEF Top
    <3>4. CASE i < Len(stack)
      <4>1. /\ stack' \in Seq(Factories)
            /\ Len(stack') = Len(stack) - 1
            /\ \A j \in 1..(Len(stack) - 1) :
                  stack'[j] = IF j < i THEN stack[j] ELSE stack[j + 1]
        BY <3>1, RemoveAtFacts
      <4>2. /\ Len(stack) - 1 \in 1..(Len(stack) - 1)
            /\ ~(Len(stack) - 1 < i)
            /\ (Len(stack) - 1) + 1 = Len(stack)
        BY <3>2, <3>4
      <4>3. stack'[Len(stack')] = stack[Len(stack)] /\ stack' # << >>
        BY <4>1, <4>2
      <4> QED
        BY <2>4, <3>2, <4>3 DEF Top
    <3> QED
      BY <3>2, <3>3, <3>4
  <2> QED
    BY <2>2, <2>3, <2>5 DEF SequentialInv, Quiet
<1>6. ASSUME NEW f \in Factories, WithdrawCompare(f) PROVE SequentialInv'
  <2>1. /\ at[f] = "removed" /\ attr' = attr /\ stack' = stack
        /\ at'[f] = IF attr = f THEN "matched" ELSE "gone"
    BY <1>6 DEF WithdrawCompare, Moves
  <2>2. attr \in {f, Top} /\ Top' = Top
    BY <1>3, <1>6, <2>1 DEF SequentialInv, Finishes, Top
  <2> QED
    BY <1>3, <1>6, <2>1, <2>2 DEF SequentialInv, Finishes, Quiet
<1>7. ASSUME NEW f \in Factories, WithdrawDelete(f) PROVE SequentialInv'
  <2>1. at'[f] = "deleted" /\ attr' = None
    BY <1>7 DEF WithdrawDelete, Moves
  <2> QED
    BY <1>3, <1>7, <2>1 DEF SequentialInv, Finishes, Quiet
<1>8. ASSUME NEW f \in Factories, WithdrawRestore(f) PROVE SequentialInv'
  <2>1. /\ at[f] = "deleted" /\ at'[f] = "gone" /\ stack' = stack
        /\ attr' = IF stack # << >> THEN stack[Len(stack)] ELSE attr
    BY <1>8 DEF WithdrawRestore, Moves
  <2>2. attr = None
    BY <1>3, <1>8, <2>1 DEF SequentialInv, Finishes
  <2>3. attr' = Top'
    BY <2>1, <2>2 DEF Top
  <2> QED
    BY <1>3, <1>8, <2>1, <2>3 DEF SequentialInv, Finishes, Quiet
<1> QED
  BY <1>1, <1>2, <1>4, <1>5, <1>6, <1>7, <1>8 DEF RegistryNext, Finishes

(* The invariant holds in every reachable state of the registry.           *)
THEOREM Invariance == RegistrySpec => []RegistryInv
<1>1. RegistryInit => RegistryInv
  <2>1. RegistryInit => NoneOnlyInWindow
    BY DEF RegistryInit, NoneOnlyInWindow
  <2>2. RegistryInit => ActiveInv /\ SequentialInv
    BY NoneAssumption DEF RegistryInit, ActiveInv, SequentialInv, Quiet, Top
  <2> QED
    BY <2>1, <2>2, TypeOKInit DEF RegistryInv
<1>2. RegistryInv /\ [RegistryNext]_registryVars => RegistryInv'
  BY TypeOKStep, ActiveStep, WindowStep, SequentialStep DEF RegistryInv
<1> QED
  BY <1>1, <1>2, PTL DEF RegistrySpec

(* Type correctness, and the list always holds exactly the factories       *)
(* between append and removal, each once (registry._STACK).                *)
THEOREM TypeCorrect == RegistrySpec => []TypeOK
<1>1. RegistryInv => TypeOK
  BY DEF RegistryInv
<1> QED
  BY <1>1, Invariance, PTL

(* A decorator never finds a factory whose withdraw() has returned         *)
(* (registry.withdraw compares, deletes and restores outside of the lock). *)
THEOREM NeverActiveWhenGone == RegistrySpec => []ActiveIsNotGone
<1>1. RegistryInv => ActiveIsNotGone
  BY DEF RegistryInv, ActiveInv, ActiveIsNotGone, Active
<1> QED
  BY <1>1, Invariance, PTL

(* No interleaving of publish and withdraw leaves published factories      *)
(* without an active one once the calls are over.                          *)
THEOREM ActiveOutsideWindows == RegistrySpec => []NoneOnlyInWindow
<1>1. RegistryInv => NoneOnlyInWindow
  BY DEF RegistryInv
<1> QED
  BY <1>1, Invariance, PTL

(* Calls that never overlap keep active() at the newest published factory. *)
THEOREM SequentialIsNewest == RegistrySpec => []NewestWhenSequential
<1>1. RegistryInv => NewestWhenSequential
  BY DEF RegistryInv, SequentialInv, NewestWhenSequential, Active, Top
<1> QED
  BY <1>1, Invariance, PTL
=============================================================================
