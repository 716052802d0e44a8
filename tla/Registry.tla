------------------------------ MODULE Registry ------------------------------
(***************************************************************************)
(* The registry of active factories: a list guarded by a lock, and an      *)
(* attribute of logging.Logger that is read and written outside of it.     *)
(* Factories are made (publish) and shut down (withdraw) by threads of     *)
(* their own; each publishes once and withdraws at most once. Each step    *)
(* below is one access to the list or to the attribute.                    *)
(***************************************************************************)
EXTENDS Integers, SequencesExt

CONSTANTS Factories, None

ASSUME NoneAssumption == None \notin Factories

VARIABLES
    stack,    \* _STACK
    attr,     \* logging.Logger._logger_factory, None when it is not set
    at,       \* at[f]: how far f is with publish() and withdraw()
    overlap   \* history: two of these calls have overlapped

registryVars == <<stack, attr, at, overlap>>

Stages == {"new", "appended", "live", "removed", "matched", "deleted", "gone"}

(* No call of publish or withdraw is under way for f.                      *)
Quiet(f) == at[f] \in {"new", "live", "gone"}

RegistryInit ==
    /\ stack = << >>
    /\ attr = None
    /\ at = [f \in Factories |-> "new"]
    /\ overlap = FALSE

Moves(f, stage) == at' = [at EXCEPT ![f] = stage]
Begins(f) == overlap' = (overlap \/ \E g \in Factories : ~Quiet(g))

(* publish: with _LOCK: _STACK.append(factory)                             *)
PublishAppend(f) ==
    /\ at[f] = "new"
    /\ stack' = Append(stack, f)
    /\ Moves(f, "appended")
    /\ Begins(f)
    /\ UNCHANGED attr

(* publish: setattr(logging.Logger, _ATTR_NAME, factory)                   *)
PublishSet(f) ==
    /\ at[f] = "appended"
    /\ attr' = f
    /\ Moves(f, "live")
    /\ UNCHANGED <<stack, overlap>>

(* Withdrawing takes the newest entry, whichever it is.                    *)
Bug_WithdrawRemove(f) ==
    /\ at[f] = "live"
    /\ stack # << >>
    /\ stack' = SubSeq(stack, 1, Len(stack) - 1)
    /\ Moves(f, "removed")
    /\ Begins(f)
    /\ UNCHANGED attr

(* withdraw: with _LOCK: _STACK.remove(factory)                            *)
WithdrawRemove(f) ==
    /\ at[f] = "live"
    /\ \E i \in 1..Len(stack) : /\ stack[i] = f
                                /\ stack' = RemoveAt(stack, i)
    /\ Moves(f, "removed")
    /\ Begins(f)
    /\ UNCHANGED attr

(* The attribute is left alone once other factories are published.         *)
Bug_WithdrawCompare(f) ==
    /\ at[f] = "removed"
    /\ Moves(f, IF attr = f /\ stack = << >> THEN "matched" ELSE "gone")
    /\ UNCHANGED <<stack, attr, overlap>>

(* withdraw: current = getattr(...); if current is factory                 *)
WithdrawCompare(f) ==
    /\ at[f] = "removed"
    /\ Moves(f, IF attr = f THEN "matched" ELSE "gone")
    /\ UNCHANGED <<stack, attr, overlap>>

(* withdraw: delattr(...), which is silent when the attribute is not set.  *)
(* Whatever it holds by now is deleted.                                    *)
WithdrawDelete(f) ==
    /\ at[f] = "matched"
    /\ attr' = None
    /\ Moves(f, "deleted")
    /\ UNCHANGED <<stack, overlap>>

(* The fallback is the oldest factory.                                     *)
Bug_WithdrawRestore(f) ==
    /\ at[f] = "deleted"
    /\ attr' = IF stack # << >> THEN stack[1] ELSE attr
    /\ Moves(f, "gone")
    /\ UNCHANGED <<stack, overlap>>

(* The fallback is forgotten.                                              *)
Bug_NoRestore(f) ==
    /\ at[f] = "deleted"
    /\ Moves(f, "gone")
    /\ UNCHANGED <<stack, attr, overlap>>

(* withdraw: with _LOCK: if _STACK: setattr(..., _STACK[-1])               *)
WithdrawRestore(f) ==
    /\ at[f] = "deleted"
    /\ attr' = IF stack # << >> THEN stack[Len(stack)] ELSE attr
    /\ Moves(f, "gone")
    /\ UNCHANGED <<stack, overlap>>

(* active(): what a decorator finds.                                       *)
Active == attr

Finishes(f) == \/ PublishSet(f)
               \/ WithdrawCompare(f)
               \/ WithdrawDelete(f)
               \/ WithdrawRestore(f)

RegistryNext == \E f \in Factories : \/ PublishAppend(f)
                                     \/ WithdrawRemove(f)
                                     \/ Finishes(f)

RegistrySpec == RegistryInit /\ [][RegistryNext]_registryVars
-----------------------------------------------------------------------------
InStack(f) == \E i \in 1..Len(stack) : stack[i] = f

(* Type correctness; and the list holds exactly the factories between      *)
(* their append and their removal, each once.                              *)
TypeOK ==
    /\ stack \in Seq(Factories)
    /\ attr \in Factories \cup {None}
    /\ at \in [Factories -> Stages]
    /\ overlap \in BOOLEAN
    /\ \A f \in Factories : InStack(f) <=> at[f] \in {"appended", "live"}
    /\ \A i, j \in 1..Len(stack) : stack[i] = stack[j] => i = j

(* active() never returns a factory whose withdraw() has returned, however *)
(* publish and withdraw of several factories interleave.                   *)
ActiveIsNotGone == \A f \in Factories : Active = f => at[f] # "gone"

(* While factories are published, active() is None only inside the window  *)
(* of a call that will set it: no interleaving leaves decorated functions  *)
(* unlogged for good.                                                      *)
NoneOnlyInWindow ==
    Active = None /\ stack # << >> =>
        \E f \in Factories : at[f] \in {"appended", "deleted"}

(* If the calls never overlapped, active() is the most recently published  *)
(* factory that is still published (registry.active, registry.withdraw).   *)
NewestWhenSequential ==
    ~overlap /\ (\A f \in Factories : Quiet(f)) =>
        Active = IF stack = << >> THEN None ELSE stack[Len(stack)]
=============================================================================
