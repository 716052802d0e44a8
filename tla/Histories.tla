------------------------------ MODULE Histories ------------------------------
(***************************************************************************)
(* What the histories of a component say of one another.                   *)
(***************************************************************************)
EXTENDS Integers, Sequences

(* The items of out are items of in, in its order, and none comes twice.   *)
PartOf(out, in) ==
    \A j \in 1..Len(out) :
        \E b \in 1..Len(in) :
            /\ in[b] = out[j]
            /\ \A i \in 1..(j - 1) : out[i] # out[j] /\ \E a \in 1..(b - 1) : in[a] = out[i]
==============================================================================
