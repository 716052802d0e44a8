---------------------------- MODULE FifoDelivery ----------------------------
(***************************************************************************)
(* What the deferred half of a factory promises, whatever its threads do:  *)
(* items are received in the order in which they were accepted, none twice *)
(* and none out of thin air; an end marker is accepted at most once; after *)
(* the marker was received, or after the receiver failed, nothing more is  *)
(* received.                                                               *)
(***************************************************************************)
EXTENDS Naturals, Sequences

CONSTANTS Payloads, Marker

VARIABLES accepted, received, open

fifoVars == <<accepted, received, open>>

FifoInit ==
    /\ accepted = << >>
    /\ received = << >>
    /\ open \in BOOLEAN

(* An item is accepted; the end marker only if it was not accepted before. *)
Accept(m) ==
    /\ m = Marker => \A i \in 1..Len(accepted) : accepted[i] # Marker
    /\ accepted' = Append(accepted, m)
    /\ UNCHANGED <<received, open>>

(* The receiver takes the oldest item it has not seen.                     *)
Receive ==
    /\ open
    /\ Len(received) < Len(accepted)
    /\ LET m == accepted[Len(received) + 1]
       IN  /\ received' = Append(received, m)
           /\ open' = (m # Marker)
    /\ UNCHANGED accepted

(* The receiver fails and never comes back.                                *)
Fail ==
    /\ open
    /\ open' = FALSE
    /\ UNCHANGED <<accepted, received>>

FifoNext == \/ \E m \in Payloads \cup {Marker} : Accept(m)
            \/ Receive
            \/ Fail

FifoSpec == FifoInit /\ [][FifoNext]_fifoVars
=============================================================================
