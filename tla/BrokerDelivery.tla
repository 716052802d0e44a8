---------------------------- MODULE BrokerDelivery ----------------------------
(***************************************************************************)
(* What the two AMQP handlers promise, whatever their threads, their loop  *)
(* and the broker do.  The records are dealt with in the order in which    *)
(* they were accepted, a stretch at a time: some go to the broker, in that *)
(* order, and the others are lost.  A handler that retries loses none;     *)
(* instead it may go back to the first one it has not confirmed.           *)
(***************************************************************************)
EXTENDS Integers, Sequences

CONSTANT Records

VARIABLES
    retries,    \* a batch that failed is sent again
    accepted,   \* the records accepted so far
    sent,       \* what the broker has received
    lost,       \* the records lost
    passed,     \* how many of accepted have been dealt with
    confirmed   \* how many of those will never be dealt with again

deliveryVars == <<retries, accepted, sent, lost, passed, confirmed>>

DeliveryInit ==
    /\ retries \in BOOLEAN
    /\ accepted = << >> /\ sent = << >> /\ lost = {}
    /\ passed = 0 /\ confirmed = 0

(* No record is accepted twice.                                            *)
Accept(r) ==
    /\ \A i \in 1..Len(accepted) : accepted[i] # r
    /\ accepted' = Append(accepted, r)
    /\ UNCHANGED <<retries, sent, lost, passed, confirmed>>

(* The records up to the n-th are dealt with: those after the i-th, up to  *)
(* the j-th, are sent, and the others are lost.                            *)
Settle(i, j, n) ==
    /\ passed <= i /\ i <= j /\ j <= n /\ n <= Len(accepted)
    /\ retries => i = passed /\ j = n
    /\ sent' = sent \o SubSeq(accepted, i + 1, j)
    /\ lost' = lost \cup {accepted[m] : m \in ((passed + 1)..i) \cup ((j + 1)..n)}
    /\ passed' = n
    /\ confirmed' \in {confirmed, n}
    /\ UNCHANGED <<retries, accepted>>

Confirm ==
    /\ confirmed' = passed
    /\ UNCHANGED <<retries, accepted, sent, lost, passed>>

GoBack ==
    /\ retries
    /\ passed' = confirmed
    /\ UNCHANGED <<retries, accepted, sent, lost, confirmed>>

DeliveryNext ==
    \/ \E r \in Records : Accept(r)
    \/ \E i, j, n \in Nat : Settle(i, j, n)
    \/ Confirm
    \/ GoBack

DeliverySpec == DeliveryInit /\ [][DeliveryNext]_deliveryVars
===============================================================================
