----------------------------- MODULE MCAmqpAsync -----------------------------
(* AmqpConnect on a small instance: one emitter, as the listener thread is,*)
(* with two records, and two users.                                        *)
EXTENDS AmqpConnect

CONSTANTS t1, u1, u2

MCMaxEmits == [t \in {t1} |-> 2]
==============================================================================
