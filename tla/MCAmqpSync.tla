----------------------------- MODULE MCAmqpSync -----------------------------
(* AmqpSync on a small instance: two emitters and two users.               *)
EXTENDS AmqpSync

CONSTANTS t1, t2, u1, u2

(* One emitter hands over two records, the other one.                      *)
MCMaxEmits == [t \in {t1, t2} |-> IF t = t1 THEN 2 ELSE 1]
=============================================================================
