---------------------------- MODULE MCLogPipeline ----------------------------
(* LogPipeline on small instances.                                           *)
EXTENDS LogPipeline

CONSTANTS p1, p2, s1, s2

Cfg(console, sinks, capacity, overflow, failOpen) ==
    [console |-> console, sinks |-> sinks, capacity |-> capacity,
     overflow |-> overflow, failOpen |-> failOpen]

(* The console-only pipeline, a queue of one slot with a sink that cannot  *)
(* and one that may raise, a queue of two slots, and a capacity of 0.      *)
MCConfigs ==
    {Cfg(TRUE,  << >>,              1, "drop_oldest", TRUE),
     Cfg(TRUE,  <<"file">>,         1, "drop_newest", TRUE),
     Cfg(FALSE, <<"file", "amqp">>, 1, "block",       FALSE),
     Cfg(FALSE, <<"file">>,         2, "drop_oldest", TRUE),
     Cfg(FALSE, <<"file">>,         0, "drop_newest", TRUE)}
(* One thread logs twice, the other once.                                  *)
MCMaxLogs == [t \in {p1, p2} |-> IF t = p1 THEN 2 ELSE 1]
==============================================================================
