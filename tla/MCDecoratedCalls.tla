-------------------------- MODULE MCDecoratedCalls --------------------------
(***************************************************************************)
(* The main task, a second task and a pool thread; two decorated calls,    *)
(* nested or one after the other or on two workers, of functions or        *)
(* methods; three settings of the decorator and of the sampling.           *)
(***************************************************************************)
EXTENDS DecoratedCalls

CONSTANTS main, task, pool, t1, none

MCWorkers == {main, task, pool}
MCTasks == {main, task}
Flags(l, r, f, s) == [log_exceptions |-> l, render |-> r, show_frames |-> f, suppress |-> s]
Sampling(r, d, h) == [rate |-> r, deterministic |-> d, hash |-> h]
MCSettings ==
    {[options |-> Flags(TRUE, TRUE, FALSE, TRUE),
      sampling |-> Sampling("some", TRUE, {t1, "Execution"})],
     [options |-> Flags(TRUE, TRUE, TRUE, FALSE), sampling |-> Sampling("zero", FALSE, {})],
     [options |-> Flags(FALSE, TRUE, FALSE, TRUE), sampling |-> Sampling("one", FALSE, {})]}
=============================================================================
