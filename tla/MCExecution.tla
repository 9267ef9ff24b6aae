---------------------------- MODULE MCExecution ----------------------------
(* A plain job whose server dies often, and one with everything a job may  *)
(* set, on a disk that fails.                                              *)
EXTENDS Execution

Plain ==
  [timeout |-> FALSE, keepDays |-> FALSE, lingers |-> FALSE, diskFails |-> FALSE,
   runs |-> 3, crashes |-> 2]

Troubled ==
  [timeout |-> TRUE, keepDays |-> TRUE, lingers |-> TRUE, diskFails |-> TRUE,
   runs |-> 2, crashes |-> 1]

MCSettings == {Plain, Troubled}
=============================================================================
