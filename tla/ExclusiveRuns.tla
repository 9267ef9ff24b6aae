--------------------------- MODULE ExclusiveRuns ---------------------------
(***************************************************************************)
(* What the Runner promises of its executions, whatever goroutines, locks, *)
(* timers and chains it is built from: each is an execution of one job, of *)
(* one group or none, and a job or a group is never in two at once.        *)
(***************************************************************************)
CONSTANTS Name, Group, NoGroup

VARIABLE active   (* the executions in progress, as <<name, group>> *)

Execution == Name \X (Group \cup {NoGroup})

(* Two executions that may not overlap. *)
Conflict(e, f) == e[1] = f[1] \/ (e[2] = f[2] /\ e[2] # NoGroup)

Init == active = {}

Start(e) ==
  /\ \A f \in active : ~Conflict(e, f)
  /\ active' = active \cup {e}

Finish(e) ==
  /\ e \in active
  /\ active' = active \ {e}

Next == \E e \in Execution : Start(e) \/ Finish(e)

Spec == Init /\ [][Next]_active
=============================================================================
