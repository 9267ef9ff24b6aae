------------------------------ MODULE JobsFile ------------------------------
(* What LoadConfig (config.go) promises of the jobs of a file it accepts,  *)
(* and all that the Runner relies on.                                      *)
EXTENDS Integers, Sequences

NamesOf(jobs) == {jobs[i].name : i \in DOMAIN jobs}

(* No two jobs of one name, and no chain to a name that is not defined.      *)
ValidConfig(jobs) ==
  /\ \A i, k \in DOMAIN jobs : jobs[i].name = jobs[k].name => i = k
  /\ \A i \in DOMAIN jobs :
       \A seq \in {jobs[i].onSuccess, jobs[i].onFailure} :
         \A k \in DOMAIN seq : seq[k] \in NamesOf(jobs)
=============================================================================
