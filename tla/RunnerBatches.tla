--------------------------- MODULE RunnerBatches ---------------------------
(***************************************************************************)
(* What becomes of a trigger of a debounced job: the Runner counts it in   *)
(* pending, hands batches to the goroutines that run them, and puts back   *)
(* the batch of a run that is denied.                                      *)
(***************************************************************************)
EXTENDS Runner

ASSUME BatchesAssumption == IsFiniteSet(Thread)

(* The triggers a goroutine holds that no execution has been started for.    *)
Carries(r, name) ==
  IF r.fire.name = name THEN r.fire.n
  ELSE IF r.pc \in {"check", "admit", "acquire", "denied"} /\ r.job.name = name THEN r.n
  ELSE 0

(* The triggers of a job that were accepted and not yet run: those that wait *)
(* in pending, and one element for each that a goroutine holds.              *)
Held(name) == UNION {{t} \X (1..Carries(thr[t], name)) : t \in Thread}
Owed(name) == pending[name] + Cardinality(Held(name))

Starts(name) == name \in running' \ running

(* A trigger is never counted twice: a batch handed to a goroutine is gone   *)
(* from pending, so what a job is owed grows only when pending is            *)
(* incremented, by one.                                                      *)
NothingCountedTwice ==
  [][\A name \in Name :
       Owed(name)' > Owed(name) =>
         Owed(name)' = Owed(name) + 1 /\ pending'[name] = pending[name] + 1]_vars

(* jobs.example.yml:56 "nothing imported mid-run is missed": while nobody    *)
(* reconfigures the server, a job that is owed triggers goes on being owed   *)
(* at least one until an execution of it starts.  How many is not kept: a    *)
(* batch of several that is denied goes back as one (runner.go:336).         *)
OwedUntilStarted ==
  [][\A name \in Name : Owed(name) > 0 /\ Owed(name)' = 0 => Starts(name)]_vars

(* A trigger that waits while its job runs leaves pending again: the end of  *)
(* that run, or of the group mate that took the group before it, hands it    *)
(* on (README.md:150, "queues exactly one follow-up run on finish").  It     *)
(* rests on requests that come to an end: drainAfter looks at the job that   *)
(* has finished before its mates, so triggers that never cease could keep a  *)
(* mate waiting.                                                             *)
FollowUpRun ==
  \A name \in Name :
    (name \in running /\ pending[name] > 0) ~> (pending[name] = 0)

(* README.md:151 "so nothing is missed": a trigger that waits is handed to a *)
(* run.  The code refutes it: a denied run puts its trigger into pending     *)
(* after the holder has looked there for the last time.                      *)
NoneStranded == \A name \in Name : pending[name] > 0 ~> pending[name] = 0
=============================================================================
