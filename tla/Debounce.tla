------------------------------ MODULE Debounce ------------------------------
(***************************************************************************)
(* The debounce window of the Runner, with a clock (runner.go Trigger,     *)
(* ForceRun, fireBatch, drainAfter).  Module Runner lets an armed timer    *)
(* expire at any time; here it has a deadline, and its actions are those   *)
(* of Runner together with what they do to the times.                      *)
(*                                                                         *)
(* Time passes while nothing is left to do but to wait: for a command, or  *)
(* for a timer whose deadline is ahead.  At one instant the steps of the   *)
(* goroutines come in any order.                                           *)
(***************************************************************************)
EXTENDS Runner

CONSTANTS
  Window,     (* DebounceDur of the jobs that are debounced                *)
  WindowMax,  (* DebounceMaxDur, 0 for none                                *)
  MaxTime     (* bounds the clock                                          *)

ASSUME DebounceAssumption ==
  Window \in Nat \ {0} /\ WindowMax \in Nat /\ MaxTime \in Nat

Time == 0..MaxTime
Deadline == 0..(MaxTime + Window)
Never == -1   \* the zero time

VARIABLES
  now,
  firstAt,  (* name -> first trigger of the current batch                  *)
  firesAt,  (* name -> deadline of the timer that has the entry            *)
  strays,   (* name -> deadline -> counting timers that lost their entry   *)
  noticed   (* history: name -> since when a trigger waits that somebody   *)
            (* is to look at                                               *)

windowVars == <<firstAt, firesAt, strays>>
timedVars == <<vars, now, windowVars, noticed>>

TimedInit ==
  /\ SteadyInit
  /\ now = 0
  /\ firstAt = [name \in Name |-> Never]
  /\ firesAt = [name \in Name |-> Never]
  /\ strays = [name \in Name |-> [d \in Deadline |-> 0]]
  /\ noticed = [name \in Name |-> Never]

Least(m, n) == IF m <= n THEN m ELSE n
Forget(f, name) == [f EXCEPT ![name] = Never]

Note(name) == noticed' = [noticed EXCEPT ![name] = IF @ = Never THEN now ELSE @]

(* The history of a batch ends when the batch is taken.                      *)
NoteTaken ==
  noticed' = [name \in Name |-> IF pending'[name] = 0 THEN Never ELSE noticed[name]]

-----------------------------------------------------------------------------
First(name) == IF firstAt[name] = Never THEN now ELSE firstAt[name]

(* Mutant: the cap counts from the last trigger. *)
DelayUncapped(name) == IF WindowMax = 0 THEN Window ELSE Least(Window, WindowMax)

(* What is left of debounce_max, if it is set, shortens the window.          *)
Delay(name) ==
  IF WindowMax = 0 \/ Window <= First(name) + WindowMax - now THEN Window
  ELSE IF First(name) + WindowMax <= now THEN 0
  ELSE First(name) + WindowMax - now

(* Trigger, under the lock: a trigger that lands during a run arms nothing.  *)
TimedCoalesce(t) ==
  /\ Coalesce(t)
  /\ LET name == thr[t].job.name
     IN /\ IF name \in running THEN UNCHANGED <<firstAt, firesAt>>
           ELSE /\ firstAt' = [firstAt EXCEPT ![name] = First(name)]
                /\ firesAt' = [firesAt EXCEPT ![name] = now + Delay(name)]
        /\ Note(name)
  /\ UNCHANGED <<now, strays>>

(* Mutant: ForceRun forgets the timer but not its deadline. *)
AbsorbKeepingDeadline(t) ==
  /\ Absorb(t)
  /\ firstAt' = Forget(firstAt, thr[t].job.name)
  /\ NoteTaken
  /\ UNCHANGED <<now, firesAt, strays>>

(* ForceRun, under the lock.                                                 *)
TimedAbsorb(t) ==
  /\ Absorb(t)
  /\ firstAt' = Forget(firstAt, thr[t].job.name)
  /\ firesAt' = Forget(firesAt, thr[t].job.name)
  /\ NoteTaken
  /\ UNCHANGED <<now, strays>>

(* A deadline has come: of the timer with the entry, or of a stray one.      *)
ExpireEntry(name) ==
  /\ Expire(name)
  /\ timers' # timers /\ firesAt[name] <= now
  /\ UNCHANGED <<now, windowVars, noticed>>

ExpireStray(name) ==
  /\ Expire(name)
  /\ timers' = timers
  /\ \E d \in Deadline :
       /\ strays[name][d] > 0 /\ d <= now
       /\ strays' = [strays EXCEPT ![name][d] = @ - 1]
  /\ UNCHANGED <<now, firstAt, firesAt, noticed>>

(* fireBatch: whatever it does with the batch, the entry goes, and a newer   *)
(* timer that had it counts on as a stray.                                   *)
TimedFireBatch(name) ==
  /\ FireBatch(name)
  /\ firstAt' = Forget(firstAt, name)
  /\ firesAt' = Forget(firesAt, name)
  /\ strays' = IF timers[name] = "armed"
               THEN [strays EXCEPT ![name][firesAt[name]] = @ + 1] ELSE strays
  /\ NoteTaken
  /\ UNCHANGED now

(* A denied run puts its trigger back and arms no timer.  It is looked at    *)
(* when the job or the group that denied it is free again, unless that is so *)
(* already.                                                                  *)
TimedRequeue(t) ==
  /\ Requeue(t)
  /\ LET job == thr[t].job
     IN IF Busy(job) THEN Note(job.name) ELSE UNCHANGED noticed
  /\ UNCHANGED <<now, windowVars>>

(* drainAfter takes a batch and leaves firstAt, firesAt and the timer as     *)
(* they are; so does everything else.                                        *)
Untimed ==
  /\ \/ Request
     \/ \E t \in Thread : Run(t) /\ thr[t].pc \notin {"trigger", "force", "denied"}
  /\ NoteTaken
  /\ UNCHANGED <<now, windowVars>>

(* Nobody is on the way anywhere.                                            *)
Settled ==
  /\ \A t \in Thread : thr[t].pc \in {"idle", "execute"}
  /\ \A name \in Name : callbacks[name] = 0

Due(name) ==
  \/ timers[name] = "armed" /\ firesAt[name] <= now
  \/ \E d \in Deadline : strays[name][d] > 0 /\ d <= now

Tick ==
  /\ now < MaxTime
  /\ Settled /\ \A name \in Name : ~Due(name)
  /\ now' = now + 1
  /\ UNCHANGED <<vars, windowVars, noticed>>

TimedNext ==
  \/ \E t \in Thread : TimedCoalesce(t) \/ TimedAbsorb(t) \/ TimedRequeue(t)
  \/ \E name \in Name : ExpireEntry(name) \/ ExpireStray(name) \/ TimedFireBatch(name)
  \/ Untimed
  \/ Tick

TimedSpec == TimedInit /\ [][TimedNext]_timedVars

-----------------------------------------------------------------------------
(* The times belong to timers: the entry of an armed timer has a deadline,   *)
(* and every timer without an entry is a stray with one.                     *)
TimedTypeOK ==
  /\ now \in Time
  /\ firstAt \in [Name -> Time \cup {Never}]
  /\ firesAt \in [Name -> Deadline \cup {Never}]
  /\ strays \in [Name -> [Deadline -> Nat]]
  /\ noticed \in [Name -> Time \cup {Never}]
  /\ \A name \in Name : timers[name] = "none" <=> firesAt[name] = Never

(* Of a job that could run, triggers that somebody is to look at wait no     *)
(* longer than debounce_max after the first of them, once the goroutines of  *)
(* the instant are done: whatever restarted their window, took a batch from  *)
(* under their timer, cost that timer its entry, or denied a run and put its *)
(* trigger back while the job or the group was still taken.  It is less than *)
(* jobs.example.yml:53 says, "but never delay a pending run past 15m": a     *)
(* trigger that comes back when the job is free again may wait for ever      *)
(* (NoneStranded in module RunnerBatches).                                   *)
NoticedInTime ==
  WindowMax > 0 /\ Settled =>
    \A name \in Name :
      noticed[name] # Never /\ ~Busy(JobOf(name)) => now <= noticed[name] + WindowMax

(* README.md:144 "fired this long after the last trigger": no callback takes *)
(* a batch inside the window that a later trigger opened.  The code refutes  *)
(* it (debounce_max aside): a timer can lose its entry to the late callback  *)
(* of an older one, and then no trigger stops it.                            *)
InsideWindow(name) ==
  timers[name] = "armed" /\ firesAt[name] - Window < now /\ now < firesAt[name]
QuietFirst ==
  [][\A name \in Name :
       callbacks'[name] < callbacks[name] /\ pending[name] > 0 /\ pending'[name] = 0
         => ~InsideWindow(name)]_timedVars
=============================================================================
