------------------------------- MODULE Runner -------------------------------
(***************************************************************************)
(* The Runner of cronkit (runner.go): every goroutine that executes run(), *)
(* the single-instance and group locks, the debounce timers with their     *)
(* coalesced triggers, drain mode, the jobs disabled from the UI, the      *)
(* chained jobs, and the configuration that a reload swaps under all this. *)
(*                                                                         *)
(* One action is one critical section of rn.mu, or one read of an atomic,  *)
(* with the code that follows it up to the next one.  What execute() does  *)
(* with the command and the disk is one step here; module Execution opens  *)
(* it.                                                                     *)
(***************************************************************************)
EXTENDS JobsFile, FiniteSets

CONSTANTS
  Name,           (* Job.Name                                              *)
  Group,          (* the non-empty values of Job.Group                     *)
  NoGroup,        (* Job.Group = ""                                        *)
  NoJob,          (* no job: what an idle goroutine slot holds             *)
  Configs,        (* the generations of the jobs file, in the order loaded *)
  Thread,         (* goroutine slots: bounds the runs in progress at once  *)
  MaxChainDepth,  (* runner.go:29, 16 in the code                          *)
  Outcome,        (* how a command may end, and "error"                    *)
  MaxRequests     (* bounds the requests that come from outside            *)

Job == [name : Name, group : Group \cup {NoGroup}, debounce : BOOLEAN,
        onSuccess : Seq(Name), onFailure : Seq(Name)]

Status == {"none", "success", "failed", "timeout", "canceled", "error"}

ASSUME RunnerAssumption ==
  /\ NoGroup \notin Group
  /\ NoJob \notin Job \cup Name
  /\ Configs \in Seq(Seq(Job)) /\ Configs # << >>
  /\ \A g \in DOMAIN Configs : ValidConfig(Configs[g])   \* LoadConfig
  /\ MaxChainDepth \in Nat
  /\ Outcome \subseteq Status \ {"none"}
  /\ MaxRequests \in Nat

-----------------------------------------------------------------------------
VARIABLES
  gen,        (* cfgp: the generation rn.cfg() returns                     *)
  draining,   (* drain mode                                                *)
  disabled,   (* names disabled from the UI                                *)
  running,    (* names with an execution in flight                         *)
  groupBusy,  (* groups with a member in flight                            *)
  pending,    (* name -> coalesced triggers awaiting a run                 *)
  timers,     (* name -> its entry in rn.timers: none, a timer that is     *)
              (* counting, or one that has expired already                 *)
  orphans,    (* name -> counting timers that lost their entry             *)
  callbacks,  (* name -> expired timers whose fireBatch has not begun      *)
  thr,        (* the goroutines inside run()                               *)
  requests    (* requests accepted so far (bound)                          *)

timerVars == <<timers, orphans, callbacks>>
lockVars  == <<running, groupBusy>>
flagVars  == <<gen, draining, disabled>>
vars == <<flagVars, lockVars, pending, timerVars, thr, requests>>

PC == {"idle", "trigger", "force", "fire",                  \* callers of run()
       "check", "admit", "acquire", "denied", "execute",    \* run()
       "release", "drain", "pick", "launch", "chain"}

(* The list of children a chain goroutine ranges over: next counts those it  *)
(* is done with, in the configuration chain() loaded.                        *)
Chained == [names : Seq(Name), next : Nat, gen : DOMAIN Configs]
NoChain == [names |-> << >>, next |-> 0, gen |-> 1]

NoFire == [name |-> NoJob, n |-> 0]

ThreadState ==
  [pc     : PC,
   job    : Job \cup {NoJob},      \* the job this call of run() was given
   depth  : 0..MaxChainDepth,
   n      : Nat,                   \* coalesced
   todo   : Chained,
   status : Status,
   fire   : [name : Name \cup {NoJob}, n : Nat]]  \* fireName, fireN

IdleThread ==
  [pc |-> "idle", job |-> NoJob, depth |-> 0, n |-> 0, todo |-> NoChain,
   status |-> "none", fire |-> NoFire]

(* A goroutine about to call run(job, _, depth, n); todo is what it ranges   *)
(* over when it is the one chain() starts.                                   *)
NewRun(job, depth, n, todo) ==
  [pc |-> "check", job |-> job, depth |-> depth, n |-> n, todo |-> todo,
   status |-> "none", fire |-> NoFire]

(* A goroutine about to take the lock in Trigger ("trigger") or ForceRun.    *)
NewCall(pc, job) == [IdleThread EXCEPT !.pc = pc, !.job = job]

(* fireBatch, between the unlock and its lookup of the job.                  *)
NewFire(name, n) == [IdleThread EXCEPT !.pc = "fire", !.fire = [name |-> name, n |-> n]]

(* Config.Job: does generation g define this name, and as what?              *)
Defines(g, name) == \E i \in DOMAIN Configs[g] : Configs[g][i].name = name
JobIn(g, name) ==
  Configs[g][CHOOSE i \in DOMAIN Configs[g] : Configs[g][i].name = name]

cfg == Configs[gen]
InCfg(name) == Defines(gen, name)
JobOf(name) == JobIn(gen, name)

(* The positions of the children still to run: a name the configuration does *)
(* not define is skipped.                                                    *)
Left(todo) == {k \in DOMAIN todo.names : k > todo.next /\ Defines(todo.gen, todo.names[k])}

(* run() has returned, or chain() has just begun: on to the next child, or   *)
(* the goroutine ends.                                                       *)
NextChild(todo, depth) ==
  IF Left(todo) = {} THEN IdleThread
  ELSE LET k == CHOOSE i \in Left(todo) : \A m \in Left(todo) : i <= m
       IN NewRun(JobIn(todo.gen, todo.names[k]), depth, 0, [todo EXCEPT !.next = k])

Returned(r) == NextChild(r.todo, r.depth)

(* The slot a new goroutine takes: which one it is makes no difference.      *)
Idle == {t \in Thread : thr[t].pc = "idle"}
Slot == CHOOSE t \in Idle : TRUE

Go(r) == Idle # {} /\ thr' = [thr EXCEPT ![Slot] = r]

(* Job values a caller may hold: those of the current configuration, and of  *)
(* earlier ones (a handler or a scheduler closure that copied its Job before *)
(* a reload).                                                                *)
Snapshots == UNION {{Configs[g][i] : i \in DOMAIN Configs[g]} : g \in 1..gen}

Init ==
  /\ gen = 1
  /\ draining = FALSE
  /\ disabled \in SUBSET Name
  /\ running = {}
  /\ groupBusy = {}
  /\ pending = [n \in Name |-> 0]
  /\ timers = [n \in Name |-> "none"]
  /\ orphans = [n \in Name |-> 0]
  /\ callbacks = [n \in Name |-> 0]
  /\ thr = [t \in Thread |-> IdleThread]
  /\ requests = 0

-----------------------------------------------------------------------------
(* Requests: the scheduler, the dashboard and the API.                       *)

(* The checks a call makes before it takes the lock: by then the flags may   *)
(* have changed.  A job without debounce is handed to run(), which checks    *)
(* again.                                                                    *)
Trigger(job) ==
  /\ job.name \notin disabled /\ ~draining
  /\ Go(IF job.debounce THEN NewCall("trigger", job) ELSE NewRun(job, 0, 0, NoChain))

ForceRun(job) ==
  /\ ~draining
  /\ Go(NewCall("force", job))

Request ==
  /\ requests < MaxRequests
  /\ requests' = requests + 1
  /\ \E job \in Snapshots : Trigger(job) \/ ForceRun(job)
  /\ UNCHANGED <<flagVars, lockVars, pending, timerVars>>

SetDraining(on) ==
  /\ draining' = on
  /\ UNCHANGED <<gen, disabled, lockVars, pending, timerVars, thr, requests>>

SetDisabled(name, off) ==
  /\ disabled' = IF off THEN disabled \cup {name} ELSE disabled \ {name}
  /\ UNCHANGED <<gen, draining, lockVars, pending, timerVars, thr, requests>>

(* Reload: the next generation of the jobs file replaces the current one.    *)
Reload ==
  /\ gen < Len(Configs)
  /\ gen' = gen + 1
  /\ UNCHANGED <<draining, disabled, lockVars, pending, timerVars, thr, requests>>

-----------------------------------------------------------------------------
(* Debounce timers.                                                          *)

(* The runtime starts fireBatch(name) in a goroutine: from here on Stop() of *)
(* this timer has no effect.                                                 *)
Expire(name) ==
  /\ \/ /\ timers[name] = "armed"
        /\ timers' = [timers EXCEPT ![name] = "expired"]
        /\ UNCHANGED orphans
     \/ /\ orphans[name] > 0
        /\ orphans' = [orphans EXCEPT ![name] = @ - 1]
        /\ UNCHANGED timers
  /\ callbacks' = [callbacks EXCEPT ![name] = @ + 1]
  /\ UNCHANGED <<flagVars, lockVars, pending, thr, requests>>

(* fireBatch removes the entry of rn.timers without looking whether it is    *)
(* still its own timer's: a newer timer goes on counting without an entry.   *)
DropEntry(name) ==
  /\ callbacks[name] > 0
  /\ callbacks' = [callbacks EXCEPT ![name] = @ - 1]
  /\ timers' = [timers EXCEPT ![name] = "none"]
  /\ orphans' = [orphans EXCEPT ![name] = IF timers[name] = "armed" THEN @ + 1 ELSE @]

(* fireBatch while the job runs or drain mode is on: the batch stays.        *)
FireBatchKept(name) ==
  /\ DropEntry(name)
  /\ name \in running \/ draining
  /\ UNCHANGED <<flagVars, lockVars, pending, thr, requests>>

(* fireBatch otherwise: take the batch, and go on if there is one.           *)
FireBatchTaken(name) ==
  /\ DropEntry(name)
  /\ name \notin running /\ ~draining
  /\ pending' = [pending EXCEPT ![name] = 0]
  /\ IF pending[name] > 0
     THEN Go(NewFire(name, pending[name]))
     ELSE UNCHANGED thr
  /\ UNCHANGED <<flagVars, lockVars, requests>>

FireBatch(name) == FireBatchKept(name) \/ FireBatchTaken(name)

-----------------------------------------------------------------------------
(* The goroutines that call run().                                           *)

At(t, pc) == thr[t].pc = pc

(* Trigger, for a debounced job: count it, and unless the job is running     *)
(* stop the timer of the entry and arm a new one.  Stop() comes too late for *)
(* a timer that has expired: its callback stays.                             *)
Coalesce(t) ==
  /\ At(t, "trigger")
  /\ LET name == thr[t].job.name
     IN /\ pending' = [pending EXCEPT ![name] = @ + 1]
        /\ timers' = IF name \in running THEN timers
                     ELSE [timers EXCEPT ![name] = "armed"]
  /\ thr' = [thr EXCEPT ![t] = IdleThread]
  /\ UNCHANGED <<flagVars, lockVars, orphans, callbacks, requests>>

(* Mutant: the batch stays in pending as well. *)
AbsorbKeeping(t) ==
  /\ At(t, "force")
  /\ LET job == thr[t].job
     IN /\ timers' = [timers EXCEPT ![job.name] = "none"]
        /\ thr' = [thr EXCEPT ![t] = NewRun(job, 0, pending[job.name], NoChain)]
  /\ UNCHANGED <<flagVars, lockVars, pending, orphans, callbacks, requests>>

(* ForceRun: absorb the waiting batch, stop its timer, and run at once.      *)
Absorb(t) ==
  /\ At(t, "force")
  /\ LET job == thr[t].job
     IN /\ pending' = [pending EXCEPT ![job.name] = 0]
        /\ timers' = [timers EXCEPT ![job.name] = "none"]
        /\ thr' = [thr EXCEPT ![t] = NewRun(job, 0, pending[job.name], NoChain)]
  /\ UNCHANGED <<flagVars, lockVars, orphans, callbacks, requests>>

(* The end of fireBatch: a job that a reload removed is not run.             *)
Fire(t) ==
  /\ At(t, "fire")
  /\ LET f == thr[t].fire
     IN thr' = [thr EXCEPT ![t] = IF InCfg(f.name)
                                  THEN NewRun(JobOf(f.name), 0, f.n, NoChain)
                                  ELSE IdleThread]
  /\ UNCHANGED <<flagVars, lockVars, pending, timerVars, requests>>

-----------------------------------------------------------------------------
(* run(): one goroutine, step by step.                                       *)

(* ErrDisabled: the run is dropped with the triggers it carries.             *)
Check(t) ==
  /\ At(t, "check")
  /\ thr' = [thr EXCEPT ![t] = IF @.job.name \in disabled THEN Returned(@)
                               ELSE [@ EXCEPT !.pc = "admit"]]
  /\ UNCHANGED <<flagVars, lockVars, pending, timerVars, requests>>

(* Mutant: drain mode is looked at by the callers of run() only. *)
AdmitAlways(t) ==
  /\ At(t, "admit")
  /\ thr' = [thr EXCEPT ![t].pc = "acquire"]
  /\ UNCHANGED <<flagVars, lockVars, pending, timerVars, requests>>

(* ErrDraining: likewise.                                                    *)
Admit(t) ==
  /\ At(t, "admit")
  /\ thr' = [thr EXCEPT ![t] = IF draining THEN Returned(@)
                               ELSE [@ EXCEPT !.pc = "acquire"]]
  /\ UNCHANGED <<flagVars, lockVars, pending, timerVars, requests>>

(* Mutants: one of the two locks is not looked at. *)
BusyByName(job) == job.name \in running
BusyByGroup(job) == job.group # NoGroup /\ job.group \in groupBusy

Busy(job) ==
  \/ job.name \in running
  \/ job.group # NoGroup /\ job.group \in groupBusy

GroupsOf(job) == {job.group} \ {NoGroup}

Acquire(t) ==
  /\ At(t, "acquire")
  /\ ~Busy(thr[t].job)
  /\ running' = running \cup {thr[t].job.name}
  /\ groupBusy' = groupBusy \cup GroupsOf(thr[t].job)
  /\ thr' = [thr EXCEPT ![t].pc = "execute"]
  /\ UNCHANGED <<flagVars, pending, timerVars, requests>>

(* Mutant: only ErrBusy puts the trigger back. *)
AcquireDeniedDropping(t) ==
  /\ At(t, "acquire")
  /\ Busy(thr[t].job)
  /\ thr' = [thr EXCEPT ![t] = IF @.job.debounce /\ @.job.name \in running
                               THEN [@ EXCEPT !.pc = "denied"] ELSE Returned(@)]
  /\ UNCHANGED <<flagVars, lockVars, pending, timerVars, requests>>

(* ErrBusy or ErrGroupBusy: a debounced job is about to be queued again, any *)
(* other run is skipped.                                                     *)
AcquireDenied(t) ==
  /\ At(t, "acquire")
  /\ Busy(thr[t].job)
  /\ thr' = [thr EXCEPT ![t] =
               IF @.job.debounce THEN [@ EXCEPT !.pc = "denied"] ELSE Returned(@)]
  /\ UNCHANGED <<flagVars, lockVars, pending, timerVars, requests>>

(* rn.pending[job.Name]++, in a critical section of its own                  *)
Requeue(t) ==
  /\ At(t, "denied")
  /\ pending' = [pending EXCEPT ![thr[t].job.name] = @ + 1]
  /\ thr' = [thr EXCEPT ![t] = Returned(@)]
  /\ UNCHANGED <<flagVars, lockVars, timerVars, requests>>

(* execute() returns: with a final status, or with the error of a record or  *)
(* log file that could not be created.                                       *)
Execute(t) ==
  /\ At(t, "execute")
  /\ \E st \in Outcome :
       thr' = [thr EXCEPT ![t].pc = "release", ![t].status = st]
  /\ UNCHANGED <<flagVars, lockVars, pending, timerVars, requests>>

(* Mutant: the group to free is looked up in the current configuration. *)
ReleaseByConfig(t) ==
  /\ At(t, "release")
  /\ running' = running \ {thr[t].job.name}
  /\ groupBusy' = groupBusy \ {cfg[i].group : i \in {k \in DOMAIN cfg : cfg[k].name = thr[t].job.name}}
  /\ thr' = [thr EXCEPT ![t].pc = "drain"]
  /\ UNCHANGED <<flagVars, pending, timerVars, requests>>

Release(t) ==
  /\ At(t, "release")
  /\ running' = running \ {thr[t].job.name}
  /\ groupBusy' = groupBusy \ GroupsOf(thr[t].job)
  /\ thr' = [thr EXCEPT ![t].pc = "drain"]
  /\ UNCHANGED <<flagVars, pending, timerVars, requests>>

Waits(name) == pending[name] > 0 /\ name \notin running

(* Mutant: a finished job looks after itself only. *)
NoMates(job) == {}

(* The other members of a finished job's group, by position in the current   *)
(* configuration.                                                            *)
Mates(job) ==
  {i \in DOMAIN cfg : job.group # NoGroup /\ cfg[i].group = job.group
                      /\ cfg[i].name # job.name}

(* drainAfter picks the finished job first, then the first mate that waits.  *)
Picks(job, name) ==
  \/ name = job.name /\ Waits(name)
  \/ /\ ~Waits(job.name)
     /\ \E i \in Mates(job) :
          /\ cfg[i].name = name /\ Waits(name)
          /\ \A k \in Mates(job) : k < i => ~Waits(cfg[k].name)

(* drainAfter does nothing in drain mode, as it reads it before the lock.    *)
DrainAfter(t) ==
  /\ At(t, "drain")
  /\ thr' = [thr EXCEPT ![t].pc = IF draining THEN "chain" ELSE "pick"]
  /\ UNCHANGED <<flagVars, lockVars, pending, timerVars, requests>>

(* Nothing to fire: nobody waits, or the group is taken again.               *)
PickNone(t) ==
  /\ At(t, "pick")
  /\ \/ thr[t].job.group \in groupBusy
     \/ \A name \in Name : ~Picks(thr[t].job, name)
  /\ thr' = [thr EXCEPT ![t].pc = "chain"]
  /\ UNCHANGED <<flagVars, lockVars, pending, timerVars, requests>>

(* Take the batch that waits; its timer, if one counts, is left alone.       *)
PickOne(t) ==
  /\ At(t, "pick")
  /\ thr[t].job.group \notin groupBusy
  /\ \E name \in Name :
       /\ Picks(thr[t].job, name)
       /\ pending' = [pending EXCEPT ![name] = 0]
       /\ thr' = [thr EXCEPT ![t].pc = "launch",
                             ![t].fire = [name |-> name, n |-> pending[name]]]
  /\ UNCHANGED <<flagVars, lockVars, timerVars, requests>>

(* Outside the lock again: start the run, unless a reload removed the job.   *)
Launch(t) ==
  /\ At(t, "launch")
  /\ LET f == thr[t].fire
         after == [thr EXCEPT ![t].pc = "chain", ![t].fire = NoFire]
     IN IF InCfg(f.name)
        THEN /\ Idle # {}
             /\ thr' = [after EXCEPT ![Slot] = NewRun(JobOf(f.name), 0, f.n, NoChain)]
        ELSE thr' = after
  /\ UNCHANGED <<flagVars, lockVars, pending, timerVars, requests>>

Downstream(job, status) ==
  CASE status = "success" -> job.onSuccess
    [] status \in {"failed", "timeout"} -> job.onFailure
    [] OTHER -> << >>

(* Mutants: the depth limit is off by one; the depth is not passed on. *)
ChildRunTooDeep(r) ==
  IF r.depth > MaxChainDepth THEN IdleThread
  ELSE NextChild([names |-> Downstream(r.job, r.status), next |-> 0, gen |-> gen],
                 r.depth + 1)
ChildRunSameDepth(r) ==
  IF r.depth + 1 > MaxChainDepth THEN IdleThread
  ELSE NextChild([names |-> Downstream(r.job, r.status), next |-> 0, gen |-> gen], r.depth)

(* chain(): no child to run, or the depth limit reached, leaves Idle here.   *)
ChildRun(r) ==
  IF r.depth + 1 > MaxChainDepth THEN IdleThread
  ELSE NextChild([names |-> Downstream(r.job, r.status), next |-> 0, gen |-> gen],
                 r.depth + 1)

(* chain() starts one goroutine for all the children, and run() returns.     *)
ChainOn(t) ==
  /\ At(t, "chain")
  /\ ChildRun(thr[t]) # IdleThread
  /\ Idle # {}
  /\ thr' = [thr EXCEPT ![t] = Returned(@), ![Slot] = ChildRun(thr[t])]
  /\ UNCHANGED <<flagVars, lockVars, pending, timerVars, requests>>

ChainEnd(t) ==
  /\ At(t, "chain")
  /\ ChildRun(thr[t]) = IdleThread
  /\ thr' = [thr EXCEPT ![t] = Returned(@)]
  /\ UNCHANGED <<flagVars, lockVars, pending, timerVars, requests>>

Run(t) ==
  \/ Coalesce(t) \/ Absorb(t) \/ Fire(t)
  \/ Check(t) \/ Admit(t) \/ Acquire(t) \/ AcquireDenied(t) \/ Requeue(t)
  \/ Execute(t) \/ Release(t)
  \/ DrainAfter(t) \/ PickNone(t) \/ PickOne(t) \/ Launch(t)
  \/ ChainOn(t) \/ ChainEnd(t)

Environment ==
  \/ Request
  \/ \E on \in BOOLEAN : SetDraining(on)
  \/ \E name \in Name, off \in BOOLEAN : SetDisabled(name, off)
  \/ Reload

Work ==
  \/ \E name \in Name : Expire(name) \/ FireBatch(name)
  \/ \E t \in Thread : Run(t)

Next ==
  \/ Environment
  \/ Work

Spec == Init /\ [][Next]_vars

(* Goroutines are scheduled and timers expire; a command ends, by itself, by *)
(* its timeout or by Cancel.  No request has to come; that they end, which   *)
(* ChainsEnd and the properties of batches need, is the bound MaxRequests.   *)
Fairness ==
  /\ \A t \in Thread : WF_vars(Run(t))
  /\ \A name \in Name : WF_vars(Expire(name)) /\ WF_vars(FireBatch(name))

FairSpec == Spec /\ Fairness

(* A server nobody reconfigures: no drain mode, no disabled job, no reload.  *)
SteadyInit == Init /\ disabled = {}

SteadyNext ==
  \/ Request
  \/ Work

SteadySpec ==
  /\ SteadyInit /\ [][SteadyNext]_vars
  /\ Fairness

-----------------------------------------------------------------------------
(* Correctness.                                                              *)

(* A goroutine has a job except in fireBatch, and between the choice of a    *)
(* batch and its launch, and only then, the name of that batch.              *)
WellFormed ==
  {r \in ThreadState :
     /\ r.pc \in {"idle", "fire"} <=> r.job = NoJob
     /\ IF r.pc \in {"launch", "fire"} THEN r.fire.name \in Name ELSE r.fire = NoFire}

(* Nothing runs at a chain depth beyond the limit, and no name or group from *)
(* outside the configurations ends up in a lock.                             *)
TypeOK ==
  /\ gen \in DOMAIN Configs
  /\ draining \in BOOLEAN
  /\ disabled \subseteq Name
  /\ running \subseteq Name
  /\ groupBusy \subseteq Group
  /\ pending \in [Name -> Nat]
  /\ timers \in [Name -> {"none", "armed", "expired"}]
  /\ orphans \in [Name -> Nat]
  /\ callbacks \in [Name -> Nat]
  /\ thr \in [Thread -> WellFormed]
  /\ requests \in 0..MaxRequests

(* The goroutines between acquire and release: they own the locks.           *)
Holding == {t \in Thread : At(t, "execute") \/ At(t, "release")}

(* Single instance and group concurrency: at no time do two goroutines       *)
(* execute one job, or two jobs of one group, whatever is triggered, forced, *)
(* chained, fired, reloaded or drained meanwhile.                            *)
Exclusive ==
  \A t, u \in Holding :
    t # u => /\ thr[t].job.name # thr[u].job.name
             /\ GroupsOf(thr[t].job) \cap GroupsOf(thr[u].job) = {}

(* The locks are exactly those of the goroutines that execute: none leaks on *)
(* a failure path, and a job whose group a reload changed under a running    *)
(* execution still frees the group it took.                                  *)
LocksHeld ==
  /\ running = {thr[t].job.name : t \in Holding}
  /\ groupBusy = UNION {GroupsOf(thr[t].job) : t \in Holding}

(* The goroutines that have read the drain flag and go on to what it         *)
(* forbids: to count a trigger, to take a batch, to start an execution.      *)
PastFlag ==
  {t \in Thread : \E pc \in {"trigger", "force", "pick", "acquire"} : At(t, pc)}

(* Drain mode closes every way to a run (README.md:157 "pauses all new runs  *)
(* - from every source"): the dashboard, the schedule, timers that expire,   *)
(* batches that wait for a finished run, chained jobs.  While it stays on,   *)
(* no goroutine gets past a look at the flag any more, and each one that was *)
(* past it starts one run at most, or takes one batch; all others stay in    *)
(* pending for the time when drain mode is off again (runner.go:170).        *)
DrainHolds ==
  [][draining /\ draining' =>
       /\ PastFlag' \subseteq PastFlag
       /\ \/ PastFlag' # PastFlag
          \/ /\ running' \subseteq running
             /\ \A name \in Name : pending'[name] >= pending[name]]_vars

(* A cycle of on_success jobs without debounce comes to rest once requests   *)
(* stop: chain() counts the depth across every hop, skipped children too.    *)
ChainsEnd == <>[](\A t \in Thread : At(t, "idle"))

(* The abstract promise of the locks: executions of jobs that start and      *)
(* finish, no two of them of one job or one group.                           *)
Abstract == INSTANCE ExclusiveRuns
              WITH active <- {<<thr[t].job.name, thr[t].job.group>> : t \in Holding}
Serialized == Abstract!Spec
=============================================================================
