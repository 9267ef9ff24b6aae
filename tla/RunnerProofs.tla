---------------------------- MODULE RunnerProofs ----------------------------
(***************************************************************************)
(* Proofs about the Runner, for every set of jobs, groups, goroutines and  *)
(* configurations: its types, the inductive invariant of its locks, that   *)
(* it implements ExclusiveRuns, and that drain mode closes every way to a  *)
(* run.                                                                    *)
(***************************************************************************)
EXTENDS Runner, WellFoundedInduction, TLAPS

-----------------------------------------------------------------------------
(* What the operators return.                                              *)

(* A job looked up by a name its generation defines is a job of that name.   *)
LEMMA JobInType ==
  ASSUME NEW gn \in DOMAIN Configs, NEW name \in Name, Defines(gn, name)
  PROVE  JobIn(gn, name) \in Job /\ JobIn(gn, name).name = name
<1>1. Configs[gn] \in Seq(Job)
  BY RunnerAssumption DEF RunnerAssumption
<1>2. PICK i \in DOMAIN Configs[gn] : Configs[gn][i].name = name
  BY DEF Defines
<1>. QED
  BY <1>1, <1>2 DEF JobIn

(* A set of positions that is not empty has a first one.                     *)
LEMMA FirstExists ==
  ASSUME NEW T, T \subseteq Nat, T # {}
  PROVE  \E x \in T : \A y \in T : x <= y
<1>. DEFINE R == OpToRel(<, Nat)
<1>1. IsWellFoundedOn(R, Nat)
  BY NatLessThanWellFounded
<1>2. \A x, y \in Nat : y < x => <<y, x>> \in R
  BY DEF OpToRel
<1>4. \A x, y \in Nat : y < x \/ x <= y
  OBVIOUS
<1>. HIDE DEF R
<1>3. PICK x \in T : \A y \in T : ~ (<<y, x>> \in R)
  BY <1>1, WFMin
<1>. QED
  BY <1>2, <1>3, <1>4

LEMMA NewRunType ==
  ASSUME NEW job \in Job, NEW depth \in 0..MaxChainDepth, NEW n \in Nat,
         NEW todo \in Chained
  PROVE  /\ NewRun(job, depth, n, todo) \in WellFormed
         /\ NewRun(job, depth, n, todo).pc = "check"
BY RunnerAssumption
   DEF RunnerAssumption, NewRun, WellFormed, ThreadState, PC, Status, NoFire

LEMMA IdleType ==
  /\ NoChain \in Chained
  /\ IdleThread \in WellFormed
  /\ IdleThread.pc = "idle"
BY RunnerAssumption
   DEF RunnerAssumption, IdleThread, NoChain, NoFire, WellFormed, ThreadState, Chained,
       PC, Status

(* A goroutine that is done with a child is at the next one, or is over.     *)
LEMMA NextChildType ==
  ASSUME NEW todo \in Chained, NEW depth \in 0..MaxChainDepth
  PROVE  /\ NextChild(todo, depth) \in WellFormed
         /\ NextChild(todo, depth).pc \in {"idle", "check"}
<1>1. CASE Left(todo) = {}
  BY <1>1, IdleType DEF NextChild
<1>2. CASE Left(todo) # {}
  <2>. DEFINE k == CHOOSE i \in Left(todo) : \A m \in Left(todo) : i <= m
              job == JobIn(todo.gen, todo.names[k])
              rest == [todo EXCEPT !.next = k]
  <2>0. Left(todo) \subseteq Nat
    BY DEF Left, Chained
  <2>1. k \in Left(todo)
    BY <1>2, <2>0, FirstExists
  <2>2. /\ k \in DOMAIN todo.names /\ k \in Nat
        /\ todo.names[k] \in Name
        /\ Defines(todo.gen, todo.names[k])
        /\ todo.gen \in DOMAIN Configs
    BY <2>1 DEF Left, Chained
  <2>3. rest \in Chained
    BY <2>2 DEF Chained
  <2>4. job \in Job
    BY <2>2, JobInType
  <2>5. NextChild(todo, depth) = NewRun(job, depth, 0, rest)
    BY <1>2 DEF NextChild
  <2>. HIDE DEF k, job, rest
  <2>6. /\ NewRun(job, depth, 0, rest) \in WellFormed
        /\ NewRun(job, depth, 0, rest).pc = "check"
    BY <2>3, <2>4, NewRunType
  <2>. QED
    BY <2>5, <2>6
<1>. QED
  BY <1>1, <1>2

LEMMA ReturnedType ==
  ASSUME NEW r \in WellFormed
  PROVE  Returned(r) \in WellFormed /\ Returned(r).pc \in {"idle", "check"}
<1>1. r.todo \in Chained /\ r.depth \in 0..MaxChainDepth
  BY DEF WellFormed, ThreadState
<1>. QED
  BY <1>1, NextChildType DEF Returned

LEMMA ChildRunType ==
  ASSUME NEW r \in WellFormed, r.job # NoJob, gen \in DOMAIN Configs
  PROVE  ChildRun(r) \in WellFormed /\ ChildRun(r).pc \in {"idle", "check"}
<1>1. CASE r.depth + 1 > MaxChainDepth
  BY <1>1, IdleType DEF ChildRun
<1>2. CASE ~(r.depth + 1 > MaxChainDepth)
  <2>. DEFINE todo == [names |-> Downstream(r.job, r.status), next |-> 0, gen |-> gen]
  <2>1. r.job \in Job /\ r.depth \in 0..MaxChainDepth
    BY DEF WellFormed, ThreadState
  <2>2. r.depth + 1 \in 0..MaxChainDepth
    BY <1>2, <2>1, RunnerAssumption DEF RunnerAssumption
  <2>3. Downstream(r.job, r.status) \in Seq(Name)
    BY <2>1 DEF Downstream, Job
  <2>4. todo \in Chained
    BY <2>3 DEF Chained
  <2>5. ChildRun(r) = NextChild(todo, r.depth + 1)
    BY <1>2 DEF ChildRun
  <2>. HIDE DEF todo
  <2>. QED
    BY <2>2, <2>4, <2>5, NextChildType
<1>. QED
  BY <1>1, <1>2

LEMMA SnapshotsType ==
  ASSUME gen \in DOMAIN Configs
  PROVE  Snapshots \subseteq Job
BY RunnerAssumption DEF RunnerAssumption, Snapshots

LEMMA SlotType ==
  ASSUME Idle # {}
  PROVE  Slot \in Thread /\ thr[Slot].pc = "idle"
BY DEF Slot, Idle

LEMMA GroupsOfType ==
  ASSUME NEW job \in Job
  PROVE  GroupsOf(job) \subseteq Group
BY DEF GroupsOf, Job

-----------------------------------------------------------------------------
(* Type correctness.                                                       *)

(* What changes when a goroutine, or a goroutine and a new one, move.        *)
LEMMA ThrOne ==
  ASSUME thr \in [Thread -> WellFormed], NEW t \in Thread, NEW r \in WellFormed,
         thr' = [thr EXCEPT ![t] = r]
  PROVE  thr' \in [Thread -> WellFormed]
OBVIOUS

LEMMA ThrTwo ==
  ASSUME thr \in [Thread -> WellFormed], NEW t \in Thread, NEW u \in Thread,
         NEW r \in WellFormed, NEW s \in WellFormed,
         thr' = [thr EXCEPT ![t] = r, ![u] = s]
  PROVE  thr' \in [Thread -> WellFormed]
OBVIOUS

(* The steps of requests and operators.                                      *)
LEMMA EnvironmentTyping ==
  ASSUME TypeOK, Environment
  PROVE  TypeOK'
<1>1. CASE Request
  <2>1. PICK job \in Snapshots : Trigger(job) \/ ForceRun(job)
    BY <1>1 DEF Request
  <2>2. job \in Job
    BY <2>1, SnapshotsType DEF TypeOK
  <2>3. /\ NewRun(job, 0, 0, NoChain) \in WellFormed
        /\ NewCall("trigger", job) \in WellFormed
        /\ NewCall("force", job) \in WellFormed
    <3>1. NewRun(job, 0, 0, NoChain) \in WellFormed
      BY <2>2, NewRunType, IdleType, RunnerAssumption DEF RunnerAssumption
    <3>2. \A pc \in {"trigger", "force"} : NewCall(pc, job) \in WellFormed
      BY <2>2, IdleType, RunnerAssumption
         DEF NewCall, WellFormed, ThreadState, PC, RunnerAssumption
    <3>. QED
      BY <3>1, <3>2
  <2>4. PICK r \in WellFormed : Go(r)
    BY <2>1, <2>3 DEF Trigger, ForceRun
  <2>5. thr' \in [Thread -> WellFormed]
    BY <2>4, SlotType, ThrOne DEF Go, TypeOK
  <2>6. requests' \in 0..MaxRequests
    BY <1>1, RunnerAssumption DEF Request, TypeOK, RunnerAssumption
  <2>. QED
    BY <1>1, <2>5, <2>6 DEF Request, TypeOK, flagVars, lockVars, timerVars
<1>2. CASE \E on \in BOOLEAN : SetDraining(on)
  BY <1>2 DEF SetDraining, TypeOK, lockVars, timerVars
<1>3. CASE \E name \in Name, off \in BOOLEAN : SetDisabled(name, off)
  BY <1>3 DEF SetDisabled, TypeOK, lockVars, timerVars
<1>4. CASE Reload
  <2>1. gen' \in DOMAIN Configs
    BY <1>4, RunnerAssumption DEF Reload, TypeOK, RunnerAssumption
  <2>. QED
    BY <1>4, <2>1 DEF Reload, TypeOK, lockVars, timerVars
<1>. QED
  BY <1>1, <1>2, <1>3, <1>4 DEF Environment

LEMMA ExpireTyping ==
  ASSUME TypeOK, NEW name \in Name, Expire(name)
  PROVE  TypeOK'
<1>1. /\ timers' \in [Name -> {"none", "armed", "expired"}]
      /\ orphans' \in [Name -> Nat]
  BY DEF Expire, TypeOK
<1>2. callbacks' \in [Name -> Nat]
  BY DEF Expire, TypeOK
<1>. QED
  BY <1>1, <1>2 DEF Expire, TypeOK, flagVars, lockVars

LEMMA FireBatchTyping ==
  ASSUME TypeOK, NEW name \in Name, FireBatch(name)
  PROVE  TypeOK'
<1>1. /\ timers' \in [Name -> {"none", "armed", "expired"}]
      /\ orphans' \in [Name -> Nat]
      /\ callbacks' \in [Name -> Nat]
  BY DEF FireBatch, FireBatchKept, FireBatchTaken, DropEntry, TypeOK
<1>2. CASE FireBatchKept(name)
  BY <1>1, <1>2 DEF FireBatchKept, TypeOK, flagVars, lockVars
<1>3. CASE FireBatchTaken(name)
  <2>1. pending' \in [Name -> Nat]
    BY <1>3 DEF FireBatchTaken, TypeOK
  <2>2. NewFire(name, pending[name]) \in WellFormed
    BY IdleType, RunnerAssumption
       DEF NewFire, WellFormed, ThreadState, PC, RunnerAssumption, TypeOK, IdleThread
  <2>3. thr' \in [Thread -> WellFormed]
    <3>1. CASE pending[name] > 0
      BY <1>3, <2>2, <3>1, SlotType, ThrOne DEF FireBatchTaken, Go, TypeOK
    <3>2. CASE ~(pending[name] > 0)
      BY <1>3, <3>2 DEF FireBatchTaken, TypeOK
    <3>. QED
      BY <3>1, <3>2
  <2>. QED
    BY <1>1, <1>3, <2>1, <2>3 DEF FireBatchTaken, TypeOK, flagVars, lockVars
<1>. QED
  BY <1>2, <1>3 DEF FireBatch

(* The steps of a goroutine: one step of the proof per action.               *)
LEMMA RunTyping ==
  ASSUME TypeOK, NEW t \in Thread, Run(t)
  PROVE  TypeOK'
<1>. DEFINE r == thr[t]
<1>1. r \in WellFormed /\ Returned(r) \in WellFormed
  BY ReturnedType DEF TypeOK
<1>2. r.job \in Job \cup {NoJob} /\ r.n \in Nat /\ r.fire.n \in Nat
  BY <1>1 DEF WellFormed, ThreadState
<1>3. r.pc \notin {"idle", "fire"} => r.job \in Job
  BY <1>1, <1>2 DEF WellFormed
<1>4. CASE Coalesce(t)
  <2>1. r.job \in Job
    BY <1>3, <1>4 DEF Coalesce, At
  <2>2. /\ pending' \in [Name -> Nat]
        /\ timers' \in [Name -> {"none", "armed", "expired"}]
    BY <1>4, <2>1 DEF Coalesce, TypeOK, Job
  <2>3. thr' \in [Thread -> WellFormed]
    BY <1>4, IdleType, ThrOne DEF Coalesce, TypeOK
  <2>. QED
    BY <1>4, <2>2, <2>3 DEF Coalesce, TypeOK, flagVars, lockVars
<1>5. CASE Absorb(t)
  <2>1. r.job \in Job /\ r.job.name \in Name
    BY <1>3, <1>5 DEF Absorb, At, Job
  <2>2. /\ pending' \in [Name -> Nat]
        /\ timers' \in [Name -> {"none", "armed", "expired"}]
    BY <1>5, <2>1 DEF Absorb, TypeOK
  <2>3. NewRun(r.job, 0, pending[r.job.name], NoChain) \in WellFormed
    <3>1. pending[r.job.name] \in Nat
      BY <2>1 DEF TypeOK
    <3>2. 0 \in 0..MaxChainDepth
      BY RunnerAssumption DEF RunnerAssumption
    <3>. QED
      BY <2>1, <3>1, <3>2, NewRunType, IdleType
  <2>4. thr' \in [Thread -> WellFormed]
    BY <1>5, <2>3, ThrOne DEF Absorb, TypeOK
  <2>. QED
    BY <1>5, <2>2, <2>4 DEF Absorb, TypeOK, flagVars, lockVars
<1>6. CASE Fire(t)
  <2>1. r.fire.name \in Name
    BY <1>1, <1>6 DEF Fire, At, WellFormed
  <2>2. InCfg(r.fire.name) => NewRun(JobOf(r.fire.name), 0, r.fire.n, NoChain) \in WellFormed
    BY <1>2, <2>1, JobInType, NewRunType, IdleType, RunnerAssumption
       DEF InCfg, JobOf, RunnerAssumption, TypeOK
  <2>3. thr' \in [Thread -> WellFormed]
    BY <1>6, <2>2, IdleType, ThrOne DEF Fire, TypeOK
  <2>. QED
    BY <1>6, <2>3 DEF Fire, TypeOK, flagVars, lockVars, timerVars
<1>7. CASE Check(t) \/ Admit(t) \/ AcquireDenied(t)
  <2>1. \A pc \in {"admit", "acquire", "denied"} :
          r.pc \in {"check", "admit", "acquire"} => [r EXCEPT !.pc = pc] \in WellFormed
    BY <1>1 DEF WellFormed, ThreadState, PC
  <2>2. PICK s \in WellFormed : thr' = [thr EXCEPT ![t] = s]
    BY <1>1, <1>7, <2>1 DEF Check, Admit, AcquireDenied, At, TypeOK
  <2>3. thr' \in [Thread -> WellFormed]
    BY <2>2, ThrOne DEF TypeOK
  <2>. QED
    BY <1>7, <2>3 DEF Check, Admit, AcquireDenied, TypeOK, flagVars, lockVars, timerVars
<1>8. CASE Acquire(t)
  <2>1. r.job \in Job /\ r.job.name \in Name
    BY <1>3, <1>8 DEF Acquire, At, Job
  <2>2. running' \subseteq Name /\ groupBusy' \subseteq Group
    BY <1>8, <2>1, GroupsOfType DEF Acquire, TypeOK
  <2>3. [r EXCEPT !.pc = "execute"] \in WellFormed
    BY <1>1, <1>8 DEF Acquire, At, WellFormed, ThreadState, PC
  <2>4. thr' = [thr EXCEPT ![t] = [r EXCEPT !.pc = "execute"]]
    BY <1>8 DEF Acquire
  <2>5. thr' \in [Thread -> WellFormed]
    BY <2>3, <2>4, ThrOne DEF TypeOK
  <2>. QED
    BY <1>8, <2>2, <2>5 DEF Acquire, TypeOK, flagVars, timerVars
<1>9. CASE Requeue(t)
  <2>1. pending' \in [Name -> Nat]
    BY <1>3, <1>9 DEF Requeue, At, Job, TypeOK
  <2>2. thr' \in [Thread -> WellFormed]
    BY <1>1, <1>9, ThrOne DEF Requeue, TypeOK
  <2>. QED
    BY <1>9, <2>1, <2>2 DEF Requeue, TypeOK, flagVars, lockVars, timerVars
<1>10. CASE Execute(t)
  <2>1. PICK st \in Outcome : thr' = [thr EXCEPT ![t].pc = "release", ![t].status = st]
    BY <1>10 DEF Execute
  <2>2. [r EXCEPT !.pc = "release", !.status = st] \in WellFormed
    BY <1>1, <1>10, <2>1, RunnerAssumption
       DEF Execute, At, WellFormed, ThreadState, PC, RunnerAssumption
  <2>3. thr' = [thr EXCEPT ![t] = [r EXCEPT !.pc = "release", !.status = st]]
    BY <2>1 DEF TypeOK
  <2>4. thr' \in [Thread -> WellFormed]
    BY <2>2, <2>3, ThrOne DEF TypeOK
  <2>. QED
    BY <1>10, <2>4 DEF Execute, TypeOK, flagVars, lockVars, timerVars
<1>11. CASE Release(t)
  <2>1. [r EXCEPT !.pc = "drain"] \in WellFormed
    BY <1>1, <1>11 DEF Release, At, WellFormed, ThreadState, PC
  <2>2. thr' = [thr EXCEPT ![t] = [r EXCEPT !.pc = "drain"]]
    BY <1>11 DEF Release
  <2>3. thr' \in [Thread -> WellFormed]
    BY <2>1, <2>2, ThrOne DEF TypeOK
  <2>. QED
    BY <1>11, <2>3 DEF Release, TypeOK, flagVars, timerVars
<1>12. CASE DrainAfter(t) \/ PickNone(t)
  <2>1. \A pc \in {"pick", "chain"} :
          r.pc \in {"drain", "pick"} => [r EXCEPT !.pc = pc] \in WellFormed
    BY <1>1 DEF WellFormed, ThreadState, PC
  <2>2. PICK pc \in {"pick", "chain"} : thr' = [thr EXCEPT ![t] = [r EXCEPT !.pc = pc]]
    BY <1>12 DEF DrainAfter, PickNone
  <2>3. thr' \in [Thread -> WellFormed]
    BY <1>12, <2>1, <2>2, ThrOne DEF DrainAfter, PickNone, At, TypeOK
  <2>. QED
    BY <1>12, <2>3 DEF DrainAfter, PickNone, TypeOK, flagVars, lockVars, timerVars
<1>13. CASE PickOne(t)
  <2>1. PICK name \in Name :
          /\ pending' = [pending EXCEPT ![name] = 0]
          /\ thr' = [thr EXCEPT ![t].pc = "launch",
                                ![t].fire = [name |-> name, n |-> pending[name]]]
    BY <1>13 DEF PickOne
  <2>2. pending' \in [Name -> Nat]
    BY <2>1 DEF TypeOK
  <2>. DEFINE s == [r EXCEPT !.pc = "launch", !.fire = [name |-> name, n |-> pending[name]]]
  <2>3. pending[name] \in Nat
    BY DEF TypeOK
  <2>4. s \in WellFormed
    BY <1>1, <1>13, <2>3 DEF PickOne, At, WellFormed, ThreadState, PC
  <2>5. thr' = [thr EXCEPT ![t] = s]
    BY <2>1 DEF TypeOK
  <2>6. thr' \in [Thread -> WellFormed]
    BY <2>4, <2>5, ThrOne DEF TypeOK
  <2>. QED
    BY <1>13, <2>2, <2>6 DEF PickOne, TypeOK, flagVars, lockVars, timerVars
<1>14. CASE Launch(t)
  <2>. DEFINE s == [r EXCEPT !.pc = "chain", !.fire = NoFire]
              child == NewRun(JobOf(r.fire.name), 0, r.fire.n, NoChain)
  <2>1. r.fire.name \in Name
    BY <1>1, <1>14 DEF Launch, At, WellFormed
  <2>2. s \in WellFormed
    BY <1>1, <1>14 DEF Launch, At, WellFormed, ThreadState, PC, NoFire
  <2>3. InCfg(r.fire.name) => child \in WellFormed
    BY <1>2, <2>1, JobInType, NewRunType, IdleType, RunnerAssumption
       DEF InCfg, JobOf, RunnerAssumption, TypeOK
  <2>4. IF InCfg(r.fire.name)
        THEN Idle # {} /\ thr' = [thr EXCEPT ![t] = s, ![Slot] = child]
        ELSE thr' = [thr EXCEPT ![t] = s]
    BY <1>14 DEF Launch, TypeOK
  <2>. HIDE DEF s, child
  <2>5. thr' \in [Thread -> WellFormed]
    BY <2>2, <2>3, <2>4, SlotType, ThrOne, ThrTwo DEF TypeOK
  <2>. QED
    BY <1>14, <2>5 DEF Launch, TypeOK, flagVars, lockVars, timerVars
<1>15. CASE ChainOn(t)
  <2>1. ChildRun(r) \in WellFormed
    BY <1>1, <1>3, <1>15, ChildRunType, RunnerAssumption
       DEF ChainOn, At, TypeOK, RunnerAssumption
  <2>2. Idle # {} /\ thr' = [thr EXCEPT ![t] = Returned(r), ![Slot] = ChildRun(r)]
    BY <1>15 DEF ChainOn
  <2>3. thr' \in [Thread -> WellFormed]
    BY <1>1, <2>1, <2>2, SlotType, ThrTwo DEF TypeOK
  <2>. QED
    BY <1>15, <2>3 DEF ChainOn, TypeOK, flagVars, lockVars, timerVars
<1>16. CASE ChainEnd(t)
  <2>1. thr' \in [Thread -> WellFormed]
    BY <1>1, <1>16, ThrOne DEF ChainEnd, TypeOK
  <2>. QED
    BY <1>16, <2>1 DEF ChainEnd, TypeOK, flagVars, lockVars, timerVars
<1>. QED
  BY <1>4, <1>5, <1>6, <1>7, <1>8, <1>9, <1>10, <1>11, <1>12, <1>13, <1>14, <1>15, <1>16
     DEF Run

LEMMA InitTyping == Init => TypeOK
<1>1. 1 \in DOMAIN Configs
  BY RunnerAssumption DEF RunnerAssumption
<1>2. 0 \in 0..MaxRequests
  BY RunnerAssumption DEF RunnerAssumption
<1>. SUFFICES ASSUME Init PROVE TypeOK
  OBVIOUS
<1>3. thr \in [Thread -> WellFormed]
  BY IdleType DEF Init
<1>. QED
  BY <1>1, <1>2, <1>3 DEF Init, TypeOK

LEMMA NextTyping == TypeOK /\ [Next]_vars => TypeOK'
<1>. SUFFICES ASSUME TypeOK, [Next]_vars PROVE TypeOK'
  OBVIOUS
<1>1. CASE UNCHANGED vars
  BY <1>1 DEF vars, TypeOK, flagVars, lockVars, timerVars
<1>2. CASE Next
  BY <1>2, EnvironmentTyping, ExpireTyping, FireBatchTyping, RunTyping DEF Next, Work
<1>. QED
  BY <1>1, <1>2

(* Every reachable state is well typed; in particular no goroutine ever runs *)
(* deeper than maxChainDepth, and none runs without a job.                   *)
THEOREM Typing == Spec => []TypeOK
BY InitTyping, NextTyping, PTL DEF Spec

-----------------------------------------------------------------------------
(* The locks.  LocksHeld alone is not inductive: a release keeps it only     *)
(* when no other goroutine holds the name or the group it frees, which is    *)
(* Exclusive; and Exclusive is kept by Acquire only because of LocksHeld.    *)

LockInv == TypeOK /\ Exclusive /\ LocksHeld

(* A step that moves no goroutine across acquire() or release().             *)
Quiet ==
  /\ UNCHANGED lockVars
  /\ Holding' = Holding
  /\ \A t \in Holding : thr'[t].job = thr[t].job

LEMMA QuietKeeps ==
  ASSUME Exclusive, LocksHeld, Quiet
  PROVE  Exclusive' /\ LocksHeld'
BY DEF Exclusive, LocksHeld, Quiet, lockVars, GroupsOf

(* Goroutines outside the locks before and after the step do not matter.     *)
LEMMA QuietOne ==
  ASSUME TypeOK, NEW t \in Thread, NEW r,
         thr[t].pc \notin {"execute", "release"}, r.pc \notin {"execute", "release"},
         thr' = [thr EXCEPT ![t] = r], UNCHANGED lockVars
  PROVE  Quiet
BY DEF TypeOK, Quiet, Holding, At

LEMMA QuietTwo ==
  ASSUME TypeOK, NEW t \in Thread, NEW u \in Thread, NEW r, NEW s,
         thr[t].pc \notin {"execute", "release"}, r.pc \notin {"execute", "release"},
         thr[u].pc \notin {"execute", "release"}, s.pc \notin {"execute", "release"},
         thr' = [thr EXCEPT ![t] = r, ![u] = s], UNCHANGED lockVars
  PROVE  Quiet
BY DEF TypeOK, Quiet, Holding, At

LEMMA QuietThr ==
  ASSUME UNCHANGED <<thr, lockVars>>
  PROVE  Quiet
BY DEF Quiet, Holding, At, lockVars

(* Every step but Acquire and Release is quiet.                              *)
LEMMA EnvironmentQuiet ==
  ASSUME TypeOK, Environment
  PROVE  Quiet
<1>1. CASE Request
  <2>1. PICK job \in Snapshots : Trigger(job) \/ ForceRun(job)
    BY <1>1 DEF Request
  <2>2. PICK r : Go(r) /\ r.pc \notin {"execute", "release"}
    <3>1. NewRun(job, 0, 0, NoChain).pc = "check"
      BY DEF NewRun
    <3>2. NewCall("trigger", job).pc = "trigger" /\ NewCall("force", job).pc = "force"
      BY DEF NewCall, IdleThread
    <3>3. CASE Trigger(job)
      <4>1. \/ Go(NewCall("trigger", job))
            \/ Go(NewRun(job, 0, 0, NoChain))
        BY <3>3, Zenon DEF Trigger
      <4>. QED
        BY <3>1, <3>2, <4>1
    <3>4. CASE ForceRun(job)
      BY <3>2, <3>4 DEF ForceRun
    <3>. QED
      BY <2>1, <3>3, <3>4
  <2>. QED
    BY <1>1, <2>2, SlotType, QuietOne DEF Go, Request
<1>2. CASE ~Request
  BY <1>2, QuietThr DEF Environment, SetDraining, SetDisabled, Reload
<1>. QED
  BY <1>1, <1>2

LEMMA TimersQuiet ==
  ASSUME TypeOK, NEW name \in Name, Expire(name) \/ FireBatch(name)
  PROVE  Quiet
<1>1. CASE thr' = thr
  BY <1>1, QuietThr DEF Expire, FireBatch, FireBatchKept, FireBatchTaken
<1>2. CASE thr' # thr
  <2>1. PICK r : Go(r) /\ r.pc \notin {"execute", "release"}
    <3>1. NewFire(name, pending[name]).pc = "fire"
      BY DEF NewFire, IdleThread
    <3>2. Go(NewFire(name, pending[name]))
      BY <1>2 DEF Expire, FireBatch, FireBatchKept, FireBatchTaken
    <3>. QED
      BY <3>1, <3>2
  <2>2. UNCHANGED lockVars
    BY DEF Expire, FireBatch, FireBatchKept, FireBatchTaken
  <2>. QED
    BY <2>1, <2>2, SlotType, QuietOne DEF Go
<1>. QED
  BY <1>1, <1>2

LEMMA RunQuiet ==
  ASSUME TypeOK, NEW t \in Thread, Run(t), ~Acquire(t), ~Release(t)
  PROVE  Quiet
<1>. DEFINE r == thr[t]
            Out(s) == s.pc \notin {"execute", "release"}
<1>1. r \in WellFormed /\ Out(Returned(r)) /\ Out(IdleThread)
  BY ReturnedType, IdleType DEF TypeOK
<1>2. CASE Coalesce(t) \/ Absorb(t) \/ Fire(t)
  <2>1. PICK s : thr' = [thr EXCEPT ![t] = s] /\ Out(s)
    BY <1>1, <1>2 DEF Coalesce, Absorb, Fire, NewRun
  <2>. QED
    BY <1>2, <2>1, QuietOne DEF Coalesce, Absorb, Fire, At
<1>3. CASE Check(t) \/ Admit(t) \/ AcquireDenied(t) \/ Requeue(t)
  <2>1. PICK s : thr' = [thr EXCEPT ![t] = s] /\ Out(s)
    BY <1>1, <1>3 DEF Check, Admit, AcquireDenied, Requeue, WellFormed, ThreadState
  <2>. QED
    BY <1>3, <2>1, QuietOne DEF Check, Admit, AcquireDenied, Requeue, At
<1>4. CASE Execute(t)
  BY <1>4 DEF Execute, At, Quiet, Holding, TypeOK, WellFormed, ThreadState
<1>5. CASE DrainAfter(t) \/ PickNone(t) \/ ChainEnd(t)
  <2>1. PICK s : thr' = [thr EXCEPT ![t] = s] /\ Out(s)
    BY <1>1, <1>5 DEF DrainAfter, PickNone, ChainEnd, WellFormed, ThreadState
  <2>. QED
    BY <1>5, <2>1, QuietOne DEF DrainAfter, PickNone, ChainEnd, At
<1>6. CASE PickOne(t)
  <2>1. PICK name \in Name :
          thr' = [thr EXCEPT ![t].pc = "launch",
                             ![t].fire = [name |-> name, n |-> pending[name]]]
    BY <1>6 DEF PickOne
  <2>. DEFINE s == [r EXCEPT !.pc = "launch", !.fire = [name |-> name, n |-> pending[name]]]
  <2>2. thr' = [thr EXCEPT ![t] = s] /\ Out(s)
    BY <1>1, <2>1 DEF WellFormed, ThreadState, TypeOK
  <2>. QED
    BY <1>6, <2>2, QuietOne DEF PickOne, At
<1>7. CASE Launch(t)
  <2>. DEFINE s == [r EXCEPT !.pc = "chain", !.fire = NoFire]
              child == NewRun(JobOf(r.fire.name), 0, r.fire.n, NoChain)
  <2>1. Out(s) /\ Out(child) /\ Out(r)
    BY <1>1, <1>7 DEF Launch, At, NewRun, WellFormed, ThreadState
  <2>2. IF InCfg(r.fire.name)
        THEN Idle # {} /\ thr' = [thr EXCEPT ![t] = s, ![Slot] = child]
        ELSE thr' = [thr EXCEPT ![t] = s]
    BY <1>7 DEF Launch, TypeOK
  <2>3. UNCHANGED lockVars
    BY <1>7 DEF Launch
  <2>. HIDE DEF s, child
  <2>. QED
    BY <2>1, <2>2, <2>3, SlotType, QuietOne, QuietTwo
<1>8. CASE ChainOn(t)
  <2>1. Out(ChildRun(r)) /\ Out(r)
    <3>1. r.job # NoJob
      BY <1>1, <1>8 DEF ChainOn, At, WellFormed
    <3>. QED
      BY <1>1, <1>8, <3>1, ChildRunType DEF ChainOn, At, TypeOK
  <2>. QED
    BY <1>1, <1>8, <2>1, SlotType, QuietTwo DEF ChainOn
<1>. QED
  BY <1>2, <1>3, <1>4, <1>5, <1>6, <1>7, <1>8 DEF Run

LEMMA AcquireLocks ==
  ASSUME LockInv, NEW t \in Thread, Acquire(t)
  PROVE  Exclusive' /\ LocksHeld'
<1>. DEFINE job == thr[t].job
<1>1. t \notin Holding /\ Holding' = Holding \cup {t}
  BY DEF LockInv, TypeOK, Acquire, Holding, At, WellFormed, ThreadState
<1>2. \A u \in Thread : thr'[u].job = thr[u].job
  BY DEF LockInv, TypeOK, Acquire, WellFormed, ThreadState
<1>3. Holding \subseteq Thread
  BY DEF Holding
<1>4. /\ \A u \in Holding : thr[u].job.name # job.name
      /\ \A u \in Holding : GroupsOf(thr[u].job) \cap GroupsOf(job) = {}
  BY <1>3 DEF LockInv, LocksHeld, Acquire, Busy, GroupsOf
<1>5. Exclusive'
  BY <1>1, <1>2, <1>3, <1>4 DEF LockInv, Exclusive, GroupsOf
<1>6. running' = {thr'[u].job.name : u \in Holding'}
  BY <1>1, <1>2, <1>3 DEF LockInv, LocksHeld, Acquire
<1>7. groupBusy' = UNION {GroupsOf(thr'[u].job) : u \in Holding'}
  BY <1>1, <1>2, <1>3 DEF LockInv, LocksHeld, Acquire
<1>. QED
  BY <1>5, <1>6, <1>7 DEF LocksHeld, GroupsOf

LEMMA ReleaseLocks ==
  ASSUME LockInv, NEW t \in Thread, Release(t)
  PROVE  Exclusive' /\ LocksHeld'
<1>. DEFINE job == thr[t].job
<1>1. t \in Holding /\ Holding' = Holding \ {t}
  BY DEF LockInv, TypeOK, Release, Holding, At, WellFormed, ThreadState
<1>2. \A u \in Thread : thr'[u].job = thr[u].job
  BY DEF LockInv, TypeOK, Release, WellFormed, ThreadState
<1>3. Holding \subseteq Thread
  BY DEF Holding
<1>4. \A u \in Holding' : /\ thr[u].job.name # job.name
                          /\ GroupsOf(thr[u].job) \cap GroupsOf(job) = {}
  BY <1>1 DEF LockInv, Exclusive
<1>5. Exclusive'
  BY <1>1, <1>2, <1>3 DEF LockInv, Exclusive, GroupsOf
<1>6. running' = {thr'[u].job.name : u \in Holding'}
  BY <1>1, <1>2, <1>3, <1>4 DEF LockInv, LocksHeld, Release
<1>7. groupBusy' = UNION {GroupsOf(thr'[u].job) : u \in Holding'}
  BY <1>1, <1>2, <1>3, <1>4 DEF LockInv, LocksHeld, Release
<1>. QED
  BY <1>5, <1>6, <1>7 DEF LocksHeld, GroupsOf

LEMMA NextQuiet ==
  ASSUME TypeOK, [Next]_vars
  PROVE  Quiet \/ \E t \in Thread : Acquire(t) \/ Release(t)
<1>1. CASE UNCHANGED vars
  BY <1>1, QuietThr DEF vars
<1>2. CASE Next
  BY <1>2, EnvironmentQuiet, TimersQuiet, RunQuiet DEF Next, Work
<1>. QED
  BY <1>1, <1>2

LEMMA InitLocks == Init => LockInv
BY InitTyping DEF Init, LockInv, Exclusive, LocksHeld, Holding, At, IdleThread

LEMMA NextLocks == LockInv /\ [Next]_vars => LockInv'
<1>. SUFFICES ASSUME LockInv, [Next]_vars PROVE LockInv'
  OBVIOUS
<1>1. TypeOK'
  BY NextTyping DEF LockInv
<1>2. Exclusive' /\ LocksHeld'
  BY NextQuiet, QuietKeeps, AcquireLocks, ReleaseLocks DEF LockInv
<1>. QED
  BY <1>1, <1>2 DEF LockInv

LEMMA LockInvariant == Spec => []LockInv
BY InitLocks, NextLocks, PTL DEF Spec

(* No job and no group is ever in two executions at once.                    *)
THEOREM MutualExclusion == Spec => []Exclusive
BY LockInvariant, PTL DEF LockInv

(* The maps running and groupBusy hold the locks of the executions in        *)
(* progress and nothing else: no lock leaks, and none is freed early.        *)
THEOREM NoLockLeaks == Spec => []LocksHeld
BY LockInvariant, PTL DEF LockInv

-----------------------------------------------------------------------------
(* The Runner implements ExclusiveRuns.                                      *)

Active == {<<thr[t].job.name, thr[t].job.group>> : t \in Holding}

LEMMA QuietStutters ==
  ASSUME Quiet
  PROVE  Active' = Active
BY DEF Quiet, Active

LEMMA HolderType ==
  ASSUME TypeOK, NEW t \in Thread, At(t, "acquire") \/ At(t, "execute") \/ At(t, "release")
  PROVE  /\ thr[t].job \in Job
         /\ <<thr[t].job.name, thr[t].job.group>> \in Abstract!Execution
BY DEF TypeOK, At, WellFormed, ThreadState, Job, Abstract!Execution

LEMMA AcquireStarts ==
  ASSUME LockInv, NEW t \in Thread, Acquire(t)
  PROVE  Abstract!Next
<1>. DEFINE e == <<thr[t].job.name, thr[t].job.group>>
<1>1. Holding' = Holding \cup {t}
  BY DEF LockInv, TypeOK, Acquire, Holding, At, WellFormed, ThreadState
<1>2. \A u \in Thread : thr'[u].job = thr[u].job
  BY DEF LockInv, TypeOK, Acquire, WellFormed, ThreadState
<1>3. Holding \subseteq Thread
  BY DEF Holding
<1>4. Active' = Active \cup {e}
  BY <1>1, <1>2, <1>3 DEF Active
<1>5. \A u \in Holding :
        ~Abstract!Conflict(e, <<thr[u].job.name, thr[u].job.group>>)
  BY <1>3 DEF LockInv, LocksHeld, Acquire, Busy, GroupsOf, Abstract!Conflict
<1>6. e \in Abstract!Execution
  BY HolderType DEF LockInv, Acquire
<1>. QED
  BY <1>4, <1>5, <1>6 DEF Abstract!Next, Abstract!Start, Active

LEMMA ReleaseFinishes ==
  ASSUME LockInv, NEW t \in Thread, Release(t)
  PROVE  Abstract!Next
<1>. DEFINE e == <<thr[t].job.name, thr[t].job.group>>
<1>1. t \in Holding /\ Holding' = Holding \ {t}
  BY DEF LockInv, TypeOK, Release, Holding, At, WellFormed, ThreadState
<1>2. \A u \in Thread : thr'[u].job = thr[u].job
  BY DEF LockInv, TypeOK, Release, WellFormed, ThreadState
<1>3. Holding \subseteq Thread
  BY DEF Holding
<1>4. \A u \in Holding' : thr[u].job.name # thr[t].job.name
  BY <1>1 DEF LockInv, Exclusive
<1>5. e \in Active /\ Active' = Active \ {e}
  BY <1>1, <1>2, <1>3, <1>4 DEF Active
<1>6. e \in Abstract!Execution
  BY HolderType DEF LockInv, Release
<1>. QED
  BY <1>5, <1>6 DEF Abstract!Next, Abstract!Finish, Active

(* With the executions in progress as its state, every step of the Runner is *)
(* the start of one that conflicts with none, the end of one, or nothing.    *)
THEOREM ImplementsExclusiveRuns == Spec => Serialized
<1>1. Init => Abstract!Init
  BY DEF Init, Abstract!Init, Holding, At, IdleThread
<1>2. LockInv /\ [Next]_vars => [Abstract!Next]_Active
  <2>. SUFFICES ASSUME LockInv, [Next]_vars PROVE Abstract!Next \/ Active' = Active
    OBVIOUS
  <2>. QED
    BY NextQuiet, QuietStutters, AcquireStarts, ReleaseFinishes DEF LockInv
<1>. QED
  BY <1>1, <1>2, LockInvariant, PTL DEF Spec, Serialized, Abstract!Spec, Active

-----------------------------------------------------------------------------
(* Drain mode.                                                               *)

Flagged == {"trigger", "force", "pick", "acquire"}

(* The step starts no run and takes no batch.                                *)
Idles == running' \subseteq running /\ \A name \in Name : pending'[name] >= pending[name]

(* What DrainHolds says of a step.                                           *)
Shut == PastFlag' \subseteq PastFlag /\ (PastFlag' # PastFlag \/ Idles)

LEMMA IdleEnough ==
  ASSUME TypeOK, running' \subseteq running, UNCHANGED pending
  PROVE  Idles
BY DEF Idles, TypeOK

(* A goroutine that comes to a pc of no interest: if it was past a look at   *)
(* the flag, it is no longer.                                                *)
LEMMA PastOne ==
  ASSUME TypeOK, NEW t \in Thread, NEW s, s.pc \notin Flagged,
         thr' = [thr EXCEPT ![t] = s]
  PROVE  /\ PastFlag' \subseteq PastFlag
         /\ thr[t].pc \in Flagged => PastFlag' # PastFlag
BY DEF TypeOK, PastFlag, Flagged, At

LEMMA PastTwo ==
  ASSUME TypeOK, NEW t \in Thread, NEW u \in Thread, NEW s, NEW c,
         s.pc \notin Flagged, c.pc \notin Flagged,
         thr' = [thr EXCEPT ![t] = s, ![u] = c]
  PROVE  PastFlag' \subseteq PastFlag
BY DEF TypeOK, PastFlag, Flagged, At

LEMMA PastSame ==
  ASSUME TypeOK, thr' = thr, Idles
  PROVE  Shut
BY DEF Shut, PastFlag, At

(* Nobody from outside gets past the flag: a call that is let through goes   *)
(* to run(), and the rest is refused.                                        *)
LEMMA EnvironmentShut ==
  ASSUME TypeOK, Environment, draining
  PROVE  Shut
<1>1. ~Request
  BY DEF Request, Trigger, ForceRun
<1>2. UNCHANGED <<thr, running, pending>>
  BY <1>1 DEF Environment, SetDraining, SetDisabled, Reload, lockVars
<1>. QED
  BY <1>2, PastSame, IdleEnough

LEMMA TimersShut ==
  ASSUME TypeOK, draining, NEW name \in Name, Expire(name) \/ FireBatch(name)
  PROVE  Shut
<1>1. UNCHANGED <<thr, running, pending>>
  BY DEF Expire, FireBatch, FireBatchKept, FireBatchTaken, lockVars
<1>. QED
  BY <1>1, PastSame, IdleEnough

LEMMA RunShut ==
  ASSUME TypeOK, draining, NEW t \in Thread, Run(t)
  PROVE  Shut
<1>. DEFINE r == thr[t]
            Off(s) == s.pc \notin Flagged
<1>1. r \in WellFormed /\ Off(Returned(r)) /\ Off(IdleThread)
  BY ReturnedType, IdleType DEF TypeOK, Flagged
<1>2. CASE Coalesce(t) \/ Absorb(t)
  <2>1. r.pc \in Flagged
    BY <1>2 DEF Coalesce, Absorb, At, Flagged
  <2>2. PICK s : thr' = [thr EXCEPT ![t] = s] /\ Off(s)
    BY <1>1, <1>2 DEF Coalesce, Absorb, NewRun, Flagged
  <2>. QED
    BY <2>1, <2>2, PastOne DEF Shut
<1>3. CASE Acquire(t) \/ PickOne(t)
  <2>1. r.pc \in Flagged
    BY <1>3 DEF Acquire, PickOne, At, Flagged
  <2>2. CASE Acquire(t)
    <3>. DEFINE s == [r EXCEPT !.pc = "execute"]
    <3>1. thr' = [thr EXCEPT ![t] = s] /\ Off(s)
      BY <1>1, <2>2 DEF Acquire, WellFormed, ThreadState, Flagged
    <3>. QED
      BY <2>1, <3>1, PastOne DEF Shut
  <2>3. CASE PickOne(t)
    <3>1. PICK name \in Name :
            thr' = [thr EXCEPT ![t].pc = "launch",
                               ![t].fire = [name |-> name, n |-> pending[name]]]
      BY <2>3 DEF PickOne
    <3>. DEFINE s == [r EXCEPT !.pc = "launch", !.fire = [name |-> name, n |-> pending[name]]]
    <3>2. thr' = [thr EXCEPT ![t] = s] /\ Off(s)
      BY <1>1, <3>1 DEF WellFormed, ThreadState, TypeOK, Flagged
    <3>. QED
      BY <2>1, <3>2, PastOne DEF Shut
  <2>. QED
    BY <1>3, <2>2, <2>3
<1>4. CASE Fire(t) \/ Check(t) \/ Admit(t) \/ AcquireDenied(t) \/ Requeue(t)
           \/ Release(t) \/ DrainAfter(t) \/ PickNone(t) \/ ChainEnd(t)
  <2>1. Idles
    <3>1. CASE Requeue(t)
      BY <3>1 DEF Requeue, lockVars, Idles, TypeOK
    <3>2. CASE ~Requeue(t)
      BY <1>4, <3>2, IdleEnough
         DEF Fire, Check, Admit, AcquireDenied, Release, DrainAfter, PickNone, ChainEnd,
             lockVars
    <3>. QED
      BY <3>1, <3>2
  <2>2. PICK s : thr' = [thr EXCEPT ![t] = s] /\ Off(s)
    <3>1. CASE Fire(t)
      <4>. DEFINE child == NewRun(JobOf(r.fire.name), 0, r.fire.n, NoChain)
      <4>1. Off(child)
        BY DEF NewRun, Flagged
      <4>2. \/ thr' = [thr EXCEPT ![t] = child]
            \/ thr' = [thr EXCEPT ![t] = IdleThread]
        BY <3>1 DEF Fire
      <4>. HIDE DEF child, Off
      <4>. QED
        BY <1>1, <4>1, <4>2, Zenon
    <3>2. CASE ~Fire(t)
      <4>1. \/ thr' = [thr EXCEPT ![t] = Returned(r)]
            \/ \E pc \in {"admit", "denied", "drain", "chain"} :
                 thr' = [thr EXCEPT ![t] = [r EXCEPT !.pc = pc]]
        <5>1. CASE Check(t) \/ Admit(t) \/ AcquireDenied(t) \/ Requeue(t)
          BY <5>1 DEF Check, Admit, AcquireDenied, Requeue
        <5>2. CASE Release(t) \/ DrainAfter(t) \/ PickNone(t) \/ ChainEnd(t)
          BY <5>2 DEF Release, DrainAfter, PickNone, ChainEnd, TypeOK
        <5>. QED
          BY <1>4, <3>2, <5>1, <5>2
      <4>2. \A pc \in {"admit", "denied", "drain", "chain"} :
              [r EXCEPT !.pc = pc].pc = pc /\ pc \notin Flagged
        BY <1>1 DEF WellFormed, ThreadState, Flagged
      <4>3. CASE thr' = [thr EXCEPT ![t] = Returned(r)]
        BY <1>1, <4>3, Zenon
      <4>4. ASSUME NEW pc \in {"admit", "denied", "drain", "chain"},
                   thr' = [thr EXCEPT ![t] = [r EXCEPT !.pc = pc]]
            PROVE  \E s : thr' = [thr EXCEPT ![t] = s] /\ Off(s)
        <5>1. Off([r EXCEPT !.pc = pc])
          BY <4>2, <4>4
        <5>. HIDE DEF Off
        <5>. QED
          BY <4>4, <5>1, Zenon
      <4>. QED
        BY <4>1, <4>3, <4>4
    <3>. QED
      BY <3>1, <3>2
  <2>. QED
    BY <2>1, <2>2, PastOne DEF Shut
<1>5. CASE Execute(t)
  <2>1. PastFlag' \subseteq PastFlag
    BY <1>5 DEF Execute, PastFlag, At, TypeOK, WellFormed, ThreadState
  <2>. QED
    BY <1>5, <2>1, IdleEnough DEF Execute, lockVars, Shut
<1>6. CASE Launch(t)
  <2>. DEFINE s == [r EXCEPT !.pc = "chain", !.fire = NoFire]
              child == NewRun(JobOf(r.fire.name), 0, r.fire.n, NoChain)
  <2>1. Off(s) /\ Off(child)
    BY <1>1 DEF NewRun, WellFormed, ThreadState, Flagged
  <2>2. IF InCfg(r.fire.name)
        THEN Idle # {} /\ thr' = [thr EXCEPT ![t] = s, ![Slot] = child]
        ELSE thr' = [thr EXCEPT ![t] = s]
    BY <1>6 DEF Launch, TypeOK
  <2>3. Idles
    BY <1>6, IdleEnough DEF Launch, lockVars
  <2>. HIDE DEF s, child
  <2>. QED
    BY <2>1, <2>2, <2>3, SlotType, PastOne, PastTwo DEF Shut
<1>7. CASE ChainOn(t)
  <2>1. Off(ChildRun(r))
    <3>1. r.job # NoJob
      BY <1>1, <1>7 DEF ChainOn, At, WellFormed
    <3>. QED
      BY <1>1, <3>1, ChildRunType DEF TypeOK, Flagged
  <2>2. Idles
    BY <1>7, IdleEnough DEF ChainOn, lockVars
  <2>. QED
    BY <1>1, <1>7, <2>1, <2>2, SlotType, PastTwo DEF ChainOn, Shut
<1>. QED
  BY <1>2, <1>3, <1>4, <1>5, <1>6, <1>7 DEF Run

(* Drain mode closes every way to a run, for every set of jobs, groups and   *)
(* goroutines and every chain of configurations: while it stays on, the      *)
(* number of runs that start and batches that are taken is at most that of   *)
(* the goroutines which had read the flag before.                            *)
THEOREM DrainCloses == Spec => DrainHolds
<1>1. TypeOK /\ [Next]_vars =>
        [draining /\ draining' =>
           /\ PastFlag' \subseteq PastFlag
           /\ \/ PastFlag' # PastFlag
              \/ /\ running' \subseteq running
                 /\ \A name \in Name : pending'[name] >= pending[name]]_vars
  <2>. SUFFICES ASSUME TypeOK, Next, draining PROVE Shut
    BY DEF Shut, Idles
  <2>. QED
    BY EnvironmentShut, TimersShut, RunShut DEF Next, Work
<1>. QED
  BY <1>1, Typing, PTL DEF Spec, DrainHolds
=============================================================================
