--------------------------- MODULE DebounceProofs ---------------------------
(***************************************************************************)
(* Proofs about the debounced triggers.  With clock and deadlines the      *)
(* Runner is still the Runner, so that what is proved of it holds of the   *)
(* timed one.  What the goroutines hold of a job's triggers is counted by  *)
(* a cardinality, and every step has its balance: no trigger counts twice, *)
(* and on a server nobody reconfigures the last one is never lost.  Last,  *)
(* the reason why none that somebody is to look at waits beyond            *)
(* debounce_max.                                                           *)
(***************************************************************************)
EXTENDS Debounce, RunnerBatches, RunnerProofs, FiniteSetTheorems

-----------------------------------------------------------------------------
(* Every timed step is a step of the Runner, or leaves it alone.             *)
LEMMA TimedStep ==
  ASSUME [TimedNext]_timedVars
  PROVE  [Next]_vars
<1>1. CASE UNCHANGED timedVars
  BY <1>1 DEF timedVars
<1>2. ASSUME NEW t \in Thread, TimedCoalesce(t) \/ TimedAbsorb(t) \/ TimedRequeue(t)
      PROVE  Next
  BY <1>2 DEF TimedCoalesce, TimedAbsorb, TimedRequeue, Run, Next, Work
<1>3. ASSUME NEW name \in Name,
             ExpireEntry(name) \/ ExpireStray(name) \/ TimedFireBatch(name)
      PROVE  Next
  BY <1>3 DEF ExpireEntry, ExpireStray, TimedFireBatch, Next, Work
<1>4. CASE Untimed
  BY <1>4 DEF Untimed, Next, Work, Environment
<1>5. CASE Tick
  BY <1>5 DEF Tick
<1>. QED
  BY <1>1, <1>2, <1>3, <1>4, <1>5 DEF TimedNext

LEMMA TimedStart == TimedInit => Init
BY DEF TimedInit, SteadyInit

(* The clock takes nothing away and adds nothing: each behaviour of the      *)
(* window is one of the Runner, where a timer may expire at any time.        *)
THEOREM TimedIsRunner == TimedSpec => Spec
BY TimedStart, TimedStep, PTL DEF TimedSpec, Spec

(* No two executions of one job or group, whatever the deadlines.            *)
THEOREM TimedExclusion == TimedSpec => []Exclusive
BY TimedIsRunner, MutualExclusion, PTL

-----------------------------------------------------------------------------
(* The times.                                                                *)

WindowInv == TypeOK /\ TimedTypeOK

LEMMA NoteType ==
  ASSUME TimedTypeOK, \/ NoteTaken
                      \/ \E name \in Name : Note(name)
                      \/ UNCHANGED noticed
  PROVE  noticed' \in [Name -> Time \cup {Never}]
BY DEF Note, NoteTaken, TimedTypeOK

(* The delay of a timer is never longer than the window.                     *)
LEMMA DelayType ==
  ASSUME TimedTypeOK, NEW name \in Name
  PROVE  First(name) \in Time /\ Delay(name) \in 0..Window
<1>1. First(name) \in Time
  BY DebounceAssumption DEF TimedTypeOK, First, Time, Never
<1>. QED
  BY <1>1, DebounceAssumption DEF Delay, DebounceAssumption, TimedTypeOK, Time

LEMMA CoalesceTimes ==
  ASSUME WindowInv, NEW t \in Thread, TimedCoalesce(t)
  PROVE  TimedTypeOK'
<1>. DEFINE name == thr[t].job.name
<1>1. name \in Name
  BY RunnerAssumption
     DEF WindowInv, TypeOK, TimedCoalesce, Coalesce, At, WellFormed, ThreadState, Job
<1>2. now + Delay(name) \in Deadline /\ now + Delay(name) # Never
  BY <1>1, DelayType, DebounceAssumption, SMTT(30)
     DEF WindowInv, TimedTypeOK, DebounceAssumption, Time, Deadline, Never
<1>3. First(name) \in Time
  BY <1>1, DelayType DEF WindowInv
<1>4. UNCHANGED <<now, strays>>
  BY DEF TimedCoalesce
<1>5. /\ firstAt' \in [Name -> Time \cup {Never}]
      /\ firesAt' \in [Name -> Deadline \cup {Never}]
      /\ noticed' \in [Name -> Time \cup {Never}]
  <2>1. /\ firstAt \in [Name -> Time \cup {Never}] /\ firesAt \in [Name -> Deadline \cup {Never}]
    BY DEF WindowInv, TimedTypeOK
  <2>2. /\ \/ UNCHANGED <<firstAt, firesAt>>
           \/ /\ firstAt' = [firstAt EXCEPT ![name] = First(name)]
              /\ firesAt' = [firesAt EXCEPT ![name] = now + Delay(name)]
        /\ Note(name)
    BY DEF TimedCoalesce
  <2>. HIDE DEF name
  <2>3. firstAt' \in [Name -> Time \cup {Never}] /\ firesAt' \in [Name -> Deadline \cup {Never}]
    BY <1>1, <1>2, <1>3, <2>1, <2>2
  <2>4. noticed' \in [Name -> Time \cup {Never}]
    BY <1>1, <2>2, NoteType DEF WindowInv
  <2>. QED
    BY <2>3, <2>4
<1>6. \A m \in Name : timers'[m] = "none" <=> firesAt'[m] = Never
  BY <1>1, <1>2 DEF TimedCoalesce, Coalesce, WindowInv, TimedTypeOK, TypeOK
<1>. QED
  BY <1>4, <1>5, <1>6 DEF WindowInv, TimedTypeOK

LEMMA AbsorbTimes ==
  ASSUME WindowInv, NEW t \in Thread, TimedAbsorb(t)
  PROVE  TimedTypeOK'
<1>1. thr[t].job.name \in Name
  BY RunnerAssumption
     DEF WindowInv, TypeOK, TimedAbsorb, Absorb, At, WellFormed, ThreadState, Job
<1>. QED
  BY <1>1, NoteType DEF TimedAbsorb, Absorb, WindowInv, TimedTypeOK, TypeOK, Forget

LEMMA TimerTimes ==
  ASSUME WindowInv, NEW name \in Name,
         ExpireEntry(name) \/ ExpireStray(name) \/ TimedFireBatch(name)
  PROVE  TimedTypeOK'
<1>1. CASE ExpireEntry(name)
  BY <1>1
     DEF ExpireEntry, Expire, WindowInv, TimedTypeOK, TypeOK, windowVars
<1>2. CASE ExpireStray(name)
  <2>1. strays' \in [Name -> [Deadline -> Nat]]
    BY <1>2 DEF ExpireStray, WindowInv, TimedTypeOK
  <2>. QED
    BY <1>2, <2>1 DEF ExpireStray, WindowInv, TimedTypeOK
<1>3. CASE TimedFireBatch(name)
  <2>1. timers[name] = "armed" => firesAt[name] \in Deadline
    BY DEF WindowInv, TimedTypeOK
  <2>2. strays' \in [Name -> [Deadline -> Nat]]
    BY <1>3, <2>1 DEF TimedFireBatch, WindowInv, TimedTypeOK
  <2>3. timers' = [timers EXCEPT ![name] = "none"]
    BY <1>3 DEF TimedFireBatch, FireBatch, FireBatchKept, FireBatchTaken, DropEntry
  <2>. QED
    BY <1>3, <2>2, <2>3, NoteType DEF TimedFireBatch, WindowInv, TimedTypeOK, TypeOK, Forget
<1>. QED
  BY <1>1, <1>2, <1>3

(* drainAfter takes a batch and leaves the timer of the entry to it.         *)
LEMMA UntimedFrame ==
  ASSUME Untimed
  PROVE  UNCHANGED <<timers, callbacks, now, firstAt, firesAt, strays>> /\ NoteTaken
<1>1. Request => UNCHANGED <<timers, callbacks>>
  BY DEF Request, timerVars
<1>2. ASSUME NEW t \in Thread, Run(t), thr[t].pc \notin {"trigger", "force", "denied"}
      PROVE  UNCHANGED <<timers, callbacks>>
  BY <1>2 DEF Run, Coalesce, Absorb, Fire, Check, Admit, Acquire, AcquireDenied, Requeue,
              Execute, Release, DrainAfter, PickNone, PickOne, Launch, ChainOn, ChainEnd,
              At, timerVars
<1>. QED
  BY <1>1, <1>2 DEF Untimed, windowVars

LEMMA RequeueTimes ==
  ASSUME WindowInv, NEW t \in Thread, TimedRequeue(t)
  PROVE  TimedTypeOK'
<1>1. thr[t].job.name \in Name
  BY RunnerAssumption
     DEF WindowInv, TypeOK, TimedRequeue, Requeue, At, WellFormed, ThreadState, Job
<1>2. UNCHANGED <<now, firstAt, firesAt, strays, timers>>
  BY DEF TimedRequeue, Requeue, windowVars, timerVars
<1>3. noticed' \in [Name -> Time \cup {Never}]
  BY <1>1, NoteType DEF TimedRequeue, WindowInv
<1>. QED
  BY <1>2, <1>3 DEF WindowInv, TimedTypeOK

LEMMA UntimedTimes ==
  ASSUME WindowInv, Untimed
  PROVE  TimedTypeOK'
BY NoteType, UntimedFrame DEF WindowInv, TimedTypeOK

LEMMA NextTimes == WindowInv /\ [TimedNext]_timedVars => WindowInv'
<1>. SUFFICES ASSUME WindowInv, [TimedNext]_timedVars PROVE WindowInv'
  OBVIOUS
<1>1. TypeOK'
  BY TimedStep, NextTyping DEF WindowInv
<1>2. CASE UNCHANGED timedVars
  BY <1>1, <1>2
     DEF timedVars, vars, timerVars, windowVars, WindowInv, TimedTypeOK
<1>3. CASE Tick
  BY <1>1, <1>3, DebounceAssumption
     DEF Tick, Time, vars, timerVars, windowVars, WindowInv, TimedTypeOK,
         DebounceAssumption
<1>. QED
  BY <1>1, <1>2, <1>3, CoalesceTimes, AbsorbTimes, RequeueTimes, TimerTimes, UntimedTimes
     DEF WindowInv, TimedNext

LEMMA InitTimes == TimedInit => WindowInv
BY TimedStart, InitTyping, DebounceAssumption
   DEF TimedInit, SteadyInit, Init, WindowInv, TimedTypeOK, Time, DebounceAssumption

(* An armed timer with the entry has one deadline, at most a window ahead of *)
(* the clock's bound, and each timer that lost its entry keeps one.          *)
THEOREM WindowTyping == TimedSpec => []TimedTypeOK
BY InitTimes, NextTimes, PTL DEF TimedSpec, WindowInv
-----------------------------------------------------------------------------
(* Counting what the goroutines hold.                                        *)

Tokens(f) == UNION {{t} \X (1..f[t]) : t \in Thread}

LEMMA TokensFinite ==
  ASSUME NEW f \in [Thread -> Nat]
  PROVE  IsFiniteSet(Tokens(f))
<1>. DEFINE T == {{t} \X (1..f[t]) : t \in Thread}
            g == [t \in Thread |-> {t} \X (1..f[t])]
<1>1. g \in Surjection(Thread, T)
  BY DEF Surjection
<1>2. IsFiniteSet(T)
  BY <1>1, FS_Surjection, BatchesAssumption DEF BatchesAssumption
<1>3. ASSUME NEW t \in Thread PROVE IsFiniteSet({t} \X (1..f[t]))
  <2>1. f[t] \in Int
    OBVIOUS
  <2>2. IsFiniteSet({t})
    BY FS_Singleton, Zenon
  <2>3. IsFiniteSet(1..f[t])
    BY <2>1, FS_Interval
  <2>. QED
    BY <2>2, <2>3, FS_Product, Zenon
<1>. QED
  BY <1>2, <1>3, FS_UNION DEF Tokens

(* One goroutine's share: n tokens.                                          *)
LEMMA Share ==
  ASSUME NEW t, NEW n \in Nat
  PROVE  IsFiniteSet({t} \X (1..n)) /\ Cardinality({t} \X (1..n)) = n
<1>1. IsFiniteSet({t}) /\ Cardinality({t}) = 1
  BY FS_Singleton, Zenon
<1>2. IsFiniteSet(1..n) /\ Cardinality(1..n) = n
  BY FS_Interval
<1>3. /\ IsFiniteSet({t} \X (1..n))
      /\ Cardinality({t} \X (1..n)) = Cardinality({t}) * Cardinality(1..n)
  BY <1>1, <1>2, FS_Product, Zenon
<1>. QED
  BY <1>1, <1>2, <1>3

(* The total follows the share of a goroutine that moves.                    *)
LEMMA TokensOne ==
  ASSUME NEW f \in [Thread -> Nat], NEW t \in Thread, NEW n \in Nat
  PROVE  /\ Cardinality(Tokens(f)) \in Nat
         /\ f[t] <= Cardinality(Tokens(f))
         /\ Cardinality(Tokens([f EXCEPT ![t] = n])) = Cardinality(Tokens(f)) - f[t] + n
<1>. DEFINE h == [f EXCEPT ![t] = n]
            B == UNION {{u} \X (1..f[u]) : u \in Thread \ {t}}
            S == {t} \X (1..f[t])
            R == {t} \X (1..n)
<1>1. Tokens(f) = B \cup S /\ B \cap S = {}
  BY DEF Tokens
<1>2. Tokens(h) = B \cup R /\ B \cap R = {}
  <2>1. \A u \in Thread \ {t} : h[u] = f[u]
    OBVIOUS
  <2>2. h[t] = n
    OBVIOUS
  <2>. HIDE DEF h
  <2>. QED
    BY <2>1, <2>2 DEF Tokens
<1>3. IsFiniteSet(B) /\ Cardinality(B) \in Nat
  <2>1. B \in SUBSET Tokens(f)
    BY <1>1
  <2>. QED
    BY <2>1, TokensFinite, FS_Subset, FS_CardinalityType
<1>4. /\ IsFiniteSet(S) /\ Cardinality(S) = f[t]
      /\ IsFiniteSet(R) /\ Cardinality(R) = n
  BY Share
<1>5. Cardinality({}) = 0
  BY FS_EmptySet
<1>. HIDE DEF B, S, R, h
<1>6. Cardinality(Tokens(f)) = Cardinality(B) + f[t]
  <2>1. Cardinality(B \cup S) = Cardinality(B) + Cardinality(S) - Cardinality(B \cap S)
    BY <1>3, <1>4, FS_Union, Zenon
  <2>2. Cardinality(Tokens(f)) = Cardinality(B \cup S) /\ Cardinality(B \cap S) = 0
    BY <1>1, <1>5, Zenon
  <2>3. f[t] \in Nat
    OBVIOUS
  <2>. QED
    BY <1>3, <1>4, <2>1, <2>2, <2>3
<1>7. Cardinality(Tokens(h)) = Cardinality(B) + n
  <2>1. Cardinality(B \cup R) = Cardinality(B) + Cardinality(R) - Cardinality(B \cap R)
    BY <1>3, <1>4, FS_Union, Zenon
  <2>2. Cardinality(Tokens(h)) = Cardinality(B \cup R) /\ Cardinality(B \cap R) = 0
    BY <1>2, <1>5, Zenon
  <2>3. f[t] \in Nat
    OBVIOUS
  <2>. QED
    BY <1>3, <1>4, <2>1, <2>2, <2>3
<1>. QED
  BY <1>3, <1>6, <1>7 DEF h

-----------------------------------------------------------------------------
(* What the goroutines hold of a job's triggers, and how a step changes it.  *)
HeldCount(name) == Cardinality(Held(name))

LEMMA CarriesType ==
  ASSUME NEW r \in WellFormed, NEW name
  PROVE  Carries(r, name) \in Nat
BY DEF Carries, WellFormed, ThreadState

LEMMA HeldNext ==
  ASSUME NEW name, NEW h, \A v \in Thread : h[v] = Carries(thr'[v], name)
  PROVE  Held(name)' = Tokens(h)
<1>1. Held(name)' = UNION {{v} \X (1..Carries(thr'[v], name)) : v \in Thread}
  BY DEF Held, Carries
<1>2. \A v \in Thread : {v} \X (1..h[v]) = {v} \X (1..Carries(thr'[v], name))
  OBVIOUS
<1>. QED
  BY <1>1, <1>2 DEF Tokens

LEMMA HeldNone ==
  ASSUME TypeOK, NEW name
  PROVE  /\ HeldCount(name) \in Nat
         /\ thr' = thr => HeldCount(name)' = HeldCount(name)
<1>. DEFINE f == [u \in Thread |-> Carries(thr[u], name)]
<1>1. f \in [Thread -> Nat]
  BY CarriesType DEF TypeOK
<1>2. Held(name) = Tokens(f)
  BY DEF Held, Tokens
<1>3. Cardinality(Tokens(f)) \in Nat
  BY <1>1, TokensFinite, FS_CardinalityType
<1>. QED
  BY <1>2, <1>3 DEF HeldCount, Held

LEMMA HeldOne ==
  ASSUME TypeOK, NEW name, NEW t \in Thread, NEW s \in WellFormed,
         thr' = [thr EXCEPT ![t] = s]
  PROVE  /\ HeldCount(name) \in Nat /\ Carries(thr[t], name) \in Nat /\ Carries(s, name) \in Nat
         /\ Carries(thr[t], name) <= HeldCount(name)
         /\ HeldCount(name)' = HeldCount(name) - Carries(thr[t], name) + Carries(s, name)
<1>. DEFINE f == [u \in Thread |-> Carries(thr[u], name)]
            h == [f EXCEPT ![t] = Carries(s, name)]
<1>1. f \in [Thread -> Nat] /\ Carries(s, name) \in Nat
  BY CarriesType DEF TypeOK
<1>2. Held(name) = Tokens(f)
  BY DEF Held, Tokens
<1>3. Held(name)' = Tokens(h)
  <2>1. \A u \in Thread : h[u] = Carries(thr'[u], name)
    BY DEF TypeOK
  <2>. HIDE DEF h
  <2>. QED
    BY <2>1, HeldNext
<1>. HIDE DEF h
<1>4. f[t] = Carries(thr[t], name)
  OBVIOUS
<1>. HIDE DEF f
<1>. QED
  BY <1>1, <1>2, <1>3, <1>4, TokensOne, ZenonT(30) DEF HeldCount, h

LEMMA HeldTwo ==
  ASSUME TypeOK, NEW name, NEW t \in Thread, NEW u \in Thread, t # u,
         NEW s \in WellFormed, NEW r \in WellFormed,
         thr' = [thr EXCEPT ![t] = s, ![u] = r]
  PROVE  /\ HeldCount(name) \in Nat
         /\ Carries(thr[t], name) \in Nat /\ Carries(s, name) \in Nat
         /\ Carries(thr[u], name) \in Nat /\ Carries(r, name) \in Nat
         /\ Carries(thr[t], name) + Carries(thr[u], name) <= HeldCount(name)
         /\ HeldCount(name)' = HeldCount(name) - Carries(thr[t], name) + Carries(s, name)
                                               - Carries(thr[u], name) + Carries(r, name)
<1>. DEFINE f == [v \in Thread |-> Carries(thr[v], name)]
            g == [f EXCEPT ![t] = Carries(s, name)]
            z == [f EXCEPT ![t] = 0]
            h == [g EXCEPT ![u] = Carries(r, name)]
<1>1. f \in [Thread -> Nat] /\ Carries(s, name) \in Nat /\ Carries(r, name) \in Nat
  BY CarriesType DEF TypeOK
<1>2. Held(name) = Tokens(f)
  BY DEF Held, Tokens
<1>3. Held(name)' = Tokens(h)
  <2>1. \A v \in Thread : h[v] = Carries(thr'[v], name)
    BY DEF TypeOK
  <2>. HIDE DEF h
  <2>. QED
    BY <2>1, HeldNext
<1>4. /\ f[t] = Carries(thr[t], name) /\ f[u] = Carries(thr[u], name)
      /\ g[u] = f[u] /\ z[u] = f[u]
      /\ g \in [Thread -> Nat] /\ z \in [Thread -> Nat]
  BY <1>1
<1>. HIDE DEF f
<1>5. /\ Cardinality(Tokens(f)) \in Nat /\ f[t] \in Nat /\ f[u] \in Nat
      /\ Cardinality(Tokens(g)) = Cardinality(Tokens(f)) - f[t] + Carries(s, name)
      /\ Cardinality(Tokens(z)) = Cardinality(Tokens(f)) - f[t] + 0
  BY <1>1, TokensOne
<1>. HIDE DEF g, z
<1>6. f[u] <= Cardinality(Tokens(z))
  BY <1>4, TokensOne
<1>7. Cardinality(Tokens(h)) = Cardinality(Tokens(g)) - g[u] + Carries(r, name)
  BY <1>1, <1>4, TokensOne
<1>. HIDE DEF h
<1>. QED
  BY <1>1, <1>2, <1>3, <1>4, <1>5, <1>6, <1>7 DEF HeldCount

(* What is new after a step need not be named well formed: its state is.     *)
LEMMA MovedOne ==
  ASSUME TypeOK, TypeOK', NEW t \in Thread, NEW s, thr' = [thr EXCEPT ![t] = s]
  PROVE  s \in WellFormed
BY DEF TypeOK

LEMMA MovedTwo ==
  ASSUME TypeOK, TypeOK', NEW t \in Thread, NEW u \in Thread, t # u, NEW s, NEW r,
         thr' = [thr EXCEPT ![t] = s, ![u] = r]
  PROVE  s \in WellFormed /\ r \in WellFormed
<1>1. thr'[t] = s /\ thr'[u] = r
  BY DEF TypeOK
<1>. QED
  BY <1>1 DEF TypeOK

LEMMA NameNotNoJob == ASSUME NEW name \in Name PROVE NoJob # name /\ NoFire.name # name
BY RunnerAssumption DEF RunnerAssumption, NoFire

(* Who carries nothing.                                                      *)
LEMMA EmptyHanded ==
  ASSUME NEW name \in Name
  PROVE  /\ Carries(IdleThread, name) = 0
         /\ \A job, todo : \A depth : Carries(NewRun(job, depth, 0, todo), name) = 0
         /\ \A pc, job : pc \in {"trigger", "force"} => Carries(NewCall(pc, job), name) = 0
         /\ \A todo, depth : Carries(NextChild(todo, depth), name) = 0
         /\ \A r : Carries(ChildRun(r), name) = 0 /\ Carries(Returned(r), name) = 0
<1>1. Carries(IdleThread, name) = 0
  BY NameNotNoJob DEF Carries, IdleThread, NoFire
<1>2. ASSUME NEW job, NEW todo, NEW depth PROVE Carries(NewRun(job, depth, 0, todo), name) = 0
  BY NameNotNoJob DEF Carries, NewRun, NoFire
<1>3. ASSUME NEW pc, NEW job, pc \in {"trigger", "force"} PROVE Carries(NewCall(pc, job), name) = 0
  BY <1>3, NameNotNoJob DEF Carries, NewCall, IdleThread, NoFire
<1>4. ASSUME NEW todo, NEW depth PROVE Carries(NextChild(todo, depth), name) = 0
  BY <1>1, <1>2 DEF NextChild
<1>5. ASSUME NEW r PROVE Carries(ChildRun(r), name) = 0 /\ Carries(Returned(r), name) = 0
  BY <1>1, <1>4 DEF ChildRun, Returned
<1>. QED
  BY <1>1, <1>2, <1>3, <1>4, <1>5

(* And who carries what.                                                     *)
LEMMA CarriesOf ==
  ASSUME NEW name \in Name
  PROVE  /\ \A r \in WellFormed :
              /\ r.pc \in {"idle", "trigger", "force", "execute", "release", "drain",
                           "pick", "chain"} => Carries(r, name) = 0
              /\ r.pc \in {"check", "admit", "acquire", "denied"} =>
                   Carries(r, name) = IF r.job.name = name THEN r.n ELSE 0
              /\ r.pc \in {"fire", "launch"} =>
                   Carries(r, name) = IF r.fire.name = name THEN r.fire.n ELSE 0
         /\ \A job, depth, n, todo :
              Carries(NewRun(job, depth, n, todo), name) = IF job.name = name THEN n ELSE 0
         /\ \A other, n :
              Carries(NewFire(other, n), name) = IF other = name THEN n ELSE 0
<1>1. ASSUME NEW r \in WellFormed,
             r.pc \notin {"fire", "launch"}
      PROVE  r.fire.name # name
  BY <1>1, NameNotNoJob DEF WellFormed
<1>2. ASSUME NEW r \in WellFormed
      PROVE  /\ r.pc \in {"idle", "trigger", "force", "execute", "release", "drain",
                          "pick", "chain"} => Carries(r, name) = 0
             /\ r.pc \in {"check", "admit", "acquire", "denied"} =>
                  Carries(r, name) = IF r.job.name = name THEN r.n ELSE 0
  BY <1>1 DEF Carries
<1>3. ASSUME NEW r \in WellFormed, r.pc \in {"fire", "launch"}
      PROVE  Carries(r, name) = IF r.fire.name = name THEN r.fire.n ELSE 0
  BY <1>3 DEF Carries
<1>4. ASSUME NEW job, NEW depth, NEW n, NEW todo
      PROVE  Carries(NewRun(job, depth, n, todo), name) = IF job.name = name THEN n ELSE 0
  BY NameNotNoJob DEF Carries, NewRun
<1>5. ASSUME NEW other, NEW n
      PROVE  Carries(NewFire(other, n), name) = IF other = name THEN n ELSE 0
  BY DEF Carries, NewFire, IdleThread
<1>. QED
  BY <1>2, <1>3, <1>4, <1>5

-----------------------------------------------------------------------------
(* The balance of a step: what it does to the triggers a job is owed.        *)

(* A run refused for one of these reasons drops the triggers it carries.     *)
Refused(name) ==
  \/ draining \/ name \in disabled
  \/ ~InCfg(name) /\ \E t \in Thread : (Fire(t) \/ Launch(t)) /\ thr[t].fire.name = name
  \/ \E t \in Thread : AcquireDenied(t) /\ ~thr[t].job.debounce /\ thr[t].n > 0

Balanced(name) ==
  \/ Owed(name)' = Owed(name)
  \/ Owed(name)' = Owed(name) + 1 /\ pending'[name] = pending[name] + 1
  \/ /\ \E t \in Thread : Requeue(t)
     /\ Owed(name)' <= Owed(name) + 1 /\ Owed(name)' > 0
     /\ pending'[name] = pending[name] + 1
  \/ /\ \E t \in Thread : Acquire(t) /\ thr[t].job.name = name
     /\ Owed(name)' <= Owed(name)
  \/ Refused(name) /\ Owed(name)' <= Owed(name)

LEMMA OwedType ==
  ASSUME TypeOK, NEW name \in Name
  PROVE  /\ Owed(name) = pending[name] + HeldCount(name)
         /\ Owed(name)' = pending'[name] + HeldCount(name)'
         /\ pending[name] \in Nat /\ HeldCount(name) \in Nat
BY HeldNone DEF TypeOK, Owed, HeldCount

LEMMA OneMoves ==
  ASSUME TypeOK, TypeOK', NEW name \in Name, NEW t \in Thread, NEW s,
         thr' = [thr EXCEPT ![t] = s]
  PROVE  /\ thr[t] \in WellFormed /\ s \in WellFormed
         /\ Carries(thr[t], name) \in Nat /\ Carries(s, name) \in Nat
         /\ Carries(thr[t], name) <= HeldCount(name)
         /\ HeldCount(name)' = HeldCount(name) - Carries(thr[t], name) + Carries(s, name)
<1>1. s \in WellFormed /\ thr[t] \in WellFormed
  BY MovedOne DEF TypeOK
<1>. QED
  BY <1>1, HeldOne

LEMMA TwoMove ==
  ASSUME TypeOK, TypeOK', NEW name \in Name, NEW t \in Thread, NEW u \in Thread, t # u,
         NEW s, NEW r, thr' = [thr EXCEPT ![t] = s, ![u] = r]
  PROVE  /\ thr[t] \in WellFormed /\ s \in WellFormed
         /\ thr[u] \in WellFormed /\ r \in WellFormed
         /\ Carries(thr[t], name) \in Nat /\ Carries(s, name) \in Nat
         /\ Carries(thr[u], name) \in Nat /\ Carries(r, name) \in Nat
         /\ Carries(thr[t], name) + Carries(thr[u], name) <= HeldCount(name)
         /\ HeldCount(name)' = HeldCount(name) - Carries(thr[t], name) + Carries(s, name)
                                               - Carries(thr[u], name) + Carries(r, name)
<1>1. s \in WellFormed /\ thr[t] \in WellFormed /\ r \in WellFormed /\ thr[u] \in WellFormed
  BY MovedTwo DEF TypeOK
<1>. QED
  BY <1>1, HeldTwo, ZenonT(30)

(* Requests and the operator, and the timers that expire: no trigger moves.  *)
LEMMA EnvironmentBalance ==
  ASSUME TypeOK, TypeOK', NEW name \in Name, Environment
  PROVE  Owed(name)' = Owed(name)
<1>1. pending' = pending
  BY DEF Environment, Request, SetDraining, SetDisabled, Reload
<1>2. CASE Request
  <2>1. PICK job \in Snapshots : Trigger(job) \/ ForceRun(job)
    BY <1>2 DEF Request
  <2>2. PICK r : Go(r) /\ Carries(r, name) = 0
    <3>1. Carries(NewRun(job, 0, 0, NoChain), name) = 0
      BY EmptyHanded
    <3>2. Carries(NewCall("trigger", job), name) = 0 /\ Carries(NewCall("force", job), name) = 0
      BY EmptyHanded
    <3>3. CASE Trigger(job)
      <4>1. \/ Go(NewCall("trigger", job))
            \/ Go(NewRun(job, 0, 0, NoChain))
        BY <3>3, Zenon DEF Trigger
      <4>. QED
        BY <3>1, <3>2, <4>1
    <3>4. CASE ForceRun(job)
      BY <3>2, <3>4 DEF ForceRun
    <3>. QED
      BY <2>1, <3>3, <3>4
  <2>3. PICK u \in Thread : thr[u].pc = "idle" /\ thr' = [thr EXCEPT ![u] = r]
    BY <2>2, SlotType DEF Go
  <2>4. /\ thr[u] \in WellFormed
        /\ HeldCount(name)' = HeldCount(name) - Carries(thr[u], name) + Carries(r, name)
    BY <2>3, OneMoves
  <2>5. Carries(thr[u], name) = 0
    BY <2>3, <2>4, CarriesOf
  <2>6. HeldCount(name)' = HeldCount(name)
    BY <2>2, <2>4, <2>5, OwedType
  <2>. QED
    BY <1>1, <2>6, OwedType
<1>3. CASE ~Request
  <2>1. thr' = thr
    BY <1>3 DEF Environment, SetDraining, SetDisabled, Reload
  <2>. QED
    BY <1>1, <2>1, HeldNone, OwedType
<1>. QED
  BY <1>2, <1>3

(* fireBatch moves the batch from pending to the goroutine.                  *)
LEMMA TimersBalance ==
  ASSUME TypeOK, TypeOK', NEW name \in Name, NEW other \in Name,
         Expire(other) \/ FireBatch(other)
  PROVE  Owed(name)' = Owed(name)
<1>1. CASE UNCHANGED <<pending, thr>>
  BY <1>1, HeldNone, OwedType
<1>2. CASE ~UNCHANGED <<pending, thr>>
  <2>1. /\ pending' = [pending EXCEPT ![other] = 0]
        /\ IF pending[other] > 0 THEN Go(NewFire(other, pending[other])) ELSE UNCHANGED thr
    BY <1>2 DEF Expire, FireBatch, FireBatchKept, FireBatchTaken
  <2>2. pending[other] \in Nat /\ pending[name] \in Nat
        /\ pending'[name] = IF other = name THEN 0 ELSE pending[name]
    BY <2>1 DEF TypeOK
  <2>3. CASE pending[other] > 0
    <3>. DEFINE r == NewFire(other, pending[other])
    <3>1. PICK u \in Thread : thr[u].pc = "idle" /\ thr' = [thr EXCEPT ![u] = r]
      BY <2>1, <2>3, SlotType DEF Go
    <3>2. Carries(r, name) = IF other = name THEN pending[other] ELSE 0
      BY CarriesOf
    <3>. HIDE DEF r
    <3>3. /\ thr[u] \in WellFormed
          /\ HeldCount(name)' = HeldCount(name) - Carries(thr[u], name) + Carries(r, name)
      BY <3>1, OneMoves
    <3>4. Carries(thr[u], name) = 0
      BY <3>1, <3>3, CarriesOf
    <3>5. HeldCount(name)' = HeldCount(name) + (IF other = name THEN pending[other] ELSE 0)
      BY <2>2, <3>2, <3>3, <3>4, OwedType
    <3>. QED
      BY <2>2, <3>5, OwedType
  <2>4. CASE ~(pending[other] > 0)
    BY <2>1, <2>2, <2>4, HeldNone, OwedType
  <2>. QED
    BY <2>3, <2>4
<1>. QED
  BY <1>1, <1>2

(* The steps of a goroutine.                                                 *)
LEMMA RunBalance ==
  ASSUME TypeOK, TypeOK', NEW name \in Name, NEW t \in Thread, Run(t)
  PROVE  Balanced(name)
<1>. DEFINE r == thr[t]
<1>0. r \in WellFormed
  BY DEF TypeOK
<1>1. r.pc \notin {"idle", "fire"} => r.job.name \in Name
  BY <1>0 DEF WellFormed, ThreadState, Job
<1>2. /\ Owed(name) = pending[name] + HeldCount(name)
      /\ Owed(name)' = pending'[name] + HeldCount(name)'
      /\ pending[name] \in Nat /\ HeldCount(name) \in Nat
  BY OwedType
<1>3. CASE Coalesce(t)
  <2>1. /\ thr' = [thr EXCEPT ![t] = IdleThread]
        /\ pending'[name] = IF r.job.name = name THEN pending[name] + 1 ELSE pending[name]
    BY <1>1, <1>3 DEF Coalesce, At, TypeOK
  <2>2. HeldCount(name)' = HeldCount(name) - Carries(r, name) + Carries(IdleThread, name)
    BY <2>1, OneMoves
  <2>3. Carries(r, name) = 0 /\ Carries(IdleThread, name) = 0
    BY <1>0, <1>3, CarriesOf, EmptyHanded DEF Coalesce, At
  <2>4. HeldCount(name)' = HeldCount(name)
    BY <1>2, <2>2, <2>3
  <2>. QED
    BY <1>2, <2>1, <2>4 DEF Balanced
<1>4. CASE Absorb(t)
  <2>. DEFINE s == NewRun(r.job, 0, pending[r.job.name], NoChain)
  <2>1. /\ thr' = [thr EXCEPT ![t] = s]
        /\ pending'[name] = IF r.job.name = name THEN 0 ELSE pending[name]
    BY <1>4 DEF Absorb, TypeOK
  <2>2. Carries(s, name) = IF r.job.name = name THEN pending[r.job.name] ELSE 0
    BY CarriesOf
  <2>. HIDE DEF s
  <2>3. HeldCount(name)' = HeldCount(name) - Carries(r, name) + Carries(s, name)
    BY <2>1, OneMoves
  <2>4. Carries(r, name) = 0
    BY <1>0, <1>4, CarriesOf DEF Absorb, At
  <2>5. HeldCount(name)' = HeldCount(name) + (IF r.job.name = name THEN pending[name] ELSE 0)
    BY <1>2, <2>2, <2>3, <2>4
  <2>. QED
    BY <1>2, <2>1, <2>5 DEF Balanced
<1>5. CASE Fire(t)
  <2>. DEFINE s == NewRun(JobOf(r.fire.name), 0, r.fire.n, NoChain)
  <2>1. /\ thr' = [thr EXCEPT ![t] = IF InCfg(r.fire.name) THEN s ELSE IdleThread]
        /\ pending' = pending
    BY <1>5 DEF Fire
  <2>2. /\ r.fire.name \in Name /\ r.fire.n \in Nat
        /\ Carries(r, name) = IF r.fire.name = name THEN r.fire.n ELSE 0
    BY <1>0, <1>5, CarriesOf DEF Fire, At, WellFormed, ThreadState
  <2>3. InCfg(r.fire.name) => JobOf(r.fire.name).name = r.fire.name
    BY <2>2, JobInType DEF InCfg, JobOf, TypeOK
  <2>4. Carries(s, name) = IF JobOf(r.fire.name).name = name THEN r.fire.n ELSE 0
    BY CarriesOf
  <2>. HIDE DEF s
  <2>5. CASE InCfg(r.fire.name)
    <3>1. HeldCount(name)' = HeldCount(name) - Carries(r, name) + Carries(s, name)
      BY <2>1, <2>5, OneMoves
    <3>2. HeldCount(name)' = HeldCount(name)
      BY <1>2, <2>2, <2>3, <2>4, <2>5, <3>1
    <3>. QED
      BY <1>2, <2>1, <3>2 DEF Balanced
  <2>6. CASE ~InCfg(r.fire.name)
    <3>1. HeldCount(name)' = HeldCount(name) - Carries(r, name) + Carries(IdleThread, name)
      BY <2>1, <2>6, OneMoves
    <3>2. Carries(IdleThread, name) = 0
      BY EmptyHanded
    <3>. QED
      BY <1>2, <1>5, <2>1, <2>2, <2>6, <3>1, <3>2 DEF Balanced, Refused
  <2>. QED
    BY <2>5, <2>6
<1>6. CASE Check(t) \/ Admit(t)
  <2>1. /\ pending' = pending
        /\ \/ thr' = [thr EXCEPT ![t] = [r EXCEPT !.pc = "admit"]] /\ Check(t)
           \/ thr' = [thr EXCEPT ![t] = [r EXCEPT !.pc = "acquire"]] /\ Admit(t)
           \/ /\ thr' = [thr EXCEPT ![t] = Returned(r)]
              /\ draining \/ r.job.name \in disabled
    BY <1>6 DEF Check, Admit
  <2>2. r.pc \in {"check", "admit"} /\ Carries(r, name) = IF r.job.name = name THEN r.n ELSE 0
    BY <1>0, <1>6, CarriesOf DEF Check, Admit, At
  <2>3. ASSUME NEW pc \in {"admit", "acquire"}, thr' = [thr EXCEPT ![t] = [r EXCEPT !.pc = pc]]
        PROVE  Balanced(name)
    <3>. DEFINE s == [r EXCEPT !.pc = pc]
    <3>1. /\ HeldCount(name)' = HeldCount(name) - Carries(r, name) + Carries(s, name)
          /\ s \in WellFormed /\ Carries(r, name) \in Nat
      BY <2>3, OneMoves
    <3>2. s.pc = pc /\ s.job = r.job /\ s.n = r.n
      BY <1>0 DEF WellFormed, ThreadState
    <3>. HIDE DEF s
    <3>3. Carries(s, name) = Carries(r, name)
      BY <2>2, <3>1, <3>2, CarriesOf
    <3>4. HeldCount(name)' = HeldCount(name)
      BY <1>2, <3>1, <3>3
    <3>. QED
      BY <1>2, <2>1, <3>4 DEF Balanced
  <2>4. CASE thr' = [thr EXCEPT ![t] = Returned(r)] /\ (draining \/ r.job.name \in disabled)
    <3>1. /\ HeldCount(name)' = HeldCount(name) - Carries(r, name) + Carries(Returned(r), name)
          /\ Carries(r, name) \in Nat
      BY <2>4, OneMoves
    <3>2. Carries(Returned(r), name) = 0
      BY EmptyHanded
    <3>3. CASE r.job.name = name
      BY <1>2, <2>1, <2>4, <3>1, <3>2, <3>3 DEF Balanced, Refused
    <3>4. CASE r.job.name # name
      BY <1>2, <2>1, <2>2, <3>1, <3>2, <3>4 DEF Balanced
    <3>. QED
      BY <3>3, <3>4
  <2>. QED
    BY <2>1, <2>3, <2>4
<1>7. CASE Acquire(t)
  <2>. DEFINE s == [r EXCEPT !.pc = "execute"]
  <2>1. thr' = [thr EXCEPT ![t] = s] /\ pending' = pending
    BY <1>7 DEF Acquire
  <2>2. /\ HeldCount(name)' = HeldCount(name) - Carries(r, name) + Carries(s, name)
        /\ s \in WellFormed /\ Carries(r, name) \in Nat
    BY <2>1, OneMoves
  <2>3. Carries(r, name) = (IF r.job.name = name THEN r.n ELSE 0) /\ s.pc = "execute"
    BY <1>0, <1>7, CarriesOf DEF Acquire, At, WellFormed, ThreadState
  <2>. HIDE DEF s
  <2>4. Carries(s, name) = 0
    BY <2>2, <2>3, CarriesOf
  <2>. QED
    BY <1>2, <1>7, <2>1, <2>2, <2>3, <2>4 DEF Balanced
<1>8. CASE AcquireDenied(t)
  <2>. DEFINE s == [r EXCEPT !.pc = "denied"]
  <2>1. /\ pending' = pending
        /\ thr' = [thr EXCEPT ![t] = IF r.job.debounce THEN s ELSE Returned(r)]
    BY <1>8 DEF AcquireDenied
  <2>2. Carries(r, name) = (IF r.job.name = name THEN r.n ELSE 0)
    BY <1>0, <1>8, CarriesOf DEF AcquireDenied, At
  <2>3. r.n \in Nat /\ s.pc = "denied" /\ s.job = r.job /\ s.n = r.n
    BY <1>0 DEF WellFormed, ThreadState
  <2>. HIDE DEF s
  <2>4. CASE r.job.debounce
    <3>1. /\ HeldCount(name)' = HeldCount(name) - Carries(r, name) + Carries(s, name)
          /\ s \in WellFormed
      BY <2>1, <2>4, OneMoves
    <3>2. Carries(s, name) = Carries(r, name)
      BY <2>2, <2>3, <3>1, CarriesOf
    <3>. QED
      BY <1>2, <2>1, <2>2, <2>3, <3>1, <3>2 DEF Balanced
  <2>5. CASE ~r.job.debounce
    <3>1. HeldCount(name)' = HeldCount(name) - Carries(r, name) + Carries(Returned(r), name)
      BY <2>1, <2>5, OneMoves
    <3>2. Carries(Returned(r), name) = 0
      BY EmptyHanded
    <3>3. r.n > 0 => Refused(name)
      BY <1>8, <2>5 DEF Refused
    <3>. QED
      BY <1>2, <2>1, <2>2, <2>3, <3>1, <3>2, <3>3 DEF Balanced
  <2>. QED
    BY <2>4, <2>5
<1>9. CASE Requeue(t)
  <2>1. /\ thr' = [thr EXCEPT ![t] = Returned(r)]
        /\ pending'[name] = IF r.job.name = name THEN pending[name] + 1 ELSE pending[name]
    BY <1>1, <1>9 DEF Requeue, At, TypeOK
  <2>2. /\ HeldCount(name)' = HeldCount(name) - Carries(r, name) + Carries(Returned(r), name)
        /\ Carries(r, name) \in Nat /\ Carries(r, name) <= HeldCount(name)
    BY <2>1, OneMoves
  <2>3. Carries(r, name) = (IF r.job.name = name THEN r.n ELSE 0)
    BY <1>0, <1>9, CarriesOf DEF Requeue, At
  <2>4. Carries(Returned(r), name) = 0
    BY EmptyHanded
  <2>. QED
    BY <1>2, <1>9, <2>1, <2>2, <2>3, <2>4 DEF Balanced
<1>10. CASE Execute(t) \/ Release(t) \/ DrainAfter(t) \/ PickNone(t)
  <2>1. PICK s : /\ thr' = [thr EXCEPT ![t] = s]
                 /\ s.pc \in {"release", "drain", "pick", "chain"}
    <3>1. CASE Execute(t)
      <4>1. PICK st \in Outcome : thr' = [thr EXCEPT ![t].pc = "release", ![t].status = st]
        BY <3>1 DEF Execute
      <4>2. thr' = [thr EXCEPT ![t] = [r EXCEPT !.pc = "release", !.status = st]]
        BY <4>1 DEF TypeOK
      <4>3. [r EXCEPT !.pc = "release", !.status = st].pc = "release"
        BY <1>0 DEF WellFormed, ThreadState
      <4>. QED
        BY <4>2, <4>3
    <3>2. CASE Release(t) \/ DrainAfter(t) \/ PickNone(t)
      <4>1. PICK pc \in {"drain", "pick", "chain"} : thr' = [thr EXCEPT ![t] = [r EXCEPT !.pc = pc]]
        BY <3>2 DEF Release, DrainAfter, PickNone
      <4>2. [r EXCEPT !.pc = pc].pc = pc
        BY <1>0 DEF WellFormed, ThreadState
      <4>. QED
        BY <4>1, <4>2
    <3>. QED
      BY <1>10, <3>1, <3>2
  <2>2. pending' = pending
    BY <1>10 DEF Execute, Release, DrainAfter, PickNone
  <2>3. /\ HeldCount(name)' = HeldCount(name) - Carries(r, name) + Carries(s, name)
        /\ s \in WellFormed
    BY <2>1, OneMoves
  <2>4. Carries(r, name) = 0 /\ Carries(s, name) = 0
    BY <1>0, <1>10, <2>1, <2>3, CarriesOf DEF Execute, Release, DrainAfter, PickNone, At
  <2>5. HeldCount(name)' = HeldCount(name)
    BY <1>2, <2>3, <2>4
  <2>. QED
    BY <1>2, <2>2, <2>5 DEF Balanced
<1>11. CASE PickOne(t)
  <2>1. PICK other \in Name :
          /\ pending' = [pending EXCEPT ![other] = 0]
          /\ thr' = [thr EXCEPT ![t].pc = "launch",
                                ![t].fire = [name |-> other, n |-> pending[other]]]
    BY <1>11 DEF PickOne
  <2>. DEFINE s == [r EXCEPT !.pc = "launch", !.fire = [name |-> other, n |-> pending[other]]]
  <2>2. /\ thr' = [thr EXCEPT ![t] = s]
        /\ pending'[name] = IF other = name THEN 0 ELSE pending[name]
    BY <2>1 DEF TypeOK
  <2>3. s.pc = "launch" /\ s.fire.name = other /\ s.fire.n = pending[other]
    BY <1>0 DEF WellFormed, ThreadState
  <2>. HIDE DEF s
  <2>4. /\ HeldCount(name)' = HeldCount(name) - Carries(r, name) + Carries(s, name)
        /\ s \in WellFormed
    BY <2>2, OneMoves
  <2>5. /\ Carries(r, name) = 0
        /\ Carries(s, name) = IF other = name THEN pending[name] ELSE 0
    BY <1>0, <1>11, <2>3, <2>4, CarriesOf DEF PickOne, At
  <2>6. HeldCount(name)' = HeldCount(name) + (IF other = name THEN pending[name] ELSE 0)
    BY <1>2, <2>4, <2>5
  <2>. QED
    BY <1>2, <2>2, <2>6 DEF Balanced
<1>12. CASE Launch(t)
  <2>. DEFINE s == [r EXCEPT !.pc = "chain", !.fire = NoFire]
              child == NewRun(JobOf(r.fire.name), 0, r.fire.n, NoChain)
  <2>1. s.pc = "chain"
    BY <1>0 DEF WellFormed, ThreadState
  <2>2. /\ r.fire.name \in Name /\ r.fire.n \in Nat
        /\ Carries(r, name) = IF r.fire.name = name THEN r.fire.n ELSE 0
    BY <1>0, <1>12, CarriesOf DEF Launch, At, WellFormed, ThreadState
  <2>3. InCfg(r.fire.name) => JobOf(r.fire.name).name = r.fire.name
    BY <2>2, JobInType DEF InCfg, JobOf, TypeOK
  <2>4. Carries(child, name) = IF JobOf(r.fire.name).name = name THEN r.fire.n ELSE 0
    BY CarriesOf
  <2>5. /\ pending' = pending
        /\ IF InCfg(r.fire.name)
             THEN Idle # {} /\ thr' = [thr EXCEPT ![t] = s, ![Slot] = child]
             ELSE thr' = [thr EXCEPT ![t] = s]
    BY <1>12 DEF Launch, TypeOK
  <2>. HIDE DEF s, child
  <2>6. CASE InCfg(r.fire.name)
    <3>1. PICK u \in Thread : thr[u].pc = "idle" /\ thr' = [thr EXCEPT ![t] = s, ![u] = child]
      BY <2>5, <2>6, SlotType
    <3>2. t # u
      BY <1>12, <3>1 DEF Launch, At
    <3>3. /\ thr[u] \in WellFormed /\ s \in WellFormed
          /\ HeldCount(name)' = HeldCount(name) - Carries(r, name) + Carries(s, name)
                                                - Carries(thr[u], name) + Carries(child, name)
      BY <3>1, <3>2, TwoMove, ZenonT(30)
    <3>4. Carries(thr[u], name) = 0 /\ Carries(s, name) = 0
      BY <2>1, <3>1, <3>3, CarriesOf
    <3>5. HeldCount(name)' = HeldCount(name)
      BY <1>2, <2>2, <2>3, <2>4, <2>6, <3>3, <3>4
    <3>. QED
      BY <1>2, <2>5, <3>5 DEF Balanced
  <2>7. CASE ~InCfg(r.fire.name)
    <3>1. /\ HeldCount(name)' = HeldCount(name) - Carries(r, name) + Carries(s, name)
          /\ s \in WellFormed
      BY <2>5, <2>7, OneMoves
    <3>2. Carries(s, name) = 0
      BY <2>1, <3>1, CarriesOf
    <3>. QED
      BY <1>2, <1>12, <2>2, <2>5, <2>7, <3>1, <3>2 DEF Balanced, Refused
  <2>. QED
    BY <2>6, <2>7
<1>13. CASE ChainOn(t)
  <2>1. PICK u \in Thread :
          thr[u].pc = "idle" /\ thr' = [thr EXCEPT ![t] = Returned(r), ![u] = ChildRun(r)]
    BY <1>13, SlotType DEF ChainOn
  <2>2. t # u
    BY <1>13, <2>1 DEF ChainOn, At
  <2>3. /\ thr[u] \in WellFormed
        /\ HeldCount(name)' = HeldCount(name) - Carries(r, name) + Carries(Returned(r), name)
                                          - Carries(thr[u], name) + Carries(ChildRun(r), name)
    BY <2>1, <2>2, TwoMove, ZenonT(30)
  <2>4. /\ Carries(r, name) = 0 /\ Carries(thr[u], name) = 0
        /\ Carries(Returned(r), name) = 0 /\ Carries(ChildRun(r), name) = 0
    BY <1>0, <1>13, <2>1, <2>3, CarriesOf, EmptyHanded DEF ChainOn, At
  <2>5. HeldCount(name)' = HeldCount(name)
    BY <1>2, <2>3, <2>4
  <2>. QED
    BY <1>2, <1>13, <2>5 DEF ChainOn, Balanced
<1>14. CASE ChainEnd(t)
  <2>1. thr' = [thr EXCEPT ![t] = Returned(r)] /\ pending' = pending
    BY <1>14 DEF ChainEnd
  <2>2. HeldCount(name)' = HeldCount(name) - Carries(r, name) + Carries(Returned(r), name)
    BY <2>1, OneMoves
  <2>3. Carries(r, name) = 0 /\ Carries(Returned(r), name) = 0
    BY <1>0, <1>14, CarriesOf, EmptyHanded DEF ChainEnd, At
  <2>4. HeldCount(name)' = HeldCount(name)
    BY <1>2, <2>2, <2>3
  <2>. QED
    BY <1>2, <2>1, <2>4 DEF Balanced
<1>. QED
  BY <1>3, <1>4, <1>5, <1>6, <1>7, <1>8, <1>9, <1>10, <1>11, <1>12, <1>13, <1>14 DEF Run

OwedTyped == \A name \in Name : Owed(name) \in Nat

LEMMA OwedNat == TypeOK => OwedTyped
BY OwedType DEF OwedTyped

LEMMA NextBalance ==
  ASSUME TypeOK, [Next]_vars, NEW name \in Name
  PROVE  Balanced(name)
<1>1. TypeOK'
  BY NextTyping
<1>2. CASE UNCHANGED vars
  BY <1>2, HeldNone, OwedType DEF vars, Balanced
<1>3. CASE Next
  BY <1>1, <1>3, EnvironmentBalance, TimersBalance, RunBalance DEF Next, Work, Balanced
<1>. QED
  BY <1>2, <1>3

(* No trigger is ever counted twice, for any number of jobs, goroutines and  *)
(* requests: only Coalesce and Requeue add to what a job is owed, one each.  *)
THEOREM CountedOnce == Spec => NothingCountedTwice
<1>1. TypeOK /\ [Next]_vars =>
        [\A name \in Name :
           Owed(name)' > Owed(name) =>
             Owed(name)' = Owed(name) + 1 /\ pending'[name] = pending[name] + 1]_vars
  <2>. SUFFICES ASSUME TypeOK, [Next]_vars, NEW name \in Name, Owed(name)' > Owed(name)
                PROVE  Owed(name)' = Owed(name) + 1 /\ pending'[name] = pending[name] + 1
    OBVIOUS
  <2>1. TypeOK'
    BY NextTyping
  <2>2. TypeOK' => OwedTyped'
    BY OwedNat, PTL
  <2>3. Owed(name) \in Nat /\ Owed(name)' \in Nat
    BY <2>1, <2>2, OwedNat DEF OwedTyped
  <2>. QED
    BY <2>3, NextBalance DEF Balanced
<1>. QED
  BY <1>1, Typing, PTL DEF Spec, NothingCountedTwice
-----------------------------------------------------------------------------
(* While nobody reconfigures the server, a run never loses a trigger: every  *)
(* job is the one the file defines, only debounced jobs have triggers, and   *)
(* none is refused.                                                          *)

Defined(name) == InCfg(name) /\ JobOf(name).debounce

SteadyThread(r) ==
  /\ r.job # NoJob => InCfg(r.job.name) /\ JobOf(r.job.name) = r.job
  /\ r.todo.gen = 1
  /\ r.n > 0 \/ r.pc \in {"trigger", "denied"} => r.job.debounce
  /\ r.pc \in {"fire", "launch"} => Defined(r.fire.name)

Steady ==
  /\ gen = 1 /\ ~draining /\ disabled = {}
  /\ \A name \in Name : pending[name] > 0 => Defined(name)
  /\ \A t \in Thread : SteadyThread(thr[t])

SteadyInv == TypeOK /\ Steady

LEMMA SnapshotSteady ==
  ASSUME gen = 1, NEW job \in Snapshots
  PROVE  job \in Job /\ job.name \in Name /\ InCfg(job.name) /\ JobOf(job.name) = job
<1>1. 1 \in DOMAIN Configs /\ Configs[1] \in Seq(Job) /\ ValidConfig(Configs[1])
  BY RunnerAssumption DEF RunnerAssumption
<1>2. PICK i \in DOMAIN Configs[1] : job = Configs[1][i]
  BY DEF Snapshots
<1>3. job \in Job /\ job.name \in Name
  <2>1. job \in Job
    BY <1>1, <1>2
  <2>. QED
    BY <2>1 DEF Job
<1>4. Defines(1, job.name)
  BY <1>2 DEF Defines
<1>5. JobIn(1, job.name) = job
  <2>. DEFINE k == CHOOSE k \in DOMAIN Configs[1] : Configs[1][k].name = job.name
  <2>1. k \in DOMAIN Configs[1] /\ Configs[1][k].name = job.name
    BY <1>2
  <2>2. k = i
    BY <1>1, <1>2, <2>1 DEF ValidConfig
  <2>. QED
    BY <1>2, <2>2 DEF JobIn
<1>. QED
  BY <1>3, <1>4, <1>5 DEF InCfg, JobOf

(* Looking a name up twice finds the same job.                               *)
LEMMA LookedUp ==
  ASSUME gen = 1, NEW name \in Name, InCfg(name)
  PROVE  /\ JobOf(name) \in Job /\ JobOf(name).name = name
         /\ InCfg(JobOf(name).name) /\ JobOf(JobOf(name).name) = JobOf(name)
<1>1. 1 \in DOMAIN Configs
  BY RunnerAssumption DEF RunnerAssumption
<1>. QED
  BY <1>1, JobInType DEF InCfg, JobOf

LEMMA IdleSteady == SteadyThread(IdleThread)
BY DEF SteadyThread, IdleThread, NoChain

LEMMA NewRunSteady ==
  ASSUME NEW job, InCfg(job.name), JobOf(job.name) = job, NEW depth, NEW n \in Nat,
         n > 0 => job.debounce, NEW todo, todo.gen = 1
  PROVE  SteadyThread(NewRun(job, depth, n, todo))
BY DEF SteadyThread, NewRun

LEMMA NextChildSteady ==
  ASSUME gen = 1, NEW todo \in Chained, todo.gen = 1, NEW depth
  PROVE  SteadyThread(NextChild(todo, depth))
<1>1. CASE Left(todo) = {}
  BY <1>1, IdleSteady DEF NextChild
<1>2. CASE Left(todo) # {}
  <2>. DEFINE k == CHOOSE i \in Left(todo) : \A m \in Left(todo) : i <= m
              job == JobIn(todo.gen, todo.names[k])
              rest == [todo EXCEPT !.next = k]
  <2>0. Left(todo) \subseteq Nat
    BY DEF Left, Chained
  <2>1. k \in Left(todo)
    BY <1>2, <2>0, FirstExists
  <2>2. todo.names[k] \in Name /\ InCfg(todo.names[k])
    BY <2>1 DEF Left, Chained, InCfg
  <2>3. InCfg(job.name) /\ JobOf(job.name) = job
    BY <2>2, LookedUp DEF JobOf
  <2>4. rest.gen = 1
    BY DEF Chained
  <2>5. NextChild(todo, depth) = NewRun(job, depth, 0, rest)
    BY <1>2 DEF NextChild
  <2>. HIDE DEF k, job, rest
  <2>. QED
    BY <2>3, <2>4, <2>5, NewRunSteady
<1>. QED
  BY <1>1, <1>2

LEMMA ReturnedSteady ==
  ASSUME gen = 1, NEW r \in WellFormed, SteadyThread(r)
  PROVE  SteadyThread(Returned(r))
<1>1. r.todo \in Chained /\ r.todo.gen = 1
  BY DEF WellFormed, ThreadState, SteadyThread
<1>. QED
  BY <1>1, NextChildSteady DEF Returned

LEMMA ChildRunSteady ==
  ASSUME gen = 1, NEW r \in WellFormed, r.job # NoJob
  PROVE  SteadyThread(ChildRun(r))
<1>1. CASE r.depth + 1 > MaxChainDepth
  BY <1>1, IdleSteady DEF ChildRun
<1>2. CASE ~(r.depth + 1 > MaxChainDepth)
  <2>. DEFINE todo == [names |-> Downstream(r.job, r.status), next |-> 0, gen |-> gen]
  <2>1. Downstream(r.job, r.status) \in Seq(Name)
    BY DEF Downstream, Job, WellFormed, ThreadState
  <2>2. todo \in Chained /\ todo.gen = 1
    BY <2>1, RunnerAssumption DEF Chained, RunnerAssumption
  <2>3. ChildRun(r) = NextChild(todo, r.depth + 1)
    BY <1>2 DEF ChildRun
  <2>. HIDE DEF todo
  <2>. QED
    BY <2>2, <2>3, NextChildSteady
<1>. QED
  BY <1>1, <1>2

(* A goroutine moves, or a goroutine and a new one, and no flag.             *)
LEMMA SteadyOne ==
  ASSUME SteadyInv, UNCHANGED flagVars, NEW t \in Thread, NEW s, SteadyThread(s),
         thr' = [thr EXCEPT ![t] = s]
  PROVE  \A u \in Thread : SteadyThread(thr[u])'
<1>. SUFFICES ASSUME NEW u \in Thread PROVE SteadyThread(thr[u])'
  OBVIOUS
<1>1. thr'[u] = IF u = t THEN s ELSE thr[u]
  BY DEF SteadyInv, TypeOK
<1>2. SteadyThread(thr'[u])
  BY <1>1 DEF SteadyInv, Steady
<1>. QED
  BY <1>2 DEF SteadyThread, Defined, InCfg, JobOf, flagVars

LEMMA SteadyTwo ==
  ASSUME SteadyInv, UNCHANGED flagVars, NEW t \in Thread, NEW v \in Thread, NEW s, NEW r,
         SteadyThread(s), SteadyThread(r), thr' = [thr EXCEPT ![t] = s, ![v] = r]
  PROVE  \A u \in Thread : SteadyThread(thr[u])'
<1>. SUFFICES ASSUME NEW u \in Thread PROVE SteadyThread(thr[u])'
  OBVIOUS
<1>1. thr'[u] = IF u = v THEN r ELSE IF u = t THEN s ELSE thr[u]
  BY DEF SteadyInv, TypeOK
<1>2. SteadyThread(thr'[u])
  BY <1>1 DEF SteadyInv, Steady
<1>. QED
  BY <1>2 DEF SteadyThread, Defined, InCfg, JobOf, flagVars

LEMMA SteadyNone ==
  ASSUME SteadyInv, UNCHANGED <<flagVars, thr>>
  PROVE  \A u \in Thread : SteadyThread(thr[u])'
BY DEF SteadyInv, Steady, SteadyThread, Defined, InCfg, JobOf, flagVars

(* The pending triggers.                                                     *)
LEMMA SteadyPending ==
  ASSUME SteadyInv, UNCHANGED flagVars, \A u \in Thread : SteadyThread(thr[u])',
         \A name \in Name : pending'[name] > 0 => pending[name] > 0 \/ Defined(name)
  PROVE  Steady'
BY DEF SteadyInv, Steady, Defined, InCfg, JobOf, flagVars

LEMMA SteadyRequest ==
  ASSUME SteadyInv, Request
  PROVE  Steady'
<1>1. gen = 1 /\ UNCHANGED <<flagVars, pending>>
  BY DEF SteadyInv, Steady, Request
<1>2. PICK job \in Snapshots : Trigger(job) \/ ForceRun(job)
  BY DEF Request
<1>3. InCfg(job.name) /\ JobOf(job.name) = job
  BY <1>1, <1>2, SnapshotSteady
<1>4. SteadyThread(NewRun(job, 0, 0, NoChain))
  BY <1>3, NewRunSteady DEF NoChain
<1>5. SteadyThread(NewCall("force", job))
  BY <1>3 DEF SteadyThread, NewCall, IdleThread, NoChain
<1>6. job.debounce => SteadyThread(NewCall("trigger", job))
  BY <1>3 DEF SteadyThread, NewCall, IdleThread, NoChain
<1>7. PICK r : Go(r) /\ SteadyThread(r)
  <2>1. CASE Trigger(job)
    <3>1. IF job.debounce THEN Go(NewCall("trigger", job)) ELSE Go(NewRun(job, 0, 0, NoChain))
      BY <2>1, Zenon DEF Trigger
    <3>. QED
      BY <1>4, <1>6, <3>1
  <2>2. CASE ForceRun(job)
    BY <1>5, <2>2 DEF ForceRun
  <2>. QED
    BY <1>2, <2>1, <2>2
<1>8. PICK u \in Thread : thr' = [thr EXCEPT ![u] = r]
  BY <1>7, SlotType DEF Go
<1>. QED
  BY <1>1, <1>7, <1>8, SteadyOne, SteadyPending

LEMMA SteadyTimers ==
  ASSUME SteadyInv, NEW name \in Name, Expire(name) \/ FireBatch(name)
  PROVE  Steady'
<1>1. UNCHANGED flagVars
  BY DEF Expire, FireBatch, FireBatchKept, FireBatchTaken
<1>2. CASE UNCHANGED <<pending, thr>>
  BY <1>1, <1>2, SteadyNone, SteadyPending
<1>3. CASE ~UNCHANGED <<pending, thr>>
  <2>1. /\ pending' = [pending EXCEPT ![name] = 0]
        /\ IF pending[name] > 0 THEN Go(NewFire(name, pending[name])) ELSE UNCHANGED thr
    BY <1>3 DEF Expire, FireBatch, FireBatchKept, FireBatchTaken
  <2>2. \A m \in Name : pending'[m] > 0 => pending[m] > 0
    BY <2>1 DEF SteadyInv, TypeOK
  <2>3. CASE pending[name] > 0
    <3>. DEFINE r == NewFire(name, pending[name])
    <3>1. Defined(name)
      BY <2>3 DEF SteadyInv, Steady
    <3>2. SteadyThread(r)
      BY <3>1 DEF SteadyThread, NewFire, IdleThread, NoChain
    <3>3. PICK u \in Thread : thr' = [thr EXCEPT ![u] = r]
      BY <2>1, <2>3, SlotType DEF Go
    <3>. HIDE DEF r
    <3>. QED
      BY <1>1, <2>2, <3>2, <3>3, SteadyOne, SteadyPending
  <2>4. CASE ~(pending[name] > 0)
    BY <1>1, <2>1, <2>2, <2>4, SteadyNone, SteadyPending
  <2>. QED
    BY <2>3, <2>4
<1>. QED
  BY <1>2, <1>3

LEMMA SteadyRun ==
  ASSUME SteadyInv, NEW t \in Thread, Run(t)
  PROVE  Steady'
<1>. DEFINE r == thr[t]
<1>1. /\ r \in WellFormed /\ SteadyThread(r) /\ r.n \in Nat /\ r.fire.n \in Nat
      /\ gen = 1 /\ ~draining /\ disabled = {}
  BY DEF SteadyInv, Steady, TypeOK, WellFormed, ThreadState
<1>2. r.pc \notin {"idle", "fire"} =>
        /\ r.job # NoJob /\ r.job \in Job /\ r.job.name \in Name
        /\ InCfg(r.job.name) /\ JobOf(r.job.name) = r.job
  BY <1>1 DEF WellFormed, ThreadState, Job, SteadyThread
<1>3. UNCHANGED flagVars
  BY DEF Run, Coalesce, Absorb, Fire, Check, Admit, Acquire, AcquireDenied, Requeue,
         Execute, Release, DrainAfter, PickNone, PickOne, Launch, ChainOn, ChainEnd
<1>4. SteadyThread(Returned(r)) /\ SteadyThread(IdleThread)
  BY <1>1, ReturnedSteady, IdleSteady
<1>5. \A m \in Name : pending'[m] > 0 => pending[m] > 0 \/ Defined(m)
  <2>1. CASE Coalesce(t) \/ Requeue(t)
    <3>1. Defined(r.job.name)
      BY <1>1, <1>2, <2>1 DEF Coalesce, Requeue, At, SteadyThread, Defined
    <3>. QED
      BY <2>1, <3>1 DEF Coalesce, Requeue, SteadyInv, TypeOK
  <2>2. CASE Absorb(t) \/ PickOne(t)
    BY <2>2 DEF Absorb, PickOne, SteadyInv, TypeOK
  <2>3. CASE UNCHANGED pending
    BY <2>3
  <2>. QED
    BY <2>1, <2>2, <2>3
       DEF Run, Fire, Check, Admit, Acquire, AcquireDenied, Execute, Release,
           DrainAfter, PickNone, Launch, ChainOn, ChainEnd
<1>6. \A u \in Thread : SteadyThread(thr[u])'
  <2>1. CASE Coalesce(t) \/ Requeue(t) \/ ChainEnd(t)
    BY <1>3, <1>4, <2>1, SteadyOne DEF Coalesce, Requeue, ChainEnd
  <2>2. CASE Absorb(t)
    <3>. DEFINE n == pending[r.job.name]
    <3>1. r.job.name \in Name /\ InCfg(r.job.name) /\ JobOf(r.job.name) = r.job
      BY <1>2, <2>2 DEF Absorb, At
    <3>2. n \in Nat /\ (n > 0 => r.job.debounce)
      BY <3>1 DEF SteadyInv, Steady, Defined, TypeOK
    <3>3. SteadyThread(NewRun(r.job, 0, n, NoChain))
      BY <3>1, <3>2, NewRunSteady DEF NoChain
    <3>. QED
      BY <1>3, <2>2, <3>3, SteadyOne DEF Absorb
  <2>3. CASE Fire(t)
    <3>. DEFINE s == NewRun(JobOf(r.fire.name), 0, r.fire.n, NoChain)
    <3>1. r.fire.name \in Name /\ Defined(r.fire.name)
      BY <1>1, <2>3 DEF Fire, At, SteadyThread, WellFormed
    <3>2. SteadyThread(s)
      BY <1>1, <3>1, LookedUp, NewRunSteady DEF NoChain, Defined
    <3>3. thr' = [thr EXCEPT ![t] = s]
      BY <2>3, <3>1 DEF Fire, Defined
    <3>. HIDE DEF s
    <3>. QED
      BY <1>3, <3>2, <3>3, SteadyOne
  <2>4. CASE Check(t) \/ Admit(t) \/ Acquire(t) \/ AcquireDenied(t) \/ Release(t)
             \/ DrainAfter(t) \/ PickNone(t)
    <3>1. PICK pc \in {"admit", "acquire", "execute", "denied", "drain", "pick", "chain"} :
            \/ thr' = [thr EXCEPT ![t] = Returned(r)]
            \/ /\ thr' = [thr EXCEPT ![t] = [r EXCEPT !.pc = pc]]
               /\ pc = "denied" => r.job.debounce
      BY <2>4 DEF Check, Admit, Acquire, AcquireDenied, Release, DrainAfter, PickNone
    <3>2. pc = "denied" /\ r.job.debounce => SteadyThread([r EXCEPT !.pc = pc])
      BY <1>1 DEF SteadyThread, WellFormed, ThreadState
    <3>3. pc # "denied" => SteadyThread([r EXCEPT !.pc = pc])
      BY <1>1 DEF SteadyThread, WellFormed, ThreadState
    <3>. QED
      BY <1>3, <1>4, <3>1, <3>2, <3>3, SteadyOne
  <2>5. CASE Execute(t)
    <3>1. PICK st \in Outcome : thr' = [thr EXCEPT ![t].pc = "release", ![t].status = st]
      BY <2>5 DEF Execute
    <3>. DEFINE s == [r EXCEPT !.pc = "release", !.status = st]
    <3>2. thr' = [thr EXCEPT ![t] = s]
      BY <3>1 DEF SteadyInv, TypeOK
    <3>3. SteadyThread(s)
      BY <1>1 DEF SteadyThread, WellFormed, ThreadState
    <3>. HIDE DEF s
    <3>. QED
      BY <1>3, <3>2, <3>3, SteadyOne
  <2>6. CASE PickOne(t)
    <3>1. PICK other \in Name :
            /\ Waits(other)
            /\ thr' = [thr EXCEPT ![t].pc = "launch",
                                  ![t].fire = [name |-> other, n |-> pending[other]]]
      BY <2>6 DEF PickOne, Picks
    <3>. DEFINE s == [r EXCEPT !.pc = "launch",
                               !.fire = [name |-> other, n |-> pending[other]]]
    <3>2. thr' = [thr EXCEPT ![t] = s]
      BY <3>1 DEF SteadyInv, TypeOK
    <3>3. Defined(other)
      BY <3>1 DEF Waits, SteadyInv, Steady
    <3>4. SteadyThread(s)
      BY <1>1, <3>3 DEF SteadyThread, WellFormed, ThreadState
    <3>. HIDE DEF s
    <3>. QED
      BY <1>3, <3>2, <3>4, SteadyOne
  <2>7. CASE Launch(t)
    <3>. DEFINE s == [r EXCEPT !.pc = "chain", !.fire = NoFire]
                child == NewRun(JobOf(r.fire.name), 0, r.fire.n, NoChain)
    <3>1. r.fire.name \in Name /\ Defined(r.fire.name)
      BY <1>1, <2>7 DEF Launch, At, SteadyThread, WellFormed
    <3>2. SteadyThread(child)
      BY <1>1, <3>1, LookedUp, NewRunSteady DEF NoChain, Defined
    <3>3. SteadyThread(s)
      BY <1>1 DEF SteadyThread, WellFormed, ThreadState
    <3>4. Idle # {} /\ thr' = [thr EXCEPT ![t] = s, ![Slot] = child]
      BY <2>7, <3>1 DEF Launch, Defined, SteadyInv, TypeOK
    <3>. HIDE DEF s, child
    <3>5. PICK u \in Thread : thr' = [thr EXCEPT ![t] = s, ![u] = child]
      BY <3>4, SlotType
    <3>. QED
      BY <1>3, <3>2, <3>3, <3>5, SteadyTwo
  <2>8. CASE ChainOn(t)
    <3>1. PICK u \in Thread : thr' = [thr EXCEPT ![t] = Returned(r), ![u] = ChildRun(r)]
      BY <2>8, SlotType DEF ChainOn
    <3>2. SteadyThread(ChildRun(r))
      BY <1>1, <1>2, <2>8, ChildRunSteady DEF ChainOn, At
    <3>. QED
      BY <1>3, <1>4, <3>1, <3>2, SteadyTwo
  <2>. QED
    BY <2>1, <2>2, <2>3, <2>4, <2>5, <2>6, <2>7, <2>8 DEF Run
<1>. QED
  BY <1>3, <1>5, <1>6, SteadyPending

LEMMA InitSteady == SteadyInit => SteadyInv
BY InitTyping, IdleSteady DEF SteadyInit, Init, SteadyInv, Steady

LEMMA NextSteady == SteadyInv /\ [SteadyNext]_vars => SteadyInv'
<1>. SUFFICES ASSUME SteadyInv, [SteadyNext]_vars PROVE SteadyInv'
  OBVIOUS
<1>1. TypeOK'
  BY NextTyping DEF SteadyInv, SteadyNext, Next, Environment
<1>2. CASE UNCHANGED vars
  <2>1. UNCHANGED <<flagVars, thr, pending>>
    BY <1>2 DEF vars
  <2>. QED
    BY <1>1, <2>1, SteadyNone, SteadyPending DEF SteadyInv
<1>3. CASE SteadyNext
  BY <1>1, <1>3, SteadyRequest, SteadyTimers, SteadyRun DEF SteadyInv, SteadyNext, Work
<1>. QED
  BY <1>2, <1>3

(* On a server that nobody reconfigures, triggers that were accepted go on   *)
(* being owed, at least one of them, until an execution of the job starts:   *)
(* no path through timers, batches, denials and drains loses the last one.   *)
THEOREM OwedTillStart == SteadySpec => OwedUntilStarted
<1>1. SteadyInv /\ [SteadyNext]_vars =>
        [\A name \in Name : Owed(name) > 0 /\ Owed(name)' = 0 => Starts(name)]_vars
  <2>. SUFFICES ASSUME SteadyInv, SteadyNext, NEW name \in Name,
                       Owed(name) > 0, Owed(name)' = 0
                PROVE  Starts(name)
    BY DEF vars, Owed, Held
  <2>1. Balanced(name)
    BY NextBalance DEF SteadyInv, SteadyNext, Next, Environment
  <2>2. Owed(name) \in Nat
    BY OwedNat DEF SteadyInv, OwedTyped
  <2>3. CASE \E t \in Thread : Acquire(t) /\ thr[t].job.name = name
    BY <2>3 DEF Acquire, Busy, Starts
  <2>4. CASE Refused(name)
    <3>1. ~(\E t \in Thread : AcquireDenied(t) /\ ~thr[t].job.debounce /\ thr[t].n > 0)
      BY DEF SteadyInv, Steady, SteadyThread
    <3>2. \A t \in Thread : Fire(t) \/ Launch(t) => Defined(thr[t].fire.name)
      BY DEF SteadyInv, Steady, SteadyThread, Fire, Launch, At
    <3>. QED
      BY <2>4, <3>1, <3>2 DEF Defined, Refused, SteadyInv, Steady
  <2>. QED
    BY <2>1, <2>2, <2>3, <2>4 DEF Balanced
<1>. QED
  BY <1>1, InitSteady, NextSteady, PTL DEF SteadySpec, OwedUntilStarted
-----------------------------------------------------------------------------
(* The debounce_max.                                                         *)

(* A goroutine that is about to execute the job or a mate of its group, does *)
(* so, or has done so and will look whether the job waits.                   *)
Serves(job, name) ==
  job.name = name \/ (job.group # NoGroup /\ job.group = JobOf(name).group)

Looks(r, name) ==
  \/ /\ r.pc \in {"check", "admit", "acquire", "execute", "release", "drain", "pick"}
     /\ Serves(r.job, name)
  \/ r.pc = "launch" /\ Serves(JobOf(r.fire.name), name)

(* What makes sure that the triggers that wait are looked at in time: the    *)
(* timer of the entry, a timer that lost it, a callback, or a goroutine.     *)
Covered(name) ==
  \/ /\ timers[name] = "armed"
     /\ firstAt[name] <= noticed[name] /\ firesAt[name] <= noticed[name] + WindowMax
  \/ \E d \in Deadline : strays[name][d] > 0 /\ d <= noticed[name] + WindowMax
  \/ callbacks[name] > 0
  \/ \E t \in Thread : Looks(thr[t], name)

(* The clock waits for every deadline, and the entry's times are its own.    *)
Clocked(name) ==
  /\ firstAt[name] <= now /\ noticed[name] <= now
  /\ timers[name] = "none" <=> firstAt[name] = Never
  /\ timers[name] = "expired" => callbacks[name] > 0
  /\ timers[name] = "armed" => now <= firesAt[name]
  /\ \A d \in Deadline : strays[name][d] > 0 => now <= d
  /\ noticed[name] # Never => pending[name] > 0

MaxInv ==
  /\ LockInv /\ SteadyInv /\ WindowInv
  /\ \A name \in Name : Clocked(name)
  /\ WindowMax > 0 => \A name \in Name : noticed[name] # Never => Covered(name)

LEMMA SteadyStep ==
  ASSUME [TimedNext]_timedVars
  PROVE  [SteadyNext]_vars
<1>1. CASE UNCHANGED timedVars
  BY <1>1 DEF timedVars
<1>2. ASSUME NEW t \in Thread, TimedCoalesce(t) \/ TimedAbsorb(t) \/ TimedRequeue(t)
      PROVE  SteadyNext
  BY <1>2 DEF TimedCoalesce, TimedAbsorb, TimedRequeue, Run, SteadyNext, Work
<1>3. ASSUME NEW name \in Name,
             ExpireEntry(name) \/ ExpireStray(name) \/ TimedFireBatch(name)
      PROVE  SteadyNext
  BY <1>3 DEF ExpireEntry, ExpireStray, TimedFireBatch, SteadyNext, Work
<1>4. CASE Untimed
  BY <1>4 DEF Untimed, SteadyNext, Work
<1>5. CASE Tick
  BY <1>5 DEF Tick
<1>. QED
  BY <1>1, <1>2, <1>3, <1>4, <1>5 DEF TimedNext

(* A goroutine that is under way moves by its own steps only.                *)
LEMMA RunsAlone ==
  ASSUME TypeOK, NEW t \in Thread, Run(t), NEW u \in Thread, u # t, thr[u].pc # "idle"
  PROVE  thr'[u] = thr[u]
<1>1. ASSUME NEW s, thr' = [thr EXCEPT ![t] = s] PROVE thr'[u] = thr[u]
  BY <1>1 DEF TypeOK
<1>2. CASE Launch(t) \/ ChainOn(t)
  BY <1>2, SlotType DEF Launch, ChainOn, TypeOK
<1>3. CASE Execute(t) \/ PickOne(t)
  BY <1>3 DEF Execute, PickOne, TypeOK
<1>. QED
  BY <1>1, <1>2, <1>3
     DEF Run, Coalesce, Absorb, Fire, Check, Admit, Acquire, AcquireDenied, Requeue,
         Release, DrainAfter, PickNone, ChainEnd

LEMMA OthersStay ==
  ASSUME TypeOK, SteadyNext, NEW u \in Thread, thr[u].pc # "idle", ~Run(u)
  PROVE  thr'[u] = thr[u]
<1>1. ASSUME NEW r, Go(r) PROVE thr'[u] = thr[u]
  BY <1>1, SlotType DEF Go, TypeOK
<1>2. CASE Request
  <2>1. PICK job \in Snapshots : Trigger(job) \/ ForceRun(job)
    BY <1>2 DEF Request
  <2>. QED
    BY <1>1, <2>1 DEF Trigger, ForceRun
<1>3. ASSUME NEW name \in Name, Expire(name) \/ FireBatch(name) PROVE thr'[u] = thr[u]
  BY <1>1, <1>3 DEF Expire, FireBatch, FireBatchKept, FireBatchTaken
<1>4. ASSUME NEW t \in Thread, Run(t) PROVE thr'[u] = thr[u]
  BY <1>4, RunsAlone
<1>. QED
  BY <1>2, <1>3, <1>4 DEF SteadyNext, Work

(* Who finds a lock taken finds it taken by a goroutine that will look.      *)
LEMMA HolderServes ==
  ASSUME LockInv, SteadyInv, NEW name \in Name,
         NEW job \in Job, JobOf(job.name) = job, Serves(job, name), Busy(job)
  PROVE  \E h \in Holding : Serves(thr[h].job, name)
<1>1. ASSUME NEW h \in Holding
      PROVE  h \in Thread /\ thr[h].job # NoJob /\ JobOf(thr[h].job.name) = thr[h].job
  BY DEF Holding, At, SteadyInv, Steady, SteadyThread, TypeOK, WellFormed
<1>2. CASE job.name \in running
  <2>1. PICK h \in Holding : thr[h].job.name = job.name
    BY <1>2 DEF LockInv, LocksHeld
  <2>2. thr[h].job = job
    BY <1>1, <2>1
  <2>. QED
    BY <2>1, <2>2
<1>3. CASE job.group # NoGroup /\ job.group \in groupBusy
  <2>1. PICK h \in Holding : job.group \in GroupsOf(thr[h].job)
    BY <1>3 DEF LockInv, LocksHeld
  <2>2. thr[h].job.group = job.group
    BY <2>1 DEF GroupsOf
  <2>. QED
    BY <1>3, <2>1, <2>2 DEF Serves
<1>. QED
  BY <1>2, <1>3 DEF Busy

LEMMA RunningServed ==
  ASSUME LockInv, SteadyInv, NEW name \in running
  PROVE  \E h \in Holding : Serves(thr[h].job, name)
BY DEF LockInv, LocksHeld, Serves

LEMMA HolderLooks ==
  ASSUME NEW name, NEW h \in Holding, Serves(thr[h].job, name)
  PROVE  h \in Thread /\ Looks(thr[h], name)
BY DEF Holding, At, Looks

LEMMA SameLooks ==
  ASSUME gen' = gen, NEW v, NEW name, Looks(thr'[v], name)
  PROVE  Looks(thr[v], name)'
BY DEF Looks, Serves, JobOf

LEMMA SteadyFlags ==
  ASSUME SteadyNext
  PROVE  UNCHANGED flagVars
<1>1. ASSUME NEW t \in Thread, Run(t) PROVE UNCHANGED flagVars
  BY <1>1 DEF Run, Coalesce, Absorb, Fire, Check, Admit, Acquire, AcquireDenied, Requeue,
              Execute, Release, DrainAfter, PickNone, PickOne, Launch, ChainOn, ChainEnd
<1>. QED
  BY <1>1 DEF SteadyNext, Work, Request, Expire, FireBatch, FireBatchKept, FireBatchTaken

(* drainAfter overlooks no job that waits: it finds one, or the group or the *)
(* job itself taken by another.                                              *)
LEMMA PickNoneLooks ==
  ASSUME LockInv, SteadyInv, NEW name \in Name, pending[name] > 0,
         NEW u \in Thread, PickNone(u), Serves(thr[u].job, name)
  PROVE  \E h \in Holding : Serves(thr[h].job, name)
<1>. DEFINE job == thr[u].job
<1>1. job \in Job /\ job.name \in Name /\ JobOf(job.name) = job
  <2>1. thr[u] \in WellFormed /\ thr[u].pc = "pick"
    BY DEF SteadyInv, TypeOK, PickNone, At
  <2>2. job \in Job /\ job # NoJob
    BY <2>1 DEF WellFormed, ThreadState
  <2>. QED
    BY <2>2 DEF SteadyInv, Steady, SteadyThread, Job
<1>2. CASE job.group \in groupBusy
  <2>1. job.group # NoGroup
    BY <1>2, RunnerAssumption DEF SteadyInv, TypeOK, RunnerAssumption
  <2>. QED
    BY <1>1, <1>2, <2>1, HolderServes DEF Busy
<1>3. CASE name \in running
  BY <1>3, RunningServed
<1>4. CASE job.group \notin groupBusy /\ name \notin running
  <2>1. \A other \in Name : ~Picks(job, other)
    BY <1>4 DEF PickNone
  <2>2. Waits(name)
    BY <1>4 DEF Waits
  <2>3. ~Waits(job.name)
    BY <1>1, <2>1 DEF Picks
  <2>4. job.group # NoGroup /\ job.group = JobOf(name).group /\ name # job.name
    BY <2>2, <2>3 DEF Serves
  <2>5. gen = 1 /\ cfg \in Seq(Job)
    BY RunnerAssumption DEF SteadyInv, Steady, cfg, RunnerAssumption
  <2>6. \E i \in Mates(job) : cfg[i].name = name
    <3>1. InCfg(name)
      BY DEF SteadyInv, Steady, Defined
    <3>2. PICK i \in DOMAIN cfg : cfg[i].name = name /\ cfg[i] = JobOf(name)
      BY <3>1 DEF InCfg, Defines, JobOf, JobIn, cfg
    <3>. QED
      BY <2>4, <3>2 DEF Mates
  <2>. DEFINE W == {i \in Mates(job) : Waits(cfg[i].name)}
  <2>7. W # {} /\ W \subseteq Nat
    BY <2>2, <2>5, <2>6 DEF Mates
  <2>8. PICK k \in W : \A i \in W : k <= i
    BY <2>7, FirstExists
  <2>9. cfg[k].name \in Name
    <3>1. cfg[k] \in Job
      BY <2>5, <2>8 DEF Mates
    <3>. QED
      BY <3>1 DEF Job
  <2>10. \A i \in Mates(job) : i < k => ~Waits(cfg[i].name)
    BY <2>5, <2>7, <2>8 DEF Mates
  <2>11. Picks(job, cfg[k].name)
    BY <2>3, <2>8, <2>10 DEF Picks
  <2>. QED
    BY <2>1, <2>9, <2>11
<1>. QED
  BY <1>2, <1>3, <1>4

(* And the job it picks serves every job of the group.                       *)
LEMMA PickOneLooks ==
  ASSUME LockInv, SteadyInv, NEW name \in Name, pending[name] > 0, pending'[name] > 0,
         NEW u \in Thread, PickOne(u), Serves(thr[u].job, name)
  PROVE  \/ Looks(thr'[u], name)
         \/ \E h \in Holding : Serves(thr[h].job, name)
<1>. DEFINE job == thr[u].job
<1>1. /\ thr[u] \in WellFormed /\ thr[u].pc = "pick" /\ gen = 1
      /\ job # NoJob /\ JobOf(job.name) = job
  BY DEF SteadyInv, Steady, SteadyThread, TypeOK, PickOne, At, WellFormed
<1>2. PICK other \in Name :
        /\ Picks(job, other)
        /\ pending' = [pending EXCEPT ![other] = 0]
        /\ thr' = [thr EXCEPT ![u].pc = "launch",
                              ![u].fire = [name |-> other, n |-> pending[other]]]
  BY DEF PickOne
<1>3. other # name
  BY <1>2 DEF SteadyInv, TypeOK
<1>4. thr'[u].pc = "launch" /\ thr'[u].fire.name = other
  BY <1>1, <1>2 DEF SteadyInv, TypeOK, WellFormed, ThreadState
<1>5. CASE job.name = name
  <2>1. ~Waits(name)
    BY <1>2, <1>3, <1>5 DEF Picks
  <2>2. name \in running
    BY <2>1 DEF Waits
  <2>. QED
    BY <2>2, RunningServed
<1>6. CASE job.group # NoGroup /\ job.group = JobOf(name).group
  <2>1. JobOf(other).group = job.group
    <3>1. CASE other = job.name
      BY <1>1, <3>1
    <3>2. CASE other # job.name
      <4>1. PICK i \in Mates(job) : cfg[i].name = other
        BY <1>2, <3>2 DEF Picks
      <4>2. cfg[i] \in Snapshots /\ cfg[i].group = job.group
        BY <1>1, <4>1 DEF Mates, Snapshots, cfg
      <4>3. JobOf(cfg[i].name) = cfg[i]
        BY <1>1, <4>2, SnapshotSteady
      <4>. QED
        BY <4>1, <4>2, <4>3
    <3>. QED
      BY <3>1, <3>2
  <2>. QED
    BY <1>4, <1>6, <2>1 DEF Looks, Serves
<1>. QED
  BY <1>5, <1>6 DEF Serves

LEMMA KeepsLooking ==
  ASSUME LockInv, SteadyInv, SteadyNext, NEW name \in Name,
         pending[name] > 0, pending'[name] > 0,
         NEW u \in Thread, Looks(thr[u], name)
  PROVE  \E v \in Thread : Looks(thr[v], name)'
<1>. DEFINE r == thr[u]
<1>1. gen' = gen
  BY SteadyFlags DEF flagVars
<1>2. r \in WellFormed /\ SteadyThread(r) /\ r.pc # "idle"
  BY DEF SteadyInv, Steady, TypeOK, Looks
<1>3. CASE ~Run(u)
  BY <1>1, <1>2, <1>3, OthersStay, SameLooks DEF SteadyInv
<1>4. ASSUME NEW h \in Holding, Serves(thr[h].job, name), Run(u), u \notin Holding
      PROVE  \E v \in Thread : Looks(thr[v], name)'
  <2>1. h \in Thread /\ Looks(thr[h], name) /\ h # u /\ thr[h].pc # "idle"
    BY <1>4, HolderLooks DEF Looks
  <2>2. thr'[h] = thr[h]
    BY <1>4, <2>1, RunsAlone DEF SteadyInv
  <2>. QED
    BY <1>1, <2>1, <2>2, SameLooks
<1>5. CASE Check(u) \/ Admit(u) \/ Acquire(u) \/ Execute(u) \/ Release(u) \/ DrainAfter(u)
  <2>1. r.pc \in {"check", "admit", "acquire", "execute", "release", "drain"}
    BY <1>5 DEF Check, Admit, Acquire, Execute, Release, DrainAfter, At
  <2>2. Serves(r.job, name)
    BY <2>1 DEF Looks
  <2>3. /\ thr'[u].pc \in {"admit", "acquire", "execute", "release", "drain", "pick"}
        /\ thr'[u].job = r.job
    <3>1. CASE Execute(u)
      BY <1>2, <3>1 DEF Execute, SteadyInv, TypeOK, WellFormed, ThreadState
    <3>2. CASE Check(u) \/ Admit(u) \/ Acquire(u) \/ Release(u) \/ DrainAfter(u)
      <4>1. PICK pc \in {"admit", "acquire", "execute", "drain", "pick"} :
              thr' = [thr EXCEPT ![u] = [r EXCEPT !.pc = pc]]
        BY <3>2 DEF Check, Admit, Acquire, Release, DrainAfter, SteadyInv, Steady
      <4>. QED
        BY <1>2, <4>1 DEF SteadyInv, TypeOK, WellFormed, ThreadState
    <3>. QED
      BY <1>5, <3>1, <3>2
  <2>. QED
    BY <1>1, <2>2, <2>3, SameLooks DEF Looks
<1>6. CASE AcquireDenied(u)
  <2>1. r.pc = "acquire" /\ Serves(r.job, name) /\ Busy(r.job)
    BY <1>6 DEF AcquireDenied, At, Looks
  <2>2. r.job \in Job /\ JobOf(r.job.name) = r.job
    BY <1>2, <2>1 DEF WellFormed, ThreadState, SteadyThread
  <2>3. PICK h \in Holding : Serves(thr[h].job, name)
    BY <2>1, <2>2, HolderServes
  <2>. QED
    BY <1>4, <1>6, <2>1, <2>3 DEF Run, Holding, At
<1>7. CASE PickNone(u)
  <2>1. r.pc = "pick" /\ Serves(r.job, name)
    BY <1>7 DEF PickNone, At, Looks
  <2>2. PICK h \in Holding : Serves(thr[h].job, name)
    BY <1>7, <2>1, PickNoneLooks
  <2>. QED
    BY <1>4, <1>7, <2>1, <2>2 DEF Run, Holding, At
<1>8. CASE PickOne(u)
  <2>1. r.pc = "pick" /\ Serves(r.job, name)
    BY <1>8 DEF PickOne, At, Looks
  <2>2. CASE Looks(thr'[u], name)
    BY <1>1, <2>2, SameLooks
  <2>3. CASE \E h \in Holding : Serves(thr[h].job, name)
    BY <1>4, <1>8, <2>1, <2>3 DEF Run, Holding, At
  <2>. QED
    BY <1>8, <2>1, <2>2, <2>3, PickOneLooks
<1>9. CASE Launch(u)
  <2>. DEFINE s == [r EXCEPT !.pc = "chain", !.fire = NoFire]
              child == NewRun(JobOf(r.fire.name), 0, r.fire.n, NoChain)
  <2>1. r.pc = "launch" /\ Serves(JobOf(r.fire.name), name)
    BY <1>9 DEF Launch, At, Looks
  <2>2. InCfg(r.fire.name)
    BY <1>2, <2>1 DEF SteadyThread, Defined
  <2>3. Idle # {} /\ thr' = [thr EXCEPT ![u] = s, ![Slot] = child]
    BY <1>9, <2>2 DEF Launch, SteadyInv, TypeOK
  <2>4. child.pc = "check" /\ child.job = JobOf(r.fire.name)
    BY DEF NewRun
  <2>. HIDE DEF s, child
  <2>5. PICK v \in Thread : thr' = [thr EXCEPT ![u] = s, ![v] = child]
    BY <2>3, SlotType
  <2>6. thr'[v] = child
    BY <2>5 DEF SteadyInv, TypeOK
  <2>. QED
    BY <1>1, <2>1, <2>4, <2>6, SameLooks DEF Looks
<1>10. ~(Coalesce(u) \/ Absorb(u) \/ Fire(u) \/ Requeue(u) \/ ChainOn(u) \/ ChainEnd(u))
  BY DEF Coalesce, Absorb, Fire, Requeue, ChainOn, ChainEnd, At, Looks
<1>. QED
  BY <1>3, <1>5, <1>6, <1>7, <1>8, <1>9, <1>10 DEF Run

-----------------------------------------------------------------------------
(* The times under a step.                                                   *)

LEMMA Types ==
  ASSUME MaxInv, NEW name \in Name
  PROVE  /\ now \in Time /\ now \in Nat /\ noticed[name] \in Time \cup {Never}
         /\ firstAt[name] \in Time \cup {Never} /\ firesAt[name] \in Deadline \cup {Never}
         /\ timers[name] \in {"none", "armed", "expired"}
         /\ timers[name] = "none" <=> firesAt[name] = Never
         /\ pending[name] \in Nat /\ callbacks[name] \in Nat
         /\ Window \in Nat /\ WindowMax \in Nat
BY DebounceAssumption
   DEF MaxInv, WindowInv, TypeOK, TimedTypeOK, Time, DebounceAssumption

LEMMA CallerJob ==
  ASSUME TypeOK, NEW t \in Thread, Coalesce(t) \/ Absorb(t)
  PROVE  thr[t].job.name \in Name
BY RunnerAssumption
   DEF TypeOK, Coalesce, Absorb, At, WellFormed, ThreadState, Job

(* The deadline of a timer that is armed lies ahead, and no further from the *)
(* first trigger of the entry than debounce_max, unless that has passed.     *)
LEMMA DelayBound ==
  ASSUME MaxInv, NEW name \in Name
  PROVE  /\ First(name) \in Time /\ First(name) <= now
         /\ Delay(name) \in Nat
         /\ WindowMax > 0 => \/ now + Delay(name) <= First(name) + WindowMax
                             \/ Delay(name) = 0
<1>1. First(name) \in Time /\ Delay(name) \in 0..Window
  BY DelayType DEF MaxInv, WindowInv
<1>2. First(name) <= now
  BY Types DEF MaxInv, Clocked, First
<1>3. Delay(name) \in Nat
  BY <1>1, Types
<1>4. WindowMax > 0 => now + Delay(name) <= First(name) + WindowMax \/ Delay(name) = 0
  BY <1>1, Types DEF Delay, Time
<1>. QED
  BY <1>1, <1>2, <1>3, <1>4

LEMMA CoalesceClocked ==
  ASSUME MaxInv, NEW t \in Thread, TimedCoalesce(t), NEW m \in Name
  PROVE  Clocked(m)'
<1>. DEFINE name == thr[t].job.name
<1>1. name \in Name
  BY CallerJob DEF TimedCoalesce, MaxInv, WindowInv
<1>2. Clocked(m)
  BY DEF MaxInv
<1>3. /\ UNCHANGED <<now, strays, callbacks>>
      /\ pending'[m] = IF m = name THEN pending[m] + 1 ELSE pending[m]
      /\ noticed'[m] = IF m = name /\ noticed[m] = Never THEN now ELSE noticed[m]
  BY <1>1 DEF TimedCoalesce, Coalesce, Note, MaxInv, WindowInv, TypeOK, TimedTypeOK
<1>4. CASE m # name \/ name \in running
  <2>1. timers'[m] = timers[m] /\ firstAt'[m] = firstAt[m] /\ firesAt'[m] = firesAt[m]
    BY <1>1, <1>4 DEF TimedCoalesce, Coalesce, MaxInv, WindowInv, TypeOK, TimedTypeOK
  <2>. QED
    BY <1>2, <1>3, <2>1, Types DEF Clocked
<1>5. CASE m = name /\ name \notin running
  <2>1. /\ timers'[m] = "armed" /\ firstAt'[m] = First(m) /\ firesAt'[m] = now + Delay(m)
    BY <1>1, <1>5 DEF TimedCoalesce, Coalesce, MaxInv, WindowInv, TypeOK, TimedTypeOK
  <2>2. First(m) # Never
    BY DelayBound DEF Time, Never
  <2>. QED
    BY <1>2, <1>3, <2>1, <2>2, Types, DelayBound DEF Clocked
<1>. QED
  BY <1>4, <1>5

LEMMA TakenClock ==
  ASSUME MaxInv, TypeOK', NEW m \in Name, NoteTaken
  PROVE  /\ noticed'[m] <= now
         /\ noticed'[m] # Never => noticed'[m] = noticed[m] /\ pending'[m] > 0
<1>1. noticed'[m] = IF pending'[m] = 0 THEN Never ELSE noticed[m]
  BY DEF NoteTaken
<1>2. pending'[m] \in Nat
  BY DEF TypeOK
<1>3. noticed[m] <= now /\ Never <= now
  BY Types DEF MaxInv, Clocked, Never
<1>. QED
  BY <1>1, <1>2, <1>3

LEMMA AbsorbClocked ==
  ASSUME MaxInv, TypeOK', NEW t \in Thread, TimedAbsorb(t), NEW m \in Name
  PROVE  Clocked(m)'
<1>. DEFINE name == thr[t].job.name
<1>1. name \in Name
  BY CallerJob DEF TimedAbsorb, MaxInv, WindowInv
<1>2. Clocked(m)
  BY DEF MaxInv
<1>3. UNCHANGED <<now, strays, callbacks>> /\ NoteTaken
  BY DEF TimedAbsorb, Absorb
<1>4. /\ timers'[m] = IF m = name THEN "none" ELSE timers[m]
      /\ firstAt'[m] = IF m = name THEN Never ELSE firstAt[m]
      /\ firesAt'[m] = IF m = name THEN Never ELSE firesAt[m]
  BY <1>1 DEF TimedAbsorb, Absorb, Forget, MaxInv, WindowInv, TypeOK, TimedTypeOK
<1>5. Never <= now
  BY Types DEF Never
<1>. QED
  BY <1>2, <1>3, <1>4, <1>5, TakenClock DEF Clocked

LEMMA ExpireClocked ==
  ASSUME MaxInv, NEW name \in Name, ExpireEntry(name) \/ ExpireStray(name), NEW m \in Name
  PROVE  Clocked(m)'
<1>1. Clocked(m) /\ UNCHANGED <<now, firstAt, firesAt, noticed, pending>>
  BY DEF MaxInv, ExpireEntry, ExpireStray, Expire, windowVars
<1>2. callbacks'[m] = IF m = name THEN callbacks[m] + 1 ELSE callbacks[m]
  BY DEF ExpireEntry, ExpireStray, Expire, MaxInv, WindowInv, TypeOK
<1>3. CASE ExpireEntry(name)
  <2>1. strays' = strays /\ timers[name] = "armed"
        /\ timers'[m] = IF m = name THEN "expired" ELSE timers[m]
    BY <1>3 DEF ExpireEntry, Expire, windowVars, MaxInv, WindowInv, TypeOK
  <2>. QED
    BY <1>1, <1>2, <2>1, Types DEF Clocked
<1>4. CASE ExpireStray(name)
  <2>1. PICK d \in Deadline :
          strays[name][d] > 0 /\ strays' = [strays EXCEPT ![name][d] = @ - 1]
    BY <1>4 DEF ExpireStray
  <2>2. \A e \in Deadline : strays'[m][e] > 0 => strays[m][e] > 0
    BY <2>1 DEF MaxInv, WindowInv, TimedTypeOK
  <2>3. timers' = timers
    BY <1>4 DEF ExpireStray
  <2>. QED
    BY <1>1, <1>2, <2>2, <2>3, Types DEF Clocked
<1>. QED
  BY <1>3, <1>4

LEMMA FireClocked ==
  ASSUME MaxInv, TypeOK', NEW name \in Name, TimedFireBatch(name), NEW m \in Name
  PROVE  Clocked(m)'
<1>1. Clocked(m) /\ now' = now /\ NoteTaken
  BY DEF MaxInv, TimedFireBatch
<1>2. /\ timers'[m] = IF m = name THEN "none" ELSE timers[m]
      /\ callbacks'[m] = IF m = name THEN callbacks[m] - 1 ELSE callbacks[m]
  BY DEF TimedFireBatch, FireBatch, FireBatchKept, FireBatchTaken, DropEntry,
         MaxInv, WindowInv, TypeOK
<1>3. /\ firstAt'[m] = IF m = name THEN Never ELSE firstAt[m]
      /\ firesAt'[m] = IF m = name THEN Never ELSE firesAt[m]
  BY DEF TimedFireBatch, Forget, MaxInv, WindowInv, TimedTypeOK
<1>4. \A d \in Deadline : strays'[m][d] > 0 => now <= d
  <2>. SUFFICES ASSUME NEW d \in Deadline, strays'[m][d] > 0 PROVE now <= d
    OBVIOUS
  <2>1. CASE strays'[m][d] = strays[m][d]
    BY <1>1, <2>1 DEF Clocked
  <2>2. CASE strays'[m][d] # strays[m][d]
    <3>1. m = name /\ timers[name] = "armed" /\ d = firesAt[name]
      BY <2>2 DEF TimedFireBatch, MaxInv, WindowInv, TimedTypeOK
    <3>. QED
      BY <1>1, <3>1 DEF Clocked
  <2>. QED
    BY <2>1, <2>2
<1>5. Never <= now
  BY Types DEF Never
<1>. QED
  BY <1>1, <1>2, <1>3, <1>4, <1>5, TakenClock DEF Clocked

(* What a denied run does to the times of the jobs.                          *)
LEMMA RequeueFrame ==
  ASSUME MaxInv, NEW t \in Thread, TimedRequeue(t), NEW m \in Name
  PROVE  /\ UNCHANGED <<now, timers, callbacks, firstAt, firesAt, strays>>
         /\ pending'[m] >= pending[m] /\ pending'[m] \in Nat
         /\ \/ noticed'[m] = noticed[m]
            \/ /\ noticed[m] = Never /\ noticed'[m] = now
               /\ m = thr[t].job.name /\ Busy(thr[t].job) /\ pending'[m] > 0
<1>. DEFINE name == thr[t].job.name
<1>1. name \in Name
  BY RunnerAssumption
     DEF MaxInv, WindowInv, TypeOK, TimedRequeue, Requeue, At, WellFormed, ThreadState, Job
<1>2. UNCHANGED <<now, timers, callbacks, firstAt, firesAt, strays>>
  BY DEF TimedRequeue, Requeue, windowVars, timerVars
<1>3. pending' = [pending EXCEPT ![name] = @ + 1] /\ pending \in [Name -> Nat]
  BY DEF TimedRequeue, Requeue, MaxInv, WindowInv, TypeOK
<1>4. IF Busy(thr[t].job) THEN Note(name) ELSE UNCHANGED noticed
  BY DEF TimedRequeue
<1>5. noticed \in [Name -> Time \cup {Never}]
  BY DEF MaxInv, WindowInv, TimedTypeOK
<1>. HIDE DEF name
<1>6. pending'[m] >= pending[m] /\ pending'[m] \in Nat /\ (m = name => pending'[m] > 0)
  BY <1>1, <1>3
<1>7. \/ noticed'[m] = noticed[m]
      \/ noticed[m] = Never /\ noticed'[m] = now /\ m = name /\ Busy(thr[t].job)
  BY <1>1, <1>4, <1>5 DEF Note
<1>. QED
  BY <1>2, <1>6, <1>7 DEF name

LEMMA RequeueClocked ==
  ASSUME MaxInv, NEW t \in Thread, TimedRequeue(t), NEW m \in Name
  PROVE  Clocked(m)'
<1>1. Clocked(m) /\ now \in Nat /\ pending[m] \in Nat
  BY Types DEF MaxInv
<1>2. noticed'[m] <= now
  BY <1>1, RequeueFrame DEF Clocked
<1>3. noticed'[m] # Never => pending'[m] > 0
  BY <1>1, RequeueFrame DEF Clocked
<1>. QED
  BY <1>1, <1>2, <1>3, RequeueFrame DEF Clocked

LEMMA UntimedClocked ==
  ASSUME MaxInv, TypeOK', Untimed, NEW m \in Name
  PROVE  Clocked(m)'
BY UntimedFrame, TakenClock DEF MaxInv, Clocked

(* Time passes only while no deadline is due.                                *)
LEMMA TickClocked ==
  ASSUME MaxInv, Tick, NEW m \in Name
  PROVE  Clocked(m)'
<1>1. /\ now' = now + 1 /\ UNCHANGED <<timers, callbacks, pending, noticed>>
      /\ UNCHANGED <<firstAt, firesAt, strays>>
  BY DEF Tick, vars, timerVars, windowVars
<1>2. timers[m] = "armed" => now + 1 <= firesAt[m]
  <2>1. timers[m] = "armed" => ~(firesAt[m] <= now)
    BY DEF Tick, Due
  <2>. QED
    BY <2>1, Types DEF Deadline, Never
<1>3. \A d \in Deadline : strays[m][d] > 0 => now + 1 <= d
  <2>1. \A d \in Deadline : strays[m][d] > 0 => ~(d <= now)
    BY DEF Tick, Due
  <2>. QED
    BY <2>1, Types DEF Deadline
<1>4. firstAt[m] <= now + 1 /\ noticed[m] <= now + 1
  BY Types DEF MaxInv, Clocked, Time, Never
<1>. QED
  BY <1>1, <1>2, <1>3, <1>4 DEF MaxInv, Clocked

-----------------------------------------------------------------------------
(* Triggers that wait stay covered.                                          *)

LEMMA CoalesceAlone ==
  ASSUME TypeOK, NEW t \in Thread, Coalesce(t), NEW u \in Thread,
         thr[u].pc \notin {"idle", "trigger"}
  PROVE  thr'[u] = thr[u]
BY DEF Coalesce, At, TypeOK

(* A trigger that comes while the job runs is looked at when it ends; one    *)
(* that does not arms a timer within debounce_max of the first that waits.   *)
LEMMA CoalesceCovered ==
  ASSUME MaxInv, WindowMax > 0, NEW t \in Thread, TimedCoalesce(t),
         NEW name \in Name, thr[t].job.name = name,
         noticed[name] # Never => Covered(name)
  PROVE  Covered(name)'
<1>1. name \in Name
  OBVIOUS
<1>2. /\ UNCHANGED <<gen, now, strays, callbacks>> /\ Coalesce(t) /\ thr[t].pc = "trigger"
      /\ noticed'[name] = IF noticed[name] = Never THEN now ELSE noticed[name]
      /\ TypeOK
  BY <1>1
     DEF TimedCoalesce, Coalesce, Note, MaxInv, WindowInv, TypeOK, TimedTypeOK, flagVars, At
<1>3. ASSUME NEW h \in Thread, Looks(thr[h], name)
      PROVE  Covered(name)'
  <2>1. thr'[h] = thr[h]
    BY <1>2, <1>3, CoalesceAlone DEF Looks
  <2>2. Looks(thr[h], name)'
    BY <1>2, <1>3, <2>1 DEF Looks, Serves, JobOf
  <2>. QED
    BY <2>2 DEF Covered
<1>4. CASE name \in running
  <2>1. PICK h \in Holding : Serves(thr[h].job, name)
    BY <1>1, <1>4, RunningServed DEF MaxInv
  <2>2. h \in Thread /\ Looks(thr[h], name)
    BY <2>1, HolderLooks
  <2>. QED
    BY <1>3, <2>2
<1>5. CASE name \notin running
  <2>1. /\ timers'[name] = "armed" /\ firstAt'[name] = First(name)
        /\ firesAt'[name] = now + Delay(name)
    BY <1>1, <1>5 DEF TimedCoalesce, Coalesce, MaxInv, WindowInv, TypeOK, TimedTypeOK
  <2>2. CASE noticed[name] = Never
    <3>1. First(name) <= now /\ now + Delay(name) <= now + WindowMax
      BY <1>1, DelayBound, Types DEF Time
    <3>. QED
      BY <1>2, <2>1, <2>2, <3>1 DEF Covered
  <2>3. CASE noticed[name] # Never /\ timers[name] = "armed"
             /\ firstAt[name] <= noticed[name] /\ firesAt[name] <= noticed[name] + WindowMax
    <3>1. Clocked(name)
      BY <1>1 DEF MaxInv
    <3>2. First(name) = firstAt[name]
      BY <2>3, <3>1 DEF Clocked, First
    <3>3. now <= noticed[name] + WindowMax
      <4>1. now <= firesAt[name]
        BY <2>3, <3>1 DEF Clocked
      <4>. QED
        BY <1>1, <2>3, <4>1, Types DEF Time, Deadline, Never
    <3>4. firstAt[name] + WindowMax <= noticed[name] + WindowMax
      BY <1>1, <2>3, Types DEF Time, Never
    <3>5. First(name) <= noticed[name] /\ now + Delay(name) <= noticed[name] + WindowMax
      BY <1>1, <2>3, <3>2, <3>3, <3>4, DelayBound, Types DEF Time, Never
    <3>. QED
      BY <1>2, <2>1, <2>3, <3>5 DEF Covered
  <2>4. CASE noticed[name] # Never /\ \E d \in Deadline :
               strays[name][d] > 0 /\ d <= noticed[name] + WindowMax
    BY <1>2, <2>4 DEF Covered
  <2>5. CASE callbacks[name] > 0
    BY <1>2, <2>5 DEF Covered
  <2>6. CASE \E h \in Thread : Looks(thr[h], name)
    BY <1>3, <2>6
  <2>. QED
    BY <2>2, <2>3, <2>4, <2>5, <2>6 DEF Covered
<1>. QED
  BY <1>4, <1>5

(* Steps that leave the times of a job alone.                                *)
LEMMA FrameCovered ==
  ASSUME MaxInv, SteadyNext, NEW name \in Name, Covered(name),
         pending[name] > 0, pending'[name] > 0, noticed'[name] = noticed[name],
         timers'[name] = timers[name], callbacks'[name] >= callbacks[name],
         firstAt'[name] = firstAt[name], firesAt'[name] = firesAt[name],
         strays'[name] = strays[name], callbacks'[name] \in Nat
  PROVE  Covered(name)'
<1>1. CASE \E u \in Thread : Looks(thr[u], name)
  <2>1. \E v \in Thread : Looks(thr[v], name)'
    BY <1>1, KeepsLooking DEF MaxInv
  <2>. QED
    BY <2>1 DEF Covered
<1>2. CASE callbacks[name] > 0
  <2>1. callbacks'[name] > 0
    BY <1>2, Types
  <2>. QED
    BY <2>1 DEF Covered
<1>3. CASE \E d \in Deadline : strays[name][d] > 0 /\ d <= noticed[name] + WindowMax
  BY <1>3 DEF Covered
<1>4. CASE timers[name] = "armed" /\ firstAt[name] <= noticed[name]
           /\ firesAt[name] <= noticed[name] + WindowMax
  BY <1>4 DEF Covered
<1>. QED
  BY <1>1, <1>2, <1>3, <1>4 DEF Covered

LEMMA FireCovered ==
  ASSUME MaxInv, NEW name \in Name, TimedFireBatch(name), pending'[name] > 0
  PROVE  Covered(name)'
<1>1. FireBatchKept(name)
  BY DEF TimedFireBatch, FireBatch, FireBatchTaken, MaxInv, WindowInv, TypeOK
<1>2. name \in running /\ UNCHANGED <<thr, gen>>
  BY <1>1 DEF FireBatchKept, MaxInv, SteadyInv, Steady, flagVars
<1>3. PICK h \in Holding : Serves(thr[h].job, name)
  BY <1>2, RunningServed DEF MaxInv
<1>4. h \in Thread /\ Looks(thr[h], name)
  BY <1>3, HolderLooks
<1>5. Looks(thr[h], name)'
  BY <1>2, <1>4, SameLooks
<1>. QED
  BY <1>4, <1>5 DEF Covered

(* A trigger that is put back while its job is busy is looked at by whoever  *)
(* keeps it busy.                                                            *)
LEMMA RequeueCovered ==
  ASSUME MaxInv, NEW t \in Thread, TimedRequeue(t), NEW name \in Name,
         noticed[name] = Never, noticed'[name] # Never
  PROVE  Covered(name)'
<1>1. name = thr[t].job.name /\ Busy(thr[t].job)
  BY RequeueFrame
<1>2. thr[t] \in WellFormed /\ thr[t].pc = "denied" /\ Requeue(t)
  BY DEF TimedRequeue, Requeue, At, MaxInv, WindowInv, TypeOK
<1>3. thr[t].job \in Job /\ JobOf(thr[t].job.name) = thr[t].job
  <2>1. thr[t].job # NoJob /\ thr[t].job \in Job
    BY <1>2 DEF WellFormed, ThreadState
  <2>. QED
    BY <2>1 DEF MaxInv, SteadyInv, Steady, SteadyThread
<1>4. PICK h \in Holding : Serves(thr[h].job, name)
  BY <1>1, <1>3, HolderServes DEF MaxInv, Serves
<1>5. h \in Thread /\ Looks(thr[h], name) /\ h # t /\ thr[h].pc # "idle"
  BY <1>2, <1>4, HolderLooks DEF Looks, Holding, At
<1>6. thr'[h] = thr[h]
  BY <1>2, <1>5, RunsAlone DEF Run, MaxInv, WindowInv
<1>7. gen' = gen
  BY <1>2 DEF Requeue, flagVars
<1>. QED
  BY <1>5, <1>6, <1>7, SameLooks DEF Covered

LEMMA NextCovered ==
  ASSUME MaxInv, TimedNext, TypeOK', WindowMax > 0, NEW name \in Name,
         noticed'[name] # Never
  PROVE  Covered(name)'
<1>1. noticed[name] # Never => Covered(name) /\ pending[name] > 0 /\ callbacks[name] \in Nat
  BY Types DEF MaxInv, Clocked
<1>2. callbacks'[name] \in Nat
  BY DEF TypeOK
<1>3. CASE Tick
  <2>1. UNCHANGED <<thr, gen, timers, callbacks, noticed, firstAt, firesAt, strays>>
    BY <1>3 DEF Tick, vars, timerVars, windowVars, flagVars
  <2>. QED
    BY <1>1, <2>1 DEF Covered, Looks, Serves, JobOf
<1>4. ASSUME ~Tick, noticed'[name] = noticed[name], pending'[name] > 0,
             timers'[name] = timers[name], callbacks'[name] >= callbacks[name],
             firstAt'[name] = firstAt[name], firesAt'[name] = firesAt[name],
             strays'[name] = strays[name], SteadyNext
      PROVE  Covered(name)'
  BY <1>1, <1>2, <1>4, FrameCovered
<1>5. ASSUME NEW t \in Thread, TimedCoalesce(t) PROVE Covered(name)'
  <2>. DEFINE m == thr[t].job.name
  <2>1. m \in Name
    BY <1>5, CallerJob DEF TimedCoalesce, MaxInv, WindowInv
  <2>2. CASE name = m
    BY <1>1, <1>5, <2>2, CoalesceCovered
  <2>3. CASE name # m
    <3>1. /\ timers'[name] = timers[name] /\ firstAt'[name] = firstAt[name]
          /\ firesAt'[name] = firesAt[name] /\ noticed'[name] = noticed[name]
          /\ pending'[name] = pending[name] /\ UNCHANGED <<strays, callbacks>>
      BY <1>5, <2>1, <2>3
         DEF TimedCoalesce, Coalesce, Note, MaxInv, WindowInv, TypeOK, TimedTypeOK
    <3>2. SteadyNext
      BY <1>5 DEF TimedCoalesce, Run, SteadyNext, Work
    <3>. QED
      BY <1>1, <1>2, <3>1, <3>2, FrameCovered
  <2>. QED
    BY <2>2, <2>3
<1>6. ASSUME NEW t \in Thread, TimedAbsorb(t) PROVE Covered(name)'
  <2>. DEFINE m == thr[t].job.name
  <2>1. m \in Name
    BY <1>6, CallerJob DEF TimedAbsorb, MaxInv, WindowInv
  <2>2. noticed'[name] = noticed[name] /\ pending'[name] > 0
    BY <1>6, TakenClock DEF TimedAbsorb
  <2>3. name # m
    BY <1>6, <2>1, <2>2 DEF TimedAbsorb, Absorb, MaxInv, WindowInv, TypeOK
  <2>4. /\ timers'[name] = timers[name] /\ firstAt'[name] = firstAt[name]
        /\ firesAt'[name] = firesAt[name] /\ UNCHANGED <<strays, callbacks>>
    BY <1>6, <2>1, <2>3
       DEF TimedAbsorb, Absorb, Forget, MaxInv, WindowInv, TypeOK, TimedTypeOK
  <2>5. SteadyNext
    BY <1>6 DEF TimedAbsorb, Run, SteadyNext, Work
  <2>. QED
    BY <1>1, <1>2, <2>2, <2>4, <2>5, FrameCovered
<1>7. ASSUME NEW m \in Name, ExpireEntry(m) \/ ExpireStray(m) PROVE Covered(name)'
  <2>1. UNCHANGED <<firstAt, firesAt, noticed, pending>>
    BY <1>7 DEF ExpireEntry, ExpireStray, Expire, windowVars
  <2>2. callbacks' = [callbacks EXCEPT ![m] = @ + 1]
    BY <1>7 DEF ExpireEntry, ExpireStray, Expire
  <2>3. CASE name = m
    <3>1. callbacks'[name] > 0
      BY <1>1, <2>1, <2>2, <2>3 DEF MaxInv, WindowInv, TypeOK
    <3>. QED
      BY <3>1 DEF Covered
  <2>4. CASE name # m
    <3>1. timers'[name] = timers[name]
      BY <1>7, <2>4 DEF ExpireEntry, ExpireStray, Expire, MaxInv, WindowInv, TypeOK
    <3>2. strays'[name] = strays[name]
      BY <1>7, <2>4 DEF ExpireEntry, ExpireStray, windowVars, MaxInv, WindowInv, TimedTypeOK
    <3>3. callbacks'[name] = callbacks[name]
      BY <2>2, <2>4 DEF MaxInv, WindowInv, TypeOK
    <3>4. SteadyNext
      BY <1>7 DEF ExpireEntry, ExpireStray, SteadyNext, Work
    <3>. QED
      BY <1>1, <1>2, <2>1, <3>1, <3>2, <3>3, <3>4, FrameCovered
  <2>. QED
    BY <2>3, <2>4
<1>8. ASSUME NEW m \in Name, TimedFireBatch(m) PROVE Covered(name)'
  <2>1. noticed'[name] = noticed[name] /\ pending'[name] > 0
    BY <1>8, TakenClock DEF TimedFireBatch
  <2>2. CASE name = m
    BY <1>8, <2>1, <2>2, FireCovered
  <2>3. CASE name # m
    <3>1. timers'[name] = timers[name] /\ callbacks'[name] = callbacks[name]
      BY <1>8, <2>3 DEF TimedFireBatch, FireBatch, FireBatchKept, FireBatchTaken, DropEntry,
                        MaxInv, WindowInv, TypeOK
    <3>2. /\ firstAt'[name] = firstAt[name] /\ firesAt'[name] = firesAt[name]
          /\ strays'[name] = strays[name]
      BY <1>8, <2>3 DEF TimedFireBatch, Forget, MaxInv, WindowInv, TimedTypeOK
    <3>3. SteadyNext
      BY <1>8 DEF TimedFireBatch, SteadyNext, Work
    <3>. QED
      BY <1>1, <1>2, <2>1, <3>1, <3>2, <3>3, FrameCovered
  <2>. QED
    BY <2>2, <2>3
<1>9. CASE Untimed
  <2>1. noticed'[name] = noticed[name] /\ pending'[name] > 0
    BY <1>9, TakenClock, UntimedFrame
  <2>2. SteadyNext
    BY <1>9 DEF Untimed, SteadyNext, Work
  <2>. QED
    BY <1>1, <1>2, <1>9, <2>1, <2>2, UntimedFrame, FrameCovered
<1>10. ASSUME NEW t \in Thread, TimedRequeue(t) PROVE Covered(name)'
  <2>1. CASE noticed[name] = Never
    BY <1>10, <2>1, RequeueCovered
  <2>2. CASE noticed[name] # Never
    <3>1. SteadyNext
      BY <1>10 DEF TimedRequeue, Run, SteadyNext, Work
    <3>2. noticed'[name] = noticed[name] /\ pending'[name] > 0 /\ callbacks' = callbacks
      BY <1>1, <1>10, <2>2, RequeueFrame, Types
    <3>. QED
      BY <1>1, <1>2, <1>10, <2>2, <3>1, <3>2, RequeueFrame, FrameCovered
  <2>. QED
    BY <2>1, <2>2
<1>. QED
  BY <1>3, <1>5, <1>6, <1>7, <1>8, <1>9, <1>10 DEF TimedNext

LEMMA InitMax == TimedInit => MaxInv
<1>. SUFFICES ASSUME TimedInit PROVE MaxInv
  OBVIOUS
<1>1. LockInv /\ SteadyInv /\ WindowInv
  BY TimedStart, InitLocks, InitSteady, InitTimes DEF TimedInit
<1>2. \A name \in Name : Clocked(name) /\ noticed[name] = Never
  BY DEF TimedInit, SteadyInit, Init, Clocked, Never
<1>. QED
  BY <1>1, <1>2 DEF MaxInv

LEMMA NextMax == MaxInv /\ [TimedNext]_timedVars => MaxInv'
<1>. SUFFICES ASSUME MaxInv, [TimedNext]_timedVars PROVE MaxInv'
  OBVIOUS
<1>1. LockInv' /\ SteadyInv' /\ WindowInv' /\ TypeOK'
  BY TimedStep, SteadyStep, NextLocks, NextSteady, NextTimes DEF MaxInv, LockInv
<1>2. CASE UNCHANGED timedVars
  BY <1>1, <1>2
     DEF timedVars, vars, timerVars, flagVars, windowVars, MaxInv, Clocked,
         Covered, Looks, Serves, JobOf
<1>3. CASE TimedNext
  <2>1. \A m \in Name : Clocked(m)'
    BY <1>1, <1>3, CoalesceClocked, AbsorbClocked, RequeueClocked, ExpireClocked,
       FireClocked, UntimedClocked, TickClocked DEF TimedNext
  <2>2. WindowMax > 0 => \A m \in Name : (noticed[m] # Never)' => Covered(m)'
    BY <1>1, <1>3, NextCovered
  <2>. QED
    BY <1>1, <2>1, <2>2 DEF MaxInv
<1>. QED
  BY <1>2, <1>3

(* For every number of jobs, groups, goroutines, requests and every window,  *)
(* no trigger waits beyond debounce_max that Trigger counted, or that a      *)
(* denied run put back while the job was still busy.  Of one that comes back *)
(* later nothing is said: it may wait for ever.                              *)
THEOREM MaxHolds == TimedSpec => []NoticedInTime
<1>1. MaxInv => NoticedInTime
  <2>. SUFFICES ASSUME MaxInv, WindowMax > 0, Settled, NEW name \in Name,
                       noticed[name] # Never, ~Busy(JobOf(name))
                PROVE  now <= noticed[name] + WindowMax
    BY DEF NoticedInTime
  <2>1. Clocked(name) /\ Covered(name) /\ Defined(name) /\ gen = 1
    BY DEF MaxInv, Clocked, SteadyInv, Steady
  <2>2. CASE timers[name] = "armed" /\ firesAt[name] <= noticed[name] + WindowMax
    <3>1. now <= firesAt[name]
      BY <2>1, <2>2 DEF Clocked
    <3>. QED
      BY <2>2, <3>1, Types DEF Time, Deadline, Never
  <2>3. CASE \E d \in Deadline : strays[name][d] > 0 /\ d <= noticed[name] + WindowMax
    <3>1. PICK d \in Deadline : now <= d /\ d <= noticed[name] + WindowMax
      BY <2>1, <2>3 DEF Clocked
    <3>. QED
      BY <3>1, Types DEF Time, Deadline, Never
  <2>4. CASE callbacks[name] > 0
    BY <2>4 DEF Settled
  <2>5. ASSUME NEW t \in Thread, Looks(thr[t], name) PROVE FALSE
    <3>1. thr[t].pc = "execute" /\ Serves(thr[t].job, name)
      BY <2>5 DEF Settled, Looks
    <3>2. t \in Holding
      BY <3>1 DEF Holding, At
    <3>3. /\ thr[t].job.name \in running
          /\ thr[t].job.group # NoGroup => thr[t].job.group \in groupBusy
      BY <3>2 DEF MaxInv, LockInv, LocksHeld, GroupsOf
    <3>4. JobOf(name).name = name
      BY <2>1, LookedUp DEF Defined
    <3>. QED
      BY <3>1, <3>3, <3>4 DEF Busy, Serves
  <2>. QED
    BY <2>1, <2>2, <2>3, <2>4, <2>5 DEF Covered
<1>. QED
  BY <1>1, InitMax, NextMax, PTL DEF TimedSpec
=============================================================================
