---------------------------- MODULE ServerProofs ----------------------------
(***************************************************************************)
(* Proofs about the server process, for any number of goroutines that      *)
(* reload or serve a request at once, with crashes and restarts beside     *)
(* them: a scheduler ticks and none is left behind; the state is well      *)
(* formed; and what is in force is in the files when requests come one at  *)
(* a time.                                                                 *)
(***************************************************************************)
EXTENDS Server, FiniteSetTheorems, TLAPS

-----------------------------------------------------------------------------
(* The schedulers a reload has in hand: the one it made, until it installs   *)
(* it, and the one it took out, until it stops it.                           *)
Makes(g) == r[g].pc \in {"build", "store", "start", "swap"}
Stops(g) == r[g].pc = "stop"

(* Every scheduler is in one hand: behind schedp, made by one reload, or to  *)
(* be stopped by one.                                                        *)
OneHand ==
  /\ schedp \in 0..reloads
  /\ \A g \in Reloader :
       /\ Makes(g) => r[g].sched \in 1..reloads /\ r[g].sched # schedp
       /\ Stops(g) => r[g].sched \in 1..reloads /\ r[g].old \in 0..reloads /\ r[g].old # schedp
  /\ \A g, k \in Reloader :
       /\ Makes(g) /\ Makes(k) /\ g # k => r[g].sched # r[k].sched
       /\ Stops(g) /\ Stops(k) /\ g # k => r[g].old # r[k].old
       /\ Makes(g) /\ Stops(k) => r[g].sched # r[k].old /\ r[g].sched # r[k].sched

SchedulerInv ==
  /\ ReloadTypeOK
  /\ OneHand
  /\ server \in {"down", "starting", "up"}
  /\ server = "down" => NoReload /\ ticking = {}
  /\ AlwaysScheduling
  /\ OthersAreBeingStopped
  /\ \A g \in Reloader : Reloading(g, "swap") => r[g].sched \in ticking

-----------------------------------------------------------------------------
LEMMA ReloadConstants ==
  /\ 0 \in Version /\ 0 \in Scheduler /\ MaxReloads \in Nat /\ MaxEdits \in Nat
  /\ IdleReload \in States
BY ReloadAssumption
   DEF ReloadAssumption, Version, Scheduler, IdleReload, States, NoScheduler

LEMMA InitScheduler == Init => SchedulerInv
BY ReloadConstants
   DEF Init, ReloadInit, SchedulerInv, ReloadTypeOK, OneHand, Makes, Stops, NoReload,
       AlwaysScheduling, OthersAreBeingStopped, Reloading, IdleReload

(* Requests and edits touch no scheduler.                                    *)
LEMMA OthersKeep ==
  ASSUME SchedulerInv, UNCHANGED <<reloadVars, server>>
  PROVE  SchedulerInv'
BY DEF SchedulerInv, reloadVars, ReloadTypeOK, OneHand, Makes, Stops, NoReload,
       AlwaysScheduling, OthersAreBeingStopped, Reloading

LEMMA EditKeeps ==
  ASSUME SchedulerInv, Edit, UNCHANGED server
  PROVE  SchedulerInv'
<1>1. file' \in Version
  BY ReloadConstants DEF Edit, SchedulerInv, ReloadTypeOK, Version
<1>. QED
  BY <1>1
     DEF Edit, SchedulerInv, ReloadTypeOK, OneHand, Makes, Stops, NoReload,
         AlwaysScheduling, OthersAreBeingStopped, Reloading

(* A reload that begins makes a scheduler nobody has.                        *)
LEMMA LoadKeeps ==
  ASSUME SchedulerInv, NEW g \in Reloader, Load(g), server = "up", UNCHANGED server
  PROVE  SchedulerInv'
<1>. DEFINE s == reloads + 1
<1>1. s \in Scheduler /\ reloads \in Nat /\ reloads' = s
  BY ReloadConstants DEF Load, SchedulerInv, ReloadTypeOK, Scheduler
<1>2. UNCHANGED <<file, valid, cfgp, schedp, builtFrom, ticking>>
  BY DEF Load
<1>3. r \in [Reloader -> States] /\ r[g].pc = "idle"
  BY DEF Load, SchedulerInv, ReloadTypeOK, Reloading
<1>4. \/ r' = r
      \/ r' = [r EXCEPT ![g] = [@ EXCEPT !.pc = "build", !.config = file, !.sched = s]]
  BY DEF Load
<1>5. r' \in [Reloader -> States]
  <2>1. r[g] \in States /\ file \in Version
    BY <1>3 DEF SchedulerInv, ReloadTypeOK
  <2>2. [r[g] EXCEPT !.pc = "build", !.config = file, !.sched = s] \in States
    BY <1>1, <2>1 DEF States
  <2>. QED
    BY <1>3, <1>4, <2>2
<1>6. \A k \in Reloader : k # g => r'[k] = r[k]
  BY <1>3, <1>4
<1>7. r'[g].pc = "idle" \/ (r'[g].pc = "build" /\ r'[g].sched = s)
  BY <1>3, <1>4 DEF States
<1>8. ReloadTypeOK'
  BY <1>1, <1>2, <1>5, <1>6, <1>7 DEF SchedulerInv, ReloadTypeOK, Scheduler
<1>9. OneHand'
  <2>1. \A k \in Reloader : k # g =>
          /\ Makes(k)' <=> Makes(k)
          /\ Stops(k)' <=> Stops(k)
          /\ r'[k].sched = r[k].sched /\ r'[k].old = r[k].old
    BY <1>6 DEF Makes, Stops
  <2>2. ~Stops(g)' /\ (Makes(g)' => r'[g].sched = s)
    BY <1>7 DEF Makes, Stops
  <2>3. \A n \in 0..reloads : n # s /\ n \in 0..s
    BY <1>1
  <2>4. \A n \in 1..reloads : n \in 1..s
    BY <1>1
  <2>5. s \in 1..s
    BY <1>1
  <2>6. \A n \in 1..reloads : n \in 0..reloads
    BY <1>1
  <2>. HIDE DEF s
  <2>. QED
    BY <1>1, <1>2, <2>1, <2>2, <2>3, <2>4, <2>5, <2>6 DEF SchedulerInv, OneHand
<1>10. OthersAreBeingStopped' /\ \A k \in Reloader : Reloading(k, "swap")' => r'[k].sched \in ticking'
  BY <1>2, <1>3, <1>6, <1>7 DEF SchedulerInv, OthersAreBeingStopped, Reloading
<1>. QED
  BY <1>2, <1>8, <1>9, <1>10 DEF SchedulerInv, AlwaysScheduling

(* Building and storing move no scheduler from hand to hand.                 *)
LEMMA BuildKeeps ==
  ASSUME SchedulerInv, NEW g \in Reloader, Build(g) \/ Store(g), UNCHANGED server
  PROVE  SchedulerInv'
<1>1. r \in [Reloader -> States] /\ r[g].pc \in {"build", "store"}
  BY DEF Build, Store, SchedulerInv, ReloadTypeOK, Reloading
<1>2. UNCHANGED <<file, valid, schedp, ticking, reloads>>
  BY DEF Build, Store
<1>3. /\ r'[g].pc \in {"idle", "store", "start"} /\ r' \in [Reloader -> States]
      /\ r'[g].pc # "idle" => r'[g].sched = r[g].sched /\ r'[g].config = r[g].config
      /\ \A k \in Reloader : k # g => r'[k] = r[k]
  BY <1>1, ReloadConstants DEF Build, Store, States, IdleReload
<1>4. ReloadTypeOK'
  <2>1. cfgp' \in Version
    BY <1>1 DEF Build, Store, SchedulerInv, ReloadTypeOK, States
  <2>2. builtFrom' \in [Scheduler -> Version]
    BY <1>1 DEF Build, Store, SchedulerInv, ReloadTypeOK, States
  <2>3. \A k \in Reloader : k # g /\ (Makes(k) \/ Stops(k)) => r[k].sched # r[g].sched
    BY <1>1 DEF SchedulerInv, OneHand, Makes
  <2>4. r[g].sched \in Scheduler /\ builtFrom \in [Scheduler -> Version]
    BY <1>1 DEF SchedulerInv, ReloadTypeOK, States
  <2>5. r'[g].pc # "idle" => builtFrom'[r[g].sched] = r[g].config
    <3>1. CASE Build(g)
      BY <1>1, <2>4, <3>1 DEF Build, IdleReload
    <3>2. CASE Store(g)
      BY <3>2 DEF Store, SchedulerInv, ReloadTypeOK, Reloading
    <3>. QED
      BY <3>1, <3>2
  <2>6. \A n \in Scheduler : n # r[g].sched => builtFrom'[n] = builtFrom[n]
    BY <2>4 DEF Build, Store
  <2>7. ASSUME NEW k \in Reloader, k # g, r'[k].pc \in {"store", "start", "swap", "stop"}
        PROVE  builtFrom'[r'[k].sched] = r'[k].config
    <3>1. r'[k] = r[k] /\ r[k].sched \in Scheduler /\ builtFrom[r[k].sched] = r[k].config
      BY <1>1, <1>3, <2>7 DEF SchedulerInv, ReloadTypeOK, States
    <3>2. Makes(k) \/ Stops(k)
      BY <2>7, <3>1 DEF Makes, Stops
    <3>. QED
      BY <2>3, <2>6, <2>7, <3>1, <3>2
  <2>. QED
    BY <1>2, <1>3, <2>1, <2>2, <2>5, <2>7 DEF SchedulerInv, ReloadTypeOK
<1>5. OneHand'
  BY <1>1, <1>2, <1>3 DEF SchedulerInv, OneHand, Makes, Stops
<1>. QED
  BY <1>1, <1>2, <1>3, <1>4, <1>5
     DEF SchedulerInv, AlwaysScheduling, OthersAreBeingStopped, Reloading, NoReload

LEMMA StartKeeps ==
  ASSUME SchedulerInv, NEW g \in Reloader, Start(g), UNCHANGED server
  PROVE  SchedulerInv'
<1>1. r \in [Reloader -> States] /\ r[g].pc = "start"
  BY DEF Start, SchedulerInv, ReloadTypeOK, Reloading
<1>2. UNCHANGED <<file, valid, cfgp, schedp, builtFrom, reloads>>
  BY DEF Start
<1>3. /\ r' \in [Reloader -> States]
      /\ r'[g].pc = "swap" /\ r'[g].sched = r[g].sched /\ r'[g].config = r[g].config
      /\ \A k \in Reloader : k # g => r'[k] = r[k]
      /\ ticking' = ticking \cup {r[g].sched} /\ r[g].sched \in Scheduler
  BY <1>1 DEF Start, States
<1>4. ReloadTypeOK'
  BY <1>1, <1>2, <1>3 DEF SchedulerInv, ReloadTypeOK
<1>5. OneHand'
  BY <1>1, <1>2, <1>3 DEF SchedulerInv, OneHand, Makes, Stops
<1>6. server # "down"
  BY <1>1 DEF SchedulerInv, NoReload, Reloading
<1>. QED
  BY <1>1, <1>2, <1>3, <1>4, <1>5, <1>6
     DEF SchedulerInv, AlwaysScheduling, OthersAreBeingStopped, Reloading, NoReload

(* The swap takes the old scheduler in hand in the step that lets go of the  *)
(* new one.                                                                  *)
LEMMA SwapKeeps ==
  ASSUME SchedulerInv, NEW g \in Reloader, Swap(g), UNCHANGED server
  PROVE  SchedulerInv'
<1>1. r \in [Reloader -> States] /\ r[g].pc = "swap" /\ r[g].sched \in ticking
  BY DEF Swap, SchedulerInv, ReloadTypeOK, Reloading
<1>2. UNCHANGED <<file, valid, cfgp, builtFrom, ticking, reloads>>
  BY DEF Swap
<1>3. /\ r' \in [Reloader -> States]
      /\ r'[g].pc = "stop" /\ r'[g].old = schedp
      /\ r'[g].sched = r[g].sched /\ r'[g].config = r[g].config
      /\ \A k \in Reloader : k # g => r'[k] = r[k]
      /\ schedp' = r[g].sched /\ r[g].sched \in Scheduler
  BY <1>1 DEF Swap, SchedulerInv, ReloadTypeOK, States
<1>4. ReloadTypeOK'
  BY <1>1, <1>2, <1>3 DEF SchedulerInv, ReloadTypeOK
<1>5. OneHand'
  <2>1. reloads \in Nat
    BY DEF SchedulerInv, ReloadTypeOK
  <2>2. \A n \in 1..reloads : n \in 0..reloads
    BY <2>1
  <2>. QED
    BY <1>1, <1>2, <1>3, <2>2 DEF SchedulerInv, OneHand, Makes, Stops
<1>6. server # "down"
  BY <1>1 DEF SchedulerInv, NoReload, Reloading
<1>7. OthersAreBeingStopped'
  <2>. SUFFICES ASSUME NEW s \in ticking, s # r[g].sched
                PROVE  \E k \in Reloader : \/ r'[k].pc = "swap" /\ r'[k].sched = s
                                           \/ r'[k].pc = "stop" /\ r'[k].old = s
    BY <1>2, <1>3 DEF OthersAreBeingStopped, Reloading
  <2>1. CASE s = schedp
    BY <1>3, <2>1
  <2>2. CASE s # schedp
    <3>1. PICK k \in Reloader : \/ r[k].pc = "swap" /\ r[k].sched = s
                                \/ r[k].pc = "stop" /\ r[k].old = s
      BY <2>2 DEF SchedulerInv, OthersAreBeingStopped, Reloading
    <3>2. k # g
      BY <1>1, <3>1
    <3>. QED
      BY <1>3, <3>1, <3>2
  <2>. QED
    BY <2>1, <2>2
<1>. QED
  BY <1>1, <1>2, <1>3, <1>4, <1>5, <1>6, <1>7
     DEF SchedulerInv, AlwaysScheduling, Reloading, NoReload

LEMMA StopKeeps ==
  ASSUME SchedulerInv, NEW g \in Reloader, Stop(g), UNCHANGED server
  PROVE  SchedulerInv'
<1>1. r \in [Reloader -> States] /\ r[g].pc = "stop"
  BY DEF Stop, SchedulerInv, ReloadTypeOK, Reloading
<1>2. UNCHANGED <<file, valid, cfgp, schedp, builtFrom, reloads>>
  BY DEF Stop
<1>3. /\ r' \in [Reloader -> States] /\ r'[g].pc = "idle"
      /\ \A k \in Reloader : k # g => r'[k] = r[k]
      /\ ticking' = ticking \ {r[g].old}
  BY <1>1, ReloadConstants DEF Stop, IdleReload
<1>4. ReloadTypeOK'
  BY <1>1, <1>2, <1>3 DEF SchedulerInv, ReloadTypeOK
<1>5. OneHand'
  BY <1>1, <1>2, <1>3 DEF SchedulerInv, OneHand, Makes, Stops
<1>6. server # "down"
  BY <1>1 DEF SchedulerInv, NoReload, Reloading
<1>7. schedp # r[g].old
  BY <1>1 DEF SchedulerInv, OneHand, Stops
<1>8. \A k \in Reloader : r'[k].pc = "swap" => r'[k].sched \in ticking'
  BY <1>1, <1>3 DEF SchedulerInv, OneHand, Makes, Stops, Reloading
<1>. QED
  BY <1>1, <1>2, <1>3, <1>4, <1>5, <1>6, <1>7, <1>8
     DEF SchedulerInv, AlwaysScheduling, OthersAreBeingStopped, Reloading, NoReload

(* A crash takes every scheduler, and the start makes the first one.         *)
LEMMA CrashKeeps ==
  ASSUME SchedulerInv, SchedulersLost, server' = "down"
  PROVE  SchedulerInv'
<1>1. /\ \A k \in Reloader : r'[k].pc = "idle"
      /\ r' \in [Reloader -> States]
  BY ReloadConstants DEF SchedulersLost, IdleReload
<1>. QED
  BY <1>1
     DEF SchedulersLost, SchedulerInv, ReloadTypeOK, OneHand, Makes, Stops, NoReload,
         AlwaysScheduling, OthersAreBeingStopped, Reloading

LEMMA BootKeeps ==
  ASSUME SchedulerInv, LoadFirst, server = "down", server' = "starting"
  PROVE  SchedulerInv'
<1>1. \A k \in Reloader : r[k].pc = "idle"
  BY DEF SchedulerInv, NoReload, Reloading
<1>2. reloads \in Nat
  BY DEF SchedulerInv, ReloadTypeOK
<1>3. builtFrom' \in [Scheduler -> Version]
  BY ReloadConstants DEF LoadFirst, SchedulerInv, ReloadTypeOK
<1>. QED
  BY <1>1, <1>2, <1>3, ReloadConstants
     DEF LoadFirst, SchedulerInv, ReloadTypeOK, OneHand, Makes, Stops, NoReload,
         AlwaysScheduling, OthersAreBeingStopped, Reloading

LEMMA ServeKeeps ==
  ASSUME SchedulerInv, UNCHANGED reloadVars, server = "starting", server' = "up"
  PROVE  SchedulerInv'
BY DEF SchedulerInv, reloadVars, ReloadTypeOK, OneHand, Makes, Stops, NoReload,
       AlwaysScheduling, OthersAreBeingStopped, Reloading

LEMMA NextScheduler == SchedulerInv /\ [Next]_vars => SchedulerInv'
<1>. SUFFICES ASSUME SchedulerInv, [Next]_vars PROVE SchedulerInv'
  OBVIOUS
<1>1. CASE EditFile
  BY <1>1, EditKeeps DEF EditFile
<1>2. ASSUME NEW g \in Reloader, Reload(g) PROVE SchedulerInv'
  BY <1>2, LoadKeeps DEF Reload
<1>3. ASSUME NEW g \in Reloader, GoOnReloading(g) PROVE SchedulerInv'
  BY <1>3, BuildKeeps, StartKeeps, SwapKeeps, StopKeeps DEF GoOnReloading, ReloadStep
<1>4. ASSUME NEW g \in Handler, Request(g) \/ GoOnServing(g) PROVE SchedulerInv'
  BY <1>4, OthersKeep DEF Request, GoOnServing
<1>5. CASE Crash
  BY <1>5, CrashKeeps DEF Crash
<1>6. CASE Boot
  BY <1>6, BootKeeps DEF Boot
<1>7. CASE Serve
  BY <1>7, ServeKeeps DEF Serve
<1>8. CASE UNCHANGED vars
  BY <1>8, OthersKeep DEF vars
<1>. QED
  BY <1>1, <1>2, <1>3, <1>4, <1>5, <1>6, <1>7, <1>8 DEF Next

LEMMA SchedulerInvariant == Spec => []SchedulerInv
BY InitScheduler, NextScheduler, PTL DEF Spec

(* The scheduler that is shown ticks, from the start of the server on.       *)
THEOREM Scheduling == Spec => []AlwaysScheduling
BY SchedulerInvariant, PTL DEF SchedulerInv

(* A second one ticks only in the hand of a reload that is under way.        *)
THEOREM OthersStopped == Spec => []OthersAreBeingStopped
BY SchedulerInvariant, PTL DEF SchedulerInv

(* And when no reload is, it is the only one.                                *)
THEOREM OneScheduler == Spec => []NoSchedulerLeaks
<1>1. SchedulerInv => NoSchedulerLeaks
  <2>. SUFFICES ASSUME SchedulerInv, server # "down", NoReload PROVE ticking = {schedp}
    BY DEF NoSchedulerLeaks
  <2>1. schedp \in ticking
    BY DEF SchedulerInv, AlwaysScheduling
  <2>2. \A s \in ticking : s = schedp
    BY DEF SchedulerInv, OthersAreBeingStopped, NoReload, Reloading
  <2>. QED
    BY <2>1, <2>2
<1>. QED
  BY <1>1, SchedulerInvariant, PTL

-----------------------------------------------------------------------------
(* The runtime state.                                                        *)

LEMMA StateConstants ==
  /\ NoKey \in Nat /\ Idle \in Requests /\ Idle.pc = "idle"
  /\ Empty \in File /\ Loaded(Empty) = {} /\ MaxRequests \in Nat /\ MaxCrashes \in Nat
<1>1. (CHOOSE n \in Name : TRUE) \in Name
  BY RuntimeStateAssumption DEF RuntimeStateAssumption
<1>. QED
  BY <1>1, RuntimeStateAssumption, ServerAssumption
     DEF RuntimeStateAssumption, ServerAssumption, NoKey, Idle, Requests, Empty, File, Loaded

(* A text that replaces another is as long as the longer of the two, and     *)
(* valid over an emptied file.                                               *)
LEMMA Overwriting ==
  ASSUME NEW f \in File, NEW set \in SUBSET Name
  PROVE  /\ Overwrite(f, set) \in File
         /\ Loaded(Overwrite(Empty, set)) = set
<1>1. TextLength(set) \in Nat
  <2>1. IsFiniteSet(set)
    BY RuntimeStateAssumption, FS_Subset DEF RuntimeStateAssumption
  <2>. QED
    BY <2>1, FS_CardinalityType DEF TextLength
<1>2. f.length \in Nat
  BY DEF File
<1>3. Max({TextLength(set), f.length}) \in Nat
  <2>1. \E x \in {TextLength(set), f.length} : \A y \in {TextLength(set), f.length} : x >= y
    BY <1>1, <1>2
  <2>. QED
    BY <1>1, <1>2, <2>1 DEF Max
<1>4. (TextLength(set) >= f.length) \in BOOLEAN
  OBVIOUS
<1>5. Overwrite(f, set) \in File
  BY <1>3, <1>4 DEF Overwrite, File
<1>6. TextLength(set) >= 0
  BY <1>1
<1>7. Loaded(Overwrite(Empty, set)) = set
  BY <1>6 DEF Loaded, Overwrite, Empty
<1>. QED
  BY <1>5, <1>7

-----------------------------------------------------------------------------
(* A rotation carries a key that was made, and no request is served but by a *)
(* server that is up.                                                        *)
StateInv ==
  /\ StateTypeOK
  /\ server \in {"down", "starting", "up"}
  /\ crashes \in 0..MaxCrashes
  /\ \A g \in Handler : h[g].pc \in {"openKey", "writeKey", "install"} => h[g].key \in 1..keys
  /\ server # "up" => AllAnswered

LEMMA InitState == Init => StateInv
BY StateConstants
   DEF Init, StateInit, StateInv, StateTypeOK, AllAnswered, At, NoKey

(* A request that arrives.                                                   *)
LEMMA RequestKeeps ==
  ASSUME StateInv, NEW g \in Handler, Request(g)
  PROVE  StateInv'
<1>1. PICK request \in Requests :
        /\ Accept(g, request)
        /\ \/ request.pc = "openKey" /\ request.key = keys + 1 /\ keys' = keys + 1
           \/ request.pc = "set" /\ keys' = keys
  <2>1. CASE Ask(g)
    <3>1. PICK n \in Name, off \in BOOLEAN :
            Accept(g, [Idle EXCEPT !.pc = "set", !.name = n, !.off = off])
      BY <2>1 DEF Ask
    <3>2. [Idle EXCEPT !.pc = "set", !.name = n, !.off = off] \in Requests
      BY StateConstants DEF Requests
    <3>3. [Idle EXCEPT !.pc = "set", !.name = n, !.off = off].pc = "set"
      BY StateConstants DEF Requests
    <3>. QED
      BY <2>1, <3>1, <3>2, <3>3 DEF Ask
  <2>2. CASE Rotate(g)
    <3>. DEFINE new == [Idle EXCEPT !.pc = "openKey", !.key = keys + 1]
    <3>1. keys + 1 \in Nat
      BY DEF StateInv, StateTypeOK
    <3>2. new \in Requests /\ new.pc = "openKey" /\ new.key = keys + 1
      BY <3>1, StateConstants DEF Requests
    <3>3. Accept(g, new) /\ keys' = keys + 1
      BY <2>2 DEF Rotate
    <3>. QED
      BY <3>2, <3>3
  <2>. QED
    BY <2>1, <2>2 DEF Request
<1>2. UNCHANGED <<disabled, state, apikey, keyFile, server, crashes>> /\ server = "up"
  BY DEF Request, Ask, Rotate, diskVars
<1>3. h' \in [Handler -> Requests] /\ requests' \in 0..MaxRequests
  BY <1>1, StateConstants DEF Accept, StateInv, StateTypeOK
<1>4. keys \in Nat /\ keys' \in Nat /\ \A k \in 0..keys : k \in 0..keys'
  BY <1>1 DEF StateInv, StateTypeOK
<1>5. StateTypeOK'
  BY <1>2, <1>3, <1>4 DEF StateInv, StateTypeOK
<1>6. \A k \in Handler :
        h'[k].pc \in {"openKey", "writeKey", "install"} => h'[k].key \in 1..keys'
  BY <1>1, <1>4 DEF Accept, StateInv, StateTypeOK
<1>. QED
  BY <1>2, <1>5, <1>6 DEF StateInv

(* A request that is served.                                                 *)
LEMMA ServingKeeps ==
  ASSUME StateInv, NEW g \in Handler, GoOnServing(g)
  PROVE  StateInv'
<1>1. h \in [Handler -> Requests] /\ h[g] \in Requests /\ keys \in Nat
  BY DEF StateInv, StateTypeOK
<1>2. UNCHANGED <<server, crashes, keys, requests>> /\ ~At(g, "idle")
  BY DEF GoOnServing, StateStep, SetDisabled, OpenState, WriteState, OpenKey, WriteKey,
         Install, diskVars, At
<1>3. PICK request \in Requests :
        /\ h' = [h EXCEPT ![g] = request]
        /\ request.pc \in {"openKey", "writeKey", "install"} =>
             h[g].pc \in {"openKey", "writeKey", "install"} /\ request.key = h[g].key
        /\ disabled' \subseteq Name /\ state' \in File
        /\ apikey' \in 1..keys /\ keyFile' \in 0..keys
  <2>1. CASE SetDisabled(g)
    <3>1. disabled' \subseteq Name
      BY <1>1, <2>1 DEF SetDisabled, StateInv, StateTypeOK, Requests
    <3>. DEFINE new == [h[g] EXCEPT !.pc = "open", !.snapshot = disabled']
    <3>2. new \in Requests /\ new.pc = "open" /\ h' = [h EXCEPT ![g] = new]
      BY <1>1, <2>1, <3>1 DEF SetDisabled, Requests
    <3>. QED
      BY <2>1, <3>1, <3>2 DEF SetDisabled, StateInv, StateTypeOK, diskVars
  <2>2. CASE OpenState(g)
    <3>. DEFINE new == [h[g] EXCEPT !.pc = "write"]
    <3>1. new \in Requests /\ new.pc = "write" /\ h' = [h EXCEPT ![g] = new]
      BY <1>1, <2>2 DEF OpenState, Requests
    <3>. QED
      BY <2>2, <3>1, StateConstants DEF OpenState, StateInv, StateTypeOK
  <2>3. CASE WriteState(g)
    <3>1. h[g].snapshot \in SUBSET Name /\ state \in File
      BY <1>1 DEF Requests, StateInv, StateTypeOK
    <3>. QED
      BY <2>3, <3>1, StateConstants, Overwriting DEF WriteState, StateInv, StateTypeOK
  <2>4. CASE OpenKey(g) \/ WriteKey(g)
    <3>. DEFINE new(pc) == [h[g] EXCEPT !.pc = pc]
    <3>1. \A pc \in {"writeKey", "install"} :
            new(pc) \in Requests /\ new(pc).key = h[g].key
      BY <1>1 DEF Requests
    <3>2. h[g].pc \in {"openKey", "writeKey"} /\ h[g].key \in 1..keys
      BY <2>4 DEF OpenKey, WriteKey, At, StateInv
    <3>3. h' = [h EXCEPT ![g] = new("writeKey")] \/ h' = [h EXCEPT ![g] = new("install")]
      BY <1>1, <2>4 DEF OpenKey, WriteKey
    <3>4. keyFile' \in 0..keys /\ UNCHANGED <<disabled, state, apikey>>
      BY <1>1, <2>4, <3>2 DEF OpenKey, WriteKey, NoKey
    <3>. QED
      BY <3>1, <3>2, <3>3, <3>4 DEF StateInv, StateTypeOK
  <2>5. CASE Install(g)
    <3>1. h[g].key \in 1..keys
      BY <2>5 DEF Install, At, StateInv
    <3>. QED
      BY <2>5, <3>1, StateConstants DEF Install, StateInv, StateTypeOK, diskVars
  <2>. QED
    BY <2>1, <2>2, <2>3, <2>4, <2>5 DEF GoOnServing, StateStep
<1>4. StateTypeOK'
  BY <1>1, <1>2, <1>3 DEF StateInv, StateTypeOK
<1>5. \A k \in Handler :
        h'[k].pc \in {"openKey", "writeKey", "install"} => h'[k].key \in 1..keys'
  BY <1>1, <1>2, <1>3 DEF StateInv
<1>6. server = "up"
  BY <1>2 DEF StateInv, AllAnswered
<1>. QED
  BY <1>2, <1>4, <1>5, <1>6 DEF StateInv

(* The death of the server and its start.                                    *)
LEMMA ServerKeeps ==
  ASSUME StateInv, Crash \/ Boot \/ Serve
  PROVE  StateInv'
<1>1. CASE Crash
  <2>1. h' \in [Handler -> Requests] /\ \A g \in Handler : h'[g].pc = "idle"
    BY <1>1, StateConstants DEF Crash, StateLost
  <2>2. crashes' \in 0..MaxCrashes
    BY <1>1, StateConstants DEF Crash, StateInv
  <2>. QED
    BY <1>1, <2>1, <2>2
       DEF Crash, StateLost, StateInv, StateTypeOK, AllAnswered, At, diskVars
<1>2. CASE Boot
  <2>1. Loaded(state) \subseteq Name
    BY DEF StateInv, StateTypeOK, File, Loaded
  <2>. QED
    BY <1>2, <2>1 DEF Boot, LoadState, StateInv, StateTypeOK, AllAnswered, At, diskVars
<1>3. CASE Serve
  <2>1. UNCHANGED <<disabled, state, h, requests, crashes>> /\ server' = "up"
    BY <1>3 DEF Serve, LoadKey
  <2>2. keys \in Nat /\ keyFile \in 0..keys
    BY DEF StateInv, StateTypeOK
  <2>3. /\ keys' \in Nat /\ apikey' \in 1..keys' /\ keyFile' \in 0..keys'
        /\ \A k \in 1..keys : k \in 1..keys'
    BY <1>3, <2>2 DEF Serve, LoadKey, NoKey
  <2>. QED
    BY <2>1, <2>3 DEF StateInv, StateTypeOK
<1>. QED
  BY <1>1, <1>2, <1>3

(* Whatever changes neither the state nor the server.                        *)
LEMMA StateStands ==
  ASSUME StateInv, UNCHANGED <<stateVars, server, crashes>>
  PROVE  StateInv'
BY DEF StateInv, StateTypeOK, AllAnswered, At, stateVars, diskVars

LEMMA Aside ==
  ASSUME EditFile \/ (\E g \in Reloader : Reload(g) \/ GoOnReloading(g)) \/ UNCHANGED vars
  PROVE  UNCHANGED <<stateVars, server, crashes>>
BY DEF EditFile, Reload, GoOnReloading, vars

LEMMA StateInvariant == Spec => []StateInv
<1>1. StateInv /\ [Next]_vars => StateInv'
  BY RequestKeeps, ServingKeeps, ServerKeeps, StateStands, Aside DEF Next
<1>. QED
  BY InitState, <1>1, PTL DEF Spec

(* Every reachable state of the server is well typed, however many requests  *)
(* and reloads overlap.                                                      *)
THEOREM ServerTyping == Spec => []TypeOK
<1>1. SchedulerInv /\ StateInv => TypeOK
  BY DEF SchedulerInv, StateInv, TypeOK
<1>. QED
  BY <1>1, SchedulerInvariant, StateInvariant, PTL

-----------------------------------------------------------------------------
(* One request at a time.                                                    *)
OneAtATime == \A g, k \in Handler : g = k

(* What is saved is what is in force, but for the request that saves it.     *)
Saving(g) == h[g].pc \in {"open", "write"}
Rotating(g) == h[g].pc \in {"openKey", "writeKey", "install"}

SavedInv ==
  /\ \A g \in Handler : Saving(g) => h[g].snapshot = disabled
  /\ \A g \in Handler : h[g].pc = "write" => state = Empty
  /\ server # "down" /\ (\A g \in Handler : ~Saving(g)) => Loaded(state) = disabled
  /\ \A g \in Handler : h[g].pc = "install" => keyFile = h[g].key
  /\ server = "up" /\ (\A g \in Handler : ~Rotating(g)) => keyFile = apikey

LEMMA InitSaved == Init => SavedInv
BY StateConstants DEF Init, StateInit, SavedInv, Saving, Rotating

LEMMA SavedStands ==
  ASSUME SavedInv, UNCHANGED <<stateVars, server>>
  PROVE  SavedInv'
BY DEF SavedInv, Saving, Rotating, stateVars, diskVars

LEMMA RequestSaved ==
  ASSUME StateInv, SavedInv, OneAtATime, NEW g \in Handler, Request(g)
  PROVE  SavedInv'
<1>1. \A k \in Handler : k = g
  BY DEF OneAtATime
<1>2. h \in [Handler -> Requests] /\ h[g].pc = "idle"
  BY DEF Request, Ask, Rotate, Accept, At, StateInv, StateTypeOK
<1>3. h'[g].pc \in {"set", "openKey"}
  <2>1. CASE Ask(g)
    <3>1. PICK n \in Name, off \in BOOLEAN :
            Accept(g, [Idle EXCEPT !.pc = "set", !.name = n, !.off = off])
      BY <2>1 DEF Ask
    <3>. QED
      BY <1>2, <3>1, StateConstants DEF Accept, Requests
  <2>2. CASE Rotate(g)
    BY <1>2, <2>2, StateConstants DEF Rotate, Accept, Requests
  <2>. QED
    BY <2>1, <2>2 DEF Request
<1>4. UNCHANGED <<disabled, state, apikey, keyFile, server>>
  BY DEF Request, Ask, Rotate, diskVars
<1>. QED
  BY <1>1, <1>2, <1>3, <1>4 DEF SavedInv, Saving, Rotating

LEMMA ServingSaved ==
  ASSUME StateInv, SavedInv, OneAtATime, NEW g \in Handler, GoOnServing(g)
  PROVE  SavedInv'
<1>1. \A k \in Handler : k = g
  BY DEF OneAtATime
<1>2. h \in [Handler -> Requests] /\ h[g] \in Requests
  BY DEF StateInv, StateTypeOK
<1>3. server' = server
  BY DEF GoOnServing
<1>4. CASE SetDisabled(g)
  <2>1. h'[g].pc = "open" /\ h'[g].snapshot = disabled' /\ h[g].pc = "set"
    BY <1>2, <1>4 DEF SetDisabled, At, Requests
  <2>. QED
    BY <1>1, <1>3, <1>4, <2>1 DEF SetDisabled, SavedInv, Saving, Rotating, diskVars
<1>5. CASE OpenState(g)
  <2>1. h'[g].pc = "write" /\ h'[g].snapshot = h[g].snapshot /\ h[g].pc = "open"
    BY <1>2, <1>5 DEF OpenState, At, Requests
  <2>. QED
    BY <1>1, <1>3, <1>5, <2>1 DEF OpenState, SavedInv, Saving, Rotating
<1>6. CASE WriteState(g)
  <2>1. h'[g].pc = "idle" /\ h[g].pc = "write" /\ state = Empty /\ h[g].snapshot = disabled
    BY <1>2, <1>6, StateConstants DEF WriteState, At, SavedInv, Saving
  <2>2. Loaded(state') = disabled
    BY <1>6, <2>1, StateConstants, Overwriting DEF WriteState, StateInv, StateTypeOK
  <2>. QED
    BY <1>1, <1>3, <1>6, <2>1, <2>2 DEF WriteState, SavedInv, Saving, Rotating
<1>7. CASE OpenKey(g) \/ WriteKey(g)
  <2>1. /\ h'[g].pc \in {"writeKey", "install"} /\ Rotating(g)
        /\ h'[g].pc = "install" => keyFile' = h'[g].key
    BY <1>2, <1>7 DEF OpenKey, WriteKey, At, Rotating, Requests
  <2>2. UNCHANGED <<disabled, state, apikey>>
    BY <1>7 DEF OpenKey, WriteKey
  <2>. QED
    BY <1>1, <1>3, <2>1, <2>2 DEF SavedInv, Saving, Rotating
<1>8. CASE Install(g)
  <2>1. h'[g].pc = "idle" /\ h[g].pc = "install" /\ apikey' = keyFile
    BY <1>2, <1>8, StateConstants DEF Install, At, SavedInv
  <2>. QED
    BY <1>1, <1>3, <1>8, <2>1 DEF Install, SavedInv, Saving, Rotating, diskVars
<1>. QED
  BY <1>4, <1>5, <1>6, <1>7, <1>8 DEF GoOnServing, StateStep

LEMMA ServerSaved ==
  ASSUME StateInv, SavedInv, Crash \/ Boot \/ Serve
  PROVE  SavedInv'
<1>1. CASE Crash
  <2>1. \A g \in Handler : h'[g].pc = "idle"
    BY <1>1, StateConstants DEF Crash, StateLost
  <2>. QED
    BY <1>1, <2>1 DEF Crash, SavedInv, Saving, Rotating
<1>2. CASE Boot
  BY <1>2
     DEF Boot, LoadState, SavedInv, Saving, Rotating, StateInv, AllAnswered, At, diskVars
<1>3. CASE Serve
  BY <1>3 DEF Serve, LoadKey, SavedInv, Saving, Rotating, StateInv, AllAnswered, At
<1>. QED
  BY <1>1, <1>2, <1>3

LEMMA SavedInvariant == ASSUME OneAtATime PROVE Spec => []SavedInv
<1>1. StateInv /\ SavedInv /\ [Next]_vars => SavedInv'
  BY RequestSaved, ServingSaved, ServerSaved, SavedStands, Aside DEF Next
<1>. QED
  BY InitSaved, <1>1, StateInvariant, PTL DEF Spec

(* When every request is answered, the file holds the jobs that are disabled,*)
(* wherever the server died before.                                          *)
THEOREM SavedOneByOne == ASSUME OneAtATime PROVE Spec => []SavedWhenQuiet
<1>1. SavedInv => SavedWhenQuiet
  BY DEF SavedInv, Saving, SavedWhenQuiet, Quiet, AllAnswered, At
<1>. QED
  BY <1>1, SavedInvariant, PTL

(* And the key that is accepted.                                             *)
THEOREM KeySavedOneByOne == ASSUME OneAtATime PROVE Spec => []KeySavedWhenQuiet
<1>1. SavedInv => KeySavedWhenQuiet
  BY DEF SavedInv, Rotating, KeySavedWhenQuiet, Quiet, AllAnswered, At
<1>. QED
  BY <1>1, SavedInvariant, PTL
=============================================================================
