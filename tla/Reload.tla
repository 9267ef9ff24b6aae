------------------------------- MODULE Reload -------------------------------
(***************************************************************************)
(* The jobs file loaded again while the server runs (web.go, Reload): the  *)
(* configuration every component reads through cfgp, and the scheduler     *)
(* behind schedp, built from it.  SIGHUP and POST /reload run in goroutines*)
(* of their own, so reloads overlap, while the file is edited.             *)
(***************************************************************************)
EXTENDS Integers, FiniteSets

CONSTANTS
  Reloader,    (* goroutines that may be in Reload at once                 *)
  MaxEdits,    (* bounds the edits of the jobs file                        *)
  MaxReloads   (* bounds the reloads, and numbers the schedulers           *)

ASSUME ReloadAssumption == MaxEdits \in Nat /\ MaxReloads \in Nat

Version == 0..MaxEdits
Scheduler == 0..MaxReloads     \* by the reload that made it; 0 is main's
NoScheduler == MaxReloads + 1

VARIABLES
  file,      (* the version of the jobs file on disk                       *)
  valid,     (* is it one that LoadConfig and NewScheduler accept?         *)
  cfgp,      (* the version every component reads                          *)
  schedp,    (* the scheduler the server shows next runs from              *)
  builtFrom, (* scheduler -> the version it was built from                 *)
  ticking,   (* the schedulers that are started                            *)
  r,         (* Reloader -> where it is, and what it has loaded            *)
  reloads

reloadVars == <<file, valid, cfgp, schedp, builtFrom, ticking, r, reloads>>

IdleReload == [pc |-> "idle", config |-> 0, sched |-> 0, old |-> NoScheduler]

States == [pc : {"idle", "build", "store", "start", "swap", "stop"},
           config : Version, sched : Scheduler, old : Scheduler \cup {NoScheduler}]

ReloadInit ==
  /\ file = 0 /\ valid = TRUE
  /\ cfgp = 0 /\ schedp = 0
  /\ builtFrom = [s \in Scheduler |-> 0]
  /\ ticking = {0}
  /\ r = [g \in Reloader |-> IdleReload]
  /\ reloads = 0

(* Somebody edits the file.                                                  *)
Edit ==
  /\ file < MaxEdits
  /\ file' = file + 1 /\ valid' \in BOOLEAN
  /\ UNCHANGED <<cfgp, schedp, builtFrom, ticking, r, reloads>>

Reloading(g, pc) == r[g].pc = pc

(* LoadConfig; a file it refuses ends the reload.                            *)
Load(g) ==
  /\ Reloading(g, "idle") /\ reloads < MaxReloads
  /\ reloads' = reloads + 1
  /\ r' = IF valid THEN [r EXCEPT ![g] = [@ EXCEPT !.pc = "build", !.config = file,
                                                   !.sched = reloads + 1]]
          ELSE r
  /\ UNCHANGED <<file, valid, cfgp, schedp, builtFrom, ticking>>

(* Mutant: the scheduler is built from a second reading of the file. *)
BuildAgain(g) ==
  /\ Reloading(g, "build")
  /\ builtFrom' = [builtFrom EXCEPT ![r[g].sched] = file]
  /\ r' = [r EXCEPT ![g].pc = "store"]
  /\ UNCHANGED <<file, valid, cfgp, schedp, ticking, reloads>>

(* NewScheduler, which refuses a schedule it cannot parse.                   *)
Build(g) ==
  /\ Reloading(g, "build")
  /\ \/ /\ builtFrom' = [builtFrom EXCEPT ![r[g].sched] = r[g].config]
        /\ r' = [r EXCEPT ![g].pc = "store"]
     \/ /\ r' = [r EXCEPT ![g] = IdleReload]
        /\ UNCHANGED builtFrom
  /\ UNCHANGED <<file, valid, cfgp, schedp, ticking, reloads>>

Store(g) ==
  /\ Reloading(g, "store")
  /\ cfgp' = r[g].config
  /\ r' = [r EXCEPT ![g].pc = "start"]
  /\ UNCHANGED <<file, valid, schedp, builtFrom, ticking, reloads>>

(* Mutant: the new scheduler is not started before the old one stops. *)
StartNothing(g) ==
  /\ Reloading(g, "start")
  /\ r' = [r EXCEPT ![g].pc = "swap"]
  /\ UNCHANGED <<file, valid, cfgp, schedp, builtFrom, ticking, reloads>>

Start(g) ==
  /\ Reloading(g, "start")
  /\ ticking' = ticking \cup {r[g].sched}
  /\ r' = [r EXCEPT ![g].pc = "swap"]
  /\ UNCHANGED <<file, valid, cfgp, schedp, builtFrom, reloads>>

(* Mutant: the scheduler to stop is looked up before the swap. *)
SwapStale(g) ==
  /\ Reloading(g, "swap")
  /\ IF r[g].old = NoScheduler
     THEN r' = [r EXCEPT ![g].old = schedp] /\ UNCHANGED schedp
     ELSE schedp' = r[g].sched /\ r' = [r EXCEPT ![g].pc = "stop"]
  /\ UNCHANGED <<file, valid, cfgp, builtFrom, ticking, reloads>>

(* schedp.Swap gives each scheduler to exactly one reload to stop.           *)
Swap(g) ==
  /\ Reloading(g, "swap")
  /\ schedp' = r[g].sched
  /\ r' = [r EXCEPT ![g].pc = "stop", ![g].old = schedp]
  /\ UNCHANGED <<file, valid, cfgp, builtFrom, ticking, reloads>>

Stop(g) ==
  /\ Reloading(g, "stop")
  /\ ticking' = ticking \ {r[g].old}
  /\ r' = [r EXCEPT ![g] = IdleReload]
  /\ UNCHANGED <<file, valid, cfgp, schedp, builtFrom, reloads>>

ReloadStep(g) == Build(g) \/ Store(g) \/ Start(g) \/ Swap(g) \/ Stop(g)

(* The server dies, with its schedulers and the reloads in progress.         *)
SchedulersLost ==
  /\ ticking' = {}
  /\ r' = [g \in Reloader |-> IdleReload]
  /\ UNCHANGED <<file, valid, cfgp, schedp, builtFrom, reloads>>

(* main: the configuration and the first scheduler; a file that LoadConfig or*)
(* NewScheduler refuses ends the program.                                    *)
LoadFirst ==
  /\ valid
  /\ cfgp' = file /\ schedp' = 0
  /\ builtFrom' = [builtFrom EXCEPT ![0] = file]
  /\ ticking' = {0}
  /\ UNCHANGED <<file, valid, r, reloads>>

NoReload == \A g \in Reloader : Reloading(g, "idle")

-----------------------------------------------------------------------------
(* Each reload installs a configuration and a scheduler of one load.         *)
ReloadTypeOK ==
  /\ file \in Version /\ valid \in BOOLEAN
  /\ cfgp \in Version /\ schedp \in Scheduler
  /\ builtFrom \in [Scheduler -> Version]
  /\ ticking \subseteq Scheduler
  /\ r \in [Reloader -> States]
  /\ reloads \in 0..MaxReloads
  /\ \A g \in Reloader :
       r[g].pc \in {"store", "start", "swap", "stop"} => builtFrom[r[g].sched] = r[g].config
=============================================================================
