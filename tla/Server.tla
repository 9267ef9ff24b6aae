------------------------------- MODULE Server -------------------------------
(***************************************************************************)
(* The server process as a whole (main.go, web.go): reloads of the jobs    *)
(* file and changes of the runtime state overlap, the process may die at   *)
(* any point, and starts again from what the files hold.                   *)
(***************************************************************************)
EXTENDS Reload, RuntimeState

CONSTANTS
  MaxCrashes,  (* bounds how often the server dies                         *)
  MaxCalls     (* bounds reloads and requests together                     *)

ASSUME ServerAssumption == MaxCrashes \in Nat /\ MaxCalls \in Nat

VARIABLES
  server,   (* down; starting, with a scheduler that ticks already; or up  *)
  crashes

vars == <<reloadVars, stateVars, server, crashes>>

Init ==
  /\ ReloadInit /\ StateInit
  /\ server = "up" /\ crashes = 0

(* Somebody edits the jobs file, also while the server is down.              *)
EditFile == Edit /\ UNCHANGED <<stateVars, server, crashes>>

(* SIGHUP or POST /reload.                                                   *)
Reload(g) ==
  /\ server = "up"
  /\ Load(g) /\ reloads + requests < MaxCalls
  /\ UNCHANGED <<stateVars, server, crashes>>

GoOnReloading(g) == ReloadStep(g) /\ UNCHANGED <<stateVars, server, crashes>>

Request(g) ==
  /\ server = "up"
  /\ Ask(g) \/ Rotate(g)
  /\ reloads + requests < MaxCalls
  /\ UNCHANGED <<reloadVars, server, crashes>>

GoOnServing(g) == StateStep(g) /\ UNCHANGED <<reloadVars, server, crashes>>

Crash ==
  /\ server # "down" /\ crashes < MaxCrashes
  /\ server' = "down" /\ crashes' = crashes + 1
  /\ SchedulersLost /\ StateLost

(* main, up to the start of the first scheduler ...                          *)
Boot ==
  /\ server = "down" /\ server' = "starting"
  /\ LoadFirst /\ LoadState
  /\ UNCHANGED crashes

(* ... and from NewServer on.                                                *)
Serve ==
  /\ server = "starting" /\ server' = "up"
  /\ LoadKey
  /\ UNCHANGED <<reloadVars, crashes>>

Next ==
  \/ EditFile
  \/ \E g \in Reloader : Reload(g) \/ GoOnReloading(g)
  \/ \E g \in Handler : Request(g) \/ GoOnServing(g)
  \/ Crash
  \/ Boot
  \/ Serve

Spec == Init /\ [][Next]_vars

-----------------------------------------------------------------------------
(* Well-formed state; and a server that answers requests accepts a key that  *)
(* exists (Server.apikey is never empty).                                    *)
TypeOK ==
  /\ ReloadTypeOK /\ StateTypeOK
  /\ server \in {"down", "starting", "up"}
  /\ crashes \in 0..MaxCrashes

(* The scheduler behind schedp ticks from the start on, through every        *)
(* overlapping reload (web.go: Start before Swap, Swap before Stop).         *)
AlwaysScheduling == server # "down" => schedp \in ticking

(* When no reload is in progress, the scheduler behind schedp is the only    *)
(* one: none is left behind that would fire every job twice.                 *)
NoSchedulerLeaks == server # "down" /\ NoReload => ticking = {schedp}

(* And before that, a second scheduler ticks only while a reload that is     *)
(* under way either installs it or stops it.                                 *)
OthersAreBeingStopped ==
  \A s \in ticking \ {schedp} : \E g \in Reloader :
    \/ Reloading(g, "swap") /\ r[g].sched = s
    \/ Reloading(g, "stop") /\ r[g].old = s

Quiet == server = "up" /\ AllAnswered

(* When every request is answered, the next start will find the jobs         *)
(* disabled that are disabled now (runner.go:251, "persists the change").    *)
SavedWhenQuiet == Quiet => Loaded(state) = disabled

(* And the key that is accepted now (web.go:58, "generates, persists, and    *)
(* installs").                                                               *)
KeySavedWhenQuiet == Quiet => keyFile = apikey
=============================================================================
