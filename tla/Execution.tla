----------------------------- MODULE Execution -----------------------------
(***************************************************************************)
(* One job's executions on disk and in the kernel: what execute()          *)
(* (runner.go) does between acquire() and release(), with the record files *)
(* of the Store (store.go), the command's process, the timeout, Cancel,    *)
(* and a server that may be killed and restarted at any point.             *)
(*                                                                         *)
(* The single-instance lock of module Runner lets one execution of the job *)
(* run at a time in one server; here it is the variable ex.  Runs are      *)
(* numbered by their start time, which is their ID in the code.            *)
(***************************************************************************)
EXTENDS Integers, FiniteSets

CONSTANTS
  MaxRuns,   (* bounds the runs ever started                               *)
  KeepRuns,  (* keepRunsFor(job), positive after LoadConfig                *)
  Settings   (* the jobs and the surroundings looked at                    *)

(* timeout, keepDays: does the job set them?  lingers: may a descendant of   *)
(* the command hold its output open?  diskFails: may a file fail to be       *)
(* created, written or removed?  runs, crashes: bound the runs and how often *)
(* the server dies.                                                          *)
Setting ==
  [timeout : BOOLEAN, keepDays : BOOLEAN, lingers : BOOLEAN, diskFails : BOOLEAN,
   runs : 1..MaxRuns, crashes : Nat]

ASSUME ExecutionAssumption ==
  /\ MaxRuns \in Nat \ {0} /\ KeepRuns \in Nat \ {0}
  /\ Settings \subseteq Setting

Id == 1..MaxRuns
NoRun == 0

Final == {"success", "failed", "timeout", "canceled", "interrupted"}
RunStatus == Final \cup {"running"}
ExitCode == {-1, 0, 1}

VARIABLES
  setting,   (* one of Settings, for good                                  *)
  server,    (* down, reconciling (before it serves), up                   *)
  meta,      (* id -> the run's directory and its meta.json                *)
  ex,        (* the execution in flight                                    *)
  proc,      (* id -> the command's process group                          *)
  cancelFn,  (* rn.cancels[job]: the run whose context it cancels, or none *)
  calls,     (* runs whose cancel function a Cancel has read, not called   *)
  asked,     (* history: runs whose cancel function a Cancel has called    *)
  fixing,    (* the record ReconcileRunning is rewriting, or none          *)
  started,   (* runs ever started                                          *)
  crashes

vars == <<setting, server, meta, ex, proc, cancelFn, calls, asked, fixing, started, crashes>>

(* at: no directory; a directory whose meta.json is missing, empty or cut    *)
(* short, which ReadRun refuses; or a record that can be read.               *)
Meta == [at : {"absent", "torn", "ok"}, status : RunStatus, exit : ExitCode]
Absent == [at |-> "absent", status |-> "running", exit |-> 0]
Torn == [Absent EXCEPT !.at = "torn"]
Record(status, exit) == [at |-> "ok", status |-> status, exit |-> exit]

PC == {"none", "begin", "record", "log", "setCancel", "arm", "start", "wait",
       "timedOut?", "canceled?", "final", "rewrite", "list", "prune",
       "clearCancel", "release"}

Execs == [pc : PC, id : Id \cup {NoRun}, armed : BOOLEAN, timedOut : BOOLEAN,
          done : BOOLEAN, exit : ExitCode, err : BOOLEAN, status : RunStatus,
          doomed : SUBSET Id]

NoExec == [pc |-> "none", id |-> NoRun, armed |-> FALSE, timedOut |-> FALSE,
           done |-> FALSE, exit |-> 0, err |-> FALSE, status |-> "running", doomed |-> {}]

Procs == [state : {"none", "alive", "exited", "killed"}, exit : ExitCode]

Init ==
  /\ setting \in Settings
  /\ server = "reconciling"
  /\ meta = [i \in Id |-> Absent]
  /\ ex = NoExec
  /\ proc = [i \in Id |-> [state |-> "none", exit |-> 0]]
  /\ cancelFn = NoRun
  /\ calls = {}
  /\ asked = {}
  /\ fixing = NoRun
  /\ started = 0
  /\ crashes = 0

Readable == {i \in Id : meta[i].at = "ok"}

-----------------------------------------------------------------------------
(* execute(), step by step.                                                  *)

At(pc) == server = "up" /\ ex.pc = pc
Go(pc) == ex' = [ex EXCEPT !.pc = pc]
SetMeta(m) == meta' = [meta EXCEPT ![ex.id] = m]

(* run() has acquired the job's lock: the run gets its ID.                   *)
Begin ==
  /\ At("none") /\ started < setting.runs
  /\ started' = started + 1
  /\ ex' = [NoExec EXCEPT !.pc = "begin", !.id = started + 1]
  /\ UNCHANGED <<setting, server, meta, proc, cancelFn, calls, asked, fixing, crashes>>

(* writeMeta, first half: the directory is made and meta.json is created or  *)
(* emptied.                                                                  *)
OpenRecord ==
  /\ At("begin")
  /\ SetMeta(Torn) /\ Go("record")
  /\ UNCHANGED <<setting, server, proc, cancelFn, calls, asked, fixing, started, crashes>>

(* writeMeta, second half.                                                   *)
WriteRecord ==
  /\ At("record")
  /\ SetMeta(Record("running", 0)) /\ Go("log")
  /\ UNCHANGED <<setting, server, proc, cancelFn, calls, asked, fixing, started, crashes>>

(* An error of writeMeta or of os.Create: execute returns it, and nothing    *)
(* touches the record again.                                                 *)
FileError ==
  /\ setting.diskFails
  /\ \E pc \in {"begin", "record", "log"} : At(pc)
  /\ Go("release")
  /\ UNCHANGED <<setting, server, meta, proc, cancelFn, calls, asked, fixing, started, crashes>>

CreateLog ==
  /\ At("log") /\ Go("setCancel")
  /\ UNCHANGED <<setting, server, meta, proc, cancelFn, calls, asked, fixing, started, crashes>>

(* Mutant: the cancel function is not stored. *)
SetNothing ==
  /\ At("setCancel") /\ Go("arm")
  /\ UNCHANGED <<setting, server, meta, proc, cancelFn, calls, asked, fixing, started, crashes>>

SetCancel ==
  /\ At("setCancel") /\ Go("arm")
  /\ cancelFn' = ex.id
  /\ UNCHANGED <<setting, server, meta, proc, calls, asked, fixing, started, crashes>>

(* Mutant: the timeout is never armed. *)
ArmNothing ==
  /\ At("arm") /\ Go("start")
  /\ UNCHANGED <<setting, server, meta, proc, cancelFn, calls, asked, fixing, started, crashes>>

ArmTimeout ==
  /\ At("arm")
  /\ ex' = [ex EXCEPT !.pc = "start", !.armed = setting.timeout]
  /\ UNCHANGED <<setting, server, meta, proc, cancelFn, calls, asked, fixing, started, crashes>>

(* cmd.Start: refused when the context is done already, and it may fail.     *)
(* Without a process the exit code is -1.                                    *)
StartCommand ==
  /\ At("start") /\ ~ex.done
  /\ proc' = [proc EXCEPT ![ex.id].state = "alive"]
  /\ Go("wait")
  /\ UNCHANGED <<setting, server, meta, cancelFn, calls, asked, fixing, started, crashes>>

StartRefused ==
  /\ At("start")
  /\ ex.done \/ setting.diskFails
  /\ ex' = [ex EXCEPT !.pc = "timedOut?", !.exit = -1, !.err = TRUE]
  /\ UNCHANGED <<setting, server, meta, proc, cancelFn, calls, asked, fixing, started, crashes>>

(* cmd.Cancel: the whole process group is killed once the context is done.   *)
Kill ==
  /\ At("wait") /\ ex.done
  /\ proc[ex.id].state = "alive"
  /\ proc' = [proc EXCEPT ![ex.id] = [state |-> "killed", exit |-> -1]]
  /\ UNCHANGED <<setting, server, meta, ex, cancelFn, calls, asked, fixing, started, crashes>>

(* cmd.Run returns when the process is gone.  It reports an error for an     *)
(* exit code other than 0, for a log that could not be written, and for an   *)
(* output still open WaitDelay after the exit, whatever the code.            *)
CommandEnds ==
  /\ At("wait")
  /\ proc[ex.id].state \in {"exited", "killed"}
  /\ \E err \in BOOLEAN :
       /\ proc[ex.id].exit # 0 => err
       /\ err => proc[ex.id].exit # 0 \/ setting.lingers \/ setting.diskFails
       /\ ex' = [ex EXCEPT !.pc = "timedOut?", !.exit = proc[ex.id].exit, !.err = err]
  /\ UNCHANGED <<setting, server, meta, proc, cancelFn, calls, asked, fixing, started, crashes>>

Decide(status) == ex' = [ex EXCEPT !.pc = "final", !.status = status]

(* The switch that sets the status reads timedOut first ...                  *)
ReadTimedOut ==
  /\ At("timedOut?")
  /\ IF ex.timedOut THEN Decide("timeout") ELSE Go("canceled?")
  /\ UNCHANGED <<setting, server, meta, proc, cancelFn, calls, asked, fixing, started, crashes>>

(* Mutant: the context is not looked at. *)
ReadExitCode ==
  /\ At("canceled?")
  /\ Decide(IF ex.err THEN "failed" ELSE "success")
  /\ UNCHANGED <<setting, server, meta, proc, cancelFn, calls, asked, fixing, started, crashes>>

(* ... and then ctx.Err(), which the timeout sets too.                       *)
ReadCanceled ==
  /\ At("canceled?")
  /\ Decide(CASE ex.done          -> "canceled"
            [] ~ex.done /\ ex.err -> "failed"
            [] OTHER            -> "success")
  /\ UNCHANGED <<setting, server, meta, proc, cancelFn, calls, asked, fixing, started, crashes>>

OpenFinal ==
  /\ At("final")
  /\ SetMeta(Torn) /\ Go("rewrite")
  /\ UNCHANGED <<setting, server, proc, cancelFn, calls, asked, fixing, started, crashes>>

WriteFinal ==
  /\ At("rewrite")
  /\ SetMeta(Record(ex.status, ex.exit)) /\ Go("list")
  /\ UNCHANGED <<setting, server, proc, cancelFn, calls, asked, fixing, started, crashes>>

(* The error of the second writeMeta is ignored.                             *)
FinalError ==
  /\ setting.diskFails
  /\ \E pc \in {"final", "rewrite"} : At(pc)
  /\ Go("list")
  /\ UNCHANGED <<setting, server, meta, proc, cancelFn, calls, asked, fixing, started, crashes>>

Newer(i) == {k \in Readable : k > i}

(* Mutant: one run too many is dropped. *)
OverCountByOne == {i \in Readable : Cardinality(Newer(i)) >= KeepRuns - 1}

(* Mutant: the limit is off by one. *)
OverCountLate == {i \in Readable : Cardinality(Newer(i)) > KeepRuns}

(* prune, over the records that can be read: the runs beyond the newest      *)
(* KeepRuns, and those that started before a cutoff.                         *)
OverCount == {i \in Readable : Cardinality(Newer(i)) >= KeepRuns}

ListRuns ==
  /\ At("list")
  /\ \E cutoff \in IF setting.keepDays THEN 1..(started + 1) ELSE {1} :
       ex' = [ex EXCEPT !.pc = "prune",
                        !.doomed = OverCount \cup {i \in Readable : i < cutoff}]
  /\ UNCHANGED <<setting, server, meta, proc, cancelFn, calls, asked, fixing, started, crashes>>

(* The newest first; a directory that cannot be removed is passed over.      *)
RemoveRun ==
  /\ At("prune")
  /\ \E i \in ex.doomed :
       /\ \A k \in ex.doomed : k <= i
       /\ \/ meta' = [meta EXCEPT ![i] = Absent]
          \/ setting.diskFails /\ UNCHANGED meta
       /\ ex' = [ex EXCEPT !.doomed = @ \ {i}]
  /\ UNCHANGED <<setting, server, proc, cancelFn, calls, asked, fixing, started, crashes>>

Pruned ==
  /\ At("prune") /\ ex.doomed = {}
  /\ Go("clearCancel")
  /\ UNCHANGED <<setting, server, meta, proc, cancelFn, calls, asked, fixing, started, crashes>>

(* Mutant: the cancel function stays behind. *)
KeepCancel ==
  /\ At("clearCancel")
  /\ ex' = [ex EXCEPT !.pc = "release", !.armed = FALSE]
  /\ UNCHANGED <<setting, server, meta, proc, cancelFn, calls, asked, fixing, started, crashes>>

(* The deferred calls: the timeout is stopped, the cancel function removed.  *)
ClearCancel ==
  /\ At("clearCancel")
  /\ cancelFn' = NoRun
  /\ ex' = [ex EXCEPT !.pc = "release", !.armed = FALSE]
  /\ UNCHANGED <<setting, server, meta, proc, calls, asked, fixing, started, crashes>>

Release ==
  /\ At("release")
  /\ ex' = NoExec
  /\ UNCHANGED <<setting, server, meta, proc, cancelFn, calls, asked, fixing, started, crashes>>

Execute ==
  \/ OpenRecord \/ WriteRecord \/ FileError \/ CreateLog \/ SetCancel \/ ArmTimeout
  \/ StartCommand \/ StartRefused \/ Kill \/ CommandEnds
  \/ ReadTimedOut \/ ReadCanceled \/ OpenFinal \/ WriteFinal \/ FinalError
  \/ ListRuns \/ RemoveRun \/ Pruned \/ ClearCancel \/ Release

-----------------------------------------------------------------------------
(* The command, the timeout and Cancel.                                      *)

(* A process ends by itself, whether or not the server that started it lives.*)
Exit(i) ==
  /\ proc[i].state = "alive"
  /\ \E code \in {0, 1} : proc' = [proc EXCEPT ![i] = [state |-> "exited", exit |-> code]]
  /\ UNCHANGED <<setting, server, meta, ex, cancelFn, calls, asked, fixing, started, crashes>>

(* The AfterFunc of the timeout, whose two statements nothing can tell apart:*)
(* the status is timeout as soon as the first is done.                       *)
Timeout ==
  /\ server = "up" /\ ex.armed /\ ~ex.timedOut
  /\ ex' = [ex EXCEPT !.timedOut = TRUE, !.done = TRUE]
  /\ UNCHANGED <<setting, server, meta, proc, cancelFn, calls, asked, fixing, started, crashes>>

(* Cancel reads the cancel function under the lock ...                       *)
CancelRead ==
  /\ server = "up" /\ cancelFn # NoRun
  /\ calls' = calls \cup {cancelFn}
  /\ UNCHANGED <<setting, server, meta, ex, proc, cancelFn, asked, fixing, started, crashes>>

(* Mutant: the context of whatever runs now is canceled. *)
CancelCurrent(i) ==
  /\ i \in calls
  /\ calls' = calls \ {i} /\ asked' = asked \cup {i}
  /\ ex' = [ex EXCEPT !.done = ex.pc # "none"]
  /\ UNCHANGED <<setting, server, meta, proc, cancelFn, fixing, started, crashes>>

(* ... and calls it after the unlock, when that run may be over and another  *)
(* may have begun.                                                           *)
CancelCall(i) ==
  /\ i \in calls
  /\ calls' = calls \ {i} /\ asked' = asked \cup {i}
  /\ ex' = IF ex.id = i THEN [ex EXCEPT !.done = TRUE] ELSE ex
  /\ UNCHANGED <<setting, server, meta, proc, cancelFn, fixing, started, crashes>>

-----------------------------------------------------------------------------
(* The server dies, by a crash or by SIGTERM, which waits for no run; the    *)
(* command has a process group of its own and lives on.                      *)
Crash ==
  /\ server # "down" /\ crashes < setting.crashes
  /\ server' = "down" /\ crashes' = crashes + 1
  /\ ex' = NoExec /\ cancelFn' = NoRun /\ calls' = {} /\ fixing' = NoRun
  /\ UNCHANGED <<setting, meta, proc, asked, started>>

Restart ==
  /\ server = "down" /\ server' = "reconciling"
  /\ UNCHANGED <<setting, meta, ex, proc, cancelFn, calls, asked, fixing, started, crashes>>

(* Mutant: every record is marked, not only those still running. *)
LeftOverAny == Readable \ {i \in Id : meta[i].status = "interrupted"}

(* The records ReconcileRunning finds in state running.                      *)
LeftOver == {i \in Readable : meta[i].status = "running"}

ReconcileOpen ==
  /\ server = "reconciling" /\ fixing = NoRun
  /\ \E i \in LeftOver : /\ fixing' = i
                         /\ meta' = [meta EXCEPT ![i] = Torn]
  /\ UNCHANGED <<setting, server, ex, proc, cancelFn, calls, asked, started, crashes>>

ReconcileWrite ==
  /\ server = "reconciling" /\ fixing # NoRun
  /\ meta' = [meta EXCEPT ![fixing] = Record("interrupted", -1)]
  /\ fixing' = NoRun
  /\ UNCHANGED <<setting, server, ex, proc, cancelFn, calls, asked, started, crashes>>

(* The error of its writeMeta is ignored.                                    *)
ReconcileError ==
  /\ server = "reconciling" /\ fixing # NoRun
  /\ setting.diskFails
  /\ fixing' = NoRun
  /\ UNCHANGED <<setting, server, meta, ex, proc, cancelFn, calls, asked, started, crashes>>

(* Mutant: the server serves while records are still being fixed. *)
ServeEarly ==
  /\ server = "reconciling" /\ fixing = NoRun
  /\ server' = "up"
  /\ UNCHANGED <<setting, meta, ex, proc, cancelFn, calls, asked, fixing, started, crashes>>

(* main goes on when every record is fixed, or could not be opened.          *)
Serve ==
  /\ server = "reconciling" /\ fixing = NoRun
  /\ LeftOver = {} \/ setting.diskFails
  /\ server' = "up"
  /\ UNCHANGED <<setting, meta, ex, proc, cancelFn, calls, asked, fixing, started, crashes>>

Next ==
  \/ Begin
  \/ Execute
  \/ \E i \in Id : Exit(i) \/ CancelCall(i)
  \/ Timeout
  \/ CancelRead
  \/ Crash
  \/ Restart
  \/ ReconcileOpen
  \/ ReconcileWrite
  \/ ReconcileError
  \/ Serve

Spec == Init /\ [][Next]_vars

(* The goroutine of execute is scheduled and a timer that is armed fires.    *)
(* Nothing is assumed of the command, which may never end by itself.         *)
FairSpec == Spec /\ WF_vars(Execute) /\ WF_vars(Timeout)

-----------------------------------------------------------------------------
(* Correctness.                                                              *)

(* The cancel function is never that of a run that is over.                  *)
TypeOK ==
  /\ server \in {"down", "reconciling", "up"}
  /\ meta \in [Id -> Meta]
  /\ ex \in Execs
  /\ proc \in [Id -> Procs]
  /\ cancelFn \in {NoRun, ex.id}
  /\ calls \subseteq Id /\ asked \subseteq Id
  /\ fixing \in Id \cup {NoRun}
  /\ setting \in Settings
  /\ started \in 0..setting.runs /\ crashes \in 0..setting.crashes

InFlight(i) == ex.pc # "none" /\ ex.id = i

(* store.go:165: only a crash leaves a record in state running.  While the   *)
(* server serves, such a record is that of the execution in flight, whatever *)
(* the point at which the previous server died.  The code keeps it while no  *)
(* file fails: FileError leaves a record in state running behind.            *)
RunningIsInFlight ==
  server = "up" /\ ~setting.diskFails => \A i \in LeftOver : InFlight(i)

(* A status never claims more than happened: success only for a command that *)
(* ended by itself with 0, failed only for one nobody stopped, and with exit *)
(* code 0 only if its output or its log had trouble, timeout only in a job   *)
(* that has one.                                                             *)
StatusHonest ==
  \A i \in Readable :
    LET status == meta[i].status
    IN /\ status = "success" => proc[i] = [state |-> "exited", exit |-> 0]
       /\ status = "failed" => proc[i].state # "killed"
       /\ status = "failed" /\ meta[i].exit = 0 => setting.lingers \/ setting.diskFails
       /\ status = "timeout" => setting.timeout

(* A cancel function read during one run and called during another reaches   *)
(* neither: in a job without timeout every canceled run was itself the       *)
(* target of a Cancel.                                                       *)
CancelHitsItsRun ==
  \A i \in Readable : ~setting.timeout /\ meta[i].status = "canceled" => i \in asked

(* A record with a final status keeps it until retention removes it: no      *)
(* restart, late timeout or late Cancel rewrites history.                    *)
FinalStays ==
  [][\A i \in Readable :
       meta[i].status \in Final => meta'[i] \in {meta[i], Absent}]_vars

(* The record of a run goes only when KeepRuns newer ones can be read, even  *)
(* if the server dies between two removals (keep_days aside).                *)
NewestKept ==
  [][\A i \in Id :
       meta[i].at # "absent" /\ meta'[i].at = "absent" /\ ~setting.keepDays =>
         Cardinality(Newer(i)) >= KeepRuns]_vars

(* README.md:135: a job with a timeout comes to an end though its command    *)
(* never would, and at whatever point of execute() the timer fires.          *)
TimeoutEnds == setting.timeout /\ ex.pc # "none" ~> ex.pc = "none"

(* A command that runs can be canceled: from its start to its end the cancel *)
(* function on file is that of its own run.                                  *)
CommandCancelable ==
  \A i \in Id : InFlight(i) /\ proc[i].state = "alive" => cancelFn = i

(* README.md:113 "newest N runs kept per job": after a prune no more than    *)
(* KeepRuns records can be read, whatever earlier servers left behind, where *)
(* no file fails.  Directories without a readable record are not counted:    *)
(* no prune finds them.                                                      *)
RecordsBounded ==
  At("clearCancel") /\ ~setting.diskFails => Cardinality(Readable) <= KeepRuns
=============================================================================
