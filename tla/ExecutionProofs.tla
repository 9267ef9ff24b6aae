-------------------------- MODULE ExecutionProofs --------------------------
(***************************************************************************)
(* Proofs about the executions of a job, for every number of runs and of   *)
(* crashes and every setting: what their records say is true, a Cancel     *)
(* hits the run it was meant for, and history is not rewritten.            *)
(***************************************************************************)
EXTENDS Execution, Extremes, FiniteSetTheorems

-----------------------------------------------------------------------------
(* The parts of execute() in which the cancel function is on file, in which  *)
(* the record has not been written for the last time, and after them.        *)
Registered == {"arm", "start", "wait", "timedOut?", "canceled?", "final", "rewrite",
               "list", "prune", "clearCancel"}
Unfinished == {"begin", "record", "log", "setCancel", "arm", "start", "wait", "timedOut?",
               "canceled?", "final", "rewrite"}
Finished == {"list", "prune", "clearCancel", "release"}

(* Who holds what: the server, the execution, the cancel function and the    *)
(* reconciliation.                                                           *)
Phases ==
  /\ ex.pc = "none" => ex = NoExec
  /\ ex.pc # "none" => server = "up" /\ ex.id \in Id /\ ex.id = started
  /\ cancelFn = IF ex.pc \in Registered THEN ex.id ELSE NoRun
  /\ server # "up" => calls = {}
  /\ server # "reconciling" => fixing = NoRun
  /\ fixing # NoRun => meta[fixing].at = "torn"

(* Runs that have not started have neither a directory nor a process.        *)
Fresh == \A i \in Id : i > started => meta[i] = Absent /\ proc[i].state = "none"

(* The process lives while execute() waits for it, and whoever killed it     *)
(* left a trace in the context.                                              *)
Command ==
  /\ \A i \in Id : proc[i].state = "killed" => proc[i].exit = -1
  /\ ex.pc # "none" =>
       /\ proc[ex.id].state = "alive" => ex.pc = "wait"
       /\ proc[ex.id].state = "killed" => ex.done

(* Where the switches of the context come from.                              *)
Switches ==
  /\ ex.armed => setting.timeout
  /\ ex.timedOut => setting.timeout
  /\ ex.done /\ ~setting.timeout => ex.id \in asked

(* What a status claims of a run.                                            *)
Claim(i, status, exit) ==
  /\ status = "success" => proc[i] = [state |-> "exited", exit |-> 0]
  /\ status = "failed" => proc[i].state # "killed"
  /\ status = "failed" /\ exit = 0 => setting.lingers \/ setting.diskFails
  /\ status = "timeout" => setting.timeout
  /\ status = "canceled" /\ ~setting.timeout => i \in asked

(* On its way from the command to the record a verdict stays true.           *)
Verdicts ==
  /\ ex.pc \in Unfinished => meta[ex.id].status = "running"
  /\ ex.pc \in {"timedOut?", "canceled?"} =>
       /\ ~ex.err => proc[ex.id] = [state |-> "exited", exit |-> 0]
       /\ ex.err /\ ex.exit = 0 => setting.lingers \/ setting.diskFails
  /\ ex.pc \in {"final", "rewrite"} =>
       ex.status \in Final /\ Claim(ex.id, ex.status, ex.exit)
  /\ ex.pc \in Finished /\ ~setting.diskFails => ex.id \notin LeftOver
  /\ \A i \in Readable : Claim(i, meta[i].status, meta[i].exit)

ExecInv ==
  TypeOK /\ Phases /\ Fresh /\ Command /\ Switches /\ Verdicts /\ RunningIsInFlight

-----------------------------------------------------------------------------
LEMMA Constants ==
  /\ MaxRuns \in Nat \ {0} /\ KeepRuns \in Nat \ {0}
  /\ \A st \in Settings :
       /\ st.runs \in 1..MaxRuns /\ st.crashes \in Nat
       /\ st.timeout \in BOOLEAN /\ st.keepDays \in BOOLEAN
       /\ st.lingers \in BOOLEAN /\ st.diskFails \in BOOLEAN
BY ExecutionAssumption DEF ExecutionAssumption, Setting

LEMMA InitExec == Init => ExecInv
BY Constants
   DEF Init, ExecInv, TypeOK, Phases, Fresh, Command, Switches, Verdicts, Claim,
       RunningIsInFlight, InFlight, Readable, LeftOver, Unfinished, Finished, Registered,
       Absent, NoExec, NoRun, Id, Meta, Execs, Procs, PC, RunStatus, Final, ExitCode

LEMMA StutterKeeps == ASSUME ExecInv, UNCHANGED vars PROVE ExecInv'
BY DEF vars, ExecInv, TypeOK, Phases, Fresh, Command, Switches, Verdicts, Claim,
       RunningIsInFlight, InFlight, Readable, LeftOver

(* Who is on file is in flight, and an execution in flight has an ID.        *)
LEMMA OnFile ==
  ASSUME ExecInv
  PROVE  /\ ex.pc # "none" => ex.id \in Id
         /\ ex.id \in Id => ex.pc # "none" /\ server = "up"
         /\ cancelFn # NoRun => cancelFn \in Id
<1>1. NoRun \notin Id
  BY Constants DEF NoRun, Id
<1>2. NoExec.id = NoRun
  BY DEF NoExec
<1>. QED
  BY <1>1, <1>2 DEF ExecInv, Phases, Registered

(* What the lemmas below speak of: the parts of the invariant, and the       *)
(* words in which the actions are written.                                   *)
USE DEF ExecInv, TypeOK, Phases, Fresh, Command, Switches, Verdicts, Claim,
        RunningIsInFlight, InFlight, Readable, LeftOver, Unfinished, Finished, Registered,
        At, Go, SetMeta, Decide, Record, Torn, Absent, NoExec, NoRun,
        Meta, Execs, Procs, PC, RunStatus, Final, ExitCode

(* A run that begins is one that has neither directory nor process.          *)
LEMMA BeginKeeps ==
  ASSUME ExecInv, Begin
  PROVE  ExecInv'
<1>1. /\ started + 1 \in Id /\ started + 1 \in 0..setting.runs
      /\ ex.pc = "none" /\ cancelFn = NoRun
  BY Constants DEF Begin, Id
<1>2. ex' \in Execs /\ ex'.pc = "begin" /\ ex'.id = started + 1
  BY <1>1 DEF Begin
<1>3. TypeOK'
  BY <1>1, <1>2 DEF Begin
<1>4. Phases' /\ Fresh' /\ Command' /\ Switches'
  BY Constants DEF Begin, Id
<1>5. Verdicts' /\ RunningIsInFlight'
  BY Constants DEF Begin, Id
<1>. QED BY <1>3, <1>4, <1>5

(* The record says running as long as the run is not over.                   *)
LEMMA RecordKeeps ==
  ASSUME ExecInv, OpenRecord \/ WriteRecord \/ FileError \/ CreateLog
  PROVE  ExecInv'
<1>1. CASE OpenRecord
  <2>1. TypeOK'
    BY <1>1, Constants DEF OpenRecord
  <2>2. Phases' /\ Fresh' /\ Command' /\ Switches'
    BY <1>1, Constants DEF OpenRecord
  <2>3. Verdicts' /\ RunningIsInFlight'
    BY <1>1, Constants DEF OpenRecord
  <2>. QED BY <2>1, <2>2, <2>3
<1>2. CASE WriteRecord
  <2>1. TypeOK'
    BY <1>2, Constants DEF WriteRecord
  <2>2. Phases' /\ Fresh' /\ Command' /\ Switches'
    BY <1>2, Constants DEF WriteRecord
  <2>3. Verdicts' /\ RunningIsInFlight'
    BY <1>2, Constants DEF WriteRecord
  <2>. QED BY <2>1, <2>2, <2>3
<1>3. CASE FileError
  <2>1. TypeOK'
    BY <1>3, Constants DEF FileError
  <2>2. Phases' /\ Fresh' /\ Command' /\ Switches'
    BY <1>3, Constants DEF FileError
  <2>3. Verdicts' /\ RunningIsInFlight'
    BY <1>3, Constants DEF FileError
  <2>. QED BY <2>1, <2>2, <2>3
<1>4. CASE CreateLog
  <2>1. TypeOK'
    BY <1>4, Constants DEF CreateLog
  <2>2. Phases' /\ Fresh' /\ Command' /\ Switches'
    BY <1>4, Constants DEF CreateLog
  <2>3. Verdicts' /\ RunningIsInFlight'
    BY <1>4, Constants DEF CreateLog
  <2>. QED BY <2>1, <2>2, <2>3
<1>. QED BY <1>1, <1>2, <1>3, <1>4

(* The cancel function and the timeout are set before the command starts.    *)
LEMMA SwitchKeeps ==
  ASSUME ExecInv, SetCancel \/ ArmTimeout \/ Timeout
  PROVE  ExecInv'
<1>1. CASE SetCancel
  <2>1. TypeOK'
    BY <1>1, Constants DEF SetCancel
  <2>2. Phases' /\ Fresh' /\ Command' /\ Switches'
    BY <1>1, Constants DEF SetCancel
  <2>3. Verdicts' /\ RunningIsInFlight'
    BY <1>1, Constants DEF SetCancel
  <2>. QED BY <2>1, <2>2, <2>3
<1>2. CASE ArmTimeout
  <2>1. TypeOK'
    BY <1>2, Constants DEF ArmTimeout
  <2>2. Phases' /\ Fresh' /\ Command' /\ Switches'
    BY <1>2, Constants DEF ArmTimeout
  <2>3. Verdicts' /\ RunningIsInFlight'
    BY <1>2, Constants DEF ArmTimeout
  <2>. QED BY <2>1, <2>2, <2>3
<1>3. CASE Timeout
  <2>1. TypeOK'
    BY <1>3, Constants DEF Timeout
  <2>2. Phases' /\ Fresh' /\ Command' /\ Switches'
    BY <1>3, Constants DEF Timeout
  <2>3. Verdicts' /\ RunningIsInFlight'
    BY <1>3, Constants DEF Timeout
  <2>. QED BY <2>1, <2>2, <2>3
<1>. QED BY <1>1, <1>2, <1>3

(* The command lives while execute() waits for it.                           *)
LEMMA CommandKeeps ==
  ASSUME ExecInv, StartCommand \/ StartRefused \/ Kill \/ CommandEnds \/ (\E i \in Id : Exit(i))
  PROVE  ExecInv'
<1>1. CASE StartCommand
  <2>1. TypeOK'
    BY <1>1, Constants, SMTT(30) DEF StartCommand
  <2>2. Phases' /\ Fresh' /\ Command' /\ Switches'
    BY <1>1, Constants DEF StartCommand
  <2>3. Verdicts' /\ RunningIsInFlight'
    BY <1>1, Constants DEF StartCommand
  <2>. QED BY <2>1, <2>2, <2>3
<1>2. CASE StartRefused
  <2>1. TypeOK'
    BY <1>2, Constants DEF StartRefused
  <2>2. Phases' /\ Fresh' /\ Command' /\ Switches'
    BY <1>2, Constants DEF StartRefused
  <2>3. Verdicts' /\ RunningIsInFlight'
    BY <1>2, Constants DEF StartRefused
  <2>. QED BY <2>1, <2>2, <2>3
<1>3. CASE Kill
  BY <1>3, Constants DEF Kill
<1>4. CASE CommandEnds
  <2>1. PICK err \in BOOLEAN :
          /\ proc[ex.id].exit # 0 => err
          /\ err => proc[ex.id].exit # 0 \/ setting.lingers \/ setting.diskFails
          /\ ex' = [ex EXCEPT !.pc = "timedOut?", !.exit = proc[ex.id].exit, !.err = err]
    BY <1>4 DEF CommandEnds
  <2>2. /\ ex.pc = "wait" /\ ex.id \in Id /\ proc[ex.id] \in Procs
        /\ proc[ex.id].state \in {"exited", "killed"}
        /\ UNCHANGED <<setting, server, meta, proc, cancelFn, calls, asked, fixing, started,
                       crashes>>
    BY <1>4 DEF CommandEnds
  <2>3. ex' \in Execs
    BY <2>1, <2>2
  <2>4. TypeOK'
    BY <2>1, <2>2, <2>3
  <2>5. Phases' /\ Fresh' /\ Command' /\ Switches'
    BY <2>1, <2>2
  <2>6. ~err => proc[ex.id] = [state |-> "exited", exit |-> 0]
    BY <2>1, <2>2
  <2>7. Verdicts' /\ RunningIsInFlight'
    BY <2>1, <2>2, <2>6
  <2>. QED BY <2>4, <2>5, <2>7
<1>5. ASSUME NEW i \in Id, Exit(i) PROVE ExecInv'
  BY <1>5, Constants DEF Exit
<1>. QED BY <1>1, <1>2, <1>3, <1>4, <1>5

(* The verdict follows from the context and the exit, and is written.        *)
LEMMA VerdictKeeps ==
  ASSUME ExecInv, ReadTimedOut \/ ReadCanceled \/ OpenFinal \/ WriteFinal \/ FinalError
  PROVE  ExecInv'
<1>1. CASE ReadTimedOut
  <2>1. CASE ex.timedOut
    <3>1. ex' = [ex EXCEPT !.pc = "final", !.status = "timeout"]
      BY <1>1, <2>1, Zenon DEF ReadTimedOut
    <3>2. /\ ex.pc = "timedOut?"
          /\ UNCHANGED <<setting, server, meta, proc, cancelFn, calls, asked, fixing, started,
                         crashes>>
      BY <1>1 DEF ReadTimedOut
    <3>3. TypeOK'
      BY <3>1, <3>2
    <3>4. Phases' /\ Fresh' /\ Command' /\ Switches'
      BY <3>1, <3>2
    <3>5. setting.timeout
      BY <2>1
    <3>6. Verdicts' /\ RunningIsInFlight'
      BY <3>1, <3>2, <3>5
    <3>. QED BY <3>3, <3>4, <3>6
  <2>2. CASE ~ex.timedOut
    <3>1. TypeOK'
      BY <1>1, <2>2 DEF ReadTimedOut
    <3>2. Phases' /\ Fresh' /\ Command' /\ Switches'
      BY <1>1, <2>2 DEF ReadTimedOut
    <3>3. Verdicts' /\ RunningIsInFlight'
      BY <1>1, <2>2 DEF ReadTimedOut
    <3>. QED BY <3>1, <3>2, <3>3
  <2>. QED BY <2>1, <2>2
<1>2. CASE ReadCanceled
  <2>1. TypeOK'
    <3>1. PICK st \in RunStatus : ex' = [ex EXCEPT !.pc = "final", !.status = st]
      BY <1>2 DEF ReadCanceled
    <3>2. ex' \in Execs /\ ex'.id = ex.id
      BY <3>1
    <3>. QED BY <1>2, <3>2 DEF ReadCanceled
  <2>2. Phases' /\ Fresh' /\ Command' /\ Switches'
    BY <1>2, Constants DEF ReadCanceled
  <2>3. Verdicts' /\ RunningIsInFlight'
    BY <1>2, Constants DEF ReadCanceled
  <2>. QED BY <2>1, <2>2, <2>3
<1>3. CASE OpenFinal
  <2>1. TypeOK'
    BY <1>3, Constants DEF OpenFinal
  <2>2. Phases' /\ Fresh' /\ Command' /\ Switches'
    BY <1>3, Constants DEF OpenFinal
  <2>3. Verdicts' /\ RunningIsInFlight'
    BY <1>3, Constants DEF OpenFinal
  <2>. QED BY <2>1, <2>2, <2>3
<1>4. CASE WriteFinal
  <2>1. TypeOK'
    BY <1>4, Constants DEF WriteFinal
  <2>2. Phases' /\ Fresh' /\ Command' /\ Switches'
    BY <1>4, Constants DEF WriteFinal
  <2>3. Verdicts' /\ RunningIsInFlight'
    BY <1>4, Constants DEF WriteFinal
  <2>. QED BY <2>1, <2>2, <2>3
<1>5. CASE FinalError
  <2>1. TypeOK'
    BY <1>5, Constants DEF FinalError
  <2>2. Phases' /\ Fresh' /\ Command' /\ Switches'
    BY <1>5, Constants DEF FinalError
  <2>3. Verdicts' /\ RunningIsInFlight'
    BY <1>5, Constants DEF FinalError
  <2>. QED BY <2>1, <2>2, <2>3
<1>. QED BY <1>1, <1>2, <1>3, <1>4, <1>5

(* A prune removes records and rewrites none.                                *)
LEMMA PruneKeeps ==
  ASSUME ExecInv, ListRuns \/ RemoveRun \/ Pruned \/ ClearCancel \/ Release
  PROVE  ExecInv'
<1>1. CASE ListRuns
  <2>0. PICK doomed \in SUBSET Id : ex' = [ex EXCEPT !.pc = "prune", !.doomed = doomed]
    BY <1>1 DEF ListRuns, OverCount
  <2>1. TypeOK'
    <3>1. ex' \in Execs
      BY <2>0
    <3>. QED BY <1>1, <2>0, <3>1 DEF ListRuns
  <2>2. Phases' /\ Fresh' /\ Command' /\ Switches'
    BY <1>1, <2>0 DEF ListRuns
  <2>3. Verdicts' /\ RunningIsInFlight'
    <3>1. ex'.id = ex.id /\ ex'.pc = "prune" /\ ex.pc = "list"
      BY <1>1, <2>0 DEF ListRuns
    <3>2. UNCHANGED <<setting, server, meta, proc, asked, fixing>>
      BY <1>1 DEF ListRuns
    <3>3. Verdicts'
      BY <3>1, <3>2
    <3>4. RunningIsInFlight'
      BY <3>1, <3>2
    <3>. QED BY <3>3, <3>4
  <2>. QED BY <2>1, <2>2, <2>3
<1>2. CASE RemoveRun
  <2>1. TypeOK'
    <3>1. PICK i \in ex.doomed : /\ meta' = [meta EXCEPT ![i] = Absent] \/ meta' = meta
                                /\ ex' = [ex EXCEPT !.doomed = @ \ {i}]
      BY <1>2 DEF RemoveRun
    <3>2. meta' \in [Id -> Meta]
      BY <3>1
    <3>3. ex' \in Execs
      BY <3>1
    <3>. QED BY <1>2, <3>1, <3>2, <3>3 DEF RemoveRun
  <2>2. Phases' /\ Fresh' /\ Command' /\ Switches'
    BY <1>2, Constants DEF RemoveRun
  <2>3. Verdicts' /\ RunningIsInFlight'
    <3>1. CASE UNCHANGED meta
      <4>1. ex'.id = ex.id /\ ex'.pc = "prune" /\ ex.pc = "prune"
        BY <1>2 DEF RemoveRun
      <4>2. UNCHANGED <<setting, server, meta, proc, asked, fixing>>
        BY <1>2, <3>1 DEF RemoveRun
      <4>3. Verdicts'
        BY <4>1, <4>2
      <4>4. RunningIsInFlight'
        BY <4>1, <4>2
      <4>. QED BY <4>3, <4>4
    <3>2. CASE ~UNCHANGED meta
      <4>1. PICK i \in ex.doomed : /\ meta' = [meta EXCEPT ![i] = Absent]
                                  /\ ex' = [ex EXCEPT !.doomed = @ \ {i}]
        BY <1>2, <3>2 DEF RemoveRun
      <4>2. ex'.id = ex.id /\ ex'.pc = "prune" /\ ex.pc = "prune"
        BY <1>2, <4>1 DEF RemoveRun
      <4>3. UNCHANGED <<setting, server, proc, asked, fixing>>
        BY <1>2 DEF RemoveRun
      <4>4. Verdicts'
        BY <4>1, <4>2, <4>3
      <4>5. RunningIsInFlight'
        BY <4>1, <4>2, <4>3
      <4>. QED BY <4>4, <4>5
    <3>. QED BY <3>1, <3>2
  <2>. QED BY <2>1, <2>2, <2>3
<1>3. CASE Pruned
  <2>1. TypeOK'
    BY <1>3, Constants DEF Pruned
  <2>2. Phases' /\ Fresh' /\ Command' /\ Switches'
    BY <1>3, Constants DEF Pruned
  <2>3. Verdicts' /\ RunningIsInFlight'
    BY <1>3, Constants DEF Pruned
  <2>. QED BY <2>1, <2>2, <2>3
<1>4. CASE ClearCancel
  <2>1. TypeOK'
    BY <1>4, Constants DEF ClearCancel
  <2>2. Phases' /\ Fresh' /\ Command' /\ Switches'
    BY <1>4, Constants DEF ClearCancel
  <2>3. Verdicts' /\ RunningIsInFlight'
    BY <1>4, Constants DEF ClearCancel
  <2>. QED BY <2>1, <2>2, <2>3
<1>5. CASE Release
  <2>1. TypeOK'
    BY <1>5, Constants DEF Release
  <2>2. Phases' /\ Fresh' /\ Command' /\ Switches'
    BY <1>5, Constants DEF Release
  <2>3. Verdicts' /\ RunningIsInFlight'
    BY <1>5, Constants DEF Release
  <2>. QED BY <2>1, <2>2, <2>3
<1>. QED BY <1>1, <1>2, <1>3, <1>4, <1>5

(* A Cancel marks the run it has read, whichever is in flight by then.       *)
LEMMA CancelKeeps ==
  ASSUME ExecInv, CancelRead \/ (\E i \in Id : CancelCall(i))
  PROVE  ExecInv'
<1>1. CASE CancelRead
  <2>1. TypeOK'
    <3>1. cancelFn # NoRun
      BY <1>1 DEF CancelRead
    <3>2. cancelFn \in Id
      BY <3>1, OnFile
    <3>3. calls' \subseteq Id
      BY <1>1, <3>2 DEF CancelRead
    <3>4. UNCHANGED <<setting, server, meta, ex, proc, cancelFn, asked, fixing, started, crashes>>
      BY <1>1 DEF CancelRead
    <3>. QED BY <3>3, <3>4
  <2>2. Phases' /\ Fresh' /\ Command' /\ Switches'
    BY <1>1, Constants DEF CancelRead
  <2>3. Verdicts' /\ RunningIsInFlight'
    BY <1>1, Constants DEF CancelRead
  <2>. QED BY <2>1, <2>2, <2>3
<1>2. ASSUME NEW i \in Id, CancelCall(i) PROVE ExecInv'
  <2>1. TypeOK'
    <3>1. ex' \in Execs /\ ex'.id = ex.id
      BY <1>2 DEF CancelCall
    <3>2. calls' \subseteq Id /\ asked' \subseteq Id
      BY <1>2 DEF CancelCall
    <3>3. UNCHANGED <<setting, server, meta, proc, cancelFn, fixing, started, crashes>>
      BY <1>2 DEF CancelCall
    <3>. QED BY <3>1, <3>2, <3>3
  <2>2. Phases' /\ Fresh' /\ Command' /\ Switches'
    <3>1. CASE ex.id = i
      <4>1. ex' = [ex EXCEPT !.done = TRUE] /\ asked' = asked \cup {i}
        BY <1>2, <3>1 DEF CancelCall
      <4>2. UNCHANGED <<setting, server, meta, proc, cancelFn, fixing, started>>
        BY <1>2 DEF CancelCall
      <4>3. /\ ex'.id = ex.id /\ ex'.pc = ex.pc /\ ex'.done
            /\ ex'.armed = ex.armed /\ ex'.timedOut = ex.timedOut
        BY <4>1
      <4>4. ex.pc # "none" /\ server = "up"
        BY <3>1, OnFile
      <4>5. Phases' /\ Fresh' /\ Command'
        BY <4>2, <4>3, <4>4
      <4>6. Switches'
        BY <3>1, <4>1, <4>2, <4>3
      <4>. QED BY <4>5, <4>6
    <3>2. CASE ex.id # i
      BY <1>2, <3>2 DEF CancelCall
    <3>. QED BY <3>1, <3>2
  <2>3. Verdicts' /\ RunningIsInFlight'
    BY <1>2, Constants DEF CancelCall
  <2>. QED BY <2>1, <2>2, <2>3
<1>. QED BY <1>1, <1>2

(* No execution survives its server, and reconciliation ends before the next *)
(* one serves.                                                               *)
LEMMA ServerKeeps ==
  ASSUME ExecInv, Crash \/ Restart \/ ReconcileOpen \/ ReconcileWrite \/ ReconcileError \/ Serve
  PROVE  ExecInv'
<1>1. CASE Crash
  BY <1>1, Constants DEF Crash
<1>2. CASE Restart
  BY <1>2, Constants DEF Restart
<1>3. CASE ReconcileOpen
  BY <1>3, Constants DEF ReconcileOpen
<1>4. CASE ReconcileWrite
  BY <1>4, Constants DEF ReconcileWrite
<1>5. CASE ReconcileError
  BY <1>5, Constants DEF ReconcileError
<1>6. CASE Serve
  <2>1. TypeOK'
    BY <1>6, Constants DEF Serve
  <2>2. Phases' /\ Fresh' /\ Command' /\ Switches'
    BY <1>6, Constants DEF Serve
  <2>3. Verdicts' /\ RunningIsInFlight'
    BY <1>6, Constants DEF Serve
  <2>. QED BY <2>1, <2>2, <2>3
<1>. QED BY <1>1, <1>2, <1>3, <1>4, <1>5, <1>6

LEMMA NextKeeps == ASSUME ExecInv, [Next]_vars PROVE ExecInv'
BY StutterKeeps, BeginKeeps, RecordKeeps, SwitchKeeps, CommandKeeps, VerdictKeeps,
   PruneKeeps, CancelKeeps, ServerKeeps
   DEF Next, Execute

HIDE DEF ExecInv, TypeOK, Phases, Fresh, Command, Switches, Verdicts, Claim,
         RunningIsInFlight, InFlight, Readable, LeftOver, Unfinished, Finished, Registered,
         At, Go, SetMeta, Decide, Record, Torn, Absent, NoExec, NoRun,
         Meta, Execs, Procs, PC, RunStatus, Final, ExitCode

LEMMA ExecInvariant == Spec => []ExecInv
<1>1. ExecInv /\ [Next]_vars => ExecInv'
  BY NextKeeps
<1>. QED
  BY InitExec, <1>1, PTL DEF Spec

-----------------------------------------------------------------------------
(* Every reachable state is well typed, and the cancel function on file is   *)
(* that of the run in flight.                                                *)
THEOREM ExecutionTyping == Spec => []TypeOK
<1>1. ExecInv => TypeOK
  BY DEF ExecInv
<1>. QED BY ExecInvariant, <1>1, PTL

(* While the server serves and no file fails, a record in state running is   *)
(* that of the run in flight, however often servers died before.             *)
THEOREM RunningRecords == Spec => []RunningIsInFlight
<1>1. ExecInv => RunningIsInFlight
  BY DEF ExecInv
<1>. QED BY ExecInvariant, <1>1, PTL

(* A command that runs can be canceled.                                      *)
THEOREM Cancelable == Spec => []CommandCancelable
<1>1. ExecInv => CommandCancelable
  BY DEF ExecInv, Phases, Command, Registered, InFlight, CommandCancelable
<1>. QED BY ExecInvariant, <1>1, PTL

(* Canceled runs of a job without timeout were the target of a Cancel.       *)
THEOREM CancelHits == Spec => []CancelHitsItsRun
<1>1. ExecInv => CancelHitsItsRun
  BY DEF ExecInv, Verdicts, Claim, CancelHitsItsRun
<1>. QED BY ExecInvariant, <1>1, PTL

(* No status claims what did not happen.                                     *)
THEOREM Honesty == Spec => []StatusHonest
<1>1. ExecInv => StatusHonest
  BY DEF ExecInv, Verdicts, Claim, StatusHonest
<1>. QED BY ExecInvariant, <1>1, PTL

(* A record with a final status stays until it is removed.                   *)
THEOREM History == Spec => FinalStays
<1>. DEFINE Kept == \A i \in Readable :
                      meta[i].status \in Final => meta'[i] \in {meta[i], Absent}
<1>1. ExecInv /\ [Next]_vars => [Kept]_vars
  <2>. SUFFICES ASSUME ExecInv, Next PROVE Kept
    BY DEF vars, Readable
  <2>. USE DEF ExecInv, TypeOK, Phases, Verdicts, Unfinished, Readable, LeftOver, At, SetMeta,
               Go, Meta, Final
  <2>1. CASE UNCHANGED meta
    BY <2>1
  <2>2. CASE OpenRecord \/ WriteRecord \/ OpenFinal \/ WriteFinal
    BY <2>2 DEF OpenRecord, WriteRecord, OpenFinal, WriteFinal
  <2>3. CASE RemoveRun
    BY <2>3 DEF RemoveRun
  <2>4. CASE ReconcileOpen \/ ReconcileWrite
    BY <2>4 DEF ReconcileOpen, ReconcileWrite
  <2>. QED
    BY <2>1, <2>2, <2>3, <2>4
       DEF Next, Execute, Begin, FileError, CreateLog, SetCancel, ArmTimeout, StartCommand,
           StartRefused, Kill, CommandEnds, ReadTimedOut, ReadCanceled, FinalError, ListRuns,
           Pruned, ClearCancel, Release, Exit, CancelCall, Timeout, CancelRead, Crash, Restart,
           ReconcileError, Serve
<1>. QED
  BY ExecInvariant, <1>1, PTL DEF Spec, FinalStays

-----------------------------------------------------------------------------
(* Retention.                                                                *)

(* Those that will be left of the runs after i.                              *)
Behind(i) == {k \in Readable \ ex.doomed : k > i}

(* Whatever of the prune is still to come: a run that will go has KeepRuns   *)
(* newer ones that will stay, and, unless removals fail, no more than        *)
(* KeepRuns will stay.                                                       *)
Retention ==
  /\ ex.pc = "prune" =>
       /\ ~setting.keepDays => \A i \in ex.doomed : Cardinality(Behind(i)) >= KeepRuns
       /\ ~setting.diskFails => Cardinality(Readable \ ex.doomed) <= KeepRuns
  /\ ex.pc = "clearCancel" /\ ~setting.diskFails => Cardinality(Readable) <= KeepRuns

LEMMA SetsOfRuns ==
  ASSUME NEW S \in SUBSET Id
  PROVE  /\ S \in SUBSET Nat /\ \A i \in S : i <= MaxRuns
         /\ IsFiniteSet(S) /\ Cardinality(S) \in Nat
         /\ \A T \in SUBSET S : Cardinality(T) <= Cardinality(S)
<1>1. S \in SUBSET Nat /\ \A i \in S : i <= MaxRuns
  BY Constants DEF Id
<1>2. IsFiniteSet(S)
  BY <1>1, Constants, FS_BoundedSetOfNaturals
<1>3. Cardinality(S) \in Nat
  BY <1>2, FS_CardinalityType
<1>4. \A T \in SUBSET S : Cardinality(T) <= Cardinality(S)
  BY <1>2, FS_Subset
<1>. QED
  BY <1>1, <1>2, <1>3, <1>4

(* The runs over the count have KeepRuns newer ones below it: those newer    *)
(* than the newest of them.                                                  *)
LEMMA OverCountLeaves ==
  ASSUME NEW i \in OverCount
  PROVE  Cardinality({k \in Readable \ OverCount : k > i}) >= KeepRuns
<1>1. OverCount \in SUBSET Id /\ Readable \in SUBSET Id
  BY DEF OverCount, Readable
<1>2. PICK m \in OverCount : \A j \in OverCount : m >= j
  BY <1>1, SetsOfRuns, GreatestExists, Constants
<1>3. m \in Nat /\ i \in Nat /\ m >= i /\ \A k \in Readable : k \in Nat
  BY <1>1, <1>2, SetsOfRuns
<1>4. \A k \in Newer(m) : k \notin OverCount /\ k > i
  <2>1. \A k \in Newer(m) : k > m /\ k \in Nat
    BY <1>3 DEF Newer
  <2>. QED
    BY <1>2, <1>3, <2>1
<1>5. Newer(m) \subseteq {k \in Readable \ OverCount : k > i}
  BY <1>4 DEF Newer
<1>6. Cardinality(Newer(m)) >= KeepRuns
  BY <1>2 DEF OverCount
<1>7. {k \in Readable \ OverCount : k > i} \in SUBSET Id
  BY <1>1
<1>8. Newer(m) \in SUBSET Id
  BY <1>1 DEF Newer
<1>. QED
  BY <1>5, <1>6, <1>7, <1>8, SetsOfRuns, Constants

(* And the others are no more than KeepRuns: all but the oldest of them are  *)
(* newer than it.                                                            *)
LEMMA UnderCount ==
  ASSUME NEW K \in SUBSET (Readable \ OverCount)
  PROVE  Cardinality(K) <= KeepRuns
<1>1. K \in SUBSET Id /\ Readable \in SUBSET Id
  BY DEF Readable
<1>2. CASE K = {}
  BY <1>2, FS_EmptySet, Constants
<1>3. CASE K # {}
  <2>1. PICK m \in K : \A j \in K : m <= j
    BY <1>1, <1>3, SetsOfRuns, LeastExists
  <2>2. \A j \in K : j \in Nat
    BY <1>1, SetsOfRuns
  <2>3. K \ {m} \subseteq Newer(m)
    BY <2>1, <2>2 DEF Newer
  <2>4. Newer(m) \in SUBSET Id
    BY <1>1 DEF Newer
  <2>5. Cardinality(Newer(m)) \in Nat /\ Cardinality(Newer(m)) < KeepRuns
    BY <2>1, <2>4, SetsOfRuns, Constants DEF OverCount
  <2>6. Cardinality(K \ {m}) = Cardinality(K) - 1
    BY <1>1, <2>1, SetsOfRuns, FS_RemoveElement
  <2>7. Cardinality(K \ {m}) <= Cardinality(Newer(m))
    BY <2>3, <2>4, SetsOfRuns
  <2>. QED
    BY <1>1, <2>5, <2>6, <2>7, SetsOfRuns, Constants
<1>. QED
  BY <1>2, <1>3

(* Whatever leaves the records and what is doomed alone.                     *)
LEMMA RetentionStands ==
  ASSUME Retention, UNCHANGED <<meta, setting>>,
         ex'.pc \in {"prune", "clearCancel"} => ex'.pc = ex.pc /\ ex'.doomed = ex.doomed
  PROVE  Retention'
BY DEF Retention, Behind, Readable

LEMMA RetentionKept ==
  ASSUME ExecInv, Retention, [Next]_vars
  PROVE  Retention'
<1>. USE DEF At, Go
<1>1. ex \in Execs /\ setting \in Settings
  BY DEF ExecInv, TypeOK
<1>2. CASE ListRuns
  <2>1. PICK cutoff \in IF setting.keepDays THEN 1..(started + 1) ELSE {1} :
          ex' = [ex EXCEPT !.pc = "prune",
                           !.doomed = OverCount \cup {i \in Readable : i < cutoff}]
    BY <1>2 DEF ListRuns
  <2>2. /\ ex'.pc = "prune" /\ ex'.doomed = OverCount \cup {i \in Readable : i < cutoff}
        /\ UNCHANGED <<setting, meta>>
    BY <1>1, <1>2, <2>1 DEF ListRuns, Execs
  <2>3. Readable' = Readable
    BY <2>2 DEF Readable
  <2>4. Cardinality(Readable \ ex'.doomed) <= KeepRuns
    BY <2>2, UnderCount
  <2>5. ~setting.keepDays => ex'.doomed = OverCount
    <3>1. \A i \in Readable : ~(i < 1)
      BY Constants DEF Readable, Id
    <3>. QED
      BY <2>1, <2>2, <3>1
  <2>6. ~setting.keepDays => \A i \in ex'.doomed : Cardinality(Behind(i)') >= KeepRuns
    BY <2>3, <2>5, OverCountLeaves DEF Behind
  <2>. QED
    BY <2>2, <2>3, <2>4, <2>6 DEF Retention
<1>3. CASE RemoveRun
  <2>1. PICK i \in ex.doomed :
          /\ meta' = [meta EXCEPT ![i] = Absent] \/ (setting.diskFails /\ meta' = meta)
          /\ ex' = [ex EXCEPT !.doomed = @ \ {i}]
    BY <1>3 DEF RemoveRun
  <2>2. ex.pc = "prune" /\ ex'.pc = "prune" /\ ex'.doomed = ex.doomed \ {i} /\ UNCHANGED setting
    BY <1>1, <1>3, <2>1 DEF RemoveRun, Execs
  <2>3. Readable' = Readable \ {i} \/ (setting.diskFails /\ Readable' = Readable)
    BY <2>1 DEF Readable, Absent, ExecInv, TypeOK
  <2>4. /\ Readable \ ex.doomed \subseteq Readable' \ ex'.doomed
        /\ ~setting.diskFails => Readable' \ ex'.doomed = Readable \ ex.doomed
    BY <2>1, <2>2, <2>3
  <2>5. ~setting.keepDays => \A k \in ex'.doomed : Cardinality(Behind(k)') >= KeepRuns
    <3>. SUFFICES ASSUME ~setting.keepDays, NEW k \in ex'.doomed
                  PROVE  Cardinality(Behind(k)') >= KeepRuns
      OBVIOUS
    <3>1. Behind(k) \subseteq Behind(k)' /\ Behind(k)' \in SUBSET Id /\ k \in ex.doomed
      BY <2>2, <2>4 DEF Behind, Readable
    <3>2. Cardinality(Behind(k)) >= KeepRuns
      BY <2>2, <3>1 DEF Retention
    <3>. QED
      BY <3>1, <3>2, SetsOfRuns, Constants
  <2>6. ~setting.diskFails => Cardinality(Readable' \ ex'.doomed) <= KeepRuns
    BY <2>2, <2>4 DEF Retention
  <2>. QED
    BY <2>2, <2>5, <2>6 DEF Retention
<1>4. CASE Pruned
  <2>1. /\ ex.pc = "prune" /\ ex.doomed = {} /\ ex'.pc = "clearCancel"
        /\ Readable' = Readable /\ UNCHANGED setting
    BY <1>1, <1>4 DEF Pruned, Execs, Readable
  <2>. QED
    BY <2>1 DEF Retention
<1>5. CASE OpenRecord \/ WriteRecord \/ OpenFinal \/ WriteFinal
  <2>1. ex'.pc \notin {"prune", "clearCancel"}
    BY <1>1, <1>5 DEF OpenRecord, WriteRecord, OpenFinal, WriteFinal, Execs
  <2>. QED
    BY <2>1 DEF Retention
<1>6. CASE Crash \/ ReconcileOpen \/ ReconcileWrite
  <2>1. ex'.pc = "none"
    BY <1>6 DEF Crash, ReconcileOpen, ReconcileWrite, NoExec, ExecInv, Phases
  <2>. QED
    BY <2>1 DEF Retention
<1>7. CASE \/ Begin \/ FileError \/ CreateLog \/ SetCancel \/ ArmTimeout \/ StartCommand
           \/ StartRefused \/ FinalError \/ ClearCancel \/ Release
  <2>1. CASE Begin \/ Release
    <3>1. NoExec \in Execs /\ NoExec.pc = "none"
      BY Constants DEF NoExec, Execs, PC, ExitCode, RunStatus, NoRun, Id
    <3>2. ex'.pc \in {"begin", "none"}
      BY <2>1, <3>1 DEF Begin, Release, Execs
    <3>3. UNCHANGED <<meta, setting>>
      BY <2>1 DEF Begin, Release
    <3>. QED
      BY <3>2, <3>3, RetentionStands
  <2>2. CASE FileError \/ CreateLog \/ SetCancel \/ FinalError
    <3>1. ex'.pc \in {"release", "setCancel", "arm", "list"}
      BY <1>1, <2>2 DEF FileError, CreateLog, SetCancel, FinalError, Execs
    <3>. QED
      BY <2>2, <3>1, RetentionStands DEF FileError, CreateLog, SetCancel, FinalError
  <2>3. CASE ArmTimeout \/ StartCommand \/ StartRefused \/ ClearCancel
    <3>1. UNCHANGED <<meta, setting>>
      BY <2>3 DEF ArmTimeout, StartCommand, StartRefused, ClearCancel
    <3>2. ex'.pc \in {"start", "wait", "timedOut?", "release"}
      BY <1>1, <2>3 DEF ArmTimeout, StartCommand, StartRefused, ClearCancel, Execs
    <3>. QED
      BY <3>1, <3>2, RetentionStands
  <2>. QED
    BY <1>7, <2>1, <2>2, <2>3
<1>8. CASE CommandEnds
  <2>1. ex'.pc = "timedOut?" /\ UNCHANGED <<meta, setting>>
    BY <1>1, <1>8 DEF CommandEnds, Execs
  <2>. QED
    BY <2>1, RetentionStands
<1>9. CASE ReadTimedOut \/ ReadCanceled
  <2>1. /\ \/ \E status \in RunStatus : ex' = [ex EXCEPT !.pc = "final", !.status = status]
           \/ ex' = [ex EXCEPT !.pc = "canceled?"]
        /\ UNCHANGED <<meta, setting>>
    BY <1>9 DEF ReadTimedOut, ReadCanceled, Decide, RunStatus, Final
  <2>2. ex'.pc \notin {"prune", "clearCancel"}
    BY <1>1, <2>1 DEF Execs
  <2>. QED
    BY <2>1, <2>2, RetentionStands
<1>10. CASE Timeout \/ CancelRead \/ \E i \in Id : CancelCall(i) \/ Exit(i)
  <2>1. ex'.pc = ex.pc /\ ex'.doomed = ex.doomed /\ UNCHANGED <<meta, setting>>
    BY <1>1, <1>10 DEF Timeout, CancelRead, CancelCall, Exit, Execs
  <2>. QED
    BY <2>1, RetentionStands
<1>11. CASE Kill \/ Restart \/ ReconcileError \/ Serve \/ UNCHANGED vars
  BY <1>11, RetentionStands DEF Kill, Restart, ReconcileError, Serve, vars
<1>. QED
  BY <1>2, <1>3, <1>4, <1>5, <1>6, <1>7, <1>8, <1>9, <1>10, <1>11 DEF Next, Execute

LEMMA RetentionInvariant == Spec => []Retention
<1>1. Init => Retention
  BY DEF Init, Retention, NoExec
<1>. QED
  BY <1>1, RetentionKept, ExecInvariant, PTL DEF Spec

(* After a prune where no file fails no more than KeepRuns records can be    *)
(* read.                                                                     *)
THEOREM Bounded == Spec => []RecordsBounded
<1>1. Retention => RecordsBounded
  BY DEF Retention, RecordsBounded, At
<1>. QED
  BY <1>1, RetentionInvariant, PTL

(* Without keep_days the record of a run goes only when KeepRuns newer ones  *)
(* can be read.                                                              *)
THEOREM Newest == Spec => NewestKept
<1>. DEFINE Kept == \A i \in Id :
       meta[i].at # "absent" /\ meta'[i].at = "absent" /\ ~setting.keepDays =>
         Cardinality(Newer(i)) >= KeepRuns
<1>1. ExecInv /\ Retention /\ [Next]_vars => [Kept]_vars
  <2>. SUFFICES ASSUME ExecInv, Retention, Next PROVE Kept
    OBVIOUS
  <2>. USE DEF ExecInv, TypeOK, At, Go, SetMeta
  <2>1. CASE UNCHANGED meta
    BY <2>1
  <2>2. CASE OpenRecord \/ WriteRecord \/ OpenFinal \/ WriteFinal \/ ReconcileOpen \/ ReconcileWrite
    <3>1. \A i \in Id : meta'[i].at = meta[i].at \/ meta'[i].at \in {"torn", "ok"}
      BY <2>2 DEF OpenRecord, WriteRecord, OpenFinal, WriteFinal, ReconcileOpen, ReconcileWrite,
                  Torn, Absent, Record
    <3>. QED
      BY <3>1
  <2>3. CASE RemoveRun
    <3>0. CASE UNCHANGED meta
      BY <3>0
    <3>1. CASE ~UNCHANGED meta
      <4>1. PICK i \in ex.doomed : ex.pc = "prune" /\ meta' = [meta EXCEPT ![i] = Absent]
        BY <2>3, <3>1 DEF RemoveRun
      <4>2. ~setting.keepDays => Cardinality(Behind(i)) >= KeepRuns
        BY <4>1 DEF Retention
      <4>3. Newer(i) \in SUBSET Id /\ Behind(i) \in SUBSET Newer(i)
        BY DEF Newer, Behind, Readable
      <4>4. ~setting.keepDays => Cardinality(Newer(i)) >= KeepRuns
        BY <4>2, <4>3, SetsOfRuns, Constants
      <4>. QED
        BY <4>1, <4>4
    <3>. QED
      BY <3>0, <3>1
  <2>. QED
    BY <2>1, <2>2, <2>3
       DEF Next, Execute, Begin, FileError, CreateLog, SetCancel, ArmTimeout, StartCommand,
           StartRefused, Kill, CommandEnds, ReadTimedOut, ReadCanceled, FinalError, ListRuns,
           Pruned, ClearCancel, Release, Exit, CancelCall, Timeout, CancelRead, Crash, Restart,
           ReconcileError, Serve
<1>. QED
  BY ExecInvariant, RetentionInvariant, <1>1, PTL DEF Spec, NewestKept
=============================================================================
