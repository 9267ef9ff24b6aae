# cronkit in TLA+

cronkit is a cron replacement in one process: it runs shell commands on a schedule, on request or after one another,
keeps a record and a log of each run in files, and shows them in a small web interface. This directory holds models of
its parts, the TLC runs that check them, and TLAPS proofs of every safety property the passing runs check, for every value of the
constants.

All source references are to files and lines of this repository.

## The system

| Component | State | Operations | Talks to |
|---|---|---|---|
| Runner (`runner.go`) | `running`, `groupBusy`, `cancels`, `disabled`, `pending`, `timers`, `firstAt`, `firesAt` under one mutex; `draining` and the configuration as atomics | `Trigger`, `ForceRun`, `fireBatch`, `run` (`acquire`, `execute`, `release`, `drainAfter`, `chain`), `Cancel`, `SetDraining`, `SetDisabled` | Store (files), Config (pointer), the kernel (processes), timers |
| Store (`store.go`) | one directory per run with `meta.json` and `output.log`; `state.json`; `apikey` | `writeMeta`, `ReadRun`, `ListRuns`, `prune`, `ReconcileRunning`, `SaveDisabled`, `SaveAPIKey` | the file system; no lock anywhere |
| Scheduler (`scheduler.go`) | cron entries whose closures hold a copy of their Job | `NewScheduler`, `Start`, `Stop`, `NextRun` | calls `Runner.Trigger` |
| Config (`config.go`) | an immutable value behind `cfgp` | `LoadConfig`, `Job`, `keepRunsFor`, `shouldNotify` | read by all |
| Server (`web.go`) | `cfgp`, `schedp`, `apikey` as atomics | `Reload`, `RotateAPIKey`, pages, the API, `handleRun`/`handleStream`, `handleJob`, metrics | Runner, Store, Scheduler |
| Log writers (`logwriter.go`) | `written`, `truncated`, `atLineStart` | `capWriter.Write`, `timestampWriter.Write` | the pipe of the command, `output.log` |
| View (`view.go`) | none | `chainDiagram`, formatting | the job page |
| Notify (`notify.go`) | none | one e-mail | - |
| main (`main.go`) | - | start order, SIGHUP, shutdown | all |

What is hard here. Every request, tick, expired timer and chain is a goroutine, and the Runner's mutex is held in short
sections only, so what one section has found may be stale in the next. Triggers of a debounced job are a counter that
four operations hand on, with a timer that may fire after it was replaced. Chains and follow-up runs start runs from the
end of runs, so termination is not obvious. Configuration, drain mode and disabled jobs change in the middle of all of it.
Files are emptied and then written, with no lock, while the server may die at any point and its commands may live on; pages
read them meanwhile. `PROJECT.json` lists these hazards line by line with the properties that cover them.

What makes each component correct:

* Runner: one execution per job and per group; no lock left behind; no trigger counted twice; a job that is owed triggers stays owed;
  no wait beyond `debounce_max`; drain mode closes every way to a run; chain cycles end.
* Execution and Store: a status says what happened; Cancel reaches the run it was meant for; a timeout ends the run; records
  survive restarts, and the newest are kept.
* Live tail and log writers: the log depends on the output alone; the viewer is sent every line once, in order, and then the end.
* Reload: a scheduler always ticks, and never two for long.
* Runtime state: what is in force is what a restart brings back.
* Config: a file is accepted exactly if it has no fault, and what is accepted is what the others rely on.
* Job page: whoever follows the Next links sees every run, and the chain graph is the one that `chain` follows.

## Modules

| Module | Models | Built on |
|---|---|---|
| `JobsFile` | what an accepted jobs file is: distinct names, chains to known jobs | - |
| `ExclusiveRuns` | the abstract promise of the locks: executions start and finish, and no two conflict | - |
| `Runner` | the Runner: goroutines, locks, timers, batches, drain, reload, chains | `JobsFile`, refines `ExclusiveRuns` |
| `RunnerBatches` | what a job is owed, and the properties of batches | `Runner` |
| `Debounce` | the Runner with a clock: `firstAt`, `firesAt`, `debounce_max`, deadlines of timers | `Runner`, refines it |
| `Execution` | `execute()`, Cancel and the run records, with crashes | - |
| `LogWriter` | the two writers between a command and its log | - |
| `LiveTail` | `handleRun` and `handleStream`, on the log that `LogWriter` writes | `LogWriter` |
| `Reload` | `Server.Reload` and the schedulers | - |
| `RuntimeState` | disabled jobs and the API key, in memory and on disk | - |
| `Server` | reloads, requests, the start and the death of one server together | `Reload`, `RuntimeState` |
| `Config` | `LoadConfig` statement by statement, `keepRunsFor`, `shouldNotify` | `JobsFile` |
| `ChainDiagram` | `chainDiagram`: the walk over the chains and the layout | `Config` |
| `JobPage` | `handleJob`: filters, sort, pages, while runs come and go | `ChainDiagram` |
| `MCRunner`, `MCDebounce`, `MCExecution`, `MCJobPage` | the instances of the runs | their modules |
| `RunnerProofs`, `DebounceProofs`, `ConfigProofs`, `ExecutionProofs`, `TailProofs`, `ServerProofs`, `PageProofs` | the theorems (`DebounceProofs` also those about `RunnerBatches`, `PageProofs` those about `ChainDiagram` and `JobPage`) | their modules |
| `Extremes` | the least and the greatest of a set of numbers exist, and what holds of 0 and of each successor holds of all; for the proofs | - |

### Runner

A goroutine inside the Runner is a slot of `thr` with a program counter. One action is one
critical section of `rn.mu` or one read of an atomic:

| Code | Actions |
|---|---|
| `Trigger`, `ForceRun` up to the lock | `Request` (the two flags are read in one step: both orders of a concurrent change are the same as one of the two requests seen alone) |
| `Trigger` under the lock | `Coalesce` |
| `ForceRun` under the lock | `Absorb` |
| a timer expires; `fireBatch` | `Expire`, `FireBatchKept`/`FireBatchTaken`, `Fire` |
| `run`: `IsDisabled`, `draining` | `Check`, `Admit` |
| `acquire` and its refusal | `Acquire`, `AcquireDenied`, `Requeue` |
| `execute`, `release` | `Execute`, `Release` |
| `drainAfter` | `DrainAfter`, `PickNone`/`PickOne`, `Launch` |
| `chain`, its goroutine | `ChainOn`, `ChainEnd`, `NextChild` |
| `SetDraining`, `SetDisabled`, `Reload` | the actions of the same names |

`timers[n]` is the entry of `rn.timers`. `Stop()` has no effect on a timer whose function has
been started, so an expired timer moves to `callbacks`; `fireBatch` deletes the entry without
asking whose it is, and a newer timer that loses its entry this way goes on as one of `orphans`.
Durations are abstracted: an armed timer may expire at any time, which includes every
order the durations allow. The list of children a chain goroutine ranges over is in `todo`, with
the configuration `chain` loaded.

Slots are interchangeable: an idle slot carries nothing, and no property names one, so a new
goroutine takes a fixed idle slot (`Slot`) instead of any of them. A request, a launch and a
chain wait while no slot is idle; that limits the goroutines in progress at once, not their order.

### Debounce

The actions of `Runner` together with what they do to the times, and a clock that moves when nothing is left to do at the
present instant: every goroutine waits for a command or is idle, no callback is under way and no deadline is due. Each armed timer has a deadline; one
that loses its entry in `rn.timers` keeps it and becomes one of `strays`. The history variable `noticed` says since when
the first of the triggers that somebody is to look at waits: those `Trigger` counted, and those a denied run put back (`TimedRequeue`) while the job or its group was still taken, whose release is yet to come. One put back when both are free
again is left out: the holder's `drainAfter` may have looked, no timer is armed, and it may wait for ever (`RunnerStranded`). `fireBatch` forgets the deadline whoever's it is, `drainAfter` forgets none, as in the code. That every step of the timed
module is a step of `Runner` or a stutter is a theorem, so the abstraction of durations in `Runner` loses nothing.

### Execution

One job, runs numbered by their start. `writeMeta` is two steps because `os.WriteFile` empties the file first; a record in
between, or one left so by a crash, is `torn` and unreadable. `server` is down, reconciling or up: `ReconcileRunning` is over
before the server serves. The process of a run is separate from its execution and survives a crash. A setting, chosen once, says whether the job has a
timeout and `keep_days`, whether a file may fail to be created, written or removed, and whether a descendant may keep the output of a command open after its exit (cmd.Run then reports an
error with exit code 0 after `WaitDelay`). `asked` is a history variable, the runs a Cancel was called for. Retention by date lets the cutoff be any point of time.

### LogWriter and LiveTail

`LogWriter` writes arbitrary output of newlines, carriage returns and other bytes in arbitrary pieces; the notice of `capWriter` is written in the same step as what comes before it. `LiveTail` lets one
viewer follow that log: the page reads the record, the log and the size in three steps, the stream reads a chunk and then the record, tick by tick. To the
viewer a byte is its position. `sent` is what the data events carry, `added` what the browser adds to the page: `emit` puts a line behind `data: ` as it is, and the standard of Server-Sent Events ends the field at a carriage return, too, so what
follows one is dropped (a rest that itself reads as a `data:` field is not modelled). A browser whose stream is refused, as by the 404 for a job that a reload removed, gives up; `run.html` closes the stream on any error. The viewer may also come when the output is complete or not at all (`notAsked`), for which the output may be longer. The cut of a long log by
`displayLogCap` is left out: it drops only what comes before the shown part.

### Reload, RuntimeState, Server

`Reload` has several goroutines inside `Server.Reload`, one step per statement that touches shared state, and a file that is edited and may be invalid.
`RuntimeState` has the request handlers, the two files with their emptied intermediate state, and what a start loads; a shorter text over a longer one leaves an
unreadable file. `Server` puts them together: both go on at once, the server dies at any step of either, and `main` loads the configuration and
the state, starts the first scheduler and only then serves.

### Config, ChainDiagram, JobPage

`Config` goes through a file as `LoadConfig` does: defaults, notify, the jobs one by one with the names seen so far, then the chains. A text (a duration, a time zone,
a status) is given by the verdict of the library that parses it. `ChainDiagram` starts from an accepted file: the breadth-first walk, one queue element per step, the
upstream column, and the arithmetic of the layout. `JobPage` adds the runs of one job, one request per step: `ListRuns`, the filters, the sort as
`sort.SliceStable` does it for up to 20 elements, the page and the links. The order with `dir=desc` is the negation of the ascending one, as in the code, so it is
true of equal keys both ways; insertion then puts equal keys oldest first.

## Runs

`tlc -config X.cfg M` checks a run; `PROJECT.json` gives the module of each.

| Run | Checks | Bounds |
|---|---|---|
| `RunnerLocks` | `TypeOK`, `Exclusive`, `LocksHeld`, refinement `Serialized`, `NothingCountedTwice`, `DrainHolds`, `ChainsEnd` | a debounced job, and one that chains to itself, in one group, the first chained to the second; a reload drops the first and ungroups the second; 2 requests, 3 goroutines, chain depth 1 |
| `RunnerSteady` | `OwedUntilStarted`, `FollowUpRun` | two debounced jobs of one group, not reconfigured; 3 requests, 3 goroutines |
| `DebounceWindow` | `TimedTypeOK`, `NoticedInTime` | a debounced job and a mate of its group that chains to it on success; 3 requests, window 2, `debounce_max` 3, time up to 5 |
| `ExecutionRecords` | `TypeOK`, `RunningIsInFlight`, `CancelHitsItsRun`, `CommandCancelable`, `StatusHonest`, `RecordsBounded`, `FinalStays`, `NewestKept`, `TimeoutEnds` | a plain job with 3 runs and 2 crashes; one with timeout, `keep_days`, lingering output and a disk that fails, 2 runs and 1 crash; 1 record kept |
| `TailFollows` | `LogOfOutput`, `TypeOK`, `NothingRepeated`, `StreamComplete`, `LinesArrive`, `StreamEnds` | every output of up to 5 bytes (3 with a viewer), each a newline, a carriage return or another, in pieces of up to 3, stamps of 2 bytes, limit 7, chunk 2, flush after 1, pruning |
| `ServerRestarts` | `TypeOK`, `AlwaysScheduling`, `OthersAreBeingStopped`, `SavedWhenQuiet`, `KeySavedWhenQuiet` | 2 goroutines that reload, 1 that serves requests about 2 jobs and the key, 4 calls in all, 2 edits, 2 crashes |
| `JobPage` | `Verdict`, `Dependable`, `EdgesHaveEnds`, `ChainsShown`, `BoxesApart`, `DiagramEnds`, `PageTypeOK`, `InOrder`, `WalkSeesAll` | files with every fault alone and in pairs, 1080 chain graphs of 5 jobs with depth limit 3, and one job with 4 runs, 3 kept, 2 per page, 7 queries |

Why the bounds are enough. The conflicts over a lock are between two executions of one job or of two jobs of one
group, so two jobs suffice; the third goroutine is the one that looks on, or that a finished run or a chain starts
beside the two. Two requests give a holder and a contender; the properties of batches need a third, which makes
a batch of two or comes late. A depth limit of 1 lets a cycle close once and be cut. A command ends in success or failure: an error of
`execute` and a canceled run differ from these only in that they chain nothing, as does a success of the one job and a failure of the other. No slot bound stops
the goroutines of `RunnerLocks`: its chains have one child each, so two requests never need more than three slots. A window of 2 under a cap of 3 has a full window,
a shortened one and none. Four calls with two goroutines let a reload be overtaken by one that starts after it and ends before it, and two requests follow one another
around a crash. In `ExecutionRecords` the third run is the one that finds an older one to prune, and a second crash hits what the first one left. The limit of 7
falls inside a stamp, inside a line and at the end of one, depending on the output. Five jobs make graphs longer than the depth limit, and jobs met by ways of different lengths.
Four runs over two pages, one of them pruned, move rows from page to page. What the proofs below cover does not depend on any bound.

`CHECK_DEADLOCK FALSE` is said where the bounds, or the end of what is modelled, stop the system: no request left, no run left, the clock at its end, the stream over,
no output left, no reload left. Where drain mode can be switched at any time (`RunnerLocks`) deadlock is checked.

### What the code does not keep

Five runs end in a counterexample; each states what a doc or a comment says of the program, and `PROJECT.json` quotes the line.

| Run | Property | What happens |
|---|---|---|
| `RunnerStranded` | `NoneStranded` | a denied debounced run queues itself after the holder looked for the last time, and waits for a trigger that may never come |
| `RunnerEndless` | `ChainsEnd` | a debounced job in a cycle escapes the depth limit: its follow-up batch starts at depth 0 |
| `DebounceEarly` | `QuietFirst` | the late callback of an old timer deletes the entry of a newer one; the next trigger cannot stop that one, which fires in the middle of the window the trigger opened (`runner.go:166`, against `README.md:144`) |
| `TailEnd` | `EndMeansAll` | the end event is sent although bytes written just before the run ended were not |
| `StateReordered` | `SavedWhenQuiet` | two changes at once, and the older snapshot is saved last (with requests one at a time the property holds: `ServerRestarts`, and theorem `SavedOneByOne`) |

The models have more behaviours that a reader of the docs would not expect. They have no run of their own; each is found by
TLC when the formula is checked as an invariant, or as `[][...]_vars` where it has a prime, under the configuration named.

| Behaviour | Formula that fails | Configuration |
|---|---|---|
| A run that has read the drain flag starts after drain mode is on (`runner.go:328`, against `runner.go:230` "when on, no new runs start") | `draining /\ draining' => running' \subseteq running` | `RunnerLocks` |
| A trigger put back when the job was free again waits past `debounce_max` (`runner.go:334`, against `jobs.example.yml:53` "never delay a pending run past 15m") | `NoticedInTime` with `Note(job.name)` for every denied run in `TimedRequeue` | `DebounceWindow` |
| A denied batch of two goes back as one (`runner.go:336`) | `Owed(name)' < Owed(name) => Starts(name)` | `RunnerSteady` |
| The end of a group mate runs a batch whose timer counts (`runner.go:208`) | `timers[name] = "armed" /\ pending[name] > 0 /\ pending'[name] = 0 =>` some `At(t, "force")` for `name` | `RunnerSteady` |
| A batch taken just before drain mode is dropped (`runner.go:175`) | `disabled = {} /\ Owed(name) > 0 /\ Owed(name)' = 0 => Starts(name)` | `RunnerLocks` |
| A command outlives its server and runs beside its successor (`runner.go:397`) | at most one `proc[i].state = "alive"` | `ExecutionRecords` |
| A job that is running already cannot be canceled yet (`runner.go:378`) | `ex.pc \notin {"none", "release"} => cancelFn = ex.id` | `ExecutionRecords` |
| A timeout between the two reads of the switch is recorded as canceled, and no `on_failure` job runs (`runner.go:420`) | `i \in Readable /\ meta[i].status = "canceled" => i \in asked` | `ExecutionRecords` |
| A late timeout or Cancel hides an exit code 0 (`runner.go:418`) | `i \in Readable /\ meta[i].status \in {"timeout", "canceled"} => meta[i].exit # 0` | `ExecutionRecords` |
| A directory whose record was cut short is never pruned (`store.go:131`) | `At("clearCancel") =>` at most `KeepRuns` of `meta[i].at # "absent"` | `ExecutionRecords` |
| A failed log or final record leaves a run in state running (`runner.go:371`, `429`) | `RunningIsInFlight` without `~setting.diskFails` | `ExecutionRecords` |
| Bytes written between the two looks of `handleRun` are never shown (`web.go:516`) | `sent # << >> => sent[1] <= shown + 1` | `TailFollows` |
| The browser drops what follows a carriage return within a line, such as the output of a progress bar (`web.go:583`, against `web.go:548` "emits each complete line as a data event" and `web.go:601`) | `\A i \in Range(sent) : file[i] # Return => i \in added` | `TailFollows` |
| The stream of a run that was pruned between two ticks never ends (`web.go:610`) | `StreamEnds` without its last disjunct | `TailFollows` |
| Two reloads leave the configuration of one and the scheduler of the other (`web.go:83`) | `server = "up" /\ NoReload => builtFrom[schedp] = cfgp` | `ServerRestarts` |
| Two rotations leave one key in the file and the other in force (`web.go:61`) | `KeySavedWhenQuiet` | `StateReordered` |
| A crash while `state.json` is saved enables all other jobs (`store.go:249`) | a job no request in progress is about is in `Loaded(state)` iff in `disabled` | `ServerRestarts` |
| Runs with equal keys come out oldest first, though the list was newest first (`web.go:342`) | in `Listed(q, 1)` equal keys have falling ids | `JobPage` |
| A run is never shown to who follows the Next links, as the newest record was being rewritten (`web.go:371`) | `WalkSeesAll` with `Slipped(ids)` false | `JobPage` |

One divergence was seen outside the models: `handleMetrics` takes its gauges from `LastRun`, which is the run in flight while there is one (success 0, exit code 0) and the run before it while its record is being rewritten;
`web.go:693` says "last_* gauges are exact".

## Fairness

* Runner: weak fairness of every goroutine, of every timer that counts and of every callback: the Go
  scheduler runs what can run, and timers expire. A command is assumed to end in module `Runner`; module
  `Execution` shows under which condition it does. No request has to come; but `MaxRequests` makes them end, and
  `ChainsEnd` and `FollowUpRun` rest on that: `drainAfter` looks at its own job before the mates, so triggers of one job that never cease could keep a mate waiting. `SteadySpec` (`RunnerSteady`, `RunnerStranded`, `RunnerEndless`) leaves out
  reconfiguration, where triggers may be dropped by design.
* Debounce: none. `NoticedInTime` is a safety property because time passes only while nothing else can happen: goroutines are fast compared with a debounce window.
* Execution: weak fairness of the goroutine and of the timeout. None of the command: `TimeoutEnds` holds though it may
  never end by itself.
* LiveTail: weak fairness of the handler (its ticker ticks) and of the completion of a rewrite that has begun.
* JobPage: weak fairness of the walk of `chainDiagram`, which is a loop in one handler. None of runs or readers.
* Server: none; its properties are safety properties.

## Proofs

All theorems hold for every value of the constants that satisfies the named assumptions of the modules. Those assumptions are: names are not group markers and every
configuration satisfies `ValidConfig` (`RunnerAssumption`; `AcceptedIsValid` proves that `LoadConfig` accepts nothing else), counts and limits are numbers
and those that `LoadConfig` makes positive are positive, the set of goroutines at one time is finite where triggers are counted (`BatchesAssumption`),
and in `RuntimeState` the set of names is finite and not empty.

| Module | Theorems | Inductive invariant |
|---|---|---|
| `RunnerProofs` | `Typing`, `MutualExclusion`, `NoLockLeaks`, `ImplementsExclusiveRuns`; `DrainCloses` | `LockInv`; (`TypeOK`) |
| `DebounceProofs` | `TimedIsRunner`, `TimedExclusion`, `WindowTyping`; `CountedOnce`; `OwedTillStart`; `MaxHolds` | `WindowInv`; (`TypeOK` and the balance of a step); `SteadyInv`; `MaxInv` |
| `ExecutionProofs` | `ExecutionTyping`, `RunningRecords`, `Cancelable`, `CancelHits`, `Honesty`, `History`; `Bounded`, `Newest` | `ExecInv`; `Retention` |
| `TailProofs` | `TailTyping`, `Once`, `Complete`; `LogFaithful` | `TailInv`; `LogInv` |
| `ServerProofs` | `Scheduling`, `OthersStopped`, `OneScheduler`; `ServerTyping`, `SavedOneByOne`, `KeySavedOneByOne` | `SchedulerInv`; `StateInv`, `SavedInv` |
| `ConfigProofs` | `VerdictRight`, `AcceptedIsValid`, `LoadedDependable`, `ConfigTyping` | `LoadInv`, `FilledIn`, `ConfigTypeOK` |
| `PageProofs` | `EdgesEnd`, `ChainsComplete`, `NoOverlap`; `PageTyping`, `RowsInOrder`; `NothingMissed` | `WalkInv`; `PageInv`; `ReaderInv` |

Why the invariants are what they are:

* `LockInv == TypeOK /\ Exclusive /\ LocksHeld`. `Exclusive` alone is not inductive: that `Acquire` keeps it follows only if the maps are not
  missing the locks of anyone who executes, and that `Release` keeps `LocksHeld` follows only if nobody else owns what is freed, which is
  `Exclusive`. `TypeOK` contributes that a goroutine that executes has a job and, through `ValidConfig`, that the jobs a chain starts exist. All actions but
  `Acquire` and `Release` leave the locks and the set of executing goroutines alone; lemma `Quiet` covers them at once. The refinement maps `Acquire` to
  `Start`, `Release` to `Finish` and every other action to a stutter.
* `DrainCloses` goes through the actions: only `Request`, `Admit` and `DrainAfter` lead past a look at the flag, and whatever starts a run or takes from `pending` comes from a goroutine that was past it and leaves. `fireBatch` looks and takes
  in one critical section, so it takes nothing while the mode is on.
* `WindowInv` needs the typing of `Runner`, which `TimedIsRunner` brings over: an armed timer and a deadline come and go together only because both modules move in one step.
* `CountedOnce` needs no invariant but the typing: what a goroutine holds is counted as a set (`Held`), so the sum over goroutines is a cardinality, and `NextBalance` gives each action its balance
  (`Balanced`): nothing moves, one comes in with `pending`, a denied run puts back fewer than it held but not none, an execution starts, or the run is refused for a reason that `Refused` names.
* `SteadyInv` rules the reasons of `Refused` out while nobody reconfigures the server: jobs are those of the file, only debounced jobs have triggers, nothing is disabled or drained. `OwedTillStart` is then read off the balance.
* `MaxInv` says who will look at a trigger in `noticed` before its deadline (`Covered`): the timer of the entry, a timer that lost it, a callback, or a goroutine that runs the job or a mate of its group and will come to
  `drainAfter`. `NoticedInTime` is not inductive, as it is silent while a goroutine is under way. The entry's own times are not to be trusted after a callback deleted them (`Clocked` says what is left), which is why the first trigger counts and not `firstAt`.
* `ExecInv` ties the phases of `execute()` to who holds what (`Phases`), says that a killed process was killed by a context that is done (`Command`), where that context's state comes from
  (`Switches`), and that a verdict stays true from the exit of the command until it is in the record (`Verdicts`). `StatusHonest` alone says nothing of a status not yet written.
  `Fresh` gives that a new run finds neither record nor process under its number.
* `Retention` speaks of the middle of a prune: what is doomed has `KeepRuns` newer runs that will stay, and no more than that many will stay. It rests on two lemmas about counting,
  `OverCountLeaves` and `UnderCount`, which need the greatest or the least element of a set of runs: `Extremes` gets them from the well-foundedness of the natural numbers, without an induction.
* `TailInv` says that there is one position in the log, not before the end of what the page shows, that what was sent follows, and that the buffer goes on from there to the offset. `NothingRepeated`
  and `StreamComplete` are read off it; neither is inductive, as neither ties the buffer to what the page shows.
* `LogInv` names the part of the output that was passed on (`Passed`): the log is that part, stamped and cut, and one timestamp more if a line has begun of which no byte is there. Where a line begins in a piece depends on
  the piece before, so the property, which speaks of whole outputs, is not inductive. That a log cut once is the same as one cut at each piece (`CapAppends`) and that stamping goes piece by piece are lemmas about folds.
* `SchedulerInv` adds to the properties that no scheduler is in two hands (`OneHand`): one that some reload has made or taken out is not behind `schedp`, and no other reload has it.
* `SavedInv` follows the one request through its write: the snapshot is what is in force, and the file is empty when it is written. It is proved under `OneAtATime`, at most one handler;
  `StateReordered` shows that two break it. `StateInv` does without.
* `WalkInv` is the argument for breadth-first search: the queue is in the order of the columns, none of its nodes is more than a column behind any node, and only queued nodes are still to be followed (those at the depth limit aside). So nothing
  in the queue can be reached by a shorter way later, and once it is empty the first k columns are what k hops reach. `NoOverlap` is arithmetic, over the ranks of a column's names and the fullest column.
* `PageInv` adds to it that the records are in the order of their start and how many there are in each phase of a run (`RunInv`). The filter keeps that order; the insertion sort turns it into that of the query (`Ordered`).
* `ReaderInv` says of each run still to be shown that as many newer runs are listed as the pages so far have rows (`Unseen`): new runs and prunes of the oldest keep that, and on the last page it leaves no row for such a run. It holds only
  newest first, which is why a reader who follows another order is not promised anything.
* `LoadInv` says of each loop of `LoadConfig` what the jobs before the current one have passed, and what a refusal has seen.

TLC checks every property that a theorem states in the runs, too.

About induction. The prover cannot use the theorems of its library that take an operator, but a set does instead: `Extremes` derives from the well-foundedness of the natural numbers that a set with 0 and all successors has every number, and the
proofs apply this to the set of indices up to which a fold, or the recursive function `Within`, has done what it should. The list of `handleJob` (`Listed`) and its filter (`Filtered`) are written as folds for this reason,
as the code's loops are appends; the log's `Stamped` joins pieces with `FlattenSeq`, whose recursive function the lemmas about `Flat` unfold. What `Owed` adds up is a cardinality for the same reason.

Only model-checked: liveness. The prover has neither ENABLED nor fairness, so `ChainsEnd`, `FollowUpRun`, `TimeoutEnds`, `LinesArrive`, `StreamEnds` and `DiagramEnds` stay with TLC, as do the five runs that end in a
counterexample. Every safety property of the other runs is stated by a theorem.

## Not modelled

* Cron expressions and `NextRun`: those of robfig/cron. A tick is a request of module `Runner`, made with the Job that the entry copied; the detached cron jobs that may still be running after `Stop` are such requests.
* The dashboard, the list of jobs, the metrics and `handleRaw`: they read one lock or one file at a time and keep no state.
* The parsers of the file, of durations and of time zones, and the text, headers and transport of an e-mail.
* `keep_days` in `JobPage` (it is in `Execution`), and the paths of `os.RemoveAll` that leave a directory without its record: no list shows it, like one whose record was cut short.
* Durations as text, the progress bar, the sparkline, HTML and CSS.
* Errors of the writes of `state.json` and `apikey`, which the code ignores: what is in force is then not what a restart brings back. Errors of a write to the log are in `Execution` only, as a reason why cmd.Run reports an error.
* The authentication of requests: a request is one that was let through.

## Plan

Done: all modules of the table, the composition of reloads, requests and restarts, the composition of log writers and viewer, and the proofs.

What could come next:

1. A composition of `Runner` with the steps of `Execution`, for Cancel and the records of several jobs at once.
2. `handleMetrics` against a history that changes while it is read.
3. The safety half of the liveness properties, as theorems: that each step of `chainDiagram` and of a chain makes a measure smaller, which leaves only the fairness to TLC.
