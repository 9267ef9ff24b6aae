------------------------------- MODULE Config -------------------------------
(***************************************************************************)
(* LoadConfig (config.go): what becomes of a jobs file from its parsed     *)
(* text to a configuration the other components may rely on, or to the     *)
(* first error.                                                            *)
(***************************************************************************)
EXTENDS JobsFile

CONSTANTS
  Name,    (* job names: positions in their alphabetical order             *)
  Files    (* the parsed texts of the files to be loaded                   *)

NoName == 0

(* A duration is its text's verdict and its sign.                            *)
DurationText == {"absent", "bad", "negative", "zero", "positive"}
RunStatus == {"running", "success", "failed", "timeout", "canceled", "interrupted"}
Mailable == {"success", "failed", "timeout", "canceled"}

JobText ==
  [name : Name \cup {NoName}, command : BOOLEAN, timeout : DurationText,
   debounce : DurationText, debounceMax : DurationText,
   onSuccess : Seq(Name), onFailure : Seq(Name),
   keepRuns : Int, notify : {"absent", "true", "false"}]

(* complete: smtp_host, from and at least one to are there.                  *)
NotifyText == [given : BOOLEAN, complete : BOOLEAN, on : SUBSET (RunStatus \cup {"other"})]

FileText ==
  [timezone : {"absent", "known", "unknown"}, keepRuns : Int, maxLogBytes : Int,
   notify : NotifyText, jobs : Seq(JobText)]

ASSUME ConfigAssumption ==
  /\ Name \subseteq Nat \ {NoName}
  /\ Files \subseteq FileText

VARIABLES
  file,  (* the text                                                       *)
  c,     (* the Config under construction                                  *)
  load,  (* the statement of LoadConfig that is next, or its verdict       *)
  pos,   (* the job a loop is at                                           *)
  seen   (* the names of the jobs before it                                *)

configVars == <<file, c, load, pos, seen>>

ConfigInit ==
  /\ file \in Files /\ c = file
  /\ load = "defaults"
  /\ pos = 1 /\ seen = {}

Refuse == load' = "refused" /\ UNCHANGED <<file, c, pos, seen>>

-----------------------------------------------------------------------------
DefaultKeepRuns == 50
DefaultLogBytes == 20 * 1024 * 1024

(* Mutant: a count that is negative is kept. *)
OrDefaultIfZero(n, default) == IF n = 0 THEN default ELSE n

OrDefault(n, default) == IF n <= 0 THEN default ELSE n

Defaults ==
  /\ load = "defaults" /\ file.timezone # "unknown"
  /\ c' = [c EXCEPT !.keepRuns = OrDefault(@, DefaultKeepRuns),
                    !.maxLogBytes = OrDefault(@, DefaultLogBytes),
                    !.timezone = IF @ = "absent" THEN "known" ELSE @]
  /\ load' = "notify"
  /\ UNCHANGED <<file, pos, seen>>

UnknownZone ==
  /\ load = "defaults" /\ file.timezone = "unknown"
  /\ Refuse

(* The statuses a mail is sent for: failures, unless the file says which.    *)
MailsOn(n) == IF n.on = {} THEN {"failed", "timeout"} ELSE n.on

NotifyFaulty(n) == n.given /\ (~n.complete \/ ~(MailsOn(n) \subseteq Mailable))

CheckNotify ==
  /\ load = "notify" /\ ~NotifyFaulty(c.notify)
  /\ c' = IF c.notify.given THEN [c EXCEPT !.notify.on = MailsOn(c.notify)] ELSE c
  /\ load' = "jobs"
  /\ UNCHANGED <<file, pos, seen>>

BadNotify ==
  /\ load = "notify" /\ NotifyFaulty(c.notify)
  /\ Refuse

(* Faults a job has by itself.                                               *)
Faulty(j) ==
  \/ j.name = NoName
  \/ ~j.command
  \/ "bad" \in {j.timeout, j.debounce, j.debounceMax}

(* Mutant: the names are collected before the loop, in the loop of the chains*)
CheckJobUnseen ==
  /\ load = "jobs" /\ pos <= Len(c.jobs)
  /\ ~Faulty(c.jobs[pos])
  /\ seen' = seen \cup {c.jobs[pos].name} /\ pos' = pos + 1
  /\ UNCHANGED <<file, c, load>>

CheckJob ==
  /\ load = "jobs" /\ pos <= Len(c.jobs)
  /\ ~Faulty(c.jobs[pos]) /\ c.jobs[pos].name \notin seen
  /\ seen' = seen \cup {c.jobs[pos].name} /\ pos' = pos + 1
  /\ UNCHANGED <<file, c, load>>

BadJob ==
  /\ load = "jobs" /\ pos <= Len(c.jobs)
  /\ Faulty(c.jobs[pos]) \/ c.jobs[pos].name \in seen
  /\ Refuse

(* On to the chains, now that all names are known.                           *)
JobsDone ==
  /\ load = "jobs" /\ pos > Len(c.jobs)
  /\ load' = "chains" /\ pos' = 1
  /\ UNCHANGED <<file, c, seen>>

Chained(j) == j.onSuccess \o j.onFailure
Known(j) == \A k \in DOMAIN Chained(j) : Chained(j)[k] \in seen

CheckChains ==
  /\ load = "chains" /\ pos <= Len(c.jobs)
  /\ Known(c.jobs[pos])
  /\ pos' = pos + 1
  /\ UNCHANGED <<file, c, load, seen>>

UnknownChain ==
  /\ load = "chains" /\ pos <= Len(c.jobs)
  /\ ~Known(c.jobs[pos])
  /\ Refuse

Accept ==
  /\ load = "chains" /\ pos > Len(c.jobs)
  /\ load' = "accepted"
  /\ UNCHANGED <<file, c, pos, seen>>

Load ==
  \/ Defaults \/ UnknownZone \/ CheckNotify \/ BadNotify
  \/ CheckJob \/ BadJob \/ JobsDone \/ CheckChains \/ UnknownChain \/ Accept

ConfigSpec == ConfigInit /\ [][Load]_configVars

-----------------------------------------------------------------------------
(* What the other components ask of a configuration.                         *)

KeepRunsFor(job) == IF job.keepRuns > 0 THEN job.keepRuns ELSE c.keepRuns

ShouldNotify(job, status) ==
  c.notify.given /\ job.notify # "false" /\ status \in c.notify.on

-----------------------------------------------------------------------------
(* The text is left alone, and a job that was passed has a name.             *)
ConfigTypeOK ==
  /\ file \in Files /\ c \in FileText
  /\ load \in {"defaults", "notify", "jobs", "chains", "accepted", "refused"}
  /\ pos \in Nat \ {0} /\ pos <= Len(c.jobs) + 1
  /\ seen \subseteq Name
  /\ c.jobs = file.jobs

(* A file that has no fault, said of the text alone.                         *)
Sound(f) ==
  /\ f.timezone # "unknown"
  /\ ~NotifyFaulty(f.notify)
  /\ \A k \in DOMAIN f.jobs : ~Faulty(f.jobs[k])
  /\ ValidConfig(f.jobs)

(* A file is accepted exactly if it has no fault, wherever in the file and   *)
(* beside whatever other faults: with ValidConfig, what the Runner assumes   *)
(* of every configuration it is given.                                       *)
Verdict ==
  /\ load = "accepted" => Sound(file)
  /\ load = "refused" => ~Sound(file)

(* What the rest relies on: each job keeps at least one run (the prune of    *)
(* store.go would otherwise keep all), a log has a limit, and mails go out   *)
(* for failures unless the file says otherwise, never for a run that is      *)
(* still going on.                                                           *)
Dependable ==
  load = "accepted" =>
    /\ c.maxLogBytes > 0
    /\ \A k \in DOMAIN c.jobs :
         /\ KeepRunsFor(c.jobs[k]) > 0
         /\ ~ShouldNotify(c.jobs[k], "running")
         /\ file.notify.given /\ file.notify.on = {} /\ c.jobs[k].notify # "false" =>
              \A st \in RunStatus :
                ShouldNotify(c.jobs[k], st) <=> st \in {"failed", "timeout"}
=============================================================================
