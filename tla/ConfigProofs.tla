---------------------------- MODULE ConfigProofs ----------------------------
(***************************************************************************)
(* Proofs about LoadConfig, for every set of files: a file is accepted     *)
(* only if it has no fault and refused only if it has one.                 *)
(***************************************************************************)
EXTENDS Config, SequenceTheorems, TLAPS

-----------------------------------------------------------------------------
(* The first n jobs have passed the loop over the jobs ...                   *)
Passed(n) ==
  /\ \A k \in 1..n : ~Faulty(file.jobs[k])
  /\ \A i, k \in 1..n : file.jobs[i].name = file.jobs[k].name => i = k
  /\ seen = {file.jobs[k].name : k \in 1..n}

(* ... and the first n the loop over the chains.                             *)
Linked(n) == \A k \in 1..n : Known(file.jobs[k])

(* What LoadConfig knows of the file at each of its statements.              *)
LoadInv ==
  /\ file \in FileText /\ pos \in Nat \ {0}
  /\ c.jobs = file.jobs
  /\ load \in {"defaults", "notify", "jobs", "chains", "accepted", "refused"}
  /\ load \in {"defaults", "notify"} => c.notify = file.notify
  /\ load \in {"defaults", "notify"} => pos = 1 /\ seen = {}
  /\ load \in {"notify", "jobs", "chains", "accepted"} => file.timezone # "unknown"
  /\ load \in {"jobs", "chains", "accepted"} => ~NotifyFaulty(file.notify)
  /\ load = "jobs" => pos <= Len(file.jobs) + 1 /\ Passed(pos - 1)
  /\ load \in {"chains", "accepted"} => Passed(Len(file.jobs))
  /\ load = "chains" => pos <= Len(file.jobs) + 1 /\ Linked(pos - 1)
  /\ load = "accepted" => Linked(Len(file.jobs))
  /\ load = "refused" => ~Sound(file)

-----------------------------------------------------------------------------
(* The jobs of a file, and the two lists of a job.                           *)
LEMMA JobsType ==
  ASSUME file \in FileText
  PROVE  /\ file.jobs \in Seq(JobText)
         /\ Len(file.jobs) \in Nat
         /\ DOMAIN file.jobs = 1..Len(file.jobs)
         /\ \A k \in DOMAIN file.jobs : file.jobs[k] \in JobText
BY DEF FileText

(* A job whose chains are known has no name in either list that is not seen. *)
LEMMA KnownLists ==
  ASSUME NEW j \in JobText
  PROVE  Known(j) <=> \A seq \in {j.onSuccess, j.onFailure} :
                        \A k \in DOMAIN seq : seq[k] \in seen
<1>. DEFINE s == j.onSuccess
            t == j.onFailure
<1>1. s \in Seq(Name) /\ t \in Seq(Name)
  BY DEF JobText
<1>2. /\ Len(s) \in Nat /\ DOMAIN s = 1..Len(s)
      /\ Len(t) \in Nat /\ DOMAIN t = 1..Len(t)
  BY <1>1
<1>. HIDE DEF s, t
<1>3. /\ DOMAIN (s \o t) = 1..(Len(s) + Len(t))
      /\ \A k \in 1..(Len(s) + Len(t)) :
           (s \o t)[k] = IF k <= Len(s) THEN s[k] ELSE t[k - Len(s)]
  <2>1. /\ s \o t \in Seq(Name)
        /\ Len(s \o t) = Len(s) + Len(t)
        /\ \A k \in 1..(Len(s) + Len(t)) :
             (s \o t)[k] = IF k <= Len(s) THEN s[k] ELSE t[k - Len(s)]
    BY <1>1, ConcatProperties, Zenon
  <2>2. DOMAIN (s \o t) = 1..Len(s \o t)
    BY <2>1, LenProperties, Zenon
  <2>. QED
    BY <2>1, <2>2
<1>4. ASSUME \A k \in DOMAIN (s \o t) : (s \o t)[k] \in seen
      PROVE  /\ \A k \in DOMAIN s : s[k] \in seen
             /\ \A k \in DOMAIN t : t[k] \in seen
  <2>1. ASSUME NEW k \in DOMAIN s PROVE s[k] \in seen
    <3>1. k \in 1..(Len(s) + Len(t)) /\ k <= Len(s)
      BY <1>2
    <3>. QED
      BY <1>3, <1>4, <3>1
  <2>2. ASSUME NEW k \in DOMAIN t PROVE t[k] \in seen
    <3>. DEFINE n == Len(s) + k
    <3>1. n \in 1..(Len(s) + Len(t)) /\ ~(n <= Len(s)) /\ n - Len(s) = k
      BY <1>2
    <3>. HIDE DEF n
    <3>. QED
      BY <1>3, <1>4, <3>1
  <2>. QED
    BY <2>1, <2>2
<1>5. ASSUME \A k \in DOMAIN s : s[k] \in seen, \A k \in DOMAIN t : t[k] \in seen,
             NEW k \in DOMAIN (s \o t)
      PROVE  (s \o t)[k] \in seen
  <2>1. k \in 1..(Len(s) + Len(t))
    BY <1>3
  <2>2. CASE k <= Len(s)
    BY <1>2, <1>3, <1>5, <2>1, <2>2
  <2>3. CASE ~(k <= Len(s))
    <3>1. k - Len(s) \in DOMAIN t
      BY <1>2, <2>1, <2>3
    <3>. QED
      BY <1>3, <1>5, <2>1, <2>3, <3>1
  <2>. QED
    BY <2>2, <2>3
<1>6. Known(j) <=> \A k \in DOMAIN (s \o t) : (s \o t)[k] \in seen
  BY DEF Known, Chained, s, t
<1>. QED
  BY <1>4, <1>5, <1>6 DEF s, t

(* Jobs that have passed both loops are a valid configuration, and only they.*)
LEMMA LoopsValidate ==
  ASSUME file \in FileText, Passed(Len(file.jobs))
  PROVE  ValidConfig(file.jobs) <=> Linked(Len(file.jobs))
<1>1. seen = NamesOf(file.jobs)
  BY JobsType DEF Passed, NamesOf
<1>. QED
  BY <1>1, JobsType, KnownLists DEF Passed, ValidConfig, Linked

-----------------------------------------------------------------------------
LEMMA InitLoad == ConfigInit => LoadInv
BY ConfigAssumption DEF ConfigInit, LoadInv, ConfigAssumption

(* The refusals: each finds a fault that the text has.                       *)
LEMMA RefusalsRight ==
  ASSUME LoadInv, UnknownZone \/ BadNotify \/ BadJob \/ UnknownChain
  PROVE  LoadInv'
<1>1. ~Sound(file)
  <2>1. CASE UnknownZone
    BY <2>1 DEF UnknownZone, Sound
  <2>2. CASE BadNotify
    BY <2>2 DEF BadNotify, Sound, LoadInv
  <2>3. CASE BadJob
    <3>1. pos \in DOMAIN file.jobs /\ Passed(pos - 1)
      BY <2>3, JobsType DEF BadJob, LoadInv
    <3>2. CASE Faulty(file.jobs[pos])
      BY <3>1, <3>2 DEF Sound
    <3>3. CASE file.jobs[pos].name \in seen
      <4>1. PICK k \in 1..(pos - 1) : file.jobs[k].name = file.jobs[pos].name
        BY <3>1, <3>3 DEF Passed
      <4>2. k \in DOMAIN file.jobs /\ k # pos
        BY <3>1, <4>1, JobsType DEF LoadInv
      <4>. QED
        BY <3>1, <4>1, <4>2 DEF Sound, ValidConfig
    <3>. QED
      BY <2>3, <3>2, <3>3 DEF BadJob, LoadInv
  <2>4. CASE UnknownChain
    <3>1. pos \in 1..Len(file.jobs) /\ ~Known(file.jobs[pos]) /\ Passed(Len(file.jobs))
      BY <2>4, JobsType DEF UnknownChain, LoadInv
    <3>. QED
      BY <3>1, LoopsValidate DEF Sound, Linked, LoadInv
  <2>. QED
    BY <2>1, <2>2, <2>3, <2>4
<1>2. load' = "refused" /\ UNCHANGED <<file, c, pos, seen>>
  BY DEF UnknownZone, BadNotify, BadJob, UnknownChain, Refuse
<1>3. ~Sound(file')
  BY <1>1, <1>2
<1>. QED
  BY <1>2, <1>3 DEF LoadInv

(* The statements before the loops.                                          *)
LEMMA PreludeLoad ==
  ASSUME LoadInv, Defaults \/ CheckNotify
  PROVE  LoadInv'
<1>1. CASE Defaults
  BY <1>1 DEF Defaults, LoadInv
<1>2. CASE CheckNotify
  <2>1. Passed(0)
    BY <1>2 DEF CheckNotify, LoadInv, Passed
  <2>. QED
    BY <1>2, <2>1, JobsType DEF CheckNotify, LoadInv, Passed
<1>. QED
  BY <1>1, <1>2

(* The loop over the jobs.                                                   *)
LEMMA JobsLoop ==
  ASSUME LoadInv, CheckJob \/ JobsDone
  PROVE  LoadInv'
<1>1. CASE CheckJob
  <2>1. pos \in 1..Len(file.jobs) /\ Passed(pos - 1)
    BY <1>1, JobsType DEF CheckJob, LoadInv
  <2>2. 1..pos = 1..(pos - 1) \cup {pos}
    BY <2>1
  <2>3. ~Faulty(file.jobs[pos]) /\ file.jobs[pos].name \notin seen
    BY <1>1 DEF CheckJob, LoadInv
  <2>4. seen' = {file.jobs[k].name : k \in 1..pos}
    BY <1>1, <2>1, <2>2 DEF CheckJob, LoadInv, Passed
  <2>5. \A i, k \in 1..pos : file.jobs[i].name = file.jobs[k].name => i = k
    BY <2>1, <2>2, <2>3 DEF Passed
  <2>6. pos' = pos + 1 /\ pos' - 1 = pos /\ UNCHANGED <<file, c, load>> /\ load = "jobs"
    BY <1>1 DEF CheckJob, LoadInv
  <2>7. Passed(pos - 1)'
    BY <2>1, <2>2, <2>3, <2>4, <2>5, <2>6 DEF Passed
  <2>. QED
    BY <2>1, <2>6, <2>7, JobsType DEF LoadInv
<1>2. CASE JobsDone
  <2>1. pos - 1 = Len(file.jobs) /\ Passed(Len(file.jobs))
    BY <1>2, JobsType DEF JobsDone, LoadInv
  <2>2. load' = "chains" /\ pos' = 1 /\ UNCHANGED <<file, c, seen>>
    BY <1>2 DEF JobsDone
  <2>3. Passed(Len(file.jobs))' /\ Linked(pos - 1)'
    BY <2>1, <2>2 DEF Passed, Linked
  <2>. QED
    BY <1>2, <2>2, <2>3, JobsType DEF JobsDone, LoadInv
<1>. QED
  BY <1>1, <1>2

(* The loop over the chains.                                                 *)
LEMMA ChainsLoop ==
  ASSUME LoadInv, CheckChains \/ Accept
  PROVE  LoadInv'
<1>1. Passed(Len(file.jobs))'
  <2>1. load = "chains" /\ UNCHANGED <<file, seen>>
    BY DEF CheckChains, Accept
  <2>. QED
    BY <2>1 DEF LoadInv, Passed
<1>2. CASE CheckChains
  <2>1. pos \in 1..Len(file.jobs) /\ Linked(pos - 1) /\ Known(file.jobs[pos])
    BY <1>2, JobsType DEF CheckChains, LoadInv
  <2>2. pos' = pos + 1 /\ pos' - 1 = pos /\ UNCHANGED <<file, c, load, seen>>
    BY <1>2 DEF CheckChains, LoadInv
  <2>3. \A k \in 1..pos : Known(file.jobs[k])
    BY <2>1 DEF Linked
  <2>4. Linked(pos - 1)'
    BY <2>2, <2>3 DEF Linked, Known
  <2>. QED
    BY <1>1, <1>2, <2>1, <2>2, <2>4, JobsType DEF CheckChains, LoadInv
<1>3. CASE Accept
  <2>1. Linked(Len(file.jobs))'
    <3>1. pos - 1 = Len(file.jobs) /\ Linked(Len(file.jobs))
      BY <1>3, JobsType DEF Accept, LoadInv
    <3>. QED
      BY <1>3, <3>1 DEF Accept, Linked, Known
  <2>. QED
    BY <1>1, <1>3, <2>1 DEF Accept, LoadInv
<1>. QED
  BY <1>2, <1>3

LEMMA NextLoad == LoadInv /\ [Load]_configVars => LoadInv'
<1>. SUFFICES ASSUME LoadInv, [Load]_configVars PROVE LoadInv'
  OBVIOUS
<1>1. CASE UNCHANGED configVars
  BY <1>1 DEF configVars, LoadInv, Passed, Linked, Known
<1>. QED
  BY <1>1, RefusalsRight, PreludeLoad, JobsLoop, ChainsLoop DEF Load

(* What the loops found is what Sound says of the text.                      *)
LEMMA LoadDecides == LoadInv => Verdict
<1>. SUFFICES ASSUME LoadInv, load = "accepted" PROVE Sound(file)
  BY DEF Verdict, LoadInv
<1>1. ValidConfig(file.jobs)
  BY LoopsValidate DEF LoadInv
<1>. QED
  BY <1>1, JobsType DEF LoadInv, Sound, Passed

(* Whatever files there are, LoadConfig accepts exactly the sound ones.      *)
THEOREM VerdictRight == ConfigSpec => []Verdict
BY InitLoad, NextLoad, LoadDecides, PTL DEF ConfigSpec

(* An accepted configuration is one the Runner may assume: no two jobs of a  *)
(* name and no chain to a job that is not there.                             *)
THEOREM AcceptedIsValid == ConfigSpec => [](load = "accepted" => ValidConfig(c.jobs))
<1>1. LoadInv => (load = "accepted" => ValidConfig(c.jobs))
  BY LoopsValidate DEF LoadInv
<1>. QED
  BY <1>1, InitLoad, NextLoad, PTL DEF ConfigSpec

-----------------------------------------------------------------------------
(* The values that LoadConfig fills in.                                      *)
FilledIn ==
  /\ c \in FileText
  /\ load \in {"notify", "jobs", "chains", "accepted"} => c.keepRuns > 0 /\ c.maxLogBytes > 0
  /\ load \in {"jobs", "chains", "accepted"} =>
       /\ c.notify.given = file.notify.given
       /\ file.notify.given => c.notify.on = MailsOn(file.notify)

LEMMA DefaultType ==
  ASSUME NEW n \in Int
  PROVE  /\ OrDefault(n, DefaultKeepRuns) \in Int /\ OrDefault(n, DefaultKeepRuns) > 0
         /\ OrDefault(n, DefaultLogBytes) \in Int /\ OrDefault(n, DefaultLogBytes) > 0
<1>1. DefaultLogBytes = 20971520
  BY DEF DefaultLogBytes
<1>. QED
  BY <1>1 DEF OrDefault, DefaultKeepRuns

LEMMA FillsIn ==
  ASSUME LoadInv, FilledIn, [Load]_configVars
  PROVE  FilledIn'
<1>1. CASE Defaults
  <2>1. c.keepRuns \in Int /\ c.maxLogBytes \in Int
    BY DEF FilledIn, FileText
  <2>. QED
    BY <1>1, <2>1, DefaultType DEF Defaults, FilledIn, FileText
<1>2. CASE CheckNotify
  <2>1. /\ c.notify = file.notify /\ c.notify \in NotifyText
        /\ c.keepRuns > 0 /\ c.maxLogBytes > 0
    BY <1>2 DEF CheckNotify, LoadInv, FilledIn, FileText
  <2>2. MailsOn(c.notify) \in SUBSET (RunStatus \cup {"other"})
    BY <2>1 DEF MailsOn, NotifyText, RunStatus
  <2>3. [c.notify EXCEPT !.on = MailsOn(c.notify)] \in NotifyText
    BY <2>1, <2>2 DEF NotifyText
  <2>4. c' \in FileText
    BY <1>2, <2>3 DEF CheckNotify, FilledIn, FileText
  <2>5. /\ c'.keepRuns = c.keepRuns /\ c'.maxLogBytes = c.maxLogBytes
        /\ c'.notify.given = c.notify.given
        /\ c.notify.given => c'.notify.on = MailsOn(c.notify)
    BY <1>2, <2>1 DEF CheckNotify, FilledIn, FileText, NotifyText
  <2>. QED
    BY <1>2, <2>1, <2>4, <2>5 DEF CheckNotify, FilledIn
<1>3. CASE UnknownZone \/ BadNotify \/ BadJob \/ UnknownChain
  BY <1>3 DEF UnknownZone, BadNotify, BadJob, UnknownChain, Refuse, FilledIn
<1>4. CASE CheckJob \/ JobsDone \/ CheckChains \/ Accept
  BY <1>4 DEF CheckJob, JobsDone, CheckChains, Accept, FilledIn
<1>5. CASE UNCHANGED configVars
  BY <1>5 DEF configVars, FilledIn
<1>. QED
  BY <1>1, <1>2, <1>3, <1>4, <1>5 DEF Load

LEMMA FilledDependable ==
  ASSUME LoadInv, FilledIn
  PROVE  Dependable
<1>. SUFFICES ASSUME load = "accepted", NEW k \in DOMAIN c.jobs
              PROVE  /\ c.maxLogBytes > 0
                     /\ KeepRunsFor(c.jobs[k]) > 0
                     /\ ~ShouldNotify(c.jobs[k], "running")
                     /\ file.notify.given /\ file.notify.on = {} /\ c.jobs[k].notify # "false" =>
                          \A st \in RunStatus :
                            ShouldNotify(c.jobs[k], st) <=> st \in {"failed", "timeout"}
  BY DEF Dependable, FilledIn
<1>1. c.jobs[k] \in JobText
  BY JobsType DEF LoadInv
<1>2. KeepRunsFor(c.jobs[k]) > 0
  BY <1>1 DEF FilledIn, KeepRunsFor, JobText
<1>3. ~ShouldNotify(c.jobs[k], "running")
  BY DEF FilledIn, LoadInv, ShouldNotify, NotifyFaulty, Mailable
<1>4. file.notify.given /\ file.notify.on = {} /\ c.jobs[k].notify # "false" =>
        \A st \in RunStatus : ShouldNotify(c.jobs[k], st) <=> st \in {"failed", "timeout"}
  BY DEF FilledIn, ShouldNotify, MailsOn
<1>. QED
  BY <1>2, <1>3, <1>4 DEF FilledIn

(* Whatever a file leaves out or gets wrong in its counts, what is loaded    *)
(* keeps at least one run of each job, limits its logs, and mails failures.  *)
THEOREM LoadedDependable == ConfigSpec => []Dependable
<1>1. ConfigInit => FilledIn
  BY ConfigAssumption DEF ConfigInit, FilledIn, ConfigAssumption
<1>. QED
  BY <1>1, InitLoad, NextLoad, FillsIn, FilledDependable, PTL DEF ConfigSpec

-----------------------------------------------------------------------------
LEMMA TypesLoad ==
  ASSUME LoadInv, FilledIn, ConfigTypeOK, [Load]_configVars
  PROVE  ConfigTypeOK'
<1>1. LoadInv' /\ FilledIn'
  BY NextLoad, FillsIn
<1>2. file' = file /\ c'.jobs = c.jobs
  <2>1. file' = file
    BY DEF Load, Defaults, UnknownZone, CheckNotify, BadNotify, CheckJob, BadJob, JobsDone,
           CheckChains, UnknownChain, Accept, Refuse, configVars
  <2>. QED
    BY <1>1, <2>1 DEF LoadInv
<1>3. Len(c.jobs) \in Nat /\ \A k \in 1..Len(c.jobs) : c.jobs[k] \in JobText
  BY JobsType DEF LoadInv
<1>4. CASE CheckJob
  <2>1. pos \in 1..Len(c.jobs) /\ ~Faulty(c.jobs[pos])
    BY <1>3, <1>4 DEF CheckJob, LoadInv
  <2>2. c.jobs[pos].name \in Name
    BY <1>3, <2>1 DEF Faulty, JobText
  <2>3. pos' <= Len(c'.jobs) + 1 /\ seen' \subseteq Name
    BY <1>2, <1>3, <1>4, <2>1, <2>2 DEF CheckJob, ConfigTypeOK
  <2>. QED
    BY <1>1, <1>2, <2>3 DEF LoadInv, FilledIn, ConfigTypeOK
<1>5. CASE CheckChains \/ JobsDone
  <2>1. pos' <= Len(c'.jobs) + 1 /\ seen' = seen
    BY <1>2, <1>3, <1>5 DEF CheckChains, JobsDone, LoadInv
  <2>. QED
    BY <1>1, <1>2, <2>1 DEF LoadInv, FilledIn, ConfigTypeOK
<1>6. CASE \/ Defaults \/ UnknownZone \/ CheckNotify \/ BadNotify \/ BadJob \/ UnknownChain
           \/ Accept \/ UNCHANGED configVars
  <2>1. pos' = pos /\ seen' = seen
    BY <1>6 DEF Defaults, UnknownZone, CheckNotify, BadNotify, BadJob, UnknownChain,
                Accept, Refuse, configVars
  <2>. QED
    BY <1>1, <1>2, <2>1 DEF LoadInv, FilledIn, ConfigTypeOK
<1>. QED
  BY <1>4, <1>5, <1>6 DEF Load

(* The loader's variables at their types, for every set of files.            *)
LEMMA InitTypes == ConfigInit => FilledIn /\ ConfigTypeOK
BY ConfigAssumption, JobsType DEF ConfigInit, FilledIn, ConfigTypeOK, ConfigAssumption

(* LoadConfig leaves the text alone, never looks past the jobs, and takes    *)
(* for known only names that a job may have.                                 *)
THEOREM ConfigTyping == ConfigSpec => []ConfigTypeOK
BY InitLoad, NextLoad, InitTypes, FillsIn, TypesLoad, PTL DEF ConfigSpec
=============================================================================
