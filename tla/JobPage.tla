------------------------------ MODULE JobPage ------------------------------
(***************************************************************************)
(* A job's page (web.go handleJob): the chain graph, and the job's runs    *)
(* filtered, sorted and cut into pages, which somebody leafs through while *)
(* runs start, end and are pruned.                                         *)
(***************************************************************************)
EXTENDS ChainDiagram

CONSTANTS
  Browsed,      (* the files with whose jobs histories are browsed         *)
  Queries,      (* what the page is asked for                              *)
  RunsPerPage,  (* web.go:280, 25 in the code                              *)
  Ending,       (* how runs may end: status and exit code                  *)
  MaxRuns,      (* bounds the runs ever started                            *)
  MaxDur        (* bounds a duration, in seconds                           *)

Id == 1..MaxRuns
Dur == 0..MaxDur

ExitCode == {-1, 0, 1}

(* A filter that is set is a set of one value; since is set or not.          *)
Query ==
  [status : SUBSET RunStatus, exit : SUBSET ExitCode, dmin : SUBSET Dur, dmax : SUBSET Dur,
   since : BOOLEAN, sort : {"started", "status", "duration", "exit"}, dir : {"asc", "desc"}]

ASSUME JobPageAssumption ==
  /\ Browsed \subseteq Files
  /\ Queries \subseteq Query
  /\ Ending \subseteq (RunStatus \ {"running"}) \X ExitCode
  /\ RunsPerPage \in Nat \ {0} /\ MaxRuns \in Nat /\ MaxDur \in Nat

(* A run's ID is its start time.                                             *)
RunRecord == [id : Id, status : RunStatus, exit : ExitCode, dur : Dur]

VARIABLES
  runs,     (* the records, newest first                                   *)
  phase,    (* of the run in flight; torn is unreadable                    *)
  started,  (* runs ever started                                           *)
  cutoff,   (* what since amounted to when last asked                      *)
  view,     (* the page that was sent last: its query, number and pages    *)
  walk      (* history: the reader who came there by the Next links        *)

runVars == <<runs, phase, started>>
pageVars == <<cutoff, view, walk>>
vars == <<configVars, diagramVars, runVars, pageVars>>

NoView == [query |-> CHOOSE q \in Queries : TRUE, page |-> 1, pages |-> 1]

(* listed: the runs that matched at the last request; missed: those that did *)
(* at every request and that no page has shown so far.                       *)
NoWalk == [listed |-> {}, missed |-> {}]

Init ==
  /\ ConfigInit /\ DiagramInit
  /\ runs = << >> /\ phase = "idle" /\ started = 0
  /\ cutoff = 1 /\ view = NoView /\ walk = NoWalk

-----------------------------------------------------------------------------
(* The runs of the job, as module Execution shows them one by one.           *)

Browsing == draw = "drawn" /\ file \in Browsed

StartRun ==
  /\ Browsing /\ phase = "idle" /\ started < MaxRuns
  /\ started' = started + 1 /\ phase' = "running"
  /\ runs' = <<[id |-> started + 1, status |-> "running", exit |-> 0, dur |-> 0]>> \o runs
  /\ UNCHANGED <<configVars, diagramVars, pageVars>>

(* The duration of a run in flight is the time since its start.              *)
Grow ==
  /\ Browsing /\ phase = "running" /\ Head(runs).dur < MaxDur
  /\ runs' = [runs EXCEPT ![1].dur = @ + 1]
  /\ UNCHANGED <<configVars, diagramVars, phase, started, pageVars>>

(* Its record is emptied, and then written with how the run ended.           *)
OpenFinal ==
  /\ Browsing /\ phase = "running"
  /\ phase' = "torn"
  /\ UNCHANGED <<configVars, diagramVars, runs, started, pageVars>>

WriteFinal ==
  /\ Browsing /\ phase = "torn"
  /\ \E end \in Ending : runs' = [runs EXCEPT ![1].status = end[1], ![1].exit = end[2]]
  /\ phase' = "prune"
  /\ UNCHANGED <<configVars, diagramVars, started, pageVars>>

(* Mutant: the limit of the whole file is taken for the job's. *)
PruneByFile ==
  /\ Browsing /\ phase = "prune"
  /\ runs' = SubSeq(runs, 1, Min({Len(runs), c.keepRuns}))
  /\ phase' = "idle"
  /\ UNCHANGED <<configVars, diagramVars, started, pageVars>>

(* The prune, by what the configuration says of this job.                    *)
Prune ==
  /\ Browsing /\ phase = "prune"
  /\ runs' = SubSeq(runs, 1, Min({Len(runs), KeepRunsFor(JobNamed(focus))}))
  /\ phase' = "idle"
  /\ UNCHANGED <<configVars, diagramVars, started, pageVars>>

-----------------------------------------------------------------------------
(* One request.                                                              *)

ListRuns == IF phase = "torn" THEN Tail(runs) ELSE runs

Matches(r, q, cut) ==
  /\ \A st \in q.status : r.status = st
  /\ \A e \in q.exit : r.exit = e
  /\ \A d \in q.dmin : r.dur >= d
  /\ \A d \in q.dmax : r.dur <= d
  /\ q.since => r.id >= cut

(* Statuses compare as strings.                                              *)
Alphabetical == <<"canceled", "failed", "interrupted", "running", "success", "timeout">>

Key(r, q) ==
  CASE q.sort = "status"   -> CHOOSE k \in DOMAIN Alphabetical : Alphabetical[k] = r.status
    [] q.sort = "duration" -> r.dur
    [] q.sort = "exit"     -> r.exit
    [] OTHER               -> r.id

(* Mutant: only the key is compared. *)
LessByKey(x, y, q) == Key(x, q) < Key(y, q)

(* The function given to SliceStable: descending is the negation.            *)
Less(x, y, q) == IF q.dir = "desc" THEN ~(Key(x, q) < Key(y, q)) ELSE Key(x, q) < Key(y, q)

(* SliceStable sorts up to 20 elements by insertion: each moves left past    *)
(* those that it is less than, by that function.                             *)
Insert(s, x, q) ==
  LET k == Max({0} \cup {n \in DOMAIN s : ~Less(x, s[n], q)})
  IN SubSeq(s, 1, k) \o <<x>> \o SubSeq(s, k + 1, Len(s))

Filtered(q, cut) ==
  FoldLeft(LAMBDA s, r : IF Matches(r, q, cut) THEN Append(s, r) ELSE s, << >>, ListRuns)

Listed(q, cut) == FoldLeft(LAMBDA s, x : Insert(s, x, q), << >>, Filtered(q, cut))

(* Mutant: a last page that is not full is no page. *)
PagesFull(list) == Max({1, Len(list) \div RunsPerPage})

Pages(list) == Max({1, (Len(list) + RunsPerPage - 1) \div RunsPerPage})

PageOf(list, p) ==
  SubSeq(list, (p - 1) * RunsPerPage + 1, Min({Len(list), p * RunsPerPage}))

(* A page number below the first or beyond the last is that one.             *)
Clamped(p, list) == Max({1, Min({p, Pages(list)})})

IdsOf(s) == {r.id : r \in ToSet(s)}

NewestFirst(q) == q.sort = "started" /\ q.dir = "desc"

(* A run has slipped out of the list that an older one is still in: the rows *)
(* after it have moved up.                                                   *)
Slipped(ids) == \E m \in walk.listed \ ids, k \in ids \cap walk.listed : k < m

Shown(list, page) == IdsOf(PageOf(list, page))

(* Somebody comes to the page with a query, and without a page number or with*)
(* one beyond the last page.                                                 *)
Visit(q, p) ==
  /\ Browsing
  /\ \E cut \in 1..(started + 1) :
       /\ q.since \/ cut = 1
       /\ cutoff' = cut
       /\ LET list == Listed(q, cut)
              page == Clamped(p, list)
          IN /\ view' = [query |-> q, page |-> page, pages |-> Pages(list)]
             /\ walk' = IF page = 1 /\ NewestFirst(q)
                        THEN [listed |-> IdsOf(list), missed |-> IdsOf(list) \ Shown(list, 1)]
                        ELSE NoWalk
  /\ UNCHANGED <<configVars, diagramVars, runVars>>

(* And follows the Next link, which is there unless it is the last page.     *)
NextPage ==
  /\ Browsing /\ view.page < view.pages
  /\ \E cut \in cutoff..(started + 1) :
       /\ view.query.since \/ cut = 1
       /\ cutoff' = cut
       /\ LET list == Listed(view.query, cut)
              page == Clamped(view.page + 1, list)
          IN /\ view' = [view EXCEPT !.page = page, !.pages = Pages(list)]
             /\ walk' = IF Slipped(IdsOf(list)) THEN NoWalk
                        ELSE [listed |-> IdsOf(list),
                              missed |-> (walk.missed \cap IdsOf(list)) \ Shown(list, page)]
  /\ UNCHANGED <<configVars, diagramVars, runVars>>

LoadFile == Load /\ UNCHANGED <<diagramVars, runVars, pageVars>>
DrawChains == Draw /\ UNCHANGED <<configVars, runVars, pageVars>>

Next ==
  \/ LoadFile
  \/ DrawChains
  \/ StartRun \/ Grow \/ OpenFinal \/ WriteFinal \/ Prune
  \/ \E q \in Queries, p \in {0, MaxRuns} : Visit(q, p)
  \/ NextPage

(* The handler that draws is scheduled; nothing is assumed of anybody else.  *)
Spec == Init /\ [][Next]_vars /\ WF_vars(Walk /\ UNCHANGED <<configVars, runVars, pageVars>>)

-----------------------------------------------------------------------------
(* The newest record alone may be that of a run in flight, and when none is, *)
(* as many are kept as the configuration says, if there ever were so many.   *)
PageTypeOK ==
  /\ ConfigTypeOK
  /\ runs \in Seq(RunRecord) /\ started \in 0..MaxRuns
  /\ phase \in {"idle", "running", "torn", "prune"}
  /\ cutoff \in 1..(started + 1)
  /\ \A k \in DOMAIN runs :
       runs[k].status = "running" <=> (k = 1 /\ phase \in {"running", "torn"})
  /\ phase = "idle" /\ draw = "drawn" =>
       Len(runs) = Min({started, KeepRunsFor(JobNamed(focus))})

(* The runs are in the order the reader chose: by the key of the column, in  *)
(* its direction, for every query.                                           *)
InOrder ==
  \A q \in Queries :
    LET list == Listed(q, 1)
    IN \A k \in 1..(Len(list) - 1) :
         IF q.dir = "desc" THEN Key(list[k], q) >= Key(list[k + 1], q)
         ELSE Key(list[k], q) <= Key(list[k + 1], q)

(* Who follows the Next links through the runs, newest first, to the last    *)
(* page has been shown every run that was listed all the while: runs that    *)
(* start push the rows on, a prune takes the last ones, and neither hides a  *)
(* row.  A newer run that slips out of the list does: its record is being    *)
(* rewritten, or it no longer matches.                                       *)
WalkSeesAll == view.page = view.pages => walk.missed = {}
=============================================================================
