---------------------------- MODULE ChainDiagram ----------------------------
(***************************************************************************)
(* The chain graph on a job's page (view.go chainDiagram): a breadth-first *)
(* walk from the job through what it chains to, the jobs that chain to it, *)
(* and a place for each box.                                               *)
(***************************************************************************)
EXTENDS Config, FiniteSetsExt, SequencesExt

CONSTANT MaxChainDepth

ASSUME DiagramAssumption == MaxChainDepth \in Nat

VARIABLES
  draw,   (* what chainDiagram does next                                   *)
  focus,  (* the name of the job whose page it is                          *)
  level,  (* the nodes, and the column of each                             *)
  queue,  (* nodes whose targets are still to be followed                  *)
  edges

diagramVars == <<draw, focus, level, queue, edges>>

DiagramInit ==
  /\ draw = "none" /\ focus = NoName
  /\ level = << >> /\ queue = << >> /\ edges = {}

Kinds == {"success", "failure"}
Targets(job, kind) == IF kind = "success" THEN job.onSuccess ELSE job.onFailure
Links(job, kind) == {<<job.name, t, kind>> : t \in ToSet(Targets(job, kind))}
JobNamed(name) == c.jobs[CHOOSE k \in DOMAIN c.jobs : c.jobs[k].name = name]

-----------------------------------------------------------------------------
(* handleJob shows a job the configuration defines.                          *)
Open ==
  /\ load = "accepted" /\ draw = "none"
  /\ \E name \in NamesOf(c.jobs) :
       /\ focus' = name
       /\ level' = [n \in {name} |-> 0] /\ queue' = <<name>>
  /\ draw' = "walk"
  /\ UNCHANGED edges

(* Nodes that are not there yet are placed in column l.                      *)
Placed(levels, nodes, l) ==
  [n \in DOMAIN levels \cup nodes |-> IF n \in DOMAIN levels THEN levels[n] ELSE l]

(* Mutant: the walk is depth first. *)
DiscoverDeep(from, job) ==
  FoldLeft(LAMBDA acc, t :
             IF t \in DOMAIN acc.level THEN acc
             ELSE [level |-> Placed(acc.level, {t}, level[from] + 1),
                   queue |-> <<t>> \o acc.queue],
           [level |-> level, queue |-> Tail(queue)],
           Chained(job))

(* The targets that are new become nodes of the next column, and join the    *)
(* queue in the order listed.                                                *)
Discover(from, job) ==
  FoldLeft(LAMBDA acc, t :
             IF t \in DOMAIN acc.level THEN acc
             ELSE [level |-> Placed(acc.level, {t}, level[from] + 1),
                   queue |-> Append(acc.queue, t)],
           [level |-> level, queue |-> Tail(queue)],
           Chained(job))

Follow ==
  /\ draw = "walk" /\ queue # << >>
  /\ level[Head(queue)] < MaxChainDepth
  /\ LET job == JobNamed(Head(queue))
         found == Discover(job.name, job)
     IN /\ level' = found.level /\ queue' = found.queue
        /\ edges' = edges \cup UNION {Links(job, kind) : kind \in Kinds}
  /\ UNCHANGED <<draw, focus>>

(* Mutant: the depth is looked at before the node leaves the queue. *)
TooDeepKept ==
  /\ draw = "walk" /\ queue # << >>
  /\ level[Head(queue)] >= MaxChainDepth
  /\ UNCHANGED <<draw, focus, level, queue, edges>>

TooDeep ==
  /\ draw = "walk" /\ queue # << >>
  /\ level[Head(queue)] >= MaxChainDepth
  /\ queue' = Tail(queue)
  /\ UNCHANGED <<draw, focus, level, edges>>

Parents == {job \in ToSet(c.jobs) : focus \in ToSet(Chained(job))}

(* Mutant: a parent whose only link the walk has drawn is left out. *)
UpstreamEdgesOnly ==
  /\ draw = "walk" /\ queue = << >>
  /\ edges' = edges \cup
       {e \in UNION {Links(job, kind) : job \in Parents, kind \in Kinds} : e[2] = focus}
  /\ draw' = "drawn"
  /\ UNCHANGED <<focus, level, queue>>

(* The jobs that chain to the focus; those the walk has not found take a     *)
(* column on the left.                                                       *)
Upstream ==
  /\ draw = "walk" /\ queue = << >>
  /\ level' = Placed(level, {job.name : job \in Parents}, -1)
  /\ edges' = edges \cup
       {e \in UNION {Links(job, kind) : job \in Parents, kind \in Kinds} : e[2] = focus}
  /\ draw' = "drawn"
  /\ UNCHANGED <<focus, queue>>

Walk == Follow \/ TooDeep \/ Upstream
Draw == Open \/ Walk

-----------------------------------------------------------------------------
(* The boxes, in pixels.                                                     *)
BoxW == 150
BoxH == 36
ColGap == 70
RowGap == 22
Pad == 12

Node == DOMAIN level
Column(l) == {n \in Node : level[n] = l}
Leftmost == Min({0} \cup {level[n] : n \in Node})
Rightmost == Max({0} \cup {level[n] : n \in Node})
MaxRows == Max({Cardinality(Column(level[n])) : n \in Node})

(* A column of boxes, with the gaps between them.                            *)
Stacked(count) == count * BoxH + Max({0, count - 1}) * RowGap
Width == 2 * Pad + (Rightmost - Leftmost + 1) * BoxW + (Rightmost - Leftmost) * ColGap
Height == 2 * Pad + Stacked(MaxRows)

(* Mutant: columns are counted from the focus. *)
XOfFocus(n) == Pad + level[n] * (BoxW + ColGap)

(* Columns from the left; in each the boxes in the order of their names,     *)
(* centred.                                                                  *)
XOf(n) == Pad + (level[n] - Leftmost) * (BoxW + ColGap)
Row(n) == Cardinality({m \in Column(level[n]) : m < n})
YOf(n) ==
  Pad + (Height - 2 * Pad - Stacked(Cardinality(Column(level[n])))) \div 2
    + Row(n) * (BoxH + RowGap)

-----------------------------------------------------------------------------
(* Every edge that is drawn has both its nodes (the code dereferences them), *)
(* also while the walk is going on.                                          *)
EdgesHaveEnds == \A e \in edges : {e[1], e[2]} \subseteq Node

(* The jobs the Runner's chain() may reach from the focus within k hops.     *)
Within[k \in 0..MaxChainDepth] ==
  IF k = 0 THEN {focus}
  ELSE Within[k - 1] \cup UNION {ToSet(Chained(JobNamed(n))) : n \in Within[k - 1]}

(* view.go:168 "the full downstream chain": whatever the cycles, the walk    *)
(* ends with every job that a run of the focus may start through chains, in  *)
(* the column of its least number of hops, and with every link that such a   *)
(* run may take; left of the focus are jobs that chain to it and that it     *)
(* does not reach.                                                           *)
ChainsShown ==
  draw = "drawn" =>
    /\ \A k \in 0..MaxChainDepth : {n \in Node : level[n] \in 0..k} = Within[k]
    /\ Column(-1) = {job.name : job \in Parents} \ Within[MaxChainDepth]
    /\ MaxChainDepth > 0 =>
         \A n \in Within[MaxChainDepth - 1], kind \in Kinds :
           Links(JobNamed(n), kind) \subseteq edges

(* No two boxes overlap, and each is inside the picture.                     *)
BoxesApart ==
  draw = "drawn" =>
    \A m, n \in Node :
      /\ XOf(n) >= Pad /\ XOf(n) + BoxW <= Width - Pad
      /\ YOf(n) >= Pad /\ YOf(n) + BoxH <= Height - Pad
      /\ m # n /\ XOf(m) = XOf(n) => YOf(m) >= YOf(n) + BoxH \/ YOf(n) >= YOf(m) + BoxH

(* A picture that is begun is finished, on cyclic graphs too.                *)
DiagramEnds == draw = "walk" ~> draw = "drawn"
=============================================================================
