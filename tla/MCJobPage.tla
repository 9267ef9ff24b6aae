----------------------------- MODULE MCJobPage -----------------------------
(* Jobs files: with every fault LoadConfig looks for, alone and in pairs;  *)
(* with chain graphs of five jobs; and one whose histories are browsed.    *)
EXTENDS JobPage

MCName == 1..5

Plain(name) ==
  [name |-> name, command |-> TRUE, timeout |-> "absent", debounce |-> "absent",
   debounceMax |-> "absent", onSuccess |-> << >>, onFailure |-> << >>,
   keepRuns |-> 0, notify |-> "absent"]

NoMail == [given |-> FALSE, complete |-> FALSE, on |-> {}]
Mail(on) == [given |-> TRUE, complete |-> TRUE, on |-> on]

Text(jobs) ==
  [timezone |-> "known", keepRuns |-> 0, maxLogBytes |-> 0, notify |-> NoMail, jobs |-> jobs]

OneJob ==
  {Plain(1), Plain(NoName), [Plain(1) EXCEPT !.command = FALSE],
   [Plain(2) EXCEPT !.timeout = "bad"], [Plain(2) EXCEPT !.debounce = "negative"],
   [Plain(1) EXCEPT !.debounceMax = "bad"],
   [Plain(2) EXCEPT !.onSuccess = <<1>>], [Plain(1) EXCEPT !.onFailure = <<1, 2>>],
   [Plain(2) EXCEPT !.notify = "false", !.keepRuns = -1],
   [Plain(2) EXCEPT !.notify = "true", !.keepRuns = 2]}

Faults ==
  {Text(<<x, y>>) : x, y \in OneJob}
  \cup {[Text(<<Plain(1), [Plain(2) EXCEPT !.notify = no]>>)
           EXCEPT !.timezone = zone, !.keepRuns = keep, !.maxLogBytes = keep, !.notify = n] :
         no \in {"absent", "false"}, zone \in {"absent", "known", "unknown"}, keep \in {-1, 0, 3},
         n \in {NoMail, [Mail({}) EXCEPT !.complete = FALSE], Mail({}), Mail({"success", "canceled"}),
                Mail({"failed", "other"}), Mail({"running"})}}

(* Chains that fork, meet again after different numbers of hops, loop, and   *)
(* are longer than MaxChainDepth.                                            *)
Graphs ==
  {Text([name \in 1..5 |->
           [Plain(name) EXCEPT !.onSuccess = <<first, second, third, fourth, fifth>>[name],
                               !.onFailure = IF name = 2 THEN failure ELSE << >>]]) :
     first \in {<< >>, <<2>>, <<3, 4>>}, second \in {<<3>>, <<5>>, <<1, 5>>},
     third \in {<< >>, <<2>>, <<4>>, <<5>>}, fourth \in {<< >>, <<1>>, <<2>>, <<4>>, <<5>>},
     fifth \in {<< >>, <<1>>, <<5>>}, failure \in {<< >>, <<1>>}}

Busy == [Text(<<[Plain(1) EXCEPT !.keepRuns = 3]>>) EXCEPT !.keepRuns = 2]

MCFiles == Faults \cup Graphs \cup {Busy}
MCBrowsed == {Busy}
MCEnding == {<<"success", 0>>, <<"timeout", -1>>}

Newest ==
  [status |-> {}, exit |-> {}, dmin |-> {}, dmax |-> {}, since |-> FALSE,
   sort |-> "started", dir |-> "desc"]

MCQueries ==
  {Newest, [Newest EXCEPT !.status = {"success"}], [Newest EXCEPT !.dmin = {1}],
   [Newest EXCEPT !.since = TRUE], [Newest EXCEPT !.dir = "asc", !.exit = {0}],
   [Newest EXCEPT !.sort = "status", !.dmax = {0}],
   [Newest EXCEPT !.sort = "duration", !.dir = "asc"]}
=============================================================================
