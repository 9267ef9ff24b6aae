----------------------------- MODULE MCRunner -----------------------------
(* Small instances of Runner: the job files and the bounds of its runs.    *)
EXTENDS RunnerBatches

CONSTANTS a, b, g, t1, t2, t3

MCName == {a, b}
MCGroup == {g}
MCThread == {t1, t2, t3}

NoErrors == {"success", "failed"}
Success == {"success"}

J(name, group, debounce, onSuccess, onFailure) ==
  [name |-> name, group |-> group, debounce |-> debounce,
   onSuccess |-> onSuccess, onFailure |-> onFailure]

(* Two jobs of one group, a chain from the first to the second and from the  *)
(* second to itself, and a reload that drops the first and takes the second  *)
(* out of the group.                                                         *)
Reconfigured ==
  << <<J(a, g, TRUE, <<b>>, << >>), J(b, g, FALSE, << >>, <<b>>)>>,
     <<J(b, NoGroup, FALSE, << >>, <<b>>)>> >>

(* Two debounced jobs of one group.                                          *)
Grouped == << <<J(a, g, TRUE, << >>, << >>), J(b, g, TRUE, << >>, << >>)>> >>

(* A debounced job that chains to itself.                                    *)
DebouncedCycle == << <<J(a, NoGroup, TRUE, <<a>>, << >>)>> >>

=============================================================================
