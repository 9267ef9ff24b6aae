---------------------------- MODULE MCDebounce ----------------------------
(* A debounced job, and a mate of its group that chains to it.             *)
EXTENDS Debounce

CONSTANTS a, b, g, t1, t2, t3

MCName == {a, b}
MCGroup == {g}
MCThread == {t1, t2, t3}
Success == {"success"}
NoErrors == {"success", "failed"}

Burst ==
  << <<[name |-> a, group |-> g, debounce |-> TRUE, onSuccess |-> << >>, onFailure |-> << >>],
       [name |-> b, group |-> g, debounce |-> FALSE, onSuccess |-> <<a>>, onFailure |-> << >>]>> >>
=============================================================================
