------------------------------- MODULE MCQueue -------------------------------
(* Finite instances of StrategyQueue. *)
EXTENDS StrategyQueue, TLC

CONSTANTS s1, s2, w1, w2

TwoStrategies == {s1, s2}
TwoWorkers == {w1, w2}

\* A retried flush of the Gateway's local queue leaves a strategy in it twice.
Plain == {<<s1, s2>>}
Doubled == {<<s1, s2>>, <<s1, s1, s2>>}
=============================================================================
