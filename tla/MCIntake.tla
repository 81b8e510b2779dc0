------------------------------ MODULE MCIntake -------------------------------
(* Finite instances of StrategyIntake. *)
EXTENDS StrategyIntake, TLC

CONSTANTS x1, x2, w1, d1, d2

TwoSubmissions == {x1, x2}
OneWorker == {w1}
NoQueues == {<<>>}
SameDag == [x \in Strategy |-> d1]
OwnDag == [x \in Strategy |-> IF x = x1 THEN d1 ELSE d2]
=============================================================================
