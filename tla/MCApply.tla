------------------------------- MODULE MCApply -------------------------------
(* Finite instances of ApplyFlow. *)
EXTENDS ApplyFlow, TLC

CONSTANTS s1, s2, r1, r2, p1

OneStrategy == {s1}
TwoStrategies == {s1, s2}
TwoRuns == {r1, r2}
LongOnly == {"long"}
NoPuts == {}
OnePut == {p1}

LiveOnly == {"live"}
LiveAndShadow == {"live", "shadow"}
NoDomain == {}

NoPosts == {}
AnyPosts == SUBSET Strategy

\* Where an await may raise: anywhere up to the rollback; ahead of the try
\* block, at the switch and in the unfreeze.
FailBeforeUndo == {"context", "requested"} \cup BodyPC
FailAround == {"requested", "switched", "unfreeze"}

\* Documents found in Redis: none yet, or one with an active entry for s1.
FreshDoc == {EmptyDoc}
UsedDoc ==
    {[version |-> 1,
      state |-> [k \in Key |->
        IF k[1] = s1 THEN [active |-> TRUE, frozen |-> FALSE, run |-> None, ver |-> 1]
        ELSE None]]}
=============================================================================
