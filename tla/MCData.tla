-------------------------------- MODULE MCData -------------------------------
(* Finite instances of three parts of the data path of the SDK: the arithmetic on *)
(* ranges, the backfills of two processes over one table, and the gates an answer *)
(* passes.  A behaviour is of one part; part says which.  The ranges take no step: *)
(* every input is an initial state.                                              *)
EXTENDS RangeChecks, SeamlessBackfill, DomainGate

CONSTANTS p1, p2

VARIABLE part

\* Three bars asked for, the one in the middle in the table.
ThreeBars == <<0, 2 * Interval>>
OneFound == {{Interval}}

Ask(domain, asOf, minCoverage, maxLag) ==
    [domain |-> domain, asOf |-> asOf, minCoverage |-> minCoverage, maxLag |-> maxLag]

SomeAsks == {Ask("live", 1, None, 0), Ask("shadow", 2, 2, None), Ask("backtest", 1, None, None)}

SomePolicies ==
    {None, [onViolation |-> "partial", minCoverage |-> 1, maxLag |-> 0, deadline |-> 0],
     [onViolation |-> "fail", minCoverage |-> None, maxLag |-> None, deadline |-> 0]}

NoInput == [table |-> {}, window |-> <<0, 0>>, bars |-> 0]

DataInit ==
    /\ RangeInit /\ SeamlessInit /\ GateInit
    /\ part \in {"ranges", "backfill", "gate"}
    /\ part # "ranges" => input = NoInput
    /\ part # "backfill" => found = {Interval} /\ ~raises
    /\ part # "gate" => policy = None

DataNext ==
    \/ part = "backfill" /\ SeamlessNext /\ UNCHANGED <<gateVars, input, part>>
    \/ part = "gate" /\ GateNext /\ UNCHANGED <<seamlessVars, input, part>>

DataSpec ==
    /\ DataInit /\ [][DataNext]_<<seamlessVars, gateVars, input, part>>
    /\ part = "backfill" => SeamlessFairness
=============================================================================
