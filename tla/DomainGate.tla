----------------------------- MODULE DomainGate -----------------------------
(***************************************************************************)
(* The outer half of SeamlessDataProvider.fetch: the response cache, the SLA   *)
(* policy and the domain gate, for concurrent requests over one window.        *)
(*                                                                         *)
(* A request is answered from the cache, or fetched and then cached; either     *)
(* way the answer is judged when it is given.  Live and shadow requests may     *)
(* find their answer put on HOLD, backtests and dry runs are refused what is    *)
(* not backed by an artifact.  The cache is keyed by world and as_of and not     *)
(* by domain.                                                              *)
(***************************************************************************)
EXTENDS Naturals, Optional

CONSTANTS
    Client,         \* concurrent callers
    Requests,       \* what they ask: [domain, asOf, minCoverage, maxLag], the last three optional
    Policies,       \* SLA policies: None, or [onViolation, minCoverage, maxLag, deadline]
    MaxTime         \* bound: the clock

Full    == 2            \* coverage ratio: none of the window, some of it, all of it
Offline == {"backtest", "dryrun"}
Online  == {"live", "shadow"}
Limit   == {None} \cup Nat

ASSUME GateConstants ==
    /\ MaxTime \in Nat
    /\ Requests \subseteq
           [domain : Offline \cup Online, asOf : Limit, minCoverage : Limit, maxLag : Limit]
    /\ Policies \subseteq {None} \cup
           [onViolation : {"partial", "hold", "fail"}, minCoverage : Limit, maxLag : Limit, deadline : Limit]

VARIABLES
    policy,     \* _sla
    now,        \* the clock
    asked,      \* per client: its request and when it came, while it is fetched
    cache,      \* the data cached per as_of: [coverage, end, artifact]
    liveAsOf,   \* _live_as_of_state of the world
    answer      \* the last answer given

gateVars == <<policy, now, asked, cache, liveAsOf, answer>>

AsOfs == {r.asOf : r \in Requests}

GateInit ==
    /\ policy \in Policies /\ now = 0
    /\ asked = [c \in Client |-> None] /\ cache = [a \in AsOfs |-> None]
    /\ liveAsOf = None /\ answer = None

-----------------------------------------------------------------------------
(* Judging an answer *)

Severity == [none |-> 0, partial |-> 1, hold |-> 2]

\* _merge_decisions: the more severe one.
Worse(a, b) == IF Severity[b] > Severity[a] THEN b ELSE a

Breach(failed) == IF failed THEN "hold" ELSE "none"

\* Data without a bar has no coverage bounds and so no staleness.
Lags(data, maxLag) == maxLag # None /\ data.coverage > 0 /\ now - data.end > maxLag
Short(data, minCoverage) == minCoverage # None /\ data.coverage < minCoverage

\* _resolve_downgrade: a missed deadline gives the mode of the policy, a breach HOLD.
SlaDecision(data, since) ==
    IF policy = None THEN "none"
    ELSE Worse(IF policy.deadline # None /\ now - since > policy.deadline
               THEN policy.onViolation ELSE "none",
               Worse(Breach(Short(data, policy.minCoverage)), Breach(Lags(data, policy.maxLag))))

\* Defect variant of Regresses: the as_of seen last is not looked at.
RegressesNever(r) == FALSE

\* _check_as_of_progress, for live and shadow.
Regresses(r) ==
    r.domain \in Online /\ r.asOf # None /\ liveAsOf # None /\ r.asOf < liveAsOf

\* _DomainGateEvaluator.evaluate
DomainDecision(r, data) ==
    IF r.domain \notin Online THEN "none"
    ELSE Worse(Breach(Regresses(r)),
               Worse(Breach(Short(data, r.minCoverage)), Breach(Lags(data, r.maxLag))))

AsOfAfter(r) ==
    IF r.domain \in Online /\ r.asOf # None /\ ~Regresses(r) THEN r.asOf ELSE liveAsOf

\* _apply_sla_and_domain and the return of fetch, for a request that came at since.  A
\* request out of time under FAIL_FAST, or offline without an artifact, ends in an error.
Answered(r, data, since) ==
    LET late == policy # None /\ policy.deadline # None /\ now - since > policy.deadline
        raises == \/ late /\ policy.onViolation = "fail"
                  \/ r.domain \in Offline /\ ~data.artifact
    IN \/ raises /\ answer' = None /\ UNCHANGED liveAsOf
       \/ /\ ~raises /\ liveAsOf' = AsOfAfter(r)
          /\ answer' = [request |-> r, data |-> data, at |-> now,
                        mode |-> Worse(SlaDecision(data, since), DomainDecision(r, data))]

-----------------------------------------------------------------------------
(* fetch *)

\* _materialize_cached_result: flags are cleared and staleness is computed anew from the
\* coverage bounds, so the entry keeps the end of its data.
Materialized(entry) == entry

\* _enforce_as_of_requirement
Admitted(r) == r.domain \in Offline => r.asOf # None

\* Defect variant of AnswerFromCache: what passed the gates once is not judged again.
AnswerFromCacheUnjudged(c, r) ==
    /\ asked[c] = None /\ Admitted(r) /\ cache[r.asOf] # None
    /\ answer' = [request |-> r, data |-> Materialized(cache[r.asOf]), at |-> now, mode |-> "none"]
    /\ UNCHANGED <<policy, now, asked, cache, liveAsOf>>

\* A request with a cached answer gets it, without an await in between.
AnswerFromCache(c, r) ==
    /\ asked[c] = None /\ Admitted(r) /\ cache[r.asOf] # None
    /\ Answered(r, Materialized(cache[r.asOf]), now)
    /\ UNCHANGED <<policy, now, asked, cache>>

\* Any other request goes to the sources.
AskSources(c, r) ==
    /\ asked[c] = None /\ Admitted(r) /\ cache[r.asOf] = None
    /\ asked' = [asked EXCEPT ![c] = [request |-> r, since |-> now]]
    /\ UNCHANGED <<policy, now, cache, liveAsOf, answer>>

\* The sources have answered, perhaps without data, and the artifact was published or
\* not: an answer that is no error is cached, on HOLD or not.
AnswerFromSources(c) ==
    /\ asked[c] # None
    /\ \E coverage \in 0..Full, end \in {0, now}, published \in BOOLEAN :
          LET r == asked[c].request
              data == [coverage |-> coverage, end |-> end, artifact |-> published /\ coverage > 0]
          IN /\ Answered(r, data, asked[c].since)
             /\ cache' = [cache EXCEPT ![r.asOf] =
                    IF answer' = None THEN @ ELSE data]
    /\ asked' = [asked EXCEPT ![c] = None]
    /\ UNCHANGED <<policy, now>>

\* An entry runs out, or makes room for others.
CacheExpires(a) ==
    /\ cache[a] # None
    /\ cache' = [cache EXCEPT ![a] = None]
    /\ UNCHANGED <<policy, now, asked, liveAsOf, answer>>

Tick ==
    /\ now < MaxTime /\ now' = now + 1
    /\ UNCHANGED <<policy, asked, cache, liveAsOf, answer>>

GateNext ==
    \/ \E c \in Client : AnswerFromSources(c) \/ \E r \in Requests : AnswerFromCache(c, r) \/ AskSources(c, r)
    \/ \E a \in AsOfs : CacheExpires(a)
    \/ Tick

GateSpec == GateInit /\ [][GateNext]_gateVars

-----------------------------------------------------------------------------
\* An answer given to a live request that is not on HOLD has the coverage asked for and,
\* when it has data, data as recent as asked for at the moment it is given, however long
\* it was in the cache; a backtest only ever gets what an artifact backs, also when the
\* answer was cached for a live request.
AnswersAreGated ==
    answer # None =>
        LET a == answer IN
        /\ a.request.domain \in Online /\ a.mode # "hold" =>
              /\ a.request.minCoverage # None => a.data.coverage >= a.request.minCoverage
              /\ a.request.maxLag # None /\ a.data.coverage > 0 =>
                     a.at <= a.data.end + a.request.maxLag
        /\ a.request.domain \in Offline => a.data.artifact

\* The as_of a live world has got to never goes back: a request for an older one, which
\* was overtaken while it was fetched or found its answer cached, is put on HOLD.
AsOfAdvances ==
    [][/\ liveAsOf # None => liveAsOf' # None /\ liveAsOf' >= liveAsOf
       /\ answer' # answer /\ answer' # None =>
             LET a == answer' IN
             a.request.domain \in Online /\ a.request.asOf # None /\ a.mode # "hold"
                 => a.request.asOf = liveAsOf']_gateVars
=============================================================================
