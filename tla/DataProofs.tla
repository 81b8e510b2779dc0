----------------------------- MODULE DataProofs -----------------------------
(***************************************************************************)
(* What is proved about the data path of the SDK: the gates an answer passes,  *)
(* the arithmetic on ranges of bars, and the backfills of several processes    *)
(* over one table.                                                             *)
(***************************************************************************)
EXTENDS SeamlessBackfill, DomainGate, RangeChecks, SequenceTheorems, FiniteSetTheorems,
        WellFoundedInduction, TLAPS

-----------------------------------------------------------------------------
(* DomainGate *)

Modes == {"none", "partial", "hold"}
Data  == [coverage : Nat, end : Nat, artifact : BOOLEAN]

\* What is asked, cached and remembered: the data of an entry have a coverage and an end,
\* the request of a task is one of the requests, and the as_of of the world is a time.
GateTypeOK ==
    /\ policy \in Policies /\ now \in Nat
    /\ asked \in [Client -> {None} \cup [request : Requests, since : Nat]]
    /\ cache \in [AsOfs -> {None} \cup Data]
    /\ liveAsOf \in Limit

GateInv == GateTypeOK /\ AnswersAreGated

LEMMA GateInitial == GateInit => GateInv
BY DEF GateInit, GateInv, GateTypeOK, AnswersAreGated, Limit

\* The more severe of two decisions is one of them, and HOLD when one of them is.
LEMMA WorseOf ==
    ASSUME NEW a \in Modes, NEW b \in Modes
    PROVE  /\ Worse(a, b) \in Modes
           /\ Worse(a, b) # "hold" => a # "hold" /\ b # "hold"
BY DEF Worse, Severity, Modes

LEMMA BreachOf ==
    ASSUME NEW P \in BOOLEAN
    PROVE  Breach(P) \in Modes /\ (Breach(P) # "hold" => ~P)
BY DEF Breach, Modes

\* What the domain gate lets through without HOLD meets the request.
LEMMA DomainDecides ==
    ASSUME NEW r \in Requests, NEW data \in Data
    PROVE  /\ DomainDecision(r, data) \in Modes
           /\ r.domain \in Online /\ DomainDecision(r, data) # "hold" =>
                 ~Regresses(r) /\ ~Short(data, r.minCoverage) /\ ~Lags(data, r.maxLag)
<1>1. Regresses(r) \in BOOLEAN /\ Short(data, r.minCoverage) \in BOOLEAN
          /\ Lags(data, r.maxLag) \in BOOLEAN
  BY DEF Regresses, Short, Lags
<1>2. Worse(Breach(Short(data, r.minCoverage)), Breach(Lags(data, r.maxLag))) \in Modes
  BY <1>1, BreachOf, WorseOf
<1>3. Worse(Breach(Regresses(r)),
            Worse(Breach(Short(data, r.minCoverage)), Breach(Lags(data, r.maxLag)))) \in Modes
  BY <1>1, <1>2, BreachOf, WorseOf
<1>4. DomainDecision(r, data) \in Modes
  BY <1>3 DEF DomainDecision, Modes
<1>5. ASSUME r.domain \in Online, DomainDecision(r, data) # "hold"
      PROVE  ~Regresses(r) /\ ~Short(data, r.minCoverage) /\ ~Lags(data, r.maxLag)
  <2>1. DomainDecision(r, data) =
            Worse(Breach(Regresses(r)),
                  Worse(Breach(Short(data, r.minCoverage)), Breach(Lags(data, r.maxLag))))
    BY <1>5 DEF DomainDecision
  <2>2. Breach(Regresses(r)) # "hold"
            /\ Worse(Breach(Short(data, r.minCoverage)), Breach(Lags(data, r.maxLag))) # "hold"
    BY <2>1, <1>5, <1>1, <1>2, BreachOf, WorseOf
  <2>3. Breach(Short(data, r.minCoverage)) # "hold" /\ Breach(Lags(data, r.maxLag)) # "hold"
    BY <2>2, <1>1, BreachOf, WorseOf
  <2>4. QED
    BY <2>2, <2>3, <1>1, BreachOf
<1>6. QED
  BY <1>4, <1>5

\* Out of time under FAIL_FAST there is no decision, there is an error.
Late(since) == policy # None /\ policy.deadline # None /\ now - since > policy.deadline

LEMMA SlaDecides ==
    ASSUME policy \in Policies, NEW data \in Data, NEW since \in Nat,
           ~(Late(since) /\ policy.onViolation = "fail")
    PROVE  SlaDecision(data, since) \in Modes
<1>1. CASE policy = None
  BY <1>1 DEF SlaDecision, Modes
<1>2. CASE policy # None
  <2>1. Short(data, policy.minCoverage) \in BOOLEAN /\ Lags(data, policy.maxLag) \in BOOLEAN
    BY DEF Short, Lags
  <2>2. Worse(Breach(Short(data, policy.minCoverage)), Breach(Lags(data, policy.maxLag))) \in Modes
    BY <2>1, BreachOf, WorseOf
  <2>3. (IF policy.deadline # None /\ now - since > policy.deadline
         THEN policy.onViolation ELSE "none") \in Modes
    BY <1>2, GateConstants DEF Modes, Late
  <2>4. QED
    BY <1>2, <2>2, <2>3, WorseOf DEF SlaDecision
<1>3. QED
  BY <1>1, <1>2

\* An answer, cached or fetched, is an error, or it was judged: its gates hold, and the
\* as_of of the world does not go back.
LEMMA AnsweredIsGated ==
    ASSUME GateTypeOK, NEW r \in Requests, NEW data \in Data, NEW since \in Nat,
           Answered(r, data, since)
    PROVE  /\ AnswersAreGated' /\ liveAsOf' \in Limit
           /\ liveAsOf # None => liveAsOf' # None /\ liveAsOf' >= liveAsOf
           /\ answer' # None =>
                 (answer'.request.domain \in Online /\ answer'.request.asOf # None
                      /\ answer'.mode # "hold" => answer'.request.asOf = liveAsOf')
<1> USE DEF GateTypeOK
<1>0. r \in [domain : Offline \cup Online, asOf : Limit, minCoverage : Limit, maxLag : Limit]
  BY GateConstants
<1>1. CASE answer' = None /\ UNCHANGED liveAsOf
  BY <1>1 DEF AnswersAreGated, Limit
<1>2. ASSUME ~(answer' = None /\ UNCHANGED liveAsOf)
      PROVE  /\ ~(Late(since) /\ policy.onViolation = "fail")
             /\ ~(r.domain \in Offline /\ ~data.artifact)
             /\ liveAsOf' = AsOfAfter(r)
             /\ answer' = [request |-> r, data |-> data, at |-> now,
                           mode |-> Worse(SlaDecision(data, since), DomainDecision(r, data))]
  BY <1>2 DEF Answered, Late
<1>3. CASE ~(answer' = None /\ UNCHANGED liveAsOf)
  <2>1. PICK mode : mode = Worse(SlaDecision(data, since), DomainDecision(r, data))
    OBVIOUS
  <2>2. mode # "hold" => DomainDecision(r, data) # "hold"
    BY <2>1, <1>2, <1>3, SlaDecides, DomainDecides, WorseOf
  <2>3. answer' = [request |-> r, data |-> data, at |-> now, mode |-> mode]
    BY <1>2, <1>3, <2>1
  <2>4. r.domain \in Online /\ mode # "hold" =>
            ~Regresses(r) /\ ~Short(data, r.minCoverage) /\ ~Lags(data, r.maxLag)
    BY <2>2, DomainDecides
  <2>5. liveAsOf' = AsOfAfter(r)
    BY <1>2, <1>3
  <2>6. liveAsOf' \in Limit /\ (liveAsOf # None => liveAsOf' # None /\ liveAsOf' >= liveAsOf)
    BY <2>5, <1>0 DEF AsOfAfter, Regresses, Limit
  <2>7. r.domain \in Online /\ r.asOf # None /\ mode # "hold" => r.asOf = liveAsOf'
    BY <2>4, <2>5 DEF AsOfAfter
  <2>8. ~(r.domain \in Offline /\ ~data.artifact)
    BY <1>2, <1>3
  <2>9. AnswersAreGated'
    <3>1. ASSUME r.domain \in Online, mode # "hold", r.minCoverage # None
          PROVE  data.coverage >= r.minCoverage
      BY <3>1, <2>4, <1>0 DEF Short, Data, Limit
    <3>2. ASSUME r.domain \in Online, mode # "hold", r.maxLag # None, data.coverage > 0
          PROVE  now <= data.end + r.maxLag
      BY <3>2, <2>4, <1>0 DEF Lags, Data, Limit
    <3>3. QED
      BY <3>1, <3>2, <2>3, <2>8 DEF AnswersAreGated
  <2>10. QED
    BY <2>3, <2>6, <2>7, <2>9
<1>4. QED
  BY <1>1, <1>3

\* What a step may do to the as_of of the world and to the answer.
AsOfStep ==
    /\ liveAsOf # None => liveAsOf' # None /\ liveAsOf' >= liveAsOf
    /\ answer' # answer /\ answer' # None =>
          LET a == answer' IN
          a.request.domain \in Online /\ a.request.asOf # None /\ a.mode # "hold"
              => a.request.asOf = liveAsOf'

LEMMA GateStep ==
    ASSUME GateInv, [GateNext]_gateVars
    PROVE  GateInv' /\ AsOfStep
<1> USE DEF GateInv
<1>0. ASSUME UNCHANGED <<liveAsOf, answer>>
      PROVE  AnswersAreGated' /\ AsOfStep
  BY <1>0 DEF AnswersAreGated, AsOfStep, GateTypeOK, Limit
<1>1. ASSUME NEW c \in Client, NEW r \in Requests, AnswerFromCache(c, r)
      PROVE  GateInv' /\ AsOfStep
  <2>1. r.asOf \in AsOfs
    BY DEF AsOfs
  <2>2. Materialized(cache[r.asOf]) \in Data /\ now \in Nat
    BY <1>1, <2>1 DEF AnswerFromCache, GateTypeOK, Materialized
  <2>3. Answered(r, Materialized(cache[r.asOf]), now)
    BY <1>1 DEF AnswerFromCache
  <2>4. AnswersAreGated' /\ liveAsOf' \in Limit /\ AsOfStep
    BY <2>2, <2>3, AnsweredIsGated DEF AsOfStep
  <2>5. QED
    BY <1>1, <2>4 DEF AnswerFromCache, GateTypeOK
<1>2. ASSUME NEW c \in Client, NEW r \in Requests, AskSources(c, r)
      PROVE  GateInv' /\ AsOfStep
  BY <1>2, <1>0 DEF AskSources, GateTypeOK
<1>3. ASSUME NEW c \in Client, AnswerFromSources(c)
      PROVE  GateInv' /\ AsOfStep
  <2>1. PICK coverage \in 0..Full, end \in {0, now}, published \in BOOLEAN :
            LET r == asked[c].request
                data == [coverage |-> coverage, end |-> end, artifact |-> published /\ coverage > 0]
            IN /\ Answered(r, data, asked[c].since)
               /\ cache' = [cache EXCEPT ![r.asOf] = IF answer' = None THEN @ ELSE data]
    BY <1>3 DEF AnswerFromSources
  <2>2. PICK r \in Requests, since \in Nat : r = asked[c].request /\ since = asked[c].since
    BY <1>3 DEF AnswerFromSources, GateTypeOK
  <2>3. PICK data \in Data :
            data = [coverage |-> coverage, end |-> end, artifact |-> published /\ coverage > 0]
    <3>1. coverage \in Nat /\ end \in Nat /\ (published /\ coverage > 0) \in BOOLEAN
      BY DEF Full, GateTypeOK
    <3>2. [coverage |-> coverage, end |-> end, artifact |-> published /\ coverage > 0] \in Data
      BY <3>1 DEF Data
    <3>3. QED
      BY <3>2
  <2>4. Answered(r, data, since)
            /\ cache' = [cache EXCEPT ![r.asOf] = IF answer' = None THEN @ ELSE data]
    BY <2>1, <2>2, <2>3
  <2>5. AnswersAreGated' /\ liveAsOf' \in Limit /\ AsOfStep
    BY <2>4, AnsweredIsGated DEF AsOfStep
  <2>6. asked' \in [Client -> {None} \cup [request : Requests, since : Nat]]
    BY <1>3 DEF AnswerFromSources, GateTypeOK
  <2>7. cache' \in [AsOfs -> {None} \cup Data]
    BY <2>4 DEF GateTypeOK, AsOfs
  <2>8. QED
    BY <1>3, <2>5, <2>6, <2>7 DEF AnswerFromSources, GateTypeOK
<1>4. ASSUME NEW a \in AsOfs, CacheExpires(a)
      PROVE  GateInv' /\ AsOfStep
  BY <1>4, <1>0 DEF CacheExpires, GateTypeOK
<1>5. ASSUME Tick
      PROVE  GateInv' /\ AsOfStep
  BY <1>5, <1>0 DEF Tick, GateTypeOK
<1>6. ASSUME UNCHANGED gateVars
      PROVE  GateInv' /\ AsOfStep
  BY <1>6, <1>0 DEF gateVars, GateTypeOK
<1>7. QED
  BY <1>1, <1>2, <1>3, <1>4, <1>5, <1>6 DEF GateNext

\* Whatever was cached, expired or overtaken, no answer that is not on HOLD falls short of
\* what its request asks for when it is given (fetch, _apply_sla_and_domain).
THEOREM AnswersAlwaysGated == GateSpec => []AnswersAreGated
<1>1. GateInv => AnswersAreGated
  BY DEF GateInv
<1>2. QED
  BY <1>1, GateInitial, GateStep, PTL DEF GateSpec

\* The as_of of a live world only ever goes forward, and an answer for an older one is on
\* HOLD (_check_as_of_progress).
THEOREM AsOfAlwaysAdvances == GateSpec => AsOfAdvances
<1>1. GateInv /\ [GateNext]_gateVars =>
        [/\ liveAsOf # None => liveAsOf' # None /\ liveAsOf' >= liveAsOf
         /\ answer' # answer /\ answer' # None =>
               LET a == answer' IN
               a.request.domain \in Online /\ a.request.asOf # None /\ a.mode # "hold"
                   => a.request.asOf = liveAsOf']_gateVars
  BY GateStep DEF AsOfStep
<1>2. QED
  BY <1>1, GateInitial, GateStep, PTL DEF GateSpec, AsOfAdvances

-----------------------------------------------------------------------------
(* RangeMath: ranges on the grid, and the chunks of a backfill *)

\* Division with a remainder.
LEMMA ModDef == ASSUME NEW I \in Nat \ {0}, NEW a \in Int
  PROVE /\ a \div I \in Int /\ a % I \in 0..I-1
        /\ a = I * (a \div I) + (a % I)
OBVIOUS

LEMMA ModUnique ==
  ASSUME NEW I \in Nat \ {0}, NEW q \in Int, NEW r \in 0..I-1
  PROVE  (I*q + r) % I = r /\ (I * q + r) \div I = q
OBVIOUS

LEMMA Times == ASSUME NEW x \in Int, NEW y \in Int PROVE x * y \in Int
OBVIOUS

LEMMA Distributes == ASSUME NEW x \in Int, NEW y \in Int, NEW z \in Int
  PROVE x * (y - z) = x * y - x * z /\ x * (y + z) = x * y + x * z
OBVIOUS

\* Multiples of the divisor do not change the remainder.
LEMMA ModSum == ASSUME NEW I \in Nat \ {0}, NEW a \in Int, NEW k \in Int
  PROVE (a + I * k) % I = a % I
<1>1. PICK p \in Int : p = a \div I
  BY ModDef
<1>2. PICK s \in 0..I-1 : s = a % I
  BY ModDef
<1>3. a = I * p + s
  BY <1>1, <1>2, ModDef
<1>4. I * (p + k) = I * p + I * k
  BY Distributes
<1>5. I * p \in Int /\ I * k \in Int /\ p + k \in Int
  BY Times
<1>6. a + I * k = I * (p + k) + s
  <2>1. PICK x \in Int, y \in Int : x = I * p /\ y = I * k
    BY <1>5
  <2>2. a + y = (x + y) + s
    BY <1>3, <2>1
  <2>3. QED
    BY <1>4, <2>1, <2>2
<1>7. (I * (p + k) + s) % I = s
  BY <1>5, ModUnique
<1>8. QED
  BY <1>2, <1>6, <1>7

LEMMA ModDiff == ASSUME NEW I \in Nat \ {0}, NEW a \in Int, NEW b \in Int, a % I = 0
  PROVE (b - a) % I = b % I
<1>1. PICK q \in Int : q = a \div I
  BY ModDef
<1>2. a = I * q + 0
  BY <1>1, ModDef
<1>3. I * q \in Int
  BY Times
<1>4. (b - a) + I * q = b
  BY <1>2, <1>3
<1>5. ((b - a) + I * q) % I = (b - a) % I
  <2>1. b - a \in Int
    OBVIOUS
  <2>2. QED
    BY <2>1, ModSum
<1>6. QED
  BY <1>2, <1>4, <1>5

\* The bars of ranges on the grid, both ends in and without the end.
LEMMA BarsOnGrid ==
    ASSUME NEW r \in Grid \X Grid
    PROVE  /\ Bars(r) = {t \in Grid : r[1] <= t /\ t <= r[2]}
           /\ HalfOpen(r) = {t \in Grid : r[1] <= t /\ t < r[2]}
<1>1. r[1] \in Time /\ r[2] \in Time /\ r[1] % Interval = 0
  BY DEF Grid
<1>2. ASSUME NEW t \in Int
      PROVE  (t - r[1]) % Interval = t % Interval
  <2>1. r[1] \in Int /\ Interval \in Nat \ {0} /\ r[1] % Interval = 0
    BY <1>1, RangeConstants DEF Time
  <2>2. QED
    BY <2>1, ModDiff
<1>3. \A t \in r[1]..r[2] : t \in Time
  BY <1>1, RangeConstants DEF Time
<1>4. QED
  BY <1>1, <1>2, <1>3, RangeConstants DEF Bars, HalfOpen, Grid, Time

Part == {r \in Grid \X Grid : Request[1] <= r[1] /\ r[1] <= r[2] /\ r[2] <= Request[2]}

\* How many chunks of a span there are
LEMMA Ceiling ==
    ASSUME NEW a \in Nat \ {0}, NEW s \in Nat \ {0}
    PROVE  LET n == (a + s - 1) \div s IN
           n \in Nat \ {0} /\ s * n >= a /\ s * (n - 1) < a
<1>1. PICK q \in Int, m \in 0..s-1 : a + s - 1 = s * q + m /\ q = (a + s - 1) \div s
  BY ModDef
<1>2. s * (q - 1) = s * q - s
  BY Distributes
<1>3. q >= 1
  <2>1. SUFFICES ASSUME q <= 0 PROVE FALSE
    OBVIOUS
  <2>2. s * q <= 0
    BY <2>1
  <2>3. QED
    BY <2>2, <1>1
<1>4. QED
  BY <1>1, <1>2, <1>3

LEMMA SmallerFactor ==
    ASSUME NEW s \in Nat \ {0}, NEW i \in Int, NEW j \in Int
    PROVE  /\ i <= j => s * i <= s * j
           /\ s * i < s * j => i < j
<1>1. i <= j => s * i <= s * j
  OBVIOUS
<1>2. j <= i => s * j <= s * i
  OBVIOUS
<1>3. s * i \in Int /\ s * j \in Int
  BY Times
<1>4. QED
  BY <1>1, <1>2, <1>3

\* The chunks of a range: the first bar of each, and its end.
ChunkSpan(bars) == Interval * bars

LEMMA ChunkSteps ==
    ASSUME NEW r \in Grid \X Grid, NEW bars \in Nat \ {0}, r[1] < r[2]
    PROVE  /\ ChunkSpan(bars) \in Nat \ {0}
           /\ \E m \in Nat \ {0} :
                 /\ ChunkSpan(bars) * m >= r[2] - r[1] /\ Chunks(r, bars) \in [1..m -> Grid \X Grid]
                 /\ \A k \in 1..m :
                       /\ Chunks(r, bars)[k] \in Grid \X Grid
                       /\ Chunks(r, bars)[k][1] = r[1] + ChunkSpan(bars) * (k - 1)
                       /\ Chunks(r, bars)[k][2] = Sooner(r[1] + ChunkSpan(bars) * k, r[2])
                       /\ ChunkSpan(bars) * (k - 1) \in Nat /\ ChunkSpan(bars) * k \in Nat
                       /\ ChunkSpan(bars) * (k - 1) < r[2] - r[1]
<1> DEFINE lo == r[1]
           hi == r[2]
           span == ChunkSpan(bars)
           n == (hi - lo + span - 1) \div span
<1>z. /\ r \in Grid \X Grid /\ r = <<lo, hi>> /\ lo \in Nat /\ hi \in Nat /\ lo < hi /\ lo <= hi
      /\ lo % Interval = 0 /\ lo \in Grid /\ hi \in Grid /\ bars # 0 /\ bars \in Nat
  BY DEF Grid, Time
<1>0. span \in Nat \ {0}
  BY RangeConstants DEF ChunkSpan
<1>1. n \in Nat \ {0} /\ span * n >= hi - lo /\ span * (n - 1) < hi - lo
  <2> DEFINE a == hi - lo
  <2>1. a \in Nat \ {0}
    BY <1>z
  <2>2. n = (a + span - 1) \div span
    OBVIOUS
  <2> HIDE DEF a, span, n
  <2>3. n \in Nat \ {0} /\ span * n >= a /\ span * (n - 1) < a
    BY <2>1, <2>2, <1>0, Ceiling
  <2>4. QED
    BY <2>3 DEF a
<1> DEFINE C(k) == <<lo + (k - 1) * span, Sooner(lo + k * span, hi)>>
<1>2. Chunks(r, bars) = [k \in 1..n |-> C(k)]
  BY <1>z DEF Chunks, ChunkSpan
<1>3. ASSUME NEW k \in 0..n
      PROVE  /\ k * span = span * k /\ span * k \in Nat
             /\ (lo + span * k) % Interval = 0
             /\ k < n => span * k < hi - lo
             /\ lo + span * k <= hi => lo + span * k \in Grid
  <2>0. k \in Nat /\ n \in Nat
    BY <1>1
  <2> HIDE DEF n
  <2>1. span * k = Interval * (bars * k) /\ bars * k \in Int
    BY <2>0, RangeConstants DEF ChunkSpan
  <2> HIDE DEF span
  <2>2. k * span = span * k /\ span * k \in Nat
    BY <2>0, <1>0
  <2>3. (lo + Interval * (bars * k)) % Interval = lo % Interval
    <3>1. PICK j \in Int : j = bars * k
      BY <2>1
    <3>2. lo \in Int /\ Interval \in Nat \ {0}
      BY <1>z, RangeConstants
    <3> HIDE DEF lo
    <3>3. (lo + Interval * j) % Interval = lo % Interval
      BY <3>2, ModSum
    <3>4. QED
      BY <3>1, <3>3
  <2>4. ASSUME k < n PROVE span * k < hi - lo
    <3>1. k <= n - 1 /\ n - 1 \in Int
      BY <2>4, <2>0
    <3>2. span * k <= span * (n - 1)
      BY <3>1, <2>0, <1>0, SmallerFactor
    <3>3. span * (n - 1) \in Int
      BY <3>1, <1>0, Times
    <3>4. QED
      BY <3>2, <3>3, <2>2, <1>1, <1>z
  <2>5. (lo + span * k) % Interval = 0
    BY <2>1, <2>3, <1>z
  <2>6. ASSUME lo + span * k <= hi PROVE lo + span * k \in Grid
    <3>1. hi <= Horizon /\ Horizon \in Nat
      BY <1>z, RangeConstants DEF Grid, Time
    <3>2. QED
      BY <2>6, <3>1, <2>2, <2>5, <1>z DEF Grid, Time
  <2>7. QED
    BY <2>2, <2>4, <2>5, <2>6
<1> HIDE DEF n, span
<1>4. ASSUME NEW k \in 1..n
      PROVE  C(k) \in Grid \X Grid /\ C(k)[1] = lo + span * (k - 1) /\ C(k)[2] = Sooner(lo + span * k, hi)
  <2>1. k \in 0..n /\ k - 1 \in 0..n /\ k - 1 < n /\ k - 1 < k
    BY <1>1
  <2>2. (k - 1) * span = span * (k - 1) /\ span * (k - 1) < hi - lo /\ span * (k - 1) \in Nat
    BY <2>1, <1>3
  <2>3. k * span = span * k /\ span * k \in Nat
    BY <2>1, <1>3
  <2>4. span * (k - 1) <= span * k
    BY <2>1, <1>0, SmallerFactor
  <2>5. lo + span * (k - 1) \in Grid
    BY <2>1, <2>2, <1>z, <1>3
  <2>6. Sooner(lo + span * k, hi) \in Grid
    BY <2>1, <2>3, <1>z, <1>3 DEF Sooner
  <2>7. C(k) = <<lo + span * (k - 1), Sooner(lo + span * k, hi)>>
    BY <2>2, <2>3
  <2>8. lo <= lo + span * (k - 1) /\ lo + span * (k - 1) <= Sooner(lo + span * k, hi)
            /\ Sooner(lo + span * k, hi) <= hi
    BY <2>2, <2>3, <2>4, <1>z DEF Sooner
  <2> HIDE DEF C
  <2>9. C(k)[1] = lo + span * (k - 1) /\ C(k)[2] = Sooner(lo + span * k, hi)
            /\ C(k) \in Grid \X Grid
    BY <2>5, <2>6, <2>7
  <2>10. QED
    BY <2>9
<1> HIDE DEF C
<1>5. ASSUME NEW k \in 1..n PROVE span * (k - 1) \in Nat /\ span * k \in Nat /\ span * (k - 1) < hi - lo
  <2>1. k \in 0..n /\ k - 1 \in 0..n /\ k - 1 < n
    BY <1>1
  <2>2. QED
    BY <2>1, <1>3
<1>6. DOMAIN Chunks(r, bars) = 1..n /\ \A k \in 1..n : Chunks(r, bars)[k] = C(k)
  BY <1>2
<1>7. ASSUME NEW k \in 1..n
      PROVE  /\ Chunks(r, bars)[k] \in Grid \X Grid
             /\ Chunks(r, bars)[k][1] = r[1] + ChunkSpan(bars) * (k - 1)
             /\ Chunks(r, bars)[k][2] = Sooner(r[1] + ChunkSpan(bars) * k, r[2])
             /\ ChunkSpan(bars) * (k - 1) \in Nat /\ ChunkSpan(bars) * k \in Nat
             /\ ChunkSpan(bars) * (k - 1) < r[2] - r[1]
  <2>1. Chunks(r, bars)[k] = C(k)
    BY <1>6
  <2>2. C(k)[1] = r[1] + ChunkSpan(bars) * (k - 1) /\ C(k)[2] = Sooner(r[1] + ChunkSpan(bars) * k, r[2]) /\ C(k) \in Grid \X Grid
    BY <1>4 DEF span
  <2>3. QED
    BY <2>1, <2>2, <1>5, Zenon DEF span
<1>8. n \in Nat \ {0} /\ ChunkSpan(bars) * n >= r[2] - r[1]
  BY <1>1 DEF span
<1>9. Chunks(r, bars) \in [1..n -> Grid \X Grid]
  BY <1>2, <1>4
<1>10. QED
  BY <1>0, <1>7, <1>8, <1>9, Zenon DEF span

\* The chunks of a range are on the grid and within it, and none of its bars is left out,
\* its last one included.
LEMMA ChunksSound ==
    ASSUME NEW r \in Part, NEW bars \in Nat
    PROVE  /\ Chunks(r, bars) \in Seq(Part) /\ Chunks(r, bars) # <<>>
           /\ Bars(r) \subseteq Covered(Chunks(r, bars))
<1> DEFINE lo == r[1]
           hi == r[2]
           span == ChunkSpan(bars)
<1>0. /\ r \in Grid \X Grid /\ r = <<lo, hi>> /\ lo \in Nat /\ hi \in Nat /\ lo <= hi
      /\ lo % Interval = 0 /\ lo \in Grid /\ hi \in Grid
      /\ Request[1] \in Nat /\ Request[2] \in Nat /\ Request[1] <= lo /\ hi <= Request[2]
  BY SeamlessConstants DEF Part, Grid, Time
<1>1. CASE hi <= lo \/ bars = 0
  <2>1. Chunks(r, bars) = <<r>>
    BY <1>1 DEF Chunks
  <2>2. <<r>> \in Seq(Part) /\ <<r>> # <<>> /\ Bars(r) \subseteq Covered(<<r>>)
    BY DEF Covered
  <2>3. QED
    BY <2>1, <2>2
<1>2. CASE lo < hi /\ bars # 0
  <2>0. span \in Nat \ {0}
    BY <1>0, <1>2, ChunkSteps
  <2>a. PICK chunks : chunks = Chunks(r, bars)
    OBVIOUS
  <2>1. PICK n \in Nat \ {0} :
           /\ span * n >= r[2] - r[1] /\ Chunks(r, bars) \in [1..n -> Grid \X Grid]
           /\ \A k \in 1..n :
                 /\ Chunks(r, bars)[k] \in Grid \X Grid
                 /\ Chunks(r, bars)[k][1] = r[1] + span * (k - 1)
                 /\ Chunks(r, bars)[k][2] = Sooner(r[1] + span * k, r[2])
                 /\ span * (k - 1) \in Nat /\ span * k \in Nat
                 /\ span * (k - 1) < r[2] - r[1]
    BY <1>0, <1>2, ChunkSteps, Zenon
  <2> HIDE DEF span
  <2>2. /\ span * n >= hi - lo /\ DOMAIN chunks = 1..n
        /\ \A k \in 1..n :
              /\ chunks[k] \in Grid \X Grid /\ chunks[k][1] = lo + span * (k - 1)
              /\ chunks[k][2] = Sooner(lo + span * k, hi)
              /\ span * (k - 1) \in Nat /\ span * k \in Nat /\ span * (k - 1) < hi - lo
    BY <2>1, <2>a
  <2>4. ASSUME NEW k \in 1..n PROVE chunks[k] \in Part
    <3>1. PICK a \in Nat, b \in Nat : a = span * (k - 1) /\ b = span * k
      BY <2>2
    <3>2. k - 1 <= k /\ k \in Int /\ k - 1 \in Int
      OBVIOUS
    <3>3. a <= b /\ a < hi - lo
      BY <3>1, <3>2, <2>0, <2>2, SmallerFactor
    <3>4. chunks[k][1] = lo + a /\ chunks[k][2] = Sooner(lo + b, hi) /\ chunks[k] \in Grid \X Grid
      BY <3>1, <2>2
    <3>5. lo <= lo + a /\ lo + a <= Sooner(lo + b, hi) /\ Sooner(lo + b, hi) <= hi
      BY <3>3, <1>0 DEF Sooner
    <3>6. \A g \in Grid : g \in Nat
      BY DEF Grid, Time
    <3>7. chunks[k][1] \in Nat /\ chunks[k][2] \in Nat
      BY <3>4, <3>6
    <3>8. QED
      BY <3>4, <3>5, <3>7, <1>0 DEF Part
  <2>5. Chunks(r, bars) \in Seq(Part) /\ Chunks(r, bars) # <<>>
    <3>1. chunks \in [1..n -> Grid \X Grid]
      BY <2>1, <2>a
    <3>2. chunks \in [1..n -> Part]
      BY <3>1, <2>4
    <3>3. n \in Nat /\ 1 \in DOMAIN chunks
      BY <2>2
    <3>4. chunks \in Seq(Part)
      BY <3>2, <3>3
    <3>5. QED
      BY <2>a, <3>3, <3>4
  <2>6. ASSUME NEW t \in Bars(r)
        PROVE  \E k \in 1..n : t \in Bars(chunks[k])
    <3>1. t \in Grid /\ lo <= t /\ t <= hi /\ t \in Nat
      BY <1>0, BarsOnGrid, RangeConstants DEF Grid, Time
    <3>2. SUFFICES \E k \in 1..n : lo + span * (k - 1) <= t /\ t <= Sooner(lo + span * k, hi)
      <4>1. PICK k \in 1..n : lo + span * (k - 1) <= t /\ t <= Sooner(lo + span * k, hi)
        BY <3>2
      <4>2. chunks[k] \in Grid \X Grid /\ chunks[k][1] <= t /\ t <= chunks[k][2]
        BY <4>1, <2>2
      <4>3. QED
        BY <4>2, <3>1, BarsOnGrid
    <3>3. CASE t = hi
      <4>1. n \in 1..n
        BY <2>1
      <4>2. PICK a \in Nat, b \in Nat : a = span * (n - 1) /\ b = span * n
        BY <4>1, <2>2
      <4>3. a < hi - lo /\ b >= hi - lo
        BY <4>1, <4>2, <2>2
      <4>4. lo + a <= t /\ t <= Sooner(lo + b, hi)
        BY <4>3, <3>3, <1>0 DEF Sooner
      <4>5. QED
        BY <4>1, <4>2, <4>4
    <3>4. CASE t < hi
      <4>1. PICK q \in Int, m \in 0..span - 1 : t - lo = span * q + m
        <5>1. PICK d \in Int : d = t - lo
          BY <3>1, <1>0
        <5>2. d \div span \in Int /\ d % span \in 0..span - 1 /\ d = span * (d \div span) + (d % span)
          BY <2>0, ModDef
        <5>3. QED
          BY <5>1, <5>2
      <4>2. span * q \in Int /\ span * (q + 1) = span * q + span
        BY <2>0, Times, Distributes
      <4>3. span * q <= t - lo /\ t - lo < span * (q + 1)
        BY <4>1, <4>2, <2>0
      <4>4. n \in Int /\ span * n \in Int
        BY <2>1, <2>0, Times
      <4>5. q < n
        <5>1. span * q < span * n
          BY <4>2, <4>3, <4>4, <2>2, <3>1, <3>4, <1>0
        <5>2. QED
          BY <5>1, <4>4, <2>0, SmallerFactor
      <4>6. 0 <= q
        <5>1. span * (q + 1) \in Int /\ span * 0 = 0
          BY <2>0, Times
        <5>2. span * 0 < span * (q + 1)
          BY <4>3, <5>1, <3>1, <1>0
        <5>3. 0 < q + 1
          BY <5>2, <2>0, SmallerFactor
        <5>4. QED
          BY <5>3
      <4>7. q + 1 \in 1..n /\ (q + 1) - 1 = q
        BY <4>4, <4>5, <4>6
      <4>8. lo + span * ((q + 1) - 1) <= t
        BY <4>7, <4>3, <4>2, <3>1, <1>0
      <4>9. t <= Sooner(lo + span * (q + 1), hi)
        BY <4>2, <4>3, <3>1, <1>0, <2>0 DEF Sooner
      <4>10. QED
        BY <4>7, <4>8, <4>9
    <3>5. QED
      BY <3>3, <3>4, <3>1, <1>0
  <2>7. Bars(r) \subseteq Covered(Chunks(r, bars))
    BY <2>6, <2>a, <2>2 DEF Covered
  <2>8. QED
    BY <2>5, <2>7
<1>3. QED
  BY <1>0, <1>1, <1>2

-----------------------------------------------------------------------------
(* Induction up to a number, and folds over a list *)

LEMMA LeastNat ==
    ASSUME NEW T, T \subseteq Nat, T # {}
    PROVE  \E x \in T : \A y \in T : x <= y
<1> DEFINE R == OpToRel(<, Nat)
<1>1. IsWellFoundedOn(R, Nat)
  BY NatLessThanWellFounded
<1>2. \A x, y \in Nat : y < x => <<y, x>> \in R
  BY DEF OpToRel
<1> HIDE DEF R
<1>3. PICK x \in T : \A y \in T : ~ (<<y, x>> \in R)
  BY <1>1, WFMin
<1>4. ASSUME NEW y \in T PROVE x <= y
  <2>1. x \in Nat /\ y \in Nat /\ ~ (<<y, x>> \in R)
    BY <1>3
  <2> QED
    BY <1>2, <2>1
<1> QED
  BY <1>4

\* What holds of 0 and passes from each number to the next holds up to n.
LEMMA UpTo ==
    ASSUME NEW n \in Nat, NEW G, 0 \in G, \A k \in 1..n : k - 1 \in G => k \in G
    PROVE  \A k \in 0..n : k \in G
<1> DEFINE T == {k \in 0..n : k \notin G}
<1>1. SUFFICES ASSUME T # {} PROVE FALSE
  OBVIOUS
<1>2. PICK x \in T : \A y \in T : x <= y
  <2>1. T \subseteq Nat
    OBVIOUS
  <2> HIDE DEF T
  <2>2. QED
    BY <1>1, <2>1, LeastNat
<1>3. x \in 1..n /\ x - 1 \in 0..n /\ ~(x <= x - 1)
  BY <1>2
<1>4. x - 1 \in G
  BY <1>2, <1>3
<1>5. QED
  BY <1>2, <1>3, <1>4

LEMMA MaxOf ==
    ASSUME NEW s, NEW n \in Nat, s \subseteq 1..n, s # {}
    PROVE  /\ Max(s) \in s /\ Max(s) \in 1..n /\ \A y \in s : y <= Max(s)
           /\ s \ {Max(s)} \in SUBSET (1..n)
<1> DEFINE T == {n - y : y \in s}
<1>1. T \subseteq Nat /\ T # {}
  OBVIOUS
<1>2. PICK x \in T : \A y \in T : x <= y
  BY <1>1, LeastNat
<1>3. PICK m \in s : x = n - m
  BY <1>2
<1>4. \A y \in s : m >= y
  BY <1>2, <1>3
<1>5. Max(s) \in s /\ \A y \in s : Max(s) >= y
  BY <1>3, <1>4 DEF Max
<1>6. QED
  BY <1>5

LEMMA MaxUpTo ==
    ASSUME NEW k \in Nat \ {0}
    PROVE  Max(1..k) = k /\ (1..k) \ {Max(1..k)} = 1..k - 1 /\ 1..k # {}
<1>0. PICK s : s = 1..k
  OBVIOUS
<1>1. Max(s) \in 1..k /\ \A y \in s : y <= Max(s)
  <2>1. s \subseteq 1..k /\ s # {} /\ k \in Nat
    BY <1>0
  <2>2. QED
    BY <2>1, MaxOf
<1>2. Max(s) = k
  BY <1>0, <1>1
<1>3. s \ {k} = 1..k - 1 /\ s # {}
  <2>1. \A i : i \in s \ {k} <=> i \in 1..k - 1
    BY <1>0
  <2>2. 1 \in s
    BY <1>0
  <2>3. QED
    BY <2>1, <2>2
<1>4. QED
  BY <1>0, <1>2, <1>3

LEMMA MaxPrefix ==
    ASSUME NEW n \in Nat, NEW k \in 1..n
    PROVE  /\ 1..k \in SUBSET (1..n) /\ 1..k # {}
           /\ Max(1..k) = k /\ (1..k) \ {Max(1..k)} = 1..k - 1
<1>1. k \in Nat \ {0} /\ 1..k \in SUBSET (1..n)
  OBVIOUS
<1>2. QED
  BY <1>1, MaxUpTo

\* f gives the fold over each subset of 1..n.
IsFold(f, n, base, step) ==
    \A s \in SUBSET (1..n) : f[s] = IF s = {} THEN base ELSE step[Max(s)][f[s \ {Max(s)}]]

\* A fold from the left over n elements exists: from the value for all subsets of 1..n - 1,
\* the value for those of 1..n.
LEMMA FoldExists ==
    ASSUME NEW A, NEW base \in A, NEW n \in Nat, NEW step \in [1..n -> [A -> A]]
    PROVE  \E f \in [SUBSET (1..n) -> A] : IsFold(f, n, base, step)
<1> DEFINE Sol(m, f) == \A s \in SUBSET (1..m) :
                            f[s] = IF s = {} THEN base ELSE step[Max(s)][f[s \ {Max(s)}]]
           G == {m \in 0..n : \E f \in [SUBSET (1..m) -> A] : Sol(m, f)}
<1>1. 0 \in G
  <2>1. SUBSET (1..0) = {{}}
    OBVIOUS
  <2>2. [s \in SUBSET (1..0) |-> base] \in [SUBSET (1..0) -> A]
    OBVIOUS
  <2>3. Sol(0, [s \in SUBSET (1..0) |-> base])
    BY <2>1
  <2> DEFINE f0 == [s \in SUBSET (1..0) |-> base]
  <2> HIDE DEF f0
  <2>4. f0 \in [SUBSET (1..0) -> A] /\ Sol(0, f0)
    BY <2>2, <2>3 DEF f0
  <2>5. 0 \in 0..n
    OBVIOUS
  <2> HIDE DEF Sol
  <2>6. QED
    BY <2>4, <2>5
<1>2. ASSUME NEW m \in 1..n, m - 1 \in G PROVE m \in G
  <2>1. PICK f \in [SUBSET (1..m - 1) -> A] : Sol(m - 1, f)
    BY <1>2
  <2> DEFINE g == [s \in SUBSET (1..m) |-> IF m \in s THEN step[m][f[s \ {m}]] ELSE f[s]]
  <2>2. \A s \in SUBSET (1..m) : s \ {m} \in SUBSET (1..m - 1)
    OBVIOUS
  <2>3. \A s \in SUBSET (1..m) : m \notin s => s \in SUBSET (1..m - 1)
    OBVIOUS
  <2>4. g \in [SUBSET (1..m) -> A]
    BY <2>1, <2>2, <2>3
  <2>5. ASSUME NEW s \in SUBSET (1..m)
        PROVE  g[s] = IF s = {} THEN base ELSE step[Max(s)][g[s \ {Max(s)}]]
    <3>1. CASE m \in s
      <4>1. s # {} /\ m \in Nat
        BY <3>1
      <4>2. Max(s) = m
        <5>1. Max(s) \in 1..m /\ m <= Max(s)
          BY <3>1, <4>1, MaxOf
        <5>2. QED
          BY <5>1
      <4>3. s \ {m} \in SUBSET (1..m) /\ m \notin s \ {m}
        OBVIOUS
      <4>4. g[s \ {m}] = f[s \ {m}] /\ g[s] = step[m][f[s \ {m}]]
        BY <3>1, <4>3
      <4>5. QED
        BY <4>1, <4>2, <4>4
    <3>2. CASE m \notin s
      <4>1. s \in SUBSET (1..m - 1) /\ g[s] = f[s]
        BY <2>3, <3>2
      <4>2. CASE s = {}
        BY <4>1, <4>2, <2>1
      <4>3. CASE s # {}
        <5>1. m - 1 \in Nat
          OBVIOUS
        <5>2. Max(s) \in s /\ s \ {Max(s)} \in SUBSET (1..m - 1)
          BY <4>1, <4>3, <5>1, MaxOf
        <5>3. s \ {Max(s)} \in SUBSET (1..m) /\ m \notin s \ {Max(s)}
          BY <3>2
        <5>4. g[s \ {Max(s)}] = f[s \ {Max(s)}]
          BY <5>3
        <5>5. f[s] = step[Max(s)][f[s \ {Max(s)}]]
          BY <4>1, <4>3, <2>1
        <5>6. QED
          BY <4>1, <4>3, <5>4, <5>5
      <4>4. QED
        BY <4>2, <4>3
    <3>3. QED
      BY <3>1, <3>2
  <2> HIDE DEF g
  <2>6. Sol(m, g)
    BY <2>5
  <2>7. m \in 0..n
    OBVIOUS
  <2>8. QED
    BY <2>4, <2>6, <2>7
<1> HIDE DEF G
<1>3. \A k \in 0..n : k \in G
  BY <1>1, <1>2, UpTo
<1>4. n \in G
  BY <1>3
<1>5. QED
  BY <1>4 DEF G, IsFold

-----------------------------------------------------------------------------
(* RangeMath: sorting *)

LEMMA InsertAtProps ==
    ASSUME NEW S, NEW s \in Seq(S), NEW k \in 1..Len(s) + 1, NEW e \in S
    PROVE  /\ InsertAt(s, k, e) \in Seq(S) /\ Len(InsertAt(s, k, e)) = Len(s) + 1
           /\ \A i \in 1..Len(s) + 1 :
                 InsertAt(s, k, e)[i] = IF i < k THEN s[i] ELSE IF i = k THEN e ELSE s[i - 1]
<1> DEFINE a == SubSeq(s, 1, k - 1)
           b == <<e>>
           c == SubSeq(s, k, Len(s))
<1>0. Len(s) \in Nat
  OBVIOUS
<1>1. a \in Seq(S) /\ Len(a) = k - 1 /\ \A i \in 1..k - 1 : a[i] = s[i]
  BY <1>0, SubSeqProperties
<1>2. c \in Seq(S) /\ Len(c) = Len(s) - k + 1 /\ \A i \in 1..Len(s) - k + 1 : c[i] = s[k + i - 1]
  BY <1>0, SubSeqProperties
<1>3. b \in Seq(S) /\ Len(b) = 1 /\ b[1] = e
  OBVIOUS
<1> HIDE DEF a, b, c
<1>4. a \o b \in Seq(S) /\ Len(a \o b) = k
          /\ \A i \in 1..k : (a \o b)[i] = IF i < k THEN s[i] ELSE e
  <2>1. /\ a \o b \in Seq(S) /\ Len(a \o b) = Len(a) + Len(b)
        /\ \A i \in 1..Len(a) + Len(b) :
              (a \o b)[i] = IF i <= Len(a) THEN a[i] ELSE b[i - Len(a)]
    BY <1>1, <1>3, ConcatProperties
  <2>2. ASSUME NEW i \in 1..k PROVE (a \o b)[i] = IF i < k THEN s[i] ELSE e
    BY <2>1, <1>1, <1>3
  <2>3. QED
    BY <2>1, <2>2, <1>1, <1>3
<1>5. (a \o b) \o c \in Seq(S) /\ Len((a \o b) \o c) = Len(s) + 1
          /\ \A i \in 1..Len(s) + 1 :
                ((a \o b) \o c)[i] = IF i <= k THEN (a \o b)[i] ELSE c[i - k]
  <2>0. PICK ab : ab = a \o b
    OBVIOUS
  <2>1. ab \in Seq(S) /\ Len(ab) = k
    BY <1>4, <2>0
  <2>2. /\ ab \o c \in Seq(S) /\ Len(ab \o c) = Len(ab) + Len(c)
        /\ \A i \in 1..Len(ab) + Len(c) :
              (ab \o c)[i] = IF i <= Len(ab) THEN ab[i] ELSE c[i - Len(ab)]
    BY <1>2, <2>1, ConcatProperties
  <2>3. Len(ab) + Len(c) = Len(s) + 1
    BY <1>0, <1>2, <2>1
  <2>4. QED
    BY <2>0, <2>1, <2>2, <2>3
<1>6. InsertAt(s, k, e) = (a \o b) \o c
  BY DEF InsertAt, a, b, c
<1>9. PICK z : z = (a \o b) \o c
  OBVIOUS
<1>7. ASSUME NEW i \in 1..Len(s) + 1
      PROVE  z[i] = IF i < k THEN s[i] ELSE IF i = k THEN e ELSE s[i - 1]
  <2>1. CASE i <= k
    BY <2>1, <1>0, <1>4, <1>5, <1>9
  <2>2. CASE i > k
    <3>1. i - k \in 1..Len(s) - k + 1 /\ k + (i - k) - 1 = i - 1
      BY <2>2, <1>0
    <3>2. c[i - k] = s[i - 1]
      BY <3>1, <1>2
    <3>3. QED
      BY <2>2, <3>2, <1>0, <1>5, <1>9
  <2>3. QED
    BY <2>1, <2>2, <1>0
<1>8. QED
  BY <1>5, <1>6, <1>7, <1>9

\* Ranges on the grid, and lists of them in the order of sorted.
Spans == {r \in Grid \X Grid : r[1] <= r[2]}
Ascending(s) == \A i, j \in DOMAIN s : i < j => ~Earlier(s[j], s[i])
Sorted == {s \in Seq(Spans) : Ascending(s)}

LEMMA SpanOf ==
    ASSUME NEW r \in Spans
    PROVE  r[1] \in Nat /\ r[2] \in Nat /\ r = <<r[1], r[2]>> /\ r[1] \in Grid /\ r[2] \in Grid /\ r[1] <= r[2]
BY RangeConstants DEF Spans, Grid, Time

LEMMA EarlierOrders ==
    ASSUME NEW a \in Spans, NEW b \in Spans, NEW c \in Spans
    PROVE  /\ Earlier(a, b) => ~Earlier(b, a)
           /\ ~Earlier(b, a) /\ Earlier(b, c) => ~Earlier(c, a)
           /\ Earlier(a, b) /\ ~Earlier(c, b) => Earlier(a, c)
           /\ ~Earlier(b, a) /\ ~Earlier(c, b) => ~Earlier(c, a)
BY SpanOf DEF Earlier

LEMMA PlaceExists ==
    ASSUME NEW s \in Sorted, NEW r \in Spans
    PROVE  /\ Place(s, r) \in 1..Len(s) + 1
           /\ \A i \in 1..Place(s, r) - 1 : ~Earlier(r, s[i])
           /\ \A i \in Place(s, r)..Len(s) : Earlier(r, s[i])
<1>0. s \in Seq(Spans) /\ Len(s) \in Nat /\ DOMAIN s = 1..Len(s)
  BY DEF Sorted
<1> DEFINE T == {k \in 1..Len(s) + 1 : k = Len(s) + 1 \/ Earlier(r, s[k])}
<1>1. T \subseteq Nat /\ Len(s) + 1 \in T
  BY <1>0
<1>2. PICK k \in T : \A y \in T : k <= y
  <2> HIDE DEF T
  <2>1. QED
    BY <1>1, LeastNat
<1>3. k \in 1..Len(s) + 1
  OBVIOUS
<1>4. ASSUME NEW i \in 1..k - 1 PROVE ~Earlier(r, s[i])
  <2>1. i \in 1..Len(s) + 1 /\ ~(k <= i)
    BY <1>0, <1>3
  <2>2. QED
    BY <2>1, <1>2
<1>5. ASSUME NEW i \in k..Len(s) PROVE Earlier(r, s[i])
  <2>1. k \in 1..Len(s) /\ i \in 1..Len(s) /\ Earlier(r, s[k])
    BY <1>0, <1>3
  <2>2. CASE i = k
    BY <2>1, <2>2
  <2>3. CASE k < i
    <3>1. ~Earlier(s[i], s[k])
      BY <2>1, <2>3, <1>0 DEF Sorted, Ascending
    <3>2. s[i] \in Spans /\ s[k] \in Spans
      BY <2>1, <1>0
    <3>3. QED
      BY <2>1, <3>1, <3>2, EarlierOrders
  <2>4. QED
    BY <2>2, <2>3, <1>0, <1>3
<1> HIDE DEF T
<1>6. \E q \in 1..Len(s) + 1 : (\A i \in 1..q - 1 : ~Earlier(r, s[i])) /\ (\A i \in q..Len(s) : Earlier(r, s[i]))
  BY <1>3, <1>4, <1>5
<1>7. QED
  BY <1>6 DEF Place

LEMMA PutInOrderSound ==
    ASSUME NEW s \in Sorted, NEW r \in Spans
    PROVE  PutInOrder(s, r) \in Sorted /\ ToSet(PutInOrder(s, r)) = ToSet(s) \cup {r}
<1>0. s \in Seq(Spans) /\ Len(s) \in Nat /\ DOMAIN s = 1..Len(s)
  BY DEF Sorted
<1>1. PICK k \in 1..Len(s) + 1 : /\ k = Place(s, r)
                                 /\ \A i \in 1..k - 1 : ~Earlier(r, s[i])
                                 /\ \A i \in k..Len(s) : Earlier(r, s[i])
  BY PlaceExists
<1>2. PICK t : t = InsertAt(s, k, r)
  OBVIOUS
<1>3. /\ t \in Seq(Spans) /\ Len(t) = Len(s) + 1 /\ DOMAIN t = 1..Len(s) + 1
      /\ \A i \in 1..Len(s) + 1 : t[i] = IF i < k THEN s[i] ELSE IF i = k THEN r ELSE s[i - 1]
  <2>1. /\ t \in Seq(Spans) /\ Len(t) = Len(s) + 1
        /\ \A i \in 1..Len(s) + 1 : t[i] = IF i < k THEN s[i] ELSE IF i = k THEN r ELSE s[i - 1]
    <3> HIDE DEF Spans
    <3>1. s \in Seq(Spans) /\ k \in 1..Len(s) + 1 /\ r \in Spans
      BY <1>0
    <3>2. QED
      <4>0. PICK X : X = Spans
        OBVIOUS
      <4>1. s \in Seq(X) /\ k \in 1..Len(s) + 1 /\ r \in X
        BY <3>1, <4>0
      <4>2. /\ InsertAt(s, k, r) \in Seq(X) /\ Len(InsertAt(s, k, r)) = Len(s) + 1
            /\ \A i \in 1..Len(s) + 1 :
                  InsertAt(s, k, r)[i] = IF i < k THEN s[i] ELSE IF i = k THEN r ELSE s[i - 1]
        BY <4>1, InsertAtProps
      <4>3. QED
        BY <4>0, <4>2, <1>2
  <2>2. QED
    BY <2>1
<1>4. ASSUME NEW i \in DOMAIN t, NEW j \in DOMAIN t, i < j PROVE ~Earlier(t[j], t[i])
  <2>0. i \in 1..Len(s) + 1 /\ j \in 1..Len(s) + 1
    BY <1>3
  <2>1. CASE j < k
    <3>1. t[i] = s[i] /\ t[j] = s[j] /\ i \in DOMAIN s /\ j \in DOMAIN s
      BY <2>0, <2>1, <1>0, <1>3, <1>4
    <3>2. QED
      BY <3>1, <1>4 DEF Sorted, Ascending
  <2>2. CASE i > k
    <3>1. t[i] = s[i - 1] /\ t[j] = s[j - 1] /\ i - 1 \in DOMAIN s /\ j - 1 \in DOMAIN s /\ i - 1 < j - 1
      BY <2>0, <2>2, <1>0, <1>3, <1>4
    <3>2. QED
      BY <3>1 DEF Sorted, Ascending
  <2>3. CASE i < k /\ j = k
    <3>1. t[i] = s[i] /\ t[j] = r /\ i \in 1..k - 1
      BY <2>0, <2>3, <1>0, <1>3
    <3>2. QED
      BY <3>1, <1>1
  <2>4. CASE i = k /\ j > k
    <3>1. t[i] = r /\ t[j] = s[j - 1] /\ j - 1 \in k..Len(s) /\ j - 1 \in DOMAIN s
      BY <2>0, <2>4, <1>0, <1>3
    <3>2. Earlier(r, s[j - 1]) /\ s[j - 1] \in Spans
      BY <3>1, <1>0, <1>1
    <3>3. QED
      BY <3>1, <3>2, EarlierOrders
  <2>5. CASE i < k /\ j > k
    <3>1. t[i] = s[i] /\ t[j] = s[j - 1] /\ i \in 1..k - 1 /\ j - 1 \in k..Len(s)
              /\ i \in DOMAIN s /\ j - 1 \in DOMAIN s
      BY <2>0, <2>5, <1>0, <1>3
    <3>2. Earlier(r, s[j - 1]) /\ ~Earlier(r, s[i]) /\ s[i] \in Spans /\ s[j - 1] \in Spans
      BY <3>1, <1>0, <1>1
    <3>3. QED
      BY <3>1, <3>2, EarlierOrders
  <2>6. QED
    BY <2>0, <2>1, <2>2, <2>3, <2>4, <2>5, <1>4
<1>5. t \in Sorted
  BY <1>3, <1>4 DEF Sorted, Ascending
<1>6. ToSet(t) = ToSet(s) \cup {r}
  <2>1. ASSUME NEW i \in 1..Len(s) + 1 PROVE t[i] \in ToSet(s) \cup {r}
    <3>1. CASE i < k
      BY <3>1, <1>0, <1>3 DEF ToSet
    <3>2. CASE i = k
      BY <3>2, <1>3
    <3>3. CASE i > k
      <4>1. t[i] = s[i - 1] /\ i - 1 \in DOMAIN s
        BY <3>3, <1>0, <1>3
      <4>2. QED
        BY <4>1 DEF ToSet
    <3>4. QED
      BY <3>1, <3>2, <3>3, <1>0
  <2>2. ASSUME NEW i \in 1..Len(s) PROVE s[i] \in ToSet(t)
    <3>1. CASE i < k
      BY <3>1, <1>0, <1>3 DEF ToSet
    <3>2. CASE i >= k
      <4>1. i + 1 \in 1..Len(s) + 1 /\ t[i + 1] = s[i]
        BY <3>2, <1>0, <1>3
      <4>2. QED
        BY <4>1, <1>3 DEF ToSet
    <3>3. QED
      BY <3>1, <3>2, <1>0
  <2>3. r \in ToSet(t)
    BY <1>3 DEF ToSet
  <2>4. QED
    BY <2>1, <2>2, <2>3, <1>0, <1>3 DEF ToSet
<1>7. QED
  BY <1>1, <1>2, <1>5, <1>6 DEF PutInOrder

\* sorted, one range after the other.
LEMMA InOrderRun ==
    ASSUME NEW rs \in Seq(Spans)
    PROVE  \E h \in [0..Len(rs) -> Sorted] :
              /\ h[0] = <<>>
              /\ \A k \in 1..Len(rs) : h[k] = PutInOrder(h[k - 1], rs[k])
              /\ InOrder(rs) = h[Len(rs)]
<1> DEFINE size == Len(rs)
           steps == [k \in 1..size |-> [x \in Sorted |-> PutInOrder(x, rs[k])]]
           Eq(f) == f = [s \in SUBSET DOMAIN rs |->
                            IF s = {} THEN <<>> ELSE PutInOrder(f[s \ {Max(s)}], rs[Max(s)])]
<1>0. size \in Nat /\ DOMAIN rs = 1..size
  OBVIOUS
<1>1. <<>> \in Sorted
  <2>1. <<>> \in Seq(Spans)
    OBVIOUS
  <2>2. QED
    BY <2>1 DEF Sorted, Ascending
<1>2. steps \in [1..size -> [Sorted -> Sorted]]
  <2>1. ASSUME NEW k \in 1..size, NEW x \in Sorted PROVE PutInOrder(x, rs[k]) \in Sorted
    <3>1. rs[k] \in Spans
      BY <1>0
    <3>2. QED
      BY <3>1, PutInOrderSound
  <2>2. QED
    BY <2>1
<1> HIDE DEF steps, size
<1>3. PICK f \in [SUBSET (1..size) -> Sorted] :
          \A s \in SUBSET (1..size) : f[s] = IF s = {} THEN <<>> ELSE steps[Max(s)][f[s \ {Max(s)}]]
  <2>0. PICK X : X = Sorted
    OBVIOUS
  <2>1. PICK b : b = <<>>
    OBVIOUS
  <2>2. b \in X /\ size \in Nat /\ steps \in [1..size -> [X -> X]]
    BY <1>0, <1>1, <1>2, <2>0, <2>1
  <2>3. \E f \in [SUBSET (1..size) -> X] : IsFold(f, size, b, steps)
    BY <2>2, FoldExists
  <2>4. QED
    BY <2>0, <2>1, <2>3 DEF IsFold
<1>4. ASSUME NEW s \in SUBSET (1..size), s # {}
      PROVE  steps[Max(s)][f[s \ {Max(s)}]] = PutInOrder(f[s \ {Max(s)}], rs[Max(s)])
  <2>1. Max(s) \in 1..size /\ s \ {Max(s)} \in SUBSET (1..size)
    BY <1>0, <1>4, MaxOf
  <2>2. f[s \ {Max(s)}] \in Sorted
    BY <2>1
  <2>3. QED
    BY <2>1, <2>2 DEF steps
<1>5. Eq(f)
  BY <1>0, <1>3, <1>4
<1>6. PICK g : g = CHOOSE v : Eq(v)
  OBVIOUS
<1>7. Eq(g)
  BY <1>5, <1>6
<1>8. InOrder(rs) = g[DOMAIN rs]
  BY <1>6 DEF InOrder, FoldLeft, MapThenFoldSet
<1>9. g[{}] = <<>>
  BY <1>7
<1>10. ASSUME NEW k \in 1..size PROVE g[1..k] = PutInOrder(g[1..k - 1], rs[k])
  <2>1. 1..k \in SUBSET DOMAIN rs /\ 1..k # {} /\ Max(1..k) = k /\ (1..k) \ {Max(1..k)} = 1..k - 1
    BY <1>0, MaxPrefix
  <2>2. g[1..k] = PutInOrder(g[(1..k) \ {Max(1..k)}], rs[Max(1..k)])
    BY <1>7, <2>1
  <2>3. QED
    BY <2>1, <2>2
<1> HIDE DEF Eq
<1> DEFINE h == [k \in 0..size |-> g[1..k]]
           J == {k \in 0..size : g[1..k] \in Sorted}
<1>11. 1..0 = {} /\ 0 \in 0..size
  BY <1>0
<1>12. 0 \in J
  BY <1>1, <1>9, <1>11
<1>13. ASSUME NEW k \in 1..size, k - 1 \in J PROVE k \in J
  <2>1. k \in 0..size /\ k - 1 \in 0..size
    BY <1>0
  <2>2. g[1..k - 1] \in Sorted
    BY <1>13
  <2>3. steps[k][g[1..k - 1]] \in Sorted
    BY <2>2, <1>2
  <2>4. steps[k][g[1..k - 1]] = PutInOrder(g[1..k - 1], rs[k])
    BY <2>2 DEF steps
  <2>5. QED
    BY <1>10, <2>1, <2>3, <2>4
<1> HIDE DEF J
<1>14. \A k \in 0..size : k \in J
  BY <1>0, <1>12, <1>13, UpTo
<1>15. h \in [0..size -> Sorted]
  BY <1>14 DEF J
<1>16. h[0] = <<>>
  BY <1>9, <1>11
<1>17. ASSUME NEW k \in 1..size PROVE h[k] = PutInOrder(h[k - 1], rs[k])
  <2>1. k \in 0..size /\ k - 1 \in 0..size
    BY <1>0
  <2>2. h[k] = g[1..k] /\ h[k - 1] = g[1..k - 1]
    BY <2>1
  <2>3. QED
    BY <2>2, <1>10
<1>18. InOrder(rs) = h[size]
  <2>1. size \in 0..size
    BY <1>0
  <2>2. QED
    BY <2>1, <1>0, <1>8
<1> HIDE DEF h
<1>19. QED
  BY <1>15, <1>16, <1>17, <1>18 DEF size

\* sorted returns the ranges it is given, in order.
LEMMA InOrderSound ==
    ASSUME NEW rs \in Seq(Spans)
    PROVE  InOrder(rs) \in Sorted /\ ToSet(InOrder(rs)) = ToSet(rs)
<1> DEFINE size == Len(rs)
<1>0. size \in Nat /\ DOMAIN rs = 1..size /\ \A k \in 1..size : rs[k] \in Spans
  OBVIOUS
<1>1. PICK h \in [0..size -> Sorted] :
         /\ h[0] = <<>> /\ InOrder(rs) = h[size]
         /\ \A k \in 1..size : h[k] = PutInOrder(h[k - 1], rs[k])
  BY InOrderRun
<1> HIDE DEF size
<1> DEFINE J == {k \in 0..size : ToSet(h[k]) = {rs[i] : i \in 1..k}}
<1>11. 0 \in J
  <2>1. 1..0 = {} /\ 0 \in 0..size
    BY <1>0
  <2>2. {rs[i] : i \in 1..0} = {} /\ ToSet(<<>>) = {}
    BY DEF ToSet
  <2>3. QED
    BY <2>1, <2>2, <1>1
<1>12. ASSUME NEW k \in 1..size, k - 1 \in J PROVE k \in J
  <2>3. k \in 0..size /\ k - 1 \in 0..size
    BY <1>0
  <2>1. ToSet(h[k]) = {rs[i] : i \in 1..k - 1} \cup {rs[k]}
    <3>1. h[k - 1] \in Sorted /\ rs[k] \in Spans /\ ToSet(h[k - 1]) = {rs[i] : i \in 1..k - 1}
      BY <1>0, <1>1, <1>12, <2>3
    <3>2. ToSet(PutInOrder(h[k - 1], rs[k])) = ToSet(h[k - 1]) \cup {rs[k]}
      BY <3>1, PutInOrderSound
    <3>3. QED
      BY <1>1, <3>1, <3>2
  <2>2. {rs[i] : i \in 1..k - 1} \cup {rs[k]} = {rs[i] : i \in 1..k}
    <3>1. 1..k = (1..k - 1) \cup {k}
      OBVIOUS
    <3>2. QED
      BY <3>1
  <2>4. QED
    BY <2>1, <2>2, <2>3
<1> HIDE DEF J
<1>13. \A k \in 0..size : k \in J
  BY <1>0, <1>11, <1>12, UpTo
<1>14. InOrder(rs) \in Sorted /\ ToSet(InOrder(rs)) = {rs[i] : i \in 1..size}
  <2>1. size \in 0..size
    BY <1>0
  <2>2. size \in J
    BY <1>13, <2>1
  <2>3. QED
    BY <2>1, <2>2, <1>1 DEF J
<1>15. QED
  BY <1>0, <1>14 DEF ToSet

-----------------------------------------------------------------------------
(* RangeMath: merging *)

\* Ranges on the grid between two times.
Within(lo, hi) == {r \in Spans : lo <= r[1] /\ r[2] <= hi}

LEMMA WithinOf ==
    ASSUME NEW lo \in Nat, NEW hi \in Nat, NEW r \in Within(lo, hi)
    PROVE  /\ r \in Spans /\ r \in Grid \X Grid /\ r = <<r[1], r[2]>>
           /\ r[1] \in Grid /\ r[2] \in Grid /\ r[1] \in Nat /\ r[2] \in Nat
           /\ r[1] <= r[2] /\ lo <= r[1] /\ r[2] <= hi
BY SpanOf DEF Within, Spans

LEMMA WithinMade ==
    ASSUME NEW lo \in Nat, NEW hi \in Nat, NEW a \in Grid, NEW b \in Grid, lo <= a, a <= b, b <= hi
    PROVE  <<a, b>> \in Within(lo, hi)
BY DEF Within, Spans

\* A bar of a list of ranges is in one of them.
LEMMA CoveredOn ==
    ASSUME NEW lo \in Nat, NEW hi \in Nat, NEW rs \in Seq(Within(lo, hi)), NEW t
    PROVE  t \in Covered(rs) <=>
              t \in Grid /\ \E k \in 1..Len(rs) : rs[k][1] <= t /\ t <= rs[k][2]
<1>1. DOMAIN rs = 1..Len(rs) /\ \A k \in 1..Len(rs) : rs[k] \in Within(lo, hi)
  OBVIOUS
<1>2. ASSUME NEW k \in 1..Len(rs)
      PROVE  t \in Bars(rs[k]) <=> t \in Grid /\ rs[k][1] <= t /\ t <= rs[k][2]
  <2>1. rs[k] \in Grid \X Grid
    BY <1>1, WithinOf
  <2>2. QED
    BY <2>1, BarsOnGrid
<1>3. t \in Covered(rs) <=> \E k \in 1..Len(rs) : t \in Bars(rs[k])
  BY <1>1 DEF Covered
<1>4. QED
  BY <1>2, <1>3

\* The bars of the first k ranges of a list.
CoveredTo(rs, k) == UNION {Bars(rs[i]) : i \in 1..k}

LEMMA CoveredStep ==
    /\ \A rs : CoveredTo(rs, 0) = {}
    /\ \A rs : \A k \in Nat \ {0} : CoveredTo(rs, k) = CoveredTo(rs, k - 1) \cup Bars(rs[k])
    /\ \A S : \A rs \in Seq(S) : Covered(rs) = CoveredTo(rs, Len(rs))
<1>1. ASSUME NEW rs PROVE CoveredTo(rs, 0) = {}
  BY DEF CoveredTo
<1>2. ASSUME NEW rs, NEW k \in Nat \ {0}
      PROVE  CoveredTo(rs, k) = CoveredTo(rs, k - 1) \cup Bars(rs[k])
  <2>1. 1..k = (1..k - 1) \cup {k}
    OBVIOUS
  <2>2. ASSUME NEW t PROVE t \in CoveredTo(rs, k) <=> \E i \in 1..k : t \in Bars(rs[i])
    BY DEF CoveredTo
  <2>3. ASSUME NEW t PROVE t \in CoveredTo(rs, k - 1) <=> \E i \in 1..k - 1 : t \in Bars(rs[i])
    BY DEF CoveredTo
  <2>4. ASSUME NEW t
        PROVE  t \in CoveredTo(rs, k) <=> t \in CoveredTo(rs, k - 1) \cup Bars(rs[k])
    BY <2>1, <2>2, <2>3
  <2>5. QED
    BY <2>4
<1>3. ASSUME NEW S, NEW rs \in Seq(S) PROVE Covered(rs) = CoveredTo(rs, Len(rs))
  BY DEF Covered, CoveredTo
<1>4. QED
  BY <1>1, <1>2, <1>3

\* The next range is joined to the last one or put behind it: no bar is made up, and none
\* is lost when the ranges come in order.
LEMMA JoinSound ==
    ASSUME NEW lo \in Nat, NEW hi \in Nat, NEW m \in Seq(Within(lo, hi)), NEW r \in Within(lo, hi)
    PROVE  /\ Join(0, m, r) \in Seq(Within(lo, hi)) /\ Len(Join(0, m, r)) > 0
           /\ Covered(Join(0, m, r)) \subseteq Covered(m) \cup Bars(r)
           /\ (Len(m) > 0 => m[Len(m)][1] <= r[1]) =>
                 /\ Covered(m) \cup Bars(r) \subseteq Covered(Join(0, m, r))
                 /\ Join(0, m, r)[Len(Join(0, m, r))][1] <= r[1]
<1>0. /\ Len(m) \in Nat /\ DOMAIN m = 1..Len(m) /\ (m = <<>> <=> Len(m) = 0)
      /\ \A k \in 1..Len(m) : m[k] \in Within(lo, hi)
  BY EmptySeq
<1>1. /\ r \in Grid \X Grid /\ r[1] \in Grid /\ r[2] \in Grid /\ r[1] \in Nat /\ r[2] \in Nat
      /\ r[1] <= r[2] /\ lo <= r[1] /\ r[2] <= hi
  BY WithinOf
<1>2. PICK j : j = Join(0, m, r)
  OBVIOUS
<1>3. Bars(r) = {t \in Grid : r[1] <= t /\ t <= r[2]}
  BY <1>1, BarsOnGrid
<1>4. Grid \subseteq Nat
  BY RangeConstants DEF Grid, Time
<1>5. CASE Len(m) > 0 /\ r[1] <= m[Len(m)][2]
  <2> DEFINE n == Len(m)
             e == <<m[n][1], Later(m[n][2], r[2])>>
  <2>0. n \in 1..Len(m) /\ n = Len(m)
    BY <1>0, <1>5
  <2>1. /\ m[n][1] \in Grid /\ m[n][2] \in Grid /\ m[n][1] \in Nat /\ m[n][2] \in Nat
        /\ m[n][1] <= m[n][2] /\ lo <= m[n][1] /\ m[n][2] <= hi
    BY <2>0, <1>0, WithinOf
  <2>2. /\ e \in Within(lo, hi) /\ e[1] = m[n][1] /\ m[n][2] <= e[2] /\ r[2] <= e[2]
        /\ (e[2] = m[n][2] \/ e[2] = r[2])
    BY <2>1, <1>1, WithinMade DEF Later
  <2>3. j = [m EXCEPT ![n] = e]
    <3>1. m # <<>> /\ r[1] <= Last(m)[2] + 0 /\ Last(m) = m[n]
      BY <1>0, <1>1, <1>5, <2>1 DEF Last
    <3>2. QED
      BY <3>1, <1>2 DEF Join, Last
  <2> HIDE DEF e, n
  <2>4. /\ j \in Seq(Within(lo, hi)) /\ Len(j) = Len(m)
        /\ \A k \in 1..Len(m) : j[k] = IF k = n THEN e ELSE m[k]
    <3>1. PICK X : X = Within(lo, hi)
      OBVIOUS
    <3>2. m \in Seq(X) /\ e \in X
      BY <2>2, <3>1
    <3>3. QED
      BY <2>0, <2>3, <3>1, <3>2, ExceptSeq
  <2>5. ASSUME NEW t \in Covered(j) PROVE t \in Covered(m) \cup Bars(r)
    <3>1. PICK k \in 1..Len(m) : t \in Grid /\ j[k][1] <= t /\ t <= j[k][2]
      BY <2>4, CoveredOn
    <3>2. CASE k # n
      BY <3>1, <3>2, <2>4, CoveredOn
    <3>3. CASE k = n
      <4>1. t \in Nat /\ e[1] <= t /\ t <= e[2]
        BY <3>1, <3>3, <2>4, <1>4
      <4>2. CASE t <= m[n][2]
        BY <4>1, <4>2, <3>1, <2>0, <2>2, CoveredOn
      <4>3. CASE m[n][2] < t
        <5>1. r[1] <= t /\ t <= r[2]
          BY <4>1, <4>3, <2>0, <2>1, <2>2, <1>1, <1>5
        <5>2. QED
          BY <5>1, <3>1, <1>3
      <4>4. QED
        BY <4>1, <4>2, <4>3, <2>1
    <3>4. QED
      BY <3>2, <3>3
  <2>6. ASSUME m[n][1] <= r[1], NEW t \in Covered(m) \cup Bars(r) PROVE t \in Covered(j)
    <3>1. CASE t \in Covered(m)
      <4>1. PICK k \in 1..Len(m) : t \in Grid /\ m[k][1] <= t /\ t <= m[k][2]
        BY <3>1, CoveredOn
      <4>2. j[k][1] <= t /\ t <= j[k][2]
        <5>1. CASE k # n
          BY <5>1, <4>1, <2>4
        <5>2. CASE k = n
          <6>1. t \in Nat /\ j[k] = e /\ m[n][1] <= t /\ t <= m[n][2] /\ e[2] \in Nat
            BY <5>2, <4>1, <2>0, <2>2, <2>4, <1>4, WithinOf
          <6>2. QED
            BY <6>1, <2>1, <2>2
        <5>3. QED
          BY <5>1, <5>2
      <4>3. QED
        BY <4>1, <4>2, <2>4, CoveredOn
    <3>2. CASE t \in Bars(r)
      <4>1. t \in Grid /\ t \in Nat /\ r[1] <= t /\ t <= r[2] /\ e[2] \in Nat
        BY <3>2, <1>3, <1>4, <2>2, WithinOf
      <4>2. j[n][1] <= t /\ t <= j[n][2]
        <5>1. j[n] = e
          BY <2>0, <2>4
        <5>2. e[1] <= t /\ t <= e[2]
          BY <4>1, <2>6, <2>1, <2>2, <1>1
        <5>3. QED
          BY <5>1, <5>2
      <4>3. QED
        BY <4>1, <4>2, <2>0, <2>4, CoveredOn
    <3>3. QED
      BY <3>1, <3>2, <2>6
  <2>7. Len(j) > 0 /\ j[Len(j)][1] = m[n][1]
    BY <2>0, <2>2, <2>4, <1>5
  <2>8. Len(m) > 0 /\ m[Len(m)][1] = m[n][1]
    BY <2>0, <1>5
  <2>9. QED
    BY <1>2, <2>4, <2>5, <2>6, <2>7, <2>8
<1>6. CASE ~(Len(m) > 0 /\ r[1] <= m[Len(m)][2])
  <2>1. j = Append(m, r)
    <3>1. ~(m # <<>> /\ r[1] <= Last(m)[2] + 0)
      <4>1. CASE m = <<>>
        BY <4>1
      <4>2. CASE m # <<>>
        <5>1. Len(m) \in 1..Len(m)
          BY <4>2, <1>0
        <5>2. m[Len(m)][2] \in Nat
          BY <5>1, <1>0, WithinOf
        <5>3. QED
          BY <5>1, <5>2, <1>0, <1>6 DEF Last
      <4>3. QED
        BY <4>1, <4>2
    <3>2. QED
      BY <3>1, <1>2 DEF Join
  <2>2. /\ j \in Seq(Within(lo, hi)) /\ Len(j) = Len(m) + 1 /\ j[Len(m) + 1] = r
        /\ \A k \in 1..Len(m) : j[k] = m[k]
    BY <2>1, AppendProperties
  <2>3. ASSUME NEW t \in Covered(j) PROVE t \in Covered(m) \cup Bars(r)
    <3>1. PICK k \in 1..Len(m) + 1 : t \in Grid /\ j[k][1] <= t /\ t <= j[k][2]
      BY <2>2, CoveredOn
    <3>2. CASE k \in 1..Len(m)
      BY <3>1, <3>2, <2>2, CoveredOn
    <3>3. CASE k = Len(m) + 1
      BY <3>1, <3>3, <2>2, <1>3
    <3>4. QED
      BY <3>2, <3>3, <1>0
  <2>4. ASSUME NEW t \in Covered(m) \cup Bars(r) PROVE t \in Covered(j)
    <3>1. CASE t \in Covered(m)
      <4>1. PICK k \in 1..Len(m) : t \in Grid /\ m[k][1] <= t /\ t <= m[k][2]
        BY <3>1, CoveredOn
      <4>2. k \in 1..Len(j) /\ j[k] = m[k]
        BY <2>2, <1>0
      <4>3. QED
        BY <4>1, <4>2, <2>2, CoveredOn
    <3>2. CASE t \in Bars(r)
      <4>1. t \in Grid /\ r[1] <= t /\ t <= r[2] /\ Len(m) + 1 \in 1..Len(j)
        BY <3>2, <1>0, <1>3, <2>2
      <4>2. QED
        BY <4>1, <2>2, CoveredOn
    <3>3. QED
      BY <3>1, <3>2, <2>4
  <2>5. Len(j) > 0 /\ j[Len(j)][1] <= r[1]
    BY <2>2, <1>0, <1>1
  <2>6. QED
    BY <1>2, <2>2, <2>3, <2>4, <2>5
<1>7. QED
  BY <1>5, <1>6

\* What is joined to the last range of a list, or put behind it, stays within its times.
LEMMA JoinTyped ==
    ASSUME NEW gap \in Nat, NEW lo \in Nat, NEW hi \in Nat, NEW m \in Seq(Within(lo, hi)), NEW r \in Within(lo, hi)
    PROVE  Join(gap, m, r) \in Seq(Within(lo, hi))
<1>0. /\ Len(m) \in Nat /\ DOMAIN m = 1..Len(m) /\ (m = <<>> <=> Len(m) = 0)
      /\ \A k \in 1..Len(m) : m[k] \in Within(lo, hi)
  BY EmptySeq
<1>1. r \in Grid \X Grid /\ r[1] \in Nat /\ r[2] \in Grid /\ r[2] \in Nat /\ r[2] <= hi
  BY WithinOf
<1>2. CASE m # <<>> /\ r[1] <= Last(m)[2] + gap
  <2> DEFINE n == Len(m)
             e == <<m[n][1], Later(m[n][2], r[2])>>
  <2>0. n \in 1..Len(m) /\ n = Len(m)
    BY <1>0, <1>2
  <2>1. /\ m[n][1] \in Grid /\ m[n][2] \in Grid /\ m[n][1] \in Nat /\ m[n][2] \in Nat
        /\ m[n][1] <= m[n][2] /\ lo <= m[n][1] /\ m[n][2] <= hi
    BY <2>0, <1>0, WithinOf
  <2>2. e \in Within(lo, hi)
    BY <2>1, <1>1, WithinMade DEF Later
  <2>3. Join(gap, m, r) = [m EXCEPT ![n] = e]
    BY <1>2 DEF Join, Last
  <2> HIDE DEF e, n
  <2>4. PICK X : X = Within(lo, hi)
    OBVIOUS
  <2>5. m \in Seq(X) /\ e \in X
    BY <2>2, <2>4
  <2>6. [m EXCEPT ![n] = e] \in Seq(X)
    BY <2>0, <2>5, ExceptSeq
  <2>7. QED
    BY <2>3, <2>4, <2>6
<1>3. CASE ~(m # <<>> /\ r[1] <= Last(m)[2] + gap)
  <2>1. Join(gap, m, r) = Append(m, r)
    BY <1>3 DEF Join
  <2>2. QED
    BY <2>1, AppendProperties
<1>4. QED
  BY <1>2, <1>3

\* The ranges of a sorted list that are at most a gap apart are joined.
GapSorted(gap, sorted) == FoldLeft(LAMBDA merged, r : Join(gap, merged, r), <<>>, sorted)

\* Merging, one range after the other.
LEMMA GapRun ==
    ASSUME NEW gap \in Nat, NEW lo \in Nat, NEW hi \in Nat, NEW sorted \in Seq(Within(lo, hi))
    PROVE  \E h \in [0..Len(sorted) -> Seq(Within(lo, hi))] :
              /\ h[0] = <<>>
              /\ \A k \in 1..Len(sorted) : h[k] = Join(gap, h[k - 1], sorted[k])
              /\ GapSorted(gap, sorted) = h[Len(sorted)]
<1> DEFINE size == Len(sorted)
           steps == [k \in 1..size |-> [x \in Seq(Within(lo, hi)) |-> Join(gap, x, sorted[k])]]
           Eq(f) == f = [s \in SUBSET DOMAIN sorted |->
                            IF s = {} THEN <<>> ELSE Join(gap, f[s \ {Max(s)}], sorted[Max(s)])]
<1>0. size \in Nat /\ DOMAIN sorted = 1..size
  OBVIOUS
<1>1. <<>> \in Seq(Within(lo, hi))
  OBVIOUS
<1>2. steps \in [1..size -> [Seq(Within(lo, hi)) -> Seq(Within(lo, hi))]]
  <2>1. ASSUME NEW k \in 1..size, NEW x \in Seq(Within(lo, hi))
        PROVE  Join(gap, x, sorted[k]) \in Seq(Within(lo, hi))
    <3>1. sorted[k] \in Within(lo, hi)
      BY <1>0
    <3>2. QED
      BY <3>1, JoinTyped
  <2>2. QED
    BY <2>1
<1> HIDE DEF steps, size
<1>3. PICK f \in [SUBSET (1..size) -> Seq(Within(lo, hi))] :
          \A s \in SUBSET (1..size) : f[s] = IF s = {} THEN <<>> ELSE steps[Max(s)][f[s \ {Max(s)}]]
  <2>0. PICK X : X = Seq(Within(lo, hi))
    OBVIOUS
  <2>1. PICK b : b = <<>>
    OBVIOUS
  <2>2. b \in X /\ size \in Nat /\ steps \in [1..size -> [X -> X]]
    BY <1>0, <1>1, <1>2, <2>0, <2>1
  <2>3. \E f \in [SUBSET (1..size) -> X] : IsFold(f, size, b, steps)
    BY <2>2, FoldExists
  <2>4. QED
    BY <2>0, <2>1, <2>3 DEF IsFold
<1>4. ASSUME NEW s \in SUBSET (1..size), s # {}
      PROVE  steps[Max(s)][f[s \ {Max(s)}]] = Join(gap, f[s \ {Max(s)}], sorted[Max(s)])
  <2>1. Max(s) \in 1..size /\ s \ {Max(s)} \in SUBSET (1..size)
    BY <1>0, <1>4, MaxOf
  <2>2. f[s \ {Max(s)}] \in Seq(Within(lo, hi))
    BY <2>1
  <2>3. QED
    BY <2>1, <2>2 DEF steps
<1>5. Eq(f)
  BY <1>0, <1>3, <1>4
<1>6. PICK g : g = CHOOSE v : Eq(v)
  OBVIOUS
<1>7. Eq(g)
  BY <1>5, <1>6
<1>8. GapSorted(gap, sorted) = g[DOMAIN sorted]
  BY <1>6 DEF GapSorted, FoldLeft, MapThenFoldSet
<1>9. g[{}] = <<>>
  BY <1>7
<1>10. ASSUME NEW k \in 1..size PROVE g[1..k] = Join(gap, g[1..k - 1], sorted[k])
  <2>1. 1..k \in SUBSET DOMAIN sorted /\ 1..k # {} /\ Max(1..k) = k /\ (1..k) \ {Max(1..k)} = 1..k - 1
    BY <1>0, MaxPrefix
  <2>2. g[1..k] = Join(gap, g[(1..k) \ {Max(1..k)}], sorted[Max(1..k)])
    BY <1>7, <2>1
  <2>3. QED
    BY <2>1, <2>2
<1> HIDE DEF Eq
<1> DEFINE h == [k \in 0..size |-> g[1..k]]
           J == {k \in 0..size : g[1..k] \in Seq(Within(lo, hi))}
<1>11. 1..0 = {} /\ 0 \in 0..size
  BY <1>0
<1>12. 0 \in J
  BY <1>1, <1>9, <1>11
<1>13. ASSUME NEW k \in 1..size, k - 1 \in J PROVE k \in J
  <2>1. k \in 0..size /\ k - 1 \in 0..size
    BY <1>0
  <2>2. g[1..k - 1] \in Seq(Within(lo, hi))
    BY <1>13
  <2>3. steps[k][g[1..k - 1]] \in Seq(Within(lo, hi))
    BY <2>2, <1>2
  <2>4. steps[k][g[1..k - 1]] = Join(gap, g[1..k - 1], sorted[k])
    BY <2>2 DEF steps
  <2>5. QED
    BY <1>10, <2>1, <2>3, <2>4
<1> HIDE DEF J
<1>14. \A k \in 0..size : k \in J
  BY <1>0, <1>12, <1>13, UpTo
<1>15. h \in [0..size -> Seq(Within(lo, hi))]
  BY <1>14 DEF J
<1>16. h[0] = <<>>
  BY <1>9, <1>11
<1>17. ASSUME NEW k \in 1..size PROVE h[k] = Join(gap, h[k - 1], sorted[k])
  <2>1. k \in 0..size /\ k - 1 \in 0..size
    BY <1>0
  <2>2. h[k] = g[1..k] /\ h[k - 1] = g[1..k - 1]
    BY <2>1
  <2>3. QED
    BY <2>2, <1>10
<1>18. GapSorted(gap, sorted) = h[size]
  <2>1. size \in 0..size
    BY <1>0
  <2>2. QED
    BY <2>1, <1>0, <1>8
<1> HIDE DEF h
<1>19. QED
  BY <1>15, <1>16, <1>17, <1>18 DEF size

\* _RangeOperations.merge keeps within the times of its ranges and covers what they cover.
LEMMA MergeSound ==
    ASSUME NEW lo \in Nat, NEW hi \in Nat, NEW rs \in Seq(Within(lo, hi))
    PROVE  /\ MergeRanges(rs) \in Seq(Within(lo, hi))
           /\ Covered(MergeRanges(rs)) = Covered(rs)
<1>0. Len(rs) \in Nat /\ DOMAIN rs = 1..Len(rs) /\ \A k \in 1..Len(rs) : rs[k] \in Within(lo, hi)
  OBVIOUS
<1>1. rs \in Seq(Spans)
  BY <1>0, SeqMonotonic DEF Within
<1>2. PICK sorted : sorted = InOrder(rs)
  OBVIOUS
<1>3. sorted \in Sorted /\ ToSet(sorted) = ToSet(rs)
  BY <1>1, <1>2, InOrderSound
<1>4. sorted \in Seq(Spans) /\ Len(sorted) \in Nat /\ DOMAIN sorted = 1..Len(sorted)
  BY <1>3 DEF Sorted
<1>5. ASSUME NEW k \in 1..Len(sorted) PROVE \E i \in 1..Len(rs) : sorted[k] = rs[i]
  BY <1>0, <1>3, <1>4 DEF ToSet
<1>6. ASSUME NEW i \in 1..Len(rs) PROVE \E k \in 1..Len(sorted) : sorted[k] = rs[i]
  BY <1>0, <1>3, <1>4 DEF ToSet
<1>7. sorted \in Seq(Within(lo, hi))
  <2>1. ASSUME NEW k \in 1..Len(sorted) PROVE sorted[k] \in Within(lo, hi)
    BY <1>0, <1>5
  <2>2. QED
    BY <2>1, <1>4
<1>8. ASSUME NEW t PROVE t \in Covered(sorted) <=> t \in Covered(rs)
  <2>1. t \in Covered(sorted) <=> t \in Grid /\ \E k \in 1..Len(sorted) : sorted[k][1] <= t /\ t <= sorted[k][2]
    BY <1>7, CoveredOn
  <2>2. t \in Covered(rs) <=> t \in Grid /\ \E k \in 1..Len(rs) : rs[k][1] <= t /\ t <= rs[k][2]
    BY CoveredOn
  <2>3. QED
    BY <2>1, <2>2, <1>5, <1>6
<1>9. ASSUME NEW i \in 1..Len(sorted), NEW k \in 1..Len(sorted), i < k
      PROVE  sorted[i][1] <= sorted[k][1]
  <2>1. ~Earlier(sorted[k], sorted[i])
    BY <1>3, <1>4, <1>9 DEF Sorted, Ascending
  <2>2. sorted[k] \in Within(lo, hi) /\ sorted[i] \in Within(lo, hi)
    BY <1>7
  <2>3. sorted[k][1] \in Nat /\ sorted[i][1] \in Nat
    BY <2>2, WithinOf
  <2>4. QED
    BY <2>1, <2>3 DEF Earlier
<1> DEFINE n == Len(sorted)
<1>10. PICK h \in [0..n -> Seq(Within(lo, hi))] :
          /\ h[0] = <<>> /\ GapSorted(0, sorted) = h[n]
          /\ \A k \in 1..n : h[k] = Join(0, h[k - 1], sorted[k])
  BY <1>7, GapRun
<1>11. n \in Nat
  BY <1>4
<1>20. \A k \in 1..n : sorted[k] \in Within(lo, hi)
  BY <1>7
<1>21. \A k \in 0..n : h[k] \in Seq(Within(lo, hi)) /\ Len(h[k]) \in Nat
  OBVIOUS
<1>22. \A k \in 2..n : sorted[k - 1][1] <= sorted[k][1]
  BY <1>9, <1>11
<1> HIDE DEF n
<1> DEFINE J == {k \in 0..n :
                    /\ Covered(h[k]) = CoveredTo(sorted, k)
                    /\ Len(h[k]) > 0 => k \in 1..n /\ h[k][Len(h[k])][1] <= sorted[k][1]}
<1>12. 0 \in J
  <2>1. Covered(h[0]) = {} /\ Len(h[0]) = 0
    <3>1. h[0] = <<>>
      BY <1>10
    <3>2. DOMAIN h[0] = {} /\ Len(h[0]) = 0
      BY <3>1
    <3>3. QED
      BY <3>2 DEF Covered
  <2>2. CoveredTo(sorted, 0) = {} /\ 0 \in 0..n
    BY <1>11, CoveredStep
  <2>3. Covered(h[0]) = CoveredTo(sorted, 0) /\ ~(Len(h[0]) > 0)
    BY <2>1, <2>2
  <2>4. QED
    BY <2>2, <2>3
<1>13. ASSUME NEW k \in 1..n, k - 1 \in J PROVE k \in J
  <2>0. k \in 0..n /\ k - 1 \in 0..n
    BY <1>11
  <2>1. /\ Covered(h[k - 1]) = CoveredTo(sorted, k - 1)
        /\ Len(h[k - 1]) > 0 => k - 1 \in 1..n /\ h[k - 1][Len(h[k - 1])][1] <= sorted[k - 1][1]
    BY <1>13
  <2>2. Len(h[k - 1]) > 0 => h[k - 1][Len(h[k - 1])][1] <= sorted[k][1]
    <3>1. SUFFICES ASSUME Len(h[k - 1]) > 0 PROVE h[k - 1][Len(h[k - 1])][1] <= sorted[k][1]
      OBVIOUS
    <3>2. k \in 2..n /\ k - 1 \in 1..n /\ sorted[k - 1][1] <= sorted[k][1]
      BY <3>1, <2>1, <1>11, <1>22
    <3>3. Len(h[k - 1]) \in 1..Len(h[k - 1])
      BY <3>1, <1>21, <2>0
    <3>4. h[k - 1][Len(h[k - 1])] \in Within(lo, hi)
      BY <3>3, <1>21, <2>0
    <3>5. sorted[k] \in Within(lo, hi) /\ sorted[k - 1] \in Within(lo, hi)
      BY <3>2, <1>20
    <3>6. h[k - 1][Len(h[k - 1])][1] \in Nat /\ sorted[k][1] \in Nat /\ sorted[k - 1][1] \in Nat
      BY <3>4, <3>5, WithinOf
    <3>7. QED
      BY <3>1, <3>2, <3>6, <2>1
  <2>3. h[k - 1] \in Seq(Within(lo, hi)) /\ sorted[k] \in Within(lo, hi)
    BY <2>0, <1>20
  <2>4. PICK m, r : m = h[k - 1] /\ r = sorted[k]
    OBVIOUS
  <2>5. m \in Seq(Within(lo, hi)) /\ r \in Within(lo, hi) /\ (Len(m) > 0 => m[Len(m)][1] <= r[1])
    BY <2>2, <2>3, <2>4
  <2>6. /\ Covered(Join(0, m, r)) \subseteq Covered(m) \cup Bars(r)
        /\ Covered(m) \cup Bars(r) \subseteq Covered(Join(0, m, r))
        /\ Join(0, m, r)[Len(Join(0, m, r))][1] <= r[1]
    BY <2>5, JoinSound
  <2>7. h[k] = Join(0, m, r)
    BY <1>10, <2>4
  <2>8. Covered(h[k]) = CoveredTo(sorted, k)
    <3>1. Covered(Join(0, m, r)) = Covered(m) \cup Bars(r)
      BY <2>6
    <3>2. Covered(m) = CoveredTo(sorted, k - 1) /\ Bars(r) = Bars(sorted[k])
      BY <2>1, <2>4
    <3>3. CoveredTo(sorted, k) = CoveredTo(sorted, k - 1) \cup Bars(sorted[k])
      BY CoveredStep
    <3>4. QED
      BY <2>7, <3>1, <3>2, <3>3
  <2>11. h[k][Len(h[k])][1] <= sorted[k][1]
    BY <2>4, <2>6, <2>7
  <2>12. QED
    BY <2>0, <2>8, <2>11
<1> HIDE DEF J
<1>14. \A k \in 0..n : k \in J
  BY <1>11, <1>12, <1>13, UpTo
<1>15. n \in J /\ n \in 0..n
  BY <1>11, <1>14
<1>16. h[n] \in Seq(Within(lo, hi)) /\ Covered(h[n]) = Covered(sorted)
  BY <1>15, <1>4, CoveredStep DEF J, n
<1>17. MergeRanges(rs) = h[n]
  BY <1>2, <1>10 DEF MergeRanges, MergeWithin, GapSorted
<1>18. QED
  BY <1>8, <1>16, <1>17

-----------------------------------------------------------------------------
(* RangeMath: the runs of a table, and what is read and left of a request *)

\* Two bars of the grid are at least an interval apart.
LEMMA GridStep ==
    ASSUME NEW a \in Grid, NEW b \in Grid, a < b
    PROVE  a + Interval <= b /\ a + Interval \in Grid /\ b - Interval \in Grid /\ a <= b - Interval
<1>0. /\ a \in Nat /\ b \in Nat /\ a <= Horizon /\ b <= Horizon /\ Horizon \in Nat
      /\ a % Interval = 0 /\ b % Interval = 0 /\ Interval \in Nat \ {0}
  BY RangeConstants DEF Grid, Time
<1>1. PICK p \in Int, q \in Int : a = Interval * p + 0 /\ b = Interval * q + 0
  <2>1. PICK I \in Nat \ {0} : I = Interval
    BY <1>0
  <2>2. a \in Int /\ b \in Int
    BY <1>0
  <2>3. PICK p \in Int : p = a \div I
    BY <2>1, <2>2, ModDef
  <2>4. PICK q \in Int : q = b \div I
    BY <2>1, <2>2, ModDef
  <2>5. a = I * p + (a % I) /\ b = I * q + (b % I)
    BY <2>1, <2>2, <2>3, <2>4, ModDef
  <2>6. QED
    BY <2>1, <2>3, <2>4, <2>5, <1>0
<1>2. Interval * p \in Int /\ Interval * q \in Int
  BY <1>0, Times
<1>3. Interval * p < Interval * q
  BY <1>0, <1>1, <1>2
<1>4. p < q
  BY <1>0, <1>3, SmallerFactor
<1>5. p + 1 <= q /\ p + 1 \in Int /\ Interval * (p + 1) <= Interval * q
  BY <1>0, <1>4, SmallerFactor
<1>6. Interval * (p + 1) = Interval * p + Interval
  <2>1. Interval * (p + 1) = Interval * p + Interval * 1
    BY <1>0, Distributes
  <2>2. Interval * 1 = Interval
    BY <1>0
  <2>3. QED
    BY <2>1, <2>2
<1>7. a + Interval <= b /\ a <= b - Interval
  BY <1>0, <1>1, <1>2, <1>5, <1>6
<1>8. (a + Interval) % Interval = 0 /\ (b - Interval) % Interval = 0
  <2>1. (a + Interval * 1) % Interval = a % Interval /\ (b + Interval * (-1)) % Interval = b % Interval
    <3>1. 1 \in Int /\ -1 \in Int /\ a \in Int /\ b \in Int
      BY <1>0
    <3>2. QED
      BY <1>0, <3>1, ModSum
  <2>2. Interval * 1 = Interval /\ b + Interval * (-1) = b - Interval
    BY <1>0
  <2>3. QED
    BY <2>1, <2>2, <1>0
<1>9. a + Interval \in Time /\ b - Interval \in Time
  BY <1>0, <1>7 DEF Time
<1>10. QED
  BY <1>7, <1>8, <1>9 DEF Grid

\* Single bars.
Points == {r \in Within(0, Horizon) : r[1] = r[2]}

\* A bar is put to the run it follows, or begins one: no bar is made up.
LEMMA AddBarSound ==
    ASSUME NEW m \in Seq(Within(0, Horizon)), NEW r \in Points
    PROVE  /\ AddBar(m, r) \in Seq(Within(0, Horizon))
           /\ Covered(AddBar(m, r)) \subseteq Covered(m) \cup Bars(r)
<1>a. 0 \in Nat /\ Horizon \in Nat /\ Interval \in Nat \ {0}
  BY RangeConstants
<1>0. /\ Len(m) \in Nat /\ DOMAIN m = 1..Len(m) /\ (m = <<>> <=> Len(m) = 0)
      /\ \A k \in 1..Len(m) : m[k] \in Within(0, Horizon)
  BY EmptySeq
<1>b. r \in Within(0, Horizon) /\ r[1] = r[2]
  BY DEF Points
<1>1. /\ r \in Grid \X Grid /\ r[1] \in Grid /\ r[2] \in Grid /\ r[1] \in Nat /\ r[2] \in Nat
      /\ r[1] = r[2] /\ r[2] <= Horizon
  BY <1>a, <1>b, WithinOf
<1>2. PICK j : j = AddBar(m, r)
  OBVIOUS
<1>3. Bars(r) = {t \in Grid : r[1] <= t /\ t <= r[2]}
  BY <1>1, BarsOnGrid
<1>4. Grid \subseteq Nat
  BY RangeConstants DEF Grid, Time
<1>5. CASE Len(m) > 0 /\ r[1] = m[Len(m)][2] + Interval
  <2> DEFINE n == Len(m)
             e == <<m[n][1], r[2]>>
  <2>0. n \in 1..Len(m) /\ n = Len(m) /\ r[1] = m[n][2] + Interval
    BY <1>0, <1>5
  <2>1. /\ m[n][1] \in Grid /\ m[n][2] \in Grid /\ m[n][1] \in Nat /\ m[n][2] \in Nat
        /\ m[n][1] <= m[n][2]
    BY <2>0, <1>a, <1>0, WithinOf
  <2>a. m[n][1] <= r[2] /\ 0 <= m[n][1]
    BY <2>0, <2>1, <1>1, <1>a
  <2>2. e \in Within(0, Horizon) /\ e[1] = m[n][1] /\ e[2] = r[2]
    BY <2>1, <2>a, <1>1, <1>a, WithinMade
  <2>3. j = [m EXCEPT ![n] = e]
    <3>1. m # <<>> /\ r[1] = Last(m)[2] + Interval /\ Last(m) = m[n]
      BY <1>0, <1>5 DEF Last
    <3>2. QED
      BY <3>1, <1>2 DEF AddBar, Last
  <2> HIDE DEF e, n
  <2>4. /\ j \in Seq(Within(0, Horizon)) /\ Len(j) = Len(m)
        /\ \A k \in 1..Len(m) : j[k] = IF k = n THEN e ELSE m[k]
    <3>1. PICK X : X = Within(0, Horizon)
      OBVIOUS
    <3>2. m \in Seq(X) /\ e \in X
      BY <2>2, <3>1
    <3>3. QED
      BY <2>0, <2>3, <3>1, <3>2, ExceptSeq
  <2>5. ASSUME NEW t \in Covered(j) PROVE t \in Covered(m) \cup Bars(r)
    <3>1. PICK k \in 1..Len(m) : t \in Grid /\ j[k][1] <= t /\ t <= j[k][2]
      BY <2>4, <1>a, CoveredOn
    <3>2. CASE k # n
      BY <3>1, <3>2, <2>4, <1>a, CoveredOn
    <3>3. CASE k = n
      <4>1. t \in Nat /\ t \in Grid /\ m[n][1] <= t /\ t <= r[2]
        BY <3>1, <3>3, <2>2, <2>4, <1>4
      <4>2. CASE t <= m[n][2]
        BY <4>1, <4>2, <2>0, <1>a, CoveredOn
      <4>3. CASE m[n][2] < t
        <5>1. m[n][2] + Interval <= t
          BY <4>1, <4>3, <2>1, GridStep
        <5>2. QED
          BY <5>1, <4>1, <2>0, <1>3
      <4>4. QED
        BY <4>1, <4>2, <4>3, <2>1
    <3>4. QED
      BY <3>2, <3>3
  <2>6. QED
    BY <1>2, <2>4, <2>5
<1>6. CASE ~(Len(m) > 0 /\ r[1] = m[Len(m)][2] + Interval)
  <2>1. j = Append(m, r)
    <3>1. ~(m # <<>> /\ r[1] = Last(m)[2] + Interval)
      BY <1>0, <1>6 DEF Last
    <3>2. QED
      BY <3>1, <1>2 DEF AddBar
  <2>2. /\ j \in Seq(Within(0, Horizon)) /\ Len(j) = Len(m) + 1 /\ j[Len(m) + 1] = r
        /\ \A k \in 1..Len(m) : j[k] = m[k]
    BY <2>1, <1>b, AppendProperties
  <2>3. ASSUME NEW t \in Covered(j) PROVE t \in Covered(m) \cup Bars(r)
    <3>1. PICK k \in 1..Len(m) + 1 : t \in Grid /\ j[k][1] <= t /\ t <= j[k][2]
      BY <2>2, <1>a, CoveredOn
    <3>2. CASE k \in 1..Len(m)
      BY <3>1, <3>2, <2>2, <1>a, CoveredOn
    <3>3. CASE k = Len(m) + 1
      BY <3>1, <3>3, <2>2, <1>3
    <3>4. QED
      BY <3>2, <3>3, <1>0
  <2>4. QED
    BY <1>2, <2>2, <2>3
<1>7. QED
  BY <1>5, <1>6

\* The runs of a sorted list of bars.
RunsSorted(sorted) == FoldLeft(AddBar, <<>>, sorted)

\* Finding the runs, one bar after the other.
LEMMA AddBarRun ==
    ASSUME NEW sorted \in Seq(Points)
    PROVE  \E h \in [0..Len(sorted) -> Seq(Within(0, Horizon))] :
              /\ h[0] = <<>>
              /\ \A k \in 1..Len(sorted) : h[k] = AddBar(h[k - 1], sorted[k])
              /\ RunsSorted(sorted) = h[Len(sorted)]
<1> DEFINE size == Len(sorted)
           steps == [k \in 1..size |-> [x \in Seq(Within(0, Horizon)) |-> AddBar(x, sorted[k])]]
           Eq(f) == f = [s \in SUBSET DOMAIN sorted |->
                            IF s = {} THEN <<>> ELSE AddBar(f[s \ {Max(s)}], sorted[Max(s)])]
<1>0. size \in Nat /\ DOMAIN sorted = 1..size
  OBVIOUS
<1>1. <<>> \in Seq(Within(0, Horizon))
  OBVIOUS
<1>2. steps \in [1..size -> [Seq(Within(0, Horizon)) -> Seq(Within(0, Horizon))]]
  <2>1. ASSUME NEW k \in 1..size, NEW x \in Seq(Within(0, Horizon))
        PROVE  AddBar(x, sorted[k]) \in Seq(Within(0, Horizon))
    <3>1. sorted[k] \in Points
      BY <1>0
    <3>2. QED
      BY <3>1, AddBarSound
  <2>2. QED
    BY <2>1
<1> HIDE DEF steps, size
<1>3. PICK f \in [SUBSET (1..size) -> Seq(Within(0, Horizon))] :
          \A s \in SUBSET (1..size) : f[s] = IF s = {} THEN <<>> ELSE steps[Max(s)][f[s \ {Max(s)}]]
  <2>0. PICK X : X = Seq(Within(0, Horizon))
    OBVIOUS
  <2>1. PICK b : b = <<>>
    OBVIOUS
  <2>2. b \in X /\ size \in Nat /\ steps \in [1..size -> [X -> X]]
    BY <1>0, <1>1, <1>2, <2>0, <2>1
  <2>3. \E f \in [SUBSET (1..size) -> X] : IsFold(f, size, b, steps)
    BY <2>2, FoldExists
  <2>4. QED
    BY <2>0, <2>1, <2>3 DEF IsFold
<1>4. ASSUME NEW s \in SUBSET (1..size), s # {}
      PROVE  steps[Max(s)][f[s \ {Max(s)}]] = AddBar(f[s \ {Max(s)}], sorted[Max(s)])
  <2>1. Max(s) \in 1..size /\ s \ {Max(s)} \in SUBSET (1..size)
    BY <1>0, <1>4, MaxOf
  <2>2. f[s \ {Max(s)}] \in Seq(Within(0, Horizon))
    BY <2>1
  <2>3. QED
    BY <2>1, <2>2 DEF steps
<1>5. Eq(f)
  BY <1>0, <1>3, <1>4
<1>6. PICK g : g = CHOOSE v : Eq(v)
  OBVIOUS
<1>7. Eq(g)
  BY <1>5, <1>6
<1>8. RunsSorted(sorted) = g[DOMAIN sorted]
  BY <1>6 DEF RunsSorted, FoldLeft, MapThenFoldSet
<1>9. g[{}] = <<>>
  BY <1>7
<1>10. ASSUME NEW k \in 1..size PROVE g[1..k] = AddBar(g[1..k - 1], sorted[k])
  <2>1. 1..k \in SUBSET DOMAIN sorted /\ 1..k # {} /\ Max(1..k) = k /\ (1..k) \ {Max(1..k)} = 1..k - 1
    BY <1>0, MaxPrefix
  <2>2. g[1..k] = AddBar(g[(1..k) \ {Max(1..k)}], sorted[Max(1..k)])
    BY <1>7, <2>1
  <2>3. QED
    BY <2>1, <2>2
<1> HIDE DEF Eq
<1> DEFINE h == [k \in 0..size |-> g[1..k]]
           J == {k \in 0..size : g[1..k] \in Seq(Within(0, Horizon))}
<1>11. 1..0 = {} /\ 0 \in 0..size
  BY <1>0
<1>12. 0 \in J
  BY <1>1, <1>9, <1>11
<1>13. ASSUME NEW k \in 1..size, k - 1 \in J PROVE k \in J
  <2>1. k \in 0..size /\ k - 1 \in 0..size
    BY <1>0
  <2>2. g[1..k - 1] \in Seq(Within(0, Horizon))
    BY <1>13
  <2>3. steps[k][g[1..k - 1]] \in Seq(Within(0, Horizon))
    BY <2>2, <1>2
  <2>4. steps[k][g[1..k - 1]] = AddBar(g[1..k - 1], sorted[k])
    BY <2>2 DEF steps
  <2>5. QED
    BY <1>10, <2>1, <2>3, <2>4
<1> HIDE DEF J
<1>14. \A k \in 0..size : k \in J
  BY <1>0, <1>12, <1>13, UpTo
<1>15. h \in [0..size -> Seq(Within(0, Horizon))]
  BY <1>14 DEF J
<1>16. h[0] = <<>>
  BY <1>9, <1>11
<1>17. ASSUME NEW k \in 1..size PROVE h[k] = AddBar(h[k - 1], sorted[k])
  <2>1. k \in 0..size /\ k - 1 \in 0..size
    BY <1>0
  <2>2. h[k] = g[1..k] /\ h[k - 1] = g[1..k - 1]
    BY <2>1
  <2>3. QED
    BY <2>2, <1>10
<1>18. RunsSorted(sorted) = h[size]
  <2>1. size \in 0..size
    BY <1>0
  <2>2. QED
    BY <2>1, <1>0, <1>8
<1> HIDE DEF h
<1>19. QED
  BY <1>15, <1>16, <1>17, <1>18 DEF size

\* The ranges of a table's timestamps hold no bar that is not in the table.
LEMMA RunsSound ==
    ASSUME NEW ts \in Seq(Grid)
    PROVE  RunsOf(ts) \in Seq(Within(0, Horizon)) /\ Covered(RunsOf(ts)) \subseteq ToSet(ts)
<1>a. 0 \in Nat /\ Horizon \in Nat /\ \A t \in Grid : t \in Nat /\ t <= Horizon
  BY RangeConstants DEF Grid, Time
<1> DEFINE singles == [k \in DOMAIN ts |-> <<ts[k], ts[k]>>]
<1>0. Len(ts) \in Nat /\ DOMAIN ts = 1..Len(ts) /\ \A k \in 1..Len(ts) : ts[k] \in Grid
  OBVIOUS
<1>1. ASSUME NEW k \in 1..Len(ts)
      PROVE  singles[k] \in Points /\ singles[k][1] = ts[k] /\ singles[k][2] = ts[k]
  <2>1. ts[k] \in Grid /\ 0 <= ts[k] /\ ts[k] <= ts[k] /\ ts[k] <= Horizon
    BY <1>0, <1>a
  <2>2. <<ts[k], ts[k]>> \in Within(0, Horizon)
    BY <2>1, <1>a, WithinMade
  <2>3. QED
    BY <2>2, <1>0 DEF Points
<1>2. singles \in Seq(Points) /\ Len(singles) = Len(ts) /\ DOMAIN singles = 1..Len(ts)
  <2>1. singles = [k \in 1..Len(ts) |-> <<ts[k], ts[k]>>]
    BY <1>0
  <2>2. singles \in [1..Len(ts) -> Points]
    BY <1>0, <1>1
  <2>3. QED
    BY <1>0, <2>2
<1> HIDE DEF singles
<1>3. singles \in Seq(Spans)
  <2>1. Points \subseteq Spans
    BY DEF Points, Within
  <2>2. QED
    BY <1>2, <2>1, SeqMonotonic
<1>4. PICK sorted : sorted = InOrder(singles)
  OBVIOUS
<1>5. sorted \in Sorted /\ ToSet(sorted) = ToSet(singles)
  BY <1>3, <1>4, InOrderSound
<1>6. sorted \in Seq(Spans) /\ Len(sorted) \in Nat /\ DOMAIN sorted = 1..Len(sorted)
  BY <1>5 DEF Sorted
<1>7. ASSUME NEW k \in 1..Len(sorted)
      PROVE  sorted[k] \in Points /\ \E i \in 1..Len(ts) : sorted[k] = singles[i]
  <2>1. \E i \in 1..Len(ts) : sorted[k] = singles[i]
    BY <1>2, <1>5, <1>6 DEF ToSet
  <2>2. QED
    BY <2>1, <1>1
<1>8. sorted \in Seq(Points)
  BY <1>6, <1>7
<1> DEFINE n == Len(sorted)
<1>9. PICK h \in [0..n -> Seq(Within(0, Horizon))] :
          /\ h[0] = <<>> /\ RunsSorted(sorted) = h[n]
          /\ \A k \in 1..n : h[k] = AddBar(h[k - 1], sorted[k])
  BY <1>8, AddBarRun
<1>10. n \in Nat /\ \A k \in 1..n : sorted[k] \in Points
  BY <1>6, <1>7
<1>11. ASSUME NEW k \in 1..n, NEW t \in Bars(sorted[k]) PROVE t \in ToSet(ts)
  <2>1. PICK i \in 1..Len(ts) : sorted[k] = singles[i]
    BY <1>7
  <2>2. sorted[k][1] = ts[i] /\ sorted[k][2] = ts[i] /\ ts[i] \in Nat
    BY <1>0, <1>1, <1>a, <2>1
  <2>3. sorted[k] \in Grid \X Grid /\ Grid \subseteq Nat
    BY <1>10, <1>a, WithinOf DEF Points
  <2>4. t \in Nat /\ sorted[k][1] <= t /\ t <= sorted[k][2]
    BY <2>3, BarsOnGrid
  <2>5. t = ts[i]
    BY <2>2, <2>4
  <2>6. QED
    BY <2>5, <1>0 DEF ToSet
<1> HIDE DEF n
<1> DEFINE J == {k \in 0..n : Covered(h[k]) \subseteq ToSet(ts)}
<1>12. 0 \in J
  <2>1. h[0] = <<>> /\ 0 \in 0..n
    BY <1>9, <1>10
  <2>2. DOMAIN h[0] = {}
    BY <2>1
  <2>3. QED
    BY <2>1, <2>2 DEF Covered
<1>13. ASSUME NEW k \in 1..n, k - 1 \in J PROVE k \in J
  <2>0. k \in 0..n /\ k - 1 \in 0..n
    BY <1>10
  <2>1. PICK m, r : m = h[k - 1] /\ r = sorted[k]
    OBVIOUS
  <2>2. m \in Seq(Within(0, Horizon)) /\ r \in Points
    BY <2>0, <2>1, <1>10
  <2>3. Covered(AddBar(m, r)) \subseteq Covered(m) \cup Bars(r)
    BY <2>2, AddBarSound
  <2>4. h[k] = AddBar(m, r) /\ Covered(m) \subseteq ToSet(ts) /\ Bars(r) \subseteq ToSet(ts)
    BY <2>1, <1>9, <1>11, <1>13
  <2>5. Covered(h[k]) \subseteq ToSet(ts)
    BY <2>3, <2>4
  <2>6. QED
    BY <2>0, <2>5
<1> HIDE DEF J
<1>14. \A k \in 0..n : k \in J
  BY <1>10, <1>12, <1>13, UpTo
<1>15. n \in J /\ n \in 0..n
  BY <1>10, <1>14
<1>16. h[n] \in Seq(Within(0, Horizon)) /\ Covered(h[n]) \subseteq ToSet(ts)
  BY <1>15 DEF J
<1>17. RunsOf(ts) = h[n]
  BY <1>4, <1>9 DEF RunsOf, RunsSorted, singles
<1>18. QED
  BY <1>16, <1>17

\* The timestamps of a table, in some order.
LEMMA TableListed ==
    ASSUME NEW table \in SUBSET Grid
    PROVE  SetToSeq(table) \in Seq(Grid) /\ ToSet(SetToSeq(table)) \subseteq table
<1>1. IsFiniteSet(0..Horizon)
  BY RangeConstants, FS_Interval
<1>2. table \in SUBSET (0..Horizon)
  BY DEF Grid, Time
<1>3. IsFiniteSet(table)
  BY <1>1, <1>2, FS_Subset
<1>4. Cardinality(table) \in Nat /\ ExistsBijection(1..Cardinality(table), table)
  BY <1>3, FS_CardinalityType
<1>5. PICK f : f \in [1..Cardinality(table) -> table] /\ IsInjective(f)
  BY <1>4 DEF ExistsBijection, Bijection, Injection
<1>6. SetToSeq(table) \in [1..Cardinality(table) -> table]
  BY <1>5 DEF SetToSeq
<1>7. QED
  BY <1>4, <1>6 DEF ToSet

\* The overlap with one more range of the coverage: within r, and of bars of that range.
LEMMA AddOverlapSound ==
    ASSUME NEW r \in Spans, NEW m \in Seq(Within(r[1], r[2])), NEW c \in Within(0, Horizon)
    PROVE  /\ AddOverlap(m, r, c) \in Seq(Within(r[1], r[2]))
           /\ Covered(AddOverlap(m, r, c)) \subseteq Covered(m) \cup Bars(c)
<1>a. 0 \in Nat /\ Horizon \in Nat /\ Grid \subseteq Nat
  BY RangeConstants DEF Grid, Time
<1>0. r[1] \in Nat /\ r[2] \in Nat /\ r[1] \in Grid /\ r[2] \in Grid /\ r[1] <= r[2]
  BY SpanOf
<1>1. c \in Grid \X Grid /\ c[1] \in Grid /\ c[2] \in Grid /\ c[1] \in Nat /\ c[2] \in Nat
  BY <1>a, WithinOf
<1>2. Bars(c) = {t \in Grid : c[1] <= t /\ t <= c[2]}
  BY <1>1, BarsOnGrid
<1>3. CASE ~(Overlap(r, c)[1] < Overlap(r, c)[2])
  BY <1>3 DEF AddOverlap
<1>4. CASE Overlap(r, c)[1] < Overlap(r, c)[2]
  <2> DEFINE lo == Later(r[1], c[1])
             hi == Sooner(r[2], c[2])
  <2>0. Overlap(r, c) = <<lo, hi>> /\ lo < hi
    BY <1>4 DEF Overlap
  <2>1. /\ lo \in Grid /\ hi \in Grid /\ lo \in Nat /\ hi \in Nat
        /\ r[1] <= lo /\ c[1] <= lo /\ hi <= r[2] /\ hi <= c[2]
    BY <1>0, <1>1 DEF Later, Sooner
  <2>2. AddOverlap(m, r, c) = Append(m, <<lo, hi>>)
    BY <1>4, <2>0 DEF AddOverlap
  <2> HIDE DEF lo, hi
  <2>3. <<lo, hi>> \in Within(r[1], r[2])
    BY <2>0, <2>1, <1>0, WithinMade
  <2>a. PICK e : e = <<lo, hi>>
    OBVIOUS
  <2>b. PICK j : j = Append(m, e)
    OBVIOUS
  <2>4. e = <<lo, hi>> /\ e[1] = lo /\ e[2] = hi /\ j = Append(m, e)
    BY <2>a, <2>b
  <2>5. e \in Within(r[1], r[2]) /\ j = AddOverlap(m, r, c)
    BY <2>2, <2>3, <2>4
  <2>6. /\ j \in Seq(Within(r[1], r[2])) /\ Len(j) = Len(m) + 1 /\ j[Len(m) + 1] = e
        /\ \A k \in 1..Len(m) : j[k] = m[k]
    BY <2>4, <2>5, AppendProperties
  <2>7. ASSUME NEW t \in Covered(j) PROVE t \in Covered(m) \cup Bars(c)
    <3>1. PICK k \in 1..Len(m) + 1 : t \in Grid /\ j[k][1] <= t /\ t <= j[k][2]
      BY <2>6, <1>0, CoveredOn
    <3>2. CASE k \in 1..Len(m)
      BY <3>1, <3>2, <2>6, <1>0, CoveredOn
    <3>3. CASE k = Len(m) + 1
      <4>1. t \in Nat /\ lo <= t /\ t <= hi
        BY <3>1, <3>3, <2>4, <2>6, <1>a
      <4>2. c[1] <= t /\ t <= c[2]
        BY <4>1, <2>1, <1>1
      <4>3. QED
        BY <4>2, <3>1, <1>2
    <3>4. QED
      BY <3>2, <3>3
  <2>8. QED
    BY <2>5, <2>6, <2>7
<1>5. QED
  BY <1>3, <1>4

OverlapsOf(r, coverage) == FoldLeft(LAMBDA parts, c : AddOverlap(parts, r, c), <<>>, coverage)

\* The overlaps, one range of the coverage after the other.
LEMMA OverlapRun ==
    ASSUME NEW r \in Spans, NEW coverage \in Seq(Within(0, Horizon))
    PROVE  \E h \in [0..Len(coverage) -> Seq(Within(r[1], r[2]))] :
              /\ h[0] = <<>>
              /\ \A k \in 1..Len(coverage) : h[k] = AddOverlap(h[k - 1], r, coverage[k])
              /\ OverlapsOf(r, coverage) = h[Len(coverage)]
<1> DEFINE size == Len(coverage)
           steps == [k \in 1..size |-> [x \in Seq(Within(r[1], r[2])) |-> AddOverlap(x, r, coverage[k])]]
           Eq(f) == f = [s \in SUBSET DOMAIN coverage |->
                            IF s = {} THEN <<>> ELSE AddOverlap(f[s \ {Max(s)}], r, coverage[Max(s)])]
<1>0. size \in Nat /\ DOMAIN coverage = 1..size
  OBVIOUS
<1>1. <<>> \in Seq(Within(r[1], r[2]))
  OBVIOUS
<1>2. steps \in [1..size -> [Seq(Within(r[1], r[2])) -> Seq(Within(r[1], r[2]))]]
  <2>1. ASSUME NEW k \in 1..size, NEW x \in Seq(Within(r[1], r[2]))
        PROVE  AddOverlap(x, r, coverage[k]) \in Seq(Within(r[1], r[2]))
    <3>1. coverage[k] \in Within(0, Horizon)
      BY <1>0
    <3>2. QED
      BY <3>1, AddOverlapSound
  <2>2. QED
    BY <2>1
<1> HIDE DEF steps, size
<1>3. PICK f \in [SUBSET (1..size) -> Seq(Within(r[1], r[2]))] :
          \A s \in SUBSET (1..size) : f[s] = IF s = {} THEN <<>> ELSE steps[Max(s)][f[s \ {Max(s)}]]
  <2>0. PICK X : X = Seq(Within(r[1], r[2]))
    OBVIOUS
  <2>1. PICK b : b = <<>>
    OBVIOUS
  <2>2. b \in X /\ size \in Nat /\ steps \in [1..size -> [X -> X]]
    BY <1>0, <1>1, <1>2, <2>0, <2>1
  <2>3. \E f \in [SUBSET (1..size) -> X] : IsFold(f, size, b, steps)
    BY <2>2, FoldExists
  <2>4. QED
    BY <2>0, <2>1, <2>3 DEF IsFold
<1>4. ASSUME NEW s \in SUBSET (1..size), s # {}
      PROVE  steps[Max(s)][f[s \ {Max(s)}]] = AddOverlap(f[s \ {Max(s)}], r, coverage[Max(s)])
  <2>1. Max(s) \in 1..size /\ s \ {Max(s)} \in SUBSET (1..size)
    BY <1>0, <1>4, MaxOf
  <2>2. f[s \ {Max(s)}] \in Seq(Within(r[1], r[2]))
    BY <2>1
  <2>3. QED
    BY <2>1, <2>2 DEF steps
<1>5. Eq(f)
  BY <1>0, <1>3, <1>4
<1>6. PICK g : g = CHOOSE v : Eq(v)
  OBVIOUS
<1>7. Eq(g)
  BY <1>5, <1>6
<1>8. OverlapsOf(r, coverage) = g[DOMAIN coverage]
  BY <1>6 DEF OverlapsOf, FoldLeft, MapThenFoldSet
<1>9. g[{}] = <<>>
  BY <1>7
<1>10. ASSUME NEW k \in 1..size PROVE g[1..k] = AddOverlap(g[1..k - 1], r, coverage[k])
  <2>1. 1..k \in SUBSET DOMAIN coverage /\ 1..k # {} /\ Max(1..k) = k /\ (1..k) \ {Max(1..k)} = 1..k - 1
    BY <1>0, MaxPrefix
  <2>2. g[1..k] = AddOverlap(g[(1..k) \ {Max(1..k)}], r, coverage[Max(1..k)])
    BY <1>7, <2>1
  <2>3. QED
    BY <2>1, <2>2
<1> HIDE DEF Eq
<1> DEFINE h == [k \in 0..size |-> g[1..k]]
           J == {k \in 0..size : g[1..k] \in Seq(Within(r[1], r[2]))}
<1>11. 1..0 = {} /\ 0 \in 0..size
  BY <1>0
<1>12. 0 \in J
  BY <1>1, <1>9, <1>11
<1>13. ASSUME NEW k \in 1..size, k - 1 \in J PROVE k \in J
  <2>1. k \in 0..size /\ k - 1 \in 0..size
    BY <1>0
  <2>2. g[1..k - 1] \in Seq(Within(r[1], r[2]))
    BY <1>13
  <2>3. steps[k][g[1..k - 1]] \in Seq(Within(r[1], r[2]))
    BY <2>2, <1>2
  <2>4. steps[k][g[1..k - 1]] = AddOverlap(g[1..k - 1], r, coverage[k])
    BY <2>2 DEF steps
  <2>5. QED
    BY <1>10, <2>1, <2>3, <2>4
<1> HIDE DEF J
<1>14. \A k \in 0..size : k \in J
  BY <1>0, <1>12, <1>13, UpTo
<1>15. h \in [0..size -> Seq(Within(r[1], r[2]))]
  BY <1>14 DEF J
<1>16. h[0] = <<>>
  BY <1>9, <1>11
<1>17. ASSUME NEW k \in 1..size PROVE h[k] = AddOverlap(h[k - 1], r, coverage[k])
  <2>1. k \in 0..size /\ k - 1 \in 0..size
    BY <1>0
  <2>2. h[k] = g[1..k] /\ h[k - 1] = g[1..k - 1]
    BY <2>1
  <2>3. QED
    BY <2>2, <1>10
<1>18. OverlapsOf(r, coverage) = h[size]
  <2>1. size \in 0..size
    BY <1>0
  <2>2. QED
    BY <2>1, <1>0, <1>8
<1> HIDE DEF h
<1>19. QED
  BY <1>15, <1>16, <1>17, <1>18 DEF size

\* intersect returns parts of the range, and of the coverage.
LEMMA IntersectSound ==
    ASSUME NEW r \in Spans, NEW coverage \in Seq(Within(0, Horizon))
    PROVE  /\ IntersectWith(r, coverage) \in Seq(Within(r[1], r[2]))
           /\ Covered(IntersectWith(r, coverage)) \subseteq Covered(coverage)
<1>a. r[1] \in Nat /\ r[2] \in Nat
  BY SpanOf
<1> DEFINE n == Len(coverage)
<1>9. PICK h \in [0..n -> Seq(Within(r[1], r[2]))] :
          /\ h[0] = <<>> /\ OverlapsOf(r, coverage) = h[n]
          /\ \A k \in 1..n : h[k] = AddOverlap(h[k - 1], r, coverage[k])
  BY OverlapRun
<1>10. n \in Nat /\ \A k \in 1..n : coverage[k] \in Within(0, Horizon)
  OBVIOUS
<1>b. Covered(coverage) = CoveredTo(coverage, n)
  BY CoveredStep
<1> HIDE DEF n
<1> DEFINE J == {k \in 0..n : Covered(h[k]) \subseteq CoveredTo(coverage, k)}
<1>12. 0 \in J
  <2>1. h[0] = <<>> /\ 0 \in 0..n
    BY <1>9, <1>10
  <2>2. DOMAIN h[0] = {}
    BY <2>1
  <2>3. QED
    BY <2>1, <2>2 DEF Covered
<1>13. ASSUME NEW k \in 1..n, k - 1 \in J PROVE k \in J
  <2>0. k \in 0..n /\ k - 1 \in 0..n
    BY <1>10
  <2>1. PICK m, c : m = h[k - 1] /\ c = coverage[k]
    OBVIOUS
  <2>2. m \in Seq(Within(r[1], r[2])) /\ c \in Within(0, Horizon)
    BY <2>0, <2>1, <1>10
  <2>3. Covered(AddOverlap(m, r, c)) \subseteq Covered(m) \cup Bars(c)
    BY <2>2, AddOverlapSound
  <2>4. h[k] = AddOverlap(m, r, c) /\ Covered(m) \subseteq CoveredTo(coverage, k - 1)
    BY <2>1, <1>9, <1>13
  <2>5. CoveredTo(coverage, k) = CoveredTo(coverage, k - 1) \cup Bars(c)
    BY <2>1, CoveredStep
  <2>6. Covered(h[k]) \subseteq CoveredTo(coverage, k)
    BY <2>3, <2>4, <2>5
  <2>7. QED
    BY <2>0, <2>6
<1> HIDE DEF J
<1>14. \A k \in 0..n : k \in J
  BY <1>10, <1>12, <1>13, UpTo
<1>15. n \in J /\ n \in 0..n
  BY <1>10, <1>14
<1>16. h[n] \in Seq(Within(r[1], r[2])) /\ Covered(h[n]) \subseteq Covered(coverage)
  BY <1>15, <1>b DEF J
<1>17. IntersectWith(r, coverage) = MergeRanges(h[n])
  BY <1>9 DEF IntersectWith, OverlapsOf
<1>18. MergeRanges(h[n]) \in Seq(Within(r[1], r[2])) /\ Covered(MergeRanges(h[n])) = Covered(h[n])
  BY <1>a, <1>16, MergeSound
<1>19. QED
  BY <1>16, <1>17, <1>18

LEMMA ConcatCovered ==
    ASSUME NEW lo \in Nat, NEW hi \in Nat,
           NEW a \in Seq(Within(lo, hi)), NEW b \in Seq(Within(lo, hi))
    PROVE  a \o b \in Seq(Within(lo, hi)) /\ Covered(a \o b) = Covered(a) \cup Covered(b)
<1>0. Len(a) \in Nat /\ Len(b) \in Nat
  OBVIOUS
<1>1. PICK c : c = a \o b
  OBVIOUS
<1>2. /\ c \in Seq(Within(lo, hi)) /\ Len(c) = Len(a) + Len(b)
      /\ \A i \in 1..Len(a) + Len(b) : c[i] = IF i <= Len(a) THEN a[i] ELSE b[i - Len(a)]
  <2>1. PICK X : X = Within(lo, hi)
    OBVIOUS
  <2>2. a \in Seq(X) /\ b \in Seq(X)
    BY <2>1
  <2>3. /\ a \o b \in Seq(X) /\ Len(a \o b) = Len(a) + Len(b)
        /\ \A i \in 1..Len(a) + Len(b) : (a \o b)[i] = IF i <= Len(a) THEN a[i] ELSE b[i - Len(a)]
    BY <2>2, ConcatProperties
  <2>4. QED
    BY <1>1, <2>1, <2>3
<1>3. ASSUME NEW t \in Covered(c) PROVE t \in Covered(a) \cup Covered(b)
  <2>1. PICK k \in 1..Len(a) + Len(b) : t \in Grid /\ c[k][1] <= t /\ t <= c[k][2]
    BY <1>2, CoveredOn
  <2>2. CASE k <= Len(a)
    <3>1. k \in 1..Len(a) /\ c[k] = a[k]
      BY <2>2, <1>0, <1>2
    <3>2. QED
      BY <3>1, <2>1, CoveredOn
  <2>3. CASE Len(a) < k
    <3>1. k - Len(a) \in 1..Len(b) /\ c[k] = b[k - Len(a)]
      BY <2>3, <1>0, <1>2
    <3>2. QED
      BY <3>1, <2>1, CoveredOn
  <2>4. QED
    BY <2>2, <2>3, <1>0
<1>4. ASSUME NEW t \in Covered(a) PROVE t \in Covered(c)
  <2>1. PICK k \in 1..Len(a) : t \in Grid /\ a[k][1] <= t /\ t <= a[k][2]
    BY CoveredOn
  <2>2. k \in 1..Len(c) /\ c[k] = a[k]
    BY <1>0, <1>2
  <2>3. QED
    BY <2>1, <2>2, <1>2, CoveredOn
<1>5. ASSUME NEW t \in Covered(b) PROVE t \in Covered(c)
  <2>1. PICK k \in 1..Len(b) : t \in Grid /\ b[k][1] <= t /\ t <= b[k][2]
    BY CoveredOn
  <2>2. Len(a) + k \in 1..Len(c) /\ c[Len(a) + k] = b[k]
    <3>1. Len(a) + k \in 1..Len(a) + Len(b) /\ ~(Len(a) + k <= Len(a)) /\ (Len(a) + k) - Len(a) = k
      BY <1>0
    <3>2. QED
      BY <3>1, <1>2
  <2>3. QED
    BY <2>1, <2>2, <1>2, CoveredOn
<1>6. QED
  BY <1>1, <1>2, <1>3, <1>4, <1>5

LEMMA CoveredOne ==
    ASSUME NEW lo \in Nat, NEW hi \in Nat, NEW r \in Within(lo, hi)
    PROVE  <<r>> \in Seq(Within(lo, hi)) /\ Covered(<<r>>) = Bars(r)
<1>1. DOMAIN <<r>> = {1} /\ <<r>>[1] = r
  OBVIOUS
<1>2. QED
  BY <1>1 DEF Covered

\* _subtract_segment takes the bars of sub from a range, and no others.
LEMMA CutOutExact ==
    ASSUME NEW lo \in Nat, NEW hi \in Nat, NEW seg \in Within(lo, hi), NEW sub \in Within(lo, hi)
    PROVE  /\ CutOut(seg, sub) \in Seq(Within(lo, hi))
           /\ Covered(CutOut(seg, sub)) = Bars(seg) \ Bars(sub)
<1>0. Interval \in Nat \ {0} /\ Grid \subseteq Nat /\ \A t \in Grid : t % Interval = 0
  BY RangeConstants DEF Grid, Time
<1>1. /\ seg \in Grid \X Grid /\ seg[1] \in Grid /\ seg[2] \in Grid /\ seg[1] \in Nat /\ seg[2] \in Nat
      /\ seg[1] <= seg[2] /\ lo <= seg[1] /\ seg[2] <= hi
  BY WithinOf
<1>2. /\ sub \in Grid \X Grid /\ sub[1] \in Grid /\ sub[2] \in Grid /\ sub[1] \in Nat /\ sub[2] \in Nat
      /\ sub[1] <= sub[2]
  BY WithinOf
<1>3. /\ Bars(seg) = {t \in Grid : seg[1] <= t /\ t <= seg[2]}
      /\ Bars(sub) = {t \in Grid : sub[1] <= t /\ t <= sub[2]}
  BY <1>1, <1>2, BarsOnGrid
<1> DEFINE first == Later(seg[1], sub[1])
           last == Sooner(seg[2], sub[2])
<1>a. /\ first \in Grid /\ last \in Grid /\ first \in Nat /\ last \in Nat
      /\ seg[1] <= first /\ sub[1] <= first /\ last <= seg[2] /\ last <= sub[2]
      /\ (first = seg[1] \/ first = sub[1]) /\ (last = seg[2] \/ last = sub[2])
  BY <1>1, <1>2 DEF Later, Sooner
<1> HIDE DEF first, last
<1>b. (first - seg[1]) % Interval = 0 /\ (last - seg[1]) % Interval = 0
  <2>1. first % Interval = 0 /\ last % Interval = 0 /\ seg[1] % Interval = 0
    BY <1>0, <1>1, <1>a
  <2>2. first \in Int /\ last \in Int /\ seg[1] \in Int
    BY <1>1, <1>a
  <2>3. (first - seg[1]) % Interval = first % Interval /\ (last - seg[1]) % Interval = last % Interval
    BY <2>1, <2>2, <1>0, ModDiff
  <2>4. QED
    BY <2>1, <2>3
<1>c. AlignedFirst(seg, sub) = first
  BY <1>b DEF AlignedFirst, first
<1>d. AlignedLast(seg, sub) = last
  <2>1. AlignedLast(seg, sub) = last - ((last - seg[1]) % Interval)
    BY DEF AlignedLast, last
  <2>2. QED
    BY <2>1, <1>a, <1>b
<1>4. CASE ~Cuts(seg, sub)
  <2>1. CutOut(seg, sub) = <<seg>>
    BY <1>4 DEF CutOut
  <2>2. ASSUME NEW t \in Bars(seg) PROVE t \notin Bars(sub)
    <3>1. SUFFICES ASSUME t \in Bars(sub) PROVE Cuts(seg, sub)
      BY <1>4
    <3>2. t \in Nat /\ seg[1] <= t /\ t <= seg[2] /\ sub[1] <= t /\ t <= sub[2]
      BY <3>1, <1>0, <1>3
    <3>3. first <= t /\ t <= last
      BY <3>2, <1>a
    <3>4. first <= seg[2] /\ first <= sub[2] /\ last >= seg[1] /\ first <= last
      BY <3>2, <3>3, <1>1, <1>2, <1>a
    <3>5. ~(sub[2] < seg[1] \/ sub[1] > seg[2])
      BY <3>2, <1>1, <1>2
    <3>6. (seg[1] - sub[1]) % Interval = 0
      <4>1. seg[1] \in Int /\ sub[1] \in Int /\ seg[1] % Interval = 0 /\ sub[1] % Interval = 0
        BY <1>0, <1>1, <1>2
      <4>2. (seg[1] - sub[1]) % Interval = seg[1] % Interval
        BY <4>1, <1>0, ModDiff
      <4>3. QED
        BY <4>1, <4>2
    <3>7. QED
      BY <3>4, <3>5, <3>6, <1>2, <1>c, <1>d DEF Cuts
  <2>3. <<seg>> \in Seq(Within(lo, hi)) /\ Covered(<<seg>>) = Bars(seg)
    BY CoveredOne
  <2>4. QED
    BY <2>1, <2>2, <2>3
<1>5. CASE Cuts(seg, sub)
  <2>5. first <= last
    BY <1>5, <1>c, <1>d DEF Cuts
  <2> DEFINE a == IF first > seg[1] THEN << <<seg[1], first - Interval>> >> ELSE <<>>
             b == IF last < seg[2] THEN << <<last + Interval, seg[2]>> >> ELSE <<>>
  <2>6. CutOut(seg, sub) = a \o b
    BY <1>5, <1>c, <1>d DEF CutOut
  <2>7. a \in Seq(Within(lo, hi)) /\ \A t \in Grid : t \in Covered(a) <=> seg[1] <= t /\ t < first
    <3>1. CASE first > seg[1]
      <4>1. first - Interval \in Grid /\ seg[1] <= first - Interval /\ first - Interval <= hi
        <5>1. first - Interval \in Grid /\ seg[1] <= first - Interval
          BY <3>1, <1>1, <1>a, GridStep
        <5>2. QED
          BY <5>1, <1>0, <1>1, <1>a, <2>5
      <4>a. PICK e : e = <<seg[1], first - Interval>>
        OBVIOUS
      <4>2. e = <<seg[1], first - Interval>> /\ e[1] = seg[1] /\ e[2] = first - Interval
        BY <4>a
      <4>3. e \in Within(lo, hi) /\ a = <<e>>
        BY <4>1, <4>2, <3>1, <1>1, WithinMade
      <4> HIDE DEF a
      <4>4. a \in Seq(Within(lo, hi)) /\ Covered(a) = Bars(e)
        BY <4>3, CoveredOne
      <4>5. ASSUME NEW t \in Grid PROVE t \in Bars(e) <=> seg[1] <= t /\ t < first
        <5>0. t \in Nat /\ Interval \in Nat \ {0}
          BY <1>0
        <5>1. t < first <=> t <= first - Interval
          BY <5>0, <1>a, GridStep
        <5>2. e \in Grid \X Grid
          BY <4>3, WithinOf
        <5>3. QED
          BY <5>1, <5>2, <4>2, BarsOnGrid
      <4>6. QED
        BY <4>4, <4>5
    <3>2. CASE ~(first > seg[1])
      <4>1. a = <<>>
        BY <3>2
      <4> HIDE DEF a
      <4>2. a \in Seq(Within(lo, hi))
        BY <4>1
      <4>3. \A t \in Grid : ~(seg[1] <= t /\ t < first)
        BY <3>2, <1>0, <1>1, <1>a
      <4>4. DOMAIN <<>> = {} /\ Covered(<<>>) = {}
        BY DEF Covered
      <4>5. QED
        BY <4>1, <4>2, <4>3, <4>4
    <3>3. QED
      BY <3>1, <3>2
  <2>8. b \in Seq(Within(lo, hi)) /\ \A t \in Grid : t \in Covered(b) <=> last < t /\ t <= seg[2]
    <3>1. CASE last < seg[2]
      <4>1. last + Interval \in Grid /\ last + Interval <= seg[2] /\ lo <= last + Interval
        <5>1. last + Interval \in Grid /\ last + Interval <= seg[2]
          BY <3>1, <1>1, <1>a, GridStep
        <5>2. QED
          BY <5>1, <1>0, <1>1, <1>a, <2>5
      <4>a. PICK e : e = <<last + Interval, seg[2]>>
        OBVIOUS
      <4>2. e = <<last + Interval, seg[2]>> /\ e[1] = last + Interval /\ e[2] = seg[2]
        BY <4>a
      <4>3. e \in Within(lo, hi) /\ b = <<e>>
        BY <4>1, <4>2, <3>1, <1>1, WithinMade
      <4> HIDE DEF b
      <4>4. b \in Seq(Within(lo, hi)) /\ Covered(b) = Bars(e)
        BY <4>3, CoveredOne
      <4>5. ASSUME NEW t \in Grid PROVE t \in Bars(e) <=> last < t /\ t <= seg[2]
        <5>0. t \in Nat /\ Interval \in Nat \ {0}
          BY <1>0
        <5>1. last < t <=> last + Interval <= t
          BY <5>0, <1>a, GridStep
        <5>2. e \in Grid \X Grid
          BY <4>3, WithinOf
        <5>3. QED
          BY <5>1, <5>2, <4>2, BarsOnGrid
      <4>6. QED
        BY <4>4, <4>5
    <3>2. CASE ~(last < seg[2])
      <4>1. b = <<>>
        BY <3>2
      <4> HIDE DEF b
      <4>2. b \in Seq(Within(lo, hi))
        BY <4>1
      <4>3. \A t \in Grid : ~(last < t /\ t <= seg[2])
        BY <3>2, <1>0, <1>1, <1>a
      <4>4. DOMAIN <<>> = {} /\ Covered(<<>>) = {}
        BY DEF Covered
      <4>5. QED
        BY <4>1, <4>2, <4>3, <4>4
    <3>3. QED
      BY <3>1, <3>2
  <2> HIDE DEF a, b
  <2>9. a \o b \in Seq(Within(lo, hi)) /\ Covered(a \o b) = Covered(a) \cup Covered(b)
    BY <2>7, <2>8, ConcatCovered
  <2>10. ASSUME NEW t \in Grid
         PROVE  t \in Covered(a) \cup Covered(b) <=> t \in Bars(seg) /\ t \notin Bars(sub)
    <3>1. t \in Nat /\ (t \in Bars(seg) <=> seg[1] <= t /\ t <= seg[2])
             /\ (t \in Bars(sub) <=> sub[1] <= t /\ t <= sub[2])
      BY <1>0, <1>3
    <3>2. CASE t < first
      <4>1. t \in Covered(a) \cup Covered(b) <=> seg[1] <= t
        BY <3>1, <3>2, <2>7, <2>8, <2>5, <1>a
      <4>2. seg[1] <= t => t <= seg[2] /\ ~(sub[1] <= t)
        BY <3>1, <3>2, <2>5, <1>a, <1>1, <1>2
      <4>3. QED
        BY <4>1, <4>2, <3>1
    <3>3. CASE last < t
      <4>1. t \in Covered(a) \cup Covered(b) <=> t <= seg[2]
        BY <3>1, <3>3, <2>7, <2>8, <2>5, <1>a
      <4>2. t <= seg[2] => seg[1] <= t /\ ~(t <= sub[2])
        BY <3>1, <3>3, <2>5, <1>a, <1>1, <1>2
      <4>3. QED
        BY <4>1, <4>2, <3>1
    <3>4. CASE first <= t /\ t <= last
      <4>1. sub[1] <= t /\ t <= sub[2]
        BY <3>1, <3>4, <1>a, <1>2
      <4>2. ~(t < first) /\ ~(last < t)
        BY <3>1, <3>4, <1>a
      <4>3. QED
        BY <3>1, <4>1, <4>2, <2>7, <2>8
    <3>5. QED
      BY <3>1, <3>2, <3>3, <3>4, <1>a
  <2>11. Covered(a) \cup Covered(b) = Bars(seg) \ Bars(sub)
    <3>1. \A t : t \in Covered(a) \cup Covered(b) => t \in Grid
      BY <2>7, <2>8, CoveredOn
    <3>2. \A t : t \in Bars(seg) => t \in Grid
      BY <1>3
    <3>3. QED
      BY <3>1, <3>2, <2>10
  <2>12. QED
    BY <2>6, <2>9, <2>11
<1>6. QED
  BY <1>4, <1>5

\* One range is taken from each segment.
LEMMA CutAllRun ==
    ASSUME NEW lo \in Nat, NEW hi \in Nat, NEW segs \in Seq(Within(lo, hi)), NEW sub \in Within(lo, hi)
    PROVE  \E h \in [0..Len(segs) -> Seq(Within(lo, hi))] :
              /\ h[0] = <<>>
              /\ \A k \in 1..Len(segs) : h[k] = h[k - 1] \o CutOut(segs[k], sub)
              /\ CutAll(segs, sub) = h[Len(segs)]
<1> DEFINE size == Len(segs)
           steps == [k \in 1..size |-> [x \in Seq(Within(lo, hi)) |-> x \o CutOut(segs[k], sub)]]
           Eq(f) == f = [s \in SUBSET DOMAIN segs |->
                            IF s = {} THEN <<>> ELSE f[s \ {Max(s)}] \o CutOut(segs[Max(s)], sub)]
<1>0. size \in Nat /\ DOMAIN segs = 1..size
  OBVIOUS
<1>1. <<>> \in Seq(Within(lo, hi))
  OBVIOUS
<1>2. steps \in [1..size -> [Seq(Within(lo, hi)) -> Seq(Within(lo, hi))]]
  <2>1. ASSUME NEW k \in 1..size, NEW x \in Seq(Within(lo, hi))
        PROVE  x \o CutOut(segs[k], sub) \in Seq(Within(lo, hi))
    <3>1. CutOut(segs[k], sub) \in Seq(Within(lo, hi))
      BY <1>0, CutOutExact
    <3>2. QED
      BY <3>1, ConcatCovered
  <2>2. QED
    BY <2>1
<1> HIDE DEF steps, size
<1>3. PICK f \in [SUBSET (1..size) -> Seq(Within(lo, hi))] :
          \A s \in SUBSET (1..size) : f[s] = IF s = {} THEN <<>> ELSE steps[Max(s)][f[s \ {Max(s)}]]
  <2>0. PICK X : X = Seq(Within(lo, hi))
    OBVIOUS
  <2>1. PICK b : b = <<>>
    OBVIOUS
  <2>2. b \in X /\ size \in Nat /\ steps \in [1..size -> [X -> X]]
    BY <1>0, <1>1, <1>2, <2>0, <2>1
  <2>3. \E f \in [SUBSET (1..size) -> X] : IsFold(f, size, b, steps)
    BY <2>2, FoldExists
  <2>4. QED
    BY <2>0, <2>1, <2>3 DEF IsFold
<1>4. ASSUME NEW s \in SUBSET (1..size), s # {}
      PROVE  steps[Max(s)][f[s \ {Max(s)}]] = f[s \ {Max(s)}] \o CutOut(segs[Max(s)], sub)
  <2>1. Max(s) \in 1..size /\ s \ {Max(s)} \in SUBSET (1..size)
    BY <1>0, <1>4, MaxOf
  <2>2. f[s \ {Max(s)}] \in Seq(Within(lo, hi))
    BY <2>1
  <2>3. QED
    BY <2>1, <2>2 DEF steps
<1>5. Eq(f)
  BY <1>0, <1>3, <1>4
<1>6. PICK g : g = CHOOSE v : Eq(v)
  OBVIOUS
<1>7. Eq(g)
  BY <1>5, <1>6
<1>8. CutAll(segs, sub) = g[DOMAIN segs]
  BY <1>6 DEF CutAll, FoldLeft, MapThenFoldSet
<1>9. g[{}] = <<>>
  BY <1>7
<1>10. ASSUME NEW k \in 1..size PROVE g[1..k] = g[1..k - 1] \o CutOut(segs[k], sub)
  <2>1. 1..k \in SUBSET DOMAIN segs /\ 1..k # {} /\ Max(1..k) = k /\ (1..k) \ {Max(1..k)} = 1..k - 1
    BY <1>0, MaxPrefix
  <2>2. g[1..k] = g[(1..k) \ {Max(1..k)}] \o CutOut(segs[Max(1..k)], sub)
    BY <1>7, <2>1
  <2>3. QED
    BY <2>1, <2>2
<1> HIDE DEF Eq
<1> DEFINE h == [k \in 0..size |-> g[1..k]]
           J == {k \in 0..size : g[1..k] \in Seq(Within(lo, hi))}
<1>11. 1..0 = {} /\ 0 \in 0..size
  BY <1>0
<1>12. 0 \in J
  BY <1>1, <1>9, <1>11
<1>13. ASSUME NEW k \in 1..size, k - 1 \in J PROVE k \in J
  <2>1. k \in 0..size /\ k - 1 \in 0..size
    BY <1>0
  <2>2. g[1..k - 1] \in Seq(Within(lo, hi))
    BY <1>13
  <2>3. steps[k][g[1..k - 1]] \in Seq(Within(lo, hi))
    BY <2>2, <1>2
  <2>4. steps[k][g[1..k - 1]] = g[1..k - 1] \o CutOut(segs[k], sub)
    BY <2>2 DEF steps
  <2>5. QED
    BY <1>10, <2>1, <2>3, <2>4
<1> HIDE DEF J
<1>14. \A k \in 0..size : k \in J
  BY <1>0, <1>12, <1>13, UpTo
<1>15. h \in [0..size -> Seq(Within(lo, hi))]
  BY <1>14 DEF J
<1>16. h[0] = <<>>
  BY <1>9, <1>11
<1>17. ASSUME NEW k \in 1..size PROVE h[k] = h[k - 1] \o CutOut(segs[k], sub)
  <2>1. k \in 0..size /\ k - 1 \in 0..size
    BY <1>0
  <2>2. h[k] = g[1..k] /\ h[k - 1] = g[1..k - 1]
    BY <2>1
  <2>3. QED
    BY <2>2, <1>10
<1>18. CutAll(segs, sub) = h[size]
  <2>1. size \in 0..size
    BY <1>0
  <2>2. QED
    BY <2>1, <1>0, <1>8
<1> HIDE DEF h
<1>19. QED
  BY <1>15, <1>16, <1>17, <1>18 DEF size

\* The segments without one range: they lose its bars, and no others.
LEMMA CutAllExact ==
    ASSUME NEW lo \in Nat, NEW hi \in Nat, NEW segs \in Seq(Within(lo, hi)), NEW sub \in Within(lo, hi)
    PROVE  /\ CutAll(segs, sub) \in Seq(Within(lo, hi))
           /\ Covered(CutAll(segs, sub)) = Covered(segs) \ Bars(sub)
<1> DEFINE n == Len(segs)
<1>9. PICK h \in [0..n -> Seq(Within(lo, hi))] :
          /\ h[0] = <<>> /\ CutAll(segs, sub) = h[n]
          /\ \A k \in 1..n : h[k] = h[k - 1] \o CutOut(segs[k], sub)
  BY CutAllRun
<1>10. n \in Nat /\ \A k \in 1..n : segs[k] \in Within(lo, hi)
  OBVIOUS
<1>b. Covered(segs) = CoveredTo(segs, n)
  BY CoveredStep
<1> HIDE DEF n
<1> DEFINE J == {k \in 0..n : Covered(h[k]) = CoveredTo(segs, k) \ Bars(sub)}
<1>12. 0 \in J
  <2>1. 0 \in 0..n /\ CoveredTo(segs, 0) = {}
    BY <1>10, CoveredStep
  <2>2. DOMAIN <<>> = {} /\ Covered(<<>>) = {}
    BY DEF Covered
  <2>3. QED
    BY <2>1, <2>2, <1>9
<1>13. ASSUME NEW k \in 1..n, k - 1 \in J PROVE k \in J
  <2>0. k \in 0..n /\ k - 1 \in 0..n
    BY <1>10
  <2>1. PICK m, c : m = h[k - 1] /\ c = CutOut(segs[k], sub)
    OBVIOUS
  <2>2. m \in Seq(Within(lo, hi)) /\ c \in Seq(Within(lo, hi)) /\ Covered(c) = Bars(segs[k]) \ Bars(sub)
    BY <2>0, <2>1, <1>10, CutOutExact
  <2>3. Covered(m \o c) = Covered(m) \cup Covered(c)
    BY <2>2, ConcatCovered
  <2>4. h[k] = m \o c /\ Covered(m) = CoveredTo(segs, k - 1) \ Bars(sub)
    BY <2>1, <1>9, <1>13
  <2>5. CoveredTo(segs, k) = CoveredTo(segs, k - 1) \cup Bars(segs[k])
    BY CoveredStep
  <2>6. Covered(h[k]) = CoveredTo(segs, k) \ Bars(sub)
    BY <2>2, <2>3, <2>4, <2>5
  <2>7. QED
    BY <2>0, <2>6
<1> HIDE DEF J
<1>14. \A k \in 0..n : k \in J
  BY <1>10, <1>12, <1>13, UpTo
<1>15. n \in J /\ n \in 0..n
  BY <1>10, <1>14
<1>16. h[n] \in Seq(Within(lo, hi)) /\ Covered(h[n]) = Covered(segs) \ Bars(sub)
  BY <1>15, <1>b DEF J
<1>19. QED
  BY <1>9, <1>16

Cuttings(r, subs) == FoldLeft(CutAll, <<r>>, subs)

\* The ranges are taken away one after the other.
LEMMA CuttingRun ==
    ASSUME NEW lo \in Nat, NEW hi \in Nat, NEW r \in Within(lo, hi), NEW subs \in Seq(Within(lo, hi))
    PROVE  \E h \in [0..Len(subs) -> Seq(Within(lo, hi))] :
              /\ h[0] = <<r>>
              /\ \A k \in 1..Len(subs) : h[k] = CutAll(h[k - 1], subs[k])
              /\ Cuttings(r, subs) = h[Len(subs)]
<1> DEFINE size == Len(subs)
           steps == [k \in 1..size |-> [x \in Seq(Within(lo, hi)) |-> CutAll(x, subs[k])]]
           Eq(f) == f = [s \in SUBSET DOMAIN subs |->
                            IF s = {} THEN <<r>> ELSE CutAll(f[s \ {Max(s)}], subs[Max(s)])]
<1>0. size \in Nat /\ DOMAIN subs = 1..size
  OBVIOUS
<1>1. <<r>> \in Seq(Within(lo, hi))
  BY CoveredOne
<1>2. steps \in [1..size -> [Seq(Within(lo, hi)) -> Seq(Within(lo, hi))]]
  <2>1. ASSUME NEW k \in 1..size, NEW x \in Seq(Within(lo, hi))
        PROVE  CutAll(x, subs[k]) \in Seq(Within(lo, hi))
    <3>1. subs[k] \in Within(lo, hi)
      BY <1>0
    <3>2. QED
      BY <3>1, CutAllExact
  <2>2. QED
    BY <2>1
<1> HIDE DEF steps, size
<1>3. PICK f \in [SUBSET (1..size) -> Seq(Within(lo, hi))] :
          \A s \in SUBSET (1..size) : f[s] = IF s = {} THEN <<r>> ELSE steps[Max(s)][f[s \ {Max(s)}]]
  <2>0. PICK X : X = Seq(Within(lo, hi))
    OBVIOUS
  <2>1. PICK b : b = <<r>>
    OBVIOUS
  <2>2. b \in X /\ size \in Nat /\ steps \in [1..size -> [X -> X]]
    BY <1>0, <1>1, <1>2, <2>0, <2>1
  <2>3. \E f \in [SUBSET (1..size) -> X] : IsFold(f, size, b, steps)
    BY <2>2, FoldExists
  <2>4. QED
    BY <2>0, <2>1, <2>3 DEF IsFold
<1>4. ASSUME NEW s \in SUBSET (1..size), s # {}
      PROVE  steps[Max(s)][f[s \ {Max(s)}]] = CutAll(f[s \ {Max(s)}], subs[Max(s)])
  <2>1. Max(s) \in 1..size /\ s \ {Max(s)} \in SUBSET (1..size)
    BY <1>0, <1>4, MaxOf
  <2>2. f[s \ {Max(s)}] \in Seq(Within(lo, hi))
    BY <2>1
  <2>3. QED
    BY <2>1, <2>2 DEF steps
<1>5. Eq(f)
  BY <1>0, <1>3, <1>4
<1>6. PICK g : g = CHOOSE v : Eq(v)
  OBVIOUS
<1>7. Eq(g)
  BY <1>5, <1>6
<1>8. Cuttings(r, subs) = g[DOMAIN subs]
  BY <1>6 DEF Cuttings, FoldLeft, MapThenFoldSet
<1>9. g[{}] = <<r>>
  BY <1>7
<1>10. ASSUME NEW k \in 1..size PROVE g[1..k] = CutAll(g[1..k - 1], subs[k])
  <2>1. 1..k \in SUBSET DOMAIN subs /\ 1..k # {} /\ Max(1..k) = k /\ (1..k) \ {Max(1..k)} = 1..k - 1
    BY <1>0, MaxPrefix
  <2>2. g[1..k] = CutAll(g[(1..k) \ {Max(1..k)}], subs[Max(1..k)])
    BY <1>7, <2>1
  <2>3. QED
    BY <2>1, <2>2
<1> HIDE DEF Eq
<1> DEFINE h == [k \in 0..size |-> g[1..k]]
           J == {k \in 0..size : g[1..k] \in Seq(Within(lo, hi))}
<1>11. 1..0 = {} /\ 0 \in 0..size
  BY <1>0
<1>12. 0 \in J
  BY <1>1, <1>9, <1>11
<1>13. ASSUME NEW k \in 1..size, k - 1 \in J PROVE k \in J
  <2>1. k \in 0..size /\ k - 1 \in 0..size
    BY <1>0
  <2>2. g[1..k - 1] \in Seq(Within(lo, hi))
    BY <1>13
  <2>3. steps[k][g[1..k - 1]] \in Seq(Within(lo, hi))
    BY <2>2, <1>2
  <2>4. steps[k][g[1..k - 1]] = CutAll(g[1..k - 1], subs[k])
    BY <2>2 DEF steps
  <2>5. QED
    BY <1>10, <2>1, <2>3, <2>4
<1> HIDE DEF J
<1>14. \A k \in 0..size : k \in J
  BY <1>0, <1>12, <1>13, UpTo
<1>15. h \in [0..size -> Seq(Within(lo, hi))]
  BY <1>14 DEF J
<1>16. h[0] = <<r>>
  BY <1>9, <1>11
<1>17. ASSUME NEW k \in 1..size PROVE h[k] = CutAll(h[k - 1], subs[k])
  <2>1. k \in 0..size /\ k - 1 \in 0..size
    BY <1>0
  <2>2. h[k] = g[1..k] /\ h[k - 1] = g[1..k - 1]
    BY <2>1
  <2>3. QED
    BY <2>2, <1>10
<1>18. Cuttings(r, subs) = h[size]
  <2>1. size \in 0..size
    BY <1>0
  <2>2. QED
    BY <2>1, <1>0, <1>8
<1> HIDE DEF h
<1>19. QED
  BY <1>15, <1>16, <1>17, <1>18 DEF size

\* subtract returns parts of the range: the bars that are in none of the ranges taken away.
LEMMA SubtractExact ==
    ASSUME NEW lo \in Nat, NEW hi \in Nat, NEW r \in Within(lo, hi), NEW subs \in Seq(Within(lo, hi))
    PROVE  /\ SubtractFrom(r, subs) \in Seq(Within(lo, hi))
           /\ Covered(SubtractFrom(r, subs)) = Bars(r) \ Covered(subs)
<1> DEFINE n == Len(subs)
<1>9. PICK h \in [0..n -> Seq(Within(lo, hi))] :
          /\ h[0] = <<r>> /\ Cuttings(r, subs) = h[n]
          /\ \A k \in 1..n : h[k] = CutAll(h[k - 1], subs[k])
  BY CuttingRun
<1>10. n \in Nat /\ \A k \in 1..n : subs[k] \in Within(lo, hi)
  OBVIOUS
<1>b. Covered(subs) = CoveredTo(subs, n)
  BY CoveredStep
<1> HIDE DEF n
<1> DEFINE J == {k \in 0..n : Covered(h[k]) = Bars(r) \ CoveredTo(subs, k)}
<1>12. 0 \in J
  <2>1. 0 \in 0..n /\ Covered(<<r>>) = Bars(r)
    BY <1>10, CoveredOne
  <2>2. Covered(h[0]) = Bars(r)
    BY <2>1, <1>9
  <2>3. CoveredTo(subs, 0) = {}
    BY CoveredStep
  <2>4. QED
    BY <2>1, <2>2, <2>3
<1>13. ASSUME NEW k \in 1..n, k - 1 \in J PROVE k \in J
  <2>0. k \in 0..n /\ k - 1 \in 0..n
    BY <1>10
  <2>1. PICK m, c : m = h[k - 1] /\ c = subs[k]
    OBVIOUS
  <2>2. m \in Seq(Within(lo, hi)) /\ c \in Within(lo, hi)
    BY <2>0, <2>1, <1>10
  <2>3. Covered(CutAll(m, c)) = Covered(m) \ Bars(c)
    <3>1. PICK l, u : l = lo /\ u = hi
      OBVIOUS
    <3>2. l \in Nat /\ u \in Nat /\ m \in Seq(Within(l, u)) /\ c \in Within(l, u)
      BY <3>1, <2>2
    <3>3. CutAll(m, c) \in Seq(Within(l, u)) /\ Covered(CutAll(m, c)) = Covered(m) \ Bars(c)
      BY <3>2, CutAllExact
    <3>4. QED
      BY <3>3
  <2>4. h[k] = CutAll(m, c) /\ Covered(m) = Bars(r) \ CoveredTo(subs, k - 1)
    BY <2>1, <1>9, <1>13
  <2>5. CoveredTo(subs, k) = CoveredTo(subs, k - 1) \cup Bars(c)
    BY <2>1, CoveredStep
  <2>6. Covered(h[k]) = Bars(r) \ CoveredTo(subs, k)
    BY <2>3, <2>4, <2>5
  <2>7. QED
    BY <2>0, <2>6
<1> HIDE DEF J
<1>14. \A k \in 0..n : k \in J
  BY <1>10, <1>12, <1>13, UpTo
<1>15. n \in J /\ n \in 0..n
  BY <1>10, <1>14
<1>16. h[n] \in Seq(Within(lo, hi)) /\ Covered(h[n]) = Bars(r) \ Covered(subs)
  BY <1>15, <1>b DEF J
<1>17. SubtractFrom(r, subs) = MergeRanges(h[n])
  BY <1>9 DEF SubtractFrom, Cuttings
<1>18. MergeRanges(h[n]) \in Seq(Within(lo, hi)) /\ Covered(MergeRanges(h[n])) = Covered(h[n])
  BY <1>16, MergeSound
<1>19. QED
  BY <1>16, <1>17, <1>18

\* What is read of the table and what is left for the backfill, for every table: the
\* rest is cut into parts of the request, and what is in none of them is in the table.
LEMMA SplitSound ==
    ASSUME NEW table \in SUBSET Grid, NEW available,
           available = IntersectWith(Request, RunsOf(SetToSeq(table)))
    PROVE  /\ available \in Seq(Part) /\ SubtractFrom(Request, available) \in Seq(Part)
           /\ Bars(Request) \subseteq table \cup Covered(SubtractFrom(Request, available))
<1> DEFINE lo == Request[1]
           hi == Request[2]
<1>0. Request \in Spans /\ lo \in Nat /\ hi \in Nat
  BY SeamlessConstants, RangeConstants DEF Spans, Grid, Time
<1>1. Part = Within(lo, hi)
  <2>1. \A r : r \in Part <=> r \in Within(lo, hi)
    BY <1>0 DEF Part, Within, Spans
  <2>2. QED
    BY <2>1
<1>2. Request \in Within(lo, hi)
  BY <1>0 DEF Within
<1>3. PICK ts : ts = SetToSeq(table)
  OBVIOUS
<1>4. ts \in Seq(Grid) /\ ToSet(ts) \subseteq table
  BY <1>3, TableListed
<1>5. PICK runs : runs = RunsOf(ts)
  OBVIOUS
<1>6. runs \in Seq(Within(0, Horizon)) /\ Covered(runs) \subseteq table
  BY <1>4, <1>5, RunsSound
<1>7. available = IntersectWith(Request, runs)
  BY <1>3, <1>5
<1>8. available \in Seq(Within(lo, hi)) /\ Covered(available) \subseteq Covered(runs)
  BY <1>0, <1>6, <1>7, IntersectSound
<1> HIDE DEF lo, hi
<1>9. /\ SubtractFrom(Request, available) \in Seq(Within(lo, hi))
      /\ Bars(Request) \subseteq Covered(SubtractFrom(Request, available)) \cup Covered(available)
  BY <1>0, <1>2, <1>8, SubtractExact
<1>10. QED
  BY <1>1, <1>6, <1>8, <1>9

-----------------------------------------------------------------------------
(* RangeMath: lists without repetition *)

\* Lists in order without a range that comes twice, and lists of ranges with a bar at
\* least between them.
Strict(s)   == \A i, j \in DOMAIN s : i < j => Earlier(s[i], s[j])
Distinct(s) == \A i, j \in DOMAIN s : i # j => s[i] # s[j]
Apart(s)    == \A i, j \in DOMAIN s : i < j => s[i][2] + Interval < s[j][1]

LEMMA EarlierTotal ==
    ASSUME NEW a \in Spans, NEW b \in Spans
    PROVE  /\ a # b => Earlier(a, b) \/ Earlier(b, a)
           /\ Earlier(a, b) => a # b /\ ~Earlier(b, a)
BY SpanOf DEF Earlier

\* A range that is put in place is somewhere, the others in front of it or behind it.
LEMMA PutInOrderAt ==
    ASSUME NEW s \in Sorted, NEW r \in Spans
    PROVE  \E k \in 1..Len(s) + 1 :
              /\ \A i \in 1..k - 1 : ~Earlier(r, s[i])
              /\ \A i \in k..Len(s) : Earlier(r, s[i])
              /\ PutInOrder(s, r) \in Seq(Spans) /\ Len(PutInOrder(s, r)) = Len(s) + 1
              /\ \A i \in 1..Len(s) + 1 :
                    PutInOrder(s, r)[i] = IF i < k THEN s[i] ELSE IF i = k THEN r ELSE s[i - 1]
<1>0. s \in Seq(Spans) /\ Len(s) \in Nat /\ DOMAIN s = 1..Len(s)
  BY DEF Sorted
<1>1. PICK k \in 1..Len(s) + 1 : /\ k = Place(s, r)
                                 /\ \A i \in 1..k - 1 : ~Earlier(r, s[i])
                                 /\ \A i \in k..Len(s) : Earlier(r, s[i])
  BY PlaceExists
<1>2. PICK X : X = Spans
  OBVIOUS
<1>3. s \in Seq(X) /\ k \in 1..Len(s) + 1 /\ r \in X
  BY <1>0, <1>1, <1>2
<1>4. /\ InsertAt(s, k, r) \in Seq(X) /\ Len(InsertAt(s, k, r)) = Len(s) + 1
      /\ \A i \in 1..Len(s) + 1 :
            InsertAt(s, k, r)[i] = IF i < k THEN s[i] ELSE IF i = k THEN r ELSE s[i - 1]
  BY <1>3, InsertAtProps
<1>5. PutInOrder(s, r) = InsertAt(s, k, r)
  BY <1>1 DEF PutInOrder
<1>6. QED
  BY <1>1, <1>2, <1>4, <1>5

LEMMA PutInOrderStrict ==
    ASSUME NEW s \in Sorted, Strict(s), NEW r \in Spans, r \notin ToSet(s)
    PROVE  Strict(PutInOrder(s, r))
<1>0. s \in Seq(Spans) /\ Len(s) \in Nat /\ DOMAIN s = 1..Len(s) /\ \A i \in 1..Len(s) : s[i] \in Spans
  BY DEF Sorted
<1>a. PICK k \in 1..Len(s) + 1 :
          /\ \A i \in 1..k - 1 : ~Earlier(r, s[i])
          /\ \A i \in k..Len(s) : Earlier(r, s[i])
          /\ PutInOrder(s, r) \in Seq(Spans) /\ Len(PutInOrder(s, r)) = Len(s) + 1
          /\ \A i \in 1..Len(s) + 1 :
                PutInOrder(s, r)[i] = IF i < k THEN s[i] ELSE IF i = k THEN r ELSE s[i - 1]
  BY PutInOrderAt
<1>1. PICK t : t = PutInOrder(s, r)
  OBVIOUS
<1>2. /\ \A i \in 1..k - 1 : ~Earlier(r, s[i])
      /\ \A i \in k..Len(s) : Earlier(r, s[i])
      /\ t \in Seq(Spans) /\ Len(t) = Len(s) + 1
      /\ \A i \in 1..Len(s) + 1 : t[i] = IF i < k THEN s[i] ELSE IF i = k THEN r ELSE s[i - 1]
  BY <1>1, <1>a
<1>3. ASSUME NEW i \in 1..k - 1 PROVE i \in 1..Len(s) /\ Earlier(s[i], r)
  <2>1. i \in 1..Len(s) /\ s[i] \in Spans /\ ~Earlier(r, s[i])
    BY <1>0, <1>2
  <2>2. s[i] # r
    BY <2>1, <1>0 DEF ToSet
  <2>3. QED
    BY <2>1, <2>2, EarlierTotal
<1>4. ASSUME NEW i \in 1..Len(s), NEW j \in 1..Len(s), i < j PROVE Earlier(s[i], s[j])
  BY <1>0, <1>4 DEF Strict
<1>5. ASSUME NEW i \in 1..Len(s) + 1, NEW j \in 1..Len(s) + 1, i < j PROVE Earlier(t[i], t[j])
  <2>1. CASE j < k
    <3>1. t[i] = s[i] /\ t[j] = s[j] /\ i \in 1..Len(s) /\ j \in 1..Len(s)
      BY <2>1, <1>0, <1>2, <1>5
    <3>2. QED
      BY <3>1, <1>4, <1>5
  <2>2. CASE i > k
    <3>1. t[i] = s[i - 1] /\ t[j] = s[j - 1] /\ i - 1 \in 1..Len(s) /\ j - 1 \in 1..Len(s) /\ i - 1 < j - 1
      BY <2>2, <1>0, <1>2, <1>5
    <3>2. QED
      BY <3>1, <1>4
  <2>3. CASE i < k /\ j = k
    <3>1. t[i] = s[i] /\ t[j] = r /\ i \in 1..k - 1
      BY <2>3, <1>0, <1>2
    <3>2. QED
      BY <3>1, <1>3
  <2>4. CASE i = k /\ j > k
    <3>1. t[i] = r /\ t[j] = s[j - 1] /\ j - 1 \in k..Len(s)
      BY <2>4, <1>0, <1>2
    <3>2. QED
      BY <3>1, <1>2
  <2>5. CASE i < k /\ j > k
    <3>1. t[i] = s[i] /\ t[j] = s[j - 1] /\ i \in 1..Len(s) /\ j - 1 \in 1..Len(s) /\ i < j - 1
      BY <2>5, <1>0, <1>2
    <3>2. QED
      BY <3>1, <1>4
  <2>6. QED
    BY <2>1, <2>2, <2>3, <2>4, <2>5, <1>2, <1>5
<1>6. DOMAIN t = 1..Len(s) + 1
  BY <1>0, <1>2
<1>7. QED
  BY <1>1, <1>5, <1>6 DEF Strict

\* sorted, of ranges of which none comes twice.
LEMMA InOrderStrict ==
    ASSUME NEW rs \in Seq(Spans), Distinct(rs)
    PROVE  Strict(InOrder(rs))
<1> DEFINE n == Len(rs)
<1>0. n \in Nat /\ DOMAIN rs = 1..n /\ \A k \in 1..n : rs[k] \in Spans
  OBVIOUS
<1>1. PICK h \in [0..n -> Sorted] :
         /\ h[0] = <<>> /\ InOrder(rs) = h[n]
         /\ \A k \in 1..n : h[k] = PutInOrder(h[k - 1], rs[k])
  BY InOrderRun
<1> HIDE DEF n
<1> DEFINE J == {k \in 0..n : Strict(h[k]) /\ ToSet(h[k]) = {rs[i] : i \in 1..k}}
<1>2. 0 \in J
  <2>1. 1..0 = {} /\ 0 \in 0..n /\ DOMAIN <<>> = {}
    BY <1>0
  <2>2. {rs[i] : i \in 1..0} = {} /\ ToSet(<<>>) = {} /\ Strict(<<>>)
    BY <2>1 DEF ToSet, Strict
  <2>3. QED
    BY <2>1, <2>2, <1>1
<1>3. ASSUME NEW k \in 1..n, k - 1 \in J PROVE k \in J
  <2>0. k \in 0..n /\ k - 1 \in 0..n
    BY <1>0
  <2>1. h[k - 1] \in Sorted /\ rs[k] \in Spans
    BY <1>0, <1>1, <2>0
  <2>2. Strict(h[k - 1]) /\ ToSet(h[k - 1]) = {rs[i] : i \in 1..k - 1}
    BY <1>3
  <2>3. \A i \in 1..k - 1 : rs[i] # rs[k]
    BY <1>0 DEF Distinct
  <2>4. rs[k] \notin ToSet(h[k - 1])
    BY <2>2, <2>3
  <2>5. Strict(h[k])
    BY <2>1, <2>2, <2>4, <1>1, PutInOrderStrict
  <2>6. ToSet(h[k]) = ToSet(h[k - 1]) \cup {rs[k]}
    BY <2>1, <1>1, PutInOrderSound
  <2>7. 1..k = (1..k - 1) \cup {k}
    BY <1>0
  <2>8. ToSet(h[k]) = {rs[i] : i \in 1..k}
    BY <2>2, <2>6, <2>7
  <2>9. QED
    BY <2>0, <2>5, <2>8
<1> HIDE DEF J
<1>4. \A k \in 0..n : k \in J
  BY <1>0, <1>2, <1>3, UpTo
<1>5. n \in J
  BY <1>0, <1>4
<1>6. QED
  BY <1>1, <1>5 DEF J

\* Two lists in order without repetition that have the same ranges begin alike.
LEMMA StrictPrefix ==
    ASSUME NEW a \in Seq(Spans), NEW b \in Seq(Spans), Strict(a), Strict(b), ToSet(a) = ToSet(b)
    PROVE  Len(a) <= Len(b) /\ \A i \in 1..Len(a) : a[i] = b[i]
<1> DEFINE m == Len(a)
           n == Len(b)
<1>0. /\ m \in Nat /\ n \in Nat /\ DOMAIN a = 1..m /\ DOMAIN b = 1..n
      /\ \A i \in 1..m : a[i] \in Spans
      /\ \A i \in 1..n : b[i] \in Spans
  OBVIOUS
<1>1. /\ \A i \in 1..m : \E j \in 1..n : a[i] = b[j]
      /\ \A j \in 1..n : \E i \in 1..m : a[i] = b[j]
  BY <1>0 DEF ToSet
<1>2. /\ \A i, j \in 1..m : i < j => Earlier(a[i], a[j])
      /\ \A i, j \in 1..n : i < j => Earlier(b[i], b[j])
  BY <1>0 DEF Strict
<1> HIDE DEF m, n
<1> DEFINE J == {k \in 0..m : k <= n /\ \A i \in 1..k : a[i] = b[i]}
<1>3. 0 \in J
  BY <1>0
<1>4. ASSUME NEW k \in 1..m, k - 1 \in J PROVE k \in J
  <2>1. k - 1 <= n /\ \A i \in 1..k - 1 : a[i] = b[i]
    BY <1>4
  <2>2. PICK j \in 1..n : a[k] = b[j]
    BY <1>1
  <2>3. j >= k
    <3>1. SUFFICES ASSUME j < k PROVE FALSE
      BY <1>0
    <3>2. j \in 1..k - 1 /\ j \in 1..m
      BY <3>1, <1>0
    <3>3. a[j] = a[k] /\ Earlier(a[j], a[k]) /\ a[j] \in Spans /\ a[k] \in Spans
      BY <3>1, <3>2, <2>1, <2>2, <1>0, <1>2
    <3>4. QED
      BY <3>3, EarlierTotal
  <2>4. k \in 1..n
    BY <2>3, <1>0
  <2>5. PICK i \in 1..m : a[i] = b[k]
    BY <2>4, <1>1
  <2>6. i >= k
    <3>1. SUFFICES ASSUME i < k PROVE FALSE
      BY <1>0
    <3>2. i \in 1..k - 1 /\ i \in 1..n
      BY <3>1, <2>4, <1>0
    <3>3. b[i] = b[k] /\ Earlier(b[i], b[k]) /\ b[i] \in Spans /\ b[k] \in Spans
      BY <3>1, <3>2, <2>1, <2>4, <2>5, <1>0, <1>2
    <3>4. QED
      BY <3>3, EarlierTotal
  <2>7. a[k] = b[k]
    <3>1. SUFFICES ASSUME a[k] # b[k] PROVE FALSE
      OBVIOUS
    <3>2. j > k /\ i > k
      BY <3>1, <2>2, <2>3, <2>5, <2>6, <1>0
    <3>3. Earlier(b[k], a[k]) /\ Earlier(a[k], b[k])
      BY <3>2, <2>2, <2>4, <2>5, <1>2
    <3>4. QED
      BY <3>3, <2>4, <1>0, EarlierTotal
  <2>8. \A e \in 1..k : a[e] = b[e]
    <3>1. \A e \in 1..k : e = k \/ e \in 1..k - 1
      BY <1>0
    <3>2. QED
      BY <3>1, <2>1, <2>7
  <2>9. QED
    BY <2>4, <2>8, <1>0
<1> HIDE DEF J
<1>5. \A k \in 0..m : k \in J
  BY <1>0, <1>3, <1>4, UpTo
<1>6. m \in J
  BY <1>0, <1>5
<1>7. QED
  BY <1>6 DEF J, m, n

LEMMA StrictUnique ==
    ASSUME NEW a \in Seq(Spans), NEW b \in Seq(Spans), Strict(a), Strict(b), ToSet(a) = ToSet(b)
    PROVE  a = b
<1>1. Len(a) <= Len(b) /\ \A i \in 1..Len(a) : a[i] = b[i]
  BY StrictPrefix
<1>2. Len(b) <= Len(a)
  BY StrictPrefix
<1>3. Len(a) = Len(b) /\ Len(a) \in Nat
  BY <1>1, <1>2
<1>4. PICK X : X = Spans
  OBVIOUS
<1>5. a \in Seq(X) /\ b \in Seq(X)
  BY <1>4
<1>6. QED
  BY <1>1, <1>3, <1>5, SeqEqual

\* A list that is in order already is not changed.
LEMMA InOrderSame ==
    ASSUME NEW rs \in Seq(Spans), Strict(rs)
    PROVE  InOrder(rs) = rs
<1>1. Distinct(rs)
  <2>1. DOMAIN rs = 1..Len(rs) /\ Len(rs) \in Nat /\ \A i \in 1..Len(rs) : rs[i] \in Spans
    OBVIOUS
  <2>2. ASSUME NEW i \in 1..Len(rs), NEW j \in 1..Len(rs), i # j PROVE rs[i] # rs[j]
    <3>1. Earlier(rs[i], rs[j]) \/ Earlier(rs[j], rs[i])
      BY <2>1, <2>2 DEF Strict
    <3>2. QED
      BY <3>1, <2>1, EarlierTotal
  <2>3. QED
    BY <2>1, <2>2 DEF Distinct
<1>2. InOrder(rs) \in Sorted /\ ToSet(InOrder(rs)) = ToSet(rs) /\ Strict(InOrder(rs))
  BY <1>1, InOrderSound, InOrderStrict
<1>3. InOrder(rs) \in Seq(Spans)
  BY <1>2 DEF Sorted
<1>4. QED
  BY <1>2, <1>3, StrictUnique

-----------------------------------------------------------------------------
(* RangeMath: merging over a gap *)

LEMMA ApartStrict ==
    ASSUME NEW rs \in Seq(Spans), Apart(rs)
    PROVE  Strict(rs)
<1>1. DOMAIN rs = 1..Len(rs) /\ \A k \in 1..Len(rs) : rs[k] \in Spans
  OBVIOUS
<1>2. ASSUME NEW i \in 1..Len(rs), NEW j \in 1..Len(rs), i < j PROVE Earlier(rs[i], rs[j])
  <2>1. rs[i][2] + Interval < rs[j][1]
    BY <1>1, <1>2 DEF Apart
  <2>2. rs[i][1] \in Nat /\ rs[i][2] \in Nat /\ rs[j][1] \in Nat /\ rs[i][1] <= rs[i][2] /\ Interval \in Nat
    BY <1>1, SpanOf, RangeConstants
  <2>3. QED
    BY <2>1, <2>2 DEF Earlier
<1>3. QED
  BY <1>1, <1>2 DEF Strict

\* Ranges with a bar between them are not merged.
LEMMA MergeOfApart ==
    ASSUME NEW rs \in Seq(Within(0, Horizon)), Apart(rs)
    PROVE  MergeCoverage(rs) = rs
<1> DEFINE n == Len(rs)
<1>a. 0 \in Nat /\ Horizon \in Nat /\ Interval \in Nat
  BY RangeConstants
<1>0. n \in Nat /\ DOMAIN rs = 1..n /\ \A k \in 1..n : rs[k] \in Within(0, Horizon)
  OBVIOUS
<1>1. rs \in Seq(Spans)
  BY <1>0, SeqMonotonic DEF Within
<1>2. InOrder(rs) = rs
  BY <1>1, ApartStrict, InOrderSame
<1>3. PICK h \in [0..n -> Seq(Within(0, Horizon))] :
          /\ h[0] = <<>>
          /\ \A k \in 1..n : h[k] = Join(Interval, h[k - 1], rs[k])
          /\ GapSorted(Interval, rs) = h[n]
  BY <1>a, GapRun
<1>4. MergeCoverage(rs) = h[n]
  BY <1>2, <1>3 DEF MergeCoverage, MergeWithin, GapSorted
<1> HIDE DEF n
<1> DEFINE J == {k \in 0..n : Len(h[k]) = k /\ \A i \in 1..k : h[k][i] = rs[i]}
<1>5. 0 \in J
  <2>1. 0 \in 0..n /\ Len(h[0]) = 0
    BY <1>0, <1>3
  <2>2. QED
    BY <2>1
<1>6. ASSUME NEW k \in 1..n, k - 1 \in J PROVE k \in J
  <2>0. k \in 0..n /\ k - 1 \in 0..n
    BY <1>0
  <2>1. PICK m, r : m = h[k - 1] /\ r = rs[k]
    OBVIOUS
  <2>2. m \in Seq(Within(0, Horizon)) /\ r \in Within(0, Horizon) /\ Len(m) = k - 1 /\ \A i \in 1..k - 1 : m[i] = rs[i]
    BY <2>0, <2>1, <1>0, <1>6
  <2>3. ~(m # <<>> /\ r[1] <= Last(m)[2] + Interval)
    <3>1. SUFFICES ASSUME m # <<>> PROVE ~(r[1] <= Last(m)[2] + Interval)
      OBVIOUS
    <3>2. k - 1 \in 1..k - 1 /\ k - 1 \in 1..n
      BY <3>1, <2>2, <2>0, <1>0, EmptySeq
    <3>3. Last(m) = rs[k - 1]
      BY <3>2, <2>2 DEF Last
    <3>4. rs[k - 1][2] + Interval < rs[k][1]
      <4>1. PICK p : p = k - 1
        OBVIOUS
      <4>2. p \in DOMAIN rs /\ k \in DOMAIN rs /\ p < k
        BY <3>2, <4>1, <1>0
      <4>3. rs[p][2] + Interval < rs[k][1]
        BY <4>2 DEF Apart
      <4>4. QED
        BY <4>1, <4>3
    <3>5. rs[k - 1][2] \in Nat /\ rs[k][1] \in Nat
      BY <3>2, <1>0, <1>a, WithinOf
    <3>6. QED
      BY <3>3, <3>4, <3>5, <2>1, <1>a
  <2>4. h[k] = Append(m, r)
    BY <2>1, <2>3, <1>3 DEF Join
  <2>5. Len(h[k]) = k /\ h[k][k] = r /\ \A i \in 1..k - 1 : h[k][i] = m[i]
    <3>1. PICK X : X = Within(0, Horizon)
      OBVIOUS
    <3>2. m \in Seq(X) /\ r \in X
      BY <2>2, <3>1
    <3>3. Len(Append(m, r)) = Len(m) + 1 /\ Append(m, r)[Len(m) + 1] = r /\ \A i \in 1..Len(m) : Append(m, r)[i] = m[i]
      BY <3>2, AppendProperties
    <3>4. QED
      BY <3>3, <2>2, <2>4, <2>0
  <2>6. \A i \in 1..k : h[k][i] = rs[i]
    <3>1. \A i \in 1..k : i = k \/ i \in 1..k - 1
      BY <1>0
    <3>2. QED
      BY <3>1, <2>1, <2>2, <2>5
  <2>7. QED
    BY <2>0, <2>5, <2>6
<1> HIDE DEF J
<1>7. \A k \in 0..n : k \in J
  BY <1>0, <1>5, <1>6, UpTo
<1>8. Len(h[n]) = n /\ \A i \in 1..n : h[n][i] = rs[i]
  <2>1. n \in J
    BY <1>0, <1>7
  <2>2. QED
    BY <2>1 DEF J
<1>9. h[n] = rs
  <2>1. PICK X : X = Within(0, Horizon)
    OBVIOUS
  <2>2. rs \in Seq(X) /\ h[n] \in Seq(X) /\ Len(rs) = Len(h[n])
    BY <2>1, <1>0, <1>3, <1>8 DEF n
  <2>3. QED
    BY <2>2, <1>8, SeqEqual
<1>10. QED
  BY <1>4, <1>9

-----------------------------------------------------------------------------
(* RangeMath: the coverage of a table *)

\* A set listed: each element once.
LEMMA ListedOnce ==
    ASSUME NEW S, IsFiniteSet(S)
    PROVE  /\ SetToSeq(S) \in Seq(S) /\ ToSet(SetToSeq(S)) = S /\ Distinct(SetToSeq(S))
<1> DEFINE n == Cardinality(S)
<1>1. n \in Nat /\ ExistsBijection(1..n, S)
  BY FS_CardinalityType
<1>2. PICK f : f \in [1..n -> S] /\ IsInjective(f)
  BY <1>1 DEF ExistsBijection, Bijection, Injection
<1>3. PICK g : g = SetToSeq(S)
  OBVIOUS
<1>4. g \in [1..n -> S] /\ IsInjective(g)
  BY <1>2, <1>3 DEF SetToSeq
<1>5. \A i, j \in 1..n : g[i] = g[j] => i = j
  BY <1>4 DEF IsInjective
<1>6. g \in Injection(1..n, S)
  BY <1>4, <1>5 DEF Injection, IsInjective
<1>7. Cardinality(1..n) = n
  BY <1>1, FS_Interval
<1>8. g \in Surjection(1..n, S)
  BY <1>6, <1>7, FS_Injection
<1>9. \A x \in S : \E i \in 1..n : g[i] = x
  BY <1>8 DEF Surjection
<1> HIDE DEF n
<1>10. ToSet(g) = S
  BY <1>4, <1>9 DEF ToSet
<1>11. Distinct(g)
  BY <1>4, <1>5 DEF Distinct
<1>12. g \in Seq(S)
  BY <1>1, <1>4
<1>13. QED
  BY <1>3, <1>10, <1>11, <1>12

\* A bar behind the last run is put to it when it is the next one, and begins a run when it
\* is not; merge_coverage does the same.
LEMMA AddBarExact ==
    ASSUME NEW m \in Seq(Within(0, Horizon)), NEW r \in Points, Apart(m),
           Len(m) > 0 => m[Len(m)][2] < r[1]
    PROVE  LET j == AddBar(m, r) IN
           /\ Apart(j) /\ Covered(j) = Covered(m) \cup {r[1]}
           /\ Len(j) > 0 /\ j[Len(j)][2] = r[1]
           /\ Join(Interval, m, r) = j
<1>a. 0 \in Nat /\ Horizon \in Nat /\ Interval \in Nat \ {0}
  BY RangeConstants
<1>0. /\ Len(m) \in Nat /\ DOMAIN m = 1..Len(m) /\ (m = <<>> <=> Len(m) = 0)
      /\ \A k \in 1..Len(m) : m[k] \in Within(0, Horizon)
  BY EmptySeq
<1>b. r \in Within(0, Horizon) /\ r[1] = r[2]
  BY DEF Points
<1>1. /\ r \in Grid \X Grid /\ r[1] \in Grid /\ r[2] \in Grid /\ r[1] \in Nat /\ r[2] \in Nat
      /\ r[1] = r[2] /\ r[2] <= Horizon
  BY <1>a, <1>b, WithinOf
<1>2. PICK j : j = AddBar(m, r)
  OBVIOUS
<1>3. Bars(r) = {r[1]}
  <2>1. Bars(r) = {t \in Grid : r[1] <= t /\ t <= r[2]}
    BY <1>1, BarsOnGrid
  <2>2. Grid \subseteq Nat
    BY RangeConstants DEF Grid, Time
  <2>3. ASSUME NEW t \in Bars(r) PROVE t = r[1]
    <3>1. t \in Grid /\ r[1] <= t /\ t <= r[2]
      BY <2>1
    <3>2. t \in Nat
      BY <3>1, <2>2
    <3>3. QED
      BY <3>1, <3>2, <1>1
  <2>4. r[1] \in Bars(r)
    BY <2>1, <1>1
  <2>5. QED
    BY <2>3, <2>4
<1>4. \A i, k \in 1..Len(m) : i < k => m[i][2] + Interval < m[k][1]
  BY <1>0 DEF Apart
<1>5. \A k \in 1..Len(m) : /\ m[k][1] \in Grid /\ m[k][2] \in Grid /\ m[k][1] \in Nat /\ m[k][2] \in Nat
                           /\ m[k][1] <= m[k][2]
  BY <1>0, <1>a, WithinOf
<1>6. j \in Seq(Within(0, Horizon)) /\ Covered(j) \subseteq Covered(m) \cup {r[1]}
  BY <1>2, <1>3, AddBarSound
<1>7. CASE Len(m) > 0 /\ r[1] = m[Len(m)][2] + Interval
  <2> DEFINE n == Len(m)
             e == <<m[n][1], r[2]>>
  <2>0. n \in 1..Len(m) /\ n = Len(m) /\ r[1] = m[n][2] + Interval
    BY <1>0, <1>7
  <2>1. /\ m[n][1] \in Grid /\ m[n][2] \in Grid /\ m[n][1] \in Nat /\ m[n][2] \in Nat
        /\ m[n][1] <= m[n][2]
    BY <2>0, <1>5
  <2>a. m[n][1] <= r[2] /\ 0 <= m[n][1]
    BY <2>0, <2>1, <1>1, <1>a
  <2>2. e \in Within(0, Horizon) /\ e[1] = m[n][1] /\ e[2] = r[2]
    BY <2>1, <2>a, <1>1, <1>a, WithinMade
  <2>3. m # <<>> /\ Last(m) = m[n]
    BY <1>0, <1>7 DEF Last
  <2>4. j = [m EXCEPT ![n] = e]
    BY <2>0, <2>3, <1>2 DEF AddBar, Last
  <2>5. Join(Interval, m, r) = j
    <3>1. r[1] <= Last(m)[2] + Interval
      BY <2>0, <2>3, <2>1, <1>1
    <3>2. Later(m[n][2], r[2]) = r[2]
      BY <2>0, <2>1, <1>1, <1>a DEF Later
    <3>3. Join(Interval, m, r) = [m EXCEPT ![n] = <<m[n][1], Later(m[n][2], r[2])>>]
      BY <3>1, <2>3 DEF Join, Last
    <3>4. QED
      BY <3>2, <3>3, <2>4
  <2> HIDE DEF e, n
  <2>6. Len(j) = Len(m) /\ \A k \in 1..Len(m) : j[k] = IF k = n THEN e ELSE m[k]
    <3>1. PICK X : X = Within(0, Horizon)
      OBVIOUS
    <3>2. m \in Seq(X) /\ e \in X
      BY <2>2, <3>1
    <3>3. QED
      BY <2>0, <2>4, <3>1, <3>2, ExceptSeq
  <2>7. Apart(j)
    <3>1. ASSUME NEW i \in 1..Len(m), NEW k \in 1..Len(m), i < k PROVE j[i][2] + Interval < j[k][1]
      <4>1. i # n /\ j[i] = m[i] /\ j[k][1] = m[k][1]
        BY <2>0, <2>2, <2>6, <3>1
      <4>2. QED
        BY <4>1, <3>1, <1>4
    <3>2. DOMAIN j = 1..Len(m)
      BY <2>6, <1>6
    <3>3. QED
      BY <3>1, <3>2 DEF Apart
  <2>8. ASSUME NEW t \in Covered(m) PROVE t \in Covered(j)
    <3>1. PICK k \in 1..Len(m) : t \in Grid /\ m[k][1] <= t /\ t <= m[k][2]
      BY <1>a, CoveredOn
    <3>2. t \in Nat
      BY <3>1, RangeConstants DEF Grid, Time
    <3>3. j[k][1] <= t /\ t <= j[k][2]
      BY <3>1, <3>2, <2>0, <2>1, <2>2, <2>6, <1>1, <1>a
    <3>4. QED
      BY <3>1, <3>3, <2>6, <1>6, <1>a, CoveredOn
  <2>9. r[1] \in Covered(j)
    <3>1. j[n][1] <= r[1] /\ r[1] <= j[n][2]
      BY <2>0, <2>2, <2>6, <2>a, <1>1
    <3>2. QED
      BY <3>1, <2>0, <2>6, <1>1, <1>6, <1>a, CoveredOn
  <2>10. Len(j) > 0 /\ j[Len(j)][2] = r[1]
    BY <2>0, <2>2, <2>6, <1>1, <1>7
  <2>11. QED
    BY <1>2, <1>6, <2>5, <2>7, <2>8, <2>9, <2>10
<1>8. CASE ~(Len(m) > 0 /\ r[1] = m[Len(m)][2] + Interval)
  <2>1. Len(m) > 0 => m[Len(m)][2] + Interval < r[1]
    <3>1. SUFFICES ASSUME Len(m) > 0 PROVE m[Len(m)][2] + Interval < r[1]
      OBVIOUS
    <3>2. Len(m) \in 1..Len(m)
      BY <3>1, <1>0
    <3>3. m[Len(m)][2] \in Grid /\ m[Len(m)][2] \in Nat
      BY <3>2, <1>5
    <3>4. m[Len(m)][2] + Interval <= r[1]
      BY <3>1, <3>3, <1>1, GridStep
    <3>5. QED
      BY <3>1, <3>3, <3>4, <1>1, <1>8, <1>a
  <2>2. j = Append(m, r)
    <3>1. ~(m # <<>> /\ r[1] = Last(m)[2] + Interval)
      BY <1>0, <1>8 DEF Last
    <3>2. QED
      BY <3>1, <1>2 DEF AddBar
  <2>3. Join(Interval, m, r) = j
    <3>1. ASSUME m # <<>> PROVE ~(r[1] <= Last(m)[2] + Interval)
      <4>1. Len(m) \in 1..Len(m) /\ Len(m) > 0 /\ Last(m) = m[Len(m)]
        BY <3>1, <1>0 DEF Last
      <4>2. QED
        BY <4>1, <2>1, <1>1, <1>5, <1>a
    <3>2. QED
      BY <3>1, <2>2 DEF Join
  <2>4. /\ Len(j) = Len(m) + 1 /\ j[Len(m) + 1] = r
        /\ \A k \in 1..Len(m) : j[k] = m[k]
    BY <2>2, <1>b, AppendProperties
  <2>5. Apart(j)
    <3>1. ASSUME NEW i \in 1..Len(m) + 1, NEW k \in 1..Len(m) + 1, i < k PROVE j[i][2] + Interval < j[k][1]
      <4>1. CASE k \in 1..Len(m)
        BY <4>1, <3>1, <2>4, <1>0, <1>4
      <4>2. CASE k = Len(m) + 1
        <5>1. i \in 1..Len(m) /\ Len(m) \in 1..Len(m) /\ Len(m) > 0 /\ j[k] = r /\ j[i] = m[i]
          BY <4>2, <3>1, <2>4, <1>0
        <5>2. CASE i = Len(m)
          BY <5>1, <5>2, <2>1
        <5>3. CASE i < Len(m)
          <6>1. m[i][2] + Interval < m[Len(m)][1]
            BY <5>1, <5>3, <1>4
          <6>2. m[Len(m)][1] <= m[Len(m)][2] /\ m[Len(m)][2] + Interval < r[1]
            BY <5>1, <2>1, <1>5
          <6>3. m[i][2] \in Nat /\ m[Len(m)][1] \in Nat /\ m[Len(m)][2] \in Nat
            BY <5>1, <1>5
          <6>4. m[i][2] + Interval < r[1]
            <7>1. PICK a, b, c, d : a = m[i][2] /\ b = m[Len(m)][1] /\ c = m[Len(m)][2] /\ d = r[1]
              OBVIOUS
            <7>2. /\ a \in Nat /\ b \in Nat /\ c \in Nat /\ d \in Nat
                  /\ a + Interval < b /\ b <= c /\ c + Interval < d
              BY <7>1, <6>1, <6>2, <6>3, <1>1
            <7>3. a + Interval < d
              BY <7>2, <1>a
            <7>4. QED
              BY <7>1, <7>3
          <6>5. QED
            BY <6>4, <5>1
        <5>4. QED
          BY <5>1, <5>2, <5>3
      <4>3. QED
        BY <4>1, <4>2, <1>0
    <3>2. DOMAIN j = 1..Len(m) + 1
      BY <2>4, <1>6
    <3>3. QED
      BY <3>1, <3>2 DEF Apart
  <2>6. ASSUME NEW t \in Covered(m) PROVE t \in Covered(j)
    <3>1. PICK k \in 1..Len(m) : t \in Grid /\ m[k][1] <= t /\ t <= m[k][2]
      BY <1>a, CoveredOn
    <3>2. k \in 1..Len(j) /\ j[k] = m[k]
      BY <2>4, <1>0
    <3>3. QED
      BY <3>1, <3>2, <1>6, <1>a, CoveredOn
  <2>7. r[1] \in Covered(j)
    <3>1. Len(m) + 1 \in 1..Len(j) /\ j[Len(m) + 1][1] <= r[1] /\ r[1] <= j[Len(m) + 1][2]
      BY <2>4, <1>0, <1>1
    <3>2. QED
      BY <3>1, <1>1, <1>6, <1>a, CoveredOn
  <2>8. Len(j) > 0 /\ j[Len(j)][2] = r[1]
    BY <2>4, <1>0, <1>1
  <2>9. QED
    BY <1>2, <1>6, <2>3, <2>5, <2>6, <2>7, <2>8
<1>9. QED
  BY <1>7, <1>8

\* The runs of a list of bars in order, each bar once.
LEMMA RunsSortedExact ==
    ASSUME NEW sorted \in Seq(Points), Strict(sorted)
    PROVE  /\ RunsSorted(sorted) \in Seq(Within(0, Horizon)) /\ Apart(RunsSorted(sorted))
           /\ Covered(RunsSorted(sorted)) = {sorted[k][1] : k \in DOMAIN sorted}
           /\ GapSorted(Interval, sorted) = RunsSorted(sorted)
<1> DEFINE n == Len(sorted)
<1>a. 0 \in Nat /\ Horizon \in Nat /\ Interval \in Nat
  BY RangeConstants
<1>0. /\ n \in Nat /\ DOMAIN sorted = 1..n
      /\ \A k \in 1..n : sorted[k] \in Points
  OBVIOUS
<1>1. \A k \in 1..n : sorted[k] \in Within(0, Horizon) /\ sorted[k][1] = sorted[k][2] /\ sorted[k][1] \in Nat
  <2>1. \A k \in 1..n : sorted[k] \in Within(0, Horizon) /\ sorted[k][1] = sorted[k][2]
    BY <1>0 DEF Points
  <2>2. QED
    BY <2>1, <1>a, WithinOf
<1>2. ASSUME NEW i \in 1..n, NEW k \in 1..n, i < k PROVE sorted[i][2] < sorted[k][1]
  <2>1. Earlier(sorted[i], sorted[k])
    BY <1>0, <1>2 DEF Strict
  <2>2. QED
    BY <2>1, <1>1 DEF Earlier
<1>3. PICK h \in [0..n -> Seq(Within(0, Horizon))] :
          /\ h[0] = <<>> /\ RunsSorted(sorted) = h[n]
          /\ \A k \in 1..n : h[k] = AddBar(h[k - 1], sorted[k])
  BY AddBarRun
<1>4. PICK g \in [0..n -> Seq(Within(0, Horizon))] :
          /\ g[0] = <<>> /\ GapSorted(Interval, sorted) = g[n]
          /\ \A k \in 1..n : g[k] = Join(Interval, g[k - 1], sorted[k])
  <2>1. sorted \in Seq(Within(0, Horizon))
    BY <1>0, <1>1
  <2>2. QED
    BY <2>1, <1>a, GapRun
<1> HIDE DEF n
<1> DEFINE J == {k \in 0..n :
                    /\ g[k] = h[k] /\ Apart(h[k])
                    /\ Covered(h[k]) = {sorted[i][1] : i \in 1..k}
                    /\ k > 0 => Len(h[k]) > 0 /\ h[k][Len(h[k])][2] = sorted[k][1]
                    /\ k = 0 => Len(h[k]) = 0}
<1>5. 0 \in J
  <2>1. 0 \in 0..n /\ 1..0 = {}
    BY <1>0
  <2>2. h[0] = <<>> /\ g[0] = <<>> /\ Len(<<>>) = 0 /\ DOMAIN <<>> = {}
    BY <1>3, <1>4
  <2>3. Apart(<<>>) /\ Covered(<<>>) = {}
    BY <2>2 DEF Apart, Covered
  <2>4. {sorted[i][1] : i \in 1..0} = {}
    BY <2>1
  <2>5. QED
    BY <2>1, <2>2, <2>3, <2>4
<1>6. ASSUME NEW k \in 1..n, k - 1 \in J PROVE k \in J
  <2>0. k \in 0..n /\ k - 1 \in 0..n /\ k > 0
    BY <1>0
  <2>1. PICK m, r : m = h[k - 1] /\ r = sorted[k]
    OBVIOUS
  <2>2. /\ m \in Seq(Within(0, Horizon)) /\ r \in Points /\ Apart(m) /\ g[k - 1] = m
        /\ Covered(m) = {sorted[i][1] : i \in 1..k - 1}
    BY <2>0, <2>1, <1>0, <1>3, <1>6
  <2>3. Len(m) > 0 => m[Len(m)][2] < r[1]
    <3>1. SUFFICES ASSUME Len(m) > 0 PROVE m[Len(m)][2] < r[1]
      OBVIOUS
    <3>2. k - 1 > 0 /\ m[Len(m)][2] = sorted[k - 1][1]
      BY <3>1, <2>0, <2>1, <1>0, <1>6
    <3>3. k - 1 \in 1..n /\ k - 1 < k
      BY <3>2, <2>0, <1>0
    <3>4. sorted[k - 1][2] < sorted[k][1] /\ sorted[k - 1][1] = sorted[k - 1][2]
      BY <3>3, <1>1, <1>2
    <3>5. QED
      BY <3>2, <3>4, <2>1
  <2>4. PICK j : j = AddBar(m, r)
    OBVIOUS
  <2>5. /\ Apart(j) /\ Covered(j) = Covered(m) \cup {r[1]}
        /\ Len(j) > 0 /\ j[Len(j)][2] = r[1] /\ Join(Interval, m, r) = j
    BY <2>2, <2>3, <2>4, AddBarExact
  <2>6. h[k] = j /\ g[k] = j
    BY <2>1, <2>2, <2>4, <2>5, <1>3, <1>4
  <2>7. 1..k = (1..k - 1) \cup {k}
    BY <1>0
  <2>8. Covered(j) = {sorted[i][1] : i \in 1..k}
    BY <2>1, <2>2, <2>5, <2>7
  <2>9. QED
    BY <2>0, <2>1, <2>5, <2>6, <2>8
<1> HIDE DEF J
<1>7. \A k \in 0..n : k \in J
  BY <1>0, <1>5, <1>6, UpTo
<1>8. n \in J /\ n \in 0..n
  BY <1>0, <1>7
<1>9. QED
  BY <1>0, <1>3, <1>4, <1>8 DEF J

\* Bars listed in any order, each once: sorted they are one list.
LEMMA PointsSorted ==
    ASSUME NEW rs \in Seq(Points), Distinct(rs)
    PROVE  /\ InOrder(rs) \in Seq(Points) /\ InOrder(rs) \in Seq(Spans)
           /\ Strict(InOrder(rs)) /\ ToSet(InOrder(rs)) = ToSet(rs)
<1>0. Points \subseteq Spans
  BY DEF Points, Within
<1>1. rs \in Seq(Spans)
  BY <1>0, SeqMonotonic
<1>2. PICK s : s = InOrder(rs)
  OBVIOUS
<1>3. s \in Sorted /\ ToSet(s) = ToSet(rs) /\ Strict(s)
  BY <1>1, <1>2, InOrderSound, InOrderStrict
<1>4. s \in Seq(Spans) /\ DOMAIN s = 1..Len(s) /\ Len(s) \in Nat /\ DOMAIN rs = 1..Len(rs)
  BY <1>3 DEF Sorted
<1>5. ASSUME NEW k \in 1..Len(s) PROVE s[k] \in Points
  <2>1. s[k] \in ToSet(rs)
    BY <1>3, <1>4 DEF ToSet
  <2>2. QED
    BY <2>1, <1>4 DEF ToSet
<1>6. s \in Seq(Points)
  BY <1>4, <1>5
<1>7. QED
  BY <1>2, <1>3, <1>4, <1>6

\* The coverage of a table: ranges with a hole between any two of them, which hold the bars of
\* the table and no others, and which are what merging its bars gives, in whatever order
\* they are listed.
LEMMA TableExact ==
    ASSUME NEW table \in SUBSET Grid
    PROVE  LET runs == RunsOf(SetToSeq(table))
               singles == SetToSeq({<<t, t>> : t \in table})
           IN /\ runs \in Seq(Within(0, Horizon)) /\ Apart(runs) /\ Covered(runs) = table
              /\ MergeCoverage(runs) = runs /\ MergeCoverage(singles) = runs
<1>a. 0 \in Nat /\ Horizon \in Nat /\ \A t \in Grid : t \in Nat /\ t <= Horizon
  BY RangeConstants DEF Grid, Time
<1> DEFINE points == {<<t, t>> : t \in table}
<1>1. points \subseteq Points
  <2>1. ASSUME NEW t \in table PROVE <<t, t>> \in Points
    <3>1. t \in Grid /\ t \in Nat /\ 0 <= t /\ t <= t /\ t <= Horizon
      BY <1>a
    <3>2. <<t, t>> \in Within(0, Horizon)
      BY <3>1, <1>a, WithinMade
    <3>3. QED
      BY <3>2 DEF Points
  <2>2. QED
    BY <2>1
<1>2. IsFiniteSet(table)
  <2>1. IsFiniteSet(0..Horizon)
    BY <1>a, FS_Interval
  <2>2. table \in SUBSET (0..Horizon)
    BY DEF Grid, Time
  <2>3. QED
    BY <2>1, <2>2, FS_Subset
<1>3. IsFiniteSet(points)
  <2>1. PICK f : f = [t \in table |-> <<t, t>>]
    OBVIOUS
  <2>2. f \in Surjection(table, points)
    BY <2>1 DEF Surjection
  <2>3. QED
    BY <2>2, <1>2, FS_Surjection
<1>4. PICK ts : ts = SetToSeq(table)
  OBVIOUS
<1>5. PICK ps : ps = SetToSeq(points)
  OBVIOUS
<1>6. /\ ts \in Seq(table) /\ ToSet(ts) = table /\ Distinct(ts)
      /\ ps \in Seq(points) /\ ToSet(ps) = points /\ Distinct(ps)
  BY <1>2, <1>3, <1>4, <1>5, ListedOnce
<1>7. ps \in Seq(Points)
  BY <1>1, <1>6, SeqMonotonic
<1>8. DOMAIN ts = 1..Len(ts) /\ Len(ts) \in Nat /\ \A k \in 1..Len(ts) : ts[k] \in table
  BY <1>6
<1> DEFINE qs == [k \in DOMAIN ts |-> <<ts[k], ts[k]>>]
<1>9. qs \in Seq(Points) /\ DOMAIN qs = 1..Len(ts)
  <2>1. ASSUME NEW k \in 1..Len(ts) PROVE <<ts[k], ts[k]>> \in Points
    BY <1>1, <1>8
  <2>2. qs = [k \in 1..Len(ts) |-> <<ts[k], ts[k]>>]
    BY <1>8
  <2>3. qs \in [1..Len(ts) -> Points]
    BY <2>1, <2>2
  <2>4. QED
    BY <2>3, <1>8
<1>10. Distinct(qs)
  <2>1. ASSUME NEW i \in 1..Len(ts), NEW k \in 1..Len(ts), i # k PROVE qs[i] # qs[k]
    <3>1. ts[i] # ts[k]
      BY <2>1, <1>6, <1>8 DEF Distinct
    <3>2. QED
      BY <3>1, <1>8
  <2>2. QED
    BY <2>1, <1>9 DEF Distinct
<1>11. ToSet(qs) = points
  <2>1. ToSet(qs) = {<<ts[k], ts[k]>> : k \in 1..Len(ts)}
    BY <1>8 DEF ToSet
  <2>2. table = {ts[k] : k \in 1..Len(ts)}
    BY <1>6, <1>8 DEF ToSet
  <2>3. QED
    BY <2>1, <2>2
<1> HIDE DEF qs
<1>12. PICK sorted : sorted = InOrder(qs)
  OBVIOUS
<1>13. /\ sorted \in Seq(Points) /\ sorted \in Seq(Spans) /\ Strict(sorted) /\ ToSet(sorted) = points
  BY <1>9, <1>10, <1>11, <1>12, PointsSorted
<1>14. InOrder(ps) = sorted
  <2>1. InOrder(ps) \in Seq(Spans) /\ Strict(InOrder(ps)) /\ ToSet(InOrder(ps)) = points
    BY <1>6, <1>7, PointsSorted
  <2>2. QED
    BY <2>1, <1>13, StrictUnique
<1>15. /\ RunsSorted(sorted) \in Seq(Within(0, Horizon)) /\ Apart(RunsSorted(sorted))
       /\ Covered(RunsSorted(sorted)) = {sorted[k][1] : k \in DOMAIN sorted}
       /\ GapSorted(Interval, sorted) = RunsSorted(sorted)
  BY <1>13, RunsSortedExact
<1>16. {sorted[k][1] : k \in DOMAIN sorted} = table
  <2>1. {sorted[k] : k \in DOMAIN sorted} = points
    BY <1>13 DEF ToSet
  <2>2. \A k \in DOMAIN sorted : sorted[k] \in points
    BY <2>1
  <2>3. \A k \in DOMAIN sorted : sorted[k][1] \in table
    BY <2>2
  <2>4. ASSUME NEW t \in table PROVE \E k \in DOMAIN sorted : sorted[k][1] = t
    <3>1. PICK k \in DOMAIN sorted : sorted[k] = <<t, t>>
      BY <2>1
    <3>2. QED
      BY <3>1
  <2>5. QED
    BY <2>3, <2>4
<1>17. PICK runs : runs = RunsOf(SetToSeq(table))
  OBVIOUS
<1>18. runs = RunsSorted(sorted)
  BY <1>4, <1>12, <1>17 DEF RunsOf, RunsSorted, qs
<1>19. MergeCoverage(ps) = runs
  BY <1>14, <1>15, <1>18 DEF MergeCoverage, MergeWithin, GapSorted
<1>20. MergeCoverage(runs) = runs
  BY <1>15, <1>18, MergeOfApart
<1>21. QED
  BY <1>5, <1>15, <1>16, <1>17, <1>18, <1>19, <1>20

-----------------------------------------------------------------------------
(* RangeMath: what a window lacks *)

\* A window's search for gaps: ranges of the window, and a cursor on the grid.
Cursors(w) == {t \in Nat : w[1] <= t /\ t % Interval = 0}
Searching(w) == [gaps : Seq(Within(w[1], w[2])), cursor : Cursors(w), over : BOOLEAN]

LEMMA CursorOf ==
    ASSUME NEW w \in Spans, NEW c \in Cursors(w)
    PROVE  /\ c \in Nat /\ w[1] <= c
           /\ c <= w[2] => c \in Grid
           /\ \A t \in Grid : c <= t => c \in Grid
           /\ \A t \in Grid : w[1] <= t => t + Interval \in Cursors(w)
<1>1. w[1] \in Nat /\ w[2] \in Nat /\ w[2] \in Grid
  BY SpanOf
<1>2. \A t \in Grid : t \in Nat /\ t <= Horizon /\ t % Interval = 0
  BY RangeConstants DEF Grid, Time
<1>3. c \in Nat /\ w[1] <= c /\ c % Interval = 0
  BY DEF Cursors
<1>4. ASSUME NEW t \in Grid, c <= t PROVE c \in Grid
  <2>1. Horizon \in Nat /\ c <= Horizon
    BY <1>2, <1>3, <1>4, RangeConstants
  <2>2. QED
    BY <2>1, <1>3 DEF Grid, Time
<1>5. ASSUME NEW t \in Grid, w[1] <= t PROVE t + Interval \in Cursors(w)
  <2>1. Interval \in Nat \ {0} /\ t \in Int /\ 1 \in Int
    BY <1>2, RangeConstants
  <2>2. (t + Interval * 1) % Interval = t % Interval
    BY <2>1, ModSum
  <2>3. t + Interval * 1 = t + Interval
    BY <2>1
  <2>4. QED
    BY <2>1, <2>2, <2>3, <1>1, <1>2, <1>5 DEF Cursors
<1>6. QED
  BY <1>1, <1>3, <1>4, <1>5

\* A step of the search: a gap, if there is one, is within the window and ends ahead of r.
LEMMA AddGapTyped ==
    ASSUME NEW w \in Spans, NEW acc \in Searching(w), NEW r \in Within(0, Horizon)
    PROVE  /\ AddGap(acc, r, w) \in Searching(w)
           /\ \A g : acc.cursor < r[1] /\ r[1] <= w[2] /\ g = GapBefore(acc.cursor, r, w) =>
                 /\ g \in Within(w[1], w[2]) /\ g[1] = acc.cursor /\ g[2] + Interval <= r[1]
                 /\ g[2] = r[1] - Interval \/ g[2] = w[2]
<1>a. 0 \in Nat /\ Horizon \in Nat /\ Interval \in Nat \ {0}
  BY RangeConstants
<1>1. w[1] \in Nat /\ w[2] \in Nat /\ w[1] \in Grid /\ w[2] \in Grid /\ w[1] <= w[2]
  BY SpanOf
<1>2. r[1] \in Grid /\ r[2] \in Grid /\ r[1] \in Nat /\ r[2] \in Nat /\ r[1] <= r[2]
  BY <1>a, WithinOf
<1>3. acc.gaps \in Seq(Within(w[1], w[2])) /\ acc.cursor \in Cursors(w) /\ acc.over \in BOOLEAN
  BY DEF Searching
<1>4. acc.cursor \in Nat /\ w[1] <= acc.cursor
  BY <1>3, CursorOf
<1>5. PICK g : g = GapBefore(acc.cursor, r, w)
  OBVIOUS
<1>6. ASSUME acc.cursor < r[1], r[1] <= w[2]
      PROVE  /\ g \in Within(w[1], w[2]) /\ g[1] = acc.cursor /\ g[2] + Interval <= r[1]
             /\ g[2] = r[1] - Interval \/ g[2] = w[2]
  <2>1. acc.cursor \in Grid
    BY <1>2, <1>3, <1>4, <1>6, CursorOf
  <2>2. r[1] - Interval \in Grid /\ acc.cursor <= r[1] - Interval
    BY <2>1, <1>2, <1>6, GridStep
  <2>3. r[1] - Interval <= w[2] /\ r[1] - Interval \in Nat
    BY <2>2, <1>1, <1>2, <1>4, <1>6, <1>a
  <2>4. Sooner(r[1] - Interval, w[2]) = r[1] - Interval
    BY <2>3, <1>1 DEF Sooner
  <2>5. g = <<acc.cursor, r[1] - Interval>> /\ g[1] = acc.cursor /\ g[2] = r[1] - Interval
    BY <2>4, <1>5 DEF GapBefore
  <2>6. <<acc.cursor, r[1] - Interval>> \in Within(w[1], w[2])
    BY <2>1, <2>2, <2>3, <1>1, <1>4, WithinMade
  <2>7. (r[1] - Interval) + Interval <= r[1]
    BY <1>2, <1>a
  <2>8. QED
    BY <2>5, <2>6, <2>7
<1>7. CASE acc.over \/ r[2] < w[1]
  BY <1>5, <1>6, <1>7 DEF AddGap
<1>8. CASE ~(acc.over \/ r[2] < w[1]) /\ r[1] > w[2]
  <2>1. AddGap(acc, r, w) = [acc EXCEPT !.over = TRUE]
    BY <1>8 DEF AddGap
  <2>2. [acc EXCEPT !.over = TRUE] \in Searching(w)
    BY DEF Searching
  <2>3. QED
    BY <2>1, <2>2, <1>5, <1>6
<1>9. CASE ~(acc.over \/ r[2] < w[1]) /\ ~(r[1] > w[2])
  <2>1. r[2] + Interval \in Cursors(w)
    BY <1>1, <1>2, <1>3, <1>9, CursorOf
  <2>2. Later(acc.cursor, r[2] + Interval) \in Cursors(w)
    BY <2>1, <1>3 DEF Later
  <2>3. PICK c : c = Later(acc.cursor, r[2] + Interval)
    OBVIOUS
  <2>4. PICK gs : gs = IF r[1] > acc.cursor THEN Append(acc.gaps, g) ELSE acc.gaps
    OBVIOUS
  <2>5. AddGap(acc, r, w) = [gaps |-> gs, cursor |-> c, over |-> c > w[2]]
    BY <2>3, <2>4, <1>5, <1>9 DEF AddGap
  <2>6. gs \in Seq(Within(w[1], w[2]))
    <3>1. CASE r[1] > acc.cursor
      <4>1. g \in Within(w[1], w[2])
        BY <3>1, <1>1, <1>2, <1>4, <1>6, <1>9
      <4>2. Append(acc.gaps, g) \in Seq(Within(w[1], w[2]))
        BY <4>1, <1>3, AppendProperties
      <4>3. QED
        BY <4>2, <3>1, <2>4
    <3>2. CASE ~(r[1] > acc.cursor)
      BY <3>2, <2>4, <1>3
    <3>3. QED
      BY <3>1, <3>2
  <2>7. AddGap(acc, r, w) \in Searching(w)
    BY <2>2, <2>3, <2>5, <2>6 DEF Searching
  <2>8. QED
    BY <2>7, <1>5, <1>6
<1>10. QED
  BY <1>7, <1>8, <1>9

NoGaps(w) == [gaps |-> <<>>, cursor |-> w[1], over |-> FALSE]
Search(w, rs) == FoldLeft(LAMBDA acc, r : AddGap(acc, r, w), NoGaps(w), rs)

\* The search, one range after the other.
LEMMA SearchRun ==
    ASSUME NEW w \in Spans, NEW rs \in Seq(Within(0, Horizon))
    PROVE  \E h \in [0..Len(rs) -> Searching(w)] :
              /\ h[0] = NoGaps(w)
              /\ \A k \in 1..Len(rs) : h[k] = AddGap(h[k - 1], rs[k], w)
              /\ Search(w, rs) = h[Len(rs)]
<1> DEFINE size == Len(rs)
           steps == [k \in 1..size |-> [x \in Searching(w) |-> AddGap(x, rs[k], w)]]
           Eq(f) == f = [s \in SUBSET DOMAIN rs |->
                            IF s = {} THEN NoGaps(w) ELSE AddGap(f[s \ {Max(s)}], rs[Max(s)], w)]
<1>0. size \in Nat /\ DOMAIN rs = 1..size
  OBVIOUS
<1>1. NoGaps(w) \in Searching(w)
  <2>1. w[1] \in Nat /\ w[1] <= w[1] /\ w[1] % Interval = 0
    BY SpanOf DEF Grid
  <2>2. <<>> \in Seq(Within(w[1], w[2]))
    OBVIOUS
  <2>3. QED
    BY <2>1, <2>2 DEF NoGaps, Searching, Cursors
<1>2. steps \in [1..size -> [Searching(w) -> Searching(w)]]
  <2>1. ASSUME NEW k \in 1..size, NEW x \in Searching(w)
        PROVE  AddGap(x, rs[k], w) \in Searching(w)
    <3>1. rs[k] \in Within(0, Horizon)
      BY <1>0
    <3>2. QED
      BY <3>1, AddGapTyped
  <2>2. QED
    BY <2>1
<1> HIDE DEF steps, size
<1>3. PICK f \in [SUBSET (1..size) -> Searching(w)] :
          \A s \in SUBSET (1..size) : f[s] = IF s = {} THEN NoGaps(w) ELSE steps[Max(s)][f[s \ {Max(s)}]]
  <2>0. PICK X : X = Searching(w)
    OBVIOUS
  <2>1. PICK b : b = NoGaps(w)
    OBVIOUS
  <2>2. b \in X /\ size \in Nat /\ steps \in [1..size -> [X -> X]]
    BY <1>0, <1>1, <1>2, <2>0, <2>1
  <2>3. \E f \in [SUBSET (1..size) -> X] : IsFold(f, size, b, steps)
    BY <2>2, FoldExists
  <2>4. QED
    BY <2>0, <2>1, <2>3 DEF IsFold
<1>4. ASSUME NEW s \in SUBSET (1..size), s # {}
      PROVE  steps[Max(s)][f[s \ {Max(s)}]] = AddGap(f[s \ {Max(s)}], rs[Max(s)], w)
  <2>1. Max(s) \in 1..size /\ s \ {Max(s)} \in SUBSET (1..size)
    BY <1>0, <1>4, MaxOf
  <2>2. f[s \ {Max(s)}] \in Searching(w)
    BY <2>1
  <2>3. QED
    BY <2>1, <2>2 DEF steps
<1>5. Eq(f)
  BY <1>0, <1>3, <1>4
<1>6. PICK g : g = CHOOSE v : Eq(v)
  OBVIOUS
<1>7. Eq(g)
  BY <1>5, <1>6
<1>8. Search(w, rs) = g[DOMAIN rs]
  BY <1>6 DEF Search, FoldLeft, MapThenFoldSet
<1>9. g[{}] = NoGaps(w)
  BY <1>7
<1>10. ASSUME NEW k \in 1..size PROVE g[1..k] = AddGap(g[1..k - 1], rs[k], w)
  <2>1. 1..k \in SUBSET DOMAIN rs /\ 1..k # {} /\ Max(1..k) = k /\ (1..k) \ {Max(1..k)} = 1..k - 1
    BY <1>0, MaxPrefix
  <2>2. g[1..k] = AddGap(g[(1..k) \ {Max(1..k)}], rs[Max(1..k)], w)
    BY <1>7, <2>1
  <2>3. QED
    BY <2>1, <2>2
<1> HIDE DEF Eq
<1> DEFINE h == [k \in 0..size |-> g[1..k]]
           J == {k \in 0..size : g[1..k] \in Searching(w)}
<1>11. 1..0 = {} /\ 0 \in 0..size
  BY <1>0
<1>12. 0 \in J
  BY <1>1, <1>9, <1>11
<1>13. ASSUME NEW k \in 1..size, k - 1 \in J PROVE k \in J
  <2>1. k \in 0..size /\ k - 1 \in 0..size
    BY <1>0
  <2>2. g[1..k - 1] \in Searching(w)
    BY <1>13
  <2>3. steps[k][g[1..k - 1]] \in Searching(w)
    BY <2>2, <1>2
  <2>4. steps[k][g[1..k - 1]] = AddGap(g[1..k - 1], rs[k], w)
    BY <2>2 DEF steps
  <2>5. QED
    BY <1>10, <2>1, <2>3, <2>4
<1> HIDE DEF J
<1>14. \A k \in 0..size : k \in J
  BY <1>0, <1>12, <1>13, UpTo
<1>15. h \in [0..size -> Searching(w)]
  BY <1>14 DEF J
<1>16. h[0] = NoGaps(w)
  BY <1>9, <1>11
<1>17. ASSUME NEW k \in 1..size PROVE h[k] = AddGap(h[k - 1], rs[k], w)
  <2>1. k \in 0..size /\ k - 1 \in 0..size
    BY <1>0
  <2>2. h[k] = g[1..k] /\ h[k - 1] = g[1..k - 1]
    BY <2>1
  <2>3. QED
    BY <2>2, <1>10
<1>18. Search(w, rs) = h[size]
  <2>1. size \in 0..size
    BY <1>0
  <2>2. QED
    BY <2>1, <1>0, <1>8
<1> HIDE DEF h
<1>19. QED
  BY <1>15, <1>16, <1>17, <1>18 DEF size

KeepGap(kept, g) == IF g[1] <= g[2] THEN Append(kept, g) ELSE kept
KeptGaps(gaps) == FoldLeft(LAMBDA kept, g : KeepGap(kept, g), <<>>, gaps)

LEMMA KeepGapTyped ==
    ASSUME NEW lo \in Nat, NEW hi \in Nat, NEW m \in Seq(Within(lo, hi)), NEW g \in Within(lo, hi)
    PROVE  KeepGap(m, g) = Append(m, g) /\ KeepGap(m, g) \in Seq(Within(lo, hi))
<1>1. g[1] <= g[2]
  BY WithinOf
<1>2. QED
  BY <1>1, AppendProperties DEF KeepGap

\* Gaps that are not empty are kept, one after the other.
LEMMA KeepRun ==
    ASSUME NEW lo \in Nat, NEW hi \in Nat, NEW gaps \in Seq(Within(lo, hi))
    PROVE  \E h \in [0..Len(gaps) -> Seq(Within(lo, hi))] :
              /\ h[0] = <<>>
              /\ \A k \in 1..Len(gaps) : h[k] = KeepGap(h[k - 1], gaps[k])
              /\ KeptGaps(gaps) = h[Len(gaps)]
<1> DEFINE size == Len(gaps)
           steps == [k \in 1..size |-> [x \in Seq(Within(lo, hi)) |-> KeepGap(x, gaps[k])]]
           Eq(f) == f = [s \in SUBSET DOMAIN gaps |->
                            IF s = {} THEN <<>> ELSE KeepGap(f[s \ {Max(s)}], gaps[Max(s)])]
<1>0. size \in Nat /\ DOMAIN gaps = 1..size
  OBVIOUS
<1>1. <<>> \in Seq(Within(lo, hi))
  OBVIOUS
<1>2. steps \in [1..size -> [Seq(Within(lo, hi)) -> Seq(Within(lo, hi))]]
  <2>1. ASSUME NEW k \in 1..size, NEW x \in Seq(Within(lo, hi))
        PROVE  KeepGap(x, gaps[k]) \in Seq(Within(lo, hi))
    <3>1. gaps[k] \in Within(lo, hi)
      BY <1>0
    <3>2. QED
      BY <3>1, KeepGapTyped
  <2>2. QED
    BY <2>1
<1> HIDE DEF steps, size
<1>3. PICK f \in [SUBSET (1..size) -> Seq(Within(lo, hi))] :
          \A s \in SUBSET (1..size) : f[s] = IF s = {} THEN <<>> ELSE steps[Max(s)][f[s \ {Max(s)}]]
  <2>0. PICK X : X = Seq(Within(lo, hi))
    OBVIOUS
  <2>1. PICK b : b = <<>>
    OBVIOUS
  <2>2. b \in X /\ size \in Nat /\ steps \in [1..size -> [X -> X]]
    BY <1>0, <1>1, <1>2, <2>0, <2>1
  <2>3. \E f \in [SUBSET (1..size) -> X] : IsFold(f, size, b, steps)
    BY <2>2, FoldExists
  <2>4. QED
    BY <2>0, <2>1, <2>3 DEF IsFold
<1>4. ASSUME NEW s \in SUBSET (1..size), s # {}
      PROVE  steps[Max(s)][f[s \ {Max(s)}]] = KeepGap(f[s \ {Max(s)}], gaps[Max(s)])
  <2>1. Max(s) \in 1..size /\ s \ {Max(s)} \in SUBSET (1..size)
    BY <1>0, <1>4, MaxOf
  <2>2. f[s \ {Max(s)}] \in Seq(Within(lo, hi))
    BY <2>1
  <2>3. QED
    BY <2>1, <2>2 DEF steps
<1>5. Eq(f)
  BY <1>0, <1>3, <1>4
<1>6. PICK g : g = CHOOSE v : Eq(v)
  OBVIOUS
<1>7. Eq(g)
  BY <1>5, <1>6
<1>8. KeptGaps(gaps) = g[DOMAIN gaps]
  BY <1>6 DEF KeptGaps, FoldLeft, MapThenFoldSet
<1>9. g[{}] = <<>>
  BY <1>7
<1>10. ASSUME NEW k \in 1..size PROVE g[1..k] = KeepGap(g[1..k - 1], gaps[k])
  <2>1. 1..k \in SUBSET DOMAIN gaps /\ 1..k # {} /\ Max(1..k) = k /\ (1..k) \ {Max(1..k)} = 1..k - 1
    BY <1>0, MaxPrefix
  <2>2. g[1..k] = KeepGap(g[(1..k) \ {Max(1..k)}], gaps[Max(1..k)])
    BY <1>7, <2>1
  <2>3. QED
    BY <2>1, <2>2
<1> HIDE DEF Eq
<1> DEFINE h == [k \in 0..size |-> g[1..k]]
           J == {k \in 0..size : g[1..k] \in Seq(Within(lo, hi))}
<1>11. 1..0 = {} /\ 0 \in 0..size
  BY <1>0
<1>12. 0 \in J
  BY <1>1, <1>9, <1>11
<1>13. ASSUME NEW k \in 1..size, k - 1 \in J PROVE k \in J
  <2>1. k \in 0..size /\ k - 1 \in 0..size
    BY <1>0
  <2>2. g[1..k - 1] \in Seq(Within(lo, hi))
    BY <1>13
  <2>3. steps[k][g[1..k - 1]] \in Seq(Within(lo, hi))
    BY <2>2, <1>2
  <2>4. steps[k][g[1..k - 1]] = KeepGap(g[1..k - 1], gaps[k])
    BY <2>2 DEF steps
  <2>5. QED
    BY <1>10, <2>1, <2>3, <2>4
<1> HIDE DEF J
<1>14. \A k \in 0..size : k \in J
  BY <1>0, <1>12, <1>13, UpTo
<1>15. h \in [0..size -> Seq(Within(lo, hi))]
  BY <1>14 DEF J
<1>16. h[0] = <<>>
  BY <1>9, <1>11
<1>17. ASSUME NEW k \in 1..size PROVE h[k] = KeepGap(h[k - 1], gaps[k])
  <2>1. k \in 0..size /\ k - 1 \in 0..size
    BY <1>0
  <2>2. h[k] = g[1..k] /\ h[k - 1] = g[1..k - 1]
    BY <2>1
  <2>3. QED
    BY <2>2, <1>10
<1>18. KeptGaps(gaps) = h[size]
  <2>1. size \in 0..size
    BY <1>0
  <2>2. QED
    BY <2>1, <1>0, <1>8
<1> HIDE DEF h
<1>19. QED
  BY <1>15, <1>16, <1>17, <1>18 DEF size

-----------------------------------------------------------------------------
(* RangeMath: what is missing, bar for bar *)

\* Where the search stands after k of the ranges: the gaps are the bars in front of the
\* cursor that are in no range, and what it has passed lies in front of the cursor.
Searched(acc, rs, k, w) ==
    /\ Apart(acc.gaps)
    /\ \A i \in DOMAIN acc.gaps : acc.gaps[i][2] + Interval < acc.cursor
    /\ \A t \in Grid : t \in Covered(acc.gaps) <=>
                          w[1] <= t /\ t <= w[2] /\ t < acc.cursor /\ t \notin Covered(rs)
    /\ ~acc.over => \A i \in 1..k : rs[i][2] < acc.cursor
    /\ acc.over => \A t \in Grid : acc.cursor <= t /\ t <= w[2] => t \notin Covered(rs)

\* Of ranges in order, those in front of one end before it, those behind it begin after it.
LEMMA ApartAround ==
    ASSUME NEW rs \in Seq(Within(0, Horizon)), Apart(rs), NEW k \in 1..Len(rs)
    PROVE  /\ \A i \in 1..k - 1 : rs[i][2] + Interval < rs[k][1]
           /\ \A i \in k + 1..Len(rs) : rs[k][2] + Interval < rs[i][1]
<1>1. DOMAIN rs = 1..Len(rs) /\ Len(rs) \in Nat
  OBVIOUS
<1>2. \A i \in 1..k - 1 : i \in DOMAIN rs /\ k \in DOMAIN rs /\ i < k
  BY <1>1
<1>3. \A i \in k + 1..Len(rs) : i \in DOMAIN rs /\ k \in DOMAIN rs /\ k < i
  BY <1>1
<1>4. QED
  BY <1>2, <1>3 DEF Apart

\* A range behind all others is put behind them.
LEMMA AppendApart ==
    ASSUME NEW lo \in Nat, NEW hi \in Nat, NEW m \in Seq(Within(lo, hi)), NEW g \in Within(lo, hi),
           Apart(m), \A i \in DOMAIN m : m[i][2] + Interval < g[1]
    PROVE  /\ Append(m, g) \in Seq(Within(lo, hi)) /\ Apart(Append(m, g))
           /\ Covered(Append(m, g)) = Covered(m) \cup Bars(g)
           /\ DOMAIN Append(m, g) = 1..Len(m) + 1
           /\ Append(m, g)[Len(m) + 1] = g /\ \A i \in 1..Len(m) : Append(m, g)[i] = m[i]
<1>1. PICK X : X = Within(lo, hi)
  OBVIOUS
<1>2. PICK a : a = Append(m, g)
  OBVIOUS
<1>3. /\ a \in Seq(X) /\ Len(a) = Len(m) + 1 /\ DOMAIN a = 1..Len(m) + 1 /\ Len(m) \in Nat
      /\ a[Len(m) + 1] = g /\ \A i \in 1..Len(m) : a[i] = m[i]
  <2>1. m \in Seq(X) /\ g \in X
    BY <1>1
  <2>2. QED
    BY <2>1, <1>2, AppendProperties
<1>4. DOMAIN m = 1..Len(m)
  OBVIOUS
<1>5. ASSUME NEW i \in DOMAIN a, NEW j \in DOMAIN a, i < j PROVE a[i][2] + Interval < a[j][1]
  <2>1. i \in 1..Len(m) /\ (j \in 1..Len(m) \/ j = Len(m) + 1)
    BY <1>3, <1>5
  <2>2. CASE j \in 1..Len(m)
    <3>1. m[i][2] + Interval < m[j][1]
      BY <2>1, <2>2, <1>4, <1>5 DEF Apart
    <3>2. QED
      BY <3>1, <2>1, <2>2, <1>3
  <2>3. CASE j = Len(m) + 1
    BY <2>1, <2>3, <1>3, <1>4
  <2>4. QED
    BY <2>1, <2>2, <2>3
<1>6. Covered(a) = Covered(m) \cup Bars(g)
  <2>1. DOMAIN a = DOMAIN m \cup {Len(m) + 1}
    BY <1>3, <1>4
  <2>2. \A i \in DOMAIN m : Bars(a[i]) = Bars(m[i])
    BY <1>3, <1>4
  <2>3. Bars(a[Len(m) + 1]) = Bars(g)
    BY <1>3
  <2>4. ASSUME NEW t PROVE t \in Covered(a) <=> t \in Covered(m) \/ t \in Bars(g)
    <3>1. t \in Covered(a) <=> \E i \in DOMAIN a : t \in Bars(a[i])
      BY DEF Covered
    <3>2. t \in Covered(m) <=> \E i \in DOMAIN m : t \in Bars(m[i])
      BY DEF Covered
    <3>3. QED
      BY <3>1, <3>2, <2>1, <2>2, <2>3
  <2>5. QED
    BY <2>4
<1>7. QED
  BY <1>1, <1>2, <1>3, <1>5, <1>6 DEF Apart

LEMMA AddGapExact ==
    ASSUME NEW w \in Spans, NEW rs \in Seq(Within(0, Horizon)), Apart(rs), NEW k \in 1..Len(rs),
           NEW acc \in Searching(w), Searched(acc, rs, k - 1, w)
    PROVE  Searched(AddGap(acc, rs[k], w), rs, k, w)
<1> DEFINE r == rs[k]
           cov == Covered(rs)
<1>a. 0 \in Nat /\ Horizon \in Nat /\ Interval \in Nat \ {0} /\ \A t \in Grid : t \in Nat
  BY RangeConstants DEF Grid, Time
<1>0. Len(rs) \in Nat /\ k \in Nat /\ \A i \in 1..Len(rs) : rs[i] \in Within(0, Horizon)
  OBVIOUS
<1>1. w[1] \in Nat /\ w[2] \in Nat /\ w[1] \in Grid /\ w[2] \in Grid /\ w[1] <= w[2]
  BY SpanOf
<1>2. \A i \in 1..Len(rs) : rs[i][1] \in Grid /\ rs[i][2] \in Grid /\ rs[i][1] \in Nat /\ rs[i][2] \in Nat
                               /\ rs[i][1] <= rs[i][2]
  BY <1>0, <1>a, WithinOf
<1>3. acc.gaps \in Seq(Within(w[1], w[2])) /\ acc.cursor \in Cursors(w) /\ acc.over \in BOOLEAN
         /\ acc = [gaps |-> acc.gaps, cursor |-> acc.cursor, over |-> acc.over]
  BY DEF Searching
<1>4. acc.cursor \in Nat /\ w[1] <= acc.cursor
  BY <1>3, CursorOf
<1>5. \A i \in 1..k - 1 : i \in 1..Len(rs) /\ rs[i][2] + Interval < r[1]
  BY <1>0, ApartAround
<1>6. \A i \in k + 1..Len(rs) : i \in 1..Len(rs) /\ r[2] + Interval < rs[i][1]
  BY <1>0, ApartAround
<1>7. \A t \in Grid : t \in cov <=> \E i \in 1..Len(rs) : rs[i][1] <= t /\ t <= rs[i][2]
  BY <1>a, CoveredOn
<1>8. \A i \in 1..Len(rs) : i \in 1..k - 1 \/ i = k \/ i \in k + 1..Len(rs)
  BY <1>0
<1>9. /\ Apart(acc.gaps)
      /\ \A i \in DOMAIN acc.gaps : acc.gaps[i][2] + Interval < acc.cursor
      /\ \A t \in Grid : t \in Covered(acc.gaps) <=>
                            w[1] <= t /\ t <= w[2] /\ t < acc.cursor /\ t \notin cov
      /\ ~acc.over => \A i \in 1..k - 1 : rs[i][2] < acc.cursor
      /\ acc.over => \A t \in Grid : acc.cursor <= t /\ t <= w[2] => t \notin cov
  BY DEF Searched
<1>k. k \in 1..Len(rs) /\ r = rs[k]
  OBVIOUS
<1>kk. \A i \in 1..k : i \in 1..k - 1 \/ i = k
  BY <1>0
<1> HIDE DEF r, cov
\* A bar is in r, or in a range in front of it, or in one behind it.
<1>10. ASSUME NEW t \in Grid, t \in cov, t < r[1] \/ r[2] < t
       PROVE  (\E i \in 1..k - 1 : t <= rs[i][2]) \/ t > r[2]
  <2>1. PICK i \in 1..Len(rs) : rs[i][1] <= t /\ t <= rs[i][2]
    BY <1>7, <1>10
  <2>2. CASE i \in 1..k - 1
    BY <2>1, <2>2
  <2>3. CASE i = k
    BY <2>1, <2>3, <1>10, <1>a, <1>2, <1>k
  <2>4. CASE i \in k + 1..Len(rs)
    BY <2>1, <2>4, <1>6, <1>2, <1>k, <1>a
  <2>5. QED
    BY <2>2, <2>3, <2>4, <1>8
<1>11. CASE acc.over
  <2>1. AddGap(acc, r, w) = acc
    BY <1>11 DEF AddGap
  <2>2. QED
    BY <2>1, <1>9, <1>11, <1>k DEF Searched, cov
<1>12. CASE ~acc.over /\ r[2] < w[1]
  <2>1. AddGap(acc, r, w) = acc
    BY <1>12 DEF AddGap
  <2>2. \A i \in 1..k : rs[i][2] < acc.cursor
    BY <1>9, <1>12, <1>4, <1>1, <1>2, <1>k, <1>kk
  <2>3. QED
    BY <2>1, <2>2, <1>9, <1>12, <1>k DEF Searched, cov
<1>13. CASE ~acc.over /\ ~(r[2] < w[1]) /\ r[1] > w[2]
  <2>1. AddGap(acc, r, w) = [acc EXCEPT !.over = TRUE]
    BY <1>13 DEF AddGap
  <2>2. PICK a : a = AddGap(acc, r, w)
    OBVIOUS
  <2>3. a.gaps = acc.gaps /\ a.cursor = acc.cursor /\ a.over = TRUE
    BY <2>1, <2>2, <1>3
  <2>4. ASSUME NEW t \in Grid, acc.cursor <= t, t <= w[2] PROVE t \notin cov
    <3>1. t < r[1] /\ t \in Nat /\ ~(t > r[2])
      BY <2>4, <1>13, <1>1, <1>2, <1>k, <1>a
    <3>2. \A i \in 1..k - 1 : ~(t <= rs[i][2])
      BY <2>4, <3>1, <1>9, <1>13, <1>4, <1>5, <1>2
    <3>3. QED
      BY <3>1, <3>2, <1>10
  <2>5. QED
    BY <2>2, <2>3, <2>4, <1>9, <1>k DEF Searched, cov
<1>14. CASE ~acc.over /\ ~(r[2] < w[1]) /\ ~(r[1] > w[2])
  <2>1. PICK c : c = Later(acc.cursor, r[2] + Interval)
    OBVIOUS
  <2>2. PICK g : g = GapBefore(acc.cursor, r, w)
    OBVIOUS
  <2>3. PICK gs : gs = IF r[1] > acc.cursor THEN Append(acc.gaps, g) ELSE acc.gaps
    OBVIOUS
  <2>4. PICK a : a = AddGap(acc, r, w)
    OBVIOUS
  <2>5. a.gaps = gs /\ a.cursor = c /\ a.over = (c > w[2])
    BY <2>1, <2>2, <2>3, <2>4, <1>14 DEF AddGap
  <2>6. c \in Nat /\ acc.cursor <= c /\ r[2] + Interval <= c /\ (c = acc.cursor \/ c = r[2] + Interval)
    BY <2>1, <1>4, <1>2, <1>k, <1>a DEF Later
  <2>7. \A i \in 1..k : rs[i][2] < c
    BY <2>6, <1>9, <1>14, <1>kk, <1>k, <1>2, <1>5, <1>4, <1>a
  <2>8. ASSUME a.over, NEW t \in Grid, c <= t, t <= w[2] PROVE t \notin cov
    <3>1. c > w[2]
      BY <2>5, <2>8
    <3>2. QED
      BY <3>1, <2>6, <2>8, <1>a, <1>1
  \* Between the cursors a bar is in r or in front of it.
  <2>9. ASSUME NEW t \in Grid, acc.cursor <= t, t < c
        PROVE  t \in cov <=> r[1] <= t
    <3>1. t \in Nat /\ r[1] \in Nat /\ r[2] \in Nat /\ r[2] \in Grid /\ r[1] <= r[2]
      BY <1>a, <1>2, <1>k
    <3>2. t <= r[2]
      <4>1. t < r[2] + Interval
        BY <2>6, <2>9, <3>1, <1>a, <1>4
      <4>2. r[2] < t => r[2] + Interval <= t
        BY <3>1, GridStep
      <4>3. QED
        BY <4>1, <4>2, <3>1, <1>a
    <3>3. r[1] <= t => t \in cov
      BY <3>2, <1>7, <1>k
    <3>4. ASSUME t < r[1] PROVE t \notin cov
      <4>1. \A i \in 1..k - 1 : ~(t <= rs[i][2])
        BY <2>9, <3>1, <1>9, <1>14, <1>4, <1>5, <1>2
      <4>2. QED
        BY <4>1, <3>1, <3>2, <3>4, <1>10
    <3>5. QED
      BY <3>1, <3>3, <3>4
  <2>10. CASE r[1] > acc.cursor
    <3>0. r \in Within(0, Horizon) /\ r[1] \in Nat /\ r[2] \in Nat /\ r[1] <= r[2] /\ r[1] \in Grid
      BY <1>0, <1>2, <1>k
    <3>1. /\ g \in Within(w[1], w[2]) /\ g[1] = acc.cursor /\ g[2] + Interval <= r[1]
          /\ g[2] = r[1] - Interval \/ g[2] = w[2]
      <4>1. acc.cursor < r[1] /\ r[1] <= w[2]
        BY <2>10, <3>0, <1>1, <1>4, <1>14
      <4>2. QED
        BY <4>1, <2>2, <3>0, AddGapTyped
    <3>2. gs = Append(acc.gaps, g)
      BY <2>3, <2>10
    <3>3. \A i \in DOMAIN acc.gaps : acc.gaps[i][2] + Interval < g[1]
      BY <3>1, <1>9
    <3>4. /\ Apart(gs) /\ Covered(gs) = Covered(acc.gaps) \cup Bars(g)
          /\ DOMAIN gs = 1..Len(acc.gaps) + 1
          /\ gs[Len(acc.gaps) + 1] = g /\ \A i \in 1..Len(acc.gaps) : gs[i] = acc.gaps[i]
      <4>1. g \in Within(w[1], w[2])
        BY <3>1
      <4>2. Apart(acc.gaps)
        BY <1>9
      <4>3. PICK m : m = acc.gaps
        OBVIOUS
      <4>4. m \in Seq(Within(w[1], w[2])) /\ Apart(m) /\ \A i \in DOMAIN m : m[i][2] + Interval < g[1]
        BY <4>2, <4>3, <3>3, <1>3
      <4>5. PICK lo, hi : lo = w[1] /\ hi = w[2]
        OBVIOUS
      <4>6. lo \in Nat /\ hi \in Nat /\ m \in Seq(Within(lo, hi)) /\ g \in Within(lo, hi)
        BY <4>1, <4>4, <4>5, <1>1
      <4>7. /\ Apart(Append(m, g)) /\ Covered(Append(m, g)) = Covered(m) \cup Bars(g)
            /\ DOMAIN Append(m, g) = 1..Len(m) + 1
            /\ Append(m, g)[Len(m) + 1] = g /\ \A i \in 1..Len(m) : Append(m, g)[i] = m[i]
        BY <4>4, <4>6, AppendApart
      <4>8. QED
        BY <4>3, <4>7, <3>2
    <3>5. g \in Grid \X Grid /\ g[2] \in Nat /\ g[1] \in Nat
      BY <3>1, <1>1, WithinOf
    <3>6. \A i \in DOMAIN gs : gs[i][2] + Interval < c
      <4>1. g[2] + Interval < c
        BY <3>1, <3>5, <3>0, <2>6, <1>a
      <4>2. ASSUME NEW i \in 1..Len(acc.gaps) PROVE gs[i][2] + Interval < c
        <5>1. acc.gaps[i] \in Within(w[1], w[2]) /\ i \in DOMAIN acc.gaps
          BY <1>3
        <5>2. acc.gaps[i][2] \in Nat
          BY <5>1, <1>1, WithinOf
        <5>3. acc.gaps[i][2] + Interval < acc.cursor
          BY <5>1, <1>9
        <5>4. gs[i] = acc.gaps[i]
          BY <3>4
        <5>5. acc.gaps[i][2] + Interval < c
          BY <5>2, <5>3, <2>6, <1>4, <1>a
        <5>6. QED
          BY <5>4, <5>5
      <4>3. Len(acc.gaps) \in Nat
        BY <1>3
      <4>4. QED
        BY <4>1, <4>2, <4>3, <3>4
    <3>7. ASSUME NEW t \in Grid
          PROVE  t \in Covered(gs) <=> w[1] <= t /\ t <= w[2] /\ t < c /\ t \notin cov
      <4>1. t \in Bars(g) <=> acc.cursor <= t /\ t <= g[2]
        BY <3>1, <3>5, BarsOnGrid
      <4>2. t \in Nat
        BY <1>a
      <4>3. CASE t < acc.cursor
        <5>1. t \notin Bars(g) /\ t < c
          BY <4>1, <4>2, <4>3, <1>4, <2>6
        <5>2. QED
          BY <5>1, <4>3, <3>4, <1>9
      <4>4. CASE acc.cursor <= t
        <5>1. t \notin Covered(acc.gaps)
          BY <4>2, <4>4, <1>4, <1>9
        <5>2. t <= g[2] => t <= w[2] /\ t < r[1] /\ t < c
          <6>1. g[2] <= w[2]
            BY <3>1, <1>1, WithinOf
          <6>2. g[2] + Interval <= r[1] /\ r[2] + Interval <= c
            BY <3>1, <2>6
          <6>3. g[2] \in Nat /\ r[1] \in Nat /\ r[2] \in Nat /\ r[1] <= r[2] /\ c \in Nat /\ w[2] \in Nat /\ Interval \in Nat \ {0}
            BY <3>0, <3>5, <2>6, <1>1, <1>a
          <6>4. t <= g[2] => t <= w[2]
            BY <6>1, <6>3, <4>2
          <6>5. t <= g[2] => t < r[1]
            BY <6>2, <6>3, <4>2
          <6>6. t <= g[2] => t < c
            BY <6>5, <6>2, <6>3, <4>2
          <6>7. QED
            BY <6>4, <6>5, <6>6
        <5>3. t < r[1] /\ t <= w[2] => t <= g[2]
          <6>1. t < r[1] => t <= r[1] - Interval
            BY <3>0, GridStep
          <6>2. QED
            BY <6>1, <3>1, <1>a
        <5>4. t < c => (t \in cov <=> r[1] <= t)
          BY <4>4, <2>9
        <5>5. t \in Covered(gs) <=> t <= g[2]
          BY <5>1, <4>1, <4>4, <3>4
        <5>6. w[1] <= t
          BY <4>2, <4>4, <1>1, <1>4
        <5>7. t < r[1] <=> ~(r[1] <= t)
          BY <4>2, <3>0
        <5>8. QED
          BY <5>2, <5>3, <5>4, <5>5, <5>6, <5>7
      <4>5. QED
        BY <4>2, <4>3, <4>4, <1>4
    <3>8. QED
      BY <2>4, <2>5, <2>7, <2>8, <3>4, <3>6, <3>7, <1>k DEF Searched, cov
  <2>11. CASE ~(r[1] > acc.cursor)
    <3>1. gs = acc.gaps /\ r[1] \in Nat /\ r[1] <= acc.cursor
      BY <2>3, <2>11, <1>2, <1>k, <1>4
    <3>2. \A i \in DOMAIN gs : gs[i][2] + Interval < c
      <4>1. ASSUME NEW i \in DOMAIN acc.gaps PROVE acc.gaps[i][2] + Interval < c
        <5>1. acc.gaps[i] \in Within(w[1], w[2])
          BY <1>3
        <5>2. acc.gaps[i][2] \in Nat
          BY <5>1, <1>1, WithinOf
        <5>3. acc.gaps[i][2] + Interval < acc.cursor
          BY <1>9
        <5>4. QED
          BY <5>2, <5>3, <2>6, <1>4, <1>a
      <4>2. QED
        BY <4>1, <3>1
    <3>3. ASSUME NEW t \in Grid
          PROVE  t \in Covered(gs) <=> w[1] <= t /\ t <= w[2] /\ t < c /\ t \notin cov
      <4>1. t \in Nat
        BY <1>a
      <4>2. t < acc.cursor => t < c
        BY <4>1, <2>6, <1>4
      <4>3. ~(t < acc.cursor) /\ t < c => t \in cov
        BY <4>1, <3>1, <2>9, <1>4
      <4>4. QED
        BY <4>2, <4>3, <3>1, <1>9
    <3>4. QED
      BY <2>4, <2>5, <2>7, <2>8, <3>1, <3>2, <3>3, <1>9, <1>k DEF Searched, cov
  <2>12. QED
    BY <2>10, <2>11
<1>15. QED
  BY <1>11, <1>12, <1>13, <1>14, <1>k, <1>3

LEMMA KeptGapsSame ==
    ASSUME NEW lo \in Nat, NEW hi \in Nat, NEW gaps \in Seq(Within(lo, hi))
    PROVE  KeptGaps(gaps) = gaps
<1> DEFINE n == Len(gaps)
<1>0. n \in Nat /\ DOMAIN gaps = 1..n /\ \A k \in 1..n : gaps[k] \in Within(lo, hi)
  OBVIOUS
<1>1. PICK h \in [0..n -> Seq(Within(lo, hi))] :
          /\ h[0] = <<>>
          /\ \A k \in 1..n : h[k] = KeepGap(h[k - 1], gaps[k])
          /\ KeptGaps(gaps) = h[n]
  BY KeepRun
<1> HIDE DEF n
<1> DEFINE J == {k \in 0..n : Len(h[k]) = k /\ \A i \in 1..k : h[k][i] = gaps[i]}
<1>2. 0 \in J
  <2>1. 0 \in 0..n /\ Len(h[0]) = 0
    BY <1>0, <1>1
  <2>2. QED
    BY <2>1
<1>3. ASSUME NEW k \in 1..n, k - 1 \in J PROVE k \in J
  <2>0. k \in 0..n /\ k - 1 \in 0..n
    BY <1>0
  <2>1. PICK m, g, X : m = h[k - 1] /\ g = gaps[k] /\ X = Within(lo, hi)
    OBVIOUS
  <2>2. m \in Seq(X) /\ g \in X /\ Len(m) = k - 1 /\ \A i \in 1..k - 1 : m[i] = gaps[i]
    BY <2>0, <2>1, <1>0, <1>3
  <2>3. h[k] = Append(m, g)
    BY <2>1, <2>2, <1>1, KeepGapTyped
  <2>4. Len(h[k]) = k /\ h[k][k] = g /\ \A i \in 1..k - 1 : h[k][i] = m[i]
    <3>1. Len(Append(m, g)) = Len(m) + 1 /\ Append(m, g)[Len(m) + 1] = g /\ \A i \in 1..Len(m) : Append(m, g)[i] = m[i]
      BY <2>2, AppendProperties
    <3>2. QED
      BY <3>1, <2>2, <2>3, <2>0
  <2>5. \A i \in 1..k : i = k \/ i \in 1..k - 1
    BY <1>0
  <2>6. \A i \in 1..k : h[k][i] = gaps[i]
    BY <2>5, <2>1, <2>2, <2>4
  <2>7. QED
    BY <2>0, <2>4, <2>6
<1> HIDE DEF J
<1>4. \A k \in 0..n : k \in J
  BY <1>0, <1>2, <1>3, UpTo
<1>5. Len(h[n]) = n /\ \A i \in 1..n : h[n][i] = gaps[i]
  <2>1. n \in J
    BY <1>0, <1>4
  <2>2. QED
    BY <2>1 DEF J
<1>6. PICK X : X = Within(lo, hi)
  OBVIOUS
<1>7. gaps \in Seq(X) /\ h[n] \in Seq(X) /\ Len(gaps) = Len(h[n])
  BY <1>0, <1>1, <1>5, <1>6 DEF n
<1>8. QED
  BY <1>1, <1>5, <1>7, SeqEqual

LEMMA SearchExact ==
    ASSUME NEW w \in Spans, NEW rs \in Seq(Within(0, Horizon)), Apart(rs)
    PROVE  Search(w, rs) \in Searching(w) /\ Searched(Search(w, rs), rs, Len(rs), w)
<1> DEFINE n == Len(rs)
<1>0. n \in Nat /\ \A k \in 1..n : rs[k] \in Within(0, Horizon)
  OBVIOUS
<1>a. \A t \in Grid : t \in Nat
  BY DEF Grid, Time
<1>1. PICK h \in [0..n -> Searching(w)] :
          /\ h[0] = NoGaps(w)
          /\ \A k \in 1..n : h[k] = AddGap(h[k - 1], rs[k], w)
          /\ Search(w, rs) = h[n]
  BY SearchRun
<1>k. \A k \in 1..n : k \in 1..Len(rs)
  OBVIOUS
<1> HIDE DEF n
<1> DEFINE J == {k \in 0..n : Searched(h[k], rs, k, w)}
<1>2. 0 \in J
  <2>1. w[1] \in Nat
    BY SpanOf
  <2>2. PICK acc : acc = NoGaps(w)
    OBVIOUS
  <2>3. acc.gaps = <<>> /\ acc.cursor = w[1] /\ acc.over = FALSE
    BY <2>2 DEF NoGaps
  <2>4. DOMAIN acc.gaps = {} /\ Covered(acc.gaps) = {} /\ Apart(acc.gaps)
    <3>1. DOMAIN acc.gaps = {}
      BY <2>3
    <3>2. QED
      BY <3>1 DEF Covered, Apart
  <2>5. \A t \in Grid : ~(w[1] <= t /\ t <= w[2] /\ t < acc.cursor /\ t \notin Covered(rs))
    BY <2>1, <2>3, <1>a
  <2>6. \A i \in 1..0 : FALSE
    OBVIOUS
  <2>7. Searched(acc, rs, 0, w)
    BY <2>3, <2>4, <2>5, <2>6 DEF Searched
  <2>8. QED
    BY <2>2, <2>7, <1>0, <1>1
<1>3. ASSUME NEW k \in 1..n, k - 1 \in J PROVE k \in J
  <2>0. k \in 0..n /\ k - 1 \in 0..n
    BY <1>0
  <2>1. PICK acc : acc = h[k - 1]
    OBVIOUS
  <2>2. acc \in Searching(w) /\ Searched(acc, rs, k - 1, w) /\ k \in 1..Len(rs)
    BY <2>0, <2>1, <1>3, <1>k
  <2>3. Searched(AddGap(acc, rs[k], w), rs, k, w)
    BY <2>2, AddGapExact
  <2>4. QED
    BY <2>0, <2>1, <2>3, <1>1
<1> HIDE DEF J
<1>4. \A k \in 0..n : k \in J
  BY <1>0, <1>2, <1>3, UpTo
<1>5. n \in J /\ n \in 0..n
  BY <1>0, <1>4
<1>6. Searched(h[n], rs, n, w)
  BY <1>5 DEF J
<1>7. QED
  BY <1>1, <1>5, <1>6 DEF n

\* What is missing of a window is what no range has, the gaps apart.
LEMMA MissingExact ==
    ASSUME NEW w \in Spans, NEW rs \in Seq(Within(0, Horizon)), Apart(rs)
    PROVE  /\ MissingRanges(rs, w) \in Seq(Within(w[1], w[2])) /\ Apart(MissingRanges(rs, w))
           /\ Covered(MissingRanges(rs, w)) = Bars(w) \ Covered(rs)
<1>a. 0 \in Nat /\ Horizon \in Nat /\ Interval \in Nat \ {0} /\ \A t \in Grid : t \in Nat
  BY RangeConstants DEF Grid, Time
<1>1. w[1] \in Nat /\ w[2] \in Nat /\ w[1] \in Grid /\ w[2] \in Grid /\ w[1] <= w[2] /\ w \in Grid \X Grid
  BY SpanOf DEF Spans
<1>2. PICK search : search = Search(w, rs)
  OBVIOUS
<1>3. PICK gaps : gaps = IF search.cursor <= w[2] THEN Append(search.gaps, <<search.cursor, w[2]>>) ELSE search.gaps
  OBVIOUS
<1>4. MissingRanges(rs, w) = KeptGaps(gaps)
  <2>1. MergeCoverage(rs) = rs
    BY MergeOfApart
  <2>2. QED
    BY <2>1, <1>2, <1>3 DEF MissingRanges, Search, NoGaps, KeptGaps, KeepGap
<1>5. search \in Searching(w) /\ Searched(search, rs, Len(rs), w)
  BY <1>2, SearchExact
<1>6. search.gaps \in Seq(Within(w[1], w[2])) /\ search.cursor \in Cursors(w) /\ search.over \in BOOLEAN
  BY <1>5 DEF Searching
<1>7. search.cursor \in Nat /\ w[1] <= search.cursor /\ (search.cursor <= w[2] => search.cursor \in Grid)
  BY <1>6, CursorOf
<1>8. /\ Apart(search.gaps)
      /\ \A i \in DOMAIN search.gaps : search.gaps[i][2] + Interval < search.cursor
      /\ \A t \in Grid : t \in Covered(search.gaps) <=>
                            w[1] <= t /\ t <= w[2] /\ t < search.cursor /\ t \notin Covered(rs)
      /\ ~search.over => \A i \in 1..Len(rs) : rs[i][2] < search.cursor
      /\ search.over => \A t \in Grid : search.cursor <= t /\ t <= w[2] => t \notin Covered(rs)
  BY <1>5 DEF Searched
\* What the search has not passed is in no range.
<1>9. ASSUME NEW t \in Grid, search.cursor <= t, t <= w[2] PROVE t \notin Covered(rs)
  <2>1. CASE search.over
    BY <2>1, <1>8, <1>9
  <2>2. CASE ~search.over
    <3>1. SUFFICES ASSUME t \in Covered(rs) PROVE FALSE
      OBVIOUS
    <3>2. PICK i \in 1..Len(rs) : t <= rs[i][2]
      BY <3>1, <1>a, CoveredOn
    <3>3. rs[i] \in Within(0, Horizon)
      OBVIOUS
    <3>4. rs[i][2] \in Nat /\ t \in Nat
      BY <3>3, <1>a, WithinOf
    <3>5. QED
      BY <3>2, <3>4, <2>2, <1>7, <1>8, <1>9
  <2>3. QED
    BY <2>1, <2>2
<1>10. /\ gaps \in Seq(Within(w[1], w[2])) /\ Apart(gaps)
       /\ \A t \in Grid : t \in Covered(gaps) <=> w[1] <= t /\ t <= w[2] /\ t \notin Covered(rs)
  <2>1. CASE search.cursor <= w[2]
    <3>1. PICK m, g, lo, hi : m = search.gaps /\ g = <<search.cursor, w[2]>> /\ lo = w[1] /\ hi = w[2]
      OBVIOUS
    <3>2. lo \in Nat /\ hi \in Nat /\ g \in Within(lo, hi) /\ g[1] = search.cursor /\ g[2] = w[2]
      BY <3>1, <2>1, <1>1, <1>7, WithinMade
    <3>3. m \in Seq(Within(lo, hi)) /\ Apart(m) /\ \A i \in DOMAIN m : m[i][2] + Interval < g[1]
      BY <3>1, <3>2, <1>6, <1>8
    <3>4. /\ Append(m, g) \in Seq(Within(lo, hi)) /\ Apart(Append(m, g))
          /\ Covered(Append(m, g)) = Covered(m) \cup Bars(g)
      BY <3>2, <3>3, AppendApart
    <3>5. gaps = Append(m, g)
      BY <3>1, <2>1, <1>3
    <3>6. g \in Grid \X Grid
      BY <3>2, WithinOf
    <3>7. ASSUME NEW t \in Grid
          PROVE  t \in Covered(gaps) <=> w[1] <= t /\ t <= w[2] /\ t \notin Covered(rs)
      <4>1. t \in Bars(g) <=> search.cursor <= t /\ t <= w[2]
        BY <3>2, <3>6, BarsOnGrid
      <4>2. t \in Nat
        BY <1>a
      <4>3. t < search.cursor => t \notin Bars(g)
        BY <4>1, <4>2, <1>7
      <4>4. search.cursor <= t => t \notin Covered(m) /\ w[1] <= t
        BY <3>1, <4>2, <1>1, <1>7, <1>8
      <4>5. t < search.cursor \/ search.cursor <= t
        BY <4>2, <1>7
      <4>6. t \in Covered(gaps) <=> t \in Covered(m) \/ t \in Bars(g)
        BY <3>4, <3>5
      <4>7. CASE t < search.cursor
        BY <4>3, <4>6, <4>7, <3>1, <1>8
      <4>8. CASE search.cursor <= t
        BY <4>1, <4>4, <4>6, <4>8, <1>9
      <4>9. QED
        BY <4>5, <4>7, <4>8
    <3>8. QED
      BY <3>1, <3>4, <3>5, <3>7
  <2>2. CASE ~(search.cursor <= w[2])
    <3>1. gaps = search.gaps
      BY <2>2, <1>3
    <3>2. \A t \in Grid : t <= w[2] => t < search.cursor
      BY <2>2, <1>1, <1>7, <1>a
    <3>3. QED
      BY <3>1, <3>2, <1>6, <1>8
  <2>3. QED
    BY <2>1, <2>2
<1>11. KeptGaps(gaps) = gaps
  BY <1>1, <1>10, KeptGapsSame
<1>12. Covered(gaps) = Bars(w) \ Covered(rs)
  <2>1. \A t : t \in Bars(w) <=> t \in Grid /\ w[1] <= t /\ t <= w[2]
    BY <1>1, BarsOnGrid
  <2>2. \A t : t \in Covered(gaps) => t \in Grid
    BY <1>1, <1>10, CoveredOn
  <2>3. QED
    BY <2>1, <2>2, <1>10
<1>13. QED
  BY <1>4, <1>10, <1>11, <1>12

\* What a source has of a window, and what it leaves, are its bars.
LEMMA SplitExact ==
    ASSUME NEW w \in Spans, NEW rs \in Seq(Within(0, Horizon)), NEW available, NEW left,
           available = IntersectWith(w, rs), left = SubtractFrom(w, available)
    PROVE  /\ available \in Seq(Within(w[1], w[2])) /\ left \in Seq(Within(w[1], w[2]))
           /\ Covered(available) \subseteq Bars(w) /\ Covered(left) = Bars(w) \ Covered(available)
<1>1. PICK lo, hi : lo = w[1] /\ hi = w[2]
  OBVIOUS
<1>2. lo \in Nat /\ hi \in Nat /\ w \in Grid \X Grid /\ w \in Within(lo, hi)
  BY <1>1, SpanOf DEF Spans, Within
<1>3. available \in Seq(Within(lo, hi))
  BY <1>1, IntersectSound
<1>4. left \in Seq(Within(lo, hi)) /\ Covered(left) = Bars(w) \ Covered(available)
  BY <1>2, <1>3, SubtractExact
<1>5. ASSUME NEW t \in Covered(available) PROVE t \in Bars(w)
  <2>1. t \in Grid /\ \E k \in 1..Len(available) : available[k][1] <= t /\ t <= available[k][2]
    BY <1>2, <1>3, CoveredOn
  <2>2. PICK k \in 1..Len(available) : available[k][1] <= t /\ t <= available[k][2]
    BY <2>1
  <2>3. available[k] \in Within(lo, hi)
    BY <1>3
  <2>4. lo <= available[k][1] /\ available[k][2] <= hi /\ available[k][1] \in Nat /\ available[k][2] \in Nat
    BY <2>3, <1>2, WithinOf
  <2>5. t \in Nat
    BY <2>1 DEF Grid, Time
  <2>6. w[1] <= t /\ t <= w[2]
    BY <2>2, <2>4, <2>5, <1>1, <1>2
  <2>7. QED
    BY <2>1, <2>6, <1>2, BarsOnGrid
<1>6. QED
  BY <1>1, <1>3, <1>4, <1>5

-----------------------------------------------------------------------------
(* RangeMath: chunks, bar for bar *)

\* The chunks of a range are the range without its end, each bar in one of them.
LEMMA ChunksTileExact ==
    ASSUME NEW r \in Spans, NEW bars \in Nat, NEW chunks, chunks = Chunks(r, bars)
    PROVE  /\ \A t : t \in HalfOpen(r) <=> \E k \in DOMAIN chunks : t \in HalfOpen(chunks[k])
           /\ \A j, k \in DOMAIN chunks : j # k => HalfOpen(chunks[j]) \cap HalfOpen(chunks[k]) = {}
<1>0. r \in Grid \X Grid /\ r[1] \in Nat /\ r[2] \in Nat /\ r[1] <= r[2]
  BY SpanOf DEF Spans
<1>1. CASE r[2] <= r[1] \/ bars = 0
  <2>1. chunks = <<r>>
    BY <1>1 DEF Chunks
  <2>2. DOMAIN chunks = {1} /\ chunks[1] = r
    BY <2>1
  <2>3. QED
    BY <2>2
<1>2. CASE ~(r[2] <= r[1] \/ bars = 0)
  <2> DEFINE lo == r[1]
             hi == r[2]
  <2>0. PICK span : span = ChunkSpan(bars)
    OBVIOUS
  <2>1. lo < hi /\ bars \in Nat \ {0} /\ lo \in Nat /\ hi \in Nat
    BY <1>0, <1>2
  <2>2. span \in Nat \ {0}
    BY <2>0, <2>1, <1>0, ChunkSteps, Zenon
  <2>3. PICK n \in Nat \ {0} :
           /\ span * n >= hi - lo /\ chunks \in [1..n -> Grid \X Grid]
           /\ \A k \in 1..n :
                 /\ chunks[k] \in Grid \X Grid
                 /\ chunks[k][1] = lo + span * (k - 1)
                 /\ chunks[k][2] = Sooner(lo + span * k, hi)
                 /\ span * (k - 1) \in Nat /\ span * k \in Nat
    <3>1. r \in Grid \X Grid /\ bars \in Nat \ {0} /\ r[1] < r[2]
      BY <1>0, <2>1
    <3>2. \E m \in Nat \ {0} :
             /\ ChunkSpan(bars) * m >= r[2] - r[1] /\ Chunks(r, bars) \in [1..m -> Grid \X Grid]
             /\ \A k \in 1..m :
                   /\ Chunks(r, bars)[k] \in Grid \X Grid
                   /\ Chunks(r, bars)[k][1] = r[1] + ChunkSpan(bars) * (k - 1)
                   /\ Chunks(r, bars)[k][2] = Sooner(r[1] + ChunkSpan(bars) * k, r[2])
                   /\ ChunkSpan(bars) * (k - 1) \in Nat /\ ChunkSpan(bars) * k \in Nat
                   /\ ChunkSpan(bars) * (k - 1) < r[2] - r[1]
      BY <3>1, ChunkSteps, Zenon
    <3>3. chunks = Chunks(r, bars)
      OBVIOUS
    <3>4. QED
      BY <3>2, <3>3, <2>0
  <2> HIDE DEF lo, hi
  <2>4. HalfOpen(r) = {t \in Grid : lo <= t /\ t < hi}
    BY <1>0, BarsOnGrid DEF lo, hi
  <2>5. ASSUME NEW k \in 1..n, NEW t
        PROVE  t \in HalfOpen(chunks[k]) <=>
                  t \in Grid /\ lo + span * (k - 1) <= t /\ t < lo + span * k /\ t < hi
    <3>1. HalfOpen(chunks[k]) = {x \in Grid : chunks[k][1] <= x /\ x < chunks[k][2]}
      BY <2>3, BarsOnGrid
    <3>2. ASSUME t \in Grid PROVE t < Sooner(lo + span * k, hi) <=> t < lo + span * k /\ t < hi
      <4>1. t \in Nat
        BY <3>2 DEF Grid, Time
      <4>a. PICK b \in Nat : b = span * k
        BY <2>3
      <4>2. PICK e \in Nat : e = lo + span * k
        BY <4>a, <2>1
      <4>3. t < Sooner(e, hi) <=> t < e /\ t < hi
        BY <4>1, <4>2, <2>1 DEF Sooner
      <4>4. QED
        BY <4>2, <4>3
    <3>3. QED
      BY <3>1, <3>2, <2>3
  <2>6. ASSUME NEW t \in HalfOpen(r) PROVE \E k \in 1..n : t \in HalfOpen(chunks[k])
    <3>1. t \in Grid /\ t \in Nat /\ lo <= t /\ t < hi
      BY <2>4 DEF Grid, Time
    <3>2. PICK q \in Int, m \in 0..span - 1 : t - lo = span * q + m
      <4>1. PICK d \in Int : d = t - lo
        BY <3>1, <2>1
      <4>2. d \div span \in Int /\ d % span \in 0..span - 1 /\ d = span * (d \div span) + (d % span)
        BY <2>2, ModDef
      <4>3. QED
        BY <4>1, <4>2
    <3>3. span * q \in Int /\ span * (q + 1) = span * q + span
      BY <2>2, Times, Distributes
    <3>4. span * q <= t - lo /\ t - lo < span * (q + 1)
      BY <3>2, <3>3, <2>2
    <3>5. n \in Int /\ span * n \in Int
      BY <2>3, <2>2, Times
    <3>6. q < n
      <4>1. span * q < span * n
        BY <3>3, <3>4, <3>5, <2>3, <3>1, <2>1
      <4>2. QED
        BY <4>1, <3>5, <2>2, SmallerFactor
    <3>7. 0 <= q
      <4>1. span * (q + 1) \in Int /\ span * 0 = 0
        BY <2>2, Times
      <4>2. span * 0 < span * (q + 1)
        BY <3>4, <4>1, <3>1, <2>1
      <4>3. 0 < q + 1
        BY <4>2, <2>2, SmallerFactor
      <4>4. QED
        BY <4>3
    <3>8. q + 1 \in 1..n /\ (q + 1) - 1 = q
      BY <3>5, <3>6, <3>7
    <3>9. lo + span * ((q + 1) - 1) <= t /\ t < lo + span * (q + 1)
      <4>1. PICK a \in Int, b \in Int : a = span * q /\ b = span * (q + 1)
        BY <3>3, <2>2
      <4>2. lo + a <= t /\ t < lo + b
        BY <4>1, <3>4, <3>1, <2>1
      <4>3. QED
        BY <3>8, <4>1, <4>2
    <3>10. QED
      BY <3>1, <3>8, <3>9, <2>5
  <2>7. ASSUME NEW k \in 1..n, NEW t \in HalfOpen(chunks[k]) PROVE t \in HalfOpen(r)
    <3>1. t \in Grid /\ t \in Nat /\ lo + span * (k - 1) <= t /\ t < hi
      BY <2>5 DEF Grid, Time
    <3>2. lo <= t
      <4>1. PICK b \in Nat : b = span * (k - 1)
        BY <2>3
      <4>2. QED
        BY <4>1, <3>1, <2>1
    <3>3. QED
      BY <3>1, <3>2, <2>4
  \* A chunk ends where the next one begins.
  <2>8. ASSUME NEW j \in 1..n, NEW k \in 1..n, j < k
        PROVE  HalfOpen(chunks[j]) \cap HalfOpen(chunks[k]) = {}
    <3>1. j <= k - 1 /\ j \in Int /\ k - 1 \in Int
      BY <2>8
    <3>2. span * j <= span * (k - 1)
      BY <3>1, <2>2, SmallerFactor
    <3>3. PICK a \in Nat, b \in Nat : a = span * j /\ b = span * (k - 1)
      BY <2>3
    <3>4. ASSUME NEW t \in HalfOpen(chunks[j]), t \in HalfOpen(chunks[k]) PROVE FALSE
      <4>1. t \in Nat /\ t < lo + a /\ lo + b <= t
        BY <3>3, <3>4, <2>5 DEF Grid, Time
      <4>2. QED
        BY <4>1, <3>2, <3>3, <2>1
    <3>5. QED
      BY <3>4
  <2>9. ASSUME NEW j \in 1..n, NEW k \in 1..n, j # k
        PROVE  HalfOpen(chunks[j]) \cap HalfOpen(chunks[k]) = {}
    <3>1. j < k \/ k < j
      BY <2>9
    <3>2. HalfOpen(chunks[j]) \cap HalfOpen(chunks[k]) = HalfOpen(chunks[k]) \cap HalfOpen(chunks[j])
      OBVIOUS
    <3>3. QED
      BY <3>1, <3>2, <2>8
  <2>10. QED
    BY <2>3, <2>6, <2>7, <2>9
<1>3. QED
  BY <1>1, <1>2

\* Ranges apart from each other are what RangeChecks calls canonical.
LEMMA ApartCanonical ==
    ASSUME NEW lo \in Nat, NEW hi \in Nat, NEW rs \in Seq(Within(lo, hi)), Apart(rs)
    PROVE  Canonical(rs)
<1>1. DOMAIN rs = 1..Len(rs) /\ Len(rs) \in Nat /\ \A k \in 1..Len(rs) : rs[k] \in Within(lo, hi)
  OBVIOUS
<1>2. ASSUME NEW k \in 1..Len(rs) PROVE rs[k][1] <= rs[k][2]
  BY <1>1, WithinOf
<1>3. ASSUME NEW k \in 1..Len(rs), k > 1 PROVE rs[k - 1][2] + Interval < rs[k][1]
  <2>1. PICK j : j = k - 1
    OBVIOUS
  <2>2. j \in DOMAIN rs /\ k \in DOMAIN rs /\ j < k
    BY <2>1, <1>1, <1>3
  <2>3. rs[j][2] + Interval < rs[k][1]
    BY <2>2 DEF Apart
  <2>4. QED
    BY <2>1, <2>3
<1>4. QED
  BY <1>1, <1>2, <1>3 DEF Canonical

-----------------------------------------------------------------------------
(* RangeChecks *)

\* Inputs of every length: any table, any window, any number of bars per chunk.
Inputs == [table : SUBSET Grid, window : Spans, bars : Nat]

LEMMA CoverageExact == input \in Inputs => CoverageIsTable
<1>1. SUFFICES ASSUME input.table \in SUBSET Grid PROVE CoverageIsTable
  BY DEF Inputs
<1>2. PICK table : table = input.table
  OBVIOUS
<1>3. PICK runs : runs = RunsOf(SetToSeq(table))
  OBVIOUS
<1>4. /\ runs \in Seq(Within(0, Horizon)) /\ Apart(runs) /\ Covered(runs) = table
      /\ MergeCoverage(runs) = runs /\ MergeCoverage(SetToSeq({<<t, t>> : t \in table})) = runs
  BY <1>1, <1>2, <1>3, TableExact
<1>5. Canonical(runs)
  BY <1>4, ApartCanonical, RangeConstants
<1>6. Table = runs
  BY <1>2, <1>3 DEF Table
<1>7. QED
  BY <1>2, <1>4, <1>5, <1>6 DEF CoverageIsTable

LEMMA MissingIsExact == input \in Inputs => MissingIsComplement
<1>1. SUFFICES ASSUME input.table \in SUBSET Grid, input.window \in Spans PROVE MissingIsComplement
  BY DEF Inputs
<1>2. PICK table, w, runs : table = input.table /\ w = input.window /\ runs = RunsOf(SetToSeq(table))
  OBVIOUS
<1>3. runs \in Seq(Within(0, Horizon)) /\ Apart(runs) /\ Covered(runs) = table /\ w \in Spans
  BY <1>1, <1>2, TableExact
<1>4. PICK missing : missing = MissingRanges(runs, w)
  OBVIOUS
<1>5. /\ missing \in Seq(Within(w[1], w[2])) /\ Apart(missing)
      /\ Covered(missing) = Bars(w) \ Covered(runs)
  BY <1>3, <1>4, MissingExact
<1>6. Canonical(missing)
  BY <1>3, <1>5, SpanOf, ApartCanonical
<1>7. Table = runs /\ Window = w
  BY <1>2 DEF Table, Window
<1>8. QED
  BY <1>2, <1>3, <1>4, <1>5, <1>6, <1>7 DEF MissingIsComplement

LEMMA SplitIsSound == input \in Inputs => SplitIsExact
<1>1. SUFFICES ASSUME input.table \in SUBSET Grid, input.window \in Spans PROVE SplitIsExact
  BY DEF Inputs
<1>2. PICK table, w, runs : table = input.table /\ w = input.window /\ runs = RunsOf(SetToSeq(table))
  OBVIOUS
<1>3. runs \in Seq(Within(0, Horizon)) /\ w \in Spans
  BY <1>1, <1>2, TableExact
<1>4. PICK available, left : available = IntersectWith(w, runs) /\ left = SubtractFrom(w, available)
  OBVIOUS
<1>5. /\ left \in Seq(Within(w[1], w[2])) /\ Covered(available) \subseteq Bars(w)
      /\ Covered(left) = Bars(w) \ Covered(available)
  BY <1>3, <1>4, SplitExact
<1>6. \A k \in DOMAIN left : left[k][1] <= left[k][2]
  <2>1. ASSUME NEW k \in DOMAIN left PROVE left[k][1] <= left[k][2]
    <3>1. left[k] \in Within(w[1], w[2])
      BY <1>5
    <3>2. w[1] \in Nat /\ w[2] \in Nat
      BY <1>3, SpanOf
    <3>3. QED
      BY <3>1, <3>2, WithinOf
  <2>2. QED
    BY <2>1
<1>7. Table = runs /\ Window = w
  BY <1>2 DEF Table, Window
<1>8. /\ Covered(available) \cup Covered(left) = Bars(w)
      /\ Covered(available) \cap Covered(left) = {}
  BY <1>5
<1>9. QED
  BY <1>4, <1>6, <1>7, <1>8 DEF SplitIsExact

LEMMA ChunksAreTiles == input \in Inputs => ChunksTile
<1>1. SUFFICES ASSUME input.window \in Spans, input.bars \in Nat PROVE ChunksTile
  BY DEF Inputs
<1>2. PICK w, chunks : w = input.window /\ chunks = Chunks(w, input.bars)
  OBVIOUS
<1>3. /\ \A t : t \in HalfOpen(w) <=> \E k \in DOMAIN chunks : t \in HalfOpen(chunks[k])
      /\ \A j, k \in DOMAIN chunks : j # k => HalfOpen(chunks[j]) \cap HalfOpen(chunks[k]) = {}
  BY <1>1, <1>2, ChunksTileExact
<1>4. UNION {HalfOpen(chunks[k]) : k \in DOMAIN chunks} = HalfOpen(w)
  BY <1>3
<1>5. Window = w
  BY <1>2 DEF Window
<1>6. QED
  BY <1>2, <1>3, <1>4, <1>5 DEF ChunksTile

\* The arithmetic on ranges is exact for every interval and horizon, on every table and
\* window (merge_coverage, compute_missing_ranges, the intersection and subtraction of
\* _RangeOperations, _chunk_backfill_ranges). The lemmas above say so for any number of
\* bars per chunk, too.
THEOREM RangesAlwaysExact == RangeInit /\ [][UNCHANGED input]_input => []RangesExact
<1>1. RangeInit => input \in Inputs
  BY DEF RangeInit, Inputs, Spans
<1>2. input \in Inputs /\ [UNCHANGED input]_input => (input \in Inputs)'
  OBVIOUS
<1>3. input \in Inputs => RangesExact
  BY CoverageExact, MissingIsExact, SplitIsSound, ChunksAreTiles DEF RangesExact
<1>4. QED
  BY <1>1, <1>2, <1>3, PTL

-----------------------------------------------------------------------------
(* SeamlessBackfill: the inductive invariant *)

FetchState == [pc : {"idle", "claim", "plan", "gaps"}, n : 0..MaxFetches, due : Seq(Part),
               gaps : Seq(Part), ends : SUBSET Grid, got : SUBSET Grid, short : SUBSET Grid,
               clean : BOOLEAN]

Working == {"next", "ask", "write", "read", "direct"}

FillState == [pc : {"none", "done", "failed"} \cup Working, chunks : Seq(Part), tries : Nat,
              reads : BOOLEAN, miss : SUBSET Grid, new : SUBSET Grid, cover : SUBSET Grid,
              refreshed : BOOLEAN, frame : SUBSET Grid]

StateInv ==
    /\ fetches \in [Proc -> FetchState] /\ fills \in [Task -> FillState]
    /\ flights \in [Proc -> {None} \cup 1..MaxFetches] /\ lease \in {None} \cup Task
    /\ rows \in [Grid -> [Proc -> Nat]] /\ found \in SUBSET Grid
    /\ known \in [Proc -> {None} \cup SUBSET Grid]
    /\ locks \in [Proc -> {None} \cup Task] /\ mishaps \in [lease : Nat, other : Nat]

\* A task between the coverage it has read and the end of its pass, or its read, has the
\* lock of its process.  What it counts as covered is stored, and what it is to ask for or
\* to write, its process has not written.
FillInv(t) ==
    /\ fills[t].pc \in Working => fills[t].chunks # <<>>
    /\ fills[t].pc = "done" => fills[t].chunks = <<>>
    /\ fills[t].pc = "read" => fills[t].reads
    /\ fills[t].pc # "write" => fills[t].new = {}
    /\ fills[t].pc \in {"ask", "write", "read"} => locks[Owner(t)] = t
    /\ fills[t].pc \in {"ask", "write"} =>
          /\ fills[t].cover \subseteq Stored /\ fills[t].miss \cap fills[t].new = {}
          /\ \A b \in fills[t].miss \cup fills[t].new : rows[b][Owner(t)] = 0

\* While no lease ran out, a background backfill that runs is the one the lease is for.
LeaseInv ==
    mishaps.lease = 0 => \A t \in Task : t[2] > 0 /\ fills[t].pc # "none" => lease = t

\* The bars of a list of ranges that are read without their ends.
Chopped(rs) == UNION {HalfOpen(rs[k]) : k \in DOMAIN rs}

\* The chunk of the planner in process p: what it is not to ask for or to write in its first
\* pass, and after it all of the chunk, is stored or was left out of an answer.
ChunkInv(p) ==
    LET fill == fills[<<p, 0>>]
        settled == Stored \cup fetches[p].short
    IN /\ fill.pc \in {"ask", "write"} /\ ~fill.reads =>
              Bars(Head(fill.chunks)) \subseteq settled \cup fill.miss \cup fill.new
       /\ fill.pc \in Working /\ fill.reads => Bars(Head(fill.chunks)) \subseteq settled

\* What a fetch that met no error has to show: every bar of its window is settled or in a
\* gap that is left, and, but for the last bars of ranges and gaps, in what it got or in a
\* range or gap that is left.
FetchInv(p) ==
    LET fetch == fetches[p]
        settled == Stored \cup fetch.short
    IN fetch.clean =>
          /\ fetch.got \subseteq HalfOpen(Request)
          /\ fetch.pc = "gaps" \/ (fetch.pc = "idle" /\ fetch.n > 0) =>
                /\ Bars(Request) \subseteq settled \cup Covered(fetch.gaps)
                /\ HalfOpen(Request) \subseteq fetch.got \cup fetch.short \cup fetch.ends
                                               \cup Chopped(fetch.due) \cup Chopped(fetch.gaps)

\* Likewise for the gap being filled: its bars are settled, or in the frame, or in a chunk
\* that is left.
GapInv(p) ==
    LET fetch == fetches[p]
        fill  == fills[<<p, 0>>]
    IN fetch.clean =>
          /\ fill.frame \subseteq HalfOpen(Request)
          /\ fill.pc \in Working \cup {"done"} =>
                /\ Bars(Head(fetch.gaps)) \subseteq Stored \cup fetch.short \cup Covered(fill.chunks)
                /\ HalfOpen(Head(fetch.gaps)) \subseteq fill.frame \cup fetch.short \cup Chopped(fill.chunks)

\* The planner reads ranges that are stored, and then backfills the first of its gaps.
PlanInv(p) ==
    LET fetch == fetches[p]
        fill  == fills[<<p, 0>>]
    IN /\ fetch.pc # "idle" => fetch.n > 0
       /\ fetch.pc = "idle" => fetch.due = <<>> /\ (fetch.clean => fetch.gaps = <<>>)
       /\ Covered(fetch.due) \subseteq Stored
       /\ fill.pc # "none" => fetch.pc = "gaps" /\ fetch.due = <<>> /\ fetch.gaps # <<>>
       /\ fill.pc = "none" => fill.frame = {}
       /\ ChunkInv(p) /\ FetchInv(p) /\ GapInv(p)

SeamlessInv ==
    /\ StateInv /\ OncePerProcess /\ KnownIsStored /\ FlightIsFlown /\ LeaseInv
    /\ \A t \in Task : FillInv(t)
    /\ \A p \in Proc : PlanInv(p)

LEMMA TaskOf ==
    /\ \A t \in Task : t = <<Owner(t), t[2]>> /\ Owner(t) \in Proc /\ t[2] \in 0..MaxFetches /\ t # None
    /\ \A p \in Proc, k \in 0..MaxFetches : <<p, k>> \in Task /\ Owner(<<p, k>>) = p /\ <<p, k>>[2] = k
    /\ \A p \in Proc : <<p, 0>> \in Task /\ Owner(<<p, 0>>) = p /\ <<p, 0>>[2] = 0
BY SeamlessConstants DEF Task, Owner

LEMMA GridOf == Grid \subseteq Nat /\ Request \in Part
BY SeamlessConstants, RangeConstants DEF Grid, Time, Part

LEMMA PartBars ==
    ASSUME NEW r \in Part
    PROVE  /\ r \in Grid \X Grid /\ Bars(r) \subseteq Grid /\ HalfOpen(r) \subseteq Bars(r)
           /\ HalfOpen(r) \subseteq HalfOpen(Request)
<1>1. r \in Grid \X Grid /\ Request \in Grid \X Grid
  BY GridOf DEF Part
<1>5. /\ Bars(r) = {t \in Grid : r[1] <= t /\ t <= r[2]}
      /\ HalfOpen(r) = {t \in Grid : r[1] <= t /\ t < r[2]}
      /\ HalfOpen(Request) = {t \in Grid : Request[1] <= t /\ t < Request[2]}
  BY <1>1, BarsOnGrid
<1>6. /\ Request[1] \in Nat /\ Request[2] \in Nat /\ r[1] \in Nat /\ r[2] \in Nat
      /\ Request[1] <= r[1] /\ r[2] <= Request[2]
  BY <1>1, GridOf DEF Part
<1>2. Bars(r) \subseteq Grid /\ HalfOpen(r) \subseteq Bars(r)
  <2>1. ASSUME NEW t \in HalfOpen(r) PROVE t \in Bars(r)
    <3>1. t \in Grid /\ t \in Nat /\ r[1] <= t /\ t < r[2]
      BY <1>5, GridOf
    <3>2. t <= r[2]
      BY <3>1, <1>6
    <3>3. QED
      BY <3>1, <3>2, <1>5
  <2>2. QED
    BY <2>1, <1>5
<1>3. HalfOpen(r) \subseteq HalfOpen(Request)
  <2>1. ASSUME NEW t \in HalfOpen(r) PROVE t \in HalfOpen(Request)
    <3>1. t \in Grid /\ t \in Nat /\ r[1] <= t /\ t < r[2]
      BY <1>5, GridOf
    <3>2. Request[1] <= t /\ t < Request[2]
      BY <3>1, <1>6
    <3>3. QED
      BY <3>1, <3>2, <1>5
  <2>2. QED
    BY <2>1
<1>4. QED
  BY <1>1, <1>2, <1>3

\* The bars of a list are those of its first range and of the rest.
LEMMA CoveredHead ==
    ASSUME NEW s \in Seq(Part), s # <<>>
    PROVE  Covered(s) = Bars(Head(s)) \cup Covered(Tail(s)) /\ Tail(s) \in Seq(Part) /\ Head(s) \in Part
<1>1. Len(s) \in Nat \ {0} /\ DOMAIN s = 1..Len(s) /\ Head(s) = s[1]
  BY EmptySeq
<1>2. Tail(s) \in Seq(Part) /\ Len(Tail(s)) = Len(s) - 1 /\ \A i \in 1..Len(s) - 1 : Tail(s)[i] = s[i + 1]
  BY <1>1
<1>3. DOMAIN Tail(s) = 1..Len(s) - 1
  BY <1>2
<1>4. ASSUME NEW b \in Covered(s) PROVE b \in Bars(Head(s)) \cup Covered(Tail(s))
  <2>1. PICK k \in 1..Len(s) : b \in Bars(s[k])
    BY <1>1 DEF Covered
  <2>2. CASE k = 1
    BY <2>1, <2>2, <1>1
  <2>3. CASE k # 1
    <3>1. k - 1 \in 1..Len(s) - 1 /\ Tail(s)[k - 1] = s[k]
      BY <2>3, <1>1, <1>2
    <3>2. QED
      BY <2>1, <3>1, <1>3 DEF Covered
  <2>4. QED
    BY <2>2, <2>3
<1>5. ASSUME NEW b \in Covered(Tail(s)) PROVE b \in Covered(s)
  <2>1. PICK k \in 1..Len(s) - 1 : b \in Bars(Tail(s)[k])
    BY <1>3 DEF Covered
  <2>2. k + 1 \in 1..Len(s) /\ Tail(s)[k] = s[k + 1]
    BY <1>1, <1>2
  <2>3. QED
    BY <2>1, <2>2, <1>1 DEF Covered
<1>6. ASSUME NEW b \in Bars(Head(s)) PROVE b \in Covered(s)
  BY <1>1 DEF Covered
<1>7. QED
  BY <1>1, <1>2, <1>4, <1>5, <1>6

LEMMA CoveredEmpty == Covered(<<>>) = {}
BY DEF Covered

\* Read without their ends, too.
LEMMA ChoppedHead ==
    ASSUME NEW s \in Seq(Part), s # <<>>
    PROVE  Chopped(s) = HalfOpen(Head(s)) \cup Chopped(Tail(s))
<1>1. Len(s) \in Nat \ {0} /\ DOMAIN s = 1..Len(s) /\ Head(s) = s[1]
  BY EmptySeq
<1>2. Tail(s) \in Seq(Part) /\ Len(Tail(s)) = Len(s) - 1 /\ \A i \in 1..Len(s) - 1 : Tail(s)[i] = s[i + 1]
  BY <1>1
<1>3. DOMAIN Tail(s) = 1..Len(s) - 1
  BY <1>2
<1>4. ASSUME NEW b \in Chopped(s) PROVE b \in HalfOpen(Head(s)) \cup Chopped(Tail(s))
  <2>1. PICK k \in 1..Len(s) : b \in HalfOpen(s[k])
    BY <1>1 DEF Chopped
  <2>2. CASE k = 1
    BY <2>1, <2>2, <1>1
  <2>3. CASE k # 1
    <3>1. k - 1 \in 1..Len(s) - 1 /\ Tail(s)[k - 1] = s[k]
      BY <2>3, <1>1, <1>2
    <3>2. QED
      BY <2>1, <3>1, <1>3 DEF Chopped
  <2>4. QED
    BY <2>2, <2>3
<1>5. ASSUME NEW b \in Chopped(Tail(s)) PROVE b \in Chopped(s)
  <2>1. PICK k \in 1..Len(s) - 1 : b \in HalfOpen(Tail(s)[k])
    BY <1>3 DEF Chopped
  <2>2. k + 1 \in 1..Len(s) /\ Tail(s)[k] = s[k + 1]
    BY <1>1, <1>2
  <2>3. QED
    BY <2>1, <2>2, <1>1 DEF Chopped
<1>6. ASSUME NEW b \in HalfOpen(Head(s)) PROVE b \in Chopped(s)
  BY <1>1 DEF Chopped
<1>7. QED
  BY <1>4, <1>5, <1>6

LEMMA ChoppedEmpty == Chopped(<<>>) = {}
BY DEF Chopped

\* All but its last bars are in a list that is read without them.
LEMMA ChoppedEnds ==
    ASSUME NEW s \in Seq(Part)
    PROVE  LastBars(s) \in SUBSET Grid /\ Covered(s) \subseteq Chopped(s) \cup LastBars(s)
<1>1. \A k \in DOMAIN s : s[k] \in Grid \X Grid
  BY DEF Part
<1>2. LastBars(s) \in SUBSET Grid
  BY <1>1 DEF LastBars
<1>3. ASSUME NEW b \in Covered(s) PROVE b \in Chopped(s) \cup LastBars(s)
  <2>1. PICK k \in DOMAIN s : b \in Bars(s[k])
    BY DEF Covered
  <2>2. PICK r \in Grid \X Grid : r = s[k]
    BY <1>1
  <2>3. b \in Grid /\ b <= r[2] /\ r[1] <= b /\ HalfOpen(r) = {x \in Grid : r[1] <= x /\ x < r[2]}
    BY <2>1, <2>2, BarsOnGrid
  <2>4. b \in Nat /\ r[2] \in Nat
    BY <2>2, <2>3, GridOf
  <2>5. CASE b = r[2]
    BY <2>2, <2>5 DEF LastBars
  <2>6. CASE b < r[2]
    BY <2>2, <2>3, <2>6 DEF Chopped
  <2>7. QED
    BY <2>3, <2>4, <2>5, <2>6
<1>4. QED
  BY <1>2, <1>3

LEMMA StoredSame == ASSUME UNCHANGED <<rows, found>> PROVE Stored' = Stored
BY DEF Stored

\* What is inserted is stored, and nothing is taken away.
LEMMA StoredGrows ==
    ASSUME StateInv, NEW t \in Task, NEW bars \in SUBSET Grid, Insert(t, bars), UNCHANGED found
    PROVE  /\ rows' \in [Grid -> [Proc -> Nat]]
           /\ Stored \subseteq Stored' /\ bars \subseteq Stored'
           /\ \A b \in Grid, p \in Proc :
                 rows'[b][p] = IF p = Owner(t) /\ b \in bars THEN rows[b][p] + 1 ELSE rows[b][p]
<1>1. Owner(t) \in Proc /\ rows \in [Grid -> [Proc -> Nat]]
  BY TaskOf DEF StateInv
<1>2. rows' \in [Grid -> [Proc -> Nat]]
  BY <1>1 DEF Insert
<1>3. \A b \in Grid, p \in Proc :
          rows'[b][p] = IF p = Owner(t) /\ b \in bars THEN rows[b][p] + 1 ELSE rows[b][p]
  BY <1>1 DEF Insert
<1>4. \A b \in Grid, p \in Proc : rows[b][p] \in Nat
  BY <1>1
<1>5. ASSUME NEW b \in Grid, NEW p \in Proc, rows[b][p] > 0 PROVE rows'[b][p] > 0
  BY <1>3, <1>4, <1>5
<1>6. ASSUME NEW b \in bars PROVE rows'[b][Owner(t)] > 0
  BY <1>1, <1>3, <1>4
<1>7. Stored \subseteq Stored'
  BY <1>5 DEF Stored
<1>8. bars \subseteq Stored'
  BY <1>1, <1>6 DEF Stored
<1>9. QED
  BY <1>2, <1>3, <1>7, <1>8

\* A task nobody touches keeps what it relies on.
LEMMA FillKept ==
    ASSUME NEW t \in Task, FillInv(t), fills'[t] = fills[t], Stored \subseteq Stored',
           fills[t].pc \in {"ask", "write", "read"} =>
               /\ locks'[Owner(t)] = locks[Owner(t)]
               /\ \A b \in fills[t].miss \cup fills[t].new : rows'[b][Owner(t)] = rows[b][Owner(t)]
    PROVE  FillInv(t)'
BY DEF FillInv, Owner

LEMMA PlanKept ==
    ASSUME NEW p \in Proc, PlanInv(p), fetches'[p] = fetches[p],
           fills'[<<p, 0>>] = fills[<<p, 0>>], Stored \subseteq Stored'
    PROVE  PlanInv(p)'
<1>1. ChunkInv(p)'
  BY DEF PlanInv, ChunkInv
<1>2. FetchInv(p)'
  BY DEF PlanInv, FetchInv
<1>3. GapInv(p)'
  BY DEF PlanInv, GapInv
<1>4. QED
  BY <1>1, <1>2, <1>3 DEF PlanInv

LEMMA NoFillTyped == NoFill \in FillState
<1>1. <<>> \in Seq(Part)
  OBVIOUS
<1>2. QED
  BY <1>1 DEF NoFill, FillState, Working

LEMMA FillingSound ==
    ASSUME NEW r \in Part
    PROVE  /\ Filling(r) \in FillState /\ Filling(r).pc = "next" /\ Filling(r).frame = {}
           /\ ~Filling(r).reads /\ Filling(r).new = {} /\ Filling(r).chunks # <<>>
           /\ Bars(r) \subseteq Covered(Filling(r).chunks)
           /\ HalfOpen(r) \subseteq Chopped(Filling(r).chunks)
<1>1. Chunks(r, ChunkBars) \in Seq(Part) /\ Chunks(r, ChunkBars) # <<>>
          /\ Bars(r) \subseteq Covered(Chunks(r, ChunkBars))
  BY ChunksSound, SeamlessConstants
<1>2. HalfOpen(r) \subseteq Chopped(Chunks(r, ChunkBars))
  <2>1. r \in Spans /\ ChunkBars \in Nat
    BY SeamlessConstants DEF Part, Spans
  <2>2. \A b : b \in HalfOpen(r) <=>
            \E k \in DOMAIN Chunks(r, ChunkBars) : b \in HalfOpen(Chunks(r, ChunkBars)[k])
    BY <2>1, ChunksTileExact
  <2>3. QED
    BY <2>2 DEF Chopped
<1>3. NoFill \in FillState /\ NoFill.frame = {} /\ ~NoFill.reads /\ NoFill.new = {}
  BY NoFillTyped DEF NoFill
<1>4. QED
  BY <1>1, <1>2, <1>3 DEF Filling, FillState, Working

LEMMA NoFetchTyped == NoFetch \in FetchState
<1>1. <<>> \in Seq(Part) /\ 0 \in 0..MaxFetches
  BY SeamlessConstants
<1>2. QED
  BY <1>1 DEF NoFetch, FetchState

LEMMA SeamlessInitial == SeamlessInit => SeamlessInv
<1> SUFFICES ASSUME SeamlessInit PROVE SeamlessInv
  OBVIOUS
<1>1. StateInv
  <2>1. NoFill \in FillState /\ NoFetch \in FetchState
    BY NoFillTyped, NoFetchTyped
  <2>2. rows \in [Grid -> [Proc -> Nat]] /\ mishaps \in [lease : Nat, other : Nat]
    BY DEF SeamlessInit
  <2>3. found \in SUBSET Grid
    BY SeamlessConstants DEF SeamlessInit
  <2>4. QED
    BY <2>1, <2>2, <2>3 DEF SeamlessInit, StateInv
<1>2. OncePerProcess /\ KnownIsStored /\ FlightIsFlown /\ LeaseInv
  BY TaskOf DEF SeamlessInit, OncePerProcess, KnownIsStored, FlightIsFlown, LeaseInv, NoFill
<1>3. ASSUME NEW t \in Task PROVE FillInv(t)
  BY DEF SeamlessInit, FillInv, NoFill, Working
<1>4. ASSUME NEW p \in Proc PROVE PlanInv(p)
  <2>1. fills[<<p, 0>>] = NoFill /\ fetches[p] = NoFetch
    BY TaskOf DEF SeamlessInit
  <2>2. ChunkInv(p)
    BY <2>1 DEF ChunkInv, NoFill, Working
  <2>3. FetchInv(p) /\ GapInv(p)
    BY <2>1 DEF FetchInv, GapInv, NoFill, NoFetch, Working
  <2>4. QED
    BY <2>1, <2>2, <2>3, CoveredEmpty DEF PlanInv, NoFill, NoFetch
<1>5. QED
  BY <1>1, <1>2, <1>3, <1>4 DEF SeamlessInv

\* Mishaps are counted, and a step that is none counts none.
LEMMA MishapCounts ==
    ASSUME StateInv, NEW kind \in {"lease", "other"}, Mishap(kind)
    PROVE  /\ mishaps' \in [lease : Nat, other : Nat]
           /\ kind = "lease" => mishaps'.lease # 0
           /\ kind = "other" => mishaps'.lease = mishaps.lease
BY DEF Mishap, StateInv

LEMMA FetchMoves ==
    ASSUME NEW fetch \in FetchState, NEW pc \in {"idle", "claim", "plan", "gaps"}
    PROVE  [fetch EXCEPT !.pc = pc] \in FetchState
BY DEF FetchState

\* A fetch no gap of which is being filled.
LEMMA PlanAlone ==
    ASSUME NEW p \in Proc, fills'[<<p, 0>>].pc = "none", fills'[<<p, 0>>].frame = {},
           fetches'[p].pc # "idle" => fetches'[p].n > 0,
           fetches'[p].pc = "idle" =>
               fetches'[p].due = <<>> /\ (fetches'[p].clean => fetches'[p].gaps = <<>>),
           Covered(fetches'[p].due) \subseteq Stored', FetchInv(p)'
    PROVE  PlanInv(p)'
<1>1. ChunkInv(p)'
  BY DEF ChunkInv, Working
<1>2. GapInv(p)'
  BY DEF GapInv, Working
<1>3. QED
  BY <1>1, <1>2 DEF PlanInv

\* A step of a fetch alone, with no claim under way.
LEMMA FetchGoesOn ==
    ASSUME SeamlessInv, NEW p \in Proc, NEW after \in FetchState,
           fetches' = [fetches EXCEPT ![p] = after], fetches[p].pc # "claim",
           fills[<<p, 0>>].pc = "none",
           UNCHANGED <<fills, flights, lease, rows, found, locks>>,
           known' \in [Proc -> {None} \cup SUBSET Grid], KnownIsStored',
           mishaps' \in [lease : Nat, other : Nat], mishaps'.lease = mishaps.lease,
           after.pc # "idle" => after.n > 0,
           after.pc = "idle" => after.due = <<>> /\ (after.clean => after.gaps = <<>>),
           Covered(after.due) \subseteq Stored, FetchInv(p)'
    PROVE  SeamlessInv'
<1> USE DEF SeamlessInv
<1>1. StateInv /\ Stored' = Stored
  BY StoredSame
<1>2. fetches'[p] = after /\ \A q \in Proc : q # p => fetches'[q] = fetches[q]
  BY <1>1 DEF StateInv
<1>3. StateInv'
  <2>1. fetches' \in [Proc -> FetchState]
    BY <1>1 DEF StateInv
  <2>2. QED
    BY <1>1, <2>1 DEF StateInv
<1>4. OncePerProcess' /\ LeaseInv'
  BY DEF OncePerProcess, LeaseInv
<1>5. FlightIsFlown'
  BY <1>2 DEF FlightIsFlown
<1>6. ASSUME NEW t \in Task PROVE FillInv(t)'
  BY <1>1, FillKept
<1>7. ASSUME NEW q \in Proc PROVE PlanInv(q)'
  <2>1. CASE q # p
    BY <2>1, <1>1, <1>2, PlanKept
  <2>2. CASE q = p
    <3>1. fills[<<p, 0>>].frame = {}
      BY DEF PlanInv
    <3>2. PlanInv(p)'
      BY <3>1, <1>1, <1>2, PlanAlone
    <3>3. QED
      BY <2>2, <3>2
  <2>3. QED
    BY <2>1, <2>2
<1>8. QED
  BY <1>3, <1>4, <1>5, <1>6, <1>7

LEMMA StartFetchStep ==
    ASSUME SeamlessInv, NEW p \in Proc, StartFetch(p)
    PROVE  SeamlessInv'
<1> USE DEF SeamlessInv
<1>0. StateInv /\ Stored' = Stored /\ UNCHANGED <<fills, lease, rows, found, known, locks, mishaps>>
  BY StoredSame DEF StartFetch
<1> DEFINE k == fetches[p].n + 1
<1>1. k \in 1..MaxFetches /\ fetches[p].pc = "idle"
  BY SeamlessConstants DEF StartFetch, StateInv, FetchState
<1>2. PICK after : after = [NoFetch EXCEPT !.pc = IF flights[p] = None THEN "claim" ELSE "plan", !.n = k]
  OBVIOUS
<1>3. /\ flights' = [flights EXCEPT ![p] = IF @ = None THEN k ELSE @]
      /\ fetches' = [fetches EXCEPT ![p] = after]
  BY <1>2 DEF StartFetch
<1> HIDE DEF k
<1>4. /\ after \in FetchState /\ after.pc = (IF flights[p] = None THEN "claim" ELSE "plan")
      /\ after.n = k /\ after.due = <<>> /\ after.got = {}
  <2>1. k \in 0..MaxFetches /\ NoFetch \in FetchState /\ NoFetch.due = <<>> /\ NoFetch.got = {}
    BY <1>1, NoFetchTyped, SeamlessConstants DEF NoFetch
  <2>2. QED
    BY <1>2, <2>1 DEF FetchState
<1>5. fetches'[p] = after /\ \A q \in Proc : q # p => fetches'[q] = fetches[q]
  BY <1>0, <1>3 DEF StateInv
<1>6. StateInv'
  <2>1. fetches' \in [Proc -> FetchState]
    BY <1>0, <1>3, <1>4 DEF StateInv
  <2>2. flights' \in [Proc -> {None} \cup 1..MaxFetches]
    BY <1>0, <1>1, <1>3 DEF StateInv
  <2>3. QED
    BY <1>0, <2>1, <2>2 DEF StateInv
<1>7. OncePerProcess' /\ KnownIsStored' /\ LeaseInv'
  BY <1>0 DEF OncePerProcess, KnownIsStored, LeaseInv
<1>8. FlightIsFlown'
  <2>1. ASSUME NEW q \in Proc, flights'[q] # None
        PROVE  \/ fetches'[q].pc = "claim" /\ fetches'[q].n = flights'[q]
               \/ fills'[<<q, flights'[q]>>].pc # "none"
    <3>1. CASE q = p /\ flights[p] = None
      BY <3>1, <1>0, <1>3, <1>4, <1>5 DEF StateInv
    <3>2. CASE q = p /\ flights[p] # None
      BY <3>2, <1>0, <1>1, <1>3 DEF StateInv, FlightIsFlown
    <3>3. CASE q # p
      BY <2>1, <3>3, <1>0, <1>3, <1>5 DEF StateInv, FlightIsFlown
    <3>4. QED
      BY <3>1, <3>2, <3>3
  <2>2. QED
    BY <2>1 DEF FlightIsFlown
<1>9. ASSUME NEW t \in Task PROVE FillInv(t)'
  BY <1>0, FillKept
<1>10. ASSUME NEW q \in Proc PROVE PlanInv(q)'
  <2>1. CASE q # p
    BY <2>1, <1>0, <1>5, PlanKept
  <2>2. CASE q = p
    <3>1. fills'[<<p, 0>>].pc = "none" /\ fills'[<<p, 0>>].frame = {}
      BY <1>0, <1>1 DEF PlanInv
    <3>2. FetchInv(p)'
      BY <1>4, <1>5 DEF FetchInv
    <3>3. fetches'[p].n > 0
      BY <1>1, <1>4, <1>5
    <3>4. fetches'[p].pc # "idle" /\ Covered(fetches'[p].due) \subseteq Stored'
      BY <1>4, <1>5, CoveredEmpty
    <3>5. PlanInv(p)'
      BY <3>1, <3>2, <3>3, <3>4, PlanAlone
    <3>6. QED
      BY <2>2, <3>5
  <2>3. QED
    BY <2>1, <2>2
<1>11. QED
  BY <1>6, <1>7, <1>8, <1>9, <1>10

\* A claim that lets a backfill of its own begin.
LEMMA BackfillBegins ==
    ASSUME SeamlessInv, NEW p \in Proc, fetches[p].pc = "claim",
           fills' = [fills EXCEPT ![<<p, fetches[p].n>>] = Filling(Request)],
           fetches' = [fetches EXCEPT ![p].pc = "plan"],
           UNCHANGED <<flights, rows, found, known, locks>>,
           lease' \in {None} \cup Task, mishaps' \in [lease : Nat, other : Nat], LeaseInv'
    PROVE  SeamlessInv'
<1> USE DEF SeamlessInv
<1>0. StateInv /\ Stored' = Stored
  BY StoredSame
<1>1. PICK u \in Task : u = <<p, fetches[p].n>>
  BY <1>0, TaskOf DEF StateInv, FetchState
<1>2. u # <<p, 0>>
  <2>1. PlanInv(p) /\ fetches[p].n \in 0..MaxFetches
    BY <1>0 DEF StateInv, FetchState
  <2>2. fetches[p].n > 0
    BY <2>1 DEF PlanInv
  <2>3. QED
    BY <1>1, <2>1, <2>2
<1>3. PICK fill \in FillState : /\ fill = Filling(Request) /\ fill.pc = "next" /\ fill.chunks # <<>>
                                /\ fill.new = {}
  BY FillingSound, GridOf
<1>5. /\ fills'[u] = fill /\ \A t \in Task : t # u => fills'[t] = fills[t]
      /\ \A q \in Proc : q # p => fetches'[q] = fetches[q]
      /\ fetches'[p] = [fetches[p] EXCEPT !.pc = "plan"]
  BY <1>0, <1>1, <1>3 DEF StateInv
<1>6. StateInv'
  <2>1. fills' \in [Task -> FillState]
    BY <1>0, <1>1, <1>3 DEF StateInv
  <2>2. fetches'[p] \in FetchState
    <3>1. PICK fetch \in FetchState : fetch = fetches[p]
      BY <1>0 DEF StateInv
    <3>2. fetches'[p] = [fetch EXCEPT !.pc = "plan"]
      BY <3>1, <1>5
    <3>3. QED
      BY <3>2, FetchMoves
  <2>3. fetches' \in [Proc -> FetchState]
    BY <1>0, <1>5, <2>2 DEF StateInv
  <2>4. QED
    BY <1>0, <2>1, <2>3 DEF StateInv
<1>7. OncePerProcess' /\ KnownIsStored'
  BY <1>0 DEF OncePerProcess, KnownIsStored
<1>9. FlightIsFlown'
  <2>1. ASSUME NEW q \in Proc, flights[q] # None
        PROVE  \/ fetches'[q].pc = "claim" /\ fetches'[q].n = flights[q]
               \/ fills'[<<q, flights[q]>>].pc # "none"
    <3>1. <<q, flights[q]>> \in Task
      BY <1>0, <2>1, TaskOf, SeamlessConstants DEF StateInv
    <3>2. CASE <<q, flights[q]>> = u
      BY <3>2, <1>3, <1>5
    <3>3. CASE <<q, flights[q]>> # u
      <4>1. fills'[<<q, flights[q]>>] = fills[<<q, flights[q]>>]
        BY <3>1, <3>3, <1>5
      <4>2. \/ fetches[q].pc = "claim" /\ fetches[q].n = flights[q]
            \/ fills[<<q, flights[q]>>].pc # "none"
        BY <2>1 DEF FlightIsFlown
      <4>3. CASE q = p
        BY <4>1, <4>2, <4>3, <3>3, <1>1
      <4>4. CASE q # p
        BY <4>1, <4>2, <4>4, <1>5
      <4>5. QED
        BY <4>3, <4>4
    <3>4. QED
      BY <3>2, <3>3
  <2>2. QED
    BY <2>1, <1>0 DEF FlightIsFlown
<1>10. ASSUME NEW t \in Task PROVE FillInv(t)'
  <2>1. CASE t = u
    BY <2>1, <1>3, <1>5 DEF FillInv
  <2>2. CASE t # u
    BY <2>2, <1>0, <1>5, FillKept
  <2>3. QED
    BY <2>1, <2>2
<1>11. ASSUME NEW q \in Proc PROVE PlanInv(q)'
  <2>0. fills'[<<q, 0>>] = fills[<<q, 0>>]
    BY <1>1, <1>2, <1>5, TaskOf
  <2>1. CASE q # p
    BY <2>0, <2>1, <1>0, <1>5, PlanKept
  <2>2. CASE q = p
    <3>1. PlanInv(p) /\ fetches[p] \in FetchState
      BY <1>0 DEF StateInv
    <3>2. fills[<<p, 0>>].pc = "none" /\ fills[<<p, 0>>].frame = {} /\ fetches[p].n > 0
      BY <3>1 DEF PlanInv
    <3>3. /\ fetches'[p].pc = "plan" /\ fetches'[p].n = fetches[p].n /\ fetches'[p].due = fetches[p].due
          /\ fetches'[p].got = fetches[p].got /\ fetches'[p].clean = fetches[p].clean
      BY <3>1, <1>5 DEF FetchState
    <3>4. FetchInv(p)'
      BY <3>1, <3>3 DEF PlanInv, FetchInv
    <3>5. Covered(fetches'[p].due) \subseteq Stored'
      BY <3>1, <3>3, <1>0 DEF PlanInv
    <3>6. PlanInv(p)'
      BY <2>0, <2>2, <3>2, <3>3, <3>4, <3>5, PlanAlone
    <3>7. QED
      BY <2>2, <3>6
  <2>3. QED
    BY <2>1, <2>2
<1>12. QED
  BY <1>6, <1>7, <1>9, <1>10, <1>11

LEMMA LeaseGrantedStep ==
    ASSUME SeamlessInv, NEW p \in Proc, LeaseGranted(p)
    PROVE  SeamlessInv'
<1>1. StateInv /\ LeaseInv /\ PlanInv(p) /\ UNCHANGED <<flights, rows, found, known, locks, mishaps>>
  BY DEF SeamlessInv, LeaseGranted
<1>2. /\ fetches[p].pc = "claim" /\ lease = None /\ lease' = <<p, fetches[p].n>>
      /\ fills' = [fills EXCEPT ![<<p, fetches[p].n>>] = Filling(Request)]
      /\ fetches' = [fetches EXCEPT ![p].pc = "plan"]
  BY DEF LeaseGranted, Free
<1>3. lease' \in Task
  BY <1>1, <1>2, TaskOf DEF StateInv, FetchState
<1>4. LeaseInv'
  <2>1. \A t \in Task : t # lease' => fills'[t] = fills[t] /\ t # lease
    BY <1>1, <1>2, TaskOf DEF StateInv
  <2>2. QED
    BY <1>1, <2>1 DEF LeaseInv
<1>5. lease' \in {None} \cup Task /\ mishaps' \in [lease : Nat, other : Nat]
  BY <1>1, <1>3 DEF StateInv
<1>6. QED
  BY <1>1, <1>2, <1>4, <1>5, BackfillBegins

LEMMA ClaimRaisesStep ==
    ASSUME SeamlessInv, NEW p \in Proc, ClaimRaises(p)
    PROVE  SeamlessInv'
<1>1. StateInv /\ UNCHANGED <<flights, rows, found, known, locks>>
  BY DEF SeamlessInv, ClaimRaises
<1>2. /\ fetches[p].pc = "claim"
      /\ fills' = [fills EXCEPT ![<<p, fetches[p].n>>] = Filling(Request)]
      /\ fetches' = [fetches EXCEPT ![p].pc = "plan"]
      /\ lease' \in {lease, <<p, 0>>}
  BY DEF ClaimRaises
<1>3. mishaps' \in [lease : Nat, other : Nat] /\ mishaps'.lease # 0
  BY <1>1, MishapCounts DEF ClaimRaises
<1>4. lease' \in {None} \cup Task
  BY <1>1, <1>2, TaskOf DEF StateInv
<1>5. LeaseInv'
  BY <1>3 DEF LeaseInv
<1>6. QED
  BY <1>1, <1>2, <1>3, <1>4, <1>5, BackfillBegins

\* A fetch whose claim was refused goes on without a flight.
LEMMA LeaseRefusedStep ==
    ASSUME SeamlessInv, NEW p \in Proc, LeaseRefused(p)
    PROVE  SeamlessInv'
<1> USE DEF SeamlessInv
<1>0. StateInv /\ Stored' = Stored /\ UNCHANGED <<fills, rows, found, known, locks>>
  BY StoredSame DEF LeaseRefused
<1>1. fetches' = [fetches EXCEPT ![p].pc = "plan"] /\ fetches[p].pc = "claim"
          /\ flights' = [flights EXCEPT ![p] = None]
  BY DEF LeaseRefused
<1>2. /\ mishaps' \in [lease : Nat, other : Nat] /\ mishaps'.lease = mishaps.lease
      /\ lease' = lease \/ (lease = None /\ lease' = <<p, fetches[p].n>>)
  <2>1. CASE UNCHANGED <<lease, mishaps>>
    BY <2>1, <1>0 DEF StateInv
  <2>2. CASE Mishap("other") /\ lease' \in {lease} \cup {<<p, fetches[p].n>> : x \in {y \in {lease} : Free(y)}}
    BY <2>2, <1>0, MishapCounts DEF Free
  <2>3. QED
    BY <2>1, <2>2 DEF LeaseRefused
<1>3. <<p, fetches[p].n>> \in Task
  BY <1>0, TaskOf DEF StateInv, FetchState
<1>4. StateInv'
  <2>1. fetches' \in [Proc -> FetchState] /\ flights' \in [Proc -> {None} \cup 1..MaxFetches]
    BY <1>0, <1>1, FetchMoves DEF StateInv
  <2>2. QED
    BY <1>0, <1>2, <1>3, <2>1 DEF StateInv
<1>5. OncePerProcess' /\ KnownIsStored'
  BY <1>0 DEF OncePerProcess, KnownIsStored
<1>6. LeaseInv'
  BY <1>0, <1>2, TaskOf DEF LeaseInv
<1>7. FlightIsFlown'
  BY <1>0, <1>1 DEF StateInv, FlightIsFlown
<1>8. ASSUME NEW t \in Task PROVE FillInv(t)'
  BY <1>0, FillKept
<1>9. ASSUME NEW q \in Proc PROVE PlanInv(q)'
  <2>1. CASE q # p
    BY <2>1, <1>0, <1>1, PlanKept DEF StateInv
  <2>2. CASE q = p
    <3>1. PlanInv(p) /\ fetches[p] \in FetchState /\ fetches'[p] = [fetches[p] EXCEPT !.pc = "plan"]
      BY <1>0, <1>1 DEF StateInv
    <3>2. fills'[<<p, 0>>].pc = "none" /\ fills'[<<p, 0>>].frame = {} /\ fetches[p].n > 0
      BY <3>1, <1>0, <1>1 DEF PlanInv
    <3>3. /\ fetches'[p].pc = "plan" /\ fetches'[p].n = fetches[p].n /\ fetches'[p].due = fetches[p].due
          /\ fetches'[p].got = fetches[p].got /\ fetches'[p].clean = fetches[p].clean
      BY <3>1 DEF FetchState
    <3>4. FetchInv(p)'
      BY <3>1, <3>3 DEF PlanInv, FetchInv
    <3>5. Covered(fetches'[p].due) \subseteq Stored'
      BY <3>1, <3>3, <1>0 DEF PlanInv
    <3>6. PlanInv(p)'
      BY <3>2, <3>3, <3>4, <3>5, PlanAlone
    <3>7. QED
      BY <2>2, <3>6
  <2>3. QED
    BY <2>1, <2>2
<1>10. QED
  BY <1>4, <1>5, <1>6, <1>7, <1>8, <1>9

\* Flights and leases that run out.
LEMMA ExpiryStep ==
    ASSUME SeamlessInv, (\E p \in Proc : FlightExpires(p)) \/ LeaseExpires
    PROVE  SeamlessInv'
<1> USE DEF SeamlessInv
<1>0. StateInv /\ Stored' = Stored /\ UNCHANGED <<fetches, fills, rows, found, known, locks>>
  BY StoredSame DEF FlightExpires, LeaseExpires
<1>1. OncePerProcess' /\ KnownIsStored'
  BY <1>0 DEF OncePerProcess, KnownIsStored
<1>2. ASSUME NEW t \in Task PROVE FillInv(t)'
  BY <1>0, FillKept
<1>3. ASSUME NEW q \in Proc PROVE PlanInv(q)'
  BY <1>0, PlanKept
<1>4. ASSUME NEW p \in Proc, FlightExpires(p)
      PROVE  StateInv' /\ LeaseInv' /\ FlightIsFlown'
  <2>1. mishaps' \in [lease : Nat, other : Nat] /\ mishaps'.lease = mishaps.lease /\ lease' = lease
    BY <1>0, <1>4, MishapCounts DEF FlightExpires
  <2>2. flights' = [flights EXCEPT ![p] = None]
    BY <1>4 DEF FlightExpires
  <2>3. StateInv'
    BY <1>0, <2>1, <2>2 DEF StateInv
  <2>4. LeaseInv' /\ FlightIsFlown'
    BY <1>0, <2>1, <2>2 DEF StateInv, LeaseInv, FlightIsFlown
  <2>5. QED
    BY <2>3, <2>4
<1>5. ASSUME LeaseExpires
      PROVE  StateInv' /\ LeaseInv' /\ FlightIsFlown'
  <2>1. mishaps' \in [lease : Nat, other : Nat] /\ mishaps'.lease # 0 /\ lease' = None /\ UNCHANGED flights
    BY <1>0, <1>5, MishapCounts DEF LeaseExpires
  <2>2. QED
    BY <1>0, <2>1 DEF StateInv, LeaseInv, FlightIsFlown
<1>6. QED
  BY <1>1, <1>2, <1>3, <1>4, <1>5

LEMMA BackfillEndsStep ==
    ASSUME SeamlessInv, NEW t \in Task, BackfillEnds(t)
    PROVE  SeamlessInv'
<1> USE DEF SeamlessInv
<1>0. StateInv /\ Stored' = Stored /\ UNCHANGED <<fetches, rows, found, known, locks>>
  BY StoredSame DEF BackfillEnds
<1>1. t[2] > 0 /\ fills[t].pc \in {"done", "failed"} /\ t # None
  BY TaskOf DEF BackfillEnds
<1>2. /\ mishaps' \in [lease : Nat, other : Nat] /\ mishaps'.lease = mishaps.lease
      /\ lease' = lease \/ (lease = t /\ lease' = None)
  <2>1. CASE lease' = (IF lease = t THEN None ELSE lease) /\ UNCHANGED mishaps
    BY <2>1, <1>0 DEF StateInv
  <2>2. CASE Mishap("other") /\ UNCHANGED lease
    BY <2>2, <1>0, MishapCounts
  <2>3. QED
    BY <2>1, <2>2 DEF BackfillEnds
<1>3. PICK p \in Proc, k \in 0..MaxFetches : t = <<p, k>> /\ Owner(t) = p /\ t[2] = k
  BY TaskOf
<1>4. flights' = [flights EXCEPT ![p] = IF @ = k THEN None ELSE @]
  BY <1>3 DEF BackfillEnds, Lands
<1>5. fills'[t] = NoFill /\ \A u \in Task : u # t => fills'[u] = fills[u]
  BY <1>0 DEF BackfillEnds, StateInv
<1>6. fills'[t].pc = "none" /\ fills'[t].new = {} /\ fills'[t] \in FillState
  BY <1>5, NoFillTyped DEF NoFill
<1>7. StateInv'
  <2>1. fills' \in [Task -> FillState]
    BY <1>0, <1>5, <1>6 DEF StateInv, BackfillEnds
  <2>2. flights' \in [Proc -> {None} \cup 1..MaxFetches]
    BY <1>0, <1>4 DEF StateInv
  <2>3. QED
    BY <1>0, <1>2, <2>1, <2>2 DEF StateInv
<1>8. OncePerProcess' /\ KnownIsStored'
  BY <1>0 DEF OncePerProcess, KnownIsStored
<1>9. LeaseInv'
  BY <1>0, <1>1, <1>2, <1>5, <1>6 DEF LeaseInv
<1>10. FlightIsFlown'
  <2>1. ASSUME NEW q \in Proc, flights'[q] # None
        PROVE  \/ fetches[q].pc = "claim" /\ fetches[q].n = flights'[q]
               \/ fills'[<<q, flights'[q]>>].pc # "none"
    <3>1. flights'[q] = flights[q] /\ <<q, flights[q]>> # t
      BY <2>1, <1>0, <1>3, <1>4 DEF StateInv
    <3>2. <<q, flights[q]>> \in Task
      BY <1>0, <2>1, <3>1, TaskOf, SeamlessConstants DEF StateInv
    <3>3. QED
      BY <2>1, <3>1, <3>2, <1>5 DEF FlightIsFlown
  <2>2. QED
    BY <2>1, <1>0 DEF FlightIsFlown
<1>11. ASSUME NEW u \in Task PROVE FillInv(u)'
  <2>1. CASE u = t
    BY <2>1, <1>6 DEF FillInv, Working
  <2>2. CASE u # t
    BY <2>2, <1>0, <1>5, FillKept
  <2>3. QED
    BY <2>1, <2>2
<1>12. ASSUME NEW q \in Proc PROVE PlanInv(q)'
  <2>1. fills'[<<q, 0>>] = fills[<<q, 0>>]
    BY <1>1, <1>5, TaskOf
  <2>2. QED
    BY <2>1, <1>0, PlanKept
<1>13. QED
  BY <1>7, <1>8, <1>9, <1>10, <1>11, <1>12

\* The window is split into what is available, which is stored, and what is left.
LEMMA WindowSplit ==
    ASSUME NEW table \in SUBSET Grid, NEW available, NEW left,
           available = IntersectWith(Request, RunsOf(SetToSeq(table))),
           left = (IF available = <<>> THEN <<Request>> ELSE SubtractFrom(Request, available))
    PROVE  /\ available \in Seq(Part) /\ left \in Seq(Part) /\ Covered(available) \subseteq table
           /\ Bars(Request) \subseteq table \cup Covered(left)
           /\ HalfOpen(Request) \subseteq LastBars(available) \cup LastBars(left)
                                          \cup Chopped(available) \cup Chopped(left)
<1>1. PICK rest : rest = SubtractFrom(Request, available)
  OBVIOUS
<1>2. available \in Seq(Part) /\ rest \in Seq(Part) /\ Bars(Request) \subseteq table \cup Covered(rest)
  BY <1>1, SplitSound
<1>3. Covered(available) \subseteq Bars(Request) /\ Covered(rest) = Bars(Request) \ Covered(available)
  <2>1. PICK runs \in Seq(Within(0, Horizon)) : runs = RunsOf(SetToSeq(table))
    BY TableExact
  <2>2. Request \in Spans
    BY SeamlessConstants, RangeConstants DEF Spans, Grid, Time
  <2>3. available = IntersectWith(Request, runs)
    BY <2>1
  <2>4. QED
    BY <1>1, <2>2, <2>3, SplitExact
<1>4. Covered(available) \subseteq table
  BY <1>2, <1>3
<1>5. left \in Seq(Part) /\ Bars(Request) \subseteq table \cup Covered(left)
          /\ Bars(Request) \subseteq Covered(available) \cup Covered(left)
  <2>1. <<Request>> \in Seq(Part) /\ Bars(Request) \subseteq Covered(<<Request>>)
    BY GridOf DEF Covered
  <2>2. CASE available = <<>>
    BY <2>1, <2>2
  <2>3. CASE available # <<>>
    BY <2>3, <1>1, <1>2, <1>3
  <2>4. QED
    BY <2>2, <2>3
<1>6. /\ Covered(available) \subseteq Chopped(available) \cup LastBars(available)
      /\ Covered(left) \subseteq Chopped(left) \cup LastBars(left)
  BY <1>2, <1>5, ChoppedEnds
<1>7. HalfOpen(Request) \subseteq Bars(Request)
  BY GridOf, PartBars
<1>8. QED
  BY <1>2, <1>4, <1>5, <1>6, <1>7

LEMMA WindowWhole ==
    /\ <<>> \in Seq(Part) /\ <<Request>> \in Seq(Part) /\ Covered(<<>>) = {}
    /\ Bars(Request) \subseteq Covered(<<Request>>) /\ HalfOpen(Request) \subseteq Chopped(<<Request>>)
<1>1. <<>> \in Seq(Part) /\ <<Request>> \in Seq(Part)
  BY GridOf
<1>2. <<Request>>[1] = Request /\ 1 \in DOMAIN <<Request>>
  OBVIOUS
<1>3. QED
  BY <1>1, <1>2, CoveredEmpty DEF Covered, Chopped

SplitInto(fetch, due, gaps) ==
    [fetch EXCEPT !.pc = "gaps", !.due = due, !.gaps = gaps, !.ends = LastBars(due) \cup LastBars(gaps)]

\* However the window was split, the fetch goes on with ranges that are stored and gaps.
LEMMA SplitGoesOn ==
    ASSUME SeamlessInv, NEW p \in Proc, fetches[p].pc = "plan",
           NEW due \in Seq(Part), NEW gaps \in Seq(Part),
           Covered(due) \subseteq Stored, Bars(Request) \subseteq Stored \cup Covered(gaps),
           HalfOpen(Request) \subseteq LastBars(due) \cup LastBars(gaps) \cup Chopped(due) \cup Chopped(gaps),
           fetches' = [fetches EXCEPT ![p] = SplitInto(fetches[p], due, gaps)],
           UNCHANGED <<fills, flights, lease, rows, found, locks>>,
           known' \in [Proc -> {None} \cup SUBSET Grid], KnownIsStored',
           mishaps' \in [lease : Nat, other : Nat], mishaps'.lease = mishaps.lease
    PROVE  SeamlessInv'
<1>1. PICK fetch \in FetchState : fetch = fetches[p] /\ fetch.pc = "plan"
  BY DEF SeamlessInv, StateInv
<1>2. PICK after : after = SplitInto(fetch, due, gaps)
  OBVIOUS
<1>3. fetches' = [fetches EXCEPT ![p] = after] /\ fetches'[p] = after /\ Stored' = Stored
  BY <1>1, <1>2, StoredSame DEF SeamlessInv, StateInv
<1>4. LastBars(due) \cup LastBars(gaps) \in SUBSET Grid
  BY ChoppedEnds
<1>5. /\ after \in FetchState /\ after.pc = "gaps" /\ after.n = fetch.n /\ after.due = due
      /\ after.gaps = gaps /\ after.ends = LastBars(due) \cup LastBars(gaps)
      /\ after.got = fetch.got /\ after.clean = fetch.clean
  BY <1>2, <1>4 DEF FetchState, SplitInto
<1>6. PlanInv(p)
  BY DEF SeamlessInv
<1>7. fills[<<p, 0>>].pc = "none" /\ after.n > 0
  BY <1>1, <1>5, <1>6 DEF PlanInv
<1>8. FetchInv(p)'
  <2>1. fetch.clean => fetch.got \subseteq HalfOpen(Request)
    BY <1>1, <1>6 DEF PlanInv, FetchInv
  <2>2. QED
    BY <2>1, <1>3, <1>5 DEF FetchInv
<1>9. QED
  BY <1>1, <1>3, <1>5, <1>7, <1>8, FetchGoesOn

LEMMA ReadCoverageStep ==
    ASSUME SeamlessInv, NEW p \in Proc, ReadCoverage(p)
    PROVE  SeamlessInv'
<1>0. StateInv /\ KnownIsStored /\ Stored' = Stored /\ Stored \in SUBSET Grid /\ fetches[p].pc = "plan"
          /\ UNCHANGED <<fills, flights, lease, rows, found, locks>>
  BY StoredSame DEF ReadCoverage, SeamlessInv, Stored
<1>1. PICK coverage \in SUBSET Grid :
          coverage = (IF known[p] = None THEN Stored ELSE known[p]) /\ coverage \subseteq Stored
  BY <1>0 DEF StateInv, KnownIsStored
<1>2. PICK available : available = IntersectWith(Request, RunsOf(SetToSeq(coverage)))
  OBVIOUS
<1>3. PICK left : left = (IF available = <<>> THEN <<Request>> ELSE SubtractFrom(Request, available))
  OBVIOUS
<1> DEFINE Split(due, gaps) ==
        fetches' = [fetches EXCEPT ![p] = [@ EXCEPT
            !.pc = "gaps", !.due = due, !.gaps = gaps, !.ends = LastBars(due) \cup LastBars(gaps)]]
<1>4. \/ /\ Split(available, left)
         /\ known' = [known EXCEPT ![p] = coverage]
         /\ UNCHANGED mishaps
      \/ Mishap("other") /\ Split(<<>>, <<Request>>) /\ UNCHANGED known
  BY <1>1, <1>2, <1>3 DEF ReadCoverage
<1>5. CASE Split(available, left) /\ known' = [known EXCEPT ![p] = coverage] /\ UNCHANGED mishaps
  <2>1. /\ available \in Seq(Part) /\ left \in Seq(Part) /\ Covered(available) \subseteq coverage
        /\ Bars(Request) \subseteq coverage \cup Covered(left)
        /\ HalfOpen(Request) \subseteq LastBars(available) \cup LastBars(left)
                                       \cup Chopped(available) \cup Chopped(left)
    BY <1>2, <1>3, WindowSplit
  <2>2. known' \in [Proc -> {None} \cup SUBSET Grid] /\ KnownIsStored'
    BY <1>0, <1>1, <1>5 DEF StateInv, KnownIsStored
  <2>3. mishaps' \in [lease : Nat, other : Nat] /\ mishaps'.lease = mishaps.lease
    BY <1>0, <1>5 DEF StateInv
  <2>4. Covered(available) \subseteq Stored /\ Bars(Request) \subseteq Stored \cup Covered(left)
    BY <1>1, <2>1
  <2>5. fetches' = [fetches EXCEPT ![p] = SplitInto(fetches[p], available, left)]
    BY <1>5 DEF SplitInto
  <2>6. HalfOpen(Request) \subseteq LastBars(available) \cup LastBars(left)
                                   \cup Chopped(available) \cup Chopped(left)
    BY <2>1
  <2> HIDE DEF Split
  <2>7. QED
    BY <1>0, <2>1, <2>2, <2>3, <2>4, <2>5, <2>6, SplitGoesOn
<1>6. CASE Mishap("other") /\ Split(<<>>, <<Request>>) /\ UNCHANGED known
  <2>1. mishaps' \in [lease : Nat, other : Nat] /\ mishaps'.lease = mishaps.lease
    BY <1>0, <1>6, MishapCounts
  <2>2. known' \in [Proc -> {None} \cup SUBSET Grid] /\ KnownIsStored'
    BY <1>0, <1>6 DEF StateInv, KnownIsStored
  <2>3. fetches' = [fetches EXCEPT ![p] = [@ EXCEPT
            !.pc = "gaps", !.due = <<>>, !.gaps = <<Request>>,
            !.ends = LastBars(<<>>) \cup LastBars(<<Request>>)]]
    BY <1>6
  <2>4. PICK due \in Seq(Part), gaps \in Seq(Part) : due = <<>> /\ gaps = <<Request>>
    BY WindowWhole
  <2>5. /\ Covered(due) \subseteq Stored /\ Bars(Request) \subseteq Stored \cup Covered(gaps)
        /\ HalfOpen(Request) \subseteq LastBars(due) \cup LastBars(gaps) \cup Chopped(due) \cup Chopped(gaps)
    BY <2>4, WindowWhole
  <2>6. fetches' = [fetches EXCEPT ![p] = SplitInto(fetches[p], due, gaps)]
    BY <2>3, <2>4 DEF SplitInto
  <2> HIDE DEF Split
  <2>7. QED
    BY <1>0, <2>1, <2>2, <2>5, <2>6, SplitGoesOn
<1>7. QED
  BY <1>4, <1>5, <1>6

\* Reading the coverage anew leaves the cached coverage stored.
LEMMA RecoveredSound ==
    ASSUME SeamlessInv, Stored' = Stored, NEW p \in Proc, known' \in {known, Recovered(p)}
    PROVE  known' \in [Proc -> {None} \cup SUBSET Grid] /\ KnownIsStored'
<1>1. known \in [Proc -> {None} \cup SUBSET Grid] /\ KnownIsStored /\ Stored \in SUBSET Grid
  BY DEF SeamlessInv, StateInv, Stored
<1>2. known' = known \/ known' = [known EXCEPT ![p] = Stored]
  BY DEF Recovered
<1>3. QED
  BY <1>1, <1>2 DEF KnownIsStored

LEMMA ReadRangeStep ==
    ASSUME SeamlessInv, NEW p \in Proc, ReadRange(p)
    PROVE  SeamlessInv'
<1>0. StateInv /\ KnownIsStored /\ Stored' = Stored /\ Stored \in SUBSET Grid /\ PlanInv(p)
          /\ UNCHANGED <<fills, flights, lease, rows, found, locks, mishaps>>
  BY StoredSame DEF ReadRange, SeamlessInv, Stored
<1>1. PICK fetch \in FetchState : fetch = fetches[p] /\ fetch.pc = "gaps" /\ fetch.due # <<>>
  BY <1>0 DEF StateInv, ReadRange
<1>2. PICK bars : bars = HalfOpen(Head(fetch.due))
  OBVIOUS
<1>3. PICK after : after = [fetch EXCEPT !.due = Tail(fetch.due), !.got = fetch.got \cup (bars \cap Stored)]
  OBVIOUS
<1>4. fetches' = [fetches EXCEPT ![p] = after]
  <2>1. fetches' = [fetches EXCEPT
            ![p].due = Tail(@), ![p].got = @ \cup (HalfOpen(Head(fetches[p].due)) \cap Stored)]
    BY DEF ReadRange
  <2>2. QED
    BY <2>1, <1>0, <1>1, <1>2, <1>3 DEF StateInv, FetchState
<1>5. fetches'[p] = after
  BY <1>0, <1>4 DEF StateInv
<1>6. /\ fetch.due \in Seq(Part) /\ Tail(fetch.due) \in Seq(Part) /\ Head(fetch.due) \in Part
      /\ Covered(fetch.due) = Bars(Head(fetch.due)) \cup Covered(Tail(fetch.due))
      /\ Chopped(fetch.due) = bars \cup Chopped(Tail(fetch.due))
  BY <1>1, <1>2, CoveredHead, ChoppedHead DEF FetchState
<1>7. bars \subseteq Bars(Head(fetch.due)) /\ bars \subseteq HalfOpen(Request) /\ bars \subseteq Grid
  BY <1>2, <1>6, PartBars
<1>8. Covered(fetch.due) \subseteq Stored /\ fills[<<p, 0>>].pc = "none" /\ fetch.n > 0
  BY <1>0, <1>1 DEF PlanInv
<1>9. bars \subseteq Stored /\ Covered(Tail(fetch.due)) \subseteq Stored
  BY <1>6, <1>7, <1>8
<1>10. /\ after \in FetchState /\ after.pc = "gaps" /\ after.n = fetch.n /\ after.due = Tail(fetch.due)
       /\ after.gaps = fetch.gaps /\ after.ends = fetch.ends /\ after.got = fetch.got \cup bars
       /\ after.short = fetch.short /\ after.clean = fetch.clean
  BY <1>1, <1>3, <1>6, <1>7, <1>9 DEF FetchState
<1>11. FetchInv(p)'
  <2>1. fetch.clean =>
            /\ fetch.got \subseteq HalfOpen(Request)
            /\ Bars(Request) \subseteq Stored \cup fetch.short \cup Covered(fetch.gaps)
            /\ HalfOpen(Request) \subseteq fetch.got \cup fetch.short \cup fetch.ends
                                           \cup Chopped(fetch.due) \cup Chopped(fetch.gaps)
    BY <1>0, <1>1 DEF PlanInv, FetchInv
  <2>2. fetch.clean => after.got \subseteq HalfOpen(Request)
    BY <2>1, <1>7, <1>10
  <2>3. fetch.clean => HalfOpen(Request) \subseteq
            after.got \cup fetch.short \cup fetch.ends \cup Chopped(after.due) \cup Chopped(fetch.gaps)
    BY <2>1, <1>6, <1>10
  <2>4. QED
    BY <2>1, <2>2, <2>3, <1>0, <1>5, <1>10 DEF FetchInv
<1>12. known' \in [Proc -> {None} \cup SUBSET Grid] /\ KnownIsStored'
  BY <1>0, RecoveredSound DEF ReadRange
<1>13. mishaps' \in [lease : Nat, other : Nat] /\ mishaps'.lease = mishaps.lease
  BY <1>0 DEF StateInv
<1>14. QED
  BY <1>0, <1>1, <1>4, <1>8, <1>9, <1>10, <1>11, <1>12, <1>13, FetchGoesOn

LEMMA RangeFailsStep ==
    ASSUME SeamlessInv, NEW p \in Proc, RangeFails(p)
    PROVE  SeamlessInv'
<1>0. StateInv /\ KnownIsStored /\ Stored' = Stored /\ PlanInv(p)
          /\ UNCHANGED <<fills, flights, lease, rows, found, locks>>
  BY StoredSame DEF RangeFails, SeamlessInv
<1>1. PICK fetch \in FetchState : fetch = fetches[p] /\ fetch.pc = "gaps" /\ fetch.due # <<>>
  BY <1>0 DEF StateInv, RangeFails
<1>2. PICK after : after = [fetch EXCEPT !.pc = "idle", !.due = <<>>, !.gaps = <<>>, !.clean = FALSE]
  OBVIOUS
<1>3. fetches' = [fetches EXCEPT ![p] = after] /\ fetches'[p] = after
  BY <1>0, <1>1, <1>2 DEF StateInv, RangeFails
<1>4. after \in FetchState /\ after.pc = "idle" /\ after.due = <<>> /\ ~after.clean
  BY <1>1, <1>2, WindowWhole DEF FetchState
<1>5. FetchInv(p)'
  BY <1>3, <1>4 DEF FetchInv
<1>6. fills[<<p, 0>>].pc = "none"
  BY <1>0, <1>1 DEF PlanInv
<1>7. mishaps' \in [lease : Nat, other : Nat] /\ mishaps'.lease = mishaps.lease
  <2>1. Mishap("other") \/ UNCHANGED mishaps
    BY DEF RangeFails
  <2>2. CASE Mishap("other")
    BY <2>2, <1>0, MishapCounts
  <2>3. CASE UNCHANGED mishaps
    BY <2>3, <1>0 DEF StateInv
  <2>4. QED
    BY <2>1, <2>2, <2>3
<1>8. known' \in [Proc -> {None} \cup SUBSET Grid] /\ KnownIsStored'
  <2>1. known' \in {known, Recovered(p)}
    BY DEF RangeFails
  <2>2. QED
    BY <2>1, <1>0, RecoveredSound
<1>9. QED
  BY <1>0, <1>1, <1>3, <1>4, <1>5, <1>6, <1>7, <1>8, WindowWhole, FetchGoesOn

LEMMA NextGapStep ==
    ASSUME SeamlessInv, NEW p \in Proc, NextGap(p)
    PROVE  SeamlessInv'
<1> USE DEF SeamlessInv
<1>0. /\ StateInv /\ Stored' = Stored
      /\ UNCHANGED <<fetches, flights, lease, rows, found, known, locks, mishaps>>
  BY StoredSame DEF NextGap
<1>1. PICK u \in Task : u = <<p, 0>>
  BY TaskOf
<1>2. fetches[p].pc = "gaps" /\ fetches[p].due = <<>> /\ fetches[p].gaps # <<>>
          /\ fills[u].pc = "none" /\ u[2] = 0
          /\ fetches[p].gaps \in Seq(Part) /\ Head(fetches[p].gaps) \in Part
  <2>1. fetches[p].pc = "gaps" /\ fetches[p].due = <<>> /\ fetches[p].gaps # <<>>
            /\ fills[u].pc = "none" /\ u[2] = 0
    BY <1>1, TaskOf DEF NextGap
  <2>2. fetches[p].gaps \in Seq(Part)
    BY <1>0 DEF StateInv, FetchState
  <2>3. Head(fetches[p].gaps) \in Part
    BY <2>1, <2>2
  <2>4. QED
    BY <2>1, <2>2, <2>3
<1>3. PICK gap \in Part : gap = Head(fetches[p].gaps)
  BY <1>2
<1>4. PICK fill \in FillState :
          /\ fill = Filling(gap) /\ fill.pc = "next" /\ fill.chunks # <<>> /\ fill.frame = {}
          /\ ~fill.reads /\ fill.new = {}
          /\ Bars(gap) \subseteq Covered(fill.chunks) /\ HalfOpen(gap) \subseteq Chopped(fill.chunks)
  BY FillingSound
<1>5. fills' = [fills EXCEPT ![u] = fill]
  BY <1>1, <1>3, <1>4 DEF NextGap
<1>6. fills'[u] = fill /\ \A t \in Task : t # u => fills'[t] = fills[t]
  BY <1>0, <1>5 DEF StateInv
<1>7. StateInv'
  <2>1. fills' \in [Task -> FillState]
    BY <1>0, <1>5 DEF StateInv
  <2>2. QED
    BY <1>0, <2>1 DEF StateInv
<1>8. OncePerProcess' /\ KnownIsStored'
  BY <1>0 DEF OncePerProcess, KnownIsStored
<1>9. LeaseInv'
  BY <1>0, <1>2, <1>6 DEF LeaseInv
<1>10. FlightIsFlown'
  <2>1. ASSUME NEW q \in Proc, flights[q] # None
        PROVE  fills'[<<q, flights[q]>>] = fills[<<q, flights[q]>>]
    <3>1. <<q, flights[q]>> \in Task /\ <<q, flights[q]>> # u
      BY <1>0, <1>1, <2>1, TaskOf, SeamlessConstants DEF StateInv
    <3>2. QED
      BY <3>1, <1>6
  <2>2. QED
    BY <2>1, <1>0 DEF FlightIsFlown
<1>11. ASSUME NEW t \in Task PROVE FillInv(t)'
  <2>1. CASE t = u
    BY <2>1, <1>4, <1>6 DEF FillInv
  <2>2. CASE t # u
    BY <2>2, <1>0, <1>6, FillKept
  <2>3. QED
    BY <2>1, <2>2
<1>12. ASSUME NEW q \in Proc PROVE PlanInv(q)'
  <2>1. CASE q # p
    <3>1. fills'[<<q, 0>>] = fills[<<q, 0>>]
      BY <2>1, <1>1, <1>6, TaskOf
    <3>2. QED
      BY <3>1, <1>0, PlanKept
  <2>2. CASE q = p
    <3>1. PlanInv(p) /\ fetches'[p] = fetches[p] /\ fills'[<<p, 0>>] = fill
      BY <1>0, <1>1, <1>6
    <3>2. ChunkInv(p)'
      BY <3>1, <1>4 DEF ChunkInv
    <3>3. FetchInv(p)'
      BY <3>1, <1>0 DEF PlanInv, FetchInv
    <3>4. GapInv(p)'
      BY <3>1, <1>3, <1>4 DEF GapInv
    <3>5. PlanInv(p)'
      BY <3>1, <3>2, <3>3, <3>4, <1>0, <1>2, <1>4 DEF PlanInv
    <3>6. QED
      BY <2>2, <3>5
  <2>3. QED
    BY <2>1, <2>2
<1>13. QED
  BY <1>7, <1>8, <1>9, <1>10, <1>11, <1>12

LEMMA GapEndsStep ==
    ASSUME SeamlessInv, NEW p \in Proc, GapEnds(p)
    PROVE  SeamlessInv'
<1> USE DEF SeamlessInv
<1>0. /\ StateInv /\ Stored' = Stored
      /\ UNCHANGED <<flights, lease, rows, found, known, locks, mishaps>>
  BY StoredSame DEF GapEnds
<1>1. PICK u \in Task : u = <<p, 0>>
  BY TaskOf
<1>2. PICK fill \in FillState : fill = fills[u]
  BY <1>0 DEF StateInv
<1>3. PICK fetch \in FetchState : fetch = fetches[p]
  BY <1>0 DEF StateInv
<1>4. fetch.pc = "gaps" /\ fill.pc \in {"done", "failed"} /\ u[2] = 0
          /\ fills' = [fills EXCEPT ![u] = NoFill]
  BY <1>1, <1>2, <1>3, TaskOf DEF GapEnds
<1>5. fetches' = [fetches EXCEPT ![p] =
          [fetch EXCEPT !.gaps = Tail(fetch.gaps),
                        !.got = IF fill.pc = "done" THEN fetch.got \cup fill.frame ELSE fetch.got,
                        !.clean = fetch.clean /\ fill.pc = "done"]]
  <2>1. fetches' = [fetches EXCEPT
             ![p].gaps = Tail(@),
             ![p].got = IF fill.pc = "done" THEN @ \cup fill.frame ELSE @,
             ![p].clean = @ /\ fill.pc = "done"]
    BY <1>1, <1>2 DEF GapEnds
  <2>2. QED
    BY <2>1, <1>0, <1>3 DEF StateInv, FetchState
<1>6. PICK after : after = [fetch EXCEPT !.gaps = Tail(fetch.gaps),
                        !.got = IF fill.pc = "done" THEN fetch.got \cup fill.frame ELSE fetch.got,
                        !.clean = fetch.clean /\ fill.pc = "done"]
  OBVIOUS
<1>7. fetches' = [fetches EXCEPT ![p] = after]
  BY <1>5, <1>6
<1>8. PlanInv(p) /\ fetch.gaps \in Seq(Part) /\ fetch.gaps # <<>> /\ fetch.due = <<>>
  BY <1>1, <1>2, <1>3, <1>4 DEF PlanInv, FetchState
<1>9. /\ Covered(fetch.gaps) = Bars(Head(fetch.gaps)) \cup Covered(Tail(fetch.gaps))
      /\ Chopped(fetch.gaps) = HalfOpen(Head(fetch.gaps)) \cup Chopped(Tail(fetch.gaps))
      /\ Tail(fetch.gaps) \in Seq(Part)
  BY <1>8, CoveredHead, ChoppedHead
<1>10. /\ after \in FetchState /\ after.pc = "gaps" /\ after.n = fetch.n /\ after.gaps = Tail(fetch.gaps)
       /\ after.due = <<>> /\ after.ends = fetch.ends /\ after.short = fetch.short
       /\ after.clean => fetch.clean /\ fill.pc = "done" /\ after.got = fetch.got \cup fill.frame
  BY <1>4, <1>6, <1>8, <1>9 DEF FetchState, FillState
<1>11. NoFill \in FillState /\ NoFill.pc = "none" /\ NoFill.frame = {} /\ NoFill.new = {}
  BY NoFillTyped DEF NoFill
<1>12. /\ fills'[u] = NoFill /\ \A t \in Task : t # u => fills'[t] = fills[t]
       /\ fetches'[p] = after /\ \A q \in Proc : q # p => fetches'[q] = fetches[q]
  BY <1>0, <1>4, <1>7 DEF StateInv
<1>13. StateInv'
  <2>1. fills' \in [Task -> FillState] /\ fetches' \in [Proc -> FetchState]
    BY <1>0, <1>4, <1>7, <1>10, <1>11 DEF StateInv
  <2>2. QED
    BY <1>0, <2>1 DEF StateInv
<1>14. OncePerProcess' /\ KnownIsStored'
  BY <1>0 DEF OncePerProcess, KnownIsStored
<1>15. LeaseInv'
  BY <1>0, <1>4, <1>12 DEF LeaseInv
<1>16. FlightIsFlown'
  <2>1. ASSUME NEW q \in Proc, flights[q] # None
        PROVE  \/ fetches'[q].pc = "claim" /\ fetches'[q].n = flights[q]
               \/ fills'[<<q, flights[q]>>].pc # "none"
    <3>1. <<q, flights[q]>> \in Task /\ <<q, flights[q]>> # u
      BY <1>0, <1>1, <2>1, TaskOf, SeamlessConstants DEF StateInv
    <3>2. fills'[<<q, flights[q]>>] = fills[<<q, flights[q]>>]
      BY <3>1, <1>12
    <3>3. q = p => fetches[q].pc # "claim"
      BY <1>3, <1>4
    <3>4. QED
      BY <2>1, <3>2, <3>3, <1>12 DEF FlightIsFlown
  <2>2. QED
    BY <2>1, <1>0 DEF FlightIsFlown
<1>17. ASSUME NEW t \in Task PROVE FillInv(t)'
  <2>1. CASE t = u
    BY <2>1, <1>11, <1>12 DEF FillInv, Working
  <2>2. CASE t # u
    BY <2>2, <1>0, <1>12, FillKept
  <2>3. QED
    BY <2>1, <2>2
<1>18. ASSUME NEW q \in Proc PROVE PlanInv(q)'
  <2>1. CASE q # p
    <3>1. fills'[<<q, 0>>] = fills[<<q, 0>>]
      BY <2>1, <1>1, <1>12, TaskOf
    <3>2. QED
      BY <2>1, <3>1, <1>0, <1>12, PlanKept
  <2>2. CASE q = p
    <3>1. FillInv(u)
      OBVIOUS
    <3>2. fill.pc = "done" => Covered(fill.chunks) = {} /\ Chopped(fill.chunks) = {}
      BY <3>1, <1>2, CoveredEmpty, ChoppedEmpty DEF FillInv
    <3>3. fetches'[p] = after /\ fills'[<<p, 0>>] = NoFill /\ fetches[p] = fetch /\ fills[<<p, 0>>] = fill
      BY <1>1, <1>2, <1>3, <1>12
    <3>4. fetch.clean =>
              /\ fetch.got \subseteq HalfOpen(Request)
              /\ Bars(Request) \subseteq Stored \cup fetch.short \cup Covered(fetch.gaps)
              /\ HalfOpen(Request) \subseteq fetch.got \cup fetch.short \cup fetch.ends \cup Chopped(fetch.gaps)
      BY <3>3, <1>4, <1>8, ChoppedEmpty DEF PlanInv, FetchInv
    <3>5. fetch.clean /\ fill.pc = "done" =>
              /\ fill.frame \subseteq HalfOpen(Request)
              /\ Bars(Head(fetch.gaps)) \subseteq Stored \cup fetch.short
              /\ HalfOpen(Head(fetch.gaps)) \subseteq fill.frame \cup fetch.short
      BY <3>2, <3>3, <1>8 DEF PlanInv, GapInv
    <3>6. after.clean =>
              /\ after.got \subseteq HalfOpen(Request)
              /\ Bars(Request) \subseteq Stored \cup after.short \cup Covered(after.gaps)
              /\ HalfOpen(Request) \subseteq after.got \cup after.short \cup after.ends \cup Chopped(after.gaps)
      BY <3>4, <3>5, <1>9, <1>10
    <3>7. FetchInv(p)'
      BY <3>3, <3>6, <1>0, <1>10 DEF FetchInv
    <3>8. fetches'[p].n > 0 /\ fetches'[p].pc # "idle" /\ Covered(fetches'[p].due) \subseteq Stored'
      BY <3>3, <1>4, <1>8, <1>10, CoveredEmpty DEF PlanInv
    <3>9. PlanInv(p)'
      BY <3>3, <3>7, <3>8, <1>11, PlanAlone
    <3>10. QED
      BY <2>2, <3>9
  <2>3. QED
    BY <2>1, <2>2
<1>19. QED
  BY <1>13, <1>14, <1>15, <1>16, <1>17, <1>18

LEMMA FetchReturnsStep ==
    ASSUME SeamlessInv, NEW p \in Proc, FetchReturns(p)
    PROVE  SeamlessInv'
<1>0. StateInv /\ KnownIsStored /\ Stored' = Stored /\ PlanInv(p)
          /\ UNCHANGED <<fills, flights, lease, rows, found, known, locks, mishaps>>
  BY StoredSame DEF FetchReturns, SeamlessInv
<1>1. PICK fetch \in FetchState :
          fetch = fetches[p] /\ fetch.pc = "gaps" /\ fetch.due = <<>> /\ fetch.gaps = <<>>
  BY <1>0 DEF StateInv, FetchReturns
<1>2. PICK after : after = [fetch EXCEPT !.pc = "idle"]
  OBVIOUS
<1>3. fetches' = [fetches EXCEPT ![p] = after] /\ fetches'[p] = after
  BY <1>0, <1>1, <1>2 DEF StateInv, FetchReturns
<1>4. /\ after \in FetchState /\ after.pc = "idle" /\ after.n = fetch.n /\ after.due = <<>>
      /\ after.gaps = <<>> /\ after.ends = fetch.ends /\ after.got = fetch.got
      /\ after.short = fetch.short /\ after.clean = fetch.clean
  BY <1>1, <1>2 DEF FetchState
<1>5. FetchInv(p)'
  BY <1>0, <1>1, <1>3, <1>4 DEF PlanInv, FetchInv
<1>6. fills[<<p, 0>>].pc = "none"
  BY <1>0, <1>1 DEF PlanInv
<1>7. mishaps' \in [lease : Nat, other : Nat] /\ mishaps'.lease = mishaps.lease
  BY <1>0 DEF StateInv
<1>8. known' \in [Proc -> {None} \cup SUBSET Grid] /\ KnownIsStored'
  BY <1>0 DEF StateInv, KnownIsStored
<1>9. QED
  BY <1>0, <1>1, <1>3, <1>4, <1>5, <1>6, <1>7, <1>8, WindowWhole, FetchGoesOn

\* A task that goes on keeps its flight and its lease.
LEMMA GoesOn ==
    ASSUME SeamlessInv, NEW t \in Task, fills[t].pc # "none", fills'[t].pc # "none",
           \A u \in Task : u # t => fills'[u] = fills[u],
           \A q \in Proc : fetches'[q].pc = fetches[q].pc /\ fetches'[q].n = fetches[q].n,
           UNCHANGED <<flights, lease>>, mishaps'.lease = mishaps.lease
    PROVE  FlightIsFlown' /\ LeaseInv'
<1> USE DEF SeamlessInv
<1>1. ASSUME NEW u \in Task PROVE fills'[u].pc # "none" <=> fills[u].pc # "none"
  <2>1. CASE u = t
    BY <2>1
  <2>2. CASE u # t
    BY <2>2
  <2>3. QED
    BY <2>1, <2>2
<1>2. LeaseInv'
  BY <1>1 DEF LeaseInv
<1>3. ASSUME NEW q \in Proc, flights[q] # None
      PROVE  \/ fetches'[q].pc = "claim" /\ fetches'[q].n = flights[q]
             \/ fills'[<<q, flights[q]>>].pc # "none"
  <2>1. <<q, flights[q]>> \in Task
    BY <1>3, TaskOf, SeamlessConstants DEF StateInv
  <2>2. QED
    BY <1>1, <1>3, <2>1 DEF FlightIsFlown
<1>4. QED
  BY <1>2, <1>3 DEF FlightIsFlown

LEMMA ChunkOf ==
    ASSUME SeamlessInv, NEW t \in Task, fills[t].pc \in Working
    PROVE  /\ fills[t] \in FillState /\ fills[t].chunks \in Seq(Part) /\ fills[t].chunks # <<>>
           /\ Chunk(t) \in Part /\ Tail(fills[t].chunks) \in Seq(Part)
           /\ Covered(fills[t].chunks) = Bars(Chunk(t)) \cup Covered(Tail(fills[t].chunks))
           /\ Chopped(fills[t].chunks) = HalfOpen(Chunk(t)) \cup Chopped(Tail(fills[t].chunks))
           /\ HalfOpen(Chunk(t)) \subseteq Bars(Chunk(t))
           /\ Bars(Chunk(t)) \subseteq Grid /\ HalfOpen(Chunk(t)) \subseteq Grid
           /\ HalfOpen(Chunk(t)) \subseteq HalfOpen(Request)
<1>1. fills[t] \in FillState /\ FillInv(t)
  BY DEF SeamlessInv, StateInv
<1>2. fills[t].chunks \in Seq(Part) /\ fills[t].chunks # <<>>
  BY <1>1 DEF FillState, FillInv
<1>3. Chunk(t) \in Part /\ Tail(fills[t].chunks) \in Seq(Part)
          /\ Covered(fills[t].chunks) = Bars(Chunk(t)) \cup Covered(Tail(fills[t].chunks))
          /\ Chopped(fills[t].chunks) = HalfOpen(Chunk(t)) \cup Chopped(Tail(fills[t].chunks))
  BY <1>2, CoveredHead, ChoppedHead DEF Chunk
<1>4. QED
  BY <1>1, <1>2, <1>3, PartBars

LEMMA BegunSound ==
    ASSUME NEW t \in Task, fills[t] \in FillState, NEW pc \in Working, NEW reads \in BOOLEAN
    PROVE  /\ Begun(t, pc, reads) \in FillState /\ Begun(t, pc, reads).pc = pc
           /\ Begun(t, pc, reads).reads = reads /\ Begun(t, pc, reads).new = {}
           /\ Begun(t, pc, reads).chunks = fills[t].chunks /\ Begun(t, pc, reads).frame = fills[t].frame
<1>1. NoFill \in FillState /\ NoFill.new = {}
  BY NoFillTyped DEF NoFill
<1>2. QED
  BY <1>1 DEF Begun, FillState

\* A step of task t as the rest of the system sees it: rows come in, of its process, none
\* twice, and only the planner changes its fetch.
StepOf(t) ==
    /\ UNCHANGED <<flights, lease, found>>
    /\ mishaps' \in [lease : Nat, other : Nat] /\ mishaps'.lease = mishaps.lease
    /\ rows' \in [Grid -> [Proc -> Nat]] /\ OncePerProcess' /\ Stored \subseteq Stored'
    /\ \A b \in Grid, q \in Proc : q # Owner(t) => rows'[b][q] = rows[b][q]
    /\ fetches' \in [Proc -> FetchState]
    /\ \A q \in Proc : /\ fetches'[q].pc = fetches[q].pc /\ fetches'[q].n = fetches[q].n
                       /\ t # <<q, 0>> => fetches'[q] = fetches[q]

\* Other tasks keep what they rely on when t has the lock, or takes it, or does without.
LEMMA FillStepKeeps ==
    ASSUME SeamlessInv, NEW t \in Task, NEW fill \in FillState, StepOf(t),
           fills[t].pc # "none", fill.pc # "none", fills' = [fills EXCEPT ![t] = fill],
           known' \in [Proc -> {None} \cup SUBSET Grid], KnownIsStored',
           locks' \in [Proc -> {None} \cup Task],
           \A q \in Proc : q # Owner(t) => locks'[q] = locks[q],
           locks[Owner(t)] \in {None, t} \/ UNCHANGED <<locks, rows>>,
           FillInv(t)', \A q \in Proc : t = <<q, 0>> => PlanInv(q)'
    PROVE  SeamlessInv'
<1> USE DEF SeamlessInv
<1>1. fills'[t] = fill /\ \A u \in Task : u # t => fills'[u] = fills[u]
  BY DEF StateInv
<1>2. StateInv'
  <2>1. fills' \in [Task -> FillState]
    BY DEF StateInv
  <2>2. QED
    BY <2>1 DEF StateInv, StepOf
<1>3. OncePerProcess' /\ Stored \subseteq Stored'
  BY DEF StepOf
<1>4. FlightIsFlown' /\ LeaseInv'
  <2>1. /\ \A q \in Proc : fetches'[q].pc = fetches[q].pc /\ fetches'[q].n = fetches[q].n
        /\ UNCHANGED <<flights, lease>> /\ mishaps'.lease = mishaps.lease
    BY DEF StepOf
  <2>2. QED
    BY <1>1, <2>1, GoesOn
<1>5. ASSUME NEW u \in Task, u # t PROVE FillInv(u)'
  <2>1. CASE UNCHANGED <<locks, rows>>
    BY <1>1, <1>3, <1>5, <2>1, FillKept
  <2>2. CASE locks[Owner(t)] \in {None, t}
    <3>1. FillInv(u) /\ fills[u] \in FillState /\ Owner(u) \in Proc
      BY TaskOf DEF StateInv
    <3>2. fills[u].pc \in {"ask", "write", "read"} => Owner(u) # Owner(t)
      BY <1>5, <2>2, <3>1, TaskOf DEF FillInv
    <3>3. fills[u].miss \cup fills[u].new \subseteq Grid
      BY <3>1 DEF FillState
    <3>4. fills[u].pc \in {"ask", "write", "read"} =>
              /\ locks'[Owner(u)] = locks[Owner(u)]
              /\ \A b \in fills[u].miss \cup fills[u].new : rows'[b][Owner(u)] = rows[b][Owner(u)]
      BY <3>1, <3>2, <3>3 DEF StepOf
    <3>5. QED
      BY <1>1, <1>3, <1>5, <3>1, <3>4, FillKept
  <2>3. QED
    BY <2>1, <2>2
<1>6. ASSUME NEW q \in Proc, t # <<q, 0>> PROVE PlanInv(q)'
  <2>1. fetches'[q] = fetches[q] /\ fills'[<<q, 0>>] = fills[<<q, 0>>] /\ PlanInv(q)
    BY <1>1, <1>6, TaskOf DEF StepOf
  <2>2. QED
    BY <1>3, <2>1, PlanKept
<1>7. QED
  BY <1>2, <1>3, <1>4, <1>5, <1>6

\* What a step in the midst of a chunk leaves of the fetch.
FetchKept(p) ==
    /\ fetches'[p].pc = fetches[p].pc /\ fetches'[p].n = fetches[p].n
    /\ fetches'[p].due = fetches[p].due /\ fetches'[p].gaps = fetches[p].gaps
    /\ fetches'[p].ends = fetches[p].ends /\ fetches'[p].got = fetches[p].got
    /\ fetches'[p].clean = fetches[p].clean /\ fetches[p].short \subseteq fetches'[p].short

LEMMA PlanGoesOn ==
    ASSUME SeamlessInv, NEW p \in Proc, NEW t \in Task, t = <<p, 0>>,
           fills[t].pc \in Working, fills'[t].pc \in Working,
           fills'[t].chunks = fills[t].chunks, fills'[t].frame = fills[t].frame,
           Stored \subseteq Stored', FetchKept(p), ChunkInv(p)'
    PROVE  PlanInv(p)'
<1>1. PlanInv(p)
  BY DEF SeamlessInv
<1>2. FetchInv(p)'
  BY <1>1 DEF PlanInv, FetchInv, FetchKept
<1>3. GapInv(p)'
  BY <1>1 DEF PlanInv, GapInv, FetchKept
<1>4. fetches[p].pc = "gaps" /\ fetches[p].n > 0 /\ fetches[p].due = <<>> /\ fetches[p].gaps # <<>>
  BY <1>1 DEF PlanInv, Working
<1>5. fetches'[p].pc = "gaps" /\ fetches'[p].n > 0 /\ fetches'[p].due = <<>> /\ fetches'[p].gaps # <<>>
  BY <1>4 DEF FetchKept
<1>6. QED
  BY <1>2, <1>3, <1>5, CoveredEmpty DEF PlanInv, Working

\* The chunk is taken off the list.
LEMMA PlanLeavesChunk ==
    ASSUME SeamlessInv, NEW p \in Proc, NEW t \in Task, t = <<p, 0>>, NEW frame,
           fills[t].pc \in Working, fills'[t].pc \in {"next", "done"}, ~fills'[t].reads,
           fills'[t].chunks = Tail(fills[t].chunks), fills'[t].frame = fills[t].frame \cup frame,
           Stored \subseteq Stored',
           fetches'[p].pc = fetches[p].pc, fetches'[p].n = fetches[p].n,
           fetches'[p].due = fetches[p].due, fetches'[p].gaps = fetches[p].gaps,
           fetches'[p].clean =>
               /\ FetchKept(p) /\ frame \subseteq HalfOpen(Request)
               /\ Bars(Chunk(t)) \subseteq Stored' \cup fetches'[p].short
               /\ HalfOpen(Chunk(t)) \subseteq frame \cup fetches'[p].short
    PROVE  PlanInv(p)'
<1>1. PlanInv(p)
  BY DEF SeamlessInv
<1>2. FetchInv(p)'
  BY <1>1 DEF PlanInv, FetchInv, FetchKept
<1>3. GapInv(p)'
  <2>1. SUFFICES ASSUME fetches'[p].clean PROVE GapInv(p)'
    BY DEF GapInv
  <2>2. /\ Covered(fills[t].chunks) = Bars(Chunk(t)) \cup Covered(fills'[t].chunks)
        /\ Chopped(fills[t].chunks) = HalfOpen(Chunk(t)) \cup Chopped(fills'[t].chunks)
    BY ChunkOf
  <2>3. /\ fetches[p].clean /\ fetches[p].short \subseteq fetches'[p].short
        /\ frame \subseteq HalfOpen(Request)
        /\ Bars(Chunk(t)) \subseteq Stored' \cup fetches'[p].short
        /\ HalfOpen(Chunk(t)) \subseteq frame \cup fetches'[p].short
    BY <2>1 DEF FetchKept
  <2>4. /\ fills[t].frame \subseteq HalfOpen(Request)
        /\ Bars(Head(fetches[p].gaps)) \subseteq Stored \cup fetches[p].short \cup Covered(fills[t].chunks)
        /\ HalfOpen(Head(fetches[p].gaps)) \subseteq
               fills[t].frame \cup fetches[p].short \cup Chopped(fills[t].chunks)
    BY <1>1, <2>3 DEF PlanInv, GapInv
  <2>5. /\ fills'[t].frame \subseteq HalfOpen(Request)
        /\ Bars(Head(fetches[p].gaps)) \subseteq Stored' \cup fetches'[p].short \cup Covered(fills'[t].chunks)
        /\ HalfOpen(Head(fetches[p].gaps)) \subseteq
               fills'[t].frame \cup fetches'[p].short \cup Chopped(fills'[t].chunks)
    BY <2>2, <2>3, <2>4
  <2>6. QED
    BY <2>5 DEF GapInv
<1>4. fetches[p].pc = "gaps" /\ fetches[p].n > 0 /\ fetches[p].due = <<>> /\ fetches[p].gaps # <<>>
  BY <1>1 DEF PlanInv, Working
<1>5. ChunkInv(p)'
  BY DEF ChunkInv
<1>6. QED
  BY <1>2, <1>3, <1>4, <1>5, CoveredEmpty DEF PlanInv

LEMMA ChunkDoneSound ==
    ASSUME SeamlessInv, NEW t \in Task, fills[t].pc \in Working, NEW frame \in SUBSET Grid,
           ChunkDone(t, frame)
    PROVE  \E fill \in FillState :
               /\ fills' = [fills EXCEPT ![t] = fill] /\ fills'[t] = fill
               /\ fill.pc \in {"next", "done"} /\ ~fill.reads /\ fill.new = {}
               /\ fill.chunks = Tail(fills[t].chunks)
               /\ fill.frame = (IF t[2] = 0 THEN fills[t].frame \cup frame ELSE {})
               /\ fill.pc = "done" <=> fill.chunks = <<>>
<1>1. PICK rest \in Seq(Part) : rest = Tail(fills[t].chunks)
  BY ChunkOf
<1>2. fills[t].frame \cup frame \in SUBSET Grid /\ fills \in [Task -> FillState]
  BY ChunkOf DEF FillState, SeamlessInv, StateInv
<1>3. PICK whole \in SUBSET Grid : whole = (IF t[2] = 0 THEN fills[t].frame \cup frame ELSE {})
  BY <1>2
<1>4. PICK fill : fill = [NoFill EXCEPT !.pc = IF rest = <<>> THEN "done" ELSE "next",
                          !.chunks = rest, !.frame = whole]
  OBVIOUS
<1>5. fills' = [fills EXCEPT ![t] = fill]
  BY <1>1, <1>3, <1>4 DEF ChunkDone
<1>6. NoFill \in FillState /\ ~NoFill.reads /\ NoFill.new = {}
  BY NoFillTyped DEF NoFill
<1>7. fill \in FillState /\ fill.pc = (IF rest = <<>> THEN "done" ELSE "next") /\ fill.chunks = rest
          /\ fill.frame = whole /\ ~fill.reads /\ fill.new = {}
  BY <1>3, <1>4, <1>6 DEF FillState, Working
<1>8. fills'[t] = fill
  BY <1>2, <1>5
<1>9. QED
  BY <1>1, <1>3, <1>5, <1>7, <1>8

\* What a task inserts is stored, and its process had not inserted it.
LEMMA InsertSound ==
    ASSUME SeamlessInv, NEW t \in Task, NEW bars \in SUBSET fills[t].new, Insert(t, bars),
           UNCHANGED found
    PROVE  /\ rows' \in [Grid -> [Proc -> Nat]] /\ OncePerProcess'
           /\ Stored \subseteq Stored' /\ bars \subseteq Stored' /\ Stored' \subseteq Grid
           /\ \A b \in Grid, q \in Proc : q # Owner(t) => rows'[b][q] = rows[b][q]
           /\ \A b \in Grid \ bars : rows'[b][Owner(t)] = rows[b][Owner(t)]
<1> USE DEF SeamlessInv
<1>1. fills[t].new \subseteq Grid /\ Owner(t) \in Proc /\ bars \in SUBSET Grid /\ FillInv(t)
  BY TaskOf DEF StateInv, FillState
<1>2. /\ rows' \in [Grid -> [Proc -> Nat]]
      /\ Stored \subseteq Stored' /\ bars \subseteq Stored'
      /\ \A b \in Grid, p \in Proc :
            rows'[b][p] = IF p = Owner(t) /\ b \in bars THEN rows[b][p] + 1 ELSE rows[b][p]
  BY <1>1, StoredGrows
<1>3. \A b \in bars : rows[b][Owner(t)] = 0
  <2>1. CASE fills[t].pc = "write"
    BY <2>1, <1>1 DEF FillInv
  <2>2. CASE fills[t].pc # "write"
    BY <2>2, <1>1 DEF FillInv
  <2>3. QED
    BY <2>1, <2>2
<1>4. ASSUME NEW b \in Grid, NEW p \in Proc PROVE rows'[b][p] <= 1
  BY <1>2, <1>3 DEF OncePerProcess
<1>5. Stored' \subseteq Grid
  BY DEF Stored
<1>6. QED
  BY <1>1, <1>2, <1>4, <1>5 DEF OncePerProcess

LEMMA NoInsert ==
    ASSUME SeamlessInv, NEW t \in Task, UNCHANGED <<rows, found>>
    PROVE  /\ rows' \in [Grid -> [Proc -> Nat]] /\ OncePerProcess' /\ Stored' = Stored
           /\ \A b \in Grid, q \in Proc : q # Owner(t) => rows'[b][q] = rows[b][q]
BY StoredSame DEF SeamlessInv, StateInv, OncePerProcess

\* A step that leaves the fetches alone.
LEMMA FetchesSame ==
    ASSUME SeamlessInv, NEW t \in Task, UNCHANGED fetches
    PROVE  /\ fetches' \in [Proc -> FetchState]
           /\ \A q \in Proc : /\ fetches'[q].pc = fetches[q].pc /\ fetches'[q].n = fetches[q].n
                              /\ t # <<q, 0>> => fetches'[q] = fetches[q]
           /\ \A p \in Proc : FetchKept(p)
BY DEF SeamlessInv, StateInv, FetchKept

ShortBy(t, bars) == [fetches EXCEPT ![Owner(t)].short = IF t[2] = 0 THEN @ \cup bars ELSE @]

\* A step that adds to the bars left out of an answer, when it is one of the planner.
LEMMA FetchesShort ==
    ASSUME SeamlessInv, NEW t \in Task, NEW bars \in SUBSET Grid, fetches' = ShortBy(t, bars)
    PROVE  /\ fetches' \in [Proc -> FetchState]
           /\ \A q \in Proc : /\ fetches'[q].pc = fetches[q].pc /\ fetches'[q].n = fetches[q].n
                              /\ t # <<q, 0>> => fetches'[q] = fetches[q]
           /\ \A p \in Proc : t = <<p, 0>> =>
                 FetchKept(p) /\ fetches'[p].short = fetches[p].short \cup bars
<1>1. Owner(t) \in Proc /\ fetches \in [Proc -> FetchState]
  BY TaskOf DEF SeamlessInv, StateInv
<1>2. PICK fetch \in FetchState : fetch = fetches[Owner(t)]
  BY <1>1
<1>3. PICK after : after = [fetch EXCEPT !.short = IF t[2] = 0 THEN fetch.short \cup bars ELSE fetch.short]
  OBVIOUS
<1>4. fetches' = [fetches EXCEPT ![Owner(t)] = after]
  BY <1>1, <1>2, <1>3 DEF ShortBy
<1>5. /\ after \in FetchState /\ after.pc = fetch.pc /\ after.n = fetch.n /\ after.due = fetch.due
      /\ after.gaps = fetch.gaps /\ after.ends = fetch.ends /\ after.got = fetch.got
      /\ after.clean = fetch.clean
      /\ after.short = IF t[2] = 0 THEN fetch.short \cup bars ELSE fetch.short
  BY <1>3 DEF FetchState
<1>6. t[2] # 0 => after = fetch
  BY <1>3 DEF FetchState
<1>7. fetches' \in [Proc -> FetchState] /\ fetches'[Owner(t)] = after
          /\ \A q \in Proc : q # Owner(t) => fetches'[q] = fetches[q]
  BY <1>1, <1>4, <1>5
<1>8. ASSUME NEW q \in Proc, t # <<q, 0>> PROVE fetches'[q] = fetches[q]
  <2>1. CASE q # Owner(t)
    BY <2>1, <1>7
  <2>2. CASE q = Owner(t)
    BY <2>2, <1>2, <1>6, <1>7, <1>8, TaskOf
  <2>3. QED
    BY <2>1, <2>2
<1>9. ASSUME NEW q \in Proc PROVE fetches'[q].pc = fetches[q].pc /\ fetches'[q].n = fetches[q].n
  BY <1>2, <1>5, <1>7
<1>10. ASSUME NEW p \in Proc, t = <<p, 0>>
       PROVE  FetchKept(p) /\ fetches'[p].short = fetches[p].short \cup bars
  <2>1. Owner(t) = p /\ t[2] = 0
    BY <1>10, TaskOf
  <2>2. QED
    BY <2>1, <1>2, <1>5, <1>7 DEF FetchKept
<1>11. QED
  BY <1>7, <1>8, <1>9, <1>10

\* A pass over the gaps ends: all of the chunk is settled.
LEMMA PassEndsStep ==
    ASSUME SeamlessInv, NEW t \in Task, StepOf(t), fills[t].pc \in Working,
           NEW covered \in {None} \cup SUBSET Grid, covered # None => covered \subseteq Stored',
           PassEnds(t, covered), locks[Owner(t)] \in {None, t},
           \A p \in Proc : t = <<p, 0>> =>
               FetchKept(p) /\ Bars(Chunk(t)) \subseteq Stored' \cup fetches'[p].short
    PROVE  SeamlessInv'
<1>1. StateInv /\ KnownIsStored /\ Owner(t) \in Proc /\ fills[t] \in FillState /\ fills[t].pc # "none"
          /\ fills[t].chunks # <<>> /\ Stored \subseteq Stored'
  BY TaskOf, ChunkOf DEF SeamlessInv, Working, StepOf
<1>2. PICK fill : fill = (IF fills[t].reads THEN Begun(t, "read", TRUE) ELSE Begun(t, "next", TRUE))
  OBVIOUS
<1>3. /\ fill \in FillState /\ fill.pc \in {"next", "read"} /\ fill.reads /\ fill.new = {}
      /\ fill.chunks = fills[t].chunks /\ fill.frame = fills[t].frame
      /\ fill.pc = "read" <=> fills[t].reads
  <2>1. {"next", "read"} \subseteq Working
    BY DEF Working
  <2>2. "next" \in Working /\ "read" \in Working /\ TRUE \in BOOLEAN /\ fills[t] \in FillState
    BY <1>1, <2>1
  <2>3. CASE fills[t].reads
    <3>1. fill = Begun(t, "read", TRUE)
      BY <1>2, <2>3
    <3>2. /\ fill \in FillState /\ fill.pc = "read" /\ fill.reads = TRUE /\ fill.new = {}
          /\ fill.chunks = fills[t].chunks /\ fill.frame = fills[t].frame
      BY <2>2, <3>1, BegunSound, Zenon
    <3>3. QED
      BY <2>3, <3>2
  <2>4. CASE ~fills[t].reads
    <3>1. fill = Begun(t, "next", TRUE)
      BY <1>2, <2>4
    <3>2. /\ fill \in FillState /\ fill.pc = "next" /\ fill.reads = TRUE /\ fill.new = {}
          /\ fill.chunks = fills[t].chunks /\ fill.frame = fills[t].frame
      BY <2>2, <3>1, BegunSound, Zenon
    <3>3. QED
      BY <2>4, <3>2
  <2>5. QED
    BY <2>3, <2>4
<1>4. /\ fills' = [fills EXCEPT ![t] = fill] /\ known' = [known EXCEPT ![Owner(t)] = covered]
      /\ locks' = [locks EXCEPT ![Owner(t)] = IF fills[t].reads THEN t ELSE None]
  BY <1>2 DEF PassEnds, Unlocked
<1>5. /\ fills'[t] = fill /\ locks' \in [Proc -> {None} \cup Task]
      /\ fills[t].reads => locks'[Owner(t)] = t
      /\ \A q \in Proc : q # Owner(t) => locks'[q] = locks[q]
      /\ known' \in [Proc -> {None} \cup SUBSET Grid]
  BY <1>1, <1>4 DEF StateInv
<1>6. KnownIsStored'
  BY <1>1, <1>4 DEF StateInv, KnownIsStored
<1>7. FillInv(t)'
  BY <1>1, <1>3, <1>5 DEF FillInv, Working, Owner
<1>8. ASSUME NEW p \in Proc, t = <<p, 0>> PROVE PlanInv(p)'
  <2>1. ChunkInv(p)'
    BY <1>3, <1>5, <1>8 DEF ChunkInv, Chunk
  <2>2. fills'[t].pc \in Working /\ FetchKept(p)
    BY <1>3, <1>5, <1>8 DEF Working
  <2>3. QED
    BY <1>1, <1>3, <1>5, <1>8, <2>1, <2>2, PlanGoesOn
<1>9. QED
  BY <1>1, <1>3, <1>4, <1>5, <1>6, <1>7, <1>8, FillStepKeeps

\* A gap is through.
LEMMA GapDoneStep ==
    ASSUME SeamlessInv, NEW t \in Task, StepOf(t), fills[t].pc \in {"ask", "write"},
           NEW fill \in FillState, GapDone(t, fill),
           fill.chunks = fills[t].chunks, fill.frame = fills[t].frame, fill.reads = fills[t].reads,
           fill.new = {}, fill.cover \subseteq Stored',
           \A b \in fill.miss : rows'[b][Owner(t)] = 0,
           \A p \in Proc : t = <<p, 0>> =>
               /\ FetchKept(p) /\ Bars(Chunk(t)) \subseteq Stored' \cup fetches'[p].short \cup fill.miss
               /\ fills[t].reads => Bars(Chunk(t)) \subseteq Stored' \cup fetches'[p].short
    PROVE  SeamlessInv'
<1>1. /\ StateInv /\ KnownIsStored /\ Owner(t) \in Proc /\ FillInv(t) /\ fills[t].pc \in Working
      /\ fills[t].pc # "none" /\ Stored \subseteq Stored' /\ locks[Owner(t)] = t
  BY TaskOf DEF SeamlessInv, Working, StepOf, FillInv
<1>2. CASE fill.miss = {} /\ ~fill.refreshed /\ PassEnds(t, fill.cover)
  <2>1. fill.cover \in SUBSET Grid
    BY DEF FillState
  <2>2. QED
    BY <1>1, <1>2, <2>1, PassEndsStep
<1>3. CASE fills' = [fills EXCEPT ![t] = [fill EXCEPT !.pc = "ask"]] /\ UNCHANGED <<known, locks>>
  <2>1. PICK after : after = [fill EXCEPT !.pc = "ask"]
    OBVIOUS
  <2>2. /\ after \in FillState /\ after.pc = "ask" /\ after.chunks = fill.chunks /\ after.frame = fill.frame
        /\ after.reads = fill.reads /\ after.new = {} /\ after.miss = fill.miss /\ after.cover = fill.cover
    BY <2>1 DEF FillState, Working
  <2>3. fills' = [fills EXCEPT ![t] = after] /\ fills'[t] = after
    BY <1>1, <1>3, <2>1 DEF StateInv
  <2>4. /\ known' \in [Proc -> {None} \cup SUBSET Grid] /\ locks' \in [Proc -> {None} \cup Task]
        /\ \A q \in Proc : locks'[q] = locks[q]
        /\ KnownIsStored'
    BY <1>1, <1>3 DEF StateInv, KnownIsStored
  <2>5. FillInv(t)'
    BY <1>1, <2>2, <2>3, <2>4 DEF FillInv, Working, Owner
  <2>6. ASSUME NEW p \in Proc, t = <<p, 0>> PROVE PlanInv(p)'
    <3>1. ChunkInv(p)'
      BY <2>2, <2>3, <2>6 DEF ChunkInv, Chunk
    <3>2. fills'[t].pc \in Working /\ FetchKept(p)
      BY <2>2, <2>3, <2>6 DEF Working
    <3>3. QED
      BY <1>1, <2>2, <2>3, <2>6, <3>1, <3>2, PlanGoesOn
  <2>7. QED
    BY <1>1, <2>2, <2>3, <2>4, <2>5, <2>6, FillStepKeeps
<1>4. QED
  BY <1>2, <1>3 DEF GapDone

\* The bare fetcher is asked: the chunk begins anew.
LEMMA AskDirectlyStep ==
    ASSUME SeamlessInv, NEW t \in Task, StepOf(t), fills[t].pc \in Working, AskDirectly(t),
           UNCHANGED <<fetches, known>>, locks[Owner(t)] \in {None, t}
    PROVE  SeamlessInv'
<1>1. /\ StateInv /\ KnownIsStored /\ Owner(t) \in Proc /\ fills[t] \in FillState /\ fills[t].pc # "none"
      /\ fills[t].chunks # <<>> /\ Stored \subseteq Stored'
  BY TaskOf, ChunkOf DEF SeamlessInv, Working, StepOf
<1>2. PICK fill : fill = Begun(t, "direct", FALSE)
  OBVIOUS
<1>3. /\ fill \in FillState /\ fill.pc = "direct" /\ ~fill.reads /\ fill.new = {}
      /\ fill.chunks = fills[t].chunks /\ fill.frame = fills[t].frame
  <2>1. PICK pc \in Working, reads \in BOOLEAN : pc = "direct" /\ reads = FALSE
    BY DEF Working
  <2>2. fill = Begun(t, pc, reads)
    BY <1>2, <2>1
  <2>3. QED
    BY <1>1, <2>1, <2>2, BegunSound
<1>4. /\ fills' = [fills EXCEPT ![t] = fill] /\ fills'[t] = fill
      /\ locks' \in [Proc -> {None} \cup Task]
      /\ \A q \in Proc : q # Owner(t) => locks'[q] = locks[q]
  BY <1>1, <1>2 DEF AskDirectly, Unlocked, StateInv
<1>5. known' \in [Proc -> {None} \cup SUBSET Grid] /\ KnownIsStored'
  BY <1>1 DEF StateInv, KnownIsStored
<1>6. FillInv(t)'
  BY <1>1, <1>3, <1>4 DEF FillInv
<1>7. ASSUME NEW p \in Proc, t = <<p, 0>> PROVE PlanInv(p)'
  <2>1. ChunkInv(p)'
    BY <1>3, <1>4, <1>7 DEF ChunkInv
  <2>2. fills'[t].pc \in Working /\ FetchKept(p)
    BY <1>3, <1>4, FetchesSame DEF Working
  <2>3. QED
    BY <1>1, <1>3, <1>4, <1>7, <2>1, <2>2, PlanGoesOn
<1>8. QED
  BY <1>1, <1>3, <1>4, <1>5, <1>6, <1>7, FillStepKeeps

LEMMA CoverChunkStep ==
    ASSUME SeamlessInv, NEW t \in Task, CoverChunk(t)
    PROVE  SeamlessInv'
<1>1. /\ StateInv /\ KnownIsStored /\ FillInv(t) /\ Owner(t) \in Proc /\ Stored \in SUBSET Grid
      /\ UNCHANGED <<fetches, flights, lease, rows, found, mishaps>>
  BY TaskOf DEF CoverChunk, SeamlessInv, Stored
<1>2. PICK miss : miss = Asked(t) \ Stored
  OBVIOUS
<1>3. /\ fills[t].pc = "next" /\ locks[Owner(t)] = None
      /\ \/ /\ miss # {} /\ fills' = [fills EXCEPT ![t] = [@ EXCEPT !.pc = "ask", !.miss = miss, !.cover = Stored]]
            /\ known' = [known EXCEPT ![Owner(t)] = Stored] /\ locks' = [locks EXCEPT ![Owner(t)] = t]
         \/ miss = {} /\ PassEnds(t, IF Asked(t) = {} THEN known[Owner(t)] ELSE Stored)
  BY <1>2 DEF CoverChunk, LockFree
<1>4. fills[t].pc \in Working /\ fills[t].pc # "none" /\ fills[t].new = {}
  BY <1>1, <1>3 DEF Working, FillInv
<1>5. /\ fills[t] \in FillState /\ fills[t].chunks # <<>>
      /\ Asked(t) \subseteq Grid /\ (~fills[t].reads => Asked(t) = Bars(Chunk(t)))
  BY <1>4, ChunkOf DEF Asked
<1>6. Stored' = Stored /\ StepOf(t) /\ \A p \in Proc : FetchKept(p)
  <2>1. mishaps' \in [lease : Nat, other : Nat] /\ mishaps'.lease = mishaps.lease
    BY <1>1 DEF StateInv
  <2>2. QED
    BY <2>1, <1>1, NoInsert, FetchesSame DEF StepOf
<1>7. ASSUME NEW p \in Proc, t = <<p, 0>>
      PROVE  fills[t].reads => Bars(Chunk(t)) \subseteq Stored \cup fetches[p].short
  BY <1>4, <1>7 DEF SeamlessInv, PlanInv, ChunkInv, Chunk
<1>8. CASE miss = {} /\ PassEnds(t, IF Asked(t) = {} THEN known[Owner(t)] ELSE Stored)
  <2>1. PICK covered \in {None} \cup SUBSET Grid :
            /\ covered = (IF Asked(t) = {} THEN known[Owner(t)] ELSE Stored)
            /\ covered # None => covered \subseteq Stored
    BY <1>1 DEF StateInv, KnownIsStored
  <2>2. ~fills[t].reads => Bars(Chunk(t)) \subseteq Stored
    BY <1>2, <1>5, <1>8
  <2>3. \A p \in Proc : t = <<p, 0>> =>
            FetchKept(p) /\ Bars(Chunk(t)) \subseteq Stored' \cup fetches'[p].short
    BY <1>1, <1>6, <1>7, <2>2
  <2>4. PassEnds(t, covered) /\ locks[Owner(t)] \in {None, t} /\ (covered # None => covered \subseteq Stored')
    BY <1>3, <1>6, <1>8, <2>1
  <2>5. QED
    BY <1>4, <1>6, <2>3, <2>4, PassEndsStep
<1>9. CASE /\ miss # {} /\ fills' = [fills EXCEPT ![t] = [@ EXCEPT !.pc = "ask", !.miss = miss, !.cover = Stored]]
           /\ known' = [known EXCEPT ![Owner(t)] = Stored] /\ locks' = [locks EXCEPT ![Owner(t)] = t]
  <2>1. PICK fill : fill = [fills[t] EXCEPT !.pc = "ask", !.miss = miss, !.cover = Stored]
    OBVIOUS
  <2>2. /\ fill \in FillState /\ fill.pc = "ask" /\ fill.miss = miss /\ fill.cover = Stored
        /\ fill.new = {} /\ fill.reads = fills[t].reads
        /\ fill.chunks = fills[t].chunks /\ fill.frame = fills[t].frame
    BY <1>1, <1>2, <1>4, <1>5, <2>1 DEF FillState, Working
  <2>3. /\ fills' = [fills EXCEPT ![t] = fill] /\ fills'[t] = fill
        /\ locks' \in [Proc -> {None} \cup Task] /\ locks'[Owner(t)] = t
        /\ \A q \in Proc : q # Owner(t) => locks'[q] = locks[q]
        /\ known' \in [Proc -> {None} \cup SUBSET Grid]
    BY <1>1, <1>9, <2>1 DEF StateInv
  <2>4. KnownIsStored'
    BY <1>1, <1>6, <1>9 DEF StateInv, KnownIsStored
  <2>5. \A b \in miss : rows'[b][Owner(t)] = 0
    BY <1>1, <1>2, <1>5 DEF Stored, StateInv
  <2>6. FillInv(t)'
    BY <1>5, <1>6, <2>2, <2>3, <2>5 DEF FillInv, Owner
  <2>7. ASSUME NEW p \in Proc, t = <<p, 0>> PROVE PlanInv(p)'
    <3>1. ~fills[t].reads => Bars(Chunk(t)) \subseteq Stored \cup miss
      BY <1>2, <1>5
    <3>2. ChunkInv(p)'
      BY <1>1, <1>6, <1>7, <2>2, <2>3, <2>7, <3>1 DEF ChunkInv, Chunk
    <3>3. fills'[t].pc \in Working
      BY <2>2, <2>3 DEF Working
    <3>4. QED
      BY <1>4, <1>6, <2>2, <2>3, <2>7, <3>2, <3>3, PlanGoesOn
  <2>8. fill.pc # "none"
    BY <2>2
  <2>9. QED
    BY <1>3, <1>4, <1>6, <2>2, <2>3, <2>4, <2>6, <2>7, <2>8, FillStepKeeps
<1>10. QED
  BY <1>3, <1>8, <1>9

LEMMA FetchGapStep ==
    ASSUME SeamlessInv, NEW t \in Task, FetchGap(t)
    PROVE  SeamlessInv'
<1>1. /\ StateInv /\ KnownIsStored /\ FillInv(t) /\ Owner(t) \in Proc /\ Stored \in SUBSET Grid
      /\ UNCHANGED <<flights, lease, rows, found>> /\ fills[t].pc = "ask"
  BY TaskOf DEF FetchGap, SeamlessInv, Stored
<1>2. /\ fills[t].pc \in Working /\ fills[t].pc # "none" /\ fills[t].new = {} /\ locks[Owner(t)] = t
      /\ fills[t].cover \subseteq Stored /\ \A b \in fills[t].miss : rows[b][Owner(t)] = 0
  BY <1>1 DEF Working, FillInv
<1>3. fills[t] \in FillState /\ fills[t].chunks # <<>> /\ fills[t].miss \in SUBSET Grid
  BY <1>2, ChunkOf DEF FillState
<1>4. PICK gap \in SUBSET fills[t].miss : gap = FirstGap(fills[t].miss) /\ gap \in SUBSET Grid
  BY <1>3 DEF FirstGap
<1>5. PICK reply \in SUBSET gap :
          /\ Answers(reply, gap)
          /\ LET fill == [fills[t] EXCEPT !.miss = @ \ gap, !.refreshed = @ \/ reply \cap Stored # {}]
             IN \/ /\ ~(reply \subseteq Stored)
                   /\ fills' = [fills EXCEPT ![t] = [fill EXCEPT !.pc = "write", !.new = reply \ Stored]]
                   /\ UNCHANGED <<known, locks>>
                \/ reply \subseteq Stored /\ GapDone(t, fill)
          /\ fetches' = ShortBy(t, gap \ reply)
  BY <1>4, ZenonT(30) DEF FetchGap, ShortBy
<1>6. mishaps' \in [lease : Nat, other : Nat] /\ mishaps'.lease = mishaps.lease
  <2>1. CASE UNCHANGED mishaps
    BY <1>1, <2>1 DEF StateInv
  <2>2. CASE Mishap("other")
    BY <1>1, <2>2, MishapCounts
  <2>3. QED
    BY <1>5, <2>1, <2>2 DEF Answers
<1>7. gap \ reply \in SUBSET Grid
  BY <1>4
<1>8. /\ Stored' = Stored /\ StepOf(t)
      /\ \A p \in Proc : t = <<p, 0>> =>
            FetchKept(p) /\ fetches'[p].short = fetches[p].short \cup (gap \ reply)
  BY <1>1, <1>5, <1>6, <1>7, NoInsert, FetchesShort DEF StepOf
<1>9. PICK miss \in SUBSET Grid, refreshed \in BOOLEAN :
          miss = fills[t].miss \ gap /\ refreshed = (fills[t].refreshed \/ reply \cap Stored # {})
  BY <1>3
<1>10. PICK fill : fill = [fills[t] EXCEPT !.miss = miss, !.refreshed = refreshed]
  OBVIOUS
<1>11. /\ fill \in FillState /\ fill.pc = "ask" /\ fill.miss = miss /\ fill.new = {}
       /\ fill.reads = fills[t].reads /\ fill.chunks = fills[t].chunks /\ fill.frame = fills[t].frame
       /\ fill.cover = fills[t].cover
  BY <1>1, <1>2, <1>3, <1>10 DEF FillState
<1>12. ASSUME NEW p \in Proc, t = <<p, 0>>
       PROVE  /\ fills[t].reads => Bars(Chunk(t)) \subseteq Stored' \cup fetches'[p].short
              /\ ~fills[t].reads =>
                    Bars(Chunk(t)) \subseteq Stored' \cup fetches'[p].short \cup miss \cup (reply \ Stored)
  <2>1. ChunkInv(p)
    BY DEF SeamlessInv, PlanInv
  <2>2. /\ fills[t].reads => Bars(Chunk(t)) \subseteq Stored \cup fetches[p].short
        /\ ~fills[t].reads => Bars(Chunk(t)) \subseteq Stored \cup fetches[p].short \cup fills[t].miss
    BY <1>1, <1>2, <1>12, <2>1 DEF ChunkInv, Chunk
  <2>3. QED
    BY <1>8, <1>9, <1>12, <2>2
<1>13. CASE reply \subseteq Stored /\ GapDone(t, fill)
  <2>1. \A b \in fill.miss : rows'[b][Owner(t)] = 0
    BY <1>1, <1>2, <1>9, <1>11
  <2>2. \A p \in Proc : t = <<p, 0>> =>
            /\ FetchKept(p) /\ Bars(Chunk(t)) \subseteq Stored' \cup fetches'[p].short \cup fill.miss
            /\ fills[t].reads => Bars(Chunk(t)) \subseteq Stored' \cup fetches'[p].short
    BY <1>8, <1>11, <1>12, <1>13
  <2>3. fill.cover \subseteq Stored' /\ fills[t].pc \in {"ask", "write"}
    BY <1>1, <1>2, <1>8, <1>11
  <2>4. QED
    BY <1>8, <1>11, <1>13, <2>1, <2>2, <2>3, GapDoneStep
<1>14. CASE /\ fills' = [fills EXCEPT ![t] = [fill EXCEPT !.pc = "write", !.new = reply \ Stored]]
            /\ UNCHANGED <<known, locks>>
  <2>0. PICK new \in SUBSET Grid : new = reply \ Stored
    BY <1>4
  <2>1. PICK after : after = [fill EXCEPT !.pc = "write", !.new = new]
    OBVIOUS
  <2>2. /\ after \in FillState /\ after.pc = "write" /\ after.miss = miss /\ after.cover = fills[t].cover
        /\ after.new = new /\ after.reads = fills[t].reads
        /\ after.chunks = fills[t].chunks /\ after.frame = fills[t].frame
    BY <1>11, <2>1 DEF FillState, Working
  <2>3. /\ fills' = [fills EXCEPT ![t] = after] /\ fills'[t] = after
        /\ locks' \in [Proc -> {None} \cup Task] /\ locks'[Owner(t)] = t
        /\ \A q \in Proc : q # Owner(t) => locks'[q] = locks[q]
        /\ known' \in [Proc -> {None} \cup SUBSET Grid]
    BY <1>1, <1>2, <1>14, <2>0, <2>1 DEF StateInv
  <2>4. KnownIsStored'
    BY <1>1, <1>8, <1>14 DEF StateInv, KnownIsStored
  <2>5. miss \cap new = {} /\ \A b \in miss \cup new : rows'[b][Owner(t)] = 0
    BY <1>1, <1>2, <1>9, <2>0
  <2>6. FillInv(t)'
    BY <1>2, <1>3, <1>8, <2>2, <2>3, <2>5 DEF FillInv, Owner
  <2>7. ASSUME NEW p \in Proc, t = <<p, 0>> PROVE PlanInv(p)'
    <3>1. ChunkInv(p)'
      BY <1>12, <2>0, <2>2, <2>3, <2>7 DEF ChunkInv, Chunk
    <3>2. fills'[t].pc \in Working /\ FetchKept(p)
      BY <1>8, <2>2, <2>3, <2>7 DEF Working
    <3>3. QED
      BY <1>2, <1>8, <2>2, <2>3, <2>7, <3>1, <3>2, PlanGoesOn
  <2>8. after.pc # "none"
    BY <2>2
  <2>9. QED
    BY <1>2, <1>8, <2>2, <2>3, <2>4, <2>6, <2>7, <2>8, FillStepKeeps
<1>15. QED
  BY <1>5, <1>9, <1>10, <1>13, <1>14

LEMMA WriteGapStep ==
    ASSUME SeamlessInv, NEW t \in Task, WriteGap(t)
    PROVE  SeamlessInv'
<1>1. /\ StateInv /\ FillInv(t) /\ fills[t].pc = "write" /\ fills[t].pc \in Working
      /\ UNCHANGED <<fetches, flights, lease, found, mishaps>>
  BY DEF WriteGap, SeamlessInv, Working
<1>2. PICK new \in SUBSET Grid : new = fills[t].new /\ Insert(t, new)
  BY <1>1, ChunkOf DEF WriteGap, FillState
<1>3. /\ rows' \in [Grid -> [Proc -> Nat]] /\ OncePerProcess'
      /\ Stored \subseteq Stored' /\ new \subseteq Stored'
      /\ \A b \in Grid, q \in Proc : q # Owner(t) => rows'[b][q] = rows[b][q]
      /\ \A b \in Grid \ new : rows'[b][Owner(t)] = rows[b][Owner(t)]
  BY <1>1, <1>2, InsertSound
<1>4. StepOf(t) /\ \A p \in Proc : FetchKept(p)
  <2>1. mishaps' \in [lease : Nat, other : Nat] /\ mishaps'.lease = mishaps.lease
    BY <1>1 DEF StateInv
  <2>2. QED
    BY <2>1, <1>1, <1>3, FetchesSame DEF StepOf
<1>5. /\ fills[t].cover \subseteq Stored /\ fills[t].miss \cap new = {}
      /\ \A b \in fills[t].miss : rows[b][Owner(t)] = 0
  BY <1>1, <1>2 DEF FillInv
<1>6. fills[t] \in FillState /\ fills[t].miss \in SUBSET Grid /\ fills[t].cover \cup new \in SUBSET Grid
  BY <1>1, <1>2, ChunkOf DEF FillState
<1>7. PICK cover \in SUBSET Grid : cover = fills[t].cover \cup new
  BY <1>6
<1>8. PICK fill : fill = [fills[t] EXCEPT !.new = {}, !.cover = cover]
  OBVIOUS
<1>9. /\ fill \in FillState /\ fill.miss = fills[t].miss /\ fill.new = {} /\ fill.cover = cover
      /\ fill.reads = fills[t].reads /\ fill.chunks = fills[t].chunks /\ fill.frame = fills[t].frame
  BY <1>6, <1>8 DEF FillState
<1>10. GapDone(t, fill)
  BY <1>2, <1>7, <1>8 DEF WriteGap
<1>11. \A b \in fill.miss : rows'[b][Owner(t)] = 0
  BY <1>3, <1>5, <1>6, <1>9
<1>12. ASSUME NEW p \in Proc, t = <<p, 0>>
       PROVE  /\ FetchKept(p) /\ Bars(Chunk(t)) \subseteq Stored' \cup fetches'[p].short \cup fill.miss
              /\ fills[t].reads => Bars(Chunk(t)) \subseteq Stored' \cup fetches'[p].short
  <2>1. ChunkInv(p)
    BY DEF SeamlessInv, PlanInv
  <2>2. /\ fills[t].reads => Bars(Chunk(t)) \subseteq Stored \cup fetches[p].short
        /\ ~fills[t].reads => Bars(Chunk(t)) \subseteq Stored \cup fetches[p].short \cup fills[t].miss \cup new
    BY <1>1, <1>2, <1>12, <2>1 DEF ChunkInv, Chunk
  <2>3. QED
    BY <1>1, <1>3, <1>4, <1>9, <2>2
<1>13. fill.cover \subseteq Stored' /\ fills[t].pc \in {"ask", "write"}
  BY <1>1, <1>3, <1>5, <1>7, <1>9
<1>14. QED
  BY <1>4, <1>9, <1>10, <1>11, <1>12, <1>13, GapDoneStep

LEMMA RefreshCoverageStep ==
    ASSUME SeamlessInv, NEW t \in Task, RefreshCoverage(t)
    PROVE  SeamlessInv'
<1>1. /\ StateInv /\ FillInv(t) /\ fills[t].pc = "ask" /\ fills[t].miss = {} /\ fills[t].pc \in Working
      /\ Stored \in SUBSET Grid
      /\ UNCHANGED <<fetches, flights, lease, rows, found, mishaps>>
  BY DEF RefreshCoverage, SeamlessInv, Working, Stored
<1>2. Stored' = Stored /\ StepOf(t) /\ \A p \in Proc : FetchKept(p)
  <2>1. mishaps' \in [lease : Nat, other : Nat] /\ mishaps'.lease = mishaps.lease
    BY <1>1 DEF StateInv
  <2>2. QED
    BY <2>1, <1>1, NoInsert, FetchesSame DEF StepOf
<1>3. ASSUME NEW p \in Proc, t = <<p, 0>>
      PROVE  FetchKept(p) /\ Bars(Chunk(t)) \subseteq Stored' \cup fetches'[p].short
  <2>1. ChunkInv(p) /\ fills[t].new = {} /\ fills[t].reads \in BOOLEAN
    BY <1>1, ChunkOf DEF SeamlessInv, PlanInv, FillInv, FillState
  <2>2. Bars(Chunk(t)) \subseteq Stored \cup fetches[p].short
    BY <1>1, <1>3, <2>1 DEF ChunkInv, Chunk
  <2>3. QED
    BY <1>1, <1>2, <2>2
<1>4. PassEnds(t, Stored) /\ locks[Owner(t)] \in {None, t} /\ Stored \subseteq Stored'
  BY <1>1, <1>2 DEF RefreshCoverage, FillInv
<1>5. QED
  BY <1>1, <1>2, <1>3, <1>4, PassEndsStep

LEMMA ReadChunkStep ==
    ASSUME SeamlessInv, NEW t \in Task, ReadChunk(t)
    PROVE  SeamlessInv'
<1>1. /\ StateInv /\ KnownIsStored /\ FillInv(t) /\ fills[t].pc = "read" /\ fills[t].pc \in Working
      /\ fills[t].pc # "none" /\ Owner(t) \in Proc
      /\ UNCHANGED <<fetches, flights, lease, rows, found, known, mishaps>>
  BY TaskOf DEF ReadChunk, SeamlessInv, Working
<1>2. Stored' = Stored /\ StepOf(t) /\ \A p \in Proc : FetchKept(p)
  <2>1. mishaps' \in [lease : Nat, other : Nat] /\ mishaps'.lease = mishaps.lease
    BY <1>1 DEF StateInv
  <2>2. QED
    BY <2>1, <1>1, NoInsert, FetchesSame DEF StepOf
<1>3. PICK frame \in SUBSET Grid : frame = HalfOpen(Chunk(t)) \cap Stored /\ ChunkDone(t, frame)
  BY <1>1, ChunkOf DEF ReadChunk
<1>4. PICK fill \in FillState :
          /\ fills' = [fills EXCEPT ![t] = fill] /\ fills'[t] = fill
          /\ fill.pc \in {"next", "done"} /\ ~fill.reads /\ fill.new = {}
          /\ fill.chunks = Tail(fills[t].chunks)
          /\ fill.frame = (IF t[2] = 0 THEN fills[t].frame \cup frame ELSE {})
          /\ fill.pc = "done" <=> fill.chunks = <<>>
  BY <1>1, <1>3, ChunkDoneSound
<1>5. /\ locks' \in [Proc -> {None} \cup Task] /\ \A q \in Proc : q # Owner(t) => locks'[q] = locks[q]
      /\ locks[Owner(t)] \in {None, t}
  BY <1>1 DEF ReadChunk, Unlocked, StateInv, FillInv
<1>6. known' \in [Proc -> {None} \cup SUBSET Grid] /\ KnownIsStored'
  BY <1>1, <1>2 DEF StateInv, KnownIsStored
<1>7. FillInv(t)'
  BY <1>4 DEF FillInv, Working
<1>8. ASSUME NEW p \in Proc, t = <<p, 0>> PROVE PlanInv(p)'
  <2>1. ChunkInv(p) /\ fills[t].reads /\ t[2] = 0
    BY <1>1, <1>8, TaskOf DEF SeamlessInv, PlanInv, FillInv
  <2>2. Bars(Chunk(t)) \subseteq Stored \cup fetches[p].short
    BY <1>1, <1>8, <2>1 DEF ChunkInv, Chunk
  <2>3. HalfOpen(Chunk(t)) \subseteq Bars(Chunk(t)) /\ HalfOpen(Chunk(t)) \subseteq HalfOpen(Request)
    BY <1>1, ChunkOf
  <2>4. /\ FetchKept(p) /\ frame \subseteq HalfOpen(Request)
        /\ Bars(Chunk(t)) \subseteq Stored' \cup fetches'[p].short
        /\ HalfOpen(Chunk(t)) \subseteq frame \cup fetches'[p].short
    BY <1>1, <1>2, <1>3, <2>2, <2>3
  <2>5. /\ fetches'[p].pc = fetches[p].pc /\ fetches'[p].n = fetches[p].n
        /\ fetches'[p].due = fetches[p].due /\ fetches'[p].gaps = fetches[p].gaps
    BY <1>1
  <2>6. /\ fills'[t].pc \in {"next", "done"} /\ ~fills'[t].reads
        /\ fills'[t].chunks = Tail(fills[t].chunks) /\ fills'[t].frame = fills[t].frame \cup frame
    BY <1>4, <2>1
  <2>7. QED
    BY <1>1, <1>2, <1>8, <2>4, <2>5, <2>6, PlanLeavesChunk
<1>9. fill.pc # "none"
  BY <1>4
<1>10. QED
  BY <1>1, <1>2, <1>4, <1>5, <1>6, <1>7, <1>8, <1>9, FillStepKeeps

LEMMA EmptyReadStep ==
    ASSUME SeamlessInv, NEW t \in Task, EmptyRead(t)
    PROVE  SeamlessInv'
<1>1. /\ StateInv /\ FillInv(t) /\ fills[t].pc \in {"ask", "read"} /\ fills[t].pc \in Working
      /\ AskDirectly(t)
      /\ UNCHANGED <<fetches, flights, lease, rows, found, known, mishaps>>
  BY DEF EmptyRead, SeamlessInv, Working
<1>2. StepOf(t)
  <2>1. mishaps' \in [lease : Nat, other : Nat] /\ mishaps'.lease = mishaps.lease
    BY <1>1 DEF StateInv
  <2>2. QED
    BY <2>1, <1>1, NoInsert, FetchesSame DEF StepOf
<1>3. locks[Owner(t)] \in {None, t}
  BY <1>1 DEF FillInv
<1>4. QED
  BY <1>1, <1>2, <1>3, AskDirectlyStep

\* Whatever had been inserted before a call failed stays.
LEMMA StorageFailsStep ==
    ASSUME SeamlessInv, NEW t \in Task, StorageFails(t)
    PROVE  SeamlessInv'
<1>1. /\ StateInv /\ FillInv(t) /\ AskDirectly(t)
      /\ (fills[t].pc = "next" /\ locks[Owner(t)] = None) \/ fills[t].pc \in {"ask", "write", "read"}
      /\ UNCHANGED <<fetches, flights, lease, found, known>>
  BY DEF StorageFails, SeamlessInv, LockFree
<1>2. PICK bars \in SUBSET fills[t].new : Insert(t, bars)
  BY DEF StorageFails
<1>3. /\ rows' \in [Grid -> [Proc -> Nat]] /\ OncePerProcess' /\ Stored \subseteq Stored'
      /\ \A b \in Grid, q \in Proc : q # Owner(t) => rows'[b][q] = rows[b][q]
  BY <1>1, <1>2, InsertSound
<1>4. StepOf(t)
  <2>1. mishaps' \in [lease : Nat, other : Nat] /\ mishaps'.lease = mishaps.lease
    BY <1>1, MishapCounts DEF StorageFails
  <2>2. QED
    BY <2>1, <1>1, <1>3, FetchesSame DEF StepOf
<1>5. fills[t].pc \in Working /\ locks[Owner(t)] \in {None, t}
  BY <1>1 DEF FillInv, Working
<1>6. QED
  BY <1>1, <1>4, <1>5, AskDirectlyStep

LEMMA FetchDirectlyStep ==
    ASSUME SeamlessInv, NEW t \in Task, FetchDirectly(t)
    PROVE  SeamlessInv'
<1>1. /\ StateInv /\ KnownIsStored /\ FillInv(t) /\ fills[t].pc = "direct" /\ fills[t].pc \in Working
      /\ fills[t].pc # "none" /\ Owner(t) \in Proc
      /\ UNCHANGED <<flights, lease, rows, found, known, locks>>
  BY TaskOf DEF FetchDirectly, SeamlessInv, Working
<1>2. PICK reply \in SUBSET Bars(Chunk(t)) : Answers(reply, Bars(Chunk(t))) /\ ChunkDone(t, reply)
  BY DEF FetchDirectly
<1>3. reply \in SUBSET Grid
  BY <1>1, <1>2, ChunkOf
<1>4. PICK fill \in FillState :
          /\ fills' = [fills EXCEPT ![t] = fill] /\ fills'[t] = fill
          /\ fill.pc \in {"next", "done"} /\ ~fill.reads /\ fill.new = {}
          /\ fill.chunks = Tail(fills[t].chunks)
          /\ fill.frame = (IF t[2] = 0 THEN fills[t].frame \cup reply ELSE {})
          /\ fill.pc = "done" <=> fill.chunks = <<>>
  BY <1>1, <1>2, <1>3, ChunkDoneSound
<1>5. mishaps' \in [lease : Nat, other : Nat] /\ mishaps'.lease = mishaps.lease
  <2>1. CASE UNCHANGED mishaps
    BY <1>1, <2>1 DEF StateInv
  <2>2. CASE Mishap("other")
    BY <1>1, <2>2, MishapCounts
  <2>3. QED
    BY <1>2, <2>1, <2>2 DEF Answers
<1>6. PICK fetch \in FetchState : fetch = fetches[Owner(t)]
  BY <1>1 DEF StateInv
<1>7. PICK after : after = [fetch EXCEPT !.clean = fetch.clean /\ t[2] > 0]
  OBVIOUS
<1>8. fetches' = [fetches EXCEPT ![Owner(t)] = after]
  <2>1. fetches' = [fetches EXCEPT ![Owner(t)].clean = @ /\ t[2] > 0]
    BY DEF FetchDirectly
  <2>2. QED
    BY <2>1, <1>1, <1>6, <1>7 DEF StateInv
<1>9. /\ after \in FetchState /\ after.pc = fetch.pc /\ after.n = fetch.n /\ after.due = fetch.due
      /\ after.gaps = fetch.gaps /\ after.clean = (fetch.clean /\ t[2] > 0)
  BY <1>7 DEF FetchState
<1>10. t[2] # 0 => after = fetch
  <2>1. t[2] # 0 => t[2] > 0
    BY TaskOf
  <2>2. fetch.clean \in BOOLEAN
    BY DEF FetchState
  <2>3. t[2] # 0 => (fetch.clean /\ t[2] > 0) = fetch.clean
    BY <2>1, <2>2
  <2>4. QED
    BY <1>7, <2>3 DEF FetchState
<1>11. /\ fetches' \in [Proc -> FetchState] /\ fetches'[Owner(t)] = after
       /\ \A q \in Proc : q # Owner(t) => fetches'[q] = fetches[q]
  BY <1>1, <1>8, <1>9 DEF StateInv
<1>12. ASSUME NEW q \in Proc, t # <<q, 0>> PROVE fetches'[q] = fetches[q]
  <2>1. CASE q # Owner(t)
    BY <2>1, <1>11
  <2>2. CASE q = Owner(t)
    BY <2>2, <1>6, <1>10, <1>11, <1>12, TaskOf
  <2>3. QED
    BY <2>1, <2>2
<1>13. Stored' = Stored /\ StepOf(t)
  <2>1. \A q \in Proc : fetches'[q].pc = fetches[q].pc /\ fetches'[q].n = fetches[q].n
    BY <1>6, <1>9, <1>11
  <2>2. QED
    BY <2>1, <1>1, <1>5, <1>11, <1>12, NoInsert DEF StepOf
<1>14. /\ known' \in [Proc -> {None} \cup SUBSET Grid] /\ KnownIsStored'
       /\ locks' \in [Proc -> {None} \cup Task] /\ \A q \in Proc : q # Owner(t) => locks'[q] = locks[q]
  BY <1>1, <1>13 DEF StateInv, KnownIsStored
<1>15. FillInv(t)'
  BY <1>4 DEF FillInv, Working
<1>16. ASSUME NEW p \in Proc, t = <<p, 0>> PROVE PlanInv(p)'
  <2>1. Owner(t) = p /\ t[2] = 0 /\ ~(t[2] > 0)
    BY <1>16, TaskOf
  <2>2. /\ fetches'[p].pc = fetches[p].pc /\ fetches'[p].n = fetches[p].n
        /\ fetches'[p].due = fetches[p].due /\ fetches'[p].gaps = fetches[p].gaps /\ ~fetches'[p].clean
    BY <2>1, <1>6, <1>9, <1>11
  <2>3. /\ fills'[t].pc \in {"next", "done"} /\ ~fills'[t].reads
        /\ fills'[t].chunks = Tail(fills[t].chunks) /\ fills'[t].frame = fills[t].frame \cup reply
    BY <1>4, <2>1
  <2>4. QED
    BY <1>1, <1>13, <1>16, <2>2, <2>3, PlanLeavesChunk
<1>17. fill.pc # "none"
  BY <1>4
<1>18. QED
  BY <1>1, <1>4, <1>13, <1>14, <1>15, <1>16, <1>17, FillStepKeeps

LEMMA FetcherFailsStep ==
    ASSUME SeamlessInv, NEW t \in Task, FetcherFails(t)
    PROVE  SeamlessInv'
<1>1. /\ StateInv /\ KnownIsStored /\ FillInv(t) /\ fills[t].pc = "direct" /\ fills[t].pc \in Working
      /\ fills[t].pc # "none" /\ fills[t] \in FillState /\ fills[t].chunks # <<>> /\ fills[t].new = {}
      /\ UNCHANGED <<fetches, flights, lease, rows, found, known, locks, mishaps>>
  BY DEF FetcherFails, SeamlessInv, StateInv, Working, FillInv
<1>2. PICK fill : fill = (IF fills[t].tries + 1 < Attempts
                          THEN [fills[t] EXCEPT !.pc = "next", !.tries = fills[t].tries + 1]
                          ELSE [NoFill EXCEPT !.pc = "failed"])
  OBVIOUS
<1>3. fills' = [fills EXCEPT ![t] = fill] /\ fills'[t] = fill
  BY <1>1, <1>2 DEF FetcherFails, StateInv
<1>4. /\ fill \in FillState /\ fill.new = {}
      /\ \/ /\ fill.pc = "next" /\ fill.chunks = fills[t].chunks /\ fill.frame = fills[t].frame
            /\ fill.reads = fills[t].reads
         \/ fill.pc = "failed" /\ fill.frame = {}
  <2>1. CASE fills[t].tries + 1 < Attempts
    <3>1. fill = [fills[t] EXCEPT !.pc = "next", !.tries = fills[t].tries + 1]
              /\ fills[t].tries + 1 \in Nat
      BY <2>1, <1>1, <1>2 DEF FillState
    <3>2. QED
      BY <3>1, <1>1 DEF FillState, Working
  <2>2. CASE ~(fills[t].tries + 1 < Attempts)
    <3>1. /\ fill = [NoFill EXCEPT !.pc = "failed"] /\ NoFill \in FillState
          /\ NoFill.frame = {} /\ NoFill.new = {}
      BY <2>2, <1>2, NoFillTyped DEF NoFill
    <3>2. QED
      BY <3>1 DEF FillState
  <2>3. QED
    BY <2>1, <2>2
<1>5. Stored' = Stored /\ StepOf(t) /\ \A p \in Proc : FetchKept(p)
  <2>1. mishaps' \in [lease : Nat, other : Nat] /\ mishaps'.lease = mishaps.lease
    BY <1>1 DEF StateInv
  <2>2. QED
    BY <2>1, <1>1, NoInsert, FetchesSame DEF StepOf
<1>6. /\ known' \in [Proc -> {None} \cup SUBSET Grid] /\ KnownIsStored'
      /\ locks' \in [Proc -> {None} \cup Task] /\ \A q \in Proc : q # Owner(t) => locks'[q] = locks[q]
  BY <1>1, <1>5 DEF StateInv, KnownIsStored
<1>7. FillInv(t)'
  BY <1>1, <1>3, <1>4 DEF FillInv, Working
<1>8. ASSUME NEW p \in Proc, t = <<p, 0>> PROVE PlanInv(p)'
  <2>0. PlanInv(p) /\ ChunkInv(p)
    BY DEF SeamlessInv, PlanInv
  <2>1. CASE /\ fill.pc = "next" /\ fill.chunks = fills[t].chunks /\ fill.frame = fills[t].frame
             /\ fill.reads = fills[t].reads
    <3>1. ChunkInv(p)'
      BY <1>1, <1>3, <1>5, <1>8, <2>0, <2>1 DEF ChunkInv, Chunk
    <3>2. fills'[t].pc \in Working
      BY <1>3, <2>1 DEF Working
    <3>3. QED
      BY <1>1, <1>3, <1>5, <1>8, <2>1, <3>1, <3>2, PlanGoesOn
  <2>2. CASE fill.pc = "failed" /\ fill.frame = {}
    <3>1. ChunkInv(p)'
      BY <1>3, <1>8, <2>2 DEF ChunkInv, Working
    <3>2. GapInv(p)'
      BY <1>3, <1>8, <2>2 DEF GapInv, Working
    <3>3. FetchInv(p)'
      BY <1>1, <1>5, <2>0 DEF PlanInv, FetchInv
    <3>4. QED
      BY <1>1, <1>3, <1>5, <1>8, <2>0, <2>2, <3>1, <3>2, <3>3 DEF PlanInv
  <2>3. QED
    BY <1>4, <2>1, <2>2
<1>9. fill.pc # "none"
  BY <1>4
<1>10. QED
  BY <1>1, <1>3, <1>4, <1>5, <1>6, <1>7, <1>8, <1>9, FillStepKeeps

LEMMA SeamlessStep ==
    ASSUME SeamlessInv, [SeamlessNext]_seamlessVars
    PROVE  SeamlessInv'
<1>1. ASSUME NEW p \in Proc, FetchStep(p) PROVE SeamlessInv'
  BY <1>1, StartFetchStep, LeaseGrantedStep, LeaseRefusedStep, ClaimRaisesStep, ReadCoverageStep,
     ReadRangeStep, RangeFailsStep, NextGapStep, GapEndsStep, FetchReturnsStep DEF FetchStep
<1>2. ASSUME NEW t \in Task, FillStep(t) PROVE SeamlessInv'
  BY <1>2, CoverChunkStep, FetchGapStep, WriteGapStep, RefreshCoverageStep, ReadChunkStep, EmptyReadStep,
     StorageFailsStep, FetchDirectlyStep, FetcherFailsStep, BackfillEndsStep DEF FillStep
<1>3. ASSUME UNCHANGED seamlessVars PROVE SeamlessInv'
  <2>1. UNCHANGED <<fetches, fills, flights, lease, rows, found, known, locks, mishaps>> /\ Stored' = Stored
    BY <1>3, StoredSame DEF seamlessVars
  <2>2. StateInv' /\ OncePerProcess' /\ KnownIsStored' /\ FlightIsFlown' /\ LeaseInv'
    BY <2>1 DEF SeamlessInv, StateInv, OncePerProcess, KnownIsStored, FlightIsFlown, LeaseInv
  <2>3. ASSUME NEW t \in Task PROVE FillInv(t)'
    BY <2>1, FillKept DEF SeamlessInv
  <2>4. ASSUME NEW p \in Proc PROVE PlanInv(p)'
    BY <2>1, PlanKept DEF SeamlessInv
  <2>5. QED
    BY <2>2, <2>3, <2>4 DEF SeamlessInv
<1>4. QED
  BY <1>1, <1>2, <1>3, ExpiryStep DEF SeamlessNext

LEMMA SeamlessImplied == SeamlessInv => BackfillSafe /\ CleanFetchFills
<1> SUFFICES ASSUME SeamlessInv PROVE BackfillSafe /\ CleanFetchFills
  OBVIOUS
<1> USE DEF SeamlessInv
<1>1. SeamlessTypeOK
  <2>1. fetches \in [Proc -> [pc : {"idle", "claim", "plan", "gaps"}, n : 0..MaxFetches,
                             due : Seq(Time \X Time), gaps : Seq(Time \X Time), ends : SUBSET Time,
                             got : SUBSET Grid, short : SUBSET Grid, clean : BOOLEAN]]
    <3>1. Seq(Part) \subseteq Seq(Time \X Time) /\ SUBSET Grid \subseteq SUBSET Time
      BY DEF Part, Grid
    <3>2. QED
      BY <3>1 DEF StateInv, FetchState
  <2>2. \A t \in Task : fills[t].pc \in {"none", "next", "ask", "write", "read", "direct", "done", "failed"}
    BY DEF StateInv, FillState, Working
  <2>3. \A p \in Proc : known[p] = None \/ known[p] \subseteq Grid
    BY DEF StateInv
  <2>4. QED
    BY <2>1, <2>2, <2>3 DEF SeamlessTypeOK, FillInv, Working
<1>2. BackgroundAlone
  BY DEF BackgroundAlone, LeaseInv
<1>3. CleanFetchFills
  <2>1. SUFFICES ASSUME NEW p \in Proc, fetches[p].pc = "idle", fetches[p].n > 0, fetches[p].clean
                 PROVE  /\ Bars(Request) \subseteq Stored \cup fetches[p].short
                        /\ fetches[p].got \subseteq HalfOpen(Request)
                        /\ HalfOpen(Request) \subseteq
                              fetches[p].got \cup fetches[p].short \cup fetches[p].ends
    BY DEF CleanFetchFills
  <2>2. PlanInv(p)
    OBVIOUS
  <2>3. fetches[p].due = <<>> /\ fetches[p].gaps = <<>>
    BY <2>1, <2>2 DEF PlanInv
  <2>4. FetchInv(p)
    BY <2>2 DEF PlanInv
  <2>5. QED
    BY <2>1, <2>3, <2>4, CoveredEmpty, ChoppedEmpty DEF FetchInv
<1>4. QED
  BY <1>1, <1>2, <1>3 DEF BackfillSafe

\* For every number of processes, every request and table, and any number of mishaps: the
\* flights and leases keep one background backfill per window while no lease ran out and no
\* claim raised, a process inserts a bar once, its cached coverage names stored bars only,
\* and a flight in its table is one that is flown.
THEOREM BackfillAlwaysSafe == SeamlessSpec => []BackfillSafe
<1>1. SeamlessInv /\ [SeamlessNext]_seamlessVars => SeamlessInv'
  BY SeamlessStep
<1>2. SeamlessInv => BackfillSafe
  BY SeamlessImplied
<1>3. QED
  BY <1>1, <1>2, SeamlessInitial, PTL DEF SeamlessSpec

\* A fetch that met no error leaves its window stored, the last bar included, but for the
\* bars the fetcher left out of an answer; it returns all of [start, end) but those and the
\* last bars of the ranges and gaps it was split into (the short frames AutoBackfiller
\* passes over, and the reads of a history provider without their ends), however the
\* backfills of other fetches and processes came in between.
THEOREM CleanFetchAlwaysFills == SeamlessSpec => []CleanFetchFills
<1>1. SeamlessInv /\ [SeamlessNext]_seamlessVars => SeamlessInv'
  BY SeamlessStep
<1>2. SeamlessInv => CleanFetchFills
  BY SeamlessImplied
<1>3. QED
  BY <1>1, <1>2, SeamlessInitial, PTL DEF SeamlessSpec
=============================================================================
