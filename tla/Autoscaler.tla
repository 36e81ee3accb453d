----------------------------- MODULE Autoscaler -----------------------------
(***************************************************************************)
(* internal/autoscale/autoscale.go and the exporter that drives it          *)
(* (cmd/placement-api/main.go): at each tick the number of vmhosts is       *)
(* computed from the arrival rate, its slope and the microVMs in flight,    *)
(* and held up for a while after a peak.                                    *)
(*                                                                          *)
(* The floating-point quantities are exact fractions num/den here.  Times   *)
(* are kept as ages, up to the bound they are compared with; rates are per  *)
(* unit of time.                                                            *)
(***************************************************************************)
EXTENDS Integers, Sequences, FiniteSets, FiniteSetsExt

CONSTANTS Rates, Inflights,          \* what the exporter may observe
          Gaps,                      \* the time from one tick to the next
          SlotsPerHost, MeanTTL, ProvisionLatency, ScaleDownStabilization,
          SlopeWindow, MinReplicas, MaxReplicas,
          TargetPercent              \* Config.TargetUtilisation in percent

\* Config.Validate
ASSUME AutoscalerAssumption ==
  /\ Rates \subseteq Nat /\ Inflights \subseteq Nat /\ Gaps \subseteq Nat
  /\ SlotsPerHost \in Nat \ {0, 1} /\ MeanTTL \in Nat \ {0}
  /\ ProvisionLatency \in Nat /\ ScaleDownStabilization \in Nat /\ SlopeWindow \in Nat
  /\ MinReplicas \in Nat /\ MaxReplicas \in Nat /\ MinReplicas <= MaxReplicas
  /\ TargetPercent \in 1 .. 100

VARIABLES history,    \* a.history: the age and the rate of each sample kept
          rateSlope,  \* a.rateSlope, a fraction [num, den]
          peak,       \* a.peak
          peakAt,     \* the age of a.peakAt, up to ScaleDownStabilization
          sample,     \* the sample of the last tick
          replicas,   \* Decision.Replicas of the last tick
          shrunk,     \* the age of the last decision to shrink, as peakAt (history)
          spacing     \* the time between the last two of them, likewise (history)

scaling == <<history, rateSlope, peak, peakAt, sample, replicas, shrunk, spacing>>

Zero == [num |-> 0, den |-> 1]

New ==
  /\ history = <<>> /\ rateSlope = Zero
  /\ peak = 0 /\ peakAt = ScaleDownStabilization
  /\ sample = [rate |-> 0, inflight |-> 0] /\ replicas = 0
  /\ shrunk = ScaleDownStabilization /\ spacing = ScaleDownStabilization

-----------------------------------------------------------------------------
Older(samples, gap) ==
  [i \in DOMAIN samples |-> [samples[i] EXCEPT !.age = @ + gap]]

\* The samples kept: of those that are older than the slope window, only what is
\* needed to have two.
Kept(samples) ==
  LET drop == Cardinality({i \in 1 .. Len(samples) - 2 : samples[i].age > SlopeWindow})
  IN  SubSeq(samples, drop + 1, Len(samples))

Dot(f, g) == SumFunction([i \in DOMAIN f |-> f[i] * g[i]])

\* A wrong form for the mutation runs: the samples are not counted.
slopeUncounted(samples) ==
  LET t == [i \in DOMAIN samples |-> samples[1].age - samples[i].age]
      r == [i \in DOMAIN samples |-> samples[i].rate]
      num == Dot(t, r) - SumFunction(t) * SumFunction(r)
      den == Dot(t, t) - SumFunction(t) * SumFunction(t)
  IN  IF Len(samples) < 2 \/ den = 0 THEN Zero
      ELSE [num |-> IF den < 0 THEN -num ELSE num, den |-> IF den < 0 THEN -den ELSE den]

\* Ordinary least squares over the samples, times from the first one on.
slope(samples) ==
  LET n == Len(samples)
      t == [i \in DOMAIN samples |-> samples[1].age - samples[i].age]
      r == [i \in DOMAIN samples |-> samples[i].rate]
      num == n * Dot(t, r) - SumFunction(t) * SumFunction(r)
      den == n * Dot(t, t) - SumFunction(t) * SumFunction(t)
  IN  IF n < 2 \/ den = 0 THEN Zero ELSE [num |-> num, den |-> den]

\* A sample that is not later than the one before is not recorded.
updateSlope(rate, gap) ==
  IF history # <<>> /\ gap = 0 THEN UNCHANGED <<history, rateSlope>>
  ELSE /\ history' = Kept(Append(Older(history, gap), [age |-> 0, rate |-> rate]))
       /\ rateSlope' = slope(history')

Ceil(num, den) == (num + den - 1) \div den

clamp(n) == Min({Max({n, MinReplicas}), MaxReplicas})

\* A wrong form for the mutation runs: the rate alone, without its slope.
demandUnled(rate, slp, inflight) ==
  clamp(Ceil(100 * Max({rate * MeanTTL, inflight}), TargetPercent * SlotsPerHost))

\* The replicas that the sample calls for, before stabilisation.
demand(rate, slp, inflight) ==
  LET rising == Max({0, slp.num})
      predictedVMs == (rate * slp.den + rising * ProvisionLatency) * MeanTTL
      required == Max({predictedVMs, inflight * slp.den})
  IN  clamp(Ceil(100 * required, slp.den * TargetPercent * SlotsPerHost))

\* A wrong form for the mutation runs: a shrink leaves the time of the peak alone.
applyStabilizationUntimed(n, sincePeak) ==
  IF n >= peak THEN peak' = n /\ peakAt' = 0 /\ replicas' = n
  ELSE IF sincePeak < ScaleDownStabilization
  THEN replicas' = peak /\ peakAt' = sincePeak /\ UNCHANGED peak
  ELSE peak' = n /\ peakAt' = sincePeak /\ replicas' = n

\* A peak holds for ScaleDownStabilization (a window of zero never holds).
applyStabilization(n, sincePeak) ==
  IF n < peak /\ sincePeak < ScaleDownStabilization
  THEN replicas' = peak /\ peakAt' = sincePeak /\ UNCHANGED peak
  ELSE peak' = n /\ peakAt' = 0 /\ replicas' = n

UpTo(bound, n) == Min({bound, n})

Decide(rate, inflight, gap) ==
  /\ updateSlope(rate, gap)
  /\ applyStabilization(demand(rate, rateSlope', inflight),
                        UpTo(ScaleDownStabilization, peakAt + gap))

\* One tick of the exporter: the rate is the number of requests accepted since the
\* last one, over the interval.
exporterStep(rate, inflight, gap) ==
  /\ Decide(rate, inflight, gap)
  /\ sample' = [rate |-> rate, inflight |-> inflight]
  /\ LET age == UpTo(ScaleDownStabilization, shrunk + gap)
     IN  IF replicas' < replicas THEN shrunk' = 0 /\ spacing' = age
                                 ELSE shrunk' = age /\ UNCHANGED spacing

Tick == \E r \in Rates, i \in Inflights, g \in Gaps : exporterStep(r, i, g)

ScalingSpec == New /\ [][Tick]_scaling

-----------------------------------------------------------------------------
\* The slope that updateSlope leaves is the textbook least-squares slope of the
\* samples in the window: covariance over variance, about the means (both sides
\* times Len(history), to stay in the integers).
SlopeIsLeastSquares ==
  LET n == Len(history)
      t == [i \in DOMAIN history |-> -history[i].age]
      r == [i \in DOMAIN history |-> history[i].rate]
      dt == [i \in DOMAIN history |-> n * t[i] - SumFunction(t)]
      dr == [i \in DOMAIN history |-> n * r[i] - SumFunction(r)]
  IN  n >= 2 => rateSlope.num * Dot(dt, dt) = rateSlope.den * Dot(dt, dr)

\* The last tick was recorded, and the samples of the window lie on a line that
\* rises by b per unit of time; b is at most the rate it has reached.
OnRamp(b) ==
  /\ Len(history) >= 2 /\ sample.rate = history[Len(history)].rate
  /\ \A i \in DOMAIN history : history[i].rate = sample.rate - b * history[i].age

\* The purpose of the lead term (README: it "buys back the time" a host takes to
\* start): on a steady ramp the decision covers, at the target utilisation, the
\* concurrency that the ramp will have reached when a host started now is ready,
\* within MaxReplicas, and never fewer than the microVMs that run now.
CoversTheRamp ==
  \A b \in 0 .. sample.rate :
    OnRamp(b) /\ replicas < MaxReplicas =>
      replicas * SlotsPerHost * TargetPercent
        >= 100 * Max({(sample.rate + b * ProvisionLatency) * MeanTTL, sample.inflight})

\* The fleet does not ratchet down: from one decision to shrink to the next there
\* is at least a whole stabilisation window, whatever the demand does in between.
ShrinksAreSpaced == spacing >= ScaleDownStabilization
=============================================================================
