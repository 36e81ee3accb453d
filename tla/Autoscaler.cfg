SPECIFICATION ScalingSpec
CONSTANTS
  Rates = {0, 1, 2, 3}
  Inflights = {0, 5}
  Gaps = {0, 1, 2}
  SlotsPerHost = 2
  MeanTTL = 1
  ProvisionLatency = 2
  ScaleDownStabilization = 3
  SlopeWindow = 3
  MinReplicas = 1
  MaxReplicas = 5
  TargetPercent = 80
INVARIANTS SlopeIsLeastSquares CoversTheRamp ShrinksAreSpaced
