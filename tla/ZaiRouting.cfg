SPECIFICATION Spec
CONSTANTS
  None = None
  a = a
  b = b
  c = c
  Accounts <- MCAccounts
  Disabled = {c}
  Explicit = {b}
  ConfiguredPlan <- MCConfiguredPlan
  PlanBuckets <- MCPlanBuckets
  Deliveries <- MCDeliveries
  Wires <- MCWires
  Candidates <- MCCandidates
  Selections <- MCSelections
  Rates <- MCRates
  Offpeak <- MCOffpeak
  FiveHour = 2
  Weekly = 4
  Retention = 5
  MaxAge = 1
  Threshold = 80
  MaxCredits = 100
  MaxDedup = 2
  SuspendDuration = 2
  FallbackCooldown = 2
  BackoffBase = 1
  BackoffCap = 2
  MaxThrottles = 2
  StreakDecay = 2
  MaxHint = 8
  ClockSkew = 1
  StartTime = 1
  MaxTime = 5
  MaxInputs = 4
INVARIANT TypeOK
 
INVARIANT PickAvoidsBlocked
 
INVARIANT EstimateResetExact
INVARIANT CountedOnce
INVARIANT PlanFollowsAnswer
