SPECIFICATION FairSpec
CONSTANTS
  a = a
  b = b
  Run = Run
  Nobody = Nobody
  Topics <- TwoTopics
  Rejected <- SecondTopic
  Setters <- TwoSetters
  MaxConns = 2
  MaxWire = 2
CHECK_DEADLOCK FALSE
INVARIANTS AppliedIsAcknowledged SessionFollowsWanted
PROPERTY HealthyTopicsRestored
