CONSTANTS
  Turns = {k1, k2}
  Worker = worker
  NoTurn = NoTurn
  Recovered = {k2}
  Poisons = {{}, {k1}}
  Oddities = {{}, {k1}}
  MaxSends = 2
  MaxCrashes = 1
SPECIFICATION FairSpec
INVARIANTS TypeOK AnsweredIsAccounted ClientFindsItsTurn ProjectedOnce NoLostWakeup
  DuplicatesExplained NothingLeftBehind
PROPERTIES PendingDeliveredUnlessBlocked EndsAccounted
CHECK_DEADLOCK FALSE
