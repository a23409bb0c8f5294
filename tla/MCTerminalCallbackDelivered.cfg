CONSTANTS
  Turns = {k2}
  Worker = worker
  NoTurn = NoTurn
  Recovered = {k2}
  Poisons = {{}}
  Oddities = {{}}
  MaxSends = 2
  MaxCrashes = 0
SPECIFICATION FairSpec
CHECK_DEADLOCK FALSE
PROPERTY PendingDelivered
