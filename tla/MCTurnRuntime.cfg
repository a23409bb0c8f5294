CONSTANTS
  Clients = {c1, c2}
  Readers = {r1}
  MaxTurns = 2
  Orders = {TRUE}
SPECIFICATION FairSpec
INVARIANTS TypeOK ReportedOnce ReservationExclusive PendingIdentityFresh
  WaiterNotMisled
PROPERTIES TerminalStable WaitEnds EndsPublished
