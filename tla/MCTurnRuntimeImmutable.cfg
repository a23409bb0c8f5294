CONSTANTS
  Clients = {c1}
  Readers = {r1}
  MaxTurns = 2
  Orders = {TRUE}
SPECIFICATION Spec
PROPERTY TerminalImmutable
