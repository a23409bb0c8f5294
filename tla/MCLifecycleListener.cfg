\* Nothing goes wrong from outside.
SPECIFICATION Spec
CONSTANTS
  c1 = c1
  c2 = c2
  l1 = l1
  l2 = l2
  Clients = {c1, c2}
  Daemons = {d1, d2, d3}
  Listeners = {l1, l2}
  Any = Any
  Nil = Nil
  Unknown = Unknown
  Default = l1
  Attached = {l1, l2}
  Version <- MCOneVersion
  Commands <- MCMoves
  Kinds = {}
  MaxMishaps = 0
PROPERTIES
  RestartMovesListener
CHECK_DEADLOCK FALSE
