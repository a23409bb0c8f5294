\* Two clients of different versions, two listeners, one mishap.  A run stops
\* when both clients have nothing to do and the service is down.
SPECIFICATION Spec
CONSTANTS
  c1 = c1
  c2 = c2
  l1 = l1
  l2 = l2
  Clients = {c1, c2}
  Daemons = {d1, d2, d3}
  Listeners = {l1, l2}
  Any = Any
  Nil = Nil
  Unknown = Unknown
  Default = l1
  Attached = {l1, l2}
  Version <- MCVersion
  Commands <- MCMoves
  Kinds = {"crash", "child", "foreign", "slowstart", "slowcall", "teardown"}
  MaxMishaps = 1
INVARIANTS
  TypeOK
  ServiceReachable
  LeftoversExplained
  ConfigFollows
PROPERTIES
  StopCompletes
  LaunchFailuresExplained
CHECK_DEADLOCK FALSE
