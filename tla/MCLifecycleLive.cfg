\* Starts and stops that race, one of them interrupted.  No TUI: a connection in
\* TIME_WAIT only makes a launch fail at once.
SPECIFICATION FairSpec
CONSTANTS
  c1 = c1
  c2 = c2
  l1 = l1
  l2 = l2
  Clients = {c1, c2}
  Daemons = {d1, d2, d3}
  Listeners = {l1}
  Any = Any
  Nil = Nil
  Unknown = Unknown
  Default = l1
  Attached = {}
  Version <- MCOneVersion
  Commands <- MCBasics
  Kinds = {"crash", "kill", "slowstop"}
  MaxMishaps = 1
PROPERTIES
  CommandsEnd
CHECK_DEADLOCK FALSE
