\* One client, one write that fails.
CONSTANTS
  c1 = c1  c2 = c2  n1 = n1  n2 = n2  none = none
  s1 = s1  s2 = s2  i1 = i1  i2 = i2  f1 = f1  f2 = f2
  Nil = Nil
  Clients = {c1}
  Names = {n1, n2}
  NoName = none
  Fresh = {f2}
  Worlds <- MCWorlds
  Kinds = {"io"}
  MaxMishaps = 1
SPECIFICATION Spec
CHECK_DEADLOCK FALSE
INVARIANT NeverDiscarded
