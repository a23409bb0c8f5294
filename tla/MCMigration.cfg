\* Two clients, one thread that Codex has not given out, two mishaps.
CONSTANTS
  c1 = c1  c2 = c2  n1 = n1  n2 = n2  none = none
  s1 = s1  s2 = s2  i1 = i1  i2 = i2  f1 = f1  f2 = f2
  Nil = Nil
  Clients = {c1, c2}
  Names = {n1, n2}
  NoName = none
  Fresh = {f2}
  Worlds <- MCWorlds
  Kinds = {"crash", "io", "source"}
  MaxMishaps = 2
SPECIFICATION Spec
SYMMETRY Interchangeable
CHECK_DEADLOCK FALSE
INVARIANTS TypeOK NothingLost PromisesKept Recoverable
PROPERTY ScanRepairs
