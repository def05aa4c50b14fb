CONSTANTS
  t1 = t1
  t2 = t2
  f1 = f1
  f2 = f2
  f3 = f3
  Server = Server
  None = None
  Threads = {t1, t2}
  Fds = {f1, f2, f3}
  BatchSize = 2
  Heartbeats = TRUE
  GrowAt = {1}
  Faults = {"accept", "add"}
  MaxAccepts = 2
SPECIFICATION Spec
SYMMETRY Symmetry
INVARIANT EpollInv
INVARIANT IntactClientIsOpen
