CONSTANTS
  p1 = p1
  Driver = d
  Psocs = {p1}
  Vdevs = {v1, v2}
  PsocOf <- OnePsoc
  Threads = {t1, t2, t3}
  NoThread = NoThread
  NoNode = NoNode
  OpNodes = {d, p1, v1}
  FlagValues = {TRUE, FALSE}
  CloseAlone = {d, p1, v1, v2}
  MaxDone = 1
  Watched = {}
SPECIFICATION Spec
SYMMETRY AnyThread
INVARIANT TypeOK
INVARIANT PathExclusion
INVARIANT Ownership
INVARIANT QueueMatchesSleepers
INVARIANT NoLostTransition
INVARIANT OpsCounted
INVARIANT Quiescence
PROPERTY AbortsAllQueued
INVARIANT NoDangling
PROPERTY ImplementsHierLock
