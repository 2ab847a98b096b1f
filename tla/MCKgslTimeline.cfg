CONSTANTS
  t1 = t1
  o1 = o1
  Threads = {t1, t2}
  Fences = {f1}
  Objs = {o1, o2}
  NoFence = NoFence
  NoActor = NoActor
  MaxSeqno = 2
  Initials = {0}
  Ioctls <- Roles
  Targets <- Submissions
SPECIFICATION FairSpec
INVARIANT TypeOK
INVARIANT TimelineCounted
INVARIANT FenceCounted
INVARIANT FreedClean
INVARIANT NoMissedFence
INVARIANT EventsPending
PROPERTY ImplementsTimeline
PROPERTY QueryMonotonic
PROPERTY WaitEnds
