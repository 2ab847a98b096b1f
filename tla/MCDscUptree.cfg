CONSTANTS
  p1 = p1
  Driver = d
  Psocs = {p1}
  Vdevs = {v1, v2}
  PsocOf <- OnePsoc
  Threads = {t1, t2, t3}
  NoThread = NoThread
  NoNode = NoNode
  OpNodes = {p1}
  FlagValues = {FALSE}
  CloseAlone = {d, p1, v1, v2}
  MaxDone = 1
  Watched = {t1}
SPECIFICATION FairSpec
PROPERTY UptreeDrainEnds
