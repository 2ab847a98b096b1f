CONSTANTS
  p1 = p1
  Driver = d
  Psocs = {p1}
  Vdevs = {v1}
  PsocOf <- OnePsoc
  Threads = {t1, t2, t3}
  NoThread = NoThread
  NoNode = NoNode
  OpNodes = {}
  FlagValues = {FALSE}
  CloseAlone = {d, p1}
  MaxDone = 1
  Watched = {}
SPECIFICATION Spec
PROPERTY AbortsAllQueued
