CONSTANTS
  Clients = {c1}
  Threads = {t1, t2}
  Worker = w
  NoClient = NoClient
  MaySkip = {}
  Apps = {c1}
  Calls = {"activate_sync", "deferred_deactivate"}
  Serial = {}
  MaxVotes = 4
SPECIFICATION FairSpec
PROPERTY WaitEnds
