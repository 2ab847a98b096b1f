CONSTANTS
  Clients = {c1}
  Threads = {t1}
  Worker = w
  NoClient = NoClient
  MaySkip = {}
  Apps = {c1}
  Calls = {"activate", "deactivate_sync"}
  Serial = {"deactivate_sync"}
  MaxVotes = 4
SPECIFICATION Spec
INVARIANT NoOverdraft
