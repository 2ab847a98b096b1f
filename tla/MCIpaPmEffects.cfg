CONSTANTS
  Clients = {c1}
  Threads = {t1}
  Worker = w
  NoClient = NoClient
  MaySkip = {}
  Apps = {c1}
  Calls = {"activate", "deferred_deactivate"}
  Serial = {}
  MaxVotes = 4
SPECIFICATION Spec
INVARIANT EffectsSettle
