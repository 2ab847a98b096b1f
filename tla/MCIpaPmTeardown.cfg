CONSTANTS
  Clients = {c1}
  Threads = {t1, t2, t3}
  Worker = w
  NoClient = NoClient
  MaySkip = {}
  Apps = {}
  Calls = {"activate_sync", "deferred_deactivate", "deactivate_sync", "deregister"}
  Serial = {"deactivate_sync", "deregister"}
  MaxVotes = 4
SPECIFICATION Spec
SYMMETRY AnyThread
INVARIANT VotesBalance
INVARIANT TimerMatchesState
