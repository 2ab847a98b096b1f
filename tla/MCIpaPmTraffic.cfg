CONSTANTS
  Clients = {c1}
  Threads = {t1, t2}
  Worker = w
  NoClient = NoClient
  MaySkip = {c1}
  Apps = {}
  Calls = {"activate", "activate_sync", "deferred_deactivate", "deactivate_all_deferred"}
  Serial = {}
  MaxVotes = 4
SPECIFICATION FairSpec
INVARIANT TypeOK
INVARIANT ClockHeld
INVARIANT VotesBalance
INVARIANT TimerNotLost
INVARIANT ActivationMatchesState
INVARIANT LastCallWins
VIEW NoPlan
PROPERTY ActivationEnds
PROPERTY DeactivationHappens
