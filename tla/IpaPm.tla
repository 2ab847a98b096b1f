------------------------------- MODULE IpaPm -------------------------------
(***************************************************************************)
(* IPA power management (dataipa/.../ipa_v3/ipa_pm.c).                     *)
(*                                                                         *)
(* A client of the IPA hardware activates itself to vote for the IPA clock *)
(* and deactivates itself to give the vote back: at once (the _sync calls),*)
(* or from atomic context, where an activation that would block and every  *)
(* deactivation are left to a single-threaded work queue.  A deactivation  *)
(* is deferred by a timer so that bursts of traffic do not gate the clock. *)
(*                                                                         *)
(* What a caller does under a client's state_lock is one action; taking or *)
(* giving back a clock vote, setting or clearing the bit of the client in  *)
(* the active bitmask, sampling and applying the clock plan happen between *)
(* those critical sections and are actions of their own.  The throughput   *)
(* and threshold arithmetic is abstracted: a clock plan is what it was     *)
(* computed from, the active clients and the bitmask.                      *)
(***************************************************************************)
EXTENDS Naturals, Sequences, FiniteSets

CONSTANTS
  Clients,   \* the clients that can be registered
  Threads,   \* the threads that call the API
  Worker,    \* the one thread of ipa_pm_ctx->wq
  NoClient,  \* an actor at work on no client
  MaySkip,   \* the clients that may be registered with skip_clk_vote
  Apps,      \* the clients of IPA_PM_GROUP_APPS, which keep the AP awake
  Calls,     \* the API functions the threads call
  Serial,    \* those a client's driver makes while it makes no other call
  MaxVotes   \* bound: votes a leak may pile up on one client

CallNames == {"activate", "activate_sync", "deferred_deactivate",
              "deactivate_sync", "deactivate_all_deferred", "deregister"}

ASSUME ActorAssumption ==
  /\ Worker \notin Threads
  /\ IsFiniteSet(Threads)
  /\ NoClient \notin Clients

\* No driver registers a client that is in the APPS group and votes for no
\* clock.
ASSUME ClientAssumption ==
  /\ MaySkip \subseteq Clients /\ Apps \subseteq Clients
  /\ MaySkip \cap Apps = {}
  /\ Calls \subseteq CallNames /\ Serial \subseteq Calls
  /\ MaxVotes \in Nat \ {0}

Actors == Threads \cup {Worker}

VARIABLES
  registered, \* the clients with an entry in ipa_pm_ctx->clients
  skip,       \* the clients registered with skip_clk_vote
  state,      \* client->state
  done,       \* client->complete has been completed and not reinitialised
  awake,      \* client->wlock is held
  timer,      \* the clients whose deactivate_work waits for its timer
  wq,         \* the works queued on ipa_pm_ctx->wq
  cancelling, \* the clients whose deactivate_work is being cancelled
  votes,      \* the votes for the IPA clock taken on behalf of each client
  bits,       \* clk_scaling.active_client_bitmask
  threshold,  \* the bitmask clk_scaling.current_threshold was chosen for
  plan,       \* what clk_scaling.cur_vote was computed from
  pc,         \* where each actor is
  client,     \* the client it works on
  call,       \* the API function a thread is in
  todo,       \* the clients deactivate_all_deferred has still to look at
  rescale,    \* run_algorithm of deactivate_all_deferred
  sample,     \* what an actor in do_clk_scaling read
  wanted      \* history: what the last call that returned asked for

clientVars == <<registered, skip, state, done, awake>>
workVars == <<timer, wq, cancelling>>
clockVars == <<votes, bits, threshold, plan>>
callVars == <<call, todo, rescale>>
vars == <<registered, skip, state, done, awake, timer, wq, cancelling, votes,
          bits, threshold, plan, pc, client, call, todo, rescale, sample, wanted>>

-----------------------------------------------------------------------------
(* The states of a client                                                  *)

TimerFreeStates == {"DEACTIVATED", "DEACTIVATE_IN_PROGRESS",
                    "ACTIVATE_IN_PROGRESS", "ACTIVATED"}

TimerSetStates == {"PENDING_DEACTIVATION", "TIMER_SET", "PENDING_RESCHEDULE"}

Active(c) == state[c] \in {"ACTIVATED"} \cup TimerSetStates

InProgress(c) ==
  state[c] \in {"ACTIVATE_IN_PROGRESS", "DEACTIVATE_IN_PROGRESS"}

ActiveClients == {c \in registered : Active(c)}

SetState(c, s) == state' = [state EXCEPT ![c] = s]

-----------------------------------------------------------------------------
(* The work queue and the timers                                           *)

Queued(w) == \E i \in DOMAIN wq : wq[i] = w

\* queue_work: a work that is pending is not queued again.
QueueWork(w) == wq' = IF Queued(w) THEN wq ELSE Append(wq, w)

\* A pending work is taken off the queue, on which it is once.
Unqueue(w) ==
  \/ ~Queued(w) /\ UNCHANGED wq
  \/ \E i \in DOMAIN wq :
       /\ wq[i] = w
       /\ wq' = SubSeq(wq, 1, i - 1) \o SubSeq(wq, i + 1, Len(wq))

\* queue_delayed_work on client->deactivate_work, which does nothing while it
\* is pending or being cancelled.
ArmTimer(c) ==
  timer' = IF Queued(<<"deactivate", c>>) \/ c \in cancelling
           THEN timer ELSE timer \cup {c}

\* The timer expires and its work becomes due.
TimerFire(c) ==
  /\ c \in timer
  /\ timer' = timer \ {c}
  /\ QueueWork(<<"deactivate", c>>)
  /\ UNCHANGED <<clientVars, cancelling, clockVars, pc, client, callVars,
                 sample, wanted>>

-----------------------------------------------------------------------------
(* The IPA clock                                                           *)

\* ipa3_active_clients.cnt may be kept up by others than the PM's clients.
MayBeGated == \A c \in Clients : votes[c] = 0

\* IPA_ACTIVE_CLIENTS_INC_SPECIAL.
Vote(c) ==
  IF c \in skip THEN UNCHANGED votes
  ELSE /\ votes[c] < MaxVotes
       /\ votes' = [votes EXCEPT ![c] = @ + 1]

\* IPA_ACTIVE_CLIENTS_DEC_SPECIAL, whose ipa_assert is that votes are left.
Unvote(c) ==
  votes' = IF c \in skip THEN votes ELSE [votes EXCEPT ![c] = @ - 1]

StayAwake(c) == awake' = IF c \in Apps THEN awake \cup {c} ELSE awake

-----------------------------------------------------------------------------
(* Calls                                                                   *)

Goto(a, at) == pc' = [pc EXCEPT ![a] = at]

Idle(a) == pc[a] = "idle"

\* A call in Serial is made while the client's driver makes no other one and
\* the AP is not suspending.
MayCall(t, c, f) ==
  /\ f \in Calls /\ Idle(t) /\ c \in registered
  /\ \A u \in Threads :
       client[u] = c \/ call[u] = "deactivate_all_deferred"
         => f \notin Serial /\ call[u] \notin Serial

\* t is in a call of f on c and goes on at the given place.
Enter(t, c, f, at) ==
  /\ Goto(t, at)
  /\ client' = [client EXCEPT ![t] = c]
  /\ call' = [call EXCEPT ![t] = f]
  /\ UNCHANGED <<todo, rescale>>

Return(a) ==
  /\ Goto(a, "idle")
  /\ client' = [client EXCEPT ![a] = NoClient]
  /\ call' = [call EXCEPT ![a] = "none"]
  /\ UNCHANGED <<todo, rescale>>

Stay == UNCHANGED <<pc, client, callVars>>

Want(c, what) == wanted' = [wanted EXCEPT ![c] = what]

-----------------------------------------------------------------------------
(* Registration                                                            *)

Init ==
  /\ registered = {} /\ skip = {}
  /\ state = [c \in Clients |-> "DEACTIVATED"]
  /\ done = {}
  /\ awake = {}
  /\ timer = {} /\ wq = <<>> /\ cancelling = {}
  /\ votes = [c \in Clients |-> 0]
  /\ bits = {}
  /\ threshold = {}
  /\ plan = <<{}, {}>>
  /\ pc = [a \in Actors |-> "idle"]
  /\ client = [a \in Actors |-> NoClient]
  /\ call = [a \in Actors |-> "none"]
  /\ todo = [a \in Actors |-> {}]
  /\ rescale = {}
  /\ sample = [a \in Actors |-> {}]
  /\ wanted = [c \in Clients |-> "off"]

\* ipa_pm_register: a zeroed client with a fresh completion and wakeup source.
Register(c) ==
  /\ c \notin registered
  /\ registered' = registered \cup {c}
  /\ \E s \in {{}, {c} \cap MaySkip} : skip' = (skip \ {c}) \cup s
  /\ SetState(c, "DEACTIVATED")
  /\ done' = done \ {c}
  /\ awake' = awake \ {c}
  /\ Want(c, "off")
  /\ UNCHANGED <<workVars, clockVars, pc, client, callVars, sample>>

\* ipa_pm_deregister, the checks of the handle.
Deregister(t, c) ==
  /\ MayCall(t, c, "deregister")
  /\ Enter(t, c, "deregister", "begin")
  /\ UNCHANGED <<clientVars, workVars, clockVars, sample, wanted>>

\* It decides under state_lock, once no activation is in progress or a wait for
\* one has ended: refuse, or go on to free.
DeregisterDecides(t) ==
  /\ pc[t] \in {"begin", "woken"} /\ call[t] = "deregister"
  /\ IF pc[t] = "begin" /\ InProgress(client[t])
     THEN Goto(t, "wait") /\ UNCHANGED <<client, callVars>>
     ELSE IF Active(client[t]) THEN Return(t)
     ELSE Goto(t, "free") /\ UNCHANGED <<client, callVars>>
  /\ UNCHANGED <<clientVars, workVars, clockVars, sample, wanted>>

\* kfree(client) under client_mutex.
Free(t) ==
  /\ pc[t] = "free"
  /\ registered' = registered \ {client[t]}
  /\ Return(t)
  /\ UNCHANGED <<skip, state, done, awake, workVars, clockVars, sample, wanted>>

-----------------------------------------------------------------------------
(* Activation                                                              *)

\* The part of the switch in ipa_pm_activate_helper that leaves an active
\* client active: a pending deactivation is called off, its timer is left on.
KeepActive(c) ==
  /\ Active(c)
  /\ SetState(c, IF state[c] \in TimerSetStates THEN "TIMER_SET" ELSE "ACTIVATED")

\* Mutant: a deactivation in progress is not called off.
ActivateInProgressIgnored(t, c) ==
  /\ MayCall(t, c, "activate") /\ InProgress(c)
  /\ Want(c, "on")
  /\ Stay
  /\ UNCHANGED <<clientVars, workVars, clockVars, sample>>

\* ipa_pm_activate while an activation is in progress: -EINPROGRESS.
ActivateInProgress(t, c) ==
  /\ MayCall(t, c, "activate") /\ InProgress(c)
  /\ SetState(c, "ACTIVATE_IN_PROGRESS")
  /\ Want(c, "on")
  /\ Stay
  /\ UNCHANGED <<registered, skip, done, awake, workVars, clockVars, sample>>

\* ipa_pm_activate on an active client.
ActivateActive(t, c) ==
  /\ MayCall(t, c, "activate")
  /\ KeepActive(c)
  /\ Want(c, "on")
  /\ Stay
  /\ UNCHANGED <<registered, skip, done, awake, workVars, clockVars, sample>>

\* ipa_pm_activate gets the clock vote without blocking.
ActivateNow(t, c) ==
  /\ MayCall(t, c, "activate") /\ state[c] = "DEACTIVATED"
  /\ Vote(c)
  /\ SetState(c, "ACTIVATED")
  /\ StayAwake(c)
  /\ Want(c, "on")
  /\ Enter(t, c, "activate", "setbit")
  /\ UNCHANGED <<registered, skip, done, workVars, bits, threshold, plan, sample>>

\* ipa_pm_activate would block: the work queue takes over, -EINPROGRESS.
ActivateLater(t, c) ==
  /\ MayCall(t, c, "activate") /\ state[c] = "DEACTIVATED"
  /\ c \notin skip /\ MayBeGated
  /\ SetState(c, "ACTIVATE_IN_PROGRESS")
  /\ done' = done \ {c}
  /\ QueueWork(<<"activate", c>>)
  /\ Want(c, "on")
  /\ Stay
  /\ UNCHANGED <<registered, skip, awake, timer, cancelling, clockVars, sample>>

\* The rest of ipa_pm_activate_sync once it has found no activation in
\* progress: nothing to do, no vote to take, or the blocking call.
SyncSwitch(t, c) ==
  \/ /\ KeepActive(c)
     /\ Want(c, "on")
     /\ Return(t)
     /\ UNCHANGED awake
  \/ /\ state[c] = "DEACTIVATED" /\ c \in skip
     /\ SetState(c, "ACTIVATED")
     /\ StayAwake(c)
     /\ Want(c, "on")
     /\ Enter(t, c, "activate_sync", "setbit")
  \/ /\ state[c] = "DEACTIVATED" /\ c \notin skip
     /\ SetState(c, "ACTIVATE_IN_PROGRESS")
     /\ Enter(t, c, "activate_sync", "inc")
     /\ UNCHANGED <<awake, wanted>>

\* ipa_pm_activate_sync, finding no activation in progress.
ActivateSync(t, c) ==
  /\ MayCall(t, c, "activate_sync") /\ ~InProgress(c)
  /\ SyncSwitch(t, c)
  /\ UNCHANGED <<registered, skip, done, workVars, clockVars, sample>>

\* ipa_pm_activate_sync, finding one: it sleeps on client->complete.
ActivateSyncWaits(t, c) ==
  /\ MayCall(t, c, "activate_sync") /\ InProgress(c)
  /\ Enter(t, c, "activate_sync", "wait")
  /\ UNCHANGED <<clientVars, workVars, clockVars, sample, wanted>>

\* ... and looks again; if another one has begun it gives up, -EPERM.
ActivateSyncWoken(t) ==
  /\ pc[t] = "woken" /\ call[t] = "activate_sync"
  /\ \/ SyncSwitch(t, client[t])
     \/ /\ InProgress(client[t])
        /\ Return(t)
        /\ UNCHANGED <<state, awake, wanted>>
  /\ UNCHANGED <<registered, skip, done, workVars, clockVars, sample>>

\* IPA_ACTIVE_CLIENTS_INC_SPECIAL of the synchronous activation, unlocked.
SyncVote(t) ==
  /\ pc[t] = "inc"
  /\ Vote(client[t])
  /\ Goto(t, "got")
  /\ UNCHANGED <<clientVars, workVars, bits, threshold, plan, client, callVars, sample,
                 wanted>>

\* "we got the clocks", under the lock again.
SyncGot(t) ==
  /\ pc[t] = "got"
  /\ SetState(client[t], "ACTIVATED")
  /\ StayAwake(client[t])
  /\ Want(client[t], "on")
  /\ Goto(t, "setbit")
  /\ UNCHANGED <<registered, skip, done, workVars, clockVars, client, callVars, sample>>

\* activate_client, then the clock scaling: ipa_pm_activate may not block and
\* leaves it to the work queue, the others do it in place.
SetBit(a) ==
  /\ pc[a] = "setbit"
  /\ bits' = bits \cup {client[a]}
  /\ IF a # Worker /\ call[a] = "activate"
     THEN Return(a) /\ QueueWork(<<"scale", NoClient>>)
     ELSE Goto(a, "scale") /\ UNCHANGED <<wq, client, callVars>>
  /\ UNCHANGED <<clientVars, timer, cancelling, votes, threshold, plan, sample, wanted>>

-----------------------------------------------------------------------------
(* Deactivation                                                            *)

\* ipa_pm_deferred_deactivate.
DeferredDeactivate(t, c) ==
  /\ MayCall(t, c, "deferred_deactivate")
  /\ \/ /\ state[c] = "ACTIVATE_IN_PROGRESS"
        /\ SetState(c, "DEACTIVATE_IN_PROGRESS")
        /\ UNCHANGED timer
     \/ /\ state[c] = "ACTIVATED"
        /\ SetState(c, "PENDING_DEACTIVATION")
        /\ ArmTimer(c)
     \/ /\ state[c] \in {"TIMER_SET", "PENDING_DEACTIVATION"}
        /\ SetState(c, "PENDING_RESCHEDULE")
        /\ UNCHANGED timer
     \/ /\ state[c] \in {"DEACTIVATED", "DEACTIVATE_IN_PROGRESS",
                         "PENDING_RESCHEDULE"}
        /\ UNCHANGED <<state, timer>>
  /\ Want(c, "off")
  /\ Stay
  /\ UNCHANGED <<registered, skip, done, awake, wq, cancelling, clockVars, sample>>

\* ipa_pm_deactivate_sync is entered.
DeactivateSync(t, c) ==
  /\ MayCall(t, c, "deactivate_sync")
  /\ Enter(t, c, "deactivate_sync", "cancel")
  /\ UNCHANGED <<clientVars, workVars, clockVars, sample, wanted>>

\* Mutant: the timer is left running.
CancelKeepsTimer(t) ==
  /\ pc[t] \in {"cancel", "recancel"}
  /\ client[t] \notin cancelling
  /\ cancelling' = cancelling \cup {client[t]}
  /\ Goto(t, IF pc[t] = "cancel" THEN "flush" ELSE "reflush")
  /\ UNCHANGED <<clientVars, timer, wq, clockVars, client, callVars, sample,
                 wanted>>

\* cancel_delayed_work_sync takes the work off its timer or off the queue...
Cancel(t) ==
  /\ pc[t] \in {"cancel", "recancel"}
  /\ client[t] \notin cancelling
  /\ timer' = timer \ {client[t]}
  /\ Unqueue(<<"deactivate", client[t]>>)
  /\ cancelling' = cancelling \cup {client[t]}
  /\ Goto(t, IF pc[t] = "cancel" THEN "flush" ELSE "reflush")
  /\ UNCHANGED <<clientVars, clockVars, client, callVars, sample, wanted>>

\* Mutant: cancel_delayed_work, which does not wait for a running work.
FlushNoWait(t) ==
  /\ pc[t] \in {"flush", "reflush"}
  /\ cancelling' = cancelling \ {client[t]}
  /\ Goto(t, IF pc[t] = "flush" THEN "look" ELSE "clearbit")
  /\ UNCHANGED <<clientVars, timer, wq, clockVars, client, callVars, sample,
                 wanted>>

\* ... and returns when it is not running either.
Flush(t) ==
  /\ pc[t] \in {"flush", "reflush"}
  /\ ~(client[Worker] = client[t] /\ call[Worker] = "deactivate")
  /\ cancelling' = cancelling \ {client[t]}
  /\ Goto(t, IF pc[t] = "flush" THEN "look" ELSE "clearbit")
  /\ UNCHANGED <<clientVars, timer, wq, clockVars, client, callVars, sample,
                 wanted>>

\* The state is read without the lock.
Look(t) ==
  /\ pc[t] = "look"
  /\ Goto(t, IF InProgress(client[t]) THEN "wait" ELSE "woken")
  /\ UNCHANGED <<clientVars, workVars, clockVars, client, callVars, sample,
                 wanted>>

\* wait_for_completion(&client->complete) returns.
Woken(t) ==
  /\ pc[t] = "wait" /\ client[t] \in done
  /\ Goto(t, IF call[t] = "deactivate_all_deferred" THEN "next" ELSE "woken")
  /\ UNCHANGED <<clientVars, workVars, clockVars, client, callVars, sample,
                 wanted>>

\* The locked part of ipa_pm_deactivate_sync.
DeactivateSyncWoken(t) ==
  /\ pc[t] = "woken" /\ call[t] = "deactivate_sync"
  /\ IF state[client[t]] = "DEACTIVATED"
     THEN Return(t) /\ Want(client[t], "off")
     ELSE Goto(t, "dec") /\ UNCHANGED <<client, callVars, wanted>>
  /\ UNCHANGED <<clientVars, workVars, clockVars, sample>>

\* IPA_ACTIVE_CLIENTS_DEC_SPECIAL and __pm_relax, unlocked.
Devote(a) ==
  /\ pc[a] = "dec"
  /\ Unvote(client[a])
  /\ awake' = awake \ {client[a]}
  /\ IF a = Worker /\ call[a] = "activate" THEN Return(a)
     ELSE /\ Goto(a, IF call[a] = "deactivate_sync" THEN "off" ELSE "clearbit")
          /\ UNCHANGED <<client, callVars>>
  /\ UNCHANGED <<registered, skip, state, done, workVars, bits, threshold, plan, sample, wanted>>

\* ipa_pm_deactivate_sync changes the state, then cancels once more.
SyncOff(t) ==
  /\ pc[t] = "off"
  /\ SetState(client[t], "DEACTIVATED")
  /\ Want(client[t], "off")
  /\ Goto(t, "recancel")
  /\ UNCHANGED <<registered, skip, done, awake, workVars, clockVars, client, callVars,
                 sample>>

\* deactivate_client.
ClearBit(a) ==
  /\ pc[a] = "clearbit"
  /\ bits' = bits \ {client[a]}
  /\ Goto(a, IF call[a] = "deactivate_all_deferred" THEN "next" ELSE "scale")
  /\ UNCHANGED <<clientVars, workVars, votes, threshold, plan, client, callVars, sample,
                 wanted>>

-----------------------------------------------------------------------------
(* ipa_pm_deactivate_all_deferred, called when the AP suspends             *)

DeactivateAll(t) ==
  /\ "deactivate_all_deferred" \in Calls /\ Idle(t)
  /\ \A u \in Threads : call[u] \notin Serial
  /\ Goto(t, "next")
  /\ call' = [call EXCEPT ![t] = "deactivate_all_deferred"]
  /\ todo' = [todo EXCEPT ![t] = Clients]
  /\ UNCHANGED <<clientVars, workVars, clockVars, client, rescale, sample,
                 wanted>>

\* The next client that is registered, or the end of the loop.
NextClient(t) ==
  /\ pc[t] = "next"
  /\ \/ \E c \in todo[t] :
          /\ todo' = [todo EXCEPT ![t] = @ \ {c}]
          /\ IF c \in registered
             THEN Goto(t, "cancel") /\ client' = [client EXCEPT ![t] = c]
             ELSE UNCHANGED <<pc, client>>
          /\ UNCHANGED <<call, rescale>>
     \/ /\ todo[t] = {}
        /\ IF t \in rescale
           THEN /\ Goto(t, "scale")
                /\ rescale' = rescale \ {t}
                /\ UNCHANGED <<client, call, todo>>
           ELSE Return(t)
  /\ UNCHANGED <<clientVars, workVars, clockVars, sample, wanted>>

\* Mutant: a client activated while its timer was set gives its vote back.
AllWokenDevotes(t) ==
  /\ pc[t] = "woken" /\ call[t] = "deactivate_all_deferred"
  /\ LET c == client[t] IN
     IF state[c] \in TimerSetStates
     THEN /\ SetState(c, IF state[c] = "TIMER_SET" THEN "ACTIVATED" ELSE "DEACTIVATED")
          /\ Goto(t, "dec")
     ELSE Goto(t, "next") /\ UNCHANGED state
  /\ UNCHANGED <<registered, skip, done, awake, workVars, clockVars, client, callVars,
                 sample, wanted>>

\* The locked part of the loop's body.
AllWoken(t) ==
  /\ pc[t] = "woken" /\ call[t] = "deactivate_all_deferred"
  /\ LET c == client[t] IN
     \/ /\ state[c] = "TIMER_SET"
        /\ SetState(c, "ACTIVATED")
        /\ Goto(t, "next")
        /\ UNCHANGED rescale
     \/ /\ state[c] \in {"PENDING_DEACTIVATION", "PENDING_RESCHEDULE"}
        /\ SetState(c, "DEACTIVATED")
        /\ Goto(t, "dec")
        /\ rescale' = rescale \cup {t}
     \/ /\ state[c] \in TimerFreeStates
        /\ Goto(t, "next")
        /\ UNCHANGED <<state, rescale>>
  /\ UNCHANGED <<registered, skip, done, awake, workVars, clockVars, client, call,
                 todo, sample, wanted>>

-----------------------------------------------------------------------------
(* The work queue's thread                                                 *)

\* It takes the first work; from now on the work may be queued again.
WorkStart ==
  /\ Idle(Worker) /\ wq # <<>>
  /\ wq' = Tail(wq)
  /\ LET kind == Head(wq)[1]
         c == Head(wq)[2]
     IN Enter(Worker, c, kind,
              CASE kind = "activate" -> "work"
                [] kind = "deactivate" -> "expired"
                [] kind = "scale" -> "scale")
  /\ UNCHANGED <<clientVars, timer, cancelling, clockVars, sample, wanted>>

\* Mutant: no vote is taken.
ActivateWorkNoVote ==
  /\ pc[Worker] = "work"
  /\ StayAwake(client[Worker])
  /\ Goto(Worker, "worklocked")
  /\ UNCHANGED <<registered, skip, state, done, workVars, clockVars, client, callVars,
                 sample, wanted>>

\* activate_work_func takes the vote before it looks at the state.
ActivateWorkVotes ==
  /\ pc[Worker] = "work"
  /\ Vote(client[Worker])
  /\ StayAwake(client[Worker])
  /\ Goto(Worker, "worklocked")
  /\ UNCHANGED <<registered, skip, state, done, workVars, bits, threshold, plan, client, callVars,
                 sample, wanted>>

\* Mutant: an activation called off meanwhile keeps its vote.
ActivateWorkKeepsVote ==
  /\ pc[Worker] = "worklocked"
  /\ LET c == client[Worker] IN
     /\ SetState(c, IF state[c] = "ACTIVATE_IN_PROGRESS" THEN "ACTIVATED"
                    ELSE "DEACTIVATED")
     /\ Goto(Worker, "complete")
  /\ UNCHANGED <<registered, skip, done, awake, workVars, clockVars, client, callVars,
                 sample, wanted>>

\* Mutant: a deactivation that came meanwhile is an unexpected state too.
ActivateWorkUnexpected ==
  /\ pc[Worker] = "worklocked"
  /\ LET c == client[Worker] IN
     SetState(c, IF state[c] = "ACTIVATE_IN_PROGRESS" THEN "ACTIVATED" ELSE state[c])
  /\ Goto(Worker, "complete")
  /\ UNCHANGED <<registered, skip, done, awake, workVars, clockVars, client, callVars,
                 sample, wanted>>

\* Mutant: an activation called off meanwhile is queued again, not completed.
ActivateWorkRetries ==
  /\ pc[Worker] = "worklocked"
  /\ LET c == client[Worker] IN
     IF state[c] = "ACTIVATE_IN_PROGRESS"
     THEN /\ SetState(c, "ACTIVATED")
          /\ Goto(Worker, "complete")
          /\ UNCHANGED <<wq, votes, client, callVars>>
     ELSE /\ QueueWork(<<"activate", c>>)
          /\ Unvote(c)
          /\ Return(Worker)
          /\ UNCHANGED state
  /\ UNCHANGED <<registered, skip, done, awake, timer, cancelling, bits, threshold,
                 plan, sample, wanted>>

\* activate_work_func under the lock.  Any other state is "unexpected" and is
\* treated as an activation.
ActivateWorkLocked ==
  /\ pc[Worker] = "worklocked"
  /\ LET c == client[Worker] IN
     /\ SetState(c, CASE state[c] = "ACTIVATE_IN_PROGRESS" -> "ACTIVATED"
                      [] state[c] = "DEACTIVATE_IN_PROGRESS" -> "DEACTIVATED"
                      [] OTHER -> state[c])
     /\ Goto(Worker, IF state[c] = "DEACTIVATE_IN_PROGRESS" THEN "completeoff"
                     ELSE "complete")
  /\ UNCHANGED <<registered, skip, done, awake, workVars, clockVars, client, callVars,
                 sample, wanted>>

\* complete_all(&client->complete).
Complete ==
  /\ pc[Worker] \in {"complete", "completeoff"}
  /\ done' = done \cup {client[Worker]}
  /\ Goto(Worker, IF pc[Worker] = "complete" THEN "setbit" ELSE "dec")
  /\ UNCHANGED <<registered, skip, state, awake, workVars, clockVars, client, callVars,
                 sample, wanted>>

\* Mutant: the timer of a rescheduled deactivation is not started again.
DeactivateWorkNoRearm ==
  /\ pc[Worker] = "expired"
  /\ LET c == client[Worker] IN
     \/ state[c] = "TIMER_SET" /\ SetState(c, "ACTIVATED") /\ Return(Worker)
     \/ /\ state[c] = "PENDING_RESCHEDULE"
        /\ SetState(c, "PENDING_DEACTIVATION") /\ Return(Worker)
     \/ /\ state[c] = "PENDING_DEACTIVATION"
        /\ SetState(c, "DEACTIVATED") /\ Goto(Worker, "dec")
        /\ UNCHANGED <<client, callVars>>
     \/ state[c] \in TimerFreeStates /\ Return(Worker) /\ UNCHANGED state
  /\ UNCHANGED <<registered, skip, done, awake, workVars, clockVars, sample, wanted>>

\* Mutant: a rescheduled deactivation stays one when its timer is started again.
DeactivateWorkReschedules ==
  /\ pc[Worker] = "expired"
  /\ LET c == client[Worker] IN
     \/ /\ state[c] = "TIMER_SET"
        /\ SetState(c, "ACTIVATED") /\ Return(Worker) /\ UNCHANGED timer
     \/ /\ state[c] = "PENDING_RESCHEDULE"
        /\ ArmTimer(c) /\ Return(Worker) /\ UNCHANGED state
     \/ /\ state[c] = "PENDING_DEACTIVATION"
        /\ SetState(c, "DEACTIVATED") /\ Goto(Worker, "dec")
        /\ UNCHANGED <<timer, client, callVars>>
     \/ state[c] \in TimerFreeStates /\ Return(Worker) /\ UNCHANGED <<state, timer>>
  /\ UNCHANGED <<registered, skip, done, awake, wq, cancelling, clockVars, sample,
                 wanted>>

\* delayed_deferred_deactivate_work_func under the lock; a timer-free state
\* is "unexpected".
DeactivateWorkLocked ==
  /\ pc[Worker] = "expired"
  /\ LET c == client[Worker] IN
     \/ /\ state[c] = "TIMER_SET"
        /\ SetState(c, "ACTIVATED")
        /\ Return(Worker)
        /\ UNCHANGED timer
     \/ /\ state[c] = "PENDING_RESCHEDULE"
        /\ ArmTimer(c)
        /\ SetState(c, "PENDING_DEACTIVATION")
        /\ Return(Worker)
     \/ /\ state[c] = "PENDING_DEACTIVATION"
        /\ SetState(c, "DEACTIVATED")
        /\ Goto(Worker, "dec")
        /\ UNCHANGED <<timer, client, callVars>>
     \/ /\ state[c] \in TimerFreeStates
        /\ Return(Worker)
        /\ UNCHANGED <<state, timer>>
  /\ UNCHANGED <<registered, skip, done, awake, wq, cancelling, clockVars, sample,
                 wanted>>

-----------------------------------------------------------------------------
(* do_clk_scaling                                                          *)

\* Nothing is done while the IPA clock is gated; otherwise the throughput of
\* the active clients and the threshold for the bitmask are computed under
\* client_mutex.
ScaleSample(a) ==
  /\ pc[a] = "scale"
  /\ \/ MayBeGated /\ Return(a) /\ UNCHANGED <<sample, threshold>>
     \/ /\ sample' = [sample EXCEPT ![a] = ActiveClients]
        /\ threshold' = bits
        /\ Goto(a, "apply")
        /\ UNCHANGED <<client, callVars>>
  /\ UNCHANGED <<clientVars, workVars, votes, bits, plan, wanted>>

\* After the mutex is released the throughput that was read is compared with
\* the threshold, which another actor may have replaced, and the plan is set.
ScaleApply(a) ==
  /\ pc[a] = "apply"
  /\ plan' = <<sample[a], threshold>>
  /\ sample' = [sample EXCEPT ![a] = {}]
  /\ Return(a)
  /\ UNCHANGED <<clientVars, workVars, votes, bits, threshold, wanted>>

-----------------------------------------------------------------------------

\* What a driver of a client, or the AP's suspend, decides to do.
Request(t) ==
  \/ \E c \in Clients :
       \/ ActivateInProgress(t, c) \/ ActivateActive(t, c)
       \/ ActivateNow(t, c) \/ ActivateLater(t, c)
       \/ ActivateSync(t, c) \/ ActivateSyncWaits(t, c)
       \/ DeferredDeactivate(t, c)
       \/ DeactivateSync(t, c)
       \/ Deregister(t, c)
  \/ DeactivateAll(t)

\* How a call goes on once it has begun.
Progress(t) ==
  \/ Woken(t) \/ ActivateSyncWoken(t) \/ SyncVote(t) \/ SyncGot(t) \/ SetBit(t)
  \/ Cancel(t) \/ Flush(t) \/ Look(t) \/ DeactivateSyncWoken(t) \/ SyncOff(t)
  \/ Devote(t) \/ ClearBit(t) \/ NextClient(t) \/ AllWoken(t)
  \/ DeregisterDecides(t) \/ Free(t)
  \/ ScaleSample(t) \/ ScaleApply(t)

\* How a work goes on once it has begun.
Work ==
  \/ WorkStart \/ ActivateWorkVotes \/ ActivateWorkLocked \/ Complete
  \/ DeactivateWorkLocked
  \/ SetBit(Worker) \/ Devote(Worker) \/ ClearBit(Worker)
  \/ ScaleSample(Worker) \/ ScaleApply(Worker)

Next ==
  \/ \E c \in Clients : Register(c) \/ TimerFire(c)
  \/ \E t \in Threads : Request(t) \/ Progress(t)
  \/ Work

Spec == Init /\ [][Next]_vars

\* Timers expire, and the work queue and the threads inside a call run.
FairSpec ==
  /\ Spec
  /\ WF_vars(Work)
  /\ \A c \in Clients : WF_vars(TimerFire(c))
  /\ \A t \in Threads : WF_vars(Progress(t))

-----------------------------------------------------------------------------
(* Properties                                                              *)

PCs == {"idle", "setbit", "inc", "got", "wait", "woken", "cancel", "flush",
        "look", "dec", "off", "recancel", "reflush", "clearbit", "next", "work",
        "worklocked", "complete", "completeoff", "expired", "scale", "apply",
        "begin", "free"}

Works == ({"activate", "deactivate"} \X Clients) \cup {<<"scale", NoClient>>}

\* Every variable keeps its type; in particular a client's votes for the clock
\* never go below zero.
TypeOK ==
  /\ registered \subseteq Clients /\ skip \subseteq MaySkip
  /\ state \in [Clients -> TimerFreeStates \cup TimerSetStates]
  /\ done \subseteq Clients /\ awake \subseteq Clients
  /\ timer \subseteq Clients /\ cancelling \subseteq Clients
  /\ wq \in Seq(Works)
  /\ votes \in [Clients -> 0 .. MaxVotes]
  /\ bits \subseteq Clients /\ threshold \subseteq Clients
  /\ plan \in (SUBSET Clients) \X (SUBSET Clients)
  /\ pc \in [Actors -> PCs]
  /\ client \in [Actors -> Clients \cup {NoClient}]
  /\ call \in [Actors -> CallNames \cup {"none", "deactivate", "scale"}]
  /\ todo \in [Actors -> SUBSET Clients]
  /\ rescale \subseteq Actors
  /\ sample \in [Actors -> SUBSET Clients]
  /\ wanted \in [Clients -> {"on", "off"}]

\* Nobody is at work on c, and no work on c is due.
Quiet(c) ==
  /\ \A a \in Actors : client[a] # c
  /\ \A i \in DOMAIN wq : wq[i][2] # c

\* A client that is active holds a vote for the clock, unless it is one that
\* never votes or deactivate_sync is taking the vote away: no interleaving of
\* the timer, the work queue and the callers gates the clock under a client
\* that was told it is active.
ClockHeld ==
  \A c \in registered \ skip :
    /\ Active(c)
    /\ \A t \in Threads : client[t] = c => call[t] # "deactivate_sync"
    => votes[c] > 0

\* When nothing is going on, a client holds one vote if it is active and none
\* if it is not: no vote is leaked and none is given back twice.
VotesBalance ==
  \A c \in registered \ skip :
    Quiet(c) => votes[c] = IF Active(c) THEN 1 ELSE 0

\* The deferred work of c is on its timer, due, or about to look at c.
DeactivationPending(c) ==
  \/ c \in timer \/ Queued(<<"deactivate", c>>)
  \/ pc[Worker] = "expired" /\ client[Worker] = c

\* A client in a "Timer set state" has its timer pending, unless a caller has
\* just cancelled it and is about to change the state: a deactivation that was
\* asked for does not depend on a timer nobody started.
TimerNotLost ==
  \A c \in registered :
    /\ state[c] \in TimerSetStates
    /\ \A t \in Threads :
         client[t] = c => call[t] \notin {"deactivate_sync",
                                        "deactivate_all_deferred"}
    => DeactivationPending(c)

\* The timer is pending exactly in the "Timer set states", so that no client
\* waits for a deactivation whose timer was lost and no timer outlives the
\* state it was set for.  (A deactivate_sync in progress has cancelled it.)
TimerMatchesState ==
  \A c \in registered :
    (\A t \in Threads : client[t] = c => call[t] # "deactivate_sync")
      => (DeactivationPending(c) <=> state[c] \in TimerSetStates)

\* The ipa_assert of __ipa3_dec_client_disable_clks, for the votes of each
\* client: nobody gives back a vote that was not taken.
NoOverdraft == \A c \in Clients : votes[c] >= 0

\* The activation of c is with the work queue or with a synchronous caller.
ActivationPending(c) ==
  \/ Queued(<<"activate", c>>)
  \/ client[Worker] = c /\ pc[Worker] \in {"work", "worklocked"}
  \/ \E t \in Threads : client[t] = c /\ pc[t] \in {"inc", "got"}

\* A client is in an IN_PROGRESS state exactly while somebody is about to
\* finish its activation: activate_work_func never meets an unexpected state,
\* and no client stays in progress with nobody at work on it.
ActivationMatchesState ==
  \A c \in registered : InProgress(c) <=> ActivationPending(c)

\* When nothing is going on, a client is on, or on its way off, as the last
\* call asked: neither an activation nor a deactivation that overtakes the
\* other on the work queue is forgotten.
LastCallWins ==
  \A c \in registered : Quiet(c) =>
    IF wanted[c] = "on" THEN state[c] \in {"ACTIVATED", "TIMER_SET"}
    ELSE state[c] \in {"DEACTIVATED", "PENDING_DEACTIVATION",
                       "PENDING_RESCHEDULE"}

\* When nothing is going on, an active client of the APPS group keeps the AP
\* awake and an inactive one does not.
WakeHeld ==
  \A c \in registered \cap Apps : Quiet(c) => (c \in awake <=> Active(c))

\* When nothing at all is going on and the clock is on, the clock plan is the
\* one computed from the clients that are active and the bitmask.
PlanFresh ==
  /\ \A a \in Actors : Idle(a)
  /\ wq = <<>>
  /\ ~MayBeGated
  => plan = <<ActiveClients, bits>>

\* What is done outside the locks agrees, once all is quiet, with the states
\* that were set under them.
EffectsSettle == WakeHeld /\ PlanFresh

-----------------------------------------------------------------------------
(* Liveness                                                                *)

\* A wait for client->complete ends.
WaitEnds == \A t \in Threads : (pc[t] = "wait") ~> (pc[t] # "wait")

\* An activation in progress is completed or called off.
ActivationEnds ==
  \A c \in Clients : InProgress(c) ~> ~InProgress(c)

\* A caller puts the pending deactivation of c off until its timer has run again.
PutOff(c) == state[c] = "PENDING_DEACTIVATION" /\ state'[c] = "PENDING_RESCHEDULE"

\* A deactivation that is put off is pending again, and one that is pending
\* happens, or is called off by an activation, unless callers put it off again
\* and again: the deferred work arms its own timer where it must, and decides.
DeactivationHappens ==
  \A c \in Clients :
    /\ (state[c] = "PENDING_RESCHEDULE") ~> (state[c] # "PENDING_RESCHEDULE")
    /\ \/ []<>(state[c] \notin {"PENDING_DEACTIVATION", "PENDING_RESCHEDULE"})
       \/ []<><<PutOff(c)>>_state

-----------------------------------------------------------------------------
(* The inductive invariant                                                 *)

TeardownCalls == {"deactivate_sync", "deregister"}

\* The calls for which the bookkeeping is exact: teardown calls come when the
\* driver makes no other call, and a client that is torn down is not activated
\* through the work queue, whose late completion deactivate_sync takes for its
\* own (NoOverdraft is violated then).  A structure that is freed and registered
\* again keeps its kind of vote.
Disciplined ==
  /\ Calls \cap TeardownCalls \subseteq Serial
  /\ "activate" \in Calls => Calls \cap TeardownCalls = {}
  /\ "deregister" \in Calls => MaySkip = {}

\* Where a thread can be in each call, and whether it has a client there.
ThreadStage(t) ==
  \/ call[t] = "none" /\ pc[t] = "idle" /\ client[t] = NoClient
  \/ /\ client[t] \in Clients \cap registered /\ call[t] \in Calls
     /\ \/ call[t] = "activate" /\ pc[t] = "setbit"
        \/ /\ call[t] = "activate_sync"
           /\ pc[t] \in {"wait", "woken", "inc", "got", "setbit", "scale", "apply"}
           /\ pc[t] \in {"inc", "got"} => client[t] \notin skip
        \/ /\ call[t] = "deactivate_sync"
           /\ pc[t] \in {"cancel", "flush", "look", "wait", "woken", "dec", "off",
                         "recancel", "reflush", "clearbit", "scale", "apply"}
        \/ /\ call[t] = "deactivate_all_deferred"
           /\ pc[t] \in {"cancel", "flush", "look", "wait", "woken", "dec", "clearbit"}
        \/ call[t] = "deregister" /\ pc[t] \in {"begin", "wait", "woken", "free"}
  \/ /\ call[t] = "deactivate_all_deferred" /\ call[t] \in Calls
     /\ pc[t] \in {"next", "scale", "apply"}

ThreadStages == \A t \in Threads : ThreadStage(t)

\* Where the work queue's thread can be in each work.
WorkerStages ==
  \/ call[Worker] = "none" /\ pc[Worker] = "idle" /\ client[Worker] = NoClient
  \/ /\ call[Worker] = "activate" /\ client[Worker] \in Clients
     /\ pc[Worker] \in {"work", "worklocked", "complete", "completeoff", "setbit", "dec",
                       "scale", "apply"}
  \/ /\ call[Worker] = "deactivate" /\ client[Worker] \in Clients
     /\ pc[Worker] \in {"expired", "dec", "clearbit", "scale", "apply"}
  \/ /\ call[Worker] = "scale" /\ client[Worker] = NoClient
     /\ pc[Worker] \in {"scale", "apply"}

\* A client that is not registered is off, and one that never votes is
\* registered.
Unregistered ==
  /\ \A c \in Clients \ registered : state[c] = "DEACTIVATED"
  /\ skip \subseteq registered
  /\ \A t \in Threads : pc[t] = "free" => state[client[t]] = "DEACTIVATED"

\* Who tears a client down is alone on it.
TeardownAlone ==
  \A t, u \in Threads :
    t # u /\ call[t] \in TeardownCalls
      => client[u] # client[t] /\ call[u] # "deactivate_all_deferred"

\* A work is on the queue once, and activations are there only if some driver
\* asks for them in atomic context.
QueueDistinct ==
  /\ \A i, j \in DOMAIN wq : wq[i] = wq[j] => i = j
  /\ "activate" \notin Calls =>
       /\ \A c \in Clients : ~Queued(<<"activate", c>>)
       /\ call[Worker] # "activate"

\* Those who have begun the activation of c and not published it.
Finishers(c) ==
  {a \in Actors : client[a] = c /\ pc[a] \in {"inc", "got", "work", "worklocked"}}

FinishedOnce(c) ==
  /\ InProgress(c) <=> Queued(<<"activate", c>>) \/ Finishers(c) # {}
  /\ Queued(<<"activate", c>>) => Finishers(c) = {}
  /\ \A a, b \in Finishers(c) : a = b

\* Exactly one party finishes an activation that is in progress.
OneFinisher == \A c \in Clients : FinishedOnce(c)

\* A work is marked as being cancelled by the one thread that flushes it, and
\* is then neither on its timer nor on the queue.
OneCanceller ==
  /\ \A c \in Clients :
       c \in cancelling
         <=> \E t \in Threads : pc[t] \in {"flush", "reflush"} /\ client[t] = c
  /\ \A t, u \in Threads :
       /\ pc[t] \in {"flush", "reflush"} /\ pc[u] \in {"flush", "reflush"}
       /\ client[t] = client[u]
       => t = u
  /\ \A c \in cancelling : c \notin timer /\ ~Queued(<<"deactivate", c>>)

\* What deactivate_sync has made sure of: from its first flush to its end the
\* deferred work is out of the way, but for the time between the change of the
\* state and the second flush; while it returns the vote the client is active.
SyncTeardown ==
  \A t \in Threads : call[t] = "deactivate_sync" =>
    /\ pc[t] \notin {"cancel", "flush", "recancel", "reflush"}
         => ~DeactivationPending(client[t])
    /\ pc[t] \in {"dec", "off"} => Active(client[t])
    /\ pc[t] \in {"recancel", "reflush", "clearbit", "scale", "apply"}
         => state[client[t]] = "DEACTIVATED"

\* The actors that hold a vote for c which its state does not account for.
Extra(c) ==
  {a \in Actors :
     /\ client[a] = c
     /\ \/ pc[a] \in {"got", "worklocked", "completeoff"}
        \/ pc[a] = "dec" /\ call[a] # "deactivate_sync"}

\* deactivate_sync has given the vote of c back and not yet changed its state.
TakenBack(c) == \E t \in Threads : client[t] = c /\ pc[t] = "off"

StateVote(c) == IF Active(c) /\ ~TakenBack(c) THEN 1 ELSE 0

\* The votes of a client are the one its state stands for and one for each
\* actor that has taken one before, or not yet returned one after, a change of
\* the state.
VotesCounted ==
  \A c \in Clients \ skip : votes[c] = Cardinality(Extra(c)) + StateVote(c)

\* t has cancelled the timer of c and will change a state that needs one.
WillSettle(t, c) ==
  /\ client[t] = c
  /\ \/ call[t] = "deactivate_sync"
     \/ call[t] = "deactivate_all_deferred" /\ pc[t] \in {"flush", "look", "woken"}

TimerKept ==
  \A c \in Clients :
    state[c] \in TimerSetStates =>
      DeactivationPending(c) \/ \E t \in Threads : WillSettle(t, c)

\* The state is what the last call asked for, except that a synchronous
\* activation changes the state before it takes effect.
WantedState ==
  \A c \in Clients :
    /\ state[c] \in {"ACTIVATED", "TIMER_SET"} => wanted[c] = "on"
    /\ state[c] \in {"DEACTIVATED", "PENDING_DEACTIVATION", "PENDING_RESCHEDULE",
                    "DEACTIVATE_IN_PROGRESS"} => wanted[c] = "off"
    /\ state[c] = "ACTIVATE_IN_PROGRESS" =>
         wanted[c] = "on" \/ \E t \in Threads : t \in Finishers(c)

IInv ==
  /\ TypeOK /\ ThreadStages /\ WorkerStages /\ Unregistered /\ TeardownAlone
  /\ QueueDistinct /\ OneFinisher /\ OneCanceller /\ SyncTeardown
  /\ VotesCounted /\ TimerKept /\ WantedState

\* Without deactivate_all_deferred, which cancels the timer and looks at the
\* state later, no deferred work outlives the state it was set for and there is
\* one at a time.
TimerInv ==
  /\ \A c \in Clients :
       DeactivationPending(c) =>
         \/ state[c] \in TimerSetStates
         \/ \E t \in Threads : client[t] = c /\ call[t] = "deactivate_sync"
  /\ \A c \in timer : ~Queued(<<"deactivate", c>>)
  /\ pc[Worker] = "expired" =>
       client[Worker] \notin timer /\ ~Queued(<<"deactivate", client[Worker]>>)
=============================================================================
