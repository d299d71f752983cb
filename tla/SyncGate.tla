------------------------------ MODULE SyncGate ------------------------------
(***************************************************************************)
(* The gate in front of a flush pass: `syncOutbox` of                      *)
(* client/src/lib/sync/outbox.js, from its entry to the first flush and    *)
(* from the last flush to its `finally` block.                             *)
(*                                                                         *)
(* `syncOutbox` is asynchronous.  Everything up to its first `await` runs  *)
(* in one go (Enter), then the function suspends twice - to count the      *)
(* waiting ops, then to ask whose session this is - before it raises the   *)
(* `syncing` flag (PassGate).  Several invocations, here the members of    *)
(* Calls, can be suspended at once.                                        *)
(*                                                                         *)
(* What a pass does between PassGate and LeavePass belongs to the modules  *)
(* that extend this one (SyncSchedule, VolumeSync).                        *)
(***************************************************************************)
EXTENDS Naturals

CONSTANTS
    Calls,       \* invocations of syncOutbox that may be alive at once
    MaxBackoff   \* the ceiling of the retry backoff, in seconds (60)

ASSUME MaxBackoffAssumption == MaxBackoff \in Nat \ {0}

VARIABLES
    online,      \* isFullyOnline(): what the connectivity watcher believes
    pc,          \* pc[c]: where invocation c is suspended
    forced,      \* forced[c]: invocation c was made with { force: true }
    syncing,     \* the module-level re-entrance flag
    syncQueued,  \* someone knocked while syncing was up
    gateClosed,  \* nextRetryAt > Date.now()
    backoff,     \* retryBackoffMs, in seconds
    timer,       \* backoffTimer is armed
    requeued     \* a setTimeout(syncOutbox, 1000) is outstanding

gateVars == <<online, pc, forced, syncing, syncQueued, gateClosed, backoff,
              timer, requeued>>

Stages == {"idle", "counting", "verifying", "flushing"}

GateTypeOK ==
    /\ online \in BOOLEAN
    /\ pc \in [Calls -> Stages]
    /\ forced \in [Calls -> BOOLEAN]
    /\ syncing \in BOOLEAN
    /\ syncQueued \in BOOLEAN
    /\ gateClosed \in BOOLEAN
    /\ backoff \in 0..MaxBackoff
    /\ timer \in BOOLEAN
    /\ requeued \in BOOLEAN

GateInit ==
    /\ online \in BOOLEAN
    /\ pc = [c \in Calls |-> "idle"]
    /\ forced = [c \in Calls |-> FALSE]
    /\ syncing = FALSE
    /\ syncQueued = FALSE
    /\ gateClosed = FALSE
    /\ backoff = 0
    /\ timer = FALSE
    /\ requeued = FALSE

-----------------------------------------------------------------------------
(* Entering *)

Idle(c) == pc[c] = "idle"

\* Some invocation is past the gate and has not reached its `finally` yet.
Flushing == {c \in Calls : pc[c] = "flushing"}

\* The prefix of syncOutbox that runs without suspending, for a call made
\* while the backoff window is shut or open (shut).  It turns the call away,
\* notes that someone knocked, or lets the call go and count the ops; only then
\* does the call outlive the step and take the place c.
Enter(c, force, shut) ==
    /\ \/ /\ ~online /\ ~force
          /\ UNCHANGED <<pc, forced, syncQueued>>
       \/ /\ online \/ force
          /\ syncing
          /\ syncQueued' = TRUE
          /\ UNCHANGED <<pc, forced>>
       \/ /\ online
          /\ ~force
          /\ ~syncing
          /\ shut
          /\ UNCHANGED <<pc, forced, syncQueued>>
       \/ /\ online \/ force
          /\ ~syncing
          /\ force \/ ~shut
          /\ Idle(c)
          /\ pc' = [pc EXCEPT ![c] = "counting"]
          /\ forced' = [forced EXCEPT ![c] = force]
          /\ UNCHANGED syncQueued

\* A call from outside: an enqueue's triggerSync, the runner's interval,
\* visibility, recovery and startup hooks, or a button that forces a flush.
Knock(c, force) ==
    /\ Enter(c, force, gateClosed)
    /\ UNCHANGED <<online, syncing, gateClosed, backoff, timer, requeued>>

\* backoffTimer's callback: reopen the window, then call syncOutbox().
TimerFires(c) ==
    /\ timer
    /\ ~gateClosed
    /\ timer' = FALSE
    /\ Enter(c, FALSE, FALSE)
    /\ UNCHANGED <<online, syncing, gateClosed, backoff, requeued>>

\* The one-second re-entry a clean pass schedules for whoever knocked.
RequeueFires(c) ==
    /\ requeued
    /\ requeued' = FALSE
    /\ Enter(c, FALSE, gateClosed)
    /\ UNCHANGED <<online, syncing, gateClosed, backoff, timer>>

\* Mutant: the flag goes up before the owner check, which may turn back.
MutCountedRaisesFlag(c, n) ==
    /\ pc[c] = "counting"
    /\ pc' = [pc EXCEPT ![c] = IF n = 0 /\ ~forced[c] THEN "idle" ELSE "verifying"]
    /\ syncing' = (syncing \/ pc'[c] = "verifying")
    /\ UNCHANGED <<online, forced, syncQueued, gateClosed, backoff, timer, requeued>>

\* pendingCount() has answered n: nothing waiting and not forced ends the call.
Counted(c, n) ==
    /\ pc[c] = "counting"
    /\ pc' = [pc EXCEPT ![c] = IF n = 0 /\ ~forced[c] THEN "idle" ELSE "verifying"]
    /\ UNCHANGED <<online, forced, syncing, syncQueued, gateClosed, backoff, timer, requeued>>

\* ownerMatchesSession() said no, or could not be asked.
TurnedAway(c) ==
    /\ pc[c] = "verifying"
    /\ pc' = [pc EXCEPT ![c] = "idle"]
    /\ UNCHANGED <<online, forced, syncing, syncQueued, gateClosed, backoff, timer, requeued>>

\* ownerMatchesSession() said yes: raise the flag and start the pass.
PassGate(c) ==
    /\ pc[c] = "verifying"
    /\ pc' = [pc EXCEPT ![c] = "flushing"]
    /\ syncing' = TRUE
    /\ UNCHANGED <<online, forced, syncQueued, gateClosed, backoff, timer, requeued>>

-----------------------------------------------------------------------------
(* Leaving *)

\* Mutant: the doubling is never capped.
MutGrownUncapped(b) == IF b = 0 THEN 1 ELSE 2 * b

\* min(b ? 2b : 1, ceiling).
Grown(b) == IF b = 0 THEN 1
            ELSE IF 2 * b > MaxBackoff THEN MaxBackoff ELSE 2 * b

\* Mutant: a failed pass does not fold the knock into its timer.
MutLeavePassKeepsKnock(c, hadRetriable) ==
    /\ pc[c] = "flushing"
    /\ pc' = [pc EXCEPT ![c] = "idle"]
    /\ syncing' = FALSE
    /\ syncQueued' = (hadRetriable /\ syncQueued)
    /\ backoff' = IF hadRetriable THEN Grown(backoff) ELSE 0
    /\ gateClosed' = hadRetriable
    /\ timer' = hadRetriable
    /\ requeued' = (requeued \/ (~hadRetriable /\ syncQueued))
    /\ UNCHANGED <<online, forced>>

\* Mutant: a clean pass disarms the timer but leaves the window shut.
MutLeavePassKeepsWindow(c, hadRetriable) ==
    /\ pc[c] = "flushing"
    /\ pc' = [pc EXCEPT ![c] = "idle"]
    /\ syncing' = FALSE
    /\ syncQueued' = FALSE
    /\ backoff' = IF hadRetriable THEN Grown(backoff) ELSE 0
    /\ gateClosed' = (gateClosed \/ hadRetriable)
    /\ timer' = hadRetriable
    /\ requeued' = (requeued \/ (~hadRetriable /\ syncQueued))
    /\ UNCHANGED <<online, forced>>

\* Mutant: the flag comes down only after a clean pass.
MutLeavePassKeepsFlag(c, hadRetriable) ==
    /\ pc[c] = "flushing"
    /\ pc' = [pc EXCEPT ![c] = "idle"]
    /\ syncing' = (syncing /\ hadRetriable)
    /\ syncQueued' = FALSE
    /\ backoff' = IF hadRetriable THEN Grown(backoff) ELSE 0
    /\ gateClosed' = hadRetriable
    /\ timer' = hadRetriable
    /\ requeued' = (requeued \/ (~hadRetriable /\ syncQueued))
    /\ UNCHANGED <<online, forced>>

\* The `finally` block.  After a retriable failure: grow the backoff, shut the
\* window, arm the one timer, fold any knock into it.  After a clean pass:
\* forget the backoff and answer a knock with a re-entry in a second.
LeavePass(c, hadRetriable) ==
    /\ pc[c] = "flushing"
    /\ pc' = [pc EXCEPT ![c] = "idle"]
    /\ syncing' = FALSE
    /\ syncQueued' = FALSE
    /\ \/ /\ hadRetriable
          /\ backoff' = Grown(backoff)
          /\ gateClosed' = TRUE
          /\ timer' = TRUE
          /\ UNCHANGED requeued
       \/ /\ ~hadRetriable
          /\ backoff' = 0
          /\ gateClosed' = FALSE
          /\ timer' = FALSE
          /\ requeued' = (requeued \/ syncQueued)
    /\ UNCHANGED <<online, forced>>

-----------------------------------------------------------------------------
(* The world around the gate *)

\* Date.now() reaches nextRetryAt.
WindowElapses ==
    /\ gateClosed
    /\ gateClosed' = FALSE
    /\ UNCHANGED <<online, pc, forced, syncing, syncQueued, backoff, timer, requeued>>

\* The connectivity watcher changes its mind: a probe, an interceptor, the
\* browser's own online and offline events.
ConnectivityChanges ==
    /\ online' = ~online
    /\ UNCHANGED <<pc, forced, syncing, syncQueued, gateClosed, backoff, timer, requeued>>

\* The page is reloaded: every module-level variable and suspended call goes.
GateReload ==
    /\ pc' = [c \in Calls |-> "idle"]
    /\ forced' = [c \in Calls |-> FALSE]
    /\ syncing' = FALSE
    /\ syncQueued' = FALSE
    /\ gateClosed' = FALSE
    /\ backoff' = 0
    /\ timer' = FALSE
    /\ requeued' = FALSE
    /\ UNCHANGED online

-----------------------------------------------------------------------------
(* What the gate keeps *)

\* A knock is only ever remembered while a pass that will answer it is
\* running: syncQueued never outlives the passes, so no re-entry is lost in
\* a flag nobody reads.  (syncOutbox: `syncQueued = true; return;`.)
KnockHasListener == syncQueued => syncing /\ Flushing # {}

\* A raised syncing flag belongs to a running pass.  If it could stay up after
\* the last pass ended, every later trigger would only set syncQueued and
\* nothing would ever be sent again before a reload.
FlagHasOwner == syncing => Flushing # {}

\* A shut window always has the timer that reopens it armed: external triggers
\* are no-ops until it fires, so without it the queue would wait for good.
ShutWindowHasTimer == gateClosed => timer /\ backoff > 0
=============================================================================
