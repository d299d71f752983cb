----------------------------- MODULE VolumeSync -----------------------------
(***************************************************************************)
(* VolumeOutbox and the gate of syncOutbox together: a pass of             *)
(* VolumeOutbox runs exactly while its invocation is past the gate, and    *)
(* the triggers, the retry backoff and the connectivity decide when one    *)
(* starts.  Of the six flush functions only flushVolumes and flushBulkMark *)
(* are here; they are the ones that touch volumes.                         *)
(***************************************************************************)
EXTENDS VolumeOutbox

CONSTANT MaxBackoff

VARIABLES
    online, pc, forced, syncing, syncQueued, gateClosed, backoff, timer, requeued,
    hadRetriable   \* hadRetriable[p]: pass p met a retriable failure

\* One invocation of syncOutbox per pass.
Gate == INSTANCE SyncGate WITH Calls <- Passes

gateVars == <<online, pc, forced, syncing, syncQueued, gateClosed, backoff,
              timer, requeued>>
syncVars == <<vars, gateVars, hadRetriable>>

ASSUME SyncMaxBackoffAssumption == MaxBackoff \in Nat \ {0}

SyncTypeOK ==
    /\ TypeOK
    /\ Gate!GateTypeOK
    /\ hadRetriable \in [Passes -> BOOLEAN]

SyncInit ==
    /\ Init
    /\ Gate!GateInit
    /\ hadRetriable = [p \in Passes |-> FALSE]

Pending == Cardinality({k \in Keys : Waiting(k)})

-----------------------------------------------------------------------------
(* Triggers *)

\* triggerSync, once the enqueue's transaction is through.
TriggerSync(p) ==
    /\ \/ online /\ Gate!Knock(p, FALSE)
       \/ ~online /\ UNCHANGED gateVars
    /\ UNCHANGED hadRetriable

Edit(p) ==
    /\ \/ \E v \in Volumes, F \in SUBSET Fields : EnqueueVolume(v, F)
       \/ \E s \in Series, F \in SUBSET BulkFields : EnqueueBulk(s, F)
    /\ TriggerSync(p)

\* The runner's interval, visibility, recovery and startup hooks.
RunnerKnocks(p) ==
    /\ online
    /\ Pending > 0
    /\ Gate!Knock(p, FALSE)
    /\ UNCHANGED <<vars, hadRetriable>>

UserForces(p) ==
    /\ Gate!Knock(p, TRUE)
    /\ UNCHANGED <<vars, hadRetriable>>

Timers(p) ==
    /\ Gate!TimerFires(p) \/ Gate!RequeueFires(p)
    /\ UNCHANGED <<vars, hadRetriable>>

-----------------------------------------------------------------------------
(* A pass, from its gate to its finally block *)

Approach(p) ==
    /\ Gate!Counted(p, Pending) \/ Gate!TurnedAway(p)
    /\ UNCHANGED <<vars, hadRetriable>>

Begin(p) ==
    /\ Gate!PassGate(p)
    /\ StartPass(p)
    /\ hadRetriable' = [hadRetriable EXCEPT ![p] = FALSE]

\* A flush function that throws makes the pass one that had a retriable error.
FlushFails(p) ==
    /\ \E s \in Series : Failed(p, s)
    /\ hadRetriable' = [hadRetriable EXCEPT ![p] = @ \/ stop'[p]]
    /\ UNCHANGED gateVars

FlushGoesOn(p) ==
    /\ \/ NextPhase(p)
       \/ \E k \in Keys : StartOp(p, k)
       \/ \E s \in Series : \/ Lands(p, s)
                            \/ Completes(p, s)
                            \/ Acked(p, s)
                            \/ Refused(p, s)
                            \/ Told(p, s)
                            \/ NotTold(p, s)
                            \/ CacheRows(p, s)
    /\ UNCHANGED <<gateVars, hadRetriable>>

Finish(p) ==
    /\ EndPass(p)
    /\ Gate!LeavePass(p, hadRetriable[p])
    /\ UNCHANGED hadRetriable

Pass(p) == Approach(p) \/ Begin(p) \/ FlushFails(p) \/ FlushGoesOn(p) \/ Finish(p)

-----------------------------------------------------------------------------
(* The world *)

PageReads ==
    /\ \E s \in Series : PageAsks(s) \/ PageTold(s) \/ PageCaches(s)
    /\ UNCHANGED <<gateVars, hadRetriable>>

\* Refused while the server is out of reach.
Restore ==
    /\ (RestoreTold /\ online) \/ RestoreCommits
    /\ UNCHANGED <<gateVars, hadRetriable>>

WorldTurns ==
    /\ Gate!WindowElapses \/ Gate!ConnectivityChanges
    /\ UNCHANGED <<vars, hadRetriable>>

SyncReload ==
    /\ Reload
    /\ Gate!GateReload
    /\ hadRetriable' = [p \in Passes |-> FALSE]

SyncNext ==
    \/ \E p \in Passes :
        \/ Edit(p)
        \/ RunnerKnocks(p)
        \/ UserForces(p)
        \/ Timers(p)
        \/ Pass(p)
    \/ PageReads
    \/ Restore
    \/ WorldTurns
    \/ SyncReload

\* Timers run out and fire, the 60 s interval keeps knocking, suspended calls
\* resume and requests are answered one way or another (the browser aborts a
\* dead connection).  The network is up again and again, long enough for the
\* interval's knock and the owner check to find it up.
SyncFairness ==
    /\ WF_syncVars(Gate!WindowElapses /\ UNCHANGED <<vars, hadRetriable>>)
    /\ WF_syncVars(~online /\ Gate!ConnectivityChanges /\ UNCHANGED <<vars, hadRetriable>>)
    /\ \A p \in Passes :
        /\ WF_syncVars(Timers(p))
        /\ SF_syncVars(RunnerKnocks(p))
        /\ WF_syncVars(Pass(p))
        /\ SF_syncVars(Begin(p))

SyncSpec == SyncInit /\ [][SyncNext]_syncVars /\ SyncFairness

-----------------------------------------------------------------------------
(* Properties *)

\* Whatever fails, however often, and whatever is reloaded or restored in the
\* middle of it, every op leaves the queue in the end: no interleaving of
\* triggers, backoff, timers and the syncing flag strands one there.
Drains == <>[](outbox = NoOps)
=============================================================================
