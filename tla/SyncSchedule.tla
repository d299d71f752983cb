---------------------------- MODULE SyncSchedule ----------------------------
(***************************************************************************)
(* When the offline queue is flushed: the passes of `syncOutbox` over the  *)
(* six outbox tables, the triggers of client/src/lib/sync/runner.js that   *)
(* start them, the isolation of one table's failures from the others, and  *)
(* the retry budget that ends in a dead letter.                            *)
(*                                                                         *)
(* What an op says is left out: a table holds at most one waiting op here. *)
(* VolumeOutbox models what the ops carry.                                 *)
(***************************************************************************)
EXTENDS SyncGate, Sequences, FiniteSets

CONSTANTS
    Tables,       \* the outbox tables
    FlushOrder,   \* the order in which a pass visits them, each once
    Poisoned,     \* tables whose op the server fails with a 5xx every time
    MaxTries,     \* MAX_OP_RETRIES
    MaxEnqueues,  \* bound: ops the user queues in a behaviour
    MaxReloads    \* bound: page reloads in a behaviour

ASSUME TablesAssumption ==
    /\ Poisoned \subseteq Tables
    /\ FlushOrder \in Seq(Tables)
    /\ \A t \in Tables : \E i \in 1..Len(FlushOrder) : FlushOrder[i] = t
    /\ \A i, j \in 1..Len(FlushOrder) : FlushOrder[i] = FlushOrder[j] => i = j
    /\ MaxTries \in Nat \ {0}
    /\ MaxEnqueues \in Nat
    /\ MaxReloads \in Nat

VARIABLES
    waiting,      \* tables with an op in them (Dexie: survives a reload)
    tries,        \* tries[t]: opRetryCounts of t's op (memory only)
    at,           \* at[c]: index in FlushOrder the pass of c has come to
    sent,         \* sent[c]: that table's op is on the wire
    hadRetriable, \* hadRetriable[c]: the pass of c met a retriable failure
    answered,     \* answered[c]: tables this pass has dealt with (history)
    enqueues,     \* bound counter
    reloads       \* bound counter

vars == <<gateVars, waiting, tries, at, sent, hadRetriable, answered,
          enqueues, reloads>>

TypeOK ==
    /\ GateTypeOK
    /\ waiting \subseteq Tables
    /\ tries \in [Tables -> 0..(MaxTries - 1)]
    /\ at \in [Calls -> 1..(Len(FlushOrder) + 1)]
    /\ sent \in [Calls -> BOOLEAN]
    /\ hadRetriable \in [Calls -> BOOLEAN]
    /\ answered \in [Calls -> SUBSET Tables]
    /\ enqueues \in 0..MaxEnqueues
    /\ reloads \in 0..MaxReloads

Init ==
    /\ GateInit
    /\ waiting \in SUBSET Tables   \* what an earlier page left behind
    /\ tries = [t \in Tables |-> 0]
    /\ at = [c \in Calls |-> 1]
    /\ sent = [c \in Calls |-> FALSE]
    /\ hadRetriable = [c \in Calls |-> FALSE]
    /\ answered = [c \in Calls |-> {}]
    /\ enqueues = 0
    /\ reloads = 0

passVars == <<at, sent, hadRetriable, answered>>

-----------------------------------------------------------------------------
(* Triggers *)

\* An enqueue* function: one Dexie transaction, then triggerSync().
Enqueue(t, c) ==
    /\ enqueues < MaxEnqueues
    /\ enqueues' = enqueues + 1
    /\ waiting' = waiting \union {t}
    /\ \/ online /\ Knock(c, FALSE)
       \/ ~online /\ UNCHANGED gateVars
    /\ UNCHANGED <<tries, passVars, reloads>>

\* The runner's hooks - the 60 s interval, a tab made visible, the server
\* back, the deferred startup check: all call syncOutbox when fully online,
\* all but the recovery hook after counting the queue.
RunnerKnocks(c) ==
    /\ online
    /\ waiting # {}
    /\ Knock(c, FALSE)
    /\ UNCHANGED <<waiting, tries, passVars, enqueues, reloads>>

\* The banner's retry button and pull-to-refresh: { force: true }.
UserForces(c) ==
    /\ Knock(c, TRUE)
    /\ UNCHANGED <<waiting, tries, passVars, enqueues, reloads>>

Timers(c) ==
    /\ TimerFires(c) \/ RequeueFires(c)
    /\ UNCHANGED <<waiting, tries, passVars, enqueues, reloads>>

-----------------------------------------------------------------------------
(* One pass *)

CountPending(c) ==
    /\ Counted(c, Cardinality(waiting))
    /\ UNCHANGED <<waiting, tries, passVars, enqueues, reloads>>

\* /auth/user could not be asked, whatever the watcher believes.  A foreign
\* owner, whose queue would be wiped, is not part of this module.
OwnerUnknown(c) ==
    /\ TurnedAway(c)
    /\ UNCHANGED <<waiting, tries, passVars, enqueues, reloads>>

StartPass(c) ==
    /\ PassGate(c)
    /\ at' = [at EXCEPT ![c] = 1]
    /\ sent' = [sent EXCEPT ![c] = FALSE]
    /\ hadRetriable' = [hadRetriable EXCEPT ![c] = FALSE]
    /\ answered' = [answered EXCEPT ![c] = {}]
    /\ UNCHANGED <<waiting, tries, enqueues, reloads>>

InPass(c) == pc[c] = "flushing" /\ at[c] <= Len(FlushOrder)

\* The next flush function reads its table; an empty one is done at once.
ReadTable(c) ==
    LET t == FlushOrder[at[c]] IN
    /\ InPass(c)
    /\ ~sent[c]
    /\ \/ /\ t \in waiting
          /\ sent' = [sent EXCEPT ![c] = TRUE]
          /\ UNCHANGED <<at, answered>>
       \/ /\ t \notin waiting
          /\ at' = [at EXCEPT ![c] = @ + 1]
          /\ answered' = [answered EXCEPT ![c] = @ \union {t}]
          /\ UNCHANGED sent
    /\ UNCHANGED <<gateVars, waiting, tries, hadRetriable, enqueues, reloads>>

NextTable(c) ==
    /\ at' = [at EXCEPT ![c] = @ + 1]
    /\ sent' = [sent EXCEPT ![c] = FALSE]
    /\ answered' = [answered EXCEPT ![c] = @ \union {FlushOrder[at[c]]}]

\* 2xx: the op leaves the table and its retry budget is forgotten.
Served(c) ==
    LET t == FlushOrder[at[c]] IN
    /\ InPass(c)
    /\ sent[c]
    /\ t \notin Poisoned
    /\ waiting' = waiting \ {t}
    /\ tries' = [tries EXCEPT ![t] = 0]
    /\ NextTable(c)
    /\ UNCHANGED <<gateVars, hadRetriable, enqueues, reloads>>

\* 4xx: the op leaves the table; its budget is left as it was.
Refused(c) ==
    LET t == FlushOrder[at[c]] IN
    /\ InPass(c)
    /\ sent[c]
    /\ t \notin Poisoned
    /\ waiting' = waiting \ {t}
    /\ NextTable(c)
    /\ UNCHANGED <<gateVars, tries, hadRetriable, enqueues, reloads>>

\* Mutant: the first retriable failure ends the pass (one try around a chain).
MutFailedAborts(c) ==
    LET t == FlushOrder[at[c]] IN
    /\ InPass(c)
    /\ sent[c]
    /\ online' \in {online, FALSE}
    /\ tries' = [tries EXCEPT ![t] = IF @ + 1 < MaxTries THEN @ + 1 ELSE 0]
    /\ hadRetriable' = [hadRetriable EXCEPT ![c] = (tries[t] + 1 < MaxTries)]
    /\ waiting' = IF tries[t] + 1 < MaxTries THEN waiting ELSE waiting \ {t}
    /\ at' = [at EXCEPT ![c] = Len(FlushOrder) + 1]
    /\ sent' = [sent EXCEPT ![c] = FALSE]
    /\ UNCHANGED <<pc, forced, syncing, syncQueued, gateClosed, backoff, timer,
                   requeued, answered, enqueues, reloads>>

\* 5xx or no answer: the connectivity interceptor may flip the state, and the
\* op either waits for the next pass or, its budget spent, is dead-lettered.
Failed(c) ==
    LET t == FlushOrder[at[c]] IN
    /\ InPass(c)
    /\ sent[c]
    /\ online' \in {online, FALSE}
    /\ \/ /\ tries[t] + 1 < MaxTries
          /\ tries' = [tries EXCEPT ![t] = @ + 1]
          /\ hadRetriable' = [hadRetriable EXCEPT ![c] = TRUE]
          /\ UNCHANGED waiting
       \/ /\ tries[t] + 1 >= MaxTries
          /\ tries' = [tries EXCEPT ![t] = 0]
          /\ waiting' = waiting \ {t}
          /\ UNCHANGED hadRetriable
    /\ NextTable(c)
    /\ UNCHANGED <<pc, forced, syncing, syncQueued, gateClosed, backoff, timer,
                   requeued, enqueues, reloads>>

EndPass(c) ==
    /\ at[c] = Len(FlushOrder) + 1
    /\ LeavePass(c, hadRetriable[c])
    /\ at' = [at EXCEPT ![c] = 1]
    /\ UNCHANGED <<waiting, tries, sent, hadRetriable, answered, enqueues, reloads>>

-----------------------------------------------------------------------------
(* The world *)

TimePasses ==
    /\ WindowElapses
    /\ UNCHANGED <<waiting, tries, passVars, enqueues, reloads>>

NetworkChanges ==
    /\ ConnectivityChanges
    /\ UNCHANGED <<waiting, tries, passVars, enqueues, reloads>>

Reload ==
    /\ reloads < MaxReloads
    /\ reloads' = reloads + 1
    /\ GateReload
    /\ tries' = [t \in Tables |-> 0]
    /\ at' = [c \in Calls |-> 1]
    /\ sent' = [c \in Calls |-> FALSE]
    /\ hadRetriable' = [c \in Calls |-> FALSE]
    /\ answered' = [c \in Calls |-> {}]
    /\ UNCHANGED <<waiting, enqueues>>

Pass(c) ==
    \/ CountPending(c)
    \/ OwnerUnknown(c)
    \/ StartPass(c)
    \/ ReadTable(c)
    \/ Served(c)
    \/ Refused(c)
    \/ Failed(c)
    \/ EndPass(c)

Next ==
    \/ \E c \in Calls :
        \/ \E t \in Tables : Enqueue(t, c)
        \/ RunnerKnocks(c)
        \/ UserForces(c)
        \/ Timers(c)
        \/ Pass(c)
    \/ TimePasses
    \/ NetworkChanges
    \/ Reload

Spec == Init /\ [][Next]_vars

-----------------------------------------------------------------------------
(* Properties *)

\* A pass that comes to its end has dealt with every table: one table's
\* retriable failure never keeps the pass from the tables behind it ("one
\* stuck op froze ALL sync").
PassVisitsEveryTable ==
    [][\A c \in Calls : at[c] = Len(FlushOrder) + 1 /\ at'[c] = 1
           => answered[c] = Tables \/ reloads' # reloads]_vars
=============================================================================
