------------------------- MODULE SyncScheduleProofs -------------------------
(***************************************************************************)
(* Proofs about SyncSchedule, for every number of concurrent invocations,  *)
(* every set of tables and every backoff ceiling.  The gate's invariants   *)
(* are proved action by action of SyncGate (the lemmas about GateInv), so  *)
(* that they hold of every module whose steps are gate steps; that no pass *)
(* skips a table is a property of the steps of a pass, and comes last.     *)
(***************************************************************************)
EXTENDS SyncSchedule, TLAPS

GateInv ==
    /\ GateTypeOK
    /\ FlagHasOwner
    /\ KnockHasListener
    /\ ShutWindowHasTimer

-----------------------------------------------------------------------------
(* The gate *)

LEMMA GrownBounded == \A b \in 0..MaxBackoff : Grown(b) \in 1..MaxBackoff
BY MaxBackoffAssumption DEF Grown

\* A call may be turned away, knock or start counting; the invariant survives
\* all of it, whatever the caller changes of the timers.
LEMMA EnterKeeps ==
    ASSUME GateInv, NEW c \in Calls, NEW force \in BOOLEAN, NEW shut,
           Enter(c, force, shut),
           UNCHANGED <<online, syncing, gateClosed, backoff>>,
           timer' \in BOOLEAN, requeued' \in BOOLEAN,
           gateClosed => timer'
    PROVE  GateInv'
<1>1. /\ pc' \in [Calls -> Stages]
      /\ forced' \in [Calls -> BOOLEAN]
      /\ syncQueued' \in BOOLEAN
      /\ Flushing' = Flushing
  BY DEF Enter, GateInv, GateTypeOK, Stages, Flushing, Idle
<1>2. syncQueued' => syncing
  BY DEF Enter, GateInv, KnockHasListener
<1> QED
  BY <1>1, <1>2
     DEF GateInv, GateTypeOK, FlagHasOwner, KnockHasListener, ShutWindowHasTimer

LEMMA KnockKeeps ==
    ASSUME GateInv, NEW c \in Calls, NEW force \in BOOLEAN, Knock(c, force)
    PROVE  GateInv'
<1>1. timer' \in BOOLEAN /\ requeued' \in BOOLEAN /\ (gateClosed => timer')
  BY DEF Knock, GateInv, GateTypeOK, ShutWindowHasTimer
<1> QED
  BY <1>1, EnterKeeps DEF Knock

LEMMA TimersKeep ==
    ASSUME GateInv, NEW c \in Calls, TimerFires(c) \/ RequeueFires(c)
    PROVE  GateInv'
<1>1. timer' \in BOOLEAN /\ requeued' \in BOOLEAN /\ (gateClosed => timer')
  BY DEF TimerFires, RequeueFires, GateInv, GateTypeOK, ShutWindowHasTimer
<1> QED
  BY <1>1, EnterKeeps DEF TimerFires, RequeueFires

\* A suspended call that goes on, turns back or passes the gate.
LEMMA SuspendedKeeps ==
    ASSUME GateInv, NEW c \in Calls, NEW n,
           Counted(c, n) \/ TurnedAway(c) \/ PassGate(c)
    PROVE  GateInv'
<1>1. CASE Counted(c, n) \/ TurnedAway(c)
  <2>1. pc' \in [Calls -> Stages] /\ Flushing' = Flushing
    BY <1>1 DEF Counted, TurnedAway, GateInv, GateTypeOK, Stages, Flushing
  <2> QED
    BY <1>1, <2>1 DEF Counted, TurnedAway, GateInv, GateTypeOK, FlagHasOwner,
                      KnockHasListener, ShutWindowHasTimer
<1>2. CASE PassGate(c)
  <2>1. pc' \in [Calls -> Stages] /\ c \in Flushing'
    BY <1>2 DEF PassGate, GateInv, GateTypeOK, Stages, Flushing
  <2> QED
    BY <1>2, <2>1 DEF PassGate, GateInv, GateTypeOK, FlagHasOwner,
                      KnockHasListener, ShutWindowHasTimer
<1> QED
  BY <1>1, <1>2

LEMMA LeaveKeeps ==
    ASSUME GateInv, NEW c \in Calls, NEW failed \in BOOLEAN, LeavePass(c, failed)
    PROVE  GateInv'
<1>1. /\ pc' \in [Calls -> Stages]
      /\ ~syncing' /\ syncing' \in BOOLEAN
      /\ ~syncQueued' /\ syncQueued' \in BOOLEAN
  BY DEF LeavePass, GateInv, GateTypeOK, Stages
<1>2. /\ backoff' \in 0..MaxBackoff
      /\ gateClosed' \in BOOLEAN /\ timer' \in BOOLEAN /\ requeued' \in BOOLEAN
      /\ gateClosed' => timer' /\ backoff' > 0
  <2>0. MaxBackoff \in Nat \ {0} /\ backoff \in 0..MaxBackoff
        /\ requeued \in BOOLEAN /\ syncQueued \in BOOLEAN
    BY MaxBackoffAssumption DEF GateInv, GateTypeOK
  <2>1. CASE failed
    <3>1. backoff' = Grown(backoff) /\ gateClosed' = TRUE /\ timer' = TRUE
          /\ requeued' = requeued
      BY <2>1 DEF LeavePass
    <3>2. backoff' \in 1..MaxBackoff
      BY <2>0, <3>1, GrownBounded
    <3> QED
      BY <2>0, <3>1, <3>2
  <2>2. CASE ~failed
    <3>1. backoff' = 0 /\ gateClosed' = FALSE /\ timer' = FALSE
          /\ requeued' = (requeued \/ syncQueued)
      BY <2>2 DEF LeavePass
    <3>2. backoff' \in 0..MaxBackoff
      BY <2>0, <3>1
    <3> QED
      BY <2>0, <3>1, <3>2, Zenon
  <2> QED
    BY <2>1, <2>2
<1> QED
  BY <1>1, <1>2 DEF LeavePass, GateInv, GateTypeOK, FlagHasOwner, KnockHasListener,
                    ShutWindowHasTimer

LEMMA WorldKeeps ==
    ASSUME GateInv,
           WindowElapses \/ ConnectivityChanges \/ GateReload \/ UNCHANGED gateVars
    PROVE  GateInv'
<1>1. CASE WindowElapses \/ ConnectivityChanges \/ UNCHANGED gateVars
  <2>1. /\ UNCHANGED <<pc, forced, syncing, syncQueued, backoff, timer, requeued>>
        /\ gateClosed' \in {gateClosed, FALSE}
        /\ online' \in BOOLEAN
    BY <1>1 DEF WindowElapses, ConnectivityChanges, gateVars, GateInv, GateTypeOK
  <2>2. GateTypeOK'
    BY <2>1 DEF GateInv, GateTypeOK
  <2>3. FlagHasOwner' /\ KnockHasListener'
    BY <2>1 DEF GateInv, FlagHasOwner, KnockHasListener, Flushing
  <2>4. ShutWindowHasTimer'
    BY <2>1, Zenon DEF GateInv, ShutWindowHasTimer
  <2> QED
    BY <2>2, <2>3, <2>4 DEF GateInv
<1>2. CASE GateReload
  <2>1. 0 \in 0..MaxBackoff
    BY MaxBackoffAssumption
  <2> QED
    BY <1>2, <2>1 DEF GateReload, GateInv, GateTypeOK, FlagHasOwner,
                      KnockHasListener, ShutWindowHasTimer, Stages
<1> QED
  BY <1>1, <1>2

\* The watcher may change its mind in the middle of a step of a pass.
LEMMA OnlineKeeps ==
    ASSUME GateInv, online' \in BOOLEAN,
           UNCHANGED <<pc, forced, syncing, syncQueued, gateClosed, backoff, timer,
                       requeued>>
    PROVE  GateInv'
BY DEF GateInv, GateTypeOK, FlagHasOwner, KnockHasListener, ShutWindowHasTimer, Flushing

-----------------------------------------------------------------------------
(* The schedule's steps are gate steps *)

IInv == TypeOK /\ GateInv

LEMMA PassKeepsGate ==
    ASSUME IInv, NEW c \in Calls, Pass(c) PROVE GateInv'
<1>1. CASE CountPending(c)
  BY <1>1, SuspendedKeeps DEF CountPending, IInv
<1>2. CASE OwnerUnknown(c)
  BY <1>2, SuspendedKeeps DEF OwnerUnknown, IInv
<1>3. CASE StartPass(c)
  BY <1>3, SuspendedKeeps DEF StartPass, IInv
<1>4. CASE ReadTable(c) \/ Served(c) \/ Refused(c)
  BY <1>4, WorldKeeps DEF ReadTable, Served, Refused, IInv
<1>5. CASE Failed(c)
  BY <1>5, OnlineKeeps DEF Failed, IInv, GateInv, GateTypeOK
<1>6. CASE EndPass(c)
  <2>1. hadRetriable[c] \in BOOLEAN
    BY DEF IInv, TypeOK
  <2> QED
    BY <1>6, <2>1, LeaveKeeps DEF EndPass, IInv
<1> QED
  BY <1>1, <1>2, <1>3, <1>4, <1>5, <1>6 DEF Pass

LEMMA StepKeepsGate ==
    ASSUME IInv, [Next]_vars PROVE GateInv'
<1>1. ASSUME NEW c \in Calls, NEW t \in Tables, Enqueue(t, c) PROVE GateInv'
  BY <1>1, KnockKeeps, WorldKeeps DEF Enqueue, IInv
<1>2. ASSUME NEW c \in Calls, RunnerKnocks(c) \/ UserForces(c) PROVE GateInv'
  BY <1>2, KnockKeeps DEF RunnerKnocks, UserForces, IInv
<1>3. ASSUME NEW c \in Calls, Timers(c) PROVE GateInv'
  BY <1>3, TimersKeep DEF Timers, IInv
<1>4. CASE TimePasses \/ NetworkChanges \/ Reload \/ UNCHANGED vars
  BY <1>4, WorldKeeps DEF TimePasses, NetworkChanges, Reload, vars, IInv
<1> QED
  BY <1>1, <1>2, <1>3, <1>4, PassKeepsGate DEF Next

-----------------------------------------------------------------------------
(* Types *)

LEMMA OrderTypes ==
    /\ Len(FlushOrder) \in Nat
    /\ \A i \in 1..Len(FlushOrder) : FlushOrder[i] \in Tables
BY TablesAssumption

LEMMA PassTypes ==
    ASSUME IInv, NEW c \in Calls, Pass(c), GateTypeOK' PROVE TypeOK'
<1>0. /\ Len(FlushOrder) \in Nat
      /\ MaxTries \in Nat \ {0}
      /\ InPass(c) => FlushOrder[at[c]] \in Tables /\ at[c] + 1 \in 1..(Len(FlushOrder) + 1)
  <2>1. Len(FlushOrder) \in Nat /\ MaxTries \in Nat \ {0}
    BY OrderTypes, TablesAssumption
  <2>2. at[c] \in 1..(Len(FlushOrder) + 1)
    BY DEF IInv, TypeOK
  <2>3. InPass(c) => at[c] \in 1..Len(FlushOrder) /\ at[c] + 1 \in 1..(Len(FlushOrder) + 1)
    BY <2>1, <2>2 DEF InPass
  <2> QED
    BY <2>1, <2>3, OrderTypes
<1>1. CASE CountPending(c) \/ OwnerUnknown(c)
  BY <1>1 DEF CountPending, OwnerUnknown, IInv, TypeOK, passVars
<1>2. CASE StartPass(c)
  BY <1>0, <1>2 DEF StartPass, IInv, TypeOK
<1>3. CASE ReadTable(c)
  <2>1. /\ at' \in [Calls -> 1..(Len(FlushOrder) + 1)]
        /\ answered' \in [Calls -> SUBSET Tables]
    <3>1. CASE UNCHANGED <<at, answered>>
      BY <3>1 DEF IInv, TypeOK
    <3>2. CASE /\ at' = [at EXCEPT ![c] = @ + 1]
               /\ answered' = [answered EXCEPT ![c] = @ \union {FlushOrder[at[c]]}]
               /\ InPass(c)
      BY <1>0, <3>2 DEF IInv, TypeOK
    <3> QED
      BY <1>3, <3>1, <3>2 DEF ReadTable
  <2>2. sent' \in [Calls -> BOOLEAN]
    BY <1>3 DEF ReadTable, IInv, TypeOK
  <2> QED
    BY <1>3, <2>1, <2>2 DEF ReadTable, IInv, TypeOK
<1>4. ASSUME InPass(c), NextTable(c)
      PROVE  /\ at' \in [Calls -> 1..(Len(FlushOrder) + 1)]
             /\ sent' \in [Calls -> BOOLEAN]
             /\ answered' \in [Calls -> SUBSET Tables]
  BY <1>0, <1>4 DEF NextTable, IInv, TypeOK
<1>5. CASE Served(c) \/ Refused(c)
  <2>1. waiting' \subseteq waiting /\ tries' \in [Tables -> 0..(MaxTries - 1)]
    <3>1. 0 \in 0..(MaxTries - 1)
      BY <1>0
    <3>2. waiting' \subseteq waiting
      BY <1>5 DEF Served, Refused
    <3>3. tries' = [tries EXCEPT ![FlushOrder[at[c]]] = 0] \/ tries' = tries
      BY <1>5 DEF Served, Refused
    <3> QED
      BY <3>1, <3>2, <3>3 DEF IInv, TypeOK
  <2> QED
    BY <1>4, <1>5, <2>1 DEF Served, Refused, IInv, TypeOK
<1>6. CASE Failed(c)
  <2> DEFINE t == FlushOrder[at[c]]
  <2>1. t \in Tables /\ tries[t] \in 0..(MaxTries - 1)
    BY <1>0, <1>6 DEF Failed, IInv, TypeOK
  <2> HIDE DEF t
  <2>2. /\ \/ tries[t] + 1 < MaxTries /\ tries' = [tries EXCEPT ![t] = @ + 1]
           \/ tries' = [tries EXCEPT ![t] = 0]
        /\ waiting' \subseteq waiting
        /\ hadRetriable' = hadRetriable \/ hadRetriable' = [hadRetriable EXCEPT ![c] = TRUE]
    BY <1>6 DEF Failed, t
  <2>3. tries' \in [Tables -> 0..(MaxTries - 1)]
    <3>1. tries \in [Tables -> 0..(MaxTries - 1)] /\ 0 \in 0..(MaxTries - 1)
      BY <1>0 DEF IInv, TypeOK
    <3>2. CASE tries[t] + 1 < MaxTries /\ tries' = [tries EXCEPT ![t] = @ + 1]
      <4>1. tries[t] + 1 \in 0..(MaxTries - 1)
        BY <1>0, <2>1, <3>2
      <4> QED
        BY <3>1, <3>2, <4>1
    <3>3. CASE tries' = [tries EXCEPT ![t] = 0]
      BY <3>1, <3>3
    <3> QED
      BY <2>2, <3>2, <3>3
  <2>4. hadRetriable' \in [Calls -> BOOLEAN]
    BY <2>2 DEF IInv, TypeOK
  <2>5. at' \in [Calls -> 1..(Len(FlushOrder) + 1)]
        /\ sent' \in [Calls -> BOOLEAN]
        /\ answered' \in [Calls -> SUBSET Tables]
    BY <1>4, <1>6 DEF Failed
  <2>6. UNCHANGED <<enqueues, reloads>>
    BY <1>6 DEF Failed
  <2> QED
    BY <2>2, <2>3, <2>4, <2>5, <2>6 DEF IInv, TypeOK
<1>7. CASE EndPass(c)
  BY <1>0, <1>7 DEF EndPass, IInv, TypeOK
<1> QED
  BY <1>1, <1>2, <1>3, <1>5, <1>6, <1>7 DEF Pass

LEMMA StepTypes ==
    ASSUME IInv, [Next]_vars PROVE TypeOK'
<1>0. /\ GateTypeOK'
      /\ Len(FlushOrder) \in Nat
      /\ MaxTries \in Nat \ {0} /\ MaxEnqueues \in Nat /\ MaxReloads \in Nat
  BY StepKeepsGate, OrderTypes, TablesAssumption DEF GateInv
<1>1. ASSUME NEW c \in Calls, NEW t \in Tables, Enqueue(t, c) PROVE TypeOK'
  BY <1>0, <1>1 DEF Enqueue, IInv, TypeOK, passVars
<1>2. ASSUME NEW c \in Calls, RunnerKnocks(c) \/ UserForces(c) \/ Timers(c) PROVE TypeOK'
  BY <1>0, <1>2 DEF RunnerKnocks, UserForces, Timers, IInv, TypeOK, passVars
<1>3. CASE TimePasses \/ NetworkChanges \/ UNCHANGED vars
  BY <1>0, <1>3 DEF TimePasses, NetworkChanges, vars, IInv, TypeOK, passVars
<1>4. CASE Reload
  BY <1>0, <1>4 DEF Reload, IInv, TypeOK
<1> QED
  BY <1>0, <1>1, <1>2, <1>3, <1>4, PassTypes DEF Next

-----------------------------------------------------------------------------

LEMMA InitIInv == Init => IInv
<1> SUFFICES ASSUME Init PROVE IInv
  OBVIOUS
<1>1. GateInv
  <2>1. 0 \in 0..MaxBackoff
    BY MaxBackoffAssumption
  <2>2. GateTypeOK
    BY <2>1, Zenon DEF Init, GateInit, GateTypeOK, Stages
  <2> QED
    BY <2>2 DEF Init, GateInit, GateInv, FlagHasOwner, KnockHasListener,
                ShutWindowHasTimer
<1>2. 1 \in 1..(Len(FlushOrder) + 1) /\ 0 \in 0..(MaxTries - 1)
      /\ 0 \in 0..MaxEnqueues /\ 0 \in 0..MaxReloads
  BY OrderTypes, TablesAssumption
<1> QED
  BY <1>1, <1>2 DEF Init, IInv, TypeOK, GateInv

LEMMA Invariance == Init /\ [][Next]_vars => []IInv
<1>1. IInv /\ [Next]_vars => IInv'
  BY StepKeepsGate, StepTypes DEF IInv
<1> QED
  BY <1>1, InitIInv, PTL

\* Every variable of the scheduler keeps its type: in particular the backoff
\* never passes its ceiling and no op is tried MAX_OP_RETRIES times.
THEOREM TypeCorrect == Spec => []TypeOK
<1>1. IInv => TypeOK
  BY DEF IInv
<1> QED
  BY <1>1, Invariance, PTL DEF Spec

\* However many invocations of syncOutbox overlap, a raised syncing flag always
\* belongs to a running pass: sync cannot lock itself out.
THEOREM FlagAlwaysOwned == Spec => []FlagHasOwner
<1>1. IInv => FlagHasOwner
  BY DEF IInv, GateInv
<1> QED
  BY <1>1, Invariance, PTL DEF Spec

\* However many invocations overlap, a remembered knock always has a running
\* pass that will answer it.
THEOREM KnocksAnswered == Spec => []KnockHasListener
<1>1. IInv => KnockHasListener
  BY DEF IInv, GateInv
<1> QED
  BY <1>1, Invariance, PTL DEF Spec

\* A shut retry window always has the timer that reopens it.
THEOREM WindowsReopen == Spec => []ShutWindowHasTimer
<1>1. IInv => ShutWindowHasTimer
  BY DEF IInv, GateInv
<1> QED
  BY <1>1, Invariance, PTL DEF Spec

-----------------------------------------------------------------------------
(* A pass visits every table *)

\* A pass has dealt with the tables before the one it has come to; a call that
\* is not in a pass stands before the first.
Visited ==
    \A c \in Calls :
        /\ pc[c] = "flushing" =>
            \A i \in 1..Len(FlushOrder) : i < at[c] => FlushOrder[i] \in answered[c]
        /\ pc[c] # "flushing" => at[c] = 1

\* Steps of the gate that neither start nor end a pass.
LEMMA SameVisits ==
    ASSUME Visited, UNCHANGED <<at, answered>>,
           \A c \in Calls : pc'[c] = "flushing" <=> pc[c] = "flushing"
    PROVE  Visited'
BY DEF Visited

LEMMA KnockVisits ==
    ASSUME IInv, NEW c \in Calls, NEW force, NEW shut, Enter(c, force, shut)
    PROVE  \A d \in Calls : pc'[d] = "flushing" <=> pc[d] = "flushing"
BY DEF Enter, Idle, IInv, GateInv, GateTypeOK

LEMMA NextTableVisits ==
    ASSUME IInv, Visited, NEW c \in Calls, InPass(c), UNCHANGED pc,
           at' = [at EXCEPT ![c] = @ + 1],
           answered' = [answered EXCEPT ![c] = @ \union {FlushOrder[at[c]]}]
    PROVE  Visited'
<1>0. /\ Len(FlushOrder) \in Nat
      /\ at[c] \in 1..(Len(FlushOrder) + 1)
      /\ pc[c] = "flushing"
      /\ at'[c] = at[c] + 1
      /\ answered'[c] = answered[c] \union {FlushOrder[at[c]]}
      /\ \A d \in Calls : d # c => at'[d] = at[d] /\ answered'[d] = answered[d]
  BY OrderTypes DEF IInv, TypeOK, InPass
<1>1. ASSUME NEW i \in 1..Len(FlushOrder), i < at'[c] PROVE FlushOrder[i] \in answered'[c]
  <2>1. CASE i < at[c]
    BY <1>0, <2>1 DEF Visited
  <2>2. CASE i = at[c]
    BY <1>0, <2>2
  <2> QED
    BY <1>0, <1>1, <2>1, <2>2
<1>2. ASSUME NEW d \in Calls
      PROVE  /\ pc'[d] = "flushing" =>
                 \A i \in 1..Len(FlushOrder) : i < at'[d] => FlushOrder[i] \in answered'[d]
             /\ pc'[d] # "flushing" => at'[d] = 1
  <2>1. CASE d = c
    BY <1>0, <1>1, <2>1
  <2>2. CASE d # c
    BY <1>0, <2>2 DEF Visited
  <2> QED
    BY <2>1, <2>2
<1> QED
  BY <1>2 DEF Visited

LEMMA PassVisits ==
    ASSUME IInv, Visited, NEW c \in Calls, Pass(c) PROVE Visited'
<1>0. /\ pc \in [Calls -> Stages]
      /\ at \in [Calls -> 1..(Len(FlushOrder) + 1)]
      /\ answered \in [Calls -> SUBSET Tables]
  BY DEF IInv, TypeOK, GateInv, GateTypeOK
<1>1. CASE CountPending(c) \/ OwnerUnknown(c)
  <2>1. \A d \in Calls : pc'[d] = "flushing" <=> pc[d] = "flushing"
    BY <1>0, <1>1 DEF CountPending, OwnerUnknown, Counted, TurnedAway
  <2> QED
    BY <1>1, <2>1, SameVisits DEF CountPending, OwnerUnknown, passVars
<1>2. CASE StartPass(c)
  <2>1. at'[c] = 1 /\ pc'[c] = "flushing"
    BY <1>0, <1>2 DEF StartPass, PassGate
  <2>2. \A d \in Calls : d # c =>
            at'[d] = at[d] /\ answered'[d] = answered[d] /\ pc'[d] = pc[d]
    BY <1>0, <1>2 DEF StartPass, PassGate
  <2> QED
    BY <2>1, <2>2, OrderTypes DEF Visited
<1>3. CASE ReadTable(c)
  <2>1. UNCHANGED pc /\ InPass(c)
    BY <1>3 DEF ReadTable, gateVars
  <2>2. CASE UNCHANGED <<at, answered>>
    BY <2>1, <2>2, SameVisits
  <2>3. CASE /\ at' = [at EXCEPT ![c] = @ + 1]
             /\ answered' = [answered EXCEPT ![c] = @ \union {FlushOrder[at[c]]}]
    BY <2>1, <2>3, NextTableVisits
  <2> QED
    BY <1>3, <2>2, <2>3 DEF ReadTable
<1>4. CASE Served(c) \/ Refused(c) \/ Failed(c)
  <2>1. UNCHANGED pc /\ InPass(c) /\ NextTable(c)
    BY <1>4 DEF Served, Refused, Failed, gateVars
  <2> QED
    BY <2>1, NextTableVisits DEF NextTable
<1>5. CASE EndPass(c)
  <2>1. at'[c] = 1 /\ pc'[c] = "idle" /\ UNCHANGED answered
    BY <1>0, <1>5 DEF EndPass, LeavePass
  <2>2. \A d \in Calls : d # c => at'[d] = at[d] /\ pc'[d] = pc[d]
    BY <1>0, <1>5 DEF EndPass, LeavePass
  <2> QED
    BY <2>1, <2>2 DEF Visited
<1> QED
  BY <1>1, <1>2, <1>3, <1>4, <1>5 DEF Pass

LEMMA StepVisits ==
    ASSUME IInv, Visited, [Next]_vars PROVE Visited'
<1>1. ASSUME NEW c \in Calls, NEW t \in Tables, Enqueue(t, c) PROVE Visited'
  <2>1. \A d \in Calls : pc'[d] = "flushing" <=> pc[d] = "flushing"
    BY <1>1, KnockVisits DEF Enqueue, Knock, gateVars
  <2> QED
    BY <1>1, <2>1, SameVisits DEF Enqueue, passVars
<1>2. ASSUME NEW c \in Calls, RunnerKnocks(c) \/ UserForces(c) \/ Timers(c)
      PROVE  Visited'
  <2>1. \A d \in Calls : pc'[d] = "flushing" <=> pc[d] = "flushing"
    BY <1>2, KnockVisits
       DEF RunnerKnocks, UserForces, Timers, Knock, TimerFires, RequeueFires
  <2> QED
    BY <1>2, <2>1, SameVisits DEF RunnerKnocks, UserForces, Timers, passVars
<1>3. CASE TimePasses \/ NetworkChanges \/ UNCHANGED vars
  BY <1>3, SameVisits
     DEF TimePasses, NetworkChanges, WindowElapses, ConnectivityChanges, vars, gateVars,
         passVars
<1>4. CASE Reload
  BY <1>4 DEF Reload, GateReload, Visited
<1> QED
  BY <1>1, <1>2, <1>3, <1>4, PassVisits DEF Next

\* No table's failure keeps a pass from the tables behind it: a pass that comes
\* to its end has dealt with every one of them, whatever each answered.
THEOREM NoTableSkipped == Spec => PassVisitsEveryTable
<1>1. Init => IInv /\ Visited
  <2>1. Init => Visited
    BY DEF Init, GateInit, Visited
  <2> QED
    BY <2>1, InitIInv
<1>2. IInv /\ Visited /\ [Next]_vars => (IInv /\ Visited)'
  BY StepKeepsGate, StepTypes, StepVisits DEF IInv
<1>3. IInv /\ Visited /\ [Next]_vars
         => [\A c \in Calls : at[c] = Len(FlushOrder) + 1 /\ at'[c] = 1
                => answered[c] = Tables \/ reloads' # reloads]_vars
  <2> SUFFICES ASSUME IInv, Visited, NEW c \in Calls, at[c] = Len(FlushOrder) + 1
               PROVE  answered[c] = Tables
    OBVIOUS
  <2>1. Len(FlushOrder) \in Nat /\ answered[c] \subseteq Tables
    BY OrderTypes DEF IInv, TypeOK
  <2>2. ASSUME NEW t \in Tables PROVE t \in answered[c]
    <3>1. PICK i \in 1..Len(FlushOrder) : FlushOrder[i] = t
      BY TablesAssumption
    <3>2. i < at[c] /\ at[c] # 1
      BY <2>1
    <3> QED
      BY <3>1, <3>2 DEF Visited
  <2> QED
    BY <2>1, <2>2
<1> QED
  BY <1>1, <1>2, <1>3, PTL DEF Spec, PassVisitsEveryTable
=============================================================================
