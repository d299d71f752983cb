---------------------------- MODULE VolumeOutbox ----------------------------
(***************************************************************************)
(* One device's volume edits, from the click to the server and back:       *)
(* enqueueVolumeUpdate, enqueueBulkMark, flushVolumes, flushBulkMark,      *)
(* refetchVolumes and forceResyncFromServer of                             *)
(* client/src/lib/sync/outbox.js, and the guarded cache write              *)
(* cacheVolumesForManga of client/src/lib/db.js.                           *)
(*                                                                         *)
(* An op waits in the outbox under a key: a volume's id for a single edit, *)
(* a series' id for a bulk mark over all its volumes.  The content of a    *)
(* column is the number of the edit that wrote it; 0 is what the server    *)
(* held at first.  Nobody else writes to this shelf, so what the user last *)
(* chose is what the server should end up with.                            *)
(*                                                                         *)
(* Passes are the invocations of syncOutbox that are past its gate; when   *)
(* they may start is SyncGate's business.  A request whose connection      *)
(* breaks is never applied later than the break.  Volumes are released     *)
(* tomes: the upcoming ones, which bulk marks skip on both sides, are left *)
(* out.                                                                    *)
(***************************************************************************)
EXTENDS Integers, FiniteSets

CONSTANTS
    Volumes,        \* ids of the volumes on the shelf
    Series,         \* mal_ids
    SeriesOf,       \* SeriesOf[v]: the series of volume v
    Fields,         \* the columns an edit can touch
    BaseFields,     \* owned, price, store, collector: in every volume PATCH
    BulkFields,     \* owned, read: what a bulk mark can set
    LateFields,     \* loan, isbn, ...: a PATCH writes them after the others
    Passes,         \* flush passes that may run at once
    Concurrency,    \* VOLUME_FLUSH_CONCURRENCY
    MaxTries,       \* MAX_OP_RETRIES
    MaxEdits,       \* bound: edits the user makes
    MaxRestores,    \* bound: "restore from server" the user asks for
    MaxReloads,     \* bound: page reloads
    MaxPageReads,   \* bound: GETs a page issues on its own
    RacingEdits,    \* may the user edit what a running pass has in hand?
    MixedEdits,     \* may a volume have a single edit and a bulk mark waiting?
    ReadsFail       \* may the GET after a refusal fail?

Keys == Volumes \union Series

ASSUME ShelfAssumption ==
    /\ Volumes \intersect Series = {}
    /\ SeriesOf \in [Volumes -> Series]
    /\ BaseFields \subseteq Fields
    /\ BulkFields \subseteq Fields
    /\ LateFields \subseteq Fields

ASSUME BoundsAssumption ==
    /\ Concurrency \in Nat \ {0}
    /\ MaxTries \in Nat \ {0}
    /\ MaxEdits \in Nat
    /\ MaxRestores \in Nat
    /\ MaxReloads \in Nat
    /\ MaxPageReads \in Nat
    /\ RacingEdits \in BOOLEAN
    /\ MixedEdits \in BOOLEAN
    /\ ReadsFail \in BOOLEAN

VARIABLES
    local,     \* Dexie's volumes table: what the UI shows
    outbox,    \* outboxVolumes and outboxBulkMark, by key
    server,    \* user_volumes
    tries,     \* opRetryCounts (memory)
    phase,     \* phase[p]: the flush function pass p is in
    todo,      \* todo[p]: ops of its snapshot pass p has not taken up yet
    stop,      \* stop[p]: this flush function met a retriable failure
    job,       \* job[p][s]: the worker of pass p on series s
    page,      \* page[s]: a GET of the series issued by a page
    restore,   \* forceResyncFromServer: the snapshot it holds
    edits,     \* number of edits made
    intent,    \* the user's latest choice, by volume and column (history)
    refused,   \* edits dropped because the server would not have them (history)
    reported,  \* edits a sync error has been raised for (history)
    abandoned, \* edits up to this one were given up by a restore (history)
    missed,    \* series a pass set out to read back and never did (history)
    restores,  \* restores, reloads and page reads so far (bounds)
    reloads,
    pageReads

spent == <<restores, reloads, pageReads>>

vars == <<local, outbox, server, tries, phase, todo, stop, job, page, restore,
          edits, intent, refused, reported, abandoned, missed, spent>>

-----------------------------------------------------------------------------
(* Rows, ops and keys *)

Undef == -1                            \* the payload leaves the column alone

\* Rows and ops made of the first n edits.
Row(n) == [Fields -> 0..n]
Shelf(n) == [Volumes -> Row(n)]
Op(n) == [Fields -> Undef..n]
NoOp == [f \in Fields |-> Undef]       \* nothing waits under this key

\* The volumes an op under key k writes.
Covers(k) == IF k \in Series THEN {v \in Volumes : SeriesOf[v] = k} ELSE {k}

Home(k) == IF k \in Series THEN k ELSE SeriesOf[k]

\* Row r after an op: the columns the op names, the others as they were.
Merged(r, op) == [f \in Fields |-> IF op[f] # Undef THEN op[f] ELSE r[f]]

\* A shelf after an op under key k.
Applied(shelf, k, op) ==
    [v \in Volumes |-> IF v \in Covers(k) THEN Merged(shelf[v], op) ELSE shelf[v]]

Waiting(k) == outbox[k] # NoOp

\* Mutant: the guard forgets bulk marks.
MutGuardedByIdOnly(v) == Waiting(v)

\* isGuardedVolume: the row has an op of its own, or its series a bulk mark.
Guarded(v) == \E k \in Keys : v \in Covers(k) /\ Waiting(k)

-----------------------------------------------------------------------------
(* Types and initial state *)

JobStates == {"free", "sent", "half", "landed", "asking", "told"}
Job(n) == [st : JobStates, key : Keys, op : Op(n), rows : Shelf(n)]
Reading(n) == [st : {"free", "asking", "told"}, rows : Shelf(n)]

\* Nothing holds, carries or reports an edit the user has not made.
TypeOK ==
    /\ edits \in 0..MaxEdits
    /\ local \in Shelf(edits)
    /\ outbox \in [Keys -> Op(edits)]
    /\ server \in Shelf(edits)
    /\ tries \in [Keys -> 0..(MaxTries - 1)]
    /\ phase \in [Passes -> {"off", "volumes", "bulk"}]
    /\ todo \in [Passes -> [Keys -> Op(edits)]]
    /\ stop \in [Passes -> BOOLEAN]
    /\ job \in [Passes -> [Series -> Job(edits)]]
    /\ page \in [Series -> Reading(edits)]
    /\ restore \in Reading(edits)
    /\ intent \in Shelf(edits)
    /\ refused \subseteq Volumes \X Fields \X (0..edits)
    /\ reported \subseteq Volumes \X Fields \X (0..edits)
    /\ abandoned \in 0..edits
    /\ missed \subseteq Series
    /\ restores \in 0..MaxRestores
    /\ reloads \in 0..MaxReloads
    /\ pageReads \in 0..MaxPageReads

Untouched == [v \in Volumes |-> [f \in Fields |-> 0]]
NoReading == [st |-> "free", rows |-> Untouched]
NoOps == [k \in Keys |-> NoOp]
FreeJobs == [s \in Series |->
                [st |-> "free", key |-> s, op |-> NoOp, rows |-> Untouched]]

Init ==
    /\ local = Untouched
    /\ outbox = NoOps
    /\ server = Untouched
    /\ tries = [k \in Keys |-> 0]
    /\ phase = [p \in Passes |-> "off"]
    /\ todo = [p \in Passes |-> NoOps]
    /\ stop = [p \in Passes |-> FALSE]
    /\ job = [p \in Passes |-> FreeJobs]
    /\ page = [s \in Series |-> NoReading]
    /\ restore = NoReading
    /\ edits = 0
    /\ intent = Untouched
    /\ refused = {}
    /\ reported = {}
    /\ abandoned = 0
    /\ missed = {}
    /\ restores = 0
    /\ reloads = 0
    /\ pageReads = 0

passVars == <<phase, todo, stop, job>>
historyVars == <<intent, refused, reported, abandoned, missed>>

-----------------------------------------------------------------------------
(* The user edits *)

\* A pass has key k's op in its snapshot, on the wire, or is reading back what
\* became of it.
InHand(k) ==
    \E p \in Passes :
        \/ todo[p][k] # NoOp
        \/ \E s \in Series : job[p][s].st # "free" /\ job[p][s].key = k

\* What the environment allows the user to touch while ops are under way.
MayEdit(k) ==
    /\ edits < MaxEdits
    /\ RacingEdits \/ ~InHand(k)
    /\ MixedEdits \/ \A j \in Keys \ {k} :
           Covers(j) \intersect Covers(k) # {} => ~Waiting(j) /\ ~InHand(j)

\* Mutant: a base column the caller leaves out goes out as false.
MutPayloadDefaults(v, F) ==
    [f \in Fields |-> IF f \in F THEN edits + 1
                      ELSE IF f \in BaseFields THEN 0 ELSE Undef]

\* The payload of the next edit of volume v.  Every caller passes the base
\* columns, with the values the row shows when it does not change them.
Payload(v, F) ==
    [f \in Fields |-> IF f \in F THEN edits + 1
                      ELSE IF f \in BaseFields THEN local[v][f] ELSE Undef]

\* Mutant: the put replaces the waiting payload instead of merging into it.
MutOptimisticReplaces(k, op, F) ==
    /\ local' = Applied(local, k, op)
    /\ outbox' = [outbox EXCEPT ![k] = op]
    /\ intent' = [v \in Volumes |->
                     [f \in Fields |-> IF v \in Covers(k) /\ f \in F
                                       THEN edits + 1 ELSE intent[v][f]]]
    /\ edits' = edits + 1
    /\ UNCHANGED <<server, tries, passVars, page, restore, refused, reported,
                   abandoned, missed, spent>>

\* The optimistic write and the op, in one Dexie transaction.
Optimistic(k, op, F) ==
    /\ local' = Applied(local, k, op)
    /\ outbox' = [outbox EXCEPT ![k] = Merged(@, op)]
    /\ intent' = [v \in Volumes |->
                     [f \in Fields |-> IF v \in Covers(k) /\ f \in F
                                       THEN edits + 1 ELSE intent[v][f]]]
    /\ edits' = edits + 1
    /\ UNCHANGED <<server, tries, passVars, page, restore, refused, reported,
                   abandoned, missed, spent>>

\* enqueueVolumeUpdate: columns F of volume v.
EnqueueVolume(v, F) ==
    /\ F # {}
    /\ MayEdit(v)
    /\ Optimistic(v, Payload(v, F), F)

\* enqueueBulkMark: owned and/or read over a whole series.
EnqueueBulk(s, F) ==
    /\ F # {}
    /\ F \subseteq BulkFields
    /\ MayEdit(s)
    /\ Optimistic(s, [f \in Fields |-> IF f \in F THEN edits + 1 ELSE Undef], F)

-----------------------------------------------------------------------------
(* A pass *)

KeysOf(ph) == IF ph = "volumes" THEN Volumes ELSE Series

\* The flush function reads its table once, at its start.
Snapshot(ph) == [k \in Keys |-> IF k \in KeysOf(ph) THEN outbox[k] ELSE NoOp]

StartPass(p) ==
    /\ phase[p] = "off"
    /\ phase' = [phase EXCEPT ![p] = "volumes"]
    /\ todo' = [todo EXCEPT ![p] = Snapshot("volumes")]
    /\ stop' = [stop EXCEPT ![p] = FALSE]
    /\ UNCHANGED <<local, outbox, server, tries, job, page, restore, edits,
                   historyVars, spent>>

Busy(p) == {s \in Series : job[p][s].st # "free"}

\* The jobs once pass p's on series s is at stage st.
Moved(p, s, st) ==
    [job EXCEPT ![p][s] = [st |-> st, key |-> @.key, op |-> @.op, rows |-> @.rows]]
Freed(p, s) == [job EXCEPT ![p][s] = FreeJobs[s]]

\* A worker takes up an op: one at a time per series, four series side by side
\* for volumes, strictly one op for bulk marks.  The order of the ops of one
\* series (by ts, and a series at a time) is left open: their volumes differ.
StartOp(p, k) ==
    /\ phase[p] # "off"
    /\ todo[p][k] # NoOp
    /\ ~stop[p]
    /\ Home(k) \notin Busy(p)
    /\ Cardinality(Busy(p)) < IF phase[p] = "bulk" THEN 1 ELSE Concurrency
    /\ job' = [job EXCEPT ![p][Home(k)] =
                  [st |-> "sent", key |-> k, op |-> todo[p][k], rows |-> Untouched]]
    /\ todo' = [todo EXCEPT ![p][k] = NoOp]
    /\ UNCHANGED <<local, outbox, server, tries, phase, stop, page, restore,
                   edits, historyVars, spent>>

\* What of an op the server's first statement writes, and what comes after.
\* A bulk mark is one statement.
First(k, op) ==
    [f \in Fields |-> IF f \in LateFields /\ k \in Volumes THEN Undef ELSE op[f]]
Rest(k, op) ==
    [f \in Fields |-> IF f \in LateFields /\ k \in Volumes THEN op[f] ELSE Undef]

\* The server commits the first statement of the request ...
Lands(p, s) ==
    LET k == job[p][s].key IN
    /\ job[p][s].st = "sent"
    /\ server' = Applied(server, k, First(k, job[p][s].op))
    /\ job' = Moved(p, s, IF Rest(k, job[p][s].op) = NoOp THEN "landed" ELSE "half")
    /\ UNCHANGED <<local, outbox, tries, phase, todo, stop, page, restore,
                   edits, historyVars, spent>>

\* ... and then the rest, if there is any.
Completes(p, s) ==
    LET k == job[p][s].key IN
    /\ job[p][s].st = "half"
    /\ server' = Applied(server, k, Rest(k, job[p][s].op))
    /\ job' = Moved(p, s, "landed")
    /\ UNCHANGED <<local, outbox, tries, phase, todo, stop, page, restore,
                   edits, historyVars, spent>>

\* 2xx: whatever waits under the key now is deleted.  A bulk mark then reads
\* its series back, and has nothing left to report; a single edit leaves the
\* optimistic row as it is.
Acked(p, s) ==
    LET k == job[p][s].key IN
    /\ job[p][s].st = "landed"
    /\ outbox' = [outbox EXCEPT ![k] = NoOp]
    /\ tries' = [tries EXCEPT ![k] = 0]
    /\ job' = IF k \in Series
                 THEN [job EXCEPT ![p][s] =
                          [st |-> "asking", key |-> k, op |-> NoOp, rows |-> Untouched]]
                 ELSE Freed(p, s)
    /\ UNCHANGED <<local, server, phase, todo, stop, page, restore, edits,
                   historyVars, spent>>

\* The edits an op under key k carries, one per volume and column.
EditsOf(k, op) ==
    {<<v, f, op[f]>> : v \in Covers(k), f \in {g \in Fields : op[g] # Undef}}

\* Mutant: a dropped op is not followed by a read.
MutDeadLetterNoRead(p, s) ==
    LET k == job[p][s].key IN
    /\ outbox' = [outbox EXCEPT ![k] = NoOp]
    /\ refused' = refused \union EditsOf(k, job[p][s].op)
    /\ job' = Freed(p, s)
    /\ reported' = reported \union EditsOf(k, job[p][s].op)

\* The op is dropped; the series is read back next, and then the sync error
\* raised.
DeadLetter(p, s) ==
    LET k == job[p][s].key IN
    /\ outbox' = [outbox EXCEPT ![k] = NoOp]
    /\ refused' = refused \union EditsOf(k, job[p][s].op)
    /\ job' = Moved(p, s, "asking")
    /\ UNCHANGED reported

\* 4xx, from the first statement or the rest: what is committed stays.
Refused(p, s) ==
    /\ job[p][s].st \in {"sent", "half"}
    /\ DeadLetter(p, s)
    /\ UNCHANGED <<local, server, tries, phase, todo, stop, page, restore,
                   edits, intent, abandoned, missed, spent>>

\* Mutant: the budget is checked one failure late.
MutFailedOneMore(p, s) ==
    LET k == job[p][s].key IN
    /\ job[p][s].st \in {"sent", "half", "landed"}
    /\ \/ /\ tries[k] + 1 <= MaxTries
          /\ tries' = [tries EXCEPT ![k] = @ + 1]
          /\ stop' = [stop EXCEPT ![p] = TRUE]
          /\ job' = Freed(p, s)
          /\ UNCHANGED <<outbox, refused, reported>>
       \/ /\ tries[k] + 1 > MaxTries
          /\ tries' = [tries EXCEPT ![k] = 0]
          /\ DeadLetter(p, s)
          /\ UNCHANGED stop
    /\ UNCHANGED <<local, server, phase, todo, page, restore, edits, intent,
                   abandoned, missed, spent>>

\* 5xx or no answer, before or after the server committed: keep the op and
\* stop this flush function, or drop it once the budget is spent.
Failed(p, s) ==
    LET k == job[p][s].key IN
    /\ job[p][s].st \in {"sent", "half", "landed"}
    /\ \/ /\ tries[k] + 1 < MaxTries
          /\ tries' = [tries EXCEPT ![k] = @ + 1]
          /\ stop' = [stop EXCEPT ![p] = TRUE]
          /\ job' = Freed(p, s)
          /\ UNCHANGED <<outbox, refused, reported>>
       \/ /\ tries[k] + 1 >= MaxTries
          /\ tries' = [tries EXCEPT ![k] = 0]
          /\ DeadLetter(p, s)
          /\ UNCHANGED stop
    /\ UNCHANGED <<local, server, phase, todo, page, restore, edits, intent,
                   abandoned, missed, spent>>

\* Done with volumes, or stopped: whatever is left of the snapshot is let go
\* and the bulk marks are read.
NextPhase(p) ==
    /\ phase[p] = "volumes"
    /\ Busy(p) = {}
    /\ stop[p] \/ todo[p] = NoOps
    /\ phase' = [phase EXCEPT ![p] = "bulk"]
    /\ todo' = [todo EXCEPT ![p] = Snapshot("bulk")]
    /\ stop' = [stop EXCEPT ![p] = FALSE]
    /\ UNCHANGED <<local, outbox, server, tries, job, page, restore, edits,
                   historyVars, spent>>

EndPass(p) ==
    /\ phase[p] = "bulk"
    /\ Busy(p) = {}
    /\ stop[p] \/ todo[p] = NoOps
    /\ phase' = [phase EXCEPT ![p] = "off"]
    /\ todo' = [todo EXCEPT ![p] = NoOps]
    /\ stop' = [stop EXCEPT ![p] = FALSE]
    /\ UNCHANGED <<local, outbox, server, tries, job, page, restore, edits,
                   historyVars, spent>>

-----------------------------------------------------------------------------
(* Reading the series back *)

\* Mutant: the snapshot replaces the series wholesale.
MutCachedUnguarded(s, rows) ==
    [v \in Volumes |-> IF SeriesOf[v] = s THEN rows[v] ELSE local[v]]

\* cacheVolumesForManga: the snapshot, except where the outbox owns the row.
Cached(s, rows) ==
    [v \in Volumes |-> IF SeriesOf[v] = s /\ ~Guarded(v) THEN rows[v] ELSE local[v]]

\* The server answers the pass's GET with the rows of that moment.
Told(p, s) ==
    /\ job[p][s].st = "asking"
    /\ job' = [job EXCEPT ![p][s] =
                  [st |-> "told", key |-> @.key, op |-> @.op, rows |-> server]]
    /\ UNCHANGED <<local, outbox, server, tries, phase, todo, stop, page,
                   restore, edits, historyVars, spent>>

\* emitSyncError, for what a dropped op carried.  A bulk mark that was served
\* carries nothing any more.
Report(p, s) ==
    reported' = reported \union EditsOf(job[p][s].key, job[p][s].op)

\* Mutant: no catch around the read, so that the error is never raised.
MutNotToldThrows(p, s) ==
    /\ ReadsFail
    /\ job[p][s].st = "asking"
    /\ job' = Freed(p, s)
    /\ missed' = missed \union {s}
    /\ UNCHANGED <<local, outbox, server, tries, phase, todo, stop, page,
                   restore, edits, intent, refused, reported, abandoned, spent>>

\* `refetchVolumes(...).catch(() => {})`.
NotTold(p, s) ==
    /\ ReadsFail
    /\ job[p][s].st = "asking"
    /\ job' = Freed(p, s)
    /\ missed' = missed \union {s}
    /\ Report(p, s)
    /\ UNCHANGED <<local, outbox, server, tries, phase, todo, stop, page,
                   restore, edits, intent, refused, abandoned, spent>>

CacheRows(p, s) ==
    /\ job[p][s].st = "told"
    /\ local' = Cached(s, job[p][s].rows)
    /\ job' = Freed(p, s)
    /\ Report(p, s)
    /\ UNCHANGED <<outbox, server, tries, phase, todo, stop, page, restore,
                   edits, intent, refused, abandoned, missed, spent>>

\* A page's own query of the series (useVolumesForManga): mount, window
\* focus, realtime invalidation.
PageAsks(s) ==
    /\ pageReads < MaxPageReads
    /\ page[s].st = "free"
    /\ page' = [page EXCEPT ![s] = [st |-> "asking", rows |-> Untouched]]
    /\ pageReads' = pageReads + 1
    /\ UNCHANGED <<local, outbox, server, tries, passVars, restore, edits,
                   historyVars, restores, reloads>>

PageTold(s) ==
    /\ page[s].st = "asking"
    /\ page' = [page EXCEPT ![s] = [st |-> "told", rows |-> server]]
    /\ UNCHANGED <<local, outbox, server, tries, passVars, restore, edits,
                   historyVars, spent>>

PageCaches(s) ==
    /\ page[s].st = "told"
    /\ local' = Cached(s, page[s].rows)
    /\ page' = [page EXCEPT ![s] = NoReading]
    /\ UNCHANGED <<outbox, server, tries, passVars, restore, edits, historyVars, spent>>

-----------------------------------------------------------------------------
(* Restore from server, reload *)

\* forceResyncFromServer: three GETs ...
RestoreTold ==
    /\ restores < MaxRestores
    /\ restore.st = "free"
    /\ restore' = [st |-> "told", rows |-> server]
    /\ restores' = restores + 1
    /\ UNCHANGED <<local, outbox, server, tries, passVars, page, edits,
                   historyVars, reloads, pageReads>>

\* ... then one transaction: every outbox cleared, every table refilled.
RestoreCommits ==
    /\ restore.st = "told"
    /\ local' = restore.rows
    /\ outbox' = NoOps
    /\ restore' = NoReading
    /\ intent' = restore.rows
    /\ abandoned' = edits
    /\ UNCHANGED <<server, tries, passVars, page, edits, refused, reported,
                   missed, spent>>

\* The tab is reloaded or closed and reopened: Dexie stays, memory goes.
Reload ==
    /\ reloads < MaxReloads
    /\ reloads' = reloads + 1
    /\ tries' = [k \in Keys |-> 0]
    /\ phase' = [p \in Passes |-> "off"]
    /\ todo' = [p \in Passes |-> NoOps]
    /\ stop' = [p \in Passes |-> FALSE]
    /\ job' = [p \in Passes |-> FreeJobs]
    /\ page' = [s \in Series |-> NoReading]
    /\ restore' = NoReading
    /\ missed' = missed \union
           {s \in Series : \E p \in Passes : job[p][s].st \in {"asking", "told"}}
    /\ UNCHANGED <<local, outbox, server, edits, intent, refused, reported,
                   abandoned, restores, pageReads>>

-----------------------------------------------------------------------------

PassStep(p) ==
    \/ StartPass(p)
    \/ NextPhase(p)
    \/ EndPass(p)
    \/ \E k \in Keys : StartOp(p, k)
    \/ \E s \in Series :
        \/ Lands(p, s)
        \/ Completes(p, s)
        \/ Acked(p, s)
        \/ Refused(p, s)
        \/ Failed(p, s)
        \/ Told(p, s)
        \/ NotTold(p, s)
        \/ CacheRows(p, s)

Next ==
    \/ \E v \in Volumes, F \in SUBSET Fields : EnqueueVolume(v, F)
    \/ \E s \in Series, F \in SUBSET BulkFields : EnqueueBulk(s, F)
    \/ \E p \in Passes : PassStep(p)
    \/ \E s \in Series : PageAsks(s) \/ PageTold(s) \/ PageCaches(s)
    \/ RestoreTold
    \/ RestoreCommits
    \/ Reload

Spec == Init /\ [][Next]_vars

-----------------------------------------------------------------------------
(* Properties *)

\* What waits to be sent is on the screen, or something newer is: no snapshot
\* of the server - the pass's own reads, a page's, however late they are
\* written - puts an older value over a column that an op is waiting to send.
\* ("a row with an op waiting in its outbox table is the user's intent and
\* outranks the snapshot", db.js.)
WaitingEditShown ==
    \A k \in Keys, f \in Fields : \A v \in Covers(k) : local[v][f] >= outbox[k][f]

\* The user's latest choice for every column of every volume is on the
\* server, or waiting to be sent there, or the server would not have it: no
\* coalescing, retry, reload or late delete drops an edit nobody refused.
NoSilentLoss ==
    \A v \in Volumes, f \in Fields :
        \/ server[v][f] = intent[v][f]
        \/ \E k \in Keys : v \in Covers(k) /\ outbox[k][f] = intent[v][f]
        \/ <<v, f, intent[v][f]>> \in refused

\* As long as the page is not reloaded, every edit that was dropped has been
\* reported to the user, or its series is being read back and the report comes
\* next, whatever becomes of the read ("drop the op, refetch from server,
\* surface an error toast", outbox.js).
RefusalsReported == reloads = 0 =>
    \A r \in refused \ reported : \E p \in Passes, s \in Series :
        /\ job[p][s].st \in {"asking", "told"}
        /\ r \in EditsOf(job[p][s].key, job[p][s].op)

\* No op waits, no pass runs, no answer is outstanding.
Quiet ==
    /\ outbox = NoOps
    /\ \A p \in Passes : phase[p] = "off"
    /\ \A s \in Series : page[s].st = "free"
    /\ restore.st = "free"

\* Once everything is quiet the screen shows what the server holds - after a
\* refusal as well ("The UI will revert because the Dexie mirror now matches
\* server state", outbox.js) - but for the series whose read-back failed or was
\* cut off by a reload, which nothing repeats.
QuietMeansMirrored == Quiet =>
    \A v \in Volumes : local[v] = server[v] \/ SeriesOf[v] \in missed

\* No column on the screen goes back to an older choice of the user, unless the
\* newer one was refused or given up by a restore: "the rewrite reverts the
\* optimistic row to its pre-edit state; the edit then comes back once the
\* flush lands and the next refetch runs" is what db.js's guards are there to
\* prevent.
NoEditReverts ==
    [][\A v \in Volumes, f \in Fields :
        local'[v][f] < local[v][f]
            => <<v, f, local[v][f]>> \in refused \/ abandoned' # abandoned]_vars

\* Nothing older ever lands on top of something newer: what the server applies
\* to a column of a volume follows the order in which the user chose it
\* ("replay chronologically on reconnect", README.md).
NothingOlderLands ==
    [][\A v \in Volumes, f \in Fields : server'[v][f] >= server[v][f]]_vars

\* Passes with a request on the wire for a volume of series s.
OnTheWire(s) ==
    {p \in Passes :
        job[p][s].st \in {"sent", "half", "landed"} /\ job[p][s].key \in Volumes}

\* "never two for the same series": the recount each PATCH ends in is a
\* read-modify-write on the server.
OneRequestPerSeries == \A s \in Series : Cardinality(OnTheWire(s)) <= 1
=============================================================================
