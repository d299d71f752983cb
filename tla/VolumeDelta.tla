----------------------------- MODULE VolumeDelta -----------------------------
(***************************************************************************)
(* How a device keeps its copy of the shelf current by asking only for     *)
(* what changed: the per-reader revision counter and its trigger           *)
(* (server/migrations/20261011120000_volume_sync_rev.sql), the snapshots   *)
(* snapshot_for_user and delta_for_user take (server/src/services/         *)
(* volume.rs), the device's query with its cursor in localStorage          *)
(* (client/src/lib/coreQueries.js) and its guarded writes to Dexie         *)
(* (cacheAllVolumes, applyVolumesDelta in client/src/lib/db.js).           *)
(*                                                                         *)
(* A row is reduced to its text: the stamp of the last write another       *)
(* device made to it.  This device's own edits (VolumeOutbox) stamp a row  *)
(* and guard it while they wait; they leave its text alone.                *)
(***************************************************************************)
EXTENDS Integers

CONSTANTS
    Volumes,        \* ids the reader's volumes have or will have
    Writers,        \* transactions of other devices that may be open at once
    Reads,          \* refreshes of the shelf that may be under way at once
    MaxWrites,      \* bound: rows stamped by other devices
    MaxDeeds,       \* bound: deletions, edits on this device, single series
                    \* read and page reloads, all together
    EarlyPages,     \* may a series' page be cached before the shelf ever was?
    LatePages       \* may it be cached when a refresh has told of later rows?

ASSUME DeltaBoundsAssumption ==
    /\ MaxWrites \in Nat
    /\ MaxDeeds \in Nat
    /\ EarlyPages \in BOOLEAN
    /\ LatePages \in BOOLEAN

VARIABLES
    rev,      \* the server's user_volume_revs.rev, as committed
    text,     \* what the row holds, as committed
    stamp,    \* the row's sync_rev, as committed
    txn,      \* txn[w]: the open transaction of writer w
    cached,   \* the device's volumes table in Dexie
    cursor,   \* localStorage "mc:etag:volumes-rev"
    op,       \* op[v]: this device's edit of v
    read,     \* read[r]: a run of allVolumesQuery
    page,     \* page[v]: the answer a page holds for its series, here v alone
    skipped,  \* rows a refresh left alone because of their op (history)
    spent     \* writes and other deeds so far (bounds)

server == <<rev, text, stamp, txn>>
vars == <<server, cached, cursor, op, read, page, skipped, spent>>

Unborn == -2    \* the id has not been handed out yet
Gone == -1      \* no row
Unknown == -1   \* no cursor: the next read is a full one

Alive(v) == text[v] >= 0
Held == {v \in Volumes : cached[v] # Gone}
Guarded(v) == op[v] # "none"

-----------------------------------------------------------------------------
(* Types and initial state *)

Blank == [top |-> 0, stamps |-> [v \in Volumes |-> 0]]
NoRead == [st |-> "idle", since |-> Unknown, rev |-> 0,
           text |-> [v \in Volumes |-> Gone], changed |-> {}]

Spent == [writes : 0..MaxWrites, deeds : 0..MaxDeeds]

NoPage == [rev |-> Unknown, row |-> Gone]

Run == [st : {"idle", "asked", "answered", "heard", "applied"},
        since : Nat \union {Unknown}, rev : Nat,
        text : [Volumes -> Nat \union {Unborn, Gone}], changed : SUBSET Volumes]

TypeOK ==
    /\ rev \in Nat
    /\ text \in [Volumes -> Nat \union {Unborn, Gone}]
    /\ stamp \in [Volumes -> Nat]
    /\ txn \in [Writers -> [top : Nat, stamps : [Volumes -> Nat]]]
    /\ cached \in [Volumes -> Nat \union {Gone}]
    /\ cursor \in Nat \union {Unknown}
    /\ op \in [Volumes -> {"none", "waiting", "landed"}]
    /\ read \in [Reads -> Run]
    /\ page \in [Volumes -> [rev : Nat \union {Unknown}, row : Nat \union {Gone}]]
    /\ skipped \subseteq Volumes
    /\ spent \in Spent

Init ==
    /\ rev = 0
    /\ text \in [Volumes -> {Unborn, 0}]
    /\ stamp = [v \in Volumes |-> 0]
    /\ txn = [w \in Writers |-> Blank]
    /\ cached = [v \in Volumes |-> Gone]
    /\ cursor = Unknown
    /\ op = [v \in Volumes |-> "none"]
    /\ read = [r \in Reads |-> NoRead]
    /\ page = [v \in Volumes |-> NoPage]
    /\ skipped = {}
    /\ spent = [writes |-> 0, deeds |-> 0]

-----------------------------------------------------------------------------
(* The server *)

Open(w) == txn[w].top > 0

\* Mutant: the counter is read without the row lock.
MutCounterIsFree(w) == TRUE

\* user_volumes_stamp_rev updates the reader's counter row: whoever did so
\* first holds its lock until the transaction ends.
CounterIsFree(w) == \A x \in Writers \ {w} : ~Open(x)

\* An INSERT or an UPDATE of one row inside writer w's transaction: the trigger
\* takes the next number of the counter as w sees it.
Stamp(w, v) ==
    LET n == IF Open(w) THEN txn[w].top + 1 ELSE rev + 1 IN
    /\ spent.writes < MaxWrites
    /\ spent' = [spent EXCEPT !.writes = @ + 1]
    /\ CounterIsFree(w)
    /\ text[v] # Gone
    /\ txn' = [txn EXCEPT ![w].top = n, ![w].stamps[v] = n]
    /\ UNCHANGED <<rev, text, stamp, cached, cursor, op, read, page, skipped>>

Commit(w) ==
    LET wrote == {v \in Volumes : txn[w].stamps[v] > 0} IN
    /\ Open(w)
    /\ rev' = txn[w].top
    /\ text' = [v \in Volumes |-> IF v \in wrote THEN txn[w].stamps[v] ELSE text[v]]
    /\ stamp' = [v \in Volumes |-> IF v \in wrote THEN txn[w].stamps[v] ELSE stamp[v]]
    /\ txn' = [txn EXCEPT ![w] = Blank]
    /\ UNCHANGED <<cached, cursor, op, read, page, skipped, spent>>

Abort(w) ==
    /\ Open(w)
    /\ txn' = [txn EXCEPT ![w] = Blank]
    /\ UNCHANGED <<rev, text, stamp, cached, cursor, op, read, page, skipped, spent>>

Deed == spent.deeds < MaxDeeds /\ spent' = [spent EXCEPT !.deeds = @ + 1]

\* A DELETE stamps nothing; it waits for whoever is writing the row.
Delete(v) ==
    /\ Deed
    /\ Alive(v)
    /\ \A w \in Writers : txn[w].stamps[v] = 0
    /\ text' = [text EXCEPT ![v] = Gone]
    /\ UNCHANGED <<rev, stamp, txn, cached, cursor, op, read, page, skipped>>

-----------------------------------------------------------------------------
(* This device's own edits, as far as they stamp and guard rows *)

Edit(v) ==
    /\ Deed
    /\ cached[v] # Gone
    /\ op[v] = "none"
    /\ op' = [op EXCEPT ![v] = "waiting"]
    /\ UNCHANGED <<server, cached, cursor, read, page, skipped>>

\* The PATCH is served: its row is stamped like any other; if there is none
\* left the server answers all the same.
EditLands(v) ==
    /\ op[v] = "waiting"
    /\ op' = [op EXCEPT ![v] = "landed"]
    /\ \/ /\ Alive(v)
          /\ \A w \in Writers : ~Open(w)
          /\ rev' = rev + 1
          /\ stamp' = [stamp EXCEPT ![v] = rev + 1]
       \/ /\ ~Alive(v)
          /\ UNCHANGED <<rev, stamp>>
    /\ UNCHANGED <<text, txn, cached, cursor, read, page, skipped, spent>>

EditAcked(v) ==
    /\ op[v] = "landed"
    /\ op' = [op EXCEPT ![v] = "none"]
    /\ UNCHANGED <<server, cached, cursor, read, page, skipped, spent>>

\* A 4xx: the op is dropped.  Its series is read back like a page (below).
EditRefused(v) ==
    /\ op[v] = "waiting"
    /\ op' = [op EXCEPT ![v] = "none"]
    /\ UNCHANGED <<server, cached, cursor, read, page, skipped, spent>>

-----------------------------------------------------------------------------
(* A refresh: allVolumesQuery *)

Full(r) == read[r].since = Unknown

\* A delta from the remembered revision if there is one and the table holds
\* anything, the whole shelf otherwise.
Ask(r) ==
    /\ read[r].st = "idle"
    /\ read' = [read EXCEPT ![r] =
                  [NoRead EXCEPT !.st = "asked",
                                 !.since = IF Held = {} THEN Unknown ELSE cursor]]
    /\ UNCHANGED <<server, cached, cursor, op, page, skipped, spent>>

\* snapshot_for_user, delta_for_user: one REPEATABLE READ snapshot of the
\* counter, the rows stamped since, and the ids.
Answer(r) ==
    /\ read[r].st = "asked"
    /\ read' = [read EXCEPT ![r] =
                  [st |-> "answered", since |-> @.since, rev |-> rev, text |-> text,
                   changed |-> {v \in Volumes : Alive(v) /\ stamp[v] > read[r].since}]]
    /\ UNCHANGED <<server, cached, cursor, op, page, skipped, spent>>

\* The response of a full read: its revision is remembered on the spot.
HearFull(r) ==
    /\ read[r].st = "answered"
    /\ Full(r)
    /\ cursor' = read[r].rev
    /\ read' = [read EXCEPT ![r].st = "heard"]
    /\ UNCHANGED <<server, cached, op, page, skipped, spent>>

\* Mutant: whatever the snapshot says of an id is written, rows or not.
MutSnapshot(r, v) == read[r].text[v]

\* The row of v in the snapshot.
Snapshot(r, v) == IF read[r].text[v] >= 0 THEN read[r].text[v] ELSE Gone

\* cacheAllVolumes: the snapshot, but for the rows the outbox owns.
WriteFull(r) ==
    /\ read[r].st = "heard"
    /\ cached' = [v \in Volumes |-> IF Guarded(v) THEN cached[v] ELSE Snapshot(r, v)]
    /\ skipped' = {v \in Volumes : Guarded(v)}
    /\ read' = [read EXCEPT ![r] = NoRead]
    /\ UNCHANGED <<server, cursor, op, page, spent>>

\* Mutant: ids that are gone stay.
MutDeltaRow(r, v) ==
    IF v \in read[r].changed THEN read[r].text[v] ELSE cached[v]

\* What the delta makes of an unguarded row: gone from the ids, changed, as is.
DeltaRow(r, v) ==
    IF read[r].text[v] < 0 THEN Gone
    ELSE IF v \in read[r].changed THEN read[r].text[v] ELSE cached[v]

\* applyVolumesDelta.
ApplyDelta(r) ==
    /\ read[r].st = "answered"
    /\ ~Full(r)
    /\ cached' = [v \in Volumes |-> IF Guarded(v) THEN cached[v] ELSE DeltaRow(r, v)]
    /\ skipped' = {v \in Volumes : IF Guarded(v) THEN v \in skipped \union read[r].changed
                                   ELSE v \in skipped \ read[r].changed}
    /\ read' = [read EXCEPT ![r].st = "applied"]
    /\ UNCHANGED <<server, cursor, op, page, spent>>

\* Mutant: the cursor moves when the delta arrives, before it is applied.
MutRememberDelta(r) ==
    /\ read[r].st = "answered"
    /\ ~Full(r)
    /\ cursor' = read[r].rev
    /\ UNCHANGED <<server, cached, op, read, page, skipped, spent>>

\* rememberTag(REV_KEY, body.rev), once the rows are written.
RememberDelta(r) ==
    /\ read[r].st = "applied"
    /\ cursor' = read[r].rev
    /\ read' = [read EXCEPT ![r] = NoRead]
    /\ UNCHANGED <<server, cached, op, page, skipped, spent>>

-----------------------------------------------------------------------------
(* What else touches the copy *)

\* A page, or a pass reading back, is answered with the volumes of its series.
PageTold(v) ==
    /\ Deed
    /\ page[v] = NoPage
    /\ page' = [page EXCEPT ![v] =
                   [rev |-> rev, row |-> IF Alive(v) THEN text[v] ELSE Gone]]
    /\ UNCHANGED <<server, cached, cursor, op, read, skipped>>

\* The device has rows of a later revision than the answer page v holds.
Outdated(v) ==
    \/ page[v].rev < cursor
    \/ \E r \in Reads : read[r].st = "applied" /\ page[v].rev < read[r].rev

\* cacheVolumesForManga: the cursor has no part in it.
PageCaches(v) ==
    /\ page[v] # NoPage
    /\ EarlyPages \/ Held # {}
    /\ LatePages \/ ~Outdated(v)
    /\ page' = [page EXCEPT ![v] = NoPage]
    /\ IF Guarded(v) THEN UNCHANGED <<cached, skipped>>
       ELSE /\ cached' = [cached EXCEPT ![v] = page[v].row]
            /\ skipped' = skipped \ {v}
    /\ UNCHANGED <<server, cursor, op, read, spent>>

\* Dexie and localStorage survive a reload, reads under way do not.
Reload ==
    /\ Deed
    /\ read' = [r \in Reads |-> NoRead]
    /\ page' = [v \in Volumes |-> NoPage]
    /\ op' = [v \in Volumes |-> IF Guarded(v) THEN "waiting" ELSE "none"]
    /\ UNCHANGED <<server, cached, cursor, skipped>>

-----------------------------------------------------------------------------

Write(w) == Commit(w) \/ Abort(w)

Flush(v) == EditLands(v) \/ EditAcked(v) \/ EditRefused(v)

Refresh(r) ==
    \/ Ask(r)
    \/ Answer(r)
    \/ HearFull(r)
    \/ WriteFull(r)
    \/ ApplyDelta(r)
    \/ RememberDelta(r)

Next ==
    \/ \E w \in Writers : Write(w) \/ \E v \in Volumes : Stamp(w, v)
    \/ \E v \in Volumes : Delete(v) \/ Edit(v) \/ Flush(v) \/ PageTold(v) \/ PageCaches(v)
    \/ \E r \in Reads : Refresh(r)
    \/ Reload

\* Transactions end, ops are flushed (VolumeSync), and a shelf that is looked
\* at is asked for again: on focus, on a realtime event, on the next visit.
Fairness ==
    /\ \A w \in Writers : WF_vars(Write(w))
    /\ \A v \in Volumes : WF_vars(Flush(v))
    /\ \A r \in Reads : WF_vars(Refresh(r))

Spec == Init /\ [][Next]_vars /\ Fairness

-----------------------------------------------------------------------------
(* Properties *)

\* "A revision a reader can see is never followed by a smaller one committing
\* later" (the migration): a row never becomes visible with a stamp that a
\* cursor may already have passed.
NothingCommitsBehind ==
    [][\A v \in Volumes : stamp'[v] # stamp[v] => stamp'[v] > rev]_vars

\* The cursor is in use: the next read will be a delta from it, and no full
\* read has remembered it ahead of the rows it is about to write.
CursorInUse ==
    /\ cursor # Unknown
    /\ Held # {}
    /\ \A r \in Reads : read[r].st # "heard"

\* Row v is current, or the next delta brings it.
Covered(v) == Alive(v) /\ stamp[v] <= cursor => cached[v] = text[v]

\* The cursor never passes a row the device does not have: whatever the
\* writers, the device's own edits, reads of single series and reloads do, a
\* delta from the cursor brings everything the copy lacks - but for the rows
\* an earlier delta passed over because an op owned them.
CursorComplete ==
    CursorInUse => \A v \in Volumes : Covered(v) \/ v \in skipped

\* With nothing waiting in the outbox the cursor passes no row at all: "Once
\* the outbox drains, the guards are empty sets and each function degrades to
\* the original replace-all - a fully synced client behaves exactly as it did
\* before" (db.js).
SyncedIsComplete ==
    CursorInUse /\ (\A v \in Volumes : ~Guarded(v)) => \A v \in Volumes : Covered(v)

\* When the writers stop, the device ends up with the server's shelf, deleted
\* rows included, save for rows passed over.
CatchesUp ==
    <>[](\A v \in Volumes :
            \/ cached[v] = IF Alive(v) THEN text[v] ELSE Gone
            \/ v \in skipped)
=============================================================================
