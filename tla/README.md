# MangaCollector in TLA+

MangaCollector keeps a user's manga collection on a server (Rust, axum, PostgreSQL) and
on every device the user reads it from (a React PWA whose copy lives in IndexedDB,
through Dexie). A device works offline: an edit is written to the local copy and to an
*outbox*, and sent when the server can be reached. What makes this program hard to get
right is the traffic between the two copies: an optimistic edit, a retry, a refetch and a
delta can meet in any order, on a page that may be reloaded between any two steps.
These modules model that traffic, TLC explores its interleavings on small shelves, and
TLAPS proves the invariants it rests on for shelves of every size.

Paths below are relative to the repository (`client/` stands for `src/client/src/`,
`server/` for `src/server/` in PROJECT.json).

## 1. The system

### Components

| Component | State it keeps | Operations | Talks to |
|---|---|---|---|
| Sync gate (`client/lib/sync/outbox.js` `syncOutbox`, `runner.js`) | `syncing`, `syncQueued`, `nextRetryAt`, `currentBackoffMs`, the backoff timer (all in memory) | entry, count, owner check, pass, `finally`; interval, visibility, recovery and startup hooks | outboxes, connectivity, owner check |
| Volume outbox (`outbox.js`) | `outboxVolumes`, `outboxBulkMark` (Dexie), `opRetryCounts` (memory) | enqueue and coalesce, flush with 4 workers, retry, dead letter, read back, restore from server | Dexie mirror, REST API |
| Library, coffret, settings, author outboxes (`outbox.js`) | four more Dexie tables | the ops of a library row and the requests each becomes, temporary coffret ids and their re-keying, merged settings | same |
| Dexie mirror and its guards (`client/lib/db.js`) | `library`, `volumes`, `coffrets`, ... | guarded replacement by a snapshot, by a series, by a delta | outbox tables |
| Volume reads (`client/lib/coreQueries.js`, `server/services/volume.rs`, the `volume_sync_rev` migration) | ETag and revision cursor in localStorage; `user_volume_revs`, `user_volumes.sync_rev` | full read, delta read, remembering the revision; the trigger that stamps a row | Dexie mirror |
| Connectivity (`client/lib/connectivity.js`) | what the device believes of the server, the probe in flight | probes, interceptors, browser events | sync gate |
| Realtime client (`useRealtimeSync.js`, `realtimePlan.js`) | socket, pending scopes, fallback timer | scoped debounced refresh | volume reads, broker |
| Sync broker (`server/services/realtime.rs`) | one broadcast channel per user | publish, subscribe, lag, close codes | realtime client |
| Activity coalescer (`server/services/activity_coalescer.rs`) | buffered events and their timers | fold, compensate, flush | activity table |
| Volume, library, coffret services | PostgreSQL rows, `volumes_owned` counts | update, bulk mark, recount, cascades | loan ledger, broker |
| Loans and locations | loan ledger, loan columns of a volume | lend, return | volume service |
| Domain operations, MCP server | API keys, rate windows, audit log | scoped tools over the services | services |
| Auth, sessions, cache ownership (`auth.rs`, `client/utils/auth.js`, `axios.js`, `client/lib/owner.js`) | sessions; the owner stamp, the cached profile and the pending log out of the device | sign in, check, wipe, log out, lost session | sync gate, Dexie |
| Scan queue (`client/lib/scanQueue.js`) | barcodes, lookups in flight | enqueue, look up, commit | outbox |
| Archive and external import | none of their own | one transaction over a parsed file | services |
| External catalogues | response caches, rate limits | lookups | HTTP |
| Releases and nightly jobs | announced and upcoming volumes | promote, reconcile | services |
| Snapshots, object storage | images | upload, delete | S3 or disk |
| Follow, compare, public profile, seals, calendar | per-user rows, projections | read | services |
| User interface; schema and scripts | - | - | - |

### How they interact

A click calls an `enqueue*` function: one Dexie transaction writes the optimistic row
and the op, merged into the op already waiting under the same key. `triggerSync` then
calls `syncOutbox`. Past its gate, a *pass* flushes the six outbox tables in a fixed
order. An answer deletes the op (2xx), deletes it and reads the series back (4xx, or the
retry budget spent), or leaves it for a later pass (5xx, no answer). Meanwhile pages read
series and shelves on their own (mount, focus, realtime events) and write what they are
told to the same tables, where *guards* keep a snapshot off the rows an op still owns. A
shelf is read in full once; from then on the device asks only for what changed since the
revision it remembers, and the server's trigger stamps every written row with the next
number of the reader's counter.

### What is hard about it

* `syncOutbox` checks its flag, suspends twice, and raises it: invocations overlap.
* An answer deletes *whatever waits under the key*, not the op that was sent.
* A guard is read when a snapshot is written, not when it was taken.
* A request may be applied, half applied (a volume PATCH is several statements) or not,
  and its answer lost in each case; the retry budget is in memory, the ops are not.
* The tab may be reloaded between any two steps; the cursor is in one store
  (localStorage), the rows it speaks of in another (Dexie).
* Two transactions of one reader must not let a cursor pass a row that is not visible yet.
* A box set made offline has an id the server never heard of, and rows that point to it.
* On the server a PATCH is a run of statements, each committed on its own: a derived fact
  (a count, a ledger, a status) may be left behind by a failure, and a retry of a request
  that is now a no-op does not repair it.
* A socket drops, lags, is paused by a hidden tab and replaced, while notices of changes are
  sent once; a refresh under way may have been answered before the change that it hears of.
* Accounts share a browser: the tables, the stamp that says whose they are and the cookie
  change at different moments, by processes that suspend between one and the next.

`PROJECT.json` lists the hazards one by one, at the line where each bites, those no
property covers yet included.

### What makes each component correct

* *Gate*: a raised flag, a remembered knock and a shut window each have somebody who will
  lower, answer and reopen them; one table's failures never keep a pass from another.
* *Outbox*: no edit is lost unless it is refused or given up; refusals are reported;
  nothing older overwrites something newer; every op leaves the queue in the end.
* *Mirror*: the screen never goes back on an edit, and equals the server's rows once quiet.
* *Reads*: the cursor never passes a row the device lacks; the copy catches up.
* *Library and coffret ops*: what waits is on the screen; an op leaves the queue with the
  server holding all that was merged into it, or with the user told; no row points to
  a temporary id once the queue is quiet; every op leaves the queue.
* *Services*: a lent volume is owned, the ledger has one open row per loan, `volumes_owned`
  counts the owned rows, an announced volume is not owned, the reading status follows the reads.
* *Broker and realtime client*: a tab that shows something old has on its way what will
  show the new, and has one socket.
* *Ownership*: no op reaches another account's library; a stamped device holds the stamp's rows.
* *Coalescer* (not modelled): an event and its opposite are both recorded or neither is.

## 2. The modules

| Module | Models | Extends |
|---|---|---|
| `SyncGate` | `syncOutbox` up to its first flush and its `finally` block, one action per stretch between two `await`s; `Calls` are the places of suspended invocations | - |
| `SyncSchedule` | passes over the six tables (a table holds at most one op), the triggers, the retry budget, reloads | `SyncGate` |
| `VolumeOutbox` | one device's volume edits from click to server and back, contents included | - |
| `VolumeSync` | `VolumeOutbox` with a pass running exactly while its invocation is past the gate | `VolumeOutbox`, instance of `SyncGate` |
| `VolumeDelta` | revision counter, transactions, full and delta reads, cursor, guarded writes | - |
| `LibraryOutbox` | library rows: the enqueues, the flush in up to three requests, retries, dead letters, read-backs, the guarded list | - |
| `CoffretOutbox` | box sets: temporary ids, merges, creation and re-keying, cascades to the volumes they bind | - |
| `VolumeService` | what the server does to one series, statement by statement | - |
| `LiveRefresh` | broker, socket, debounced and whole refreshes of one tab | - |
| `CacheOwner` | whose data is on the device: stamp, checks, wipes, log outs, lost sessions | - |
| `SyncScheduleProofs`, `VolumeDeltaProofs`, `LiveRefreshProofs`, `LibraryOutboxProofs`, `CoffretOutboxProofs`, `VolumeServiceProofs`, `CacheOwnerProofs` | theorems | the module and `TLAPS` |
| `VolumeOutboxProofs` | theorems about `VolumeOutbox`, and about it behind its gate | `VolumeSync` and `TLAPS` |
| `MC*` | orders of tables, shelves and symmetry for TLC | - |

Operators named `Mut...` are deliberately broken variants of the definition that follows
each of them; nothing uses them. Putting one in its place must make the named property
fail, which shows that the property is about that line of the code.

### SyncGate and SyncSchedule

`syncing`, `syncQueued`, `gateClosed` (`Date.now() < nextRetryAt`), `backoff`
(`currentBackoffMs`, in seconds, ceiling `MaxBackoff`), `timer` (`backoffTimer`) and
`requeued` (the one-second re-entries that are pending, as one boolean) are the module
variables; `pc[c]` is where invocation `c` is suspended (`counting` in `pendingCount`,
`verifying` in `ownerMatchesSession`, `flushing` past the gate) and `forced[c]` its
argument. `Enter` is everything before the first `await`; a call turned away at once takes
no place. `Counted`, `TurnedAway`, `PassGate` follow, and `LeavePass` is the `finally`
block. `online` is the belief `isFullyOnline` returns: it may change at any step, which is
more than the probe can do. In `SyncSchedule` `Served`, `Refused` and `Failed` are the
three outcomes of a flush function; a table of `Poisoned` fails every time.

### VolumeOutbox

The content of a column is the number of the edit that wrote it, so that "newer" is `>`.
`local`, `outbox` and `server` are the Dexie table, the two outbox tables (key: volume id,
or `mal_id` for a bulk mark) and `user_volumes`. `Payload` is what `enqueueVolumeUpdate`
stores: its callers always pass the base columns, changed or not, and the other columns
only if they change. `job[p][s]` is the worker of pass `p` on series `s`: `sent`, `half`
and `landed` say how much of the request the server has committed, `asking` and `told`
that the series is being read back. A PATCH is two commits (`update_by_id`, then the loan
and the physical details of `ops/volume.rs`): `First` and `Rest` split the op along
`LateFields`. `page` is a read a page made on its own, `restore` the snapshot
`forceResyncFromServer` holds. `intent`, `refused`, `reported`, `abandoned` and `missed`
are history for the properties.

Constants say what the environment does: `RacingEdits` (the user edits what a pass has in
hand), `MixedEdits` (a single edit and a bulk mark wait for one volume), `ReadsFail`.

### VolumeSync

`Edit` is an enqueue with its `triggerSync`; `Begin` joins `PassGate` and `StartPass`,
`Finish` joins `EndPass` and `LeavePass`; everything else is an action of one of the two
with the other unchanged. Only the flush functions that touch volumes are there.

### VolumeDelta

A row is reduced to its text, the stamp of the last write another device made.
`txn[w]` is an open transaction of another device; `CounterIsFree` is the row lock the
trigger's `UPDATE ... RETURNING` takes. `read[r]` is a run of `allVolumesQuery`: `asked`,
`answered` (snapshot taken), `heard` (a full read has remembered its revision and not yet
written its rows), `applied` (a delta is written and its revision not yet remembered).
`page[v]` is the answer a series' page holds, each volume being a series of its own.
`EarlyPages` and `LatePages` say whether a page may write before the first full read, and
behind a later refresh.

### LibraryOutbox

A row is a function of four columns, one for each endpoint that may carry it: `label`
(what a POST or the metadata PATCH carry), `review` (what only the PATCH carries),
`owned` and `poster`; content is numbered by edit, `Gone` is no row. `Requests(op)` is the
op's kind turned into endpoints, as `flushLibraryOp` branches; `Handled` is what the
server's five handlers do. `pass` holds the snapshot of the queue (`todo`), the requests
`left` of the op on the wire and the rows `touched`, which are read again at the end.
`Answers` lets each request be applied or not and be answered, refused, failed or
not answered; `Succeed`, `GiveUp` and `Stop` are the three ends of an op.

After `GiveUp` the pass is `dropped`: the op is gone and the user does not know. `Forget`
asks for the whole list, `RereadFails` or the steps of that read follow, and only
`Report` tells the user, whose `intent` is then what the server has. A reload in between
loses the report.

A read and its write are apart, since the code awaits the answer and then the transaction
that looks at the guards. `list[r]` is the read of the page or of the pass that is in the
air: `taken` by the server, `kept` once its ETag was found to differ from `tag` (the
remembered one), `written`, and free again when the tag is remembered; a single row a page
asked for (`entry`) has no tag. `pass.came[s]` holds the row that came for a series the pass
touched. `overtaken` is history: the series whose last written answer was one the server had
left behind, which nothing in the code notices. `QuietMeansMirrored` is about the others;
`behind` are those whose read-back failed, was cancelled or never happened.

`unsure` names the series whose last edit the code cannot carry out
whatever happens: an edit of what a pass has in hand or has just given up, a column an upsert
does not post, an upsert over a row the server still has (the POST answers without changing
it), a patch over a waiting delete, and a report lost to a reload. `NoSilentLoss` is about all
the others.

### CoffretOutbox

`rows`, `bound` and `outbox` are the device's box sets, the `coffret_id` of its volumes
and the waiting ops; `srows`, `sbound`, `serial` the server's. Temporary ids are negative.
`Create`, `Update` and `Delete` are the enqueues, with the merges; `Succeed` deletes
the op, `Mirror` is the second transaction (re-key, or write what the server answered): a
reload may fall between the two. `owed` says which table needs a read before the device can
be expected to equal the server (after a failure, a reload, a cancelled create, or two
creates that claim one volume); a read pays the debt only when nothing waits. `lists` and
`binds` hold the answers to reads of the box sets and of the volumes, one of the page's and
one of the pass's, between their GET and the write to Dexie: `RowsRead`, `VolsRead`,
`RowsReread` and `VolsReread` write what came, under the guards of that moment. `late` names a
table last written from an answer the server had left behind. `raced` and
`recleared` are the cases the code loses, see section 6.

### VolumeService

A row is its set of flags; `open[v]` counts the open ledger rows that point at a volume's
row; `lib` is the library row (total, count, status, finish date). Where volumes are removed
(`DeleteManual`, a `Resize` that shrinks) nothing closes their ledger rows: `LetGo` lets
`volume_id` become null, as the foreign key does, and `adrift` names the volumes with an
open row that `close_open` can no longer find. `Statements` is the order in which
`ops/volume.rs` and `bulk_mark_for_series` run what may commit on its own; a request `q`
in slot `r` is at one of them, `Applies` says which of them it makes, and `Fail` ends it
before any. `row` is what `update_by_id`, `set_loan` and `set_physical_details` each read
first and decide from. Requests that are one transaction (resize, reread, coffret, upcoming
volumes) are one action. `Release` is time passing over a release date.

### LiveRefresh

A token is something a tab shows, a version stands for its rows. `Change` commits and owes
an event (`due`), `Publish` puts it in the channel of `Buffer` events, which drops the
oldest and marks the receiver `lagged`; `Deliver` is the send task and the tab's handler:
`Heard` is the debounce entry of a series, `keys` the batch of coalesced keys. A refresh is
asked, answered and written in three steps, since a change may fall between any two.
`socket`, `closing`, `orphans` and `retry` are `socketRef`, the close events still to
come, live sockets nobody holds, and the reconnect timer. `gaps` collects the tokens of
which a notice or a read was lost for good: with the socket that closed or was paused,
with a listener or publication that failed, with a read that failed, or to answers written
out of order. The properties are about everything else.

### CacheOwner

`cookie` is whom the server takes the browser for, `stamp`, `profile` and `leaving` are the
three keys of local storage, `rows` and `queue` the tables, `page[t]` the memory of a tab:
for whom it is rendered, `verifiedOwner`, the reads and ops it has in hand, and where its
four processes are (a check by `getAuthStatus`, a check by `ownerMatchesSession`,
`logout`, the interceptor's answer to a 401). A wipe is two steps, tables and then local
storage. `stray` is history: accounts whose answers were written to a device that had
meanwhile been emptied or changed hands. `WipeFails` belongs to `SpecFailing` only.

### Abstractions, named

* *Gate*: a foreign owner's wipe is left out (the check answers yes, or turns away; the wipe
  is in `CacheOwner`); several one-second re-entries are one; the backoff counts in seconds.
* *Volume outbox*: the order of the ops of one series (by `ts`) is left open, since they
  concern different volumes; the tries of a bulk mark are cleared at its answer, not
  after the read-back; upcoming volumes, which bulk marks skip, are left out; a single
  "not owned" PATCH also ends a loan on the server, which is in `VolumeService`; a request
  whose connection breaks is not applied later than the break; `price`, `store` and the
  other base columns are one column.
* *Reads*: the ETag's 304 is left out (any stamp changes the tag); so is the fallback from a
  delta to a full read on a 400; pending deletions of whole series are left out.
* *Library ops*: one pass at a time, nobody else writes to the library; the volumes that are
  read back after a POST or a new count, and the bulk marks that also guard a row, are in
  `VolumeOutbox`; the volume and bulk ops a deletion drops are not there. At most one read of
  the page's and one of the pass's are in the air, besides the rows a pass reads back; a
  re-read that joins a read already under way, or is cancelled for a newer one, counts as
  failed, whatever it writes. A pass that touched more than eight series reads the whole
  list instead (`ENTRY_REFRESH_LIMIT`), which is left out.
* *Coffret ops*: of one series; at most one read of each table for the page and one for the
  pass are in the air; what a create stamps on its volumes beyond the binding
  (owned, price, store) is in `VolumeService`; volume ops do not meet coffret ops.
* *Service*: one series of one user; the statements of one request run in order; a
  statement is atomic, and those between `begin` and `commit` are one.
* *Live*: the tab's own events, which it skips, are not there; neither is what the outbox's
  guards do to a refresh's rows.
* *Owner*: tables are emptied together; whose rows and ops is all that is kept of them.
* A restore does not stop a pass that is running, in the model as in the code.

## 3. The runs

Ten runs must finish without an error; two each find one counterexample, described
under section 6. Deadlock is not checked: with the bounded counters spent and the queue
empty the system rests, as it may.

| Run | Instance | Shows |
|---|---|---|
| `schedule` | 2 invocations, 2 tables, the first poisoned, 2 tries, backoff ceiling 2, 1 enqueue besides what the queue starts with, 1 reload | `FlagHasOwner`, `KnockHasListener`, `ShutWindowHasTimer`, `PassVisitsEveryTable` |
| `outbox` | 2 volumes of 1 series, a base column and a late one, 3 edits, 2 tries, 1 reload, failing read-backs, one pass at a time; no racing or mixed edits, no reads by pages | `NoSilentLoss`, `RefusalsReported`, `QuietMeansMirrored`, `NoEditReverts`, `NothingOlderLands` |
| `outbox_races` | 1 volume, 2 columns, 2 edits, everything allowed: racing and mixed edits, a page read, a restore, a reload | `WaitingEditShown` |
| `sync` | 1 volume, one column that a PATCH writes late, 1 edit, 2 tries, a reload, a restore, a page read, failing read-backs | `Drains` |
| `delta` | 2 volumes, 2 writers, 2 stamps, 2 other deeds (deletions, own edits, series reads, reloads), 1 refresh at a time | `CursorComplete`, `NothingCommitsBehind`, `CatchesUp` |
| `library` | 2 series, one of them in the library at first, 2 edits, 2 tries, a reload or a read by the page (list or row) | `WaitingOpShown`, `NoSilentLoss`, `QuietMeansMirrored`, `Drains` |
| `coffret` | 2 volumes, 2 edits, 2 tries, a reload or a read by the page (box sets or volumes) | `WaitingRowShown`, `NoSilentLoss`, `QuietMeansMirrored` |
| `service` | a series of up to 2 volumes, 3 requests one after the other | `LentIsOwned`, `LedgerAgrees`, `CountMatches`, `RowsCoherent`, `StatusFollows` |
| `live` | 1 series, 1 other token, a channel of 1 event, 3 changes, 1 fault | `StaleIsComing`, `OneConnection`, `CatchesUp` |
| `owner` | 2 accounts, 1 tab, 1 op each, 3 sign-ins | `NeverAnothers`, `OnlyOwnRows` |
| `outbox_racing_edit` | as `outbox`, with racing edits | violates `NoSilentLoss` |
| `owner_expired_session` | as `owner` | violates `ExpiryKeepsQueue` |

Why the bounds are enough to be worth something. Two invocations already reach every
conflict over the flag, since a third only repeats what a second did. Two tables make one
that fails and one behind it. Two tries make one retriable failure and one dead letter.
Three edits on two volumes make a merge, an op waiting beside it, and a re-edit after a
retry; bulk marks make three keys over the same rows. Two writers and two stamps make a
transaction open while another wants the counter, and one commit before and one after a
snapshot. The two deeds are shared, so that each pair of them occurs in either order
(an edit and a deletion of its row, a page read and a reload, ...). That `sync` has one
edit is the price of liveness under strong fairness; the edit may come at any moment, and
its op may fail, be retried, be half applied, meet a reload, a restore or a page's read,
and be dead-lettered. Of the two library rows one starts absent and one present, so two edits make every pair of
kinds on one series, or one op behind another that
fails for good. One read of the page's, besides those of the pass, is enough to be answered
before a request lands and written behind its read-back, or to bring back a tag the pass has
forgotten; it shares its bound (`MaxVisits`) with the reloads, since what is in the air does
not survive one. `coffret` was also run by hand with `MaxVisits = 2`: 7,305,703 states, no
error. Two edits of box sets make create-then-edit, create-then-delete, two creates
of one volume and edits on either side of the re-keying. Three requests to the service make
a lend, an un-own and what follows, each able to break off between any two statements. A
channel of one event lags at the second; three changes make one before, one during and one
after a refresh. Three sign-ins are one account, another, and the first again.

Two limits of `service` and `owner` are limits of the code, not of the run. With two slots
`service` violates five properties in two requests (section 6). With two tabs `owner`
violates `OnlyOwnRows` and `NeverAnothers` (an op that one tab's pass has in hand leaves
under the cookie of the account that signed in on the other); with `LateEdits` it violates
`OnlyOwnRows` (an edit queued between the two steps of a log out's wipe stays on a device
without a stamp).

### Fairness

`VolumeSync`: the window elapses and the timers fire (weak: they are clocks); a device
that believes itself offline finds the server again some time (weak: the watcher keeps
probing, and no queue drains into a server that never comes back); suspended
calls go on and requests are answered one way or another (weak: a browser settles every
promise, with an error if need be); the 60 s interval keeps knocking (strong on
`RunnerKnocks`: it meets the network up from time to time, and goes on for ever); the
owner check finds the server up again and again (strong on `Begin`). No edit, forced
flush, reload, restore or page read is fair. `VolumeDelta`: transactions end, ops are
flushed (what `Drains` shows), and a shelf that is looked at is asked for again (focus,
realtime events, visits); writers, deletions and pages are not fair. `LibraryOutbox`:
passes start (what `VolumeSync` shows of the gate) and each step of a pass happens, with
whatever answer (weak on both). `LiveRefresh`: a handler that has committed publishes, the
send task delivers, timers fire and reads end (weak); neither a reconnect nor a return to the
tab is fair, and what is lost meanwhile is in `gaps`.

## 4. What is proved

TLAPS checks these for every value of the constants that meets the named assumptions.

* `SyncScheduleProofs`: `TypeCorrect`, `FlagAlwaysOwned` (`FlagHasOwner`),
  `KnocksAnswered` (`KnockHasListener`), `WindowsReopen` (`ShutWindowHasTimer`), for any
  number of overlapping invocations, any tables and order, any budget. The inductive
  invariant is `GateInv`, the conjunction of the gate's type and the three properties.
  None is inductive alone: a failed pass may shut the window only because its timer is
  armed in the same step, a knock is safe only because the flag it saw has an owner, and
  that two invocations can be past the gate at once (section 6) is why
  `FlagHasOwner` says "some invocation": the first to leave lowers the flag under the
  other, and the invariant still holds. The lemmas are about the actions of `SyncGate`
  one by one, so that a module composed with the gate can cite them. `NoTableSkipped`
  (`PassVisitsEveryTable`, an action property) adds `Visited`: a running
  pass has an answer from every table before the one it has come to.
* `VolumeOutboxProofs`, without any hypothesis - any number of passes, racing and mixed
  edits, late pages, restores and reloads: `TypeCorrect` (nothing on the device, the wire or
  the server is ahead of the edits made), `WaitingEditsStayShown` (`WaitingEditShown`:
  an enqueue writes a value above all others into both copies, a snapshot is kept off
  guarded rows, everything else only empties the outbox) and `DropsAreReported`
  (`RefusalsReported`).

  Under `Undisturbed` - one pass at a time, no reads by pages, no restores, neither racing
  nor mixed edits -, for any shelf, any number of edits, tries, failures, half-applied requests
  and reloads: `NothingLost` (`NoSilentLoss`), `QuietShelfMirrored` (`QuietMeansMirrored`),
  and the action properties `NothingOvertaken` (`NothingOlderLands`) and `EditsStay`
  (`NoEditReverts`). None of the four is inductive. `SafeInv` says of the hands of a pass that
  what it has taken still waits as it was taken (`HandWaits`), what the server knows of it at
  each stage (`OnServer`), and that two keys over the same volume never wait together
  (`Alone`); of what one sees, that the screen shows what waits (`Shown`), is nowhere behind
  the server (`Ahead`), that each shown value is on the server, waits, or was refused
  (`Accounted`), that the last choice of the user is shown or refused (`Latest`), and that
  a column which does not wait, and is not about to be read back, is the server's (`Mirrors`).
  Each part of `Undisturbed` is needed: with any one lifted TLC finds some of the four violated,
  `QuietMeansMirrored` and `NothingOlderLands` by two passes on one volume, all four by a
  page's read or by mixed edits, three by a restore or by racing edits. They are hypotheses
  about what happens to meet, not about the code; section 6 lists what happens without them.

  Behind the gate: `GatedOutboxIsOutbox` (`SyncSpec => Spec`: every step of `VolumeSync` is a
  step of `VolumeOutbox` or leaves its variables alone, so all of the above holds of the
  composition), `SyncTypeCorrect` (`SyncTypeOK`) and `PassesStayGated` (a pass is open exactly
  while its invocation is past the gate, stated in `VolumeOutboxProofs`).
* `VolumeDeltaProofs`: `StampsCommitInOrder` (`NothingCommitsBehind`) from `ServerInv` (one
  transaction open at most, its stamps above the committed counter and every committed
  stamp at most the counter); and `CursorNeverOvertakes` (`CursorComplete`), assuming at
  most one refresh at a time and neither early nor late pages. Its invariant `DeviceInv`
  adds to the cursor's claim what the snapshots in hand say: `SnapshotHolds` (a row of
  the shelf with a stamp at most the snapshot's revision is still as in the snapshot, since
  writes only stamp above it), `RunInv` (a delta in hand was asked from the
  current cursor, and one that is applied covers its own revision), `PageHolds` (the same
  of a page's answer). A step of the server or of the outbox keeps what a snapshot says
  (`WorldKeepsDevice`), and each step of a refresh, a page and a reload is a lemma.
* `LiveRefreshProofs`: `TypeCorrect`, `SocketsNeverDouble` (`OneConnection`) and
  `StaleTabsAreServed` (`StaleIsComing`), for any shelf, any kinds, any buffer, any number of
  changes and faults. `OneConnection` is not inductive alone: that a close event which comes
  late leaves the current socket alone says nothing of a paused tab, whose reconnect would
  double the socket opened on return, so `TypeInv` adds `Paused` (a hidden tab has no socket).
  `StaleIsComing` needs `Behind`: no row, no answer of a scoped refresh and no answer
  of a whole read is ahead of the server, and a refresh that runs has no timer armed.
  Then `StepStale` goes through the actions: a change is in `due`, a publication moves it to
  the channel or marks the receiver as lagging, a delivery moves it to an entry, the batch or
  `again`, an answer that was overtaken has `again` or an event behind it, and every action
  that drops something puts its tokens in `gaps`.
* `LibraryOutboxProofs`, without hypotheses, for any number of series, edits and tries:
  `TypeCorrect`, `WaitingOpsShow` (`WaitingOpShown`), `NothingLost` (`NoSilentLoss`) and
  `QuietSeriesMirrored` (`QuietMeansMirrored`). An op goes out as up to three requests, and
  each may be handled again after its answer was lost. What makes that safe is `Due(op, row)`,
  the row once all of the op's requests are handled: handling any one of them leaves it as
  it is. So `OpsAreDue` (what waits makes of the server's row what the user asked for) is kept
  by every request, answered or not; `SentInTurn` (a request no longer `left` would change
  nothing if it were handled again) says the row is what was due when the last is answered.
  An op given up stays with its pass until `Report`, and once the pass has read the list again
  its row is the server's, waits, or is named `behind` or `overtaken` (`RereadDone`): the
  re-read is written because its tag was forgotten, unless another reader brought it back. An
  answer in the air needs no more than its type, since what it is worth is judged when it is
  written.
* `CoffretOutboxProofs`, without hypotheses, for any volumes, edits and tries: `TypeCorrect`,
  `WaitingCoffretsShow` (`WaitingRowShown`), `NothingLost` (`NoSilentLoss`) and
  `QuietSeriesMirrored` (`QuietMeansMirrored`). `CoffretInv` knows where ids come from
  (`IdsKnown`: temporary ones from the edits, the others from the server's serial), that the op
  at hand is as the server has it once it has landed (`AtHand`), what may have become of a
  waiting op meanwhile (`HandWaits`, `HandKinds`), and says of each row and each binding
  what it agrees with: the server, a waiting op, the answer in hand, or nothing while a read
  is owed (`RowsFollow`, `BindingsFollow`). The deletion of the op and the mirror of its
  answer are two transactions; that `owed` covers what a reload between them leaves is most
  of the proof. The answers in the air need no more than their types: what is written from one
  is either the server's table of that moment, and pays, or makes the table `late`.
* `VolumeServiceProofs`: `TypeCorrect` for any number of concurrent requests; under `OneSlot`
  (one request at a time) and for any volumes and any number of requests,
  `LentStaysOwned` (`LentIsOwned`), `RowsStayCoherent` (`RowsCoherent`), `LedgerStaysRight`
  (`LedgerAgrees`), `CountStaysRight` (`CountMatches`) and `StatusStaysRight` (`StatusFollows`),
  wherever a request breaks off. Between two statements a derived fact may be wrong; `InHand`
  says what the request that made it so still holds to put it right: a row as last
  read, but that its release date may have passed (`RowIsFresh`), a ledger entry, a count or a
  status to write (`LedgerHolds`, `CountHolds`, `StatusHolds`). A second invariant,
  `AdriftWasLent`, rests on it: a volume is removed when no request runs, so its open ledger
  rows are those of a loan, or of a failure the history knows. With two slots TLC finds all
  five violated.
* `CacheOwnerProofs`: `TypeCorrect` for any tabs; under `OneTab` (one tab, whose pages queue
  nothing once they are no longer the owner's), for any number of accounts, sign-ins
  and ops, `OpsStayWithTheirAccount` (`NeverAnothers`) and `RowsStayWithTheStamp`
  (`OnlyOwnRows`). `OwnerInv` ties four things: the stamp says whose queue it is; a wipe is
  empty until it takes the stamp; a check that found the device free finds it so until it
  adopts it; and all the accounts a page was told of, and the cookie's, are one account,
  since a sign-in ends in a new page (`OneAccount`). The last is what a
  second tab breaks.

Each inductive invariant was checked by TLC as an invariant of the run's instance before it
was proved. The assumptions on the constants are named in the modules and evaluated by TLC on
every run; `Undisturbed`, `OneSlot` and `OneTab` are hypotheses of the theorems that name
them, and the instances of the runs `outbox`, `service` and `owner` meet them.

## 5. What is only model-checked

`Drains` (twice) and `CatchesUp` (twice) are liveness, out of TLAPS's reach (fairness,
`ENABLED`). Every other property of the ten passing runs is a theorem. Those of
`VolumeOutbox` under `Undisturbed`, of `VolumeService` under `OneSlot`, of `CacheOwner` under
`OneTab` and `CursorComplete` under its own hypotheses fail without them (sections 3 and 6);
no weaker hypotheses were looked for than the ones the runs use. What the modules leave out
(section 2, *Abstractions*) is left out of the theorems too.

## 6. Where the code disagrees with what it says

Two runs TLC must find violated; PROJECT.json quotes the sentence concerned.

1. `outbox_racing_edit` / `NoSilentLoss`: an edit made while the volume's previous op is
   on the wire is merged into the row that the answer then deletes by id; it is never sent.
2. `owner_expired_session` / `ExpiryKeepsQueue`: when a session expires with edits queued,
   the first request but `/auth/user` that is answered 401 wipes the queue. `db.js:943` says
   it stays; `docs/modules/realtime.md:53-55` says it goes.

The configurations below are kept to be run by hand (`tlc -config <cfg> <module>`); each
finds a counterexample.

| Configuration | Module | Violates | Shows |
|---|---|---|---|
| `MCVolumeOutboxMixedEdits.cfg` | `MCVolumeOutbox` | `NothingOlderLands` | single edits are flushed before bulk marks whatever their order, where the repository's README calls the replay chronological |
| `MCVolumeOutboxStalePage.cfg` | `MCVolumeOutbox` | `NoEditReverts` | a page's read answered before the PATCH and written after its acknowledgement reverts the row |
| `MCVolumeSyncTwoCalls.cfg` | `MCVolumeSync` | `OneRequestPerSeries` | `syncing` is raised two awaits after it is checked: two triggers flush the same ops side by side |
| `MCVolumeDeltaEarlyPage.cfg` | `VolumeDelta` | `CursorComplete` | a full read remembers its revision before its rows are written; a reload in between leaves the cursor ahead of an almost empty table |
| `MCVolumeDeltaSkipped.cfg` | `VolumeDelta` | `SyncedIsComplete` | a delta passes over a row an op owns, the cursor passes it too, and nothing brings the other device's change later |
| `MCCoffretOutboxCleared.cfg` | `MCCoffretOutbox` | `LatestStateSent` | a price cleared and then given leaves as one patch with both, and the server clears it |
| `MCLibraryOutboxLateList.cfg` | `LibraryOutbox` | `LateListsHarmless` | a list answered before a request lands and written after its acknowledgement and read-back reverts the row, with nothing waiting |
| `MCCoffretOutboxLateAnswer.cfg` | `MCCoffretOutbox` | `LateAnswersHarmless` | a list taken before a create landed and written after its re-keying takes the box set off the screen |
| `MCVolumeServiceAdrift.cfg` | `VolumeService` | `NoLoanAdrift` | removing a lent volume leaves its ledger row open with no volume: out, or overdue, for good (`loan_history.rs:295-299`) |
| `MCCacheOwnerFailing.cfg` | `CacheOwner` | `NeverAnothers` | a wipe that fails moves the stamp all the same (`utils/auth.js:170`), where `db.js` says the stamp stays; the old queue goes out under the new account |

With `Slots = {r1, r2}` and `MaxRequests = 2`, `VolumeService` violates `LentIsOwned`,
`LedgerAgrees`, `CountMatches`, `RowsCoherent` and `StatusFollows`: two requests decide from
the same reading. Two first lends, for one, open two rows of the ledger.

Known gaps the properties state and do not hide. Volumes: a read-back that fails leaves the
refused value on the screen (`missed`); a reload between the deletion of a refused op
and its report loses the report (`reloads = 0`); a page cached behind a later refresh, or
two refreshes at once, break `CursorComplete`. Library: `unsure`, a report lost to a reload
included; a list or a row answered early and written late (`overtaken`). Coffrets: the same
of their reads (`late`); an edit of a
create on the wire goes to an id the server never had, the deletion of one whose reply was
lost leaves a box set on the server (`raced`), and a create that is cancelled does not give back
the binding it took. Service: a request that breaks off behind its main update leaves the
count, the ledger or the status as it was (`countOff`, `ledgerOff`, `statusOff`), a loan of a
volume that is removed stays open in the ledger for good (`goneLent`), and bulk
marks, coffrets and new dates do not look at announced or wanted flags (`rowOff`). Live: a
reconnect does not ask for what was missed, and the resync after a lag covers only the
library and the volumes (`gaps`). Owner: an answer that comes after a wipe is written
(`stray`).

## 7. Not modelled

* *Activity coalescer*: planned; its buffer feeds a display nothing else depends on.
* *Scan queue*: planned; it ends in the enqueues that are modelled.
* *Connectivity*: the sync modules let the device's belief change at any step.
* *Settings and author ops*: each is one row merged by key and sent in one request, the shape
  of a volume op without its guards.
* *Releases and nightly jobs*: loops of independent calls; `Release` and the upcoming volumes
  of `VolumeService` are what they do to a row.
* *Domain operations and MCP server*: they wrap the services with scope and rate checks;
  `ops/volume.rs` is in `VolumeService`.
* *Archive and external import, external catalogues, object storage, read-only projections,
  user interface, schema and scripts*: one transaction each, I/O and formats, or no state.
  The interface and its translations are most of the repository's lines, and hold no state
  that outlives a render.

## 8. Plan

In the order of what they would show.

1. Theorems: weaker hypotheses where they can be had. `NothingOvertaken` and `EditsStay` for
   several passes over different series, and with restores that meet no pass; `CursorComplete`
   with pages that cache behind a refresh of other series; `VolumeService` with concurrent
   requests on different volumes, for what is a fact of one row.
2. An abstract `WriteBehind`: a copy and a server joined by a queue of intents, implemented
   by `LibraryOutbox` and `VolumeOutbox` where no edit races a pass; `Due` and `SafeInv` are most
   of the two refinement mappings.
3. `ActivityCoalescer`: buffer, timers, compensation, restart. `ScanQueue`.
4. Settings and author ops; volume ops beside coffret ops on the same rows.
