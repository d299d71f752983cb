--------------------------- MODULE LibraryOutbox ---------------------------
(***************************************************************************)
(* The library rows of one device: the enqueueLibrary* functions,          *)
(* flushLibrary and the read-backs of client/src/lib/sync/outbox.js, the   *)
(* guarded writes of client/src/lib/db.js, and the five handlers of        *)
(* server/src/services/library.rs their requests end in.                   *)
(*                                                                         *)
(* One op waits per series.  Its kind decides the requests it becomes: a   *)
(* delete is a DELETE, an upsert a POST, and a patch or an owned count     *)
(* up to three PATCHes, one for each endpoint its columns belong to.  The  *)
(* content of a column is the number of the edit that wrote it; 0 is what  *)
(* it held at first.  A row that is not there is Gone, -1 everywhere.      *)
(*                                                                         *)
(* A pass is an invocation of syncOutbox that is past its gate, see        *)
(* SyncGate; one runs at a time, and nobody else writes to this library.   *)
(* The volumes read back after a POST or a change of the volume count, and *)
(* the bulk marks that also guard a library row, are in VolumeOutbox.      *)
(***************************************************************************)
EXTENDS Integers, FiniteSets

CONSTANTS
    Series,         \* mal_ids
    Held,           \* those in the library at first
    MaxTries,       \* MAX_OP_RETRIES
    MaxEdits,       \* bound: edits the user makes
    MaxVisits       \* bound: reads the page makes by itself, and reloads

ASSUME BoundsAssumption ==
    /\ Series # {} /\ Held \subseteq Series
    /\ MaxTries \in Nat \ {0} /\ MaxEdits \in Nat /\ MaxVisits \in Nat

VARIABLES
    local,     \* Dexie's library table
    outbox,    \* outboxLibrary
    server,    \* user_libraries
    tag,       \* the answer the remembered ETag of the list stands for
    tries,     \* opRetryCounts (memory)
    pass,      \* the running flush
    list,      \* the answers to reads of library rows that are not in Dexie yet
    edits,     \* number of edits made
    visits,    \* the page's own reads and the reloads so far (bound)
    intent,    \* the row the user last asked for (history)
    unsure,    \* series whose last edit the code does not promise (history)
    behind,    \* series whose read-back failed or never happened (history)
    overtaken  \* series written from an answer the server has left behind (history)

vars == <<local, outbox, server, tag, tries, pass, list, edits, visits,
          intent, unsure, behind, overtaken>>

-----------------------------------------------------------------------------
(* Rows, ops and requests *)

\* label: volumes, publisher, edition, genres.  review: review, author,
\* reading and publication status, dates, times read.
Fields == {"label", "review", "owned", "poster"}
Posted == Fields \ {"review"}           \* the columns of AddLibraryRequest

Undef == -1
Gone == [f \in Fields |-> Undef]
Row(n) == [Fields -> Undef..n]

\* A row after a write of the columns F of a payload; writes to a row that
\* is not there do nothing.
Written(row, pay, F) ==
    IF row = Gone THEN Gone
    ELSE [f \in Fields |-> IF f \in F /\ pay[f] # Undef THEN pay[f] ELSE row[f]]

\* add_to_user_library: a row that is already there is answered as it is.
Added(row, pay) ==
    IF row # Gone THEN row
    ELSE [f \in Fields |-> IF f \in Posted /\ pay[f] # Undef THEN pay[f] ELSE 0]

Kinds == {"upsert", "patch", "owned", "delete"}
Op(n) == [kind : Kinds \union {"none"}, pay : Row(n), ts : 0..n]
NoOp == [kind |-> "none", pay |-> Gone, ts |-> 0]
Waiting(s) == outbox[s].kind # "none"

Endpoints == {"DELETE", "POST", "META", "OWNED", "POSTER"}

\* The requests an op becomes, sent in the order of Before.
Requests(op) ==
    CASE op.kind = "delete" -> {"DELETE"}
      [] op.kind = "upsert" -> {"POST"}
      [] op.kind = "owned"  -> {"OWNED"} \union
             (IF op.pay["poster"] # Undef THEN {"POSTER"} ELSE {})
      [] op.kind = "patch"  ->
             (IF op.pay["label"] # Undef \/ op.pay["review"] # Undef
                THEN {"META"} ELSE {}) \union
             (IF op.pay["owned"] # Undef THEN {"OWNED"} ELSE {}) \union
             (IF op.pay["poster"] # Undef THEN {"POSTER"} ELSE {})
      [] OTHER -> {}

Before(q, r) == q = "META" \/ (q = "OWNED" /\ r = "POSTER")
NextOf(left) == CHOOSE q \in left : \A r \in left \ {q} : Before(q, r)

\* What the server makes of a request.
Handled(q, row, pay) ==
    CASE q = "DELETE" -> Gone
      [] q = "POST"   -> Added(row, pay)
      [] q = "META"   -> Written(row, pay, {"label", "review"})
      [] q = "OWNED"  -> Written(row, pay, {"owned"})
      [] q = "POSTER" -> Written(row, pay, {"poster"})

-----------------------------------------------------------------------------
(* Types and initial state *)

NoTag == {}                             \* nothing remembered
NoOps == [s \in Series |-> NoOp]

NoRows == [s \in Series |-> Gone]

\* came: the rows that have answered a read-back, at most one to a series.
NoPass == [st |-> "off", todo |-> NoOps, cur |-> CHOOSE s \in Series : TRUE,
           left |-> {}, answer |-> "ok", touched |-> {},
           came |-> [s \in Series |-> {}]]

PassStates == {"off", "flush", "wire", "reply", "dropped", "reread", "report",
               "refresh"}

\* Reads go on by themselves: one of the page's and one of a pass (bound).
Readers == {"page", "pass"}
NoRead == [st |-> "free", rows |-> NoRows, of |-> {}]
ReadStates == {"free", "taken", "kept", "entry", "written"}

TypeOK ==
    /\ edits \in 0..MaxEdits
    /\ visits \in 0..MaxVisits
    /\ local \in [Series -> Row(edits)]
    /\ outbox \in [Series -> Op(edits)]
    /\ server \in [Series -> Row(edits)]
    /\ IsFiniteSet(tag) /\ Cardinality(tag) <= 1
    /\ \A t \in tag : t \in [Series -> Row(edits)]
    /\ tries \in [Series -> 0..(MaxTries - 1)]
    /\ pass \in [st : PassStates, todo : [Series -> Op(edits)], cur : Series,
                 left : SUBSET Endpoints, answer : {"ok", "failed", "refused"},
                 touched : SUBSET Series, came : [Series -> SUBSET Row(edits)]]
    /\ list \in [Readers -> [st : ReadStates, rows : [Series -> Row(edits)],
                             of : SUBSET Series]]
    /\ intent \in [Series -> Row(edits)]
    /\ unsure \subseteq Series
    /\ behind \subseteq Series /\ overtaken \subseteq Series

Init ==
    /\ server = [s \in Series |-> IF s \in Held THEN [f \in Fields |-> 0] ELSE Gone]
    /\ local = server
    /\ outbox = NoOps
    /\ tag = {server}
    /\ tries = [s \in Series |-> 0]
    /\ pass = NoPass
    /\ list = [r \in Readers |-> NoRead]
    /\ edits = 0
    /\ visits = 0
    /\ intent = server
    /\ unsure = {}
    /\ behind = {}
    /\ overtaken = {}

-----------------------------------------------------------------------------
(* The user edits.  Each action is one Dexie transaction: the optimistic row, *)
(* the op, and in the history what the user now expects.                      *)

n == edits + 1

InHand(s) == pass.st # "off" /\ pass.todo[s] # NoOp

\* The op of s was given up, and the user has not been told yet.
Dropped(s) == pass.st \in {"dropped", "reread", "report"} /\ pass.cur = s

\* The edit of series s sets `row` in the mirror and leaves `op` waiting;
\* `wish` is what the user expects, and `sure` whether the op can say so.
Edit(s, row, op, wish, sure) ==
    /\ edits < MaxEdits
    /\ edits' = n
    /\ local' = [local EXCEPT ![s] = row]
    /\ outbox' = [outbox EXCEPT ![s] = op]
    /\ intent' = [intent EXCEPT ![s] = wish]
    /\ unsure' = IF InHand(s) \/ Dropped(s) \/ ~sure THEN unsure \union {s}
                 ELSE IF op.kind = "delete" THEN unsure \ {s} ELSE unsure
    /\ UNCHANGED <<server, tag, tries, pass, list, visits, behind, overtaken>>

\* enqueueLibraryUpsert: the whole row, over whatever was waiting.  The POST
\* cannot replace a row the server still has.
Upsert(s) ==
    LET row == [f \in Fields |-> IF f \in Posted THEN n ELSE 0]
    IN /\ local[s] = Gone
       /\ Edit(s, row, [kind |-> "upsert", pay |-> row, ts |-> n], row,
               server[s] = Gone)

\* enqueueLibraryDelete
Delete(s) ==
    /\ local[s] # Gone
    /\ Edit(s, Gone, [kind |-> "delete", pay |-> Gone, ts |-> n], Gone, TRUE)

\* The payload of a waiting op with one more column.
WithColumn(pay, f) == [pay EXCEPT ![f] = n]

Changed(row, f) == Written(row, WithColumn(Gone, f), {f})

\* A POST carries the columns of an add, and only to a server without the row.
PostCarries(s, f) == outbox[s].kind = "upsert" => f \in Posted /\ server[s] = Gone

\* enqueueLibraryPatch: a waiting delete becomes a patch of a row the user
\* has given up.
Patch(s, f) ==
    /\ f \in {"label", "review"}
    /\ local[s] # Gone \/ Waiting(s)
    /\ Edit(s, Changed(local[s], f),
            [kind |-> IF outbox[s].kind = "upsert" THEN "upsert" ELSE "patch",
             pay |-> WithColumn(outbox[s].pay, f), ts |-> n],
            Changed(intent[s], f),
            outbox[s].kind # "delete" /\ PostCarries(s, f))

\* enqueueLibraryPoster: nothing happens when a delete is waiting.
Poster(s) ==
    /\ local[s] # Gone \/ Waiting(s)
    /\ outbox[s].kind # "delete"
    /\ Edit(s, Changed(local[s], "poster"),
            [kind |-> IF outbox[s].kind \in {"upsert", "owned"}
                      THEN outbox[s].kind ELSE "patch",
             pay |-> WithColumn(outbox[s].pay, "poster"), ts |-> n],
            Changed(intent[s], "poster"), PostCarries(s, "poster"))

\* The op an owned count rides on: the stronger one.
KindOwned(kind) == IF kind = "none" THEN "owned" ELSE kind

\* enqueueLibraryVolumesOwned
Owned(s) ==
    /\ local[s] # Gone \/ Waiting(s)
    /\ Edit(s, Changed(local[s], "owned"),
            [kind |-> KindOwned(outbox[s].kind),
             pay |-> WithColumn(outbox[s].pay, "owned"), ts |-> n],
            Changed(intent[s], "owned"), PostCarries(s, "owned"))

-----------------------------------------------------------------------------
(* A pass: flushLibrary, then refreshTouched *)

Rest == <<edits, visits>>
Mirror == <<local, tag, list, behind, overtaken>>
Wish == <<intent, unsure>>

\* flushLibrary reads the table once; ops are taken up oldest first.
StartPass ==
    /\ pass.st = "off"
    /\ \E s \in Series : Waiting(s)
    /\ pass' = [pass EXCEPT !.st = "flush", !.todo = outbox, !.touched = {}]
    /\ UNCHANGED <<outbox, server, tries, Mirror, Wish, Rest>>

Unsent == {s \in Series : pass.todo[s] # NoOp}

\* The next op goes on the wire.  A patch always has a column to send.
TakeUp(s) ==
    /\ pass.st = "flush"
    /\ s \in Unsent
    /\ \A t \in Unsent : pass.todo[s].ts <= pass.todo[t].ts
    /\ pass' = [pass EXCEPT !.st = "wire", !.cur = s,
                            !.left = Requests(pass.todo[s])]
    /\ UNCHANGED <<outbox, server, tries, Mirror, Wish, Rest>>

\* The server is done with the request, or never saw it; a handler is one
\* transaction.
Answer(landed, answer) ==
    LET s == pass.cur
    IN /\ pass.st = "wire"
       /\ answer = "ok" => landed
       /\ answer = "refused" => ~landed
       /\ server' = IF landed
                    THEN [server EXCEPT ![s] =
                             Handled(NextOf(pass.left), @, pass.todo[s].pay)]
                    ELSE server
       /\ pass' = [pass EXCEPT !.st = "reply", !.answer = answer]
       /\ UNCHANGED <<outbox, tries, Mirror, Wish, Rest>>

MutSettledKeeps(s) == outbox

\* The op is done with: whatever waits for the series now is deleted.
Settled(s) == [outbox EXCEPT ![s] = NoOp]

NextRequest ==
    /\ pass.st = "reply" /\ pass.answer = "ok"
    /\ Cardinality(pass.left) > 1
    /\ pass' = [pass EXCEPT !.st = "wire", !.left = @ \ {NextOf(@)}]
    /\ UNCHANGED <<outbox, server, tries, Mirror, Wish, Rest>>

Succeed ==
    LET s == pass.cur
    IN /\ pass.st = "reply" /\ pass.answer = "ok"
       /\ Cardinality(pass.left) <= 1
       /\ outbox' = Settled(s)
       /\ tries' = [tries EXCEPT ![s] = 0]
       /\ pass' = [pass EXCEPT !.st = "flush", !.todo[s] = NoOp, !.left = {},
                               !.touched = @ \union {s}]
       /\ UNCHANGED <<server, Mirror, Wish, Rest>>

MutExhausted(s) == tries[s] >= MaxTries

\* shouldDeadLetter, for an error worth retrying.
Exhausted(s) == tries[s] + 1 >= MaxTries

\* The op is given up.  The user hears of it when the list has been re-read.
GiveUp ==
    LET s == pass.cur
    IN /\ pass.st = "reply"
       /\ pass.answer = "refused" \/ (pass.answer = "failed" /\ Exhausted(s))
       /\ outbox' = [outbox EXCEPT ![s] = NoOp]
       /\ tries' = IF pass.answer = "refused" THEN tries
                   ELSE [tries EXCEPT ![s] = 0]
       /\ pass' = [pass EXCEPT !.st = "dropped", !.todo[s] = NoOp, !.left = {}]
       /\ UNCHANGED <<server, Mirror, Wish, Rest>>

\* The flush stops; the pass goes on to read back what it touched.
Stop ==
    LET s == pass.cur
    IN /\ pass.st = "reply" /\ pass.answer = "failed" /\ ~Exhausted(s)
       /\ tries' = [tries EXCEPT ![s] = @ + 1]
       /\ pass' = [pass EXCEPT !.st = "refresh", !.todo = NoOps, !.left = {}]
       /\ UNCHANGED <<outbox, server, Mirror, Wish, Rest>>

MutGuardedRows(of, rows) == [s \in Series |->
    IF s \notin of \/ outbox[s].kind \notin {"none", "delete"}
    THEN local[s] ELSE rows[s]]

\* cacheLibrary, cacheLibraryEntry, dropCachedLibraryEntry: one transaction
\* that reads the ops waiting now, and keeps off the rows they own.
GuardedRows(of, rows) == [s \in Series |->
    IF s \notin of \/ Waiting(s) THEN local[s] ELSE rows[s]]

\* The answer is written over the rows `of`.  No row is owed a read any more,
\* but for those it was kept off; one the server has changed since the answer
\* was given is overtaken.
WriteRows(of, rows) ==
    LET covered == {s \in of : ~Waiting(s)}
    IN /\ local' = GuardedRows(of, rows)
       /\ behind' = behind \ covered
       /\ overtaken' = (overtaken \ covered) \union
                       {s \in covered : rows[s] # server[s]}

MutForgotten == tag

\* forgetTag, for a read that must be written.
Forgotten == NoTag

\* refetchLibrary({force}): the tag is forgotten and the list asked for, unless
\* that fails or joins a read already under way, for which the tag may have
\* been looked at before.  The server answers before the pass goes on.
Forget(own) ==
    /\ pass.st = "dropped"
    /\ tag' = Forgotten
    /\ list' = IF own THEN [list EXCEPT !["pass"] =
                              [st |-> "taken", rows |-> server, of |-> Series]]
               ELSE list
    /\ behind' = IF own THEN behind ELSE behind \union {pass.cur}
    /\ pass' = [pass EXCEPT !.st = IF own THEN "reread" ELSE "report"]
    /\ UNCHANGED <<local, outbox, server, tries, overtaken, Wish, Rest>>

\* The re-read fails for the pass: its answer is lost, or it is cancelled for a
\* newer read of the page's (and goes on alone, as that read may).
RereadFails ==
    /\ pass.st = "reread"
    /\ list' = [list EXCEPT !["pass"] = NoRead]
    /\ behind' = behind \union {pass.cur}
    /\ pass' = [pass EXCEPT !.st = "report"]
    /\ UNCHANGED <<local, outbox, server, tag, tries, overtaken, Wish, Rest>>

MutTold(s) == intent

\* emitSyncError: the user is back to what the server has, unless they have
\* asked for something else since.
Told(s) == IF Waiting(s) THEN intent ELSE [intent EXCEPT ![s] = server[s]]

Report ==
    LET s == pass.cur
    IN /\ pass.st = "report"
       /\ intent' = Told(s)
       /\ unsure' = IF Waiting(s) THEN unsure ELSE unsure \ {s}
       /\ pass' = [pass EXCEPT !.st = "flush"]
       /\ UNCHANGED <<outbox, server, tries, Mirror, Rest>>

FlushDone ==
    /\ pass.st = "flush" /\ Unsent = {}
    /\ pass' = [pass EXCEPT !.st = "refresh"]
    /\ UNCHANGED <<outbox, server, tries, Mirror, Wish, Rest>>

\* refetchLibraryEntry of what the pass touched: the row comes, and is written
\* with the ops that wait by then, or the read fails.
EntryCame(s) ==
    /\ pass.st = "refresh" /\ s \in pass.touched /\ pass.came[s] = {}
    /\ pass' = [pass EXCEPT !.came[s] = {server[s]}]
    /\ UNCHANGED <<outbox, server, tries, Mirror, Wish, Rest>>

EntryWritten(s) ==
    /\ pass.st = "refresh"
    /\ \E row \in pass.came[s] : WriteRows({s}, [NoRows EXCEPT ![s] = row])
    /\ pass' = [pass EXCEPT !.touched = @ \ {s}, !.came[s] = {}]
    /\ UNCHANGED <<outbox, server, tag, tries, list, Wish, Rest>>

EntryFailed(s) ==
    /\ pass.st = "refresh" /\ s \in pass.touched /\ pass.came[s] = {}
    /\ behind' = behind \union {s}
    /\ pass' = [pass EXCEPT !.touched = @ \ {s}]
    /\ UNCHANGED <<local, outbox, server, tag, tries, list, overtaken, Wish, Rest>>

EndPass ==
    /\ pass.st = "refresh" /\ pass.touched = {}
    /\ pass' = NoPass
    /\ UNCHANGED <<outbox, server, tries, Mirror, Wish, Rest>>

-----------------------------------------------------------------------------
(* Reads of the list and of single rows *)

\* The page reads the list on mount, on focus and on events, and the row of a
\* series an event names (scoped).  A read that fails changes nothing.
PageReads(of, st) ==
    /\ list["page"] = NoRead
    /\ visits < MaxVisits /\ visits' = visits + 1
    /\ list' = [list EXCEPT !["page"] =
                   [st |-> st, of |-> of,
                    rows |-> [s \in Series |-> IF s \in of THEN server[s] ELSE Gone]]]
    /\ UNCHANGED <<local, outbox, server, tag, tries, pass, behind, overtaken, Wish, edits>>

PageReadsList == PageReads(Series, "taken")
PageReadsEntry(s) == PageReads({s}, "entry")

\* What the pass does when reader r is done: it waits for its own re-read.
GoesOn(r) == IF r = "pass" THEN [pass EXCEPT !.st = "report"] ELSE pass

\* fetchUnlessUnchanged: an answer whose ETag is the remembered one is not
\* written, unless the table is empty.
CheckTag(r) ==
    LET differs == tag # {list[r].rows} \/ local = NoRows
    IN /\ list[r].st = "taken"
       /\ list' = IF differs THEN [list EXCEPT ![r].st = "kept"]
                  ELSE [list EXCEPT ![r] = NoRead]
       /\ pass' = IF differs THEN pass ELSE GoesOn(r)
       /\ UNCHANGED <<local, outbox, server, tag, tries, behind, overtaken, Wish, Rest>>

WriteRead(r) ==
    /\ list[r].st \in {"kept", "entry"}
    /\ WriteRows(list[r].of, list[r].rows)
    /\ list' = IF list[r].st = "kept" THEN [list EXCEPT ![r].st = "written"]
               ELSE [list EXCEPT ![r] = NoRead]
    /\ UNCHANGED <<outbox, server, tag, tries, pass, Wish, Rest>>

\* rememberTag.  Another reader brings back the tag the pass has forgotten:
\* its re-read may now be skipped.
RememberTag(r) ==
    /\ list[r].st = "written"
    /\ tag' = {list[r].rows}
    /\ behind' = IF pass.st = "reread" /\ r = "page"
                 THEN behind \union {pass.cur} ELSE behind
    /\ list' = [list EXCEPT ![r] = NoRead]
    /\ pass' = GoesOn(r)
    /\ UNCHANGED <<local, outbox, server, tries, overtaken, Wish, Rest>>

-----------------------------------------------------------------------------
(* Around it *)

\* The page is reloaded: the pass, the reads and the retry counts are gone, the
\* tables and the tag are not.  A read-back still due is not made up for, and
\* nor is the report of an op given up.
Reload ==
    /\ pass.st # "off" \/ \E r \in Readers : list[r] # NoRead
    /\ visits < MaxVisits /\ visits' = visits + 1
    /\ tries' = [s \in Series |-> 0]
    /\ pass' = NoPass
    /\ list' = [r \in Readers |-> NoRead]
    /\ behind' = behind \union pass.touched \union {s \in Series : Dropped(s)}
    /\ unsure' = unsure \union {s \in Series : Dropped(s)}
    /\ UNCHANGED <<local, outbox, server, tag, edits, intent, overtaken>>

Answers == \E landed \in BOOLEAN, answer \in {"ok", "failed", "refused"} :
               Answer(landed, answer)

ReadStep(r) == CheckTag(r) \/ WriteRead(r) \/ RememberTag(r)

PassStep ==
    \/ \E s \in Series : TakeUp(s)
    \/ Answers
    \/ NextRequest \/ Succeed \/ GiveUp \/ Stop
    \/ \E own \in BOOLEAN : Forget(own)
    \/ RereadFails
    \/ ReadStep("pass")
    \/ Report \/ FlushDone
    \/ \E s \in Series : EntryCame(s) \/ EntryWritten(s) \/ EntryFailed(s)
    \/ EndPass

UserEdits == \E s \in Series :
    \/ Upsert(s) \/ Delete(s) \/ Poster(s) \/ Owned(s)
    \/ \E f \in Fields : Patch(s, f)

PageStep ==
    \/ PageReadsList \/ \E s \in Series : PageReadsEntry(s)
    \/ ReadStep("page")

Next == UserEdits \/ StartPass \/ PassStep \/ PageStep \/ Reload

\* A pass is started again by the backoff timer and the sixty-second runner,
\* and every request it makes ends, in an answer or a timeout.
Fairness == WF_vars(StartPass) /\ WF_vars(PassStep)

Spec == Init /\ [][Next]_vars /\ Fairness

-----------------------------------------------------------------------------
(* Properties *)

\* The screen shows what waits to be sent: no list or row read back covers the
\* columns of a waiting op, and a series being deleted does not come back
\* (libraryGuards, keep and dropped).
WaitingOpShown == \A s \in Series :
    /\ outbox[s].kind = "delete" => local[s] = Gone
    /\ local[s] # Gone => \A f \in Fields :
           outbox[s].pay[f] # Undef => local[s][f] = outbox[s].pay[f]

\* Once an op has left the queue the server holds what the user asked for, all
\* the columns merged into it included, or the user has been told that it does
\* not; while the pass re-reads the list of an op it gave up the report is still
\* to come, and a reload in between loses it (Reload makes the series unsure).
NoSilentLoss == \A s \in Series :
    ~Waiting(s) /\ ~InHand(s) /\ ~Dropped(s) /\ s \notin unsure
    => server[s] = intent[s]

\* Nothing waits for the series, is out for it, or is still to be read back.
Quiet(s) ==
    /\ ~Waiting(s) /\ ~InHand(s) /\ ~Dropped(s)
    /\ s \notin behind \union pass.touched

\* A quiet series is on the device as it is on the server, whatever reads were
\* under way meanwhile, but where the last answer written was an overtaken one:
\* one given before a request landed, and written when its op was gone.
QuietMeansMirrored == \A s \in Series :
    Quiet(s) /\ s \notin overtaken => local[s] = server[s]

\* A quiet series is on the device as it is on the server.  The code does not
\* keep this: nothing compares an answer's age with the ops acknowledged since.
LateListsHarmless == \A s \in Series : Quiet(s) => local[s] = server[s]

\* Every op leaves the queue, whatever the server answers: one that fails for
\* good runs out of tries and does not hold up the ones behind it.
Drains == \A s \in Series : Waiting(s) ~> ~Waiting(s)
=============================================================================
