--------------------------- MODULE CoffretOutbox ---------------------------
(***************************************************************************)
(* The box sets of one series: enqueueCoffretCreate, -Update and -Delete,  *)
(* flushCoffrets of client/src/lib/sync/outbox.js, cacheCoffretsForManga   *)
(* of client/src/lib/db.js, the pages that read coffrets and volumes back, *)
(* and the handlers of server/src/services/coffret.rs.                     *)
(*                                                                         *)
(* A coffret made offline has a temporary id, minus the clock; the server  *)
(* numbers its own from 1.  A coffret is its header, two columns, and the  *)
(* volumes bound to it.  The content of a column is the number of the edit *)
(* that wrote it, 0 is null.                                               *)
(*                                                                         *)
(* A pass is an invocation of syncOutbox past its gate, see SyncGate.      *)
(***************************************************************************)
EXTENDS Integers, FiniteSets

CONSTANTS
    Vols,           \* volumes of the series
    MaxTries,       \* MAX_OP_RETRIES
    MaxEdits,       \* bound: edits the user makes
    MaxVisits       \* bound: reads the page makes by itself, and reloads

ASSUME BoundsAssumption ==
    /\ Vols # {}
    /\ MaxTries \in Nat \ {0} /\ MaxEdits \in Nat /\ MaxVisits \in Nat

VARIABLES
    rows,      \* Dexie's coffrets: id -> header
    bound,     \* coffret_id of the volumes in Dexie, 0 for none
    outbox,    \* outboxCoffrets: id -> op
    srows,     \* the server's coffrets
    sbound,    \* coffret_id of the server's volumes
    serial,    \* ids the server has given out
    tries,     \* opRetryCounts (memory): id -> failures
    pass,      \* the running flush
    edits,     \* number of edits made
    lists,     \* lists of coffrets that have come and are not in Dexie yet
    binds,     \* answers to reads of the volumes, likewise
    visits,    \* the page's own reads and the reloads so far (bound)
    made,      \* server id -> temporary id it was created for (history)
    intent,    \* id -> header the user last asked for (history)
    deleted,   \* ids the user deleted and was not told otherwise (history)
    raced,     \* ids edited in a pass's hand, or deleted while the device had
               \* not been told that their create was applied (history)
    recleared, \* ids given a price after a waiting clear_price (history)
    owed,      \* what the device needs a read for: "rows", "vols" (history)
    late       \* what was last written from an answer the server has left
               \* behind: "rows", "vols" (history)

history == <<made, intent, deleted, raced, recleared, owed, late>>
vars == <<rows, bound, outbox, srows, sbound, serial, tries, pass, lists,
          binds, edits, visits, history>>

-----------------------------------------------------------------------------
(* Tables and headers *)

Put(f, k, v) == [x \in DOMAIN f \union {k} |-> IF x = k THEN v ELSE f[x]]
Drop(f, K) == [x \in DOMAIN f \ K |-> f[x]]
Empty == [x \in {} |-> 0]

Undef == -1
Columns == {"name", "price"}
Header == [Columns -> Nat]

\* A patch of the header: the columns it sets, and clear_price.
Patch == [cols : [Columns -> Undef..MaxEdits], clear : BOOLEAN]
NoPatch == [cols |-> [k \in Columns |-> Undef], clear |-> FALSE]

\* The header after a patch, in the browser and on the server alike: the flag
\* wins over a price.
Patched(row, p) == [k \in Columns |->
    IF k = "price" /\ p.clear THEN 0
    ELSE IF p.cols[k] # Undef THEN p.cols[k] ELSE row[k]]

MutMerged(old, new) == new

\* {...prevPatch, ...patch}: a flag, once set, is never unset.
Merged(old, new) ==
    [cols  |-> [k \in Columns |->
                  IF new.cols[k] # Undef THEN new.cols[k] ELSE old.cols[k]],
     clear |-> old.clear \/ new.clear]

Op == [kind : {"create", "update", "delete"}, head : Header, patch : Patch,
       range : SUBSET Vols, ts : 1..MaxEdits]

NoHead == [k \in Columns |-> 0]
Kind(c) == IF c \in DOMAIN outbox THEN outbox[c].kind ELSE "none"

NoPass == [st |-> "off", todo |-> Empty, cur |-> 0, answer |-> "ok", got |-> 0]
InHand(c) == c \in DOMAIN pass.todo

\* Reads go on by themselves, one of the page's and one of a pass (bound); an
\* answer is what the server had when it gave it, at most one to a reader.
Readers == {"page", "pass"}
NoAnswers == [r \in Readers |-> {}]

-----------------------------------------------------------------------------
(* Types and initial state *)

TypeOK ==
    /\ DOMAIN rows \subseteq Int /\ \A c \in DOMAIN rows : rows[c] \in Header
    /\ DOMAIN outbox \subseteq Int /\ \A c \in DOMAIN outbox : outbox[c] \in Op
    /\ DOMAIN srows \subseteq 1..serial
    /\ \A c \in DOMAIN srows : srows[c] \in Header
    /\ bound \in [Vols -> Int]
    /\ sbound \in [Vols -> {0} \union DOMAIN srows]
    /\ serial \in Nat
    /\ \A c \in DOMAIN tries : tries[c] \in 1..(MaxTries - 1)
    /\ pass.st \in {"off", "flush", "wire", "reply", "acked", "reread", "revols"}
    /\ \A c \in DOMAIN pass.todo : pass.todo[c] \in Op
    /\ pass.answer \in {"ok", "failed", "refused"}
    /\ edits \in 0..MaxEdits
    /\ visits \in 0..MaxVisits
    /\ DOMAIN lists = Readers
    /\ \A r \in Readers : \A list \in lists[r] :
          DOMAIN list \subseteq 1..serial /\ \A c \in DOMAIN list : list[c] \in Header
    /\ binds \in [Readers -> SUBSET [Vols -> 0..serial]]
    /\ owed \subseteq {"rows", "vols"} /\ late \subseteq {"rows", "vols"}

\* The server may have a coffret already, which the device has read.
Init ==
    \E R \in SUBSET Vols :
        /\ serial = IF R = {} THEN 0 ELSE 1
        /\ srows = [c \in 1..serial |-> NoHead] /\ rows = srows
        /\ sbound = [v \in Vols |-> IF v \in R THEN 1 ELSE 0] /\ bound = sbound
        /\ outbox = Empty /\ tries = Empty
        /\ pass = NoPass
        /\ lists = NoAnswers /\ binds = NoAnswers
        /\ edits = 0 /\ visits = 0
        /\ made = [c \in 1..serial |-> 0]
        /\ intent = Empty
        /\ deleted = {} /\ raced = {} /\ recleared = {} /\ owed = {} /\ late = {}

-----------------------------------------------------------------------------
(* The user's edits, each one Dexie transaction *)

n == edits + 1
Edited == edits < MaxEdits /\ edits' = n

\* Two creates waiting with a volume in common go out in the order of their
\* last edit, and leave the volume to whichever comes last.
Contended(c) == \E d \in DOMAIN outbox \ {c} :
    Kind(c) = "create" /\ Kind(d) = "create" /\ outbox[c].range \cap outbox[d].range # {}

\* enqueueCoffretCreate; mintTempCoffretId.
Create(R) ==
    LET head == [k \in Columns |-> n]
    IN /\ Edited /\ R # {}
       /\ rows' = Put(rows, -n, head)
       /\ bound' = [v \in Vols |-> IF v \in R THEN -n ELSE bound[v]]
       /\ outbox' = Put(outbox, -n, [kind |-> "create", head |-> head,
                             patch |-> NoPatch, range |-> R, ts |-> n])
       /\ intent' = Put(intent, -n, head)
       /\ UNCHANGED <<srows, sbound, serial, tries, pass, lists, binds, visits, made,
                      deleted, raced, recleared, owed, late>>

\* What the user has asked for so far, a request given up left out.
Asked(c) == IF c \in DOMAIN intent THEN intent[c]
            ELSE IF c \in DOMAIN srows THEN srows[c] ELSE rows[c]

\* enqueueCoffretUpdate: merged into the create, or into the update before it.
Update(c, p) ==
    /\ Edited
    /\ c \in DOMAIN rows
    /\ rows' = Put(rows, c, Patched(rows[c], p))
    /\ outbox' = CASE Kind(c) = "create" ->
                        [outbox EXCEPT ![c].head = Patched(@, p), ![c].ts = n]
                   [] Kind(c) = "delete" -> outbox
                   [] OTHER ->
                        Put(outbox, c, [kind |-> "update", head |-> NoHead,
                            patch |-> IF Kind(c) = "update"
                                      THEN Merged(outbox[c].patch, p) ELSE p,
                            range |-> {}, ts |-> n])
    /\ intent' = Put(intent, c, Patched(Asked(c), p))
    /\ raced' = IF InHand(c) THEN raced \union {c} ELSE raced
    /\ recleared' = IF /\ Kind(c) = "update" /\ outbox[c].patch.clear
                       /\ p.cols["price"] # Undef
                    THEN recleared \union {c} ELSE recleared
    /\ owed' = IF Contended(c) THEN owed \union {"vols"} ELSE owed
    /\ UNCHANGED <<late, bound, srows, sbound, serial, tries, pass, lists, binds, visits, made,
                   deleted>>

\* A create that never left is dropped.
Uncreated(c) == Drop(outbox, {c})

\* The op is in a pass's hand, or its create was applied and the device has
\* not been told.
UnderWay(c) ==
    \/ InHand(c)
    \/ \E r \in DOMAIN made : made[r] = c \/ (r = c /\ InHand(made[r]))

\* enqueueCoffretDelete.  A cancelled create gives back neither the binding it
\* took over nor the columns it stamped (owned, price, store).
Delete(c) ==
    /\ Edited
    /\ c \in DOMAIN rows
    /\ rows' = Drop(rows, {c})
    /\ bound' = [v \in Vols |-> IF bound[v] = c THEN 0 ELSE bound[v]]
    /\ outbox' = IF Kind(c) = "create" THEN Uncreated(c)
                 ELSE Put(outbox, c, [kind |-> "delete", head |-> NoHead,
                              patch |-> NoPatch, range |-> {}, ts |-> n])
    /\ intent' = Drop(intent, {c})
    /\ deleted' = deleted \union {c}
    /\ raced' = IF UnderWay(c) THEN raced \union {c} ELSE raced
    /\ owed' = IF UnderWay(c) THEN {"rows", "vols"}
               ELSE IF Kind(c) = "create" THEN owed \union {"vols"} ELSE owed
    /\ UNCHANGED <<srows, sbound, serial, tries, pass, lists, binds, visits, made, recleared,
                   late>>

-----------------------------------------------------------------------------
(* flushCoffrets *)

Device == <<rows, bound, outbox>>
Server == <<srows, sbound, serial, made>>

StartPass ==
    /\ pass.st = "off" /\ DOMAIN outbox # {}
    /\ pass' = [pass EXCEPT !.st = "flush", !.todo = outbox]
    /\ UNCHANGED <<Device, Server, tries, lists, binds, edits, visits, intent, deleted,
                   raced, recleared, owed, late>>

\* Ops go out oldest first.
TakeUp(c) ==
    /\ pass.st = "flush"
    /\ InHand(c)
    /\ \A d \in DOMAIN pass.todo : pass.todo[c].ts <= pass.todo[d].ts
    /\ pass' = [pass EXCEPT !.st = "wire", !.cur = c]
    /\ UNCHANGED <<Device, Server, tries, lists, binds, edits, visits, intent, deleted,
                   raced, recleared, owed, late>>

cur == pass.todo[pass.cur]

\* coffret.rs: create and its range of volumes in one transaction; a coffret
\* that is not there is a 404.  Nothing recognises a create sent again.
Applied ==
    /\ cur.kind = "create"
    /\ serial' = serial + 1
    /\ srows' = Put(srows, serial', cur.head)
    /\ sbound' = [v \in Vols |-> IF v \in cur.range THEN serial' ELSE sbound[v]]
    /\ made' = Put(made, serial', pass.cur)

AppliedToRow ==
    /\ cur.kind \in {"update", "delete"} /\ pass.cur \in DOMAIN srows
    /\ IF cur.kind = "update"
       THEN /\ srows' = [srows EXCEPT ![pass.cur] = Patched(@, cur.patch)]
            /\ UNCHANGED sbound
       ELSE /\ srows' = Drop(srows, {pass.cur})
            /\ sbound' = [v \in Vols |-> IF sbound[v] = pass.cur THEN 0 ELSE sbound[v]]
    /\ UNCHANGED <<serial, made>>

\* The request is answered, or breaks off before or after it was applied.
Answer(landed, answer) ==
    /\ pass.st = "wire"
    /\ answer = "ok" => landed
    /\ answer = "refused" => ~landed
    /\ IF landed THEN Applied \/ AppliedToRow ELSE UNCHANGED Server
    /\ pass' = [pass EXCEPT !.st = "reply", !.answer = answer, !.got = serial']
    /\ owed' = IF landed /\ answer # "ok" THEN {"rows", "vols"} ELSE owed
    /\ UNCHANGED <<Device, tries, lists, binds, edits, visits, intent, deleted, raced,
                   recleared, late>>

Cleared(c) == Drop(tries, {c})

\* The op is deleted first; what the answer brought is written after it.
Succeed ==
    LET c == pass.cur
    IN /\ pass.st = "reply" /\ pass.answer = "ok"
       /\ outbox' = Drop(outbox, {c})
       /\ intent' = IF cur.kind # "create" \/ c \notin DOMAIN intent THEN intent
                    ELSE IF pass.got \in DOMAIN intent \union deleted THEN Drop(intent, {c})
                    ELSE Put(Drop(intent, {c}), pass.got, intent[c])
       /\ raced' = IF cur.kind = "create" /\ c \in raced
                   THEN raced \union {pass.got} ELSE raced
       /\ pass' = [pass EXCEPT !.st = "acked"]
       /\ UNCHANGED <<rows, bound, Server, tries, lists, binds, edits, visits, deleted,
                      recleared, owed, late>>

MutBindings(c, r) == bound

\* The bound volumes move from the temporary id to the real one.
Bindings(c, r) == [v \in Vols |-> IF bound[v] = c THEN r ELSE bound[v]]

\* The re-keying transaction of a create; the mirrored row of an update.
Mirror ==
    LET c == pass.cur
    IN /\ pass.st = "acked"
       /\ CASE cur.kind = "create" ->
                 /\ rows' = Put(Drop(rows, {c}), pass.got, cur.head)
                 /\ bound' = Bindings(c, pass.got)
            [] cur.kind = "update" ->
                 /\ rows' = Put(rows, c, srows[c])
                 /\ UNCHANGED bound
            [] OTHER -> UNCHANGED <<rows, bound>>
       /\ tries' = Cleared(c)
       /\ pass' = [pass EXCEPT !.st = "flush", !.todo = Drop(@, {c})]
       /\ UNCHANGED <<outbox, Server, lists, binds, edits, visits, intent, deleted, raced,
                      recleared, owed, late>>

Failures(c) == IF c \in DOMAIN tries THEN tries[c] ELSE 0

MutExhausted(c) == Failures(c) >= MaxTries

\* shouldDeadLetter, for an error worth retrying.
Exhausted(c) == Failures(c) + 1 >= MaxTries

\* The op is given up: deleted, reported; then the series is read back.
GiveUp ==
    LET c == pass.cur
    IN /\ pass.st = "reply"
       /\ pass.answer = "refused" \/ (pass.answer = "failed" /\ Exhausted(c))
       /\ outbox' = Drop(outbox, {c})
       /\ tries' = IF pass.answer = "refused" THEN tries ELSE Cleared(c)
       /\ intent' = Drop(intent, {c})
       /\ deleted' = deleted \ {c}
       /\ pass' = [pass EXCEPT !.st = "reread"]
       /\ UNCHANGED <<rows, bound, Server, lists, binds, edits, visits, raced, recleared, owed, late>>

Stop ==
    LET c == pass.cur
    IN /\ pass.st = "reply" /\ pass.answer = "failed" /\ ~Exhausted(c)
       /\ tries' = Put(tries, c, Failures(c) + 1)
       /\ pass' = NoPass
       /\ UNCHANGED <<Device, Server, lists, binds, edits, visits, history>>

Kept == {c \in DOMAIN outbox : Kind(c) # "delete"}

MutGuardedRows(list) == list

\* cacheCoffretsForManga: the list, but for the rows an op waits for by now.
GuardedRows(list) ==
    [c \in (DOMAIN list \ DOMAIN outbox) \union (Kept \cap DOMAIN rows) |->
        IF c \in Kept THEN rows[c] ELSE list[c]]

\* What is written while an op waits, or is on its way, settles nothing for it.
Settled(due, what) == IF DOMAIN outbox = {} /\ pass.st = "off" THEN due \ {what}
                      ELSE due

WriteRows(list) ==
    /\ rows' = GuardedRows(list)
    /\ IF list = srows
       THEN owed' = Settled(owed, "rows") /\ late' = Settled(late, "rows")
       ELSE late' = late \union {"rows"} /\ UNCHANGED owed
    /\ UNCHANGED <<bound, outbox, Server, tries, binds, edits, visits, intent,
                   deleted, raced, recleared>>

\* cacheVolumesForManga: volumes are cached as they come; no guard knows of a
\* waiting coffret.
WriteBindings(bind) ==
    /\ bound' = bind
    /\ IF \E c \in DOMAIN outbox : Kind(c) # "update"
       THEN owed' = owed \union {"vols"} /\ UNCHANGED late
       ELSE IF bind = sbound
       THEN owed' = Settled(owed, "vols") /\ late' = Settled(late, "vols")
       ELSE late' = late \union {"vols"} /\ UNCHANGED owed
    /\ UNCHANGED <<rows, outbox, Server, tries, lists, edits, visits, intent,
                   deleted, raced, recleared>>

\* Reader r is answered.
ListCame(r) ==
    /\ lists[r] = {}
    /\ lists' = [lists EXCEPT ![r] = {srows}]
    /\ UNCHANGED <<Device, Server, tries, pass, binds, edits, history>>

VolsCame(r) ==
    /\ binds[r] = {}
    /\ binds' = [binds EXCEPT ![r] = {sbound}]
    /\ UNCHANGED <<Device, Server, tries, pass, lists, edits, history>>

\* The best-effort read of the coffrets after a dead letter, which comes and is
\* written, or fails.
RereadRows == pass.st = "reread" /\ ListCame("pass") /\ UNCHANGED visits

RowsReread ==
    /\ pass.st = "reread"
    /\ \E list \in lists["pass"] : WriteRows(list)
    /\ lists' = [lists EXCEPT !["pass"] = {}]
    /\ pass' = [pass EXCEPT !.st = "revols"]

RowsFailed ==
    /\ pass.st = "reread" /\ lists["pass"] = {}
    /\ owed' = owed \union {"rows"}
    /\ pass' = [pass EXCEPT !.st = "revols"]
    /\ UNCHANGED <<Device, Server, tries, lists, binds, edits, visits, intent,
                   deleted, raced, recleared, late>>

\* refetchVolumes after it.
RereadVols == pass.st = "revols" /\ VolsCame("pass") /\ UNCHANGED visits

VolsReread ==
    /\ pass.st = "revols"
    /\ \E bind \in binds["pass"] : WriteBindings(bind)
    /\ binds' = [binds EXCEPT !["pass"] = {}]
    /\ pass' = [pass EXCEPT !.st = "flush", !.todo = Drop(@, {pass.cur})]

VolsFailed ==
    /\ pass.st = "revols" /\ binds["pass"] = {}
    /\ owed' = owed \union {"vols"}
    /\ pass' = [pass EXCEPT !.st = "flush", !.todo = Drop(@, {pass.cur})]
    /\ UNCHANGED <<Device, Server, tries, lists, binds, edits, visits, intent,
                   deleted, raced, recleared, late>>

EndPass ==
    /\ pass.st = "flush" /\ DOMAIN pass.todo = {}
    /\ pass' = NoPass
    /\ UNCHANGED <<Device, Server, tries, lists, binds, edits, visits, intent, deleted,
                   raced, recleared, owed, late>>

-----------------------------------------------------------------------------
(* Around it *)

\* useCoffretsForManga and useVolumesForManga on mount, on focus, on events:
\* the answer is awaited, then written.  A read that fails changes nothing.
Visit == visits < MaxVisits /\ visits' = visits + 1

ReadRows == Visit /\ ListCame("page")

RowsRead ==
    /\ \E list \in lists["page"] : WriteRows(list)
    /\ lists' = [lists EXCEPT !["page"] = {}]
    /\ UNCHANGED pass

ReadVols == Visit /\ VolsCame("page")

VolsRead ==
    /\ \E bind \in binds["page"] : WriteBindings(bind)
    /\ binds' = [binds EXCEPT !["page"] = {}]
    /\ UNCHANGED pass

\* The page is reloaded: the pass, the reads and the retry counts are gone.
Reload ==
    /\ pass.st # "off" \/ lists # NoAnswers \/ binds # NoAnswers
    /\ Visit
    /\ tries' = Empty
    /\ pass' = NoPass
    /\ lists' = NoAnswers /\ binds' = NoAnswers
    /\ owed' = IF pass.st \in {"acked", "reread", "revols"}
                  \/ (pass.st = "reply" /\ pass.answer = "ok")
               THEN {"rows", "vols"} ELSE owed
    /\ UNCHANGED <<Device, Server, edits, intent, deleted, raced, recleared, late>>

\* The inputs: one thing is changed at a time, a new price or none included.
Patches ==
    {[cols |-> [k \in Columns |-> IF k = c THEN n ELSE Undef], clear |-> FALSE] : c \in Columns}
    \union {[NoPatch EXCEPT !.clear = TRUE]}

UserEdits ==
    \/ \E R \in SUBSET Vols : Create(R)
    \/ \E c \in DOMAIN rows : Delete(c) \/ \E p \in Patches : Update(c, p)

Answers == \E landed \in BOOLEAN, answer \in {"ok", "failed", "refused"} :
               Answer(landed, answer)

PassStep ==
    \/ \E c \in DOMAIN pass.todo : TakeUp(c)
    \/ Answers
    \/ Succeed \/ Mirror \/ GiveUp \/ Stop
    \/ RereadRows \/ RowsReread \/ RowsFailed
    \/ RereadVols \/ VolsReread \/ VolsFailed
    \/ EndPass

PageStep == ReadRows \/ RowsRead \/ ReadVols \/ VolsRead

Next == UserEdits \/ StartPass \/ PassStep \/ PageStep \/ Reload

Spec == Init /\ [][Next]_vars

-----------------------------------------------------------------------------
(* Properties *)

\* A coffret that waits to be sent is on the screen, one that waits to be
\* deleted is not, whatever list is written in between; only an answer that
\* crosses the user's edit may break this (cacheCoffretsForManga).
WaitingRowShown == \A c \in DOMAIN outbox \ raced :
    (outbox[c].kind = "delete") <=> (c \notin DOMAIN rows)

\* Ids whose op has left the queue, by now or for this pass.
Done(c) == Kind(c) = "none" /\ ~InHand(c)

\* What the user deleted is not on the server, a create cancelled in time
\* included.
DeletedIsGone == \A c \in DOMAIN srows : \A d \in {c, made[c]} :
    d \in deleted \ raced => ~Done(d)

Sent(ids) == \A c \in ids : Done(c) => c \in DOMAIN srows /\ srows[c] = intent[c]

\* Once its op is gone a coffret is on the server as the user last left it;
\* merged, repeated and lost requests change nothing.
LatestStateSent == Sent(DOMAIN intent \ raced)

\* The same, but for a price given while a waiting patch clears the price, and
\* for deletions as well.
NoSilentLoss == Sent(DOMAIN intent \ (raced \union recleared)) /\ DeletedIsGone

\* With nothing waiting and no pass, the device has the server's coffrets, and
\* its volumes are bound to them and to no temporary id, unless a read is owed,
\* or the last answer written was given before a request landed.
QuietMeansMirrored ==
    pass.st = "off" /\ DOMAIN outbox = {} =>
        /\ "rows" \notin owed \union late => rows = srows
        /\ "vols" \notin owed \union late => bound = sbound

\* The same whatever the age of the answers.  The code does not keep this:
\* nothing compares an answer's age with the ops acknowledged since.
LateAnswersHarmless ==
    pass.st = "off" /\ DOMAIN outbox = {} =>
        /\ "rows" \notin owed => rows = srows
        /\ "vols" \notin owed => bound = sbound
=============================================================================
