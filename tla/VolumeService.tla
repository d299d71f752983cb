--------------------------- MODULE VolumeService ---------------------------
(***************************************************************************)
(* The requests that change one series of one user on the server:          *)
(* services/volume.rs (update_by_id, set_loan, set_physical_details,       *)
(* bulk_mark_for_series, the manual upcoming volumes), the ledger of       *)
(* services/loan_history.rs, the recount and the reading progression of    *)
(* services/library.rs, coffret::create, and ops/volume.rs, which strings  *)
(* them together.                                                          *)
(*                                                                         *)
(* A PATCH or a bulk mark is a run of statements, each committed on its    *)
(* own; it can fail between any two, and requests in two slots interleave. *)
(* The requests that are one transaction are one action.  The devices of a *)
(* user send one request per series at a time; two slots are two devices,  *)
(* or a device and an agent.                                               *)
(*                                                                         *)
(* The history variables say where the code is known to leave a derived    *)
(* fact behind: the invariants are about everything else.                  *)
(***************************************************************************)
EXTENDS Integers, Sequences, FiniteSets

CONSTANTS
    Last,           \* highest volume number
    Slots,          \* requests that may run at once
    MaxRequests     \* bound: requests made

ASSUME BoundsAssumption == Last \in Nat \ {0} /\ Slots # {} /\ MaxRequests \in Nat

Vols == 1..Last

VARIABLES
    vols,       \* user_volumes: vol_num -> the flags of its row, {} for no row
    open,       \* loan_history: rows not returned, per volume row they point at
    adrift,     \* volumes with a row not returned that points at no volume any more
    lib,        \* the user_libraries row
    req,        \* slot -> the request it runs
    requests,   \* number of requests made (bound)
    countOff,   \* volumes_owned is known to be left behind (history)
    ledgerOff,  \* volumes whose ledger is known to be left behind (history)
    goneLent,   \* volumes removed while they were lent, or in ledgerOff (history)
    rowOff,     \* volumes another write path left incoherent (history)
    statusOff   \* the reading status is the user's, or left behind (history)

history == <<countOff, ledgerOff, goneLent, rowOff, statusOff>>
vars == <<vols, open, adrift, lib, req, requests, history>>

-----------------------------------------------------------------------------
(* Rows, the reading progression, requests *)

\* coming: release_date is in the future.  manual: origin.
Flags == {"here", "owned", "read", "lent", "wanted", "coming", "manual"}

Having(f) == {v \in Vols : f \in vols[v]}
Released == Having("here") \ Having("coming")
Lower(a, b) == IF a < b THEN a ELSE b

With(row, f, answer) == CASE answer = "yes" -> row \union {f}
                          [] answer = "no"  -> row \ {f}
                          [] OTHER          -> row

\* parked: paused or dropped.
Statuses == {"none", "planned", "reading", "completed", "parked"}

MutNextReading(s, finished, read, total) ==
    IF read = 0 THEN <<s, finished>>
    ELSE IF total > 0 /\ read >= total THEN <<"completed", TRUE>>
    ELSE IF s = "parked" THEN <<s, finished>>
    ELSE <<"reading", FALSE>>

\* next_reading_state
NextReading(s, finished, read, total) ==
    IF read = 0 THEN IF s \in {"reading", "completed"} THEN <<"none", FALSE>>
                     ELSE <<s, finished>>
    ELSE IF total > 0 /\ read >= total THEN <<"completed", TRUE>>
    ELSE IF s = "parked" THEN <<s, finished>>
    ELSE <<"reading", FALSE>>

\* What a request asks of a flag: yes, no, or keep for a field not sent.
Asks == {"yes", "no", "keep"}

Statements == <<"read", "update", "close", "progress", "progressed", "loan",
                "lend", "look", "want", "count", "write">>
At(i) == IF i > Len(Statements) THEN "done" ELSE Statements[i]

Request ==
    [kind : {"patch", "bulk", "loan", "want"}, v : Vols, own : Asks, read : Asks,
     loan : Asks, want : Asks,
     at   : 1..12,          \* the next statement
     row  : SUBSET Flags,   \* the row as it was read
     back : SUBSET Vols,    \* volumes whose ledger row is to be closed
     flip : BOOLEAN,        \* owned_changed
     num  : 0..Last,        \* the volumes counted
     next : Statuses \X BOOLEAN]

Idle == [kind |-> "patch", v |-> 1, own |-> "keep", read |-> "keep", loan |-> "keep",
         want |-> "keep", at |-> 12, row |-> {}, back |-> {}, flip |-> FALSE,
         num |-> 0, next |-> <<"none", FALSE>>]

Running(r) == req[r].at <= Len(Statements)
Quiet == \A r \in Slots : ~Running(r)

\* update_volume, bulk_mark_for_series: which statements a request comes to.
Applies(q, s) ==
    CASE s \in {"read", "update"}         -> q.kind \in {"patch", "bulk"}
      [] s = "close"                      -> q.back # {}
      [] s \in {"progress", "progressed"} -> q.read # "keep"
      [] s \in {"loan", "lend"}           -> q.loan # "keep"
      [] s \in {"look", "want"}           -> q.want # "keep"
      [] s \in {"count", "write"}         -> q.flip

\* The request moves on to its next statement after the i-th.
Onward(q, i) ==
    LET later == {j \in (i + 1)..Len(Statements) : Applies(q, Statements[j])}
    IN [q EXCEPT !.at = IF later = {} THEN Len(Statements) + 1
                        ELSE CHOOSE j \in later : \A k \in later : j <= k]

-----------------------------------------------------------------------------
TypeOK ==
    /\ vols \in [Vols -> SUBSET Flags]
    /\ \A v \in Vols : vols[v] # {} => "here" \in vols[v]
    /\ open \in [Vols -> Nat] /\ adrift \subseteq Vols
    /\ lib \in [total : 0..Last, count : 0..Last, status : Statuses, finished : BOOLEAN]
    /\ req \in [Slots -> Request]
    /\ requests \in 0..MaxRequests
    /\ countOff \in BOOLEAN /\ statusOff \in BOOLEAN
    /\ ledgerOff \subseteq Vols /\ goneLent \subseteq Vols /\ rowOff \subseteq Vols

\* add_to_user_library: total rows, of which the first `owned` are owned.
Init ==
    \E total \in Vols : \E owned \in 0..total :
        /\ vols = [v \in Vols |-> IF v > total THEN {}
                                  ELSE IF v > owned THEN {"here", "wanted"}
                                  ELSE {"here", "wanted", "owned"}]
        /\ lib = [total |-> total, count |-> owned, status |-> "none", finished |-> FALSE]
        /\ open = [v \in Vols |-> 0] /\ adrift = {}
        /\ req = [r \in Slots |-> Idle]
        /\ requests = 0
        /\ countOff = FALSE /\ statusOff = FALSE /\ ledgerOff = {} /\ goneLent = {}
        /\ rowOff = {}

-----------------------------------------------------------------------------
(* Requests made of several statements *)

\* A request needs a slot; those that are one transaction leave it at once.
Arrives(r) ==
    /\ ~Running(r)
    /\ requests < MaxRequests
    /\ requests' = requests + 1

Ask(r, q) ==
    /\ Arrives(r)
    /\ req' = [req EXCEPT ![r] = Onward(q, 0)]
    /\ UNCHANGED <<vols, open, adrift, lib, history>>

\* PATCH /volume: `owned` is always sent.
Patch(r) == \E v \in Having("here"), own \in {"yes", "no"}, read, loan, want \in Asks :
    Ask(r, [Idle EXCEPT !.v = v, !.own = own, !.read = read, !.loan = loan, !.want = want])

Bulk(r) == \E own, read \in Asks :
    /\ own # "keep" \/ read # "keep"
    /\ Ask(r, [Idle EXCEPT !.kind = "bulk", !.own = own, !.read = read, !.flip = own # "keep"])

\* set_loan and set_physical_copy of ops/volume.rs, for the agents.
Loan(r) == \E v \in Having("here"), loan \in {"yes", "no"} :
    Ask(r, [Idle EXCEPT !.kind = "loan", !.v = v, !.loan = loan])
Want(r) == \E v \in Having("here"), want \in {"yes", "no"} :
    Ask(r, [Idle EXCEPT !.kind = "want", !.v = v, !.want = want])

\* The i-th statement of r's request is done, leaving the request as q.
Did(r, s, q) ==
    /\ Running(r) /\ At(req[r].at) = s
    /\ req' = [req EXCEPT ![r] = Onward(q, q.at)]
    /\ UNCHANGED requests

\* The row a PATCH will go by, coerced if it is upcoming; the tomes a bulk
\* mark will have to see returned.
ReadRow(r) ==
    LET q == req[r]
        row == vols[q.v]
        own == IF "coming" \in row THEN "no" ELSE q.own
        back == IF {"owned", "lent"} \subseteq row /\ own = "no" THEN {q.v} ELSE {}
    IN /\ Did(r, "read",
              IF q.kind = "bulk"
              THEN [q EXCEPT !.back = IF q.own = "no" THEN Having("owned") \cap Having("lent")
                                      ELSE {}]
              ELSE [q EXCEPT !.row = row, !.own = own, !.back = back,
                             !.read = IF "coming" \in row THEN "no" ELSE @,
                             !.flip = "here" \in row /\ (("owned" \in row) # (own = "yes"))])
       /\ UNCHANGED <<vols, open, adrift, lib, history>>

\* auto_clear_loan_if_unown, on the row as it was read.
Unlent(row, q) ==
    IF q.own = "no" /\ (q.kind = "bulk" \/ "owned" \in q.row) THEN row \ {"lent"} ELSE row

MutPatched(row, q) == With(With(row, "owned", q.own), "read", q.read)

\* A row after the UPDATE of a PATCH.
Patched(row, q) ==
    LET set == Unlent(With(With(row, "owned", q.own), "read", q.read), q)
    IN IF q.own = "yes" THEN set \union {"wanted"} ELSE set

\* A row after the UPDATE of a bulk mark, which does not touch `wanted`.
Marked(row, q) == Unlent(With(With(row, "owned", q.own), "read", q.read), q)

Update(r) ==
    LET q == req[r]
        hit == IF q.kind = "bulk" THEN Released ELSE {q.v} \cap Having("here")
    IN /\ Did(r, "update", q)
       /\ vols' = [v \in Vols |-> IF v \notin hit THEN vols[v]
                                  ELSE IF q.kind = "bulk" THEN Marked(vols[v], q)
                                  ELSE Patched(vols[v], q)]
       /\ rowOff' = IF q.kind = "patch" THEN rowOff \ hit
                    ELSE IF q.own = "yes" THEN rowOff \union (hit \ Having("wanted"))
                    ELSE rowOff
       /\ UNCHANGED <<open, adrift, lib, countOff, ledgerOff, goneLent, statusOff>>

\* close_open, one volume at a time, an announced one included that the UPDATE
\* of a bulk mark left lent.
Close(r, v) ==
    LET q == [req[r] EXCEPT !.back = @ \ {v}]
    IN /\ v \in req[r].back
       /\ Did(r, "close", IF q.back = {} THEN q ELSE [q EXCEPT !.at = @ - 1])
       /\ open' = [open EXCEPT ![v] = 0]
       /\ ledgerOff' = IF "lent" \in vols[v] THEN ledgerOff \union {v} ELSE ledgerOff \ {v}
       /\ UNCHANGED <<vols, adrift, lib, countOff, goneLent, rowOff, statusOff>>

\* refresh_reading_progress: the library row and the count, then the write.
Progress(r) ==
    /\ Did(r, "progress",
           [req[r] EXCEPT !.next = NextReading(lib.status, lib.finished,
                              Cardinality(Having("read")), lib.total)])
    /\ UNCHANGED <<vols, open, adrift, lib, history>>

Progressed(r) ==
    /\ Did(r, "progressed", req[r])
    /\ lib' = [lib EXCEPT !.status = req[r].next[1], !.finished = req[r].next[2]]
    /\ statusOff' = FALSE
    /\ UNCHANGED <<vols, open, adrift, countOff, ledgerOff, goneLent, rowOff>>

\* set_loan is one transaction, at read committed: what it read may be stale
\* by the time it writes.  Lending needs a released volume that is owned.
LookAtLoan(r) ==
    LET q == req[r]
        row == vols[q.v]
    IN /\ Did(r, "loan",
              IF "here" \notin row \/ (q.loan = "yes" /\ ("owned" \notin row \/ "coming" \in row))
              THEN [q EXCEPT !.at = 11, !.flip = FALSE]
              ELSE [q EXCEPT !.row = row])
       /\ countOff' = (countOff \/ (q.flip /\ At(req'[r].at) = "done"))
       /\ UNCHANGED <<vols, open, adrift, lib, ledgerOff, goneLent, rowOff, statusOff>>

MutLedger(q, n) == IF q.loan = "yes" THEN n + 1 ELSE 0

\* record_lend on the first loan, update_open on the next, close_open on a return.
Ledger(q, n) == CASE q.loan = "yes" /\ "lent" \notin q.row -> n + 1
                  [] q.loan = "no" /\ "lent" \in q.row     -> 0
                  [] OTHER                                 -> n

Lend(r) ==
    LET q == req[r]
    IN /\ Did(r, "lend", q)
       /\ vols' = [vols EXCEPT ![q.v] = IF "here" \in @ THEN With(@, "lent", q.loan) ELSE @]
       /\ open' = [open EXCEPT ![q.v] = Ledger(q, @)]
       /\ ledgerOff' = IF q.loan = "no" /\ "lent" \in q.row THEN ledgerOff \ {q.v} ELSE ledgerOff
       /\ UNCHANGED <<adrift, lib, countOff, goneLent, rowOff, statusOff>>

\* set_physical_details, as far as `wanted` goes: an owned volume stays wanted.
LookAtRow(r) ==
    /\ Did(r, "look", [req[r] EXCEPT !.row = vols[req[r].v]])
    /\ UNCHANGED <<vols, open, adrift, lib, history>>

MutWantedNow(q) == q.want

WantedNow(q) == IF "owned" \in q.row THEN "yes" ELSE q.want

SetWanted(r) ==
    LET q == req[r]
    IN /\ Did(r, "want", q)
       /\ vols' = [vols EXCEPT ![q.v] = IF "here" \in @ THEN With(@, "wanted", WantedNow(q)) ELSE @]
       /\ UNCHANGED <<open, adrift, lib, history>>

MutRecounted == Cardinality(Having("owned") \ Having("lent"))

\* The count both recounts take.
Recounted == Cardinality(Having("owned"))

Count(r) ==
    /\ Did(r, "count", [req[r] EXCEPT !.num = Recounted])
    /\ UNCHANGED <<vols, open, adrift, lib, history>>

\* update_volumes_owned clamps to the total; the bulk mark does not.
Write(r) ==
    LET q == req[r]
    IN /\ Did(r, "write", q)
       /\ lib' = [lib EXCEPT !.count = IF q.kind = "bulk" THEN q.num ELSE Lower(q.num, lib.total)]
       /\ countOff' = FALSE
       /\ UNCHANGED <<vols, open, adrift, ledgerOff, goneLent, rowOff, statusOff>>

\* The request fails before its next statement: what it has not done is not
\* done, and sending it again will not see that it is missing.
Fail(r) ==
    LET q == req[r]
        past == q.at > 2
    IN /\ Running(r)
       /\ req' = [req EXCEPT ![r] = Idle]
       /\ countOff' = (countOff \/ (past /\ q.flip))
       /\ ledgerOff' = IF past THEN ledgerOff \union q.back ELSE ledgerOff
       /\ statusOff' = (statusOff \/ (q.at \in 3..5 /\ q.read # "keep"))
       /\ UNCHANGED <<vols, open, adrift, lib, requests, goneLent, rowOff>>

-----------------------------------------------------------------------------
(* Requests that are one transaction, and time *)

\* Volumes are removed, and nothing closes their ledger rows: volume_id is
\* ON DELETE SET NULL, so that a row not returned stays so for good, since
\* close_open looks for the volume's id.
LetGo(gone) ==
    /\ open' = [v \in Vols |-> IF v \in gone THEN 0 ELSE open[v]]
    /\ adrift' = adrift \union {v \in gone : open[v] > 0}
    /\ goneLent' = goneLent \union {v \in gone : "lent" \in vols[v] \/ v \in ledgerOff}
    /\ ledgerOff' = ledgerOff \ gone

\* apply_library_patch, volumes: rows added or removed, the count clamped.
Resize(r, total) ==
    LET gone == {v \in Vols : v > total /\ v <= lib.total}
        new == {v \in Vols : v <= total /\ v > lib.total /\ vols[v] = {}}
    IN /\ Arrives(r) /\ total # lib.total
       /\ vols' = [v \in Vols |-> IF v \in gone THEN {}
                                  ELSE IF v \in new THEN {"here", "wanted"} ELSE vols[v]]
       /\ LetGo(gone)
       /\ lib' = [lib EXCEPT !.total = total, !.count = Lower(@, total)]
       /\ countOff' = TRUE /\ statusOff' = TRUE
       /\ UNCHANGED <<req, rowOff>>

\* apply_library_patch, reading_status.
SetStatus(r, s) ==
    /\ Arrives(r) /\ s # lib.status
    /\ lib' = [lib EXCEPT !.status = s, !.finished = @ \/ s = "completed"]
    /\ statusOff' = TRUE
    /\ UNCHANGED <<vols, open, adrift, req, countOff, ledgerOff, goneLent, rowOff>>

\* start_reread
Reread(r) ==
    /\ Arrives(r)
    /\ lib.status = "completed" \/ lib.finished \/ Having("read") # {}
    /\ vols' = [v \in Vols |-> IF v \in Released THEN vols[v] \ {"read"} ELSE vols[v]]
    /\ lib' = [lib EXCEPT !.status = "reading", !.finished = FALSE]
    /\ statusOff' = TRUE
    /\ UNCHANGED <<open, adrift, req, countOff, ledgerOff, goneLent, rowOff>>

\* PATCH /library/{mal_id}/{n}: the count as a number.
SetCount(r, k) ==
    /\ Arrives(r)
    /\ lib' = [lib EXCEPT !.count = Lower(k, lib.total)]
    /\ countOff' = TRUE
    /\ UNCHANGED <<vols, open, adrift, req, ledgerOff, goneLent, rowOff, statusOff>>

MutBoxed(first, last) == first..last

\* The rows of a coffret's range; a tome the series has no row for is skipped.
Boxed(first, last) == (first..last) \cap Having("here")

\* coffret::create: every row of the range is owned, nothing else follows.
Coffret(r, first, last) ==
    LET hit == Boxed(first, last)
    IN /\ Arrives(r) /\ hit # {}
       /\ vols' = [v \in Vols |-> IF v \in hit THEN vols[v] \union {"owned"} ELSE vols[v]]
       /\ rowOff' = rowOff \union {v \in hit : "wanted" \notin vols[v] \/ "coming" \in vols[v]}
       /\ countOff' = TRUE
       /\ UNCHANGED <<open, adrift, lib, req, ledgerOff, goneLent, statusOff>>

\* add_upcoming_manually, with its check for a duplicate.
AddUpcoming(r, v) ==
    /\ Arrives(r) /\ vols[v] = {}
    /\ vols' = [vols EXCEPT ![v] = {"here", "wanted", "coming", "manual"}]
    /\ UNCHANGED <<open, adrift, lib, req, history>>

\* update_upcoming_manually gives a manual row a date in the future, released
\* or owned or not.
Redate(r, v) ==
    /\ Arrives(r) /\ "manual" \in vols[v]
    /\ vols' = [vols EXCEPT ![v] = @ \union {"coming"}]
    /\ rowOff' = IF "coming" \in vols[v] THEN rowOff ELSE rowOff \union {v}
    /\ UNCHANGED <<open, adrift, lib, req, countOff, ledgerOff, goneLent, statusOff>>

\* delete_manual_volume: neither the count, the status nor the ledger hears of it.
DeleteManual(r, v) ==
    /\ Arrives(r) /\ "manual" \in vols[v]
    /\ vols' = [vols EXCEPT ![v] = {}]
    /\ LetGo({v})
    /\ countOff' = TRUE /\ statusOff' = TRUE
    /\ UNCHANGED <<lib, req, rowOff>>

\* The release date passes.
Release(v) ==
    /\ "coming" \in vols[v]
    /\ vols' = [vols EXCEPT ![v] = @ \ {"coming"}]
    /\ UNCHANGED <<open, adrift, lib, req, requests, history>>

Next ==
    \/ \E r \in Slots :
         \/ Patch(r) \/ Bulk(r) \/ Loan(r) \/ Want(r) \/ Reread(r)
         \/ ReadRow(r) \/ Update(r) \/ Progress(r) \/ Progressed(r)
         \/ LookAtLoan(r) \/ Lend(r) \/ LookAtRow(r) \/ SetWanted(r)
         \/ Count(r) \/ Write(r) \/ Fail(r)
         \/ \E v \in Vols : Close(r, v) \/ AddUpcoming(r, v) \/ Redate(r, v)
                            \/ DeleteManual(r, v)
         \/ \E k \in 0..Last : Resize(r, k) \/ SetCount(r, k)
         \/ \E s \in Statuses : SetStatus(r, s)
         \/ \E first, last \in Vols : Coffret(r, first, last)
    \/ \E v \in Vols : Release(v)

Spec == Init /\ [][Next]_vars

-----------------------------------------------------------------------------
(* Properties *)

\* A volume that is lent is owned: un-owning returns it, and lending asks for
\* ownership (auto_clear_loan_if_unown, set_loan).
LentIsOwned == Having("lent") \subseteq Having("owned")

\* The ledger has one open row for a volume that is lent and none for one that
\* is not, but where a failed un-own left one open; and an open row that points
\* at no volume is of one that was removed while it was lent.
LedgerAgrees == Quiet =>
    /\ \A v \in Vols \ ledgerOff : open[v] = IF "lent" \in vols[v] THEN 1 ELSE 0
    /\ adrift \subseteq goneLent

\* Every loan the ledger shows as out is of a volume that is there to be
\* returned.  It does not hold: removing a lent volume leaves its row open, and
\* the ledger and its CSV list it as out, or overdue, for good.
NoLoanAdrift == adrift = {}

\* volumes_owned is the number of owned rows, up to the series' total, and any
\* flip of ownership puts it right again.
CountMatches == Quiet /\ ~countOff =>
    LET owned == Cardinality(Having("owned"))
    IN lib.count = owned \/ (owned > lib.total /\ lib.count >= lib.total)

\* An owned volume is wanted, and an announced one is neither owned, read nor
\* lent, but for rows a bulk mark, a coffret or a new date went over.
RowsCoherent == \A v \in Vols \ rowOff :
    /\ "owned" \in vols[v] => "wanted" \in vols[v]
    /\ "coming" \in vols[v] => {"owned", "read", "lent"} \cap vols[v] = {}

\* Once reads are marked the status follows them: completed, with a date, when
\* every tome is read, reading or parked when some are, neither when none is.
StatusFollows == Quiet /\ ~statusOff =>
    LET read == Cardinality(Having("read"))
    IN CASE read = 0 -> lib.status \notin {"reading", "completed"}
         [] read > 0 /\ lib.total > 0 /\ read >= lib.total -> lib.status = "completed" /\ lib.finished
         [] OTHER -> lib.status \in {"reading", "parked"}
=============================================================================
