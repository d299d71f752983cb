------------------------- MODULE VolumeServiceProofs -------------------------
(***************************************************************************)
(* Proofs about VolumeService, for any number of volumes and of requests.  *)
(* The types hold for any slots.  The derived facts hold when one request  *)
(* runs at a time: each statement finds the row as the request last read   *)
(* it, but for a release date that has passed, and what a request has      *)
(* still to put right is what it holds in hand.                            *)
(***************************************************************************)
EXTENDS VolumeService, FiniteSetTheorems, TLAPS

-----------------------------------------------------------------------------
(* The inductive invariant *)

OneSlot == \A r, s \in Slots : r = s

\* The row is as it was read, but that its release date may have passed.
Same(now, row) ==
    /\ now \ {"coming"} = row \ {"coming"}
    /\ "coming" \in now => "coming" \in row

RowIsFresh(q) ==
    q.at \in {7, 9} \/ (q.at = 2 /\ q.kind = "patch") => Same(vols[q.v], q.row)

\* Only a PATCH and a bulk mark read a row to update it.
Marks(q) == q.at \in {1, 2} => q.kind \in {"patch", "bulk"}

\* What a PATCH has worked out when it comes to its UPDATE.
ReadyToPatch(q) == q.kind = "patch" =>
    /\ q.at <= 2 => q.own # "keep"
    /\ q.at = 2 => /\ "coming" \in q.row => q.own = "no" /\ q.read = "no"
                   /\ q.flip = ("here" \in q.row /\ (("owned" \in q.row) # (q.own = "yes")))
                   /\ {"owned", "lent"} \subseteq q.row /\ q.own = "no" => q.back = {q.v}

\* And a bulk mark.
ReadyToMark(q) == q.kind = "bulk" =>
    /\ q.at <= 2 => q.flip = (q.own # "keep")
    /\ q.at = 2 /\ q.own = "no" => Having("lent") \subseteq q.back

\* A loan that goes through is of an owned, released volume.
ReadyToLend(q) == q.at = 7 =>
    /\ "here" \in q.row
    /\ q.loan # "keep"
    /\ q.loan = "yes" => "owned" \in q.row /\ "coming" \notin q.row

\* The ledger rows a request has still to close.
ToClose(q) == IF q.at > 2 THEN q.back ELSE {}

LedgerHolds(q) ==
    /\ q.at > 3 => q.back = {}
    /\ \A v \in Vols \ (ledgerOff \union ToClose(q)) :
          open[v] = IF "lent" \in vols[v] THEN 1 ELSE 0

CountIsOwned == LET owned == Cardinality(Having("owned"))
    IN lib.count = owned \/ (owned > lib.total /\ lib.count >= lib.total)

\* The count is right, or the request has it still to take.
CountHolds(q) ==
    /\ q.at = 11 => q.num = Cardinality(Having("owned"))
    /\ countOff \/ CountIsOwned \/ (q.flip /\ q.at \in 3..11)

Read == Cardinality(Having("read"))

Follows(status, finished, read, total) ==
    CASE read = 0 -> status \notin {"reading", "completed"}
      [] read > 0 /\ total > 0 /\ read >= total -> status = "completed" /\ finished
      [] OTHER -> status \in {"reading", "parked"}

\* The status follows the reads, or the request has it still to move.
StatusHolds(q) ==
    /\ q.at = 5 => q.next = NextReading(lib.status, lib.finished, Read, lib.total)
    /\ \/ statusOff \/ Follows(lib.status, lib.finished, Read, lib.total)
       \/ (q.read # "keep" /\ q.at \in 3..5)

InHand(q) == /\ RowIsFresh(q) /\ Marks(q) /\ ReadyToPatch(q) /\ ReadyToMark(q) /\ ReadyToLend(q)
             /\ LedgerHolds(q) /\ CountHolds(q) /\ StatusHolds(q)

ServiceInv == /\ TypeOK /\ LentIsOwned /\ RowsCoherent
              /\ \A r \in Slots : InHand(req[r])

\* Only a volume that was lent takes an open ledger row with it.
AdriftWasLent == adrift \subseteq goneLent

-----------------------------------------------------------------------------
(* Statements *)

LEMMA StatementsAre ==
    /\ Len(Statements) = 11
    /\ Statements[1] = "read" /\ Statements[2] = "update" /\ Statements[3] = "close"
    /\ Statements[4] = "progress" /\ Statements[5] = "progressed"
    /\ Statements[6] = "loan" /\ Statements[7] = "lend"
    /\ Statements[8] = "look" /\ Statements[9] = "want"
    /\ Statements[10] = "count" /\ Statements[11] = "write"
BY DEF Statements

\* Statements have a first one.
LEMMA FirstOf ==
    ASSUME NEW S, S \subseteq 1..11, S # {}
    PROVE  \E j \in S : \A k \in S : j <= k
<1>1. CASE S \cap 1..4 # {}
  BY <1>1
<1>2. CASE S \cap 1..4 = {} /\ S \cap 5..8 # {}
  BY <1>2
<1>3. CASE S \cap 1..8 = {}
  <2>1. S \subseteq {9, 10, 11}
    BY <1>3
  <2>2. CASE 9 \in S
    BY <2>1, <2>2
  <2>3. CASE 9 \notin S /\ 10 \in S
    BY <2>1, <2>3
  <2>4. CASE S \subseteq {11}
    <3>1. S = {11}
      BY <2>4
    <3> QED BY <3>1
  <2> QED BY <2>1, <2>2, <2>3, <2>4
<1> QED BY <1>1, <1>2, <1>3

\* A request goes on to its next statement that applies, and over none.
LEMMA OnwardSkipsNone ==
    ASSUME NEW q \in Request, NEW i \in 0..11
    PROVE  \E k \in (i + 1)..12 :
              /\ Onward(q, i) = [q EXCEPT !.at = k]
              /\ k <= 11 => Applies(q, Statements[k])
              /\ \A j \in (i + 1)..(k - 1) : ~Applies(q, Statements[j])
<1> DEFINE later == {j \in (i + 1)..Len(Statements) : Applies(q, Statements[j])}
<1>1. later = {j \in (i + 1)..11 : Applies(q, Statements[j])} /\ Len(Statements) = 11
  BY StatementsAre
<1>2. CASE later = {}
  <2>1. Onward(q, i) = [q EXCEPT !.at = 12]
    BY <1>1, <1>2 DEF Onward
  <2>2. \A j \in (i + 1)..11 : ~Applies(q, Statements[j])
    BY <1>1, <1>2
  <2>3. 12 \in (i + 1)..12 /\ ~(12 <= 11) /\ 12 - 1 = 11
    OBVIOUS
  <2> HIDE DEF later
  <2> WITNESS 12 \in (i + 1)..12
  <2> QED BY <2>1, <2>2
<1>3. CASE later # {}
  <2> DEFINE k == CHOOSE j \in later : \A m \in later : j <= m
  <2>1. Onward(q, i) = [q EXCEPT !.at = k]
    BY <1>3 DEF Onward
  <2>2. later \subseteq 1..11
    BY <1>1
  <2>3. \E j \in later : \A m \in later : j <= m
    BY <1>3, <2>2, FirstOf
  <2>4. k \in later /\ \A m \in later : k <= m
    BY <2>3
  <2> HIDE DEF k
  <2>5. k \in (i + 1)..11 /\ Applies(q, Statements[k])
    BY <1>1, <2>4
  <2>6. \A j \in (i + 1)..(k - 1) : ~Applies(q, Statements[j])
    BY <1>1, <2>4, <2>5
  <2> QED BY <2>1, <2>5, <2>6
<1> QED BY <1>2, <1>3

\* What that says of each statement: after the i-th comes the k-th.
Follow(q, i, k) ==
    /\ k \in {1, 2} => q.kind \in {"patch", "bulk"}
    /\ i < 2 /\ q.kind \in {"patch", "bulk"} => k <= 2
    /\ i = 0 => k # 2
    /\ k = 3 => q.back # {}
    /\ i < 3 /\ q.back # {} => k <= 3
    /\ k \in {4, 5} => q.read # "keep"
    /\ i < 4 /\ q.read # "keep" => k <= 4
    /\ i = 4 /\ q.read # "keep" => k = 5
    /\ k \in {6, 7} => q.loan # "keep"
    /\ i < 6 => k # 7
    /\ i < 8 => k # 9
    /\ i < 4 => k # 5
    /\ i < 10 => k # 11
    /\ i < 10 /\ q.flip => k <= 10
    /\ i = 10 /\ q.flip => k = 11

LEMMA OnwardIs ==
    ASSUME NEW q \in Request, NEW i \in 0..11
    PROVE  \E k \in (i + 1)..12 :
              /\ Onward(q, i) = [q EXCEPT !.at = k] /\ Onward(q, i) \in Request
              /\ Follow(q, i, k)
<1>1. PICK k \in (i + 1)..12 :
         /\ Onward(q, i) = [q EXCEPT !.at = k]
         /\ k <= 11 => Applies(q, Statements[k])
         /\ \A j \in (i + 1)..(k - 1) : ~Applies(q, Statements[j])
  BY OnwardSkipsNone
<1>2. [q EXCEPT !.at = k] \in Request
  BY DEF Request
<1> DEFINE A(j) == Applies(q, Statements[j])
<1>3. /\ A(1) <=> q.kind \in {"patch", "bulk"}
      /\ A(2) <=> q.kind \in {"patch", "bulk"}
      /\ A(3) <=> q.back # {}
      /\ A(4) <=> q.read # "keep"
      /\ A(5) <=> q.read # "keep"
      /\ A(6) <=> q.loan # "keep"
      /\ A(7) <=> q.loan # "keep"
      /\ A(8) <=> q.want # "keep"
      /\ A(9) <=> q.want # "keep"
      /\ A(10) <=> q.flip
      /\ A(11) <=> q.flip
  BY StatementsAre DEF Applies, Request
<1>4. (k <= 11 => A(k)) /\ \A j \in (i + 1)..(k - 1) : ~A(j)
  BY <1>1
<1> HIDE DEF A
<1>5. /\ k \in {1, 2} => q.kind \in {"patch", "bulk"}
      /\ i < 2 /\ q.kind \in {"patch", "bulk"} => k <= 2
      /\ i = 0 => k # 2
      /\ k = 3 => q.back # {}
      /\ i < 3 /\ q.back # {} => k <= 3
  BY <1>3, <1>4
<1>6. /\ k \in {4, 5} => q.read # "keep"
      /\ i < 4 /\ q.read # "keep" => k <= 4
      /\ i = 4 /\ q.read # "keep" => k = 5
      /\ k \in {6, 7} => q.loan # "keep"
      /\ i < 6 => k # 7
      /\ i < 8 => k # 9
      /\ i < 4 => k # 5
  BY <1>3, <1>4
<1>7. /\ i < 10 => k # 11
      /\ i < 10 /\ q.flip => k <= 10
      /\ i = 10 /\ q.flip => k = 11
  BY <1>3, <1>4
<1>8. Follow(q, i, k)
  BY <1>5, <1>6, <1>7 DEF Follow
<1> QED BY <1>1, <1>2, <1>8

-----------------------------------------------------------------------------
(* Types *)

LEMMA VolumesFinite ==
    \A f \in Flags : Having(f) \subseteq Vols /\ Cardinality(Having(f)) \in 0..Last
<1>1. IsFiniteSet(Vols) /\ Cardinality(Vols) = Last
  BY BoundsAssumption, FS_Interval DEF Vols
<1>2. ASSUME NEW f \in Flags PROVE Having(f) \subseteq Vols /\ Cardinality(Having(f)) \in 0..Last
  <2>1. Having(f) \subseteq Vols
    BY DEF Having
  <2>2. IsFiniteSet(Having(f)) /\ Cardinality(Having(f)) <= Last
    BY <1>1, <2>1, FS_Subset
  <2> QED BY <2>1, <2>2, FS_CardinalityType, BoundsAssumption
<1> QED BY <1>2

LEMMA IdleType == Idle \in Request /\ Idle.at = 12 /\ Idle.back = {}
<1>1. 1 \in Vols /\ 0 \in 0..Last
  BY BoundsAssumption DEF Vols
<1>2. <<"none", FALSE>> \in Statuses \X BOOLEAN
  BY DEF Statuses
<1> QED BY <1>1, <1>2 DEF Idle, Request, Asks

\* A statement that is done leaves its request a request.
LEMMA DidType ==
    ASSUME TypeOK, NEW r \in Slots, NEW s, NEW q \in Request, q.at \in 0..11, Did(r, s, q)
    PROVE  /\ req' \in [Slots -> Request] /\ requests' = requests
           /\ req'[r] = Onward(q, q.at) /\ Running(r) /\ At(req[r].at) = s
           /\ req' = [req EXCEPT ![r] = Onward(q, q.at)]
<1>1. Onward(q, q.at) \in Request
  BY OnwardIs
<1> QED BY <1>1 DEF Did, TypeOK

LEMMA RunningAt ==
    ASSUME TypeOK, NEW r \in Slots
    PROVE  /\ req[r] \in Request /\ req[r].at \in 1..12
           /\ Running(r) <=> req[r].at \in 1..11
           /\ Running(r) \/ req[r].at = 12
           /\ At(req[r].at) = "read" <=> req[r].at = 1
           /\ At(req[r].at) = "update" <=> req[r].at = 2
           /\ At(req[r].at) = "close" <=> req[r].at = 3
           /\ At(req[r].at) = "progress" <=> req[r].at = 4
           /\ At(req[r].at) = "progressed" <=> req[r].at = 5
           /\ At(req[r].at) = "loan" <=> req[r].at = 6
           /\ At(req[r].at) = "lend" <=> req[r].at = 7
           /\ At(req[r].at) = "look" <=> req[r].at = 8
           /\ At(req[r].at) = "want" <=> req[r].at = 9
           /\ At(req[r].at) = "count" <=> req[r].at = 10
           /\ At(req[r].at) = "write" <=> req[r].at = 11
<1>1. req[r] \in Request /\ req[r].at \in 1..12
  BY DEF TypeOK, Request
<1>2. Len(Statements) = 11
  BY StatementsAre
<1>3. (Running(r) <=> req[r].at \in 1..11) /\ (Running(r) \/ req[r].at = 12)
  BY <1>1, <1>2 DEF Running
<1> DEFINE k == req[r].at
<1> HIDE DEF k
<1>4. \A j \in 1..12 : At(j) = IF j = 12 THEN "done" ELSE Statements[j]
  BY <1>2 DEF At
<1>5. At(k) = IF k = 12 THEN "done" ELSE Statements[k]
  BY <1>1, <1>4 DEF k
<1>6. k \in {1, 2, 3, 4, 5, 6, 7, 8, 9, 10, 11, 12}
  BY <1>1 DEF k
<1>7. /\ At(k) = "read" <=> k = 1
      /\ At(k) = "update" <=> k = 2
      /\ At(k) = "close" <=> k = 3
      /\ At(k) = "progress" <=> k = 4
      /\ At(k) = "progressed" <=> k = 5
      /\ At(k) = "loan" <=> k = 6
      /\ At(k) = "lend" <=> k = 7
      /\ At(k) = "look" <=> k = 8
      /\ At(k) = "want" <=> k = 9
      /\ At(k) = "count" <=> k = 10
      /\ At(k) = "write" <=> k = 11
  BY <1>5, <1>6, StatementsAre
<1> QED BY <1>1, <1>3, <1>7 DEF k

\* A row that is there stays there, whatever is set in it.
LEMMA RowType ==
    ASSUME NEW row \in SUBSET Flags, "here" \in row, NEW q \in Request
    PROVE  /\ \A f \in {"owned", "read", "lent", "wanted"}, a \in Asks :
                With(row, f, a) \in SUBSET Flags /\ "here" \in With(row, f, a)
           /\ Marked(row, q) \in SUBSET Flags /\ "here" \in Marked(row, q)
           /\ Patched(row, q) \in SUBSET Flags /\ "here" \in Patched(row, q)
<1>1. \A x \in SUBSET Flags, f \in {"owned", "read", "lent", "wanted"}, a \in Asks :
         "here" \in x => With(x, f, a) \in SUBSET Flags /\ "here" \in With(x, f, a)
  BY DEF With, Flags, Asks
<1>2. q.own \in Asks /\ q.read \in Asks
  BY DEF Request
<1> DEFINE set == With(With(row, "owned", q.own), "read", q.read)
<1>3. set \in SUBSET Flags /\ "here" \in set
  BY <1>1, <1>2
<1> HIDE DEF set
<1>4. Unlent(set, q) \in SUBSET Flags /\ "here" \in Unlent(set, q)
  BY <1>3 DEF Unlent, Flags
<1>5. /\ Marked(row, q) = Unlent(set, q)
      /\ Patched(row, q) \in {Unlent(set, q), Unlent(set, q) \union {"wanted"}}
  BY DEF Marked, Patched, set
<1> QED BY <1>1, <1>4, <1>5 DEF Flags

LEMMA InitTypes == Init => TypeOK
<1> SUFFICES ASSUME Init PROVE TypeOK
  OBVIOUS
<1>1. PICK total \in Vols : \E owned \in 0..total :
        /\ vols = [v \in Vols |-> IF v > total THEN {}
                                  ELSE IF v > owned THEN {"here", "wanted"}
                                  ELSE {"here", "wanted", "owned"}]
        /\ lib = [total |-> total, count |-> owned, status |-> "none", finished |-> FALSE]
  BY DEF Init
<1>2. PICK owned \in 0..total :
        /\ vols = [v \in Vols |-> IF v > total THEN {}
                                  ELSE IF v > owned THEN {"here", "wanted"}
                                  ELSE {"here", "wanted", "owned"}]
        /\ lib = [total |-> total, count |-> owned, status |-> "none", finished |-> FALSE]
  BY <1>1
<1>3. total \in 0..Last /\ owned \in 0..Last
  BY BoundsAssumption DEF Vols
<1>4. lib \in [total : 0..Last, count : 0..Last, status : Statuses, finished : BOOLEAN]
  BY <1>2, <1>3 DEF Statuses
<1>5. \A v \in Vols : vols[v] \in {{}, {"here", "wanted"}, {"here", "wanted", "owned"}}
  BY <1>2
<1>6. vols \in [Vols -> SUBSET Flags] /\ \A v \in Vols : vols[v] # {} => "here" \in vols[v]
  <2>1. {{}, {"here", "wanted"}, {"here", "wanted", "owned"}} \subseteq SUBSET Flags
    BY DEF Flags
  <2>2. vols = [v \in Vols |-> vols[v]]
    BY <1>2
  <2> QED BY <1>5, <2>1, <2>2
<1>7. req \in [Slots -> Request]
  BY IdleType DEF Init
<1>8. open \in [Vols -> Nat] /\ adrift \subseteq Vols /\ requests \in 0..MaxRequests
  BY BoundsAssumption DEF Init
<1>9. /\ countOff \in BOOLEAN /\ statusOff \in BOOLEAN
      /\ ledgerOff \subseteq Vols /\ goneLent \subseteq Vols /\ rowOff \subseteq Vols
  BY DEF Init
<1> QED BY <1>4, <1>6, <1>7, <1>8, <1>9 DEF TypeOK

LEMMA AskTypes ==
    ASSUME TypeOK, NEW r \in Slots, Patch(r) \/ Bulk(r) \/ Loan(r) \/ Want(r)
    PROVE  /\ TypeOK' /\ UNCHANGED <<vols, open, adrift, lib, history>>
           /\ ~Running(r)
           /\ \E q \in Request :
                /\ req' = [req EXCEPT ![r] = Onward(q, 0)] /\ q.back = {}
                /\ q.kind = "patch" => q.own # "keep"
                /\ q.kind = "bulk" => q.flip = (q.own # "keep")
<1>1. \E q \in Request : /\ Ask(r, q) /\ q.back = {}
                         /\ q.kind = "patch" => q.own # "keep"
                         /\ q.kind = "bulk" => q.flip = (q.own # "keep")
  <2>0. \A v \in Having("here") : v \in Vols
    BY DEF Having
  <2>1. CASE Patch(r)
    <3>1. PICK v \in Having("here"), own \in {"yes", "no"}, read \in Asks, loan \in Asks, want \in Asks :
             Ask(r, [Idle EXCEPT !.v = v, !.own = own, !.read = read, !.loan = loan, !.want = want])
      BY <2>1 DEF Patch
    <3>2. [Idle EXCEPT !.v = v, !.own = own, !.read = read, !.loan = loan, !.want = want] \in Request
      BY <2>0, IdleType DEF Request, Asks
    <3> QED BY <3>1, <3>2, IdleType DEF Idle
  <2>2. CASE Bulk(r)
    <3>1. PICK own \in Asks, read \in Asks :
             Ask(r, [Idle EXCEPT !.kind = "bulk", !.own = own, !.read = read, !.flip = own # "keep"])
      BY <2>2 DEF Bulk
    <3>2. [Idle EXCEPT !.kind = "bulk", !.own = own, !.read = read, !.flip = own # "keep"] \in Request
      BY IdleType DEF Request, Asks
    <3> QED BY <3>1, <3>2, IdleType DEF Idle
  <2>3. CASE Loan(r)
    <3>1. PICK v \in Having("here"), loan \in {"yes", "no"} :
             Ask(r, [Idle EXCEPT !.kind = "loan", !.v = v, !.loan = loan])
      BY <2>3 DEF Loan
    <3>2. [Idle EXCEPT !.kind = "loan", !.v = v, !.loan = loan] \in Request
      BY <2>0, IdleType DEF Request, Asks
    <3> QED BY <3>1, <3>2, IdleType DEF Idle
  <2>4. CASE Want(r)
    <3>1. PICK v \in Having("here"), want \in {"yes", "no"} :
             Ask(r, [Idle EXCEPT !.kind = "want", !.v = v, !.want = want])
      BY <2>4 DEF Want
    <3>2. [Idle EXCEPT !.kind = "want", !.v = v, !.want = want] \in Request
      BY <2>0, IdleType DEF Request, Asks
    <3> QED BY <3>1, <3>2, IdleType DEF Idle
  <2> QED BY <2>1, <2>2, <2>3, <2>4
<1>2. PICK q \in Request : /\ Ask(r, q) /\ q.back = {}
                           /\ q.kind = "patch" => q.own # "keep"
                           /\ q.kind = "bulk" => q.flip = (q.own # "keep")
  BY <1>1
<1>3. /\ req' = [req EXCEPT ![r] = Onward(q, 0)] /\ ~Running(r)
      /\ requests < MaxRequests /\ requests' = requests + 1
      /\ UNCHANGED <<vols, open, adrift, lib, history>>
  BY <1>2 DEF Ask, Arrives
<1>4. Onward(q, 0) \in Request
  BY OnwardIs
<1>5. req' \in [Slots -> Request]
  BY <1>3, <1>4 DEF TypeOK
<1>6. TypeOK'
  BY <1>3, <1>5, BoundsAssumption DEF TypeOK, history
<1> QED BY <1>2, <1>3, <1>6

\* What ReadRow makes of the request.
RowRead(q) ==
    LET row == vols[q.v]
        own == IF "coming" \in row THEN "no" ELSE q.own
    IN IF q.kind = "bulk"
       THEN [q EXCEPT !.back = IF q.own = "no" THEN Having("owned") \cap Having("lent") ELSE {}]
       ELSE [q EXCEPT !.row = row, !.own = own,
                      !.back = IF {"owned", "lent"} \subseteq row /\ own = "no" THEN {q.v} ELSE {},
                      !.read = IF "coming" \in row THEN "no" ELSE @,
                      !.flip = "here" \in row /\ (("owned" \in row) # (own = "yes"))]

\* What LookAtLoan makes of it.
LoanRead(q) ==
    LET row == vols[q.v]
    IN IF "here" \notin row \/ (q.loan = "yes" /\ ("owned" \notin row \/ "coming" \in row))
       THEN [q EXCEPT !.at = 11, !.flip = FALSE]
       ELSE [q EXCEPT !.row = row]

LEMMA ReadType ==
    ASSUME TypeOK, NEW q \in Request
    PROVE  /\ RowRead(q) \in Request /\ RowRead(q).at = q.at
           /\ q.at \in 0..11 => LoanRead(q) \in Request /\ LoanRead(q).at \in {q.at, 11}
<1> DEFINE row == vols[q.v]
           own == IF "coming" \in row THEN "no" ELSE q.own
           back == IF {"owned", "lent"} \subseteq row /\ own = "no" THEN {q.v} ELSE {}
           read == IF "coming" \in row THEN "no" ELSE q.read
           flip == "here" \in row /\ (("owned" \in row) # (own = "yes"))
           backs == IF q.own = "no" THEN Having("owned") \cap Having("lent") ELSE {}
<1>1. /\ row \in SUBSET Flags /\ own \in Asks /\ back \in SUBSET Vols
      /\ read \in Asks /\ flip \in BOOLEAN /\ backs \in SUBSET Vols
  BY DEF TypeOK, Request, Asks, Having
<1>2. RowRead(q) = IF q.kind = "bulk" THEN [q EXCEPT !.back = backs]
                   ELSE [q EXCEPT !.row = row, !.own = own, !.back = back, !.read = read, !.flip = flip]
  BY DEF RowRead, Request
<1>3. LoanRead(q) = [q EXCEPT !.at = 11, !.flip = FALSE] \/ LoanRead(q) = [q EXCEPT !.row = row]
  BY DEF LoanRead
<1> HIDE DEF row, own, back, read, flip, backs
<1>4. RowRead(q) \in Request /\ RowRead(q).at = q.at
  <2>1. LET new == [q EXCEPT !.back = backs] IN new \in Request /\ new.at = q.at
    BY <1>1 DEF Request
  <2>2. LET new == [q EXCEPT !.row = row, !.own = own, !.back = back, !.read = read, !.flip = flip]
        IN  new \in Request /\ new.at = q.at
    BY <1>1 DEF Request
  <2> QED BY <1>2, <2>1, <2>2
<1>5. LoanRead(q) \in Request /\ LoanRead(q).at \in {q.at, 11}
  <2>1. LET new == [q EXCEPT !.at = 11, !.flip = FALSE] IN new \in Request /\ new.at = 11
    <3>1. ASSUME NEW k \in 1..12, NEW no \in BOOLEAN
          PROVE  LET new == [q EXCEPT !.at = k, !.flip = no] IN new \in Request /\ new.at = k
      BY DEF Request
    <3>2. 11 \in 1..12 /\ FALSE \in BOOLEAN
      OBVIOUS
    <3> QED BY <3>1, <3>2
  <2>2. LET new == [q EXCEPT !.row = row] IN new \in Request /\ new.at = q.at
    BY <1>1 DEF Request
  <2> QED BY <1>3, <2>1, <2>2
<1> QED BY <1>4, <1>5

\* The statements that only read, but for what they remember of it.
LEMMA LookTypes ==
    ASSUME TypeOK, NEW r \in Slots,
           ReadRow(r) \/ Progress(r) \/ LookAtLoan(r) \/ LookAtRow(r) \/ Count(r)
    PROVE  TypeOK'
<1> DEFINE q == req[r]
<1>0. q \in Request /\ q.at \in 1..12 /\ (Running(r) => q.at \in 1..11)
  BY RunningAt
<1>1. \E new \in Request, s \in {"read", "progress", "loan", "look", "count"} :
         new.at \in 1..11 /\ Did(r, s, new)
  <2>1. CASE ReadRow(r)
    <3>1. Did(r, "read", RowRead(q)) /\ Running(r)
      BY <2>1 DEF ReadRow, RowRead, Did
    <3> QED BY <1>0, <3>1, ReadType
  <2>2. CASE Progress(r)
    <3> DEFINE next == NextReading(lib.status, lib.finished, Cardinality(Having("read")), lib.total)
    <3>1. Did(r, "progress", [q EXCEPT !.next = next]) /\ Running(r)
      BY <2>2 DEF Progress, Did
    <3>2. next \in Statuses \X BOOLEAN
      BY DEF NextReading, TypeOK, Statuses
    <3> HIDE DEF next
    <3>3. [q EXCEPT !.next = next] \in Request /\ [q EXCEPT !.next = next].at = q.at
      BY <1>0, <3>2 DEF Request
    <3> QED BY <1>0, <3>1, <3>3
  <2>3. CASE LookAtLoan(r)
    <3>1. Did(r, "loan", LoanRead(q)) /\ Running(r)
      BY <2>3 DEF LookAtLoan, LoanRead, Did
    <3>2. LoanRead(q) \in Request /\ LoanRead(q).at \in 1..11
      BY <1>0, <3>1, ReadType
    <3> QED BY <3>1, <3>2
  <2>4. CASE LookAtRow(r)
    <3>1. Did(r, "look", [q EXCEPT !.row = vols[q.v]]) /\ Running(r)
      BY <2>4 DEF LookAtRow, Did
    <3>2. vols[q.v] \in SUBSET Flags
      BY <1>0 DEF TypeOK, Request
    <3>3. [q EXCEPT !.row = vols[q.v]] \in Request /\ [q EXCEPT !.row = vols[q.v]].at = q.at
      BY <1>0, <3>2 DEF Request
    <3> QED BY <1>0, <3>1, <3>3
  <2>5. CASE Count(r)
    <3>1. Did(r, "count", [q EXCEPT !.num = Recounted]) /\ Running(r)
      BY <2>5 DEF Count, Did
    <3>2. Recounted \in 0..Last
      BY VolumesFinite DEF Recounted, Flags
    <3>3. [q EXCEPT !.num = Recounted] \in Request /\ [q EXCEPT !.num = Recounted].at = q.at
      BY <1>0, <3>2 DEF Request
    <3> QED BY <1>0, <3>1, <3>3
  <2> QED BY <2>1, <2>2, <2>3, <2>4, <2>5
<1>2. req' \in [Slots -> Request] /\ requests' = requests
  BY <1>1, DidType
<1>3. /\ UNCHANGED <<vols, open, adrift, lib, ledgerOff, goneLent, rowOff, statusOff>>
      /\ countOff' \in BOOLEAN
  BY DEF ReadRow, Progress, LookAtLoan, LookAtRow, Count, history, TypeOK
<1> QED BY <1>2, <1>3 DEF TypeOK

\* The statements that write.
LEMMA WriteTypes ==
    ASSUME TypeOK, NEW r \in Slots,
           \/ Update(r) \/ Progressed(r) \/ Lend(r) \/ SetWanted(r) \/ Write(r) \/ Fail(r)
           \/ \E v \in Vols : Close(r, v)
    PROVE  TypeOK'
<1> DEFINE q == req[r]
<1>0. /\ q \in Request /\ q.at \in 1..12 /\ (Running(r) => q.at \in 1..11)
      /\ q.v \in Vols /\ q.next \in Statuses \X BOOLEAN /\ q.num \in 0..Last /\ q.back \subseteq Vols
      /\ q.want \in Asks /\ q.loan \in Asks
  BY RunningAt DEF Request
<1>1. ASSUME NEW s, Did(r, s, q)
      PROVE  req' \in [Slots -> Request] /\ requests' = requests
  <2>1. q.at \in 0..11
    BY <1>0, <1>1 DEF Did
  <2> QED BY <1>0, <1>1, <2>1, DidType
<1>2. CASE Update(r)
  <2> DEFINE hit == IF q.kind = "bulk" THEN Released ELSE {q.v} \cap Having("here")
  <2>1. /\ Did(r, "update", q)
        /\ vols' = [v \in Vols |-> IF v \notin hit THEN vols[v]
                                   ELSE IF q.kind = "bulk" THEN Marked(vols[v], q)
                                   ELSE Patched(vols[v], q)]
        /\ rowOff' \in {rowOff \ hit, rowOff \union (hit \ Having("wanted")), rowOff}
        /\ UNCHANGED <<open, adrift, lib, countOff, ledgerOff, goneLent, statusOff>>
    BY <1>2 DEF Update
  <2>2. hit \subseteq Vols /\ \A v \in hit : "here" \in vols[v]
    BY DEF Released, Having
  <2> HIDE DEF hit
  <2>3. \A v \in Vols : vols'[v] \in SUBSET Flags /\ (vols'[v] # {} => "here" \in vols'[v])
    <3> TAKE v \in Vols
    <3>1. CASE v \in hit
      <4>1. vols[v] \in SUBSET Flags /\ "here" \in vols[v]
        BY <2>2, <3>1 DEF TypeOK
      <4>2. vols'[v] \in {Marked(vols[v], q), Patched(vols[v], q)}
        BY <2>1, <3>1
      <4> QED BY <1>0, <4>1, <4>2, RowType
    <3>2. CASE v \notin hit
      BY <2>1, <3>2 DEF TypeOK
    <3> QED BY <3>1, <3>2
  <2>4. vols' \in [Vols -> SUBSET Flags]
    <3>1. vols' = [v \in Vols |-> vols'[v]]
      BY <2>1
    <3> QED BY <2>3, <3>1
  <2>5. rowOff' \subseteq Vols
    BY <2>1, <2>2 DEF TypeOK
  <2>6. req' \in [Slots -> Request] /\ requests' = requests
    BY <1>1, <2>1
  <2> QED BY <2>1, <2>3, <2>4, <2>5, <2>6 DEF TypeOK
<1>3. CASE Progressed(r)
  <2>1. lib' = [lib EXCEPT !.status = q.next[1], !.finished = q.next[2]]
    BY <1>3 DEF Progressed
  <2>2. q.next[1] \in Statuses /\ q.next[2] \in BOOLEAN
    BY <1>0
  <2> QED BY <1>1, <1>3, <2>1, <2>2 DEF Progressed, TypeOK
<1>4. CASE Lend(r)
  <2> DEFINE row == IF "here" \in vols[q.v] THEN With(vols[q.v], "lent", q.loan) ELSE vols[q.v]
  <2>1. vols' = [vols EXCEPT ![q.v] = row] /\ open' = [open EXCEPT ![q.v] = Ledger(q, @)]
    BY <1>4 DEF Lend, TypeOK
  <2>2. row \in SUBSET Flags /\ (row # {} => "here" \in row)
    BY <1>0, RowType DEF TypeOK
  <2>3. \A k \in Nat : Ledger(q, k) \in Nat
    BY DEF Ledger
  <2> HIDE DEF row
  <2>4. vols' \in [Vols -> SUBSET Flags] /\ \A v \in Vols : vols'[v] # {} => "here" \in vols'[v]
    BY <1>0, <2>1, <2>2 DEF TypeOK
  <2>5. open' \in [Vols -> Nat]
    BY <1>0, <2>1, <2>3 DEF TypeOK
  <2>6. ledgerOff' \subseteq Vols /\ UNCHANGED <<adrift, lib, countOff, goneLent, rowOff, statusOff>>
    BY <1>4 DEF Lend, TypeOK
  <2>7. req' \in [Slots -> Request] /\ requests' = requests
    BY <1>1, <1>4 DEF Lend
  <2> QED BY <2>4, <2>5, <2>6, <2>7 DEF TypeOK
<1>5. CASE SetWanted(r)
  <2> DEFINE row == IF "here" \in vols[q.v] THEN With(vols[q.v], "wanted", WantedNow(q)) ELSE vols[q.v]
  <2>1. vols' = [vols EXCEPT ![q.v] = row] /\ UNCHANGED <<open, adrift, lib, history>>
    BY <1>5 DEF SetWanted, TypeOK
  <2>0. WantedNow(q) \in Asks
    BY <1>0 DEF WantedNow, Asks
  <2>2. row \in SUBSET Flags /\ (row # {} => "here" \in row)
    BY <1>0, <2>0, RowType DEF TypeOK
  <2> HIDE DEF row
  <2>4. vols' \in [Vols -> SUBSET Flags] /\ \A v \in Vols : vols'[v] # {} => "here" \in vols'[v]
    BY <1>0, <2>1, <2>2 DEF TypeOK
  <2>7. req' \in [Slots -> Request] /\ requests' = requests
    BY <1>1, <1>5 DEF SetWanted
  <2> QED BY <2>1, <2>4, <2>7 DEF TypeOK, history
<1>6. CASE Write(r)
  <2>1. lib' = [lib EXCEPT !.count = IF q.kind = "bulk" THEN q.num ELSE Lower(q.num, lib.total)]
    BY <1>6 DEF Write
  <2>2. Lower(q.num, lib.total) \in 0..Last
    BY <1>0 DEF Lower, TypeOK
  <2> QED BY <1>0, <1>1, <1>6, <2>1, <2>2 DEF Write, TypeOK
<1>7. CASE Fail(r)
  <2>1. req' \in [Slots -> Request]
    BY <1>7, IdleType DEF Fail, TypeOK
  <2>2. ledgerOff' \subseteq Vols /\ countOff' \in BOOLEAN /\ statusOff' \in BOOLEAN
    BY <1>0, <1>7 DEF Fail, TypeOK
  <2> QED BY <1>7, <2>1, <2>2 DEF Fail, TypeOK
<1>8. ASSUME NEW v \in Vols, Close(r, v) PROVE TypeOK'
  <2> DEFINE new == [q EXCEPT !.back = @ \ {v}]
             last == IF new.back = {} THEN new ELSE [new EXCEPT !.at = @ - 1]
  <2>1. Did(r, "close", last)
    BY <1>8 DEF Close
  <2>2. q.at = 3
    BY <2>1, RunningAt DEF Did
  <2>3. last \in Request /\ last.at \in 2..3
    <3>1. new \in Request /\ new.at = 3
      BY <1>0, <2>2 DEF Request
    <3> HIDE DEF new
    <3> QED BY <3>1 DEF Request
  <2> HIDE DEF last
  <2>4. req' \in [Slots -> Request] /\ requests' = requests
    BY <2>1, <2>3, DidType
  <2>5. /\ open' \in [Vols -> Nat] /\ ledgerOff' \subseteq Vols
        /\ UNCHANGED <<vols, adrift, lib, countOff, goneLent, rowOff, statusOff>>
    BY <1>8 DEF Close, TypeOK
  <2> QED BY <2>4, <2>5 DEF TypeOK
<1> QED BY <1>2, <1>3, <1>4, <1>5, <1>6, <1>7, <1>8

\* The requests that are one transaction, and the passing of a release date.
LEMMA WholeTypes ==
    ASSUME TypeOK, NEW r \in Slots
    PROVE  /\ \A k \in 0..Last : Resize(r, k) \/ SetCount(r, k) => TypeOK'
           /\ \A s \in Statuses : SetStatus(r, s) => TypeOK'
           /\ Reread(r) => TypeOK'
           /\ \A first, last \in Vols : Coffret(r, first, last) => TypeOK'
           /\ \A v \in Vols : AddUpcoming(r, v) \/ Redate(r, v) \/ DeleteManual(r, v) => TypeOK'
           /\ \A v \in Vols : Release(v) => TypeOK'
<1>0. ASSUME Arrives(r) PROVE requests' \in 0..MaxRequests
  BY <1>0, BoundsAssumption DEF Arrives, TypeOK
<1>1. ASSUME NEW k \in 0..Last, Resize(r, k) PROVE TypeOK'
  <2> DEFINE gone == {v \in Vols : v > k /\ v <= lib.total}
             new == {v \in Vols : v <= k /\ v > lib.total /\ vols[v] = {}}
  <2>1. /\ vols' = [v \in Vols |-> IF v \in gone THEN {}
                                   ELSE IF v \in new THEN {"here", "wanted"} ELSE vols[v]]
        /\ LetGo(gone)
        /\ lib' = [lib EXCEPT !.total = k, !.count = Lower(@, k)]
        /\ countOff' = TRUE /\ statusOff' = TRUE
        /\ UNCHANGED <<req, rowOff>> /\ gone \subseteq Vols
    BY <1>1 DEF Resize
  <2> HIDE DEF gone, new
  <2>2. {"here", "wanted"} \in SUBSET Flags
    BY DEF Flags
  <2>3. vols' \in [Vols -> SUBSET Flags] /\ \A v \in Vols : vols'[v] # {} => "here" \in vols'[v]
    BY <2>1, <2>2 DEF TypeOK
  <2>4. /\ open' \in [Vols -> Nat]
        /\ adrift' \subseteq Vols /\ ledgerOff' \subseteq Vols /\ goneLent' \subseteq Vols
    BY <2>1 DEF LetGo, TypeOK
  <2>5. lib' \in [total : 0..Last, count : 0..Last, status : Statuses, finished : BOOLEAN]
    BY <2>1 DEF Lower, TypeOK
  <2>6. requests' \in 0..MaxRequests
    BY <1>0, <1>1 DEF Resize
  <2> QED BY <2>1, <2>3, <2>4, <2>5, <2>6 DEF TypeOK
<1>2. ASSUME NEW k \in 0..Last, SetCount(r, k) PROVE TypeOK'
  <2>1. lib' \in [total : 0..Last, count : 0..Last, status : Statuses, finished : BOOLEAN]
    BY <1>2 DEF SetCount, Lower, TypeOK
  <2> QED BY <1>0, <1>2, <2>1 DEF SetCount, TypeOK
<1>3. ASSUME NEW s \in Statuses, SetStatus(r, s) PROVE TypeOK'
  <2>1. lib' \in [total : 0..Last, count : 0..Last, status : Statuses, finished : BOOLEAN]
    BY <1>3 DEF SetStatus, TypeOK
  <2> QED BY <1>0, <1>3, <2>1 DEF SetStatus, TypeOK
<1>4. ASSUME Reread(r) PROVE TypeOK'
  <2>1. vols' = [v \in Vols |-> IF v \in Released THEN vols[v] \ {"read"} ELSE vols[v]]
    BY <1>4 DEF Reread
  <2>2. vols' \in [Vols -> SUBSET Flags] /\ \A v \in Vols : vols'[v] # {} => "here" \in vols'[v]
    BY <2>1 DEF TypeOK
  <2>3. lib' \in [total : 0..Last, count : 0..Last, status : Statuses, finished : BOOLEAN]
    BY <1>4 DEF Reread, TypeOK, Statuses
  <2> QED BY <1>0, <1>4, <2>2, <2>3 DEF Reread, TypeOK
<1>5. ASSUME NEW first \in Vols, NEW last \in Vols, Coffret(r, first, last) PROVE TypeOK'
  <2> DEFINE hit == Boxed(first, last)
  <2>1. /\ vols' = [v \in Vols |-> IF v \in hit THEN vols[v] \union {"owned"} ELSE vols[v]]
        /\ rowOff' = rowOff \union {v \in hit : "wanted" \notin vols[v] \/ "coming" \in vols[v]}
        /\ countOff' = TRUE /\ UNCHANGED <<open, adrift, lib, req, ledgerOff, goneLent, statusOff>>
    BY <1>5 DEF Coffret
  <2>2. hit \subseteq Vols /\ \A v \in hit : "here" \in vols[v]
    BY DEF Boxed, Having
  <2> HIDE DEF hit
  <2>3. vols' \in [Vols -> SUBSET Flags] /\ \A v \in Vols : vols'[v] # {} => "here" \in vols'[v]
    BY <2>1, <2>2 DEF TypeOK, Flags
  <2>4. rowOff' \subseteq Vols
    BY <2>1, <2>2 DEF TypeOK
  <2>5. requests' \in 0..MaxRequests
    BY <1>0, <1>5 DEF Coffret
  <2> QED BY <2>1, <2>3, <2>4, <2>5 DEF TypeOK
<1>6. ASSUME NEW v \in Vols, AddUpcoming(r, v) \/ Redate(r, v) \/ DeleteManual(r, v) PROVE TypeOK'
  <2>1. \E row \in SUBSET Flags : vols' = [vols EXCEPT ![v] = row] /\ (row # {} => "here" \in row)
    <3>1. CASE AddUpcoming(r, v)
      BY <3>1 DEF AddUpcoming, Flags
    <3>2. CASE Redate(r, v)
      <4>1. vols' = [vols EXCEPT ![v] = vols[v] \union {"coming"}] /\ "manual" \in vols[v]
        BY <3>2 DEF Redate, TypeOK
      <4>2. vols[v] \union {"coming"} \in SUBSET Flags /\ "here" \in vols[v]
        BY <4>1 DEF TypeOK, Flags
      <4> QED BY <4>1, <4>2
    <3>3. CASE DeleteManual(r, v)
      BY <3>3 DEF DeleteManual
    <3> QED BY <1>6, <3>1, <3>2, <3>3
  <2>2. vols' \in [Vols -> SUBSET Flags] /\ \A w \in Vols : vols'[w] # {} => "here" \in vols'[w]
    BY <2>1 DEF TypeOK
  <2>3. /\ open' \in [Vols -> Nat]
        /\ adrift' \subseteq Vols /\ ledgerOff' \subseteq Vols /\ goneLent' \subseteq Vols
    BY <1>6 DEF AddUpcoming, Redate, DeleteManual, LetGo, TypeOK, history
  <2>4. requests' \in 0..MaxRequests
    BY <1>0, <1>6 DEF AddUpcoming, Redate, DeleteManual
  <2>5. /\ UNCHANGED <<lib, req>> /\ rowOff' \subseteq Vols
        /\ countOff' \in BOOLEAN /\ statusOff' \in BOOLEAN
    BY <1>6 DEF AddUpcoming, Redate, DeleteManual, TypeOK, history
  <2> QED BY <2>2, <2>3, <2>4, <2>5 DEF TypeOK
<1>7. ASSUME NEW v \in Vols, Release(v) PROVE TypeOK'
  <2>1. vols' = [vols EXCEPT ![v] = vols[v] \ {"coming"}]
    BY <1>7 DEF Release, TypeOK
  <2>2. vols' \in [Vols -> SUBSET Flags] /\ \A w \in Vols : vols'[w] # {} => "here" \in vols'[w]
    BY <2>1 DEF TypeOK
  <2> QED BY <1>7, <2>2 DEF Release, TypeOK, history
<1> QED BY <1>1, <1>2, <1>3, <1>4, <1>5, <1>6, <1>7

LEMMA StepTypes == TypeOK /\ [Next]_vars => TypeOK'
<1> SUFFICES ASSUME TypeOK, [Next]_vars PROVE TypeOK'
  OBVIOUS
<1>1. ASSUME NEW r \in Slots, Patch(r) \/ Bulk(r) \/ Loan(r) \/ Want(r) PROVE TypeOK'
  BY <1>1, AskTypes
<1>2. ASSUME NEW r \in Slots, ReadRow(r) \/ Progress(r) \/ LookAtLoan(r) \/ LookAtRow(r) \/ Count(r)
      PROVE  TypeOK'
  BY <1>2, LookTypes
<1>3. ASSUME NEW r \in Slots,
             Update(r) \/ Progressed(r) \/ Lend(r) \/ SetWanted(r) \/ Write(r) \/ Fail(r)
      PROVE  TypeOK'
  BY <1>3, WriteTypes
<1>4. ASSUME NEW r \in Slots, NEW v \in Vols, Close(r, v) PROVE TypeOK'
  BY <1>4, WriteTypes
<1>5. ASSUME NEW r \in Slots, NEW v \in Vols, AddUpcoming(r, v) \/ Redate(r, v) \/ DeleteManual(r, v)
      PROVE  TypeOK'
  BY <1>5, WholeTypes
<1>6. ASSUME NEW r \in Slots, NEW k \in 0..Last, Resize(r, k) \/ SetCount(r, k) PROVE TypeOK'
  BY <1>6, WholeTypes
<1>7. ASSUME NEW r \in Slots, NEW s \in Statuses, SetStatus(r, s) PROVE TypeOK'
  BY <1>7, WholeTypes
<1>8. ASSUME NEW r \in Slots, NEW first \in Vols, NEW last \in Vols, Coffret(r, first, last)
      PROVE  TypeOK'
  BY <1>8, WholeTypes
<1>9. ASSUME NEW r \in Slots, Reread(r) PROVE TypeOK'
  BY <1>9, WholeTypes
<1>10. ASSUME NEW v \in Vols, Release(v) PROVE TypeOK'
  BY <1>10, WholeTypes, BoundsAssumption
<1>11. CASE UNCHANGED vars
  BY <1>11 DEF vars, history, TypeOK
<1> QED BY <1>1, <1>2, <1>3, <1>4, <1>5, <1>6, <1>7, <1>8, <1>9, <1>10, <1>11 DEF Next

\* Rows, requests and their statements keep their types, for any slots.
THEOREM TypeCorrect == Spec => []TypeOK
BY InitTypes, StepTypes, PTL DEF Spec

-----------------------------------------------------------------------------
(* Rows after an UPDATE, and the facts derived from them *)

\* What an UPDATE makes of each flag.
LEMMA FlagsAfter ==
    ASSUME NEW row \in SUBSET Flags, NEW q \in Request
    PROVE  /\ \A new \in {Marked(row, q), Patched(row, q)} :
                /\ "owned" \in new <=> q.own = "yes" \/ (q.own = "keep" /\ "owned" \in row)
                /\ "read" \in new <=> q.read = "yes" \/ (q.read = "keep" /\ "read" \in row)
                /\ "lent" \in new <=> /\ "lent" \in row
                                      /\ ~(q.own = "no" /\ (q.kind = "bulk" \/ "owned" \in q.row))
                /\ "coming" \in new <=> "coming" \in row
           /\ "wanted" \in Marked(row, q) <=> "wanted" \in row
           /\ "wanted" \in Patched(row, q) <=> "wanted" \in row \/ q.own = "yes"
<1> DEFINE set == With(With(row, "owned", q.own), "read", q.read)
<1>1. q.own \in Asks /\ q.read \in Asks
  BY DEF Request
<1>2. /\ "owned" \in set <=> q.own = "yes" \/ (q.own = "keep" /\ "owned" \in row)
      /\ "read" \in set <=> q.read = "yes" \/ (q.read = "keep" /\ "read" \in row)
      /\ "lent" \in set <=> "lent" \in row
      /\ "coming" \in set <=> "coming" \in row
      /\ "wanted" \in set <=> "wanted" \in row
  BY <1>1 DEF With, Asks
<1>3. Marked(row, q) = Unlent(set, q)
  BY DEF Marked
<1>4. Patched(row, q) = IF q.own = "yes" THEN Unlent(set, q) \union {"wanted"} ELSE Unlent(set, q)
  BY DEF Patched
<1> HIDE DEF set
<1>5. Unlent(set, q) = IF q.own = "no" /\ (q.kind = "bulk" \/ "owned" \in q.row) THEN set \ {"lent"} ELSE set
  BY DEF Unlent
<1>6. \A new \in {Marked(row, q), Patched(row, q)} :
         /\ "owned" \in new <=> q.own = "yes" \/ (q.own = "keep" /\ "owned" \in row)
         /\ "read" \in new <=> q.read = "yes" \/ (q.read = "keep" /\ "read" \in row)
         /\ "lent" \in new <=> /\ "lent" \in row
                               /\ ~(q.own = "no" /\ (q.kind = "bulk" \/ "owned" \in q.row))
         /\ "coming" \in new <=> "coming" \in row
  BY <1>2, <1>3, <1>4, <1>5
<1>7. /\ "wanted" \in Marked(row, q) <=> "wanted" \in row
      /\ "wanted" \in Patched(row, q) <=> "wanted" \in row \/ q.own = "yes"
  BY <1>2, <1>3, <1>4, <1>5
<1> QED BY <1>6, <1>7

\* Where no flag f changes, the volumes that have it are the same.
LEMMA SameFlag ==
    ASSUME NEW f, \A v \in Vols : f \in vols'[v] <=> f \in vols[v]
    PROVE  Having(f)' = Having(f)
BY DEF Having

\* The status that follows the reads does follow them.
LEMMA NextFollows ==
    ASSUME NEW status, NEW finished, NEW read \in Nat, NEW total \in Nat
    PROVE  LET next == NextReading(status, finished, read, total)
           IN  Follows(next[1], next[2], read, total)
BY DEF NextReading, Follows

\* So does the count, up to the total of the series.
LEMMA CountTaken ==
    ASSUME NEW k \in Nat, NEW total \in Nat
    PROVE  Lower(k, total) = k \/ (k > total /\ Lower(k, total) >= total)
BY DEF Lower

\* A request that is done with a statement goes on as it is, but for where.
LEMMA MovesOn ==
    ASSUME TypeOK, NEW r \in Slots, NEW s, NEW q \in Request, NEW i \in 0..11, q.at = i, Did(r, s, q)
    PROVE  \E n \in Request :
              /\ req' = [req EXCEPT ![r] = n] /\ req'[r] = n
              /\ n.kind = q.kind /\ n.v = q.v /\ n.own = q.own /\ n.read = q.read
              /\ n.loan = q.loan /\ n.want = q.want /\ n.row = q.row /\ n.back = q.back
              /\ n.flip = q.flip /\ n.num = q.num /\ n.next = q.next
              /\ n.at \in (i + 1)..12 /\ Follow(q, i, n.at)
<1>1. PICK k \in (i + 1)..12 :
         /\ Onward(q, i) = [q EXCEPT !.at = k] /\ Onward(q, i) \in Request
         /\ Follow(q, i, k)
  BY OnwardIs
<1> DEFINE n == [q EXCEPT !.at = k]
<1>2. /\ n \in Request /\ n.at = k
      /\ n.kind = q.kind /\ n.v = q.v /\ n.own = q.own /\ n.read = q.read
      /\ n.loan = q.loan /\ n.want = q.want /\ n.row = q.row /\ n.back = q.back
      /\ n.flip = q.flip /\ n.num = q.num /\ n.next = q.next
  BY <1>1 DEF Request
<1>3. req' = [req EXCEPT ![r] = n] /\ req'[r] = n
  BY <1>1, DidType DEF TypeOK
<1> HIDE DEF n
<1> QED BY <1>1, <1>2, <1>3

\* With one slot, that slot is all there is to show.
LEMMA OneInHand ==
    ASSUME OneSlot, NEW r \in Slots, InHand(req[r])'
    PROVE  (\A s \in Slots : InHand(req[s]))'
BY DEF OneSlot

\* A slot that runs nothing has nothing left to put right.
LEMMA AtRest ==
    ASSUME ServiceInv, NEW r \in Slots, ~Running(r)
    PROVE  /\ req[r].at = 12 /\ req[r].back = {}
           /\ \A v \in Vols \ ledgerOff : open[v] = IF "lent" \in vols[v] THEN 1 ELSE 0
           /\ countOff \/ CountIsOwned
           /\ statusOff \/ Follows(lib.status, lib.finished, Read, lib.total)
<1>1. TypeOK /\ InHand(req[r])
  BY DEF ServiceInv
<1>2. req[r].at = 12
  BY <1>1, RunningAt
<1>3. LedgerHolds(req[r]) /\ CountHolds(req[r]) /\ StatusHolds(req[r])
  BY <1>1 DEF InHand
<1> QED BY <1>2, <1>3 DEF LedgerHolds, ToClose, CountHolds, StatusHolds

\* A request that rests at 12, on data that need nothing put right.
LEMMA RestsInHand ==
    ASSUME NEW q, q.at = 12, q.back = {},
           \A v \in Vols \ ledgerOff : open[v] = IF "lent" \in vols[v] THEN 1 ELSE 0,
           countOff \/ CountIsOwned,
           statusOff \/ Follows(lib.status, lib.finished, Read, lib.total)
    PROVE  InHand(q)
BY DEF InHand, RowIsFresh, Marks, ReadyToPatch, ReadyToMark, ReadyToLend, LedgerHolds,
       ToClose, CountHolds, StatusHolds

-----------------------------------------------------------------------------
(* The invariant, step by step *)

LEMMA InitService == Init => ServiceInv
<1> SUFFICES ASSUME Init PROVE ServiceInv
  OBVIOUS
<1>1. TypeOK
  BY InitTypes
<1>0. PICK total \in Vols : \E owned \in 0..total :
        /\ vols = [v \in Vols |-> IF v > total THEN {}
                                  ELSE IF v > owned THEN {"here", "wanted"}
                                  ELSE {"here", "wanted", "owned"}]
        /\ lib = [total |-> total, count |-> owned, status |-> "none", finished |-> FALSE]
  BY DEF Init
<1>2. PICK owned \in 0..total :
        /\ vols = [v \in Vols |-> IF v > total THEN {}
                                  ELSE IF v > owned THEN {"here", "wanted"}
                                  ELSE {"here", "wanted", "owned"}]
        /\ lib = [total |-> total, count |-> owned, status |-> "none", finished |-> FALSE]
  BY <1>0
<1>3. \A v \in Vols : vols[v] \in {{}, {"here", "wanted"}, {"here", "wanted", "owned"}}
  BY <1>2
<1>4. Having("lent") = {} /\ Having("read") = {} /\ LentIsOwned /\ RowsCoherent
  BY <1>3 DEF Having, LentIsOwned, RowsCoherent
<1>5. Having("owned") = 1..owned
  <2>1. total \in 1..Last /\ owned \in 0..Last /\ owned <= total
    BY BoundsAssumption DEF Vols
  <2>2. \A v \in Vols : "owned" \in vols[v] <=> v <= owned
    BY <1>2, <2>1 DEF Vols
  <2> QED BY <2>1, <2>2, BoundsAssumption DEF Having, Vols
<1>6. Cardinality(1..owned) = owned
  <2>1. total \in Nat /\ owned \in Nat
    BY BoundsAssumption DEF Vols
  <2> QED BY <2>1, FS_Interval
<1>7. CountIsOwned
  BY <1>2, <1>5, <1>6 DEF CountIsOwned
<1>8. Follows(lib.status, lib.finished, Read, lib.total)
  BY <1>2, <1>4, FS_EmptySet DEF Follows, Read
<1>9. \A v \in Vols : open[v] = IF "lent" \in vols[v] THEN 1 ELSE 0
  BY <1>3 DEF Init
<1>10. ASSUME NEW r \in Slots PROVE InHand(req[r])
  <2>1. req[r] = Idle
    BY DEF Init
  <2> QED BY <1>7, <1>8, <1>9, <2>1, IdleType, RestsInHand
<1> QED BY <1>1, <1>4, <1>10 DEF ServiceInv

LEMMA AskKeeps ==
    ASSUME OneSlot, ServiceInv, NEW r \in Slots, Patch(r) \/ Bulk(r) \/ Loan(r) \/ Want(r)
    PROVE  ServiceInv'
<1>1. /\ TypeOK' /\ UNCHANGED <<vols, open, lib, countOff, ledgerOff, rowOff, statusOff>>
      /\ ~Running(r) /\ TypeOK
  BY AskTypes DEF ServiceInv, history
<1>2. PICK q \in Request :
         /\ req' = [req EXCEPT ![r] = Onward(q, 0)] /\ q.back = {}
         /\ q.kind = "patch" => q.own # "keep"
         /\ q.kind = "bulk" => q.flip = (q.own # "keep")
  BY AskTypes DEF ServiceInv
<1>3. PICK k \in 1..12 : Onward(q, 0) = [q EXCEPT !.at = k] /\ Follow(q, 0, k)
  BY OnwardIs
<1> DEFINE new == [q EXCEPT !.at = k]
<1>4. req'[r] = new
  BY <1>1, <1>2, <1>3 DEF TypeOK
<1>5. /\ new.at = k /\ new.back = {} /\ new.kind = q.kind /\ new.own = q.own
      /\ new.flip = q.flip /\ new.read = q.read
  BY <1>2 DEF Request
<1>11. (k \in {1, 2} => q.kind \in {"patch", "bulk"}) /\ k \notin {2, 3, 5, 7, 9, 11}
  BY <1>2, <1>3 DEF Follow
<1> HIDE DEF new
<1>6. /\ \A v \in Vols \ ledgerOff : open[v] = IF "lent" \in vols[v] THEN 1 ELSE 0
      /\ countOff \/ CountIsOwned
      /\ statusOff \/ Follows(lib.status, lib.finished, Read, lib.total)
  BY <1>1, AtRest
<1>7. RowIsFresh(new)' /\ Marks(new)' /\ ReadyToPatch(new)' /\ ReadyToMark(new)' /\ ReadyToLend(new)'
  BY <1>2, <1>5, <1>11 DEF RowIsFresh, Marks, ReadyToPatch, ReadyToMark, ReadyToLend
<1>8. LedgerHolds(new)' /\ CountHolds(new)' /\ StatusHolds(new)'
  BY <1>1, <1>5, <1>6, <1>11 DEF LedgerHolds, ToClose, CountHolds, CountIsOwned, StatusHolds, Read, Having
<1>9. InHand(req[r])'
  BY <1>4, <1>7, <1>8 DEF InHand
<1>10. LentIsOwned' /\ RowsCoherent'
  BY <1>1 DEF ServiceInv, LentIsOwned, RowsCoherent, Having
<1> QED BY <1>1, <1>9, <1>10, OneInHand DEF ServiceInv

\* What the invariant says of the request at hand.
LEMMA AtHand ==
    ASSUME ServiceInv, NEW r \in Slots
    PROVE  /\ TypeOK /\ InHand(req[r]) /\ req[r] \in Request /\ req[r].at \in 1..12
           /\ RowIsFresh(req[r]) /\ Marks(req[r]) /\ ReadyToPatch(req[r]) /\ ReadyToMark(req[r])
           /\ ReadyToLend(req[r]) /\ LedgerHolds(req[r]) /\ CountHolds(req[r]) /\ StatusHolds(req[r])
           /\ LentIsOwned /\ RowsCoherent
BY RunningAt DEF ServiceInv, InHand

\* A step that writes no row, and neither the ledger nor the library.
LEMMA RowsKeep ==
    ASSUME ServiceInv, UNCHANGED <<vols, rowOff>>
    PROVE  LentIsOwned' /\ RowsCoherent'
BY DEF ServiceInv, LentIsOwned, RowsCoherent, Having

LEMMA ReadRowKeeps ==
    ASSUME OneSlot, ServiceInv, NEW r \in Slots, ReadRow(r)
    PROVE  ServiceInv'
<1> DEFINE q == req[r]
           x == RowRead(q)
           row == vols[q.v]
<1>1. Did(r, "read", x) /\ UNCHANGED <<vols, open, lib, countOff, ledgerOff, rowOff, statusOff>>
  BY DEF ReadRow, RowRead, history
<1>2. /\ TypeOK /\ q \in Request /\ Marks(q) /\ ReadyToPatch(q) /\ ReadyToMark(q)
      /\ LedgerHolds(q) /\ CountHolds(q) /\ StatusHolds(q) /\ LentIsOwned
  BY AtHand
<1>3. q.at = 1 /\ q.kind \in {"patch", "bulk"}
  BY <1>1, <1>2, RunningAt DEF Did, Marks
<1>4. x \in Request /\ x.at = 1 /\ x.kind = q.kind /\ x.v = q.v
  <2>1. x.kind = q.kind /\ x.v = q.v
    BY <1>2 DEF RowRead, Request
  <2> QED BY <1>2, <1>3, <2>1, ReadType
<1>5. q.kind = "patch" =>
         /\ x.row = row /\ x.own = (IF "coming" \in row THEN "no" ELSE q.own)
         /\ x.back = (IF {"owned", "lent"} \subseteq row /\ x.own = "no" THEN {q.v} ELSE {})
         /\ x.read = (IF "coming" \in row THEN "no" ELSE q.read)
         /\ x.flip = ("here" \in row /\ (("owned" \in row) # (x.own = "yes")))
  BY <1>2 DEF RowRead, Request
<1>6. q.kind = "bulk" =>
         /\ x.back = (IF q.own = "no" THEN Having("owned") \cap Having("lent") ELSE {})
         /\ x.own = q.own /\ x.flip = q.flip
  BY <1>2 DEF RowRead, Request
<1> HIDE DEF x
<1>7. PICK n \in Request :
         /\ req'[r] = n /\ n.at = 2 /\ n.kind = x.kind /\ n.v = x.v /\ n.own = x.own
         /\ n.read = x.read /\ n.row = x.row /\ n.back = x.back /\ n.flip = x.flip
  <2>1. PICK n \in Request :
           /\ req'[r] = n /\ n.kind = x.kind /\ n.v = x.v /\ n.own = x.own
           /\ n.read = x.read /\ n.row = x.row /\ n.back = x.back /\ n.flip = x.flip
           /\ n.at \in (1 + 1)..12 /\ Follow(x, 1, n.at)
    BY <1>1, <1>2, <1>4, MovesOn
  <2>2. n.at = 2
    BY <1>3, <1>4, <2>1 DEF Follow
  <2> QED BY <2>1, <2>2
<1>8. RowIsFresh(n)' /\ Marks(n)' /\ ReadyToLend(n)'
  BY <1>1, <1>3, <1>4, <1>5, <1>7 DEF RowIsFresh, Same, Marks, ReadyToLend
<1>9. ReadyToPatch(n)'
  BY <1>2, <1>3, <1>4, <1>5, <1>7 DEF ReadyToPatch
<1>10. ReadyToMark(n)'
  BY <1>1, <1>2, <1>3, <1>4, <1>6, <1>7 DEF ReadyToMark, LentIsOwned, Having
<1>11. LedgerHolds(n)' /\ CountHolds(n)' /\ StatusHolds(n)'
  BY <1>1, <1>2, <1>3, <1>7
  DEF LedgerHolds, ToClose, CountHolds, CountIsOwned, StatusHolds, Read, Having
<1>12. TypeOK'
  BY <1>2, LookTypes
<1>13. InHand(req[r])'
  BY <1>7, <1>8, <1>9, <1>10, <1>11 DEF InHand
<1> QED BY <1>1, <1>12, <1>13, RowsKeep, OneInHand DEF ServiceInv

LEMMA ProgressKeeps ==
    ASSUME OneSlot, ServiceInv, NEW r \in Slots, Progress(r)
    PROVE  ServiceInv'
<1> DEFINE q == req[r]
           next == NextReading(lib.status, lib.finished, Read, lib.total)
           x == [q EXCEPT !.next = next]
<1>1. Did(r, "progress", x) /\ UNCHANGED <<vols, open, lib, countOff, ledgerOff, rowOff, statusOff>>
  BY DEF Progress, Read, history
<1>2. /\ TypeOK /\ q \in Request /\ LedgerHolds(q) /\ CountHolds(q) /\ StatusHolds(q)
  BY AtHand
<1>3. q.at = 4
  BY <1>1, <1>2, RunningAt DEF Did
<1>4. x \in Request /\ x.at = 4 /\ x.back = q.back /\ x.flip = q.flip /\ x.read = q.read /\ x.next = next
  <2>1. next \in Statuses \X BOOLEAN
    BY <1>2 DEF NextReading, TypeOK, Statuses
  <2> HIDE DEF next
  <2> QED BY <1>2, <1>3, <2>1 DEF Request
<1> HIDE DEF x
<1>5. PICK n \in Request :
         /\ req'[r] = n /\ n.back = x.back /\ n.flip = x.flip /\ n.read = x.read /\ n.next = x.next
         /\ n.at \in (4 + 1)..12 /\ Follow(x, 4, n.at)
  BY <1>1, <1>2, <1>4, MovesOn
<1>6. /\ n.at \in 5..12 /\ n.at \notin {7, 9, 11} /\ (x.read # "keep" => n.at = 5)
      /\ x.flip => n.at <= 10
  BY <1>5 DEF Follow
<1>7. RowIsFresh(n)' /\ Marks(n)' /\ ReadyToPatch(n)' /\ ReadyToMark(n)' /\ ReadyToLend(n)'
  BY <1>6 DEF RowIsFresh, Marks, ReadyToPatch, ReadyToMark, ReadyToLend
<1>8. LedgerHolds(n)'
  BY <1>1, <1>2, <1>3, <1>4, <1>5, <1>6 DEF LedgerHolds, ToClose
<1>9. CountHolds(n)'
  BY <1>1, <1>2, <1>3, <1>4, <1>5, <1>6 DEF CountHolds, CountIsOwned, Having
<1>10. StatusHolds(n)'
  <2>1. Read' = Read
    BY <1>1 DEF Read, Having
  <2>2. n.next = NextReading(lib'.status, lib'.finished, Read', lib'.total)
    BY <1>1, <1>4, <1>5, <2>1
  <2>3. \/ statusOff' \/ Follows(lib'.status, lib'.finished, Read', lib'.total)
        \/ (n.read # "keep" /\ n.at \in 3..5)
    BY <1>1, <1>2, <1>4, <1>5, <1>6, <2>1 DEF StatusHolds
  <2> QED BY <2>2, <2>3 DEF StatusHolds
<1>11. TypeOK'
  BY <1>2, LookTypes
<1>12. InHand(req[r])'
  BY <1>5, <1>7, <1>8, <1>9, <1>10 DEF InHand
<1> QED BY <1>1, <1>11, <1>12, RowsKeep, OneInHand DEF ServiceInv

LEMMA LookAtLoanKeeps ==
    ASSUME OneSlot, ServiceInv, NEW r \in Slots, LookAtLoan(r)
    PROVE  ServiceInv'
<1> DEFINE q == req[r]
           x == LoanRead(q)
           row == vols[q.v]
           refused == "here" \notin row \/ (q.loan = "yes" /\ ("owned" \notin row \/ "coming" \in row))
<1>1. /\ Did(r, "loan", x) /\ UNCHANGED <<vols, open, lib, ledgerOff, rowOff, statusOff>>
      /\ countOff' = (countOff \/ (q.flip /\ At(req'[r].at) = "done"))
  BY DEF LookAtLoan, LoanRead
<1>2. /\ TypeOK /\ q \in Request /\ LedgerHolds(q) /\ CountHolds(q) /\ StatusHolds(q)
  BY AtHand
<1>3. q.at = 6
  BY <1>1, <1>2, RunningAt DEF Did
<1>4. /\ q.back = {}
      /\ statusOff \/ Follows(lib.status, lib.finished, Read, lib.total)
      /\ \A v \in Vols \ ledgerOff : open[v] = IF "lent" \in vols[v] THEN 1 ELSE 0
      /\ countOff \/ CountIsOwned \/ q.flip
  BY <1>2, <1>3 DEF LedgerHolds, ToClose, StatusHolds, CountHolds
<1>5. x \in Request /\ x.at \in {6, 11}
  BY <1>2, <1>3, ReadType
<1>6. x = (IF refused THEN [q EXCEPT !.at = 11, !.flip = FALSE] ELSE [q EXCEPT !.row = row])
  BY DEF LoanRead
<1>7. x.back = q.back /\ x.v = q.v /\ x.loan = q.loan
  BY <1>2, <1>6 DEF Request
<1>8. TypeOK'
  BY <1>2, LookTypes
<1>9. CASE refused
  <2>1. x.at = 11 /\ x.flip = FALSE
    BY <1>2, <1>6, <1>9 DEF Request
  <2> HIDE DEF x
  <2>2. PICK n \in Request : req'[r] = n /\ n.back = x.back /\ n.at \in (11 + 1)..12
    BY <1>1, <1>2, <1>5, <2>1, MovesOn
  <2>3. n.at = 12 /\ At(n.at) = "done"
    BY <2>2, StatementsAre DEF At
  <2>4. countOff' \/ CountIsOwned'
    BY <1>1, <1>4, <2>2, <2>3 DEF CountIsOwned, Having
  <2>5. statusOff' \/ Follows(lib'.status, lib'.finished, Read', lib'.total)
    BY <1>1, <1>4 DEF Read, Having
  <2>6. InHand(n)'
    <3>1. RowIsFresh(n)' /\ Marks(n)' /\ ReadyToPatch(n)' /\ ReadyToMark(n)' /\ ReadyToLend(n)'
      BY <2>3 DEF RowIsFresh, Marks, ReadyToPatch, ReadyToMark, ReadyToLend
    <3>2. LedgerHolds(n)'
      BY <1>1, <1>4, <1>7, <2>2, <2>3 DEF LedgerHolds, ToClose
    <3>3. CountHolds(n)' /\ StatusHolds(n)'
      BY <2>3, <2>4, <2>5 DEF CountHolds, StatusHolds
    <3> QED BY <3>1, <3>2, <3>3 DEF InHand
  <2>7. InHand(req[r])'
    BY <2>2, <2>6 DEF InHand
  <2> QED BY <1>1, <1>8, <2>7, RowsKeep, OneInHand DEF ServiceInv
<1>10. CASE ~refused
  <2>1. x.at = 6 /\ x.flip = q.flip /\ x.row = row
    <3>1. x = [q EXCEPT !.row = row]
      BY <1>6, <1>10
    <3> HIDE DEF x, row
    <3> QED BY <1>2, <1>3, <3>1 DEF Request
  <2> HIDE DEF x
  <2>2. PICK n \in Request :
           /\ req'[r] = n /\ n.back = x.back /\ n.flip = x.flip /\ n.row = x.row /\ n.v = x.v
           /\ n.loan = x.loan /\ n.at \in (6 + 1)..12 /\ Follow(x, 6, n.at)
    BY <1>1, <1>2, <1>5, <2>1, MovesOn
  <2>3. /\ n.at \in 7..12 /\ n.at \notin {9, 11} /\ (x.flip => n.at <= 10)
        /\ n.at = 7 => x.loan # "keep"
    BY <2>2 DEF Follow
  <2>4. RowIsFresh(n)' /\ Marks(n)' /\ ReadyToPatch(n)' /\ ReadyToMark(n)'
    BY <1>1, <1>7, <2>1, <2>2, <2>3 DEF RowIsFresh, Same, Marks, ReadyToPatch, ReadyToMark
  <2>5. ReadyToLend(n)'
    BY <1>7, <1>10, <2>1, <2>2, <2>3 DEF ReadyToLend
  <2>6. LedgerHolds(n)'
    BY <1>1, <1>4, <1>7, <2>2, <2>3 DEF LedgerHolds, ToClose
  <2>7. CountHolds(n)'
    <3>1. countOff => countOff'
      BY <1>1
    <3>2. CountIsOwned' = CountIsOwned
      BY <1>1 DEF CountIsOwned, Having
    <3>3. countOff' \/ CountIsOwned' \/ (n.flip /\ n.at \in 3..11)
      BY <1>4, <2>1, <2>2, <2>3, <3>1, <3>2
    <3> QED BY <2>3, <3>3 DEF CountHolds
  <2>8. StatusHolds(n)'
    BY <1>1, <1>4, <2>3 DEF StatusHolds, Read, Having
  <2>9. InHand(req[r])'
    BY <2>2, <2>4, <2>5, <2>6, <2>7, <2>8 DEF InHand
  <2> QED BY <1>1, <1>8, <2>9, RowsKeep, OneInHand DEF ServiceInv
<1> QED BY <1>9, <1>10

LEMMA LookAtRowKeeps ==
    ASSUME OneSlot, ServiceInv, NEW r \in Slots, LookAtRow(r)
    PROVE  ServiceInv'
<1> DEFINE q == req[r]
           x == [q EXCEPT !.row = vols[q.v]]
<1>1. Did(r, "look", x) /\ UNCHANGED <<vols, open, lib, countOff, ledgerOff, rowOff, statusOff>>
  BY DEF LookAtRow, history
<1>2. /\ TypeOK /\ q \in Request /\ LedgerHolds(q) /\ CountHolds(q) /\ StatusHolds(q)
  BY AtHand
<1>3. q.at = 8
  BY <1>1, <1>2, RunningAt DEF Did
<1>4. /\ x \in Request /\ x.at = 8 /\ x.back = q.back /\ x.flip = q.flip /\ x.v = q.v
      /\ x.row = vols[q.v]
  <2>1. vols[q.v] \in SUBSET Flags
    BY <1>2 DEF TypeOK, Request
  <2> QED BY <1>2, <1>3, <2>1 DEF Request
<1> HIDE DEF x
<1>5. PICK n \in Request :
         /\ req'[r] = n /\ n.back = x.back /\ n.flip = x.flip /\ n.row = x.row /\ n.v = x.v
         /\ n.at \in (8 + 1)..12 /\ Follow(x, 8, n.at)
  BY <1>1, <1>2, <1>4, MovesOn
<1>6. n.at \in 9..12 /\ n.at # 11 /\ (x.flip => n.at <= 10)
  BY <1>5 DEF Follow
<1>7. RowIsFresh(n)' /\ Marks(n)' /\ ReadyToPatch(n)' /\ ReadyToMark(n)' /\ ReadyToLend(n)'
  BY <1>1, <1>4, <1>5, <1>6 DEF RowIsFresh, Same, Marks, ReadyToPatch, ReadyToMark, ReadyToLend
<1>8. LedgerHolds(n)' /\ CountHolds(n)' /\ StatusHolds(n)'
  BY <1>1, <1>2, <1>3, <1>4, <1>5, <1>6
  DEF LedgerHolds, ToClose, CountHolds, CountIsOwned, StatusHolds, Read, Having
<1>9. TypeOK'
  BY <1>2, LookTypes
<1>10. InHand(req[r])'
  BY <1>5, <1>7, <1>8 DEF InHand
<1> QED BY <1>1, <1>9, <1>10, RowsKeep, OneInHand DEF ServiceInv

LEMMA CountKeeps ==
    ASSUME OneSlot, ServiceInv, NEW r \in Slots, Count(r)
    PROVE  ServiceInv'
<1> DEFINE q == req[r]
           x == [q EXCEPT !.num = Recounted]
<1>1. Did(r, "count", x) /\ UNCHANGED <<vols, open, lib, countOff, ledgerOff, rowOff, statusOff>>
  BY DEF Count, history
<1>2. /\ TypeOK /\ q \in Request /\ LedgerHolds(q) /\ CountHolds(q) /\ StatusHolds(q)
  BY AtHand
<1>3. q.at = 10
  BY <1>1, <1>2, RunningAt DEF Did
<1>4. x \in Request /\ x.at = 10 /\ x.back = q.back /\ x.flip = q.flip /\ x.num = Recounted
  <2>1. Recounted \in 0..Last
    BY VolumesFinite DEF Recounted, Flags
  <2> QED BY <1>2, <1>3, <2>1 DEF Request
<1> HIDE DEF x
<1>5. PICK n \in Request :
         /\ req'[r] = n /\ n.back = x.back /\ n.flip = x.flip /\ n.num = x.num
         /\ n.at \in (10 + 1)..12 /\ Follow(x, 10, n.at)
  BY <1>1, <1>2, <1>4, MovesOn
<1>6. n.at \in {11, 12} /\ (x.flip => n.at = 11)
  BY <1>5 DEF Follow
<1>7. RowIsFresh(n)' /\ Marks(n)' /\ ReadyToPatch(n)' /\ ReadyToMark(n)' /\ ReadyToLend(n)'
  BY <1>6 DEF RowIsFresh, Marks, ReadyToPatch, ReadyToMark, ReadyToLend
<1>8. LedgerHolds(n)' /\ StatusHolds(n)'
  BY <1>1, <1>2, <1>3, <1>4, <1>5, <1>6
  DEF LedgerHolds, ToClose, StatusHolds, Read, Having
<1>9. CountHolds(n)'
  <2>1. n.num = Cardinality(Having("owned")')
    BY <1>1, <1>4, <1>5 DEF Recounted, Having
  <2> QED BY <1>1, <1>2, <1>3, <1>4, <1>5, <1>6, <2>1 DEF CountHolds, CountIsOwned, Having
<1>10. TypeOK'
  BY <1>2, LookTypes
<1>11. InHand(req[r])'
  BY <1>5, <1>7, <1>8, <1>9 DEF InHand
<1> QED BY <1>1, <1>10, <1>11, RowsKeep, OneInHand DEF ServiceInv

LEMMA CloseKeeps ==
    ASSUME OneSlot, ServiceInv, NEW r \in Slots, NEW v \in Vols, Close(r, v)
    PROVE  ServiceInv'
<1> DEFINE q == req[r]
           less == [q EXCEPT !.back = @ \ {v}]
           x == IF less.back = {} THEN less ELSE [less EXCEPT !.at = @ - 1]
<1>1. /\ Did(r, "close", x) /\ open' = [open EXCEPT ![v] = 0]
      /\ ledgerOff' = (IF "lent" \in vols[v] THEN ledgerOff \union {v} ELSE ledgerOff \ {v})
      /\ UNCHANGED <<vols, lib, countOff, rowOff, statusOff>>
  BY DEF Close
<1>2. /\ TypeOK /\ q \in Request /\ LedgerHolds(q) /\ CountHolds(q) /\ StatusHolds(q)
  BY AtHand
<1>3. q.at = 3
  BY <1>1, <1>2, RunningAt DEF Did
<1>4. /\ x \in Request /\ x.back = q.back \ {v} /\ x.flip = q.flip /\ x.read = q.read
      /\ x.at = (IF q.back \ {v} = {} THEN 3 ELSE 2)
  <2>1. /\ less \in Request /\ less.back = q.back \ {v} /\ less.flip = q.flip /\ less.read = q.read
        /\ less.at = 3
    BY <1>2, <1>3 DEF Request
  <2> HIDE DEF less
  <2> QED BY <2>1 DEF Request
<1> HIDE DEF x
<1>5. PICK n \in Request :
         /\ req'[r] = n /\ n.back = x.back /\ n.flip = x.flip /\ n.read = x.read
         /\ n.at \in (x.at + 1)..12 /\ Follow(x, x.at, n.at)
  <2>1. x.at \in 0..11
    BY <1>4
  <2> QED BY <1>1, <1>2, <1>4, <2>1, MovesOn
<1>6. /\ n.at \in 3..12 /\ n.at \notin {5, 7, 9, 11} /\ (x.flip => n.at <= 10)
      /\ x.read # "keep" => n.at <= 4
      /\ n.at > 3 => x.back = {}
  BY <1>4, <1>5 DEF Follow
<1>7. RowIsFresh(n)' /\ Marks(n)' /\ ReadyToPatch(n)' /\ ReadyToMark(n)' /\ ReadyToLend(n)'
  BY <1>6 DEF RowIsFresh, Marks, ReadyToPatch, ReadyToMark, ReadyToLend
<1>8. LedgerHolds(n)'
  <2>1. n.at > 3 => n.back = {}
    BY <1>5, <1>6
  <2>2. ASSUME NEW w \in Vols, w \notin ledgerOff', w \notin n.back
        PROVE  open'[w] = IF "lent" \in vols'[w] THEN 1 ELSE 0
    <3>1. CASE w = v
      BY <1>1, <1>2, <2>2, <3>1 DEF TypeOK
    <3>2. CASE w # v
      <4>1. w \notin ledgerOff /\ w \notin q.back
        BY <1>1, <1>4, <1>5, <2>2, <3>2
      <4> QED BY <1>1, <1>2, <1>3, <3>2, <4>1 DEF LedgerHolds, ToClose, TypeOK
    <3> QED BY <3>1, <3>2
  <2>3. ToClose(n) = n.back
    BY <1>6 DEF ToClose
  <2> QED BY <2>1, <2>2, <2>3 DEF LedgerHolds, ToClose
<1>9. CountHolds(n)' /\ StatusHolds(n)'
  BY <1>1, <1>2, <1>3, <1>4, <1>5, <1>6 DEF CountHolds, CountIsOwned, StatusHolds, Read, Having
<1>10. TypeOK'
  BY <1>2, WriteTypes
<1>11. InHand(req[r])'
  BY <1>5, <1>7, <1>8, <1>9 DEF InHand
<1> QED BY <1>1, <1>10, <1>11, RowsKeep, OneInHand DEF ServiceInv

LEMMA ProgressedKeeps ==
    ASSUME OneSlot, ServiceInv, NEW r \in Slots, Progressed(r)
    PROVE  ServiceInv'
<1> DEFINE q == req[r]
<1>1. /\ Did(r, "progressed", q) /\ lib' = [lib EXCEPT !.status = q.next[1], !.finished = q.next[2]]
      /\ UNCHANGED <<vols, open, countOff, ledgerOff, rowOff>>
  BY DEF Progressed
<1>2. /\ TypeOK /\ q \in Request /\ LedgerHolds(q) /\ CountHolds(q) /\ StatusHolds(q)
  BY AtHand
<1>3. q.at = 5 /\ q.next = NextReading(lib.status, lib.finished, Read, lib.total)
  BY <1>1, <1>2, RunningAt DEF Did, StatusHolds
<1>4. lib'.total = lib.total /\ lib'.count = lib.count /\ lib'.status = q.next[1] /\ lib'.finished = q.next[2]
  BY <1>1, <1>2 DEF TypeOK
<1>5. PICK n \in Request :
         /\ req'[r] = n /\ n.back = q.back /\ n.flip = q.flip
         /\ n.at \in (5 + 1)..12 /\ Follow(q, 5, n.at)
  BY <1>1, <1>2, <1>3, MovesOn
<1>6. n.at \in 6..12 /\ n.at \notin {7, 9, 11} /\ (q.flip => n.at <= 10)
  BY <1>5 DEF Follow
<1>7. RowIsFresh(n)' /\ Marks(n)' /\ ReadyToPatch(n)' /\ ReadyToMark(n)' /\ ReadyToLend(n)'
  BY <1>6 DEF RowIsFresh, Marks, ReadyToPatch, ReadyToMark, ReadyToLend
<1>8. LedgerHolds(n)' /\ CountHolds(n)'
  BY <1>1, <1>2, <1>3, <1>4, <1>5, <1>6 DEF LedgerHolds, ToClose, CountHolds, CountIsOwned, Having
<1>9. StatusHolds(n)'
  <2>1. Read' = Read /\ Read \in Nat /\ lib.total \in Nat
    BY <1>1, <1>2, VolumesFinite, BoundsAssumption DEF Read, Having, Flags, TypeOK
  <2>2. Follows(q.next[1], q.next[2], Read, lib.total)
    BY <1>3, <2>1, NextFollows
  <2> QED BY <1>4, <1>6, <2>1, <2>2 DEF StatusHolds
<1>10. TypeOK'
  BY <1>2, WriteTypes
<1>11. InHand(req[r])'
  BY <1>5, <1>7, <1>8, <1>9 DEF InHand
<1> QED BY <1>1, <1>10, <1>11, RowsKeep, OneInHand DEF ServiceInv

LEMMA LendKeeps ==
    ASSUME OneSlot, ServiceInv, NEW r \in Slots, Lend(r)
    PROVE  ServiceInv'
<1> DEFINE q == req[r]
           now == vols[q.v]
           lent == With(now, "lent", q.loan)
<1>1. /\ Did(r, "lend", q)
      /\ vols' = [vols EXCEPT ![q.v] = IF "here" \in @ THEN With(@, "lent", q.loan) ELSE @]
      /\ open' = [open EXCEPT ![q.v] = Ledger(q, @)]
      /\ ledgerOff' = (IF q.loan = "no" /\ "lent" \in q.row THEN ledgerOff \ {q.v} ELSE ledgerOff)
      /\ UNCHANGED <<lib, countOff, rowOff, statusOff>>
  BY DEF Lend
<1>2. /\ TypeOK /\ q \in Request /\ RowIsFresh(q) /\ ReadyToLend(q)
      /\ LedgerHolds(q) /\ CountHolds(q) /\ StatusHolds(q) /\ LentIsOwned /\ RowsCoherent
  BY AtHand
<1>3. q.at = 7 /\ q.v \in Vols /\ now \in SUBSET Flags
  BY <1>1, <1>2, RunningAt DEF Did, Request, TypeOK
<1>4. /\ \A f \in Flags \ {"coming"} : f \in now <=> f \in q.row
      /\ "coming" \in now => "coming" \in q.row
  BY <1>2, <1>3 DEF RowIsFresh, Same
<1>5. /\ "here" \in now /\ q.loan \in {"yes", "no"}
      /\ q.loan = "yes" => "owned" \in now /\ "coming" \notin now
  BY <1>2, <1>3, <1>4 DEF ReadyToLend, Request, Asks, Flags
<1>6. /\ vols' = [vols EXCEPT ![q.v] = lent]
      /\ "lent" \in lent <=> q.loan = "yes"
      /\ \A f \in Flags \ {"lent"} : f \in lent <=> f \in now
  BY <1>1, <1>2, <1>3, <1>5 DEF With, TypeOK
<1> HIDE DEF lent
<1>7. \A v \in Vols : /\ v # q.v => vols'[v] = vols[v]
                      /\ v = q.v => vols'[v] = lent
  BY <1>2, <1>6 DEF TypeOK
<1>8. \A f \in Flags \ {"lent"} : \A v \in Vols : f \in vols'[v] <=> f \in vols[v]
  BY <1>6, <1>7
<1>9. Having("owned")' = Having("owned") /\ Read' = Read
  BY <1>8, SameFlag DEF Read, Flags
<1>10. LentIsOwned'
  <2>1. ASSUME NEW v \in Vols, "lent" \in vols'[v] PROVE "owned" \in vols'[v]
    BY <1>2, <1>5, <1>6, <1>7, <2>1 DEF LentIsOwned, Having, Flags
  <2> QED BY <2>1 DEF LentIsOwned, Having
<1>11. RowsCoherent'
  <2> SUFFICES ASSUME NEW v \in Vols, v \notin rowOff
               PROVE  /\ "owned" \in vols'[v] => "wanted" \in vols'[v]
                      /\ "coming" \in vols'[v] => {"owned", "read", "lent"} \cap vols'[v] = {}
    BY <1>1 DEF RowsCoherent
  <2>1. CASE v # q.v
    BY <1>2, <1>7, <2>1 DEF RowsCoherent
  <2>2. CASE v = q.v
    BY <1>2, <1>5, <1>6, <1>7, <2>2 DEF RowsCoherent, Flags
  <2> QED BY <2>1, <2>2
<1>12. PICK n \in Request :
          /\ req'[r] = n /\ n.back = q.back /\ n.flip = q.flip /\ n.read = q.read
          /\ n.at \in (7 + 1)..12 /\ Follow(q, 7, n.at)
  BY <1>1, <1>2, <1>3, MovesOn
<1>13. n.at \in 8..12 /\ n.at \notin {9, 11} /\ (q.flip => n.at <= 10)
  BY <1>12 DEF Follow
<1>14. RowIsFresh(n)' /\ Marks(n)' /\ ReadyToPatch(n)' /\ ReadyToMark(n)' /\ ReadyToLend(n)'
  BY <1>13 DEF RowIsFresh, Marks, ReadyToPatch, ReadyToMark, ReadyToLend
<1>15. LedgerHolds(n)'
  <2>1. q.back = {} /\ ToClose(q) = {}
    BY <1>2, <1>3 DEF LedgerHolds, ToClose
  <2>2. ASSUME NEW v \in Vols, v \notin ledgerOff'
        PROVE  open'[v] = IF "lent" \in vols'[v] THEN 1 ELSE 0
    <3>1. CASE v # q.v
      <4>1. v \notin ledgerOff /\ open'[v] = open[v]
        BY <1>1, <1>2, <2>2, <3>1 DEF TypeOK
      <4> QED BY <1>2, <1>7, <2>1, <3>1, <4>1 DEF LedgerHolds
    <3>2. CASE v = q.v
      <4>1. open'[v] = Ledger(q, open[v])
        BY <1>1, <1>2, <1>3, <3>2 DEF TypeOK
      <4>2. "lent" \in now <=> "lent" \in q.row
        BY <1>4 DEF Flags
      <4>3. v \in ledgerOff => q.loan = "no" /\ "lent" \in q.row
        BY <1>1, <2>2, <3>2
      <4>4. CASE v \in ledgerOff
        BY <1>6, <1>7, <3>2, <4>1, <4>3, <4>4 DEF Ledger
      <4>5. CASE v \notin ledgerOff
        <5>1. open[v] = IF "lent" \in now THEN 1 ELSE 0
          BY <1>2, <2>1, <3>2, <4>5 DEF LedgerHolds
        <5> HIDE DEF now
        <5>2. Ledger(q, open[v]) = IF q.loan = "yes" THEN 1 ELSE 0
          BY <1>5, <4>2, <5>1 DEF Ledger
        <5> QED BY <1>5, <1>6, <1>7, <3>2, <4>1, <5>2
      <4> QED BY <4>4, <4>5
    <3> QED BY <3>1, <3>2
  <2> QED BY <1>12, <2>1, <2>2 DEF LedgerHolds, ToClose
<1>16. CountHolds(n)' /\ StatusHolds(n)'
  BY <1>1, <1>2, <1>3, <1>9, <1>12, <1>13 DEF CountHolds, CountIsOwned, StatusHolds
<1>17. TypeOK'
  BY <1>2, WriteTypes
<1>18. InHand(req[r])'
  BY <1>12, <1>14, <1>15, <1>16 DEF InHand
<1> QED BY <1>10, <1>11, <1>17, <1>18, OneInHand DEF ServiceInv

LEMMA SetWantedKeeps ==
    ASSUME OneSlot, ServiceInv, NEW r \in Slots, SetWanted(r)
    PROVE  ServiceInv'
<1> DEFINE q == req[r]
           now == vols[q.v]
           row == IF "here" \in now THEN With(now, "wanted", WantedNow(q)) ELSE now
<1>1. /\ Did(r, "want", q) /\ UNCHANGED <<open, lib, countOff, ledgerOff, rowOff, statusOff>>
      /\ vols' = [vols EXCEPT ![q.v] = IF "here" \in @ THEN With(@, "wanted", WantedNow(q)) ELSE @]
  BY DEF SetWanted, history
<1>2. /\ TypeOK /\ q \in Request /\ RowIsFresh(q)
      /\ LedgerHolds(q) /\ CountHolds(q) /\ StatusHolds(q) /\ LentIsOwned /\ RowsCoherent
  BY AtHand
<1>3. q.at = 9 /\ q.v \in Vols /\ now \in SUBSET Flags
  BY <1>1, <1>2, RunningAt DEF Did, Request, TypeOK
<1>4. "owned" \in now => "owned" \in q.row
  BY <1>2, <1>3 DEF RowIsFresh, Same
<1>5. /\ vols' = [vols EXCEPT ![q.v] = row]
      /\ \A f \in Flags \ {"wanted"} : f \in row <=> f \in now
      /\ "owned" \in now /\ "wanted" \in now => "wanted" \in row
  BY <1>1, <1>2, <1>3, <1>4 DEF With, WantedNow, TypeOK
<1> HIDE DEF row
<1>6. \A v \in Vols : /\ v # q.v => vols'[v] = vols[v]
                      /\ v = q.v => vols'[v] = row
  BY <1>2, <1>5 DEF TypeOK
<1>7. \A f \in Flags \ {"wanted"} : \A v \in Vols : f \in vols'[v] <=> f \in vols[v]
  BY <1>5, <1>6
<1>8. Having("owned")' = Having("owned") /\ Having("lent")' = Having("lent") /\ Read' = Read
  BY <1>7, SameFlag DEF Read, Flags
<1>9. LentIsOwned'
  BY <1>2, <1>8 DEF LentIsOwned
<1>10. RowsCoherent'
  <2> SUFFICES ASSUME NEW v \in Vols, v \notin rowOff
               PROVE  /\ "owned" \in vols'[v] => "wanted" \in vols'[v]
                      /\ "coming" \in vols'[v] => {"owned", "read", "lent"} \cap vols'[v] = {}
    BY <1>1 DEF RowsCoherent
  <2>1. CASE v # q.v
    BY <1>2, <1>6, <2>1 DEF RowsCoherent
  <2>2. CASE v = q.v
    BY <1>2, <1>5, <1>6, <2>2 DEF RowsCoherent, Flags
  <2> QED BY <2>1, <2>2
<1>11. PICK n \in Request :
          /\ req'[r] = n /\ n.back = q.back /\ n.flip = q.flip /\ n.read = q.read
          /\ n.at \in (9 + 1)..12 /\ Follow(q, 9, n.at)
  BY <1>1, <1>2, <1>3, MovesOn
<1>12. n.at \in {10, 12} /\ (q.flip => n.at <= 10)
  BY <1>11 DEF Follow
<1>13. RowIsFresh(n)' /\ Marks(n)' /\ ReadyToPatch(n)' /\ ReadyToMark(n)' /\ ReadyToLend(n)'
  BY <1>12 DEF RowIsFresh, Marks, ReadyToPatch, ReadyToMark, ReadyToLend
<1>14. LedgerHolds(n)'
  <2>1. \A v \in Vols : "lent" \in vols'[v] <=> "lent" \in vols[v]
    BY <1>7 DEF Flags
  <2>2. q.back = {} /\ ToClose(q) = {}
    BY <1>2, <1>3 DEF LedgerHolds, ToClose
  <2>3. \A v \in Vols \ ledgerOff' : open'[v] = IF "lent" \in vols'[v] THEN 1 ELSE 0
    BY <1>1, <1>2, <2>1, <2>2 DEF LedgerHolds
  <2> QED BY <1>11, <2>2, <2>3 DEF LedgerHolds, ToClose
<1>15. CountHolds(n)' /\ StatusHolds(n)'
  BY <1>1, <1>2, <1>3, <1>8, <1>11, <1>12 DEF CountHolds, CountIsOwned, StatusHolds
<1>16. TypeOK'
  BY <1>2, WriteTypes
<1>17. InHand(req[r])'
  BY <1>11, <1>13, <1>14, <1>15 DEF InHand
<1> QED BY <1>9, <1>10, <1>16, <1>17, OneInHand DEF ServiceInv

LEMMA WriteKeeps ==
    ASSUME OneSlot, ServiceInv, NEW r \in Slots, Write(r)
    PROVE  ServiceInv'
<1> DEFINE q == req[r]
           count == IF q.kind = "bulk" THEN q.num ELSE Lower(q.num, lib.total)
<1>1. /\ Did(r, "write", q) /\ UNCHANGED <<vols, open, ledgerOff, rowOff, statusOff>>
      /\ lib' = [lib EXCEPT !.count = count] /\ countOff' = FALSE
  BY DEF Write
<1>2. /\ TypeOK /\ q \in Request /\ LedgerHolds(q) /\ CountHolds(q) /\ StatusHolds(q)
  BY AtHand
<1>3. q.at = 11 /\ q.num = Cardinality(Having("owned"))
  BY <1>1, <1>2, RunningAt DEF Did, CountHolds
<1>4. /\ lib'.count = count /\ lib'.total = lib.total /\ lib'.status = lib.status
      /\ lib'.finished = lib.finished
  BY <1>1, <1>2 DEF TypeOK
<1>5. CountIsOwned'
  <2>1. q.num \in Nat /\ lib.total \in Nat
    BY <1>2, BoundsAssumption DEF Request, TypeOK
  <2>2. count = q.num \/ (q.num > lib.total /\ count >= lib.total)
    BY <2>1, CountTaken
  <2>3. Having("owned")' = Having("owned")
    BY <1>1 DEF Having
  <2> HIDE DEF count
  <2> QED BY <1>3, <1>4, <2>2, <2>3 DEF CountIsOwned
<1>6. PICK n \in Request : req'[r] = n /\ n.back = q.back /\ n.at \in (11 + 1)..12
  BY <1>1, <1>2, <1>3, MovesOn
<1>7. n.at = 12
  BY <1>6
<1>8. RowIsFresh(n)' /\ Marks(n)' /\ ReadyToPatch(n)' /\ ReadyToMark(n)' /\ ReadyToLend(n)'
  BY <1>7 DEF RowIsFresh, Marks, ReadyToPatch, ReadyToMark, ReadyToLend
<1>9. LedgerHolds(n)' /\ CountHolds(n)' /\ StatusHolds(n)'
  BY <1>1, <1>2, <1>3, <1>4, <1>5, <1>6, <1>7
  DEF LedgerHolds, ToClose, CountHolds, StatusHolds, Read, Having
<1>10. TypeOK'
  BY <1>2, WriteTypes
<1>11. InHand(req[r])'
  BY <1>6, <1>8, <1>9 DEF InHand
<1> QED BY <1>1, <1>10, <1>11, RowsKeep, OneInHand DEF ServiceInv

LEMMA FailKeeps ==
    ASSUME OneSlot, ServiceInv, NEW r \in Slots, Fail(r)
    PROVE  ServiceInv'
<1> DEFINE q == req[r]
<1>1. /\ req' = [req EXCEPT ![r] = Idle]
      /\ countOff' = (countOff \/ (q.at > 2 /\ q.flip))
      /\ ledgerOff' = (IF q.at > 2 THEN ledgerOff \union q.back ELSE ledgerOff)
      /\ statusOff' = (statusOff \/ (q.at \in 3..5 /\ q.read # "keep"))
      /\ UNCHANGED <<vols, open, lib, rowOff>>
  BY DEF Fail
<1>2. /\ TypeOK /\ q.at \in 1..12 /\ LedgerHolds(q) /\ CountHolds(q) /\ StatusHolds(q)
  BY AtHand
<1>3. req'[r] = Idle
  BY <1>1, <1>2 DEF TypeOK
<1>4. \A v \in Vols \ ledgerOff' : open'[v] = IF "lent" \in vols'[v] THEN 1 ELSE 0
  BY <1>1, <1>2 DEF LedgerHolds, ToClose
<1>5. countOff' \/ CountIsOwned'
  <2>1. CountIsOwned' = CountIsOwned
    BY <1>1 DEF CountIsOwned, Having
  <2>2. countOff \/ CountIsOwned \/ (q.flip /\ q.at > 2)
    BY <1>2 DEF CountHolds
  <2>3. countOff \/ (q.flip /\ q.at > 2) => countOff'
    BY <1>1
  <2> QED BY <2>1, <2>2, <2>3
<1>6. statusOff' \/ Follows(lib'.status, lib'.finished, Read', lib'.total)
  <2>1. Read' = Read
    BY <1>1 DEF Read, Having
  <2> QED BY <1>1, <1>2, <2>1 DEF StatusHolds
<1>7. InHand(req[r])'
  <2>1. InHand(Idle)'
    <3>1. /\ RowIsFresh(Idle)' /\ Marks(Idle)' /\ ReadyToPatch(Idle)' /\ ReadyToMark(Idle)'
          /\ ReadyToLend(Idle)'
      BY IdleType DEF RowIsFresh, Marks, ReadyToPatch, ReadyToMark, ReadyToLend
    <3>2. LedgerHolds(Idle)' /\ CountHolds(Idle)' /\ StatusHolds(Idle)'
      BY <1>4, <1>5, <1>6, IdleType DEF LedgerHolds, ToClose, CountHolds, StatusHolds
    <3> QED BY <3>1, <3>2 DEF InHand
  <2> QED BY <1>3, <2>1 DEF InHand
<1>8. TypeOK'
  BY <1>2, WriteTypes
<1> QED BY <1>1, <1>7, <1>8, RowsKeep, OneInHand DEF ServiceInv

\* What an UPDATE leaves, of each volume it reaches and of the others.
LEMMA UpdateKeeps ==
    ASSUME OneSlot, ServiceInv, NEW r \in Slots, Update(r)
    PROVE  ServiceInv'
<1> DEFINE q == req[r]
           hit == IF q.kind = "bulk" THEN Released ELSE {q.v} \cap Having("here")
<1>1. /\ Did(r, "update", q) /\ UNCHANGED <<open, lib, countOff, ledgerOff, statusOff>>
      /\ vols' = [v \in Vols |-> IF v \notin hit THEN vols[v]
                                 ELSE IF q.kind = "bulk" THEN Marked(vols[v], q)
                                 ELSE Patched(vols[v], q)]
      /\ rowOff' = (IF q.kind = "patch" THEN rowOff \ hit
                    ELSE IF q.own = "yes" THEN rowOff \union (hit \ Having("wanted"))
                    ELSE rowOff)
  BY DEF Update
<1>2. /\ TypeOK /\ q \in Request /\ RowIsFresh(q) /\ Marks(q) /\ ReadyToPatch(q) /\ ReadyToMark(q)
      /\ LedgerHolds(q) /\ CountHolds(q) /\ StatusHolds(q) /\ LentIsOwned /\ RowsCoherent
  BY AtHand
<1>3. q.at = 2 /\ q.kind \in {"patch", "bulk"} /\ q.v \in Vols /\ q.own \in Asks /\ q.read \in Asks
  BY <1>1, <1>2, RunningAt DEF Did, Marks, Request
<1>4. /\ hit \subseteq Vols
      /\ q.kind = "bulk" => \A v \in hit : "coming" \notin vols[v]
      /\ q.kind = "patch" => \A v \in hit : v = q.v /\ "here" \in vols[v]
  BY <1>3 DEF Released, Having
<1>5. q.kind = "patch" /\ "here" \notin vols[q.v] => hit = {} /\ vols[q.v] = {}
  BY <1>2, <1>3 DEF Having, TypeOK
<1>6. q.kind = "patch" /\ "here" \in vols[q.v] => hit = {q.v}
  BY <1>3 DEF Having
<1>7. q.kind = "patch" =>
         /\ q.own # "keep"
         /\ "coming" \in q.row => q.own = "no" /\ q.read = "no"
         /\ q.flip = ("here" \in q.row /\ (("owned" \in q.row) # (q.own = "yes")))
         /\ {"owned", "lent"} \subseteq q.row /\ q.own = "no" => q.back = {q.v}
         /\ \A f \in Flags \ {"coming"} : f \in vols[q.v] <=> f \in q.row
         /\ "coming" \in vols[q.v] => "coming" \in q.row
  BY <1>2, <1>3 DEF ReadyToPatch, RowIsFresh, Same
<1>8. q.kind = "bulk" =>
         /\ q.flip = (q.own # "keep")
         /\ q.own = "no" => \A v \in Vols : "lent" \in vols[v] => v \in q.back
  BY <1>2, <1>3 DEF ReadyToMark, Having
<1>9. \A v \in Vols : "lent" \in vols[v] => "owned" \in vols[v]
  BY <1>2 DEF LentIsOwned, Having
<1> HIDE DEF hit
<1>10. \A v \in Vols \ hit : vols'[v] = vols[v]
  BY <1>1
<1>11. ASSUME NEW v \in hit
       PROVE  /\ "owned" \in vols'[v] <=> q.own = "yes" \/ (q.own = "keep" /\ "owned" \in vols[v])
              /\ "read" \in vols'[v] <=> q.read = "yes" \/ (q.read = "keep" /\ "read" \in vols[v])
              /\ "lent" \in vols'[v] <=>
                    "lent" \in vols[v] /\ ~(q.own = "no" /\ (q.kind = "bulk" \/ "owned" \in q.row))
              /\ "coming" \in vols'[v] <=> "coming" \in vols[v]
              /\ "wanted" \in vols[v] => "wanted" \in vols'[v]
              /\ q.kind = "patch" /\ q.own = "yes" => "wanted" \in vols'[v]
  <2>1. v \in Vols /\ vols[v] \in SUBSET Flags
    BY <1>2, <1>4 DEF TypeOK
  <2>2. vols'[v] = IF q.kind = "bulk" THEN Marked(vols[v], q) ELSE Patched(vols[v], q)
    BY <1>1, <2>1
  <2>3. /\ vols'[v] \in {Marked(vols[v], q), Patched(vols[v], q)}
        /\ q.kind = "patch" => vols'[v] = Patched(vols[v], q)
    BY <2>2
  <2>4. /\ "owned" \in vols'[v] <=> q.own = "yes" \/ (q.own = "keep" /\ "owned" \in vols[v])
        /\ "read" \in vols'[v] <=> q.read = "yes" \/ (q.read = "keep" /\ "read" \in vols[v])
        /\ "lent" \in vols'[v] <=>
              "lent" \in vols[v] /\ ~(q.own = "no" /\ (q.kind = "bulk" \/ "owned" \in q.row))
        /\ "coming" \in vols'[v] <=> "coming" \in vols[v]
    BY <1>2, <2>1, <2>3, FlagsAfter
  <2>5. /\ "wanted" \in vols[v] => "wanted" \in vols'[v]
        /\ q.kind = "patch" /\ q.own = "yes" => "wanted" \in vols'[v]
    <3>1. /\ "wanted" \in Marked(vols[v], q) <=> "wanted" \in vols[v]
          /\ "wanted" \in Patched(vols[v], q) <=> "wanted" \in vols[v] \/ q.own = "yes"
      BY <1>2, <2>1, FlagsAfter
    <3>2. CASE vols'[v] = Patched(vols[v], q)
      BY <3>1, <3>2
    <3>3. CASE q.kind # "patch" /\ vols'[v] = Marked(vols[v], q)
      BY <3>1, <3>3
    <3> QED BY <2>3, <3>2, <3>3
  <2> QED BY <2>4, <2>5
<1>12. LentIsOwned'
  <2>1. ASSUME NEW v \in Vols, "lent" \in vols'[v] PROVE "owned" \in vols'[v]
    <3>1. CASE v \notin hit
      BY <1>9, <1>10, <2>1, <3>1
    <3>2. CASE v \in hit
      <4>1. /\ "lent" \in vols[v] /\ "owned" \in vols[v]
            /\ ~(q.own = "no" /\ (q.kind = "bulk" \/ "owned" \in q.row))
        BY <1>9, <1>11, <2>1, <3>2
      <4>2. q.kind = "patch" => "owned" \in q.row
        BY <1>4, <1>7, <3>2, <4>1 DEF Flags
      <4>3. q.own # "no"
        BY <1>3, <4>1, <4>2
      <4> QED BY <1>3, <1>11, <3>2, <4>1, <4>3 DEF Asks
    <3> QED BY <3>1, <3>2
  <2> QED BY <2>1 DEF LentIsOwned, Having
<1>13. RowsCoherent'
  <2> SUFFICES ASSUME NEW v \in Vols, v \notin rowOff'
               PROVE  /\ "owned" \in vols'[v] => "wanted" \in vols'[v]
                      /\ "coming" \in vols'[v] => {"owned", "read", "lent"} \cap vols'[v] = {}
    BY DEF RowsCoherent
  <2>1. CASE v \notin hit
    <3>1. v \notin rowOff
      BY <1>1, <2>1
    <3> QED BY <1>2, <1>10, <2>1, <3>1 DEF RowsCoherent
  <2>2. CASE v \in hit /\ q.kind = "patch"
    <3>1. v = q.v
      BY <1>4, <2>2
    <3>2. "owned" \in vols'[v] => "wanted" \in vols'[v]
      BY <1>3, <1>7, <1>11, <2>2 DEF Asks
    <3>3. ASSUME "coming" \in vols'[v] PROVE {"owned", "read", "lent"} \cap vols'[v] = {}
      <4>1. "coming" \in q.row /\ q.own = "no" /\ q.read = "no"
        BY <1>7, <1>11, <2>2, <3>1, <3>3
      <4>2. "lent" \in vols[v] => "owned" \in q.row
        BY <1>7, <1>9, <2>2, <3>1 DEF Flags
      <4>3. "owned" \notin vols'[v] /\ "read" \notin vols'[v] /\ "lent" \notin vols'[v]
        BY <1>11, <2>2, <4>1, <4>2
      <4> QED BY <4>3
    <3> QED BY <3>2, <3>3
  <2>3. CASE v \in hit /\ q.kind = "bulk"
    <3>1. "coming" \notin vols'[v]
      BY <1>4, <1>11, <2>3
    <3>2. ASSUME "owned" \in vols'[v] PROVE "wanted" \in vols'[v]
      <4>1. CASE q.own = "yes"
        <5>1. v \in Having("wanted")
          BY <1>1, <2>3, <4>1
        <5> QED BY <1>11, <2>3, <5>1 DEF Having
      <4>2. CASE q.own # "yes"
        <5>1. "owned" \in vols[v] /\ v \notin rowOff
          BY <1>1, <1>11, <2>3, <3>2, <4>2
        <5>2. "wanted" \in vols[v]
          BY <1>2, <5>1 DEF RowsCoherent
        <5> QED BY <1>11, <2>3, <5>2
      <4> QED BY <4>1, <4>2
    <3> QED BY <3>1, <3>2
  <2> QED BY <1>3, <2>1, <2>2, <2>3
<1>14. PICK n \in Request :
          /\ req'[r] = n /\ n.back = q.back /\ n.flip = q.flip /\ n.read = q.read
          /\ n.at \in (2 + 1)..12 /\ Follow(q, 2, n.at)
  BY <1>1, <1>2, <1>3, MovesOn
<1>15. /\ n.at \in 3..12 /\ n.at \notin {5, 7, 9, 11} /\ (q.flip => n.at <= 10)
       /\ q.read # "keep" => n.at <= 4
       /\ n.at > 3 => q.back = {}
  BY <1>14 DEF Follow
<1>16. RowIsFresh(n)' /\ Marks(n)' /\ ReadyToPatch(n)' /\ ReadyToMark(n)' /\ ReadyToLend(n)'
  BY <1>15 DEF RowIsFresh, Marks, ReadyToPatch, ReadyToMark, ReadyToLend
<1>17. LedgerHolds(n)'
  <2>1. ToClose(q) = {} /\ ToClose(n) = q.back
    BY <1>3, <1>14, <1>15 DEF ToClose
  <2>2. ASSUME NEW v \in Vols, v \notin ledgerOff, v \notin q.back
        PROVE  open[v] = IF "lent" \in vols'[v] THEN 1 ELSE 0
    <3>1. "lent" \in vols'[v] <=> "lent" \in vols[v]
      <4>1. CASE v \notin hit
        BY <1>10, <4>1
      <4>2. CASE v \in hit /\ q.kind = "patch"
        <5>1. v = q.v /\ ("lent" \in vols[v] <=> "lent" \in q.row)
          BY <1>4, <1>7, <4>2 DEF Flags
        <5>2. ~("lent" \in q.row /\ q.own = "no" /\ "owned" \in q.row)
          BY <1>7, <2>2, <4>2, <5>1
        <5> QED BY <1>11, <4>2, <5>1, <5>2
      <4>3. CASE v \in hit /\ q.kind = "bulk"
        BY <1>8, <1>11, <2>2, <4>3
      <4> QED BY <1>3, <4>1, <4>2, <4>3
    <3>2. open[v] = IF "lent" \in vols[v] THEN 1 ELSE 0
      BY <1>2, <2>1, <2>2 DEF LedgerHolds
    <3> QED BY <3>1, <3>2
  <2> QED BY <1>1, <1>14, <1>15, <2>1, <2>2 DEF LedgerHolds, ToClose
<1>18. CountHolds(n)'
  <2>1. ASSUME ~q.flip PROVE Having("owned")' = Having("owned")
    <3>1. ASSUME NEW v \in Vols PROVE "owned" \in vols'[v] <=> "owned" \in vols[v]
      <4>1. CASE v \notin hit
        BY <1>10, <4>1
      <4>2. CASE v \in hit /\ q.kind = "patch"
        <5>1. v = q.v /\ "here" \in q.row /\ ("owned" \in vols[v] <=> "owned" \in q.row)
          BY <1>4, <1>7, <4>2 DEF Flags
        <5>2. q.own # "keep" /\ ("owned" \in q.row <=> q.own = "yes")
          BY <1>7, <2>1, <4>2, <5>1
        <5> QED BY <1>11, <4>2, <5>1, <5>2
      <4>3. CASE v \in hit /\ q.kind = "bulk"
        BY <1>8, <1>11, <2>1, <4>3
      <4> QED BY <1>3, <4>1, <4>2, <4>3
    <3> QED BY <3>1, SameFlag
  <2>2. countOff \/ CountIsOwned
    BY <1>2, <1>3 DEF CountHolds
  <2>3. ~q.flip => CountIsOwned' = CountIsOwned
    BY <1>1, <2>1 DEF CountIsOwned
  <2> QED BY <1>1, <1>14, <1>15, <2>2, <2>3 DEF CountHolds
<1>19. StatusHolds(n)'
  <2>1. ASSUME q.read = "keep" PROVE Read' = Read
    <3>1. ASSUME NEW v \in Vols PROVE "read" \in vols'[v] <=> "read" \in vols[v]
      BY <1>10, <1>11, <2>1
    <3> QED BY <3>1, SameFlag DEF Read
  <2>2. statusOff \/ Follows(lib.status, lib.finished, Read, lib.total)
    BY <1>2, <1>3 DEF StatusHolds
  <2>3. \/ statusOff' \/ Follows(lib'.status, lib'.finished, Read', lib'.total)
        \/ (q.read # "keep" /\ n.at \in 3..5)
    BY <1>1, <1>15, <2>1, <2>2
  <2> QED BY <1>14, <1>15, <2>3 DEF StatusHolds
<1>20. TypeOK'
  BY <1>2, WriteTypes
<1>21. InHand(req[r])'
  BY <1>14, <1>16, <1>17, <1>18, <1>19 DEF InHand
<1> QED BY <1>12, <1>13, <1>20, <1>21, OneInHand DEF ServiceInv

\* The requests that are one transaction find every slot at rest.
LEMMA WholeKeeps ==
    ASSUME OneSlot, ServiceInv, NEW r \in Slots, ~Running(r), req' = req, LentIsOwned', RowsCoherent',
           TypeOK',
           (\A v \in Vols \ ledgerOff : open[v] = IF "lent" \in vols[v] THEN 1 ELSE 0)',
           (countOff \/ CountIsOwned)',
           (statusOff \/ Follows(lib.status, lib.finished, Read, lib.total))'
    PROVE  ServiceInv'
<1>1. req'[r].at = 12 /\ req'[r].back = {}
  BY AtRest
<1>2. /\ RowIsFresh(req[r])' /\ Marks(req[r])' /\ ReadyToPatch(req[r])' /\ ReadyToMark(req[r])'
      /\ ReadyToLend(req[r])'
  BY <1>1 DEF RowIsFresh, Marks, ReadyToPatch, ReadyToMark, ReadyToLend
<1>3. LedgerHolds(req[r])' /\ CountHolds(req[r])' /\ StatusHolds(req[r])'
  BY <1>1 DEF LedgerHolds, ToClose, CountHolds, StatusHolds
<1>4. InHand(req[r])'
  BY <1>2, <1>3 DEF InHand
<1> QED BY <1>4, OneInHand DEF ServiceInv

LEMMA ResizeKeeps ==
    ASSUME OneSlot, ServiceInv, NEW r \in Slots, NEW total \in 0..Last, Resize(r, total)
    PROVE  ServiceInv'
<1> DEFINE gone == {v \in Vols : v > total /\ v <= lib.total}
           new == {v \in Vols : v <= total /\ v > lib.total /\ vols[v] = {}}
<1>1. /\ ~Running(r) /\ UNCHANGED <<req, rowOff>> /\ countOff' = TRUE /\ statusOff' = TRUE
      /\ vols' = [v \in Vols |-> IF v \in gone THEN {}
                                 ELSE IF v \in new THEN {"here", "wanted"} ELSE vols[v]]
      /\ open' = [v \in Vols |-> IF v \in gone THEN 0 ELSE open[v]]
      /\ ledgerOff' = ledgerOff \ gone
  BY DEF Resize, LetGo, Arrives
<1>2. TypeOK /\ LentIsOwned /\ RowsCoherent
  BY AtHand
<1>3. \A v \in new : vols[v] = {}
  OBVIOUS
<1> HIDE DEF gone, new
<1>4. LentIsOwned'
  BY <1>1, <1>2 DEF LentIsOwned, Having
<1>5. RowsCoherent'
  BY <1>1, <1>2 DEF RowsCoherent
<1>6. ASSUME NEW v \in Vols, v \notin ledgerOff' PROVE open'[v] = IF "lent" \in vols'[v] THEN 1 ELSE 0
  <2>1. CASE v \in gone
    BY <1>1, <2>1
  <2>2. CASE v \notin gone
    <3>1. open[v] = IF "lent" \in vols[v] THEN 1 ELSE 0
      BY <1>1, <1>6, <2>2, AtRest
    <3> QED BY <1>1, <1>3, <2>2, <3>1
  <2> QED BY <2>1, <2>2
<1>7. TypeOK'
  BY <1>2, WholeTypes
<1> QED BY <1>1, <1>4, <1>5, <1>6, <1>7, WholeKeeps

LEMMA LibraryKeeps ==
    ASSUME OneSlot, ServiceInv, NEW r \in Slots,
           \/ \E k \in 0..Last : SetCount(r, k)
           \/ \E s \in Statuses : SetStatus(r, s)
    PROVE  ServiceInv'
<1>1. /\ ~Running(r) /\ UNCHANGED <<req, vols, open, ledgerOff, rowOff>>
      /\ \/ countOff' = TRUE /\ UNCHANGED statusOff
         \/ statusOff' = TRUE /\ UNCHANGED countOff
  BY DEF SetCount, SetStatus, Arrives
<1>2. TypeOK /\ TypeOK'
  BY AtHand, WholeTypes
<1>3. countOff \/ CountIsOwned
  BY <1>1, AtRest
<1>4. statusOff \/ Follows(lib.status, lib.finished, Read, lib.total)
  BY <1>1, AtRest
<1>5. Having("owned")' = Having("owned") /\ Read' = Read
  BY <1>1 DEF Read, Having
<1>6. (countOff \/ CountIsOwned)'
  <2>1. CASE \E k \in 0..Last : SetCount(r, k)
    BY <2>1 DEF SetCount
  <2>2. CASE \E s \in Statuses : SetStatus(r, s)
    <3>1. lib'.count = lib.count /\ lib'.total = lib.total /\ countOff' = countOff
      BY <1>2, <2>2 DEF SetStatus, TypeOK
    <3> QED BY <1>3, <1>5, <3>1 DEF CountIsOwned
  <2> QED BY <2>1, <2>2
<1>7. (statusOff \/ Follows(lib.status, lib.finished, Read, lib.total))'
  <2>1. CASE \E k \in 0..Last : SetCount(r, k)
    <3>1. /\ lib'.status = lib.status /\ lib'.finished = lib.finished /\ lib'.total = lib.total
          /\ statusOff' = statusOff
      BY <1>2, <2>1 DEF SetCount, TypeOK
    <3> QED BY <1>4, <1>5, <3>1
  <2>2. CASE \E s \in Statuses : SetStatus(r, s)
    BY <2>2 DEF SetStatus
  <2> QED BY <2>1, <2>2
<1>8. (\A v \in Vols \ ledgerOff : open[v] = IF "lent" \in vols[v] THEN 1 ELSE 0)'
  BY <1>1, AtRest
<1> QED BY <1>1, <1>2, <1>6, <1>7, <1>8, RowsKeep, WholeKeeps

LEMMA RereadKeeps ==
    ASSUME OneSlot, ServiceInv, NEW r \in Slots, Reread(r)
    PROVE  ServiceInv'
<1>1. /\ ~Running(r) /\ UNCHANGED <<req, open, countOff, ledgerOff, rowOff>> /\ statusOff' = TRUE
      /\ vols' = [v \in Vols |-> IF v \in Released THEN vols[v] \ {"read"} ELSE vols[v]]
      /\ lib' = [lib EXCEPT !.status = "reading", !.finished = FALSE]
  BY DEF Reread, Arrives
<1>2. TypeOK /\ TypeOK' /\ LentIsOwned /\ RowsCoherent
  BY AtHand, WholeTypes
<1>3. \A v \in Vols : /\ \A f \in Flags \ {"read"} : f \in vols'[v] <=> f \in vols[v]
                      /\ "read" \in vols'[v] => "read" \in vols[v]
  BY <1>1
<1>4. Having("owned")' = Having("owned") /\ Having("lent")' = Having("lent")
  BY <1>3, SameFlag DEF Flags
<1>5. LentIsOwned'
  BY <1>2, <1>4 DEF LentIsOwned
<1>6. RowsCoherent'
  BY <1>1, <1>2, <1>3 DEF RowsCoherent, Flags
<1>7. (countOff \/ CountIsOwned)'
  <2>1. countOff \/ CountIsOwned
    BY <1>1, AtRest
  <2>2. lib'.count = lib.count /\ lib'.total = lib.total
    BY <1>1, <1>2 DEF TypeOK
  <2> QED BY <1>1, <1>4, <2>1, <2>2 DEF CountIsOwned
<1>8. (\A v \in Vols \ ledgerOff : open[v] = IF "lent" \in vols[v] THEN 1 ELSE 0)'
  <2>1. \A v \in Vols : "lent" \in vols'[v] <=> "lent" \in vols[v]
    BY <1>3 DEF Flags
  <2> QED BY <1>1, <2>1, AtRest
<1> QED BY <1>1, <1>2, <1>5, <1>6, <1>7, <1>8, WholeKeeps

LEMMA CoffretKeeps ==
    ASSUME OneSlot, ServiceInv, NEW r \in Slots, NEW first \in Vols, NEW last \in Vols,
           Coffret(r, first, last)
    PROVE  ServiceInv'
<1> DEFINE hit == Boxed(first, last)
<1>1. /\ ~Running(r) /\ UNCHANGED <<req, open, lib, ledgerOff, statusOff>> /\ countOff' = TRUE
      /\ vols' = [v \in Vols |-> IF v \in hit THEN vols[v] \union {"owned"} ELSE vols[v]]
      /\ rowOff' = rowOff \union {v \in hit : "wanted" \notin vols[v] \/ "coming" \in vols[v]}
  BY DEF Coffret, Arrives
<1> HIDE DEF hit
<1>2. TypeOK /\ TypeOK' /\ LentIsOwned /\ RowsCoherent
  BY AtHand, WholeTypes
<1>3. \A v \in Vols : \A f \in Flags \ {"owned"} : f \in vols'[v] <=> f \in vols[v]
  BY <1>1
<1>4. Read' = Read
  BY <1>3, SameFlag DEF Read, Flags
<1>5. LentIsOwned'
  BY <1>1, <1>2 DEF LentIsOwned, Having
<1>6. RowsCoherent'
  <2> SUFFICES ASSUME NEW v \in Vols, v \notin rowOff'
               PROVE  /\ "owned" \in vols'[v] => "wanted" \in vols'[v]
                      /\ "coming" \in vols'[v] => {"owned", "read", "lent"} \cap vols'[v] = {}
    BY DEF RowsCoherent
  <2>1. CASE v \in hit
    <3>1. "wanted" \in vols[v] /\ "coming" \notin vols[v]
      BY <1>1, <2>1
    <3> QED BY <1>3, <3>1 DEF Flags
  <2>2. CASE v \notin hit
    BY <1>1, <1>2, <2>2 DEF RowsCoherent
  <2> QED BY <2>1, <2>2
<1>7. (statusOff \/ Follows(lib.status, lib.finished, Read, lib.total))'
  BY <1>1, <1>4, AtRest
<1>8. (\A v \in Vols \ ledgerOff : open[v] = IF "lent" \in vols[v] THEN 1 ELSE 0)'
  <2>1. \A v \in Vols : "lent" \in vols'[v] <=> "lent" \in vols[v]
    BY <1>3 DEF Flags
  <2> QED BY <1>1, <2>1, AtRest
<1> QED BY <1>1, <1>2, <1>5, <1>6, <1>7, <1>8, WholeKeeps

LEMMA ManualKeeps ==
    ASSUME OneSlot, ServiceInv, NEW r \in Slots, NEW v \in Vols,
           AddUpcoming(r, v) \/ Redate(r, v) \/ DeleteManual(r, v)
    PROVE  ServiceInv'
<1>1. TypeOK /\ TypeOK' /\ LentIsOwned /\ RowsCoherent
  BY AtHand, WholeTypes
<1>2. ~Running(r) /\ UNCHANGED <<req, lib>>
  BY DEF AddUpcoming, Redate, DeleteManual, Arrives, history
<1>3. /\ countOff \/ CountIsOwned
      /\ statusOff \/ Follows(lib.status, lib.finished, Read, lib.total)
      /\ \A w \in Vols \ ledgerOff : open[w] = IF "lent" \in vols[w] THEN 1 ELSE 0
  BY <1>2, AtRest
<1>4. CASE AddUpcoming(r, v) \/ Redate(r, v)
  <2>1. /\ \A f \in {"owned", "read", "lent"} : \A w \in Vols : f \in vols'[w] <=> f \in vols[w]
        /\ \A w \in Vols : "wanted" \in vols[w] => "wanted" \in vols'[w]
        /\ \A w \in Vols \ rowOff' : "coming" \in vols'[w] =>
              "coming" \in vols[w] \/ vols'[w] = {"here", "wanted", "coming", "manual"}
        /\ UNCHANGED <<open, countOff, ledgerOff, statusOff>> /\ rowOff \subseteq rowOff'
    <3>1. CASE AddUpcoming(r, v)
      <4>1. /\ vols[v] = {} /\ UNCHANGED <<open, countOff, ledgerOff, statusOff, rowOff>>
            /\ vols' = [vols EXCEPT ![v] = {"here", "wanted", "coming", "manual"}]
        BY <3>1 DEF AddUpcoming, history
      <4> QED BY <1>1, <4>1 DEF TypeOK
    <3>2. CASE Redate(r, v)
      <4>1. /\ UNCHANGED <<open, countOff, ledgerOff, statusOff>>
            /\ vols' = [vols EXCEPT ![v] = @ \union {"coming"}]
            /\ rowOff' = (IF "coming" \in vols[v] THEN rowOff ELSE rowOff \union {v})
        BY <3>2 DEF Redate
      <4>2. \A w \in Vols : vols'[w] = IF w = v THEN vols[w] \union {"coming"} ELSE vols[w]
        BY <1>1, <4>1 DEF TypeOK
      <4> QED BY <4>1, <4>2
    <3> QED BY <1>4, <3>1, <3>2
  <2>2. Having("owned")' = Having("owned") /\ Having("lent")' = Having("lent") /\ Read' = Read
    BY <2>1, SameFlag DEF Read
  <2>3. LentIsOwned'
    BY <1>1, <2>2 DEF LentIsOwned
  <2>4. RowsCoherent'
    <3> SUFFICES ASSUME NEW w \in Vols, w \notin rowOff'
                 PROVE  /\ "owned" \in vols'[w] => "wanted" \in vols'[w]
                        /\ "coming" \in vols'[w] => {"owned", "read", "lent"} \cap vols'[w] = {}
      BY DEF RowsCoherent
    <3>1. /\ "owned" \in vols[w] => "wanted" \in vols[w]
          /\ "coming" \in vols[w] => {"owned", "read", "lent"} \cap vols[w] = {}
      BY <1>1, <2>1 DEF RowsCoherent
    <3> QED BY <2>1, <3>1
  <2>5. /\ (countOff \/ CountIsOwned)'
        /\ (statusOff \/ Follows(lib.status, lib.finished, Read, lib.total))'
        /\ (\A w \in Vols \ ledgerOff : open[w] = IF "lent" \in vols[w] THEN 1 ELSE 0)'
    BY <1>2, <1>3, <2>1, <2>2 DEF CountIsOwned
  <2> QED BY <1>1, <1>2, <2>3, <2>4, <2>5, WholeKeeps
<1>5. CASE DeleteManual(r, v)
  <2>1. /\ vols' = [vols EXCEPT ![v] = {}] /\ open' = [w \in Vols |-> IF w \in {v} THEN 0 ELSE open[w]]
        /\ ledgerOff' = ledgerOff \ {v}
        /\ countOff' = TRUE /\ statusOff' = TRUE /\ UNCHANGED rowOff
    BY <1>5 DEF DeleteManual, LetGo
  <2>2. \A w \in Vols : /\ vols'[w] = IF w = v THEN {} ELSE vols[w]
                        /\ open'[w] = IF w = v THEN 0 ELSE open[w]
    BY <1>1, <2>1 DEF TypeOK
  <2>3. LentIsOwned'
    BY <1>1, <2>2 DEF LentIsOwned, Having
  <2>4. RowsCoherent'
    BY <1>1, <2>1, <2>2 DEF RowsCoherent
  <2>5. (\A w \in Vols \ ledgerOff : open[w] = IF "lent" \in vols[w] THEN 1 ELSE 0)'
    BY <1>3, <2>1, <2>2
  <2> QED BY <1>1, <1>2, <2>1, <2>3, <2>4, <2>5, WholeKeeps
<1> QED BY <1>4, <1>5

\* A release date passes while a request runs, too.
LEMMA ReleaseKeeps ==
    ASSUME ServiceInv, NEW v \in Vols, Release(v)
    PROVE  ServiceInv'
<1>1. /\ vols' = [vols EXCEPT ![v] = @ \ {"coming"}]
      /\ UNCHANGED <<open, lib, req, countOff, ledgerOff, rowOff, statusOff>>
  BY DEF Release, history
<1>2. TypeOK /\ LentIsOwned /\ RowsCoherent
  BY DEF ServiceInv
<1>3. \A w \in Vols : vols'[w] = IF w = v THEN vols[w] \ {"coming"} ELSE vols[w]
  BY <1>1, <1>2 DEF TypeOK
<1>4. /\ \A f \in Flags \ {"coming"} : \A w \in Vols : f \in vols'[w] <=> f \in vols[w]
      /\ \A w \in Vols : "coming" \in vols'[w] => "coming" \in vols[w]
      /\ \A w \in Vols : vols'[w] \ {"coming"} = vols[w] \ {"coming"}
  BY <1>3
<1>5. Having("owned")' = Having("owned") /\ Having("lent")' = Having("lent") /\ Read' = Read
  BY <1>4, SameFlag DEF Read, Flags
<1>6. LentIsOwned'
  BY <1>2, <1>5 DEF LentIsOwned
<1>7. RowsCoherent'
  <2> SUFFICES ASSUME NEW w \in Vols, w \notin rowOff
               PROVE  /\ "owned" \in vols'[w] => "wanted" \in vols'[w]
                      /\ "coming" \in vols'[w] => {"owned", "read", "lent"} \cap vols'[w] = {}
    BY <1>1 DEF RowsCoherent
  <2>1. /\ "owned" \in vols[w] => "wanted" \in vols[w]
        /\ "coming" \in vols[w] => {"owned", "read", "lent"} \cap vols[w] = {}
    BY <1>2 DEF RowsCoherent
  <2> QED BY <1>4, <2>1 DEF Flags
<1>8. TypeOK'
  BY <1>2, WholeTypes, BoundsAssumption
<1>9. ASSUME NEW r \in Slots PROVE InHand(req[r])'
  <2> DEFINE q == req[r]
  <2>1. /\ q \in Request /\ q.v \in Vols /\ req'[r] = q
        /\ RowIsFresh(q) /\ Marks(q) /\ ReadyToPatch(q) /\ ReadyToMark(q)
        /\ ReadyToLend(q) /\ LedgerHolds(q) /\ CountHolds(q) /\ StatusHolds(q)
    BY <1>1, AtHand DEF Request
  <2> HIDE DEF q
  <2>2. RowIsFresh(req[r])'
    BY <1>4, <2>1 DEF RowIsFresh, Same
  <2>3. /\ Marks(req[r])' /\ ReadyToPatch(req[r])' /\ ReadyToLend(req[r])'
    BY <2>1 DEF Marks, ReadyToPatch, ReadyToLend
  <2>4. ReadyToMark(req[r])'
    BY <1>5, <2>1 DEF ReadyToMark
  <2>5. LedgerHolds(req[r])'
    <3>1. \A w \in Vols : "lent" \in vols'[w] <=> "lent" \in vols[w]
      BY <1>4 DEF Flags
    <3> QED BY <1>1, <2>1, <3>1 DEF LedgerHolds, ToClose
  <2>6. CountHolds(req[r])' /\ StatusHolds(req[r])'
    BY <1>1, <1>5, <2>1 DEF CountHolds, CountIsOwned, StatusHolds
  <2> QED BY <2>2, <2>3, <2>4, <2>5, <2>6 DEF InHand
<1> QED BY <1>6, <1>7, <1>8, <1>9 DEF ServiceInv

LEMMA StillService == ServiceInv /\ UNCHANGED vars => ServiceInv'
<1> SUFFICES ASSUME ServiceInv, UNCHANGED vars PROVE ServiceInv'
  OBVIOUS
<1>1. TypeOK' /\ LentIsOwned' /\ RowsCoherent'
  BY DEF vars, history, ServiceInv, TypeOK, LentIsOwned, RowsCoherent, Having
<1>2. ASSUME NEW r \in Slots PROVE InHand(req[r])'
  <2>1. /\ vols' = vols /\ open' = open /\ lib' = lib /\ req' = req
        /\ countOff' = countOff /\ ledgerOff' = ledgerOff /\ statusOff' = statusOff
        /\ InHand(req[r])
    BY DEF vars, history, ServiceInv
  <2>2. RowIsFresh(req[r])' /\ Marks(req[r])' /\ ReadyToPatch(req[r])'
    BY <2>1 DEF InHand, RowIsFresh, Marks, ReadyToPatch
  <2>3. ReadyToMark(req[r])' /\ ReadyToLend(req[r])' /\ LedgerHolds(req[r])'
    BY <2>1 DEF InHand, ReadyToMark, ReadyToLend, LedgerHolds, ToClose, Having
  <2>4. CountHolds(req[r])' /\ StatusHolds(req[r])'
    BY <2>1 DEF InHand, CountHolds, CountIsOwned, StatusHolds, Read, Having
  <2> QED BY <2>2, <2>3, <2>4 DEF InHand
<1> QED BY <1>1, <1>2 DEF ServiceInv

LEMMA StepService == OneSlot /\ ServiceInv /\ [Next]_vars => ServiceInv'
<1> SUFFICES ASSUME OneSlot, ServiceInv, [Next]_vars PROVE ServiceInv'
  OBVIOUS
<1>1. ASSUME NEW r \in Slots, Patch(r) \/ Bulk(r) \/ Loan(r) \/ Want(r) PROVE ServiceInv'
  BY <1>1, AskKeeps
<1>2. ASSUME NEW r \in Slots, ReadRow(r) \/ Progress(r) \/ LookAtLoan(r) \/ LookAtRow(r) \/ Count(r)
      PROVE  ServiceInv'
  BY <1>2, ReadRowKeeps, ProgressKeeps, LookAtLoanKeeps, LookAtRowKeeps, CountKeeps
<1>3. ASSUME NEW r \in Slots,
             Update(r) \/ Progressed(r) \/ Lend(r) \/ SetWanted(r) \/ Write(r) \/ Fail(r)
      PROVE  ServiceInv'
  BY <1>3, UpdateKeeps, ProgressedKeeps, LendKeeps, SetWantedKeeps, WriteKeeps, FailKeeps
<1>4. ASSUME NEW r \in Slots, NEW v \in Vols, Close(r, v) PROVE ServiceInv'
  BY <1>4, CloseKeeps
<1>5. ASSUME NEW r \in Slots, NEW v \in Vols, AddUpcoming(r, v) \/ Redate(r, v) \/ DeleteManual(r, v)
      PROVE  ServiceInv'
  BY <1>5, ManualKeeps
<1>6. ASSUME NEW r \in Slots, NEW k \in 0..Last, Resize(r, k) \/ SetCount(r, k) PROVE ServiceInv'
  BY <1>6, ResizeKeeps, LibraryKeeps
<1>7. ASSUME NEW r \in Slots, NEW s \in Statuses, SetStatus(r, s) PROVE ServiceInv'
  BY <1>7, LibraryKeeps
<1>8. ASSUME NEW r \in Slots, NEW first \in Vols, NEW last \in Vols, Coffret(r, first, last)
      PROVE  ServiceInv'
  BY <1>8, CoffretKeeps
<1>9. ASSUME NEW r \in Slots, Reread(r) PROVE ServiceInv'
  BY <1>9, RereadKeeps
<1>10. ASSUME NEW v \in Vols, Release(v) PROVE ServiceInv'
  BY <1>10, ReleaseKeeps
<1>11. CASE UNCHANGED vars
  BY <1>11, StillService
<1> QED BY <1>1, <1>2, <1>3, <1>4, <1>5, <1>6, <1>7, <1>8, <1>9, <1>10, <1>11 DEF Next

-----------------------------------------------------------------------------
(* The derived facts, for one request at a time *)

LEMMA ServiceHolds ==
    ASSUME OneSlot
    PROVE  Spec => []ServiceInv
BY InitService, StepService, PTL DEF Spec

\* A volume that is removed has an open row only if it is lent, or if a request
\* that failed left its row open: then it is one the history knows.
LEMMA LetGoKeeps ==
    ASSUME ServiceInv, AdriftWasLent, NEW r \in Slots, ~Running(r), NEW gone \in SUBSET Vols, LetGo(gone)
    PROVE  AdriftWasLent'
<1>1. ASSUME NEW v \in gone, open[v] > 0 PROVE "lent" \in vols[v] \/ v \in ledgerOff
  <2>1. v \notin ledgerOff => open[v] = IF "lent" \in vols[v] THEN 1 ELSE 0
    BY AtRest
  <2> QED BY <1>1, <2>1
<1> QED BY <1>1 DEF LetGo, AdriftWasLent

LEMMA StepAdrift == ServiceInv /\ AdriftWasLent /\ [Next]_vars => AdriftWasLent'
<1> SUFFICES ASSUME ServiceInv, AdriftWasLent, [Next]_vars PROVE AdriftWasLent'
  OBVIOUS
<1>1. ASSUME NEW r \in Slots, NEW k \in 0..Last, Resize(r, k) PROVE AdriftWasLent'
  <2> DEFINE gone == {v \in Vols : v > k /\ v <= lib.total}
  <2>1. LetGo(gone) /\ ~Running(r) /\ gone \in SUBSET Vols
    BY <1>1 DEF Resize, Arrives
  <2> QED BY <2>1, LetGoKeeps
<1>2. ASSUME NEW r \in Slots, NEW v \in Vols, DeleteManual(r, v) PROVE AdriftWasLent'
  <2>1. LetGo({v}) /\ ~Running(r) /\ {v} \in SUBSET Vols
    BY <1>2 DEF DeleteManual, Arrives
  <2> QED BY <2>1, LetGoKeeps
<1>3. ASSUME UNCHANGED <<adrift, goneLent>> PROVE AdriftWasLent'
  BY <1>3 DEF AdriftWasLent
<1>4. ASSUME NEW r \in Slots, Patch(r) \/ Bulk(r) \/ Loan(r) \/ Want(r) PROVE AdriftWasLent'
  BY <1>3, <1>4 DEF Patch, Bulk, Loan, Want, Ask, history
<1>5. ASSUME NEW r \in Slots, ReadRow(r) \/ Progress(r) \/ LookAtLoan(r) \/ LookAtRow(r) \/ Count(r)
      PROVE  AdriftWasLent'
  BY <1>3, <1>5 DEF ReadRow, Progress, LookAtLoan, LookAtRow, Count, history
<1>6. ASSUME NEW r \in Slots,
             Update(r) \/ Progressed(r) \/ Lend(r) \/ SetWanted(r) \/ Write(r) \/ Fail(r)
      PROVE  AdriftWasLent'
  BY <1>3, <1>6 DEF Update, Progressed, Lend, SetWanted, Write, Fail, history
<1>7. ASSUME NEW r \in Slots, NEW v \in Vols, Close(r, v) \/ AddUpcoming(r, v) \/ Redate(r, v)
      PROVE  AdriftWasLent'
  BY <1>3, <1>7 DEF Close, AddUpcoming, Redate, history
<1>8. ASSUME NEW r \in Slots, \/ \E k \in 0..Last : SetCount(r, k)
                              \/ \E s \in Statuses : SetStatus(r, s)
                              \/ \E first, last \in Vols : Coffret(r, first, last)
                              \/ Reread(r)
      PROVE  AdriftWasLent'
  BY <1>3, <1>8 DEF SetCount, SetStatus, Coffret, Reread
<1>9. CASE (\E v \in Vols : Release(v)) \/ UNCHANGED vars
  BY <1>3, <1>9 DEF Release, history, vars
<1> QED BY <1>1, <1>2, <1>4, <1>5, <1>6, <1>7, <1>8, <1>9 DEF Next

LEMMA AdriftHolds ==
    ASSUME OneSlot
    PROVE  Spec => []AdriftWasLent
<1>1. Init => AdriftWasLent
  BY DEF Init, AdriftWasLent
<1> QED BY <1>1, ServiceHolds, StepAdrift, PTL DEF Spec

\* What the invariant says once no request runs: there is a slot, and it rests.
LEMMA AllRest ==
    ASSUME ServiceInv, Quiet
    PROVE  /\ \A v \in Vols \ ledgerOff : open[v] = IF "lent" \in vols[v] THEN 1 ELSE 0
           /\ countOff \/ CountIsOwned
           /\ statusOff \/ Follows(lib.status, lib.finished, Read, lib.total)
<1>1. PICK r \in Slots : TRUE
  BY BoundsAssumption
<1>2. ~Running(r)
  BY DEF Quiet
<1> QED BY <1>2, AtRest

\* Where one request runs at a time, a volume that is lent is owned whatever
\* requests are made, and wherever they fail.
THEOREM LentStaysOwned ==
    ASSUME OneSlot
    PROVE  Spec => []LentIsOwned
<1>1. ServiceInv => LentIsOwned
  BY DEF ServiceInv
<1> QED BY <1>1, ServiceHolds, PTL

\* Where one request runs at a time, an owned row is wanted and an announced
\* one is neither owned, read nor lent, but for the rows a bulk mark, a
\* coffret or a new date went over and no PATCH has set right since.
THEOREM RowsStayCoherent ==
    ASSUME OneSlot
    PROVE  Spec => []RowsCoherent
<1>1. ServiceInv => RowsCoherent
  BY DEF ServiceInv
<1> QED BY <1>1, ServiceHolds, PTL

\* Where one request runs at a time, the ledger agrees with the rows once it
\* is done, but for the volumes a failed request left behind; and a row not
\* returned that points at no volume is of one that was removed while lent.
THEOREM LedgerStaysRight ==
    ASSUME OneSlot
    PROVE  Spec => []LedgerAgrees
<1>1. ServiceInv /\ AdriftWasLent => LedgerAgrees
  BY AllRest DEF LedgerAgrees, AdriftWasLent
<1> QED BY <1>1, ServiceHolds, AdriftHolds, PTL

\* Where one request runs at a time, volumes_owned is the number of owned rows
\* once it is done, unless a request failed or went past the recount.
THEOREM CountStaysRight ==
    ASSUME OneSlot
    PROVE  Spec => []CountMatches
<1>1. ServiceInv => CountMatches
  BY AllRest DEF CountMatches, CountIsOwned
<1> QED BY <1>1, ServiceHolds, PTL

\* Where one request runs at a time, the reading status follows the reads once
\* it is done, unless the user set it or a request failed before it.
THEOREM StatusStaysRight ==
    ASSUME OneSlot
    PROVE  Spec => []StatusFollows
<1>1. ServiceInv => StatusFollows
  BY AllRest DEF StatusFollows, Follows, Read
<1> QED BY <1>1, ServiceHolds, PTL
=============================================================================
