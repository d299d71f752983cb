------------------------- MODULE LibraryOutboxProofs -------------------------
(***************************************************************************)
(* Proofs about LibraryOutbox, for any library, any number of tries and of *)
(* edits.  That nothing is lost rests on what an op is due to make of the  *)
(* server's row: sending any of its requests, once or twice, leaves that   *)
(* as it is, and when all of them have landed the row is what was due.     *)
(***************************************************************************)
EXTENDS LibraryOutbox, FiniteSetTheorems, TLAPS

-----------------------------------------------------------------------------
(* The inductive invariant *)

Patches == {"META", "OWNED", "POSTER"}

\* The op carries something for each request it becomes, and becomes one.
WellMade(op) ==
    /\ op.kind = "none" => op = NoOp
    /\ op.kind = "owned" => /\ op.pay["owned"] # Undef
                            /\ op.pay["label"] = Undef /\ op.pay["review"] = Undef
    /\ op.kind = "patch" => \E f \in Fields : op.pay[f] # Undef

OpsWellMade == \A s \in Series : WellMade(outbox[s]) /\ WellMade(pass.todo[s])

\* The row once all the op's requests are handled.
Due(op, row) ==
    CASE op.kind = "none"   -> row
      [] op.kind = "delete" -> Gone
      [] op.kind = "upsert" -> Added(row, op.pay)
      [] OTHER              -> Written(row, op.pay, Fields)

\* What waits makes of the server's row what the user asked for, but where the
\* user is still to be told it does not.
OpsAreDue == \A s \in Series :
    /\ s \notin unsure /\ ~Dropped(s) => Due(outbox[s], server[s]) = intent[s]
    /\ outbox[s].kind = "delete" => intent[s] = Gone
    /\ Dropped(s) /\ Waiting(s) => s \in unsure

\* An op in hand still waits, as it was taken unless the row is unsure.
HandWaits == \A s \in Series : InHand(s) =>
    /\ Waiting(s)
    /\ s \notin unsure => outbox[s] = pass.todo[s]

OnTheWire == pass.st \in {"wire", "reply"}

\* Handling the request again would change nothing.
HasLanded(q) ==
    Handled(q, server[pass.cur], pass.todo[pass.cur].pay) = server[pass.cur]

\* The requests of the op at hand are sent one after the other.
SentInTurn ==
    OnTheWire =>
        LET op == pass.todo[pass.cur]
        IN /\ op # NoOp
           /\ pass.left # {} /\ pass.left \subseteq Requests(op)
           /\ \A q \in Requests(op) \ pass.left : HasLanded(q)
           /\ pass.st = "reply" /\ pass.answer = "ok" => HasLanded(NextOf(pass.left))

NothingTouched == pass.st = "off" => pass.touched = {}

\* The read of a pass is the re-read it waits for, of the whole list.
PassReads == list["pass"].st # "free" =>
    /\ pass.st = "reread"
    /\ list["pass"].st # "entry" /\ list["pass"].of = Series

Mirrored(s) == Waiting(s) \/ local[s] = server[s] \/ s \in behind \union overtaken

\* The re-read of the op given up is over, written, or may be skipped.
RereadOver == \/ pass.st = "report"
              \/ pass.st = "reread" /\ list["pass"].st = "written"
              \/ pass.st = "reread" /\ list["pass"].st = "taken" /\ tag # NoTag

\* It is not needed any more, then.
RereadDone == \A s \in Series : RereadOver /\ pass.cur = s => Mirrored(s)

LibraryInv == /\ TypeOK /\ OpsWellMade /\ OpsAreDue /\ HandWaits /\ SentInTurn
              /\ NothingTouched /\ WaitingOpShown /\ QuietMeansMirrored
              /\ PassReads /\ RereadDone

-----------------------------------------------------------------------------
(* Rows, ops and requests *)

LEMMA RowsGrow ==
    ASSUME NEW k \in Nat, NEW m \in Nat, k <= m
    PROVE  Row(k) \subseteq Row(m) /\ Op(k) \subseteq Op(m)
<1>1. Undef..k \subseteq Undef..m /\ 0..k \subseteq 0..m
  BY DEF Undef
<1>2. Row(k) \subseteq Row(m)
  BY <1>1 DEF Row
<1> QED BY <1>1, <1>2 DEF Op

LEMMA GoneType ==
    ASSUME NEW m \in Nat
    PROVE  Gone \in Row(m) /\ NoOp \in Op(m) /\ WellMade(NoOp)
BY DEF Gone, Row, Undef, NoOp, Op, Kinds, WellMade

LEMMA WrittenType ==
    ASSUME NEW m \in Nat, NEW row \in Row(m), NEW pay \in Row(m), NEW F
    PROVE  Written(row, pay, F) \in Row(m) /\ Added(row, pay) \in Row(m)
BY DEF Written, Added, Row, Undef

\* What the server makes of a request is a row.
LEMMA HandledType ==
    ASSUME NEW m \in Nat, NEW row \in Row(m), NEW pay \in Row(m), NEW q \in Endpoints
    PROVE  Handled(q, row, pay) \in Row(m)
<1>1. Gone \in Row(m)
  BY GoneType
<1>2. /\ Written(row, pay, {"label", "review"}) \in Row(m)
      /\ Written(row, pay, {"owned"}) \in Row(m)
      /\ Written(row, pay, {"poster"}) \in Row(m)
      /\ Added(row, pay) \in Row(m)
  BY WrittenType
<1> QED BY <1>1, <1>2 DEF Handled, Endpoints

\* An op is one DELETE, one POST, or PATCHes.
LEMMA RequestKinds ==
    ASSUME NEW m, NEW op \in Op(m)
    PROVE  /\ Requests(op) = {"DELETE"} \/ Requests(op) = {"POST"} \/ Requests(op) \subseteq Patches
           /\ Requests(op) \subseteq Endpoints
<1>1. CASE op.kind \in {"delete", "upsert"}
  BY <1>1 DEF Requests, Endpoints
<1>2. CASE op.kind \in {"owned", "patch"}
  BY <1>2 DEF Requests, Endpoints, Patches
<1>3. CASE op.kind = "none"
  BY <1>3 DEF Requests, Patches
<1> QED BY <1>1, <1>2, <1>3 DEF Op, Kinds

\* An op that waits becomes a request at least.
LEMMA SomeRequest ==
    ASSUME NEW m, NEW op \in Op(m), WellMade(op), op # NoOp
    PROVE  Requests(op) # {}
BY DEF Requests, WellMade, Op, Kinds, Fields

\* The next request is one of those left.
LEMMA NextIsLeft ==
    ASSUME NEW m, NEW op \in Op(m), NEW left, left # {}, left \subseteq Requests(op)
    PROVE  NextOf(left) \in left
<1>1. \E q \in left : \A r \in left \ {q} : Before(q, r)
  <2>1. CASE Requests(op) \subseteq Patches
    <3>1. CASE "META" \in left
      BY <3>1 DEF Before
    <3>2. CASE "META" \notin left /\ "OWNED" \in left
      BY <2>1, <3>2 DEF Before, Patches
    <3>3. CASE "META" \notin left /\ "OWNED" \notin left
      BY <2>1, <3>3 DEF Patches
    <3> QED BY <3>1, <3>2, <3>3
  <2>2. CASE Requests(op) = {"DELETE"} \/ Requests(op) = {"POST"}
    BY <2>2
  <2> QED BY <2>1, <2>2, RequestKinds
<1> QED BY <1>1 DEF NextOf

LEMMA EndpointsFinite == \A left \in SUBSET Endpoints : IsFiniteSet(left)
<1>1. ASSUME NEW S, NEW x, IsFiniteSet(S) PROVE IsFiniteSet(S \union {x})
  BY <1>1, FS_AddElement
<1>2. IsFiniteSet({} \union {"DELETE"} \union {"POST"} \union {"META"} \union {"OWNED"} \union {"POSTER"})
  BY <1>1, FS_EmptySet
<1>3. Endpoints = {} \union {"DELETE"} \union {"POST"} \union {"META"} \union {"OWNED"} \union {"POSTER"}
  BY DEF Endpoints
<1> QED BY <1>2, <1>3, FS_Subset

\* A request that is handled once is handled for good.
LEMMA LandsOnce ==
    ASSUME NEW m \in Nat, NEW row \in Row(m), NEW pay \in Row(m), NEW q \in Endpoints
    PROVE  Handled(q, Handled(q, row, pay), pay) = Handled(q, row, pay)
<1>1. \A F : Written(Written(row, pay, F), pay, F) = Written(row, pay, F)
  BY DEF Written, Row, Gone
<1>2. Added(Added(row, pay), pay) = Added(row, pay)
  BY DEF Added, Row, Gone, Undef, Fields
<1> QED BY <1>1, <1>2 DEF Handled, Endpoints

\* The requests of an op do not undo each other.
LEMMA LandedStays ==
    ASSUME NEW m \in Nat, NEW op \in Op(m), NEW row \in Row(m),
           NEW q \in Requests(op), NEW r \in Requests(op),
           Handled(r, row, op.pay) = row
    PROVE  LET new == Handled(q, row, op.pay) IN Handled(r, new, op.pay) = new
<1>0. op.pay \in Row(m) /\ q \in Endpoints /\ r \in Endpoints
  BY RequestKinds DEF Op
<1>1. CASE q = r
  BY <1>0, <1>1, LandsOnce
<1>2. CASE q # r
  <2>1. q \in Patches /\ r \in Patches
    BY <1>2, RequestKinds
  <2> DEFINE cols(p) == IF p = "META" THEN {"label", "review"}
                        ELSE IF p = "OWNED" THEN {"owned"} ELSE {"poster"}
  <2>2. \A p \in Patches, x \in Row(m) : Handled(p, x, op.pay) = Written(x, op.pay, cols(p))
    BY DEF Handled, Patches
  <2>3. cols(q) \cap cols(r) = {}
    BY <1>2, <2>1 DEF Patches
  <2> HIDE DEF cols
  <2>4. Written(row, op.pay, cols(q)) \in Row(m)
    BY <1>0, WrittenType
  <2>5. Written(row, op.pay, cols(r)) = row
    BY <2>1, <2>2
  <2>6. Written(Written(row, op.pay, cols(q)), op.pay, cols(r)) = Written(row, op.pay, cols(q))
    BY <2>3, <2>5, <1>0 DEF Written, Row, Gone
  <2> QED BY <2>1, <2>2, <2>4, <2>6
<1> QED BY <1>1, <1>2

\* A request of an op leaves what the op is due to make as it is.
LEMMA StillDue ==
    ASSUME NEW m \in Nat, NEW op \in Op(m), NEW row \in Row(m), NEW q \in Requests(op)
    PROVE  Due(op, Handled(q, row, op.pay)) = Due(op, row)
<1>0. op.pay \in Row(m) /\ op.kind \in Kinds \union {"none"}
  BY DEF Op
<1>1. CASE op.kind = "delete"
  BY <1>1 DEF Due
<1>2. CASE op.kind = "upsert"
  <2>1. q = "POST"
    BY <1>2 DEF Requests
  <2> QED BY <1>0, <1>2, <2>1, LandsOnce DEF Due, Handled, Endpoints
<1>3. CASE op.kind = "none"
  BY <1>3 DEF Requests
<1>4. CASE op.kind \in {"owned", "patch"}
  <2>1. q \in Patches
    BY <1>4 DEF Requests, Patches
  <2>2. PICK F \in SUBSET Fields : Handled(q, row, op.pay) = Written(row, op.pay, F)
    BY <2>1 DEF Handled, Patches, Fields
  <2>3. Written(Written(row, op.pay, F), op.pay, Fields) = Written(row, op.pay, Fields)
    BY <1>0 DEF Written, Row, Gone
  <2> QED BY <1>4, <2>2, <2>3 DEF Due
<1> QED BY <1>0, <1>1, <1>2, <1>3, <1>4 DEF Kinds

\* Once all its requests have landed the row is what was due.
LEMMA AllLanded ==
    ASSUME NEW m \in Nat, NEW op \in Op(m), WellMade(op), NEW row \in Row(m),
           \A q \in Requests(op) : Handled(q, row, op.pay) = row
    PROVE  Due(op, row) = row
<1>0. op.pay \in Row(m) /\ op.kind \in Kinds \union {"none"}
  BY DEF Op
<1>1. CASE op.kind \in {"delete", "upsert", "none"}
  BY <1>1 DEF Due, Requests, Handled
<1>2. CASE op.kind \in {"owned", "patch"}
  <2>1. CASE row = Gone
    BY <1>2, <2>1 DEF Due, Written
  <2>2. CASE row # Gone
    <3>1. ASSUME NEW f \in Fields, op.pay[f] # Undef PROVE row[f] = op.pay[f]
      <4>1. CASE f \in {"label", "review"}
        <5>1. "META" \in Requests(op)
          BY <1>2, <3>1, <4>1 DEF Requests, WellMade
        <5>2. Written(row, op.pay, {"label", "review"}) = row
          BY <5>1 DEF Handled
        <5> QED BY <2>2, <3>1, <4>1, <5>2 DEF Written
      <4>2. CASE f = "owned"
        <5>1. "OWNED" \in Requests(op)
          BY <1>2, <3>1, <4>2 DEF Requests, WellMade
        <5>2. Written(row, op.pay, {"owned"}) = row
          BY <5>1 DEF Handled
        <5> QED BY <2>2, <3>1, <4>2, <5>2 DEF Written
      <4>3. CASE f = "poster"
        <5>1. "POSTER" \in Requests(op)
          BY <1>2, <3>1, <4>3 DEF Requests, WellMade
        <5>2. Written(row, op.pay, {"poster"}) = row
          BY <5>1 DEF Handled
        <5> QED BY <2>2, <3>1, <4>3, <5>2 DEF Written
      <4> QED BY <4>1, <4>2, <4>3 DEF Fields
    <3>2. Written(row, op.pay, Fields) = row
      BY <2>2, <3>1 DEF Written, Row
    <3> QED BY <1>2, <3>2 DEF Due
  <2> QED BY <2>1, <2>2
<1> QED BY <1>0, <1>1, <1>2 DEF Kinds

-----------------------------------------------------------------------------
(* The initial state *)

LEMMA NoPassType ==
    ASSUME NEW m \in Nat
    PROVE  /\ NoPass \in [st : PassStates, todo : [Series -> Op(m)], cur : Series,
                          left : SUBSET Endpoints, answer : {"ok", "failed", "refused"},
                          touched : SUBSET Series, came : [Series -> SUBSET Row(m)]]
           /\ NoPass.st = "off" /\ NoPass.touched = {} /\ NoPass.todo = NoOps
<1>1. (CHOOSE s \in Series : TRUE) \in Series
  BY BoundsAssumption
<1>2. NoOps \in [Series -> Op(m)]
  BY GoneType DEF NoOps
<1>3. [s \in Series |-> {}] \in [Series -> SUBSET Row(m)]
  OBVIOUS
<1> QED BY <1>1, <1>2, <1>3 DEF NoPass, PassStates

LEMMA NoReadType ==
    ASSUME NEW m \in Nat
    PROVE  /\ NoRead \in [st : ReadStates, rows : [Series -> Row(m)], of : SUBSET Series]
           /\ NoRead.st = "free"
BY GoneType DEF NoRead, NoRows, ReadStates

\* No read of a pass is under way before or after.
LEMMA NoReread ==
    ASSUME LibraryInv, pass.st # "reread", pass'.st \notin {"reread", "report"}, UNCHANGED list
    PROVE  PassReads' /\ RereadDone'
BY DEF LibraryInv, PassReads, RereadDone, RereadOver

LEMMA InitLibrary == Init => LibraryInv
<1> SUFFICES ASSUME Init PROVE LibraryInv
  OBVIOUS
<1> DEFINE zero == [f \in Fields |-> 0]
<1>1. zero \in Row(0) /\ Gone \in Row(0) /\ NoOp \in Op(0)
  BY GoneType DEF Row, Undef
<1>2. server \in [Series -> Row(0)]
  BY <1>1 DEF Init
<1>12. list \in [Readers -> [st : ReadStates, rows : [Series -> Row(0)], of : SUBSET Series]]
  BY NoReadType DEF Init
<1>3. IsFiniteSet(tag) /\ Cardinality(tag) <= 1
  <2>1. IsFiniteSet({server}) /\ Cardinality({server}) = 1
    BY FS_Singleton
  <2> QED BY <2>1 DEF Init
<1>4. TypeOK
  <2>1. tries \in [Series -> 0..(MaxTries - 1)]
    BY BoundsAssumption DEF Init
  <2>2. edits \in 0..MaxEdits /\ visits \in 0..MaxVisits
    BY BoundsAssumption DEF Init
  <2> QED BY <1>1, <1>2, <1>3, <1>12, <2>1, <2>2, NoPassType DEF Init, TypeOK, NoOps
<1>5. pass.st = "off" /\ pass.touched = {} /\ pass.todo = NoOps /\ outbox = NoOps
  BY NoPassType DEF Init
<1>6. \A s \in Series : outbox[s] = NoOp /\ pass.todo[s] = NoOp
  BY <1>5 DEF NoOps
<1>7. OpsWellMade
  BY <1>6, GoneType DEF OpsWellMade
<1>8. OpsAreDue
  BY <1>5, <1>6 DEF OpsAreDue, Dropped, NoOp, Due, Init
<1>9. HandWaits /\ SentInTurn /\ NothingTouched
  BY <1>5 DEF HandWaits, InHand, SentInTurn, OnTheWire, NothingTouched
<1>10. WaitingOpShown
  BY <1>6 DEF WaitingOpShown, NoOp, Gone
<1>11. QuietMeansMirrored
  BY DEF QuietMeansMirrored, Init
<1>13. PassReads /\ RereadDone
  BY <1>5, NoReadType DEF PassReads, RereadDone, RereadOver, Readers, Init
<1> QED BY <1>4, <1>7, <1>8, <1>9, <1>10, <1>11, <1>13 DEF LibraryInv

-----------------------------------------------------------------------------
(* Edits *)

\* The row shows the columns of the op.
Shown(op, row) ==
    /\ op.kind = "delete" => row = Gone
    /\ row # Gone => \A f \in Fields : op.pay[f] # Undef => row[f] = op.pay[f]

\* An edit that leaves an op which is well made, is shown, and is due to make
\* what the user wishes, breaks nothing.
LEMMA EditKeeps ==
    ASSUME LibraryInv, NEW s \in Series, NEW row \in Row(n), NEW op \in Op(n),
           NEW wish \in Row(n), NEW sure \in BOOLEAN,
           Edit(s, row, op, wish, sure),
           op.kind # "none", WellMade(op), Shown(op, row),
           op.kind = "delete" => wish = Gone,
           sure /\ s \notin unsure /\ ~Dropped(s) => Due(op, server[s]) = wish
    PROVE  LibraryInv'
<1>0. /\ TypeOK /\ edits < MaxEdits /\ edits' = n /\ edits \in Nat /\ n \in Nat /\ edits <= n
      /\ local' = [local EXCEPT ![s] = row]
      /\ outbox' = [outbox EXCEPT ![s] = op]
      /\ intent' = [intent EXCEPT ![s] = wish]
      /\ UNCHANGED <<server, tag, tries, pass, list, visits, behind, overtaken>>
  BY BoundsAssumption DEF Edit, LibraryInv, TypeOK, n
<1>1. TypeOK'
  <2>1. Row(edits) \subseteq Row(n) /\ Op(edits) \subseteq Op(n)
    BY <1>0, RowsGrow
  <2>2. n \in 0..MaxEdits
    BY <1>0, BoundsAssumption DEF n
  <2>3. /\ local' \in [Series -> Row(n)] /\ outbox' \in [Series -> Op(n)]
        /\ server' \in [Series -> Row(n)] /\ intent' \in [Series -> Row(n)]
    BY <1>0, <2>1 DEF TypeOK
  <2>4. \A t \in tag : t \in [Series -> Row(n)]
    BY <1>0, <2>1 DEF TypeOK
  <2>5. pass.todo \in [Series -> Op(n)]
    BY <1>0, <2>1 DEF TypeOK
  <2>8. pass.came \in [Series -> SUBSET Row(n)]
    BY <1>0, <2>1 DEF TypeOK
  <2>6. pass \in [st : PassStates, todo : [Series -> Op(n)], cur : Series,
                  left : SUBSET Endpoints, answer : {"ok", "failed", "refused"},
                  touched : SUBSET Series, came : [Series -> SUBSET Row(n)]]
    BY <1>0, <2>5, <2>8 DEF TypeOK
  <2>9. list \in [Readers -> [st : ReadStates, rows : [Series -> Row(n)], of : SUBSET Series]]
    BY <1>0, <2>1 DEF TypeOK
  <2>7. unsure' \subseteq Series
    BY <1>0 DEF Edit, TypeOK
  <2> QED BY <1>0, <2>2, <2>3, <2>4, <2>6, <2>7, <2>9 DEF TypeOK
<1>2. \A t \in Series : /\ outbox'[t] = IF t = s THEN op ELSE outbox[t]
                        /\ local'[t] = IF t = s THEN row ELSE local[t]
                        /\ intent'[t] = IF t = s THEN wish ELSE intent[t]
                        /\ t # s => (t \in unsure' <=> t \in unsure)
                        /\ InHand(t)' <=> InHand(t)
                        /\ Dropped(t)' <=> Dropped(t)
  BY <1>0 DEF Edit, TypeOK, InHand, Dropped
<1>3. s \notin unsure' => ~InHand(s) /\ ~Dropped(s) /\ sure /\ (op.kind = "delete" \/ s \notin unsure)
  BY DEF Edit
<1>4. OpsWellMade'
  BY <1>0, <1>2 DEF LibraryInv, OpsWellMade
<1>5. OpsAreDue'
  <2>1. s \notin unsure' => Due(op, server[s]) = wish
    BY <1>3 DEF Due
  <2> QED BY <1>0, <1>2, <1>3, <2>1 DEF LibraryInv, OpsAreDue, Waiting
<1>6. HandWaits'
  BY <1>0, <1>2, <1>3 DEF LibraryInv, HandWaits, Waiting
<1>7. SentInTurn' /\ NothingTouched'
  BY <1>0 DEF LibraryInv, SentInTurn, OnTheWire, HasLanded, NothingTouched
<1>8. WaitingOpShown'
  BY <1>2 DEF LibraryInv, WaitingOpShown, Shown
<1>9. QuietMeansMirrored'
  BY <1>0, <1>2 DEF LibraryInv, QuietMeansMirrored, Quiet, Waiting
<1>10. PassReads' /\ RereadDone'
  BY <1>0, <1>2 DEF LibraryInv, PassReads, RereadDone, RereadOver, Mirrored, Waiting
<1> QED BY <1>1, <1>4, <1>5, <1>6, <1>7, <1>8, <1>9, <1>10 DEF LibraryInv

\* One more column in the payload is one more column of the row it makes.
LEMMA OneMoreColumn ==
    ASSUME NEW m \in Nat, NEW x \in Row(m), NEW pay \in Row(m), NEW f \in Fields, n \in Nat
    PROVE  /\ Written(x, WithColumn(pay, f), Fields) = Changed(Written(x, pay, Fields), f)
           /\ f \in Posted => Added(Gone, WithColumn(pay, f)) = Changed(Added(Gone, pay), f)
           /\ Written(x, WithColumn(Gone, f), Fields) = Changed(x, f)
<1>1. n # Undef
  BY DEF Undef
<1>2. WithColumn(pay, f)[f] = n /\ \A g \in Fields : g # f => WithColumn(pay, f)[g] = pay[g]
  BY DEF WithColumn, Row
<1>3. WithColumn(Gone, f)[f] = n /\ \A g \in Fields : g # f => WithColumn(Gone, f)[g] = Undef
  BY DEF WithColumn, Gone
<1> HIDE DEF n
<1>4. Written(x, WithColumn(pay, f), Fields) = Changed(Written(x, pay, Fields), f)
  <2>1. CASE x = Gone
    BY <2>1 DEF Changed, Written
  <2>2. CASE x # Gone
    <3>1. Written(x, pay, Fields) # Gone
      BY <2>2 DEF Written, Gone, Row
    <3> QED BY <1>1, <1>2, <1>3, <2>2, <3>1 DEF Changed, Written
  <2> QED BY <2>1, <2>2
<1>5. f \in Posted => Added(Gone, WithColumn(pay, f)) = Changed(Added(Gone, pay), f)
  <2>1. Added(Gone, pay) # Gone
    BY DEF Added, Gone, Undef, Posted, Fields
  <2> QED BY <1>1, <1>2, <1>3, <2>1 DEF Changed, Written, Added
<1>6. Written(x, WithColumn(Gone, f), Fields) = Changed(x, f)
  BY <1>1, <1>3 DEF Changed, Written, Row, Gone
<1> QED BY <1>4, <1>5, <1>6

LEMMA UserEditsKeep == LibraryInv /\ UserEdits => LibraryInv'
<1> SUFFICES ASSUME LibraryInv, UserEdits PROVE LibraryInv'
  OBVIOUS
<1>1. PICK s \in Series : \/ Upsert(s) \/ Delete(s) \/ Poster(s) \/ Owned(s)
                          \/ \E f \in Fields : Patch(s, f)
  BY DEF UserEdits
<1> DEFINE op == outbox[s]
<1>2. /\ edits \in Nat /\ n \in Nat /\ n # Undef
      /\ local[s] \in Row(n) /\ intent[s] \in Row(n) /\ server[s] \in Row(n)
      /\ op \in Op(n) /\ op.pay \in Row(n) /\ op.kind \in Kinds \union {"none"}
  <2>1. edits \in Nat /\ n \in Nat /\ edits <= n /\ n # Undef
    BY BoundsAssumption DEF LibraryInv, TypeOK, n, Undef
  <2>2. Row(edits) \subseteq Row(n) /\ Op(edits) \subseteq Op(n)
    BY <2>1, RowsGrow
  <2>3. local[s] \in Row(n) /\ intent[s] \in Row(n) /\ server[s] \in Row(n) /\ op \in Op(n)
    BY <2>2 DEF LibraryInv, TypeOK
  <2> QED BY <2>1, <2>3 DEF Op
<1>3. /\ WellMade(op) /\ Shown(op, local[s])
      /\ op.kind = "delete" => intent[s] = Gone
      /\ s \notin unsure /\ ~Dropped(s) => Due(op, server[s]) = intent[s]
  BY DEF LibraryInv, OpsWellMade, OpsAreDue, WaitingOpShown, Shown
<1>4. \A f \in Fields : /\ WithColumn(op.pay, f) \in Row(n)
                        /\ Changed(local[s], f) \in Row(n)
                        /\ Changed(intent[s], f) \in Row(n)
                        /\ WithColumn(op.pay, f)[f] = n
                        /\ \A g \in Fields : g # f => WithColumn(op.pay, f)[g] = op.pay[g]
  <2> TAKE f \in Fields
  <2>1. Gone \in Row(n)
    BY <1>2, GoneType
  <2>2. WithColumn(op.pay, f) \in Row(n) /\ WithColumn(Gone, f) \in Row(n)
    BY <1>2, <2>1 DEF WithColumn, Row, Undef
  <2>3. Changed(local[s], f) \in Row(n) /\ Changed(intent[s], f) \in Row(n)
    BY <1>2, <2>2, WrittenType DEF Changed
  <2> QED BY <1>2, <2>2, <2>3 DEF WithColumn, Row
\* The row shows one more column, as it shows the others.
<1>5. ASSUME NEW f \in Fields, NEW kind \in Kinds, kind = "delete" => op.kind = "delete"
      PROVE  Shown([kind |-> kind, pay |-> WithColumn(op.pay, f), ts |-> n], Changed(local[s], f))
  <2>1. CASE local[s] = Gone
    BY <2>1 DEF Shown, Changed, Written
  <2>2. CASE local[s] # Gone
    <3>1. kind # "delete"
      BY <1>3, <1>5, <2>2 DEF Shown
    <3>2. WithColumn(Gone, f)[f] = n
      BY DEF WithColumn, Gone
    <3>3. Changed(local[s], f)[f] = n /\ \A g \in Fields : g # f => Changed(local[s], f)[g] = local[s][g]
      BY <1>2, <2>2, <3>2 DEF Changed, Written
    <3>4. ASSUME NEW g \in Fields, WithColumn(op.pay, f)[g] # Undef
          PROVE  Changed(local[s], f)[g] = WithColumn(op.pay, f)[g]
      BY <1>3, <1>4, <2>2, <3>3, <3>4 DEF Shown
    <3> QED BY <3>1, <3>4 DEF Shown
  <2> QED BY <2>1, <2>2
\* What the op was due to make gains the column too.
<1>6. ASSUME NEW f \in Fields, NEW kind \in Kinds,
             (kind = "upsert") <=> (op.kind = "upsert"),
             (kind = "delete") <=> (op.kind = "delete"),
             PostCarries(s, f), s \notin unsure, ~Dropped(s)
      PROVE  Due([kind |-> kind, pay |-> WithColumn(op.pay, f), ts |-> n], server[s])
                = Changed(intent[s], f)
  <2>0. Due(op, server[s]) = intent[s]
    BY <1>3, <1>6
  <2>1. CASE op.kind = "delete"
    BY <1>3, <1>6, <2>1 DEF Due, Changed, Written
  <2>2. CASE op.kind = "upsert"
    <3>1. f \in Posted /\ server[s] = Gone
      BY <1>6, <2>2 DEF PostCarries
    <3>2. Added(Gone, WithColumn(op.pay, f)) = Changed(Added(Gone, op.pay), f)
      BY <1>2, <3>1, OneMoreColumn
    <3> QED BY <1>6, <2>0, <2>2, <3>1, <3>2 DEF Due
  <2>3. CASE op.kind = "none"
    <3>1. op.pay = Gone
      BY <1>3, <2>3 DEF WellMade, NoOp
    <3>2. Written(server[s], WithColumn(Gone, f), Fields) = Changed(server[s], f)
      BY <1>2, OneMoreColumn
    <3> QED BY <1>6, <2>0, <2>3, <3>1, <3>2 DEF Due, Kinds
  <2>4. CASE op.kind \in {"owned", "patch"}
    <3>1. Written(server[s], WithColumn(op.pay, f), Fields)
             = Changed(Written(server[s], op.pay, Fields), f)
      BY <1>2, OneMoreColumn
    <3> QED BY <1>6, <2>0, <2>4, <3>1 DEF Due, Kinds
  <2> QED BY <1>2, <2>1, <2>2, <2>3, <2>4 DEF Kinds
<1> HIDE DEF op
<1>7. CASE Upsert(s)
  <2> DEFINE row == [f \in Fields |-> IF f \in Posted THEN n ELSE 0]
             new == [kind |-> "upsert", pay |-> row, ts |-> n]
  <2>1. Edit(s, row, new, row, server[s] = Gone)
    BY <1>7 DEF Upsert
  <2>2. row \in Row(n) /\ new \in Op(n)
    BY <1>2 DEF Row, Op, Kinds, Undef
  <2>3. WellMade(new) /\ Shown(new, row)
    BY DEF WellMade, Shown
  <2>4. server[s] = Gone => Due(new, server[s]) = row
    BY <1>2 DEF Due, Added, Posted
  <2> HIDE DEF row
  <2> QED BY <2>1, <2>2, <2>3, <2>4, EditKeeps
<1>8. CASE Delete(s)
  <2> DEFINE new == [kind |-> "delete", pay |-> Gone, ts |-> n]
  <2>1. Edit(s, Gone, new, Gone, TRUE)
    BY <1>8 DEF Delete
  <2>2. Gone \in Row(n) /\ new \in Op(n)
    BY <1>2, GoneType DEF Op, Kinds
  <2>3. WellMade(new) /\ Shown(new, Gone) /\ Due(new, server[s]) = Gone
    BY DEF WellMade, Shown, Due
  <2> QED BY <2>1, <2>2, <2>3, EditKeeps
<1>9. ASSUME NEW f \in Fields, Patch(s, f) PROVE LibraryInv'
  <2> DEFINE kind == IF op.kind = "upsert" THEN "upsert" ELSE "patch"
             new == [kind |-> kind, pay |-> WithColumn(op.pay, f), ts |-> n]
             sure == op.kind # "delete" /\ PostCarries(s, f)
  <2>1. Edit(s, Changed(local[s], f), new, Changed(intent[s], f), sure)
    BY <1>9 DEF Patch, op
  <2>2. kind \in Kinds /\ kind # "delete" /\ kind # "none" /\ kind # "owned"
    BY DEF Kinds
  <2>3. new \in Op(n) /\ new.kind # "none" /\ new.kind # "delete"
    BY <1>2, <1>4, <2>2 DEF Op
  <2>4. WellMade(new)
    BY <1>2, <1>4, <2>2 DEF WellMade
  <2>5. Shown(new, Changed(local[s], f))
    BY <1>5, <2>2
  <2>6. sure /\ s \notin unsure /\ ~Dropped(s) => Due(new, server[s]) = Changed(intent[s], f)
    BY <1>6, <2>2
  <2>7. sure \in BOOLEAN
    BY DEF PostCarries
  <2> HIDE DEF new, sure
  <2> QED BY <1>4, <2>1, <2>3, <2>4, <2>5, <2>6, <2>7, EditKeeps
<1>10. CASE Poster(s)
  <2> DEFINE kind == IF op.kind \in {"upsert", "owned"} THEN op.kind ELSE "patch"
             new == [kind |-> kind, pay |-> WithColumn(op.pay, "poster"), ts |-> n]
             sure == PostCarries(s, "poster")
  <2>1. op.kind # "delete" /\ Edit(s, Changed(local[s], "poster"), new, Changed(intent[s], "poster"), sure)
    BY <1>10 DEF Poster, op
  <2>2. kind \in Kinds /\ kind # "delete" /\ kind # "none" /\ "poster" \in Fields
        /\ (kind = "owned" <=> op.kind = "owned") /\ (kind = "upsert" <=> op.kind = "upsert")
    BY DEF Kinds, Fields
  <2>3. new \in Op(n) /\ new.kind # "none" /\ new.kind # "delete"
    BY <1>2, <1>4, <2>2 DEF Op
  <2>4. WellMade(new)
    <3>1. WithColumn(op.pay, "poster")["poster"] # Undef
      BY <1>2, <1>4, <2>2
    <3>2. \A g \in {"owned", "label", "review"} : WithColumn(op.pay, "poster")[g] = op.pay[g]
      BY <1>4 DEF Fields
    <3> QED BY <1>3, <2>2, <3>1, <3>2 DEF WellMade
  <2>5. Shown(new, Changed(local[s], "poster"))
    BY <1>5, <2>2
  <2>6. sure /\ s \notin unsure /\ ~Dropped(s) => Due(new, server[s]) = Changed(intent[s], "poster")
    BY <1>6, <2>1, <2>2
  <2>7. sure \in BOOLEAN
    BY DEF PostCarries
  <2> HIDE DEF new, sure
  <2> QED BY <1>4, <2>1, <2>2, <2>3, <2>4, <2>5, <2>6, <2>7, EditKeeps
<1>11. CASE Owned(s)
  <2> DEFINE kind == IF op.kind = "none" THEN "owned" ELSE op.kind
             new == [kind |-> kind, pay |-> WithColumn(op.pay, "owned"), ts |-> n]
             sure == PostCarries(s, "owned")
  <2>1. Edit(s, Changed(local[s], "owned"), new, Changed(intent[s], "owned"), sure)
    BY <1>11 DEF Owned, KindOwned, op
  <2>2. kind \in Kinds /\ kind # "none" /\ "owned" \in Fields
        /\ (kind = "delete" <=> op.kind = "delete") /\ (kind = "upsert" <=> op.kind = "upsert")
    BY <1>2 DEF Kinds, Fields
  <2>3. new \in Op(n) /\ new.kind # "none"
    BY <1>2, <1>4, <2>2 DEF Op
  <2>4. WellMade(new)
    <3>1. WithColumn(op.pay, "owned")["owned"] # Undef
      BY <1>2, <1>4, <2>2
    <3>2. \A g \in {"label", "review"} : WithColumn(op.pay, "owned")[g] = op.pay[g]
      BY <1>4 DEF Fields
    <3>3. op.kind = "none" => op.pay["label"] = Undef /\ op.pay["review"] = Undef
      BY <1>3 DEF WellMade, NoOp, Gone, Fields
    <3> QED BY <1>3, <2>2, <3>1, <3>2, <3>3 DEF WellMade
  <2>5. Shown(new, Changed(local[s], "owned"))
    BY <1>5, <2>2
  <2>6. sure /\ s \notin unsure /\ ~Dropped(s) => Due(new, server[s]) = Changed(intent[s], "owned")
    BY <1>6, <2>2
  <2>7. sure \in BOOLEAN
    BY DEF PostCarries
  <2>8. new.kind = "delete" => Changed(intent[s], "owned") = Gone
    BY <1>3, <2>2 DEF Changed, Written
  <2> HIDE DEF new, sure
  <2> QED BY <1>4, <2>1, <2>2, <2>3, <2>4, <2>5, <2>6, <2>7, <2>8, EditKeeps
<1> QED BY <1>1, <1>7, <1>8, <1>9, <1>10, <1>11

-----------------------------------------------------------------------------
(* A pass *)

LEMMA StartKeeps == LibraryInv /\ StartPass => LibraryInv'
<1> SUFFICES ASSUME LibraryInv, StartPass PROVE LibraryInv'
  OBVIOUS
<1>1. /\ pass.st = "off" /\ pass.touched = {}
      /\ pass' = [pass EXCEPT !.st = "flush", !.todo = outbox, !.touched = {}]
      /\ UNCHANGED <<local, outbox, server, tag, tries, list, unsure, behind, overtaken, edits, visits, intent>>
  BY DEF StartPass, Mirror, Wish, Rest, LibraryInv, NothingTouched
<1>2. pass'.st = "flush" /\ pass'.todo = outbox /\ pass'.touched = {}
  BY <1>1 DEF LibraryInv, TypeOK
<1>3. TypeOK'
  BY <1>1 DEF LibraryInv, TypeOK, PassStates
<1>4. OpsWellMade' /\ OpsAreDue' /\ WaitingOpShown'
  BY <1>1, <1>2 DEF LibraryInv, OpsWellMade, OpsAreDue, Dropped, WaitingOpShown
<1>5. HandWaits'
  BY <1>1, <1>2 DEF LibraryInv, OpsWellMade, WellMade, HandWaits, InHand, Waiting
<1>6. SentInTurn' /\ NothingTouched'
  BY <1>2 DEF SentInTurn, OnTheWire, NothingTouched
<1>7. QuietMeansMirrored'
  BY <1>1, <1>2 DEF LibraryInv, QuietMeansMirrored, Quiet, Dropped, InHand, Waiting
<1>8. PassReads' /\ RereadDone'
  BY <1>1, <1>2, NoReread
<1> QED BY <1>3, <1>4, <1>5, <1>6, <1>7, <1>8 DEF LibraryInv

LEMMA TakeUpKeeps ==
    ASSUME LibraryInv, NEW s \in Series, TakeUp(s)
    PROVE  LibraryInv'
<1>1. /\ pass.st = "flush" /\ pass.todo[s] # NoOp
      /\ pass' = [pass EXCEPT !.st = "wire", !.cur = s, !.left = Requests(pass.todo[s])]
      /\ UNCHANGED <<local, outbox, server, tag, tries, list, unsure, behind, overtaken, edits, visits, intent>>
  BY DEF TakeUp, Unsent, Mirror, Wish, Rest
<1>2. /\ pass'.st = "wire" /\ pass'.todo = pass.todo /\ pass'.cur = s
      /\ pass'.left = Requests(pass.todo[s]) /\ pass'.touched = pass.touched
  BY <1>1 DEF LibraryInv, TypeOK
<1>3. /\ pass.todo[s] \in Op(edits) /\ WellMade(pass.todo[s])
      /\ Requests(pass.todo[s]) \subseteq Endpoints
  BY RequestKinds DEF LibraryInv, TypeOK, OpsWellMade
<1>4. TypeOK'
  <2> DEFINE left == Requests(pass.todo[s])
  <2> HIDE DEF left
  <2>1. pass' = [pass EXCEPT !.st = "wire", !.cur = s, !.left = left] /\ left \subseteq Endpoints
    BY <1>1, <1>3 DEF left
  <2>2. TypeOK /\ "wire" \in PassStates
    BY DEF LibraryInv, PassStates
  <2>3. pass' \in [st : PassStates, todo : [Series -> Op(edits)], cur : Series,
                   left : SUBSET Endpoints, answer : {"ok", "failed", "refused"},
                   touched : SUBSET Series, came : [Series -> SUBSET Row(edits)]]
    <3>1. pass \in [st : PassStates, todo : [Series -> Op(edits)], cur : Series,
                    left : SUBSET Endpoints, answer : {"ok", "failed", "refused"},
                    touched : SUBSET Series, came : [Series -> SUBSET Row(edits)]]
      BY <2>2 DEF TypeOK
    <3> QED BY <2>1, <2>2, <3>1
  <2> QED BY <1>1, <2>2, <2>3 DEF TypeOK
<1>5. OpsWellMade' /\ OpsAreDue' /\ WaitingOpShown'
  BY <1>1, <1>2 DEF LibraryInv, OpsWellMade, OpsAreDue, Dropped, WaitingOpShown
<1>6. HandWaits' /\ NothingTouched'
  BY <1>1, <1>2 DEF LibraryInv, HandWaits, InHand, Waiting, NothingTouched
<1>7. SentInTurn'
  BY <1>1, <1>2, <1>3, SomeRequest DEF SentInTurn
<1>8. QuietMeansMirrored'
  BY <1>1, <1>2 DEF LibraryInv, QuietMeansMirrored, Quiet, Dropped, InHand, Waiting
<1>9. PassReads' /\ RereadDone'
  BY <1>1, <1>2, NoReread
<1> QED BY <1>4, <1>5, <1>6, <1>7, <1>8, <1>9 DEF LibraryInv

\* The op at hand, and the request that is out.
LEMMA AtHand ==
    ASSUME LibraryInv, OnTheWire
    PROVE  LET op == pass.todo[pass.cur]
           IN /\ pass.cur \in Series /\ InHand(pass.cur)
              /\ op \in Op(edits) /\ op # NoOp /\ WellMade(op) /\ edits \in Nat
              /\ op.pay \in Row(edits) /\ server[pass.cur] \in Row(edits)
              /\ Requests(op) \subseteq Endpoints
              /\ NextOf(pass.left) \in Requests(op)
              /\ NextOf(pass.left) \in pass.left
<1> DEFINE op == pass.todo[pass.cur]
<1>1. /\ pass.cur \in Series /\ op \in Op(edits) /\ WellMade(op) /\ op # NoOp
      /\ edits \in Nat /\ server[pass.cur] \in Row(edits)
      /\ pass.left # {} /\ pass.left \subseteq Requests(op)
  BY BoundsAssumption DEF LibraryInv, TypeOK, OpsWellMade, SentInTurn
<1>2. NextOf(pass.left) \in pass.left
  BY <1>1, NextIsLeft
<1> QED BY <1>1, <1>2, RequestKinds DEF OnTheWire, InHand, Op

LEMMA AnswerKeeps ==
    ASSUME LibraryInv, NEW landed \in BOOLEAN, NEW answer \in {"ok", "failed", "refused"},
           Answer(landed, answer)
    PROVE  LibraryInv'
<1> DEFINE s == pass.cur
           op == pass.todo[s]
           q == NextOf(pass.left)
           row == IF landed THEN Handled(q, server[s], op.pay) ELSE server[s]
<1>1. /\ pass.st = "wire" /\ (answer = "ok" => landed)
      /\ server' = [server EXCEPT ![s] = row]
      /\ pass' = [pass EXCEPT !.st = "reply", !.answer = answer]
      /\ UNCHANGED <<local, outbox, tag, tries, list, unsure, behind, overtaken, edits, visits, intent>>
  BY DEF Answer, Mirror, Wish, Rest, LibraryInv, TypeOK
<1>2. /\ s \in Series /\ InHand(s) /\ op \in Op(edits) /\ WellMade(op) /\ op # NoOp
      /\ op.pay \in Row(edits) /\ server[s] \in Row(edits) /\ edits \in Nat
      /\ Requests(op) \subseteq Endpoints /\ q \in Requests(op) /\ q \in pass.left
  BY <1>1, AtHand DEF OnTheWire
<1>3. row \in Row(edits)
  BY <1>2, HandledType
<1>4. Due(op, row) = Due(op, server[s])
  BY <1>2, StillDue
<1>5. \A r \in Requests(op) \ pass.left : Handled(r, row, op.pay) = row
  <2>1. \A r \in Requests(op) \ pass.left : Handled(r, server[s], op.pay) = server[s]
    BY <1>1 DEF LibraryInv, SentInTurn, OnTheWire, HasLanded
  <2> QED BY <1>2, <2>1, LandedStays
<1>6. landed => Handled(q, row, op.pay) = row
  BY <1>2, LandsOnce
<1>7. s \notin unsure => Due(outbox[s], server[s]) = Due(op, server[s])
  BY <1>2 DEF LibraryInv, HandWaits
<1>8. outbox[s].kind # "none"
  BY <1>2 DEF LibraryInv, HandWaits, Waiting
<1>9. s \notin unsure => outbox[s] = op
  BY <1>2 DEF LibraryInv, HandWaits
<1>10. /\ pass'.st = "reply" /\ pass'.answer = answer /\ pass'.cur = s
       /\ pass'.todo = pass.todo /\ pass'.left = pass.left /\ pass'.touched = pass.touched
  BY <1>1 DEF LibraryInv, TypeOK
<1> HIDE DEF row, op, q
<1>11. server'[s] = row /\ \A t \in Series : t # s => server'[t] = server[t]
  BY <1>1, <1>2 DEF LibraryInv, TypeOK
<1>12. TypeOK'
  BY <1>1, <1>3 DEF LibraryInv, TypeOK, PassStates
<1>13. OpsWellMade' /\ WaitingOpShown'
  BY <1>1, <1>10 DEF LibraryInv, OpsWellMade, WaitingOpShown
<1>14. OpsAreDue'
  <2> HIDE DEF s
  <2> QED BY <1>1, <1>4, <1>9, <1>11 DEF LibraryInv, OpsAreDue, Dropped, Waiting
<1>15. HandWaits' /\ NothingTouched'
  BY <1>1, <1>10 DEF LibraryInv, HandWaits, InHand, Waiting, NothingTouched
<1>16. SentInTurn'
  <2>1. op = pass.todo[pass.cur] /\ op = pass'.todo[pass'.cur] /\ row = server'[pass'.cur]
    BY <1>10, <1>11 DEF op
  <2>2. op # NoOp /\ pass.left # {} /\ pass.left \subseteq Requests(op)
    BY <1>1, <2>1 DEF LibraryInv, SentInTurn, OnTheWire
  <2>3. answer = "ok" => Handled(NextOf(pass'.left), row, op.pay) = row
    BY <1>1, <1>6, <1>10 DEF q
  <2>4. \A r \in Requests(op) \ pass'.left : Handled(r, row, op.pay) = row
    BY <1>5, <1>10
  <2> HIDE DEF s
  <2> QED BY <1>10, <2>1, <2>2, <2>3, <2>4 DEF SentInTurn, HasLanded
<1>17. QuietMeansMirrored'
  <2>1. ASSUME NEW t \in Series, ~Waiting(t)' PROVE server'[t] = server[t]
    BY <1>1, <1>8, <1>11, <2>1 DEF Waiting
  <2> QED BY <1>1, <1>10, <2>1 DEF LibraryInv, QuietMeansMirrored, Quiet, Dropped, InHand, Waiting
<1>18. PassReads' /\ RereadDone'
  BY <1>1, <1>10, NoReread
<1> QED BY <1>12, <1>13, <1>14, <1>15, <1>16, <1>17, <1>18 DEF LibraryInv

LEMMA NextRequestKeeps == LibraryInv /\ NextRequest => LibraryInv'
<1> SUFFICES ASSUME LibraryInv, NextRequest PROVE LibraryInv'
  OBVIOUS
<1> DEFINE op == pass.todo[pass.cur]
           q == NextOf(pass.left)
           left == pass.left \ {q}
<1>1. /\ pass.st = "reply" /\ pass.answer = "ok" /\ Cardinality(pass.left) > 1
      /\ pass' = [pass EXCEPT !.st = "wire", !.left = left]
      /\ UNCHANGED <<local, outbox, server, tag, tries, list, unsure, behind, overtaken, edits, visits, intent>>
  BY DEF NextRequest, Mirror, Wish, Rest
<1>2. pass.left \subseteq Endpoints /\ q \in pass.left
  BY <1>1, AtHand DEF OnTheWire, LibraryInv, TypeOK
<1>3. left # {}
  <2>1. IsFiniteSet(pass.left)
    BY <1>2, EndpointsFinite
  <2>2. Cardinality({q}) = 1
    BY FS_Singleton
  <2>3. pass.left # {q}
    BY <1>1, <2>2
  <2> QED BY <1>2, <2>3
<1>4. op # NoOp /\ pass.left \subseteq Requests(op) /\ HasLanded(q)
      /\ \A r \in Requests(op) \ pass.left : HasLanded(r)
  BY <1>1 DEF LibraryInv, SentInTurn, OnTheWire
<1> HIDE DEF left
<1>5. /\ pass'.st = "wire" /\ pass'.cur = pass.cur /\ pass'.todo = pass.todo
      /\ pass'.left = left /\ pass'.touched = pass.touched
  BY <1>1 DEF LibraryInv, TypeOK
<1>6. left \subseteq pass.left /\ left \subseteq Endpoints
  BY <1>2 DEF left
<1>7. TypeOK'
  BY <1>1, <1>6 DEF LibraryInv, TypeOK, PassStates
<1>8. OpsWellMade' /\ OpsAreDue' /\ WaitingOpShown'
  BY <1>1, <1>5 DEF LibraryInv, OpsWellMade, OpsAreDue, Dropped, WaitingOpShown
<1>9. HandWaits' /\ NothingTouched'
  BY <1>1, <1>5 DEF LibraryInv, HandWaits, InHand, Waiting, NothingTouched
<1>10. SentInTurn'
  <2>1. \A r \in Requests(op) \ left : r = q \/ r \in Requests(op) \ pass.left
    BY DEF left
  <2>2. \A r \in Requests(op) \ left : HasLanded(r)
    BY <1>4, <2>1
  <2> QED BY <1>1, <1>3, <1>4, <1>5, <1>6, <2>2 DEF SentInTurn, OnTheWire, HasLanded
<1>11. QuietMeansMirrored'
  BY <1>1, <1>5 DEF LibraryInv, QuietMeansMirrored, Quiet, Dropped, InHand, Waiting
<1>12. PassReads' /\ RereadDone'
  BY <1>1, <1>5, NoReread
<1> QED BY <1>7, <1>8, <1>9, <1>10, <1>11, <1>12 DEF LibraryInv

LEMMA SucceedKeeps == LibraryInv /\ Succeed => LibraryInv'
<1> SUFFICES ASSUME LibraryInv, Succeed PROVE LibraryInv'
  OBVIOUS
<1> DEFINE s == pass.cur
           op == pass.todo[s]
<1>1. /\ pass.st = "reply" /\ pass.answer = "ok" /\ Cardinality(pass.left) <= 1
      /\ outbox' = [outbox EXCEPT ![s] = NoOp]
      /\ tries' = [tries EXCEPT ![s] = 0]
      /\ pass' = [pass EXCEPT !.st = "flush", !.todo[s] = NoOp, !.left = {},
                              !.touched = @ \union {s}]
      /\ UNCHANGED <<local, server, tag, list, unsure, behind, overtaken, edits, visits, intent>>
  BY DEF Succeed, Settled, Mirror, Wish, Rest
<1>2. /\ s \in Series /\ InHand(s) /\ op \in Op(edits) /\ WellMade(op) /\ op # NoOp
      /\ server[s] \in Row(edits) /\ edits \in Nat /\ NextOf(pass.left) \in pass.left
      /\ pass.left \subseteq Endpoints
  BY <1>1, AtHand DEF OnTheWire, LibraryInv, TypeOK
<1>3. pass.left = {NextOf(pass.left)}
  <2>1. IsFiniteSet(pass.left)
    BY <1>2, EndpointsFinite
  <2>2. Cardinality(pass.left) \in Nat /\ Cardinality(pass.left) # 0
    BY <1>2, <2>1, FS_CardinalityType, FS_EmptySet
  <2>3. Cardinality(pass.left) = 1
    BY <1>1, <2>2
  <2> QED BY <1>2, <2>1, <2>3, FS_Singleton
<1>4. \A q \in Requests(op) : Handled(q, server[s], op.pay) = server[s]
  <2>1. /\ HasLanded(NextOf(pass.left))
        /\ \A q \in Requests(op) \ pass.left : HasLanded(q)
    BY <1>1 DEF LibraryInv, SentInTurn, OnTheWire
  <2> QED BY <1>3, <2>1 DEF HasLanded
<1>5. Due(op, server[s]) = server[s]
  BY <1>2, <1>4, AllLanded
<1>6. s \notin unsure => server[s] = intent[s]
  BY <1>1, <1>2, <1>5 DEF LibraryInv, HandWaits, OpsAreDue, Dropped
<1> HIDE DEF op
<1>7. /\ pass'.st = "flush" /\ pass'.touched = pass.touched \union {s}
      /\ pass'.todo = [pass.todo EXCEPT ![s] = NoOp]
  BY <1>1 DEF LibraryInv, TypeOK
<1>8. /\ outbox'[s] = NoOp /\ pass'.todo[s] = NoOp
      /\ \A t \in Series : t # s => outbox'[t] = outbox[t] /\ pass'.todo[t] = pass.todo[t]
  BY <1>1, <1>2, <1>7 DEF LibraryInv, TypeOK
<1>9. TypeOK'
  <2>1. NoOp \in Op(edits)
    BY <1>2, GoneType
  <2>2. tries' \in [Series -> 0..(MaxTries - 1)]
    BY <1>1, BoundsAssumption DEF LibraryInv, TypeOK
  <2>3. outbox' \in [Series -> Op(edits)] /\ pass'.todo \in [Series -> Op(edits)]
    BY <1>1, <1>7, <2>1 DEF LibraryInv, TypeOK
  <2>4. pass' \in [st : PassStates, todo : [Series -> Op(edits)], cur : Series,
                   left : SUBSET Endpoints, answer : {"ok", "failed", "refused"},
                   touched : SUBSET Series, came : [Series -> SUBSET Row(edits)]]
    BY <1>1, <1>2, <1>7, <2>3 DEF LibraryInv, TypeOK, PassStates
  <2> QED BY <1>1, <2>2, <2>3, <2>4 DEF LibraryInv, TypeOK
<1> HIDE DEF s
<1>10. OpsWellMade'
  BY <1>2, <1>8, GoneType DEF LibraryInv, OpsWellMade
<1>11. OpsAreDue'
  BY <1>1, <1>6, <1>8 DEF LibraryInv, OpsAreDue, Dropped, Waiting, Due, NoOp
<1>12. WaitingOpShown'
  BY <1>1, <1>8 DEF LibraryInv, WaitingOpShown, NoOp, Gone
<1>13. HandWaits' /\ SentInTurn' /\ NothingTouched'
  BY <1>1, <1>7, <1>8 DEF LibraryInv, HandWaits, InHand, Waiting, SentInTurn, OnTheWire, NothingTouched
<1>14. QuietMeansMirrored'
  BY <1>1, <1>7, <1>8 DEF LibraryInv, QuietMeansMirrored, Quiet, Dropped, InHand, Waiting
<1>15. PassReads' /\ RereadDone'
  BY <1>1, <1>7, NoReread
<1> QED BY <1>9, <1>10, <1>11, <1>12, <1>13, <1>14, <1>15 DEF LibraryInv

LEMMA GiveUpKeeps == LibraryInv /\ GiveUp => LibraryInv'
<1> SUFFICES ASSUME LibraryInv, GiveUp PROVE LibraryInv'
  OBVIOUS
<1> DEFINE s == pass.cur
<1>1. /\ pass.st = "reply"
      /\ outbox' = [outbox EXCEPT ![s] = NoOp]
      /\ tries' \in {tries, [tries EXCEPT ![s] = 0]}
      /\ pass' = [pass EXCEPT !.st = "dropped", !.todo[s] = NoOp, !.left = {}]
      /\ UNCHANGED <<local, server, tag, list, unsure, behind, overtaken, edits, visits, intent>>
  BY DEF GiveUp, Mirror, Wish, Rest
<1>2. s \in Series /\ edits \in Nat
  BY <1>1, AtHand DEF OnTheWire
<1>3. /\ pass'.st = "dropped" /\ pass'.touched = pass.touched /\ pass'.cur = s
      /\ pass'.todo = [pass.todo EXCEPT ![s] = NoOp]
  BY <1>1 DEF LibraryInv, TypeOK
<1>4. /\ outbox'[s] = NoOp /\ pass'.todo[s] = NoOp
      /\ \A t \in Series : t # s => outbox'[t] = outbox[t] /\ pass'.todo[t] = pass.todo[t]
  BY <1>1, <1>2, <1>3 DEF LibraryInv, TypeOK
<1>5. TypeOK'
  <2>1. NoOp \in Op(edits)
    BY <1>2, GoneType
  <2>2. tries' \in [Series -> 0..(MaxTries - 1)]
    BY <1>1, BoundsAssumption DEF LibraryInv, TypeOK
  <2>3. outbox' \in [Series -> Op(edits)] /\ pass'.todo \in [Series -> Op(edits)]
    BY <1>1, <1>2, <1>3, <2>1 DEF LibraryInv, TypeOK
  <2>4. pass' \in [st : PassStates, todo : [Series -> Op(edits)], cur : Series,
                   left : SUBSET Endpoints, answer : {"ok", "failed", "refused"},
                   touched : SUBSET Series, came : [Series -> SUBSET Row(edits)]]
    BY <1>1, <1>2, <1>3, <2>3 DEF LibraryInv, TypeOK, PassStates
  <2> QED BY <1>1, <2>2, <2>3, <2>4 DEF LibraryInv, TypeOK
<1> HIDE DEF s
<1>6. OpsWellMade'
  BY <1>2, <1>4, GoneType DEF LibraryInv, OpsWellMade
<1>7. OpsAreDue'
  BY <1>1, <1>3, <1>4 DEF LibraryInv, OpsAreDue, Dropped, Waiting, NoOp
<1>8. WaitingOpShown'
  BY <1>1, <1>4 DEF LibraryInv, WaitingOpShown, NoOp, Gone
<1>9. HandWaits' /\ SentInTurn' /\ NothingTouched'
  BY <1>1, <1>3, <1>4 DEF LibraryInv, HandWaits, InHand, Waiting, SentInTurn, OnTheWire, NothingTouched
<1>10. QuietMeansMirrored'
  BY <1>1, <1>3, <1>4 DEF LibraryInv, QuietMeansMirrored, Quiet, Dropped, InHand, Waiting
<1>11. PassReads' /\ RereadDone'
  BY <1>1, <1>3, NoReread
<1> QED BY <1>5, <1>6, <1>7, <1>8, <1>9, <1>10, <1>11 DEF LibraryInv

\* A step that sends nothing: the ops are as they were, no waiting row is
\* written, and what is being reported stays so.
LEMMA OffTheWireKeeps ==
    ASSUME LibraryInv, TypeOK',
           pass' = pass \/ pass'.st \in {"off", "flush", "refresh", "reread", "report"},
           pass.st = "off" => pass'.st = "off",
           \A s \in Series : pass'.todo[s] \in {pass.todo[s], NoOp},
           pass'.st = "off" => pass'.touched = {},
           UNCHANGED <<outbox, server, intent>>, unsure \subseteq unsure',
           \A s \in Series : /\ Dropped(s)' => Dropped(s)
                             /\ Dropped(s) => Dropped(s)' \/ s \in unsure',
           \A s \in Series : Waiting(s) => local'[s] = local[s],
           QuietMeansMirrored', PassReads', RereadDone'
    PROVE  LibraryInv'
<1>1. OpsWellMade'
  BY GoneType DEF LibraryInv, OpsWellMade
<1>2. OpsAreDue'
  <2>1. \A s \in Series : Waiting(s)' <=> Waiting(s)
    BY DEF Waiting
  <2> QED BY <2>1 DEF LibraryInv, OpsAreDue
<1>3. WaitingOpShown'
  <2> SUFFICES ASSUME NEW s \in Series
               PROVE  /\ outbox[s].kind = "delete" => local'[s] = Gone
                      /\ local'[s] # Gone => \A f \in Fields :
                             outbox[s].pay[f] # Undef => local'[s][f] = outbox[s].pay[f]
    BY DEF WaitingOpShown
  <2>1. CASE Waiting(s)
    BY <2>1 DEF LibraryInv, WaitingOpShown
  <2>2. CASE ~Waiting(s)
    BY <2>2 DEF LibraryInv, OpsWellMade, WellMade, Waiting, NoOp, Gone
  <2> QED BY <2>1, <2>2
<1>4. ASSUME NEW s \in Series, InHand(s)' PROVE Waiting(s) /\ (s \notin unsure' => outbox[s] = pass'.todo[s])
  <2>1. pass.todo[s] = pass'.todo[s] /\ pass.todo[s] # NoOp
    BY <1>4 DEF InHand
  <2>2. pass.st # "off"
    BY <1>4 DEF InHand
  <2> QED BY <2>1, <2>2 DEF LibraryInv, HandWaits, InHand
<1>5. HandWaits'
  BY <1>4 DEF HandWaits, Waiting
<1>6. SentInTurn' /\ NothingTouched'
  BY DEF LibraryInv, SentInTurn, OnTheWire, HasLanded, NothingTouched
<1> QED BY <1>1, <1>2, <1>3, <1>5, <1>6 DEF LibraryInv

\* A series that is quiet after a step that writes no row was quiet before.
LEMMA StillMirrored ==
    ASSUME LibraryInv, UNCHANGED <<local, server, outbox, overtaken>>,
           \A s \in Series : Quiet(s)' => Quiet(s) \/ Mirrored(s),
           behind \subseteq behind'
    PROVE  QuietMeansMirrored'
<1> SUFFICES ASSUME NEW s \in Series, Quiet(s)', s \notin overtaken PROVE local[s] = server[s]
  BY DEF QuietMeansMirrored
<1>1. CASE Quiet(s)
  BY <1>1 DEF LibraryInv, QuietMeansMirrored
<1>2. CASE Mirrored(s)
  <2>1. ~Waiting(s) /\ s \notin behind
    BY DEF Quiet, Waiting
  <2> QED BY <1>2, <2>1 DEF Mirrored
<1> QED BY <1>1, <1>2

\* What a write of an answer covers is as on the server or overtaken; it keeps
\* off the rows that wait.
LEMMA RowsWritten ==
    ASSUME LibraryInv, NEW of \in SUBSET Series, NEW rows \in [Series -> Row(edits)],
           WriteRows(of, rows)
    PROVE  /\ local' \in [Series -> Row(edits)]
           /\ behind' \subseteq Series /\ overtaken' \subseteq Series
           /\ \A s \in Series : Waiting(s) => local'[s] = local[s]
           /\ \A s \in Series : s \in of /\ ~Waiting(s) =>
                 local'[s] = server[s] \/ s \in overtaken'
           /\ \A s \in Series : s \notin of \/ Waiting(s) =>
                 /\ local'[s] = local[s]
                 /\ s \in behind' <=> s \in behind
                 /\ s \in overtaken' <=> s \in overtaken
<1>1. /\ local \in [Series -> Row(edits)] /\ behind \subseteq Series /\ overtaken \subseteq Series
  BY DEF LibraryInv, TypeOK
<1>2. \A s \in Series : local'[s] = IF s \notin of \/ Waiting(s) THEN local[s] ELSE rows[s]
  BY DEF WriteRows, GuardedRows
<1>3. local' \in [Series -> Row(edits)]
  BY <1>1 DEF WriteRows, GuardedRows
<1>4. \A s \in Series : /\ s \in behind' <=> s \in behind /\ ~(s \in of /\ ~Waiting(s))
                        /\ s \in overtaken' <=> \/ s \in overtaken /\ ~(s \in of /\ ~Waiting(s))
                                                \/ s \in of /\ ~Waiting(s) /\ rows[s] # server[s]
  BY DEF WriteRows
<1>5. behind' \subseteq Series /\ overtaken' \subseteq Series
  BY <1>1 DEF WriteRows
<1> QED BY <1>2, <1>3, <1>4, <1>5

LEMMA StopKeeps == LibraryInv /\ Stop => LibraryInv'
<1> SUFFICES ASSUME LibraryInv, Stop PROVE LibraryInv'
  OBVIOUS
<1>1. /\ pass.st = "reply" /\ ~Exhausted(pass.cur)
      /\ tries' = [tries EXCEPT ![pass.cur] = @ + 1]
      /\ pass' = [pass EXCEPT !.st = "refresh", !.todo = NoOps, !.left = {}]
      /\ UNCHANGED <<local, outbox, server, tag, list, unsure, behind, overtaken, edits, visits, intent>>
  BY DEF Stop, Mirror, Wish, Rest
<1>2. /\ pass'.st = "refresh" /\ pass'.touched = pass.touched
      /\ \A s \in Series : pass'.todo[s] = NoOp
  BY <1>1 DEF LibraryInv, TypeOK, NoOps
<1>3. TypeOK'
  <2>1. NoOps \in [Series -> Op(edits)] /\ edits \in Nat
    BY GoneType, BoundsAssumption DEF LibraryInv, TypeOK, NoOps
  <2>2. tries' \in [Series -> 0..(MaxTries - 1)]
    BY <1>1, BoundsAssumption DEF LibraryInv, TypeOK, Exhausted
  <2> QED BY <1>1, <2>1, <2>2 DEF LibraryInv, TypeOK, PassStates
<1>4. \A s \in Series : ~Dropped(s) /\ ~Dropped(s)'
  BY <1>1, <1>2 DEF Dropped
<1>5. ASSUME NEW s \in Series, Quiet(s)' PROVE Quiet(s)
  BY <1>1, <1>2, <1>4, <1>5 DEF Quiet, LibraryInv, HandWaits, Waiting
<1>6. QuietMeansMirrored'
  BY <1>1, <1>5, StillMirrored
<1>7. PassReads' /\ RereadDone'
  BY <1>1, <1>2, NoReread
<1> QED BY <1>1, <1>2, <1>3, <1>4, <1>6, <1>7, OffTheWireKeeps

LEMMA FlushDoneKeeps == LibraryInv /\ FlushDone => LibraryInv'
<1> SUFFICES ASSUME LibraryInv, FlushDone PROVE LibraryInv'
  OBVIOUS
<1>1. /\ pass.st = "flush" /\ pass' = [pass EXCEPT !.st = "refresh"]
      /\ UNCHANGED <<local, outbox, server, tag, tries, list, unsure, behind, overtaken, edits, visits, intent>>
  BY DEF FlushDone, Mirror, Wish, Rest
<1>2. pass'.st = "refresh" /\ pass'.todo = pass.todo /\ pass'.touched = pass.touched
  BY <1>1 DEF LibraryInv, TypeOK
<1>3. TypeOK'
  BY <1>1 DEF LibraryInv, TypeOK, PassStates
<1>4. \A s \in Series : ~Dropped(s) /\ ~Dropped(s)'
  BY <1>1, <1>2 DEF Dropped
<1>5. ASSUME NEW s \in Series, Quiet(s)' PROVE Quiet(s)
  BY <1>1, <1>2, <1>4, <1>5 DEF Quiet, InHand, Waiting
<1>6. QuietMeansMirrored'
  BY <1>1, <1>5, StillMirrored
<1>7. PassReads' /\ RereadDone'
  BY <1>1, <1>2, NoReread
<1> QED BY <1>1, <1>2, <1>3, <1>4, <1>6, <1>7, OffTheWireKeeps

LEMMA EndPassKeeps == LibraryInv /\ EndPass => LibraryInv'
<1> SUFFICES ASSUME LibraryInv, EndPass PROVE LibraryInv'
  OBVIOUS
<1>1. /\ pass.st = "refresh" /\ pass.touched = {} /\ pass' = NoPass
      /\ UNCHANGED <<local, outbox, server, tag, tries, list, unsure, behind, overtaken, edits, visits, intent>>
  BY DEF EndPass, Mirror, Wish, Rest
<1>2. /\ pass'.st = "off" /\ pass'.touched = {} /\ \A s \in Series : pass'.todo[s] = NoOp
  BY <1>1, NoPassType DEF NoOps
<1>3. TypeOK'
  BY <1>1, NoPassType, BoundsAssumption DEF LibraryInv, TypeOK
<1>4. \A s \in Series : ~Dropped(s) /\ ~Dropped(s)'
  BY <1>1, <1>2 DEF Dropped
<1>5. ASSUME NEW s \in Series, Quiet(s)' PROVE Quiet(s)
  BY <1>1, <1>2, <1>4, <1>5 DEF Quiet, LibraryInv, HandWaits, Waiting
<1>6. QuietMeansMirrored'
  BY <1>1, <1>5, StillMirrored
<1>7. PassReads' /\ RereadDone'
  BY <1>1, <1>2, NoReread
<1> QED BY <1>1, <1>2, <1>3, <1>4, <1>6, <1>7, OffTheWireKeeps

\* What a reader has, and what its next step leaves it.
LEMMA ReaderType ==
    ASSUME LibraryInv, NEW r \in Readers
    PROVE  /\ list[r].rows \in [Series -> Row(edits)] /\ list[r].of \in SUBSET Series
           /\ NoRead \in [st : ReadStates, rows : [Series -> Row(edits)], of : SUBSET Series]
           /\ \A st \in ReadStates : [list EXCEPT ![r].st = st]
                 \in [Readers -> [st : ReadStates, rows : [Series -> Row(edits)], of : SUBSET Series]]
           /\ [list EXCEPT ![r] = NoRead]
                 \in [Readers -> [st : ReadStates, rows : [Series -> Row(edits)], of : SUBSET Series]]
<1>1. edits \in Nat
  BY BoundsAssumption DEF LibraryInv, TypeOK
<1> QED BY <1>1, NoReadType DEF LibraryInv, TypeOK

-----------------------------------------------------------------------------
(* The re-read after an op was given up, and its report *)

LEMMA ForgetKeeps ==
    ASSUME LibraryInv, NEW own \in BOOLEAN, Forget(own)
    PROVE  LibraryInv'
<1> DEFINE read == [st |-> "taken", rows |-> server, of |-> Series]
<1>1. /\ pass.st = "dropped" /\ tag' = {}
      /\ list' = IF own THEN [list EXCEPT !["pass"] = read] ELSE list
      /\ behind' = IF own THEN behind ELSE behind \union {pass.cur}
      /\ pass' = [pass EXCEPT !.st = IF own THEN "reread" ELSE "report"]
      /\ UNCHANGED <<local, outbox, server, tries, unsure, overtaken, edits, visits, intent>>
  BY DEF Forget, Forgotten, NoTag, Wish, Rest
<1>2. /\ pass'.st = (IF own THEN "reread" ELSE "report") /\ pass'.todo = pass.todo
      /\ pass'.touched = pass.touched /\ pass'.cur = pass.cur /\ pass.cur \in Series
  BY <1>1 DEF LibraryInv, TypeOK
<1>3. list["pass"].st = "free" /\ "pass" \in Readers
  BY <1>1 DEF LibraryInv, PassReads, Readers
<1>4. TypeOK'
  <2>1. read \in [st : ReadStates, rows : [Series -> Row(edits)], of : SUBSET Series]
    BY DEF LibraryInv, TypeOK, ReadStates
  <2> HIDE DEF read
  <2>2. list' \in [Readers -> [st : ReadStates, rows : [Series -> Row(edits)], of : SUBSET Series]]
    BY <1>1, <2>1 DEF LibraryInv, TypeOK
  <2>3. IsFiniteSet(tag') /\ Cardinality(tag') <= 1
    BY <1>1, FS_EmptySet
  <2>4. pass' \in [st : PassStates, todo : [Series -> Op(edits)], cur : Series,
                   left : SUBSET Endpoints, answer : {"ok", "failed", "refused"},
                   touched : SUBSET Series, came : [Series -> SUBSET Row(edits)]]
    BY <1>1 DEF LibraryInv, TypeOK, PassStates
  <2>5. behind' \subseteq Series
    BY <1>1, <1>2 DEF LibraryInv, TypeOK
  <2> QED BY <1>1, <2>2, <2>3, <2>4, <2>5 DEF LibraryInv, TypeOK
<1>5. \A s \in Series : Dropped(s)' <=> Dropped(s)
  BY <1>1, <1>2 DEF Dropped
<1>6. ASSUME NEW s \in Series, Quiet(s)' PROVE Quiet(s)
  BY <1>1, <1>2, <1>5, <1>6 DEF Quiet, InHand, Waiting
<1>7. QuietMeansMirrored'
  BY <1>1, <1>6, StillMirrored
<1>8. own => list'["pass"].st = "taken" /\ list'["pass"].of = Series
  BY <1>1, <1>3 DEF LibraryInv, TypeOK
<1>9. PassReads' /\ RereadDone'
  <2>1. CASE own
    BY <1>1, <1>2, <1>8, <2>1 DEF PassReads, RereadDone, RereadOver, NoTag
  <2>2. CASE ~own
    BY <1>1, <1>2, <1>3, <2>2 DEF PassReads, RereadDone, Mirrored
  <2> QED BY <2>1, <2>2
<1> QED BY <1>1, <1>2, <1>4, <1>5, <1>7, <1>9, OffTheWireKeeps

LEMMA RereadFailsKeeps == LibraryInv /\ RereadFails => LibraryInv'
<1> SUFFICES ASSUME LibraryInv, RereadFails PROVE LibraryInv'
  OBVIOUS
<1>1. /\ pass.st = "reread" /\ list' = [list EXCEPT !["pass"] = NoRead]
      /\ behind' = behind \union {pass.cur}
      /\ pass' = [pass EXCEPT !.st = "report"]
      /\ UNCHANGED <<local, outbox, server, tag, tries, unsure, overtaken, edits, visits, intent>>
  BY DEF RereadFails, Wish, Rest
<1>2. /\ pass'.st = "report" /\ pass'.todo = pass.todo
      /\ pass'.touched = pass.touched /\ pass'.cur = pass.cur /\ pass.cur \in Series
      /\ list'["pass"].st = "free"
  BY <1>1, NoReadType, BoundsAssumption DEF LibraryInv, TypeOK, Readers
<1>3. TypeOK'
  <2>1. list' \in [Readers -> [st : ReadStates, rows : [Series -> Row(edits)], of : SUBSET Series]]
    BY <1>1, ReaderType DEF Readers
  <2>2. pass' \in [st : PassStates, todo : [Series -> Op(edits)], cur : Series,
                   left : SUBSET Endpoints, answer : {"ok", "failed", "refused"},
                   touched : SUBSET Series, came : [Series -> SUBSET Row(edits)]]
    BY <1>1 DEF LibraryInv, TypeOK, PassStates
  <2> QED BY <1>1, <1>2, <2>1, <2>2 DEF LibraryInv, TypeOK
<1>4. \A s \in Series : Dropped(s)' <=> Dropped(s)
  BY <1>1, <1>2 DEF Dropped
<1>5. ASSUME NEW s \in Series, Quiet(s)' PROVE Quiet(s)
  BY <1>1, <1>2, <1>4, <1>5 DEF Quiet, InHand, Waiting
<1>6. QuietMeansMirrored'
  BY <1>1, <1>5, StillMirrored
<1>7. PassReads' /\ RereadDone'
  BY <1>1, <1>2 DEF PassReads, RereadDone, Mirrored
<1> QED BY <1>1, <1>2, <1>3, <1>4, <1>6, <1>7, OffTheWireKeeps

LEMMA ReportKeeps == LibraryInv /\ Report => LibraryInv'
<1> SUFFICES ASSUME LibraryInv, Report PROVE LibraryInv'
  OBVIOUS
<1> DEFINE s == pass.cur
<1>1. /\ pass.st = "report" /\ pass' = [pass EXCEPT !.st = "flush"]
      /\ intent' = IF Waiting(s) THEN intent ELSE [intent EXCEPT ![s] = server[s]]
      /\ unsure' = IF Waiting(s) THEN unsure ELSE unsure \ {s}
      /\ UNCHANGED <<local, outbox, server, tag, tries, list, behind, overtaken, edits, visits>>
  BY DEF Report, Told, Mirror, Rest
<1>2. /\ pass'.st = "flush" /\ pass'.todo = pass.todo /\ pass'.touched = pass.touched
      /\ s \in Series
  BY <1>1 DEF LibraryInv, TypeOK
<1>3. TypeOK'
  <2>1. intent' \in [Series -> Row(edits)] /\ unsure' \subseteq Series
    BY <1>1, <1>2 DEF LibraryInv, TypeOK
  <2>2. pass' \in [st : PassStates, todo : [Series -> Op(edits)], cur : Series,
                   left : SUBSET Endpoints, answer : {"ok", "failed", "refused"},
                   touched : SUBSET Series, came : [Series -> SUBSET Row(edits)]]
    BY <1>1 DEF LibraryInv, TypeOK, PassStates
  <2> QED BY <1>1, <2>1, <2>2 DEF LibraryInv, TypeOK
<1>4. \A t \in Series : /\ Dropped(t) <=> t = s
                        /\ ~Dropped(t)'
                        /\ Waiting(t)' <=> Waiting(t)
                        /\ InHand(t)' <=> InHand(t)
                        /\ t # s => intent'[t] = intent[t] /\ (t \in unsure' <=> t \in unsure)
                        /\ Waiting(s) => intent'[s] = intent[s] /\ (s \in unsure' <=> s \in unsure)
                        /\ ~Waiting(s) => intent'[s] = server[s]
  BY <1>1, <1>2 DEF Dropped, Waiting, InHand, LibraryInv, TypeOK
<1> HIDE DEF s
<1>5. OpsWellMade' /\ WaitingOpShown'
  BY <1>1, <1>2 DEF LibraryInv, OpsWellMade, WaitingOpShown
<1>6. OpsAreDue'
  <2>1. ~Waiting(s) => outbox[s] = NoOp
    BY <1>2 DEF LibraryInv, OpsWellMade, WellMade, Waiting
  <2>2. ~Waiting(s) => Due(outbox[s], server[s]) = intent'[s] /\ outbox[s].kind # "delete"
    BY <1>2, <1>4, <2>1 DEF Due, NoOp
  <2> QED BY <1>1, <1>2, <1>4, <2>2 DEF LibraryInv, OpsAreDue
<1>7. ASSUME NEW t \in Series, InHand(t) PROVE t \in unsure' <=> t \in unsure
  BY <1>4, <1>7 DEF LibraryInv, HandWaits
<1>8. HandWaits'
  BY <1>1, <1>2, <1>4, <1>7 DEF LibraryInv, HandWaits
<1>9. SentInTurn' /\ NothingTouched'
  BY <1>2 DEF SentInTurn, OnTheWire, NothingTouched
<1>10. Mirrored(s)
  BY <1>1, <1>2 DEF LibraryInv, RereadDone, RereadOver, s
<1>11. QuietMeansMirrored'
  BY <1>1, <1>2, <1>4, <1>10 DEF LibraryInv, QuietMeansMirrored, Quiet, Mirrored
<1>12. PassReads' /\ RereadDone'
  BY <1>1, <1>2, NoReread
<1> QED BY <1>3, <1>5, <1>6, <1>8, <1>9, <1>11, <1>12 DEF LibraryInv

-----------------------------------------------------------------------------
(* Reads *)

LEMMA PageReadsKeep ==
    ASSUME LibraryInv, NEW of \in SUBSET Series, NEW st \in {"taken", "entry"}, PageReads(of, st)
    PROVE  LibraryInv'
<1> DEFINE rows == [s \in Series |-> IF s \in of THEN server[s] ELSE Gone]
           read == [st |-> st, of |-> of, rows |-> rows]
<1>1. /\ list' = [list EXCEPT !["page"] = read]
      /\ visits < MaxVisits /\ visits' = visits + 1
      /\ UNCHANGED <<local, outbox, server, tag, tries, pass, unsure, behind, overtaken, edits, intent>>
  BY DEF PageReads, Wish
<1>2. list'["pass"] = list["pass"]
  BY <1>1 DEF LibraryInv, TypeOK, Readers
<1>3. TypeOK'
  <2>1. edits \in Nat
    BY BoundsAssumption DEF LibraryInv, TypeOK
  <2>2. rows \in [Series -> Row(edits)]
    BY <2>1, GoneType DEF LibraryInv, TypeOK
  <2> HIDE DEF rows
  <2>3. read \in [st : ReadStates, rows : [Series -> Row(edits)], of : SUBSET Series]
    BY <2>2 DEF ReadStates
  <2> HIDE DEF read
  <2>4. list' \in [Readers -> [st : ReadStates, rows : [Series -> Row(edits)], of : SUBSET Series]]
    BY <1>1, <2>3 DEF LibraryInv, TypeOK
  <2>5. visits' \in 0..MaxVisits
    BY <1>1, BoundsAssumption DEF LibraryInv, TypeOK
  <2> QED BY <1>1, <2>4, <2>5 DEF LibraryInv, TypeOK
<1> HIDE DEF read
<1>4. \A s \in Series : (Quiet(s)' <=> Quiet(s)) /\ (Dropped(s)' <=> Dropped(s))
  BY <1>1 DEF Quiet, Dropped, InHand, Waiting
<1>5. QuietMeansMirrored'
  BY <1>1, <1>4, StillMirrored
<1>6. PassReads' /\ RereadDone'
  BY <1>1, <1>2 DEF LibraryInv, PassReads, RereadDone, RereadOver, Mirrored, Waiting
<1>7. pass.st = "off" => pass.touched = {}
  BY DEF LibraryInv, NothingTouched
<1> QED BY <1>1, <1>3, <1>4, <1>5, <1>6, <1>7, OffTheWireKeeps

\* A pass that goes on is past its re-read.
LEMMA GoneOn ==
    ASSUME LibraryInv, NEW r \in Readers, list[r].st # "free"
    PROVE  /\ r = "pass" => pass.st = "reread" /\ GoesOn(r) = [pass EXCEPT !.st = "report"]
           /\ r # "pass" => r = "page" /\ GoesOn(r) = pass
           /\ pass.cur \in Series
           /\ GoesOn(r).todo = pass.todo /\ GoesOn(r).touched = pass.touched
           /\ GoesOn(r).cur = pass.cur
           /\ GoesOn(r).st = IF r = "pass" THEN "report" ELSE pass.st
           /\ GoesOn(r) \in [st : PassStates, todo : [Series -> Op(edits)], cur : Series,
                   left : SUBSET Endpoints, answer : {"ok", "failed", "refused"},
                   touched : SUBSET Series, came : [Series -> SUBSET Row(edits)]]
BY DEF LibraryInv, TypeOK, PassReads, GoesOn, Readers, PassStates

LEMMA CheckTagKeeps ==
    ASSUME LibraryInv, NEW r \in Readers, CheckTag(r)
    PROVE  LibraryInv'
<1>1. /\ list[r].st = "taken"
      /\ UNCHANGED <<local, outbox, server, tag, tries, unsure, behind, overtaken, edits, visits, intent>>
  BY DEF CheckTag, Wish, Rest
<1>2. \/ list' = [list EXCEPT ![r].st = "kept"] /\ pass' = pass
      \/ /\ list' = [list EXCEPT ![r] = NoRead] /\ pass' = GoesOn(r)
         /\ tag = {list[r].rows}
  BY DEF CheckTag
<1>3. TypeOK'
  <2>1. "kept" \in ReadStates
    BY DEF ReadStates
  <2>2. list' \in [Readers -> [st : ReadStates, rows : [Series -> Row(edits)], of : SUBSET Series]]
    <3>1. CASE list' = [list EXCEPT ![r].st = "kept"]
      BY <3>1, <2>1, ReaderType
    <3>2. CASE list' = [list EXCEPT ![r] = NoRead]
      BY <3>2, ReaderType
    <3> QED BY <1>2, <3>1, <3>2
  <2>3. pass' \in [st : PassStates, todo : [Series -> Op(edits)], cur : Series,
                   left : SUBSET Endpoints, answer : {"ok", "failed", "refused"},
                   touched : SUBSET Series, came : [Series -> SUBSET Row(edits)]]
    BY <1>1, <1>2, GoneOn DEF LibraryInv, TypeOK
  <2> QED BY <1>1, <2>2, <2>3 DEF LibraryInv, TypeOK
<1>4. /\ pass'.todo = pass.todo /\ pass'.touched = pass.touched /\ pass'.cur = pass.cur
      /\ pass' = pass \/ (pass'.st = "report" /\ pass.st = "reread" /\ r = "pass")
  BY <1>1, <1>2, GoneOn
<1>5. \A s \in Series : (Quiet(s)' <=> Quiet(s)) /\ (Dropped(s)' <=> Dropped(s))
  BY <1>1, <1>4 DEF Quiet, Dropped, InHand, Waiting
<1>6. QuietMeansMirrored'
  BY <1>1, <1>5, StillMirrored
<1>7. r = "pass" /\ pass.st = "reread" /\ tag # NoTag =>
          \A s \in Series : pass.cur = s => Mirrored(s)
  BY <1>1 DEF LibraryInv, RereadDone, RereadOver
<1>8. tag = {list[r].rows} => tag # NoTag
  BY DEF NoTag
<1>9. \A s \in Series : Mirrored(s)' <=> Mirrored(s)
  BY <1>1 DEF Mirrored, Waiting
<1>10. ASSUME r = "pass" PROVE PassReads' /\ RereadDone'
  <2>1. CASE list' = [list EXCEPT ![r].st = "kept"] /\ pass' = pass
    <3>1. list'["pass"].st = "kept" /\ list'["pass"].of = list["pass"].of /\ pass.st # "report"
      BY <1>1, <1>10, <2>1 DEF LibraryInv, TypeOK, PassReads
    <3>2. PassReads'
      BY <1>1, <1>10, <2>1, <3>1 DEF LibraryInv, PassReads
    <3>3. ~RereadOver'
      BY <2>1, <3>1 DEF RereadOver
    <3> QED BY <3>2, <3>3 DEF RereadDone
  <2>2. CASE list' = [list EXCEPT ![r] = NoRead] /\ pass' = GoesOn(r) /\ tag = {list[r].rows}
    <3>1. list'["pass"].st = "free" /\ pass'.st = "report" /\ pass' # pass
      BY <1>1, <1>10, <2>2, GoneOn, NoReadType, BoundsAssumption DEF LibraryInv, TypeOK
    <3>2. PassReads'
      BY <3>1 DEF PassReads
    <3>3. \A s \in Series : pass'.cur = s => Mirrored(s)'
      BY <1>4, <1>7, <1>8, <1>9, <1>10, <2>2, <3>1
    <3> QED BY <3>2, <3>3 DEF RereadDone
  <2> QED BY <1>2, <2>1, <2>2
<1>11. ASSUME r # "pass" PROVE PassReads' /\ RereadDone'
  <2>1. list'["pass"] = list["pass"] /\ pass' = pass
    BY <1>1, <1>2, <1>11, GoneOn DEF LibraryInv, TypeOK, Readers
  <2>2. PassReads'
    BY <2>1 DEF LibraryInv, PassReads
  <2>3. RereadOver' <=> RereadOver
    BY <1>1, <2>1 DEF RereadOver
  <2> QED BY <1>9, <2>1, <2>2, <2>3 DEF LibraryInv, RereadDone
<1>12. pass'.st = "off" => pass'.touched = {}
  BY <1>4 DEF LibraryInv, NothingTouched
<1> QED BY <1>1, <1>3, <1>4, <1>5, <1>6, <1>10, <1>11, <1>12, OffTheWireKeeps

\* Rows are written and the pass waits on, or has one row less to read back.
LEMMA WriteMirrors ==
    ASSUME LibraryInv, NEW of \in SUBSET Series, NEW rows \in [Series -> Row(edits)],
           WriteRows(of, rows), UNCHANGED <<outbox, server>>,
           \A s \in Series : s \notin of /\ Quiet(s)' => Quiet(s) \/ s \in behind
    PROVE  /\ QuietMeansMirrored'
           /\ \A s \in Series : s \in of \/ Mirrored(s) => Mirrored(s)'
<1>1. \A s \in Series : s \in of /\ ~Waiting(s) => local'[s] = server[s] \/ s \in overtaken'
  BY RowsWritten
<1>2. \A s \in Series : s \notin of \/ Waiting(s) =>
          /\ local'[s] = local[s]
          /\ s \in behind' <=> s \in behind
          /\ s \in overtaken' <=> s \in overtaken
  BY RowsWritten
<1>3. \A s \in Series : Quiet(s)' => ~Waiting(s) /\ s \notin behind'
  BY DEF Quiet, Waiting
<1>4. QuietMeansMirrored'
  BY <1>1, <1>2, <1>3 DEF LibraryInv, QuietMeansMirrored
<1>5. \A s \in Series : s \in of \/ Mirrored(s) => Mirrored(s)'
  BY <1>1, <1>2 DEF Mirrored, Waiting
<1> QED BY <1>4, <1>5

LEMMA WriteReadKeeps ==
    ASSUME LibraryInv, NEW r \in Readers, WriteRead(r)
    PROVE  LibraryInv'
<1> DEFINE of == list[r].of
           rows == list[r].rows
<1>1. /\ list[r].st \in {"kept", "entry"} /\ WriteRows(of, rows)
      /\ list' = IF list[r].st = "kept" THEN [list EXCEPT ![r].st = "written"]
                 ELSE [list EXCEPT ![r] = NoRead]
      /\ UNCHANGED <<outbox, server, tag, tries, pass, unsure, edits, visits, intent>>
  BY DEF WriteRead, Wish, Rest
<1>2. of \in SUBSET Series /\ rows \in [Series -> Row(edits)] /\ pass.cur \in Series
  BY ReaderType DEF LibraryInv, TypeOK
<1> HIDE DEF of, rows
<1>3. TypeOK'
  <2>1. "written" \in ReadStates
    BY DEF ReadStates
  <2>2. list' \in [Readers -> [st : ReadStates, rows : [Series -> Row(edits)], of : SUBSET Series]]
    BY <1>1, <2>1, ReaderType
  <2>3. local' \in [Series -> Row(edits)] /\ behind' \subseteq Series /\ overtaken' \subseteq Series
    BY <1>1, <1>2, RowsWritten
  <2> QED BY <1>1, <2>2, <2>3 DEF LibraryInv, TypeOK
<1>4. \A s \in Series : /\ Dropped(s)' <=> Dropped(s)
                        /\ s \notin of /\ Quiet(s)' => Quiet(s) \/ s \in behind
  BY <1>1 DEF Quiet, Dropped, InHand, Waiting
<1>5. QuietMeansMirrored' /\ \A s \in Series : s \in of \/ Mirrored(s) => Mirrored(s)'
  BY <1>1, <1>2, <1>4, WriteMirrors
<1>6. ASSUME r = "pass" PROVE PassReads' /\ RereadDone'
  <2>1. /\ pass.st = "reread" /\ of = Series /\ list' = [list EXCEPT ![r].st = "written"]
    BY <1>1, <1>6 DEF LibraryInv, PassReads, of
  <2>2. list'["pass"].st = "written" /\ list'["pass"].of = Series
    BY <1>6, <2>1 DEF LibraryInv, TypeOK, of
  <2>3. PassReads'
    BY <1>1, <2>1, <2>2 DEF PassReads
  <2>4. \A s \in Series : Mirrored(s)'
    BY <1>5, <2>1
  <2> QED BY <2>3, <2>4 DEF RereadDone
<1>7. ASSUME r # "pass" PROVE PassReads' /\ RereadDone'
  <2>1. list'["pass"] = list["pass"]
    BY <1>1, <1>7 DEF LibraryInv, TypeOK, Readers
  <2>2. PassReads'
    BY <1>1, <2>1 DEF LibraryInv, PassReads
  <2>3. (RereadOver' <=> RereadOver) /\ pass' = pass
    BY <1>1, <2>1 DEF RereadOver
  <2> QED BY <1>5, <2>2, <2>3 DEF LibraryInv, RereadDone
<1>8. \A s \in Series : Waiting(s) => local'[s] = local[s]
  BY <1>1, <1>2, RowsWritten
<1>9. pass.st = "off" => pass.touched = {}
  BY DEF LibraryInv, NothingTouched
<1> QED BY <1>1, <1>3, <1>4, <1>5, <1>6, <1>7, <1>8, <1>9, OffTheWireKeeps

LEMMA RememberTagKeeps ==
    ASSUME LibraryInv, NEW r \in Readers, RememberTag(r)
    PROVE  LibraryInv'
<1>1. /\ list[r].st = "written" /\ tag' = {list[r].rows}
      /\ behind' = IF pass.st = "reread" /\ r = "page" THEN behind \union {pass.cur} ELSE behind
      /\ list' = [list EXCEPT ![r] = NoRead] /\ pass' = GoesOn(r)
      /\ UNCHANGED <<local, outbox, server, tries, unsure, overtaken, edits, visits, intent>>
  BY DEF RememberTag, Wish, Rest
<1>2. TypeOK'
  <2>1. IsFiniteSet(tag') /\ Cardinality(tag') <= 1
    <3>1. IsFiniteSet({list[r].rows}) /\ Cardinality({list[r].rows}) = 1
      BY FS_Singleton
    <3> QED BY <1>1, <3>1
  <2>2. \A x \in tag' : x \in [Series -> Row(edits)]
    BY <1>1, ReaderType
  <2>3. behind' \subseteq Series
    BY <1>1 DEF LibraryInv, TypeOK
  <2> QED BY <1>1, <2>1, <2>2, <2>3, ReaderType, GoneOn DEF LibraryInv, TypeOK
<1>3. /\ pass'.todo = pass.todo /\ pass'.touched = pass.touched
      /\ pass'.cur = pass.cur /\ pass.cur \in Series
      /\ r = "page" => pass' = pass
      /\ r = "pass" => pass'.st = "report" /\ pass.st = "reread"
      /\ r = "page" \/ r = "pass"
  BY <1>1, GoneOn DEF Readers
<1>4. \A s \in Series : Dropped(s)' <=> Dropped(s)
  BY <1>1, <1>3 DEF Dropped
<1>5. ASSUME NEW s \in Series, Quiet(s)' PROVE Quiet(s)
  BY <1>1, <1>3, <1>4, <1>5 DEF Quiet, InHand, Waiting
<1>6. QuietMeansMirrored'
  BY <1>1, <1>5, StillMirrored
<1>7. \A s \in Series : Mirrored(s) => Mirrored(s)'
  BY <1>1 DEF Mirrored, Waiting
<1>8. ASSUME r = "pass" PROVE PassReads' /\ RereadDone'
  <2>1. \A s \in Series : pass.cur = s => Mirrored(s)
    BY <1>1, <1>3, <1>8 DEF LibraryInv, RereadDone, RereadOver
  <2>2. list'["pass"].st = "free"
    BY <1>1, <1>8, NoReadType, BoundsAssumption DEF LibraryInv, TypeOK
  <2>3. PassReads'
    BY <2>2 DEF PassReads
  <2> QED BY <1>3, <1>7, <2>1, <2>3 DEF RereadDone
<1>9. ASSUME r = "page" PROVE PassReads' /\ RereadDone'
  <2>1. list'["pass"] = list["pass"] /\ pass' = pass
    BY <1>1, <1>3, <1>9 DEF LibraryInv, TypeOK, Readers
  <2>2. ASSUME pass.st = "reread" PROVE RereadDone'
    <3>1. \A s \in Series : pass'.cur = s => Mirrored(s)'
      BY <1>1, <1>9, <2>1, <2>2 DEF Mirrored
    <3> QED BY <3>1 DEF RereadDone
  <2>3. ASSUME pass.st # "reread" PROVE RereadDone'
    <3>1. RereadOver' <=> RereadOver
      BY <2>1, <2>3 DEF RereadOver
    <3> QED BY <1>7, <2>1, <3>1 DEF LibraryInv, RereadDone
  <2>4. PassReads'
    BY <2>1 DEF LibraryInv, PassReads
  <2> QED BY <2>2, <2>3, <2>4
<1>10. pass'.st = "off" => pass'.touched = {}
  BY <1>3 DEF LibraryInv, NothingTouched
<1> QED BY <1>1, <1>2, <1>3, <1>4, <1>6, <1>8, <1>9, <1>10, OffTheWireKeeps

LEMMA EntryCameKeeps ==
    ASSUME LibraryInv, NEW s \in Series, EntryCame(s)
    PROVE  LibraryInv'
<1>1. /\ pass.st = "refresh" /\ pass' = [pass EXCEPT !.came[s] = {server[s]}]
      /\ UNCHANGED <<local, outbox, server, tag, tries, list, unsure, behind, overtaken, edits, visits, intent>>
  BY DEF EntryCame, Mirror, Wish, Rest
<1>2. pass'.st = "refresh" /\ pass'.todo = pass.todo /\ pass'.touched = pass.touched
  BY <1>1 DEF LibraryInv, TypeOK
<1>3. TypeOK'
  <2> DEFINE came == [pass.came EXCEPT ![s] = {server[s]}]
  <2>1. came \in [Series -> SUBSET Row(edits)]
    BY DEF LibraryInv, TypeOK
  <2>2. pass' = [pass EXCEPT !.came = came]
    BY <1>1 DEF LibraryInv, TypeOK
  <2> HIDE DEF came
  <2> QED BY <1>1, <2>1, <2>2 DEF LibraryInv, TypeOK
<1>4. \A t \in Series : ~Dropped(t) /\ ~Dropped(t)'
  BY <1>1, <1>2 DEF Dropped
<1>5. ASSUME NEW t \in Series, Quiet(t)' PROVE Quiet(t)
  BY <1>1, <1>2, <1>4, <1>5 DEF Quiet, InHand, Waiting
<1>6. QuietMeansMirrored'
  BY <1>1, <1>5, StillMirrored
<1>7. PassReads' /\ RereadDone'
  BY <1>1, <1>2, NoReread
<1> QED BY <1>1, <1>2, <1>3, <1>4, <1>6, <1>7, OffTheWireKeeps

LEMMA EntryWrittenKeeps ==
    ASSUME LibraryInv, NEW s \in Series, EntryWritten(s)
    PROVE  LibraryInv'
<1>1. /\ pass.st = "refresh"
      /\ pass' = [pass EXCEPT !.touched = @ \ {s}, !.came[s] = {}]
      /\ UNCHANGED <<outbox, server, tag, tries, list, unsure, edits, visits, intent>>
  BY DEF EntryWritten, Wish, Rest
<1>2. PICK row \in pass.came[s] : WriteRows({s}, [NoRows EXCEPT ![s] = row])
  BY DEF EntryWritten
<1> DEFINE rows == [NoRows EXCEPT ![s] = row]
<1>3. rows \in [Series -> Row(edits)]
  <2>1. row \in Row(edits) /\ edits \in Nat
    BY BoundsAssumption DEF LibraryInv, TypeOK
  <2> QED BY <2>1, GoneType DEF NoRows
<1>4. WriteRows({s}, rows) /\ {s} \in SUBSET Series
  BY <1>2
<1> HIDE DEF rows
<1>5. /\ pass'.st = "refresh" /\ pass'.todo = pass.todo /\ pass'.touched = pass.touched \ {s}
  BY <1>1 DEF LibraryInv, TypeOK
<1>6. TypeOK'
  <2>1. local' \in [Series -> Row(edits)] /\ behind' \subseteq Series /\ overtaken' \subseteq Series
    BY <1>3, <1>4, RowsWritten
  <2> QED BY <1>1, <2>1 DEF LibraryInv, TypeOK
<1>7. \A t \in Series : /\ ~Dropped(t) /\ ~Dropped(t)'
                        /\ t \notin {s} /\ Quiet(t)' => Quiet(t) \/ t \in behind
  BY <1>1, <1>5 DEF Quiet, Dropped, InHand, Waiting
<1>8. QuietMeansMirrored'
  BY <1>1, <1>3, <1>4, <1>7, WriteMirrors
<1>9. PassReads' /\ RereadDone'
  BY <1>1, <1>5, NoReread
<1>10. \A t \in Series : Waiting(t) => local'[t] = local[t]
  BY <1>3, <1>4, RowsWritten
<1> QED BY <1>1, <1>5, <1>6, <1>7, <1>8, <1>9, <1>10, OffTheWireKeeps

LEMMA EntryFailedKeeps ==
    ASSUME LibraryInv, NEW s \in Series, EntryFailed(s)
    PROVE  LibraryInv'
<1>1. /\ pass.st = "refresh" /\ pass' = [pass EXCEPT !.touched = @ \ {s}]
      /\ behind' = behind \union {s}
      /\ UNCHANGED <<local, outbox, server, tag, tries, list, unsure, overtaken, edits, visits, intent>>
  BY DEF EntryFailed, Wish, Rest
<1>2. pass'.st = "refresh" /\ pass'.todo = pass.todo /\ pass'.touched = pass.touched \ {s}
  BY <1>1 DEF LibraryInv, TypeOK
<1>3. TypeOK'
  BY <1>1 DEF LibraryInv, TypeOK
<1>4. \A t \in Series : ~Dropped(t) /\ ~Dropped(t)'
  BY <1>1, <1>2 DEF Dropped
<1>5. ASSUME NEW t \in Series, Quiet(t)' PROVE Quiet(t)
  BY <1>1, <1>2, <1>4, <1>5 DEF Quiet, InHand, Waiting
<1>6. QuietMeansMirrored'
  BY <1>1, <1>5, StillMirrored
<1>7. PassReads' /\ RereadDone'
  BY <1>1, <1>2, NoReread
<1> QED BY <1>1, <1>2, <1>3, <1>4, <1>6, <1>7, OffTheWireKeeps

LEMMA ReloadKeeps == LibraryInv /\ Reload => LibraryInv'
<1> SUFFICES ASSUME LibraryInv, Reload PROVE LibraryInv'
  OBVIOUS
<1>1. /\ visits < MaxVisits /\ visits' = visits + 1
      /\ tries' = [s \in Series |-> 0] /\ pass' = NoPass
      /\ list' = [r \in Readers |-> NoRead]
      /\ behind' = behind \union pass.touched \union {s \in Series : Dropped(s)}
      /\ unsure' = unsure \union {s \in Series : Dropped(s)}
      /\ UNCHANGED <<local, outbox, server, tag, edits, intent, overtaken>>
  BY DEF Reload
<1>2. /\ pass'.st = "off" /\ pass'.touched = {} /\ \A s \in Series : pass'.todo[s] = NoOp
  BY <1>1, NoPassType DEF NoOps
<1>3. TypeOK'
  <2>1. /\ tries' \in [Series -> 0..(MaxTries - 1)] /\ visits' \in 0..MaxVisits
    BY <1>1, BoundsAssumption DEF LibraryInv, TypeOK
  <2>2. behind' \subseteq Series /\ unsure' \subseteq Series
    BY <1>1 DEF LibraryInv, TypeOK
  <2>3. edits \in Nat
    BY BoundsAssumption DEF LibraryInv, TypeOK
  <2> QED BY <1>1, <2>1, <2>2, <2>3, NoPassType, NoReadType DEF LibraryInv, TypeOK
<1>4. \A s \in Series : ~Dropped(s)' /\ (Dropped(s) => s \in unsure')
  BY <1>1, <1>2 DEF Dropped
<1>5. ASSUME NEW s \in Series, Quiet(s)' PROVE Quiet(s)
  <2>1. ~Waiting(s) /\ s \notin behind \union pass.touched /\ ~Dropped(s)
    BY <1>1, <1>5 DEF Quiet, Waiting
  <2>2. ~InHand(s)
    BY <2>1 DEF LibraryInv, HandWaits
  <2> QED BY <2>1, <2>2 DEF Quiet
<1>6. QuietMeansMirrored'
  BY <1>1, <1>5, StillMirrored
<1>7. PassReads' /\ RereadDone'
  BY <1>1, <1>2, NoReadType, BoundsAssumption DEF PassReads, RereadDone, RereadOver, Readers
<1> QED BY <1>1, <1>2, <1>3, <1>4, <1>6, <1>7, OffTheWireKeeps

-----------------------------------------------------------------------------
(* Theorems *)

LEMMA ReadStepKeeps ==
    ASSUME LibraryInv, NEW r \in Readers, ReadStep(r)
    PROVE  LibraryInv'
BY CheckTagKeeps, WriteReadKeeps, RememberTagKeeps DEF ReadStep

LEMMA StepKeeps == LibraryInv /\ [Next]_vars => LibraryInv'
<1> SUFFICES ASSUME LibraryInv, [Next]_vars PROVE LibraryInv'
  OBVIOUS
<1> USE DEF Readers
<1>1. CASE UserEdits
  BY <1>1, UserEditsKeep
<1>2. CASE StartPass
  BY <1>2, StartKeeps
<1>3. CASE PassStep
  <2>1. ASSUME NEW s \in Series, TakeUp(s) PROVE LibraryInv'
    BY <2>1, TakeUpKeeps
  <2>2. CASE Answers
    BY <2>2, AnswerKeeps DEF Answers
  <2>3. CASE NextRequest \/ Succeed \/ GiveUp \/ Stop
    BY <2>3, NextRequestKeeps, SucceedKeeps, GiveUpKeeps, StopKeeps
  <2>4. ASSUME NEW own \in BOOLEAN, Forget(own) PROVE LibraryInv'
    BY <2>4, ForgetKeeps
  <2>5. CASE RereadFails \/ Report \/ FlushDone \/ EndPass
    BY <2>5, RereadFailsKeeps, ReportKeeps, FlushDoneKeeps, EndPassKeeps
  <2>6. CASE ReadStep("pass")
    BY <2>6, ReadStepKeeps
  <2>7. ASSUME NEW s \in Series, EntryCame(s) \/ EntryWritten(s) \/ EntryFailed(s) PROVE LibraryInv'
    BY <2>7, EntryCameKeeps, EntryWrittenKeeps, EntryFailedKeeps
  <2> QED BY <1>3, <2>1, <2>2, <2>3, <2>4, <2>5, <2>6, <2>7 DEF PassStep
<1>4. CASE PageStep
  <2>1. CASE PageReadsList
    BY <2>1, PageReadsKeep DEF PageReadsList
  <2>2. ASSUME NEW s \in Series, PageReadsEntry(s) PROVE LibraryInv'
    BY <2>2, PageReadsKeep DEF PageReadsEntry
  <2>3. CASE ReadStep("page")
    BY <2>3, ReadStepKeeps
  <2> QED BY <1>4, <2>1, <2>2, <2>3 DEF PageStep
<1>5. CASE Reload
  BY <1>5, ReloadKeeps
<1>6. CASE UNCHANGED vars
  BY <1>6 DEF vars, LibraryInv, TypeOK, OpsWellMade, OpsAreDue, HandWaits, InHand, Waiting, Dropped,
              SentInTurn, OnTheWire, HasLanded, NothingTouched, WaitingOpShown, QuietMeansMirrored,
              Quiet, PassReads, RereadDone, RereadOver, Mirrored
<1> QED BY <1>1, <1>2, <1>3, <1>4, <1>5, <1>6 DEF Next

LEMMA LibraryInvariant == Spec => []LibraryInv
BY InitLibrary, StepKeeps, PTL DEF Spec

\* Rows, ops, the pass and the retry counts keep their types; a pass always
\* has a next request to send.
THEOREM TypeCorrect == Spec => []TypeOK
<1>1. LibraryInv => TypeOK
  BY DEF LibraryInv
<1> QED BY <1>1, LibraryInvariant, PTL

\* The screen shows what waits to be sent, whatever list or row is read back
\* meanwhile.
THEOREM WaitingOpsShow == Spec => []WaitingOpShown
<1>1. LibraryInv => WaitingOpShown
  BY DEF LibraryInv
<1> QED BY <1>1, LibraryInvariant, PTL

\* Once an op has left the queue the server holds what the user asked for, or
\* the user has been told: lost answers and partial sends lose nothing.  A reload
\* between the drop of an op and its report loses the report (unsure).
THEOREM NothingLost == Spec => []NoSilentLoss
<1>1. LibraryInv => NoSilentLoss
  <2> SUFFICES ASSUME LibraryInv, NEW s \in Series, ~Waiting(s), ~Dropped(s), s \notin unsure
               PROVE  server[s] = intent[s]
    BY DEF NoSilentLoss
  <2> QED BY DEF LibraryInv, OpsAreDue, Due, Waiting
<1> QED BY <1>1, LibraryInvariant, PTL

\* A series that is neither waiting, in a pass, nor owed a read-back is on the
\* device as it is on the server, whatever reads of the list and of single rows
\* are under way, unless an answer the server has left behind was written last.
THEOREM QuietSeriesMirrored == Spec => []QuietMeansMirrored
<1>1. LibraryInv => QuietMeansMirrored
  BY DEF LibraryInv
<1> QED BY <1>1, LibraryInvariant, PTL
=============================================================================
