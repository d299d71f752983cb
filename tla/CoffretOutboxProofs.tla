------------------------- MODULE CoffretOutboxProofs -------------------------
(***************************************************************************)
(* Proofs about CoffretOutbox, for any volumes, any number of tries, of    *)
(* edits, of reads and of reloads.                                         *)
(***************************************************************************)
EXTENDS CoffretOutbox, TLAPS

-----------------------------------------------------------------------------
(* The inductive invariant: shapes and ids *)

\* The tables are functions, the pass is a record, and there is none at rest.
Shapes ==
    /\ rows \in [DOMAIN rows -> Header] /\ srows \in [DOMAIN srows -> Header]
    /\ pass = [st |-> pass.st, todo |-> pass.todo, cur |-> pass.cur,
               answer |-> pass.answer, got |-> pass.got]
    /\ pass.got \in Nat
    /\ pass.st = "off" => pass = NoPass

\* Temporary ids are made of the edits, the server's are given out in turn.
Ids == (-edits)..(-1) \union 1..serial

IdsKnown ==
    /\ DOMAIN rows \subseteq Ids /\ DOMAIN outbox \subseteq Ids /\ DOMAIN pass.todo \subseteq Ids
    /\ DOMAIN intent \subseteq Ids /\ deleted \subseteq Ids
    /\ DOMAIN made = 1..serial
    /\ \A c \in DOMAIN outbox : /\ outbox[c].kind = "create" => c < 0
                                /\ outbox[c].ts <= edits
    /\ \A c \in DOMAIN pass.todo : pass.todo[c].kind = "create" => c < 0

-----------------------------------------------------------------------------
(* The pass and what it has in hand *)

\* The op at hand is done with, one way or the other.
Over == pass.st \in {"acked", "reread", "revols"}
Landed == pass.st = "acked" \/ (pass.st = "reply" /\ pass.answer = "ok")
Unsettled == DOMAIN pass.todo \ (IF Over THEN {pass.cur} ELSE {})

\* The op at hand is the oldest of the pass, and once it has landed the server
\* has what it asks for.
AtHand ==
    /\ pass.st \notin {"off", "flush"} =>
          /\ pass.cur \in DOMAIN pass.todo
          /\ \A d \in DOMAIN pass.todo : cur.ts <= pass.todo[d].ts
    /\ Landed =>
          /\ cur.kind = "create" => /\ pass.got \in DOMAIN srows /\ srows[pass.got] = cur.head
                                    /\ made[pass.got] = pass.cur
                                    /\ \A v \in cur.range : sbound[v] = pass.got
          /\ cur.kind = "update" => /\ pass.cur \in DOMAIN srows
                                    /\ Patched(srows[pass.cur], cur.patch) = srows[pass.cur]
          /\ cur.kind = "delete" => pass.cur \notin DOMAIN srows

Told == {"rows", "vols"} \subseteq owed

\* An op in hand waits as it was taken; one that comes after it is a race.
HandWaits ==
    /\ \A c \in Unsettled \ raced : c \in DOMAIN outbox /\ outbox[c] = pass.todo[c]
    /\ Over /\ Kind(pass.cur) # "none" =>
          /\ pass.cur \in raced /\ Kind(pass.cur) # "create"
          /\ Kind(pass.cur) = "delete" => Told
    /\ Landed /\ cur.kind = "create" /\ Kind(pass.got) = "delete" => pass.got \in raced /\ Told

\* What may have become of an op in hand: a create waits as one, a deletion
\* stays one, and a deletion in place of something else is one to read after.
HandKinds == \A c \in Unsettled :
    /\ Kind(c) = "create" => pass.todo[c].kind = "create"
    /\ pass.todo[c].kind = "delete" => Kind(c) = "delete"
    /\ Kind(c) = "delete" /\ pass.todo[c].kind # "delete" => Told

-----------------------------------------------------------------------------
(* Rows and bindings, where no read is owed and none was late *)

SameRow(c) == c \in DOMAIN rows /\ c \in DOMAIN srows /\ rows[c] = srows[c]

\* The ids whose row the pass is still to put right.
Settling == IF Landed THEN {pass.cur} \union (IF cur.kind = "create" THEN {pass.got} ELSE {})
            ELSE IF pass.st = "reread" THEN {pass.cur} ELSE {}

RowsFollow == "rows" \notin owed \union late =>
    /\ \A c \in (DOMAIN rows \union DOMAIN srows) \ (DOMAIN outbox \union Settling) : SameRow(c)
    /\ \A c \in DOMAIN outbox : outbox[c].kind = "delete" => c \notin DOMAIN rows
    /\ Landed /\ cur.kind = "delete" => pass.cur \notin DOMAIN rows

\* The creates that wait for a volume.
Claims(v) == {c \in DOMAIN outbox : outbox[c].kind = "create" /\ v \in outbox[c].range}

\* The binding once a create at hand is given its id.
BoundOf(v) == IF pass.st = "acked" /\ cur.kind = "create" /\ bound[v] = pass.cur
              THEN pass.got ELSE bound[v]

\* A volume is bound to the last create that waits for it; where none does, to
\* what the server has, but for a coffret that waits to be deleted.
BoundRight(v) ==
    IF Claims(v) = {} THEN BoundOf(v) = IF Kind(sbound[v]) = "delete" THEN 0 ELSE sbound[v]
    ELSE /\ BoundOf(v) \in Claims(v)
         /\ \A d \in Claims(v) \ {BoundOf(v)} : outbox[d].ts < outbox[BoundOf(v)].ts

\* Creates with a volume in common go out in the order they wait in.
InOrder ==
    \A c, d \in DOMAIN outbox :
        /\ c # d /\ c \in DOMAIN pass.todo
        /\ outbox[c].kind = "create" /\ outbox[d].kind = "create"
        /\ outbox[c].range \cap outbox[d].range # {}
        => IF d \in DOMAIN pass.todo
           THEN outbox[d].ts < outbox[c].ts => pass.todo[d].ts < pass.todo[c].ts
           ELSE outbox[c].ts < outbox[d].ts

BindingsFollow == "vols" \notin owed \union late =>
    /\ pass.st \notin {"reread", "revols"} => \A v \in Vols : BoundRight(v)
    /\ \A c \in Unsettled : pass.todo[c].kind = "create" =>
          Kind(c) = "create" /\ outbox[c].range = pass.todo[c].range
    /\ InOrder

-----------------------------------------------------------------------------
(* What the user asked for *)

Promised == DOMAIN intent \ (raced \union recleared)

AskedFor ==
    /\ \A c \in DOMAIN outbox :
          /\ outbox[c].kind = "create" => /\ c \in DOMAIN intent /\ intent[c] = outbox[c].head
                                          /\ c \in deleted => c \in raced
          /\ outbox[c].kind = "update" => c \in DOMAIN intent
          /\ outbox[c].kind = "delete" => c \in deleted /\ (c \in DOMAIN intent => c \in raced)
    /\ \A c \in Promised :
          /\ Kind(c) = "update" /\ c \in DOMAIN srows =>
                Patched(srows[c], outbox[c].patch) = intent[c]
          /\ Kind(c) = "none" => c \in DOMAIN srows /\ srows[c] = intent[c]
    /\ \A c \in DOMAIN pass.todo : pass.todo[c].kind = "create" /\ c \in deleted => c \in raced
    /\ \A r \in DOMAIN made : made[r] \in deleted => made[r] \in raced
    /\ \A c \in DOMAIN srows \cap (deleted \ raced) : Kind(c) = "delete"

CoffretInv == /\ TypeOK /\ Shapes /\ IdsKnown /\ AtHand /\ HandWaits /\ HandKinds
              /\ WaitingRowShown /\ RowsFollow /\ BindingsFollow /\ AskedFor

-----------------------------------------------------------------------------
(* Tables, headers and patches *)

LEMMA PutIs ==
    ASSUME NEW f, NEW k, NEW v
    PROVE  /\ DOMAIN Put(f, k, v) = DOMAIN f \union {k}
           /\ Put(f, k, v)[k] = v
           /\ \A x \in DOMAIN f : x # k => Put(f, k, v)[x] = f[x]
BY DEF Put

LEMMA DropIs ==
    ASSUME NEW f, NEW K
    PROVE  /\ DOMAIN Drop(f, K) = DOMAIN f \ K
           /\ \A x \in DOMAIN f \ K : Drop(f, K)[x] = f[x]
BY DEF Drop

LEMMA PatchedType ==
    ASSUME NEW row \in Header, NEW p \in Patch
    PROVE  Patched(row, p) \in Header
BY BoundsAssumption DEF Patched, Header, Patch, Columns, Undef

\* A patch that is applied again changes nothing.
LEMMA PatchedTwice ==
    ASSUME NEW row \in Header, NEW p \in Patch
    PROVE  Patched(Patched(row, p), p) = Patched(row, p)
BY DEF Patched, Header, Patch

LEMMA MergedType ==
    ASSUME NEW old \in Patch, NEW new \in Patch
    PROVE  Merged(old, new) \in Patch
BY DEF Merged, Patch

\* The merged patch makes what the two make, but for a price that the old one
\* clears and the new one sets.
LEMMA MergedMakes ==
    ASSUME NEW row \in Header, NEW old \in Patch, NEW new \in Patch,
           ~(old.clear /\ new.cols["price"] # Undef)
    PROVE  Patched(row, Merged(old, new)) = Patched(Patched(row, old), new)
<1> DEFINE m == Merged(old, new)
<1>1. /\ \A k \in Columns : m.cols[k] = IF new.cols[k] # Undef THEN new.cols[k] ELSE old.cols[k]
      /\ m.clear = (old.clear \/ new.clear)
  BY DEF Merged
<1> HIDE DEF m
<1>2. ASSUME NEW k \in Columns
      PROVE  Patched(row, m)[k] = Patched(Patched(row, old), new)[k]
  BY <1>1 DEF Patched, Columns, Patch
<1>3. Patched(row, m) = [k \in Columns |-> Patched(row, m)[k]]
  BY DEF Patched
<1>4. Patched(Patched(row, old), new) = [k \in Columns |-> Patched(Patched(row, old), new)[k]]
  BY DEF Patched
<1> HIDE DEF Patched
<1>5. Patched(row, m) = Patched(Patched(row, old), new)
  BY <1>2, <1>3, <1>4
<1> QED BY <1>5 DEF m

LEMMA NoPatchType == NoPatch \in Patch /\ NoHead \in Header
BY BoundsAssumption DEF NoPatch, Patch, NoHead, Header, Undef

LEMMA PatchesType ==
    ASSUME n \in 1..MaxEdits, NEW p \in Patches
    PROVE  p \in Patch
<1>1. CASE p = [NoPatch EXCEPT !.clear = TRUE]
  BY <1>1, NoPatchType DEF Patch
<1>2. CASE p # [NoPatch EXCEPT !.clear = TRUE]
  <2>1. PICK c \in Columns :
           p = [cols |-> [k \in Columns |-> IF k = c THEN n ELSE Undef], clear |-> FALSE]
    BY <1>2 DEF Patches
  <2>2. \A k \in Columns : (IF k = c THEN n ELSE Undef) \in Undef..MaxEdits
    BY BoundsAssumption DEF Undef
  <2> QED BY <2>1, <2>2 DEF Patch
<1> QED BY <1>1, <1>2

\* What the types say of an op.
LEMMA OpIs ==
    ASSUME NEW op \in Op
    PROVE  /\ op.kind \in {"create", "update", "delete"} /\ op.head \in Header /\ op.patch \in Patch
           /\ op.range \subseteq Vols /\ op.ts \in 1..MaxEdits
BY DEF Op

\* What the invariant says of the numbers, and of the tables.
LEMMA Known ==
    ASSUME CoffretInv
    PROVE  /\ edits \in Nat /\ serial \in Nat /\ n \in Nat
           /\ Ids \subseteq Int /\ 0 \notin Ids /\ -n \notin Ids /\ (serial + 1) \notin Ids
           /\ \A c \in Ids : c < 0 <=> c \notin 1..serial
           /\ DOMAIN srows \subseteq 1..serial /\ \A v \in Vols : sbound[v] \in Int /\ sbound[v] >= 0
           /\ DOMAIN made = 1..serial
           /\ \A c \in DOMAIN outbox : outbox[c] \in Op /\ Kind(c) = outbox[c].kind
           /\ \A c : Kind(c) # "none" => c \in DOMAIN outbox /\ Kind(c) = outbox[c].kind
           /\ \A c \in DOMAIN pass.todo : pass.todo[c] \in Op
<1>1. TypeOK /\ IdsKnown
  BY DEF CoffretInv
<1>2. edits \in Nat /\ serial \in Nat /\ n \in Nat
  BY <1>1, BoundsAssumption DEF TypeOK, n
<1>3. /\ Ids \subseteq Int /\ 0 \notin Ids /\ -n \notin Ids /\ (serial + 1) \notin Ids
      /\ \A c \in Ids : c < 0 <=> c \notin 1..serial
  BY <1>2 DEF Ids, n
<1>4. \A v \in Vols : sbound[v] \in Int /\ sbound[v] >= 0
  BY <1>1, <1>2 DEF TypeOK
<1>5. /\ \A c \in DOMAIN outbox : outbox[c] \in Op /\ Kind(c) = outbox[c].kind
      /\ \A c : Kind(c) # "none" => c \in DOMAIN outbox /\ Kind(c) = outbox[c].kind
  BY <1>1 DEF TypeOK, Kind
<1> QED BY <1>1, <1>2, <1>3, <1>4, <1>5 DEF TypeOK, IdsKnown

-----------------------------------------------------------------------------
(* The initial state *)

LEMMA InitCoffret == Init => CoffretInv
<1> SUFFICES ASSUME Init PROVE CoffretInv
  OBVIOUS
<1>1. PICK R \in SUBSET Vols :
        /\ serial = IF R = {} THEN 0 ELSE 1
        /\ srows = [c \in 1..serial |-> NoHead] /\ rows = srows
        /\ sbound = [v \in Vols |-> IF v \in R THEN 1 ELSE 0] /\ bound = sbound
        /\ made = [c \in 1..serial |-> 0]
  BY DEF Init
<1>2. /\ outbox = Empty /\ tries = Empty /\ pass = NoPass /\ edits = 0 /\ visits = 0
      /\ intent = Empty /\ deleted = {} /\ raced = {} /\ recleared = {} /\ owed = {} /\ late = {}
      /\ lists = NoAnswers /\ binds = NoAnswers
  BY DEF Init
<1>3. serial \in Nat /\ DOMAIN Empty = {} /\ NoHead \in Header
  BY <1>1, NoPatchType DEF Empty
<1>4. /\ pass.st = "off" /\ pass.todo = Empty /\ pass.answer = "ok" /\ pass.got = 0 /\ pass.cur = 0
  BY <1>2 DEF NoPass
<1>5. TypeOK
  <2>1. bound \in [Vols -> Int] /\ sbound \in [Vols -> {0} \union DOMAIN srows]
    BY <1>1
  <2> QED BY <1>1, <1>2, <1>3, <1>4, <2>1, BoundsAssumption DEF TypeOK, NoAnswers
<1>6. Shapes
  BY <1>1, <1>2, <1>3, <1>4 DEF Shapes, NoPass
<1>7. IdsKnown
  BY <1>1, <1>2, <1>3, <1>4 DEF IdsKnown, Ids
<1>8. AtHand /\ HandWaits /\ HandKinds
  BY <1>2, <1>3, <1>4 DEF AtHand, HandWaits, HandKinds, Landed, Over, Unsettled
<1>9. WaitingRowShown /\ RowsFollow
  BY <1>1, <1>2, <1>3, <1>4 DEF WaitingRowShown, RowsFollow, SameRow, Landed, Unsettled, Over
<1>10. BindingsFollow
  <2>1. ASSUME NEW v \in Vols PROVE BoundRight(v)
    <3>1. Claims(v) = {} /\ Kind(sbound[v]) = "none" /\ BoundOf(v) = sbound[v]
      BY <1>1, <1>2, <1>3, <1>4 DEF Claims, Kind, BoundOf
    <3> QED BY <3>1 DEF BoundRight
  <2> QED BY <1>2, <1>3, <1>4, <2>1 DEF BindingsFollow, InOrder, Unsettled
<1>11. AskedFor
  BY <1>1, <1>2, <1>3, <1>4 DEF AskedFor, Promised
<1> QED BY <1>5, <1>6, <1>7, <1>8, <1>9, <1>10, <1>11 DEF CoffretInv

-----------------------------------------------------------------------------
(* Edits *)

\* An edit leaves the pass, the server and what is read of them alone.
LEMMA EditFrame ==
    ASSUME CoffretInv, Edited, UNCHANGED <<srows, sbound, serial, tries, pass, lists, binds, visits, made>>
    PROVE  /\ edits' = n /\ n \in 1..MaxEdits /\ edits' \in 0..MaxEdits
           /\ Ids \subseteq Ids' /\ -n \in Ids'
           /\ AtHand' /\ Landed' = Landed /\ Over' = Over /\ Unsettled' = Unsettled /\ Settling' = Settling
           /\ \A c : InHand(c)' = InHand(c)
<1>1. edits' = n /\ n \in 1..MaxEdits /\ edits' \in 0..MaxEdits
  BY BoundsAssumption DEF Edited, CoffretInv, TypeOK, n
<1>2. Ids \subseteq Ids' /\ -n \in Ids'
  BY <1>1, Known DEF Ids, n
<1>3. /\ AtHand' /\ Landed' = Landed /\ Over' = Over /\ Unsettled' = Unsettled /\ Settling' = Settling
      /\ \A c : InHand(c)' = InHand(c)
  BY DEF CoffretInv, AtHand, Landed, Over, Unsettled, Settling, cur, InHand
<1> QED BY <1>1, <1>2, <1>3

LEMMA CreateKeeps ==
    ASSUME CoffretInv, NEW R \in SUBSET Vols, Create(R)
    PROVE  CoffretInv'
<1> SUFFICES ASSUME NEW t, t = -n, NEW head, head = [k \in Columns |-> n],
                    NEW op, op = [kind |-> "create", head |-> head, patch |-> NoPatch,
                                  range |-> R, ts |-> n]
             PROVE  CoffretInv'
  OBVIOUS
<1>1. /\ Edited /\ R # {} /\ rows' = Put(rows, t, head)
      /\ bound' = [v \in Vols |-> IF v \in R THEN t ELSE bound[v]]
      /\ outbox' = Put(outbox, t, op) /\ intent' = Put(intent, t, head)
      /\ UNCHANGED <<srows, sbound, serial, tries, pass, lists, binds, visits, made, deleted,
                     raced, recleared, owed, late>>
  BY DEF Create
<1>2. /\ edits' = n /\ n \in 1..MaxEdits /\ edits' \in 0..MaxEdits /\ Ids \subseteq Ids' /\ t \in Ids'
      /\ AtHand' /\ Landed' = Landed /\ Over' = Over /\ Unsettled' = Unsettled /\ Settling' = Settling
  BY <1>1, EditFrame
<1>3. /\ TypeOK /\ Shapes /\ IdsKnown /\ HandWaits /\ HandKinds /\ WaitingRowShown /\ RowsFollow
      /\ BindingsFollow /\ AskedFor
  BY DEF CoffretInv
<1>4. /\ edits \in Nat /\ serial \in Nat /\ t \notin Ids /\ t < 0 /\ n = edits + 1
      /\ \A v \in Vols : sbound[v] \in Int /\ sbound[v] >= 0
  BY <1>2, Known DEF n
<1>5. /\ t \notin DOMAIN rows /\ t \notin DOMAIN outbox /\ t \notin DOMAIN pass.todo
      /\ t \notin DOMAIN intent /\ t \notin deleted /\ t \notin DOMAIN srows
  BY <1>3, <1>4 DEF IdsKnown, TypeOK
<1>6. op \in Op /\ op.kind = "create" /\ op.ts = n /\ op.range = R /\ op.head = head /\ head \in Header
  BY <1>2, NoPatchType DEF Op, Header
<1>7. /\ DOMAIN rows' = DOMAIN rows \union {t} /\ rows'[t] = head
      /\ \A c \in DOMAIN rows : rows'[c] = rows[c]
      /\ DOMAIN outbox' = DOMAIN outbox \union {t} /\ outbox'[t] = op
      /\ \A c \in DOMAIN outbox : outbox'[c] = outbox[c]
      /\ DOMAIN intent' = DOMAIN intent \union {t} /\ intent'[t] = head
      /\ \A c \in DOMAIN intent : intent'[c] = intent[c]
  <2>1. /\ DOMAIN rows' = DOMAIN rows \union {t} /\ rows'[t] = head
        /\ \A c \in DOMAIN rows : c # t => rows'[c] = rows[c]
    BY <1>1, <1>5 DEF Put
  <2>2. /\ DOMAIN outbox' = DOMAIN outbox \union {t} /\ outbox'[t] = op
        /\ \A c \in DOMAIN outbox : c # t => outbox'[c] = outbox[c]
    BY <1>1, <1>5 DEF Put
  <2>3. /\ DOMAIN intent' = DOMAIN intent \union {t} /\ intent'[t] = head
        /\ \A c \in DOMAIN intent : c # t => intent'[c] = intent[c]
    BY <1>1, <1>5 DEF Put
  <2> QED BY <1>5, <2>1, <2>2, <2>3
<1>8. /\ Kind(t)' = "create"
      /\ \A c : c # t => Kind(c)' = Kind(c)
  <2>1. Kind(t)' = "create"
    BY <1>6, <1>7 DEF Kind
  <2>2. ASSUME NEW c, c # t PROVE Kind(c)' = Kind(c)
    BY <1>7, <2>2 DEF Kind
  <2> QED BY <2>1, <2>2
<1>9. TypeOK'
  <2>1. bound' \in [Vols -> Int]
    BY <1>1, <1>2, <1>3 DEF TypeOK
  <2> QED BY <1>1, <1>2, <1>3, <1>6, <1>7, <2>1 DEF TypeOK
<1>10. Shapes'
  <2>1. rows' \in [DOMAIN rows' -> Header]
    BY <1>1, <1>3, <1>6, <1>7 DEF Put, Shapes
  <2> QED BY <1>1, <1>3, <2>1 DEF Shapes, NoPass
<1>11. IdsKnown'
  <2>1. /\ DOMAIN rows' \subseteq Ids' /\ DOMAIN outbox' \subseteq Ids' /\ DOMAIN pass'.todo \subseteq Ids'
        /\ DOMAIN intent' \subseteq Ids' /\ deleted' \subseteq Ids' /\ DOMAIN made' = 1..serial'
        /\ \A c \in DOMAIN pass.todo : pass.todo[c].kind = "create" => c < 0
    BY <1>1, <1>2, <1>3, <1>7 DEF IdsKnown
  <2>2. ASSUME NEW c \in DOMAIN outbox'
        PROVE  (outbox'[c].kind = "create" => c < 0) /\ outbox'[c].ts <= edits'
    <3>1. CASE c = t
      BY <1>2, <1>4, <1>6, <1>7, <3>1
    <3>2. CASE c # t
      <4>1. c \in DOMAIN outbox /\ outbox'[c] = outbox[c] /\ outbox[c].ts \in Int
        BY <1>7, <3>2, Known, OpIs
      <4> QED BY <1>2, <1>3, <1>4, <4>1 DEF IdsKnown
    <3> QED BY <3>1, <3>2
  <2> QED BY <1>1, <2>1, <2>2 DEF IdsKnown
<1>12. HandWaits'
  <2>1. \A c \in Unsettled \ raced : c \in DOMAIN outbox' /\ outbox'[c] = pass.todo[c]
    BY <1>3, <1>7 DEF HandWaits
  <2>2. Over => pass.cur # t
    BY <1>5, <1>3 DEF Over, CoffretInv, AtHand
  <2>3. Landed /\ cur.kind = "create" => pass.got # t
    BY <1>3, <1>4 DEF Shapes
  <2> QED BY <1>1, <1>2, <1>3, <1>8, <2>1, <2>2, <2>3 DEF HandWaits, Told, cur
<1>13. HandKinds'
  BY <1>1, <1>2, <1>3, <1>5, <1>8 DEF HandKinds, Unsettled, Told
<1>14. WaitingRowShown'
  BY <1>1, <1>3, <1>6, <1>7 DEF WaitingRowShown
<1>15. RowsFollow'
  <2> SUFFICES ASSUME "rows" \notin owed \union late
               PROVE  RowsFollow'
    BY <1>1 DEF RowsFollow
  <2>1. ASSUME NEW c \in (DOMAIN rows' \union DOMAIN srows) \ (DOMAIN outbox' \union Settling)
        PROVE  SameRow(c)'
    BY <1>1, <1>3, <1>7, <2>1 DEF RowsFollow, SameRow
  <2>2. \A c \in DOMAIN outbox' : outbox'[c].kind = "delete" => c \notin DOMAIN rows'
    BY <1>3, <1>5, <1>6, <1>7 DEF RowsFollow
  <2>3. Landed /\ cur.kind = "delete" => pass.cur \notin DOMAIN rows'
    BY <1>3, <1>5, <1>7 DEF RowsFollow, Landed, CoffretInv, AtHand
  <2> QED BY <1>1, <1>2, <2>1, <2>2, <2>3 DEF RowsFollow, cur
<1>16. BindingsFollow'
  <2> SUFFICES ASSUME "vols" \notin owed \union late
               PROVE  BindingsFollow'
    BY <1>1 DEF BindingsFollow
  <2>1. ASSUME pass.st \notin {"reread", "revols"}, NEW v \in Vols PROVE BoundRight(v)'
    <3>1. BoundRight(v)
      BY <1>3, <2>1 DEF BindingsFollow
    <3>2. Claims(v)' = IF v \in R THEN Claims(v) \union {t} ELSE Claims(v)
      BY <1>6, <1>7 DEF Claims
    <3>3. t \notin Claims(v) /\ \A d \in Claims(v) : outbox'[d] = outbox[d] /\ outbox[d].ts <= edits
      BY <1>3, <1>5, <1>7 DEF Claims, IdsKnown
    <3>4. CASE v \in R
      <4>1. bound'[v] = t
        BY <1>1, <3>4
      <4>2. BoundOf(v)' = t
        <5>1. pass.st = "acked" => pass.cur # t
          BY <1>5 DEF CoffretInv, AtHand
        <5> QED BY <1>1, <4>1, <5>1 DEF BoundOf
      <4>3. \A d \in Claims(v) : outbox'[d].ts < outbox'[t].ts
        <5>1. \A d \in Claims(v) : outbox[d].ts \in Int
          BY Known, OpIs DEF Claims
        <5> QED BY <1>4, <1>6, <1>7, <3>3, <5>1
      <4> QED BY <3>2, <3>4, <4>2, <4>3 DEF BoundRight
    <3>5. CASE v \notin R
      <4>1. BoundOf(v)' = BoundOf(v) /\ Claims(v)' = Claims(v)
        BY <1>1, <3>2, <3>5 DEF BoundOf, cur
      <4>2. Kind(sbound[v])' = Kind(sbound[v])
        <5>1. sbound[v] # t
          BY <1>4
        <5> QED BY <1>1, <1>8, <5>1
      <4> QED BY <1>1, <3>1, <3>3, <4>1, <4>2 DEF BoundRight
    <3> QED BY <3>4, <3>5
  <2>2. \A c \in Unsettled : pass.todo[c].kind = "create" =>
           Kind(c)' = "create" /\ outbox'[c].range = pass.todo[c].range
    BY <1>3, <1>5, <1>7, <1>8, Known DEF BindingsFollow, Unsettled
  <2>3. InOrder'
    <3>1. \A c \in DOMAIN outbox : outbox[c].ts < n
      <4>1. \A c \in DOMAIN outbox : outbox[c].ts \in Int
        BY Known, OpIs
      <4> QED BY <1>3, <1>4, <4>1 DEF IdsKnown
    <3>2. InOrder
      BY <1>3 DEF BindingsFollow
    <3>3. pass' = pass /\ t \notin DOMAIN pass.todo
      BY <1>1, <1>5
    <3> QED BY <1>6, <1>7, <3>1, <3>2, <3>3 DEF InOrder
  <2> QED BY <1>1, <1>2, <2>1, <2>2, <2>3 DEF BindingsFollow
<1>17. AskedFor'
  <2>1. \A c \in DOMAIN outbox' :
          /\ outbox'[c].kind = "create" => /\ c \in DOMAIN intent' /\ intent'[c] = outbox'[c].head
                                           /\ c \in deleted => c \in raced
          /\ outbox'[c].kind = "update" => c \in DOMAIN intent'
          /\ outbox'[c].kind = "delete" => c \in deleted /\ (c \in DOMAIN intent' => c \in raced)
    <3> TAKE c \in DOMAIN outbox'
    <3>1. CASE c = t
      BY <1>5, <1>6, <1>7, <3>1
    <3>2. CASE c # t
      BY <1>3, <1>7, <3>2 DEF AskedFor
    <3> QED BY <3>1, <3>2
  <2>2. \A c \in Promised' :
          /\ Kind(c)' = "update" /\ c \in DOMAIN srows =>
                Patched(srows[c], outbox'[c].patch) = intent'[c]
          /\ Kind(c)' = "none" => c \in DOMAIN srows /\ srows[c] = intent'[c]
    <3> TAKE c \in Promised'
    <3>1. CASE c = t
      BY <1>8, <3>1
    <3>2. CASE c # t
      <4>1. c \in Promised
        BY <1>1, <1>7, <3>2 DEF Promised
      <4> QED BY <1>3, <1>7, <1>8, <3>2, <4>1, Known DEF AskedFor, Promised
    <3> QED BY <3>1, <3>2
  <2>3. \A c \in DOMAIN srows \cap (deleted \ raced) : Kind(c)' = "delete"
    BY <1>3, <1>5, <1>8 DEF AskedFor
  <2> QED BY <1>1, <1>3, <2>1, <2>2, <2>3 DEF AskedFor
<1> QED BY <1>2, <1>9, <1>10, <1>11, <1>12, <1>13, <1>14, <1>15, <1>16, <1>17 DEF CoffretInv

\* What an update leaves in the queue.
LEMMA UpdatedOp ==
    ASSUME CoffretInv, NEW c, NEW p \in Patch, Update(c, p)
    PROVE  \E op \in Op :
              /\ DOMAIN outbox' = DOMAIN outbox \union {c} /\ outbox'[c] = op
              /\ \A d \in DOMAIN outbox \ {c} : outbox'[d] = outbox[d]
              /\ op.ts <= n
              /\ op.kind = IF Kind(c) \in {"create", "delete"} THEN Kind(c) ELSE "update"
              /\ Kind(c) = "create" => op.range = outbox[c].range /\ op.head = Patched(outbox[c].head, p)
              /\ Kind(c) = "update" => op.patch = Merged(outbox[c].patch, p)
              /\ Kind(c) = "none" => op.patch = p
<1>1. n \in 1..MaxEdits /\ n = edits + 1 /\ edits \in Nat
  BY EditFrame, Known DEF Update, n
<1>2. Kind(c) # "none" => /\ c \in DOMAIN outbox /\ outbox[c] \in Op /\ Kind(c) = outbox[c].kind
                          /\ outbox[c].ts <= edits /\ outbox[c].ts \in Int
                          /\ outbox[c].head \in Header /\ outbox[c].patch \in Patch
  BY Known, OpIs DEF CoffretInv, IdsKnown
<1>3. Kind(c) \in {"create", "update", "delete", "none"}
  BY <1>2, OpIs
<1>4. CASE Kind(c) = "create"
  <2> SUFFICES ASSUME NEW op, op = [outbox[c] EXCEPT !.head = Patched(@, p), !.ts = n]
               PROVE  /\ op \in Op /\ op.ts = n /\ op.kind = "create" /\ op.range = outbox[c].range
                      /\ op.head = Patched(outbox[c].head, p)
                      /\ DOMAIN outbox' = DOMAIN outbox \union {c} /\ outbox'[c] = op
                      /\ \A d \in DOMAIN outbox \ {c} : outbox'[d] = outbox[d]
    BY <1>1, <1>4
  <2>1. Patched(outbox[c].head, p) \in Header
    BY <1>2, <1>4, PatchedType
  <2>2. /\ op \in Op /\ op.ts = n /\ op.kind = "create" /\ op.range = outbox[c].range
        /\ op.head = Patched(outbox[c].head, p)
    BY <1>1, <1>2, <1>4, <2>1 DEF Op
  <2>3. outbox' = [outbox EXCEPT ![c].head = Patched(@, p), ![c].ts = n]
    BY <1>4 DEF Update
  <2>4. c \in DOMAIN outbox
    BY <1>2, <1>4
  <2>5. outbox'[c] = [outbox[c] EXCEPT !.head = Patched(@, p), !.ts = n]
    BY <2>3, <2>4
  <2>6. DOMAIN outbox' = DOMAIN outbox /\ \A d \in DOMAIN outbox \ {c} : outbox'[d] = outbox[d]
    BY <2>3
  <2> QED BY <2>2, <2>4, <2>5, <2>6
<1>5. CASE Kind(c) = "delete"
  <2>1. outbox' = outbox
    BY <1>5 DEF Update
  <2> QED BY <1>1, <1>2, <1>5, <2>1
<1>6. CASE Kind(c) \in {"update", "none"}
  <2> DEFINE patch == IF Kind(c) = "update" THEN Merged(outbox[c].patch, p) ELSE p
             op == [kind |-> "update", head |-> NoHead, patch |-> patch, range |-> {}, ts |-> n]
  <2>1. patch \in Patch
    BY <1>2, MergedType
  <2>2. outbox' = Put(outbox, c, op)
    BY <1>6 DEF Update
  <2>3. /\ Kind(c) = "update" => patch = Merged(outbox[c].patch, p)
        /\ Kind(c) = "none" => patch = p
    OBVIOUS
  <2> HIDE DEF patch
  <2>4. op \in Op /\ op.ts = n /\ op.kind = "update" /\ op.patch = patch
    BY <1>1, <2>1, NoPatchType DEF Op
  <2> HIDE DEF op
  <2>5. /\ DOMAIN outbox' = DOMAIN outbox \union {c} /\ outbox'[c] = op
        /\ \A d \in DOMAIN outbox \ {c} : outbox'[d] = outbox[d]
    BY <2>2 DEF Put
  <2> QED BY <1>1, <1>6, <2>3, <2>4, <2>5
<1> QED BY <1>3, <1>4, <1>5, <1>6

LEMMA UpdateKeeps ==
    ASSUME CoffretInv, NEW c \in DOMAIN rows, NEW p \in Patches, Update(c, p)
    PROVE  CoffretInv'
<1>1. /\ Edited /\ rows' = Put(rows, c, Patched(rows[c], p))
      /\ intent' = Put(intent, c, Patched(Asked(c), p))
      /\ raced' = IF InHand(c) THEN raced \union {c} ELSE raced
      /\ recleared' = IF Kind(c) = "update" /\ outbox[c].patch.clear /\ p.cols["price"] # Undef
                      THEN recleared \union {c} ELSE recleared
      /\ owed' = IF Contended(c) THEN owed \union {"vols"} ELSE owed
      /\ UNCHANGED <<bound, srows, sbound, serial, tries, pass, lists, binds, visits, made, deleted,
                     late>>
  BY DEF Update
<1>2. /\ edits' = n /\ n \in 1..MaxEdits /\ edits' \in 0..MaxEdits /\ Ids \subseteq Ids'
      /\ AtHand' /\ Landed' = Landed /\ Over' = Over /\ Unsettled' = Unsettled /\ Settling' = Settling
  BY <1>1, EditFrame
<1>3. /\ TypeOK /\ Shapes /\ IdsKnown /\ AtHand /\ HandWaits /\ HandKinds /\ WaitingRowShown /\ RowsFollow
      /\ BindingsFollow /\ AskedFor
  BY DEF CoffretInv
<1>4. p \in Patch
  BY <1>2, PatchesType
<1>5. PICK op \in Op :
         /\ DOMAIN outbox' = DOMAIN outbox \union {c} /\ outbox'[c] = op
         /\ \A d \in DOMAIN outbox \ {c} : outbox'[d] = outbox[d]
         /\ op.ts <= n
         /\ op.kind = IF Kind(c) \in {"create", "delete"} THEN Kind(c) ELSE "update"
         /\ Kind(c) = "create" => op.range = outbox[c].range /\ op.head = Patched(outbox[c].head, p)
         /\ Kind(c) = "update" => op.patch = Merged(outbox[c].patch, p)
         /\ Kind(c) = "none" => op.patch = p
  BY <1>4, UpdatedOp
<1>6. /\ \A d \in DOMAIN outbox : outbox[d] \in Op /\ Kind(d) = outbox[d].kind /\ outbox[d].ts \in Int
      /\ \A d : Kind(d) # "none" => d \in DOMAIN outbox /\ Kind(d) = outbox[d].kind
      /\ \A d \in DOMAIN outbox : Kind(d) \in {"create", "update", "delete"}
  BY Known, OpIs
<1>7. /\ \A d : d # c => Kind(d)' = Kind(d)
      /\ Kind(c)' = IF Kind(c) \in {"create", "delete"} THEN Kind(c) ELSE "update"
      /\ \A d : Kind(d)' \in {"create", "delete"} <=> Kind(d) \in {"create", "delete"}
      /\ \A d : Kind(d)' = "create" <=> Kind(d) = "create"
      /\ \A d : Kind(d)' = "delete" <=> Kind(d) = "delete"
  <2>1. ASSUME NEW d, d # c PROVE Kind(d)' = Kind(d)
    BY <1>5, <2>1 DEF Kind
  <2>2. Kind(c)' = op.kind
    BY <1>5 DEF Kind
  <2> QED BY <1>5, <2>1, <2>2
<1>8. /\ DOMAIN rows' = DOMAIN rows /\ rows'[c] = Patched(rows[c], p)
      /\ \A d \in DOMAIN rows \ {c} : rows'[d] = rows[d]
      /\ DOMAIN intent' = DOMAIN intent \union {c} /\ intent'[c] = Patched(Asked(c), p)
      /\ \A d \in DOMAIN intent \ {c} : intent'[d] = intent[d]
      /\ rows' \in [DOMAIN rows' -> Header]
  <2>1. Patched(rows[c], p) \in Header
    BY <1>3, <1>4, PatchedType DEF TypeOK
  <2> QED BY <1>1, <1>3, <2>1 DEF Put, Shapes
<1>9. raced \subseteq raced' /\ recleared \subseteq recleared' /\ owed \subseteq owed'
  BY <1>1
<1>10. c \in raced' \/ ~InHand(c)
  BY <1>1
<1>11. TypeOK' /\ Shapes'
  BY <1>1, <1>2, <1>3, <1>5, <1>8 DEF TypeOK, Shapes, NoPass
<1>12. IdsKnown'
  <2>1. /\ DOMAIN rows' \subseteq Ids' /\ DOMAIN outbox' \subseteq Ids' /\ DOMAIN pass'.todo \subseteq Ids'
        /\ DOMAIN intent' \subseteq Ids' /\ deleted' \subseteq Ids' /\ DOMAIN made' = 1..serial'
        /\ \A d \in DOMAIN pass.todo : pass.todo[d].kind = "create" => d < 0
    BY <1>1, <1>2, <1>3, <1>5, <1>8 DEF IdsKnown
  <2>2. ASSUME NEW d \in DOMAIN outbox'
        PROVE  (outbox'[d].kind = "create" => d < 0) /\ outbox'[d].ts <= edits'
    <3>1. CASE d = c
      BY <1>2, <1>3, <1>5, <1>6, <3>1 DEF IdsKnown
    <3>2. CASE d # c
      <4>1. d \in DOMAIN outbox /\ outbox'[d] = outbox[d] /\ outbox[d].ts \in Int /\ edits \in Int
        BY <1>5, <1>6, <3>2, Known
      <4> QED BY <1>2, <1>3, <4>1 DEF IdsKnown, n
    <3> QED BY <3>1, <3>2
  <2> QED BY <1>1, <2>1, <2>2 DEF IdsKnown
<1>13. HandWaits'
  <2>1. \A d \in Unsettled \ raced' : d \in DOMAIN outbox' /\ outbox'[d] = pass.todo[d]
    BY <1>3, <1>5, <1>9, <1>10 DEF HandWaits, Unsettled, InHand
  <2>2. Over /\ Kind(pass.cur)' # "none" =>
           /\ pass.cur \in raced' /\ Kind(pass.cur)' # "create"
           /\ Kind(pass.cur)' = "delete" => Told
    <3>1. Over => InHand(pass.cur)
      BY <1>3 DEF AtHand, Over, InHand
    <3> QED BY <1>1, <1>3, <1>7, <1>9, <1>10, <3>1 DEF HandWaits
  <2>3. Told => Told'
    BY <1>9 DEF Told
  <2> QED BY <1>1, <1>2, <1>3, <1>7, <1>9, <2>1, <2>2, <2>3 DEF HandWaits, cur
<1>14. WaitingRowShown'
  <2>1. c \in raced' \/ Kind(c) # "delete"
    BY <1>3, <1>6, <1>9 DEF WaitingRowShown
  <2> QED BY <1>5, <1>3, <1>8, <1>9, <2>1 DEF WaitingRowShown
<1>15. RowsFollow'
  <2> SUFFICES ASSUME "rows" \notin owed \union late
               PROVE  RowsFollow'
    BY <1>1, <1>9 DEF RowsFollow
  <2>1. Kind(c) # "delete"
    BY <1>3, <1>6 DEF RowsFollow
  <2>2. \A d \in (DOMAIN rows' \union DOMAIN srows) \ (DOMAIN outbox' \union Settling) : SameRow(d)'
    BY <1>1, <1>3, <1>5, <1>8 DEF RowsFollow, SameRow
  <2>3. \A d \in DOMAIN outbox' : outbox'[d].kind = "delete" => d \notin DOMAIN rows'
    BY <1>3, <1>5, <1>8, <2>1 DEF RowsFollow
  <2>4. Landed /\ cur.kind = "delete" => pass.cur \notin DOMAIN rows'
    BY <1>3, <1>8 DEF RowsFollow
  <2> QED BY <1>1, <1>2, <2>2, <2>3, <2>4 DEF RowsFollow, cur

<1>16. BindingsFollow'
  <2> SUFFICES ASSUME "vols" \notin owed \union late, ~Contended(c)
               PROVE  BindingsFollow'
    BY <1>1 DEF BindingsFollow
  <2>1. ASSUME pass.st \notin {"reread", "revols"}, NEW v \in Vols PROVE BoundRight(v)'
    <3>1. BoundRight(v)
      BY <1>3, <2>1 DEF BindingsFollow
    <3>2. \A d : d \in Claims(v) <=> d \in DOMAIN outbox /\ Kind(d) = "create" /\ v \in outbox[d].range
      BY <1>6 DEF Claims
    <3>3. \A d : d \in Claims(v)' <=> d \in Claims(v)
      <4>1. \A d : d \in Claims(v)' <=> d \in DOMAIN outbox' /\ Kind(d)' = "create" /\ v \in outbox'[d].range
        BY <1>5 DEF Claims, Kind
      <4> QED BY <1>5, <1>6, <1>7, <3>2, <4>1
    <3>4. BoundOf(v)' = BoundOf(v) /\ Claims(v)' = Claims(v)
      BY <1>1, <3>3 DEF BoundOf, cur, Claims
    <3>5. c \in Claims(v) => \A d \in Claims(v) : d = c
      BY <3>2 DEF Contended
    <3>6. c \notin Claims(v) => \A d \in Claims(v) : outbox'[d] = outbox[d]
      BY <1>5, <3>2
    <3> QED BY <1>1, <1>7, <3>1, <3>4, <3>5, <3>6 DEF BoundRight
  <2>2. \A d \in Unsettled : pass.todo[d].kind = "create" =>
           Kind(d)' = "create" /\ outbox'[d].range = pass.todo[d].range
    BY <1>3, <1>5, <1>6, <1>7 DEF BindingsFollow
  <2>3. InOrder'
    <3>1. InOrder
      BY <1>3 DEF BindingsFollow
    <3>2. ASSUME NEW a \in DOMAIN outbox', NEW b \in DOMAIN outbox', a # b,
                 outbox'[a].kind = "create", outbox'[b].kind = "create",
                 outbox'[a].range \cap outbox'[b].range # {}
          PROVE  /\ a \in DOMAIN outbox /\ b \in DOMAIN outbox
                 /\ outbox'[a] = outbox[a] /\ outbox'[b] = outbox[b]
      <4>1. /\ a \in DOMAIN outbox /\ Kind(a) = "create" /\ outbox'[a].range = outbox[a].range
            /\ b \in DOMAIN outbox /\ Kind(b) = "create" /\ outbox'[b].range = outbox[b].range
        BY <1>5, <1>6, <3>2
      <4>2. a # c /\ b # c
        BY <3>2, <4>1 DEF Contended
      <4> QED BY <1>5, <4>1, <4>2
    <3> QED BY <1>1, <3>1, <3>2 DEF InOrder
  <2> QED BY <1>1, <1>2, <2>1, <2>2, <2>3 DEF BindingsFollow
<1>17. AskedFor'
  <2>1. ASSUME NEW d \in DOMAIN outbox'
        PROVE  /\ outbox'[d].kind = "create" => /\ d \in DOMAIN intent' /\ intent'[d] = outbox'[d].head
                                                /\ d \in deleted => d \in raced'
               /\ outbox'[d].kind = "update" => d \in DOMAIN intent'
               /\ outbox'[d].kind = "delete" => d \in deleted /\ (d \in DOMAIN intent' => d \in raced')
    <3>1. CASE d # c
      BY <1>3, <1>5, <1>8, <1>9, <3>1 DEF AskedFor
    <3>2. CASE d = c /\ Kind(c) = "create"
      <4>1. /\ c \in DOMAIN intent /\ intent[c] = outbox[c].head /\ (c \in deleted => c \in raced)
        BY <1>3, <1>6, <3>2 DEF AskedFor
      <4>2. Asked(c) = outbox[c].head
        BY <4>1 DEF Asked
      <4> QED BY <1>5, <1>8, <1>9, <3>2, <4>1, <4>2
    <3>3. CASE d = c /\ Kind(c) = "delete"
      <4>1. c \in raced /\ c \in deleted
        BY <1>3, <1>6, <3>3 DEF AskedFor, WaitingRowShown
      <4> QED BY <1>5, <1>9, <3>3, <4>1
    <3>4. CASE d = c /\ Kind(c) \notin {"create", "delete"}
      BY <1>5, <1>8, <3>4
    <3> QED BY <3>1, <3>2, <3>3, <3>4
  <2>2. ASSUME NEW d \in Promised'
        PROVE  /\ Kind(d)' = "update" /\ d \in DOMAIN srows =>
                     Patched(srows[d], outbox'[d].patch) = intent'[d]
               /\ Kind(d)' = "none" => d \in DOMAIN srows /\ srows[d] = intent'[d]
    <3>1. d \in DOMAIN intent' /\ d \notin raced' /\ d \notin recleared' /\ d \notin raced /\ d \notin recleared
      BY <1>9, <2>2 DEF Promised
    <3>2. CASE d # c
      <4>1. d \in Promised /\ intent'[d] = intent[d]
        BY <1>8, <3>1, <3>2 DEF Promised
      <4> QED BY <1>3, <1>5, <1>6, <1>7, <3>2, <4>1 DEF AskedFor
    <3>3. CASE d = c /\ Kind(c) = "update"
      <4>1. c \in DOMAIN intent /\ c \in Promised /\ c \in DOMAIN outbox /\ outbox[c].patch \in Patch
        BY <1>3, <1>6, <3>1, <3>3, OpIs DEF AskedFor, Promised
      <4>2. ~(outbox[c].patch.clear /\ p.cols["price"] # Undef)
        BY <1>1, <3>1, <3>3
      <4>3. ASSUME c \in DOMAIN srows
            PROVE  Patched(srows[c], op.patch) = intent'[c]
        <5>1. Patched(srows[c], outbox[c].patch) = intent[c]
          BY <1>3, <3>3, <4>1, <4>3 DEF AskedFor
        <5>2. srows[c] \in Header
          BY <1>3, <4>3 DEF TypeOK
        <5>3. Patched(srows[c], op.patch) = Patched(intent[c], p)
          BY <1>4, <1>5, <3>3, <4>1, <4>2, <5>1, <5>2, MergedMakes
        <5> QED BY <1>8, <4>1, <5>3 DEF Asked
      <4> QED BY <1>5, <1>7, <3>3, <4>3
    <3>4. CASE d = c /\ Kind(c) = "none"
      <4>1. c \in DOMAIN srows => Asked(c) = srows[c]
        BY <1>3, <3>1, <3>4 DEF AskedFor, Promised, Asked
      <4> QED BY <1>5, <1>7, <1>8, <3>4, <4>1
    <3>5. CASE d = c /\ Kind(c) \in {"create", "delete"}
      BY <1>7, <3>5
    <3>6. Kind(c) \in {"create", "delete", "update", "none"}
      BY <1>6
    <3> QED BY <3>2, <3>3, <3>4, <3>5, <3>6
  <2>3. /\ \A d \in DOMAIN pass.todo : pass.todo[d].kind = "create" /\ d \in deleted => d \in raced'
        /\ \A r \in DOMAIN made : made[r] \in deleted => made[r] \in raced'
        /\ \A d \in DOMAIN srows \cap (deleted \ raced') : Kind(d)' = "delete"
    BY <1>3, <1>7, <1>9 DEF AskedFor
  <2> QED BY <1>1, <2>1, <2>2, <2>3 DEF AskedFor
<1>18. HandKinds'
  BY <1>1, <1>2, <1>3, <1>7, <1>9 DEF HandKinds, Told
<1> QED BY <1>2, <1>11, <1>12, <1>13, <1>14, <1>15, <1>16, <1>17, <1>18 DEF CoffretInv

LEMMA DeleteKeeps ==
    ASSUME CoffretInv, NEW c \in DOMAIN rows, Delete(c)
    PROVE  CoffretInv'
<1> SUFFICES ASSUME NEW op, op = [kind |-> "delete", head |-> NoHead, patch |-> NoPatch,
                                  range |-> {}, ts |-> n]
             PROVE  CoffretInv'
  OBVIOUS
<1>1. /\ Edited /\ rows' = Drop(rows, {c})
      /\ bound' = [v \in Vols |-> IF bound[v] = c THEN 0 ELSE bound[v]]
      /\ intent' = Drop(intent, {c}) /\ deleted' = deleted \union {c}
      /\ raced' = IF UnderWay(c) THEN raced \union {c} ELSE raced
      /\ owed' = IF UnderWay(c) THEN {"rows", "vols"}
                 ELSE IF Kind(c) = "create" THEN owed \union {"vols"} ELSE owed
      /\ UNCHANGED <<srows, sbound, serial, tries, pass, lists, binds, visits, made, recleared,
                     late>>
  BY DEF Delete
<1>2. /\ edits' = n /\ n \in 1..MaxEdits /\ edits' \in 0..MaxEdits /\ Ids \subseteq Ids'
      /\ AtHand' /\ Landed' = Landed /\ Over' = Over /\ Unsettled' = Unsettled /\ Settling' = Settling
  BY <1>1, EditFrame
<1>3. /\ TypeOK /\ Shapes /\ IdsKnown /\ AtHand /\ HandWaits /\ HandKinds /\ WaitingRowShown /\ RowsFollow
      /\ BindingsFollow /\ AskedFor
  BY DEF CoffretInv
<1>4. op \in Op /\ op.kind = "delete" /\ op.ts = n
  BY <1>2, NoPatchType DEF Op
<1>5. /\ \A d \in DOMAIN outbox : outbox[d] \in Op /\ Kind(d) = outbox[d].kind /\ outbox[d].ts \in Int
      /\ \A d : Kind(d) # "none" => d \in DOMAIN outbox /\ Kind(d) = outbox[d].kind
  BY Known, OpIs
<1>6. /\ DOMAIN outbox' = IF Kind(c) = "create" THEN DOMAIN outbox \ {c} ELSE DOMAIN outbox \union {c}
      /\ \A d \in DOMAIN outbox \ {c} : outbox'[d] = outbox[d]
      /\ Kind(c) # "create" => outbox'[c] = op
  <2>1. CASE Kind(c) = "create"
    <3>1. outbox' = Drop(outbox, {c})
      BY <2>1 DEF Delete, Uncreated
    <3> QED BY <2>1, <3>1 DEF Drop
  <2>2. CASE Kind(c) # "create"
    <3>1. outbox' = Put(outbox, c, op)
      BY <2>2 DEF Delete
    <3> QED BY <2>2, <3>1 DEF Put
  <2> QED BY <2>1, <2>2
<1>7. /\ \A d : d # c => Kind(d)' = Kind(d)
      /\ Kind(c) = "create" => Kind(c)' = "none"
      /\ Kind(c) # "create" => Kind(c)' = "delete"
  <2>1. ASSUME NEW d, d # c PROVE Kind(d)' = Kind(d)
    BY <1>6, <2>1 DEF Kind
  <2>2. /\ Kind(c) = "create" => Kind(c)' = "none"
        /\ Kind(c) # "create" => Kind(c)' = "delete"
    BY <1>4, <1>6 DEF Kind
  <2> QED BY <2>1, <2>2
<1>8. /\ DOMAIN rows' = DOMAIN rows \ {c} /\ \A d \in DOMAIN rows \ {c} : rows'[d] = rows[d]
      /\ DOMAIN intent' = DOMAIN intent \ {c} /\ \A d \in DOMAIN intent \ {c} : intent'[d] = intent[d]
  BY <1>1 DEF Drop
<1>9. raced \subseteq raced' /\ recleared \subseteq recleared' /\ owed \subseteq owed'
  BY <1>1, <1>3 DEF TypeOK
<1>10. UnderWay(c) => c \in raced' /\ Told'
  BY <1>1 DEF Told
<1>11. /\ InHand(c) => UnderWay(c)
       /\ \A r \in DOMAIN made : made[r] = c \/ (r = c /\ InHand(made[r])) => UnderWay(c)
  BY DEF UnderWay
<1>12. c \in Ids /\ c # 0 /\ (Kind(c) = "create" => c \notin DOMAIN srows)
  BY <1>3, <1>5, Known DEF IdsKnown
<1>13. /\ pass.st \notin {"off", "flush"} => InHand(pass.cur)
       /\ Over \/ Landed => pass.st \notin {"off", "flush"}
       /\ Landed /\ cur.kind = "create" => pass.got \in DOMAIN made /\ made[pass.got] = pass.cur
  BY <1>3 DEF AtHand, InHand, Over, Landed, TypeOK, IdsKnown
<1>14. TypeOK'
  <2>1. bound' \in [Vols -> Int]
    BY <1>1, <1>3 DEF TypeOK
  <2>2. DOMAIN outbox' \subseteq Int /\ \A d \in DOMAIN outbox' : outbox'[d] \in Op
    <3>1. c \in Int
      BY <1>3 DEF TypeOK
    <3> QED BY <1>3, <1>4, <1>6, <3>1 DEF TypeOK
  <2> QED BY <1>1, <1>2, <1>3, <1>8, <2>1, <2>2 DEF TypeOK
<1>15. Shapes'
  <2>1. rows' \in [DOMAIN rows' -> Header]
    BY <1>1, <1>3 DEF Drop, Shapes
  <2> QED BY <1>1, <1>3, <2>1 DEF Shapes, NoPass
<1>16. IdsKnown'
  <2>1. /\ DOMAIN rows' \subseteq Ids' /\ DOMAIN outbox' \subseteq Ids' /\ DOMAIN pass'.todo \subseteq Ids'
        /\ DOMAIN intent' \subseteq Ids' /\ deleted' \subseteq Ids' /\ DOMAIN made' = 1..serial'
        /\ \A d \in DOMAIN pass.todo : pass.todo[d].kind = "create" => d < 0
    BY <1>1, <1>2, <1>3, <1>6, <1>8 DEF IdsKnown
  <2>2. ASSUME NEW d \in DOMAIN outbox'
        PROVE  (outbox'[d].kind = "create" => d < 0) /\ outbox'[d].ts <= edits'
    <3>1. CASE d = c
      BY <1>2, <1>4, <1>6, <3>1
    <3>2. CASE d # c
      <4>1. d \in DOMAIN outbox /\ outbox'[d] = outbox[d] /\ outbox[d].ts \in Int /\ edits \in Int
        BY <1>5, <1>6, <3>2, Known
      <4> QED BY <1>2, <1>3, <4>1 DEF IdsKnown, n
    <3> QED BY <3>1, <3>2
  <2> QED BY <1>1, <2>1, <2>2 DEF IdsKnown
<1>17. HandWaits'
  <2>1. \A d \in Unsettled \ raced' : d \in DOMAIN outbox' /\ outbox'[d] = pass.todo[d]
    BY <1>3, <1>6, <1>9, <1>10, <1>11 DEF HandWaits, Unsettled, InHand
  <2>2. Over /\ Kind(pass.cur)' # "none" =>
           /\ pass.cur \in raced' /\ Kind(pass.cur)' # "create"
           /\ Kind(pass.cur)' = "delete" => Told'
    BY <1>1, <1>3, <1>7, <1>9, <1>10, <1>11, <1>13 DEF HandWaits, Told
  <2>3. Landed /\ cur.kind = "create" /\ Kind(pass.got)' = "delete" => pass.got \in raced' /\ Told'
    BY <1>1, <1>3, <1>7, <1>9, <1>10, <1>11, <1>13 DEF HandWaits, Told
  <2> QED BY <1>1, <1>2, <2>1, <2>2, <2>3 DEF HandWaits, cur
<1>18. WaitingRowShown'
  BY <1>3, <1>4, <1>6, <1>8, <1>9 DEF WaitingRowShown
<1>19. RowsFollow'
  <2> SUFFICES ASSUME "rows" \notin owed \union late, ~UnderWay(c)
               PROVE  RowsFollow'
    BY <1>1, <1>9, <1>10 DEF RowsFollow, Told
  <2>1. ASSUME NEW d \in (DOMAIN rows' \union DOMAIN srows) \ (DOMAIN outbox' \union Settling)
        PROVE  SameRow(d)'
    <3>1. d # c
      BY <1>6, <1>8, <1>12
    <3> QED BY <1>1, <1>3, <1>6, <1>8, <3>1 DEF RowsFollow, SameRow
  <2>2. \A d \in DOMAIN outbox' : outbox'[d].kind = "delete" => d \notin DOMAIN rows'
    BY <1>3, <1>6, <1>8 DEF RowsFollow
  <2>3. Landed /\ cur.kind = "delete" => pass.cur \notin DOMAIN rows'
    BY <1>3, <1>8 DEF RowsFollow
  <2> QED BY <1>1, <1>2, <2>1, <2>2, <2>3 DEF RowsFollow, cur
<1>20. BindingsFollow'
  <2> SUFFICES ASSUME "vols" \notin owed \union late, ~UnderWay(c), Kind(c) # "create"
               PROVE  BindingsFollow'
    BY <1>1, <1>10 DEF BindingsFollow, Told
  <2>1. ASSUME pass.st \notin {"reread", "revols"}, NEW v \in Vols PROVE BoundRight(v)'
    <3>1. BoundRight(v)
      BY <1>3, <2>1 DEF BindingsFollow
    <3>2. c \notin Claims(v) /\ \A d \in Claims(v) : outbox'[d] = outbox[d]
      BY <1>5, <1>6 DEF Claims
    <3>3. Claims(v)' = Claims(v)
      BY <1>4, <1>5, <1>6 DEF Claims
    <3>4. BoundOf(v)' = IF BoundOf(v) = c THEN 0 ELSE BoundOf(v)
      <4>1. pass.st = "acked" /\ cur.kind = "create" => pass.cur # c /\ pass.got # c /\ pass.cur # 0
        BY <1>3, <1>11, <1>13, Known DEF Landed, Over, IdsKnown, InHand
      <4> QED BY <1>1, <4>1 DEF BoundOf, cur
    <3>5. Kind(sbound[v])' = IF sbound[v] = c THEN "delete" ELSE Kind(sbound[v])
      BY <1>1, <1>7
    <3>6. CASE Claims(v) = {}
      <4>1. BoundOf(v) = IF Kind(sbound[v]) = "delete" THEN 0 ELSE sbound[v]
        BY <3>1, <3>6 DEF BoundRight
      <4>2. BoundOf(v)' = IF Kind(sbound[v])' = "delete" THEN 0 ELSE sbound'[v]
        BY <1>1, <1>12, <3>4, <3>5, <4>1
      <4> QED BY <3>3, <3>6, <4>2 DEF BoundRight
    <3>7. CASE Claims(v) # {}
      BY <3>1, <3>2, <3>3, <3>4, <3>7 DEF BoundRight
    <3> QED BY <3>6, <3>7
  <2>2. \A d \in Unsettled : pass.todo[d].kind = "create" =>
           Kind(d)' = "create" /\ outbox'[d].range = pass.todo[d].range
    BY <1>3, <1>5, <1>6, <1>7, <1>11 DEF BindingsFollow, Unsettled, InHand
  <2>3. InOrder'
    <3>1. InOrder
      BY <1>3 DEF BindingsFollow
    <3>2. \A a \in DOMAIN outbox' : outbox'[a].kind = "create" => a \in DOMAIN outbox /\ outbox'[a] = outbox[a]
      BY <1>4, <1>6
    <3> QED BY <1>1, <3>1, <3>2 DEF InOrder
  <2> QED BY <1>1, <1>2, <2>1, <2>2, <2>3 DEF BindingsFollow
<1>21. AskedFor'
  <2>1. ASSUME NEW d \in DOMAIN outbox'
        PROVE  /\ outbox'[d].kind = "create" => /\ d \in DOMAIN intent' /\ intent'[d] = outbox'[d].head
                                                /\ d \in deleted' => d \in raced'
               /\ outbox'[d].kind = "update" => d \in DOMAIN intent'
               /\ outbox'[d].kind = "delete" => d \in deleted' /\ (d \in DOMAIN intent' => d \in raced')
    <3>1. CASE d # c
      BY <1>1, <1>3, <1>6, <1>8, <1>9, <3>1 DEF AskedFor
    <3>2. CASE d = c
      BY <1>1, <1>4, <1>6, <1>8, <3>2
    <3> QED BY <3>1, <3>2
  <2>2. ASSUME NEW d \in Promised'
        PROVE  /\ Kind(d)' = "update" /\ d \in DOMAIN srows =>
                     Patched(srows[d], outbox'[d].patch) = intent'[d]
               /\ Kind(d)' = "none" => d \in DOMAIN srows /\ srows[d] = intent'[d]
    <3>1. d # c /\ d \in Promised /\ intent'[d] = intent[d] /\ Kind(d)' = Kind(d)
      BY <1>7, <1>8, <1>9, <2>2 DEF Promised
    <3> QED BY <1>3, <1>5, <1>6, <3>1 DEF AskedFor
  <2>3. /\ \A d \in DOMAIN pass.todo : pass.todo[d].kind = "create" /\ d \in deleted' => d \in raced'
        /\ \A r \in DOMAIN made : made[r] \in deleted' => made[r] \in raced'
    BY <1>1, <1>3, <1>9, <1>10, <1>11 DEF AskedFor, InHand
  <2>4. \A d \in DOMAIN srows \cap (deleted' \ raced') : Kind(d)' = "delete"
    BY <1>1, <1>3, <1>7, <1>9, <1>12 DEF AskedFor
  <2> QED BY <1>1, <2>1, <2>2, <2>3, <2>4 DEF AskedFor
<1>22. HandKinds'
  <2>1. Told => Told'
    BY <1>9 DEF Told
  <2>2. ASSUME NEW d \in Unsettled
        PROVE  /\ Kind(d)' = "create" => pass.todo[d].kind = "create"
               /\ pass.todo[d].kind = "delete" => Kind(d)' = "delete"
               /\ Kind(d)' = "delete" /\ pass.todo[d].kind # "delete" => Told'
    <3>1. CASE d = c
      <4>1. Told'
        BY <1>10, <1>11, <3>1 DEF Unsettled, InHand
      <4> QED BY <1>3, <1>7, <3>1, <4>1 DEF HandKinds
    <3>2. CASE d # c
      BY <1>3, <1>7, <2>1, <3>2 DEF HandKinds
    <3> QED BY <3>1, <3>2
  <2> QED BY <1>1, <1>2, <2>2 DEF HandKinds
<1> QED BY <1>2, <1>14, <1>15, <1>16, <1>17, <1>18, <1>19, <1>20, <1>21, <1>22 DEF CoffretInv

-----------------------------------------------------------------------------
(* The steps of a pass that touch nothing but the pass *)

NotTypeInv == /\ Shapes /\ IdsKnown /\ AtHand /\ HandWaits /\ HandKinds
              /\ WaitingRowShown /\ RowsFollow /\ BindingsFollow /\ AskedFor

\* The pass is at its end, or gone; what it had not put right is owed.
LEMMA PassGone ==
    ASSUME CoffretInv, pass' = NoPass, owed \subseteq owed', Over \/ Landed => Told',
           UNCHANGED <<Device, Server, edits, intent, deleted, raced, recleared, late>>
    PROVE  NotTypeInv'
<1>1. /\ UNCHANGED <<rows, bound, outbox, srows, sbound, serial, made>>
      /\ \A c : Kind(c)' = Kind(c)
  BY DEF Device, Server, Kind
<1>2. /\ pass'.st = "off" /\ DOMAIN pass'.todo = {} /\ pass'.answer = "ok" /\ pass'.got = 0 /\ pass'.cur = 0
      /\ ~Landed' /\ ~Over' /\ Unsettled' = {} /\ Settling' = {}
  BY DEF NoPass, Empty, Landed, Over, Unsettled, Settling
<1>3. /\ TypeOK /\ Shapes /\ IdsKnown /\ AtHand /\ HandWaits /\ HandKinds /\ WaitingRowShown /\ RowsFollow
      /\ BindingsFollow /\ AskedFor
  BY DEF CoffretInv
<1>4. Shapes' /\ IdsKnown' /\ AtHand' /\ HandWaits' /\ HandKinds' /\ WaitingRowShown'
  <2>1. Shapes'
    BY <1>1, <1>2, <1>3 DEF Shapes, NoPass
  <2>2. IdsKnown'
    BY <1>1, <1>2, <1>3 DEF IdsKnown, Ids
  <2>3. AtHand' /\ HandWaits' /\ HandKinds'
    BY <1>2 DEF AtHand, HandWaits, HandKinds
  <2>4. WaitingRowShown'
    BY <1>1, <1>3 DEF WaitingRowShown
  <2> QED BY <2>1, <2>2, <2>3, <2>4
<1>5. RowsFollow'
  <2> SUFFICES ASSUME "rows" \notin owed' \union late'
               PROVE  RowsFollow'
    BY DEF RowsFollow
  <2>1. "rows" \notin owed \union late /\ Settling = {}
    BY DEF Told, Settling, Over
  <2> QED BY <1>1, <1>2, <1>3, <2>1 DEF RowsFollow, SameRow
<1>6. BindingsFollow'
  <2> SUFFICES ASSUME "vols" \notin owed' \union late'
               PROVE  BindingsFollow'
    BY DEF BindingsFollow
  <2>1. "vols" \notin owed \union late /\ pass.st \notin {"acked", "reread", "revols"}
    BY DEF Told, Over
  <2>2. ASSUME NEW v \in Vols PROVE BoundRight(v)'
    <3>1. BoundRight(v)
      BY <1>3, <2>1 DEF BindingsFollow
    <3>2. BoundOf(v)' = BoundOf(v) /\ Claims(v)' = Claims(v)
      BY <1>1, <1>2, <2>1 DEF BoundOf, Claims
    <3> QED BY <1>1, <3>1, <3>2 DEF BoundRight
  <2> QED BY <1>2, <2>2 DEF BindingsFollow, InOrder
<1>7. AskedFor'
  BY <1>1, <1>2, <1>3 DEF AskedFor, Promised
<1> QED BY <1>4, <1>5, <1>6, <1>7 DEF NotTypeInv

LEMMA EndPassKeeps ==
    ASSUME CoffretInv, EndPass
    PROVE  CoffretInv'
<1>1. /\ pass' = NoPass /\ UNCHANGED <<Device, Server, tries, lists, binds, edits, visits, intent, deleted, raced,
                                       recleared, owed, late>>
      /\ pass.st = "flush"
  BY DEF EndPass
<1>2. NotTypeInv'
  BY <1>1, PassGone DEF Over, Landed
<1>3. TypeOK'
  BY <1>1 DEF CoffretInv, TypeOK, NoPass, Empty, Device, Server
<1> QED BY <1>2, <1>3 DEF CoffretInv, NotTypeInv

LEMMA StopKeeps ==
    ASSUME CoffretInv, Stop
    PROVE  CoffretInv'
<1>1. /\ pass' = NoPass /\ UNCHANGED <<Device, Server, lists, binds, edits, visits, intent, deleted, raced,
                                       recleared, owed, late>>
      /\ pass.st = "reply" /\ pass.answer = "failed"
      /\ ~Exhausted(pass.cur) /\ tries' = Put(tries, pass.cur, Failures(pass.cur) + 1)
  BY DEF Stop, history
<1>2. NotTypeInv'
  BY <1>1, PassGone DEF Over, Landed
<1>3. \A c \in DOMAIN tries' : tries'[c] \in 1..(MaxTries - 1)
  <2>1. \A c \in DOMAIN tries : tries[c] \in 1..(MaxTries - 1)
    BY DEF CoffretInv, TypeOK
  <2>2. Failures(pass.cur) + 1 \in 1..(MaxTries - 1)
    BY <1>1, <2>1, BoundsAssumption DEF Failures, Exhausted
  <2> QED BY <1>1, <2>1, <2>2 DEF Put
<1>4. TypeOK'
  BY <1>1, <1>3 DEF CoffretInv, TypeOK, NoPass, Empty, Device, Server
<1> QED BY <1>2, <1>4 DEF CoffretInv, NotTypeInv

LEMMA ReloadKeeps ==
    ASSUME CoffretInv, Reload
    PROVE  CoffretInv'
<1>1. /\ pass' = NoPass /\ UNCHANGED <<Device, Server, edits, intent, deleted, raced, recleared, late>>
      /\ visits < MaxVisits /\ visits' = visits + 1 /\ tries' = Empty
      /\ lists' = NoAnswers /\ binds' = NoAnswers
      /\ owed' = IF pass.st \in {"acked", "reread", "revols"}
                    \/ (pass.st = "reply" /\ pass.answer = "ok")
                 THEN {"rows", "vols"} ELSE owed
  BY DEF Reload, Visit
<1>2. owed \subseteq owed' /\ owed' \subseteq {"rows", "vols"} /\ (Over \/ Landed => Told')
  BY <1>1 DEF CoffretInv, TypeOK, Over, Landed, Told
<1>3. NotTypeInv'
  BY <1>1, <1>2, PassGone
<1>4. visits' \in 0..MaxVisits
  BY <1>1, BoundsAssumption DEF CoffretInv, TypeOK
<1>5. TypeOK'
  BY <1>1, <1>2, <1>4 DEF CoffretInv, TypeOK, NoPass, Empty, Device, Server, NoAnswers
<1> QED BY <1>3, <1>5 DEF CoffretInv, NotTypeInv

LEMMA StartPassKeeps ==
    ASSUME CoffretInv, StartPass
    PROVE  CoffretInv'
<1>1. /\ pass.st = "off" /\ pass' = [pass EXCEPT !.st = "flush", !.todo = outbox]
      /\ UNCHANGED <<rows, bound, outbox, srows, sbound, serial, made, tries, lists, binds, edits, visits, intent,
                     deleted, raced, recleared, owed, late>>
      /\ \A c : Kind(c)' = Kind(c)
  BY DEF StartPass, Device, Server, Kind
<1>2. /\ TypeOK /\ Shapes /\ IdsKnown /\ AtHand /\ HandWaits /\ HandKinds /\ WaitingRowShown /\ RowsFollow
      /\ BindingsFollow /\ AskedFor
  BY DEF CoffretInv
<1>3. pass' = [st |-> "flush", todo |-> outbox, cur |-> pass.cur, answer |-> pass.answer, got |-> pass.got]
  BY <1>1, <1>2 DEF Shapes
<1>4. /\ pass'.st = "flush" /\ pass'.todo = outbox /\ pass'.got \in Nat /\ pass'.answer = pass.answer
      /\ ~Landed' /\ ~Over' /\ Unsettled' = DOMAIN outbox /\ Settling' = {} /\ Settling = {}
  BY <1>1, <1>2, <1>3 DEF Landed, Over, Unsettled, Settling, Shapes
<1>5. TypeOK' /\ Shapes' /\ IdsKnown' /\ AtHand' /\ WaitingRowShown'
  <2>1. TypeOK'
    BY <1>1, <1>2, <1>4 DEF TypeOK
  <2>2. Shapes'
    BY <1>1, <1>2, <1>3, <1>4 DEF Shapes
  <2>3. IdsKnown'
    BY <1>1, <1>2, <1>4 DEF IdsKnown, Ids
  <2>4. AtHand'
    BY <1>4 DEF AtHand
  <2>5. WaitingRowShown'
    BY <1>1, <1>2 DEF WaitingRowShown
  <2> QED BY <2>1, <2>2, <2>3, <2>4, <2>5
<1>6. HandWaits' /\ HandKinds'
  BY <1>1, <1>4, Known DEF HandWaits, HandKinds
<1>7. RowsFollow'
  BY <1>1, <1>2, <1>4 DEF RowsFollow, SameRow
<1>8. BindingsFollow'
  <2> SUFFICES ASSUME "vols" \notin owed \union late
               PROVE  BindingsFollow'
    BY <1>1 DEF BindingsFollow
  <2>1. ASSUME NEW v \in Vols PROVE BoundRight(v)'
    <3>1. BoundRight(v)
      BY <1>1, <1>2 DEF BindingsFollow
    <3>2. BoundOf(v)' = BoundOf(v) /\ Claims(v)' = Claims(v)
      BY <1>1, <1>4 DEF BoundOf, Claims
    <3> QED BY <1>1, <3>1, <3>2 DEF BoundRight
  <2>2. \A c \in DOMAIN outbox : Kind(c) = outbox[c].kind
    BY Known
  <2>3. InOrder'
    BY <1>1, <1>4 DEF InOrder
  <2> QED BY <1>1, <1>4, <2>1, <2>2, <2>3 DEF BindingsFollow
<1>9. AskedFor'
  BY <1>1, <1>2, <1>4 DEF AskedFor, Promised
<1> QED BY <1>5, <1>6, <1>7, <1>8, <1>9 DEF CoffretInv

LEMMA TakeUpKeeps ==
    ASSUME CoffretInv, NEW c \in DOMAIN pass.todo, TakeUp(c)
    PROVE  CoffretInv'
<1>1. /\ pass.st = "flush" /\ pass' = [pass EXCEPT !.st = "wire", !.cur = c]
      /\ \A d \in DOMAIN pass.todo : pass.todo[c].ts <= pass.todo[d].ts
      /\ UNCHANGED <<rows, bound, outbox, srows, sbound, serial, made, tries, lists, binds, edits, visits, intent,
                     deleted, raced, recleared, owed, late>>
      /\ \A d : Kind(d)' = Kind(d)
  BY DEF TakeUp, Device, Server, Kind
<1>2. /\ TypeOK /\ Shapes /\ IdsKnown /\ AtHand /\ HandWaits /\ HandKinds /\ WaitingRowShown /\ RowsFollow
      /\ BindingsFollow /\ AskedFor
  BY DEF CoffretInv
<1>3. pass' = [st |-> "wire", todo |-> pass.todo, cur |-> c, answer |-> pass.answer, got |-> pass.got]
  BY <1>1, <1>2 DEF Shapes
<1>4. /\ pass'.st = "wire" /\ pass'.todo = pass.todo /\ pass'.got \in Nat /\ pass'.answer = pass.answer
      /\ pass'.cur = c /\ cur' = pass.todo[c]
      /\ ~Landed' /\ ~Over' /\ Unsettled' = Unsettled /\ Settling' = {} /\ Settling = {}
  BY <1>1, <1>2, <1>3 DEF Landed, Over, Unsettled, Settling, Shapes, cur
<1>5. TypeOK' /\ Shapes' /\ IdsKnown' /\ AtHand' /\ WaitingRowShown'
  <2>1. TypeOK'
    BY <1>1, <1>2, <1>4 DEF TypeOK
  <2>2. Shapes'
    BY <1>1, <1>2, <1>3, <1>4 DEF Shapes
  <2>3. IdsKnown'
    BY <1>1, <1>2, <1>4 DEF IdsKnown, Ids
  <2>4. AtHand'
    BY <1>1, <1>4 DEF AtHand
  <2>5. WaitingRowShown'
    BY <1>1, <1>2 DEF WaitingRowShown
  <2> QED BY <2>1, <2>2, <2>3, <2>4, <2>5
<1>6. HandWaits' /\ HandKinds'
  BY <1>1, <1>2, <1>4 DEF HandWaits, HandKinds, Told
<1>7. RowsFollow'
  BY <1>1, <1>2, <1>4 DEF RowsFollow, SameRow
<1>8. BindingsFollow'
  <2> SUFFICES ASSUME "vols" \notin owed \union late
               PROVE  BindingsFollow'
    BY <1>1 DEF BindingsFollow
  <2>1. ASSUME NEW v \in Vols PROVE BoundRight(v)'
    <3>1. BoundRight(v)
      BY <1>1, <1>2 DEF BindingsFollow
    <3>2. BoundOf(v)' = BoundOf(v) /\ Claims(v)' = Claims(v)
      BY <1>1, <1>4 DEF BoundOf, Claims
    <3> QED BY <1>1, <3>1, <3>2 DEF BoundRight
  <2>2. InOrder'
    BY <1>1, <1>2, <1>4 DEF BindingsFollow, InOrder
  <2> QED BY <1>1, <1>2, <1>4, <2>1, <2>2 DEF BindingsFollow
<1>9. AskedFor'
  BY <1>1, <1>2, <1>4 DEF AskedFor, Promised
<1> QED BY <1>5, <1>6, <1>7, <1>8, <1>9 DEF CoffretInv

-----------------------------------------------------------------------------
(* Reading back *)

\* What the guarded list keeps and what it takes from the answer.
LEMMA GuardedIs ==
    ASSUME CoffretInv, NEW list, \A c \in DOMAIN list : list[c] \in Header,
           NEW got, got = GuardedRows(list)
    PROVE  /\ got \in [DOMAIN got -> Header]
           /\ DOMAIN got \subseteq DOMAIN rows \union DOMAIN list
           /\ \A c \in (DOMAIN got \union DOMAIN list) \ DOMAIN outbox :
                 c \in DOMAIN got /\ c \in DOMAIN list /\ got[c] = list[c]
           /\ \A c \in DOMAIN outbox : outbox[c].kind = "delete" => c \notin DOMAIN got
           /\ \A c \in DOMAIN outbox \ raced : (outbox[c].kind = "delete") <=> (c \notin DOMAIN got)
<1>1. /\ DOMAIN got = (DOMAIN list \ DOMAIN outbox) \union (Kept \cap DOMAIN rows)
      /\ \A c \in DOMAIN got : got[c] = IF c \in Kept THEN rows[c] ELSE list[c]
      /\ got = [c \in DOMAIN got |-> got[c]]
  BY DEF GuardedRows
<1>2. \A c : c \in Kept <=> c \in DOMAIN outbox /\ outbox[c].kind # "delete"
  BY Known DEF Kept
<1>3. /\ \A c \in DOMAIN rows : rows[c] \in Header
      /\ WaitingRowShown
  BY DEF CoffretInv, TypeOK
<1>4. \A c \in DOMAIN got : got[c] \in Header
  BY <1>1, <1>2, <1>3
<1>5. got \in [DOMAIN got -> Header]
  BY <1>1, <1>4
<1> QED BY <1>1, <1>2, <1>3, <1>5 DEF WaitingRowShown

\* An answer in the air is a list of known coffrets, or bindings to them.
LEMMA AnswerIs ==
    ASSUME CoffretInv, NEW r \in Readers
    PROVE  /\ \A list \in lists[r] :
                 DOMAIN list \subseteq Ids /\ \A c \in DOMAIN list : list[c] \in Header
           /\ \A bind \in binds[r] : bind \in [Vols -> Int]
<1>1. serial \in Nat
  BY Known
<1> QED BY <1>1 DEF CoffretInv, TypeOK, Ids

\* What is due after a write that settles it was not, or nothing is in hand.
LEMMA SettledIs ==
    ASSUME CoffretInv, NEW what \in {"rows", "vols"},
           what \notin Settled(owed, what) \union Settled(late, what)
    PROVE  \/ what \notin owed \union late
           \/ DOMAIN outbox = {} /\ pass = NoPass /\ Unsettled = {} /\ ~Landed
BY DEF Settled, CoffretInv, Shapes, NoPass, Empty, Unsettled, Landed

\* Nothing but the answers in the air, and the bound on them, is touched.
LEMMA AnswersKeep ==
    ASSUME CoffretInv, TypeOK',
           UNCHANGED <<rows, bound, outbox, srows, sbound, serial, tries, pass, edits>>,
           UNCHANGED history
    PROVE  CoffretInv'
<1>1. UNCHANGED <<made, intent, deleted, raced, recleared, owed, late>>
  BY DEF history
<1>2. Shapes' /\ IdsKnown'
  BY <1>1 DEF CoffretInv, Shapes, IdsKnown, Ids, NoPass
<1>3. AtHand' /\ HandWaits' /\ HandKinds' /\ WaitingRowShown'
  BY <1>1 DEF CoffretInv, AtHand, HandWaits, HandKinds, WaitingRowShown, Landed, Over, Unsettled, Told,
              Kind, cur
<1>4. RowsFollow'
  BY <1>1 DEF CoffretInv, RowsFollow, SameRow, Settling, Landed, cur
<1>5. BindingsFollow'
  <2>1. \A v \in Vols : BoundRight(v)' = BoundRight(v)
    BY <1>1 DEF BoundRight, BoundOf, Claims, Kind, cur
  <2> QED BY <1>1, <2>1 DEF CoffretInv, BindingsFollow, InOrder, Unsettled, Over, Kind
<1>6. AskedFor'
  BY <1>1 DEF CoffretInv, AskedFor, Promised, Kind
<1> QED BY <1>2, <1>3, <1>4, <1>5, <1>6 DEF CoffretInv

LEMMA ListCameKeeps ==
    ASSUME CoffretInv, NEW r \in Readers, ListCame(r), visits' \in 0..MaxVisits
    PROVE  CoffretInv'
<1>1. /\ lists' = [lists EXCEPT ![r] = {srows}]
      /\ UNCHANGED <<rows, bound, outbox, srows, sbound, serial, tries, pass, edits, binds, made>>
      /\ UNCHANGED history
  BY DEF ListCame, Device, Server
<1>2. UNCHANGED <<owed, late>>
  BY <1>1 DEF history
<1>3. /\ DOMAIN lists' = Readers
      /\ \A x \in Readers : \A list \in lists'[x] : list = srows \/ list \in lists[x]
  BY <1>1 DEF CoffretInv, TypeOK
<1>4. TypeOK'
  BY <1>1, <1>2, <1>3 DEF CoffretInv, TypeOK
<1> QED BY <1>1, <1>4, AnswersKeep

LEMMA VolsCameKeeps ==
    ASSUME CoffretInv, NEW r \in Readers, VolsCame(r), visits' \in 0..MaxVisits
    PROVE  CoffretInv'
<1>1. /\ binds' = [binds EXCEPT ![r] = {sbound}]
      /\ UNCHANGED <<rows, bound, outbox, srows, sbound, serial, tries, pass, edits, lists, made>>
      /\ UNCHANGED history
  BY DEF VolsCame, Device, Server
<1>2. UNCHANGED <<owed, late>>
  BY <1>1 DEF history
<1>3. binds' \in [Readers -> SUBSET [Vols -> 0..serial]]
  <2>1. sbound \in [Vols -> 0..serial]
    BY Known DEF CoffretInv, TypeOK
  <2> QED BY <1>1, <2>1 DEF CoffretInv, TypeOK
<1>4. TypeOK'
  BY <1>1, <1>2, <1>3 DEF CoffretInv, TypeOK
<1> QED BY <1>1, <1>4, AnswersKeep

LEMMA RowsReadKeeps ==
    ASSUME CoffretInv, RowsRead
    PROVE  CoffretInv'
<1>0. PICK list \in lists["page"] : WriteRows(list)
  BY DEF RowsRead
<1>1. /\ rows' = GuardedRows(list) /\ lists' = [lists EXCEPT !["page"] = {}]
      /\ IF list = srows
         THEN owed' = Settled(owed, "rows") /\ late' = Settled(late, "rows")
         ELSE late' = late \union {"rows"} /\ owed' = owed
      /\ UNCHANGED <<bound, outbox, srows, sbound, serial, made, tries, pass, binds, edits, visits, intent,
                     deleted, raced, recleared>>
      /\ \A c : Kind(c)' = Kind(c)
  BY <1>0 DEF RowsRead, WriteRows, Server, Kind
<1>2. /\ TypeOK /\ Shapes /\ IdsKnown /\ AtHand /\ HandWaits /\ HandKinds /\ WaitingRowShown /\ RowsFollow
      /\ BindingsFollow /\ AskedFor
  BY DEF CoffretInv
<1>3. /\ Landed' = Landed /\ Over' = Over /\ Unsettled' = Unsettled /\ Settling' = Settling /\ cur' = cur
      /\ \A v \in Vols : BoundRight(v)' = BoundRight(v)
  BY <1>1 DEF Landed, Over, Unsettled, Settling, cur, BoundRight, BoundOf, Claims, Kind
<1>4. /\ owed' \subseteq owed /\ ("vols" \in owed => "vols" \in owed')
      /\ late' \subseteq late \union {"rows"} /\ ("vols" \in late => "vols" \in late')
  BY <1>1 DEF Settled
<1>5. /\ DOMAIN list \subseteq Ids /\ \A c \in DOMAIN list : list[c] \in Header
      /\ DOMAIN srows \subseteq Ids /\ Ids \subseteq Int
  BY <1>0, <1>2, AnswerIs, Known DEF Readers, TypeOK, Ids
<1>6. /\ rows' \in [DOMAIN rows' -> Header] /\ DOMAIN rows' \subseteq Ids
      /\ \A c \in (DOMAIN rows' \union DOMAIN list) \ DOMAIN outbox :
            c \in DOMAIN rows' /\ c \in DOMAIN list /\ rows'[c] = list[c]
      /\ \A c \in DOMAIN outbox : outbox[c].kind = "delete" => c \notin DOMAIN rows'
      /\ \A c \in DOMAIN outbox \ raced : (outbox[c].kind = "delete") <=> (c \notin DOMAIN rows')
      /\ \A c : c \notin DOMAIN rows /\ c \notin DOMAIN list => c \notin DOMAIN rows'
  BY <1>1, <1>2, <1>5, GuardedIs DEF IdsKnown
<1>7. TypeOK'
  <2>1. DOMAIN rows' \subseteq Int /\ \A c \in DOMAIN rows' : rows'[c] \in Header
    BY <1>5, <1>6
  <2>2. DOMAIN lists' = Readers /\ \A r \in Readers : \A x \in lists'[r] : x \in lists[r]
    BY <1>1, <1>2 DEF TypeOK
  <2> QED BY <1>1, <1>2, <1>4, <2>1, <2>2 DEF TypeOK
<1>8. Shapes' /\ IdsKnown' /\ AtHand'
  <2>1. Shapes'
    BY <1>1, <1>2, <1>6 DEF Shapes, NoPass
  <2>2. IdsKnown'
    <3>1. Ids' = Ids
      BY <1>1 DEF Ids
    <3> QED BY <1>1, <1>2, <1>6, <3>1 DEF IdsKnown
  <2>3. AtHand'
    BY <1>1, <1>2, <1>3 DEF AtHand
  <2> QED BY <2>1, <2>2, <2>3
<1>9. HandWaits' /\ HandKinds'
  <2>1. Told => (Told' \/ (~Over /\ ~Landed /\ Unsettled = {}))
    BY <1>1, <1>2 DEF Settled, Told, Over, Landed, Unsettled, Shapes, NoPass, Empty
  <2> QED BY <1>1, <1>2, <1>3, <2>1 DEF HandWaits, HandKinds
<1>10. WaitingRowShown'
  BY <1>1, <1>6 DEF WaitingRowShown
<1>11. RowsFollow'
  <2> SUFFICES ASSUME "rows" \notin owed' \union late'
               PROVE  RowsFollow'
    BY DEF RowsFollow
  <2>1. list = srows
    BY <1>1
  <2>2. "rows" \notin owed \union late \/ (DOMAIN outbox = {} /\ pass = NoPass /\ Unsettled = {} /\ ~Landed)
    BY <1>1, <2>1, SettledIs
  <2>3. \A c \in (DOMAIN rows' \union DOMAIN srows) \ (DOMAIN outbox \union Settling) : SameRow(c)'
    BY <1>1, <1>6, <2>1 DEF SameRow
  <2>4. Landed /\ cur.kind = "delete" => pass.cur \notin DOMAIN rows'
    <3>1. Landed /\ cur.kind = "delete" => pass.cur \notin DOMAIN rows /\ pass.cur \notin DOMAIN srows
      BY <1>2, <2>2 DEF RowsFollow, AtHand
    <3> QED BY <1>6, <2>1, <3>1
  <2> QED BY <1>1, <1>3, <1>6, <2>3, <2>4 DEF RowsFollow
<1>12. BindingsFollow'
  <2>1. InOrder' = InOrder
    BY <1>1 DEF InOrder
  <2> QED BY <1>1, <1>2, <1>3, <1>4, <2>1 DEF BindingsFollow
<1>13. AskedFor'
  BY <1>1, <1>2 DEF AskedFor, Promised
<1> QED BY <1>7, <1>8, <1>9, <1>10, <1>11, <1>12, <1>13 DEF CoffretInv

\* Where bindings that are written leave nothing owed, no coffret waits to be
\* made or to go, and they are the server's.
LEMMA BindingsSettled ==
    ASSUME CoffretInv, NEW bind, WriteBindings(bind), "vols" \notin owed' \union late'
    PROVE  /\ bound' = sbound
           /\ \A v \in Vols : Claims(v) = {} /\ Kind(sbound[v]) # "delete"
           /\ \A c \in DOMAIN outbox : outbox[c].kind = "update"
           /\ \A c \in Unsettled : pass.todo[c].kind = "create" =>
                 Kind(c) = "create" /\ outbox[c].range = pass.todo[c].range
<1>1. /\ \A c \in DOMAIN outbox : Kind(c) = "update"
      /\ bind = sbound /\ bound' = bind
      /\ owed' = Settled(owed, "vols") /\ late' = Settled(late, "vols")
  BY DEF WriteBindings
<1>2. \A c \in DOMAIN outbox : outbox[c].kind = "update"
  BY <1>1, Known
<1>3. ASSUME NEW v \in Vols PROVE Claims(v) = {} /\ Kind(sbound[v]) # "delete"
  BY <1>1, <1>2 DEF Claims, Kind
<1>4. "vols" \notin owed \union late \/ Unsettled = {}
  BY <1>1, SettledIs
<1> QED BY <1>1, <1>2, <1>3, <1>4 DEF CoffretInv, BindingsFollow

LEMMA VolsReadKeeps ==
    ASSUME CoffretInv, VolsRead
    PROVE  CoffretInv'
<1>0. PICK bind \in binds["page"] : WriteBindings(bind)
  BY DEF VolsRead
<1>1. /\ bound' = bind /\ binds' = [binds EXCEPT !["page"] = {}]
      /\ UNCHANGED <<rows, outbox, srows, sbound, serial, made, tries, pass, lists, edits, visits, intent,
                     deleted, raced, recleared>>
      /\ \A c : Kind(c)' = Kind(c)
  BY <1>0 DEF VolsRead, WriteBindings, Server, Kind
<1>2. /\ TypeOK /\ Shapes /\ IdsKnown /\ AtHand /\ HandWaits /\ HandKinds /\ WaitingRowShown /\ RowsFollow
      /\ BindingsFollow /\ AskedFor
  BY DEF CoffretInv
<1>3. Landed' = Landed /\ Over' = Over /\ Unsettled' = Unsettled /\ Settling' = Settling /\ cur' = cur
  BY <1>1 DEF Landed, Over, Unsettled, Settling, cur
<1>4. /\ owed' \subseteq owed \union {"vols"} /\ ("rows" \in owed => "rows" \in owed')
      /\ late' \subseteq late \union {"vols"} /\ ("rows" \in late => "rows" \in late')
  BY <1>0 DEF Settled, WriteBindings
<1>5. TypeOK'
  <2>1. bound' \in [Vols -> Int]
    BY <1>0, <1>1, AnswerIs DEF Readers
  <2>2. binds' \in [Readers -> SUBSET [Vols -> 0..serial]]
    BY <1>1, <1>2 DEF TypeOK
  <2> QED BY <1>1, <1>2, <1>4, <2>1, <2>2 DEF TypeOK
<1>6. Shapes' /\ IdsKnown' /\ AtHand' /\ WaitingRowShown'
  <2>1. Shapes'
    BY <1>1, <1>2 DEF Shapes, NoPass
  <2>2. IdsKnown'
    BY <1>1, <1>2 DEF IdsKnown, Ids
  <2>3. AtHand' /\ WaitingRowShown'
    BY <1>1, <1>2, <1>3 DEF AtHand, WaitingRowShown
  <2> QED BY <2>1, <2>2, <2>3
<1>7. HandWaits' /\ HandKinds'
  <2>1. Told => (Told' \/ (~Over /\ ~Landed /\ Unsettled = {}))
    BY <1>0, <1>2 DEF Settled, WriteBindings, Told, Over, Landed, Unsettled, Shapes, NoPass, Empty
  <2> QED BY <1>1, <1>2, <1>3, <2>1 DEF HandWaits, HandKinds
<1>8. RowsFollow'
  BY <1>1, <1>2, <1>3, <1>4 DEF RowsFollow, SameRow
<1>9. BindingsFollow'
  <2> SUFFICES ASSUME "vols" \notin owed' \union late'
               PROVE  BindingsFollow'
    BY DEF BindingsFollow
  <2>1. /\ bound' = sbound
        /\ \A v \in Vols : Claims(v) = {} /\ Kind(sbound[v]) # "delete"
        /\ \A c \in DOMAIN outbox : outbox[c].kind = "update"
        /\ \A c \in Unsettled : pass.todo[c].kind = "create" =>
              Kind(c) = "create" /\ outbox[c].range = pass.todo[c].range
    BY <1>0, BindingsSettled
  <2>2. ASSUME NEW v \in Vols PROVE BoundRight(v)'
    <3>1. pass.st = "acked" /\ cur.kind = "create" => sbound[v] # pass.cur
      <4>1. pass.st = "acked" => pass.cur \in DOMAIN pass.todo
        BY <1>2 DEF AtHand
      <4> QED BY <1>2, <4>1, Known DEF IdsKnown, cur
    <3>2. BoundOf(v)' = sbound[v] /\ Claims(v)' = {}
      BY <1>1, <2>1, <3>1 DEF BoundOf, Claims, cur
    <3> QED BY <1>1, <2>1, <3>2 DEF BoundRight
  <2>3. InOrder'
    BY <1>1, <2>1 DEF InOrder
  <2> QED BY <1>1, <1>3, <2>1, <2>2, <2>3 DEF BindingsFollow
<1>10. AskedFor'
  BY <1>1, <1>2 DEF AskedFor, Promised
<1> QED BY <1>5, <1>6, <1>7, <1>8, <1>9, <1>10 DEF CoffretInv

\* The pass is done with the list, which was written or failed.
LEMMA RowsRereadKeeps ==
    ASSUME CoffretInv, RowsReread \/ RowsFailed
    PROVE  CoffretInv'
<1>1. /\ pass.st = "reread" /\ pass' = [pass EXCEPT !.st = "revols"]
      /\ UNCHANGED <<bound, outbox, srows, sbound, serial, made, tries, binds, edits, visits, intent,
                     deleted, raced, recleared>>
      /\ \A c : Kind(c)' = Kind(c)
  BY DEF RowsReread, RowsFailed, WriteRows, Device, Server, Kind
<1>2. PICK list :
        /\ DOMAIN list \subseteq Ids /\ \A c \in DOMAIN list : list[c] \in Header
        /\ \/ /\ rows' = GuardedRows(list) /\ owed' = owed
              /\ late' = late \union {"rows"} \/ (list = srows /\ late' = late)
           \/ rows' = rows /\ owed' = owed \union {"rows"} /\ late' = late
  <2>1. CASE RowsReread
    <3>1. PICK list \in lists["pass"] : WriteRows(list)
      BY <2>1 DEF RowsReread
    <3> QED BY <1>1, <3>1, AnswerIs DEF WriteRows, Settled, Readers
  <2>2. CASE RowsFailed
    <3>1. DOMAIN Empty \subseteq Ids /\ \A c \in DOMAIN Empty : Empty[c] \in Header
      BY DEF Empty
    <3>2. rows' = rows /\ owed' = owed \union {"rows"} /\ late' = late
      BY <2>2 DEF RowsFailed, Device
    <3> QED BY <3>1, <3>2
  <2> QED BY <2>1, <2>2
<1>3. /\ TypeOK /\ Shapes /\ IdsKnown /\ AtHand /\ HandWaits /\ HandKinds /\ WaitingRowShown /\ RowsFollow
      /\ BindingsFollow /\ AskedFor
  BY DEF CoffretInv
<1>4. pass' = [st |-> "revols", todo |-> pass.todo, cur |-> pass.cur, answer |-> pass.answer,
               got |-> pass.got]
  BY <1>1, <1>3 DEF Shapes
<1>5. /\ pass'.st = "revols" /\ pass'.todo = pass.todo /\ pass'.got \in Nat /\ pass'.answer = pass.answer
      /\ pass'.cur = pass.cur /\ cur' = cur
      /\ ~Landed' /\ Over' /\ Over /\ ~Landed /\ Unsettled' = Unsettled /\ Settling' = {}
      /\ owed \subseteq owed' /\ owed' \subseteq owed \union {"rows"}
      /\ late \subseteq late' /\ late' \subseteq late \union {"rows"}
  BY <1>1, <1>2, <1>3, <1>4 DEF Landed, Over, Unsettled, Settling, Shapes, cur
<1>6. /\ DOMAIN rows' \subseteq Ids /\ rows' \in [DOMAIN rows' -> Header]
  BY <1>2, <1>3, GuardedIs DEF Shapes, IdsKnown
<1>7. TypeOK' /\ Shapes' /\ IdsKnown' /\ AtHand'
  <2>1. Ids \subseteq Int
    BY Known
  <2>2. DOMAIN lists' = Readers /\ \A r \in Readers : \A x \in lists'[r] : x \in lists[r]
    BY <1>3 DEF TypeOK, RowsReread, RowsFailed
  <2>3. TypeOK'
    BY <1>1, <1>3, <1>5, <1>6, <2>1, <2>2 DEF TypeOK
  <2>4. Shapes'
    BY <1>1, <1>3, <1>4, <1>5, <1>6 DEF Shapes
  <2>5. IdsKnown'
    <3>1. Ids' = Ids
      BY <1>1 DEF Ids
    <3> QED BY <1>1, <1>3, <1>5, <1>6, <3>1 DEF IdsKnown
  <2>6. AtHand'
    BY <1>1, <1>3, <1>5 DEF AtHand
  <2> QED BY <2>3, <2>4, <2>5, <2>6
<1>8. HandWaits' /\ HandKinds'
  BY <1>1, <1>3, <1>5 DEF HandWaits, HandKinds, Told
<1>9. WaitingRowShown'
  <2>1. CASE rows' = GuardedRows(list)
    <3>1. \A c \in DOMAIN outbox \ raced : (outbox[c].kind = "delete") <=> (c \notin DOMAIN rows')
      BY <1>2, <2>1, GuardedIs
    <3> QED BY <1>1, <3>1 DEF WaitingRowShown
  <2>2. CASE rows' = rows
    BY <1>1, <1>3, <2>2 DEF WaitingRowShown
  <2> QED BY <1>2, <2>1, <2>2
<1>10. RowsFollow'
  <2> SUFFICES ASSUME "rows" \notin owed' \union late', rows' = GuardedRows(srows)
               PROVE  RowsFollow'
    BY <1>2 DEF RowsFollow
  <2>1. \A c \in DOMAIN srows : srows[c] \in Header
    BY <1>3 DEF TypeOK
  <2>2. /\ \A c \in (DOMAIN rows' \union DOMAIN srows) \ DOMAIN outbox :
              c \in DOMAIN rows' /\ c \in DOMAIN srows /\ rows'[c] = srows[c]
        /\ \A c \in DOMAIN outbox : outbox[c].kind = "delete" => c \notin DOMAIN rows'
    BY <2>1, GuardedIs
  <2>3. \A c \in (DOMAIN rows' \union DOMAIN srows) \ DOMAIN outbox : SameRow(c)'
    BY <1>1, <2>2 DEF SameRow
  <2> QED BY <1>1, <1>5, <2>2, <2>3 DEF RowsFollow
<1>11. BindingsFollow'
  <2>1. InOrder' = InOrder
    BY <1>1, <1>5 DEF InOrder
  <2> QED BY <1>1, <1>3, <1>5, <2>1 DEF BindingsFollow
<1>12. AskedFor'
  BY <1>1, <1>3, <1>5 DEF AskedFor, Promised
<1> QED BY <1>7, <1>8, <1>9, <1>10, <1>11, <1>12 DEF CoffretInv

\* The pass is done with the volumes, and goes on to the next op.
LEMMA VolsRereadKeeps ==
    ASSUME CoffretInv, VolsReread \/ VolsFailed
    PROVE  CoffretInv'
<1>1. /\ pass.st = "revols"
      /\ pass' = [pass EXCEPT !.st = "flush", !.todo = Drop(pass.todo, {pass.cur})]
      /\ UNCHANGED <<rows, outbox, srows, sbound, serial, made, tries, lists, edits, visits, intent,
                     deleted, raced, recleared>>
      /\ \A c : Kind(c)' = Kind(c)
  BY DEF VolsReread, VolsFailed, WriteBindings, Device, Server, Kind
<1>2. \/ \E bind \in binds["pass"] : WriteBindings(bind)
      \/ bound' = bound /\ owed' = owed \union {"vols"} /\ late' = late
  BY DEF VolsReread, VolsFailed, Device
<1>3. /\ TypeOK /\ Shapes /\ IdsKnown /\ AtHand /\ HandWaits /\ HandKinds /\ WaitingRowShown /\ RowsFollow
      /\ BindingsFollow /\ AskedFor
  BY DEF CoffretInv
<1>4. pass' = [st |-> "flush", todo |-> Drop(pass.todo, {pass.cur}), cur |-> pass.cur,
               answer |-> pass.answer, got |-> pass.got]
  BY <1>1, <1>3 DEF Shapes
<1>5. /\ DOMAIN pass'.todo = DOMAIN pass.todo \ {pass.cur}
      /\ \A c \in DOMAIN pass'.todo : pass'.todo[c] = pass.todo[c]
  BY <1>4 DEF Drop
<1>6. /\ pass'.st = "flush" /\ pass'.got \in Nat /\ pass'.answer = pass.answer
      /\ ~Landed' /\ ~Over' /\ Over /\ ~Landed /\ Unsettled' = Unsettled /\ Settling' = {} /\ Settling = {}
  BY <1>1, <1>3, <1>4, <1>5 DEF Landed, Over, Unsettled, Settling, Shapes
<1>7. /\ owed \subseteq owed' /\ owed' \subseteq owed \union {"vols"}
      /\ late \subseteq late' /\ late' \subseteq late \union {"vols"}
  BY <1>1, <1>2 DEF WriteBindings, Settled
<1>8. TypeOK' /\ Shapes' /\ IdsKnown' /\ AtHand'
  <2>1. bound' \in [Vols -> Int]
    BY <1>2, <1>3, AnswerIs DEF TypeOK, WriteBindings, Readers
  <2>2. binds' \in [Readers -> SUBSET [Vols -> 0..serial]]
    BY <1>3 DEF TypeOK, VolsReread, VolsFailed
  <2>3. TypeOK'
    BY <1>1, <1>3, <1>5, <1>6, <1>7, <2>1, <2>2 DEF TypeOK
  <2>4. Shapes'
    BY <1>1, <1>3, <1>4, <1>6 DEF Shapes
  <2>5. IdsKnown'
    BY <1>1, <1>3, <1>5 DEF IdsKnown, Ids
  <2>6. AtHand'
    BY <1>6 DEF AtHand
  <2> QED BY <2>3, <2>4, <2>5, <2>6
<1>9. HandWaits' /\ HandKinds'
  <2>1. Unsettled \subseteq DOMAIN pass'.todo /\ outbox' = outbox /\ raced' = raced
    BY <1>1, <1>5, <1>6 DEF Unsettled
  <2>2. \A d \in Unsettled : pass'.todo[d] = pass.todo[d]
    BY <1>5, <2>1
  <2>3. HandWaits'
    BY <1>3, <1>6, <2>1, <2>2 DEF HandWaits
  <2>4. Told => Told'
    BY <1>7 DEF Told
  <2>5. HandKinds'
    BY <1>1, <1>3, <1>6, <2>2, <2>4 DEF HandKinds
  <2> QED BY <2>3, <2>5
<1>10. WaitingRowShown'
  BY <1>1, <1>3 DEF WaitingRowShown
<1>11. RowsFollow'
  BY <1>1, <1>3, <1>6, <1>7 DEF RowsFollow, SameRow
<1>12. BindingsFollow'
  <2> SUFFICES ASSUME "vols" \notin owed' \union late', NEW bind, WriteBindings(bind)
               PROVE  BindingsFollow'
    BY <1>2 DEF BindingsFollow
  <2>1. /\ bound' = sbound
        /\ \A v \in Vols : Claims(v) = {} /\ Kind(sbound[v]) # "delete"
        /\ \A c \in DOMAIN outbox : outbox[c].kind = "update"
        /\ \A c \in Unsettled : pass.todo[c].kind = "create" =>
              Kind(c) = "create" /\ outbox[c].range = pass.todo[c].range
    BY BindingsSettled
  <2>2. ASSUME NEW v \in Vols PROVE BoundRight(v)'
    <3>1. BoundOf(v)' = sbound[v] /\ Claims(v)' = {}
      BY <1>1, <1>6, <2>1 DEF BoundOf, Claims
    <3> QED BY <1>1, <2>1, <3>1 DEF BoundRight
  <2>3. InOrder'
    BY <1>1, <2>1 DEF InOrder
  <2> QED BY <1>1, <1>5, <1>6, <2>1, <2>2, <2>3 DEF BindingsFollow, Unsettled
<1>13. AskedFor'
  BY <1>1, <1>3, <1>5 DEF AskedFor, Promised
<1> QED BY <1>8, <1>9, <1>10, <1>11, <1>12, <1>13 DEF CoffretInv

LEMMA GiveUpKeeps ==
    ASSUME CoffretInv, GiveUp
    PROVE  CoffretInv'
<1> SUFFICES ASSUME NEW c, c = pass.cur
             PROVE  CoffretInv'
  OBVIOUS
<1>1. /\ pass.st = "reply" /\ pass.answer # "ok" /\ pass' = [pass EXCEPT !.st = "reread"]
      /\ outbox' = Drop(outbox, {c}) /\ (tries' = tries \/ tries' = Drop(tries, {c}))
      /\ intent' = Drop(intent, {c}) /\ deleted' = deleted \ {c}
      /\ UNCHANGED <<rows, bound, srows, sbound, serial, made, lists, binds, edits, visits,
                     raced, recleared, owed, late>>
  BY DEF GiveUp, Cleared, Server
<1>2. /\ DOMAIN outbox' = DOMAIN outbox \ {c} /\ \A d \in DOMAIN outbox' : outbox'[d] = outbox[d]
      /\ DOMAIN intent' = DOMAIN intent \ {c} /\ \A d \in DOMAIN intent' : intent'[d] = intent[d]
      /\ DOMAIN tries' \subseteq DOMAIN tries /\ \A d \in DOMAIN tries' : tries'[d] = tries[d]
  BY <1>1 DEF Drop
<1>3. /\ \A d : d # c => Kind(d)' = Kind(d)
      /\ Kind(c)' = "none"
  BY <1>2 DEF Kind
<1>4. /\ TypeOK /\ Shapes /\ IdsKnown /\ AtHand /\ HandWaits /\ HandKinds /\ WaitingRowShown /\ RowsFollow
      /\ BindingsFollow /\ AskedFor
  BY DEF CoffretInv
<1>5. pass' = [st |-> "reread", todo |-> pass.todo, cur |-> pass.cur, answer |-> pass.answer,
               got |-> pass.got]
  BY <1>1, <1>4 DEF Shapes
<1>6. /\ pass'.st = "reread" /\ pass'.todo = pass.todo /\ pass'.got \in Nat /\ pass'.answer = pass.answer
      /\ pass'.cur = c /\ cur' = cur
      /\ ~Landed' /\ Over' /\ ~Over /\ ~Landed /\ Unsettled' = Unsettled \ {c}
      /\ Settling' = {c} /\ Settling = {}
  BY <1>1, <1>4, <1>5 DEF Landed, Over, Unsettled, Settling, Shapes, cur
<1>7. TypeOK' /\ Shapes' /\ IdsKnown' /\ AtHand'
  <2>1. TypeOK'
    BY <1>1, <1>2, <1>4, <1>6 DEF TypeOK
  <2>2. Shapes'
    BY <1>1, <1>4, <1>5, <1>6 DEF Shapes
  <2>3. IdsKnown'
    BY <1>1, <1>2, <1>4, <1>6 DEF IdsKnown, Ids
  <2>4. AtHand'
    BY <1>1, <1>4, <1>6 DEF AtHand
  <2> QED BY <2>1, <2>2, <2>3, <2>4
<1>8. HandWaits' /\ HandKinds'
  <2>1. HandWaits'
    BY <1>1, <1>2, <1>3, <1>4, <1>6 DEF HandWaits
  <2>2. HandKinds'
    BY <1>1, <1>3, <1>4, <1>6 DEF HandKinds, Told
  <2> QED BY <2>1, <2>2
<1>9. WaitingRowShown'
  BY <1>1, <1>2, <1>4 DEF WaitingRowShown
<1>10. RowsFollow'
  BY <1>1, <1>2, <1>4, <1>6 DEF RowsFollow, SameRow
<1>11. BindingsFollow'
  <2> SUFFICES ASSUME "vols" \notin owed \union late
               PROVE  BindingsFollow'
    BY <1>1 DEF BindingsFollow
  <2>1. \A d \in Unsettled' : pass'.todo[d].kind = "create" =>
           Kind(d)' = "create" /\ outbox'[d].range = pass'.todo[d].range
    <3>1. \A d : Kind(d) = "create" => d \in DOMAIN outbox
      BY Known
    <3> QED BY <1>2, <1>3, <1>4, <1>6, <3>1 DEF BindingsFollow
  <2>2. InOrder'
    BY <1>2, <1>4, <1>6 DEF BindingsFollow, InOrder
  <2> QED BY <1>6, <2>1, <2>2 DEF BindingsFollow
<1>12. AskedFor'
  <2>1. ASSUME NEW d \in DOMAIN outbox'
        PROVE  /\ outbox'[d].kind = "create" => /\ d \in DOMAIN intent' /\ intent'[d] = outbox'[d].head
                                                /\ d \in deleted' => d \in raced'
               /\ outbox'[d].kind = "update" => d \in DOMAIN intent'
               /\ outbox'[d].kind = "delete" => d \in deleted' /\ (d \in DOMAIN intent' => d \in raced')
    <3>1. d # c /\ d \in DOMAIN outbox /\ outbox'[d] = outbox[d]
      BY <1>2
    <3>2. /\ outbox[d].kind = "create" => /\ d \in DOMAIN intent /\ intent[d] = outbox[d].head
                                          /\ d \in deleted => d \in raced
          /\ outbox[d].kind = "update" => d \in DOMAIN intent
          /\ outbox[d].kind = "delete" => d \in deleted /\ (d \in DOMAIN intent => d \in raced)
      BY <1>4, <3>1 DEF AskedFor
    <3> QED BY <1>1, <1>2, <3>1, <3>2
  <2>2. ASSUME NEW d \in Promised'
        PROVE  /\ Kind(d)' = "update" /\ d \in DOMAIN srows =>
                     Patched(srows[d], outbox'[d].patch) = intent'[d]
               /\ Kind(d)' = "none" => d \in DOMAIN srows /\ srows[d] = intent'[d]
    <3>1. d # c /\ d \in Promised /\ intent'[d] = intent[d] /\ Kind(d)' = Kind(d)
      BY <1>1, <1>2, <1>3, <2>2 DEF Promised
    <3>2. Kind(d) = "update" => outbox'[d] = outbox[d]
      BY <1>2, <3>1, Known
    <3> QED BY <1>4, <3>1, <3>2 DEF AskedFor
  <2>3. /\ \A d \in DOMAIN pass.todo : pass.todo[d].kind = "create" /\ d \in deleted' => d \in raced
        /\ \A r \in DOMAIN made : made[r] \in deleted' => made[r] \in raced
        /\ \A d \in DOMAIN srows \cap (deleted' \ raced) : Kind(d)' = "delete"
    BY <1>1, <1>3, <1>4 DEF AskedFor
  <2> QED BY <1>1, <1>6, <2>1, <2>2, <2>3 DEF AskedFor
<1> QED BY <1>7, <1>8, <1>9, <1>10, <1>11, <1>12 DEF CoffretInv

-----------------------------------------------------------------------------
(* An op that has landed *)

\* What is known of the op at hand once it has landed and before it is deleted
\* from the queue, if no edit crossed it.
LEMMA LandedIs ==
    ASSUME CoffretInv, Landed, ~Over, NEW c, c = pass.cur
    PROVE  /\ c \in Unsettled /\ c \in DOMAIN pass.todo /\ cur = pass.todo[c] /\ cur \in Op
           /\ c \notin raced => c \in DOMAIN outbox /\ outbox[c] = cur /\ Kind(c) = cur.kind
           /\ cur.kind = "create" => /\ c < 0 /\ pass.got \in DOMAIN srows /\ pass.got \in Ids
                                     /\ pass.got # c /\ pass.got >= 0 /\ srows[pass.got] = cur.head
           /\ c \notin raced /\ cur.kind # "create" /\ c \in DOMAIN intent /\ c \notin recleared
                 => c \in DOMAIN srows /\ srows[c] = intent[c]
           /\ c \notin raced /\ cur.kind = "create" => c \in DOMAIN intent /\ intent[c] = cur.head
<1>1. /\ TypeOK /\ IdsKnown /\ AtHand /\ HandWaits /\ AskedFor
  BY DEF CoffretInv
<1>2. c \in Unsettled /\ c \in DOMAIN pass.todo /\ cur = pass.todo[c] /\ cur \in Op
  BY <1>1 DEF AtHand, Landed, Over, Unsettled, cur, TypeOK
<1>3. c \notin raced => c \in DOMAIN outbox /\ outbox[c] = cur /\ Kind(c) = cur.kind
  BY <1>1, <1>2 DEF HandWaits, Kind
<1>4. cur.kind = "create" => /\ c < 0 /\ pass.got \in DOMAIN srows /\ pass.got \in Ids
                             /\ pass.got # c /\ pass.got >= 0 /\ srows[pass.got] = cur.head
  <2>1. cur.kind = "create" => c < 0 /\ pass.got \in DOMAIN srows /\ srows[pass.got] = cur.head
    BY <1>1, <1>2 DEF AtHand, IdsKnown
  <2>2. \A r \in DOMAIN srows : r \in Ids /\ r >= 0 /\ r \in Int
    BY <1>1, Known DEF Ids, TypeOK
  <2> QED BY <2>1, <2>2
<1>5. ASSUME c \notin raced, cur.kind # "create", c \in DOMAIN intent, c \notin recleared
      PROVE  c \in DOMAIN srows /\ srows[c] = intent[c]
  <2>1. cur.kind = "update"
    BY <1>1, <1>2, <1>3, <1>5, OpIs DEF AskedFor
  <2>2. c \in DOMAIN srows /\ Patched(srows[c], cur.patch) = srows[c]
    BY <1>1, <2>1 DEF AtHand
  <2>3. Patched(srows[c], cur.patch) = intent[c]
    BY <1>1, <1>3, <1>5, <2>1, <2>2 DEF AskedFor, Promised
  <2> QED BY <2>2, <2>3
<1>6. c \notin raced /\ cur.kind = "create" => c \in DOMAIN intent /\ intent[c] = cur.head
  BY <1>1, <1>3 DEF AskedFor
<1> QED BY <1>2, <1>3, <1>4, <1>5, <1>6

\* The bindings once the op at hand is out of the queue: a volume that was kept
\* for it goes to the id the server gave.
LEMMA SucceedBinds ==
    ASSUME CoffretInv, Landed, ~Over, NEW c, c = pass.cur, "vols" \notin owed \union late,
           UNCHANGED <<bound, sbound>>, pass'.st = "acked", cur' = cur, pass'.cur = c, pass'.got = pass.got,
           DOMAIN outbox' = DOMAIN outbox \ {c}, \A d \in DOMAIN outbox' : outbox'[d] = outbox[d],
           NEW v \in Vols
    PROVE  BoundRight(v)'
<1>1. /\ TypeOK /\ IdsKnown /\ AtHand /\ HandWaits /\ HandKinds /\ BindingsFollow
  BY DEF CoffretInv
<1>2. /\ c \in Unsettled /\ c \in DOMAIN pass.todo /\ cur = pass.todo[c]
      /\ cur.kind = "create" => /\ c < 0 /\ pass.got \in DOMAIN srows /\ pass.got # c
  BY LandedIs
<1>3. BoundRight(v) /\ BoundOf(v) = bound[v] /\ InOrder
  <2>1. pass.st \notin {"acked", "reread", "revols"}
    BY DEF Over
  <2> QED BY <1>1, <2>1 DEF BindingsFollow, BoundOf
<1>4. /\ Claims(v)' = Claims(v) \ {c} /\ \A d \in Claims(v)' : outbox'[d] = outbox[d]
      /\ \A d : d # c => Kind(d)' = Kind(d)
  BY DEF Claims, Kind
<1>5. BoundOf(v)' = IF cur.kind = "create" /\ bound[v] = c THEN pass.got ELSE bound[v]
  BY DEF BoundOf
<1>6. Kind(sbound[v])' = Kind(sbound[v]) \/ (sbound[v] = c /\ cur.kind # "create")
  <2>1. cur.kind = "create" => sbound[v] # c
    BY <1>2, Known
  <2> QED BY <1>4, <2>1
<1>7. c \in Claims(v) => cur.kind = "create" /\ Kind(c) = "create" /\ outbox[c].range = cur.range
  <2>1. c \in Claims(v) => Kind(c) = "create"
    BY DEF Claims, Kind
  <2> QED BY <1>1, <1>2, <2>1 DEF HandKinds, BindingsFollow
<1>8. CASE c \notin Claims(v) /\ Claims(v) # {}
  <2>1. bound[v] \in Claims(v) /\ bound[v] # c /\ Claims(v)' = Claims(v)
    BY <1>3, <1>4, <1>8 DEF BoundRight
  <2> QED BY <1>3, <1>4, <1>5, <1>8, <2>1 DEF BoundRight
<1>9. CASE Claims(v) = {}
  <2>1. bound[v] = IF Kind(sbound[v]) = "delete" THEN 0 ELSE sbound[v]
    BY <1>3, <1>9 DEF BoundRight
  <2>2. ASSUME sbound[v] = c, cur.kind # "create" PROVE Kind(c) # "delete" /\ Kind(c)' # "delete"
    <3>1. cur.kind # "delete"
      <4>1. c # 0 /\ c \in DOMAIN srows
        BY <1>1, <1>2, <2>2, Known DEF TypeOK, IdsKnown
      <4> QED BY <1>1, <4>1 DEF AtHand
    <3>2. Kind(c) = "delete" => Told
      BY <1>1, <1>2, <3>1 DEF HandKinds
    <3>3. Kind(c)' = "none"
      BY DEF Kind
    <3> QED BY <3>2, <3>3 DEF Told
  <2>3. cur.kind = "create" => bound[v] # c
    BY <1>2, <2>1, Known
  <2>4. BoundOf(v)' = bound[v]
    BY <1>5, <2>3
  <2>5. bound[v] = IF Kind(sbound[v])' = "delete" THEN 0 ELSE sbound[v]
    BY <1>6, <2>1, <2>2
  <2>6. Claims(v)' = {}
    BY <1>4, <1>9
  <2> QED BY <2>4, <2>5, <2>6 DEF BoundRight
<1>10. CASE c \in Claims(v)
  <2>1. \A d \in Claims(v) \ {c} : ~(outbox[d].ts < outbox[c].ts)
    <3> SUFFICES ASSUME NEW d \in Claims(v) \ {c}, outbox[d].ts < outbox[c].ts
                 PROVE  FALSE
      OBVIOUS
    <3>1. /\ c \in DOMAIN outbox /\ d \in DOMAIN outbox /\ c # d
          /\ outbox[c].kind = "create" /\ outbox[d].kind = "create"
          /\ outbox[c].range \cap outbox[d].range # {}
          /\ outbox[c].ts \in Int /\ outbox[d].ts \in Int
      BY <1>10, Known, OpIs DEF Claims
    <3>2. IF d \in DOMAIN pass.todo
          THEN outbox[d].ts < outbox[c].ts => pass.todo[d].ts < pass.todo[c].ts
          ELSE outbox[c].ts < outbox[d].ts
      BY <1>2, <1>3, <3>1 DEF InOrder
    <3>3. \A x \in DOMAIN pass.todo : pass.todo[x].ts \in Int
      BY Known, OpIs
    <3>4. \A x \in DOMAIN pass.todo : cur.ts <= pass.todo[x].ts
      BY <1>1 DEF AtHand, Landed
    <3> QED BY <1>2, <3>1, <3>2, <3>3, <3>4
  <2>2. CASE bound[v] # c
    <3>1. bound[v] \in Claims(v)' /\ BoundOf(v)' = bound[v]
      BY <1>3, <1>4, <1>5, <1>10, <2>2 DEF BoundRight
    <3>2. \A d \in Claims(v)' \ {bound[v]} : outbox'[d].ts < outbox'[bound[v]].ts
      BY <1>3, <1>4, <1>10, <3>1 DEF BoundRight
    <3> QED BY <3>1, <3>2 DEF BoundRight
  <2>3. CASE bound[v] = c
    <3>1. Claims(v)' = {}
      BY <1>3, <1>4, <1>10, <2>1, <2>3 DEF BoundRight
    <3>2. cur.kind = "create" /\ v \in cur.range
      BY <1>7, <1>10 DEF Claims
    <3>3. sbound[v] = pass.got
      BY <1>1, <3>2 DEF AtHand
    <3>4. Kind(pass.got)' # "delete"
      <4>1. Kind(pass.got) # "delete"
        BY <1>1, <3>2 DEF HandWaits, Told
      <4> QED BY <1>2, <1>4, <3>2, <4>1
    <3> QED BY <1>5, <2>3, <3>1, <3>2, <3>3, <3>4 DEF BoundRight
  <2> QED BY <2>2, <2>3
<1> QED BY <1>8, <1>9, <1>10

LEMMA SucceedKeeps ==
    ASSUME CoffretInv, Succeed
    PROVE  CoffretInv'
<1> SUFFICES ASSUME NEW c, c = pass.cur, NEW got, got = pass.got
             PROVE  CoffretInv'
  OBVIOUS
<1>1. /\ pass.st = "reply" /\ pass.answer = "ok" /\ pass' = [pass EXCEPT !.st = "acked"]
      /\ outbox' = Drop(outbox, {c})
      /\ raced' = IF cur.kind = "create" /\ c \in raced THEN raced \union {got} ELSE raced
      /\ intent' = IF cur.kind # "create" \/ c \notin DOMAIN intent THEN intent
                   ELSE IF got \in DOMAIN intent \union deleted THEN Drop(intent, {c})
                   ELSE Put(Drop(intent, {c}), got, intent[c])
      /\ UNCHANGED <<rows, bound, srows, sbound, serial, made, tries, lists, binds, edits, visits, deleted,
                     recleared, owed, late>>
  BY DEF Succeed, Server
<1>2. /\ DOMAIN outbox' = DOMAIN outbox \ {c} /\ \A d \in DOMAIN outbox' : outbox'[d] = outbox[d]
  BY <1>1 DEF Drop
<1>3. /\ \A d : d # c => Kind(d)' = Kind(d)
      /\ Kind(c)' = "none"
  BY <1>2 DEF Kind
<1>4. /\ TypeOK /\ Shapes /\ IdsKnown /\ AtHand /\ HandWaits /\ HandKinds /\ WaitingRowShown /\ RowsFollow
      /\ BindingsFollow /\ AskedFor
  BY DEF CoffretInv
<1>5. pass' = [st |-> "acked", todo |-> pass.todo, cur |-> pass.cur, answer |-> pass.answer,
               got |-> pass.got]
  BY <1>1, <1>4 DEF Shapes
<1>6. /\ pass'.st = "acked" /\ pass'.todo = pass.todo /\ pass'.got = got /\ got \in Nat
      /\ pass'.answer = pass.answer /\ pass'.cur = c /\ cur' = cur
      /\ Landed' /\ Over' /\ ~Over /\ Landed /\ Unsettled' = Unsettled \ {c}
      /\ Settling' = Settling /\ c \in Settling
  BY <1>1, <1>4, <1>5 DEF Landed, Over, Unsettled, Settling, Shapes, cur
<1>7. /\ c \in Unsettled /\ c \in DOMAIN pass.todo /\ cur = pass.todo[c] /\ cur \in Op
      /\ c \notin raced => c \in DOMAIN outbox /\ outbox[c] = cur /\ Kind(c) = cur.kind
      /\ cur.kind = "create" => /\ c < 0 /\ got \in DOMAIN srows /\ got \in Ids
                                /\ got # c /\ got >= 0 /\ srows[got] = cur.head
      /\ c \notin raced /\ cur.kind # "create" /\ c \in DOMAIN intent /\ c \notin recleared
            => c \in DOMAIN srows /\ srows[c] = intent[c]
      /\ c \notin raced /\ cur.kind = "create" => c \in DOMAIN intent /\ intent[c] = cur.head
  BY <1>6, LandedIs
<1>8. raced \subseteq raced'
  BY <1>1
<1>9. /\ \A d \in DOMAIN intent \ {c} : d \in DOMAIN intent' /\ intent'[d] = intent[d]
      /\ \A d \in DOMAIN intent' : d \in DOMAIN intent \/ (d = got /\ cur.kind = "create")
      /\ cur.kind = "create" => c \notin DOMAIN intent'
      /\ cur.kind # "create" => intent' = intent
      /\ got \in DOMAIN intent' /\ got \notin DOMAIN intent =>
            cur.kind = "create" /\ intent'[got] = intent[c] /\ got \notin deleted
  <2>1. CASE cur.kind # "create" \/ c \notin DOMAIN intent
    BY <1>1, <2>1
  <2>2. CASE cur.kind = "create" /\ c \in DOMAIN intent /\ got \in DOMAIN intent \union deleted
    BY <1>1, <2>2 DEF Drop
  <2>3. CASE cur.kind = "create" /\ c \in DOMAIN intent /\ got \notin DOMAIN intent \union deleted
    <3>1. intent' = Put(Drop(intent, {c}), got, intent[c])
      BY <1>1, <2>3
    <3>2. /\ DOMAIN intent' = (DOMAIN intent \ {c}) \union {got} /\ intent'[got] = intent[c]
          /\ \A d \in DOMAIN intent \ {c} : intent'[d] = intent[d]
      BY <2>3, <3>1 DEF Put, Drop
    <3> QED BY <1>7, <2>3, <3>2
  <2> QED BY <2>1, <2>2, <2>3
<1>10. TypeOK' /\ Shapes' /\ IdsKnown' /\ AtHand'
  <2>1. TypeOK'
    BY <1>1, <1>2, <1>4, <1>6 DEF TypeOK
  <2>2. Shapes'
    BY <1>1, <1>4, <1>5, <1>6 DEF Shapes
  <2>3. IdsKnown'
    <3>1. DOMAIN intent' \subseteq Ids
      BY <1>4, <1>7, <1>9 DEF IdsKnown
    <3> QED BY <1>1, <1>2, <1>4, <1>6, <3>1 DEF IdsKnown, Ids
  <2>4. AtHand'
    BY <1>1, <1>4, <1>6 DEF AtHand
  <2> QED BY <2>1, <2>2, <2>3, <2>4
<1>11. HandWaits' /\ HandKinds'
  <2>1. cur.kind = "create" /\ Kind(got)' = "delete" => got \in raced' /\ Told'
    BY <1>1, <1>3, <1>4, <1>6, <1>7, <1>8 DEF HandWaits, Told
  <2>2. HandWaits'
    BY <1>2, <1>3, <1>4, <1>6, <1>8, <2>1 DEF HandWaits
  <2>3. HandKinds'
    BY <1>1, <1>3, <1>4, <1>6 DEF HandKinds, Told
  <2> QED BY <2>2, <2>3
<1>12. WaitingRowShown'
  BY <1>1, <1>2, <1>4, <1>8 DEF WaitingRowShown
<1>13. RowsFollow'
  BY <1>1, <1>2, <1>4, <1>6 DEF RowsFollow, SameRow
<1>14. BindingsFollow'
  <2> SUFFICES ASSUME "vols" \notin owed \union late
               PROVE  BindingsFollow'
    BY <1>1 DEF BindingsFollow
  <2>1. ASSUME NEW v \in Vols PROVE BoundRight(v)'
    BY <1>1, <1>2, <1>6, SucceedBinds
  <2>2. \A d \in Unsettled' : pass'.todo[d].kind = "create" =>
           Kind(d)' = "create" /\ outbox'[d].range = pass'.todo[d].range
    <3>1. \A d : Kind(d) = "create" => d \in DOMAIN outbox
      BY Known
    <3> QED BY <1>2, <1>3, <1>4, <1>6, <3>1 DEF BindingsFollow
  <2>3. InOrder'
    BY <1>2, <1>4, <1>6 DEF BindingsFollow, InOrder
  <2> QED BY <2>1, <2>2, <2>3 DEF BindingsFollow
<1>15. AskedFor'
  <2>1. ASSUME NEW d \in DOMAIN outbox'
        PROVE  /\ outbox'[d].kind = "create" => /\ d \in DOMAIN intent' /\ intent'[d] = outbox'[d].head
                                                /\ d \in deleted' => d \in raced'
               /\ outbox'[d].kind = "update" => d \in DOMAIN intent'
               /\ outbox'[d].kind = "delete" => d \in deleted' /\ (d \in DOMAIN intent' => d \in raced')
    <3>1. d # c /\ d \in DOMAIN outbox /\ outbox'[d] = outbox[d]
      BY <1>2
    <3>2. /\ outbox[d].kind = "create" => /\ d \in DOMAIN intent /\ intent[d] = outbox[d].head
                                          /\ d \in deleted => d \in raced
          /\ outbox[d].kind = "update" => d \in DOMAIN intent
          /\ outbox[d].kind = "delete" => d \in deleted /\ (d \in DOMAIN intent => d \in raced)
      BY <1>4, <3>1 DEF AskedFor
    <3>3. outbox[d].kind = "delete" /\ d \in DOMAIN intent' => d \in DOMAIN intent
      BY <1>9, <3>2
    <3> QED BY <1>1, <1>8, <1>9, <3>1, <3>2, <3>3
  <2>2. ASSUME NEW d \in Promised'
        PROVE  /\ Kind(d)' = "update" /\ d \in DOMAIN srows =>
                     Patched(srows[d], outbox'[d].patch) = intent'[d]
               /\ Kind(d)' = "none" => d \in DOMAIN srows /\ srows[d] = intent'[d]
    <3>1. d \in DOMAIN intent' /\ d \notin raced' /\ d \notin raced /\ d \notin recleared
      BY <1>1, <1>8, <2>2 DEF Promised
    <3>2. CASE d = c
      BY <1>3, <1>7, <1>9, <3>1, <3>2
    <3>3. CASE d # c /\ d \notin DOMAIN intent
      <4>1. d = got /\ cur.kind = "create" /\ intent'[d] = intent[c] /\ c \notin raced
        BY <1>1, <1>9, <3>1, <3>3
      <4>2. Kind(d)' # "update"
        <5>1. Kind(d) = "update" => d \in DOMAIN intent
          BY <1>4, Known DEF AskedFor
        <5> QED BY <1>3, <3>3, <5>1
      <4> QED BY <1>7, <4>1, <4>2
    <3>4. CASE d # c /\ d \in DOMAIN intent
      <4>1. d \in Promised /\ intent'[d] = intent[d] /\ Kind(d)' = Kind(d)
        BY <1>3, <1>9, <3>1, <3>4 DEF Promised
      <4>2. Kind(d) = "update" => outbox'[d] = outbox[d]
        BY <1>2, <3>4, Known
      <4> QED BY <1>4, <4>1, <4>2 DEF AskedFor
    <3> QED BY <3>2, <3>3, <3>4
  <2>3. /\ \A d \in DOMAIN pass.todo : pass.todo[d].kind = "create" /\ d \in deleted => d \in raced'
        /\ \A r \in DOMAIN made : made[r] \in deleted => made[r] \in raced'
    BY <1>4, <1>8 DEF AskedFor
  <2>4. \A d \in DOMAIN srows \cap (deleted \ raced') : Kind(d)' = "delete"
    <3>1. c \in DOMAIN srows \cap (deleted \ raced') => FALSE
      <4>1. c \in DOMAIN srows \cap (deleted \ raced') => Kind(c) = "delete" /\ cur.kind = "delete"
        BY <1>4, <1>7, <1>8 DEF AskedFor
      <4> QED BY <1>4, <1>6, <4>1 DEF AtHand
    <3> QED BY <1>3, <1>4, <1>8, <3>1 DEF AskedFor
  <2> QED BY <1>1, <1>6, <2>1, <2>2, <2>3, <2>4 DEF AskedFor
<1> QED BY <1>10, <1>11, <1>12, <1>13, <1>14, <1>15 DEF CoffretInv

LEMMA MirrorKeeps ==
    ASSUME CoffretInv, Mirror
    PROVE  CoffretInv'
<1> SUFFICES ASSUME NEW c, c = pass.cur, NEW got, got = pass.got
             PROVE  CoffretInv'
  OBVIOUS
<1>1. /\ pass.st = "acked"
      /\ pass' = [pass EXCEPT !.st = "flush", !.todo = Drop(pass.todo, {c})]
      /\ tries' = Drop(tries, {c})
      /\ UNCHANGED <<outbox, srows, sbound, serial, made, lists, binds, edits, visits, intent, deleted, raced,
                     recleared, owed, late>>
      /\ \A d : Kind(d)' = Kind(d)
  BY DEF Mirror, Cleared, Server, Kind
<1>2. /\ cur.kind = "create" => /\ rows' = Put(Drop(rows, {c}), got, cur.head)
                                /\ bound' = [v \in Vols |-> IF bound[v] = c THEN got ELSE bound[v]]
      /\ cur.kind = "update" => rows' = Put(rows, c, srows[c]) /\ bound' = bound
      /\ cur.kind \notin {"create", "update"} => rows' = rows /\ bound' = bound
  BY DEF Mirror, Bindings
<1>3. /\ TypeOK /\ Shapes /\ IdsKnown /\ AtHand /\ HandWaits /\ HandKinds /\ WaitingRowShown /\ RowsFollow
      /\ BindingsFollow /\ AskedFor
  BY DEF CoffretInv
<1>4. pass' = [st |-> "flush", todo |-> Drop(pass.todo, {c}), cur |-> pass.cur, answer |-> pass.answer,
               got |-> pass.got]
  BY <1>1, <1>3 DEF Shapes
<1>5. /\ DOMAIN pass'.todo = DOMAIN pass.todo \ {c}
      /\ \A d \in DOMAIN pass'.todo : pass'.todo[d] = pass.todo[d]
      /\ DOMAIN tries' \subseteq DOMAIN tries /\ \A d \in DOMAIN tries' : tries'[d] = tries[d]
  <2>1. pass'.todo = Drop(pass.todo, {c}) /\ tries' = Drop(tries, {c})
    BY <1>1, <1>4
  <2> QED BY <2>1 DEF Drop
<1>6. /\ pass'.st = "flush" /\ pass'.got = got /\ got \in Nat /\ pass'.answer = pass.answer
      /\ ~Landed' /\ ~Over' /\ Over /\ Landed /\ Unsettled' = Unsettled /\ Settling' = {}
      /\ Settling = {c} \union (IF cur.kind = "create" THEN {got} ELSE {})
  BY <1>1, <1>3, <1>4, <1>5 DEF Landed, Over, Unsettled, Settling, Shapes
<1>7. /\ c \in DOMAIN pass.todo /\ cur = pass.todo[c] /\ cur \in Op /\ c \in Ids
      /\ cur.head \in Header /\ cur.kind \in {"create", "update", "delete"}
      /\ cur.kind = "create" => /\ c < 0 /\ c \notin DOMAIN srows /\ got \in DOMAIN srows
                                /\ srows[got] = cur.head /\ got \in Ids
      /\ cur.kind = "update" => c \in DOMAIN srows /\ srows[c] \in Header
      /\ cur.kind = "delete" => c \notin DOMAIN srows
  <2>1. c \in DOMAIN pass.todo /\ cur = pass.todo[c] /\ cur \in Op /\ c \in Ids
    BY <1>1, <1>3 DEF AtHand, cur, TypeOK, IdsKnown
  <2>2. cur.head \in Header /\ cur.kind \in {"create", "update", "delete"}
    BY <2>1, OpIs
  <2>3. /\ \A d \in DOMAIN srows : d \in Ids /\ d >= 0 /\ srows[d] \in Header
    BY <1>3, Known DEF Ids, TypeOK
  <2>4. cur.kind = "create" => c < 0 /\ got \in DOMAIN srows /\ srows[got] = cur.head
    BY <1>3, <1>6, <2>1 DEF AtHand, IdsKnown
  <2>5. /\ cur.kind = "update" => c \in DOMAIN srows
        /\ cur.kind = "delete" => c \notin DOMAIN srows
    BY <1>3, <1>6 DEF AtHand
  <2>6. cur.kind = "create" => c \notin DOMAIN srows
    BY <1>3, <2>1, <2>4, Known
  <2> QED BY <2>1, <2>2, <2>3, <2>4, <2>5, <2>6
<1>8. /\ cur.kind = "create" =>
            /\ DOMAIN rows' = (DOMAIN rows \ {c}) \union {got} /\ rows'[got] = cur.head
            /\ \A d \in DOMAIN rows \ {c, got} : rows'[d] = rows[d]
      /\ cur.kind = "update" =>
            /\ DOMAIN rows' = DOMAIN rows \union {c} /\ rows'[c] = srows[c]
            /\ \A d \in DOMAIN rows \ {c} : rows'[d] = rows[d]
      /\ cur.kind = "delete" => rows' = rows
      /\ rows' = [d \in DOMAIN rows' |-> rows'[d]]
  <2>1. CASE cur.kind = "create"
    BY <1>2, <2>1 DEF Put, Drop
  <2>2. CASE cur.kind = "update"
    BY <1>2, <2>2 DEF Put
  <2>3. CASE cur.kind = "delete"
    BY <1>2, <1>3, <2>3 DEF Shapes
  <2> QED BY <1>7, <2>1, <2>2, <2>3
<1>9. /\ DOMAIN rows' \subseteq Ids /\ rows' \in [DOMAIN rows' -> Header]
  <2>1. DOMAIN rows' \subseteq Ids
    BY <1>3, <1>7, <1>8 DEF IdsKnown
  <2>2. \A d \in DOMAIN rows' : rows'[d] \in Header
    BY <1>3, <1>7, <1>8 DEF TypeOK
  <2> QED BY <1>8, <2>1, <2>2
<1>10. TypeOK' /\ Shapes' /\ IdsKnown' /\ AtHand'
  <2>1. bound' \in [Vols -> Int]
    BY <1>2, <1>3, <1>6, <1>7 DEF TypeOK
  <2>2. DOMAIN rows' \subseteq Int /\ \A d \in DOMAIN rows' : rows'[d] \in Header
    BY <1>9, Known
  <2>3. TypeOK'
    BY <1>1, <1>3, <1>5, <1>6, <2>1, <2>2 DEF TypeOK
  <2>4. Shapes'
    BY <1>1, <1>3, <1>4, <1>6, <1>9 DEF Shapes
  <2>5. IdsKnown'
    BY <1>1, <1>3, <1>5, <1>9 DEF IdsKnown, Ids
  <2>6. AtHand'
    BY <1>6 DEF AtHand
  <2> QED BY <2>3, <2>4, <2>5, <2>6
<1>11. HandWaits' /\ HandKinds'
  <2>1. /\ Unsettled \subseteq DOMAIN pass'.todo
        /\ outbox' = outbox /\ raced' = raced /\ owed' = owed
    BY <1>1, <1>5, <1>6 DEF Unsettled
  <2>2. \A d \in Unsettled : pass'.todo[d] = pass.todo[d]
    BY <1>5, <2>1
  <2>3. HandWaits'
    BY <1>3, <1>6, <2>1, <2>2 DEF HandWaits
  <2>4. HandKinds'
    BY <1>1, <1>3, <1>6, <2>1, <2>2 DEF HandKinds, Told
  <2> QED BY <2>3, <2>4
<1>12. /\ c \in DOMAIN outbox => c \in raced /\ (outbox[c].kind = "delete" => Told)
       /\ cur.kind = "create" /\ got \in DOMAIN outbox /\ outbox[got].kind = "delete" =>
             got \in raced /\ Told
  <2>1. /\ \A d \in DOMAIN outbox : Kind(d) = outbox[d].kind /\ Kind(d) # "none"
    BY Known, OpIs
  <2> QED BY <1>3, <1>6, <2>1 DEF HandWaits
<1>13. WaitingRowShown'
  <2>1. ASSUME NEW d \in DOMAIN outbox \ raced
        PROVE  (outbox[d].kind = "delete") <=> (d \notin DOMAIN rows')
    <3>1. d # c /\ (cur.kind = "create" /\ d = got => outbox[d].kind # "delete")
      BY <1>12
    <3> QED BY <1>3, <1>7, <1>8, <3>1 DEF WaitingRowShown
  <2> QED BY <1>1, <2>1 DEF WaitingRowShown
<1>14. RowsFollow'
  <2> SUFFICES ASSUME "rows" \notin owed \union late
               PROVE  RowsFollow'
    BY <1>1 DEF RowsFollow
  <2>1. ASSUME NEW d \in (DOMAIN rows' \union DOMAIN srows) \ DOMAIN outbox
        PROVE  d \in DOMAIN rows' /\ d \in DOMAIN srows /\ rows'[d] = srows[d]
    <3>1. CASE d \in Settling
      <4>1. cur.kind = "delete" => c \notin DOMAIN rows
        BY <1>3, <1>6 DEF RowsFollow
      <4> QED BY <1>6, <1>7, <1>8, <3>1, <4>1
    <3>2. CASE d \notin Settling
      <4>1. d \in DOMAIN rows \union DOMAIN srows
        BY <1>6, <1>7, <1>8, <3>2
      <4>2. d \in DOMAIN rows /\ d \in DOMAIN srows /\ rows[d] = srows[d]
        BY <1>3, <3>2, <4>1 DEF RowsFollow, SameRow
      <4> QED BY <1>6, <1>7, <1>8, <3>2, <4>2
    <3> QED BY <3>1, <3>2
  <2>2. ASSUME NEW d \in DOMAIN outbox, outbox[d].kind = "delete" PROVE d \notin DOMAIN rows'
    <3>1. d # c /\ ~(cur.kind = "create" /\ d = got)
      BY <1>12, <2>2 DEF Told
    <3> QED BY <1>3, <1>7, <1>8, <2>2, <3>1 DEF RowsFollow
  <2> QED BY <1>1, <1>6, <2>1, <2>2 DEF RowsFollow, SameRow
<1>15. BindingsFollow'
  <2> SUFFICES ASSUME "vols" \notin owed \union late
               PROVE  BindingsFollow'
    BY <1>1 DEF BindingsFollow
  <2>1. ASSUME NEW v \in Vols PROVE BoundRight(v)'
    <3>1. BoundRight(v)
      BY <1>1, <1>3 DEF BindingsFollow
    <3>2. BoundOf(v)' = BoundOf(v) /\ Claims(v)' = Claims(v)
      BY <1>1, <1>2, <1>6, <1>7 DEF BoundOf, Claims
    <3> QED BY <1>1, <3>1, <3>2 DEF BoundRight
  <2>2. InOrder'
    <3>1. c \notin DOMAIN outbox \/ outbox[c].kind # "create"
      BY <1>3, <1>6, Known DEF HandWaits
    <3>2. InOrder
      BY <1>3 DEF BindingsFollow
    <3>3. \A d \in DOMAIN outbox : outbox[d].kind = "create" =>
             (d \in DOMAIN pass'.todo <=> d \in DOMAIN pass.todo)
      BY <1>5, <3>1
    <3>4. \A a, b \in DOMAIN outbox :
            /\ a # b /\ a \in DOMAIN pass'.todo
            /\ outbox[a].kind = "create" /\ outbox[b].kind = "create"
            /\ outbox[a].range \cap outbox[b].range # {}
            => IF b \in DOMAIN pass'.todo
               THEN outbox[b].ts < outbox[a].ts => pass'.todo[b].ts < pass'.todo[a].ts
               ELSE outbox[a].ts < outbox[b].ts
      BY <1>5, <3>2, <3>3 DEF InOrder
    <3> QED BY <1>1, <3>4 DEF InOrder
  <2>3. \A d \in Unsettled' : pass'.todo[d].kind = "create" =>
           Kind(d)' = "create" /\ outbox'[d].range = pass'.todo[d].range
    <3>1. \A d \in Unsettled : d \in DOMAIN pass'.todo /\ pass'.todo[d] = pass.todo[d]
      BY <1>5, <1>6 DEF Unsettled
    <3>2. \A d \in Unsettled : pass.todo[d].kind = "create" =>
             Kind(d) = "create" /\ outbox[d].range = pass.todo[d].range
      BY <1>3 DEF BindingsFollow
    <3> QED BY <1>1, <1>6, <3>1, <3>2
  <2> QED BY <2>1, <2>2, <2>3 DEF BindingsFollow
<1>16. AskedFor'
  BY <1>1, <1>3, <1>5 DEF AskedFor, Promised
<1> QED BY <1>10, <1>11, <1>13, <1>14, <1>15, <1>16 DEF CoffretInv

-----------------------------------------------------------------------------
(* The server's answer *)

\* Once a request has landed the rows it is not about are as they were, and the
\* one it is about is what the op asks for.
LEMMA LandsRight ==
    ASSUME CoffretInv, pass.st = "wire", NEW c, c = pass.cur, NEW s, s = serial + 1,
           Applied \/ AppliedToRow
    PROVE  /\ serial' \in Nat /\ serial <= serial' /\ DOMAIN srows' \subseteq 1..serial'
           /\ srows' \in [DOMAIN srows' -> Header] /\ sbound' \in [Vols -> {0} \union DOMAIN srows']
           /\ DOMAIN made' = 1..serial'
           /\ \A r \in DOMAIN made : r \in DOMAIN made' /\ made'[r] = made[r]
           /\ \A r \in DOMAIN made' : r \notin DOMAIN made => made'[r] = c /\ cur.kind = "create"
           /\ \A d : d # c /\ d # s => /\ d \in DOMAIN srows' <=> d \in DOMAIN srows
                                       /\ d \in DOMAIN srows => srows'[d] = srows[d]
           /\ cur.kind # "create" => s \notin DOMAIN srows'
           /\ cur.kind = "create" => /\ c < 0 /\ c \notin DOMAIN srows' /\ s \in DOMAIN srows' /\ serial' = s
                                     /\ srows'[s] = cur.head /\ made'[s] = c
                                     /\ \A v \in Vols : sbound'[v] = IF v \in cur.range THEN s ELSE sbound[v]
           /\ cur.kind = "update" => /\ c \in DOMAIN srows /\ c \in DOMAIN srows' /\ sbound' = sbound
                                     /\ srows'[c] = Patched(srows[c], cur.patch)
                                     /\ Patched(srows'[c], cur.patch) = srows'[c]
           /\ cur.kind = "delete" =>
                 /\ c \in DOMAIN srows /\ c \notin DOMAIN srows'
                 /\ \A v \in Vols : sbound'[v] = IF sbound[v] = c THEN 0 ELSE sbound[v]
<1>1. /\ TypeOK /\ Shapes /\ IdsKnown /\ AtHand
  BY DEF CoffretInv
<1>2. /\ c \in DOMAIN pass.todo /\ cur = pass.todo[c] /\ cur \in Op
      /\ cur.head \in Header /\ cur.patch \in Patch /\ cur.kind \in {"create", "update", "delete"}
      /\ cur.range \subseteq Vols
  <2>1. c \in DOMAIN pass.todo /\ cur = pass.todo[c] /\ cur \in Op
    BY <1>1 DEF AtHand, cur, TypeOK
  <2> QED BY <2>1, OpIs
<1>3. /\ serial \in Nat /\ s \in Nat /\ DOMAIN srows \subseteq 1..serial /\ s \notin DOMAIN srows
      /\ s \notin 1..serial /\ 1..s = 1..serial \union {s} /\ DOMAIN made = 1..serial
      /\ \A v \in Vols : sbound[v] \in {0} \union DOMAIN srows
      /\ sbound = [v \in Vols |-> sbound[v]]
      /\ srows \in [DOMAIN srows -> Header]
  BY <1>1 DEF TypeOK, IdsKnown, Shapes
<1>4. CASE cur.kind = "create"
  <2>1. /\ serial' = s /\ srows' = Put(srows, s, cur.head) /\ made' = Put(made, s, c)
        /\ sbound' = [v \in Vols |-> IF v \in cur.range THEN s ELSE sbound[v]]
    BY <1>4 DEF Applied, AppliedToRow
  <2>2. c < 0 /\ c \notin 1..s
    BY <1>1, <1>2, <1>3, <1>4 DEF IdsKnown
  <2>3. /\ DOMAIN srows' = DOMAIN srows \union {s} /\ srows'[s] = cur.head
        /\ \A d \in DOMAIN srows : srows'[d] = srows[d]
        /\ srows' \in [DOMAIN srows' -> Header]
    BY <1>2, <1>3, <2>1 DEF Put
  <2>4. /\ DOMAIN made' = DOMAIN made \union {s} /\ made'[s] = c
        /\ \A r \in DOMAIN made : made'[r] = made[r]
    BY <1>3, <2>1 DEF Put
  <2>5. sbound' \in [Vols -> {0} \union DOMAIN srows']
    BY <1>3, <2>1, <2>3
  <2>6. /\ serial' \in Nat /\ serial <= serial' /\ DOMAIN srows' \subseteq 1..serial'
        /\ DOMAIN made' = 1..serial' /\ c \notin DOMAIN srows'
    <3>1. DOMAIN srows' \subseteq 1..s /\ DOMAIN made' = 1..s
      BY <1>3, <2>3, <2>4
    <3>2. serial <= s
      BY <1>3
    <3> QED BY <1>3, <2>1, <2>2, <3>1, <3>2
  <2>7. /\ \A v \in Vols : sbound'[v] = IF v \in cur.range THEN s ELSE sbound[v]
    BY <2>1
  <2> QED BY <1>4, <2>1, <2>2, <2>3, <2>4, <2>5, <2>6, <2>7
<1>5. CASE cur.kind = "update"
  <2>1. /\ c \in DOMAIN srows /\ srows' = [srows EXCEPT ![c] = Patched(@, cur.patch)]
        /\ UNCHANGED <<sbound, serial, made>>
    BY <1>5 DEF Applied, AppliedToRow
  <2>2. srows[c] \in Header /\ Patched(srows[c], cur.patch) \in Header
    BY <1>2, <1>3, <2>1, PatchedType
  <2>3. Patched(Patched(srows[c], cur.patch), cur.patch) = Patched(srows[c], cur.patch)
    BY <1>2, <2>2, PatchedTwice
  <2>4. /\ DOMAIN srows' = DOMAIN srows /\ srows'[c] = Patched(srows[c], cur.patch)
        /\ \A d \in DOMAIN srows \ {c} : srows'[d] = srows[d]
        /\ srows' \in [DOMAIN srows' -> Header]
    BY <1>3, <2>1, <2>2
  <2>5. sbound' \in [Vols -> {0} \union DOMAIN srows']
    BY <1>3, <2>1, <2>4
  <2> QED BY <1>3, <1>5, <2>1, <2>3, <2>4, <2>5
<1>6. CASE cur.kind = "delete"
  <2>1. /\ c \in DOMAIN srows /\ srows' = Drop(srows, {c}) /\ UNCHANGED <<serial, made>>
        /\ sbound' = [v \in Vols |-> IF sbound[v] = c THEN 0 ELSE sbound[v]]
    BY <1>6 DEF Applied, AppliedToRow
  <2>2. /\ DOMAIN srows' = DOMAIN srows \ {c} /\ \A d \in DOMAIN srows' : srows'[d] = srows[d]
        /\ srows' \in [DOMAIN srows' -> Header]
    BY <1>3, <2>1 DEF Drop
  <2>3. /\ \A v \in Vols : sbound'[v] = IF sbound[v] = c THEN 0 ELSE sbound[v]
        /\ sbound' \in [Vols -> {0} \union DOMAIN srows']
    BY <1>3, <2>1, <2>2
  <2>4. serial' \in Nat /\ serial <= serial' /\ DOMAIN srows' \subseteq 1..serial' /\ s \notin DOMAIN srows'
    BY <1>3, <2>1, <2>2
  <2>5. /\ DOMAIN made' = 1..serial' /\ made' = made
        /\ \A d : d # c => /\ d \in DOMAIN srows' <=> d \in DOMAIN srows
                           /\ d \in DOMAIN srows => srows'[d] = srows[d]
    BY <1>3, <2>1, <2>2
  <2> QED BY <1>6, <2>1, <2>2, <2>3, <2>4, <2>5
<1> QED BY <1>2, <1>4, <1>5, <1>6

\* The pass once the answer is in.
LEMMA AnswerFrame ==
    ASSUME CoffretInv, NEW landed \in BOOLEAN, NEW answer \in {"ok", "failed", "refused"},
           Answer(landed, answer)
    PROVE  /\ pass.st = "wire"
           /\ UNCHANGED <<rows, bound, outbox, tries, lists, binds, edits, visits, intent, deleted, raced, recleared,
                     late>>
           /\ \A d : Kind(d)' = Kind(d)
           /\ pass' = [st |-> "reply", todo |-> pass.todo, cur |-> pass.cur, answer |-> answer,
                       got |-> serial']
           /\ pass'.st = "reply" /\ pass'.todo = pass.todo /\ pass'.cur = pass.cur /\ cur' = cur
           /\ pass'.answer = answer /\ pass'.got = serial'
           /\ ~Landed /\ ~Over /\ ~Over' /\ Unsettled' = Unsettled /\ Settling = {}
           /\ Landed' <=> answer = "ok"
           /\ answer = "ok" => landed
           /\ owed \subseteq owed' /\ owed' \subseteq {"rows", "vols"}
           /\ landed => Told' \/ (answer = "ok" /\ owed' = owed)
           /\ ~landed => owed' = owed
           /\ pass.cur \in Unsettled /\ cur = pass.todo[pass.cur]
<1>1. /\ TypeOK /\ Shapes /\ AtHand
  BY DEF CoffretInv
<1>2. /\ pass.st = "wire"
      /\ UNCHANGED <<rows, bound, outbox, tries, lists, binds, edits, visits, intent, deleted, raced, recleared,
                     late>>
      /\ \A d : Kind(d)' = Kind(d)
      /\ pass' = [pass EXCEPT !.st = "reply", !.answer = answer, !.got = serial']
      /\ answer = "ok" => landed
      /\ owed' = IF landed /\ answer # "ok" THEN {"rows", "vols"} ELSE owed
  BY DEF Answer, Device, Kind
<1>3. pass' = [st |-> "reply", todo |-> pass.todo, cur |-> pass.cur, answer |-> answer, got |-> serial']
  BY <1>1, <1>2 DEF Shapes
<1>4. /\ owed \subseteq owed' /\ owed' \subseteq {"rows", "vols"}
      /\ landed => Told' \/ (answer = "ok" /\ owed' = owed)
      /\ ~landed => owed' = owed
  <2>1. CASE landed /\ answer # "ok"
    BY <1>1, <1>2, <2>1 DEF TypeOK, Told
  <2>2. CASE ~(landed /\ answer # "ok")
    <3>1. owed' = owed
      BY <1>2, <2>2
    <3> QED BY <1>1, <2>2, <3>1 DEF TypeOK
  <2> QED BY <2>1, <2>2
<1>5. /\ pass'.st = "reply" /\ pass'.todo = pass.todo /\ pass'.cur = pass.cur /\ cur' = cur
      /\ pass'.answer = answer /\ pass'.got = serial'
      /\ ~Landed /\ ~Over /\ ~Over' /\ Unsettled' = Unsettled /\ Settling = {}
      /\ Landed' <=> answer = "ok"
  BY <1>2, <1>3 DEF Landed, Over, Unsettled, Settling, cur
<1>6. pass.cur \in Unsettled /\ cur = pass.todo[pass.cur]
  BY <1>1, <1>2 DEF AtHand, Unsettled, Over, cur
<1> QED BY <1>2, <1>3, <1>4, <1>5, <1>6

LEMMA NotLandedKeeps ==
    ASSUME CoffretInv, NEW answer \in {"ok", "failed", "refused"}, Answer(FALSE, answer)
    PROVE  CoffretInv'
<1>1. /\ UNCHANGED <<rows, bound, outbox, tries, lists, binds, edits, visits, intent, deleted,
                     raced, recleared, owed, late>>
      /\ \A d : Kind(d)' = Kind(d)
      /\ pass' = [st |-> "reply", todo |-> pass.todo, cur |-> pass.cur, answer |-> answer,
                  got |-> serial']
      /\ pass'.st = "reply" /\ pass'.todo = pass.todo /\ pass'.cur = pass.cur /\ cur' = cur
      /\ pass'.answer = answer /\ pass'.got = serial' /\ pass.st = "wire"
      /\ ~Landed /\ ~Landed' /\ ~Over /\ ~Over' /\ Unsettled' = Unsettled /\ Settling = {}
  BY AnswerFrame
<1>2. UNCHANGED <<srows, sbound, serial, made>>
  BY DEF Answer, Server
<1>3. /\ TypeOK /\ Shapes /\ IdsKnown /\ AtHand /\ HandWaits /\ HandKinds /\ WaitingRowShown /\ RowsFollow
      /\ BindingsFollow /\ AskedFor
  BY DEF CoffretInv
<1>4. Settling' = {}
  BY <1>1 DEF Settling
<1>5. TypeOK' /\ Shapes' /\ IdsKnown' /\ AtHand'
  <2>1. TypeOK'
    BY <1>1, <1>2, <1>3 DEF TypeOK
  <2>2. Shapes'
    BY <1>1, <1>2, <1>3 DEF Shapes, TypeOK
  <2>3. IdsKnown'
    BY <1>1, <1>2, <1>3 DEF IdsKnown, Ids
  <2>4. AtHand'
    BY <1>1, <1>3 DEF AtHand
  <2> QED BY <2>1, <2>2, <2>3, <2>4
<1>6. HandWaits' /\ HandKinds' /\ WaitingRowShown'
  BY <1>1, <1>3 DEF HandWaits, HandKinds, WaitingRowShown, Told
<1>7. RowsFollow'
  BY <1>1, <1>2, <1>3, <1>4 DEF RowsFollow, SameRow
<1>8. BindingsFollow'
  <2> SUFFICES ASSUME "vols" \notin owed \union late
               PROVE  BindingsFollow'
    BY <1>1 DEF BindingsFollow
  <2>1. ASSUME NEW v \in Vols PROVE BoundRight(v)'
    <3>1. BoundRight(v)
      BY <1>1, <1>3 DEF BindingsFollow
    <3>2. BoundOf(v)' = BoundOf(v) /\ Claims(v)' = Claims(v)
      BY <1>1 DEF BoundOf, Claims
    <3> QED BY <1>1, <1>2, <3>1, <3>2 DEF BoundRight
  <2>2. InOrder'
    BY <1>1, <1>3 DEF BindingsFollow, InOrder
  <2> QED BY <1>1, <1>3, <2>1, <2>2 DEF BindingsFollow
<1>9. AskedFor'
  BY <1>1, <1>2, <1>3 DEF AskedFor, Promised
<1> QED BY <1>5, <1>6, <1>7, <1>8, <1>9 DEF CoffretInv

LEMMA LandedKeeps ==
    ASSUME CoffretInv, NEW answer \in {"ok", "failed", "refused"}, Answer(TRUE, answer)
    PROVE  CoffretInv'
<1> SUFFICES ASSUME NEW c, c = pass.cur, NEW s, s = serial + 1
             PROVE  CoffretInv'
  OBVIOUS
<1>1. /\ UNCHANGED <<rows, bound, outbox, tries, lists, binds, edits, visits, intent, deleted, raced, recleared,
                     late>>
      /\ \A d : Kind(d)' = Kind(d)
      /\ pass' = [st |-> "reply", todo |-> pass.todo, cur |-> c, answer |-> answer,
                  got |-> serial']
      /\ pass'.st = "reply" /\ pass'.todo = pass.todo /\ pass'.cur = c /\ cur' = cur
      /\ pass'.answer = answer /\ pass'.got = serial' /\ pass.st = "wire"
      /\ ~Landed /\ ~Over /\ ~Over' /\ Unsettled' = Unsettled /\ Settling = {}
      /\ owed \subseteq owed' /\ owed' \subseteq {"rows", "vols"}
      /\ Told' \/ (Landed' /\ owed' = owed)
      /\ c \in Unsettled /\ cur = pass.todo[c]
  BY AnswerFrame
<1>2. Applied \/ AppliedToRow
  BY DEF Answer
<1>3. /\ serial' \in Nat /\ serial <= serial' /\ DOMAIN srows' \subseteq 1..serial'
      /\ srows' \in [DOMAIN srows' -> Header] /\ sbound' \in [Vols -> {0} \union DOMAIN srows']
      /\ DOMAIN made' = 1..serial'
      /\ \A r \in DOMAIN made : r \in DOMAIN made' /\ made'[r] = made[r]
      /\ \A r \in DOMAIN made' : r \notin DOMAIN made => made'[r] = c /\ cur.kind = "create"
      /\ \A d : d # c /\ d # s => /\ d \in DOMAIN srows' <=> d \in DOMAIN srows
                                  /\ d \in DOMAIN srows => srows'[d] = srows[d]
      /\ cur.kind # "create" => s \notin DOMAIN srows'
      /\ cur.kind = "create" => /\ c < 0 /\ c \notin DOMAIN srows' /\ s \in DOMAIN srows' /\ serial' = s
                                /\ srows'[s] = cur.head /\ made'[s] = c
                                /\ \A v \in Vols : sbound'[v] = IF v \in cur.range THEN s ELSE sbound[v]
      /\ cur.kind = "update" => /\ c \in DOMAIN srows /\ c \in DOMAIN srows' /\ sbound' = sbound
                                /\ srows'[c] = Patched(srows[c], cur.patch)
                                /\ Patched(srows'[c], cur.patch) = srows'[c]
      /\ cur.kind = "delete" =>
            /\ c \in DOMAIN srows /\ c \notin DOMAIN srows'
            /\ \A v \in Vols : sbound'[v] = IF sbound[v] = c THEN 0 ELSE sbound[v]
  BY <1>1, <1>2, LandsRight
<1>4. /\ TypeOK /\ Shapes /\ IdsKnown /\ AtHand /\ HandWaits /\ HandKinds /\ WaitingRowShown /\ RowsFollow
      /\ BindingsFollow /\ AskedFor
  BY DEF CoffretInv
<1>5. /\ s \notin Ids /\ s \notin DOMAIN srows /\ s \notin DOMAIN outbox /\ s \notin DOMAIN rows
      /\ s \notin DOMAIN intent /\ s \notin deleted /\ Ids \subseteq Ids' /\ 0 \notin Ids
      /\ Kind(s) = "none" /\ Kind(0) = "none" /\ cur.kind \in {"create", "update", "delete"}
      /\ c \in Ids /\ cur.range \subseteq Vols
  <2>1. s \notin Ids /\ s \notin DOMAIN srows /\ Ids \subseteq Ids' /\ 0 \notin Ids
    BY <1>1, <1>3, Known DEF Ids
  <2>2. cur.kind \in {"create", "update", "delete"} /\ c \in Ids /\ cur.range \subseteq Vols
    BY <1>1, <1>4, Known, OpIs DEF Unsettled, IdsKnown
  <2>3. Kind(s) = "none" /\ Kind(0) = "none"
    BY <1>4, <2>1 DEF IdsKnown, Kind
  <2> QED BY <1>4, <2>1, <2>2, <2>3 DEF IdsKnown
<1>6. Landed' => Settling' = {c} \union (IF cur.kind = "create" THEN {s} ELSE {})
  BY <1>1, <1>3 DEF Settling
<1>7. TypeOK' /\ Shapes' /\ IdsKnown' /\ AtHand'
  <2>1. TypeOK'
    BY <1>1, <1>3, <1>4 DEF TypeOK
  <2>2. Shapes'
    BY <1>1, <1>3, <1>4 DEF Shapes
  <2>3. IdsKnown'
    BY <1>1, <1>3, <1>4, <1>5 DEF IdsKnown
  <2>4. AtHand'
    <3>1. cur.kind = "create" => \A v \in cur.range : sbound'[v] = s
      BY <1>3, <1>5
    <3> QED BY <1>1, <1>3, <1>4, <3>1 DEF AtHand
  <2> QED BY <2>1, <2>2, <2>3, <2>4
<1>8. HandWaits' /\ HandKinds' /\ WaitingRowShown'
  <2>1. cur.kind = "create" => Kind(pass.got)' = "none"
    BY <1>1, <1>3, <1>5
  <2>2. HandWaits'
    BY <1>1, <1>4, <2>1 DEF HandWaits
  <2>3. HandKinds' /\ WaitingRowShown'
    BY <1>1, <1>4 DEF HandKinds, WaitingRowShown, Told
  <2> QED BY <2>2, <2>3
<1>9. RowsFollow'
  <2> SUFFICES ASSUME "rows" \notin owed \union late, Landed'
               PROVE  RowsFollow'
    BY <1>1 DEF RowsFollow, Told
  <2>1. ASSUME NEW d \in (DOMAIN rows \union DOMAIN srows') \ (DOMAIN outbox \union Settling')
        PROVE  SameRow(d)'
    <3>1. d # c /\ d # s
      BY <1>3, <1>5, <1>6
    <3>2. d \in DOMAIN rows /\ d \in DOMAIN srows /\ rows[d] = srows[d]
      BY <1>1, <1>3, <1>4, <3>1 DEF RowsFollow, SameRow
    <3> QED BY <1>1, <1>3, <3>1, <3>2 DEF SameRow
  <2>2. \A d \in DOMAIN outbox : outbox[d].kind = "delete" => d \notin DOMAIN rows
    BY <1>4 DEF RowsFollow
  <2>3. cur.kind = "delete" => c \notin DOMAIN rows
    BY <1>1, <1>4, <2>2, Known DEF HandKinds
  <2> QED BY <1>1, <2>1, <2>2, <2>3 DEF RowsFollow
<1>10. BindingsFollow'
  <2> SUFFICES ASSUME "vols" \notin owed \union late
               PROVE  BindingsFollow'
    BY <1>1 DEF BindingsFollow
  <2>1. ASSUME NEW v \in Vols PROVE BoundRight(v)'
    <3>1. BoundRight(v)
      BY <1>1, <1>4 DEF BindingsFollow
    <3>2. BoundOf(v)' = BoundOf(v) /\ Claims(v)' = Claims(v)
      BY <1>1 DEF BoundOf, Claims
    <3>3. CASE Claims(v) # {}
      BY <1>1, <3>1, <3>2, <3>3 DEF BoundRight
    <3>4. CASE Claims(v) = {}
      <4>1. BoundOf(v) = IF Kind(sbound[v]) = "delete" THEN 0 ELSE sbound[v]
        BY <3>1, <3>4 DEF BoundRight
      <4>2. cur.kind = "create" => sbound'[v] = sbound[v]
        <5>1. cur.kind = "create" => /\ Kind(c) = "create" /\ outbox[c].range = cur.range
          BY <1>1, <1>4 DEF BindingsFollow
        <5>2. cur.kind = "create" /\ v \in cur.range => c \in Claims(v)
          BY <5>1, Known DEF Claims
        <5> QED BY <1>3, <3>4, <5>2
      <4>3. cur.kind = "delete" => Kind(c) = "delete"
        BY <1>1, <1>4 DEF HandKinds
      <4>4. BoundOf(v) = IF Kind(sbound'[v]) = "delete" THEN 0 ELSE sbound'[v]
        BY <1>3, <1>5, <4>1, <4>2, <4>3
      <4>5. Kind(sbound[v])' = Kind(sbound'[v])
        BY <1>1
      <4> QED BY <3>2, <3>4, <4>4, <4>5 DEF BoundRight
    <3> QED BY <3>3, <3>4
  <2>2. InOrder'
    BY <1>1, <1>4 DEF BindingsFollow, InOrder
  <2> QED BY <1>1, <1>4, <2>1, <2>2 DEF BindingsFollow
<1>11. AskedFor'
  <2>1. ASSUME NEW d \in Promised
        PROVE  /\ Kind(d) = "update" /\ d \in DOMAIN srows' =>
                     Patched(srows'[d], outbox[d].patch) = intent[d]
               /\ Kind(d) = "none" => d \in DOMAIN srows' /\ srows'[d] = intent[d]
    <3>1. d # s /\ d \in DOMAIN intent /\ d \notin raced
      BY <1>5 DEF Promised
    <3>2. /\ Kind(d) = "update" /\ d \in DOMAIN srows => Patched(srows[d], outbox[d].patch) = intent[d]
          /\ Kind(d) = "none" => d \in DOMAIN srows /\ srows[d] = intent[d]
      BY <1>4 DEF AskedFor
    <3>3. CASE d # c
      BY <1>3, <3>1, <3>2, <3>3
    <3>4. CASE d = c
      <4>1. c \in DOMAIN outbox /\ outbox[c] = cur /\ Kind(c) = cur.kind
        BY <1>1, <1>4, <3>1, <3>4, Known DEF HandWaits
      <4>2. cur.kind # "delete"
        BY <1>4, <3>1, <3>4, <4>1 DEF AskedFor
      <4> QED BY <1>3, <1>5, <3>2, <3>4, <4>1, <4>2
    <3> QED BY <3>3, <3>4
  <2>2. \A r \in DOMAIN made' : made'[r] \in deleted => made'[r] \in raced
    <3>1. cur.kind = "create" /\ c \in deleted => c \in raced
      BY <1>1, <1>4 DEF AskedFor, Unsettled
    <3> QED BY <1>3, <1>4, <3>1 DEF AskedFor
  <2>3. \A d \in DOMAIN srows' \cap (deleted \ raced) : Kind(d) = "delete"
    <3>1. \A d \in DOMAIN srows' \cap deleted : d \in DOMAIN srows
      BY <1>3, <1>5
    <3> QED BY <1>4, <3>1 DEF AskedFor
  <2>4. Promised' = Promised
    BY <1>1 DEF Promised
  <2> QED BY <1>1, <1>4, <2>1, <2>2, <2>3, <2>4 DEF AskedFor
<1> QED BY <1>7, <1>8, <1>9, <1>10, <1>11 DEF CoffretInv

-----------------------------------------------------------------------------
(* Every step *)

LEMMA StutterKeeps ==
    ASSUME CoffretInv, UNCHANGED vars
    PROVE  CoffretInv'
<1>1. /\ UNCHANGED <<rows, bound, outbox, srows, sbound, serial, tries, pass, lists, binds, edits, visits>>
      /\ UNCHANGED history /\ UNCHANGED <<owed, late>>
  BY DEF vars, history
<1>2. TypeOK'
  BY <1>1 DEF CoffretInv, TypeOK
<1> QED BY <1>1, <1>2, AnswersKeep

LEMMA PageKeeps ==
    ASSUME CoffretInv, PageStep
    PROVE  CoffretInv'
<1>1. Visit => visits' \in 0..MaxVisits
  BY BoundsAssumption DEF Visit, CoffretInv, TypeOK
<1>2. ASSUME ReadRows PROVE CoffretInv'
  BY <1>1, <1>2, ListCameKeeps DEF ReadRows, Readers
<1>3. ASSUME ReadVols PROVE CoffretInv'
  BY <1>1, <1>3, VolsCameKeeps DEF ReadVols, Readers
<1> QED BY <1>2, <1>3, RowsReadKeeps, VolsReadKeeps DEF PageStep

LEMMA StepCoffret ==
    ASSUME CoffretInv, [Next]_vars
    PROVE  CoffretInv'
<1>1. ASSUME UserEdits PROVE CoffretInv'
  <2>1. ASSUME NEW R \in SUBSET Vols, Create(R) PROVE CoffretInv'
    BY <2>1, CreateKeeps
  <2>2. ASSUME NEW c \in DOMAIN rows, Delete(c) PROVE CoffretInv'
    BY <2>2, DeleteKeeps
  <2>3. ASSUME NEW c \in DOMAIN rows, NEW p \in Patches, Update(c, p) PROVE CoffretInv'
    BY <2>3, UpdateKeeps
  <2> QED BY <1>1, <2>1, <2>2, <2>3 DEF UserEdits
<1>2. ASSUME Answers PROVE CoffretInv'
  <2>1. PICK landed \in BOOLEAN, answer \in {"ok", "failed", "refused"} : Answer(landed, answer)
    BY <1>2 DEF Answers
  <2> QED BY <2>1, LandedKeeps, NotLandedKeeps
<1>3. ASSUME PassStep PROVE CoffretInv'
  <2>1. ASSUME NEW c \in DOMAIN pass.todo, TakeUp(c) PROVE CoffretInv'
    BY <2>1, TakeUpKeeps
  <2>2. visits \in 0..MaxVisits
    BY DEF CoffretInv, TypeOK
  <2>3. ASSUME RereadRows PROVE CoffretInv'
    BY <2>2, <2>3, ListCameKeeps DEF RereadRows, Readers
  <2>4. ASSUME RereadVols PROVE CoffretInv'
    BY <2>2, <2>4, VolsCameKeeps DEF RereadVols, Readers
  <2> QED BY <1>2, <1>3, <2>1, <2>3, <2>4, RowsRereadKeeps, VolsRereadKeeps, SucceedKeeps, MirrorKeeps,
             GiveUpKeeps, StopKeeps, EndPassKeeps
          DEF PassStep
<1> QED BY <1>1, <1>3, StartPassKeeps, PageKeeps, ReloadKeeps, StutterKeeps DEF Next

LEMMA CoffretAlways == Spec => []CoffretInv
BY InitCoffret, StepCoffret, PTL DEF Spec

\* The shape of every variable, kept by every step.
THEOREM TypeCorrect == Spec => []TypeOK
<1>1. CoffretInv => TypeOK
  BY DEF CoffretInv
<1> QED BY <1>1, CoffretAlways, PTL

\* A coffret waiting to be sent is on the screen and one waiting to be deleted
\* is not, whatever list cacheCoffretsForManga writes while they wait, but for
\* an edit that an answer crosses.
THEOREM WaitingCoffretsShow == Spec => []WaitingRowShown
<1>1. CoffretInv => WaitingRowShown
  BY DEF CoffretInv
<1> QED BY <1>1, CoffretAlways, PTL

\* Once its op has left the queue a coffret is on the server as the user last
\* left it, and one the user deleted is not there: merged edits, requests that
\* land and whose answer is lost, retries and reloads lose nothing
\* (flushCoffrets, enqueueCoffretUpdate), but for an edit that crosses its own
\* request and for a price given after a clear_price.
THEOREM NothingLost == Spec => []NoSilentLoss
<1>1. ASSUME CoffretInv PROVE NoSilentLoss
  <2>1. \A c : Done(c) => Kind(c) = "none"
    BY DEF Done
  <2>2. Sent(DOMAIN intent \ (raced \union recleared))
    BY <1>1, <2>1 DEF CoffretInv, AskedFor, Sent, Promised
  <2>3. ASSUME NEW c \in DOMAIN srows, NEW d \in {c, made[c]}, d \in deleted \ raced
        PROVE  ~Done(d)
    <3>1. c \in DOMAIN made
      BY <1>1, Known
    <3>2. d = c
      BY <1>1, <2>3, <3>1 DEF CoffretInv, AskedFor
    <3>3. Kind(c) = "delete"
      BY <1>1, <2>3, <3>2 DEF CoffretInv, AskedFor
    <3> QED BY <2>1, <3>2, <3>3
  <2> QED BY <2>2, <2>3 DEF NoSilentLoss, DeletedIsGone
<1> QED BY <1>1, CoffretAlways, PTL

\* With nothing waiting and no pass, the device has the server's coffrets and
\* its volumes are bound to them, never to a temporary id (flushCoffrets re-keys
\* both, cacheCoffretsForManga keeps both), whatever reads are under way
\* meanwhile, unless a read is owed or the last answer that was written had been
\* given before a request landed.
THEOREM QuietSeriesMirrored == Spec => []QuietMeansMirrored
<1>1. ASSUME CoffretInv PROVE QuietMeansMirrored
  <2> SUFFICES ASSUME pass.st = "off", DOMAIN outbox = {}
               PROVE  /\ "rows" \notin owed \union late => rows = srows
                      /\ "vols" \notin owed \union late => bound = sbound
    BY DEF QuietMeansMirrored
  <2>1. TypeOK /\ Shapes /\ RowsFollow /\ BindingsFollow
    BY <1>1 DEF CoffretInv
  <2>2. ASSUME "rows" \notin owed \union late PROVE rows = srows
    <3>1. Settling = {}
      BY <2>1 DEF Settling, Landed
    <3>2. \A c \in DOMAIN rows \union DOMAIN srows : SameRow(c)
      BY <2>1, <2>2, <3>1 DEF RowsFollow
    <3> QED BY <2>1, <3>2 DEF SameRow, Shapes
  <2>3. ASSUME "vols" \notin owed \union late PROVE bound = sbound
    <3>1. ASSUME NEW v \in Vols PROVE bound[v] = sbound[v]
      <4>1. BoundRight(v) /\ Claims(v) = {} /\ Kind(sbound[v]) = "none"
        BY <2>1, <2>3 DEF BindingsFollow, Claims, Kind
      <4> QED BY <4>1 DEF BoundRight, BoundOf
    <3> QED BY <2>1, <3>1 DEF TypeOK
  <2> QED BY <2>2, <2>3
<1> QED BY <1>1, CoffretAlways, PTL
=============================================================================
