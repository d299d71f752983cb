------------------------- MODULE VolumeDeltaProofs -------------------------
(***************************************************************************)
(* Proofs about VolumeDelta, for every shelf, any number of writers and    *)
(* every bound.                                                            *)
(*                                                                         *)
(* The server's half is ServerInv: at most one transaction is open and all *)
(* it stamped lies above the committed counter, so what becomes visible    *)
(* does too.  The device's half needs, beside what CursorComplete says of  *)
(* the cursor in use, what a snapshot in hand still says of the rows it    *)
(* covers (SnapshotHolds): writes after it only stamp above it.            *)
(***************************************************************************)
EXTENDS VolumeDelta, TLAPS

-----------------------------------------------------------------------------
(* Types *)

LEMMA NoReadIsRun == NoRead \in Run
BY DEF NoRead, Run, Unknown, Gone

LEMMA InitTypes == Init => TypeOK
BY NoReadIsRun, DeltaBoundsAssumption
   DEF Init, TypeOK, Blank, NoPage, Unborn, Gone, Unknown, Spent

LEMMA DeedTypes == TypeOK /\ Deed => spent' \in Spent
BY DeltaBoundsAssumption DEF TypeOK, Deed, Spent

LEMMA NextTypes == TypeOK /\ [Next]_vars => TypeOK'
<1> SUFFICES ASSUME TypeOK, [Next]_vars PROVE TypeOK'
  OBVIOUS
<1> USE DEF TypeOK
<1>1. ASSUME NEW w \in Writers, NEW v \in Volumes, Stamp(w, v)
      PROVE  TypeOK'
  <2> DEFINE n == IF Open(w) THEN txn[w].top + 1 ELSE rev + 1
  <2>1. n \in Nat
    BY DEF Open
  <2>2. txn' = [txn EXCEPT ![w].top = n, ![w].stamps[v] = n]
    BY <1>1 DEF Stamp
  <2>5. txn \in [Writers -> [top : Nat, stamps : [Volumes -> Nat]]]
    OBVIOUS
  <2> HIDE DEF n, TypeOK
  <2>6. [txn[w] EXCEPT !.top = n, !.stamps[v] = n] \in [top : Nat, stamps : [Volumes -> Nat]]
    <3>1. /\ txn[w] \in [top : Nat, stamps : [Volumes -> Nat]]
          /\ [txn[w].stamps EXCEPT ![v] = n] \in [Volumes -> Nat]
      BY <2>1, <2>5
    <3> QED BY <2>1, <3>1
  <2>3. txn' \in [Writers -> [top : Nat, stamps : [Volumes -> Nat]]]
    BY <2>2, <2>5, <2>6
  <2> USE DEF TypeOK
  <2>4. spent' \in Spent
    BY <1>1, DeltaBoundsAssumption DEF Stamp, Spent
  <2> QED
    BY <1>1, <2>3, <2>4 DEF Stamp
<1>2. ASSUME NEW w \in Writers, Commit(w)
      PROVE  TypeOK'
  BY <1>2 DEF Commit, Blank
<1>3. ASSUME NEW w \in Writers, Abort(w)
      PROVE  TypeOK'
  BY <1>3 DEF Abort, Blank
<1>4. ASSUME NEW v \in Volumes, Delete(v)
      PROVE  TypeOK'
  BY <1>4, DeedTypes DEF Delete
<1>5. ASSUME NEW v \in Volumes, Edit(v)
      PROVE  TypeOK'
  BY <1>5, DeedTypes DEF Edit, server
<1>6. ASSUME NEW v \in Volumes, Flush(v)
      PROVE  TypeOK'
  <2>1. CASE EditLands(v)
    BY <2>1 DEF EditLands
  <2>2. CASE EditAcked(v) \/ EditRefused(v)
    BY <2>2 DEF EditAcked, EditRefused, server
  <2> QED
    BY <1>6, <2>1, <2>2 DEF Flush
<1>7. ASSUME NEW v \in Volumes, PageTold(v) \/ PageCaches(v)
      PROVE  TypeOK'
  <2>1. CASE PageTold(v)
    <3>1. (IF Alive(v) THEN text[v] ELSE Gone) \in Nat \union {Gone}
      BY DEF Alive, Gone, Unborn
    <3> QED
      BY <1>7, <2>1, <3>1, DeedTypes DEF PageTold, server
  <2>2. CASE PageCaches(v)
    BY <1>7, <2>2 DEF PageCaches, NoPage, server
  <2> QED
    BY <1>7, <2>1, <2>2
<1>8. ASSUME NEW r \in Reads, Refresh(r)
      PROVE  TypeOK'
  <2>0. read[r] \in Run
    OBVIOUS
  <2>1. CASE Ask(r)
    <3>1. (IF Held = {} THEN Unknown ELSE cursor) \in Nat \union {Unknown}
      OBVIOUS
    <3>2. [NoRead EXCEPT !.st = "asked",
                         !.since = IF Held = {} THEN Unknown ELSE cursor] \in Run
      BY <3>1, NoReadIsRun DEF Run
    <3> QED
      BY <2>1, <3>2 DEF Ask, server
  <2>2. CASE Answer(r)
    <3>1. [st |-> "answered", since |-> read[r].since, rev |-> rev, text |-> text,
           changed |-> {v \in Volumes : Alive(v) /\ stamp[v] > read[r].since}] \in Run
      BY <2>0 DEF Run
    <3> QED
      BY <2>2, <3>1 DEF Answer, server
  <2>3. CASE HearFull(r)
    <3>1. [read[r] EXCEPT !.st = "heard"] \in Run /\ read[r].rev \in Nat
      BY <2>0 DEF Run
    <3> QED
      BY <2>3, <3>1 DEF HearFull, server
  <2>4. CASE WriteFull(r)
    <3>1. \A v \in Volumes : Snapshot(r, v) \in Nat \union {Gone}
      BY <2>0 DEF Snapshot, Run, Gone, Unborn
    <3> QED
      BY <2>4, <3>1, NoReadIsRun DEF WriteFull, server
  <2>5. CASE ApplyDelta(r)
    <3>1. \A v \in Volumes : DeltaRow(r, v) \in Nat \union {Gone}
      BY <2>0 DEF DeltaRow, Run, Gone, Unborn
    <3>2. [read[r] EXCEPT !.st = "applied"] \in Run
      BY <2>0 DEF Run
    <3> QED
      BY <2>5, <3>1, <3>2 DEF ApplyDelta, server
  <2>6. CASE RememberDelta(r)
    <3>1. read[r].rev \in Nat
      BY <2>0 DEF Run
    <3> QED
      BY <2>6, <3>1, NoReadIsRun DEF RememberDelta, server
  <2> QED
    BY <1>8, <2>1, <2>2, <2>3, <2>4, <2>5, <2>6 DEF Refresh
<1>9. ASSUME Reload
      PROVE  TypeOK'
  <2>1. spent' \in Spent
    BY <1>9, DeedTypes DEF Reload
  <2>2. op' \in [Volumes -> {"none", "waiting", "landed"}]
    BY <1>9 DEF Reload
  <2> QED
    BY <1>9, <2>1, <2>2, NoReadIsRun DEF Reload, NoPage, server
<1>10. CASE UNCHANGED vars
  BY <1>10 DEF vars, server
<1> QED
  BY <1>1, <1>2, <1>3, <1>4, <1>5, <1>6, <1>7, <1>8, <1>9, <1>10 DEF Next, Write

\* Types hold: cursors, stamps and revisions are numbers, and Dexie never
\* holds a row under an id that has none.
THEOREM TypeCorrect == Spec => []TypeOK
<1>1. Init => TypeOK
  BY InitTypes
<1>2. TypeOK /\ [Next]_vars => TypeOK'
  BY NextTypes
<1> QED
  BY <1>1, <1>2, PTL DEF Spec

-----------------------------------------------------------------------------
(* The server *)

\* One open transaction at most, and all it stamped is above the committed
\* counter, which is above all that is committed.
ServerInv ==
    /\ \A w \in Writers, v \in Volumes :
           txn[w].stamps[v] > 0 => rev < txn[w].stamps[v] /\ txn[w].stamps[v] <= txn[w].top
    /\ \A w \in Writers : Open(w) => rev < txn[w].top
    /\ \A w, x \in Writers : Open(w) /\ Open(x) => w = x
    /\ \A v \in Volumes : stamp[v] <= rev

LEMMA InitServer == Init => ServerInv
BY DEF Init, ServerInv, Blank, Open

LEMMA NextServer == TypeOK /\ ServerInv /\ [Next]_vars => ServerInv'
<1> SUFFICES ASSUME TypeOK, ServerInv, [Next]_vars PROVE ServerInv'
  OBVIOUS
<1>0. /\ rev \in Nat
      /\ stamp \in [Volumes -> Nat]
      /\ txn \in [Writers -> [top : Nat, stamps : [Volumes -> Nat]]]
  BY DEF TypeOK
<1>1. ASSUME NEW w \in Writers, NEW v \in Volumes, Stamp(w, v)
      PROVE  ServerInv'
  <2> DEFINE n == IF Open(w) THEN txn[w].top + 1 ELSE rev + 1
  <2>1. n \in Nat /\ n > rev /\ n > 0 /\ n >= txn[w].top
    BY <1>0 DEF Open, ServerInv
  <2>2. /\ txn' = [txn EXCEPT ![w].top = n, ![w].stamps[v] = n]
        /\ CounterIsFree(w)
        /\ UNCHANGED <<rev, stamp>>
    BY <1>1 DEF Stamp
  <2> HIDE DEF n
  <2>3. /\ \A x \in Writers : x # w => txn'[x] = txn[x] /\ ~Open(x)
        /\ txn'[w].top = n
        /\ \A u \in Volumes : txn'[w].stamps[u] = IF u = v THEN n ELSE txn[w].stamps[u]
    BY <1>0, <2>2 DEF CounterIsFree
  <2> QED
    BY <1>0, <2>1, <2>2, <2>3 DEF ServerInv, Open
<1>2. ASSUME NEW w \in Writers, Commit(w)
      PROVE  ServerInv'
  <2>1. /\ rev' = txn[w].top
        /\ txn' = [txn EXCEPT ![w] = Blank]
        /\ \A v \in Volumes : stamp'[v] = IF txn[w].stamps[v] > 0
                                          THEN txn[w].stamps[v] ELSE stamp[v]
        /\ Open(w)
    BY <1>2 DEF Commit
  <2>2. \A x \in Writers : txn'[x].top = 0 /\ \A v \in Volumes : txn'[x].stamps[v] = 0
    BY <1>0, <2>1 DEF ServerInv, Open, Blank
  <2>3. \A v \in Volumes : stamp'[v] <= rev'
    BY <1>0, <2>1 DEF ServerInv
  <2> QED
    BY <2>2, <2>3 DEF ServerInv, Open
<1>3. ASSUME NEW w \in Writers, Abort(w)
      PROVE  ServerInv'
  BY <1>0, <1>3 DEF Abort, ServerInv, Open, Blank
<1>4. ASSUME NEW v \in Volumes, EditLands(v)
      PROVE  ServerInv'
  <2>0. CASE Alive(v)
    <3>1. \A x \in Writers : txn'[x] = txn[x] /\ txn[x].top = 0
      BY <1>0, <1>4, <2>0 DEF EditLands, Open
    <3>2. \A x \in Writers, u \in Volumes : txn[x].stamps[u] = 0
      BY <1>0, <3>1 DEF ServerInv
    <3>3. \A u \in Volumes : stamp'[u] <= rev'
      BY <1>0, <1>4, <2>0 DEF EditLands, ServerInv
    <3> QED
      BY <3>1, <3>2, <3>3 DEF ServerInv, Open
  <2>1. CASE ~Alive(v)
    BY <1>4, <2>1 DEF EditLands, ServerInv, Open
  <2> QED
    BY <2>0, <2>1
<1>5. ASSUME UNCHANGED <<rev, stamp, txn>>
      PROVE  ServerInv'
  BY <1>5 DEF ServerInv, Open
<1> QED
  BY <1>1, <1>2, <1>3, <1>4, <1>5
     DEF Next, Write, Flush, Delete, Edit, EditAcked, EditRefused, PageTold,
         PageCaches, Refresh, Ask, Answer, HearFull, WriteFull, ApplyDelta, RememberDelta,
         Reload, vars, server

\* However many transactions of other devices and edits of this one there are,
\* no row ever becomes visible with a stamp that some reader's snapshot may
\* already have counted.
THEOREM StampsCommitInOrder == Spec => NothingCommitsBehind
<1>1. Init => TypeOK /\ ServerInv
  BY InitTypes, InitServer
<1>2. TypeOK /\ ServerInv /\ [Next]_vars => (TypeOK /\ ServerInv)'
  BY NextTypes, NextServer
<1>3. TypeOK /\ ServerInv /\ [Next]_vars
         => [\A v \in Volumes : stamp'[v] # stamp[v] => stamp'[v] > rev]_vars
  <2> SUFFICES ASSUME TypeOK, ServerInv, Next, NEW v \in Volumes, stamp'[v] # stamp[v]
               PROVE  stamp'[v] > rev
    BY DEF vars, server
  <2>1. CASE \E w \in Writers : Commit(w)
    <3>1. PICK w \in Writers : Commit(w)
      BY <2>1
    <3>2. stamp'[v] = txn[w].stamps[v] /\ txn[w].stamps[v] > 0
      BY <3>1 DEF Commit
    <3> QED
      BY <3>1, <3>2 DEF ServerInv
  <2>2. CASE \E u \in Volumes : EditLands(u)
    BY <2>2 DEF EditLands, TypeOK
  <2>3. CASE UNCHANGED stamp
    BY <2>3
  <2> QED
    BY <2>1, <2>2, <2>3
       DEF Next, Write, Flush, Stamp, Abort, Delete, Edit, EditAcked, EditRefused,
           PageTold, PageCaches, Refresh, Ask, Answer, HearFull, WriteFull,
           ApplyDelta, RememberDelta, Reload, server
<1> QED
  BY <1>1, <1>2, <1>3, PTL DEF Spec, NothingCommitsBehind

-----------------------------------------------------------------------------
(* The device *)

\* Every row stamped up to c is current, or was passed over for its op.
Complete(c) ==
    \A v \in Volumes :
        Alive(v) /\ stamp[v] <= c => cached[v] = text[v] \/ v \in skipped

\* What r's snapshot says is still true of every row it covers.
SnapshotHolds(r) ==
    \A v \in Volumes : Alive(v) /\ stamp[v] <= read[r].rev =>
        /\ read[r].text[v] = text[v]
        /\ v \in read[r].changed <=> stamp[v] > read[r].since

\* A refresh that is under way: a full one found the table empty, and it stays
\* so until it is written; a delta starts from a cursor that is complete.
RunInv(r) ==
    /\ Full(r) => Held = {}
    /\ ~Full(r) => read[r].since = cursor /\ Complete(cursor)
    /\ read[r].st \in {"answered", "heard", "applied"}
           => /\ read[r].since <= read[r].rev
              /\ read[r].rev <= rev
              /\ SnapshotHolds(r)
    /\ read[r].st = "heard" => Full(r) /\ cursor = read[r].rev
    /\ read[r].st = "applied" => ~Full(r) /\ Complete(read[r].rev)

\* So is what a page's answer says.
PageHolds(v) ==
    page[v] # NoPage =>
        /\ page[v].rev \in Nat /\ page[v].rev <= rev
        /\ Alive(v) /\ stamp[v] <= page[v].rev => page[v].row = text[v]

DeviceInv ==
    /\ \A v \in Volumes : PageHolds(v)
    /\ cursor <= rev
    /\ cursor = Unknown => Held = {}
    /\ \A r \in Reads : read[r].st # "idle" => RunInv(r)
    /\ (\A r \in Reads : read[r].st = "idle") => Held = {} \/ Complete(cursor)

\* The steps that leave the device's copy and its refreshes alone.
WorldStep ==
    \/ \E w \in Writers : Write(w) \/ \E v \in Volumes : Stamp(w, v)
    \/ \E v \in Volumes : Delete(v) \/ Edit(v) \/ Flush(v) \/ PageTold(v)

\* What such a step does to one row: it stays, goes, or gets a stamp above the
\* counter.
LEMMA WorldOnRow ==
    ASSUME TypeOK, ServerInv, WorldStep, NEW v \in Volumes
    PROVE  \/ text'[v] = text[v] /\ stamp'[v] = stamp[v]
           \/ ~Alive(v)'
           \/ stamp'[v] > rev
<1>1. ASSUME NEW w \in Writers, Commit(w)
      PROVE  (text'[v] = text[v] /\ stamp'[v] = stamp[v]) \/ stamp'[v] > rev
  BY <1>1 DEF Commit, ServerInv
<1>2. ASSUME NEW u \in Volumes, Delete(u)
      PROVE  (text'[v] = text[v] /\ stamp'[v] = stamp[v]) \/ ~Alive(v)'
  BY <1>2 DEF Delete, Alive, Gone, TypeOK
<1>3. ASSUME NEW u \in Volumes, EditLands(u)
      PROVE  text'[v] = text[v] /\ (stamp'[v] = stamp[v] \/ stamp'[v] > rev)
  BY <1>3 DEF EditLands, TypeOK
<1>4. ASSUME UNCHANGED <<text, stamp>>
      PROVE  text'[v] = text[v] /\ stamp'[v] = stamp[v]
  BY <1>4
<1> QED
  BY <1>1, <1>2, <1>3, <1>4
     DEF WorldStep, Write, Flush, Stamp, Abort, Edit, EditAcked, EditRefused,
         PageTold, server

LEMMA WorldOnDevice ==
    ASSUME WorldStep
    PROVE  UNCHANGED <<cached, cursor, read, skipped>>
BY DEF WorldStep, Write, Flush, Commit, Abort, Stamp, Delete, Edit, EditLands,
       EditAcked, EditRefused, PageTold, server

LEMMA WorldOnPage ==
    ASSUME TypeOK, WorldStep, NEW v \in Volumes
    PROVE  \/ page'[v] = page[v]
           \/ PageTold(v) /\ page'[v].rev = rev
              /\ page'[v].row = IF Alive(v) THEN text[v] ELSE Gone
<1>1. ASSUME NEW u \in Volumes, PageTold(u)
      PROVE  \/ page'[v] = page[v]
             \/ PageTold(v) /\ page'[v].rev = rev
                /\ page'[v].row = IF Alive(v) THEN text[v] ELSE Gone
  <2>1. CASE u = v
    <3>1. page'[v] = [rev |-> rev, row |-> IF Alive(v) THEN text[v] ELSE Gone]
      BY <1>1, <2>1 DEF PageTold, TypeOK
    <3> QED
      BY <1>1, <2>1, <3>1
  <2>2. CASE u # v
    BY <1>1, <2>2 DEF PageTold, TypeOK
  <2> QED
    BY <2>1, <2>2
<1>2. CASE UNCHANGED page
  BY <1>2
<1> QED
  BY <1>1, <1>2
     DEF WorldStep, Write, Flush, Commit, Abort, Stamp, Delete, Edit, EditLands,
         EditAcked, EditRefused

LEMMA WorldOnRev ==
    ASSUME TypeOK, ServerInv, WorldStep
    PROVE  rev' >= rev
<1>0. rev \in Nat /\ \A w \in Writers : txn[w].top \in Nat
  BY DEF TypeOK
<1>1. ASSUME NEW w \in Writers, Commit(w)
      PROVE  rev' >= rev
  BY <1>0, <1>1 DEF Commit, ServerInv
<1>2. ASSUME NEW v \in Volumes, EditLands(v)
      PROVE  rev' >= rev
  BY <1>0, <1>2 DEF EditLands
<1>3. ASSUME UNCHANGED rev
      PROVE  rev' >= rev
  BY <1>0, <1>3
<1> QED
  BY <1>1, <1>2, <1>3
     DEF WorldStep, Write, Flush, Abort, Stamp, Delete, Edit, EditAcked,
         EditRefused, PageTold, server

LEMMA WorldKeepsDevice ==
    ASSUME TypeOK, TypeOK', ServerInv, DeviceInv, WorldStep
    PROVE  DeviceInv'
<1>0. /\ rev \in Nat /\ rev' \in Nat
      /\ cursor \in Nat \union {Unknown}
      /\ stamp \in [Volumes -> Nat] /\ stamp' \in [Volumes -> Nat]
      /\ \A r \in Reads : read[r].rev \in Nat
  BY DEF TypeOK, Run
<1>1. UNCHANGED <<cached, cursor, read, skipped>> /\ rev' >= rev
  BY WorldOnDevice, WorldOnRev
<1>2. ASSUME NEW c \in Nat \union {Unknown}, c <= rev, Complete(c)
      PROVE  Complete(c)'
  <2> SUFFICES ASSUME NEW v \in Volumes, Alive(v)', stamp'[v] <= c
               PROVE  cached'[v] = text'[v] \/ v \in skipped'
    BY DEF Complete
  <2>1. text'[v] = text[v] /\ stamp'[v] = stamp[v]
    BY <1>0, <1>2, WorldOnRow DEF Unknown
  <2> QED
    BY <1>1, <1>2, <2>1 DEF Complete, Alive
<1>3. ASSUME NEW r \in Reads, read[r].rev <= rev, SnapshotHolds(r)
      PROVE  SnapshotHolds(r)'
  <2> SUFFICES ASSUME NEW v \in Volumes, Alive(v)', stamp'[v] <= read[r].rev
               PROVE  /\ read[r].text[v] = text'[v]
                      /\ v \in read[r].changed <=> stamp'[v] > read[r].since
    BY <1>1 DEF SnapshotHolds
  <2>1. text'[v] = text[v] /\ stamp'[v] = stamp[v]
    BY <1>0, <1>3, WorldOnRow
  <2> QED
    BY <1>3, <2>1 DEF SnapshotHolds, Alive
<1>4. ASSUME NEW r \in Reads, read'[r].st # "idle"
      PROVE  RunInv(r)'
  <2>1. RunInv(r)
    BY <1>1, <1>4 DEF DeviceInv
  <2>2. cursor <= rev
    BY DEF DeviceInv
  <2>3. Held' = Held
    BY <1>1 DEF Held
  <2> QED
    BY <1>0, <1>1, <1>2, <1>3, <2>1, <2>2, <2>3 DEF RunInv, Full
<1>5. (\A r \in Reads : read'[r].st = "idle") => Held' = {} \/ Complete(cursor)'
  BY <1>0, <1>1, <1>2 DEF DeviceInv, Held
<1>6. ASSUME NEW v \in Volumes
      PROVE  PageHolds(v)'
  <2>1. CASE page'[v] = page[v]
    <3> SUFFICES ASSUME page[v] # NoPage
                 PROVE  /\ page[v].rev \in Nat /\ page[v].rev <= rev'
                        /\ Alive(v)' /\ stamp'[v] <= page[v].rev
                               => page[v].row = text'[v]
      BY <2>1 DEF PageHolds, NoPage
    <3>1. /\ page[v].rev \in Nat /\ page[v].rev <= rev
          /\ Alive(v) /\ stamp[v] <= page[v].rev => page[v].row = text[v]
      BY DEF DeviceInv, PageHolds
    <3> QED
      BY <1>0, <1>1, <3>1, WorldOnRow DEF Alive
  <2>2. CASE PageTold(v) /\ page'[v].rev = rev
             /\ page'[v].row = IF Alive(v) THEN text[v] ELSE Gone
    BY <1>0, <2>2 DEF PageHolds, PageTold, server, Alive
  <2> QED
    BY <2>1, <2>2, WorldOnPage
<1> QED
  BY <1>0, <1>1, <1>4, <1>5, <1>6 DEF DeviceInv, Held, Unknown

\* A page's answer that is not outdated is as current, where the cursor or a
\* delta about to move it says so, as the rows it replaces.
LEMMA PageKeepsDevice ==
    ASSUME TypeOK, TypeOK', DeviceInv, ~EarlyPages, ~LatePages,
           NEW v \in Volumes, PageCaches(v)
    PROVE  DeviceInv'
<1>0. /\ rev \in Nat
      /\ cursor \in Nat \union {Unknown}
      /\ stamp \in [Volumes -> Nat]
      /\ cached \in [Volumes -> Nat \union {Gone}]
      /\ skipped \subseteq Volumes
      /\ \A r \in Reads : read[r].rev \in Nat
  BY DEF TypeOK, Run
<1>1. /\ page[v] # NoPage
      /\ Held # {}
      /\ ~Outdated(v)
      /\ \A u \in Volumes : u # v =>
             /\ cached'[u] = cached[u]
             /\ u \in skipped' <=> u \in skipped
             /\ page'[u] = page[u]
      /\ page'[v] = NoPage
      /\ \/ cached'[v] = cached[v] /\ (v \in skipped' <=> v \in skipped)
         \/ cached'[v] = page[v].row
      /\ UNCHANGED <<rev, text, stamp, cursor, read>>
  BY DEF PageCaches, server, TypeOK
<1>2. /\ page[v].rev \in Nat
      /\ Alive(v) /\ stamp[v] <= page[v].rev => page[v].row = text[v]
  BY <1>1 DEF DeviceInv, PageHolds
<1>3. ASSUME NEW c \in Nat \union {Unknown}, c <= page[v].rev, Complete(c)
      PROVE  Complete(c)'
  <2> SUFFICES ASSUME NEW u \in Volumes, Alive(u), stamp[u] <= c
               PROVE  cached'[u] = text[u] \/ u \in skipped'
    BY <1>1 DEF Complete, Alive
  <2>1. stamp[u] <= page[v].rev
    BY <1>0, <1>2, <1>3 DEF Unknown
  <2>2. cached[u] = text[u] \/ u \in skipped
    BY <1>3 DEF Complete
  <2> QED
    BY <1>1, <1>2, <2>1, <2>2
<1>4. cursor <= page[v].rev
  BY <1>0, <1>1, <1>2 DEF Outdated, Unknown
<1>5. ASSUME NEW r \in Reads, read[r].st # "idle"
      PROVE  RunInv(r)'
  <2>1. RunInv(r) /\ ~Full(r)
    BY <1>1, <1>5 DEF DeviceInv, RunInv
  <2>2. Complete(cursor)'
    BY <1>0, <1>1, <1>3, <1>4, <2>1 DEF RunInv
  <2>3. ASSUME read[r].st = "applied"
        PROVE  Complete(read[r].rev)'
    <3>1. PICK c \in Nat : c = read[r].rev
      BY <1>0
    <3>2. c <= page[v].rev
      <4>1. ~(page[v].rev < read[r].rev)
        BY <1>1, <2>3 DEF Outdated
      <4> QED
        BY <1>2, <3>1, <4>1
    <3>3. Complete(c)
      BY <2>1, <2>3, <3>1 DEF RunInv
    <3>4. Complete(c)'
      BY <1>3, <3>2, <3>3
    <3> QED
      BY <1>1, <3>1, <3>4 DEF Complete
  <2>4. read[r].st \in {"answered", "heard", "applied"} => SnapshotHolds(r)'
    BY <1>1, <2>1 DEF RunInv, SnapshotHolds, Alive
  <2> QED
    BY <1>1, <2>1, <2>2, <2>3, <2>4 DEF RunInv, Full
<1>6. (\A r \in Reads : read[r].st = "idle") => Complete(cursor)'
  BY <1>0, <1>1, <1>3, <1>4 DEF DeviceInv
<1>7. \A u \in Volumes : PageHolds(u)'
  <2> SUFFICES ASSUME NEW u \in Volumes PROVE PageHolds(u)'
    OBVIOUS
  <2>1. CASE u = v
    BY <1>1, <2>1 DEF PageHolds, NoPage
  <2>2. CASE u # v
    BY <1>1, <2>2 DEF PageHolds, DeviceInv, Alive, NoPage
  <2> QED
    BY <2>1, <2>2
<1>8. cursor # Unknown
  BY <1>1 DEF DeviceInv
<1> QED
  BY <1>1, <1>5, <1>6, <1>7, <1>8 DEF DeviceInv, Unknown

LEMMA InitDevice == Init => DeviceInv
BY DEF Init, DeviceInv, PageHolds, Held, NoRead, Unknown

\* What the steps of a refresh leave to prove, when there is only one.
LEMMA OneRefresh ==
    ASSUME TypeOK', DeviceInv, NEW r \in Reads, \A x, y \in Reads : x = y,
           UNCHANGED <<rev, text, stamp, page>>, cursor' <= rev, cursor' = Unknown => Held' = {},
           read'[r].st # "idle" => RunInv(r)',
           read'[r].st = "idle" => Held' = {} \/ Complete(cursor)'
    PROVE  DeviceInv'
<1>1. \A x \in Reads : x = r
  OBVIOUS
<1>2. \A v \in Volumes : PageHolds(v)'
  BY DEF DeviceInv, PageHolds, Alive, NoPage
<1> QED
  BY <1>1, <1>2 DEF DeviceInv

LEMMA RefreshKeepsDevice ==
    ASSUME TypeOK, TypeOK', ServerInv, DeviceInv, \A x, y \in Reads : x = y,
           NEW r \in Reads, Refresh(r)
    PROVE  DeviceInv'
<1>0. /\ rev \in Nat
      /\ cursor \in Nat \union {Unknown}
      /\ stamp \in [Volumes -> Nat]
      /\ read \in [Reads -> Run]
      /\ read[r].rev \in Nat
      /\ read[r].since \in Nat \union {Unknown}
      /\ cursor <= rev
      /\ cursor = Unknown => Held = {}
      /\ read[r].st # "idle" => RunInv(r)
      /\ read[r].st = "idle" => Held = {} \/ Complete(cursor)
  <2>1. read[r] \in Run
    BY DEF TypeOK
  <2>2. \A x \in Reads : x = r
    OBVIOUS
  <2> QED
    BY <2>1, <2>2 DEF TypeOK, DeviceInv, Run
<1>1. CASE Ask(r)
  <2>1. /\ read'[r].st = "asked"
        /\ read'[r].since = IF Held = {} THEN Unknown ELSE cursor
        /\ UNCHANGED <<rev, text, stamp, page, cached, cursor, skipped>>
        /\ read[r].st = "idle"
    BY <1>0, <1>1 DEF Ask, NoRead, server
  <2>2. RunInv(r)'
    BY <1>0, <2>1 DEF RunInv, Full, Complete, Held, Alive
  <2>3. cursor' = Unknown => Held' = {}
    BY <1>0, <2>1 DEF Held
  <2> QED
    BY <1>0, <2>1, <2>2, <2>3, OneRefresh
<1>2. CASE Answer(r)
  <2>1. /\ read'[r].st = "answered"
        /\ read'[r].since = read[r].since
        /\ read'[r].rev = rev
        /\ read'[r].text = text
        /\ read'[r].changed = {v \in Volumes : Alive(v) /\ stamp[v] > read[r].since}
        /\ UNCHANGED <<rev, text, stamp, page, cached, cursor, skipped>>
        /\ RunInv(r)
    BY <1>0, <1>2 DEF Answer, server
  <2>2. SnapshotHolds(r)'
    BY <2>1 DEF SnapshotHolds, Alive
  <2>3. read[r].since <= rev
    BY <1>0, <2>1 DEF RunInv, Full, Unknown
  <2>4. RunInv(r)'
    BY <1>0, <2>1, <2>2, <2>3 DEF RunInv, Full, Complete, Held, Alive
  <2>5. cursor' = Unknown => Held' = {}
    BY <1>0, <2>1 DEF Held
  <2> QED
    BY <1>0, <2>1, <2>4, <2>5, OneRefresh
<1>3. CASE HearFull(r)
  <2>1. /\ read'[r] = [read[r] EXCEPT !.st = "heard"]
        /\ cursor' = read[r].rev
        /\ UNCHANGED <<rev, text, stamp, page, cached, skipped>>
        /\ RunInv(r) /\ Full(r) /\ read[r].st = "answered"
    BY <1>0, <1>3 DEF HearFull, server
  <2>2. /\ read'[r].st = "heard"
        /\ read'[r].rev = read[r].rev
        /\ read'[r].since = read[r].since
        /\ read'[r].text = read[r].text
        /\ read'[r].changed = read[r].changed
    BY <1>0, <2>1 DEF Run
  <2>3. Held = {} /\ Held' = {}
    BY <2>1 DEF RunInv, Held
  <2>4. SnapshotHolds(r)'
    BY <2>1, <2>2 DEF RunInv, SnapshotHolds, Alive
  <2>5. RunInv(r)'
    BY <2>1, <2>2, <2>3, <2>4 DEF RunInv, Full
  <2> QED
    BY <1>0, <2>1, <2>2, <2>3, <2>5, OneRefresh DEF RunInv
<1>4. CASE WriteFull(r)
  <2>1. /\ read[r].st = "heard"
        /\ \A v \in Volumes : cached'[v] = IF Guarded(v) THEN cached[v] ELSE Snapshot(r, v)
        /\ skipped' = {v \in Volumes : Guarded(v)}
        /\ read'[r].st = "idle"
        /\ UNCHANGED <<rev, text, stamp, page, cursor>>
    BY <1>0, <1>4 DEF WriteFull, server, NoRead
  <2>2. SnapshotHolds(r) /\ cursor = read[r].rev
    BY <1>0, <2>1 DEF RunInv
  <2>3. Complete(cursor)'
    BY <2>1, <2>2 DEF Complete, SnapshotHolds, Snapshot, Alive
  <2> QED
    BY <1>0, <2>1, <2>2, <2>3, OneRefresh DEF Unknown
<1>5. CASE ApplyDelta(r)
  <2>1. /\ read[r].st = "answered" /\ ~Full(r)
        /\ \A v \in Volumes : cached'[v] = IF Guarded(v) THEN cached[v] ELSE DeltaRow(r, v)
        /\ \A v \in Volumes : v \in skipped' <=>
               IF Guarded(v) THEN v \in skipped \union read[r].changed
                             ELSE v \in skipped \ read[r].changed
        /\ read'[r] = [read[r] EXCEPT !.st = "applied"]
        /\ UNCHANGED <<rev, text, stamp, page, cursor>>
    BY <1>0, <1>5 DEF ApplyDelta, server
  <2>2. /\ read'[r].st = "applied"
        /\ read'[r].rev = read[r].rev
        /\ read'[r].since = read[r].since
        /\ read'[r].text = read[r].text
        /\ read'[r].changed = read[r].changed
    BY <1>0, <2>1 DEF Run
  <2>3. /\ SnapshotHolds(r) /\ Complete(cursor)
        /\ cursor = read[r].since /\ cursor <= read[r].rev /\ read[r].rev <= rev
    BY <1>0, <2>1 DEF RunInv
  <2>4. ASSUME NEW v \in Volumes, Alive(v), stamp[v] <= read[r].rev
        PROVE  cached'[v] = text[v] \/ v \in skipped'
    <3>1. read[r].text[v] = text[v] /\ read[r].text[v] >= 0
      BY <2>3, <2>4 DEF SnapshotHolds, Alive
    <3>2. text[v] \in Int /\ stamp[v] \in Nat
      BY DEF TypeOK, Unborn, Gone
    <3>3. CASE v \in read[r].changed
      BY <2>1, <3>1, <3>2, <3>3 DEF DeltaRow
    <3>4. CASE v \notin read[r].changed
      <4>1. stamp[v] <= cursor
        BY <1>0, <2>3, <2>4, <3>2, <3>4 DEF SnapshotHolds, Unknown
      <4>2. cached[v] = text[v] \/ v \in skipped
        BY <2>3, <2>4, <4>1 DEF Complete
      <4> QED
        BY <2>1, <3>1, <3>2, <3>4, <4>2 DEF DeltaRow
    <3> QED
      BY <3>3, <3>4
  <2>5. Complete(read[r].rev)'
    BY <2>1, <2>2, <2>4 DEF Complete, Alive
  <2>6. Complete(cursor)'
    BY <1>0, <2>1, <2>3, <2>4 DEF Complete, Alive, Unknown
  <2>7. SnapshotHolds(r)'
    BY <2>1, <2>2, <2>3 DEF SnapshotHolds, Alive
  <2>8. RunInv(r)'
    BY <2>1, <2>2, <2>3, <2>5, <2>6, <2>7 DEF RunInv, Full
  <2> QED
    BY <1>0, <2>1, <2>2, <2>3, <2>8, OneRefresh DEF Full
<1>6. CASE RememberDelta(r)
  <2>1. /\ read[r].st = "applied"
        /\ cursor' = read[r].rev
        /\ read'[r].st = "idle"
        /\ UNCHANGED <<rev, text, stamp, page, cached, skipped>>
    BY <1>0, <1>6 DEF RememberDelta, server, NoRead
  <2>2. Complete(read[r].rev) /\ read[r].rev <= rev
    BY <1>0, <2>1 DEF RunInv
  <2>3. Complete(cursor)'
    BY <2>1, <2>2 DEF Complete, Alive
  <2> QED
    BY <1>0, <2>1, <2>2, <2>3, OneRefresh DEF Unknown
<1> QED
  BY <1>1, <1>2, <1>3, <1>4, <1>5, <1>6 DEF Refresh

LEMMA ReloadKeepsDevice ==
    ASSUME TypeOK, DeviceInv, Reload
    PROVE  DeviceInv'
<1>1. /\ \A r \in Reads : read'[r].st = "idle"
      /\ \A v \in Volumes : page'[v] = NoPage
      /\ UNCHANGED <<rev, text, stamp, cached, cursor, skipped>>
  BY DEF Reload, server, NoRead
<1>2. Held = {} \/ Complete(cursor)
  BY DEF DeviceInv, RunInv
<1> QED
  BY <1>1, <1>2 DEF DeviceInv, PageHolds, Held, Complete, Alive, NoPage

\* With one refresh at a time, and no page caching its series before the shelf
\* ever was or after a refresh told of later rows, the cursor never passes a row
\* the device lacks, whatever the number of writers, edits, deletions, pages and
\* reloads.
THEOREM CursorNeverOvertakes ==
    ASSUME \A x, y \in Reads : x = y, ~EarlyPages, ~LatePages
    PROVE  Spec => []CursorComplete
<1> DEFINE Inv == TypeOK /\ ServerInv /\ DeviceInv
<1>1. Init => Inv
  BY InitTypes, InitServer, InitDevice
<1>2. Inv /\ [Next]_vars => Inv'
  <2> SUFFICES ASSUME Inv, [Next]_vars PROVE Inv'
    OBVIOUS
  <2>1. TypeOK' /\ ServerInv'
    BY NextTypes, NextServer
  <2>2. CASE WorldStep
    BY <2>1, <2>2, WorldKeepsDevice
  <2>3. ASSUME NEW r \in Reads, Refresh(r)
        PROVE  DeviceInv'
    BY <2>1, <2>3, RefreshKeepsDevice
  <2>4. CASE Reload
    BY <2>1, <2>4, ReloadKeepsDevice
  <2>5. ASSUME NEW v \in Volumes, PageCaches(v)
        PROVE  DeviceInv'
    BY <2>1, <2>5, PageKeepsDevice
  <2>6. ASSUME UNCHANGED vars
        PROVE  DeviceInv'
    BY <2>6 DEF vars, server, DeviceInv, RunInv, SnapshotHolds, PageHolds,
                Complete, Held, Alive, Full, NoPage
  <2> QED
    BY <2>1, <2>2, <2>3, <2>4, <2>5, <2>6 DEF Next, WorldStep
<1>3. Inv => CursorComplete
  BY DEF DeviceInv, RunInv, CursorComplete, CursorInUse, Covered, Complete
<1> QED
  BY <1>1, <1>2, <1>3, PTL DEF Spec
=============================================================================
