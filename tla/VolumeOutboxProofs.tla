------------------------- MODULE VolumeOutboxProofs -------------------------
(***************************************************************************)
(* Proofs about VolumeOutbox, for every shelf, every number of passes and  *)
(* every bound.  TypeOK bounds every number in the state by the number of  *)
(* edits made so far; that is what makes WaitingEditShown inductive: a new *)
(* edit is newer than anything that can be waiting.  Where one pass runs   *)
(* at a time and nobody interferes (Undisturbed), SafeInv says what the    *)
(* pass has in hand, what the server knows of it and what the screen shows *)
(* meanwhile.  The last part is about VolumeSync: behind its gate the      *)
(* outbox takes no step it could not take alone.                           *)
(***************************************************************************)
EXTENDS VolumeSync, TLAPS

-----------------------------------------------------------------------------
(* Rows and ops *)

\* What n edits can make up, more edits can.
LEMMA Growing ==
    ASSUME NEW m \in Nat, NEW n \in Nat, m <= n
    PROVE  /\ Row(m) \subseteq Row(n)
           /\ Shelf(m) \subseteq Shelf(n)
           /\ Op(m) \subseteq Op(n)
           /\ Job(m) \subseteq Job(n)
           /\ Reading(m) \subseteq Reading(n)
<1>1. 0..m \subseteq 0..n /\ Undef..m \subseteq Undef..n
  BY SMT DEF Undef
<1>2. Row(m) \subseteq Row(n)
  BY <1>1 DEF Row
<1>3. Op(m) \subseteq Op(n)
  BY <1>1 DEF Op
<1>4. Shelf(m) \subseteq Shelf(n)
  BY <1>2 DEF Shelf
<1>5. Job(m) \subseteq Job(n)
  BY <1>3, <1>4 DEF Job
<1>6. Reading(m) \subseteq Reading(n)
  BY <1>4 DEF Reading
<1> QED
  BY <1>2, <1>3, <1>4, <1>5, <1>6

LEMMA Blanks ==
    ASSUME NEW n \in Nat
    PROVE  /\ NoOp \in Op(n)
           /\ NoOps \in [Keys -> Op(n)]
           /\ Untouched \in Shelf(n)
           /\ NoReading \in Reading(n)
           /\ FreeJobs \in [Series -> Job(n)]
<1>1. NoOp \in Op(n)
  BY DEF NoOp, Op, Undef
<1>2. Untouched \in Shelf(n)
  BY DEF Untouched, Shelf, Row
<1>3. NoOps \in [Keys -> Op(n)]
  BY <1>1 DEF NoOps
<1>4. NoReading \in Reading(n)
  BY <1>2 DEF NoReading, Reading
<1>5. FreeJobs \in [Series -> Job(n)]
  BY <1>1, <1>2 DEF FreeJobs, Job, JobStates, Keys
<1> QED
  BY <1>1, <1>2, <1>3, <1>4, <1>5

\* An op laid over an op is an op, over a row a row, over a shelf a shelf.
LEMMA MergedOp ==
    ASSUME NEW n \in Nat, NEW a \in Op(n), NEW b \in Op(n)
    PROVE  Merged(a, b) \in Op(n)
BY DEF Merged, Op, Undef

LEMMA MergedRow ==
    ASSUME NEW n \in Nat, NEW r \in Row(n), NEW op \in Op(n)
    PROVE  Merged(r, op) \in Row(n)
BY DEF Merged, Row, Op, Undef

LEMMA AppliedShelf ==
    ASSUME NEW n \in Nat, NEW shelf \in Shelf(n), NEW op \in Op(n), NEW k
    PROVE  Applied(shelf, k, op) \in Shelf(n)
BY MergedRow DEF Applied, Shelf

\* Both parts of an op are ops.
LEMMA PartOp ==
    ASSUME NEW n \in Nat, NEW op \in Op(n), NEW k
    PROVE  First(k, op) \in Op(n) /\ Rest(k, op) \in Op(n)
BY DEF First, Rest, Op, Undef

LEMMA CachedShelf ==
    ASSUME NEW n \in Nat, local \in Shelf(n), NEW rows \in Shelf(n), NEW s
    PROVE  Cached(s, rows) \in Shelf(n)
BY DEF Cached, Shelf

LEMMA HomeIsSeries == \A k \in Keys : Home(k) \in Series
BY ShelfAssumption DEF Home, Keys

-----------------------------------------------------------------------------
(* Types *)

\* No step takes edits back, and none but an edit touches it.
LEMMA InitTypes == Init => TypeOK
BY Blanks, BoundsAssumption DEF Init, TypeOK

LEMMA OptimisticTypes ==
    ASSUME TypeOK, NEW k \in Keys, NEW op \in Op(edits + 1), NEW F,
           Optimistic(k, op, F), edits < MaxEdits
    PROVE  TypeOK'
<1> DEFINE n == edits + 1
<1>1. edits \in Nat /\ n \in Nat /\ edits <= n /\ n \in 0..MaxEdits
  BY BoundsAssumption DEF TypeOK
<1>2. edits' = n
  BY DEF Optimistic
<1> HIDE DEF n
<1>3. /\ Shelf(edits) \subseteq Shelf(n)
      /\ Op(edits) \subseteq Op(n)
      /\ Job(edits) \subseteq Job(n)
      /\ Reading(edits) \subseteq Reading(n)
  BY <1>1, Growing
<1>4. local' \in Shelf(n)
  BY <1>1, <1>3, AppliedShelf DEF Optimistic, TypeOK, n
<1>5. outbox' \in [Keys -> Op(n)]
  BY <1>1, <1>3, MergedOp DEF Optimistic, TypeOK, n
<1>6. intent' \in Shelf(n)
  <2>1. intent \in Shelf(n)
    BY <1>3 DEF TypeOK
  <2> QED
    BY <1>1, <2>1 DEF Optimistic, Shelf, Row, n
<1>7. /\ server' \in Shelf(n)
      /\ todo' \in [Passes -> [Keys -> Op(n)]]
      /\ job' \in [Passes -> [Series -> Job(n)]]
      /\ page' \in [Series -> Reading(n)]
      /\ restore' \in Reading(n)
  BY <1>3 DEF Optimistic, TypeOK, passVars, spent
<1>8. /\ refused' \subseteq Volumes \X Fields \X (0..n)
      /\ reported' \subseteq Volumes \X Fields \X (0..n)
      /\ abandoned' \in 0..n
  BY <1>1 DEF Optimistic, TypeOK
<1> QED
  BY <1>1, <1>2, <1>4, <1>5, <1>6, <1>7, <1>8 DEF Optimistic, TypeOK, passVars, spent

LEMMA EnqueueTypes ==
    ASSUME TypeOK
    PROVE  /\ \A v \in Volumes, F \in SUBSET Fields : EnqueueVolume(v, F) => TypeOK'
           /\ \A s \in Series, F \in SUBSET BulkFields : EnqueueBulk(s, F) => TypeOK'
<1>0. edits \in Nat
  BY DEF TypeOK
<1>1. ASSUME NEW v \in Volumes, NEW F \in SUBSET Fields, EnqueueVolume(v, F)
      PROVE  TypeOK'
  <2>1. Payload(v, F) \in Op(edits + 1)
    BY <1>0 DEF Payload, Op, TypeOK, Shelf, Row, Undef
  <2> QED
    BY <1>1, <2>1, OptimisticTypes DEF EnqueueVolume, MayEdit, Keys
<1>2. ASSUME NEW s \in Series, NEW F \in SUBSET BulkFields, EnqueueBulk(s, F)
      PROVE  TypeOK'
  <2>1. [f \in Fields |-> IF f \in F THEN edits + 1 ELSE Undef] \in Op(edits + 1)
    BY <1>0 DEF Op, Undef
  <2> QED
    BY <1>2, <2>1, OptimisticTypes DEF EnqueueBulk, MayEdit, Keys
<1> QED
  BY <1>1, <1>2

LEMMA SnapshotTypes ==
    ASSUME TypeOK, NEW ph PROVE Snapshot(ph) \in [Keys -> Op(edits)]
BY Blanks DEF Snapshot, TypeOK

LEMMA JobTypes ==
    ASSUME TypeOK, NEW p \in Passes, NEW s \in Series
    PROVE  /\ job[p][s] \in Job(edits)
           /\ \A st \in JobStates : Moved(p, s, st) \in [Passes -> [Series -> Job(edits)]]
           /\ Freed(p, s) \in [Passes -> [Series -> Job(edits)]]
<1>1. job[p][s] \in Job(edits) /\ edits \in Nat
  BY DEF TypeOK
<1>2. ASSUME NEW j \in Job(edits)
      PROVE  [job EXCEPT ![p][s] = j] \in [Passes -> [Series -> Job(edits)]]
  BY DEF TypeOK
<1>3. ASSUME NEW st \in JobStates
      PROVE  Moved(p, s, st) \in [Passes -> [Series -> Job(edits)]]
  <2> DEFINE j == [st |-> st, key |-> job[p][s].key, op |-> job[p][s].op,
                   rows |-> job[p][s].rows]
  <2>1. j \in Job(edits)
    BY <1>1 DEF Job
  <2>2. Moved(p, s, st) = [job EXCEPT ![p][s] = j]
    BY DEF Moved, TypeOK
  <2> QED
    BY <1>2, <2>1, <2>2
<1>4. Freed(p, s) \in [Passes -> [Series -> Job(edits)]]
  <2>1. FreeJobs[s] \in Job(edits)
    BY <1>1, Blanks
  <2> QED
    BY <1>2, <2>1 DEF Freed
<1> QED
  BY <1>1, <1>3, <1>4

LEMMA StartTypes ==
    ASSUME TypeOK, NEW p \in Passes
    PROVE  /\ StartPass(p) => TypeOK'
           /\ NextPhase(p) => TypeOK'
           /\ EndPass(p) => TypeOK'
           /\ \A k \in Keys : StartOp(p, k) => TypeOK'
<1>0. edits \in Nat
  BY DEF TypeOK
<1>1. ASSUME NEW ops \in [Keys -> Op(edits)], NEW ph \in {"off", "volumes", "bulk"},
             phase' = [phase EXCEPT ![p] = ph],
             todo' = [todo EXCEPT ![p] = ops],
             stop' = [stop EXCEPT ![p] = FALSE],
             UNCHANGED <<local, outbox, server, tries, job, page, restore, edits,
                         historyVars, spent>>
      PROVE  TypeOK'
  BY <1>1 DEF TypeOK, historyVars, spent
<1>2. StartPass(p) => TypeOK'
  BY <1>1, SnapshotTypes DEF StartPass
<1>3. NextPhase(p) => TypeOK'
  BY <1>1, SnapshotTypes DEF NextPhase
<1>4. EndPass(p) => TypeOK'
  BY <1>0, <1>1, Blanks DEF EndPass
<1>5. ASSUME NEW k \in Keys, StartOp(p, k) PROVE TypeOK'
  <2> DEFINE j == [st |-> "sent", key |-> k, op |-> todo[p][k], rows |-> Untouched]
  <2>1. /\ Home(k) \in Series
        /\ NoOp \in Op(edits)
        /\ Untouched \in Shelf(edits)
    BY <1>0, HomeIsSeries, Blanks
  <2>2. j \in Job(edits)
    BY <2>1 DEF TypeOK, Job, JobStates
  <2>3. job' = [job EXCEPT ![p][Home(k)] = j]
    BY <1>5 DEF StartOp
  <2> HIDE DEF j
  <2>4. job' \in [Passes -> [Series -> Job(edits)]]
    BY <2>1, <2>2, <2>3 DEF TypeOK
  <2>5. todo' \in [Passes -> [Keys -> Op(edits)]]
    BY <1>5, <2>1 DEF StartOp, TypeOK
  <2> QED
    BY <1>5, <2>4, <2>5 DEF StartOp, TypeOK, historyVars, spent
<1> QED
  BY <1>2, <1>3, <1>4, <1>5

\* What is dropped, and what is reported, is made of the user's edits.
LEMMA EditsOfTypes ==
    ASSUME TypeOK, NEW p \in Passes, NEW s \in Series
    PROVE  EditsOf(job[p][s].key, job[p][s].op) \subseteq Volumes \X Fields \X (0..edits)
<1>1. /\ edits \in Nat
      /\ job[p][s].key \in Keys
      /\ job[p][s].op \in Op(edits)
  BY JobTypes DEF TypeOK, Job
<1>2. Covers(job[p][s].key) \subseteq Volumes
  BY <1>1 DEF Covers, Keys
<1> QED
  BY <1>1, <1>2 DEF EditsOf, Op, Undef

\* What a dead letter leaves behind.
LEMMA DeadLetterTypes ==
    ASSUME TypeOK, NEW p \in Passes, NEW s \in Series, DeadLetter(p, s)
    PROVE  /\ outbox' \in [Keys -> Op(edits)]
           /\ refused' \subseteq Volumes \X Fields \X (0..edits)
           /\ UNCHANGED reported
           /\ job' \in [Passes -> [Series -> Job(edits)]]
<1>1. /\ edits \in Nat
      /\ job[p][s].key \in Keys
      /\ job[p][s].op \in Op(edits)
  BY JobTypes DEF TypeOK, Job
<1>2. outbox' \in [Keys -> Op(edits)]
  BY <1>1, Blanks DEF DeadLetter, TypeOK
<1>3. job' \in [Passes -> [Series -> Job(edits)]]
  BY JobTypes DEF DeadLetter, JobStates
<1> QED
  BY <1>2, <1>3, EditsOfTypes DEF DeadLetter, TypeOK

LEMMA AnswerTypes ==
    ASSUME TypeOK, NEW p \in Passes, NEW s \in Series
    PROVE  /\ Lands(p, s) => TypeOK'
           /\ Completes(p, s) => TypeOK'
           /\ Acked(p, s) => TypeOK'
           /\ Refused(p, s) => TypeOK'
           /\ Failed(p, s) => TypeOK'
<1>0. /\ edits \in Nat
      /\ MaxTries \in Nat \ {0}
      /\ job[p][s].key \in Keys
      /\ job[p][s].op \in Op(edits)
  BY JobTypes, BoundsAssumption DEF TypeOK, Job
<1>1. ASSUME Lands(p, s) PROVE TypeOK'
  <2>1. server' \in Shelf(edits)
    <3>1. First(job[p][s].key, job[p][s].op) \in Op(edits)
      BY <1>0, PartOp
    <3> QED
      BY <1>0, <1>1, <3>1, AppliedShelf DEF Lands, TypeOK
  <2>2. job' \in [Passes -> [Series -> Job(edits)]]
    BY <1>1, JobTypes DEF Lands, JobStates
  <2> QED
    BY <1>1, <2>1, <2>2 DEF Lands, TypeOK, historyVars, spent
<1>2. ASSUME Completes(p, s) PROVE TypeOK'
  <2>1. server' \in Shelf(edits)
    <3>1. Rest(job[p][s].key, job[p][s].op) \in Op(edits)
      BY <1>0, PartOp
    <3> QED
      BY <1>0, <1>2, <3>1, AppliedShelf DEF Completes, TypeOK
  <2>2. job' \in [Passes -> [Series -> Job(edits)]]
    BY <1>2, JobTypes DEF Completes, JobStates
  <2> QED
    BY <1>2, <2>1, <2>2 DEF Completes, TypeOK, historyVars, spent
<1>3. ASSUME Acked(p, s) PROVE TypeOK'
  <2>1. outbox' \in [Keys -> Op(edits)] /\ tries' \in [Keys -> 0..(MaxTries - 1)]
    BY <1>0, <1>3, Blanks DEF Acked, TypeOK
  <2>2. job' \in [Passes -> [Series -> Job(edits)]]
    <3> DEFINE j == [st |-> "asking", key |-> job[p][s].key, op |-> NoOp,
                     rows |-> Untouched]
    <3>1. j \in Job(edits)
      BY <1>0, Blanks DEF Job, JobStates
    <3> HIDE DEF j
    <3>2. [job EXCEPT ![p][s] = j] \in [Passes -> [Series -> Job(edits)]]
      BY <3>1 DEF TypeOK
    <3> QED
      BY <1>3, <3>2, JobTypes DEF Acked, j
  <2> QED
    BY <1>3, <2>1, <2>2 DEF Acked, TypeOK, historyVars, spent
<1>4. ASSUME Refused(p, s) PROVE TypeOK'
  BY <1>4, DeadLetterTypes DEF Refused, TypeOK, spent
<1>5. ASSUME Failed(p, s) PROVE TypeOK'
  <2>1. CASE tries[job[p][s].key] + 1 < MaxTries
    <3>0. /\ tries' = [tries EXCEPT ![job[p][s].key] = @ + 1]
          /\ stop' = [stop EXCEPT ![p] = TRUE]
      BY <1>0, <1>5, <2>1 DEF Failed, TypeOK
    <3>1. tries' \in [Keys -> 0..(MaxTries - 1)] /\ stop' \in [Passes -> BOOLEAN]
      BY <1>0, <2>1, <3>0 DEF TypeOK
    <3>2. job' \in [Passes -> [Series -> Job(edits)]]
      BY <1>0, <1>5, <2>1, JobTypes DEF Failed, TypeOK
    <3>3. UNCHANGED <<outbox, refused, reported>>
      BY <1>0, <1>5, <2>1 DEF Failed, TypeOK
    <3> QED
      BY <1>5, <3>1, <3>2, <3>3 DEF Failed, TypeOK, spent
  <2>2. CASE tries[job[p][s].key] + 1 >= MaxTries
    <3>1. tries' \in [Keys -> 0..(MaxTries - 1)] /\ UNCHANGED stop
      BY <1>0, <1>5, <2>2 DEF Failed, TypeOK
    <3>2. DeadLetter(p, s)
      BY <1>0, <1>5, <2>2 DEF Failed, TypeOK
    <3> QED
      BY <1>5, <3>1, <3>2, DeadLetterTypes DEF Failed, TypeOK, spent
  <2> QED
    BY <1>0, <1>5, <2>1, <2>2 DEF Failed
<1> QED
  BY <1>1, <1>2, <1>3, <1>4, <1>5

LEMMA ReadTypes ==
    ASSUME TypeOK, NEW s \in Series
    PROVE  /\ \A p \in Passes : Told(p, s) \/ NotTold(p, s) \/ CacheRows(p, s) => TypeOK'
           /\ PageAsks(s) \/ PageTold(s) \/ PageCaches(s) => TypeOK'
<1>0. edits \in Nat /\ Untouched \in Shelf(edits) /\ NoReading \in Reading(edits)
  BY Blanks DEF TypeOK
<1>1. ASSUME NEW p \in Passes, Told(p, s) PROVE TypeOK'
  <2> DEFINE j == [st |-> "told", key |-> job[p][s].key, op |-> job[p][s].op,
                   rows |-> server]
  <2>1. j \in Job(edits)
    BY JobTypes DEF Job, JobStates, TypeOK
  <2>2. job' = [job EXCEPT ![p][s] = j]
    BY <1>1 DEF Told, TypeOK
  <2> HIDE DEF j
  <2>3. job' \in [Passes -> [Series -> Job(edits)]]
    BY <2>1, <2>2 DEF TypeOK
  <2> QED
    BY <1>1, <2>3 DEF Told, TypeOK, historyVars, spent
<1>2. ASSUME NEW p \in Passes, NotTold(p, s) PROVE TypeOK'
  BY <1>2, JobTypes, EditsOfTypes DEF NotTold, Report, TypeOK, spent
<1>3. ASSUME NEW p \in Passes, CacheRows(p, s) PROVE TypeOK'
  <2>1. job[p][s].rows \in Shelf(edits)
    BY JobTypes DEF Job
  <2>2. local' \in Shelf(edits)
    BY <1>0, <1>3, <2>1, CachedShelf DEF CacheRows, TypeOK
  <2> QED
    BY <1>3, <2>2, JobTypes, EditsOfTypes DEF CacheRows, Report, TypeOK, spent
<1>4. ASSUME PageAsks(s) PROVE TypeOK'
  <2>1. page' \in [Series -> Reading(edits)]
    BY <1>0, <1>4 DEF PageAsks, TypeOK, Reading
  <2>2. pageReads' \in 0..MaxPageReads
    BY <1>4, BoundsAssumption DEF PageAsks, TypeOK
  <2> QED
    BY <1>4, <2>1, <2>2 DEF PageAsks, TypeOK, historyVars, passVars, spent
<1>5. ASSUME PageTold(s) PROVE TypeOK'
  <2>1. page' \in [Series -> Reading(edits)]
    BY <1>0, <1>5 DEF PageTold, TypeOK, Reading
  <2> QED
    BY <1>5, <2>1 DEF PageTold, TypeOK, historyVars, passVars, spent
<1>6. ASSUME PageCaches(s) PROVE TypeOK'
  <2>1. page[s].rows \in Shelf(edits)
    BY DEF TypeOK, Reading
  <2>2. local' \in Shelf(edits)
    BY <1>0, <1>6, <2>1, CachedShelf DEF PageCaches, TypeOK
  <2>3. page' \in [Series -> Reading(edits)]
    BY <1>0, <1>6 DEF PageCaches, TypeOK
  <2> QED
    BY <1>6, <2>2, <2>3 DEF PageCaches, TypeOK, historyVars, passVars, spent
<1> QED
  BY <1>1, <1>2, <1>3, <1>4, <1>5, <1>6

LEMMA RestoreTypes == TypeOK /\ (RestoreTold \/ RestoreCommits) => TypeOK'
<1> SUFFICES ASSUME TypeOK, RestoreTold \/ RestoreCommits PROVE TypeOK'
  OBVIOUS
<1>0. /\ edits \in Nat
      /\ NoOps \in [Keys -> Op(edits)]
      /\ NoReading \in Reading(edits)
      /\ restore.rows \in Shelf(edits)
  BY Blanks DEF TypeOK, Reading
<1>1. CASE RestoreTold
  <2>1. restore' \in Reading(edits)
    BY <1>1 DEF RestoreTold, TypeOK, Reading
  <2>2. restores' \in 0..MaxRestores
    BY <1>1, BoundsAssumption DEF RestoreTold, TypeOK
  <2> QED
    BY <1>1, <2>1, <2>2 DEF RestoreTold, TypeOK, historyVars, passVars, spent
<1>2. CASE RestoreCommits
  BY <1>0, <1>2 DEF RestoreCommits, TypeOK, passVars, spent
<1> QED
  BY <1>1, <1>2

LEMMA ReloadTypes == TypeOK /\ Reload => TypeOK'
<1> SUFFICES ASSUME TypeOK, Reload PROVE TypeOK'
  OBVIOUS
<1>0. /\ edits \in Nat
      /\ NoOps \in [Keys -> Op(edits)]
      /\ NoReading \in Reading(edits)
      /\ FreeJobs \in [Series -> Job(edits)]
  BY Blanks DEF TypeOK
<1>1. reloads' \in 0..MaxReloads
  BY BoundsAssumption DEF Reload, TypeOK
<1> QED
  BY <1>0, <1>1, BoundsAssumption DEF Reload, TypeOK, historyVars, spent

LEMMA StutterTypes == TypeOK /\ UNCHANGED vars => TypeOK'
BY DEF TypeOK, vars, spent

LEMMA TypeStep == TypeOK /\ [Next]_vars => TypeOK'
<1> SUFFICES ASSUME TypeOK, [Next]_vars PROVE TypeOK'
  OBVIOUS
<1> QED
  BY EnqueueTypes, StartTypes, AnswerTypes, ReadTypes, RestoreTypes, ReloadTypes,
     StutterTypes DEF Next, PassStep

\* Type correctness: nothing on the device, on the server or on the wire is
\* ever ahead of the edits the user has made.
THEOREM TypeCorrect == Spec => []TypeOK
BY InitTypes, TypeStep, PTL DEF Spec

-----------------------------------------------------------------------------
(* What waits is shown *)

LEMMA CoveredVolumes == \A k \in Keys : Covers(k) \subseteq Volumes
BY DEF Covers, Keys

\* An op that is nowhere older than the rows it covers keeps them ahead of
\* everything waiting, under its own key and under the others.
LEMMA OptimisticShows ==
    ASSUME TypeOK, WaitingEditShown, NEW k \in Keys, NEW op \in Op(edits + 1), NEW F,
           \A v \in Covers(k), f \in Fields : op[f] = Undef \/ op[f] >= local[v][f],
           Optimistic(k, op, F)
    PROVE  WaitingEditShown'
<1>0. /\ edits \in Nat
      /\ local \in [Volumes -> [Fields -> 0..edits]]
      /\ outbox \in [Keys -> [Fields -> Undef..edits]]
      /\ op \in [Fields -> Undef..(edits + 1)]
  BY DEF TypeOK, Shelf, Row, Op
<1> SUFFICES ASSUME NEW j \in Keys, NEW f \in Fields, NEW v \in Covers(j)
             PROVE  local'[v][f] >= outbox'[j][f]
  BY DEF WaitingEditShown, Covers
<1>1. v \in Volumes /\ local[v][f] >= outbox[j][f]
  BY CoveredVolumes DEF WaitingEditShown
<1>2. local'[v][f] = IF v \in Covers(k) /\ op[f] # Undef THEN op[f] ELSE local[v][f]
  BY <1>0, <1>1 DEF Optimistic, Applied, Merged
<1>3. CASE j = k
  <2>1. outbox'[j][f] = IF op[f] # Undef THEN op[f] ELSE outbox[j][f]
    BY <1>0, <1>3 DEF Optimistic, Merged
  <2> QED
    BY <1>0, <1>1, <1>2, <1>3, <2>1 DEF Undef
<1>4. CASE j # k
  <2>1. outbox'[j][f] = outbox[j][f]
    BY <1>0, <1>4 DEF Optimistic
  <2>2. local'[v][f] >= local[v][f]
    BY <1>0, <1>1, <1>2 DEF Undef
  <2> QED
    BY <1>0, <1>1, <1>2, <2>1, <2>2 DEF Undef
<1> QED
  BY <1>3, <1>4

LEMMA EnqueueShows ==
    ASSUME TypeOK, WaitingEditShown
    PROVE  /\ \A v \in Volumes, F \in SUBSET Fields :
                  EnqueueVolume(v, F) => WaitingEditShown'
           /\ \A s \in Series, F \in SUBSET BulkFields :
                  EnqueueBulk(s, F) => WaitingEditShown'
<1>0. /\ edits \in Nat
      /\ local \in [Volumes -> [Fields -> 0..edits]]
  BY DEF TypeOK, Shelf, Row
<1>1. ASSUME NEW v \in Volumes, NEW F \in SUBSET Fields, EnqueueVolume(v, F)
      PROVE  WaitingEditShown'
  <2>1. Covers(v) = {v}
    BY ShelfAssumption DEF Covers
  <2>2. Payload(v, F) \in Op(edits + 1)
    BY <1>0 DEF Payload, Op, Undef
  <2>3. \A f \in Fields : Payload(v, F)[f] = Undef \/ Payload(v, F)[f] >= local[v][f]
    BY <1>0 DEF Payload
  <2> QED
    BY <1>1, <2>1, <2>2, <2>3, OptimisticShows DEF EnqueueVolume, Keys
<1>2. ASSUME NEW s \in Series, NEW F \in SUBSET BulkFields, EnqueueBulk(s, F)
      PROVE  WaitingEditShown'
  <2> DEFINE op == [f \in Fields |-> IF f \in F THEN edits + 1 ELSE Undef]
  <2>1. op \in Op(edits + 1)
    BY <1>0 DEF Op, Undef
  <2>2. \A v \in Covers(s), f \in Fields : op[f] = Undef \/ op[f] >= local[v][f]
    BY <1>0, CoveredVolumes DEF Keys
  <2> QED
    BY <1>2, <2>1, <2>2, OptimisticShows DEF EnqueueBulk, Keys
<1> QED
  BY <1>1, <1>2

\* Dropping ops, whatever becomes of them, uncovers nothing.
LEMMA DropShows ==
    ASSUME TypeOK, WaitingEditShown, UNCHANGED local, NEW k \in Keys,
           outbox' = [outbox EXCEPT ![k] = NoOp]
    PROVE  WaitingEditShown'
<1>0. /\ local \in [Volumes -> [Fields -> Nat]]
      /\ outbox \in [Keys -> [Fields -> Int]]
  BY DEF TypeOK, Shelf, Row, Op, Undef
<1> SUFFICES ASSUME NEW j \in Keys, NEW f \in Fields, NEW v \in Covers(j)
             PROVE  local[v][f] >= outbox'[j][f]
  BY DEF WaitingEditShown, Covers
<1>1. v \in Volumes /\ local[v][f] >= outbox[j][f]
  BY CoveredVolumes DEF WaitingEditShown
<1>2. outbox'[j][f] = IF j = k THEN -1 ELSE outbox[j][f]
  BY <1>0 DEF NoOp, Undef
<1> QED
  BY <1>0, <1>1, <1>2

\* A guarded write of any snapshot shows what waits: it only replaces rows that
\* no op covers.
LEMMA CachedShows ==
    ASSUME TypeOK, WaitingEditShown, UNCHANGED outbox,
           NEW s \in Series, NEW rows \in Shelf(edits), local' = Cached(s, rows)
    PROVE  WaitingEditShown'
<1>0. /\ edits \in Nat
      /\ local \in [Volumes -> [Fields -> Nat]]
      /\ rows \in [Volumes -> [Fields -> Nat]]
  BY DEF TypeOK, Shelf, Row
<1> SUFFICES ASSUME NEW j \in Keys, NEW f \in Fields, NEW v \in Covers(j)
             PROVE  local'[v][f] >= outbox[j][f]
  BY DEF WaitingEditShown, Covers
<1>1. v \in Volumes /\ local[v][f] >= outbox[j][f]
  BY CoveredVolumes DEF WaitingEditShown
<1>2. CASE Guarded(v)
  BY <1>1, <1>2 DEF Cached
<1>3. CASE ~Guarded(v)
  <2>1. outbox[j][f] = -1
    BY <1>3 DEF Guarded, Waiting, NoOp, Undef
  <2>2. local'[v][f] \in Nat
    BY <1>0, <1>1 DEF Cached
  <2> QED
    BY <2>1, <2>2
<1> QED
  BY <1>2, <1>3

\* Restoring empties the outbox along with the shelf.
LEMMA RestoreShows ==
    ASSUME TypeOK, RestoreCommits PROVE WaitingEditShown'
<1>1. local' \in [Volumes -> [Fields -> Nat]]
  BY DEF RestoreCommits, TypeOK, Reading, Shelf, Row
<1>2. \A k \in Keys, f \in Fields : outbox'[k][f] = -1
  BY DEF RestoreCommits, NoOps, NoOp, Undef
<1> QED
  BY <1>1, <1>2, CoveredVolumes DEF WaitingEditShown, Covers

LEMMA PassShows ==
    ASSUME TypeOK, WaitingEditShown, NEW p \in Passes, PassStep(p)
    PROVE  WaitingEditShown'
<1>1. ASSUME UNCHANGED <<local, outbox>> PROVE WaitingEditShown'
  BY <1>1 DEF WaitingEditShown, Covers
<1>2. CASE StartPass(p) \/ NextPhase(p) \/ EndPass(p) \/ \E k \in Keys : StartOp(p, k)
  BY <1>1, <1>2 DEF StartPass, NextPhase, EndPass, StartOp
<1>3. ASSUME NEW s \in Series,
             Lands(p, s) \/ Completes(p, s) \/ Told(p, s) \/ NotTold(p, s)
      PROVE  WaitingEditShown'
  BY <1>1, <1>3 DEF Lands, Completes, Told, NotTold
<1>4. ASSUME NEW s \in Series, Acked(p, s) \/ Refused(p, s) \/ Failed(p, s)
      PROVE  WaitingEditShown'
  <2>1. job[p][s].key \in Keys
    BY JobTypes DEF Job
  <2>2. /\ UNCHANGED local
        /\ \/ UNCHANGED outbox
           \/ outbox' = [outbox EXCEPT ![job[p][s].key] = NoOp]
    BY <1>4 DEF Acked, Refused, Failed, DeadLetter
  <2> QED
    BY <1>1, <2>1, <2>2, DropShows
<1>5. ASSUME NEW s \in Series, CacheRows(p, s) PROVE WaitingEditShown'
  <2>1. job[p][s].rows \in Shelf(edits)
    BY JobTypes DEF Job
  <2> QED
    BY <1>5, <2>1, CachedShows DEF CacheRows
<1> QED
  BY <1>2, <1>3, <1>4, <1>5 DEF PassStep

\* An edit that waits to be sent stays on the screen: whatever snapshots of the
\* server are cached, by whom and how late, and however passes, refusals,
\* restores and reloads interleave (the guards of db.js).
THEOREM WaitingEditsStayShown == Spec => []WaitingEditShown
<1> DEFINE Inv == TypeOK /\ WaitingEditShown
<1>1. Init => Inv
  <2>1. ASSUME Init PROVE WaitingEditShown
    BY <2>1, CoveredVolumes
       DEF Init, WaitingEditShown, Untouched, NoOps, NoOp, Undef
  <2> QED
    BY <2>1, InitTypes
<1>2. Inv /\ [Next]_vars => Inv'
  <2> SUFFICES ASSUME TypeOK, WaitingEditShown, [Next]_vars PROVE WaitingEditShown'
    BY TypeStep
  <2>1. ASSUME UNCHANGED <<local, outbox>> PROVE WaitingEditShown'
    BY <2>1 DEF WaitingEditShown, Covers
  <2>2. CASE UNCHANGED vars
    BY <2>1, <2>2 DEF vars
  <2>3. CASE RestoreTold \/ Reload
    BY <2>1, <2>3 DEF RestoreTold, Reload
  <2>4. ASSUME NEW s \in Series, PageAsks(s) \/ PageTold(s) PROVE WaitingEditShown'
    BY <2>1, <2>4 DEF PageAsks, PageTold
  <2>5. ASSUME NEW s \in Series, PageCaches(s) PROVE WaitingEditShown'
    <3>1. page[s].rows \in Shelf(edits)
      BY DEF TypeOK, Reading
    <3> QED
      BY <2>5, <3>1, CachedShows DEF PageCaches
  <2> QED
    BY <2>2, <2>3, <2>4, <2>5, EnqueueShows, PassShows, RestoreShows DEF Next
<1>3. Inv => WaitingEditShown
  OBVIOUS
<1> QED
  BY <1>1, <1>2, <1>3, PTL DEF Spec

-----------------------------------------------------------------------------
(* What is refused is reported *)

\* No job changes but that of pass p on series s.
OnlyJob(p, s) ==
    \A q \in Passes, t \in Series : q # p \/ t # s => job'[q][t] = job[q][t]

\* A job's record changes, and no other job.
LEMMA OneJob ==
    ASSUME TypeOK, NEW p \in Passes, NEW s \in Series, NEW j,
           job' = [job EXCEPT ![p][s] = j]
    PROVE  /\ job'[p][s] = j
           /\ OnlyJob(p, s)
BY DEF TypeOK, OnlyJob

\* The same, by what the step leaves in the place of the job.
LEMMA MovedJob ==
    ASSUME TypeOK, NEW p \in Passes, NEW s \in Series, NEW st, job' = Moved(p, s, st)
    PROVE  /\ job'[p][s] = [st |-> st, key |-> job[p][s].key, op |-> job[p][s].op,
                            rows |-> job[p][s].rows]
           /\ OnlyJob(p, s)
BY DEF TypeOK, OnlyJob, Moved

LEMMA FreedJob ==
    ASSUME TypeOK, NEW p \in Passes, NEW s \in Series, job' = Freed(p, s)
    PROVE  /\ job'[p][s] = [st |-> "free", key |-> s, op |-> NoOp, rows |-> Untouched]
           /\ OnlyJob(p, s)
BY DEF TypeOK, OnlyJob, Freed, FreeJobs

\* The pass that dropped edit r still has its read to do.
Owed(r) ==
    \E p \in Passes, s \in Series :
        /\ job[p][s].st \in {"asking", "told"}
        /\ r \in EditsOf(job[p][s].key, job[p][s].op)

LEMMA StillOwed ==
    ASSUME RefusalsReported, reloads' = reloads, reloads' = 0, refused' = refused,
           \A r \in reported : r \in reported',
           NEW r, r \in refused' \ reported'
    PROVE  Owed(r)
BY DEF RefusalsReported, Owed

\* A step by which one job gets no read off its hands keeps all that is owed.
LEMMA JobOwes ==
    ASSUME TypeOK, RefusalsReported, NEW p \in Passes, NEW s \in Series,
           reloads' = reloads, refused' = refused, reported' = reported,
           OnlyJob(p, s),
           \/ job[p][s].st \notin {"asking", "told"}
           \/ /\ job'[p][s].st \in {"asking", "told"}
              /\ job'[p][s].key = job[p][s].key
              /\ job'[p][s].op = job[p][s].op
    PROVE  RefusalsReported'
<1> SUFFICES ASSUME reloads' = 0, NEW r \in refused' \ reported' PROVE Owed(r)'
  BY DEF RefusalsReported, Owed
<1>1. Owed(r)
  BY StillOwed
<1>2. PICK q \in Passes, t \in Series :
          /\ job[q][t].st \in {"asking", "told"}
          /\ r \in EditsOf(job[q][t].key, job[q][t].op)
  BY <1>1 DEF Owed
<1>3. /\ job'[q][t].st \in {"asking", "told"}
      /\ job'[q][t].key = job[q][t].key
      /\ job'[q][t].op = job[q][t].op
  BY <1>2 DEF OnlyJob
<1>4. r \in EditsOf(job'[q][t].key, job'[q][t].op)
  BY <1>2, <1>3
<1> QED
  BY <1>3, <1>4 DEF Owed

\* Nothing but a dead letter adds to what is owed, and it owes a read.
LEMMA DeadLetterOwes ==
    ASSUME TypeOK, RefusalsReported, NEW p \in Passes, NEW s \in Series,
           job[p][s].st \notin {"asking", "told"},
           reloads' = reloads, DeadLetter(p, s)
    PROVE  RefusalsReported'
<1>0. /\ refused' = refused \union EditsOf(job[p][s].key, job[p][s].op)
      /\ reported' = reported
      /\ job' = Moved(p, s, "asking")
  BY DEF DeadLetter
<1>1. /\ job'[p][s].st = "asking"
      /\ job'[p][s].key = job[p][s].key
      /\ job'[p][s].op = job[p][s].op
      /\ OnlyJob(p, s)
  <2>1. /\ job'[p][s] = [st |-> "asking", key |-> job[p][s].key, op |-> job[p][s].op,
                         rows |-> job[p][s].rows]
        /\ OnlyJob(p, s)
    BY <1>0, MovedJob
  <2> QED
    BY <2>1
<1> SUFFICES ASSUME reloads' = 0, NEW r \in refused' \ reported' PROVE Owed(r)'
  BY DEF RefusalsReported, Owed
<1>2. CASE r \in EditsOf(job[p][s].key, job[p][s].op)
  <2>1. r \in EditsOf(job'[p][s].key, job'[p][s].op)
    BY <1>1, <1>2
  <2> QED
    BY <1>1, <2>1 DEF Owed
<1>3. CASE r \in refused \ reported
  <2>1. PICK q \in Passes, t \in Series :
            /\ job[q][t].st \in {"asking", "told"}
            /\ r \in EditsOf(job[q][t].key, job[q][t].op)
    BY <1>3 DEF RefusalsReported
  <2>2. job'[q][t] = job[q][t]
    BY <1>1, <2>1 DEF OnlyJob
  <2> QED
    BY <2>1, <2>2 DEF Owed
<1> QED
  BY <1>0, <1>2, <1>3

\* Whatever comes of the read, its end reports.
LEMMA ReportPays ==
    ASSUME TypeOK, RefusalsReported, NEW p \in Passes, NEW s \in Series,
           reloads' = reloads, refused' = refused, Report(p, s), job' = Freed(p, s)
    PROVE  RefusalsReported'
<1>0. /\ reported' = reported \union EditsOf(job[p][s].key, job[p][s].op)
      /\ OnlyJob(p, s)
  BY FreedJob DEF Report
<1> SUFFICES ASSUME reloads' = 0, NEW r \in refused' \ reported' PROVE Owed(r)'
  BY DEF RefusalsReported, Owed
<1>1. PICK q \in Passes, t \in Series :
          /\ job[q][t].st \in {"asking", "told"}
          /\ r \in EditsOf(job[q][t].key, job[q][t].op)
  BY <1>0 DEF RefusalsReported
<1>2. job'[q][t] = job[q][t]
  BY <1>0, <1>1 DEF OnlyJob
<1> QED
  BY <1>1, <1>2 DEF Owed

LEMMA PassOwes ==
    ASSUME TypeOK, RefusalsReported, NEW p \in Passes, PassStep(p)
    PROVE  RefusalsReported'
<1>1. CASE StartPass(p) \/ NextPhase(p) \/ EndPass(p)
  BY <1>1 DEF StartPass, NextPhase, EndPass, RefusalsReported, historyVars, spent
<1>2. ASSUME NEW k \in Keys, StartOp(p, k) PROVE RefusalsReported'
  <2>0. Home(k) \in Series
    BY HomeIsSeries
  <2>1. job[p][Home(k)].st = "free"
    BY <1>2, <2>0 DEF StartOp, Busy
  <2>2. /\ job' = [job EXCEPT ![p][Home(k)] =
                  [st |-> "sent", key |-> k, op |-> todo[p][k], rows |-> Untouched]]
        /\ reloads' = reloads /\ refused' = refused /\ reported' = reported
    BY <1>2 DEF StartOp, historyVars, spent
  <2>3. OnlyJob(p, Home(k))
    BY <2>0, <2>2, OneJob
  <2> QED
    BY <2>0, <2>1, <2>2, <2>3, JobOwes
<1>3. ASSUME NEW s \in Series, Lands(p, s) \/ Completes(p, s) PROVE RefusalsReported'
  <2>1. /\ job[p][s].st \notin {"asking", "told"}
        /\ \E st : job' = Moved(p, s, st)
        /\ reloads' = reloads /\ refused' = refused /\ reported' = reported
    BY <1>3 DEF Lands, Completes, historyVars, spent
  <2>2. OnlyJob(p, s)
    BY <2>1, MovedJob
  <2> QED
    BY <2>1, <2>2, JobOwes
<1>4. ASSUME NEW s \in Series, Acked(p, s) PROVE RefusalsReported'
  <2>1. /\ job[p][s].st \notin {"asking", "told"}
        /\ reloads' = reloads /\ refused' = refused /\ reported' = reported
        /\ \/ job' = [job EXCEPT ![p][s] = [st |-> "asking", key |-> job[p][s].key,
                                           op |-> NoOp, rows |-> Untouched]]
           \/ job' = Freed(p, s)
    BY <1>4 DEF Acked, historyVars, spent
  <2>2. OnlyJob(p, s)
    BY <2>1, OneJob, FreedJob
  <2> QED
    BY <2>1, <2>2, JobOwes
<1>5. ASSUME NEW s \in Series, Refused(p, s) PROVE RefusalsReported'
  BY <1>5, DeadLetterOwes DEF Refused, spent
<1>6. ASSUME NEW s \in Series, Failed(p, s) PROVE RefusalsReported'
  <2>1. /\ job[p][s].st \notin {"asking", "told"}
        /\ reloads' = reloads
        /\ \/ DeadLetter(p, s)
           \/ job' = Freed(p, s) /\ UNCHANGED <<outbox, refused, reported>>
    BY <1>6 DEF Failed, spent
  <2>2. CASE DeadLetter(p, s)
    BY <2>1, <2>2, DeadLetterOwes
  <2>3. CASE job' = Freed(p, s) /\ UNCHANGED <<outbox, refused, reported>>
    <3>1. OnlyJob(p, s)
      BY <2>3, FreedJob
    <3> QED
      BY <2>1, <2>3, <3>1, JobOwes
  <2> QED
    BY <2>1, <2>2, <2>3
<1>7. ASSUME NEW s \in Series, Told(p, s) PROVE RefusalsReported'
  <2>1. /\ job' = [job EXCEPT ![p][s] =
                  [st |-> "told", key |-> job[p][s].key, op |-> job[p][s].op,
                   rows |-> server]]
        /\ reloads' = reloads /\ refused' = refused /\ reported' = reported
    BY <1>7 DEF Told, TypeOK, historyVars, spent
  <2>2. /\ job'[p][s] = [st |-> "told", key |-> job[p][s].key, op |-> job[p][s].op,
                         rows |-> server]
        /\ OnlyJob(p, s)
    BY <2>1, OneJob
  <2> QED
    BY <2>1, <2>2, JobOwes
<1>8. ASSUME NEW s \in Series, NotTold(p, s) \/ CacheRows(p, s)
      PROVE  RefusalsReported'
  BY <1>8, ReportPays DEF NotTold, CacheRows, spent
<1> QED
  BY <1>1, <1>2, <1>3, <1>4, <1>5, <1>6, <1>7, <1>8 DEF PassStep

\* Until the page is reloaded, no edit is dropped in silence: the pass that
\* dropped it is reading its series back, or has raised the sync error -
\* however many passes run and whether or not the read succeeds.
THEOREM DropsAreReported == Spec => []RefusalsReported
<1> DEFINE Inv == TypeOK /\ RefusalsReported
<1>1. Init => Inv
  BY InitTypes DEF Init, RefusalsReported
<1>2. Inv /\ [Next]_vars => Inv'
  <2> SUFFICES ASSUME TypeOK, RefusalsReported, [Next]_vars PROVE RefusalsReported'
    BY TypeStep
  <2>1. ASSUME UNCHANGED <<job, refused, reported, reloads>> PROVE RefusalsReported'
    BY <2>1 DEF RefusalsReported
  <2>2. CASE UNCHANGED vars
    BY <2>1, <2>2 DEF vars, spent
  <2>3. CASE RestoreTold \/ RestoreCommits
    BY <2>1, <2>3 DEF RestoreTold, RestoreCommits, passVars, historyVars, spent
  <2>4. ASSUME NEW s \in Series, PageAsks(s) \/ PageTold(s) \/ PageCaches(s)
        PROVE  RefusalsReported'
    BY <2>1, <2>4 DEF PageAsks, PageTold, PageCaches, passVars, historyVars, spent
  <2>5. ASSUME NEW k, NEW op, NEW F, Optimistic(k, op, F) PROVE RefusalsReported'
    BY <2>1, <2>5 DEF Optimistic, passVars, spent
  <2>6. CASE Reload
    BY <2>6 DEF Reload, TypeOK, RefusalsReported
  <2> QED
    BY <2>2, <2>3, <2>4, <2>5, <2>6, PassOwes DEF Next, EnqueueVolume, EnqueueBulk
<1>3. Inv => RefusalsReported
  OBVIOUS
<1> QED
  BY <1>1, <1>2, <1>3, PTL DEF Spec

-----------------------------------------------------------------------------
(* One pass at a time, and no interference *)

\* One pass, no page reads, no restores, and the user leaves alone what a pass
\* has in hand and what waits under an overlapping key.  Lift any one of these
\* and TLC finds some of the four properties below violated by the code (see
\* the runs about racing edits, mixed edits and stale pages, and the README).
Undisturbed ==
    /\ \E p : Passes = {p}
    /\ MaxPageReads = 0
    /\ MaxRestores = 0
    /\ ~RacingEdits
    /\ ~MixedEdits

Overlap(j, k) == Covers(j) \intersect Covers(k) # {}
Trying(p, s) == job[p][s].st \in {"sent", "half", "landed"}
ReadingBack(p, s) == job[p][s].st \in {"asking", "told"}

NobodyElseReads == restore.st = "free" /\ \A s \in Series : page[s].st = "free"

HandsFree ==
    \A p \in Passes : phase[p] = "off" =>
        /\ todo[p] = NoOps
        /\ \A s \in Series : job[p][s].st = "free"

\* What a pass has in hand is still what waits under the key, and a worker has
\* taken it out of the snapshot.
TodoWaits(p) == \A k \in Keys : todo[p][k] # NoOp => outbox[k] = todo[p][k]
JobTaken(p, s) == job[p][s].st # "free" =>
    Home(job[p][s].key) = s /\ todo[p][job[p][s].key] = NoOp
JobWaits(p, s) == Trying(p, s) =>
    job[p][s].op # NoOp /\ outbox[job[p][s].key] = job[p][s].op
HandWaits ==
    \A p \in Passes :
        TodoWaits(p) /\ \A s \in Series : JobTaken(p, s) /\ JobWaits(p, s)

\* What the worker of a series knows of the server is still true.
HalfKnows(p, s) == job[p][s].st = "half" =>
    \A v \in Covers(job[p][s].key), f \in Fields :
        First(job[p][s].key, job[p][s].op)[f] # Undef
            => server[v][f] = job[p][s].op[f]
LandedKnows(p, s) == job[p][s].st = "landed" =>
    \A v \in Covers(job[p][s].key), f \in Fields :
        job[p][s].op[f] # Undef => server[v][f] = job[p][s].op[f]
ToldKnows(p, s) == job[p][s].st = "told" =>
    \A v \in Volumes : SeriesOf[v] = s => job[p][s].rows[v] = server[v]
OnServer ==
    \A p \in Passes, s \in Series :
        HalfKnows(p, s) /\ LandedKnows(p, s) /\ ToldKnows(p, s)

\* At most one op writes a volume, and none one that is being read back.
KeysAlone ==
    \A j, k \in Keys : j # k /\ Overlap(j, k) => ~Waiting(j) \/ ~Waiting(k)
JobAlone(p, s) == ReadingBack(p, s) =>
    \A k \in Keys : k = job[p][s].key \/ Overlap(k, job[p][s].key) => ~Waiting(k)
Alone == KeysAlone /\ \A p \in Passes, s \in Series : JobAlone(p, s)

\* The screen shows exactly what waits, and is nowhere behind the server.
Shown ==
    \A k \in Keys, f \in Fields : outbox[k][f] # Undef =>
        \A v \in Covers(k) : local[v][f] = outbox[k][f]
Ahead == \A v \in Volumes, f \in Fields : local[v][f] >= server[v][f]

\* An op carries what the screen shows of column f of volume v.
Carried(v, f) == \E k \in Keys : v \in Covers(k) /\ outbox[k][f] = local[v][f]

\* What the screen shows is on the server, or on its way, or refused.
Accounted ==
    \A v \in Volumes, f \in Fields :
        \/ server[v][f] = local[v][f]
        \/ Carried(v, f)
        \/ <<v, f, local[v][f]>> \in refused

\* The screen shows the user's latest choice, unless it was refused.
Latest ==
    \A v \in Volumes, f \in Fields :
        local[v][f] = intent[v][f] \/ <<v, f, intent[v][f]>> \in refused

\* Where the screen differs from the server, an op is on its way or a read.
ReadFor(v) ==
    \E p \in Passes, s \in Series : ReadingBack(p, s) /\ v \in Covers(job[p][s].key)
Mirrors ==
    \A v \in Volumes, f \in Fields :
        \/ local[v][f] = server[v][f]
        \/ Carried(v, f)
        \/ SeriesOf[v] \in missed
        \/ ReadFor(v)

Hands == HandsFree /\ HandWaits /\ OnServer /\ Alone
Looks == Shown /\ Ahead /\ Accounted /\ Latest /\ Mirrors
SafeInv == TypeOK /\ NobodyElseReads /\ Hands /\ Looks

LEMMA Numbers ==
    ASSUME TypeOK
    PROVE  /\ edits \in Nat
           /\ local \in [Volumes -> [Fields -> 0..edits]]
           /\ server \in [Volumes -> [Fields -> 0..edits]]
           /\ intent \in [Volumes -> [Fields -> 0..edits]]
           /\ outbox \in [Keys -> [Fields -> Undef..edits]]
           /\ todo \in [Passes -> [Keys -> Op(edits)]]
BY DEF TypeOK, Shelf, Row, Op

LEMMA JobNumbers ==
    ASSUME TypeOK, NEW p \in Passes, NEW s \in Series
    PROVE  /\ job[p][s].key \in Keys
           /\ job[p][s].op \in [Fields -> Undef..edits]
           /\ Covers(job[p][s].key) \subseteq Volumes
BY JobTypes, CoveredVolumes DEF Job, Op

LEMMA CoversHome ==
    ASSUME NEW k \in Keys, NEW v \in Covers(k)
    PROVE  v \in Volumes /\ SeriesOf[v] = Home(k)
BY DEF Covers, Home, Keys

LEMMA SharedVolume ==
    ASSUME NEW j \in Keys, NEW k \in Keys, NEW v, v \in Covers(j), v \in Covers(k)
    PROVE  Overlap(j, k) /\ Overlap(k, j)
BY DEF Overlap

\* An op with a column in it waits, and guards its volumes.
LEMMA CarriedGuards ==
    ASSUME TypeOK, NEW v \in Volumes, NEW f \in Fields, Carried(v, f)
    PROVE  Guarded(v)
<1>1. PICK k \in Keys : v \in Covers(k) /\ outbox[k][f] = local[v][f]
  BY DEF Carried
<1>2. local[v][f] # Undef
  BY Numbers DEF Undef
<1>3. outbox[k] # NoOp
  BY <1>1, <1>2 DEF NoOp
<1> QED
  BY <1>1, <1>3 DEF Guarded, Waiting

\* What a worker is trying to have applied is what the screen shows.
LEMMA HandShown ==
    ASSUME TypeOK, HandWaits, Shown, NEW p \in Passes, NEW s \in Series, Trying(p, s)
    PROVE  /\ Waiting(job[p][s].key)
           /\ \A v \in Covers(job[p][s].key), f \in Fields :
                  job[p][s].op[f] # Undef => local[v][f] = job[p][s].op[f]
BY JobNumbers DEF HandWaits, JobWaits, Shown, Waiting

\* The workers of one pass have different keys.
LEMMA OtherKeys ==
    ASSUME HandWaits, NEW p \in Passes, NEW s \in Series, NEW t \in Series, s # t,
           job[p][s].st # "free", job[p][t].st # "free"
    PROVE  job[p][s].key # job[p][t].key
BY DEF HandWaits, JobTaken

\* Steps that leave the shelf, the outbox and the server alone.
LEMMA SameLooks ==
    ASSUME Shown, Ahead, Accounted, Latest,
           UNCHANGED <<local, outbox, server, intent, refused>>
    PROVE  (Shown /\ Ahead /\ Accounted /\ Latest)'
BY DEF Shown, Ahead, Accounted, Latest, Carried

LEMMA SameMirrors ==
    ASSUME Mirrors, UNCHANGED <<local, outbox, server>>, missed \subseteq missed',
           \A v \in Volumes : ReadFor(v) => ReadFor(v)' \/ SeriesOf[v] \in missed'
    PROVE  Mirrors'
BY DEF Mirrors, Carried

\* A read under way stays under way when another job changes.
LEMMA OthersRead ==
    ASSUME Undisturbed, NEW p \in Passes, NEW s \in Series, OnlyJob(p, s), ~ReadingBack(p, s)
    PROVE  \A v \in Volumes : ReadFor(v) => ReadFor(v)'
BY DEF OnlyJob, ReadFor, ReadingBack

LEMMA ThisPass ==
    ASSUME Undisturbed, NEW p \in Passes, NEW q \in Passes
    PROVE  p = q
BY DEF Undisturbed

-----------------------------------------------------------------------------
(* An edit *)

\* What the environment grants an edit: nothing in hand, nothing overlapping.
LEMMA EditAlone ==
    ASSUME Undisturbed, NEW k \in Keys, MayEdit(k)
    PROVE  /\ \A p \in Passes : todo[p][k] = NoOp
           /\ \A p \in Passes, s \in Series :
                  job[p][s].st = "free"
                  \/ ~(job[p][s].key = k \/ Overlap(job[p][s].key, k))
                  \/ job[p][s].key \notin Keys
           /\ \A j \in Keys \ {k} : Overlap(j, k) => ~Waiting(j)
BY DEF Undisturbed, MayEdit, InHand, Overlap

\* The effect of an edit on one volume: the columns F are the new edit, the
\* others what they were; the op carries both kinds.
EditOf(k, op, F) ==
    /\ op \in [Fields -> Undef..(edits + 1)]
    /\ \A v \in Covers(k), f \in Fields :
           IF f \in F THEN op[f] = edits + 1 ELSE op[f] = Undef \/ op[f] = local[v][f]

LEMMA EditEffect ==
    ASSUME TypeOK, NEW k \in Keys, NEW op, NEW F, EditOf(k, op, F), Optimistic(k, op, F)
    PROVE  /\ \A v \in Volumes, f \in Fields :
                  /\ local'[v][f] =
                        IF v \in Covers(k) /\ f \in F THEN edits + 1 ELSE local[v][f]
                  /\ intent'[v][f] =
                        IF v \in Covers(k) /\ f \in F THEN edits + 1 ELSE intent[v][f]
           /\ \A j \in Keys, f \in Fields :
                  outbox'[j][f] = IF j = k /\ op[f] # Undef THEN op[f] ELSE outbox[j][f]
           /\ \A j \in Keys : j # k => outbox'[j] = outbox[j]
<1>0. edits \in Nat
  BY Numbers
<1>1. ASSUME NEW v \in Volumes, NEW f \in Fields
      PROVE  local'[v][f] =
                 IF v \in Covers(k) /\ f \in F THEN edits + 1 ELSE local[v][f]
  <2>1. local'[v][f] = IF v \in Covers(k) /\ op[f] # Undef THEN op[f] ELSE local[v][f]
    BY DEF Optimistic, Applied, Merged
  <2>2. v \in Covers(k) => IF f \in F THEN op[f] = edits + 1
                                      ELSE op[f] = Undef \/ op[f] = local[v][f]
    BY DEF EditOf
  <2> QED
    BY <1>0, <2>1, <2>2 DEF Undef
<1>2. ASSUME NEW v \in Volumes, NEW f \in Fields
      PROVE  intent'[v][f] =
                 IF v \in Covers(k) /\ f \in F THEN edits + 1 ELSE intent[v][f]
  BY DEF Optimistic
<1>3. ASSUME NEW j \in Keys, NEW f \in Fields
      PROVE  outbox'[j][f] = IF j = k /\ op[f] # Undef THEN op[f] ELSE outbox[j][f]
  BY Numbers DEF Optimistic, Merged
<1>4. \A j \in Keys : j # k => outbox'[j] = outbox[j]
  BY Numbers DEF Optimistic
<1> QED
  BY <1>1, <1>2, <1>3, <1>4

LEMMA EditHands ==
    ASSUME Undisturbed, TypeOK, Hands, NEW k \in Keys, NEW op, NEW F,
           MayEdit(k), EditOf(k, op, F), Optimistic(k, op, F)
    PROVE  Hands'
<1>1. UNCHANGED <<phase, todo, job, server>>
  BY DEF Optimistic, passVars
<1>2. \A j \in Keys : j # k => outbox'[j] = outbox[j]
  BY EditEffect
<1>3. HandsFree'
  BY <1>1 DEF Hands, HandsFree
<1>4. HandWaits'
  <2>1. ASSUME NEW p \in Passes PROVE TodoWaits(p)'
    BY <1>1, <1>2, EditAlone DEF Hands, HandWaits, TodoWaits
  <2>2. ASSUME NEW p \in Passes, NEW s \in Series PROVE JobTaken(p, s)'
    BY <1>1 DEF Hands, HandWaits, JobTaken
  <2>3. ASSUME NEW p \in Passes, NEW s \in Series PROVE JobWaits(p, s)'
    <3>1. job[p][s].st # "free" => job[p][s].key \in Keys /\ job[p][s].key # k
      BY EditAlone, JobNumbers
    <3> QED
      BY <1>1, <1>2, <3>1 DEF Hands, HandWaits, JobWaits, Trying
  <2> QED
    BY <2>1, <2>2, <2>3 DEF HandWaits
<1>5. OnServer'
  BY <1>1 DEF Hands, OnServer, HalfKnows, LandedKnows, ToldKnows, First
<1>6. \A j \in Keys : j # k => (Waiting(j)' <=> Waiting(j))
  BY <1>2 DEF Waiting
<1>7. KeysAlone'
  <2>1. \A j \in Keys \ {k} : Overlap(j, k) => ~Waiting(j)
    BY EditAlone
  <2>2. \A i, j \in Keys : Overlap(i, j) => Overlap(j, i)
    BY DEF Overlap
  <2> SUFFICES ASSUME NEW i \in Keys, NEW j \in Keys, i # j, Overlap(i, j)
               PROVE  ~Waiting(i)' \/ ~Waiting(j)'
    BY DEF KeysAlone, Overlap, Covers
  <2>3. CASE i = k
    BY <1>6, <2>1, <2>2, <2>3
  <2>4. CASE j = k
    BY <1>6, <2>1, <2>4
  <2>5. CASE i # k /\ j # k
    BY <1>6, <2>5 DEF Hands, Alone, KeysAlone
  <2> QED
    BY <2>3, <2>4, <2>5
<1>8. ASSUME NEW p \in Passes, NEW s \in Series PROVE JobAlone(p, s)'
  <2> SUFFICES ASSUME ReadingBack(p, s), NEW j \in Keys,
                      j = job[p][s].key \/ Overlap(j, job[p][s].key)
               PROVE  ~Waiting(j)'
    BY <1>1 DEF JobAlone, ReadingBack, Overlap, Covers
  <2>1. j # k
    <3>1. job[p][s].st # "free" /\ job[p][s].key \in Keys
      BY JobNumbers DEF ReadingBack
    <3>2. ~(job[p][s].key = k \/ Overlap(job[p][s].key, k))
      BY <3>1, EditAlone
    <3> QED
      BY <3>2 DEF Overlap
  <2> QED
    BY <1>6, <2>1 DEF Hands, Alone, JobAlone
<1> QED
  BY <1>3, <1>4, <1>5, <1>7, <1>8 DEF Hands, Alone

LEMMA EditLooks ==
    ASSUME Undisturbed, TypeOK, Looks, NEW k \in Keys, NEW op, NEW F,
           MayEdit(k), EditOf(k, op, F), Optimistic(k, op, F)
    PROVE  Looks'
<1>1. UNCHANGED <<job, server, refused, missed>>
  BY DEF Optimistic, passVars
<1>2. /\ edits \in Nat
      /\ local \in [Volumes -> [Fields -> 0..edits]]
      /\ server \in [Volumes -> [Fields -> 0..edits]]
      /\ outbox \in [Keys -> [Fields -> Undef..edits]]
  BY Numbers
<1>3. \A v \in Volumes, f \in Fields :
          /\ local'[v][f] =
                IF v \in Covers(k) /\ f \in F THEN edits + 1 ELSE local[v][f]
          /\ intent'[v][f] =
                IF v \in Covers(k) /\ f \in F THEN edits + 1 ELSE intent[v][f]
  BY EditEffect
<1>4. \A j \in Keys, f \in Fields :
          outbox'[j][f] = IF j = k /\ op[f] # Undef THEN op[f] ELSE outbox[j][f]
  BY EditEffect
<1>5. \A v \in Covers(k), f \in Fields :
          IF f \in F THEN op[f] = edits + 1 ELSE op[f] = Undef \/ op[f] = local[v][f]
  BY DEF EditOf
<1>6. ASSUME NEW v \in Volumes, NEW f \in Fields, v \in Covers(k), f \in F
      PROVE  Carried(v, f)'
  <2>1. outbox'[k][f] = local'[v][f]
    BY <1>2, <1>3, <1>4, <1>5, <1>6 DEF Undef
  <2> QED
    BY <1>6, <2>1 DEF Carried, Covers
<1>7. ASSUME NEW v \in Volumes, NEW f \in Fields, ~(v \in Covers(k) /\ f \in F),
             Carried(v, f)
      PROVE  Carried(v, f)'
  <2>1. PICK j \in Keys : v \in Covers(j) /\ outbox[j][f] = local[v][f]
    BY <1>7 DEF Carried
  <2>2. outbox'[j][f] = local'[v][f]
    BY <1>3, <1>4, <1>5, <1>7, <2>1 DEF Undef
  <2> QED
    BY <2>1, <2>2 DEF Carried, Covers
<1>8. Shown'
  <2> SUFFICES ASSUME NEW j \in Keys, NEW f \in Fields, outbox'[j][f] # Undef,
                      NEW v \in Covers(j)
               PROVE  local'[v][f] = outbox'[j][f]
    BY DEF Shown, Covers
  <2>1. v \in Volumes
    BY CoveredVolumes
  <2>2. outbox[j][f] # Undef => local[v][f] = outbox[j][f]
    BY DEF Looks, Shown
  <2>3. CASE j = k
    <3>1. CASE f \in F
      BY <1>2, <1>3, <1>4, <1>5, <2>1, <2>3, <3>1 DEF Undef
    <3>2. CASE f \notin F
      BY <1>3, <1>4, <1>5, <2>1, <2>2, <2>3, <3>2
    <3> QED
      BY <3>1, <3>2
  <2>4. CASE j # k
    <3>1. outbox'[j][f] = outbox[j][f] /\ local[v][f] = outbox[j][f]
      BY <1>4, <2>2, <2>4
    <3>2. ~(v \in Covers(k))
      <4>1. Waiting(j)
        BY <3>1 DEF Waiting, NoOp
      <4> QED
        BY <2>4, <4>1, EditAlone, SharedVolume
    <3> QED
      BY <1>3, <2>1, <3>1, <3>2
  <2> QED
    BY <2>3, <2>4
<1>9. Ahead'
  <2> SUFFICES ASSUME NEW v \in Volumes, NEW f \in Fields
               PROVE  local'[v][f] >= server'[v][f]
    BY DEF Ahead
  <2>1. local[v][f] >= server[v][f] /\ local[v][f] \in 0..edits /\ server[v][f] \in 0..edits
    BY <1>2 DEF Looks, Ahead
  <2> QED
    BY <1>1, <1>2, <1>3, <2>1
<1>10. Accounted'
  <2> SUFFICES ASSUME NEW v \in Volumes, NEW f \in Fields
               PROVE  \/ server'[v][f] = local'[v][f]
                      \/ Carried(v, f)'
                      \/ <<v, f, local'[v][f]>> \in refused'
    BY DEF Accounted
  <2> QED
    BY <1>1, <1>3, <1>6, <1>7 DEF Looks, Accounted
<1>11. Latest'
  BY <1>1, <1>3 DEF Looks, Latest
<1>12. Mirrors'
  <2> SUFFICES ASSUME NEW v \in Volumes, NEW f \in Fields
               PROVE  \/ local'[v][f] = server'[v][f]
                      \/ Carried(v, f)'
                      \/ SeriesOf[v] \in missed'
                      \/ ReadFor(v)'
    BY DEF Mirrors
  <2>1. ReadFor(v) => ReadFor(v)'
    BY <1>1 DEF ReadFor, ReadingBack, Covers
  <2> QED
    BY <1>1, <1>3, <1>6, <1>7, <2>1 DEF Looks, Mirrors
<1> QED
  BY <1>8, <1>9, <1>10, <1>11, <1>12 DEF Looks

LEMMA EnqueueSafe ==
    ASSUME Undisturbed, SafeInv
    PROVE  /\ \A v \in Volumes, F \in SUBSET Fields : EnqueueVolume(v, F) => SafeInv'
           /\ \A s \in Series, F \in SUBSET BulkFields : EnqueueBulk(s, F) => SafeInv'
<1>0. /\ edits \in Nat
      /\ local \in [Volumes -> [Fields -> 0..edits]]
  BY Numbers DEF SafeInv
<1>1. ASSUME NEW k \in Keys, NEW op, NEW F, MayEdit(k), EditOf(k, op, F),
             Optimistic(k, op, F), TypeOK'
      PROVE  SafeInv'
  <2>1. NobodyElseReads'
    BY <1>1 DEF SafeInv, NobodyElseReads, Optimistic
  <2> QED
    BY <1>1, <2>1, EditHands, EditLooks DEF SafeInv
<1>2. ASSUME NEW v \in Volumes, NEW F \in SUBSET Fields, EnqueueVolume(v, F)
      PROVE  SafeInv'
  <2>1. Covers(v) = {v} /\ v \in Keys
    BY ShelfAssumption DEF Covers, Keys
  <2>2. EditOf(v, Payload(v, F), F)
    BY <1>0, <2>1 DEF EditOf, Payload, Undef
  <2> QED
    BY <1>1, <1>2, <2>1, <2>2, EnqueueTypes DEF EnqueueVolume, SafeInv
<1>3. ASSUME NEW s \in Series, NEW F \in SUBSET BulkFields, EnqueueBulk(s, F)
      PROVE  SafeInv'
  <2> DEFINE op == [f \in Fields |-> IF f \in F THEN edits + 1 ELSE Undef]
  <2>1. s \in Keys
    BY DEF Keys
  <2>2. EditOf(s, op, F)
    BY <1>0 DEF EditOf, Undef
  <2>3. MayEdit(s) /\ Optimistic(s, op, F)
    BY <1>3 DEF EnqueueBulk
  <2> QED
    BY <1>1, <1>3, <2>1, <2>2, <2>3, EnqueueTypes DEF SafeInv
<1> QED
  BY <1>2, <1>3

-----------------------------------------------------------------------------
(* The steps of a pass *)

\* The snapshot holds only what waits; whatever a pass lets go of waits on.
LEMMA PhaseSafe ==
    ASSUME Undisturbed, SafeInv, TypeOK', NEW p \in Passes,
           StartPass(p) \/ NextPhase(p) \/ EndPass(p)
    PROVE  SafeInv'
<1>1. UNCHANGED <<local, outbox, server, job, page, restore, intent, refused, missed>>
  BY DEF StartPass, NextPhase, EndPass, historyVars
<1>2. /\ phase \in [Passes -> {"off", "volumes", "bulk"}]
      /\ todo \in [Passes -> [Keys -> Op(edits)]]
      /\ \A q \in Passes : q = p
  BY ThisPass DEF SafeInv, TypeOK
<1>3. \A s \in Series : job[p][s].st = "free"
  <2>1. CASE StartPass(p)
    BY <2>1 DEF StartPass, SafeInv, Hands, HandsFree
  <2>2. CASE NextPhase(p) \/ EndPass(p)
    BY <2>2 DEF NextPhase, EndPass, Busy
  <2> QED
    BY <2>1, <2>2
<1>4. \A k \in Keys : todo'[p][k] # NoOp => outbox[k] = todo'[p][k]
  <2>1. CASE StartPass(p)
    BY <1>2, <2>1 DEF StartPass, Snapshot
  <2>2. CASE NextPhase(p)
    BY <1>2, <2>2 DEF NextPhase, Snapshot
  <2>3. CASE EndPass(p)
    BY <1>2, <2>3 DEF EndPass, NoOps
  <2> QED
    BY <2>1, <2>2, <2>3
<1>5. HandsFree'
  <2>1. CASE StartPass(p) \/ NextPhase(p)
    BY <1>2, <2>1 DEF StartPass, NextPhase, HandsFree
  <2>2. CASE EndPass(p)
    BY <1>1, <1>2, <1>3, <2>2 DEF EndPass, HandsFree
  <2> QED
    BY <2>1, <2>2
<1>6. HandWaits'
  BY <1>1, <1>2, <1>3, <1>4 DEF HandWaits, TodoWaits, JobTaken, JobWaits, Trying
<1>7. OnServer'
  BY <1>1, <1>2, <1>3 DEF OnServer, HalfKnows, LandedKnows, ToldKnows
<1>8. Alone'
  BY <1>1 DEF SafeInv, Hands, Alone, KeysAlone, JobAlone, Waiting, ReadingBack,
              Overlap, Covers
<1>9. Looks'
  <2>1. \A v \in Volumes : ReadFor(v) => ReadFor(v)'
    BY <1>1 DEF ReadFor, ReadingBack, Covers
  <2> QED
    BY <1>1, <2>1, SameLooks, SameMirrors DEF SafeInv, Looks
<1> QED
  BY <1>1, <1>5, <1>6, <1>7, <1>8, <1>9 DEF SafeInv, Hands, NobodyElseReads

\* A job that changes with nothing it knows, tries or reads back disturbs
\* nobody else's.
LEMMA OtherJobs ==
    ASSUME Undisturbed, Hands, NEW p \in Passes, NEW s \in Series, OnlyJob(p, s),
           NEW q \in Passes, NEW t \in Series, t # s
    PROVE  /\ job'[q][t] = job[q][t]
           /\ server' = server => HalfKnows(q, t)' /\ LandedKnows(q, t)' /\ ToldKnows(q, t)'
           /\ outbox' = outbox => JobWaits(q, t)' /\ JobAlone(q, t)'
           /\ todo' = todo => JobTaken(q, t)'
<1>1. job'[q][t] = job[q][t]
  BY DEF OnlyJob
<1>2. server' = server => HalfKnows(q, t)' /\ LandedKnows(q, t)' /\ ToldKnows(q, t)'
  BY <1>1 DEF Hands, OnServer, HalfKnows, LandedKnows, ToldKnows, First, Covers
<1>3. outbox' = outbox => JobWaits(q, t)' /\ JobAlone(q, t)'
  BY <1>1 DEF Hands, HandWaits, Alone, JobWaits, JobAlone, Trying, ReadingBack,
              Waiting, Overlap, Covers
<1>4. todo' = todo => JobTaken(q, t)'
  BY <1>1 DEF Hands, HandWaits, JobTaken
<1> QED
  BY <1>1, <1>2, <1>3, <1>4

LEMMA SameKeysAlone ==
    ASSUME KeysAlone, outbox' = outbox PROVE KeysAlone'
BY DEF KeysAlone, Waiting, Overlap, Covers

LEMMA StartOpSafe ==
    ASSUME Undisturbed, SafeInv, TypeOK', NEW p \in Passes, NEW k \in Keys, StartOp(p, k)
    PROVE  SafeInv'
<1>0. Home(k) \in Series
  BY HomeIsSeries
<1> SUFFICES ASSUME NEW s \in Series, s = Home(k) PROVE SafeInv'
  BY <1>0
<1>1. /\ UNCHANGED <<local, outbox, server, phase, page, restore, intent, refused, missed>>
      /\ phase[p] # "off"
      /\ todo[p][k] # NoOp
      /\ job[p][s].st = "free"
      /\ todo' = [todo EXCEPT ![p][k] = NoOp]
      /\ job' = [job EXCEPT ![p][s] =
                    [st |-> "sent", key |-> k, op |-> todo[p][k], rows |-> Untouched]]
  BY DEF StartOp, Busy, historyVars
<1>2. /\ job'[p][s] = [st |-> "sent", key |-> k, op |-> todo[p][k], rows |-> Untouched]
      /\ OnlyJob(p, s)
  <2> DEFINE j == [st |-> "sent", key |-> k, op |-> todo[p][k], rows |-> Untouched]
  <2>1. job' = [job EXCEPT ![p][s] = j] /\ TypeOK
    BY <1>1 DEF SafeInv
  <2> HIDE DEF j
  <2>2. job'[p][s] = j /\ OnlyJob(p, s)
    BY <2>1 DEF TypeOK, OnlyJob
  <2> QED
    BY <2>2 DEF j
<1>3. /\ \A q \in Passes : q = p
      /\ todo'[p][k] = NoOp
      /\ \A j \in Keys : j # k => todo'[p][j] = todo[p][j]
  BY <1>1, ThisPass DEF SafeInv, TypeOK
<1>4. outbox[k] = todo[p][k]
  BY <1>1 DEF SafeInv, Hands, HandWaits, TodoWaits
<1>5. HandsFree'
  BY <1>1, <1>3 DEF HandsFree
<1>6. HandWaits'
  <2>1. TodoWaits(p)'
    BY <1>1, <1>3 DEF SafeInv, Hands, HandWaits, TodoWaits
  <2>2. ASSUME NEW t \in Series PROVE JobTaken(p, t)' /\ JobWaits(p, t)'
    <3>1. CASE t = s
      BY <1>1, <1>2, <1>3, <1>4, <3>1 DEF JobTaken, JobWaits
    <3>2. CASE t # s
      <4>1. JobWaits(p, t)' /\ job'[p][t] = job[p][t]
        BY <1>1, <1>2, <3>2, OtherJobs DEF SafeInv
      <4>2. JobTaken(p, t)'
        BY <1>3, <4>1, JobNumbers DEF JobTaken, SafeInv, Hands, HandWaits
      <4> QED
        BY <4>1, <4>2
    <3> QED
      BY <3>1, <3>2
  <2> QED
    BY <1>3, <2>1, <2>2 DEF HandWaits
<1>7. ASSUME NEW t \in Series
      PROVE  /\ HalfKnows(p, t)' /\ LandedKnows(p, t)' /\ ToldKnows(p, t)'
             /\ JobAlone(p, t)'
  <2>1. CASE t = s
    BY <1>2, <2>1 DEF HalfKnows, LandedKnows, ToldKnows, JobAlone, ReadingBack
  <2>2. CASE t # s
    BY <1>1, <1>2, <2>2, OtherJobs DEF SafeInv
  <2> QED
    BY <2>1, <2>2
<1>8. OnServer' /\ Alone'
  BY <1>1, <1>3, <1>7, SameKeysAlone DEF SafeInv, Hands, OnServer, Alone
<1>9. Looks'
  <2>1. \A v \in Volumes : ReadFor(v) => ReadFor(v)'
    BY <1>1, <1>2, OthersRead DEF ReadingBack
  <2> QED
    BY <1>1, <2>1, SameLooks, SameMirrors DEF SafeInv, Looks
<1> QED
  BY <1>1, <1>5, <1>6, <1>8, <1>9 DEF SafeInv, Hands, NobodyElseReads

\* A statement of a request: of the op's columns those in part, and the worker
\* then knows what is on the server.
Statement(p, s, part) ==
    LET k == job[p][s].key
        op == job[p][s].op
    IN
    /\ Trying(p, s)
    /\ \A f \in Fields : part[f] # Undef => part[f] = op[f]
    /\ server' = Applied(server, k, part)
    /\ OnlyJob(p, s)
    /\ job'[p][s].key = k /\ job'[p][s].op = op
    /\ job'[p][s].st \in {"half", "landed"}
    /\ HalfKnows(p, s)' /\ LandedKnows(p, s)'

\* Every statement of a pass writes what the screen shows, where it writes at
\* all.
LEMMA StatementWrites ==
    ASSUME Undisturbed, SafeInv, NEW p \in Passes, NEW s \in Series, NEW part,
           Statement(p, s, part)
    PROVE  /\ \A v \in Volumes, f \in Fields :
                  server'[v][f] = server[v][f] \/ server'[v][f] = local[v][f]
           /\ \A v \in Volumes : SeriesOf[v] # s => server'[v] = server[v]
<1>0. TypeOK /\ HandWaits /\ Shown /\ Trying(p, s)
  BY DEF SafeInv, Hands, Looks, Statement
<1>1. /\ job[p][s].key \in Keys
      /\ Home(job[p][s].key) = s
  BY <1>0, JobNumbers DEF HandWaits, JobTaken, Trying
<1>2. ASSUME NEW v \in Volumes, NEW f \in Fields
      PROVE  server'[v][f] = server[v][f] \/ server'[v][f] = local[v][f]
  <2>1. CASE v \in Covers(job[p][s].key) /\ part[f] # Undef
    <3>1. server'[v][f] = job[p][s].op[f]
      BY <2>1 DEF Statement, Applied, Merged
    <3>2. local[v][f] = job[p][s].op[f]
      BY <1>0, <2>1, HandShown DEF Statement
    <3> QED
      BY <3>1, <3>2
  <2>2. CASE ~(v \in Covers(job[p][s].key) /\ part[f] # Undef)
    BY <2>2 DEF Statement, Applied, Merged
  <2> QED
    BY <2>1, <2>2
<1>3. ASSUME NEW v \in Volumes, SeriesOf[v] # s PROVE server'[v] = server[v]
  <2>1. v \notin Covers(job[p][s].key)
    BY <1>1, <1>3, CoversHome
  <2> QED
    BY <2>1 DEF Statement, Applied
<1> QED
  BY <1>2, <1>3

LEMMA StatementSafe ==
    ASSUME Undisturbed, SafeInv, TypeOK', NEW p \in Passes, NEW s \in Series, NEW part,
           Statement(p, s, part),
           UNCHANGED <<local, outbox, phase, todo, page, restore, intent, refused, missed>>
    PROVE  SafeInv'
<1>0. TypeOK /\ HandsFree /\ HandWaits /\ OnServer /\ Alone /\ Looks
  BY DEF SafeInv, Hands
<1>1. /\ OnlyJob(p, s)
      /\ job'[p][s].key = job[p][s].key
      /\ job'[p][s].op = job[p][s].op
      /\ job'[p][s].st \in {"half", "landed"}
      /\ HalfKnows(p, s)' /\ LandedKnows(p, s)'
      /\ Trying(p, s)
      /\ \A q \in Passes : q = p
  BY ThisPass DEF Statement
<1>2. /\ \A v \in Volumes, f \in Fields :
             server'[v][f] = server[v][f] \/ server'[v][f] = local[v][f]
      /\ \A v \in Volumes : SeriesOf[v] # s => server'[v] = server[v]
  BY StatementWrites
<1>3. HandsFree'
  <2>1. phase[p] # "off"
    BY <1>0, <1>1 DEF HandsFree, Trying
  <2> QED
    BY <1>1, <2>1 DEF HandsFree
<1>4. ASSUME NEW t \in Series PROVE JobTaken(p, t)' /\ JobWaits(p, t)' /\ JobAlone(p, t)'
  <2>1. CASE t = s
    BY <1>0, <1>1, <2>1 DEF HandWaits, JobTaken, JobWaits, JobAlone, Trying, ReadingBack
  <2>2. CASE t # s
    BY <1>1, <2>2, OtherJobs DEF SafeInv
  <2> QED
    BY <2>1, <2>2
<1>5. HandWaits'
  BY <1>0, <1>1, <1>4 DEF HandWaits, TodoWaits
<1>6. ASSUME NEW t \in Series
      PROVE  HalfKnows(p, t)' /\ LandedKnows(p, t)' /\ ToldKnows(p, t)'
  <2>1. CASE t = s
    BY <1>1, <2>1 DEF ToldKnows
  <2>2. CASE t # s
    <3>1. job'[p][t] = job[p][t]
      BY <1>1, <2>2, OtherJobs DEF SafeInv
    <3>2. \A v \in Volumes : SeriesOf[v] = t => server'[v] = server[v]
      BY <1>2, <2>2
    <3>3. job[p][t].st # "free" =>
              \A v \in Covers(job[p][t].key) : v \in Volumes /\ SeriesOf[v] = t
      BY <1>0, JobNumbers, CoversHome DEF HandWaits, JobTaken
    <3>4. HalfKnows(p, t)' /\ LandedKnows(p, t)'
      BY <1>0, <3>1, <3>2, <3>3 DEF OnServer, HalfKnows, LandedKnows, First, Covers
    <3>5. ToldKnows(p, t)'
      BY <1>0, <3>1, <3>2 DEF OnServer, ToldKnows
    <3> QED
      BY <3>4, <3>5
  <2> QED
    BY <2>1, <2>2
<1>7. OnServer' /\ Alone'
  BY <1>0, <1>1, <1>4, <1>6, SameKeysAlone DEF OnServer, Alone
<1>8. Shown' /\ Latest'
  BY <1>0 DEF Looks, Shown, Latest, Covers
<1>9. Ahead'
  BY <1>0, <1>2, Numbers DEF Looks, Ahead
<1>10. Accounted'
  BY <1>0, <1>2 DEF Looks, Accounted, Carried, Covers
<1>11. Mirrors'
  <2>1. \A v \in Volumes : ReadFor(v) => ReadFor(v)'
    BY <1>1, OthersRead DEF ReadingBack, Trying
  <2> QED
    BY <1>0, <1>2, <2>1 DEF Looks, Mirrors, Carried, Covers
<1> QED
  BY <1>3, <1>5, <1>7, <1>8, <1>9, <1>10, <1>11 DEF SafeInv, Hands, Looks, NobodyElseReads

\* Both halves of a request are such statements.
LEMMA RequestStatements ==
    ASSUME SafeInv, NEW p \in Passes, NEW s \in Series
    PROVE  /\ Lands(p, s) => Statement(p, s, First(job[p][s].key, job[p][s].op))
           /\ Completes(p, s) => Statement(p, s, Rest(job[p][s].key, job[p][s].op))
<1> SUFFICES ASSUME NEW k, k = job[p][s].key, NEW op, op = job[p][s].op
             PROVE  /\ Lands(p, s) => Statement(p, s, First(k, op))
                    /\ Completes(p, s) => Statement(p, s, Rest(k, op))
  OBVIOUS
<1>0. /\ TypeOK
      /\ k \in Keys
      /\ op \in [Fields -> Undef..edits]
      /\ server \in [Volumes -> [Fields -> 0..edits]]
      /\ Covers(k) \subseteq Volumes
      /\ HalfKnows(p, s)
  BY JobNumbers, Numbers DEF SafeInv, Hands, OnServer
<1>1. ASSUME Lands(p, s) PROVE Statement(p, s, First(k, op))
  <2>1. /\ Trying(p, s)
        /\ server' = Applied(server, k, First(k, op))
        /\ job' = Moved(p, s, IF Rest(k, op) = NoOp THEN "landed" ELSE "half")
    BY <1>1 DEF Lands, Trying
  <2>2. /\ job'[p][s] = [st |-> IF Rest(k, op) = NoOp THEN "landed" ELSE "half",
                         key |-> k, op |-> op, rows |-> job[p][s].rows]
        /\ OnlyJob(p, s)
    BY <1>0, <2>1, MovedJob
  <2>3. \A v \in Covers(k), f \in Fields :
            First(k, op)[f] # Undef => server'[v][f] = op[f]
    BY <1>0, <2>1 DEF Applied, Merged, First
  <2>4. Rest(k, op) = NoOp => \A f \in Fields : op[f] # Undef => First(k, op)[f] # Undef
    <3> SUFFICES ASSUME Rest(k, op) = NoOp, NEW f \in Fields, op[f] # Undef
                 PROVE  First(k, op)[f] # Undef
      OBVIOUS
    <3>1. Rest(k, op)[f] = Undef
      BY DEF NoOp
    <3> QED
      BY <3>1 DEF Rest, First
  <2>5. HalfKnows(p, s)' /\ LandedKnows(p, s)'
    BY <2>2, <2>3, <2>4 DEF HalfKnows, LandedKnows, First, Covers
  <2>6. \A f \in Fields : First(k, op)[f] # Undef => First(k, op)[f] = op[f]
    BY DEF First
  <2>7. job'[p][s].key = k /\ job'[p][s].op = op /\ job'[p][s].st \in {"half", "landed"}
    BY <2>2
  <2> QED
    BY <2>1, <2>2, <2>5, <2>6, <2>7 DEF Statement
<1>2. ASSUME Completes(p, s) PROVE Statement(p, s, Rest(k, op))
  <2>1. /\ Trying(p, s)
        /\ job[p][s].st = "half"
        /\ server' = Applied(server, k, Rest(k, op))
        /\ job' = Moved(p, s, "landed")
    BY <1>2 DEF Completes, Trying
  <2>2. /\ job'[p][s] = [st |-> "landed", key |-> k, op |-> op, rows |-> job[p][s].rows]
        /\ OnlyJob(p, s)
    BY <1>0, <2>1, MovedJob
  <2>3. \A v \in Covers(k), f \in Fields :
            First(k, op)[f] # Undef => server[v][f] = op[f]
    BY <1>0, <2>1 DEF HalfKnows
  <2>4. \A v \in Covers(k), f \in Fields : op[f] # Undef => server'[v][f] = op[f]
    <3> SUFFICES ASSUME NEW v \in Covers(k), NEW f \in Fields, op[f] # Undef
                 PROVE  server'[v][f] = op[f]
      OBVIOUS
    <3>1. server'[v][f] = IF Rest(k, op)[f] # Undef THEN Rest(k, op)[f] ELSE server[v][f]
      BY <1>0, <2>1 DEF Applied, Merged
    <3>2. Rest(k, op)[f] = op[f] \/ (First(k, op)[f] = op[f] /\ Rest(k, op)[f] = Undef)
      BY DEF Rest, First
    <3> QED
      BY <2>3, <3>1, <3>2
  <2>5. HalfKnows(p, s)' /\ LandedKnows(p, s)'
    BY <2>2, <2>4 DEF HalfKnows, LandedKnows, Covers
  <2>6. \A f \in Fields : Rest(k, op)[f] # Undef => Rest(k, op)[f] = op[f]
    BY DEF Rest
  <2>7. job'[p][s].key = k /\ job'[p][s].op = op /\ job'[p][s].st \in {"half", "landed"}
    BY <2>2
  <2> QED
    BY <2>1, <2>2, <2>5, <2>6, <2>7 DEF Statement
<1> QED
  BY <1>1, <1>2

LEMMA RequestSafe ==
    ASSUME Undisturbed, SafeInv, TypeOK', NEW p \in Passes, NEW s \in Series,
           Lands(p, s) \/ Completes(p, s)
    PROVE  SafeInv'
<1>1. UNCHANGED <<local, outbox, phase, todo, page, restore, intent, refused, missed>>
  BY DEF Lands, Completes, historyVars
<1> QED
  BY <1>1, RequestStatements, StatementSafe

\* An op leaves the outbox once the server has what it carries, or once what it
\* carries is refused and its series is to be read back.
OpEnds(p, s) ==
    LET k == job[p][s].key
        op == job[p][s].op
    IN
    /\ Trying(p, s)
    /\ outbox' = [outbox EXCEPT ![k] = NoOp]
    /\ OnlyJob(p, s)
    /\ job'[p][s].st = "free" \/ (job'[p][s].st = "asking" /\ job'[p][s].key = k)
    /\ refused \subseteq refused'
    /\ \A v \in Covers(k), f \in Fields : op[f] # Undef =>
           \/ server[v][f] = op[f]
           \/ <<v, f, op[f]>> \in refused' /\ job'[p][s].st = "asking"

LEMMA OpEndsHands ==
    ASSUME Undisturbed, SafeInv, NEW p \in Passes, NEW s \in Series, OpEnds(p, s),
           UNCHANGED <<server, phase, todo>>
    PROVE  Hands'
<1> SUFFICES ASSUME NEW k, k = job[p][s].key PROVE Hands'
  OBVIOUS
<1>0. /\ TypeOK /\ HandsFree /\ HandWaits /\ Alone
      /\ k \in Keys
      /\ outbox \in [Keys -> [Fields -> Undef..edits]]
  BY JobNumbers, Numbers DEF SafeInv, Hands
<1>1. /\ Trying(p, s) /\ OnlyJob(p, s)
      /\ job'[p][s].st = "free" \/ (job'[p][s].st = "asking" /\ job'[p][s].key = k)
      /\ \A q \in Passes : q = p
      /\ outbox' = [outbox EXCEPT ![k] = NoOp]
  BY ThisPass DEF OpEnds
<1>2. /\ \A j \in Keys : j # k => outbox'[j] = outbox[j]
      /\ \A j \in Keys : Waiting(j)' => Waiting(j) /\ j # k
  BY <1>0, <1>1 DEF Waiting
<1>3. Waiting(k) /\ Home(k) = s /\ todo[p][k] = NoOp /\ job[p][s].st # "free"
  <2>1. job[p][s].st # "free"
    BY <1>1 DEF Trying
  <2>2. outbox[k] # NoOp
    BY <1>0, <1>1 DEF HandWaits, JobWaits
  <2> QED
    BY <1>0, <2>1, <2>2 DEF HandWaits, JobTaken, Waiting
<1>4. HandsFree'
  <2>1. phase[p] # "off"
    BY <1>0, <1>3 DEF HandsFree
  <2> QED
    BY <1>1, <2>1 DEF HandsFree
<1>5. TodoWaits(p)'
  BY <1>0, <1>2, <1>3 DEF HandWaits, TodoWaits
<1>6. ASSUME NEW t \in Series PROVE JobTaken(p, t)' /\ JobWaits(p, t)'
  <2>1. CASE t = s
    BY <1>1, <1>3, <2>1 DEF JobTaken, JobWaits, Trying
  <2>2. CASE t # s
    <3>1. job'[p][t] = job[p][t] /\ JobTaken(p, t)'
      BY <1>1, <2>2, OtherJobs DEF SafeInv
    <3>2. job[p][t].st # "free" => job[p][t].key \in Keys /\ job[p][t].key # k
      BY <1>0, <1>3, <2>2, JobNumbers, OtherKeys
    <3>3. JobWaits(p, t)'
      BY <1>0, <1>2, <3>1, <3>2 DEF HandWaits, JobWaits, Trying
    <3> QED
      BY <3>1, <3>3
  <2> QED
    BY <2>1, <2>2
<1>7. ASSUME NEW t \in Series
      PROVE  HalfKnows(p, t)' /\ LandedKnows(p, t)' /\ ToldKnows(p, t)'
  <2>1. CASE t = s
    BY <1>1, <2>1 DEF HalfKnows, LandedKnows, ToldKnows
  <2>2. CASE t # s
    BY <1>1, <2>2, OtherJobs DEF SafeInv
  <2> QED
    BY <2>1, <2>2
<1>8. KeysAlone'
  BY <1>0, <1>2 DEF Alone, KeysAlone, Overlap, Covers
<1>9. ASSUME NEW t \in Series PROVE JobAlone(p, t)'
  <2>1. CASE t = s
    <3>1. \A j \in Keys : j = k \/ Overlap(j, k) => ~Waiting(j)'
      BY <1>0, <1>2, <1>3 DEF Alone, KeysAlone
    <3>2. ReadingBack(p, t)' => job'[p][t].key = k
      BY <1>1, <2>1 DEF ReadingBack
    <3> QED
      BY <3>1, <3>2 DEF JobAlone, Overlap, Covers
  <2>2. CASE t # s
    <3>1. job'[p][t] = job[p][t]
      BY <1>1, <2>2, OtherJobs DEF SafeInv
    <3> QED
      BY <1>0, <1>2, <3>1 DEF Alone, JobAlone, ReadingBack, Overlap, Covers
  <2> QED
    BY <2>1, <2>2
<1>10. HandWaits' /\ OnServer' /\ Alone'
  BY <1>1, <1>5, <1>6, <1>7, <1>8, <1>9 DEF HandWaits, OnServer, Alone
<1> QED
  BY <1>4, <1>10 DEF Hands

LEMMA OpEndsLooks ==
    ASSUME Undisturbed, SafeInv, NEW p \in Passes, NEW s \in Series, OpEnds(p, s),
           UNCHANGED <<local, server, intent, missed>>
    PROVE  Looks'
<1> SUFFICES ASSUME NEW k, k = job[p][s].key, NEW op, op = job[p][s].op PROVE Looks'
  OBVIOUS
<1>0. /\ TypeOK /\ HandWaits /\ Looks
      /\ k \in Keys
      /\ local \in [Volumes -> [Fields -> 0..edits]]
      /\ outbox \in [Keys -> [Fields -> Undef..edits]]
  BY JobNumbers, Numbers DEF SafeInv, Hands
<1>1. /\ Trying(p, s) /\ OnlyJob(p, s)
      /\ job'[p][s].st = "asking" => job'[p][s].key = k
      /\ outbox' = [outbox EXCEPT ![k] = NoOp]
      /\ refused \subseteq refused'
      /\ \A v \in Covers(k), f \in Fields : op[f] # Undef =>
             \/ server[v][f] = op[f]
             \/ <<v, f, op[f]>> \in refused' /\ job'[p][s].st = "asking"
  BY DEF OpEnds
<1>2. /\ \A j \in Keys : j # k => outbox'[j] = outbox[j]
      /\ \A f \in Fields : outbox'[k][f] = Undef
      /\ outbox[k] = op
  BY <1>0, <1>1 DEF NoOp, HandWaits, JobWaits
<1>3. ASSUME NEW v \in Volumes, NEW f \in Fields, Carried(v, f)
      PROVE  \/ Carried(v, f)'
             \/ server[v][f] = local[v][f]
             \/ /\ <<v, f, local[v][f]>> \in refused'
                /\ ReadFor(v)'
  <2>1. PICK j \in Keys : v \in Covers(j) /\ outbox[j][f] = local[v][f]
    BY <1>3 DEF Carried
  <2>2. CASE j # k
    <3>1. outbox'[j][f] = local[v][f]
      BY <1>2, <2>1, <2>2
    <3> QED
      BY <2>1, <3>1 DEF Carried, Covers
  <2>3. CASE j = k
    <3>1. op[f] = local[v][f] /\ op[f] # Undef /\ v \in Covers(k)
      BY <1>0, <1>2, <2>1, <2>3 DEF Undef
    <3>2. CASE server[v][f] = op[f]
      BY <3>1, <3>2
    <3>3. CASE <<v, f, op[f]>> \in refused' /\ job'[p][s].st = "asking"
      <4>1. job'[p][s].st = "asking" /\ v \in Covers(job'[p][s].key)
        BY <1>1, <3>1, <3>3
      <4>2. ReadFor(v)'
        BY <4>1 DEF ReadFor, ReadingBack, Covers
      <4> QED
        BY <3>1, <3>3, <4>2
    <3> QED
      BY <1>1, <3>1, <3>2, <3>3
  <2> QED
    BY <2>2, <2>3
<1>4. Shown'
  <2> SUFFICES ASSUME NEW j \in Keys, NEW f \in Fields, outbox'[j][f] # Undef,
                      NEW v \in Covers(j)
               PROVE  local[v][f] = outbox'[j][f]
    BY DEF Shown, Covers
  <2>1. j # k /\ outbox'[j][f] = outbox[j][f]
    BY <1>2
  <2> QED
    BY <1>0, <2>1 DEF Looks, Shown
<1>5. Ahead'
  BY <1>0 DEF Looks, Ahead
<1>6. Accounted'
  <2> SUFFICES ASSUME NEW v \in Volumes, NEW f \in Fields
               PROVE  \/ server[v][f] = local[v][f]
                      \/ Carried(v, f)'
                      \/ <<v, f, local[v][f]>> \in refused'
    BY DEF Accounted
  <2> QED
    BY <1>0, <1>1, <1>3 DEF Looks, Accounted
<1>7. Latest'
  BY <1>0, <1>1 DEF Looks, Latest
<1>8. Mirrors'
  <2> SUFFICES ASSUME NEW v \in Volumes, NEW f \in Fields
               PROVE  \/ local[v][f] = server[v][f]
                      \/ Carried(v, f)'
                      \/ SeriesOf[v] \in missed
                      \/ ReadFor(v)'
    BY DEF Mirrors
  <2>1. ReadFor(v) => ReadFor(v)'
    BY <1>1, OthersRead DEF ReadingBack, Trying
  <2> QED
    BY <1>0, <1>3, <2>1 DEF Looks, Mirrors
<1> QED
  BY <1>4, <1>5, <1>6, <1>7, <1>8 DEF Looks

LEMMA OpEndsSafe ==
    ASSUME Undisturbed, SafeInv, TypeOK', NEW p \in Passes, NEW s \in Series, OpEnds(p, s),
           UNCHANGED <<local, server, phase, todo, page, restore, intent, missed>>
    PROVE  SafeInv'
BY OpEndsHands, OpEndsLooks DEF SafeInv, NobodyElseReads

LEMMA AckedSafe ==
    ASSUME Undisturbed, SafeInv, TypeOK', NEW p \in Passes, NEW s \in Series, Acked(p, s)
    PROVE  SafeInv'
<1> SUFFICES ASSUME NEW k, k = job[p][s].key PROVE SafeInv'
  OBVIOUS
<1>0. TypeOK /\ LandedKnows(p, s)
  BY DEF SafeInv, Hands, OnServer
<1>1. /\ job[p][s].st = "landed"
      /\ outbox' = [outbox EXCEPT ![k] = NoOp]
      /\ job' = IF k \in Series
                THEN [job EXCEPT ![p][s] =
                         [st |-> "asking", key |-> k, op |-> NoOp, rows |-> Untouched]]
                ELSE Freed(p, s)
      /\ UNCHANGED <<local, server, phase, todo, page, restore, intent, refused, missed>>
  BY DEF Acked, historyVars
<1>2. /\ OnlyJob(p, s)
      /\ job'[p][s].st = "free" \/ (job'[p][s].st = "asking" /\ job'[p][s].key = k)
  <2>1. CASE k \in Series
    BY <1>0, <1>1, <2>1 DEF TypeOK, OnlyJob
  <2>2. CASE k \notin Series
    <3>1. job' = Freed(p, s)
      BY <1>1, <2>2
    <3>2. /\ job'[p][s] = [st |-> "free", key |-> s, op |-> NoOp, rows |-> Untouched]
          /\ OnlyJob(p, s)
      BY <1>0, <3>1, FreedJob
    <3> QED
      BY <3>2
  <2> QED
    BY <2>1, <2>2
<1>3. OpEnds(p, s)
  BY <1>0, <1>1, <1>2 DEF OpEnds, LandedKnows, Trying
<1> QED
  BY <1>1, <1>3, OpEndsSafe

LEMMA DeadLetterSafe ==
    ASSUME Undisturbed, SafeInv, TypeOK', NEW p \in Passes, NEW s \in Series,
           Trying(p, s), DeadLetter(p, s),
           UNCHANGED <<local, server, phase, todo, page, restore, intent, missed>>
    PROVE  SafeInv'
<1>0. TypeOK
  BY DEF SafeInv
<1>1. /\ outbox' = [outbox EXCEPT ![job[p][s].key] = NoOp]
      /\ refused' = refused \union EditsOf(job[p][s].key, job[p][s].op)
      /\ job' = Moved(p, s, "asking")
  BY DEF DeadLetter
<1>2. /\ job'[p][s] = [st |-> "asking", key |-> job[p][s].key, op |-> job[p][s].op,
                       rows |-> job[p][s].rows]
      /\ OnlyJob(p, s)
  BY <1>0, <1>1, MovedJob
<1>3. job'[p][s].st = "asking" /\ job'[p][s].key = job[p][s].key
  BY <1>2
<1>4. OpEnds(p, s)
  BY <1>1, <1>2, <1>3 DEF OpEnds, EditsOf
<1> QED
  BY <1>4, OpEndsSafe

\* A worker lets its op, or its read, go: a failure with tries left, a read
\* that fails.
LetsGo(p, s) ==
    /\ job[p][s].st # "free"
    /\ OnlyJob(p, s)
    /\ job'[p][s].st = "free"
    /\ missed \subseteq missed'
    /\ ReadingBack(p, s) => s \in missed'

LEMMA FreeJobHands ==
    ASSUME Undisturbed, TypeOK, Hands, NEW p \in Passes, NEW s \in Series, OnlyJob(p, s),
           job'[p][s].st = "free", UNCHANGED <<outbox, server, phase, todo>>
    PROVE  Hands'
<1>1. \A q \in Passes : q = p
  BY ThisPass
<1>2. HandsFree'
  BY <1>1 DEF Hands, HandsFree, OnlyJob
<1>3. ASSUME NEW t \in Series
      PROVE  /\ JobTaken(p, t)' /\ JobWaits(p, t)' /\ JobAlone(p, t)'
             /\ HalfKnows(p, t)' /\ LandedKnows(p, t)' /\ ToldKnows(p, t)'
  <2>1. CASE t = s
    BY <2>1 DEF JobTaken, JobWaits, JobAlone, HalfKnows, LandedKnows, ToldKnows, Trying,
                ReadingBack
  <2>2. CASE t # s
    BY <2>2, OtherJobs
  <2> QED
    BY <2>1, <2>2
<1>4. HandWaits' /\ OnServer' /\ Alone'
  BY <1>1, <1>3, SameKeysAlone DEF Hands, HandWaits, TodoWaits, OnServer, Alone
<1> QED
  BY <1>2, <1>4 DEF Hands

LEMMA LetsGoSafe ==
    ASSUME Undisturbed, SafeInv, TypeOK', NEW p \in Passes, NEW s \in Series, LetsGo(p, s),
           UNCHANGED <<local, outbox, server, phase, todo, page, restore, intent, refused>>
    PROVE  SafeInv'
<1>0. TypeOK /\ Hands /\ Looks /\ HandWaits
  BY DEF SafeInv, Hands
<1>1. Hands'
  BY <1>0, FreeJobHands DEF LetsGo
<1>2. ASSUME NEW v \in Volumes, ReadFor(v) PROVE ReadFor(v)' \/ SeriesOf[v] \in missed'
  <2>1. PICK q \in Passes, t \in Series : ReadingBack(q, t) /\ v \in Covers(job[q][t].key)
    BY <1>2 DEF ReadFor
  <2>2. q = p
    BY ThisPass
  <2>3. CASE t = s
    <3>1. job[p][s].key \in Keys /\ Home(job[p][s].key) = s
      BY <1>0, JobNumbers DEF HandWaits, JobTaken, LetsGo
    <3>2. SeriesOf[v] = s
      BY <2>1, <2>2, <2>3, <3>1, CoversHome
    <3> QED
      BY <2>1, <2>2, <2>3, <3>2 DEF LetsGo
  <2>4. CASE t # s
    BY <2>1, <2>4 DEF LetsGo, OnlyJob, ReadFor, ReadingBack, Covers
  <2> QED
    BY <2>3, <2>4
<1>3. Looks'
  BY <1>0, <1>2, SameLooks, SameMirrors DEF Looks, LetsGo
<1> QED
  BY <1>1, <1>3 DEF SafeInv, NobodyElseReads

LEMMA FailureSafe ==
    ASSUME Undisturbed, SafeInv, TypeOK', NEW p \in Passes, NEW s \in Series,
           Refused(p, s) \/ Failed(p, s)
    PROVE  SafeInv'
<1>0. TypeOK /\ Trying(p, s) /\ job[p][s].st # "free" /\ ~ReadingBack(p, s)
  BY DEF SafeInv, Refused, Failed, Trying, ReadingBack
<1>1. UNCHANGED <<local, server, phase, todo, page, restore, intent, missed>>
  BY DEF Refused, Failed
<1>2. \/ DeadLetter(p, s)
      \/ job' = Freed(p, s) /\ UNCHANGED <<outbox, refused, reported>>
  BY DEF Refused, Failed
<1>3. CASE DeadLetter(p, s)
  BY <1>0, <1>1, <1>3, DeadLetterSafe
<1>4. CASE job' = Freed(p, s) /\ UNCHANGED <<outbox, refused, reported>>
  <2>1. /\ job'[p][s] = [st |-> "free", key |-> s, op |-> NoOp, rows |-> Untouched]
        /\ OnlyJob(p, s)
    BY <1>0, <1>4, FreedJob
  <2>2. LetsGo(p, s)
    BY <1>0, <1>1, <2>1 DEF LetsGo
  <2> QED
    BY <1>1, <1>4, <2>2, LetsGoSafe
<1> QED
  BY <1>2, <1>3, <1>4

LEMMA NotToldSafe ==
    ASSUME Undisturbed, SafeInv, TypeOK', NEW p \in Passes, NEW s \in Series, NotTold(p, s)
    PROVE  SafeInv'
<1>0. TypeOK
  BY DEF SafeInv
<1>1. /\ job[p][s].st = "asking"
      /\ job' = Freed(p, s)
      /\ missed' = missed \union {s}
      /\ UNCHANGED <<local, outbox, server, phase, todo, page, restore, intent, refused>>
  BY DEF NotTold
<1>2. /\ job'[p][s] = [st |-> "free", key |-> s, op |-> NoOp, rows |-> Untouched]
      /\ OnlyJob(p, s)
  BY <1>0, <1>1, FreedJob
<1>3. LetsGo(p, s)
  BY <1>1, <1>2 DEF LetsGo
<1> QED
  BY <1>1, <1>3, LetsGoSafe

LEMMA ToldSafe ==
    ASSUME Undisturbed, SafeInv, TypeOK', NEW p \in Passes, NEW s \in Series, Told(p, s)
    PROVE  SafeInv'
<1>0. TypeOK /\ Hands /\ Looks
  BY DEF SafeInv
<1>1. /\ job[p][s].st = "asking"
      /\ UNCHANGED <<local, outbox, server, phase, todo, page, restore, intent, refused,
                     missed>>
      /\ job' = [job EXCEPT ![p][s] =
                    [st |-> "told", key |-> @.key, op |-> @.op, rows |-> server]]
      /\ \A q \in Passes : q = p
  BY ThisPass DEF Told, historyVars
<1>2. /\ job'[p][s].st = "told"
      /\ job'[p][s].key = job[p][s].key
      /\ job'[p][s].rows = server
      /\ OnlyJob(p, s)
  BY <1>0, <1>1 DEF TypeOK, OnlyJob
<1>3. HandsFree'
  <2>1. phase[p] # "off"
    BY <1>0, <1>1 DEF Hands, HandsFree
  <2> QED
    BY <1>1, <2>1 DEF HandsFree
<1>4. ASSUME NEW t \in Series
      PROVE  /\ JobTaken(p, t)' /\ JobWaits(p, t)' /\ JobAlone(p, t)'
             /\ HalfKnows(p, t)' /\ LandedKnows(p, t)' /\ ToldKnows(p, t)'
  <2>1. CASE t = s
    <3>1. JobTaken(p, s)'
      BY <1>0, <1>1, <1>2 DEF Hands, HandWaits, JobTaken
    <3>2. JobAlone(p, s)'
      BY <1>0, <1>1, <1>2 DEF Hands, Alone, JobAlone, ReadingBack, Waiting, Overlap, Covers
    <3>3. JobWaits(p, s)' /\ HalfKnows(p, s)' /\ LandedKnows(p, s)' /\ ToldKnows(p, s)'
      BY <1>1, <1>2 DEF JobWaits, HalfKnows, LandedKnows, ToldKnows, Trying
    <3> QED
      BY <2>1, <3>1, <3>2, <3>3
  <2>2. CASE t # s
    BY <1>0, <1>1, <1>2, <2>2, OtherJobs
  <2> QED
    BY <2>1, <2>2
<1>5. HandWaits' /\ OnServer' /\ Alone'
  BY <1>0, <1>1, <1>4, SameKeysAlone DEF Hands, HandWaits, TodoWaits, OnServer, Alone
<1>6. Looks'
  <2>1. ASSUME NEW v \in Volumes, ReadFor(v) PROVE ReadFor(v)'
    <3>1. PICK q \in Passes, t \in Series :
              ReadingBack(q, t) /\ v \in Covers(job[q][t].key)
      BY <2>1 DEF ReadFor
    <3>2. q = p
      BY <1>1
    <3>3. job'[q][t].key = job[q][t].key /\ ReadingBack(q, t)'
      BY <1>2, <3>1, <3>2 DEF OnlyJob, ReadingBack
    <3> QED
      BY <3>1, <3>3 DEF ReadFor, Covers
  <2> QED
    BY <1>0, <1>1, <2>1, SameLooks, SameMirrors DEF Looks
<1> QED
  BY <1>1, <1>3, <1>5, <1>6 DEF SafeInv, Hands, NobodyElseReads

\* The read is cached: every row nothing waits for is the server's again, and
\* the rows the job covers are such rows.
LEMMA CacheRowsSafe ==
    ASSUME Undisturbed, SafeInv, TypeOK', NEW p \in Passes, NEW s \in Series,
           CacheRows(p, s)
    PROVE  SafeInv'
<1>0. /\ TypeOK /\ Hands /\ Looks
      /\ HandWaits /\ Alone /\ ToldKnows(p, s)
      /\ local \in [Volumes -> [Fields -> 0..edits]]
      /\ server \in [Volumes -> [Fields -> 0..edits]]
      /\ edits \in Nat
  BY Numbers DEF SafeInv, Hands, OnServer
<1>1. /\ job[p][s].st = "told"
      /\ local' = Cached(s, job[p][s].rows)
      /\ job' = Freed(p, s)
      /\ UNCHANGED <<outbox, server, phase, todo, page, restore, intent, refused, missed>>
      /\ \A q \in Passes : q = p
  BY ThisPass DEF CacheRows
<1>2. /\ job'[p][s] = [st |-> "free", key |-> s, op |-> NoOp, rows |-> Untouched]
      /\ OnlyJob(p, s)
  BY <1>0, <1>1, FreedJob
<1>3. Hands'
  BY <1>0, <1>1, <1>2, FreeJobHands
<1>4. \A v \in Volumes :
          local'[v] = IF SeriesOf[v] = s /\ ~Guarded(v) THEN server[v] ELSE local[v]
  BY <1>0, <1>1 DEF Cached, ToldKnows
<1>5. ASSUME NEW v \in Volumes, NEW f \in Fields, Carried(v, f)
      PROVE  Carried(v, f)' /\ local'[v] = local[v]
  BY <1>0, <1>1, <1>4, <1>5, CarriedGuards DEF Carried, Covers
<1>6. Shown'
  <2> SUFFICES ASSUME NEW j \in Keys, NEW f \in Fields, outbox[j][f] # Undef,
                      NEW v \in Covers(j)
               PROVE  local'[v][f] = outbox[j][f]
    BY <1>1 DEF Shown, Covers
  <2>1. v \in Volumes /\ Guarded(v)
    BY CoveredVolumes DEF Guarded, Waiting, NoOp
  <2> QED
    BY <1>0, <1>4, <2>1 DEF Looks, Shown
<1>7. Ahead'
  <2> SUFFICES ASSUME NEW v \in Volumes, NEW f \in Fields
               PROVE  local'[v][f] >= server[v][f]
    BY <1>1 DEF Ahead
  <2>1. local[v][f] >= server[v][f] /\ server[v][f] \in Nat
    BY <1>0 DEF Looks, Ahead
  <2>2. CASE local'[v] = local[v]
    BY <2>1, <2>2
  <2>3. CASE local'[v] = server[v]
    BY <2>1, <2>3
  <2> QED
    BY <1>4, <2>2, <2>3
<1>8. Accounted'
  <2> SUFFICES ASSUME NEW v \in Volumes, NEW f \in Fields
               PROVE  \/ server[v][f] = local'[v][f]
                      \/ Carried(v, f)'
                      \/ <<v, f, local'[v][f]>> \in refused
    BY <1>1 DEF Accounted
  <2> QED
    BY <1>0, <1>4, <1>5 DEF Looks, Accounted
<1>9. Latest'
  <2> SUFFICES ASSUME NEW v \in Volumes, NEW f \in Fields
               PROVE  local'[v][f] = intent[v][f] \/ <<v, f, intent[v][f]>> \in refused
    BY <1>1 DEF Latest
  <2>1. local[v][f] = intent[v][f] \/ <<v, f, intent[v][f]>> \in refused
    BY <1>0 DEF Looks, Latest
  <2>2. local'[v][f] = local[v][f] \/ <<v, f, local[v][f]>> \in refused
    BY <1>0, <1>4, <1>5 DEF Looks, Accounted
  <2> QED
    BY <2>1, <2>2
<1>10. Mirrors'
  <2> SUFFICES ASSUME NEW v \in Volumes, NEW f \in Fields
               PROVE  \/ local'[v][f] = server[v][f]
                      \/ Carried(v, f)'
                      \/ SeriesOf[v] \in missed
                      \/ ReadFor(v)'
    BY <1>1 DEF Mirrors
  <2>1. CASE Carried(v, f)
    BY <1>5, <2>1
  <2>2. CASE local[v][f] = server[v][f] \/ SeriesOf[v] \in missed
    BY <1>4, <2>2
  <2>3. CASE ReadFor(v)
    <3>1. PICK t \in Series : ReadingBack(p, t) /\ v \in Covers(job[p][t].key)
      BY <1>1, <2>3 DEF ReadFor
    <3>2. CASE t # s
      BY <1>2, <3>1, <3>2 DEF OnlyJob, ReadFor, ReadingBack, Covers
    <3>3. CASE t = s
      <4>1. job[p][s].key \in Keys /\ Home(job[p][s].key) = s
        BY <1>0, <1>1, JobNumbers DEF HandWaits, JobTaken
      <4>2. SeriesOf[v] = s
        BY <3>1, <3>3, <4>1, CoversHome
      <4>3. ~Guarded(v)
        <5> SUFFICES ASSUME NEW k \in Keys, v \in Covers(k), Waiting(k) PROVE FALSE
          BY DEF Guarded
        <5>1. Overlap(k, job[p][s].key)
          BY <3>1, <3>3, <4>1, SharedVolume
        <5>2. JobAlone(p, s) /\ ReadingBack(p, s)
          BY <1>0, <3>1, <3>3 DEF Alone
        <5> QED
          BY <5>1, <5>2 DEF JobAlone
      <4> QED
        BY <1>4, <4>2, <4>3
    <3> QED
      BY <3>2, <3>3
  <2> QED
    BY <1>0, <2>1, <2>2, <2>3 DEF Looks, Mirrors
<1> QED
  BY <1>1, <1>3, <1>6, <1>7, <1>8, <1>9, <1>10 DEF SafeInv, Looks, NobodyElseReads

\* A reload leaves Dexie and forgets the pass: what it was reading back is
\* missed, what it had in hand still waits.
LEMMA ReloadSafe ==
    ASSUME Undisturbed, SafeInv, TypeOK', Reload PROVE SafeInv'
<1>0. TypeOK /\ HandWaits /\ Alone /\ Looks
  BY DEF SafeInv, Hands
<1>1. /\ UNCHANGED <<local, outbox, server, intent, refused>>
      /\ \A p \in Passes, s \in Series : job'[p][s].st = "free"
      /\ \A p \in Passes : todo'[p] = NoOps
      /\ missed \subseteq missed'
      /\ \A p \in Passes, s \in Series : ReadingBack(p, s) => s \in missed'
      /\ restore'.st = "free"
      /\ \A s \in Series : page'[s].st = "free"
  BY DEF Reload, FreeJobs, NoReading, ReadingBack
<1>2. HandsFree'
  BY <1>1 DEF HandsFree
<1>3. HandWaits'
  BY <1>1 DEF HandWaits, TodoWaits, JobTaken, JobWaits, Trying, NoOps
<1>4. OnServer'
  BY <1>1 DEF OnServer, HalfKnows, LandedKnows, ToldKnows
<1>5. Alone'
  BY <1>0, <1>1, SameKeysAlone DEF Alone, JobAlone, ReadingBack
<1>6. ASSUME NEW v \in Volumes, ReadFor(v) PROVE SeriesOf[v] \in missed'
  <2>1. PICK p \in Passes, s \in Series : ReadingBack(p, s) /\ v \in Covers(job[p][s].key)
    BY <1>6 DEF ReadFor
  <2>2. job[p][s].key \in Keys /\ Home(job[p][s].key) = s
    BY <1>0, <2>1, JobNumbers DEF HandWaits, JobTaken, ReadingBack
  <2>3. SeriesOf[v] = s
    BY <2>1, <2>2, CoversHome
  <2> QED
    BY <1>1, <2>1, <2>3
<1>7. Looks'
  BY <1>0, <1>1, <1>6, SameLooks, SameMirrors DEF Looks
<1> QED
  BY <1>1, <1>2, <1>3, <1>4, <1>5, <1>7 DEF SafeInv, Hands, NobodyElseReads

\* Nobody else reads or restores.
LEMMA NoOtherReads ==
    ASSUME Undisturbed, SafeInv
    PROVE  /\ ~RestoreTold /\ ~RestoreCommits
           /\ \A s \in Series : ~PageAsks(s) /\ ~PageTold(s) /\ ~PageCaches(s)
<1>1. /\ restores \in 0..0 /\ pageReads \in 0..0
      /\ MaxRestores = 0 /\ MaxPageReads = 0
      /\ restore.st = "free"
      /\ \A s \in Series : page[s].st = "free"
  BY DEF Undisturbed, SafeInv, TypeOK, NobodyElseReads
<1>2. ~RestoreTold /\ ~RestoreCommits
  BY <1>1 DEF RestoreTold, RestoreCommits
<1>3. \A s \in Series : ~PageAsks(s) /\ ~PageTold(s) /\ ~PageCaches(s)
  BY <1>1 DEF PageAsks, PageTold, PageCaches
<1> QED
  BY <1>2, <1>3

LEMMA PassSafe ==
    ASSUME Undisturbed, SafeInv, TypeOK', NEW p \in Passes, PassStep(p)
    PROVE  SafeInv'
BY PhaseSafe, StartOpSafe, RequestSafe, AckedSafe, FailureSafe, ToldSafe, NotToldSafe,
   CacheRowsSafe DEF PassStep

LEMMA StutterSafe ==
    ASSUME SafeInv, UNCHANGED vars PROVE SafeInv'
<1>0. /\ TypeOK /\ NobodyElseReads /\ HandsFree /\ HandWaits /\ OnServer /\ Alone
      /\ Looks
  BY DEF SafeInv, Hands
<1>1. UNCHANGED <<local, outbox, server, phase, todo, job, page, restore, intent, refused,
                  missed>>
  BY DEF vars
<1>2. TypeOK' /\ NobodyElseReads' /\ HandsFree'
  BY <1>0, <1>1, StutterTypes DEF NobodyElseReads, HandsFree
<1>3. HandWaits'
  BY <1>0, <1>1 DEF HandWaits, TodoWaits, JobTaken, JobWaits, Trying
<1>4. OnServer'
  BY <1>0, <1>1 DEF OnServer, HalfKnows, LandedKnows, ToldKnows, First, Covers
<1>5. Alone'
  BY <1>0, <1>1, SameKeysAlone DEF Alone, JobAlone, ReadingBack, Waiting, Overlap, Covers
<1>6. Looks'
  <2>1. \A v \in Volumes : ReadFor(v) => ReadFor(v)'
    BY <1>1 DEF ReadFor, ReadingBack, Covers
  <2> QED
    BY <1>0, <1>1, <2>1, SameLooks, SameMirrors DEF Looks
<1> QED
  BY <1>2, <1>3, <1>4, <1>5, <1>6 DEF SafeInv, Hands

LEMMA SafeStep ==
    ASSUME Undisturbed, SafeInv, [Next]_vars PROVE SafeInv'
<1>1. TypeOK'
  BY TypeStep DEF SafeInv
<1> QED
  BY <1>1, EnqueueSafe, PassSafe, ReloadSafe, NoOtherReads, StutterSafe DEF Next

LEMMA InitSafe ==
    ASSUME Init PROVE SafeInv
<1>0. /\ TypeOK
      /\ local = Untouched /\ server = Untouched /\ intent = Untouched
      /\ outbox = NoOps
      /\ phase = [p \in Passes |-> "off"]
      /\ todo = [p \in Passes |-> NoOps]
      /\ job = [p \in Passes |-> FreeJobs]
      /\ page = [s \in Series |-> NoReading] /\ restore = NoReading
  BY InitTypes DEF Init
<1>1. \A p \in Passes, s \in Series : job[p][s].st = "free"
  BY <1>0 DEF FreeJobs
<1>2. \A k \in Keys : outbox[k] = NoOp /\ \A f \in Fields : outbox[k][f] = Undef
  BY <1>0 DEF NoOps, NoOp
<1>3. NobodyElseReads
  BY <1>0 DEF NobodyElseReads, NoReading
<1>4. HandsFree /\ HandWaits
  BY <1>0, <1>1 DEF HandsFree, HandWaits, TodoWaits, JobTaken, JobWaits, Trying, NoOps
<1>5. OnServer /\ Alone
  BY <1>1, <1>2 DEF OnServer, HalfKnows, LandedKnows, ToldKnows, Alone, KeysAlone,
                    JobAlone, ReadingBack, Waiting
<1>6. Looks
  BY <1>0, <1>2 DEF Looks, Shown, Ahead, Accounted, Latest, Mirrors, Untouched
<1> QED
  BY <1>0, <1>3, <1>4, <1>5, <1>6 DEF SafeInv, Hands

LEMMA SafeInvariant ==
    ASSUME Undisturbed PROVE Spec => []SafeInv
BY InitSafe, SafeStep, PTL DEF Spec

-----------------------------------------------------------------------------
(* What follows from it *)

\* The latest choice of the user for every column is on the server, on its way
\* there, or the server would not have it: coalescing, retries, refusals,
\* half-applied requests, reads that fail and reloads lose nothing.
THEOREM NothingLost ==
    ASSUME Undisturbed PROVE Spec => []NoSilentLoss
<1>1. SafeInv => NoSilentLoss
  <2> SUFFICES ASSUME SafeInv, NEW v \in Volumes, NEW f \in Fields
               PROVE  \/ server[v][f] = intent[v][f]
                      \/ \E k \in Keys : v \in Covers(k) /\ outbox[k][f] = intent[v][f]
                      \/ <<v, f, intent[v][f]>> \in refused
    BY DEF NoSilentLoss
  <2>1. local[v][f] = intent[v][f] \/ <<v, f, intent[v][f]>> \in refused
    BY DEF SafeInv, Looks, Latest
  <2>2. \/ server[v][f] = local[v][f]
        \/ Carried(v, f)
        \/ <<v, f, local[v][f]>> \in refused
    BY DEF SafeInv, Looks, Accounted
  <2> QED
    BY <2>1, <2>2 DEF Carried
<1> QED
  BY <1>1, SafeInvariant, PTL

\* When nothing waits and no pass runs, every row on the screen is the server's,
\* but for the series whose read after a refusal failed or was cut off.
THEOREM QuietShelfMirrored ==
    ASSUME Undisturbed PROVE Spec => []QuietMeansMirrored
<1>1. SafeInv => QuietMeansMirrored
  <2> SUFFICES ASSUME SafeInv, Quiet, NEW v \in Volumes, SeriesOf[v] \notin missed
               PROVE  local[v] = server[v]
    BY DEF QuietMeansMirrored
  <2>1. /\ local \in [Volumes -> [Fields -> 0..edits]]
        /\ server \in [Volumes -> [Fields -> 0..edits]]
    BY Numbers DEF SafeInv
  <2>2. ~ReadFor(v)
    BY DEF ReadFor, ReadingBack, Quiet, SafeInv, Hands, HandsFree
  <2>3. ASSUME NEW f \in Fields PROVE ~Carried(v, f)
    <3>1. \A k \in Keys : outbox[k][f] = Undef
      BY DEF Quiet, NoOps, NoOp
    <3> QED
      BY <2>1, <3>1 DEF Carried, Undef
  <2>4. \A f \in Fields : local[v][f] = server[v][f]
    BY <2>2, <2>3 DEF SafeInv, Looks, Mirrors
  <2> QED
    BY <2>1, <2>4
<1> QED
  BY <1>1, SafeInvariant, PTL

\* Nothing older lands on top of something newer: whatever a pass has the server
\* apply, in one statement or two, is what the screen shows, and the screen is
\* nowhere behind the server.
THEOREM NothingOvertaken ==
    ASSUME Undisturbed PROVE Spec => NothingOlderLands
<1>1. SafeInv /\ [Next]_vars
         => [\A v \in Volumes, f \in Fields : server'[v][f] >= server[v][f]]_vars
  <2> SUFFICES ASSUME SafeInv, Next, NEW v \in Volumes, NEW f \in Fields
               PROVE  server'[v][f] >= server[v][f]
    OBVIOUS
  <2>1. server[v][f] \in Nat /\ local[v][f] \in Nat /\ local[v][f] >= server[v][f]
    BY Numbers DEF SafeInv, Looks, Ahead
  <2>2. ASSUME NEW p \in Passes, NEW s \in Series, Lands(p, s) \/ Completes(p, s)
        PROVE  server'[v][f] >= server[v][f]
    <3>1. server'[v][f] = server[v][f] \/ server'[v][f] = local[v][f]
      BY <2>2, RequestStatements, StatementWrites
    <3> QED
      BY <2>1, <3>1
  <2>3. CASE UNCHANGED server
    BY <2>1, <2>3
  <2>4. CASE \E p \in Passes : PassStep(p)
    <3>1. PICK p \in Passes : PassStep(p)
      BY <2>4
    <3>2. UNCHANGED server \/ \E s \in Series : Lands(p, s) \/ Completes(p, s)
      BY <3>1 DEF PassStep, StartPass, NextPhase, EndPass, StartOp, Acked, Refused, Failed,
                  Told, NotTold, CacheRows
    <3> QED
      BY <2>2, <2>3, <3>2
  <2>5. CASE ~ \E p \in Passes : PassStep(p)
    BY <2>3, <2>5, NoOtherReads DEF Next, EnqueueVolume, EnqueueBulk, Optimistic, Reload
  <2> QED
    BY <2>4, <2>5
<1> QED
  BY <1>1, SafeInvariant, PTL DEF Spec, NothingOlderLands

\* What an edit writes is nowhere older than what it writes over.
LEMMA EditsMoveOn ==
    ASSUME TypeOK, NEW v \in Volumes, NEW f \in Fields
    PROVE  /\ \A u \in Volumes, F \in SUBSET Fields :
                  EnqueueVolume(u, F) => local'[v][f] >= local[v][f]
           /\ \A s \in Series, F \in SUBSET BulkFields :
                  EnqueueBulk(s, F) => local'[v][f] >= local[v][f]
<1>0. /\ edits \in Nat
      /\ local \in [Volumes -> [Fields -> 0..edits]]
      /\ local[v][f] \in 0..edits
  BY Numbers
<1>1. ASSUME NEW k \in Keys, NEW op, NEW F, EditOf(k, op, F), Optimistic(k, op, F)
      PROVE  local'[v][f] >= local[v][f]
  <2>1. local'[v][f] = IF v \in Covers(k) /\ f \in F THEN edits + 1 ELSE local[v][f]
    BY <1>1, EditEffect
  <2> QED
    BY <1>0, <2>1
<1>2. ASSUME NEW u \in Volumes, NEW F \in SUBSET Fields, EnqueueVolume(u, F)
      PROVE  local'[v][f] >= local[v][f]
  <2>1. Covers(u) = {u} /\ u \in Keys
    BY ShelfAssumption DEF Covers, Keys
  <2>2. EditOf(u, Payload(u, F), F)
    BY <1>0, <2>1 DEF EditOf, Payload, Undef
  <2> QED
    BY <1>1, <1>2, <2>1, <2>2 DEF EnqueueVolume
<1>3. ASSUME NEW s \in Series, NEW F \in SUBSET BulkFields, EnqueueBulk(s, F)
      PROVE  local'[v][f] >= local[v][f]
  <2> DEFINE op == [g \in Fields |-> IF g \in F THEN edits + 1 ELSE Undef]
  <2>1. s \in Keys /\ EditOf(s, op, F) /\ Optimistic(s, op, F)
    BY <1>0, <1>3 DEF EditOf, Undef, Keys, EnqueueBulk
  <2> QED
    BY <1>1, <2>1
<1> QED
  BY <1>2, <1>3

\* No column on the screen goes back to an older choice of the user unless the
\* newer one was refused: only a read of the pass writes server rows, over rows
\* no op guards, and what such a row shows is on the server or was refused.
THEOREM EditsStay ==
    ASSUME Undisturbed PROVE Spec => NoEditReverts
<1>1. SafeInv /\ [Next]_vars
         => [\A v \in Volumes, f \in Fields :
                local'[v][f] < local[v][f]
                    => <<v, f, local[v][f]>> \in refused \/ abandoned' # abandoned]_vars
  <2> SUFFICES ASSUME SafeInv, Next, NEW v \in Volumes, NEW f \in Fields,
                      local'[v][f] < local[v][f]
               PROVE  <<v, f, local[v][f]>> \in refused
    OBVIOUS
  <2>0. TypeOK /\ local[v][f] \in Nat /\ local'[v][f] \in Nat
    <3>1. TypeOK /\ TypeOK'
      BY TypeStep DEF SafeInv
    <3> QED
      BY <3>1 DEF TypeOK, Shelf, Row
  <2>1. ASSUME NEW p \in Passes, NEW s \in Series, CacheRows(p, s)
        PROVE  <<v, f, local[v][f]>> \in refused
    <3>1. ToldKnows(p, s) /\ job[p][s].st = "told" /\ local' = Cached(s, job[p][s].rows)
      BY <2>1 DEF SafeInv, Hands, OnServer, CacheRows
    <3>2. local'[v] = IF SeriesOf[v] = s /\ ~Guarded(v) THEN server[v] ELSE local[v]
      BY <3>1 DEF Cached, ToldKnows
    <3>3. local'[v] # local[v]
      BY <2>0
    <3>4. ~Carried(v, f) /\ local'[v] = server[v]
      BY <2>0, <3>2, <3>3, CarriedGuards
    <3>5. server[v][f] # local[v][f]
      BY <2>0, <3>4
    <3> QED
      BY <3>4, <3>5 DEF SafeInv, Looks, Accounted
  <2>2. local' # local /\ ~(local'[v][f] >= local[v][f])
    BY <2>0
  <2>3. CASE \E p \in Passes : PassStep(p)
    <3>1. PICK p \in Passes : PassStep(p)
      BY <2>3
    <3>2. UNCHANGED local \/ \E s \in Series : CacheRows(p, s)
      BY <3>1 DEF PassStep, StartPass, NextPhase, EndPass, StartOp, Lands, Completes,
                  Acked, Refused, Failed, Told, NotTold
    <3> QED
      BY <2>1, <2>2, <3>2
  <2>4. CASE ~ \E p \in Passes : PassStep(p)
    <3>1. UNCHANGED local \/ local'[v][f] >= local[v][f]
      BY <2>0, <2>4, EditsMoveOn, NoOtherReads DEF Next, Reload
    <3> QED
      BY <2>2, <3>1
  <2> QED
    BY <2>3, <2>4
<1> QED
  BY <1>1, SafeInvariant, PTL DEF Spec, NoEditReverts

-----------------------------------------------------------------------------
(* Behind the gate of syncOutbox *)

\* A step of the composed system is a step of the outbox or leaves it alone.
LEMMA SyncStepIsOutboxStep ==
    ASSUME [SyncNext]_syncVars PROVE [Next]_vars
<1>1. CASE UNCHANGED syncVars
  BY <1>1 DEF syncVars
<1>2. ASSUME NEW p \in Passes, Edit(p) PROVE Next
  BY <1>2 DEF Edit, Next
<1>3. ASSUME NEW p \in Passes, RunnerKnocks(p) \/ UserForces(p) \/ Timers(p)
      PROVE  UNCHANGED vars
  BY <1>3 DEF RunnerKnocks, UserForces, Timers
<1>4. ASSUME NEW p \in Passes, Pass(p) PROVE Next \/ UNCHANGED vars
  <2>1. PassStep(p) \/ UNCHANGED vars
    BY <1>4 DEF Pass, Approach, Begin, FlushFails, FlushGoesOn, Finish, PassStep
  <2> QED
    BY <2>1 DEF Next
<1>5. PageReads \/ Restore \/ SyncReload => Next
  BY DEF PageReads, Restore, SyncReload, Next
<1>6. WorldTurns => UNCHANGED vars
  BY DEF WorldTurns
<1> QED
  BY <1>1, <1>2, <1>3, <1>4, <1>5, <1>6 DEF SyncNext

\* The outbox behind its gate - triggers, backoff, timers, the syncing flag and
\* the connectivity deciding when a pass starts - implements the outbox whose
\* passes start whenever they like: what is proved of VolumeOutbox holds of it.
THEOREM GatedOutboxIsOutbox == SyncSpec => Spec
<1>1. SyncInit => Init
  BY DEF SyncInit
<1>2. [SyncNext]_syncVars => [Next]_vars
  BY SyncStepIsOutboxStep
<1> QED
  BY <1>1, <1>2, PTL DEF SyncSpec, Spec

\* A pass of the outbox runs exactly while its invocation is past the gate.
PassesFollowGate == \A p \in Passes : phase[p] # "off" <=> pc[p] = "flushing"

\* What the steps of the gate do to the stages of its calls.
LEMMA EnterGate ==
    ASSUME Gate!GateTypeOK, NEW p \in Passes, NEW force \in BOOLEAN, NEW shut,
           Gate!Enter(p, force, shut)
    PROVE  /\ pc' \in [Passes -> Gate!Stages]
           /\ forced' \in [Passes -> BOOLEAN]
           /\ syncQueued' \in BOOLEAN
           /\ \A q \in Passes : pc'[q] = "flushing" <=> pc[q] = "flushing"
BY DEF Gate!Enter, Gate!Idle, Gate!GateTypeOK, Gate!Stages

LEMMA KnockGate ==
    ASSUME Gate!GateTypeOK, NEW p \in Passes, NEW force \in BOOLEAN,
           Gate!Knock(p, force) \/ Gate!TimerFires(p) \/ Gate!RequeueFires(p)
    PROVE  /\ Gate!GateTypeOK'
           /\ \A q \in Passes : pc'[q] = "flushing" <=> pc[q] = "flushing"
<1>1. PICK f \in BOOLEAN : \E shut : Gate!Enter(p, f, shut)
  BY DEF Gate!Knock, Gate!TimerFires, Gate!RequeueFires
<1>2. /\ pc' \in [Passes -> Gate!Stages]
      /\ forced' \in [Passes -> BOOLEAN]
      /\ syncQueued' \in BOOLEAN
      /\ \A q \in Passes : pc'[q] = "flushing" <=> pc[q] = "flushing"
  BY <1>1, EnterGate
<1>3. /\ UNCHANGED <<online, syncing, gateClosed, backoff>>
      /\ timer' \in {timer, FALSE} /\ requeued' \in {requeued, FALSE}
  BY DEF Gate!Knock, Gate!TimerFires, Gate!RequeueFires
<1> QED
  BY <1>2, <1>3 DEF Gate!GateTypeOK

LEMMA SuspendedGate ==
    ASSUME Gate!GateTypeOK, NEW p \in Passes
    PROVE  /\ \A n : Gate!Counted(p, n) \/ Gate!TurnedAway(p) =>
                  /\ Gate!GateTypeOK'
                  /\ \A q \in Passes : pc'[q] = "flushing" <=> pc[q] = "flushing"
           /\ Gate!PassGate(p) =>
                  /\ Gate!GateTypeOK'
                  /\ pc'[p] = "flushing"
                  /\ \A q \in Passes : q # p => pc'[q] = pc[q]
BY DEF Gate!Counted, Gate!TurnedAway, Gate!PassGate, Gate!GateTypeOK, Gate!Stages

LEMMA LeaveGate ==
    ASSUME Gate!GateTypeOK, NEW p \in Passes, NEW failed \in BOOLEAN,
           Gate!LeavePass(p, failed)
    PROVE  /\ Gate!GateTypeOK'
           /\ pc'[p] = "idle"
           /\ \A q \in Passes : q # p => pc'[q] = pc[q]
<1>1. /\ pc' \in [Passes -> Gate!Stages]
      /\ pc'[p] = "idle"
      /\ \A q \in Passes : q # p => pc'[q] = pc[q]
  BY DEF Gate!LeavePass, Gate!GateTypeOK, Gate!Stages
<1>2. backoff' \in 0..MaxBackoff
  <2>1. MaxBackoff \in Nat \ {0} /\ backoff \in 0..MaxBackoff
    BY SyncMaxBackoffAssumption DEF Gate!GateTypeOK
  <2>2. Gate!Grown(backoff) \in 0..MaxBackoff
    BY <2>1 DEF Gate!Grown
  <2>3. backoff' = Gate!Grown(backoff) \/ backoff' = 0
    BY DEF Gate!LeavePass
  <2> QED
    BY <2>1, <2>2, <2>3
<1>3. /\ online' = online /\ forced' = forced
      /\ syncing' = FALSE /\ syncQueued' = FALSE
      /\ gateClosed' \in BOOLEAN /\ timer' \in BOOLEAN
      /\ requeued' = requeued \/ requeued' = (requeued \/ syncQueued)
  BY DEF Gate!LeavePass
<1>4. requeued' \in BOOLEAN
  BY <1>3, Zenon DEF Gate!GateTypeOK
<1> QED
  BY <1>1, <1>2, <1>3, <1>4 DEF Gate!GateTypeOK

LEMMA WorldGate ==
    ASSUME Gate!GateTypeOK
    PROVE  /\ Gate!WindowElapses \/ Gate!ConnectivityChanges \/ UNCHANGED gateVars =>
                  Gate!GateTypeOK' /\ pc' = pc
           /\ Gate!GateReload =>
                  Gate!GateTypeOK' /\ \A q \in Passes : pc'[q] = "idle"
<1>1. 0 \in 0..MaxBackoff
  BY SyncMaxBackoffAssumption
<1>2. ASSUME Gate!WindowElapses \/ Gate!ConnectivityChanges \/ UNCHANGED gateVars
      PROVE  Gate!GateTypeOK' /\ pc' = pc
  BY <1>2 DEF Gate!WindowElapses, Gate!ConnectivityChanges, gateVars, Gate!GateTypeOK
<1>3. ASSUME Gate!GateReload
      PROVE  Gate!GateTypeOK' /\ \A q \in Passes : pc'[q] = "idle"
  BY <1>1, <1>3 DEF Gate!GateReload, Gate!GateTypeOK, Gate!Stages
<1> QED
  BY <1>2, <1>3

\* Which steps of the outbox open and close a pass.
LEMMA PhaseMoves ==
    ASSUME TypeOK
    PROVE  /\ \A v \in Volumes, F \in SUBSET Fields :
                  EnqueueVolume(v, F) => phase' = phase
           /\ \A s \in Series, F \in SUBSET BulkFields :
                  EnqueueBulk(s, F) => phase' = phase
           /\ \A s \in Series : PageAsks(s) \/ PageTold(s) \/ PageCaches(s) => phase' = phase
           /\ RestoreTold \/ RestoreCommits => phase' = phase
           /\ \A p \in Passes :
                  /\ \/ \E k \in Keys : StartOp(p, k)
                     \/ \E s \in Series :
                           \/ Lands(p, s) \/ Completes(p, s) \/ Acked(p, s)
                           \/ Refused(p, s) \/ Failed(p, s)
                           \/ Told(p, s) \/ NotTold(p, s) \/ CacheRows(p, s)
                     => phase' = phase
                  /\ StartPass(p) \/ NextPhase(p) =>
                         /\ phase'[p] # "off"
                         /\ \A q \in Passes : q # p => phase'[q] = phase[q]
                  /\ NextPhase(p) => phase[p] # "off"
                  /\ EndPass(p) =>
                         /\ phase'[p] = "off"
                         /\ \A q \in Passes : q # p => phase'[q] = phase[q]
<1>1. /\ \A v \in Volumes, F \in SUBSET Fields : EnqueueVolume(v, F) => phase' = phase
      /\ \A s \in Series, F \in SUBSET BulkFields : EnqueueBulk(s, F) => phase' = phase
  BY DEF EnqueueVolume, EnqueueBulk, Optimistic, passVars
<1>2. /\ \A s \in Series : PageAsks(s) \/ PageTold(s) \/ PageCaches(s) => phase' = phase
      /\ RestoreTold \/ RestoreCommits => phase' = phase
  BY DEF PageAsks, PageTold, PageCaches, RestoreTold, RestoreCommits, passVars
<1>3. ASSUME NEW p \in Passes, NEW k \in Keys, StartOp(p, k) PROVE phase' = phase
  BY <1>3 DEF StartOp
<1>4. ASSUME NEW p \in Passes, NEW s \in Series,
             \/ Lands(p, s) \/ Completes(p, s) \/ Acked(p, s)
             \/ Refused(p, s) \/ Failed(p, s)
             \/ Told(p, s) \/ NotTold(p, s) \/ CacheRows(p, s)
      PROVE  phase' = phase
  BY <1>4 DEF Lands, Completes, Acked, Refused, Failed, Told, NotTold, CacheRows
<1>5. phase \in [Passes -> {"off", "volumes", "bulk"}]
  BY DEF TypeOK
<1>6. ASSUME NEW p \in Passes, StartPass(p) \/ NextPhase(p)
      PROVE  /\ phase'[p] # "off"
             /\ \A q \in Passes : q # p => phase'[q] = phase[q]
             /\ NextPhase(p) => phase[p] # "off"
  BY <1>5, <1>6 DEF StartPass, NextPhase
<1>7. ASSUME NEW p \in Passes, EndPass(p)
      PROVE  /\ phase'[p] = "off"
             /\ \A q \in Passes : q # p => phase'[q] = phase[q]
  BY <1>5, <1>7 DEF EndPass
<1> QED
  BY <1>1, <1>2, <1>3, <1>4, <1>6, <1>7

SyncInv == SyncTypeOK /\ PassesFollowGate

LEMMA SameStages ==
    ASSUME PassesFollowGate, UNCHANGED phase,
           \A p \in Passes : pc'[p] = "flushing" <=> pc[p] = "flushing"
    PROVE  PassesFollowGate'
BY DEF PassesFollowGate

\* Both sides of the gate move together.
LEMMA SyncPassSteps ==
    ASSUME SyncInv, TypeOK', NEW p \in Passes, Pass(p) PROVE SyncInv'
<1>0. /\ TypeOK /\ Gate!GateTypeOK /\ PassesFollowGate
      /\ hadRetriable \in [Passes -> BOOLEAN]
      /\ stop' \in [Passes -> BOOLEAN]
  BY DEF SyncInv, SyncTypeOK, TypeOK
<1>1. CASE Approach(p)
  <2>1. UNCHANGED <<phase, hadRetriable>>
        /\ (Gate!Counted(p, Pending) \/ Gate!TurnedAway(p))
    BY <1>1 DEF Approach, vars
  <2>2. Gate!GateTypeOK'
        /\ \A q \in Passes : pc'[q] = "flushing" <=> pc[q] = "flushing"
    BY <1>0, <2>1, SuspendedGate
  <2> QED
    BY <1>0, <2>1, <2>2, SameStages DEF SyncInv, SyncTypeOK
<1>2. CASE Begin(p)
  <2>1. /\ Gate!GateTypeOK'
        /\ pc'[p] = "flushing"
        /\ \A q \in Passes : q # p => pc'[q] = pc[q]
    BY <1>0, <1>2, SuspendedGate DEF Begin
  <2>2. /\ phase'[p] # "off"
        /\ \A q \in Passes : q # p => phase'[q] = phase[q]
    BY <1>0, <1>2, PhaseMoves DEF Begin
  <2>3. hadRetriable' \in [Passes -> BOOLEAN]
    BY <1>0, <1>2 DEF Begin
  <2>4. PassesFollowGate'
    BY <1>0, <2>1, <2>2 DEF PassesFollowGate
  <2> QED
    BY <2>1, <2>3, <2>4 DEF SyncInv, SyncTypeOK
<1>3. CASE FlushFails(p)
  <2>1. phase' = phase /\ UNCHANGED gateVars
    BY <1>0, <1>3, PhaseMoves DEF FlushFails
  <2>2. hadRetriable' \in [Passes -> BOOLEAN]
    <3>1. hadRetriable' = [hadRetriable EXCEPT ![p] = hadRetriable[p] \/ stop'[p]]
      BY <1>0, <1>3 DEF FlushFails
    <3>2. (hadRetriable[p] \/ stop'[p]) \in BOOLEAN
      BY <1>0, Zenon
    <3> QED
      BY <1>0, <3>1, <3>2
  <2> QED
    BY <1>0, <2>1, <2>2, WorldGate, SameStages DEF SyncInv, SyncTypeOK
<1>4. CASE FlushGoesOn(p)
  <2>1. UNCHANGED <<gateVars, hadRetriable>>
    BY <1>4 DEF FlushGoesOn
  <2>2. Gate!GateTypeOK' /\ pc' = pc
    BY <1>0, <2>1, WorldGate
  <2>3. CASE NextPhase(p)
    <3>1. /\ phase'[p] # "off" /\ phase[p] # "off"
          /\ \A q \in Passes : q # p => phase'[q] = phase[q]
      BY <1>0, <2>3, PhaseMoves
    <3>2. PassesFollowGate'
      BY <1>0, <2>2, <3>1 DEF PassesFollowGate
    <3> QED
      BY <1>0, <2>1, <2>2, <3>2 DEF SyncInv, SyncTypeOK
  <2>4. CASE phase' = phase
    <3>1. PassesFollowGate'
      BY <1>0, <2>2, <2>4, SameStages
    <3> QED
      BY <1>0, <2>1, <2>2, <3>1 DEF SyncInv, SyncTypeOK
  <2> QED
    BY <1>0, <1>4, <2>3, <2>4, PhaseMoves DEF FlushGoesOn
<1>5. CASE Finish(p)
  <2>1. hadRetriable[p] \in BOOLEAN /\ Gate!LeavePass(p, hadRetriable[p])
        /\ UNCHANGED hadRetriable
    BY <1>0, <1>5 DEF Finish
  <2>2. /\ Gate!GateTypeOK'
        /\ pc'[p] = "idle"
        /\ \A q \in Passes : q # p => pc'[q] = pc[q]
    BY <1>0, <2>1, LeaveGate
  <2>3. /\ phase'[p] = "off"
        /\ \A q \in Passes : q # p => phase'[q] = phase[q]
    BY <1>0, <1>5, PhaseMoves DEF Finish
  <2>4. PassesFollowGate'
    BY <1>0, <2>2, <2>3 DEF PassesFollowGate
  <2> QED
    BY <1>0, <2>1, <2>2, <2>4 DEF SyncInv, SyncTypeOK
<1> QED
  BY <1>1, <1>2, <1>3, <1>4, <1>5 DEF Pass

LEMMA SyncSteps ==
    ASSUME SyncInv, [SyncNext]_syncVars PROVE SyncInv'
<1>0. /\ TypeOK /\ Gate!GateTypeOK /\ PassesFollowGate
      /\ hadRetriable \in [Passes -> BOOLEAN]
  BY DEF SyncInv, SyncTypeOK
<1>1. TypeOK'
  BY <1>0, SyncStepIsOutboxStep, TypeStep
<1>2. ASSUME UNCHANGED <<phase, hadRetriable>>, Gate!GateTypeOK',
             \A q \in Passes : pc'[q] = "flushing" <=> pc[q] = "flushing"
      PROVE  SyncInv'
  BY <1>0, <1>1, <1>2, SameStages DEF SyncInv, SyncTypeOK
<1>3. ASSUME NEW p \in Passes, Edit(p) PROVE SyncInv'
  <2>1. UNCHANGED <<phase, hadRetriable>>
    BY <1>0, <1>3, PhaseMoves DEF Edit, TriggerSync
  <2>2. Gate!Knock(p, FALSE) \/ UNCHANGED gateVars
    BY <1>3 DEF Edit, TriggerSync
  <2>3. Gate!GateTypeOK'
        /\ \A q \in Passes : pc'[q] = "flushing" <=> pc[q] = "flushing"
    BY <1>0, <2>2, KnockGate, WorldGate
  <2> QED
    BY <1>2, <2>1, <2>3
<1>4. ASSUME NEW p \in Passes, RunnerKnocks(p) \/ UserForces(p) \/ Timers(p)
      PROVE  SyncInv'
  <2>1. UNCHANGED <<phase, hadRetriable>>
    BY <1>4 DEF RunnerKnocks, UserForces, Timers, vars
  <2>2. \E force \in BOOLEAN :
            Gate!Knock(p, force) \/ Gate!TimerFires(p) \/ Gate!RequeueFires(p)
    BY <1>4 DEF RunnerKnocks, UserForces, Timers
  <2>3. Gate!GateTypeOK'
        /\ \A q \in Passes : pc'[q] = "flushing" <=> pc[q] = "flushing"
    BY <1>0, <2>2, KnockGate
  <2> QED
    BY <1>2, <2>1, <2>3
<1>5. CASE PageReads \/ Restore
  <2>1. UNCHANGED <<phase, hadRetriable, gateVars>>
    BY <1>0, <1>5, PhaseMoves DEF PageReads, Restore
  <2> QED
    BY <1>0, <1>2, <2>1, WorldGate
<1>6. CASE WorldTurns \/ UNCHANGED syncVars
  <2>1. /\ UNCHANGED <<phase, hadRetriable>>
        /\ Gate!WindowElapses \/ Gate!ConnectivityChanges \/ UNCHANGED gateVars
    BY <1>6 DEF WorldTurns, syncVars, vars
  <2> QED
    BY <1>0, <1>2, <2>1, WorldGate
<1>7. CASE SyncReload
  <2>1. Gate!GateTypeOK' /\ \A q \in Passes : pc'[q] = "idle"
    BY <1>0, <1>7, WorldGate DEF SyncReload
  <2>2. \A q \in Passes : phase'[q] = "off"
    BY <1>7 DEF SyncReload, Reload
  <2>3. hadRetriable' \in [Passes -> BOOLEAN]
    BY <1>7 DEF SyncReload
  <2> QED
    BY <1>1, <2>1, <2>2, <2>3 DEF SyncInv, SyncTypeOK, PassesFollowGate
<1> QED
  BY <1>1, <1>3, <1>4, <1>5, <1>6, <1>7, SyncPassSteps DEF SyncNext

LEMMA SyncInits == SyncInit => SyncInv
<1> SUFFICES ASSUME SyncInit PROVE SyncInv
  OBVIOUS
<1>1. TypeOK /\ 0 \in 0..MaxBackoff
  BY InitTypes, SyncMaxBackoffAssumption DEF SyncInit
<1>2. Gate!GateTypeOK
  BY <1>1, Zenon DEF SyncInit, Gate!GateInit, Gate!GateTypeOK, Gate!Stages
<1>3. PassesFollowGate
  BY DEF SyncInit, Init, Gate!GateInit, PassesFollowGate
<1>4. hadRetriable \in [Passes -> BOOLEAN]
  BY DEF SyncInit
<1> QED
  BY <1>1, <1>2, <1>3, <1>4 DEF SyncInv, SyncTypeOK

\* Type correctness of the outbox and its gate together.
THEOREM SyncTypeCorrect == SyncSpec => []SyncTypeOK
<1>1. SyncInv /\ [SyncNext]_syncVars => SyncInv'
  BY SyncSteps
<1>2. SyncInv => SyncTypeOK
  BY DEF SyncInv
<1> QED
  BY <1>1, <1>2, SyncInits, PTL DEF SyncSpec

\* However triggers, timers, failures and reloads interleave, a pass is open in
\* the outbox exactly while its invocation of syncOutbox is past the gate: none
\* runs on after its `finally` block, and none is past the gate without one.
THEOREM PassesStayGated == SyncSpec => []PassesFollowGate
<1>1. SyncInv /\ [SyncNext]_syncVars => SyncInv'
  BY SyncSteps
<1>2. SyncInv => PassesFollowGate
  BY DEF SyncInv
<1> QED
  BY <1>1, <1>2, SyncInits, PTL DEF SyncSpec
=============================================================================
