--------------------------- MODULE CacheOwnerProofs ---------------------------
(***************************************************************************)
(* Proofs about CacheOwner, for any accounts, any number of sign-ins and   *)
(* of ops.  That no op reaches another's library is about four things at   *)
(* once: the stamp says whose queue it is, a wipe is empty until it takes  *)
(* the stamp, a check that found the device free finds it free until it    *)
(* adopts it, and all that a page was told of accounts is one account.     *)
(* The last is true because a sign-in ends in a new page; it is of one tab *)
(* that the theorems speak.                                                *)
(***************************************************************************)
EXTENDS CacheOwner, TLAPS

-----------------------------------------------------------------------------
(* The inductive invariant *)

\* The browser has one tab, and a page on its way out queues nothing.
OneTab == (\A t, u \in Tabs : t = u) /\ ~LateEdits

Checks == {"auth", "flush"}

\* Every account page t was told of, or is speaking for.
Told(t) == {page[t].id[p] : p \in Processes} \union {page[t].latch, cookie}

\* A page is told of one account only.
OneAccount == \A t \in Tabs : \A a, b \in Told(t) \ {None} : a = b

\* The queue and the rows are those of the account on the stamp.
StampedData ==
    /\ \A o \in queue : o.by = stamp
    /\ rows \subseteq {stamp} \union stray

\* Between the two steps of a wipe the tables stay empty.
WipedIsEmpty == \A t \in Tabs, p \in Processes :
    page[t].at[p] = "local" => queue = {} /\ rows \subseteq stray

\* A check that is about to adopt the device finds it unowned, or its own.
JudgedIsFree == \A t \in Tabs, p \in Checks :
    page[t].at[p] = "after" => stamp \in {None, page[t].id[p]}

\* A pass holds ops of the account it was verified for.
HandIsLatched == \A t \in Tabs : \A o \in page[t].hand : o.by = page[t].latch

OwnerInv == /\ TypeOK /\ OneAccount /\ StampedData /\ WipedIsEmpty
            /\ JudgedIsFree /\ HandIsLatched /\ NeverAnothers

-----------------------------------------------------------------------------
(* Types *)

LEMMA FreshType == Fresh \in Page
BY DEF Fresh, Page, Someone, Stages, Processes

\* A page that loses its session is a page.
LEMMA LostType ==
    ASSUME TypeOK, NEW t \in Tabs
    PROVE  /\ Lost(t) \in [Tabs -> Page]
           /\ \A u \in Tabs, p \in Checks :
                Lost(t)[u].at[p] = page[u].at[p] /\ Lost(t)[u].id[p] = page[u].id[p]
           /\ \A p \in Processes : Lost(t)[t].at[p] \in {page[t].at[p], "tables"}
           /\ Lost(t)[t].id = page[t].id /\ Lost(t)[t].latch = page[t].latch
           /\ Lost(t)[t].hand = {}
<1> DEFINE at == [page[t].at EXCEPT !["lost"] = IF @ = "idle" THEN "tables" ELSE @]
           new == [page[t] EXCEPT !.ui = None, !.hand = {}, !.at = at]
<1>1. page[t] \in Page
  BY DEF TypeOK
<1>2. /\ at \in [Processes -> Stages] /\ \A p \in Checks : at[p] = page[t].at[p]
      /\ \A p \in Processes : at[p] \in {page[t].at[p], "tables"}
  BY <1>1 DEF Page, Stages, Processes, Checks
<1>3. /\ new \in Page /\ new.at = at /\ new.id = page[t].id
      /\ new.latch = page[t].latch /\ new.hand = {}
  <2> HIDE DEF at
  <2> QED BY <1>1, <1>2 DEF Page, Someone
<1>4. Lost(t) = [page EXCEPT ![t] = new]
  BY DEF Lost
<1> HIDE DEF at, new
<1> QED
  BY <1>2, <1>3, <1>4 DEF TypeOK

\* A process that goes on to a stage leaves the page's other fields alone.
LEMMA GoesType ==
    ASSUME TypeOK, NEW t \in Tabs, NEW p \in Processes, NEW stage \in Stages,
           Goes(t, p, stage)
    PROVE  /\ page' \in [Tabs -> Page]
           /\ page'[t].at[p] = stage
           /\ \A u \in Tabs : /\ page'[u].id = page[u].id
                              /\ page'[u].ui = page[u].ui
                              /\ page'[u].latch = page[u].latch
                              /\ page'[u].hand = page[u].hand
                              /\ page'[u].reads = page[u].reads
           /\ \A u \in Tabs, q \in Processes :
                u # t \/ q # p => page'[u].at[q] = page[u].at[q]
<1> DEFINE at == [page[t].at EXCEPT ![p] = stage]
           new == [page[t] EXCEPT !.at = at]
<1>1. page[t] \in Page
  BY DEF TypeOK
<1>2. /\ at \in [Processes -> Stages] /\ at[p] = stage
      /\ \A q \in Processes : q # p => at[q] = page[t].at[q]
  BY <1>1 DEF Page
<1>3. /\ new \in Page /\ new.at = at /\ new.id = page[t].id /\ new.ui = page[t].ui
      /\ new.latch = page[t].latch /\ new.hand = page[t].hand /\ new.reads = page[t].reads
  <2> HIDE DEF at
  <2> QED BY <1>1, <1>2 DEF Page
<1>4. page' = [page EXCEPT ![t] = new]
  BY DEF Goes
<1> HIDE DEF at, new
<1> QED
  BY <1>2, <1>3, <1>4 DEF TypeOK

\* If it is a check that has come to a wipe, or past one, it was told of someone.
LEMMA GoesTold ==
    ASSUME TypeOK, NEW t \in Tabs, NEW p \in Processes, NEW stage \in Stages,
           Goes(t, p, stage),
           p \in Checks /\ stage \in {"tables", "local", "after"} => page[t].id[p] # None
    PROVE  /\ page' \in [Tabs -> Page]
           /\ \A u \in Tabs : \A q \in {"auth", "flush"} :
                page'[u].at[q] \in {"tables", "local", "after"} => page'[u].id[q] # None
<1>1. /\ page' \in [Tabs -> Page]
      /\ page'[t].at[p] = stage
      /\ \A u \in Tabs : page'[u].id = page[u].id
      /\ \A u \in Tabs, q \in Processes : u # t \/ q # p => page'[u].at[q] = page[u].at[q]
  BY GoesType
<1>2. ASSUME NEW u \in Tabs, NEW q \in {"auth", "flush"},
             page'[u].at[q] \in {"tables", "local", "after"}
      PROVE  page'[u].id[q] # None
  <2>1. q \in Processes /\ q \in Checks
    BY DEF Processes, Checks
  <2>2. CASE u = t /\ q = p
    BY <1>1, <1>2, <2>1, <2>2
  <2>3. CASE u # t \/ q # p
    <3>1. page[u].at[q] \in {"tables", "local", "after"}
      BY <1>1, <1>2, <2>1, <2>3
    <3> QED
      BY <1>1, <3>1 DEF TypeOK
  <2> QED BY <2>2, <2>3
<1> QED BY <1>1, <1>2

\* A process ends, and the page is rendered for nobody.
LetsGo(t, p) == page' = [page EXCEPT ![t].at[p] = "idle", ![t].ui = None]

LEMMA LetGoType ==
    ASSUME TypeOK, NEW t \in Tabs, NEW p \in Processes, LetsGo(t, p)
    PROVE  /\ page' \in [Tabs -> Page]
           /\ page'[t].at[p] = "idle"
           /\ \A u \in Tabs : /\ page'[u].id = page[u].id
                              /\ page'[u].latch = page[u].latch
                              /\ page'[u].hand = page[u].hand
                              /\ page'[u].reads = page[u].reads
           /\ \A u \in Tabs, q \in Processes :
                u # t \/ q # p => page'[u].at[q] = page[u].at[q]
<1> DEFINE at == [page[t].at EXCEPT ![p] = "idle"]
           new == [page[t] EXCEPT !.at = at, !.ui = None]
<1>1. page[t] \in Page
  BY DEF TypeOK
<1>2. /\ at \in [Processes -> Stages] /\ at[p] = "idle"
      /\ \A q \in Processes : q # p => at[q] = page[t].at[q]
  BY <1>1 DEF Page, Stages
<1>3. /\ new \in Page /\ new.at = at /\ new.id = page[t].id
      /\ new.latch = page[t].latch /\ new.hand = page[t].hand /\ new.reads = page[t].reads
  <2> HIDE DEF at
  <2> QED BY <1>1, <1>2 DEF Page, Someone
<1>4. page' = [page EXCEPT ![t] = new]
  BY DEF LetsGo
<1> HIDE DEF at, new
<1> QED
  BY <1>2, <1>3, <1>4 DEF TypeOK

LEMMA InitTypes == Init => TypeOK
<1> SUFFICES ASSUME Init PROVE TypeOK
  OBVIOUS
<1>1. sessions \in 0..MaxSessions
  BY OwnerAssumption DEF Init
<1>2. page \in [Tabs -> Page] /\ \A t \in Tabs : page[t].at = [p \in Processes |-> "idle"]
  BY FreshType DEF Init, Fresh
<1> QED
  BY <1>1, <1>2 DEF Init, TypeOK, Someone, Processes

\* Whoever signs in, expires or is let go: the page is fresh or as it was.
LEMMA SessionTypes ==
    ASSUME TypeOK, NEW t \in Tabs
    PROVE  /\ \A u \in Users : SignIn(t, u) => TypeOK'
           /\ GiveUpSignIn(t) => TypeOK'
           /\ Reload(t) => TypeOK'
           /\ LostDone(t) => TypeOK'
           /\ Expire => TypeOK'
           /\ DeliverLogout => TypeOK'
<1>0. ASSUME page' = [page EXCEPT ![t] = Fresh]
      PROVE  /\ page' \in [Tabs -> Page]
             /\ \A u \in Tabs, p \in Checks : page'[u].at[p] \in {"tables", "local", "after"} =>
                                                 page'[u].id[p] # None
  BY <1>0, FreshType DEF TypeOK, Fresh, Checks, Processes
<1>1. ASSUME NEW u \in Users, SignIn(t, u) PROVE TypeOK'
  <2>1. sessions' \in 0..MaxSessions
    BY <1>1, OwnerAssumption DEF SignIn, TypeOK
  <2> QED
    BY <1>0, <1>1, <2>1 DEF SignIn, TypeOK, tables, Someone, Checks
<1>2. ASSUME GiveUpSignIn(t) PROVE TypeOK'
  BY <1>0, <1>2 DEF GiveUpSignIn, TypeOK, session, tables, Checks
<1>3. ASSUME Reload(t) PROVE TypeOK'
  BY <1>0, <1>3 DEF Reload, TypeOK, session, tables, storage, Checks
<1>4. ASSUME LostDone(t) PROVE TypeOK'
  BY <1>0, <1>4 DEF LostDone, TypeOK, session, tables, storage, Checks
<1>5. ASSUME Expire PROVE TypeOK'
  BY <1>5 DEF Expire, TypeOK, tables, storage, Someone
<1>6. ASSUME DeliverLogout PROVE TypeOK'
  BY <1>6 DEF DeliverLogout, TypeOK, tables, Someone
<1> QED BY <1>1, <1>2, <1>3, <1>4, <1>5, <1>6

\* A check, from its question to the stamp.
LEMMA CheckTypes ==
    ASSUME TypeOK, NEW t \in Tabs, NEW p \in Checks,
           Ask(t, p) \/ Answer(t, p) \/ Unreachable(t, p) \/ Nobody(t, p)
             \/ Judge(t, p) \/ Adopt(t, p)
    PROVE  TypeOK'
<1>0. p \in Processes
  BY DEF Checks, Processes
<1>1. CASE Ask(t, p)
  <2>1. Goes(t, p, "asked") /\ "asked" \in Stages
    BY <1>1 DEF Ask, Stages
  <2>2. /\ page' \in [Tabs -> Page]
        /\ \A u \in Tabs : \A q \in {"auth", "flush"} :
             page'[u].at[q] \in {"tables", "local", "after"} => page'[u].id[q] # None
    BY <1>0, <2>1, GoesTold
  <2> QED
    BY <1>1, <2>2 DEF Ask, TypeOK, session, storage, tables
<1>2. CASE Answer(t, p)
  <2> DEFINE new == [page[t] EXCEPT !.at = [page[t].at EXCEPT ![p] = "answered"],
                                      !.id = [page[t].id EXCEPT ![p] = cookie]]
  <2>3. page[t] \in Page /\ cookie \in Someone
    BY DEF TypeOK
  <2>4. new \in Page
    BY <1>0, <2>3 DEF Page, Stages
  <2>5. page' = [page EXCEPT ![t] = new]
    BY <1>2 DEF Answer
  <2>1. page' \in [Tabs -> Page]
    <3> HIDE DEF new
    <3> QED BY <2>4, <2>5 DEF TypeOK
  <2>2. \A u \in Tabs, q \in Checks : page'[u].at[q] \in {"tables", "local", "after"} =>
            page'[u].at[q] = page[u].at[q] /\ page'[u].id[q] = page[u].id[q]
    BY <1>0, <1>2 DEF Answer, TypeOK, Page, Checks, Processes
  <2> QED
    BY <1>2, <2>1, <2>2 DEF Answer, TypeOK, session, storage, tables, Checks
<1>3. CASE Unreachable(t, p)
  <2> DEFINE new == [page[t] EXCEPT !.at = [page[t].at EXCEPT ![p] = "idle"],
                                      !.ui = IF p = "auth" THEN profile ELSE page[t].ui]
  <2>3. page[t] \in Page /\ profile \in Someone
    BY DEF TypeOK
  <2>4. new \in Page
    BY <1>0, <2>3 DEF Page, Stages
  <2>5. page' = [page EXCEPT ![t] = new]
    BY <1>3 DEF Unreachable
  <2>1. page' \in [Tabs -> Page]
    <3> HIDE DEF new
    <3> QED BY <2>4, <2>5 DEF TypeOK
  <2>2. \A u \in Tabs, q \in Checks : page'[u].at[q] \in {"tables", "local", "after"} =>
            page'[u].at[q] = page[u].at[q] /\ page'[u].id[q] = page[u].id[q]
    BY <1>0, <1>3 DEF Unreachable, TypeOK, Page, Checks, Processes
  <2> QED
    BY <1>3, <2>1, <2>2 DEF Unreachable, TypeOK, session, storage, tables, Checks
<1>4. CASE Nobody(t, p)
  <2>0. /\ UNCHANGED <<session, stamp, leaving, queue, sent, stray>>
        /\ profile' \in {None, profile} /\ rows' \in {{}, rows}
    BY <1>4 DEF Nobody
  <2>1. CASE p = "auth"
    <3>1. LetsGo(t, p)
      BY <1>4, <2>1 DEF Nobody, LetsGo
    <3>2. page' \in [Tabs -> Page]
      BY <1>0, <3>1, LetGoType
    <3>3. \A u \in Tabs, q \in Checks : page'[u].at[q] \in {"tables", "local", "after"} =>
              page'[u].at[q] = page[u].at[q] /\ page'[u].id[q] = page[u].id[q]
      BY <1>0, <3>1, LetGoType DEF Checks, Processes
    <3>4. \A u \in Tabs : \A q \in {"auth", "flush"} :
             page'[u].at[q] \in {"tables", "local", "after"} => page'[u].id[q] # None
      BY <3>3 DEF TypeOK, Checks
    <3> QED
      BY <2>0, <3>2, <3>4 DEF TypeOK, session, Someone
  <2>2. CASE p # "auth"
    <3>1. Goes(t, p, "idle")
      BY <1>4, <2>2 DEF Nobody
    <3>2. /\ page' \in [Tabs -> Page]
          /\ \A u \in Tabs : \A q \in {"auth", "flush"} :
               page'[u].at[q] \in {"tables", "local", "after"} => page'[u].id[q] # None
      <4>1. "idle" \in Stages
        BY DEF Stages
      <4> QED BY <1>0, <3>1, <4>1, GoesTold
    <3> QED
      BY <2>0, <3>2 DEF TypeOK, session, Someone
  <2> QED BY <2>1, <2>2
<1>5. CASE Judge(t, p)
  <2>1. PICK stage \in {"tables", "after"} : Goes(t, p, stage)
    BY <1>5 DEF Judge
  <2>2. page[t].id[p] # None /\ stage \in Stages
    BY <1>5 DEF Judge, Known, Stages
  <2>3. /\ page' \in [Tabs -> Page]
        /\ \A u \in Tabs : \A q \in {"auth", "flush"} :
             page'[u].at[q] \in {"tables", "local", "after"} => page'[u].id[q] # None
    BY <1>0, <2>1, <2>2, GoesTold
  <2> QED
    BY <1>5, <2>3 DEF Judge, TypeOK, session, storage, tables
<1>6. CASE Adopt(t, p)
  <2>0. page[t].id[p] \in Someone
    BY <1>0 DEF TypeOK, Page
  <2>3. /\ stamp' = page[t].id[p] /\ profile' \in {page[t].id[p], profile}
        /\ UNCHANGED <<session, leaving, tables, sent, stray>>
    BY <1>6 DEF Adopt
  <2>1. page' \in [Tabs -> Page]
    <3> DEFINE at == [page[t].at EXCEPT ![p] = "idle"]
               id == [page[t].id EXCEPT ![p] = None]
               ui == IF p = "auth" THEN page[t].id[p] ELSE page[t].ui
               latch == IF p = "flush" THEN page[t].id[p] ELSE page[t].latch
               new == [page[t] EXCEPT !.at = at, !.id = id, !.ui = ui, !.latch = latch]
    <3>1. page[t] \in Page
      BY DEF TypeOK
    <3>2. at \in [Processes -> Stages] /\ id \in [Processes -> Someone]
      BY <1>0, <3>1 DEF Page, Stages, Someone
    <3>3. ui \in Someone /\ latch \in Someone
      BY <2>0, <3>1 DEF Page
    <3>4. new \in Page
      <4> HIDE DEF at, id, ui, latch
      <4> QED BY <3>1, <3>2, <3>3 DEF Page
    <3>5. page' = [page EXCEPT ![t] = new]
      <4>1. page' = [page EXCEPT ![t].at[p] = "idle", ![t].id[p] = None,
                                 ![t].ui = IF p = "auth" THEN page[t].id[p] ELSE @,
                                 ![t].latch = IF p = "flush" THEN page[t].id[p] ELSE @]
        BY <1>6 DEF Adopt
      <4> QED BY <4>1, Zenon
    <3> HIDE DEF new
    <3> QED BY <3>4, <3>5 DEF TypeOK
  <2>2. \A u \in Tabs, q \in Checks : page'[u].at[q] \in {"tables", "local", "after"} =>
            page'[u].at[q] = page[u].at[q] /\ page'[u].id[q] = page[u].id[q]
    BY <1>0, <1>6 DEF Adopt, TypeOK, Page, Checks, Processes
  <2> QED
    BY <1>6, <2>0, <2>1, <2>2, <2>3 DEF TypeOK, session, tables, Checks
<1> QED BY <1>1, <1>2, <1>3, <1>4, <1>5, <1>6

\* The two steps of a wipe.
LEMMA WipeTypes ==
    ASSUME TypeOK, NEW t \in Tabs, NEW p \in Processes,
           WipeTables(t, p) \/ WipeLocal(t, p)
    PROVE  TypeOK'
<1>1. CASE WipeTables(t, p)
  <2>1. Goes(t, p, "local") /\ "local" \in Stages
    BY <1>1 DEF WipeTables, Stages
  <2>2. p \in Checks => page[t].id[p] # None
    BY <1>1 DEF WipeTables, TypeOK, Checks
  <2>3. /\ page' \in [Tabs -> Page]
        /\ \A u \in Tabs : \A q \in {"auth", "flush"} :
             page'[u].at[q] \in {"tables", "local", "after"} => page'[u].id[q] # None
    BY <2>1, <2>2, GoesTold
  <2> QED
    BY <1>1, <2>3 DEF WipeTables, KeptOps, TypeOK, session, storage
<1>2. CASE WipeLocal(t, p)
  <2>1. Goes(t, p, "after") /\ "after" \in Stages
    BY <1>2 DEF WipeLocal, Stages
  <2>2. p \in Checks => page[t].id[p] # None
    BY <1>2 DEF WipeLocal, TypeOK, Checks
  <2>3. /\ page' \in [Tabs -> Page]
        /\ \A u \in Tabs : \A q \in {"auth", "flush"} :
             page'[u].at[q] \in {"tables", "local", "after"} => page'[u].id[q] # None
    BY <2>1, <2>2, GoesTold
  <2> QED
    BY <1>2, <2>3 DEF WipeLocal, TypeOK, session, tables, Someone
<1> QED BY <1>1, <1>2

\* Leaving, by oneself or by the interceptor.
LEMMA LeaveTypes ==
    ASSUME TypeOK, NEW t \in Tabs, Refused(t) \/ LogOut(t) \/ LoggedOut(t) \/ Read(t)
    PROVE  TypeOK'
<1>1. CASE Refused(t)
  <2>1. /\ page' \in [Tabs -> Page]
        /\ \A u \in Tabs : page'[u].at = page[u].at /\ page'[u].id = page[u].id
    <3>1. page' = [page EXCEPT ![t].ui = None]
      BY <1>1 DEF Refused
    <3>2. page[t] \in Page /\ None \in Someone
      BY DEF TypeOK, Someone
    <3>3. /\ [page[t] EXCEPT !.ui = None] \in Page
          /\ [page[t] EXCEPT !.ui = None].at = page[t].at
          /\ [page[t] EXCEPT !.ui = None].id = page[t].id
      BY <3>2 DEF Page
    <3> QED BY <3>1, <3>3 DEF TypeOK
  <2> QED
    BY <1>1, <2>1 DEF Refused, TypeOK, tables, Someone
<1>2. CASE LogOut(t)
  <2>1. Goes(t, "out", "tables") /\ "tables" \in Stages
    BY <1>2 DEF LogOut, Stages
  <2>2. "out" \in Processes /\ "out" \notin Checks
    BY DEF Processes, Checks
  <2>3. /\ page' \in [Tabs -> Page]
        /\ \A u \in Tabs : \A q \in {"auth", "flush"} :
             page'[u].at[q] \in {"tables", "local", "after"} => page'[u].id[q] # None
    BY <2>1, <2>2, GoesTold
  <2> QED
    BY <1>2, <2>3 DEF LogOut, TypeOK, session, tables, Someone
<1>3. CASE LoggedOut(t)
  <2>1. /\ page' \in [Tabs -> Page]
        /\ \A u \in Tabs, p \in Checks : page'[u].at[p] = page[u].at[p] /\ page'[u].id = page[u].id
    <3>1. PICK q \in Processes \ Checks : LetsGo(t, q)
      BY <1>3 DEF LoggedOut, LetsGo, Processes, Checks
    <3>2. Checks \subseteq Processes
      BY DEF Checks, Processes
    <3> QED
      BY <3>1, <3>2, LetGoType
  <2>2. \A u \in Tabs : \A q \in {"auth", "flush"} :
           page'[u].at[q] \in {"tables", "local", "after"} => page'[u].id[q] # None
    BY <2>1 DEF TypeOK, Checks
  <2>3. /\ cookie' \in {None, cookie} /\ leaving' \in BOOLEAN
        /\ UNCHANGED <<sessions, stamp, profile, tables, sent, stray>>
    BY <1>3 DEF LoggedOut
  <2> QED
    BY <2>1, <2>2, <2>3 DEF TypeOK, tables, Someone
<1>4. CASE Read(t)
  <2>1. CASE cookie = None
    BY <1>4, <2>1, LostType DEF Read, TypeOK, session, tables, Someone, Checks
  <2>2. CASE cookie # None
    <3>1. /\ page' \in [Tabs -> Page]
          /\ \A u \in Tabs : page'[u].at = page[u].at /\ page'[u].id = page[u].id
      <4>1. page' = [page EXCEPT ![t].reads = @ \union {cookie}] /\ cookie \in Users
        BY <1>4, <2>2 DEF Read, TypeOK, Someone
      <4> QED
        BY <4>1 DEF TypeOK, Page
    <3> QED
      BY <1>4, <2>2, <3>1 DEF Read, TypeOK, session, tables
  <2> QED BY <2>1, <2>2
<1> QED BY <1>1, <1>2, <1>3, <1>4

\* What the pages do meanwhile.
LEMMA WorkTypes ==
    ASSUME TypeOK, NEW t \in Tabs
    PROVE  /\ \A u \in Users : ReadLands(t, u) => TypeOK'
           /\ StartPass(t) => TypeOK'
           /\ \A o \in Ops : Edit(t, o) \/ Send(t, o) => TypeOK'
<1>1. ASSUME NEW u \in Users, ReadLands(t, u) PROVE TypeOK'
  <2>1. /\ page' \in [Tabs -> Page]
        /\ \A v \in Tabs : page'[v].at = page[v].at /\ page'[v].id = page[v].id
    BY <1>1 DEF ReadLands, TypeOK, Page
  <2> QED
    BY <1>1, <2>1 DEF ReadLands, TypeOK, session, storage
<1>2. ASSUME StartPass(t) PROVE TypeOK'
  <2>1. /\ page' \in [Tabs -> Page]
        /\ \A v \in Tabs : page'[v].at = page[v].at /\ page'[v].id = page[v].id
    BY <1>2 DEF StartPass, TypeOK, Page
  <2> QED
    BY <1>2, <2>1 DEF StartPass, TypeOK, session, storage, tables
<1>3. ASSUME NEW o \in Ops, Edit(t, o) PROVE TypeOK'
  BY <1>3 DEF Edit, TypeOK, session, storage, Ops
<1>4. ASSUME NEW o \in Ops, Send(t, o) PROVE TypeOK'
  <2>0. o \in page[t].hand /\ UNCHANGED <<session, stamp, leaving, rows, stray>>
    BY <1>4 DEF Send
  <2>1. CASE cookie = None
    <3>1. profile' = None /\ page' = Lost(t) /\ UNCHANGED <<queue, sent>>
      BY <1>4, <2>1 DEF Send
    <3>2. /\ page' \in [Tabs -> Page]
          /\ \A u \in Tabs, p \in Checks : page'[u].at[p] = page[u].at[p] /\ page'[u].id[p] = page[u].id[p]
      BY <3>1, LostType
    <3> QED
      BY <2>0, <3>1, <3>2 DEF TypeOK, session, Someone, Checks
  <2>2. CASE cookie # None
    <3>1. /\ page' = [page EXCEPT ![t].hand = @ \ {o}]
          /\ queue' = queue \ {o}
          /\ sent' = sent \union {<<o, cookie>>}
          /\ UNCHANGED profile
      BY <1>4, <2>2 DEF Send
    <3>2. /\ page' \in [Tabs -> Page]
          /\ \A v \in Tabs : page'[v].at = page[v].at /\ page'[v].id = page[v].id
      BY <3>1 DEF TypeOK, Page
    <3> QED
      BY <2>0, <2>2, <3>1, <3>2 DEF TypeOK, session, Someone
  <2> QED BY <2>1, <2>2
<1> QED BY <1>1, <1>2, <1>3, <1>4

LEMMA StepTypes == TypeOK /\ [Next]_vars => TypeOK'
<1> SUFFICES ASSUME TypeOK, [Next]_vars PROVE TypeOK'
  OBVIOUS
<1>1. CASE UNCHANGED vars
  BY <1>1 DEF vars, session, storage, tables, TypeOK
<1>2. ASSUME NEW t \in Tabs, NEW u \in Users, SignIn(t, u) \/ ReadLands(t, u)
      PROVE  TypeOK'
  BY <1>2, SessionTypes, WorkTypes
<1>3. ASSUME NEW t \in Tabs, GiveUpSignIn(t) \/ Reload(t) \/ LostDone(t) PROVE TypeOK'
  BY <1>3, SessionTypes
<1>4. ASSUME NEW t \in Tabs, Refused(t) \/ LogOut(t) \/ LoggedOut(t) \/ Read(t) PROVE TypeOK'
  BY <1>4, LeaveTypes
<1>5. ASSUME NEW t \in Tabs, NEW p \in {"auth", "flush"},
             Ask(t, p) \/ Answer(t, p) \/ Unreachable(t, p) \/ Nobody(t, p)
               \/ Judge(t, p) \/ Adopt(t, p)
      PROVE  TypeOK'
  BY <1>5, CheckTypes DEF Checks
<1>6. ASSUME NEW t \in Tabs, NEW p \in Processes, WipeTables(t, p) \/ WipeLocal(t, p)
      PROVE  TypeOK'
  BY <1>6, WipeTypes
<1>7. ASSUME NEW t \in Tabs, StartPass(t) PROVE TypeOK'
  BY <1>7, WorkTypes
<1>8. ASSUME NEW t \in Tabs, NEW o \in Ops, Edit(t, o) \/ Send(t, o) PROVE TypeOK'
  BY <1>8, WorkTypes
<1>9. ASSUME Expire \/ DeliverLogout PROVE TypeOK'
  BY <1>9, SessionTypes, OwnerAssumption
<1> QED BY <1>1, <1>2, <1>3, <1>4, <1>5, <1>6, <1>7, <1>8, <1>9 DEF Next

\* Types hold for any tabs, accounts and bounds, late edits included.
THEOREM TypeCorrect == Spec => []TypeOK
BY InitTypes, StepTypes, PTL DEF Spec

-----------------------------------------------------------------------------
(* What most steps leave alone *)

\* A page that is told nothing new is told of one account.
LEMMA AccountKept ==
    ASSUME OneTab, OneAccount, NEW t \in Tabs, Told(t)' \subseteq Told(t) \union {None}
    PROVE  OneAccount'
BY DEF OneTab, OneAccount

\* The data on the device stay in order where the stamp stays, nothing is
\* added, and no process enters the stages the invariant speaks of.
LEMMA DataKept ==
    ASSUME OneTab, OwnerInv, NEW t \in Tabs,
           stamp' = stamp, stray' = stray, queue' \subseteq queue, rows' \subseteq rows,
           \A p \in Processes : page'[t].at[p] = "local" => page[t].at[p] = "local",
           \A p \in Checks : page'[t].at[p] = "after" =>
                  page[t].at[p] = "after" /\ page'[t].id[p] = page[t].id[p]
    PROVE  StampedData' /\ WipedIsEmpty' /\ JudgedIsFree'
<1>1. StampedData'
  BY DEF OwnerInv, StampedData
<1>2. WipedIsEmpty'
  BY DEF OwnerInv, WipedIsEmpty, OneTab
<1>3. JudgedIsFree'
  BY DEF OwnerInv, JudgedIsFree, OneTab
<1> QED BY <1>1, <1>2, <1>3

\* So does what a pass has in hand, if it takes nothing and is not re-verified.
LEMMA HandKept ==
    ASSUME OneTab, OwnerInv, NEW t \in Tabs, sent' = sent,
           page'[t].hand \subseteq page[t].hand,
           page'[t].hand = {} \/ page'[t].latch = page[t].latch
    PROVE  HandIsLatched' /\ NeverAnothers'
BY DEF OwnerInv, HandIsLatched, NeverAnothers, OneTab

\* A page that starts afresh has nothing left to break.
LEMMA FreshKept ==
    ASSUME OneTab, OwnerInv, NEW t \in Tabs,
           page' = [page EXCEPT ![t] = Fresh],
           UNCHANGED <<stamp, tables, sent, stray>>
    PROVE  /\ StampedData' /\ WipedIsEmpty' /\ JudgedIsFree'
           /\ HandIsLatched' /\ NeverAnothers'
           /\ Told(t)' = {None, cookie'}
<1>1. page'[t] = Fresh
  BY DEF OwnerInv, TypeOK
<1>2. /\ Fresh.hand = {} /\ Fresh.latch = None
      /\ \A p \in Processes : Fresh.at[p] = "idle" /\ Fresh.id[p] = None
  BY DEF Fresh
<1>3. \A p \in Checks : p \in Processes
  BY DEF Checks, Processes
<1>4. StampedData' /\ WipedIsEmpty' /\ JudgedIsFree'
  BY <1>1, <1>2, <1>3, DataKept DEF tables
<1>5. HandIsLatched' /\ NeverAnothers'
  BY <1>1, <1>2, HandKept
<1>6. Told(t)' = {None, cookie'}
  BY <1>1, <1>2 DEF Told, Processes
<1> QED BY <1>4, <1>5, <1>6

-----------------------------------------------------------------------------
(* The invariant, step by step *)

\* What the invariant says beyond the types.
Owned == /\ OneAccount /\ StampedData /\ WipedIsEmpty
         /\ JudgedIsFree /\ HandIsLatched /\ NeverAnothers

LEMMA InitOwned == Init => Owned
<1> SUFFICES ASSUME Init PROVE Owned
  OBVIOUS
<1>1. \A t \in Tabs : page[t] = Fresh
  BY DEF Init
<1>2. /\ Fresh.hand = {} /\ Fresh.latch = None
      /\ \A p \in Processes : Fresh.at[p] = "idle" /\ Fresh.id[p] = None
  BY DEF Fresh
<1>3. \A t \in Tabs : Told(t) = {None}
  BY <1>1, <1>2 DEF Told, Init, Processes
<1>4. OneAccount
  BY <1>3 DEF OneAccount
<1>5. WipedIsEmpty /\ HandIsLatched /\ StampedData /\ NeverAnothers
  BY <1>1, <1>2 DEF Init, WipedIsEmpty, HandIsLatched, StampedData, NeverAnothers
<1>6. JudgedIsFree
  BY DEF Init, JudgedIsFree
<1> QED BY <1>4, <1>5, <1>6 DEF Owned

\* A sign-in, in a new page; giving it up; a reload; the end of a lost session.
LEMMA SessionOwned ==
    ASSUME OneTab, OwnerInv, NEW t \in Tabs
    PROVE  /\ \A u \in Users : SignIn(t, u) => Owned'
           /\ GiveUpSignIn(t) => Owned'
           /\ Reload(t) => Owned'
           /\ LostDone(t) => Owned'
<1>1. ASSUME page' = [page EXCEPT ![t] = Fresh], UNCHANGED <<stamp, tables, sent, stray>>
      PROVE  Owned'
  <2>1. OneAccount'
    BY <1>1, FreshKept DEF OneTab, OneAccount
  <2> QED BY <1>1, <2>1, FreshKept DEF Owned
<1>2. ASSUME NEW u \in Users, SignIn(t, u) PROVE Owned'
  BY <1>1, <1>2 DEF SignIn
<1>3. ASSUME GiveUpSignIn(t) PROVE Owned'
  BY <1>1, <1>3 DEF GiveUpSignIn
<1>4. ASSUME Reload(t) PROVE Owned'
  BY <1>1, <1>4 DEF Reload, storage
<1>5. ASSUME LostDone(t) PROVE Owned'
  BY <1>1, <1>5 DEF LostDone, storage
<1> QED BY <1>2, <1>3, <1>4, <1>5

\* A page whose checks and pass stay as they were, on a device that stays as it
\* was, whatever the account forgets.
LEMMA StillOwned ==
    ASSUME OneTab, OwnerInv, NEW t \in Tabs,
           stamp' = stamp, stray' = stray, queue' = queue, rows' \subseteq rows,
           sent' = sent, cookie' \in {cookie, None},
           \A p \in Processes : page'[t].at[p] = "local" => page[t].at[p] = "local",
           \A p \in Checks : page'[t].at[p] = "after" => page[t].at[p] = "after",
           page'[t].id = page[t].id, page'[t].latch = page[t].latch,
           page'[t].hand \subseteq page[t].hand
    PROVE  Owned'
<1>1. Told(t)' \subseteq Told(t) \union {None}
  BY DEF Told
<1>2. OneAccount'
  BY <1>1, AccountKept DEF OwnerInv
<1>3. StampedData' /\ WipedIsEmpty' /\ JudgedIsFree'
  BY DataKept
<1>4. HandIsLatched' /\ NeverAnothers'
  BY HandKept
<1> QED BY <1>2, <1>3, <1>4 DEF Owned

LEMMA ForgetOwned ==
    ASSUME OneTab, OwnerInv, Expire \/ DeliverLogout
    PROVE  Owned'
<1>1. PICK t \in Tabs : TRUE
  BY OwnerAssumption
<1>2. /\ UNCHANGED <<stamp, rows, queue, page, sent, stray>>
      /\ cookie' = None
  BY DEF Expire, DeliverLogout, storage, tables
<1> QED BY <1>1, <1>2, StillOwned

LEMMA LeaveOwned ==
    ASSUME OneTab, OwnerInv, NEW t \in Tabs, Refused(t) \/ LogOut(t) \/ LoggedOut(t)
    PROVE  Owned'
<1>0. TypeOK /\ page[t] \in Page
  BY DEF OwnerInv, TypeOK
<1>1. CASE Refused(t)
  <2>1. /\ page'[t].at = page[t].at /\ page'[t].id = page[t].id
        /\ page'[t].latch = page[t].latch /\ page'[t].hand = page[t].hand
    BY <1>0, <1>1 DEF Refused, TypeOK, Page
  <2>2. UNCHANGED <<stamp, rows, queue, sent, stray>> /\ cookie' \in {cookie, None}
    BY <1>1 DEF Refused, tables
  <2> QED BY <2>1, <2>2, StillOwned
<1>2. CASE LogOut(t)
  <2>1. PICK q \in Processes \ Checks : Goes(t, q, "tables")
    BY <1>2 DEF LogOut, Processes, Checks
  <2>2. "tables" \in Stages /\ Checks \subseteq Processes
    BY DEF Stages, Checks, Processes
  <2>3. /\ page'[t].id = page[t].id /\ page'[t].latch = page[t].latch
        /\ page'[t].hand = page[t].hand /\ page'[t].at[q] = "tables"
        /\ \A p \in Processes : p # q => page'[t].at[p] = page[t].at[p]
    BY <1>0, <2>1, <2>2, GoesType
  <2>4. UNCHANGED <<stamp, rows, queue, sent, stray, cookie>>
    BY <1>2 DEF LogOut, tables, session
  <2>5. \A p \in Processes : page'[t].at[p] = "local" => page[t].at[p] = "local"
    BY <2>3
  <2>6. \A p \in Checks : page'[t].at[p] = "after" => page[t].at[p] = "after"
    BY <2>2, <2>3
  <2> QED BY <2>3, <2>4, <2>5, <2>6, StillOwned
<1>3. CASE LoggedOut(t)
  <2>1. PICK q \in Processes : LetsGo(t, q)
    BY <1>3 DEF LoggedOut, LetsGo, Processes
  <2>3. /\ page'[t].id = page[t].id /\ page'[t].latch = page[t].latch
        /\ page'[t].hand = page[t].hand /\ page'[t].at[q] = "idle"
        /\ \A p \in Processes : p # q => page'[t].at[p] = page[t].at[p]
    BY <1>0, <2>1, LetGoType
  <2>4. UNCHANGED <<stamp, rows, queue, sent, stray>> /\ cookie' \in {cookie, None}
    BY <1>3 DEF LoggedOut, tables
  <2>5. \A p \in Processes : /\ page'[t].at[p] = "local" => page[t].at[p] = "local"
                             /\ page'[t].at[p] = "after" => page[t].at[p] = "after"
    BY <2>3
  <2>6. Checks \subseteq Processes
    BY DEF Checks, Processes
  <2> QED BY <2>3, <2>4, <2>5, <2>6, StillOwned
<1> QED BY <1>1, <1>2, <1>3

\* A check of the session.  Told of somebody, it was told of the account the
\* page was told of before; when it adopts the device, the device was free or
\* its own, and a free device is empty.
LEMMA CheckOwned ==
    ASSUME OneTab, OwnerInv, NEW t \in Tabs, NEW p \in Checks,
           Ask(t, p) \/ Answer(t, p) \/ Unreachable(t, p) \/ Nobody(t, p)
             \/ Judge(t, p)
    PROVE  Owned'
<1>0. /\ TypeOK /\ page[t] \in Page /\ p \in Processes /\ Checks \subseteq Processes
      /\ {"asked", "idle", "tables", "after"} \subseteq Stages
  BY DEF OwnerInv, TypeOK, Checks, Processes, Stages
<1>1. CASE Ask(t, p)
  <2>1. Goes(t, p, "asked") /\ UNCHANGED <<cookie, stamp, rows, queue, sent, stray>>
    BY <1>1 DEF Ask, session, storage, tables
  <2>2. /\ page'[t].id = page[t].id /\ page'[t].latch = page[t].latch
        /\ page'[t].hand = page[t].hand /\ page'[t].at[p] = "asked"
        /\ \A q \in Processes : q # p => page'[t].at[q] = page[t].at[q]
    BY <1>0, <2>1, GoesType
  <2>3. \A q \in Processes : /\ page'[t].at[q] = "local" => page[t].at[q] = "local"
                             /\ page'[t].at[q] = "after" => page[t].at[q] = "after"
    BY <2>2
  <2> QED BY <1>0, <2>1, <2>2, <2>3, StillOwned
<1>2. CASE Answer(t, p)
  <2>1. /\ page[t].at[p] = "asked"
        /\ page' = [page EXCEPT ![t].at[p] = "answered", ![t].id[p] = cookie]
        /\ UNCHANGED <<cookie, stamp, rows, queue, sent, stray>>
    BY <1>2 DEF Answer, session, storage, tables
  <2>2. /\ page'[t].latch = page[t].latch /\ page'[t].hand = page[t].hand
        /\ page'[t].at[p] = "answered" /\ page'[t].id[p] = cookie
        /\ \A q \in Processes : q # p => /\ page'[t].at[q] = page[t].at[q]
                                         /\ page'[t].id[q] = page[t].id[q]
    <3> DEFINE at == [page[t].at EXCEPT ![p] = "answered"]
               id == [page[t].id EXCEPT ![p] = cookie]
    <3>1. page' = [page EXCEPT ![t] = [page[t] EXCEPT !.at = at, !.id = id]]
      BY <2>1
    <3>2. /\ at[p] = "answered" /\ id[p] = cookie
          /\ \A q \in Processes : q # p => at[q] = page[t].at[q] /\ id[q] = page[t].id[q]
      BY <1>0 DEF Page
    <3> HIDE DEF at, id
    <3>3. /\ page'[t].at = at /\ page'[t].id = id
          /\ page'[t].latch = page[t].latch /\ page'[t].hand = page[t].hand
      BY <1>0, <3>1 DEF TypeOK, Page
    <3> QED BY <3>2, <3>3
  <2>3. Told(t)' \subseteq Told(t) \union {None}
    <3>1. \A q \in Processes : page'[t].id[q] \in Told(t)
      BY <2>1, <2>2 DEF Told
    <3>2. page'[t].latch \in Told(t) /\ cookie' \in Told(t)
      BY <2>1, <2>2 DEF Told
    <3> QED BY <3>1, <3>2 DEF Told
  <2>4. OneAccount'
    BY <2>3, AccountKept DEF OwnerInv
  <2>5. \A q \in Processes : /\ page'[t].at[q] = "local" => page[t].at[q] = "local"
                             /\ page'[t].at[q] = "after" =>
                                  page[t].at[q] = "after" /\ page'[t].id[q] = page[t].id[q]
    BY <2>2
  <2>6. StampedData' /\ WipedIsEmpty' /\ JudgedIsFree'
    BY <1>0, <2>1, <2>5, DataKept
  <2>7. HandIsLatched' /\ NeverAnothers'
    BY <2>1, <2>2, HandKept
  <2> QED BY <2>4, <2>6, <2>7 DEF Owned
<1>3. CASE Unreachable(t, p)
  <2>1. /\ page' = [page EXCEPT ![t].at[p] = "idle",
                               ![t].ui = IF p = "auth" THEN profile ELSE @]
        /\ UNCHANGED <<cookie, stamp, rows, queue, sent, stray>>
    BY <1>3 DEF Unreachable, session, storage, tables
  <2>2. /\ page'[t].id = page[t].id /\ page'[t].latch = page[t].latch
        /\ page'[t].hand = page[t].hand /\ page'[t].at[p] = "idle"
        /\ \A q \in Processes : q # p => page'[t].at[q] = page[t].at[q]
    BY <1>0, <2>1 DEF TypeOK, Page
  <2>3. \A q \in Processes : /\ page'[t].at[q] = "local" => page[t].at[q] = "local"
                             /\ page'[t].at[q] = "after" => page[t].at[q] = "after"
    BY <2>2
  <2> QED BY <1>0, <2>1, <2>2, <2>3, StillOwned
<1>4. CASE Nobody(t, p)
  <2>1. /\ UNCHANGED <<cookie, stamp, queue, sent, stray>> /\ rows' \subseteq rows
        /\ LetsGo(t, p) \/ Goes(t, p, "idle")
    BY <1>4 DEF Nobody, LetsGo, session
  <2>2. /\ page'[t].id = page[t].id /\ page'[t].latch = page[t].latch
        /\ page'[t].hand = page[t].hand /\ page'[t].at[p] = "idle"
        /\ \A q \in Processes : q # p => page'[t].at[q] = page[t].at[q]
    <3>1. CASE LetsGo(t, p)
      BY <1>0, <3>1, LetGoType
    <3>2. CASE Goes(t, p, "idle")
      BY <1>0, <3>2, GoesType
    <3> QED BY <2>1, <3>1, <3>2
  <2>3. \A q \in Processes : /\ page'[t].at[q] = "local" => page[t].at[q] = "local"
                             /\ page'[t].at[q] = "after" => page[t].at[q] = "after"
    BY <2>2
  <2> QED BY <1>0, <2>1, <2>2, <2>3, StillOwned
<1>5. CASE Judge(t, p)
  <2> DEFINE id == page[t].id[p]
             stage == IF Foreign(id) THEN "tables" ELSE "after"
  <2>1. /\ id # None /\ stage \in Stages /\ Goes(t, p, stage)
        /\ UNCHANGED <<cookie, stamp, rows, queue, sent, stray>>
    BY <1>0, <1>5 DEF Judge, Known, session, storage, tables
  <2>0. stage = "tables" \/ (stage = "after" /\ stamp \in {None, id})
    BY <2>1 DEF Foreign
  <2> HIDE DEF id, stage
  <2>2. /\ page'[t].id = page[t].id /\ page'[t].latch = page[t].latch
        /\ page'[t].hand = page[t].hand /\ page'[t].at[p] = stage
        /\ \A q \in Processes : q # p => page'[t].at[q] = page[t].at[q]
    BY <1>0, <2>1, GoesType
  <2>3. OneAccount'
    <3>1. Told(t)' \subseteq Told(t) \union {None}
      BY <2>1, <2>2 DEF Told
    <3> QED BY <3>1, AccountKept DEF OwnerInv
  <2>4. StampedData' /\ HandIsLatched' /\ NeverAnothers'
    BY <2>1, <2>2, HandKept DEF OwnerInv, StampedData
  <2>5. WipedIsEmpty'
    BY <2>0, <2>1, <2>2 DEF OwnerInv, WipedIsEmpty, OneTab
  <2>6. JudgedIsFree'
    BY <1>0, <2>0, <2>1, <2>2 DEF OwnerInv, JudgedIsFree, OneTab, id
  <2> QED BY <2>3, <2>4, <2>5, <2>6 DEF Owned
<1> QED BY <1>1, <1>2, <1>3, <1>4, <1>5

LEMMA AdoptOwned ==
    ASSUME OneTab, OwnerInv, NEW t \in Tabs, NEW p \in Checks, Adopt(t, p)
    PROVE  Owned'
<1> DEFINE id == page[t].id[p]
<1>0. /\ TypeOK /\ page[t] \in Page /\ p \in Processes /\ Checks \subseteq Processes
  BY DEF OwnerInv, TypeOK, Checks, Processes
<1>1. /\ page[t].at[p] = "after" /\ stamp' = id
      /\ page' = [page EXCEPT ![t].at[p] = "idle", ![t].id[p] = None,
                             ![t].ui = IF p = "auth" THEN id ELSE @,
                             ![t].latch = IF p = "flush" THEN id ELSE @]
      /\ UNCHANGED <<cookie, rows, queue, sent, stray>>
  BY DEF Adopt, session, tables
<1>2. id # None /\ id \in Users /\ stamp \in {None, id}
  <2>1. id # None /\ id \in Someone
    BY <1>0, <1>1 DEF TypeOK, Page, Checks
  <2> QED BY <1>1, <2>1 DEF OwnerInv, JudgedIsFree, Someone
<1>3. /\ page'[t].hand = page[t].hand /\ page'[t].latch \in {id, page[t].latch}
      /\ page'[t].at[p] = "idle" /\ page'[t].id[p] = None
      /\ \A q \in Processes : q # p => /\ page'[t].at[q] = page[t].at[q]
                                       /\ page'[t].id[q] = page[t].id[q]
  BY <1>0, <1>1 DEF TypeOK, Page
<1>4. id \in Told(t) /\ page[t].latch \in Told(t) /\ \A q \in Processes : page[t].id[q] \in Told(t)
  BY <1>0 DEF Told
<1> HIDE DEF id
<1>5. OneAccount'
  <2>1. \A q \in Processes : page'[t].id[q] \in Told(t) \union {None}
    BY <1>3, <1>4
  <2>2. page'[t].latch \in Told(t) /\ cookie' \in Told(t)
    BY <1>1, <1>3, <1>4 DEF Told
  <2>3. Told(t)' \subseteq Told(t) \union {None}
    <3> SUFFICES ASSUME NEW a \in Told(t)' PROVE a \in Told(t) \union {None}
      OBVIOUS
    <3>1. (\E q \in Processes : a = page'[t].id[q]) \/ a \in {page'[t].latch, cookie'}
      BY DEF Told
    <3> QED BY <2>1, <2>2, <3>1
  <2> QED BY <2>3, AccountKept DEF OwnerInv
<1>6. StampedData'
  <2>1. \A o \in queue : o.by \in Users
    BY <1>0 DEF TypeOK, Ops
  <2>2. (\A o \in queue : o.by = stamp) /\ rows \subseteq {stamp} \union stray /\ rows \subseteq Users
    BY <1>0 DEF OwnerInv, StampedData, TypeOK
  <2> QED BY <1>1, <1>2, <2>1, <2>2, OwnerAssumption DEF StampedData
<1>7. WipedIsEmpty'
  <2> SUFFICES ASSUME NEW q \in Processes, page'[t].at[q] = "local"
               PROVE  queue' = {} /\ rows' \subseteq stray'
    BY DEF WipedIsEmpty, OneTab
  <2>1. page[t].at[q] = "local"
    BY <1>3
  <2>2. queue = {} /\ rows \subseteq stray
    BY <2>1 DEF OwnerInv, WipedIsEmpty
  <2>3. UNCHANGED <<rows, queue, stray>>
    BY <1>1
  <2> QED BY <2>2, <2>3
<1>8. JudgedIsFree'
  <2> SUFFICES ASSUME NEW q \in Checks, page'[t].at[q] = "after"
               PROVE  id = page'[t].id[q]
    BY <1>1 DEF JudgedIsFree, OneTab
  <2>1. q # p /\ q \in Processes /\ page[t].at[q] = "after" /\ page'[t].id[q] = page[t].id[q]
    BY <1>0, <1>3
  <2>2. page[t].id[q] # None
    BY <1>0, <2>1 DEF TypeOK, Checks
  <2> QED
    BY <1>2, <1>4, <2>1, <2>2 DEF OwnerInv, OneAccount
<1>9. HandIsLatched' /\ NeverAnothers'
  <2>1. ASSUME NEW o \in page[t].hand PROVE page'[t].latch = page[t].latch
    <3>1. page[t].latch # None
      <4>1. o.by \in Users
        BY <1>0 DEF Page, Ops
      <4> QED BY <4>1, OwnerAssumption DEF OwnerInv, HandIsLatched
    <3> QED BY <1>2, <1>3, <1>4, <3>1 DEF OwnerInv, OneAccount
  <2>2. page'[t].hand = {} \/ page'[t].latch = page[t].latch
    BY <1>3, <2>1
  <2> QED BY <1>1, <1>3, <2>2, HandKept
<1> QED BY <1>5, <1>6, <1>7, <1>8, <1>9 DEF Owned

LEMMA WipeOwned ==
    ASSUME OneTab, OwnerInv, NEW t \in Tabs, NEW p \in Processes,
           WipeTables(t, p) \/ WipeLocal(t, p)
    PROVE  Owned'
<1>0. /\ TypeOK /\ Checks \subseteq Processes /\ {"local", "after"} \subseteq Stages
  BY DEF OwnerInv, TypeOK, Checks, Processes, Stages
<1>1. CASE WipeTables(t, p)
  <2>1. /\ rows' = {} /\ queue' = {} /\ Goes(t, p, "local")
        /\ UNCHANGED <<cookie, stamp, sent, stray>>
    BY <1>1 DEF WipeTables, KeptOps, session, storage
  <2>2. /\ page'[t].id = page[t].id /\ page'[t].latch = page[t].latch
        /\ page'[t].hand = page[t].hand /\ page'[t].at[p] = "local"
        /\ \A q \in Processes : q # p => page'[t].at[q] = page[t].at[q]
    BY <1>0, <2>1, GoesType
  <2>3. OneAccount'
    <3>1. Told(t)' \subseteq Told(t) \union {None}
      BY <2>1, <2>2 DEF Told
    <3> QED BY <3>1, AccountKept DEF OwnerInv
  <2>4. StampedData' /\ WipedIsEmpty' /\ HandIsLatched' /\ NeverAnothers'
    BY <2>1, <2>2, HandKept DEF StampedData, WipedIsEmpty
  <2>5. JudgedIsFree'
    BY <1>0, <2>1, <2>2 DEF OwnerInv, JudgedIsFree, OneTab
  <2> QED BY <2>3, <2>4, <2>5 DEF Owned
<1>2. CASE WipeLocal(t, p)
  <2>1. /\ page[t].at[p] = "local" /\ stamp' = None /\ Goes(t, p, "after")
        /\ UNCHANGED <<cookie, rows, queue, sent, stray>>
    BY <1>2 DEF WipeLocal, session, tables
  <2>2. /\ page'[t].id = page[t].id /\ page'[t].latch = page[t].latch
        /\ page'[t].hand = page[t].hand /\ page'[t].at[p] = "after"
        /\ \A q \in Processes : q # p => page'[t].at[q] = page[t].at[q]
    BY <1>0, <2>1, GoesType
  <2>3. OneAccount'
    <3>1. Told(t)' \subseteq Told(t) \union {None}
      BY <2>1, <2>2 DEF Told
    <3> QED BY <3>1, AccountKept DEF OwnerInv
  <2>4. queue = {} /\ rows \subseteq stray
    BY <2>1 DEF OwnerInv, WipedIsEmpty
  <2>5. StampedData' /\ WipedIsEmpty' /\ JudgedIsFree'
    BY <2>1, <2>4 DEF StampedData, WipedIsEmpty, JudgedIsFree
  <2>6. HandIsLatched' /\ NeverAnothers'
    BY <2>1, <2>2, HandKept
  <2> QED BY <2>3, <2>5, <2>6 DEF Owned
<1> QED BY <1>1, <1>2

\* What the pages do meanwhile.  Only the stamped account's page queues ops, a
\* pass takes them under the account it was verified for, and the cookie they go
\* out under is, in one tab, that account's.
LEMMA WorkOwned ==
    ASSUME OneTab, OwnerInv, NEW t \in Tabs
    PROVE  /\ Read(t) \/ StartPass(t) => Owned'
           /\ \A u \in Users : ReadLands(t, u) => Owned'
           /\ \A o \in Ops : Edit(t, o) \/ Send(t, o) => Owned'
<1>0. TypeOK /\ page[t] \in Page /\ Checks \subseteq Processes
  BY DEF OwnerInv, TypeOK, Checks, Processes
<1>1. ASSUME page' = Lost(t), UNCHANGED <<cookie, stamp, rows, queue, sent, stray>>
      PROVE  Owned'
  <2>1. /\ page'[t].id = page[t].id /\ page'[t].latch = page[t].latch /\ page'[t].hand = {}
        /\ \A p \in Processes : page'[t].at[p] = "local" => page[t].at[p] = "local"
        /\ \A p \in Processes : page'[t].at[p] = "after" => page[t].at[p] = "after"
    BY <1>0, <1>1, LostType
  <2> QED BY <1>0, <1>1, <2>1, StillOwned
<1>2. ASSUME Read(t) PROVE Owned'
  <2>1. UNCHANGED <<cookie, stamp, rows, queue, sent, stray>>
    BY <1>2 DEF Read, session, tables
  <2>2. CASE cookie = None
    BY <1>1, <1>2, <2>1, <2>2 DEF Read
  <2>3. CASE cookie # None
    <3>1. page' = [page EXCEPT ![t].reads = @ \union {cookie}]
      BY <1>2, <2>3 DEF Read
    <3>2. /\ page'[t].id = page[t].id /\ page'[t].latch = page[t].latch
          /\ page'[t].hand = page[t].hand /\ page'[t].at = page[t].at
      BY <1>0, <3>1 DEF TypeOK, Page
    <3> QED BY <2>1, <3>2, StillOwned
  <2> QED BY <2>2, <2>3
<1>3. ASSUME NEW u \in Users, ReadLands(t, u) PROVE Owned'
  <2>1. /\ page' = [page EXCEPT ![t].reads = @ \ {u}] /\ rows' = rows \union {u}
        /\ stray' = IF stamp = u /\ ~Emptied THEN stray ELSE stray \union {u}
        /\ UNCHANGED <<cookie, stamp, queue, sent>>
    BY <1>3 DEF ReadLands, session, storage
  <2>2. /\ page'[t].id = page[t].id /\ page'[t].latch = page[t].latch
        /\ page'[t].hand = page[t].hand /\ page'[t].at = page[t].at
    BY <1>0, <2>1 DEF TypeOK, Page
  <2>3. OneAccount'
    <3>1. Told(t)' \subseteq Told(t) \union {None}
      BY <2>1, <2>2 DEF Told
    <3> QED BY <3>1, AccountKept DEF OwnerInv
  <2>4. HandIsLatched' /\ NeverAnothers'
    BY <2>1, <2>2, HandKept
  <2>5. StampedData'
    BY <2>1 DEF OwnerInv, StampedData
  <2>6. JudgedIsFree'
    BY <2>1, <2>2 DEF OwnerInv, JudgedIsFree, OneTab
  <2>7. WipedIsEmpty'
    <3> SUFFICES ASSUME NEW p \in Processes, page'[t].at[p] = "local"
                 PROVE  queue' = {} /\ rows' \subseteq stray'
      BY DEF WipedIsEmpty, OneTab
    <3>1. Emptied
      BY <2>2 DEF Emptied
    <3>2. queue = {} /\ rows \subseteq stray
      BY <2>2 DEF OwnerInv, WipedIsEmpty
    <3> QED BY <2>1, <3>1, <3>2
  <2> QED BY <2>3, <2>4, <2>5, <2>6, <2>7 DEF Owned
<1>4. ASSUME StartPass(t) PROVE Owned'
  <2>1. /\ page[t].latch = stamp /\ page' = [page EXCEPT ![t].hand = queue]
        /\ UNCHANGED <<cookie, stamp, rows, queue, sent, stray>>
    BY <1>4 DEF StartPass, session, storage, tables
  <2>2. /\ page'[t].id = page[t].id /\ page'[t].latch = page[t].latch
        /\ page'[t].hand = queue /\ page'[t].at = page[t].at
    BY <1>0, <2>1 DEF TypeOK, Page
  <2>3. OneAccount'
    <3>1. Told(t)' \subseteq Told(t) \union {None}
      BY <2>1, <2>2 DEF Told
    <3> QED BY <3>1, AccountKept DEF OwnerInv
  <2>4. StampedData' /\ WipedIsEmpty' /\ JudgedIsFree'
    BY <2>1, <2>2, DataKept
  <2>5. HandIsLatched'
    BY <2>1, <2>2 DEF OwnerInv, StampedData, HandIsLatched, OneTab
  <2>6. NeverAnothers'
    BY <2>1 DEF OwnerInv, NeverAnothers
  <2> QED BY <2>3, <2>4, <2>5, <2>6 DEF Owned
<1>5. ASSUME NEW o \in Ops, Edit(t, o) PROVE Owned'
  <2>1. /\ Settled(t) /\ page[t].ui = o.by
        /\ queue' = queue \union {o} /\ rows' = rows \union {o.by}
        /\ UNCHANGED <<cookie, stamp, page, sent, stray>>
    BY <1>5 DEF Edit, OneTab, session, storage
  <2>2. stamp = o.by /\ \A p \in Processes : page[t].at[p] # "local"
    BY <2>1 DEF Settled
  <2>3. StampedData' /\ WipedIsEmpty'
    BY <2>1, <2>2 DEF OwnerInv, StampedData, WipedIsEmpty, OneTab
  <2>4. Told(t)' = Told(t)
    BY <2>1 DEF Told
  <2>5. OneAccount'
    BY <2>4, AccountKept DEF OwnerInv
  <2>6. JudgedIsFree' /\ HandIsLatched' /\ NeverAnothers'
    BY <2>1 DEF OwnerInv, JudgedIsFree, HandIsLatched, NeverAnothers
  <2> QED BY <2>3, <2>5, <2>6 DEF Owned
<1>6. ASSUME NEW o \in Ops, Send(t, o) PROVE Owned'
  <2>0. o \in page[t].hand /\ UNCHANGED <<cookie, stamp, rows, stray>>
    BY <1>6 DEF Send, session
  <2>1. CASE cookie = None
    BY <1>1, <1>6, <2>0, <2>1 DEF Send
  <2>2. CASE cookie # None
    <3>1. /\ page' = [page EXCEPT ![t].hand = @ \ {o}] /\ queue' = queue \ {o}
          /\ sent' = sent \union {<<o, cookie>>}
      BY <1>6, <2>2 DEF Send
    <3>2. /\ page'[t].id = page[t].id /\ page'[t].latch = page[t].latch
          /\ page'[t].hand = page[t].hand \ {o} /\ page'[t].at = page[t].at
      BY <1>0, <3>1 DEF TypeOK, Page
    <3>3. o.by = cookie
      <4>1. o.by = page[t].latch /\ o.by \in Users
        BY <2>0 DEF OwnerInv, HandIsLatched, Ops
      <4>2. page[t].latch \in Told(t) /\ cookie \in Told(t)
        BY DEF Told
      <4> QED BY <2>2, <4>1, <4>2, OwnerAssumption DEF OwnerInv, OneAccount
    <3>4. OneAccount'
      <4>1. Told(t)' \subseteq Told(t) \union {None}
        BY <2>0, <3>2 DEF Told
      <4> QED BY <4>1, AccountKept DEF OwnerInv
    <3>5. StampedData' /\ WipedIsEmpty' /\ JudgedIsFree'
      BY <2>0, <3>1, <3>2, DataKept
    <3>6. HandIsLatched'
      BY <3>2 DEF OwnerInv, HandIsLatched, OneTab
    <3>7. NeverAnothers'
      BY <3>1, <3>3 DEF OwnerInv, NeverAnothers
    <3> QED BY <3>4, <3>5, <3>6, <3>7 DEF Owned
  <2> QED BY <2>1, <2>2
<1> QED BY <1>2, <1>3, <1>4, <1>5, <1>6

LEMMA StepOwned == OneTab /\ OwnerInv /\ [Next]_vars => Owned'
<1> SUFFICES ASSUME OneTab, OwnerInv, [Next]_vars PROVE Owned'
  OBVIOUS
<1>1. CASE UNCHANGED vars
  <2>1. PICK t \in Tabs : TRUE
    BY OwnerAssumption
  <2> QED BY <1>1, <2>1, StillOwned DEF vars, session, storage, tables
<1>2. ASSUME NEW t \in Tabs, NEW u \in Users, SignIn(t, u) \/ ReadLands(t, u)
      PROVE  Owned'
  BY <1>2, SessionOwned, WorkOwned
<1>3. ASSUME NEW t \in Tabs, GiveUpSignIn(t) \/ Reload(t) \/ LostDone(t) PROVE Owned'
  BY <1>3, SessionOwned
<1>4. ASSUME NEW t \in Tabs, Refused(t) \/ LogOut(t) \/ LoggedOut(t) PROVE Owned'
  BY <1>4, LeaveOwned
<1>5. ASSUME NEW t \in Tabs, NEW p \in {"auth", "flush"},
             Ask(t, p) \/ Answer(t, p) \/ Unreachable(t, p) \/ Nobody(t, p)
               \/ Judge(t, p) \/ Adopt(t, p)
      PROVE  Owned'
  BY <1>5, CheckOwned, AdoptOwned DEF Checks
<1>6. ASSUME NEW t \in Tabs, NEW p \in Processes, WipeTables(t, p) \/ WipeLocal(t, p)
      PROVE  Owned'
  BY <1>6, WipeOwned
<1>7. ASSUME NEW t \in Tabs, Read(t) \/ StartPass(t) PROVE Owned'
  BY <1>7, WorkOwned
<1>8. ASSUME NEW t \in Tabs, NEW o \in Ops, Edit(t, o) \/ Send(t, o) PROVE Owned'
  BY <1>8, WorkOwned
<1>9. ASSUME Expire \/ DeliverLogout PROVE Owned'
  BY <1>9, ForgetOwned
<1> QED BY <1>1, <1>2, <1>3, <1>4, <1>5, <1>6, <1>7, <1>8, <1>9 DEF Next

-----------------------------------------------------------------------------
(* Theorems *)

\* OwnerInv, which says all of the above at once, holds of every behaviour.
LEMMA OwnerInvariant ==
    ASSUME OneTab
    PROVE  Spec => []OwnerInv
<1>1. Init => OwnerInv
  BY InitTypes, InitOwned DEF Owned, OwnerInv
<1>2. OwnerInv /\ [Next]_vars => OwnerInv'
  BY StepTypes, StepOwned DEF Owned, OwnerInv
<1> QED BY <1>1, <1>2, PTL DEF Spec

\* In a browser with one tab, whose pages queue nothing once they are no longer
\* the owner's, an op queued by one account is never applied to another's
\* library, however sessions end, fail to end and follow each other.
THEOREM OpsStayWithTheirAccount ==
    ASSUME OneTab
    PROVE  Spec => []NeverAnothers
<1>1. OwnerInv => NeverAnothers
  BY DEF OwnerInv
<1> QED BY <1>1, OwnerInvariant, PTL

\* There, a stamped device holds the rows of the account on the stamp, but for
\* those of an answer that landed after the device changed hands.
THEOREM RowsStayWithTheStamp ==
    ASSUME OneTab
    PROVE  Spec => []OnlyOwnRows
<1>1. OwnerInv => OnlyOwnRows
  BY DEF OwnerInv, StampedData, OnlyOwnRows
<1> QED BY <1>1, OwnerInvariant, PTL
=============================================================================
