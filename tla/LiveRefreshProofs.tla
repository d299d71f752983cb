------------------------- MODULE LiveRefreshProofs -------------------------
(***************************************************************************)
(* Proofs about LiveRefresh: its types, that a tab never has two live      *)
(* sockets, and that a tab that is behind has a refresh on its way.        *)
(***************************************************************************)
EXTENDS LiveRefresh, TLAPS

USE LiveAssumption

-----------------------------------------------------------------------------
(* What the operators return *)

\* A token's read covers the token, and only tokens.
LEMMA WholeCovers == \A t \in Tokens : t \in Whole(t) /\ Whole(t) \subseteq Tokens
  BY DEF Whole, Tokens

\* An event is about tokens, a scoped one about one series.
LEMMA EventAbout ==
  ASSUME NEW e \in Events
  PROVE  /\ e.what \subseteq Tokens /\ e.scoped \in BOOLEAN
         /\ e.scoped => \E s \in Series : e.what = {s}
  <1>1. CASE \E s \in Series : e = [what |-> {s}, scoped |-> TRUE]
    <2>1. PICK s \in Series : e = [what |-> {s}, scoped |-> TRUE]
      BY <1>1
    <2>2. e.what = {s} /\ e.scoped = TRUE
      BY <2>1
    <2> QED BY <2>2 DEF Tokens
  <1>2. CASE \E t \in Tokens : e = [what |-> Whole(t), scoped |-> FALSE]
    <2>1. PICK t \in Tokens : e = [what |-> Whole(t), scoped |-> FALSE]
      BY <1>2
    <2>2. e.what = Whole(t) /\ e.scoped = FALSE
      BY <2>1
    <2> QED BY <2>2, WholeCovers
  <1> QED BY <1>1, <1>2 DEF Events

\* What a lagging socket is sent is an event like any other.
LEMMA ResyncIsEvent == Resync \in Events
  <1>1. PICK s \in Series : TRUE
    OBVIOUS
  <1>2. s \in Tokens /\ Whole(s) = Series
    BY DEF Tokens, Whole
  <1> QED BY <1>2 DEF Resync, Events

\* The states of a debounce entry.
LEMMA EntryTypes ==
  /\ NoEntry \in Entry /\ Asked \in Entry
  /\ \A st \in Entry : Heard(st) \in Entry /\ Settled(st) \in Entry
  <1>1. 0 \in Versions
    BY DEF Versions
  <1>2. NoEntry \in Entry
    BY <1>1 DEF Entry, NoEntry
  <1>3. Asked \in Entry
    BY <1>1 DEF Entry, NoEntry, Asked
  <1>4. ASSUME NEW st \in Entry PROVE Heard(st) \in Entry
    BY DEF Entry, Heard
  <1>5. ASSUME NEW st \in Entry PROVE Settled(st) \in Entry
    BY <1>2, <1>3 DEF Settled
  <1> QED BY <1>2, <1>3, <1>4, <1>5

\* A read that starts is a read.
LEMMA ReadTypes == \A t \in Tokens : Read(Whole(t)) \in Reads
  BY DEF Read, Reads, Versions

\* The channel stays within its bound.
LEMMA PushedType ==
  ASSUME NEW e \in Events, ring \in Seq(Events), Len(ring) <= Buffer
  PROVE  Pushed(e) \in Seq(Events) /\ Len(Pushed(e)) <= Buffer
  <1>1. CASE Len(ring) < Buffer
    BY <1>1 DEF Pushed
  <1>2. CASE ~(Len(ring) < Buffer)
    <2>1. ring # <<>> /\ Tail(ring) \in Seq(Events) /\ Len(Tail(ring)) = Len(ring) - 1
      BY <1>2
    <2> QED BY <1>2, <2>1 DEF Pushed
  <1> QED BY <1>1, <1>2

\* What waits in the channel after it took an event: all that waited, the
\* oldest excepted if it was full, and the event.
LEMMA PushedWaits ==
  ASSUME NEW e \in Events, ring \in Seq(Events), Len(ring) <= Buffer,
         ring' = Pushed(e)
  PROVE  /\ e \in Waiting'
         /\ \A d \in Waiting : d \in Waiting' \/ (Len(ring) = Buffer /\ d = Head(ring))
  <1>1. CASE Len(ring) < Buffer
    <2>1. ring' = Append(ring, e)
      BY <1>1 DEF Pushed
    <2>2. /\ DOMAIN ring = 1..Len(ring) /\ DOMAIN (ring') = 1..(Len(ring) + 1)
          /\ \A i \in 1..Len(ring) : (ring')[i] = ring[i]
          /\ (ring')[Len(ring) + 1] = e
      BY <2>1
    <2> QED BY <2>2 DEF Waiting
  <1>2. CASE ~(Len(ring) < Buffer)
    <2>1. /\ ring' = Append(Tail(ring), e) /\ Len(ring) = Buffer
          /\ ring # <<>> /\ Tail(ring) \in Seq(Events)
      BY <1>2 DEF Pushed
    <2>2. /\ DOMAIN ring = 1..Len(ring) /\ DOMAIN (ring') = 1..Len(ring)
          /\ \A i \in 2..Len(ring) : (ring')[i - 1] = ring[i]
          /\ (ring')[Len(ring)] = e
      BY <2>1
    <2>3. e \in Waiting'
      BY <2>1, <2>2 DEF Waiting
    <2>4. ASSUME NEW d \in Waiting
          PROVE  d \in Waiting' \/ (Len(ring) = Buffer /\ d = Head(ring))
      <3>1. PICK i \in 1..Len(ring) : d = ring[i]
        BY <2>2 DEF Waiting
      <3>2. CASE i = 1
        BY <2>1, <3>1, <3>2
      <3>3. CASE i # 1
        <4>1. i \in 2..Len(ring) /\ i - 1 \in DOMAIN (ring')
          BY <2>2, <3>1, <3>3
        <4> QED BY <2>2, <3>1, <4>1 DEF Waiting
      <3> QED BY <3>2, <3>3
    <2> QED BY <2>3, <2>4
  <1> QED BY <1>1, <1>2

\* What waits after the oldest is taken.
LEMMA TakenWaits ==
  ASSUME ring \in Seq(Events), ring # <<>>, ring' = Tail(ring)
  PROVE  /\ Head(ring) \in Events
         /\ \A d \in Waiting : d \in Waiting' \/ d = Head(ring)
  <1>1. /\ DOMAIN ring = 1..Len(ring) /\ DOMAIN (ring') = 1..(Len(ring) - 1)
        /\ \A i \in 2..Len(ring) : (ring')[i - 1] = ring[i]
        /\ Head(ring) = ring[1] /\ ring[1] \in Events
    OBVIOUS
  <1>2. ASSUME NEW d \in Waiting
        PROVE  d \in Waiting' \/ d = Head(ring)
    <2>1. PICK i \in 1..Len(ring) : d = ring[i]
      BY <1>1 DEF Waiting
    <2>2. CASE i = 1
      BY <1>1, <2>1, <2>2
    <2>3. CASE i # 1
      <3>1. i \in 2..Len(ring) /\ i - 1 \in DOMAIN (ring')
        BY <1>1, <2>1, <2>3
      <3> QED BY <1>1, <2>1, <3>1 DEF Waiting
    <2> QED BY <2>2, <2>3
  <1> QED BY <1>1, <1>2

-----------------------------------------------------------------------------
(* Types, and one socket *)

\* Versions count changes, and every close that is still to come was a fault.
Counts == (\A t \in Tokens : server[t] <= changes) /\ closing <= faults

\* A paused tab has no socket: OneConnection is not inductive without it, for a
\* socket that closed under a hidden tab would arm the timer.
Paused == hidden => socket = "none"

TypeInv == TypeOK /\ OneConnection /\ Counts /\ Paused

LEMMA InitTypes == Init => TypeInv
  <1> SUFFICES ASSUME Init PROVE TypeInv
    OBVIOUS
  <1>1. server \in [Tokens -> Versions] /\ copy \in [Tokens -> Versions] /\ changes \in Versions
    BY DEF Init, Versions
  <1>2. ring \in Seq(Events) /\ Len(ring) <= Buffer /\ scoped \in [Series -> Entry]
    BY EntryTypes DEF Init
  <1>3. orphans \in 0..MaxFaults /\ closing \in 0..MaxFaults /\ faults \in 0..MaxFaults
    BY DEF Init
  <1>4. TypeOK
    BY <1>1, <1>2, <1>3 DEF Init, TypeOK
  <1>5. OneConnection /\ Counts /\ Paused
    BY DEF Init, OneConnection, Counts, Paused
  <1> QED BY <1>4, <1>5 DEF TypeInv

\* Writing rows leaves versions and tokens.
LEMMA WriteTypes ==
  ASSUME TypeOK, NEW what \in SUBSET Tokens, NEW ans \in [Tokens -> Versions], Write(what, ans)
  PROVE  copy' \in [Tokens -> Versions] /\ gaps' \subseteq Tokens
  BY DEF Write, TypeOK

\* So does what a frame leaves.
LEMMA AcceptTypes ==
  ASSUME TypeOK, NEW e \in Events, Accept(e)
  PROVE  scoped' \in [Series -> Entry] /\ keys' \subseteq Tokens /\ reads' = reads
  <1>1. CASE e.scoped
    BY <1>1, EntryTypes DEF Accept, TypeOK
  <1>2. CASE ~e.scoped
    BY <1>2, EventAbout DEF Accept, TypeOK
  <1> QED BY <1>1, <1>2

\* And a cut.
LEMMA CutTypes ==
  ASSUME TypeOK, Cut
  PROVE  /\ ring' \in Seq(Events) /\ Len(ring') <= Buffer
         /\ lagged' = FALSE /\ gaps' \subseteq Tokens
  <1>1. \A d \in Waiting : d \in Events
    BY DEF Waiting, TypeOK
  <1>2. ring' \in Seq(Events) /\ Len(ring') <= Buffer
    BY DEF Cut
  <1> QED BY <1>1, <1>2, EventAbout DEF Cut, Covered, Tokens, TypeOK

LEMMA StepTypes == TypeInv /\ [Next]_vars => TypeInv'
  <1> SUFFICES ASSUME TypeInv, [Next]_vars PROVE TypeInv'
    OBVIOUS
  <1> USE DEF TypeInv
  <1>1. ASSUME NEW t \in Tokens, Change(t) PROVE TypeInv'
    <2>1. changes + 1 \in Versions /\ server[t] + 1 \in Versions
      BY <1>1 DEF Change, TypeOK, Counts, Versions
    <2> QED BY <1>1, <2>1 DEF Change, TypeOK, Counts, OneConnection, Paused, Versions, link, tab
  <1>2. ASSUME NEW e \in due, Publish(e) PROVE TypeInv'
    <2>1. e \in Events /\ e.what \subseteq Tokens
      BY EventAbout DEF TypeOK
    <2>2. ring' \in Seq(Events) /\ Len(ring') <= Buffer /\ lagged' \in BOOLEAN
      BY <1>2, <2>1, PushedType DEF Publish, TypeOK
    <2>3. gaps' \subseteq Tokens
      <3>1. CASE socket = "open" /\ Len(ring) = Buffer
        <4>1. Head(ring) \in Events
          BY <3>1 DEF TypeOK
        <4> QED BY <1>2, <3>1, <4>1, EventAbout DEF Publish, TypeOK
      <3>2. CASE ~(socket = "open" /\ Len(ring) = Buffer)
        BY <1>2, <2>1, <3>2 DEF Publish, TypeOK
      <3> QED BY <3>1, <3>2
    <2> QED BY <1>2, <2>2, <2>3 DEF Publish, TypeOK, Counts, OneConnection, Paused, link, tab
  <1>3. ASSUME NEW e \in due, PublishMissed(e) PROVE TypeInv'
    <2>1. e \in Events /\ e.what \subseteq Tokens
      BY EventAbout DEF TypeOK
    <2> QED BY <1>3, <2>1 DEF PublishMissed, Fault, TypeOK, Counts, OneConnection, Paused, link, tab
  <1>4. ASSUME Deliver PROVE TypeInv'
    <2>1. PICK e \in Events : Accept(e) /\ (ring' = ring \/ (ring # <<>> /\ ring' = Tail(ring)))
                              /\ lagged' \in BOOLEAN
      <3>1. CASE lagged
        BY <1>4, <3>1, ResyncIsEvent DEF Deliver
      <3>2. CASE ~lagged
        <4>1. ring # <<>> /\ Head(ring) \in Events
          BY <1>4, <3>2 DEF Deliver, TypeOK
        <4> QED BY <1>4, <3>2, <4>1 DEF Deliver, TypeOK
      <3> QED BY <3>1, <3>2
    <2>2. ring' \in Seq(Events) /\ Len(ring') <= Buffer
      BY <2>1 DEF TypeOK
    <2> QED BY <1>4, <2>1, <2>2, AcceptTypes DEF Deliver, TypeOK, Counts, OneConnection, Paused, link
  <1>5. ASSUME NEW s \in Series, ScopedStart(s) PROVE TypeInv'
    BY <1>5, EntryTypes DEF ScopedStart, TypeOK, Counts, OneConnection, Paused, link, wire
  <1>6. ASSUME NEW s \in Series, ScopedAnswer(s) PROVE TypeInv'
    <2>1. [scoped[s] EXCEPT !.run = "answered", !.ans = server[s]] \in Entry
      BY DEF TypeOK, Entry, Tokens
    <2> QED BY <1>6, <2>1 DEF ScopedAnswer, TypeOK, Counts, OneConnection, Paused, link, wire
  <1>7. ASSUME NEW s \in Series, ScopedWrite(s) PROVE TypeInv'
    <2>1. [t \in Tokens |-> scoped[s].ans] \in [Tokens -> Versions] /\ {s} \subseteq Tokens
      BY DEF TypeOK, Entry, Tokens
    <2>2. copy' \in [Tokens -> Versions] /\ gaps' \subseteq Tokens
      BY <1>7, <2>1, WriteTypes DEF ScopedWrite
    <2> QED BY <1>7, <2>2, EntryTypes DEF ScopedWrite, TypeOK, Counts, OneConnection, Paused, link, wire
  <1>8. ASSUME NEW s \in Series, ScopedFail(s) PROVE TypeInv'
    <2>1. Fallback(s) \subseteq Tokens
      BY WholeCovers DEF Fallback, Tokens
    <2> QED BY <1>8, <2>1, EntryTypes DEF ScopedFail, Fault, TypeOK, Counts, OneConnection, Paused, link, wire
  <1>9. ASSUME KeysFlush PROVE TypeInv'
    BY <1>9, ReadTypes DEF KeysFlush, TypeOK, Counts, OneConnection, Paused, link, wire
  <1>10. ASSUME NEW r \in reads, ReadAnswer(r) PROVE TypeInv'
    <2>1. [r EXCEPT !.answered = TRUE, !.ans = server] \in Reads
      BY DEF TypeOK, Reads
    <2> QED BY <1>10, <2>1 DEF ReadAnswer, TypeOK, Counts, OneConnection, Paused, link, wire
  <1>11. ASSUME NEW r \in reads, ReadWrite(r) PROVE TypeInv'
    <2>1. r.what \in SUBSET Tokens /\ r.ans \in [Tokens -> Versions]
      BY WholeCovers DEF TypeOK, Reads
    <2>2. copy' \in [Tokens -> Versions] /\ gaps' \subseteq Tokens
      BY <1>11, <2>1, WriteTypes DEF ReadWrite
    <2> QED BY <1>11, <2>2 DEF ReadWrite, TypeOK, Counts, OneConnection, Paused, link, wire
  <1>12. ASSUME NEW r \in reads, ReadFail(r) PROVE TypeInv'
    <2>1. r.what \in SUBSET Tokens
      BY WholeCovers DEF TypeOK, Reads
    <2> QED BY <1>12, <2>1 DEF ReadFail, Fault, TypeOK, Counts, OneConnection, Paused, link, wire
  <1>13. ASSUME Opened PROVE TypeInv'
    BY <1>13 DEF Opened, TypeOK, Counts, OneConnection, Paused, tab, wire
  <1>14. ASSUME Closed PROVE TypeInv'
    <2>1. faults' \in 0..MaxFaults /\ faults' = faults + 1
      BY <1>14 DEF Closed, Fault, TypeOK
    <2>2. retry' \in BOOLEAN /\ ~hidden' /\ socket' = "none"
      BY <1>14 DEF Closed, Heeded, Paused, TypeOK
    <2>3. TypeOK'
      BY <1>14, <2>1, <2>2, CutTypes DEF Closed, TypeOK, tab
    <2>4. Counts'
      BY <1>14, <2>1 DEF Closed, Counts, TypeOK
    <2>5. orphans' = 0
      BY <1>14 DEF Closed, OneConnection
    <2> QED BY <2>2, <2>3, <2>4, <2>5 DEF OneConnection, Paused
  <1>15. ASSUME Reconnect PROVE TypeInv'
    BY <1>15, CutTypes DEF Reconnect, TypeOK, Counts, OneConnection, Paused, tab
  <1>16. ASSUME LateClose PROVE TypeInv'
    BY <1>16 DEF LateClose, Heeded, TypeOK, Counts, OneConnection, Paused, tab, wire
  <1>17. ASSUME Hide PROVE TypeInv'
    <2>1. faults' \in 0..MaxFaults /\ faults' = faults + 1
      BY <1>17 DEF Hide, Fault, TypeOK
    <2>2. closing' \in 0..MaxFaults /\ closing' <= faults'
      BY <1>17, <2>1 DEF Hide, Counts, TypeOK
    <2>3. TypeOK'
      BY <1>17, <2>1, <2>2, CutTypes DEF Hide, TypeOK, tab
    <2> QED BY <1>17, <2>2, <2>3 DEF Hide, Counts, OneConnection, Paused
  <1>18. ASSUME Show PROVE TypeInv'
    <2>1. reads' \subseteq Reads
      BY <1>18, ReadTypes DEF Show, TypeOK
    <2>2. hidden' = FALSE /\ socket' = "opening" /\ retry = FALSE
      BY <1>18 DEF Show, OneConnection
    <2> QED BY <1>18, <2>1, <2>2 DEF Show, TypeOK, Counts, OneConnection, Paused, wire
  <1>19. CASE UNCHANGED vars
    BY <1>19 DEF vars, wire, tab, link, TypeOK, Counts, OneConnection, Paused, Versions
  <1> QED BY <1>1, <1>2, <1>3, <1>4, <1>5, <1>6, <1>7, <1>8, <1>9, <1>10, <1>11, <1>12,
             <1>13, <1>14, <1>15, <1>16, <1>17, <1>18, <1>19 DEF Next, Refreshes

\* The types of LiveRefresh, for any tokens, channel and number of faults.
THEOREM TypeCorrect == Spec => []TypeOK
  <1>1. TypeInv => TypeOK
    BY DEF TypeInv
  <1> QED BY <1>1, InitTypes, StepTypes, PTL DEF Spec

\* However sockets close, are paused and reopened, and however late their close
\* events come, the tab forgets no live socket and never reconnects over one.
THEOREM SocketsNeverDouble == Spec => []OneConnection
  <1>1. TypeInv => OneConnection
    BY DEF TypeInv
  <1> QED BY <1>1, InitTypes, StepTypes, PTL DEF Spec

-----------------------------------------------------------------------------
(* Nothing is ahead of the server *)

\* Rows come from the server.
RowsBehind == \A t \in Tokens : copy[t] <= server[t]

\* So do answers, and a refresh that runs has no timer of its own.
EntriesBehind == \A s \in Series :
    /\ scoped[s].run = "answered" => scoped[s].ans <= server[s]
    /\ scoped[s].run # "no" => ~scoped[s].timer

ReadsBehind == \A r \in reads : r.answered => \A t \in r.what : r.ans[t] <= server[t]

Behind == RowsBehind /\ EntriesBehind /\ ReadsBehind

LEMMA InitBehind == Init => Behind
  BY DEF Init, Behind, RowsBehind, EntriesBehind, ReadsBehind, NoEntry

\* What the steps of an entry do to its stage.
LEMMA EntrySteps ==
  /\ NoEntry.run = "no" /\ ~NoEntry.timer
  /\ Asked.run = "asked" /\ ~Asked.timer
  /\ \A st \in Entry :
       /\ Heard(st).run = st.run /\ Heard(st).ans = st.ans
       /\ (st.timer => Heard(st).timer) /\ (st.again => Heard(st).again)
       /\ Heard(st).timer \/ Heard(st).again
       /\ st.run # "no" => Heard(st).timer = st.timer
       /\ Settled(st) \in {NoEntry, Asked} /\ (st.again => Settled(st) = Asked)
  <1>1. NoEntry.run = "no" /\ ~NoEntry.timer /\ Asked.run = "asked" /\ ~Asked.timer
    BY DEF NoEntry, Asked
  <1>2. ASSUME NEW st \in Entry
        PROVE  /\ Heard(st).run = st.run /\ Heard(st).ans = st.ans
               /\ (st.timer => Heard(st).timer) /\ (st.again => Heard(st).again)
               /\ Heard(st).timer \/ Heard(st).again
               /\ st.run # "no" => Heard(st).timer = st.timer
    BY DEF Heard, Entry
  <1>3. ASSUME NEW st \in Entry
        PROVE  Settled(st) \in {NoEntry, Asked} /\ (st.again => Settled(st) = Asked)
    BY DEF Settled
  <1> QED BY <1>1, <1>2, <1>3

\* A frame leaves entries as they were, but for their timers and knocks.
LEMMA AcceptEntries ==
  ASSUME TypeOK, NEW e, Accept(e), NEW s \in Series
  PROVE  /\ scoped'[s].run = scoped[s].run /\ scoped'[s].ans = scoped[s].ans
         /\ scoped[s].timer => scoped'[s].timer
         /\ scoped[s].again => scoped'[s].again
         /\ scoped[s].run # "no" => scoped'[s].timer = scoped[s].timer
         /\ e.scoped /\ s \in e.what => scoped'[s].timer \/ scoped'[s].again
  <1>1. scoped[s] \in Entry
    BY DEF TypeOK
  <1>2. scoped'[s] = scoped[s] \/ scoped'[s] = Heard(scoped[s])
    BY DEF Accept
  <1>3. e.scoped /\ s \in e.what => scoped'[s] = Heard(scoped[s])
    BY DEF Accept
  <1> QED BY <1>1, <1>2, <1>3, EntrySteps

\* Only a commit moves the server, forwards.
LEMMA ServerGrows ==
  ASSUME TypeInv, [Next]_vars, NEW t \in Tokens
  PROVE  server'[t] >= server[t]
  <1>1. server[t] \in Int
    BY DEF TypeInv, TypeOK, Versions
  <1>2. ASSUME NEW u \in Tokens, Change(u) PROVE server'[t] >= server[t]
    BY <1>1, <1>2 DEF Change, TypeInv, TypeOK
  <1>3. ASSUME UNCHANGED server PROVE server'[t] >= server[t]
    BY <1>1, <1>3
  <1> QED BY <1>2, <1>3
      DEF Next, Refreshes, vars, Publish, PublishMissed, Deliver, ScopedStart, ScopedAnswer,
          ScopedWrite, KeysFlush, ReadAnswer, ReadWrite, ScopedFail, ReadFail, Opened, Closed,
          Reconnect, LateClose, Hide, Show

LEMMA StepBehind == TypeInv /\ Behind /\ [Next]_vars => Behind'
  <1> SUFFICES ASSUME TypeInv, Behind, [Next]_vars PROVE Behind'
    OBVIOUS
  <1>t. /\ \A t \in Tokens : server[t] \in Int /\ server'[t] \in Int /\ copy[t] \in Int
        /\ \A s \in Series : scoped[s] \in Entry /\ scoped[s].ans \in Int /\ s \in Tokens
        /\ \A r \in reads : r.what \subseteq Tokens /\ \A t \in Tokens : r.ans[t] \in Int
    <2>1. TypeInv'
      BY StepTypes
    <2>2. \A r \in reads : r.what \subseteq Tokens /\ r.ans \in [Tokens -> Versions]
      BY WholeCovers DEF TypeInv, TypeOK, Reads
    <2>3. \A s \in Series : scoped[s] \in Entry /\ scoped[s].ans \in Versions /\ s \in Tokens
      BY DEF TypeInv, TypeOK, Entry, Tokens
    <2>4. /\ server \in [Tokens -> Versions] /\ server' \in [Tokens -> Versions]
          /\ copy \in [Tokens -> Versions] /\ Versions \subseteq Int
      BY <2>1 DEF TypeInv, TypeOK, Versions
    <2> QED BY <2>2, <2>3, <2>4
  <1>g. \A t \in Tokens : server'[t] >= server[t]
    BY ServerGrows
  <1>a. UNCHANGED copy => RowsBehind'
    BY <1>t, <1>g DEF Behind, RowsBehind
  <1>b. UNCHANGED scoped => EntriesBehind'
    BY <1>t, <1>g DEF Behind, EntriesBehind
  <1>c. (\A r \in reads' : r \in reads \/ ~r.answered) => ReadsBehind'
    BY <1>t, <1>g DEF Behind, ReadsBehind
  <1>k. ASSUME UNCHANGED <<copy, scoped>>, \A r \in reads' : r \in reads \/ ~r.answered
        PROVE  Behind'
    BY <1>a, <1>b, <1>c, <1>k DEF Behind
  <1>s. ASSUME NEW s \in Series, \A u \in Series \ {s} : scoped'[u] = scoped[u],
               scoped'[s].run = "answered" => scoped'[s].ans <= server'[s],
               scoped'[s].run # "no" => ~scoped'[s].timer
        PROVE  EntriesBehind'
    <2>1. ASSUME NEW u \in Series
          PROVE  /\ scoped'[u].run = "answered" => scoped'[u].ans <= server'[u]
                 /\ scoped'[u].run # "no" => ~scoped'[u].timer
      <3>1. CASE u = s
        BY <1>s, <3>1
      <3>2. CASE u # s
        BY <1>s, <1>t, <1>g, <3>2 DEF Behind, EntriesBehind
      <3> QED BY <3>1, <3>2
    <2> QED BY <2>1 DEF EntriesBehind
  <1>1. ASSUME NEW t \in Tokens, Change(t) PROVE Behind'
    BY <1>1, <1>k DEF Change, tab
  <1>2. ASSUME NEW e \in due, Publish(e) \/ PublishMissed(e) PROVE Behind'
    BY <1>2, <1>k DEF Publish, PublishMissed, tab
  <1>4. ASSUME Deliver PROVE Behind'
    <2>1. PICK e : Accept(e)
      BY <1>4 DEF Deliver
    <2>2. reads' = reads /\ copy' = copy /\ server' = server
      BY <1>4, <2>1 DEF Deliver, Accept
    <2>3. ASSUME NEW s \in Series
          PROVE  /\ scoped'[s].run = "answered" => scoped'[s].ans <= server'[s]
                 /\ scoped'[s].run # "no" => ~scoped'[s].timer
      <3>1. /\ scoped'[s].run = scoped[s].run /\ scoped'[s].ans = scoped[s].ans
            /\ scoped[s].run # "no" => scoped'[s].timer = scoped[s].timer
        BY <2>1, AcceptEntries DEF TypeInv
      <3> QED BY <2>2, <3>1 DEF Behind, EntriesBehind
    <2>4. EntriesBehind'
      BY <2>3 DEF EntriesBehind
    <2> QED BY <1>a, <1>c, <2>2, <2>4 DEF Behind
  <1>5. ASSUME NEW s \in Series, ScopedStart(s) PROVE Behind'
    <2>1. scoped'[s] = Asked /\ \A u \in Series \ {s} : scoped'[u] = scoped[u]
      BY <1>5 DEF ScopedStart, TypeInv, TypeOK
    <2>2. EntriesBehind'
      BY <1>s, <2>1, EntrySteps
    <2> QED BY <1>5, <1>a, <1>c, <2>2 DEF ScopedStart, Behind
  <1>6. ASSUME NEW s \in Series, ScopedAnswer(s) PROVE Behind'
    <2>1. /\ scoped'[s].ans = server'[s] /\ ~scoped'[s].timer
          /\ \A u \in Series \ {s} : scoped'[u] = scoped[u]
      BY <1>6, <1>t DEF ScopedAnswer, Behind, EntriesBehind, TypeInv, TypeOK, Entry
    <2>2. EntriesBehind'
      BY <1>s, <1>t, <2>1
    <2> QED BY <1>6, <1>a, <1>c, <2>2 DEF ScopedAnswer, Behind
  <1>7. ASSUME NEW s \in Series, ScopedWrite(s) PROVE Behind'
    <2>1. \A t \in Tokens : copy'[t] = IF t = s THEN scoped[s].ans ELSE copy[t]
      BY <1>7 DEF ScopedWrite, Write
    <2>2. scoped'[s] = Settled(scoped[s]) /\ \A u \in Series \ {s} : scoped'[u] = scoped[u]
      BY <1>7 DEF ScopedWrite, TypeInv, TypeOK
    <2>3. scoped'[s].run # "answered" /\ ~scoped'[s].timer
      BY <1>t, <2>2, EntrySteps
    <2>4. EntriesBehind'
      BY <1>s, <2>2, <2>3
    <2>5. scoped[s].ans <= server[s] /\ server' = server /\ reads' = reads
      BY <1>7 DEF ScopedWrite, Behind, EntriesBehind
    <2>6. RowsBehind'
      BY <2>1, <2>5 DEF Behind, RowsBehind
    <2> QED BY <1>c, <2>4, <2>5, <2>6 DEF Behind
  <1>8. ASSUME NEW s \in Series, ScopedFail(s) PROVE Behind'
    <2>1. scoped'[s] = Settled(scoped[s]) /\ \A u \in Series \ {s} : scoped'[u] = scoped[u]
      BY <1>8 DEF ScopedFail, TypeInv, TypeOK
    <2>2. scoped'[s].run # "answered" /\ ~scoped'[s].timer
      BY <1>t, <2>1, EntrySteps
    <2>3. EntriesBehind'
      BY <1>s, <2>1, <2>2
    <2> QED BY <1>8, <1>a, <1>c, <2>3 DEF ScopedFail, Behind
  <1>9. ASSUME KeysFlush PROVE Behind'
    <2>1. \A t \in Tokens : ~Read(Whole(t)).answered
      BY DEF Read
    <2> QED BY <1>9, <1>k, <2>1 DEF KeysFlush, TypeInv, TypeOK
  <1>10. ASSUME NEW r \in reads, ReadAnswer(r) PROVE Behind'
    <2>1. r \in Reads
      BY DEF TypeInv, TypeOK
    <2>2. PICK a : a = [r EXCEPT !.answered = TRUE, !.ans = server]
      OBVIOUS
    <2>3. a.ans = server /\ a.what = r.what
      BY <2>1, <2>2 DEF Reads
    <2>4. reads' = (reads \ {r}) \union {a} /\ server' = server
      BY <1>10, <2>2 DEF ReadAnswer
    <2>5. ReadsBehind'
      BY <1>t, <2>3, <2>4 DEF Behind, ReadsBehind
    <2> QED BY <1>10, <1>a, <1>b, <2>5 DEF ReadAnswer, Behind
  <1>11. ASSUME NEW r \in reads, ReadWrite(r) PROVE Behind'
    <2>1. \A t \in Tokens : copy'[t] = IF t \in r.what THEN r.ans[t] ELSE copy[t]
      BY <1>11 DEF ReadWrite, Write
    <2>2. r.answered /\ server' = server
      BY <1>11 DEF ReadWrite
    <2>3. RowsBehind'
      BY <2>1, <2>2 DEF Behind, RowsBehind, ReadsBehind
    <2> QED BY <1>11, <1>b, <1>c, <2>3 DEF ReadWrite, Behind
  <1>12. ASSUME NEW r \in reads, ReadFail(r) PROVE Behind'
    BY <1>12, <1>k DEF ReadFail
  <1>13. ASSUME Opened \/ Closed \/ Reconnect \/ LateClose \/ Hide PROVE Behind'
    BY <1>13, <1>k DEF Opened, Closed, Reconnect, LateClose, Hide, tab
  <1>14. ASSUME Show PROVE Behind'
    <2>1. \A t \in Tokens : ~Read(Whole(t)).answered
      BY DEF Read
    <2> QED BY <1>14, <1>k, <2>1 DEF Show
  <1>15. CASE UNCHANGED vars
    BY <1>15, <1>k DEF vars, tab
  <1> QED BY <1>1, <1>2, <1>4, <1>5, <1>6, <1>7, <1>8, <1>9, <1>10, <1>11, <1>12, <1>13, <1>14,
             <1>15 DEF Next, Refreshes

-----------------------------------------------------------------------------
(* A tab that is behind has a refresh on its way *)

\* An event that covers the token is still to be published or delivered.
Noticed(t) == \E e \in due \union Waiting : t \in e.what

\* The token's own debounce, or its run, will bring the current rows.
Debounced(t) ==
    /\ t \in Series
    /\ \/ scoped[t].timer \/ scoped[t].again \/ scoped[t].run = "asked"
       \/ scoped[t].run = "answered" /\ scoped[t].ans = server[t]

\* A whole read will.
BeingRead(t) == \E r \in reads : t \in r.what /\ (~r.answered \/ r.ans[t] = server[t])

\* What Coming says, way by way.
LEMMA Ways ==
  \A t : Coming(t) <=> \/ Noticed(t) \/ t \in keys \/ (t \in Series /\ lagged)
                      \/ Debounced(t) \/ BeingRead(t)
  BY DEF Coming, Covered, Noticed, Debounced, BeingRead

\* The same of the next state.
LEMMA WaysNext ==
  \A t : Coming(t)' <=> \/ Noticed(t)' \/ t \in keys' \/ (t \in Series /\ lagged')
                       \/ Debounced(t)' \/ BeingRead(t)'
  BY DEF Coming, Covered, Noticed, Debounced, BeingRead

LEMMA InitStale == Init => StaleIsComing
  BY DEF Init, StaleIsComing

LEMMA StepStale == TypeInv /\ Behind /\ StaleIsComing /\ [Next]_vars => StaleIsComing'
  <1> SUFFICES ASSUME TypeInv, Behind, StaleIsComing, [Next]_vars,
                      NEW t \in Tokens, t \notin gaps', copy'[t] < server'[t]
               PROVE  Coming(t)'
    BY DEF StaleIsComing
  <1>t. /\ server[t] \in Int /\ copy[t] \in Int /\ copy[t] <= server[t]
        /\ \A s \in Series : scoped[s] \in Entry /\ scoped[s].ans \in Int /\ s \in Tokens
        /\ \A r \in reads : r \in Reads /\ r.what \subseteq Tokens /\ r.ans[t] \in Int
        /\ TypeOK
    <2>1. \A r \in reads : r.what \subseteq Tokens /\ r.ans \in [Tokens -> Versions]
      BY WholeCovers DEF TypeInv, TypeOK, Reads
    <2>2. \A s \in Series : scoped[s] \in Entry /\ scoped[s].ans \in Versions /\ s \in Tokens
      BY DEF TypeInv, TypeOK, Entry, Tokens
    <2>3. /\ server \in [Tokens -> Versions] /\ copy \in [Tokens -> Versions]
          /\ Versions \subseteq Int /\ reads \subseteq Reads /\ TypeOK
      BY DEF TypeInv, TypeOK, Versions
    <2> QED BY <2>1, <2>2, <2>3 DEF Behind, RowsBehind
  \* A step that moves neither copy, and forgets no gap, starts from a token
  \* that was coming.
  <1>o. ASSUME server'[t] = server[t], copy'[t] = copy[t], t \notin gaps
        PROVE  Noticed(t) \/ t \in keys \/ (t \in Series /\ lagged) \/ Debounced(t) \/ BeingRead(t)
    BY <1>o, Ways DEF StaleIsComing
  \* What the step leaves alone.
  <1>w. UNCHANGED wire => (Noticed(t)' <=> Noticed(t)) /\ lagged' = lagged
    BY DEF wire, Noticed, Waiting
  <1>d. UNCHANGED scoped /\ server'[t] = server[t] => (Debounced(t)' <=> Debounced(t))
    BY DEF Debounced
  <1>r. reads \subseteq reads' /\ server'[t] = server[t] => (BeingRead(t) => BeingRead(t)')
    BY DEF BeingRead
  <1>1. ASSUME NEW u \in Tokens, Change(u) PROVE Coming(t)'
    <2>1. PICK e \in Events : u \in e.what /\ due' = due \union {e}
      BY <1>1 DEF Change
    <2>2. UNCHANGED <<copy, ring, lagged, tab, gaps>>
      BY <1>1 DEF Change
    <2>3. CASE u = t
      BY <2>1, <2>3, WaysNext DEF Noticed
    <2>4. CASE u # t
      <3>1. server'[t] = server[t]
        BY <1>1, <2>4 DEF Change, TypeInv, TypeOK
      <3>2. Noticed(t) => Noticed(t)'
        BY <2>1, <2>2 DEF Noticed, Waiting
      <3> QED BY <1>o, <1>d, <1>r, <2>2, <3>1, <3>2, WaysNext DEF tab
    <2> QED BY <2>3, <2>4
  <1>2. ASSUME NEW e \in due, Publish(e) PROVE Coming(t)'
    <2>1. UNCHANGED <<server, copy, tab>> /\ due' = due \ {e} /\ e \in Events
      BY <1>2, <1>t DEF Publish, TypeOK
    <2>2. CASE socket = "open"
      <3>1. /\ ring' = Pushed(e) /\ lagged' = (lagged \/ Len(ring) = Buffer)
            /\ gaps' = IF Len(ring) = Buffer THEN gaps \union (Head(ring).what \ Series) ELSE gaps
        BY <1>2, <2>2 DEF Publish
      <3>2. e \in Waiting' /\ \A d \in Waiting : d \in Waiting' \/ (Len(ring) = Buffer /\ d = Head(ring))
        BY <1>t, <2>1, <3>1, PushedWaits DEF TypeOK
      <3>3. Noticed(t) => Noticed(t)' \/ (t \in Series /\ lagged')
        BY <2>1, <3>1, <3>2 DEF Noticed
      <3>4. t \notin gaps /\ (lagged => lagged')
        BY <3>1
      <3> QED BY <1>o, <1>d, <1>r, <2>1, <3>3, <3>4, WaysNext DEF tab
    <2>3. CASE socket # "open"
      <3>1. t \notin gaps /\ t \notin e.what /\ UNCHANGED <<ring, lagged>>
        BY <1>2, <2>3 DEF Publish
      <3>2. Noticed(t) => Noticed(t)'
        BY <2>1, <3>1 DEF Noticed, Waiting
      <3> QED BY <1>o, <1>d, <1>r, <2>1, <3>1, <3>2, WaysNext DEF tab
    <2> QED BY <2>2, <2>3
  <1>3. ASSUME NEW e \in due, PublishMissed(e) PROVE Coming(t)'
    <2>1. /\ UNCHANGED <<server, copy, ring, lagged, tab>> /\ due' = due \ {e}
          /\ t \notin gaps /\ t \notin e.what
      BY <1>3 DEF PublishMissed
    <2>2. Noticed(t) => Noticed(t)'
      BY <2>1 DEF Noticed, Waiting
    <2> QED BY <1>o, <1>d, <1>r, <2>1, <2>2, WaysNext DEF tab
  <1>4. ASSUME Deliver PROVE Coming(t)'
    <2>1. UNCHANGED <<server, copy, due, gaps>>
      BY <1>4 DEF Deliver
    <2>2. PICK e : /\ Accept(e)
                   /\ \/ lagged /\ e = Resync /\ ring' = ring
                      \/ ~lagged /\ lagged' = lagged /\ ring # <<>> /\ ring' = Tail(ring) /\ e = Head(ring)
      BY <1>4 DEF Deliver
    <2>3. /\ reads' = reads /\ keys \subseteq keys'
          /\ ~e.scoped => e.what \subseteq keys'
      BY <2>2 DEF Accept
    <2>4. t \in Series => /\ scoped'[t].run = scoped[t].run /\ scoped'[t].ans = scoped[t].ans
                          /\ scoped[t].timer => scoped'[t].timer
                          /\ scoped[t].again => scoped'[t].again
                          /\ e.scoped /\ t \in e.what => scoped'[t].timer \/ scoped'[t].again
      BY <1>t, <2>2, AcceptEntries
    <2>5. ASSUME Debounced(t) PROVE Debounced(t)'
      <3>0. t \in Series
        BY <2>5 DEF Debounced
      <3>1. CASE scoped[t].timer \/ scoped[t].again
        <4>1. scoped'[t].timer \/ scoped'[t].again
          BY <2>4, <3>0, <3>1
        <4> QED BY <3>0, <4>1 DEF Debounced
      <3>2. CASE scoped[t].run = "asked"
        <4>1. scoped'[t].run = "asked"
          BY <2>4, <3>0, <3>2
        <4> QED BY <3>0, <4>1 DEF Debounced
      <3>3. CASE scoped[t].run = "answered" /\ scoped[t].ans = server[t]
        BY <2>1, <2>4, <2>5, <3>3 DEF Debounced
      <3> QED BY <2>5, <3>1, <3>2, <3>3 DEF Debounced
    <2>6. e \in Events
      BY <1>t, <2>2, ResyncIsEvent DEF TypeOK
    <2>7. t \in e.what => t \in keys' \/ Debounced(t)'
      <3>1. CASE e.scoped /\ t \in e.what
        <4>1. t \in Series
          BY <2>6, <3>1, EventAbout
        <4> QED BY <2>4, <3>1, <4>1 DEF Debounced
      <3>2. CASE ~e.scoped
        BY <2>3, <3>2
      <3> QED BY <3>1, <3>2
    <2>8. Noticed(t) => Noticed(t)' \/ t \in e.what
      <3>1. CASE ring' = ring
        BY <2>1, <3>1 DEF Noticed, Waiting
      <3>2. CASE ring # <<>> /\ ring' = Tail(ring) /\ e = Head(ring)
        <4>1. \A d \in Waiting : d \in Waiting' \/ d = Head(ring)
          BY <1>t, <3>2, TakenWaits DEF TypeOK
        <4> QED BY <2>1, <3>2, <4>1 DEF Noticed
      <3> QED BY <2>2, <3>1, <3>2
    <2>9. t \in Series /\ lagged => t \in e.what
      BY <2>2 DEF Resync
    <2> QED BY <1>o, <1>r, <2>1, <2>3, <2>5, <2>7, <2>8, <2>9, WaysNext
  <1>5. ASSUME NEW s \in Series, ScopedStart(s) PROVE Coming(t)'
    <2>1. UNCHANGED <<server, copy, wire, keys, reads, gaps>>
      BY <1>5 DEF ScopedStart
    <2>2. scoped'[s] = Asked /\ \A u \in Series \ {s} : scoped'[u] = scoped[u]
      BY <1>5, <1>t DEF ScopedStart, TypeOK
    <2>3. Debounced(t) => Debounced(t)'
      BY <2>1, <2>2, EntrySteps DEF Debounced
    <2> QED BY <1>o, <1>w, <1>r, <2>1, <2>3, WaysNext
  <1>6. ASSUME NEW s \in Series, ScopedAnswer(s) PROVE Coming(t)'
    <2>1. UNCHANGED <<server, copy, wire, keys, reads, gaps>>
      BY <1>6 DEF ScopedAnswer
    <2>2. /\ scoped'[s].run = "answered" /\ scoped'[s].ans = server[s]
          /\ \A u \in Series \ {s} : scoped'[u] = scoped[u]
      BY <1>6, <1>t DEF ScopedAnswer, TypeOK, Entry
    <2>3. Debounced(t) => Debounced(t)'
      BY <2>1, <2>2 DEF Debounced
    <2> QED BY <1>o, <1>w, <1>r, <2>1, <2>3, WaysNext
  <1>7. ASSUME NEW s \in Series, ScopedWrite(s) PROVE Coming(t)'
    <2>1. UNCHANGED <<server, wire, keys, reads>> /\ scoped[s].run = "answered"
      BY <1>7 DEF ScopedWrite, wire
    <2>2. /\ copy'[t] = IF t = s THEN scoped[s].ans ELSE copy[t]
          /\ gaps' = (gaps \ {u \in {s} : scoped[s].ans = server[u]})
                     \union {u \in {s} : scoped[s].ans < copy[u]}
      BY <1>7, <1>t DEF ScopedWrite, Write
    <2>3. scoped'[s] = Settled(scoped[s]) /\ \A u \in Series \ {s} : scoped'[u] = scoped[u]
      BY <1>7, <1>t DEF ScopedWrite, TypeOK
    <2>4. CASE t # s
      <3>1. copy'[t] = copy[t] /\ t \notin gaps
        BY <2>2, <2>4
      <3>2. Debounced(t) => Debounced(t)'
        BY <2>1, <2>3, <2>4 DEF Debounced
      <3> QED BY <1>o, <1>w, <1>r, <2>1, <3>1, <3>2, WaysNext
    <2>5. CASE t = s
      <3>1. scoped[t].ans # server[t] /\ t \notin gaps /\ ~(scoped[t].ans < copy[t])
        BY <1>t, <2>1, <2>2, <2>5
      <3>2. copy[t] < server[t]
        BY <1>t, <2>1, <2>2, <2>5, <3>1
      <3>3. Noticed(t) \/ t \in keys \/ (t \in Series /\ lagged) \/ Debounced(t) \/ BeingRead(t)
        BY <3>1, <3>2, Ways DEF StaleIsComing
      <3>4. ASSUME Debounced(t) PROVE Debounced(t)'
        <4>1. scoped[s].again
          BY <2>1, <2>5, <3>1, <3>4 DEF Debounced, Behind, EntriesBehind
        <4>2. scoped'[s] = Asked
          BY <1>t, <2>3, <4>1, EntrySteps
        <4> QED BY <2>5, <4>2, EntrySteps DEF Debounced
      <3> QED BY <1>w, <1>r, <2>1, <3>3, <3>4, WaysNext
    <2> QED BY <2>4, <2>5
  <1>8. ASSUME NEW s \in Series, ScopedFail(s) PROVE Coming(t)'
    <2>1. UNCHANGED <<server, copy, wire, reads, gaps>> /\ keys' = keys \union Whole(s)
      BY <1>8 DEF ScopedFail, Fallback
    <2>2. \A u \in Series \ {s} : scoped'[u] = scoped[u]
      BY <1>8, <1>t DEF ScopedFail, TypeOK
    <2>3. Debounced(t) => Debounced(t)' \/ t \in keys'
      <3>1. CASE t = s
        BY <1>t, <2>1, <3>1, WholeCovers
      <3>2. CASE t # s
        BY <2>1, <2>2, <3>2 DEF Debounced
      <3> QED BY <3>1, <3>2
    <2> QED BY <1>o, <1>w, <1>r, <2>1, <2>3, WaysNext
  <1>9. ASSUME KeysFlush PROVE Coming(t)'
    <2>1. UNCHANGED <<server, copy, wire, scoped, gaps>> /\ reads \subseteq reads'
      BY <1>9 DEF KeysFlush
    <2>2. ASSUME t \in keys PROVE BeingRead(t)'
      <3>1. Read(Whole(t)) \in reads'
        BY <1>9, <2>2 DEF KeysFlush
      <3>2. t \in Read(Whole(t)).what /\ ~Read(Whole(t)).answered
        BY WholeCovers DEF Read
      <3> QED BY <3>1, <3>2 DEF BeingRead
    <2> QED BY <1>o, <1>w, <1>d, <1>r, <2>1, <2>2, WaysNext
  <1>10. ASSUME NEW r \in reads, ReadAnswer(r) PROVE Coming(t)'
    <2>1. UNCHANGED <<server, copy, wire, scoped, keys, gaps>>
      BY <1>10 DEF ReadAnswer
    <2>2. PICK a : a = [r EXCEPT !.answered = TRUE, !.ans = server]
      OBVIOUS
    <2>3. a.ans = server /\ a.what = r.what
      BY <1>t, <2>2 DEF Reads
    <2>4. reads' = (reads \ {r}) \union {a}
      BY <1>10, <2>2 DEF ReadAnswer
    <2>5. BeingRead(t) => BeingRead(t)'
      BY <2>1, <2>3, <2>4 DEF BeingRead
    <2> QED BY <1>o, <1>w, <1>d, <2>1, <2>5, WaysNext
  <1>11. ASSUME NEW r \in reads, ReadWrite(r) PROVE Coming(t)'
    <2>1. UNCHANGED <<server, wire, scoped, keys>> /\ reads' = reads \ {r} /\ r.answered
      BY <1>11 DEF ReadWrite, wire
    <2>2. /\ copy'[t] = IF t \in r.what THEN r.ans[t] ELSE copy[t]
          /\ gaps' = (gaps \ {u \in r.what : r.ans[u] = server[u]})
                     \union {u \in r.what : r.ans[u] < copy[u]}
      BY <1>11 DEF ReadWrite, Write
    <2>3. t \in r.what => r.ans[t] # server[t] /\ ~(r.ans[t] < copy[t])
      BY <1>t, <2>1, <2>2
    <2>4. t \notin gaps /\ copy[t] < server[t]
      BY <1>t, <2>1, <2>2, <2>3
    <2>5. Noticed(t) \/ t \in keys \/ (t \in Series /\ lagged) \/ Debounced(t) \/ BeingRead(t)
      BY <2>4, Ways DEF StaleIsComing
    <2>6. BeingRead(t) => BeingRead(t)'
      BY <2>1, <2>3 DEF BeingRead
    <2> QED BY <1>w, <1>d, <2>1, <2>5, <2>6, WaysNext
  <1>12. ASSUME NEW r \in reads, ReadFail(r) PROVE Coming(t)'
    <2>1. /\ UNCHANGED <<server, copy, wire, scoped, keys>> /\ reads' = reads \ {r}
          /\ t \notin gaps /\ t \notin r.what
      BY <1>12 DEF ReadFail
    <2>2. BeingRead(t) => BeingRead(t)'
      BY <2>1 DEF BeingRead
    <2> QED BY <1>o, <1>w, <1>d, <2>1, <2>2, WaysNext
  <1>13. ASSUME Opened \/ LateClose \/ UNCHANGED vars PROVE Coming(t)'
    <2>1. UNCHANGED <<server, copy, wire, tab, gaps>>
      BY <1>13 DEF Opened, LateClose, vars
    <2> QED BY <1>o, <1>w, <1>d, <1>r, <2>1, WaysNext DEF tab
  <1>14. ASSUME Closed \/ Reconnect \/ Hide PROVE Coming(t)'
    <2>1. UNCHANGED <<server, copy, due, tab>> /\ Cut
      BY <1>14 DEF Closed, Reconnect, Hide
    <2>2. t \notin gaps /\ t \notin Covered(Waiting) /\ (lagged => t \notin Series)
      BY <2>1 DEF Cut
    <2>3. Noticed(t) => Noticed(t)'
      BY <2>1, <2>2 DEF Noticed, Covered
    <2> QED BY <1>o, <1>d, <1>r, <2>1, <2>2, <2>3, WaysNext DEF tab
  <1>15. ASSUME Show PROVE Coming(t)'
    <2>1. UNCHANGED <<server, copy, wire, scoped, keys, gaps>> /\ reads \subseteq reads'
      BY <1>15 DEF Show
    <2> QED BY <1>o, <1>w, <1>d, <1>r, <2>1, WaysNext
  <1> QED BY <1>1, <1>2, <1>3, <1>4, <1>5, <1>6, <1>7, <1>8, <1>9, <1>10, <1>11, <1>12, <1>13,
             <1>14, <1>15 DEF Next, Refreshes

\* Whatever bursts, lagging sockets, failing refreshes and reconnections: a tab
\* that shows something older than the server has a refresh on its way that
\* will bring it, but for what was lost while nobody listened.
THEOREM StaleTabsAreServed == Spec => []StaleIsComing
  <1> DEFINE Inv == TypeInv /\ Behind /\ StaleIsComing
  <1>1. Init => Inv
    BY InitTypes, InitBehind, InitStale
  <1>2. Inv /\ [Next]_vars => Inv'
    BY StepTypes, StepBehind, StepStale
  <1>3. Inv => StaleIsComing
    OBVIOUS
  <1> QED BY <1>1, <1>2, <1>3, PTL DEF Spec
=============================================================================
