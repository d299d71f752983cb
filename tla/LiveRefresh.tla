---------------------------- MODULE LiveRefresh ----------------------------
(***************************************************************************)
(* How a change made elsewhere reaches an open tab: the server's broker    *)
(* (services/realtime.rs), the socket's send task (handlers/realtime.rs),  *)
(* and on the client useRealtimeSync.js with realtimePlan.js and the       *)
(* queries it invalidates.                                                 *)
(*                                                                         *)
(* A token is one thing a tab shows: a series, whose events may be scoped  *)
(* to it and whose rows can be read alone or with the whole collection, or *)
(* something of another kind (settings, seals, friends), read whole.  A    *)
(* version stands for the rows.  The tab's own events, which are skipped,  *)
(* and the outbox's guards are not here: VolumeOutbox has them.            *)
(***************************************************************************)
EXTENDS Integers, Sequences

CONSTANTS
    Series,         \* series on the shelf
    Others,         \* tokens of the kinds that are never scoped
    Buffer,         \* CHANNEL_BUFFER: events a socket may be behind
    MaxChanges,     \* bound: changes made by other devices
    MaxFaults       \* bound: drops, hides, refusals and failed reads

ASSUME LiveAssumption ==
    /\ Series # {} /\ Series \cap Others = {}
    /\ Buffer \in Nat \ {0} /\ MaxChanges \in Nat /\ MaxFaults \in Nat

Tokens == Series \union Others

VARIABLES
    server,     \* token -> version committed on the server
    copy,       \* token -> version the tab shows
    due,        \* events whose change is committed and that are not published
    ring,       \* events in the broker's channel that this socket has not taken
    lagged,     \* the channel dropped some before the socket took them
    socket,     \* socketRef: none, opening or open
    orphans,    \* live sockets that socketRef no longer holds
    closing,    \* replaced or paused sockets whose close event is to come
    retry,      \* the reconnect timer is armed
    hidden,     \* the tab is hidden (stoppedRef)
    scoped,     \* series -> its entry of the debounce map
    keys,       \* coalescedKeys, as the tokens they cover
    reads,      \* whole reads under way
    changes,    \* number of changes so far (bound)
    faults,     \* number of faults so far (bound)
    gaps        \* tokens a notice or a read of which was lost (history)

wire == <<due, ring, lagged>>
tab == <<scoped, keys, reads>>
link == <<socket, orphans, closing, retry, hidden>>
vars == <<server, copy, wire, link, tab, changes, faults, gaps>>

-----------------------------------------------------------------------------
(* Events, debounce entries, reads *)

\* An event covers one series, the whole collection, or one other kind.
Whole(t) == IF t \in Series THEN Series ELSE {t}
Events == {[what |-> {s}, scoped |-> TRUE] : s \in Series}
          \union {[what |-> Whole(t), scoped |-> FALSE] : t \in Tokens}
Resync == [what |-> Series, scoped |-> FALSE]

Versions == 0..MaxChanges
Entry == [timer : BOOLEAN, run : {"no", "asked", "answered"}, again : BOOLEAN, ans : Versions]
NoEntry == [timer |-> FALSE, run |-> "no", again |-> FALSE, ans |-> 0]
Asked == [NoEntry EXCEPT !.run = "asked"]

\* A whole read: what it covers and, once it is answered, the versions in it.
Reads == [what : {Whole(t) : t \in Tokens}, answered : BOOLEAN, ans : [Tokens -> Versions]]
Read(w) == [what |-> w, answered |-> FALSE, ans |-> [t \in Tokens |-> 0]]

Covered(es) == UNION {e.what : e \in es}
Waiting == {ring[i] : i \in DOMAIN ring}

-----------------------------------------------------------------------------
TypeOK ==
    /\ server \in [Tokens -> Versions] /\ copy \in [Tokens -> Versions]
    /\ due \subseteq Events
    /\ ring \in Seq(Events) /\ Len(ring) <= Buffer
    /\ lagged \in BOOLEAN /\ retry \in BOOLEAN /\ hidden \in BOOLEAN
    /\ socket \in {"none", "opening", "open"}
    /\ orphans \in 0..MaxFaults /\ closing \in 0..MaxFaults
    /\ scoped \in [Series -> Entry]
    /\ keys \subseteq Tokens /\ reads \subseteq Reads
    /\ changes \in Versions /\ faults \in 0..MaxFaults /\ gaps \subseteq Tokens

Init ==
    /\ server = [t \in Tokens |-> 0] /\ copy = [t \in Tokens |-> 0]
    /\ due = {} /\ ring = <<>> /\ lagged = FALSE
    /\ socket = "opening" /\ orphans = 0 /\ closing = 0
    /\ retry = FALSE /\ hidden = FALSE
    /\ scoped = [s \in Series |-> NoEntry]
    /\ keys = {} /\ reads = {} /\ changes = 0 /\ faults = 0 /\ gaps = {}

-----------------------------------------------------------------------------
(* The server *)

\* A write of another device commits; its handler has yet to publish.
Change(t) == \E e \in Events :
    /\ changes < MaxChanges /\ changes' = changes + 1
    /\ t \in e.what
    /\ server' = [server EXCEPT ![t] = @ + 1]
    /\ due' = due \union {e}
    /\ UNCHANGED <<copy, ring, lagged, link, tab, faults, gaps>>

MutPushed(e) == Append(ring, e)

\* tokio's broadcast channel: a full one forgets its oldest event.
Pushed(e) == IF Len(ring) < Buffer THEN Append(ring, e) ELSE Append(Tail(ring), e)

\* publish_scoped: every subscribed socket has the event in its channel, by
\* Redis or, when that fails, directly.  A lagging socket makes up for series
\* only.
Publish(e) ==
    /\ e \in due
    /\ due' = due \ {e}
    /\ IF socket = "open"
       THEN /\ ring' = Pushed(e)
            /\ lagged' = (lagged \/ Len(ring) = Buffer)
            /\ gaps' = IF Len(ring) = Buffer THEN gaps \union (Head(ring).what \ Series) ELSE gaps
       ELSE /\ gaps' = gaps \union e.what
            /\ UNCHANGED <<ring, lagged>>
    /\ UNCHANGED <<server, changes, copy, link, tab, faults>>

Fault == faults < MaxFaults /\ faults' = faults + 1

\* Published to Redis while the listener is between two subscriptions.
PublishMissed(e) ==
    /\ e \in due /\ Fault
    /\ due' = due \ {e}
    /\ gaps' = gaps \union e.what
    /\ UNCHANGED <<server, changes, copy, ring, lagged, link, tab>>

-----------------------------------------------------------------------------
(* Frames *)

MutHeard(st) == IF st.run # "no" THEN st ELSE [st EXCEPT !.timer = TRUE]

\* refreshScoped
Heard(st) == IF st.run # "no" THEN [st EXCEPT !.again = TRUE] ELSE [st EXCEPT !.timer = TRUE]

\* A frame arrives: planRealtimeAction, then the debounce or the keys.
Accept(e) ==
    IF e.scoped
    THEN /\ scoped' = [s \in Series |-> IF s \in e.what THEN Heard(scoped[s]) ELSE scoped[s]]
         /\ UNCHANGED <<keys, reads>>
    ELSE /\ keys' = keys \union e.what
         /\ UNCHANGED <<scoped, reads>>

\* The send task takes the next event, or is told that it lagged.
Deliver ==
    /\ socket = "open"
    /\ IF lagged THEN /\ lagged' = FALSE /\ Accept(Resync) /\ UNCHANGED ring
       ELSE /\ ring # <<>> /\ ring' = Tail(ring) /\ Accept(Head(ring)) /\ UNCHANGED lagged
    /\ UNCHANGED <<server, changes, copy, due, link, faults, gaps>>

-----------------------------------------------------------------------------
(* Refreshes *)

\* The 250 ms debounce is over: runScoped.
ScopedStart(s) ==
    /\ scoped[s].timer
    /\ scoped' = [scoped EXCEPT ![s] = Asked]
    /\ UNCHANGED <<server, changes, copy, wire, link, keys, reads, faults, gaps>>

ScopedAnswer(s) ==
    /\ scoped[s].run = "asked"
    /\ scoped' = [scoped EXCEPT ![s].run = "answered", ![s].ans = server[s]]
    /\ UNCHANGED <<server, changes, copy, wire, link, keys, reads, faults, gaps>>

MutSettled(st) == [st EXCEPT !.run = "no", !.ans = 0]

\* runScoped's finally: once more if an event came meanwhile.
Settled(st) == IF st.again THEN Asked ELSE NoEntry

\* Rows are written: what is older than the copy is a step back, what is as
\* new as the server closes the gap.
Write(what, ans) ==
    /\ copy' = [t \in Tokens |-> IF t \in what THEN ans[t] ELSE copy[t]]
    /\ gaps' = (gaps \ {t \in what : ans[t] = server[t]})
               \union {t \in what : ans[t] < copy[t]}

ScopedWrite(s) ==
    /\ scoped[s].run = "answered"
    /\ Write({s}, [t \in Tokens |-> scoped[s].ans])
    /\ scoped' = [scoped EXCEPT ![s] = Settled(@)]
    /\ UNCHANGED <<server, changes, wire, link, keys, reads, faults>>

\* A scoped refresh that fails asks for the whole collection instead.
Fallback(s) == Whole(s)

ScopedFail(s) ==
    /\ scoped[s].run # "no" /\ Fault
    /\ keys' = keys \union Fallback(s)
    /\ scoped' = [scoped EXCEPT ![s] = Settled(@)]
    /\ UNCHANGED <<server, changes, copy, wire, link, reads, gaps>>

\* The 300 ms batch is over.  invalidateQueries starts a read of each key; one
\* already under way is cancelled in name only, its queryFn goes on to write.
KeysFlush ==
    /\ keys # {}
    /\ reads' = reads \union {Read(Whole(t)) : t \in keys}
    /\ keys' = {}
    /\ UNCHANGED <<server, changes, copy, wire, link, scoped, faults, gaps>>

ReadAnswer(r) ==
    /\ r \in reads /\ ~r.answered
    /\ reads' = (reads \ {r}) \union {[r EXCEPT !.answered = TRUE, !.ans = server]}
    /\ UNCHANGED <<server, changes, copy, wire, link, scoped, keys, faults, gaps>>

ReadWrite(r) ==
    /\ r \in reads /\ r.answered
    /\ Write(r.what, r.ans)
    /\ reads' = reads \ {r}
    /\ UNCHANGED <<server, changes, wire, link, scoped, keys, faults>>

\* The last retry of a read fails: the key stays stale.
ReadFail(r) ==
    /\ r \in reads /\ Fault
    /\ reads' = reads \ {r}
    /\ gaps' = gaps \union r.what
    /\ UNCHANGED <<server, changes, copy, wire, link, scoped, keys>>

-----------------------------------------------------------------------------
(* The socket *)

\* What the socket had still to deliver is lost with it.
Cut ==
    /\ ring' = <<>> /\ lagged' = FALSE
    /\ gaps' = gaps \union Covered(Waiting) \union (IF lagged THEN Series ELSE {})

Opened ==
    /\ socket = "opening"
    /\ socket' = "open"
    /\ UNCHANGED <<server, changes, copy, wire, orphans, closing, retry, hidden, tab, faults, gaps>>

MutHeeded(current) == TRUE

\* A close event drives the reconnect only if it is the current socket's.
Heeded(current) == current

\* The current socket closes: dropped, refused, its session revoked, its
\* server gone.  Codes 1000, 1008 and 1011 are not followed by a reconnect.
Closed == \E again \in BOOLEAN :
    /\ socket # "none" /\ Fault
    /\ socket' = "none"
    /\ retry' = (again /\ Heeded(TRUE))
    /\ Cut
    /\ UNCHANGED <<server, changes, copy, due, orphans, closing, hidden, tab>>

\* connect, by the reconnect timer: what socketRef holds is closed first.
Reconnect ==
    /\ retry
    /\ retry' = FALSE
    /\ socket' = "opening"
    /\ closing' = IF socket = "none" THEN closing ELSE closing + 1
    /\ Cut
    /\ UNCHANGED <<server, changes, copy, due, orphans, hidden, tab, faults>>

\* The close event of a socket that was replaced or paused comes late.
LateClose ==
    /\ closing > 0
    /\ closing' = closing - 1
    /\ IF Heeded(FALSE) /\ socket # "none"
       THEN socket' = "none" /\ orphans' = orphans + 1 /\ retry' = ~hidden
       ELSE UNCHANGED <<socket, orphans, retry>>
    /\ UNCHANGED <<server, changes, copy, wire, hidden, tab, faults, gaps>>

Hide ==
    /\ ~hidden /\ Fault
    /\ hidden' = TRUE
    /\ socket' = "none" /\ retry' = FALSE
    /\ closing' = IF socket = "none" THEN closing ELSE closing + 1
    /\ Cut
    /\ UNCHANGED <<server, changes, copy, due, orphans, tab>>

\* The tab is back: a new socket, and a read of every query that is older
\* than its stale time.
Show == \E stale \in BOOLEAN :
    /\ hidden
    /\ hidden' = FALSE
    /\ socket' = "opening"
    /\ reads' = IF stale THEN reads \union {Read(Whole(t)) : t \in Tokens} ELSE reads
    /\ UNCHANGED <<server, changes, copy, wire, orphans, closing, retry, scoped, keys, faults, gaps>>

-----------------------------------------------------------------------------
Refreshes ==
    \/ \E s \in Series : ScopedStart(s) \/ ScopedAnswer(s) \/ ScopedWrite(s)
    \/ KeysFlush
    \/ \E r \in reads : ReadAnswer(r) \/ ReadWrite(r)

Next ==
    \/ \E t \in Tokens : Change(t)
    \/ \E e \in due : Publish(e) \/ PublishMissed(e)
    \/ Deliver
    \/ Refreshes
    \/ \E s \in Series : ScopedFail(s)
    \/ \E r \in reads : ReadFail(r)
    \/ Opened \/ Closed \/ Reconnect \/ LateClose \/ Hide \/ Show

\* Handlers publish, the send task delivers, timers fire and requests end; no
\* fairness for changes, faults, or a tab being shown again.
Fairness ==
    /\ WF_vars(\E e \in due : Publish(e))
    /\ WF_vars(Deliver)
    /\ WF_vars(Refreshes)

Spec == Init /\ [][Next]_vars
FairSpec == Spec /\ Fairness

-----------------------------------------------------------------------------
(* Properties *)

\* What will still bring token t: an event, a debounce, a batch, or a read
\* that is not answered yet or was answered with the current rows.
Coming(t) ==
    \/ t \in Covered(due \union Waiting) \union keys
    \/ t \in Series /\ lagged
    \/ /\ t \in Series
       /\ \/ scoped[t].timer \/ scoped[t].again \/ scoped[t].run = "asked"
          \/ scoped[t].run = "answered" /\ scoped[t].ans = server[t]
    \/ \E r \in reads : t \in r.what /\ (~r.answered \/ r.ans[t] = server[t])

\* A tab that shows something older than the server has something on its way
\* that will show it, through bursts, lagging sockets, events that land while a
\* refresh runs and refreshes that fail; but where a notice or a read was lost
\* with the socket, the listener or the network, or answers were written out of
\* order (useRealtimeSync.js, send_task).
StaleIsComing == \A t \in Tokens \ gaps : copy[t] < server[t] => Coming(t)

\* A tab has one socket or is about to open one, never both, and no live socket
\* is forgotten: a late close of an old one does not start a second.
OneConnection == orphans = 0 /\ (retry => socket = "none" /\ ~hidden)

\* When changes cease the tab ends up showing them, but for the gaps.
CatchesUp == <>[](\A t \in Tokens \ gaps : copy[t] = server[t])
=============================================================================
