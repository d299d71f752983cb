----------------------------- MODULE CacheOwner -----------------------------
(***************************************************************************)
(* Whose data is on the device: the owner stamp (lib/owner.js), the check  *)
(* of the session before the UI and before a flush (utils/auth.js,         *)
(* ownerMatchesSession), the wipes (clearAllUserData, clearReadCaches),    *)
(* the answer to a 401 (utils/axios.js), logging out with and without the  *)
(* server, and signing in again, as the same account or another.           *)
(*                                                                         *)
(* A wipe empties the tables first and the local storage after; a check,   *)
(* a log out, a lost session and a pass of the outbox are processes of a   *)
(* page that interleave and that a reload ends.  The cookie, the tables    *)
(* and the local storage are the browser's, shared by its tabs.            *)
(***************************************************************************)
EXTENDS Integers, FiniteSets

CONSTANTS
    Users,
    None,           \* no account
    Tabs,
    MaxEdits,       \* bound: ops an account queues
    MaxSessions,    \* bound: sign-ins
    LateEdits       \* ops are also queued by a page that is no longer the owner's

ASSUME OwnerAssumption ==
    /\ None \notin Users /\ Tabs # {}
    /\ MaxEdits \in Nat /\ MaxSessions \in Nat
    /\ LateEdits \in BOOLEAN

Someone == Users \union {None}
Ops == [by : Users, n : 1..MaxEdits]

VARIABLES
    cookie,     \* the account the server takes the browser's cookie for
    sessions,   \* number of sign-ins (bound)
    stamp,      \* mc:owner
    profile,    \* mc:auth-user
    leaving,    \* mc:pending-logout
    rows,       \* accounts with rows in the read tables
    queue,      \* ops in the outbox tables
    page,       \* tab -> its page's memory
    sent,       \* ops applied, with the account they were applied for (history)
    stray       \* accounts whose answer landed on another's device (history)

storage == <<stamp, profile, leaving>>
tables == <<rows, queue>>
session == <<cookie, sessions>>
vars == <<session, storage, tables, page, sent, stray>>

-----------------------------------------------------------------------------
(* Pages *)

\* auth: getAuthStatus.  flush: ownerMatchesSession.  out: logout.  lost: the
\* interceptor's answer to a 401.
Processes == {"auth", "flush", "out", "lost"}
Stages == {"idle", "asked", "answered", "tables", "local", "after"}

Page == [ui    : Someone,   \* whom the page is rendered for
         latch : Someone,   \* verifiedOwner
         at    : [Processes -> Stages],
         id    : [Processes -> Someone],    \* the account a check was told
         reads : SUBSET Users,              \* answers on their way, by account
         hand  : SUBSET Ops]                \* ops of a pass

Fresh == [ui |-> None, latch |-> None, at |-> [p \in Processes |-> "idle"],
          id |-> [p \in Processes |-> None], reads |-> {}, hand |-> {}]

MutForeign(id) == FALSE

\* isForeignOwner
Foreign(id) == id # None /\ stamp # None /\ stamp # id

Goes(t, p, stage) == page' = [page EXCEPT ![t].at[p] = stage]

TypeOK ==
    /\ cookie \in Someone /\ sessions \in 0..MaxSessions
    /\ stamp \in Someone /\ profile \in Someone /\ leaving \in BOOLEAN
    /\ rows \subseteq Users /\ queue \subseteq Ops
    /\ page \in [Tabs -> Page]
    /\ \A t \in Tabs : \A p \in {"auth", "flush"} :
         page[t].at[p] \in {"tables", "local", "after"} => page[t].id[p] # None
    /\ sent \subseteq Ops \X Users
    /\ stray \subseteq Users

Init ==
    /\ cookie = None /\ sessions = 0
    /\ stamp = None /\ profile = None /\ leaving = FALSE
    /\ rows = {} /\ queue = {}
    /\ page = [t \in Tabs |-> Fresh]
    /\ sent = {} /\ stray = {}

-----------------------------------------------------------------------------
(* The browser and the server *)

\* OAuth ends in a new page.  Starting it drops a pending log out, and so does
\* starting it in vain.
SignIn(t, u) ==
    /\ page[t].ui = None
    /\ sessions < MaxSessions /\ sessions' = sessions + 1
    /\ cookie' = u /\ leaving' = FALSE
    /\ page' = [page EXCEPT ![t] = Fresh]
    /\ UNCHANGED <<stamp, profile, tables, sent, stray>>

GiveUpSignIn(t) ==
    /\ page[t].ui = None /\ leaving
    /\ leaving' = FALSE
    /\ page' = [page EXCEPT ![t] = Fresh]
    /\ UNCHANGED <<session, stamp, profile, tables, sent, stray>>

\* The session expires, or is revoked from another device.
Expire ==
    /\ cookie # None
    /\ cookie' = None
    /\ UNCHANGED <<sessions, storage, tables, page, sent, stray>>

Reload(t) ==
    /\ page[t] # Fresh
    /\ page' = [page EXCEPT ![t] = Fresh]
    /\ UNCHANGED <<session, storage, tables, sent, stray>>

-----------------------------------------------------------------------------
(* Checks of the session *)

\* getAuthStatus while a log out is pending: nobody, and the log out is tried.
Refused(t) ==
    /\ leaving /\ page[t].at["auth"] = "idle"
    /\ page' = [page EXCEPT ![t].ui = None]
    /\ \/ leaving' = FALSE /\ cookie' = None
       \/ UNCHANGED <<leaving, cookie>>
    /\ UNCHANGED <<sessions, stamp, profile, tables, sent, stray>>

\* flushPendingLogout, by the runner.
DeliverLogout ==
    /\ leaving
    /\ leaving' = FALSE /\ cookie' = None
    /\ UNCHANGED <<sessions, stamp, profile, tables, page, sent, stray>>

\* A flush asks only if the stamp is not the one it was told of.
Ask(t, p) ==
    /\ page[t].at[p] = "idle"
    /\ CASE p = "auth"  -> ~leaving
         [] p = "flush" -> queue # {} /\ page[t].hand = {}
                           /\ (page[t].latch = None \/ page[t].latch # stamp)
         [] OTHER -> FALSE
    /\ Goes(t, p, "asked")
    /\ UNCHANGED <<session, storage, tables, sent, stray>>

Answer(t, p) ==
    /\ page[t].at[p] = "asked"
    /\ page' = [page EXCEPT ![t].at[p] = "answered", ![t].id[p] = cookie]
    /\ UNCHANGED <<session, storage, tables, sent, stray>>

\* No answer: a flush gives up, the UI goes by the cached profile.
Unreachable(t, p) ==
    /\ page[t].at[p] = "asked"
    /\ page' = [page EXCEPT ![t].at[p] = "idle", ![t].ui = IF p = "auth" THEN profile ELSE @]
    /\ UNCHANGED <<session, storage, tables, sent, stray>>

MutKnown(id) == TRUE

\* The check was told of an account.
Known(id) == id # None

\* Told of nobody: the 401 of /auth/user.  The UI's check also empties the read
\* tables (clearReadCaches), the flush's leaves everything.
Nobody(t, p) ==
    /\ page[t].at[p] = "answered" /\ ~Known(page[t].id[p])
    /\ IF p = "auth"
       THEN /\ profile' = None
            /\ rows' = IF stamp = None THEN rows ELSE {}
            /\ page' = [page EXCEPT ![t].at[p] = "idle", ![t].ui = None]
       ELSE UNCHANGED <<profile, rows>> /\ Goes(t, p, "idle")
    /\ UNCHANGED <<session, stamp, leaving, queue, sent, stray>>

\* adoptOwner, ownerMatchesSession: another account's device is wiped.
Judge(t, p) ==
    /\ page[t].at[p] = "answered" /\ Known(page[t].id[p])
    /\ Goes(t, p, IF Foreign(page[t].id[p]) THEN "tables" ELSE "after")
    /\ UNCHANGED <<session, storage, tables, sent, stray>>

\* The stamp is written; the page is rendered, or the next pass may go.
Adopt(t, p) ==
    LET id == page[t].id[p]
    IN /\ page[t].at[p] = "after" /\ p \in {"auth", "flush"}
       /\ stamp' = id
       /\ profile' = IF p = "auth" THEN id ELSE profile
       /\ page' = [page EXCEPT ![t].at[p] = "idle", ![t].id[p] = None,
                               ![t].ui = IF p = "auth" THEN id ELSE @,
                               ![t].latch = IF p = "flush" THEN id ELSE @]
       /\ UNCHANGED <<session, leaving, tables, sent, stray>>

-----------------------------------------------------------------------------
(* Wipes: clearAllUserData *)

MutKeptOps == queue

\* What the outbox tables hold once every table is cleared.
KeptOps == {}

WipeTables(t, p) ==
    /\ page[t].at[p] = "tables"
    /\ rows' = {} /\ queue' = KeptOps
    /\ Goes(t, p, "local")
    /\ UNCHANGED <<session, storage, sent, stray>>

\* The tables could not be emptied: the stamp stays.
WipeFails(t, p) ==
    /\ page[t].at[p] = "tables"
    /\ profile' = None
    /\ Goes(t, p, "after")
    /\ UNCHANGED <<session, stamp, leaving, tables, sent, stray>>

WipeLocal(t, p) ==
    /\ page[t].at[p] = "local"
    /\ stamp' = None /\ profile' = None
    /\ Goes(t, p, "after")
    /\ UNCHANGED <<session, leaving, tables, sent, stray>>

-----------------------------------------------------------------------------
(* Leaving *)

LogOut(t) ==
    /\ page[t].ui # None /\ page[t].at["out"] = "idle"
    /\ profile' = None
    /\ Goes(t, "out", "tables")
    /\ UNCHANGED <<session, stamp, leaving, tables, sent, stray>>

\* The server is told, or will be.
LoggedOut(t) ==
    /\ page[t].at["out"] = "after"
    /\ \/ cookie' = None /\ leaving' = FALSE
       \/ leaving' = TRUE /\ UNCHANGED cookie
    /\ page' = [page EXCEPT ![t].at["out"] = "idle", ![t].ui = None]
    /\ UNCHANGED <<sessions, stamp, profile, tables, sent, stray>>

\* The interceptor, on a 401 of anything but /auth/user: the wipe starts, and
\* the page is replaced by the sign-in page, whether or not the wipe is done.
Lost(t) == [page EXCEPT ![t].ui = None, ![t].hand = {}, ![t].at["lost"] = IF @ = "idle" THEN "tables" ELSE @]

LostDone(t) ==
    /\ page[t].at["lost"] = "after"
    /\ page' = [page EXCEPT ![t] = Fresh]
    /\ UNCHANGED <<session, storage, tables, sent, stray>>

-----------------------------------------------------------------------------
(* What the pages do meanwhile *)

Rendered(t) == page[t].ui # None /\ page[t].at["lost"] = "idle"

\* The page's account owns the device, and no wipe of the page's is under way.
Settled(t) == page[t].ui = stamp
              /\ \A p \in Processes : page[t].at[p] \notin {"tables", "local", "after"}

\* An edit is queued, and shows.
Edit(t, o) ==
    /\ Rendered(t) /\ page[t].ui = o.by
    /\ LateEdits \/ Settled(t)
    /\ o \notin queue /\ \A u \in Users : <<o, u>> \notin sent
    /\ queue' = queue \union {o}
    /\ rows' = rows \union {o.by}
    /\ UNCHANGED <<session, storage, page, sent, stray>>

\* A read of the server is answered, for the account of the cookie.
Read(t) ==
    /\ Rendered(t)
    /\ IF cookie = None
       THEN profile' = None /\ page' = Lost(t)
       ELSE UNCHANGED profile /\ page' = [page EXCEPT ![t].reads = @ \union {cookie}]
    /\ UNCHANGED <<session, stamp, leaving, tables, sent, stray>>

\* A wipe has emptied the tables and not yet taken the stamp.
Emptied == \E t \in Tabs, p \in Processes : page[t].at[p] = "local"

\* Its rows are written, whatever became of the device since.
ReadLands(t, u) ==
    /\ u \in page[t].reads
    /\ page' = [page EXCEPT ![t].reads = @ \ {u}]
    /\ rows' = rows \union {u}
    /\ stray' = IF stamp = u /\ ~Emptied THEN stray ELSE stray \union {u}
    /\ UNCHANGED <<session, storage, queue, sent>>

\* A pass of the outbox takes the queue in hand.
StartPass(t) ==
    /\ page[t].latch # None /\ page[t].latch = stamp
    /\ page[t].hand = {} /\ queue # {}
    /\ page' = [page EXCEPT ![t].hand = queue]
    /\ UNCHANGED <<session, storage, tables, sent, stray>>

\* One op goes out, under the cookie of the moment.
Send(t, o) ==
    /\ o \in page[t].hand
    /\ IF cookie = None
       THEN profile' = None /\ page' = Lost(t) /\ UNCHANGED <<queue, sent>>
       ELSE /\ page' = [page EXCEPT ![t].hand = @ \ {o}]
            /\ queue' = queue \ {o}
            /\ sent' = sent \union {<<o, cookie>>}
            /\ UNCHANGED profile
    /\ UNCHANGED <<session, stamp, leaving, rows, stray>>

Next ==
    \/ \E t \in Tabs :
         \/ \E u \in Users : SignIn(t, u) \/ ReadLands(t, u)
         \/ GiveUpSignIn(t) \/ Reload(t) \/ Refused(t)
         \/ \E p \in {"auth", "flush"} :
              Ask(t, p) \/ Answer(t, p) \/ Unreachable(t, p) \/ Nobody(t, p) \/ Judge(t, p) \/ Adopt(t, p)
         \/ \E p \in Processes : WipeTables(t, p) \/ WipeLocal(t, p)
         \/ LogOut(t) \/ LoggedOut(t) \/ LostDone(t) \/ Read(t) \/ StartPass(t)
         \/ \E o \in Ops : Edit(t, o) \/ Send(t, o)
    \/ Expire \/ DeliverLogout

Spec == Init /\ [][Next]_vars

\* With a device whose tables may refuse to be emptied.
NextFailing == Next \/ \E t \in Tabs, p \in Processes : WipeFails(t, p)

SpecFailing == Init /\ [][NextFailing]_vars

-----------------------------------------------------------------------------
(* Properties *)

\* An op queued by one account is never applied to another's library, whoever
\* signs in next and however the first one left (lib/owner.js).
NeverAnothers == \A o \in Ops, u \in Users : <<o, u>> \in sent => u = o.by

\* The rows of a stamped device are those of the account on the stamp, but for
\* an answer that landed after the device had been emptied or changed hands.
OnlyOwnRows == stamp # None => rows \subseteq {stamp} \union stray

\* An op leaves the queue when it is sent, when its account logs out, or when
\* another account has signed in: an expired session keeps it (clearReadCaches).
ExpiryKeepsQueue ==
    [][\A o \in queue \ queue' :
          \/ \E u \in Users : <<o, u>> \in sent'
          \/ \E t \in Tabs : page[t].at["out"] = "tables"
          \/ cookie \notin {o.by, None}]_vars
=============================================================================
