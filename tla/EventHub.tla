---- MODULE EventHub ----
(***************************************************************************)
(* The event hub of a daemon: API handlers that change the store and       *)
(* broadcast, the table of WebSocket clients under its mutex, which is     *)
(* held while every client is written to, and the pages that read events   *)
(* and fetch again what they show.                                         *)
(*                                                                         *)
(* Sources: daemon/api/server.go (handleEvents, BroadcastEvent and its     *)
(* callers), ui/src/App.tsx and ui/src/api/client.ts (onmessage).          *)
(***************************************************************************)
EXTENDS Naturals, Sequences, FiniteSets

CONSTANTS
    Events,     \* calls of the API that broadcast, one event each
    Conns,      \* WebSocket connections
    Buffer,     \* what a connection holds before a write blocks
    Nobody

ASSUME ConstantsAssumption == Nobody \notin Events /\ Buffer \in Nat \ {0}

VARIABLES
    call,       \* call[e]: how far the handler of e has come
    saved,      \* the changes in the store
    mutex,      \* wsMutex: the broadcast that holds it
    clients,    \* wsClients
    left,       \* left[e]: the clients broadcast e still has to write to
    handler,    \* handler[c]: how far handleEvents has come for c
    gone,       \* the connections whose page has closed or vanished
    shut,       \* the connections the daemon has closed
    sent,       \* sent[c]: what was written to c
    read,       \* read[c]: how much of it the page has read
    view,       \* view[c]: the changes the page at c shows
    stale,      \* the pages with a fetch under way
    log,        \* events in the order they got the mutex (history)
    since       \* since[c]: the length of log when c was registered (history)

pageVars == <<read, view, stale>>

connVars == <<handler, gone, shut>>

historyVars == <<log, since>>

vars == <<call, saved, mutex, clients, left, connVars, sent, pageVars, historyVars>>

Calls == {"none", "waiting", "writing", "done"}

Handlers == {"none", "upgraded", "reading", "leaving", "closed"}

\* (Pages that have fetched what there was, and now connect.)
Init ==
    /\ call = [e \in Events |-> "none"]
    /\ saved = {} /\ mutex = Nobody /\ clients = {}
    /\ left = [e \in Events |-> {}]
    /\ handler = [c \in Conns |-> "none"]
    /\ gone = {} /\ shut = {}
    /\ sent = [c \in Conns |-> <<>>]
    /\ read = [c \in Conns |-> 0]
    /\ view = [c \in Conns |-> {}]
    /\ stale = {}
    /\ log = <<>> /\ since = [c \in Conns |-> 0]

----------------------------------------------------------------------------
(* The handlers that broadcast.                                            *)

\* Mutant of Save: a change that failed is broadcast all the same.
SaveOrNot(e) ==
    /\ call[e] = "none"
    /\ call' = [call EXCEPT ![e] = "waiting"]
    /\ saved' \in {saved, saved \cup {e}}
    /\ UNCHANGED <<mutex, clients, left, connVars, sent, pageVars, historyVars>>

\* handlePosts, handleFriends, handleFriendAction: the store first (or an
\* error, and no event), then BroadcastEvent; handleConnect: the connection.
Save(e) ==
    /\ call[e] = "none"
    /\ call' = [call EXCEPT ![e] = "waiting"]
    /\ saved' = saved \cup {e}
    /\ UNCHANGED <<mutex, clients, left, connVars, sent, pageVars, historyVars>>

\* Mutant of Lock: no mutex.
DoNotLock(e) ==
    /\ call[e] = "waiting"
    /\ call' = [call EXCEPT ![e] = "writing"]
    /\ left' = [left EXCEPT ![e] = clients]
    /\ log' = Append(log, e)
    /\ UNCHANGED <<saved, mutex, clients, connVars, sent, pageVars, since>>

Lock(e) ==
    /\ call[e] = "waiting" /\ mutex = Nobody
    /\ call' = [call EXCEPT ![e] = "writing"]
    /\ mutex' = e
    /\ left' = [left EXCEPT ![e] = clients]
    /\ log' = Append(log, e)
    /\ UNCHANGED <<saved, clients, connVars, sent, pageVars, since>>

Full(c) == Len(sent[c]) - read[c] >= Buffer

\* WriteJSON, in any order of the clients.  It blocks, with the mutex, while
\* the connection is full; it may succeed after the page has gone.
Write(e, c) ==
    /\ c \in left[e] \ shut
    /\ ~Full(c)
    /\ sent' = [sent EXCEPT ![c] = Append(@, e)]
    /\ left' = [left EXCEPT ![e] = @ \ {c}]
    /\ UNCHANGED <<call, saved, mutex, clients, connVars, pageVars, historyVars>>

\* It fails: the client is closed and forgotten in the middle of the loop.
WriteFails(e, c) ==
    /\ c \in left[e] \cap (gone \cup shut)
    /\ left' = [left EXCEPT ![e] = @ \ {c}]
    /\ shut' = shut \cup {c}
    /\ clients' = clients \ {c}
    /\ UNCHANGED <<call, saved, mutex, handler, gone, sent, pageVars, historyVars>>

\* Mutant of Unlock: the mutex is kept if there was nobody to write to.
UnlockNonempty(e) ==
    /\ call[e] = "writing" /\ left[e] = {}
    /\ call' = [call EXCEPT ![e] = "done"]
    /\ mutex' = IF clients = {} THEN mutex ELSE Nobody
    /\ UNCHANGED <<saved, clients, left, connVars, sent, pageVars, historyVars>>

Unlock(e) ==
    /\ call[e] = "writing" /\ left[e] = {}
    /\ call' = [call EXCEPT ![e] = "done"]
    /\ mutex' = Nobody
    /\ UNCHANGED <<saved, clients, left, connVars, sent, pageVars, historyVars>>

----------------------------------------------------------------------------
(* handleEvents.                                                           *)

Upgrade(c) ==
    /\ handler[c] = "none"
    /\ handler' = [handler EXCEPT ![c] = "upgraded"]
    /\ UNCHANGED <<call, saved, mutex, clients, left, gone, shut, sent, pageVars, historyVars>>

\* Mutant of Register: into the table, whoever is walking through it.
RegisterUnlocked(c) ==
    /\ handler[c] = "upgraded"
    /\ handler' = [handler EXCEPT ![c] = "reading"]
    /\ clients' = clients \cup {c}
    /\ left' = [e \in Events |-> IF call[e] = "writing" THEN left[e] \cup {c} ELSE left[e]]
    /\ since' = [since EXCEPT ![c] = Len(log)]
    /\ UNCHANGED <<call, saved, mutex, gone, shut, sent, pageVars, log>>

\* Mutant of Register: the mutex is not released.
RegisterKeepingMutex(c) ==
    /\ handler[c] = "upgraded" /\ mutex = Nobody
    /\ mutex' = c
    /\ handler' = [handler EXCEPT ![c] = "reading"]
    /\ clients' = clients \cup {c}
    /\ since' = [since EXCEPT ![c] = Len(log)]
    /\ UNCHANGED <<call, saved, left, gone, shut, sent, pageVars, log>>

Register(c) ==
    /\ handler[c] = "upgraded" /\ mutex = Nobody
    /\ handler' = [handler EXCEPT ![c] = "reading"]
    /\ clients' = clients \cup {c}
    /\ since' = [since EXCEPT ![c] = Len(log)]
    /\ UNCHANGED <<call, saved, mutex, left, gone, shut, sent, pageVars, log>>

\* ReadMessage fails, as either side has closed.
StopReading(c) ==
    /\ handler[c] = "reading" /\ c \in gone \cup shut
    /\ handler' = [handler EXCEPT ![c] = "leaving"]
    /\ UNCHANGED <<call, saved, mutex, clients, left, gone, shut, sent, pageVars, historyVars>>

\* Mutant of Leave: only what a broadcast runs into is forgotten.
LeaveEntry(c) ==
    /\ handler[c] = "leaving" /\ mutex = Nobody
    /\ handler' = [handler EXCEPT ![c] = "closed"]
    /\ shut' = shut \cup {c}
    /\ UNCHANGED <<call, saved, mutex, clients, left, gone, sent, pageVars, historyVars>>

\* The deferred function.
Leave(c) ==
    /\ handler[c] = "leaving" /\ mutex = Nobody
    /\ handler' = [handler EXCEPT ![c] = "closed"]
    /\ clients' = clients \ {c}
    /\ shut' = shut \cup {c}
    /\ UNCHANGED <<call, saved, mutex, left, gone, sent, pageVars, historyVars>>

----------------------------------------------------------------------------
(* The pages.                                                              *)

\* Mutant of Receive: App does not know the type of the event.
ReceiveUnknown(c) ==
    /\ c \notin gone /\ read[c] < Len(sent[c])
    /\ read' = [read EXCEPT ![c] = @ + 1]
    /\ UNCHANGED <<call, saved, mutex, clients, left, connVars, sent, view, stale, historyVars>>

\* onmessage: App invalidates the query, which is fetched again.
Receive(c) ==
    /\ c \notin gone /\ read[c] < Len(sent[c])
    /\ read' = [read EXCEPT ![c] = @ + 1]
    /\ stale' = stale \cup {c}
    /\ UNCHANGED <<call, saved, mutex, clients, left, connVars, sent, view, historyVars>>

\* The query's fetch, request and answer in one step: in the page there is an
\* await in between, and when fetches of one page overlap an older answer may
\* come last.  Such overlaps are left out.
Refetch(c) ==
    /\ c \in stale \ gone
    /\ stale' = stale \ {c}
    /\ view' = [view EXCEPT ![c] = saved]
    /\ UNCHANGED <<call, saved, mutex, clients, left, connVars, sent, read, historyVars>>

PageGoes(c) ==
    /\ handler[c] # "none" /\ c \notin gone
    /\ gone' = gone \cup {c}
    /\ UNCHANGED <<call, saved, mutex, clients, left, handler, shut, sent, pageVars, historyVars>>

----------------------------------------------------------------------------

\* BroadcastEvent, handleEvents once upgraded, and the page at its other end.
BroadcastEvent(e) ==
    \/ Lock(e) \/ Unlock(e)
    \/ \E c \in Conns : Write(e, c) \/ WriteFails(e, c)

HandleEvents(c) == Register(c) \/ StopReading(c) \/ Leave(c)

Page(c) == Receive(c) \/ Refetch(c)

Next ==
    \/ \E e \in Events : Save(e) \/ BroadcastEvent(e)
    \/ \E c \in Conns : Upgrade(c) \/ HandleEvents(c) \/ Page(c) \/ PageGoes(c)

Spec == Init /\ [][Next]_vars

\* Goroutines run, Go's mutex starves nobody, and a page that is not gone
\* reads what it is sent and fetches.  Nothing has to be broadcast or closed.
Fairness ==
    /\ \A e \in Events : SF_vars(BroadcastEvent(e))
    /\ \A c \in Conns : SF_vars(HandleEvents(c)) /\ WF_vars(Page(c))

FairSpec == Spec /\ Fairness

----------------------------------------------------------------------------
(* Properties.                                                             *)

\* Handlers, tables, buffers and pages keep their shape.
TypeOK ==
    /\ call \in [Events -> Calls]
    /\ saved \subseteq Events
    /\ mutex \in Events \cup {Nobody}
    /\ clients \subseteq Conns /\ left \in [Events -> SUBSET Conns]
    /\ handler \in [Conns -> Handlers]
    /\ gone \subseteq Conns /\ shut \subseteq Conns
    /\ sent \in [Conns -> Seq(Events)]
    /\ read \in [Conns -> Nat] /\ \A c \in Conns : read[c] <= Len(sent[c])
    /\ view \in [Conns -> SUBSET Events] /\ stale \subseteq Conns
    /\ log \in Seq(Events) /\ since \in [Conns -> Nat]

\* Every client is sent the same events in the same order, with no gap from
\* its registration on, and between broadcasts all of them, however
\* broadcasts, registrations and dropped clients overlap.
SameOrder ==
    \A c \in Conns :
        /\ since[c] + Len(sent[c]) <= Len(log)
        /\ c \in clients /\ mutex = Nobody => since[c] + Len(sent[c]) = Len(log)
        /\ \A i \in 1..Len(sent[c]) : sent[c][i] = log[since[c] + i]

\* No event runs ahead of the data: a page that was told of a change and has
\* fetched since shows it (fetches of one page do not overlap; see Refetch).
ToldMeansShown ==
    \A c \in Conns \ stale, i \in 1..Len(log) :
        since[c] < i /\ i <= since[c] + read[c] => log[i] \in view[c]

Log == INSTANCE EventLog WITH
    subscribed <- {c \in Conns : handler[c] \notin {"none", "upgraded"}},
    got <- [c \in Conns |-> SubSeq(sent[c], 1, read[c])]

\* The table, the mutex and the buffers amount to one log with subscribers.
ImplementsEventLog == Log!Spec

\* What is broadcast to a client arrives in its view, or the client is gone.
EventsArrive ==
    \A e \in Events, c \in Conns :
        c \in left[e] ~> e \in view[c] \/ c \in gone

\* No handler hangs in BroadcastEvent, as long as pages read or go: the mutex
\* held during writes is always released.
BroadcastsEnd == \A e \in Events : call[e] = "waiting" ~> call[e] = "done"

\* A page that has gone leaves the table, whether a write, the read loop or
\* both find out.
TheGoneAreForgotten ==
    \A c \in Conns : c \in gone ~> handler[c] = "closed" /\ c \notin clients
====
