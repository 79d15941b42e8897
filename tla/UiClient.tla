---- MODULE UiClient ----
(***************************************************************************)
(* How the UI finds its daemon: the port the daemon writes to a file, the  *)
(* port the API client caches, and the WebSocket that is opened again      *)
(* three seconds after it closed, while daemons come and go.               *)
(*                                                                         *)
(* Sources: ui/src/api/client.ts, ui/src/App.tsx, ui/electron/main.ts      *)
(* (read-port-file), daemon/api/server.go (NewServer, Close).              *)
(***************************************************************************)
EXTENDS Naturals, FiniteSets, Sequences

CONSTANTS
    MaxStarts,    \* bound on the daemons started, one after the other
    MaxMounts,    \* bound on the mounts of App (two in React's strict mode)
    MaxCalls,     \* bound on the API calls that wait for the port at once
    Sockets,      \* slots for WebSocket objects
    NoSocket

ASSUME ConstantsAssumption ==
    /\ MaxStarts \in Nat /\ MaxMounts \in Nat /\ MaxCalls \in Nat
    /\ IsFiniteSet(Sockets) /\ Cardinality(Sockets) >= MaxMounts
    /\ NoSocket \notin Sockets

VARIABLES
    daemon,     \* the port of the daemon that is up, 0: none
    starts,     \* the daemons started so far; each has a port of its own
    portFile,   \* the port in daemon.port, 0: no file, or an empty one
    ipc,        \* calls of getPort under way, in order; see Requests
    baseUrl,    \* the port the API client calls, 0: not known yet
    ws,         \* ApiClient.ws
    sockets,    \* sockets[i]: the WebSocket object in slot i
    timers,     \* reconnect timers that are set
    mounted,    \* App is mounted: its listener is registered
    mounts,     \* the mounts of App so far
    thrown      \* the calls of connect so far that ended in an exception

daemonVars == <<daemon, starts, portFile>>

appVars == <<mounted, mounts>>

vars == <<daemonVars, ipc, baseUrl, ws, sockets, timers, appVars, thrown>>

Ports == 0..MaxStarts

\* What connect or an API call awaits: the main process has yet to read the
\* file, or has, and its answer, 0 without a number, is on the way back.
Requests == [who : {"connect", "call"}, read : BOOLEAN, port : Ports]

Request(who) == [who |-> who, read |-> FALSE, port |-> 0]

States == {"none", "connecting", "open", "closing"}

Socket(state, port) == [state |-> state, port |-> port]

Free == Socket("none", 0)

Init ==
    /\ daemon = 0 /\ starts = 0 /\ portFile = 0
    /\ ipc = <<>> /\ baseUrl = 0 /\ ws = NoSocket
    /\ sockets = [i \in Sockets |-> Free]
    /\ timers = 0
    /\ mounted = FALSE /\ mounts = 0 /\ thrown = 0

----------------------------------------------------------------------------
(* The daemons, as Lifecycle shows them, and the main process.             *)

Slot == INSTANCE DaemonSlot

clientVars == <<ipc, baseUrl, ws, sockets, timers, appVars, thrown>>

\* NewServer listens on a port the system picks and writes the file.
DaemonStart ==
    /\ starts < MaxStarts
    /\ Slot!Begin
    /\ UNCHANGED clientVars

\* It emptied the file before, and may have got no further.
PortFileVanishes == Slot!Vanish /\ UNCHANGED clientVars

\* A crash leaves the file; Server.Close, on a signal, removes it.
DaemonEnds == Slot!End /\ UNCHANGED clientVars

\* read-port-file, one request after the other.
ReadPortFile ==
    \E k \in DOMAIN ipc :
        /\ ~ipc[k].read
        /\ \A j \in 1..(k - 1) : ipc[j].read
        /\ ipc' = [ipc EXCEPT ![k].read = TRUE, ![k].port = portFile]
        /\ UNCHANGED <<daemonVars, baseUrl, ws, sockets, timers, appVars, thrown>>

----------------------------------------------------------------------------
(* The client.                                                             *)

\* App's effect: connectWebSocket registers the listener and, unless there
\* is a socket, calls connect, which calls getPort.
ConnectWebSocket ==
    /\ ~mounted /\ mounts < MaxMounts
    /\ mounted' = TRUE
    /\ mounts' = mounts + 1
    /\ ipc' = IF ws = NoSocket THEN Append(ipc, Request("connect")) ELSE ipc
    /\ UNCHANGED <<daemonVars, baseUrl, ws, sockets, timers, thrown>>

\* App's clean-up: disconnectWebSocket closes the socket it knows of.
DisconnectWebSocket ==
    /\ mounted
    /\ mounted' = FALSE
    /\ ws' = NoSocket
    /\ sockets' = [i \in Sockets |-> IF i = ws THEN Socket("closing", sockets[i].port)
                                     ELSE sockets[i]]
    /\ UNCHANGED <<daemonVars, ipc, baseUrl, timers, mounts, thrown>>

\* An API call: getPort if the port is not known, and never again.
EnsurePort ==
    /\ baseUrl = 0
    /\ Cardinality({k \in DOMAIN ipc : ipc[k].who = "call"}) < MaxCalls
    /\ ipc' = Append(ipc, Request("call"))
    /\ UNCHANGED <<daemonVars, baseUrl, ws, sockets, timers, appVars, thrown>>

\* The await of getPort returns to its caller.
Answered(who) == ipc # <<>> /\ Head(ipc).read /\ Head(ipc).who = who

\* Mutant of GetPort: the port is asked for once.
CachedPort == IF baseUrl # 0 THEN baseUrl ELSE Head(ipc).port

\* 0 makes getPort throw.
GetPort == Head(ipc).port

\* Mutant of NewBaseUrl: only the first port is kept.
FirstBaseUrl == IF baseUrl # 0 THEN baseUrl ELSE GetPort

\* getPort changes baseUrl, whoever calls it, unless it throws.
NewBaseUrl == IF GetPort # 0 THEN GetPort ELSE baseUrl

\* The API call goes on to its fetch, or fails.
GoOnCalling ==
    /\ Answered("call")
    /\ ipc' = Tail(ipc)
    /\ baseUrl' = NewBaseUrl
    /\ UNCHANGED <<daemonVars, ws, sockets, timers, appVars, thrown>>

\* connect goes on: a new socket becomes ws.
Connect(i) ==
    /\ Answered("connect")
    /\ GetPort # 0
    /\ sockets[i] = Free
    /\ ipc' = Tail(ipc)
    /\ baseUrl' = NewBaseUrl
    /\ ws' = i
    /\ sockets' = [sockets EXCEPT ![i] = Socket("connecting", GetPort)]
    /\ UNCHANGED <<daemonVars, timers, appVars, thrown>>

\* getPort throws: the promise of connect is rejected and nobody looks.
ConnectThrows ==
    /\ Answered("connect")
    /\ GetPort = 0
    /\ ipc' = Tail(ipc)
    /\ thrown' = thrown + 1
    /\ UNCHANGED <<daemonVars, baseUrl, ws, sockets, timers, appVars>>

SocketOpens(i) ==
    /\ sockets[i].state = "connecting"
    /\ sockets[i].port = daemon
    /\ sockets' = [sockets EXCEPT ![i] = Socket("open", daemon)]
    /\ UNCHANGED <<daemonVars, ipc, baseUrl, ws, timers, appVars, thrown>>

\* There is no daemon at the other end, or the page closed the socket.
Closing(i) ==
    \/ sockets[i].state = "closing"
    \/ sockets[i].state \in {"connecting", "open"} /\ sockets[i].port # daemon

\* Mutants of SocketCloses: onerror, which comes before onclose when
\* connecting fails, reconnects too; the slot keeps a closed socket.
CloseAndErrorReconnect(i) ==
    /\ Closing(i)
    /\ ws' = NoSocket
    /\ timers' = IF sockets[i].state = "connecting" THEN timers + 2 ELSE timers + 1
    /\ sockets' = [sockets EXCEPT ![i] = Free]
    /\ UNCHANGED <<daemonVars, ipc, baseUrl, appVars, thrown>>

CloseKeepingSocket(i) ==
    /\ Closing(i)
    /\ ws' = NoSocket
    /\ timers' = timers + 1
    /\ sockets' = [sockets EXCEPT ![i] = Socket("closed", sockets[i].port)]
    /\ UNCHANGED <<daemonVars, ipc, baseUrl, appVars, thrown>>

\* onclose forgets ws, whichever socket that is, and sets the timer, also
\* when it was disconnectWebSocket that closed the socket.
SocketCloses(i) ==
    /\ Closing(i)
    /\ ws' = NoSocket
    /\ timers' = timers + 1
    /\ sockets' = [sockets EXCEPT ![i] = Free]
    /\ UNCHANGED <<daemonVars, ipc, baseUrl, appVars, thrown>>

\* The timer calls connect again.
TimerFires ==
    /\ timers > 0
    /\ timers' = timers - 1
    /\ ipc' = Append(ipc, Request("connect"))
    /\ UNCHANGED <<daemonVars, baseUrl, ws, sockets, appVars, thrown>>

----------------------------------------------------------------------------

SocketStep(i) == Connect(i) \/ SocketOpens(i) \/ SocketCloses(i)

Next ==
    \/ DaemonStart \/ PortFileVanishes \/ DaemonEnds \/ ReadPortFile
    \/ ConnectWebSocket \/ DisconnectWebSocket
    \/ EnsurePort \/ GoOnCalling \/ ConnectThrows \/ TimerFires
    \/ \E i \in Sockets : SocketStep(i)

Spec == Init /\ [][Next]_vars

\* The event loops of page and main process: timers fire, requests are read
\* and answered, sockets open or close.  Nothing is assumed of daemons,
\* mounts and API calls.
Fairness ==
    /\ WF_vars(TimerFires)
    /\ WF_vars(ReadPortFile)
    /\ WF_vars(GoOnCalling)
    /\ WF_vars(ConnectThrows)
    /\ WF_vars(\E i \in Sockets : Connect(i))
    /\ \A i \in Sockets : WF_vars(SocketOpens(i)) /\ WF_vars(SocketCloses(i))

FairSpec == Spec /\ Fairness

----------------------------------------------------------------------------
(* Properties.                                                             *)

\* Ports, requests, sockets and counters keep their shape.
TypeOK ==
    /\ {daemon, starts, portFile, baseUrl} \subseteq Ports
    /\ ipc \in Seq(Requests)
    /\ ws \in Sockets \cup {NoSocket}
    /\ sockets \in [Sockets -> [state : States, port : Ports]]
    /\ timers \in Nat /\ thrown \in Nat
    /\ mounted \in BOOLEAN /\ mounts \in 0..MaxMounts

Live == {i \in Sockets : sockets[i] # Free}

Reads == {k \in DOMAIN ipc : ipc[k].who = "connect"}

\* The reconnect loops of the page: each is at one place.
Loops == Cardinality(Reads) + timers + Cardinality(Live)

\* Loops start with a mount and end with an exception, and with nothing else:
\* neither closing, failing and reconnecting nor the races of ws with two
\* sockets end one or split it in two.  (Two mounts may leave two loops, and a
\* clean-up ends none.)
OneLoopPerMount == mounts > 0 => Loops + thrown \in 1..mounts

\* From some time on daemon n stays up, App mounted, and a loop is left.
Tried(n) == daemon = n /\ mounted /\ Loops > 0

\* As long as a loop is left, the page gets an open socket to the daemon that
\* is up, and keeps it.
EventsResume ==
    \A n \in 1..MaxStarts :
        <>[]Tried(n) => <>[](\E i \in Sockets : sockets[i] = Socket("open", n))

\* The API calls, which look at the port file only once, follow the daemon
\* all the same: the reconnect loop refreshes the port they use, and no late
\* answer puts an older one back.
CallsFollowDaemon ==
    \A n \in 1..MaxStarts : <>[]Tried(n) => <>[](baseUrl = n)

\* client.ts: "WebSocket disconnected, reconnecting...".  Says that after a
\* socket closed there is an open one again, if a daemon stays up from some
\* time on.
DisconnectedReconnects ==
    \A n \in 1..MaxStarts :
        <>[](daemon = n /\ mounted) =>
            (timers > 0 ~> \E i \in Sockets : sockets[i].state = "open")
====
