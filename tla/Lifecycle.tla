---- MODULE Lifecycle ----
(***************************************************************************)
(* The processes that share one data directory: how a daemon finds its     *)
(* identity, takes the store, publishes its port and goes, in order or not,*)
(* and the Electron shells that start and stop daemons.  Nothing but       *)
(* Badger's lock keeps two daemons apart.                                  *)
(*                                                                         *)
(* Sources: daemon/main.go, daemon/node/node.go (loadOrGenerateKey, New,   *)
(* Close), daemon/store/store.go (New, Close), daemon/api/server.go        *)
(* (NewServer, Close), ui/electron/main.ts.                                *)
(***************************************************************************)
EXTENDS Naturals, FiniteSets

CONSTANTS
    MaxProcesses,    \* bound on the daemon processes
    Shells,          \* runs of the desktop application
    Mac,             \* whether process.platform is darwin
    NoKey, Torn,     \* no key file; one that was emptied and not yet written
    Nobody

Processes == 1..MaxProcesses

ASSUME ConstantsAssumption ==
    /\ MaxProcesses \in Nat /\ Mac \in BOOLEAN
    /\ NoKey # Torn /\ {NoKey, Torn} \cap Processes = {}
    /\ Nobody \notin Processes \cup Shells

VARIABLES
    stage,      \* stage[n]: how far process n has come
    key,        \* key[n]: its identity, named after the process that made it
    remade,     \* a key was made although there was one, or another was being
                \* made at the same time (history)
    keyFile,    \* identity.key
    authors,    \* the identities that have posts in the store
    lock,       \* the process that holds Badger's lock on db/
    portFile,   \* the port in daemon.port, 0: none to be read there
    port,       \* port[n]: where process n listens, 0: not told yet
    ports,      \* the ports told so far; the system picks a fresh one
    term,       \* the processes that were sent SIGTERM or SIGINT
    owner,      \* owner[n]: the shell that started process n
    app,        \* app[s]: "off", "window" or, on a Mac only, "windowless"
    child       \* child[s]: daemonProcess

identity == <<key, remade, keyFile, authors>>

portVars == <<portFile, port, ports>>

shellVars == <<owner, app, child>>

vars == <<stage, identity, lock, portVars, term, shellVars>>

Ended == {"failed", "gone"}

Stages == {"free", "started", "keyless", "writing", "hosted", "opened", "listening",
           "serving", "closing"} \cup Ended

Running == {n \in Processes : stage[n] \notin {"free"} \cup Ended}

Enter(n, from, to) == stage[n] = from /\ stage' = [stage EXCEPT ![n] = to]

\* Its memory, its listener and the signals it was sent go with a process.
Exit(n, how) ==
    /\ stage' = [stage EXCEPT ![n] = how]
    /\ key' = [key EXCEPT ![n] = NoKey]
    /\ port' = [port EXCEPT ![n] = 0]
    /\ lock' = IF lock = n THEN Nobody ELSE lock
    /\ term' = term \ {n}
    /\ owner' = [owner EXCEPT ![n] = Nobody]
    /\ UNCHANGED <<remade, keyFile, authors, ports, app, child>>

Init ==
    /\ stage = [n \in Processes |-> "free"]
    /\ key = [n \in Processes |-> NoKey]
    /\ remade = FALSE /\ keyFile = NoKey /\ authors = {}
    /\ lock = Nobody
    /\ portFile = 0 /\ port = [n \in Processes |-> 0] /\ ports = 0
    /\ term = {}
    /\ owner = [n \in Processes |-> Nobody]
    /\ app = [s \in Shells |-> "off"]
    /\ child = [s \in Shells |-> Nobody]

----------------------------------------------------------------------------
(* Starting: main, from loadOrGenerateKey to signal.Notify.                *)

\* Mutant of ReadKey: whatever is in the file is taken for a key.
ReadAnyKey(n) ==
    /\ keyFile # NoKey
    /\ Enter(n, "started", "hosted")
    /\ key' = [key EXCEPT ![n] = keyFile]
    /\ UNCHANGED <<remade, keyFile, authors, lock, portVars, term, shellVars>>

ReadKey(n) ==
    /\ keyFile \notin {NoKey, Torn}
    /\ Enter(n, "started", "hosted")
    /\ key' = [key EXCEPT ![n] = keyFile]
    /\ UNCHANGED <<remade, keyFile, authors, lock, portVars, term, shellVars>>

KeyThereOrComing ==
    \/ keyFile \in Processes
    \/ \E m \in Processes : stage[m] \in {"keyless", "writing"}

\* os.ReadFile returns an error, there being no file or for any other reason:
\* the process makes a key of its own.
ReadFileFails(n) ==
    /\ Enter(n, "started", "keyless")
    /\ remade' = (remade \/ KeyThereOrComing)
    /\ UNCHANGED <<key, keyFile, authors, lock, portVars, term, shellVars>>

\* An empty file is no key: os.Exit(1).
FindTornKey(n) ==
    /\ stage[n] = "started" /\ keyFile = Torn
    /\ Exit(n, "failed")
    /\ UNCHANGED portFile

\* os.WriteFile empties the file, whatever it holds, then writes it.
TruncateKey(n) ==
    /\ Enter(n, "keyless", "writing")
    /\ keyFile' = Torn
    /\ UNCHANGED <<key, remade, authors, lock, portVars, term, shellVars>>

\* Mutant of WriteKey: an error of WriteFile is passed over.
WriteKeyOrNot(n) ==
    /\ Enter(n, "writing", "hosted")
    /\ keyFile' \in {n, Torn}
    /\ key' = [key EXCEPT ![n] = n]
    /\ UNCHANGED <<remade, authors, lock, portVars, term, shellVars>>

WriteKey(n) ==
    /\ Enter(n, "writing", "hosted")
    /\ keyFile' = n
    /\ key' = [key EXCEPT ![n] = n]
    /\ UNCHANGED <<remade, authors, lock, portVars, term, shellVars>>

\* Mutant of OpenStore: the store is opened without the lock.
OpenSharedStore(n) ==
    /\ Enter(n, "hosted", "opened")
    /\ lock' = n
    /\ UNCHANGED <<identity, portVars, term, shellVars>>

\* badger.Open takes the lock or fails at once, which ends the process.
OpenStore(n) ==
    /\ lock = Nobody
    /\ Enter(n, "hosted", "opened")
    /\ lock' = n
    /\ UNCHANGED <<identity, portVars, term, shellVars>>

OpenStoreFails(n) ==
    /\ stage[n] = "hosted" /\ lock # Nobody
    /\ Exit(n, "failed")
    /\ UNCHANGED portFile

\* NewServer listens and writes the port file: it empties it, whatever it
\* holds (an empty file reads as no number), and fills it; then it serves.
\* (Until signal.Notify, a moment later, a signal still kills; see Die.)
TruncatePort(n) ==
    /\ Enter(n, "opened", "listening")
    /\ portFile' = 0
    /\ UNCHANGED <<identity, lock, port, ports, term, shellVars>>

WritePort(n) ==
    /\ Enter(n, "listening", "serving")
    /\ ports' = ports + 1
    /\ port' = [port EXCEPT ![n] = ports + 1]
    /\ portFile' = ports + 1
    /\ UNCHANGED <<identity, lock, term, shellVars>>

----------------------------------------------------------------------------
(* Running and ending.                                                     *)

\* POST /api/posts; a handler may outlive Server.Close, the store may not.
Post(n) ==
    /\ stage[n] \in {"serving", "closing"}
    /\ authors' = authors \cup {key[n]}
    /\ UNCHANGED <<stage, key, remade, keyFile, lock, portVars, term, shellVars>>

\* Mutant of CloseServer: the store is closed before the server.
CloseServerLast(n) ==
    /\ n \in term /\ stage[n] = "serving"
    /\ \/ /\ lock = n
          /\ lock' = Nobody
          /\ UNCHANGED <<stage, portFile, port>>
       \/ /\ lock # n
          /\ stage' = [stage EXCEPT ![n] = "closing"]
          /\ portFile' = 0
          /\ port' = [port EXCEPT ![n] = 0]
          /\ UNCHANGED lock
    /\ UNCHANGED <<identity, ports, term, shellVars>>

\* main returns after the signal, and its defers run: Server.Close removes
\* the file, whatever it holds, and closes the listener; Store.Close and
\* Node.Close follow (the host outlives the lock by a moment nobody sees).
CloseServer(n) ==
    /\ n \in term
    /\ Enter(n, "serving", "closing")
    /\ portFile' = 0
    /\ port' = [port EXCEPT ![n] = 0]
    /\ UNCHANGED <<identity, lock, ports, term, shellVars>>

CloseStoreAndNode(n) ==
    /\ stage[n] = "closing"
    /\ Exit(n, "gone")
    /\ UNCHANGED portFile

\* Mutant of Die: the lock is a file, which a crash leaves behind.
DieLocked(n) ==
    /\ n \in Running
    /\ stage' = [stage EXCEPT ![n] = "gone"]
    /\ key' = [key EXCEPT ![n] = NoKey]
    /\ port' = [port EXCEPT ![n] = 0]
    /\ term' = term \ {n}
    /\ owner' = [owner EXCEPT ![n] = Nobody]
    /\ UNCHANGED <<remade, keyFile, authors, lock, portFile, ports, app, child>>

\* A crash, SIGTERM before Notify, or an error of the system that main exits
\* on (no key written, no host, no listener).  The system drops the lock; the
\* files stay as they are.
Die(n) ==
    /\ n \in Running
    /\ Exit(n, "gone")
    /\ UNCHANGED portFile

----------------------------------------------------------------------------
(* Starting and stopping daemons, from a shell or by hand.                 *)

Spawn(n, by) ==
    /\ \A m \in Processes : stage[m] = "free" <=> m >= n
    /\ stage' = [stage EXCEPT ![n] = "started"]
    /\ owner' = [owner EXCEPT ![n] = by]

StartByHand(n) ==
    /\ Spawn(n, Nobody)
    /\ UNCHANGED <<identity, lock, portVars, term, app, child>>

Signal(n) ==
    /\ n \in Running \ term /\ owner[n] = Nobody
    /\ term' = term \cup {n}
    /\ UNCHANGED <<stage, identity, lock, portVars, shellVars>>

\* whenReady: startDaemon, then createWindow.
Launch(s) ==
    /\ app[s] = "off"
    /\ app' = [app EXCEPT ![s] = "window"]
    /\ \E n \in Processes :
         /\ Spawn(n, s)
         /\ child' = [child EXCEPT ![s] = n]
    /\ UNCHANGED <<identity, lock, portVars, term>>

\* stopDaemon kills a child that main still knows of.
StopDaemon(s) ==
    /\ term' = term \cup ({child[s]} \cap Running)
    /\ child' = [child EXCEPT ![s] = Nobody]

\* window-all-closed.
CloseWindow(s) ==
    /\ app[s] = "window"
    /\ StopDaemon(s)
    /\ app' = [app EXCEPT ![s] = IF Mac THEN "windowless" ELSE "off"]
    /\ UNCHANGED <<stage, identity, lock, portVars, owner>>

\* activate: a window, and no daemon.
Activate(s) ==
    /\ app[s] = "windowless"
    /\ app' = [app EXCEPT ![s] = "window"]
    /\ UNCHANGED <<stage, identity, lock, portVars, term, owner, child>>

\* Mutant of Quit: the daemon is stopped with the last window only.
QuitAlone(s) ==
    /\ app[s] # "off"
    /\ app' = [app EXCEPT ![s] = "off"]
    /\ child' = [child EXCEPT ![s] = Nobody]
    /\ UNCHANGED <<stage, identity, lock, portVars, term, owner>>

\* before-quit.
Quit(s) ==
    /\ app[s] # "off"
    /\ StopDaemon(s)
    /\ app' = [app EXCEPT ![s] = "off"]
    /\ UNCHANGED <<stage, identity, lock, portVars, owner>>

\* The close event of the child.  Nothing starts another.
ChildClosed(s) ==
    /\ child[s] # Nobody /\ child[s] \notin Running
    /\ child' = [child EXCEPT ![s] = Nobody]
    /\ UNCHANGED <<stage, identity, lock, portVars, term, owner, app>>

----------------------------------------------------------------------------

Identify(n) ==
    ReadKey(n) \/ ReadFileFails(n) \/ FindTornKey(n) \/ TruncateKey(n) \/ WriteKey(n)

ComeUp(n) ==
    OpenStore(n) \/ OpenStoreFails(n) \/ TruncatePort(n) \/ WritePort(n)

Close(n) == CloseServer(n) \/ CloseStoreAndNode(n)

Proceed(n) == Identify(n) \/ ComeUp(n) \/ Close(n)

Next ==
    \/ \E n \in Processes :
         \/ Identify(n) \/ ComeUp(n) \/ Close(n)
         \/ Post(n) \/ Die(n) \/ StartByHand(n) \/ Signal(n)
    \/ \E s \in Shells :
         Launch(s) \/ CloseWindow(s) \/ Activate(s) \/ Quit(s) \/ ChildClosed(s)

Spec == Init /\ [][Next]_vars

\* Processes run.  Nothing is assumed of crashes, users and shells, not even
\* that a signal kills before Notify: it is caught after it.
Fairness == \A n \in Processes : WF_vars(Proceed(n))

FairSpec == Spec /\ Fairness

----------------------------------------------------------------------------
(* Properties.                                                             *)

\* Stages, keys, files, locks, ports and handles keep their shape.
TypeOK ==
    /\ stage \in [Processes -> Stages]
    /\ key \in [Processes -> Processes \cup {NoKey}]
    /\ remade \in BOOLEAN
    /\ keyFile \in Processes \cup {NoKey, Torn}
    /\ authors \subseteq Processes
    /\ lock \in Processes \cup {Nobody}
    /\ portFile \in Nat /\ port \in [Processes -> Nat] /\ ports \in Nat
    /\ term \subseteq Processes
    /\ owner \in [Processes -> Shells \cup {Nobody}]
    /\ app \in [Shells -> {"off", "window", "windowless"}]
    /\ child \in [Shells -> Processes \cup {Nobody}]

\* Server.Close removes the file with no look at its contents, and every
\* start empties it; a daemon that serves is in it all the same, whatever
\* other daemons start, fail, end or crash meanwhile.
PortFileIsTheServers ==
    \A n \in Processes : stage[n] = "serving" => portFile = port[n]

\* Processes that run under an identity.
Hosted == {n \in Processes : stage[n] \in
             {"hosted", "opened", "listening", "serving", "closing"}}

\* Whatever crashes come between, nobody runs under, and no post is by, an
\* identity the next start will not find in the key file.  The premise: no
\* read of the file failed while it held a key, and no two processes made a
\* key at once.
PersistentIdentity ==
    ~remade => /\ authors \subseteq {keyFile}
               /\ \A n \in Hosted : key[n] = keyFile

Slot == INSTANCE DaemonSlot WITH
    daemon <- IF \E n \in Processes : stage[n] = "serving" THEN ports ELSE 0,
    starts <- ports

\* To the rest of the system the directory is one slot for a daemon.
ImplementsDaemonSlot == Slot!Spec

\* A shell that has ended has told every daemon it started that still runs,
\* also one whose handle it lost or that a signal finds coming up.
OrphansAreTold ==
    \A n \in Processes, s \in Shells : owner[n] = s /\ app[s] = "off" => n \in term

\* A daemon that was started by a shell ends once that shell has ended, also
\* when it was told to while it was coming up.
QuitLeavesNoDaemon ==
    \A n \in Processes, s \in Shells :
        owner[n] = s /\ app[s] = "off" ~> stage[n] \in Ended

\* Started, with no other process of the directory.
Alone(n) == stage[n] = "started" /\ Running = {n}

\* The premise is a key file that is not torn: what a crash in the middle of
\* os.WriteFile leaves, unlike what it leaves at any other step, does keep
\* later starts from serving.  Apart from that no crash of an earlier daemon
\* does, through lock, port file or key file: started alone, a daemon serves,
\* unless it is killed or another daemon starts before it does.
LoneStartServes ==
    \A n \in Processes :
        Alone(n) /\ keyFile # Torn ~> \/ stage[n] \in {"serving", "gone"}
                                      \/ Running \ {n} # {}

\* README.md: identity.key is the "Persistent peer identity".  A daemon that is
\* started alone, with a key in the file, comes to run under this key, unless
\* it is killed or another one starts first.  No race plays a part in this; a
\* read of the file that fails replaces the key, and refutes it.
PersistentPeerIdentity ==
    \A n, k \in Processes :
        Alone(n) /\ keyFile = k ~> \/ key[n] = k \/ stage[n] = "gone"
                                   \/ Running \ {n} # {}
====
