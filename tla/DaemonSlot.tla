---- MODULE DaemonSlot ----
(***************************************************************************)
(* What the daemons of one data directory look like from outside: at most  *)
(* one is up at a time, each on a port of its own, and the port file names *)
(* it.  UiClient takes this as its surroundings; Lifecycle implements it.  *)
(***************************************************************************)
EXTENDS Naturals

VARIABLES
    daemon,     \* the port of the daemon that is up, 0: none
    starts,     \* the daemons that came up so far, and so the last port
    portFile    \* the port in daemon.port, 0: none to be read there

vars == <<daemon, starts, portFile>>

Init == daemon = 0 /\ starts = 0 /\ portFile = 0

\* A daemon comes up, and its port is in the file.
Begin ==
    /\ daemon = 0
    /\ starts' = starts + 1
    /\ daemon' = starts + 1
    /\ portFile' = starts + 1

\* A daemon that will come up, or will not, empties the file to write it.
Vanish ==
    /\ daemon = 0 /\ portFile # 0
    /\ portFile' = 0
    /\ UNCHANGED <<daemon, starts>>

\* A daemon in good order takes its file along; any other leaves it.
End ==
    /\ daemon # 0
    /\ daemon' = 0
    /\ portFile' \in {portFile, 0}
    /\ UNCHANGED starts

Next == Begin \/ Vanish \/ End

Spec == Init /\ [][Next]_vars
====
