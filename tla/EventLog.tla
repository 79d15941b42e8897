---- MODULE EventLog ----
(***************************************************************************)
(* What the daemon's event stream promises: there is one log, and each     *)
(* subscriber receives, from the end of the log at its subscription on,    *)
(* one event after the other, until it stops receiving.                    *)
(***************************************************************************)
EXTENDS Naturals, Sequences

CONSTANTS Events, Conns

VARIABLES
    log,          \* the events, in the order everybody sees them in
    subscribed,   \* the connections that have subscribed
    since,        \* since[c]: the length of the log at that time
    got           \* got[c]: what has arrived at the other end of c

vars == <<log, subscribed, since, got>>

Init ==
    /\ log = <<>> /\ subscribed = {}
    /\ since = [c \in Conns |-> 0]
    /\ got = [c \in Conns |-> <<>>]

Publish(e) ==
    /\ \A i \in DOMAIN log : log[i] # e
    /\ log' = Append(log, e)
    /\ UNCHANGED <<subscribed, since, got>>

Subscribe(c) ==
    /\ c \notin subscribed
    /\ subscribed' = subscribed \cup {c}
    /\ since' = [since EXCEPT ![c] = Len(log)]
    /\ UNCHANGED <<log, got>>

Deliver(c) ==
    /\ c \in subscribed
    /\ since[c] + Len(got[c]) < Len(log)
    /\ got' = [got EXCEPT ![c] = Append(@, log[since[c] + Len(@) + 1])]
    /\ UNCHANGED <<log, subscribed, since>>

Next ==
    \/ \E e \in Events : Publish(e)
    \/ \E c \in Conns : Subscribe(c) \/ Deliver(c)

Spec == Init /\ [][Next]_vars
====
