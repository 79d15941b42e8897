---- MODULE PeerDirectory ----
(***************************************************************************)
(* What a peer book promises: an address stays from the moment the user    *)
(* enters it until the user approves that peer, and a name is always one   *)
(* that peer has had.  Learning a name is one step that touches nothing    *)
(* else.                                                                   *)
(*                                                                         *)
(* PeerBook implements this module, where learning is a request, an answer *)
(* and a transaction that may meet others.                                 *)
(***************************************************************************)
EXTENDS Naturals

CONSTANTS Peers, NoRecord

VARIABLES
    profile,   \* profile[p]: the number of the name p has now
    book       \* book[q][p]: what q has noted of p

pdVars == <<profile, book>>

Init ==
    /\ profile = [p \in Peers |-> 0]
    /\ book = [q \in Peers |-> [p \in Peers |-> NoRecord]]

Rename(p) ==
    /\ profile' = [profile EXCEPT ![p] = @ + 1]
    /\ UNCHANGED book

Note(q, p, addr, name) ==
    /\ book' = [book EXCEPT ![q][p] = [addr |-> addr, name |-> name]]
    /\ UNCHANGED profile

Enter(q, p) == Note(q, p, TRUE, 0)

Approve(q, p) == Note(q, p, FALSE, 0)

Learn(q, p) ==
    \E name \in 0..profile[p] :
        Note(q, p, book[q][p] # NoRecord /\ book[q][p].addr, name)

Next ==
    \/ \E p \in Peers : Rename(p)
    \/ \E q, p \in Peers : Enter(q, p) \/ Approve(q, p) \/ Learn(q, p)

Spec == Init /\ [][Next]_pdVars
====
