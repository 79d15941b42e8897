---- MODULE Friendship ----
(***************************************************************************)
(* What the README calls a friend system with mutual approval: one user    *)
(* asks, the other accepts, and only then does either count the other as a *)
(* friend.  Either may drop the other at any time, on their own side.      *)
(*                                                                         *)
(* FriendProtocol implements this module when users approve only requests  *)
(* that were made to them; see FriendProtocolProofs.                       *)
(***************************************************************************)
CONSTANT Peers

VARIABLES asked,      \* <<p, q>>: p has asked q
          accepted,   \* <<p, q>>: p has accepted q
          friends     \* friends[p]: whom p counts as a friend

fsVars == <<asked, accepted, friends>>

Init == asked = {} /\ accepted = {} /\ friends = [p \in Peers |-> {}]

\* Asking somebody who is a friend already opens the matter again.
Ask(p, q) ==
    /\ asked' = asked \cup {<<p, q>>}
    /\ friends' = [friends EXCEPT ![p] = @ \ {q}]
    /\ UNCHANGED accepted

\* q learns that p asks.
Hear(q, p) ==
    /\ <<p, q>> \in asked
    /\ friends' = [friends EXCEPT ![q] = @ \ {p}]
    /\ UNCHANGED <<asked, accepted>>

\* The recipient of the question accepts.
Accept(q, p) ==
    /\ <<p, q>> \in asked
    /\ accepted' = accepted \cup {<<q, p>>}
    /\ friends' = [friends EXCEPT ![q] = @ \cup {p}]
    /\ UNCHANGED asked

\* The one who asked learns of it.
Confirm(p, q) ==
    /\ <<p, q>> \in asked
    /\ <<q, p>> \in accepted
    /\ friends' = [friends EXCEPT ![p] = @ \cup {q}]
    /\ UNCHANGED <<asked, accepted>>

Drop(p, q) ==
    /\ friends' = [friends EXCEPT ![p] = @ \ {q}]
    /\ UNCHANGED <<asked, accepted>>

Next ==
    \E p, q \in Peers :
        Ask(p, q) \/ Hear(p, q) \/ Accept(p, q) \/ Confirm(p, q) \/ Drop(p, q)

Spec == Init /\ [][Next]_fsVars
====
