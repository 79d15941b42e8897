---- MODULE MCFriendProtocol ----
(***************************************************************************)
(* Instances of FriendProtocol for TLC.                                    *)
(***************************************************************************)
EXTENDS FriendProtocol

CONSTANTS a, b, c

Distinct == {r \in Peers \X Peers : r[1] # r[2]}

\* Requests in one direction between any two users, and the approvals that
\* answer them.
OneAsks == {<<a, b>>, <<b, c>>, <<a, c>>}
OneAnswers == {<<r[2], r[1]>> : r \in OneAsks}

Nobody == {}
====
