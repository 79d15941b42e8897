---- MODULE MCPeerBook ----
(***************************************************************************)
(* Instances of PeerBook for TLC.                                          *)
(***************************************************************************)
EXTENDS PeerBook

CONSTANTS a, b

\* b's user meets a.
OneMeets == {<<b, a>>}
====
