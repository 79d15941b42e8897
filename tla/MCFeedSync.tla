---- MODULE MCFeedSync ----
(***************************************************************************)
(* Instances of FeedSync for TLC.                                          *)
(***************************************************************************)
EXTENDS FeedSync, TLC

CONSTANTS a, b

\* Only b follows a.
OneWay == {<<b, a>>}
====
