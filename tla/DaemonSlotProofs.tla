---- MODULE DaemonSlotProofs ----
(***************************************************************************)
(* What follows from DaemonSlot alone, and so holds of Lifecycle, which    *)
(* implements it, and of UiClient, which is built on it.                   *)
(***************************************************************************)
EXTENDS DaemonSlot, TLAPS

\* Only the last daemon that came up may be up, or be named in the file, and
\* while it is up the file does name it.
FileIsTrue ==
    /\ starts \in Nat
    /\ daemon \in {0, starts} /\ portFile \in {0, starts}
    /\ daemon # 0 => portFile = daemon

\* Who reads the file reads the port of the daemon that is up, if one is, and
\* never that of a daemon before the last.
THEOREM TrueFile == Spec => []FileIsTrue
<1>1. Init => FileIsTrue
  BY DEF Init, FileIsTrue
<1>2. FileIsTrue /\ [Next]_vars => FileIsTrue'
  BY DEF FileIsTrue, Next, Begin, Vanish, End, vars
<1> QED BY <1>1, <1>2, PTL DEF Spec
====
