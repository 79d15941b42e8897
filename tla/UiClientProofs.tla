---- MODULE UiClientProofs ----
(***************************************************************************)
(* Proofs about UiClient: type correctness, that reconnect loops are       *)
(* neither multiplied nor lost but by an exception, and that the ports on  *)
(* their way to the client stay in the order of the daemons, for all       *)
(* constants.                                                              *)
(***************************************************************************)
EXTENDS UiClient, FiniteSetTheorems, TLAPS

\* A socket that ws names is in a slot, so that a clean-up, which closes it,
\* starts no loop; and what OneLoopPerMount counts is bounded also at first.
Inv ==
    /\ ws # NoSocket => sockets[ws] # Free
    /\ Loops + thrown <= mounts
    /\ mounts > 0 => Loops + thrown > 0

----------------------------------------------------------------------------
(* Counting requests and sockets.                                          *)

ConnectsIn(s) == {k \in DOMAIN s : s[k].who = "connect"}

LiveIn(table) == {i \in Sockets : table[i] # Free}

LEMMA ConnectsType ==
    ASSUME NEW s \in Seq(Requests)
    PROVE  IsFiniteSet(ConnectsIn(s)) /\ Cardinality(ConnectsIn(s)) \in Nat
<1>1. ConnectsIn(s) \in SUBSET (1..Len(s)) /\ Len(s) \in Nat
  BY DEF ConnectsIn
<1>2. IsFiniteSet(1..Len(s))
  BY <1>1, FS_Interval
<1>3. IsFiniteSet(ConnectsIn(s))
  BY <1>1, <1>2, FS_Subset
<1> QED BY <1>3, FS_CardinalityType

LEMMA RequestType ==
    ASSUME NEW who \in {"connect", "call"}
    PROVE  Request(who) \in Requests /\ Request(who).who = who
BY ConstantsAssumption DEF Request, Requests, Ports

LEMMA AppendCount ==
    ASSUME NEW s \in Seq(Requests), NEW who \in {"connect", "call"}
    PROVE  /\ Append(s, Request(who)) \in Seq(Requests)
           /\ Cardinality(ConnectsIn(Append(s, Request(who)))) =
                Cardinality(ConnectsIn(s)) + IF who = "connect" THEN 1 ELSE 0
<1> DEFINE r == Request(who)
           n == Len(s) + 1
<1>1. r \in Requests /\ r.who = who
  BY RequestType
<1> HIDE DEF r
<1>2. /\ Append(s, r) \in Seq(Requests)
      /\ DOMAIN Append(s, r) = DOMAIN s \cup {n}
      /\ \A k \in DOMAIN s : Append(s, r)[k] = s[k]
      /\ Append(s, r)[n] = r
      /\ n \notin DOMAIN s
  BY <1>1
<1>3. ConnectsIn(Append(s, r)) =
        IF who = "connect" THEN ConnectsIn(s) \cup {n} ELSE ConnectsIn(s)
  BY <1>1, <1>2 DEF ConnectsIn
<1>4. n \notin ConnectsIn(s)
  BY <1>2 DEF ConnectsIn
<1>5. Cardinality(ConnectsIn(s) \cup {n}) = Cardinality(ConnectsIn(s)) + 1
  BY <1>4, ConnectsType, FS_AddElement
<1>6. Cardinality(ConnectsIn(Append(s, r))) =
        Cardinality(ConnectsIn(s)) + IF who = "connect" THEN 1 ELSE 0
  BY <1>3, <1>5, ConnectsType
<1> QED BY <1>2, <1>6 DEF r

LEMMA TailCount ==
    ASSUME NEW s \in Seq(Requests), s # <<>>
    PROVE  /\ Tail(s) \in Seq(Requests)
           /\ Cardinality(ConnectsIn(Tail(s))) =
                Cardinality(ConnectsIn(s)) - IF Head(s).who = "connect" THEN 1 ELSE 0
<1> DEFINE S == ConnectsIn(s) \ {1}
           T == ConnectsIn(Tail(s))
           f == [k \in S |-> k - 1]
<1>1. /\ Tail(s) \in Seq(Requests)
      /\ Len(s) \in Nat /\ Len(s) > 0
      /\ DOMAIN s = 1..Len(s)
      /\ DOMAIN Tail(s) = 1..(Len(s) - 1)
      /\ \A k \in 1..(Len(s) - 1) : Tail(s)[k] = s[k + 1]
      /\ Head(s) = s[1]
  OBVIOUS
<1>2. S = {k \in 2..Len(s) : s[k].who = "connect"}
  BY <1>1 DEF ConnectsIn
<1>3. T = {k \in 1..(Len(s) - 1) : s[k + 1].who = "connect"}
  BY <1>1 DEF ConnectsIn
<1> HIDE DEF S, T
<1>4. f \in [S -> T]
  BY <1>1, <1>2, <1>3
<1>5. \A j, k \in S : f[j] = f[k] => j = k
  BY <1>2
<1>6. \A k \in T : \E j \in S : f[j] = k
  <2> SUFFICES ASSUME NEW k \in T PROVE k + 1 \in S /\ f[k + 1] = k
    OBVIOUS
  <2> QED BY <1>1, <1>2, <1>3
<1> HIDE DEF f
<1>7. ExistsBijection(S, T)
  BY <1>4, <1>5, <1>6 DEF ExistsBijection, Bijection, Injection, Surjection,
                          IsInjective
<1>8. /\ IsFiniteSet(S)
      /\ Cardinality(S) = IF 1 \in ConnectsIn(s) THEN Cardinality(ConnectsIn(s)) - 1
                          ELSE Cardinality(ConnectsIn(s))
  BY ConnectsType, FS_RemoveElement DEF S
<1>9. Cardinality(T) = Cardinality(S)
  BY <1>7, <1>8, FS_Bijection
<1>10. 1 \in ConnectsIn(s) <=> Head(s).who = "connect"
  BY <1>1 DEF ConnectsIn
<1> QED BY <1>1, <1>8, <1>9, <1>10, ConnectsType DEF T

LEMMA LiveType ==
    ASSUME NEW table
    PROVE  IsFiniteSet(LiveIn(table)) /\ Cardinality(LiveIn(table)) \in Nat
<1>1. LiveIn(table) \in SUBSET Sockets
  BY DEF LiveIn
<1>2. IsFiniteSet(LiveIn(table))
  BY <1>1, ConstantsAssumption, FS_Subset
<1> QED BY <1>2, FS_CardinalityType

\* Filling and emptying a slot.
LEMMA FillCount ==
    ASSUME NEW table, NEW i \in Sockets, NEW x, x # Free,
           table = [j \in Sockets |-> table[j]]
    PROVE  Cardinality(LiveIn([table EXCEPT ![i] = x])) =
             Cardinality(LiveIn(table)) + IF table[i] = Free THEN 1 ELSE 0
<1>1. LiveIn([table EXCEPT ![i] = x]) = LiveIn(table) \cup {i}
  BY DEF LiveIn
<1>2. i \in LiveIn(table) <=> table[i] # Free
  BY DEF LiveIn
<1> QED BY <1>1, <1>2, LiveType, FS_AddElement

LEMMA EmptyCount ==
    ASSUME NEW table, NEW i \in Sockets, table[i] # Free,
           table = [j \in Sockets |-> table[j]]
    PROVE  Cardinality(LiveIn([table EXCEPT ![i] = Free])) =
             Cardinality(LiveIn(table)) - 1
<1>1. LiveIn([table EXCEPT ![i] = Free]) = LiveIn(table) \ {i}
  BY DEF LiveIn
<1>2. i \in LiveIn(table)
  BY DEF LiveIn
<1> QED BY <1>1, <1>2, LiveType, FS_RemoveElement

LEMMA LoopsIn ==
    /\ Loops = Cardinality(ConnectsIn(ipc)) + timers + Cardinality(LiveIn(sockets))
    /\ Loops' = Cardinality(ConnectsIn(ipc')) + timers' + Cardinality(LiveIn(sockets'))
BY DEF Loops, Reads, Live, ConnectsIn, LiveIn

LEMMA SocketTypes ==
    ASSUME NEW state \in States \ {"none"}, NEW port \in Ports
    PROVE  /\ Socket(state, port) \in [state : States, port : Ports]
           /\ Socket(state, port) # Free
           /\ Free \in [state : States, port : Ports]
           /\ Free.state = "none"
           /\ Socket(state, port).state = state
           /\ Socket(state, port).port = port
BY ConstantsAssumption DEF Socket, Free, States, Ports

----------------------------------------------------------------------------
(* Type correctness.                                                       *)

LEMMA InitType == Init => TypeOK
<1> SUFFICES ASSUME Init PROVE TypeOK
  OBVIOUS
<1>1. Free \in [state : States, port : Ports]
  BY ConstantsAssumption DEF Free, Socket, States, Ports
<1>2. ipc \in Seq(Requests)
  BY DEF Init
<1>3. sockets \in [Sockets -> [state : States, port : Ports]]
  BY <1>1 DEF Init
<1>4. 0 \in Ports /\ 0 \in 0..MaxMounts
  BY ConstantsAssumption DEF Ports
<1> QED BY <1>2, <1>3, <1>4 DEF Init, TypeOK

\* What is read and answered.
LEMMA HeadType ==
    ASSUME TypeOK, ipc # <<>>
    PROVE  Head(ipc) \in Requests /\ GetPort \in Ports /\ NewBaseUrl \in Ports
<1>1. Head(ipc) \in Requests
  BY DEF TypeOK
<1> QED BY <1>1 DEF TypeOK, GetPort, NewBaseUrl, Requests

LEMMA ReadKeepsConnects ==
    ASSUME TypeOK, ReadPortFile
    PROVE  ipc' \in Seq(Requests) /\ ConnectsIn(ipc') = ConnectsIn(ipc)
<1>1. PICK k \in DOMAIN ipc :
        ipc' = [ipc EXCEPT ![k].read = TRUE, ![k].port = portFile]
  BY DEF ReadPortFile
<1> DEFINE r == [ipc[k] EXCEPT !.read = TRUE, !.port = portFile]
<1>2. ipc[k] \in Requests /\ portFile \in Ports
  BY DEF TypeOK
<1>3. r \in Requests /\ r.who = ipc[k].who
  BY <1>2 DEF Requests
<1>4. ipc' = [ipc EXCEPT ![k] = r]
  BY <1>1 DEF TypeOK
<1> HIDE DEF r
<1>5. ipc' \in Seq(Requests) /\ DOMAIN ipc' = DOMAIN ipc
  BY <1>3, <1>4 DEF TypeOK
<1> QED BY <1>3, <1>4, <1>5 DEF ConnectsIn, TypeOK

LEMMA DaemonType ==
    ASSUME TypeOK, DaemonStart \/ PortFileVanishes \/ DaemonEnds
    PROVE  TypeOK'
BY ConstantsAssumption DEF TypeOK, DaemonStart, PortFileVanishes, DaemonEnds, clientVars,
     appVars, Ports, Slot!Begin, Slot!Vanish, Slot!End

LEMMA AppType ==
    ASSUME TypeOK, ConnectWebSocket \/ DisconnectWebSocket
    PROVE  TypeOK'
<1>1. CASE ConnectWebSocket
  <2>1. ipc' \in Seq(Requests)
    BY <1>1, AppendCount DEF ConnectWebSocket, TypeOK
  <2> QED BY <1>1, <2>1, ConstantsAssumption DEF ConnectWebSocket, TypeOK, daemonVars
<1>2. CASE DisconnectWebSocket
  <2>1. \A i \in Sockets : Socket("closing", sockets[i].port) \in [state : States, port : Ports]
    BY SocketTypes DEF TypeOK, States
  <2>2. sockets' \in [Sockets -> [state : States, port : Ports]]
    BY <1>2, <2>1 DEF DisconnectWebSocket, TypeOK
  <2> QED BY <1>2, <2>2 DEF DisconnectWebSocket, TypeOK, daemonVars
<1> QED BY <1>1, <1>2

LEMMA PortType ==
    ASSUME TypeOK, ReadPortFile \/ EnsurePort \/ GoOnCalling \/ ConnectThrows \/ TimerFires
    PROVE  TypeOK'
<1>1. CASE ReadPortFile
  BY <1>1, ReadKeepsConnects DEF ReadPortFile, TypeOK, daemonVars, appVars
<1>2. CASE EnsurePort
  <2>1. ipc' \in Seq(Requests)
    BY <1>2, AppendCount DEF EnsurePort, TypeOK
  <2> QED BY <1>2, <2>1 DEF EnsurePort, TypeOK, daemonVars, appVars
<1>3. CASE TimerFires
  <2>1. ipc' \in Seq(Requests)
    BY <1>3, AppendCount DEF TimerFires, TypeOK
  <2> QED BY <1>3, <2>1 DEF TimerFires, TypeOK, daemonVars, appVars
<1>4. CASE GoOnCalling
  <2>1. ipc' \in Seq(Requests) /\ baseUrl' \in Ports
    BY <1>4, TailCount, HeadType DEF GoOnCalling, Answered, TypeOK
  <2> QED BY <1>4, <2>1 DEF GoOnCalling, TypeOK, daemonVars, appVars
<1>5. CASE ConnectThrows
  <2>1. ipc' \in Seq(Requests)
    BY <1>5, TailCount DEF ConnectThrows, Answered, TypeOK
  <2> QED BY <1>5, <2>1 DEF ConnectThrows, TypeOK, daemonVars, appVars
<1> QED BY <1>1, <1>2, <1>3, <1>4, <1>5

LEMMA SocketType ==
    ASSUME TypeOK, NEW i \in Sockets, SocketStep(i)
    PROVE  TypeOK'
<1>1. CASE Connect(i)
  <2>1. /\ ipc' \in Seq(Requests) /\ baseUrl' \in Ports
        /\ Socket("connecting", GetPort) \in [state : States, port : Ports]
    BY <1>1, TailCount, HeadType, SocketTypes DEF Connect, Answered, TypeOK, States
  <2> QED BY <1>1, <2>1 DEF Connect, TypeOK, daemonVars, appVars
<1>2. CASE SocketOpens(i)
  <2>1. Socket("open", daemon) \in [state : States, port : Ports]
    BY SocketTypes DEF TypeOK, States
  <2> QED BY <1>2, <2>1 DEF SocketOpens, TypeOK, daemonVars, appVars
<1>3. CASE SocketCloses(i)
  <2>1. Free \in [state : States, port : Ports]
    BY ConstantsAssumption DEF Free, Socket, States, Ports
  <2> QED BY <1>3, <2>1 DEF SocketCloses, TypeOK, daemonVars, appVars
<1> QED BY <1>1, <1>2, <1>3 DEF SocketStep

\* The type invariant: ports, requests, sockets and counters.
THEOREM TypeCorrect == Spec => []TypeOK
<1>1. TypeOK /\ [Next]_vars => TypeOK'
  <2>1. TypeOK /\ UNCHANGED vars => TypeOK'
    BY DEF vars, daemonVars, appVars, TypeOK
  <2> QED BY <2>1, DaemonType, AppType, PortType, SocketType DEF Next
<1> QED BY InitType, <1>1, PTL DEF Spec

----------------------------------------------------------------------------
(* The reconnect loops.                                                    *)

LEMMA LoopsType ==
    ASSUME TypeOK
    PROVE  /\ Loops \in Nat /\ thrown \in Nat /\ mounts \in Nat
           /\ Cardinality(ConnectsIn(ipc)) \in Nat
           /\ Cardinality(LiveIn(sockets)) \in Nat
<1>1. Cardinality(ConnectsIn(ipc)) \in Nat /\ Cardinality(LiveIn(sockets)) \in Nat
  BY ConnectsType, LiveType DEF TypeOK
<1> QED BY <1>1, LoopsIn, ConstantsAssumption DEF TypeOK

\* Steps that leave the account of loops and mounts as it is.
LEMMA SameAccount ==
    ASSUME TypeOK, Inv, Loops' + thrown' = Loops + thrown, mounts' = mounts,
           ws' # NoSocket => sockets'[ws'] # Free
    PROVE  Inv'
BY DEF Inv

LEMMA InitInv == Init => Inv
<1> SUFFICES ASSUME Init PROVE Inv
  OBVIOUS
<1>1. TypeOK
  BY InitType
<1>2. ConnectsIn(ipc) = {} /\ LiveIn(sockets) = {}
  BY DEF Init, ConnectsIn, LiveIn
<1>3. Loops = 0
  BY <1>1, <1>2, FS_EmptySet, LoopsIn DEF Init
<1> QED BY <1>3 DEF Init, Inv

LEMMA DaemonInv ==
    ASSUME TypeOK, Inv, DaemonStart \/ PortFileVanishes \/ DaemonEnds
    PROVE  Inv'
BY SameAccount, LoopsIn DEF DaemonStart, PortFileVanishes, DaemonEnds, clientVars, appVars, Inv

\* A mount adds a loop unless there is a socket, and so a loop, already.
LEMMA MountInv ==
    ASSUME TypeOK, Inv, ConnectWebSocket
    PROVE  Inv'
<1>1. /\ mounts' = mounts + 1 /\ thrown' = thrown
      /\ ws' = ws /\ sockets' = sockets /\ timers' = timers
  BY DEF ConnectWebSocket
<1>2. CASE ws = NoSocket
  <2>1. Cardinality(ConnectsIn(ipc')) = Cardinality(ConnectsIn(ipc)) + 1
    BY <1>2, AppendCount DEF ConnectWebSocket, TypeOK
  <2>2. Loops' = Loops + 1
    BY <1>1, <2>1, LoopsIn, LoopsType DEF TypeOK
  <2> QED BY <1>1, <1>2, <2>2, LoopsType DEF Inv
<1>3. CASE ws # NoSocket
  <2>1. Loops' = Loops
    BY <1>1, <1>3, LoopsIn DEF ConnectWebSocket
  <2>2. ws \in LiveIn(sockets)
    BY <1>3 DEF Inv, TypeOK, LiveIn
  <2>3. Cardinality(LiveIn(sockets)) > 0
    BY <2>2, LiveType, FS_EmptySet
  <2>4. Loops > 0
    BY <2>3, LoopsIn, LoopsType DEF TypeOK
  <2> QED BY <1>1, <1>3, <2>1, <2>4, LoopsType DEF Inv
<1> QED BY <1>2, <1>3

LEMMA CleanUpInv ==
    ASSUME TypeOK, Inv, DisconnectWebSocket
    PROVE  Inv'
<1>1. \A i \in Sockets : Socket("closing", sockets[i].port) # Free
  BY SocketTypes DEF TypeOK, States
<1>2. LiveIn(sockets') = LiveIn(sockets)
  BY <1>1, ConstantsAssumption DEF DisconnectWebSocket, LiveIn, Inv, TypeOK
<1> QED BY <1>2, SameAccount, LoopsIn DEF DisconnectWebSocket

LEMMA PortInv ==
    ASSUME TypeOK, Inv,
           ReadPortFile \/ EnsurePort \/ GoOnCalling \/ ConnectThrows \/ TimerFires
    PROVE  Inv'
<1>1. ws' = ws /\ sockets' = sockets /\ mounts' = mounts
  BY DEF ReadPortFile, EnsurePort, GoOnCalling, ConnectThrows, TimerFires, appVars
<1>2. CASE ReadPortFile
  <2>1. Loops' + thrown' = Loops + thrown
    BY <1>2, ReadKeepsConnects, LoopsIn DEF ReadPortFile
  <2> QED BY <1>1, <2>1, SameAccount DEF Inv
<1>3. CASE EnsurePort
  <2>1. Cardinality(ConnectsIn(ipc')) = Cardinality(ConnectsIn(ipc))
    BY <1>3, AppendCount, LoopsType DEF EnsurePort, TypeOK
  <2>2. Loops' + thrown' = Loops + thrown
    BY <1>3, <2>1, LoopsIn DEF EnsurePort
  <2> QED BY <1>1, <2>2, SameAccount DEF Inv
<1>4. CASE GoOnCalling
  <2>1. Cardinality(ConnectsIn(ipc')) = Cardinality(ConnectsIn(ipc))
    BY <1>4, TailCount, LoopsType DEF GoOnCalling, Answered, TypeOK
  <2>2. Loops' + thrown' = Loops + thrown
    BY <1>4, <2>1, LoopsIn DEF GoOnCalling
  <2> QED BY <1>1, <2>2, SameAccount DEF Inv
<1>5. CASE ConnectThrows
  <2>1. Cardinality(ConnectsIn(ipc')) = Cardinality(ConnectsIn(ipc)) - 1
    BY <1>5, TailCount DEF ConnectThrows, Answered, TypeOK
  <2>2. thrown' = thrown + 1 /\ timers' = timers /\ timers \in Nat
    BY <1>5 DEF ConnectThrows, TypeOK
  <2>3. Loops' = Loops - 1
    BY <1>1, <2>1, <2>2, LoopsIn, LoopsType
  <2>4. Loops' + thrown' = Loops + thrown
    BY <2>2, <2>3, LoopsType
  <2> QED BY <1>1, <2>4, SameAccount DEF Inv
<1>6. CASE TimerFires
  <2>1. Cardinality(ConnectsIn(ipc')) = Cardinality(ConnectsIn(ipc)) + 1
    BY <1>6, AppendCount DEF TimerFires, TypeOK
  <2>2. Loops' + thrown' = Loops + thrown
    BY <1>6, <2>1, LoopsIn, LoopsType DEF TimerFires, TypeOK
  <2> QED BY <1>1, <2>2, SameAccount DEF Inv
<1> QED BY <1>2, <1>3, <1>4, <1>5, <1>6

LEMMA SocketInv ==
    ASSUME TypeOK, Inv, NEW i \in Sockets, SocketStep(i)
    PROVE  Inv'
<1>0. sockets = [j \in Sockets |-> sockets[j]] /\ i # NoSocket
  BY ConstantsAssumption DEF TypeOK
<1>1. CASE Connect(i)
  <2>1. Cardinality(ConnectsIn(ipc')) = Cardinality(ConnectsIn(ipc)) - 1
    BY <1>1, TailCount DEF Connect, Answered, TypeOK
  <2>2. Socket("connecting", GetPort) # Free
    BY <1>1, HeadType, SocketTypes DEF Connect, Answered, States
  <2>3. Cardinality(LiveIn(sockets')) = Cardinality(LiveIn(sockets)) + 1
    BY <1>0, <1>1, <2>2, FillCount DEF Connect
  <2>4. Loops' + thrown' = Loops + thrown
    BY <1>1, <2>1, <2>3, LoopsIn, LoopsType DEF Connect, TypeOK
  <2>5. sockets'[i] # Free /\ ws' = i /\ mounts' = mounts
    BY <1>0, <1>1, <2>2 DEF Connect, appVars
  <2> QED BY <2>4, <2>5, SameAccount
<1>2. CASE SocketOpens(i)
  <2>1. Socket("open", daemon) # Free /\ sockets[i] # Free
    BY <1>2, SocketTypes DEF SocketOpens, TypeOK, States, Free, Socket
  <2>2. Cardinality(LiveIn(sockets')) = Cardinality(LiveIn(sockets))
    BY <1>0, <1>2, <2>1, FillCount, LoopsType DEF SocketOpens
  <2>3. Loops' + thrown' = Loops + thrown
    BY <1>2, <2>2, LoopsIn DEF SocketOpens
  <2>4. ws' = ws /\ mounts' = mounts /\ (ws # NoSocket => sockets'[ws] # Free)
    BY <1>0, <1>2, <2>1 DEF SocketOpens, Inv, TypeOK, appVars
  <2> QED BY <2>3, <2>4, SameAccount
<1>3. CASE SocketCloses(i)
  <2>1. sockets[i] # Free
    BY <1>3 DEF SocketCloses, Closing, Free, Socket
  <2>2. Cardinality(LiveIn(sockets')) = Cardinality(LiveIn(sockets)) - 1
    BY <1>0, <1>3, <2>1, EmptyCount DEF SocketCloses
  <2>3. /\ timers' = timers + 1 /\ timers \in Nat
        /\ ipc' = ipc /\ thrown' = thrown
    BY <1>3 DEF SocketCloses, TypeOK
  <2>4. Loops' = Loops
    BY <2>2, <2>3, LoopsIn, LoopsType
  <2> QED BY <1>3, <2>3, <2>4, SameAccount DEF SocketCloses, appVars
<1> QED BY <1>1, <1>2, <1>3 DEF SocketStep

LEMMA Invariance == Spec => []Inv
<1>1. TypeOK /\ Inv /\ [Next]_vars => Inv'
  <2>1. TypeOK /\ Inv /\ UNCHANGED vars => Inv'
    BY LoopsIn DEF vars, daemonVars, appVars, Inv
  <2> QED BY <2>1, DaemonInv, MountInv, CleanUpInv, PortInv, SocketInv DEF Next
<1> QED BY InitInv, <1>1, TypeCorrect, PTL DEF Spec

\* Closing, failing and reconnecting, with any daemons, mounts and late
\* answers between them, neither end a reconnect loop nor split it in two.
THEOREM OneLoop == Spec => []OneLoopPerMount
<1>1. TypeOK /\ Inv => OneLoopPerMount
  BY LoopsType DEF Inv, OneLoopPerMount
<1> QED BY <1>1, TypeCorrect, Invariance, PTL

----------------------------------------------------------------------------
(* The daemons around the client.                                          *)

SlotFacts == INSTANCE DaemonSlotProofs

\* The daemons the client meets are those of one slot, as Lifecycle has them.
THEOREM Surroundings == Spec => Slot!Spec
<1>1. Init => Slot!Init
  BY DEF Init, Slot!Init
<1>2. [Next]_vars => [Slot!Next]_(Slot!vars)
  BY DEF Next, vars, daemonVars, Slot!vars, Slot!Next, DaemonStart, PortFileVanishes,
         DaemonEnds, ReadPortFile, ConnectWebSocket, DisconnectWebSocket, EnsurePort,
         GoOnCalling, ConnectThrows, TimerFires, SocketStep, Connect, SocketOpens,
         SocketCloses
<1> QED BY <1>1, <1>2, PTL DEF Spec, Slot!Spec

LEMMA FileInv == Spec => []SlotFacts!FileIsTrue
<1>1. Slot!Spec => SlotFacts!Spec
  BY DEF Slot!Spec, SlotFacts!Spec, Slot!Init, SlotFacts!Init, Slot!vars, SlotFacts!vars,
         Slot!Next, SlotFacts!Next, Slot!Begin, SlotFacts!Begin, Slot!Vanish,
         SlotFacts!Vanish, Slot!End, SlotFacts!End
<1> QED BY <1>1, Surroundings, SlotFacts!TrueFile, PTL

----------------------------------------------------------------------------
(* The order of ports.                                                     *)

\* Of two ports that are known, p is not the later one.
NotAfter(p, q) == p # 0 /\ q # 0 => p <= q

\* The answers in s come after low and up to high, in the order of daemons;
\* what is not read yet is behind what is.
InOrder(s, low, high) ==
    \A k \in 1..Len(s) :
        /\ s[k].port <= high /\ (~s[k].read => s[k].port = 0)
        /\ NotAfter(low, s[k].port)
        /\ \A j \in 1..k : NotAfter(s[j].port, s[k].port) /\ (s[k].read => s[j].read)

\* From the sockets over the port that API calls use and the answers on their
\* way back to the daemon started last, ports never decrease.
PortsInOrder ==
    /\ \A i \in Sockets : sockets[i].port <= baseUrl
    /\ InOrder(ipc, baseUrl, starts)
    /\ baseUrl <= starts

LEMMA RequestParts ==
    ASSUME NEW s \in Seq(Requests), NEW k \in 1..Len(s)
    PROVE  s[k] \in Requests /\ s[k].port \in Nat /\ s[k].read \in BOOLEAN
<1>1. s[k] \in Requests
  OBVIOUS
<1> QED BY <1>1, ConstantsAssumption DEF Requests, Ports

LEMMA ReplaceFacts ==
    ASSUME NEW s \in Seq(Requests), NEW k \in DOMAIN s, NEW x \in Requests
    PROVE  /\ Len([s EXCEPT ![k] = x]) = Len(s)
           /\ [s EXCEPT ![k] = x][k] = x
           /\ \A j \in 1..Len(s) : j # k => [s EXCEPT ![k] = x][j] = s[j]
<1>1. [s EXCEPT ![k] = x] \in Seq(Requests) /\ DOMAIN [s EXCEPT ![k] = x] = 1..Len(s)
  OBVIOUS
<1> QED BY <1>1

LEMMA AppendOrder ==
    ASSUME NEW s \in Seq(Requests), NEW low \in Nat, NEW high \in Nat,
           NEW who \in {"connect", "call"}, InOrder(s, low, high)
    PROVE  InOrder(Append(s, Request(who)), low, high)
<1> DEFINE r == Request(who)
           t == Append(s, r)
<1>1. r \in Requests /\ ~r.read /\ r.port = 0
  BY RequestType DEF Request
<1> HIDE DEF r
<1>2. /\ Len(t) = Len(s) + 1 /\ Len(s) \in Nat /\ t[Len(s) + 1] = r
      /\ \A k \in 1..Len(s) : t[k] = s[k]
  BY <1>1
<1> HIDE DEF t
<1>3. ASSUME NEW k \in 1..Len(t)
      PROVE  /\ t[k].port <= high /\ (~t[k].read => t[k].port = 0)
             /\ NotAfter(low, t[k].port)
             /\ \A j \in 1..k : NotAfter(t[j].port, t[k].port) /\ (t[k].read => t[j].read)
  <2>1. CASE k = Len(s) + 1
    BY <1>1, <1>2, <2>1 DEF NotAfter
  <2>2. CASE k \in 1..Len(s)
    BY <1>2, <2>2 DEF InOrder
  <2> QED BY <1>2, <2>1, <2>2
<1> QED BY <1>3 DEF InOrder, t, r

\* The answer in front becomes the lower end, if it has a port.
LEMMA TailOrder ==
    ASSUME NEW s \in Seq(Requests), NEW low \in Nat, NEW high \in Nat,
           s # <<>>, InOrder(s, low, high),
           NEW new, new = IF Head(s).port # 0 THEN Head(s).port ELSE low
    PROVE  InOrder(Tail(s), new, high)
<1> DEFINE t == Tail(s)
<1>1. /\ Len(s) \in Nat /\ Len(s) > 0 /\ Len(t) = Len(s) - 1 /\ Head(s) = s[1]
      /\ \A k \in 1..Len(t) : t[k] = s[k + 1]
  OBVIOUS
<1> HIDE DEF t
<1>2. ASSUME NEW k \in 1..Len(t)
      PROVE  /\ t[k].port <= high /\ (~t[k].read => t[k].port = 0)
             /\ NotAfter(new, t[k].port)
             /\ \A j \in 1..k : NotAfter(t[j].port, t[k].port) /\ (t[k].read => t[j].read)
  <2>1. k + 1 \in 1..Len(s) /\ t[k] = s[k + 1] /\ 1 \in 1..(k + 1)
    BY <1>1
  <2>2. NotAfter(new, t[k].port)
    BY <1>1, <2>1 DEF InOrder, NotAfter
  <2>3. \A j \in 1..k : j + 1 \in 1..(k + 1) /\ t[j] = s[j + 1]
    BY <1>1
  <2> QED BY <2>1, <2>2, <2>3 DEF InOrder
<1> QED BY <1>2 DEF InOrder, t

LEMMA ReadOrder ==
    ASSUME TypeOK, SlotFacts!FileIsTrue, PortsInOrder, ReadPortFile
    PROVE  InOrder(ipc', baseUrl, starts)
<1>1. PICK k \in DOMAIN ipc :
        /\ ~ipc[k].read
        /\ \A j \in 1..(k - 1) : ipc[j].read
        /\ ipc' = [ipc EXCEPT ![k].read = TRUE, ![k].port = portFile]
  BY DEF ReadPortFile
<1> DEFINE r == [ipc[k] EXCEPT !.read = TRUE, !.port = portFile]
<1>2. /\ ipc \in Seq(Requests) /\ DOMAIN ipc = 1..Len(ipc) /\ Len(ipc) \in Nat
      /\ portFile \in {0, starts} /\ starts \in Nat
      /\ baseUrl \in Nat /\ baseUrl <= starts
  BY ConstantsAssumption DEF TypeOK, Ports, SlotFacts!FileIsTrue, PortsInOrder
<1>3. r \in Requests /\ r.read = TRUE /\ r.port = portFile
  <2>1. ipc[k] \in Requests /\ portFile \in Ports
    BY <1>1, <1>2 DEF TypeOK
  <2> QED BY <2>1 DEF Requests
<1>4. ipc' = [ipc EXCEPT ![k] = r]
  BY <1>1, <1>2
<1> HIDE DEF r
<1>5. /\ Len(ipc') = Len(ipc) /\ ipc'[k] = r
      /\ \A j \in 1..Len(ipc) : j # k => ipc'[j] = ipc[j]
  <2>1. ipc \in Seq(Requests) /\ r \in Requests
    BY <1>2, <1>3
  <2>2. /\ Len([ipc EXCEPT ![k] = r]) = Len(ipc)
        /\ [ipc EXCEPT ![k] = r][k] = r
        /\ \A j \in 1..Len(ipc) : j # k => [ipc EXCEPT ![k] = r][j] = ipc[j]
    BY <2>1, ReplaceFacts
  <2> QED BY <1>4, <2>2
<1>6. \A j \in 1..Len(ipc) : j > k => ~ipc[j].read /\ ipc[j].port = 0
  BY <1>1, <1>2 DEF PortsInOrder, InOrder
<1>7. \A j \in 1..Len(ipc) : ipc[j].port \in Nat /\ ipc[j].port <= starts
  BY <1>2, RequestParts DEF PortsInOrder, InOrder
<1>8. ASSUME NEW m \in 1..Len(ipc')
      PROVE  /\ ipc'[m].port <= starts /\ (~ipc'[m].read => ipc'[m].port = 0)
             /\ NotAfter(baseUrl, ipc'[m].port)
             /\ \A j \in 1..m : NotAfter(ipc'[j].port, ipc'[m].port)
                                /\ (ipc'[m].read => ipc'[j].read)
  <2>1. CASE m = k
    <3>1. ipc'[m].port <= starts /\ NotAfter(baseUrl, ipc'[m].port) /\ ipc'[m].read
      BY <1>2, <1>3, <1>5, <2>1 DEF NotAfter
    <3>2. ASSUME NEW j \in 1..m
          PROVE  NotAfter(ipc'[j].port, ipc'[m].port) /\ ipc'[j].read
      <4>1. CASE j = k
        BY <1>2, <1>3, <1>5, <2>1, <4>1 DEF NotAfter
      <4>2. CASE j # k
        <5>1. j \in 1..(k - 1) /\ j \in 1..Len(ipc)
          BY <1>1, <1>2, <2>1, <4>2
        <5> QED BY <1>1, <1>2, <1>3, <1>5, <1>7, <2>1, <5>1 DEF NotAfter
      <4> QED BY <4>1, <4>2
    <3> QED BY <3>1, <3>2
  <2>2. CASE m # k
    <3>1. m \in 1..Len(ipc) /\ ipc'[m] = ipc[m]
      BY <1>5, <2>2
    <3>2. ASSUME NEW j \in 1..m
          PROVE  NotAfter(ipc'[j].port, ipc[m].port) /\ (ipc[m].read => ipc'[j].read)
      <4>1. CASE j = k
        <5>1. m > k
          BY <1>1, <1>2, <2>2, <3>1, <4>1
        <5> QED BY <1>6, <3>1, <5>1 DEF NotAfter
      <4>2. CASE j # k
        BY <1>2, <1>5, <3>1, <4>2 DEF PortsInOrder, InOrder
      <4> QED BY <4>1, <4>2
    <3> QED BY <3>1, <3>2 DEF PortsInOrder, InOrder
  <2> QED BY <2>1, <2>2
<1> QED BY <1>8 DEF InOrder

\* Ports used and answers taken, in steps that take the answer in front.
LEMMA TakeOrder ==
    ASSUME TypeOK, SlotFacts!FileIsTrue, PortsInOrder, ipc # <<>>
    PROVE  /\ InOrder(Tail(ipc), NewBaseUrl, starts)
           /\ baseUrl <= NewBaseUrl /\ NewBaseUrl <= starts
           /\ NewBaseUrl \in Nat
<1>1. /\ ipc \in Seq(Requests) /\ Head(ipc) = ipc[1] /\ 1 \in 1..Len(ipc)
      /\ starts \in Nat /\ baseUrl \in Nat /\ baseUrl <= starts
  BY ConstantsAssumption DEF TypeOK, Ports, SlotFacts!FileIsTrue, PortsInOrder
<1>2. ipc[1].port \in Nat /\ ipc[1].port <= starts /\ NotAfter(baseUrl, ipc[1].port)
  BY <1>1, RequestParts DEF PortsInOrder, InOrder
<1>3. NewBaseUrl = IF ipc[1].port # 0 THEN ipc[1].port ELSE baseUrl
  BY <1>1 DEF NewBaseUrl, GetPort
<1>4. InOrder(Tail(ipc), NewBaseUrl, starts)
  BY <1>1, <1>3, TailOrder DEF PortsInOrder
<1> QED BY <1>1, <1>2, <1>3, <1>4 DEF NotAfter

LEMMA DaemonOrder ==
    ASSUME TypeOK, SlotFacts!FileIsTrue, PortsInOrder,
           DaemonStart \/ PortFileVanishes \/ DaemonEnds
    PROVE  PortsInOrder'
<1>1. UNCHANGED <<ipc, baseUrl, sockets>> /\ starts' \in {starts, starts + 1}
  BY DEF DaemonStart, PortFileVanishes, DaemonEnds, clientVars, Slot!Begin, Slot!Vanish, Slot!End
<1>2. starts \in Nat /\ baseUrl \in Nat /\ ipc \in Seq(Requests)
  BY ConstantsAssumption DEF TypeOK, Ports, SlotFacts!FileIsTrue
<1>3. \A k \in 1..Len(ipc) : ipc[k].port \in Nat
  BY <1>2, RequestParts
<1>4. InOrder(ipc', baseUrl', starts')
  BY <1>1, <1>2, <1>3 DEF PortsInOrder, InOrder
<1> QED BY <1>1, <1>2, <1>4 DEF PortsInOrder

LEMMA AskOrder ==
    ASSUME TypeOK, SlotFacts!FileIsTrue, PortsInOrder,
           ConnectWebSocket \/ EnsurePort \/ TimerFires
    PROVE  PortsInOrder'
<1>1. UNCHANGED <<daemonVars, baseUrl, sockets>>
  BY DEF ConnectWebSocket, EnsurePort, TimerFires
<1>2. starts \in Nat /\ baseUrl \in Nat /\ ipc \in Seq(Requests)
  BY ConstantsAssumption DEF TypeOK, Ports, SlotFacts!FileIsTrue
<1>3. ipc' = ipc \/ \E who \in {"connect", "call"} : ipc' = Append(ipc, Request(who))
  BY DEF ConnectWebSocket, EnsurePort, TimerFires
<1>4. InOrder(ipc', baseUrl, starts)
  BY <1>2, <1>3, AppendOrder DEF PortsInOrder
<1> QED BY <1>1, <1>4 DEF PortsInOrder, daemonVars

LEMMA TakesOrder ==
    ASSUME TypeOK, SlotFacts!FileIsTrue, PortsInOrder,
           GoOnCalling \/ ConnectThrows \/ \E i \in Sockets : Connect(i)
    PROVE  PortsInOrder' /\ baseUrl <= baseUrl'
<1>1. /\ ipc # <<>> /\ ipc' = Tail(ipc) /\ baseUrl' = NewBaseUrl
      /\ UNCHANGED daemonVars
  BY DEF GoOnCalling, ConnectThrows, Connect, Answered, NewBaseUrl
<1>2. starts \in Nat /\ baseUrl \in Nat
  BY ConstantsAssumption DEF TypeOK, Ports, SlotFacts!FileIsTrue
<1>3. \A i \in Sockets : sockets[i].port \in Nat
  BY ConstantsAssumption DEF TypeOK, Ports
<1>4. ASSUME NEW i \in Sockets
      PROVE  sockets'[i].port <= baseUrl'
  <2>1. CASE sockets' = sockets
    BY <1>1, <1>2, <1>3, <2>1, TakeOrder DEF PortsInOrder
  <2>2. CASE \E j \in Sockets : Connect(j)
    <3>1. PICK j \in Sockets : Connect(j)
      BY <2>2
    <3>2. sockets'[i] = IF i = j THEN Socket("connecting", GetPort) ELSE sockets[i]
      BY <3>1 DEF Connect, TypeOK
    <3>3. GetPort = baseUrl'
      BY <1>1, <3>1 DEF Connect, NewBaseUrl
    <3> QED BY <1>1, <1>2, <1>3, <3>2, <3>3, TakeOrder DEF PortsInOrder, Socket
  <2> QED BY <2>1, <2>2 DEF GoOnCalling, ConnectThrows
<1> QED BY <1>1, <1>4, TakeOrder DEF PortsInOrder, daemonVars

LEMMA OtherSocketsOrder ==
    ASSUME TypeOK, SlotFacts!FileIsTrue, PortsInOrder,
           DisconnectWebSocket \/ \E i \in Sockets : SocketOpens(i) \/ SocketCloses(i)
    PROVE  PortsInOrder'
<1>1. UNCHANGED <<daemonVars, ipc, baseUrl>>
  BY DEF DisconnectWebSocket, SocketOpens, SocketCloses
<1>2. \A j \in Sockets : sockets'[j].port = sockets[j].port \/ sockets'[j].port = 0
  BY DEF DisconnectWebSocket, SocketOpens, SocketCloses, TypeOK, Socket, Free
<1>3. baseUrl \in Nat
  BY ConstantsAssumption DEF TypeOK, Ports
<1> QED BY <1>1, <1>2, <1>3 DEF PortsInOrder, daemonVars

LEMMA OrderStep ==
    ASSUME TypeOK, SlotFacts!FileIsTrue, PortsInOrder, [Next]_vars
    PROVE  PortsInOrder' /\ baseUrl <= baseUrl'
<1>1. baseUrl \in Nat
  BY ConstantsAssumption DEF TypeOK, Ports
<1>2. CASE GoOnCalling \/ ConnectThrows \/ \E i \in Sockets : Connect(i)
  BY <1>2, TakesOrder
<1>3. CASE UNCHANGED vars
  BY <1>1, <1>3 DEF vars, daemonVars, PortsInOrder
<1>4. CASE ReadPortFile
  <2>1. UNCHANGED <<starts, baseUrl, sockets>>
    BY <1>4 DEF ReadPortFile, daemonVars
  <2> QED BY <1>1, <1>4, <2>1, ReadOrder DEF PortsInOrder
<1>5. CASE \/ DaemonStart \/ PortFileVanishes \/ DaemonEnds
           \/ ConnectWebSocket \/ EnsurePort \/ TimerFires \/ DisconnectWebSocket
           \/ \E i \in Sockets : SocketOpens(i) \/ SocketCloses(i)
  <2>1. baseUrl' = baseUrl
    BY <1>5 DEF DaemonStart, PortFileVanishes, DaemonEnds, ConnectWebSocket, EnsurePort,
                TimerFires, DisconnectWebSocket, SocketOpens, SocketCloses, clientVars
  <2> QED BY <1>1, <1>5, <2>1, DaemonOrder, AskOrder, OtherSocketsOrder
<1> QED BY <1>2, <1>3, <1>4, <1>5 DEF Next, SocketStep

\* However late answers are, and whatever daemons came and went before they
\* arrived, they arrive in the order of the daemons they are about.
THEOREM OrderedPorts == Spec => []PortsInOrder
<1>1. Init => PortsInOrder
  BY DEF Init, PortsInOrder, InOrder, Free, Socket
<1>2. TypeOK /\ SlotFacts!FileIsTrue /\ PortsInOrder /\ [Next]_vars => PortsInOrder'
  BY OrderStep
<1> QED BY <1>1, <1>2, TypeCorrect, FileInv, PTL DEF Spec

\* The client never goes back to the port of an earlier daemon; and while a
\* daemon stays up, calls that reach it go on to reach it, and an open socket
\* to it stays open unless App's clean-up closes it.
KeepsUp ==
    [][/\ baseUrl <= baseUrl'
       /\ daemon # 0 /\ daemon' = daemon =>
             /\ baseUrl = daemon => baseUrl' = daemon
             /\ \A i \in Sockets :
                   sockets[i] = Socket("open", daemon) =>
                       sockets'[i] = sockets[i] \/ DisconnectWebSocket]_vars

LEMMA KeptStep ==
    ASSUME TypeOK, SlotFacts!FileIsTrue, PortsInOrder,
           TypeOK', SlotFacts!FileIsTrue', PortsInOrder', [Next]_vars
    PROVE  /\ baseUrl <= baseUrl'
           /\ daemon # 0 /\ daemon' = daemon =>
                 /\ baseUrl = daemon => baseUrl' = daemon
                 /\ \A i \in Sockets :
                       sockets[i] = Socket("open", daemon) =>
                           sockets'[i] = sockets[i] \/ DisconnectWebSocket
<1>1. baseUrl <= baseUrl'
  BY OrderStep
<1>2. ASSUME daemon # 0, daemon' = daemon, baseUrl = daemon
      PROVE  baseUrl' = daemon
  <2>1. daemon' = starts' /\ baseUrl' <= starts'
    BY <1>2 DEF SlotFacts!FileIsTrue, PortsInOrder
  <2>2. baseUrl \in Nat /\ baseUrl' \in Nat /\ starts' \in Nat
    BY ConstantsAssumption DEF TypeOK, Ports, SlotFacts!FileIsTrue
  <2> QED BY <1>1, <1>2, <2>1, <2>2
<1>3. ASSUME NEW i \in Sockets, sockets[i] = Socket("open", daemon), ~DisconnectWebSocket
      PROVE  sockets'[i] = sockets[i]
  <2>1. sockets[i].state = "open" /\ sockets[i].port = daemon /\ sockets[i] # Free
    BY <1>3 DEF Socket, Free
  <2>2. CASE sockets' = sockets
    BY <2>2
  <2>3. ASSUME NEW j \in Sockets, SocketStep(j)
        PROVE  sockets'[i] = sockets[i]
    <3>1. j # i
      BY <2>1, <2>3 DEF SocketStep, Connect, SocketOpens, SocketCloses, Closing
    <3> QED BY <2>3, <3>1 DEF SocketStep, Connect, SocketOpens, SocketCloses, TypeOK
  <2> QED BY <1>3, <2>2, <2>3 DEF Next, vars, DaemonStart, PortFileVanishes, DaemonEnds,
             clientVars, ReadPortFile, ConnectWebSocket, EnsurePort, GoOnCalling,
             ConnectThrows, TimerFires
<1> QED BY <1>1, <1>2, <1>3

\* No late answer puts an older port back.  What is left of CallsFollowDaemon
\* and EventsResume is that timers fire and answers come.
THEOREM KeptUp == Spec => KeepsUp
<1>1. TypeOK /\ SlotFacts!FileIsTrue /\ PortsInOrder /\ [Next]_vars
        /\ TypeOK' /\ SlotFacts!FileIsTrue' /\ PortsInOrder' =>
        [/\ baseUrl <= baseUrl'
         /\ daemon # 0 /\ daemon' = daemon =>
               /\ baseUrl = daemon => baseUrl' = daemon
               /\ \A i \in Sockets :
                     sockets[i] = Socket("open", daemon) =>
                         sockets'[i] = sockets[i] \/ DisconnectWebSocket]_vars
  BY KeptStep
<1> QED BY <1>1, TypeCorrect, FileInv, OrderedPorts, PTL DEF Spec, KeepsUp
====
