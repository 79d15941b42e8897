---- MODULE EventHubProofs ----
(***************************************************************************)
(* Proofs about EventHub: type correctness, one order of events without    *)
(* gaps or repeats, events never ahead of the data, the refinement of      *)
(* EventLog, a table of the open connections, and a mutex that is never    *)
(* stuck, for any events, connections and buffers.                         *)
(***************************************************************************)
EXTENDS EventHub, TLAPS

\* Whose turn it is: the mutex belongs to the broadcast that writes, which
\* walks through clients nobody else can add or remove meanwhile.
MutexInv ==
    /\ \A e \in Events : call[e] = "writing" <=> mutex = e
    /\ \A e \in Events : left[e] # {} => mutex = e /\ left[e] \subseteq clients

Subscribed(c) == handler[c] \notin {"none", "upgraded"}

TableInv ==
    \A c \in Conns : ~Subscribed(c) => c \notin clients /\ sent[c] = <<>> /\ read[c] = 0

\* Still to be written to c: the last event, in the middle of a broadcast.
Due(c) == IF \E e \in Events : c \in left[e] THEN 1 ELSE 0

SentInv ==
    /\ \A c \in clients : since[c] + Len(sent[c]) + Due(c) = Len(log)
    /\ \A e \in Events : mutex = e => Len(log) > 0 /\ log[Len(log)] = e
    /\ \A c \in Conns :
         /\ since[c] + Len(sent[c]) <= Len(log)
         /\ \A i \in 1..Len(sent[c]) : sent[c][i] = log[since[c] + i]

\* What is in the log was saved, and is no longer about to be broadcast.
LogInv ==
    /\ \A e \in Events : call[e] # "none" => e \in saved
    /\ \A i \in 1..Len(log) : call[log[i]] \in {"writing", "done"}

Inv == TypeOK /\ MutexInv /\ TableInv /\ SentInv /\ LogInv

USE DEF Calls, Handlers

----------------------------------------------------------------------------
(* Sequences.                                                              *)

LEMMA AppendFacts ==
    ASSUME NEW S, NEW s \in Seq(S), NEW x \in S
    PROVE  /\ Append(s, x) \in Seq(S)
           /\ Len(Append(s, x)) = Len(s) + 1
           /\ Len(s) \in Nat
           /\ \A i \in 1..Len(s) : Append(s, x)[i] = s[i]
           /\ Append(s, x)[Len(s) + 1] = x
OBVIOUS

LEMMA ElementType ==
    ASSUME NEW S, NEW s \in Seq(S), NEW i \in 1..Len(s)
    PROVE  s[i] \in S /\ DOMAIN s = 1..Len(s) /\ Len(s) \in Nat
OBVIOUS

LEMMA PrefixOfAppend ==
    ASSUME NEW S, NEW s \in Seq(S), NEW x \in S, NEW k \in 0..Len(s)
    PROVE  SubSeq(Append(s, x), 1, k) = SubSeq(s, 1, k)
OBVIOUS

LEMMA LongerPrefix ==
    ASSUME NEW S, NEW s \in Seq(S), NEW k \in Nat, k < Len(s)
    PROVE  /\ SubSeq(s, 1, k + 1) = Append(SubSeq(s, 1, k), s[k + 1])
           /\ Len(SubSeq(s, 1, k)) = k
OBVIOUS

----------------------------------------------------------------------------
(* The steps by what they change.                                          *)

\* Steps of a call, of a handler and of a page.
CallStep(e) == Save(e) \/ BroadcastEvent(e)

ConnStep(c) == Upgrade(c) \/ HandleEvents(c) \/ PageGoes(c)

LEMMA NextSteps ==
    ASSUME [Next]_vars
    PROVE  \/ \E e \in Events : CallStep(e)
           \/ \E c \in Conns : ConnStep(c) \/ Page(c)
           \/ UNCHANGED vars
BY DEF Next, CallStep, ConnStep

LEMMA InitInv == Init => Inv /\ ToldMeansShown
<1> SUFFICES ASSUME Init PROVE Inv /\ ToldMeansShown
  OBVIOUS
<1>1. TypeOK
  BY DEF Init, TypeOK
<1>2. MutexInv /\ TableInv /\ LogInv
  BY ConstantsAssumption DEF Init, MutexInv, TableInv, LogInv
<1>3. SentInv /\ ToldMeansShown
  BY ConstantsAssumption DEF Init, SentInv, ToldMeansShown
<1> QED BY <1>1, <1>2, <1>3 DEF Inv

----------------------------------------------------------------------------
(* Type correctness.                                                       *)

LEMMA CallType ==
    ASSUME TypeOK, NEW e \in Events, CallStep(e)
    PROVE  TypeOK'
<1>1. CASE Save(e) \/ Unlock(e)
  BY <1>1 DEF Save, Unlock, TypeOK, connVars, pageVars, historyVars
<1>2. CASE Lock(e)
  BY <1>2 DEF Lock, TypeOK, connVars, pageVars
<1>3. ASSUME NEW c \in Conns, Write(e, c)
      PROVE  TypeOK'
  <2>1. sent' \in [Conns -> Seq(Events)] /\ \A d \in Conns : Len(sent[d]) <= Len(sent'[d])
    BY <1>3, AppendFacts DEF Write, TypeOK
  <2>2. \A d \in Conns : read'[d] <= Len(sent'[d])
    BY <1>3, <2>1 DEF Write, TypeOK, pageVars
  <2> QED BY <1>3, <2>1, <2>2 DEF Write, TypeOK, connVars, pageVars, historyVars
<1>4. ASSUME NEW c \in Conns, WriteFails(e, c)
      PROVE  TypeOK'
  BY <1>4 DEF WriteFails, TypeOK, pageVars, historyVars
<1> QED BY <1>1, <1>2, <1>3, <1>4 DEF CallStep, BroadcastEvent

LEMMA ConnType ==
    ASSUME TypeOK, NEW c \in Conns, ConnStep(c) \/ Page(c)
    PROVE  TypeOK'
<1>1. CASE Upgrade(c) \/ StopReading(c) \/ PageGoes(c) \/ Leave(c)
  BY <1>1 DEF Upgrade, StopReading, PageGoes, Leave, TypeOK, pageVars, historyVars
<1>2. CASE Register(c)
  BY <1>2 DEF Register, TypeOK, pageVars
<1>3. CASE Receive(c)
  BY <1>3 DEF Receive, TypeOK, connVars, historyVars
<1>4. CASE Refetch(c)
  BY <1>4 DEF Refetch, TypeOK, connVars, historyVars
<1> QED BY <1>1, <1>2, <1>3, <1>4 DEF ConnStep, HandleEvents, Page

LEMMA NextType == TypeOK /\ [Next]_vars => TypeOK'
<1> SUFFICES ASSUME TypeOK, [Next]_vars PROVE TypeOK'
  OBVIOUS
<1>1. CASE UNCHANGED vars
  BY <1>1 DEF vars, connVars, pageVars, historyVars, TypeOK
<1> QED BY <1>1, NextSteps, CallType, ConnType

\* The type invariant: handlers, table, buffers, views and the log.
THEOREM TypeCorrect == Spec => []TypeOK
BY InitInv, NextType, PTL DEF Spec, Inv

----------------------------------------------------------------------------
(* One order of events.                                                    *)

LEMMA LockInv ==
    ASSUME Inv, NEW e \in Events, Lock(e)
    PROVE  (MutexInv /\ TableInv /\ SentInv /\ LogInv)'
<1>1. /\ log' = Append(log, e) /\ log \in Seq(Events) /\ mutex = Nobody /\ mutex' = e
      /\ call[e] = "waiting"
      /\ UNCHANGED <<saved, clients, handler, sent, read, since>>
      /\ \A d \in Events : left[d] = {} /\ call[d] # "writing"
      /\ left' = [left EXCEPT ![e] = clients]
      /\ call' = [call EXCEPT ![e] = "writing"]
  BY ConstantsAssumption DEF Lock, connVars, pageVars, Inv, MutexInv, TypeOK
<1>2. MutexInv' /\ TableInv'
  BY <1>1 DEF Inv, MutexInv, TableInv, TypeOK, Subscribed
<1>3. \A c \in clients : Due(c) = 0 /\ Due(c)' = 1
  BY <1>1 DEF Due, Inv, TypeOK
<1>4. SentInv'
  BY <1>1, <1>3, AppendFacts DEF Inv, SentInv, TypeOK
<1>5. LogInv'
  <2>1. \A i \in 1..Len(log) : log[i] \in Events
    BY <1>1, ElementType
  <2>2. ASSUME NEW i \in 1..Len(log')
        PROVE  call'[log'[i]] \in {"writing", "done"}
    <3>1. CASE i \in 1..Len(log)
      BY <1>1, <2>1, <3>1, AppendFacts DEF Inv, LogInv, TypeOK
    <3>2. CASE i = Len(log) + 1
      BY <1>1, <3>2, AppendFacts DEF Inv, TypeOK
    <3> QED BY <1>1, <2>2, <3>1, <3>2, AppendFacts
  <2> QED BY <1>1, <2>2 DEF Inv, LogInv, TypeOK
<1> QED BY <1>2, <1>4, <1>5

LEMMA WriteInv ==
    ASSUME Inv, NEW e \in Events, NEW c \in Conns, Write(e, c)
    PROVE  (MutexInv /\ TableInv /\ SentInv /\ LogInv)'
<1>1. /\ c \in left[e] /\ c \in clients /\ mutex = e
      /\ \A d \in Events \ {e} : left[d] = {}
      /\ left' = [left EXCEPT ![e] = left[e] \ {c}]
      /\ sent' = [sent EXCEPT ![c] = Append(sent[c], e)]
      /\ UNCHANGED <<call, saved, mutex, clients, handler, read, log, since>>
  BY DEF Write, Inv, MutexInv, TypeOK, connVars, pageVars, historyVars
<1>2. MutexInv' /\ TableInv' /\ LogInv'
  BY <1>1 DEF Inv, MutexInv, TableInv, LogInv, TypeOK, Subscribed
<1>3. Due(c) = 1 /\ Due(c)' = 0 /\ \A d \in Conns \ {c} : Due(d)' = Due(d)
  BY <1>1 DEF Due, Inv, TypeOK
<1>4. /\ Len(sent'[c]) = Len(sent[c]) + 1
      /\ \A i \in 1..Len(sent[c]) : sent'[c][i] = sent[c][i]
      /\ sent'[c][Len(sent[c]) + 1] = e
      /\ \A d \in Conns \ {c} : sent'[d] = sent[d]
      /\ Len(sent[c]) \in Nat
  BY <1>1, AppendFacts DEF Inv, TypeOK
<1>5. since[c] + Len(sent[c]) + 1 = Len(log) /\ log[Len(log)] = e /\ since[c] \in Nat
  BY <1>1, <1>3 DEF Inv, SentInv, TypeOK
<1>6. /\ since[c] + Len(sent'[c]) = Len(log)
      /\ \A i \in 1..Len(sent'[c]) : sent'[c][i] = log[since[c] + i]
  BY <1>4, <1>5 DEF Inv, SentInv
<1>7. SentInv'
  BY <1>1, <1>3, <1>4, <1>6 DEF Inv, SentInv, TypeOK
<1> QED BY <1>2, <1>7

LEMMA OtherCallsInv ==
    ASSUME Inv, NEW e \in Events,
           Save(e) \/ Unlock(e) \/ (\E c \in Conns : WriteFails(e, c))
    PROVE  (MutexInv /\ TableInv /\ SentInv /\ LogInv)'
<1>1. CASE Save(e)
  <2>1. /\ call' = [call EXCEPT ![e] = "waiting"] /\ call[e] = "none"
        /\ saved' = saved \cup {e}
        /\ UNCHANGED <<mutex, clients, left, handler, sent, read, log, since>>
    BY <1>1 DEF Save, connVars, pageVars, historyVars
  <2>2. MutexInv' /\ TableInv' /\ SentInv'
    BY <2>1 DEF Inv, TypeOK, MutexInv, TableInv, SentInv, Due, Subscribed
  <2>3. \A i \in 1..Len(log) : log[i] \in Events
    BY ElementType DEF Inv, TypeOK
  <2>4. LogInv'
    BY <2>1, <2>3 DEF Inv, TypeOK, LogInv
  <2> QED BY <2>2, <2>4
<1>2. CASE Unlock(e)
  <2>1. /\ mutex = e /\ mutex' = Nobody /\ \A d \in Events : left[d] = {}
        /\ call' = [call EXCEPT ![e] = "done"] /\ call[e] = "writing"
        /\ UNCHANGED <<saved, clients, left, handler, sent, read, log, since>>
    BY <1>2 DEF Unlock, Inv, TypeOK, MutexInv, connVars, pageVars, historyVars
  <2>2. MutexInv' /\ TableInv' /\ LogInv'
    BY <2>1, ConstantsAssumption DEF Inv, TypeOK, MutexInv, TableInv, LogInv, Subscribed
  <2>3. SentInv'
    BY <2>1, ConstantsAssumption DEF Inv, SentInv, Due
  <2> QED BY <2>2, <2>3
<1>3. ASSUME NEW c \in Conns, WriteFails(e, c)
      PROVE  (MutexInv /\ TableInv /\ SentInv /\ LogInv)'
  <2>1. /\ mutex = e /\ \A d \in Events \ {e} : left[d] = {}
        /\ left' = [left EXCEPT ![e] = left[e] \ {c}] /\ clients' = clients \ {c}
        /\ UNCHANGED <<call, saved, mutex, handler, sent, read, log, since>>
    BY <1>3 DEF WriteFails, Inv, TypeOK, MutexInv, pageVars, historyVars
  <2>2. MutexInv'
    BY <2>1 DEF Inv, TypeOK, MutexInv
  <2>3. TableInv' /\ LogInv'
    BY <2>1 DEF Inv, TableInv, LogInv, Subscribed
  <2>4. \A d \in Conns \ {c} : Due(d)' = Due(d)
    BY <2>1 DEF Due, Inv, TypeOK
  <2>5. SentInv'
    BY <2>1, <2>4 DEF Inv, SentInv, TypeOK
  <2> QED BY <2>2, <2>3, <2>5
<1> QED BY <1>1, <1>2, <1>3

LEMMA ConnInv ==
    ASSUME Inv, NEW c \in Conns, ConnStep(c)
    PROVE  (MutexInv /\ TableInv /\ SentInv /\ LogInv)'
<1>1. UNCHANGED <<call, saved, mutex, left, sent, read, log>>
  BY DEF ConnStep, HandleEvents, Upgrade, Register, StopReading, Leave, PageGoes,
         pageVars, historyVars
<1>2. LogInv'
  BY <1>1 DEF Inv, LogInv
<1>3. CASE Upgrade(c) \/ StopReading(c) \/ PageGoes(c)
  <2>1. UNCHANGED <<clients, since>>
    BY <1>3 DEF Upgrade, StopReading, PageGoes, historyVars
  <2>2. MutexInv' /\ SentInv'
    BY <1>1, <2>1 DEF Inv, MutexInv, SentInv, Due
  <2>3. TableInv'
    BY <1>1, <1>3, <2>1 DEF Upgrade, StopReading, PageGoes, Inv, TypeOK, TableInv, Subscribed
  <2> QED BY <1>2, <2>2, <2>3
<1>4. CASE Register(c)
  <2>1. /\ clients' = clients \cup {c} /\ since' = [since EXCEPT ![c] = Len(log)]
        /\ handler' = [handler EXCEPT ![c] = "reading"]
        /\ mutex = Nobody /\ sent[c] = <<>> /\ \A d \in Events : left[d] = {}
    BY <1>4, ConstantsAssumption DEF Register, Inv, MutexInv, TableInv, Subscribed
  <2>2. MutexInv' /\ TableInv'
    BY <1>1, <2>1, ConstantsAssumption DEF Inv, TypeOK, MutexInv, TableInv, Subscribed
  <2>3. \A d \in Conns : Due(d) = 0 /\ Due(d)' = 0
    BY <1>1, <2>1 DEF Due
  <2>4. SentInv'
    BY <1>1, <2>1, <2>3 DEF Inv, TypeOK, SentInv
  <2> QED BY <1>2, <2>2, <2>4
<1>5. CASE Leave(c)
  <2>1. /\ clients' = clients \ {c} /\ since' = since
        /\ handler' = [handler EXCEPT ![c] = "closed"]
        /\ mutex = Nobody /\ \A d \in Events : left[d] = {}
    BY <1>5, ConstantsAssumption DEF Leave, Inv, MutexInv, historyVars
  <2>2. MutexInv' /\ TableInv'
    BY <1>1, <1>5, <2>1 DEF Leave, Inv, TypeOK, MutexInv, TableInv, Subscribed
  <2>3. SentInv'
    BY <1>1, <2>1 DEF Inv, SentInv, Due
  <2> QED BY <1>2, <2>2, <2>3
<1> QED BY <1>3, <1>4, <1>5 DEF ConnStep, HandleEvents

LEMMA PageInv ==
    ASSUME Inv, NEW c \in Conns, Page(c)
    PROVE  (MutexInv /\ TableInv /\ SentInv /\ LogInv)'
<1>1. UNCHANGED <<call, saved, mutex, left, clients, handler, sent, log, since>>
  BY DEF Page, Receive, Refetch, connVars, historyVars
<1>2. MutexInv' /\ SentInv' /\ LogInv'
  BY <1>1 DEF Inv, MutexInv, SentInv, LogInv, Due
<1>3. \A d \in Conns : sent[d] = <<>> => read'[d] = read[d]
  BY DEF Page, Receive, Refetch, Inv, TypeOK
<1>4. TableInv'
  BY <1>1, <1>3 DEF Inv, TableInv, Subscribed
<1> QED BY <1>2, <1>4

LEMMA NextInv == Inv /\ [Next]_vars => Inv'
<1> SUFFICES ASSUME Inv, [Next]_vars PROVE Inv'
  OBVIOUS
<1>1. TypeOK'
  BY NextType DEF Inv
<1>2. CASE UNCHANGED vars
  BY <1>1, <1>2 DEF vars, connVars, pageVars, historyVars, Inv, MutexInv, TableInv, SentInv,
                    LogInv, Due, Subscribed
<1>3. CASE \E e \in Events : CallStep(e)
  BY <1>1, <1>3, LockInv, WriteInv, OtherCallsInv DEF CallStep, BroadcastEvent, Inv
<1>4. CASE \E c \in Conns : ConnStep(c) \/ Page(c)
  BY <1>1, <1>4, ConnInv, PageInv DEF Inv
<1> QED BY <1>2, <1>3, <1>4, NextSteps

LEMMA Invariance == Spec => []Inv
BY InitInv, NextInv, PTL DEF Spec

\* All clients are sent the same events in the same order, without a gap from
\* their registration on, whatever broadcasts, registrations, failing writes
\* and departures overlap.
THEOREM OneOrder == Spec => []SameOrder
<1>1. Inv => SameOrder
  <2> SUFFICES ASSUME Inv PROVE SameOrder
    OBVIOUS
  <2>1. ASSUME NEW c \in clients, mutex = Nobody
        PROVE  since[c] + Len(sent[c]) = Len(log)
    <3>1. Due(c) = 0
      BY <2>1, ConstantsAssumption DEF Due, Inv, MutexInv
    <3> QED BY <3>1 DEF Inv, SentInv, TypeOK
  <2> QED BY <2>1 DEF Inv, SentInv, SameOrder
<1> QED BY <1>1, Invariance, PTL

----------------------------------------------------------------------------
(* Events and the data.                                                    *)

LEMMA LoggedAreSaved ==
    ASSUME Inv, NEW i \in 1..Len(log)
    PROVE  log[i] \in saved
<1>1. log[i] \in Events
  BY ElementType DEF Inv, TypeOK
<1> QED BY <1>1 DEF Inv, LogInv

LEMMA NextTold == Inv /\ ToldMeansShown /\ [Next]_vars => ToldMeansShown'
<1> SUFFICES ASSUME Inv, ToldMeansShown, [Next]_vars PROVE ToldMeansShown'
  OBVIOUS
<1>1. CASE UNCHANGED vars
  BY <1>1 DEF vars, pageVars, historyVars, ToldMeansShown
<1>2. ASSUME NEW e \in Events, CallStep(e)
      PROVE  ToldMeansShown'
  <2>1. UNCHANGED <<read, view, stale, since>>
    BY <1>2 DEF CallStep, BroadcastEvent, Save, Lock, Write, WriteFails, Unlock, pageVars, historyVars
  <2>2. CASE Lock(e)
    <3>1. log' = Append(log, e) /\ log \in Seq(Events)
      BY <2>2 DEF Lock, Inv, TypeOK
    <3>2. \A c \in Conns : since[c] + read[c] <= Len(log) /\ since[c] \in Nat /\ read[c] \in Nat
      BY DEF Inv, TypeOK, SentInv
    <3> QED BY <2>1, <3>1, <3>2, AppendFacts DEF ToldMeansShown
  <2>3. CASE ~Lock(e)
    <3>1. log' = log
      BY <1>2, <2>3 DEF CallStep, BroadcastEvent, Save, Write, WriteFails, Unlock, historyVars
    <3> QED BY <2>1, <3>1 DEF ToldMeansShown
  <2> QED BY <2>2, <2>3
<1>3. ASSUME NEW c \in Conns, ConnStep(c)
      PROVE  ToldMeansShown'
  <2>1. UNCHANGED <<read, view, stale, log>>
    BY <1>3 DEF ConnStep, HandleEvents, Upgrade, Register, StopReading, Leave, PageGoes,
                pageVars, historyVars
  <2>2. CASE Register(c)
    <3>1. since' = [since EXCEPT ![c] = Len(log)] /\ read[c] = 0
      BY <2>2 DEF Register, Inv, TableInv, Subscribed
    <3> QED BY <2>1, <3>1 DEF ToldMeansShown, Inv, TypeOK
  <2>3. CASE ~Register(c)
    <3>1. since' = since
      BY <1>3, <2>3 DEF ConnStep, HandleEvents, Upgrade, StopReading, Leave, PageGoes, historyVars
    <3> QED BY <2>1, <3>1 DEF ToldMeansShown
  <2> QED BY <2>2, <2>3
<1>4. ASSUME NEW c \in Conns, Receive(c)
      PROVE  ToldMeansShown'
  <2>1. /\ read' = [read EXCEPT ![c] = read[c] + 1] /\ stale' = stale \cup {c}
        /\ UNCHANGED <<view, log, since>>
    BY <1>4 DEF Receive, historyVars
  <2> QED BY <2>1 DEF ToldMeansShown, Inv, TypeOK
<1>5. ASSUME NEW c \in Conns, Refetch(c)
      PROVE  ToldMeansShown'
  <2>1. /\ view' = [view EXCEPT ![c] = saved] /\ stale' = stale \ {c}
        /\ UNCHANGED <<read, log, since>>
    BY <1>5 DEF Refetch, historyVars
  <2>2. \A i \in 1..Len(log) : log[i] \in saved
    BY LoggedAreSaved
  <2> QED BY <2>1, <2>2 DEF ToldMeansShown, Inv, TypeOK
<1> QED BY <1>1, <1>2, <1>3, <1>4, <1>5, NextSteps DEF Page

\* No event runs ahead of the data: who was told of a change and has fetched
\* since shows it, since handlers broadcast after they saved.
THEOREM ToldAreShown == Spec => []ToldMeansShown
BY InitInv, NextTold, Invariance, PTL DEF Spec

----------------------------------------------------------------------------
(* The refinement.                                                         *)

GotBy(c) == SubSeq(sent[c], 1, read[c])

LEMMA Stutter ==
    ASSUME log' = log, since' = since,
           \A c \in Conns : Subscribed(c)' = Subscribed(c) /\ GotBy(c)' = GotBy(c)
    PROVE  UNCHANGED Log!vars
<1>1. {c \in Conns : handler[c] \notin {"none", "upgraded"}}' =
      {c \in Conns : handler[c] \notin {"none", "upgraded"}}
  BY DEF Subscribed
<1>2. [c \in Conns |-> SubSeq(sent[c], 1, read[c])]' = [c \in Conns |-> SubSeq(sent[c], 1, read[c])]
  BY DEF GotBy
<1> QED BY <1>1, <1>2 DEF Log!vars

LEMMA CallRefines ==
    ASSUME Inv, NEW e \in Events, CallStep(e)
    PROVE  [Log!Next]_(Log!vars)
<1>1. UNCHANGED <<handler, read, since>>
  BY DEF CallStep, BroadcastEvent, Save, Lock, Write, WriteFails, Unlock, connVars, pageVars,
         historyVars
<1>2. CASE Lock(e)
  <2>1. log' = Append(log, e) /\ sent' = sent /\ call[e] = "waiting"
    BY <1>2 DEF Lock
  <2>2. \A i \in DOMAIN log : log[i] # e
    <3>1. log \in Seq(Events) /\ DOMAIN log = 1..Len(log)
      BY DEF Inv, TypeOK
    <3>2. \A i \in 1..Len(log) : call[log[i]] # "waiting"
      BY DEF Inv, LogInv
    <3> QED BY <2>1, <3>1, <3>2
  <2>3. Log!Publish(e)
    BY <1>1, <2>1, <2>2 DEF Log!Publish
  <2> QED BY <2>3 DEF Log!Next
<1>3. ASSUME NEW c \in Conns, Write(e, c)
      PROVE  UNCHANGED Log!vars
  <2>1. sent' = [sent EXCEPT ![c] = Append(sent[c], e)] /\ log' = log
    BY <1>3 DEF Write, historyVars
  <2>2. \A d \in Conns : SubSeq(sent'[d], 1, read[d]) = SubSeq(sent[d], 1, read[d])
    <3>1. SubSeq(Append(sent[c], e), 1, read[c]) = SubSeq(sent[c], 1, read[c])
      BY PrefixOfAppend DEF Inv, TypeOK
    <3> QED BY <2>1, <3>1 DEF Inv, TypeOK
  <2> QED BY <1>1, <2>1, <2>2, Stutter DEF GotBy, Subscribed
<1>4. CASE Save(e) \/ Unlock(e) \/ (\E c \in Conns : WriteFails(e, c))
  <2>1. log' = log /\ sent' = sent
    BY <1>4 DEF Save, Unlock, WriteFails, historyVars
  <2> QED BY <1>1, <2>1, Stutter DEF GotBy, Subscribed
<1> QED BY <1>2, <1>3, <1>4 DEF CallStep, BroadcastEvent

LEMMA ConnRefines ==
    ASSUME Inv, NEW c \in Conns, ConnStep(c)
    PROVE  [Log!Next]_(Log!vars)
<1>1. UNCHANGED <<sent, read, log>>
  BY DEF ConnStep, HandleEvents, Upgrade, Register, StopReading, Leave, PageGoes,
         pageVars, historyVars
<1>2. CASE Register(c)
  <2>1. /\ since' = [since EXCEPT ![c] = Len(log)]
        /\ handler' = [handler EXCEPT ![c] = "reading"] /\ handler[c] = "upgraded"
    BY <1>2 DEF Register
  <2>2. {d \in Conns : handler'[d] \notin {"none", "upgraded"}} =
        {d \in Conns : handler[d] \notin {"none", "upgraded"}} \cup {c}
    BY <2>1 DEF Inv, TypeOK
  <2>3. Log!Subscribe(c)
    BY <1>1, <2>1, <2>2 DEF Log!Subscribe
  <2> QED BY <2>3 DEF Log!Next
<1>3. CASE Upgrade(c) \/ StopReading(c) \/ Leave(c) \/ PageGoes(c)
  <2>1. since' = since
    BY <1>3 DEF Upgrade, StopReading, Leave, PageGoes, historyVars
  <2>2. \A d \in Conns : Subscribed(d)' = Subscribed(d)
    BY <1>3 DEF Upgrade, StopReading, Leave, PageGoes, Subscribed, Inv, TypeOK
  <2> QED BY <1>1, <2>1, <2>2, Stutter DEF GotBy
<1> QED BY <1>2, <1>3 DEF ConnStep, HandleEvents

LEMMA ReceiveRefines ==
    ASSUME Inv, NEW c \in Conns, Receive(c)
    PROVE  Log!Deliver(c)
<1> DEFINE got == [d \in Conns |-> SubSeq(sent[d], 1, read[d])]
<1>1. /\ read' = [read EXCEPT ![c] = read[c] + 1] /\ read[c] < Len(sent[c])
      /\ UNCHANGED <<handler, sent, log, since>>
  BY DEF Receive, connVars, historyVars
<1>2. sent[c] \in Seq(Events) /\ read[c] \in Nat /\ since[c] \in Nat /\ Len(sent[c]) \in Nat
  BY DEF Inv, TypeOK
<1>3. /\ SubSeq(sent[c], 1, read[c] + 1) = Append(SubSeq(sent[c], 1, read[c]), sent[c][read[c] + 1])
      /\ Len(SubSeq(sent[c], 1, read[c])) = read[c]
  BY <1>1, <1>2, LongerPrefix
<1>4. Subscribed(c)
  BY <1>1, <1>2 DEF Inv, TableInv
<1>5. /\ since[c] + read[c] < Len(log)
      /\ sent[c][read[c] + 1] = log[since[c] + read[c] + 1]
  <2>1. Len(log) \in Nat /\ since[c] + Len(sent[c]) <= Len(log)
    BY DEF Inv, SentInv, TypeOK
  <2>2. read[c] + 1 \in 1..Len(sent[c])
    BY <1>1, <1>2
  <2>3. sent[c][read[c] + 1] = log[since[c] + (read[c] + 1)]
    BY <2>2 DEF Inv, SentInv
  <2> QED BY <1>1, <1>2, <2>1, <2>3
<1>6. got' = [got EXCEPT ![c] = Append(got[c], log[since[c] + Len(got[c]) + 1])]
  BY <1>1, <1>3, <1>5 DEF Inv, TypeOK
<1> QED BY <1>1, <1>3, <1>4, <1>5, <1>6 DEF Log!Deliver, Subscribed

\* Table, mutex and buffers amount to one log: every subscriber receives it
\* from the end it had at its registration on, one event after the other.
THEOREM ImplementsLog == Spec => ImplementsEventLog
<1>1. Init => Log!Init
  <2> SUFFICES ASSUME Init PROVE Log!Init
    OBVIOUS
  <2>1. {c \in Conns : handler[c] \notin {"none", "upgraded"}} = {}
    BY DEF Init
  <2>2. \A c \in Conns : SubSeq(sent[c], 1, read[c]) = <<>>
    BY DEF Init
  <2> QED BY <2>1, <2>2 DEF Init, Log!Init
<1>2. Inv /\ [Next]_vars => [Log!Next]_(Log!vars)
  <2> SUFFICES ASSUME Inv, [Next]_vars PROVE [Log!Next]_(Log!vars)
    OBVIOUS
  <2>1. CASE UNCHANGED vars
    BY <2>1, Stutter DEF vars, connVars, pageVars, historyVars, GotBy, Subscribed
  <2>2. ASSUME NEW c \in Conns, Refetch(c)
        PROVE  UNCHANGED Log!vars
    BY <2>2, Stutter DEF Refetch, connVars, historyVars, GotBy, Subscribed
  <2> QED BY <2>1, <2>2, CallRefines, ConnRefines, ReceiveRefines, NextSteps DEF Page, Log!Next
<1> QED BY <1>1, <1>2, Invariance, PTL DEF Spec, ImplementsEventLog, Log!Spec

----------------------------------------------------------------------------
(* No event twice, carried over from EventLog.                             *)

\* No client is sent an event twice.
SentOnce ==
    \A c \in Conns : \A i, j \in 1..Len(sent[c]) : sent[c][i] = sent[c][j] => i = j

\* No event is in the log twice.
LogOnce == log \in Seq(Events) /\ \A i, j \in 1..Len(log) : log[i] = log[j] => i = j

LEMMA PublishOnce ==
    ASSUME LogOnce, NEW e \in Events, Log!Publish(e)
    PROVE  LogOnce'
<1>1. log \in Seq(Events) /\ log' = Append(log, e) /\ \A i \in 1..Len(log) : log[i] # e
  BY DEF LogOnce, Log!Publish
<1>2. /\ log' \in Seq(Events) /\ Len(log') = Len(log) + 1 /\ Len(log) \in Nat
      /\ \A i \in 1..Len(log) : log'[i] = log[i] /\ log'[i] # e
      /\ log'[Len(log) + 1] = e
  BY <1>1, AppendFacts
<1>3. \A i \in 1..Len(log') : i \in 1..Len(log) \/ i = Len(log) + 1
  BY <1>2
<1> QED BY <1>2, <1>3 DEF LogOnce

LEMMA LogHasOnce == Log!Spec => []LogOnce
<1>1. Log!Init => LogOnce
  BY DEF Log!Init, LogOnce
<1>2. LogOnce /\ [Log!Next]_(Log!vars) => LogOnce'
  <2> SUFFICES ASSUME LogOnce, [Log!Next]_(Log!vars) PROVE LogOnce'
    OBVIOUS
  <2>1. CASE log' = log
    BY <2>1 DEF LogOnce
  <2>2. CASE \E e \in Events : Log!Publish(e)
    BY <2>2, PublishOnce
  <2> QED BY <2>1, <2>2 DEF Log!Next, Log!Subscribe, Log!Deliver, Log!vars
<1> QED BY <1>1, <1>2, PTL DEF Log!Spec

\* However registrations and broadcasts overlap, no client is sent an event
\* twice.  EventLog has the reason: nothing is published twice.
THEOREM Once == Spec => []SentOnce
<1>1. SameOrder /\ LogOnce /\ TypeOK => SentOnce
  <2> SUFFICES ASSUME SameOrder, LogOnce, TypeOK,
                      NEW c \in Conns, NEW i \in 1..Len(sent[c]), NEW j \in 1..Len(sent[c]),
                      sent[c][i] = sent[c][j]
               PROVE  i = j
    BY DEF SentOnce
  <2>1. since[c] \in Nat /\ Len(sent[c]) \in Nat /\ Len(log) \in Nat
    BY DEF TypeOK
  <2>2. log[since[c] + i] = log[since[c] + j] /\ since[c] + Len(sent[c]) <= Len(log)
    BY DEF SameOrder
  <2>3. since[c] + i \in 1..Len(log) /\ since[c] + j \in 1..Len(log)
    BY <2>1, <2>2
  <2>4. since[c] + i = since[c] + j
    BY <2>2, <2>3 DEF LogOnce
  <2> QED BY <2>1, <2>4
<1> QED BY <1>1, OneOrder, ImplementsLog, LogHasOnce, TypeCorrect, PTL DEF ImplementsEventLog

----------------------------------------------------------------------------
(* The table and the mutex go on.                                          *)

\* Of the connections registered so far, each is either in the table or was
\* closed by the daemon, and a handler that has ended has closed its own.
TableIsOpen ==
    /\ {c \in Conns : Subscribed(c)} = clients \cup shut
    /\ clients \cap shut = {}
    /\ \A c \in Conns : handler[c] = "closed" => c \in shut

LEMMA TableStep == Inv /\ TableIsOpen /\ [Next]_vars => TableIsOpen'
<1> SUFFICES ASSUME Inv, TableIsOpen, [Next]_vars PROVE TableIsOpen'
  OBVIOUS
<1>1. CASE UNCHANGED <<clients, shut, handler>>
  BY <1>1 DEF TableIsOpen, Subscribed
<1>2. ASSUME NEW e \in Events, NEW c \in Conns, WriteFails(e, c)
      PROVE  TableIsOpen'
  <2>1. c \in clients
    BY <1>2 DEF WriteFails, Inv, MutexInv
  <2> QED BY <1>2, <2>1 DEF WriteFails, TableIsOpen, Subscribed
<1>3. ASSUME NEW c \in Conns, Upgrade(c) \/ StopReading(c)
      PROVE  TableIsOpen'
  <2>1. /\ clients' = clients /\ shut' = shut
        /\ \A d \in Conns : /\ Subscribed(d)' = Subscribed(d)
                            /\ handler'[d] = "closed" => handler[d] = "closed"
    BY <1>3 DEF Upgrade, StopReading, Subscribed, Inv, TypeOK
  <2> QED BY <2>1 DEF TableIsOpen
<1>4. ASSUME NEW c \in Conns, Register(c)
      PROVE  TableIsOpen'
  <2>1. /\ clients' = clients \cup {c} /\ shut' = shut /\ handler[c] = "upgraded"
        /\ \A d \in Conns : handler'[d] = IF d = c THEN "reading" ELSE handler[d]
    BY <1>4 DEF Register, Inv, TypeOK
  <2>2. c \notin shut
    BY <2>1 DEF TableIsOpen, Subscribed
  <2> QED BY <2>1, <2>2 DEF TableIsOpen, Subscribed
<1>5. ASSUME NEW c \in Conns, Leave(c)
      PROVE  TableIsOpen'
  <2>1. /\ clients' = clients \ {c} /\ shut' = shut \cup {c} /\ Subscribed(c)
        /\ \A d \in Conns : handler'[d] = IF d = c THEN "closed" ELSE handler[d]
    BY <1>5 DEF Leave, Inv, TypeOK, Subscribed
  <2> QED BY <2>1 DEF TableIsOpen, Subscribed
<1>6. \/ UNCHANGED <<clients, shut, handler>>
      \/ \E e \in Events, c \in Conns : WriteFails(e, c)
      \/ \E c \in Conns : Upgrade(c) \/ StopReading(c) \/ Register(c) \/ Leave(c)
  BY DEF Next, BroadcastEvent, HandleEvents, Page, Save, Lock, Write, Unlock, PageGoes,
         Receive, Refetch, vars, connVars
<1> QED BY <1>1, <1>2, <1>3, <1>4, <1>5, <1>6

\* No connection is leaked and none is forgotten while it is open: what is
\* left of TheGoneAreForgotten is that handlers and writes go on.
THEOREM TableOfOpen == Spec => []TableIsOpen
<1>1. Init => TableIsOpen
  BY DEF Init, TableIsOpen, Subscribed
<1> QED BY <1>1, TableStep, Invariance, PTL DEF Spec

\* The mutex is held by nobody, or by the broadcast that writes, and each
\* client that one has still to write to can be written to, has gone, or has a
\* page with something to read.
MutexGoesOn ==
    /\ \A e \in Events : call[e] = "writing" <=> mutex = e
    /\ mutex # Nobody =>
           \A c \in left[mutex] :
              c \notin shut /\ (Full(c) => c \in gone \/ read[c] < Len(sent[c]))

\* A broadcast that holds the mutex is never given a client more to write to,
\* and lets go only when it has none left.
WritesShrink ==
    [][\A e \in Events :
          mutex = e => IF mutex' = e THEN left'[e] \subseteq left[e]
                       ELSE mutex' = Nobody /\ left[e] = {} /\ call'[e] = "done"]_vars

\* Nobody waits for the mutex in vain for want of a step that could be taken.
\* What is left of BroadcastsEnd is that goroutines and pages take it.
THEOREM MutexProgress == Spec => []MutexGoesOn /\ WritesShrink
<1>1. Inv /\ TableIsOpen => MutexGoesOn
  <2> SUFFICES ASSUME Inv, TableIsOpen PROVE MutexGoesOn
    OBVIOUS
  <2>1. ASSUME mutex # Nobody, NEW c \in left[mutex]
        PROVE  c \notin shut /\ (Full(c) => read[c] < Len(sent[c]))
    <3>1. mutex \in Events /\ c \in clients /\ c \in Conns
      BY <2>1 DEF Inv, TypeOK, MutexInv
    <3>2. Full(c) => read[c] < Len(sent[c])
      BY <3>1, ConstantsAssumption DEF Full, Inv, TypeOK
    <3> QED BY <3>1, <3>2 DEF TableIsOpen
  <2> QED BY <2>1 DEF MutexGoesOn, Inv, MutexInv
<1>2. Inv /\ [Next]_vars =>
        [\A e \in Events :
            mutex = e => IF mutex' = e THEN left'[e] \subseteq left[e]
                         ELSE mutex' = Nobody /\ left[e] = {} /\ call'[e] = "done"]_vars
  <2> SUFFICES ASSUME Inv, [Next]_vars, NEW e \in Events, mutex = e
               PROVE  IF mutex' = e THEN left'[e] \subseteq left[e]
                      ELSE mutex' = Nobody /\ left[e] = {} /\ call'[e] = "done"
    OBVIOUS
  <2>1. e # Nobody
    BY ConstantsAssumption
  <2>2. CASE UNCHANGED <<mutex, left>>
    BY <2>2
  <2>3. ASSUME NEW d \in Events, NEW c \in Conns, Write(d, c) \/ WriteFails(d, c)
        PROVE  mutex' = e /\ left'[e] \subseteq left[e]
    BY <2>3 DEF Write, WriteFails, Inv, TypeOK
  <2>4. ASSUME NEW d \in Events, Unlock(d)
        PROVE  mutex' = Nobody /\ left[e] = {} /\ call'[e] = "done"
    BY <2>4 DEF Unlock, Inv, TypeOK, MutexInv
  <2>5. \A d \in Events : ~Lock(d)
    BY <2>1 DEF Lock
  <2>6. \/ UNCHANGED <<mutex, left>>
        \/ \E d \in Events, c \in Conns : Write(d, c) \/ WriteFails(d, c)
        \/ \E d \in Events : Unlock(d) \/ Lock(d)
    BY DEF Next, BroadcastEvent, HandleEvents, Page, Save, Upgrade, Register, StopReading,
           Leave, PageGoes, Receive, Refetch, vars
  <2> QED BY <2>1, <2>2, <2>3, <2>4, <2>5, <2>6
<1> QED BY <1>1, <1>2, Invariance, TableOfOpen, PTL DEF Spec, WritesShrink
====
