---- MODULE LifecycleProofs ----
(***************************************************************************)
(* Proofs about Lifecycle: type correctness, that a daemon that serves is  *)
(* in the port file, when the identity persists, that shells tell their    *)
(* daemons and lone starts are spared, and that the directory is a         *)
(* DaemonSlot, for any number of processes and shells.                     *)
(***************************************************************************)
EXTENDS Lifecycle, TLAPS

Holding == {"opened", "listening", "serving", "closing"}

\* The stages past badger.Open are those of the lock's holder.
LockInv == \A n \in Processes : stage[n] \in Holding <=> lock = n

\* Who serves was the last to write the file, and its port is the newest.
ServerInv ==
    \A n \in Processes : stage[n] = "serving" =>
        port[n] = ports /\ portFile = ports /\ ports > 0

Generating == {n \in Processes : stage[n] \in {"keyless", "writing"}}

\* Unless a key is made twice, one process at most makes one, from no key
\* through a torn one to its own; until then nobody has an identity, and then
\* all have this.
IdentityInv ==
    ~remade =>
        /\ \A m, n \in Generating : m = n
        /\ \A n \in Processes : /\ stage[n] = "keyless" => keyFile \in {NoKey, Torn}
                                /\ stage[n] = "writing" => keyFile = Torn
        /\ keyFile \in {NoKey, Torn} => authors = {} /\ Hosted = {}
        /\ authors \subseteq {keyFile}
        /\ \A n \in Hosted : key[n] = keyFile

\* Who has come past its key has one.
KeyInv == \A n \in Hosted : key[n] \in Processes

Inv == TypeOK /\ KeyInv /\ LockInv /\ ServerInv

Step(n) == Identify(n) \/ ComeUp(n) \/ Close(n) \/ Post(n) \/ Die(n)

\* What daemons do to each other goes through files and lock only.
Quiet == UNCHANGED <<identity, lock, portVars>>

----------------------------------------------------------------------------
(* Steps of shells and users: at most a process starts.                    *)

Use(n) == StartByHand(n) \/ Signal(n)

Click(s) == Launch(s) \/ CloseWindow(s) \/ Activate(s) \/ Quit(s) \/ ChildClosed(s)

LEMMA NextSteps ==
    ASSUME [Next]_vars
    PROVE  \/ \E n \in Processes : Step(n)
           \/ \E n \in Processes : Use(n)
           \/ \E s \in Shells : Click(s)
           \/ UNCHANGED vars
BY DEF Next, Step, Use, Click

LEMMA QuietSteps ==
    ASSUME TypeOK, UNCHANGED vars \/ (\E n \in Processes : Use(n)) \/ (\E s \in Shells : Click(s))
    PROVE  /\ Quiet
           /\ \/ stage' = stage
              \/ \E n \in Processes : /\ stage[n] = "free"
                                      /\ stage' = [stage EXCEPT ![n] = "started"]
<1> DEFINE Started == \E n \in Processes : /\ stage[n] = "free"
                                           /\ stage' = [stage EXCEPT ![n] = "started"]
<1>1. ASSUME NEW n \in Processes, NEW by, Spawn(n, by)
      PROVE  Started
  <2>1. n >= n
    BY DEF Processes
  <2>2. stage[n] = "free"
    BY <1>1, <2>1 DEF Spawn
  <2> QED BY <1>1, <2>2 DEF Spawn
<1>2. CASE UNCHANGED vars
  BY <1>2 DEF vars, Quiet
<1>3. ASSUME NEW n \in Processes, Use(n)
      PROVE  Quiet /\ (stage' = stage \/ Started)
  <2>1. CASE StartByHand(n)
    BY <1>1, <2>1 DEF StartByHand, Quiet
  <2> QED BY <1>3, <2>1 DEF Use, Signal, Quiet
<1>4. ASSUME NEW s \in Shells, Click(s)
      PROVE  Quiet /\ (stage' = stage \/ Started)
  <2>1. CASE Launch(s)
    BY <1>1, <2>1 DEF Launch, Quiet
  <2> QED BY <1>4, <2>1 DEF Click, CloseWindow, Activate, Quit, ChildClosed, Quiet
<1> QED BY <1>2, <1>3, <1>4

----------------------------------------------------------------------------
(* Type correctness, the lock and the port file.                           *)

LEMMA InitInv == Init => Inv /\ IdentityInv
<1> SUFFICES ASSUME Init PROVE Inv /\ IdentityInv
  OBVIOUS
<1>1. \A n \in Processes : stage[n] = "free" /\ lock # n
  BY ConstantsAssumption DEF Init
<1>2. TypeOK
  BY DEF Init, TypeOK, Stages
<1>3. KeyInv /\ LockInv /\ ServerInv
  BY <1>1 DEF KeyInv, LockInv, ServerInv, Hosted, Holding
<1>4. Hosted = {} /\ Generating = {}
  BY <1>1 DEF Hosted, Generating
<1>5. IdentityInv
  BY <1>1, <1>4 DEF Init, IdentityInv
<1> QED BY <1>2, <1>3, <1>5 DEF Inv

LEMMA UseType ==
    ASSUME TypeOK, NEW n \in Processes, Use(n)
    PROVE  TypeOK'
BY DEF Use, StartByHand, Signal, Spawn, TypeOK, Stages, Ended,
       identity, portVars, shellVars, Running

LEMMA ClickType ==
    ASSUME TypeOK, NEW s \in Shells, Click(s)
    PROVE  TypeOK'
<1>1. CASE Launch(s)
  BY <1>1 DEF Launch, Spawn, TypeOK, Stages, identity, portVars
<1>2. CASE CloseWindow(s) \/ Quit(s)
  BY <1>2 DEF CloseWindow, Quit, StopDaemon, TypeOK, identity, portVars, Running
<1>3. CASE Activate(s) \/ ChildClosed(s)
  BY <1>3 DEF Activate, ChildClosed, TypeOK, identity, portVars
<1> QED BY <1>1, <1>2, <1>3 DEF Click

LEMMA StepType ==
    ASSUME Inv, NEW n \in Processes, Step(n)
    PROVE  TypeOK'
<1>1. CASE ReadKey(n) \/ ReadFileFails(n) \/ TruncateKey(n) \/ WriteKey(n)
  <2>1. remade' \in BOOLEAN
    <3>1. CASE ReadFileFails(n)
      BY <3>1, Zenon DEF ReadFileFails
    <3> QED BY <1>1, <3>1 DEF ReadKey, TruncateKey, WriteKey, Inv, TypeOK
  <2>2. stage' \in [Processes -> Stages] /\ UNCHANGED <<lock, portVars, term, shellVars>>
    BY <1>1 DEF ReadKey, ReadFileFails, TruncateKey, WriteKey, Enter, Inv, TypeOK, Stages
  <2>3. /\ key' \in [Processes -> Processes \cup {NoKey}]
        /\ keyFile' \in Processes \cup {NoKey, Torn}
        /\ authors' = authors
    BY <1>1 DEF ReadKey, ReadFileFails, TruncateKey, WriteKey, Inv, TypeOK
  <2> QED BY <2>1, <2>2, <2>3 DEF Inv, TypeOK, portVars, shellVars
<1>2. ASSUME NEW how \in Ended, Exit(n, how), portFile' = portFile
      PROVE  TypeOK'
  BY <1>2 DEF Inv, TypeOK, Exit, Stages
<1>3. CASE FindTornKey(n) \/ OpenStoreFails(n) \/ CloseStoreAndNode(n) \/ Die(n)
  BY <1>2, <1>3 DEF FindTornKey, OpenStoreFails, CloseStoreAndNode, Die, Ended
<1>4. CASE OpenStore(n) \/ TruncatePort(n) \/ WritePort(n) \/ CloseServer(n)
  BY <1>4 DEF Inv, OpenStore, TruncatePort, WritePort, CloseServer, Enter, TypeOK, Stages,
              identity, portVars, shellVars
<1>5. CASE Post(n)
  BY <1>5 DEF Post, Inv, KeyInv, Hosted, TypeOK, portVars, shellVars
<1> QED BY <1>1, <1>3, <1>4, <1>5 DEF Step, Identify, ComeUp, Close

LEMMA StepInv ==
    ASSUME Inv, NEW n \in Processes, Step(n)
    PROVE  (KeyInv /\ LockInv /\ ServerInv)'
<1> USE ConstantsAssumption DEF Inv, TypeOK, KeyInv, LockInv, ServerInv, Hosted, Holding
<1>1. CASE ReadKey(n) \/ ReadFileFails(n) \/ TruncateKey(n) \/ WriteKey(n)
  BY <1>1 DEF ReadKey, ReadFileFails, TruncateKey, WriteKey, Enter, portVars
<1>2. ASSUME NEW how \in Ended, Exit(n, how), portFile' = portFile
      PROVE  (KeyInv /\ LockInv /\ ServerInv)'
  BY <1>2 DEF Exit, Ended
<1>3. CASE FindTornKey(n) \/ OpenStoreFails(n) \/ CloseStoreAndNode(n) \/ Die(n)
  BY <1>2, <1>3 DEF FindTornKey, OpenStoreFails, CloseStoreAndNode, Die, Ended
<1>4. CASE OpenStore(n)
  BY <1>4 DEF OpenStore, Enter, identity, portVars
<1>5. CASE TruncatePort(n)
  BY <1>5 DEF TruncatePort, Enter, identity
<1>6. CASE WritePort(n)
  BY <1>6 DEF WritePort, Enter, identity
<1>7. CASE CloseServer(n)
  BY <1>7 DEF CloseServer, Enter, identity
<1>8. CASE Post(n)
  BY <1>8 DEF Post, portVars
<1> QED BY <1>1, <1>3, <1>4, <1>5, <1>6, <1>7, <1>8 DEF Step, Identify, ComeUp, Close

LEMMA NextInv == Inv /\ [Next]_vars => Inv'
<1> SUFFICES ASSUME Inv, [Next]_vars PROVE Inv'
  OBVIOUS
<1>1. CASE \E n \in Processes : Step(n)
  BY <1>1, StepType, StepInv DEF Inv
<1>2. CASE UNCHANGED vars \/ (\E n \in Processes : Use(n)) \/ (\E s \in Shells : Click(s))
  <2>1. TypeOK'
    <3>1. CASE UNCHANGED vars
      BY <3>1 DEF vars, identity, portVars, shellVars, Inv, TypeOK
    <3> QED BY <1>2, <3>1, UseType, ClickType DEF Inv
  <2>2. (KeyInv /\ LockInv /\ ServerInv)'
    BY <1>2, QuietSteps DEF Quiet, identity, portVars, Inv, TypeOK, KeyInv, LockInv,
                            ServerInv, Hosted, Holding
  <2> QED BY <2>1, <2>2 DEF Inv
<1> QED BY <1>1, <1>2, NextSteps

LEMMA Invariance == Spec => []Inv
BY InitInv, NextInv, PTL DEF Spec

\* The type invariant: stages, keys, files, lock, ports and handles.
THEOREM TypeCorrect == Spec => []TypeOK
BY Invariance, PTL DEF Inv

\* A daemon that serves is in the port file, although files are removed and
\* emptied with no look at their contents: the lock comes before the file at
\* the start, and the file before the lock at the end.
THEOREM ServerInFile == Spec => []PortFileIsTheServers
<1>1. Inv => PortFileIsTheServers
  BY DEF Inv, ServerInv, PortFileIsTheServers
<1> QED BY <1>1, Invariance, PTL

----------------------------------------------------------------------------
(* The identity.                                                           *)

LEMMA StepIdentity ==
    ASSUME Inv, IdentityInv, NEW n \in Processes, Step(n)
    PROVE  IdentityInv'
<1> USE ConstantsAssumption DEF Inv, TypeOK, IdentityInv, Hosted, Generating
<1>1. CASE ReadKey(n)
  BY <1>1 DEF ReadKey, Enter
<1>2. CASE ReadFileFails(n)
  BY <1>2 DEF ReadFileFails, KeyThereOrComing, Enter
<1>3. CASE TruncateKey(n)
  BY <1>3 DEF TruncateKey, Enter
<1>4. CASE WriteKey(n)
  BY <1>4 DEF WriteKey, Enter
<1>5. ASSUME NEW how \in Ended, Exit(n, how)
      PROVE  IdentityInv'
  BY <1>5 DEF Exit, Ended
<1>6. CASE FindTornKey(n) \/ OpenStoreFails(n) \/ CloseStoreAndNode(n) \/ Die(n)
  BY <1>5, <1>6 DEF FindTornKey, OpenStoreFails, CloseStoreAndNode, Die, Ended
<1>7. CASE OpenStore(n) \/ TruncatePort(n) \/ WritePort(n) \/ CloseServer(n)
  BY <1>7 DEF OpenStore, TruncatePort, WritePort, CloseServer, Enter, identity
<1>8. CASE Post(n)
  BY <1>8 DEF Post
<1> QED BY <1>1, <1>2, <1>3, <1>4, <1>6, <1>7, <1>8 DEF Step, Identify, ComeUp, Close

LEMMA NextIdentity == Inv /\ IdentityInv /\ [Next]_vars => IdentityInv'
<1> SUFFICES ASSUME Inv, IdentityInv, [Next]_vars PROVE IdentityInv'
  OBVIOUS
<1>1. CASE \E n \in Processes : Step(n)
  BY <1>1, StepIdentity
<1>2. CASE UNCHANGED vars \/ (\E n \in Processes : Use(n)) \/ (\E s \in Shells : Click(s))
  BY <1>2, QuietSteps DEF Quiet, identity, Inv, TypeOK, IdentityInv, Hosted, Generating
<1> QED BY <1>1, <1>2, NextSteps

\* Whatever crashes and restarts come between, also in the middle of writing
\* the key, every daemon and every post has the identity in the key file,
\* provided that no two processes made a key at once and that no read of the
\* file failed while it held a key.  Without this premise loadOrGenerateKey
\* replaces the key: see PersistentPeerIdentity.
THEOREM IdentityPersists == Spec => []PersistentIdentity
<1>1. IdentityInv => PersistentIdentity
  BY DEF IdentityInv, PersistentIdentity
<1> QED BY <1>1, InitInv, NextIdentity, Invariance, PTL DEF Spec

\* The end of loadOrGenerateKey, after a read of the file failed while it held
\* a key, or two processes made a key at once.
Replaces == remade /\ (\E n \in Processes : TruncateKey(n) \/ WriteKey(n))

\* A step that replaces or empties a key file that holds a key is of no other
\* kind.
OnlyFailedReadsReplace ==
    [][(keyFile \in Processes /\ keyFile' # keyFile) => Replaces]_vars

\* What can happen to an identity that was written, over all steps of all
\* processes, at any point of their start and end: a race or a failed read,
\* and nothing else.
THEOREM IdentityReplaced == Spec => OnlyFailedReadsReplace
<1>1. Inv /\ IdentityInv /\ [Next]_vars
        => [(keyFile \in Processes /\ keyFile' # keyFile) => Replaces]_vars
  <2> SUFFICES ASSUME Inv, IdentityInv, [Next]_vars, keyFile \in Processes, keyFile' # keyFile
               PROVE  Replaces
    OBVIOUS
  <2>1. ASSUME NEW n \in Processes, Step(n) PROVE Replaces
    <3>1. TruncateKey(n) \/ WriteKey(n)
      BY <2>1 DEF Step, Identify, ComeUp, Close, ReadKey, ReadFileFails,
         FindTornKey, OpenStore, OpenStoreFails, TruncatePort, WritePort,
         CloseServer, CloseStoreAndNode, Post, Die, Exit, identity
    <3>2. stage[n] \in {"keyless", "writing"}
      BY <3>1 DEF TruncateKey, WriteKey, Enter
    <3>3. remade
      BY <3>2, ConstantsAssumption DEF IdentityInv
    <3> QED BY <3>1, <3>3 DEF Replaces
  <2>2. CASE UNCHANGED vars \/ (\E n \in Processes : Use(n)) \/ (\E s \in Shells : Click(s))
    BY <2>2, QuietSteps DEF Quiet, identity, Inv
  <2> QED BY <2>1, <2>2, NextSteps
<1> QED BY <1>1, InitInv, NextIdentity, Invariance, PTL DEF Spec, OnlyFailedReadsReplace

----------------------------------------------------------------------------
(* Shells and their daemons.                                               *)

\* A running daemon that a shell started is in that shell's hands or was told
\* to end; no other shell holds it, and a shell that is off holds nothing.
HandleInv ==
    /\ \A n \in Processes, s \in Shells : owner[n] = s =>
          n \in Running /\ (child[s] = n \/ n \in term)
    /\ \A s \in Shells : app[s] = "off" => child[s] = Nobody

LEMMA InitHandle == Init => HandleInv
BY ConstantsAssumption DEF Init, HandleInv

\* What a process does on its own leaves the shells alone; when it ends it is
\* nobody's.
LEMMA StepHandle ==
    ASSUME TypeOK, HandleInv, NEW n \in Processes, Step(n)
    PROVE  HandleInv'
<1> USE ConstantsAssumption DEF TypeOK, HandleInv, Running
<1>1. ASSUME NEW how \in Ended, Exit(n, how)
      PROVE  HandleInv'
  BY <1>1 DEF Exit, Ended
<1>2. CASE FindTornKey(n) \/ OpenStoreFails(n) \/ CloseStoreAndNode(n) \/ Die(n)
  BY <1>1, <1>2 DEF FindTornKey, OpenStoreFails, CloseStoreAndNode, Die, Ended
<1>3. ASSUME UNCHANGED <<term, owner, app, child>>,
             stage' = stage \/ \E from, to \in Stages \ ({"free"} \cup Ended) : Enter(n, from, to)
      PROVE  HandleInv'
  BY <1>3 DEF Enter
<1>4. CASE ReadKey(n) \/ ReadFileFails(n) \/ TruncateKey(n) \/ WriteKey(n)
  BY <1>3, <1>4 DEF ReadKey, ReadFileFails, TruncateKey, WriteKey, Stages, Ended, shellVars
<1>5. CASE OpenStore(n) \/ TruncatePort(n) \/ WritePort(n) \/ CloseServer(n) \/ Post(n)
  BY <1>3, <1>5 DEF OpenStore, TruncatePort, WritePort, CloseServer, Post, Stages, Ended, shellVars
<1> QED BY <1>2, <1>4, <1>5 DEF Step, Identify, ComeUp, Close

LEMMA UseHandle ==
    ASSUME TypeOK, HandleInv, NEW n \in Processes, Use(n)
    PROVE  HandleInv'
<1> USE ConstantsAssumption DEF TypeOK, HandleInv, Running
<1>1. CASE StartByHand(n)
  <2>1. stage[n] = "free" /\ n >= n
    BY <1>1 DEF StartByHand, Spawn, Processes
  <2> QED BY <1>1, <2>1 DEF StartByHand, Spawn, Ended
<1>2. CASE Signal(n)
  BY <1>2 DEF Signal, shellVars
<1> QED BY <1>1, <1>2 DEF Use

LEMMA ClickHandle ==
    ASSUME TypeOK, HandleInv, NEW s \in Shells, Click(s)
    PROVE  HandleInv'
<1> USE ConstantsAssumption DEF TypeOK, HandleInv, Running
<1>1. CASE Launch(s)
  <2>1. PICK n \in Processes : Spawn(n, s) /\ child' = [child EXCEPT ![s] = n]
    BY <1>1 DEF Launch
  <2>2. stage[n] = "free" /\ n \notin Running
    BY <2>1 DEF Spawn, Processes
  <2>3. child[s] = Nobody /\ app' = [app EXCEPT ![s] = "window"] /\ term' = term
    BY <1>1 DEF Launch
  <2> QED BY <2>1, <2>2, <2>3 DEF Spawn, Ended
<1>2. CASE CloseWindow(s) \/ Quit(s)
  <2>1. UNCHANGED <<stage, owner>> /\ StopDaemon(s)
    BY <1>2 DEF CloseWindow, Quit
  <2>2. app'[s] # "window" /\ \A r \in Shells \ {s} : app'[r] = app[r]
    BY <1>2 DEF CloseWindow, Quit
  <2> QED BY <2>1, <2>2 DEF StopDaemon
<1>3. CASE Activate(s) \/ ChildClosed(s)
  BY <1>3 DEF Activate, ChildClosed
<1> QED BY <1>1, <1>2, <1>3 DEF Click

\* For any number of shells and processes, on a Mac and elsewhere, a shell
\* that quits has told its daemon, in whatever order it was launched, closed,
\* activated and quit.  That the daemon then ends is left to fairness.
THEOREM OrphansTold == Spec => []OrphansAreTold
<1>1. TypeOK /\ HandleInv /\ [Next]_vars => HandleInv'
  <2> SUFFICES ASSUME TypeOK, HandleInv, [Next]_vars PROVE HandleInv'
    OBVIOUS
  <2>1. CASE UNCHANGED vars
    BY <2>1 DEF vars, shellVars, HandleInv, Running
  <2> QED BY <2>1, StepHandle, UseHandle, ClickHandle, NextSteps
<1>2. HandleInv => OrphansAreTold
  BY ConstantsAssumption DEF HandleInv, OrphansAreTold
<1> QED BY <1>1, <1>2, InitHandle, TypeCorrect, PTL DEF Spec

----------------------------------------------------------------------------
(* Starting alone.                                                         *)

\* A process that runs alone does not fail, whatever those before it left
\* behind, but for a key file that was emptied and never written.
LoneStartsAreSpared ==
    [][\A n \in Processes :
          Running = {n} /\ stage'[n] = "failed" => stage[n] = "started" /\ keyFile = Torn]_vars

\* What LoneStartServes needs beside the scheduler: no crash of an earlier
\* daemon leaves a lock, and no other file but a torn key ends a start.
THEOREM LoneStart == Spec => LoneStartsAreSpared
<1>1. Inv /\ [Next]_vars =>
        [\A n \in Processes : Running = {n} /\ stage'[n] = "failed"
            => stage[n] = "started" /\ keyFile = Torn]_vars
  <2> SUFFICES ASSUME Inv, [Next]_vars, NEW n \in Processes, Running = {n},
                      stage'[n] = "failed"
               PROVE  stage[n] = "started" /\ keyFile = Torn
    OBVIOUS
  <2>1. stage[n] # "failed" /\ stage[n] # "free"
    BY DEF Running, Ended
  <2>2. lock \in {n, Nobody}
    <3>1. \A m \in Processes : stage[m] \in Holding => m \in Running
      BY DEF Holding, Running, Ended
    <3> QED BY <3>1 DEF Inv, LockInv, TypeOK
  <2>3. ~OpenStoreFails(n)
    BY <2>2 DEF OpenStoreFails, Inv, LockInv, Holding
  <2>4. ASSUME NEW m \in Processes, Step(m) PROVE m = n
    BY <2>4 DEF Step, Identify, ComeUp, Close, ReadKey, ReadFileFails, FindTornKey,
       TruncateKey, WriteKey, OpenStore, OpenStoreFails, TruncatePort, WritePort,
       CloseServer, CloseStoreAndNode, Post, Die, Enter, Running, Ended
  <2>5. CASE Step(n)
    BY <2>1, <2>3, <2>5 DEF Step, Identify, ComeUp, Close, ReadKey, ReadFileFails, FindTornKey,
       TruncateKey, WriteKey, OpenStore, TruncatePort, WritePort,
       CloseServer, CloseStoreAndNode, Post, Die, Enter, Exit, Inv, TypeOK
  <2>6. CASE UNCHANGED vars \/ (\E m \in Processes : Use(m)) \/ (\E s \in Shells : Click(s))
    BY <2>1, <2>6, QuietSteps DEF Inv, TypeOK
  <2> QED BY <2>4, <2>5, <2>6, NextSteps
<1> QED BY <1>1, Invariance, PTL DEF Spec, LoneStartsAreSpared

----------------------------------------------------------------------------
(* The refinement.                                                         *)

Up == IF \E n \in Processes : stage[n] = "serving" THEN ports ELSE 0

LEMMA NobodyElse ==
    ASSUME Inv, NEW m \in Processes, NEW n \in Processes,
           stage[m] \in Holding, stage[n] \in Holding
    PROVE  m = n
BY DEF Inv, LockInv

\* Steps that change neither port file nor ports, nor who serves.
LEMMA SlotStutters ==
    ASSUME Inv, NEW n \in Processes, portFile' = portFile, ports' = ports,
           NEW to, to # "serving", stage[n] # "serving", stage' = [stage EXCEPT ![n] = to]
    PROVE  UNCHANGED Slot!vars
<1>1. \A m \in Processes : stage'[m] = "serving" <=> stage[m] = "serving"
  BY DEF Inv, TypeOK
<1> QED BY <1>1 DEF Slot!vars

LEMMA SlotEnds ==
    ASSUME Inv, NEW n \in Processes, portFile' \in {portFile, 0}, ports' = ports,
           NEW to, to # "serving", stage[n] = "serving", stage' = [stage EXCEPT ![n] = to]
    PROVE  Slot!End
<1>1. \A m \in Processes : stage'[m] # "serving"
  BY NobodyElse DEF Inv, TypeOK, Holding
<1>2. Up # 0 /\ Up' = 0
  BY <1>1 DEF Up, Inv, ServerInv, TypeOK
<1> QED BY <1>2 DEF Slot!End, Up

LEMMA StepRefines ==
    ASSUME Inv, NEW n \in Processes, Step(n)
    PROVE  [Slot!Next]_(Slot!vars)
<1>1. CASE ReadKey(n)
  BY <1>1, SlotStutters DEF ReadKey, Enter, portVars
<1>2. CASE ReadFileFails(n)
  BY <1>2, SlotStutters DEF ReadFileFails, Enter, portVars
<1>3. CASE TruncateKey(n)
  BY <1>3, SlotStutters DEF TruncateKey, Enter, portVars
<1>4. CASE WriteKey(n)
  BY <1>4, SlotStutters DEF WriteKey, Enter, portVars
<1>5. CASE OpenStore(n)
  BY <1>5, SlotStutters DEF OpenStore, Enter, portVars
<1>6. CASE Post(n)
  BY <1>6 DEF Post, portVars, Slot!vars
<1>7. CASE FindTornKey(n) \/ OpenStoreFails(n) \/ CloseStoreAndNode(n)
  BY <1>7, SlotStutters DEF FindTornKey, OpenStoreFails, CloseStoreAndNode, Exit
<1>8. CASE Die(n)
  <2>1. CASE stage[n] = "serving"
    BY <1>8, <2>1, SlotEnds DEF Die, Exit, Slot!Next
  <2>2. CASE stage[n] # "serving"
    BY <1>8, <2>2, SlotStutters DEF Die, Exit
  <2> QED BY <2>1, <2>2
<1>9. CASE CloseServer(n)
  BY <1>9, SlotEnds DEF CloseServer, Enter, Slot!Next
<1>10. CASE TruncatePort(n)
  <2>1. \A m \in Processes : stage[m] # "serving" /\ stage'[m] # "serving"
    BY <1>10, NobodyElse DEF TruncatePort, Enter, Holding, Inv, TypeOK
  <2>2. Up = 0 /\ Up' = 0 /\ ports' = ports /\ portFile' = 0
    BY <1>10, <2>1 DEF Up, TruncatePort
  <2> QED BY <2>2 DEF Slot!Next, Slot!Vanish, Slot!vars, Up
<1>11. CASE WritePort(n)
  <2>1. \A m \in Processes : stage[m] # "serving"
    BY <1>11, NobodyElse DEF WritePort, Enter, Holding
  <2>2. stage'[n] = "serving"
    BY <1>11 DEF WritePort, Enter, Inv, TypeOK
  <2>3. Up = 0 /\ Up' = ports + 1 /\ ports' = ports + 1 /\ portFile' = ports + 1
    BY <1>11, <2>1, <2>2 DEF Up, WritePort
  <2> QED BY <2>3 DEF Slot!Next, Slot!Begin, Up
<1> QED BY <1>1, <1>2, <1>3, <1>4, <1>5, <1>6, <1>7, <1>8, <1>9, <1>10, <1>11
        DEF Step, Identify, ComeUp, Close

\* From outside the directory is one slot: daemons come up one at a time, on
\* ports of their own that the file names, and the file is emptied only while
\* none is up.  UiClient takes its daemons from this specification.
THEOREM ImplementsSlot == Spec => ImplementsDaemonSlot
<1>1. Init => Slot!Init
  BY DEF Init, Slot!Init
<1>2. Inv /\ [Next]_vars => [Slot!Next]_(Slot!vars)
  <2> SUFFICES ASSUME Inv, [Next]_vars PROVE [Slot!Next]_(Slot!vars)
    OBVIOUS
  <2>1. CASE UNCHANGED vars \/ (\E n \in Processes : Use(n)) \/ (\E s \in Shells : Click(s))
    <3>1. portFile' = portFile /\ ports' = ports
      BY <2>1, QuietSteps DEF Quiet, portVars, Inv
    <3>2. CASE stage' = stage
      BY <3>1, <3>2 DEF Slot!vars
    <3> QED BY <2>1, <3>1, <3>2, QuietSteps, SlotStutters DEF Inv
  <2> QED BY <2>1, StepRefines, NextSteps
<1> QED BY <1>1, <1>2, Invariance, PTL DEF Spec, ImplementsDaemonSlot, Slot!Spec

SlotFacts == INSTANCE DaemonSlotProofs WITH
    daemon <- IF \E n \in Processes : stage[n] = "serving" THEN ports ELSE 0,
    starts <- ports

\* The port file is absent or names the last daemon that listened.
NoOldPort == portFile \in {0, ports}

\* However daemons crash and leave their file behind, who reads it after the
\* next has listened never gets a port from before: DaemonSlot has it so.
THEOREM NewestPort == Spec => []NoOldPort
<1>1. ImplementsDaemonSlot => SlotFacts!Spec
  BY DEF ImplementsDaemonSlot, Slot!Spec, SlotFacts!Spec, Slot!Init, SlotFacts!Init,
         Slot!vars, SlotFacts!vars, Slot!Next, SlotFacts!Next, Slot!Begin,
         SlotFacts!Begin, Slot!Vanish, SlotFacts!Vanish, Slot!End, SlotFacts!End
<1>2. SlotFacts!FileIsTrue => NoOldPort
  BY DEF SlotFacts!FileIsTrue, NoOldPort
<1> QED BY <1>1, <1>2, ImplementsSlot, SlotFacts!TrueFile, PTL
====
