---- MODULE PeerBookProofs ----
(***************************************************************************)
(* Proofs about PeerBook: type correctness, that addresses are the user's, *)
(* that PeerBook implements PeerDirectory, and that names are real and     *)
(* settle, for all constants.                                              *)
(***************************************************************************)
EXTENDS PeerBook, TLAPS

\* What q's fetch t has heard and read.  A name it carries is one its peer
\* has had; a transaction that may still commit has read the present record.
GoodFetch(q, t) ==
    /\ t.stage # "idle" => t.peer \in Peers
    /\ t.stage \in {"decoded", "merging"} => t.name <= profile[t.peer]
    /\ t.stage = "merging" /\ t.fresh => t.seen = book[q][t.peer]

Inv == \A q \in Peers, f \in Fetchers : GoodFetch(q, fetch[q][f])

----------------------------------------------------------------------------
(* Records, names and fetches.                                             *)

LEMMA NameTypes == 0 \in Names /\ \A n \in Names : n \in Nat /\ n <= MaxEdits
BY ConstantsAssumption DEF Names

LEMMA FetchType ==
    ASSUME NEW stage \in {"idle", "asking", "decoded", "merging"},
           NEW p \in Peers \cup {NoPeer}, NEW n \in Names,
           NEW seen \in Records \cup {NoRecord}, NEW fresh \in BOOLEAN
    PROVE  /\ Fetch(stage, p, n, seen, fresh) \in Fetches
           /\ Fetch(stage, p, n, seen, fresh).stage = stage
           /\ Fetch(stage, p, n, seen, fresh).peer = p
           /\ Fetch(stage, p, n, seen, fresh).name = n
           /\ Fetch(stage, p, n, seen, fresh).seen = seen
           /\ Fetch(stage, p, n, seen, fresh).fresh = fresh
BY DEF Fetch, Fetches

LEMMA IdleType == Idle \in Fetches /\ Idle.stage = "idle"
BY NameTypes DEF Idle, Fetch, Fetches

LEMMA OutdatedType ==
    ASSUME NEW t \in Fetches, NEW p
    PROVE  /\ Outdated(t, p) \in Fetches
           /\ Outdated(t, p).stage = t.stage
           /\ Outdated(t, p).peer = t.peer
           /\ Outdated(t, p).name = t.name
           /\ Outdated(t, p).seen = t.seen
           /\ t.stage = "merging" /\ t.peer = p => Outdated(t, p).fresh = FALSE
           /\ t.stage # "merging" \/ t.peer # p => Outdated(t, p) = t
<1>1. CASE t.stage = "merging" /\ t.peer = p
  <2>1. Outdated(t, p) = Fetch(t.stage, t.peer, t.name, t.seen, FALSE)
    BY <1>1 DEF Outdated
  <2> QED BY <1>1, <2>1 DEF Fetch, Fetches
<1>2. CASE ~(t.stage = "merging" /\ t.peer = p)
  BY <1>2 DEF Outdated
<1> QED BY <1>1, <1>2

LEMMA MergeType ==
    ASSUME NEW seen \in Records \cup {NoRecord}, NEW n \in Names
    PROVE  /\ Merge(seen, n) \in Records
           /\ HasAddress(Merge(seen, n)) = HasAddress(seen)
<1>1. HasAddress(seen) \in BOOLEAN
  BY DEF HasAddress, Records
<1>2. Merge(seen, n) \in Records /\ Merge(seen, n).addr = HasAddress(seen)
  BY <1>1 DEF Merge, Records
<1>3. \A r \in Records : r # NoRecord
  BY ConstantsAssumption, NameTypes DEF Records
<1> QED BY <1>1, <1>2, <1>3 DEF HasAddress

\* Moving one fetch of q from one stage to the next.
LEMMA SetFetchGood ==
    ASSUME TypeOK, Inv, NEW q \in Peers, NEW f \in Fetchers, NEW t \in Fetches,
           SetFetch(q, f, t), UNCHANGED <<profile, book>>, GoodFetch(q, t)
    PROVE  fetch' \in [Peers -> [Fetchers -> Fetches]] /\ Inv'
<1>1. fetch' \in [Peers -> [Fetchers -> Fetches]]
  BY DEF SetFetch, TypeOK
<1>2. ASSUME NEW r \in Peers, NEW g \in Fetchers
      PROVE  GoodFetch(r, fetch[r][g])'
  <2>1. fetch'[r][g] = IF r = q /\ g = f THEN t ELSE fetch[r][g]
    BY DEF SetFetch, TypeOK
  <2> QED BY <2>1 DEF GoodFetch, Inv
<1> QED BY <1>1, <1>2 DEF Inv

\* A write of one record that ends or outdates the transactions on it.
LEMMA WriteGood ==
    ASSUME TypeOK, Inv, NEW q \in Peers, NEW p \in Peers, NEW r \in Records,
           book' = [book EXCEPT ![q][p] = r],
           fetch' \in [Peers -> [Fetchers -> Fetches]],
           \A s \in Peers : s # q => fetch'[s] = fetch[s],
           \A g \in Fetchers : \/ fetch'[q][g] = Idle
                               \/ fetch'[q][g] = Outdated(fetch[q][g], p),
           UNCHANGED profile
    PROVE  book' \in [Peers -> [Peers -> Records \cup {NoRecord}]] /\ Inv'
<1>1. book' \in [Peers -> [Peers -> Records \cup {NoRecord}]]
  BY DEF TypeOK
<1>2. /\ \A s \in Peers : s # q => book'[s] = book[s]
      /\ \A x \in Peers : x # p => book'[q][x] = book[q][x]
  BY DEF TypeOK
<1>3. ASSUME NEW s \in Peers, NEW g \in Fetchers
      PROVE  GoodFetch(s, fetch[s][g])'
  <2>1. GoodFetch(s, fetch[s][g])
    BY DEF Inv
  <2>2. CASE s # q
    BY <1>2, <2>1, <2>2 DEF GoodFetch
  <2>3. CASE s = q /\ fetch'[q][g] = Idle
    BY <2>3, IdleType DEF GoodFetch
  <2>4. CASE s = q /\ fetch'[q][g] = Outdated(fetch[q][g], p)
    <3> DEFINE t == fetch[q][g]
               u == Outdated(fetch[q][g], p)
    <3>1. t \in Fetches
      BY DEF TypeOK
    <3>2. /\ u.stage = t.stage /\ u.peer = t.peer /\ u.name = t.name
          /\ u.seen = t.seen
          /\ t.stage = "merging" /\ t.peer = p => u.fresh = FALSE
          /\ t.stage # "merging" \/ t.peer # p => u = t
      BY <3>1, OutdatedType
    <3>3. GoodFetch(q, t)
      BY <2>1, <2>4
    <3> HIDE DEF t, u
    <3>4. /\ u.stage # "idle" => u.peer \in Peers
          /\ u.stage \in {"decoded", "merging"} => u.name <= profile'[u.peer]
          /\ u.stage = "merging" /\ u.fresh => u.seen = book'[q][u.peer]
      BY <1>2, <3>2, <3>3 DEF GoodFetch
    <3> QED BY <2>4, <3>4 DEF u, GoodFetch
  <2> QED BY <2>2, <2>3, <2>4
<1> QED BY <1>1, <1>3 DEF Inv

----------------------------------------------------------------------------
(* The invariant.                                                          *)

LEMMA InitInv == Init => TypeOK /\ Inv
<1> SUFFICES ASSUME Init PROVE TypeOK /\ Inv
  OBVIOUS
<1>1. TypeOK
  BY IdleType, NameTypes DEF Init, TypeOK
<1>2. Inv
  BY IdleType DEF Init, Inv, GoodFetch
<1> QED BY <1>1, <1>2

\* A blind write by connect or approve.
LEMMA BlindWrite ==
    ASSUME TypeOK, Inv, NEW q \in Peers, NEW p \in Peers, NEW addr \in BOOLEAN,
           WriteBlindly(q, p, addr), UNCHANGED profile
    PROVE  /\ book' \in [Peers -> [Peers -> Records \cup {NoRecord}]]
           /\ fetch' \in [Peers -> [Fetchers -> Fetches]]
           /\ presses' \in Nat
           /\ Inv'
<1> DEFINE r == [addr |-> addr, name |-> 0]
<1>1. r \in Records
  BY NameTypes DEF Records
<1>2. book' = [book EXCEPT ![q][p] = r]
  BY DEF WriteBlindly
<1>3. /\ fetch' \in [Peers -> [Fetchers -> Fetches]]
      /\ \A s \in Peers : s # q => fetch'[s] = fetch[s]
      /\ \A g \in Fetchers : fetch'[q][g] = Outdated(fetch[q][g], p)
  BY OutdatedType DEF WriteBlindly, TypeOK
<1>4. presses' \in Nat
  BY DEF WriteBlindly, TypeOK
<1> HIDE DEF r
<1> QED BY <1>1, <1>2, <1>3, <1>4, WriteGood

LEMMA CommitWrites ==
    ASSUME TypeOK, Inv, NEW q \in Peers, NEW f \in Fetchers, CommitMerge(q, f)
    PROVE  /\ book' \in [Peers -> [Peers -> Records \cup {NoRecord}]]
           /\ fetch' \in [Peers -> [Fetchers -> Fetches]]
           /\ Inv'
<1> DEFINE t == fetch[q][f]
<1>1. t \in Fetches /\ t.seen \in Records \cup {NoRecord} /\ t.name \in Names
  BY DEF TypeOK, Fetches
<1>2. t.peer \in Peers
  BY DEF CommitMerge, Inv, GoodFetch
<1>3. Merge(t.seen, t.name) \in Records
  BY <1>1, MergeType
<1>4. /\ fetch' \in [Peers -> [Fetchers -> Fetches]]
      /\ \A s \in Peers : s # q => fetch'[s] = fetch[s]
      /\ \A g \in Fetchers : \/ fetch'[q][g] = Idle
                              \/ fetch'[q][g] = Outdated(fetch[q][g], t.peer)
  BY IdleType, OutdatedType DEF CommitMerge, TypeOK
<1>5. book' = [book EXCEPT ![q][t.peer] = Merge(t.seen, t.name)] /\ UNCHANGED profile
  BY DEF CommitMerge
<1> HIDE DEF t
<1> QED BY <1>2, <1>3, <1>4, <1>5, WriteGood

\* Every step keeps the types and the invariant.
LEMMA NextInv == TypeOK /\ Inv /\ [Next]_vars => TypeOK' /\ Inv'
<1> SUFFICES ASSUME TypeOK, Inv, [Next]_vars PROVE TypeOK' /\ Inv'
  OBVIOUS
<1>1. CASE \E p \in Peers : HandleProfile(p)
  <2>1. PICK p \in Peers : HandleProfile(p)
    BY <1>1
  <2>2. profile' \in [Peers -> Names] /\ \A x \in Peers : profile[x] <= profile'[x]
    BY <2>1, ConstantsAssumption DEF HandleProfile, TypeOK, Names
  <2>3. TypeOK'
    BY <2>1, <2>2 DEF HandleProfile, TypeOK
  <2>4. ASSUME NEW q \in Peers, NEW f \in Fetchers
        PROVE  GoodFetch(q, fetch[q][f])'
    <3>1. GoodFetch(q, fetch[q][f]) /\ fetch' = fetch /\ book' = book
      BY <2>1 DEF HandleProfile, Inv
    <3>2. fetch[q][f].name \in Nat /\ \A x \in Peers : profile[x] \in Nat /\ profile'[x] \in Nat
      BY <2>2, NameTypes DEF TypeOK, Fetches
    <3> QED BY <2>2, <3>1, <3>2 DEF GoodFetch
  <2> QED BY <2>3, <2>4 DEF Inv
<1>2. CASE \E p \in Peers : Halt(p)
  <2>1. PICK p \in Peers : Halt(p)
    BY <1>2
  <2>2. TypeOK'
    BY <2>1, IdleType DEF Halt, TypeOK
  <2>3. Inv'
    BY <2>1, IdleType DEF Halt, TypeOK, Inv, GoodFetch
  <2> QED BY <2>2, <2>3
<1>3. CASE \E p \in Peers : Start(p)
  BY <1>3 DEF Start, TypeOK, Inv, GoodFetch
<1>4. CASE \E q, p \in Peers : HandleConnect(q, p)
  <2>1. PICK q, p \in Peers : HandleConnect(q, p)
    BY <1>4
  <2>2. WriteBlindly(q, p, TRUE) /\ UNCHANGED profile
    BY <2>1 DEF HandleConnect
  <2> QED BY <2>1, <2>2, BlindWrite DEF HandleConnect, TypeOK
<1>5. CASE \E q, p \in Peers : HandleFriendApprove(q, p)
  <2>1. PICK q, p \in Peers : HandleFriendApprove(q, p)
    BY <1>5
  <2>2. WriteBlindly(q, p, FALSE) /\ UNCHANGED profile
    BY <2>1 DEF HandleFriendApprove
  <2> QED BY <2>1, <2>2, BlindWrite DEF HandleFriendApprove, TypeOK
<1>6. CASE \E q, p \in Peers : LinkUp(q, p)
  <2>1. PICK q, p \in Peers : LinkUp(q, p)
    BY <1>6
  <2>2. {p, q} \in SUBSET Peers
    OBVIOUS
  <2> QED BY <2>1, <2>2 DEF LinkUp, TypeOK, Inv, GoodFetch
<1>7. CASE \E l \in conns : LinkDown(l)
  BY <1>7 DEF LinkDown, TypeOK, Inv, GoodFetch
<1>8. CASE \E q, p \in Peers, f \in Fetchers : BeginFetch(q, f, p)
  <2>1. PICK q \in Peers, p \in Peers, f \in Fetchers : BeginFetch(q, f, p)
    BY <1>8
  <2> DEFINE t == Fetch("asking", p, 0, NoRecord, FALSE)
  <2>2. t \in Fetches /\ t.stage = "asking" /\ t.peer = p
    BY NameTypes DEF Fetch, Fetches
  <2>3. GoodFetch(q, t)
    BY <2>2 DEF GoodFetch
  <2>4. SetFetch(q, f, t) /\ UNCHANGED <<running, conns, profile, book, presses>>
    BY <2>1 DEF BeginFetch
  <2> HIDE DEF t
  <2> QED BY <2>2, <2>3, <2>4, SetFetchGood DEF TypeOK
<1>9. CASE \E q \in Peers, f \in Fetchers : HandleProfileStream(q, f)
  <2>1. PICK q \in Peers, f \in Fetchers : HandleProfileStream(q, f)
    BY <1>9
  <2> DEFINE p == fetch[q][f].peer
             t == Fetch("decoded", p, ServedName(p), NoRecord, FALSE)
  <2>2. p \in Peers
    BY <2>1 DEF HandleProfileStream, Inv, GoodFetch
  <2>3. ServedName(p) = profile[p] /\ profile[p] \in Names
    BY <2>2 DEF ServedName, TypeOK
  <2>4. t \in Fetches /\ t.stage = "decoded" /\ t.peer = p /\ t.name = profile[p]
    BY <2>2, <2>3 DEF Fetch, Fetches
  <2>5. SetFetch(q, f, t) /\ UNCHANGED <<running, profile, book, presses>>
        /\ conns' = conns \cup {{p, q}}
    BY <2>1 DEF HandleProfileStream
  <2> HIDE DEF t, p
  <2>6. GoodFetch(q, t)
    BY <2>2, <2>3, <2>4, NameTypes DEF GoodFetch
  <2>7. fetch' \in [Peers -> [Fetchers -> Fetches]] /\ Inv'
    BY <2>4, <2>5, <2>6, SetFetchGood
  <2>8. {p, q} \in SUBSET Peers
    BY <2>2
  <2> QED BY <2>5, <2>7, <2>8 DEF TypeOK
<1>10. CASE \E q \in Peers, f \in Fetchers : BeginMerge(q, f)
  <2>1. PICK q \in Peers, f \in Fetchers : BeginMerge(q, f)
    BY <1>10
  <2> DEFINE o == fetch[q][f]
             t == Fetch("merging", o.peer, o.name, book[q][o.peer], TRUE)
  <2>2. o \in Fetches /\ o.peer \in Peers /\ o.name \in Names /\ o.name <= profile[o.peer]
    BY <2>1 DEF BeginMerge, Inv, GoodFetch, TypeOK, Fetches
  <2>3. book[q][o.peer] \in Records \cup {NoRecord}
    BY <2>2 DEF TypeOK
  <2>4. /\ t \in Fetches /\ t.stage = "merging" /\ t.peer = o.peer
        /\ t.name = o.name /\ t.seen = book[q][o.peer]
    BY <2>2, <2>3 DEF Fetch, Fetches
  <2>5. GoodFetch(q, t)
    BY <2>2, <2>4 DEF GoodFetch
  <2>6. SetFetch(q, f, t) /\ UNCHANGED <<running, conns, profile, book, presses>>
    BY <2>1 DEF BeginMerge
  <2> HIDE DEF t
  <2> QED BY <2>4, <2>5, <2>6, SetFetchGood DEF TypeOK
<1>11. CASE \E q \in Peers, f \in Fetchers : CommitMerge(q, f)
  <2>1. PICK q \in Peers, f \in Fetchers : CommitMerge(q, f)
    BY <1>11
  <2>2. UNCHANGED <<running, conns, profile, presses>>
    BY <2>1 DEF CommitMerge
  <2> QED BY <2>1, <2>2, CommitWrites DEF TypeOK
<1>12. CASE \E q \in Peers, f \in Fetchers : FetchFails(q, f)
  <2>1. PICK q \in Peers, f \in Fetchers : FetchFails(q, f)
    BY <1>12
  <2>2. GoodFetch(q, Idle)
    BY IdleType DEF GoodFetch, Idle, Fetch
  <2> QED BY <2>1, <2>2, IdleType, SetFetchGood DEF FetchFails, TypeOK
<1>13. CASE UNCHANGED vars
  BY <1>13 DEF vars, TypeOK, Inv, GoodFetch
<1> QED BY <1>1, <1>2, <1>3, <1>4, <1>5, <1>6, <1>7, <1>8, <1>9, <1>10, <1>11,
           <1>12, <1>13 DEF Next, UserStep, FetchStep

\* The invariant holds in every state: merges that may commit are current.
THEOREM Invariance == Spec => [](TypeOK /\ Inv)
<1>1. Init => TypeOK /\ Inv
  BY InitInv
<1>2. (TypeOK /\ Inv) /\ [Next]_vars => (TypeOK /\ Inv)'
  BY NextInv
<1> QED BY <1>1, <1>2, PTL DEF Spec

\* Records, fetches and links keep the shape the code gives them.
THEOREM TypeCorrect == Spec => []TypeOK
BY Invariance, PTL

----------------------------------------------------------------------------
(* Addresses, and the refinement.                                          *)

\* A merge that may commit writes the address that is there.
LEMMA CommitKeepsAddress ==
    ASSUME TypeOK, Inv, NEW q \in Peers, NEW f \in Fetchers, CommitMerge(q, f)
    PROVE  LET t == fetch[q][f]
           IN  /\ t.peer \in Peers
               /\ t.name \in 0..profile[t.peer]
               /\ book' = [book EXCEPT ![q][t.peer] = Merge(book[q][t.peer], t.name)]
               /\ HasAddress(Merge(book[q][t.peer], t.name)) = HasAddress(book[q][t.peer])
<1> DEFINE t == fetch[q][f]
<1>1. t \in Fetches /\ t.name \in Names
  BY DEF TypeOK, Fetches
<1>2. t.peer \in Peers /\ t.name <= profile[t.peer]
  BY DEF CommitMerge, Inv, GoodFetch
<1>3. t.seen = book[q][t.peer]
  BY DEF CommitMerge, MayCommit, Inv, GoodFetch
<1>4. book[q][t.peer] \in Records \cup {NoRecord} /\ profile[t.peer] \in Nat
  BY <1>2, NameTypes DEF TypeOK
<1>5. t.name \in 0..profile[t.peer]
  BY <1>1, <1>2, <1>4, NameTypes
<1>6. book' = [book EXCEPT ![q][t.peer] = Merge(t.seen, t.name)]
  BY DEF CommitMerge
<1> HIDE DEF t
<1>7. HasAddress(Merge(book[q][t.peer], t.name)) = HasAddress(book[q][t.peer])
  BY <1>1, <1>4, MergeType
<1> QED BY <1>2, <1>3, <1>5, <1>6, <1>7 DEF t

\* Only connect, approve and commit write a record.
LEMMA WhoWrites ==
    ASSUME [Next]_vars
    PROVE  \/ UNCHANGED book
           \/ \E q, p \in Peers : UserStep(q, p)
           \/ \E q \in Peers, f \in Fetchers : CommitMerge(q, f)
BY DEF Next, vars, FetchStep, HandleProfile, Halt, Start, LinkUp, LinkDown,
       BeginFetch, HandleProfileStream, BeginMerge, FetchFails

LEMMA AddressStep ==
    ASSUME TypeOK, Inv, [Next]_vars, NEW q \in Peers, NEW p \in Peers,
           HasAddress(book'[q][p]) # HasAddress(book[q][p])
    PROVE  UserStep(q, p)
<1>1. CASE UNCHANGED book
  BY <1>1
<1>2. CASE \E r, x \in Peers : UserStep(r, x)
  <2>1. PICK r, x \in Peers : UserStep(r, x)
    BY <1>2
  <2>2. \/ book' = [book EXCEPT ![r][x] = [addr |-> TRUE, name |-> 0]]
        \/ book' = [book EXCEPT ![r][x] = [addr |-> FALSE, name |-> 0]]
    BY <2>1 DEF UserStep, HandleConnect, HandleFriendApprove, WriteBlindly
  <2>3. r # q \/ x # p => book'[q][p] = book[q][p]
    BY <2>2 DEF TypeOK
  <2> QED BY <2>1, <2>3
<1>3. CASE \E r \in Peers, f \in Fetchers : CommitMerge(r, f)
  <2>1. PICK r \in Peers, f \in Fetchers : CommitMerge(r, f)
    BY <1>3
  <2> DEFINE x == fetch[r][f].peer
             m == Merge(book[r][x], fetch[r][f].name)
  <2>2. x \in Peers /\ book' = [book EXCEPT ![r][x] = m]
        /\ HasAddress(m) = HasAddress(book[r][x])
    BY <2>1, CommitKeepsAddress
  <2> HIDE DEF x, m
  <2>3. book'[q][p] = IF r = q /\ x = p THEN m ELSE book[q][p]
    BY <2>2 DEF TypeOK
  <2> QED BY <2>2, <2>3
<1> QED BY <1>1, <1>2, <1>3, WhoWrites

\* Addresses appear and go only by the user's connect and approve, however
\* merges overlap with them.
THEOREM AddressSafety == Spec => AddressesAreTheUsers
<1>1. TypeOK /\ Inv /\ [Next]_vars =>
        [\A q, p \in Peers :
            HasAddress(book'[q][p]) # HasAddress(book[q][p]) =>
                UserStep(q, p)]_vars
  BY AddressStep
<1> QED BY <1>1, Invariance, PTL DEF Spec, AddressesAreTheUsers

LEMMA RefinementStep ==
    ASSUME TypeOK, Inv, [Next]_vars
    PROVE  [PD!Next]_(PD!pdVars)
<1> USE DEF PD!pdVars, PD!Next
<1>1. CASE \E q, p \in Peers : UserStep(q, p)
  <2>1. PICK q, p \in Peers : UserStep(q, p)
    BY <1>1
  <2>2. PD!Enter(q, p) \/ PD!Approve(q, p)
    BY <2>1 DEF UserStep, HandleConnect, HandleFriendApprove, WriteBlindly,
                PD!Enter, PD!Approve, PD!Note
  <2> QED BY <2>2
<1>2. CASE \E q \in Peers, f \in Fetchers : CommitMerge(q, f)
  <2>1. PICK q \in Peers, f \in Fetchers : CommitMerge(q, f)
    BY <1>2
  <2> DEFINE x == fetch[q][f].peer
             n == fetch[q][f].name
  <2>2. /\ x \in Peers /\ n \in 0..profile[x]
        /\ book' = [book EXCEPT ![q][x] = Merge(book[q][x], n)]
        /\ UNCHANGED profile
    BY <2>1, CommitKeepsAddress DEF CommitMerge
  <2> HIDE DEF x, n
  <2>3. PD!Note(q, x, book[q][x] # NoRecord /\ book[q][x].addr, n)
    BY <2>2 DEF PD!Note, Merge, HasAddress
  <2>4. PD!Learn(q, x)
    BY <2>2, <2>3 DEF PD!Learn
  <2> QED BY <2>2, <2>4
<1>3. CASE \E p \in Peers : HandleProfile(p)
  BY <1>3 DEF HandleProfile, PD!Rename
<1>4. CASE UNCHANGED <<book, profile>>
  BY <1>4
<1>5. \/ \E q, p \in Peers : UserStep(q, p)
      \/ \E q \in Peers, f \in Fetchers : CommitMerge(q, f)
      \/ \E p \in Peers : HandleProfile(p)
      \/ UNCHANGED <<book, profile>>
  BY DEF Next, vars, FetchStep, Halt, Start, LinkUp, LinkDown,
         BeginFetch, HandleProfileStream, BeginMerge, FetchFails
<1> QED BY <1>1, <1>2, <1>3, <1>4, <1>5

\* A fetch, its steps and whatever comes between them, is one merge that runs
\* alone.
THEOREM Refinement == Spec => ImplementsPeerDirectory
<1>1. Init => PD!Init
  BY DEF Init, PD!Init
<1>2. TypeOK /\ Inv /\ [Next]_vars => [PD!Next]_(PD!pdVars)
  BY RefinementStep
<1> QED BY <1>1, <1>2, Invariance, PTL DEF Spec, ImplementsPeerDirectory, PD!Spec

----------------------------------------------------------------------------
(* Names that are real, carried over from PeerDirectory.                   *)

\* A name in a book is none, or one its peer has had: never a later one.
NamesAreReal ==
    \A q, p \in Peers : book[q][p] # NoRecord => book[q][p].name \in 0..profile[p]

NamesCount == profile \in [Peers -> Nat]

LEMMA NoteReal ==
    ASSUME NamesAreReal, NEW q \in Peers, NEW p \in Peers, NEW addr,
           NEW name \in 0..profile[p], PD!Note(q, p, addr, name)
    PROVE  NamesAreReal'
<1>1. profile' = profile
  BY DEF PD!Note
<1>2. ASSUME NEW r \in Peers, NEW x \in Peers
      PROVE  \/ book'[r][x] = book[r][x]
             \/ x = p /\ book'[r][x] = [addr |-> addr, name |-> name]
  <2>1. CASE r \in DOMAIN book /\ x \in DOMAIN book[r]
    BY <2>1 DEF PD!Note
  <2>2. CASE r \notin DOMAIN book \/ x \notin DOMAIN book[r]
    BY <2>2 DEF PD!Note
  <2> QED BY <2>1, <2>2
<1> QED BY <1>1, <1>2 DEF NamesAreReal

LEMMA DirectoryReal == PD!Spec => [](NamesCount /\ NamesAreReal)
<1>1. PD!Init => NamesCount /\ NamesAreReal
  BY DEF PD!Init, NamesCount, NamesAreReal
<1>2. NamesCount /\ NamesAreReal /\ [PD!Next]_(PD!pdVars) => (NamesCount /\ NamesAreReal)'
  <2> SUFFICES ASSUME NamesCount, NamesAreReal, [PD!Next]_(PD!pdVars)
               PROVE  NamesCount' /\ NamesAreReal'
    OBVIOUS
  <2>1. CASE UNCHANGED PD!pdVars
    BY <2>1 DEF PD!pdVars, NamesCount, NamesAreReal
  <2>2. ASSUME NEW p \in Peers, PD!Rename(p)
        PROVE  NamesCount' /\ NamesAreReal'
    <3>1. /\ book' = book /\ profile' \in [Peers -> Nat]
          /\ \A x \in Peers : profile[x] \in Nat /\ profile[x] <= profile'[x]
      BY <2>2 DEF PD!Rename, NamesCount
    <3>2. \A x \in Peers : 0..profile[x] \subseteq 0..profile'[x]
      BY <3>1
    <3> QED BY <3>1, <3>2 DEF NamesCount, NamesAreReal
  <2>3. ASSUME NEW q \in Peers, NEW p \in Peers,
               PD!Enter(q, p) \/ PD!Approve(q, p) \/ PD!Learn(q, p)
        PROVE  NamesCount' /\ NamesAreReal'
    <3>1. 0 \in 0..profile[p]
      BY DEF NamesCount
    <3>2. \E addr : \E name \in 0..profile[p] : PD!Note(q, p, addr, name)
      BY <2>3, <3>1 DEF PD!Enter, PD!Approve, PD!Learn
    <3> QED BY <3>2, NoteReal DEF PD!Note, NamesCount
  <2> QED BY <2>1, <2>2, <2>3 DEF PD!Next
<1> QED BY <1>1, <1>2, PTL DEF PD!Spec

\* Whatever fetches, renamings and blind writes overlap, a book never holds a
\* name its peer has not had.  It is PeerDirectory that is reasoned about.
THEOREM RealNames == Spec => []NamesAreReal
BY Refinement, DirectoryReal, PTL DEF ImplementsPeerDirectory

----------------------------------------------------------------------------
(* Names that settle.                                                      *)

\* q shows p's present name.
Latest(q, p) == book[q][p] # NoRecord /\ book[q][p].name = profile[p]

\* No answer of p that q has still to merge carries an earlier name.
Current(q, p) ==
    \A f \in Fetchers :
        fetch[q][f].stage \in {"decoded", "merging"} /\ fetch[q][f].peer = p =>
            fetch[q][f].name = profile[p]

\* Once the answers of before p's last change are gone, and until the next
\* one, all answers are current; each merge that commits brings p's present
\* name; and only q's user makes q forget it.  What is left of ProfileSettles
\* is that merges commit at all.
NamesSettle ==
    [][\A q, p \in Peers :
          Current(q, p) /\ profile'[p] = profile[p] =>
              /\ Current(q, p)'
              /\ Latest(q, p) => Latest(q, p)' \/ UserStep(q, p)
              /\ \A f \in Fetchers :
                    CommitMerge(q, f) /\ fetch[q][f].peer = p => Latest(q, p)']_vars

\* What a step does to one fetch.
LEMMA FetchMoves ==
    ASSUME TypeOK, Inv, [Next]_vars, NEW q \in Peers, NEW f \in Fetchers,
           fetch'[q][f].stage \in {"decoded", "merging"}
    PROVE  \/ /\ fetch[q][f].stage \in {"decoded", "merging"}
              /\ fetch'[q][f].peer = fetch[q][f].peer
              /\ fetch'[q][f].name = fetch[q][f].name
           \/ fetch'[q][f].name = profile[fetch'[q][f].peer]
<1>0. fetch[q][f] \in Fetches /\ \A r \in Peers, g \in Fetchers : fetch[r][g] \in Fetches
  BY DEF TypeOK
<1>1. CASE fetch' = fetch
  BY <1>1
<1>2. ASSUME NEW r \in Peers, NEW p \in Peers, UserStep(r, p)
      PROVE  fetch'[q][f] = IF r = q THEN Outdated(fetch[q][f], p) ELSE fetch[q][f]
  BY <1>2 DEF UserStep, HandleConnect, HandleFriendApprove, WriteBlindly, TypeOK
<1>3. ASSUME NEW r \in Peers, NEW g \in Fetchers, CommitMerge(r, g)
      PROVE  \/ fetch'[q][f] = fetch[q][f]
             \/ fetch'[q][f] = Idle
             \/ fetch'[q][f] = Outdated(fetch[q][f], fetch[r][g].peer)
  BY <1>3 DEF CommitMerge, TypeOK
<1>4. ASSUME NEW p \in Peers, Halt(p)
      PROVE  fetch'[q][f] = fetch[q][f] \/ fetch'[q][f] = Idle
  BY <1>4 DEF Halt, TypeOK
<1>5. ASSUME NEW r \in Peers, NEW p \in Peers, NEW g \in Fetchers, BeginFetch(r, g, p)
      PROVE  \/ fetch'[q][f] = fetch[q][f]
             \/ fetch'[q][f].stage = "asking"
  BY <1>5 DEF BeginFetch, SetFetch, Fetch, TypeOK
<1>6. ASSUME NEW r \in Peers, NEW g \in Fetchers, HandleProfileStream(r, g)
      PROVE  \/ fetch'[q][f] = fetch[q][f]
             \/ fetch'[q][f].name = profile[fetch'[q][f].peer]
  BY <1>6 DEF HandleProfileStream, ServedName, SetFetch, Fetch, TypeOK
<1>7. ASSUME NEW r \in Peers, NEW g \in Fetchers, BeginMerge(r, g)
      PROVE  \/ fetch'[q][f] = fetch[q][f]
             \/ /\ fetch[q][f].stage = "decoded"
                /\ fetch'[q][f].peer = fetch[q][f].peer
                /\ fetch'[q][f].name = fetch[q][f].name
  BY <1>7 DEF BeginMerge, SetFetch, Fetch, TypeOK
<1>8. ASSUME NEW r \in Peers, NEW g \in Fetchers, FetchFails(r, g)
      PROVE  fetch'[q][f] = fetch[q][f] \/ fetch'[q][f] = Idle
  BY <1>8 DEF FetchFails, SetFetch, TypeOK
<1>9. \/ fetch' = fetch
      \/ \E r, p \in Peers : UserStep(r, p)
      \/ \E r \in Peers, g \in Fetchers : FetchStep(r, g)
      \/ \E p \in Peers : Halt(p)
      \/ \E r, p \in Peers, g \in Fetchers : BeginFetch(r, g, p)
  BY DEF Next, vars, HandleProfile, Start, LinkUp, LinkDown
<1>10. \A p : /\ Outdated(fetch[q][f], p).stage = fetch[q][f].stage
              /\ Outdated(fetch[q][f], p).peer = fetch[q][f].peer
              /\ Outdated(fetch[q][f], p).name = fetch[q][f].name
  BY <1>0, OutdatedType
<1> QED BY <1>1, <1>2, <1>3, <1>4, <1>5, <1>6, <1>7, <1>8, <1>9, <1>10, IdleType DEF FetchStep

\* What a commit leaves in the book.
LEMMA CommitLatest ==
    ASSUME TypeOK, Inv, NEW q \in Peers, NEW f \in Fetchers, CommitMerge(q, f),
           NEW r \in Peers, NEW p \in Peers, Current(r, p), profile'[p] = profile[p]
    PROVE  IF r = q /\ fetch[q][f].peer = p THEN Latest(r, p)'
           ELSE book'[r][p] = book[r][p]
<1> DEFINE x == fetch[q][f].peer
           n == fetch[q][f].name
           m == Merge(book[q][x], n)
<1>1. x \in Peers /\ book' = [book EXCEPT ![q][x] = m]
  BY CommitKeepsAddress
<1>2. m.name = n
  BY DEF Merge
<1>3. n \in Names /\ book[q][x] \in Records \cup {NoRecord}
  BY <1>1 DEF TypeOK, Fetches
<1>4. m \in Records /\ \A y \in Records : y # NoRecord
  BY <1>3, MergeType, ConstantsAssumption, NameTypes DEF Records
<1>5. r = q /\ x = p => n = profile[p]
  BY DEF Current, CommitMerge
<1> HIDE DEF x, n, m
<1>6. book'[r][p] = IF r = q /\ x = p THEN m ELSE book[r][p]
  BY <1>1 DEF TypeOK
<1> QED BY <1>2, <1>4, <1>5, <1>6 DEF Latest, x

LEMMA SettleStep ==
    ASSUME TypeOK, Inv, [Next]_vars, NEW q \in Peers, NEW p \in Peers,
           Current(q, p), profile'[p] = profile[p]
    PROVE  /\ Current(q, p)'
           /\ Latest(q, p) => Latest(q, p)' \/ UserStep(q, p)
           /\ \A f \in Fetchers :
                 CommitMerge(q, f) /\ fetch[q][f].peer = p => Latest(q, p)'
<1>1. Current(q, p)'
  BY FetchMoves DEF Current
<1>2. Latest(q, p) => Latest(q, p)' \/ UserStep(q, p)
  <2>1. CASE UNCHANGED book
    BY <2>1 DEF Latest
  <2>2. ASSUME NEW r \in Peers, NEW x \in Peers, UserStep(r, x)
        PROVE  UserStep(q, p) \/ book'[q][p] = book[q][p]
    <3>1. \/ book' = [book EXCEPT ![r][x] = [addr |-> TRUE, name |-> 0]]
          \/ book' = [book EXCEPT ![r][x] = [addr |-> FALSE, name |-> 0]]
      BY <2>2 DEF UserStep, HandleConnect, HandleFriendApprove, WriteBlindly
    <3>2. r # q \/ x # p => book'[q][p] = book[q][p]
      BY <3>1 DEF TypeOK
    <3> QED BY <2>2, <3>2
  <2>3. ASSUME NEW r \in Peers, NEW f \in Fetchers, CommitMerge(r, f)
        PROVE  Latest(q, p)' \/ book'[q][p] = book[q][p]
    BY <2>3, CommitLatest
  <2> QED BY <2>1, <2>2, <2>3, WhoWrites DEF Latest
<1>3. \A f \in Fetchers : CommitMerge(q, f) /\ fetch[q][f].peer = p => Latest(q, p)'
  BY CommitLatest
<1> QED BY <1>1, <1>2, <1>3

\* While a peer keeps its name, late answers of earlier fetches, conflicts
\* and renewed fetches never take its present name out of a book again.
THEOREM SettledNames == Spec => NamesSettle
<1>1. TypeOK /\ Inv /\ [Next]_vars =>
        [\A q, p \in Peers :
            Current(q, p) /\ profile'[p] = profile[p] =>
                /\ Current(q, p)'
                /\ Latest(q, p) => Latest(q, p)' \/ UserStep(q, p)
                /\ \A f \in Fetchers :
                      CommitMerge(q, f) /\ fetch[q][f].peer = p => Latest(q, p)']_vars
  BY SettleStep
<1> QED BY <1>1, Invariance, PTL DEF Spec, NamesSettle
====
