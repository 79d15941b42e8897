---- MODULE PeerBook ----
(***************************************************************************)
(* The profiles a MyFeed daemon keeps of other peers: the address its user *)
(* entered, and the name fetched from the peer after every feed.  Connect  *)
(* and approve write a record blindly; a fetch merges its answer in a      *)
(* read-write transaction, which Badger refuses to commit if the key was   *)
(* written since it was read.  Fetches are goroutines and overlap.         *)
(*                                                                         *)
(* Sources: daemon/store/store.go (profiles), daemon/sync/sync.go          *)
(* (FetchProfile), daemon/protocols/protocols.go (profile stream),         *)
(* daemon/api/server.go (handleProfile, handleConnect, handleFriendAction).*)
(***************************************************************************)
EXTENDS Naturals

CONSTANTS
    Peers,        \* the daemons
    Editors,      \* the peers whose users rename themselves
    Meets,        \* <<q, p>>: q's user may enter p's address or approve p
    Fetchers,     \* slots for the goroutines that run FetchProfile
    MaxEdits,     \* bound on the names of a peer
    MaxPresses,   \* bound on connect and approve calls, all daemons together
    NoRecord, NoPeer

ASSUME ConstantsAssumption ==
    /\ Editors \subseteq Peers
    /\ Meets \subseteq Peers \X Peers
    /\ MaxEdits \in Nat /\ MaxPresses \in Nat
    /\ NoRecord \notin [addr : BOOLEAN, name : Nat]
    /\ NoPeer \notin Peers

VARIABLES
    running,   \* the daemons that are up
    conns,     \* the live connections, as two-element sets of peers
    profile,   \* profile[p]: which of its names profile:local holds, 0: none
    book,      \* book[q][p]: the value of profile:remote:p in q's store
    fetch,     \* fetch[q][f]: the progress of q's fetch f
    presses    \* connect and approve calls so far

vars == <<running, conns, profile, book, fetch, presses>>

Names == 0..MaxEdits

\* addr: is an address stored (for the reconnect at startup); name: its number.
Records == [addr : BOOLEAN, name : Names]

\* asking: before or after NewStream, no answer yet; decoded: the answer is
\* here; merging: the transaction has read the record it found, seen, and
\* fresh says whether the key is as it was.
Fetches == [stage : {"idle", "asking", "decoded", "merging"},
            peer : Peers \cup {NoPeer}, name : Names,
            seen : Records \cup {NoRecord}, fresh : BOOLEAN]

Fetch(stage, p, name, seen, fresh) ==
    [stage |-> stage, peer |-> p, name |-> name, seen |-> seen, fresh |-> fresh]

Idle == Fetch("idle", NoPeer, 0, NoRecord, FALSE)

Link(p, q) == {p, q} \in conns

HasAddress(r) == r # NoRecord /\ r.addr

Init ==
    /\ running = {}
    /\ conns = {}
    /\ profile = [p \in Peers |-> 0]
    /\ book = [q \in Peers |-> [p \in Peers |-> NoRecord]]
    /\ fetch = [q \in Peers |-> [f \in Fetchers |-> Idle]]
    /\ presses = 0

----------------------------------------------------------------------------
(* The user's calls.                                                       *)

\* A committed write of profile:remote:p makes the transactions that have
\* read the key stale.
Outdated(t, p) ==
    IF t.stage = "merging" /\ t.peer = p
    THEN Fetch(t.stage, t.peer, t.name, t.seen, FALSE) ELSE t

\* SaveRemoteProfile with the record the handler builds: no name.
WriteBlindly(q, p, addr) ==
    /\ q \in running
    /\ <<q, p>> \in Meets
    /\ presses < MaxPresses
    /\ presses' = presses + 1
    /\ book' = [book EXCEPT ![q][p] = [addr |-> addr, name |-> 0]]
    /\ fetch' = [fetch EXCEPT ![q] = [f \in Fetchers |-> Outdated(fetch[q][f], p)]]

\* POST /api/connect, once the dial succeeded: the address, and no name.  (A
\* dial whose record is not saved is a LinkUp.)
HandleConnect(q, p) ==
    /\ p \in running /\ p # q
    /\ WriteBlindly(q, p, TRUE)
    /\ conns' = conns \cup {{p, q}}
    /\ UNCHANGED <<running, profile>>

\* Approving p as a friend: neither address nor name.
HandleFriendApprove(q, p) ==
    /\ WriteBlindly(q, p, FALSE)
    /\ UNCHANGED <<running, conns, profile>>

\* POST /api/profile reads the profile, sets the name and the bio from the
\* request and writes it: no field survives that a second call could lose.
HandleProfile(p) ==
    /\ p \in running
    /\ p \in Editors
    /\ profile[p] < MaxEdits
    /\ profile' = [profile EXCEPT ![p] = @ + 1]
    /\ UNCHANGED <<running, conns, book, fetch, presses>>

----------------------------------------------------------------------------
(* Fetching a profile.                                                     *)

SetFetch(q, f, t) == fetch' = [fetch EXCEPT ![q][f] = t]

\* A FetchFeed of a known peer returns and leaves a goroutine behind.
BeginFetch(q, f, p) ==
    /\ q \in running
    /\ book[q][p] # NoRecord
    /\ Link(p, q)
    /\ fetch[q][f].stage = "idle"
    /\ SetFetch(q, f, Fetch("asking", p, 0, NoRecord, FALSE))
    /\ UNCHANGED <<running, conns, profile, book, presses>>

\* Mutant of ServedName: the name of an edit that is still to be saved.
NameBeforeSave(p) == profile[p] + 1

ServedName(p) == profile[p]

\* The stream is opened (NewStream dials if it must), the other daemon reads
\* its profile and answers.
HandleProfileStream(q, f) ==
    LET p == fetch[q][f].peer
    IN  /\ fetch[q][f].stage = "asking"
        /\ p \in running /\ p # q
        /\ conns' = conns \cup {{p, q}}
        /\ SetFetch(q, f, Fetch("decoded", p, ServedName(p), NoRecord, FALSE))
        /\ UNCHANGED <<running, profile, book, presses>>

\* SaveRemoteProfileMerge reads the record under the key.
BeginMerge(q, f) ==
    LET t == fetch[q][f]
    IN  /\ t.stage = "decoded"
        /\ SetFetch(q, f, Fetch("merging", t.peer, t.name, book[q][t.peer], TRUE))
        /\ UNCHANGED <<running, conns, profile, book, presses>>

\* Mutants of Merge: the address is not carried over; a name that is there
\* already is kept.
MergeDroppingAddress(seen, name) == [addr |-> FALSE, name |-> name]

MergeKeepingName(seen, name) ==
    [addr |-> HasAddress(seen),
     name |-> IF seen # NoRecord /\ seen.name # 0 THEN seen.name ELSE name]

\* The fetched profile, with the addresses of the record if it has any (a
\* fetched profile has none).
Merge(seen, name) == [addr |-> HasAddress(seen), name |-> name]

\* Mutant of MayCommit: no conflict detection.
MayCommitAlways(t) == TRUE

MayCommit(t) == t.fresh

CommitMerge(q, f) ==
    LET t == fetch[q][f]
    IN  /\ t.stage = "merging"
        /\ MayCommit(t)
        /\ book' = [book EXCEPT ![q][t.peer] = Merge(t.seen, t.name)]
        /\ fetch' = [fetch EXCEPT ![q] =
                       [g \in Fetchers |-> IF g = f THEN Idle
                                           ELSE Outdated(fetch[q][g], t.peer)]]
        /\ UNCHANGED <<running, conns, profile, presses>>

\* Any error ends the fetch: no stream, a cancelled request context, a broken
\* transfer, a failed read on the other side, ErrConflict.  It is not retried.
FetchFails(q, f) ==
    /\ fetch[q][f].stage # "idle"
    /\ SetFetch(q, f, Idle)
    /\ UNCHANGED <<running, conns, profile, book, presses>>

----------------------------------------------------------------------------
(* Links and processes.                                                    *)

\* The startup reconnect, kad-dht or the other side dials.
LinkUp(q, p) ==
    /\ {p, q} \subseteq running /\ p # q
    /\ conns' = conns \cup {{p, q}}
    /\ UNCHANGED <<running, profile, book, fetch, presses>>

LinkDown(l) ==
    /\ l \in conns
    /\ conns' = conns \ {l}
    /\ UNCHANGED <<running, profile, book, fetch, presses>>

\* A signal or a crash: p's goroutines and open transactions are gone.
Halt(p) ==
    /\ p \in running
    /\ running' = running \ {p}
    /\ conns' = {l \in conns : p \notin l}
    /\ fetch' = [fetch EXCEPT ![p] = [f \in Fetchers |-> Idle]]
    /\ UNCHANGED <<profile, book, presses>>

Start(p) ==
    /\ p \notin running
    /\ running' = running \cup {p}
    /\ UNCHANGED <<conns, profile, book, fetch, presses>>

----------------------------------------------------------------------------

UserStep(q, p) == HandleConnect(q, p) \/ HandleFriendApprove(q, p)

FetchStep(q, f) ==
    \/ HandleProfileStream(q, f)
    \/ BeginMerge(q, f)
    \/ CommitMerge(q, f)
    \/ FetchFails(q, f)

Next ==
    \/ \E p \in Peers : HandleProfile(p) \/ Halt(p) \/ Start(p)
    \/ \E q, p \in Peers : UserStep(q, p) \/ LinkUp(q, p)
    \/ \E l \in conns : LinkDown(l)
    \/ \E q, p \in Peers, f \in Fetchers : BeginFetch(q, f, p)
    \/ \E q \in Peers, f \in Fetchers : FetchStep(q, f)

Spec == Init /\ [][Next]_vars

\* Goroutines run (WF).  Rounds come again and again, and neither streams nor
\* transactions fail for ever (SF).
Fairness ==
    \A r \in Meets :
        LET q == r[1]
        IN  /\ SF_vars(\E f \in Fetchers : BeginFetch(q, f, r[2]))
            /\ SF_vars(\E f \in Fetchers : HandleProfileStream(q, f))
            /\ SF_vars(\E f \in Fetchers : BeginMerge(q, f))
            /\ SF_vars(\E f \in Fetchers : CommitMerge(q, f))
            /\ \A f \in Fetchers : WF_vars(FetchStep(q, f))

FairSpec == Spec /\ Fairness

----------------------------------------------------------------------------
(* Properties.                                                             *)

\* Records, fetches and links keep the shape the store and FetchProfile give
\* them.
TypeOK ==
    /\ running \subseteq Peers
    /\ conns \subseteq SUBSET Peers
    /\ profile \in [Peers -> Names]
    /\ book \in [Peers -> [Peers -> Records \cup {NoRecord}]]
    /\ fetch \in [Peers -> [Fetchers -> Fetches]]
    /\ presses \in Nat

\* What q's store says of p's address changes only by what q's user does:
\* it appears when the user connects and goes when the user approves.  A
\* merge that overlaps either neither loses nor brings back an address.
AddressesAreTheUsers ==
    [][\A q, p \in Peers :
          HasAddress(book'[q][p]) # HasAddress(book[q][p]) =>
              UserStep(q, p)]_vars

PD == INSTANCE PeerDirectory

\* Fetching a profile, with everything that may come between its steps, is
\* one step: the merge as if it ran alone, with a name the peer has had.
ImplementsPeerDirectory == PD!Spec

Together(q, p) ==
    {p, q} \subseteq running /\ Link(p, q) /\ book[q][p] # NoRecord

\* Once two peers stay connected and p's user leaves the name alone, q's book
\* comes to hold p's latest name and keeps it, although late answers of
\* earlier fetches, conflicts and blind writes may undo it for a time.
ProfileSettles ==
    \A r \in Meets :
        LET q == r[1]
            p == r[2]
        IN  \A n \in 0..MaxEdits :
                <>[](Together(q, p) /\ profile[p] = n) =>
                    <>[](book[q][p] # NoRecord /\ book[q][p].name = n)
====
