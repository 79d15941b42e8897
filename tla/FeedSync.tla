---- MODULE FeedSync ----
(***************************************************************************)
(* Posts on a set of MyFeed daemons: created and signed by the API handler *)
(* of one daemon, served by its feed protocol, and fetched, verified and   *)
(* stored by the sync threads of the others, while daemons halt and        *)
(* restart and links come and go.                                          *)
(*                                                                         *)
(* Sources: daemon/store/store.go (posts), daemon/api/server.go            *)
(* (handlePosts, handleConnect, handleSync), daemon/protocols/protocols.go *)
(* (feed stream), daemon/sync/sync.go, daemon/main.go (startup).           *)
(*                                                                         *)
(* One step is one Badger transaction or one stream event: these are the   *)
(* points at which the daemons' goroutines interleave.                     *)
(***************************************************************************)
EXTENDS Naturals

CONSTANTS
    Peers,      \* the daemons, one libp2p identity each
    Authors,    \* the peers whose users post (a bound on the instance)
    PostIds,    \* uuids in key order (their number bounds the posts)
    Contents,   \* non-empty post texts
    MayKnow,    \* <<q, p>>: q's user may enter p's address or approve p
    Worker,     \* the thread of SyncWorker.Start
    Startup,    \* the thread of connectToKnownPeers
    Handlers,   \* concurrent runs of POST /api/sync
    NoPost, NoSig, NoPeer

Syncers == {Worker, Startup} \cup Handlers

Signatures == [by : Peers, id : PostIds, content : Contents]

Posts == [id : PostIds, author : Peers, content : Contents,
          sig : Signatures \cup {NoSig}]

ASSUME ConstantsAssumption ==
    /\ Authors \subseteq Peers
    /\ PostIds \subseteq Nat
    /\ MayKnow \subseteq Peers \X Peers
    /\ NoPost \notin Posts
    /\ NoSig \notin Signatures
    /\ NoPeer \notin Peers
    /\ Worker # Startup /\ Worker \notin Handlers /\ Startup \notin Handlers

VARIABLES
    running,    \* the daemons that are up
    conns,      \* the live libp2p connections, as two-element sets of peers
    known,      \* known[q]: the peers with a profile:remote: key in q's store
    local,      \* local[p][id]: the value of post:local:id in p's store
    all,        \* all[p][id]: the value of post:all:id in p's store
    signing,    \* signing[p]: posts between SavePost and UpdatePostSignature
    sync        \* sync[q][s]: the progress of q's sync thread s

vars == <<running, conns, known, local, all, signing, sync>>

\* next: at the head of the loop over todo; opening: before NewStream;
\* requested: request sent; receiving: the answer is in flight; saving: the
\* posts are decoded and stamped, and are being verified and stored.
Stages == {"idle", "next", "opening", "requested", "receiving", "saving"}

Threads == [stage : Stages, todo : SUBSET Peers, peer : Peers \cup {NoPeer},
            posts : SUBSET Posts]

Idle == [stage |-> "idle", todo |-> {}, peer |-> NoPeer, posts |-> {}]

\* The head of the loop with the peers in T still to be visited.
AtNext(T) == [stage |-> "next", todo |-> T, peer |-> NoPeer, posts |-> {}]

\* Thread t, with the same peer, at another stage of its fetch.
Fetch(t, stage, posts) ==
    [stage |-> stage, todo |-> t.todo, peer |-> t.peer, posts |-> posts]

\* The signature of "ID|Content|Timestamp" under p's key, and its check
\* under the key in the author's peer id.
Sign(p, id, c) == [by |-> p, id |-> id, content |-> c]

\* Mutant of Verify: the result of the check is ignored.
VerifyIgnored(x) == TRUE

Verify(x) == x.sig = Sign(x.author, x.id, x.content)

Link(p, q) == {p, q} \in conns

Init ==
    /\ running = {}
    /\ conns = {}
    /\ known = [p \in Peers |-> {}]
    /\ local = [p \in Peers |-> [id \in PostIds |-> NoPost]]
    /\ all = [p \in Peers |-> [id \in PostIds |-> NoPost]]
    /\ signing = [p \in Peers |-> {}]
    /\ sync = [p \in Peers |-> [s \in Syncers |-> Idle]]

----------------------------------------------------------------------------
(* Creating a post: POST /api/posts is two transactions and a signature.   *)

UnsignedPost(p, id, c) ==
    [id |-> id, author |-> p, content |-> c, sig |-> NoSig]

\* SavePost draws a fresh uuid and writes both keys in one transaction.
SavePost(p, id, c) ==
    /\ p \in running
    /\ \A r \in Peers : all[r][id] = NoPost
    /\ local' = [local EXCEPT ![p][id] = UnsignedPost(p, id, c)]
    /\ all' = [all EXCEPT ![p][id] = UnsignedPost(p, id, c)]
    /\ signing' = [signing EXCEPT ![p] = @ \cup {id}]
    /\ UNCHANGED <<running, conns, known, sync>>

\* Mutants of UpdatePostSignature: one of the two keys is not rewritten.
SignOnlyServedCopy(p, id) ==
    /\ local' = [local EXCEPT ![p][id].sig = Sign(p, id, all[p][id].content)]
    /\ UNCHANGED all

SignOnlyShownCopy(p, id) ==
    /\ all' = [all EXCEPT ![p][id].sig = Sign(p, id, all[p][id].content)]
    /\ UNCHANGED local

\* The handler signs what it saved; the store re-reads post:all:id, sets the
\* signature and writes both keys in one transaction.
UpdatePostSignature(p, id) ==
    LET saved == all[p][id]
        signed == [id |-> saved.id, author |-> saved.author,
                   content |-> saved.content, sig |-> Sign(p, id, saved.content)]
    IN  /\ local' = [local EXCEPT ![p][id] = signed]
        /\ all' = [all EXCEPT ![p][id] = signed]

SignPost(p, id) ==
    /\ p \in running
    /\ id \in signing[p]
    /\ UpdatePostSignature(p, id)
    /\ signing' = [signing EXCEPT ![p] = @ \ {id}]
    /\ UNCHANGED <<running, conns, known, sync>>

\* Signing or the second transaction fails: the handler answers 500 and
\* returns; the unsigned post stays.
SignPostFails(p, id) ==
    /\ p \in running
    /\ id \in signing[p]
    /\ signing' = [signing EXCEPT ![p] = @ \ {id}]
    /\ UNCHANGED <<running, conns, known, local, all, sync>>

----------------------------------------------------------------------------
(* Links, known peers, and the life of a daemon.                           *)

\* The streams over the links in D are reset: the decoder returns an error
\* other than EOF, and FetchFeed drops whatever it had decoded.
Reset(t, q, D) ==
    IF t.stage \in {"requested", "receiving"} /\ {q, t.peer} \in D
    THEN AtNext(t.todo) ELSE t

\* POST /api/connect: dial, then store a profile for the peer.
HandleConnect(q, p) ==
    /\ {p, q} \subseteq running /\ p # q
    /\ <<q, p>> \in MayKnow
    /\ conns' = conns \cup {{p, q}}
    /\ known' = [known EXCEPT ![q] = @ \cup {p}]
    /\ UNCHANGED <<running, local, all, signing, sync>>

\* libp2p comes to a connection by itself, as when kad-dht dials a peer it has
\* heard of; nothing is stored.  (The mDNS notifee would dial in the same way,
\* but node.New builds its service and nobody starts it.)
DialByLibp2p(q, p) ==
    /\ {p, q} \subseteq running /\ p # q
    /\ conns' = conns \cup {{p, q}}
    /\ UNCHANGED <<running, known, local, all, signing, sync>>

\* Approving a friend stores a profile for it, connected or not.
HandleFriendApprove(q, p) ==
    /\ q \in running
    /\ <<q, p>> \in MayKnow
    /\ known' = [known EXCEPT ![q] = @ \cup {p}]
    /\ UNCHANGED <<running, conns, local, all, signing, sync>>

Disconnect(l) ==
    /\ l \in conns
    /\ conns' = conns \ {l}
    /\ sync' = [q \in Peers |->
                  [s \in Syncers |-> Reset(sync[q][s], q, {l})]]
    /\ UNCHANGED <<running, known, local, all, signing>>

\* A signal or a crash: every goroutine of p stops where it is.
Halt(p) ==
    LET D == {l \in conns : p \in l}
    IN  /\ p \in running
        /\ running' = running \ {p}
        /\ conns' = conns \ D
        /\ signing' = [signing EXCEPT ![p] = {}]
        /\ sync' = [q \in Peers |->
                      [s \in Syncers |-> IF q = p THEN Idle
                                         ELSE Reset(sync[q][s], q, D)]]
        /\ UNCHANGED <<known, local, all>>

\* main: the daemon comes up with its stored state; connectToKnownPeers
\* starts with the peers known at this moment.
Start(p) ==
    /\ p \notin running
    /\ running' = running \cup {p}
    /\ sync' = [sync EXCEPT ![p][Startup] = AtNext(known[p])]
    /\ UNCHANGED <<conns, known, local, all, signing>>

----------------------------------------------------------------------------
(* The sync threads: syncAllPeers, handleSync and connectToKnownPeers.     *)

SetThread(q, s, t) == sync' = [sync EXCEPT ![q][s] = t]

\* A tick of the worker, or a POST /api/sync: GetKnownPeers is read once.
BeginSync(q, s) ==
    /\ q \in running
    /\ s # Startup
    /\ sync[q][s].stage = "idle"
    /\ SetThread(q, s, AtNext(known[q]))
    /\ UNCHANGED <<running, conns, known, local, all, signing>>

\* Mutant of PickPeer: the peer being synced is not taken off the list.
PickPeerAgain(q, s, p) ==
    /\ sync[q][s].stage = "next"
    /\ s # Startup
    /\ p \in sync[q][s].todo
    /\ Link(p, q)
    /\ SetThread(q, s, [sync[q][s] EXCEPT !.stage = "opening", !.peer = p])
    /\ UNCHANGED <<running, conns, known, local, all, signing>>

\* The loop meets a peer that is connected at this moment.
PickPeer(q, s, p) ==
    /\ sync[q][s].stage = "next"
    /\ s # Startup
    /\ p \in sync[q][s].todo
    /\ Link(p, q)
    /\ SetThread(q, s, [stage |-> "opening", todo |-> sync[q][s].todo \ {p},
                        peer |-> p, posts |-> {}])
    /\ UNCHANGED <<running, conns, known, local, all, signing>>

\* The startup thread dials a known peer that is not connected.
StartupConnect(q, p) ==
    /\ sync[q][Startup].stage = "next"
    /\ p \in sync[q][Startup].todo
    /\ ~Link(p, q)
    /\ p \in running /\ p # q
    /\ conns' = conns \cup {{p, q}}
    /\ SetThread(q, Startup, [stage |-> "opening", peer |-> p, posts |-> {},
                              todo |-> sync[q][Startup].todo \ {p}])
    /\ UNCHANGED <<running, known, local, all, signing>>

\* Not connected: continue.  The startup thread passes over a peer when it
\* is connected already, has no address, or cannot be dialled.
SkipPeer(q, s, p) ==
    /\ sync[q][s].stage = "next"
    /\ p \in sync[q][s].todo
    /\ s = Startup \/ ~Link(p, q)
    /\ SetThread(q, s, AtNext(sync[q][s].todo \ {p}))
    /\ UNCHANGED <<running, conns, known, local, all, signing>>

\* NewStream dials again if the link is gone since the Connectedness check.
OpenFeed(q, s) ==
    LET p == sync[q][s].peer
    IN  /\ sync[q][s].stage = "opening"
        /\ p \in running /\ p # q
        /\ conns' = conns \cup {{p, q}}
        /\ SetThread(q, s, Fetch(sync[q][s], "requested", {}))
        /\ UNCHANGED <<running, known, local, all, signing>>

\* NewStream or sending the request fails (for a handler also because its
\* HTTP client went away and the request context is cancelled).
OpenFeedFails(q, s) ==
    /\ sync[q][s].stage = "opening"
    /\ SetThread(q, s, AtNext(sync[q][s].todo))
    /\ UNCHANGED <<running, conns, known, local, all, signing>>

\* Mutant of LocalPosts: a key without a value is served as a post.
LocalPostsAndGaps(p) == {local[p][id] : id \in PostIds}


LocalPosts(p) == {local[p][id] : id \in PostIds} \ {NoPost}

\* handleFeedStream reads post:local: in one transaction (since is always
\* the zero time) and writes the posts, signed or not.
HandleFeedStream(q, s) ==
    /\ sync[q][s].stage = "requested"
    /\ SetThread(q, s, Fetch(sync[q][s], "receiving",
                             LocalPosts(sync[q][s].peer)))
    /\ UNCHANGED <<running, conns, known, local, all, signing>>

\* GetLocalPosts fails: the stream is closed and looks like an empty feed.
HandleFeedStreamFails(q, s) ==
    /\ sync[q][s].stage = "requested"
    /\ SetThread(q, s, Fetch(sync[q][s], "receiving", {}))
    /\ UNCHANGED <<running, conns, known, local, all, signing>>

\* post.AuthorPeerID = peerID.
Stamp(x, p) ==
    [id |-> x.id, author |-> p, content |-> x.content, sig |-> x.sig]

\* The decode loop reaches EOF; every post is stamped with the author the
\* stream was opened to.
DecodeFeed(q, s) ==
    LET t == sync[q][s]
    IN  /\ t.stage = "receiving"
        /\ SetThread(q, s, Fetch(t, "saving", {Stamp(x, t.peer) : x \in t.posts}))
        /\ UNCHANGED <<running, conns, known, local, all, signing>>

\* The verification loop visits the posts in the order they were sent, the
\* key order of post:local:.
NextPost(q, s, x) ==
    /\ sync[q][s].stage = "saving"
    /\ x \in sync[q][s].posts
    /\ \A y \in sync[q][s].posts : x.id <= y.id

RestOf(t, x) == Fetch(t, "saving", t.posts \ {x})

\* A verified post is written over whatever post:all:id holds.
SaveRemotePost(q, s, x) ==
    /\ NextPost(q, s, x)
    /\ Verify(x)
    /\ all' = [all EXCEPT ![q][x.id] = x]
    /\ SetThread(q, s, RestOf(sync[q][s], x))
    /\ UNCHANGED <<running, conns, known, local, signing>>

\* Mutant of RejectRemotePost: a bad signature ends the loop.
RejectRemainingPosts(q, s, x) ==
    /\ NextPost(q, s, x)
    /\ ~Verify(x)
    /\ SetThread(q, s, Fetch(sync[q][s], "saving", {}))
    /\ UNCHANGED <<running, conns, known, local, all, signing>>

\* Signature missing or wrong: continue with the next post.
RejectRemotePost(q, s, x) ==
    /\ NextPost(q, s, x)
    /\ ~Verify(x)
    /\ SetThread(q, s, RestOf(sync[q][s], x))
    /\ UNCHANGED <<running, conns, known, local, all, signing>>

\* The store fails: the error is logged and the loop goes on.
SaveRemotePostFails(q, s, x) ==
    /\ NextPost(q, s, x)
    /\ Verify(x)
    /\ SetThread(q, s, RestOf(sync[q][s], x))
    /\ UNCHANGED <<running, conns, known, local, all, signing>>

\* FetchFeed returns to its loop (the profile fetch it starts on the way out
\* does not touch posts).
FetchFeedReturns(q, s) ==
    /\ sync[q][s].stage = "saving"
    /\ sync[q][s].posts = {}
    /\ SetThread(q, s, AtNext(sync[q][s].todo))
    /\ UNCHANGED <<running, conns, known, local, all, signing>>

EndSync(q, s) ==
    /\ sync[q][s].stage = "next"
    /\ sync[q][s].todo = {}
    /\ SetThread(q, s, Idle)
    /\ UNCHANGED <<running, conns, known, local, all, signing>>

----------------------------------------------------------------------------

\* One step of a sync thread and of the peer at the other end of its stream.
ThreadStep(q, s) ==
    \/ \E p \in Peers : PickPeer(q, s, p) \/ SkipPeer(q, s, p)
    \/ OpenFeed(q, s) \/ OpenFeedFails(q, s)
    \/ HandleFeedStream(q, s) \/ HandleFeedStreamFails(q, s)
    \/ DecodeFeed(q, s)
    \/ \E x \in sync[q][s].posts : \/ SaveRemotePost(q, s, x)
                                   \/ RejectRemotePost(q, s, x)
                                   \/ SaveRemotePostFails(q, s, x)
    \/ FetchFeedReturns(q, s)
    \/ EndSync(q, s)

PostStep(p) ==
    \/ p \in Authors /\ \E id \in PostIds, c \in Contents : SavePost(p, id, c)
    \/ \E id \in PostIds : SignPost(p, id) \/ SignPostFails(p, id)

LinkStep(q, p) ==
    HandleConnect(q, p) \/ DialByLibp2p(q, p) \/ HandleFriendApprove(q, p)

Next ==
    \/ \E p \in Peers : PostStep(p) \/ Halt(p) \/ Start(p)
    \/ \E p, q \in Peers : LinkStep(q, p) \/ StartupConnect(q, p)
    \/ \E l \in conns : Disconnect(l)
    \/ \E q \in Peers, s \in Syncers : BeginSync(q, s) \/ ThreadStep(q, s)

Spec == Init /\ [][Next]_vars

----------------------------------------------------------------------------
(* Properties.                                                             *)

\* Every store, thread and connection table has the shape the code gives it.
TypeOK ==
    /\ running \subseteq Peers
    /\ conns \subseteq SUBSET Peers
    /\ known \in [Peers -> SUBSET Peers]
    /\ local \in [Peers -> [PostIds -> Posts \cup {NoPost}]]
    /\ all \in [Peers -> [PostIds -> Posts \cup {NoPost}]]
    /\ signing \in [Peers -> SUBSET PostIds]
    /\ sync \in [Peers -> [Syncers -> Threads]]

\* A post of somebody else in q's feed carries a valid signature of its
\* author and is, field by field, what its author's own store holds now:
\* the verification of FetchFeed, the author stamp and the two transactions
\* of handlePosts together let no unsigned, misattributed or outdated copy in.
RemotePostsAreAuthentic ==
    \A q \in Peers, id \in PostIds :
        LET x == all[q][id]
        IN  (x # NoPost /\ x.author # q) =>
                /\ Verify(x)
                /\ x = local[x.author][id]

\* The author's two copies of a post, post:local:id (what is served) and
\* post:all:id (what is shown), agree at every moment, with the signing
\* handler, crashes and incoming syncs between the writes.
LocalPostsAreShown ==
    \A p \in Peers, id \in PostIds :
        /\ local[p][id] # NoPost => all[p][id] = local[p][id]
        /\ (all[p][id] # NoPost /\ all[p][id].author = p) =>
                local[p][id] = all[p][id]

Signed(x) == x # NoPost /\ x.sig # NoSig

\* A signed post in a feed is final: no overlapping sync with an older
\* snapshot, no restart and no later write of the author changes or removes it.
SignedPostsAreFinal ==
    [][\A q \in Peers, id \in PostIds :
          Signed(all[q][id]) => all'[q][id] = all[q][id]]_vars

\* README, Security: posts are signed when they are created.  Says that a
\* post in the author's store is signed, or its handler is about to sign it.
AcceptedPostsGetSigned ==
    \A p \in Peers, id \in PostIds :
        local[p][id] # NoPost => Signed(local[p][id]) \/ id \in signing[p]

\* Where a thread is with one peer; a fetch that breaks off goes on to next.
Order == [opening |-> 1, requested |-> 2, receiving |-> 3, saving |-> 4, next |-> 5]

\* u is further on in its round than t: fewer peers are ahead of it, or it is
\* at a later stage with the same one, or has fewer posts left to store.
Further(t, u) ==
    \/ u.todo \subseteq t.todo /\ u.todo # t.todo
    \/ u.todo = t.todo /\ Order[u.stage] > Order[t.stage]
    \/ u.todo = t.todo /\ u.stage = t.stage /\ u.posts \subseteq t.posts /\ u.posts # t.posts

\* Nothing throws a round back or starts it over, neither its own steps nor
\* lost links, other rounds, halts and restarts around it; and it ends only
\* with its daemon or after its last peer.
RoundsAdvance ==
    [][\A q \in Peers, s \in Syncers :
          LET t == sync[q][s]
              u == sync'[q][s]
          IN  t.stage # "idle" =>
                 \/ u = t
                 \/ u.stage # "idle" /\ Further(t, u)
                 \/ u = Idle /\ (q \notin running' \/ (t.stage = "next" /\ t.todo = {}))]_vars

----------------------------------------------------------------------------
(* FeedSync implements PublicFeed: a post is published by the transaction  *)
(* that writes its signature, and shown where post:all: has it signed.     *)

Body(x) == [id |-> x.id, author |-> x.author, content |-> x.content]

SignedBodies(st) == {Body(x) : x \in {y \in {st[id] : id \in PostIds} : Signed(y)}}

PF == INSTANCE PublicFeed
        WITH published <- [p \in Peers |-> SignedBodies(local[p])],
             feed <- [q \in Peers |-> SignedBodies(all[q])]

\* Every behaviour of the daemons is one of PublicFeed: posts appear in feeds
\* only after their author published them, once, and never change.
ImplementsPublicFeed == PF!Spec

----------------------------------------------------------------------------
(* Fairness and liveness.                                                  *)

Pairs == {r \in MayKnow : r[1] # r[2]}

Followers == {r[1] : r \in Pairs}

SaveOf(q, id) ==
    \E x \in sync[q][Worker].posts : x.id = id /\ SaveRemotePost(q, Worker, x)

\* The ticker fires again after every round, and every goroutine, the one
\* that serves the stream included, gets to run (WF).  Streams and
\* transactions may fail, but not for ever (SF).
Fairness ==
    \A q \in Followers :
        /\ WF_vars(BeginSync(q, Worker))
        /\ WF_vars(ThreadStep(q, Worker))
        /\ SF_vars(OpenFeed(q, Worker))
        /\ SF_vars(HandleFeedStream(q, Worker))
        /\ \A id \in PostIds : SF_vars(SaveOf(q, id))

FairSpec == Spec /\ Fairness

\* q knows p, both are up, and the link between them holds.
Together(q, p) == {p, q} \subseteq running /\ p \in known[q] /\ Link(p, q)

\* If q knows p and they stay connected from some time on, everything p has
\* signed reaches q's feed: posts that were never signed, failed rounds and
\* transfers cut off before that do not keep the others away.
SignedPostsSpread ==
    \A r \in Pairs : \A id \in PostIds :
        <>[]Together(r[1], r[2]) =>
            (Signed(local[r[2]][id]) ~> Signed(all[r[1]][id]))

\* A round of the sync worker ends, whatever links and peers do meanwhile:
\* the worker is one thread, and a round that never ends is the last.
WorkerRoundEnds ==
    \A q \in Followers :
        sync[q][Worker].stage # "idle" ~> sync[q][Worker].stage = "idle"
====
