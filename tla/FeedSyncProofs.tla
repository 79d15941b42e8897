---- MODULE FeedSyncProofs ----
(***************************************************************************)
(* Proofs about FeedSync for every set of peers, posts and sync threads:   *)
(* type correctness, authenticity of the feed, agreement of the author's   *)
(* two copies, finality of signed posts, and that FeedSync implements      *)
(* PublicFeed.                                                             *)
(***************************************************************************)
EXTENDS FeedSync, TLAPS

----------------------------------------------------------------------------
(* The inductive invariant.                                                *)

\* A post in its author's store: filed under its id, unsigned or correctly
\* signed, and the same under both keys.
LocalInv ==
    \A p \in Peers, id \in PostIds :
        local[p][id] # NoPost =>
            /\ local[p][id].id = id
            /\ local[p][id].author = p
            /\ local[p][id].sig \in {NoSig, Sign(p, id, local[p][id].content)}
            /\ all[p][id] = local[p][id]

\* Whatever a feed shows is in its author's store, and signed when it came
\* from somebody else.
FeedInv ==
    \A q \in Peers, id \in PostIds :
        all[q][id] # NoPost =>
            /\ all[q][id].id = id
            /\ local[all[q][id].author][id] = all[q][id]
            /\ all[q][id].author # q => all[q][id].sig # NoSig

\* A post between SavePost and UpdatePostSignature is there, unsigned.
SigningInv ==
    \A p \in Peers : \A id \in signing[p] :
        local[p][id] # NoPost /\ local[p][id].sig = NoSig

\* A thread of q talks to another peer.  A post it holds was read from that
\* peer's store, which may have signed it since but not changed it otherwise.
GoodThread(q, t) ==
    /\ t.stage \in {"requested", "receiving", "saving"} =>
           t.peer \in Peers /\ t.peer # q
    /\ t.stage \notin {"receiving", "saving"} => t.posts = {}
    /\ \A x \in t.posts :
           /\ x.author = t.peer
           /\ local[t.peer][x.id] # NoPost
           /\ x.sig # NoSig => x = local[t.peer][x.id]

FlightInv == \A q \in Peers, s \in Syncers : GoodThread(q, sync[q][s])

\* An identifier is drawn by one author only.
OneAuthor ==
    \A p, r \in Peers, id \in PostIds :
        local[p][id] # NoPost /\ local[r][id] # NoPost => p = r

Inv == LocalInv /\ OneAuthor /\ FeedInv /\ SigningInv /\ FlightInv

----------------------------------------------------------------------------
(* Type correctness.                                                       *)

LEMMA SyncersLemma ==
    Worker \in Syncers /\ Startup \in Syncers /\ Handlers \subseteq Syncers
BY DEF Syncers

LEMMA ThreadTypes ==
    /\ Idle \in Threads
    /\ \A T \in SUBSET Peers : AtNext(T) \in Threads
    /\ \A t \in Threads : \A D, q : Reset(t, q, D) \in Threads
BY DEF Idle, AtNext, Reset, Threads, Stages

\* Moving one thread keeps the type of the thread table.
LEMMA SetThreadType ==
    ASSUME sync \in [Peers -> [Syncers -> Threads]],
           NEW q \in Peers, NEW s \in Syncers, NEW t \in Threads,
           SetThread(q, s, t)
    PROVE  /\ sync' \in [Peers -> [Syncers -> Threads]]
           /\ sync'[q][s] = t
           /\ \A r \in Peers, u \in Syncers :
                 (r # q \/ u # s) => sync'[r][u] = sync[r][u]
BY DEF SetThread

LEMMA FetchType ==
    ASSUME NEW t \in Threads, NEW g \in Stages, NEW X \in SUBSET Posts
    PROVE  Fetch(t, g, X) \in Threads
BY DEF Fetch, Threads

\* A post stamped with an author is a post.
LEMMA StampType ==
    ASSUME NEW x \in Posts, NEW p \in Peers
    PROVE  Stamp(x, p) \in Posts
BY DEF Posts, Stamp

\* What the stores hold, slot by slot.
LEMMA StoreTypes ==
    ASSUME TypeOK
    PROVE  \A q \in Peers, id \in PostIds : /\ local[q][id] \in Posts \cup {NoPost}
                                            /\ all[q][id] \in Posts \cup {NoPost}
BY DEF TypeOK

LEMMA InitType == Init => TypeOK
BY ThreadTypes DEF Init, TypeOK

\* Every step of a sync thread keeps the types.
LEMMA ThreadStepType ==
    ASSUME TypeOK, FlightInv, NEW q \in Peers, NEW s \in Syncers,
           ThreadStep(q, s)
    PROVE  TypeOK'
<1> DEFINE t == sync[q][s]
<1>0. /\ t \in Threads
      /\ t.todo \subseteq Peers /\ t.posts \subseteq Posts
      /\ t.stage \in Stages /\ t.peer \in Peers \cup {NoPeer}
  BY DEF TypeOK, Threads
<1>1. CASE \E p \in Peers : PickPeer(q, s, p)
  <2>1. PICK p \in Peers : PickPeer(q, s, p)
    BY <1>1
  <2>2. [stage |-> "opening", todo |-> t.todo \ {p}, peer |-> p, posts |-> {}] \in Threads
    BY <1>0 DEF Threads, Stages
  <2> QED BY <2>1, <2>2, SetThreadType DEF PickPeer, TypeOK
<1>2. CASE \E p \in Peers : SkipPeer(q, s, p)
  <2>1. PICK p \in Peers : SkipPeer(q, s, p)
    BY <1>2
  <2>2. AtNext(t.todo \ {p}) \in Threads
    BY <1>0, ThreadTypes
  <2> QED BY <2>1, <2>2, SetThreadType DEF SkipPeer, TypeOK
<1>3. CASE OpenFeed(q, s)
  <2>1. Fetch(t, "requested", {}) \in Threads
    BY <1>0, FetchType DEF Stages
  <2>2. conns' \subseteq SUBSET Peers
    BY <1>3, <1>0 DEF OpenFeed, TypeOK
  <2> QED BY <1>3, <2>1, <2>2, SetThreadType DEF OpenFeed, TypeOK
<1>4. CASE OpenFeedFails(q, s) \/ FetchFeedReturns(q, s)
  BY <1>4, <1>0, ThreadTypes, SetThreadType DEF OpenFeedFails, FetchFeedReturns, TypeOK
<1>5. CASE HandleFeedStream(q, s)
  <2>1. t.peer \in Peers => LocalPosts(t.peer) \subseteq Posts
    BY DEF LocalPosts, TypeOK
  <2>2. t.peer \in Peers
    BY <1>5 DEF HandleFeedStream, FlightInv, GoodThread
  <2>3. Fetch(t, "receiving", LocalPosts(t.peer)) \in Threads
    BY <1>0, <2>1, <2>2, FetchType DEF Stages
  <2> QED BY <1>5, <2>3, SetThreadType DEF HandleFeedStream, TypeOK
<1>6. CASE HandleFeedStreamFails(q, s)
  <2>1. Fetch(t, "receiving", {}) \in Threads
    BY <1>0, FetchType DEF Stages
  <2> QED BY <1>6, <2>1, SetThreadType DEF HandleFeedStreamFails, TypeOK
<1>7. CASE DecodeFeed(q, s)
  <2>1. t.peer \in Peers
    BY <1>7 DEF DecodeFeed, FlightInv, GoodThread
  <2>2. {Stamp(x, t.peer) : x \in t.posts} \subseteq Posts
    BY <1>0, <2>1, StampType
  <2>3. Fetch(t, "saving", {Stamp(x, t.peer) : x \in t.posts}) \in Threads
    BY <1>0, <2>2, FetchType DEF Stages
  <2> QED BY <1>7, <2>3, SetThreadType DEF DecodeFeed, TypeOK
<1>8. CASE \E x \in t.posts : SaveRemotePost(q, s, x)
  <2>1. PICK x \in t.posts : SaveRemotePost(q, s, x)
    BY <1>8
  <2>2. RestOf(t, x) \in Threads
    BY <1>0, FetchType DEF RestOf, Stages
  <2>3. x \in Posts /\ x.id \in PostIds
    BY <1>0 DEF Posts
  <2>4. all' \in [Peers -> [PostIds -> Posts \cup {NoPost}]]
    BY <2>1, <2>3 DEF SaveRemotePost, TypeOK
  <2> QED BY <2>1, <2>2, <2>4, SetThreadType DEF SaveRemotePost, TypeOK
<1>9. CASE \E x \in t.posts : RejectRemotePost(q, s, x) \/ SaveRemotePostFails(q, s, x)
  <2>1. PICK x \in t.posts : RejectRemotePost(q, s, x) \/ SaveRemotePostFails(q, s, x)
    BY <1>9
  <2>2. RestOf(t, x) \in Threads
    BY <1>0, FetchType DEF RestOf, Stages
  <2> QED BY <2>1, <2>2, SetThreadType DEF RejectRemotePost, SaveRemotePostFails, TypeOK
<1>10. CASE EndSync(q, s)
  BY <1>10, ThreadTypes, SetThreadType DEF EndSync, TypeOK
<1> QED
  BY <1>1, <1>2, <1>3, <1>4, <1>5, <1>6, <1>7, <1>8, <1>9, <1>10 DEF ThreadStep

\* Every step of the daemons keeps the types.
LEMMA NextType ==
    ASSUME ConstantsAssumption, TypeOK, Inv, [Next]_vars
    PROVE  TypeOK'
<1>1. CASE \E p \in Authors, id \in PostIds, c \in Contents : SavePost(p, id, c)
  <2>1. PICK p \in Peers, id \in PostIds, c \in Contents : SavePost(p, id, c)
    BY <1>1 DEF ConstantsAssumption
  <2>2. UnsignedPost(p, id, c) \in Posts
    BY DEF UnsignedPost, Posts
  <2> QED BY <2>1, <2>2 DEF SavePost, TypeOK
<1>2. CASE \E p \in Peers, id \in PostIds : SignPost(p, id)
  <2>1. PICK p \in Peers, id \in PostIds : SignPost(p, id)
    BY <1>2
  <2>2. all[p][id] \in Posts
    BY <2>1 DEF SignPost, Inv, SigningInv, LocalInv, TypeOK
  <2> QED BY <2>1, <2>2 DEF SignPost, UpdatePostSignature, Sign, Posts, Signatures, TypeOK
<1>3. CASE \E p \in Peers, id \in PostIds : SignPostFails(p, id)
  BY <1>3 DEF SignPostFails, TypeOK
<1>4. CASE \E p \in Peers : Halt(p)
  <2>1. PICK p \in Peers : Halt(p)
    BY <1>4
  <2>2. sync' \in [Peers -> [Syncers -> Threads]]
    BY <2>1, ThreadTypes DEF Halt, TypeOK
  <2> QED BY <2>1, <2>2 DEF Halt, TypeOK
<1>5. CASE \E p \in Peers : Start(p)
  <2>1. PICK p \in Peers : Start(p)
    BY <1>5
  <2>2. sync' \in [Peers -> [Syncers -> Threads]]
    BY <2>1, ThreadTypes, SyncersLemma DEF Start, TypeOK
  <2> QED BY <2>1, <2>2 DEF Start, TypeOK
<1>6. CASE \E p, q \in Peers : LinkStep(q, p)
  <2>1. PICK p \in Peers, q \in Peers : LinkStep(q, p)
    BY <1>6
  <2>2. conns' \subseteq SUBSET Peers
    <3>1. {p, q} \in SUBSET Peers
      OBVIOUS
    <3>2. conns' = conns \/ conns' = conns \cup {{p, q}}
      BY <2>1 DEF LinkStep, HandleConnect, DialByLibp2p, HandleFriendApprove
    <3> QED BY <3>1, <3>2 DEF TypeOK
  <2>3. known' \in [Peers -> SUBSET Peers]
    BY <2>1 DEF LinkStep, HandleConnect, DialByLibp2p, HandleFriendApprove, TypeOK
  <2> QED BY <2>1, <2>2, <2>3
          DEF LinkStep, HandleConnect, DialByLibp2p, HandleFriendApprove, TypeOK
<1>7. CASE \E p, q \in Peers : StartupConnect(q, p)
  <2>1. PICK p \in Peers, q \in Peers : StartupConnect(q, p)
    BY <1>7
  <2>2. sync[q][Startup].todo \subseteq Peers
    BY SyncersLemma DEF TypeOK, Threads
  <2>3. [stage |-> "opening", peer |-> p, posts |-> {},
         todo |-> sync[q][Startup].todo \ {p}] \in Threads
    BY <2>2 DEF Threads, Stages
  <2>4. sync' \in [Peers -> [Syncers -> Threads]]
    BY <2>1, <2>3, SyncersLemma, SetThreadType DEF StartupConnect, TypeOK
  <2>5. conns' \subseteq SUBSET Peers
    BY <2>1 DEF StartupConnect, TypeOK
  <2> QED BY <2>1, <2>4, <2>5 DEF StartupConnect, TypeOK
<1>8. CASE \E l \in conns : Disconnect(l)
  BY <1>8, ThreadTypes DEF Disconnect, TypeOK
<1>9. CASE \E q \in Peers, s \in Syncers : BeginSync(q, s)
  <2>1. PICK q \in Peers, s \in Syncers : BeginSync(q, s)
    BY <1>9
  <2>2. AtNext(known[q]) \in Threads
    BY ThreadTypes DEF TypeOK
  <2> QED BY <2>1, <2>2, SetThreadType DEF BeginSync, TypeOK
<1>10. CASE \E q \in Peers, s \in Syncers : ThreadStep(q, s)
  BY <1>10, ThreadStepType DEF Inv
<1>11. CASE UNCHANGED vars
  BY <1>11 DEF vars, TypeOK
<1> QED
  BY <1>1, <1>2, <1>3, <1>4, <1>5, <1>6, <1>7, <1>8, <1>9, <1>10, <1>11
     DEF Next, PostStep

----------------------------------------------------------------------------
(* The invariant is inductive.                                             *)

LEMMA InitInv == Init => Inv
BY DEF Init, Inv, LocalInv, OneAuthor, FeedInv, SigningInv, FlightInv, GoodThread, Idle

\* A step that moves one thread to t and leaves the stores alone keeps the
\* invariant if t is a good thread.
LEMMA ThreadOnly ==
    ASSUME TypeOK, Inv, NEW q \in Peers, NEW s \in Syncers, NEW t \in Threads,
           SetThread(q, s, t), UNCHANGED <<local, all, signing>>,
           GoodThread(q, t)
    PROVE  Inv'
<1>1. LocalInv' /\ OneAuthor' /\ FeedInv' /\ SigningInv'
  BY DEF Inv, LocalInv, OneAuthor, FeedInv, SigningInv
<1>2. ASSUME NEW r \in Peers, NEW u \in Syncers
      PROVE  GoodThread(r, sync[r][u])'
  <2>1. CASE r = q /\ u = s
    <3>1. sync'[r][u] = t
      BY <2>1, SetThreadType DEF TypeOK
    <3> QED BY <2>1, <3>1 DEF GoodThread
  <2>2. CASE r # q \/ u # s
    <3>1. sync'[r][u] = sync[r][u]
      BY <2>2, SetThreadType DEF TypeOK
    <3>2. GoodThread(r, sync[r][u])
      BY DEF Inv, FlightInv
    <3> QED BY <3>1, <3>2 DEF GoodThread
  <2> QED BY <2>1, <2>2
<1> QED BY <1>1, <1>2 DEF Inv, FlightInv

\* Threads outside a transfer hold nothing.
LEMMA EmptyThreads ==
    ASSUME NEW q \in Peers
    PROVE  /\ GoodThread(q, Idle)
           /\ \A T : GoodThread(q, AtNext(T))
           /\ \A t, D : GoodThread(q, t) => GoodThread(q, Reset(t, q, D))
BY DEF GoodThread, Idle, AtNext, Reset

\* Every post of a local store is good to be sent.
LEMMA ServedPosts ==
    ASSUME LocalInv, NEW p \in Peers, NEW x \in LocalPosts(p)
    PROVE  x.author = p /\ x.id \in PostIds /\ x = local[p][x.id] /\ x # NoPost
BY DEF LocalInv, LocalPosts

\* A thread step that stores nothing keeps the invariant.
LEMMA ReadingStepInv ==
    ASSUME TypeOK, Inv, NEW q \in Peers, NEW s \in Syncers,
           ThreadStep(q, s), TypeOK', UNCHANGED all
    PROVE  Inv'
<1> DEFINE t == sync[q][s]
<1>0. GoodThread(q, t) /\ t \in Threads
  BY DEF Inv, FlightInv, TypeOK
<1>1. CASE \E p \in Peers : PickPeer(q, s, p)
  <2>1. PICK p \in Peers : PickPeer(q, s, p)
    BY <1>1
  <2>2. [stage |-> "opening", todo |-> t.todo \ {p}, peer |-> p, posts |-> {}] \in Threads
    BY <1>0 DEF Threads, Stages
  <2>3. GoodThread(q, [stage |-> "opening", todo |-> t.todo \ {p}, peer |-> p, posts |-> {}])
    BY DEF GoodThread
  <2> QED BY <2>1, <2>2, <2>3, ThreadOnly DEF PickPeer
<1>2. CASE \E p \in Peers : SkipPeer(q, s, p)
  <2>1. PICK p \in Peers : SkipPeer(q, s, p)
    BY <1>2
  <2>2. AtNext(t.todo \ {p}) \in Threads
    BY <1>0, ThreadTypes DEF Threads
  <2> QED BY <2>1, <2>2, EmptyThreads, ThreadOnly DEF SkipPeer
<1>3. CASE OpenFeed(q, s)
  <2>1. Fetch(t, "requested", {}) \in Threads
    BY <1>0, FetchType DEF Stages
  <2>2. t.peer \in Peers /\ t.peer # q
    BY <1>3 DEF OpenFeed, TypeOK
  <2>3. GoodThread(q, Fetch(t, "requested", {}))
    BY <2>2 DEF GoodThread, Fetch
  <2> QED BY <1>3, <2>1, <2>3, ThreadOnly DEF OpenFeed
<1>4. CASE OpenFeedFails(q, s) \/ FetchFeedReturns(q, s)
  <2>1. AtNext(t.todo) \in Threads
    BY <1>0, ThreadTypes DEF Threads
  <2> QED BY <1>4, <2>1, EmptyThreads, ThreadOnly DEF OpenFeedFails, FetchFeedReturns
<1>5. CASE HandleFeedStream(q, s)
  <2>1. t.peer \in Peers /\ t.peer # q
    BY <1>5, <1>0 DEF HandleFeedStream, GoodThread
  <2>2. LocalPosts(t.peer) \subseteq Posts
    BY <2>1 DEF LocalPosts, TypeOK
  <2>3. Fetch(t, "receiving", LocalPosts(t.peer)) \in Threads
    BY <1>0, <2>2, FetchType DEF Stages
  <2>4. \A x \in LocalPosts(t.peer) :
           x.author = t.peer /\ x = local[t.peer][x.id] /\ x # NoPost
    BY <2>1, ServedPosts DEF Inv
  <2>5. GoodThread(q, Fetch(t, "receiving", LocalPosts(t.peer)))
    BY <2>1, <2>4 DEF GoodThread, Fetch
  <2> QED BY <1>5, <2>3, <2>5, ThreadOnly DEF HandleFeedStream
<1>6. CASE HandleFeedStreamFails(q, s)
  <2>1. Fetch(t, "receiving", {}) \in Threads
    BY <1>0, FetchType DEF Stages
  <2>2. GoodThread(q, Fetch(t, "receiving", {}))
    BY <1>6, <1>0 DEF HandleFeedStreamFails, GoodThread, Fetch
  <2> QED BY <1>6, <2>1, <2>2, ThreadOnly DEF HandleFeedStreamFails
<1>7. CASE DecodeFeed(q, s)
  <2>1. t.peer \in Peers /\ t.peer # q /\ t.posts \subseteq Posts
    BY <1>7, <1>0 DEF DecodeFeed, GoodThread, Threads
  <2>2. \A x \in t.posts : Stamp(x, t.peer) = x
    BY <2>1, <1>0 DEF GoodThread, Stamp, Posts
  <2>3. {Stamp(x, t.peer) : x \in t.posts} = t.posts
    BY <2>2
  <2>4. Fetch(t, "saving", t.posts) \in Threads
    BY <1>0, <2>1, FetchType DEF Stages
  <2>5. GoodThread(q, Fetch(t, "saving", t.posts))
    BY <1>0, <2>1 DEF GoodThread, Fetch
  <2> QED BY <1>7, <2>3, <2>4, <2>5, ThreadOnly DEF DecodeFeed
<1>8. ASSUME NEW x \in t.posts,
             SaveRemotePost(q, s, x) \/ RejectRemotePost(q, s, x) \/ SaveRemotePostFails(q, s, x)
      PROVE  Inv'
  <2>1. RestOf(t, x) \in Threads
    BY <1>0, FetchType DEF RestOf, Stages, Threads
  <2>2. t.stage = "saving"
    BY <1>8 DEF SaveRemotePost, RejectRemotePost, SaveRemotePostFails, NextPost
  <2>3. GoodThread(q, RestOf(t, x))
    BY <1>0, <2>2 DEF GoodThread, RestOf, Fetch
  <2> QED BY <1>8, <2>1, <2>3, ThreadOnly
          DEF SaveRemotePost, RejectRemotePost, SaveRemotePostFails
<1>9. CASE EndSync(q, s)
  BY <1>9, ThreadTypes, EmptyThreads, ThreadOnly DEF EndSync
<1> QED
  BY <1>1, <1>2, <1>3, <1>4, <1>5, <1>6, <1>7, <1>8, <1>9 DEF ThreadStep

\* Storing a verified post keeps the invariant: it is what the author's store
\* holds, so it cannot hit one of q's own posts.
LEMMA SaveRemotePostInv ==
    ASSUME ConstantsAssumption, TypeOK, Inv, TypeOK',
           NEW q \in Peers, NEW s \in Syncers, NEW x \in sync[q][s].posts,
           SaveRemotePost(q, s, x)
    PROVE  Inv'
<1> DEFINE t == sync[q][s]
<1>1. /\ GoodThread(q, t) /\ t \in Threads /\ t.stage = "saving"
      /\ x \in Posts /\ x # NoPost /\ x.id \in PostIds
  BY DEF Inv, FlightInv, TypeOK, SaveRemotePost, NextPost, Threads, Posts, ConstantsAssumption
<1>2. x.sig # NoSig
  BY <1>1 DEF SaveRemotePost, Verify, Sign, Signatures, Posts, ConstantsAssumption
<1>3. /\ t.peer \in Peers /\ t.peer # q /\ x.author = t.peer
      /\ x = local[t.peer][x.id]
  BY <1>1, <1>2 DEF GoodThread
<1>4. local[q][x.id] = NoPost
  BY <1>1, <1>3 DEF Inv, OneAuthor
<1>5. /\ all' = [all EXCEPT ![q][x.id] = x]
      /\ UNCHANGED <<local, signing>>
      /\ SetThread(q, s, RestOf(t, x))
  BY DEF SaveRemotePost
<1>6. \A r \in Peers, id \in PostIds :
         all'[r][id] = IF r = q /\ id = x.id THEN x ELSE all[r][id]
  BY <1>5, <1>1 DEF TypeOK
<1>7. LocalInv'
  BY <1>4, <1>5, <1>6 DEF Inv, LocalInv
<1>8. FeedInv'
  BY <1>2, <1>3, <1>5, <1>6 DEF Inv, FeedInv
<1>9. SigningInv' /\ OneAuthor'
  BY <1>5 DEF Inv, SigningInv, OneAuthor
<1>10. RestOf(t, x) \in Threads
  BY <1>1, FetchType DEF RestOf, Stages, Threads
<1>11. ASSUME NEW r \in Peers, NEW u \in Syncers
       PROVE  GoodThread(r, sync[r][u])'
  <2>1. CASE r = q /\ u = s
    <3>1. sync'[r][u] = RestOf(t, x)
      BY <2>1, <1>5, <1>10, SetThreadType DEF TypeOK
    <3>2. GoodThread(q, RestOf(t, x))
      BY <1>1 DEF GoodThread, RestOf, Fetch
    <3> QED BY <2>1, <3>1, <3>2, <1>5 DEF GoodThread
  <2>2. CASE r # q \/ u # s
    <3>1. sync'[r][u] = sync[r][u]
      BY <2>2, <1>5, <1>10, SetThreadType DEF TypeOK
    <3>2. GoodThread(r, sync[r][u])
      BY DEF Inv, FlightInv
    <3> QED BY <3>1, <3>2, <1>5 DEF GoodThread
  <2> QED BY <2>1, <2>2
<1> QED BY <1>7, <1>8, <1>9, <1>11 DEF Inv, FlightInv

\* Creating a post keeps the invariant: nobody holds anything under its id.
LEMMA SavePostInv ==
    ASSUME ConstantsAssumption, TypeOK, Inv, TypeOK',
           NEW p \in Peers, NEW id \in PostIds, NEW c \in Contents,
           SavePost(p, id, c)
    PROVE  Inv'
<1> DEFINE new == UnsignedPost(p, id, c)
<1>1. new \in Posts /\ new # NoPost /\ new.id = id /\ new.author = p /\ new.sig = NoSig
  BY DEF UnsignedPost, Posts, ConstantsAssumption
<1>2. \A r \in Peers : all[r][id] = NoPost /\ local[r][id] = NoPost
  BY DEF SavePost, Inv, LocalInv
<1>3. \A r \in Peers, i \in PostIds :
         /\ local'[r][i] = IF r = p /\ i = id THEN new ELSE local[r][i]
         /\ all'[r][i] = IF r = p /\ i = id THEN new ELSE all[r][i]
  BY DEF SavePost, TypeOK
<1> HIDE DEF new
<1>4. LocalInv'
  <2>1. ASSUME NEW r \in Peers, NEW i \in PostIds, local'[r][i] # NoPost
        PROVE  /\ local'[r][i].id = i
               /\ local'[r][i].author = r
               /\ local'[r][i].sig \in {NoSig, Sign(r, i, local'[r][i].content)}
               /\ all'[r][i] = local'[r][i]
    <3>1. CASE r = p /\ i = id
      BY <3>1, <1>1, <1>3
    <3>2. CASE ~(r = p /\ i = id)
      BY <2>1, <3>2, <1>3 DEF Inv, LocalInv
    <3> QED BY <3>1, <3>2
  <2> QED BY <2>1 DEF LocalInv
<1>5. FeedInv'
  <2>1. ASSUME NEW r \in Peers, NEW i \in PostIds, all'[r][i] # NoPost
        PROVE  /\ all'[r][i].id = i
               /\ local'[all'[r][i].author][i] = all'[r][i]
               /\ all'[r][i].author # r => all'[r][i].sig # NoSig
    <3>1. CASE r = p /\ i = id
      BY <3>1, <1>1, <1>3
    <3>2. CASE ~(r = p /\ i = id)
      <4>1. all'[r][i] = all[r][i] /\ i # id
        BY <3>2, <1>2, <1>3, <2>1
      <4>2. all[r][i] \in Posts /\ all[r][i].author \in Peers
        BY <4>1, <2>1 DEF TypeOK, Posts
      <4> QED BY <4>1, <4>2, <1>3, <2>1 DEF Inv, FeedInv
    <3> QED BY <3>1, <3>2
  <2> QED BY <2>1 DEF FeedInv
<1>6. SigningInv'
  <2>1. ASSUME NEW r \in Peers, NEW i \in signing'[r]
        PROVE  local'[r][i] # NoPost /\ local'[r][i].sig = NoSig
    <3>1. i \in PostIds /\ (i \in signing[r] \/ (r = p /\ i = id))
      BY DEF SavePost, TypeOK
    <3>2. CASE r = p /\ i = id
      BY <3>1, <3>2, <1>1, <1>3
    <3>3. CASE ~(r = p /\ i = id)
      BY <3>1, <3>3, <1>3 DEF Inv, SigningInv
    <3> QED BY <3>2, <3>3
  <2> QED BY <2>1 DEF SigningInv
<1>7. OneAuthor'
  BY <1>2, <1>3 DEF Inv, OneAuthor
<1>8. ASSUME NEW r \in Peers, NEW u \in Syncers
      PROVE  GoodThread(r, sync[r][u])'
  <2>1. sync'[r][u] = sync[r][u] /\ GoodThread(r, sync[r][u]) /\ sync[r][u] \in Threads
    BY DEF Inv, FlightInv, SavePost, TypeOK
  <2>2. ASSUME NEW x \in sync[r][u].posts
        PROVE  local'[sync[r][u].peer][x.id] = local[sync[r][u].peer][x.id]
    <3>1. x.id \in PostIds /\ sync[r][u].peer \in Peers
      BY <2>1, <2>2 DEF GoodThread, Threads, Posts
    <3>2. x.id # id
      BY <2>1, <2>2, <3>1, <1>2 DEF GoodThread
    <3> QED BY <3>1, <3>2, <1>3
  <2> QED BY <2>1, <2>2 DEF GoodThread
<1> QED BY <1>4, <1>5, <1>6, <1>7, <1>8 DEF Inv, FlightInv

\* Signing keeps the invariant: the unsigned post has no copy elsewhere but
\* unsigned ones in transit.
LEMMA SignPostInv ==
    ASSUME ConstantsAssumption, TypeOK, Inv, TypeOK',
           NEW p \in Peers, NEW id \in PostIds, SignPost(p, id)
    PROVE  Inv'
<1> DEFINE old == all[p][id]
           new == [id |-> old.id, author |-> old.author, content |-> old.content,
                   sig |-> Sign(p, id, old.content)]
<1>1. /\ old = local[p][id] /\ old # NoPost /\ old \in Posts
      /\ old.id = id /\ old.author = p /\ old.sig = NoSig
  BY DEF SignPost, Inv, SigningInv, LocalInv, TypeOK
<1>2. /\ new \in Posts /\ new # NoPost /\ new.id = id /\ new.author = p
      /\ new.sig = Sign(p, id, new.content) /\ new.sig # NoSig
  BY <1>1 DEF Posts, Sign, Signatures, ConstantsAssumption
<1>3. \A r \in Peers, i \in PostIds :
         /\ local'[r][i] = IF r = p /\ i = id THEN new ELSE local[r][i]
         /\ all'[r][i] = IF r = p /\ i = id THEN new ELSE all[r][i]
  BY DEF SignPost, UpdatePostSignature, TypeOK
<1> HIDE DEF old, new
<1>4. LocalInv'
  BY <1>2, <1>3 DEF Inv, LocalInv
<1>5. FeedInv'
  <2>1. ASSUME NEW r \in Peers, NEW i \in PostIds, all'[r][i] # NoPost
        PROVE  /\ all'[r][i].id = i
               /\ local'[all'[r][i].author][i] = all'[r][i]
               /\ all'[r][i].author # r => all'[r][i].sig # NoSig
    <3>1. CASE r = p /\ i = id
      BY <3>1, <1>2, <1>3
    <3>2. CASE ~(r = p /\ i = id)
      <4>1. all'[r][i] = all[r][i] /\ all[r][i] \in Posts /\ all[r][i].author \in Peers
        BY <3>2, <1>3, <2>1 DEF TypeOK, Posts
      <4>2. ~(all[r][i].author = p /\ i = id)
        <5>1. SUFFICES ASSUME all[r][i].author = p, i = id PROVE FALSE
          OBVIOUS
        <5>2. local[p][id] = all[r][i] /\ all[r][i].sig # NoSig
          BY <5>1, <3>2, <4>1, <2>1 DEF Inv, FeedInv
        <5> QED BY <5>2, <1>1
      <4> QED BY <4>1, <4>2, <1>3, <2>1 DEF Inv, FeedInv
    <3> QED BY <3>1, <3>2
  <2> QED BY <2>1 DEF FeedInv
<1>6. SigningInv'
  <2>1. ASSUME NEW r \in Peers, NEW i \in signing'[r]
        PROVE  local'[r][i] # NoPost /\ local'[r][i].sig = NoSig
    <3>1. i \in signing[r] /\ i \in PostIds /\ ~(r = p /\ i = id)
      BY DEF SignPost, TypeOK
    <3> QED BY <3>1, <1>3 DEF Inv, SigningInv
  <2> QED BY <2>1 DEF SigningInv
<1>7. OneAuthor'
  BY <1>1, <1>3 DEF Inv, OneAuthor
<1>8. ASSUME NEW r \in Peers, NEW u \in Syncers
      PROVE  GoodThread(r, sync[r][u])'
  <2>1. sync'[r][u] = sync[r][u] /\ GoodThread(r, sync[r][u]) /\ sync[r][u] \in Threads
    BY DEF Inv, FlightInv, SignPost, TypeOK
  <2>2. ASSUME NEW x \in sync[r][u].posts
        PROVE  LET y == sync[r][u].peer
               IN  /\ local'[y][x.id] # NoPost
                   /\ x.sig # NoSig => x = local'[y][x.id]
    <3>1. x.id \in PostIds /\ sync[r][u].peer \in Peers
      BY <2>1, <2>2 DEF GoodThread, Threads, Posts
    <3>2. CASE sync[r][u].peer = p /\ x.id = id
      BY <3>1, <3>2, <2>1, <2>2, <1>1, <1>2, <1>3 DEF GoodThread
    <3>3. CASE ~(sync[r][u].peer = p /\ x.id = id)
      BY <3>1, <3>3, <2>1, <2>2, <1>3 DEF GoodThread
    <3> QED BY <3>2, <3>3
  <2> QED BY <2>1, <2>2 DEF GoodThread
<1> QED BY <1>4, <1>5, <1>6, <1>7, <1>8 DEF Inv, FlightInv

\* Halting and losing links drop transfers and touch no store.
LEMMA LinkLossInv ==
    ASSUME TypeOK, Inv, TypeOK', UNCHANGED <<local, all>>,
           \A p \in Peers : signing'[p] \subseteq signing[p],
           \A q \in Peers, s \in Syncers :
              \/ sync'[q][s] = Idle
              \/ \E D : sync'[q][s] = Reset(sync[q][s], q, D)
    PROVE  Inv'
<1>1. LocalInv' /\ OneAuthor' /\ FeedInv' /\ SigningInv'
  BY DEF Inv, LocalInv, OneAuthor, FeedInv, SigningInv
<1>2. ASSUME NEW q \in Peers, NEW s \in Syncers
      PROVE  GoodThread(q, sync[q][s])'
  <2>1. GoodThread(q, sync[q][s])
    BY DEF Inv, FlightInv
  <2>2. GoodThread(q, sync'[q][s])
    BY <2>1, EmptyThreads
  <2> QED BY <2>2 DEF GoodThread
<1> QED BY <1>1, <1>2 DEF Inv, FlightInv

\* Every step of the daemons keeps the invariant.
LEMMA NextInv ==
    ASSUME ConstantsAssumption, TypeOK, Inv, [Next]_vars
    PROVE  Inv'
<1>0. TypeOK'
  BY NextType
<1>1. CASE \E p \in Authors, id \in PostIds, c \in Contents : SavePost(p, id, c)
  BY <1>0, <1>1, SavePostInv DEF ConstantsAssumption
<1>2. CASE \E p \in Peers, id \in PostIds : SignPost(p, id)
  BY <1>0, <1>2, SignPostInv
<1>3. CASE \E p \in Peers, id \in PostIds : SignPostFails(p, id)
  <2>1. PICK p \in Peers, id \in PostIds : SignPostFails(p, id)
    BY <1>3
  <2>2. \A r \in Peers : signing'[r] \subseteq signing[r]
    BY <2>1 DEF SignPostFails, TypeOK
  <2>3. \A q \in Peers, s \in Syncers : sync'[q][s] = Reset(sync[q][s], q, {})
    BY <2>1 DEF SignPostFails, Reset
  <2> QED BY <1>0, <2>1, <2>2, <2>3, LinkLossInv DEF SignPostFails
<1>4. CASE \E p \in Peers : Halt(p)
  <2>1. PICK p \in Peers : Halt(p)
    BY <1>4
  <2>2. \A r \in Peers : signing'[r] \subseteq signing[r]
    BY <2>1 DEF Halt, TypeOK
  <2>3. \A q \in Peers, s \in Syncers :
           \/ sync'[q][s] = Idle
           \/ \E D : sync'[q][s] = Reset(sync[q][s], q, D)
    BY <2>1 DEF Halt
  <2> QED BY <1>0, <2>1, <2>2, <2>3, LinkLossInv DEF Halt
<1>5. CASE \E p \in Peers : Start(p)
  <2>1. PICK p \in Peers : Start(p)
    BY <1>5
  <2>2. AtNext(known[p]) \in Threads
    BY ThreadTypes DEF TypeOK
  <2> QED BY <2>1, <2>2, SyncersLemma, EmptyThreads, ThreadOnly DEF Start, SetThread
<1>6. CASE \E p, q \in Peers : LinkStep(q, p)
  <2>1. UNCHANGED <<local, all, signing, sync>>
    BY <1>6 DEF LinkStep, HandleConnect, DialByLibp2p, HandleFriendApprove
  <2> QED BY <2>1 DEF Inv, LocalInv, OneAuthor, FeedInv, SigningInv, FlightInv, GoodThread
<1>7. CASE \E p, q \in Peers : StartupConnect(q, p)
  <2>1. PICK p \in Peers, q \in Peers : StartupConnect(q, p)
    BY <1>7
  <2> DEFINE t == [stage |-> "opening", peer |-> p, posts |-> {},
                   todo |-> sync[q][Startup].todo \ {p}]
  <2>2. sync[q][Startup].todo \subseteq Peers
    BY SyncersLemma DEF TypeOK, Threads
  <2>3. t \in Threads
    BY <2>2 DEF Threads, Stages
  <2>4. GoodThread(q, t)
    BY DEF GoodThread
  <2> QED BY <2>1, <2>3, <2>4, SyncersLemma, ThreadOnly DEF StartupConnect
<1>8. CASE \E l \in conns : Disconnect(l)
  <2>1. PICK l \in conns : Disconnect(l)
    BY <1>8
  <2>2. \A q \in Peers, s \in Syncers : sync'[q][s] = Reset(sync[q][s], q, {l})
    BY <2>1 DEF Disconnect
  <2> QED BY <1>0, <2>1, <2>2, LinkLossInv DEF Disconnect
<1>9. CASE \E q \in Peers, s \in Syncers : BeginSync(q, s)
  <2>1. PICK q \in Peers, s \in Syncers : BeginSync(q, s)
    BY <1>9
  <2>2. AtNext(known[q]) \in Threads
    BY ThreadTypes DEF TypeOK
  <2> QED BY <2>1, <2>2, EmptyThreads, ThreadOnly DEF BeginSync
<1>10. CASE \E q \in Peers, s \in Syncers : ThreadStep(q, s)
  <2>1. PICK q \in Peers, s \in Syncers : ThreadStep(q, s)
    BY <1>10
  <2>2. CASE \E x \in sync[q][s].posts : SaveRemotePost(q, s, x)
    BY <1>0, <2>2, SaveRemotePostInv
  <2>3. CASE UNCHANGED all
    BY <1>0, <2>1, <2>3, ReadingStepInv
  <2> QED
    BY <2>1, <2>2, <2>3
       DEF ThreadStep, PickPeer, SkipPeer, OpenFeed, OpenFeedFails, HandleFeedStream,
           HandleFeedStreamFails, DecodeFeed, RejectRemotePost, SaveRemotePostFails,
           FetchFeedReturns, EndSync
<1>11. CASE UNCHANGED vars
  BY <1>11 DEF vars, Inv, LocalInv, OneAuthor, FeedInv, SigningInv, FlightInv, GoodThread
<1> QED
  BY <1>1, <1>2, <1>3, <1>4, <1>5, <1>6, <1>7, <1>8, <1>9, <1>10, <1>11
     DEF Next, PostStep

\* The invariant with its types holds in every reachable state.
THEOREM Invariance == Spec => [](TypeOK /\ Inv)
<1>1. Init => TypeOK /\ Inv
  BY InitType, InitInv
<1>2. TypeOK /\ Inv /\ [Next]_vars => (TypeOK /\ Inv)'
  BY ConstantsAssumption, NextType, NextInv
<1> QED BY <1>1, <1>2, PTL DEF Spec

----------------------------------------------------------------------------
(* What follows from it.                                                   *)

\* Stores, threads and links keep the shape the code gives them.
THEOREM TypeCorrect == Spec => []TypeOK
BY Invariance, PTL

\* Nothing unsigned, misattributed or outdated from another peer is ever in a
\* feed, for any number of peers, posts and sync threads.
THEOREM RemoteAuthenticity == Spec => []RemotePostsAreAuthentic
<1>1. TypeOK /\ Inv => RemotePostsAreAuthentic
  <2>1. SUFFICES ASSUME TypeOK, Inv, NEW q \in Peers, NEW id \in PostIds,
                        all[q][id] # NoPost, all[q][id].author # q
                 PROVE  Verify(all[q][id]) /\ all[q][id] = local[all[q][id].author][id]
    BY DEF RemotePostsAreAuthentic
  <2> DEFINE x == all[q][id]
  <2>2. x \in Posts /\ x.author \in Peers
    BY <2>1 DEF TypeOK, Posts
  <2>3. x.id = id /\ x = local[x.author][id] /\ x.sig # NoSig
    BY <2>1 DEF Inv, FeedInv
  <2>4. x.sig = Sign(x.author, id, x.content)
    BY <2>1, <2>2, <2>3 DEF Inv, LocalInv
  <2> QED BY <2>3, <2>4 DEF Verify
<1> QED BY <1>1, Invariance, PTL

\* What an author serves and what the author's own feed shows never differ.
THEOREM LocalAgreement == Spec => []LocalPostsAreShown
<1>1. TypeOK /\ Inv => LocalPostsAreShown
  BY DEF Inv, LocalInv, FeedInv, LocalPostsAreShown
<1> QED BY <1>1, Invariance, PTL

\* Three actions write posts.
LEMMA FeedWriters ==
    ASSUME [Next]_vars
    PROVE  \/ UNCHANGED <<local, all>>
           \/ \E p \in Authors, i \in PostIds, c \in Contents : SavePost(p, i, c)
           \/ \E p \in Peers, i \in PostIds : SignPost(p, i)
           \/ \E r \in Peers, s \in Syncers :
                 \E x \in sync[r][s].posts : SaveRemotePost(r, s, x)
<1>1. ASSUME NEW p \in Peers, PostStep(p)
      PROVE  \/ UNCHANGED <<local, all>>
             \/ p \in Authors /\ \E i \in PostIds, c \in Contents : SavePost(p, i, c)
             \/ \E i \in PostIds : SignPost(p, i)
  BY <1>1 DEF PostStep, SignPostFails
<1>2. ASSUME NEW p \in Peers, Halt(p) \/ Start(p) PROVE UNCHANGED <<local, all>>
  BY <1>2 DEF Halt, Start
<1>3. ASSUME NEW p \in Peers, NEW q \in Peers, LinkStep(q, p) \/ StartupConnect(q, p)
      PROVE  UNCHANGED <<local, all>>
  BY <1>3 DEF LinkStep, HandleConnect, DialByLibp2p, HandleFriendApprove, StartupConnect
<1>4. ASSUME NEW l \in conns, Disconnect(l) PROVE UNCHANGED <<local, all>>
  BY <1>4 DEF Disconnect
<1>5. ASSUME NEW q \in Peers, NEW s \in Syncers, BeginSync(q, s) \/ ThreadStep(q, s)
      PROVE  UNCHANGED <<local, all>> \/ \E x \in sync[q][s].posts : SaveRemotePost(q, s, x)
  BY <1>5 DEF BeginSync, ThreadStep, PickPeer, SkipPeer, OpenFeed, OpenFeedFails,
     HandleFeedStream, HandleFeedStreamFails, DecodeFeed, RejectRemotePost,
     SaveRemotePostFails, FetchFeedReturns, EndSync
<1>6. CASE UNCHANGED vars
  BY <1>6 DEF vars
<1> QED BY <1>1, <1>2, <1>3, <1>4, <1>5, <1>6 DEF Next

\* Once signed, a post in a feed is never changed or removed.
THEOREM Finality == Spec => SignedPostsAreFinal
<1> DEFINE Final == \A q \in Peers, id \in PostIds :
                        Signed(all[q][id]) => all'[q][id] = all[q][id]
<1>1. ASSUME ConstantsAssumption, TypeOK, Inv, [Next]_vars PROVE Final
  <2>1. SUFFICES ASSUME NEW q \in Peers, NEW id \in PostIds, Signed(all[q][id]),
                        all'[q][id] # all[q][id]
                 PROVE  FALSE
    OBVIOUS
  <2>2. CASE \E p \in Authors, i \in PostIds, c \in Contents : SavePost(p, i, c)
    BY <2>1, <2>2 DEF SavePost, Signed, TypeOK, ConstantsAssumption
  <2>3. CASE \E p \in Peers, i \in PostIds : SignPost(p, i)
    <3>1. PICK p \in Peers, i \in PostIds : SignPost(p, i)
      BY <2>3
    <3>2. q = p /\ id = i
      BY <2>1, <3>1 DEF SignPost, UpdatePostSignature, TypeOK
    <3>3. all[p][i].sig = NoSig
      BY <1>1, <3>1 DEF SignPost, Inv, SigningInv, LocalInv
    <3> QED BY <2>1, <3>2, <3>3 DEF Signed
  <2>4. CASE \E r \in Peers, s \in Syncers : \E x \in sync[r][s].posts : SaveRemotePost(r, s, x)
    <3>0. PICK r \in Peers, s \in Syncers :
              \E x \in sync[r][s].posts : SaveRemotePost(r, s, x)
      BY <2>4
    <3>1. PICK x \in sync[r][s].posts : SaveRemotePost(r, s, x)
      BY <3>0
    <3>2. q = r /\ id = x.id /\ all'[q][id] = x
      BY <1>1, <2>1, <3>1 DEF SaveRemotePost, TypeOK
    <3>3. Inv'
      BY <1>1, NextInv
    <3>4. /\ all[q][id].id = id /\ all[q][id] = local[all[q][id].author][id]
          /\ all[q][id] # NoPost
      BY <1>1, <2>1 DEF Inv, FeedInv, Signed
    <3>5. x # NoPost /\ x = local[x.author][id] /\ x \in Posts
      BY <1>1, <3>1, <3>2 DEF SaveRemotePost, TypeOK, Threads, ConstantsAssumption,
         Inv, FlightInv, GoodThread, Verify, Sign, Signatures, Posts
    <3>6. all[q][id].author \in Peers /\ x.author \in Peers
      BY <1>1, <3>4, <3>5 DEF TypeOK, Posts
    <3>7. all[q][id].author = x.author
      BY <1>1, <3>4, <3>5, <3>6 DEF Inv, OneAuthor
    <3> QED BY <2>1, <3>2, <3>4, <3>5, <3>7
  <2>5. CASE UNCHANGED all
    BY <2>1, <2>5
  <2> QED BY <1>1, <2>2, <2>3, <2>4, <2>5, FeedWriters
<1>2. TypeOK /\ Inv /\ [Next]_vars => [Final]_vars
  BY <1>1, ConstantsAssumption
<1> QED BY <1>2, Invariance, PTL DEF Spec, SignedPostsAreFinal

\* Two feeds that hold a post under one identifier hold the same post.
FeedsAgree ==
    \A q, r \in Peers, id \in PostIds :
        all[q][id] # NoPost /\ all[r][id] # NoPost => all[q][id] = all[r][id]

\* No two users ever see different texts, authors or signatures under the
\* identifier of one post, at no moment of its creation, signing and spread.
THEOREM FeedAgreement == Spec => []FeedsAgree
<1>1. TypeOK /\ Inv => FeedsAgree
  <2> SUFFICES ASSUME TypeOK, Inv, NEW q \in Peers, NEW r \in Peers, NEW id \in PostIds,
                      all[q][id] # NoPost, all[r][id] # NoPost
               PROVE  all[q][id] = all[r][id]
    BY DEF FeedsAgree
  <2>1. all[q][id].author \in Peers /\ all[r][id].author \in Peers
    BY StoreTypes DEF Posts
  <2>2. /\ local[all[q][id].author][id] = all[q][id]
        /\ local[all[r][id].author][id] = all[r][id]
    BY DEF Inv, FeedInv
  <2>3. all[q][id].author = all[r][id].author
    BY <2>1, <2>2 DEF Inv, OneAuthor
  <2> QED BY <2>2, <2>3
<1> QED BY <1>1, Invariance, PTL

----------------------------------------------------------------------------
(* Sync rounds.                                                            *)

\* The threads of a daemon that is down are idle.
DownInv == \A q \in Peers \ running, s \in Syncers : sync[q][s] = Idle

\* The two facts that a step of a round has to establish.
Onward(q, t, u) ==
    t.stage # "idle" =>
       \/ u = t
       \/ u.stage # "idle" /\ Further(t, u)
       \/ u = Idle /\ (q \notin running' \/ (t.stage = "next" /\ t.todo = {}))

\* A reset stream costs the round one peer and nothing else.
LEMMA ResetOnward ==
    ASSUME NEW q \in Peers, NEW t \in Threads, NEW D
    PROVE  Onward(q, t, Reset(t, q, D))
BY DEF Onward, Further, Order, Reset, AtNext, Threads

\* What a step of one thread amounts to.
Moves(q, s) ==
    /\ sync[q][s].stage # "idle" /\ UNCHANGED running
    /\ \E u : SetThread(q, s, u) /\ Onward(q, sync[q][s], u)

\* Every step of a thread takes its round further or ends it.
LEMMA ThreadStepOnward ==
    ASSUME TypeOK, Inv, NEW q \in Peers, NEW s \in Syncers,
           ThreadStep(q, s) \/ (s = Startup /\ \E p \in Peers : StartupConnect(q, p))
    PROVE  Moves(q, s)
<1> DEFINE t == sync[q][s]
<1>0. t \in Threads /\ GoodThread(q, t)
  BY DEF TypeOK, Inv, FlightInv
<1>1. ASSUME NEW p \in Peers, PickPeer(q, s, p) \/ (s = Startup /\ StartupConnect(q, p))
      PROVE  Moves(q, s)
  <2> DEFINE u == [stage |-> "opening", todo |-> t.todo \ {p}, peer |-> p, posts |-> {}]
  <2>1. t.stage = "next" /\ p \in t.todo /\ SetThread(q, s, u) /\ UNCHANGED running
    BY <1>1 DEF PickPeer, StartupConnect
  <2>2. Onward(q, t, u)
    BY <2>1 DEF Onward, Further
  <2> QED BY <2>1, <2>2 DEF Moves
<1>2. ASSUME NEW p \in Peers, SkipPeer(q, s, p) PROVE Moves(q, s)
  <2> DEFINE u == AtNext(t.todo \ {p})
  <2>1. t.stage = "next" /\ p \in t.todo /\ SetThread(q, s, u) /\ UNCHANGED running
    BY <1>2 DEF SkipPeer
  <2>2. Onward(q, t, u)
    BY <2>1 DEF Onward, Further, AtNext
  <2> QED BY <2>1, <2>2 DEF Moves
<1>3. ASSUME NEW from, NEW to, NEW X, t.stage = from, SetThread(q, s, Fetch(t, to, X)),
             <<from, to>> \in {<<"opening", "requested">>, <<"requested", "receiving">>,
                               <<"receiving", "saving">>},
             UNCHANGED running
      PROVE  Moves(q, s)
  <2>1. Onward(q, t, Fetch(t, to, X))
    BY <1>3 DEF Onward, Further, Fetch, Order
  <2> QED BY <1>3, <2>1 DEF Moves
<1>4. CASE OpenFeed(q, s) \/ HandleFeedStream(q, s) \/ HandleFeedStreamFails(q, s)
           \/ DecodeFeed(q, s)
  BY <1>3, <1>4 DEF OpenFeed, HandleFeedStream, HandleFeedStreamFails, DecodeFeed
<1>5. CASE OpenFeedFails(q, s) \/ FetchFeedReturns(q, s)
  <2>1. t.stage \in {"opening", "saving"} /\ SetThread(q, s, AtNext(t.todo)) /\ UNCHANGED running
    BY <1>5 DEF OpenFeedFails, FetchFeedReturns
  <2>2. Onward(q, t, AtNext(t.todo))
    BY <2>1 DEF Onward, Further, AtNext, Order
  <2> QED BY <2>1, <2>2 DEF Moves
<1>6. ASSUME NEW x \in t.posts,
             SaveRemotePost(q, s, x) \/ RejectRemotePost(q, s, x) \/ SaveRemotePostFails(q, s, x)
      PROVE  Moves(q, s)
  <2>1. t.stage = "saving" /\ SetThread(q, s, RestOf(t, x)) /\ UNCHANGED running
    BY <1>6 DEF SaveRemotePost, RejectRemotePost, SaveRemotePostFails, NextPost
  <2>2. Onward(q, t, RestOf(t, x))
    BY <1>0, <2>1 DEF Onward, Further, RestOf, Fetch
  <2> QED BY <2>1, <2>2 DEF Moves
<1>7. CASE EndSync(q, s)
  BY <1>7 DEF EndSync, Onward, Moves
<1> QED BY <1>1, <1>2, <1>4, <1>5, <1>6, <1>7 DEF ThreadStep

\* What every step does to the threads.
LEMMA ThreadMoves ==
    ASSUME TypeOK, Inv, [Next]_vars
    PROVE  \/ UNCHANGED <<running, sync>>
           \/ \E p \in Peers : /\ running' = running \ {p}
                               /\ \A q \in Peers, s \in Syncers :
                                     IF q = p THEN sync'[q][s] = Idle
                                     ELSE \E D : sync'[q][s] = Reset(sync[q][s], q, D)
           \/ \E p \in Peers \ running :
                 /\ running' = running \cup {p}
                 /\ SetThread(p, Startup, AtNext(known[p]))
           \/ /\ UNCHANGED running
              /\ \A q \in Peers, s \in Syncers : \E D : sync'[q][s] = Reset(sync[q][s], q, D)
           \/ /\ UNCHANGED running
              /\ \E q \in running, s \in Syncers :
                    /\ sync[q][s].stage = "idle"
                    /\ SetThread(q, s, AtNext(known[q]))
           \/ \E q \in Peers, s \in Syncers : Moves(q, s)
<1>1. ASSUME NEW p \in Peers, PostStep(p) PROVE UNCHANGED <<running, sync>>
  BY <1>1 DEF PostStep, SavePost, SignPost, SignPostFails
<1>2. ASSUME NEW p \in Peers, Halt(p)
      PROVE  /\ running' = running \ {p}
             /\ \A q \in Peers, s \in Syncers :
                   IF q = p THEN sync'[q][s] = Idle
                   ELSE \E D : sync'[q][s] = Reset(sync[q][s], q, D)
  BY <1>2 DEF Halt
<1>3. ASSUME NEW p \in Peers, Start(p)
      PROVE  /\ p \notin running /\ running' = running \cup {p}
             /\ SetThread(p, Startup, AtNext(known[p]))
  BY <1>3 DEF Start, SetThread
<1>4. ASSUME NEW p \in Peers, NEW q \in Peers, LinkStep(q, p) PROVE UNCHANGED <<running, sync>>
  BY <1>4 DEF LinkStep, HandleConnect, DialByLibp2p, HandleFriendApprove
<1>5. ASSUME NEW p \in Peers, NEW q \in Peers, StartupConnect(q, p) PROVE Moves(q, Startup)
  BY <1>5, ThreadStepOnward, SyncersLemma
<1>6. ASSUME NEW l \in conns, Disconnect(l)
      PROVE  /\ UNCHANGED running
             /\ \A q \in Peers, s \in Syncers : \E D : sync'[q][s] = Reset(sync[q][s], q, D)
  BY <1>6 DEF Disconnect
<1>7. ASSUME NEW q \in Peers, NEW s \in Syncers, BeginSync(q, s)
      PROVE  /\ UNCHANGED running /\ q \in running /\ sync[q][s].stage = "idle"
             /\ SetThread(q, s, AtNext(known[q]))
  BY <1>7 DEF BeginSync
<1>8. ASSUME NEW q \in Peers, NEW s \in Syncers, ThreadStep(q, s) PROVE Moves(q, s)
  BY <1>8, ThreadStepOnward
<1>9. CASE UNCHANGED vars
  BY <1>9 DEF vars
<1>10. CASE \E p \in Peers : PostStep(p) \/ Halt(p) \/ Start(p)
  BY <1>1, <1>2, <1>3, <1>10
<1>11. CASE \E p, q \in Peers : LinkStep(q, p) \/ StartupConnect(q, p)
  BY <1>4, <1>5, <1>11, SyncersLemma
<1>12. CASE \E q \in Peers, s \in Syncers : BeginSync(q, s) \/ ThreadStep(q, s)
  BY <1>7, <1>8, <1>12
<1> QED BY <1>6, <1>9, <1>10, <1>11, <1>12 DEF Next

LEMMA DownStays ==
    ASSUME TypeOK, Inv, DownInv, [Next]_vars
    PROVE  DownInv'
<1>1. \A q, D : Reset(Idle, q, D) = Idle /\ Idle.stage = "idle"
  BY DEF Reset, Idle
<1>2. sync \in [Peers -> [Syncers -> Threads]]
  BY DEF TypeOK
<1>3. ASSUME NEW q \in Peers, NEW s \in Syncers, Moves(q, s) PROVE DownInv'
  BY <1>1, <1>2, <1>3 DEF Moves, DownInv, SetThread
<1>4. ASSUME NEW q \in running \cup running', NEW s \in Syncers, NEW t, SetThread(q, s, t),
             running' \in {running, running \cup {q}}
      PROVE  DownInv'
  BY <1>2, <1>4 DEF DownInv, SetThread
<1> QED BY <1>1, <1>3, <1>4, ThreadMoves, SyncersLemma DEF DownInv

LEMMA StepOnward ==
    ASSUME TypeOK, Inv, DownInv, [Next]_vars, NEW q \in Peers, NEW s \in Syncers
    PROVE  Onward(q, sync[q][s], sync'[q][s])
<1> DEFINE t == sync[q][s]
<1>1. t \in Threads /\ sync \in [Peers -> [Syncers -> Threads]] /\ Idle.stage = "idle"
  BY DEF TypeOK, Idle
<1>2. ASSUME NEW D, sync'[q][s] = Reset(t, q, D) PROVE Onward(q, t, sync'[q][s])
  BY <1>1, <1>2, ResetOnward
<1>3. CASE sync'[q][s] = t \/ t.stage = "idle"
  BY <1>3 DEF Onward
<1>4. CASE q \notin running' /\ sync'[q][s] = Idle
  BY <1>4 DEF Onward
<1>5. ASSUME NEW r \in Peers, NEW z \in Syncers, NEW u, SetThread(r, z, u),
             r = q /\ z = s => Onward(q, t, u)
      PROVE  Onward(q, t, sync'[q][s])
  <2>1. sync'[q][s] = IF r = q /\ z = s THEN u ELSE t
    BY <1>1, <1>5 DEF SetThread
  <2> QED BY <1>3, <1>5, <2>1
<1>6. ASSUME NEW r \in Peers, NEW z \in Syncers, NEW u, SetThread(r, z, u),
             sync[r][z].stage = "idle"
      PROVE  Onward(q, t, sync'[q][s])
  BY <1>5, <1>6 DEF Onward
<1>7. ASSUME NEW r \in Peers, NEW z \in Syncers, Moves(r, z)
      PROVE  Onward(q, t, sync'[q][s])
  BY <1>5, <1>7 DEF Moves
<1>8. ASSUME NEW p \in Peers \ running, SetThread(p, Startup, AtNext(known[p]))
      PROVE  Onward(q, t, sync'[q][s])
  BY <1>1, <1>6, <1>8, SyncersLemma DEF DownInv
<1>9. running \subseteq Peers
  BY DEF TypeOK
<1>10. CASE UNCHANGED <<running, sync>>
  BY <1>3, <1>10
<1>11. ASSUME NEW p \in Peers, running' = running \ {p},
              \A r \in Peers, z \in Syncers :
                 IF r = p THEN sync'[r][z] = Idle
                 ELSE \E D : sync'[r][z] = Reset(sync[r][z], r, D)
       PROVE  Onward(q, t, sync'[q][s])
  BY <1>2, <1>4, <1>11
<1> QED BY <1>2, <1>6, <1>7, <1>8, <1>9, <1>10, <1>11, ThreadMoves

\* For any number of peers, posts and threads, every round only gets shorter:
\* with finitely many peers and posts it takes finitely many steps, whatever
\* halts, disconnects or fails meanwhile.  WorkerRoundEnds needs beside this
\* only that the thread and the other end of its stream get to run.
THEOREM RoundProgress == Spec => RoundsAdvance
<1>1. Init => DownInv
  BY DEF Init, DownInv
<1>2. TypeOK /\ Inv /\ DownInv /\ [Next]_vars => DownInv'
  BY DownStays
<1>3. TypeOK /\ Inv /\ DownInv /\ [Next]_vars =>
        [\A q \in Peers, s \in Syncers :
            LET t == sync[q][s]
                u == sync'[q][s]
            IN  t.stage # "idle" =>
                   \/ u = t
                   \/ u.stage # "idle" /\ Further(t, u)
                   \/ u = Idle /\ (q \notin running' \/ (t.stage = "next" /\ t.todo = {}))]_vars
  BY StepOnward DEF Onward
<1> QED BY <1>1, <1>2, <1>3, Invariance, PTL DEF Spec, RoundsAdvance

----------------------------------------------------------------------------
(* FeedSync implements PublicFeed.                                         *)

\* Adding a signed post under its id adds its body, if nothing else that was
\* signed stood there.
LEMMA AddBody ==
    ASSUME NEW st, NEW id \in PostIds, NEW x, st \in [PostIds -> Posts \cup {NoPost}],
           Signed(x), Signed(st[id]) => st[id] = x
    PROVE  SignedBodies([st EXCEPT ![id] = x]) = SignedBodies(st) \cup {Body(x)}
<1> DEFINE new == [st EXCEPT ![id] = x]
<1>1. \A i \in PostIds : new[i] = IF i = id THEN x ELSE st[i]
  OBVIOUS
<1>2. SignedBodies(new) \subseteq SignedBodies(st) \cup {Body(x)}
  BY <1>1 DEF SignedBodies
<1>3. SignedBodies(st) \cup {Body(x)} \subseteq SignedBodies(new)
  BY <1>1 DEF SignedBodies
<1> QED BY <1>2, <1>3

\* A slot that holds no signed post before or after changes no body.
LEMMA SameBodies ==
    ASSUME NEW st, NEW id \in PostIds, NEW x, st \in [PostIds -> Posts \cup {NoPost}],
           ~Signed(x), ~Signed(st[id])
    PROVE  SignedBodies([st EXCEPT ![id] = x]) = SignedBodies(st)
<1> DEFINE new == [st EXCEPT ![id] = x]
<1>1. \A i \in PostIds : new[i] = IF i = id THEN x ELSE st[i]
  OBVIOUS
<1> QED BY <1>1 DEF SignedBodies

\* Bodies keep the identifier of their slot.
LEMMA BodiesOfLocal ==
    ASSUME LocalInv, NEW p \in Peers, NEW c \in SignedBodies(local[p])
    PROVE  c.id \in PostIds /\ Signed(local[p][c.id])
BY DEF LocalInv, SignedBodies, Signed, Body

LEMMA SavePostMaps ==
    ASSUME ConstantsAssumption, TypeOK, Inv, NEW p \in Peers, NEW id \in PostIds,
           NEW c \in Contents, SavePost(p, id, c)
    PROVE  UNCHANGED PF!pfVars
<1> DEFINE new == UnsignedPost(p, id, c)
<1>1. ~Signed(new) /\ ~Signed(local[p][id]) /\ ~Signed(all[p][id])
  BY DEF SavePost, UnsignedPost, Signed, Inv, LocalInv
<1>2. \A r \in Peers :
         /\ local'[r] = IF r = p THEN [local[p] EXCEPT ![id] = new] ELSE local[r]
         /\ all'[r] = IF r = p THEN [all[p] EXCEPT ![id] = new] ELSE all[r]
  BY DEF SavePost, TypeOK
<1>3. \A r \in Peers : local[r] \in [PostIds -> Posts \cup {NoPost}]
                       /\ all[r] \in [PostIds -> Posts \cup {NoPost}]
  BY DEF TypeOK
<1> HIDE DEF new
<1>4. \A r \in Peers : /\ SignedBodies(local'[r]) = SignedBodies(local[r])
                       /\ SignedBodies(all'[r]) = SignedBodies(all[r])
  BY <1>1, <1>2, <1>3, SameBodies
<1> QED BY <1>4 DEF PF!pfVars

LEMMA SignPostMaps ==
    ASSUME ConstantsAssumption, TypeOK, Inv, NEW p \in Peers, NEW id \in PostIds,
           SignPost(p, id)
    PROVE  PF!Next
<1> DEFINE old == all[p][id]
           new == [id |-> old.id, author |-> old.author, content |-> old.content,
                   sig |-> Sign(p, id, old.content)]
<1>1. /\ old = local[p][id] /\ old \in Posts /\ ~Signed(old)
      /\ old.id = id /\ old.author = p
  BY DEF SignPost, Inv, SigningInv, LocalInv, TypeOK, Signed
<1>2. /\ new \in Posts /\ Signed(new) /\ new.id = id /\ new.author = p
  BY <1>1 DEF Posts, Sign, Signatures, ConstantsAssumption, Signed
<1>3. /\ local' = [local EXCEPT ![p] = [local[p] EXCEPT ![id] = new]]
      /\ all' = [all EXCEPT ![p] = [all[p] EXCEPT ![id] = new]]
  BY DEF SignPost, UpdatePostSignature, TypeOK
<1>4. /\ local[p] \in [PostIds -> Posts \cup {NoPost}]
      /\ all[p] \in [PostIds -> Posts \cup {NoPost}]
  BY DEF TypeOK
<1> HIDE DEF old, new
<1>5. /\ SignedBodies([local[p] EXCEPT ![id] = new]) = SignedBodies(local[p]) \cup {Body(new)}
      /\ SignedBodies([all[p] EXCEPT ![id] = new]) = SignedBodies(all[p]) \cup {Body(new)}
  <2>1. ~Signed(local[p][id]) /\ ~Signed(all[p][id])
    BY <1>1 DEF old
  <2> QED BY <2>1, <1>2, <1>4, AddBody
<1>6. [r \in Peers |-> SignedBodies(local'[r])] =
         [[r \in Peers |-> SignedBodies(local[r])] EXCEPT ![p] = @ \cup {Body(new)}]
  BY <1>3, <1>5 DEF TypeOK
<1>7. [r \in Peers |-> SignedBodies(all'[r])] =
         [[r \in Peers |-> SignedBodies(all[r])] EXCEPT ![p] = @ \cup {Body(new)}]
  BY <1>3, <1>5 DEF TypeOK
<1>8. ASSUME NEW r \in Peers, NEW c \in SignedBodies(local[r])
      PROVE  c.id # id
  <2>1. c.id \in PostIds /\ Signed(local[r][c.id])
    BY <1>8, BodiesOfLocal DEF Inv
  <2> QED BY <2>1, <1>1 DEF Inv, OneAuthor, SignPost, SigningInv, Signed
<1>9. Body(new) \in PF!Bodies /\ Body(new).author = p /\ Body(new).id = id
  BY <1>2 DEF PF!Bodies, Body, Posts
<1>10. PF!Publish(p, Body(new))
  BY <1>6, <1>7, <1>8, <1>9 DEF PF!Publish
<1> QED BY <1>9, <1>10 DEF PF!Next

LEMMA SaveRemotePostMaps ==
    ASSUME ConstantsAssumption, TypeOK, Inv, NEW q \in Peers, NEW s \in Syncers,
           NEW x \in sync[q][s].posts, SaveRemotePost(q, s, x)
    PROVE  PF!Next
<1>1. x \in Posts /\ x.id \in PostIds /\ x.author \in Peers
  BY DEF TypeOK, Threads, Posts
<1>2. x # NoPost /\ Signed(x)
  BY <1>1 DEF ConstantsAssumption, SaveRemotePost, Verify, Sign, Signatures, Posts, Signed
<1>3. x = local[x.author][x.id]
  BY <1>2 DEF Inv, FlightInv, GoodThread, Signed
<1>4. Signed(all[q][x.id]) => all[q][x.id] = x
  <2>1. SUFFICES ASSUME Signed(all[q][x.id]) PROVE all[q][x.id] = x
    OBVIOUS
  <2>2. all[q][x.id] \in Posts /\ all[q][x.id].author \in Peers
    <3>1. all[q][x.id] \in Posts \cup {NoPost}
      BY <1>1, StoreTypes
    <3>2. all[q][x.id] # NoPost
      BY <2>1 DEF Signed
    <3> QED BY <3>1, <3>2 DEF Posts
  <2>3. all[q][x.id] = local[all[q][x.id].author][x.id] /\ all[q][x.id] # NoPost
    BY <2>1, <1>1 DEF Inv, FeedInv, Signed
  <2> QED BY <2>2, <2>3, <1>1, <1>2, <1>3 DEF Inv, OneAuthor
<1>5. /\ all' = [all EXCEPT ![q] = [all[q] EXCEPT ![x.id] = x]]
      /\ UNCHANGED local
      /\ all[q] \in [PostIds -> Posts \cup {NoPost}]
  BY DEF SaveRemotePost, TypeOK
<1>6. SignedBodies([all[q] EXCEPT ![x.id] = x]) = SignedBodies(all[q]) \cup {Body(x)}
  BY <1>1, <1>2, <1>4, <1>5, AddBody
<1>7. [r \in Peers |-> SignedBodies(all'[r])] =
         [[r \in Peers |-> SignedBodies(all[r])] EXCEPT ![q] = @ \cup {Body(x)}]
  BY <1>5, <1>6 DEF TypeOK
<1>8. Body(x) \in SignedBodies(local[x.author])
  BY <1>1, <1>2, <1>3 DEF SignedBodies
<1>9. Body(x) \in PF!Bodies /\ Body(x).author = x.author
  BY <1>1 DEF PF!Bodies, Body, Posts
<1>10. PF!Adopt(q, Body(x))
  BY <1>1, <1>5, <1>7, <1>8, <1>9 DEF PF!Adopt
<1> QED BY <1>9, <1>10 DEF PF!Next

\* Every behaviour of the daemons, whatever halts, fails or disconnects, is a
\* behaviour of PublicFeed: signing publishes, storing a verified post adopts,
\* and every other step is invisible.
THEOREM Refinement == Spec => ImplementsPublicFeed
<1>1. Init => PF!Init
  BY DEF Init, PF!Init, SignedBodies, Signed
<1>2. ConstantsAssumption /\ TypeOK /\ Inv /\ [Next]_vars => [PF!Next]_(PF!pfVars)
  <2> SUFFICES ASSUME ConstantsAssumption, TypeOK, Inv, [Next]_vars
               PROVE  PF!Next \/ UNCHANGED PF!pfVars
    OBVIOUS
  <2>1. CASE UNCHANGED <<local, all>>
    BY <2>1 DEF PF!pfVars
  <2>2. CASE \E p \in Authors, i \in PostIds, c \in Contents : SavePost(p, i, c)
    BY <2>2, SavePostMaps DEF ConstantsAssumption
  <2>3. CASE \E p \in Peers, i \in PostIds : SignPost(p, i)
    BY <2>3, SignPostMaps
  <2>4. CASE \E r \in Peers, s \in Syncers :
                \E x \in sync[r][s].posts : SaveRemotePost(r, s, x)
    BY <2>4, SaveRemotePostMaps
  <2> QED BY <2>1, <2>2, <2>3, <2>4, FeedWriters
<1> QED BY <1>1, <1>2, ConstantsAssumption, Invariance, PTL
        DEF Spec, ImplementsPublicFeed, PF!Spec
====
