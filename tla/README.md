# MyFeed in TLA+

MyFeed is a peer-to-peer social feed: every user runs a daemon (Go, libp2p,
Badger) and a desktop UI (Electron, React) that talks to it over HTTP and a
WebSocket. Daemons exchange posts, profiles and friend requests directly. This
directory specifies how they behave together. Source paths are relative to
`src/`.

    cd tla
    tlc -workers 2 -config feed_safety.cfg MCFeedSync
    tlapm FeedSyncProofs.tla

## The system

| Part | State | Operations | Interacts with |
|---|---|---|---|
| Store `daemon/store/store.go` | Badger keys `post:local:id` (served), `post:all:id` (shown), `profile:local`, `profile:remote:peer`, `friend:peer` | one transaction per method | called by everything below, from many goroutines |
| Post creation `daemon/api/server.go` (`handlePosts`) | none beyond the store | save, sign, save again | store, node key, event hub |
| Feed protocol and sync `daemon/protocols`, `daemon/sync` | stream and decode buffer per fetch | serve own posts; fetch, verify, store a peer's posts | runs in the 30 s ticker, the startup thread and `POST /api/sync` |
| Friend protocol `daemon/api` (`handleFriends`, `handleFriendAction`), `daemon/protocols` | `friend:` keys | request, approve, remove; two one-way streams | store, event hub, relay ACL |
| Profiles / peer book `daemon/store`, `daemon/sync` (`FetchProfile`) | `profile:` keys | blind write, merge, startup reconnect | decides who is synced |
| Node `daemon/node` | key, host, relay ACL | sign, verify, discovery notifee, `AllowReserve` | libp2p |
| Event hub (`handleEvents`, `BroadcastEvent`) | client table under a mutex | register, broadcast, drop | UI client |
| Lifecycle `daemon/main.go` | key file, port file, Badger lock | start order, signals, deferred shutdown | Electron, other daemons of the directory |
| Electron `ui/electron` | child process handle, window | spawn, kill, read port file | daemon |
| UI client `ui/src/api/client.ts` | cached port, socket, listeners | HTTP calls, reconnect loop | daemon |
| UI screens and hooks `ui/src` | query cache | rendering | UI client |

What makes each part correct:

* posts: nobody's feed shows a post its author did not write, or a version of
  it that the author's own store does not hold; a signed post never changes;
  what is served is what the author sees; everything signed arrives at a
  follower that stays connected;
* sync: overlapping rounds with stale snapshots, failing reads and saves, and
  connections cut in mid-transfer do no harm; a round ends;
* friends: nobody becomes a friend unless one user asked and the other
  accepted; both sides come to the same answer;
* peer book: an address changes only by the user, the latest name arrives;
* lifecycle: at most one daemon per data directory, found through the port
  file; one identity, kept through crashes (but not through a failed read of
  its file); nothing that a crash leaves behind blocks the next start (except
  a key file that was emptied and not yet written); no daemon left over when
  the shell quits;
* event hub: every client sees one order of events without gaps, no event
  before its data, no broadcast that hangs, no client that is never forgotten;
* UI: a client that finds the daemon again after a restart.

What is hard here: handlers that are two transactions long, on a store shared
by all goroutines; streams that are unordered with respect to each other, never
acknowledged and never retried; halts between any two steps; state read once
and used after minutes of network traffic; a mutex held during network writes;
files and locks shared by processes that know nothing of each other. `PROJECT.json` lists these hazards
with the line where each bites.

## Modules

| Module | What it is |
|---|---|
| `PublicFeed` | abstract: authors publish posts once, feeds adopt published posts |
| `FeedSync` | posts from creation to the followers' stores; implements `PublicFeed` |
| `FeedSyncProofs` | inductive invariant of `FeedSync` and the theorems below |
| `MCFeedSync` | instances for TLC |
| `Friendship` | abstract: ask, accept, and only then friends; either may drop |
| `FriendProtocol` | API calls and streams of the friend system; implements `Friendship` |
| `FriendProtocolProofs` | its inductive invariant and theorems |
| `MCFriendProtocol` | instances for TLC |
| `PeerDirectory` | abstract: addresses the user enters or clears, names learnt one step at a time |
| `PeerBook` | profile records, blind writes, fetches and merge transactions; implements `PeerDirectory` |
| `PeerBookProofs` | its inductive invariant and theorems |
| `MCPeerBook` | instance for TLC |
| `DaemonSlot` | abstract: one daemon up at a time, and the file that names its port |
| `DaemonSlotProofs` | what follows from it alone, for both modules that use it |
| `Lifecycle` | the processes of a data directory and the shells that start them; implements `DaemonSlot` |
| `LifecycleProofs` | its inductive invariants and theorems |
| `MCLifecycle` | instances for TLC |
| `EventLog` | abstract: one log, and subscribers that receive it from where they joined |
| `EventHub` | broadcasts, the client table and its mutex, the pages; implements `EventLog` |
| `EventHubProofs` | its inductive invariants and theorems |
| `MCEventHub` | instance for TLC |
| `UiClient` | built on `DaemonSlot`: API client and WebSocket reconnect loop while daemons come and go |
| `UiClientProofs` | its inductive invariant and theorems |
| `MCUiClient` | instances for TLC |

Operators named `...AndGaps`, `VerifyIgnored`, `SignOnly...`, `PickPeerAgain`,
`RejectRemainingPosts`, `MayPressAnything`, `MarkRemoved`, `Send...AsRequest`,
`...ByApproving`, `SaveRemoteProfileReturns`, `NameBeforeSave`,
`MayCommitAlways`, `Merge...` with a suffix, `Close...` with one, `CachedPort`,
`FirstBaseUrl`, `ReadAnyKey`, `WriteKeyOrNot`, `OpenSharedStore`,
`CloseServerLast`, `DieLocked`, `QuitAlone`, `SaveOrNot`, `DoNotLock`,
`UnlockNonempty`, `RegisterUnlocked`, `RegisterKeepingMutex`, `LeaveEntry` and
`ReceiveUnknown` are plausible bugs; a comment above each says which. No
specification uses them; substituting one for the operator defined right after
it breaks the property `PROJECT.json` pairs it with.

### FeedSync

One step is one Badger transaction or one event of a stream.

| State | Code |
|---|---|
| `local[p][id]`, `all[p][id]` | keys `post:local:id`, `post:all:id` |
| `known[q]` | the peers with a `profile:remote:` key (`GetKnownPeers`) |
| `conns`, `running` | libp2p connections, processes |
| `signing[p]` | calls of `handlePosts` between their two transactions |
| `sync[q][s]` | where thread `s` is: head of the loop with the peers still to visit, before `NewStream`, request sent, answer in flight, verifying and saving |

| Actions | Code |
|---|---|
| `SavePost`, `SignPost`, `SignPostFails` | `handlePosts`, `Store.SavePost`, `UpdatePostSignature` |
| `HandleConnect`, `DialByLibp2p`, `HandleFriendApprove` | the three ways a link or a known peer comes about |
| `BeginSync`, `PickPeer`, `SkipPeer`, `EndSync` | `syncAllPeers`, `handleSync` |
| `StartupConnect` | `connectToKnownPeers` |
| `OpenFeed`, `OpenFeedFails` | `FetchFeed` up to the request |
| `HandleFeedStream`, `HandleFeedStreamFails` | `handleFeedStream` on the other daemon |
| `DecodeFeed` | the decode loop, which accepts only a complete answer and stamps the author |
| `SaveRemotePost`, `RejectRemotePost`, `SaveRemotePostFails`, `FetchFeedReturns` | the verification loop |
| `Disconnect`, `Halt`, `Start` | network and process events; a halt clears what is in memory |

Abstractions. A signature is a record of signer, id and content: equal records
are what Ed25519 verification accepts. Timestamps are left out: they are part
of the signed text but are written once, and `since` is always the zero time.
A transfer is one value, because `FetchFeed` uses nothing of an incomplete
one. A connection exists at both ends or at neither. Badger transactions that
committed survive a halt (a power loss within Badger's own guarantees is not
modelled). Self-connections do not exist. `DialByLibp2p` is external: kad-dht
dials peers it hears of. The mDNS notifee of `daemon/node` would dial too, but
`node.New` builds its service and nothing calls `Start` on it, so that the
discovery the project README promises ("Both daemons will discover each other
via mDNS on the local network") does not take place.

### FriendProtocol

| State | Code |
|---|---|
| `friend[p][q]` | key `friend:q`: none, pending or approved |
| `known[p]` | the profile key that approving writes |
| `calls[p]` | API calls between two of their steps |
| `net[m]` | open streams carrying message `m` |
| `asked`, `accepted` | history: which buttons users pressed |

`PostFriendRequest` and `SendFriendRequest` are the two steps of
`POST /api/friends`; `ApproveFriend`, `SaveRemoteProfile` and
`SendFriendApproved` the three of the approve action; `RemoveFriend` is
`DELETE`; `HandleFriendRequest` and `HandleFriendApproved` the stream handlers.
Every write of a `friend:` key is blind, as in `SaveFriend`. All daemons are
honest: the handlers store the `PeerID` a message gives for its sender
(`protocols.go:156`, `protocols.go:180`) and do not compare it with the
stream's peer, and the model has `m.from` for both, which is right for daemons
that run this code only.

Three constants describe the environment, not the code. `UserModel` is what a
user goes by before approving: `"any"` (the API accepts any peer), `"listed"`
(the UI offers Approve on every pending entry, also the user's own request) or
`"recipient"` (only people who asked). `AskOnce` keeps users from repeating a
request. `Reliable` excludes halts, failed calls and lost messages; it is used
where the code has no repair to show, and never in `friend_safety`.

### PeerBook

| State | Code |
|---|---|
| `book[q][p]` | key `profile:remote:p`: whether an address is stored, and the number of the name |
| `profile[p]` | key `profile:local`: the number of the name p's user chose last |
| `fetch[q][f]` | a `FetchProfile` goroutine: asking, answer decoded, inside its transaction |
| `conns`, `running`, `presses` | connections, processes, user calls so far |

`HandleConnect` and `HandleFriendApprove` write a whole record blindly
(`SaveRemoteProfile`), one with the address and no name, the other with
neither. `BeginFetch` is the goroutine `FetchFeed` leaves behind,
`HandleProfileStream` the other daemon's answer, `BeginMerge` and `CommitMerge`
the read and the commit of `SaveRemoteProfileMerge`; a write of the key in
between makes the commit fail (`Outdated`, `MayCommit`), and `FetchProfile`
gives up on any error (`FetchFails`). The bio has the fate of the name and is
left out. Links come and go freely: who dials is the business of `FeedSync`.

### Lifecycle

One step is one access to a file, to the lock or to a process.

| State | Code |
|---|---|
| `stage[n]` | how far process `n` is: key read, being made or written; store opened; listening; serving; its defers running |
| `key[n]`, `keyFile` | the identity it runs under, and the one in `identity.key`, which `os.WriteFile` empties first |
| `authors` | the identities with posts in the store |
| `lock` | who holds Badger's lock on `db/` |
| `portFile`, `port[n]` | `daemon.port`, and where `n` listens |
| `term` | processes a signal was sent to |
| `owner`, `app`, `child` | which shell started a process; a shell's window and its `daemonProcess` |
| `remade` | history: a process set out to make a key while the file held one, or while another was making one |

| Actions | Code |
|---|---|
| `ReadKey`, `ReadFileFails`, `FindTornKey`, `TruncateKey`, `WriteKey` | `loadOrGenerateKey`; `ReadFileFails` is any error of `os.ReadFile`, a missing file or another, since the code makes a key on all of them |
| `OpenStore`, `OpenStoreFails` | `store.New`; `main` exits if the lock is taken |
| `TruncatePort`, `WritePort` | `NewServer` |
| `Post` | any handler that writes under the identity |
| `CloseServer`, `CloseStoreAndNode` | the deferred calls of `main`, last first |
| `Die` | a crash, a signal before `signal.Notify`, or a write or a listener that the system refuses; lock, listener and memory are dropped, files stay |
| `StartByHand`, `Signal` | a user at a terminal |
| `Launch`, `CloseWindow`, `Activate`, `Quit`, `ChildClosed` | the handlers of `electron/main.ts` |

A process never comes back: a restart is a new number. An identity is named
after the process that made it, since no two keys are equal. The system gives
each listener a port nobody else uses. The shell itself does not crash, and the
daemon's binary exists.

Seen from outside, all this is `DaemonSlot`: a daemon comes up with its port in
the file, ends with the file or without, and in between the file may vanish.
`Lifecycle` implements it (checked and proved), and `UiClient` instantiates it
for its surroundings, so that what is shown of the client rests on what is
shown of the daemons.

### EventHub

| State | Code |
|---|---|
| `call[e]` | the handler that broadcasts event `e`: data saved, waiting for the mutex, writing, done |
| `saved` | what the store, or the host for `peer:connected`, holds |
| `mutex`, `clients`, `left[e]` | `wsMutex`, `wsClients`, and the rest of the loop in `BroadcastEvent` |
| `handler[c]` | where `handleEvents` is for connection `c` |
| `gone`, `shut` | the page's end of the connection, the daemon's end |
| `sent[c]`, `read[c]` | what was written to `c`, and how much of it `onmessage` has seen |
| `view[c]`, `stale` | what the page shows; invalidated queries |
| `log`, `since` | history: events in the order of the mutex, and where `c` joined |

`Lock`, `Write`, `WriteFails` and `Unlock` are `BroadcastEvent`, client by client
in any order, as a Go map is walked. A write blocks, mutex and all, while
`Buffer` events are unread; it may still succeed after the page has gone.
`Register`, `StopReading` and `Leave` are `handleEvents`, with its deferred
clean-up. `Receive` and `Refetch` are `onmessage` with App's listener and the
query it invalidates; a fetch reads the whole store at once, and request and
answer are one step: that fetches of one page overlap, and that an older answer
comes last, is not modelled, and `ToldMeansShown` does not speak of it. What an event is
about is left out: every type App knows invalidates one query.

### UiClient

The daemons are those of `DaemonSlot`.

| State | Code |
|---|---|
| `portFile`, `daemon` | `daemon.port`, and the port of the daemon that is up |
| `ipc` | calls of `getPort` that wait for the main process or for its answer to be delivered, in order |
| `baseUrl`, `ws` | the fields of `ApiClient` |
| `sockets`, `timers` | WebSocket objects, which outlive `ws`; reconnect timers |
| `mounted`, `mounts`, `thrown` | App's effect; history of mounts and of rejected calls of `connect` |

`EnsurePort`, `ConnectWebSocket` and `TimerFires` call `getPort`;
`ReadPortFile` is the main process; `GoOnCalling`, `Connect` and
`ConnectThrows` go on after the `await`. `SocketCloses` is `onclose`, which
clears `ws` whichever socket it belongs to. Electron answers requests of a page
in order (the handler reads the file synchronously). Each daemon gets a port of
its own, and no other program listens on an old one. The three seconds of the
timer are any time.

## Runs

| Run | Instance | Result |
|---|---|---|
| `feed_safety` | 2 daemons, both post, one follows; 2 posts; worker and startup threads overlap, fair | 49131 states, holds |
| `feed_unsigned` | adds one manual sync thread | violated |
| `friend_safety` | 2 daemons, any button in any order, losses and halts | 57364 states, holds |
| `friend_flow` | 3 daemons, one request per pair, reliable, fair | 860 states, holds |
| `friend_consent`, `friend_crossing` | 2 daemons | violated |
| `book` | 2 daemons, 2 overlapping fetches, 2 renames, 3 user calls, fair | 17127 states, holds |
| `ui_events` | 3 daemons in a row, 2 mounts, 2 sockets, 1 waiting API call, fair | 22016 states, holds |
| `ui_restart` | 2 daemons, 1 mount | violated |
| `lifecycle` | 3 processes, 1 shell on a Mac and starts by hand, fair | 340758 states, holds |
| `identity_replaced` | 2 processes, 1 shell, fair | violated |
| `events` | 2 broadcasts, 2 connections that hold 1 event, fair | 21208 states, holds |

`feed_safety` shows that the author stamp, the verification and the two-key
transactions together admit no unsigned, misattributed or outdated copy
(`RemotePostsAreAuthentic`), that both copies of an own post agree
(`LocalPostsAreShown`), that signed posts are final under overlapping syncs
(`SignedPostsAreFinal`), and that `FeedSync` implements `PublicFeed`
(`ImplementsPublicFeed`), and that nothing takes a thread back in its round
(`RoundsAdvance`); under fairness also that unsigned posts, failures
and cut transfers do not keep signed posts away (`SignedPostsSpread`), and that
rounds end (`WorkerRoundEnds`). `friend_safety` shows that no friend-list entry
comes from nowhere (`ConsentTrace`). `friend_flow` shows the README's flow: both
sides agree once nothing is under way (`SettledAgreement`), an approval makes
both friends for good (`ApprovalBecomesMutual`), and `FriendProtocol` implements
`Friendship` (`ImplementsFriendship`). `book` shows that a merge, whatever
overlaps it, neither loses an address nor brings back one that approving has
cleared (`AddressesAreTheUsers`), that a fetch amounts to one step
(`ImplementsPeerDirectory`), and that two peers that stay connected end with
the latest name although an older answer may be stored last for a time
(`ProfileSettles`). `ui_events` shows that reconnect loops come from mounts and
end in exceptions only (`OneLoopPerMount`), and that while one is left, the page
gets a socket to the daemon that is up (`EventsResume`) and its API calls go
there too (`CallsFollowDaemon`). `lifecycle` shows that a daemon that serves
is in the port file although every start empties it and every end removes it
(`PortFileIsTheServers`), that no crash or failed write lets a daemon run or
post under an identity the next start will not find (`PersistentIdentity`; its
premise is that no read of the file fails while it holds a key, and no two
processes make a key at once), that the directory is one slot
(`ImplementsDaemonSlot`), that a shell that has ended has told all its daemons
(`OrphansAreTold`) and that these end too, also those that were still coming up
(`QuitLeavesNoDaemon`), and that no crash leaves behind what blocks a later
start, with one exception, a torn key file: that there is none is the premise of
`LoneStartServes`, for a crash inside `os.WriteFile` (node.go:88) ends every
later start until the file is removed by hand. `identity_replaced` shows what
the premise of `PersistentIdentity` keeps out. `events` shows that clients see one order without gaps while
broadcasts, registrations and departures overlap (`SameOrder`), that a page that
was told and has fetched shows the change (`ToldMeansShown`), that the hub is
one `EventLog` (`ImplementsEventLog`), that what is broadcast reaches the view of
a page that stays (`EventsArrive`), that no API call hangs in its broadcast
(`BroadcastsEnd`) and that a page that has gone leaves the table, whether a
write, the read loop or both find out (`TheGoneAreForgotten`).

Bounds. Two posts are needed for one to be rejected while the other is saved,
and for two threads to hold different snapshots; two threads for their overlap;
two daemons suffice because a daemon serves only its own posts, so that a third
would only repeat the pair. For friends, a pair shows every reordering of its
streams; the third daemon of `friend_flow` adds a user who is asked and asks at
the same time. `MaxInFlight` bounds copies of the same message, `MaxCalls` the
calls one daemon has open. `friend_flow`, `friend_consent`
and `friend_crossing` do not check deadlock: with one request per pair the users
have nothing left to do. In `book`, two fetches are what it takes for an older answer to be stored last or for two transactions
to conflict; two renames give three names, so that a stale one differs from
both the first and the latest; three user calls allow connect, approve and
connect again around one fetch. In `ui_events`, three daemons allow a stale
port, a fresh one and one more change in between; two mounts are React's strict
mode and the smallest case with two loops. The UI runs do not check deadlock:
the page is idle once daemons and mounts are used up. In `lifecycle`, three
processes are one that leaves files behind, one that starts after it and one
that gets in its way; a process counts once, so that the three cover any three
consecutive lives of a directory. The Mac allows all that the other platforms
do (there, quitting follows the last window at once, which is `CloseWindow` and
`Quit` in a row) and `Activate` besides; the second actor is the user who starts
daemons by hand. In `events`, two broadcasts contend for the mutex, one client
blocks a write while the other goes or comes, and a buffer of one is full after
one event. Both stop when processes or events are used up, and do not check
deadlock; `BroadcastsEnd`, `QuitLeavesNoDaemon` and their like say that nobody
waits for ever.

### Disagreements found

* `feed_unsigned`: the project README says a post is signed when it is created.
  `handlePosts` stores it unsigned first; a halt or error before the second
  transaction leaves it so for ever, shown at home and rejected everywhere.
* `friend_consent`: the project README requires the recipient's approval. The
  sender's own request is stored as pending and listed with an Approve button;
  pressing it makes both sides friends.
* `friend_crossing`: the flow ends with "both users are now friends". When two
  users ask each other, a late request overwrites `approved` with `pending`.
* `ui_restart`: the client logs "WebSocket disconnected, reconnecting...". A
  daemon that shuts down in order removes its port file; the next retry throws
  in `getPort`, and with it ends the loop, so that no later daemon is found.
* `identity_replaced`: the project README calls `identity.key` the "Persistent
  peer identity". `loadOrGenerateKey` makes a key on every error of
  `os.ReadFile`, not on a missing file only, and overwrites the one that is
  there: after one failed read the daemon serves its posts under an identity
  that is not their author's.

Read off the code, where a run would only restate it: "User A receives
notification that their request was approved", but the event is broadcast on B's
daemon, and A's only prints a line (`main.go:68`); and mDNS discovery, whose
service is never started (`node.go:129`).

### Fairness

`FairSpec` of `FeedSync` is fair only to the daemons that follow somebody.
Weak fairness of `BeginSync`: the ticker fires again after each round. Weak
fairness of a thread's steps: goroutines get to run, on either end of a stream;
the code sets no stream deadlines, so this includes that a serving daemon
answers as long as the connection lasts. Strong fairness of opening a stream,
reading the store and saving a given post: these may fail any number of times
but not always. Nothing is assumed about users, halts, starts or links; what
`SignedPostsSpread` needs of them is its premise. `FairSpec` of
`FriendProtocol` lets daemons start and goroutines run; users are never obliged
to act. `FairSpec` of `PeerBook` adds strong fairness of starting a fetch,
answering, reading and committing: rounds recur, streams and transactions may
fail any number of times but not always, a goroutine ends. Renames, connects
and approvals are free. `FairSpec` of `UiClient` is fair to the event loops of
page and main process, never to daemons, mounts or API calls. `FairSpec` of
`Lifecycle` says that a process goes on with its own steps; nothing obliges
users, shells or crashes. `FairSpec` of `EventHub` is strong for goroutines that
want the mutex, because Go's mutex hands itself to whoever has waited a
millisecond and so starves nobody, and weak for a page that is connected: it
reads and fetches, or goes. The code sets no write deadline, so that a page that
stays connected and never reads would block its broadcast; this is outside.

## Proofs

Proved for all constants that satisfy `ConstantsAssumption`, which says no more
than that peers, posts and threads are distinguishable from the null values and
that posts are ordered. Liveness is out of the prover's reach; what is proved
instead is, for most of the liveness properties, their safety half: that no step
undoes or loses what must eventually arrive, so that what remains for the
scheduler is only to take steps that are there to be taken.

| Checked by TLC under fairness | Its safety half, proved for all constants |
|---|---|
| `WorkerRoundEnds` | `RoundProgress`: a thread only moves on in its round |
| `ApprovalBecomesMutual` | `ApprovalsAreKept`, `FriendshipsLast`: an approval is on its way until it is stored, and approved entries stay |
| `ProfileSettles` | `SettledNames`: once answers from before the last change are gone, names only settle |
| `QuitLeavesNoDaemon` | `OrphansTold`: every daemon of a shell that has ended has been signalled |
| `LoneStartServes` | `LoneStart`: who starts alone fails over nothing but a torn key |
| `CallsFollowDaemon`, `EventsResume` | `KeptUp`, `OneLoop`: no older port comes back, an open socket stays, a loop is left |
| `BroadcastsEnd`, `EventsArrive` | `MutexProgress`: the holder of the mutex always has a way on, with ever fewer clients |
| `TheGoneAreForgotten` | `TableOfOpen`: a connection is in the table exactly until the daemon closes it |
| `SignedPostsSpread` | `Finality`, `FeedAgreement`: what has arrived is right and stays |

`FeedSyncProofs`. The invariants are not inductive alone: that a stored copy
equals the author's says nothing of the copies still on their way. `Inv` adds
`LocalInv` (own posts are well formed and the two keys agree), `OneAuthor` (an
id is used by one author), `SigningInv` (a post being signed is unsigned so
far, so that signing never changes a signed post), `FeedInv` (a remote copy is
signed and equals the author's) and `FlightInv` (a post in a
thread names the peer as its author, exists in that peer's store, and if it is
signed is exactly what the store holds). A post that verifies is then the author's current one,
however old the snapshot. From `Inv` follow `TypeCorrect`, `RemoteAuthenticity`,
`LocalAgreement`, `Finality` (an action property) and `Refinement`: signing is
`Publish`, saving a verified post is `Adopt`, everything else stutters.
`FeedAgreement` compares feeds with each other: two that hold a post under one
identifier hold the same post. `RoundProgress` needs an invariant of its own,
`DownInv` (a daemon that is not running has no thread at work), for a start
must not look like a round begun again.

`FriendProtocolProofs`. `Consent` proves `ConsentTrace`; the message part is
what makes the entry part inductive. `Refinement` assumes
`UserModel = "recipient"`: its invariant adds that approvals in the call table
and on the network were made (`CallTrace`), and that only askers were accepted
(`OnlyAskersAccepted`). It holds with losses, halts, repeated and crossing
requests; what fails there is agreement, not consent. `Agreement` proves
`SettledAgreement` in the README's flow, for any number of peers (`ReadmeFlow`:
requests in one direction between two users and only once, no removals,
everything reliable, as in `friend_flow`; `friend_crossing` shows that it fails
without). Its invariant `PairInv` follows each request and each answer: a
request is under way once and finds no entry it could overwrite, and an approval
stays where it was given and is in the call table, on the network or stored on
the other side. The last case needs that who asked has been running ever since,
for the code never sends an approval twice. From the same invariant follow
`ApprovalsAreKept` and `FriendshipsLast`. `RecipientApproved` is about the
property that `friend_consent` refutes: it holds, with all losses, halts and
crossing requests, as soon as users approve only those who asked them, so that
the Approve button on one's own requests is the whole of that disagreement.

`PeerBookProofs`. `Inv` says what a fetch under way is worth: the name it
carries is one its peer has had, and a transaction that may still commit has
read the record as it is now. From the second part follows `AddressSafety`
(without conflict detection it fails: TLC shows it for the mutant
`MayCommitAlways`), from both `Refinement`: a commit is `Learn`, the user's
calls are `Enter` and `Approve`, everything else stutters. `RealNames` (a book
holds no name its peer has not had) is proved of `PeerDirectory`, where it takes
two cases, and carried over. `SettledNames` says which answers may still do
harm: without its premise `Current` (no answer under way is older than the
peer's last change) TLC shows the present name being overwritten.

`UiClientProofs`. `OneLoop` counts: requests of `connect`, timers and sockets
together with past exceptions never outnumber the mounts, and are more than
none once App was mounted. What makes it inductive is that `ws`, when set, names
a socket that is still there; otherwise a clean-up would close a socket that has
had its `onclose`, or a mount would rely on a loop that is gone. The account of
each step rests on lemmas on the cardinality of the requests in a queue and of
the occupied slots. `Surroundings` shows that the client's daemons are a
behaviour of `DaemonSlot`, so that `TrueFile` holds of them; with it
`OrderedPorts` proves that the ports of sockets, of `baseUrl`, of the answers
on their way (in order) and of the last daemon never decrease in this order, and
`KeptUp` that the client therefore never goes back.

`DaemonSlotProofs`. `TrueFile` says what a reader of the port file can rely on:
the daemon that is up is in it, and never one before the last. It is carried
over to `UiClient` by `Surroundings` and to `Lifecycle` by `ImplementsSlot`
(`NewestPort`).

`LifecycleProofs`. `LockInv` says who may touch the port file: from the opened
store to its close a process holds the lock, so there is at most one.
`ServerInv` adds that who serves has the newest port and wrote the file last;
`ServerInFile` follows. `ImplementsSlot` maps `WritePort` to `Begin`,
`TruncatePort` to `Vanish` and the end of the serving process, in order or not,
to `End`; everything before the lock stutters. `IdentityPersists` rests on
`IdentityInv`: unless `remade`, one process at most is making a key, from no key
through a torn one to its own; until then nobody runs under an identity, and
afterwards everybody has that one. `IdentityReplaced` has no premise: a step that
touches a key file that holds a key is a `TruncateKey` or a `WriteKey`, and comes
after a failed read or a race. What a lone start does to the key in the file
under fairness is refuted by `identity_replaced`, and the theorems claim nothing
of it. `OrphansTold` has an invariant of the shells, `HandleInv`: a daemon that
belongs to a shell is its present child or was told to end, and a shell that has
ended has no child. `LoneStart` rests on `LockInv`: an ended process holds no
lock; the torn key file is the one exception it names.

`EventHubProofs`. `MutexInv` ties the calls that write to the mutex and `left` to
the table; `TableInv` says that nothing is sent before registration; `SentInv`
accounts for what a client has been sent: its part of the log, without the last
event exactly while the running broadcast still has it before it. From these follow `OneOrder` and `ImplementsLog` (taking the mutex
is `Publish`, registering is `Subscribe`, receiving is `Deliver`). `LogInv` adds
that what is in the log has been saved, and gives `ToldAreShown`. `Once` (nobody
is sent an event twice) is read off `EventLog`, which publishes an event once.
`TableOfOpen` needs beside its own statement that a write fails only for a
client of the table (`MutexInv`). `MutexProgress` uses that a buffer holds
at least one event: a full one is one whose page has something to read.

Model-checked only: the liveness properties of the table above, which need
fairness and `ENABLED`, and the five disagreements of the runs, which are counterexamples.
Every invariant, action property and refinement of a passing run is proved.

## Not modelled

Timestamps and the order of the feed; biographies; DHT, NAT and relay
transport; HTTP plumbing; rendering and the query library beyond "invalidated,
so fetched again"; the test client; build files. The relay's access list asks
`IsFriend`, which `FriendProtocol` models; that it lets everybody in until
`SetStore` (node.go:36) is a window of seconds inside libp2p's relay service,
whose reservations no code here sees. Partial contents of the port file other
than none, a crash of the shell, and a data directory on a file system without
locks are left out of `Lifecycle`. `PROJECT.json` gives the reason for each
component.

## Plan

1. Done: `FeedSync`, `FriendProtocol`, `PeerBook`, `UiClient`, `Lifecycle`,
   `EventHub`, their abstractions, runs and proofs; `UiClient` on `DaemonSlot`.
2. Composition of friends, peer book and feeds: who ends up syncing whom after
   the flow, given that receiving an approval stores no profile, and who dials a
   known peer after a restart.
3. The relay's access list with its window before `SetStore`.
