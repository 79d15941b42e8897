---- MODULE FriendProtocol ----
(***************************************************************************)
(* Friend requests and approvals between MyFeed daemons: each API call is  *)
(* a store transaction followed by a message on a stream of its own, with  *)
(* no acknowledgement and no retry; streams are unordered with respect to  *)
(* each other and may be lost; a daemon may halt between any two steps.    *)
(*                                                                         *)
(* Sources: daemon/api/server.go (handleFriends, handleFriendAction),      *)
(* daemon/protocols/protocols.go (friend streams), daemon/store/store.go   *)
(* (friend: and profile:remote: keys), daemon/main.go (callbacks).         *)
(***************************************************************************)
EXTENDS Naturals, FiniteSets

CONSTANTS
    Peers,        \* the daemons
    MayAsk,       \* <<p, q>>: p's user may send q a request
    MayApprove,   \* <<p, q>>: p's user may approve q
    MayRemove,    \* <<p, q>>: p's user may remove or reject q
    UserModel,    \* what p's user must see before approving q, below
    AskOnce,      \* TRUE: nobody sends the same request twice
    Reliable,     \* TRUE: no halt, no failed call, no lost message
    MaxCalls,     \* bound on the API calls a daemon runs at once
    MaxInFlight   \* bound on the copies of one message under way

ASSUME ConstantsAssumption ==
    /\ MayAsk \cup MayApprove \cup MayRemove \subseteq Peers \X Peers
    /\ UserModel \in {"any", "listed", "recipient"}
    /\ AskOnce \in BOOLEAN /\ Reliable \in BOOLEAN
    /\ MaxCalls \in Nat \ {0} /\ MaxInFlight \in Nat \ {0}

VARIABLES
    running,    \* the daemons that are up
    friend,     \* friend[p][q]: the value of friend:q in p's store
    known,      \* known[p]: the profile:remote: keys that approving wrote
    calls,      \* calls[p]: API calls between their first and last step
    net,        \* net[m]: the copies of message m on open streams
    asked,      \* history: <<p, q>>: p's user has sent q a request
    accepted    \* history: <<p, q>>: p's user has approved q

vars == <<running, friend, known, calls, net, asked, accepted>>

Statuses == {"none", "pending", "approved"}

Messages == [kind : {"request", "approved"}, from : Peers, to : Peers]

\* Where an API call is: before SendFriendRequest, before SaveRemoteProfile,
\* before SendFriendApproved.
Calls == {"sendRequest", "saveProfile", "sendApproved"} \X Peers

Message(k, p, q) == [kind |-> k, from |-> p, to |-> q]

Init ==
    /\ running = {}
    /\ friend = [p \in Peers |-> [q \in Peers |-> "none"]]
    /\ known = [p \in Peers |-> {}]
    /\ calls = [p \in Peers |-> {}]
    /\ net = [m \in Messages |-> 0]
    /\ asked = {} /\ accepted = {}

----------------------------------------------------------------------------
(* API calls.                                                              *)

\* SaveFriend and RemoveFriend write the key whatever it holds.
SaveFriend(p, q, status) == friend' = [friend EXCEPT ![p][q] = status]

\* What the relay's ACL asks.
IsFriend(p, q) == friend[p][q] = "approved"

\* What the profile screen lists, each with a button to approve.
GetPendingRequests(p) == {q \in Peers : friend[p][q] = "pending"}

BeginCall(p, call) ==
    /\ p \in running
    /\ Cardinality(calls[p]) < MaxCalls
    /\ call \notin calls[p]
    /\ calls' = [calls EXCEPT ![p] = @ \cup {call}]

\* A message is written to a stream if the peer is up; the error of one that
\* is not is ignored.
Deliverable(m) == m.to \in running /\ net[m] < MaxInFlight

Send(m) == Deliverable(m) /\ net' = [net EXCEPT ![m] = @ + 1]

SendFails(m) == (Reliable => m.to \notin running) /\ UNCHANGED net

\* POST /api/friends: the request is stored as pending on the side of the
\* one who makes it, over anything that was there.
PostFriendRequest(p, q) ==
    /\ <<p, q>> \in MayAsk
    /\ AskOnce => <<p, q>> \notin asked
    /\ BeginCall(p, <<"sendRequest", q>>)
    /\ SaveFriend(p, q, "pending")
    /\ asked' = asked \cup {<<p, q>>}
    /\ UNCHANGED <<running, known, net, accepted>>

\* SendFriendRequest.  (The event friend:request goes to p's own UI after it:
\* an event of EventHub.)
SendFriendRequest(p, q) ==
    /\ <<"sendRequest", q>> \in calls[p]
    /\ Send(Message("request", p, q)) \/ SendFails(Message("request", p, q))
    /\ calls' = [calls EXCEPT ![p] = @ \ {<<"sendRequest", q>>}]
    /\ UNCHANGED <<running, friend, known, asked, accepted>>

\* Mutant of MayPress: the user approves unasked.
MayPressAnything(p, q) == TRUE

\* What the user goes by.  The API approves whoever it is given; the UI
\* offers Approve for every pending entry; an attentive user approves only
\* those who asked.
MayPress(p, q) ==
    /\ UserModel # "any" => q \in GetPendingRequests(p)
    /\ UserModel = "recipient" => <<q, p>> \in asked

\* POST /api/friends/:id?action=approve.
ApproveFriend(p, q) ==
    /\ <<p, q>> \in MayApprove
    /\ MayPress(p, q)
    /\ BeginCall(p, <<"saveProfile", q>>)
    /\ SaveFriend(p, q, "approved")
    /\ accepted' = accepted \cup {<<p, q>>}
    /\ UNCHANGED <<running, known, net, asked>>

\* Mutant of SaveRemoteProfile: the handler returns after it.
SaveRemoteProfileReturns(p, q) ==
    /\ <<"saveProfile", q>> \in calls[p]
    /\ known' = [known EXCEPT ![p] = @ \cup {q}]
    /\ calls' = [calls EXCEPT ![p] = @ \ {<<"saveProfile", q>>}]
    /\ UNCHANGED <<running, friend, net, asked, accepted>>

\* SaveRemoteProfile, a transaction of its own whose error is ignored.
SaveRemoteProfile(p, q) ==
    /\ <<"saveProfile", q>> \in calls[p]
    /\ \/ known' = [known EXCEPT ![p] = @ \cup {q}]
       \/ ~Reliable /\ UNCHANGED known
    /\ calls' = [calls EXCEPT
                   ![p] = (@ \ {<<"saveProfile", q>>}) \cup {<<"sendApproved", q>>}]
    /\ UNCHANGED <<running, friend, net, asked, accepted>>

\* Mutant of SendFriendApproved: the stream is opened on the other protocol.
SendApprovalAsRequest(p, q) ==
    /\ <<"sendApproved", q>> \in calls[p]
    /\ Send(Message("request", p, q)) \/ SendFails(Message("request", p, q))
    /\ calls' = [calls EXCEPT ![p] = @ \ {<<"sendApproved", q>>}]
    /\ UNCHANGED <<running, friend, known, asked, accepted>>

\* SendFriendApproved.  (The event friend:approved goes to p's own UI, not q's.)
SendFriendApproved(p, q) ==
    /\ <<"sendApproved", q>> \in calls[p]
    /\ Send(Message("approved", p, q)) \/ SendFails(Message("approved", p, q))
    /\ calls' = [calls EXCEPT ![p] = @ \ {<<"sendApproved", q>>}]
    /\ UNCHANGED <<running, friend, known, asked, accepted>>

\* Mutant of RemoveFriend: the entry is marked instead of deleted.
MarkRemoved(p, q) ==
    /\ p \in running
    /\ <<p, q>> \in MayRemove
    /\ SaveFriend(p, q, "removed")
    /\ UNCHANGED <<running, known, calls, net, asked, accepted>>

\* DELETE /api/friends/:id, also the Reject button.  The other side is not
\* told.
RemoveFriend(p, q) ==
    /\ p \in running
    /\ <<p, q>> \in MayRemove
    /\ SaveFriend(p, q, "none")
    /\ UNCHANGED <<running, known, calls, net, asked, accepted>>

----------------------------------------------------------------------------
(* Streams.                                                                *)

Take(m) == net[m] > 0 /\ net' = [net EXCEPT ![m] = @ - 1]

\* Mutant of HandleFriendRequest: a request is approved on arrival.
HandleFriendRequestByApproving(m) ==
    /\ m.kind = "request"
    /\ Take(m)
    /\ SaveFriend(m.to, m.from, "approved")
    /\ UNCHANGED <<running, known, calls, asked, accepted>>

\* handleFriendRequestStream stores pending over anything that was there
\* (its onRequest callback is never set).  The code stores the PeerID of the
\* message, which an honest daemon sets to its own; m.from stands for both.
HandleFriendRequest(m) ==
    /\ m.kind = "request"
    /\ Take(m)
    /\ SaveFriend(m.to, m.from, "pending")
    /\ UNCHANGED <<running, known, calls, asked, accepted>>

\* handleFriendApprovedStream stores approved over anything that was there;
\* the callback main sets prints a line.  Again m.from stands for the PeerID of
\* the message, which is the sender's own if the sender is honest.
HandleFriendApproved(m) ==
    /\ m.kind = "approved"
    /\ Take(m)
    /\ SaveFriend(m.to, m.from, "approved")
    /\ UNCHANGED <<running, known, calls, asked, accepted>>

\* The stream breaks, or the receiver's store fails.
LoseMessage(m) ==
    /\ ~Reliable
    /\ Take(m)
    /\ UNCHANGED <<running, friend, known, calls, asked, accepted>>

\* A signal or a crash of p: its calls end where they are and the streams to
\* it are reset.
Halt(p) ==
    /\ ~Reliable
    /\ p \in running
    /\ running' = running \ {p}
    /\ calls' = [calls EXCEPT ![p] = {}]
    /\ net' = [m \in Messages |-> IF m.to = p THEN 0 ELSE net[m]]
    /\ UNCHANGED <<friend, known, asked, accepted>>

Start(p) ==
    /\ p \notin running
    /\ running' = running \cup {p}
    /\ UNCHANGED <<friend, known, calls, net, asked, accepted>>

----------------------------------------------------------------------------

UserStep(p, q) == PostFriendRequest(p, q) \/ ApproveFriend(p, q) \/ RemoveFriend(p, q)

CallStep(p, q) ==
    SendFriendRequest(p, q) \/ SaveRemoteProfile(p, q) \/ SendFriendApproved(p, q)

Receive(m) == HandleFriendRequest(m) \/ HandleFriendApproved(m)

Next ==
    \/ \E p, q \in Peers : UserStep(p, q) \/ CallStep(p, q)
    \/ \E m \in Messages : Receive(m) \/ LoseMessage(m)
    \/ \E p \in Peers : Halt(p) \/ Start(p)

Spec == Init /\ [][Next]_vars

\* Daemons get started, and every goroutine gets to run.
Fairness ==
    /\ \A p \in Peers : WF_vars(Start(p))
    /\ \A p, q \in Peers : WF_vars(CallStep(p, q))
    /\ \A m \in Messages : WF_vars(Receive(m))

FairSpec == Spec /\ Fairness

----------------------------------------------------------------------------
(* Properties.                                                             *)

\* The tables of the stores, the calls and the network keep their shape.
TypeOK ==
    /\ running \subseteq Peers
    /\ friend \in [Peers -> [Peers -> Statuses]]
    /\ known \in [Peers -> SUBSET Peers]
    /\ calls \in [Peers -> SUBSET Calls]
    /\ net \in [Messages -> Nat]
    /\ asked \subseteq Peers \X Peers
    /\ accepted \subseteq Peers \X Peers

Either(p, q, R) == <<p, q>> \in R \/ <<q, p>> \in R

\* Every entry of a friend list goes back to a user: an approved one to an
\* approval, a pending one to a request, made on one of the two sides, and
\* so does every message under way, through halts, losses and reordering.
ConsentTrace ==
    /\ \A p, q \in Peers :
          /\ IsFriend(p, q) => Either(p, q, accepted)
          /\ friend[p][q] = "pending" => Either(p, q, asked)
    /\ \A m \in Messages : net[m] > 0 =>
          <<m.from, m.to>> \in (IF m.kind = "approved" THEN accepted ELSE asked)

\* README, Friend System: friends must be approved by the recipient of the
\* request.
ApprovedByRecipient ==
    \A p, q \in Peers : IsFriend(p, q) =>
        \/ <<p, q>> \in asked /\ <<q, p>> \in accepted
        \/ <<q, p>> \in asked /\ <<p, q>> \in accepted

Quiet == (\A p \in Peers : calls[p] = {}) /\ (\A m \in Messages : net[m] = 0)

\* README, Friend Flow, step 5: both users are now friends.  Says that when
\* no call and no message is under way, two peers agree whether they are.
SettledAgreement ==
    Quiet => \A p, q \in Peers :
                IsFriend(p, q) <=> IsFriend(q, p)

\* An approval reaches the other side: from then on both are friends, whose
\* daemon was faster with what notwithstanding.
ApprovalBecomesMutual ==
    \A p, q \in Peers :
        <<q, p>> \in accepted ~>
            [](IsFriend(p, q) /\ IsFriend(q, p))

----------------------------------------------------------------------------
(* FriendProtocol implements Friendship if its users approve only those    *)
(* who asked them.                                                         *)

FS == INSTANCE Friendship
        WITH friends <- [p \in Peers |-> {q \in Peers : IsFriend(p, q)}]

\* Nobody counts another as a friend before one asked and the other accepted.
ImplementsFriendship == FS!Spec
====
