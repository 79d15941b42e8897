---- MODULE FriendProtocolProofs ----
(***************************************************************************)
(* Proofs about FriendProtocol, for every set of peers and every           *)
(* environment: type correctness, that every friend list entry goes back   *)
(* to a user, that the protocol implements Friendship as long as users     *)
(* approve only those who asked them, and that both sides agree in the     *)
(* flow of the README.                                                     *)
(***************************************************************************)
EXTENDS FriendProtocol, TLAPS

USE DEF IsFriend

----------------------------------------------------------------------------
(* Type correctness.                                                       *)

LEMMA MessageTypes ==
    /\ \A p, q \in Peers : /\ Message("request", p, q) \in Messages
                           /\ Message("approved", p, q) \in Messages
    /\ \A m \in Messages : m.from \in Peers /\ m.to \in Peers
BY DEF Message, Messages

LEMMA SaveFriendType ==
    ASSUME TypeOK, NEW p \in Peers, NEW q \in Peers, NEW v \in Statuses,
           SaveFriend(p, q, v)
    PROVE  /\ friend' \in [Peers -> [Peers -> Statuses]]
           /\ \A r, u \in Peers :
                 friend'[r][u] = IF r = p /\ u = q THEN v ELSE friend[r][u]
BY DEF SaveFriend, TypeOK

\* Sending and taking messages keep the counts.
LEMMA NetType ==
    ASSUME TypeOK, NEW m \in Messages, Send(m) \/ SendFails(m) \/ Take(m)
    PROVE  /\ net' \in [Messages -> Nat]
           /\ \A n \in Messages : net'[n] > 0 => net[n] > 0 \/ (n = m /\ Send(m))
<1>1. CASE Send(m)
  BY <1>1 DEF Send, TypeOK
<1>2. CASE SendFails(m)
  BY <1>2 DEF SendFails, TypeOK
<1>3. CASE Take(m)
  <2>1. net[m] \in Nat /\ net[m] - 1 \in Nat
    BY <1>3 DEF Take, TypeOK
  <2> QED BY <1>3, <2>1 DEF Take, TypeOK
<1> QED BY <1>1, <1>2, <1>3

LEMMA InitType == Init => TypeOK
BY DEF Init, TypeOK, Statuses

\* Every step keeps the types.
LEMMA NextType == ASSUME TypeOK, [Next]_vars PROVE TypeOK'
<1> USE DEF Statuses
<1>1. ASSUME NEW p \in Peers, NEW q \in Peers, UserStep(p, q) PROVE TypeOK'
  <2>1. CASE PostFriendRequest(p, q)
    <3>1. friend' \in [Peers -> [Peers -> Statuses]]
      BY <2>1, SaveFriendType DEF PostFriendRequest
    <3>2. calls' \in [Peers -> SUBSET Calls]
      BY <2>1 DEF PostFriendRequest, BeginCall, Calls, TypeOK
    <3> QED BY <2>1, <3>1, <3>2 DEF PostFriendRequest, TypeOK
  <2>2. CASE ApproveFriend(p, q)
    <3>1. friend' \in [Peers -> [Peers -> Statuses]]
      BY <2>2, SaveFriendType DEF ApproveFriend
    <3>2. calls' \in [Peers -> SUBSET Calls]
      BY <2>2 DEF ApproveFriend, BeginCall, Calls, TypeOK
    <3> QED BY <2>2, <3>1, <3>2 DEF ApproveFriend, TypeOK
  <2>3. CASE RemoveFriend(p, q)
    <3>1. friend' \in [Peers -> [Peers -> Statuses]]
      BY <2>3, SaveFriendType DEF RemoveFriend
    <3> QED BY <2>3, <3>1 DEF RemoveFriend, TypeOK
  <2> QED BY <1>1, <2>1, <2>2, <2>3 DEF UserStep
<1>2. ASSUME NEW p \in Peers, NEW q \in Peers, CallStep(p, q) PROVE TypeOK'
  <2>1. CASE SendFriendRequest(p, q)
    <3>1. net' \in [Messages -> Nat]
      BY <2>1, MessageTypes, NetType DEF SendFriendRequest
    <3>2. calls' \in [Peers -> SUBSET Calls]
      BY <2>1 DEF SendFriendRequest, TypeOK
    <3> QED BY <2>1, <3>1, <3>2 DEF SendFriendRequest, TypeOK
  <2>2. CASE SaveRemoteProfile(p, q)
    <3>1. calls' \in [Peers -> SUBSET Calls]
      BY <2>2 DEF SaveRemoteProfile, Calls, TypeOK
    <3>2. known' \in [Peers -> SUBSET Peers]
      BY <2>2 DEF SaveRemoteProfile, TypeOK
    <3> QED BY <2>2, <3>1, <3>2 DEF SaveRemoteProfile, TypeOK
  <2>3. CASE SendFriendApproved(p, q)
    <3>1. net' \in [Messages -> Nat]
      BY <2>3, MessageTypes, NetType DEF SendFriendApproved
    <3>2. calls' \in [Peers -> SUBSET Calls]
      BY <2>3 DEF SendFriendApproved, TypeOK
    <3> QED BY <2>3, <3>1, <3>2 DEF SendFriendApproved, TypeOK
  <2> QED BY <1>2, <2>1, <2>2, <2>3 DEF CallStep
<1>3. ASSUME NEW m \in Messages, Receive(m) \/ LoseMessage(m) PROVE TypeOK'
  <2>1. net' \in [Messages -> Nat]
    BY <1>3, NetType DEF Receive, LoseMessage, HandleFriendRequest, HandleFriendApproved
  <2>2. friend' \in [Peers -> [Peers -> Statuses]]
    BY <1>3, MessageTypes, SaveFriendType
       DEF Receive, LoseMessage, HandleFriendRequest, HandleFriendApproved, TypeOK
  <2> QED BY <1>3, <2>1, <2>2
          DEF Receive, LoseMessage, HandleFriendRequest, HandleFriendApproved, TypeOK
<1>4. ASSUME NEW p \in Peers, Halt(p) \/ Start(p) PROVE TypeOK'
  <2>1. CASE Halt(p)
    <3>1. net' \in [Messages -> Nat]
      BY <2>1 DEF Halt, TypeOK
    <3>2. calls' \in [Peers -> SUBSET Calls]
      BY <2>1 DEF Halt, TypeOK
    <3> QED BY <2>1, <3>1, <3>2 DEF Halt, TypeOK
  <2>2. CASE Start(p)
    BY <2>2 DEF Start, TypeOK
  <2> QED BY <1>4, <2>1, <2>2
<1>5. CASE UNCHANGED vars
  BY <1>5 DEF vars, TypeOK
<1> QED BY <1>1, <1>2, <1>3, <1>4, <1>5 DEF Next

----------------------------------------------------------------------------
(* Consent.                                                                *)

\* A call under way goes back to its user.
CallTrace ==
    \A p, q \in Peers :
        /\ <<"sendRequest", q>> \in calls[p] => <<p, q>> \in asked
        /\ <<"saveProfile", q>> \in calls[p] => <<p, q>> \in accepted
        /\ <<"sendApproved", q>> \in calls[p] => <<p, q>> \in accepted

Inv == ConsentTrace /\ CallTrace

LEMMA InitInv == Init => Inv
BY DEF Init, Inv, ConsentTrace, CallTrace

\* What the users have done is never forgotten.
LEMMA HistoryGrows ==
    ASSUME [Next]_vars
    PROVE  asked \subseteq asked' /\ accepted \subseteq accepted'
<1>1. ASSUME NEW p \in Peers, NEW q \in Peers, UserStep(p, q) \/ CallStep(p, q)
      PROVE  asked \subseteq asked' /\ accepted \subseteq accepted'
  BY <1>1 DEF UserStep, CallStep, PostFriendRequest, ApproveFriend, RemoveFriend,
     SendFriendRequest, SaveRemoteProfile, SendFriendApproved
<1>2. ASSUME NEW m \in Messages, Receive(m) \/ LoseMessage(m)
      PROVE  asked \subseteq asked' /\ accepted \subseteq accepted'
  BY <1>2 DEF Receive, LoseMessage, HandleFriendRequest, HandleFriendApproved
<1>3. ASSUME NEW p \in Peers, Halt(p) \/ Start(p)
      PROVE  asked \subseteq asked' /\ accepted \subseteq accepted'
  BY <1>3 DEF Halt, Start
<1> QED BY <1>1, <1>2, <1>3 DEF Next, vars

\* The three parts of the invariant, kept whenever the friend lists, the
\* messages and the calls after the step go back to a user.
LEMMA TraceStep ==
    ASSUME Inv, asked \subseteq asked', accepted \subseteq accepted',
           \A p, q \in Peers :
              \/ friend'[p][q] = friend[p][q]
              \/ friend'[p][q] = "approved" /\ Either(p, q, accepted')
              \/ friend'[p][q] = "pending" /\ Either(p, q, asked')
              \/ friend'[p][q] = "none",
           \A m \in Messages : net'[m] > 0 =>
              \/ net[m] > 0
              \/ m.kind = "approved" /\ <<m.from, m.to>> \in accepted'
              \/ m.kind = "request" /\ <<m.from, m.to>> \in asked',
           CallTrace'
    PROVE  Inv'
<1>1. ASSUME NEW p \in Peers, NEW q \in Peers
      PROVE  /\ friend'[p][q] = "approved" => Either(p, q, accepted')
             /\ friend'[p][q] = "pending" => Either(p, q, asked')
  BY DEF Inv, ConsentTrace, Either
<1>2. ASSUME NEW m \in Messages, net'[m] > 0
      PROVE  <<m.from, m.to>> \in (IF m.kind = "approved" THEN accepted' ELSE asked')
  BY <1>2 DEF Inv, ConsentTrace
<1> QED BY <1>1, <1>2 DEF Inv, ConsentTrace, Either

\* Every step keeps the invariant.
LEMMA NextInv == ASSUME TypeOK, Inv, [Next]_vars PROVE Inv'
<1>0. asked \subseteq asked' /\ accepted \subseteq accepted'
  BY HistoryGrows
<1>1. ASSUME NEW p \in Peers, NEW q \in Peers, UserStep(p, q) PROVE Inv'
  <2>1. CASE PostFriendRequest(p, q)
    <3>1. \A r, u \in Peers :
             friend'[r][u] = IF r = p /\ u = q THEN "pending" ELSE friend[r][u]
      BY <2>1, SaveFriendType DEF PostFriendRequest, Statuses
    <3>2. CallTrace'
      BY <2>1 DEF PostFriendRequest, BeginCall, Inv, CallTrace, TypeOK
    <3> QED BY <1>0, <2>1, <3>1, <3>2, TraceStep DEF PostFriendRequest, Either
  <2>2. CASE ApproveFriend(p, q)
    <3>1. \A r, u \in Peers :
             friend'[r][u] = IF r = p /\ u = q THEN "approved" ELSE friend[r][u]
      BY <2>2, SaveFriendType DEF ApproveFriend, Statuses
    <3>2. CallTrace'
      BY <2>2 DEF ApproveFriend, BeginCall, Inv, CallTrace, TypeOK
    <3> QED BY <1>0, <2>2, <3>1, <3>2, TraceStep DEF ApproveFriend, Either
  <2>3. CASE RemoveFriend(p, q)
    <3>1. \A r, u \in Peers :
             friend'[r][u] = IF r = p /\ u = q THEN "none" ELSE friend[r][u]
      BY <2>3, SaveFriendType DEF RemoveFriend, Statuses
    <3>2. CallTrace'
      BY <2>3 DEF RemoveFriend, Inv, CallTrace
    <3> QED BY <1>0, <2>3, <3>1, <3>2, TraceStep DEF RemoveFriend
  <2> QED BY <1>1, <2>1, <2>2, <2>3 DEF UserStep
<1>2. ASSUME NEW p \in Peers, NEW q \in Peers, CallStep(p, q) PROVE Inv'
  <2>1. CASE SendFriendRequest(p, q)
    <3> DEFINE m == Message("request", p, q)
    <3>1. m.kind = "request" /\ <<m.from, m.to>> \in asked
      BY <2>1 DEF SendFriendRequest, Message, Inv, CallTrace
    <3>2. \A n \in Messages : net'[n] > 0 => net[n] > 0 \/ n = m
      BY <2>1, MessageTypes, NetType DEF SendFriendRequest
    <3>3. CallTrace'
      BY <2>1 DEF SendFriendRequest, Inv, CallTrace, TypeOK
    <3> HIDE DEF m
    <3> QED BY <1>0, <2>1, <3>1, <3>2, <3>3, TraceStep DEF SendFriendRequest
  <2>2. CASE SaveRemoteProfile(p, q)
    <3>1. CallTrace'
      BY <2>2 DEF SaveRemoteProfile, Inv, CallTrace, TypeOK
    <3> QED BY <1>0, <2>2, <3>1, TraceStep DEF SaveRemoteProfile
  <2>3. CASE SendFriendApproved(p, q)
    <3> DEFINE m == Message("approved", p, q)
    <3>1. m.kind = "approved" /\ <<m.from, m.to>> \in accepted
      BY <2>3 DEF SendFriendApproved, Message, Inv, CallTrace
    <3>2. \A n \in Messages : net'[n] > 0 => net[n] > 0 \/ n = m
      BY <2>3, MessageTypes, NetType DEF SendFriendApproved
    <3>3. CallTrace'
      BY <2>3 DEF SendFriendApproved, Inv, CallTrace, TypeOK
    <3> HIDE DEF m
    <3> QED BY <1>0, <2>3, <3>1, <3>2, <3>3, TraceStep DEF SendFriendApproved
  <2> QED BY <1>2, <2>1, <2>2, <2>3 DEF CallStep
<1>3. ASSUME NEW m \in Messages, Receive(m) \/ LoseMessage(m) PROVE Inv'
  <2>1. Take(m) /\ UNCHANGED <<calls, asked, accepted>>
    BY <1>3 DEF Receive, LoseMessage, HandleFriendRequest, HandleFriendApproved
  <2>2. \A n \in Messages : net'[n] > 0 => net[n] > 0
    BY <2>1 DEF Take, TypeOK
  <2>3. <<m.from, m.to>> \in (IF m.kind = "approved" THEN accepted ELSE asked)
    BY <2>1 DEF Take, Inv, ConsentTrace
  <2>4. CallTrace'
    BY <2>1 DEF Inv, CallTrace
  <2>5. m.from \in Peers /\ m.to \in Peers
    BY MessageTypes
  <2>6. CASE HandleFriendRequest(m)
    <3>1. \A r, u \in Peers :
             friend'[r][u] = IF r = m.to /\ u = m.from THEN "pending" ELSE friend[r][u]
      BY <2>5, <2>6, SaveFriendType DEF HandleFriendRequest, Statuses
    <3>2. <<m.from, m.to>> \in asked'
      BY <2>1, <2>3, <2>6 DEF HandleFriendRequest
    <3> QED BY <1>0, <2>2, <2>4, <3>1, <3>2, TraceStep DEF Either
  <2>7. CASE HandleFriendApproved(m)
    <3>1. \A r, u \in Peers :
             friend'[r][u] = IF r = m.to /\ u = m.from THEN "approved" ELSE friend[r][u]
      BY <2>5, <2>7, SaveFriendType DEF HandleFriendApproved, Statuses
    <3>2. <<m.from, m.to>> \in accepted'
      BY <2>1, <2>3, <2>7 DEF HandleFriendApproved
    <3> QED BY <1>0, <2>2, <2>4, <3>1, <3>2, TraceStep DEF Either
  <2>8. CASE LoseMessage(m)
    BY <1>0, <2>2, <2>4, <2>8, TraceStep DEF LoseMessage
  <2> QED BY <1>3, <2>6, <2>7, <2>8 DEF Receive
<1>4. ASSUME NEW p \in Peers, Halt(p) \/ Start(p) PROVE Inv'
  <2>1. UNCHANGED <<friend, asked, accepted>>
    BY <1>4 DEF Halt, Start
  <2>2. \A n \in Messages : net'[n] > 0 => net[n] > 0
    BY <1>4 DEF Halt, Start, TypeOK
  <2>3. \A r \in Peers : calls'[r] \subseteq calls[r]
    BY <1>4 DEF Halt, Start, TypeOK
  <2>4. CallTrace'
    BY <2>1, <2>3 DEF Inv, CallTrace
  <2> QED BY <1>0, <2>1, <2>2, <2>4, TraceStep
<1>5. CASE UNCHANGED vars
  BY <1>5 DEF vars, Inv, ConsentTrace, CallTrace, Either
<1> QED BY <1>1, <1>2, <1>3, <1>4, <1>5 DEF Next

THEOREM Invariance == Spec => [](TypeOK /\ Inv)
<1>1. Init => TypeOK /\ Inv
  BY InitType, InitInv
<1>2. TypeOK /\ Inv /\ [Next]_vars => (TypeOK /\ Inv)'
  BY NextType, NextInv
<1> QED BY <1>1, <1>2, PTL DEF Spec

\* Friend lists, calls and messages keep their shape.
THEOREM TypeCorrect == Spec => []TypeOK
BY Invariance, PTL

\* Whatever is lost, reordered or halted, and whatever users do, every entry
\* of a friend list and every message under way goes back to a user's act.
THEOREM Consent == Spec => []ConsentTrace
<1>1. Inv => ConsentTrace
  BY DEF Inv
<1> QED BY <1>1, Invariance, PTL

----------------------------------------------------------------------------
(* Friendship, when users approve only those who asked.                    *)

\* What an attentive user guarantees: nobody is accepted who did not ask.
OnlyAskersAccepted ==
    \A p, q \in Peers : <<p, q>> \in accepted => <<q, p>> \in asked

LEMMA AcceptedAsked ==
    ASSUME UserModel = "recipient", OnlyAskersAccepted, [Next]_vars
    PROVE  OnlyAskersAccepted'
<1>0. asked \subseteq asked'
  BY HistoryGrows
<1>1. ASSUME NEW p \in Peers, NEW q \in Peers, ApproveFriend(p, q)
      PROVE  OnlyAskersAccepted'
  BY <1>1 DEF ApproveFriend, MayPress, OnlyAskersAccepted
<1>2. ASSUME NEW p \in Peers, NEW q \in Peers,
             PostFriendRequest(p, q) \/ RemoveFriend(p, q) \/ CallStep(p, q)
      PROVE  UNCHANGED accepted
  BY <1>2 DEF PostFriendRequest, RemoveFriend, CallStep, SendFriendRequest,
     SaveRemoteProfile, SendFriendApproved
<1>3. ASSUME NEW m \in Messages, Receive(m) \/ LoseMessage(m) PROVE UNCHANGED accepted
  BY <1>3 DEF Receive, LoseMessage, HandleFriendRequest, HandleFriendApproved
<1>4. ASSUME NEW p \in Peers, Halt(p) \/ Start(p) PROVE UNCHANGED accepted
  BY <1>4 DEF Halt, Start
<1>5. CASE UNCHANGED accepted
  BY <1>0, <1>5 DEF OnlyAskersAccepted
<1> QED BY <1>1, <1>2, <1>3, <1>4, <1>5 DEF Next, UserStep, vars

\* Storing a status adds the friend to the abstract list or takes it off.
LEMMA FriendsMap ==
    ASSUME TypeOK, NEW p \in Peers, NEW q \in Peers, NEW v \in Statuses,
           SaveFriend(p, q, v)
    PROVE  LET F == [r \in Peers |-> {u \in Peers : friend[r][u] = "approved"}]
               G == [r \in Peers |-> {u \in Peers : friend'[r][u] = "approved"}]
           IN  G = IF v = "approved" THEN [F EXCEPT ![p] = @ \cup {q}]
                                     ELSE [F EXCEPT ![p] = @ \ {q}]
<1> DEFINE F == [r \in Peers |-> {u \in Peers : friend[r][u] = "approved"}]
           G == [r \in Peers |-> {u \in Peers : friend'[r][u] = "approved"}]
<1>1. \A r, u \in Peers : friend'[r][u] = IF r = p /\ u = q THEN v ELSE friend[r][u]
  BY SaveFriendType
<1>2. \A r \in Peers : r # p => G[r] = F[r]
  BY <1>1
<1>3. CASE v = "approved"
  <2>1. G[p] = F[p] \cup {q}
    BY <1>1, <1>3
  <2>2. G = [F EXCEPT ![p] = F[p] \cup {q}]
    BY <1>2, <2>1
  <2> QED BY <1>3, <2>2
<1>4. CASE v # "approved"
  <2>1. G[p] = F[p] \ {q}
    BY <1>1, <1>4
  <2>2. G = [F EXCEPT ![p] = F[p] \ {q}]
    BY <1>2, <2>1
  <2> QED BY <1>4, <2>2
<1> QED BY <1>3, <1>4

\* One step of the daemons is a step of Friendship or none.
LEMMA StepMaps ==
    ASSUME TypeOK, Inv, UserModel = "recipient", OnlyAskersAccepted, [Next]_vars
    PROVE  FS!Next \/ UNCHANGED FS!fsVars
<1> USE DEF Statuses
<1>1. ASSUME NEW p \in Peers, NEW q \in Peers, PostFriendRequest(p, q) PROVE FS!Ask(p, q)
  BY <1>1, FriendsMap DEF PostFriendRequest, FS!Ask
<1>2. ASSUME NEW p \in Peers, NEW q \in Peers, ApproveFriend(p, q) PROVE FS!Accept(p, q)
  BY <1>2, FriendsMap DEF ApproveFriend, MayPress, FS!Accept
<1>3. ASSUME NEW p \in Peers, NEW q \in Peers, RemoveFriend(p, q) PROVE FS!Drop(p, q)
  BY <1>3, FriendsMap DEF RemoveFriend, FS!Drop
<1>4. ASSUME NEW p \in Peers, NEW q \in Peers, CallStep(p, q) PROVE UNCHANGED FS!fsVars
  BY <1>4 DEF CallStep, SendFriendRequest, SaveRemoteProfile, SendFriendApproved, FS!fsVars
<1>5. ASSUME NEW m \in Messages, HandleFriendRequest(m) PROVE FS!Hear(m.to, m.from)
  <2>1. m.from \in Peers /\ m.to \in Peers
    BY MessageTypes
  <2>2. <<m.from, m.to>> \in asked
    BY <1>5 DEF HandleFriendRequest, Take, Inv, ConsentTrace
  <2> QED BY <1>5, <2>1, <2>2, FriendsMap DEF HandleFriendRequest, FS!Hear
<1>6. ASSUME NEW m \in Messages, HandleFriendApproved(m) PROVE FS!Confirm(m.to, m.from)
  <2>1. m.from \in Peers /\ m.to \in Peers
    BY MessageTypes
  <2>2. <<m.from, m.to>> \in accepted
    BY <1>6 DEF HandleFriendApproved, Take, Inv, ConsentTrace
  <2>3. <<m.to, m.from>> \in asked
    BY <2>1, <2>2 DEF OnlyAskersAccepted
  <2> QED BY <1>6, <2>1, <2>2, <2>3, FriendsMap DEF HandleFriendApproved, FS!Confirm
<1>7. ASSUME NEW m \in Messages, LoseMessage(m) PROVE UNCHANGED FS!fsVars
  BY <1>7 DEF LoseMessage, FS!fsVars
<1>8. ASSUME NEW p \in Peers, Halt(p) \/ Start(p) PROVE UNCHANGED FS!fsVars
  BY <1>8 DEF Halt, Start, FS!fsVars
<1>9. CASE UNCHANGED vars
  BY <1>9 DEF vars, FS!fsVars
<1>10. \A m \in Messages : m.from \in Peers /\ m.to \in Peers
  BY MessageTypes
<1>11. CASE \E p, q \in Peers : UserStep(p, q)
  BY <1>1, <1>2, <1>3, <1>11 DEF UserStep, FS!Next
<1>12. CASE \E m \in Messages : Receive(m)
  BY <1>5, <1>6, <1>10, <1>12 DEF Receive, FS!Next
<1> QED BY <1>4, <1>7, <1>8, <1>9, <1>11, <1>12 DEF Next

\* If users approve only those who asked them, the daemons keep the promise
\* of mutual approval, with halts, lost and reordered messages, repeated
\* requests and removals.
THEOREM Refinement == ASSUME UserModel = "recipient" PROVE Spec => ImplementsFriendship
<1>1. Init => FS!Init /\ OnlyAskersAccepted
  BY DEF Init, FS!Init, OnlyAskersAccepted
<1>2. OnlyAskersAccepted /\ [Next]_vars => OnlyAskersAccepted'
  BY AcceptedAsked
<1>3. TypeOK /\ Inv /\ OnlyAskersAccepted /\ [Next]_vars => [FS!Next]_(FS!fsVars)
  BY StepMaps
<1> QED BY <1>1, <1>2, <1>3, Invariance, PTL DEF Spec, ImplementsFriendship, FS!Spec

\* The README's rule, friends are approved by the recipient of the request,
\* for every MayAsk, MayRemove and environment, with crossing requests: the
\* one way to break it is the Approve button of whoever made the request.
THEOREM RecipientApproved ==
    ASSUME UserModel = "recipient" PROVE Spec => []ApprovedByRecipient
<1>1. Init => OnlyAskersAccepted
  BY DEF Init, OnlyAskersAccepted
<1>2. OnlyAskersAccepted /\ [Next]_vars => OnlyAskersAccepted'
  BY AcceptedAsked
<1>3. Inv /\ OnlyAskersAccepted => ApprovedByRecipient
  BY DEF Inv, ConsentTrace, OnlyAskersAccepted, Either, ApprovedByRecipient
<1> QED BY <1>1, <1>2, <1>3, Invariance, PTL DEF Spec

----------------------------------------------------------------------------
(* Agreement, in the flow of the README: one of two users asks, once, and  *)
(* the other answers; daemons stay up and messages arrive.                 *)

ReadmeFlow ==
    /\ Reliable /\ AskOnce /\ UserModel = "recipient" /\ MayRemove = {}
    /\ \A p, q \in Peers : <<p, q>> \in MayAsk => <<q, p>> \notin MayAsk

\* An approval of q by p that q has not stored yet.
Answering(p, q) ==
    \/ <<"saveProfile", q>> \in calls[p]
    \/ <<"sendApproved", q>> \in calls[p]
    \/ net[Message("approved", p, q)] > 0

\* A request is under way once and finds no entry, so that it overwrites none;
\* an approval stays where it was given, and is under way or has arrived.
PairInv(p, q) ==
    /\ <<p, q>> \in asked => <<p, q>> \in MayAsk /\ p \in running
    /\ <<"sendRequest", q>> \in calls[p] =>
          net[Message("request", p, q)] = 0 /\ friend[q][p] = "none"
    /\ net[Message("request", p, q)] > 0 =>
          net[Message("request", p, q)] = 1 /\ friend[q][p] = "none"
    /\ <<p, q>> \in accepted =>
          friend[p][q] = "approved" /\ (Answering(p, q) \/ friend[q][p] = "approved")

FlowInv == \A p, q \in Peers : PairInv(p, q)

LEMMA MessageIs ==
    /\ \A k, l \in {"request", "approved"}, p, q, r, u \in Peers :
          Message(k, p, q) = Message(l, r, u) <=> k = l /\ p = r /\ q = u
    /\ \A m \in Messages : /\ m = Message(m.kind, m.from, m.to)
                           /\ m.kind \in {"request", "approved"}
BY DEF Message, Messages

\* Everything the steps below know.
Known == TypeOK /\ Inv /\ OnlyAskersAccepted /\ FlowInv

\* Who has an entry was asked or has asked, and never both.
LEMMA OneDirection ==
    ASSUME ReadmeFlow, Known, NEW p \in Peers, NEW q \in Peers
    PROVE  /\ <<p, q>> \in asked => <<q, p>> \notin asked
           /\ <<p, q>> \notin asked /\ <<q, p>> \notin asked =>
                 friend[p][q] = "none" /\ friend[q][p] = "none"
           /\ <<p, q>> \in accepted => <<q, p>> \in asked /\ <<q, p>> \notin accepted
<1>1. <<p, q>> \in asked => <<q, p>> \notin asked
  BY DEF ReadmeFlow, Known, FlowInv, PairInv
<1>2. /\ <<p, q>> \in accepted => <<q, p>> \in asked
      /\ <<q, p>> \in accepted => <<p, q>> \in asked
  BY DEF Known, OnlyAskersAccepted
<1>3. friend[p][q] \in Statuses /\ friend[q][p] \in Statuses
  BY DEF Known, TypeOK
<1> QED BY <1>1, <1>2, <1>3 DEF Known, Inv, ConsentTrace, Either, Statuses

LEMMA InitFlow == Init => FlowInv
BY MessageTypes DEF Init, FlowInv, PairInv

LEMMA PostFlow ==
    ASSUME ReadmeFlow, Known, NEW r \in Peers, NEW u \in Peers, PostFriendRequest(r, u)
    PROVE  FlowInv'
<1>1. \A p, q \in Peers :
         friend'[p][q] = IF p = r /\ q = u THEN "pending" ELSE friend[p][q]
  BY SaveFriendType DEF PostFriendRequest, Known, Statuses
<1>2. /\ r \in running /\ <<r, u>> \in MayAsk /\ <<r, u>> \notin asked
      /\ asked' = asked \cup {<<r, u>>}
      /\ UNCHANGED <<running, net, accepted>>
      /\ \A p \in Peers, c \in Calls :
            c \in calls'[p] <=> c \in calls[p] \/ (p = r /\ c = <<"sendRequest", u>>)
  BY DEF PostFriendRequest, BeginCall, ReadmeFlow, Known, TypeOK, Calls
<1>3. <<u, r>> \notin asked
  BY <1>2 DEF ReadmeFlow, Known, FlowInv, PairInv
<1>4. /\ friend[r][u] = "none" /\ friend[u][r] = "none" /\ r # u
      /\ <<r, u>> \notin accepted /\ <<u, r>> \notin accepted
      /\ ~(net[Message("request", r, u)] > 0) /\ ~(net[Message("request", u, r)] > 0)
      /\ <<"sendRequest", r>> \notin calls[u]
  <2>1. friend[r][u] = "none" /\ friend[u][r] = "none"
    BY <1>2, <1>3, OneDirection
  <2>2. <<r, u>> \notin accepted /\ <<u, r>> \notin accepted
    BY <1>2, <1>3, OneDirection
  <2>3. ~(net[Message("request", r, u)] > 0) /\ ~(net[Message("request", u, r)] > 0)
    BY <1>2, <1>3, MessageTypes DEF Known, Inv, ConsentTrace, Message
  <2>4. r # u
    BY <1>2 DEF ReadmeFlow
  <2> QED BY <1>2, <1>3, <2>1, <2>2, <2>3, <2>4 DEF Known, Inv, CallTrace
<1>5. net[Message("request", r, u)] = 0
  BY <1>4, MessageTypes DEF Known, TypeOK
<1>6. ASSUME NEW p \in Peers, NEW q \in Peers PROVE PairInv(p, q)'
  <2>1. PairInv(p, q) /\ PairInv(q, p)
    BY DEF Known, FlowInv
  <2>2. Answering(p, q) => Answering(p, q)'
    BY <1>2 DEF Answering, Calls
  <2>3. <<"sendRequest", q>> \in Calls
    BY DEF Calls
  <2> QED BY <1>1, <1>2, <1>4, <1>5, <2>1, <2>2, <2>3 DEF PairInv
<1> QED BY <1>6 DEF FlowInv

LEMMA ApproveFlow ==
    ASSUME ReadmeFlow, Known, NEW r \in Peers, NEW u \in Peers, ApproveFriend(r, u)
    PROVE  FlowInv'
<1>1. \A p, q \in Peers :
         friend'[p][q] = IF p = r /\ q = u THEN "approved" ELSE friend[p][q]
  BY SaveFriendType DEF ApproveFriend, Known, Statuses
<1>2. /\ <<u, r>> \in asked /\ friend[r][u] = "pending"
      /\ accepted' = accepted \cup {<<r, u>>}
      /\ UNCHANGED <<running, net, asked>>
      /\ \A p \in Peers, c \in Calls :
            c \in calls'[p] <=> c \in calls[p] \/ (p = r /\ c = <<"saveProfile", u>>)
  BY DEF ApproveFriend, MayPress, GetPendingRequests, BeginCall, ReadmeFlow, Known,
         TypeOK, Calls
<1>3. ASSUME NEW p \in Peers, NEW q \in Peers PROVE PairInv(p, q)'
  <2>1. PairInv(p, q) /\ PairInv(q, p) /\ PairInv(u, r)
    BY DEF Known, FlowInv
  <2>2. Answering(p, q) => Answering(p, q)'
    BY <1>2 DEF Answering, Calls
  <2>3. Answering(r, u)'
    BY <1>2 DEF Answering, Calls
  <2>4. <<"sendRequest", q>> \in Calls /\ \A c \in {"sendRequest"} : c # "saveProfile"
    BY DEF Calls
  <2> QED BY <1>1, <1>2, <2>1, <2>2, <2>3, <2>4 DEF PairInv
<1> QED BY <1>3 DEF FlowInv

LEMMA SendRequestFlow ==
    ASSUME ReadmeFlow, Known, NEW r \in Peers, NEW u \in Peers, SendFriendRequest(r, u)
    PROVE  FlowInv'
<1> DEFINE req == Message("request", r, u)
<1>1. /\ <<"sendRequest", u>> \in calls[r]
      /\ UNCHANGED <<running, friend, asked, accepted>>
      /\ \A p \in Peers, c \in Calls :
            c \in calls'[p] <=> c \in calls[p] /\ ~(p = r /\ c = <<"sendRequest", u>>)
  BY DEF SendFriendRequest, Known, TypeOK, Calls
<1>2. \A m \in Messages : net'[m] = net[m] \/ (m = req /\ net'[m] = net[m] + 1)
  BY MessageTypes DEF SendFriendRequest, Send, SendFails, Known, TypeOK
<1>3. ASSUME NEW p \in Peers, NEW q \in Peers PROVE PairInv(p, q)'
  <2>1. PairInv(p, q) /\ PairInv(r, u)
    BY DEF Known, FlowInv
  <2>2. net'[Message("approved", p, q)] = net[Message("approved", p, q)]
    BY <1>2, MessageIs, MessageTypes
  <2>3. Answering(p, q) => Answering(p, q)'
    BY <1>1, <2>2 DEF Answering, Calls
  <2>4. <<"sendRequest", q>> \in Calls
    BY DEF Calls
  <2>5. CASE p = r /\ q = u
    <3>1. net[req] = 0 /\ friend[u][r] = "none"
      BY <1>1, <2>1 DEF PairInv
    <3>2. net'[req] \in {0, 1}
      <4>1. req \in Messages
        BY MessageTypes
      <4> HIDE DEF req
      <4> QED BY <1>2, <3>1, <4>1
    <3> QED BY <1>1, <2>1, <2>3, <2>4, <2>5, <3>1, <3>2 DEF PairInv
  <2>6. CASE ~(p = r /\ q = u)
    <3>1. net'[Message("request", p, q)] = net[Message("request", p, q)]
      BY <1>2, <2>6, MessageIs, MessageTypes
    <3> QED BY <1>1, <2>1, <2>3, <2>4, <2>6, <3>1 DEF PairInv
  <2> QED BY <2>5, <2>6
<1> QED BY <1>3 DEF FlowInv

\* Whoever is answered can be: it has been running since it asked.
LEMMA AnswerFlow ==
    ASSUME ReadmeFlow, Known, NEW r \in Peers, NEW u \in Peers,
           SaveRemoteProfile(r, u) \/ SendFriendApproved(r, u)
    PROVE  FlowInv'
<1> DEFINE ans == Message("approved", r, u)
<1>1. /\ UNCHANGED <<running, friend, asked, accepted>>
      /\ \A p \in Peers, q \in Peers :
            <<"sendRequest", q>> \in calls'[p] => <<"sendRequest", q>> \in calls[p]
  BY DEF SaveRemoteProfile, SendFriendApproved, Known, TypeOK
<1>2. \A m \in Messages : net'[m] = net[m] \/ (m = ans /\ net'[m] = net[m] + 1)
  BY MessageTypes DEF SaveRemoteProfile, SendFriendApproved, Send, SendFails, Known, TypeOK
<1>3. ASSUME NEW p \in Peers, NEW q \in Peers, Answering(p, q) PROVE Answering(p, q)'
  <2>1. CASE SaveRemoteProfile(r, u)
    BY <1>3, <2>1 DEF SaveRemoteProfile, Answering, Known, TypeOK
  <2>2. CASE SendFriendApproved(r, u)
    <3>1. u \in running
      BY <2>2 DEF SendFriendApproved, Known, Inv, CallTrace, OnlyAskersAccepted,
                  FlowInv, PairInv
    <3>2. net' = [net EXCEPT ![ans] = @ + 1]
      BY <2>2, <3>1 DEF SendFriendApproved, Send, SendFails, ReadmeFlow, Message
    <3>3. net'[ans] > 0
      BY <3>2, MessageTypes DEF Known, TypeOK
    <3>4. CASE p = r /\ q = u
      BY <3>3, <3>4 DEF Answering
    <3>5. CASE ~(p = r /\ q = u)
      BY <1>2, <1>3, <2>2, <3>5, MessageIs, MessageTypes
         DEF SendFriendApproved, Answering, Known, TypeOK
    <3> QED BY <3>4, <3>5
  <2> QED BY <2>1, <2>2
<1>4. ASSUME NEW p \in Peers, NEW q \in Peers PROVE PairInv(p, q)'
  <2>1. PairInv(p, q)
    BY DEF Known, FlowInv
  <2>2. net'[Message("request", p, q)] = net[Message("request", p, q)]
    BY <1>2, MessageIs, MessageTypes
  <2> QED BY <1>1, <1>3, <2>1, <2>2 DEF PairInv
<1> QED BY <1>4 DEF FlowInv

LEMMA RequestArrives ==
    ASSUME ReadmeFlow, Known, NEW m \in Messages, HandleFriendRequest(m)
    PROVE  FlowInv'
<1>1. PICK r \in Peers, u \in Peers : m = Message("request", r, u)
  BY MessageIs, MessageTypes DEF HandleFriendRequest
<1>2. m.from = r /\ m.to = u
  BY <1>1 DEF Message
<1>3. \A p, q \in Peers :
         friend'[p][q] = IF p = u /\ q = r THEN "pending" ELSE friend[p][q]
  BY <1>2, SaveFriendType DEF HandleFriendRequest, Known, Statuses
<1>4. /\ net[m] > 0 /\ net'[m] = net[m] - 1
      /\ \A n \in Messages : n # m => net'[n] = net[n]
      /\ UNCHANGED <<running, calls, asked, accepted>>
  BY DEF HandleFriendRequest, Take, Known, TypeOK
<1>5. /\ net[m] = 1 /\ friend[u][r] = "none" /\ <<r, u>> \in asked
      /\ <<"sendRequest", u>> \notin calls[r]
  BY <1>1, <1>2, <1>4 DEF HandleFriendRequest, Known, FlowInv, PairInv, Inv, ConsentTrace
<1>6. /\ <<u, r>> \notin asked /\ <<u, r>> \notin accepted /\ <<r, u>> \notin accepted
      /\ <<"sendRequest", r>> \notin calls[u] /\ r # u
  <2>1. <<u, r>> \notin asked /\ <<r, u>> \notin accepted
    BY <1>5, OneDirection
  <2>2. <<u, r>> \notin accepted
    BY <1>5 DEF Known, FlowInv, PairInv
  <2> QED BY <1>5, <2>1, <2>2 DEF Known, Inv, CallTrace
<1>7. ASSUME NEW p \in Peers, NEW q \in Peers PROVE PairInv(p, q)'
  <2>1. PairInv(p, q)
    BY DEF Known, FlowInv
  <2>2. net'[Message("approved", p, q)] = net[Message("approved", p, q)]
    BY <1>1, <1>4, MessageIs, MessageTypes
  <2>3. Answering(p, q)' <=> Answering(p, q)
    BY <1>4, <2>2 DEF Answering
  <2>4. CASE p = r /\ q = u
    <3>1. net'[Message("request", p, q)] = 0
      BY <1>1, <1>4, <1>5, <2>4
    <3> QED BY <1>3, <1>4, <1>5, <1>6, <2>1, <2>4, <3>1 DEF PairInv
  <2>5. CASE ~(p = r /\ q = u)
    <3>1. net'[Message("request", p, q)] = net[Message("request", p, q)]
      BY <1>1, <1>4, <2>5, MessageIs, MessageTypes
    <3> QED BY <1>3, <1>4, <1>6, <2>1, <2>3, <2>5, <3>1 DEF PairInv
  <2> QED BY <2>4, <2>5
<1> QED BY <1>7 DEF FlowInv

LEMMA ApprovalArrives ==
    ASSUME ReadmeFlow, Known, NEW m \in Messages, HandleFriendApproved(m)
    PROVE  FlowInv'
<1>1. PICK r \in Peers, u \in Peers : m = Message("approved", r, u)
  BY MessageIs, MessageTypes DEF HandleFriendApproved
<1>2. m.from = r /\ m.to = u /\ m.kind = "approved"
  BY <1>1 DEF Message
<1>3. \A p, q \in Peers :
         friend'[p][q] = IF p = u /\ q = r THEN "approved" ELSE friend[p][q]
  BY <1>2, SaveFriendType DEF HandleFriendApproved, Known, Statuses
<1>4. /\ net[m] > 0
      /\ \A n \in Messages : n # m => net'[n] = net[n]
      /\ UNCHANGED <<running, calls, asked, accepted>>
  BY DEF HandleFriendApproved, Take, Known, TypeOK
<1>5. <<r, u>> \in accepted
  BY <1>2, <1>4 DEF Known, Inv, ConsentTrace
<1>6. /\ friend[r][u] = "approved" /\ <<u, r>> \in asked /\ <<r, u>> \notin asked
      /\ <<u, r>> \notin accepted
  <2>1. friend[r][u] = "approved"
    BY <1>5 DEF Known, FlowInv, PairInv
  <2> QED BY <1>5, <2>1, OneDirection
<1>7. /\ <<"sendRequest", u>> \notin calls[r]
      /\ ~(net[Message("request", r, u)] > 0)
  BY <1>6, MessageTypes DEF Known, Inv, CallTrace, ConsentTrace, Message
<1>8. ASSUME NEW p \in Peers, NEW q \in Peers PROVE PairInv(p, q)'
  <2>1. PairInv(p, q)
    BY DEF Known, FlowInv
  <2>2. net'[Message("request", p, q)] = net[Message("request", p, q)]
    BY <1>1, <1>4, MessageIs, MessageTypes
  <2>3. CASE p = r /\ q = u
    BY <1>3, <1>4, <1>6, <1>7, <2>1, <2>2, <2>3 DEF PairInv
  <2>4. CASE ~(p = r /\ q = u)
    <3>1. net'[Message("approved", p, q)] = net[Message("approved", p, q)]
      BY <1>1, <1>4, <2>4, MessageIs, MessageTypes
    <3>2. Answering(p, q)' <=> Answering(p, q)
      BY <1>4, <3>1 DEF Answering
    <3> QED BY <1>3, <1>4, <2>1, <2>2, <2>4, <3>2 DEF PairInv
  <2> QED BY <2>3, <2>4
<1> QED BY <1>8 DEF FlowInv

LEMMA NextFlow == ASSUME ReadmeFlow, Known, [Next]_vars PROVE FlowInv'
<1>1. ASSUME NEW p \in Peers, NEW q \in Peers, UserStep(p, q) PROVE FlowInv'
  BY <1>1, PostFlow, ApproveFlow DEF UserStep, RemoveFriend, ReadmeFlow
<1>2. ASSUME NEW p \in Peers, NEW q \in Peers, CallStep(p, q) PROVE FlowInv'
  BY <1>2, SendRequestFlow, AnswerFlow DEF CallStep
<1>3. ASSUME NEW m \in Messages, Receive(m) \/ LoseMessage(m) PROVE FlowInv'
  BY <1>3, RequestArrives, ApprovalArrives DEF Receive, LoseMessage, ReadmeFlow
<1>4. ASSUME NEW p \in Peers, Halt(p) \/ Start(p) PROVE FlowInv'
  <2>1. Start(p)
    BY <1>4 DEF Halt, ReadmeFlow
  <2>2. running \subseteq running' /\ UNCHANGED <<friend, calls, net, asked, accepted>>
    BY <2>1 DEF Start
  <2> QED BY <2>2 DEF Known, FlowInv, PairInv, Answering
<1>5. CASE UNCHANGED vars
  BY <1>5 DEF vars, Known, FlowInv, PairInv, Answering
<1> QED BY <1>1, <1>2, <1>3, <1>4, <1>5 DEF Next

LEMMA QuietAgree == ASSUME ReadmeFlow, Known PROVE SettledAgreement
<1> SUFFICES ASSUME Quiet, NEW p \in Peers, NEW q \in Peers, IsFriend(p, q)
             PROVE  IsFriend(q, p)
  BY DEF SettledAgreement
<1>1. ~Answering(p, q) /\ ~Answering(q, p)
  BY MessageTypes DEF Quiet, Answering
<1>2. Either(p, q, accepted)
  BY DEF Known, Inv, ConsentTrace
<1> QED BY <1>1, <1>2 DEF Either, Known, FlowInv, PairInv

\* Where the README's flow can get to.
LEMMA FlowInvariance == ASSUME ReadmeFlow PROVE Spec => []Known
<1>0. UserModel = "recipient"
  BY DEF ReadmeFlow
<1>1. Init => OnlyAskersAccepted /\ FlowInv
  BY InitFlow DEF Init, OnlyAskersAccepted
<1>2. TypeOK /\ Inv /\ OnlyAskersAccepted /\ FlowInv /\ [Next]_vars
        => OnlyAskersAccepted' /\ FlowInv'
  BY <1>0, AcceptedAsked, NextFlow DEF Known
<1>3. TypeOK /\ Inv /\ OnlyAskersAccepted /\ FlowInv => Known
  BY DEF Known
<1> QED BY <1>1, <1>2, <1>3, Invariance, PTL DEF Spec

\* In the README's flow, for any number of peers, two daemons agree whether
\* they are friends whenever no call and no message is under way.
THEOREM Agreement == ASSUME ReadmeFlow PROVE Spec => []SettledAgreement
<1>1. Known => SettledAgreement
  BY QuietAgree
<1> QED BY <1>1, FlowInvariance, PTL

\* An approval that was given is in the store of the one who gave it, and on
\* its way until it is in the other store: what has to be delivered before
\* ApprovalBecomesMutual is never dropped by a request that arrives late.
ApprovalUnderWay ==
    \A p, q \in Peers : <<p, q>> \in accepted =>
        IsFriend(p, q) /\ (Answering(p, q) \/ IsFriend(q, p))

\* Who is a friend stays one: no late, crossing or repeated message of this
\* flow turns an approved entry back into a pending one.
FriendsStay == [][\A p, q \in Peers : IsFriend(p, q) => IsFriend(p, q)']_vars

\* In the README's flow an approval is kept on the side that gave it and under
\* way or stored on the other, whichever daemon was faster with what.
THEOREM ApprovalsAreKept == ASSUME ReadmeFlow PROVE Spec => []ApprovalUnderWay
<1>1. Known => ApprovalUnderWay
  BY DEF Known, FlowInv, PairInv, ApprovalUnderWay
<1> QED BY <1>1, FlowInvariance, PTL

LEMMA StepKeepsFriends ==
    ASSUME ReadmeFlow, Known, [Next]_vars, NEW p \in Peers, NEW q \in Peers,
           IsFriend(p, q)
    PROVE  IsFriend(p, q)'
<1>1. ASSUME NEW r \in Peers, NEW u \in Peers, PostFriendRequest(r, u)
      PROVE  IsFriend(p, q)'
  <2>1. \A x, y \in Peers :
           friend'[x][y] = IF x = r /\ y = u THEN "pending" ELSE friend[x][y]
    BY <1>1, SaveFriendType DEF PostFriendRequest, Known, Statuses
  <2>2. <<r, u>> \in MayAsk /\ <<r, u>> \notin asked /\ <<u, r>> \notin asked
    BY <1>1 DEF PostFriendRequest, ReadmeFlow, Known, FlowInv, PairInv
  <2>3. friend[r][u] = "none"
    BY <2>2, OneDirection
  <2> QED BY <2>1, <2>3
<1>2. ASSUME NEW r \in Peers, NEW u \in Peers, ApproveFriend(r, u)
      PROVE  IsFriend(p, q)'
  BY <1>2, SaveFriendType DEF ApproveFriend, Known, Statuses
<1>3. ASSUME NEW r \in Peers, NEW u \in Peers, CallStep(r, u) PROVE IsFriend(p, q)'
  BY <1>3 DEF CallStep, SendFriendRequest, SaveRemoteProfile, SendFriendApproved
<1>4. ASSUME NEW m \in Messages, HandleFriendRequest(m) PROVE IsFriend(p, q)'
  <2>1. m.from \in Peers /\ m.to \in Peers /\ m = Message("request", m.from, m.to)
    BY <1>4, MessageIs, MessageTypes DEF HandleFriendRequest
  <2>2. net[m] > 0
    BY <1>4 DEF HandleFriendRequest, Take
  <2>3. friend[m.to][m.from] = "none"
    <3>1. PairInv(m.from, m.to)
      BY <2>1 DEF Known, FlowInv
    <3>2. net[Message("request", m.from, m.to)] > 0
      BY <2>1, <2>2
    <3> QED BY <3>1, <3>2 DEF PairInv
  <2>4. \A x, y \in Peers : friend'[x][y] =
           IF x = m.to /\ y = m.from THEN "pending" ELSE friend[x][y]
    BY <1>4, <2>1, SaveFriendType DEF HandleFriendRequest, Known, Statuses
  <2> QED BY <2>3, <2>4
<1>5. ASSUME NEW m \in Messages, HandleFriendApproved(m) PROVE IsFriend(p, q)'
  <2>1. m.from \in Peers /\ m.to \in Peers
    BY MessageTypes
  <2>2. \A x, y \in Peers : friend'[x][y] =
           IF x = m.to /\ y = m.from THEN "approved" ELSE friend[x][y]
    BY <1>5, <2>1, SaveFriendType DEF HandleFriendApproved, Known, Statuses
  <2> QED BY <2>2
<1>6. CASE UNCHANGED friend
  BY <1>6
<1>7. ASSUME NEW r \in Peers, Start(r) \/ Halt(r) PROVE IsFriend(p, q)'
  BY <1>7 DEF Start, Halt
<1> QED BY <1>1, <1>2, <1>3, <1>4, <1>5, <1>6, <1>7
        DEF Next, UserStep, RemoveFriend, Receive, LoseMessage, ReadmeFlow, vars

\* In the README's flow a stored approval is never overwritten, so that two
\* daemons whose users are friends once hold each other as friends for good.
THEOREM FriendshipsLast == ASSUME ReadmeFlow PROVE Spec => FriendsStay
<1>1. Known /\ [Next]_vars => [\A p, q \in Peers : IsFriend(p, q) => IsFriend(p, q)']_vars
  BY StepKeepsFriends
<1> QED BY <1>1, FlowInvariance, PTL DEF Spec, FriendsStay
====
