---- MODULE PublicFeed ----
(***************************************************************************)
(* What MyFeed promises about posts, whatever happens to processes, links  *)
(* and stores underneath: an author publishes a post once, and from then   *)
(* on anybody's feed either does not hold it or holds exactly it.  Nothing *)
(* appears in a feed that its author did not publish.                      *)
(*                                                                         *)
(* FeedSync implements this module; see its refinement mapping there.      *)
(***************************************************************************)
CONSTANTS Peers, PostIds, Contents

VARIABLES published,   \* published[p]: the posts p has published
          feed         \* feed[q]: the posts shown on q's device

pfVars == <<published, feed>>

\* A published post, without its signature.
Bodies == [id : PostIds, author : Peers, content : Contents]

Init ==
    /\ published = [p \in Peers |-> {}]
    /\ feed = [p \in Peers |-> {}]

\* p publishes b under an identifier nobody has used; it shows in p's own
\* feed at once.
Publish(p, b) ==
    /\ b.author = p
    /\ \A r \in Peers : \A c \in published[r] : c.id # b.id
    /\ published' = [published EXCEPT ![p] = @ \cup {b}]
    /\ feed' = [feed EXCEPT ![p] = @ \cup {b}]

\* A post that p published turns up in q's feed.
Adopt(q, b) ==
    /\ b \in published[b.author]
    /\ feed' = [feed EXCEPT ![q] = @ \cup {b}]
    /\ UNCHANGED published

Next ==
    \/ \E b \in Bodies : Publish(b.author, b)
    \/ \E q \in Peers : \E b \in Bodies : Adopt(q, b)

Spec == Init /\ [][Next]_pfVars
====
