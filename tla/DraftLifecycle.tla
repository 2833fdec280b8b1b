--------------------------- MODULE DraftLifecycle ---------------------------
(***************************************************************************)
(* What the life of a draft is meant to be, with no handlers, copies or    *)
(* tables in the way: ContentDraft's transitions taken one at a time, and  *)
(* the post of a queued draft as part of publishing it.                    *)
(***************************************************************************)
EXTENDS ContentDraft, Naturals

CONSTANT Draft

VARIABLES
  status,   \* of each draft
  posts,    \* posts made on LinkedIn with its text
  unposted  \* drafts to be published where no publisher is configured

lifeVars == <<status, posts, unposted>>

LifeInit ==
  /\ status = [d \in Draft |-> Absent]
  /\ posts = [d \in Draft |-> 0]
  /\ unposted = {}

Become(d, s) == status' = [status EXCEPT ![d] = s]

Create(d)  == status[d] = Absent /\ Become(d, "pending_review") /\ UNCHANGED <<posts, unposted>>

Queue(d)   == CanQueue(status[d]) /\ Become(d, "queued") /\ UNCHANGED <<posts, unposted>>

\* The one moment the text leaves: queued, and not posted before.
PostOnce(d) ==
  /\ CanPublish(status[d])
  /\ posts[d] = 0
  /\ posts' = [posts EXCEPT ![d] = 1]
  /\ UNCHANGED <<status, unposted>>

\* No publisher, no post: "se um LinkedInPostPublisher for injetado".
GoUnposted(d) ==
  /\ CanPublish(status[d])
  /\ unposted' = unposted \cup {d}
  /\ UNCHANGED <<status, posts>>

Publish(d) ==
  /\ CanPublish(status[d])
  /\ posts[d] = 1 \/ d \in unposted
  /\ Become(d, "published")
  /\ UNCHANGED <<posts, unposted>>

RejectIt(d) == CanReject(status[d]) /\ Become(d, "rejected") /\ UNCHANGED <<posts, unposted>>

LifeNext ==
  \E d \in Draft :
    \/ Create(d) \/ Queue(d) \/ RejectIt(d)
    \/ PostOnce(d) \/ GoUnposted(d) \/ Publish(d)

LifeSpec == LifeInit /\ [][LifeNext]_lifeVars

-----------------------------------------------------------------------------
(* The life of a draft that several handlers change, each from a copy of   *)
(* its own: what a transition overwrites may not be what it was meant for.  *)

OverwriteWith(d, s) == status[d] # Absent /\ Become(d, s) /\ UNCHANGED <<posts, unposted>>

\* The status is looked at after the post.
PostAgain(d) ==
  /\ status[d] # Absent
  /\ posts' = [posts EXCEPT ![d] = @ + 1]
  /\ UNCHANGED <<status, unposted>>

\* A copy that was queued is taken on without a publisher.
GoUnpostedAgain(d) ==
  /\ status[d] \in DraftStatus \ {"pending_review"}
  /\ unposted' = unposted \cup {d}
  /\ UNCHANGED <<status, posts>>

\* A copy that was queued is published; others may have changed the row, but
\* nobody puts it under review again.
PublishPosted(d) ==
  /\ status[d] \in DraftStatus \ {"pending_review"}
  /\ posts[d] > 0 \/ d \in unposted
  /\ Become(d, "published")
  /\ UNCHANGED <<posts, unposted>>

SharedNext ==
  \E d \in Draft :
    \/ Create(d) \/ PostAgain(d) \/ GoUnpostedAgain(d) \/ PublishPosted(d)
    \/ \E s \in {"queued", "rejected"} : OverwriteWith(d, s)

SharedSpec == LifeInit /\ [][SharedNext]_lifeVars

=============================================================================
