---------------------------- MODULE ContentDraft ----------------------------
(***************************************************************************)
(* Rows of the content_drafts and *_requests tables, and the transitions   *)
(* the two aggregates accept (content/domain/aggregates.py,                *)
(* discord|telegram/domain/aggregates.py).  A row is abstracted to its     *)
(* status; "absent" means that no such row has been committed.             *)
(*                                                                         *)
(* An operator named Op_Variant, here and in the modules that extend this  *)
(* one, is Op with a bug in it.  No specification uses it: it stands in    *)
(* for Op when the properties are tested for what they would catch.        *)
(***************************************************************************)

Absent == "absent"

DraftStatus == {"pending_review", "queued", "published", "rejected"}

RequestStatus == {"pending", "approved", "rejected"}

\* ContentDraft.queue_for_publication: only a draft under review is queued.
CanQueue_AnyUnpublished(s) == s \in DraftStatus \ {"published"}
CanQueue(s) == s = "pending_review"

\* ContentDraft.mark_published: the draft has to be queued.
CanPublish(s) == s = "queued"

\* ContentDraft.mark_rejected: anything but a published draft, a rejected
\* one included.
CanReject_AnyRow(s) == s \in DraftStatus
CanReject(s) == s \in DraftStatus \ {"published"}

\* DiscordRequest / TelegramRequest .approve and .reject.
CanDecide(s) == s = "pending"

=============================================================================
