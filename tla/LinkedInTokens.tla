--------------------------- MODULE LinkedInTokens ---------------------------
(***************************************************************************)
(* The OAuth tokens of one tenant: the callback that connects an account,  *)
(* DELETE /integrations/linkedin that disconnects it, and the publisher    *)
(* that refreshes an expired access token before it posts.  Each of them   *)
(* reads the row, waits for LinkedIn, and writes the row it then has in    *)
(* hand, with whatever the others did in between.                          *)
(*                                                                         *)
(* One answer of LinkedIn's token endpoint is a grant: an access token     *)
(* and, if LinkedIn returns one, a refresh token.  A row is created by a   *)
(* connection and keeps its id, which is here the grant it began with.     *)
(***************************************************************************)
EXTENDS Naturals

CONSTANTS
  Publisher,    \* handlers that can be publishing at once
  Request,      \* connect and disconnect requests in progress at once
  Member,       \* LinkedIn accounts the user may log in to
  Renewable,    \* whether grants bring a refresh token: subset of BOOLEAN
  MaxGrants,    \* bound of the model: answers of the token endpoint
  MaxFailures   \* bound of the model: calls that fail

ASSUME TokenAssumption ==
  /\ Publisher \cap Request = {}
  /\ "none" \notin Member
  /\ Renewable \in SUBSET BOOLEAN \ {{}}
  /\ MaxGrants \in Nat
  /\ MaxFailures \in Nat

Grant == 1 .. MaxGrants

VARIABLES
  row,          \* linkedin_tokens: the tenant's row, which is unique, or NoRow
  issued,       \* grants issued: 1 .. issued
  owner,        \* account that LinkedIn issued each grant for
  renewable,    \* grants that came with a refresh token
  accessOver,   \* grants whose access token has expired (60 s of skew included)
  refreshOver,  \* grants whose refresh token has expired
  ended,        \* connections that were ended by a disconnect
  past,         \* grants that left the table: refreshed or disconnected
  posted,       \* posts: the author named and the owner of the token used
  task,         \* what each publisher and request is doing
  failures

tokenVars == <<row, issued, owner, renewable, accessOver, refreshOver, ended,
               past, posted, task, failures>>

NoMember == "none"
NoRow == [id |-> 0, grant |-> 0, member |-> NoMember]
Token == [id : Grant, grant : Grant, member : Member]

Agent == Publisher \cup Request

\* The token an agent has in hand, or the account that is being connected.
Work == [pc      : {"idle", "exchange", "connectSave", "deleteGet", "delete",
                    "publishGet", "refresh", "refreshSave", "post"},
         token   : Token \cup {NoRow},
         account : Member \cup {NoMember}]

Idle == [pc |-> "idle", token |-> NoRow, account |-> NoMember]

TokenTypeOK ==
  /\ row \in Token \cup {NoRow}
  /\ issued \in 0 .. MaxGrants
  /\ owner \in [Grant -> Member \cup {NoMember}]
  /\ renewable \subseteq Grant
  /\ accessOver \subseteq Grant
  /\ refreshOver \subseteq Grant
  /\ ended \subseteq Grant
  /\ past \subseteq Grant
  /\ posted \subseteq [author : Member, owner : Member]
  /\ task \in [Agent -> Work]
  /\ failures \in 0 .. MaxFailures

TokenInit ==
  /\ row = NoRow
  /\ issued = 0
  /\ owner = [g \in Grant |-> NoMember]
  /\ renewable = {}
  /\ accessOver = {}
  /\ refreshOver = {}
  /\ ended = {}
  /\ past = {}
  /\ posted = {}
  /\ task = [a \in Agent |-> Idle]
  /\ failures = 0

-----------------------------------------------------------------------------

\* What LinkedIn knows, and what time does to it.
linkedIn == <<issued, owner, renewable, accessOver, refreshOver>>

Start(a, pc, account) ==
  /\ task[a].pc = "idle"
  /\ task' = [task EXCEPT ![a] = [pc |-> pc, token |-> NoRow, account |-> account]]

Goto(a, pc) == task' = [task EXCEPT ![a].pc = pc]

\* Go on with this token in hand.
Hold(a, pc, token) ==
  task' = [task EXCEPT ![a] = [pc |-> pc, token |-> token, account |-> task[a].account]]

Finish(a) == task' = [task EXCEPT ![a] = Idle]

\* The token endpoint answers with a new grant for account m.
Issue(m) ==
  /\ issued < MaxGrants
  /\ issued' = issued + 1
  /\ owner' = [owner EXCEPT ![issued + 1] = m]
  /\ \E r \in Renewable :
       renewable' = IF r THEN renewable \cup {issued + 1} ELSE renewable
  /\ UNCHANGED <<accessOver, refreshOver>>

\* The tenant's row is r from now on; tokens it had before and has no longer
\* have left the table.
Store(r) ==
  /\ row' = r
  /\ past' = past \cup ({row.grant} \ {0, r.grant})

\* At the bound of the model every call for another grant is refused.
NoMoreGrants == issued = MaxGrants

\* LinkedInToken.__post_init__ refuses a refresh token that has expired, and
\* it runs for every row that is read, too.
Constructible(g) == ~(g \in renewable /\ g \in refreshOver)

AccessExpires(g) ==
  /\ g \in 1 .. issued
  /\ g \notin accessOver
  /\ accessOver' = accessOver \cup {g}
  /\ UNCHANGED <<row, issued, owner, renewable, refreshOver, ended, past, posted, task, failures>>

RefreshExpires(g) ==
  /\ g \in renewable
  /\ g \notin refreshOver
  /\ refreshOver' = refreshOver \cup {g}
  /\ UNCHANGED <<row, issued, owner, renewable, accessOver, ended, past, posted, task, failures>>

-----------------------------------------------------------------------------
(* Actions below, each with a bug in it (see ContentDraft).                *)

\* Only the token columns of the tenant's row are updated.
RefreshSave_TokensOnly(a) ==
  /\ task[a].pc = "refreshSave"
  /\ row # NoRow
  /\ Store([row EXCEPT !.grant = task[a].token.grant])
  /\ Goto(a, "post")
  /\ UNCHANGED <<linkedIn, ended, posted, failures>>

\* with_refreshed answers with a new token, and the old one is saved.
Refresh_ResultUnused(a) ==
  LET token == task[a].token IN
  /\ task[a].pc = "refresh"
  /\ token.grant \notin refreshOver
  /\ Issue(owner[token.grant])
  /\ Hold(a, "refreshSave", token)
  /\ UNCHANGED <<row, ended, past, posted, failures>>

-----------------------------------------------------------------------------
(* ConnectLinkedIn, from the callback that LinkedIn redirects to.          *)

Connect(a, m) ==
  /\ Start(a, "exchange", m)
  /\ UNCHANGED <<row, linkedIn, ended, past, posted, failures>>

\* exchange_code and get_userinfo: a grant, and the account it is for.
Exchange(a) ==
  /\ task[a].pc = "exchange"
  /\ \/ /\ Issue(task[a].account)
        /\ Hold(a, "connectSave", [id |-> issued + 1, grant |-> issued + 1,
                                   member |-> task[a].account])
     \/ NoMoreGrants /\ Finish(a) /\ UNCHANGED linkedIn
  /\ UNCHANGED <<row, ended, past, posted, failures>>

\* The token has a new id, so its merge is an INSERT, and the unique index on
\* tenant_id refuses it next to a row.
ConnectSave(a) ==
  /\ task[a].pc = "connectSave"
  /\ Store(IF Constructible(task[a].token.grant) /\ row = NoRow
           THEN task[a].token ELSE row)
  /\ Finish(a)
  /\ UNCHANGED <<linkedIn, ended, posted, failures>>

-----------------------------------------------------------------------------
(* DisconnectLinkedIn.                                                     *)

Disconnect(a) ==
  /\ Start(a, "deleteGet", NoMember)
  /\ UNCHANGED <<row, linkedIn, ended, past, posted, failures>>

\* No row is a NotFoundError; a row that cannot be constructed raises too.
DeleteGet(a) ==
  /\ task[a].pc = "deleteGet"
  /\ IF row # NoRow /\ Constructible(row.grant) THEN Goto(a, "delete") ELSE Finish(a)
  /\ UNCHANGED <<row, linkedIn, ended, past, posted, failures>>

\* Whatever row the tenant has by now is deleted.
Delete(a) ==
  /\ task[a].pc = "delete"
  /\ Store(NoRow)
  /\ ended' = ended \cup ({row.id} \ {0})
  /\ Finish(a)
  /\ UNCHANGED <<linkedIn, posted, failures>>

-----------------------------------------------------------------------------
(* LinkedInPostPublisher.publish.                                          *)

Publish(a) ==
  /\ Start(a, "publishGet", NoMember)
  /\ UNCHANGED <<row, linkedIn, ended, past, posted, failures>>

\* An expired access token needs a refresh token.  The publisher's own check
\* of its expiry comes after the one in the constructor, and finds nothing.
PublishGet(a) ==
  /\ task[a].pc = "publishGet"
  /\ \/ /\ row # NoRow /\ Constructible(row.grant)
        /\ row.grant \in accessOver => row.grant \in renewable
        /\ Hold(a, IF row.grant \in accessOver THEN "refresh" ELSE "post", row)
     \/ /\ \/ row = NoRow
           \/ ~Constructible(row.grant)
           \/ row.grant \in accessOver \ renewable
        /\ Finish(a)
  /\ UNCHANGED <<row, linkedIn, ended, past, posted, failures>>

\* refresh_tokens, and with_refreshed on the copy.
Refresh(a) ==
  LET token == task[a].token IN
  /\ task[a].pc = "refresh"
  /\ \/ /\ token.grant \notin refreshOver
        /\ Issue(owner[token.grant])
        /\ Hold(a, "refreshSave", [token EXCEPT !.grant = issued + 1])
     \/ /\ token.grant \in refreshOver \/ NoMoreGrants
        /\ Finish(a)
        /\ UNCHANGED linkedIn
  /\ UNCHANGED <<row, ended, past, posted, failures>>

\* merge by id: an UPDATE of the same row, an INSERT where there is none, and
\* an IntegrityError next to the row of another connection.
RefreshSave(a) ==
  /\ task[a].pc = "refreshSave"
  /\ IF row = NoRow \/ row.id = task[a].token.id
     THEN Store(task[a].token) /\ Goto(a, "post")
     ELSE UNCHANGED <<row, past>> /\ Finish(a)
  /\ UNCHANGED <<linkedIn, ended, posted, failures>>

\* publish_post with the copy's token and member; LinkedIn refuses a token
\* that expired since it was looked at.
Post(a) ==
  LET token == task[a].token IN
  /\ task[a].pc = "post"
  /\ posted' = IF token.grant \in accessOver THEN posted
               ELSE posted \cup {[author |-> token.member, owner |-> owner[token.grant]]}
  /\ Finish(a)
  /\ UNCHANGED <<row, linkedIn, ended, past, failures>>

\* A call fails, or the process ends, before or after the call took effect.
Fail(a) ==
  /\ task[a].pc # "idle"
  /\ failures < MaxFailures
  /\ failures' = failures + 1
  /\ Finish(a)
  /\ UNCHANGED <<row, linkedIn, ended, past, posted>>

AgentStep(a) ==
  \/ Exchange(a) \/ ConnectSave(a)
  \/ DeleteGet(a) \/ Delete(a)
  \/ PublishGet(a) \/ Refresh(a) \/ RefreshSave(a) \/ Post(a)

TokenNext ==
  \/ \E g \in Grant : AccessExpires(g) \/ RefreshExpires(g)
  \/ \E a \in Request : Disconnect(a) \/ \E m \in Member : Connect(a, m)
  \/ \E a \in Publisher : Publish(a)
  \/ \E a \in Agent : AgentStep(a) \/ Fail(a)

TokenSpec == TokenInit /\ [][TokenNext]_tokenVars

-----------------------------------------------------------------------------

\* The stored member is the owner of the stored tokens, and every post was
\* made in the name of the member whose token was used, whichever accounts
\* were connected while it was on its way.
AuthorOwnsToken ==
  /\ row # NoRow => owner[row.grant] = row.member
  /\ \A p \in posted : p.author = p.owner

\* "desconecta (remove token)": a connection that was ended is not in the
\* table again.
StaysDisconnected == row.id \notin ended

\* How far that goes: tokens that left the table, refreshed or removed by a
\* disconnect, are never in it again.  A connection that was ended is back
\* only with tokens that were not stored yet when it ended: those a publisher
\* still had to save, or was given by LinkedIn after.
OldTokensStayOut == row.grant \notin past

\* "persiste o LinkedInToken do tenant": when a connect ends with no call
\* having failed and its refresh token, if any, still good, its grant is in
\* the row.
ConnectConnects ==
  [][\A a \in Request :
       task[a].pc = "connectSave" /\ task'[a].pc = "idle" /\ failures' = failures
         => \/ row'.grant = task[a].token.grant
            \/ ~Constructible(task[a].token.grant)]_tokenVars

\* Requests run to their end, and the user asks to be disconnected again and
\* again: an assumption about the user, made to ask whether it helps.
DisconnectSpec ==
  /\ TokenSpec
  /\ \A a \in Agent : WF_tokenVars(AgentStep(a))
  /\ \A a \in Request : SF_tokenVars(Disconnect(a))

\* A user who keeps asking to be disconnected is.
DisconnectWorks == row # NoRow ~> row = NoRow

-----------------------------------------------------------------------------
(* Why AuthorOwnsToken holds: every token in hand is of its member, because *)
(* a refreshed token keeps the member it was read with and a grant never    *)
(* changes its owner.                                                      *)

Issued(token) == token.grant \in 1 .. issued

Owned(token) == Issued(token) /\ owner[token.grant] = token.member

InHand(work) ==
  /\ work.pc = "exchange" => work.account \in Member
  /\ work.pc \in {"connectSave", "refresh", "refreshSave", "post"}
       => work.token \in Token /\ Owned(work.token)

TokenInv ==
  /\ TokenTypeOK
  /\ row # NoRow => Owned(row)
  /\ \A g \in 1 .. issued : owner[g] \in Member
  /\ \A a \in Agent : InHand(task[a])
  /\ AuthorOwnsToken

-----------------------------------------------------------------------------
(* Why OldTokensStayOut holds: the tokens that an agent waits to save come  *)
(* from an answer that no other agent has, and were never in the table.    *)

Saving(a) == task[a].pc \in {"connectSave", "refreshSave"}

Unsaved(a) ==
  LET g == task[a].token.grant IN
  /\ g # row.grant /\ g \notin past
  /\ \A b \in Agent \ {a} : Saving(b) => task[b].token.grant # g

SavingInv ==
  /\ row.grant \in 0 .. issued
  /\ past \subseteq 1 .. issued
  /\ \A a \in Agent : Saving(a) => Unsaved(a)
  /\ OldTokensStayOut

=============================================================================
