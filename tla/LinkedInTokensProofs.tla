------------------------ MODULE LinkedInTokensProofs ------------------------
(***************************************************************************)
(* Whose token is used for whose post, proved for every number of          *)
(* publishers, requests, accounts, grants and failures.                    *)
(***************************************************************************)
EXTENDS LinkedInTokens, TLAPS

\* No row and no grant at first.
LEMMA InitTokens == TokenInit => TokenInv
  BY TokenAssumption
  DEF TokenInit, TokenInv, TokenTypeOK, AuthorOwnsToken, Idle, NoRow, Token,
      Grant, Agent, NoMember, Work, InHand, Owned, Issued

\* A new grant leaves the owners of the earlier ones as they were.
LEMMA Issuing ==
  ASSUME TokenInv, NEW m \in Member, Issue(m)
  PROVE  /\ issued + 1 \in Grant /\ issued' = issued + 1
         /\ owner' \in [Grant -> Member \cup {NoMember}]
         /\ owner'[issued + 1] = m
         /\ \A g \in 1 .. issued : owner'[g] = owner[g]
         /\ renewable' \subseteq Grant
         /\ UNCHANGED <<accessOver, refreshOver>>
<1>1. issued \in Nat /\ issued + 1 \in Grant
  BY TokenAssumption DEF Issue, TokenInv, TokenTypeOK, Grant
<1>2. QED
  BY <1>1 DEF Issue, TokenInv, TokenTypeOK, Grant

\* An agent that takes up work w, which it knows enough for, keeps the
\* invariant when nothing else changes but its failures.
LEMMA Working ==
  ASSUME TokenInv, NEW a \in Agent, NEW w \in Work, InHand(w),
         task' = [task EXCEPT ![a] = w],
         UNCHANGED <<row, issued, owner, renewable, accessOver, refreshOver, ended, past, posted>>,
         failures' \in 0 .. MaxFailures
  PROVE  TokenInv'
<1>1. TokenTypeOK'
  BY DEF TokenInv, TokenTypeOK
<1>2. \A b \in Agent : task'[b] = task[b] \/ task'[b] = w
  BY DEF TokenInv, TokenTypeOK
<1>3. \A b \in Agent : InHand(task[b])'
  BY <1>2 DEF TokenInv, InHand, Owned, Issued
<1>4. QED
  BY <1>1, <1>3 DEF TokenInv, AuthorOwnsToken, Owned, Issued

\* So does one that takes up the grant issued to it.
LEMMA WorkingOnGrant ==
  ASSUME TokenInv, NEW a \in Agent, NEW m \in Member, Issue(m),
         NEW w \in Work, w.pc # "exchange",
         w.token \in Token, w.token.grant = issued + 1, w.token.member = m,
         task' = [task EXCEPT ![a] = w],
         UNCHANGED <<row, ended, past, posted, failures>>
  PROVE  TokenInv'
<1>1. issued \in Nat
  BY DEF TokenInv, TokenTypeOK
<1>2. issued' \in 0 .. MaxGrants
  BY <1>1, Issuing, TokenAssumption DEF Grant
<1>3. TokenTypeOK'
  BY <1>2, Issuing DEF TokenInv, TokenTypeOK
<1>4. \A g \in 1 .. issued : g \in 1 .. issued' /\ owner'[g] = owner[g]
  BY <1>1, Issuing
<1>5. \A g \in 1 .. issued' : owner'[g] \in Member
  <2>1. \A g \in 1 .. issued' : g \in 1 .. issued \/ g = issued + 1
    BY <1>1, Issuing
  <2>2. QED
    BY <2>1, Issuing DEF TokenInv
<1>6. Owned(w.token)'
  BY <1>1, Issuing DEF Owned, Issued
<1>7. \A b \in Agent : b # a => InHand(task[b])'
  <2>1. \A b \in Agent : b # a => task'[b] = task[b]
    BY DEF TokenInv, TokenTypeOK
  <2>2. QED
    BY <1>4, <2>1 DEF TokenInv, InHand, Owned, Issued
<1>8. InHand(task[a])'
  <2>1. task'[a] = w
    BY DEF TokenInv, TokenTypeOK
  <2>2. QED
    BY <1>6, <2>1 DEF InHand, Owned, Issued
<1>9. (row # NoRow => Owned(row))' /\ AuthorOwnsToken'
  BY <1>4 DEF TokenInv, AuthorOwnsToken, Owned, Issued
<1>10. QED
  BY <1>3, <1>5, <1>7, <1>8, <1>9 DEF TokenInv

\* Every step of an agent, and time passing, keeps the invariant.
LEMMA NextTokens == TokenInv /\ [TokenNext]_tokenVars => TokenInv'
<1> SUFFICES ASSUME TokenInv, [TokenNext]_tokenVars
             PROVE  TokenInv'
  OBVIOUS
<1>a. Idle \in Work /\ InHand(Idle)
  BY DEF Idle, Work, InHand
<1>1. ASSUME NEW g \in Grant, AccessExpires(g) \/ RefreshExpires(g)
      PROVE  TokenInv'
  BY <1>1
  DEF AccessExpires, RefreshExpires, TokenInv, TokenTypeOK, AuthorOwnsToken,
      InHand, Owned, Issued
<1>2. ASSUME NEW a \in Agent, NEW m \in Member, Connect(a, m)
      PROVE  TokenInv'
  <2>1. [pc |-> "exchange", token |-> NoRow, account |-> m] \in Work
    BY DEF Work
  <2>2. QED
    BY <1>2, <2>1, Working
    DEF Connect, Start, InHand, linkedIn, TokenInv, TokenTypeOK
<1>3. ASSUME NEW a \in Agent, NEW c \in {"deleteGet", "publishGet"},
             Start(a, c, NoMember),
             UNCHANGED <<row, linkedIn, ended, past, posted, failures>>
      PROVE  TokenInv'
  <2>1. [pc |-> c, token |-> NoRow, account |-> NoMember] \in Work
    BY <1>3 DEF Work
  <2>2. QED
    BY <1>3, <2>1, Working DEF Start, InHand, linkedIn, TokenInv, TokenTypeOK
<1>4. ASSUME NEW a \in Agent, Finish(a),
             UNCHANGED <<row, linkedIn, ended, past, posted>>,
             failures' \in 0 .. MaxFailures
      PROVE  TokenInv'
  BY <1>a, <1>4, Working DEF Finish, linkedIn
<1>5. ASSUME NEW a \in Agent, Exchange(a)
      PROVE  TokenInv'
  <2>1. CASE NoMoreGrants /\ Finish(a) /\ UNCHANGED linkedIn
    BY <1>4, <1>5, <2>1 DEF Exchange, TokenInv, TokenTypeOK
  <2>2. CASE /\ Issue(task[a].account)
             /\ Hold(a, "connectSave", [id |-> issued + 1, grant |-> issued + 1,
                                        member |-> task[a].account])
    <3> DEFINE token == [id |-> issued + 1, grant |-> issued + 1,
                         member |-> task[a].account]
    <3>1. task[a] \in Work /\ task[a].account \in Member
      BY <1>5 DEF Exchange, TokenInv, TokenTypeOK, InHand
    <3>2. token \in Token
      BY <2>2, <3>1, Issuing DEF Token
    <3>3. [pc |-> "connectSave", token |-> token, account |-> task[a].account] \in Work
      BY <3>1, <3>2 DEF Work
    <3>4. task' = [task EXCEPT ![a] = [pc |-> "connectSave", token |-> token,
                                       account |-> task[a].account]]
      BY <2>2 DEF Hold
    <3>5. UNCHANGED <<row, ended, past, posted, failures>>
      BY <1>5 DEF Exchange
    <3>6. QED
      BY <2>2, <3>1, <3>2, <3>3, <3>4, <3>5, WorkingOnGrant
  <2>3. QED
    BY <1>5, <2>1, <2>2 DEF Exchange
<1>6. ASSUME NEW a \in Agent, ConnectSave(a)
      PROVE  TokenInv'
  BY <1>6
  DEF ConnectSave, Store, NoRow, Token, Finish, TokenInv, TokenTypeOK, AuthorOwnsToken, InHand,
      Owned, Issued, Idle, Work, linkedIn
<1>7. ASSUME NEW a \in Agent, DeleteGet(a)
      PROVE  TokenInv'
  BY <1>7
  DEF DeleteGet, Goto, Finish, TokenInv, TokenTypeOK, AuthorOwnsToken, InHand,
      Owned, Issued, Idle, Work, linkedIn
<1>8. ASSUME NEW a \in Agent, Delete(a)
      PROVE  TokenInv'
  <2>1. row.id \in Grant \cup {0}
    BY DEF TokenInv, TokenTypeOK, Token, NoRow
  <2>2. QED
    BY <1>8, <2>1
    DEF Delete, Store, NoRow, Token, Finish, TokenInv, TokenTypeOK, AuthorOwnsToken, InHand, Owned,
        Issued, Idle, Work, linkedIn
<1>9. ASSUME NEW a \in Agent, PublishGet(a)
      PROVE  TokenInv'
  BY <1>9
  DEF PublishGet, Hold, Finish, TokenInv, TokenTypeOK, AuthorOwnsToken, InHand, Owned,
      Issued, Idle, Work, linkedIn
<1>10. ASSUME NEW a \in Agent, Refresh(a)
       PROVE  TokenInv'
  <2>1. CASE Finish(a) /\ UNCHANGED linkedIn
    BY <1>4, <1>10, <2>1 DEF Refresh, TokenInv, TokenTypeOK
  <2>2. CASE /\ Issue(owner[task[a].token.grant])
             /\ Hold(a, "refreshSave", [task[a].token EXCEPT !.grant = issued + 1])
    <3> DEFINE token == [id |-> task[a].token.id, grant |-> issued + 1,
                         member |-> task[a].token.member]
    <3>1. /\ task[a] \in Work
          /\ task[a].token \in Token
          /\ owner[task[a].token.grant] = task[a].token.member
      BY <1>10 DEF Refresh, TokenInv, TokenTypeOK, InHand, Owned
    <3>2. token \in Token /\ token.member \in Member
      BY <2>2, <3>1, Issuing DEF Token
    <3>3. [pc |-> "refreshSave", token |-> token, account |-> task[a].account] \in Work
      BY <3>1, <3>2 DEF Work
    <3>4. task' = [task EXCEPT ![a] = [pc |-> "refreshSave", token |-> token,
                                       account |-> task[a].account]]
      <4>1. [task[a].token EXCEPT !.grant = issued + 1] = token
        BY <3>1 DEF Token
      <4>2. QED
        BY <2>2, <4>1 DEF Hold
    <3>5. UNCHANGED <<row, ended, past, posted, failures>>
      BY <1>10 DEF Refresh
    <3>6. QED
      BY <2>2, <3>1, <3>2, <3>3, <3>4, <3>5, WorkingOnGrant
  <2>3. QED
    BY <1>10, <2>1, <2>2 DEF Refresh
<1>11. ASSUME NEW a \in Agent, RefreshSave(a)
       PROVE  TokenInv'
  BY <1>11
  DEF RefreshSave, Store, NoRow, Token, Finish, Goto, TokenInv, TokenTypeOK, AuthorOwnsToken, InHand,
      Owned, Issued, Idle, Work, linkedIn
<1>12. ASSUME NEW a \in Agent, Post(a)
       PROVE  TokenInv'
  BY <1>12
  DEF Post, Finish, TokenInv, TokenTypeOK, AuthorOwnsToken, InHand, Owned,
      Issued, Idle, Work, Token, linkedIn
<1>13. CASE UNCHANGED tokenVars
  BY <1>13
  DEF tokenVars, TokenInv, TokenTypeOK, AuthorOwnsToken, InHand, Owned, Issued
<1>14. ASSUME NEW a \in Agent, Fail(a)
       PROVE  TokenInv'
  <2>1. failures' \in 0 .. MaxFailures
    BY <1>14, TokenAssumption DEF Fail, TokenInv, TokenTypeOK
  <2>2. QED
    BY <1>4, <1>14, <2>1 DEF Fail
<1>15. QED
  BY <1>1, <1>2, <1>3, <1>5, <1>6, <1>7, <1>8, <1>9, <1>10, <1>11, <1>12, <1>13, <1>14
  DEF TokenNext, AgentStep, Agent, Disconnect, Publish

\* However connects, disconnects and refreshes interleave and fail, the stored
\* token belongs to the stored member, and so does that of every post.
THEOREM AuthorsOwnTheirTokens == TokenSpec => []AuthorOwnsToken
<1>1. TokenInv => AuthorOwnsToken
  BY DEF TokenInv
<1>2. QED
  BY <1>1, InitTokens, NextTokens, PTL DEF TokenSpec

\* The stored token, and each one that an agent has in hand, is an issued one of
\* its member, and nothing else is ever stored or held.
THEOREM TokensCorrect == TokenSpec => []TokenInv
  BY InitTokens, NextTokens, PTL DEF TokenSpec

-----------------------------------------------------------------------------

\* The grants in use are issued ones.
LEMMA Grants ==
  ASSUME TokenInv
  PROVE  /\ issued \in Nat
         /\ \A a \in Agent :
              /\ task[a] \in Work
              /\ task[a].pc \in {"connectSave", "refresh", "refreshSave", "post"}
                   => task[a].token \in Token /\ task[a].token.grant \in 1 .. issued
<1>1. issued \in Nat
  BY TokenAssumption DEF TokenInv, TokenTypeOK
<1>2. QED
  BY <1>1 DEF TokenInv, TokenTypeOK, InHand, Owned, Issued

\* No row, and nothing that left it, at first.
LEMMA InitSaving == TokenInit => SavingInv
  BY DEF TokenInit, SavingInv, Saving, OldTokensStayOut, Idle, NoRow

\* An agent that takes up w and waits for no save disturbs no other.
LEMMA NotSaving ==
  ASSUME TokenInv, SavingInv, NEW a \in Agent, NEW w \in Work,
         w.pc \notin {"connectSave", "refreshSave"},
         task' = [task EXCEPT ![a] = w],
         UNCHANGED <<row, issued, past>>
  PROVE  SavingInv'
<1>1. task'[a] = w /\ \A b \in Agent \ {a} : task'[b] = task[b]
  BY DEF TokenInv, TokenTypeOK
<1>2. ~Saving(a)'
  BY <1>1 DEF Saving
<1>3. ASSUME NEW b \in Agent, Saving(b)'
      PROVE  Unsaved(b)'
  <2>1. b # a /\ task'[b] = task[b]
    BY <1>1, <1>2, <1>3
  <2>2. Unsaved(b)
    BY <1>3, <2>1 DEF SavingInv, Saving
  <2>3. QED
    BY <1>1, <1>2, <2>1, <2>2 DEF Unsaved, Saving
<1>4. QED
  BY <1>3 DEF SavingInv, OldTokensStayOut

\* A new grant is none that is stored, was stored, or waits to be.
LEMMA NewGrant ==
  ASSUME TokenInv, SavingInv, NEW a \in Agent, NEW w \in Work,
         issued' = issued + 1, w.token.grant = issued + 1,
         task' = [task EXCEPT ![a] = w],
         UNCHANGED <<row, past>>
  PROVE  SavingInv'
<1>1. task'[a] = w /\ \A b \in Agent \ {a} : task'[b] = task[b]
  BY DEF TokenInv, TokenTypeOK
<1>2. /\ row.grant # issued + 1 /\ issued + 1 \notin past
      /\ \A b \in Agent : Saving(b) => task[b].token.grant # issued + 1
  BY Grants DEF SavingInv, Saving
<1>3. Unsaved(a)'
  BY <1>1, <1>2 DEF Unsaved, Saving
<1>4. ASSUME NEW b \in Agent \ {a}, Saving(b)'
      PROVE  Unsaved(b)'
  <2>1. Saving(b) /\ Unsaved(b)
    BY <1>1, <1>4 DEF SavingInv, Saving
  <2>2. w.token.grant # task[b].token.grant
    BY <1>2, <2>1
  <2>3. QED
    BY <1>1, <2>1, <2>2 DEF Unsaved, Saving
<1>5. row'.grant \in 0 .. issued' /\ past' \subseteq 1 .. issued'
  BY Grants DEF SavingInv
<1>6. QED
  BY <1>1, <1>3, <1>4, <1>5 DEF SavingInv, OldTokensStayOut

\* The row becomes r, a token that an agent waited to save or none, and the
\* agent goes on with w: what was stored before is not waiting to be saved.
LEMMA Storing ==
  ASSUME TokenInv, SavingInv, NEW a \in Agent, NEW w \in Work, NEW r,
         w.pc \notin {"connectSave", "refreshSave"},
         r = NoRow \/ (Saving(a) /\ r = task[a].token),
         Store(r), issued' = issued,
         task' = [task EXCEPT ![a] = w]
  PROVE  SavingInv'
<1>1. task'[a] = w /\ \A b \in Agent \ {a} : task'[b] = task[b]
  BY DEF TokenInv, TokenTypeOK
<1>2. NoRow.grant = 0
  BY DEF NoRow
<1>3. r.grant \in 0 .. issued /\ r.grant \notin past
  BY <1>2, Grants DEF SavingInv, Saving, Unsaved
<1>4. row' = r /\ past' = past \cup ({row.grant} \ {0, r.grant})
  BY DEF Store
<1>5. ASSUME NEW b \in Agent, Saving(b)'
      PROVE  Unsaved(b)'
  <2>1. b # a /\ task'[b] = task[b]
    BY <1>1, <1>5 DEF Saving
  <2>2. Saving(b) /\ Unsaved(b)
    BY <1>5, <2>1 DEF SavingInv, Saving
  <2>3. task[b].token.grant # 0
    BY <2>2, Grants DEF Saving
  <2>4. task[b].token.grant # r.grant
    BY <1>2, <2>1, <2>2, <2>3 DEF Unsaved
  <2>5. task[b].token.grant \notin past'
    BY <1>4, <2>2 DEF Unsaved
  <2>6. \A c \in Agent \ {b} : Saving(c)' => task'[c].token.grant # task[b].token.grant
    BY <1>1, <2>2 DEF Unsaved, Saving
  <2>7. QED
    BY <1>4, <2>1, <2>4, <2>5, <2>6 DEF Unsaved
<1>6. row'.grant \in 0 .. issued' /\ past' \subseteq 1 .. issued'
  <2>1. row.grant \in 0 .. issued /\ past \subseteq 1 .. issued /\ issued \in Nat
    BY Grants DEF SavingInv
  <2>2. {row.grant} \ {0, r.grant} \subseteq 1 .. issued
    BY <2>1
  <2>3. QED
    BY <1>3, <1>4, <2>1, <2>2
<1>7. OldTokensStayOut'
  BY <1>3, <1>4 DEF OldTokensStayOut
<1>8. QED
  BY <1>5, <1>6, <1>7 DEF SavingInv

\* Every step of an agent, and time passing, keeps the waiting tokens apart
\* from the stored ones.
LEMMA NextSaving ==
  TokenInv /\ SavingInv /\ [TokenNext]_tokenVars => SavingInv'
<1> SUFFICES ASSUME TokenInv, SavingInv, [TokenNext]_tokenVars
             PROVE  SavingInv'
  OBVIOUS
<1>a. Idle \in Work /\ Idle.pc \notin {"connectSave", "refreshSave"}
  BY DEF Idle, Work
<1>1. ASSUME UNCHANGED <<row, issued, past, task>>
      PROVE  SavingInv'
  BY <1>1 DEF SavingInv, OldTokensStayOut, Unsaved, Saving
<1>2. ASSUME NEW a \in Agent, NEW c \in {"exchange", "deleteGet", "publishGet"},
             NEW m \in Member \cup {NoMember}, Start(a, c, m),
             UNCHANGED <<row, linkedIn, past>>
      PROVE  SavingInv'
  <2>1. [pc |-> c, token |-> NoRow, account |-> m] \in Work
    BY <1>2 DEF Work
  <2>2. QED
    BY <1>2, <2>1, NotSaving DEF Start, linkedIn
<1>3. ASSUME NEW a \in Agent, Finish(a), UNCHANGED <<row, issued, past>>
      PROVE  SavingInv'
  BY <1>a, <1>3, NotSaving DEF Finish
<1>4. ASSUME NEW a \in Agent, Exchange(a)
      PROVE  SavingInv'
  <2>1. CASE NoMoreGrants /\ Finish(a) /\ UNCHANGED linkedIn
    BY <1>3, <1>4, <2>1 DEF Exchange, linkedIn
  <2>2. CASE /\ Issue(task[a].account)
             /\ Hold(a, "connectSave", [id |-> issued + 1, grant |-> issued + 1,
                                        member |-> task[a].account])
    <3> DEFINE w == [pc |-> "connectSave",
                     token |-> [id |-> issued + 1, grant |-> issued + 1,
                                member |-> task[a].account],
                     account |-> task[a].account]
    <3>1. task[a] \in Work /\ task[a].account \in Member
      BY <1>4 DEF Exchange, TokenInv, TokenTypeOK, InHand
    <3>2. issued + 1 \in Grant /\ issued' = issued + 1
      BY <2>2, <3>1, Issuing
    <3>3. w \in Work
      BY <3>1, <3>2 DEF Work, Token
    <3>4. task' = [task EXCEPT ![a] = w] /\ UNCHANGED <<row, past>>
      BY <1>4, <2>2 DEF Exchange, Hold
    <3>5. QED
      BY <3>2, <3>3, <3>4, NewGrant
  <2>3. QED
    BY <1>4, <2>1, <2>2 DEF Exchange
<1>5. ASSUME NEW a \in Agent, ConnectSave(a)
      PROVE  SavingInv'
  <2>1. issued' = issued /\ task' = [task EXCEPT ![a] = Idle] /\ Saving(a)
    BY <1>5 DEF ConnectSave, Finish, linkedIn, Saving
  <2>2. CASE Store(task[a].token)
    BY <1>a, <2>1, <2>2, Storing
  <2>3. CASE Store(row)
    <3>1. UNCHANGED <<row, past>>
      BY <2>3 DEF Store
    <3>2. QED
      BY <1>3, <2>1, <3>1 DEF Finish
  <2>4. QED
    BY <1>5, <2>2, <2>3 DEF ConnectSave
<1>6. ASSUME NEW a \in Agent, DeleteGet(a)
      PROVE  SavingInv'
  <2>1. CASE Goto(a, "delete")
    <3>1. /\ [task[a] EXCEPT !.pc = "delete"] \in Work
          /\ [task[a] EXCEPT !.pc = "delete"].pc = "delete"
      BY Grants DEF Work
    <3>2. QED
      BY <1>6, <2>1, <3>1, NotSaving DEF DeleteGet, Goto, linkedIn
  <2>2. QED
    BY <1>3, <1>6, <2>1 DEF DeleteGet, linkedIn
<1>7. ASSUME NEW a \in Agent, Delete(a)
      PROVE  SavingInv'
  <2>1. Store(NoRow) /\ issued' = issued /\ task' = [task EXCEPT ![a] = Idle]
    BY <1>7 DEF Delete, Finish, linkedIn
  <2>2. QED
    BY <1>a, <2>1, Storing
<1>8. ASSUME NEW a \in Agent, PublishGet(a)
      PROVE  SavingInv'
  <2>1. ASSUME NEW c \in {"refresh", "post"}, Hold(a, c, row)
        PROVE  SavingInv'
    <3>1. [pc |-> c, token |-> row, account |-> task[a].account] \in Work
      BY <2>1, Grants DEF Work, TokenInv, TokenTypeOK
    <3>2. QED
      BY <1>8, <2>1, <3>1, NotSaving DEF PublishGet, Hold, linkedIn
  <2>2. QED
    BY <1>3, <1>8, <2>1 DEF PublishGet, linkedIn
<1>9. ASSUME NEW a \in Agent, Refresh(a)
      PROVE  SavingInv'
  <2>1. CASE Finish(a) /\ UNCHANGED linkedIn
    BY <1>3, <1>9, <2>1 DEF Refresh, linkedIn
  <2>2. CASE /\ Issue(owner[task[a].token.grant])
             /\ Hold(a, "refreshSave", [task[a].token EXCEPT !.grant = issued + 1])
    <3> DEFINE token == [id |-> task[a].token.id, grant |-> issued + 1,
                         member |-> task[a].token.member]
               w == [pc |-> "refreshSave", token |-> token, account |-> task[a].account]
    <3>1. /\ task[a] \in Work
          /\ task[a].token \in Token
          /\ owner[task[a].token.grant] = task[a].token.member
      BY <1>9 DEF Refresh, TokenInv, TokenTypeOK, InHand, Owned
    <3>2. issued + 1 \in Grant /\ issued' = issued + 1
      BY <2>2, <3>1, Issuing DEF Token
    <3>3. w \in Work
      BY <3>1, <3>2 DEF Work, Token
    <3>4. task' = [task EXCEPT ![a] = w] /\ UNCHANGED <<row, past>>
      <4>1. [task[a].token EXCEPT !.grant = issued + 1] = token
        BY <3>1 DEF Token
      <4>2. QED
        BY <1>9, <2>2, <4>1 DEF Refresh, Hold
    <3>5. QED
      BY <3>2, <3>3, <3>4, NewGrant
  <2>3. QED
    BY <1>9, <2>1, <2>2 DEF Refresh
<1>10. ASSUME NEW a \in Agent, RefreshSave(a)
       PROVE  SavingInv'
  <2>1. CASE Store(task[a].token) /\ Goto(a, "post")
    <3>1. /\ [task[a] EXCEPT !.pc = "post"] \in Work
          /\ [task[a] EXCEPT !.pc = "post"].pc = "post"
      BY Grants DEF Work
    <3>2. Saving(a) /\ issued' = issued
      BY <1>10 DEF RefreshSave, Saving, linkedIn
    <3>3. QED
      BY <2>1, <3>1, <3>2, Storing DEF Goto
  <2>2. QED
    BY <1>3, <1>10, <2>1 DEF RefreshSave, linkedIn
<1>11. ASSUME NEW a \in Agent, Post(a) \/ Fail(a)
       PROVE  SavingInv'
  BY <1>3, <1>11 DEF Post, Fail, linkedIn
<1>12. ASSUME NEW g \in Grant, AccessExpires(g) \/ RefreshExpires(g)
       PROVE  SavingInv'
  BY <1>1, <1>12 DEF AccessExpires, RefreshExpires
<1>13. ASSUME NEW a \in Agent, NEW m \in Member, Connect(a, m)
       PROVE  SavingInv'
  BY <1>2, <1>13 DEF Connect
<1>14. ASSUME NEW a \in Agent, Disconnect(a) \/ Publish(a)
       PROVE  SavingInv'
  BY <1>2, <1>14 DEF Disconnect, Publish
<1>15. QED
  BY <1>1, <1>4, <1>5, <1>6, <1>7, <1>8, <1>9, <1>10, <1>11, <1>12, <1>13, <1>14
  DEF TokenNext, AgentStep, Agent, tokenVars

\* "desconecta (remove token)": however a disconnect crosses connects and
\* refreshes, the tokens it removed, and those a refresh replaced, are not
\* stored again; an ended connection is back only with tokens that were not
\* yet stored when it ended.
THEOREM RemovedTokensStayOut == TokenSpec => []OldTokensStayOut
<1>1. TokenInv /\ SavingInv => OldTokensStayOut
  BY DEF SavingInv
<1>2. QED
  BY <1>1, InitTokens, NextTokens, InitSaving, NextSaving, PTL DEF TokenSpec

=============================================================================
