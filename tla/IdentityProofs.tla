--------------------------- MODULE IdentityProofs ---------------------------
(***************************************************************************)
(* Registrations, proved for every number of requests, tenants, slugs and  *)
(* emails, and with the policies enforced or not.                          *)
(***************************************************************************)
EXTENDS Identity, FiniteSetTheorems, TLAPS

\* Empty tables, and nobody at work.
LEMMA InitIdentity == IdInit => IdInv
  BY IdentityAssumption
  DEF IdInit, IdInv, IdTypeOK, Idle, Work, InHand, Drawn, Claims, Stored, Users,
      SessionsAreBacked, PolicyRefusesUsers, None

\* Counting users and claims.
LEMMA Finite ==
  ASSUME NEW e
  PROVE  /\ IsFiniteSet(Users(e)) /\ Cardinality(Users(e)) \in Nat
         /\ IsFiniteSet(Claiming(e)) /\ Cardinality(Claiming(e)) \in Nat
         /\ Cardinality(Claiming(e)) <= Cardinality(Request)
         /\ Cardinality(Request) \in Nat
<1>1. Users(e) \in SUBSET Tenant /\ Claiming(e) \in SUBSET Request
  BY DEF Users, Claiming
<1>2. QED
  BY <1>1, FS_Subset, FS_CardinalityType, IdentityAssumption

\* A claim that goes away, or that is made for an email nobody has, keeps the
\* count.
LEMMA Claiming_Fewer ==
  ASSUME NEW e, Claims(e), Users(e)' = Users(e),
         Users(e) # {} => Claiming(e)' \subseteq Claiming(e)
  PROVE  Claims(e)'
<1>1. CASE Users(e) = {}
  BY <1>1 DEF Claims
<1>2. CASE Users(e) # {}
  <2>1. Claiming(e)' \in SUBSET Claiming(e)
    BY <1>2
  <2>2. /\ Cardinality(Claiming(e)') <= Cardinality(Claiming(e))
        /\ Cardinality(Claiming(e)') \in Nat
    BY <2>1, Finite, FS_Subset, FS_CardinalityType
  <2>3. QED
    BY <1>2, <2>2, Finite DEF Claims
<1>3. QED
  BY <1>1, <1>2

\* A request that takes up work w, which it knows enough for, keeps the
\* invariant when no table changes.
LEMMA Working ==
  ASSUME IdInv, NEW r \in Request, NEW w \in Work, InHand(w),
         task' = [task EXCEPT ![r] = w],
         UNCHANGED <<tables, now>>, failures' \in 0 .. MaxFailures,
         IdTypeOK /\ pairs' \subseteq [user : Tenant, at : 0 .. MaxTime],
         SessionsAreBacked',
         Drawn(w) => /\ \A q \in Request \ {r} : Drawn(task[q]) => task[q].tenant # w.tenant
                     /\ \/ Drawn(task[r]) /\ task[r].email = w.email
                        \/ Users(w.email) = {}
  PROVE  IdInv'
<1>1. UNCHANGED <<slugs, emails, keys, revoked>>
  BY DEF tables
<1>2. /\ task' \in [Request -> Work]
      /\ \A q \in Request : task'[q] = IF q = r THEN w ELSE task[q]
  BY DEF IdTypeOK
<1>3. IdTypeOK'
  BY <1>1, <1>2 DEF IdTypeOK
<1>4. \A q \in Request : InHand(task[q])'
  BY <1>1, <1>2 DEF IdInv, InHand, Stored
<1>5. \A p, q \in Request :
        p # q /\ Drawn(task[p])' /\ Drawn(task[q])' => (task[p].tenant # task[q].tenant)'
  BY <1>2 DEF IdInv, Drawn
<1>6. \A e \in Email : Claims(e)'
  <2> SUFFICES ASSUME NEW e \in Email PROVE Claims(e)'
    OBVIOUS
  <2>1. Users(e)' = Users(e)
    BY <1>1 DEF Users
  <2>2. Users(e) # {} => Claiming(e)' \subseteq Claiming(e)
    BY <1>2 DEF Claiming, Drawn
  <2>3. QED
    BY <2>1, <2>2, Claiming_Fewer DEF IdInv
<1>7. QED
  BY <1>1, <1>3, <1>4, <1>5, <1>6 DEF IdInv, Stored, PolicyRefusesUsers

\* Nor does one that ends.
LEMMA Finishing ==
  ASSUME IdInv, NEW r \in Request, Finish(r),
         UNCHANGED <<tables, now, pairs>>, failures' \in 0 .. MaxFailures
  PROVE  IdInv'
<1>1. Idle \in Work /\ InHand(Idle) /\ ~Drawn(Idle)
  BY DEF Idle, Work, InHand, Drawn
<1>2. SessionsAreBacked' /\ IdTypeOK /\ pairs' \subseteq [user : Tenant, at : 0 .. MaxTime]
  BY DEF IdInv, IdTypeOK, SessionsAreBacked, tables, Stored
<1>3. QED
  BY <1>1, <1>2, Working DEF Finish

\* The tenant's row: the slug is nobody else's and the id is this request's.
LEMMA SavingTenant ==
  ASSUME IdInv, NEW r \in Request, TenantSave(r), Goto(r, "userSave"),
         \A t \in Stored : slugs[t] # task[r].slug,
         slugs' = [slugs EXCEPT ![task[r].tenant] = task[r].slug]
  PROVE  IdInv'
<1> DEFINE t == task[r].tenant
<1>1. /\ task[r].pc = "tenantSave" /\ t \in Tenant \ Stored /\ task[r].slug \in Slug
      /\ emails[t] = None
  BY DEF TenantSave, IdInv, InHand
<1>2. UNCHANGED <<emails, keys, revoked, pairs, now, failures>>
  BY DEF TenantSave
<1>3. /\ slugs' \in [Tenant -> Slug \cup {None}]
      /\ \A u \in Tenant : slugs'[u] = IF u = t THEN task[r].slug ELSE slugs[u]
      /\ Stored' = Stored \cup {t}
  BY <1>1, IdentityAssumption DEF IdInv, IdTypeOK, Stored, None
<1>4. /\ task' \in [Request -> Work]
      /\ \A q \in Request : q # r => task'[q] = task[q]
      /\ task'[r] = [task[r] EXCEPT !.pc = "userSave"]
  BY DEF IdInv, IdTypeOK, Goto, Work
<1>5. IdTypeOK'
  BY <1>2, <1>3, <1>4 DEF IdInv, IdTypeOK
<1>6. \A q \in Request : InHand(task[q])'
  <2>1. InHand(task[r])'
    BY <1>1, <1>2, <1>3, <1>4 DEF IdInv, InHand, IdTypeOK, Work
  <2>2. ASSUME NEW q \in Request, q # r PROVE InHand(task[q])'
    <3>1. task[q].pc = "tenantSave" => task[q].tenant # t
      BY <1>1, <2>2 DEF IdInv, Drawn
    <3>2. QED
      BY <1>2, <1>3, <1>4, <2>2, <3>1 DEF IdInv, InHand
  <2>3. QED
    BY <2>1, <2>2
<1>7. /\ \A p, q \in Request :
           p # q /\ Drawn(task[p])' /\ Drawn(task[q])' => (task[p].tenant # task[q].tenant)'
      /\ \A e \in Email : Claiming(e)' = Claiming(e) /\ Users(e)' = Users(e)
  BY <1>1, <1>2, <1>4 DEF IdInv, IdTypeOK, Work, Drawn, Claiming, Users
<1>8. /\ \A u, v \in Stored' : slugs'[u] = slugs'[v] => u = v
      /\ \A u \in Tenant : emails'[u] # None => u \in Stored'
      /\ SessionsAreBacked'
  BY <1>1, <1>2, <1>3 DEF IdInv, SessionsAreBacked, Stored
<1>9. \A e \in Email : Claims(e)'
  BY <1>7 DEF IdInv, Claims
<1>10. QED
  BY <1>2, <1>5, <1>6, <1>7, <1>8, <1>9 DEF IdInv, PolicyRefusesUsers

\* The user's row: a claim becomes a user.
LEMMA SavingUser ==
  ASSUME IdInv, NEW r \in Request, UserSave(r),
         Admits(task[r].context, task[r].tenant)
  PROVE  IdInv'
<1>0. PICK t \in Tenant, e \in Email : t = task[r].tenant /\ e = task[r].email
  BY DEF UserSave, IdInv, InHand
<1>1. /\ task[r].pc = "userSave" /\ t \in Stored
      /\ emails[t] = None /\ ~RlsEnforced
  BY <1>0, IdentityAssumption DEF UserSave, IdInv, InHand, Admits, Setting
<1>2. /\ UNCHANGED <<slugs, keys, revoked, pairs, now, failures>>
      /\ emails' = [emails EXCEPT ![t] = e]
  BY <1>0 DEF UserSave
<1>3. /\ emails' \in [Tenant -> Email \cup {None}]
      /\ \A u \in Tenant : emails'[u] = IF u = t THEN e ELSE emails[u]
      /\ e # None
  BY <1>1, <1>2, IdentityAssumption DEF IdInv, IdTypeOK, None
<1>4. /\ Idle \in Work /\ InHand(Idle)' /\ ~Drawn(Idle)
      /\ task' = [task EXCEPT ![r] = Idle]
      /\ \A q \in Request : task'[q] = IF q = r THEN Idle ELSE task[q]
  BY DEF UserSave, Finish, IdInv, IdTypeOK, Idle, Work, InHand, Drawn
<1>5. IdTypeOK'
  BY <1>2, <1>3, <1>4 DEF IdInv, IdTypeOK
<1>6. \A q \in Request : InHand(task[q])'
  <2>1. ASSUME NEW q \in Request, q # r PROVE InHand(task[q])'
    <3>1. task[q].pc \in {"userSave", "tenantSave"} => task[q].tenant # t
      BY <1>0, <1>1, <2>1 DEF IdInv, Drawn
    <3>2. QED
      BY <1>2, <1>3, <1>4, <2>1, <3>1 DEF IdInv, InHand, Stored
  <2>2. QED
    BY <1>4, <2>1
<1>7. \A p, q \in Request :
        p # q /\ Drawn(task[p])' /\ Drawn(task[q])' => (task[p].tenant # task[q].tenant)'
  BY <1>4 DEF IdInv, Drawn
<1>8. SessionsAreBacked' /\ \A u \in Tenant : emails'[u] # None => u \in Stored'
  BY <1>1, <1>2, <1>3 DEF IdInv, IdTypeOK, SessionsAreBacked, Stored
<1>9. \A f \in Email : Claims(f)'
  <2>1. ASSUME NEW f \in Email, f # e PROVE Claims(f)'
    <3>1. Users(f)' = Users(f)
      BY <1>1, <1>3, <2>1, IdentityAssumption DEF Users, None
    <3>2. Claiming(f)' = Claiming(f)
      BY <1>0, <1>4, <2>1 DEF Claiming, Idle
    <3>3. QED
      BY <3>1, <3>2 DEF IdInv, Claims
  <2>2. Claims(e)'
    <3>1. Users(e)' = Users(e) \cup {t} /\ t \notin Users(e)
      BY <1>1, <1>3 DEF Users
    <3>2. Claiming(e)' = Claiming(e) \ {r} /\ r \in Claiming(e)
      BY <1>0, <1>1, <1>4 DEF Claiming, Idle
    <3>a. Cardinality(Users(e)') = Cardinality(Users(e)) + 1
      BY <3>1, Finite, FS_AddElement
    <3>b. Cardinality(Claiming(e)') = Cardinality(Claiming(e)) - 1
      BY <3>2, Finite, FS_RemoveElement
    <3>3. Users(e) = {} => Cardinality(Users(e)) = 0
      BY FS_EmptySet
    <3>4. Cardinality(Users(e)') + Cardinality(Claiming(e)') <= Cardinality(Request)
      BY <3>a, <3>b, <3>3, Finite DEF IdInv, Claims
    <3>5. QED
      BY <3>4 DEF Claims
  <2>3. QED
    BY <2>1, <2>2
<1>10. \A u, v \in Stored' : slugs'[u] = slugs'[v] => u = v
  BY <1>2 DEF IdInv, Stored
<1>11. QED
  BY <1>1, <1>5, <1>6, <1>7, <1>8, <1>9, <1>10 DEF IdInv, PolicyRefusesUsers

\* Every step keeps the invariant.
LEMMA NextIdentity == IdInv /\ [IdNext]_idVars => IdInv'
<1> SUFFICES ASSUME IdInv, [IdNext]_idVars
             PROVE  IdInv'
  OBVIOUS
<1>a. /\ IdTypeOK /\ failures \in 0 .. MaxFailures /\ task \in [Request -> Work]
      /\ pairs \subseteq [user : Tenant, at : 0 .. MaxTime] /\ now \in 0 .. MaxTime
  BY DEF IdInv, IdTypeOK
<1>b. ASSUME UNCHANGED <<tables, pairs>>
      PROVE  SessionsAreBacked'
  BY <1>b DEF IdInv, SessionsAreBacked, tables, Stored
<1>c. ASSUME NEW t \in Tenant, t \in Stored, emails[t] # None, UNCHANGED <<tables, now>>,
             pairs' = pairs \cup IssuePair(t)
      PROVE  /\ SessionsAreBacked'
             /\ pairs' \subseteq [user : Tenant, at : 0 .. MaxTime]
  BY <1>a, <1>c DEF IdInv, SessionsAreBacked, tables, Stored, IssuePair
<1>d. ASSUME UNCHANGED <<slugs, emails, task, failures>>, IdTypeOK', SessionsAreBacked'
      PROVE  IdInv'
  BY <1>d DEF IdInv, InHand, Stored, Claims, Users, Claiming, Drawn, PolicyRefusesUsers
<1>1. CASE Tick
  <2>1. now' \in 0 .. MaxTime
    BY <1>1, <1>a, IdentityAssumption DEF Tick
  <2>2. IdTypeOK'
    BY <1>1, <2>1 DEF Tick, IdInv, IdTypeOK, tables
  <2>3. QED
    BY <1>1, <1>b, <1>d, <2>2 DEF Tick, tables
<1>2. ASSUME NEW r \in Request, NEW s \in Slug, NEW e \in Email,
             Register(r, s, e) \/ Login(r, s, e)
      PROVE  IdInv'
  <2> DEFINE w(pc) == [Idle EXCEPT !.pc = pc, !.slug = s, !.email = e]
  <2>1. \A pc \in {"slugExists", "getBySlug"} :
          w(pc) \in Work /\ InHand(w(pc)) /\ ~Drawn(w(pc))
    BY DEF Idle, Work, InHand, Drawn
  <2>2. PICK pc \in {"slugExists", "getBySlug"} :
          /\ task' = [task EXCEPT ![r] = w(pc)]
          /\ UNCHANGED <<tables, pairs, now, failures>>
    BY <1>2 DEF Register, Login, Start
  <2>3. QED
    BY <1>a, <1>b, <2>1, <2>2, Working
<1>3. ASSUME NEW r \in Request, SlugExists(r)
      PROVE  IdInv'
  <2>1. CASE Finish(r)
    BY <1>3, <1>a, <2>1, Finishing DEF SlugExists
  <2>2. CASE Goto(r, "emailExists")
    <3> DEFINE w == [task[r] EXCEPT !.pc = "emailExists"]
    <3>1. w \in Work /\ InHand(w) /\ ~Drawn(w) /\ task' = [task EXCEPT ![r] = w]
      BY <1>3, <1>a, <2>2 DEF SlugExists, Goto, Work, IdInv, InHand, Drawn
    <3>2. QED
      BY <1>3, <1>a, <1>b, <3>1, Working DEF SlugExists
  <2>3. QED
    BY <1>3, <2>1, <2>2 DEF SlugExists
<1>4. ASSUME NEW r \in Request, EmailExists(r)
      PROVE  IdInv'
  <2>1. CASE Finish(r)
    BY <1>4, <1>a, <2>1, Finishing DEF EmailExists
  <2>2. ASSUME NEW t \in Tenant, Fresh(t),
               task' = [task EXCEPT ![r] = [@ EXCEPT !.pc = "tenantSave", !.tenant = t]],
               Visible(task[r].context, Users(task[r].email)) = {}
        PROVE  IdInv'
    <3> DEFINE w == [task[r] EXCEPT !.pc = "tenantSave", !.tenant = t]
    <3>a. InHand(task[r]) /\ task[r] \in Work /\ task[r].pc = "emailExists"
      BY <1>4, <1>a DEF EmailExists, IdInv
    <3>0. Users(task[r].email) = {}
      <4>1. CASE RlsEnforced
        BY <3>a, <4>1, IdentityAssumption DEF IdInv, InHand, PolicyRefusesUsers, Users, None
      <4>2. CASE ~RlsEnforced
        BY <2>2, <4>2 DEF Visible, Admits
      <4>3. QED
        BY <4>1, <4>2
    <3>1. w \in Work /\ InHand(w) /\ task' = [task EXCEPT ![r] = w]
      BY <2>2, <3>a DEF Work, InHand, Fresh
    <3>2. \A q \in Request \ {r} : Drawn(task[q]) => task[q].tenant # w.tenant
      BY <1>a, <2>2 DEF Fresh, Work
    <3>3. w.email = task[r].email
      BY <1>a DEF Work
    <3>4. QED
      BY <1>4, <1>a, <1>b, <3>0, <3>1, <3>2, <3>3, Working DEF EmailExists
  <2>3. QED
    BY <1>4, <2>1, <2>2 DEF EmailExists
<1>5. ASSUME NEW r \in Request, TenantSave(r)
      PROVE  IdInv'
  BY <1>5, <1>a, SavingTenant, Finishing DEF TenantSave, tables
<1>6. ASSUME NEW r \in Request, UserSave(r)
      PROVE  IdInv'
  BY <1>6, <1>a, SavingUser, Finishing DEF UserSave, tables
<1>7. ASSUME NEW r \in Request, GetBySlug(r)
      PROVE  IdInv'
  <2>1. CASE Finish(r)
    BY <1>7, <1>a, <2>1, Finishing DEF GetBySlug
  <2>2. ASSUME NEW t \in Stored,
               task' = [task EXCEPT ![r] = [@ EXCEPT !.pc = "getByEmail", !.context = SetContext(t)]]
        PROVE  IdInv'
    <3> DEFINE w == [task[r] EXCEPT !.pc = "getByEmail", !.context = SetContext(t)]
    <3>a. InHand(task[r]) /\ task[r] \in Work /\ task[r].pc = "getBySlug"
      BY <1>7, <1>a DEF GetBySlug, IdInv
    <3>1. w \in Work /\ InHand(w) /\ ~Drawn(w) /\ task' = [task EXCEPT ![r] = w]
      BY <2>2, <3>a DEF Work, InHand, Drawn, SetContext, Stored
    <3>2. QED
      BY <1>7, <1>a, <1>b, <3>1, Working DEF GetBySlug
  <2>3. QED
    BY <1>7, <2>1, <2>2 DEF GetBySlug
<1>8. ASSUME NEW r \in Request, GetByEmail(r)
      PROVE  IdInv'
  <2>1. CASE Finish(r)
    BY <1>8, <1>a, <2>1, Finishing DEF GetByEmail
  <2>2. ASSUME NEW t \in Users(task[r].email),
               task' = [task EXCEPT ![r] = [@ EXCEPT !.pc = "loginSave", !.tenant = t,
                                                    !.context = ResetContext]]
        PROVE  IdInv'
    <3> DEFINE w == [task[r] EXCEPT !.pc = "loginSave", !.tenant = t, !.context = ResetContext]
    <3>1. task[r].email \in Email /\ t \in Tenant /\ emails[t] # None /\ t \in Stored
      BY <1>8, IdentityAssumption DEF GetByEmail, IdInv, InHand, Users, None
    <3>2. w \in Work /\ InHand(w) /\ ~Drawn(w) /\ task' = [task EXCEPT ![r] = w]
      BY <1>8, <1>a, <2>2, <3>1 DEF GetByEmail, Work, IdInv, InHand, Drawn, ResetContext
    <3>3. QED
      BY <1>8, <1>a, <1>b, <3>2, Working DEF GetByEmail
  <2>3. QED
    BY <1>8, <2>1, <2>2 DEF GetByEmail, Visible
<1>9. ASSUME NEW r \in Request, LoginSave(r)
      PROVE  IdInv'
  <2>1. CASE pairs' = pairs
    BY <1>9, <1>a, <2>1, Finishing DEF LoginSave
  <2>2. CASE pairs' = pairs \cup IssuePair(task[r].tenant)
    <3>1. /\ task[r].tenant \in Tenant /\ task[r].tenant \in Stored
          /\ emails[task[r].tenant] # None
      BY <1>9 DEF LoginSave, IdInv, InHand
    <3>2. /\ SessionsAreBacked'
          /\ pairs' \subseteq [user : Tenant, at : 0 .. MaxTime]
      BY <1>9, <1>c, <2>2, <3>1 DEF LoginSave
    <3>3. Idle \in Work /\ InHand(Idle) /\ ~Drawn(Idle)
      BY DEF Idle, Work, InHand, Drawn
    <3>4. QED
      BY <1>9, <1>a, <3>2, <3>3, Working DEF LoginSave, Finish
  <2>3. QED
    BY <1>9, <2>1, <2>2 DEF LoginSave
<1>10. ASSUME NEW r \in Request, KeySave(r)
       PROVE  IdInv'
  <2>1. task[r].key \in Key /\ UNCHANGED <<slugs, emails, keys, pairs, now, failures>>
    BY <1>10 DEF KeySave, IdInv, InHand
  <2>2. Idle \in Work /\ ~Drawn(Idle) /\ InHand(Idle)'
    BY DEF Idle, Work, Drawn, InHand
  <2>3. \A q \in Request : task'[q] = IF q = r THEN Idle ELSE task[q]
    BY <1>10, <1>a DEF KeySave, Finish
  <2>4. IdTypeOK' /\ SessionsAreBacked'
    BY <1>10, <2>1, <2>2 DEF KeySave, Finish, IdInv, IdTypeOK, SessionsAreBacked, Stored
  <2>5. /\ \A q \in Request : InHand(task[q])'
        /\ \A p, q \in Request :
             p # q /\ Drawn(task[p])' /\ Drawn(task[q])' => (task[p].tenant # task[q].tenant)'
    BY <2>1, <2>2, <2>3 DEF IdInv, InHand, Drawn, Stored
  <2>6. \A e \in Email : Claims(e)'
    <3> SUFFICES ASSUME NEW e \in Email PROVE Claims(e)'
      OBVIOUS
    <3>1. Users(e)' = Users(e) /\ Claiming(e)' \subseteq Claiming(e)
      BY <2>1, <2>3 DEF Users, Claiming, Idle
    <3>2. QED
      BY <3>1, Claiming_Fewer DEF IdInv
  <2>7. QED
    BY <2>1, <2>4, <2>5, <2>6 DEF IdInv, Stored, PolicyRefusesUsers
<1>11. ASSUME NEW r \in Request, Fail(r)
       PROVE  IdInv'
  <2>1. failures' \in 0 .. MaxFailures
    BY <1>11, <1>a, IdentityAssumption DEF Fail
  <2>2. QED
    BY <1>11, <2>1, Finishing DEF Fail
<1>12. ASSUME NEW r \in Request, NEW pair \in pairs, NEW k \in Key, RevokeLoad(r, pair, k)
       PROVE  IdInv'
  <2> DEFINE w == [Idle EXCEPT !.pc = "revokeSave", !.key = k, !.context = Authorised(pair)]
  <2>1. w \in Work /\ InHand(w) /\ ~Drawn(w) /\ task' = [task EXCEPT ![r] = w]
    BY <1>12, <1>a DEF RevokeLoad, Start, Idle, Work, InHand, Drawn, Authorised, SetContext
  <2>2. QED
    BY <1>12, <1>a, <1>b, <2>1, Working DEF RevokeLoad
<1>13. ASSUME NEW pair \in pairs, RefreshPair(pair)
       PROVE  IdInv'
  <2>1. pair.user \in Tenant /\ pair.user \in Stored /\ emails[pair.user] # None
    BY <1>13, <1>a DEF IdInv, SessionsAreBacked
  <2>2. /\ SessionsAreBacked'
        /\ pairs' \subseteq [user : Tenant, at : 0 .. MaxTime]
    BY <1>13, <1>c, <2>1 DEF RefreshPair
  <2>3. QED
    BY <1>13, <1>a, <1>d, <2>2 DEF RefreshPair, IdTypeOK, tables
<1>14. ASSUME NEW pair \in pairs, NEW k \in Key, CreateApiKey(pair, k)
       PROVE  IdInv'
  <2>1. pair.user \in Tenant /\ pair.user \in Stored /\ emails[pair.user] # None
    BY <1>14, <1>a DEF IdInv, SessionsAreBacked
  <2>2. IdTypeOK' /\ SessionsAreBacked'
    BY <1>14, <1>a, <2>1 DEF CreateApiKey, IdInv, IdTypeOK, SessionsAreBacked, Stored
  <2>3. QED
    BY <1>14, <1>d, <2>2 DEF CreateApiKey
<1>15. CASE UNCHANGED idVars
  <2>1. IdTypeOK' /\ SessionsAreBacked'
    BY <1>15 DEF idVars, IdInv, IdTypeOK, SessionsAreBacked, Stored
  <2>2. QED
    BY <1>15, <1>d, <2>1 DEF idVars
<1>16. QED
  BY <1>1, <1>2, <1>3, <1>4, <1>5, <1>6, <1>7, <1>8, <1>9, <1>10, <1>11, <1>12, <1>13, <1>14,
     <1>15
  DEF IdNext, RequestStep

\* The invariant of the identity tables: types, unique slugs, one registration
\* to a drawn id, and what every request knows.
THEOREM IdentityCorrect == IdSpec => []IdInv
<1>1. IdInv /\ [IdNext]_idVars => IdInv'
  BY NextIdentity
<1>2. QED
  BY <1>1, InitIdentity, PTL DEF IdSpec

\* However requests interleave and fail, an email is registered at most as
\* often as registrations can be in progress at once.
THEOREM EmailsAreBounded == IdSpec => []EmailsBounded
<1>1. IdInv => EmailsBounded
  <2> SUFFICES ASSUME IdInv, NEW e \in Email
               PROVE  Cardinality(Users(e)) <= Cardinality(Request)
    BY DEF EmailsBounded
  <2>1. Users(e) = {} => Cardinality(Users(e)) = 0
    BY FS_EmptySet
  <2>2. QED
    BY <2>1, Finite DEF IdInv, Claims
<1>2. QED
  BY <1>1, IdentityCorrect, PTL

\* Every token and every API key is a registered user's.
THEOREM SessionsBacked == IdSpec => []SessionsAreBacked
<1>1. IdInv => SessionsAreBacked
  BY DEF IdInv
<1>2. QED
  BY <1>1, IdentityCorrect, PTL

\* With the policies enforced, no request ever makes a user.
THEOREM PolicyStopsRegistration == IdSpec => []PolicyRefusesUsers
<1>1. IdInv => PolicyRefusesUsers
  BY DEF IdInv
<1>2. QED
  BY <1>1, IdentityCorrect, PTL

\* Only a call that fails after the tenant was saved leaves one more tenant
\* without its user.
LEMMA HalvesStep ==
  ASSUME IdInv, [IdNext]_idVars, ~RlsEnforced
  PROVE  \/ Halves' \subseteq Halves /\ failures' >= failures
         \/ \E t \in Tenant : Halves' \subseteq Halves \cup {t} /\ failures' = failures + 1
<1>a. /\ task \in [Request -> Work] /\ failures \in Nat
      /\ slugs \in [Tenant -> Slug \cup {None}] /\ emails \in [Tenant -> Email \cup {None}]
  BY IdentityAssumption DEF IdInv, IdTypeOK
<1>b. ASSUME NEW r \in Request, task[r].pc # "userSave", UNCHANGED <<slugs, emails, failures>>,
             \A q \in Request : q # r => task'[q] = task[q]
      PROVE  Halves' \subseteq Halves /\ failures' >= failures
  BY <1>a, <1>b DEF Halves, Stored, Registering
<1>c. ASSUME UNCHANGED <<slugs, emails, failures, task>>
      PROVE  Halves' \subseteq Halves /\ failures' >= failures
  BY <1>a, <1>c DEF Halves, Stored, Registering
<1>1. ASSUME NEW r \in Request, TenantSave(r)
      PROVE  Halves' \subseteq Halves /\ failures' >= failures
  <2>1. CASE Finish(r) /\ UNCHANGED slugs
    BY <1>1, <1>a, <1>b, <2>1 DEF TenantSave, Finish
  <2>2. CASE Goto(r, "userSave") /\ slugs' = [slugs EXCEPT ![task[r].tenant] = task[r].slug]
    <3>1. /\ task'[r].pc = "userSave" /\ task'[r].tenant = task[r].tenant
          /\ \A q \in Request : q # r => task'[q] = task[q]
          /\ \A t \in Tenant : t # task[r].tenant => slugs'[t] = slugs[t]
          /\ task[r].pc # "userSave" /\ UNCHANGED <<emails, failures>>
      BY <1>1, <1>a, <2>2 DEF TenantSave, Goto, Work
    <3>2. QED
      BY <1>a, <3>1 DEF Halves, Stored, Registering
  <2>3. QED
    BY <1>1, <2>1, <2>2 DEF TenantSave
<1>2. ASSUME NEW r \in Request, UserSave(r)
      PROVE  Halves' \subseteq Halves /\ failures' >= failures
  <2>1. /\ task[r].email # None /\ emails' = [emails EXCEPT ![task[r].tenant] = task[r].email]
        /\ task[r].tenant \in Tenant /\ UNCHANGED <<slugs, failures>>
        /\ \A q \in Request : q # r => task'[q] = task[q]
    BY <1>2, <1>a, IdentityAssumption DEF UserSave, Admits, Finish, IdInv, InHand, None
  <2>2. /\ emails'[task[r].tenant] # None
        /\ \A t \in Tenant : t # task[r].tenant => emails'[t] = emails[t]
    BY <1>a, <2>1
  <2>3. QED
    BY <1>a, <2>1, <2>2 DEF Halves, Stored, Registering
<1>3. ASSUME NEW r \in Request, Fail(r)
      PROVE  \/ Halves' \subseteq Halves /\ failures' >= failures
             \/ \E t \in Tenant : Halves' \subseteq Halves \cup {t} /\ failures' = failures + 1
  <2>1. /\ UNCHANGED <<slugs, emails>> /\ failures' = failures + 1
        /\ \A q \in Request : q # r => task'[q] = task[q]
    BY <1>3, <1>a DEF Fail, Finish, tables
  <2>2. CASE task[r].tenant \in Tenant
    <3>1. Halves' \subseteq Halves \cup {task[r].tenant}
      BY <1>a, <2>1 DEF Halves, Stored, Registering
    <3>2. QED
      BY <2>1, <2>2, <3>1
  <2>3. CASE task[r].tenant \notin Tenant
    <3>1. Halves' \subseteq Halves
      BY <1>a, <2>1, <2>3 DEF Halves, Stored, Registering
    <3>2. QED
      BY <1>a, <2>1, <3>1
  <2>4. QED
    BY <2>2, <2>3
<1>4. ASSUME NEW r \in Request,
             \/ SlugExists(r) \/ EmailExists(r) \/ GetBySlug(r) \/ GetByEmail(r)
             \/ LoginSave(r) \/ KeySave(r)
      PROVE  Halves' \subseteq Halves /\ failures' >= failures
  <2>1. /\ task[r].pc # "userSave" /\ UNCHANGED <<slugs, emails, failures>>
        /\ \A q \in Request : q # r => task'[q] = task[q]
    BY <1>4, <1>a
    DEF SlugExists, EmailExists, GetBySlug, GetByEmail, LoginSave, KeySave, Finish, Goto, tables
  <2>2. QED
    BY <1>b, <2>1
<1>5. ASSUME NEW r \in Request, NEW w \in Work, Start(r, w), UNCHANGED <<tables, failures>>
      PROVE  Halves' \subseteq Halves /\ failures' >= failures
  BY <1>5, <1>a, <1>b DEF Start, tables
<1>6. ASSUME NEW r \in Request, NEW s \in Slug, NEW e \in Email,
             Register(r, s, e) \/ Login(r, s, e)
      PROVE  Halves' \subseteq Halves /\ failures' >= failures
  BY <1>6, <1>5 DEF Register, Login, Work, Idle
<1>7. ASSUME NEW r \in Request, NEW pair \in pairs, NEW k \in Key, RevokeLoad(r, pair, k)
      PROVE  Halves' \subseteq Halves /\ failures' >= failures
  BY <1>7, <1>a, <1>b DEF RevokeLoad, Start, tables
<1>8. QED
  BY <1>c, <1>1, <1>2, <1>3, <1>4, <1>6, <1>7
  DEF IdNext, RequestStep, idVars, Tick, RefreshPair, CreateApiKey, tables

\* Where the policies do not apply, every tenant that a registration left
\* without its user is paid for by a call that failed.
THEOREM HalvesPaid == IdSpec => []HalvesArePaid
<1>a. ASSUME NEW S \in SUBSET Tenant
      PROVE  IsFiniteSet(S) /\ Cardinality(S) \in Nat
  BY IdentityAssumption, FS_Subset, FS_CardinalityType
<1>1. IdInit => HalvesArePaid
  <2> SUFFICES ASSUME IdInit PROVE HalvesArePaid
    OBVIOUS
  <2>1. Halves = {}
    BY DEF IdInit, Halves, Stored
  <2>2. QED
    BY <2>1, FS_EmptySet DEF IdInit, HalvesArePaid
<1>2. IdInv /\ HalvesArePaid /\ [IdNext]_idVars => HalvesArePaid'
  <2> SUFFICES ASSUME IdInv, HalvesArePaid, [IdNext]_idVars, ~RlsEnforced
               PROVE  Cardinality(Halves') <= failures'
    BY DEF HalvesArePaid
  <2>1. /\ Halves \in SUBSET Tenant /\ Halves' \in SUBSET Tenant
        /\ Cardinality(Halves) <= failures /\ failures \in Nat
    BY IdentityAssumption DEF HalvesArePaid, Halves, Stored, IdInv, IdTypeOK
  <2>2. CASE Halves' \subseteq Halves /\ failures' >= failures
    <3>1. Cardinality(Halves') <= Cardinality(Halves)
      BY <1>a, <2>1, <2>2, FS_Subset
    <3>2. failures' \in Nat
      BY NextIdentity, IdentityAssumption DEF IdInv, IdTypeOK
    <3>3. QED
      BY <1>a, <2>1, <2>2, <3>1, <3>2
  <2>3. ASSUME NEW t \in Tenant, Halves' \subseteq Halves \cup {t}, failures' = failures + 1
        PROVE  Cardinality(Halves') <= failures'
    <3>1. IsFiniteSet(Halves \cup {t}) /\ Cardinality(Halves \cup {t}) <= Cardinality(Halves) + 1
      BY <1>a, <2>1, FS_AddElement
    <3>2. Cardinality(Halves') <= Cardinality(Halves \cup {t})
      BY <2>3, <3>1, FS_Subset
    <3>3. Halves \cup {t} \in SUBSET Tenant
      BY <2>1
    <3>4. QED
      BY <1>a, <2>1, <2>3, <3>1, <3>2, <3>3
  <2>4. QED
    BY <2>2, <2>3, HalvesStep
<1>3. QED
  BY <1>1, <1>2, IdentityCorrect, PTL DEF IdSpec

=============================================================================
