------------------------------ MODULE Identity ------------------------------
(***************************************************************************)
(* Tenants, their users, logins and API keys.  A registration makes a      *)
(* tenant and its only user; each of its database calls is a transaction   *)
(* of its own, and requests interleave between them.  A user is named here *)
(* by its tenant, and a pair of JWTs by its user and the time it was       *)
(* issued.                                                                 *)
(***************************************************************************)
EXTENDS Naturals, FiniteSets, RowSecurity

CONSTANTS
  Request,      \* requests in progress at once
  Tenant,       \* ids that can be drawn for new tenants
  Slug, Email,  \* names that requests ask for
  Key,          \* ids that can be drawn for new API keys
  AccessTtl,    \* lifetimes of the two tokens of a pair
  RefreshTtl,
  MaxTime,      \* bound of the model: ticks of the clock
  MaxFailures   \* bound of the model: calls that fail

ASSUME IdentityAssumption ==
  /\ NoTenant \notin Tenant
  /\ "none" \notin Slug \cup Email
  /\ IsFiniteSet(Request) /\ IsFiniteSet(Tenant)
  /\ AccessTtl \in Nat /\ RefreshTtl \in Nat
  /\ MaxTime \in Nat /\ MaxFailures \in Nat

VARIABLES
  slugs,     \* tenants: the slug of each tenant, or "none" where there is no row
  emails,    \* users: the email of each tenant's user, or "none"
  keys,      \* api_keys: the owner of each key, or NoTenant
  revoked,   \* keys whose is_revoked is set
  pairs,     \* pairs of tokens that were issued
  now,
  task,      \* what each request is doing
  failures

idVars == <<slugs, emails, keys, revoked, pairs, now, task, failures>>

tables == <<slugs, emails, keys, revoked>>

None == "none"

Work == [pc      : {"idle", "slugExists", "emailExists", "tenantSave", "userSave",
                    "getBySlug", "getByEmail", "loginSave", "revokeSave"},
         slug    : Slug \cup {None},
         email   : Email \cup {None},
         tenant  : Tenant \cup {NoTenant},   \* the tenant or the user in hand
         context : Tenant \cup {NoTenant},   \* the context variable
         key     : Key \cup {None}]

Idle == [pc |-> "idle", slug |-> None, email |-> None, tenant |-> NoTenant,
         context |-> NoTenant, key |-> None]

IdTypeOK ==
  /\ slugs \in [Tenant -> Slug \cup {None}]
  /\ emails \in [Tenant -> Email \cup {None}]
  /\ keys \in [Key -> Tenant \cup {NoTenant}]
  /\ revoked \subseteq Key
  /\ pairs \subseteq [user : Tenant, at : 0 .. MaxTime]
  /\ now \in 0 .. MaxTime
  /\ task \in [Request -> Work]
  /\ failures \in 0 .. MaxFailures

IdInit ==
  /\ slugs = [t \in Tenant |-> None]
  /\ emails = [t \in Tenant |-> None]
  /\ keys = [k \in Key |-> NoTenant]
  /\ revoked = {}
  /\ pairs = {}
  /\ now = 0
  /\ task = [r \in Request |-> Idle]
  /\ failures = 0

-----------------------------------------------------------------------------

Stored == {t \in Tenant : slugs[t] # None}
Users(e) == {t \in Tenant : emails[t] = e}

Start(r, work) == task[r].pc = "idle" /\ task' = [task EXCEPT ![r] = work]
Goto(r, pc) == task' = [task EXCEPT ![r].pc = pc]
Finish(r) == task' = [task EXCEPT ![r] = Idle]

\* Ids are UUIDs: a new one is no row's and nobody's.
Fresh(t) == t \notin Stored /\ \A r \in Request : task[r].tenant # t

Tick ==
  /\ now < MaxTime
  /\ now' = now + 1
  /\ UNCHANGED <<tables, pairs, task, failures>>

-----------------------------------------------------------------------------
(* The tokens: JWTs, which nothing is stored of.                           *)

IssuePair(user) == {[user |-> user, at |-> now]}

\* decode accepts a token up to and including the second it expires in.
\* RefreshToken then asks is_expired, which is stricter; the dependency that
\* reads the access token does not.
AccessWorks(pair) == now <= pair.at + AccessTtl
RefreshWorks(pair) == now < pair.at + RefreshTtl

\* The dependency of the routes: the tenant in the access token becomes the
\* context of the request.
Authorised(pair) == SetContext(pair.user)

-----------------------------------------------------------------------------
(* Operators below, each with a bug in it: they stand in for their         *)
(* originals when the properties are tested.                               *)

\* The email is looked for in the tenant that is being registered.
EmailExists_InTenant(r) ==
  /\ task[r].pc = "emailExists"
  /\ \E t \in Tenant : Fresh(t) /\ task' = [task EXCEPT ![r] = [@ EXCEPT !.pc = "tenantSave", !.tenant = t]]
  /\ UNCHANGED <<tables, pairs, now, failures>>

\* An IntegrityError is taken for a slug that is registered already.
TenantSave_Swallowed(r) ==
  /\ task[r].pc = "tenantSave"
  /\ slugs' = IF \E t \in Stored : slugs[t] = task[r].slug THEN slugs
              ELSE [slugs EXCEPT ![task[r].tenant] = task[r].slug]
  /\ Goto(r, "userSave")
  /\ UNCHANGED <<emails, keys, revoked, pairs, now, failures>>

\* The tenant is saved before the email is looked for.
SlugExists_SavesTenant(r) ==
  /\ task[r].pc = "slugExists"
  /\ \/ \E t \in Tenant :
          /\ Fresh(t)
          /\ \A u \in Stored : slugs[u] # task[r].slug
          /\ slugs' = [slugs EXCEPT ![t] = task[r].slug]
          /\ IF Users(task[r].email) = {}
             THEN task' = [task EXCEPT ![r] = [@ EXCEPT !.pc = "userSave", !.tenant = t]]
             ELSE Finish(r)
     \/ Finish(r) /\ UNCHANGED slugs
  /\ UNCHANGED <<emails, keys, revoked, pairs, now, failures>>

-----------------------------------------------------------------------------
(* RegisterTenant, from POST /auth/register.                               *)

Register(r, s, e) ==
  /\ Start(r, [Idle EXCEPT !.pc = "slugExists", !.slug = s, !.email = e])
  /\ UNCHANGED <<tables, pairs, now, failures>>

\* A ConflictError if the slug is taken.
SlugExists(r) ==
  /\ task[r].pc = "slugExists"
  /\ IF \E t \in Stored : slugs[t] = task[r].slug THEN Finish(r) ELSE Goto(r, "emailExists")
  /\ UNCHANGED <<tables, pairs, now, failures>>

\* A ConflictError if a user with the email is found; the request has no
\* tenant in its context.  Otherwise the ids are drawn (at the bound of the
\* model the request is given up).
EmailExists(r) ==
  LET found == Visible(task[r].context, Users(task[r].email)) IN
  /\ task[r].pc = "emailExists"
  /\ \/ /\ found = {}
        /\ \E t \in Tenant :
             Fresh(t) /\ task' = [task EXCEPT ![r] = [@ EXCEPT !.pc = "tenantSave", !.tenant = t]]
     \/ /\ found # {} \/ \A t \in Tenant : ~Fresh(t)
        /\ Finish(r)
  /\ UNCHANGED <<tables, pairs, now, failures>>

\* tenants has no policy, but its slugs are unique.
TenantSave(r) ==
  /\ task[r].pc = "tenantSave"
  /\ \/ /\ \A t \in Stored : slugs[t] # task[r].slug
        /\ slugs' = [slugs EXCEPT ![task[r].tenant] = task[r].slug]
        /\ Goto(r, "userSave")
     \/ /\ \E t \in Stored : slugs[t] = task[r].slug
        /\ Finish(r)
        /\ UNCHANGED slugs
  /\ UNCHANGED <<emails, keys, revoked, pairs, now, failures>>

\* The user's row has to pass the policy, and emails are unique in a tenant.
UserSave(r) ==
  /\ task[r].pc = "userSave"
  /\ emails' = IF Admits(task[r].context, task[r].tenant)
               THEN [emails EXCEPT ![task[r].tenant] = task[r].email] ELSE emails
  /\ Finish(r)
  /\ UNCHANGED <<slugs, keys, revoked, pairs, now, failures>>

-----------------------------------------------------------------------------
(* LoginUser, from POST /auth/login, and the tokens it gives out.          *)

Login(r, s, e) ==
  /\ Start(r, [Idle EXCEPT !.pc = "getBySlug", !.slug = s, !.email = e])
  /\ UNCHANGED <<tables, pairs, now, failures>>

GetBySlug(r) ==
  /\ task[r].pc = "getBySlug"
  /\ \/ \E t \in Stored :
          /\ slugs[t] = task[r].slug
          /\ task' = [task EXCEPT ![r] = [@ EXCEPT !.pc = "getByEmail", !.context = SetContext(t)]]
     \/ (\A t \in Stored : slugs[t] # task[r].slug) /\ Finish(r)
  /\ UNCHANGED <<tables, pairs, now, failures>>

\* The email is looked for in the rows the policy shows; two of them raise.
\* The context is reset whatever is found; then the password is verified.
GetByEmail(r) ==
  LET found == Visible(task[r].context, Users(task[r].email)) IN
  /\ task[r].pc = "getByEmail"
  /\ \/ \E t \in found :
          /\ found = {t}
          /\ task' = [task EXCEPT ![r] = [@ EXCEPT !.pc = "loginSave", !.tenant = t,
                                                  !.context = ResetContext]]
     \/ Finish(r)
  /\ UNCHANGED <<tables, pairs, now, failures>>

\* The user is saved as it was read: a merge that finds its row changes
\* nothing in it, one that does not is an INSERT, which the policy refuses.
LoginSave(r) ==
  /\ task[r].pc = "loginSave"
  /\ pairs' = IF Admits(task[r].context, task[r].tenant)
              THEN pairs \cup IssuePair(task[r].tenant) ELSE pairs
  /\ Finish(r)
  /\ UNCHANGED <<tables, now, failures>>

\* POST /auth/refresh reads no table.
RefreshPair(pair) ==
  /\ RefreshWorks(pair)
  /\ pairs' = pairs \cup IssuePair(pair.user)
  /\ UNCHANGED <<tables, now, task, failures>>

-----------------------------------------------------------------------------
(* /auth/api-keys, in the context of the tenant of the access token.       *)

\* A key refers to its user's row.
CreateApiKey(pair, k) ==
  /\ AccessWorks(pair)
  /\ keys[k] = NoTenant
  /\ Admits(Authorised(pair), pair.user)
  /\ emails[pair.user] # None
  /\ keys' = [keys EXCEPT ![k] = pair.user]
  /\ UNCHANGED <<slugs, emails, revoked, pairs, now, task, failures>>

\* RevokeApiKey: load the key, and save it whole.
RevokeLoad(r, pair, k) ==
  /\ AccessWorks(pair)
  /\ keys[k] # NoTenant
  /\ Admits(Authorised(pair), keys[k])
  /\ Start(r, [Idle EXCEPT !.pc = "revokeSave", !.key = k, !.context = Authorised(pair)])
  /\ UNCHANGED <<tables, pairs, now, failures>>

KeySave(r) ==
  /\ task[r].pc = "revokeSave"
  /\ revoked' = revoked \cup {task[r].key}
  /\ Finish(r)
  /\ UNCHANGED <<slugs, emails, keys, pairs, now, failures>>

\* A call fails, or the process ends, before or after the call took effect.
Fail(r) ==
  /\ task[r].pc # "idle"
  /\ failures < MaxFailures
  /\ failures' = failures + 1
  /\ Finish(r)
  /\ UNCHANGED <<tables, pairs, now>>

RequestStep(r) ==
  \/ SlugExists(r) \/ EmailExists(r) \/ TenantSave(r) \/ UserSave(r)
  \/ GetBySlug(r) \/ GetByEmail(r) \/ LoginSave(r) \/ KeySave(r)

IdNext ==
  \/ Tick
  \/ \E r \in Request :
       \/ RequestStep(r) \/ Fail(r)
       \/ \E s \in Slug, e \in Email : Register(r, s, e) \/ Login(r, s, e)
       \/ \E pair \in pairs, k \in Key : RevokeLoad(r, pair, k)
  \/ \E pair \in pairs : RefreshPair(pair) \/ \E k \in Key : CreateApiKey(pair, k)

IdSpec == IdInit /\ [][IdNext]_idVars

-----------------------------------------------------------------------------

Registering(t) == \E r \in Request : task[r].pc = "userSave" /\ task[r].tenant = t

\* Registrations that found the email free and have not saved it yet.
Claiming(e) ==
  {r \in Request : task[r].pc \in {"tenantSave", "userSave"} /\ task[r].email = e}

\* Nothing but the check makes emails unique across tenants, and the check is
\* not the save: an email is registered at most as often as registrations can
\* be in progress at once (and with the policy enforced, never).
EmailsBounded ==
  \A e \in Email : Cardinality(Users(e)) <= Cardinality(Request)

\* The tenants a registration left without a user.
Halves == {t \in Stored : emails[t] = None /\ ~Registering(t)}

\* Where the policy does not apply, each of them is paid for by a call that
\* failed: no conflict of slug or email leaves one.
HalvesArePaid == ~RlsEnforced => Cardinality(Halves) <= failures

\* Every token and every API key is a registered user's, of a registered
\* tenant, however it was refreshed and whatever registrations collided.
SessionsAreBacked ==
  /\ \A pair \in pairs : pair.user \in Stored /\ emails[pair.user] # None
  /\ \A k \in Key : keys[k] # NoTenant => keys[k] \in Stored /\ emails[keys[k]] # None

\* Where it does apply, nobody is ever registered: the user is saved in no
\* tenant's context.
PolicyRefusesUsers == RlsEnforced => \A t \in Tenant : emails[t] = None

\* "Operacao atomica: ambos persistidos ou nenhum".
RegisterIsAtomic == Halves = {}

-----------------------------------------------------------------------------
(* Why they hold.                                                          *)

\* What is known of a request at each step.
InHand(work) ==
  /\ work.pc \in {"slugExists", "emailExists", "tenantSave", "userSave", "loginSave"}
       => work.context = NoTenant
  /\ work.pc \in {"slugExists", "emailExists", "tenantSave", "userSave", "getBySlug", "getByEmail"}
       => work.slug \in Slug /\ work.email \in Email
  /\ work.pc \in {"tenantSave", "userSave", "loginSave"} => work.tenant \in Tenant
  /\ work.pc = "tenantSave" => work.tenant \notin Stored
  /\ work.pc = "userSave" => work.tenant \in Stored /\ emails[work.tenant] = None
  /\ work.pc = "loginSave" => work.tenant \in Stored /\ emails[work.tenant] # None
  /\ work.pc = "revokeSave" => work.key \in Key

\* An id that was drawn, and whose user is not saved yet.
Drawn(work) == work.pc \in {"tenantSave", "userSave"}

Claims(e) ==
  \/ Users(e) = {}
  \/ Cardinality(Users(e)) + Cardinality(Claiming(e)) <= Cardinality(Request)

IdInv ==
  /\ IdTypeOK
  /\ \A r \in Request : InHand(task[r])
  /\ \A r, q \in Request :
       r # q /\ Drawn(task[r]) /\ Drawn(task[q]) => task[r].tenant # task[q].tenant
  /\ \A t, u \in Stored : slugs[t] = slugs[u] => t = u
  /\ \A t \in Tenant : emails[t] # None => t \in Stored
  /\ \A e \in Email : Claims(e)
  /\ PolicyRefusesUsers
  /\ SessionsAreBacked

=============================================================================
