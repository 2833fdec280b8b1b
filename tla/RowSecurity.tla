---------------------------- MODULE RowSecurity ----------------------------
(***************************************************************************)
(* The row level security of the tables that have a tenant_id, and the     *)
(* context variable it works through.  A request, a bot handler or a job   *)
(* names the tenant it works for in the context variable; the engine's     *)
(* begin hook copies it into the setting app.tenant_id, for that one       *)
(* transaction; and the policy of every such table compares the setting    *)
(* with the row, to read it (USING) and to write it (WITH CHECK).          *)
(*                                                                         *)
(* The policy is FORCEd, but PostgreSQL does not apply it to a superuser   *)
(* or a role with BYPASSRLS, and which role the program connects with is   *)
(* up to the deployment.                                                   *)
(***************************************************************************)

CONSTANTS
  RlsEnforced,  \* whether the role the program connects with is subject to it
  NoTenant      \* no tenant in the context variable

ASSUME RowSecurityAssumption == RlsEnforced \in BOOLEAN

\* The context variable after set_tenant_context and reset_tenant_context: the
\* reset forgets the tenant that was there before the set, too.
SetContext(tenant) == tenant
ResetContext == NoTenant

\* What app.tenant_id is in a transaction begun with this context variable.
\* Without a tenant nothing is set, and the setting equals no tenant_id.
Setting(context) == context

\* The policy: a statement of this transaction reads and writes these rows.
Admits(context, tenant) == RlsEnforced => Setting(context) = tenant

\* The tenants, of these, whose rows a statement finds.
Visible(context, tenants) == {t \in tenants : Admits(context, t)}

=============================================================================
