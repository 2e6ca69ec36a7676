------------------------------ MODULE Accounts ------------------------------
(***************************************************************************)
(* Companies and their members, registration by a code, the platform's own *)
(* users and what the users of a tenant may see, side by side.  They share *)
(* no state: a step of one may come at any time in the others.             *)
(***************************************************************************)
EXTENDS Tenants, Registration, PlatformAdmin, TenantAccess

AccountsSpec == TenantsSpec /\ RegSpec /\ PlatformSpec /\ AccessSpec

\* All of it keeps its shape.
AccountsTypeOK == TenantsTypeOK /\ RegTypeOK /\ PlatformTypeOK /\ AccessTypeOK

(* A name, a phone and a code are used once, and only requests that overlap   *)
(* get past the checks, which the schema backs with no key.                   *)
UsedOnce == NameOnce /\ PhoneOnce /\ CodeOnce

(* The platform keeps a user, and what users and menus refer to is there.     *)
PlatformHolds == AccountsTypeOK /\ SomeoneRemains /\ DutyExists /\ ParentExists
=============================================================================
