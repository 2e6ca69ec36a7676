---------------------------- MODULE TenantAccess ----------------------------
(***************************************************************************)
(* TenantAccess: what the users of a tenant may see.  The platform grants  *)
(* a tenant some of the tenant menus, the tenant's roles pick among them,  *)
(* its users hold roles.  A grant is withdrawn without looking at roles:   *)
(* getProfile intersects the two whenever it is asked.                     *)
(***************************************************************************)
EXTENDS FiniteSets

CONSTANTS
  Firm,      \* tenants
  Item,      \* menus of the tenant scope, which are delivered with the data base
  Parent,    \* [Item -> Item \union {Root}]
  Dirs,      \* those that are DIRECTORYs, which stand below none but such; the others
             \* are MENUs and BUTTONs
  Root,
  Role,      \* role ids
  AdminRole, \* [Firm -> Role]: the role with code ADMIN that onboarding makes
  Staff,     \* user ids
  Worker,    \* requests that may be in flight at once
  Nobody0

ASSUME AccessAssumption ==
  /\ Parent \in [Item -> Item \union {Root}] /\ Root \notin Item /\ Dirs \subseteq Item
  /\ \A d \in Dirs : Parent[d] \in Dirs \union {Root}
  /\ AdminRole \in [Firm -> Role] /\ Nobody0 \notin Firm

VARIABLES
  grant,  \* tenant_menu_permissions
  role,   \* the roles' rows with role_menus
  staff,  \* the users' rows with user_roles
  work    \* the requests in flight

accessVars == <<grant, role, staff, work>>

RoleRow == [firm : Firm, active : BOOLEAN, menus : SUBSET Item]
StaffRow == [firm : Firm, active : BOOLEAN, roles : SUBSET Role]
Missing == [firm |-> Nobody0]
Removed == [firm |-> Nobody0, removed |-> TRUE]  \* its id is not used again
Exists(row) == row.firm # Nobody0
NoWork == [op |-> "none"]

\* Rows and copies keep their shape.
AccessTypeOK ==
  /\ grant \in [Firm -> SUBSET Item]
  /\ \A r \in Role : role[r] \in RoleRow \union {Missing, Removed}
  /\ \A u \in Staff : staff[u] \in StaffRow \union {Missing, Removed}
  /\ \A p \in Worker :
       \/ work[p] = NoWork
       \/ work[p] \in [op : {"grant"}, f : Firm, items : SUBSET Item]
       \/ work[p] \in [op : {"role"}, r : Role, copy : RoleRow]
       \/ work[p] \in [op : {"dropRole"}, r : Role]
       \/ work[p] \in [op : {"staff"}, u : Staff, copy : StaffRow, keep : BOOLEAN]
       \/ work[p] \in [op : {"dropStaff"}, u : Staff]

\* initTenantMenuPermissions and initTenantRoles of tenants that are there already.
AccessInit ==
  /\ grant = [f \in Firm |-> Item]
  /\ role = [r \in Role |-> IF \E f \in Firm : AdminRole[f] = r
                            THEN [firm |-> CHOOSE f \in Firm : AdminRole[f] = r,
                                  active |-> TRUE, menus |-> Item]
                            ELSE Missing]
  /\ staff = [u \in Staff |-> Missing]
  /\ work = [p \in Worker |-> NoWork]

Does(p, w) ==
  /\ work[p] = NoWork
  /\ work' = [work EXCEPT ![p] = w]
  /\ UNCHANGED <<grant, role, staff>>

Done(p) == work' = [work EXCEPT ![p] = NoWork]

-----------------------------------------------------------------------------
\* saveTenantMenuGrant, of the platform: the menus are looked up first.
SaveTenantMenuGrant(p, f, items) == Does(p, [op |-> "grant", f |-> f, items |-> items])

\* The transaction: all grants are deleted and the new ones inserted.
CommitGrant(p) ==
  /\ work[p].op = "grant"
  /\ grant' = [grant EXCEPT ![work[p].f] = work[p].items]
  /\ Done(p) /\ UNCHANGED <<role, staff>>

\* getTenantMenus: menus and buttons have to be granted to the tenant; directories not.
MayPick(f, menus) == menus \ Dirs \subseteq grant[f]

\* create
CreateRole(p, f, r, menus) ==
  /\ role[r] = Missing /\ ~\E q \in Worker : work[q].op = "role" /\ work[q].r = r
  /\ MayPick(f, menus)
  /\ Does(p, [op |-> "role", r |-> r,
              copy |-> [firm |-> f, active |-> TRUE, menus |-> menus]])

\* update; the menus are left alone unless the request names some.
UpdateRole(p, f, r, menus) ==
  /\ role[r].firm = f /\ (menus = role[r].menus \/ MayPick(f, menus))
  /\ Does(p, [op |-> "role", r |-> r, copy |-> [role[r] EXCEPT !.menus = menus]])

\* updateStatus
UpdateRoleStatus(p, f, r, on) ==
  /\ role[r].firm = f
  /\ Does(p, [op |-> "role", r |-> r, copy |-> [role[r] EXCEPT !.active = on]])

\* A role removed meanwhile is inserted anew.
CommitRole(p) ==
  /\ work[p].op = "role"
  /\ role' = [role EXCEPT ![work[p].r] = work[p].copy]
  /\ Done(p) /\ UNCHANGED <<grant, staff>>

\* remove: neither its users nor isSystem are asked about.
RemoveRole(p, f, r) == role[r].firm = f /\ Does(p, [op |-> "dropRole", r |-> r])

\* The rows of user_roles stay and lead nowhere.
CommitRemoveRole(p) ==
  /\ work[p].op = "dropRole"
  /\ role' = [role EXCEPT ![work[p].r] = Removed]
  /\ Done(p) /\ UNCHANGED <<grant, staff>>

-----------------------------------------------------------------------------

\* resolveRoles: active roles of this tenant.
Assignable(f) == {r \in Role : role[r].firm = f /\ role[r].active}

NewStaff(f, roles) == [firm |-> f, active |-> TRUE, roles |-> roles]

\* save, of a new user.
SaveStaff(p, f, u, roles) ==
  /\ staff[u] = Missing /\ ~\E q \in Worker : work[q].op = "staff" /\ work[q].u = u
  /\ roles \subseteq Assignable(f)
  /\ Does(p, [op |-> "staff", u |-> u, copy |-> NewStaff(f, roles), keep |-> FALSE])

\* The roles of a row as a join reads them: what leads nowhere is left out.
Joined(u) == {r \in staff[u].roles : Exists(role[r])}

\* update: the roles that are there already are kept unless the request names some.
UpdateStaff(p, f, u, roles) ==
  /\ staff[u].firm = f
  /\ roles = Joined(u) \/ roles \subseteq Assignable(f)
  /\ Does(p, [op |-> "staff", u |-> u, copy |-> [staff[u] EXCEPT !.roles = roles],
              keep |-> FALSE])

\* status, changePassword, reset: the user's row without its roles.
TouchStaff(p, f, u, on) ==
  /\ staff[u].firm = f
  /\ Does(p, [op |-> "staff", u |-> u, copy |-> [staff[u] EXCEPT !.active = on],
              keep |-> TRUE])

\* A user removed meanwhile is inserted anew, without the roles that went with it.
CommitStaff(p) ==
  LET w == work[p]
  IN  /\ w.op = "staff"
      /\ staff' = [staff EXCEPT ![w.u] =
           IF ~w.keep THEN w.copy
           ELSE [w.copy EXCEPT !.roles = IF Exists(staff[w.u]) THEN staff[w.u].roles ELSE {}]]
      /\ Done(p) /\ UNCHANGED <<grant, role>>

\* delete
RemoveStaff(p, f, u) == staff[u].firm = f /\ Does(p, [op |-> "dropStaff", u |-> u])

CommitRemoveStaff(p) ==
  /\ work[p].op = "dropStaff"
  /\ staff' = [staff EXCEPT ![work[p].u] = Removed]
  /\ Done(p) /\ UNCHANGED <<grant, role>>

AccessNext ==
  \/ \E p \in Worker, f \in Firm :
       \/ \E items \in SUBSET Item : SaveTenantMenuGrant(p, f, items)
       \/ \E r \in Role, menus \in SUBSET Item :
            CreateRole(p, f, r, menus) \/ UpdateRole(p, f, r, menus)
       \/ \E r \in Role, on \in BOOLEAN : UpdateRoleStatus(p, f, r, on)
       \/ \E r \in Role : RemoveRole(p, f, r)
       \/ \E u \in Staff, roles \in SUBSET Role :
            SaveStaff(p, f, u, roles) \/ UpdateStaff(p, f, u, roles)
       \/ \E u \in Staff, on \in BOOLEAN : TouchStaff(p, f, u, on)
       \/ \E u \in Staff : RemoveStaff(p, f, u)
  \/ \E p \in Worker :
       CommitGrant(p) \/ CommitRole(p) \/ CommitRemoveRole(p) \/ CommitStaff(p)
       \/ CommitRemoveStaff(p)

AccessSpec == AccessInit /\ [][AccessNext]_accessVars

-----------------------------------------------------------------------------
\* addAncestorMenuCodes: from parent to parent up to the root, none of them twice.
Upwards(i, s) == \A k \in s \union {i} : Parent[k] \in s \union {Root}
Above(i) == {j \in Item : \A s \in SUBSET Item : Upwards(i, s) => j \in s}
WithAncestors(items) == items \union UNION {Above(i) : i \in items}

\* Fault: what the roles say is believed, having been checked when they were saved.
FromRolesUnfiltered(f, roles) == UNION {role[r].menus : r \in roles}

\* resolveUserMenuAuth: of the active roles' menus those that are granted now.
FromRoles(f, roles) == {i \in UNION {role[r].menus : r \in roles} : i \in grant[f] \union Dirs}

\* allowedCodes of a user; whoever holds the tenant's ADMIN role has all that is granted.
Allowed(u) ==
  LET f == staff[u].firm
      roles == {r \in Joined(u) : role[r].active}
  IN  WithAncestors(FromRoles(f, roles)
                    \union IF AdminRole[f] \in roles THEN grant[f] \ Dirs ELSE {})

(* What the platform has withdrawn from a tenant nobody of the tenant sees,     *)
(* whatever roles were saved before, meanwhile or from a copy read earlier,     *)
(* except as the way to something that is granted.                              *)
WithdrawnIsGone ==
  \A u \in Staff : Exists(staff[u]) =>
    Allowed(u) \ Dirs \subseteq WithAncestors(grant[staff[u].firm])

(* A role stays with the tenant it was made for, and users hold roles of their  *)
(* own tenant only, even roles that were removed and have come back.            *)
OwnRoles ==
  \A u \in Staff : Exists(staff[u]) => \A r \in Joined(u) : role[r].firm = staff[u].firm

(* What a user may see is what his own company's roles and its grants leave.  *)
GrantsHold == WithdrawnIsGone /\ OwnRoles
=============================================================================
