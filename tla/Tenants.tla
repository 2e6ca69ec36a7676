------------------------------ MODULE Tenants ------------------------------
(***************************************************************************)
(* Tenants: companies are taken on by the platform or from the mini        *)
(* program, examined, admitted, disabled and removed, while members of the *)
(* mini program apply for them and are told how far their company is.      *)
(* Every handler reads a row, changes its copy and saves it: the save      *)
(* reads the row once more and writes the columns in which the copy        *)
(* differs.  What is to be written to the members follows by itself.       *)
(***************************************************************************)
EXTENDS FiniteSets

CONSTANTS
  Tenant,   \* tenant ids, used once each
  Name,     \* company names
  Member,   \* members of the mini program
  Admin,    \* requests that may be in flight at once
  NoOne

ASSUME TenantAssumption == NoOne \notin Tenant \union Name \union Member

VARIABLES
  tenant,     \* the tenants' rows
  member,     \* the members' rows
  req,        \* the requests in flight, with the copies they are going to save
  overlapped, \* history: two requests for one company or member overlapped, or one died
  renamed,    \* history: the platform gave a company a name
  torn        \* history: rows that changed between the two statements of a save

tenantVars == <<tenant, member, req, overlapped, renamed, torn>>

Stage == {"pending", "active", "rejected", "disabled", "expired"}
Binding == {"none", "pending", "approved", "rejected"}

TenantRow == [row : {"live", "gone"}, name : Name, source : {"platform", "miniapp"},
              stage : Stage, approved : BOOLEAN, active : BOOLEAN]
MemberRow == [active : BOOLEAN, phone : BOOLEAN, tenant : Tenant \union {NoOne},
              bind : Binding]

NoTenant == [row |-> "none"]
NoMember == [tenant |-> NoOne]
NoReq == [op |-> "none"]

\* A tenant's copy to save, the row as the save read it, what comes then, what to tell
\* its members and the member's copy to save in the end.
TenantSave == [op : {"save", "write", "tell", "drop"}, t : Tenant, copy : TenantRow,
               seen : TenantRow \union {NoTenant}, next : {"none", "tell", "drop"},
               tell : Binding, m : Member \union {NoOne}, mcopy : MemberRow \union {NoMember}]

\* Rows and copies keep their shape.
TenantsTypeOK ==
  /\ \A t \in Tenant : tenant[t] \in TenantRow \union {NoTenant}
  /\ \A m \in Member : member[m] \in MemberRow \union {NoMember}
  /\ \A p \in Admin :
       \/ req[p] \in TenantSave \union {NoReq}
       \/ req[p] \in [op : {"update"}, t : Tenant, copy : TenantRow, seen : TenantRow]
       \/ req[p] \in [op : {"create"}, n : Name, src : {"platform", "miniapp"},
                      m : Member \union {NoOne}, mcopy : MemberRow \union {NoMember}]
       \/ req[p] \in [op : {"member", "patch"}, m : Member, new : BOOLEAN, mcopy : MemberRow,
                      seen : MemberRow \union {NoMember}]
  /\ overlapped \in BOOLEAN /\ renamed \in BOOLEAN /\ torn \subseteq Tenant \union Member

TenantsInit ==
  /\ tenant = [t \in Tenant |-> NoTenant]
  /\ member = [m \in Member |-> NoMember]
  /\ req = [p \in Admin |-> NoReq]
  /\ overlapped = FALSE /\ renamed = FALSE /\ torn = {}

Live(t) == tenant[t].row = "live"
IsMember(m) == member[m] # NoMember

\* The name is looked up; the schema has no unique index that would see to it.
NameFree(n, t) == \A u \in Tenant \ {t} : Live(u) => tenant[u].name # n

\* The companies, members and names that a request reads or writes.
Touched(r) ==
  (UNION {IF "t" \in DOMAIN r THEN {r.t} ELSE {},
          IF "m" \in DOMAIN r THEN {r.m, r.mcopy.tenant} ELSE {},
          IF "copy" \in DOMAIN r THEN {r.copy.name} ELSE {},
          IF "n" \in DOMAIN r THEN {r.n} ELSE {}}) \ {NoOne}

Starts(p, r) ==
  /\ req[p] = NoReq
  /\ req' = [req EXCEPT ![p] = r]
  /\ overlapped' = (overlapped \/ \E q \in Admin : Touched(req[q]) \intersect Touched(r) # {})

Goes(p, r) == req' = [req EXCEPT ![p] = r]

\* save: the columns in which the copy differs from what its SELECT saw are written.
Patched(row, seen, copy) ==
  [f \in DOMAIN copy |-> IF copy[f] # seen[f] THEN copy[f] ELSE row[f]]

-----------------------------------------------------------------------------

\* createTenant, with initTenantMenuPermissions, initTenantRoles, createAdminUser.
NewTenant(n, src) == [row |-> "live", name |-> n, source |-> src, stage |-> "pending",
                      approved |-> FALSE, active |-> FALSE]

\* onboard, up to validateBeforeOnboard.
Onboard(p, n) ==
  /\ NameFree(n, NoOne)
  /\ Starts(p, [op |-> "create", n |-> n, src |-> "platform", m |-> NoOne,
                mcopy |-> NoMember])
  /\ UNCHANGED <<tenant, member, renamed, torn>>

\* A member's copy to save; a new member's is inserted.
MemberSave(m, new, copy) ==
  [op |-> "member", m |-> m, new |-> new, mcopy |-> copy, seen |-> NoMember]

\* The rest of the transaction; for a member who applied (onboardFromMiniapp) the
\* member's copy is bound to the new company.
Create(p, t) ==
  /\ req[p].op = "create" /\ tenant[t] = NoTenant
  /\ tenant' = [tenant EXCEPT ![t] = NewTenant(req[p].n, req[p].src)]
  /\ Goes(p, IF req[p].m = NoOne THEN NoReq
             ELSE MemberSave(req[p].m, FALSE,
                             [req[p].mcopy EXCEPT !.tenant = t, !.bind = "pending"]))
  /\ UNCHANGED <<member, overlapped, renamed, torn>>

SaveThenTell(t, copy, tell, m, mcopy) ==
  [op |-> "save", t |-> t, copy |-> copy, seen |-> NoTenant,
   next |-> IF tell = "none" THEN "none" ELSE "tell", tell |-> tell, m |-> m, mcopy |-> mcopy]

\* approve
Approve(p, t) ==
  /\ Live(t)
  /\ Starts(p, SaveThenTell(t, [tenant[t] EXCEPT !.approved = TRUE, !.active = TRUE,
                                                 !.stage = "active"],
                            "approved", NoOne, NoMember))
  /\ UNCHANGED <<tenant, member, renamed, torn>>

\* reject
Reject(p, t) ==
  /\ Live(t)
  /\ Starts(p, SaveThenTell(t, [tenant[t] EXCEPT !.approved = FALSE, !.active = FALSE,
                                                 !.stage = "rejected"],
                            "rejected", NoOne, NoMember))
  /\ UNCHANGED <<tenant, member, renamed, torn>>

\* ALLOWED_TRANSITIONS
AllowedTransitions ==
  [pending |-> {"active", "rejected"}, active |-> {"disabled", "expired"},
   rejected |-> {"active", "pending"}, disabled |-> {"active", "expired"},
   expired |-> {"active"}]

\* Fault: a stage does not speak for the flags; only what the caller asks for is written.
DerivedAsAsked(copy) == [copy EXCEPT !.active = copy.stage = "active"]

\* isActive and isApproved follow from the stage; approval outlasts a disabled or an
\* expired stage, unless the caller says otherwise.
Derived(copy) ==
  [copy EXCEPT !.active = copy.stage = "active",
               !.approved = \/ copy.stage = "active"
                            \/ copy.stage \in {"disabled", "expired"} /\ @]

\* updateTenantLifecycle; says: what the caller sets isApproved to.
UpdateTenantLifecycle(p, t, to, says) ==
  /\ Live(t)
  /\ to = tenant[t].stage \/ to \in AllowedTransitions[tenant[t].stage]
  /\ Starts(p, SaveThenTell(t, Derived([tenant[t] EXCEPT !.stage = to, !.approved = says]),
                            CASE to = "active" -> "approved"
                              [] to = "rejected" -> "rejected"
                              [] OTHER -> "none", NoOne, NoMember))
  /\ UNCHANGED <<tenant, member, renamed, torn>>

\* update, up to its save: the name and the source are among what may be changed.
Update(p, t, n, src) ==
  /\ Live(t)
  /\ Starts(p, [op |-> "update", t |-> t,
                copy |-> [tenant[t] EXCEPT !.name = n, !.source = src], seen |-> tenant[t]])
  /\ UNCHANGED <<tenant, member, renamed, torn>>

\* The rest of the transaction, in whose snapshot save reads the row as it was read
\* before; the portal's settings, made anew with it, are in Content.
CommitUpdate(p) ==
  /\ req[p].op = "update"
  /\ tenant' = [tenant EXCEPT ![req[p].t] = Patched(@, req[p].seen, req[p].copy)]
  /\ renamed' = (renamed \/ req[p].seen.name # req[p].copy.name)
  /\ Goes(p, NoReq)
  /\ UNCHANGED <<member, overlapped, torn>>

\* remove, of a tenant that is not in business.
RemoveTenant(p, t) ==
  /\ Live(t)
  /\ ~(tenant[t].active /\ tenant[t].stage = "active")
  /\ Starts(p, [SaveThenTell(t, [tenant[t] EXCEPT !.stage = "disabled", !.active = FALSE],
                             "none", NoOne, NoMember) EXCEPT !.next = "drop"])
  /\ UNCHANGED <<tenant, member, renamed, torn>>

\* softDelete
SoftDelete(p) ==
  /\ req[p].op = "drop"
  /\ tenant' = [tenant EXCEPT ![req[p].t].row = "gone"]
  /\ Goes(p, NoReq)
  /\ UNCHANGED <<member, overlapped, renamed, torn>>

\* The SELECT of save, which sees removed rows, too.
SelectTenant(p) ==
  /\ req[p].op = "save"
  /\ Goes(p, [req[p] EXCEPT !.op = "write", !.seen = tenant[req[p].t]])
  /\ UNCHANGED <<tenant, member, overlapped, renamed, torn>>

Flags(row) == <<row.stage, row.approved, row.active>>

\* The UPDATE of save: a removal that the SELECT saw is undone, what was written
\* after the SELECT stays where the copy did not differ.
WriteTenant(p) ==
  LET r == req[p]
  IN  /\ r.op = "write"
      /\ tenant' = [tenant EXCEPT ![r.t] = Patched(@, r.seen, r.copy)]
      /\ torn' = IF Flags(r.copy) # Flags(r.seen) /\ Flags(tenant[r.t]) # Flags(r.seen)
                 THEN torn \union {r.t} ELSE torn
      /\ Goes(p, IF r.next = "none" THEN NoReq ELSE [r EXCEPT !.op = r.next, !.seen = NoTenant])
      /\ UNCHANGED <<member, overlapped, renamed>>

\* Fault: only members with an application under way are told.
ToldOfPending(t) == {m \in Member : member[m].tenant = t /\ member[m].bind = "pending"}

\* WHERE tenantId = ?
Told(t) == {m \in Member : member[m].tenant = t}

\* syncMiniappTenantBindStatus
SyncMiniappTenantBindStatus(p) ==
  /\ req[p].op = "tell"
  /\ member' = [m \in Member |-> IF m \in Told(req[p].t)
                                 THEN [member[m] EXCEPT !.bind = req[p].tell] ELSE member[m]]
  /\ Goes(p, IF req[p].m = NoOne THEN NoReq
             ELSE MemberSave(req[p].m, FALSE, req[p].mcopy))
  /\ UNCHANGED <<tenant, overlapped, renamed, torn>>

-----------------------------------------------------------------------------
SavesMember(p, m, new, copy) ==
  Starts(p, MemberSave(m, new, copy))

NewMember == [active |-> TRUE, phone |-> FALSE, tenant |-> NoOne, bind |-> "none"]

\* silentLogin; phone: the profile comes with a number.
SilentLogin(p, m, phone) ==
  LET row == IF IsMember(m) THEN member[m] ELSE NewMember
  IN  /\ row.active
      /\ SavesMember(p, m, ~IsMember(m), [row EXCEPT !.phone = @ \/ phone])
      /\ UNCHANGED <<tenant, member, renamed, torn>>

\* updateCurrentMemberProfile
UpdateProfile(p, m) ==
  /\ IsMember(m) /\ member[m].active
  /\ SavesMember(p, m, FALSE, member[m])
  /\ UNCHANGED <<tenant, member, renamed, torn>>

\* bindCurrentMemberPhone: WeChat is asked between the read and the save.
BindPhone(p, m) ==
  /\ IsMember(m) /\ member[m].active
  /\ SavesMember(p, m, FALSE, [member[m] EXCEPT !.phone = TRUE])
  /\ UNCHANGED <<tenant, member, renamed, torn>>

\* updateMemberStatus
UpdateMemberStatus(p, m, on) ==
  /\ IsMember(m)
  /\ SavesMember(p, m, FALSE, [member[m] EXCEPT !.active = on])
  /\ UNCHANGED <<tenant, member, renamed, torn>>

\* The INSERT of a new member; of two the second meets the unique index.
InsertMember(p) ==
  /\ req[p].op = "member" /\ req[p].new
  /\ member' = IF IsMember(req[p].m) THEN member ELSE [member EXCEPT ![req[p].m] = req[p].mcopy]
  /\ Goes(p, NoReq)
  /\ UNCHANGED <<tenant, overlapped, renamed, torn>>

\* The SELECT of save.
SelectMember(p) ==
  /\ req[p].op = "member" /\ ~req[p].new
  /\ Goes(p, [req[p] EXCEPT !.op = "patch", !.seen = member[req[p].m]])
  /\ UNCHANGED <<tenant, member, overlapped, renamed, torn>>

Bind(row) == <<row.tenant, row.bind>>

\* The UPDATE of save.
WriteMember(p) ==
  LET r == req[p]
  IN  /\ r.op = "patch"
      /\ member' = [member EXCEPT ![r.m] = Patched(@, r.seen, r.mcopy)]
      /\ torn' = IF Bind(r.mcopy) # Bind(r.seen) /\ member[r.m].tenant # r.seen.tenant
                 THEN torn \union {r.m} ELSE torn
      /\ Goes(p, NoReq)
      /\ UNCHANGED <<tenant, overlapped, renamed>>

\* resubmitMiniappTenant: what is written for a company that applies again.
Resubmitted(t, n) ==
  [tenant[t] EXCEPT !.name = n, !.source = "miniapp", !.stage = "pending",
                    !.approved = FALSE, !.active = FALSE]

MayResubmit(t, n) ==
  /\ Live(t) /\ tenant[t].source = "miniapp"
  /\ tenant[t].stage \in {"active", "rejected"}
  /\ NameFree(n, t)

MayApply(m) ==
  /\ IsMember(m) /\ member[m].active /\ member[m].phone
  /\ ~(member[m].tenant # NoOne /\ member[m].bind = "pending")

\* applyTenant: the member's copy read here is saved in the end.
ApplyTenant(p, m, n) ==
  /\ MayApply(m)
  /\ LET t == member[m].tenant
         again == t # NoOne /\ member[m].bind \in {"approved", "rejected"}
     IN  \/ /\ again /\ MayResubmit(t, n)
            /\ Starts(p, SaveThenTell(t, Resubmitted(t, n), "pending", m,
                                      [member[m] EXCEPT !.bind = "pending"]))
         \/ /\ ~again
            /\ NameFree(n, NoOne)
            /\ Starts(p, [op |-> "create", n |-> n, src |-> "miniapp", m |-> m,
                          mcopy |-> member[m]])
  /\ UNCHANGED <<tenant, member, renamed, torn>>

\* The process dies, or the database does not answer.
Dies(p) ==
  /\ req[p] # NoReq
  /\ Goes(p, NoReq) /\ overlapped' = TRUE
  /\ UNCHANGED <<tenant, member, renamed, torn>>

TenantsNext ==
  \/ \E p \in Admin :
       \/ \E t \in Tenant : Create(p, t) \/ Approve(p, t) \/ Reject(p, t)
                            \/ RemoveTenant(p, t)
       \/ \E t \in Tenant, to \in Stage, says \in BOOLEAN : UpdateTenantLifecycle(p, t, to, says)
       \/ \E t \in Tenant, n \in Name, src \in {"platform", "miniapp"} : Update(p, t, n, src)
       \/ \E n \in Name : Onboard(p, n)
       \/ CommitUpdate(p) \/ SelectTenant(p) \/ WriteTenant(p) \/ SoftDelete(p)
       \/ SyncMiniappTenantBindStatus(p) \/ Dies(p)
       \/ InsertMember(p) \/ SelectMember(p) \/ WriteMember(p)
       \/ \E m \in Member : UpdateProfile(p, m) \/ BindPhone(p, m)
       \/ \E m \in Member, b \in BOOLEAN : SilentLogin(p, m, b) \/ UpdateMemberStatus(p, m, b)
       \/ \E m \in Member, n \in Name : ApplyTenant(p, m, n)

TenantsSpec == TenantsInit /\ [][TenantsNext]_tenantVars

-----------------------------------------------------------------------------
\* findUserForLogin asks for isApproved and isActive.
MayLogIn(t) == Live(t) /\ tenant[t].approved /\ tenant[t].active

\* JwtAuthGuard asks for all three.
MayPass(t) == MayLogIn(t) /\ tenant[t].stage = "active"

\* findPublicAll and findPublicOne ask for isActive and the stage.
Shown(t) == Live(t) /\ tenant[t].active /\ tenant[t].stage = "active"

\* findAll and findOne of the yellow pages ask for all three.
Listed(t) == Live(t) /\ tenant[t].active /\ tenant[t].approved /\ tenant[t].stage = "active"

(* Whoever may log in for a tenant also gets past the guard, and exactly such  *)
(* tenants are shown to the public and listed: four places look at different   *)
(* columns, and every request that writes them, from a copy read long before,  *)
(* keeps them saying the same, if no other one wrote them between the two      *)
(* statements of its save.                                                     *)
OneAnswer ==
  \A t \in Tenant \ torn :
    MayLogIn(t) = MayPass(t) /\ MayPass(t) = Shown(t) /\ Shown(t) = Listed(t)

(* A member has a state of certification exactly when it has a company, however *)
(* logins, edits, applications and their examination overlap, if the company    *)
(* was not another one between the two statements of a save.                    *)
BoundTogether ==
  \A m \in Member \ torn :
    IsMember(m) => (member[m].bind = "none") = (member[m].tenant = NoOne)

\* What a company's members are told at a stage.  A rejected company set back to
\* pending and one that is removed leave them with what they were told last.
Fits(stage, bind) ==
  \/ bind = "pending" /\ stage \in {"pending", "disabled"}
  \/ bind = "approved" /\ stage \in {"active", "disabled", "expired"}
  \/ bind = "rejected" /\ stage \in {"rejected", "pending", "disabled"}

(* While requests for them neither overlapped nor died, members know how their company  *)
(* stands: nobody is certified by a company that is rejected or examined anew. *)
BindTellsStage ==
  (~overlapped /\ \A p \in Admin : req[p] = NoReq) =>
    \A m \in Member : (IsMember(m) /\ member[m].tenant # NoOne) =>
      Fits(tenant[member[m].tenant].stage, member[m].bind)

(* A member and the company it applied for do not contradict each other.      *)
MembersFollow == BoundTogether /\ BindTellsStage

(* Two companies in the register have one name only if requests overlapped or  *)
(* the platform renamed one, which looks nothing up.                           *)
NameOnce ==
  ~(overlapped \/ renamed) =>
    \A t, u \in Tenant : (t # u /\ Live(t) /\ Live(u)) => tenant[t].name # tenant[u].name
=============================================================================
