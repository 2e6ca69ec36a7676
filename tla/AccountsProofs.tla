--------------------------- MODULE AccountsProofs ---------------------------
(***************************************************************************)
(* Companies, their members and users, and the platform's own: what the    *)
(* requests read is still good enough when they write.  For any number of  *)
(* rows and of requests in flight, whatever copies these save.             *)
(*                                                                         *)
(*   RegisterInv   a company's columns agree, in copies and in the rows    *)
(*                 that no write got in between                            *)
(*   MembersInv    what members have been told, or will be, suits their    *)
(*                 company, and names are free when they are written       *)
(*   RegInv        who holds a code, and which codes are spent             *)
(*   PlatformInv   what was counted still holds when it is acted upon      *)
(*   AccessInv     roles and users stay with their company                 *)
(***************************************************************************)
EXTENDS Accounts, FiniteSetTheorems, TLAPS

-----------------------------------------------------------------------------
(* Shapes *)

\* What a request in flight may look like.
RequestShape ==
  TenantSave \union {NoReq}
  \union [op : {"update"}, t : Tenant, copy : TenantRow, seen : TenantRow]
  \union [op : {"create"}, n : Name, src : {"platform", "miniapp"},
          m : Member \union {NoOne}, mcopy : MemberRow \union {NoMember}]
  \union [op : {"member", "patch"}, m : Member, new : BOOLEAN, mcopy : MemberRow,
          seen : MemberRow \union {NoMember}]

\* The requests that name a company, and those that end by saving a member.
Saves(r) == r.op \in {"save", "write"}
OfTenant(r) == r.op \in {"save", "write", "tell", "drop", "update"}
OfMember(r) == r.op \in {"save", "write", "tell", "create", "member", "patch"} /\ r.m # NoOne
Newcomer(r) == r.op = "member" /\ r.new

\* Whoever is to be saved in the end has been read, and what an UPDATE compares with has
\* been seen; an update leaves the stage, the flags and the mark.
Request ==
  {r \in RequestShape :
     /\ (r.op \in {"save", "write", "tell", "create"} /\ r.m # NoOne) => r.mcopy \in MemberRow
     /\ r.op \in {"save", "write", "tell", "drop"} =>
          (r.next = "tell" => r.tell # "none") /\ (r.next = "drop" => r.m = NoOne)
     /\ r.op \in {"tell", "drop"} => r.next = r.op
     /\ r.op = "write" => r.seen \in TenantRow
     /\ r.op = "update" => Flags(r.copy) = Flags(r.seen) /\ r.copy.row = r.seen.row
     /\ r.op = "patch" => ~r.new /\ r.seen \in MemberRow}

TenantsShape ==
  /\ tenant \in [Tenant -> TenantRow \union {NoTenant}]
  /\ member \in [Member -> MemberRow \union {NoMember}]
  /\ req \in [Admin -> Request]
  /\ overlapped \in BOOLEAN /\ renamed \in BOOLEAN /\ torn \subseteq Tenant \union Member

\* The columns of a company say the same: it is active at the stage of that name only,
\* and approved there.
Agrees(row) ==
  /\ row.active = (row.stage = "active")
  /\ row.stage = "active" => row.approved

\* So do those of the copies that requests are going to save.
RowsAgree == \A t \in Tenant \ torn : tenant[t] # NoTenant => Agrees(tenant[t])
CopiesAgree == \A p \in Admin : Saves(req[p]) => Agrees(req[p].copy)

\* What a request is about is there: no row is ever taken away.
Stands ==
  \A p \in Admin : /\ OfTenant(req[p]) => tenant[req[p].t] # NoTenant
                   /\ (OfMember(req[p]) /\ ~Newcomer(req[p])) => IsMember(req[p].m)

RegisterInv == TenantsShape /\ RowsAgree /\ CopiesAgree /\ Stands

\* A live company has a row with all its columns.
LEMMA LiveRow ==
  ASSUME TenantsShape, NEW t \in Tenant, Live(t)
  PROVE  tenant[t] \in TenantRow /\ tenant[t] # NoTenant
BY DEF TenantsShape, Live, NoTenant

LEMMA MembersRow ==
  ASSUME TenantsShape, NEW m \in Member
  PROVE  /\ IsMember(m) => member[m] \in MemberRow
         /\ member[m].tenant # NoOne => IsMember(m)
BY DEF TenantsShape, IsMember, NoMember

\* What a request carries, by its kind.
LEMMA RequestKinds ==
  ASSUME NEW r \in Request
  PROVE  /\ OfTenant(r) => r.t \in Tenant
         /\ r.op \in {"save", "write", "tell", "drop"} =>
              /\ r \in TenantSave /\ r.copy \in TenantRow /\ r.tell \in Binding
              /\ r.m \in Member \union {NoOne} /\ r.next \in {"none", "tell", "drop"}
              /\ r.next = "tell" => r.tell # "none"
              /\ r.next = "drop" => r.m = NoOne
         /\ r.op \in {"tell", "drop"} => r.next = r.op
         /\ r.op = "write" => r.seen \in TenantRow
         /\ r.op = "update" => /\ r.copy \in TenantRow /\ r.seen \in TenantRow
                               /\ Flags(r.copy) = Flags(r.seen) /\ r.copy.row = r.seen.row
         /\ r.op = "create" => /\ r.n \in Name /\ r.m \in Member \union {NoOne}
                               /\ r.src \in {"platform", "miniapp"}
         /\ r.op \in {"member", "patch"} => /\ r.m \in Member /\ r.m # NoOne
                                            /\ r.mcopy \in MemberRow /\ r.new \in BOOLEAN
         /\ r.op = "patch" => ~r.new /\ r.seen \in MemberRow
         /\ OfMember(r) => r.m \in Member /\ r.mcopy \in MemberRow
         /\ r.op \in {"none", "save", "write", "tell", "update", "drop", "create", "member",
                      "patch"}
<1>1. CASE r \in TenantSave
  BY <1>1 DEF Request, TenantSave, OfTenant, OfMember
<1>2. CASE r = NoReq
  BY <1>2 DEF NoReq, OfTenant, OfMember
<1>3. CASE r \in [op : {"update"}, t : Tenant, copy : TenantRow, seen : TenantRow]
  BY <1>3 DEF Request, OfTenant, OfMember
<1>4. CASE r \in [op : {"create"}, n : Name, src : {"platform", "miniapp"},
                  m : Member \union {NoOne}, mcopy : MemberRow \union {NoMember}]
  BY <1>4 DEF Request, OfTenant, OfMember
<1>5. CASE r \in [op : {"member", "patch"}, m : Member, new : BOOLEAN, mcopy : MemberRow,
                  seen : MemberRow \union {NoMember}]
  BY <1>5, TenantAssumption DEF Request, OfTenant, OfMember
<1> QED
  BY <1>1, <1>2, <1>3, <1>4, <1>5 DEF Request, RequestShape

\* A tenant's copy with its message to the members is a request.
LEMMA SaveThenTellShape ==
  ASSUME NEW t \in Tenant, NEW copy \in TenantRow, NEW tell \in Binding,
         NEW m \in Member \union {NoOne}, NEW mcopy \in MemberRow \union {NoMember},
         m = NoOne \/ mcopy \in MemberRow
  PROVE  LET r == SaveThenTell(t, copy, tell, m, mcopy)
         IN  /\ r \in Request /\ r.op = "save" /\ r.t = t /\ r.copy = copy /\ r.tell = tell
             /\ r.m = m /\ r.mcopy = mcopy
             /\ r.next = IF tell = "none" THEN "none" ELSE "tell"
BY DEF SaveThenTell, Request, RequestShape, TenantSave

LEMMA MemberSaveShape ==
  ASSUME NEW m \in Member, NEW new \in BOOLEAN, NEW copy \in MemberRow
  PROVE  LET r == MemberSave(m, new, copy)
         IN  /\ r \in Request /\ r.op = "member" /\ r.m = m /\ r.mcopy = copy /\ r.new = new
             /\ ~OfTenant(r) /\ ~Saves(r) /\ OfMember(r)
BY TenantAssumption DEF MemberSave, Request, RequestShape, OfTenant, OfMember, Saves

LEMMA NoReqShape ==
  NoReq \in Request /\ NoReq.op = "none" /\ ~Saves(NoReq) /\ ~OfTenant(NoReq) /\ ~OfMember(NoReq)
BY DEF NoReq, Request, RequestShape, Saves, OfTenant, OfMember

\* What a save writes: the column's new value where the copy differs from what was seen.
LEMMA PatchedTenant ==
  ASSUME NEW row \in TenantRow, NEW seen \in TenantRow, NEW copy \in TenantRow
  PROVE  /\ Patched(row, seen, copy) \in TenantRow
         /\ row = seen => Patched(row, seen, copy) = copy
         /\ Flags(copy) = Flags(seen) => Flags(Patched(row, seen, copy)) = Flags(row)
         /\ copy.row = seen.row => Patched(row, seen, copy).row = row.row
         /\ copy.name = seen.name => Patched(row, seen, copy).name = row.name
         /\ Flags(row) = Flags(seen) => Flags(Patched(row, seen, copy)) = Flags(copy)
<1> DEFINE new == Patched(row, seen, copy)
           value(f) == IF copy[f] # seen[f] THEN copy[f] ELSE row[f]
<1>1. new = [row |-> value("row"), name |-> value("name"), source |-> value("source"),
             stage |-> value("stage"), approved |-> value("approved"),
             active |-> value("active")]
  BY DEF Patched, TenantRow
<1>2. row = seen => new = copy
  BY <1>1 DEF TenantRow
<1>3. new \in TenantRow
  BY <1>1 DEF TenantRow
<1>4. /\ new.stage = value("stage") /\ new.approved = value("approved")
      /\ new.active = value("active") /\ new.row = value("row") /\ new.name = value("name")
  BY <1>1
<1>5. Flags(copy) = Flags(seen) => Flags(new) = Flags(row)
  BY <1>4 DEF Flags
<1>6. Flags(row) = Flags(seen) => Flags(new) = Flags(copy)
  BY <1>4 DEF Flags
<1>7. /\ copy.row = seen.row => new.row = row.row
      /\ copy.name = seen.name => new.name = row.name
  BY <1>4
<1> HIDE DEF new
<1> QED
  BY <1>2, <1>3, <1>5, <1>6, <1>7 DEF new

LEMMA PatchedMember ==
  ASSUME NEW row \in MemberRow, NEW seen \in MemberRow, NEW copy \in MemberRow
  PROVE  /\ Patched(row, seen, copy) \in MemberRow
         /\ row = seen => Patched(row, seen, copy) = copy
         /\ Patched(row, seen, copy).tenant =
              IF copy.tenant # seen.tenant THEN copy.tenant ELSE row.tenant
         /\ Patched(row, seen, copy).bind = IF copy.bind # seen.bind THEN copy.bind ELSE row.bind
<1> DEFINE new == Patched(row, seen, copy)
           value(f) == IF copy[f] # seen[f] THEN copy[f] ELSE row[f]
<1>1. new = [active |-> value("active"), phone |-> value("phone"), tenant |-> value("tenant"),
             bind |-> value("bind")]
  BY DEF Patched, MemberRow
<1>2. row = seen => new = copy
  BY <1>1 DEF MemberRow
<1>3. new \in MemberRow
  BY <1>1 DEF MemberRow
<1>4. new.tenant = value("tenant") /\ new.bind = value("bind")
  BY <1>1
<1> QED
  BY <1>2, <1>3, <1>4

\* Rows whose columns say the same do so after such a write, unless it crossed another.
LEMMA FlagsAgree ==
  ASSUME NEW row, NEW row2, Flags(row) = Flags(row2), Agrees(row2)
  PROVE  Agrees(row)
BY DEF Flags, Agrees

\* The empty register has the shape and nothing that could disagree.
LEMMA InitShape ==
  ASSUME TenantsInit
  PROVE  RegisterInv
BY NoReqShape DEF TenantsInit, RegisterInv, TenantsShape, RowsAgree, CopiesAgree, Stands

\* A request goes on with something that stands, while rows that agree are written.
LEMMA StepKeeps ==
  ASSUME RegisterInv, NEW p \in Admin, NEW r \in Request, Goes(p, r),
         Saves(r) => Agrees(r.copy),
         OfTenant(r) => tenant'[r.t] # NoTenant,
         (OfMember(r) /\ ~Newcomer(r)) => member'[r.m] # NoMember,
         tenant' \in [Tenant -> TenantRow \union {NoTenant}],
         \A t \in Tenant : \/ tenant'[t] = tenant[t]
                           \/ tenant'[t] # NoTenant /\ (t \in torn' \/ Agrees(tenant'[t])),
         member' \in [Member -> MemberRow \union {NoMember}],
         \A m \in Member : member[m] # NoMember => member'[m] # NoMember,
         overlapped' \in BOOLEAN, renamed' \in BOOLEAN,
         torn \subseteq torn', torn' \subseteq Tenant \union Member
  PROVE  RegisterInv'
<1>1. /\ \A q \in Admin : req'[q] = IF q = p THEN r ELSE req[q]
      /\ \A q \in Admin : req[q] \in Request
      /\ req' \in [Admin -> Request]
  BY DEF Goes, RegisterInv, TenantsShape
<1>2. TenantsShape'
  BY <1>1 DEF TenantsShape
<1>3. RowsAgree'
  BY DEF RegisterInv, RowsAgree
<1>4. CopiesAgree'
  BY <1>1 DEF RegisterInv, CopiesAgree
<1>5. Stands'
  <2> SUFFICES ASSUME NEW q \in Admin
               PROVE  /\ OfTenant(req'[q]) => tenant'[req'[q].t] # NoTenant
                      /\ (OfMember(req'[q]) /\ ~Newcomer(req'[q])) => member'[req'[q].m] # NoMember
    BY DEF Stands, IsMember
  <2>1. CASE q = p
    BY <1>1, <2>1
  <2>2. CASE q # p
    <3>1. /\ req'[q] = req[q]
          /\ OfTenant(req[q]) => req[q].t \in Tenant /\ tenant[req[q].t] # NoTenant
          /\ OfMember(req[q]) => req[q].m \in Member
          /\ (OfMember(req[q]) /\ ~Newcomer(req[q])) => member[req[q].m] # NoMember
      BY <1>1, <2>2, RequestKinds DEF RegisterInv, Stands, IsMember
    <3> QED
      BY <3>1
  <2> QED
    BY <2>1, <2>2
<1> QED
  BY <1>2, <1>3, <1>4, <1>5 DEF RegisterInv

-----------------------------------------------------------------------------
(* Requests that read *)

\* The rows are as they were, and so is what the members are told.
Reads == UNCHANGED <<tenant, member, renamed, torn>>

\* A handler that only starts keeps everything.
LEMMA StartKeeps ==
  ASSUME RegisterInv, NEW p \in Admin, NEW r \in Request, Starts(p, r), Reads,
         Saves(r) => Agrees(r.copy),
         OfTenant(r) => tenant[r.t] # NoTenant,
         (OfMember(r) /\ ~Newcomer(r)) => IsMember(r.m)
  PROVE  RegisterInv'
<1>1. Goes(p, r) /\ overlapped' \in BOOLEAN
  BY DEF Starts, Goes, RegisterInv, TenantsShape
<1> QED
  BY <1>1, StepKeeps DEF RegisterInv, TenantsShape, Reads, IsMember

LEMMA OnboardKeeps ==
  ASSUME RegisterInv, NEW p \in Admin, NEW n \in Name, Onboard(p, n)
  PROVE  RegisterInv'
<1> DEFINE r == [op |-> "create", n |-> n, src |-> "platform", m |-> NoOne,
                 mcopy |-> NoMember]
<1>1. r \in Request /\ ~Saves(r) /\ ~OfTenant(r) /\ ~OfMember(r)
  BY DEF Request, RequestShape, Saves, OfTenant, OfMember
<1>2. Starts(p, r) /\ Reads
  BY DEF Onboard, Reads
<1> QED
  BY <1>1, <1>2, StartKeeps

\* A copy whose columns agree is going to be saved.
LEMMA SaveStarts ==
  ASSUME RegisterInv, NEW p \in Admin, NEW t \in Tenant, Live(t), NEW copy \in TenantRow,
         Agrees(copy), NEW tell \in Binding, Reads,
         Starts(p, SaveThenTell(t, copy, tell, NoOne, NoMember))
  PROVE  RegisterInv'
<1> DEFINE r == SaveThenTell(t, copy, tell, NoOne, NoMember)
<1>1. r \in Request /\ r.op = "save" /\ r.t = t /\ r.copy = copy /\ r.m = NoOne
  BY SaveThenTellShape
<1>2. tenant[t] # NoTenant
  BY LiveRow DEF RegisterInv
<1> HIDE DEF r
<1> QED
  BY <1>1, <1>2, StartKeeps DEF r, OfMember

\* approve and reject set the stage and both flags.
LEMMA VerdictKeeps ==
  ASSUME RegisterInv, NEW p \in Admin, NEW t \in Tenant, Approve(p, t) \/ Reject(p, t)
  PROVE  RegisterInv'
<1>1. tenant[t] \in TenantRow /\ Live(t)
  BY LiveRow DEF RegisterInv, Approve, Reject
<1>2. CASE Approve(p, t)
  <2> DEFINE copy == [tenant[t] EXCEPT !.approved = TRUE, !.active = TRUE,
                                       !.stage = "active"]
  <2>1. copy \in TenantRow /\ Agrees(copy) /\ "approved" \in Binding
    BY <1>1 DEF TenantRow, Stage, Agrees, Binding
  <2>2. Starts(p, SaveThenTell(t, copy, "approved", NoOne, NoMember)) /\ Reads
    BY <1>2 DEF Approve, Reads
  <2> HIDE DEF copy
  <2> QED
    BY <1>1, <2>1, <2>2, SaveStarts
<1>3. CASE Reject(p, t)
  <2> DEFINE copy == [tenant[t] EXCEPT !.approved = FALSE, !.active = FALSE,
                                       !.stage = "rejected"]
  <2>1. copy \in TenantRow /\ Agrees(copy) /\ "rejected" \in Binding
    BY <1>1 DEF TenantRow, Stage, Agrees, Binding
  <2>2. Starts(p, SaveThenTell(t, copy, "rejected", NoOne, NoMember)) /\ Reads
    BY <1>3 DEF Reject, Reads
  <2> HIDE DEF copy
  <2> QED
    BY <1>1, <2>1, <2>2, SaveStarts
<1> QED
  BY <1>2, <1>3

\* The stage may be any that the table allows: the flags are derived from it.
LEMMA LifecycleKeeps ==
  ASSUME RegisterInv, NEW p \in Admin, NEW t \in Tenant, NEW to \in Stage, NEW says \in BOOLEAN,
         UpdateTenantLifecycle(p, t, to, says)
  PROVE  RegisterInv'
<1> DEFINE asked == [tenant[t] EXCEPT !.stage = to, !.approved = says]
           tell == CASE to = "active" -> "approved"
                     [] to = "rejected" -> "rejected"
                     [] OTHER -> "none"
<1>1. tenant[t] \in TenantRow /\ Live(t)
  BY LiveRow DEF RegisterInv, UpdateTenantLifecycle
<1>2. asked \in TenantRow
  BY <1>1 DEF TenantRow
<1>3. Derived(asked) \in TenantRow /\ Agrees(Derived(asked))
  <2> HIDE DEF asked
  <2> QED
    BY <1>2 DEF Derived, TenantRow, Agrees
<1>4. tell \in Binding
  BY DEF Binding
<1>5. Starts(p, SaveThenTell(t, Derived(asked), tell, NoOne, NoMember)) /\ Reads
  BY DEF UpdateTenantLifecycle, Reads
<1> HIDE DEF asked, tell
<1> QED
  BY <1>1, <1>3, <1>4, <1>5, SaveStarts

\* A name and a source say nothing of the stage.
LEMMA UpdateKeeps ==
  ASSUME RegisterInv, NEW p \in Admin, NEW t \in Tenant, NEW n \in Name,
         NEW src \in {"platform", "miniapp"}, Update(p, t, n, src)
  PROVE  RegisterInv'
<1>1. tenant[t] \in TenantRow /\ tenant[t] # NoTenant
  BY LiveRow DEF RegisterInv, Update
<1> DEFINE copy == [tenant[t] EXCEPT !.name = n, !.source = src]
           r == [op |-> "update", t |-> t, copy |-> copy, seen |-> tenant[t]]
<1>2. copy \in TenantRow /\ Flags(copy) = Flags(tenant[t]) /\ copy.row = tenant[t].row
  BY <1>1 DEF TenantRow, Flags
<1>3. Starts(p, r) /\ Reads
  BY DEF Update, Reads
<1> HIDE DEF copy
<1>4. r \in Request /\ r.op = "update" /\ r.t = t
  BY <1>1, <1>2 DEF Request, RequestShape
<1> HIDE DEF r
<1> QED
  BY <1>1, <1>3, <1>4, StartKeeps DEF Saves, OfMember

\* What goes is disabled.
LEMMA RemoveKeeps ==
  ASSUME RegisterInv, NEW p \in Admin, NEW t \in Tenant, RemoveTenant(p, t)
  PROVE  RegisterInv'
<1>1. tenant[t] \in TenantRow /\ tenant[t] # NoTenant
  BY LiveRow DEF RegisterInv, RemoveTenant
<1> DEFINE copy == [tenant[t] EXCEPT !.stage = "disabled", !.active = FALSE]
           s == SaveThenTell(t, copy, "none", NoOne, NoMember)
           r == [s EXCEPT !.next = "drop"]
<1>2. copy \in TenantRow /\ Agrees(copy)
  BY <1>1 DEF TenantRow, Stage, Agrees
<1>3. Starts(p, r) /\ Reads
  BY DEF RemoveTenant, Reads
<1> HIDE DEF copy
<1>4. r \in Request /\ r.op = "save" /\ r.t = t /\ r.m = NoOne /\ r.copy = copy
  BY <1>2 DEF SaveThenTell, Request, RequestShape, TenantSave, Binding
<1> HIDE DEF r
<1> QED
  BY <1>1, <1>2, <1>3, <1>4, StartKeeps DEF OfMember

\* A company that applies again starts as a pending one.
LEMMA ApplyKeeps ==
  ASSUME RegisterInv, NEW p \in Admin, NEW m \in Member, NEW n \in Name, ApplyTenant(p, m, n)
  PROVE  RegisterInv'
<1> DEFINE t == member[m].tenant
           again == t # NoOne /\ member[m].bind \in {"approved", "rejected"}
<1>1. member[m] \in MemberRow /\ IsMember(m)
  BY MembersRow DEF RegisterInv, ApplyTenant, MayApply
<1>2. Reads
  BY DEF ApplyTenant, Reads
<1>3. CASE again /\ MayResubmit(t, n)
           /\ Starts(p, SaveThenTell(t, Resubmitted(t, n), "pending", m,
                                     [member[m] EXCEPT !.bind = "pending"]))
  <2> DEFINE mcopy == [member[m] EXCEPT !.bind = "pending"]
             r == SaveThenTell(t, Resubmitted(t, n), "pending", m, mcopy)
  <2>1. t \in Tenant
    BY <1>1, <1>3 DEF MemberRow
  <2>2. tenant[t] \in TenantRow /\ tenant[t] # NoTenant
    BY <1>3, <2>1, LiveRow DEF RegisterInv, MayResubmit
  <2>3. Resubmitted(t, n) \in TenantRow /\ Agrees(Resubmitted(t, n))
    <3> HIDE DEF t
    <3> QED
      BY <2>2 DEF Resubmitted, TenantRow, Stage, Agrees
  <2>4. mcopy \in MemberRow
    BY <1>1 DEF MemberRow, Binding
  <2> HIDE DEF t, mcopy
  <2>5. r \in Request /\ r.copy = Resubmitted(t, n) /\ r.t = t /\ r.m = m
    BY <2>1, <2>3, <2>4, SaveThenTellShape DEF Binding
  <2>6. Starts(p, r)
    BY <1>3 DEF mcopy
  <2> HIDE DEF r
  <2> QED
    BY <1>1, <1>2, <2>2, <2>3, <2>5, <2>6, StartKeeps
<1>4. CASE Starts(p, [op |-> "create", n |-> n, src |-> "miniapp", m |-> m,
                      mcopy |-> member[m]])
  <2> DEFINE r == [op |-> "create", n |-> n, src |-> "miniapp", m |-> m,
                   mcopy |-> member[m]]
  <2>1. r \in Request /\ ~Saves(r) /\ ~OfTenant(r) /\ r.m = m
    BY <1>1 DEF Request, RequestShape, Saves, OfTenant
  <2> HIDE DEF r
  <2> QED
    BY <1>1, <1>2, <1>4, <2>1, StartKeeps DEF r
<1> QED
  BY <1>3, <1>4 DEF ApplyTenant

\* What the handlers of the mini program go on to save: the member's row, but for what
\* does not concern its company, or that of a new member.
LEMMA MemberReads ==
  ASSUME TenantsShape, NEW p \in Admin, NEW m \in Member, NEW b \in BOOLEAN,
         UpdateProfile(p, m) \/ BindPhone(p, m) \/ SilentLogin(p, m, b)
           \/ UpdateMemberStatus(p, m, b)
  PROVE  \E new \in BOOLEAN, copy \in MemberRow :
           /\ Starts(p, MemberSave(m, new, copy)) /\ Reads
           /\ \/ new /\ copy.tenant = NoOne /\ copy.bind = "none"
              \/ ~new /\ IsMember(m) /\ copy.tenant = member[m].tenant
                 /\ copy.bind = member[m].bind
<1>1. IsMember(m) => member[m] \in MemberRow
  BY MembersRow
<1>2. NewMember \in MemberRow /\ NewMember.tenant = NoOne /\ NewMember.bind = "none"
  BY DEF NewMember, MemberRow, Binding
<1>3. CASE UpdateProfile(p, m)
  BY <1>1, <1>3 DEF UpdateProfile, SavesMember, Reads
<1>4. CASE BindPhone(p, m)
  <2> DEFINE copy == [member[m] EXCEPT !.phone = TRUE]
  <2>1. copy \in MemberRow /\ copy.tenant = member[m].tenant /\ copy.bind = member[m].bind
    BY <1>1, <1>4 DEF BindPhone, MemberRow
  <2>2. IsMember(m) /\ SavesMember(p, m, FALSE, copy) /\ Reads
    BY <1>4 DEF BindPhone, Reads
  <2> HIDE DEF copy
  <2> QED
    BY <2>1, <2>2 DEF SavesMember
<1>5. CASE SilentLogin(p, m, b)
  <2> DEFINE row == IF IsMember(m) THEN member[m] ELSE NewMember
             copy == [row EXCEPT !.phone = @ \/ b]
  <2>1. row \in MemberRow
    BY <1>1, <1>2
  <2>2. SavesMember(p, m, ~IsMember(m), copy) /\ Reads
    BY <1>5 DEF SilentLogin, Reads
  <2>3. \/ ~IsMember(m) /\ row.tenant = NoOne /\ row.bind = "none"
        \/ IsMember(m) /\ row.tenant = member[m].tenant /\ row.bind = member[m].bind
    BY <1>2
  <2> HIDE DEF row
  <2>4. /\ copy \in MemberRow /\ copy.tenant = row.tenant /\ copy.bind = row.bind
        /\ (~IsMember(m)) \in BOOLEAN
    BY <2>1 DEF MemberRow, IsMember
  <2> HIDE DEF copy
  <2> QED
    BY <2>2, <2>3, <2>4 DEF SavesMember
<1>6. CASE UpdateMemberStatus(p, m, b)
  <2> DEFINE copy == [member[m] EXCEPT !.active = b]
  <2>1. copy \in MemberRow /\ copy.tenant = member[m].tenant /\ copy.bind = member[m].bind
    BY <1>1, <1>6 DEF UpdateMemberStatus, MemberRow
  <2>2. IsMember(m) /\ SavesMember(p, m, FALSE, copy) /\ Reads
    BY <1>6 DEF UpdateMemberStatus, Reads
  <2> HIDE DEF copy
  <2> QED
    BY <2>1, <2>2 DEF SavesMember
<1> QED
  BY <1>3, <1>4, <1>5, <1>6

LEMMA MemberReadKeeps ==
  ASSUME RegisterInv, NEW p \in Admin, NEW m \in Member, NEW b \in BOOLEAN,
         UpdateProfile(p, m) \/ BindPhone(p, m) \/ SilentLogin(p, m, b)
           \/ UpdateMemberStatus(p, m, b)
  PROVE  RegisterInv'
<1>1. PICK new \in BOOLEAN, copy \in MemberRow :
        Starts(p, MemberSave(m, new, copy)) /\ Reads /\ (new \/ IsMember(m))
  BY MemberReads DEF RegisterInv
<1> DEFINE r == MemberSave(m, new, copy)
<1>2. r \in Request /\ ~Saves(r) /\ ~OfTenant(r) /\ r.op = "member" /\ r.m = m /\ r.new = new
  BY MemberSaveShape
<1> HIDE DEF r
<1> QED
  BY <1>1, <1>2, StartKeeps DEF r, Newcomer

-----------------------------------------------------------------------------
(* Requests that write *)

\* A row is written, and the request ends or goes on with what has been shaped before.
LEMMA RowWritten ==
  ASSUME RegisterInv, NEW p \in Admin, NEW r \in Request, Goes(p, r), ~Saves(r),
         NEW t \in Tenant, NEW row \in TenantRow, t \in torn' \/ Agrees(row),
         tenant' = [tenant EXCEPT ![t] = row], UNCHANGED <<member, overlapped>>,
         renamed' \in BOOLEAN, torn \subseteq torn', torn' \subseteq Tenant \union Member,
         OfTenant(r) => r.t = t,
         (OfMember(r) /\ ~Newcomer(r)) => IsMember(r.m)
  PROVE  RegisterInv'
<1>1. \A u \in Tenant : tenant'[u] = IF u = t THEN row ELSE tenant[u]
  BY DEF RegisterInv, TenantsShape
<1>2. row # NoTenant
  BY DEF TenantRow, NoTenant
<1>3. tenant' \in [Tenant -> TenantRow \union {NoTenant}]
  BY DEF RegisterInv, TenantsShape
<1> QED
  BY <1>1, <1>2, <1>3, StepKeeps DEF RegisterInv, TenantsShape, IsMember

\* A new company is a pending one, which is not active.
LEMMA CreateKeeps ==
  ASSUME RegisterInv, NEW p \in Admin, NEW t \in Tenant, Create(p, t)
  PROVE  RegisterInv'
<1>1. /\ req[p] \in Request /\ req[p].op = "create"
      /\ req[p].n \in Name /\ req[p].src \in {"platform", "miniapp"}
      /\ req[p].m \in Member \union {NoOne}
      /\ req[p].m # NoOne => OfMember(req[p]) /\ req[p].mcopy \in MemberRow /\ IsMember(req[p].m)
  BY RequestKinds DEF RegisterInv, TenantsShape, Create, Stands, OfMember, Newcomer
<1> DEFINE row == NewTenant(req[p].n, req[p].src)
           mcopy == [req[p].mcopy EXCEPT !.tenant = t, !.bind = "pending"]
           r == IF req[p].m = NoOne THEN NoReq ELSE MemberSave(req[p].m, FALSE, mcopy)
<1>2. row \in TenantRow /\ Agrees(row)
  BY <1>1 DEF NewTenant, TenantRow, Stage, Agrees
<1>3. req[p].m # NoOne => mcopy \in MemberRow
  BY <1>1 DEF MemberRow, Binding
<1>4. r \in Request /\ ~Saves(r) /\ ~OfTenant(r) /\ (OfMember(r) => IsMember(r.m))
  <2> HIDE DEF mcopy
  <2>1. CASE req[p].m = NoOne
    BY <2>1, NoReqShape
  <2>2. CASE req[p].m # NoOne
    <3>1. req[p].m \in Member /\ mcopy \in MemberRow /\ IsMember(req[p].m)
      BY <1>1, <1>3, <2>2
    <3>2. r = MemberSave(req[p].m, FALSE, mcopy)
      BY <2>2
    <3> HIDE DEF r
    <3> QED
      BY <3>1, <3>2, MemberSaveShape
  <2> QED
    BY <2>1, <2>2
<1>5. /\ Goes(p, r) /\ tenant' = [tenant EXCEPT ![t] = row]
      /\ UNCHANGED <<member, overlapped, renamed, torn>>
  BY DEF Create
<1> HIDE DEF row, r
<1> QED
  BY <1>2, <1>4, <1>5, RowWritten DEF RegisterInv, TenantsShape

\* An UPDATE that does not concern the stage and the flags.
LEMMA CommitUpdateKeeps ==
  ASSUME RegisterInv, NEW p \in Admin, CommitUpdate(p)
  PROVE  RegisterInv'
<1> DEFINE t == req[p].t
           row == Patched(tenant[t], req[p].seen, req[p].copy)
<1>1. req[p] \in Request /\ req[p].op = "update" /\ OfTenant(req[p])
  BY DEF RegisterInv, TenantsShape, CommitUpdate, OfTenant
<1>2. /\ t \in Tenant /\ req[p].copy \in TenantRow /\ req[p].seen \in TenantRow
      /\ Flags(req[p].copy) = Flags(req[p].seen)
  BY <1>1, RequestKinds
<1>3. tenant[t] \in TenantRow /\ (t \in torn \/ Agrees(tenant[t]))
  BY <1>1, <1>2 DEF RegisterInv, TenantsShape, Stands, RowsAgree
<1>4. row \in TenantRow /\ Flags(row) = Flags(tenant[t])
  BY <1>2, <1>3, PatchedTenant
<1>5. tenant' = [tenant EXCEPT ![t] = row] /\ UNCHANGED <<member, overlapped, torn>>
      /\ Goes(p, NoReq) /\ renamed' \in BOOLEAN
  BY DEF CommitUpdate, RegisterInv, TenantsShape
<1> HIDE DEF t, row
<1>6. t \in torn \/ Agrees(row)
  BY <1>3, <1>4, FlagsAgree
<1> QED
  BY <1>2, <1>4, <1>5, <1>6, NoReqShape, RowWritten DEF RegisterInv, TenantsShape

\* What save has selected is the row as it stands.
LEMMA SelectKeeps ==
  ASSUME RegisterInv, NEW p \in Admin, SelectTenant(p)
  PROVE  RegisterInv'
<1> DEFINE t == req[p].t
           r == [req[p] EXCEPT !.op = "write", !.seen = tenant[t]]
<1>1. req[p] \in Request /\ req[p].op = "save" /\ OfTenant(req[p]) /\ Saves(req[p])
  BY DEF RegisterInv, TenantsShape, SelectTenant, OfTenant, Saves
<1>2. t \in Tenant /\ req[p] \in TenantSave
  BY <1>1, RequestKinds
<1>3. tenant[t] \in TenantRow
  BY <1>1, <1>2 DEF RegisterInv, TenantsShape, Stands
<1>4. Goes(p, r) /\ UNCHANGED <<tenant, member, overlapped, renamed, torn>>
  BY DEF SelectTenant
<1>5. /\ r.op = "write" /\ r.t = t /\ r.copy = req[p].copy /\ r.m = req[p].m
      /\ r.mcopy = req[p].mcopy /\ r.next = req[p].next /\ r.tell = req[p].tell
      /\ r.seen = tenant[t] /\ r \in TenantSave
  BY <1>2, <1>3 DEF TenantSave
<1> HIDE DEF t, r
<1>6. r \in Request
  BY <1>1, <1>3, <1>5 DEF Request, RequestShape
<1>7. (OfMember(r) /\ ~Newcomer(r)) => IsMember(r.m)
  BY <1>1, <1>5 DEF OfMember, Newcomer, RegisterInv, Stands
<1>8. Agrees(r.copy) /\ tenant[t] # NoTenant
  BY <1>1, <1>3, <1>5 DEF RegisterInv, CopiesAgree, Stands, t
<1> QED
  BY <1>4, <1>5, <1>6, <1>7, <1>8, StepKeeps DEF RegisterInv, TenantsShape, IsMember

\* What a save goes on with.
LEMMA Onwards ==
  ASSUME NEW q \in Request, q.op = "write"
  PROVE  LET r == IF q.next = "none" THEN NoReq ELSE [q EXCEPT !.op = q.next, !.seen = NoTenant]
         IN  /\ r \in Request /\ ~Saves(r)
             /\ q.next = "none" => r = NoReq
             /\ q.next # "none" =>
                  /\ r.op = q.next /\ r.t = q.t /\ r.copy = q.copy /\ r.tell = q.tell
                  /\ r.m = q.m /\ r.mcopy = q.mcopy /\ r.op \in {"tell", "drop"}
<1>1. q \in TenantSave /\ q.next \in {"none", "tell", "drop"}
  BY RequestKinds
<1>2. CASE q.next = "none"
  BY <1>2, NoReqShape
<1>3. CASE q.next # "none"
  <2> DEFINE r == [q EXCEPT !.op = q.next, !.seen = NoTenant]
  <2>1. /\ r.op = q.next /\ r.t = q.t /\ r.copy = q.copy /\ r.tell = q.tell /\ r.m = q.m
        /\ r.mcopy = q.mcopy /\ r.next = q.next /\ r \in TenantSave
    BY <1>1, <1>3 DEF TenantSave
  <2> HIDE DEF r
  <2>2. r \in Request /\ ~Saves(r)
    BY <1>1, <1>3, <2>1 DEF Request, RequestShape, Saves
  <2> QED
    BY <1>1, <1>3, <2>1, <2>2 DEF r
<1> QED
  BY <1>2, <1>3

\* The copy's columns agree, and so do the row's: of a row that is not torn one set of
\* them is written as a whole, or none of it.
LEMMA WriteKeeps ==
  ASSUME RegisterInv, NEW p \in Admin, WriteTenant(p)
  PROVE  RegisterInv'
<1> DEFINE q == req[p]
           t == q.t
           row == Patched(tenant[t], q.seen, q.copy)
           r == IF q.next = "none" THEN NoReq ELSE [q EXCEPT !.op = q.next, !.seen = NoTenant]
<1>1. q \in Request /\ q.op = "write" /\ OfTenant(q) /\ Saves(q)
  BY DEF RegisterInv, TenantsShape, WriteTenant, OfTenant, Saves
<1>2. t \in Tenant /\ q.copy \in TenantRow /\ q.seen \in TenantRow /\ Agrees(q.copy)
  BY <1>1, RequestKinds DEF RegisterInv, CopiesAgree
<1>3. tenant[t] \in TenantRow /\ (t \in torn \/ Agrees(tenant[t]))
  BY <1>1, <1>2 DEF RegisterInv, TenantsShape, Stands, RowsAgree
<1>4. /\ row \in TenantRow
      /\ Flags(q.copy) = Flags(q.seen) => Flags(row) = Flags(tenant[t])
      /\ Flags(tenant[t]) = Flags(q.seen) => Flags(row) = Flags(q.copy)
  BY <1>2, <1>3, PatchedTenant
<1>5. /\ tenant' = [tenant EXCEPT ![t] = row] /\ Goes(p, r)
      /\ UNCHANGED <<member, overlapped, renamed>>
      /\ torn' = IF Flags(q.copy) # Flags(q.seen) /\ Flags(tenant[t]) # Flags(q.seen)
                 THEN torn \union {t} ELSE torn
  BY DEF WriteTenant
<1>6. /\ r \in Request /\ ~Saves(r) /\ (OfTenant(r) => r.t = t)
      /\ OfMember(r) => r.m = q.m /\ OfMember(q) /\ ~Newcomer(q)
  BY <1>1, Onwards, NoReqShape DEF OfMember, Newcomer
<1>7. OfMember(r) => IsMember(r.m)
  BY <1>6 DEF RegisterInv, Stands
<1> HIDE DEF q, t, row, r
<1>8. t \in torn' \/ Agrees(row)
  BY <1>2, <1>3, <1>4, <1>5, FlagsAgree
<1>9. torn \subseteq torn' /\ torn' \subseteq Tenant \union Member
  BY <1>2, <1>5 DEF RegisterInv, TenantsShape
<1> QED
  BY <1>2, <1>4, <1>5, <1>6, <1>7, <1>8, <1>9, RowWritten DEF RegisterInv, TenantsShape

\* The mark of a removal leaves the other columns as they are.
LEMMA SoftDeleteKeeps ==
  ASSUME RegisterInv, NEW p \in Admin, SoftDelete(p)
  PROVE  RegisterInv'
<1> DEFINE t == req[p].t
           row == [tenant[t] EXCEPT !.row = "gone"]
<1>1. OfTenant(req[p]) /\ t \in Tenant
  BY RequestKinds DEF RegisterInv, TenantsShape, SoftDelete, OfTenant
<1>2. tenant[t] \in TenantRow /\ (t \in torn \/ Agrees(tenant[t]))
  BY <1>1 DEF RegisterInv, TenantsShape, RowsAgree, Stands
<1>3. row \in TenantRow /\ (t \in torn \/ Agrees(row))
  <2> HIDE DEF t
  <2> QED
    BY <1>2 DEF TenantRow, Agrees
<1>4. /\ tenant' = [tenant EXCEPT ![t] = row] /\ UNCHANGED <<member, overlapped, renamed, torn>>
      /\ Goes(p, NoReq)
  BY DEF SoftDelete
<1> HIDE DEF t, row
<1> QED
  BY <1>1, <1>3, <1>4, NoReqShape, RowWritten DEF RegisterInv, TenantsShape

\* What members are told, or what of a member is saved, leaves the companies alone.
LEMMA MembersKeep ==
  ASSUME RegisterInv, NEW p \in Admin,
         SyncMiniappTenantBindStatus(p) \/ SelectMember(p) \/ WriteMember(p) \/ InsertMember(p)
           \/ Dies(p)
  PROVE  RegisterInv'
<1>1. req[p] \in Request
  BY DEF RegisterInv, TenantsShape
<1>2. PICK r \in Request : /\ Goes(p, r) /\ ~Saves(r) /\ ~OfTenant(r)
                           /\ OfMember(r) => IsMember(r.m)
  <2>1. CASE SyncMiniappTenantBindStatus(p)
    <3> DEFINE r == IF req[p].m = NoOne THEN NoReq
                    ELSE MemberSave(req[p].m, FALSE, req[p].mcopy)
    <3>1. req[p].op = "tell" /\ Goes(p, r)
      BY <2>1 DEF SyncMiniappTenantBindStatus
    <3>2. req[p].m # NoOne => OfMember(req[p]) /\ ~Newcomer(req[p])
      BY <3>1 DEF OfMember, Newcomer
    <3>3. req[p].m # NoOne => /\ req[p].m \in Member /\ req[p].mcopy \in MemberRow
                              /\ IsMember(req[p].m)
      BY <1>1, <3>2, RequestKinds DEF RegisterInv, Stands
    <3>4. r \in Request /\ ~Saves(r) /\ ~OfTenant(r) /\ (OfMember(r) => IsMember(r.m))
      <4>1. CASE req[p].m = NoOne
        BY <4>1, NoReqShape
      <4>2. CASE req[p].m # NoOne
        BY <3>3, <4>2, MemberSaveShape
      <4> QED
        BY <4>1, <4>2
    <3> QED
      BY <3>1, <3>4
  <2>2. CASE SelectMember(p)
    <3> DEFINE r == [req[p] EXCEPT !.op = "patch", !.seen = member[req[p].m]]
    <3>1. req[p].op = "member" /\ ~req[p].new /\ Goes(p, r)
      BY <2>2 DEF SelectMember
    <3>2. /\ req[p] \in [op : {"member", "patch"}, m : Member, new : BOOLEAN, mcopy : MemberRow,
                         seen : MemberRow \union {NoMember}]
          /\ req[p].m # NoOne
      BY <1>1, <3>1, TenantAssumption DEF Request, RequestShape, TenantSave, NoReq
    <3>3. IsMember(req[p].m) /\ member[req[p].m] \in MemberRow
      BY <3>1, <3>2, MembersRow DEF RegisterInv, Stands, OfMember, Newcomer
    <3>4. r.op = "patch" /\ r.m = req[p].m /\ r \in Request
      BY <3>1, <3>2, <3>3 DEF Request, RequestShape
    <3> HIDE DEF r
    <3> QED
      BY <3>1, <3>3, <3>4 DEF Saves, OfTenant
  <2>3. CASE WriteMember(p) \/ InsertMember(p) \/ Dies(p)
    BY <2>3, NoReqShape DEF WriteMember, InsertMember, Dies
  <2> QED
    BY <2>1, <2>2, <2>3
<1>3. /\ member' \in [Member -> MemberRow \union {NoMember}]
      /\ \A m \in Member : IsMember(m) => IsMember(m)'
  <2>0. NoMember \notin MemberRow
    BY DEF MemberRow, NoMember
  <2>1. CASE SyncMiniappTenantBindStatus(p)
    <3>1. req[p].op = "tell"
      BY <2>1 DEF SyncMiniappTenantBindStatus
    <3>2. req[p].tell \in Binding /\ req[p].t \in Tenant
      BY <1>1, <3>1, RequestKinds DEF OfTenant
    <3>3. ASSUME NEW m \in Told(req[p].t)
          PROVE  [member[m] EXCEPT !.bind = req[p].tell] \in MemberRow
      <4>1. m \in Member /\ member[m].tenant # NoOne
        BY <3>2, TenantAssumption DEF Told
      <4>2. member[m] \in MemberRow
        BY <4>1, MembersRow DEF RegisterInv
      <4> QED
        BY <3>2, <4>2 DEF MemberRow
    <3> QED
      BY <2>0, <2>1, <3>3 DEF SyncMiniappTenantBindStatus, RegisterInv, TenantsShape, IsMember
  <2>2. CASE InsertMember(p)
    <3>1. req[p].m \in Member /\ req[p].mcopy \in MemberRow
      BY <1>1, <2>2, RequestKinds DEF InsertMember
    <3> QED
      BY <2>0, <2>2, <3>1 DEF InsertMember, RegisterInv, TenantsShape, IsMember
  <2>3. CASE WriteMember(p)
    <3> DEFINE row == Patched(member[req[p].m], req[p].seen, req[p].mcopy)
    <3>1. /\ req[p].op = "patch" /\ member' = [member EXCEPT ![req[p].m] = row]
      BY <2>3 DEF WriteMember
    <3>2. /\ req[p].m \in Member /\ req[p].mcopy \in MemberRow /\ req[p].seen \in MemberRow
          /\ OfMember(req[p])
      BY <1>1, <3>1, RequestKinds DEF OfMember
    <3>3. member[req[p].m] \in MemberRow
      BY <3>1, <3>2, MembersRow DEF RegisterInv, Stands, Newcomer
    <3>4. row \in MemberRow
      BY <3>2, <3>3, PatchedMember
    <3> HIDE DEF row
    <3> QED
      BY <2>0, <3>1, <3>2, <3>4 DEF RegisterInv, TenantsShape, IsMember
  <2>4. CASE SelectMember(p) \/ Dies(p)
    BY <2>4 DEF SelectMember, Dies, RegisterInv, TenantsShape, IsMember
  <2> QED
    BY <2>1, <2>2, <2>3, <2>4
<1>4. UNCHANGED <<tenant, renamed>> /\ overlapped' \in BOOLEAN /\ torn \subseteq torn'
      /\ torn' \subseteq Tenant \union Member
  <2>1. WriteMember(p) => req[p].m \in Member
    BY <1>1, RequestKinds DEF WriteMember
  <2> QED
    BY <2>1 DEF SyncMiniappTenantBindStatus, SelectMember, WriteMember, InsertMember, Dies,
       RegisterInv, TenantsShape
<1>5. OfMember(r) => member'[r.m] # NoMember
  BY <1>2, <1>3, RequestKinds DEF IsMember
<1> QED
  BY <1>2, <1>3, <1>4, <1>5, StepKeeps DEF RegisterInv, TenantsShape, IsMember

-----------------------------------------------------------------------------
(* Every step *)

LEMMA NextKeeps ==
  ASSUME RegisterInv, TenantsNext
  PROVE  RegisterInv'
<1>1. ASSUME NEW p \in Admin, NEW t \in Tenant,
             Create(p, t) \/ Approve(p, t) \/ Reject(p, t) \/ RemoveTenant(p, t)
      PROVE  RegisterInv'
  BY <1>1, CreateKeeps, VerdictKeeps, RemoveKeeps
<1>2. ASSUME NEW p \in Admin, NEW t \in Tenant, NEW to \in Stage, NEW says \in BOOLEAN,
             UpdateTenantLifecycle(p, t, to, says)
      PROVE  RegisterInv'
  BY <1>2, LifecycleKeeps
<1>3. ASSUME NEW p \in Admin, NEW t \in Tenant, NEW n \in Name,
             NEW src \in {"platform", "miniapp"}, Update(p, t, n, src)
      PROVE  RegisterInv'
  BY <1>3, UpdateKeeps
<1>4. ASSUME NEW p \in Admin, NEW n \in Name, Onboard(p, n)
      PROVE  RegisterInv'
  BY <1>4, OnboardKeeps
<1>5. ASSUME NEW p \in Admin,
             CommitUpdate(p) \/ SelectTenant(p) \/ WriteTenant(p) \/ SoftDelete(p)
      PROVE  RegisterInv'
  BY <1>5, CommitUpdateKeeps, SelectKeeps, WriteKeeps, SoftDeleteKeeps
<1>6. ASSUME NEW p \in Admin,
             SyncMiniappTenantBindStatus(p) \/ SelectMember(p) \/ WriteMember(p)
               \/ InsertMember(p) \/ Dies(p)
      PROVE  RegisterInv'
  BY <1>6, MembersKeep
<1>7. ASSUME NEW p \in Admin, NEW m \in Member, UpdateProfile(p, m) \/ BindPhone(p, m)
      PROVE  RegisterInv'
  BY <1>7, MemberReadKeeps
<1>8. ASSUME NEW p \in Admin, NEW m \in Member, NEW b \in BOOLEAN,
             SilentLogin(p, m, b) \/ UpdateMemberStatus(p, m, b)
      PROVE  RegisterInv'
  BY <1>8, MemberReadKeeps
<1>9. ASSUME NEW p \in Admin, NEW m \in Member, NEW n \in Name, ApplyTenant(p, m, n)
      PROVE  RegisterInv'
  BY <1>9, ApplyKeeps
<1> QED
  BY <1>1, <1>2, <1>3, <1>4, <1>5, <1>6, <1>7, <1>8, <1>9 DEF TenantsNext

LEMMA RegisterStutters ==
  ASSUME RegisterInv, UNCHANGED tenantVars
  PROVE  RegisterInv'
BY DEF tenantVars, RegisterInv, TenantsShape, RowsAgree, CopiesAgree, Stands, Agrees, IsMember

\* Columns that say the same give the same answer wherever they are asked.
LEMMA AgreeingAnswersOnce ==
  ASSUME RegisterInv
  PROVE  OneAnswer
<1> SUFFICES ASSUME NEW t \in Tenant \ torn
             PROVE  /\ MayLogIn(t) = MayPass(t) /\ MayPass(t) = Shown(t)
                    /\ Shown(t) = Listed(t)
  BY DEF OneAnswer
<1>1. CASE Live(t)
  <2>1. tenant[t] \in TenantRow /\ Agrees(tenant[t])
    BY <1>1, LiveRow DEF RegisterInv, RowsAgree
  <2> QED
    BY <1>1, <2>1 DEF MayLogIn, MayPass, Shown, Listed, Agrees, TenantRow
<1>2. CASE ~Live(t)
  BY <1>2 DEF MayLogIn, MayPass, Shown, Listed
<1> QED
  BY <1>1, <1>2

(* Login, the guard, the public pages and the yellow pages always agree on which       *)
(* companies are in business (OneAnswer), for any number of companies, members and     *)
(* requests, unless two saves crossed each other on one company: every handler of      *)
(* tenants.service that saves a copy sets the stage and the flags together, so that    *)
(* columns written over a newer row, or taken from it, agree.                          *)
THEOREM AnswersAgree == TenantsSpec => []OneAnswer
<1>1. TenantsInit => RegisterInv
  BY InitShape
<1>2. RegisterInv /\ [TenantsNext]_tenantVars => RegisterInv'
  BY NextKeeps, RegisterStutters
<1>3. RegisterInv => OneAnswer
  BY AgreeingAnswersOnce
<1> QED
  BY <1>1, <1>2, <1>3, PTL DEF TenantsSpec

-----------------------------------------------------------------------------
(* Members and their companies *)

\* A member has a state of certification exactly when it has a company.
Together(row) == (row.bind = "none") = (row.tenant = NoOne)

\* The companies, the names and the member a request is about: a part of what it touches.
Firms(r) ==
  {t \in Tenant : \/ OfTenant(r) /\ r.t = t
                  \/ OfMember(r) /\ r.mcopy.tenant = t}
Labels(r) ==
  {n \in Name : \/ r.op = "create" /\ r.n = n
                \/ r.op \in {"save", "write", "tell", "update"} /\ r.copy.name = n}
Persons(r) == {m \in Member : OfMember(r) /\ r.m = m}

\* What members of a company with this row have been told; of those that are in the
\* register and disabled, only the approved ones.
Suits(row, bind) ==
  /\ Fits(row.stage, bind)
  /\ (row.row = "live" /\ row.stage = "disabled") => bind = "approved"

\* The member to be saved in the end, if there is one, is told what all are told.
EndsAlike(r) == r.m # NoOne => r.mcopy.tenant = r.t /\ r.mcopy.bind = r.tell

\* What a request that nobody crosses is going to write suits the register, and what its
\* save has selected is still there.
Plan(r, reg) ==
  /\ Saves(r) =>
       /\ reg[r.t].row = "live" /\ r.copy.row = "live"
       /\ r.next = "none" => \A b \in Binding : Suits(reg[r.t], b) => Suits(r.copy, b)
       /\ r.next = "tell" => Suits(r.copy, r.tell)
       /\ r.next = "drop" => r.copy.stage = "disabled"
       /\ EndsAlike(r)
  /\ r.op \in {"write", "update"} => r.seen = reg[r.t]
  /\ r.op = "tell" => Suits(reg[r.t], r.tell) /\ EndsAlike(r)
  /\ r.op = "drop" => reg[r.t].stage = "disabled"
  /\ (r.op \in {"member", "patch"} /\ r.mcopy.tenant # NoOne) =>
       Suits(reg[r.mcopy.tenant], r.mcopy.bind)

\* A member's own row is as it was read, or has no company yet.
OwnPlan(r, mem) ==
  /\ (r.op = "create" /\ r.m # NoOne) => mem[r.m].tenant = NoOne
  /\ (r.op \in {"save", "write", "tell"} /\ r.m # NoOne) => mem[r.m].tenant = r.t
  /\ (r.op \in {"member", "patch"} /\ ~r.new) => mem[r.m].tenant \in {r.mcopy.tenant, NoOne}
  /\ r.op = "patch" => r.seen = mem[r.m]

\* Nor will it give a company a name that another one has.
NamePlan(r, reg) ==
  /\ r.op = "create" => \A u \in Tenant : reg[u].row = "live" => reg[u].name # r.n
  /\ Saves(r) => \A u \in Tenant \ {r.t} : reg[u].row = "live" => reg[u].name # r.copy.name

\* Until its members are told, or its row is marked, they need not suit a company.
Awaited(t) == \E p \in Admin : req[p].op \in {"tell", "drop"} /\ req[p].t = t

\* Of a member that is not torn, the copies and what a save has selected hold together.
HoldsTogether(r) ==
  r.m \in torn \/ (Together(r.mcopy) /\ (r.op = "patch" => Together(r.seen)))

Bound ==
  /\ \A m \in Member \ torn : IsMember(m) => Together(member[m])
  /\ \A p \in Admin : OfMember(req[p]) => HoldsTogether(req[p])

Known ==
  /\ \A m \in Member : member[m].tenant # NoOne => tenant[member[m].tenant] # NoTenant
  /\ \A p \in Admin : \A t \in Firms(req[p]) : tenant[t] # NoTenant

Apart(r, s) ==
  /\ Firms(r) \intersect Firms(s) = {}
  /\ Labels(r) \intersect Labels(s) = {}
  /\ Persons(r) \intersect Persons(s) = {}

Uncrossed == \A p, q \in Admin : p # q => Apart(req[p], req[q])

MembersSuit ==
  \A m \in Member : (member[m].tenant # NoOne /\ ~Awaited(member[m].tenant)) =>
    Suits(tenant[member[m].tenant], member[m].bind)

PlansSuit == \A p \in Admin : Plan(req[p], tenant) /\ OwnPlan(req[p], member)
NamesFree == \A p \in Admin : NamePlan(req[p], tenant)

\* Companies in the register have names of their own.
OwnNames ==
  \A t, u \in Tenant : (t # u /\ Live(t) /\ Live(u)) => tenant[t].name # tenant[u].name

MembersInv ==
  /\ Bound /\ Known
  /\ ~overlapped => Uncrossed /\ MembersSuit /\ PlansSuit /\ torn = {}
  /\ ~(overlapped \/ renamed) => OwnNames /\ NamesFree

\* The companies, names and members of a request are among what it touches.
LEMMA TouchedHolds ==
  ASSUME NEW r \in Request
  PROVE  Firms(r) \union Labels(r) \union Persons(r) \subseteq Touched(r)
<1>1. NoOne \notin Firms(r) \union Labels(r) \union Persons(r)
  BY TenantAssumption DEF Firms, Labels, Persons
<1>2. OfTenant(r) => "t" \in DOMAIN r
  BY DEF OfTenant, Request, RequestShape, TenantSave, NoReq
<1>3. OfMember(r) => "m" \in DOMAIN r
  BY DEF OfMember, Request, RequestShape, TenantSave, NoReq
<1>4. r.op \in {"save", "write", "tell", "update"} => "copy" \in DOMAIN r
  BY DEF Request, RequestShape, TenantSave, NoReq
<1>5. r.op = "create" => "n" \in DOMAIN r
  BY DEF Request, RequestShape, TenantSave, NoReq
<1> DEFINE T == IF "t" \in DOMAIN r THEN {r.t} ELSE {}
           M == IF "m" \in DOMAIN r THEN {r.m, r.mcopy.tenant} ELSE {}
           C == IF "copy" \in DOMAIN r THEN {r.copy.name} ELSE {}
           N == IF "n" \in DOMAIN r THEN {r.n} ELSE {}
           All == UNION {T, M, C, N}
<1>6. Touched(r) = All \ {NoOne}
  BY DEF Touched
<1>7. Firms(r) \subseteq T \union M /\ Persons(r) \subseteq M
  BY <1>2, <1>3 DEF Firms, Persons
<1>8. Labels(r) \subseteq C \union N
  BY <1>4, <1>5 DEF Labels
<1> HIDE DEF T, M, C, N
<1>9. T \subseteq All /\ M \subseteq All /\ C \subseteq All /\ N \subseteq All
  OBVIOUS
<1> HIDE DEF All
<1> QED
  BY <1>1, <1>6, <1>7, <1>8, <1>9

\* A plan for other companies is not concerned by what becomes of a company.
LEMMA PlanStays ==
  ASSUME NEW r \in Request, NEW t \in Tenant, t \notin Firms(r), NEW reg, NEW reg2,
         \A u \in Tenant : u # t => reg2[u] = reg[u], Plan(r, reg)
  PROVE  Plan(r, reg2)
<1>1. OfTenant(r) => reg2[r.t] = reg[r.t]
  BY RequestKinds DEF Firms
<1>2. (r.op \in {"member", "patch"} /\ r.mcopy.tenant # NoOne) =>
        reg2[r.mcopy.tenant] = reg[r.mcopy.tenant]
  <2> SUFFICES ASSUME r.op \in {"member", "patch"}, r.mcopy.tenant # NoOne
               PROVE  reg2[r.mcopy.tenant] = reg[r.mcopy.tenant]
    OBVIOUS
  <2>1. OfMember(r) /\ r.mcopy \in MemberRow
    BY RequestKinds DEF OfMember
  <2>2. r.mcopy.tenant \in Tenant
    BY <2>1 DEF MemberRow
  <2> QED
    BY <2>1, <2>2 DEF Firms
<1> QED
  BY <1>1, <1>2 DEF Plan, OfTenant, Saves

LEMMA NamePlanStays ==
  ASSUME NEW r \in Request, NEW t \in Tenant, t \notin Firms(r), NEW reg, NEW reg2,
         \A u \in Tenant : u # t => reg2[u] = reg[u],
         reg2[t].row = "live" => reg2[t].name \notin Labels(r), NamePlan(r, reg)
  PROVE  NamePlan(r, reg2)
<1>1. r.op = "create" => r.n \in Labels(r)
  BY RequestKinds DEF Labels
<1>2. Saves(r) => r.copy.name \in Labels(r) /\ r.t \in Tenant
  BY RequestKinds DEF Labels, TenantRow, Saves, OfTenant
<1> QED
  BY <1>1, <1>2 DEF NamePlan

\* No request, no plans.
LEMMA NoPlans ==
  /\ Firms(NoReq) = {} /\ Labels(NoReq) = {} /\ Persons(NoReq) = {}
  /\ \A reg : Plan(NoReq, reg) /\ NamePlan(NoReq, reg) /\ OwnPlan(NoReq, reg)
BY NoReqShape DEF NoReq, Firms, Labels, Persons, Plan, NamePlan, OwnPlan, Saves

LEMMA MembersStart ==
  ASSUME TenantsInit
  PROVE  MembersInv
<1>1. /\ \A p \in Admin : req[p] = NoReq
      /\ \A m \in Member : member[m] = NoMember /\ NoMember.tenant = NoOne
      /\ \A t \in Tenant : tenant[t].row = "none"
      /\ torn = {}
  BY DEF TenantsInit, NoMember, NoTenant
<1> QED
  BY <1>1, NoPlans, NoReqShape DEF MembersInv, Bound, IsMember, Known, Uncrossed, Apart,
     MembersSuit, PlansSuit, NamesFree, OwnNames, Live

\* Who has a company is known by a row of it; who is not torn has been told something.
LEMMA HasACompany ==
  ASSUME RegisterInv, MembersInv, NEW m \in Member, member[m].tenant # NoOne
  PROVE  /\ member[m].tenant \in Tenant /\ tenant[member[m].tenant] # NoTenant
         /\ member[m].bind \in Binding /\ IsMember(m)
         /\ m \notin torn => member[m].bind # "none"
<1>1. member[m] \in MemberRow /\ IsMember(m)
  BY MembersRow DEF RegisterInv
<1> QED
  BY <1>1 DEF MembersInv, Known, Bound, Together, MemberRow

-----------------------------------------------------------------------------
(* What a step has to see to *)

\* Copies hold together and name companies that are known, as far as the one request and
\* the rows that are written do.
LEMMA BoundStays ==
  ASSUME RegisterInv, MembersInv, NEW p \in Admin, NEW r \in Request, Goes(p, r),
         torn \subseteq torn',
         OfMember(r) => r.m \in torn' \/ (Together(r.mcopy) /\ (r.op = "patch" => Together(r.seen))),
         \A t \in Firms(r) : tenant'[t] # NoTenant,
         \A t \in Tenant : tenant[t] # NoTenant => tenant'[t] # NoTenant,
         \A m \in Member :
           \/ member'[m] = member[m]
           \/ /\ m \in torn' \/ Together(member'[m])
              /\ member'[m].tenant # NoOne => tenant'[member'[m].tenant] # NoTenant
  PROVE  Bound' /\ Known'
<1>1. /\ \A q \in Admin : req'[q] = IF q = p THEN r ELSE req[q]
      /\ \A q \in Admin : req[q] \in Request
  BY DEF Goes, RegisterInv, TenantsShape
<1>2. \A m \in Member \ torn' : member'[m] # NoMember => Together(member'[m])
  BY DEF MembersInv, Bound, IsMember
<1>3. ASSUME NEW q \in Admin, OfMember(req'[q])
      PROVE  \/ req'[q].m \in torn'
             \/ Together(req'[q].mcopy) /\ (req'[q].op = "patch" => Together(req'[q].seen))
  <2>1. CASE q = p
    BY <1>1, <1>3, <2>1
  <2>2. CASE q # p
    BY <1>1, <1>3, <2>2 DEF MembersInv, Bound, HoldsTogether
  <2> QED
    BY <2>1, <2>2
<1>4. \A m \in Member : member'[m].tenant # NoOne => tenant'[member'[m].tenant] # NoTenant
  BY HasACompany
<1>5. \A q \in Admin : \A u \in Firms(req'[q]) : tenant'[u] # NoTenant
  BY <1>1 DEF MembersInv, Known, Firms
<1> QED
  BY <1>2, <1>3, <1>4, <1>5 DEF Bound, Known, HoldsTogether, IsMember

\* Requests stay apart when one goes on with no more than it was about, or a new company.
LEMMA ApartStays ==
  ASSUME RegisterInv, MembersInv, ~overlapped, NEW p \in Admin, NEW r \in Request, Goes(p, r),
         \A u \in Firms(r) : u \in Firms(req[p]) \/ tenant[u] = NoTenant,
         Labels(r) \subseteq Labels(req[p]), Persons(r) \subseteq Persons(req[p])
  PROVE  Uncrossed'
<1>1. /\ \A q \in Admin : req'[q] = IF q = p THEN r ELSE req[q]
      /\ Uncrossed /\ Known
  BY DEF Goes, RegisterInv, TenantsShape, MembersInv
<1>2. ASSUME NEW q \in Admin, q # p
      PROVE  Apart(r, req[q]) /\ Apart(req[q], r)
  BY <1>1, <1>2 DEF Uncrossed, Known, Apart
<1> QED
  BY <1>1, <1>2 DEF Uncrossed

\* A step that starts no request: names stay free when no company's row changes.
LEMMA NamesStay ==
  ASSUME RegisterInv, MembersInv, NEW p \in Admin, NEW r \in Request, Goes(p, r),
         UNCHANGED <<tenant, renamed>>, overlapped => overlapped',
         ~(overlapped \/ renamed) => NamePlan(r, tenant)
  PROVE  ~(overlapped' \/ renamed') => OwnNames' /\ NamesFree'
<1>1. \A q \in Admin : req'[q] = IF q = p THEN r ELSE req[q]
  BY DEF Goes, RegisterInv, TenantsShape
<1> QED
  BY <1>1 DEF MembersInv, OwnNames, NamesFree, Live

-----------------------------------------------------------------------------
(* Requests that read *)

\* A request may start whose plan suits the register, as long as it crosses no other.
LEMMA StartFollows ==
  ASSUME RegisterInv, MembersInv, NEW p \in Admin, NEW r \in Request, Starts(p, r), Reads,
         r.op \notin {"tell", "drop", "patch"},
         OfMember(r) => r.m \in torn \/ Together(r.mcopy),
         \A t \in Firms(r) : tenant[t] # NoTenant,
         (~overlapped /\ \A t \in Firms(r) : ~Awaited(t)) =>
           Plan(r, tenant) /\ OwnPlan(r, member),
         ~(overlapped \/ renamed) => NamePlan(r, tenant)
  PROVE  MembersInv'
<1>1. /\ UNCHANGED <<tenant, member, renamed, torn>> /\ req[p] = NoReq /\ Goes(p, r)
      /\ \A q \in Admin : req'[q] = IF q = p THEN r ELSE req[q]
      /\ \A q \in Admin : req[q] \in Request
  BY DEF Reads, Starts, Goes, RegisterInv, TenantsShape
<1>2. ~overlapped' => ~overlapped /\ \A q \in Admin : Touched(req[q]) \intersect Touched(r) = {}
  BY DEF Starts
<1>3. Bound' /\ Known'
  BY <1>1, BoundStays
<1>4. \A t \in Tenant : Awaited(t)' = Awaited(t)
  BY <1>1, NoReqShape DEF Awaited
<1>5. ~overlapped' => Uncrossed' /\ MembersSuit' /\ PlansSuit' /\ torn' = {}
  <2> SUFFICES ASSUME ~overlapped' PROVE Uncrossed' /\ MembersSuit' /\ PlansSuit' /\ torn' = {}
    OBVIOUS
  <2>1. Uncrossed /\ MembersSuit /\ PlansSuit /\ ~overlapped /\ torn' = {}
    BY <1>1, <1>2 DEF MembersInv
  <2>2. \A q \in Admin : Apart(req[q], r) /\ Apart(r, req[q])
    BY <1>1, <1>2, TouchedHolds DEF Apart
  <2>3. Uncrossed'
    BY <1>1, <2>1, <2>2 DEF Uncrossed
  <2>4. MembersSuit'
    <3>1. \A m \in Member : member[m].tenant # NoOne => member[m].tenant \in Tenant
      BY HasACompany
    <3> QED
      BY <1>1, <1>4, <2>1, <3>1 DEF MembersSuit
  <2>5. \A t \in Firms(r) : ~Awaited(t)
    <3>1. ASSUME NEW t \in Firms(r), NEW q \in Admin, req[q].op \in {"tell", "drop"}, req[q].t = t
          PROVE  FALSE
      BY <2>2, <3>1 DEF Firms, OfTenant, Apart
    <3> QED
      BY <3>1 DEF Awaited
  <2>6. PlansSuit'
    BY <1>1, <2>1, <2>5 DEF PlansSuit
  <2> QED
    BY <2>1, <2>3, <2>4, <2>6
<1>6. ~(overlapped' \/ renamed') => OwnNames' /\ NamesFree'
  BY <1>1, <1>2, NamesStay
<1> QED
  BY <1>3, <1>5, <1>6 DEF MembersInv

\* What is looked up before a company is taken on.
LEMMA OnboardFollows ==
  ASSUME RegisterInv, MembersInv, NEW p \in Admin, NEW n \in Name, Onboard(p, n)
  PROVE  MembersInv'
<1> DEFINE r == [op |-> "create", n |-> n, src |-> "platform", m |-> NoOne,
                 mcopy |-> NoMember]
<1>1. r \in Request /\ r.op = "create" /\ r.n = n /\ r.m = NoOne
  BY DEF Request, RequestShape
<1>2. Starts(p, r) /\ Reads /\ NameFree(n, NoOne)
  BY DEF Onboard, Reads
<1> HIDE DEF r
<1>3. ~OfTenant(r) /\ ~OfMember(r) /\ ~Saves(r)
  BY <1>1 DEF OfTenant, OfMember, Saves
<1>4. Plan(r, tenant) /\ OwnPlan(r, member)
  BY <1>1, <1>3 DEF Plan, OwnPlan
<1>5. NamePlan(r, tenant)
  BY <1>1, <1>2, <1>3, TenantAssumption DEF NamePlan, NameFree, Live
<1>6. Firms(r) = {}
  BY <1>3 DEF Firms
<1> QED
  BY <1>1, <1>2, <1>3, <1>4, <1>5, <1>6, StartFollows

\* A verdict keeps the name; at the stage it leads to members are what they will be told,
\* or what they have been told.
LEMMA VerdictFollows ==
  ASSUME RegisterInv, MembersInv, NEW p \in Admin, NEW t \in Tenant, Live(t), Reads,
         NEW r \in Request, Starts(p, r), r.op = "save", r.t = t, r.m = NoOne,
         r.copy.name = tenant[t].name, r.copy.row = "live",
         r.next = "none" => \A b \in Binding : Suits(tenant[t], b) => Suits(r.copy, b),
         r.next = "tell" => Suits(r.copy, r.tell),
         r.next = "drop" => r.copy.stage = "disabled"
  PROVE  MembersInv'
<1>1. ~OfMember(r) /\ EndsAlike(r)
  BY DEF OfMember, EndsAlike
<1>2. Firms(r) \subseteq {t} /\ tenant[t] # NoTenant
  BY <1>1, LiveRow DEF Firms, RegisterInv
<1>3. Plan(r, tenant) /\ OwnPlan(r, member)
  BY <1>1 DEF Plan, OwnPlan, Live
<1>4. OwnNames => NamePlan(r, tenant)
  BY DEF OwnNames, NamePlan, Live
<1> QED
  BY <1>1, <1>2, <1>3, <1>4, StartFollows DEF MembersInv

LEMMA ExaminationFollows ==
  ASSUME RegisterInv, MembersInv, NEW p \in Admin, NEW t \in Tenant,
         Approve(p, t) \/ Reject(p, t)
  PROVE  MembersInv'
<1>1. tenant[t] \in TenantRow /\ Live(t) /\ Reads
  BY LiveRow DEF RegisterInv, Approve, Reject, Reads
<1>2. CASE Approve(p, t)
  <2> DEFINE copy == [tenant[t] EXCEPT !.approved = TRUE, !.active = TRUE,
                                       !.stage = "active"]
             r == SaveThenTell(t, copy, "approved", NoOne, NoMember)
  <2>1. /\ copy \in TenantRow /\ copy.name = tenant[t].name /\ copy.row = tenant[t].row
        /\ copy.stage = "active" /\ "approved" \in Binding
    BY <1>1 DEF TenantRow, Stage, Binding
  <2>2. Starts(p, r)
    BY <1>2 DEF Approve
  <2> HIDE DEF copy
  <2>3. Suits(copy, "approved") /\ copy.row = "live"
    BY <1>1, <2>1 DEF Suits, Fits, Live
  <2>4. /\ r \in Request /\ r.op = "save" /\ r.t = t /\ r.m = NoOne /\ r.copy = copy
        /\ r.tell = "approved" /\ r.next = "tell"
    BY <2>1, SaveThenTellShape
  <2> HIDE DEF r
  <2> QED
    BY <1>1, <2>1, <2>2, <2>3, <2>4, VerdictFollows
<1>3. CASE Reject(p, t)
  <2> DEFINE copy == [tenant[t] EXCEPT !.approved = FALSE, !.active = FALSE,
                                       !.stage = "rejected"]
             r == SaveThenTell(t, copy, "rejected", NoOne, NoMember)
  <2>1. /\ copy \in TenantRow /\ copy.name = tenant[t].name /\ copy.row = tenant[t].row
        /\ copy.stage = "rejected" /\ "rejected" \in Binding
    BY <1>1 DEF TenantRow, Stage, Binding
  <2>2. Starts(p, r)
    BY <1>3 DEF Reject
  <2> HIDE DEF copy
  <2>3. Suits(copy, "rejected") /\ copy.row = "live"
    BY <1>1, <2>1 DEF Suits, Fits, Live
  <2>4. /\ r \in Request /\ r.op = "save" /\ r.t = t /\ r.m = NoOne /\ r.copy = copy
        /\ r.tell = "rejected" /\ r.next = "tell"
    BY <2>1, SaveThenTellShape
  <2> HIDE DEF r
  <2> QED
    BY <1>1, <2>1, <2>2, <2>3, <2>4, VerdictFollows
<1> QED
  BY <1>2, <1>3

\* Of the stages that members are not told of, each follows on stages whose members
\* suit it: only approved companies are disabled and expire.
LEMMA LifecycleFollows ==
  ASSUME RegisterInv, MembersInv, NEW p \in Admin, NEW t \in Tenant, NEW to \in Stage,
         NEW says \in BOOLEAN, UpdateTenantLifecycle(p, t, to, says)
  PROVE  MembersInv'
<1> DEFINE asked == [tenant[t] EXCEPT !.stage = to, !.approved = says]
           copy == Derived(asked)
           tell == CASE to = "active" -> "approved"
                     [] to = "rejected" -> "rejected"
                     [] OTHER -> "none"
           r == SaveThenTell(t, copy, tell, NoOne, NoMember)
<1>1. tenant[t] \in TenantRow /\ Live(t) /\ Reads
  BY LiveRow DEF RegisterInv, UpdateTenantLifecycle, Reads
<1>2. /\ asked \in TenantRow /\ asked.name = tenant[t].name /\ asked.row = tenant[t].row
      /\ asked.stage = to
  BY <1>1 DEF TenantRow
<1>3. copy \in TenantRow /\ copy.name = tenant[t].name /\ copy.row = "live" /\ copy.stage = to
  <2> HIDE DEF asked
  <2> QED
    BY <1>1, <1>2 DEF Derived, TenantRow, Live
<1>4. tell \in Binding /\ Starts(p, r)
  BY DEF Binding, UpdateTenantLifecycle
<1>5. to = tenant[t].stage \/ to \in AllowedTransitions[tenant[t].stage]
  BY DEF UpdateTenantLifecycle
<1>6. tell # "none" => Suits(copy, tell)
  <2> HIDE DEF copy
  <2> QED
    BY <1>3 DEF Suits, Fits
<1>7. tell = "none" => \A b \in Binding : Suits(tenant[t], b) => Suits(copy, b)
  <2>1. tenant[t].stage \in Stage /\ tenant[t].row = "live"
    BY <1>1 DEF TenantRow, Live
  <2>2. tell = "none" => to \in {"pending", "disabled", "expired"}
    BY DEF Stage
  <2>3. tell = "none" => \/ to = tenant[t].stage
                         \/ to = "pending" /\ tenant[t].stage = "rejected"
                         \/ to = "disabled" /\ tenant[t].stage = "active"
                         \/ to = "expired" /\ tenant[t].stage \in {"active", "disabled"}
    <3> HIDE DEF tell
    <3> QED
      BY <1>5, <2>1, <2>2 DEF AllowedTransitions, Stage
  <2> HIDE DEF copy, tell
  <2> QED
    BY <1>3, <2>1, <2>3 DEF Suits, Fits
<1> HIDE DEF copy, tell
<1>8. /\ r \in Request /\ r.op = "save" /\ r.t = t /\ r.m = NoOne /\ r.copy = copy
      /\ r.tell = tell /\ r.next = IF tell = "none" THEN "none" ELSE "tell"
  BY <1>3, <1>4, SaveThenTellShape
<1> HIDE DEF r
<1> QED
  BY <1>1, <1>3, <1>4, <1>6, <1>7, <1>8, VerdictFollows

\* A company that goes keeps its name.
LEMMA RemoveFollows ==
  ASSUME RegisterInv, MembersInv, NEW p \in Admin, NEW t \in Tenant, RemoveTenant(p, t)
  PROVE  MembersInv'
<1>1. tenant[t] \in TenantRow /\ Live(t) /\ Reads
  BY LiveRow DEF RegisterInv, RemoveTenant, Reads
<1> DEFINE copy == [tenant[t] EXCEPT !.stage = "disabled", !.active = FALSE]
           s == SaveThenTell(t, copy, "none", NoOne, NoMember)
           r == [s EXCEPT !.next = "drop"]
<1>2. /\ copy \in TenantRow /\ copy.stage = "disabled" /\ copy.name = tenant[t].name
      /\ copy.row = tenant[t].row
  BY <1>1 DEF TenantRow, Stage
<1>3. Starts(p, r)
  BY DEF RemoveTenant
<1> HIDE DEF copy
<1>4. /\ r \in Request /\ r.op = "save" /\ r.t = t /\ r.m = NoOne /\ r.copy = copy
      /\ r.next = "drop"
  BY <1>2 DEF SaveThenTell, Request, RequestShape, TenantSave, Binding
<1> HIDE DEF r
<1> QED
  BY <1>1, <1>2, <1>3, <1>4, VerdictFollows DEF Live

\* A new name waits for the commit.
LEMMA UpdateFollows ==
  ASSUME RegisterInv, MembersInv, NEW p \in Admin, NEW t \in Tenant, NEW n \in Name,
         NEW src \in {"platform", "miniapp"}, Update(p, t, n, src)
  PROVE  MembersInv'
<1>1. tenant[t] \in TenantRow /\ tenant[t] # NoTenant /\ Reads
  BY LiveRow DEF RegisterInv, Update, Reads
<1> DEFINE copy == [tenant[t] EXCEPT !.name = n, !.source = src]
           r == [op |-> "update", t |-> t, copy |-> copy, seen |-> tenant[t]]
<1>2. copy \in TenantRow /\ Flags(copy) = Flags(tenant[t]) /\ copy.row = tenant[t].row
  BY <1>1 DEF TenantRow, Flags
<1>3. Starts(p, r)
  BY DEF Update
<1> HIDE DEF copy
<1>4. r \in Request /\ r.op = "update" /\ r.t = t /\ r.seen = tenant[t]
  BY <1>1, <1>2 DEF Request, RequestShape
<1> HIDE DEF r
<1>5. ~OfMember(r) /\ ~Saves(r)
  BY <1>4 DEF OfMember, Saves
<1>6. Firms(r) \subseteq {t} /\ Plan(r, tenant) /\ NamePlan(r, tenant) /\ OwnPlan(r, member)
  BY <1>4, <1>5 DEF Firms, Plan, NamePlan, OwnPlan
<1> QED
  BY <1>1, <1>3, <1>4, <1>5, <1>6, StartFollows

\* Who applies again has a company, and is told with its other members; who applies
\* anew has none.
LEMMA ApplyFollows ==
  ASSUME RegisterInv, MembersInv, NEW p \in Admin, NEW m \in Member, NEW n \in Name,
         ApplyTenant(p, m, n)
  PROVE  MembersInv'
<1> DEFINE t == member[m].tenant
           again == t # NoOne /\ member[m].bind \in {"approved", "rejected"}
<1>1. /\ IsMember(m) /\ member[m] \in MemberRow /\ Reads /\ m # NoOne
      /\ m \in torn \/ Together(member[m])
      /\ t # NoOne => t \in Tenant /\ tenant[t] # NoTenant
  BY TenantAssumption, MembersRow DEF RegisterInv, ApplyTenant, MayApply, MembersInv,
     Bound, Known, Reads, MemberRow
<1>2. CASE again /\ MayResubmit(t, n)
           /\ Starts(p, SaveThenTell(t, Resubmitted(t, n), "pending", m,
                                     [member[m] EXCEPT !.bind = "pending"]))
  <2> DEFINE mcopy == [member[m] EXCEPT !.bind = "pending"]
             copy == Resubmitted(t, n)
             r == SaveThenTell(t, copy, "pending", m, mcopy)
  <2>1. t \in Tenant /\ tenant[t] \in TenantRow /\ NameFree(n, t) /\ Live(t)
    BY <1>1, <1>2, LiveRow DEF RegisterInv, MayResubmit
  <2>2. mcopy \in MemberRow /\ mcopy.bind = "pending" /\ mcopy.tenant = t
    BY <1>1 DEF MemberRow, Binding
  <2> HIDE DEF mcopy
  <2>0. t = member[m].tenant
    OBVIOUS
  <2> HIDE DEF t
  <2>3. /\ copy \in TenantRow /\ copy.name = n /\ copy.stage = "pending"
        /\ copy.row = tenant[t].row
    BY <2>1 DEF Resubmitted, TenantRow, Stage
  <2> HIDE DEF copy
  <2>4. /\ r \in Request /\ r.op = "save" /\ r.copy = copy /\ r.next = "tell"
        /\ r.t = t /\ r.m = m /\ r.tell = "pending" /\ r.mcopy = mcopy
    BY <2>1, <2>2, <2>3, SaveThenTellShape DEF Binding
  <2>6. Starts(p, r)
    BY <1>2 DEF mcopy, copy
  <2> HIDE DEF r
  <2>7. EndsAlike(r) /\ Together(r.mcopy) /\ Saves(r)
    BY <2>1, <2>2, <2>4, TenantAssumption DEF EndsAlike, Together, Saves
  <2>8. Firms(r) \subseteq {t}
    BY <2>2, <2>4 DEF Firms
  <2>9. Suits(copy, "pending") /\ Plan(r, tenant) /\ OwnPlan(r, member)
    BY <2>0, <2>1, <2>3, <2>4, <2>7 DEF Suits, Fits, Plan, OwnPlan, Live
  <2>10. NamePlan(r, tenant)
    BY <2>1, <2>3, <2>4 DEF NamePlan, NameFree, Live
  <2>11. tenant[t] # NoTenant
    BY <2>1, LiveRow DEF RegisterInv
  <2> QED
    BY <1>1, <2>4, <2>6, <2>7, <2>8, <2>9, <2>10, <2>11, StartFollows
<1>3. CASE ~again /\ NameFree(n, NoOne)
           /\ Starts(p, [op |-> "create", n |-> n, src |-> "miniapp", m |-> m,
                         mcopy |-> member[m]])
  <2> DEFINE r == [op |-> "create", n |-> n, src |-> "miniapp", m |-> m, mcopy |-> member[m]]
  <2>1. r \in Request /\ r.op = "create" /\ r.n = n /\ r.mcopy = member[m] /\ r.m = m
    BY <1>1 DEF Request, RequestShape
  <2>2. Starts(p, r)
    BY <1>3
  <2> HIDE DEF r
  <2>3. ~OfTenant(r) /\ ~Saves(r) /\ Plan(r, tenant)
    BY <2>1 DEF OfTenant, Plan, Saves
  <2>4. NamePlan(r, tenant)
    BY <1>3, <2>1, <2>3, TenantAssumption DEF NamePlan, NameFree, Live
  <2>5. Firms(r) \subseteq {t} \ {NoOne}
    BY <2>1, <2>3, TenantAssumption DEF Firms
  <2>6. ~overlapped => OwnPlan(r, member)
    <3> SUFFICES ASSUME ~overlapped, t # NoOne PROVE FALSE
      BY <2>1 DEF OwnPlan
    <3>1. Together(member[m])
      BY <1>1 DEF MembersInv
    <3>2. member[m].bind \in {"pending", "approved", "rejected"}
      BY <1>1, <3>1 DEF Together, MemberRow, Binding
    <3>3. member[m].bind # "pending"
      BY DEF ApplyTenant, MayApply
    <3> QED
      BY <1>3, <3>2, <3>3
  <2> QED
    BY <1>1, <2>1, <2>2, <2>3, <2>4, <2>5, <2>6, StartFollows
<1> QED
  BY <1>2, <1>3 DEF ApplyTenant

\* Whoever saves a member's copy has it say what the row says of the company.
LEMMA MemberReadFollows ==
  ASSUME RegisterInv, MembersInv, NEW p \in Admin, NEW m \in Member, NEW b \in BOOLEAN,
         UpdateProfile(p, m) \/ BindPhone(p, m) \/ SilentLogin(p, m, b)
           \/ UpdateMemberStatus(p, m, b)
  PROVE  MembersInv'
<1>1. PICK new \in BOOLEAN, copy \in MemberRow :
        /\ Starts(p, MemberSave(m, new, copy)) /\ Reads
        /\ \/ new /\ copy.tenant = NoOne /\ copy.bind = "none"
           \/ ~new /\ IsMember(m) /\ copy.tenant = member[m].tenant
              /\ copy.bind = member[m].bind
  BY MemberReads DEF RegisterInv
<1> DEFINE r == MemberSave(m, new, copy)
<1>2. /\ r \in Request /\ r.op = "member" /\ r.m = m /\ r.mcopy = copy /\ r.new = new
      /\ ~OfTenant(r) /\ ~Saves(r) /\ OfMember(r)
  BY MemberSaveShape
<1>3. Starts(p, r) /\ Reads
  BY <1>1
<1> HIDE DEF r
<1>4. copy.tenant # NoOne =>
        /\ copy.tenant \in Tenant /\ tenant[copy.tenant] # NoTenant
        /\ copy.tenant = member[m].tenant /\ copy.bind = member[m].bind
  BY <1>1 DEF MembersInv, Known, MemberRow
<1>5. /\ m \in torn \/ Together(copy)
      /\ NamePlan(r, tenant) /\ OwnPlan(r, member)
  BY <1>1, <1>2 DEF MembersInv, Bound, Together, NamePlan, OwnPlan
<1>6. /\ Firms(r) \subseteq {copy.tenant} \ {NoOne}
      /\ copy.tenant # NoOne => copy.tenant \in Firms(r)
  BY <1>2, <1>4, TenantAssumption DEF Firms
<1>7. (~overlapped /\ \A t \in Firms(r) : ~Awaited(t)) => Plan(r, tenant)
  BY <1>2, <1>4, <1>6 DEF MembersInv, MembersSuit, Plan
<1> QED
  BY <1>2, <1>3, <1>4, <1>5, <1>6, <1>7, StartFollows

-----------------------------------------------------------------------------
(* Requests that write a company's row *)

\* A request may write the row of a company it is about, or of one that is new, if what
\* it goes on with suits the new row, and its members do, or are about to be told.
LEMMA WriteFollows ==
  ASSUME RegisterInv, MembersInv, NEW p \in Admin, NEW r \in Request, Goes(p, r),
         NEW t \in Tenant, t \in Firms(req[p]) \/ tenant[t] = NoTenant,
         NEW row \in TenantRow, tenant' = [tenant EXCEPT ![t] = row],
         UNCHANGED <<member, overlapped>>, renamed => renamed',
         torn \subseteq torn', ~overlapped => torn' = torn,
         req[p].op # "tell", req[p].op = "drop" => req[p].t = t, r.op # "patch",
         Firms(r) \subseteq Firms(req[p]) \union {t}, Labels(r) \subseteq Labels(req[p]),
         Persons(r) \subseteq Persons(req[p]),
         OfMember(r) => r.m \in torn' \/ Together(r.mcopy),
         (~overlapped /\ row.row = "live") => row.name \in Labels(req[p]),
         ~overlapped => Plan(r, tenant') /\ OwnPlan(r, member),
         ~overlapped =>
           \A b \in Binding \ {"none"} :
             \/ tenant[t] = NoTenant
             \/ r.op \in {"tell", "drop"} /\ r.t = t
             \/ (req[p].op = "drop" \/ Suits(tenant[t], b)) => Suits(row, b),
         ~(overlapped \/ renamed') => NamePlan(r, tenant'),
         ~(overlapped \/ renamed') =>
           \A u \in Tenant \ {t} : (row.row = "live" /\ Live(u)) => tenant[u].name # row.name
  PROVE  MembersInv'
<1>1. /\ \A u \in Tenant : tenant'[u] = IF u = t THEN row ELSE tenant[u]
      /\ \A q \in Admin : req'[q] = IF q = p THEN r ELSE req[q]
      /\ \A q \in Admin : req[q] \in Request
      /\ row # NoTenant
  BY DEF Goes, RegisterInv, TenantsShape, TenantRow, NoTenant
<1>2. Bound' /\ Known'
  <2>1. \A u \in Firms(r) : tenant'[u] # NoTenant
    BY <1>1 DEF MembersInv, Known, Firms
  <2> QED
    BY <1>1, <2>1, BoundStays
<1>4. ASSUME ~overlapped, NEW q \in Admin, q # p
      PROVE  t \notin Firms(req[q])
  BY <1>4 DEF MembersInv, Known, Uncrossed, Apart
<1>5. ~overlapped => Uncrossed'
  BY ApartStays
<1>6. ~overlapped => PlansSuit'
  <2> SUFFICES ASSUME ~overlapped PROVE PlansSuit'
    OBVIOUS
  <2>1. Plan(req'[p], tenant') /\ OwnPlan(req'[p], member')
    BY <1>1
  <2>2. ASSUME NEW q \in Admin, q # p PROVE Plan(req'[q], tenant') /\ OwnPlan(req'[q], member')
    <3>1. /\ req[q] \in Request /\ req'[q] = req[q] /\ Plan(req[q], tenant)
          /\ t \notin Firms(req[q]) /\ OwnPlan(req[q], member)
      BY <1>1, <1>4, <2>2 DEF MembersInv, PlansSuit
    <3>2. \A u \in Tenant : u # t => tenant'[u] = tenant[u]
      BY <1>1
    <3> DEFINE s == req[q]
               reg == tenant
               reg2 == tenant'
    <3>3. s \in Request /\ req'[q] = s /\ Plan(s, reg) /\ t \notin Firms(s)
      BY <3>1
    <3>4. \A u \in Tenant : u # t => reg2[u] = reg[u]
      BY <3>2
    <3>6. OwnPlan(s, member)
      BY <3>1
    <3> HIDE DEF s, reg, reg2
    <3>5. Plan(s, reg2)
      BY <3>3, <3>4, PlanStays
    <3> QED
      BY <3>3, <3>5, <3>6 DEF reg2
  <2> QED
    BY <2>1, <2>2 DEF PlansSuit
<1>7. ~overlapped => MembersSuit'
  <2> SUFFICES ASSUME ~overlapped, NEW m \in Member, member[m].tenant # NoOne,
                      ~Awaited(member[m].tenant)'
               PROVE  Suits(tenant'[member[m].tenant], member[m].bind)
    BY DEF MembersSuit
  <2> DEFINE u == member[m].tenant
             b == member[m].bind
  <2>1. u \in Tenant /\ tenant[u] # NoTenant /\ b \in Binding \ {"none"}
    BY HasACompany DEF MembersInv
  <2>2. \A q \in Admin : ~(req'[q].op \in {"tell", "drop"} /\ req'[q].t = u)
    BY DEF Awaited
  <2>3. ~Awaited(u) => Suits(tenant[u], b)
    BY DEF MembersInv, MembersSuit
  <2>4. \A q \in Admin : q # p => ~(req[q].op \in {"tell", "drop"} /\ req[q].t = u)
    BY <1>1, <2>2
  <2> HIDE DEF u, b
  <2>5. CASE u # t
    <3>1. ~Awaited(u)
      BY <2>4, <2>5 DEF Awaited
    <3> QED
      BY <1>1, <2>1, <2>3, <2>5, <3>1 DEF u, b
  <2>6. CASE u = t
    <3>1. req[p].op # "drop" => ~Awaited(u)
      BY <2>4 DEF Awaited
    <3>2. ~(r.op \in {"tell", "drop"} /\ r.t = t)
      BY <1>1, <2>2, <2>6
    <3>3. Suits(row, b)
      BY <2>1, <2>3, <2>6, <3>1, <3>2
    <3> QED
      BY <1>1, <2>6, <3>3 DEF u, b
  <2> QED
    BY <2>5, <2>6
<1>8. ~(overlapped \/ renamed') => OwnNames'
  BY <1>1 DEF MembersInv, OwnNames, Live
<1>9. ~(overlapped \/ renamed') => NamesFree'
  <2> SUFFICES ASSUME ~overlapped, ~renamed' PROVE NamesFree'
    OBVIOUS
  <2>1. NamePlan(req'[p], tenant')
    BY <1>1
  <2>2. ASSUME NEW q \in Admin, q # p PROVE NamePlan(req'[q], tenant')
    <3>1. /\ req[q] \in Request /\ req'[q] = req[q] /\ NamePlan(req[q], tenant)
          /\ t \notin Firms(req[q])
      BY <1>1, <1>4, <2>2 DEF MembersInv, NamesFree
    <3>2. \A u \in Tenant : u # t => tenant'[u] = tenant[u]
      BY <1>1
    <3>3. tenant'[t].row = "live" => tenant'[t].name \notin Labels(req[q])
      BY <1>1, <2>2 DEF MembersInv, Uncrossed, Apart
    <3> DEFINE s == req[q]
               reg == tenant
               reg2 == tenant'
    <3>4. s \in Request /\ req'[q] = s /\ NamePlan(s, reg) /\ t \notin Firms(s)
      BY <3>1
    <3>5. (\A u \in Tenant : u # t => reg2[u] = reg[u])
            /\ (reg2[t].row = "live" => reg2[t].name \notin Labels(s))
      BY <3>2, <3>3
    <3> HIDE DEF s, reg, reg2
    <3>6. NamePlan(s, reg2)
      BY <3>4, <3>5, NamePlanStays
    <3> QED
      BY <3>4, <3>6 DEF reg2
  <2> QED
    BY <2>1, <2>2 DEF NamesFree
<1>10. ~overlapped' => torn' = {}
  BY DEF MembersInv
<1> QED
  BY <1>2, <1>5, <1>6, <1>7, <1>8, <1>9, <1>10 DEF MembersInv

\* A new company is pending, and so is the member who applied for it.
LEMMA CreateFollows ==
  ASSUME RegisterInv, MembersInv, NEW p \in Admin, NEW t \in Tenant, Create(p, t)
  PROVE  MembersInv'
<1> DEFINE n == req[p].n
           row == NewTenant(n, req[p].src)
           mcopy == [req[p].mcopy EXCEPT !.tenant = t, !.bind = "pending"]
           r == IF req[p].m = NoOne THEN NoReq ELSE MemberSave(req[p].m, FALSE, mcopy)
<1>1. /\ req[p] \in Request /\ req[p].op = "create" /\ req[p].n \in Name
      /\ req[p].src \in {"platform", "miniapp"} /\ req[p].m \in Member \union {NoOne}
      /\ n \in Labels(req[p])
      /\ req[p].m # NoOne => req[p].mcopy \in MemberRow /\ Persons(req[p]) = {req[p].m}
  BY RequestKinds DEF RegisterInv, TenantsShape, Create, Labels, Persons, OfMember
<1>2. row \in TenantRow /\ row.stage = "pending" /\ row.name = n
  BY <1>1 DEF NewTenant, TenantRow, Stage
<1>3. req[p].m # NoOne =>
        mcopy \in MemberRow /\ mcopy.tenant = t /\ mcopy.bind = "pending"
  BY <1>1 DEF MemberRow, Binding
<1>4. /\ r \in Request /\ ~OfTenant(r) /\ ~Saves(r)
      /\ r = NoReq \/ /\ r.op = "member" /\ r.mcopy.tenant = t /\ r.mcopy.bind = "pending"
                      /\ ~r.new /\ r.m = req[p].m /\ req[p].m # NoOne
  <2> HIDE DEF mcopy
  <2>1. CASE req[p].m = NoOne
    BY <2>1, NoReqShape
  <2>2. CASE req[p].m # NoOne
    <3>1. req[p].m \in Member /\ mcopy \in MemberRow /\ mcopy.tenant = t /\ mcopy.bind = "pending"
      BY <1>1, <1>3, <2>2
    <3>2. r = MemberSave(req[p].m, FALSE, mcopy)
      BY <2>2
    <3> HIDE DEF r
    <3>3. /\ r \in Request /\ r.op = "member" /\ r.m = req[p].m /\ r.mcopy = mcopy
          /\ ~r.new /\ ~OfTenant(r) /\ ~Saves(r)
      BY <3>1, <3>2 DEF MemberSave, Request, RequestShape, OfTenant, Saves
    <3> QED
      BY <2>2, <3>1, <3>3
  <2> QED
    BY <2>1, <2>2
<1>5. /\ Goes(p, r) /\ tenant' = [tenant EXCEPT ![t] = row] /\ tenant[t] = NoTenant
      /\ UNCHANGED <<member, overlapped, renamed, torn>>
  BY DEF Create
<1> HIDE DEF n, row, r
<1>6. /\ Labels(r) = {} /\ Firms(r) \subseteq {t} /\ (OfMember(r) => Together(r.mcopy))
      /\ Persons(r) \subseteq Persons(req[p]) /\ r.op \notin {"patch", "tell", "drop"}
  BY <1>1, <1>4, NoPlans, NoReqShape, TenantAssumption
     DEF Labels, Firms, OfTenant, OfMember, Together, Persons
<1>7. tenant'[t] = row
  BY <1>5 DEF RegisterInv, TenantsShape
<1>8. Plan(r, tenant') /\ NamePlan(r, tenant')
  BY <1>2, <1>4, <1>7, NoPlans DEF Plan, Suits, Fits, NamePlan
<1>9. ~overlapped => OwnPlan(r, member)
  <2>1. ~overlapped => OwnPlan(req[p], member)
    BY DEF MembersInv, PlansSuit
  <2> QED
    BY <1>1, <1>4, <2>1, NoPlans DEF OwnPlan
<1>10. ~(overlapped \/ renamed) => \A u \in Tenant : Live(u) => tenant[u].name # n
  BY <1>1 DEF MembersInv, NamesFree, NamePlan, Live, n
<1> QED
  BY <1>1, <1>2, <1>4, <1>5, <1>6, <1>8, <1>9, <1>10, WriteFollows

\* A copy is saved as planned, and the members are told then or need not be.
LEMMA WriteTenantFollows ==
  ASSUME RegisterInv, MembersInv, NEW p \in Admin, WriteTenant(p)
  PROVE  MembersInv'
<1> DEFINE q == req[p]
           t == q.t
           row == Patched(tenant[t], q.seen, q.copy)
           r == IF q.next = "none" THEN NoReq ELSE [q EXCEPT !.op = q.next, !.seen = NoTenant]
<1>1. q \in Request /\ q.op = "write" /\ OfTenant(q) /\ Saves(q)
  BY DEF RegisterInv, TenantsShape, WriteTenant, OfTenant, Saves
<1>2. /\ t \in Tenant /\ q.copy \in TenantRow /\ q.seen \in TenantRow
      /\ q.next \in {"none", "tell", "drop"} /\ (q.next = "tell" => q.tell # "none")
      /\ q.next = "drop" => q.m = NoOne
  BY <1>1, RequestKinds
<1>3. tenant[t] \in TenantRow
  BY <1>1, <1>2 DEF RegisterInv, TenantsShape, Stands
<1>4. row \in TenantRow /\ (tenant[t] = q.seen => row = q.copy)
  BY <1>2, <1>3, PatchedTenant
<1>5. /\ tenant' = [tenant EXCEPT ![t] = row] /\ Goes(p, r)
      /\ UNCHANGED <<member, overlapped, renamed>>
      /\ torn \subseteq torn' /\ (tenant[t] = q.seen => torn' = torn)
  BY DEF WriteTenant
<1>6. ~overlapped => Plan(q, tenant) /\ OwnPlan(q, member)
  BY DEF MembersInv, PlansSuit
<1>7. ~overlapped => row = q.copy /\ torn' = torn
  BY <1>1, <1>4, <1>5, <1>6 DEF Plan
<1>8. /\ r \in Request /\ ~Saves(r)
      /\ q.next = "none" => r = NoReq
      /\ q.next # "none" => /\ r.op = q.next /\ r.t = t /\ r.copy = q.copy /\ r.tell = q.tell
                            /\ r.m = q.m /\ r.mcopy = q.mcopy /\ r.op \in {"tell", "drop"}
  BY <1>1, Onwards
<1>9. t \in Firms(q) /\ q.copy.name \in Labels(q)
  BY <1>1, <1>2 DEF Firms, Labels, TenantRow
<1> HIDE DEF r, row
<1>10. /\ Firms(r) \subseteq Firms(q) /\ Labels(r) \subseteq Labels(q)
       /\ Persons(r) \subseteq Persons(q)
  <2>1. CASE q.next = "none"
    BY <1>8, <2>1, NoPlans
  <2>2. CASE q.next # "none"
    <3> HIDE DEF q
    <3>1. /\ OfTenant(r) => r.t = q.t
          /\ OfMember(r) => OfMember(q) /\ r.m = q.m /\ r.mcopy = q.mcopy
      BY <1>1, <1>2, <1>8, <2>2 DEF OfMember
    <3>2. r.op = "tell" \/ r.op = "drop"
      BY <1>8, <2>2
    <3>3. Firms(r) \subseteq Firms(q)
      BY <1>1, <3>1 DEF Firms
    <3>4. Labels(r) \subseteq Labels(q)
      BY <1>1, <1>8, <2>2, <3>2 DEF Labels
    <3>5. Persons(r) \subseteq Persons(q)
      BY <3>1 DEF Persons
    <3> QED
      BY <3>3, <3>4, <3>5
  <2> QED
    BY <2>1, <2>2
<1>11. OfMember(r) => r.m \in torn' \/ Together(r.mcopy)
  <2>1. OfMember(r) => OfMember(q) /\ r.m = q.m /\ r.mcopy = q.mcopy
    BY <1>1, <1>2, <1>8, NoReqShape DEF OfMember
  <2> QED
    BY <1>5, <2>1 DEF MembersInv, Bound, HoldsTogether
<1>12. tenant'[t] = row
  BY <1>2, <1>5 DEF RegisterInv, TenantsShape
<1>13. ~overlapped => Plan(r, tenant') /\ OwnPlan(r, member)
  <2> SUFFICES ASSUME ~overlapped PROVE Plan(r, tenant') /\ OwnPlan(r, member)
    OBVIOUS
  <2>1. CASE q.next = "none"
    BY <1>8, <2>1, NoPlans
  <2>2. CASE q.next = "tell"
    BY <1>1, <1>6, <1>7, <1>8, <1>12, <2>2 DEF Plan, OwnPlan, EndsAlike
  <2>3. CASE q.next = "drop"
    BY <1>1, <1>6, <1>7, <1>8, <1>12, <2>3 DEF Plan, OwnPlan
  <2> QED
    BY <1>2, <2>1, <2>2, <2>3
<1>14. ~overlapped =>
         \A b \in Binding : \/ r.op \in {"tell", "drop"} /\ r.t = t
                            \/ Suits(tenant[t], b) => Suits(row, b)
  BY <1>1, <1>2, <1>6, <1>7, <1>8 DEF Plan
<1>15. NamePlan(r, tenant')
  BY <1>2, <1>8, NoPlans DEF NamePlan
<1>16. ~(overlapped \/ renamed) => \A u \in Tenant \ {t} : Live(u) => tenant[u].name # row.name
  BY <1>1, <1>7 DEF MembersInv, NamesFree, NamePlan, Live
<1>17. r.op # "patch" /\ q.op # "tell" /\ q.op # "drop"
  BY <1>1, <1>2, <1>8, NoReqShape
<1> HIDE DEF t
<1> QED
  BY <1>2, <1>4, <1>5, <1>7, <1>8, <1>9, <1>10, <1>11, <1>13, <1>14, <1>15, <1>16, <1>17,
     WriteFollows

\* What members have been told suits the stage and the mark, which an update leaves.
LEMMA CommitUpdateFollows ==
  ASSUME RegisterInv, MembersInv, NEW p \in Admin, CommitUpdate(p)
  PROVE  MembersInv'
<1> DEFINE q == req[p]
           t == q.t
           row == Patched(tenant[t], q.seen, q.copy)
<1>1. q \in Request /\ q.op = "update" /\ OfTenant(q)
  BY DEF RegisterInv, TenantsShape, CommitUpdate, OfTenant
<1>2. /\ t \in Tenant /\ q.copy \in TenantRow /\ q.seen \in TenantRow
      /\ Flags(q.copy) = Flags(q.seen) /\ q.copy.row = q.seen.row
  BY <1>1, RequestKinds
<1>3. tenant[t] \in TenantRow /\ tenant[t] # NoTenant
  BY <1>1, <1>2 DEF RegisterInv, TenantsShape, Stands
<1>4. /\ row \in TenantRow /\ Flags(row) = Flags(tenant[t]) /\ row.row = tenant[t].row
      /\ q.copy.name = q.seen.name => row.name = tenant[t].name
  BY <1>2, <1>3, PatchedTenant
<1>5. /\ Goes(p, NoReq) /\ tenant' = [tenant EXCEPT ![t] = row]
      /\ UNCHANGED <<member, overlapped, torn>> /\ (renamed => renamed')
      /\ ~renamed' => q.copy.name = q.seen.name
  BY DEF CommitUpdate
<1>6. ~overlapped => tenant[t] = q.seen /\ row = q.copy
  BY <1>1, <1>2, <1>3, PatchedTenant DEF MembersInv, PlansSuit, Plan
<1>7. t \in Firms(q) /\ q.copy.name \in Labels(q)
  BY <1>1, <1>2 DEF Firms, Labels, TenantRow
<1> HIDE DEF row
<1>8. \A b \in Binding : Suits(tenant[t], b) => Suits(row, b)
  <2>1. row.stage = tenant[t].stage
    BY <1>4 DEF Flags
  <2> HIDE DEF t
  <2> QED
    BY <1>4, <2>1 DEF Suits
<1>9. ~(overlapped \/ renamed') =>
        \A u \in Tenant \ {t} : (row.row = "live" /\ Live(u)) => tenant[u].name # row.name
  <2> SUFFICES ASSUME ~overlapped, ~renamed', NEW u \in Tenant \ {t}, row.row = "live", Live(u)
               PROVE  tenant[u].name # row.name
    OBVIOUS
  <2>1. OwnNames /\ Live(t) /\ tenant[t].name = row.name
    BY <1>4, <1>5 DEF MembersInv, Live
  <2> HIDE DEF t
  <2> QED
    BY <1>2, <2>1 DEF OwnNames
<1>10. NoReq \in Request /\ ~OfMember(NoReq) /\ NoReq.op = "none"
  BY NoReqShape
<1>11. /\ Firms(NoReq) = {} /\ Labels(NoReq) = {} /\ Persons(NoReq) = {}
       /\ Plan(NoReq, tenant') /\ NamePlan(NoReq, tenant') /\ OwnPlan(NoReq, member)
  BY NoPlans
<1> HIDE DEF t
<1> QED
  BY <1>1, <1>2, <1>4, <1>5, <1>6, <1>7, <1>8, <1>9, <1>10, <1>11, WriteFollows

LEMMA SoftDeleteFollows ==
  ASSUME RegisterInv, MembersInv, NEW p \in Admin, SoftDelete(p)
  PROVE  MembersInv'
<1> DEFINE t == req[p].t
           row == [tenant[t] EXCEPT !.row = "gone"]
<1>1. req[p] \in Request /\ req[p].op = "drop" /\ OfTenant(req[p])
  BY DEF RegisterInv, TenantsShape, SoftDelete, OfTenant
<1>2. t \in Tenant /\ t \in Firms(req[p])
  BY <1>1, RequestKinds DEF Firms
<1>3. tenant[t] \in TenantRow
  BY <1>1, <1>2 DEF RegisterInv, TenantsShape, Stands
<1>4. /\ Goes(p, NoReq) /\ tenant' = [tenant EXCEPT ![t] = row]
      /\ UNCHANGED <<member, overlapped, renamed, torn>> /\ req[p].t = t
  BY DEF SoftDelete
<1>5. ~overlapped => tenant[t].stage = "disabled"
  BY <1>1 DEF MembersInv, PlansSuit, Plan
<1> HIDE DEF t
<1>6. row \in TenantRow /\ row.row = "gone" /\ row.stage = tenant[t].stage
  BY <1>3 DEF TenantRow
<1> HIDE DEF row
<1>7. ~overlapped => \A b \in Binding \ {"none"} : Suits(row, b)
  BY <1>5, <1>6 DEF Suits, Fits, Binding
<1>8. NoReq \in Request /\ ~OfMember(NoReq) /\ NoReq.op = "none"
  BY NoReqShape
<1>9. /\ Firms(NoReq) = {} /\ Labels(NoReq) = {} /\ Persons(NoReq) = {}
      /\ Plan(NoReq, tenant') /\ NamePlan(NoReq, tenant') /\ OwnPlan(NoReq, member)
  BY NoPlans
<1> QED
  BY <1>1, <1>2, <1>4, <1>6, <1>7, <1>8, <1>9, WriteFollows

-----------------------------------------------------------------------------
(* Requests that leave the companies' rows alone *)

\* What has to be seen is that the members' rows hold together and suit their companies,
\* and what the request goes on with.
LEMMA StepFollows ==
  ASSUME RegisterInv, MembersInv, NEW p \in Admin, NEW r \in Request, Goes(p, r),
         UNCHANGED <<tenant, renamed>>, overlapped => overlapped',
         torn \subseteq torn', ~overlapped' => torn' = torn,
         Firms(r) \subseteq Firms(req[p]), Labels(r) \subseteq Labels(req[p]),
         Persons(r) \subseteq Persons(req[p]),
         OfMember(r) => r.m \in torn' \/ (Together(r.mcopy) /\ (r.op = "patch" => Together(r.seen))),
         ~overlapped' => Plan(r, tenant) /\ OwnPlan(r, member'),
         ~overlapped' => \A q \in Admin \ {p} : OwnPlan(req[q], member'),
         ~(overlapped \/ renamed) => NamePlan(r, tenant),
         \A m \in Member :
           \/ member'[m] = member[m]
           \/ /\ m \in torn' \/ Together(member'[m])
              /\ member'[m].tenant # NoOne => tenant[member'[m].tenant] # NoTenant,
         ~overlapped' => MembersSuit'
  PROVE  MembersInv'
<1>1. /\ \A q \in Admin : req'[q] = IF q = p THEN r ELSE req[q]
      /\ \A u \in Firms(r) : tenant[u] # NoTenant
  BY DEF Goes, RegisterInv, TenantsShape, MembersInv, Known
<1>2. Bound' /\ Known'
  BY <1>1, BoundStays
<1>3. ~overlapped' => Uncrossed' /\ PlansSuit' /\ torn' = {}
  <2> SUFFICES ASSUME ~overlapped' PROVE Uncrossed' /\ PlansSuit' /\ torn' = {}
    OBVIOUS
  <2>1. ~overlapped /\ PlansSuit /\ torn' = {}
    BY DEF MembersInv
  <2>2. Uncrossed'
    BY <2>1, ApartStays
  <2>3. PlansSuit'
    BY <1>1, <2>1 DEF PlansSuit
  <2> QED
    BY <2>1, <2>2, <2>3
<1>4. ~(overlapped' \/ renamed') => OwnNames' /\ NamesFree'
  BY NamesStay
<1> QED
  BY <1>2, <1>3, <1>4 DEF MembersInv

\* Members suit their companies as before when nobody was told and nobody is to be.
LEMMA SuitStays ==
  ASSUME RegisterInv, MembersInv, ~overlapped, NEW p \in Admin, NEW r, Goes(p, r),
         req[p].op \notin {"tell", "drop"}, tenant' = tenant,
         NEW one \in Member, \A m \in Member \ {one} : member'[m] = member[m],
         \/ member'[one] = member[one]
         \/ member'[one].tenant # NoOne =>
              Suits(tenant[member'[one].tenant], member'[one].bind)
  PROVE  MembersSuit'
<1> SUFFICES ASSUME NEW m \in Member, member'[m].tenant # NoOne,
                    \A q \in Admin : ~(req'[q].op \in {"tell", "drop"}
                                       /\ req'[q].t = member'[m].tenant)
             PROVE  Suits(tenant[member'[m].tenant], member'[m].bind)
  BY DEF MembersSuit, Awaited
<1>1. CASE member'[m] = member[m]
  <2>1. ~Awaited(member[m].tenant)
    BY <1>1 DEF Awaited, Goes, RegisterInv, TenantsShape
  <2> QED
    BY <1>1, <2>1 DEF MembersInv, MembersSuit
<1>2. CASE member'[m] # member[m]
  BY <1>2
<1> QED
  BY <1>1, <1>2

\* The row that save has selected is the one the plan was made for.
LEMMA SelectTenantFollows ==
  ASSUME RegisterInv, MembersInv, NEW p \in Admin, SelectTenant(p)
  PROVE  MembersInv'
<1> DEFINE q == req[p]
           t == q.t
           r == [q EXCEPT !.op = "write", !.seen = tenant[t]]
<1>1. q \in Request /\ q.op = "save" /\ OfTenant(q) /\ Saves(q)
  BY DEF RegisterInv, TenantsShape, SelectTenant, OfTenant, Saves
<1>2. t \in Tenant /\ q \in TenantSave
  BY <1>1, RequestKinds
<1>3. tenant[t] \in TenantRow
  BY <1>1, <1>2 DEF RegisterInv, TenantsShape, Stands
<1>4. Goes(p, r) /\ UNCHANGED <<tenant, member, overlapped, renamed, torn>>
  BY DEF SelectTenant
<1>5. /\ r.op = "write" /\ r.t = t /\ r.copy = q.copy /\ r.m = q.m
      /\ r.mcopy = q.mcopy /\ r.next = q.next /\ r.tell = q.tell
      /\ r.seen = tenant[t] /\ r \in TenantSave
  BY <1>2, <1>3 DEF TenantSave
<1> HIDE DEF r
<1>6. r \in Request
  BY <1>1, <1>3, <1>5 DEF Request, RequestShape
<1>7. Firms(r) \subseteq Firms(q) /\ Labels(r) \subseteq Labels(q) /\ Persons(r) \subseteq Persons(q)
  <2>1. OfMember(r) => OfMember(q)
    BY <1>1, <1>5 DEF OfMember
  <2>2. Firms(r) \subseteq Firms(q)
    BY <1>1, <1>5, <2>1 DEF Firms
  <2>3. Labels(r) \subseteq Labels(q)
    BY <1>1, <1>5 DEF Labels
  <2>4. Persons(r) \subseteq Persons(q)
    BY <1>5, <2>1 DEF Persons
  <2> QED
    BY <2>2, <2>3, <2>4
<1>8. OfMember(r) => r.m \in torn \/ Together(r.mcopy)
  BY <1>1, <1>5 DEF OfMember, MembersInv, Bound, HoldsTogether
<1>9. ~overlapped => /\ Plan(r, tenant) /\ OwnPlan(r, member)
                     /\ \A s \in Admin : OwnPlan(req[s], member)
  <2>1. ~overlapped => \A s \in Admin : Plan(req[s], tenant) /\ OwnPlan(req[s], member)
    BY DEF MembersInv, PlansSuit
  <2>2. Plan(q, tenant) => Plan(r, tenant)
    BY <1>1, <1>5 DEF Plan, Saves, EndsAlike
  <2>3. OwnPlan(q, member) => OwnPlan(r, member)
    BY <1>1, <1>5 DEF OwnPlan
  <2> QED
    BY <2>1, <2>2, <2>3
<1>10. ~(overlapped \/ renamed) => NamePlan(r, tenant)
  BY <1>1, <1>5 DEF MembersInv, NamesFree, NamePlan, Saves
<1>11. ~overlapped => MembersSuit'
  <2>1. \A u : Awaited(u)' => Awaited(u)
    BY <1>4, <1>5 DEF Awaited, Goes, RegisterInv, TenantsShape
  <2>2. \A u : Awaited(u) => Awaited(u)'
    BY <1>1, <1>4 DEF Awaited, Goes, RegisterInv, TenantsShape
  <2> QED
    BY <1>4, <2>1, <2>2 DEF MembersInv, MembersSuit
<1>12. r.op # "patch"
  BY <1>5
<1> HIDE DEF t
<1> QED
  BY <1>4, <1>6, <1>7, <1>8, <1>9, <1>10, <1>11, <1>12, StepFollows

\* All members of the company are told what suits it, and so is the copy to be saved.
LEMMA TellFollows ==
  ASSUME RegisterInv, MembersInv, NEW p \in Admin, SyncMiniappTenantBindStatus(p)
  PROVE  MembersInv'
<1> DEFINE q == req[p]
           t == q.t
           tell == q.tell
           r == IF q.m = NoOne THEN NoReq ELSE MemberSave(q.m, FALSE, q.mcopy)
<1>1. /\ q \in Request /\ q.op = "tell" /\ OfTenant(q)
      /\ t \in Tenant /\ tell \in Binding \ {"none"}
  <2>1. q \in Request /\ q.op = "tell"
    BY DEF RegisterInv, TenantsShape, SyncMiniappTenantBindStatus
  <2> QED
    BY <2>1, RequestKinds DEF OfTenant
<1>2. q.m # NoOne =>
        /\ OfMember(q) /\ q.m \in Member /\ q.mcopy \in MemberRow
        /\ q.m \in torn \/ Together(q.mcopy)
  BY <1>1, RequestKinds DEF OfMember, MembersInv, Bound, HoldsTogether
<1>3. /\ Goes(p, r) /\ UNCHANGED <<tenant, overlapped, renamed, torn>>
      /\ member' = [m \in Member |-> IF m \in Told(t) THEN [member[m] EXCEPT !.bind = tell]
                                     ELSE member[m]]
  BY DEF SyncMiniappTenantBindStatus
<1>4. /\ r \in Request /\ ~OfTenant(r) /\ ~Saves(r)
      /\ r = NoReq \/ /\ r.op = "member" /\ r.mcopy = q.mcopy /\ ~r.new /\ r.m = q.m
                      /\ q.m # NoOne
  <2>1. CASE q.m = NoOne
    BY <2>1, NoReqShape
  <2>2. CASE q.m # NoOne
    <3>1. r = MemberSave(q.m, FALSE, q.mcopy)
      BY <2>2
    <3> HIDE DEF r
    <3>2. /\ r \in Request /\ r.op = "member" /\ r.m = q.m /\ r.mcopy = q.mcopy /\ ~r.new
          /\ ~OfTenant(r) /\ ~Saves(r)
      BY <1>2, <2>2, <3>1 DEF MemberSave, Request, RequestShape, OfTenant, Saves
    <3> QED
      BY <2>2, <3>2
  <2> QED
    BY <2>1, <2>2
<1> HIDE DEF r
<1>5. Firms(r) \subseteq Firms(q) /\ Labels(r) = {} /\ Persons(r) \subseteq Persons(q)
  <2>1. CASE r = NoReq
    BY <2>1, NoPlans
  <2>2. CASE r # NoReq
    <3>1. /\ r.op = "member" /\ r.mcopy = q.mcopy /\ r.m = q.m /\ OfMember(q)
      BY <1>2, <1>4, <2>2
    <3>2. Labels(r) = {}
      BY <3>1 DEF Labels
    <3>3. Firms(r) \subseteq Firms(q)
      BY <1>4, <3>1 DEF Firms
    <3>4. Persons(r) \subseteq Persons(q)
      BY <3>1 DEF Persons
    <3> QED
      BY <3>2, <3>3, <3>4
  <2> QED
    BY <2>1, <2>2
<1>6. ~overlapped => /\ Suits(tenant[t], tell) /\ EndsAlike(q) /\ OwnPlan(q, member)
  BY <1>1 DEF MembersInv, PlansSuit, Plan
<1>7. ~overlapped => Plan(r, tenant)
  BY <1>4, <1>6, NoPlans DEF Plan, EndsAlike
<1>8. NamePlan(r, tenant) /\ r.op # "patch"
  BY <1>4, NoPlans, NoReqShape DEF NamePlan
<1>9. t # NoOne /\ t \in Firms(q) /\ tenant[t] # NoTenant
  <2>1. t \in Firms(q)
    BY <1>1 DEF Firms
  <2> QED
    BY <1>1, <2>1, TenantAssumption DEF MembersInv, Known
<1>10. ASSUME NEW m \in Member
       PROVE  \/ /\ member[m].tenant = t /\ member'[m].tenant = t /\ member'[m].bind = tell
              \/ member[m].tenant # t /\ member'[m] = member[m]
  <2>1. CASE m \in Told(t)
    <3>1. member[m].tenant = t /\ member[m] \in MemberRow
      BY <1>9, <2>1, MembersRow DEF Told, RegisterInv
    <3>2. member'[m] = [member[m] EXCEPT !.bind = tell]
      BY <1>3, <2>1
    <3> QED
      BY <3>1, <3>2 DEF MemberRow
  <2>2. CASE m \notin Told(t)
    BY <1>3, <2>2 DEF Told
  <2> QED
    BY <2>1, <2>2
<1>11. ASSUME NEW m \in Member
       PROVE  \/ member'[m] = member[m]
              \/ /\ Together(member'[m])
                 /\ member'[m].tenant # NoOne => tenant[member'[m].tenant] # NoTenant
  BY <1>1, <1>9, <1>10 DEF Together
<1>12. ~overlapped => OwnPlan(r, member')
  <2> SUFFICES ASSUME ~overlapped, r # NoReq PROVE OwnPlan(r, member')
    BY NoPlans
  <2>1. r.op = "member" /\ r.mcopy.tenant = t /\ r.m \in Member /\ member[r.m].tenant = t
    BY <1>1, <1>2, <1>4, <1>6 DEF EndsAlike, OwnPlan
  <2> QED
    BY <1>10, <2>1 DEF OwnPlan
<1>13. ~overlapped => \A s \in Admin \ {p} : OwnPlan(req[s], member')
  <2> SUFFICES ASSUME ~overlapped, NEW s \in Admin, s # p PROVE OwnPlan(req[s], member')
    OBVIOUS
  <2>1. req[s] \in Request /\ OwnPlan(req[s], member) /\ t \notin Firms(req[s])
    BY <1>9 DEF RegisterInv, TenantsShape, MembersInv, PlansSuit, Uncrossed, Apart
  <2>2. \A m \in Member : member'[m].tenant = member[m].tenant
    BY <1>10
  <2>3. OfMember(req[s]) => req[s].m \in Member
    BY <2>1, RequestKinds
  <2>4. req[s].op = "patch" => member'[req[s].m] = member[req[s].m]
    <3> SUFFICES ASSUME req[s].op = "patch", member[req[s].m].tenant = t PROVE FALSE
      BY <1>10, <2>1, RequestKinds
    <3>1. OfMember(req[s]) /\ ~req[s].new
      BY <2>1, RequestKinds DEF OfMember
    <3>2. req[s].mcopy.tenant = t
      BY <1>9, <2>1, <3>1 DEF OwnPlan
    <3> QED
      BY <1>1, <2>1, <3>1, <3>2 DEF Firms
  <2>5. req[s].op \in {"create", "save", "write", "tell"} /\ req[s].m # NoOne => OfMember(req[s])
    BY DEF OfMember
  <2>6. req[s].op \in {"member", "patch"} => req[s].m \in Member
    BY <2>1, RequestKinds
  <2> DEFINE c == req[s]
  <2>7. /\ OwnPlan(c, member) /\ (c.op = "patch" => member'[c.m] = member[c.m])
        /\ c.op \in {"create", "save", "write", "tell"} /\ c.m # NoOne => c.m \in Member
        /\ c.op \in {"member", "patch"} => c.m \in Member
    BY <2>1, <2>3, <2>4, <2>5, <2>6
  <2> HIDE DEF c
  <2>8. OwnPlan(c, member')
    BY <2>2, <2>7 DEF OwnPlan
  <2> QED
    BY <2>8 DEF c
<1>14. ~overlapped => MembersSuit'
  <2>0. tenant' = tenant
    BY <1>3
  <2> SUFFICES ASSUME ~overlapped, NEW m \in Member, member'[m].tenant # NoOne,
                      \A s \in Admin : ~(req'[s].op \in {"tell", "drop"}
                                         /\ req'[s].t = member'[m].tenant)
               PROVE  Suits(tenant[member'[m].tenant], member'[m].bind)
    BY <2>0 DEF MembersSuit, Awaited
  <2>1. CASE member[m].tenant = t
    BY <1>6, <1>10, <2>1
  <2>2. CASE member[m].tenant # t
    <3>1. member'[m] = member[m]
      BY <1>10, <2>2
    <3>2. ~Awaited(member[m].tenant)
      BY <1>3, <2>2, <3>1 DEF Awaited, Goes, t, RegisterInv, TenantsShape
    <3> QED
      BY <3>1, <3>2 DEF MembersInv, MembersSuit
  <2> QED
    BY <2>1, <2>2
<1>15. OfMember(r) => r.m \in torn \/ Together(r.mcopy)
  BY <1>2, <1>4, NoReqShape
<1> HIDE DEF t, tell
<1> QED
  BY <1>3, <1>4, <1>5, <1>7, <1>8, <1>11, <1>12, <1>13, <1>14, <1>15, StepFollows

\* What save has selected is the member's row as it stands.
LEMMA SelectMemberFollows ==
  ASSUME RegisterInv, MembersInv, NEW p \in Admin, SelectMember(p)
  PROVE  MembersInv'
<1> DEFINE q == req[p]
           r == [q EXCEPT !.op = "patch", !.seen = member[q.m]]
<1>1. q.op = "member" /\ ~q.new /\ q \in Request /\ OfMember(q)
  BY RequestKinds DEF SelectMember, RegisterInv, TenantsShape, OfMember
<1>2. Goes(p, r) /\ UNCHANGED <<tenant, member, overlapped, renamed, torn>>
  BY DEF SelectMember
<1>3. q \in [op : {"member", "patch"}, m : Member, new : BOOLEAN, mcopy : MemberRow,
             seen : MemberRow \union {NoMember}]
  BY <1>1, TenantAssumption DEF Request, RequestShape, TenantSave, NoReq
<1>4. IsMember(q.m) /\ member[q.m] \in MemberRow
  BY <1>1, <1>3, MembersRow DEF RegisterInv, Stands, Newcomer
<1>5. /\ r.op = "patch" /\ r.m = q.m /\ r.mcopy = q.mcopy /\ r.seen = member[q.m] /\ ~r.new
      /\ r \in Request
  BY <1>1, <1>3, <1>4 DEF Request, RequestShape
<1> HIDE DEF r
<1>6. Firms(r) \subseteq Firms(q) /\ Labels(r) = {} /\ Persons(r) \subseteq Persons(q)
  BY <1>1, <1>5 DEF Firms, Labels, Persons, OfTenant
<1>7. r.m \in torn \/ (Together(r.mcopy) /\ Together(r.seen))
  BY <1>1, <1>3, <1>4, <1>5 DEF MembersInv, Bound, HoldsTogether
<1>8. ~overlapped => /\ Plan(r, tenant) /\ OwnPlan(r, member)
                     /\ \A s \in Admin : OwnPlan(req[s], member)
  <2>1. ~overlapped => \A s \in Admin : Plan(req[s], tenant) /\ OwnPlan(req[s], member)
    BY DEF MembersInv, PlansSuit
  <2>2. Plan(q, tenant) => Plan(r, tenant)
    BY <1>1, <1>5 DEF Plan, Saves
  <2>3. OwnPlan(q, member) => OwnPlan(r, member)
    BY <1>1, <1>5 DEF OwnPlan
  <2> QED
    BY <2>1, <2>2, <2>3
<1>9. NamePlan(r, tenant)
  BY <1>5 DEF NamePlan, Saves
<1>10. ~overlapped => MembersSuit'
  BY <1>1, <1>2, <1>3, SuitStays
<1> QED
  BY <1>2, <1>5, <1>6, <1>7, <1>8, <1>9, <1>10, StepFollows

\* What holds of another request's member is not concerned by this one's.
LEMMA OwnPlanStays ==
  ASSUME RegisterInv, MembersInv, ~overlapped, NEW p \in Admin, OfMember(req[p]),
         \A m \in Member \ {req[p].m} : member'[m] = member[m]
  PROVE  \A s \in Admin \ {p} : OwnPlan(req[s], member')
<1> SUFFICES ASSUME NEW s \in Admin, s # p PROVE OwnPlan(req[s], member')
  OBVIOUS
<1>1. /\ req[s] \in Request /\ req[p] \in Request /\ OwnPlan(req[s], member)
      /\ Persons(req[s]) \intersect Persons(req[p]) = {}
  BY DEF RegisterInv, TenantsShape, MembersInv, PlansSuit, Uncrossed, Apart
<1> DEFINE c == req[s]
<1>2. OfMember(c) => c.m \in Member /\ c.m # req[p].m
  BY <1>1, RequestKinds DEF Persons
<1>3. OwnPlan(c, member) /\ (OfMember(c) => member'[c.m] = member[c.m])
  BY <1>1, <1>2
<1>4. c.op \in {"member", "patch"} => c.m # NoOne
  BY <1>1, RequestKinds
<1> HIDE DEF c
<1>5. OwnPlan(c, member')
  BY <1>3, <1>4 DEF OwnPlan, OfMember
<1> QED
  BY <1>5 DEF c

\* A new member has no company; of one who came in between the row stays.
LEMMA InsertFollows ==
  ASSUME RegisterInv, MembersInv, NEW p \in Admin, InsertMember(p)
  PROVE  MembersInv'
<1> DEFINE q == req[p]
<1>1. q.op = "member" /\ q \in Request /\ OfMember(q) /\ q.m \in Member /\ q.mcopy \in MemberRow
  BY RequestKinds DEF InsertMember, RegisterInv, TenantsShape, OfMember
<1>2. /\ Goes(p, NoReq) /\ UNCHANGED <<tenant, overlapped, renamed, torn>>
      /\ \A m \in Member : \/ member'[m] = member[m]
                           \/ m = q.m /\ member'[m] = q.mcopy
  BY DEF InsertMember, RegisterInv, TenantsShape
<1>3. /\ q.m \in torn \/ Together(q.mcopy)
      /\ q.mcopy.tenant # NoOne => tenant[q.mcopy.tenant] # NoTenant
  BY <1>1 DEF MembersInv, Bound, HoldsTogether, Known, Firms, MemberRow
<1>4. ~overlapped => \A s \in Admin \ {p} : OwnPlan(req[s], member')
  BY <1>1, <1>2, OwnPlanStays
<1>5. ~overlapped => MembersSuit'
  <2>1. ~overlapped => (q.mcopy.tenant # NoOne => Suits(tenant[q.mcopy.tenant], q.mcopy.bind))
    BY <1>1 DEF MembersInv, PlansSuit, Plan
  <2> QED
    BY <1>1, <1>2, <2>1, SuitStays
<1>6. NoReq \in Request /\ ~OfMember(NoReq)
  BY NoReqShape
<1>7. /\ Firms(NoReq) = {} /\ Labels(NoReq) = {} /\ Persons(NoReq) = {}
      /\ Plan(NoReq, tenant) /\ NamePlan(NoReq, tenant) /\ OwnPlan(NoReq, member')
  BY NoPlans
<1>8. \A m \in Member :
        \/ member'[m] = member[m]
        \/ /\ m \in torn \/ Together(member'[m])
           /\ member'[m].tenant # NoOne => tenant[member'[m].tenant] # NoTenant
  BY <1>2, <1>3
<1> QED
  BY <1>2, <1>4, <1>5, <1>6, <1>7, <1>8, StepFollows

\* Rows that hold together do so after the write, if the company is the one that was
\* seen, or the copy says the same of it as what was seen.
LEMMA PatchedTogether ==
  ASSUME NEW row \in MemberRow, NEW seen \in MemberRow, NEW copy \in MemberRow,
         Together(row), Together(seen), Together(copy),
         Bind(copy) = Bind(seen) \/ row.tenant = seen.tenant
  PROVE  Together(Patched(row, seen, copy))
<1> DEFINE new == Patched(row, seen, copy)
<1>1. /\ new.tenant = IF copy.tenant # seen.tenant THEN copy.tenant ELSE row.tenant
      /\ new.bind = IF copy.bind # seen.bind THEN copy.bind ELSE row.bind
  BY PatchedMember
<1>2. Bind(copy) = Bind(seen) => copy.tenant = seen.tenant /\ copy.bind = seen.bind
  BY DEF Bind
<1> HIDE DEF new
<1>3. CASE Bind(copy) = Bind(seen)
  BY <1>1, <1>2, <1>3 DEF Together, new
<1>4. CASE row.tenant = seen.tenant
  BY <1>1, <1>4 DEF Together, new
<1> QED
  BY <1>3, <1>4

\* The copy's columns hold together, and so do the row's.
LEMMA WriteMemberFollows ==
  ASSUME RegisterInv, MembersInv, NEW p \in Admin, WriteMember(p)
  PROVE  MembersInv'
<1> DEFINE q == req[p]
           m1 == q.m
           row == Patched(member[m1], q.seen, q.mcopy)
<1>1. /\ q.op = "patch" /\ q \in Request /\ OfMember(q) /\ m1 \in Member
      /\ q.mcopy \in MemberRow /\ q.seen \in MemberRow
  BY RequestKinds DEF WriteMember, RegisterInv, TenantsShape, OfMember
<1>2. IsMember(m1) /\ member[m1] \in MemberRow
  BY <1>1, MembersRow DEF RegisterInv, Stands, Newcomer
<1>3. /\ Goes(p, NoReq) /\ UNCHANGED <<tenant, overlapped, renamed>>
      /\ member' = [member EXCEPT ![m1] = row]
      /\ torn' = IF Bind(q.mcopy) # Bind(q.seen) /\ member[m1].tenant # q.seen.tenant
                 THEN torn \union {m1} ELSE torn
  BY DEF WriteMember
<1>4. /\ row \in MemberRow /\ (member[m1] = q.seen => row = q.mcopy)
      /\ row.tenant \in {q.mcopy.tenant, member[m1].tenant}
  BY <1>1, <1>2, PatchedMember
<1>5. m1 \in torn' \/ Together(row)
  <2> SUFFICES ASSUME m1 \notin torn' PROVE Together(row)
    OBVIOUS
  <2>1. m1 \notin torn /\ (Bind(q.mcopy) = Bind(q.seen) \/ member[m1].tenant = q.seen.tenant)
    BY <1>3
  <2>2. Together(member[m1]) /\ Together(q.mcopy) /\ Together(q.seen)
    BY <1>1, <1>2, <2>1 DEF MembersInv, Bound, HoldsTogether
  <2> QED
    BY <1>1, <1>2, <2>1, <2>2, PatchedTogether
<1>6. row.tenant # NoOne => tenant[row.tenant] # NoTenant
  <2>1. q.mcopy.tenant # NoOne => tenant[q.mcopy.tenant] # NoTenant
    BY <1>1 DEF MembersInv, Known, Firms, MemberRow
  <2>2. member[m1].tenant # NoOne => tenant[member[m1].tenant] # NoTenant
    BY <1>1 DEF MembersInv, Known
  <2> QED
    BY <1>4, <2>1, <2>2
<1>7. ~overlapped => /\ q.seen = member[m1]
                     /\ q.mcopy.tenant # NoOne => Suits(tenant[q.mcopy.tenant], q.mcopy.bind)
  BY <1>1 DEF MembersInv, PlansSuit, Plan, OwnPlan
<1> HIDE DEF row
<1>8. \A m \in Member : member'[m] = IF m = m1 THEN row ELSE member[m]
  BY <1>3 DEF RegisterInv, TenantsShape
<1>9. ~overlapped => torn' = torn /\ MembersSuit'
  BY <1>1, <1>3, <1>4, <1>7, <1>8, SuitStays
<1>10. ~overlapped => \A s \in Admin \ {p} : OwnPlan(req[s], member')
  BY <1>1, <1>8, OwnPlanStays
<1>11. NoReq \in Request /\ ~OfMember(NoReq)
  BY NoReqShape
<1>12. /\ Firms(NoReq) = {} /\ Labels(NoReq) = {} /\ Persons(NoReq) = {}
       /\ Plan(NoReq, tenant) /\ NamePlan(NoReq, tenant) /\ OwnPlan(NoReq, member')
  BY NoPlans
<1>13. \A m \in Member :
         \/ member'[m] = member[m]
         \/ /\ m \in torn' \/ Together(member'[m])
            /\ member'[m].tenant # NoOne => tenant[member'[m].tenant] # NoTenant
  BY <1>5, <1>6, <1>8
<1>14. torn \subseteq torn'
  BY <1>3
<1> QED
  BY <1>3, <1>9, <1>10, <1>11, <1>12, <1>13, <1>14, StepFollows

LEMMA DiesFollows ==
  ASSUME RegisterInv, MembersInv, NEW p \in Admin, Dies(p)
  PROVE  MembersInv'
<1>1. Goes(p, NoReq) /\ UNCHANGED <<tenant, member, renamed, torn>> /\ overlapped'
  BY DEF Dies
<1>2. NoReq \in Request /\ ~OfMember(NoReq)
  BY NoReqShape
<1>3. /\ Firms(NoReq) = {} /\ Labels(NoReq) = {} /\ Persons(NoReq) = {}
      /\ NamePlan(NoReq, tenant)
  BY NoPlans
<1> QED
  BY <1>1, <1>2, <1>3, StepFollows

-----------------------------------------------------------------------------
(* Every step *)

LEMMA NextFollows ==
  ASSUME RegisterInv, MembersInv, TenantsNext
  PROVE  MembersInv'
<1>1. ASSUME NEW p \in Admin, NEW t \in Tenant,
             Create(p, t) \/ Approve(p, t) \/ Reject(p, t) \/ RemoveTenant(p, t)
      PROVE  MembersInv'
  BY <1>1, CreateFollows, ExaminationFollows, RemoveFollows
<1>2. ASSUME NEW p \in Admin, NEW t \in Tenant, NEW to \in Stage, NEW says \in BOOLEAN,
             UpdateTenantLifecycle(p, t, to, says)
      PROVE  MembersInv'
  BY <1>2, LifecycleFollows
<1>3. ASSUME NEW p \in Admin, NEW t \in Tenant, NEW n \in Name,
             NEW src \in {"platform", "miniapp"}, Update(p, t, n, src)
      PROVE  MembersInv'
  BY <1>3, UpdateFollows
<1>4. ASSUME NEW p \in Admin, NEW n \in Name, Onboard(p, n)
      PROVE  MembersInv'
  BY <1>4, OnboardFollows
<1>5. ASSUME NEW p \in Admin,
             CommitUpdate(p) \/ SelectTenant(p) \/ WriteTenant(p) \/ SoftDelete(p)
      PROVE  MembersInv'
  BY <1>5, CommitUpdateFollows, SelectTenantFollows, WriteTenantFollows, SoftDeleteFollows
<1>6. ASSUME NEW p \in Admin,
             SyncMiniappTenantBindStatus(p) \/ SelectMember(p) \/ WriteMember(p)
               \/ InsertMember(p) \/ Dies(p)
      PROVE  MembersInv'
  BY <1>6, TellFollows, SelectMemberFollows, WriteMemberFollows, InsertFollows, DiesFollows
<1>7. ASSUME NEW p \in Admin, NEW m \in Member, UpdateProfile(p, m) \/ BindPhone(p, m)
      PROVE  MembersInv'
  BY <1>7, MemberReadFollows
<1>8. ASSUME NEW p \in Admin, NEW m \in Member, NEW b \in BOOLEAN,
             SilentLogin(p, m, b) \/ UpdateMemberStatus(p, m, b)
      PROVE  MembersInv'
  BY <1>8, MemberReadFollows
<1>9. ASSUME NEW p \in Admin, NEW m \in Member, NEW n \in Name, ApplyTenant(p, m, n)
      PROVE  MembersInv'
  BY <1>9, ApplyFollows
<1> QED
  BY <1>1, <1>2, <1>3, <1>4, <1>5, <1>6, <1>7, <1>8, <1>9 DEF TenantsNext

\* Rows and requests of the shapes above are typed.
LEMMA ShapesAreTyped ==
  ASSUME TenantsShape
  PROVE  TenantsTypeOK
<1>1. ASSUME NEW p \in Admin
      PROVE  \/ req[p] \in TenantSave \union {NoReq}
             \/ req[p] \in [op : {"update"}, t : Tenant, copy : TenantRow, seen : TenantRow]
             \/ req[p] \in [op : {"create"}, n : Name, src : {"platform", "miniapp"},
                            m : Member \union {NoOne}, mcopy : MemberRow \union {NoMember}]
             \/ req[p] \in [op : {"member", "patch"}, m : Member, new : BOOLEAN,
                            mcopy : MemberRow, seen : MemberRow \union {NoMember}]
  BY DEF TenantsShape, Request, RequestShape
<1> QED
  BY <1>1 DEF TenantsShape, TenantsTypeOK

\* When no request is in flight, nobody waits to be told.
LEMMA MembersKnow ==
  ASSUME RegisterInv, MembersInv
  PROVE  MembersFollow /\ NameOnce
<1>1. BoundTogether
  BY DEF MembersInv, Bound, Together, BoundTogether
<1>2. BindTellsStage
  <2> SUFFICES ASSUME ~overlapped, \A p \in Admin : req[p] = NoReq,
                      NEW m \in Member, member[m].tenant # NoOne
               PROVE  Fits(tenant[member[m].tenant].stage, member[m].bind)
    BY DEF BindTellsStage
  <2>1. ~Awaited(member[m].tenant)
    BY NoReqShape DEF Awaited
  <2> QED
    BY <2>1 DEF MembersInv, MembersSuit, Suits
<1>3. NameOnce
  BY DEF MembersInv, OwnNames, NameOnce
<1> QED
  BY <1>1, <1>2, <1>3 DEF MembersFollow

LEMMA MembersStutter ==
  ASSUME MembersInv, UNCHANGED tenantVars
  PROVE  MembersInv'
<1>1. Bound' /\ Known'
  BY DEF tenantVars, MembersInv, Bound, Known, HoldsTogether, IsMember
<1>2. ~overlapped' => Uncrossed' /\ MembersSuit' /\ PlansSuit' /\ torn' = {}
  BY DEF tenantVars, MembersInv, Uncrossed, MembersSuit, PlansSuit, Awaited
<1>3. ~(overlapped' \/ renamed') => OwnNames' /\ NamesFree'
  BY DEF tenantVars, MembersInv, OwnNames, NamesFree, Live
<1> QED
  BY <1>1, <1>2, <1>3 DEF MembersInv

(* A member has a state of certification exactly when it has a company, unless two     *)
(* saves gave it one at a time, and while requests for them neither overlap nor die    *)
(* the two say the same (MembersFollow); no two companies have one name unless         *)
(* requests overlapped or the platform renamed one (NameOnce).  For any number of      *)
(* companies, members, names and requests: what a request is going to write, and to    *)
(* tell, suits what the others leave alone, and what its save selects is what it read. *)
THEOREM MembersAreTold == TenantsSpec => [](TenantsTypeOK /\ MembersFollow /\ NameOnce)
<1>1. TenantsInit => RegisterInv /\ MembersInv
  BY InitShape, MembersStart
<1>2. RegisterInv /\ MembersInv /\ [TenantsNext]_tenantVars => RegisterInv' /\ MembersInv'
  BY NextKeeps, NextFollows, RegisterStutters, MembersStutter
<1>3. RegisterInv /\ MembersInv => TenantsTypeOK /\ MembersFollow /\ NameOnce
  BY ShapesAreTyped, MembersKnow DEF RegisterInv
<1> QED
  BY <1>1, <1>2, <1>3, PTL DEF TenantsSpec

-----------------------------------------------------------------------------
(* Registration: who uses a code *)

FormShape == [at : {"verified", "checked", "saved"}, by : {"register", "onboard"},
              name : UserName, phone : Phone, code : Code]
AccountShape == [by : {"register", "onboard"}, name : UserName, phone : Phone]

RegShape ==
  /\ code \in [Phone -> Code \union {NoCode}]
  /\ account \in [Account -> AccountShape \union {NoAccount}]
  /\ form \in [Applicant -> FormShape \union {NoForm}]
  /\ sent \subseteq Code /\ uses \in [Code -> Nat]
  /\ crossed \in BOOLEAN /\ lapsed \in BOOLEAN

\* A code was sent, to one phone, before it was used.
OneReceiver ==
  /\ \A n \in Phone : code[n] # NoCode => code[n] \in sent
  /\ \A p \in Applicant : form[p] # NoForm => form[p].code \in sent
  /\ \A n, k \in Phone : (code[n] # NoCode /\ code[n] = code[k]) => n = k
  /\ \A p \in Applicant, n \in Phone :
       (form[p] # NoForm /\ form[p].code = code[n]) => form[p].phone = n
  /\ \A p, q \in Applicant :
       (form[p] # NoForm /\ form[q] # NoForm /\ form[p].code = form[q].code) =>
         form[p].phone = form[q].phone
  /\ \A c \in Code \ sent : uses[c] = 0

\* Applicants in flight are of different phones and names.
FormsApart ==
  \A p, q \in Applicant : (p # q /\ form[p] # NoForm /\ form[q] # NoForm) =>
    form[p].phone # form[q].phone /\ form[p].name # form[q].name

\* What was looked up is still free when the account is saved.
StillUnused ==
  \A p \in Applicant : (form[p].at = "checked" /\ form[p].by = "register") =>
    Unused(form[p].name, form[p].phone)

\* A code that has made its account is quoted by nobody but who is going to delete it.
CodesSpent ==
  /\ \A c \in Code : uses[c] <= 1
  /\ \A p \in Applicant : form[p].at \in {"verified", "checked"} => uses[form[p].code] = 0
  /\ \A n \in Phone : (code[n] # NoCode /\ uses[code[n]] # 0) =>
       \E p \in Applicant : form[p].at = "saved" /\ form[p].phone = n

RegInv ==
  /\ RegShape /\ OneReceiver
  /\ ~crossed => FormsApart /\ StillUnused
  /\ PhoneOnce
  /\ ~(crossed \/ lapsed) => CodesSpent

\* A request in flight has all its parts; none is none.
LEMMA FormParts ==
  ASSUME RegShape, NEW p \in Applicant
  PROVE  /\ form[p].at # "none" => form[p] # NoForm
         /\ form[p] # NoForm =>
              /\ form[p] \in FormShape /\ form[p].at # "none"
              /\ form[p].phone \in Phone /\ form[p].code \in Code /\ form[p].name \in UserName
              /\ form[p].code # NoCode
         /\ form[p] = NoForm => form[p].at = "none"
BY RegAssumption DEF RegShape, FormShape, NoForm

LEMMA RegStart ==
  ASSUME RegInit
  PROVE  RegInv
<1>1. RegShape
  BY DEF RegInit, RegShape
<1>2. /\ \A p \in Applicant : form[p] = NoForm /\ form[p].at = "none"
      /\ \A n \in Phone : code[n] = NoCode
      /\ \A c \in Code : uses[c] = 0
      /\ \A a \in Account : account[a].by = "none"
  BY DEF RegInit, NoForm, NoAccount
<1> QED
  BY <1>1, <1>2 DEF RegInv, OneReceiver, FormsApart, StillUnused, PhoneOnce, CodesSpent

\* Redis drops a code.
LEMMA DropsCode ==
  ASSUME OneReceiver, RegShape, NEW n \in Phone, code' = [code EXCEPT ![n] = NoCode],
         UNCHANGED <<sent, uses>>, \A p \in Applicant : form'[p] \in {form[p], NoForm}
  PROVE  /\ code' \in [Phone -> Code \union {NoCode}]
         /\ OneReceiver'
         /\ \A k \in Phone : code'[k] = IF k = n THEN NoCode ELSE code[k]
<1>1. /\ code' \in [Phone -> Code \union {NoCode}]
      /\ \A k \in Phone : code'[k] = IF k = n THEN NoCode ELSE code[k]
  BY DEF RegShape
<1>2. \A p \in Applicant : form'[p] # NoForm =>
        form'[p] = form[p] /\ form[p] # NoForm /\ form[p].code # NoCode
  BY FormParts
<1> QED
  BY <1>1, <1>2 DEF OneReceiver

\* A code is drawn once, so no phone and no form has it yet, and nothing was made with it.
LEMMA SendKeeps ==
  ASSUME RegInv, NEW n \in Phone, NEW c \in Code, SendPhone(n, c)
  PROVE  RegInv'
<1>1. RegShape /\ OneReceiver
  BY DEF RegInv
<1>2. /\ code' \in [Phone -> Code \union {NoCode}] /\ c \notin sent
      /\ \A k \in Phone : code'[k] = IF k = n THEN c ELSE code[k]
      /\ sent' = sent \union {c} /\ UNCHANGED <<account, form, uses, crossed, lapsed>>
  BY <1>1 DEF SendPhone, RegShape
<1>3. RegShape'
  BY <1>1, <1>2 DEF RegShape
<1>4. c # NoCode /\ uses[c] = 0
  BY <1>1, <1>2, RegAssumption DEF OneReceiver
<1>5. OneReceiver'
  BY <1>1, <1>2, <1>4 DEF OneReceiver
<1>6. CodesSpent => CodesSpent'
  BY <1>2, <1>4 DEF CodesSpent
<1> QED
  BY <1>2, <1>3, <1>5, <1>6 DEF RegInv, FormsApart, StillUnused, Unused, PhoneOnce

LEMMA ExpiryKeeps ==
  ASSUME RegInv, NEW n \in Phone, CodeExpires(n)
  PROVE  RegInv'
<1>1. RegShape /\ OneReceiver
  BY DEF RegInv
<1>2. /\ code' \in [Phone -> Code \union {NoCode}] /\ OneReceiver'
      /\ \A k \in Phone : code'[k] = IF k = n THEN NoCode ELSE code[k]
  BY <1>1, DropsCode DEF CodeExpires
<1>3. UNCHANGED <<account, form, sent, uses, crossed, lapsed>>
  BY DEF CodeExpires
<1>4. CodesSpent => CodesSpent'
  BY <1>2, <1>3 DEF CodesSpent
<1> QED
  BY <1>1, <1>2, <1>3, <1>4 DEF RegInv, RegShape, FormsApart, StillUnused, Unused, PhoneOnce

\* Who quotes a code while nobody else of the phone is in flight finds it unused.
LEMMA VerifyKeeps ==
  ASSUME RegInv, NEW p \in Applicant, NEW by \in {"register", "onboard"}, NEW who \in UserName,
         NEW n \in Phone, NEW c \in Code, VerifyCode(p, by, who, n, c)
  PROVE  RegInv'
<1> DEFINE f == [at |-> "verified", by |-> by, name |-> who, phone |-> n, code |-> c]
<1>1. RegShape /\ OneReceiver /\ PhoneOnce
  BY DEF RegInv
<1>2. /\ f \in FormShape /\ f.at = "verified" /\ f.phone = n /\ f.name = who /\ f.code = c
      /\ f # NoForm
  BY DEF FormShape, NoForm
<1>3. /\ form' = [form EXCEPT ![p] = f] /\ form[p] = NoForm /\ code[n] = c
      /\ UNCHANGED <<code, account, sent, uses, lapsed>>
      /\ ~crossed' => ~crossed /\ \A q \in Applicant :
                        form[q] # NoForm => form[q].phone # n /\ form[q].name # who
  BY DEF VerifyCode
<1> HIDE DEF f
<1>4. /\ form' \in [Applicant -> FormShape \union {NoForm}]
      /\ \A q \in Applicant : form'[q] = IF q = p THEN f ELSE form[q]
      /\ crossed' \in BOOLEAN
  BY <1>1, <1>2, <1>3 DEF RegShape, VerifyCode
<1>5. RegShape'
  BY <1>1, <1>3, <1>4 DEF RegShape
<1>6. c # NoCode /\ c \in sent
  BY <1>1, <1>3, RegAssumption DEF OneReceiver
<1>7. OneReceiver'
  <2>1. \A q \in Applicant, k \in Phone :
          (form'[q] # NoForm /\ form'[q].code = code'[k]) => form'[q].phone = k
    BY <1>1, <1>2, <1>3, <1>4, <1>6 DEF OneReceiver
  <2>2. \A q, o \in Applicant :
          (form'[q] # NoForm /\ form'[o] # NoForm /\ form'[q].code = form'[o].code) =>
            form'[q].phone = form'[o].phone
    BY <1>1, <1>2, <1>3, <1>4, <1>6 DEF OneReceiver
  <2> QED
    BY <1>1, <1>2, <1>3, <1>4, <1>6, <2>1, <2>2 DEF OneReceiver
<1>8. ~crossed' => FormsApart' /\ StillUnused'
  BY <1>2, <1>3, <1>4 DEF RegInv, FormsApart, StillUnused, Unused
<1>9. ~(crossed' \/ lapsed') => CodesSpent'
  <2> SUFFICES ASSUME ~(crossed' \/ lapsed') PROVE CodesSpent'
    OBVIOUS
  <2>1. CodesSpent
    BY <1>3 DEF RegInv
  <2>2. uses[c] = 0
    <3>1. ~\E q \in Applicant : form[q].at = "saved" /\ form[q].phone = n
      BY <1>1, <1>3, FormParts
    <3> QED
      BY <1>3, <1>6, <2>1, <3>1 DEF CodesSpent
  <2>3. ASSUME NEW k \in Phone, code[k] # NoCode, uses[code[k]] # 0
        PROVE  \E q \in Applicant : form'[q].at = "saved" /\ form'[q].phone = k
    <3>1. PICK q \in Applicant : form[q].at = "saved" /\ form[q].phone = k
      BY <2>1, <2>3 DEF CodesSpent
    <3>2. q # p
      BY <1>1, <1>3, <3>1, FormParts
    <3> QED
      BY <1>4, <3>1, <3>2
  <2> QED
    BY <1>2, <1>3, <1>4, <2>1, <2>2, <2>3 DEF CodesSpent
<1>10. PhoneOnce'
  BY <1>1, <1>3 DEF PhoneOnce
<1> QED
  BY <1>5, <1>7, <1>8, <1>9, <1>10 DEF RegInv

\* What is looked up is free until the account is saved: only requests that overlap
\* could take it.
LEMMA CheckKeeps ==
  ASSUME RegInv, NEW p \in Applicant, Check(p)
  PROVE  RegInv'
<1> DEFINE g == [form[p] EXCEPT !.at = "checked"]
<1>1. RegShape /\ OneReceiver
  BY DEF RegInv
<1>2. form[p] \in FormShape /\ form[p] # NoForm /\ form[p].at = "verified"
  BY <1>1, FormParts DEF Check
<1>3. /\ g \in FormShape /\ g.at = "checked" /\ g.by = form[p].by /\ g.name = form[p].name
      /\ g.phone = form[p].phone /\ g.code = form[p].code /\ g # NoForm
  BY <1>2 DEF FormShape, NoForm
<1>4. /\ UNCHANGED <<code, account, sent, uses, crossed, lapsed>>
      /\ form' = [form EXCEPT ![p] =
                    IF form[p].by = "onboard" \/ Unused(form[p].name, form[p].phone)
                    THEN g ELSE NoForm]
  BY DEF Check
<1> HIDE DEF g
<1>5. /\ form' \in [Applicant -> FormShape \union {NoForm}]
      /\ \A q \in Applicant : q # p => form'[q] = form[q]
      /\ \/ form'[p] = NoForm
         \/ /\ form'[p] = g
            /\ form[p].by = "onboard" \/ Unused(form[p].name, form[p].phone)
  BY <1>1, <1>3, <1>4 DEF RegShape
<1>6. RegShape'
  BY <1>1, <1>4, <1>5 DEF RegShape
<1>7. \A q \in Applicant :
        \/ form'[q] = NoForm /\ form'[q].at = "none"
        \/ /\ form[q] # NoForm /\ form'[q].name = form[q].name
           /\ form'[q].phone = form[q].phone /\ form'[q].code = form[q].code
           /\ q = p \/ form'[q] = form[q]
  BY <1>2, <1>3, <1>5 DEF NoForm
<1>8. OneReceiver'
  BY <1>1, <1>4, <1>7 DEF OneReceiver
<1>9. ~crossed' => FormsApart' /\ StillUnused'
  <2>1. FormsApart => FormsApart'
    BY <1>7 DEF FormsApart
  <2>2. StillUnused => StillUnused'
    BY <1>2, <1>3, <1>4, <1>5 DEF StillUnused, Unused, NoForm
  <2> QED
    BY <1>4, <2>1, <2>2 DEF RegInv
<1>10. CodesSpent => CodesSpent'
  <2> SUFFICES ASSUME CodesSpent PROVE CodesSpent'
    OBVIOUS
  <2>1. ASSUME NEW k \in Phone, code[k] # NoCode, uses[code[k]] # 0
        PROVE  \E q \in Applicant : form'[q].at = "saved" /\ form'[q].phone = k
    BY <1>2, <1>5, <2>1 DEF CodesSpent
  <2>2. ASSUME NEW q \in Applicant, form'[q].at \in {"verified", "checked"}
        PROVE  uses[form'[q].code] = 0
    BY <1>2, <1>3, <1>5, <2>2 DEF CodesSpent, NoForm
  <2> QED
    BY <1>4, <2>1, <2>2 DEF CodesSpent
<1> QED
  BY <1>4, <1>6, <1>8, <1>9, <1>10 DEF RegInv, PhoneOnce

\* The account's name and phone were free and are nobody's else in flight; the code
\* gets its one use, and whoever quotes another one is not concerned.
LEMMA SaveAccountKeeps ==
  ASSUME RegInv, NEW p \in Applicant, NEW a \in Account, SaveAccount(p, a)
  PROVE  RegInv'
<1> DEFINE g == [form[p] EXCEPT !.at = "saved"]
           row == NewAccount(form[p])
<1>1. RegShape /\ OneReceiver /\ PhoneOnce
  BY DEF RegInv
<1>2. /\ form[p] \in FormShape /\ form[p] # NoForm /\ form[p].at = "checked"
      /\ form[p].code \in Code /\ form[p].phone \in Phone
  BY <1>1, FormParts DEF SaveAccount
<1>3. /\ g \in FormShape /\ g.at = "saved" /\ g.by = form[p].by /\ g.name = form[p].name
      /\ g.phone = form[p].phone /\ g.code = form[p].code /\ g # NoForm
  BY <1>2 DEF FormShape, NoForm
<1>4. /\ row \in AccountShape /\ row.by = form[p].by /\ row.name = form[p].name
      /\ row.phone = form[p].phone /\ row # NoAccount
  BY <1>2 DEF FormShape, NewAccount, AccountShape, NoAccount
<1>5. /\ UNCHANGED <<code, sent, crossed, lapsed>> /\ account[a] = NoAccount
      /\ account' = [account EXCEPT ![a] = row]
      /\ uses' = [uses EXCEPT ![form[p].code] = uses[form[p].code] + 1]
      /\ form' = [form EXCEPT ![p] = g]
  BY DEF SaveAccount
<1> HIDE DEF g, row
<1>6. /\ form' \in [Applicant -> FormShape \union {NoForm}]
      /\ \A q \in Applicant : form'[q] = IF q = p THEN g ELSE form[q]
  BY <1>1, <1>3, <1>5 DEF RegShape
<1>7. /\ account' \in [Account -> AccountShape \union {NoAccount}]
      /\ \A b \in Account : account'[b] = IF b = a THEN row ELSE account[b]
  BY <1>1, <1>4, <1>5 DEF RegShape
<1>8. /\ uses' \in [Code -> Nat]
      /\ \A c \in Code : uses'[c] = IF c = form[p].code THEN uses[c] + 1 ELSE uses[c]
  BY <1>1, <1>2, <1>5 DEF RegShape
<1>9. RegShape'
  BY <1>1, <1>5, <1>6, <1>7, <1>8 DEF RegShape
<1>10. OneReceiver'
  <2>1. \A q \in Applicant : form'[q] # NoForm =>
          form[q] # NoForm /\ form'[q].code = form[q].code /\ form'[q].phone = form[q].phone
    BY <1>2, <1>3, <1>6
  <2>2. \A c \in Code \ sent' : uses'[c] = 0
    BY <1>1, <1>2, <1>5, <1>8 DEF OneReceiver
  <2> QED
    BY <1>1, <1>5, <2>1, <2>2 DEF OneReceiver
<1>11. ~crossed => FormsApart' /\ StillUnused' /\ PhoneOnce'
  <2> SUFFICES ASSUME ~crossed PROVE FormsApart' /\ StillUnused' /\ PhoneOnce'
    OBVIOUS
  <2>1. FormsApart /\ StillUnused
    BY DEF RegInv
  <2>2. FormsApart'
    BY <1>2, <1>3, <1>6, <2>1 DEF FormsApart
  <2>3. StillUnused'
    <3>1. ASSUME NEW q \in Applicant, form'[q].at = "checked", form'[q].by = "register",
                 NEW b \in Account, account'[b] # NoAccount
          PROVE  account'[b].name # form'[q].name /\ account'[b].phone # form'[q].phone
      <4>1. q # p /\ form'[q] = form[q]
        BY <1>3, <1>6, <3>1
      <4>2. form[q] # NoForm
        BY <1>1, <3>1, <4>1, FormParts
      <4>3. CASE b = a
        BY <1>2, <1>4, <1>7, <2>1, <4>1, <4>2, <4>3 DEF FormsApart
      <4>4. CASE b # a
        BY <1>7, <2>1, <3>1, <4>1, <4>4 DEF StillUnused, Unused
      <4> QED
        BY <4>3, <4>4
    <3> QED
      BY <3>1 DEF StillUnused, Unused
  <2>4. PhoneOnce'
    <3>1. ASSUME form[p].by = "register", NEW b \in Account, b # a, account[b].by = "register"
          PROVE  account[b].name # form[p].name /\ account[b].phone # form[p].phone
      <4>1. Unused(form[p].name, form[p].phone)
        BY <1>2, <2>1, <3>1 DEF StillUnused
      <4>2. account[b] # NoAccount
        BY <3>1 DEF NoAccount
      <4> QED
        BY <4>1, <4>2 DEF Unused
    <3>2. SUFFICES ASSUME NEW b \in Account, NEW d \in Account, b # d,
                          account'[b].by = "register", account'[d].by = "register"
                   PROVE  account'[b].name # account'[d].name
                          /\ account'[b].phone # account'[d].phone
      BY DEF PhoneOnce
    <3>3. CASE b = a
      BY <1>4, <1>7, <3>1, <3>2, <3>3
    <3>4. CASE d = a
      BY <1>4, <1>7, <3>1, <3>2, <3>4
    <3>5. CASE b # a /\ d # a
      BY <1>1, <1>7, <3>2, <3>5 DEF PhoneOnce
    <3> QED
      BY <3>3, <3>4, <3>5
  <2> QED
    BY <2>2, <2>3, <2>4
<1>12. ~(crossed \/ lapsed) => CodesSpent'
  <2> SUFFICES ASSUME ~(crossed \/ lapsed) PROVE CodesSpent'
    OBVIOUS
  <2>1. CodesSpent /\ FormsApart
    BY DEF RegInv
  <2>2. uses[form[p].code] = 0
    BY <1>2, <2>1 DEF CodesSpent
  <2>3. \A c \in Code : uses'[c] <= 1
    BY <1>8, <2>1, <2>2 DEF CodesSpent
  <2>4. ASSUME NEW q \in Applicant, form'[q].at \in {"verified", "checked"}
        PROVE  uses'[form'[q].code] = 0
    <3>1. q # p /\ form'[q] = form[q]
      BY <1>3, <1>6, <2>4
    <3>2. form[q] # NoForm /\ form[q].code \in Code
      BY <1>1, <2>4, <3>1, FormParts
    <3>3. form[q].code # form[p].code
      BY <1>1, <1>2, <2>1, <3>1, <3>2 DEF OneReceiver, FormsApart
    <3> QED
      BY <1>8, <2>1, <2>4, <3>1, <3>2, <3>3 DEF CodesSpent
  <2>5. ASSUME NEW k \in Phone, code[k] # NoCode, uses'[code[k]] # 0
        PROVE  \E q \in Applicant : form'[q].at = "saved" /\ form'[q].phone = k
    <3>1. CASE code[k] = form[p].code
      BY <1>1, <1>2, <1>3, <1>6, <3>1 DEF OneReceiver
    <3>2. CASE code[k] # form[p].code
      <4>1. code[k] \in Code
        BY <1>1, <2>5 DEF RegShape
      <4>2. PICK q \in Applicant : form[q].at = "saved" /\ form[q].phone = k
        BY <1>8, <2>1, <2>5, <3>2, <4>1 DEF CodesSpent
      <4> QED
        BY <1>2, <1>6, <4>2
    <3> QED
      BY <3>1, <3>2
  <2> QED
    BY <1>5, <2>3, <2>4, <2>5 DEF CodesSpent
<1>13. PhoneOnce'
  BY <1>5, <1>11 DEF PhoneOnce
<1> QED
  BY <1>5, <1>9, <1>10, <1>11, <1>12, <1>13 DEF RegInv

\* With the request its code goes, or a later one of the phone.
LEMMA DeleteCodeKeeps ==
  ASSUME RegInv, NEW p \in Applicant, DeleteCode(p)
  PROVE  RegInv'
<1>1. RegShape /\ OneReceiver /\ PhoneOnce
  BY DEF RegInv
<1>2. /\ form[p] # NoForm /\ form[p].phone \in Phone
      /\ UNCHANGED <<account, sent, uses, crossed, lapsed>>
      /\ code' = [code EXCEPT ![form[p].phone] = NoCode]
      /\ form' = [form EXCEPT ![p] = NoForm]
  BY <1>1, FormParts DEF DeleteCode, Spent
<1>3. /\ form' \in [Applicant -> FormShape \union {NoForm}]
      /\ \A q \in Applicant : form'[q] = IF q = p THEN NoForm ELSE form[q]
  BY <1>1, <1>2 DEF RegShape
<1>4. /\ code' \in [Phone -> Code \union {NoCode}] /\ OneReceiver'
      /\ \A k \in Phone : code'[k] = IF k = form[p].phone THEN NoCode ELSE code[k]
  BY <1>1, <1>2, <1>3, DropsCode
<1>5. RegShape'
  BY <1>1, <1>2, <1>3, <1>4 DEF RegShape
<1>6. ~crossed => FormsApart' /\ StillUnused'
  BY <1>2, <1>3 DEF RegInv, FormsApart, StillUnused, Unused, NoForm
<1>7. CodesSpent => CodesSpent'
  <2> SUFFICES ASSUME CodesSpent PROVE CodesSpent'
    OBVIOUS
  <2>1. ASSUME NEW k \in Phone, code'[k] # NoCode, uses[code'[k]] # 0
        PROVE  \E q \in Applicant : form'[q].at = "saved" /\ form'[q].phone = k
    BY <1>3, <1>4, <2>1 DEF CodesSpent
  <2> QED
    BY <1>2, <1>3, <2>1 DEF CodesSpent, NoForm
<1> QED
  BY <1>1, <1>2, <1>4, <1>5, <1>6, <1>7 DEF RegInv, PhoneOnce

LEMMA ApplicantDiesKeeps ==
  ASSUME RegInv, NEW p \in Applicant, ApplicantDies(p)
  PROVE  RegInv'
<1>1. RegShape /\ OneReceiver /\ PhoneOnce
  BY DEF RegInv
<1>2. /\ UNCHANGED <<code, account, sent, uses, crossed>> /\ lapsed' = TRUE
      /\ form' \in [Applicant -> FormShape \union {NoForm}]
      /\ \A q \in Applicant : form'[q] = IF q = p THEN NoForm ELSE form[q]
  BY <1>1 DEF ApplicantDies, RegShape
<1>3. RegShape' /\ OneReceiver'
  BY <1>1, <1>2 DEF RegShape, OneReceiver
<1>4. ~crossed => FormsApart' /\ StillUnused'
  BY <1>2 DEF RegInv, FormsApart, StillUnused, Unused, NoForm
<1> QED
  BY <1>1, <1>2, <1>3, <1>4 DEF RegInv, PhoneOnce

LEMMA RegStepsKeep ==
  ASSUME RegInv, [RegNext]_regVars
  PROVE  RegInv'
<1>1. CASE RegNext
  BY <1>1, SendKeeps, ExpiryKeeps, VerifyKeeps, CheckKeeps, SaveAccountKeeps, DeleteCodeKeeps,
     ApplicantDiesKeeps DEF RegNext
<1>2. CASE UNCHANGED regVars
  BY <1>2 DEF regVars, RegInv, RegShape, OneReceiver, FormsApart, StillUnused, Unused, PhoneOnce,
     CodesSpent
<1> QED
  BY <1>1, <1>2

LEMMA RegInvShows ==
  ASSUME RegInv
  PROVE  RegTypeOK /\ PhoneOnce /\ CodeOnce
<1>1. RegTypeOK
  BY DEF RegInv, RegShape, RegTypeOK, FormShape, AccountShape
<1> QED
  BY <1>1 DEF RegInv, CodesSpent, CodeOnce

(* A code makes one account, and who registered has a name and a phone of their own,   *)
(* unless requests overlapped or died: for any number of phones, codes and requests,   *)
(* with codes sent again, expiring and deleted at any time by auth.service.            *)
THEOREM CodesAreSpent == RegSpec => [](RegTypeOK /\ PhoneOnce /\ CodeOnce)
<1>1. RegInit => RegInv
  BY RegStart
<1>2. RegInv /\ [RegNext]_regVars => RegInv'
  BY RegStepsKeep
<1>3. RegInv => RegTypeOK /\ PhoneOnce /\ CodeOnce
  BY RegInvShows
<1> QED
  BY <1>1, <1>2, <1>3, PTL DEF RegSpec

-----------------------------------------------------------------------------
(* The platform: what was counted is still so when it is written *)

DeskShape ==
  {NoDesk}
  \union [op : {"saveUser"}, u : Operator, copy : OperatorRow, roles : SUBSET PRole]
  \union [op : {"status"}, u : Operator, copy : OperatorRow]
  \union [op : {"deleteUser"}, u : Operator]
  \union [op : {"saveRole"}, r : PRole, copy : PRoleRow]
  \union [op : {"deleteRole"}, r : PRole]
  \union [op : {"saveMenu"}, k : PMenu, copy : PMenuRow]
  \union [op : {"deleteMenu"}, k : PMenu]

PlatformShape ==
  /\ operator \in [Operator -> OperatorRow \union {Absent}]
  /\ prole \in [PRole -> PRoleRow \union {Absent}]
  /\ pmenu \in [PMenu -> PMenuRow \union {Absent}]
  /\ duty \in [Operator -> SUBSET PRole] /\ token \subseteq Operator
  /\ desk \in [Desk -> DeskShape]
  /\ clash \subseteq {"users", "roles", "menus"}

\* One deletion at a time, and it leaves somebody.
UsersLeft ==
  /\ \A p, q \in Desk : (desk[p].op = "deleteUser" /\ desk[q].op = "deleteUser") => p = q
  /\ \A p \in Desk : desk[p].op = "deleteUser" => \E v \in Operators : v # desk[p].u
  /\ Operators # {}

\* No role goes while one is given, and the one that goes is not held.
DutiesKept ==
  /\ \A p, q \in Desk : ~(desk[p].op = "saveUser" /\ desk[q].op = "deleteRole")
  /\ \A p \in Desk : desk[p].op = "saveUser" => desk[p].roles \subseteq PRoles
  /\ \A p \in Desk : desk[p].op = "deleteRole" => ~InUse(desk[p].r)
  /\ \A u \in Operator : duty[u] \subseteq PRoles

\* No menu goes while one is hung below, and the one that goes has none below it.
MenusKept ==
  /\ \A p, q \in Desk : ~(desk[p].op = "saveMenu" /\ desk[q].op = "deleteMenu")
  /\ \A p \in Desk : desk[p].op = "saveMenu" => desk[p].copy.parent \in PMenus \union {Top}
  /\ \A p \in Desk : desk[p].op = "deleteMenu" => Children(desk[p].k) = {}
  /\ \A k \in PMenus : pmenu[k].parent \in PMenus \union {Top}

PlatformInv ==
  /\ PlatformShape
  /\ "users" \notin clash => UsersLeft
  /\ "roles" \notin clash => DutiesKept
  /\ "menus" \notin clash => MenusKept

\* What a request is going to write, by its kind.
LEMMA DeskKinds ==
  ASSUME NEW r \in DeskShape
  PROVE  /\ r.op = "saveUser" =>
              r.u \in Operator /\ r.copy \in OperatorRow /\ r.roles \subseteq PRole
         /\ r.op = "status" => r.u \in Operator /\ r.copy \in OperatorRow
         /\ r.op = "deleteUser" => r.u \in Operator
         /\ r.op = "saveRole" => r.r \in PRole /\ r.copy \in PRoleRow
         /\ r.op = "deleteRole" => r.r \in PRole
         /\ r.op = "saveMenu" => r.k \in PMenu /\ r.copy \in PMenuRow
         /\ r.op = "deleteMenu" => r.k \in PMenu
BY DEF DeskShape, NoDesk

\* Rows are not the absence of one.
LEMMA RowsPresent ==
  \A row \in OperatorRow \union PRoleRow \union PMenuRow : row # Absent
BY DEF OperatorRow, PRoleRow, PMenuRow, Absent

LEMMA PlatformStart ==
  ASSUME PlatformInit
  PROVE  PlatformInv
<1>1. PlatformShape
  BY DEF PlatformInit, PlatformShape, DeskShape, OperatorRow
<1>2. \A p \in Desk : desk[p].op = "none"
  BY DEF PlatformInit, NoDesk
<1>3. Chief \in Operators
  BY PlatformAssumption DEF PlatformInit, Operators, Absent
<1>4. PMenus = {} /\ \A u \in Operator : duty[u] = {}
  BY DEF PlatformInit, PMenus
<1> QED
  BY <1>1, <1>2, <1>3, <1>4 DEF PlatformInv, UsersLeft, DutiesKept, MenusKept

\* What starts while its opposite is in flight is remembered.
LEMMA ClashTells ==
  ASSUME NEW p \in Desk, NEW r, Asks(p, r), NEW q \in Desk
  PROVE  /\ clash \subseteq clash'
         /\ (r.op = "deleteUser" /\ desk[q].op = "deleteUser") => "users" \in clash'
         /\ {r.op, desk[q].op} = {"deleteRole", "saveUser"} => "roles" \in clash'
         /\ {r.op, desk[q].op} = {"deleteMenu", "saveMenu"} => "menus" \in clash'
<1>1. /\ clash \subseteq clash'
      /\ Over({r.op, desk[q].op}) \subseteq clash'
  BY DEF Asks
<1>2. (r.op = "deleteUser" /\ desk[q].op = "deleteUser") => "users" \in Over({r.op, desk[q].op})
  BY DEF Over
<1>3. {r.op, desk[q].op} = {"deleteRole", "saveUser"} => "roles" \in Over({r.op, desk[q].op})
  BY DEF Over
<1>4. {r.op, desk[q].op} = {"deleteMenu", "saveMenu"} => "menus" \in Over({r.op, desk[q].op})
  BY DEF Over
<1> QED
  BY <1>1, <1>2, <1>3, <1>4

\* A request may start when what it has counted and looked up allows it.
LEMMA AsksKeeps ==
  ASSUME PlatformInv, NEW p \in Desk, NEW r \in DeskShape, Asks(p, r),
         r.op = "saveUser" => r.roles \subseteq PRoles,
         r.op = "deleteUser" => \E v \in Operators : v # r.u,
         r.op = "deleteRole" => ~InUse(r.r),
         r.op = "saveMenu" => r.copy.parent \in PMenus \union {Top},
         r.op = "deleteMenu" => Children(r.k) = {}
  PROVE  PlatformInv'
<1>1. /\ UNCHANGED <<operator, duty, prole, pmenu, token>> /\ desk[p] = NoDesk
      /\ desk' \in [Desk -> DeskShape]
      /\ \A q \in Desk : desk'[q] = IF q = p THEN r ELSE desk[q]
      /\ clash' \subseteq {"users", "roles", "menus"}
  BY DEF PlatformInv, PlatformShape, Asks, Over
<1>2. PlatformShape'
  BY <1>1 DEF PlatformInv, PlatformShape
<1>3. "users" \notin clash' => UsersLeft'
  BY <1>1, ClashTells DEF PlatformInv, UsersLeft, Operators
<1>4. "roles" \notin clash' => DutiesKept'
  BY <1>1, ClashTells DEF PlatformInv, DutiesKept, PRoles, InUse
<1>5. "menus" \notin clash' => MenusKept'
  BY <1>1, ClashTells DEF PlatformInv, MenusKept, PMenus, Children
<1> QED
  BY <1>2, <1>3, <1>4, <1>5 DEF PlatformInv

LEMMA UserRequestsKeep ==
  ASSUME PlatformInv, NEW p \in Desk, NEW u \in Operator,
         \/ \E on \in BOOLEAN, roles \in SUBSET PRole : SaveOperator(p, u, on, roles)
         \/ \E on \in BOOLEAN, cur \in Operator : UpdateUserStatus(p, u, on, cur)
         \/ \E cur \in Operator : DeleteUser(p, u, cur)
  PROVE  PlatformInv'
<1>1. ASSUME NEW on \in BOOLEAN, NEW roles \in SUBSET PRole, SaveOperator(p, u, on, roles)
      PROVE  PlatformInv'
  <2> DEFINE r == [op |-> "saveUser", u |-> u, copy |-> [active |-> on], roles |-> roles]
  <2>1. r \in DeskShape /\ r.op = "saveUser" /\ r.roles = roles
    BY DEF DeskShape, OperatorRow
  <2>2. Asks(p, r) /\ roles \subseteq PRoles
    BY <1>1 DEF SaveOperator
  <2> HIDE DEF r
  <2> QED
    BY <2>1, <2>2, AsksKeeps
<1>2. ASSUME NEW on \in BOOLEAN, NEW cur \in Operator, UpdateUserStatus(p, u, on, cur)
      PROVE  PlatformInv'
  <2> DEFINE r == [op |-> "status", u |-> u, copy |-> [active |-> on]]
  <2>1. r \in DeskShape /\ r.op = "status"
    BY DEF DeskShape, OperatorRow
  <2>2. Asks(p, r)
    BY <1>2 DEF UpdateUserStatus
  <2> HIDE DEF r
  <2> QED
    BY <2>1, <2>2, AsksKeeps
<1>3. ASSUME NEW cur \in Operator, DeleteUser(p, u, cur)
      PROVE  PlatformInv'
  <2> DEFINE r == [op |-> "deleteUser", u |-> u]
  <2>1. r \in DeskShape /\ r.op = "deleteUser" /\ r.u = u
    BY DEF DeskShape
  <2>2. Asks(p, r)
    BY <1>3 DEF DeleteUser
  <2>3. \E v \in Operators : v # u
    <3>1. u \in Operators /\ Cardinality(Operators) > 1
      BY <1>3 DEF DeleteUser, MayDelete, Operators
    <3>2. Cardinality({u}) = 1
      BY FS_Singleton
    <3>3. Operators # {u}
      BY <3>1, <3>2
    <3> QED
      BY <3>1, <3>3
  <2> HIDE DEF r
  <2> QED
    BY <2>1, <2>2, <2>3, AsksKeeps
<1> QED
  BY <1>1, <1>2, <1>3

LEMMA RoleAndMenuRequestsKeep ==
  ASSUME PlatformInv, NEW p \in Desk,
         \/ \E r \in PRole, menus \in SUBSET PMenu : SavePRole(p, r, menus)
         \/ \E r \in PRole : DeletePRole(p, r)
         \/ \E k \in PMenu, parent \in PMenu \union {Top}, type \in {"MENU", "BUTTON"} :
              SaveMenu(p, k, parent, type)
         \/ \E k \in PMenu : DeleteMenu(p, k)
  PROVE  PlatformInv'
<1>1. ASSUME NEW r \in PRole, NEW menus \in SUBSET PMenu, SavePRole(p, r, menus)
      PROVE  PlatformInv'
  <2> DEFINE d == [op |-> "saveRole", r |-> r, copy |-> PRoleCopy(r, menus)]
  <2>1. PRoleCopy(r, menus) \in PRoleRow
    BY DEF PRoleCopy, PRoleRow, PlatformInv, PlatformShape
  <2>2. d \in DeskShape /\ d.op = "saveRole"
    BY <2>1 DEF DeskShape
  <2>3. Asks(p, d)
    BY <1>1 DEF SavePRole
  <2> HIDE DEF d
  <2> QED
    BY <2>2, <2>3, AsksKeeps
<1>2. ASSUME NEW r \in PRole, DeletePRole(p, r)
      PROVE  PlatformInv'
  <2> DEFINE d == [op |-> "deleteRole", r |-> r]
  <2>1. d \in DeskShape /\ d.op = "deleteRole" /\ d.r = r
    BY DEF DeskShape
  <2>2. Asks(p, d) /\ ~InUse(r)
    BY <1>2 DEF DeletePRole
  <2> HIDE DEF d
  <2> QED
    BY <2>1, <2>2, AsksKeeps
<1>3. ASSUME NEW k \in PMenu, NEW parent \in PMenu \union {Top}, NEW type \in {"MENU", "BUTTON"},
             SaveMenu(p, k, parent, type)
      PROVE  PlatformInv'
  <2> DEFINE d == [op |-> "saveMenu", k |-> k, copy |-> [parent |-> parent, type |-> type]]
  <2>1. d \in DeskShape /\ d.op = "saveMenu" /\ d.copy.parent = parent
    BY DEF DeskShape, PMenuRow
  <2>2. Asks(p, d) /\ parent \in PMenus \union {Top}
    BY <1>3 DEF SaveMenu, PMenus
  <2> HIDE DEF d
  <2> QED
    BY <2>1, <2>2, AsksKeeps
<1>4. ASSUME NEW k \in PMenu, DeleteMenu(p, k)
      PROVE  PlatformInv'
  <2> DEFINE d == [op |-> "deleteMenu", k |-> k]
  <2>1. d \in DeskShape /\ d.op = "deleteMenu" /\ d.k = k
    BY DEF DeskShape
  <2>2. Asks(p, d) /\ Children(k) = {}
    BY <1>4 DEF DeleteMenu
  <2> HIDE DEF d
  <2> QED
    BY <2>1, <2>2, AsksKeeps
<1> QED
  BY <1>1, <1>2, <1>3, <1>4

\* A request that ends frees its desk.
LEMMA AnswersShape ==
  ASSUME PlatformShape, NEW p \in Desk, Answers(p)
  PROVE  /\ UNCHANGED <<token, clash>> /\ desk' \in [Desk -> DeskShape]
         /\ \A q \in Desk : desk'[q] = IF q = p THEN NoDesk ELSE desk[q]
         /\ NoDesk.op = "none"
BY DEF PlatformShape, Answers, DeskShape, NoDesk

\* The user is there when its row is written; the roles it gets are there while none goes.
LEMMA UserCommitsKeep ==
  ASSUME PlatformInv, NEW p \in Desk, CommitOperator(p) \/ CommitStatus(p) \/ CommitDeleteUser(p)
  PROVE  PlatformInv'
<1>1. PlatformShape /\ desk[p] \in DeskShape
  BY DEF PlatformInv, PlatformShape
<1>2. /\ UNCHANGED <<token, clash>> /\ desk' \in [Desk -> DeskShape]
      /\ \A q \in Desk : desk'[q] = IF q = p THEN NoDesk ELSE desk[q]
      /\ NoDesk.op = "none"
  BY <1>1, AnswersShape DEF CommitOperator, CommitStatus, CommitDeleteUser
<1>3. UNCHANGED <<prole, pmenu>>
  BY DEF CommitOperator, CommitStatus, CommitDeleteUser
<1>4. /\ operator' \in [Operator -> OperatorRow \union {Absent}]
      /\ duty' \in [Operator -> SUBSET PRole]
      /\ \/ Operators \subseteq Operators' /\ Operators' # {}
         \/ /\ desk[p].op = "deleteUser"
            /\ Operators' = Operators \ {desk[p].u}
      /\ \A u \in Operator : \/ duty'[u] = duty[u] \/ duty'[u] = {}
                             \/ desk[p].op = "saveUser" /\ duty'[u] = desk[p].roles
  <2>1. CASE CommitOperator(p)
    <3>1. /\ desk[p].u \in Operator /\ desk[p].copy \in OperatorRow /\ desk[p].roles \subseteq PRole
          /\ desk[p].copy # Absent
      BY <1>1, <2>1, DeskKinds, RowsPresent DEF CommitOperator
    <3> QED
      BY <1>1, <2>1, <3>1 DEF CommitOperator, PlatformShape, Operators
  <2>2. CASE CommitStatus(p)
    <3>1. /\ desk[p].u \in Operator /\ desk[p].copy \in OperatorRow
          /\ desk[p].copy # Absent
      BY <1>1, <2>2, DeskKinds, RowsPresent DEF CommitStatus
    <3> QED
      BY <1>1, <2>2, <3>1 DEF CommitStatus, PlatformShape, Operators
  <2>3. CASE CommitDeleteUser(p)
    <3>1. desk[p].u \in Operator
      BY <1>1, <2>3, DeskKinds DEF CommitDeleteUser
    <3> QED
      BY <1>1, <2>3, <3>1 DEF CommitDeleteUser, PlatformShape, Operators
  <2> QED
    BY <2>1, <2>2, <2>3
<1>5. PlatformShape'
  BY <1>1, <1>2, <1>3, <1>4 DEF PlatformShape
<1>6. UsersLeft => UsersLeft'
  <2> SUFFICES ASSUME UsersLeft PROVE UsersLeft'
    OBVIOUS
  <2>1. CASE Operators \subseteq Operators' /\ Operators' # {}
    BY <1>2, <2>1 DEF UsersLeft
  <2>2. CASE desk[p].op = "deleteUser" /\ Operators' = Operators \ {desk[p].u}
    BY <1>2, <2>2 DEF UsersLeft
  <2> QED
    BY <1>4, <2>1, <2>2
<1>7. DutiesKept => DutiesKept'
  <2> SUFFICES ASSUME DutiesKept PROVE DutiesKept'
    OBVIOUS
  <2>1. PRoles' = PRoles
    BY <1>3 DEF PRoles
  <2>2. \A u \in Operator : duty'[u] \subseteq PRoles'
    BY <1>4, <2>1 DEF DutiesKept
  <2>3. ASSUME NEW q \in Desk, desk'[q].op = "deleteRole"
        PROVE  ~InUse(desk[q].r)'
    BY <1>2, <1>4, <2>3 DEF DutiesKept, InUse
  <2> QED
    BY <1>2, <2>1, <2>2, <2>3 DEF DutiesKept
<1>8. MenusKept => MenusKept'
  BY <1>2, <1>3 DEF MenusKept, PMenus, Children
<1> QED
  BY <1>2, <1>5, <1>6, <1>7, <1>8 DEF PlatformInv

\* The role that goes is held by nobody; one that is saved is there.
LEMMA RoleCommitsKeep ==
  ASSUME PlatformInv, NEW p \in Desk, CommitPRole(p) \/ CommitDeletePRole(p)
  PROVE  PlatformInv'
<1>1. PlatformShape /\ desk[p] \in DeskShape
  BY DEF PlatformInv, PlatformShape
<1>2. /\ UNCHANGED <<token, clash>> /\ desk' \in [Desk -> DeskShape]
      /\ \A q \in Desk : desk'[q] = IF q = p THEN NoDesk ELSE desk[q]
      /\ NoDesk.op = "none"
  BY <1>1, AnswersShape DEF CommitPRole, CommitDeletePRole
<1>3. UNCHANGED <<operator, duty, pmenu>>
  BY DEF CommitPRole, CommitDeletePRole
<1>4. /\ prole' \in [PRole -> PRoleRow \union {Absent}]
      /\ \/ PRoles \subseteq PRoles'
         \/ /\ desk[p].op = "deleteRole"
            /\ PRoles' = PRoles \ {desk[p].r}
  <2>1. CASE CommitPRole(p)
    <3>1. desk[p].r \in PRole /\ desk[p].copy \in PRoleRow /\ desk[p].copy # Absent
      BY <1>1, <2>1, DeskKinds, RowsPresent DEF CommitPRole
    <3> QED
      BY <1>1, <2>1, <3>1 DEF CommitPRole, PlatformShape, PRoles
  <2>2. CASE CommitDeletePRole(p)
    <3>1. desk[p].r \in PRole
      BY <1>1, <2>2, DeskKinds DEF CommitDeletePRole
    <3> QED
      BY <1>1, <2>2, <3>1 DEF CommitDeletePRole, PlatformShape, PRoles
  <2> QED
    BY <2>1, <2>2
<1>5. PlatformShape'
  BY <1>1, <1>2, <1>3, <1>4 DEF PlatformShape
<1>6. UsersLeft => UsersLeft'
  BY <1>2, <1>3 DEF UsersLeft, Operators
<1>7. DutiesKept => DutiesKept'
  <2> SUFFICES ASSUME DutiesKept PROVE DutiesKept'
    OBVIOUS
  <2>1. CASE PRoles \subseteq PRoles'
    BY <1>2, <1>3, <2>1 DEF DutiesKept, InUse
  <2>2. CASE desk[p].op = "deleteRole" /\ PRoles' = PRoles \ {desk[p].r}
    <3>1. \A u \in Operator : duty'[u] \subseteq PRoles'
      BY <1>3, <2>2 DEF DutiesKept, InUse
    <3>2. \A q \in Desk : desk[q].op # "saveUser"
      BY <2>2 DEF DutiesKept
    <3> QED
      BY <1>2, <1>3, <3>1, <3>2 DEF DutiesKept, InUse
  <2> QED
    BY <1>4, <2>1, <2>2
<1>8. MenusKept => MenusKept'
  BY <1>2, <1>3 DEF MenusKept, PMenus, Children
<1> QED
  BY <1>2, <1>5, <1>6, <1>7, <1>8 DEF PlatformInv

\* The menu that goes has none below it; one that is saved is hung below one that stays.
LEMMA MenuCommitsKeep ==
  ASSUME PlatformInv, NEW p \in Desk, CommitMenu(p) \/ CommitDeleteMenu(p)
  PROVE  PlatformInv'
<1>1. PlatformShape /\ desk[p] \in DeskShape
  BY DEF PlatformInv, PlatformShape
<1>2. /\ UNCHANGED <<token, clash>> /\ desk' \in [Desk -> DeskShape]
      /\ \A q \in Desk : desk'[q] = IF q = p THEN NoDesk ELSE desk[q]
      /\ NoDesk.op = "none"
  BY <1>1, AnswersShape DEF CommitMenu, CommitDeleteMenu
<1>3. UNCHANGED <<operator, duty>>
  BY DEF CommitMenu, CommitDeleteMenu
<1>4. /\ prole' \in [PRole -> PRoleRow \union {Absent}] /\ PRoles' = PRoles
      /\ pmenu' \in [PMenu -> PMenuRow \union {Absent}]
  <2>1. CASE CommitMenu(p)
    <3>1. desk[p].k \in PMenu /\ desk[p].copy \in PMenuRow
      BY <1>1, <2>1, DeskKinds DEF CommitMenu
    <3> QED
      BY <1>1, <2>1, <3>1 DEF CommitMenu, PlatformShape, PRoles
  <2>2. CASE CommitDeleteMenu(p)
    <3>1. desk[p].k \in PMenu
      BY <1>1, <2>2, DeskKinds DEF CommitDeleteMenu
    <3>2. ASSUME NEW r \in PRole, prole[r] # Absent
          PROVE  [prole[r] EXCEPT !.menus = @ \ {desk[p].k}] \in PRoleRow
      BY <1>1, <3>2 DEF PlatformShape, PRoleRow
    <3> QED
      BY <1>1, <2>2, <3>1, <3>2, RowsPresent DEF CommitDeleteMenu, PlatformShape, PRoles
  <2> QED
    BY <2>1, <2>2
<1>5. PlatformShape'
  BY <1>1, <1>2, <1>3, <1>4 DEF PlatformShape
<1>6. UsersLeft => UsersLeft'
  BY <1>2, <1>3 DEF UsersLeft, Operators
<1>7. DutiesKept => DutiesKept'
  BY <1>2, <1>3, <1>4 DEF DutiesKept, InUse
<1>8. MenusKept => MenusKept'
  <2> SUFFICES ASSUME MenusKept PROVE MenusKept'
    OBVIOUS
  <2>1. CASE CommitMenu(p)
    <3> DEFINE k == desk[p].k
               row == desk[p].copy
    <3>1. /\ k \in PMenu /\ row # Absent /\ row.parent \in PMenus \union {Top}
          /\ \A c \in PMenu : pmenu'[c] = IF c = k THEN row ELSE pmenu[c]
          /\ \A q \in Desk : desk[q].op # "deleteMenu"
      BY <1>1, <2>1, DeskKinds, RowsPresent DEF CommitMenu, PlatformShape, MenusKept
    <3>2. PMenus \subseteq PMenus'
      BY <3>1 DEF PMenus
    <3>3. \A c \in PMenus' : pmenu'[c].parent \in PMenus' \union {Top}
      BY <3>1, <3>2 DEF PMenus, MenusKept
    <3>4. \A q \in Desk : desk'[q].op = "saveMenu" =>
            desk'[q].copy.parent \in PMenus' \union {Top}
      BY <1>2, <3>2 DEF MenusKept
    <3> QED
      BY <1>2, <3>1, <3>3, <3>4 DEF MenusKept
  <2>2. CASE CommitDeleteMenu(p)
    <3> DEFINE k == desk[p].k
    <3>1. /\ k \in PMenu /\ desk[p].op = "deleteMenu"
          /\ \A c \in PMenu : pmenu'[c] = IF c = k THEN Absent ELSE pmenu[c]
      BY <1>1, <2>2, DeskKinds DEF CommitDeleteMenu, PlatformShape
    <3>2. PMenus' = PMenus \ {k} /\ Children(k) = {}
      BY <3>1 DEF PMenus, MenusKept
    <3>3. \A c \in PMenus' : pmenu'[c].parent \in PMenus' \union {Top}
      BY <3>1, <3>2 DEF PMenus, MenusKept, Children
    <3>4. \A q \in Desk : desk[q].op # "saveMenu"
      BY <3>1 DEF MenusKept
    <3>5. \A q \in Desk : desk'[q].op = "deleteMenu" => Children(desk[q].k)' = {}
      BY <1>2, <3>1, <3>2 DEF MenusKept, Children, PMenus
    <3> QED
      BY <1>2, <3>3, <3>4, <3>5 DEF MenusKept
  <2> QED
    BY <2>1, <2>2
<1> QED
  BY <1>2, <1>5, <1>6, <1>7, <1>8 DEF PlatformInv

LEMMA PlatformStepsKeep ==
  ASSUME PlatformInv, [PlatformNext]_platformVars
  PROVE  PlatformInv'
<1>1. ASSUME NEW u \in Operator, LogIn(u)
      PROVE  PlatformInv'
  BY <1>1 DEF LogIn, PlatformInv, PlatformShape, UsersLeft, DutiesKept, MenusKept, Operators,
     PRoles, PMenus, InUse, Children
<1>2. CASE PlatformNext
  BY <1>1, <1>2, UserRequestsKeep, RoleAndMenuRequestsKeep, UserCommitsKeep, RoleCommitsKeep,
     MenuCommitsKeep DEF PlatformNext
<1>3. CASE UNCHANGED platformVars
  BY <1>3 DEF platformVars, PlatformInv, PlatformShape, UsersLeft, DutiesKept, MenusKept,
     Operators, PRoles, PMenus, InUse, Children
<1> QED
  BY <1>2, <1>3

LEMMA PlatformInvShows ==
  ASSUME PlatformInv
  PROVE  PlatformTypeOK /\ SomeoneRemains /\ DutyExists /\ ParentExists
<1>1. PlatformTypeOK
  <2>1. ASSUME NEW p \in Desk
        PROVE  \/ desk[p] = NoDesk
               \/ desk[p] \in [op : {"saveUser"}, u : Operator, copy : OperatorRow,
                               roles : SUBSET PRole]
               \/ desk[p] \in [op : {"status"}, u : Operator, copy : OperatorRow]
               \/ desk[p] \in [op : {"deleteUser"}, u : Operator]
               \/ desk[p] \in [op : {"saveRole"}, r : PRole, copy : PRoleRow]
               \/ desk[p] \in [op : {"deleteRole"}, r : PRole]
               \/ desk[p] \in [op : {"saveMenu"}, k : PMenu, copy : PMenuRow]
               \/ desk[p] \in [op : {"deleteMenu"}, k : PMenu]
    <3>1. desk[p] \in DeskShape
      BY DEF PlatformInv, PlatformShape
    <3> QED
      BY <3>1 DEF DeskShape
  <2> QED
    BY <2>1 DEF PlatformInv, PlatformShape, PlatformTypeOK
<1>2. DutyExists
  BY DEF PlatformInv, DutiesKept, DutyExists
<1> QED
  BY <1>1, <1>2 DEF PlatformInv, UsersLeft, SomeoneRemains, MenusKept, ParentExists

(* The platform keeps a user, what users hold and what menus hang below is there,      *)
(* unless two requests that undo each other's check overlapped: for any users, roles   *)
(* and menus, with tokens of removed users still good (admin-platform.service).        *)
THEOREM PlatformKept ==
  PlatformSpec => [](PlatformTypeOK /\ SomeoneRemains /\ DutyExists /\ ParentExists)
<1>1. PlatformInit => PlatformInv
  BY PlatformStart
<1>2. PlatformInv /\ [PlatformNext]_platformVars => PlatformInv'
  BY PlatformStepsKeep
<1>3. PlatformInv => PlatformTypeOK /\ SomeoneRemains /\ DutyExists /\ ParentExists
  BY PlatformInvShows
<1> QED
  BY <1>1, <1>2, <1>3, PTL DEF PlatformSpec

-----------------------------------------------------------------------------
(* The users of a tenant: roles and users stay with their company *)

WorkShape ==
  {NoWork}
  \union [op : {"grant"}, f : Firm, items : SUBSET Item]
  \union [op : {"role"}, r : Role, copy : RoleRow]
  \union [op : {"dropRole"}, r : Role]
  \union [op : {"staff"}, u : Staff, copy : StaffRow, keep : BOOLEAN]
  \union [op : {"dropStaff"}, u : Staff]

AccessShape ==
  /\ grant \in [Firm -> SUBSET Item]
  /\ role \in [Role -> RoleRow \union {Missing, Removed}]
  /\ staff \in [Staff -> StaffRow \union {Missing, Removed}]
  /\ work \in [Worker -> WorkShape]

\* A role of the company, removed and about to come back or not.
RoleOf(f, r) ==
  /\ role[r] # Missing
  /\ Exists(role[r]) => role[r].firm = f
  /\ \A q \in Worker : (work[q].op = "role" /\ work[q].r = r) => work[q].copy.firm = f

\* Copies of a role or a user are of the company that the row is of.
OneFirm ==
  /\ \A p \in Worker : work[p].op = "role" =>
       /\ Exists(role[work[p].r]) => role[work[p].r].firm = work[p].copy.firm
       /\ \A q \in Worker : (work[q].op = "role" /\ work[q].r = work[p].r) =>
            work[q].copy.firm = work[p].copy.firm
  /\ \A p \in Worker : work[p].op = "staff" =>
       /\ Exists(staff[work[p].u]) => staff[work[p].u].firm = work[p].copy.firm
       /\ \A q \in Worker : (work[q].op = "staff" /\ work[q].u = work[p].u) =>
            work[q].copy.firm = work[p].copy.firm

\* Users hold roles of their own company, and so they do in the copies to be saved.
RolesFit ==
  /\ \A u \in Staff : Exists(staff[u]) => \A r \in staff[u].roles : RoleOf(staff[u].firm, r)
  /\ \A p \in Worker : work[p].op = "staff" =>
       \A r \in work[p].copy.roles : RoleOf(work[p].copy.firm, r)

AccessInv == AccessShape /\ OneFirm /\ RolesFit

\* What a request is going to write, by its kind.
LEMMA WorkKinds ==
  ASSUME NEW w \in WorkShape
  PROVE  /\ w.op = "grant" => w.f \in Firm /\ w.items \in SUBSET Item
         /\ w.op = "role" => w.r \in Role /\ w.copy \in RoleRow
         /\ w.op = "dropRole" => w.r \in Role
         /\ w.op = "staff" => w.u \in Staff /\ w.copy \in StaffRow /\ w.keep \in BOOLEAN
         /\ w.op = "dropStaff" => w.u \in Staff
BY DEF WorkShape, NoWork

\* A row that is there has all its columns.
LEMMA RowsThere ==
  ASSUME AccessShape
  PROVE  /\ \A r \in Role : Exists(role[r]) => role[r] \in RoleRow /\ role[r] # Missing
         /\ \A u \in Staff : Exists(staff[u]) => staff[u] \in StaffRow /\ staff[u] # Missing
         /\ ~Exists(Missing) /\ ~Exists(Removed) /\ Removed # Missing
         /\ \A row \in RoleRow \union StaffRow : Exists(row)
<1>1. ~Exists(Missing) /\ ~Exists(Removed)
  BY DEF Exists, Missing, Removed
<1>2. Removed # Missing
  BY DEF Missing, Removed
<1>3. \A row \in RoleRow \union StaffRow : Exists(row)
  BY AccessAssumption DEF Exists, RoleRow, StaffRow
<1> QED
  BY <1>1, <1>2, <1>3 DEF AccessShape

\* Tenants that are there start with the role that onboarding made for each.
LEMMA AccessStart ==
  ASSUME AccessInit
  PROVE  AccessInv
<1>1. AccessShape
  <2>1. ASSUME NEW r \in Role PROVE role[r] \in RoleRow \union {Missing, Removed}
    <3>1. CASE \E f \in Firm : AdminRole[f] = r
      <4>1. (CHOOSE f \in Firm : AdminRole[f] = r) \in Firm
        BY <3>1
      <4> QED
        BY <3>1, <4>1 DEF AccessInit, RoleRow
    <3>2. CASE ~\E f \in Firm : AdminRole[f] = r
      BY <3>2 DEF AccessInit
    <3> QED
      BY <3>1, <3>2
  <2>2. role \in [Role -> RoleRow \union {Missing, Removed}]
    BY <2>1 DEF AccessInit
  <2> QED
    BY <2>2 DEF AccessInit, AccessShape, WorkShape
<1>2. \A p \in Worker : work[p].op = "none"
  BY DEF AccessInit, NoWork
<1>3. \A u \in Staff : ~Exists(staff[u])
  BY <1>1, RowsThere DEF AccessInit
<1> QED
  BY <1>1, <1>2, <1>3 DEF AccessInv, OneFirm, RolesFit

\* A request may start that is about a row of the company, or a row to be, and gives
\* none but roles of the company.
LEMMA DoesKeeps ==
  ASSUME AccessInv, NEW p \in Worker, NEW w \in WorkShape, Does(p, w),
         w.op = "role" =>
           \/ role[w.r].firm = w.copy.firm
           \/ role[w.r] = Missing /\ ~\E q \in Worker : work[q].op = "role" /\ work[q].r = w.r,
         w.op = "staff" =>
           /\ \/ staff[w.u].firm = w.copy.firm
              \/ staff[w.u] = Missing
                 /\ ~\E q \in Worker : work[q].op = "staff" /\ work[q].u = w.u
           /\ \A r \in w.copy.roles : RoleOf(w.copy.firm, r)
  PROVE  AccessInv'
<1>1. /\ AccessShape /\ OneFirm /\ RolesFit
      /\ work \in [Worker -> WorkShape]
  BY DEF AccessInv, AccessShape
<1>2. /\ UNCHANGED <<grant, role, staff>> /\ work[p] = NoWork
      /\ \A q \in Worker : work'[q] = IF q = p THEN w ELSE work[q]
      /\ work' \in [Worker -> WorkShape]
  BY <1>1 DEF Does
<1>3. AccessShape'
  BY <1>1, <1>2 DEF AccessShape
<1>4. /\ w.op = "role" => w.r \in Role /\ w.copy.firm \in Firm
      /\ w.op = "staff" => w.u \in Staff /\ w.copy.firm \in Firm /\ w.copy.roles \subseteq Role
  BY WorkKinds DEF RoleRow, StaffRow
<1>5. w.op = "role" =>
        /\ Exists(role[w.r]) => role[w.r].firm = w.copy.firm
        /\ \A q \in Worker : (work[q].op = "role" /\ work[q].r = w.r) =>
             work[q].copy.firm = w.copy.firm
  BY <1>1, <1>4, RowsThere, AccessAssumption DEF OneFirm, Exists
<1>6. w.op = "staff" =>
        /\ Exists(staff[w.u]) => staff[w.u].firm = w.copy.firm
        /\ \A q \in Worker : (work[q].op = "staff" /\ work[q].u = w.u) =>
             work[q].copy.firm = w.copy.firm
  BY <1>1, <1>4, RowsThere, AccessAssumption DEF OneFirm, Exists
<1>7. OneFirm'
  <2>1. ASSUME NEW q \in Worker, work'[q].op = "role"
        PROVE  /\ Exists(role'[work'[q].r]) => role'[work'[q].r].firm = work'[q].copy.firm
               /\ \A o \in Worker : (work'[o].op = "role" /\ work'[o].r = work'[q].r) =>
                    work'[o].copy.firm = work'[q].copy.firm
    BY <1>1, <1>2, <1>5, <2>1 DEF OneFirm, Exists
  <2>2. ASSUME NEW q \in Worker, work'[q].op = "staff"
        PROVE  /\ Exists(staff'[work'[q].u]) => staff'[work'[q].u].firm = work'[q].copy.firm
               /\ \A o \in Worker : (work'[o].op = "staff" /\ work'[o].u = work'[q].u) =>
                    work'[o].copy.firm = work'[q].copy.firm
    BY <1>1, <1>2, <1>6, <2>2 DEF OneFirm, Exists
  <2> QED
    BY <2>1, <2>2 DEF OneFirm, Exists
<1>8. ASSUME NEW f, NEW r \in Role, RoleOf(f, r) PROVE RoleOf(f, r)'
  <2>1. (w.op = "role" /\ w.r = r) => w.copy.firm = f
    BY <1>1, <1>4, <1>8, RowsThere, AccessAssumption DEF RoleOf, Exists
  <2> QED
    BY <1>2, <1>8, <2>1 DEF RoleOf, Exists
<1>9. RolesFit'
  <2>1. ASSUME NEW u \in Staff, Exists(staff[u]), NEW r \in staff[u].roles
        PROVE  RoleOf(staff[u].firm, r)'
    <3>1. r \in Role
      BY <1>1, <2>1, RowsThere DEF StaffRow
    <3>2. RoleOf(staff[u].firm, r)
      BY <1>1, <2>1 DEF RolesFit
    <3>3. PICK f : f = staff[u].firm
      OBVIOUS
    <3> QED
      BY <1>2, <1>8, <3>1, <3>2, <3>3
  <2>2. ASSUME NEW q \in Worker, work'[q].op = "staff", NEW r \in work'[q].copy.roles
        PROVE  RoleOf(work[q].copy.firm, r)'
    <3>1. PICK f, s : f = work'[q].copy.firm /\ s = work'[q].copy.roles
      OBVIOUS
    <3>2. r \in Role /\ RoleOf(f, r)
      BY <1>1, <1>2, <1>4, <2>2, <3>1, WorkKinds DEF RolesFit, StaffRow
    <3> QED
      BY <1>8, <3>1, <3>2
  <2> QED
    BY <1>2, <2>1, <2>2 DEF RolesFit, Exists
<1> QED
  BY <1>3, <1>7, <1>9 DEF AccessInv

\* Whatever starts is about rows of the company that asks.
LEMMA AccessStartsKeep ==
  ASSUME AccessInv, NEW p \in Worker, NEW f \in Firm,
         \/ \E items \in SUBSET Item : SaveTenantMenuGrant(p, f, items)
         \/ \E r \in Role, menus \in SUBSET Item :
              CreateRole(p, f, r, menus) \/ UpdateRole(p, f, r, menus)
         \/ \E r \in Role, on \in BOOLEAN : UpdateRoleStatus(p, f, r, on)
         \/ \E r \in Role : RemoveRole(p, f, r)
         \/ \E u \in Staff : RemoveStaff(p, f, u)
  PROVE  AccessInv'
<1> USE DEF AccessInv
<1>1. ASSUME NEW items \in SUBSET Item, SaveTenantMenuGrant(p, f, items)
      PROVE  AccessInv'
  <2> DEFINE w == [op |-> "grant", f |-> f, items |-> items]
  <2>1. w \in WorkShape /\ w.op = "grant"
    BY DEF WorkShape
  <2>2. Does(p, w)
    BY <1>1 DEF SaveTenantMenuGrant
  <2> HIDE DEF w
  <2> QED
    BY <2>1, <2>2, DoesKeeps
<1>2. ASSUME NEW r \in Role, NEW menus \in SUBSET Item, CreateRole(p, f, r, menus)
      PROVE  AccessInv'
  <2> DEFINE w == [op |-> "role", r |-> r,
                   copy |-> [firm |-> f, active |-> TRUE, menus |-> menus]]
  <2>1. w \in WorkShape /\ w.op = "role" /\ w.r = r
    BY DEF WorkShape, RoleRow
  <2>2. Does(p, w)
    BY <1>2 DEF CreateRole
  <2>3. role[r] = Missing /\ ~\E q \in Worker : work[q].op = "role" /\ work[q].r = r
    BY <1>2 DEF CreateRole
  <2> HIDE DEF w
  <2> QED
    BY <2>1, <2>2, <2>3, DoesKeeps
<1>3. ASSUME NEW r \in Role, role[r].firm = f, NEW copy \in RoleRow, copy.firm = f,
             Does(p, [op |-> "role", r |-> r, copy |-> copy])
      PROVE  AccessInv'
  <2> DEFINE w == [op |-> "role", r |-> r, copy |-> copy]
  <2>1. w \in WorkShape /\ w.op = "role" /\ w.r = r /\ w.copy = copy
    BY DEF WorkShape
  <2>2. Does(p, w)
    BY <1>3
  <2> HIDE DEF w
  <2> QED
    BY <1>3, <2>1, <2>2, DoesKeeps
<1>4. ASSUME NEW r \in Role, role[r].firm = f
      PROVE  role[r] \in RoleRow
  BY <1>4, RowsThere, AccessAssumption DEF Exists
<1>5. ASSUME NEW r \in Role, NEW menus \in SUBSET Item, UpdateRole(p, f, r, menus)
      PROVE  AccessInv'
  <2>1. [role[r] EXCEPT !.menus = menus] \in RoleRow
        /\ [role[r] EXCEPT !.menus = menus].firm = f
    BY <1>4, <1>5 DEF UpdateRole, RoleRow
  <2> QED
    BY <1>3, <1>5, <2>1 DEF UpdateRole
<1>6. ASSUME NEW r \in Role, NEW on \in BOOLEAN, UpdateRoleStatus(p, f, r, on)
      PROVE  AccessInv'
  <2>1. [role[r] EXCEPT !.active = on] \in RoleRow /\ [role[r] EXCEPT !.active = on].firm = f
    BY <1>4, <1>6 DEF UpdateRoleStatus, RoleRow
  <2> QED
    BY <1>3, <1>6, <2>1 DEF UpdateRoleStatus
<1>7. ASSUME NEW r \in Role, RemoveRole(p, f, r)
      PROVE  AccessInv'
  <2> DEFINE w == [op |-> "dropRole", r |-> r]
  <2>1. w \in WorkShape /\ w.op = "dropRole"
    BY DEF WorkShape
  <2>2. Does(p, w)
    BY <1>7 DEF RemoveRole
  <2> HIDE DEF w
  <2> QED
    BY <2>1, <2>2, DoesKeeps
<1>8. ASSUME NEW u \in Staff, RemoveStaff(p, f, u)
      PROVE  AccessInv'
  <2> DEFINE w == [op |-> "dropStaff", u |-> u]
  <2>1. w \in WorkShape /\ w.op = "dropStaff"
    BY DEF WorkShape
  <2>2. Does(p, w)
    BY <1>8 DEF RemoveStaff
  <2> HIDE DEF w
  <2> QED
    BY <2>1, <2>2, DoesKeeps
<1> QED
  BY <1>1, <1>2, <1>5, <1>6, <1>7, <1>8

\* Roles that may be given are of the company, and so are those that were given before.
LEMMA StaffStartsKeep ==
  ASSUME AccessInv, NEW p \in Worker, NEW f \in Firm, NEW u \in Staff,
         \/ \E roles \in SUBSET Role : SaveStaff(p, f, u, roles) \/ UpdateStaff(p, f, u, roles)
         \/ \E on \in BOOLEAN : TouchStaff(p, f, u, on)
  PROVE  AccessInv'
<1>1. AccessShape /\ OneFirm /\ RolesFit
  BY DEF AccessInv
<1>2. ASSUME NEW copy \in StaffRow, copy.firm = f, NEW keep \in BOOLEAN,
             \/ staff[u].firm = f
             \/ staff[u] = Missing /\ ~\E q \in Worker : work[q].op = "staff" /\ work[q].u = u,
             \A r \in copy.roles : RoleOf(f, r),
             Does(p, [op |-> "staff", u |-> u, copy |-> copy, keep |-> keep])
      PROVE  AccessInv'
  <2> DEFINE w == [op |-> "staff", u |-> u, copy |-> copy, keep |-> keep]
  <2>1. w \in WorkShape /\ w.op = "staff" /\ w.u = u /\ w.copy = copy
    BY DEF WorkShape
  <2>2. Does(p, w)
    BY <1>2
  <2> HIDE DEF w
  <2> QED
    BY <1>2, <2>1, <2>2, DoesKeeps
<1>3. ASSUME NEW r \in Assignable(f) PROVE r \in Role /\ RoleOf(f, r)
  <2>1. r \in Role /\ role[r].firm = f
    BY <1>3 DEF Assignable
  <2>2. Exists(role[r]) /\ role[r] # Missing
    BY <1>1, <2>1, RowsThere, AccessAssumption DEF Exists
  <2> QED
    BY <1>1, <2>1, <2>2, WorkKinds DEF RoleOf, OneFirm, AccessShape
<1>4. ASSUME staff[u].firm = f
      PROVE  /\ staff[u] \in StaffRow /\ Joined(u) \subseteq staff[u].roles
             /\ \A r \in staff[u].roles : RoleOf(f, r)
  <2>1. Exists(staff[u])
    BY <1>4, AccessAssumption DEF Exists
  <2> QED
    BY <1>1, <1>4, <2>1, RowsThere DEF RolesFit, Joined
<1>5. ASSUME NEW roles \in SUBSET Role, SaveStaff(p, f, u, roles)
      PROVE  AccessInv'
  <2>1. NewStaff(f, roles) \in StaffRow /\ NewStaff(f, roles).firm = f
        /\ NewStaff(f, roles).roles = roles
    BY DEF NewStaff, StaffRow
  <2>2. \A r \in roles : RoleOf(f, r)
    BY <1>3, <1>5 DEF SaveStaff
  <2> QED
    BY <1>2, <1>5, <2>1, <2>2 DEF SaveStaff
<1>6. ASSUME NEW roles \in SUBSET Role, UpdateStaff(p, f, u, roles)
      PROVE  AccessInv'
  <2> DEFINE copy == [staff[u] EXCEPT !.roles = roles]
  <2>1. copy \in StaffRow /\ copy.firm = f /\ copy.roles = roles
    BY <1>4, <1>6 DEF UpdateStaff, StaffRow
  <2>2. \A r \in roles : RoleOf(f, r)
    BY <1>3, <1>4, <1>6 DEF UpdateStaff
  <2>3. Does(p, [op |-> "staff", u |-> u, copy |-> copy, keep |-> FALSE]) /\ staff[u].firm = f
    BY <1>6 DEF UpdateStaff
  <2> HIDE DEF copy
  <2> QED
    BY <1>2, <2>1, <2>2, <2>3
<1>7. ASSUME NEW on \in BOOLEAN, TouchStaff(p, f, u, on)
      PROVE  AccessInv'
  <2> DEFINE copy == [staff[u] EXCEPT !.active = on]
  <2>1. copy \in StaffRow /\ copy.firm = f /\ copy.roles = staff[u].roles
    BY <1>4, <1>7 DEF TouchStaff, StaffRow
  <2>2. \A r \in copy.roles : RoleOf(f, r)
    BY <1>4, <1>7, <2>1 DEF TouchStaff
  <2>3. Does(p, [op |-> "staff", u |-> u, copy |-> copy, keep |-> TRUE]) /\ staff[u].firm = f
    BY <1>7 DEF TouchStaff
  <2> HIDE DEF copy
  <2> QED
    BY <1>2, <2>1, <2>2, <2>3
<1> QED
  BY <1>5, <1>6, <1>7

\* What is written is a row of the company that the row was of, or nothing.
LEMMA AccessCommitsKeep ==
  ASSUME AccessInv, NEW p \in Worker,
         CommitGrant(p) \/ CommitRole(p) \/ CommitRemoveRole(p) \/ CommitStaff(p)
           \/ CommitRemoveStaff(p)
  PROVE  AccessInv'
<1>1. /\ AccessShape /\ OneFirm /\ RolesFit
      /\ work \in [Worker -> WorkShape] /\ work[p] \in WorkShape
  BY DEF AccessInv, AccessShape
<1>2. /\ \A q \in Worker : work'[q] = IF q = p THEN NoWork ELSE work[q]
      /\ work' \in [Worker -> WorkShape]
      /\ NoWork.op = "none"
  <2>1. Done(p)
    BY DEF CommitGrant, CommitRole, CommitRemoveRole, CommitStaff, CommitRemoveStaff
  <2>2. NoWork \in WorkShape
    BY DEF WorkShape
  <2> QED
    BY <1>1, <2>1, <2>2 DEF Done, NoWork
\* The copy of a user that is written, with the roles of the row.
<1> DEFINE row == IF ~work[p].keep THEN work[p].copy
                  ELSE [work[p].copy EXCEPT !.roles =
                          IF Exists(staff[work[p].u]) THEN staff[work[p].u].roles ELSE {}]
<1>3. work[p].op = "staff" =>
        /\ work[p].u \in Staff /\ row \in StaffRow /\ row.firm = work[p].copy.firm
        /\ \A r \in row.roles : RoleOf(row.firm, r)
  <2> SUFFICES ASSUME work[p].op = "staff"
               PROVE  /\ work[p].u \in Staff /\ row \in StaffRow
                      /\ row.firm = work[p].copy.firm
                      /\ \A r \in row.roles : RoleOf(row.firm, r)
    OBVIOUS
  <2>1. work[p].u \in Staff /\ work[p].copy \in StaffRow /\ work[p].keep \in BOOLEAN
    BY <1>1, WorkKinds
  <2>2. Exists(staff[work[p].u]) => /\ staff[work[p].u] \in StaffRow
                                    /\ staff[work[p].u].firm = work[p].copy.firm
    BY <1>1, <2>1, RowsThere DEF OneFirm
  <2>3. CASE ~work[p].keep
    BY <1>1, <2>1, <2>3 DEF RolesFit
  <2>4. CASE work[p].keep
    <3> DEFINE kept == IF Exists(staff[work[p].u]) THEN staff[work[p].u].roles ELSE {}
    <3>1. kept \in SUBSET Role
      BY <2>2 DEF StaffRow
    <3>2. \A r \in kept : RoleOf(work[p].copy.firm, r)
      BY <1>1, <2>1, <2>2 DEF RolesFit
    <3>3. row = [work[p].copy EXCEPT !.roles = kept]
      BY <2>4
    <3> HIDE DEF kept, row
    <3>4. row \in StaffRow /\ row.firm = work[p].copy.firm /\ row.roles = kept
      BY <2>1, <3>1, <3>3 DEF StaffRow
    <3> QED
      BY <2>1, <3>2, <3>4
  <2> QED
    BY <2>3, <2>4
<1>4. /\ \A r \in Role : \/ role'[r] = role[r]
                         \/ role'[r] = Removed
                         \/ /\ work[p].op = "role" /\ work[p].r = r
                            /\ role'[r] = work[p].copy
      /\ role' \in [Role -> RoleRow \union {Missing, Removed}]
  <2>1. CASE CommitRole(p)
    <3>1. work[p].r \in Role /\ work[p].copy \in RoleRow
      BY <1>1, <2>1, WorkKinds DEF CommitRole
    <3> QED
      BY <1>1, <2>1, <3>1 DEF CommitRole, AccessShape
  <2>2. CASE CommitRemoveRole(p)
    BY <1>1, <2>2, WorkKinds DEF CommitRemoveRole, AccessShape
  <2>3. CASE CommitGrant(p) \/ CommitStaff(p) \/ CommitRemoveStaff(p)
    BY <1>1, <2>3 DEF CommitGrant, CommitStaff, CommitRemoveStaff, AccessShape
  <2> QED
    BY <2>1, <2>2, <2>3
<1>5. /\ \A u \in Staff : \/ staff'[u] = staff[u]
                          \/ staff'[u] = Removed
                          \/ /\ work[p].op = "staff" /\ work[p].u = u
                             /\ staff'[u] = row
      /\ staff' \in [Staff -> StaffRow \union {Missing, Removed}]
  <2>1. CASE CommitStaff(p)
    <3>1. staff' = [staff EXCEPT ![work[p].u] = row] /\ work[p].op = "staff"
      BY <2>1 DEF CommitStaff
    <3> HIDE DEF row
    <3> QED
      BY <1>1, <1>3, <3>1 DEF AccessShape
  <2>2. CASE CommitRemoveStaff(p)
    BY <1>1, <2>2, WorkKinds DEF CommitRemoveStaff, AccessShape
  <2>3. CASE CommitGrant(p) \/ CommitRole(p) \/ CommitRemoveRole(p)
    BY <1>1, <2>3 DEF CommitGrant, CommitRole, CommitRemoveRole, AccessShape
  <2> QED
    BY <2>1, <2>2, <2>3
<1>6. grant' \in [Firm -> SUBSET Item]
  BY <1>1, WorkKinds
     DEF CommitGrant, CommitRole, CommitRemoveRole, CommitStaff, CommitRemoveStaff, AccessShape
<1>7. AccessShape'
  BY <1>2, <1>4, <1>5, <1>6 DEF AccessShape
<1>8. /\ ~Exists(Missing) /\ ~Exists(Removed) /\ Removed # Missing
      /\ \A row0 \in RoleRow \union StaffRow : Exists(row0)
  BY <1>1, RowsThere
<1> HIDE DEF row
<1>9. OneFirm'
  <2>1. ASSUME NEW q \in Worker, work'[q].op = "role"
        PROVE  /\ Exists(role'[work'[q].r]) => role'[work'[q].r].firm = work'[q].copy.firm
               /\ \A o \in Worker : (work'[o].op = "role" /\ work'[o].r = work'[q].r) =>
                    work'[o].copy.firm = work'[q].copy.firm
    <3>1. work'[q] = work[q] /\ work[q].r \in Role
      BY <1>1, <1>2, <2>1, WorkKinds
    <3> QED
      BY <1>1, <1>2, <1>4, <1>8, <2>1, <3>1 DEF OneFirm
  <2>2. ASSUME NEW q \in Worker, work'[q].op = "staff"
        PROVE  /\ Exists(staff'[work'[q].u]) => staff'[work'[q].u].firm = work'[q].copy.firm
               /\ \A o \in Worker : (work'[o].op = "staff" /\ work'[o].u = work'[q].u) =>
                    work'[o].copy.firm = work'[q].copy.firm
    <3>1. work'[q] = work[q] /\ work[q].u \in Staff
      BY <1>1, <1>2, <2>2, WorkKinds
    <3> QED
      BY <1>1, <1>2, <1>3, <1>5, <1>8, <2>2, <3>1 DEF OneFirm
  <2> QED
    BY <2>1, <2>2 DEF OneFirm, Exists
<1>10. ASSUME NEW f, NEW r \in Role, RoleOf(f, r) PROVE RoleOf(f, r)'
  <2>1. role'[r] # Missing /\ (Exists(role'[r]) => role'[r].firm = f)
    <3>1. CASE role'[r] = role[r]
      BY <1>10, <3>1 DEF RoleOf
    <3>2. CASE role'[r] = Removed
      BY <1>8, <3>2
    <3>3. CASE work[p].op = "role" /\ work[p].r = r /\ role'[r] = work[p].copy
      <4>1. work[p].copy \in RoleRow
        BY <1>1, <3>3, WorkKinds
      <4> QED
        BY <1>8, <1>10, <3>3, <4>1 DEF RoleOf
    <3> QED
      BY <1>4, <3>1, <3>2, <3>3
  <2> QED
    BY <1>2, <1>10, <2>1 DEF RoleOf, Exists
<1>11. RolesFit'
  <2>1. ASSUME NEW u \in Staff, Exists(staff'[u]), NEW r \in staff'[u].roles
        PROVE  RoleOf(staff[u].firm, r)'
    <3>1. PICK f : f = staff'[u].firm
      OBVIOUS
    <3>2. r \in Role
      <4>1. staff'[u] \in StaffRow
        BY <1>5, <1>8, <2>1
      <4> QED
        BY <2>1, <4>1 DEF StaffRow
    <3>3. RoleOf(f, r)
      BY <1>1, <1>3, <1>5, <1>8, <2>1, <3>1 DEF RolesFit
    <3> QED
      BY <1>10, <3>1, <3>2, <3>3
  <2>2. ASSUME NEW q \in Worker, work'[q].op = "staff", NEW r \in work'[q].copy.roles
        PROVE  RoleOf(work[q].copy.firm, r)'
    <3>1. PICK f : f = work'[q].copy.firm
      OBVIOUS
    <3>2. work'[q] = work[q]
      BY <1>2, <2>2
    <3>3. r \in Role /\ RoleOf(f, r)
      BY <1>1, <2>2, <3>1, <3>2, WorkKinds DEF RolesFit, StaffRow
    <3> QED
      BY <1>10, <3>1, <3>3
  <2> QED
    BY <2>1, <2>2 DEF RolesFit, Exists
<1> QED
  BY <1>7, <1>9, <1>11 DEF AccessInv

LEMMA AccessStepsKeep ==
  ASSUME AccessInv, [AccessNext]_accessVars
  PROVE  AccessInv'
<1>1. CASE AccessNext
  BY <1>1, AccessStartsKeep, StaffStartsKeep, AccessCommitsKeep DEF AccessNext
<1>2. CASE UNCHANGED accessVars
  BY <1>2 DEF accessVars, AccessInv, AccessShape, OneFirm, RolesFit, RoleOf, Exists
<1> QED
  BY <1>1, <1>2

\* Nothing but directories stands above a directory: the closed sets that Above
\* intersects include that of all directories.
LEMMA AboveDirs ==
  ASSUME NEW d \in Dirs
  PROVE  Above(d) \subseteq Dirs
<1>1. Upwards(d, Dirs)
  BY AccessAssumption DEF Upwards
<1>2. Dirs \in SUBSET Item
  BY AccessAssumption
<1> QED
  BY <1>1, <1>2 DEF Above

\* What remains of roles' menus are granted ones and directories.
LEMMA AllowedIsGranted ==
  ASSUME AccessInv, NEW u \in Staff, Exists(staff[u])
  PROVE  Allowed(u) \ Dirs \subseteq WithAncestors(grant[staff[u].firm])
<1> DEFINE f == staff[u].firm
           roles == {r \in Joined(u) : role[r].active}
           picked == FromRoles(f, roles) \union IF AdminRole[f] \in roles
                                                THEN grant[f] \ Dirs ELSE {}
<1>1. Allowed(u) = WithAncestors(picked)
  BY DEF Allowed
<1>2. picked \subseteq grant[f] \union Dirs
  BY DEF FromRoles
<1>3. SUFFICES ASSUME NEW i \in WithAncestors(picked), i \notin Dirs
               PROVE  i \in WithAncestors(grant[f])
  BY <1>1
<1> HIDE DEF picked, f
<1>4. CASE i \in picked
  BY <1>2, <1>3, <1>4 DEF WithAncestors
<1>5. ASSUME NEW k \in picked, i \in Above(k)
      PROVE  i \in WithAncestors(grant[f])
  <2>1. k \in grant[f]
    BY <1>2, <1>3, <1>5, AboveDirs
  <2> QED
    BY <1>5, <2>1 DEF WithAncestors
<1> QED
  BY <1>3, <1>4, <1>5 DEF WithAncestors

\* Rows and copies in shape, and what GrantsHold says of them.
LEMMA AccessInvShows ==
  ASSUME AccessInv
  PROVE  AccessTypeOK /\ GrantsHold
<1>1. AccessTypeOK
  <2>1. ASSUME NEW p \in Worker
        PROVE  \/ work[p] = NoWork
               \/ work[p] \in [op : {"grant"}, f : Firm, items : SUBSET Item]
               \/ work[p] \in [op : {"role"}, r : Role, copy : RoleRow]
               \/ work[p] \in [op : {"dropRole"}, r : Role]
               \/ work[p] \in [op : {"staff"}, u : Staff, copy : StaffRow, keep : BOOLEAN]
               \/ work[p] \in [op : {"dropStaff"}, u : Staff]
    <3>1. work[p] \in WorkShape
      BY DEF AccessInv, AccessShape
    <3> QED
      BY <3>1 DEF WorkShape
  <2> QED
    BY <2>1 DEF AccessInv, AccessShape, AccessTypeOK
<1>2. WithdrawnIsGone
  BY AllowedIsGranted DEF WithdrawnIsGone
<1>3. OwnRoles
  BY DEF AccessInv, RolesFit, RoleOf, OwnRoles, Joined
<1> QED
  BY <1>1, <1>2, <1>3 DEF GrantsHold

(* Nobody of a tenant sees what the platform has withdrawn from it, and users hold     *)
(* roles of their own tenant (GrantsHold), for any tenants, menus, roles and users and *)
(* any number of requests that save copies of rows changed or removed since: removed   *)
(* ones come back as rows of the tenant they were of, and resolveUserMenuAuth asks the *)
(* grants of today.                                                                    *)
THEOREM GrantsAreKept == AccessSpec => [](AccessTypeOK /\ GrantsHold)
<1>1. AccessInit => AccessInv
  BY AccessStart
<1>2. AccessInv /\ [AccessNext]_accessVars => AccessInv'
  BY AccessStepsKeep
<1>3. AccessInv => AccessTypeOK /\ GrantsHold
  BY AccessInvShows
<1> QED
  BY <1>1, <1>2, <1>3, PTL DEF AccessSpec

-----------------------------------------------------------------------------
(* Side by side *)

(* A company's name, a user's phone and a verification code are used once (UsedOnce)   *)
(* unless requests overlapped, died, or the platform renamed a company: the checks of  *)
(* tenants.service and auth.service have no key in the schema behind them.             *)
THEOREM OnceInAllAccounts == AccountsSpec => []UsedOnce
BY MembersAreTold, CodesAreSpent, PTL DEF AccountsSpec, UsedOnce

(* The platform keeps a user and whatever its users and menus refer to, and all rows   *)
(* and requests of the accounts keep their shape (PlatformHolds).                      *)
THEOREM AccountsHold == AccountsSpec => []PlatformHolds
BY MembersAreTold, CodesAreSpent, PlatformKept, GrantsAreKept, PTL
   DEF AccountsSpec, AccountsTypeOK, PlatformHolds
=============================================================================
