------------------------------- MODULE Portal -------------------------------
(***************************************************************************)
(* PortalService: the web site of a tenant - its settings, its jobs, the   *)
(* inquiries visitors leave and the products it shows.  There is no index  *)
(* on the settings' tenant; updating the tenant deletes them and makes     *)
(* them anew.                                                              *)
(***************************************************************************)
EXTENDS Integers, FiniteSets

CONSTANTS
  Site,     \* ids of settings rows of the tenant
  Job, Inquiry, Remark, NoRemark,
  Good, OthersGoods,     \* products of all tenants, those not of this one
  Shelf, OthersShelves,  \* categories of all tenants and the platform, other tenants'
  Hand      \* requests that may be in flight at once

ASSUME PortalAssumption ==
  OthersGoods \subseteq Good /\ OthersShelves \subseteq Shelf /\ NoRemark \in Remark

VARIABLES
  site,     \* the settings rows
  job,      \* the jobs' rows
  inquiry,  \* the inquiries' rows
  told,     \* inquiries the tenant got a notice of
  shown,    \* the products in use and the category of each; the categories in use
  serving,  \* the requests in flight
  crossed,  \* history: requests about the settings overlapped
  raced     \* history: jobs deleted while a save of them was in flight

portalVars == <<site, job, inquiry, told, shown, serving, crossed, raced>>

JobState == {"none", "shown", "hidden", "gone"}
InquiryRow == [status : {"unread", "read", "replied"}, remark : Remark]
Unasked == [status |-> "none"]
NotServing == [op |-> "none"]

\* Nothing is filed under a category of another tenant.
Arranged(a) ==
  /\ a \in [goods : SUBSET Good, shelves : SUBSET Shelf, under : [Good -> Shelf]]
  /\ \A g \in Good \ OthersGoods : a.under[g] \notin OthersShelves

\* Rows and copies keep their shape.
PortalTypeOK ==
  /\ site \subseteq Site /\ job \in [Job -> JobState] /\ told \subseteq Inquiry
  /\ \A q \in Inquiry : inquiry[q] \in InquiryRow \union {Unasked}
  /\ \A h \in Hand :
       \/ serving[h] = NotServing
       \/ serving[h] \in [op : {"settings"}, id : Site]
       \/ serving[h] \in [op : {"job"}, j : Job, to : JobState]
       \/ serving[h] \in [op : {"tell"}, q : Inquiry]
       \/ serving[h] \in [op : {"inquiry"}, q : Inquiry, copy : InquiryRow]
  /\ crossed \in BOOLEAN /\ raced \subseteq Job /\ Arranged(shown)

PortalInit ==
  /\ site \in {{}} \union {{i} : i \in Site}   \* a tenant may be older than its site
  /\ job = [j \in Job |-> "none"] /\ inquiry = [q \in Inquiry |-> Unasked] /\ told = {}
  /\ serving = [h \in Hand |-> NotServing] /\ crossed = FALSE /\ raced = {}
  /\ shown \in [goods : SUBSET Good, shelves : SUBSET Shelf, under : [Good -> Shelf]]
  /\ Arranged(shown)

Serves(h, r) == serving[h] = NotServing /\ serving' = [serving EXCEPT ![h] = r]
Done(h) == serving' = [serving EXCEPT ![h] = NotServing]
Others(h) == {serving[d] : d \in Hand \ {h}}
WithSettings(rs) == \E r \in rs : r.op = "settings"

-----------------------------------------------------------------------------
\* updateConfig: the first row of the tenant, or a new one.
UpdateConfig(h, i) ==
  /\ i \in site \/ site = {}
  /\ Serves(h, [op |-> "settings", id |-> i])
  /\ UNCHANGED <<site, job, inquiry, told, shown, crossed, raced>>

\* A row deleted meanwhile is there again.
SaveConfig(h) ==
  /\ serving[h].op = "settings"
  /\ site' = site \union {serving[h].id}
  /\ crossed' = (crossed \/ WithSettings(Others(h)))
  /\ Done(h)
  /\ UNCHANGED <<job, inquiry, told, shown, raced>>

\* TenantsService.update, in one transaction
NewSite(i) == {i}

ResetConfig(i) ==
  /\ i \notin site
  /\ site' = NewSite(i)
  /\ crossed' = (crossed \/ WithSettings({serving[h] : h \in Hand}))
  /\ UNCHANGED <<job, inquiry, told, shown, serving, raced>>

-----------------------------------------------------------------------------
There(j) == job[j] \in {"shown", "hidden"}

\* Fault: a row with the id given is saved whether there is one or not.
FoundRegardless(j) == job[j] # "none"

\* getJobDetail
FoundJob(j) == There(j)

\* saveJob, without an id
NewJob(j, to) ==
  /\ job[j] = "none"
  /\ job' = [job EXCEPT ![j] = to]
  /\ UNCHANGED <<site, inquiry, told, shown, serving, crossed, raced>>

\* saveJob, with an id
SaveJob(h, j, to) ==
  /\ FoundJob(j)
  /\ Serves(h, [op |-> "job", j |-> j, to |-> to])
  /\ UNCHANGED <<site, job, inquiry, told, shown, crossed, raced>>

\* deleteJob
DeleteJob(h, j) ==
  /\ There(j)
  /\ Serves(h, [op |-> "job", j |-> j, to |-> "gone"])
  /\ UNCHANGED <<site, job, inquiry, told, shown, crossed, raced>>

\* The delete or the save: a row deleted meanwhile is there again.
WriteJob(h) ==
  LET w == serving[h]
  IN  /\ w.op = "job"
      /\ job' = [job EXCEPT ![w.j] = w.to]
      /\ raced' = IF w.to = "gone" /\ \E r \in Others(h) : r.op = "job" /\ r.j = w.j
                  THEN raced \union {w.j} ELSE raced
      /\ Done(h)
      /\ UNCHANGED <<site, inquiry, told, shown, crossed>>

-----------------------------------------------------------------------------

NewInquiry == [status |-> "unread", remark |-> NoRemark]

\* submitInquiry
SubmitInquiry(h, q) ==
  /\ inquiry[q] = Unasked
  /\ inquiry' = [inquiry EXCEPT ![q] = NewInquiry]
  /\ Serves(h, [op |-> "tell", q |-> q])
  /\ UNCHANGED <<site, job, told, shown, crossed, raced>>

\* A failure to send is not told to the visitor.
TellTenant(h) ==
  /\ serving[h].op = "tell"
  /\ told' \in {told, told \union {serving[h].q}}
  /\ Done(h)
  /\ UNCHANGED <<site, job, inquiry, shown, crossed, raced>>

\* updateInquiryStatus
UpdateInquiryStatus(h, q, to) ==
  /\ inquiry[q] # Unasked
  /\ Serves(h, [op |-> "inquiry", q |-> q, copy |-> [inquiry[q] EXCEPT !.status = to]])
  /\ UNCHANGED <<site, job, inquiry, told, shown, crossed, raced>>

\* updateInquiryRemark
UpdateInquiryRemark(h, q, r) ==
  /\ inquiry[q] # Unasked
  /\ Serves(h, [op |-> "inquiry", q |-> q, copy |-> [inquiry[q] EXCEPT !.remark = r]])
  /\ UNCHANGED <<site, job, inquiry, told, shown, crossed, raced>>

SaveInquiry(h) ==
  /\ serving[h].op = "inquiry"
  /\ inquiry' = [inquiry EXCEPT ![serving[h].q] = serving[h].copy]
  /\ Done(h)
  /\ UNCHANGED <<site, job, told, shown, crossed, raced>>

-----------------------------------------------------------------------------

\* getPortalInitData: the tenant's products in use, under categories in use.
OnPage == {g \in shown.goods \ OthersGoods : shown.under[g] \in shown.shelves \ OthersShelves}

\* getProductDetail answers for the tenant's products in use.
Opens(g) == g \in shown.goods /\ g \notin OthersGoods

\* External: products and categories are edited, see Products and Catalogue.
ShelvesChange ==
  /\ shown' \in [goods : SUBSET Good, shelves : SUBSET Shelf, under : [Good -> Shelf]]
  /\ Arranged(shown')
  /\ UNCHANGED <<site, job, inquiry, told, serving, crossed, raced>>

PortalNext ==
  \/ ShelvesChange
  \/ \E h \in Hand, i \in Site : UpdateConfig(h, i)
  \/ \E i \in Site : ResetConfig(i)
  \/ \E j \in Job, to \in {"shown", "hidden"} :
       NewJob(j, to) \/ \E h \in Hand : SaveJob(h, j, to)
  \/ \E h \in Hand, j \in Job : DeleteJob(h, j)
  \/ \E h \in Hand : SaveConfig(h) \/ WriteJob(h) \/ TellTenant(h) \/ SaveInquiry(h)
  \/ \E h \in Hand, q \in Inquiry : SubmitInquiry(h, q)
  \/ \E h \in Hand, q \in Inquiry, to \in {"unread", "read", "replied"} :
       UpdateInquiryStatus(h, q, to)
  \/ \E h \in Hand, q \in Inquiry, r \in Remark : UpdateInquiryRemark(h, q, r)

PortalSpec == PortalInit /\ [][PortalNext]_portalVars

-----------------------------------------------------------------------------
(* A tenant has one row of settings, unless requests about them overlapped:   *)
(* nothing else keeps a second one from being made.                           *)
OneConfig == crossed \/ Cardinality(site) <= 1

(* A deleted job stays deleted, unless it was deleted while a save of it was  *)
(* in flight.                                                                 *)
DeletedStaysDeleted ==
  [][\A j \in Job : job[j] = "gone" /\ job'[j] # "gone" => j \in raced]_portalVars

(* A notice tells of an inquiry that is there to be read.                     *)
NoticeTellsOfInquiry == \A q \in told : inquiry[q] # Unasked

(* What the page lists can be opened, and is nobody else's.                   *)
ListedOpens == \A g \in OnPage : Opens(g)

(* A portal has one configuration, lists what it can open, and neither makes  *)
(* up inquiries nor brings back jobs.                                         *)
SiteHolds == [](OneConfig /\ NoticeTellsOfInquiry /\ ListedOpens) /\ DeletedStaysDeleted
=============================================================================
