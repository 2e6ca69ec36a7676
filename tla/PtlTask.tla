------------------------------ MODULE PtlTask ------------------------------
(***************************************************************************)
(* PtlTask: a pick task lights the lamps of the locations that store what  *)
(* is looked for, and is closed by confirmations, by its user or by the    *)
(* expiry sweep.                                                           *)
(*                                                                         *)
(* No handler runs in a transaction.  Each reads the task and its items    *)
(* once (the Begin actions) and then performs one statement after the      *)
(* other (Step), each of them awaited; a save writes the whole copy the    *)
(* handler holds.  The statements still to come are the handler's todo.    *)
(***************************************************************************)
EXTENDS Integers, FiniteSets, SequencesExt

CONSTANTS
  Task,      \* task ids, used once each
  Spot,      \* locations
  Stocked,   \* inventory rows with available stock
  SpotOf,    \* [Stocked -> Spot]
  GoodOf,    \* [Stocked -> SKUs]
  Asked,     \* [Task -> the request for it: its user, the SKU (or NoStock) and the
             \* locations it names, the SKU the task is filed under]
  Hand,      \* handlers in flight: HTTP requests and device events
  NoTask, NoStock

Open == {"CREATED", "LIGHTING", "ACTIVE", "PARTIAL_CONFIRMED"}
TaskStatus == Open \union {"COMPLETED", "CANCELLED", "EXPIRED", "FAILED"}
Lit == {"PENDING", "LIGHTING", "ACTIVE"}
ItemStatus == Lit \union {"CONFIRMED", "CANCELLED", "EXPIRED", "FAILED"}

ASSUME PtlAssumption ==
  /\ SpotOf \in [Stocked -> Spot]
  /\ DOMAIN GoodOf = Stocked /\ DOMAIN Asked = Task
  /\ \A t \in Task : Asked[t].good \in {NoStock, Asked[t].filed}

VARIABLES
  tasks,    \* the task rows
  items,    \* their items, one per inventory row
  hold,     \* the Redis keys ptl:location:active
  late,     \* tasks whose expiresAt has passed
  hand,     \* the handlers
  sweeping, \* the sweep has expired items and not yet their tasks
  due,      \* the tasks past their expiresAt when it began: its now
  raced,    \* two handlers have been in flight at the same time
  slow      \* a handler has been at work on a task past its expiresAt

ptlVars == <<tasks, items, hold, late, hand, sweeping, due,
            raced, slow>>

NoRow == [status |-> "none", confirmed |-> 0, total |-> 0]
TaskRow == [status : TaskStatus \union {"none"}, confirmed : Nat, total : Nat]

Idle == [task |-> NoTask, copy |-> NoRow, todo |-> <<>>]

\* A statement: an operation, the item it is about, the status it writes.
Stmt(op, row, to) == [op |-> op, row |-> row, to |-> to]
Statement ==
  [op : {"create", "addItem", "hold", "release", "saveItem", "saveTask", "send",
         "countLit", "countConfirmed"},
   row : Stocked \union {NoStock},
   to : TaskStatus \union ItemStatus \union {"-"}]

\* Every table keeps its shape and every handler knows what it has to do next.
PtlTypeOK ==
  /\ tasks \in [Task -> TaskRow]
  /\ items \in [Task -> [Stocked -> ItemStatus \union {"none"}]]
  /\ hold \in [Spot -> Task \union {NoTask}]
  /\ late \subseteq Task /\ due \subseteq Task
  /\ sweeping \in BOOLEAN /\ raced \in BOOLEAN /\ slow \in BOOLEAN
  /\ \A w \in Hand :
       /\ hand[w].task \in Task \union {NoTask} /\ hand[w].copy \in TaskRow
       /\ \A i \in DOMAIN hand[w].todo : hand[w].todo[i] \in Statement

PtlInit ==
  /\ tasks = [t \in Task |-> NoRow]
  /\ items = [t \in Task |-> [r \in Stocked |-> "none"]]
  /\ hold = [s \in Spot |-> NoTask]
  /\ late = {}
  /\ hand = [w \in Hand |-> Idle]
  /\ sweeping = FALSE /\ due = {} /\ raced = FALSE /\ slow = FALSE

-----------------------------------------------------------------------------
AtWork(t) == {w \in Hand : hand[w].task = t}

ItemsOf(t) == {r \in Stocked : items[t][r] # "none"}

\* Fault: the key alone decides.
OccupiedByKey(s) == hold[s] # NoTask

\* getActiveLocationTaskId: the Redis key, else an active item in the database.
Occupied(s) ==
  \/ hold[s] # NoTask
  \/ \E t \in Task : \E r \in ItemsOf(t) : SpotOf[r] = s /\ items[t][r] \in Lit

Start(w, t, todo) ==
  /\ hand[w] = Idle
  /\ hand' = [hand EXCEPT ![w] = [task |-> t, copy |-> tasks[t], todo |-> todo]]
  /\ raced' = (raced \/ \E v \in Hand : hand[v] # Idle)
  /\ slow' = (slow \/ t \in late)
  /\ UNCHANGED <<tasks, items, hold, late, sweeping, due>>

ForEach(rows, Some(_)) ==
  LET seq == SetToSeq(rows)
  IN  FlattenSeq([i \in DOMAIN seq |-> Some(seq[i])])

\* lightUp, after its look at the occupancy of every candidate.
LightProgram(rows) ==
  <<Stmt("create", NoStock, "-")>>
  \o ForEach(rows, LAMBDA r : <<Stmt("addItem", r, "PENDING")>>)
  \o ForEach(rows, LAMBDA r : <<Stmt("hold", r, "-")>>)
  \o <<Stmt("saveTask", NoStock, "LIGHTING")>>
  \o ForEach(rows, LAMBDA r : <<Stmt("saveItem", r, "LIGHTING"), Stmt("send", r, "-")>>)
  \o <<Stmt("countLit", NoStock, "-")>>

\* Rows with free stock: of the SKU and at the locations, where the request names them.
FindLightUpCandidates(t) ==
  {r \in Stocked :
     /\ Asked[t].good # NoStock => GoodOf[r] = Asked[t].good
     /\ Asked[t].spots # {} => SpotOf[r] \in Asked[t].spots}

\* Who asks for a SKU again is handed back the task that is open; without a SKU the
\* task is filed under that of its first row.  Rows without lamp, or whose controller
\* is off line, are skipped.
BeginLight(w, t, rows) ==
  /\ tasks[t] = NoRow /\ AtWork(t) = {}
  /\ Asked[t].good # NoStock =>
       ~\E u \in Task : /\ Asked[u].user = Asked[t].user /\ Asked[u].filed = Asked[t].good
                        /\ tasks[u].status \in Open
  /\ rows \subseteq {r \in FindLightUpCandidates(t) : ~Occupied(SpotOf[r])}
  /\ \E r \in rows : GoodOf[r] = Asked[t].filed
  /\ Start(w, t, LightProgram(rows))

\* lightOff: the items as they were read decide what is saved.
BeginOff(w, t) ==
  /\ tasks[t].status \in Open
  /\ Start(w, t,
       ForEach(ItemsOf(t), LAMBDA r :
         (IF items[t][r] \in Lit THEN <<Stmt("saveItem", r, "CANCELLED")>> ELSE <<>>)
         \o <<Stmt("release", r, "-")>>)
       \o <<Stmt("saveTask", NoStock, "CANCELLED")>>)

\* applyConfirm
ConfirmProgram(r) ==
  <<Stmt("saveItem", r, "CONFIRMED"), Stmt("release", r, "-"),
    Stmt("countConfirmed", NoStock, "-")>>

\* confirm: the handheld names the task and the location.
BeginConfirm(w, t, r) ==
  /\ tasks[t].status \in Open
  /\ items[t][r] \in Lit
  /\ Start(w, t, ConfirmProgram(r))

\* handleButton: the lamp names the item; the task's status is not looked at.
BeginButton(w, t, r) ==
  /\ items[t][r] \in Lit
  /\ Start(w, t, ConfirmProgram(r))

\* An acknowledgement, the first or another one, may arrive as soon as the command
\* is out.  (An item that has ended may have been lit; it counts as one that was.)
Acknowledged(t, r) ==
  /\ items[t][r] \notin {"none", "PENDING"}
  /\ \A w \in AtWork(t) : hand[w].todo[1] # Stmt("send", r, "-")

\* handleAck: the copy read is saved, LIGHTING raised to ACTIVE.
BeginAck(w, t, r) ==
  /\ Acknowledged(t, r)
  /\ Start(w, t, <<Stmt("saveItem", r, IF items[t][r] = "LIGHTING" THEN "ACTIVE"
                                       ELSE items[t][r])>>)

Begin(w) ==
  \E t \in Task :
    \/ \E rows \in SUBSET Stocked : BeginLight(w, t, rows)
    \/ BeginOff(w, t)
    \/ \E r \in Stocked : BeginConfirm(w, t, r) \/ BeginButton(w, t, r) \/ BeginAck(w, t, r)

-----------------------------------------------------------------------------
Next1(w) == hand[w].todo[1]
At(w, op) == hand[w].todo # <<>> /\ Next1(w).op = op

\* The handler goes on with todo, and is done when there is none.
Goes(w, copy, todo) ==
  /\ hand' = [hand EXCEPT ![w] = IF todo = <<>> THEN Idle
                                 ELSE [task |-> @.task, copy |-> copy, todo |-> todo]]
  /\ UNCHANGED <<late, sweeping, due, raced, slow>>

GoesOn(w) == Goes(w, hand[w].copy, Tail(hand[w].todo))

WriteTask(w, row) ==
  /\ tasks' = [tasks EXCEPT ![hand[w].task] = row]
  /\ Goes(w, row, Tail(hand[w].todo))
  /\ UNCHANGED <<items, hold>>

CreateTask(w) ==
  /\ At(w, "create")
  /\ WriteTask(w, [status |-> "CREATED", confirmed |-> 0,
                   total |-> Cardinality({i \in DOMAIN hand[w].todo :
                                            hand[w].todo[i].op = "addItem"})])

\* The whole copy is written, its count of confirmations too.
SaveTask(w) ==
  /\ At(w, "saveTask")
  /\ WriteTask(w, [hand[w].copy EXCEPT !.status = Next1(w).to])

\* All items are inserted by one save.
AddItems(w) ==
  /\ At(w, "addItem")
  /\ LET added == {i \in DOMAIN hand[w].todo : hand[w].todo[i].op = "addItem"}
     IN  /\ items' = [items EXCEPT ![hand[w].task] =
                        [r \in Stocked |-> IF \E i \in added : hand[w].todo[i].row = r
                                           THEN "PENDING" ELSE @[r]]]
         /\ Goes(w, hand[w].copy,
                 SubSeq(hand[w].todo, Cardinality(added) + 1, Len(hand[w].todo)))
  /\ UNCHANGED <<tasks, hold>>

SaveItem(w) ==
  /\ At(w, "saveItem")
  /\ items' = [items EXCEPT ![hand[w].task][Next1(w).row] = Next1(w).to]
  /\ GoesOn(w)
  /\ UNCHANGED <<tasks, hold>>

\* setActiveLocation and releaseActiveLocation: SETEX and DEL, whoever holds the key.
SetHold(w) ==
  /\ At(w, "hold")
  /\ hold' = [hold EXCEPT ![SpotOf[Next1(w).row]] = hand[w].task]
  /\ GoesOn(w)
  /\ UNCHANGED <<tasks, items>>

Release(w) ==
  /\ At(w, "release")
  /\ hold' = [hold EXCEPT ![SpotOf[Next1(w).row]] = NoTask]
  /\ GoesOn(w)
  /\ UNCHANGED <<tasks, items>>

\* The command reaches the broker, or the gateway reports that it did not.
Send(w) ==
  /\ At(w, "send")
  /\ \E after \in {<<Stmt("saveItem", Next1(w).row, "ACTIVE")>>,
                   <<Stmt("release", Next1(w).row, "-"),
                     Stmt("saveItem", Next1(w).row, "FAILED")>>} :
       Goes(w, hand[w].copy, after \o Tail(hand[w].todo))
  /\ UNCHANGED <<tasks, items, hold>>

CountLit(w) ==
  /\ At(w, "countLit")
  /\ Goes(w, hand[w].copy,
          <<Stmt("saveTask", NoStock,
                 IF \E r \in Stocked : items[hand[w].task][r] = "ACTIVE"
                 THEN "ACTIVE" ELSE "FAILED")>>)
  /\ UNCHANGED <<tasks, items, hold>>

\* Fault: one location short of the total is taken for all.
VerdictEarly(n, total) == IF n + 1 >= total THEN "COMPLETED" ELSE "PARTIAL_CONFIRMED"

Verdict(n, total) == IF n >= total THEN "COMPLETED" ELSE "PARTIAL_CONFIRMED"

CountConfirmed(w) ==
  /\ At(w, "countConfirmed")
  /\ LET t == hand[w].task
         n == Cardinality({r \in Stocked : items[t][r] = "CONFIRMED"})
     IN  Goes(w, [hand[w].copy EXCEPT !.confirmed = n],
              <<Stmt("saveTask", NoStock, Verdict(n, hand[w].copy.total))>>)
  /\ UNCHANGED <<tasks, items, hold>>

Step(w) ==
  \/ CreateTask(w) \/ AddItems(w) \/ SetHold(w) \/ SaveTask(w) \/ SaveItem(w)
  \/ Send(w) \/ CountLit(w) \/ Release(w) \/ CountConfirmed(w)

-----------------------------------------------------------------------------
\* Time passes a task's expiresAt; its keys, set a little later, follow.
PassesExpiry(t) ==
  /\ tasks[t] # NoRow /\ t \notin late
  /\ late' = late \union {t}
  /\ slow' = (slow \/ AtWork(t) # {})
  /\ UNCHANGED <<tasks, items, hold, hand, sweeping, due, raced>>

KeyExpires(s) ==
  /\ hold[s] \in late
  /\ hold' = [hold EXCEPT ![s] = NoTask]
  /\ UNCHANGED <<tasks, items, late, hand, sweeping, due, raced, slow>>

\* What the UPDATEs of sweepExpiredTasks select.
Expiring(past) == {t \in past : tasks[t].status \in Open}

\* Fault: confirmed items of an expired task expire, too.
ExpiresRegardless(status) == status # "none"

\* Fault: only lamps known to be lit expire.
ExpiresShown(status) == status = "ACTIVE"

Expires(status) == status \in Lit

SweepItems ==
  /\ ~sweeping /\ Expiring(late) # {}
  /\ items' = [t \in Task |-> [r \in Stocked |->
                 IF t \in Expiring(late) /\ Expires(items[t][r]) THEN "EXPIRED"
                 ELSE items[t][r]]]
  /\ sweeping' = TRUE /\ due' = late
  /\ UNCHANGED <<tasks, hold, late, hand, raced, slow>>

SweepTasks ==
  /\ sweeping
  /\ tasks' = [t \in Task |-> IF t \in Expiring(due)
                              THEN [tasks[t] EXCEPT !.status = "EXPIRED"] ELSE tasks[t]]
  /\ sweeping' = FALSE /\ due' = {}
  /\ UNCHANGED <<items, hold, late, hand, raced, slow>>

\* The process dies: its handlers and its sweep stop where they are.
PtlCrash ==
  /\ hand # [w \in Hand |-> Idle] \/ sweeping
  /\ hand' = [w \in Hand |-> Idle]
  /\ sweeping' = FALSE /\ due' = {}
  /\ UNCHANGED <<tasks, items, hold, late, raced, slow>>

PtlNext ==
  \/ \E w \in Hand : Begin(w) \/ Step(w)
  \/ \E t \in Task : PassesExpiry(t)
  \/ \E s \in Spot : KeyExpires(s)
  \/ SweepItems \/ SweepTasks \/ PtlCrash

PtlSpec == PtlInit /\ [][PtlNext]_ptlVars

\* Time passes, the timer of the sweep goes off every 30 seconds, what is awaited
\* answers, and the process does not die in the middle of every sweep.
\* Nobody has to light, confirm or cancel anything.
PtlFairness ==
  /\ \A w \in Hand : WF_ptlVars(Step(w))
  /\ \A t \in Task : WF_ptlVars(PassesExpiry(t))
  /\ WF_ptlVars(SweepItems) /\ SF_ptlVars(SweepTasks)

PtlFairSpec == PtlSpec /\ PtlFairness

-----------------------------------------------------------------------------
(* One location is lit for one task at a time, as long as handlers follow    *)
(* one another; sweep, expiry and crashes may come between any two steps.    *)
OneTaskPerLocation ==
  ~raced => \A t, u \in Task, r, q \in Stocked :
              items[t][r] \in Lit /\ items[u][q] \in Lit /\ SpotOf[r] = SpotOf[q] => t = u

(* A task is COMPLETED only when each of its locations was confirmed.        *)
CompletedIsConfirmed ==
  ~raced => \A t \in Task : tasks[t].status = "COMPLETED"
              => \A r \in ItemsOf(t) : items[t][r] = "CONFIRMED"

(* Rows and copies keep their shape, and what is completed was confirmed.    *)
CompletedInFull == PtlTypeOK /\ CompletedIsConfirmed

(* What was confirmed is never expired, cancelled or lit again.              *)
ConfirmedStays ==
  [][~raced' => \A t \in Task, r \in Stocked :
       items[t][r] = "CONFIRMED" => items'[t][r] = "CONFIRMED"]_ptlVars

(* However handlers overlap, overwrite each other or die, no task stays open. *)
TasksClose == \A t \in Task : tasks[t].status \in Open ~> tasks[t].status \notin Open

(* No item stays lit: its location can be searched and rebound again.  Only   *)
(* handlers that overlap or outlast their task leave one behind.              *)
LampsGoOut ==
  \A t \in Task :
    (\E r \in Stocked : items[t][r] \in Lit)
      ~> ((\A r \in Stocked : items[t][r] \notin Lit) \/ raced \/ slow)

(* What picking begins it ends, with or without the picker's help.            *)
TasksEnd == TasksClose /\ LampsGoOut

=============================================================================
