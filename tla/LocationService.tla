--------------------------- MODULE LocationService --------------------------
(***************************************************************************)
(* LocationService.update and remove.  Both look first and write later,    *)
(* with no transaction around the two: update loads the location, assigns  *)
(* the columns the caller gave and saves the entity; remove counts the     *)
(* stock of the location and then deletes it.                              *)
(***************************************************************************)
EXTENDS StockDb

CONSTANTS
  Keeper,         \* location-service requests in flight
  StatusChoice,   \* statuses update is asked to set
  Renames,        \* is update also called without a status?
  Removes         \* is remove called?

ASSUME LocationServiceAssumption ==
  /\ StatusChoice \subseteq LocationStatus \ {"GONE"}
  /\ Renames \in BOOLEAN
  /\ Removes \in BOOLEAN

VARIABLE loc   \* the location-service requests

Resting == [phase |-> "resting"]

LocationRequest ==
  [phase : {"updating", "removing"}, location : Location,
   copy : LocationStatus]   \* status of the loaded entity, as it will be saved

LocTypeOK == loc \in [Keeper -> LocationRequest \union {Resting}]

LocInit == loc = [k \in Keeper |-> Resting]

Load(k, l, phase, copy) ==
  /\ loc[k] = Resting
  /\ status[l] # "GONE"
  /\ loc' = [loc EXCEPT ![k] = [phase |-> phase, location |-> l, copy |-> copy]]
  /\ UNCHANGED dbVars

BeginUpdate(k, l) ==
  \E st \in StatusChoice \union (IF Renames THEN {status[l]} ELSE {}) :
    Load(k, l, "updating", st)

\* save writes the loaded status over whatever the row has by now, and
\* inserts the row again if it was deleted.
FinishUpdate(k) ==
  /\ loc[k].phase = "updating"
  /\ status' = [status EXCEPT ![loc[k].location] = loc[k].copy]
  /\ loc' = [loc EXCEPT ![k] = Resting]
  /\ UNCHANGED <<stock, saved, owner, ledger>>

\* Fault: only the default location of the inventory rows is looked at.
LooksEmptyByDefault(l) ==
  \A s \in Sku : ~(saved[s].exists /\ saved[s].home = l /\ saved[s].quantity > 0)

\* No location row with stock, and no inventory row with stock that has the
\* location as its default.
LooksEmpty(l) ==
  \A s \in Sku :
    /\ saved[s].at[l].quantity <= 0
    /\ ~(saved[s].exists /\ saved[s].home = l /\ saved[s].quantity > 0)

BeginRemove(k, l) ==
  /\ Removes
  /\ LooksEmpty(l)
  /\ Load(k, l, "removing", status[l])

FinishRemove(k) ==
  /\ loc[k].phase = "removing"
  /\ status' = [status EXCEPT ![loc[k].location] = "GONE"]
  /\ loc' = [loc EXCEPT ![k] = Resting]
  /\ UNCHANGED <<stock, saved, owner, ledger>>

LocStep ==
  \E k \in Keeper :
    \/ \E l \in Location : BeginUpdate(k, l) \/ BeginRemove(k, l)
    \/ FinishUpdate(k)
    \/ FinishRemove(k)
=============================================================================
