----------------------------- MODULE PtlLights -----------------------------
(***************************************************************************)
(* PtlLights: what the lamps of the locations show.  A lamp shows the      *)
(* stock colour of its location and blinks while the location is searched. *)
(*                                                                         *)
(* Whatever changes that (stock, a search, a controller that comes back)   *)
(* starts a chore that reads bindings and stock (Read), looks for searches *)
(* (Look) and then sends one command per lamp (Push), fire and forget.     *)
(* Chores overlap, and the command that comes last need not be the one     *)
(* that knows best.  So a lamp is vouched for (fresh) only if the chore    *)
(* that told it last had it to itself from its beginning; the next chore   *)
(* that has makes it so again.                                             *)
(***************************************************************************)
EXTENDS Integers, FiniteSets, SequencesExt

CONSTANTS
  Controller, Lamp,
  ControllerOf,    \* [Lamp -> Controller]
  Place, Good,     \* locations and SKUs
  Stores,          \* [Good -> places that have an inventory row for it]
  Safety,          \* [Good -> safety stock]
  MaxAvail,        \* bound on the stock of a row
  Chore,           \* chores that may be in flight
  NoPlace, NoLamp

ASSUME LightsAssumption ==
  /\ ControllerOf \in [Lamp -> Controller]
  /\ Stores \in [Good -> SUBSET Place]
  /\ Safety \in [Good -> Nat] /\ MaxAvail \in Nat
  /\ NoPlace \notin Place /\ NoLamp \notin Lamp

VARIABLES
  avail,    \* available stock of each inventory row
  bind,     \* the binding of each lamp
  device,   \* the controller rows
  live,     \* controllers that are up and connected
  hello,    \* controllers that restarted and still have to say "online"
  shows,    \* what each lamp shows
  search,   \* the places each lamp is lit for by active task items
  known,    \* syncedDeviceIds
  chore,
  fresh     \* history: lamps last told what to show by a chore that had them to itself

lightVars == <<avail, bind, device, live, hello, shows, search, known, chore, fresh>>

Colour == {"off", "green", "yellow", "red", "blink"}

Binding == [place : Place \union {NoPlace}, enabled : BOOLEAN]
Unbound == [place |-> NoPlace, enabled |-> FALSE]

NoChore == [kind |-> <<"none", "none">>, about |-> {}, place |-> NoPlace, ends |-> FALSE,
            plan |-> {}, alone |-> {}]

Command == [lamp : Lamp, colour : Colour]

\* about: lamps it may tell what to show; place: whose colour a revert shows, and ends:
\* whether the search for it ends then; plan: commands to send; alone: lamps it has had
\* to itself.
ChoreType ==
  [kind : {"read", "look", "send"} \X {"sync", "refresh", "revert", "blink"},
   about : SUBSET Lamp, place : Place \union {NoPlace}, ends : BOOLEAN,
   plan : SUBSET Command, alone : SUBSET Lamp]

\* Rows, lamps and chores keep their shape.
LightsTypeOK ==
  /\ avail \in [Good -> [Place -> 0 .. MaxAvail]]
  /\ bind \in [Lamp -> Binding]
  /\ device \in [Controller -> {"none", "ONLINE", "OFFLINE"}]
  /\ live \subseteq Controller /\ hello \subseteq live /\ known \subseteq Controller
  /\ shows \in [Lamp -> Colour]
  /\ search \in [Lamp -> SUBSET Place]
  /\ \A k \in Chore : chore[k] = NoChore \/ chore[k] \in ChoreType
  /\ fresh \subseteq Lamp

-----------------------------------------------------------------------------
Total(g) == SumFunction([p \in Stores[g] |-> avail[g][p]])

\* resolveStockColors: the SKU's stock in all places against its safety stock.
StockColour(g, p) ==
  CASE Total(g) <= 0              -> "red"
    [] Total(g) \in 1 .. Safety[g] -> "yellow"
    [] OTHER                      -> "green"

\* computeLocationBaseColors: the most urgent SKU of the place; no stock, no light.
BaseColour(p) ==
  LET found == {StockColour(g, p) : g \in {h \in Good : p \in Stores[h] /\ avail[h][p] > 0}}
  IN  CASE "red" \in found                            -> "red"
        [] "red" \notin found /\ "yellow" \in found -> "yellow"
        [] found = {"green"}                         -> "green"
        [] OTHER                                     -> "off"

LightsInit ==
  /\ avail = [g \in Good |-> [p \in Place |-> 0]]
  /\ bind = [l \in Lamp |-> Unbound]
  /\ device = [c \in Controller |-> "none"]
  /\ live = {} /\ hello = {}
  /\ shows = [l \in Lamp |-> "off"]
  /\ search = [l \in Lamp |-> {}]
  /\ known = {}
  /\ chore = [k \in Chore |-> NoChore]
  /\ fresh = {}

-----------------------------------------------------------------------------
BoundLamps(places) == {l \in Lamp : bind[l].enabled /\ bind[l].place \in places}

\* refreshBaseColorsForStockChange
AffectedPlaces(g, p) == {p} \union Stores[g]

\* A chore begins; what is in flight already about one of its lamps has that lamp no
\* longer to itself, nor has the new one.  amiss: lamps it will not tell what is true.
Begin(k, kind, about, place, ends, plan, amiss) ==
  LET shared == about \intersect (amiss \union UNION {chore[j].about : j \in Chore})
  IN  /\ chore[k] = NoChore
      /\ chore' = [j \in Chore |->
           IF j = k THEN [kind |-> kind, about |-> about, place |-> place, ends |-> ends,
                          plan |-> plan, alone |-> about \ shared]
           ELSE [chore[j] EXCEPT !.alone = @ \ about]]
      /\ fresh' = fresh \ shared

\* What lamps are to show changes without a chore that tells them.
Untold(lamps) ==
  /\ fresh' = fresh \ lamps
  /\ chore' = [k \in Chore |-> [chore[k] EXCEPT !.alone = @ \ lamps]]

OfController(c) == {l \in Lamp : ControllerOf[l] = c}

\* A booking, after its commit.
StockChange(k, g, p, n) ==
  /\ p \in Stores[g] /\ n # avail[g][p]
  /\ avail' = [avail EXCEPT ![g][p] = n]
  /\ Begin(k, <<"read", "refresh">>, BoundLamps(AffectedPlaces(g, p)), NoPlace, FALSE, {}, {})
  /\ UNCHANGED <<bind, device, live, hello, shows, search, known>>

\* Fault: only a change of the stored status counts, not the controller's "online".
NeedsSyncOffline(c) == device[c] # "ONLINE"

NeedsSync(c) == device[c] # "ONLINE" \/ c \in hello \/ c \notin known

\* handleDeviceEvent: any report makes the controller ONLINE.
DeviceEvent(k, c) ==
  /\ c \in live /\ device[c] # "none"
  /\ device' = [device EXCEPT ![c] = "ONLINE"]
  /\ hello' = hello \ {c}
  /\ IF NeedsSync(c)
     THEN /\ known' = known \union {c}
          /\ Begin(k, <<"read", "sync">>, OfController(c), NoPlace, FALSE, {}, {})
     ELSE chore[k] = NoChore /\ UNCHANGED <<known, chore, fresh>>
  /\ UNCHANGED <<avail, bind, live, shows, search>>

\* sweepOfflineDevices: no report for too long.
SweepOffline(c) ==
  /\ device[c] = "ONLINE"
  /\ device' = [device EXCEPT ![c] = "OFFLINE"]
  /\ UNCHANGED <<avail, bind, live, hello, shows, search, known, chore, fresh>>

\* refreshBaseColors for one controller.
Refresh(k, c) ==
  /\ device[c] # "none"
  /\ Begin(k, <<"read", "sync">>, OfController(c), NoPlace, FALSE, {}, {})
  /\ UNCHANGED <<avail, bind, device, live, hello, shows, search, known>>

\* lightUp: the item is there before the lamp blinks.
SearchBegins(k, l) ==
  LET p == bind[l].place
  IN  /\ bind[l].enabled /\ device[ControllerOf[l]] = "ONLINE"
      /\ \A m \in Lamp : p \notin search[m]
      /\ \E g \in Good : p \in Stores[g] /\ avail[g][p] > 0
      /\ search' = [search EXCEPT ![l] = @ \union {p}]
      /\ Begin(k, <<"send", "blink">>, {l}, NoPlace, FALSE, {[lamp |-> l, colour |-> "blink"]}, {})
      /\ UNCHANGED <<avail, bind, device, live, hello, shows, known>>

\* A revert shows the colour of the item's place, whatever the lamp is bound to by now and
\* searched for besides.
Astray(l, p) == IF bind[l].place # p \/ search[l] \ {p} # {} THEN {l} ELSE {}

\* applyConfirm, lightOff: first the lamp reverts, then the item ends.
SearchEnds(k, l, p) ==
  /\ p \in search[l]
  /\ Begin(k, <<"read", "revert">>, {l}, p, TRUE, {}, Astray(l, p))
  /\ UNCHANGED <<avail, bind, device, live, hello, shows, search, known>>

\* lightOff of an item that is not lit yet, lightUp whose command failed: nothing reverts.
SearchDropped(l, p) ==
  /\ p \in search[l]
  /\ search' = [search EXCEPT ![l] = @ \ {p}]
  /\ Untold({l})
  /\ UNCHANGED <<avail, bind, device, live, hello, shows, known>>

\* sweepExpiredTasks: first the item ends, then the lamp of a controller that is
\* on line reverts.
SearchExpires(k, l, p) ==
  /\ p \in search[l]
  /\ search' = [search EXCEPT ![l] = @ \ {p}]
  /\ IF device[ControllerOf[l]] = "ONLINE"
     THEN Begin(k, <<"read", "revert">>, {l}, p, FALSE, {}, Astray(l, p))
     ELSE chore[k] = NoChore /\ Untold({l})
  /\ UNCHANGED <<avail, bind, device, live, hello, shows, known>>

\* calibrate: the lamp blinks for some seconds, then a timer reverts it if it is bound;
\* nobody asks whether it is lit for a search.
Calibrate(k, l) ==
  /\ device[ControllerOf[l]] # "none"
  /\ IF bind[l].enabled
     THEN Begin(k, <<"read", "revert">>, {l}, bind[l].place, FALSE, {}, Astray(l, bind[l].place)
                  \union IF search[l] # {} THEN {l} ELSE {})
     ELSE chore[k] = NoChore /\ Untold({l})
  /\ shows' = IF ControllerOf[l] \in live THEN [shows EXCEPT ![l] = "blink"] ELSE shows
  /\ UNCHANGED <<avail, bind, device, live, hello, search, known>>

-----------------------------------------------------------------------------
KindOf(k) == chore[k].kind[2]
Phase(k, p) == chore[k] # NoChore /\ chore[k].kind[1] = p

\* Bindings, controllers and stock are read: what is sent if nothing is searched.
\* A refresh leaves out controllers that are not ONLINE; a revert goes by the item.
Read(k) ==
  /\ Phase(k, "read")
  /\ LET revert == KindOf(k) = "revert"
         reached == {l \in chore[k].about :
                       \/ revert
                       \/ bind[l].enabled /\ (KindOf(k) = "sync" \/ device[ControllerOf[l]] = "ONLINE")}
         colour(l) == BaseColour(IF revert THEN chore[k].place ELSE bind[l].place)
     IN  chore' = [chore EXCEPT
           ![k].kind = <<IF revert THEN "send" ELSE "look", KindOf(k)>>,
           ![k].about = reached, ![k].alone = @ \intersect reached,
           ![k].plan = {[lamp |-> l, colour |-> colour(l)] : l \in reached}]
  /\ UNCHANGED <<avail, bind, device, live, hello, shows, search, known, fresh>>

\* A searched lamp blinks on when its controller is synchronised, and is left
\* alone when stock has changed.
Planned(kind, cmd) ==
  CASE search[cmd.lamp] = {}                   -> {cmd}
    [] search[cmd.lamp] # {} /\ kind = "sync" -> {[cmd EXCEPT !.colour = "blink"]}
    [] OTHER                                   -> {}

Look(k) ==
  /\ Phase(k, "look")
  /\ chore' = [chore EXCEPT
       ![k].kind = <<"send", KindOf(k)>>,
       ![k].plan = UNION {Planned(KindOf(k), cmd) : cmd \in chore[k].plan}]
  /\ UNCHANGED <<avail, bind, device, live, hello, shows, search, known, fresh>>

\* pushBaseColor: a controller that is down misses the command.
Push(k) ==
  /\ Phase(k, "send")
  /\ \E cmd \in chore[k].plan :
       /\ shows' = IF ControllerOf[cmd.lamp] \in live
                   THEN [shows EXCEPT ![cmd.lamp] = cmd.colour] ELSE shows
       /\ chore' = [chore EXCEPT ![k].plan = @ \ {cmd}]
       /\ fresh' = IF cmd.lamp \in chore[k].alone THEN fresh \union {cmd.lamp}
                   ELSE fresh \ {cmd.lamp}
  /\ UNCHANGED <<avail, bind, device, live, hello, search, known>>

Done(k) ==
  /\ Phase(k, "send") /\ chore[k].plan = {}
  /\ search' = [l \in Lamp |-> IF chore[k].ends /\ l \in chore[k].about
                              THEN search[l] \ {chore[k].place} ELSE search[l]]
  /\ chore' = [chore EXCEPT ![k] = NoChore]
  /\ UNCHANGED <<avail, bind, device, live, hello, shows, known, fresh>>

-----------------------------------------------------------------------------

\* saveController; bindings to one that was removed do not come with it.
SaveController(c) ==
  /\ device[c] = "none"
  /\ \A l \in OfController(c) : bind[l] = Unbound
  /\ device' = [device EXCEPT ![c] = "OFFLINE"]
  /\ UNCHANGED <<avail, bind, live, hello, shows, search, known, chore, fresh>>

\* removeController: bindings that are switched off do not hold it.
RemoveController(c) ==
  /\ device[c] # "none"
  /\ \A l \in OfController(c) : ~bind[l].enabled
  /\ device' = [device EXCEPT ![c] = "none"]
  /\ UNCHANGED <<avail, bind, live, hello, shows, search, known, chore, fresh>>

\* Nobody tells a lamp that its binding changed.
Rebound(lamps, new) ==
  /\ bind' = [l \in Lamp |-> IF l \in lamps THEN new[l] ELSE bind[l]]
  /\ Untold(lamps)
  /\ UNCHANGED <<avail, device, live, hello, shows, search, known>>

Searched(p) == \E l \in Lamp : p \in search[l]

\* saveBinding; was is the lamp the binding to change has now.
SaveBinding(was, l, p, enabled) ==
  /\ device[ControllerOf[l]] # "none"
  /\ ~Searched(p)
  /\ was # NoLamp => bind[was] # Unbound
  /\ \A m \in Lamp \ {was} : bind[m].place # p
  /\ was = l \/ bind[l] = Unbound
  /\ Rebound({was, l} \ {NoLamp},
             [m \in Lamp |-> IF m = l THEN [place |-> p, enabled |-> enabled] ELSE Unbound])

RemoveBinding(l) ==
  /\ bind[l] # Unbound /\ ~Searched(bind[l].place)
  /\ Rebound({l}, [m \in Lamp |-> Unbound])

\* External: a controller loses power, and comes back with all lamps off.
GoesDown(c) ==
  /\ c \in live
  /\ live' = live \ {c} /\ hello' = hello \ {c}
  /\ UNCHANGED <<avail, bind, device, shows, search, known, chore, fresh>>

ComesUp(c) ==
  /\ c \notin live
  /\ live' = live \union {c} /\ hello' = hello \union {c}
  /\ shows' = [l \in Lamp |-> IF ControllerOf[l] = c THEN "off" ELSE shows[l]]
  /\ UNCHANGED <<avail, bind, device, search, known, chore, fresh>>

\* External: a lamp stops blinking by itself when its time is up, though the search it
\* was lit for has still to be swept away.
LampTimesOut(l) ==
  /\ shows[l] = "blink" /\ ControllerOf[l] \in live
  /\ shows' = [shows EXCEPT ![l] = "off"]
  /\ IF search[l] # {} THEN Untold({l}) ELSE UNCHANGED <<chore, fresh>>
  /\ UNCHANGED <<avail, bind, device, live, hello, search, known>>

\* The server dies: chores and syncedDeviceIds are gone.
LightsCrash ==
  /\ chore' = [k \in Chore |-> NoChore] /\ known' = {}
  /\ UNCHANGED <<avail, bind, device, live, hello, shows, search, fresh>>

LightsNext ==
  \/ \E k \in Chore :
       \/ \E g \in Good, p \in Place, n \in 0 .. MaxAvail : StockChange(k, g, p, n)
       \/ \E c \in Controller : DeviceEvent(k, c) \/ Refresh(k, c)
       \/ \E l \in Lamp : SearchBegins(k, l) \/ Calibrate(k, l)
       \/ \E l \in Lamp, p \in Place : SearchEnds(k, l, p) \/ SearchExpires(k, l, p)
       \/ Read(k) \/ Look(k) \/ Push(k) \/ Done(k)
  \/ \E c \in Controller : \/ SweepOffline(c) \/ SaveController(c) \/ RemoveController(c)
                           \/ GoesDown(c) \/ ComesUp(c)
  \/ \E was \in Lamp \union {NoLamp}, l \in Lamp, p \in Place, enabled \in BOOLEAN :
       SaveBinding(was, l, p, enabled)
  \/ \E l \in Lamp : RemoveBinding(l) \/ LampTimesOut(l) \/ \E p \in Place : SearchDropped(l, p)
  \/ LightsCrash

LightsSpec == LightsInit /\ [][LightsNext]_lightVars

-----------------------------------------------------------------------------
UpToDate(c) == c \in live \ hello /\ c \in known /\ device[c] = "ONLINE"

(* A lamp that is vouched for, of a controller that is on line, tells the     *)
(* truth once no chore is about it: it blinks if its location is searched, and *)
(* else shows the colour of the stock there.  Restarts of controllers and of   *)
(* the server, and chores that overlapped, are made good by the next chore     *)
(* that has the lamp to itself.                                                *)
LampsTellTheTruth ==
  \A l \in fresh :
    /\ UpToDate(ControllerOf[l]) /\ bind[l].enabled
    /\ \A k \in Chore : l \notin chore[k].about
    => shows[l] = IF search[l] # {} THEN "blink" ELSE BaseColour(bind[l].place)

(* Lamps and records keep their shape, and the lamps show what is true.        *)
LampsRight == LightsTypeOK /\ LampsTellTheTruth
=============================================================================
