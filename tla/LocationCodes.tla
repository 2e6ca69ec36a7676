---------------------------- MODULE LocationCodes ----------------------------
(***************************************************************************)
(* The codes of locations, by which handhelds and sheets name them.  They  *)
(* are made from the place of a location, looked for before a row is       *)
(* saved, among the locations of every tenant, and kept once by nothing    *)
(* else: the unique key the entity declares is not in the schema.          *)
(* batchCreate does not look.                                              *)
(***************************************************************************)
EXTENDS Integers, FiniteSets

CONSTANTS
  Spot,     \* ids of locations
  Lessee,   \* tenants
  Shelves, Levels, \* numbers of shelves and levels; 0: none was given
  Mover     \* requests that may be in flight at once

ASSUME LocationCodesAssumption == Shelves \subseteq Nat /\ Levels \subseteq Nat

VARIABLES
  spot,      \* the locations' rows
  move,      \* the requests in flight
  batched,   \* history: codes batchCreate made
  contested  \* history: requests overlapped

codeVars == <<spot, move, batched, contested>>

\* generateLocationCode: what is not given is 00, and numbers are padded.
GenerateLocationCode(shelf, level) == <<shelf, level>>
LocationCode == {GenerateLocationCode(s, v) : s \in Shelves, v \in Levels}

SpotRow == [of : Lessee, code : LocationCode]
Vacant == [of |-> "nobody"]
Still == [op |-> "none"]

\* Rows and copies keep their shape.
CodesTypeOK ==
  /\ \A l \in Spot : spot[l] \in SpotRow \union {Vacant}
  /\ \A m \in Mover :
       \/ move[m] = Still
       \/ move[m] \in [op : {"save"}, l : Spot, copy : SpotRow]
       \/ move[m] \in [op : {"remove"}, l : Spot]
  /\ batched \subseteq LocationCode /\ contested \in BOOLEAN

CodesInit ==
  /\ spot = [l \in Spot |-> Vacant] /\ move = [m \in Mover |-> Still]
  /\ batched = {} /\ contested = FALSE

Standing(l) == spot[l] # Vacant
Moves(m, r) ==
  /\ move[m] = Still
  /\ move' = [move EXCEPT ![m] = r]
  /\ contested' = (contested \/ \E n \in Mover : move[n] # Still)
  /\ UNCHANGED <<spot, batched>>
Rests(m) == move' = [move EXCEPT ![m] = Still] /\ UNCHANGED contested

\* The code is looked for among everybody's locations.
CodeFree(c) == ~\E l \in Spot : Standing(l) /\ spot[l].code = c

\* create
CreateLocation(m, l, t, c) ==
  /\ ~Standing(l) /\ \A n \in Mover : move[n] # Still => move[n].l # l
  /\ CodeFree(c)
  /\ Moves(m, [op |-> "save", l |-> l, copy |-> [of |-> t, code |-> c]])

\* Fault: a new code is not looked for.
RecodeLocationUnchecked(m, l, c) ==
  Standing(l) /\ Moves(m, [op |-> "save", l |-> l, copy |-> [spot[l] EXCEPT !.code = c]])

\* update: a code that stays is not looked for.
RecodeLocation(m, l, c) ==
  /\ Standing(l)
  /\ c = spot[l].code \/ CodeFree(c)
  /\ Moves(m, [op |-> "save", l |-> l, copy |-> [spot[l] EXCEPT !.code = c]])

\* save: a row removed meanwhile is there again.
SaveLocation(m) ==
  /\ move[m].op = "save"
  /\ spot' = [spot EXCEPT ![move[m].l] = move[m].copy]
  /\ Rests(m) /\ UNCHANGED batched

\* remove, of a location without stock
RemoveLocation(m, l) == Standing(l) /\ Moves(m, [op |-> "remove", l |-> l])

DeleteLocation(m) ==
  /\ move[m].op = "remove"
  /\ spot' = [spot EXCEPT ![move[m].l] = Vacant]
  /\ Rests(m) /\ UNCHANGED batched

BatchPlaces(shelves, levels) ==
  {GenerateLocationCode(s, v) : s \in shelves \ {0}, v \in levels \ {0}}

\* batchCreate: a row for each level of each shelf, saved at once.
BatchCreate(t, shelves, levels) ==
  LET codes == BatchPlaces(shelves, levels)
      free == {l \in Spot : ~Standing(l) /\ \A m \in Mover : move[m] # Still => move[m].l # l}
  IN  /\ codes # {} /\ Cardinality(codes) <= Cardinality(free)
      /\ \E rows \in SUBSET free, put \in [Spot -> codes] :
           /\ Cardinality(rows) = Cardinality(codes) /\ {put[l] : l \in rows} = codes
           /\ spot' = [l \in Spot |->
                IF l \in rows THEN [of |-> t, code |-> put[l]] ELSE spot[l]]
      /\ batched' = batched \union codes
      /\ UNCHANGED <<move, contested>>

\* findByCode, by the scan of a handheld or a row of a sheet
FindByCode(c, t) == {l \in Spot : Standing(l) /\ spot[l].of = t /\ spot[l].code = c}

CodesNext ==
  \/ \E m \in Mover, l \in Spot, t \in Lessee, s \in Shelves, v \in Levels :
       CreateLocation(m, l, t, GenerateLocationCode(s, v))
  \/ \E m \in Mover, l \in Spot, c \in LocationCode : RecodeLocation(m, l, c)
  \/ \E m \in Mover, l \in Spot : RemoveLocation(m, l)
  \/ \E m \in Mover : SaveLocation(m) \/ DeleteLocation(m)
  \/ \E t \in Lessee, levels \in SUBSET Levels, shelves \in SUBSET Shelves :
       BatchCreate(t, shelves, levels)

CodesSpec == CodesInit /\ [][CodesNext]_codeVars

-----------------------------------------------------------------------------
(* A scanned code finds one location of the tenant at most, unless the code   *)
(* was made by batchCreate or requests overlapped: nothing else would keep a  *)
(* second location from having it.                                            *)
ScanFindsOne ==
  \A t \in Lessee, c \in LocationCode :
    contested \/ c \in batched \/ Cardinality(FindByCode(c, t)) <= 1
=============================================================================
