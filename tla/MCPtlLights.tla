---------------------------- MODULE MCPtlLights ----------------------------
(***************************************************************************)
(* An instance of PtlLights for TLC.  A behaviour has either two lamps and *)
(* one chore at a time, or one lamp and chores that overlap (turn).        *)
(***************************************************************************)
EXTENDS PtlLights, TLC
CONSTANTS g1, g2, x1, x2, c1

VARIABLE turn

OneController == [l \in Lamp |-> c1]
\* Good g1 lies in both places, g2 in the first only; one piece of g1 is an alert.
TwoGoods == [g \in Good |-> IF g = g1 THEN Place ELSE {x1}]
Alert == [g \in Good |-> IF g = g1 THEN 1 ELSE 0]

Init == LightsInit /\ turn \in {"apart", "overlap"}

Dark(l) == bind'[l] = Unbound /\ shows'[l] = "off" /\ search'[l] = {}

\* One chore.  While no lamp is dark, there is one search at most and the second place is
\* stocked; the second good is there while one is and the controller is up.
Apart ==
  /\ Cardinality({k \in Chore : chore'[k] # NoChore}) <= 1
  /\ avail'[g2][x1] > 0 => live' = Controller /\ \E l \in Lamp : Dark(l)
  /\ \/ \E l \in Lamp : Dark(l)
     \/ /\ \E l \in Lamp : search'[l] = {}
        /\ avail'[g1][x2] = 1
        /\ \A l \in Lamp : bind'[l].place # NoPlace => bind'[l].enabled

\* One lamp, of the first place, and one good, in both.
OneLamp ==
  /\ avail'[g2] = avail[g2]
  /\ \E l \in Lamp :
       /\ bind'[l] \in {Unbound, [place |-> x1, enabled |-> TRUE]}
       /\ \A m \in Lamp \ {l} : Dark(m)

Symmetry == Permutations(Chore) \union Permutations(Lamp)

Next ==
  /\ LightsNext /\ UNCHANGED turn
  /\ IF turn = "apart" THEN Apart ELSE OneLamp

Spec == Init /\ [][Next]_<<lightVars, turn>>
=============================================================================
