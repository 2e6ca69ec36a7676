------------------------------ MODULE MCContent ------------------------------
(***************************************************************************)
(* An instance for posts, the portal and the codes of locations.  They     *)
(* share no state; a behaviour exercises one of them (turn).               *)
(***************************************************************************)
EXTENDS Pages, TLC

CONSTANTS b1, k1, s1, t1

VARIABLE turn

Symmetry == Permutations(Editor)

Init ==
  /\ PostsInit /\ PortalInit /\ CodesInit
  /\ turn \in {"reviews", "views", "sections", "settings", "jobs", "inquiries", "page", "codes"}
  /\ shown = [goods |-> {}, shelves |-> {}, under |-> [g \in Good |-> b1]]
  /\ turn # "settings" => site = {}

-----------------------------------------------------------------------------
Held(ops) == \E e \in Editor : hand'[e].op \in ops
Offered1 == [row |-> "live", code |-> k1, on |-> TRUE]
OneOffered ==
  /\ \A s \in Section : section'[s] = Unopened \/ (s = s1 /\ section'[s] = Offered1)
  /\ \A e \in Editor : hand'[e].op \in {"found", "section", "alter"} => hand'[e].copy = Offered1

\* Bounds of each turn: what a post says does not matter to its views, and its
\* sections do not matter to a post once they are there.
PostsTurn ==
  /\ turn \in {"reviews", "views", "sections"} /\ PostsNext
  /\ UNCHANGED <<portalVars, codeVars, turn>>
  /\ turn # "sections" => ~Held({"drop"}) /\ OneOffered
  /\ \/ turn = "reviews" /\ ~Held({"look"}) /\ Cardinality(log') <= 1 /\ Cardinality(reviews') <= 2
     \/ /\ turn = "views" /\ ~Held({"collect"}) /\ log' = {}
        /\ \A e \in Editor : hand'[e].op \in {"create", "write", "review"} =>
                               hand'[e].copy.text = t1
     \/ turn = "sections" /\ ~Held({"create", "write", "review", "look", "collect"})

PortalTurn ==
  /\ turn \in {"settings", "jobs", "inquiries", "page"} /\ PortalNext
  /\ UNCHANGED <<postVars, codeVars, turn>>
  /\ turn # "settings" => site' = site /\ \A h \in Hand : serving'[h].op # "settings"
  /\ turn # "page" => shown' = shown
  /\ turn # "jobs" => job' = job /\ \A h \in Hand : serving'[h].op # "job"
  /\ turn # "inquiries" => inquiry' = inquiry /\ \A h \in Hand : serving'[h].op # "inquiry"

CodesTurn ==
  /\ turn = "codes" /\ CodesNext /\ UNCHANGED <<postVars, portalVars, turn>>

Next == PostsTurn \/ PortalTurn \/ CodesTurn

ContentSpec == Init /\ [][Next]_<<postVars, portalVars, codeVars, turn>>
=============================================================================
