----------------------------- MODULE MCAccounts -----------------------------
(***************************************************************************)
(* An instance for who may do what: tenants and members of the mini        *)
(* program, registration by a code, the platform's own users and what the  *)
(* users of a tenant may see.  They share no state here; a behaviour       *)
(* exercises one of them (turn).                                           *)
(***************************************************************************)
EXTENDS Accounts, TLC

CONSTANTS ta, tb, k2, fa, fb, ra, rb, i1, i2

VARIABLE turn

\* A directory with a page in it; a role ADMIN for either firm.
Pages == (i1 :> Root) @@ (i2 :> i1)
Admins == (fa :> ra) @@ (fb :> rb)

\* The same model values stand for the requests of each part.
Symmetry == Permutations(Admin) \union Permutations(Name)

Init ==
  /\ TenantsInit /\ RegInit /\ PlatformInit /\ AccessInit
  /\ turn \in {"tenants", "registration", "platform", "access"}

\* Companies are taken on in a fixed order; there are two of them or two requests, and
\* those are about a company that applied by itself and that the platform does not edit.
\* Once a save was crossed by another one nothing new is begun.
TenantsTurn ==
  LET flight == {p \in Admin : req'[p] # NoReq}
  IN  /\ turn = "tenants" /\ TenantsNext
      /\ \/ Cardinality(flight) <= 1
         \/ /\ ~renamed'
            /\ \A p \in flight : req'[p].op # "update"
            /\ \A p \in flight : "copy" \in DOMAIN req'[p] =>
                 /\ req'[p].copy.source = "miniapp"
                 /\ req'[p].copy.name = tenant'[req'[p].t].name
      /\ tenant'[tb] # NoTenant =>
           tenant'[ta] # NoTenant /\ Cardinality(flight) <= 1 /\ ~overlapped'
      /\ torn # {} => \A p \in flight : req[p] # NoReq
      /\ UNCHANGED <<regVars, platformVars, accessVars, turn>>

RegTurn ==
  turn = "registration" /\ RegNext
  /\ UNCHANGED <<tenantVars, platformVars, accessVars, turn>>

\* Either only users are edited, or the first one, who stays enabled, edits menus and
\* roles; of a second menu and roles there is one.  Requests clash in one way.
PlatformTurn ==
  /\ turn = "platform" /\ PlatformNext
  /\ \/ /\ \A k \in PMenu, r \in PRole : pmenu'[k] = Absent /\ prole'[r] = Absent
        /\ \A p \in Desk : desk'[p].op \in {"none", "saveUser", "status", "deleteUser"}
     \/ /\ \A u \in Operator \ {Chief} : operator'[u] = Absent
        /\ \A p \in Desk : desk'[p].op = "saveUser" =>
             desk'[p].u = Chief /\ desk'[p].copy.active
  /\ \/ pmenu'[k2] = Absent /\ \A p \in Desk : desk'[p].op = "saveMenu" => desk'[p].k # k2
     \/ \A r \in PRole : prole'[r] = Absent
  /\ Cardinality(clash') <= 1
  /\ UNCHANGED <<tenantVars, regVars, accessVars, turn>>

\* The second firm keeps its grants and its ADMIN; while there is a third role requests
\* come one by one and grants stay.  Two requests at once are of two kinds.
AccessTurn ==
  /\ turn = "access" /\ AccessNext
  /\ grant'[fb] = grant[fb] /\ role'[rb] = role[rb]
  /\ \A p, q \in Worker : p # q => work'[p] = NoWork \/ work'[p].op # work'[q].op
  /\ \/ /\ \A r \in Role \ {ra, rb} : role'[r] = Missing
        /\ \A p \in Worker : work'[p].op = "role" => work'[p].r \in {ra, rb}
     \/ /\ Cardinality({p \in Worker : work'[p] # NoWork}) <= 1
        /\ grant'[fa] = Item /\ \A p \in Worker : work'[p].op # "grant"
  /\ UNCHANGED <<tenantVars, regVars, platformVars, turn>>

Next == TenantsTurn \/ RegTurn \/ PlatformTurn \/ AccessTurn

Spec == Init /\ [][Next]_<<tenantVars, regVars, platformVars, accessVars, turn>>
=============================================================================
