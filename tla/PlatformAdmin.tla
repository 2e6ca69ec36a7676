--------------------------- MODULE PlatformAdmin ---------------------------
(***************************************************************************)
(* PlatformAdmin: the platform's users, roles and menus.  A token is good  *)
(* until it expires, whatever becomes of its user.  Handlers read, check   *)
(* and count first and write the whole copy afterwards.                    *)
(***************************************************************************)
EXTENDS Naturals, FiniteSets

CONSTANTS
  Operator,  \* platform users, by id
  PRole,     \* platform roles
  PMenu,     \* platform menus
  Desk,      \* requests that may be in flight at once
  Chief,     \* the user the data base is delivered with
  Top        \* the parent of a menu that has none

ASSUME PlatformAssumption == Chief \in Operator /\ Top \notin PMenu

VARIABLES
  operator,  \* the users' rows
  duty,      \* user_roles, which no foreign key guards
  prole,     \* the roles' rows with role_menus
  pmenu,     \* the menus' rows
  token,     \* users that logged in
  desk,      \* the requests in flight
  clash      \* history: what requests overlapped over

platformVars == <<operator, duty, prole, pmenu, token, desk, clash>>

OperatorRow == [active : BOOLEAN]
PRoleRow == [system : BOOLEAN, menus : SUBSET PMenu]
PMenuRow == [parent : PMenu \union {Top}, type : {"MENU", "BUTTON"}]  \* directories are menus here
Absent == [absent |-> TRUE]
NoDesk == [op |-> "none"]

\* Rows and copies keep their shape.
PlatformTypeOK ==
  /\ \A u \in Operator : operator[u] \in OperatorRow \union {Absent}
  /\ \A r \in PRole : prole[r] \in PRoleRow \union {Absent}
  /\ \A k \in PMenu : pmenu[k] \in PMenuRow \union {Absent}
  /\ duty \in [Operator -> SUBSET PRole] /\ token \subseteq Operator
  /\ \A p \in Desk :
       \/ desk[p] = NoDesk
       \/ desk[p] \in [op : {"saveUser"}, u : Operator, copy : OperatorRow,
                       roles : SUBSET PRole]
       \/ desk[p] \in [op : {"status"}, u : Operator, copy : OperatorRow]
       \/ desk[p] \in [op : {"deleteUser"}, u : Operator]
       \/ desk[p] \in [op : {"saveRole"}, r : PRole, copy : PRoleRow]
       \/ desk[p] \in [op : {"deleteRole"}, r : PRole]
       \/ desk[p] \in [op : {"saveMenu"}, k : PMenu, copy : PMenuRow]
       \/ desk[p] \in [op : {"deleteMenu"}, k : PMenu]
  /\ clash \subseteq {"users", "roles", "menus"}

PlatformInit ==
  /\ operator = [u \in Operator |-> IF u = Chief THEN [active |-> TRUE] ELSE Absent]
  /\ duty = [u \in Operator |-> {}]
  /\ prole = [r \in PRole |-> Absent] /\ pmenu = [k \in PMenu |-> Absent]
  /\ token = {} /\ desk = [p \in Desk |-> NoDesk] /\ clash = {}

Enabled(u) == operator[u] # Absent /\ operator[u].active
Operators == {u \in Operator : operator[u] # Absent}
PRoles == {r \in PRole : prole[r] # Absent}
PMenus == {k \in PMenu : pmenu[k] # Absent}

\* Two deletions of users, a role that goes while one is assigned, a menu that goes
\* while one is hung below it.
Over(ops) ==
  {x \in {"users", "roles", "menus"} :
     \/ x = "users" /\ ops = {"deleteUser"}
     \/ x = "roles" /\ ops = {"deleteRole", "saveUser"}
     \/ x = "menus" /\ ops = {"deleteMenu", "saveMenu"}}

\* A request of somebody whose token says platform.
Asks(p, r) ==
  /\ token # {} /\ desk[p] = NoDesk
  /\ desk' = [desk EXCEPT ![p] = r]
  /\ clash' = clash \union UNION {Over({r.op, desk[q].op}) : q \in Desk}
  /\ UNCHANGED <<operator, duty, prole, pmenu, token>>

Answers(p) == desk' = [desk EXCEPT ![p] = NoDesk] /\ UNCHANGED <<token, clash>>

\* login, without an enterprise code.
LogIn(u) ==
  /\ Enabled(u)
  /\ token' = token \union {u}
  /\ UNCHANGED <<operator, duty, prole, pmenu, desk, clash>>

-----------------------------------------------------------------------------
\* saveUser, new or not: getPlatformRoles, and the copy that is going to be written.
SaveOperator(p, u, on, roles) ==
  /\ roles \subseteq PRoles
  /\ Asks(p, [op |-> "saveUser", u |-> u, copy |-> [active |-> on], roles |-> roles])

\* A user removed meanwhile is inserted anew.
CommitOperator(p) ==
  /\ desk[p].op = "saveUser"
  /\ operator' = [operator EXCEPT ![desk[p].u] = desk[p].copy]
  /\ duty' = [duty EXCEPT ![desk[p].u] = desk[p].roles]
  /\ Answers(p) /\ UNCHANGED <<prole, pmenu>>

\* updateUserStatus, asked for by cur.
UpdateUserStatus(p, u, on, cur) ==
  /\ operator[u] # Absent /\ cur \in token
  /\ (~on /\ operator[u].active) =>
       cur # u /\ Cardinality({v \in Operator : Enabled(v)}) > 1
  /\ Asks(p, [op |-> "status", u |-> u, copy |-> [active |-> on]])

CommitStatus(p) ==
  /\ desk[p].op = "status"
  /\ operator' = [operator EXCEPT ![desk[p].u] = desk[p].copy]
  /\ Answers(p) /\ UNCHANGED <<duty, prole, pmenu>>

\* All the platform's users are counted, the disabled ones too.
MayDelete(u, cur) == cur # u /\ Cardinality(Operators) > 1

\* deleteUser
DeleteUser(p, u, cur) ==
  /\ operator[u] # Absent /\ cur \in token /\ MayDelete(u, cur)
  /\ Asks(p, [op |-> "deleteUser", u |-> u])

CommitDeleteUser(p) ==
  /\ desk[p].op = "deleteUser"
  /\ operator' = [operator EXCEPT ![desk[p].u] = Absent]
  /\ duty' = [duty EXCEPT ![desk[p].u] = {}]
  /\ Answers(p) /\ UNCHANGED <<prole, pmenu>>

-----------------------------------------------------------------------------
\* What is kept of a role that is there, what a new one starts with.
PRoleCopy(r, menus) ==
  [system |-> IF prole[r] = Absent THEN FALSE ELSE prole[r].system, menus |-> menus]

\* saveRole: getPlatformMenus
SavePRole(p, r, menus) ==
  /\ menus \subseteq PMenus
  /\ Asks(p, [op |-> "saveRole", r |-> r, copy |-> PRoleCopy(r, menus)])

\* A menu deleted meanwhile fails the foreign key.
CommitPRole(p) ==
  /\ desk[p].op = "saveRole"
  /\ prole' = IF desk[p].copy.menus \subseteq PMenus
              THEN [prole EXCEPT ![desk[p].r] = desk[p].copy] ELSE prole
  /\ Answers(p) /\ UNCHANGED <<operator, duty, pmenu>>

\* Fault: roles of disabled users are not in use.
InUseByEnabled(r) == \E u \in Operator : Enabled(u) /\ r \in duty[u]

InUse(r) == \E u \in Operator : r \in duty[u]

\* deleteRole: the count is taken before the transaction.
DeletePRole(p, r) ==
  /\ prole[r] # Absent /\ ~prole[r].system /\ ~InUse(r)
  /\ Asks(p, [op |-> "deleteRole", r |-> r])

CommitDeletePRole(p) ==
  /\ desk[p].op = "deleteRole"
  /\ prole' = [prole EXCEPT ![desk[p].r] = Absent]
  /\ Answers(p) /\ UNCHANGED <<operator, duty, pmenu>>

-----------------------------------------------------------------------------
\* saveMenu: the parent is a directory or a menu, and another one.
SaveMenu(p, k, parent, type) ==
  /\ parent # k
  /\ parent # Top => pmenu[parent] # Absent /\ pmenu[parent].type # "BUTTON"
  /\ Asks(p, [op |-> "saveMenu", k |-> k, copy |-> [parent |-> parent, type |-> type]])

CommitMenu(p) ==
  /\ desk[p].op = "saveMenu"
  /\ pmenu' = [pmenu EXCEPT ![desk[p].k] = desk[p].copy]
  /\ Answers(p) /\ UNCHANGED <<operator, duty, prole>>

Children(k) == {c \in PMenus : pmenu[c].parent = k}

\* deleteMenu
DeleteMenu(p, k) ==
  /\ pmenu[k] # Absent /\ Children(k) = {}
  /\ \A r \in PRoles : k \notin prole[r].menus
  /\ Asks(p, [op |-> "deleteMenu", k |-> k])

\* role_menus follows by its foreign key (ON DELETE CASCADE).
CommitDeleteMenu(p) ==
  /\ desk[p].op = "deleteMenu"
  /\ pmenu' = [pmenu EXCEPT ![desk[p].k] = Absent]
  /\ prole' = [r \in PRole |-> IF prole[r] = Absent THEN Absent
                               ELSE [prole[r] EXCEPT !.menus = @ \ {desk[p].k}]]
  /\ Answers(p) /\ UNCHANGED <<operator, duty>>

PlatformNext ==
  \/ \E u \in Operator : LogIn(u)
  \/ \E p \in Desk :
       \/ \E u \in Operator, on \in BOOLEAN, roles \in SUBSET PRole :
            SaveOperator(p, u, on, roles)
       \/ \E u, cur \in Operator, on \in BOOLEAN : UpdateUserStatus(p, u, on, cur)
       \/ \E u, cur \in Operator : DeleteUser(p, u, cur)
       \/ \E r \in PRole, menus \in SUBSET PMenu : SavePRole(p, r, menus)
       \/ \E r \in PRole : DeletePRole(p, r)
       \/ \E k \in PMenu, parent \in PMenu \union {Top},
             type \in {"MENU", "BUTTON"} : SaveMenu(p, k, parent, type)
       \/ \E k \in PMenu : DeleteMenu(p, k)
       \/ CommitOperator(p) \/ CommitStatus(p) \/ CommitDeleteUser(p) \/ CommitPRole(p)
       \/ CommitDeletePRole(p) \/ CommitMenu(p) \/ CommitDeleteMenu(p)

PlatformSpec == PlatformInit /\ [][PlatformNext]_platformVars

-----------------------------------------------------------------------------
(* The platform keeps a user, unless two deletions overlapped: both count two   *)
(* users and leave none.                                                       *)
SomeoneRemains == "users" \notin clash => Operators # {}

(* A role that a user holds is there, however requests overlap, unless it was   *)
(* assigned after its users were counted and before it went.                   *)
DutyExists ==
  "roles" \notin clash => UNION {duty[u] : u \in Operator} \subseteq PRoles

(* A menu's parent is there, unless it went while a menu was being hung below   *)
(* it: a menu without its parent is shown nowhere.                             *)
ParentExists ==
  "menus" \notin clash => \A k \in PMenus : pmenu[k].parent \in PMenus \union {Top}
=============================================================================
