------------------------------ MODULE Directory ------------------------------
(***************************************************************************)
(* The accounts of account_service.go: team leads, supervisors and         *)
(* employees in a hierarchy of parents, with permissions and product       *)
(* scopes handed down along it, and shops that one employee holds alone.   *)
(*                                                                         *)
(* A request reads and checks first and writes later, in a statement or    *)
(* transaction of its own; other requests come between.  The reads of one  *)
(* check are one step, except the look-ups of UpdateAccountShops, which    *)
(* are one per shop.  Left out: names, passwords, hidden fields, payment   *)
(* data.                                                                   *)
(***************************************************************************)
EXTENDS Integers, FiniteSetsExt, Sequences

CONSTANTS
  Account,   \* ids of accounts
  Nobody,    \* parent_id NULL
  Root,      \* the super admin the database starts with
  Module,    \* a right: a module's row, to view it, to edit it; a tag or supplier as well
  Shop,
  Request,   \* slots for requests that run at the same time
  MaxDepth,  \* the guard of the walk up the hierarchy
  MaxFaults  \* bound: failed queries

ASSUME DirectoryAssumption ==
  /\ Nobody \notin Account /\ Root \in Account /\ IsFiniteSet(Account)
  /\ MaxDepth \in Nat /\ MaxDepth >= 2  \* two parents up is the top
  /\ MaxFaults \in Nat

VARIABLES
  account,  \* account[a]: the account row
  perms,    \* perms[a]: the modules a has permissions on
  scope,    \* scope[a]: what a's product scope names
  shops,    \* shops[a]: the account_shop rows of a
  req,      \* req[r]: the local state of a request
  faults,   \* faults so far
  issued,   \* history: what a super admin has ever granted
  unruly,   \* history: accounts whose role changed, or with a parent unchecked
  contested \* history: shops that overlapping requests, a failed look-up or a new
            \* role have brought to an employee unchecked

grantVars == <<perms, scope, issued>>
treeVars == <<account, unruly>>
shopVars == <<shops, contested>>
vars == <<treeVars, grantVars, shopVars, req, faults>>

-----------------------------------------------------------------------------
(* Data *)

SuperAdmin == 0
TeamLead == 1
Supervisor == 2
Employee == 3
Role == SuperAdmin .. Employee
Same == 4  \* a request that leaves the role out

Unborn == [state |-> "unborn", role |-> Employee, parent |-> Nobody]

(* A request with nothing under way.  admin: a super admin grants what is in set. *)
Idle == [pc |-> "idle", admin |-> FALSE, target |-> Root, newRole |-> Same,
         parent |-> Nobody, set |-> {}, todo |-> {}]

TypeOK ==
  /\ account \in [Account -> [state : {"unborn", "live", "gone"}, role : Role,
                              parent : Account \cup {Nobody}]]
  /\ perms \in [Account -> SUBSET Module]
  /\ scope \in [Account -> SUBSET Module]
  /\ shops \in [Account -> SUBSET Shop]
  /\ req \in [Request ->
       [pc : {"idle", "create", "update", "delete", "perms", "scope", "shops"},
        admin : BOOLEAN, target : Account, newRole : Role \cup {Same},
        parent : Account \cup {Nobody},
        set : SUBSET (Module \cup Shop), todo : SUBSET Shop]]
  /\ faults \in 0 .. MaxFaults
  /\ issued \in [perms : SUBSET Module, scope : SUBSET Module]
  /\ unruly \in SUBSET Account
  /\ contested \in SUBSET Shop
  /\ \A a \in Account : account[a].state = "unborn" =>
       perms[a] = {} /\ scope[a] = {} /\ shops[a] = {}

Live(a) == a \in Account /\ account[a].state = "live"

(* Tokens live on after the account. *)
LoggedIn(a) == account[a].state # "unborn"

RoleOf(a) == account[a].role
Parent(a) == account[a].parent

(* The database before the first request, but for the accounts. *)
InitOthers ==
  /\ perms = [a \in Account |-> {}]
  /\ scope = [a \in Account |-> {}]
  /\ shops = [a \in Account |-> {}]
  /\ req = [r \in Request |-> Idle]
  /\ faults = 0
  /\ issued = [perms |-> {}, scope |-> {}]
  /\ unruly = {}
  /\ contested = {}

Init ==
  /\ account = [a \in Account |->
       IF a = Root THEN [state |-> "live", role |-> SuperAdmin, parent |-> Nobody] ELSE Unborn]
  /\ InitOthers

Fault == faults < MaxFaults /\ faults' = faults + 1

-----------------------------------------------------------------------------
(* The hierarchy *)

(* The walk up: the next account is loaded, and a missing one ends it. *)
IsDescendantOf(a, ancestor) ==
  LET walk[n \in 0 .. MaxDepth] ==
        [b \in Account \cup {Nobody} |->
          /\ n > 0
          /\ Live(b)
          /\ Parent(b) # Nobody
          /\ Parent(b) = ancestor \/ walk[n - 1][Parent(b)]]
  IN  walk[MaxDepth][a]

GetDirectSubordinateIDs(a) == {b \in Account : Live(b) /\ Parent(b) = a}

(* Slip: one level, as the list of subordinates might be. *)
OneLevelIDs(a) == GetDirectSubordinateIDs(a)

(* The walk down, level by level.  The code has no bound: on a cycle it never
   returns; here it stops after as many levels as there are accounts. *)
GetAllDescendantIDs(a) ==
  LET level[n \in 0 .. Cardinality(Account)] ==
        IF n = 0 THEN {a} ELSE UNION {GetDirectSubordinateIDs(b) : b \in level[n - 1]}
  IN  UNION {level[n] : n \in 1 .. Cardinality(Account)}

CanManageTarget(caller, role, target) ==
  role = SuperAdmin \/ IsDescendantOf(target, caller)

ValidateCreateHierarchy(caller, role, newRole, parent) ==
  \/ /\ role = TeamLead
     /\ \/ newRole = Supervisor /\ parent = caller
        \/ newRole = Employee /\ parent # Nobody /\ IsDescendantOf(parent, caller)
  \/ role = Supervisor /\ newRole = Employee /\ parent = caller

(* Slip: any parent that exists. *)
ParentExists(role, parent) == role \in {Supervisor, Employee} => Live(parent)

(* The parent of a supervisor is a team lead, that of an employee a supervisor;
   nothing is asked of the others. *)
ValidateParent(role, parent) ==
  role \in {Supervisor, Employee} => Live(parent) /\ RoleOf(parent) = role - 1

(* Slip: who is not restricted to anything is not restricted. *)
EmptyMeansAll(caller, role, held, set) ==
  role = SuperAdmin \/ held[caller] = {} \/ set \subseteq held[caller]

(* Level by level: a row of the module is asked for every row given, edit for edit, and
   for view either, since who has edit is taken to have view. *)
Subset(caller, role, held, set) == role = SuperAdmin \/ set \subseteq held[caller]

-----------------------------------------------------------------------------
(* Slip: a role that is left out is written too. *)
RoleGiven(a, newRole) == newRole

(* The role of a after an update. *)
RoleAfter(a, newRole) == IF newRole = Same THEN RoleOf(a) ELSE newRole

(* Requests.  The caller's role is the one in the token, that is the role at
   login; after a change of roles it may be any that the account has had.
   Employees may not manage accounts. *)

TokenRole(caller) ==
  (IF caller \in unruly THEN Role ELSE {RoleOf(caller)}) \ {Employee}

Granted(role, set) == role = SuperAdmin /\ set # {}

CheckCreate(r, caller, role, newRole, parent, set) ==
  /\ req[r].pc = "idle" /\ LoggedIn(caller)
  /\ role = SuperAdmin \/ ValidateCreateHierarchy(caller, role, newRole, parent)
  /\ ValidateParent(newRole, parent)
  /\ Subset(caller, role, perms, set)
  /\ req' = [req EXCEPT ![r] = [Idle EXCEPT !.pc = "create",
                                  !.admin = Granted(role, set), !.newRole = newRole, !.parent = parent,
                                  !.set = set]]
  /\ UNCHANGED <<treeVars, grantVars, shopVars, faults>>

Unchecked(role, parent) == role \in {SuperAdmin, TeamLead} /\ parent # Nobody

(* The account and its permissions are inserted in one transaction. *)
CreateAccount(r, a) ==
  LET q == req[r]
  IN  /\ q.pc = "create"
      /\ account[a].state = "unborn"
      /\ account' = [account EXCEPT ![a] =
                      [state |-> "live", role |-> q.newRole, parent |-> q.parent]]
      /\ perms' = [perms EXCEPT ![a] = q.set]
      /\ issued' = IF q.admin
                   THEN [issued EXCEPT !.perms = @ \cup q.set] ELSE issued
      /\ unruly' = IF Unchecked(q.newRole, q.parent) THEN unruly \cup {a} ELSE unruly
      /\ req' = [req EXCEPT ![r] = Idle]
      /\ UNCHANGED <<scope, shopVars, faults>>

(* parent = Nobody: the request names no parent, and the old one stays. *)
CheckUpdate(r, caller, role, target, newRole, parent) ==
  /\ req[r].pc = "idle" /\ LoggedIn(caller)
  /\ CanManageTarget(caller, role, target)
  /\ Live(target)
  /\ newRole # Same \/ parent # Nobody
  /\ parent # Nobody => ValidateParent(RoleAfter(target, newRole), parent)
  /\ req' = [req EXCEPT ![r] = [Idle EXCEPT !.pc = "update", !.target = target,
                                  !.newRole = newRole, !.parent = parent]]
  /\ UNCHANGED <<treeVars, grantVars, shopVars, faults>>

(* Shops that running requests bring to a. *)
Incoming(a) == UNION {req[r].set : r \in {r \in Request : /\ req[r].pc = "shops"
                                                       /\ req[r].target = a}}

UpdateAccount(r) ==
  LET q == req[r]
      a == q.target
      newRole == RoleAfter(a, q.newRole)
      changed == Live(a) /\ RoleOf(a) # newRole
      unchecked == Live(a) /\ Unchecked(newRole, q.parent)
  IN  /\ q.pc = "update"
      /\ account' = IF Live(a)
                    THEN [account EXCEPT ![a].role = newRole,
                            ![a].parent = IF q.parent = Nobody THEN @ ELSE q.parent]
                    ELSE account
      /\ unruly' = IF changed \/ unchecked THEN unruly \cup {a} ELSE unruly
      /\ contested' = IF changed THEN contested \cup shops[a] \cup Incoming(a) ELSE contested
      /\ req' = [req EXCEPT ![r] = Idle]
      /\ UNCHANGED <<grantVars, shops, faults>>

CheckDelete(r, caller, role, target) ==
  /\ req[r].pc = "idle" /\ LoggedIn(caller)
  /\ Live(target) /\ RoleOf(target) # SuperAdmin
  /\ CanManageTarget(caller, role, target)
  /\ req' = [req EXCEPT ![r] = [Idle EXCEPT !.pc = "delete", !.target = target]]
  /\ UNCHANGED <<treeVars, grantVars, shopVars, faults>>

(* Permissions and shops go with the account; the scope and the subordinates
   stay. *)
DeleteAccount(r) ==
  LET a == req[r].target
  IN  /\ req[r].pc = "delete"
      /\ account' = [account EXCEPT ![a].state = "gone"]
      /\ perms' = [perms EXCEPT ![a] = {}]
      /\ shops' = [shops EXCEPT ![a] = {}]
      /\ req' = [req EXCEPT ![r] = Idle]
      /\ UNCHANGED <<unruly, scope, issued, contested, faults>>

CheckPermissions(r, caller, role, target, set) ==
  /\ req[r].pc = "idle" /\ LoggedIn(caller)
  /\ CanManageTarget(caller, role, target)
  /\ Live(target)
  /\ Subset(caller, role, perms, set)
  /\ req' = [req EXCEPT ![r] = [Idle EXCEPT !.pc = "perms", !.target = target,
                                  !.admin = Granted(role, set), !.set = set]]
  /\ UNCHANGED <<treeVars, grantVars, shopVars, faults>>

(* The rows are replaced even if the account has gone. *)
ReplacePermissions(r) ==
  LET q == req[r]
  IN  /\ q.pc = "perms"
      /\ perms' = [perms EXCEPT ![q.target] = q.set]
      /\ issued' = IF q.admin
                   THEN [issued EXCEPT !.perms = @ \cup q.set] ELSE issued
      /\ req' = [req EXCEPT ![r] = Idle]
      /\ UNCHANGED <<treeVars, scope, shopVars, faults>>

CheckScope(r, caller, role, target, set) ==
  /\ req[r].pc = "idle" /\ LoggedIn(caller)
  /\ CanManageTarget(caller, role, target)
  /\ account[target].state # "unborn"
  /\ Subset(caller, role, scope, set)
  /\ req' = [req EXCEPT ![r] = [Idle EXCEPT !.pc = "scope", !.target = target,
                                  !.admin = Granted(role, set), !.set = set]]
  /\ UNCHANGED <<treeVars, grantVars, shopVars, faults>>

SaveProductScope(r) ==
  LET q == req[r]
  IN  /\ q.pc = "scope"
      /\ scope' = [scope EXCEPT ![q.target] = q.set]
      /\ issued' = IF q.admin
                   THEN [issued EXCEPT !.scope = @ \cup q.set] ELSE issued
      /\ req' = [req EXCEPT ![r] = Idle]
      /\ UNCHANGED <<treeVars, perms, shopVars, faults>>

-----------------------------------------------------------------------------
(* Shops *)

(* Shops of the request that another one is to bring to a different employee. *)
Rivals(r, target, set) ==
  LET Racing(p) == /\ req[p].pc = "shops" /\ req[p].target # target
                   /\ RoleOf(target) = Employee /\ RoleOf(req[p].target) = Employee
  IN  UNION {set \cap req[p].set : p \in {p \in Request \ {r} : Racing(p)}}

(* Only the shops of an employee are looked up. *)
CheckAccountShops(r, target, set) ==
  /\ req[r].pc = "idle"
  /\ Live(target)
  /\ req' = [req EXCEPT ![r] =
       [Idle EXCEPT !.pc = "shops", !.target = target, !.set = set,
                    !.todo = IF RoleOf(target) = Employee THEN set ELSE {}]]
  /\ contested' = contested \cup Rivals(r, target, set)
  /\ UNCHANGED <<treeVars, grantVars, shops, faults>>

(* Slip: the shops of superiors are looked up. *)
AssignedToAnother(s, a) ==
  \E b \in Account \ {a} : Live(b) /\ RoleOf(b) # Employee /\ s \in shops[b]

IsShopAssignedToOtherEmployee(s, a) ==
  \E b \in Account \ {a} : Live(b) /\ RoleOf(b) = Employee /\ s \in shops[b]

(* A shop of another employee ends the request; a failed look-up finds it free. *)
LookUpShop(r, s) ==
  LET q == req[r]
  IN  /\ q.pc = "shops" /\ s \in q.todo
      /\ \/ /\ IsShopAssignedToOtherEmployee(s, q.target)
            /\ req' = [req EXCEPT ![r] = Idle]
            /\ UNCHANGED <<contested, faults>>
         \/ /\ ~IsShopAssignedToOtherEmployee(s, q.target)
            /\ req' = [req EXCEPT ![r].todo = @ \ {s}]
            /\ UNCHANGED <<contested, faults>>
         \/ /\ Fault
            /\ req' = [req EXCEPT ![r].todo = @ \ {s}]
            /\ contested' = contested \cup {s}
      /\ UNCHANGED <<treeVars, grantVars, shops>>

(* One transaction: the old rows are deleted, the new ones inserted. *)
ReplaceAccountShops(r) ==
  LET q == req[r]
  IN  /\ q.pc = "shops" /\ q.todo = {}
      /\ shops' = [shops EXCEPT ![q.target] = q.set]
      /\ req' = [req EXCEPT ![r] = Idle]
      /\ UNCHANGED <<treeVars, grantVars, contested, faults>>

-----------------------------------------------------------------------------
(* What a request may ask for, and then do. *)

Ask(r, caller, role) ==
  \E target \in Account, parent \in Account \cup {Nobody}, newRole \in Role \cup {Same},
     set \in SUBSET Module :
    \/ newRole # Same /\ CheckCreate(r, caller, role, newRole, parent, set)
    \/ CheckUpdate(r, caller, role, target, newRole, parent)
    \/ CheckDelete(r, caller, role, target)
    \/ CheckPermissions(r, caller, role, target, set)
    \/ CheckScope(r, caller, role, target, set)

TreeWrite(r) ==
  (\E a \in Account : CreateAccount(r, a)) \/ UpdateAccount(r) \/ DeleteAccount(r)

GrantWrite(r) == ReplacePermissions(r) \/ SaveProductScope(r)

ShopStep(r) ==
  \/ \E target \in Account, set \in SUBSET Shop : CheckAccountShops(r, target, set)
  \/ \E s \in Shop : LookUpShop(r, s)
  \/ ReplaceAccountShops(r)

Next ==
  \E r \in Request :
    \/ \E caller \in Account : \E role \in TokenRole(caller) : Ask(r, caller, role)
    \/ TreeWrite(r) \/ GrantWrite(r) \/ ShopStep(r)

Spec == Init /\ [][Next]_vars

-----------------------------------------------------------------------------
(* Properties *)

(* A supervisor is under a team lead and an employee under a supervisor, however
   requests overlap: a parent that was checked can only have been deleted since.
   The exceptions are accounts whose role was changed, and they alone. *)
HierarchyKept ==
  \A a \in Account : Live(a) /\ RoleOf(a) \in {Supervisor, Employee} /\ a \notin unruly =>
    /\ Parent(a) # Nobody
    /\ Live(Parent(a)) /\ Parent(a) \notin unruly => RoleOf(Parent(a)) = RoleOf(a) - 1

(* While every account is in the hierarchy the two walks agree: whom a caller may
   manage (up) is whom he is shown (down), with deleted accounts in between. *)
WalksAgree ==
  unruly = {} =>
    \A a, b \in Account : Live(a) => (IsDescendantOf(a, b) <=> a \in GetAllDescendantIDs(b))

(* Nobody comes by a permission or a piece of a product scope that no super admin
   has handed out: checks against what the caller held a moment ago, grants that
   overlap, and deletions make none from nothing. *)
GrantsComeFromAdmin ==
  \A a \in Account : perms[a] \subseteq issued.perms /\ scope[a] \subseteq issued.scope

(* A shop is held by one employee, unless two requests for it overlapped, a
   look-up failed, or an account became an employee that held it before. *)
ShopHeldOnce ==
  \A s \in Shop \ contested : \A a, b \in Account :
    /\ Live(a) /\ RoleOf(a) = Employee /\ s \in shops[a]
    /\ Live(b) /\ RoleOf(b) = Employee /\ s \in shops[b]
    => a = b

(* The comment of UpdateAccountShops: "each shop can belong to at most one
   employee". *)
ShopExclusive ==
  \A s \in Shop : \A a, b \in Account :
    /\ Live(a) /\ RoleOf(a) = Employee /\ s \in shops[a]
    /\ Live(b) /\ RoleOf(b) = Employee /\ s \in shops[b]
    => a = b

(* What makes these inductive: what requests that have been checked still know
   when they write. *)

(* A request has a role to write, a born account to write to, and a set of what
   it is about. *)
RequestFits(q) ==
  /\ q.pc = "create" => q.newRole # Same
  /\ q.pc \notin {"idle", "create"} => account[q.target].state # "unborn"
  /\ q.pc \in {"create", "perms", "scope"} => q.set \subseteq Module
  /\ q.pc = "shops" => q.set \subseteq Shop

(* p has been checked as the parent of an account with this role. *)
Superior(p, role) ==
  role \in {Supervisor, Employee} =>
    /\ p \in Account /\ account[p].state # "unborn"
    /\ Live(p) /\ p \notin unruly => RoleOf(p) = role - 1

ParentBacked(q) ==
  /\ q.pc = "create" => Superior(q.parent, q.newRole)
  /\ q.pc = "update" /\ q.parent # Nobody /\ q.target \notin unruly =>
       Superior(q.parent, RoleAfter(q.target, q.newRole))

(* What is granted is the admin's to grant, or was issued before. *)
GrantBacked(q) ==
  /\ q.pc \in {"create", "perms"} => q.admin \/ q.set \subseteq issued.perms
  /\ q.pc = "scope" => q.admin \/ q.set \subseteq issued.scope

(* A shop that was looked up has stayed free of other employees. *)
ShopsBacked(q) ==
  q.pc = "shops" /\ RoleOf(q.target) = Employee =>
    \A s \in q.set \ (q.todo \cup contested), b \in Account \ {q.target} :
      Live(b) /\ RoleOf(b) = Employee => s \notin shops[b]

(* Requests that overlap on a shop have been recorded. *)
RivalsRecorded ==
  \A r, p \in Request :
    /\ req[r].pc = "shops" /\ req[p].pc = "shops" /\ req[r].target # req[p].target
    /\ RoleOf(req[r].target) = Employee /\ RoleOf(req[p].target) = Employee
    => req[r].set \cap req[p].set \subseteq contested

(* The top has no parents. *)
TopsAlone ==
  \A a \in Account : Live(a) /\ a \notin unruly /\ RoleOf(a) \in {SuperAdmin, TeamLead} =>
    Parent(a) = Nobody

ParentsBorn ==
  \A a \in Account : Live(a) /\ a \notin unruly => Superior(Parent(a), RoleOf(a))

(* The inductive invariant. *)
IndInv ==
  /\ TypeOK
  /\ ParentsBorn
  /\ GrantsComeFromAdmin
  /\ ShopHeldOnce /\ RivalsRecorded
  /\ \A r \in Request : /\ RequestFits(req[r]) /\ ParentBacked(req[r])
                       /\ GrantBacked(req[r]) /\ ShopsBacked(req[r])
=============================================================================
