-------------------------- MODULE DirectoryProofs --------------------------
(***************************************************************************)
(* Directory keeps IndInv, for any accounts, modules, shops and requests   *)
(* and any number of faults.  A step of a request either checks and goes   *)
(* on (CheckStep), or is one of the writes: CreateAccount, UpdateAccount,  *)
(* DeleteAccount, ReplacePermissions, SaveProductScope and                 *)
(* ReplaceAccountShops, each of which ends its request.                    *)
(***************************************************************************)
EXTENDS Directory, FiniteSetTheorems, WellFoundedInduction, TLAPS

USE DirectoryAssumption

AccountRow == [state : {"unborn", "live", "gone"}, role : Role,
               parent : Account \cup {Nobody}]

RequestState ==
  [pc : {"idle", "create", "update", "delete", "perms", "scope", "shops"},
   admin : BOOLEAN, target : Account, newRole : Role \cup {Same},
   parent : Account \cup {Nobody},
   set : SUBSET (Module \cup Shop), todo : SUBSET Shop]

(* What a request owes to its checks. *)
Backed(q) == RequestFits(q) /\ ParentBacked(q) /\ GrantBacked(q) /\ ShopsBacked(q)

LEMMA RoleValues ==
  /\ SuperAdmin = 0 /\ TeamLead = 1 /\ Supervisor = 2 /\ Employee = 3 /\ Same = 4
  /\ Role = 0 .. 3
BY DEF SuperAdmin, TeamLead, Supervisor, Employee, Same, Role

(* A request with nothing under way owes nothing. *)
LEMMA IdleTyped == Idle \in RequestState /\ Idle.pc = "idle" /\ Idle.todo = {}
BY DEF Idle, RequestState, Role, Same, SuperAdmin, Employee

LEMMA IdleBacked == \A q : q.pc = "idle" => Backed(q)
BY DEF Backed, RequestFits, ParentBacked, GrantBacked, ShopsBacked

LEMMA InitIndInv == Init => IndInv
<1> SUFFICES ASSUME Init PROVE IndInv
  OBVIOUS
<1>1. \A r \in Request : req[r] = Idle
  BY DEF Init, InitOthers
<1>2. account \in [Account -> AccountRow]
  BY DEF Init, AccountRow, Unborn, Role, SuperAdmin, Employee
<1>3. TypeOK
  <2>1. req \in [Request -> RequestState]
    BY IdleTyped DEF Init, InitOthers
  <2>2. /\ perms \in [Account -> SUBSET Module] /\ scope \in [Account -> SUBSET Module]
        /\ shops \in [Account -> SUBSET Shop]
        /\ faults \in 0 .. MaxFaults
        /\ issued \in [perms : SUBSET Module, scope : SUBSET Module]
        /\ unruly \in SUBSET Account /\ contested \in SUBSET Shop
        /\ \A a \in Account : perms[a] = {} /\ scope[a] = {} /\ shops[a] = {}
    BY DEF Init, InitOthers
  <2>3. QED
    BY <1>2, <2>1, <2>2 DEF TypeOK, AccountRow, RequestState
<1>4. ParentsBorn
  BY RoleValues DEF Init, Unborn, ParentsBorn, Superior, Live, RoleOf, Parent
<1>5. GrantsComeFromAdmin
  BY DEF Init, InitOthers, GrantsComeFromAdmin
<1>6. ShopHeldOnce
  BY DEF Init, InitOthers, ShopHeldOnce
<1>7. RivalsRecorded
  BY <1>1, IdleTyped DEF RivalsRecorded
<1>8. \A r \in Request : Backed(req[r])
  BY <1>1, IdleTyped, IdleBacked
<1>9. QED
  BY <1>3, <1>4, <1>5, <1>6, <1>7, <1>8 DEF IndInv, Backed

-----------------------------------------------------------------------------
(* Checks *)

(* The rivals that r has in state q are recorded. *)
RivalsOf(r, q) ==
  \A p \in Request \ {r} :
    /\ q.pc = "shops" /\ req[p].pc = "shops" /\ q.target # req[p].target
    /\ RoleOf(q.target) = Employee /\ RoleOf(req[p].target) = Employee
    => q.set \cap req[p].set \subseteq contested'

(* A request that checks changes its own state; the tables stay, and at most
   shops are recorded as contested. *)
LEMMA CheckStep ==
  ASSUME IndInv, NEW r \in Request, NEW q \in RequestState,
         req' = [req EXCEPT ![r] = q],
         UNCHANGED <<treeVars, grantVars, shops>>,
         faults' \in 0 .. MaxFaults,
         contested \subseteq contested', contested' \subseteq Shop,
         Backed(q)',
         RivalsOf(r, q)
  PROVE  IndInv'
<1>1. /\ req'[r] = q
      /\ \A p \in Request \ {r} : req'[p] = req[p]
  BY DEF IndInv, TypeOK
<1>2. TypeOK'
  <2>1. req' \in [Request -> RequestState]
    BY DEF IndInv, TypeOK, RequestState
  <2>2. QED
    BY <2>1 DEF IndInv, TypeOK, treeVars, grantVars, RequestState
<1>3. ParentsBorn'
  BY DEF IndInv, ParentsBorn, Superior, Live, RoleOf, Parent, treeVars
<1>4. GrantsComeFromAdmin'
  BY DEF IndInv, GrantsComeFromAdmin, grantVars
<1>5. ShopHeldOnce'
  BY DEF IndInv, ShopHeldOnce, Live, RoleOf, treeVars
<1>6. RivalsRecorded'
  <2> SUFFICES ASSUME NEW x \in Request, NEW y \in Request,
                      req'[x].pc = "shops", req'[y].pc = "shops",
                      req'[x].target # req'[y].target,
                      RoleOf(req'[x].target) = Employee,
                      RoleOf(req'[y].target) = Employee
               PROVE  req'[x].set \cap req'[y].set \subseteq contested'
    BY DEF RivalsRecorded, RoleOf, treeVars
  <2>1. CASE x # r /\ y # r
    BY <1>1, <2>1 DEF IndInv, RivalsRecorded
  <2>2. CASE x = r \/ y = r
    BY <1>1, <2>2 DEF RivalsOf
  <2>3. QED
    BY <2>1, <2>2
<1>7. \A p \in Request : Backed(req[p])'
  <2>1. ASSUME NEW p \in Request \ {r} PROVE Backed(req[p])'
    BY <1>1 DEF IndInv, Backed, RequestFits, ParentBacked, GrantBacked, ShopsBacked, Superior,
                Live, RoleOf, RoleAfter, treeVars, grantVars
  <2>2. QED
    BY <1>1, <2>1
<1>8. QED
  BY <1>2, <1>3, <1>4, <1>5, <1>6, <1>7 DEF IndInv, Backed

(* Checks that are not about shops. *)
LEMMA PlainCheck ==
  ASSUME IndInv, NEW r \in Request, NEW q \in RequestState,
         req' = [req EXCEPT ![r] = q], q.pc # "shops",
         UNCHANGED <<treeVars, grantVars, shopVars, faults>>,
         RequestFits(q), ParentBacked(q), GrantBacked(q)
  PROVE  IndInv'
<1>1. Backed(q)'
  BY DEF Backed, RequestFits, ParentBacked, GrantBacked, ShopsBacked, Superior,
         Live, RoleOf, RoleAfter, treeVars, grantVars
<1>2. /\ UNCHANGED <<treeVars, grantVars, shops>> /\ faults' \in 0 .. MaxFaults
      /\ contested' = contested /\ contested \subseteq Shop
  BY DEF IndInv, TypeOK, shopVars
<1>3. RivalsOf(r, q)
  BY DEF RivalsOf
<1>4. QED
  BY <1>1, <1>2, <1>3, CheckStep

(* The parent that a check finds is one. *)
LEMMA ParentFound ==
  ASSUME NEW p, NEW role \in Role, ValidateParent(role, p)
  PROVE  Superior(p, role)
BY DEF ValidateParent, Superior, Live

(* What a check lets pass was granted by an admin, or issued before. *)
LEMMA SubsetGranted ==
  ASSUME IndInv, NEW caller \in Account, NEW role, NEW set
  PROVE  /\ Subset(caller, role, perms, set) => Granted(role, set) \/ set \subseteq issued.perms
         /\ Subset(caller, role, scope, set) => Granted(role, set) \/ set \subseteq issued.scope
BY DEF Subset, Granted, IndInv, GrantsComeFromAdmin

LEMMA AskKeeps ==
  ASSUME IndInv, NEW r \in Request, NEW caller \in Account, NEW role \in TokenRole(caller),
         Ask(r, caller, role)
  PROVE  IndInv'
<1> PICK target \in Account, parent \in Account \cup {Nobody}, newRole \in Role \cup {Same},
         set \in SUBSET Module :
      \/ newRole # Same /\ CheckCreate(r, caller, role, newRole, parent, set)
      \/ CheckUpdate(r, caller, role, target, newRole, parent)
      \/ CheckDelete(r, caller, role, target)
      \/ CheckPermissions(r, caller, role, target, set)
      \/ CheckScope(r, caller, role, target, set)
  BY DEF Ask
<1>1. Granted(role, set) \in BOOLEAN /\ Root \in Account
  BY DEF Granted
<1>2. CASE newRole # Same /\ CheckCreate(r, caller, role, newRole, parent, set)
  <2> DEFINE q == [Idle EXCEPT !.pc = "create", !.admin = Granted(role, set),
                               !.newRole = newRole, !.parent = parent, !.set = set]
  <2>1. q \in RequestState
    BY <1>1, IdleTyped DEF RequestState
  <2>2. /\ q.pc = "create" /\ q.newRole = newRole /\ q.parent = parent
        /\ q.set = set /\ q.admin = Granted(role, set)
    BY IdleTyped DEF RequestState
  <2>3. RequestFits(q)
    BY <1>2, <2>2 DEF RequestFits
  <2>4. ParentBacked(q)
    BY <1>2, <2>2, ParentFound DEF ParentBacked, CheckCreate
  <2>5. GrantBacked(q)
    BY <1>2, <2>2, SubsetGranted DEF GrantBacked, CheckCreate
  <2> HIDE DEF q
  <2>6. req' = [req EXCEPT ![r] = q] /\ UNCHANGED <<treeVars, grantVars, shopVars, faults>>
    BY <1>2 DEF CheckCreate, q
  <2>7. QED
    BY <2>1, <2>2, <2>3, <2>4, <2>5, <2>6, PlainCheck
<1>3. CASE CheckUpdate(r, caller, role, target, newRole, parent)
  <2> DEFINE q == [Idle EXCEPT !.pc = "update", !.target = target,
                               !.newRole = newRole, !.parent = parent]
  <2>1. q \in RequestState
    BY IdleTyped DEF RequestState
  <2>2. /\ q.pc = "update" /\ q.newRole = newRole /\ q.parent = parent /\ q.target = target
    BY IdleTyped DEF RequestState
  <2>3. RequestFits(q)
    BY <1>3, <2>2 DEF RequestFits, CheckUpdate, Live
  <2>4. ParentBacked(q)
    <3>1. RoleAfter(target, newRole) \in Role
      BY DEF RoleAfter, RoleOf, IndInv, TypeOK, AccountRow
    <3>2. QED
      BY <1>3, <2>2, <3>1, ParentFound DEF ParentBacked, CheckUpdate
  <2>5. GrantBacked(q)
    BY <2>2 DEF GrantBacked
  <2> HIDE DEF q
  <2>6. req' = [req EXCEPT ![r] = q] /\ UNCHANGED <<treeVars, grantVars, shopVars, faults>>
    BY <1>3 DEF CheckUpdate, q
  <2>7. QED
    BY <2>1, <2>2, <2>3, <2>4, <2>5, <2>6, PlainCheck
<1>4. CASE CheckDelete(r, caller, role, target)
  <2> DEFINE q == [Idle EXCEPT !.pc = "delete", !.target = target]
  <2>1. q \in RequestState
    BY IdleTyped DEF RequestState
  <2>2. /\ q.pc = "delete" /\ q.target = target
    BY IdleTyped DEF RequestState
  <2>3. RequestFits(q) /\ ParentBacked(q) /\ GrantBacked(q)
    BY <1>4, <2>2 DEF RequestFits, ParentBacked, GrantBacked, CheckDelete, Live
  <2> HIDE DEF q
  <2>4. req' = [req EXCEPT ![r] = q] /\ UNCHANGED <<treeVars, grantVars, shopVars, faults>>
    BY <1>4 DEF CheckDelete, q
  <2>5. QED
    BY <2>1, <2>2, <2>3, <2>4, PlainCheck
<1>5. CASE CheckPermissions(r, caller, role, target, set)
  <2> DEFINE q == [Idle EXCEPT !.pc = "perms", !.target = target,
                               !.admin = Granted(role, set), !.set = set]
  <2>1. q \in RequestState
    BY <1>1, IdleTyped DEF RequestState
  <2>2. /\ q.pc = "perms" /\ q.target = target
        /\ q.set = set /\ q.admin = Granted(role, set)
    BY IdleTyped DEF RequestState
  <2>3. RequestFits(q) /\ ParentBacked(q)
    BY <1>5, <2>2 DEF RequestFits, ParentBacked, CheckPermissions, Live
  <2>4. GrantBacked(q)
    BY <1>5, <2>2, SubsetGranted DEF GrantBacked, CheckPermissions
  <2> HIDE DEF q
  <2>5. req' = [req EXCEPT ![r] = q] /\ UNCHANGED <<treeVars, grantVars, shopVars, faults>>
    BY <1>5 DEF CheckPermissions, q
  <2>6. QED
    BY <2>1, <2>2, <2>3, <2>4, <2>5, PlainCheck
<1>6. CASE CheckScope(r, caller, role, target, set)
  <2> DEFINE q == [Idle EXCEPT !.pc = "scope", !.target = target,
                               !.admin = Granted(role, set), !.set = set]
  <2>1. q \in RequestState
    BY <1>1, IdleTyped DEF RequestState
  <2>2. /\ q.pc = "scope" /\ q.target = target
        /\ q.set = set /\ q.admin = Granted(role, set)
    BY IdleTyped DEF RequestState
  <2>3. RequestFits(q) /\ ParentBacked(q)
    BY <1>6, <2>2 DEF RequestFits, ParentBacked, CheckScope
  <2>4. GrantBacked(q)
    BY <1>6, <2>2, SubsetGranted DEF GrantBacked, CheckScope
  <2> HIDE DEF q
  <2>5. req' = [req EXCEPT ![r] = q] /\ UNCHANGED <<treeVars, grantVars, shopVars, faults>>
    BY <1>6 DEF CheckScope, q
  <2>6. QED
    BY <2>1, <2>2, <2>3, <2>4, <2>5, PlainCheck
<1>7. QED
  BY <1>2, <1>3, <1>4, <1>5, <1>6

LEMMA CheckAccountShopsKeeps ==
  ASSUME IndInv, NEW r \in Request, NEW target \in Account, NEW set \in SUBSET Shop,
         CheckAccountShops(r, target, set)
  PROVE  IndInv'
<1> PICK q : q = [Idle EXCEPT !.pc = "shops", !.target = target, !.set = set,
                              !.todo = IF RoleOf(target) = Employee THEN set ELSE {}]
  OBVIOUS
<1>1. q \in RequestState
  BY IdleTyped DEF RequestState
<1>2. /\ q.pc = "shops" /\ q.target = target /\ q.set = set
      /\ RoleOf(target) = Employee => q.todo = set
  BY IdleTyped DEF RequestState
<1>3. /\ req' = [req EXCEPT ![r] = q]
      /\ UNCHANGED <<treeVars, grantVars, shops>> /\ faults' \in 0 .. MaxFaults
      /\ contested' = contested \cup Rivals(r, target, set)
      /\ account[target].state # "unborn"
  BY DEF CheckAccountShops, IndInv, TypeOK, Live
<1>4. Rivals(r, target, set) \subseteq Shop
  BY DEF Rivals
<1>5. contested \subseteq contested' /\ contested' \subseteq Shop
  BY <1>3, <1>4 DEF IndInv, TypeOK
<1>6. Backed(q)'
  BY <1>2, <1>3 DEF Backed, RequestFits, ParentBacked, GrantBacked, ShopsBacked, RoleOf,
                    treeVars
<1>7. RivalsOf(r, q)
  <2> SUFFICES ASSUME NEW p \in Request \ {r},
                      req[p].pc = "shops", q.target # req[p].target,
                      RoleOf(q.target) = Employee, RoleOf(req[p].target) = Employee
               PROVE  q.set \cap req[p].set \subseteq contested'
    BY DEF RivalsOf
  <2>1. q.set \cap req[p].set \subseteq Rivals(r, target, set)
    BY <1>2 DEF Rivals
  <2>2. QED
    BY <1>3, <2>1
<1>8. QED
  BY <1>1, <1>3, <1>5, <1>6, <1>7, CheckStep

(* A shop that is passed as free is free, or the look-up failed and the shop is
   recorded. *)
LEMMA LookUpShopKeeps ==
  ASSUME IndInv, NEW r \in Request, NEW s \in Shop, LookUpShop(r, s)
  PROVE  IndInv'
<1>1. /\ UNCHANGED <<treeVars, grantVars, shops>>
      /\ req[r] \in RequestState /\ req[r].pc = "shops"
      /\ Backed(req[r])
  BY DEF LookUpShop, IndInv, TypeOK, RequestState, Backed
<1>2. CASE req' = [req EXCEPT ![r] = Idle] /\ UNCHANGED <<contested, faults>>
  <2>1. Backed(Idle)'
    BY IdleTyped DEF Backed, RequestFits, ParentBacked, GrantBacked, ShopsBacked
  <2>2. contested' \subseteq Shop /\ faults' \in 0 .. MaxFaults
    BY <1>2 DEF IndInv, TypeOK
  <2>3. RivalsOf(r, Idle)
    BY IdleTyped DEF RivalsOf
  <2>4. QED
    BY <1>1, <1>2, <2>1, <2>2, <2>3, IdleTyped, CheckStep
<1>3. ASSUME req' = [req EXCEPT ![r].todo = @ \ {s}],
             \/ ~IsShopAssignedToOtherEmployee(s, req[r].target) /\ UNCHANGED <<contested, faults>>
             \/ Fault /\ contested' = contested \cup {s}
      PROVE  IndInv'
  <2> PICK q : q = [req[r] EXCEPT !.todo = @ \ {s}]
    OBVIOUS
  <2>1. q \in RequestState
    BY <1>1 DEF RequestState
  <2>2. /\ q.pc = "shops" /\ q.target = req[r].target /\ q.set = req[r].set
        /\ q.todo = req[r].todo \ {s}
    BY <1>1 DEF RequestState
  <2>3. req' = [req EXCEPT ![r] = q]
    BY <1>3 DEF IndInv, TypeOK
  <2>4. /\ faults' \in 0 .. MaxFaults
        /\ contested \subseteq contested' /\ contested' \subseteq Shop
    BY <1>3 DEF IndInv, TypeOK, Fault
  <2>5. ShopsBacked(q)'
    <3> SUFFICES ASSUME RoleOf(q.target) = Employee,
                        NEW t \in q.set \ (q.todo \cup contested'),
                        NEW b \in Account \ {q.target}, Live(b), RoleOf(b) = Employee
                 PROVE  t \notin shops[b]
      BY <1>1 DEF ShopsBacked, Live, RoleOf, treeVars
    <3>1. CASE t = s
      BY <1>3, <2>2, <3>1 DEF IsShopAssignedToOtherEmployee
    <3>2. CASE t # s
      BY <1>1, <2>2, <2>4, <3>2 DEF Backed, ShopsBacked
    <3>3. QED
      BY <3>1, <3>2
  <2>6. Backed(q)'
    BY <1>1, <2>2, <2>5 DEF Backed, RequestFits, ParentBacked, GrantBacked, treeVars
  <2>7. RivalsOf(r, q)
    BY <1>1, <2>2, <2>4 DEF RivalsOf, IndInv, RivalsRecorded
  <2>8. QED
    BY <1>1, <2>1, <2>3, <2>4, <2>6, <2>7, CheckStep
<1>4. QED
  BY <1>2, <1>3 DEF LookUpShop

-----------------------------------------------------------------------------
(* Writes *)

(* A write ends its request; the others are where they were. *)
LEMMA RequestEnds ==
  ASSUME IndInv, NEW r \in Request, req' = [req EXCEPT ![r] = Idle]
  PROVE  /\ req' \in [Request -> RequestState]
         /\ req'[r] = Idle
         /\ \A p \in Request \ {r} : req'[p] = req[p]
BY IdleTyped DEF IndInv, TypeOK, RequestState

(* Born accounts stay born, deleted ones deleted, and a role changes only with
   a record of it. *)
TreeGrows ==
  \A a \in Account : account[a].state # "unborn" =>
    /\ account'[a].state # "unborn"
    /\ account'[a].state = "live" => account[a].state = "live"
    /\ a \notin unruly' => a \notin unruly /\ account'[a].role = account[a].role

LEMMA SuperiorStays ==
  ASSUME TreeGrows, NEW p, NEW role, Superior(p, role)
  PROVE  Superior(p, role)'
BY DEF TreeGrows, Superior, Live, RoleOf

IssuedGrows == issued.perms \subseteq issued'.perms /\ issued.scope \subseteq issued'.scope

(* What the checks of the other requests found is true of the tree still. *)
LEMMA OthersStay ==
  ASSUME IndInv, NEW r \in Request, req' = [req EXCEPT ![r] = Idle],
         TreeGrows, IssuedGrows
  PROVE  \A p \in Request \ {r} :
           RequestFits(req[p])' /\ ParentBacked(req[p])' /\ GrantBacked(req[p])'
<1> TAKE p \in Request \ {r}
<1>1. /\ req'[p] = req[p] /\ req[p] \in RequestState
      /\ RequestFits(req[p]) /\ ParentBacked(req[p]) /\ GrantBacked(req[p])
  BY RequestEnds DEF IndInv, TypeOK, RequestState
<1>2. req[p].target \in Account
  BY <1>1 DEF RequestState
<1>3. RequestFits(req[p])'
  BY <1>1, <1>2 DEF RequestFits, TreeGrows
<1>4. ParentBacked(req[p])'
  <2>1. CASE req[p].pc = "create"
    <3>1. Superior(req[p].parent, req[p].newRole)
      BY <1>1, <2>1 DEF ParentBacked
    <3> DEFINE c == req[p].parent
               role == req[p].newRole
    <3> PICK x, y : x = c /\ y = role
      OBVIOUS
    <3>2. Superior(x, y)'
      BY <3>1, SuperiorStays
    <3>3. QED
      BY <1>1, <2>1, <3>2 DEF ParentBacked
  <2>2. CASE req[p].pc = "update"
    <3> SUFFICES ASSUME req[p].parent # Nobody, req[p].target \notin unruly'
                 PROVE  Superior(req[p].parent, RoleAfter(req[p].target, req[p].newRole))'
      BY <1>1, <2>2 DEF ParentBacked
    <3> PICK x, y : x = req[p].parent /\ y = RoleAfter(req[p].target, req[p].newRole)
      OBVIOUS
    <3>1. account'[req[p].target].role = account[req[p].target].role
      BY <1>1, <1>2, <2>2 DEF TreeGrows, RequestFits
    <3>2. RoleAfter(req[p].target, req[p].newRole)' = y /\ req'[p].parent = x
      BY <1>1, <3>1 DEF RoleAfter, RoleOf
    <3>3. Superior(x, y)
      BY <1>1, <1>2, <2>2 DEF ParentBacked, TreeGrows, RequestFits
    <3>4. Superior(x, y)'
      BY <3>3, SuperiorStays
    <3>5. QED
      BY <3>2, <3>4
  <2>3. QED
    BY <1>1, <2>1, <2>2 DEF ParentBacked
<1>5. GrantBacked(req[p])'
  BY <1>1 DEF GrantBacked, IssuedGrows
<1>6. QED
  BY <1>3, <1>4, <1>5

(* An account that becomes an employee brings its shops, and those on the way to
   it, among the contested. *)
NewcomersRecorded(r) ==
  /\ contested \subseteq contested'
  /\ \A p \in Request \ {r} :
       req[p].pc = "shops" /\ account'[req[p].target].role = Employee =>
         account[req[p].target].role = Employee \/ req[p].set \subseteq contested'
  /\ \A b \in Account :
       account'[b].state = "live" /\ account'[b].role = Employee =>
         \/ shops'[b] \subseteq contested'
         \/ /\ account[b].state = "live" /\ account[b].role = Employee
            /\ shops'[b] \subseteq shops[b]

LEMMA RivalsStay ==
  ASSUME IndInv, NEW r \in Request, req' = [req EXCEPT ![r] = Idle], NewcomersRecorded(r)
  PROVE  RivalsRecorded'
<1> SUFFICES ASSUME NEW x \in Request, NEW y \in Request,
                    req'[x].pc = "shops", req'[y].pc = "shops",
                    req'[x].target # req'[y].target,
                    account'[req'[x].target].role = Employee,
                    account'[req'[y].target].role = Employee
             PROVE  req'[x].set \cap req'[y].set \subseteq contested'
  BY DEF RivalsRecorded, RoleOf
<1>1. x # r /\ y # r
  BY RequestEnds, IdleTyped
<1>2. req'[x] = req[x] /\ req'[y] = req[y]
  BY <1>1, RequestEnds
<1>3. QED
  BY <1>1, <1>2 DEF IndInv, RivalsRecorded, RoleOf, NewcomersRecorded

LEMMA ShopsStay ==
  ASSUME IndInv, NEW r \in Request, req' = [req EXCEPT ![r] = Idle], NewcomersRecorded(r)
  PROVE  ShopHeldOnce' /\ \A p \in Request \ {r} : ShopsBacked(req[p])'
<1>1. ShopHeldOnce'
  BY DEF IndInv, ShopHeldOnce, NewcomersRecorded, Live, RoleOf
<1>2. ASSUME NEW p \in Request \ {r} PROVE ShopsBacked(req[p])'
  <2>1. req'[p] = req[p] /\ ShopsBacked(req[p])
    BY RequestEnds DEF IndInv
  <2>2. QED
    BY <2>1 DEF ShopsBacked, NewcomersRecorded, Live, RoleOf
<1>3. QED
  BY <1>1, <1>2

(* The parts of the invariant that a write has to keep. *)
LEMMA WriteStep ==
  ASSUME IndInv, NEW r \in Request, req' = [req EXCEPT ![r] = Idle],
         TypeOK', ParentsBorn', GrantsComeFromAdmin',
         TreeGrows, IssuedGrows, NewcomersRecorded(r)
  PROVE  IndInv'
<1>1. ASSUME NEW p \in Request PROVE Backed(req[p])'
  <2>1. CASE p = r
    BY <2>1, RequestEnds, IdleTyped
       DEF Backed, RequestFits, ParentBacked, GrantBacked, ShopsBacked
  <2>2. CASE p # r
    BY <2>2, OthersStay, ShopsStay DEF Backed
  <2>3. QED
    BY <2>1, <2>2
<1>2. QED
  BY <1>1, RivalsStay, ShopsStay DEF IndInv, Backed

(* Permissions or scopes change and what has been issued grows. *)
LEMMA GrantStep ==
  ASSUME IndInv, NEW r \in Request, req' = [req EXCEPT ![r] = Idle],
         UNCHANGED <<treeVars, shopVars, faults>>,
         perms' \in [Account -> SUBSET Module], scope' \in [Account -> SUBSET Module],
         issued' \in [perms : SUBSET Module, scope : SUBSET Module],
         issued.perms \subseteq issued'.perms, issued.scope \subseteq issued'.scope,
         GrantsComeFromAdmin',
         \A a \in Account : account[a].state = "unborn" => perms'[a] = {} /\ scope'[a] = {}
  PROVE  IndInv'
<1>1. TypeOK'
  BY RequestEnds DEF IndInv, TypeOK, treeVars, shopVars, RequestState
<1>2. ParentsBorn'
  BY DEF IndInv, ParentsBorn, Superior, Live, RoleOf, Parent, treeVars
<1>3. TreeGrows /\ IssuedGrows /\ NewcomersRecorded(r)
  BY DEF TreeGrows, IssuedGrows, NewcomersRecorded, treeVars, shopVars
<1>4. QED
  BY <1>1, <1>2, <1>3, WriteStep

LEMMA ReplacePermissionsKeeps ==
  ASSUME IndInv, NEW r \in Request, ReplacePermissions(r)
  PROVE  IndInv'
<1>1. /\ req[r].target \in Account /\ req[r].set \subseteq Module
      /\ account[req[r].target].state # "unborn"
      /\ req[r].admin \/ req[r].set \subseteq issued.perms
  BY DEF ReplacePermissions, IndInv, TypeOK, RequestFits, GrantBacked
<1>2. /\ perms' = [perms EXCEPT ![req[r].target] = req[r].set] /\ scope' = scope
      /\ req' = [req EXCEPT ![r] = Idle] /\ UNCHANGED <<treeVars, shopVars, faults>>
  BY DEF ReplacePermissions
<1>3. /\ issued' \in [perms : SUBSET Module, scope : SUBSET Module]
      /\ issued.perms \subseteq issued'.perms /\ issued'.scope = issued.scope
      /\ req[r].set \subseteq issued'.perms
  BY <1>1 DEF ReplacePermissions, IndInv, TypeOK
<1>4. perms' \in [Account -> SUBSET Module] /\ scope' \in [Account -> SUBSET Module]
  BY <1>1, <1>2 DEF IndInv, TypeOK
<1>5. GrantsComeFromAdmin'
  BY <1>1, <1>2, <1>3 DEF IndInv, TypeOK, GrantsComeFromAdmin
<1>6. \A a \in Account : account[a].state = "unborn" => perms'[a] = {} /\ scope'[a] = {}
  BY <1>1, <1>2 DEF IndInv, TypeOK
<1>7. QED
  BY <1>2, <1>3, <1>4, <1>5, <1>6, GrantStep

LEMMA SaveProductScopeKeeps ==
  ASSUME IndInv, NEW r \in Request, SaveProductScope(r)
  PROVE  IndInv'
<1>1. /\ req[r].target \in Account /\ req[r].set \subseteq Module
      /\ account[req[r].target].state # "unborn"
      /\ req[r].admin \/ req[r].set \subseteq issued.scope
  BY DEF SaveProductScope, IndInv, TypeOK, RequestFits, GrantBacked
<1>2. /\ scope' = [scope EXCEPT ![req[r].target] = req[r].set] /\ perms' = perms
      /\ req' = [req EXCEPT ![r] = Idle] /\ UNCHANGED <<treeVars, shopVars, faults>>
  BY DEF SaveProductScope
<1>3. /\ issued' \in [perms : SUBSET Module, scope : SUBSET Module]
      /\ issued.scope \subseteq issued'.scope /\ issued'.perms = issued.perms
      /\ req[r].set \subseteq issued'.scope
  BY <1>1 DEF SaveProductScope, IndInv, TypeOK
<1>4. perms' \in [Account -> SUBSET Module] /\ scope' \in [Account -> SUBSET Module]
  BY <1>1, <1>2 DEF IndInv, TypeOK
<1>5. GrantsComeFromAdmin'
  BY <1>1, <1>2, <1>3 DEF IndInv, TypeOK, GrantsComeFromAdmin
<1>6. \A a \in Account : account[a].state = "unborn" => perms'[a] = {} /\ scope'[a] = {}
  BY <1>1, <1>2 DEF IndInv, TypeOK
<1>7. QED
  BY <1>2, <1>3, <1>4, <1>5, <1>6, GrantStep

(* The account is new to every other, and to every request under way. *)
LEMMA CreateAccountKeeps ==
  ASSUME IndInv, NEW r \in Request, NEW a \in Account, CreateAccount(r, a)
  PROVE  IndInv'
<1>1. /\ req[r] \in RequestState /\ req[r].pc = "create" /\ account[a].state = "unborn"
      /\ req[r].newRole \in Role /\ req[r].set \subseteq Module
      /\ Superior(req[r].parent, req[r].newRole)
      /\ req[r].admin \/ req[r].set \subseteq issued.perms
  BY DEF CreateAccount, IndInv, TypeOK, RequestState, RequestFits, ParentBacked, GrantBacked
<1>2. /\ req' = [req EXCEPT ![r] = Idle] /\ UNCHANGED <<scope, shopVars, faults>>
      /\ perms' = [perms EXCEPT ![a] = req[r].set]
      /\ account' = [account EXCEPT ![a] = [state |-> "live", role |-> req[r].newRole,
                                            parent |-> req[r].parent]]
  BY DEF CreateAccount
<1>3. /\ issued' \in [perms : SUBSET Module, scope : SUBSET Module]
      /\ issued.perms \subseteq issued'.perms /\ issued'.scope = issued.scope
      /\ req[r].set \subseteq issued'.perms
  BY <1>1 DEF CreateAccount, IndInv, TypeOK
<1>4. /\ unruly \subseteq unruly' /\ unruly' \subseteq Account
      /\ \A b \in Account : b # a /\ b \in unruly' => b \in unruly
  BY DEF CreateAccount, IndInv, TypeOK
<1>5. account' \in [Account -> AccountRow]
  BY <1>1, <1>2 DEF IndInv, TypeOK, AccountRow, RequestState
<1>6. /\ account'[a].state = "live" /\ account'[a].role = req[r].newRole
      /\ account'[a].parent = req[r].parent
      /\ \A b \in Account : b # a => account'[b] = account[b]
  BY <1>2 DEF IndInv, TypeOK
<1>7. TypeOK'
  <2>1. perms' \in [Account -> SUBSET Module]
    BY <1>1, <1>2 DEF IndInv, TypeOK
  <2>2. \A b \in Account : account'[b].state = "unborn" =>
           perms'[b] = {} /\ scope'[b] = {} /\ shops'[b] = {}
    BY <1>2, <1>6 DEF IndInv, TypeOK, shopVars
  <2>3. QED
    BY <1>2, <1>3, <1>4, <1>5, <2>1, <2>2, RequestEnds
       DEF IndInv, TypeOK, AccountRow, RequestState, shopVars
<1>8. TreeGrows
  BY <1>1, <1>4, <1>6 DEF TreeGrows
<1>9. ParentsBorn'
  <2> SUFFICES ASSUME NEW b \in Account, account'[b].state = "live", b \notin unruly'
               PROVE  Superior(account[b].parent, account[b].role)'
    BY DEF ParentsBorn, Live, Parent, RoleOf
  <2> PICK x, y : x = account'[b].parent /\ y = account'[b].role
    OBVIOUS
  <2>1. Superior(x, y)
    <3>1. CASE b = a
      BY <1>1, <1>6, <3>1
    <3>2. CASE b # a
      BY <1>4, <1>6, <3>2 DEF IndInv, ParentsBorn, Live, Parent, RoleOf
    <3>3. QED
      BY <3>1, <3>2
  <2>2. QED
    BY <1>8, <2>1, SuperiorStays
<1>10. GrantsComeFromAdmin'
  BY <1>2, <1>3 DEF IndInv, TypeOK, GrantsComeFromAdmin
<1>11. IssuedGrows
  BY <1>3 DEF IssuedGrows
<1>12. NewcomersRecorded(r)
  <2>1. \A p \in Request : req[p].pc = "shops" => req[p].target \in Account \ {a}
    BY <1>1 DEF IndInv, TypeOK, RequestFits
  <2>2. shops[a] = {}
    BY <1>1 DEF IndInv, TypeOK
  <2>3. QED
    BY <1>2, <1>6, <2>1, <2>2 DEF NewcomersRecorded, shopVars
<1>13. QED
  BY <1>2, <1>7, <1>8, <1>9, <1>10, <1>11, <1>12, WriteStep

(* A role that changes, or a parent that nobody checked, is recorded. *)
LEMMA UpdateAccountKeeps ==
  ASSUME IndInv, NEW r \in Request, UpdateAccount(r)
  PROVE  IndInv'
<1> DEFINE a == req[r].target
           newRole == RoleAfter(a, req[r].newRole)
           parent == IF req[r].parent = Nobody THEN account[a].parent ELSE req[r].parent
<1>1. /\ a \in Account /\ req[r].parent \in Account \cup {Nobody}
      /\ account[a] \in AccountRow /\ account[a].state # "unborn"
      /\ req[r].pc = "update" /\ ParentBacked(req[r])
  BY DEF UpdateAccount, IndInv, TypeOK, RequestFits, AccountRow
<1>2. newRole \in Role /\ parent \in Account \cup {Nobody}
  BY <1>1 DEF RoleAfter, RoleOf, AccountRow, IndInv, TypeOK
<1>3. /\ req' = [req EXCEPT ![r] = Idle] /\ UNCHANGED <<grantVars, shops, faults>>
      /\ contested \subseteq contested' /\ unruly \subseteq unruly'
  BY DEF UpdateAccount
<1>4. CASE account[a].state # "live"
  <2>1. UNCHANGED <<account, unruly, contested>>
    BY <1>1, <1>4 DEF UpdateAccount, Live
  <2>2. QED
    BY <1>3, <2>1, GrantStep DEF IndInv, TypeOK, grantVars, treeVars, shopVars, GrantsComeFromAdmin
<1>5. CASE account[a].state = "live"
  <2>1. /\ account'[a].state = "live" /\ account'[a].role = newRole
        /\ account'[a].parent = parent
        /\ \A b \in Account : b # a => account'[b] = account[b]
        /\ account' \in [Account -> AccountRow]
    <3>1. account' = [account EXCEPT ![a].role = newRole, ![a].parent = parent]
      BY <1>1, <1>5 DEF UpdateAccount, Live, IndInv, TypeOK
    <3>2. account \in [Account -> AccountRow]
      BY DEF IndInv, TypeOK, AccountRow
    <3> HIDE DEF newRole, parent
    <3>3. \A b \in Account : b # a => account'[b] = account[b]
      BY <1>1, <3>1, <3>2
    <3>4. account'[a] = [state |-> "live", role |-> newRole, parent |-> parent]
      BY <1>1, <1>5, <3>1, <3>2 DEF AccountRow
    <3>5. [state |-> "live", role |-> newRole, parent |-> parent] \in AccountRow
      BY <1>2 DEF AccountRow
    <3>6. account' \in [Account -> AccountRow]
      BY <3>1, <3>2, <3>3, <3>4, <3>5
    <3>7. QED
      BY <3>3, <3>4, <3>6
  <2>2. /\ unruly' \subseteq unruly \cup {a}
        /\ newRole # account[a].role => a \in unruly'
    BY <1>1, <1>5 DEF UpdateAccount, Live, RoleOf
  <2>3. newRole # account[a].role =>
          /\ shops[a] \subseteq contested'
          /\ \A p \in Request : req[p].pc = "shops" /\ req[p].target = a => req[p].set \subseteq contested'
    BY <1>1, <1>5 DEF UpdateAccount, Live, RoleOf, Incoming
  <2>4. contested' \subseteq Shop
    <3>1. Incoming(a) \subseteq Shop
      BY DEF Incoming, IndInv, RequestFits
    <3>2. QED
      BY <1>1, <3>1 DEF UpdateAccount, IndInv, TypeOK
  <2> HIDE DEF newRole, parent
  <2>5. TypeOK'
    <3>1. \A b \in Account : account'[b].state = "unborn" => account[b].state = "unborn"
      BY <1>1, <2>1
    <3>2. QED
      BY <1>1, <1>3, <2>1, <2>2, <2>4, <3>1, RequestEnds
         DEF IndInv, TypeOK, AccountRow, RequestState, grantVars
  <2>6. TreeGrows
    BY <1>3, <1>5, <2>1, <2>2 DEF TreeGrows
  <2>7. ParentsBorn'
    <3> SUFFICES ASSUME NEW b \in Account, account'[b].state = "live", b \notin unruly'
                 PROVE  Superior(account[b].parent, account[b].role)'
      BY DEF ParentsBorn, Live, Parent, RoleOf
    <3> PICK x, y : x = account'[b].parent /\ y = account'[b].role
      OBVIOUS
    <3>1. Superior(x, y)
      <4>1. CASE b = a
        <5>1. CASE req[r].parent = Nobody
          BY <1>1, <1>3, <1>5, <2>1, <2>2, <4>1, <5>1
             DEF parent, IndInv, ParentsBorn, Live, Parent, RoleOf
        <5>2. CASE req[r].parent # Nobody
          BY <1>1, <1>3, <2>1, <4>1, <5>2 DEF parent, newRole, ParentBacked
        <5>3. QED
          BY <5>1, <5>2
      <4>2. CASE b # a
        BY <1>3, <2>1, <4>2 DEF IndInv, ParentsBorn, Live, Parent, RoleOf
      <4>3. QED
        BY <4>1, <4>2
    <3>2. QED
      BY <2>6, <3>1, SuperiorStays
  <2>8. GrantsComeFromAdmin' /\ IssuedGrows
    BY <1>3 DEF IndInv, GrantsComeFromAdmin, IssuedGrows, grantVars
  <2>9. NewcomersRecorded(r)
    <3>1. \A p \in Request : req[p].target \in Account
      BY DEF IndInv, TypeOK
    <3>2. QED
      BY <1>1, <1>3, <1>5, <2>1, <2>3, <3>1 DEF NewcomersRecorded
  <2>10. QED
    BY <1>3, <2>5, <2>6, <2>7, <2>8, <2>9, WriteStep
<1>6. QED
  BY <1>4, <1>5

LEMMA DeleteAccountKeeps ==
  ASSUME IndInv, NEW r \in Request, DeleteAccount(r)
  PROVE  IndInv'
<1> DEFINE a == req[r].target
<1>1. a \in Account /\ account[a].state # "unborn"
  BY DEF DeleteAccount, IndInv, TypeOK, RequestFits
<1>2. /\ req' = [req EXCEPT ![r] = Idle] /\ UNCHANGED <<unruly, scope, issued, contested, faults>>
      /\ perms' = [perms EXCEPT ![a] = {}] /\ shops' = [shops EXCEPT ![a] = {}]
      /\ account' = [account EXCEPT ![a] = [account[a] EXCEPT !.state = "gone"]]
  BY DEF DeleteAccount, IndInv, TypeOK
<1>3. \A row \in AccountRow :
        /\ [row EXCEPT !.state = "gone"] \in AccountRow
        /\ [row EXCEPT !.state = "gone"].state = "gone"
        /\ [row EXCEPT !.state = "gone"].role = row.role
  BY DEF AccountRow
<1>4. account \in [Account -> AccountRow]
  BY DEF IndInv, TypeOK, AccountRow
<1>5. /\ account' \in [Account -> AccountRow]
      /\ account'[a].state = "gone" /\ account'[a].role = account[a].role
      /\ \A b \in Account : b # a => account'[b] = account[b]
  BY <1>1, <1>2, <1>3, <1>4
<1>6. /\ perms' \in [Account -> SUBSET Module] /\ shops' \in [Account -> SUBSET Shop]
      /\ \A b \in Account : perms'[b] \subseteq perms[b] /\ shops'[b] \subseteq shops[b]
  BY <1>1, <1>2 DEF IndInv, TypeOK
<1> HIDE DEF a
<1>7. TypeOK'
  <2>1. \A b \in Account : account'[b].state = "unborn" =>
          perms'[b] = {} /\ scope'[b] = {} /\ shops'[b] = {}
    BY <1>1, <1>2, <1>5, <1>6 DEF IndInv, TypeOK
  <2>2. QED
    BY <1>2, <1>5, <1>6, <2>1, RequestEnds DEF IndInv, TypeOK, AccountRow, RequestState
<1>8. TreeGrows
  BY <1>2, <1>5 DEF TreeGrows
<1>9. ParentsBorn'
  <2> SUFFICES ASSUME NEW b \in Account, account'[b].state = "live", b \notin unruly'
               PROVE  Superior(account[b].parent, account[b].role)'
    BY DEF ParentsBorn, Live, Parent, RoleOf
  <2> PICK x, y : x = account'[b].parent /\ y = account'[b].role
    OBVIOUS
  <2>1. Superior(x, y)
    BY <1>2, <1>5 DEF IndInv, ParentsBorn, Live, Parent, RoleOf
  <2>2. QED
    BY <1>8, <2>1, SuperiorStays
<1>10. GrantsComeFromAdmin' /\ IssuedGrows
  BY <1>2, <1>6 DEF IndInv, GrantsComeFromAdmin, IssuedGrows
<1>11. NewcomersRecorded(r)
  BY <1>1, <1>2, <1>5, <1>6 DEF NewcomersRecorded, IndInv, TypeOK
<1>12. QED
  BY <1>2, <1>7, <1>8, <1>9, <1>10, <1>11, WriteStep

(* The shops that are written were looked up, and have stayed free since unless
   a rival is recorded. *)
LEMMA ReplaceAccountShopsKeeps ==
  ASSUME IndInv, NEW r \in Request, ReplaceAccountShops(r)
  PROVE  IndInv'
<1> DEFINE a == req[r].target
<1>1. /\ a \in Account /\ account[a].state # "unborn"
      /\ req[r].pc = "shops" /\ req[r].todo = {} /\ req[r].set \subseteq Shop
      /\ ShopsBacked(req[r])
  BY DEF ReplaceAccountShops, IndInv, TypeOK, RequestFits
<1>2. /\ req' = [req EXCEPT ![r] = Idle]
      /\ UNCHANGED <<treeVars, grantVars, contested, faults>>
      /\ shops' \in [Account -> SUBSET Shop]
      /\ shops'[a] = req[r].set /\ \A b \in Account : b # a => shops'[b] = shops[b]
  BY <1>1 DEF ReplaceAccountShops, IndInv, TypeOK
<1>3. TypeOK'
  BY <1>1, <1>2, RequestEnds DEF IndInv, TypeOK, RequestState, treeVars, grantVars
<1>4. ParentsBorn' /\ GrantsComeFromAdmin' /\ TreeGrows /\ IssuedGrows
  BY <1>2 DEF IndInv, ParentsBorn, Superior, GrantsComeFromAdmin, TreeGrows, IssuedGrows,
              Live, RoleOf, Parent, treeVars, grantVars
<1>5. RoleOf(a) = Employee =>
        \A s \in req[r].set \ contested, b \in Account \ {a} :
          Live(b) /\ RoleOf(b) = Employee => s \notin shops[b]
  BY <1>1 DEF ShopsBacked
<1>6. ShopHeldOnce'
  <2> SUFFICES ASSUME NEW s \in Shop \ contested, NEW b \in Account, NEW c \in Account, b # c,
                      Live(b), RoleOf(b) = Employee, s \in shops'[b],
                      Live(c), RoleOf(c) = Employee, s \in shops'[c]
               PROVE  FALSE
    BY <1>2 DEF ShopHeldOnce, Live, RoleOf, treeVars
  <2>1. CASE b # a /\ c # a
    BY <1>2, <2>1 DEF IndInv, ShopHeldOnce
  <2>2. CASE b = a \/ c = a
    BY <1>2, <1>5, <2>2
  <2>3. QED
    BY <2>1, <2>2
<1>7. RivalsRecorded'
  <2> SUFFICES ASSUME NEW x \in Request, NEW y \in Request,
                      req'[x].pc = "shops", req'[y].pc = "shops",
                      req'[x].target # req'[y].target,
                      account[req'[x].target].role = Employee,
                      account[req'[y].target].role = Employee
               PROVE  req'[x].set \cap req'[y].set \subseteq contested
    BY <1>2 DEF RivalsRecorded, RoleOf, treeVars
  <2>1. x # r /\ y # r
    BY <1>2, RequestEnds, IdleTyped
  <2>2. QED
    BY <1>2, <2>1, RequestEnds DEF IndInv, RivalsRecorded, RoleOf
<1>8. ASSUME NEW p \in Request \ {r} PROVE ShopsBacked(req[p])'
  <2>1. req'[p] = req[p] /\ ShopsBacked(req[p])
    BY <1>2, RequestEnds DEF IndInv
  <2> SUFFICES ASSUME req[p].pc = "shops", RoleOf(req[p].target) = Employee,
                      NEW s \in req[p].set \ (req[p].todo \cup contested),
                      NEW b \in Account \ {req[p].target},
                      Live(b), RoleOf(b) = Employee
               PROVE  s \notin shops'[b]
    BY <1>2, <2>1 DEF ShopsBacked, Live, RoleOf, treeVars
  <2>2. CASE b = a
    BY <1>1, <1>2, <2>2 DEF IndInv, RivalsRecorded
  <2>3. CASE b # a
    BY <1>2, <2>1, <2>3 DEF ShopsBacked
  <2>4. QED
    BY <2>2, <2>3
<1>9. ASSUME NEW p \in Request PROVE Backed(req[p])'
  <2>1. CASE p = r
    BY <1>2, <2>1, RequestEnds, IdleTyped
       DEF Backed, RequestFits, ParentBacked, GrantBacked, ShopsBacked
  <2>2. CASE p # r
    BY <1>2, <1>4, <1>8, <2>2, OthersStay DEF Backed
  <2>3. QED
    BY <2>1, <2>2
<1>10. QED
  BY <1>3, <1>4, <1>6, <1>7, <1>9 DEF IndInv, Backed

-----------------------------------------------------------------------------
LEMMA StutterKeeps == IndInv /\ UNCHANGED vars => IndInv'
BY DEF vars, treeVars, grantVars, shopVars, IndInv, TypeOK, ParentsBorn, GrantsComeFromAdmin,
       ShopHeldOnce, RivalsRecorded, RequestFits, ParentBacked, GrantBacked, ShopsBacked,
       Superior, Live, RoleOf, RoleAfter, Parent

LEMMA NextIndInv == IndInv /\ [Next]_vars => IndInv'
<1> SUFFICES ASSUME IndInv, [Next]_vars PROVE IndInv'
  OBVIOUS
<1>1. CASE UNCHANGED vars
  BY <1>1, StutterKeeps
<1>2. ASSUME NEW r \in Request,
             \/ \E caller \in Account : \E role \in TokenRole(caller) : Ask(r, caller, role)
             \/ TreeWrite(r) \/ GrantWrite(r) \/ ShopStep(r)
      PROVE  IndInv'
  <2>1. CASE \E caller \in Account : \E role \in TokenRole(caller) : Ask(r, caller, role)
    BY <2>1, AskKeeps
  <2>2. CASE TreeWrite(r)
    BY <2>2, CreateAccountKeeps, UpdateAccountKeeps, DeleteAccountKeeps DEF TreeWrite
  <2>3. CASE GrantWrite(r)
    BY <2>3, ReplacePermissionsKeeps, SaveProductScopeKeeps DEF GrantWrite
  <2>4. CASE ShopStep(r)
    BY <2>4, CheckAccountShopsKeeps, LookUpShopKeeps, ReplaceAccountShopsKeeps DEF ShopStep
  <2>5. QED
    BY <1>2, <2>1, <2>2, <2>3, <2>4
<1>3. QED
  BY <1>1, <1>2 DEF Next

(* The inductive invariant of the directory holds whatever requests overlap: all
   that a request was told by its checks and that the tree, the grants and the
   shops still owe it when it writes. *)
THEOREM Invariance == Spec => []IndInv
<1>1. Init => IndInv
  BY InitIndInv
<1>2. IndInv /\ [Next]_vars => IndInv'
  BY NextIndInv
<1>3. QED
  BY <1>1, <1>2, PTL DEF Spec

(* validateParent checks a parent that may be moved or deleted before the account
   is written; a supervisor or employee whose own role was left alone still has
   the parent its role asks for, or one deleted or changed since. *)
THEOREM HierarchyCorrect == Spec => []HierarchyKept
<1>1. IndInv => HierarchyKept
  BY DEF IndInv, ParentsBorn, Superior, HierarchyKept, Live
<1>2. QED
  BY <1>1, Invariance, PTL

(* The subset checks of createAccount, UpdatePermissions and SaveProductScope read
   what the caller holds and write later: nobody comes by what no admin issued. *)
THEOREM GrantsCorrect == Spec => []GrantsComeFromAdmin
<1>1. IndInv => GrantsComeFromAdmin
  BY DEF IndInv
<1>2. QED
  BY <1>1, Invariance, PTL

(* UpdateAccountShops looks up one shop after the other and then writes: but for
   recorded races and failed look-ups a shop has one employee. *)
THEOREM ShopsCorrect == Spec => []ShopHeldOnce
<1>1. IndInv => ShopHeldOnce
  BY DEF IndInv
<1>2. QED
  BY <1>1, Invariance, PTL

-----------------------------------------------------------------------------
(***************************************************************************)
(* The walks.  While every account is in the hierarchy nobody has more     *)
(* than two levels above or below, so that both recursions come to an end  *)
(* where the roles do.                                                     *)
(***************************************************************************)

LEMMA InitTops == Init => TopsAlone
BY RoleValues DEF Init, Unborn, TopsAlone, Live, RoleOf, Parent

(* Only the writes of the tree change it. *)
LEMMA OthersLeaveTree ==
  ASSUME NEW r \in Request, \/ \E caller \in Account : \E role \in TokenRole(caller) : Ask(r, caller, role)
                            \/ GrantWrite(r) \/ ShopStep(r)
  PROVE  UNCHANGED <<account, unruly>>
<1>1. CASE \E caller \in Account : \E role \in TokenRole(caller) : Ask(r, caller, role)
  <2>1. PICK caller, role : Ask(r, caller, role)
    BY <1>1
  <2>2. UNCHANGED treeVars
    <3>1. PICK target, parent, newRole, set :
            \/ CheckCreate(r, caller, role, newRole, parent, set)
            \/ CheckUpdate(r, caller, role, target, newRole, parent)
            \/ CheckDelete(r, caller, role, target)
            \/ CheckPermissions(r, caller, role, target, set)
            \/ CheckScope(r, caller, role, target, set)
      BY <2>1, Zenon DEF Ask
    <3>2. QED
      BY <3>1, Zenon DEF CheckCreate, CheckUpdate, CheckDelete, CheckPermissions, CheckScope
  <2>3. QED
    BY <2>2 DEF treeVars
<1>2. CASE GrantWrite(r)
  BY <1>2 DEF GrantWrite, ReplacePermissions, SaveProductScope, treeVars
<1>3. CASE ShopStep(r)
  BY <1>3 DEF ShopStep, CheckAccountShops, LookUpShop, ReplaceAccountShops, treeVars
<1>4. QED
  BY <1>1, <1>2, <1>3

LEMMA WritesKeepTops ==
  ASSUME TypeOK, TopsAlone, NEW r \in Request, TreeWrite(r)
  PROVE  TopsAlone'
<1>0. account \in [Account -> AccountRow] /\ req[r].target \in Account
  BY DEF TypeOK, AccountRow
<1>1. CASE \E a \in Account : CreateAccount(r, a)
  <2>1. PICK a \in Account : CreateAccount(r, a)
    BY <1>1
  <2>2. /\ account' = [account EXCEPT ![a] = [state |-> "live", role |-> req[r].newRole,
                                             parent |-> req[r].parent]]
        /\ unruly' = IF Unchecked(req[r].newRole, req[r].parent) THEN unruly \cup {a} ELSE unruly
    BY <2>1 DEF CreateAccount
  <2>3. /\ account'[a].role = req[r].newRole /\ account'[a].parent = req[r].parent
        /\ \A b \in Account : b # a => account'[b] = account[b]
    BY <1>0, <2>2
  <2>4. ASSUME NEW b \in Account, b # a, Live(b)', b \notin unruly', RoleOf(b)' \in {SuperAdmin, TeamLead}
        PROVE  Parent(b)' = Nobody
    <3>1. account'[b] = account[b] /\ b \notin unruly
      BY <2>2, <2>3, <2>4
    <3>2. QED
      BY <2>4, <3>1 DEF TopsAlone, Live, RoleOf, Parent
  <2>5. ASSUME a \notin unruly', RoleOf(a)' \in {SuperAdmin, TeamLead}
        PROVE  Parent(a)' = Nobody
    BY <2>2, <2>3, <2>5 DEF RoleOf, Parent, Unchecked
  <2>6. QED
    BY <2>4, <2>5 DEF TopsAlone
<1>2. CASE UpdateAccount(r)
  <2>1. PICK q : q = req[r]
    OBVIOUS
  <2>2. PICK a \in Account : a = q.target
    BY <1>0, <2>1
  <2> DEFINE role == RoleAfter(a, q.newRole)
             above == IF q.parent = Nobody THEN account[a].parent ELSE q.parent
  <2>3. CASE ~Live(a)
    <3>1. account' = account /\ unruly' = unruly
      BY <1>2, <2>1, <2>2, <2>3 DEF UpdateAccount
    <3>2. QED
      BY <3>1 DEF TopsAlone, Live, RoleOf, Parent
  <2>4. CASE Live(a)
    <3>1. /\ account' = [account EXCEPT ![a].role = role, ![a].parent = above]
          /\ unruly' = IF RoleOf(a) # role \/ Unchecked(role, q.parent) THEN unruly \cup {a} ELSE unruly
      <4>1. account' = [account EXCEPT ![a].role = role,
                                       ![a].parent = IF q.parent = Nobody THEN @ ELSE q.parent]
        BY <1>2, <2>1, <2>2, <2>4 DEF UpdateAccount
      <4>2. unruly' = IF RoleOf(a) # role \/ Unchecked(role, q.parent) THEN unruly \cup {a} ELSE unruly
        BY <1>2, <2>1, <2>2, <2>4 DEF UpdateAccount
      <4>3. QED
        BY <1>0, <4>1, <4>2 DEF AccountRow
    <3>2. /\ account'[a].role = role /\ account'[a].parent = above
          /\ \A b \in Account : b # a => account'[b] = account[b]
      <4> HIDE DEF role, above
      <4>1. QED
        BY <1>0, <3>1 DEF AccountRow
    <3>3. ASSUME NEW b \in Account, b # a, Live(b)', b \notin unruly', RoleOf(b)' \in {SuperAdmin, TeamLead}
          PROVE  Parent(b)' = Nobody
      <4>1. account'[b] = account[b] /\ b \notin unruly
        BY <3>1, <3>2, <3>3
      <4>2. QED
        BY <3>3, <4>1 DEF TopsAlone, Live, RoleOf, Parent
    <3>4. ASSUME a \notin unruly', RoleOf(a)' \in {SuperAdmin, TeamLead}
          PROVE  Parent(a)' = Nobody
      <4>1. RoleOf(a) = role /\ role \in {SuperAdmin, TeamLead} /\ a \notin unruly
            /\ ~Unchecked(role, q.parent)
        BY <3>1, <3>2, <3>4 DEF RoleOf
      <4>2. q.parent = Nobody
        BY <4>1 DEF Unchecked
      <4>3. account[a].parent = Nobody
        BY <1>0, <2>4, <4>1 DEF TopsAlone, Parent
      <4>4. QED
        BY <3>2, <4>2, <4>3 DEF Parent
    <3>5. QED
      BY <3>3, <3>4 DEF TopsAlone
  <2>5. QED
    BY <2>3, <2>4
<1>3. CASE DeleteAccount(r)
  <2>1. account' = [account EXCEPT ![req[r].target].state = "gone"] /\ unruly' = unruly
    BY <1>3 DEF DeleteAccount
  <2>2. \A b \in Account : account'[b].role = account[b].role /\ account'[b].parent = account[b].parent
                           /\ (account'[b].state = "live" => account[b].state = "live")
    BY <1>0, <2>1 DEF AccountRow
  <2>3. QED
    BY <2>1, <2>2 DEF TopsAlone, Live, RoleOf, Parent
<1>4. QED
  BY <1>1, <1>2, <1>3 DEF TreeWrite

LEMMA NextTops == IndInv /\ TopsAlone /\ [Next]_vars => TopsAlone'
<1> SUFFICES ASSUME IndInv, TopsAlone, [Next]_vars PROVE TopsAlone'
  OBVIOUS
<1>1. ASSUME UNCHANGED <<account, unruly>> PROVE TopsAlone'
  BY <1>1 DEF TopsAlone, Live, RoleOf, Parent
<1>2. CASE UNCHANGED vars
  BY <1>1, <1>2 DEF vars, treeVars
<1>3. CASE Next
  BY <1>1, <1>3, OthersLeaveTree, WritesKeepTops DEF Next, IndInv
<1>4. QED
  BY <1>2, <1>3

(* What the walk up computes. *)
Climb(ancestor, walk) ==
  walk = [n \in 0 .. MaxDepth |-> [b \in Account \cup {Nobody} |->
           /\ n > 0
           /\ Live(b)
           /\ Parent(b) # Nobody
           /\ Parent(b) = ancestor \/ walk[n - 1][Parent(b)]]]

(* a is one or two levels below b, with a live account between. *)
Child(a, b) == Live(a) /\ Parent(a) # Nobody /\ Parent(a) = b
Below(a, b) == Child(a, b) \/ (Live(a) /\ Parent(a) # Nobody /\ Child(Parent(a), b))

(* Roles decide how deep the tree is. *)
LEMMA ThreeLevels ==
  ASSUME IndInv, TopsAlone, unruly = {}, NEW a \in Account, Live(a), Parent(a) # Nobody,
         Live(Parent(a)), Parent(Parent(a)) # Nobody
  PROVE  /\ Parent(a) \in Account /\ Parent(a) # a /\ Parent(Parent(a)) \in Account
         /\ ~(Live(Parent(Parent(a))) /\ Parent(Parent(Parent(a))) # Nobody)
<1>1. account \in [Account -> AccountRow]
  BY DEF IndInv, TypeOK, AccountRow
<1>2. \A b \in Account : Live(b) /\ Parent(b) # Nobody =>
        /\ Parent(b) \in Account
        /\ RoleOf(b) \in {2, 3}
        /\ Live(Parent(b)) => RoleOf(Parent(b)) = RoleOf(b) - 1
  <2> SUFFICES ASSUME NEW b \in Account, Live(b), Parent(b) # Nobody
               PROVE  /\ Parent(b) \in Account
                      /\ RoleOf(b) \in {2, 3}
                      /\ Live(Parent(b)) => RoleOf(Parent(b)) = RoleOf(b) - 1
    OBVIOUS
  <2>1. Parent(b) \in Account
    BY <1>1 DEF Parent, AccountRow
  <2>2. RoleOf(b) \in {2, 3}
    <3>1. RoleOf(b) \in 0 .. 3
      BY <1>1, RoleValues DEF RoleOf, AccountRow
    <3>2. RoleOf(b) \notin {0, 1}
      BY RoleValues DEF TopsAlone
    <3>3. QED
      BY <3>1, <3>2
  <2>3. Live(Parent(b)) => RoleOf(Parent(b)) = RoleOf(b) - 1
    BY <2>2, RoleValues DEF IndInv, ParentsBorn, Superior
  <2>4. QED
    BY <2>1, <2>2, <2>3
<1>3. /\ Parent(a) \in Account /\ RoleOf(a) \in {2, 3} /\ RoleOf(Parent(a)) = RoleOf(a) - 1
  BY <1>2
<1>4. /\ Parent(Parent(a)) \in Account /\ RoleOf(Parent(a)) \in {2, 3}
      /\ Live(Parent(Parent(a))) => RoleOf(Parent(Parent(a))) = RoleOf(Parent(a)) - 1
  BY <1>2, <1>3
<1>5. Live(Parent(Parent(a))) => RoleOf(Parent(Parent(a))) = 1
  BY <1>3, <1>4
<1>6. ~(Live(Parent(Parent(a))) /\ Parent(Parent(Parent(a))) # Nobody)
  BY <1>2, <1>4, <1>5
<1>7. QED
  BY <1>3, <1>4, <1>6

LEMMA ClimbsExist ==
  ASSUME IndInv, TopsAlone, unruly = {}, NEW b \in Account
  PROVE  \E walk : Climb(b, walk)
<1> DEFINE D == Account \cup {Nobody}
           Far(n, c) == n > 1 /\ Child(Parent(c), b)
           Up(n, c) == n > 0 /\ Live(c) /\ Parent(c) # Nobody /\ (Parent(c) = b \/ Far(n, c))
           W == [n \in 0 .. MaxDepth |-> [c \in D |-> Up(n, c)]]
           Next1(n, c) == n > 0 /\ Live(c) /\ Parent(c) # Nobody
                            /\ (Parent(c) = b \/ W[n - 1][Parent(c)])
<1>1. ASSUME NEW n \in 0 .. MaxDepth, NEW c \in D
      PROVE  Up(n, c) = Next1(n, c)
  <2>1. CASE ~(n > 0 /\ Live(c) /\ Parent(c) # Nobody)
    BY <2>1
  <2>2. CASE n > 0 /\ Live(c) /\ Parent(c) # Nobody
    <3>1. c \in Account /\ Parent(c) \in Account
      BY <2>2 DEF Live, Parent, IndInv, TypeOK
    <3>2. n - 1 \in 0 .. MaxDepth /\ n \in Int
      BY <2>2
    <3>3. W[n - 1][Parent(c)] = Up(n - 1, Parent(c))
      <4> HIDE DEF Up
      <4>1. QED
        BY <3>1, <3>2
    <3>4. ~Far(n - 1, Parent(c)) \/ ~(Live(Parent(c)) /\ Parent(Parent(c)) # Nobody)
      BY <2>2, <3>1, ThreeLevels DEF Child
    <3>5. Up(n - 1, Parent(c)) <=> n > 1 /\ Live(Parent(c)) /\ Parent(Parent(c)) # Nobody
                                       /\ Parent(Parent(c)) = b
      <4>1. n - 1 > 0 <=> n > 1
        BY <3>2
      <4> HIDE DEF Far
      <4>2. QED
        BY <3>4, <4>1
    <3>6. Up(n - 1, Parent(c)) <=> Far(n, c)
      BY <3>5 DEF Child
    <3>7. Up(n, c) <=> Next1(n, c)
      <4> HIDE DEF Far, W
      <4>1. W[n - 1][Parent(c)] <=> Far(n, c)
        BY <3>3, <3>6
      <4>2. QED
        BY <4>1
    <3>8. Up(n, c) \in BOOLEAN /\ Next1(n, c) \in BOOLEAN
      <4> HIDE DEF W
      <4>1. QED
        OBVIOUS
    <3>9. QED
      <4> HIDE DEF Up, Next1
      <4>1. QED
        BY <3>7, <3>8
  <2>3. QED
    BY <2>1, <2>2
<1>2. W = [n \in 0 .. MaxDepth |-> [c \in D |-> Next1(n, c)]]
  <2> HIDE DEF Up, Next1
  <2>1. QED
    BY <1>1
<1>3. Climb(b, W)
  <2> HIDE DEF W
  <2>1. QED
    BY <1>2, Zenon DEF Climb
<1>4. QED
  <2> HIDE DEF W
  <2>1. QED
    BY <1>3

(* The walk up finds who is one or two levels above. *)
LEMMA WalkUp ==
  ASSUME IndInv, TopsAlone, unruly = {}, NEW a \in Account, NEW b \in Account
  PROVE  IsDescendantOf(a, b) <=> Below(a, b)
<1>1. PICK walk : Climb(b, walk) /\ IsDescendantOf(a, b) = walk[MaxDepth][a]
  <2>1. Climb(b, CHOOSE walk : Climb(b, walk))
    BY ClimbsExist, Zenon
  <2>2. IsDescendantOf(a, b) = (CHOOSE walk : Climb(b, walk))[MaxDepth][a]
    BY Zenon DEF IsDescendantOf, Climb
  <2>3. QED
    BY <2>1, <2>2, Zenon
<1>2. \A n \in 0 .. MaxDepth, c \in Account :
        walk[n][c] = (/\ n > 0 /\ Live(c) /\ Parent(c) # Nobody
                      /\ Parent(c) = b \/ walk[n - 1][Parent(c)])
  <2> SUFFICES ASSUME NEW n \in 0 .. MaxDepth, NEW c \in Account
               PROVE  walk[n][c] = (/\ n > 0 /\ Live(c) /\ Parent(c) # Nobody
                                    /\ Parent(c) = b \/ walk[n - 1][Parent(c)])
    OBVIOUS
  <2> DEFINE up(m, d) == /\ m > 0 /\ Live(d) /\ Parent(d) # Nobody
                         /\ Parent(d) = b \/ walk[m - 1][Parent(d)]
  <2>1. walk = [m \in 0 .. MaxDepth |-> [d \in Account \cup {Nobody} |-> up(m, d)]]
    BY <1>1, Zenon DEF Climb
  <2>2. walk[n][c] = up(n, c)
    <3> HIDE DEF up
    <3>1. QED
      BY <2>1
  <2>3. QED
    BY <2>2
<1>3. MaxDepth \in 0 .. MaxDepth /\ MaxDepth - 1 \in 0 .. MaxDepth /\ MaxDepth - 2 \in 0 .. MaxDepth
      /\ MaxDepth > 0 /\ MaxDepth - 1 > 0 /\ (MaxDepth - 1) - 1 = MaxDepth - 2
  OBVIOUS
<1>4. account \in [Account -> AccountRow]
  BY DEF IndInv, TypeOK, AccountRow
<1>5. walk[MaxDepth][a] <=> Live(a) /\ Parent(a) # Nobody
                              /\ (Parent(a) = b \/ walk[MaxDepth - 1][Parent(a)])
  BY <1>2, <1>3
<1>6. CASE ~(Live(a) /\ Parent(a) # Nobody)
  BY <1>1, <1>5, <1>6 DEF Below, Child
<1>7. CASE Live(a) /\ Parent(a) # Nobody
  <2>1. Parent(a) \in Account
    BY <1>4, <1>7 DEF Parent, AccountRow
  <2>2. walk[MaxDepth - 1][Parent(a)] <=>
          Live(Parent(a)) /\ Parent(Parent(a)) # Nobody
            /\ (Parent(Parent(a)) = b \/ walk[MaxDepth - 2][Parent(Parent(a))])
    BY <1>2, <1>3, <2>1
  <2>3. Live(Parent(a)) /\ Parent(Parent(a)) # Nobody => ~walk[MaxDepth - 2][Parent(Parent(a))]
    <3>1. SUFFICES ASSUME Live(Parent(a)), Parent(Parent(a)) # Nobody
                   PROVE  ~walk[MaxDepth - 2][Parent(Parent(a))]
      OBVIOUS
    <3>2. /\ Parent(Parent(a)) \in Account
          /\ ~(Live(Parent(Parent(a))) /\ Parent(Parent(Parent(a))) # Nobody)
      BY <1>7, <3>1, ThreeLevels
    <3>3. QED
      BY <1>2, <1>3, <3>2
  <2>4. QED
    BY <1>1, <1>5, <1>7, <2>2, <2>3 DEF Below, Child
<1>8. QED
  BY <1>6, <1>7

(* A set of numbers has a least one. *)
LEMMA LeastOf ==
  ASSUME NEW T \in SUBSET Nat, T # {}
  PROVE  \E n \in T : \A m \in T : n <= m
<1> DEFINE R == {ss \in Nat \X Nat : ss[1] < ss[2]}
<1>1. IsWellFoundedOn(R, Nat)
  BY NatLessThanWellFounded, Zenon DEF OpToRel
<1>2. PICK n \in T : \A m \in T : <<m, n>> \notin R
  <2> HIDE DEF R
  <2>1. QED
    BY <1>1, WFMin
<1>3. \A m \in T : ~(m < n)
  BY <1>2
<1>4. QED
  BY <1>2, <1>3

(* What the walk down computes: the levels below b. *)
Descend(b, level) ==
  level = [n \in 0 .. Cardinality(Account) |->
            IF n = 0 THEN {b} ELSE UNION {GetDirectSubordinateIDs(c) : c \in level[n - 1]}]

Grandchildren(b) == {c \in Account : Live(c) /\ Parent(c) \in GetDirectSubordinateIDs(b)}

(* The levels below b: two at most, for two parents up is the top. *)
LEMMA LevelsBelow ==
  ASSUME IndInv, TopsAlone, unruly = {}, NEW b \in Account
  PROVE  /\ UNION {GetDirectSubordinateIDs(c) : c \in {b}} = GetDirectSubordinateIDs(b)
         /\ UNION {GetDirectSubordinateIDs(c) : c \in GetDirectSubordinateIDs(b)} = Grandchildren(b)
         /\ UNION {GetDirectSubordinateIDs(c) : c \in Grandchildren(b)} = {}
         /\ UNION {GetDirectSubordinateIDs(c) : c \in {}} = {}
<1>1. \A c, d : d \in GetDirectSubordinateIDs(c) <=> d \in Account /\ Live(d) /\ Parent(d) = c
  BY DEF GetDirectSubordinateIDs
<1>2. \A d : d \in Grandchildren(b) <=>
        d \in Account /\ Live(d) /\ Parent(d) \in GetDirectSubordinateIDs(b)
  BY DEF Grandchildren
<1>3. \A c \in Grandchildren(b) : \A d : d \notin GetDirectSubordinateIDs(c)
  <2> SUFFICES ASSUME NEW c \in Grandchildren(b), NEW d, d \in GetDirectSubordinateIDs(c)
               PROVE  FALSE
    OBVIOUS
  <2>1. /\ d \in Account /\ Live(d) /\ Parent(d) = c
        /\ c \in Account /\ Live(c) /\ Parent(c) \in Account /\ Live(Parent(c))
        /\ Parent(Parent(c)) = b
    BY <1>1, <1>2
  <2>2. Nobody \notin Account
    OBVIOUS
  <2>3. QED
    BY <2>1, <2>2, ThreeLevels
<1>4. UNION {GetDirectSubordinateIDs(c) : c \in Grandchildren(b)} = {}
  BY <1>3
<1>5. UNION {GetDirectSubordinateIDs(c) : c \in GetDirectSubordinateIDs(b)} = Grandchildren(b)
  BY <1>1, <1>2
<1>6. QED
  BY <1>4, <1>5

LEMMA DescentsExist ==
  ASSUME IndInv, TopsAlone, unruly = {}, NEW b \in Account
  PROVE  \E level : Descend(b, level)
<1> DEFINE N == Cardinality(Account)
           At(n) == IF n = 0 THEN {b} ELSE IF n = 1 THEN GetDirectSubordinateIDs(b)
                    ELSE IF n = 2 THEN Grandchildren(b) ELSE {}
           L == [n \in 0 .. N |-> At(n)]
           Step(n) == IF n = 0 THEN {b}
                      ELSE UNION {GetDirectSubordinateIDs(c) : c \in L[n - 1]}
<1>1. ASSUME NEW n \in 0 .. N PROVE At(n) = Step(n)
  <2>1. CASE n = 0
    BY <2>1
  <2>2. CASE n # 0
    <3>1. n - 1 \in 0 .. N /\ n \in Nat
      BY <2>2, FS_CardinalityType
    <3>2. PICK below : below = L[n - 1]
      OBVIOUS
    <3>3. below = At(n - 1)
      <4> HIDE DEF At
      <4>1. QED
        BY <3>1, <3>2
    <3>4. below = IF n = 1 THEN {b} ELSE IF n = 2 THEN GetDirectSubordinateIDs(b)
                  ELSE IF n = 3 THEN Grandchildren(b) ELSE {}
      BY <3>1, <3>3, <2>2
    <3>5. Step(n) = UNION {GetDirectSubordinateIDs(c) : c \in below}
      <4> HIDE DEF L
      <4>1. QED
        BY <2>2, <3>2
    <3>6. At(n) = UNION {GetDirectSubordinateIDs(c) : c \in below}
      BY <2>2, <3>1, <3>4, LevelsBelow
    <3>7. QED
      BY <3>5, <3>6
  <2>3. QED
    BY <2>1, <2>2
<1>2. L = [n \in 0 .. N |-> Step(n)]
  <2> HIDE DEF At, Step
  <2>1. QED
    BY <1>1
<1>3. Descend(b, L)
  <2> HIDE DEF L
  <2>1. QED
    BY <1>2, Zenon DEF Descend
<1>4. QED
  <2> HIDE DEF L
  <2>1. QED
    BY <1>3

(* The walk down finds who is one or two levels below. *)
LEMMA WalkDown ==
  ASSUME IndInv, TopsAlone, unruly = {}, NEW a \in Account, NEW b \in Account
  PROVE  a \in GetAllDescendantIDs(b) <=> Below(a, b)
<1> DEFINE N == Cardinality(Account)
           Under(S) == UNION {GetDirectSubordinateIDs(c) : c \in S}
<1>0. N \in Nat
  BY FS_CardinalityType
<1>1. PICK level : Descend(b, level) /\ GetAllDescendantIDs(b) = UNION {level[n] : n \in 1 .. N}
  <2>1. Descend(b, CHOOSE level : Descend(b, level))
    BY DescentsExist, Zenon
  <2>2. GetAllDescendantIDs(b) = UNION {(CHOOSE level : Descend(b, level))[n] : n \in 1 .. N}
    BY Zenon DEF GetAllDescendantIDs, Descend
  <2>3. QED
    BY <2>1, <2>2, Zenon
<1>2. /\ \A n \in 0 .. N : level[n] = IF n = 0 THEN {b} ELSE Under(level[n - 1])
      /\ Under({b}) = GetDirectSubordinateIDs(b) /\ Under({}) = {}
      /\ Under(GetDirectSubordinateIDs(b)) = Grandchildren(b) /\ Under(Grandchildren(b)) = {}
  <2>1. \A n \in 0 .. N : level[n] = IF n = 0 THEN {b} ELSE Under(level[n - 1])
    BY <1>1, Zenon DEF Descend
  <2>2. QED
    BY <2>1, LevelsBelow
<1> HIDE DEF Under
<1>3. N >= 1 => level[1] = GetDirectSubordinateIDs(b)
  <2> SUFFICES ASSUME N >= 1 PROVE level[1] = GetDirectSubordinateIDs(b)
    OBVIOUS
  <2>1. level[0] = {b} /\ level[1] = Under(level[0])
    BY <1>0, <1>2
  <2>2. QED
    BY <1>2, <2>1
<1>4. N >= 2 => level[2] = Grandchildren(b)
  <2> SUFFICES ASSUME N >= 2 PROVE level[2] = Grandchildren(b)
    OBVIOUS
  <2>1. level[2] = Under(level[1])
    BY <1>0, <1>2
  <2>2. level[1] = GetDirectSubordinateIDs(b)
    BY <1>0, <1>3
  <2>3. QED
    BY <1>2, <2>1, <2>2
<1>5. \A n \in 3 .. N : level[n] = {}
  <2> DEFINE T == {n \in 3 .. N : level[n] # {}}
  <2> SUFFICES ASSUME T # {} PROVE FALSE
    OBVIOUS
  <2>1. PICK n \in T : \A m \in T : n <= m
    <3>1. T \in SUBSET Nat
      BY <1>0
    <3> HIDE DEF T
    <3>2. QED
      BY <3>1, LeastOf
  <2>2. n \in 3 .. N /\ n \in Int /\ level[n] = Under(level[n - 1])
    BY <1>0, <1>2, <2>1
  <2>3. level[n - 1] = {} \/ level[n - 1] = Grandchildren(b)
    <3>1. CASE n = 3
      BY <1>0, <1>4, <2>2, <3>1
    <3>2. CASE n # 3
      <4>1. n - 1 \in 3 .. N /\ ~(n <= n - 1)
        BY <1>0, <2>2, <3>2
      <4>2. n - 1 \notin T
        BY <2>1, <4>1
      <4>3. QED
        BY <4>1, <4>2
    <3>3. QED
      BY <3>1, <3>2
  <2>4. level[n] = {}
    BY <1>2, <2>2, <2>3
  <2>5. QED
    BY <2>1, <2>4
<1>6. Below(a, b) <=> a \in GetDirectSubordinateIDs(b) \/ a \in Grandchildren(b)
  <2>1. account \in [Account -> AccountRow]
    BY DEF IndInv, TypeOK, AccountRow
  <2>2. b # Nobody
    OBVIOUS
  <2>3. Live(Parent(a)) => Parent(a) \in Account
    BY DEF Live
  <2>4. QED
    BY <2>2, <2>3 DEF Below, Child, GetDirectSubordinateIDs, Grandchildren
<1>7. N >= 1 /\ (a \in Grandchildren(b) => N >= 2)
  <2>1. IsFiniteSet({a}) /\ Cardinality({a}) = 1 /\ N >= 1
    <3>1. IsFiniteSet({a}) /\ Cardinality({a}) = 1
      BY FS_Singleton, Zenon
    <3>2. {a} \in SUBSET Account
      OBVIOUS
    <3>3. Cardinality({a}) <= N
      BY <3>2, FS_Subset
    <3>4. QED
      BY <1>0, <3>1, <3>3
  <2>2. ASSUME a \in Grandchildren(b) PROVE N >= 2
    <3>1. Parent(a) \in Account /\ Parent(a) # a
      <4>1. /\ Live(a) /\ Parent(a) \in Account /\ Live(Parent(a)) /\ Parent(Parent(a)) = b
        BY <2>2 DEF Grandchildren, GetDirectSubordinateIDs
      <4>2. Nobody \notin Account
        OBVIOUS
      <4>3. QED
        BY <4>1, <4>2, ThreeLevels
    <3>2. Cardinality({a} \cup {Parent(a)}) = 2
      <4>1. PICK p : p = Parent(a) /\ p \notin {a}
        BY <3>1
      <4>2. PICK one : one = {a}
        OBVIOUS
      <4>3. IsFiniteSet(one) /\ Cardinality(one) = 1 /\ p \notin one
        BY <2>1, <4>1, <4>2
      <4>4. Cardinality(one \cup {p}) = 2
        <5>1. Cardinality(one \cup {p}) = Cardinality(one) + 1
          BY <4>3, FS_AddElement, Zenon
        <5>2. QED
          BY <4>3, <5>1
      <4>5. QED
        BY <4>1, <4>2, <4>4
    <3>3. {a} \cup {Parent(a)} \in SUBSET Account
      BY <3>1
    <3>4. QED
      BY <1>0, <3>2, <3>3, FS_Subset
  <2>3. QED
    BY <2>1, <2>2
<1>8. a \in GetAllDescendantIDs(b) <=> \E n \in 1 .. N : a \in level[n]
  BY <1>1
<1>9. ASSUME NEW n \in 1 .. N, a \in level[n] PROVE Below(a, b)
  <2>1. n = 1 \/ n = 2 \/ n \in 3 .. N
    BY <1>0
  <2>2. QED
    BY <1>0, <1>3, <1>4, <1>5, <1>6, <1>9, <2>1
<1>10. ASSUME Below(a, b) PROVE \E n \in 1 .. N : a \in level[n]
  <2>1. CASE a \in GetDirectSubordinateIDs(b)
    <3>1. 1 \in 1 .. N /\ a \in level[1]
      BY <1>0, <1>3, <1>7, <2>1
    <3>2. QED
      BY <3>1
  <2>2. CASE a \in Grandchildren(b)
    <3>1. 2 \in 1 .. N /\ a \in level[2]
      BY <1>0, <1>4, <1>7, <2>2
    <3>2. QED
      BY <3>1
  <2>3. QED
    BY <1>6, <1>10, <2>1, <2>2
<1>11. QED
  BY <1>8, <1>9, <1>10

(* IsDescendantOf decides whom a caller may manage, GetAllDescendantIDs whom he is
   shown: one goes up with a bound, the other down with none, and both stop at an
   account that has gone.  While all accounts are in the hierarchy they agree. *)
THEOREM WalksCorrect == Spec => []WalksAgree
<1>1. Init => IndInv /\ TopsAlone
  BY InitIndInv, InitTops
<1>2. IndInv /\ TopsAlone /\ [Next]_vars => IndInv' /\ TopsAlone'
  BY NextIndInv, NextTops
<1>3. IndInv /\ TopsAlone => WalksAgree
  BY WalkUp, WalkDown DEF WalksAgree
<1>4. QED
  BY <1>1, <1>2, <1>3, PTL DEF Spec
=============================================================================
