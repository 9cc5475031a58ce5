---------------------------- MODULE MCDirectory ----------------------------
(***************************************************************************)
(* Directory for TLC.  A behaviour follows one of three scenarios: a tree  *)
(* of accounts that grows and changes; permissions and scopes handed down  *)
(* a tree with one account per role, while accounts are deleted; and shops *)
(* given to two employees, one of whom may change his role.                *)
(***************************************************************************)
EXTENDS Directory, TLC

CONSTANTS
  Lead, Chief, Clerk, Clerk2, \* accounts of the trees to start from
  MaxUnruly                   \* bound: accounts whose role or parent goes unchecked

ASSUME TreeAssumption ==
  /\ {Lead, Chief, Clerk, Clerk2} \subseteq Account \ {Root}
  /\ Cardinality({Lead, Chief, Clerk, Clerk2}) = 4
  /\ MaxUnruly \in Nat

VARIABLE scenario

mcVars == <<vars, scenario>>

Person(role, parent) == [state |-> "live", role |-> role, parent |-> parent]

Tree ==
  [a \in Account |->
    CASE a = Root -> Person(SuperAdmin, Nobody)
      [] a = Lead -> Person(TeamLead, Nobody)
      [] a = Chief -> Person(Supervisor, Lead)
      [] a = Clerk /\ scenario = "shops" -> Person(Employee, Chief)
      [] a = Clerk2 /\ scenario = "shops" -> Person(Employee, Chief)
      [] OTHER -> Unborn]

MCInit ==
  /\ scenario \in {"tree", "grants", "shops"}
  /\ account = Tree
  /\ InitOthers

(* Supervisors and employees are made and changed, the top is only deleted. *)
Growing(r) ==
  \E caller \in Account : \E role \in TokenRole(caller) :
    \/ \E newRole \in {Same, Supervisor, Employee},
          parent \in {a \in Account : LoggedIn(a)} \cup {Nobody} :
         \/ newRole # Same /\ CheckCreate(r, caller, role, newRole, parent, {})
         \/ \E target \in {Chief, Clerk} :
              CheckUpdate(r, caller, role, target, newRole, parent)
    \/ \E target \in Account : CheckDelete(r, caller, role, target)

Granting(r) ==
  \E caller \in Account : \E role \in TokenRole(caller), set \in SUBSET Module :
    \/ set # {} /\ CheckCreate(r, caller, role, Employee, Chief, set)
    \/ \E target \in Account \ {Root} :
         \/ CheckPermissions(r, caller, role, target, set)
         \/ CheckScope(r, caller, role, target, set)
         \/ CheckDelete(r, caller, role, target)

Assigning(r) ==
  \/ ShopStep(r)
  \/ \E role \in Role : CheckUpdate(r, Root, SuperAdmin, Clerk2, role, Nobody)
  \/ CheckDelete(r, Root, SuperAdmin, Clerk)

(* Clerk2 is for the shops. *)
Writing(r) ==
  \/ CreateAccount(r, Clerk) \/ UpdateAccount(r) \/ DeleteAccount(r)
  \/ GrantWrite(r)

MCNext ==
  /\ \E r \in Request :
       \/ scenario = "tree" /\ Growing(r)
       \/ scenario = "grants" /\ Granting(r)
       \/ scenario = "shops" /\ Assigning(r)
       \/ Writing(r)
  /\ Cardinality(unruly') <= MaxUnruly
  /\ UNCHANGED scenario

MCSpec == MCInit /\ [][MCNext]_mcVars

Symmetry == Permutations(Request)
=============================================================================
