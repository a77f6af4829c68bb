----------------------------- MODULE PlanAccess -----------------------------
(***************************************************************************)
(* Who may do what with a plan.  The server decides it in three places     *)
(* that were written separately: effective_plan_role gates the requests,   *)
(* has_plan_access filters the broadcasts, and filter_visible_plans the    *)
(* lists.  All three read the same rows of the authentication database,    *)
(* which is a parameter here:                                              *)
(*                                                                         *)
(*   db.planOrg[p]   the row of plan_org for p, or NoOrg                   *)
(*   db.member[u][o] the role of u in org_members for o, or "None"         *)
(*   db.perm[p][u]   the row of plan_permissions for p and u, or "Inherit" *)
(*                                                                         *)
(* A user is passed with the is_admin flag its session carries.            *)
(***************************************************************************)
CONSTANTS Users, Plans, Orgs,
          NoOrg,     \* no row in plan_org
          NoUser     \* the "" a session is registered under before login

ASSUME NoOrgAssumption == NoOrg \notin Orgs
ASSUME NoUserAssumption == NoUser \notin Users

OrgRoles    == {"Admin", "User", "Viewer"}
Permissions == {"NoAccess", "User", "Viewer"}
PlanRoles   == {"Admin", "User", "Viewer", "NoAccess"}

AccessDb == [planOrg : [Plans -> Orgs \cup {NoOrg}],
             member  : [Users -> [Orgs -> OrgRoles \cup {"None"}]],
             perm    : [Plans -> [Users -> Permissions \cup {"Inherit"}]]]

(* The role a request on plan p is judged by.  Only an org's User and      *)
(* Viewer members can have their role overridden plan by plan.             *)
EffectivePlanRole(db, u, isAdmin, p) ==
    LET org  == db.planOrg[p]
        role == db.member[u][org]
        perm == db.perm[p][u]
    IN  IF isAdmin THEN "Admin"
        ELSE IF org = NoOrg \/ role = "None" THEN "NoAccess"
        ELSE IF role = "Admin" \/ perm = "Inherit" THEN role
        ELSE perm

(* Whether a broadcast of plan p goes to a session registered as u.        *)
HasPlanAccess(db, u, isAdmin, p) ==
    LET org == db.planOrg[p]
    IN  \/ isAdmin
        \/ /\ u # NoUser
           /\ org # NoOrg
           /\ db.member[u][org] # "None"
           /\ db.member[u][org] = "Admin" \/ db.perm[p][u] # "NoAccess"

(* The plans of ids that u's lists and automatic loading may use.          *)
FilterVisiblePlans(db, u, isAdmin, ids) ==
    IF isAdmin THEN ids
    ELSE {p \in ids : /\ db.planOrg[p] # NoOrg
                      /\ \/ db.member[u][db.planOrg[p]] = "Admin"
                         \/ /\ db.member[u][db.planOrg[p]] # "None"
                            /\ db.perm[p][u] # "NoAccess"}

IsOrgAdmin(db, u, org) == db.member[u][org] = "Admin"
=============================================================================
