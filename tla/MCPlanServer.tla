---------------------------- MODULE MCPlanServer ----------------------------
(***************************************************************************)
(* The constants of PlanServer for TLC: one org with a site admin, an org  *)
(* admin and a plain member, of whom a run takes as many as it has         *)
(* sessions.                                                               *)
(***************************************************************************)
EXTENDS PlanServerStore

CONSTANTS root, boss, mate,     \* users: site admin, org admin, org user
          s1, s2, s3, p1, p2, acme

MCUserOf == [s \in Sessions |-> IF s = s1 THEN boss
                                ELSE IF s = s2 THEN mate ELSE root]
MCUserOfRoot == [s \in Sessions |-> IF s = s1 THEN root ELSE mate]
MCSiteAdmins == {root} \cap Users
MCMember == [u \in Users |-> [o \in Orgs |-> IF u = boss THEN "Admin"
                                             ELSE IF u = mate THEN "User"
                                             ELSE "None"]]
MCActiveOrg == [u \in Users |-> IF u = root THEN NoOrg ELSE acme]
MCInherit == {[p \in Plans |-> [u \in Users |-> "Inherit"]]}
MCBarred == {[p \in Plans |-> [u \in Users |->
                 IF p = p1 /\ u = mate THEN right ELSE "Inherit"]] :
                 right \in {"Inherit", "NoAccess"}}
MCAnyLast == [Users -> InitialPlans \cup {NoPlan}]
MCMateLast == {last \in MCAnyLast : last[mate] = p1}
MCEveryLast == [Users -> InitialPlans]
=============================================================================
