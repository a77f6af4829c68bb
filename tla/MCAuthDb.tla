------------------------------- MODULE MCAuthDb -------------------------------
(***************************************************************************)
(* The constants of AuthDb for TLC: a site admin, an org admin and a       *)
(* member of one organisation, on two connections.                         *)
(***************************************************************************)
EXTENDS AuthDb, TLC

CONSTANTS root, boss, mate, acme, zeta, p1, c1, c2, k1, k2, k3, pw, pw2

Symmetric == Permutations(Conns) \cup Permutations(Tokens)

MCMember == [u \in Users |-> [o \in Orgs |->
                IF o \notin FirstOrgs THEN "None"
                ELSE IF u = boss THEN "Admin"
                ELSE IF u \in Founders THEN "User" ELSE "None"]]
=============================================================================
