---------------------------- MODULE Memberships -----------------------------
(***************************************************************************)
(* The contract on the table organization_members between those who let    *)
(* people in (Invites) and those who rely on it (Properties): a person who *)
(* is not in an organisation may enter it in some role, and keeps that     *)
(* role.  It does not say who may enter.                                   *)
(***************************************************************************)
CONSTANTS Users, Orgs, Roles, NoRole

VARIABLE members    \* the role of each person in each organisation

MembersInit == members = [m \in Users \X Orgs |-> NoRole]

Enter(u, o, r) ==
    /\ members[<<u, o>>] = NoRole
    /\ members' = [members EXCEPT ![<<u, o>>] = r]

MembersNext == \E u \in Users, o \in Orgs, r \in Roles : Enter(u, o, r)

MembersSpec == MembersInit /\ [][MembersNext]_members
=============================================================================
