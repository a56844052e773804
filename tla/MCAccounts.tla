------------------------------ MODULE MCAccounts ------------------------------
(* Small instances of Accounts for TLC. *)
EXTENDS Accounts, TLC

CONSTANTS a1, a2, a3, f1, root

\* a2 is a1 with a capital letter.
MCLower == [a \in Addresses |-> IF a = a2 THEN a1 ELSE a]

\* The external account has the address with the capital letter.
MCFacebookEmail == [f \in FacebookIds |-> a2]

\* What an administrator may have offered, and to which address.
MCFirstInvites == {<<a1, "OrgOwner">>, <<a1, "NoRole">>, <<a2, "OrgMember">>}

Symmetry ==
    Permutations(Ids \ Admins) \cup Permutations(Rows) \cup Permutations(Invites)
        \cup Permutations(Requests)
=============================================================================
