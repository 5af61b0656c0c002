-------------------------- MODULE RedistributionMC --------------------------
(***************************************************************************)
(* Two drivers over two scopes founded on one handle.                      *)
(***************************************************************************)
EXTENDS Redistribution, TLC

CONSTANTS identity, member, rival, s1, s2

MCPayloads == Values \cup [Contributors -> Sound]

\* identity and member refresh one person's two scopes; rival competes with
\* member for the second.
MCCommandOf ==
    [c \in Commands |->
        [scope |-> IF c = identity THEN s1 ELSE s2, predecessor |-> Genesis]]

Rivals == {<<member>>, <<rival>>}

Bundle == {<<identity, member>>}

BundleAndRival == {<<identity, member>>, <<rival>>}

SymmetricParties ==
    Permutations(Drivers) \cup Permutations(Contributors)
        \cup Permutations(Targets) \cup Permutations(Sound)

=============================================================================
