-------------------------- MODULE ExposureLedgerMC --------------------------
(***************************************************************************)
(* ExposureLedger for TLC: two people, one of them with an alternative     *)
(* device group to which a proposal can move it; groups that the           *)
(* constructors refuse are among the inputs.                               *)
(***************************************************************************)
EXTENDS ExposureLedger, TLC

CONSTANTS a, b, c, p, q, x, y, k, l, e, f

Group(person, threshold, devices) ==
    [person |-> person, threshold |-> threshold, devices |-> devices]

MCGroups ==
    {Group(p, 2, <<a, b>>), Group(p, 1, <<b>>), Group(q, 1, <<c>>),
     Group(p, 0, <<a>>), Group(q, 1, <<c, c>>), Group(p, 2, <<a>>)}

\* Blocks, commands and epochs are only compared for equality.
NameSymmetry ==
    Permutations(Blocks) \cup Permutations(Commands) \cup Permutations(Epochs)
=============================================================================
