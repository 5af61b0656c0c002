-------------------------- MODULE PersistentLeafMC --------------------------
(***************************************************************************)
(* Two process instances of a device with one vault, to which a second can *)
(* be added; each vault has a session, an outer block replaces the second  *)
(* vault's member block, and an inner bundle refreshes the first vault.    *)
(***************************************************************************)
EXTENDS PersistentLeaf, TLC

CONSTANTS v1, v2, s1, s2, h0, h1, h2

Epoch(v, outer, inner, identity, member) ==
    [vault |-> v, outer |-> outer, inner |-> inner,
     identity |-> identity, member |-> member]

MCGenesis0 ==
    [inner |-> 1, identity |-> h0,
     vaults |-> [v \in Vaults |->
        IF v = v1 THEN [outer |-> 1, member |-> h0, point |-> h0] ELSE None]]

ResV1 == [session |-> s1, expiry |-> 1, epoch |-> Epoch(v1, 1, 1, h0, h0),
          binding |-> Plain, trusted |-> TRUE]

\* The first vault again, in another session and after its refresh.
ResV1Refreshed ==
    [session |-> s2, expiry |-> 1, epoch |-> Epoch(v1, 1, 2, h2, h2),
     binding |-> Plain, trusted |-> TRUE]

MCReservations == {ResV1, ResV1Refreshed}

\* The instances run the same code and no property tells them apart.
InstanceSymmetry == Permutations(Instances)

\* For the runs in which calls interleave.
OneReservation == {ResV1}

MCTimes == {0, 1}

MCGeneses ==
    {[epoch |-> Epoch(v2, 1, 1, h0, h0), point |-> h0, fits |-> TRUE]}

MCBundles ==
    {[handle |-> h2, fits |-> TRUE,
      members |-> [v \in {v1} |->
        [epoch |-> Epoch(v, 1, 2, h2, h2), handle |-> h2, point |-> h0,
         fits |-> TRUE]]]}

MCOuterBlocks ==
    {[epoch |-> Epoch(v2, 2, 1, h0, h1), handle |-> h1, fits |-> TRUE]}

=============================================================================
