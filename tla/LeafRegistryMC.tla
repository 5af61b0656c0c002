--------------------------- MODULE LeafRegistryMC ---------------------------
(***************************************************************************)
(* A device with one vault that gains a second, an outer redistribution of *)
(* either vault, two inner bundles, plain and Taproot sessions.            *)
(***************************************************************************)
EXTENDS LeafRegistry

CONSTANTS v1, v2, s1, s2, h0, h1, h2, k1

Epoch(v, outer, inner, identity, member) ==
    [vault |-> v, outer |-> outer, inner |-> inner,
     identity |-> identity, member |-> member]

Res(session, expiry, epoch, binding, trusted) ==
    [session |-> session, expiry |-> expiry, epoch |-> epoch,
     binding |-> binding, trusted |-> trusted]

MCGenesis0 ==
    [inner |-> 1, identity |-> h0,
     vaults |-> [v \in Vaults |->
        IF v = v1 THEN [outer |-> 1, member |-> h0, point |-> h0] ELSE None]]

\* Sessions of both vaults, before and after each activation, and one whose
\* keys or supports the device does not trust.
MCReservations ==
    {Res(s1, 1, Epoch(v1, 1, 1, h0, h0), Plain, TRUE),
     Res(s1, 2, Epoch(v2, 1, 1, h0, h0), k1, TRUE),
     Res(s2, 2, Epoch(v1, 2, 1, h0, h1), Plain, TRUE),
     Res(s2, 1, Epoch(v1, 1, 2, h2, h2), k1, TRUE),
     Res(s2, 2, Epoch(v1, 1, 1, h0, h0), Plain, FALSE)}

MCTimes == {0, 1}

MCGeneses ==
    {[epoch |-> Epoch(v2, 1, 1, h0, h0), point |-> h0, fits |-> TRUE],
     [epoch |-> Epoch(v2, 1, 2, h2, h0), point |-> h0, fits |-> TRUE],
     [epoch |-> Epoch(v2, 1, 1, h0, h0), point |-> h0, fits |-> FALSE]}

Block(v, outer, inner, handle, point) ==
    [epoch |-> Epoch(v, outer, inner, handle, handle), handle |-> handle,
     point |-> point, fits |-> TRUE]

\* Bundles for one vault and for two, one prepared against a member point
\* that an outer redistribution replaces, and one at the installed epoch.
MCBundles ==
    {[handle |-> h2, fits |-> TRUE,
      members |-> [v \in {v1} |-> Block(v, 1, 2, h2, h0)]],
     [handle |-> h2, fits |-> TRUE,
      members |-> [v \in {v1, v2} |-> Block(v, 1, 2, h2, h0)]],
     [handle |-> h2, fits |-> TRUE,
      members |-> [v \in {v1} |-> Block(v, 2, 2, h2, h1)]],
     [handle |-> h1, fits |-> TRUE,
      members |-> [v \in {v1} |-> Block(v, 1, 1, h1, h0)]]}

MCOuterBlocks ==
    {[epoch |-> Epoch(v, 2, 1, h0, h1), handle |-> h1, fits |-> TRUE] :
        v \in Vaults}
    \cup
    {[epoch |-> Epoch(v1, 2, 2, h2, h1), handle |-> h1, fits |-> TRUE],
     [epoch |-> Epoch(v1, 1, 1, h0, h2), handle |-> h2, fits |-> TRUE],
     [epoch |-> Epoch(v1, 2, 1, h0, h1), handle |-> h2, fits |-> TRUE]}

=============================================================================
