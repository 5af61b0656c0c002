--------------------------- MODULE SigningRoundMC ---------------------------
(***************************************************************************)
(* A vault of two people: one with two devices, both needed, whose inner    *)
(* sharing is refreshed once, and one with a single device. Session s1 is   *)
(* prepared for the old inner epochs, s2 for the new ones: it claims d1 and *)
(* d2 as they refresh, and d3, which does not, refuses it.                  *)
(***************************************************************************)
EXTENDS SigningRound

CONSTANTS d1, d2, d3, p1, p2, s1, s2, v1, h0, h1

MCOwner == [d \in Devices |-> IF d = d3 THEN p2 ELSE p1]
MCNonces == Devices \X (0..MaxSequence)
MCSiblings == SUBSET MCNonces

MCSupport == [s \in Sessions |->
    [p \in Persons |-> IF p = p1 THEN {d1, d2} ELSE {d3}]]

Epoch(inner, handle) == [vault |-> v1, outer |-> 1, inner |-> inner,
                         identity |-> handle, member |-> handle]

MCReserved == [s \in Sessions |-> [p \in Persons |->
    [session |-> s, expiry |-> 1,
     epoch |-> IF s = s2 THEN Epoch(2, h1) ELSE Epoch(1, h0),
     binding |-> Plain, trusted |-> TRUE]]]

\* The coordinator may leave a sibling's nonce out of a sum. (For the other
\* slot, the sums that are reported for p1 are wrong pairs enough.)
MCPairs == [p \in Persons |-> IF p = p1 THEN {{<<d1, 0>>}} ELSE {}]

\* One device may start over: d1, who has a sibling, or d3, who has none.
MCMaxAttempts ==
    {[d \in Devices |-> IF d = again THEN 2 ELSE 1] : again \in {d1, d3}}

MCMaterial0 == [d \in Devices |->
    [inner |-> 1, identity |-> h0,
     vaults |-> [v \in Vaults |-> [outer |-> 1, member |-> h0, point |-> h0]]]]

MCBundleOf == [p \in Persons |->
    IF p = p2 THEN None
    ELSE [handle |-> h1, fits |-> TRUE,
          members |-> [v \in Vaults |->
              [epoch |-> Epoch(2, h1), handle |-> h1, point |-> h0,
               fits |-> TRUE]]]]

=============================================================================
