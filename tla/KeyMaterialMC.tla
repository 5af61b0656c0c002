---------------------------- MODULE KeyMaterialMC ----------------------------
(***************************************************************************)
(* One vault of two people, both needed: p1 has three devices, p2 one.      *)
(***************************************************************************)
EXTENDS KeyMaterial

CONSTANTS d1, d2, d3, d4, p1, p2

MCOwner == [d \in Devices |-> IF d = d4 THEN p2 ELSE p1]
MCNode == [d \in Devices |->
    CASE d = d1 -> 1 [] d = d2 -> 2 [] d = d3 -> 3 [] d = d4 -> 1]
MCOuterNode == [p \in Persons |-> IF p = p1 THEN 1 ELSE 2]

\* Genesis data with the given outer sharing and member constants; off is
\* added to one device's public member share, and bad to its secret.
Genesis(outer, members, off, bad) ==
    LET people == [p \in Persons |->
            [identity |-> IF p = p1 THEN <<3, 2>> ELSE <<4>>,
             member |-> IF p = p1 THEN <<members[p], 1>> ELSE <<members[p]>>]]
        share(d, delta) == [
            identity |-> Evaluate(people[MCOwner[d]].identity, MCNode[d]),
            member |-> Add(Evaluate(people[MCOwner[d]].member, MCNode[d]),
                           IF d = d2 THEN delta ELSE 0)]
    IN  [outer |-> outer, people |-> people,
         shares |-> [d \in Devices |-> share(d, off)],
         secrets |-> [d \in Devices |-> share(d, Add(off, bad))]]

OnOuter(outer) == [p \in Persons |-> Evaluate(outer, MCOuterNode[p])]

\* Consistent data for two vault keys, and data that validation refuses:
\* members off the outer sharing, a share off its polynomial, a wrong secret.
MCGenesisData ==
    {Genesis(<<2, 1>>, OnOuter(<<2, 1>>), 0, 0),
     Genesis(<<5, 6>>, OnOuter(<<5, 6>>), 0, 0),
     Genesis(<<2, 1>>, [p \in Persons |-> 2], 0, 0),
     Genesis(<<2, 1>>, OnOuter(<<2, 1>>), 1, 0),
     Genesis(<<2, 1>>, OnOuter(<<2, 1>>), 0, 1)}

MCCoefficients == {1, 3}

Input(tweak, challenge, binding) ==
    [tweak |-> tweak, challenge |-> challenge,
     bindings |-> [p \in Persons |-> IF p = p1 THEN binding ELSE 2],
     nonces |-> [d \in Devices |->
        [hiding |-> MCNode[d], binding |-> IF d = d4 THEN 3 ELSE 1]]]

\* Both schemes, with both parities of the nonce and of the output key.
MCSigningInputs == {Input(None, 2, 1), Input(1, 2, 3), Input(4, 2, 1), Input(4, 2, 3)}

=============================================================================
