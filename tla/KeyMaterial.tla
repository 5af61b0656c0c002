----------------------------- MODULE KeyMaterial -----------------------------
(***************************************************************************)
(* The secret shares and public maps of one vault's devices: validated at   *)
(* genesis (src/src/genesis.rs), redistributed by dealings                  *)
(* (dealing/shape.rs, dealing/contribution.rs) and replaced block by block  *)
(* by each device on its own (leaf.rs: activate_inner_bundle,               *)
(* activate_outer), in any order and at any time. Leaf.tla names key        *)
(* material by its handles; here the values are computed.                   *)
(*                                                                          *)
(* A dealing and its activation by the log are one step: the block is fixed *)
(* when it is dealt and only an activated one reaches a device. The         *)
(* aggregate of all roles' polynomials is what is dealt: sources fix its    *)
(* constant, refreshers add zero, the other coefficients are arbitrary.     *)
(***************************************************************************)
EXTENDS Sharing

CONSTANTS
    Devices, Persons,
    Owner,              \* the person of each device
    Node,               \* the Shamir node of each device
    OuterNode,          \* the Shamir node of each person
    OuterThreshold,
    InnerThresholds,    \* thresholds a person's sharing may be dealt with
    GenesisData,        \* public and secret genesis data offered
    Coefficients,       \* coefficients a dealing may sample
    SigningInputs,      \* binding, challenge, tweak and nonces to sign with
    MaxBlocks           \* bound on dealings

ASSUME KeyAssumption ==
    /\ Owner \in [Devices -> Persons]
    /\ InnerThresholds \subseteq Nat \ {0}
    /\ MaxBlocks \in Nat

ASSUME RosterAssumption ==
    /\ IsFiniteSet(Devices) /\ IsFiniteSet(Persons)
    /\ Node \in [Devices -> Scalar]
    /\ OuterNode \in [Persons -> Scalar]
    /\ OuterThreshold \in Nat
    /\ Coefficients \subseteq Scalar

\* Polynomials of scalars, the outer one with the vault's threshold; whether
\* they fit together and who holds which share is for validation to find out.
ASSUME GenesisAssumption ==
    \A genesis \in GenesisData :
        /\ genesis.outer \in Seq(Scalar)
        /\ Len(genesis.outer) = OuterThreshold
        /\ \A p \in Persons :
             /\ genesis.people[p].identity \in Seq(Scalar)
             /\ genesis.people[p].member \in Seq(Scalar)

ASSUME SigningAssumption ==
    /\ None \notin Scalar
    /\ None \notin [nonce : Scalar, response : Scalar]
    /\ None # "stopped"
    /\ \A input \in SigningInputs :
        /\ input.challenge \in Scalar
        /\ input.tweak \in Scalar \cup {None}
        /\ \A p \in Persons : input.bindings[p] \in Scalar
        /\ \A d \in Devices :
             input.nonces[d] \in [hiding : Scalar, binding : Scalar]

VARIABLES
    keys,       \* the vault key and the identity key of each person
    leaf,       \* the key material of each device
    blocks      \* the activated blocks; a block's index is its handle

vars == <<keys, leaf, blocks>>

DevicesOf(p) == {d \in Devices : Owner[d] = p}

\* The nodes of a set of devices, and of a set of people.
Nodes(S) == [d \in S |-> Node[d]]
OuterNodes(P) == [p \in P |-> OuterNode[p]]

-----------------------------------------------------------------------------
(* Genesis *)

\* PublicPolynomial::new(): a nonempty vector, its constant not the identity.
ValidPolynomial(poly) == Len(poly) > 0 /\ poly[1] # 0

\* PublicPerson::new(): both sharings have one threshold that the devices can
\* meet, and every public share lies on its polynomial.
ValidPerson(genesis, p) ==
    LET person == genesis.people[p] IN
    /\ ValidPolynomial(person.identity)
    /\ ValidPolynomial(person.member)
    /\ Len(person.identity) = Len(person.member)
    /\ Cardinality(DevicesOf(p)) >= Len(person.identity)
    /\ ValidSupport(Nodes(DevicesOf(p)))
    /\ \A d \in DevicesOf(p) :
         /\ genesis.shares[d].identity = Evaluate(person.identity, Node[d])
         /\ genesis.shares[d].member = Evaluate(person.member, Node[d])

\* ValidatedPublicGenesis::validate(): each person's member point is that
\* person's share of the outer sharing.
ValidGenesis(genesis) ==
    /\ ValidPolynomial(genesis.outer)
    /\ Cardinality(Persons) >= Len(genesis.outer)
    /\ ValidSupport(OuterNodes(Persons))
    /\ \A p \in Persons :
         /\ ValidPerson(genesis, p)
         /\ Evaluate(genesis.outer, OuterNode[p]) = genesis.people[p].member[1]

\* attach_share(): the device's secrets must match its public shares.
Attaches(genesis, d) == genesis.secrets[d] = genesis.shares[d]

\* attach_share() and LeafRegistry::new(): the material a device starts from.
GenesisLeaf(genesis, d) ==
    LET person == genesis.people[Owner[d]]
        secret == genesis.secrets[d]
    IN  [identity |-> secret.identity,
         anchor |-> AnchorShare(secret.member, secret.identity),
         identityMap |-> person.identity, memberMap |-> person.member,
         outerMap |-> genesis.outer,
         points |-> [p \in Persons |-> genesis.people[p].member[1]],
         point |-> person.member[1],
         inner |-> 0, identityHandle |-> 0, outer |-> 0, memberHandle |-> 0]

Init ==
    \E genesis \in GenesisData :
        /\ ValidGenesis(genesis)
        /\ \A d \in Devices : Attaches(genesis, d)
        /\ keys = [vault |-> genesis.outer[1],
                   identity |-> [p \in Persons |->
                                    genesis.people[p].identity[1]]]
        /\ leaf = [d \in Devices |-> GenesisLeaf(genesis, d)]
        /\ blocks = <<>>

ShareOf(d) == SigningShare(leaf[d].identity, leaf[d].anchor)

-----------------------------------------------------------------------------
(* Dealings *)

\* Polynomial::sample(): a given constant, the other coefficients arbitrary.
Tails(threshold) == [1..(threshold - 1) -> Coefficients]
Sampled(constant, threshold) ==
    {<<constant>> \o tail : tail \in Tails(threshold)}

\* The constant that the sources of a dealing contribute: their share times
\* their weight (RoleSpec::source(), Contribution::source()), summed. The
\* command's anchor must equal it and is not the identity (Command::new()).
SourceSum(S, values) == Interpolate(Nodes(S), [d \in S |-> values[d]])

\* SingleShape::new(): a threshold the devices can meet.
Shape(p, threshold) ==
    /\ threshold # 0
    /\ threshold <= Cardinality(DevicesOf(p))

\* OuterShape::new(): the same of the people, and a shape for each of them.
OuterShape(thresholds) ==
    /\ OuterThreshold # 0
    /\ OuterThreshold <= Cardinality(Persons)
    /\ \A p \in Persons : Shape(p, thresholds[p])

\* The log activates the block. Epoch numbers come from the caller; here an
\* epoch is the block's position in the log.
Activate(block) ==
    /\ blocks' = Append(blocks, block)
    /\ UNCHANGED <<keys, leaf>>

\* An inner bundle for person p: the identity block and the member block have
\* one shape. S is the sources' support.
DealInner(p, S, threshold) ==
    LET identity == SourceSum(S, [d \in S |-> leaf[d].identity])
        member == SourceSum(S, [d \in S |-> ShareOf(d)])
    IN  /\ Len(blocks) < MaxBlocks
        /\ Shape(p, threshold)
        /\ identity # 0
        /\ member # 0
        /\ \E i \in Sampled(identity, threshold),
              m \in Sampled(member, threshold) :
                Activate([inner |-> TRUE, person |-> p,
                          identity |-> i, member |-> m])

\* The supports that devices may deal or sign with: exact thresholds.
InnerSupports(p) ==
    {S \in SUBSET DevicesOf(p) :
        S # {} /\ \A d \in S : Cardinality(S) = Len(leaf[d].memberMap)}
OuterSupports == {P \in SUBSET Persons : Cardinality(P) = OuterThreshold}
Supports(P) ==
    {S \in [P -> UNION {InnerSupports(p) : p \in P}] :
        \A p \in P : S[p] \in InnerSupports(p)}

\* Slip: each person's own sum is added without its outer coefficient.
OuterSum_Unweighted(S) ==
    Sum([p \in DOMAIN S |-> SourceSum(S[p], [d \in S[p] |-> ShareOf(d)])])

\* OuterSupport::source_weight(): composed outer and inner coefficients.
OuterSum(S) ==
    Interpolate(OuterNodes(DOMAIN S), [p \in DOMAIN S |->
        SourceSum(S[p], [d \in S[p] |-> ShareOf(d)])])

\* SecretBlock::sample() for an outer shape: a sharing of the constant, and
\* for each person a sharing of that person's share of it, so that
\* ContributionPoints::validate() links every member to the outer points.
\* tails gives the other coefficients of each person's sharing.
DealOuter(S, tails) ==
    /\ Len(blocks) < MaxBlocks
    /\ OuterShape([p \in Persons |-> 1 + Len(tails[p])])
    /\ OuterSum(S) # 0
    /\ \E outer \in Sampled(OuterSum(S), OuterThreshold) :
         Activate([inner |-> FALSE, outer |-> outer,
                   members |-> [p \in Persons |->
                       <<Evaluate(outer, OuterNode[p])>> \o tails[p]]])

-----------------------------------------------------------------------------
(* Installation *)

\* Slip: the member point is not compared.
FitsInner_AnyPoint(d, handle) ==
    LET block == blocks[handle] IN
    /\ block.inner
    /\ block.person = Owner[d]
    /\ handle > leaf[d].inner
    /\ handle # leaf[d].memberHandle
    /\ block.identity[1] = keys.identity[Owner[d]]

\* activate_inner_bundle() accepts the block: it is newer than the device's
\* inner epoch, and keeps the identity key and the vault's member point.
FitsInner(d, handle) ==
    LET block == blocks[handle] IN
    /\ block.inner
    /\ block.person = Owner[d]
    /\ handle > leaf[d].inner
    /\ handle # leaf[d].memberHandle
    /\ block.identity[1] = keys.identity[Owner[d]]
    /\ block.member[1] = leaf[d].point

\* What activate_inner_bundle() installs.
InnerLeaf(d, handle) ==
    LET block == blocks[handle]
        identity == Evaluate(block.identity, Node[d])
        member == Evaluate(block.member, Node[d])
    IN  [leaf[d] EXCEPT
            !.identity = identity,
            !.anchor = AnchorShare(member, identity),
            !.identityMap = block.identity, !.memberMap = block.member,
            !.inner = handle, !.identityHandle = handle,
            !.memberHandle = handle]

InstallInner(d, handle) ==
    /\ FitsInner(d, handle)
    /\ leaf' = [leaf EXCEPT ![d] = InnerLeaf(d, handle)]
    /\ UNCHANGED <<keys, blocks>>

\* activate_outer() accepts the block: it is newer than the vault's outer
\* epoch, keeps the vault key and this person's roster and threshold
\* (same_roster()), and no member point in it is the identity.
FitsOuter(d, handle) ==
    LET block == blocks[handle] IN
    /\ ~block.inner
    /\ handle > leaf[d].outer
    /\ Len(leaf[d].identityMap) = Len(block.members[Owner[d]])
    /\ handle # leaf[d].memberHandle
    /\ block.outer[1] = keys.vault
    /\ \A p \in Persons : block.members[p][1] # 0

\* Slip: the old anchor stays in place.
OuterLeaf_KeepsAnchor(d, handle) ==
    LET block == blocks[handle] IN
    [leaf[d] EXCEPT
        !.memberMap = block.members[Owner[d]], !.outerMap = block.outer,
        !.points = [p \in Persons |-> block.members[p][1]],
        !.point = block.members[Owner[d]][1],
        !.outer = handle, !.memberHandle = handle]

\* Slip: the outer epoch is not advanced.
OuterLeaf_SameEpoch(d, handle) ==
    LET block == blocks[handle]
        member == Evaluate(block.members[Owner[d]], Node[d])
    IN  [leaf[d] EXCEPT
            !.anchor = AnchorShare(member, leaf[d].identity),
            !.memberMap = block.members[Owner[d]], !.outerMap = block.outer,
            !.points = [p \in Persons |-> block.members[p][1]],
            !.point = block.members[Owner[d]][1], !.memberHandle = handle]

\* What activate_outer() installs (outer_maps()).
OuterLeaf(d, handle) ==
    LET block == blocks[handle]
        member == Evaluate(block.members[Owner[d]], Node[d])
    IN  [leaf[d] EXCEPT
            !.anchor = AnchorShare(member, leaf[d].identity),
            !.memberMap = block.members[Owner[d]], !.outerMap = block.outer,
            !.points = [p \in Persons |-> block.members[p][1]],
            !.point = block.members[Owner[d]][1],
            !.outer = handle, !.memberHandle = handle]

InstallOuter(d, handle) ==
    /\ FitsOuter(d, handle)
    /\ leaf' = [leaf EXCEPT ![d] = OuterLeaf(d, handle)]
    /\ UNCHANGED <<keys, blocks>>

Next ==
    \/ \E p \in Persons, t \in InnerThresholds : \E S \in InnerSupports(p) :
          DealInner(p, S, t)
    \/ \E P \in OuterSupports,
          tails \in [Persons -> UNION {Tails(t) : t \in InnerThresholds}] :
          \E S \in Supports(P) : DealOuter(S, tails)
    \/ \E d \in Devices, handle \in 1..Len(blocks) :
          InstallInner(d, handle) \/ InstallOuter(d, handle)

Spec == Init /\ [][Next]_vars

-----------------------------------------------------------------------------
(* Signing with the installed material *)

\* LeafRegistry::epoch(): what a reservation is bound to.
EpochOf(d) == [person |-> Owner[d], outer |-> leaf[d].outer,
               inner |-> leaf[d].inner, identity |-> leaf[d].identityHandle,
               member |-> leaf[d].memberHandle]

\* A reservation for support S of one person under the outer support P, as
\* it is built from the public maps that device r has installed.
Offer(r, S, P) ==
    [epoch |-> EpochOf(r), identity |-> keys.identity[Owner[r]],
     member |-> leaf[r].point, key |-> keys.vault,
     shares |-> [d \in S |-> Evaluate(leaf[r].memberMap, Node[d])],
     outer |-> [p \in P |-> leaf[r].points[p]]]

\* validate_inner_support(): an exact threshold of shares on the member map
\* that reconstructs the member point.
ValidInnerSupport(d, shares) ==
    /\ Cardinality(DOMAIN shares) = Len(leaf[d].memberMap)
    /\ \A e \in DOMAIN shares :
         shares[e] = Evaluate(leaf[d].memberMap, Node[e])
    /\ Interpolate(Nodes(DOMAIN shares), shares) = leaf[d].point

\* validate_outer_support(): the same of the member points, on the outer map.
ValidOuterSupport(d, members) ==
    /\ Cardinality(DOMAIN members) = Len(leaf[d].outerMap)
    /\ \A p \in DOMAIN members :
         /\ members[p] = leaf[d].points[p]
         /\ members[p] = Evaluate(leaf[d].outerMap, OuterNode[p])
    /\ Interpolate(OuterNodes(DOMAIN members), members) = keys.vault

\* MemberBody::new() and validate_reservation(): device d takes part.
Accepts(d, offer) ==
    /\ offer.member = offer.outer[Owner[d]]
    /\ offer.epoch = EpochOf(d)
    /\ offer.identity = keys.identity[Owner[d]]
    /\ offer.member = leaf[d].point
    /\ offer.key = keys.vault
    /\ ValidInnerSupport(d, offer.shares)
    /\ ValidOuterSupport(d, offer.outer)
    /\ ShareOf(d) = offer.shares[d]

\* The response of every device, its aggregation per person and the
\* signature. S gives the inner supports, shares the offered public shares
\* and members the offered member points; input fixes what hashing and
\* sampling yield. An identity nonce or key, on which the round stops with an
\* error, is "stopped".
Sign(S, shares, members, input) ==
    LET P == DOMAIN S
        key == IF input.tweak = None THEN PlainKey(keys.vault)
               ELSE TaprootKey(keys.vault, input.tweak)
        pairs == [p \in P |-> SumPairs([d \in S[p] |-> input.nonces[d]])]
        ctx == SigningContext(key, pairs, [p \in P |-> input.bindings[p]],
                              input.challenge)
        weights == LagrangeAtZero(OuterNodes(P))
        member(p) ==
            LET row == LagrangeAtZero(Nodes(S[p]))
            IN  AggregateMember(ctx, p, Nodes(S[p]), shares[p], members[p],
                    weights[p], [d \in S[p] |-> input.nonces[d]],
                    [d \in S[p] |->
                        RespondDevice(ctx, p, Mul(row[d], weights[p]),
                                      input.nonces[d], ShareOf(d))])
        responses == [p \in P |-> member(p)]
    IN  IF key = None \/ None \in Range(pairs) THEN "stopped"
        ELSE IF ctx = None THEN "stopped"
        ELSE IF None \in Range(responses) THEN None
        ELSE AggregateSignature(ctx, OuterNodes(P), members, pairs, responses)

-----------------------------------------------------------------------------
(* Properties *)

\* However inner bundles and outer blocks interleave on a device, the share it
\* signs with, which is never stored but recomputed from the identity share
\* and the anchor, lies on the member sharing it has installed, and identity
\* and member sharing have one threshold
\* (leaf.rs: activate_inner_bundle, activate_outer).
SharesOnMaps ==
    \A d \in Devices :
        /\ Len(leaf[d].identityMap) = Len(leaf[d].memberMap)
        /\ leaf[d].identity = Evaluate(leaf[d].identityMap, Node[d])
        /\ ShareOf(d) = Evaluate(leaf[d].memberMap, Node[d])

\* The sharings a device has installed from different blocks still fit: the
\* identity sharing leads to the identity key, the member sharing to the
\* member point, the member points lie on the outer sharing, and that one
\* leads to the vault key (leaf.rs: activate_inner_bundle, activate_outer).
MapsLeadToKeys ==
    \A d \in Devices :
        LET own == leaf[d] IN
        /\ own.identityMap[1] = keys.identity[Owner[d]]
        /\ own.memberMap[1] = own.point
        /\ own.point = own.points[Owner[d]]
        /\ \A p \in Persons :
             own.points[p] = Evaluate(own.outerMap, OuterNode[p])
        /\ own.outerMap[1] = keys.vault

\* A key epoch names its material: devices of one person at one epoch have
\* installed the same maps, and devices of different people at one outer epoch
\* the same outer sharing (leaf.rs: LeafRegistry::epoch).
EpochNamesMaterial ==
    \A d, e \in Devices :
        /\ EpochOf(d) = EpochOf(e) =>
             /\ leaf[d].identityMap = leaf[e].identityMap
             /\ leaf[d].memberMap = leaf[e].memberMap
        /\ leaf[d].outer = leaf[e].outer =>
             /\ leaf[d].outerMap = leaf[e].outerMap
             /\ leaf[d].points = leaf[e].points

\* The devices of S are at one epoch, and the people at one outer epoch.
Level(S) ==
    /\ \A p \in DOMAIN S : \A d, e \in S[p] : EpochOf(d) = EpochOf(e)
    /\ \A d, e \in UNION Range(S) : leaf[d].outer = leaf[e].outer

\* Level devices can deal: their weighted shares sum to the keys that every
\* device checks an incoming block against, so that a redistribution among
\* them keeps each key (support.rs: source_weight, shape.rs: Command::new).
LevelSourcesKeepKeys ==
    \A P \in OuterSupports : \A S \in Supports(P) :
        Level(S) =>
            /\ OuterSum(S) = keys.vault
            /\ \A p \in P : \A d \in S[p] :
                 /\ SourceSum(S[p], [e \in S[p] |-> leaf[e].identity]) =
                        keys.identity[p]
                 /\ SourceSum(S[p], [e \in S[p] |-> ShareOf(e)]) =
                        leaf[d].point

\* Level devices accept one another's offers: no check of validate_reservation
\* refuses a reservation made from the maps of a device at the same epoch.
LevelDevicesAccept ==
    \A P \in OuterSupports : \A S \in Supports(P) :
        Level(S) =>
            \A p \in P : \A r, d \in S[p] : Accepts(d, Offer(r, S[p], P))

\* What the devices accept, they can sign: whenever each of them has accepted
\* a reservation for one root package, whichever devices' maps the offers were
\* built from, every response verifies and they aggregate to a signature that
\* verifies under the vault key or the Taproot output key (signing.rs,
\* taproot/sign.rs: respond_device, aggregate_member, aggregate_signature).
AcceptedSupportSigns ==
    \A P \in OuterSupports : \A S \in Supports(P) :
    \A r \in [P -> Devices] :
        LET offers == [p \in P |-> Offer(r[p], S[p], P)] IN
        /\ \A p, q \in P : offers[p].outer = offers[q].outer
        /\ \A p \in P : \A d \in S[p] : Accepts(d, offers[p])
        => \A input \in SigningInputs :
             Sign(S, [p \in P |-> offers[p].shares],
                  [p \in P |-> offers[p].member], input) # None

=============================================================================
