------------------------------ MODULE Sharing ------------------------------
(***************************************************************************)
(* The algebra of the sharings (src/src/shamir.rs, support.rs, keys.rs) and *)
(* of both signature schemes (signing.rs, taproot/sign.rs, taproot/key.rs) *)
(* over a small prime field. A group element is named by its discrete      *)
(* logarithm, so the commitments to a polynomial are its coefficients and  *)
(* the identity element is 0. Hash outputs (binding factors, challenges,   *)
(* tweaks) are inputs: any scalar is possible.                             *)
(***************************************************************************)
EXTENDS Integers, Sequences, FiniteSets, Functions

CONSTANTS
    Q,              \* the group order
    None            \* an Err result

ASSUME PrimeOrder ==
    /\ Q \in Nat /\ Q > 2
    /\ \A a \in 2..(Q - 1) : Q % a # 0

-----------------------------------------------------------------------------
(* The scalar field *)

Scalar == 0..(Q - 1)
Add(a, b) == (a + b) % Q
Sub(a, b) == (a - b) % Q
Mul(a, b) == (a * b) % Q
Neg(a) == Sub(0, a)
Invert(a) == CHOOSE b \in Scalar : Mul(a, b) = 1

Sum(f) == FoldFunction(Add, 0, f)
Product(f) == FoldFunction(Mul, 1, f)

-----------------------------------------------------------------------------
(* Shamir sharings *)

\* Polynomial::evaluate(), evaluate_commitments() and evaluate_points():
\* Horner's rule, the highest coefficient first.
Evaluate(poly, node) ==
    LET horner[i \in 0..Len(poly)] ==
            IF i = 0 THEN 0
            ELSE Add(Mul(horner[i - 1], node), poly[Len(poly) - i + 1])
    IN  horner[Len(poly)]

\* lagrange_at_zero(): the row that takes the values at the nodes to the
\* value at zero.
LagrangeAtZero(nodes) ==
    [i \in DOMAIN nodes |->
        Product([j \in DOMAIN nodes \ {i} |->
            Mul(Neg(nodes[j]), Invert(Sub(nodes[i], nodes[j])))])]

\* validate_support(), and the duplicate checks of InnerSupport::new() and
\* OuterSupport::new(). nodes gives the node of every participant.
ValidSupport(nodes) ==
    /\ DOMAIN nodes # {}
    /\ 0 \notin Range(nodes)
    /\ IsInjective(nodes)

\* interpolate_constant(): the constant behind one value per participant.
Interpolate(nodes, values) ==
    LET row == LagrangeAtZero(nodes)
    IN  Sum([i \in DOMAIN nodes |-> Mul(row[i], values[i])])

\* anchor_share() and signing_share(): the translation between a device's
\* identity share and its member share.
AnchorShare(member, identity) == Sub(member, identity)
SigningShare(identity, anchor) == Add(identity, anchor)

-----------------------------------------------------------------------------
(* Signature keys *)

\* even_normalize(): a sign and the even one of a point and its negation.
IsOdd(point) == point > Q \div 2
SignOf(point) == IF IsOdd(point) THEN Neg(1) ELSE 1
Even(point) == Mul(SignOf(point), point)

\* A key to sign under: the vault key as it is, or a Taproot key
\* (taproot::Key::new()) with the signs of its two normalisations. None when
\* the tweaked key is the identity.
PlainKey(vault) == [point |-> vault, taproot |-> FALSE]
TaprootKey(vault, tweak) ==
    LET tweaked == Add(Even(vault), tweak)
    IN  IF tweaked = 0 THEN None
        ELSE [internal |-> SignOf(vault), output |-> SignOf(tweaked),
              tweak |-> tweak, point |-> Even(tweaked), taproot |-> TRUE]

-----------------------------------------------------------------------------
(* Signing equations *)

\* NoncePair::bind().
Bind(pair, binding) == Add(pair.hiding, Mul(binding, pair.binding))

\* sum_nonce_pairs(): the pair of one member, None if a part is the identity.
SumPairs(pairs) ==
    LET total == [hiding |-> Sum([d \in DOMAIN pairs |-> pairs[d].hiding]),
                  binding |-> Sum([d \in DOMAIN pairs |-> pairs[d].binding])]
    IN  IF 0 \in {total.hiding, total.binding} THEN None ELSE total

\* aggregate_nonce(): the bound pairs of all slots, 0 if they cancel.
AggregateNonce(pairs, bindings) ==
    Sum([p \in DOMAIN pairs |-> Bind(pairs[p], bindings[p])])

\* SigningContext::new() of the plain scheme.
PlainContext(key, pairs, bindings, challenge) ==
    [key |-> key, bindings |-> bindings, challenge |-> challenge,
     nonce |-> AggregateNonce(pairs, bindings)]

\* SigningContext::new() of the Taproot scheme: the nonce is made even.
TaprootContext(key, pairs, bindings, challenge) ==
    LET raw == AggregateNonce(pairs, bindings)
    IN  [key |-> key, bindings |-> bindings, challenge |-> challenge,
         sign |-> SignOf(raw), nonce |-> Even(raw)]

SigningContext(key, pairs, bindings, challenge) ==
    IF AggregateNonce(pairs, bindings) = 0 THEN None
    ELSE IF key.taproot
         THEN TaprootContext(key, pairs, bindings, challenge)
         ELSE PlainContext(key, pairs, bindings, challenge)

\* Nonce::respond().
NonceRespond(nonce, binding, challenge, coefficient, share) ==
    Add(Bind(nonce, binding), Mul(Mul(challenge, coefficient), share))

\* respond_device() of the plain scheme.
PlainRespond(ctx, slot, coefficient, nonce, share) ==
    NonceRespond(nonce, ctx.bindings[slot], ctx.challenge, coefficient, share)

\* Slip: the tweak is added without the coefficient.
TaprootRespond_WholeTweak(ctx, slot, coefficient, nonce, share) ==
    LET folded == Mul(Mul(ctx.challenge, ctx.sign),
                      Mul(ctx.key.internal, ctx.key.output))
    IN  Add(Mul(ctx.sign, NonceRespond(nonce, ctx.bindings[slot], folded,
                                       coefficient, share)),
            Mul(ctx.challenge, Mul(ctx.key.output, ctx.key.tweak)))

\* respond_device() of the Taproot scheme: the signs of the key and of the
\* nonce are folded into the challenge, and each device adds its part of the
\* tweak.
TaprootRespond(ctx, slot, coefficient, nonce, share) ==
    LET folded == Mul(Mul(ctx.challenge, ctx.sign),
                      Mul(ctx.key.internal, ctx.key.output))
    IN  Add(Mul(ctx.sign, NonceRespond(nonce, ctx.bindings[slot], folded,
                                       coefficient, share)),
            Mul(Mul(ctx.challenge, coefficient),
                Mul(ctx.key.output, ctx.key.tweak)))

RespondDevice(ctx, slot, coefficient, nonce, share) ==
    IF ctx.key.taproot
    THEN TaprootRespond(ctx, slot, coefficient, nonce, share)
    ELSE PlainRespond(ctx, slot, coefficient, nonce, share)

\* verify_device() and verify_member() of the plain scheme: the response
\* opens the nonce and the public share under a coefficient.
PlainVerify(ctx, slot, response, nonce, coefficient, share) ==
    response = Add(Bind(nonce, ctx.bindings[slot]),
                   Mul(share, Mul(ctx.challenge, coefficient)))

\* verify_device() and verify_member() of the Taproot scheme.
TaprootVerify(ctx, slot, response, nonce, coefficient, share) ==
    response =
        Add(Mul(Bind(nonce, ctx.bindings[slot]), ctx.sign),
            Mul(Add(Mul(share, ctx.key.internal), ctx.key.tweak),
                Mul(Mul(ctx.challenge, coefficient), ctx.key.output)))

VerifyPartial(ctx, slot, response, nonce, coefficient, share) ==
    IF ctx.key.taproot
    THEN TaprootVerify(ctx, slot, response, nonce, coefficient, share)
    ELSE PlainVerify(ctx, slot, response, nonce, coefficient, share)

\* Signature::verify() of the plain scheme.
PlainSignatureVerifies(signature, key, challenge) ==
    signature.response = Add(signature.nonce, Mul(key, challenge))

\* Signature::verify() of the Taproot scheme: nonce and key are lifted from
\* their x coordinates, whatever their parity was.
TaprootSignatureVerifies(signature, key, challenge) ==
    signature.response = Add(Even(signature.nonce), Mul(Even(key), challenge))

SignatureVerifies(signature, ctx) ==
    IF ctx.key.taproot
    THEN TaprootSignatureVerifies(signature, ctx.key.point, ctx.challenge)
    ELSE PlainSignatureVerifies(signature, ctx.key.point, ctx.challenge)

\* aggregate_member(): the response of one slot from those of its devices.
\* nodes and shares are the inner support, weight the outer coefficient.
AggregateMember(ctx, slot, nodes, shares, member, weight, nonces, responses) ==
    LET row == LagrangeAtZero(nodes)
        total == Sum(responses)
    IN  IF /\ DOMAIN responses = DOMAIN nodes
           /\ \A d \in DOMAIN nodes :
                VerifyPartial(ctx, slot, responses[d], nonces[d],
                              Mul(row[d], weight), shares[d])
           /\ VerifyPartial(ctx, slot, total, SumPairs(nonces), weight, member)
        THEN total
        ELSE None

\* aggregate_signature(): members gives the member points and nodes the nodes
\* of the outer support.
AggregateSignature(ctx, nodes, members, pairs, responses) ==
    LET row == LagrangeAtZero(nodes)
        signature == [nonce |-> ctx.nonce, response |-> Sum(responses)]
    IN  IF /\ DOMAIN responses = DOMAIN nodes
           /\ \A p \in DOMAIN nodes :
                VerifyPartial(ctx, p, responses[p], pairs[p], row[p],
                              members[p])
           /\ SignatureVerifies(signature, ctx)
        THEN signature
        ELSE None

=============================================================================
