---------------------------- MODULE LeafRegistry ----------------------------
(***************************************************************************)
(* One LeafRegistry in memory, driven by a caller who may deliver any      *)
(* input at any time: right, altered, replayed, late, for another session, *)
(* epoch or device (src/src/leaf.rs and src/src/taproot/state.rs).         *)
(***************************************************************************)
EXTENDS Leaf

CONSTANTS
    Genesis0,       \* the key material the registry is created with
    Reservations,   \* the reservations a caller may present
    Times,          \* the clock readings a caller may pass
    Geneses,        \* vaults a caller may try to add
    Bundles,        \* inner bundles a caller may try to activate
    OuterBlocks     \* outer blocks a caller may try to activate

\* What a caller presents has the types of the library.
ASSUME LeafRegistryAssumption ==
    /\ None \notin Nonces
    /\ Genesis0 \in Material
    /\ Reservations \subseteq Reservation
    /\ Times \subseteq Nat
    /\ Geneses \subseteq Genesis
    /\ \A bundle \in Bundles : IsInnerBundle(bundle)
    /\ OuterBlocks \subseteq OuterBlock

VARIABLES
    registry,   \* the LeafRegistry
    sampled,    \* nonces drawn so far, and the attempt each was drawn for
    disclosed,  \* nonce pairs returned by reveal, with their attempts
    answers     \* the number of responses returned for each attempt

vars == <<registry, sampled, disclosed, answers>>

Attempts == 0 .. MaxSequence

Views == [receiver : Attempts, session : Sessions, bytes : Reservations,
          own : Nonces, siblings : Siblings] \cup {None}

Packages == [binding : Binding, bytes : Reservations,
             own : Nonces, siblings : Siblings]

Aborts == [receiver : Attempts \cup {Foreign}, session : Sessions,
           bytes : Reservations, member : BOOLEAN]

Init ==
    /\ registry = NewRegistry(Genesis0)
    /\ sampled = {}
    /\ disclosed = {}
    /\ answers = [a \in Attempts |-> 0]

\* The operation leaves the registry r.reg and returns nothing secret.
Silent(r) ==
    /\ registry' = r.reg
    /\ UNCHANGED <<sampled, disclosed, answers>>

DoReserve ==
    \E s \in Sessions, now \in Times, bytes \in Reservations, b \in Binding :
        Silent(Reserve(registry, s, now, bytes, b))

\* The random generator never repeats a nonce.
DoCommit ==
    \E a \in Attempts \cup {Foreign}, bytes \in Reservations,
       n \in {m \in Nonces : \A s \in sampled : s[2] # m} :
        LET r == Commit(registry, a, bytes, n) IN
        /\ registry' = r.reg
        /\ sampled' = IF r.reg.live # None /\ r.reg.live # registry.live
                      THEN sampled \cup {<<a, n>>} ELSE sampled
        /\ UNCHANGED <<disclosed, answers>>

DoReveal ==
    \E a \in Attempts \cup {Foreign}, view \in Views :
        LET r == Reveal(registry, a, view) IN
        /\ registry' = r.reg
        /\ disclosed' = IF r.out = "Ok"
                        THEN disclosed \cup {<<a, r.reg.live.reveal.own>>}
                        ELSE disclosed
        /\ UNCHANGED <<sampled, answers>>

DoFix ==
    \E a \in Attempts \cup {Foreign}, view \in Views :
        Silent(Fix(registry, a, view))

DoRespond ==
    \E a \in Attempts \cup {Foreign}, package \in Packages :
        LET r == Respond(registry, a, package) IN
        /\ registry' = r.reg
        /\ answers' = IF r.out = "Ok" THEN [answers EXCEPT ![a] = @ + 1]
                      ELSE answers
        /\ UNCHANGED <<sampled, disclosed>>

DoClose ==
    \E a \in Attempts \cup {Foreign} : Silent(Close(registry, a))

DoReceiveAbort ==
    \E abort \in Aborts : Silent(ReceiveAbort(registry, abort))

DoCloseExpired ==
    \E now \in Times : Silent(CloseExpired(registry, now))

DoAddVault ==
    \E genesis \in Geneses : Silent(AddVault(registry, genesis))

DoActivateInner ==
    \E bundle \in Bundles : Silent(ActivateInnerBundle(registry, bundle))

DoActivateOuter ==
    \E block \in OuterBlocks : Silent(ActivateOuter(registry, block))

Next ==
    \/ DoReserve
    \/ DoCommit
    \/ DoReveal
    \/ DoFix
    \/ DoRespond
    \/ DoClose
    \/ DoReceiveAbort
    \/ DoCloseExpired
    \/ DoAddVault
    \/ DoActivateInner
    \/ DoActivateOuter

Spec == Init /\ [][Next]_vars

-----------------------------------------------------------------------------
(* Properties *)

\* IMPLEMENTING.md: old and new epochs never overlap on a device. The live
\* attempt was reserved under the very epoch its vault has installed, also
\* after any activation of that vault, of another one or of the identity.
LiveEpochIsInstalled ==
    registry.live # None =>
        registry.live.bytes.epoch
            = EpochOf(registry.material, registry.live.vault)

\* A nonce pair is disclosed under one attempt only, and an attempt discloses
\* one pair only: replays and altered views never draw a second pair.
OneNoncePerAttempt ==
    \A d, e \in disclosed : d[1] = e[1] <=> d[2] = e[2]

\* The views, nonce, reservation and binding of a live attempt never change
\* once fixed: an altered replay ends the attempt instead.
FrozenViews ==
    [][(registry.live # None /\ registry'.live # None) =>
         /\ registry'.live.attempt = registry.live.attempt
         /\ registry'.live.bytes = registry.live.bytes
         /\ registry'.live.binding = registry.live.binding
         /\ \A f \in {"commit", "reveal", "fixed"} :
              registry.live[f] # None =>
                 registry'.live[f] = registry.live[f]]_vars

\* The registry keeps the promise of AttemptAuthority.
Authority ==
    INSTANCE AttemptAuthority WITH
        issued <- registry.next,
        open <- LiveAttempt(registry)

ImplementsAuthority == Authority!Spec

=============================================================================
