------------------------- MODULE LeafRegistryProofs -------------------------
(***************************************************************************)
(* The registry in memory, for every set of vaults, sessions, inputs and   *)
(* nonces: the live attempt stays under the epoch its vault has installed, *)
(* a nonce pair serves one attempt, what an attempt has fixed stays fixed, *)
(* and the registry implements AttemptAuthority.                           *)
(***************************************************************************)
EXTENDS LeafRegistry, LeafProofs

-----------------------------------------------------------------------------
(* The inductive invariant *)

TypesSound ==
    /\ registry \in Registry
    /\ sampled \subseteq Nat \X Nonces
    /\ disclosed \subseteq Nat \X Nonces
    /\ answers \in [Attempts -> Nat]

\* Every nonce was drawn for one attempt and every attempt drew one nonce,
\* no attempt that is yet to be issued drew one, and only drawn nonces are
\* disclosed.
NoncesSound ==
    /\ \A p, q \in sampled : p[1] = q[1] <=> p[2] = q[2]
    /\ \A p \in sampled : p[1] < registry.next
    /\ disclosed \subseteq sampled

\* The live attempt holds the nonce that was drawn for it, or none was drawn;
\* the view it revealed under opens its own commitment.
LiveNonceSound ==
    registry.live # None =>
        LET live == registry.live IN
        /\ live.commit = None => \A p \in sampled : p[1] # live.attempt
        /\ live.commit # None => <<live.attempt, live.commit>> \in sampled
        /\ live.reveal # None =>
             live.commit # None /\ live.reveal.own = live.commit

RInv ==
    /\ TypesSound
    /\ CounterSound(registry)
    /\ LiveEpochIsInstalled
    /\ NoncesSound
    /\ LiveNonceSound

-----------------------------------------------------------------------------
(* Every step keeps the invariant *)

\* Settling is the case in which no material changes.
LEMMA SettlesRekeys ==
    ASSUME NEW old, NEW new, Settles(old, new)
    PROVE  Rekeys(old, new)
BY DEF Settles, Rekeys

\* A step that keeps or drops the live record keeps the invariant.
LEMMA RekeyStep ==
    ASSUME RInv, Successor(registry, registry'), Rekeys(registry, registry'),
           sampled' = sampled, disclosed' \subseteq sampled,
           answers' \in [Attempts -> Nat]
    PROVE  RInv'
<1>1. TypesSound' /\ CounterSound(registry)'
  BY DEF Successor, RInv, TypesSound
<1>2. \/ registry'.live = None
      \/ registry'.live = registry.live /\ registry.live # None
  BY DEF Rekeys
<1>3. registry'.next = registry.next
  BY DEF Rekeys
<1>4. LiveEpochIsInstalled'
  BY <1>2 DEF Rekeys, LiveEpochIsInstalled, RInv
<1>5. NoncesSound'
  BY <1>3 DEF NoncesSound, RInv
<1>6. LiveNonceSound'
  BY <1>2 DEF LiveNonceSound, RInv
<1> QED
  BY <1>1, <1>4, <1>5, <1>6 DEF RInv

\* reserve(): a fresh record is under the installed epoch and has no nonce,
\* since every drawn nonce belongs to an earlier attempt.
LEMMA ReserveStep ==
    ASSUME RInv, DoReserve
    PROVE  RInv'
<1>1. PICK s \in Sessions, now \in Times, bytes \in Reservations,
           b \in Binding :
        Silent(Reserve(registry, s, now, bytes, b))
  BY DEF DoReserve
<1>2. registry \in Registry /\ now \in Nat /\ bytes \in Reservation
  BY LeafRegistryAssumption DEF RInv, TypesSound
<1>3. registry' = Reserve(registry, s, now, bytes, b).reg
      /\ UNCHANGED <<sampled, disclosed, answers>>
  BY <1>1 DEF Silent
<1>4. Successor(registry, registry')
  BY <1>2, <1>3, ReserveSuccessor DEF RInv
<1>5. /\ disclosed' \subseteq sampled
      /\ answers' \in [Attempts -> Nat]
  BY <1>3 DEF RInv, NoncesSound, TypesSound
<1>6. \/ Settles(registry, registry')
      \/ /\ registry'.material = registry.material
         /\ registry'.next = registry.next + 1
         /\ registry'.live = NewLive(registry.next, s, bytes, b)
         /\ ValidReservation(registry.material, bytes)
  BY <1>2, <1>3, ReserveShape
<1>7. CASE Settles(registry, registry')
  BY <1>3, <1>4, <1>5, <1>7, SettlesRekeys, RekeyStep
<1>8. CASE /\ registry'.material = registry.material
           /\ registry'.next = registry.next + 1
           /\ registry'.live = NewLive(registry.next, s, bytes, b)
           /\ ValidReservation(registry.material, bytes)
  <2>1. /\ registry'.live.attempt = registry.next
        /\ registry'.live.vault = bytes.epoch.vault
        /\ registry'.live.bytes = bytes
        /\ registry'.live.commit = None
        /\ registry'.live.reveal = None
    BY <1>8 DEF NewLive
  <2>2. TypesSound' /\ CounterSound(registry)'
    BY <1>3, <1>4 DEF Successor, RInv, TypesSound
  <2>3. LiveEpochIsInstalled'
    BY <1>8, <2>1 DEF LiveEpochIsInstalled, ValidReservation
  <2>4. /\ registry.next \in Nat
        /\ \A p \in sampled : p[1] \in Nat /\ p[1] < registry.next
    BY DEF RInv, TypesSound, NoncesSound, Registry
  <2>5. NoncesSound'
    BY <1>3, <1>8, <2>4 DEF NoncesSound, RInv
  <2>6. LiveNonceSound'
    BY <1>3, <2>1, <2>4 DEF LiveNonceSound
  <2> QED
    BY <2>2, <2>3, <2>5, <2>6 DEF RInv
<1> QED
  BY <1>6, <1>7, <1>8

\* commit(): the nonce is new, and it is the attempt's first.
LEMMA CommitStep ==
    ASSUME RInv, DoCommit
    PROVE  RInv'
<1>1. PICK a \in Attempts \cup {Foreign}, bytes \in Reservations,
           n \in {m \in Nonces : \A s \in sampled : s[2] # m} :
        LET r == Commit(registry, a, bytes, n) IN
        /\ registry' = r.reg
        /\ sampled' = IF r.reg.live # None /\ r.reg.live # registry.live
                      THEN sampled \cup {<<a, n>>} ELSE sampled
        /\ UNCHANGED <<disclosed, answers>>
  BY DEF DoCommit
<1>2. registry \in Registry /\ n \in Nonces /\ \A s \in sampled : s[2] # n
  BY <1>1 DEF RInv, TypesSound
<1>3. /\ registry' = Commit(registry, a, bytes, n).reg
      /\ disclosed' = disclosed /\ answers' = answers
      /\ sampled' = IF registry'.live # None /\ registry'.live # registry.live
                    THEN sampled \cup {<<a, n>>} ELSE sampled
  BY <1>1
<1>4. Successor(registry, registry')
  BY <1>2, <1>3, CommitSuccessor DEF RInv
<1>5. /\ disclosed' \subseteq sampled
      /\ answers' \in [Attempts -> Nat]
  BY <1>3 DEF RInv, NoncesSound, TypesSound
<1> DEFINE live == [registry.live EXCEPT !.commit = n]
<1>6. \/ Settles(registry, registry')
      \/ /\ Extends(registry, registry', live)
         /\ registry.live.commit = None
         /\ registry.live.attempt = a
  BY <1>2, <1>3, CommitShape
<1>7. CASE Settles(registry, registry')
  <2>1. sampled' = sampled
    BY <1>3, <1>7 DEF Settles
  <2> QED
    BY <1>4, <1>5, <1>7, <2>1, SettlesRekeys, RekeyStep
<1>8. CASE /\ Extends(registry, registry', live)
           /\ registry.live.commit = None
           /\ registry.live.attempt = a
           /\ sampled' = sampled
  <2>1. registry'.live = None \/ registry'.live = registry.live
    <3>1. CASE sampled = sampled \cup {<<a, n>>}
      <4>1. <<a, n>> \in sampled /\ <<a, n>>[2] = n
        BY <3>1
      <4> QED
        BY <1>2, <4>1
    <3>2. CASE sampled # sampled \cup {<<a, n>>}
      BY <1>3, <1>8, <3>2
    <3> QED
      BY <3>1, <3>2
  <2>2. Settles(registry, registry')
    BY <1>8, <2>1 DEF Extends, Settles
  <2> QED
    BY <1>4, <1>5, <1>8, <2>2, SettlesRekeys, RekeyStep
<1>9. CASE /\ Extends(registry, registry', live)
           /\ registry.live.commit = None
           /\ registry.live.attempt = a
           /\ sampled' = sampled \cup {<<a, n>>}
  <2>1. /\ registry.live \in Live /\ registry.live # None
        /\ registry'.live = live
        /\ registry'.material = registry.material
        /\ registry'.next = registry.next
    BY <1>9 DEF Extends
  <2>2. /\ live.attempt = a /\ live.vault = registry.live.vault
        /\ live.bytes = registry.live.bytes
        /\ live.commit = n
        /\ live.reveal = registry.live.reveal
        /\ a \in Nat
    BY <1>9, <2>1 DEF Live
  <2> HIDE DEF live
  <2>3. TypesSound' /\ CounterSound(registry)'
    BY <1>2, <1>3, <1>4, <1>9, <2>2 DEF Successor, RInv, TypesSound
  <2>4. LiveEpochIsInstalled'
    BY <2>1, <2>2 DEF LiveEpochIsInstalled, RInv
  <2>5. /\ a < registry.next
        /\ \A p \in sampled : p[1] # a
    <3>1. LiveAttempt(registry) = a /\ a # None
      BY <1>9, <2>1, <2>2, LeafAssumption DEF LiveAttempt
    <3>2. a + 1 = registry.next
      BY <3>1 DEF RInv, CounterSound
    <3>3. \A p \in sampled : p[1] # a
      BY <1>9, <2>1 DEF RInv, LiveNonceSound
    <3> QED
      BY <2>2, <3>2, <3>3
  <2>6. NoncesSound'
    <3>1. \A p, q \in sampled' : p[1] = q[1] <=> p[2] = q[2]
      BY <1>2, <1>9, <2>5 DEF NoncesSound, RInv
    <3>2. \A p \in sampled' : p[1] < registry'.next
      BY <1>9, <2>1, <2>5 DEF NoncesSound, RInv
    <3>3. disclosed' \subseteq sampled'
      BY <1>5, <1>9
    <3> QED
      BY <3>1, <3>2, <3>3 DEF NoncesSound
  <2>7. registry.live.reveal = None
    BY <1>9, <2>1 DEF RInv, LiveNonceSound
  <2>8. LiveNonceSound'
    <3>1. <<a, n>> \in sampled'
      BY <1>9
    <3>2. live.commit # None
      BY <1>2, <2>2, LeafRegistryAssumption
    <3> QED
      BY <2>1, <2>2, <2>7, <3>1, <3>2 DEF LiveNonceSound
  <2> QED
    BY <2>3, <2>4, <2>6, <2>8 DEF RInv
<1> QED
  BY <1>3, <1>6, <1>7, <1>8, <1>9

\* reveal(): what is disclosed is the nonce drawn for the attempt.
LEMMA RevealStep ==
    ASSUME RInv, DoReveal
    PROVE  RInv'
<1>1. PICK a \in Attempts \cup {Foreign}, view \in Views :
        LET r == Reveal(registry, a, view) IN
        /\ registry' = r.reg
        /\ disclosed' = IF r.out = "Ok"
                        THEN disclosed \cup {<<a, r.reg.live.reveal.own>>}
                        ELSE disclosed
        /\ UNCHANGED <<sampled, answers>>
  BY DEF DoReveal
<1> DEFINE r == Reveal(registry, a, view)
           live == [registry.live EXCEPT !.reveal = view]
<1>2. registry \in Registry /\ view \in View \cup {None}
  BY LeafRegistryAssumption DEF RInv, TypesSound, Views, View, Attempts
<1>3. /\ registry' = r.reg
      /\ sampled' = sampled /\ answers' = answers
      /\ disclosed' = IF r.out = "Ok"
                      THEN disclosed \cup {<<a, registry'.live.reveal.own>>}
                      ELSE disclosed
  BY <1>1
<1>4. Successor(registry, registry')
  BY <1>2, <1>3, RevealSuccessor DEF RInv
<1>5. /\ \/ Settles(registry, registry')
         \/ /\ Extends(registry, registry', live)
            /\ registry.live.commit # None
            /\ view.own = registry.live.commit
      /\ r.out = "Ok" =>
           /\ registry.live # None
           /\ registry.live \in Live
           /\ registry.live.attempt = a
           /\ \/ registry' = registry /\ registry.live.reveal # None
              \/ /\ registry'.live = live
                 /\ registry.live.commit # None
                 /\ view.own = registry.live.commit
  BY <1>2, <1>3, RevealShape
<1> HIDE DEF r
<1>6. ASSUME registry.live \in Live
      PROVE  /\ live.attempt = registry.live.attempt
             /\ live.vault = registry.live.vault
             /\ live.bytes = registry.live.bytes
             /\ live.commit = registry.live.commit
             /\ live.reveal = view
  BY <1>6 DEF Live
<1> HIDE DEF live
<1>7. disclosed' \subseteq sampled
  <2>1. disclosed \subseteq sampled
    BY DEF RInv, NoncesSound
  <2>2. CASE r.out = "Ok"
    <3>1. /\ registry'.live.reveal.own = registry.live.commit
          /\ registry.live.commit # None
      BY <1>5, <1>6, <2>2 DEF RInv, LiveNonceSound
    <3>2. <<a, registry.live.commit>> \in sampled
      BY <1>5, <2>2, <3>1 DEF RInv, LiveNonceSound
    <3> QED
      BY <1>3, <2>1, <2>2, <3>1, <3>2
  <2> QED
    BY <1>3, <2>1, <2>2
<1>8. answers' \in [Attempts -> Nat]
  BY <1>3 DEF RInv, TypesSound
<1>9. CASE Settles(registry, registry')
  BY <1>3, <1>4, <1>7, <1>8, <1>9, SettlesRekeys, RekeyStep
<1>10. CASE /\ Extends(registry, registry', live)
            /\ registry.live.commit # None
            /\ view.own = registry.live.commit
  <2>1. /\ registry.live \in Live /\ registry.live # None
        /\ registry'.live = live
        /\ registry'.material = registry.material
        /\ registry'.next = registry.next
    BY <1>10 DEF Extends
  <2>2. TypesSound' /\ CounterSound(registry)'
    BY <1>3, <1>4, <1>7, <1>8 DEF Successor, RInv, TypesSound
  <2>3. LiveEpochIsInstalled'
    BY <1>6, <2>1 DEF LiveEpochIsInstalled, RInv
  <2>4. NoncesSound'
    BY <1>3, <1>7, <2>1 DEF NoncesSound, RInv
  <2>5. LiveNonceSound'
    BY <1>3, <1>6, <1>10, <2>1 DEF LiveNonceSound, RInv
  <2> QED
    BY <2>2, <2>3, <2>4, <2>5 DEF RInv
<1> QED
  BY <1>5, <1>9, <1>10

\* fix(): the opening view changes no nonce.
LEMMA FixStep ==
    ASSUME RInv, DoFix
    PROVE  RInv'
<1>1. PICK a \in Attempts \cup {Foreign}, view \in Views :
        Silent(Fix(registry, a, view))
  BY DEF DoFix
<1> DEFINE live == [registry.live EXCEPT !.fixed = view]
<1>2. registry \in Registry /\ view \in View \cup {None}
  BY LeafRegistryAssumption DEF RInv, TypesSound, Views, View, Attempts
<1>3. /\ registry' = Fix(registry, a, view).reg
      /\ UNCHANGED <<sampled, disclosed, answers>>
  BY <1>1 DEF Silent
<1>4. Successor(registry, registry')
  BY <1>2, <1>3, FixSuccessor DEF RInv
<1>5. /\ disclosed' \subseteq sampled
      /\ answers' \in [Attempts -> Nat]
  BY <1>3 DEF RInv, NoncesSound, TypesSound
<1>6. Settles(registry, registry') \/ Extends(registry, registry', live)
  BY <1>2, <1>3, FixShape
<1>7. CASE Settles(registry, registry')
  BY <1>3, <1>4, <1>5, <1>7, SettlesRekeys, RekeyStep
<1>8. CASE Extends(registry, registry', live)
  <2>1. /\ registry.live \in Live /\ registry.live # None
        /\ registry'.live = live
        /\ registry'.material = registry.material
        /\ registry'.next = registry.next
    BY <1>8 DEF Extends
  <2>2. /\ live.attempt = registry.live.attempt
        /\ live.vault = registry.live.vault
        /\ live.bytes = registry.live.bytes
        /\ live.commit = registry.live.commit
        /\ live.reveal = registry.live.reveal
    BY <2>1 DEF Live
  <2> HIDE DEF live
  <2>3. TypesSound' /\ CounterSound(registry)'
    BY <1>3, <1>4, <1>5 DEF Successor, RInv, TypesSound
  <2>4. LiveEpochIsInstalled'
    BY <2>1, <2>2 DEF LiveEpochIsInstalled, RInv
  <2>5. NoncesSound'
    BY <1>3, <2>1 DEF NoncesSound, RInv
  <2>6. LiveNonceSound'
    BY <1>3, <2>1, <2>2 DEF LiveNonceSound, RInv
  <2> QED
    BY <2>3, <2>4, <2>5, <2>6 DEF RInv
<1> QED
  BY <1>6, <1>7, <1>8

\* respond(): the record is dropped, whatever the answer is.
LEMMA RespondStep ==
    ASSUME RInv, DoRespond
    PROVE  RInv'
<1>1. PICK a \in Attempts \cup {Foreign}, package \in Packages :
        LET r == Respond(registry, a, package) IN
        /\ registry' = r.reg
        /\ answers' = IF r.out = "Ok" THEN [answers EXCEPT ![a] = @ + 1]
                      ELSE answers
        /\ UNCHANGED <<sampled, disclosed>>
  BY DEF DoRespond
<1>2. registry \in Registry
  BY DEF RInv, TypesSound
<1>3. /\ registry' = Respond(registry, a, package).reg
      /\ sampled' = sampled /\ disclosed' = disclosed
      /\ answers' \in {answers, [answers EXCEPT ![a] = @ + 1]}
  BY <1>1
<1>4. Successor(registry, registry')
  BY <1>2, <1>3, RespondSuccessor DEF RInv
<1>5. Rekeys(registry, registry')
  BY <1>2, <1>3, RespondShape, SettlesRekeys
<1>6. answers' \in [Attempts -> Nat]
  BY <1>3 DEF RInv, TypesSound
<1>7. disclosed' \subseteq sampled
  BY <1>3 DEF RInv, NoncesSound
<1> QED
  BY <1>3, <1>4, <1>5, <1>6, <1>7, RekeyStep

\* What an operation that returns nothing secret leaves behind.
LEMMA SilentStep ==
    ASSUME RInv, NEW r, Silent(r),
           Successor(registry, r.reg), Rekeys(registry, r.reg)
    PROVE  RInv'
<1>1. /\ registry' = r.reg /\ sampled' = sampled
      /\ disclosed' \subseteq sampled /\ answers' \in [Attempts -> Nat]
  BY DEF Silent, RInv, NoncesSound, TypesSound
<1>2. Successor(registry, registry') /\ Rekeys(registry, registry')
  BY <1>1
<1> QED
  BY <1>1, <1>2, RekeyStep

\* The three ways to close an attempt, and the three changes of material.
ClosesOrRekeys ==
    \/ DoClose
    \/ DoReceiveAbort
    \/ DoCloseExpired
    \/ DoAddVault
    \/ DoActivateInner
    \/ DoActivateOuter

\* They are silent steps that keep or drop the live record.
LEMMA ClosesOrRekeysIs ==
    ASSUME RInv, ClosesOrRekeys
    PROVE  \E r : /\ Silent(r)
                  /\ Successor(registry, r.reg)
                  /\ Rekeys(registry, r.reg)
<1>1. registry \in Registry /\ CounterSound(registry)
  BY DEF RInv, TypesSound
<1>2. CASE DoClose
  <2>1. PICK a : Silent(Close(registry, a))
    BY <1>2 DEF DoClose
  <2> QED
    BY <1>1, <2>1, CloseSuccessor, ClosingShape, SettlesRekeys
<1>3. CASE DoReceiveAbort
  <2>1. PICK abort : Silent(ReceiveAbort(registry, abort))
    BY <1>3 DEF DoReceiveAbort
  <2> QED
    BY <1>1, <2>1, ReceiveAbortSuccessor, ClosingShape, SettlesRekeys
<1>4. CASE DoCloseExpired
  <2>1. PICK now : Silent(CloseExpired(registry, now))
    BY <1>4 DEF DoCloseExpired
  <2> QED
    BY <1>1, <2>1, CloseExpiredSuccessor, ClosingShape, SettlesRekeys
<1>5. CASE DoAddVault
  <2>1. PICK genesis \in Genesis : Silent(AddVault(registry, genesis))
    BY <1>5, LeafRegistryAssumption DEF DoAddVault
  <2> QED
    BY <1>1, <2>1, AddVaultSuccessor, AddVaultShape
<1>6. CASE DoActivateInner
  <2>1. PICK bundle : /\ IsInnerBundle(bundle)
                      /\ Silent(ActivateInnerBundle(registry, bundle))
    BY <1>6, LeafRegistryAssumption DEF DoActivateInner
  <2> QED
    BY <1>1, <2>1, ActivateInnerSuccessor, ActivateInnerShape
<1>7. CASE DoActivateOuter
  <2>1. PICK block \in OuterBlock : Silent(ActivateOuter(registry, block))
    BY <1>7, LeafRegistryAssumption DEF DoActivateOuter
  <2> QED
    BY <1>1, <2>1, ActivateOuterSuccessor, ActivateOuterShape
<1> QED
  BY <1>2, <1>3, <1>4, <1>5, <1>6, <1>7 DEF ClosesOrRekeys

-----------------------------------------------------------------------------
(* The theorems *)

LEMMA InitRInv == Init => RInv
<1> SUFFICES ASSUME Init PROVE RInv
  OBVIOUS
<1>1. /\ registry = NewRegistry(Genesis0)
      /\ sampled = {} /\ disclosed = {}
      /\ answers = [a \in Attempts |-> 0]
  BY DEF Init
<1>2. registry \in Registry /\ registry.live = None /\ registry.next = 0
  BY <1>1, LeafRegistryAssumption DEF NewRegistry, Registry
<1>3. TypesSound
  BY <1>1, <1>2 DEF TypesSound
<1>4. CounterSound(registry)
  BY <1>2, LeafAssumption DEF CounterSound, LiveAttempt
<1>5. LiveEpochIsInstalled /\ LiveNonceSound
  BY <1>2 DEF LiveEpochIsInstalled, LiveNonceSound
<1>6. NoncesSound
  BY <1>1 DEF NoncesSound
<1> QED
  BY <1>3, <1>4, <1>5, <1>6 DEF RInv

LEMMA NextRInv ==
    ASSUME RInv, [Next]_vars
    PROVE  RInv'
<1>1. CASE ClosesOrRekeys
  BY <1>1, ClosesOrRekeysIs, SilentStep
<1>2. CASE UNCHANGED vars
  <2>1. /\ registry' = registry /\ sampled' = sampled
        /\ disclosed' = disclosed /\ answers' = answers
    BY <1>2 DEF vars
  <2> QED
    BY <2>1 DEF RInv, TypesSound, CounterSound, LiveAttempt,
        LiveEpochIsInstalled, NoncesSound, LiveNonceSound
<1> QED
  BY <1>1, <1>2, ReserveStep, CommitStep, RevealStep, FixStep, RespondStep
     DEF Next, ClosesOrRekeys

\* The inductive invariant holds in every behaviour: the registry, its live
\* attempt and the nonces drawn so far stay consistent under any sequence of
\* calls.
THEOREM RegistryInvariance == Spec => []RInv
<1> QED
  BY InitRInv, NextRInv, PTL DEF Spec

\* The live attempt is always under the epoch its vault has installed: no
\* activate_outer(), activate_inner_bundle() or add_vault() leaves a live
\* attempt behind that was reserved under another epoch.
THEOREM LiveEpochInstalled == Spec => []LiveEpochIsInstalled
<1>1. RInv => LiveEpochIsInstalled
  BY DEF RInv
<1> QED
  BY <1>1, RegistryInvariance, PTL

\* reveal() never discloses a second nonce pair for an attempt, nor one pair
\* for two attempts, however calls are replayed and altered.
THEOREM OneNonce == Spec => []OneNoncePerAttempt
<1>1. RInv => OneNoncePerAttempt
  BY DEF RInv, NoncesSound, OneNoncePerAttempt
<1> QED
  BY <1>1, RegistryInvariance, PTL

-----------------------------------------------------------------------------
(* What an attempt has fixed stays fixed *)

Frozen(old, new) ==
    (old.live # None /\ new.live # None) =>
        /\ new.live.attempt = old.live.attempt
        /\ new.live.bytes = old.live.bytes
        /\ new.live.binding = old.live.binding
        /\ \A f \in {"commit", "reveal", "fixed"} :
             old.live[f] # None => new.live[f] = old.live[f]

\* Keeping or dropping the record freezes it.
LEMMA RekeysFrozen ==
    ASSUME NEW old, NEW new, Rekeys(old, new)
    PROVE  Frozen(old, new)
BY DEF Rekeys, Frozen

\* Writing a field that was empty leaves the others alone.
LEMMA ExtendsFrozen ==
    ASSUME NEW old, NEW new, NEW value, NEW f \in {"commit", "reveal", "fixed"},
           Extends(old, new, [old.live EXCEPT ![f] = value]),
           old.live[f] = None
    PROVE  Frozen(old, new)
<1>1. old.live \in Live /\ new.live = [old.live EXCEPT ![f] = value]
  BY DEF Extends
<1> QED
  BY <1>1 DEF Frozen, Live

\* Every step freezes the live record.
LEMMA FrozenStep ==
    ASSUME RInv, Next
    PROVE  Frozen(registry, registry')
<1>0. registry \in Registry
  BY DEF RInv, TypesSound
<1>1. CASE DoReserve
  <2>1. PICK s, now, bytes, b :
            registry' = Reserve(registry, s, now, bytes, b).reg
    BY <1>1 DEF DoReserve, Silent
  <2>2. Settles(registry, registry') \/ registry.live = None
    BY <1>0, <2>1, ReserveShape
  <2>3. CASE registry.live = None
    BY <2>3 DEF Frozen
  <2> QED
    BY <2>2, <2>3, SettlesRekeys, RekeysFrozen
<1>2. CASE DoCommit
  <2>1. PICK a, bytes, n : registry' = Commit(registry, a, bytes, n).reg
    BY <1>2 DEF DoCommit
  <2>2. \/ Settles(registry, registry')
        \/ /\ Extends(registry, registry', [registry.live EXCEPT !.commit = n])
           /\ registry.live.commit = None
    BY <1>0, <2>1, CommitShape
  <2> QED
    BY <2>2, SettlesRekeys, RekeysFrozen, ExtendsFrozen
<1>3. CASE DoReveal
  <2>1. PICK a, view : registry' = Reveal(registry, a, view).reg
    BY <1>3 DEF DoReveal
  <2>2. \/ Settles(registry, registry')
        \/ /\ Extends(registry, registry',
                      [registry.live EXCEPT !.reveal = view])
           /\ registry.live.reveal = None
    BY <1>0, <2>1, RevealShape
  <2> QED
    BY <2>2, SettlesRekeys, RekeysFrozen, ExtendsFrozen
<1>4. CASE DoFix
  <2>1. PICK a, view : registry' = Fix(registry, a, view).reg
    BY <1>4 DEF DoFix, Silent
  <2>2. \/ Settles(registry, registry')
        \/ /\ Extends(registry, registry',
                      [registry.live EXCEPT !.fixed = view])
           /\ registry.live.fixed = None
    BY <1>0, <2>1, FixShape
  <2> QED
    BY <2>2, SettlesRekeys, RekeysFrozen, ExtendsFrozen
<1>5. CASE DoRespond
  <2>1. PICK a, package : registry' = Respond(registry, a, package).reg
    BY <1>5 DEF DoRespond
  <2> QED
    BY <1>0, <2>1, RespondShape, SettlesRekeys, RekeysFrozen
<1>6. CASE ClosesOrRekeys
  BY <1>6, ClosesOrRekeysIs, RekeysFrozen DEF Silent
<1> QED
  BY <1>1, <1>2, <1>3, <1>4, <1>5, <1>6 DEF Next, ClosesOrRekeys

\* The reservation, binding, nonce and views of a live attempt never change
\* once fixed: commit(), reveal() and fix() write a field once, and an
\* altered replay closes the attempt.
THEOREM ViewsFrozen == Spec => FrozenViews
<1>1. ASSUME RInv, [Next]_vars
      PROVE  [(registry.live # None /\ registry'.live # None) =>
                /\ registry'.live.attempt = registry.live.attempt
                /\ registry'.live.bytes = registry.live.bytes
                /\ registry'.live.binding = registry.live.binding
                /\ \A f \in {"commit", "reveal", "fixed"} :
                     registry.live[f] # None =>
                        registry'.live[f] = registry.live[f]]_vars
  <2>1. CASE Next
    BY <2>1, <1>1, FrozenStep DEF Frozen
  <2>2. CASE UNCHANGED vars
    BY <2>2
  <2> QED
    BY <1>1, <2>1, <2>2
<1> QED
  BY <1>1, RegistryInvariance, PTL DEF Spec, FrozenViews

-----------------------------------------------------------------------------
(* Refinement *)

\* A step that answers nothing keeps, closes or issues the open attempt.
LEMMA UnansweredStep ==
    ASSUME Successor(registry, registry'), answers' = answers
    PROVE  [Authority!Next]_(Authority!vars)
<1>1. CASE /\ registry'.next = registry.next
           /\ LiveAttempt(registry') = LiveAttempt(registry)
  BY <1>1 DEF Authority!vars
<1>2. CASE /\ registry'.next = registry.next
           /\ LiveAttempt(registry') = None
           /\ LiveAttempt(registry) # None
  BY <1>2 DEF Authority!Next, Authority!Close
<1>3. CASE /\ LiveAttempt(registry) = None
           /\ LiveAttempt(registry') = registry.next
           /\ registry'.next = registry.next + 1
  BY <1>3 DEF Authority!Next, Authority!Issue
<1> QED
  BY <1>1, <1>2, <1>3 DEF Successor, CounterStep

\* The registry issues attempts in order, one at a time, and answers each at
\* most once, in the step that closes it.
THEOREM RegistryRefinement == Spec => ImplementsAuthority
<1>1. Init => Authority!Init
  BY DEF Init, Authority!Init, NewRegistry, LiveAttempt
<1>2. ASSUME RInv, [Next]_vars
      PROVE  [Authority!Next]_(Authority!vars)
  <2>0. registry \in Registry /\ CounterSound(registry)
    BY <1>2 DEF RInv, TypesSound
  <2>1. CASE DoReserve
    <3>1. PICK s \in Sessions, now \in Times, bytes \in Reservations,
               b \in Binding :
            Silent(Reserve(registry, s, now, bytes, b))
      BY <2>1 DEF DoReserve
    <3>2. now \in Nat /\ bytes \in Reservation
      BY LeafRegistryAssumption
    <3>3. Successor(registry, registry') /\ answers' = answers
      BY <2>0, <3>1, <3>2, ReserveSuccessor DEF Silent
    <3> QED
      BY <3>3, UnansweredStep
  <2>2. CASE DoCommit
    <3>1. PICK a \in Attempts \cup {Foreign}, bytes \in Reservations,
               n \in Nonces :
            registry' = Commit(registry, a, bytes, n).reg
      BY <2>2 DEF DoCommit
    <3>2. Successor(registry, registry') /\ answers' = answers
      BY <2>0, <2>2, <3>1, CommitSuccessor DEF DoCommit
    <3> QED
      BY <3>2, UnansweredStep
  <2>3. CASE DoReveal
    <3>1. PICK a \in Attempts \cup {Foreign}, view \in Views :
            registry' = Reveal(registry, a, view).reg
      BY <2>3 DEF DoReveal
    <3>2. view \in View \cup {None}
      BY LeafRegistryAssumption DEF Views, View, Attempts
    <3>3. Successor(registry, registry') /\ answers' = answers
      BY <2>0, <2>3, <3>1, <3>2, RevealSuccessor DEF DoReveal
    <3> QED
      BY <3>3, UnansweredStep
  <2>4. CASE DoFix
    <3>1. PICK a \in Attempts \cup {Foreign}, view \in Views :
            Silent(Fix(registry, a, view))
      BY <2>4 DEF DoFix
    <3>2. view \in View \cup {None}
      BY LeafRegistryAssumption DEF Views, View, Attempts
    <3>3. Successor(registry, registry') /\ answers' = answers
      BY <2>0, <3>1, <3>2, FixSuccessor DEF Silent
    <3> QED
      BY <3>3, UnansweredStep
  <2>5. CASE DoRespond
    <3>1. PICK a, package :
            LET r == Respond(registry, a, package) IN
            /\ registry' = r.reg
            /\ answers' = IF r.out = "Ok" THEN [answers EXCEPT ![a] = @ + 1]
                          ELSE answers
      BY <2>5 DEF DoRespond
    <3> DEFINE r == Respond(registry, a, package)
    <3>2. Successor(registry, registry')
      BY <2>0, <3>1, RespondSuccessor
    <3>3. CASE r.out # "Ok"
      BY <3>1, <3>2, <3>3, UnansweredStep
    <3>4. CASE r.out = "Ok"
      <4>1. /\ registry.live # None /\ registry.live.attempt = a
            /\ registry'.live = None
        BY <2>0, <3>1, <3>4, RespondShape
      <4>2. LiveAttempt(registry) = a /\ a \in Nat /\ a # None
        BY <2>0, <4>1, LeafAssumption DEF LiveAttempt, Registry, Live
      <4>3. LiveAttempt(registry') = None
        BY <4>1 DEF LiveAttempt
      <4>4. registry'.next = registry.next
        BY <2>0, <3>1, RespondShape DEF Settles
      <4>5. answers' = [answers EXCEPT ![a] = @ + 1]
        BY <3>1, <3>4
      <4> QED
        BY <4>2, <4>3, <4>4, <4>5 DEF Authority!Next, Authority!Answer
    <3> QED
      BY <3>3, <3>4
  <2>6. CASE ClosesOrRekeys
    <3>1. PICK r : Silent(r) /\ Successor(registry, r.reg)
      BY <1>2, <2>6, ClosesOrRekeysIs
    <3>2. Successor(registry, registry') /\ answers' = answers
      BY <3>1 DEF Silent
    <3> QED
      BY <3>2, UnansweredStep
  <2>7. CASE UNCHANGED vars
    BY <2>7 DEF vars, Authority!vars, LiveAttempt
  <2> QED
    BY <1>2, <2>1, <2>2, <2>3, <2>4, <2>5, <2>6, <2>7
       DEF Next, ClosesOrRekeys
<1> QED
  BY <1>1, <1>2, RegistryInvariance, PTL
     DEF Spec, ImplementsAuthority, Authority!Spec

=============================================================================
