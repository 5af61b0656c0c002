----------------------------- MODULE LeafProofs -----------------------------
(***************************************************************************)
(* What every operation of a leaf registry does to it, for every registry  *)
(* and every input: the result is a registry again, its attempt counter    *)
(* and live attempt make at most one step, and the live record is kept,    *)
(* dropped, fresh or extended in one field.                                *)
(***************************************************************************)
EXTENDS Leaf, TLAPS

\* The live attempt is the last one issued, and the counter is in range.
CounterSound(reg) ==
    /\ reg.next <= MaxSequence
    /\ LiveAttempt(reg) # None => LiveAttempt(reg) + 1 = reg.next

\* An operation closes the live attempt, keeps it, or issues the next one.
CounterStep(old, new) ==
    \/ new.next = old.next /\ LiveAttempt(new) \in {LiveAttempt(old), None}
    \/ /\ LiveAttempt(old) = None
       /\ LiveAttempt(new) = old.next
       /\ new.next = old.next + 1

\* A well-formed successor of a registry.
Successor(old, new) ==
    /\ new \in Registry
    /\ CounterSound(new)
    /\ CounterStep(old, new)

-----------------------------------------------------------------------------
\* Dropping the live record (fail(), close_live()) is a sound step.
LEMMA ClosedSuccessor ==
    ASSUME NEW reg \in Registry, CounterSound(reg), NEW out
    PROVE  Successor(reg, Closed(reg, out).reg)
BY LeafAssumption
   DEF Successor, CounterSound, CounterStep, Closed, LiveAttempt, Registry

\* Returning without a change is a sound step.
LEMMA KeptSuccessor ==
    ASSUME NEW reg \in Registry, CounterSound(reg), NEW out
    PROVE  Successor(reg, Kept(reg, out).reg)
BY DEF Successor, CounterSound, CounterStep, Kept

\* Extending the live record with the same attempt is a sound step.
LEMMA AdvancedSuccessor ==
    ASSUME NEW reg \in Registry, CounterSound(reg),
           reg.live # None,
           NEW live \in Live, live.attempt = reg.live.attempt
    PROVE  Successor(reg, Advanced(reg, live).reg)
BY LeafAssumption
   DEF Successor, CounterSound, CounterStep, Advanced, LiveAttempt, Registry

\* Issuing the next attempt while none is live is a sound step.
LEMMA IssuedSuccessor ==
    ASSUME NEW reg \in Registry, CounterSound(reg),
           reg.live = None, reg.next # MaxSequence,
           NEW live \in Live, live.attempt = reg.next
    PROVE  Successor(reg, [material |-> reg.material, live |-> live,
                           next |-> reg.next + 1])
<1> DEFINE new == [material |-> reg.material, live |-> live,
                   next |-> reg.next + 1]
<1>1. new \in Registry /\ new.live = live /\ new.next = reg.next + 1
  BY DEF Registry
<1>2. reg.next \in Nat /\ reg.next + 1 <= MaxSequence
  BY LeafAssumption DEF CounterSound, Registry
<1>3. LiveAttempt(reg) = None /\ LiveAttempt(new) = reg.next
  BY <1>1, LeafAssumption DEF LiveAttempt
<1> QED
  BY <1>1, <1>2, <1>3 DEF Successor, CounterSound, CounterStep

\* take_live() lets an operation continue only when an attempt is live.
LEMMA TakeLiveOk ==
    ASSUME NEW reg \in Registry, NEW attempt, TakeLive(reg, attempt) = "Ok"
    PROVE  reg.live # None /\ reg.live \in Live
BY DEF TakeLive, Registry

-----------------------------------------------------------------------------
(* One lemma per operation *)

\* reserve(): at most issues the next attempt, never over a live one, and
\* never beyond the counter's range.
LEMMA ReserveSuccessor ==
    ASSUME NEW reg \in Registry, CounterSound(reg),
           NEW session \in Sessions, NEW now \in Nat,
           NEW bytes \in Reservation, NEW binding \in Binding
    PROVE  Successor(reg, Reserve(reg, session, now, bytes, binding).reg)
<1> DEFINE live == [attempt |-> reg.next, session |-> session,
                    vault |-> bytes.epoch.vault,
                    expiry |-> bytes.expiry, bytes |-> bytes,
                    binding |-> binding, commit |-> None,
                    reveal |-> None, fixed |-> None]
           new == [material |-> reg.material, live |-> live,
                   next |-> reg.next + 1]
<1>1. \/ \E out : Reserve(reg, session, now, bytes, binding) = Kept(reg, out)
      \/ \E out : Reserve(reg, session, now, bytes, binding) = Closed(reg, out)
      \/ /\ reg.live = None
         /\ reg.next # MaxSequence
         /\ Reserve(reg, session, now, bytes, binding).reg = new
  BY DEF Reserve, ReserveIdle, NewLive, IssueAttempt
<1>2. CASE \E out : Reserve(reg, session, now, bytes, binding) = Kept(reg, out)
  BY <1>2, KeptSuccessor
<1>3. CASE \E out : Reserve(reg, session, now, bytes, binding)
                        = Closed(reg, out)
  BY <1>3, ClosedSuccessor
<1>4. ASSUME reg.live = None, reg.next # MaxSequence
      PROVE  Successor(reg, new)
  <2>1. live \in Live /\ live.attempt = reg.next
    BY DEF Live, Reservation, KeyEpoch, Registry
  <2> HIDE DEF live
  <2> QED
    BY <1>4, <2>1, IssuedSuccessor
<1> QED
  BY <1>1, <1>2, <1>3, <1>4

\* commit() stays within the attempt or closes it.
LEMMA CommitSuccessor ==
    ASSUME NEW reg \in Registry, CounterSound(reg),
           NEW attempt, NEW bytes, NEW nonce \in Nonces
    PROVE  Successor(reg, Commit(reg, attempt, bytes, nonce).reg)
<1> DEFINE live == [reg.live EXCEPT !.commit = nonce]
<1>1. \/ \E out : Commit(reg, attempt, bytes, nonce) = Kept(reg, out)
      \/ \E out : Commit(reg, attempt, bytes, nonce) = Closed(reg, out)
      \/ /\ TakeLive(reg, attempt) = "Ok"
         /\ Commit(reg, attempt, bytes, nonce) = Advanced(reg, live)
  BY DEF Commit
<1>2. ASSUME TakeLive(reg, attempt) = "Ok"
      PROVE  Successor(reg, Advanced(reg, live).reg)
  <2>1. reg.live # None /\ reg.live \in Live
    BY <1>2, TakeLiveOk
  <2>2. live \in Live /\ live.attempt = reg.live.attempt
    BY <2>1 DEF Live
  <2> QED
    BY <2>1, <2>2, AdvancedSuccessor
<1> QED
  BY <1>1, <1>2, KeptSuccessor, ClosedSuccessor

\* reveal() stays within the attempt or closes it.
LEMMA RevealSuccessor ==
    ASSUME NEW reg \in Registry, CounterSound(reg),
           NEW attempt, NEW view \in View \cup {None}
    PROVE  Successor(reg, Reveal(reg, attempt, view).reg)
<1> DEFINE live == [reg.live EXCEPT !.reveal = view]
<1>1. \/ \E out : Reveal(reg, attempt, view) = Kept(reg, out)
      \/ \E out : Reveal(reg, attempt, view) = Closed(reg, out)
      \/ /\ TakeLive(reg, attempt) = "Ok"
         /\ Reveal(reg, attempt, view) = Advanced(reg, live)
  BY DEF Reveal
<1>2. ASSUME TakeLive(reg, attempt) = "Ok"
      PROVE  Successor(reg, Advanced(reg, live).reg)
  <2>1. reg.live # None /\ reg.live \in Live
    BY <1>2, TakeLiveOk
  <2>2. live \in Live /\ live.attempt = reg.live.attempt
    BY <2>1 DEF Live
  <2> QED
    BY <2>1, <2>2, AdvancedSuccessor
<1> QED
  BY <1>1, <1>2, KeptSuccessor, ClosedSuccessor

\* fix() stays within the attempt or closes it.
LEMMA FixSuccessor ==
    ASSUME NEW reg \in Registry, CounterSound(reg),
           NEW attempt, NEW view \in View \cup {None}
    PROVE  Successor(reg, Fix(reg, attempt, view).reg)
<1> DEFINE live == [reg.live EXCEPT !.fixed = view]
<1>1. \/ \E out : Fix(reg, attempt, view) = Kept(reg, out)
      \/ \E out : Fix(reg, attempt, view) = Closed(reg, out)
      \/ /\ TakeLive(reg, attempt) = "Ok"
         /\ Fix(reg, attempt, view) = Advanced(reg, live)
  BY DEF Fix
<1>2. ASSUME TakeLive(reg, attempt) = "Ok"
      PROVE  Successor(reg, Advanced(reg, live).reg)
  <2>1. reg.live # None /\ reg.live \in Live
    BY <1>2, TakeLiveOk
  <2>2. live \in Live /\ live.attempt = reg.live.attempt
    BY <2>1 DEF Live
  <2> QED
    BY <2>1, <2>2, AdvancedSuccessor
<1> QED
  BY <1>1, <1>2, KeptSuccessor, ClosedSuccessor

\* respond() closes the attempt it answers, whatever the answer is.
LEMMA RespondSuccessor ==
    ASSUME NEW reg \in Registry, CounterSound(reg),
           NEW attempt, NEW package
    PROVE  /\ Successor(reg, Respond(reg, attempt, package).reg)
           /\ Respond(reg, attempt, package).out = "Ok" =>
                /\ reg.live # None
                /\ Respond(reg, attempt, package).reg.live = None
<1>1. \/ /\ TakeLive(reg, attempt) # "Ok"
         /\ Respond(reg, attempt, package)
                = Kept(reg, TakeLive(reg, attempt))
      \/ /\ TakeLive(reg, attempt) = "Ok"
         /\ Respond(reg, attempt, package)
                = Closed(reg, ResponseTo(reg, package))
  BY DEF Respond
<1>2. CASE /\ TakeLive(reg, attempt) # "Ok"
           /\ Respond(reg, attempt, package)
                = Kept(reg, TakeLive(reg, attempt))
  <2>1. Respond(reg, attempt, package).out # "Ok"
    BY <1>2 DEF Kept
  <2> QED
    BY <1>2, <2>1, KeptSuccessor
<1>3. CASE /\ TakeLive(reg, attempt) = "Ok"
           /\ Respond(reg, attempt, package)
                = Closed(reg, ResponseTo(reg, package))
  <2>1. reg.live # None
    BY <1>3, TakeLiveOk
  <2>2. Respond(reg, attempt, package).reg.live = None
    BY <1>3 DEF Closed, Registry
  <2> QED
    BY <1>3, <2>1, <2>2, ClosedSuccessor
<1> QED
  BY <1>1, <1>2, <1>3

\* close(), receive_abort() and close_expired() only ever close.
LEMMA CloseSuccessor ==
    ASSUME NEW reg \in Registry, CounterSound(reg), NEW attempt
    PROVE  Successor(reg, Close(reg, attempt).reg)
BY KeptSuccessor, ClosedSuccessor DEF Close

\* receive_abort() closes at most the live attempt.
LEMMA ReceiveAbortSuccessor ==
    ASSUME NEW reg \in Registry, CounterSound(reg), NEW abort
    PROVE  Successor(reg, ReceiveAbort(reg, abort).reg)
BY KeptSuccessor, ClosedSuccessor DEF ReceiveAbort

\* close_expired() closes at most the live attempt.
LEMMA CloseExpiredSuccessor ==
    ASSUME NEW reg \in Registry, CounterSound(reg), NEW now
    PROVE  Successor(reg, CloseExpired(reg, now).reg)
BY KeptSuccessor, ClosedSuccessor DEF CloseExpired

-----------------------------------------------------------------------------
(* Changes of material *)

\* Installing material keeps the counter, and the live attempt or closes it.
LEMMA RekeyedSuccessor ==
    ASSUME NEW reg \in Registry, CounterSound(reg),
           NEW live \in {reg.live, None}, NEW material \in Material
    PROVE  /\ Successor(reg, Rekeyed(reg, live, material).reg)
           /\ Rekeyed(reg, live, material).reg.material = material
BY LeafAssumption
   DEF Successor, CounterSound, CounterStep, Rekeyed, LiveAttempt, Registry

\* Replacing one vault's state yields material.
LEMMA WithVaultType ==
    ASSUME NEW material \in Material, NEW v \in Vaults,
           NEW state \in VaultState
    PROVE  WithVault(material, v, state) \in Material
BY DEF WithVault, Material

\* add_vault() issues and closes nothing.
LEMMA AddVaultSuccessor ==
    ASSUME NEW reg \in Registry, CounterSound(reg), NEW genesis \in Genesis
    PROVE  Successor(reg, AddVault(reg, genesis).reg)
<1> DEFINE epoch == genesis.epoch
           state == [outer |-> epoch.outer, member |-> epoch.member,
                     point |-> genesis.point]
           material == WithVault(reg.material, epoch.vault, state)
<1>1. \/ \E out : AddVault(reg, genesis) = Kept(reg, out)
      \/ AddVault(reg, genesis) = Rekeyed(reg, reg.live, material)
  BY DEF AddVault
<1>2. material \in Material
  <2>1. reg.material \in Material /\ epoch.vault \in Vaults
    BY DEF Registry, Genesis, KeyEpoch
  <2>2. state \in VaultState
    BY DEF VaultState, Genesis, KeyEpoch
  <2> QED
    BY <2>1, <2>2, WithVaultType
<1> HIDE DEF material
<1> QED
  BY <1>1, <1>2, KeptSuccessor, RekeyedSuccessor

\* activate_outer() issues nothing, and closes at most the live attempt.
LEMMA ActivateOuterSuccessor ==
    ASSUME NEW reg \in Registry, CounterSound(reg), NEW block \in OuterBlock
    PROVE  Successor(reg, ActivateOuter(reg, block).reg)
<1> DEFINE epoch == block.epoch
           state == [outer |-> epoch.outer, member |-> block.handle,
                     point |-> block.handle]
           material == WithVault(reg.material, epoch.vault, state)
           live == IF reg.live # None /\ reg.live.vault = epoch.vault
                   THEN None ELSE reg.live
<1>1. \/ \E out : ActivateOuter(reg, block) = Kept(reg, out)
      \/ ActivateOuter(reg, block) = Rekeyed(reg, live, material)
  BY DEF ActivateOuter, OuterState
<1>2. material \in Material
  <2>1. reg.material \in Material /\ epoch.vault \in Vaults
    BY DEF Registry, OuterBlock, KeyEpoch
  <2>2. state \in VaultState
    BY DEF VaultState, OuterBlock, KeyEpoch
  <2> QED
    BY <2>1, <2>2, WithVaultType
<1>3. live \in {reg.live, None}
  OBVIOUS
<1> HIDE DEF material, live
<1> QED
  BY <1>1, <1>2, <1>3, KeptSuccessor, RekeyedSuccessor

\* activate_inner_bundle() issues nothing and leaves no attempt live.
LEMMA ActivateInnerSuccessor ==
    ASSUME NEW reg \in Registry, CounterSound(reg),
           NEW bundle, IsInnerBundle(bundle)
    PROVE  Successor(reg, ActivateInnerBundle(reg, bundle).reg)
<1> DEFINE old == reg.material
           vaults == [v \in Vaults |->
                        IF old.vaults[v] = None THEN None
                        ELSE [outer |-> old.vaults[v].outer,
                              member |-> bundle.handle,
                              point |-> old.vaults[v].point]]
           material == [inner |-> NextInner(bundle),
                        identity |-> bundle.handle, vaults |-> vaults]
<1>1. \/ \E out : ActivateInnerBundle(reg, bundle) = Kept(reg, out)
      \/ /\ FitsIdentity(old, bundle)
         /\ ActivateInnerBundle(reg, bundle) = Rekeyed(reg, None, material)
  BY DEF ActivateInnerBundle
<1>2. ASSUME FitsIdentity(old, bundle)
      PROVE  material \in Material
  <2>1. old \in Material
    BY DEF Registry
  <2>2. \A v \in Vaults : old.vaults[v] # None => old.vaults[v] \in VaultState
    BY <2>1 DEF Material
  <2>3. vaults \in [Vaults -> VaultState \cup {None}]
    BY <2>2 DEF VaultState, IsInnerBundle
  <2>4. NextInner(bundle) \in Nat
    <3> DEFINE inners == {bundle.members[v].epoch.inner :
                            v \in DOMAIN bundle.members}
    <3>1. DOMAIN bundle.members # {}
      BY <1>2 DEF FitsIdentity
    <3>2. inners \subseteq Nat
      BY DEF IsInnerBundle, MemberBlock, KeyEpoch
    <3>3. \E n \in inners : TRUE
      BY <3>1
    <3>4. (CHOOSE n \in inners : TRUE) \in inners
      BY <3>3
    <3> QED
      BY <3>2, <3>4 DEF NextInner
  <2> QED
    BY <2>3, <2>4 DEF Material, IsInnerBundle
<1> HIDE DEF material
<1> QED
  BY <1>1, <1>2, KeptSuccessor, RekeyedSuccessor

-----------------------------------------------------------------------------
(* What each operation does to the live record *)

\* The operation keeps or drops the live record and changes nothing else.
Settles(old, new) ==
    /\ new.material = old.material
    /\ new.next = old.next
    /\ new.live \in {old.live, None}

\* The operation extends the live record of an attempt in one field.
Extends(old, new, live) ==
    /\ old.live # None
    /\ old.live \in Live
    /\ new.material = old.material
    /\ new.next = old.next
    /\ new.live = live

\* Returning early or dropping the live record.
LEMMA KeptSettles ==
    ASSUME NEW reg \in Registry, NEW out
    PROVE  Settles(reg, Kept(reg, out).reg) /\ Settles(reg, Closed(reg, out).reg)
BY DEF Settles, Kept, Closed, Registry

\* Writing one more field of the live record.
LEMMA AdvancedExtends ==
    ASSUME NEW reg \in Registry, NEW attempt, NEW live,
           TakeLive(reg, attempt) = "Ok"
    PROVE  Extends(reg, Advanced(reg, live).reg, live)
BY TakeLiveOk DEF Extends, Advanced, Registry

\* take_live(): the attempt that an operation continues with is the live one.
LEMMA TakeLiveIs ==
    ASSUME NEW reg \in Registry, NEW attempt, TakeLive(reg, attempt) = "Ok"
    PROVE  reg.live.attempt = attempt
BY DEF TakeLive

\* reserve(): nothing, or a fresh record under the installed epoch.
LEMMA ReserveShape ==
    ASSUME NEW reg \in Registry, NEW session, NEW now, NEW bytes, NEW binding
    PROVE  LET new == Reserve(reg, session, now, bytes, binding).reg IN
           \/ Settles(reg, new)
           \/ /\ reg.live = None
              /\ new.material = reg.material
              /\ new.next = reg.next + 1
              /\ new.live = NewLive(reg.next, session, bytes, binding)
              /\ ValidReservation(reg.material, bytes)
<1> DEFINE r == Reserve(reg, session, now, bytes, binding)
           new == [material |-> reg.material,
                   live |-> NewLive(reg.next, session, bytes, binding),
                   next |-> reg.next + 1]
<1>1. \/ \E out : r = Kept(reg, out)
      \/ \E out : r = Closed(reg, out)
      \/ reg.live = None /\ r.reg = new /\ ValidReservation(reg.material, bytes)
  BY DEF Reserve, ReserveIdle, IssueAttempt
<1>2. /\ new.material = reg.material
      /\ new.live = NewLive(reg.next, session, bytes, binding)
      /\ new.next = reg.next + 1
  OBVIOUS
<1> HIDE DEF r, new
<1>3. \/ Settles(reg, r.reg)
      \/ reg.live = None /\ r.reg = new /\ ValidReservation(reg.material, bytes)
  BY <1>1, KeptSettles
<1> QED
  BY <1>2, <1>3 DEF r

\* commit(): nothing, or the first nonce of the live attempt.
LEMMA CommitShape ==
    ASSUME NEW reg \in Registry, NEW attempt, NEW bytes, NEW nonce
    PROVE  LET new == Commit(reg, attempt, bytes, nonce).reg IN
           \/ Settles(reg, new)
           \/ /\ Extends(reg, new, [reg.live EXCEPT !.commit = nonce])
              /\ reg.live.commit = None
              /\ reg.live.attempt = attempt
<1> DEFINE r == Commit(reg, attempt, bytes, nonce)
           live == [reg.live EXCEPT !.commit = nonce]
<1>1. \/ \E out : r = Kept(reg, out)
      \/ \E out : r = Closed(reg, out)
      \/ /\ TakeLive(reg, attempt) = "Ok"
         /\ reg.live.commit = None
         /\ r = Advanced(reg, live)
  BY DEF Commit
<1> HIDE DEF r, live
<1>2. \/ Settles(reg, r.reg)
      \/ /\ Extends(reg, r.reg, live)
         /\ reg.live.commit = None
         /\ reg.live.attempt = attempt
  BY <1>1, KeptSettles, AdvancedExtends, TakeLiveIs
<1> QED
  BY <1>2 DEF r, live

\* reveal(): nothing, or the commitment view that opens the commitment; a
\* success reports the nonce the live record committed to.
LEMMA RevealShape ==
    ASSUME NEW reg \in Registry, NEW attempt, NEW view
    PROVE  LET r == Reveal(reg, attempt, view) IN
           /\ \/ Settles(reg, r.reg)
              \/ /\ Extends(reg, r.reg, [reg.live EXCEPT !.reveal = view])
                 /\ reg.live.reveal = None
                 /\ reg.live.commit # None
                 /\ view.own = reg.live.commit
           /\ r.out = "Ok" =>
                /\ reg.live # None
                /\ reg.live \in Live
                /\ reg.live.attempt = attempt
                /\ \/ r.reg = reg /\ reg.live.reveal # None
                   \/ /\ r.reg.live = [reg.live EXCEPT !.reveal = view]
                      /\ reg.live.commit # None
                      /\ view.own = reg.live.commit
<1> DEFINE r == Reveal(reg, attempt, view)
           live == [reg.live EXCEPT !.reveal = view]
           Fresh == /\ TakeLive(reg, attempt) = "Ok"
                    /\ reg.live.reveal = None
                    /\ reg.live.commit # None
                    /\ view.own = reg.live.commit
                    /\ r = Advanced(reg, live)
           Again == /\ TakeLive(reg, attempt) = "Ok"
                    /\ reg.live.reveal # None
                    /\ r = Kept(reg, "Ok")
<1>1. \/ \E out : out # "Ok" /\ r = Kept(reg, out)
      \/ \E out : out # "Ok" /\ r = Closed(reg, out)
      \/ Again
      \/ Fresh
  BY DEF Reveal
<1> HIDE DEF r, live
<1>2. ASSUME NEW out, out # "Ok", r = Kept(reg, out) \/ r = Closed(reg, out)
      PROVE  Settles(reg, r.reg) /\ r.out # "Ok"
  <2>1. r.out = out
    BY <1>2 DEF Kept, Closed
  <2>2. Settles(reg, r.reg)
    BY <1>2, KeptSettles
  <2> QED
    BY <1>2, <2>1, <2>2
<1>3. CASE Again
  <2>1. Settles(reg, r.reg) /\ r.reg = reg
    BY <1>3, KeptSettles DEF Kept
  <2> QED
    BY <1>3, <2>1, TakeLiveOk, TakeLiveIs DEF r
<1>4. CASE Fresh
  <2>1. Extends(reg, r.reg, live)
    BY <1>4, AdvancedExtends
  <2> QED
    BY <1>4, <2>1, TakeLiveIs DEF Extends, r, live
<1> QED
  BY <1>1, <1>2, <1>3, <1>4 DEF r

\* fix(): nothing, or the opening view of the live attempt.
LEMMA FixShape ==
    ASSUME NEW reg \in Registry, NEW attempt, NEW view
    PROVE  LET new == Fix(reg, attempt, view).reg IN
           \/ Settles(reg, new)
           \/ /\ Extends(reg, new, [reg.live EXCEPT !.fixed = view])
              /\ reg.live.fixed = None
<1> DEFINE r == Fix(reg, attempt, view)
           live == [reg.live EXCEPT !.fixed = view]
<1>1. \/ \E out : r = Kept(reg, out)
      \/ \E out : r = Closed(reg, out)
      \/ /\ TakeLive(reg, attempt) = "Ok"
         /\ reg.live.fixed = None
         /\ r = Advanced(reg, live)
  BY DEF Fix
<1> HIDE DEF r, live
<1>2. \/ Settles(reg, r.reg)
      \/ Extends(reg, r.reg, live) /\ reg.live.fixed = None
  BY <1>1, KeptSettles, AdvancedExtends
<1> QED
  BY <1>2 DEF r, live

\* respond(): every return keeps or drops the record; a success drops the
\* record of the attempt it answers.
LEMMA RespondShape ==
    ASSUME NEW reg \in Registry, NEW attempt, NEW package
    PROVE  LET r == Respond(reg, attempt, package) IN
           /\ Settles(reg, r.reg)
           /\ r.out = "Ok" => /\ reg.live # None
                              /\ reg.live.attempt = attempt
                              /\ r.reg.live = None
<1> DEFINE r == Respond(reg, attempt, package)
<1>1. CASE TakeLive(reg, attempt) # "Ok"
  <2>1. r = Kept(reg, TakeLive(reg, attempt))
    BY <1>1 DEF Respond
  <2> HIDE DEF r
  <2>2. r.out # "Ok"
    BY <1>1, <2>1 DEF Kept
  <2>3. Settles(reg, r.reg)
    BY <2>1, KeptSettles
  <2> QED
    BY <2>2, <2>3 DEF r
<1>2. CASE TakeLive(reg, attempt) = "Ok"
  <2>1. r = Closed(reg, ResponseTo(reg, package))
    BY <1>2 DEF Respond
  <2> HIDE DEF r
  <2>2. r.reg.live = None
    BY <2>1 DEF Closed, Registry
  <2>3. Settles(reg, r.reg)
    BY <2>1, KeptSettles
  <2> QED
    BY <1>2, <2>2, <2>3, TakeLiveOk, TakeLiveIs DEF r
<1> QED
  BY <1>1, <1>2

\* close(), receive_abort() and close_expired() keep or drop the record.
LEMMA ClosingShape ==
    ASSUME NEW reg \in Registry, NEW attempt, NEW abort, NEW now
    PROVE  /\ Settles(reg, Close(reg, attempt).reg)
           /\ Settles(reg, ReceiveAbort(reg, abort).reg)
           /\ Settles(reg, CloseExpired(reg, now).reg)
<1>1. Settles(reg, Close(reg, attempt).reg)
  BY KeptSettles DEF Close
<1>2. Settles(reg, ReceiveAbort(reg, abort).reg)
  BY KeptSettles DEF ReceiveAbort
<1>3. Settles(reg, CloseExpired(reg, now).reg)
  BY KeptSettles DEF CloseExpired
<1> QED
  BY <1>1, <1>2, <1>3

-----------------------------------------------------------------------------
(* Changes of key material under a live attempt *)

\* The operation changes key material; a record it leaves live is the old
\* one, and its vault keeps its epoch.
Rekeys(old, new) ==
    /\ new.next = old.next
    /\ new.live \in {old.live, None}
    /\ new.live # None =>
         EpochOf(new.material, new.live.vault)
            = EpochOf(old.material, new.live.vault)

\* Leaving everything alone changes no epoch.
LEMMA KeptRekeys ==
    ASSUME NEW reg \in Registry, NEW out
    PROVE  Rekeys(reg, Kept(reg, out).reg)
BY DEF Rekeys, Kept

\* add_vault() and activate_inner_bundle() leave no attempt live.
LEMMA IdleRekeys ==
    ASSUME NEW reg \in Registry, NEW live, NEW material, live = None
    PROVE  Rekeys(reg, Rekeyed(reg, live, material).reg)
BY DEF Rekeys, Rekeyed

LEMMA AddVaultShape ==
    ASSUME NEW reg \in Registry, NEW genesis
    PROVE  Rekeys(reg, AddVault(reg, genesis).reg)
<1>1. \/ \E out : AddVault(reg, genesis) = Kept(reg, out)
      \/ \E material : /\ reg.live = None
                       /\ AddVault(reg, genesis) =
                            Rekeyed(reg, reg.live, material)
  BY DEF AddVault
<1> QED
  BY <1>1, KeptRekeys, IdleRekeys

LEMMA ActivateInnerShape ==
    ASSUME NEW reg \in Registry, NEW bundle
    PROVE  Rekeys(reg, ActivateInnerBundle(reg, bundle).reg)
<1>1. \/ \E out : ActivateInnerBundle(reg, bundle) = Kept(reg, out)
      \/ \E material : ActivateInnerBundle(reg, bundle) =
                            Rekeyed(reg, None, material)
  BY DEF ActivateInnerBundle
<1> QED
  BY <1>1, KeptRekeys, IdleRekeys

\* activate_outer(): the live attempt of another vault survives, and its
\* vault keeps its state.
LEMMA ActivateOuterShape ==
    ASSUME NEW reg \in Registry, NEW block \in OuterBlock
    PROVE  Rekeys(reg, ActivateOuter(reg, block).reg)
<1> DEFINE v == block.epoch.vault
           material == WithVault(reg.material, v, OuterState(block))
           live == IF reg.live # None /\ reg.live.vault = v
                   THEN None ELSE reg.live
<1>1. \/ \E out : ActivateOuter(reg, block) = Kept(reg, out)
      \/ ActivateOuter(reg, block) = Rekeyed(reg, live, material)
  BY DEF ActivateOuter
<1>2. ASSUME live # None
      PROVE  EpochOf(material, live.vault) = EpochOf(reg.material, live.vault)
  <2>1. live = reg.live /\ live \in Live /\ live.vault # v
    BY <1>2 DEF Registry
  <2>2. live.vault \in Vaults /\ reg.material \in Material
    BY <2>1 DEF Live, Registry
  <2>3. reg.material.vaults \in [Vaults -> VaultState \cup {None}]
    BY <2>2 DEF Material
  <2> HIDE DEF live, v
  <2>4. /\ material.inner = reg.material.inner
        /\ material.identity = reg.material.identity
        /\ material.vaults[live.vault] = reg.material.vaults[live.vault]
    BY <2>1, <2>2, <2>3 DEF WithVault
  <2> HIDE DEF material
  <2> QED
    BY <2>4, Zenon DEF EpochOf
<1>3. live \in {reg.live, None}
  OBVIOUS
<1> HIDE DEF live, material
<1>4. Rekeys(reg, Rekeyed(reg, live, material).reg)
  BY <1>2, <1>3 DEF Rekeys, Rekeyed
<1> QED
  BY <1>1, <1>4, KeptRekeys

=============================================================================
