-------------------------------- MODULE Leaf --------------------------------
(***************************************************************************)
(* The registry of one signing device (src/src/leaf.rs, LeafRegistry) as a *)
(* data type: its states, and every operation as an operator that takes    *)
(* the registry and the caller's input and returns the registry left       *)
(* behind (reg) and what the caller sees (out: "Ok" or an error's name;    *)
(* checks that fail alike share the name of one of their errors).          *)
(* LeafRegistry.tla runs these operations on one registry in memory,       *)
(* PersistentLeaf.tla runs them above a journal.                           *)
(*                                                                         *)
(* Group arithmetic is abstracted to the facts the control depends on.     *)
(* The public maps and secret shares of a device are determined by the     *)
(* activation handles they were installed under, so an epoch carries the   *)
(* handles and no keys. Byte strings compared for equality (reservations,  *)
(* views) are records compared for equality. A field named fits, trusted   *)
(* or member gathers the checks of an input against values that never      *)
(* change (device, person, node, roster, identity and vault keys).         *)
(***************************************************************************)
EXTENDS Naturals

CONSTANTS
    Vaults,         \* vault identifiers
    Sessions,       \* session identifiers
    Handles,        \* activation handles
    OutputKeys,     \* Taproot output keys a caller may expect
    Plain,          \* the binding of an untweaked session
    Nonces,         \* nonces the device can sample
    Siblings,       \* nonces the other devices of a support can contribute
    MaxSequence,    \* the largest attempt counter, u64::MAX
    Foreign,        \* an attempt of another device
    None            \* an absent Option

-----------------------------------------------------------------------------
(* States *)

\* A response mode with its policy tag.
Binding == {Plain} \cup OutputKeys

\* Outer and inner epoch numbers with the handles of their key material.
KeyEpoch == [vault : Vaults, outer : Nat, inner : Nat,
             identity : Handles, member : Handles]

\* The canonical bytes of a member reservation.
Reservation == [session : Sessions, expiry : Nat, epoch : KeyEpoch,
                binding : Binding, trusted : BOOLEAN]

\* A receiver's complete view of commitments, or of openings. Nonce
\* commitments bind, so both views carry the nonces they stand for.
View == [receiver : Nat, session : Sessions, bytes : Reservation,
         own : Nonces, siblings : Siblings]

\* The one live attempt and what it has fixed so far.
Live == [attempt : Nat, session : Sessions, vault : Vaults, expiry : Nat,
         bytes : Reservation, binding : Binding,
         commit : Nonces \cup {None},
         reveal : View \cup {None},
         fixed : View \cup {None}]

\* The key state of one vault. point names the redistribution that created
\* the member point; inner refreshes keep it.
VaultState == [outer : Nat, member : Handles, point : Handles]

\* What LeafMaterial stores: everything but the live attempt and counter.
Material == [inner : Nat, identity : Handles,
             vaults : [Vaults -> VaultState \cup {None}]]

Registry == [material : Material, live : Live \cup {None}, next : Nat]

\* None is none of the values it stands in for.
ASSUME LeafAssumption ==
    /\ MaxSequence \in Nat
    /\ Foreign \notin Nat
    /\ None \notin Nat \cup Live \cup Registry

Installed(material) == {v \in Vaults : material.vaults[v] # None}

\* epoch(): the key epoch a vault has installed.
EpochOf(material, v) ==
    [vault |-> v, outer |-> material.vaults[v].outer,
     inner |-> material.inner, identity |-> material.identity,
     member |-> material.vaults[v].member]

\* live_attempt(): the attempt that may still be answered.
LiveAttempt(reg) == IF reg.live = None THEN None ELSE reg.live.attempt

\* new(): an idle registry over installed key material.
NewRegistry(material) == [material |-> material, live |-> None, next |-> 0]

-----------------------------------------------------------------------------
(* How an operation leaves the live attempt *)

Kept(reg, out) == [reg |-> reg, out |-> out]

\* fail(), and every drop of the live record: its nonce and views are gone.
Closed(reg, out) == [reg |-> [reg EXCEPT !.live = None], out |-> out]

Advanced(reg, live) == [reg |-> [reg EXCEPT !.live = live], out |-> "Ok"]

IsClosed(reg, attempt) ==
    /\ attempt # Foreign
    /\ attempt < reg.next
    /\ reg.live = None \/ reg.live.attempt # attempt

\* take_live(): "Ok" exactly when the attempt is the live one.
TakeLive(reg, attempt) ==
    IF IsClosed(reg, attempt) THEN "AttemptClosed"
    ELSE IF reg.live = None THEN "WrongStage"
    ELSE IF attempt = Foreign THEN "AttemptMismatch"
    ELSE IF reg.live.attempt # attempt THEN "Busy"
    ELSE "Ok"

-----------------------------------------------------------------------------
(* Signing operations *)

\* validate_reservation(): the reservation names the installed epoch, keys,
\* supports and share.
ValidReservation(material, bytes) ==
    /\ material.vaults[bytes.epoch.vault] # None
    /\ bytes.epoch = EpochOf(material, bytes.epoch.vault)
    /\ bytes.trusted

\* issue_attempt(): the next sequence number.
IssueAttempt(reg) == reg.next

\* The record of an attempt that has reached no stage yet.
NewLive(attempt, session, bytes, binding) ==
    [attempt |-> attempt, session |-> session, vault |-> bytes.epoch.vault,
     expiry |-> bytes.expiry, bytes |-> bytes, binding |-> binding,
     commit |-> None, reveal |-> None, fixed |-> None]

\* reserve_with() when no attempt is live.
ReserveIdle(reg, session, now, bytes, binding) ==
    IF bytes.binding # binding THEN Kept(reg, "InvalidTranscript")
    ELSE IF bytes.session # session THEN Kept(reg, "InvalidTranscript")
    ELSE IF bytes.expiry <= now THEN Kept(reg, "Expired")
    ELSE IF ~ValidReservation(reg.material, bytes)
         THEN Kept(reg, "EpochMismatch")
    ELSE IF reg.next = MaxSequence THEN Kept(reg, "AttemptExhausted")
    ELSE [reg |-> [material |-> reg.material,
                   live |-> NewLive(IssueAttempt(reg), session, bytes,
                                    binding),
                   next |-> reg.next + 1],
          out |-> "Ok"]

\* Slip: a replay starts the attempt over.
Reserve_Restarts(reg, session, now, bytes, binding) ==
    IF reg.live # None
    THEN IF reg.live.session = session /\ reg.live.bytes = bytes
         THEN Advanced(reg, NewLive(reg.live.attempt, session, bytes, binding))
         ELSE Kept(reg, "Busy")
    ELSE ReserveIdle(reg, session, now, bytes, binding)

\* Slip: a new session takes the place of the live one.
Reserve_Replaces(reg, session, now, bytes, binding) ==
    ReserveIdle(reg, session, now, bytes, binding)

\* reserve() and reserve_taproot(): binding is what the caller asks for.
Reserve(reg, session, now, bytes, binding) ==
    IF reg.live = None THEN ReserveIdle(reg, session, now, bytes, binding)
    ELSE IF reg.live.session # session THEN Kept(reg, "Busy")
    ELSE IF reg.live.bytes = bytes /\ reg.live.binding = binding
         THEN Kept(reg, "Ok")
    ELSE Closed(reg, "ReplayMismatch")

\* Slip: a replayed commit samples again.
Commit_Resamples(reg, attempt, bytes, nonce) ==
    IF TakeLive(reg, attempt) # "Ok" THEN Kept(reg, TakeLive(reg, attempt))
    ELSE IF reg.live.bytes # bytes THEN Closed(reg, "ReplayMismatch")
    ELSE Advanced(reg, [reg.live EXCEPT !.commit = nonce])

\* commit(): samples one nonce, and only one, for the attempt.
Commit(reg, attempt, bytes, nonce) ==
    IF TakeLive(reg, attempt) # "Ok" THEN Kept(reg, TakeLive(reg, attempt))
    ELSE IF reg.live.bytes # bytes THEN Closed(reg, "ReplayMismatch")
    ELSE IF reg.live.commit # None THEN Kept(reg, "Ok")
    ELSE Advanced(reg, [reg.live EXCEPT !.commit = nonce])

\* The view is addressed to this attempt, session and reservation.
Addressed(live, view) ==
    /\ view.receiver = live.attempt
    /\ view.session = live.session
    /\ view.bytes = live.bytes

\* reveal(): fixes the commitment view, then discloses the nonce pair.
\* The view None is one that CommitmentView::new rejects.
Reveal(reg, attempt, view) ==
    IF TakeLive(reg, attempt) # "Ok" THEN Kept(reg, TakeLive(reg, attempt))
    ELSE IF view = None THEN Closed(reg, "InvalidView")
    ELSE IF reg.live.reveal # None THEN
        IF view = reg.live.reveal THEN Kept(reg, "Ok")
        ELSE Closed(reg, "ReplayMismatch")
    ELSE IF reg.live.commit = None THEN Closed(reg, "WrongStage")
    ELSE IF ~Addressed(reg.live, view) THEN Closed(reg, "InvalidTranscript")
    ELSE IF view.own # reg.live.commit THEN Closed(reg, "CommitmentMismatch")
    ELSE Advanced(reg, [reg.live EXCEPT !.reveal = view])

\* Slip: openings are checked against the commitment alone.
Fix_SkipsReveal(reg, attempt, view) ==
    IF \/ TakeLive(reg, attempt) # "Ok" \/ view = None
       \/ ~Addressed(reg.live, view) \/ view.own # reg.live.commit
    THEN Kept(reg, "CommitmentMismatch")
    ELSE Advanced(reg, [reg.live EXCEPT !.fixed = view])

\* fix(): accepts the opening view that opens the commitment view.
Fix(reg, attempt, view) ==
    IF TakeLive(reg, attempt) # "Ok" THEN Kept(reg, TakeLive(reg, attempt))
    ELSE IF view = None THEN Closed(reg, "InvalidView")
    ELSE IF reg.live.fixed # None THEN
        IF view = reg.live.fixed THEN Kept(reg, "Ok")
        ELSE Closed(reg, "ReplayMismatch")
    ELSE IF reg.live.reveal = None THEN Closed(reg, "WrongStage")
    ELSE IF ~Addressed(reg.live, view) THEN Closed(reg, "InvalidTranscript")
    ELSE IF view # reg.live.reveal THEN Closed(reg, "CommitmentMismatch")
    ELSE Advanced(reg, [reg.live EXCEPT !.fixed = view])

\* A finalized root package, plain or Taproot, as a device sees it: the
\* reservation it finalizes, and the nonces behind its own slot.
Package == [binding : Binding, bytes : Reservation,
            own : Nonces, siblings : Siblings]

\* What respond() and respond_taproot() say of a package for the live attempt.
ResponseTo(reg, package) ==
    LET live == reg.live IN
    IF (package.binding = Plain) # (live.binding = Plain)
        THEN "ProtocolMismatch"
    ELSE IF live.fixed = None THEN "WrongStage"
    ELSE IF package.binding # live.binding \/ package.bytes # live.bytes
        THEN "InvalidTranscript"
    ELSE IF <<package.own, package.siblings>>
              # <<live.fixed.own, live.fixed.siblings>> THEN "NonceMismatch"
    ELSE IF EpochOf(reg.material, live.vault) # live.bytes.epoch
        THEN "ShareMismatch"
    ELSE "Ok"

\* Slip: an attempt that answers together with siblings stays live.
Respond_AwaitsSiblings(reg, attempt, package) ==
    IF TakeLive(reg, attempt) # "Ok" THEN Kept(reg, TakeLive(reg, attempt))
    ELSE IF ResponseTo(reg, package) = "Ok" /\ package.siblings # {}
    THEN Kept(reg, "Ok")
    ELSE Closed(reg, ResponseTo(reg, package))

\* respond_with(): every return for the live attempt closes it.
Respond(reg, attempt, package) ==
    IF TakeLive(reg, attempt) # "Ok" THEN Kept(reg, TakeLive(reg, attempt))
    ELSE Closed(reg, ResponseTo(reg, package))

-----------------------------------------------------------------------------
(* Closing operations *)

Close(reg, attempt) ==
    IF TakeLive(reg, attempt) # "Ok" THEN Kept(reg, TakeLive(reg, attempt))
    ELSE Closed(reg, "Ok")

\* An authenticated abort; member says its sender is in the inner support.
Abort == [receiver : Nat \cup {Foreign}, session : Sessions,
          bytes : Reservation, member : BOOLEAN]

ReceiveAbort(reg, abort) ==
    IF abort.receiver = Foreign THEN Kept(reg, "ReceiverMismatch")
    ELSE IF /\ reg.live # None
            /\ reg.live.attempt = abort.receiver
            /\ reg.live.session # abort.session
         THEN Kept(reg, "InvalidTranscript")
    ELSE IF TakeLive(reg, abort.receiver) # "Ok"
         THEN Kept(reg, TakeLive(reg, abort.receiver))
    ELSE Closed(reg, IF abort.member /\ abort.bytes = reg.live.bytes
                     THEN "Ok" ELSE "InvalidTranscript")

\* Slip: an attempt lives through the instant of its expiry.
CloseExpired_Late(reg, now) ==
    IF reg.live # None /\ reg.live.expiry < now THEN Closed(reg, "Ok")
    ELSE Kept(reg, "Ok")

\* close_expired().
CloseExpired(reg, now) ==
    IF reg.live # None /\ reg.live.expiry <= now THEN Closed(reg, "Ok")
    ELSE Kept(reg, "Ok")

-----------------------------------------------------------------------------
(* Changes of key material *)

\* The operation installs new material and leaves the live record live.
Rekeyed(reg, live, material) ==
    [reg |-> [material |-> material, live |-> live, next |-> reg.next],
     out |-> "Ok"]

WithVault(material, v, state) ==
    [inner |-> material.inner, identity |-> material.identity,
     vaults |-> [material.vaults EXCEPT ![v] = state]]

\* A vault at genesis, offered under an epoch.
Genesis == [epoch : KeyEpoch, point : Handles, fits : BOOLEAN]

AddVault(reg, genesis) ==
    LET epoch == genesis.epoch IN
    IF reg.live # None THEN Kept(reg, "Busy")
    ELSE IF /\ genesis.fits
            /\ epoch.inner = reg.material.inner
            /\ epoch.identity = reg.material.identity
            /\ reg.material.vaults[epoch.vault] = None
         THEN Rekeyed(reg, reg.live,
                WithVault(reg.material, epoch.vault,
                    [outer |-> epoch.outer, member |-> epoch.member,
                     point |-> genesis.point]))
    ELSE Kept(reg, "EpochMismatch")

\* One member block of an inner bundle, and the bundle: the identity block
\* with a member block for each vault of a set of vaults.
MemberBlock == [epoch : KeyEpoch, handle : Handles, point : Handles,
                fits : BOOLEAN]
IsInnerBundle(bundle) ==
    /\ bundle.handle \in Handles
    /\ bundle.fits \in BOOLEAN
    /\ DOMAIN bundle.members \subseteq Vaults
    /\ \A v \in DOMAIN bundle.members : bundle.members[v] \in MemberBlock

\* next_inner: the inner epoch that all member blocks of a bundle share.
NextInner(bundle) ==
    CHOOSE n \in {bundle.members[v].epoch.inner :
                    v \in DOMAIN bundle.members} : TRUE

\* The identity block is new to this device and covers its vaults.
FitsIdentity(material, bundle) ==
    /\ bundle.fits
    /\ DOMAIN bundle.members = Installed(material)
    /\ Installed(material) # {}
    /\ bundle.handle # material.identity
    /\ \A v \in Installed(material) :
         material.vaults[v].member # bundle.handle

\* One vault's member block carries the bundle's handle and a later inner
\* epoch, and keeps the vault's outer epoch and member point.
FitsVault(material, bundle, v) ==
    LET block == bundle.members[v] IN
    /\ block.fits
    /\ block.handle = bundle.handle
    /\ block.epoch = [vault |-> v, outer |-> material.vaults[v].outer,
                      inner |-> NextInner(bundle),
                      identity |-> bundle.handle, member |-> bundle.handle]
    /\ block.epoch.inner > material.inner
    /\ block.point = material.vaults[v].point

\* activate_inner() and activate_inner_bundle(): close whatever is live, then
\* replace the identity and every vault's member block.
ActivateInnerBundle(reg, bundle) ==
    LET old == reg.material IN
    IF /\ FitsIdentity(old, bundle)
       /\ \A v \in Installed(old) : FitsVault(old, bundle, v)
    THEN Rekeyed(reg, None,
            [inner |-> NextInner(bundle), identity |-> bundle.handle,
             vaults |-> [v \in Vaults |->
                IF old.vaults[v] = None THEN None
                ELSE [outer |-> old.vaults[v].outer,
                      member |-> bundle.handle,
                      point |-> old.vaults[v].point]]])
    ELSE Kept(reg, "EpochMismatch")

\* A member block of an outer redistribution, with the epoch it is for.
OuterBlock == [epoch : KeyEpoch, handle : Handles, fits : BOOLEAN]

\* The block is for an installed vault, at a later outer epoch and under a
\* handle that is new to it.
FitsOuter(material, block) ==
    LET old == material.vaults[block.epoch.vault] IN
    /\ old # None
    /\ block.fits
    /\ block.epoch.outer > old.outer
    /\ block.epoch.inner = material.inner
    /\ block.epoch.identity = material.identity
    /\ block.epoch.member = block.handle
    /\ block.handle # old.member

OuterState(block) ==
    [outer |-> block.epoch.outer, member |-> block.handle,
     point |-> block.handle]

\* Slip: the live attempt of the vault survives.
ActivateOuter_KeepsLive(reg, block) ==
    IF FitsOuter(reg.material, block)
    THEN Rekeyed(reg, reg.live,
            WithVault(reg.material, block.epoch.vault, OuterState(block)))
    ELSE Kept(reg, "EpochMismatch")

\* activate_outer(): closes the live attempt only if it is for that vault.
ActivateOuter(reg, block) ==
    IF FitsOuter(reg.material, block)
    THEN Rekeyed(reg,
            IF reg.live # None /\ reg.live.vault = block.epoch.vault
            THEN None ELSE reg.live,
            WithVault(reg.material, block.epoch.vault, OuterState(block)))
    ELSE Kept(reg, "EpochMismatch")

=============================================================================
