# Verification of KSNF

KSNF is a two-level threshold Schnorr library: a vault key is shared between
people, each person's member share between that person's devices. A device
(*leaf*) takes part in one signing attempt at a time, nonces live in memory
only, and shares are replaced by *activations* decided in an ordered log. This
directory models the state machines of the crate `src/`, checks them with TLC
on small instances and proves their main safety properties with TLAPS for every
instance.

## Inventory

| Component | State | Operations | Interaction |
|---|---|---|---|
| Leaf registry (`leaf.rs`, `taproot/state.rs`) | key material per vault, one live attempt with its nonce and views, attempt counter | reserve, commit, reveal, fix, respond (plain and Taproot), close, receive_abort, close_expired, add_vault, activate_inner(_bundle), activate_outer | called by an application, or by the persistent leaf |
| Persistent leaf (`leaf/store/persistent.rs`, `record.rs`) | a registry, the journal revision and material it last saw, a pending write | create, load, one wrapper per registry operation, reconcile | two or three store calls per operation |
| Leaf store (`leaf/store.rs`) | material records by hash, one journal per device with a revision | put_material, get_material, get_journal, compare_exchange_journal | shared by all process instances of a device |
| Activation log (`log_act.rs`) | commands, their phases and posts, the active head of each scope | begin, post, close_phase, abort, activate, activate_bundle | written by candidates, read by targets |
| Candidates and bundles (`dealing/candidate.rs`) | stage, commitments, openings and receipts of one command | commit, close_commitments, open, close_openings, receipt, activate, abort | mirrors one log command; a bundle drives several in step |
| Target accumulator (`dealing/target.rs`) | private shares received for one view | receive, finish, resolve | yields the share that a leaf installs |
| Exposure ledger (`exposure.rs`) | rows of every epoch and candidate an adversary has seen | register_epoch, reveal, expose_*, audit | fed by the log's retained prefixes |
| Signing round (`signing.rs`, `auth.rs`, `transcript.rs`) | none; values passed between devices and coordinator | views, packages, responses, aggregates | input of the leaf registry |
| Key material: genesis, Shamir, supports, shapes and contributions (`genesis.rs`, `shamir.rs`, `support.rs`, `keys.rs`, `dealing/shape.rs`, `dealing/contribution.rs`) | none of its own; the shares and public maps it computes are kept by the leaf | validation, interpolation, weights, sampling | used by dealings, activations and signing |
| Taproot keys, packages and signatures (`taproot/`) | none | key derivation, context, responses, aggregation | second signature scheme over the same round |
| Encodings, hashes, profiles, errors | none | pure functions | used everywhere |

Hard behaviours: process instances of one device that overlap, a stop between
two store calls, a journal write whose outcome is unknown or which lands late,
a retry (`reconcile`) of what may already be done, messages of closed attempts
that arrive late or altered, activations that race a live attempt, two
candidates that race for one predecessor, bundles that fail half-way, counters
at their limit. `PROJECT.json` lists them line by line under `hazards`.

What makes the parts correct:

- *Registry.* An attempt is answered at most once; it discloses one nonce pair;
  what it has fixed never changes; it never outlives the epoch it was reserved
  under; a closed attempt stays closed.
- *Persistent leaf and store.* The same across instances, restarts and store
  failures: the journal is the one authority. The journal only advances, its
  material can be loaded, and a response leaves only after the durable close
  and only under the active material. A leaf that must reconcile can.
- *Log.* One successor per predecessor, transcripts that only grow, no post or
  closed phase after a rival has activated, handles that name one bundle for
  ever.
- *Candidates, bundles, targets.* No opening before every component's
  commitments are complete; one view per command for all drivers and targets;
  a bundle is decided as a whole and everybody learns the log's decision; what
  is activated is held by every target; a failure ends the whole bundle.
- *Ledger.* The audit says what the history of calls says, a reported violation
  stays, and a refused registration leaves nothing behind.
- *Key material.* However blocks are installed, a device's share lies on the
  sharing it has installed, its sharings lead to the keys, equal epochs mean
  equal sharings; devices at one level can deal on and sign, and whatever
  devices have accepted, they can sign, in both schemes.
- *Signing round.* Answers stand for whole supports, every nonce was committed
  before another was disclosed, no two signatures share a nonce, and no
  ceremony holds a device for ever.

## Modules

| Module | Models |
|---|---|
| `Leaf` | the registry as a data type: its states, and one operator per operation that maps a registry and an input to the registry left behind and the result |
| `AttemptAuthority` | what a device promises: attempts issued in order, one open at a time, answered at most once and only in the step that closes them |
| `LeafRegistry` | one registry in memory and a caller who may deliver anything at any time |
| `PersistentLeaf` | instances of a device, the journal and the material store |
| `LeafProofs` | lemmas shared by the proofs about registries: every operation is a step of counter and live attempt, and what each does to the live record |
| `LeafRegistryProofs` | its inductive invariant, theorems and refinement |
| `PersistentLeafProofs` | the inductive invariant and the theorems |
| `Log` | the activation log as a data type, one operator per `LogAct` operation |
| `ActivationHistory` | what a log promises: heads move by whole bundles, from the predecessor each command was begun against, to handles never used before |
| `MemoryLog` | one log under callers who may make any call at any time |
| `MemoryLogProofs` | its inductive invariant and theorems |
| `Candidate` | a candidate and a target's accumulator as data types over `Log` |
| `Redistribution` | several drivers with candidates or bundles, one log, the targets |
| `ExposureLedger` | the ledger, its audit, and the history of calls that the audit is compared with |
| `RedistributionProofs` | the invariant that joins log, drivers and targets, and the theorems |
| `ExposureLedgerProofs` | types, the audit's monotonicity, one epoch per block, the audit as the verdict on the history |
| `Sharing` | the algebra: Shamir sharings, keys, and the equations of both signature schemes, over a small prime field |
| `KeyMaterial` | the shares and maps of a vault's devices from genesis through dealings and installations, and signing with them |
| `KeyMaterialProofs` | the field algebra (Lagrange interpolation, the signing equations); sharings lead to the keys and shares lie on them; equal epochs mean equal sharings; level devices deal the keys and accept one another; accepted supports sign |
| `SigningRound` | several devices (each a `Leaf` registry), the messages between them, root packages and aggregation |
| `SigningRoundProofs` | the invariant of a ceremony's registries and messages, and the theorems |
| `LeafRegistryMC`, `PersistentLeafMC`, `MemoryLogMC`, `RedistributionMC`, `ExposureLedgerMC`, `KeyMaterialMC`, `SigningRoundMC` | constants for TLC |

`LeafRegistry`, `PersistentLeaf` and `SigningRound` compose `Leaf`;
`MemoryLog` and `Redistribution` compose `Log`, the latter with `Candidate`;
`KeyMaterial` is built on `Sharing`.

**Leaf.** A registry record is `LeafRegistry`: `material` (everything that
`LeafMaterial` stores), `live` (the `Live` struct or `None`), `next` (the
attempt counter). Every operation follows the code's checks in their order;
`Kept` is an early return, `Closed` the path through `fail()`. `out` is the
result, with checks that fail alike sharing one error name. Abstractions:

- shares, public maps and anchors are determined by the activation handles they
  were installed under, so an epoch carries handles and no keys;
- reservations, views and packages are records compared for equality, as the
  code compares their bytes; a hash commitment binds, so a view carries the
  nonces that it commits to or opens;
- a Boolean `trusted`, `fits` or `member` gathers the checks against values that
  never change for a device (person, node, roster, identity and vault keys);
- the view `None` is one that `CommitmentView::new` or `OpeningView::new`
  rejects.

Operators with a comment *Slip* and a name such as `Reserve_Restarts` are
deliberate mistakes in the operator named before the underscore. Put in its
place, each breaks a property; no action uses them.

**LeafRegistry.** One action per operation. `sampled`, `disclosed` and
`answers` record what has left the device.

**PersistentLeaf.** `journal`, `rev`, `materials` are `MemoryLeafStore` for one
device (revision 0: no journal). Per instance, `registry`, `material`,
`revision`, `pending` are the fields of `PersistentLeaf`, and `pc` is the store
call it makes next, so `create` is `Create; StartCas`, `load` is `LoadJournal;
LoadMaterial; StartCas`, a transition is `XOp; PersistCas` or `XOp; PersistPut;
PersistCas`, and `reconcile` is `ReconcileRead; ReconcilePut; ReconcileCas`.
`reply` is the response that `respond` has computed and not yet returned, and
`answers` counts the returned ones. A store call may act and succeed, act and
fail, fail without acting or (`inflight`, `Land`) fail and act later. `Stop` is
a crash at any point. With `Exclusive` an operation holds the store for all its
calls, as `&mut S` does inside one process; without it, calls of different
instances interleave and late writes occur, as with the shared journal
authority that STORAGE.md asks for.

**Log, MemoryLog.** A log record is `MemoryLog`: `current`, `transcripts`,
`handles` (known to the counter), `activations` (the bundle retained for each
handle), `next`. Roles, payloads and parameters are values compared for
equality, as the code compares bytes. `IsFresh(log, h)` says that `h` is what
`fresh_handle` returns: the first counter value, modulo `HandleSpace`, that is
not known; `Imported` are handles that only `install_genesis` brings in. The
code checks a bundle command by command; `BundleVerdict` gives one of the errors
that apply. `MemoryLog` adds `history`, every value that `current` has had.

**Candidate, Redistribution.** A candidate record is `Candidate`. A contribution
is one value, by which its commitment, its opening and its shares are known;
values outside `Sound` fail `validate`. The application supplies the log behind
`LogAct`, so every log call is a step: a driver has the calls that its method
has still to make in `todo`, `Perform` makes the next one, and `Recovery` gives
the calls that follow an error (`abort_with`, `fail`, the loops of
`activate_candidates`). A plan of one command is a `Candidate`, of several an
`InnerBundle`. `Stop` drops a driver between two calls; `Start` runs the same
plan again from an empty candidate, whose posts the log then recognises.
`released` holds the contributions for which `open_contribution` has returned;
`target` the accumulators and, after `finish`, the pending shares. Targets are
honest; contributors may send garbled shares and commit to unsound values.

**ExposureLedger.** The variables are the fields of `ExposureLedger`: epochs,
blocks, corrupt devices, outer and member candidates. One action per method;
a refused call changes nothing. The ghost `history` records the accepted calls in order, and
`AuditMatchesHistory` recomputes every verdict from it.

**Sharing.** A group element is named by its discrete logarithm to the
generator, so a commitment to a coefficient is the coefficient and the identity
element is 0; point equations become scalar equations, which they are
equivalent to. Hash outputs (binding factors, challenges, tweaks) are inputs
from a set. Of a point and its negation one is called odd. Plain and Taproot
equations are separate operators, chosen by the key; the two copies of
`aggregate_member` and `aggregate_signature` differ only in these and are one
operator each.

**KeyMaterial.** `leaf[d]` is the part of a registry that `Leaf` names by
handles: identity share, anchor, the three public maps, the member point, the
epochs. `Init` validates `GenesisData`, unsound data included. A dealing is
what `Redistribution` decides: sources with any support, at one level or not,
fix the constant; the other coefficients of the summed polynomials are
arbitrary. Dealing and activation are one step because only an activated block
reaches a device and `Redistribution` covers what happens in between. Each
device installs or never installs each block at any time, in any order the
guards of `activate_inner_bundle` and `activate_outer` admit. A block's
position in the log serves as its handle and as its epoch number, which the
code takes from the caller.

**SigningRound.** `committed` and `opened` hold what devices have published;
`Views` lets a transport hand any of these messages, in any incomplete or mixed
set and to the right or the first attempt, to `reveal` and `fix`. `fixed` holds
the member nonces that `fix` returned, `answers` the responses. The coordinator
is not trusted: `Roots` has every package that `RootPackage::finalize` builds,
for any session and with any nonce pair in any slot, one that some device has
reported for whatever slot or round, or another one (`Pairs`). A device checks
its own slot only, and `AnswersForWholeSupport` claims no more. A nonce is named
by its device and attempt, and a sum of nonces by its summands.

## Runs

| Run | Question |
|---|---|
| `leaf_registry` | one nonce per attempt, frozen views, no attempt that outlives its epoch, and the refinement of `AttemptAuthority`, over any input order |
| `persistent_exclusive` | safety of two instances that take turns, with activations and added vaults |
| `persistent_interleaved` | the inductive invariant, the journal's monotonicity, the refinement and the termination of reconciliation when calls interleave and writes land late |
| `memory_log` | one successor, one bundle per handle, append-only transcripts, frozen losers, the inductive invariant `LInv` and the refinement of `ActivationHistory` |
| `redistribution_race` | two drivers with one bundle or a rival for one of its scopes, and different contributions for one role: one view, one decision for all components and known to all, the loser installs nothing |
| `redistribution_restart` | a driver that stops between two log calls and starts over, two contributors, unsound and garbled values: openings after all commitments, activation only with every share delivered |
| `redistribution_failure` | two drivers: one component's failure ends the bundle (liveness) |
| `exposure_ledger` | the audit against the history of calls, and its verdicts over time |
| `key_material` | consistency of shares, sharings, keys and epochs while four devices install blocks in any order, and that accepted supports sign |
| `signing_round` | two overlapping ceremonies of three devices with a reshare in the middle: whole supports, commitment before disclosure, no shared nonce, no device held for ever, with a coordinator that puts wrong sums into roots |
| `reconcile_concurrent`, `stale_release` | statements of the documentation that the code does not meet (violations) |

That a registry answers an attempt at most once and never reopens a closed one
is part of `ImplementsAuthority`; `TypeOK` of `PersistentLeaf` and of `MemoryLog`
are conjuncts of `IInv` and `LInv`.

Bounds. Two vaults, two sessions and three handles let an attempt of one vault
meet an activation of the other, of its own or of the identity. Three nonces
and two sibling values separate a right view from an altered one. `MaxSequence`
2 lets an attempt follow a closed one and then exhausts the counter.
`MaxRevision` 6 is enough to create, reserve, close, activate and reload, and it
reaches the exhausted revision. Two instances suffice for the races the
properties name: a holder and an overtaker; the exclusive run treats them as
symmetric. The interleaved run keeps one reservation, `MaxSequence` 1 and
`MaxRevision` 3, and no symmetry, since it checks liveness; larger instances are
left to the proofs.

In `memory_log` three commands over two scopes give rivals, a successor of the
winner, and bundles that overlap; three counter handles with the scopes founded
on handle 1 make the counter skip and wrap. Other founding handles are left to
the proofs. `MaxPosts` bounds retained posts,
since posts of different commands do not influence one another; commands and
payloads are symmetric. The redistribution runs separate the dimensions: two drivers are the
least that can race, two stops leave prefixes of two drivers behind for a third,
two contributors can commit and open in different orders, two sound values let
drivers disagree.

`exposure_ledger` has epochs and blocks enough for a registration that is
refused on its second group and for reveals before, between and after
exposures. `key_material` has a person with three devices and inner thresholds 1
and 2, so that supports differ and a threshold changes, and one with a single
device, both needed for the vault; two blocks (`MaxBlocks`) give every pair of
inner and outer blocks in either order on each device. Seven field elements keep
distinct nodes, both parities and cancelling sums apart; the genesis data and
signing inputs are chosen so that every parity of key, output key and nonce and
both schemes occur. `signing_round` has a person with two devices and one with a
single one; `MaxAttempts` gives every device an attempt and one of them a retry,
one with a sibling or one without. One session is for the old inner epochs, one
for the new, to which only the first person moves. `Pairs` is a sum that leaves
a sibling's nonce out; the sums reported for one person are wrong pairs in the
slot of the other. One unit of time is enough to expire.

Fairness (`FairSpec`). A leaf with a pending write refuses all but `reconcile`,
and IMPLEMENTING.md requires the caller to call it: weak fairness of its steps.
A store that is asked infinitely often answers infinitely often: strong
fairness of the successful outcome of a call. Nothing is assumed of other
operations, other instances, late writes or crashes. In `Redistribution`, weak
fairness of `Continue` and `Decide` says that a method that was invoked makes
its remaining calls; nobody is assumed to invoke one. `redistribution_failure`
allows no stops: a driver that stops inside a recovery leaves the other
components open until somebody runs the plan again. In `SigningRound`, time
passes and the application polls `close_expired`, as IMPLEMENTING.md asks of it:
weak fairness of `Tick` and of `DoCloseExpired`. Nothing is assumed of messages,
siblings or the coordinator.

Findings:

- `reconcile` takes any journal equal to its pending record as its own write
  and does not compare revisions. After `a`'s failed reserve, `b` may load and
  reserve the same sequence number; `a` then reconciles to Ok, and both hold the
  attempt live. The compare-and-set on close still admits only one response.
- `open` answers a repeated opening from the candidate's memory
  (`candidate.rs:131`), and `post` from the log's, without looking at the
  predecessor. After a rival has won the scope, a repeated `open_contribution`
  therefore still returns Ok and a `ReleasedContribution`, although its comment
  promises an error and an abort for a stale predecessor
  (`StaleOpeningRefused`). It hands out nothing new: `open` cannot get the
  opening of a contribution that was never released, and a first release goes
  through the check of `post`.

Observations that no run of its own shows:

- `activate_outer` for one vault keeps the live attempt of another, and then
  `encode_material` refuses (`persistent.rs:405`, `record.rs:29`). The leaf is
  invalidated and the caller is told that the stored record is invalid. Without
  the invalidation the leaf would go on over material that no journal names
  (`CurrentInstanceAgrees` is violated); with it, loading again recovers.
- A refused journal write collects its material even when another instance has
  staged the same material and is about to name it (`store.rs:434`). The journal
  then names absent material and the device cannot be loaded. It takes
  interleaved calls of two instances that make the same activation: with
  `Exclusive` the invariant `JournalMaterialHeld` holds, without it TLC finds
  the interleaving.
- An inner bundle may change a person's threshold. An outer block dealt for the
  old threshold then never fits that person's devices (`same_roster`), and a
  device that installs the outer block first refuses the inner bundle, whose
  member point has moved. Both are refused safely; the vault needs a new dealing.

## Proofs

Every theorem holds for every value of the constants that satisfies the named
assumptions, which type the constants and keep the absent values (`None`,
`Foreign`) apart from the values they stand beside. TLC evaluates them on every
run. Nothing is assumed of the number of instances, devices, people, vaults,
sessions, commands, drivers, handles or inputs.

**Registry** (`LeafProofs`, `LeafRegistryProofs`; `LeafAssumption`,
`LeafRegistryAssumption`). `LeafProofs` shows once per operation that its result
is a registry, that counter and live attempt make one *counter step* (issue the
next attempt when none is live, close the live one, or leave both alone), and
which of a few shapes the step has: it reserves, adds one thing to the live
record, keeps the record and its material, or replaces material.
`OneNoncePerAttempt` is not inductive: what `commit` draws must be new to the
device and what `reveal` discloses must be what `commit` drew for this attempt.
`RInv` adds that the pairs drawn so far match nonces and attempts one to one and
concern issued attempts only (`NoncesSound`), and that the live record holds the
nonce drawn for it and reveals under no other (`LiveNonceSound`). Theorems:
`RegistryInvariance`, `LiveEpochInstalled`, `OneNonce`, `ViewsFrozen`,
`RegistryRefinement` (of `AttemptAuthority`).

**Persistent leaf** (`PersistentLeafProofs`; also `PersistentLeafAssumption`).
`OneResponsePerAttempt` alone is not inductive: one must know that the attempt
whose response is held back is live in the record that the write replaces
(`ReplySound`), that an instance at the stored revision has the stored record as
its base (`Agrees`), and the same of writes still on their way
(`InflightSound`). With these, which make up `IInv`, every step changes the
store by at most one attempt step (`StoreChange`), instances that do not move
keep their part (`OtherLeafSound`), and a released response is the first for
its attempt (`Released`). `Invariance`, `TypeCorrect`, `OneResponse`,
`AnsweredClosed`, `OnlyAdvances` and `Refinement` hold whether calls interleave
or not.

`CurrentAgrees` and `AnswersUnderActiveMaterial`, for both kinds of store too,
need `MInv`: a
registry runs over the material that the journal will name once the write under
way is done, and a held-back response was computed under the epoch which that
material gives the vault. The compare-and-set that precedes the release then
makes the journal name it. `MaterialHeld`
(`JournalMaterialHeld`) has the hypothesis `Exclusive`, and needs it: an
interleaved refusal, or a late write, can collect or name material in the wrong
order (see the observations above). `EInv` says what exclusive use gives: no
write is on its way, one instance at a time is inside an operation, and a write
about to be made names staged material or that of the record it replaces.

**Log** (`MemoryLogProofs`; `LogAssumption`, `MemoryLogAssumption`).
`OneSuccessor` is not inductive: a command begun long ago could become
current again if its predecessor came back as a head. `LInv` excludes that:
every begun command has its predecessor in its scope's history and, once
activated, its handle right behind it (`Follows`); no handle occurs in a history
twice, because all of them are known to `fresh_handle` (`HeadsEndHistory`); the
retained bundles are exactly the commands that ended under a handle
(`HandleNamesOneBundle`). Every call is one of a few kinds of step (`StepKind`):
nothing, found a scope, begin, a transcript grows, or install a bundle. Theorems:
`LogInvariance`, `SingleSuccessor`, `OneBundlePerHandle`, `AppendOnly`,
`LosersStop`, `HistoryRefinement`.

**Redistribution** (`RedistributionProofs`; also `CandidateAssumption`,
`AbsentAssumption`, `RedistributionAssumption`). None of the properties is
inductive, since drivers act on what they read from a log that others have
extended since. `RdInv` says what such memory is worth. A log step only prolongs
transcripts (`Prolongs`), so what was read stays true; a candidate's
commitments, openings, receipts and stage are those of its transcript
(`DriverSound`), a target's view is the transcript's (`TargetsSound`), a receipt
is backed by a target that holds the share (`ReceiptsSound`), and in a
transcript openings repeat commitments and a closed phase is complete
(`TranscriptSound`). For a bundle, the calls still in `todo` close the
components in order, and a failed close leaves an abort pending for every
component that went ahead (`BundleSound`). From it: `RedistributionInvariance`,
`OneView`, `DecisionsFollowLog`, `ActivatedHasShares`. `BundlesDecidedTogether`,
`OpeningsFollowCommits` and `LosersInstallNothing` have the hypothesis
`EachInOnePlan`: no command belongs to two different plans. Neither a command
nor the log records which bundle a command was meant for, so a caller who also
drives a component alone, or groups it differently, can activate it without the
others. All the runs' plans satisfy the hypothesis.

**Ledger** (`ExposureLedgerProofs`; `LedgerAssumption`). `LedgerTypes` bounds
every outer threshold by one from below, which is what keeps `threshold - 1` in
`audit` from wrapping. `BlocksHaveOneEpoch` needs that every person of a
registered epoch has a registered block and that blocks are only ever added;
`AuditNeverClears` follows because reveals only grow, blocks and epochs are
never replaced and candidates keep the counts they were exposed with.
`AuditIsVerdict` compares the incremental records with a recomputation from the
accepted calls. `HInv` (theorem `LedgerRecords`) states the records as functions
of the history: a block belongs to one registered specification and has revealed
what was known then and what `reveal` calls added, an epoch has the rows of its
call, a candidate the counts at the moment of its call. The
audit counts people and the history counts specifications; the two are equal
because an epoch has one row per person.

**Key material** (`KeyMaterialProofs`; `PrimeOrder`, `KeyAssumption`,
`RosterAssumption`, `GenesisAssumption`, `SigningAssumption`). The last three
only type the inputs: rosters are finite, nodes, coefficients and nonces are
scalars, genesis offers polynomials of scalars. That nodes are distinct, that
sharings are not empty and that shares fit is what genesis validates, and is
proved from it.

`MapsLeadToKeys` is inductive together with the fact that every block links its
members to its outer sharing. `EpochNamesMaterial` needs to know where each map
came from: the identity map from the block of the inner epoch, the outer map
from the block of the outer epoch, the member map from the later of the two,
whose handle the epoch names. Theorems: `SharingsReachKeys`,
`EpochsNameMaterial`.

The other four properties are about computed field elements. The algebra comes
first, for every prime `Q`: congruence modulo `Q`, inverses from primality, sums
and products over finite sets (no order of evaluation matters), Horner's rule and
division by a linear factor, and from these Lagrange interpolation, in which the
row of coefficients sums to one and a polynomial shorter than its set of distinct
nodes is recovered at zero. The library's induction theorems cannot be used here, so
induction over numbers, and over the subsets of a support, is done by a smallest
counterexample: a nonempty *set* of numbers has a least member (`LeastNatural`).

`ShareInv` then says of every device that its sharings are nonempty polynomials
over the field, identity and member of one threshold, that its shares are their
values at its node, and of every block that it has the same form; the nodes are
distinct and the outer threshold positive since genesis validated them. The
signing share is not stored but recomputed from the identity share and the
anchor; `Translation` says that this gives back the share that was dealt.
`SharesStayOnMaps` follows. Sources at one epoch hold
points of one polynomial, by `EpochsNameMaterial`, so the interpolated dealing
has the stable key as its constant (`LevelSourcesDealKeys`) and level devices
compute the same context (`LevelDevicesAgree`). For signing, each response is
the signed nonce plus the coefficient times challenge and tweaked share; summed
over the inner supports and then over the outer one the coefficients interpolate
the member keys and the vault key, and for Taproot the parity signs of nonce
and output key cancel, so the aggregate satisfies the verification equation
(`AcceptedSupportsSign`).

**Signing round** (`SigningRoundProofs`; `SigningRoundAssumption`). `SInv` joins
the registries and what has been published: a device's live record holds no
nonce but the one drawn for its attempt, and the view it revealed under is of
its person's whole support and was committed before that nonce was opened
(`RecordSound`). Nothing is assumed of the sums that `fix` returned or of the
roots made of them: a device answers when its own slot is the view it revealed
under, and that view speaks for the support. An
answered attempt is over, so that its nonce serves no second root
(`AnsweredSound`). Theorems: `SigningInvariance`, `WholeSupports`,
`CommittedFirst`, `SignaturesApart`.

Only model-checked: `ReconcileTerminates`, `FailureSpreads` and `EventuallyFree`,
because liveness under fairness is out of the prover's reach. Every safety and
action property of a passing run is stated by a theorem.

## Not modelled

Hashing, byte layouts and their parsers (`encoding.rs`, `hash.rs`, the
`to_bytes`/`from_bytes` of every type, the envelopes of `taproot/package.rs`),
profiles and the group itself, zeroizing of secrets. `get_journal` and
`get_material` errors appear only as the caller's giving up. Corrupt store
contents: the store returns what was written. Several vaults with computed
shares: `KeyMaterial` has one vault, `Leaf` has several with named material.
Rosters that change: every dealing of `KeyMaterial` targets the same devices.

## Plan

Done: all modules, their runs, and a theorem for every safety property of the
passing runs. Next, in this order:

1. Composition of log, targets and persistent leaf: an installed epoch was
   activated, and every vault of a device follows one identity history.
2. Dealings that change the roster.
