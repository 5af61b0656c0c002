--------------------------- MODULE ExposureLedger ---------------------------
(***************************************************************************)
(* The audit ledger of the joint corruption restriction                    *)
(* (src/src/exposure.rs, ExposureLedger): which member blocks the corrupt  *)
(* devices and the retained revelations control, and which proposals moved *)
(* shares towards controlled groups. A refused call leaves the ledger as   *)
(* it was. history is auxiliary: the accepted calls in order, from which   *)
(* the reference verdict is computed.                                      *)
(***************************************************************************)
EXTENDS Naturals, Sequences, FiniteSets

CONSTANTS
    Devices, Persons, Blocks, Vaults, Epochs, Commands,
    Thresholds,     \* outer thresholds a caller may pass, zero included
    Groups,         \* (person, threshold, device list) a caller may pass
    MaxGroups,      \* the longest list of groups of one call
    MaxCalls        \* bound on accepted calls

VARIABLES
    corrupt,        \* the static set of corrupt devices
    blocks,         \* MemberBlock by block identifier
    epochs,         \* EpochRecord by vault and epoch
    outer,          \* outer_candidates
    members,        \* member_candidates
    history         \* the accepted calls

vars == <<corrupt, blocks, epochs, outer, members, history>>

ASSUME LedgerAssumption ==
    /\ IsFiniteSet(Devices)
    /\ IsFiniteSet(Persons)
    /\ Thresholds \subseteq Nat
    /\ MaxGroups \in Nat
    /\ \A g \in Groups : /\ g.person \in Persons
                         /\ g.threshold \in Nat
                         /\ g.devices \in Seq(Devices)

-----------------------------------------------------------------------------
(* Inputs *)

Elements(seq) == {seq[i] : i \in 1..Len(seq)}

IsDistinct(seq) == \A i, j \in 1..Len(seq) : seq[i] = seq[j] => i = j

\* MemberBlockSpec::new() and TargetGroup::new() accept the group.
ValidGroup(g) ==
    /\ IsDistinct(g.devices)
    /\ g.threshold # 0
    /\ Len(g.devices) >= g.threshold

Lists(S) == UNION {[1..n -> S] : n \in 0..MaxGroups}

TargetGroup == {g \in Groups : ValidGroup(g)}

\* A member block specification: a valid group under a block identifier.
MemberBlockSpec == [block : Blocks, group : TargetGroup]

PersonsOf(groups) == [i \in 1..Len(groups) |-> groups[i].person]

-----------------------------------------------------------------------------
(* State *)

MemberBlock == [person : Persons, threshold : Nat \ {0},
                devices : SUBSET Devices, revealed : SUBSET Devices]

\* A member block is controlled once a threshold of its scalars is revealed.
Controlled(block) == Cardinality(block.revealed) >= block.threshold

\* A proposed target group is controlled by the corrupt devices alone.
TargetControlled(g) ==
    Cardinality(Elements(g.devices) \cap corrupt) >= g.threshold

CandidateExists(command) ==
    \/ \E i \in 1..Len(outer) : outer[i].command = command
    \/ \E i \in 1..Len(members) : members[i].command = command

TypeOK ==
    /\ corrupt \subseteq Devices
    /\ DOMAIN blocks \subseteq Blocks
    /\ \A b \in DOMAIN blocks : blocks[b] \in MemberBlock
    /\ DOMAIN epochs \subseteq Vaults \X Epochs
    /\ \A k \in DOMAIN epochs :
         /\ epochs[k].threshold \in Nat \ {0}
         /\ DOMAIN epochs[k].people \subseteq Persons
         /\ \A p \in DOMAIN epochs[k].people :
              epochs[k].people[p] \in DOMAIN blocks
    /\ outer \in Seq([command : Commands, threshold : Nat \ {0},
                      controlled : Nat])
    /\ members \in Seq([command : Commands, person : Persons,
                        source : BOOLEAN, target : BOOLEAN])

Init ==
    /\ corrupt \in SUBSET Devices
    /\ blocks = <<>>
    /\ epochs = <<>>
    /\ outer = <<>>
    /\ members = <<>>
    /\ history = <<>>

Accept(call) ==
    /\ Len(history) < MaxCalls
    /\ history' = Append(history, call)

-----------------------------------------------------------------------------
(* Operations *)

\* Slip: only the number of groups is compared.
EnoughGroups_ZeroAllowed(threshold, groups) == Len(groups) >= threshold

\* The outer threshold is positive and can be met by the groups of the call.
EnoughGroups(threshold, groups) ==
    /\ threshold # 0
    /\ Len(groups) >= threshold

\* Slip: a registered epoch is registered over.
NewEpoch_Replaces(vault, epoch) == vault \in Vaults /\ epoch \in Epochs

NewEpoch(vault, epoch) == <<vault, epoch>> \notin DOMAIN epochs

\* Slip: blocks are compared within the call alone.
FreshBlocks_WithinCall(specs) ==
    /\ IsDistinct([i \in 1..Len(specs) |-> specs[i].group.person])
    /\ IsDistinct([i \in 1..Len(specs) |-> specs[i].block])

\* The blocks of a call are new to the ledger, and no person or block is
\* named twice.
FreshBlocks(specs) ==
    /\ IsDistinct([i \in 1..Len(specs) |-> specs[i].group.person])
    /\ IsDistinct([i \in 1..Len(specs) |-> specs[i].block])
    /\ \A i \in 1..Len(specs) : specs[i].block \notin DOMAIN blocks

\* What one specification becomes when it is registered: the shares of the
\* corrupt devices are revealed from the start.
Registered(group) ==
    [person |-> group.person, threshold |-> group.threshold,
     devices |-> Elements(group.devices),
     revealed |-> Elements(group.devices) \cap corrupt]

\* A map with the entries of another one inserted.
Inserted(f, new) ==
    [k \in DOMAIN f \cup DOMAIN new |->
        IF k \in DOMAIN new THEN new[k] ELSE f[k]]

\* The maps that the loop of register_epoch() collects.
NewBlocks(specs) ==
    [b \in {s.block : s \in Elements(specs)} |->
        Registered((CHOOSE s \in Elements(specs) : s.block = b).group)]
NewPeople(specs) ==
    [p \in {s.group.person : s \in Elements(specs)} |->
        (CHOOSE s \in Elements(specs) : s.group.person = p).block]

RegisterEpoch(vault, epoch, threshold, specs) ==
    /\ EnoughGroups(threshold, specs)
    /\ NewEpoch(vault, epoch)
    /\ FreshBlocks(specs)
    /\ Accept([op |-> "epoch", vault |-> vault, epoch |-> epoch,
               threshold |-> threshold, specs |-> specs])
    /\ blocks' = Inserted(blocks, NewBlocks(specs))
    /\ epochs' = Inserted(epochs,
                    [k \in {<<vault, epoch>>} |->
                        [threshold |-> threshold, people |-> NewPeople(specs)]])
    /\ UNCHANGED <<corrupt, outer, members>>

\* A retained scalar of an installed block becomes known.
Reveal(b, device) ==
    /\ b \in DOMAIN blocks
    /\ device \in blocks[b].devices
    /\ Accept([op |-> "reveal", block |-> b, device |-> device])
    /\ blocks' = [blocks EXCEPT ![b].revealed = @ \cup {device}]
    /\ UNCHANGED <<corrupt, epochs, outer, members>>

\* First source exposure of an outer proposal.
ExposeOuterCandidate(command, threshold, targets) ==
    /\ EnoughGroups(threshold, targets)
    /\ ~CandidateExists(command)
    /\ IsDistinct(PersonsOf(targets))
    /\ Accept([op |-> "outer", command |-> command, threshold |-> threshold,
               targets |-> targets])
    /\ outer' = Append(outer, [command |-> command, threshold |-> threshold,
                  controlled |-> Cardinality({i \in 1..Len(targets) :
                                    TargetControlled(targets[i])})])
    /\ UNCHANGED <<corrupt, blocks, epochs, members>>

\* Slip: the retained revelations of the source block are not counted.
SourceControlled_Corrupt(block) ==
    Cardinality(block.devices \cap corrupt) >= block.threshold

SourceControlled(block) == Controlled(block)

\* First source exposure of a member proposal; the source-control bit is
\* what the source block is at this call.
ExposeMemberCandidate(command, source, target) ==
    /\ ~CandidateExists(command)
    /\ source \in DOMAIN blocks
    /\ blocks[source].person = target.person
    /\ Accept([op |-> "member", command |-> command, source |-> source,
               target |-> target])
    /\ members' = Append(members,
                    [command |-> command, person |-> target.person,
                     source |-> SourceControlled(blocks[source]),
                     target |-> TargetControlled(target)])
    /\ UNCHANGED <<corrupt, blocks, epochs, outer>>

Next ==
    \/ \E v \in Vaults, e \in Epochs, t \in Thresholds,
          specs \in Lists(MemberBlockSpec) : RegisterEpoch(v, e, t, specs)
    \/ \E b \in Blocks, d \in Devices : Reveal(b, d)
    \/ \E c \in Commands, t \in Thresholds, targets \in Lists(TargetGroup) :
          ExposeOuterCandidate(c, t, targets)
    \/ \E c \in Commands, b \in Blocks, g \in TargetGroup :
          ExposeMemberCandidate(c, b, g)

Spec == Init /\ [][Next]_vars

-----------------------------------------------------------------------------
(* The audit *)

ControlledPeople(record) ==
    Cardinality({p \in DOMAIN record.people :
                   Controlled(blocks[record.people[p]])})

BadEpochs ==
    {k \in DOMAIN epochs :
        ControlledPeople(epochs[k]) > epochs[k].threshold - 1}
BadOuter ==
    {outer[i].command : i \in {j \in 1..Len(outer) :
        outer[j].controlled > outer[j].threshold - 1}}
BadMembers ==
    {members[i].command : i \in {j \in 1..Len(members) :
        ~members[j].source /\ members[j].target}}

\* audit(): the violated clauses of condition (1), by what they are about.
Audit == [epochs |-> BadEpochs, outer |-> BadOuter, members |-> BadMembers]

-----------------------------------------------------------------------------
(* The reference verdict, from the calls alone *)

Calls(op, n) == {i \in 1..n : history[i].op = op}

\* The group that was registered as block b.
GroupBehind(b) ==
    (CHOOSE s \in UNION {Elements(history[i].specs) :
                            i \in Calls("epoch", Len(history))} :
        s.block = b).group

\* The scalars of block b that are known after the first n calls.
KnownAfter(n, b) ==
    (Elements(GroupBehind(b).devices) \cap corrupt)
        \cup {history[i].device : i \in {j \in Calls("reveal", n) :
                                            history[j].block = b}}

HeldAfter(n, b) == Cardinality(KnownAfter(n, b)) >= GroupBehind(b).threshold

\* Condition (1): fewer people than the outer threshold are controlled in an
\* activated epoch or an outer proposal, and no member who was not controlled
\* when a proposal was exposed hands a share to a controlled group.
Verdict ==
    LET n == Len(history) IN
    [epochs |-> {<<history[i].vault, history[i].epoch>> :
        i \in {j \in Calls("epoch", n) :
            Cardinality({s \in Elements(history[j].specs) :
                HeldAfter(n, s.block)}) >= history[j].threshold}},
     outer |-> {history[i].command :
        i \in {j \in Calls("outer", n) :
            Cardinality({g \in Elements(history[j].targets) :
                TargetControlled(g)}) >= history[j].threshold}},
     members |-> {history[i].command :
        i \in {j \in Calls("member", n) :
            /\ ~HeldAfter(j - 1, history[j].source)
            /\ TargetControlled(history[j].target)}}]

-----------------------------------------------------------------------------
(* Properties *)

\* The audit is the verdict on the calls that were accepted, whatever their
\* order: scalars revealed after a registration count against its epoch, but
\* never change what a proposal was when it was first exposed.
AuditMatchesHistory == Audit = Verdict

\* Every registered block belongs to exactly one registered epoch, under the
\* person it was registered for: a registration that is refused halfway
\* leaves none of its blocks, and no epoch takes over another one's block.
BlocksOfOneEpoch ==
    \A b \in DOMAIN blocks :
        \E k \in DOMAIN epochs :
            /\ blocks[b].person \in DOMAIN epochs[k].people
            /\ epochs[k].people[blocks[b].person] = b
            /\ \A l \in DOMAIN epochs : \A p \in DOMAIN epochs[l].people :
                 epochs[l].people[p] = b => l = k /\ p = blocks[b].person

\* A violation that an audit reports is reported by every later audit: no
\* registration, revelation or proposal clears it.
ViolationsRemain ==
    [][/\ BadEpochs \subseteq BadEpochs'
       /\ BadOuter \subseteq BadOuter'
       /\ BadMembers \subseteq BadMembers']_vars
=============================================================================
