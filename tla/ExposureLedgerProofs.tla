------------------------ MODULE ExposureLedgerProofs ------------------------
(***************************************************************************)
(* The ledger keeps well-formed records and never clears a violation, and  *)
(* its audit is the verdict on the calls it accepted, for every finite set *)
(* of devices and people and every list of groups.                         *)
(***************************************************************************)
EXTENDS ExposureLedger, FiniteSetTheorems, SequenceTheorems, TLAPS

USE LedgerAssumption

\* What the lists of a call hold.
LEMMA ListElements ==
    ASSUME NEW S, NEW list \in Lists(S)
    PROVE  /\ Len(list) \in Nat
           /\ DOMAIN list = 1..Len(list)
           /\ \A i \in 1..Len(list) : list[i] \in S
           /\ Elements(list) \subseteq S
PROOF
  <1>1. PICK n \in 0..MaxGroups : list \in [1..n -> S]
    BY DEF Lists
  <1>2. n \in Nat /\ list \in Seq(S) /\ Len(list) = n
    BY <1>1
  <1>3. QED
    BY <1>1, <1>2 DEF Elements

\* A group that its constructor accepts.
LEMMA GroupTypes ==
    ASSUME NEW g \in TargetGroup
    PROVE  /\ g.person \in Persons
           /\ g.threshold \in Nat \ {0}
           /\ Elements(g.devices) \subseteq Devices
PROOF
  <1>1. g \in Groups /\ ValidGroup(g)
    BY DEF TargetGroup
  <1>2. g.devices \in Seq(Devices)
    BY <1>1
  <1>3. Elements(g.devices) \subseteq Devices
    BY <1>2 DEF Elements
  <1>4. QED
    BY <1>1, <1>3 DEF ValidGroup

\* Every block that a registration inserts is well formed.
LEMMA NewBlocksTypes ==
    ASSUME TypeOK, NEW specs \in Lists(MemberBlockSpec)
    PROVE  /\ DOMAIN NewBlocks(specs) \subseteq Blocks
           /\ \A b \in DOMAIN NewBlocks(specs) :
                NewBlocks(specs)[b] \in MemberBlock
PROOF
  <1>1. Elements(specs) \subseteq MemberBlockSpec
    BY ListElements
  <1>2. \A s \in Elements(specs) : s.block \in Blocks /\ s.group \in TargetGroup
    BY <1>1 DEF MemberBlockSpec
  <1>3. ASSUME NEW b \in DOMAIN NewBlocks(specs)
        PROVE  NewBlocks(specs)[b] \in MemberBlock
    <2> DEFINE s == CHOOSE t \in Elements(specs) : t.block = b
    <2>1. s \in Elements(specs)
      BY <1>3 DEF NewBlocks
    <2>2. s.group \in TargetGroup
      BY <1>2, <2>1
    <2>3. NewBlocks(specs)[b] = Registered(s.group)
      BY <1>3 DEF NewBlocks
    <2> HIDE DEF s
    <2>4. /\ s.group.person \in Persons
          /\ s.group.threshold \in Nat \ {0}
          /\ Elements(s.group.devices) \subseteq Devices
      BY <2>2, GroupTypes
    <2>5. Registered(s.group) \in MemberBlock
      BY <2>4 DEF Registered, MemberBlock
    <2>6. QED
      BY <2>3, <2>5
  <1>4. DOMAIN NewBlocks(specs) \subseteq Blocks
    BY <1>2 DEF NewBlocks
  <1>5. QED
    BY <1>3, <1>4

\* The people of a registration are mapped to the blocks it inserts.
LEMMA NewPeopleTypes ==
    ASSUME NEW specs \in Lists(MemberBlockSpec)
    PROVE  /\ DOMAIN NewPeople(specs) \subseteq Persons
           /\ \A p \in DOMAIN NewPeople(specs) :
                NewPeople(specs)[p] \in DOMAIN NewBlocks(specs)
PROOF
  <1>1. Elements(specs) \subseteq MemberBlockSpec
    BY ListElements
  <1>2. \A s \in Elements(specs) : s.group.person \in Persons
    BY <1>1, GroupTypes DEF MemberBlockSpec
  <1>3. ASSUME NEW p \in DOMAIN NewPeople(specs)
        PROVE  NewPeople(specs)[p] \in DOMAIN NewBlocks(specs)
    <2> DEFINE s == CHOOSE t \in Elements(specs) : t.group.person = p
    <2>1. s \in Elements(specs)
      BY <1>3 DEF NewPeople
    <2>2. NewPeople(specs)[p] = s.block
      BY <1>3 DEF NewPeople
    <2>3. QED
      BY <2>1, <2>2 DEF NewBlocks
  <1>4. DOMAIN NewPeople(specs) \subseteq Persons
    BY <1>2 DEF NewPeople
  <1>5. QED
    BY <1>3, <1>4

-----------------------------------------------------------------------------

\* What a registration leaves in the two maps: the old entries, and the new
\* ones beside them.
MapsAfter(vault, epoch, threshold, specs) ==
    /\ threshold \in Nat \ {0}
    /\ DOMAIN blocks' = DOMAIN blocks \cup DOMAIN NewBlocks(specs)
    /\ \A b \in DOMAIN blocks : blocks'[b] = blocks[b]
    /\ \A b \in DOMAIN NewBlocks(specs) : blocks'[b] = NewBlocks(specs)[b]
    /\ DOMAIN epochs' = DOMAIN epochs \cup {<<vault, epoch>>}
    /\ \A k \in DOMAIN epochs : epochs'[k] = epochs[k]
    /\ epochs'[<<vault, epoch>>] =
         [threshold |-> threshold, people |-> NewPeople(specs)]

LEMMA RegisterMaps ==
    ASSUME TypeOK, NEW vault \in Vaults, NEW epoch \in Epochs,
           NEW threshold \in Thresholds, NEW specs \in Lists(MemberBlockSpec),
           RegisterEpoch(vault, epoch, threshold, specs)
    PROVE  MapsAfter(vault, epoch, threshold, specs)
PROOF
  <1>1. threshold \in Nat \ {0}
    BY DEF RegisterEpoch, EnoughGroups
  <1>2. blocks' = Inserted(blocks, NewBlocks(specs))
    BY DEF RegisterEpoch
  <1>3. \A b \in DOMAIN NewBlocks(specs) : b \notin DOMAIN blocks
    BY DEF RegisterEpoch, FreshBlocks, NewBlocks, Elements
  <1>4. <<vault, epoch>> \notin DOMAIN epochs
    BY DEF RegisterEpoch, NewEpoch
  <1>5. epochs' = Inserted(epochs,
                    [k \in {<<vault, epoch>>} |->
                        [threshold |-> threshold, people |-> NewPeople(specs)]])
    BY DEF RegisterEpoch
  <1>6. /\ DOMAIN blocks' = DOMAIN blocks \cup DOMAIN NewBlocks(specs)
        /\ \A b \in DOMAIN blocks : blocks'[b] = blocks[b]
        /\ \A b \in DOMAIN NewBlocks(specs) : blocks'[b] = NewBlocks(specs)[b]
    BY <1>2, <1>3 DEF Inserted
  <1>7. /\ DOMAIN epochs' = DOMAIN epochs \cup {<<vault, epoch>>}
        /\ \A k \in DOMAIN epochs : epochs'[k] = epochs[k]
        /\ epochs'[<<vault, epoch>>] =
                [threshold |-> threshold, people |-> NewPeople(specs)]
    BY <1>4, <1>5 DEF Inserted
  <1>8. QED
    BY <1>1, <1>6, <1>7 DEF MapsAfter

-----------------------------------------------------------------------------

LEMMA TypeInit == Init => TypeOK
PROOF
  BY DEF Init, TypeOK

LEMMA TypeRegister ==
    ASSUME TypeOK, NEW vault \in Vaults, NEW epoch \in Epochs,
           NEW threshold \in Thresholds, NEW specs \in Lists(MemberBlockSpec),
           RegisterEpoch(vault, epoch, threshold, specs)
    PROVE  TypeOK'
PROOF
  <1>0. MapsAfter(vault, epoch, threshold, specs)
    BY RegisterMaps
  <1>1. UNCHANGED <<corrupt, outer, members>>
    BY DEF RegisterEpoch
  <1>2. /\ DOMAIN blocks' \subseteq Blocks
        /\ \A b \in DOMAIN blocks' : blocks'[b] \in MemberBlock
    <2>1. /\ DOMAIN NewBlocks(specs) \subseteq Blocks
          /\ \A b \in DOMAIN NewBlocks(specs) :
               NewBlocks(specs)[b] \in MemberBlock
      BY NewBlocksTypes
    <2>2. QED
      BY <1>0, <2>1 DEF MapsAfter, TypeOK
  <1>3. DOMAIN epochs' \subseteq Vaults \X Epochs
    BY <1>0 DEF MapsAfter, TypeOK
  <1>4. ASSUME NEW k \in DOMAIN epochs'
        PROVE  /\ epochs'[k].threshold \in Nat \ {0}
               /\ DOMAIN epochs'[k].people \subseteq Persons
               /\ \A p \in DOMAIN epochs'[k].people :
                    epochs'[k].people[p] \in DOMAIN blocks'
    <2>1. CASE k \in DOMAIN epochs
      BY <1>0, <2>1 DEF MapsAfter, TypeOK
    <2>2. CASE k = <<vault, epoch>>
      <3>1. /\ DOMAIN NewPeople(specs) \subseteq Persons
            /\ \A p \in DOMAIN NewPeople(specs) :
                 NewPeople(specs)[p] \in DOMAIN NewBlocks(specs)
        BY NewPeopleTypes
      <3>2. QED
        BY <1>0, <2>2, <3>1 DEF MapsAfter
    <2>3. QED
      BY <1>0, <2>1, <2>2 DEF MapsAfter
  <1>5. QED
    BY <1>1, <1>2, <1>3, <1>4 DEF TypeOK

LEMMA TypeReveal ==
    ASSUME TypeOK, NEW b \in Blocks, NEW d \in Devices, Reveal(b, d)
    PROVE  TypeOK'
PROOF
  <1>1. /\ b \in DOMAIN blocks
        /\ blocks' = [blocks EXCEPT ![b].revealed = @ \cup {d}]
        /\ UNCHANGED <<corrupt, epochs, outer, members>>
    BY DEF Reveal
  <1>2. DOMAIN blocks' = DOMAIN blocks
    BY <1>1
  <1>3. ASSUME NEW c \in DOMAIN blocks
        PROVE  blocks'[c] \in MemberBlock
    BY <1>1, <1>3 DEF TypeOK, MemberBlock
  <1>4. QED
    BY <1>1, <1>2, <1>3 DEF TypeOK

LEMMA TypeOuter ==
    ASSUME TypeOK, NEW command \in Commands, NEW threshold \in Thresholds,
           NEW targets \in Lists(TargetGroup),
           ExposeOuterCandidate(command, threshold, targets)
    PROVE  TypeOK'
PROOF
  <1> DEFINE held == {i \in 1..Len(targets) : TargetControlled(targets[i])}
  <1>1. Cardinality(held) \in Nat
    <2>0. Len(targets) \in Nat
      BY ListElements
    <2>1. IsFiniteSet(1..Len(targets))
      BY <2>0, FS_Interval
    <2>2. IsFiniteSet(held)
      BY <2>1, FS_Subset
    <2>3. QED
      BY <2>2, FS_CardinalityType
  <1>2. threshold \in Nat \ {0}
    BY DEF ExposeOuterCandidate, EnoughGroups
  <1>3. /\ outer' = Append(outer, [command |-> command,
                  threshold |-> threshold, controlled |-> Cardinality(held)])
        /\ UNCHANGED <<corrupt, blocks, epochs, members>>
    BY DEF ExposeOuterCandidate
  <1> HIDE DEF held
  <1>4. QED
    BY <1>1, <1>2, <1>3 DEF TypeOK

LEMMA TypeMember ==
    ASSUME TypeOK, NEW command \in Commands, NEW source \in Blocks,
           NEW target \in TargetGroup,
           ExposeMemberCandidate(command, source, target)
    PROVE  TypeOK'
PROOF
  <1>1. target.person \in Persons
    BY GroupTypes
  <1>2. /\ SourceControlled(blocks[source]) \in BOOLEAN
        /\ TargetControlled(target) \in BOOLEAN
    BY DEF SourceControlled, Controlled, TargetControlled
  <1>3. /\ members' = Append(members,
                [command |-> command, person |-> target.person,
                 source |-> SourceControlled(blocks[source]),
                 target |-> TargetControlled(target)])
        /\ UNCHANGED <<corrupt, blocks, epochs, outer>>
    BY DEF ExposeMemberCandidate
  <1>4. QED
    BY <1>1, <1>2, <1>3 DEF TypeOK

LEMMA TypeNext == TypeOK /\ [Next]_vars => TypeOK'
PROOF
  <1> SUFFICES ASSUME TypeOK, [Next]_vars PROVE TypeOK'
    OBVIOUS
  <1>1. CASE UNCHANGED vars
    BY <1>1 DEF vars, TypeOK
  <1>2. CASE Next
    BY <1>2, TypeRegister, TypeReveal, TypeOuter, TypeMember DEF Next
  <1>3. QED
    BY <1>1, <1>2

\* ExposureLedger keeps well-formed records: every threshold it compares
\* with is positive, so the limit threshold - 1 that audit() computes does
\* not wrap, and every person of an epoch has a registered block.
THEOREM LedgerTypes == Spec => []TypeOK
PROOF
  BY TypeInit, TypeNext, PTL DEF Spec

-----------------------------------------------------------------------------

\* A map that only gains control keeps an epoch over its limit.
LEMMA MoreControl ==
    ASSUME TypeOK, NEW k \in BadEpochs,
           k \in DOMAIN epochs', epochs'[k] = epochs[k],
           \A b \in DOMAIN blocks : Controlled(blocks[b])
                                     => Controlled(blocks'[b])
    PROVE  k \in BadEpochs'
PROOF
  <1> DEFINE people == epochs[k].people
             before == {p \in DOMAIN people : Controlled(blocks[people[p]])}
             after == {p \in DOMAIN people : Controlled(blocks'[people[p]])}
  <1>1. k \in DOMAIN epochs /\ Cardinality(before) > epochs[k].threshold - 1
    BY DEF BadEpochs, ControlledPeople
  <1>2. /\ DOMAIN people \subseteq Persons
        /\ \A p \in DOMAIN people : people[p] \in DOMAIN blocks
        /\ epochs[k].threshold \in Nat
    BY <1>1 DEF TypeOK
  <1>3. before \subseteq after
    BY <1>2
  <1>4. IsFiniteSet(after)
    BY <1>2, FS_Subset
  <1>5. /\ Cardinality(before) <= Cardinality(after)
        /\ Cardinality(before) \in Nat
        /\ Cardinality(after) \in Nat
    BY <1>3, <1>4, FS_Subset, FS_CardinalityType
  <1>6. ControlledPeople(epochs[k])' = Cardinality(after)
    BY DEF ControlledPeople
  <1> HIDE DEF before, after
  <1>7. Cardinality(after) > epochs[k].threshold - 1
    BY <1>1, <1>2, <1>5
  <1>8. QED
    BY <1>6, <1>7 DEF BadEpochs

LEMMA EpochsRemain ==
    ASSUME TypeOK, Next
    PROVE  BadEpochs \subseteq BadEpochs'
PROOF
  <1> SUFFICES ASSUME NEW k \in BadEpochs PROVE k \in BadEpochs'
    OBVIOUS
  <1>0. k \in DOMAIN epochs
    BY DEF BadEpochs
  <1>1. ASSUME NEW v \in Vaults, NEW e \in Epochs, NEW t \in Thresholds,
               NEW specs \in Lists(MemberBlockSpec),
               RegisterEpoch(v, e, t, specs)
        PROVE  k \in BadEpochs'
    <2>1. MapsAfter(v, e, t, specs)
      BY <1>1, RegisterMaps
    <2>2. /\ k \in DOMAIN epochs' /\ epochs'[k] = epochs[k]
          /\ \A b \in DOMAIN blocks : blocks'[b] = blocks[b]
      BY <1>0, <2>1 DEF MapsAfter
    <2>3. QED
      BY <2>2, MoreControl
  <1>2. ASSUME NEW b \in Blocks, NEW d \in Devices, Reveal(b, d)
        PROVE  k \in BadEpochs'
    <2>1. /\ b \in DOMAIN blocks
          /\ blocks' = [blocks EXCEPT ![b].revealed = @ \cup {d}]
          /\ epochs' = epochs
      BY <1>2 DEF Reveal
    <2>2. ASSUME NEW c \in DOMAIN blocks, Controlled(blocks[c])
          PROVE  Controlled(blocks'[c])
      <3>1. /\ blocks[c].revealed \subseteq blocks'[c].revealed
            /\ blocks'[c].revealed \subseteq Devices
            /\ blocks'[c].threshold = blocks[c].threshold
            /\ blocks[c].threshold \in Nat
        BY <2>1, <2>2 DEF TypeOK, MemberBlock
      <3>2. IsFiniteSet(blocks'[c].revealed)
        BY <3>1, FS_Subset
      <3>3. /\ Cardinality(blocks[c].revealed)
                 <= Cardinality(blocks'[c].revealed)
            /\ Cardinality(blocks[c].revealed) \in Nat
            /\ Cardinality(blocks'[c].revealed) \in Nat
        BY <3>1, <3>2, FS_Subset, FS_CardinalityType
      <3>4. QED
        BY <2>2, <3>1, <3>3 DEF Controlled
    <2>3. QED
      BY <1>0, <2>1, <2>2, MoreControl
  <1>3. ASSUME UNCHANGED <<blocks, epochs>>
        PROVE  k \in BadEpochs'
    BY <1>0, <1>3, MoreControl
  <1>4. QED
    BY <1>1, <1>2, <1>3 DEF Next, ExposeOuterCandidate, ExposeMemberCandidate

\* Both lists of proposals only ever grow at the end.
LEMMA ListsGrow ==
    ASSUME TypeOK, Next
    PROVE  /\ Len(outer) <= Len(outer')
           /\ \A i \in 1..Len(outer) : outer'[i] = outer[i]
           /\ Len(members) <= Len(members')
           /\ \A i \in 1..Len(members) : members'[i] = members[i]
PROOF
  <1>1. outer' = outer \/ \E r : outer' = Append(outer, r)
    BY DEF Next, RegisterEpoch, Reveal, ExposeOuterCandidate,
           ExposeMemberCandidate
  <1>2. members' = members \/ \E r : members' = Append(members, r)
    BY DEF Next, RegisterEpoch, Reveal, ExposeOuterCandidate,
           ExposeMemberCandidate
  <1>3. /\ Len(outer) <= Len(outer')
        /\ \A i \in 1..Len(outer) : outer'[i] = outer[i]
    <2>1. CASE outer' = outer
      BY <2>1 DEF TypeOK
    <2>2. CASE \E r : outer' = Append(outer, r)
      BY <2>2 DEF TypeOK
    <2>3. QED
      BY <1>1, <2>1, <2>2
  <1>4. /\ Len(members) <= Len(members')
        /\ \A i \in 1..Len(members) : members'[i] = members[i]
    <2>1. CASE members' = members
      BY <2>1 DEF TypeOK
    <2>2. CASE \E r : members' = Append(members, r)
      BY <2>2 DEF TypeOK
    <2>3. QED
      BY <1>2, <2>1, <2>2
  <1>5. QED
    BY <1>3, <1>4

LEMMA CandidatesRemain ==
    ASSUME TypeOK, Next
    PROVE  BadOuter \subseteq BadOuter' /\ BadMembers \subseteq BadMembers'
PROOF
  <1>1. /\ Len(outer) <= Len(outer')
        /\ \A i \in 1..Len(outer) : outer'[i] = outer[i]
        /\ Len(members) <= Len(members')
        /\ \A i \in 1..Len(members) : members'[i] = members[i]
    BY ListsGrow
  <1>2. TypeOK'
    BY TypeNext
  <1>3. /\ 1..Len(outer) \subseteq 1..Len(outer')
        /\ 1..Len(members) \subseteq 1..Len(members')
    BY <1>1, <1>2 DEF TypeOK
  <1>4. BadOuter \subseteq BadOuter'
    BY <1>1, <1>3 DEF BadOuter
  <1>5. BadMembers \subseteq BadMembers'
    BY <1>1, <1>3 DEF BadMembers
  <1>6. QED
    BY <1>4, <1>5

\* ExposureLedger::audit() never forgets: whatever is registered, revealed or
\* proposed later, every violation it has reported is reported again.
THEOREM AuditNeverClears == Spec => ViolationsRemain
PROOF
  <1>1. TypeOK /\ [Next]_vars =>
          [/\ BadEpochs \subseteq BadEpochs'
           /\ BadOuter \subseteq BadOuter'
           /\ BadMembers \subseteq BadMembers']_vars
    BY EpochsRemain, CandidatesRemain
  <1>2. QED
    BY <1>1, LedgerTypes, PTL DEF Spec, ViolationsRemain
-----------------------------------------------------------------------------

\* The specifications that a registration accepts differ in block and person.
LEMMA SpecsDiffer ==
    ASSUME NEW specs \in Lists(MemberBlockSpec), FreshBlocks(specs),
           NEW s \in Elements(specs), NEW t \in Elements(specs),
           \/ s.block = t.block
           \/ s.group.person = t.group.person
    PROVE  s = t
PROOF
  <1>1. PICK i \in 1..Len(specs) : s = specs[i]
    BY DEF Elements
  <1>2. PICK j \in 1..Len(specs) : t = specs[j]
    BY DEF Elements
  <1>3. Len(specs) \in Nat
    BY ListElements
  <1> DEFINE people == [n \in 1..Len(specs) |-> specs[n].group.person]
             names == [n \in 1..Len(specs) |-> specs[n].block]
  <1>4. /\ people \in Seq({specs[n].group.person : n \in 1..Len(specs)})
        /\ names \in Seq({specs[n].block : n \in 1..Len(specs)})
        /\ Len(people) = Len(specs)
        /\ Len(names) = Len(specs)
    BY <1>3
  <1>5. IsDistinct(people) /\ IsDistinct(names)
    BY DEF FreshBlocks
  <1>6. people[i] = people[j] \/ names[i] = names[j]
    BY <1>1, <1>2
  <1> HIDE DEF people, names
  <1>7. i = j
    BY <1>4, <1>5, <1>6 DEF IsDistinct
  <1>8. QED
    BY <1>1, <1>2, <1>7

\* A registration gives each new block to the person it was specified for,
\* and to no one else.
LEMMA NewBlocksOwned ==
    ASSUME NEW specs \in Lists(MemberBlockSpec), FreshBlocks(specs),
           NEW b \in DOMAIN NewBlocks(specs)
    PROVE  /\ NewBlocks(specs)[b].person \in DOMAIN NewPeople(specs)
           /\ NewPeople(specs)[NewBlocks(specs)[b].person] = b
           /\ \A p \in DOMAIN NewPeople(specs) :
                NewPeople(specs)[p] = b => p = NewBlocks(specs)[b].person
PROOF
  <1>1. ASSUME NEW s \in Elements(specs), NEW t \in Elements(specs),
               \/ s.block = t.block
               \/ s.group.person = t.group.person
        PROVE  s = t
    BY <1>1, SpecsDiffer
  <1> DEFINE s == CHOOSE t \in Elements(specs) : t.block = b
  <1>2. s \in Elements(specs) /\ s.block = b
    BY DEF NewBlocks
  <1>3. NewBlocks(specs)[b].person = s.group.person
    BY DEF NewBlocks, Registered
  <1>4. ASSUME NEW p \in DOMAIN NewPeople(specs)
        PROVE  \E t \in Elements(specs) :
                 t.group.person = p /\ NewPeople(specs)[p] = t.block
    BY DEF NewPeople
  <1> HIDE DEF s
  <1>5. s.group.person \in DOMAIN NewPeople(specs)
    BY <1>2 DEF NewPeople
  <1>6. NewPeople(specs)[s.group.person] = b
    BY <1>1, <1>2, <1>4, <1>5
  <1>7. \A p \in DOMAIN NewPeople(specs) :
          NewPeople(specs)[p] = b => p = s.group.person
    BY <1>1, <1>2, <1>4
  <1>8. QED
    BY <1>3, <1>5, <1>6, <1>7

LEMMA BlocksRegister ==
    ASSUME TypeOK, BlocksOfOneEpoch,
           NEW vault \in Vaults, NEW epoch \in Epochs,
           NEW threshold \in Thresholds, NEW specs \in Lists(MemberBlockSpec),
           RegisterEpoch(vault, epoch, threshold, specs)
    PROVE  BlocksOfOneEpoch'
PROOF
  <1> DEFINE key == <<vault, epoch>>
             Owned(b, k) ==
                /\ blocks'[b].person \in DOMAIN epochs'[k].people
                /\ epochs'[k].people[blocks'[b].person] = b
                /\ \A l \in DOMAIN epochs' : \A p \in DOMAIN epochs'[l].people :
                     epochs'[l].people[p] = b => l = k /\ p = blocks'[b].person
  <1>0. MapsAfter(vault, epoch, threshold, specs)
    BY RegisterMaps
  <1>1. FreshBlocks(specs) /\ key \notin DOMAIN epochs
    BY DEF RegisterEpoch, NewEpoch
  <1>2. \A b \in DOMAIN NewBlocks(specs) : b \notin DOMAIN blocks
    BY <1>1 DEF FreshBlocks, NewBlocks, Elements
  <1>3. \A k \in DOMAIN epochs : \A p \in DOMAIN epochs[k].people :
          epochs[k].people[p] \in DOMAIN blocks
    BY DEF TypeOK
  <1>4. \A p \in DOMAIN NewPeople(specs) :
          NewPeople(specs)[p] \in DOMAIN NewBlocks(specs)
    BY NewPeopleTypes
  <1>5. ASSUME NEW b \in DOMAIN blocks
        PROVE  \E k \in DOMAIN epochs' : Owned(b, k)
    <2>1. PICK k \in DOMAIN epochs :
            /\ blocks[b].person \in DOMAIN epochs[k].people
            /\ epochs[k].people[blocks[b].person] = b
            /\ \A l \in DOMAIN epochs : \A p \in DOMAIN epochs[l].people :
                 epochs[l].people[p] = b => l = k /\ p = blocks[b].person
      BY DEF BlocksOfOneEpoch
    <2>2. /\ k \in DOMAIN epochs'
          /\ epochs'[k] = epochs[k]
          /\ blocks'[b] = blocks[b]
          /\ epochs'[key].people = NewPeople(specs)
      BY <1>0 DEF MapsAfter
    <2>3. b \notin DOMAIN NewBlocks(specs)
      BY <1>2
    <2>4. ASSUME NEW l \in DOMAIN epochs', NEW p \in DOMAIN epochs'[l].people,
                 epochs'[l].people[p] = b
          PROVE  l = k /\ p = blocks[b].person
      <3>1. l # key
        BY <1>4, <2>2, <2>3, <2>4
      <3>2. l \in DOMAIN epochs /\ epochs'[l] = epochs[l]
        BY <1>0, <3>1 DEF MapsAfter
      <3>3. QED
        BY <2>1, <2>4, <3>2
    <2>5. QED
      BY <2>1, <2>2, <2>4
  <1>6. ASSUME NEW b \in DOMAIN NewBlocks(specs)
        PROVE  \E k \in DOMAIN epochs' : Owned(b, k)
    <2>1. /\ NewBlocks(specs)[b].person \in DOMAIN NewPeople(specs)
          /\ NewPeople(specs)[NewBlocks(specs)[b].person] = b
          /\ \A p \in DOMAIN NewPeople(specs) :
               NewPeople(specs)[p] = b => p = NewBlocks(specs)[b].person
      BY <1>1, NewBlocksOwned
    <2>2. /\ key \in DOMAIN epochs'
          /\ epochs'[key].people = NewPeople(specs)
          /\ blocks'[b] = NewBlocks(specs)[b]
      BY <1>0 DEF MapsAfter
    <2>3. ASSUME NEW l \in DOMAIN epochs', NEW p \in DOMAIN epochs'[l].people,
                 epochs'[l].people[p] = b
          PROVE  l = key
      <3>1. CASE l \in DOMAIN epochs
        BY <1>0, <1>2, <1>3, <2>3, <3>1 DEF MapsAfter
      <3>2. QED
        BY <1>0, <3>1 DEF MapsAfter
    <2>4. QED
      BY <2>1, <2>2, <2>3
  <1> HIDE DEF Owned
  <1>7. \A b \in DOMAIN blocks' : \E k \in DOMAIN epochs' : Owned(b, k)
    BY <1>0, <1>5, <1>6 DEF MapsAfter
  <1>8. QED
    BY <1>7 DEF BlocksOfOneEpoch, Owned

LEMMA BlocksNext == TypeOK /\ BlocksOfOneEpoch /\ [Next]_vars
                      => BlocksOfOneEpoch'
PROOF
  <1> SUFFICES ASSUME TypeOK, BlocksOfOneEpoch, [Next]_vars
               PROVE  BlocksOfOneEpoch'
    OBVIOUS
  <1>1. ASSUME NEW b \in Blocks, NEW d \in Devices, Reveal(b, d)
        PROVE  BlocksOfOneEpoch'
    <2>1. /\ b \in DOMAIN blocks
          /\ blocks' = [blocks EXCEPT ![b].revealed = @ \cup {d}]
          /\ epochs' = epochs
      BY <1>1 DEF Reveal
    <2>2. \A c \in DOMAIN blocks : blocks'[c].person = blocks[c].person
      BY <2>1 DEF TypeOK, MemberBlock
    <2>3. DOMAIN blocks' = DOMAIN blocks
      BY <2>1
    <2>4. QED
      BY <2>1, <2>2, <2>3 DEF BlocksOfOneEpoch
  <1>2. ASSUME UNCHANGED <<blocks, epochs>>
        PROVE  BlocksOfOneEpoch'
    BY <1>2 DEF BlocksOfOneEpoch
  <1>3. QED
    BY <1>1, <1>2, BlocksRegister
       DEF Next, vars, ExposeOuterCandidate, ExposeMemberCandidate

\* ExposureLedger::register_epoch() gives every block to one epoch and one
\* person: the same block never counts for two epochs, and a refused call
\* leaves no block behind.
THEOREM BlocksHaveOneEpoch == Spec => []BlocksOfOneEpoch
PROOF
  <1>1. Init => BlocksOfOneEpoch
    BY DEF Init, BlocksOfOneEpoch
  <1>2. QED
    BY <1>1, BlocksNext, LedgerTypes, PTL DEF Spec

-----------------------------------------------------------------------------
(* The ledger against the history of accepted calls *)

EpochCall == [op : {"epoch"}, vault : Vaults, epoch : Epochs,
              threshold : Nat \ {0}, specs : Lists(MemberBlockSpec)]
RevealCall == [op : {"reveal"}, block : Blocks, device : Devices]
OuterCall == [op : {"outer"}, command : Commands, threshold : Nat \ {0},
              targets : Lists(TargetGroup)]
MemberCall == [op : {"member"}, command : Commands, source : Blocks,
               target : TargetGroup]
Call == EpochCall \cup RevealCall \cup OuterCall \cup MemberCall

\* Every specification that was registered.
Specs == UNION {Elements(history[i].specs) : i \in Calls("epoch", Len(history))}

\* The calls of a kind among the first n of history h, and the devices that
\* they reveal for block b.
CallsOf(h, op, n) == {i \in 1 .. n : h[i].op = op}
RevealsOf(h, n, b) ==
    {h[i].device : i \in {j \in CallsOf(h, "reveal", n) : h[j].block = b}}

\* Whether the devices c alone control group g, and whether they do together
\* with the first n calls of h, when g is registered as block b.
ControlledBy(c, g) == Cardinality(Elements(g.devices) \cap c) >= g.threshold
KnownBy(c, h, n, s) ==
    (Elements(s.group.devices) \cap c) \cup RevealsOf(h, n, s.block)
HeldBy(c, h, n, s) == Cardinality(KnownBy(c, h, n, s)) >= s.group.threshold

\* The registered blocks are those of the specifications, one for each, and
\* know what was known at registration and what was revealed since.
BlocksRecorded ==
    /\ \A s, t \in Specs : s.block = t.block => s = t
    /\ DOMAIN blocks = {s.block : s \in Specs}
    /\ \A s \in Specs :
         /\ blocks[s.block].threshold = s.group.threshold
         /\ blocks[s.block].revealed = KnownBy(corrupt, history, Len(history), s)
    /\ \A i \in Calls("reveal", Len(history)) : history[i].block \in DOMAIN blocks

KeyOf(call) == <<call.vault, call.epoch>>

\* No two specifications of a call are for the same person.
OneEach(specs) ==
    \A s, t \in Elements(specs) : s.group.person = t.group.person => s = t

\* What an epoch records of its call.
SameEpoch(record, call) ==
    /\ record.threshold = call.threshold
    /\ record.people = NewPeople(call.specs)
    /\ OneEach(call.specs)

\* The registered epochs are those of the accepted calls.
EpochsRecorded ==
    /\ \A i \in Calls("epoch", Len(history)) :
         /\ KeyOf(history[i]) \in DOMAIN epochs
         /\ SameEpoch(epochs[KeyOf(history[i])], history[i])
    /\ \A k \in DOMAIN epochs :
         \E i \in Calls("epoch", Len(history)) : k = KeyOf(history[i])

\* What an outer proposal records of its call, for the corrupt devices c.
SameOuter(c, record, call) ==
    /\ record.command = call.command
    /\ record.threshold = call.threshold
    /\ record.controlled =
         Cardinality({g \in Elements(call.targets) : ControlledBy(c, g)})

OuterRecorded ==
    /\ \A j \in 1 .. Len(outer) :
         \E i \in Calls("outer", Len(history)) :
            SameOuter(corrupt, outer[j], history[i])
    /\ \A i \in Calls("outer", Len(history)) :
         \E j \in 1 .. Len(outer) : SameOuter(corrupt, outer[j], history[i])

\* What a member proposal records of call number i of h: whether its source,
\* one of specs, was controlled by the calls before it.
SameMember(c, h, specs, record, i) ==
    /\ record.command = h[i].command
    /\ \E s \in specs :
         /\ s.block = h[i].source
         /\ record.source <=> HeldBy(c, h, i - 1, s)
    /\ record.target <=> ControlledBy(c, h[i].target)

MembersRecorded ==
    /\ \A j \in 1 .. Len(members) :
         \E i \in Calls("member", Len(history)) :
            SameMember(corrupt, history, Specs, members[j], i)
    /\ \A i \in Calls("member", Len(history)) :
         \E j \in 1 .. Len(members) :
            SameMember(corrupt, history, Specs, members[j], i)

HInv ==
    /\ TypeOK
    /\ history \in Seq(Call)
    /\ BlocksRecorded
    /\ EpochsRecorded
    /\ OuterRecorded
    /\ MembersRecorded

-----------------------------------------------------------------------------

\* A call of a kind has the fields of that kind.
LEMMA CallFields ==
    ASSUME NEW call \in Call
    PROVE  /\ call.op = "epoch" => call \in EpochCall
           /\ call.op = "reveal" => call \in RevealCall
           /\ call.op = "outer" => call \in OuterCall
           /\ call.op = "member" => call \in MemberCall
BY DEF Call, EpochCall, RevealCall, OuterCall, MemberCall

\* The history has grown by one call.
Grown(n, call) ==
    /\ n = Len(history) /\ n \in Nat
    /\ call \in Call
    /\ history' \in Seq(Call)
    /\ Len(history') = n + 1
    /\ \A i \in 1 .. n : history'[i] = history[i]
    /\ history'[n + 1] = call
    /\ corrupt' = corrupt

LEMMA AcceptGrows ==
    ASSUME HInv, NEW call \in Call, Accept(call), corrupt' = corrupt
    PROVE  Grown(Len(history), call)
<1>1. history' = Append(history, call) /\ history \in Seq(Call)
  BY DEF Accept, HInv
<1>2. /\ Len(history) \in Nat
      /\ history' \in Seq(Call)
      /\ Len(history') = Len(history) + 1
      /\ \A i \in 1 .. Len(history) : history'[i] = history[i]
      /\ history'[Len(history) + 1] = call
  BY <1>1
<1> QED
  BY <1>2 DEF Grown

\* The calls of a kind after one more call.
LEMMA GrownCalls ==
    ASSUME NEW n, NEW call, Grown(n, call), NEW op
    PROVE  /\ \A m \in 0 .. n : CallsOf(history', op, m) = CallsOf(history, op, m)
           /\ call.op = op => CallsOf(history', op, n + 1) =
                                CallsOf(history, op, n) \cup {n + 1}
           /\ call.op # op => CallsOf(history', op, n + 1) =
                                CallsOf(history, op, n)
           /\ \A m \in 0 .. n : \A i \in CallsOf(history, op, m) :
                i \in 1 .. n /\ history'[i] = history[i] /\ history[i].op = op
<1>1. /\ n \in Nat
      /\ \A i \in 1 .. n : history'[i] = history[i]
      /\ history'[n + 1] = call
  BY DEF Grown
<1>2. ASSUME NEW m \in 0 .. n
      PROVE  CallsOf(history', op, m) = CallsOf(history, op, m)
  BY <1>1 DEF CallsOf
<1>3. 1 .. n + 1 = 1 .. n \cup {n + 1}
  BY <1>1
<1>4. CallsOf(history', op, n + 1) =
        CallsOf(history, op, n) \cup (IF call.op = op THEN {n + 1} ELSE {})
  BY <1>1, <1>3 DEF CallsOf
<1>5. ASSUME NEW m \in 0 .. n, NEW i \in CallsOf(history, op, m)
      PROVE  i \in 1 .. n /\ history'[i] = history[i] /\ history[i].op = op
  BY <1>1 DEF CallsOf
<1>6. call.op # op => CallsOf(history', op, n + 1) = CallsOf(history, op, n)
  BY <1>4
<1> QED
  BY <1>2, <1>4, <1>5, <1>6

\* The calls of a kind in the whole history, now and after one more call.
LEMMA AllCalls ==
    ASSUME NEW n, NEW call, Grown(n, call), NEW op
    PROVE  /\ Calls(op, Len(history)) = CallsOf(history, op, n)
           /\ Calls(op, Len(history))' = CallsOf(history', op, n + 1)
BY DEF Grown, Calls, CallsOf

\* The specifications after one more call.
LEMMA GrownSpecs ==
    ASSUME NEW n, NEW call, Grown(n, call)
    PROVE  Specs' = Specs \cup (IF call.op = "epoch" THEN Elements(call.specs)
                                ELSE {})
<1> DEFINE old == CallsOf(history, "epoch", n)
           new == CallsOf(history', "epoch", n + 1)
<1>1. /\ new = old \cup (IF call.op = "epoch" THEN {n + 1} ELSE {})
      /\ \A i \in old : history'[i] = history[i]
      /\ history'[n + 1] = call
  <2>1. n \in 0 .. n /\ history'[n + 1] = call
    BY DEF Grown
  <2> QED
    BY <2>1, GrownCalls
<1>2. Calls("epoch", Len(history)) = old /\ Calls("epoch", Len(history))' = new
  BY AllCalls
<1>3. Specs' = UNION {Elements(history'[i].specs) : i \in new}
  BY <1>2 DEF Specs, Elements
<1>4. Specs = UNION {Elements(history[i].specs) : i \in old}
  BY <1>2 DEF Specs
<1> HIDE DEF old, new
<1> QED
  BY <1>1, <1>3, <1>4

\* The revelations after one more call.
LEMMA GrownReveals ==
    ASSUME NEW n, NEW call, Grown(n, call), NEW b
    PROVE  /\ \A m \in 0 .. n : RevealsOf(history', m, b) = RevealsOf(history, m, b)
           /\ RevealsOf(history', n + 1, b) =
                RevealsOf(history, n, b)
                  \cup (IF call.op = "reveal" /\ call.block = b
                        THEN {call.device} ELSE {})
<1>1. n \in 0 .. n /\ history'[n + 1] = call
  BY DEF Grown
<1>2. ASSUME NEW m \in 0 .. n
      PROVE  RevealsOf(history', m, b) = RevealsOf(history, m, b)
  <2>1. CallsOf(history', "reveal", m) = CallsOf(history, "reveal", m)
    BY GrownCalls
  <2>2. \A i \in CallsOf(history, "reveal", m) : history'[i] = history[i]
    BY GrownCalls
  <2> QED
    BY <2>1, <2>2 DEF RevealsOf
<1>3. /\ CallsOf(history', "reveal", n + 1) =
           CallsOf(history, "reveal", n)
             \cup (IF call.op = "reveal" THEN {n + 1} ELSE {})
      /\ \A i \in CallsOf(history, "reveal", n) : history'[i] = history[i]
  <2>1. call.op = "reveal" => CallsOf(history', "reveal", n + 1) =
                                CallsOf(history, "reveal", n) \cup {n + 1}
    BY GrownCalls
  <2>2. call.op # "reveal" => CallsOf(history', "reveal", n + 1) =
                                CallsOf(history, "reveal", n)
    BY GrownCalls
  <2>3. \A i \in CallsOf(history, "reveal", n) : history'[i] = history[i]
    BY <1>1, GrownCalls
  <2> QED
    BY <2>1, <2>2, <2>3
<1>4. RevealsOf(history', n + 1, b) =
        RevealsOf(history, n, b)
          \cup (IF call.op = "reveal" /\ call.block = b
                THEN {call.device} ELSE {})
  BY <1>1, <1>3 DEF RevealsOf
<1> QED
  BY <1>2, <1>4

-----------------------------------------------------------------------------
(* Each call keeps the records *)

\* What stays to be shown of the blocks after one more call.
LEMMA BlocksAfter ==
    ASSUME NEW n, NEW call, Grown(n, call),
           \A s, t \in Specs' : s.block = t.block => s = t,
           DOMAIN blocks' = {s.block : s \in Specs'},
           \A s \in Specs' :
             /\ blocks'[s.block].threshold = s.group.threshold
             /\ blocks'[s.block].revealed =
                  KnownBy(corrupt, history', n + 1, s),
           \A i \in CallsOf(history', "reveal", n + 1) :
              history'[i].block \in DOMAIN blocks'
    PROVE  BlocksRecorded'
<1>1. corrupt' = corrupt /\ Len(history') = n + 1
  BY DEF Grown
<1>2. Calls("reveal", Len(history))' = CallsOf(history', "reveal", n + 1)
  BY AllCalls
<1> QED
  BY <1>1, <1>2 DEF BlocksRecorded

\* What the records say of the blocks before the call.
LEMMA BlocksBefore ==
    ASSUME HInv, NEW n, NEW call, Grown(n, call)
    PROVE  /\ \A s, t \in Specs : s.block = t.block => s = t
           /\ DOMAIN blocks = {s.block : s \in Specs}
           /\ \A s \in Specs :
                /\ blocks[s.block].threshold = s.group.threshold
                /\ blocks[s.block].revealed = KnownBy(corrupt, history, n, s)
           /\ \A i \in CallsOf(history, "reveal", n) :
                history[i].block \in DOMAIN blocks
<1>1. n = Len(history)
  BY DEF Grown
<1>2. Calls("reveal", Len(history)) = CallsOf(history, "reveal", n)
  BY AllCalls
<1> QED
  BY <1>1, <1>2 DEF HInv, BlocksRecorded

\* What is known of a block after a call that is no revelation for it.
LEMMA KnownKept ==
    ASSUME NEW n, NEW call, Grown(n, call), NEW s,
           call.op # "reveal" \/ call.block # s.block
    PROVE  KnownBy(corrupt, history', n + 1, s) = KnownBy(corrupt, history, n, s)
BY GrownReveals DEF KnownBy

\* Proposals leave the blocks alone.
LEMMA BlocksKept ==
    ASSUME HInv, NEW n, NEW call, Grown(n, call),
           call.op # "epoch", call.op # "reveal", blocks' = blocks
    PROVE  BlocksRecorded'
<1>1. /\ \A s, t \in Specs : s.block = t.block => s = t
      /\ DOMAIN blocks = {s.block : s \in Specs}
      /\ \A s \in Specs :
           /\ blocks[s.block].threshold = s.group.threshold
           /\ blocks[s.block].revealed = KnownBy(corrupt, history, n, s)
      /\ \A i \in CallsOf(history, "reveal", n) :
           history[i].block \in DOMAIN blocks
  BY BlocksBefore
<1>2. Specs' = Specs
  BY GrownSpecs
<1>3. \A s : KnownBy(corrupt, history', n + 1, s) = KnownBy(corrupt, history, n, s)
  BY KnownKept
<1>4. n \in 0 .. n
  BY DEF Grown
<1>5. CallsOf(history', "reveal", n + 1) = CallsOf(history, "reveal", n)
  BY GrownCalls
<1>6. \A i \in CallsOf(history, "reveal", n) : history'[i] = history[i]
  BY <1>4, GrownCalls
<1> QED
  BY <1>1, <1>2, <1>3, <1>5, <1>6, BlocksAfter

\* A revelation adds its device to what is known of its block.
LEMMA BlocksReveal ==
    ASSUME HInv, NEW n, NEW b \in Blocks, NEW d \in Devices,
           Grown(n, [op |-> "reveal", block |-> b, device |-> d]), Reveal(b, d)
    PROVE  BlocksRecorded'
<1> DEFINE call == [op |-> "reveal", block |-> b, device |-> d]
<1>0. /\ Grown(n, call)
      /\ call.op = "reveal" /\ call.block = b /\ call.device = d
  OBVIOUS
<1> HIDE DEF call
<1>1. /\ \A s, t \in Specs : s.block = t.block => s = t
      /\ DOMAIN blocks = {s.block : s \in Specs}
      /\ \A s \in Specs :
           /\ blocks[s.block].threshold = s.group.threshold
           /\ blocks[s.block].revealed = KnownBy(corrupt, history, n, s)
      /\ \A i \in CallsOf(history, "reveal", n) :
           history[i].block \in DOMAIN blocks
  BY <1>0, BlocksBefore
<1>2. Specs' = Specs
  BY <1>0, GrownSpecs
<1>3. /\ b \in DOMAIN blocks
      /\ blocks' = [blocks EXCEPT ![b].revealed = @ \cup {d}]
  BY DEF Reveal
<1>4. DOMAIN blocks' = DOMAIN blocks
  BY <1>3
<1>5. \A c \in DOMAIN blocks : blocks[c] \in MemberBlock
  BY DEF HInv, TypeOK
<1>6. ASSUME NEW s \in Specs
      PROVE  /\ blocks'[s.block].threshold = s.group.threshold
             /\ blocks'[s.block].revealed = KnownBy(corrupt, history', n + 1, s)
  <2>1. CASE s.block = b
    <3>1. /\ blocks'[b].threshold = blocks[b].threshold
          /\ blocks'[b].revealed = blocks[b].revealed \cup {d}
      BY <1>3, <1>5 DEF MemberBlock
    <3>2. RevealsOf(history', n + 1, b) = RevealsOf(history, n, b) \cup {d}
      BY <1>0, GrownReveals
    <3>3. KnownBy(corrupt, history', n + 1, s) =
            KnownBy(corrupt, history, n, s) \cup {d}
      BY <2>1, <3>2 DEF KnownBy
    <3> QED
      BY <1>1, <2>1, <3>1, <3>3
  <2>2. CASE s.block # b
    <3>1. blocks'[s.block] = blocks[s.block]
      BY <1>1, <1>3, <2>2
    <3>2. KnownBy(corrupt, history', n + 1, s) = KnownBy(corrupt, history, n, s)
      BY <1>0, <2>2, KnownKept
    <3> QED
      BY <1>1, <3>1, <3>2
  <2> QED
    BY <2>1, <2>2
<1>7. ASSUME NEW i \in CallsOf(history', "reveal", n + 1)
      PROVE  history'[i].block \in DOMAIN blocks'
  <2>1. n \in 0 .. n /\ history'[n + 1] = call
    BY <1>0 DEF Grown
  <2>2. CallsOf(history', "reveal", n + 1) =
          CallsOf(history, "reveal", n) \cup {n + 1}
    BY <1>0, GrownCalls
  <2>3. \A k \in CallsOf(history, "reveal", n) : history'[k] = history[k]
    BY <1>0, <2>1, GrownCalls
  <2> QED
    BY <1>0, <1>1, <1>3, <1>4, <2>1, <2>2, <2>3
<1> QED
  BY <1>0, <1>1, <1>2, <1>4, <1>6, <1>7, BlocksAfter

\* The blocks that a registration inserts are those of its specifications.
LEMMA NewBlocksAre ==
    ASSUME NEW specs \in Lists(MemberBlockSpec), FreshBlocks(specs)
    PROVE  /\ DOMAIN NewBlocks(specs) = {s.block : s \in Elements(specs)}
           /\ \A s \in Elements(specs) :
                /\ NewBlocks(specs)[s.block] = Registered(s.group)
                /\ s.block \notin DOMAIN blocks
<1>1. DOMAIN NewBlocks(specs) = {s.block : s \in Elements(specs)}
  BY DEF NewBlocks
<1>2. ASSUME NEW s \in Elements(specs)
      PROVE  NewBlocks(specs)[s.block] = Registered(s.group)
  <2> DEFINE t == CHOOSE u \in Elements(specs) : u.block = s.block
  <2>1. t \in Elements(specs) /\ t.block = s.block
    OBVIOUS
  <2>2. NewBlocks(specs)[s.block] = Registered(t.group)
    BY DEF NewBlocks
  <2> HIDE DEF t
  <2>3. t = s
    BY <2>1, SpecsDiffer
  <2> QED
    BY <2>2, <2>3
<1>3. \A s \in Elements(specs) : s.block \notin DOMAIN blocks
  BY DEF FreshBlocks, Elements
<1> QED
  BY <1>1, <1>2, <1>3

\* A registration adds the blocks of its specifications, of which the corrupt
\* devices' scalars are known.
LEMMA BlocksEpoch ==
    ASSUME HInv, NEW n, NEW call, Grown(n, call), call.op = "epoch",
           NEW vault, NEW epoch, NEW threshold,
           NEW specs \in Lists(MemberBlockSpec), call.specs = specs,
           FreshBlocks(specs), MapsAfter(vault, epoch, threshold, specs)
    PROVE  BlocksRecorded'
<1>1. /\ \A s, t \in Specs : s.block = t.block => s = t
      /\ DOMAIN blocks = {s.block : s \in Specs}
      /\ \A s \in Specs :
           /\ blocks[s.block].threshold = s.group.threshold
           /\ blocks[s.block].revealed = KnownBy(corrupt, history, n, s)
      /\ \A i \in CallsOf(history, "reveal", n) :
           history[i].block \in DOMAIN blocks
  BY BlocksBefore
<1>2. Specs' = Specs \cup Elements(specs)
  BY GrownSpecs
<1>3. /\ DOMAIN NewBlocks(specs) = {s.block : s \in Elements(specs)}
      /\ \A s \in Elements(specs) :
           /\ NewBlocks(specs)[s.block] = Registered(s.group)
           /\ s.block \notin DOMAIN blocks
  BY NewBlocksAre
<1>4. /\ DOMAIN blocks' = DOMAIN blocks \cup DOMAIN NewBlocks(specs)
      /\ \A b \in DOMAIN blocks : blocks'[b] = blocks[b]
      /\ \A b \in DOMAIN NewBlocks(specs) : blocks'[b] = NewBlocks(specs)[b]
  BY DEF MapsAfter
<1>5. \A s : KnownBy(corrupt, history', n + 1, s) = KnownBy(corrupt, history, n, s)
  BY KnownKept
<1>6. ASSUME NEW s \in Specs', NEW t \in Specs', s.block = t.block
      PROVE  s = t
  <2>1. CASE s \in Elements(specs) /\ t \in Elements(specs)
    BY <1>6, <2>1, SpecsDiffer
  <2>2. CASE s \in Specs /\ t \in Specs
    BY <1>1, <1>6, <2>2
  <2>3. ~(s \in Specs /\ t \in Elements(specs)) /\ ~(t \in Specs /\ s \in Elements(specs))
    BY <1>1, <1>3, <1>6
  <2> QED
    BY <1>2, <2>1, <2>2, <2>3
<1>7. DOMAIN blocks' = {s.block : s \in Specs'}
  BY <1>1, <1>2, <1>3, <1>4
<1>8. ASSUME NEW s \in Specs'
      PROVE  /\ blocks'[s.block].threshold = s.group.threshold
             /\ blocks'[s.block].revealed = KnownBy(corrupt, history', n + 1, s)
  <2>1. CASE s \in Specs
    <3>1. blocks'[s.block] = blocks[s.block]
      BY <1>1, <1>4, <2>1
    <3> QED
      BY <1>1, <1>5, <2>1, <3>1
  <2>2. CASE s \in Elements(specs)
    <3>1. blocks'[s.block] = Registered(s.group)
      BY <1>3, <1>4, <2>2
    <3>2. RevealsOf(history, n, s.block) = {}
      <4>1. \A i \in CallsOf(history, "reveal", n) : history[i].block # s.block
        BY <1>1, <1>3, <2>2
      <4> QED
        BY <4>1 DEF RevealsOf
    <3>3. KnownBy(corrupt, history, n, s) = Elements(s.group.devices) \cap corrupt
      BY <3>2 DEF KnownBy
    <3> QED
      BY <1>5, <3>1, <3>3 DEF Registered
  <2> QED
    BY <1>2, <2>1, <2>2
<1>9. ASSUME NEW i \in CallsOf(history', "reveal", n + 1)
      PROVE  history'[i].block \in DOMAIN blocks'
  <2>1. n \in 0 .. n
    BY DEF Grown
  <2>2. CallsOf(history', "reveal", n + 1) = CallsOf(history, "reveal", n)
    BY GrownCalls
  <2>3. \A k \in CallsOf(history, "reveal", n) : history'[k] = history[k]
    BY <2>1, GrownCalls
  <2> QED
    BY <1>1, <1>4, <2>2, <2>3
<1> QED
  BY <1>6, <1>7, <1>8, <1>9, BlocksAfter

-----------------------------------------------------------------------------

\* A call that registers no epoch leaves the epochs alone.
LEMMA EpochsKept ==
    ASSUME HInv, NEW n, NEW call, Grown(n, call),
           call.op # "epoch", epochs' = epochs
    PROVE  EpochsRecorded'
<1> DEFINE C == CallsOf(history, "epoch", n)
<1>1. n \in 0 .. n
  BY DEF Grown
<1>2. CallsOf(history', "epoch", n + 1) = C
  BY GrownCalls
<1>3. \A i \in C : history'[i] = history[i]
  BY <1>1, GrownCalls
<1>4. Calls("epoch", Len(history)) = C /\ Calls("epoch", Len(history))' = C
  BY <1>2, AllCalls
<1> HIDE DEF C
<1>5. /\ \A i \in C :
           /\ KeyOf(history[i]) \in DOMAIN epochs
           /\ SameEpoch(epochs[KeyOf(history[i])], history[i])
      /\ \A k \in DOMAIN epochs : \E i \in C : k = KeyOf(history[i])
  BY <1>4 DEF HInv, EpochsRecorded
<1>6. /\ \A i \in C :
           /\ KeyOf(history'[i]) \in DOMAIN epochs'
           /\ SameEpoch(epochs'[KeyOf(history'[i])], history'[i])
      /\ \A k \in DOMAIN epochs' : \E i \in C : k = KeyOf(history'[i])
  BY <1>3, <1>5
<1> QED
  BY <1>4, <1>6 DEF EpochsRecorded

\* A registration adds its epoch.
LEMMA EpochsEpoch ==
    ASSUME HInv, NEW n, NEW call, Grown(n, call), call.op = "epoch",
           NEW specs \in Lists(MemberBlockSpec), call.specs = specs,
           FreshBlocks(specs), NewEpoch(call.vault, call.epoch),
           MapsAfter(call.vault, call.epoch, call.threshold, specs)
    PROVE  EpochsRecorded'
<1> DEFINE C == CallsOf(history, "epoch", n)
<1>1. n \in 0 .. n /\ history'[n + 1] = call
  BY DEF Grown
<1>2. CallsOf(history', "epoch", n + 1) = C \cup {n + 1}
  BY GrownCalls
<1>3. \A i \in C : history'[i] = history[i]
  BY <1>1, GrownCalls
<1>4. Calls("epoch", Len(history)) = C /\ Calls("epoch", Len(history))' = C \cup {n + 1}
  BY <1>2, AllCalls
<1> HIDE DEF C
<1>5. /\ \A i \in C :
           /\ KeyOf(history[i]) \in DOMAIN epochs
           /\ SameEpoch(epochs[KeyOf(history[i])], history[i])
      /\ \A k \in DOMAIN epochs : \E i \in C : k = KeyOf(history[i])
  BY <1>4 DEF HInv, EpochsRecorded
<1>6. /\ DOMAIN epochs' = DOMAIN epochs \cup {KeyOf(call)}
      /\ \A k \in DOMAIN epochs : epochs'[k] = epochs[k]
      /\ epochs'[KeyOf(call)] =
           [threshold |-> call.threshold, people |-> NewPeople(specs)]
  BY DEF MapsAfter, KeyOf
<1>7. OneEach(specs)
  BY SpecsDiffer DEF OneEach
<1>8. SameEpoch(epochs'[KeyOf(call)], call)
  BY <1>6, <1>7 DEF SameEpoch
<1>9. \A i \in C \cup {n + 1} :
         /\ KeyOf(history'[i]) \in DOMAIN epochs'
         /\ SameEpoch(epochs'[KeyOf(history'[i])], history'[i])
  BY <1>1, <1>3, <1>5, <1>6, <1>8
<1>10. \A k \in DOMAIN epochs' : \E i \in C \cup {n + 1} : k = KeyOf(history'[i])
  BY <1>1, <1>3, <1>5, <1>6
<1> QED
  BY <1>4, <1>9, <1>10 DEF EpochsRecorded

-----------------------------------------------------------------------------

\* A call that is no outer proposal leaves the outer proposals alone.
LEMMA OuterKept ==
    ASSUME HInv, NEW n, NEW call, Grown(n, call),
           call.op # "outer", outer' = outer
    PROVE  OuterRecorded'
<1> DEFINE C == CallsOf(history, "outer", n)
<1>1. n \in 0 .. n /\ corrupt' = corrupt
  BY DEF Grown
<1>2. CallsOf(history', "outer", n + 1) = C
  BY GrownCalls
<1>3. \A i \in C : history'[i] = history[i]
  BY <1>1, GrownCalls
<1>4. Calls("outer", Len(history)) = C /\ Calls("outer", Len(history))' = C
  BY <1>2, AllCalls
<1> HIDE DEF C
<1>5. /\ \A j \in 1 .. Len(outer) :
           \E i \in C : SameOuter(corrupt, outer[j], history[i])
      /\ \A i \in C :
           \E j \in 1 .. Len(outer) : SameOuter(corrupt, outer[j], history[i])
  BY <1>4 DEF HInv, OuterRecorded
<1>6. /\ \A j \in 1 .. Len(outer') :
           \E i \in C : SameOuter(corrupt', outer'[j], history'[i])
      /\ \A i \in C :
           \E j \in 1 .. Len(outer') : SameOuter(corrupt', outer'[j], history'[i])
  BY <1>1, <1>3, <1>5
<1> QED
  BY <1>4, <1>6 DEF OuterRecorded

\* Counting the positions of a list without repetitions, or its elements.
LEMMA CountElements ==
    ASSUME NEW targets \in Lists(TargetGroup), IsDistinct(PersonsOf(targets)), NEW c
    PROVE  Cardinality({i \in 1 .. Len(targets) : ControlledBy(c, targets[i])})
             = Cardinality({g \in Elements(targets) : ControlledBy(c, g)})
<1> DEFINE I == {i \in 1 .. Len(targets) : ControlledBy(c, targets[i])}
           G == {g \in Elements(targets) : ControlledBy(c, g)}
           f == [i \in I |-> targets[i]]
<1>1. Len(targets) \in Nat /\ DOMAIN targets = 1 .. Len(targets)
  BY ListElements
<1>2. IsFiniteSet(I)
  <2>1. IsFiniteSet(1 .. Len(targets))
    BY <1>1, FS_Interval
  <2> QED
    BY <2>1, FS_Subset
<1>3. \A i, j \in 1 .. Len(targets) : targets[i] = targets[j] => i = j
  <2> DEFINE people == PersonsOf(targets)
  <2>1. /\ people \in Seq({targets[i].person : i \in 1 .. Len(targets)})
        /\ Len(people) = Len(targets)
        /\ \A i \in 1 .. Len(targets) : people[i] = targets[i].person
    BY <1>1 DEF PersonsOf
  <2> HIDE DEF people
  <2>2. IsDistinct(people)
    BY DEF people
  <2> QED
    BY <2>1, <2>2 DEF IsDistinct
<1>4. f \in [I -> G]
  BY DEF Elements
<1>5. f \in Injection(I, G)
  BY <1>3, <1>4 DEF Injection, IsInjective
<1>6. f \in Surjection(I, G)
  BY <1>4 DEF Surjection, Elements
<1>7. ExistsBijection(I, G)
  BY <1>5, <1>6 DEF ExistsBijection, Bijection
<1> HIDE DEF I, G, f
<1>8. Cardinality(G) = Cardinality(I)
  BY <1>2, <1>7, FS_Bijection
<1> QED
  BY <1>8 DEF I, G

\* An outer proposal records how many of its targets are controlled.
LEMMA OuterOuter ==
    ASSUME HInv, NEW n, NEW command \in Commands, NEW threshold,
           NEW targets \in Lists(TargetGroup),
           Grown(n, [op |-> "outer", command |-> command,
                     threshold |-> threshold, targets |-> targets]),
           ExposeOuterCandidate(command, threshold, targets)
    PROVE  OuterRecorded'
<1> DEFINE call == [op |-> "outer", command |-> command,
                    threshold |-> threshold, targets |-> targets]
           held == {i \in 1 .. Len(targets) : TargetControlled(targets[i])}
           record == [command |-> command, threshold |-> threshold,
                      controlled |-> Cardinality(held)]
           C == CallsOf(history, "outer", n)
<1>0. /\ Grown(n, call) /\ call.op = "outer" /\ call.command = command
      /\ call.threshold = threshold /\ call.targets = targets
  OBVIOUS
<1>1. outer' = Append(outer, record) /\ IsDistinct(PersonsOf(targets))
  BY DEF ExposeOuterCandidate
<1>2. held = {i \in 1 .. Len(targets) : ControlledBy(corrupt, targets[i])}
  BY DEF TargetControlled, ControlledBy
<1>3. Cardinality(held) =
        Cardinality({g \in Elements(targets) : ControlledBy(corrupt, g)})
  BY <1>1, <1>2, CountElements
<1> HIDE DEF call, held
<1>4. SameOuter(corrupt, record, call)
  BY <1>0, <1>3 DEF SameOuter
<1>5. /\ Len(outer) \in Nat /\ Len(outer') = Len(outer) + 1
      /\ \A j \in 1 .. Len(outer) : outer'[j] = outer[j]
      /\ outer'[Len(outer) + 1] = record
  <2>1. \E S : outer \in Seq(S)
    BY DEF HInv, TypeOK
  <2> HIDE DEF record
  <2> QED
    BY <1>1, <2>1
<1> HIDE DEF record
<1>6. n \in 0 .. n /\ corrupt' = corrupt /\ history'[n + 1] = call
  BY <1>0 DEF Grown
<1>7. CallsOf(history', "outer", n + 1) = C \cup {n + 1}
  BY <1>0, GrownCalls
<1>8. \A i \in C : history'[i] = history[i]
  BY <1>0, <1>6, GrownCalls
<1>9. Calls("outer", Len(history)) = C /\ Calls("outer", Len(history))' = C \cup {n + 1}
  BY <1>0, <1>7, AllCalls
<1> HIDE DEF C
<1>10. /\ \A j \in 1 .. Len(outer) :
            \E i \in C : SameOuter(corrupt, outer[j], history[i])
       /\ \A i \in C :
            \E j \in 1 .. Len(outer) : SameOuter(corrupt, outer[j], history[i])
  BY <1>9 DEF HInv, OuterRecorded
<1>11. ASSUME NEW j \in 1 .. Len(outer')
       PROVE  \E i \in C \cup {n + 1} : SameOuter(corrupt', outer'[j], history'[i])
  <2>1. CASE j = Len(outer) + 1
    BY <1>4, <1>5, <1>6, <2>1
  <2>2. CASE j # Len(outer) + 1
    <3>1. j \in 1 .. Len(outer)
      BY <1>5, <2>2
    <3> QED
      BY <1>5, <1>6, <1>8, <1>10, <3>1
  <2> QED
    BY <2>1, <2>2
<1>12. ASSUME NEW i \in C \cup {n + 1}
       PROVE  \E j \in 1 .. Len(outer') : SameOuter(corrupt', outer'[j], history'[i])
  <2>0. 1 .. Len(outer') = 1 .. Len(outer) \cup {Len(outer) + 1}
    BY <1>5
  <2>1. CASE i = n + 1
    BY <1>4, <1>5, <1>6, <2>0, <2>1
  <2>2. CASE i \in C
    BY <1>5, <1>6, <1>8, <1>10, <2>0, <2>2
  <2> QED
    BY <2>1, <2>2
<1> QED
  BY <1>9, <1>11, <1>12 DEF OuterRecorded

-----------------------------------------------------------------------------

\* What was held before an earlier call stays as it was.
LEMMA HeldKept ==
    ASSUME NEW n, NEW call, Grown(n, call), NEW i \in 1 .. n, NEW s
    PROVE  HeldBy(corrupt, history', i - 1, s) <=> HeldBy(corrupt, history, i - 1, s)
<1>1. i - 1 \in 0 .. n
  BY DEF Grown
<1>2. RevealsOf(history', i - 1, s.block) = RevealsOf(history, i - 1, s.block)
  BY <1>1, GrownReveals
<1>3. KnownBy(corrupt, history', i - 1, s) = KnownBy(corrupt, history, i - 1, s)
  BY <1>2 DEF KnownBy
<1> QED
  BY <1>3 DEF HeldBy

\* What a proposal recorded of an earlier call is not changed by a later one.
LEMMA SameMemberKept ==
    ASSUME NEW n, NEW call, Grown(n, call), NEW i \in 1 .. n, NEW record,
           SameMember(corrupt, history, Specs, record, i)
    PROVE  SameMember(corrupt', history', Specs', record, i)
<1>1. corrupt' = corrupt /\ history'[i] = history[i]
  BY DEF Grown
<1>2. Specs \subseteq Specs'
  BY GrownSpecs
<1>3. PICK s \in Specs : /\ s.block = history[i].source
                         /\ record.source <=> HeldBy(corrupt, history, i - 1, s)
  BY DEF SameMember
<1>4. record.source <=> HeldBy(corrupt, history', i - 1, s)
  BY <1>3, HeldKept
<1>5. /\ record.command = history[i].command
      /\ record.target <=> ControlledBy(corrupt, history[i].target)
  BY DEF SameMember
<1> QED
  BY <1>1, <1>2, <1>3, <1>4, <1>5 DEF SameMember

\* A call that is no member proposal leaves the member proposals alone.
LEMMA MembersKept ==
    ASSUME HInv, NEW n, NEW call, Grown(n, call),
           call.op # "member", members' = members
    PROVE  MembersRecorded'
<1> DEFINE C == CallsOf(history, "member", n)
<1>1. n \in 0 .. n
  BY DEF Grown
<1>2. CallsOf(history', "member", n + 1) = C
  BY GrownCalls
<1>3. \A i \in C : i \in 1 .. n
  BY <1>1, GrownCalls
<1>4. Calls("member", Len(history)) = C /\ Calls("member", Len(history))' = C
  BY <1>2, AllCalls
<1> HIDE DEF C
<1>5. /\ \A j \in 1 .. Len(members) :
           \E i \in C : SameMember(corrupt, history, Specs, members[j], i)
      /\ \A i \in C :
           \E j \in 1 .. Len(members) :
              SameMember(corrupt, history, Specs, members[j], i)
  BY <1>4 DEF HInv, MembersRecorded
<1>6. ASSUME NEW j \in 1 .. Len(members')
      PROVE  \E i \in C : SameMember(corrupt', history', Specs', members'[j], i)
  <2>1. PICK i \in C : SameMember(corrupt, history, Specs, members[j], i)
    BY <1>5
  <2>2. SameMember(corrupt', history', Specs', members[j], i)
    BY <1>3, <2>1, SameMemberKept
  <2> QED
    BY <2>2
<1>7. ASSUME NEW i \in C
      PROVE  \E j \in 1 .. Len(members') :
               SameMember(corrupt', history', Specs', members'[j], i)
  <2>1. PICK j \in 1 .. Len(members) :
          SameMember(corrupt, history, Specs, members[j], i)
    BY <1>5
  <2>2. SameMember(corrupt', history', Specs', members[j], i)
    BY <1>3, <2>1, SameMemberKept
  <2> QED
    BY <2>2
<1> QED
  BY <1>4, <1>6, <1>7 DEF MembersRecorded

\* A member proposal records whether its source is controlled at the call.
LEMMA MembersMember ==
    ASSUME HInv, NEW n, NEW command \in Commands, NEW source \in Blocks,
           NEW target \in TargetGroup,
           Grown(n, [op |-> "member", command |-> command,
                     source |-> source, target |-> target]),
           ExposeMemberCandidate(command, source, target)
    PROVE  MembersRecorded'
<1> DEFINE call == [op |-> "member", command |-> command,
                    source |-> source, target |-> target]
           record == [command |-> command, person |-> target.person,
                      source |-> SourceControlled(blocks[source]),
                      target |-> TargetControlled(target)]
           C == CallsOf(history, "member", n)
<1>0. /\ Grown(n, call) /\ call.op = "member" /\ call.command = command
      /\ call.source = source /\ call.target = target
  OBVIOUS
<1>1. members' = Append(members, record) /\ source \in DOMAIN blocks
  BY DEF ExposeMemberCandidate
<1>2. /\ record.command = command
      /\ record.source <=> Controlled(blocks[source])
      /\ record.target <=> ControlledBy(corrupt, target)
  BY DEF SourceControlled, TargetControlled, ControlledBy
<1> HIDE DEF call, record
<1>3. n \in 0 .. n /\ n \in Nat /\ corrupt' = corrupt /\ history'[n + 1] = call
  BY <1>0 DEF Grown
<1>4. SameMember(corrupt', history', Specs', record, n + 1)
  <2>1. /\ DOMAIN blocks = {s.block : s \in Specs}
        /\ \A s \in Specs :
             /\ blocks[s.block].threshold = s.group.threshold
             /\ blocks[s.block].revealed = KnownBy(corrupt, history, n, s)
    BY <1>0, BlocksBefore
  <2>2. PICK s \in Specs : s.block = source
    BY <1>1, <2>1
  <2>3. s \in Specs'
    BY <1>0, GrownSpecs
  <2>4. RevealsOf(history', n, s.block) = RevealsOf(history, n, s.block)
    BY <1>0, <1>3, GrownReveals
  <2>5. Controlled(blocks[source]) <=> HeldBy(corrupt, history', n, s)
    BY <2>1, <2>2, <2>4 DEF Controlled, HeldBy, KnownBy
  <2>6. (n + 1) - 1 = n
    BY <1>3
  <2>7. record.source <=> HeldBy(corrupt', history', (n + 1) - 1, s)
    BY <1>2, <1>3, <2>5, <2>6
  <2>8. /\ record.command = history'[n + 1].command
        /\ record.target <=> ControlledBy(corrupt', history'[n + 1].target)
        /\ s.block = history'[n + 1].source
    BY <1>0, <1>2, <1>3, <2>2
  <2> QED
    BY <2>3, <2>7, <2>8 DEF SameMember
<1>5. /\ Len(members) \in Nat /\ Len(members') = Len(members) + 1
      /\ \A j \in 1 .. Len(members) : members'[j] = members[j]
      /\ members'[Len(members) + 1] = record
  <2>1. \E S : members \in Seq(S)
    BY DEF HInv, TypeOK
  <2> QED
    BY <1>1, <2>1
<1>7. CallsOf(history', "member", n + 1) = C \cup {n + 1}
  BY <1>0, GrownCalls
<1>8. \A i \in C : i \in 1 .. n
  BY <1>0, <1>3, GrownCalls
<1>9. Calls("member", Len(history)) = C /\ Calls("member", Len(history))' = C \cup {n + 1}
  BY <1>0, <1>7, AllCalls
<1> HIDE DEF C
<1>10. /\ \A j \in 1 .. Len(members) :
            \E i \in C : SameMember(corrupt, history, Specs, members[j], i)
       /\ \A i \in C :
            \E j \in 1 .. Len(members) :
               SameMember(corrupt, history, Specs, members[j], i)
  BY <1>9 DEF HInv, MembersRecorded
<1>11. ASSUME NEW j \in 1 .. Len(members')
       PROVE  \E i \in C \cup {n + 1} :
                SameMember(corrupt', history', Specs', members'[j], i)
  <2>1. CASE j = Len(members) + 1
    BY <1>4, <1>5, <2>1
  <2>2. CASE j # Len(members) + 1
    <3>1. j \in 1 .. Len(members) /\ members'[j] = members[j]
      BY <1>5, <2>2
    <3>2. PICK i \in C : SameMember(corrupt, history, Specs, members[j], i)
      BY <1>10, <3>1
    <3>3. SameMember(corrupt', history', Specs', members[j], i)
      BY <1>0, <1>8, <3>2, SameMemberKept
    <3> QED
      BY <3>1, <3>3
  <2> QED
    BY <2>1, <2>2
<1>12. ASSUME NEW i \in C \cup {n + 1}
       PROVE  \E j \in 1 .. Len(members') :
                SameMember(corrupt', history', Specs', members'[j], i)
  <2>0. 1 .. Len(members') = 1 .. Len(members) \cup {Len(members) + 1}
    BY <1>5
  <2>1. CASE i = n + 1
    BY <1>4, <1>5, <2>0, <2>1
  <2>2. CASE i \in C
    <3>1. PICK j \in 1 .. Len(members) :
            SameMember(corrupt, history, Specs, members[j], i)
      BY <1>10, <2>2
    <3>2. SameMember(corrupt', history', Specs', members[j], i)
      BY <1>0, <1>8, <2>2, <3>1, SameMemberKept
    <3> QED
      BY <1>5, <2>0, <3>2
  <2> QED
    BY <2>1, <2>2
<1> QED
  BY <1>9, <1>11, <1>12 DEF MembersRecorded

-----------------------------------------------------------------------------

LEMMA HInvInit == Init => HInv
<1> SUFFICES ASSUME Init PROVE HInv
  OBVIOUS
<1>1. /\ blocks = <<>> /\ epochs = <<>> /\ outer = <<>> /\ members = <<>>
      /\ history = <<>>
  BY DEF Init
<1>2. Len(history) = 0 /\ history \in Seq(Call)
  BY <1>1
<1>3. \A op : Calls(op, Len(history)) = {}
  BY <1>2 DEF Calls
<1>4. Specs = {}
  BY <1>3 DEF Specs
<1>5. /\ DOMAIN blocks = {} /\ DOMAIN epochs = {}
      /\ Len(outer) = 0 /\ Len(members) = 0
  BY <1>1
<1>6. BlocksRecorded /\ EpochsRecorded
  BY <1>3, <1>4, <1>5 DEF BlocksRecorded, EpochsRecorded
<1>7. OuterRecorded /\ MembersRecorded
  BY <1>3, <1>5 DEF OuterRecorded, MembersRecorded
<1> QED
  BY <1>2, <1>6, <1>7, TypeInit DEF HInv

LEMMA HInvRegister ==
    ASSUME HInv, NEW vault \in Vaults, NEW epoch \in Epochs,
           NEW threshold \in Thresholds, NEW specs \in Lists(MemberBlockSpec),
           RegisterEpoch(vault, epoch, threshold, specs)
    PROVE  HInv'
<1> DEFINE call == [op |-> "epoch", vault |-> vault, epoch |-> epoch,
                    threshold |-> threshold, specs |-> specs]
           n == Len(history)
<1>1. TypeOK
  BY DEF HInv
<1>2. MapsAfter(vault, epoch, threshold, specs) /\ TypeOK'
  BY <1>1, RegisterMaps, TypeRegister
<1>3. /\ FreshBlocks(specs) /\ NewEpoch(vault, epoch)
      /\ Accept(call)
      /\ corrupt' = corrupt /\ outer' = outer /\ members' = members
  BY DEF RegisterEpoch
<1>4. call \in Call
  BY <1>2 DEF MapsAfter, Call, EpochCall
<1>5. /\ call.op = "epoch" /\ call.vault = vault /\ call.epoch = epoch
      /\ call.threshold = threshold /\ call.specs = specs
  OBVIOUS
<1> HIDE DEF call
<1>6. Grown(n, call)
  BY <1>3, <1>4, AcceptGrows
<1> HIDE DEF n
<1>7. BlocksRecorded'
  BY <1>2, <1>3, <1>5, <1>6, BlocksEpoch
<1>8. EpochsRecorded'
  BY <1>2, <1>3, <1>5, <1>6, EpochsEpoch
<1>9. OuterRecorded' /\ MembersRecorded'
  BY <1>3, <1>5, <1>6, OuterKept, MembersKept
<1> QED
  BY <1>2, <1>6, <1>7, <1>8, <1>9 DEF HInv, Grown

LEMMA HInvReveal ==
    ASSUME HInv, NEW b \in Blocks, NEW d \in Devices, Reveal(b, d)
    PROVE  HInv'
<1> DEFINE call == [op |-> "reveal", block |-> b, device |-> d]
           n == Len(history)
<1>1. TypeOK'
  BY TypeReveal DEF HInv
<1>2. /\ Accept(call) /\ corrupt' = corrupt
      /\ epochs' = epochs /\ outer' = outer /\ members' = members
  BY DEF Reveal
<1>3. call \in Call /\ call.op = "reveal"
  BY DEF Call, RevealCall
<1>4. Grown(n, call)
  BY <1>2, <1>3, AcceptGrows
<1>5. BlocksRecorded'
  BY <1>4, BlocksReveal
<1> HIDE DEF call, n
<1>6. EpochsRecorded' /\ OuterRecorded' /\ MembersRecorded'
  BY <1>2, <1>3, <1>4, EpochsKept, OuterKept, MembersKept
<1> QED
  BY <1>1, <1>4, <1>5, <1>6 DEF HInv, Grown

LEMMA HInvOuter ==
    ASSUME HInv, NEW command \in Commands, NEW threshold \in Thresholds,
           NEW targets \in Lists(TargetGroup),
           ExposeOuterCandidate(command, threshold, targets)
    PROVE  HInv'
<1> DEFINE call == [op |-> "outer", command |-> command,
                    threshold |-> threshold, targets |-> targets]
           n == Len(history)
<1>1. TypeOK'
  BY TypeOuter DEF HInv
<1>2. /\ Accept(call) /\ corrupt' = corrupt
      /\ blocks' = blocks /\ epochs' = epochs /\ members' = members
      /\ threshold \in Nat \ {0}
  BY DEF ExposeOuterCandidate, EnoughGroups
<1>3. call \in Call /\ call.op = "outer"
  BY <1>2 DEF Call, OuterCall
<1>4. Grown(n, call)
  BY <1>2, <1>3, AcceptGrows
<1>5. OuterRecorded'
  BY <1>4, OuterOuter
<1> HIDE DEF call, n
<1>6. BlocksRecorded' /\ EpochsRecorded' /\ MembersRecorded'
  BY <1>2, <1>3, <1>4, BlocksKept, EpochsKept, MembersKept
<1> QED
  BY <1>1, <1>4, <1>5, <1>6 DEF HInv, Grown

LEMMA HInvMember ==
    ASSUME HInv, NEW command \in Commands, NEW source \in Blocks,
           NEW target \in TargetGroup,
           ExposeMemberCandidate(command, source, target)
    PROVE  HInv'
<1> DEFINE call == [op |-> "member", command |-> command,
                    source |-> source, target |-> target]
           n == Len(history)
<1>1. TypeOK'
  BY TypeMember DEF HInv
<1>2. /\ Accept(call) /\ corrupt' = corrupt
      /\ blocks' = blocks /\ epochs' = epochs /\ outer' = outer
  BY DEF ExposeMemberCandidate
<1>3. call \in Call /\ call.op = "member"
  BY DEF Call, MemberCall
<1>4. Grown(n, call)
  BY <1>2, <1>3, AcceptGrows
<1>5. MembersRecorded'
  BY <1>4, MembersMember
<1> HIDE DEF call, n
<1>6. BlocksRecorded' /\ EpochsRecorded' /\ OuterRecorded'
  BY <1>2, <1>3, <1>4, BlocksKept, EpochsKept, OuterKept
<1> QED
  BY <1>1, <1>4, <1>5, <1>6 DEF HInv, Grown

LEMMA HInvStutter ==
    ASSUME HInv, UNCHANGED vars
    PROVE  HInv'
<1>1. /\ corrupt' = corrupt /\ blocks' = blocks /\ epochs' = epochs
      /\ outer' = outer /\ members' = members /\ history' = history
  BY DEF vars
<1>2. TypeOK'
  BY <1>1 DEF HInv, TypeOK
<1>3. Specs' = Specs
  BY <1>1 DEF Specs, Calls, Elements
<1>5. BlocksRecorded'
  BY <1>1, <1>3 DEF HInv, BlocksRecorded, Calls
<1>6. EpochsRecorded'
  BY <1>1 DEF HInv, EpochsRecorded, Calls
<1>7. OuterRecorded'
  BY <1>1 DEF HInv, OuterRecorded, Calls
<1>8. MembersRecorded'
  BY <1>1, <1>3 DEF HInv, MembersRecorded, Calls
<1> QED
  BY <1>1, <1>2, <1>5, <1>6, <1>7, <1>8 DEF HInv

\* What the ledger keeps after any sequence of registrations, revelations and
\* proposals is what its accepted calls amount to: each block its
\* specification and its revelations, each proposal what was known when
\* expose_outer_candidate() or expose_member_candidate() accepted it.
THEOREM LedgerRecords == Spec => []HInv
<1>1. HInv /\ [Next]_vars => HInv'
  <2> SUFFICES ASSUME HInv, [Next]_vars PROVE HInv'
    OBVIOUS
  <2>1. CASE UNCHANGED vars
    BY <2>1, HInvStutter
  <2>2. CASE Next
    BY <2>2, HInvRegister, HInvReveal, HInvOuter, HInvMember DEF Next
  <2> QED
    BY <2>1, <2>2
<1> QED
  BY <1>1, HInvInit, PTL DEF Spec

-----------------------------------------------------------------------------
(* The records give the verdict *)

\* The reference verdict judges a block by the specification it was
\* registered with.
LEMMA HeldIs ==
    ASSUME HInv, NEW n, NEW s \in Specs
    PROVE  HeldAfter(n, s.block) <=> HeldBy(corrupt, history, n, s)
<1>1. \A t \in Specs : t.block = s.block => t = s
  BY DEF HInv, BlocksRecorded
<1>2. GroupBehind(s.block) = (CHOOSE t \in Specs : t.block = s.block).group
  BY DEF GroupBehind, Specs
<1>3. GroupBehind(s.block) = s.group
  BY <1>1, <1>2
<1>4. KnownAfter(n, s.block) = KnownBy(corrupt, history, n, s)
  BY <1>3 DEF KnownAfter, KnownBy, RevealsOf, Calls, CallsOf
<1> QED
  BY <1>3, <1>4 DEF HeldAfter, HeldBy

\* The registered block is controlled when the verdict says so.
LEMMA ControlledIs ==
    ASSUME HInv, NEW s \in Specs
    PROVE  Controlled(blocks[s.block]) <=> HeldAfter(Len(history), s.block)
<1>1. /\ blocks[s.block].threshold = s.group.threshold
      /\ blocks[s.block].revealed = KnownBy(corrupt, history, Len(history), s)
  BY DEF HInv, BlocksRecorded
<1> QED
  BY <1>1, HeldIs DEF Controlled, HeldBy

\* Counting the controlled people of an epoch, or its controlled blocks.
LEMMA CountPeople ==
    ASSUME HInv, NEW specs \in Lists(MemberBlockSpec),
           Elements(specs) \subseteq Specs, OneEach(specs)
    PROVE  /\ Cardinality({p \in DOMAIN NewPeople(specs) :
                              Controlled(blocks[NewPeople(specs)[p]])})
                = Cardinality({s \in Elements(specs) :
                                  HeldAfter(Len(history), s.block)})
           /\ Cardinality({s \in Elements(specs) :
                              HeldAfter(Len(history), s.block)}) \in Nat
<1> DEFINE P == {p \in DOMAIN NewPeople(specs) :
                    Controlled(blocks[NewPeople(specs)[p]])}
           S == {s \in Elements(specs) : HeldAfter(Len(history), s.block)}
           of(p) == CHOOSE s \in Elements(specs) : s.group.person = p
           f == [p \in P |-> of(p)]
<1>1. IsFiniteSet(P)
  <2>1. DOMAIN NewPeople(specs) \subseteq Persons
    BY NewPeopleTypes
  <2>2. P \subseteq Persons
    BY <2>1
  <2> QED
    BY <2>2, FS_Subset
<1>2. ASSUME NEW s \in Elements(specs)
      PROVE  /\ s.group.person \in DOMAIN NewPeople(specs)
             /\ of(s.group.person) = s
             /\ NewPeople(specs)[s.group.person] = s.block
  <2>1. s.group.person \in DOMAIN NewPeople(specs)
    BY DEF NewPeople
  <2>2. /\ of(s.group.person) \in Elements(specs)
        /\ of(s.group.person).group.person = s.group.person
    OBVIOUS
  <2>3. NewPeople(specs)[s.group.person] = of(s.group.person).block
    BY <2>1 DEF NewPeople
  <2> HIDE DEF of
  <2>4. of(s.group.person) = s
    BY <2>2 DEF OneEach
  <2> QED
    BY <2>1, <2>3, <2>4
<1>3. ASSUME NEW p \in DOMAIN NewPeople(specs)
      PROVE  \E s \in Elements(specs) : s.group.person = p
  BY DEF NewPeople
<1>4. \A s \in Elements(specs) :
        Controlled(blocks[s.block]) <=> HeldAfter(Len(history), s.block)
  BY ControlledIs
<1> HIDE DEF of
<1>5. ASSUME NEW p \in P
      PROVE  of(p) \in S /\ of(p).group.person = p
  <2>1. PICK s \in Elements(specs) : s.group.person = p
    BY <1>3
  <2>2. of(p) = s /\ NewPeople(specs)[p] = s.block
    BY <1>2, <2>1
  <2>3. HeldAfter(Len(history), s.block)
    BY <1>4, <2>2
  <2> QED
    BY <2>1, <2>2, <2>3
<1>6. ASSUME NEW s \in S
      PROVE  s.group.person \in P /\ of(s.group.person) = s
  BY <1>2, <1>4
<1> HIDE DEF P, S
<1>7. f \in [P -> S]
  BY <1>5
<1>8. f \in Injection(P, S)
  BY <1>5, <1>7 DEF Injection, IsInjective
<1>9. f \in Surjection(P, S)
  BY <1>6, <1>7 DEF Surjection
<1>10. ExistsBijection(P, S)
  BY <1>8, <1>9 DEF ExistsBijection, Bijection
<1> HIDE DEF f
<1>11. Cardinality(S) = Cardinality(P) /\ Cardinality(P) \in Nat
  BY <1>1, <1>10, FS_Bijection, FS_CardinalityType
<1> QED
  BY <1>11 DEF P, S

\* The epochs over their limit are those of the verdict.
LEMMA EpochsVerdict ==
    ASSUME HInv
    PROVE  BadEpochs = Verdict.epochs
<1> DEFINE N == Len(history)
           C == Calls("epoch", N)
           Held(i) == {s \in Elements(history[i].specs) : HeldAfter(N, s.block)}
           Over == {i \in C : Cardinality(Held(i)) >= history[i].threshold}
<1>1. Verdict.epochs = {<<history[i].vault, history[i].epoch>> : i \in Over}
  BY DEF Verdict
<1>2. /\ \A i \in C : /\ KeyOf(history[i]) \in DOMAIN epochs
                      /\ SameEpoch(epochs[KeyOf(history[i])], history[i])
      /\ \A k \in DOMAIN epochs : \E i \in C : k = KeyOf(history[i])
  BY DEF HInv, EpochsRecorded
<1>3. ASSUME NEW i \in C
      PROVE  KeyOf(history[i]) \in BadEpochs <=> i \in Over
  <2>1. history[i] \in Call /\ history[i].op = "epoch"
    BY DEF HInv, Calls
  <2>2. history[i] \in EpochCall
    BY <2>1, CallFields
  <2>3. /\ history[i].threshold \in Nat \ {0}
        /\ history[i].specs \in Lists(MemberBlockSpec)
    BY <2>2 DEF EpochCall
  <2>4. Elements(history[i].specs) \subseteq Specs
    BY DEF Specs
  <2> DEFINE record == epochs[KeyOf(history[i])]
  <2>5. /\ record.threshold = history[i].threshold
        /\ record.people = NewPeople(history[i].specs)
        /\ OneEach(history[i].specs)
    BY <1>2 DEF SameEpoch
  <2>6. KeyOf(history[i]) \in DOMAIN epochs
    BY <1>2
  <2> HIDE DEF record
  <2>7. /\ ControlledPeople(record) = Cardinality(Held(i))
        /\ Cardinality(Held(i)) \in Nat
    BY <2>3, <2>4, <2>5, CountPeople DEF ControlledPeople
  <2>8. KeyOf(history[i]) \in BadEpochs <=>
          ControlledPeople(record) > record.threshold - 1
    BY <2>6 DEF BadEpochs, record
  <2> HIDE DEF Held, C
  <2>9. ControlledPeople(record) > record.threshold - 1 <=>
          Cardinality(Held(i)) >= history[i].threshold
    BY <2>3, <2>5, <2>7
  <2> QED
    BY <2>8, <2>9
<1>4. BadEpochs \subseteq DOMAIN epochs /\ Over \subseteq C
  BY DEF BadEpochs
<1> HIDE DEF C, Over
<1> QED
  BY <1>1, <1>2, <1>3, <1>4 DEF KeyOf

\* The outer proposals over their limit are those of the verdict.
LEMMA OuterVerdict ==
    ASSUME HInv
    PROVE  BadOuter = Verdict.outer
<1> DEFINE N == Len(history)
           C == Calls("outer", N)
           Held(i) == {g \in Elements(history[i].targets) : TargetControlled(g)}
           Over == {i \in C : Cardinality(Held(i)) >= history[i].threshold}
           Bad == {j \in 1 .. Len(outer) :
                      outer[j].controlled > outer[j].threshold - 1}
<1>1. /\ Verdict.outer = {history[i].command : i \in Over}
      /\ BadOuter = {outer[j].command : j \in Bad}
  BY DEF Verdict, BadOuter
<1>2. /\ \A j \in 1 .. Len(outer) :
           \E i \in C : SameOuter(corrupt, outer[j], history[i])
      /\ \A i \in C :
           \E j \in 1 .. Len(outer) : SameOuter(corrupt, outer[j], history[i])
  BY DEF HInv, OuterRecorded
<1>3. ASSUME NEW i \in C, NEW j \in 1 .. Len(outer),
             SameOuter(corrupt, outer[j], history[i])
      PROVE  (j \in Bad <=> i \in Over) /\ outer[j].command = history[i].command
  <2>1. outer[j].threshold \in Nat /\ outer[j].controlled \in Nat
    <3>1. outer \in Seq([command : Commands, threshold : Nat \ {0}, controlled : Nat])
      BY DEF HInv, TypeOK
    <3>2. outer[j] \in [command : Commands, threshold : Nat \ {0}, controlled : Nat]
      BY <1>3, <3>1, ElementOfSeq
    <3> QED
      BY <3>2
  <2>2. Held(i) = {g \in Elements(history[i].targets) : ControlledBy(corrupt, g)}
    BY DEF TargetControlled, ControlledBy
  <2>3. /\ outer[j].command = history[i].command
        /\ outer[j].threshold = history[i].threshold
        /\ outer[j].controlled = Cardinality(Held(i))
    BY <1>3, <2>2 DEF SameOuter
  <2> HIDE DEF Held, C
  <2>4. outer[j].controlled > outer[j].threshold - 1 <=>
          Cardinality(Held(i)) >= history[i].threshold
    BY <2>1, <2>3
  <2> QED
    BY <1>3, <2>3, <2>4
<1>4. Bad \subseteq 1 .. Len(outer) /\ Over \subseteq C
  OBVIOUS
<1> HIDE DEF C, Over, Bad
<1> QED
  BY <1>1, <1>2, <1>3, <1>4

\* The member proposals that hand control over are those of the verdict.
LEMMA MembersVerdict ==
    ASSUME HInv
    PROVE  BadMembers = Verdict.members
<1> DEFINE N == Len(history)
           C == Calls("member", N)
           Over == {i \in C : /\ ~HeldAfter(i - 1, history[i].source)
                              /\ TargetControlled(history[i].target)}
           Bad == {j \in 1 .. Len(members) : ~members[j].source /\ members[j].target}
<1>1. /\ Verdict.members = {history[i].command : i \in Over}
      /\ BadMembers = {members[j].command : j \in Bad}
  BY DEF Verdict, BadMembers
<1>2. /\ \A j \in 1 .. Len(members) :
           \E i \in C : SameMember(corrupt, history, Specs, members[j], i)
      /\ \A i \in C :
           \E j \in 1 .. Len(members) :
              SameMember(corrupt, history, Specs, members[j], i)
  BY DEF HInv, MembersRecorded
<1>3. ASSUME NEW i \in C, NEW j \in 1 .. Len(members),
             SameMember(corrupt, history, Specs, members[j], i)
      PROVE  (j \in Bad <=> i \in Over) /\ members[j].command = history[i].command
  <2>1. PICK s \in Specs :
          /\ s.block = history[i].source
          /\ members[j].source <=> HeldBy(corrupt, history, i - 1, s)
    BY <1>3 DEF SameMember
  <2>2. HeldAfter(i - 1, history[i].source) <=> HeldBy(corrupt, history, i - 1, s)
    BY <2>1, HeldIs
  <2>3. members[j].target <=> TargetControlled(history[i].target)
    BY <1>3 DEF SameMember, TargetControlled, ControlledBy
  <2>4. members[j].command = history[i].command
    BY <1>3 DEF SameMember
  <2> HIDE DEF C
  <2> QED
    BY <1>3, <2>1, <2>2, <2>3, <2>4
<1>4. Bad \subseteq 1 .. Len(members) /\ Over \subseteq C
  OBVIOUS
<1> HIDE DEF C, Over, Bad
<1> QED
  BY <1>1, <1>2, <1>3, <1>4

\* ExposureLedger::audit() reports exactly the epochs and proposals that the
\* accepted calls violate condition (1) by: the scalars that reveal() adds
\* later count against a registered epoch, and never against a proposal that
\* was exposed before them.
THEOREM AuditIsVerdict == Spec => []AuditMatchesHistory
<1>1. ASSUME HInv PROVE AuditMatchesHistory
  <2>1. /\ BadEpochs = Verdict.epochs
        /\ BadOuter = Verdict.outer
        /\ BadMembers = Verdict.members
    BY <1>1, EpochsVerdict, OuterVerdict, MembersVerdict
  <2>2. Verdict = [epochs |-> Verdict.epochs, outer |-> Verdict.outer,
                   members |-> Verdict.members]
    BY DEF Verdict
  <2> QED
    BY <2>1, <2>2 DEF AuditMatchesHistory, Audit
<1> QED
  BY <1>1, LedgerRecords, PTL

=============================================================================
