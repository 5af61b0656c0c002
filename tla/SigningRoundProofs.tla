------------------------- MODULE SigningRoundProofs -------------------------
(***************************************************************************)
(* Ceremonies for every set of people, devices, supports and sessions, and *)
(* for every delivery and every root a coordinator makes up: two           *)
(* signatures never share a nonce, a device answers only when the nonces   *)
(* of its own slot come from its person's whole support, and only with     *)
(* nonces that were committed before it disclosed its own.                 *)
(***************************************************************************)
EXTENDS SigningRound, LeafProofs

-----------------------------------------------------------------------------
(* The inductive invariant *)

MessageSet == [nonce : Drawn, session : Sessions, bytes : Reservation]

OpenedSet == [nonce : Drawn, session : Sessions, bytes : Reservation,
              after : SUBSET Drawn]

RootSet == [session : Sessions, nonces : [Persons -> SUBSET Drawn]]

TypeOK ==
    /\ registry \in [Devices -> Registry]
    /\ now \in Nat
    /\ committed \subseteq MessageSet
    /\ opened \subseteq OpenedSet
    /\ fixed \subseteq SUBSET Drawn
    /\ answers \subseteq [nonce : Drawn, root : RootSet]

\* What the live record of device d stands for, when pairs is what has been
\* opened: it is for the session of its reservation, it holds no nonce but
\* the one drawn for its attempt, the view it revealed under is of its
\* person's whole support and was committed before that nonce was opened,
\* and it fixed no other view.
RecordSound(d, live, pairs) ==
    LET mine == <<d, live.attempt>> IN
    /\ d \in Support[live.session][Owner[d]]
    /\ live.bytes.session = live.session
    /\ live.commit \in {None, mine}
    /\ live.reveal # None =>
         /\ live.reveal.own = mine
         /\ {n[1] : n \in live.reveal.siblings \cup {mine}}
              = Support[live.session][Owner[d]]
         /\ \E o \in pairs :
              o.nonce = mine /\ live.reveal.siblings \cup {mine} \subseteq o.after
    /\ live.fixed # None => live.fixed = live.reveal

\* Attempt a has been issued, and whoever has it live has revealed.
Disclosed(reg, a) ==
    /\ a < reg.next
    /\ reg.live # None /\ reg.live.attempt = a => reg.live.reveal # None

\* Attempt a has been issued and is over.
Over(reg, a) ==
    /\ a < reg.next
    /\ reg.live # None => reg.live.attempt # a

RegistriesSound ==
    \A d \in Devices :
        /\ CounterSound(registry[d])
        /\ registry[d].live # None => RecordSound(d, registry[d].live, opened)

OpenedSound == \A o \in opened : Disclosed(registry[o.nonce[1]], o.nonce[2])

\* An answered attempt is over, and was answered once.
AnsweredSound ==
    /\ \A x \in answers : Over(registry[x.nonce[1]], x.nonce[2])
    /\ \A x, y \in answers : x.nonce = y.nonce => x = y

SInv ==
    /\ TypeOK
    /\ RegistriesSound
    /\ OpenedSound
    /\ AnsweredSound
    /\ AnswersForWholeSupport
    /\ CommittedBeforeDisclosure

-----------------------------------------------------------------------------
(* Registries *)

\* Live attempts are numbers, and an absent one is none.
LEMMA LiveNumber ==
    ASSUME NEW reg \in Registry, CounterSound(reg), reg.live # None
    PROVE  /\ reg.live \in Live
           /\ reg.live.attempt \in Nat
           /\ reg.live.attempt + 1 = reg.next
           /\ reg.live.attempt \in 0 .. MaxSequence
<1>1. reg.live \in Live /\ reg.live.attempt \in Nat /\ reg.next \in Nat
  BY DEF Registry, Live
<1>2. LiveAttempt(reg) = reg.live.attempt /\ LiveAttempt(reg) # None
  BY <1>1, LeafAssumption DEF LiveAttempt
<1>3. reg.live.attempt + 1 = reg.next /\ reg.next <= MaxSequence
  BY <1>2 DEF CounterSound
<1> QED
  BY <1>1, <1>3, LeafAssumption

\* What a step of a registry can make of its live attempt.
LEMMA LiveStep ==
    ASSUME NEW old \in Registry, CounterSound(old), NEW new, Successor(old, new)
    PROVE  /\ new.next >= old.next /\ new.next \in Nat /\ old.next \in Nat
           /\ new.live # None =>
                \/ old.live # None /\ new.live.attempt = old.live.attempt
                \/ new.live.attempt = old.next
<1>1. new \in Registry /\ CounterSound(new) /\ CounterStep(old, new)
  BY DEF Successor
<1>2. new.next \in Nat /\ old.next \in Nat
  BY <1>1 DEF Registry
<1>3. new.next >= old.next
  BY <1>1, <1>2 DEF CounterStep
<1>4. ASSUME new.live # None
      PROVE  \/ old.live # None /\ new.live.attempt = old.live.attempt
             \/ new.live.attempt = old.next
  <2>1. LiveAttempt(new) = new.live.attempt /\ new.live.attempt \in Nat
    BY <1>1, <1>4, LiveNumber DEF LiveAttempt
  <2>2. LiveAttempt(new) \in {LiveAttempt(old), None} \/ LiveAttempt(new) = old.next
    BY <1>1 DEF CounterStep
  <2>3. CASE LiveAttempt(new) = old.next
    BY <2>1, <2>3
  <2>4. CASE LiveAttempt(new) \in {LiveAttempt(old), None}
    <3>1. LiveAttempt(new) = LiveAttempt(old) /\ LiveAttempt(old) # None
      BY <2>1, <2>4, LeafAssumption
    <3> QED
      BY <2>1, <3>1 DEF LiveAttempt
  <2> QED
    BY <2>2, <2>3, <2>4
<1> QED
  BY <1>2, <1>3, <1>4

\* An attempt that is over stays over.
LEMMA OverKept ==
    ASSUME NEW old \in Registry, CounterSound(old), NEW new, Successor(old, new),
           NEW a \in Nat, Over(old, a)
    PROVE  Over(new, a)
<1>1. /\ new.next >= old.next /\ new.next \in Nat /\ old.next \in Nat
      /\ new.live # None =>
           \/ old.live # None /\ new.live.attempt = old.live.attempt
           \/ new.live.attempt = old.next
  BY LiveStep
<1>2. a < new.next
  BY <1>1 DEF Over
<1> QED
  BY <1>1, <1>2 DEF Over

\* The step leaves an attempt that has revealed in that state, or ends it.
KeepsReveal(old, new) ==
    (/\ old.live # None
     /\ new.live # None
     /\ new.live.attempt = old.live.attempt
     /\ old.live.reveal # None)
        => new.live.reveal # None

\* A disclosed attempt stays disclosed.
LEMMA DisclosedKept ==
    ASSUME NEW old \in Registry, CounterSound(old), NEW new, Successor(old, new),
           KeepsReveal(old, new), NEW a \in Nat, Disclosed(old, a)
    PROVE  Disclosed(new, a)
<1>1. /\ new.next >= old.next /\ new.next \in Nat /\ old.next \in Nat
      /\ new.live # None =>
           \/ old.live # None /\ new.live.attempt = old.live.attempt
           \/ new.live.attempt = old.next
  BY LiveStep
<1>2. a < new.next
  BY <1>1 DEF Disclosed
<1>3. ASSUME new.live # None, new.live.attempt = a
      PROVE  new.live.reveal # None
  BY <1>1, <1>3 DEF Disclosed, KeepsReveal
<1> QED
  BY <1>2, <1>3 DEF Disclosed

\* More openings do no harm to a record.
LEMMA RecordKept ==
    ASSUME NEW d, NEW live, NEW old, NEW new, old \subseteq new,
           RecordSound(d, live, old)
    PROVE  RecordSound(d, live, new)
BY DEF RecordSound

-----------------------------------------------------------------------------
(* One device moves *)

\* Device d moves to the registry new, and opens what is new in pairs.
DeviceMoves(d, new, pairs) ==
    /\ registry' = [registry EXCEPT ![d] = new]
    /\ Successor(registry[d], new)
    /\ KeepsReveal(registry[d], new)
    /\ new.live # None => RecordSound(d, new.live, pairs)
    /\ opened \subseteq pairs
    /\ \A o \in pairs \ opened :
         o.nonce[1] = d /\ Disclosed(new, o.nonce[2])
    /\ opened' = pairs

\* A device that moves soundly leaves every device sound.
LEMMA DeviceStep ==
    ASSUME SInv, NEW d \in Devices, NEW new, NEW pairs, DeviceMoves(d, new, pairs)
    PROVE  /\ registry' \in [Devices -> Registry]
           /\ RegistriesSound'
           /\ OpenedSound'
           /\ \A x \in answers : Over(registry'[x.nonce[1]], x.nonce[2])
<1>1. /\ registry \in [Devices -> Registry]
      /\ \A e \in Devices : CounterSound(registry[e])
  BY DEF SInv, TypeOK, RegistriesSound
<1>2. new \in Registry /\ CounterSound(new) /\ Successor(registry[d], new)
  BY DEF DeviceMoves, Successor
<1>3. /\ registry' \in [Devices -> Registry]
      /\ registry'[d] = new
      /\ \A e \in Devices : e # d => registry'[e] = registry[e]
  BY <1>1, <1>2 DEF DeviceMoves
<1>4. opened' = pairs /\ opened \subseteq pairs
  BY DEF DeviceMoves
<1>5. ASSUME NEW e \in Devices
      PROVE  /\ CounterSound(registry'[e])
             /\ registry'[e].live # None =>
                  RecordSound(e, registry'[e].live, opened')
  <2>1. CASE e = d
    BY <1>2, <1>3, <1>4, <2>1 DEF DeviceMoves
  <2>2. CASE e # d
    <3>1. registry'[e] = registry[e]
      BY <1>3, <2>2
    <3>2. registry[e].live # None => RecordSound(e, registry[e].live, opened)
      BY DEF SInv, RegistriesSound
    <3>3. registry[e].live # None => RecordSound(e, registry[e].live, opened')
      BY <1>4, <3>2, RecordKept
    <3> QED
      BY <1>1, <3>1, <3>3
  <2> QED
    BY <2>1, <2>2
<1>6. ASSUME NEW o \in pairs
      PROVE  Disclosed(registry'[o.nonce[1]], o.nonce[2])
  <2>1. CASE o \in opened
    <3>1. o.nonce \in Drawn /\ Disclosed(registry[o.nonce[1]], o.nonce[2])
      BY <2>1 DEF SInv, TypeOK, OpenedSound, OpenedSet
    <3>2. o.nonce[1] \in Devices /\ o.nonce[2] \in Nat
      BY <3>1, LeafAssumption DEF Drawn
    <3>3. CASE o.nonce[1] = d
      <4>1. Disclosed(new, o.nonce[2])
        BY <1>1, <1>2, <3>1, <3>2, <3>3, DisclosedKept DEF DeviceMoves
      <4> QED
        BY <1>3, <3>3, <4>1
    <3>4. CASE o.nonce[1] # d
      BY <1>3, <3>1, <3>2, <3>4
    <3> QED
      BY <3>3, <3>4
  <2>2. CASE o \notin opened
    <3>1. o.nonce[1] = d /\ Disclosed(new, o.nonce[2])
      BY <2>2 DEF DeviceMoves
    <3> QED
      BY <1>3, <3>1
  <2> QED
    BY <2>1, <2>2
<1>7. ASSUME NEW x \in answers
      PROVE  Over(registry'[x.nonce[1]], x.nonce[2])
  <2>1. x.nonce \in Drawn /\ Over(registry[x.nonce[1]], x.nonce[2])
    BY DEF SInv, TypeOK, AnsweredSound
  <2>2. x.nonce[1] \in Devices /\ x.nonce[2] \in Nat
    BY <2>1, LeafAssumption DEF Drawn
  <2>3. CASE x.nonce[1] = d
    <3>1. Over(new, x.nonce[2])
      BY <1>1, <1>2, <2>1, <2>2, <2>3, OverKept
    <3> QED
      BY <1>3, <2>3, <3>1
  <2>4. CASE x.nonce[1] # d
    BY <1>3, <2>1, <2>2, <2>4
  <2> QED
    BY <2>3, <2>4
<1>8. RegistriesSound'
  BY <1>5 DEF RegistriesSound
<1>9. OpenedSound'
  BY <1>4, <1>6 DEF OpenedSound
<1> QED
  BY <1>3, <1>7, <1>8, <1>9

\* A step in which one device moves and nothing is opened, fixed or answered.
LEMMA QuietStep ==
    ASSUME SInv, NEW d \in Devices, NEW new,
           registry' = [registry EXCEPT ![d] = new],
           Successor(registry[d], new),
           KeepsReveal(registry[d], new),
           new.live # None => RecordSound(d, new.live, opened),
           committed' \subseteq MessageSet,
           UNCHANGED <<now, opened, fixed, answers>>
    PROVE  SInv'
<1>1. DeviceMoves(d, new, opened)
  BY DEF DeviceMoves
<1>2. /\ registry' \in [Devices -> Registry]
      /\ RegistriesSound'
      /\ OpenedSound'
      /\ \A x \in answers : Over(registry'[x.nonce[1]], x.nonce[2])
  BY <1>1, DeviceStep
<1>3. TypeOK'
  BY <1>2 DEF SInv, TypeOK
<1>4. AnsweredSound'
  BY <1>2 DEF SInv, AnsweredSound
<1>5. AnswersForWholeSupport' /\ CommittedBeforeDisclosure'
  BY DEF SInv, AnswersForWholeSupport, CommittedBeforeDisclosure
<1> QED
  BY <1>2, <1>3, <1>4, <1>5 DEF SInv

\* What the invariant says of one device.
LEMMA DeviceFacts ==
    ASSUME SInv, NEW d \in Devices
    PROVE  /\ registry[d] \in Registry
           /\ CounterSound(registry[d])
           /\ LiveOf(d) # None =>
                /\ LiveOf(d) \in Live
                /\ RecordSound(d, LiveOf(d), opened)
                /\ Mine(d) \in Drawn
                /\ Message(d) \in MessageSet
<1>1. registry[d] \in Registry /\ CounterSound(registry[d])
  BY DEF SInv, TypeOK, RegistriesSound
<1>2. ASSUME LiveOf(d) # None
      PROVE  /\ LiveOf(d) \in Live
             /\ RecordSound(d, LiveOf(d), opened)
             /\ Mine(d) \in Drawn
             /\ Message(d) \in MessageSet
  <2>1. LiveOf(d) \in Live /\ LiveOf(d).attempt \in 0 .. MaxSequence
    BY <1>1, <1>2, LiveNumber DEF LiveOf
  <2>2. RecordSound(d, LiveOf(d), opened)
    BY <1>2 DEF SInv, RegistriesSound, LiveOf
  <2>3. Mine(d) \in Drawn
    BY <2>1 DEF Mine, Drawn
  <2>4. LiveOf(d).session \in Sessions /\ LiveOf(d).bytes \in Reservation
    BY <2>1 DEF Live
  <2> QED
    BY <2>1, <2>2, <2>3, <2>4 DEF Message, MessageSet
<1> QED
  BY <1>1, <1>2

\* A device that keeps or drops its live record and tells nobody.
LEMMA SettlingStep ==
    ASSUME SInv, NEW d \in Devices, NEW new,
           registry' = [registry EXCEPT ![d] = new],
           Successor(registry[d], new),
           new.live \in {registry[d].live, None},
           UNCHANGED <<now, committed, opened, fixed, answers>>
    PROVE  SInv'
<1>1. KeepsReveal(registry[d], new)
  BY DEF KeepsReveal
<1>2. new.live # None => RecordSound(d, new.live, opened)
  BY DEF SInv, RegistriesSound
<1>3. committed' \subseteq MessageSet
  BY DEF SInv, TypeOK
<1> QED
  BY <1>1, <1>2, <1>3, QuietStep

-----------------------------------------------------------------------------
(* Actions that close, reserve and commit *)

LEMMA CloseStep ==
    ASSUME SInv, NEW d \in Devices, DoClose(d)
    PROVE  SInv'
<1> DEFINE new == Close(registry[d], LiveOf(d).attempt).reg
<1>1. Successor(registry[d], new) /\ Settles(registry[d], new)
  BY DeviceFacts, CloseSuccessor, ClosingShape
<1>2. registry' = [registry EXCEPT ![d] = new]
  BY DEF DoClose, Becomes
<1>3. UNCHANGED <<now, committed, opened, fixed, answers>>
  BY DEF DoClose
<1> HIDE DEF new
<1> QED
  BY <1>1, <1>2, <1>3, SettlingStep DEF Settles

LEMMA ReceiveAbortStep ==
    ASSUME SInv, NEW d \in Devices, NEW s, NEW a, DoReceiveAbort(d, s, a)
    PROVE  SInv'
<1> DEFINE abort == [receiver |-> a, session |-> s,
                     bytes |-> Reserved[s][Owner[d]], member |-> TRUE]
           new == ReceiveAbort(registry[d], abort).reg
<1>1. Successor(registry[d], new) /\ Settles(registry[d], new)
  BY DeviceFacts, ReceiveAbortSuccessor, ClosingShape
<1>2. registry' = [registry EXCEPT ![d] = new]
  BY DEF DoReceiveAbort, Becomes
<1>3. UNCHANGED <<now, committed, opened, fixed, answers>>
  BY DEF DoReceiveAbort
<1> HIDE DEF new
<1> QED
  BY <1>1, <1>2, <1>3, SettlingStep DEF Settles

LEMMA CloseExpiredStep ==
    ASSUME SInv, NEW d \in Devices, DoCloseExpired(d)
    PROVE  SInv'
<1> DEFINE new == CloseExpired(registry[d], now).reg
<1>1. Successor(registry[d], new) /\ Settles(registry[d], new)
  BY DeviceFacts, CloseExpiredSuccessor, ClosingShape
<1>2. registry' = [registry EXCEPT ![d] = new]
  BY DEF DoCloseExpired, Becomes
<1>3. UNCHANGED <<now, committed, opened, fixed, answers>>
  BY DEF DoCloseExpired
<1> HIDE DEF new
<1> QED
  BY <1>1, <1>2, <1>3, SettlingStep DEF Settles

LEMMA ActivateInnerStep ==
    ASSUME SInv, NEW d \in Devices, DoActivateInner(d)
    PROVE  SInv'
<1> DEFINE bundle == BundleOf[Owner[d]]
           new == ActivateInnerBundle(registry[d], bundle).reg
<1>1. IsInnerBundle(bundle)
  BY SigningRoundAssumption DEF DoActivateInner
<1>2. registry' = [registry EXCEPT ![d] = new]
  BY DEF DoActivateInner, Becomes
<1>3. UNCHANGED <<now, committed, opened, fixed, answers>>
  BY DEF DoActivateInner
<1> HIDE DEF bundle
<1>4. Successor(registry[d], new) /\ Rekeys(registry[d], new)
  BY <1>1, DeviceFacts, ActivateInnerSuccessor, ActivateInnerShape
<1> HIDE DEF new
<1> QED
  BY <1>2, <1>3, <1>4, SettlingStep DEF Rekeys

\* A fresh record is sound: it holds nothing, and its device belongs to the
\* support of its session.
LEMMA ReserveStep ==
    ASSUME SInv, NEW d \in Devices, NEW s \in Sessions, DoReserve(d, s)
    PROVE  SInv'
<1> DEFINE bytes == Reserved[s][Owner[d]]
           new == Reserve(registry[d], s, now, bytes, bytes.binding).reg
           live == NewLive(registry[d].next, s, bytes, bytes.binding)
<1>1. /\ d \in Support[s][Owner[d]]
      /\ registry' = [registry EXCEPT ![d] = new]
      /\ UNCHANGED <<now, committed, opened, fixed, answers>>
  BY DEF DoReserve, Becomes
<1>2. /\ bytes \in Reservation /\ bytes.binding \in Binding /\ now \in Nat
      /\ bytes.session = s
  BY SigningRoundAssumption DEF Reservation, SInv, TypeOK
<1> HIDE DEF bytes
<1>3. registry[d] \in Registry /\ CounterSound(registry[d])
  BY DeviceFacts
<1>4. Successor(registry[d], new)
  BY <1>2, <1>3, ReserveSuccessor
<1>5. \/ Settles(registry[d], new)
      \/ registry[d].live = None /\ new.live = live
  BY <1>3, ReserveShape
<1> HIDE DEF new
<1>6. CASE Settles(registry[d], new)
  BY <1>1, <1>4, <1>6, SettlingStep DEF Settles
<1>7. CASE registry[d].live = None /\ new.live = live
  <2>1. KeepsReveal(registry[d], new)
    BY <1>7 DEF KeepsReveal
  <2>2. /\ live.session = s /\ live.bytes = bytes
        /\ live.commit = None /\ live.reveal = None /\ live.fixed = None
    BY DEF NewLive
  <2> HIDE DEF live
  <2>3. RecordSound(d, live, opened)
    BY <1>1, <1>2, <2>2 DEF RecordSound
  <2>4. committed' \subseteq MessageSet
    BY <1>1 DEF SInv, TypeOK
  <2> QED
    BY <1>1, <1>4, <1>7, <2>1, <2>3, <2>4, QuietStep
<1> QED
  BY <1>5, <1>6, <1>7

\* commit() draws the attempt's own nonce.
LEMMA CommitStep ==
    ASSUME SInv, NEW d \in Devices, DoCommit(d)
    PROVE  SInv'
<1> DEFINE old == LiveOf(d)
           new == Commit(registry[d], old.attempt, old.bytes, Mine(d)).reg
           live == [old EXCEPT !.commit = Mine(d)]
<1>1. /\ old # None
      /\ registry' = [registry EXCEPT ![d] = new]
      /\ committed' = committed \cup {Message(d)}
      /\ UNCHANGED <<now, opened, fixed, answers>>
  BY DEF DoCommit, Becomes
<1>2. /\ registry[d] \in Registry /\ CounterSound(registry[d])
      /\ old \in Live /\ RecordSound(d, old, opened)
      /\ Mine(d) \in Drawn /\ Message(d) \in MessageSet
  BY <1>1, DeviceFacts
<1>3. Successor(registry[d], new)
  BY <1>2, CommitSuccessor, SigningRoundAssumption
<1>4. \/ Settles(registry[d], new)
      \/ new.live = live
  BY <1>2, CommitShape DEF Extends, LiveOf
<1>5. committed' \subseteq MessageSet
  BY <1>1, <1>2 DEF SInv, TypeOK
<1> HIDE DEF new
<1>6. KeepsReveal(registry[d], new) /\ (new.live # None => RecordSound(d, new.live, opened))
  <2>1. CASE Settles(registry[d], new)
    BY <1>2, <2>1 DEF Settles, KeepsReveal, LiveOf
  <2>2. CASE new.live = live
    <3>1. /\ live.attempt = old.attempt /\ live.session = old.session
          /\ live.bytes = old.bytes
          /\ live.reveal = old.reveal /\ live.fixed = old.fixed
          /\ live.commit = <<d, old.attempt>>
      BY <1>2 DEF Live, Mine
    <3> HIDE DEF live
    <3>2. KeepsReveal(registry[d], new)
      BY <2>2, <3>1 DEF KeepsReveal, LiveOf
    <3> HIDE DEF old
    <3>3. RecordSound(d, live, opened)
      BY <1>2, <3>1 DEF RecordSound
    <3> QED
      BY <2>2, <3>2, <3>3
  <2> QED
    BY <1>4, <2>1, <2>2
<1> QED
  BY <1>1, <1>3, <1>5, <1>6, QuietStep

-----------------------------------------------------------------------------
(* Views *)

\* What a complete view of device d is made of: nonces from the messages of
\* its person's devices, its own one and one for each sibling of the support.
CompleteView(d, view, sent) ==
    LET nonces == view.siblings \cup {view.own} IN
    /\ view.own[1] = d
    /\ nonces \subseteq {m.nonce : m \in {x \in sent : Owner[x.nonce[1]] = Owner[d]}}
    /\ {n[1] : n \in nonces} = Support[LiveOf(d).session][Owner[d]]

\* A view that CommitmentView::new or OpeningView::new accepts is complete,
\* whichever messages it was made from.
LEMMA ViewFacts ==
    ASSUME SInv, NEW d \in Devices, LiveOf(d) # None,
           NEW sent, sent \subseteq MessageSet, NEW view \in Views(d, sent)
    PROVE  /\ view \in View \cup {None}
           /\ view # None => CompleteView(d, view, sent)
<1> DEFINE from == {m \in sent : Owner[m.nonce[1]] = Owner[d]}
           support == Support[LiveOf(d).session][Owner[d]]
<1>1. PICK a \in {0, LiveOf(d).attempt}, D \in SUBSET from : view = ViewOf(d, a, D)
  <2>1. PICK a \in {0, LiveOf(d).attempt},
             D \in UNION {kSubset(k, from) : k \in 0 .. Cardinality(support)} :
               view = ViewOf(d, a, D)
    BY DEF Views
  <2>2. D \in SUBSET from
    BY <2>1 DEF kSubset
  <2> QED
    BY <2>1, <2>2
<1> SUFFICES ASSUME view # None
             PROVE  view \in View /\ CompleteView(d, view, sent)
  OBVIOUS
<1> DEFINE nonces == {m.nonce : m \in D}
           any == CHOOSE m \in D : TRUE
           own == CHOOSE n \in nonces : n[1] = d
           siblings == {n \in nonces : n[1] # d}
<1>2. /\ {m.nonce[1] : m \in D} = support
      /\ view = [receiver |-> a, session |-> any.session, bytes |-> any.bytes,
                 own |-> own, siblings |-> siblings]
  BY <1>1 DEF ViewOf
<1>3. /\ LiveOf(d).attempt \in Nat /\ a \in Nat
      /\ d \in support
  <2>1. LiveOf(d) \in Live /\ RecordSound(d, LiveOf(d), opened)
    BY DeviceFacts
  <2>2. LiveOf(d).attempt \in Nat
    BY <2>1 DEF Live
  <2>3. d \in support
    BY <2>1 DEF RecordSound
  <2> QED
    BY <1>1, <2>2, <2>3
<1>4. D \subseteq MessageSet /\ D # {} /\ any \in D
  BY <1>1, <1>2, <1>3
<1>5. nonces \subseteq Drawn /\ \E n \in nonces : n[1] = d
  BY <1>2, <1>3, <1>4 DEF MessageSet
<1>6. own \in nonces /\ own[1] = d
  BY <1>5
<1>7. any.session \in Sessions /\ any.bytes \in Reservation
  BY <1>4 DEF MessageSet
<1>8. {n[1] : n \in nonces} = support
  BY <1>2
<1>9. nonces \subseteq {m.nonce : m \in from}
  BY <1>1
<1> HIDE DEF nonces, any, own
<1>10. siblings \in SUBSET Drawn /\ siblings \subseteq nonces
  BY <1>5
<1>11. {n[1] : n \in siblings \cup {own}} = support
  BY <1>3, <1>6, <1>8
<1>12. own \in Nonces /\ siblings \in Siblings
  BY <1>5, <1>6, <1>10, SigningRoundAssumption
<1> HIDE DEF siblings
<1>13. view.own = own /\ view.siblings = siblings
  BY <1>2
<1>14. view \in View
  BY <1>2, <1>3, <1>7, <1>12 DEF View
<1>15. CompleteView(d, view, sent)
  BY <1>6, <1>9, <1>10, <1>11, <1>13 DEF CompleteView
<1> QED
  BY <1>14, <1>15

-----------------------------------------------------------------------------
(* reveal, fix and respond *)

\* reveal(): a success replays the view of the record, or is the first and
\* for a view that opens the commitment.
LEMMA RevealResult ==
    ASSUME NEW reg \in Registry, NEW attempt, NEW view
    PROVE  LET r == Reveal(reg, attempt, view) IN
           \/ Settles(reg, r.reg) /\ r.out # "Ok"
           \/ r.reg = reg /\ reg.live.reveal # None
           \/ /\ r.reg.live = [reg.live EXCEPT !.reveal = view]
              /\ r.out = "Ok"
              /\ view # None
              /\ reg.live.reveal = None
              /\ reg.live.commit # None
              /\ view.own = reg.live.commit
<1> DEFINE r == Reveal(reg, attempt, view)
           live == [reg.live EXCEPT !.reveal = view]
           Fresh == /\ r = Advanced(reg, live)
                    /\ view # None
                    /\ reg.live.reveal = None
                    /\ reg.live.commit # None
                    /\ view.own = reg.live.commit
           Again == /\ reg.live.reveal # None
                    /\ r = Kept(reg, "Ok")
<1>1. \/ \E out : out # "Ok" /\ r = Kept(reg, out)
      \/ \E out : out # "Ok" /\ r = Closed(reg, out)
      \/ Again
      \/ Fresh
  BY DEF Reveal
<1> SUFFICES \/ Settles(reg, r.reg) /\ r.out # "Ok"
             \/ r.reg = reg /\ reg.live.reveal # None
             \/ /\ r.reg.live = live
                /\ r.out = "Ok"
                /\ view # None
                /\ reg.live.reveal = None
                /\ reg.live.commit # None
                /\ view.own = reg.live.commit
  OBVIOUS
<1> HIDE DEF r, live
<1>2. ASSUME NEW out, out # "Ok", r = Kept(reg, out) \/ r = Closed(reg, out)
      PROVE  Settles(reg, r.reg) /\ r.out # "Ok"
  <2>1. r.out = out
    BY <1>2 DEF Kept, Closed
  <2>2. Settles(reg, r.reg)
    BY <1>2, KeptSettles
  <2> QED
    BY <1>2, <2>1, <2>2
<1>3. CASE Again
  BY <1>3 DEF Kept
<1>4. CASE Fresh
  BY <1>4 DEF Advanced, Registry
<1> QED
  BY <1>1, <1>2, <1>3, <1>4

\* fix(): a success is for a complete view, the one the record was revealed
\* under or has fixed already.
LEMMA FixResult ==
    ASSUME NEW reg \in Registry, NEW attempt, NEW view
    PROVE  LET r == Fix(reg, attempt, view) IN
           /\ \/ Settles(reg, r.reg)
              \/ /\ r.reg.live = [reg.live EXCEPT !.fixed = view]
                 /\ view = reg.live.reveal
           /\ r.out = "Ok" => view # None
<1> DEFINE r == Fix(reg, attempt, view)
           live == [reg.live EXCEPT !.fixed = view]
<1>1. \/ \E out : out # "Ok" /\ (r = Kept(reg, out) \/ r = Closed(reg, out))
      \/ view # None /\ r = Kept(reg, "Ok")
      \/ view # None /\ r = Advanced(reg, live) /\ view = reg.live.reveal
  BY DEF Fix
<1> SUFFICES /\ Settles(reg, r.reg) \/ (r.reg.live = live /\ view = reg.live.reveal)
             /\ r.out = "Ok" => view # None
  OBVIOUS
<1> HIDE DEF r, live
<1>2. ASSUME NEW out, out # "Ok", r = Kept(reg, out) \/ r = Closed(reg, out)
      PROVE  Settles(reg, r.reg) /\ r.out # "Ok"
  <2>1. r.out = out
    BY <1>2 DEF Kept, Closed
  <2>2. Settles(reg, r.reg)
    BY <1>2, KeptSettles
  <2> QED
    BY <1>2, <2>1, <2>2
<1>3. CASE view # None /\ r = Kept(reg, "Ok")
  BY <1>3, KeptSettles
<1>4. CASE view # None /\ r = Advanced(reg, live) /\ view = reg.live.reveal
  BY <1>4 DEF Advanced, Registry
<1> QED
  BY <1>1, <1>2, <1>3, <1>4

\* respond(): a success is for the reservation of the record and for the
\* nonces it has fixed.
LEMMA RespondResult ==
    ASSUME NEW reg \in Registry, NEW attempt, NEW package,
           Respond(reg, attempt, package).out = "Ok"
    PROVE  /\ reg.live.fixed # None
           /\ package.bytes = reg.live.bytes
           /\ package.own = reg.live.fixed.own
           /\ package.siblings = reg.live.fixed.siblings
<1>1. TakeLive(reg, attempt) = "Ok"
  BY DEF Respond, Kept
<1>2. ResponseTo(reg, package) = "Ok"
  BY <1>1 DEF Respond, Closed
<1> QED
  BY <1>2 DEF ResponseTo

\* The first nonce pair of a live attempt is opened when it reveals, after
\* the commitments it names; a replay opens nothing else.
LEMMA RevealStep ==
    ASSUME SInv, NEW d \in Devices, DoReveal(d)
    PROVE  SInv'
<1> DEFINE old == LiveOf(d)
           before == {n \in {m.nonce : m \in committed} : Owner[n[1]] = Owner[d]}
           pair == [nonce |-> Mine(d), session |-> old.session,
                    bytes |-> old.bytes, after |-> before]
<1>1. PICK view \in Views(d, committed) :
        LET r == Reveal(registry[d], old.attempt, view) IN
        /\ registry' = [registry EXCEPT ![d] = r.reg]
        /\ opened' = IF r.out = "Ok" /\ Message(d) \notin Openings
                     THEN opened \cup {pair} ELSE opened
  BY DEF DoReveal, Becomes
<1> DEFINE r == Reveal(registry[d], old.attempt, view)
           live == [old EXCEPT !.reveal = view]
<1>2. old # None /\ UNCHANGED <<now, committed, fixed, answers>>
  BY DEF DoReveal
<1>3. /\ registry[d] \in Registry /\ CounterSound(registry[d])
      /\ old \in Live /\ RecordSound(d, old, opened)
      /\ Mine(d) \in Drawn /\ Message(d) \in MessageSet
      /\ committed \subseteq MessageSet
  BY <1>2, DeviceFacts DEF SInv, TypeOK
<1>4. /\ view \in View \cup {None}
      /\ view # None => CompleteView(d, view, committed)
  BY <1>2, <1>3, ViewFacts
<1>5. Successor(registry[d], r.reg)
  BY <1>3, <1>4, RevealSuccessor
<1>6. \/ Settles(registry[d], r.reg) /\ r.out # "Ok"
      \/ r.reg = registry[d] /\ old.reveal # None
      \/ /\ r.reg.live = live /\ r.out = "Ok"
         /\ view # None /\ old.reveal = None /\ old.commit # None
         /\ view.own = old.commit
  BY <1>3, RevealResult DEF LiveOf
<1>7. /\ registry' = [registry EXCEPT ![d] = r.reg]
      /\ opened' \in {opened, opened \cup {pair}}
      /\ r.out # "Ok" => opened' = opened
      /\ r.out = "Ok" /\ Message(d) \notin Openings => opened' = opened \cup {pair}
  BY <1>1
<1>8. before \in SUBSET Drawn
  BY <1>3 DEF MessageSet
<1>9. /\ pair \in OpenedSet /\ pair.nonce = Mine(d) /\ pair.after = before
      /\ pair.nonce[1] = d /\ pair.nonce[2] = old.attempt
  <2>1. old.session \in Sessions /\ old.bytes \in Reservation
    BY <1>3 DEF Live
  <2> HIDE DEF old, before
  <2>2. pair \in OpenedSet /\ pair.nonce = Mine(d) /\ pair.after = before
    BY <1>3, <1>8, <2>1 DEF OpenedSet
  <2> QED
    BY <2>2 DEF Mine, old
<1>10. old.attempt < registry[d].next
  <2>1. old.attempt \in Nat /\ old.attempt + 1 = registry[d].next
    BY <1>2, <1>3, LiveNumber DEF LiveOf
  <2> QED
    BY <2>1
<1> HIDE DEF r, pair
<1>11. DeviceMoves(d, r.reg, opened')
  <2>1. CASE Settles(registry[d], r.reg) /\ r.out # "Ok"
    <3>1. KeepsReveal(registry[d], r.reg)
      BY <2>1 DEF Settles, KeepsReveal
    <3>2. opened' = opened
      BY <1>7, <2>1
    <3>3. r.reg.live # None => RecordSound(d, r.reg.live, opened')
      BY <1>3, <2>1, <3>2 DEF Settles, LiveOf
    <3> QED
      BY <1>5, <1>7, <3>1, <3>2, <3>3 DEF DeviceMoves
  <2>2. CASE r.reg = registry[d] /\ old.reveal # None
    <3>1. KeepsReveal(registry[d], r.reg)
      BY <2>2 DEF KeepsReveal
    <3>2. opened \subseteq opened' /\ opened' \ opened \subseteq {pair}
      BY <1>7
    <3>3. RecordSound(d, old, opened')
      BY <1>3, <3>2, RecordKept
    <3>4. Disclosed(r.reg, old.attempt)
      BY <1>10, <2>2 DEF Disclosed, LiveOf
    <3> QED
      BY <1>5, <1>7, <1>9, <2>2, <3>1, <3>2, <3>3, <3>4 DEF DeviceMoves, LiveOf
  <2>3. CASE /\ r.reg.live = live /\ r.out = "Ok"
             /\ view # None /\ old.reveal = None /\ old.commit # None
             /\ view.own = old.commit
    <3>1. /\ live.attempt = old.attempt /\ live.session = old.session
          /\ live.bytes = old.bytes
          /\ live.commit = old.commit /\ live.reveal = view
          /\ live.fixed = old.fixed
      BY <1>3 DEF Live
    <3>2. KeepsReveal(registry[d], r.reg)
      BY <2>3 DEF KeepsReveal, LiveOf
    <3>3. Message(d) \notin Openings
      <4>1. ASSUME NEW o \in opened, o.nonce = Mine(d)
            PROVE  FALSE
        <5>1. Disclosed(registry[d], old.attempt)
          BY <4>1 DEF SInv, OpenedSound, Mine
        <5> QED
          BY <1>2, <2>3, <5>1 DEF Disclosed, LiveOf
      <4> QED
        BY <4>1 DEF Openings, Message
    <3>4. opened' = opened \cup {pair}
      BY <1>7, <2>3, <3>3
    <3>5. old.commit = Mine(d) /\ old.fixed = None
      BY <1>3, <2>3 DEF RecordSound, Mine
    <3>6. /\ view.siblings \cup {Mine(d)} \subseteq before
          /\ {n[1] : n \in view.siblings \cup {Mine(d)}} = Support[old.session][Owner[d]]
      BY <1>4, <2>3, <3>5 DEF CompleteView
    <3> HIDE DEF live
    <3>7. RecordSound(d, live, opened')
      <4>1. /\ d \in Support[live.session][Owner[d]]
            /\ live.bytes.session = live.session
        BY <1>3, <3>1 DEF RecordSound
      <4>2. Mine(d) = <<d, live.attempt>>
        BY <3>1 DEF Mine
      <4>3. /\ live.reveal.own = Mine(d)
            /\ \E o \in opened' :
                 o.nonce = Mine(d) /\ live.reveal.siblings \cup {Mine(d)} \subseteq o.after
        BY <1>9, <2>3, <3>1, <3>4, <3>5, <3>6
      <4>4. {n[1] : n \in live.reveal.siblings \cup {Mine(d)}}
              = Support[live.session][Owner[d]]
        BY <3>1, <3>6
      <4> QED
        BY <3>1, <3>5, <4>1, <4>2, <4>3, <4>4 DEF RecordSound
    <3>8. Disclosed(r.reg, old.attempt)
      <4>1. old.attempt < r.reg.next
        <5>1. r.reg.next >= registry[d].next /\ r.reg.next \in Nat /\ registry[d].next \in Nat
          BY <1>3, <1>5, LiveStep
        <5>2. old.attempt \in Nat
          BY <1>3 DEF Live
        <5> QED
          BY <1>10, <5>1, <5>2
      <4> QED
        BY <2>3, <3>1, <4>1 DEF Disclosed
    <3> QED
      BY <1>5, <1>7, <1>9, <2>3, <3>2, <3>4, <3>7, <3>8 DEF DeviceMoves
  <2> QED
    BY <1>6, <2>1, <2>2, <2>3
<1>12. /\ registry' \in [Devices -> Registry]
       /\ RegistriesSound'
       /\ OpenedSound'
       /\ \A x \in answers : Over(registry'[x.nonce[1]], x.nonce[2])
  BY <1>11, DeviceStep
<1>13. opened \subseteq opened' /\ opened' \subseteq OpenedSet
  BY <1>7, <1>9 DEF SInv, TypeOK
<1>14. TypeOK'
  BY <1>2, <1>12, <1>13 DEF SInv, TypeOK
<1>15. AnsweredSound'
  BY <1>2, <1>12 DEF SInv, AnsweredSound
<1>16. AnswersForWholeSupport'
  BY <1>2 DEF SInv, AnswersForWholeSupport
<1>17. CommittedBeforeDisclosure'
  BY <1>2, <1>13 DEF SInv, CommittedBeforeDisclosure
<1> QED
  BY <1>12, <1>14, <1>15, <1>16, <1>17 DEF SInv

\* fix() reports a sum of drawn nonces, and writes down the view that the
\* attempt revealed under.
LEMMA FixStep ==
    ASSUME SInv, NEW d \in Devices, DoFix(d)
    PROVE  SInv'
<1> DEFINE old == LiveOf(d)
<1>1. PICK view \in Views(d, Openings) :
        LET r == Fix(registry[d], old.attempt, view) IN
        /\ registry' = [registry EXCEPT ![d] = r.reg]
        /\ fixed' = IF r.out = "Ok"
                    THEN fixed \cup {view.siblings \cup {view.own}}
                    ELSE fixed
  BY DEF DoFix, Becomes
<1> DEFINE r == Fix(registry[d], old.attempt, view)
           live == [old EXCEPT !.fixed = view]
           sum == view.siblings \cup {view.own}
<1>2. old # None /\ UNCHANGED <<now, committed, opened, answers>>
  BY DEF DoFix
<1>3. /\ registry[d] \in Registry /\ CounterSound(registry[d])
      /\ old \in Live /\ RecordSound(d, old, opened)
  BY <1>2, DeviceFacts
<1>4. Openings \subseteq MessageSet
  BY DEF SInv, TypeOK, Openings, OpenedSet, MessageSet
<1>5. /\ view \in View \cup {None}
      /\ view # None => CompleteView(d, view, Openings)
  BY <1>2, <1>4, ViewFacts
<1>6. Successor(registry[d], r.reg)
  BY <1>3, <1>5, FixSuccessor
<1>7. /\ Settles(registry[d], r.reg) \/ (r.reg.live = live /\ view = old.reveal)
      /\ r.out = "Ok" => view # None
  BY <1>3, FixResult DEF LiveOf
<1>8. /\ registry' = [registry EXCEPT ![d] = r.reg]
      /\ fixed' = IF r.out = "Ok" THEN fixed \cup {sum} ELSE fixed
  BY <1>1
<1> HIDE DEF r
<1>9. ASSUME r.out = "Ok"
      PROVE  sum \in SUBSET Drawn
  <2>1. CompleteView(d, view, Openings)
    BY <1>5, <1>7, <1>9
  <2> QED
    BY <1>4, <2>1 DEF CompleteView, MessageSet
<1> HIDE DEF sum
<1>10. KeepsReveal(registry[d], r.reg) /\ (r.reg.live # None => RecordSound(d, r.reg.live, opened))
  <2>1. CASE Settles(registry[d], r.reg)
    BY <1>3, <2>1 DEF Settles, KeepsReveal, LiveOf
  <2>2. CASE r.reg.live = live /\ view = old.reveal
    <3>1. /\ live.attempt = old.attempt /\ live.session = old.session
          /\ live.bytes = old.bytes
          /\ live.commit = old.commit /\ live.reveal = old.reveal
          /\ live.fixed = old.reveal
      BY <1>3, <2>2 DEF Live
    <3> HIDE DEF live
    <3>2. KeepsReveal(registry[d], r.reg)
      BY <2>2, <3>1 DEF KeepsReveal, LiveOf
    <3> HIDE DEF old
    <3>3. RecordSound(d, live, opened)
      BY <1>3, <3>1 DEF RecordSound
    <3> QED
      BY <2>2, <3>2, <3>3
  <2> QED
    BY <1>7, <2>1, <2>2
<1>11. DeviceMoves(d, r.reg, opened)
  BY <1>2, <1>6, <1>8, <1>10 DEF DeviceMoves
<1>12. /\ registry' \in [Devices -> Registry]
       /\ RegistriesSound'
       /\ OpenedSound'
       /\ \A x \in answers : Over(registry'[x.nonce[1]], x.nonce[2])
  BY <1>11, DeviceStep
<1>13. fixed' \subseteq SUBSET Drawn
  BY <1>8, <1>9 DEF SInv, TypeOK
<1>14. TypeOK'
  BY <1>2, <1>12, <1>13 DEF SInv, TypeOK
<1>15. AnsweredSound'
  BY <1>2, <1>12 DEF SInv, AnsweredSound
<1>16. AnswersForWholeSupport' /\ CommittedBeforeDisclosure'
  BY <1>2 DEF SInv, AnswersForWholeSupport, CommittedBeforeDisclosure
<1> QED
  BY <1>12, <1>14, <1>15, <1>16 DEF SInv

\* All that is known of a root: its session and a sum for each person.
LEMMA RootFacts ==
    ASSUME SInv, NEW root \in Roots
    PROVE  root \in RootSet
<1>1. /\ root \in [session : Sessions,
                   nonces : [Persons -> fixed \cup UNION {Pairs[p] : p \in Persons}]]
      /\ \A p \in Persons : root.nonces[p] \in fixed \cup Pairs[p]
  BY DEF Roots
<1>2. \A p \in Persons : fixed \subseteq SUBSET Drawn /\ Pairs[p] \subseteq SUBSET Drawn
  BY SigningRoundAssumption DEF SInv, TypeOK
<1>3. root.nonces \in [Persons -> SUBSET Drawn]
  BY <1>1, <1>2
<1> QED
  BY <1>1, <1>3 DEF RootSet

\* An answer uses up its attempt and stands on the view the attempt revealed
\* under: that view, and not the coordinator, speaks for the whole support.
LEMMA RespondStep ==
    ASSUME SInv, NEW d \in Devices, DoRespond(d)
    PROVE  SInv'
<1> DEFINE old == LiveOf(d)
<1>1. PICK root \in Roots :
        LET r == Respond(registry[d], old.attempt, PackageFor(d, root)) IN
        /\ registry' = [registry EXCEPT ![d] = r.reg]
        /\ answers' = IF r.out = "Ok"
                      THEN answers \cup {[nonce |-> Mine(d), root |-> root]}
                      ELSE answers
  BY DEF DoRespond, Becomes
<1> DEFINE package == PackageFor(d, root)
           r == Respond(registry[d], old.attempt, package)
           answer == [nonce |-> Mine(d), root |-> root]
           mine == root.nonces[Owner[d]]
<1>2. old # None /\ UNCHANGED <<now, committed, opened, fixed>>
  BY DEF DoRespond
<1>3. /\ registry[d] \in Registry /\ CounterSound(registry[d])
      /\ old \in Live /\ RecordSound(d, old, opened) /\ Mine(d) \in Drawn
  BY <1>2, DeviceFacts
<1>4. root \in RootSet
  BY RootFacts
<1>5. Successor(registry[d], r.reg) /\ Settles(registry[d], r.reg)
  BY <1>3, RespondSuccessor, RespondShape
<1>6. r.out = "Ok" =>
        /\ r.reg.live = None
        /\ old.fixed # None
        /\ package.bytes = old.bytes
        /\ package.own = old.fixed.own
        /\ package.siblings = old.fixed.siblings
  BY <1>3, RespondShape, RespondResult DEF LiveOf
<1>7. /\ registry' = [registry EXCEPT ![d] = r.reg]
      /\ answers' = IF r.out = "Ok" THEN answers \cup {answer} ELSE answers
  BY <1>1
<1>8. /\ package.bytes = Reserved[root.session][Owner[d]]
      /\ package.own = IF Mine(d) \in mine THEN Mine(d) ELSE None
      /\ package.siblings = mine \ {Mine(d)}
  BY DEF PackageFor
<1>9. /\ answer.nonce = Mine(d) /\ answer.root = root
      /\ answer.nonce[1] = d /\ answer.nonce[2] = old.attempt
      /\ answer \in [nonce : Drawn, root : RootSet]
  BY <1>3, <1>4 DEF Mine
<1> HIDE DEF r, package, answer
<1>10. KeepsReveal(registry[d], r.reg) /\ (r.reg.live # None => RecordSound(d, r.reg.live, opened))
  BY <1>3, <1>5 DEF Settles, KeepsReveal, LiveOf
<1>11. DeviceMoves(d, r.reg, opened)
  BY <1>2, <1>5, <1>7, <1>10 DEF DeviceMoves
<1>12. /\ registry' \in [Devices -> Registry]
       /\ RegistriesSound'
       /\ OpenedSound'
       /\ \A x \in answers : Over(registry'[x.nonce[1]], x.nonce[2])
  BY <1>11, DeviceStep
<1>13. TypeOK'
  BY <1>2, <1>7, <1>9, <1>12 DEF SInv, TypeOK
<1>14. ASSUME r.out = "Ok"
       PROVE  /\ old.reveal # None
              /\ Mine(d) = <<d, old.attempt>>
              /\ mine = old.reveal.siblings \cup {Mine(d)}
              /\ root.session = old.session
  <2>1. old.fixed = old.reveal /\ old.reveal # None
    BY <1>3, <1>6, <1>14 DEF RecordSound
  <2>2. old.reveal.own = Mine(d) /\ Mine(d) = <<d, old.attempt>>
    BY <1>3, <2>1 DEF RecordSound, Mine
  <2>3. Mine(d) # None
    BY <1>3, SigningRoundAssumption
  <2>4. Mine(d) \in mine /\ mine \ {Mine(d)} = old.reveal.siblings
    BY <1>6, <1>8, <1>14, <2>1, <2>2, <2>3
  <2>5. mine = old.reveal.siblings \cup {Mine(d)}
    BY <2>4
  <2>6. root.session \in Sessions /\ Owner[d] \in Persons
    BY <1>4, SigningRoundAssumption DEF RootSet
  <2>7. Reserved[root.session][Owner[d]].session = root.session
    BY <2>6, SigningRoundAssumption
  <2>8. old.bytes.session = old.session
    BY <1>3 DEF RecordSound
  <2>9. root.session = old.session
    BY <1>6, <1>8, <1>14, <2>7, <2>8
  <2> QED
    BY <2>1, <2>2, <2>5, <2>9
<1>15. ASSUME r.out = "Ok"
      PROVE  Over(registry'[answer.nonce[1]], answer.nonce[2])
  <2>1. registry'[d] = r.reg
    BY <1>7 DEF SInv, TypeOK
  <2>2. old.attempt \in Nat /\ old.attempt + 1 = registry[d].next
    BY <1>2, <1>3, LiveNumber DEF LiveOf
  <2>3. r.reg.next = registry[d].next
    BY <1>5 DEF Settles
  <2>4. Over(r.reg, old.attempt)
    BY <1>6, <1>15, <2>2, <2>3 DEF Over
  <2> QED
    BY <1>9, <2>1, <2>4
<1>16. ASSUME NEW x \in answers
       PROVE  x.nonce # answer.nonce
  <2>1. Over(registry[x.nonce[1]], x.nonce[2])
    BY DEF SInv, AnsweredSound
  <2>2. SUFFICES ASSUME x.nonce = answer.nonce PROVE FALSE
    OBVIOUS
  <2>3. Over(registry[d], old.attempt)
    BY <1>9, <2>1, <2>2
  <2> QED
    BY <1>2, <2>3 DEF Over, LiveOf
<1>17. AnsweredSound'
  <2>1. \A x \in answers' : Over(registry'[x.nonce[1]], x.nonce[2])
    BY <1>7, <1>12, <1>15
  <2>2. \A x, y \in answers' : x.nonce = y.nonce => x = y
    BY <1>7, <1>16 DEF SInv, AnsweredSound
  <2> QED
    BY <2>1, <2>2 DEF AnsweredSound
<1>18. AnswersForWholeSupport'
  <2>1. ASSUME r.out = "Ok"
        PROVE  {n[1] : n \in mine} = Support[root.session][Owner[d]]
    <3>1. {n[1] : n \in old.reveal.siblings \cup {Mine(d)}} = Support[old.session][Owner[d]]
      BY <1>3, <1>14, <2>1 DEF RecordSound
    <3> QED
      BY <1>14, <2>1, <3>1
  <2>2. r.out = "Ok" =>
          {n[1] : n \in answer.root.nonces[Owner[answer.nonce[1]]]}
            = Support[answer.root.session][Owner[answer.nonce[1]]]
    BY <1>9, <2>1
  <2> QED
    BY <1>7, <2>2 DEF SInv, AnswersForWholeSupport
<1>19. ASSUME r.out = "Ok"
       PROVE  \E o \in opened :
                /\ o.nonce = answer.nonce
                /\ answer.root.nonces[Owner[answer.nonce[1]]] \subseteq o.after
  <2>1. \E o \in opened :
          o.nonce = Mine(d) /\ old.reveal.siblings \cup {Mine(d)} \subseteq o.after
    BY <1>3, <1>14, <1>19 DEF RecordSound
  <2> QED
    BY <1>9, <1>14, <1>19, <2>1
<1>20. CommittedBeforeDisclosure'
  BY <1>2, <1>7, <1>19 DEF SInv, CommittedBeforeDisclosure
<1> QED
  BY <1>12, <1>13, <1>17, <1>18, <1>20 DEF SInv

-----------------------------------------------------------------------------
(* The theorems *)

LEMMA InitSInv == Init => SInv
<1> SUFFICES ASSUME Init PROVE SInv
  OBVIOUS
<1>1. ASSUME NEW d \in Devices
      PROVE  /\ registry[d] \in Registry
             /\ registry[d].live = None
             /\ registry[d].next = 0
  <2>1. Material0[d] \in Material
    BY SigningRoundAssumption
  <2> QED
    BY <2>1 DEF Init, NewRegistry, Registry
<1>2. registry \in [Devices -> Registry]
  BY <1>1 DEF Init
<1>3. TypeOK
  BY <1>2 DEF Init, TypeOK
<1>4. RegistriesSound
  <2>1. \A d \in Devices : CounterSound(registry[d])
    BY <1>1, LeafAssumption DEF CounterSound, LiveAttempt
  <2> QED
    BY <1>1, <2>1 DEF RegistriesSound
<1>5. OpenedSound /\ AnsweredSound
  BY DEF Init, OpenedSound, AnsweredSound
<1>6. AnswersForWholeSupport /\ CommittedBeforeDisclosure
  BY DEF Init, AnswersForWholeSupport, CommittedBeforeDisclosure
<1> QED
  BY <1>3, <1>4, <1>5, <1>6 DEF SInv

\* The clock and a stuttering step leave everybody alone.
LEMMA IdleStep ==
    ASSUME SInv, now' \in Nat, UNCHANGED <<registry, committed, opened, fixed, answers>>
    PROVE  SInv'
<1>1. TypeOK'
  BY DEF SInv, TypeOK
<1>2. RegistriesSound' /\ OpenedSound'
  BY DEF SInv, RegistriesSound, OpenedSound
<1>3. AnsweredSound'
  BY DEF SInv, AnsweredSound
<1>4. AnswersForWholeSupport' /\ CommittedBeforeDisclosure'
  BY DEF SInv, AnswersForWholeSupport, CommittedBeforeDisclosure
<1> QED
  BY <1>1, <1>2, <1>3, <1>4 DEF SInv

LEMMA NextSInv == SInv /\ [Next]_vars => SInv'
<1> SUFFICES ASSUME SInv, [Next]_vars PROVE SInv'
  OBVIOUS
<1>1. ASSUME NEW d \in Devices, NEW s \in Sessions, DoReserve(d, s) PROVE SInv'
  BY <1>1, ReserveStep
<1>2. ASSUME NEW d \in Devices, DoCommit(d) PROVE SInv'
  BY <1>2, CommitStep
<1>3. ASSUME NEW d \in Devices, DoReveal(d) PROVE SInv'
  BY <1>3, RevealStep
<1>4. ASSUME NEW d \in Devices, DoFix(d) PROVE SInv'
  BY <1>4, FixStep
<1>5. ASSUME NEW d \in Devices, DoRespond(d) PROVE SInv'
  BY <1>5, RespondStep
<1>6. ASSUME NEW d \in Devices, DoClose(d) PROVE SInv'
  BY <1>6, CloseStep
<1>7. ASSUME NEW d \in Devices, NEW s \in Sessions,
             NEW a \in 0 .. (registry[d].next - 1), DoReceiveAbort(d, s, a)
      PROVE  SInv'
  BY <1>7, ReceiveAbortStep
<1>8. ASSUME NEW d \in Devices, DoCloseExpired(d) PROVE SInv'
  BY <1>8, CloseExpiredStep
<1>9. ASSUME NEW d \in Devices, DoActivateInner(d) PROVE SInv'
  BY <1>9, ActivateInnerStep
<1>10. CASE Tick
  <2>1. now' \in Nat
    BY <1>10 DEF Tick, SInv, TypeOK
  <2> QED
    BY <1>10, <2>1, IdleStep DEF Tick
<1>11. CASE UNCHANGED vars
  <2>1. now' \in Nat
    BY <1>11 DEF vars, SInv, TypeOK
  <2> QED
    BY <1>11, <2>1, IdleStep DEF vars
<1> QED
  BY <1>1, <1>2, <1>3, <1>4, <1>5, <1>6, <1>7, <1>8, <1>9, <1>10, <1>11
     DEF Next

\* The registries, messages and answers of all devices stay sound, whatever
\* is delivered to whom and in which order (leaf.rs, auth.rs, transcript.rs).
THEOREM SigningInvariance == Spec => []SInv
<1> QED
  BY InitSInv, NextSInv, PTL DEF Spec

\* A device answers only when the nonces of its own slot come from every
\* device of its person's support, whatever root it is handed (auth.rs:
\* CommitmentView::new, OpeningView::new; signing.rs: validate_member_inputs).
THEOREM WholeSupports == Spec => []AnswersForWholeSupport
<1>1. SInv => AnswersForWholeSupport
  BY DEF SInv
<1> QED
  BY <1>1, SigningInvariance, PTL

\* A device answers only with a nonce that it disclosed after every nonce it
\* answers together with was committed (leaf.rs: reveal, fix, respond_with).
THEOREM CommittedFirst == Spec => []CommittedBeforeDisclosure
<1>1. SInv => CommittedBeforeDisclosure
  BY DEF SInv
<1> QED
  BY <1>1, SigningInvariance, PTL

\* Two signatures share no nonce: a nonce of a signature was answered for its
\* root, and respond_with() answers an attempt at most once (leaf.rs).
THEOREM SignaturesApart == Spec => []SignaturesShareNoNonce
<1>1. ASSUME SInv
      PROVE  SignaturesShareNoNonce
  <2>1. SUFFICES ASSUME NEW x \in answers, NEW y \in answers,
                        Signed(x.root), Signed(y.root),
                        NEW p \in Persons,
                        NEW n \in x.root.nonces[p] \cap y.root.nonces[p]
                 PROVE  x.root = y.root
    BY DEF SignaturesShareNoNonce
  <2> DEFINE u == [nonce |-> n, root |-> x.root]
             v == [nonce |-> n, root |-> y.root]
  <2>2. u \in answers /\ v \in answers
    BY <2>1 DEF Signed
  <2>3. u.nonce = v.nonce => u = v
    BY <1>1, <2>2 DEF SInv, AnsweredSound
  <2>4. u.nonce = n /\ v.nonce = n /\ u.root = x.root /\ v.root = y.root
    OBVIOUS
  <2> HIDE DEF u, v
  <2> QED
    BY <2>3, <2>4
<1> QED
  BY <1>1, SigningInvariance, PTL

=============================================================================
