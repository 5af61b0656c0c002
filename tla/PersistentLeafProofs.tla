------------------------ MODULE PersistentLeafProofs ------------------------
(***************************************************************************)
(* Safety of PersistentLeaf for any number of instances, any counters and  *)
(* any inputs, with calls that interleave or not: IInv is inductive, and   *)
(* from it one response per attempt, a journal that only advances, and the *)
(* implementation of AttemptAuthority. MInv and EInv say, over IInv, which *)
(* material a response was computed under and which the store holds.       *)
(*                                                                         *)
(* The argument: a step changes the store only through CompareExchange,    *)
(* and whoever calls it at the stored revision has the stored record as    *)
(* the base of its write (Agrees, InflightSound). So the journal makes one *)
(* attempt step at a time (StoreChange), which keeps every other instance  *)
(* and every answered attempt as it was.                                   *)
(***************************************************************************)
EXTENDS PersistentLeaf, LeafProofs

-----------------------------------------------------------------------------
(* What any step does to the store *)

StoreChange ==
    /\ journal' \in Journal
    /\ rev' \in Nat
    /\ materials' \subseteq Material
    /\ inflight' \subseteq [expected : Nat, next : Journal]
    /\ rev' >= rev
    /\ rev' = rev => journal' = journal
    /\ AttemptStep(journal, journal')
    /\ StoreSound'

\* The store as it is: its types and its part of the invariant.
StoreBefore ==
    /\ journal \in Journal
    /\ rev \in Nat
    /\ materials \subseteq Material
    /\ inflight \subseteq [expected : Nat, next : Journal]
    /\ StoreSound

\* A step without a store call is a store change.
LEMMA StoreKept ==
    ASSUME StoreBefore, UNCHANGED store
    PROVE  StoreChange
BY DEF StoreBefore, StoreChange, store, StoreSound, InflightSound,
       JournalSound, AttemptStep, Journal

\* put_material() of material is a store change.
LEMMA PutStoreChange ==
    ASSUME StoreBefore, NEW m \in Material, NEW result, CallPut(m, result)
    PROVE  StoreChange
BY DEF StoreBefore, StoreChange, CallPut, StoreSound, InflightSound,
       JournalSound, AttemptStep, Journal

\* compare_exchange_journal() with a record that is one attempt step from
\* the stored one, if the revision matches, is a store change.
LEMMA ExchangeStoreChange ==
    ASSUME StoreBefore,
           NEW expected \in Nat, NEW next \in Journal,
           JournalSound(next),
           expected = rev => AttemptStep(journal, next),
           inflight' \subseteq inflight,
           CompareExchange(expected, next)
    PROVE  StoreChange
<1>1. CASE expected = rev /\ rev < MaxRevision
  <2>1. /\ journal' = next
        /\ rev' = rev + 1
        /\ materials' = Collect(materials, next, journal.material)
    BY <1>1 DEF CompareExchange
  <2>2. materials' \subseteq Material
    BY <2>1 DEF Collect, StoreBefore
  <2>3. rev' \in Nat /\ rev' > rev
    BY <2>1 DEF StoreBefore
  <2>4. \A w \in inflight' : w.expected < rev' /\ JournalSound(w.next)
    BY <2>1, <2>3 DEF StoreBefore, StoreSound, InflightSound
  <2>5. StoreSound'
    BY <2>1, <2>3, <2>4 DEF StoreBefore, StoreSound, InflightSound,
                            JournalSound
  <2> QED
    BY <1>1, <2>1, <2>2, <2>3, <2>5 DEF StoreChange, StoreBefore
<1>2. CASE ~(expected = rev /\ rev < MaxRevision)
  <2>1. /\ journal' = journal
        /\ rev' = rev
        /\ materials' = Collect(materials, journal, next.material)
    BY <1>2 DEF CompareExchange
  <2>2. materials' \subseteq Material
    BY <2>1 DEF Collect, StoreBefore
  <2>3. StoreSound'
    BY <2>1 DEF StoreBefore, StoreSound, InflightSound, JournalSound,
                AttemptStep
  <2> QED
    BY <2>1, <2>2, <2>3 DEF StoreChange, StoreBefore, AttemptStep
<1> QED
  BY <1>1, <1>2

\* A journal write as its caller sees it is a store change, and an applied
\* one has replaced the record at the caller's revision by the caller's.
LEMMA CasStoreChange ==
    ASSUME StoreBefore,
           NEW expected \in Nat, NEW next \in Journal, NEW result,
           JournalSound(next),
           expected <= rev,
           expected = rev => AttemptStep(journal, next),
           CallCas(expected, next, result)
    PROVE  /\ StoreChange
           /\ result = "Applied" =>
                expected = rev /\ rev' = rev + 1 /\ journal' = next
<1>1. CASE /\ CompareExchange(expected, next)
           /\ result \in {CasResult(expected), "Error"}
           /\ UNCHANGED inflight
  <2>1. StoreChange
    BY <1>1, ExchangeStoreChange
  <2>2. result = "Applied" => expected = rev /\ rev < MaxRevision
    BY <1>1 DEF CasResult
  <2> QED
    BY <1>1, <2>1, <2>2 DEF CompareExchange
<1>2. CASE result = "Error" /\ UNCHANGED store
  BY <1>2, StoreKept
<1>3. CASE /\ result = "Error"
           /\ inflight' = inflight
                    \cup {[expected |-> expected, next |-> next]}
           /\ UNCHANGED <<journal, rev, materials>>
  <2>1. StoreSound'
    BY <1>3 DEF StoreBefore, StoreSound, InflightSound, JournalSound,
                AttemptStep
  <2>2. inflight' \subseteq [expected : Nat, next : Journal]
    BY <1>3 DEF StoreBefore
  <2> QED
    BY <1>3, <2>1, <2>2 DEF StoreBefore, StoreChange, AttemptStep
<1> QED
  BY <1>1, <1>2, <1>3 DEF CallCas

-----------------------------------------------------------------------------
(* What a store change leaves alone *)

\* An instance that does not move keeps its part of the invariant.
LEMMA OtherLeafSound ==
    ASSUME StoreBefore, StoreChange, NEW j, LeafSound(j),
           revision[j] \in Nat,
           pc'[j] = pc[j], registry'[j] = registry[j],
           material'[j] = material[j], revision'[j] = revision[j],
           pending'[j] = pending[j], reply'[j] = reply[j]
    PROVE  LeafSound(j)'
<1>1. revision'[j] <= rev'
  BY DEF StoreBefore, StoreChange, LeafSound
<1>2. ControlSound(j)' /\ PendingSound(j)' /\ ReplySound(j)'
  BY DEF LeafSound, ControlSound, PendingSound, ReplySound, JournalSound,
         AttemptStep, JournalOf
<1>3. Agrees(j)'
  BY DEF StoreBefore, StoreChange, LeafSound, Agrees, JournalOf
<1> QED
  BY <1>1, <1>2, <1>3 DEF LeafSound

\* Answered attempts stay closed.
LEMMA AnswersKept ==
    ASSUME StoreBefore, StoreChange, AnsweredIsClosed,
           OneResponsePerAttempt, answers' = answers
    PROVE  AnsweredIsClosed' /\ OneResponsePerAttempt'
BY LeafAssumption
   DEF StoreBefore, StoreChange, AnsweredIsClosed, OneResponsePerAttempt,
       AttemptStep, Journal, Attempts

-----------------------------------------------------------------------------
(* A step of one instance *)

LeafTypes ==
    /\ pc \in [Instances -> Control]
    /\ registry \in [Instances -> Registry \cup {None}]
    /\ material \in [Instances -> Material \cup {None}]
    /\ revision \in [Instances -> Nat]
    /\ pending \in [Instances -> PendingWrite \cup {None}]
    /\ reply \in [Instances -> Live \cup {None}]

\* No instance but i moves.
OnlyMoves(i) ==
    \A j \in Instances \ {i} :
        /\ pc'[j] = pc[j] /\ registry'[j] = registry[j]
        /\ material'[j] = material[j] /\ revision'[j] = revision[j]
        /\ pending'[j] = pending[j] /\ reply'[j] = reply[j]

\* The invariant gives the facts the lemmas about steps start from.
LEMMA BeforeStep ==
    ASSUME IInv
    PROVE  /\ StoreBefore
           /\ LeafTypes
           /\ answers \in [Attempts -> Nat]
           /\ \A j \in Instances : LeafSound(j)
           /\ AnsweredIsClosed
           /\ OneResponsePerAttempt
BY DEF IInv, TypeOK, StoreBefore, LeafTypes

\* It is enough to look at the store, the instance that moves, and answers.
LEMMA AfterStep ==
    ASSUME IInv, NEW i \in Instances,
           StoreChange, LeafTypes', OnlyMoves(i), LeafSound(i)',
           answers' \in [Attempts -> Nat],
           AnsweredIsClosed', OneResponsePerAttempt'
    PROVE  IInv'
<1>1. StoreBefore /\ LeafTypes /\ \A j \in Instances : LeafSound(j)
  BY BeforeStep
<1>2. ASSUME NEW j \in Instances, j # i
      PROVE  LeafSound(j)'
  <2>1. revision[j] \in Nat
    BY <1>1 DEF LeafTypes
  <2> QED
    BY <1>1, <1>2, <2>1, OtherLeafSound DEF OnlyMoves
<1>3. TypeOK'
  BY DEF TypeOK, StoreChange, LeafTypes
<1>4. StoreSound'
  BY DEF StoreChange
<1> QED
  BY <1>2, <1>3, <1>4 DEF IInv

\* The same when the instance has released nothing.
LEMMA AfterSilentStep ==
    ASSUME IInv, NEW i \in Instances,
           StoreChange, LeafTypes', OnlyMoves(i), LeafSound(i)',
           answers' = answers
    PROVE  IInv'
<1>1. AnsweredIsClosed' /\ OneResponsePerAttempt'
  BY BeforeStep, AnswersKept
<1>2. answers' \in [Attempts -> Nat]
  BY BeforeStep
<1> QED
  BY <1>1, <1>2, AfterStep

\* Stopping keeps the invariant, whatever the store has done.
LEMMA ForgetStep ==
    ASSUME IInv, NEW i \in Instances, StoreChange, Forget(i)
    PROVE  IInv'
<1>1. LeafTypes /\ StoreBefore
  BY BeforeStep
<1>2. LeafTypes' /\ OnlyMoves(i)
  BY <1>1 DEF Forget, LeafTypes, OnlyMoves, Control
<1>3. LeafSound(i)'
  <2>1. /\ pc'[i] = "down" /\ registry'[i] = None /\ revision'[i] = 0
        /\ pending'[i] = None /\ reply'[i] = None
    BY <1>1 DEF Forget, LeafTypes
  <2>2. rev' \in Nat
    BY DEF StoreChange
  <2> QED
    BY <2>1, <2>2 DEF LeafSound, ControlSound, PendingSound, ReplySound,
                      Agrees
<1> QED
  BY <1>2, <1>3, AfterSilentStep DEF Forget

\* A confirmed write keeps the invariant and leaves the instance agreeing
\* with the stored record.
LEMMA FinishLeafSound ==
    ASSUME StoreBefore, LeafTypes, StoreChange,
           NEW i \in Instances, LeafSound(i),
           pending[i] # None, pc[i] # "loadMaterial",
           journal' = pending[i].next,
           FinishWrite(i, rev'), pc'[i] = "up", reply'[i] = None
    PROVE  LeafSound(i)'
<1>1. /\ material'[i] = pending[i].next.material
      /\ revision'[i] = rev' /\ pending'[i] = None
      /\ registry'[i] = registry[i]
  BY DEF FinishWrite, LeafTypes
<1>2. /\ registry[i] # None
      /\ JournalOf(pending[i].next.material, registry[i]) = pending[i].next
      /\ JournalSound(pending[i].next)
  BY DEF LeafSound, PendingSound
<1>3. JournalOf(material'[i], registry'[i]) = journal'
  BY <1>1, <1>2
<1>4. ControlSound(i)'
  BY <1>1, <1>2 DEF ControlSound, JournalOf, JournalSound
<1>5. rev' \in Nat
  BY DEF StoreChange
<1> QED
  BY <1>1, <1>3, <1>4, <1>5 DEF LeafSound, PendingSound, ReplySound, Agrees,
                                JournalOf

\* An operation that begins a write: what the instance then holds.
LEMMA BegunWrite ==
    ASSUME LeafTypes, NEW i \in Instances,
           NEW previous \in Journal, NEW next \in Journal,
           NEW changed \in BOOLEAN, NEW call \in Control,
           BeginWrite(i, previous, next, changed, call)
    PROVE  /\ pending' \in [Instances -> PendingWrite \cup {None}]
           /\ pc' \in [Instances -> Control]
           /\ pc'[i] = call
           /\ pending'[i] # None
           /\ pending'[i].previous = previous
           /\ pending'[i].next = next
           /\ pending'[i].changed = changed
           /\ \A j \in Instances \ {i} :
                pc'[j] = pc[j] /\ pending'[j] = pending[j]
<1> DEFINE write == [previous |-> previous, next |-> next,
                     changed |-> changed]
<1>1. write \in PendingWrite
  BY DEF PendingWrite
<1>2. write # None
  BY <1>1, PersistentLeafAssumption
<1>3. write.previous = previous /\ write.next = next
      /\ write.changed = changed
  OBVIOUS
<1>4. /\ pending' = [pending EXCEPT ![i] = write]
      /\ pc' = [pc EXCEPT ![i] = call]
  BY DEF BeginWrite
<1> HIDE DEF write
<1> QED
  BY <1>1, <1>2, <1>3, <1>4 DEF LeafTypes

-----------------------------------------------------------------------------
(* Starting and stopping *)

\* Stopping an instance between or within operations keeps the invariant.
LEMMA StopStep ==
    ASSUME IInv, NEW i \in Instances, Stop(i)
    PROVE  IInv'
BY BeforeStep, StoreKept, ForgetStep DEF Stop

\* A late write lands: no instance moves.
LEMMA LandStep ==
    ASSUME IInv, Land
    PROVE  IInv'
<1>1. StoreBefore /\ LeafTypes /\ answers \in [Attempts -> Nat]
  BY BeforeStep
<1>2. PICK w \in inflight : /\ CompareExchange(w.expected, w.next)
                            /\ inflight' = inflight \ {w}
                            /\ UNCHANGED <<pc, leaf, reply, answers>>
  BY DEF Land
<1>3. /\ w.expected \in Nat /\ w.next \in Journal
      /\ JournalSound(w.next)
      /\ w.expected = rev => AttemptStep(journal, w.next)
  BY <1>1 DEF StoreBefore, StoreSound, InflightSound
<1>4. StoreChange
  BY <1>1, <1>2, <1>3, ExchangeStoreChange
<1>5. AnsweredIsClosed' /\ OneResponsePerAttempt'
  BY <1>1, <1>2, <1>4, BeforeStep, AnswersKept
<1>6. \A j \in Instances : LeafSound(j)'
  <2> SUFFICES ASSUME NEW j \in Instances
               PROVE  LeafSound(j)'
    OBVIOUS
  <2>1. revision[j] \in Nat /\ LeafSound(j)
    BY <1>1, BeforeStep DEF LeafTypes
  <2> QED
    BY <1>1, <1>2, <1>4, <2>1, OtherLeafSound DEF leaf
<1>7. TypeOK' /\ StoreSound'
  BY <1>1, <1>2, <1>4 DEF TypeOK, StoreChange, LeafTypes, leaf
<1> QED
  BY <1>5, <1>6, <1>7 DEF IInv

\* The new registry of a device is idle at attempt 0.
LEMMA GenesisRecord ==
    /\ NewRegistry(Genesis0) \in Registry
    /\ JournalOf(Genesis0, NewRegistry(Genesis0))
            = [material |-> Genesis0, next |-> 0, live |-> None]
    /\ JournalOf(Genesis0, NewRegistry(Genesis0)) \in Journal
    /\ NoJournal \in Journal
<1>1. Genesis0 \in Material
  BY PersistentLeafAssumption
<1>2. NewRegistry(Genesis0) \in Registry
  BY <1>1 DEF NewRegistry, Registry
<1>3. JournalOf(Genesis0, NewRegistry(Genesis0))
            = [material |-> Genesis0, next |-> 0, live |-> None]
  BY DEF NewRegistry, JournalOf, LiveAttempt
<1> QED
  BY <1>1, <1>2, <1>3 DEF Journal, NoJournal

\* create() up to its first store call keeps the invariant.
LEMMA CreateStep ==
    ASSUME IInv, NEW i \in Instances, Create(i)
    PROVE  IInv'
<1>1. StoreBefore /\ LeafTypes /\ LeafSound(i)
  BY BeforeStep
<1>2. PICK result \in {"Ok", "Error"} :
        /\ CallPut(Genesis0, result)
        /\ IF result = "Error" THEN UNCHANGED <<pc, leaf>>
           ELSE /\ registry' = [registry EXCEPT ![i] = NewRegistry(Genesis0)]
                /\ material' = [material EXCEPT ![i] = Genesis0]
                /\ BeginWrite(i, NoJournal,
                        JournalOf(Genesis0, NewRegistry(Genesis0)),
                        TRUE, "createCas")
                /\ UNCHANGED revision
  BY DEF Create
<1>3. pc[i] = "down" /\ UNCHANGED <<reply, answers>>
  BY DEF Create
<1>4. StoreChange
  BY <1>1, <1>2, PersistentLeafAssumption, PutStoreChange
<1>5. CASE result = "Error"
  <2>1. LeafTypes' /\ OnlyMoves(i)
    BY <1>1, <1>2, <1>3, <1>5 DEF LeafTypes, OnlyMoves, leaf
  <2>2. LeafSound(i)'
    <3>1. revision[i] \in Nat
      BY <1>1 DEF LeafTypes
    <3> QED
      BY <1>1, <1>2, <1>3, <1>4, <1>5, <3>1, OtherLeafSound DEF leaf
  <2> QED
    BY <1>3, <1>4, <2>1, <2>2, AfterSilentStep
<1>6. CASE result # "Error"
  <2> DEFINE reg == NewRegistry(Genesis0)
             next == JournalOf(Genesis0, reg)
  <2>1. /\ registry' = [registry EXCEPT ![i] = reg]
        /\ material' = [material EXCEPT ![i] = Genesis0]
        /\ BeginWrite(i, NoJournal, next, TRUE, "createCas")
        /\ revision' = revision
    BY <1>2, <1>6
  <2>2. /\ pending' \in [Instances -> PendingWrite \cup {None}]
        /\ pc' \in [Instances -> Control]
        /\ pc'[i] = "createCas"
        /\ pending'[i] # None
        /\ pending'[i].previous = NoJournal
        /\ pending'[i].next = next
        /\ pending'[i].changed
        /\ \A j \in Instances \ {i} :
                pc'[j] = pc[j] /\ pending'[j] = pending[j]
    BY ZenonT(60), <1>1, <2>1, GenesisRecord, BegunWrite DEF Control
  <2>3. LeafTypes' /\ OnlyMoves(i)
    BY <1>1, <1>3, <2>1, <2>2, GenesisRecord, PersistentLeafAssumption
       DEF LeafTypes, OnlyMoves
  <2>4. reg # None
    BY GenesisRecord, LeafAssumption
  <2>5. /\ registry'[i] = reg /\ material'[i] = Genesis0
        /\ revision'[i] = 0 /\ reply'[i] = None
    BY <1>1, <1>3, <2>1 DEF LeafTypes, LeafSound, ControlSound, ReplySound
  <2>6. next = [material |-> Genesis0, next |-> 0, live |-> None]
    BY GenesisRecord
  <2>7. /\ JournalSound(next) /\ AttemptStep(NoJournal, next)
        /\ next.material = Genesis0
    BY <2>6, LeafAssumption DEF JournalSound, AttemptStep, NoJournal
  <2>8. JournalOf(Genesis0, reg) = next
    OBVIOUS
  <2> HIDE DEF reg, next
  <2>9. ControlSound(i)'
    BY <2>2, <2>4, <2>5, <2>7, <2>8 DEF ControlSound, JournalSound
  <2>10. PendingSound(i)'
    BY <2>2, <2>4, <2>5, <2>7, <2>8, PersistentLeafAssumption
       DEF PendingSound, JournalSound, AttemptStep
  <2>11. Agrees(i)'
    BY <2>2, <2>5, <1>4 DEF Agrees, StoreChange, StoreSound
  <2> QED
    BY <1>3, <1>4, <2>3, <2>5, <2>9, <2>10, <2>11, AfterSilentStep
       DEF LeafSound, ReplySound, StoreChange
<1> QED
  BY <1>5, <1>6

\* load() reads the journal: its recovery write is one attempt step from it.
LEMMA LoadJournalStep ==
    ASSUME IInv, NEW i \in Instances, LoadJournal(i)
    PROVE  IInv'
<1> DEFINE next == [journal EXCEPT !.live = None]
<1>1. StoreBefore /\ LeafTypes /\ LeafSound(i)
  BY BeforeStep
<1>2. /\ pc[i] = "down"
      /\ material' = [material EXCEPT ![i] = journal.material]
      /\ revision' = [revision EXCEPT ![i] = rev]
      /\ BeginWrite(i, journal, next, FALSE, "loadMaterial")
      /\ UNCHANGED <<store, registry, reply, answers>>
  BY DEF LoadJournal
<1>3. StoreChange
  BY <1>1, <1>2, StoreKept
<1>4. journal \in Journal /\ next \in Journal /\ rev \in Nat
  BY <1>1 DEF StoreBefore, Journal
<1>5. /\ pending' \in [Instances -> PendingWrite \cup {None}]
      /\ pc' \in [Instances -> Control]
      /\ pc'[i] = "loadMaterial"
      /\ pending'[i] # None
      /\ pending'[i].previous = journal
      /\ pending'[i].next = next
      /\ ~pending'[i].changed
      /\ \A j \in Instances \ {i} :
                pc'[j] = pc[j] /\ pending'[j] = pending[j]
  BY ZenonT(60), <1>1, <1>2, <1>4, BegunWrite DEF Control
<1>6. LeafTypes' /\ OnlyMoves(i)
  BY <1>1, <1>2, <1>4, <1>5 DEF LeafTypes, OnlyMoves, Journal
<1>7. /\ material'[i] = journal.material /\ revision'[i] = rev
      /\ registry'[i] = None /\ reply'[i] = None
      /\ rev' = rev /\ journal' = journal
  BY <1>1, <1>2 DEF LeafTypes, LeafSound, ControlSound, ReplySound, store
<1>8. JournalSound(next) /\ AttemptStep(journal, next)
  BY <1>1, <1>4 DEF StoreBefore, StoreSound, JournalSound, AttemptStep,
                    Journal
<1>9. ControlSound(i)'
  BY <1>5, <1>7 DEF ControlSound
<1> HIDE DEF next
<1>10. PendingSound(i)'
  BY <1>5, <1>7, <1>8 DEF PendingSound, JournalSound, AttemptStep
<1>11. Agrees(i)'
  BY <1>5, <1>7 DEF Agrees
<1> QED
  BY <1>2, <1>3, <1>4, <1>6, <1>7, <1>9, <1>10, <1>11, AfterSilentStep
     DEF LeafSound, ReplySound

\* load() rebuilds an idle registry from the record and its material.
LEMMA LoadMaterialStep ==
    ASSUME IInv, NEW i \in Instances, LoadMaterial(i)
    PROVE  IInv'
<1> DEFINE record == pending[i].previous
           reg == [material |-> record.material, live |-> None,
                   next |-> record.next]
<1>1. StoreBefore /\ LeafTypes /\ LeafSound(i)
  BY BeforeStep
<1>2. pc[i] = "loadMaterial" /\ UNCHANGED store
  BY DEF LoadMaterial
<1>3. StoreChange
  BY <1>1, <1>2, StoreKept
<1>4. CASE Forget(i)
  BY <1>3, <1>4, ForgetStep
<1>5. CASE /\ record.material \in materials
           /\ registry' = [registry EXCEPT ![i] = reg]
           /\ IF record.live = None
              THEN /\ pc' = [pc EXCEPT ![i] = "up"]
                   /\ pending' = [pending EXCEPT ![i] = None]
              ELSE /\ pc' = [pc EXCEPT ![i] = "loadCas"]
                   /\ UNCHANGED pending
           /\ UNCHANGED <<material, revision, reply, answers>>
  <2>1. /\ pending[i] # None
        /\ material[i] = record.material
        /\ pending[i].next = [record EXCEPT !.live = None]
        /\ JournalSound(pending[i].next)
        /\ AttemptStep(record, pending[i].next)
        /\ pending[i].changed => pending[i].next.material \in Material
        /\ revision[i] <= rev
        /\ revision[i] = rev => record = journal
        /\ reply[i] = None
    BY <1>1, <1>2 DEF LeafSound, ControlSound, PendingSound, ReplySound,
                      Agrees
  <2>2. pending[i] \in PendingWrite
    BY <1>1, <2>1 DEF LeafTypes
  <2>3. record \in Journal /\ record.material \in Material
    BY <1>1, <1>5, <2>2 DEF PendingWrite, StoreBefore
  <2>4. reg \in Registry
    BY <2>3 DEF Journal, Registry
  <2>5. reg # None
    BY <2>4, LeafAssumption
  <2>6. JournalOf(record.material, reg)
            = [material |-> record.material, next |-> record.next,
               live |-> None]
    BY DEF JournalOf, LiveAttempt
  <2>7. JournalOf(record.material, reg) = pending[i].next
    BY <2>1, <2>3, <2>6 DEF Journal
  <2>8. record.live = None => record = pending[i].next
    BY <2>1, <2>3 DEF Journal
  <2>9. pending[i].next.material = record.material
    BY <2>1, <2>3 DEF Journal
  <2>10. LeafTypes' /\ OnlyMoves(i)
    BY <1>1, <1>5, <2>4 DEF LeafTypes, OnlyMoves, Control
  <2>11. /\ registry'[i] = reg /\ material'[i] = record.material
         /\ revision'[i] = revision[i] /\ reply'[i] = None
         /\ rev' = rev /\ journal' = journal
    BY <1>1, <1>2, <1>5, <2>1 DEF LeafTypes, store
  <2> HIDE DEF reg
  <2>12. CASE record.live = None
    <3>1. pc'[i] = "up" /\ pending'[i] = None
      BY <1>1, <1>5, <2>12 DEF LeafTypes
    <3>2. ControlSound(i)' /\ PendingSound(i)' /\ ReplySound(i)'
      BY <2>1, <2>5, <2>7, <2>11, <3>1
         DEF ControlSound, PendingSound, ReplySound, JournalSound
    <3>3. Agrees(i)'
      BY <2>1, <2>7, <2>8, <2>11, <2>12, <3>1 DEF Agrees
    <3>4. LeafSound(i)'
      BY <2>1, <2>11, <3>2, <3>3 DEF LeafSound
    <3> QED
      BY <1>3, <1>5, <2>10, <3>4, AfterSilentStep
  <2>13. CASE record.live # None
    <3>1. pc'[i] = "loadCas" /\ pending'[i] = pending[i]
      BY <1>1, <1>5, <2>13 DEF LeafTypes
    <3>2. ControlSound(i)'
      BY <2>1, <2>5, <2>7, <2>11, <3>1 DEF ControlSound, JournalSound
    <3>3. PendingSound(i)'
      BY <2>1, <2>5, <2>7, <2>9, <2>11, <3>1
         DEF PendingSound, JournalSound, AttemptStep
    <3>4. ReplySound(i)' /\ Agrees(i)'
      BY <2>1, <2>11, <3>1 DEF Agrees, ReplySound
    <3>5. LeafSound(i)'
      BY <2>1, <2>11, <3>2, <3>3, <3>4 DEF LeafSound
    <3> QED
      BY <1>3, <1>5, <2>10, <3>5, AfterSilentStep
  <2> QED
    BY <2>12, <2>13
<1> QED
  BY <1>4, <1>5 DEF LoadMaterial, Restored

\* A pending write is a journal record that may be exchanged at the
\* instance's revision.
LEMMA PendingCas ==
    ASSUME IInv, NEW i \in Instances, pending[i] # None,
           NEW result, CallCas(revision[i], pending[i].next, result)
    PROVE  /\ StoreChange
           /\ pending[i] \in PendingWrite
           /\ result = "Applied" =>
                /\ revision[i] = rev
                /\ rev' = rev + 1
                /\ journal = pending[i].previous
                /\ journal' = pending[i].next
<1>1. StoreBefore /\ LeafTypes /\ LeafSound(i)
  BY BeforeStep
<1>2. pending[i] \in PendingWrite /\ revision[i] \in Nat
  BY <1>1 DEF LeafTypes
<1>3. pending[i].next \in Journal
  BY <1>2 DEF PendingWrite
<1>4. /\ JournalSound(pending[i].next)
      /\ revision[i] <= rev
      /\ revision[i] = rev => pending[i].previous = journal
      /\ revision[i] = rev => AttemptStep(journal, pending[i].next)
  BY <1>1 DEF LeafSound, PendingSound, Agrees
<1> QED
  BY <1>1, <1>2, <1>3, <1>4, CasStoreChange

\* The journal write that completes create() or load().
LEMMA StartCasStep ==
    ASSUME IInv, NEW i \in Instances, StartCas(i)
    PROVE  IInv'
<1>1. StoreBefore /\ LeafTypes /\ LeafSound(i)
  BY BeforeStep
<1>2. PICK result \in {"Applied", "Conflict", "Error"} :
        /\ CallCas(revision[i], pending[i].next, result)
        /\ IF result = "Applied"
           THEN /\ FinishWrite(i, rev')
                /\ pc' = [pc EXCEPT ![i] = "up"]
                /\ UNCHANGED <<reply, answers>>
           ELSE Forget(i)
  BY DEF StartCas
<1>3. pc[i] \in {"createCas", "loadCas"}
  BY DEF StartCas
<1>4. pending[i] # None /\ reply[i] = None
  BY <1>1, <1>3 DEF LeafSound, ControlSound, ReplySound
<1>5. /\ StoreChange
      /\ pending[i] \in PendingWrite
      /\ result = "Applied" => journal' = pending[i].next
  BY <1>2, <1>4, PendingCas
<1>6. CASE result # "Applied"
  BY <1>2, <1>5, <1>6, ForgetStep
<1>7. CASE result = "Applied"
  <2>1. LeafTypes' /\ OnlyMoves(i)
    BY <1>1, <1>2, <1>5, <1>7
       DEF LeafTypes, OnlyMoves, FinishWrite, PendingWrite, Journal, Control,
           StoreChange
  <2>2. pc'[i] = "up" /\ reply'[i] = None
    BY <1>1, <1>2, <1>4, <1>7 DEF LeafTypes
  <2>3. LeafSound(i)'
    BY <1>1, <1>2, <1>3, <1>4, <1>5, <1>7, <2>2, FinishLeafSound
  <2> QED
    BY <1>2, <1>5, <1>7, <2>1, <2>3, AfterSilentStep
<1> QED
  BY <1>6, <1>7

-----------------------------------------------------------------------------
(* Transitions *)

\* The journal record of a registry, field by field, and what soundness of
\* the one says of the other.
LEMMA RecordOf ==
    ASSUME NEW m \in Material \cup {None}, NEW reg \in Registry
    PROVE  /\ JournalOf(m, reg) \in Journal
           /\ JournalOf(m, reg).material = m
           /\ JournalOf(m, reg).next = reg.next
           /\ JournalOf(m, reg).live = LiveAttempt(reg)
           /\ JournalSound(JournalOf(m, reg)) <=> CounterSound(reg)
<1>1. reg.next \in Nat /\ LiveAttempt(reg) \in Nat \cup {None}
  BY DEF Registry, LiveAttempt, Live
<1> QED
  BY <1>1 DEF JournalOf, Journal, JournalSound, CounterSound

\* A successor registry is one attempt step away in the journal.
LEMMA RecordStep ==
    ASSUME NEW m \in Material \cup {None}, NEW n \in Material \cup {None},
           NEW old \in Registry, NEW new, Successor(old, new)
    PROVE  /\ JournalSound(JournalOf(n, new))
           /\ AttemptStep(JournalOf(m, old), JournalOf(n, new))
<1>1. new \in Registry /\ CounterSound(new) /\ CounterStep(old, new)
  BY DEF Successor
<1>2. /\ JournalOf(m, old).next = old.next
      /\ JournalOf(m, old).live = LiveAttempt(old)
      /\ JournalOf(n, new).next = new.next
      /\ JournalOf(n, new).live = LiveAttempt(new)
      /\ JournalSound(JournalOf(n, new))
  BY <1>1, RecordOf
<1> QED
  BY <1>1, <1>2 DEF AttemptStep, CounterStep

\* What an operation may rely on when it starts.
LEMMA ReadyFacts ==
    ASSUME IInv, NEW i \in Instances, Ready(i)
    PROVE  /\ registry[i] \in Registry
           /\ material[i] \in Material \cup {None}
           /\ CounterSound(registry[i])
           /\ pc[i] = "up" /\ pending[i] = None /\ reply[i] = None
           /\ registry[i] # None
           /\ revision[i] \in Nat /\ revision[i] <= rev
           /\ revision[i] = rev =>
                JournalOf(material[i], registry[i]) = journal
<1>1. LeafTypes /\ LeafSound(i)
  BY BeforeStep
<1>2. pc[i] = "up" /\ pending[i] = None /\ registry[i] # None
  BY DEF Ready
<1>3. /\ registry[i] \in Registry
      /\ material[i] \in Material \cup {None}
      /\ revision[i] \in Nat
  BY <1>1, <1>2 DEF LeafTypes
<1>4. /\ JournalSound(JournalOf(material[i], registry[i]))
      /\ reply[i] = None
      /\ revision[i] <= rev
      /\ revision[i] = rev => JournalOf(material[i], registry[i]) = journal
  BY <1>1, <1>2 DEF LeafSound, ControlSound, ReplySound, Agrees
<1> QED
  BY <1>2, <1>3, <1>4, RecordOf

\* A ready instance moves to a successor registry and begins the write of
\* its record, over the old material or over new one.
LEMMA BegunStep ==
    ASSUME IInv, NEW i \in Instances, Ready(i),
           NEW reg, Successor(registry[i], reg),
           NEW m \in Material \cup {None},
           NEW changed \in BOOLEAN, changed => m \in Material,
           NEW call \in {"put", "cas"}, call = "put" => changed,
           registry' = [registry EXCEPT ![i] = reg],
           BeginWrite(i, JournalOf(material[i], registry[i]),
                      JournalOf(m, reg), changed, call),
           UNCHANGED <<store, material, revision, answers>>,
           reply' \in [Instances -> Live \cup {None}],
           \A j \in Instances \ {i} : reply'[j] = reply[j],
           reply'[i] # None =>
                /\ call = "cas"
                /\ LiveAttempt(registry[i]) = reply'[i].attempt
                /\ LiveAttempt(reg) = None
    PROVE  IInv'
<1> DEFINE previous == JournalOf(material[i], registry[i])
           next == JournalOf(m, reg)
<1>1. StoreBefore /\ LeafTypes
  BY BeforeStep
<1>2. /\ registry[i] \in Registry
      /\ material[i] \in Material \cup {None}
      /\ revision[i] \in Nat /\ revision[i] <= rev
      /\ revision[i] = rev => previous = journal
  BY ReadyFacts
<1>3. StoreChange
  BY <1>1, StoreKept
<1>4. reg \in Registry /\ CounterSound(reg)
  BY DEF Successor
<1>5. reg # None
  BY <1>4, LeafAssumption
<1>6. /\ previous \in Journal /\ next \in Journal
      /\ next.material = m
      /\ previous.live = LiveAttempt(registry[i])
      /\ next.live = LiveAttempt(reg)
      /\ JournalSound(JournalOf(material[i], reg))
  BY <1>2, <1>4, RecordOf
<1>7. JournalSound(next) /\ AttemptStep(previous, next)
  BY <1>2, RecordStep
<1>8. /\ pending' \in [Instances -> PendingWrite \cup {None}]
      /\ pc' \in [Instances -> Control]
      /\ pc'[i] = call
      /\ pending'[i] # None
      /\ pending'[i].previous = previous
      /\ pending'[i].next = next
      /\ pending'[i].changed = changed
      /\ \A j \in Instances \ {i} :
                pc'[j] = pc[j] /\ pending'[j] = pending[j]
  <2>1. call \in Control
    BY DEF Control
  <2> QED
    BY <1>1, <1>6, <2>1, BegunWrite
<1>9. LeafTypes' /\ OnlyMoves(i)
  BY <1>1, <1>4, <1>8 DEF LeafTypes, OnlyMoves
<1>10. /\ registry'[i] = reg /\ material'[i] = material[i]
       /\ revision'[i] = revision[i] /\ rev' = rev /\ journal' = journal
  BY <1>1 DEF LeafTypes, store
<1>11. JournalOf(m, reg) = next
  OBVIOUS
<1> HIDE DEF previous, next
<1>12. ControlSound(i)'
  BY <1>5, <1>6, <1>8, <1>10 DEF ControlSound, JournalSound
<1>13. PendingSound(i)'
  BY <1>5, <1>6, <1>7, <1>8, <1>10, <1>11
     DEF PendingSound, JournalSound, AttemptStep
<1>14. ReplySound(i)'
  BY <1>6, <1>8 DEF ReplySound
<1>15. Agrees(i)'
  BY <1>2, <1>8, <1>10 DEF Agrees
<1>16. LeafSound(i)'
  BY <1>2, <1>10, <1>12, <1>13, <1>14, <1>15 DEF LeafSound
<1> QED
  BY <1>3, <1>9, <1>16, AfterSilentStep

\* transition(): an operation whose record does not change begins no write.
LEMMA TransitionStep ==
    ASSUME IInv, NEW i \in Instances, Ready(i),
           NEW result, Successor(registry[i], result.reg),
           Transition(i, result),
           reply' \in [Instances -> Live \cup {None}],
           \A j \in Instances \ {i} : reply'[j] = reply[j],
           reply'[i] # None =>
                /\ LiveAttempt(registry[i]) # None
                /\ LiveAttempt(registry[i]) = reply'[i].attempt
                /\ LiveAttempt(result.reg) = None
    PROVE  IInv'
<1> DEFINE reg == result.reg
           previous == JournalOf(material[i], registry[i])
           next == JournalOf(material[i], reg)
<1>1. StoreBefore /\ LeafTypes
  BY BeforeStep
<1>2. /\ registry[i] \in Registry
      /\ material[i] \in Material \cup {None}
      /\ pc[i] = "up" /\ pending[i] = None
      /\ revision[i] \in Nat /\ revision[i] <= rev
      /\ revision[i] = rev => previous = journal
  BY ReadyFacts
<1>3. /\ registry' = [registry EXCEPT ![i] = reg]
      /\ UNCHANGED <<store, material, revision, answers>>
  BY DEF Transition
<1>4. CASE next # previous
  <2>1. BeginWrite(i, previous, next, FALSE, "cas")
    BY <1>4 DEF Transition
  <2> QED
    BY <1>2, <1>3, <2>1, BegunStep
<1>5. CASE next = previous
  <2>1. UNCHANGED <<pc, pending>>
    BY <1>5 DEF Transition
  <2>2. StoreChange
    BY <1>1, <1>3, StoreKept
  <2>3. reg \in Registry /\ CounterSound(reg)
    BY DEF Successor
  <2>4. LeafTypes' /\ OnlyMoves(i)
    BY <1>1, <1>3, <2>1, <2>3 DEF LeafTypes, OnlyMoves
  <2>5. /\ registry'[i] = reg /\ material'[i] = material[i]
        /\ revision'[i] = revision[i] /\ rev' = rev /\ journal' = journal
        /\ pc'[i] = "up" /\ pending'[i] = None
    BY <1>1, <1>2, <1>3, <2>1 DEF LeafTypes, store
  <2>6. /\ previous.live = LiveAttempt(registry[i])
        /\ next.live = LiveAttempt(reg)
        /\ JournalSound(next)
    BY <1>2, <2>3, RecordOf
  <2>7. reply'[i] = None
    BY <1>5, <2>6
  <2>8. JournalOf(material'[i], registry'[i]) = next
    BY <2>5
  <2> HIDE DEF previous, next
  <2>9. ControlSound(i)' /\ PendingSound(i)' /\ ReplySound(i)' /\ Agrees(i)'
    BY <1>2, <1>5, <2>5, <2>6, <2>7, <2>8
       DEF ControlSound, PendingSound, ReplySound, Agrees, JournalSound
  <2>10. LeafSound(i)'
    BY <1>2, <2>5, <2>9 DEF LeafSound
  <2> QED
    BY <1>3, <2>2, <2>4, <2>10, AfterSilentStep
<1> QED
  BY <1>4, <1>5

\* The same for an operation that releases no response.
LEMMA SilentTransitionStep ==
    ASSUME IInv, NEW i \in Instances, Ready(i),
           NEW result, Successor(registry[i], result.reg),
           Transition(i, result), UNCHANGED reply
    PROVE  IInv'
<1>1. reply[i] = None
  BY ReadyFacts
<1>2. reply \in [Instances -> Live \cup {None}]
  BY BeforeStep DEF LeafTypes
<1> QED
  BY <1>1, <1>2, TransitionStep

\* material_transition(): written with its material, refused, or given up.
LEMMA MaterialTransitionStep ==
    ASSUME IInv, NEW i \in Instances, Ready(i),
           NEW result, Successor(registry[i], result.reg),
           MaterialTransition(i, result)
    PROVE  IInv'
<1>1. StoreBefore /\ LeafTypes
  BY BeforeStep
<1>2. UNCHANGED reply
  BY DEF MaterialTransition
<1>3. /\ pc[i] = "up" /\ pending[i] = None /\ reply[i] = None
      /\ revision[i] \in Nat /\ revision[i] <= rev
  BY ReadyFacts
<1>4. CASE result.out # "Ok"
  BY <1>2, <1>4, SilentTransitionStep DEF MaterialTransition
<1>5. CASE result.out = "Ok" /\ result.reg.live # None
  <2>1. /\ registry' = [registry EXCEPT ![i] = None]
        /\ UNCHANGED <<store, pc, material, revision, pending, answers>>
    BY <1>5 DEF MaterialTransition, Encodable
  <2>2. StoreChange
    BY <1>1, <2>1, StoreKept
  <2>3. LeafTypes' /\ OnlyMoves(i)
    BY <1>1, <1>2, <2>1 DEF LeafTypes, OnlyMoves
  <2>4. registry'[i] = None /\ rev' = rev
    BY <1>1, <2>1 DEF LeafTypes, store
  <2>5. LeafSound(i)'
    BY <1>2, <1>3, <2>1, <2>4
       DEF LeafSound, ControlSound, PendingSound, ReplySound, Agrees
  <2> QED
    BY <2>1, <2>2, <2>3, <2>5, AfterSilentStep
<1>6. CASE result.out = "Ok" /\ result.reg.live = None
  <2>1. /\ registry' = [registry EXCEPT ![i] = result.reg]
        /\ BeginWrite(i, JournalOf(material[i], registry[i]),
                      JournalOf(result.reg.material, result.reg),
                      TRUE, "put")
        /\ UNCHANGED <<store, material, revision, answers>>
    BY <1>6 DEF MaterialTransition, Encodable
  <2>2. result.reg.material \in Material
    BY DEF Successor, Registry
  <2>3. reply' \in [Instances -> Live \cup {None}]
    BY <1>1, <1>2 DEF LeafTypes
  <2> QED
    BY <1>2, <1>3, <2>1, <2>2, <2>3, BegunStep
<1> QED
  BY <1>4, <1>5, <1>6

\* The inputs that callers present have the types of the operations.
LEMMA InputTypes ==
    /\ Views \subseteq View \cup {None}
    /\ Reservations \subseteq Reservation
    /\ Times \subseteq Nat
    /\ Attempts \subseteq Nat
<1>1. /\ Reservations \subseteq Reservation
      /\ Times \subseteq Nat
      /\ Attempts \subseteq Nat
  BY PersistentLeafAssumption, LeafAssumption DEF Attempts
<1> QED
  BY <1>1 DEF Views, View

\* Every operation but respond() is a successor step without a response.
LEMMA OperationStep ==
    ASSUME IInv, NEW i \in Instances,
           \/ ReserveOp(i) \/ CommitOp(i) \/ RevealOp(i) \/ FixOp(i)
           \/ CloseOp(i) \/ ReceiveAbortOp(i) \/ CloseExpiredOp(i)
    PROVE  IInv'
<1> USE InputTypes
<1>1. Ready(i) /\ UNCHANGED reply
  BY DEF ReserveOp, CommitOp, RevealOp, FixOp, CloseOp, ReceiveAbortOp,
         CloseExpiredOp
<1>2. registry[i] \in Registry /\ CounterSound(registry[i])
  BY <1>1, ReadyFacts
<1>3. CASE ReserveOp(i)
  <2>1. PICK s \in Sessions, now \in Times, bytes \in Reservations,
             b \in Binding :
            Transition(i, Reserve(registry[i], s, now, bytes, b))
    BY <1>3 DEF ReserveOp
  <2>2. Successor(registry[i], Reserve(registry[i], s, now, bytes, b).reg)
    BY <1>2, ReserveSuccessor
  <2> QED
    BY <1>1, <2>1, <2>2, SilentTransitionStep
<1>4. CASE CommitOp(i)
  <2>1. PICK a \in Attempts, bytes \in Reservations, n \in Nonces :
            Transition(i, Commit(registry[i], a, bytes, n))
    BY <1>4 DEF CommitOp
  <2>2. Successor(registry[i], Commit(registry[i], a, bytes, n).reg)
    BY <1>2, CommitSuccessor
  <2> QED
    BY <1>1, <2>1, <2>2, SilentTransitionStep
<1>5. CASE RevealOp(i)
  <2>1. PICK a \in Attempts, view \in Views :
            Transition(i, Reveal(registry[i], a, view))
    BY <1>5 DEF RevealOp
  <2>2. Successor(registry[i], Reveal(registry[i], a, view).reg)
    BY <1>2, RevealSuccessor
  <2> QED
    BY <1>1, <2>1, <2>2, SilentTransitionStep
<1>6. CASE FixOp(i)
  <2>1. PICK a \in Attempts, view \in Views :
            Transition(i, Fix(registry[i], a, view))
    BY <1>6 DEF FixOp
  <2>2. Successor(registry[i], Fix(registry[i], a, view).reg)
    BY <1>2, FixSuccessor
  <2> QED
    BY <1>1, <2>1, <2>2, SilentTransitionStep
<1>7. CASE CloseOp(i)
  <2>1. PICK a \in Attempts : Transition(i, Close(registry[i], a))
    BY <1>7 DEF CloseOp
  <2>2. Successor(registry[i], Close(registry[i], a).reg)
    BY <1>2, CloseSuccessor
  <2> QED
    BY <1>1, <2>1, <2>2, SilentTransitionStep
<1>8. CASE ReceiveAbortOp(i)
  <2>1. PICK abort \in Aborts : Transition(i, ReceiveAbort(registry[i], abort))
    BY <1>8 DEF ReceiveAbortOp
  <2>2. Successor(registry[i], ReceiveAbort(registry[i], abort).reg)
    BY <1>2, ReceiveAbortSuccessor
  <2> QED
    BY <1>1, <2>1, <2>2, SilentTransitionStep
<1>9. CASE CloseExpiredOp(i)
  <2>1. PICK now \in Times : Transition(i, CloseExpired(registry[i], now))
    BY <1>9 DEF CloseExpiredOp
  <2>2. Successor(registry[i], CloseExpired(registry[i], now).reg)
    BY <1>2, CloseExpiredSuccessor
  <2> QED
    BY <1>1, <2>1, <2>2, SilentTransitionStep
<1> QED
  BY <1>3, <1>4, <1>5, <1>6, <1>7, <1>8, <1>9

\* Every change of material is a successor step.
LEMMA MaterialOperationStep ==
    ASSUME IInv, NEW i \in Instances,
           AddVaultOp(i) \/ ActivateInnerOp(i) \/ ActivateOuterOp(i)
    PROVE  IInv'
<1>1. Ready(i)
  BY DEF AddVaultOp, ActivateInnerOp, ActivateOuterOp
<1>2. registry[i] \in Registry /\ CounterSound(registry[i])
  BY <1>1, ReadyFacts
<1>3. CASE AddVaultOp(i)
  <2>1. PICK genesis \in Geneses :
            MaterialTransition(i, AddVault(registry[i], genesis))
    BY <1>3 DEF AddVaultOp
  <2>2. Successor(registry[i], AddVault(registry[i], genesis).reg)
    BY <1>2, AddVaultSuccessor, PersistentLeafAssumption
  <2> QED
    BY <1>1, <2>1, <2>2, MaterialTransitionStep
<1>4. CASE ActivateInnerOp(i)
  <2>1. PICK bundle \in Bundles :
            MaterialTransition(i, ActivateInnerBundle(registry[i], bundle))
    BY <1>4 DEF ActivateInnerOp
  <2>2. IsInnerBundle(bundle)
    BY PersistentLeafAssumption
  <2>3. Successor(registry[i], ActivateInnerBundle(registry[i], bundle).reg)
    BY <1>2, <2>2, ActivateInnerSuccessor
  <2> QED
    BY <1>1, <2>1, <2>3, MaterialTransitionStep
<1>5. CASE ActivateOuterOp(i)
  <2>1. PICK block \in OuterBlocks :
            MaterialTransition(i, ActivateOuter(registry[i], block))
    BY <1>5 DEF ActivateOuterOp
  <2>2. Successor(registry[i], ActivateOuter(registry[i], block).reg)
    BY <1>2, ActivateOuterSuccessor, PersistentLeafAssumption
  <2> QED
    BY <1>1, <2>1, <2>2, MaterialTransitionStep
<1> QED
  BY <1>3, <1>4, <1>5

\* respond(): the response is held for the attempt that the write closes.
LEMMA RespondStep ==
    ASSUME IInv, NEW i \in Instances, RespondOp(i)
    PROVE  IInv'
<1>1. Ready(i)
  BY DEF RespondOp
<1>2. /\ registry[i] \in Registry /\ CounterSound(registry[i])
      /\ reply[i] = None
  BY <1>1, ReadyFacts
<1>3. PICK a \in Attempts, package \in Packages :
        /\ Transition(i, Respond(registry[i], a, package))
        /\ reply' = IF Respond(registry[i], a, package).out = "Ok"
                    THEN [reply EXCEPT ![i] = registry[i].live] ELSE reply
  BY DEF RespondOp
<1> DEFINE result == Respond(registry[i], a, package)
<1>4. /\ Successor(registry[i], result.reg)
      /\ result.out = "Ok" =>
            registry[i].live # None /\ result.reg.live = None
  BY <1>2, RespondSuccessor
<1>5. reply \in [Instances -> Live \cup {None}]
  BY BeforeStep DEF LeafTypes
<1>6. CASE result.out = "Ok"
  <2>1. reply' = [reply EXCEPT ![i] = registry[i].live]
    BY <1>3, <1>6
  <2>2. registry[i].live \in Live
    BY <1>2, <1>4, <1>6 DEF Registry
  <2>3. /\ LiveAttempt(registry[i]) = registry[i].live.attempt
        /\ LiveAttempt(result.reg) = None
    BY <1>4, <1>6 DEF LiveAttempt
  <2>4. LiveAttempt(registry[i]) \in Nat
    BY <2>2, <2>3 DEF Live
  <2>5. LiveAttempt(registry[i]) # None
    BY <2>4, LeafAssumption
  <2>6. /\ reply' \in [Instances -> Live \cup {None}]
        /\ \A j \in Instances \ {i} : reply'[j] = reply[j]
        /\ reply'[i] = registry[i].live
    BY <1>5, <2>1, <2>2
  <2> HIDE DEF result
  <2> QED
    BY <1>1, <1>3, <1>4, <2>3, <2>5, <2>6, TransitionStep DEF result
<1>7. CASE result.out # "Ok"
  BY <1>1, <1>3, <1>4, <1>7, SilentTransitionStep
<1> QED
  BY <1>6, <1>7

-----------------------------------------------------------------------------
(* Persisting and reconciling *)

\* An instance with a pending write moves on to its next store call, or back
\* to its caller, with its write as it was.
LEMMA MovedOn ==
    ASSUME StoreBefore, LeafTypes, StoreChange,
           NEW i \in Instances, LeafSound(i),
           pending[i] # None, pc[i] \notin {"down", "loadMaterial"},
           NEW call \in {"up", "cas", "reconcilePut", "reconcileCas"},
           call = "reconcilePut" => pending[i].changed,
           pc' = [pc EXCEPT ![i] = call], UNCHANGED leaf,
           reply'[i] = None
    PROVE  LeafSound(i)'
<1>1. /\ registry'[i] = registry[i] /\ material'[i] = material[i]
      /\ revision'[i] = revision[i] /\ pending'[i] = pending[i]
      /\ pc'[i] = call /\ revision[i] \in Nat
  BY DEF LeafTypes, leaf
<1>2. ControlSound(i)'
  BY <1>1 DEF LeafSound, ControlSound, JournalSound, JournalOf, LiveAttempt
<1>3. PendingSound(i)'
  BY <1>1 DEF LeafSound, PendingSound, JournalSound, JournalOf, LiveAttempt,
              AttemptStep
<1>4. ReplySound(i)'
  BY DEF ReplySound
<1>5. Agrees(i)' /\ revision'[i] <= rev'
  BY <1>1 DEF LeafSound, Agrees, StoreChange, StoreBefore
<1> QED
  BY <1>2, <1>3, <1>4, <1>5 DEF LeafSound

\* put_material() within persist() or reconcile().
LEMMA PutStep ==
    ASSUME IInv, NEW i \in Instances, PersistPut(i) \/ ReconcilePut(i)
    PROVE  IInv'
<1>1. StoreBefore /\ LeafTypes /\ LeafSound(i)
  BY BeforeStep
<1>2. /\ pc[i] \in {"put", "reconcilePut"}
      /\ UNCHANGED <<leaf, reply, answers>>
  BY DEF PersistPut, ReconcilePut
<1>3. PICK result \in {"Ok", "Error"}, call \in {"up", "cas", "reconcileCas"} :
        /\ CallPut(pending[i].next.material, result)
        /\ pc' = [pc EXCEPT ![i] = call]
  <2>1. PICK result \in {"Ok", "Error"}, next \in {"cas", "reconcileCas"} :
            /\ CallPut(pending[i].next.material, result)
            /\ pc' = [pc EXCEPT ![i] = IF result = "Ok" THEN next ELSE "up"]
    <3>1. CASE PersistPut(i)
      BY <3>1 DEF PersistPut
    <3>2. CASE ReconcilePut(i)
      BY <3>2 DEF ReconcilePut
    <3> QED
      BY <3>1, <3>2
  <2> QED
    BY <2>1
<1>4. /\ pending[i] # None /\ reply[i] = None
      /\ pending[i].next.material \in Material
  BY <1>1, <1>2 DEF LeafSound, ControlSound, PendingSound, ReplySound
<1>5. StoreChange
  BY <1>1, <1>3, <1>4, PutStoreChange
<1>6. LeafSound(i)'
  BY <1>1, <1>2, <1>3, <1>4, <1>5, MovedOn
<1>7. LeafTypes' /\ OnlyMoves(i)
  BY <1>1, <1>2, <1>3 DEF LeafTypes, OnlyMoves, Control, leaf
<1> QED
  BY <1>2, <1>5, <1>6, <1>7, AfterSilentStep

\* A response released by the write that closes its attempt is the first
\* and the last one: the attempt was live in the record that the write
\* replaced, so it had no answer, and is closed in the record that it left.
LEMMA Released ==
    ASSUME IInv, NEW attempt \in Nat, StoreChange,
           journal.live = attempt,
           journal'.live = None,
           answers' = [answers EXCEPT ![attempt] = @ + 1]
    PROVE  /\ answers' \in [Attempts -> Nat]
           /\ AnsweredIsClosed'
           /\ OneResponsePerAttempt'
<1>1. /\ StoreBefore /\ answers \in [Attempts -> Nat]
      /\ AnsweredIsClosed /\ OneResponsePerAttempt
  BY BeforeStep
<1>2. journal.live # None
  BY LeafAssumption
<1>3. /\ journal.next \in Nat /\ journal.live + 1 = journal.next
      /\ journal.next <= MaxSequence
  BY <1>1, <1>2 DEF StoreBefore, StoreSound, JournalSound, Journal
<1>4. attempt \in Attempts
  BY <1>3, LeafAssumption DEF Attempts
<1>5. answers[attempt] = 0
  BY <1>1, <1>4 DEF AnsweredIsClosed
<1>6. /\ answers' \in [Attempts -> Nat]
      /\ answers'[attempt] = 1
      /\ \A a \in Attempts \ {attempt} : answers'[a] = answers[a]
  BY <1>1, <1>4, <1>5
<1>7. OneResponsePerAttempt'
  BY <1>1, <1>6 DEF OneResponsePerAttempt, Attempts
<1>8. journal'.next = journal.next
  BY <1>2, LeafAssumption DEF StoreChange, AttemptStep
<1>9. ASSUME NEW a \in Attempts, answers'[a] > 0
      PROVE  a < journal'.next /\ journal'.live # a
  <2>1. a \in Nat
    BY LeafAssumption DEF Attempts
  <2>2. journal'.live # a
    BY <2>1, LeafAssumption
  <2>3. a < journal.next
    BY <1>1, <1>3, <1>6, <1>9, <2>1 DEF AnsweredIsClosed
  <2> QED
    BY <1>8, <2>2, <2>3
<1>10. AnsweredIsClosed'
  BY <1>9 DEF AnsweredIsClosed, Attempts
<1> QED
  BY <1>6, <1>7, <1>10

\* compare_exchange_journal() within persist().
LEMMA PersistCasStep ==
    ASSUME IInv, NEW i \in Instances, PersistCas(i)
    PROVE  IInv'
<1>1. StoreBefore /\ LeafTypes /\ LeafSound(i)
  BY BeforeStep
<1>2. /\ pc[i] = "cas"
      /\ pc' = [pc EXCEPT ![i] = "up"]
      /\ reply' = [reply EXCEPT ![i] = None]
  BY DEF PersistCas
<1>3. PICK result \in {"Applied", "Conflict", "Error"} :
        /\ CallCas(revision[i], pending[i].next, result)
        /\ IF result = "Applied" THEN FinishWrite(i, rev')
           ELSE UNCHANGED leaf
        /\ answers' = AnswersAfter(i, result)
  BY DEF PersistCas
<1>4. pending[i] # None
  BY <1>1, <1>2 DEF LeafSound, ControlSound
<1>5. /\ StoreChange
      /\ pending[i] \in PendingWrite
      /\ result = "Applied" =>
            journal = pending[i].previous /\ journal' = pending[i].next
  BY <1>3, <1>4, PendingCas
<1>6. pc'[i] = "up" /\ reply'[i] = None
  BY <1>1, <1>2 DEF LeafTypes
<1>7. CASE result # "Applied"
  <2>1. UNCHANGED <<leaf, answers>>
    BY <1>3, <1>7 DEF AnswersAfter
  <2>2. LeafSound(i)'
    BY <1>1, <1>2, <1>4, <1>5, <1>6, <2>1, MovedOn
  <2>3. LeafTypes' /\ OnlyMoves(i)
    BY <1>1, <1>2, <2>1 DEF LeafTypes, OnlyMoves, Control, leaf
  <2> QED
    BY <1>5, <2>1, <2>2, <2>3, AfterSilentStep
<1>8. CASE result = "Applied"
  <2>1. LeafSound(i)'
    BY <1>1, <1>2, <1>3, <1>4, <1>5, <1>6, <1>8, FinishLeafSound
  <2>2. LeafTypes' /\ OnlyMoves(i)
    <3>1. FinishWrite(i, rev') /\ rev' \in Nat
      BY <1>3, <1>5, <1>8 DEF StoreChange
    <3>2. pending[i].next.material \in Material \cup {None}
      BY <1>5 DEF PendingWrite, Journal
    <3> QED
      BY <1>1, <1>2, <3>1, <3>2 DEF LeafTypes, OnlyMoves, FinishWrite, Control
  <2>3. CASE reply[i] = None
    BY <1>3, <1>5, <1>8, <2>1, <2>2, <2>3, AfterSilentStep DEF AnswersAfter
  <2>4. CASE reply[i] # None
    <3>1. answers' = [answers EXCEPT ![reply[i].attempt] = @ + 1]
      BY <1>3, <1>8, <2>4 DEF AnswersAfter
    <3>2. reply[i].attempt \in Nat
      BY <1>1, <2>4 DEF LeafTypes, Live
    <3>3. journal.live = reply[i].attempt /\ journal'.live = None
      BY <1>1, <1>5, <1>8, <2>4 DEF LeafSound, ReplySound
    <3>4. /\ answers' \in [Attempts -> Nat]
          /\ AnsweredIsClosed' /\ OneResponsePerAttempt'
      BY <1>5, <3>1, <3>2, <3>3, Released
    <3> QED
      BY <1>5, <2>1, <2>2, <3>4, AfterStep
  <2> QED
    BY <2>3, <2>4
<1> QED
  BY <1>7, <1>8

\* compare_exchange_journal() within reconcile().
LEMMA ReconcileCasStep ==
    ASSUME IInv, NEW i \in Instances, ReconcileCas(i)
    PROVE  IInv'
<1>1. StoreBefore /\ LeafTypes /\ LeafSound(i)
  BY BeforeStep
<1>2. /\ pc[i] = "reconcileCas"
      /\ pc' = [pc EXCEPT ![i] = "up"]
      /\ UNCHANGED <<reply, answers>>
  BY DEF ReconcileCas
<1>3. PICK result \in {"Applied", "Conflict", "Error"} :
        /\ CallCas(revision[i], pending[i].next, result)
        /\ IF result = "Applied" THEN FinishWrite(i, rev')
           ELSE UNCHANGED leaf
  BY DEF ReconcileCas
<1>4. pending[i] # None /\ reply[i] = None
  BY <1>1, <1>2 DEF LeafSound, ControlSound, ReplySound
<1>5. /\ StoreChange
      /\ pending[i] \in PendingWrite
      /\ result = "Applied" => journal' = pending[i].next
  BY <1>3, <1>4, PendingCas
<1>6. pc'[i] = "up" /\ reply'[i] = None
  BY <1>1, <1>2, <1>4 DEF LeafTypes
<1>7. LeafSound(i)'
  BY <1>1, <1>2, <1>3, <1>4, <1>5, <1>6, MovedOn, FinishLeafSound
<1>8. LeafTypes' /\ OnlyMoves(i)
  BY <1>1, <1>2, <1>3, <1>5
     DEF LeafTypes, OnlyMoves, FinishWrite, PendingWrite, Journal, Control,
         StoreChange, leaf
<1> QED
  BY <1>2, <1>5, <1>7, <1>8, AfterSilentStep

\* reconcile() reads the journal: done, overtaken or to be made again.
LEMMA ReconcileReadStep ==
    ASSUME IInv, NEW i \in Instances, ReconcileRead(i)
    PROVE  IInv'
<1>1. StoreBefore /\ LeafTypes /\ LeafSound(i)
  BY BeforeStep
<1>2. /\ pc[i] = "up" /\ pending[i] # None
      /\ UNCHANGED <<store, reply, answers>>
  BY DEF ReconcileRead
<1>3. StoreChange /\ rev' = rev /\ journal' = journal
  BY <1>1, <1>2, StoreKept DEF store
<1>4. pending[i] \in PendingWrite /\ reply[i] = None /\ reply'[i] = None
  BY <1>1, <1>2 DEF LeafTypes, LeafSound, ReplySound
<1>5. \/ /\ journal = pending[i].next
         /\ FinishWrite(i, rev) /\ UNCHANGED pc
      \/ Invalidate(i) /\ UNCHANGED pc
      \/ /\ pc' = [pc EXCEPT ![i] = IF pending[i].changed
                                    THEN "reconcilePut"
                                    ELSE "reconcileCas"]
         /\ UNCHANGED leaf
  BY DEF ReconcileRead
<1>6. CASE /\ journal = pending[i].next
           /\ FinishWrite(i, rev) /\ UNCHANGED pc
  <2>1. LeafSound(i)'
    BY <1>1, <1>2, <1>3, <1>4, <1>6, FinishLeafSound
  <2>2. LeafTypes' /\ OnlyMoves(i)
    BY <1>1, <1>2, <1>4, <1>6
       DEF LeafTypes, OnlyMoves, FinishWrite, PendingWrite, Journal,
           StoreBefore
  <2> QED
    BY <1>2, <1>3, <2>1, <2>2, AfterSilentStep
<1>7. CASE Invalidate(i) /\ UNCHANGED pc
  <2>1. LeafTypes' /\ OnlyMoves(i)
    BY <1>1, <1>2, <1>7 DEF LeafTypes, OnlyMoves, Invalidate
  <2>2. /\ registry'[i] = None /\ pending'[i] = None /\ pc'[i] = "up"
        /\ revision'[i] = revision[i]
    BY <1>1, <1>2, <1>7 DEF LeafTypes, Invalidate
  <2>3. LeafSound(i)'
    BY <1>1, <1>3, <1>4, <2>2
       DEF LeafSound, ControlSound, PendingSound, ReplySound, Agrees
  <2> QED
    BY <1>2, <1>3, <2>1, <2>3, AfterSilentStep
<1>8. CASE /\ pc' = [pc EXCEPT ![i] = IF pending[i].changed
                                      THEN "reconcilePut"
                                      ELSE "reconcileCas"]
           /\ UNCHANGED leaf
  <2>1. LeafTypes' /\ OnlyMoves(i)
    BY <1>1, <1>2, <1>8 DEF LeafTypes, OnlyMoves, Control, leaf
  <2>2. LeafSound(i)'
    BY <1>1, <1>2, <1>3, <1>4, <1>8, MovedOn
  <2> QED
    BY <1>2, <1>3, <2>1, <2>2, AfterSilentStep
<1> QED
  BY <1>5, <1>6, <1>7, <1>8

-----------------------------------------------------------------------------
(* The theorems *)

\* The initial state, with no instance running, satisfies the invariant.
LEMMA InitIInv == Init => IInv
<1> SUFFICES ASSUME Init PROVE IInv
  OBVIOUS
<1>1. NoJournal \in Journal /\ JournalSound(NoJournal)
  BY GenesisRecord, LeafAssumption DEF NoJournal, JournalSound
<1>2. TypeOK
  BY <1>1 DEF Init, TypeOK, Control
<1>3. StoreSound
  BY <1>1 DEF Init, StoreSound, InflightSound
<1>4. \A i \in Instances : LeafSound(i)
  BY DEF Init, LeafSound, ControlSound, PendingSound, ReplySound, Agrees
<1>5. AnsweredIsClosed /\ OneResponsePerAttempt
  BY DEF Init, AnsweredIsClosed, OneResponsePerAttempt
<1> QED
  BY <1>2, <1>3, <1>4, <1>5 DEF IInv

\* Every step of every instance and of the store keeps the invariant.
LEMMA NextIInv == IInv /\ [Next]_vars => IInv'
<1> SUFFICES ASSUME IInv, [Next]_vars PROVE IInv'
  OBVIOUS
<1>1. CASE Land
  BY <1>1, LandStep
<1>2. ASSUME NEW i \in Instances, Step(i)
      PROVE  IInv'
  BY <1>2, StopStep, CreateStep, LoadJournalStep, LoadMaterialStep,
     StartCasStep, OperationStep, RespondStep, MaterialOperationStep,
     PutStep, PersistCasStep, ReconcileReadStep, ReconcileCasStep DEF Step
<1>3. CASE UNCHANGED vars
  BY <1>3 DEF vars, store, leaf, IInv, TypeOK, StoreSound, InflightSound,
       JournalSound, AttemptStep, LeafSound, ControlSound, PendingSound,
       ReplySound, Agrees, JournalOf, LiveAttempt, AnsweredIsClosed,
       OneResponsePerAttempt
<1> QED
  BY <1>1, <1>2, <1>3 DEF Next

\* The invariant holds in every behaviour, for any number of instances,
\* with or without interleaved store calls, failed and late writes.
THEOREM Invariance == Spec => []IInv
<1> QED
  BY InitIInv, NextIInv, PTL DEF Spec

\* Every variable keeps its type: records stay well formed through
\* creation, loading, every transition and reconciliation.
THEOREM TypeCorrect == Spec => []TypeOK
<1>1. IInv => TypeOK
  BY DEF IInv
<1> QED
  BY <1>1, Invariance, PTL

\* persist(): a device releases at most one response for an attempt,
\* however many processes run it and whatever the store answers.
THEOREM OneResponse == Spec => []OneResponsePerAttempt
<1>1. IInv => OneResponsePerAttempt
  BY DEF IInv
<1> QED
  BY <1>1, Invariance, PTL

\* An attempt that was answered is durably closed.
THEOREM AnsweredClosed == Spec => []AnsweredIsClosed
<1>1. IInv => AnsweredIsClosed
  BY DEF IInv
<1> QED
  BY <1>1, Invariance, PTL

\* A step changes the store, if at all, by one attempt step.
LEMMA NextStoreChange == IInv /\ [Next]_vars => StoreChange
<1> SUFFICES ASSUME IInv, [Next]_vars PROVE StoreChange
  OBVIOUS
<1>1. StoreBefore /\ \A i \in Instances : LeafSound(i)
  BY BeforeStep
<1>2. CASE UNCHANGED store
  BY <1>1, <1>2, StoreKept
<1>3. CASE Land
  <2>1. PICK w \in inflight : /\ CompareExchange(w.expected, w.next)
                              /\ inflight' = inflight \ {w}
    BY <1>3 DEF Land
  <2>2. /\ w.expected \in Nat /\ w.next \in Journal
        /\ JournalSound(w.next)
        /\ w.expected = rev => AttemptStep(journal, w.next)
    BY <1>1 DEF StoreBefore, StoreSound, InflightSound
  <2> QED
    BY <1>1, <2>1, <2>2, ExchangeStoreChange
<1>4. ASSUME NEW i \in Instances, Create(i)
      PROVE  StoreChange
  BY <1>1, <1>4, PersistentLeafAssumption, PutStoreChange DEF Create
<1>5. ASSUME NEW i \in Instances, PersistPut(i) \/ ReconcilePut(i)
      PROVE  StoreChange
  <2>1. pending[i].next.material \in Material
    BY <1>1, <1>5 DEF PersistPut, ReconcilePut, LeafSound, ControlSound,
                      PendingSound
  <2>2. \E result : CallPut(pending[i].next.material, result)
    BY <1>5 DEF PersistPut, ReconcilePut
  <2> QED
    BY <1>1, <2>1, <2>2, PutStoreChange
<1>6. ASSUME NEW i \in Instances,
             StartCas(i) \/ PersistCas(i) \/ ReconcileCas(i)
      PROVE  StoreChange
  <2>1. pending[i] # None
    BY <1>1, <1>6 DEF StartCas, PersistCas, ReconcileCas, LeafSound,
                      ControlSound
  <2>2. \E result : CallCas(revision[i], pending[i].next, result)
    BY <1>6 DEF StartCas, PersistCas, ReconcileCas
  <2> QED
    BY <2>1, <2>2, PendingCas
<1>7. ASSUME NEW i \in Instances, Step(i)
      PROVE  \/ UNCHANGED store
             \/ Create(i) \/ PersistPut(i) \/ ReconcilePut(i)
             \/ StartCas(i) \/ PersistCas(i) \/ ReconcileCas(i)
  BY <1>7 DEF Step, Stop, LoadJournal, LoadMaterial, ReserveOp, CommitOp,
       RevealOp, FixOp, RespondOp, CloseOp, ReceiveAbortOp, CloseExpiredOp,
       AddVaultOp, ActivateInnerOp, ActivateOuterOp, ReconcileRead,
       Transition, MaterialTransition
<1>8. CASE UNCHANGED vars
  BY <1>2, <1>8 DEF vars
<1> QED
  BY <1>2, <1>3, <1>4, <1>5, <1>6, <1>7, <1>8 DEF Next

\* The journal's revision and attempt counter never fall and a closed
\* attempt never becomes live again, whichever write lands in which order.
THEOREM OnlyAdvances == Spec => JournalOnlyAdvances
<1>1. ASSUME IInv, [Next]_vars
      PROVE  /\ rev' >= rev
             /\ journal'.next >= journal.next
             /\ \A a \in Attempts :
                  a < journal.next /\ journal.live # a => journal'.live # a
  <2>1. StoreChange /\ StoreBefore
    BY <1>1, NextStoreChange, BeforeStep
  <2>2. journal.next \in Nat /\ journal'.next \in Nat
    BY <2>1 DEF StoreChange, StoreBefore, Journal
  <2>3. \A a \in Attempts : a \in Nat
    BY InputTypes
  <2> QED
    BY <2>1, <2>2, <2>3, LeafAssumption DEF StoreChange, AttemptStep
<1> QED
  BY <1>1, Invariance, PTL DEF Spec, JournalOnlyAdvances

\* A response is released only by the write that closes its attempt.
LEMMA NextAnswers ==
    ASSUME IInv, [Next]_vars
    PROVE  \/ answers' = answers
           \/ /\ journal.live # None
              /\ journal'.live = None
              /\ answers' = [answers EXCEPT ![journal.live] = @ + 1]
<1>1. ASSUME NEW i \in Instances, PersistCas(i), answers' # answers
      PROVE  /\ journal.live # None
             /\ journal'.live = None
             /\ answers' = [answers EXCEPT ![journal.live] = @ + 1]
  <2>1. LeafTypes /\ LeafSound(i)
    BY BeforeStep
  <2>2. pc[i] = "cas"
    BY <1>1 DEF PersistCas
  <2>3. PICK result \in {"Applied", "Conflict", "Error"} :
          /\ CallCas(revision[i], pending[i].next, result)
          /\ answers' = AnswersAfter(i, result)
    BY <1>1 DEF PersistCas
  <2>4. /\ result = "Applied" /\ reply[i] # None
        /\ answers' = [answers EXCEPT ![reply[i].attempt] = @ + 1]
    BY <1>1, <2>3 DEF AnswersAfter
  <2>5. pending[i] # None
    BY <2>1, <2>2 DEF LeafSound, ControlSound
  <2>6. journal = pending[i].previous /\ journal' = pending[i].next
    BY <2>3, <2>4, <2>5, PendingCas
  <2>7. journal.live = reply[i].attempt /\ journal'.live = None
    BY <2>1, <2>4, <2>6 DEF LeafSound, ReplySound
  <2>8. reply[i].attempt \in Nat
    BY <2>1, <2>4 DEF LeafTypes, Live
  <2>9. journal.live # None
    BY <2>7, <2>8, LeafAssumption
  <2> QED
    BY <2>4, <2>7, <2>9
<1>2. ASSUME NEW i \in Instances, Step(i)
      PROVE  PersistCas(i) \/ answers' = answers
  BY <1>2 DEF Step, Stop, Forget, Create, LoadJournal, LoadMaterial,
       StartCas, ReserveOp, CommitOp, RevealOp, FixOp, RespondOp, CloseOp,
       ReceiveAbortOp, CloseExpiredOp, AddVaultOp, ActivateInnerOp,
       ActivateOuterOp, PersistPut, ReconcileRead, ReconcilePut,
       ReconcileCas, Transition, MaterialTransition
<1>3. Land => answers' = answers
  BY DEF Land
<1>4. UNCHANGED vars => answers' = answers
  BY DEF vars
<1> QED
  BY <1>1, <1>2, <1>3, <1>4 DEF Next

\* Instances, journal and store together implement AttemptAuthority: the
\* processes of a device, crashing and reloading around a store that fails
\* and delays, issue and answer attempts as one sequential device would.
THEOREM Refinement == Spec => ImplementsAuthority
<1>1. Init => Authority!Init
  BY DEF Init, Authority!Init, NoJournal
<1>2. ASSUME IInv, [Next]_vars
      PROVE  [Authority!Next]_(Authority!vars)
  <2>1. StoreChange /\ StoreBefore
    BY <1>2, NextStoreChange, BeforeStep
  <2>2. AttemptStep(journal, journal')
    BY <2>1 DEF StoreChange
  <2>3. journal.next \in Nat
    BY <2>1 DEF StoreBefore, Journal
  <2>4. journal.next # None
    BY <2>3, LeafAssumption
  <2>5. CASE answers' = answers
    <3>1. CASE journal'.next = journal.next /\ journal'.live = journal.live
      BY <2>5, <3>1 DEF Authority!vars
    <3>2. CASE /\ journal'.next = journal.next /\ journal'.live = None
               /\ journal.live # None
      BY <2>5, <3>2 DEF Authority!Next, Authority!Close
    <3>3. CASE /\ journal.live = None /\ journal'.live = journal.next
               /\ journal'.next = journal.next + 1
      BY <2>5, <3>3 DEF Authority!Next, Authority!Issue
    <3> QED
      BY <2>2, <3>1, <3>2, <3>3 DEF AttemptStep
  <2>6. CASE /\ journal.live # None
             /\ journal'.live = None
             /\ answers' = [answers EXCEPT ![journal.live] = @ + 1]
    <3>1. journal'.next = journal.next
      BY <2>2, <2>4, <2>6 DEF AttemptStep
    <3> QED
      BY <2>6, <3>1 DEF Authority!Next, Authority!Answer
  <2> QED
    BY <1>2, <2>5, <2>6, NextAnswers
<1> QED
  BY <1>1, <1>2, Invariance, PTL
     DEF Spec, ImplementsAuthority, Authority!Spec

-----------------------------------------------------------------------------
(* The material behind a response *)

\* A registry runs over the material that the journal will name once the
\* write under way is done, and a held response was computed under it.
MaterialFits(i) ==
    /\ registry[i] # None =>
         registry[i].material = IF pending[i] = None THEN material[i]
                                ELSE pending[i].next.material
    /\ reply[i] # None =>
         reply[i].bytes.epoch
            = EpochOf(pending[i].next.material, reply[i].vault)

MInv == \A i \in Instances : MaterialFits(i)

\* A step of one instance leaves the others alone.
LEMMA StepMoves ==
    ASSUME IInv, NEW i \in Instances, Step(i)
    PROVE  OnlyMoves(i)
<1>1. LeafTypes
  BY BeforeStep
<1>2. ASSUME Forget(i) PROVE OnlyMoves(i)
  BY <1>1, <1>2 DEF LeafTypes, OnlyMoves, Forget
<1>3. ASSUME Create(i) \/ LoadJournal(i) PROVE OnlyMoves(i)
  BY <1>1, <1>3 DEF LeafTypes, OnlyMoves, Create, LoadJournal, BeginWrite, leaf
<1>4. ASSUME LoadMaterial(i) PROVE OnlyMoves(i)
  BY <1>1, <1>2, <1>4 DEF LeafTypes, OnlyMoves, LoadMaterial
<1>5. ASSUME StartCas(i) PROVE OnlyMoves(i)
  BY <1>1, <1>2, <1>5 DEF LeafTypes, OnlyMoves, StartCas, FinishWrite
<1>6. ASSUME NEW result, Transition(i, result),
             \A j \in Instances \ {i} : reply'[j] = reply[j]
      PROVE  OnlyMoves(i)
  BY <1>1, <1>6 DEF LeafTypes, OnlyMoves, Transition, BeginWrite
<1>7. ASSUME NEW result, MaterialTransition(i, result) PROVE OnlyMoves(i)
  BY <1>1, <1>6, <1>7
     DEF LeafTypes, OnlyMoves, MaterialTransition, BeginWrite
<1>8. ASSUME \/ ReserveOp(i) \/ CommitOp(i) \/ RevealOp(i) \/ FixOp(i)
             \/ CloseOp(i) \/ ReceiveAbortOp(i) \/ CloseExpiredOp(i)
      PROVE  OnlyMoves(i)
  <2>1. UNCHANGED reply /\ \E result : Transition(i, result)
    BY <1>8 DEF ReserveOp, CommitOp, RevealOp, FixOp, CloseOp, ReceiveAbortOp,
                CloseExpiredOp
  <2> QED
    BY <1>6, <2>1
<1>9. ASSUME RespondOp(i) PROVE OnlyMoves(i)
  <2>1. PICK a \in Attempts, package \in Packages :
          /\ Transition(i, Respond(registry[i], a, package))
          /\ reply' = IF Respond(registry[i], a, package).out = "Ok"
                      THEN [reply EXCEPT ![i] = registry[i].live] ELSE reply
    BY <1>9 DEF RespondOp
  <2>2. \A j \in Instances \ {i} : reply'[j] = reply[j]
    BY <1>1, <2>1 DEF LeafTypes
  <2> QED
    BY <1>6, <2>1, <2>2
<1>10. ASSUME AddVaultOp(i) \/ ActivateInnerOp(i) \/ ActivateOuterOp(i)
       PROVE  OnlyMoves(i)
  BY <1>7, <1>10 DEF AddVaultOp, ActivateInnerOp, ActivateOuterOp
<1>11. ASSUME PersistPut(i) \/ ReconcilePut(i) PROVE OnlyMoves(i)
  BY <1>1, <1>11 DEF LeafTypes, OnlyMoves, PersistPut, ReconcilePut, leaf
<1>12. ASSUME PersistCas(i) \/ ReconcileCas(i) PROVE OnlyMoves(i)
  BY <1>1, <1>12 DEF LeafTypes, OnlyMoves, PersistCas, ReconcileCas,
                     FinishWrite, leaf
<1>13. ASSUME ReconcileRead(i) PROVE OnlyMoves(i)
  BY <1>1, <1>13 DEF LeafTypes, OnlyMoves, ReconcileRead, FinishWrite,
                     Invalidate, leaf
<1> QED
  BY <1>2, <1>3, <1>4, <1>5, <1>8, <1>9, <1>10, <1>11, <1>12, <1>13
     DEF Step, Stop

\* Every signing operation keeps the material of the registry.
LEMMA OperationShape ==
    ASSUME IInv, NEW i \in Instances,
           \/ ReserveOp(i) \/ CommitOp(i) \/ RevealOp(i) \/ FixOp(i)
           \/ CloseOp(i) \/ ReceiveAbortOp(i) \/ CloseExpiredOp(i)
    PROVE  /\ Ready(i) /\ UNCHANGED reply
           /\ \E result : /\ Transition(i, result)
                          /\ result.reg.material = registry[i].material
<1>1. Ready(i) /\ UNCHANGED reply
  BY DEF ReserveOp, CommitOp, RevealOp, FixOp, CloseOp, ReceiveAbortOp,
         CloseExpiredOp
<1>2. registry[i] \in Registry
  BY <1>1, ReadyFacts
<1>3. CASE ReserveOp(i)
  <2>1. PICK s \in Sessions, now \in Times, bytes \in Reservations,
             b \in Binding :
          Transition(i, Reserve(registry[i], s, now, bytes, b))
    BY <1>3 DEF ReserveOp
  <2>2. Reserve(registry[i], s, now, bytes, b).reg.material = registry[i].material
    BY <1>2, ReserveShape DEF Settles
  <2> QED
    BY <1>1, <2>1, <2>2
<1>4. CASE CommitOp(i)
  <2>1. PICK a \in Attempts, bytes \in Reservations, n \in Nonces :
          Transition(i, Commit(registry[i], a, bytes, n))
    BY <1>4 DEF CommitOp
  <2>2. Commit(registry[i], a, bytes, n).reg.material = registry[i].material
    <3>1. \/ Settles(registry[i], Commit(registry[i], a, bytes, n).reg)
          \/ Extends(registry[i], Commit(registry[i], a, bytes, n).reg,
                     [registry[i].live EXCEPT !.commit = n])
      BY <1>2, CommitShape
    <3> QED
      BY <3>1 DEF Settles, Extends
  <2> QED
    BY <1>1, <2>1, <2>2
<1>5. CASE RevealOp(i)
  <2>1. PICK a \in Attempts, view \in Views :
          Transition(i, Reveal(registry[i], a, view))
    BY <1>5 DEF RevealOp
  <2>2. Reveal(registry[i], a, view).reg.material = registry[i].material
    <3>1. \/ Settles(registry[i], Reveal(registry[i], a, view).reg)
          \/ Extends(registry[i], Reveal(registry[i], a, view).reg,
                     [registry[i].live EXCEPT !.reveal = view])
      BY <1>2, RevealShape
    <3> QED
      BY <3>1 DEF Settles, Extends
  <2> QED
    BY <1>1, <2>1, <2>2
<1>6. CASE FixOp(i)
  <2>1. PICK a \in Attempts, view \in Views :
          Transition(i, Fix(registry[i], a, view))
    BY <1>6 DEF FixOp
  <2>2. Fix(registry[i], a, view).reg.material = registry[i].material
    <3>1. \/ Settles(registry[i], Fix(registry[i], a, view).reg)
          \/ Extends(registry[i], Fix(registry[i], a, view).reg,
                     [registry[i].live EXCEPT !.fixed = view])
      BY <1>2, FixShape
    <3> QED
      BY <3>1 DEF Settles, Extends
  <2> QED
    BY <1>1, <2>1, <2>2
<1>7. CASE CloseOp(i) \/ ReceiveAbortOp(i) \/ CloseExpiredOp(i)
  BY <1>1, <1>2, <1>7, ClosingShape
     DEF CloseOp, ReceiveAbortOp, CloseExpiredOp, Settles
<1> QED
  BY <1>1, <1>3, <1>4, <1>5, <1>6, <1>7

\* A change of material that is refused keeps the registry.
LEMMA MaterialShape ==
    ASSUME NEW i \in Instances,
           AddVaultOp(i) \/ ActivateInnerOp(i) \/ ActivateOuterOp(i)
    PROVE  /\ Ready(i)
           /\ \E result :
                /\ MaterialTransition(i, result)
                /\ result.out # "Ok" =>
                     result.reg.material = registry[i].material
<1>1. ASSUME NEW reg, NEW r, \/ \E out : r = Kept(reg, out)
                              \/ \E live, m : r = Rekeyed(reg, live, m)
      PROVE  r.out # "Ok" => r.reg.material = reg.material
  BY <1>1 DEF Kept, Rekeyed
<1>2. CASE AddVaultOp(i)
  <2>1. PICK genesis \in Geneses :
          MaterialTransition(i, AddVault(registry[i], genesis))
    BY <1>2 DEF AddVaultOp
  <2> DEFINE r == AddVault(registry[i], genesis)
  <2>2. \/ \E out : r = Kept(registry[i], out)
        \/ \E live, m : r = Rekeyed(registry[i], live, m)
    BY Zenon DEF AddVault
  <2> HIDE DEF r
  <2>3. r.out # "Ok" => r.reg.material = registry[i].material
    BY <1>1, <2>2
  <2>4. Ready(i) /\ MaterialTransition(i, r)
    BY <1>2, <2>1 DEF AddVaultOp, r
  <2> QED
    BY <2>3, <2>4
<1>3. CASE ActivateInnerOp(i)
  <2>1. PICK bundle \in Bundles :
          MaterialTransition(i, ActivateInnerBundle(registry[i], bundle))
    BY <1>3 DEF ActivateInnerOp
  <2> DEFINE r == ActivateInnerBundle(registry[i], bundle)
  <2>2. \/ \E out : r = Kept(registry[i], out)
        \/ \E live, m : r = Rekeyed(registry[i], live, m)
    BY Zenon DEF ActivateInnerBundle
  <2> HIDE DEF r
  <2>3. r.out # "Ok" => r.reg.material = registry[i].material
    BY <1>1, <2>2
  <2>4. Ready(i) /\ MaterialTransition(i, r)
    BY <1>3, <2>1 DEF ActivateInnerOp, r
  <2> QED
    BY <2>3, <2>4
<1>4. CASE ActivateOuterOp(i)
  <2>1. PICK block \in OuterBlocks :
          MaterialTransition(i, ActivateOuter(registry[i], block))
    BY <1>4 DEF ActivateOuterOp
  <2> DEFINE r == ActivateOuter(registry[i], block)
  <2>2. \/ \E out : r = Kept(registry[i], out)
        \/ \E live, m : r = Rekeyed(registry[i], live, m)
    BY Zenon DEF ActivateOuter
  <2> HIDE DEF r
  <2>3. r.out # "Ok" => r.reg.material = registry[i].material
    BY <1>1, <2>2
  <2>4. Ready(i) /\ MaterialTransition(i, r)
    BY <1>4, <2>1 DEF ActivateOuterOp, r
  <2> QED
    BY <2>3, <2>4
<1> QED
  BY <1>2, <1>3, <1>4

\* A transition keeps the fit, when the response it leaves fits the material.
LEMMA TransitionFits ==
    ASSUME IInv, NEW i \in Instances, MaterialFits(i), Ready(i),
           NEW result, Transition(i, result),
           result.reg.material = registry[i].material,
           reply'[i] # None =>
             /\ reply'[i].bytes.epoch
                  = EpochOf(registry[i].material, reply'[i].vault)
             /\ LiveAttempt(registry[i]) # LiveAttempt(result.reg)
    PROVE  MaterialFits(i)'
<1> DEFINE previous == JournalOf(material[i], registry[i])
           next == JournalOf(material[i], result.reg)
<1>1. LeafTypes
  BY BeforeStep
<1>2. pending[i] = None /\ registry[i].material = material[i]
  BY DEF Ready, MaterialFits
<1>3. /\ registry'[i] = result.reg /\ material'[i] = material[i]
      /\ IF next # previous THEN BeginWrite(i, previous, next, FALSE, "cas")
         ELSE UNCHANGED <<pc, pending>>
  BY <1>1 DEF Transition, LeafTypes
<1>4. /\ next.material = material[i]
      /\ next.live = LiveAttempt(result.reg)
      /\ previous.live = LiveAttempt(registry[i])
  BY DEF JournalOf
<1> HIDE DEF previous, next
<1>5. CASE next # previous
  <2>1. pending' = [pending EXCEPT ![i] =
            [previous |-> previous, next |-> next, changed |-> FALSE]]
    BY <1>3, <1>5 DEF BeginWrite
  <2>2. pending'[i].next = next
    BY <1>1, <2>1 DEF LeafTypes
  <2> QED
    BY <1>2, <1>3, <1>4, <2>2 DEF MaterialFits
<1>6. CASE next = previous
  <2>1. pending'[i] = None /\ reply'[i] = None
    BY <1>2, <1>3, <1>4, <1>6
  <2> QED
    BY <1>2, <1>3, <2>1 DEF MaterialFits
<1> QED
  BY <1>5, <1>6

\* respond(): the response is computed under the epoch of the material.
LEMMA RespondFits ==
    ASSUME IInv, NEW i \in Instances, MaterialFits(i), RespondOp(i)
    PROVE  MaterialFits(i)'
<1>1. Ready(i)
  BY DEF RespondOp
<1>2. /\ registry[i] \in Registry /\ CounterSound(registry[i])
      /\ reply[i] = None
  BY <1>1, ReadyFacts
<1>3. PICK a \in Attempts, package \in Packages :
        /\ Transition(i, Respond(registry[i], a, package))
        /\ reply' = IF Respond(registry[i], a, package).out = "Ok"
                    THEN [reply EXCEPT ![i] = registry[i].live] ELSE reply
  BY DEF RespondOp
<1> DEFINE result == Respond(registry[i], a, package)
<1>4. reply \in [Instances -> Live \cup {None}]
  BY BeforeStep DEF LeafTypes
<1>5. /\ result.reg.material = registry[i].material
      /\ result.out = "Ok" => registry[i].live # None /\ result.reg.live = None
  BY <1>2, RespondShape DEF Settles
<1>6. ASSUME reply'[i] # None
      PROVE  /\ reply'[i].bytes.epoch
                  = EpochOf(registry[i].material, reply'[i].vault)
             /\ LiveAttempt(registry[i]) # LiveAttempt(result.reg)
  <2>1. result.out = "Ok" /\ reply'[i] = registry[i].live
    BY <1>2, <1>3, <1>4, <1>6
  <2>2. registry[i].live \in Live /\ registry[i].live # None
    BY <1>2, <1>5, <2>1 DEF Registry
  <2>3. LiveAttempt(registry[i]) \in Nat /\ LiveAttempt(result.reg) = None
    BY <1>5, <2>1, <2>2 DEF LiveAttempt, Live
  <2>4. ResponseTo(registry[i], package) = "Ok"
    BY <2>1 DEF Respond, Kept, Closed
  <2>5. EpochOf(registry[i].material, registry[i].live.vault)
          = registry[i].live.bytes.epoch
    BY <2>4 DEF ResponseTo
  <2> QED
    BY <2>1, <2>3, <2>5, LeafAssumption
<1> HIDE DEF result
<1>7. Transition(i, result)
  BY <1>3 DEF result
<1> QED
  BY <1>1, <1>5, <1>6, <1>7, TransitionFits

\* material_transition(): the registry runs over the material to be written.
LEMMA MaterialTransitionFits ==
    ASSUME IInv, IInv', NEW i \in Instances, MaterialFits(i), Ready(i),
           NEW result, MaterialTransition(i, result),
           result.out # "Ok" => result.reg.material = registry[i].material
    PROVE  MaterialFits(i)'
<1>1. LeafTypes /\ pending[i] = None /\ reply[i] = None
  BY BeforeStep, ReadyFacts
<1>2. reply'[i] = None
  BY <1>1 DEF MaterialTransition
<1>3. CASE result.out # "Ok"
  BY <1>2, <1>3, TransitionFits DEF MaterialTransition
<1>4. CASE result.out = "Ok" /\ ~Encodable(result.reg)
  <2>1. registry'[i] = None
    BY <1>1, <1>4 DEF MaterialTransition, LeafTypes
  <2> QED
    BY <1>2, <2>1 DEF MaterialFits
<1>5. CASE result.out = "Ok" /\ Encodable(result.reg)
  <2> DEFINE next == JournalOf(result.reg.material, result.reg)
             previous == JournalOf(material[i], registry[i])
             write == [previous |-> previous, next |-> next, changed |-> TRUE]
  <2>1. /\ registry' = [registry EXCEPT ![i] = result.reg]
        /\ pending' = [pending EXCEPT ![i] = write]
    BY <1>5 DEF MaterialTransition, BeginWrite
  <2>2. next.material = result.reg.material
    BY DEF JournalOf
  <2>3. write.next = next
    OBVIOUS
  <2> HIDE DEF write, next
  <2>4. pending'[i].next.material = result.reg.material /\ registry'[i] = result.reg
    BY <1>1, <2>1, <2>2, <2>3 DEF LeafTypes
  <2>5. pending'[i] # None
    <3>1. pc'[i] = "put"
      BY <1>1, <1>5 DEF MaterialTransition, BeginWrite, LeafTypes
    <3>2. ControlSound(i)'
      BY DEF IInv, LeafSound
    <3> QED
      BY <3>1, <3>2 DEF ControlSound
  <2> QED
    BY <1>2, <2>4, <2>5 DEF MaterialFits
<1> QED
  BY <1>3, <1>4, <1>5

\* Starting, persisting and reconciling keep the fit.
LEMMA StoreCallFits ==
    ASSUME IInv, IInv', NEW i \in Instances, MaterialFits(i),
           \/ Stop(i) \/ Create(i) \/ LoadJournal(i) \/ LoadMaterial(i)
           \/ StartCas(i) \/ PersistPut(i) \/ PersistCas(i)
           \/ ReconcileRead(i) \/ ReconcilePut(i) \/ ReconcileCas(i)
    PROVE  MaterialFits(i)'
<1>1. LeafTypes /\ ControlSound(i) /\ ReplySound(i)
  BY BeforeStep DEF LeafSound
<1>2. ControlSound(i)' /\ ReplySound(i)'
  BY DEF IInv, LeafSound
<1>3. ASSUME Forget(i) PROVE MaterialFits(i)'
  BY <1>1, <1>3 DEF LeafTypes, Forget, MaterialFits
<1>4. ASSUME NEW r, FinishWrite(i, r), pending[i] # None, reply'[i] = None
      PROVE  MaterialFits(i)'
  BY <1>1, <1>4 DEF LeafTypes, FinishWrite, MaterialFits
<1>5. ASSUME UNCHANGED leaf, reply'[i] = None
      PROVE  MaterialFits(i)'
  BY <1>5 DEF leaf, MaterialFits
<1>6. CASE Create(i)
  <2>1. reply'[i] = None
    BY <1>1, <1>6 DEF Create, ReplySound
  <2>2. CASE UNCHANGED leaf
    BY <1>5, <2>1, <2>2
  <2>3. CASE /\ registry' = [registry EXCEPT ![i] = NewRegistry(Genesis0)]
             /\ BeginWrite(i, NoJournal,
                           JournalOf(Genesis0, NewRegistry(Genesis0)),
                           TRUE, "createCas")
    <3>1. /\ registry'[i] = NewRegistry(Genesis0)
          /\ pending'[i].next = JournalOf(Genesis0, NewRegistry(Genesis0))
          /\ pc'[i] = "createCas"
      BY <1>1, <2>3 DEF LeafTypes, BeginWrite
    <3>2. /\ NewRegistry(Genesis0).material = Genesis0
          /\ JournalOf(Genesis0, NewRegistry(Genesis0)).material = Genesis0
      BY DEF NewRegistry, JournalOf
    <3>3. pending'[i] # None
      BY <1>2, <3>1 DEF ControlSound
    <3> QED
      BY <2>1, <3>1, <3>2, <3>3 DEF MaterialFits
  <2> QED
    BY <1>6, <2>2, <2>3 DEF Create
<1>7. CASE LoadJournal(i)
  <2>1. registry'[i] = None /\ reply'[i] = None
    BY <1>1, <1>7 DEF LoadJournal, ControlSound, ReplySound
  <2> QED
    BY <2>1 DEF MaterialFits
<1>8. CASE LoadMaterial(i)
  <2> DEFINE record == pending[i].previous
  <2>1. /\ pending[i] # None /\ reply[i] = None
        /\ material[i] = record.material
        /\ pending[i].next = [record EXCEPT !.live = None]
    BY <1>1, <1>8 DEF LoadMaterial, ControlSound, ReplySound
  <2>2. record \in Journal
    BY <1>1, <2>1 DEF LeafTypes, PendingWrite
  <2>3. pending[i].next.material = record.material
    BY <2>1, <2>2 DEF Journal
  <2>4. Restored(record).material = record.material
    BY DEF Restored
  <2> HIDE DEF record
  <2>5. CASE /\ registry' = [registry EXCEPT ![i] = Restored(record)]
             /\ UNCHANGED <<material, reply>>
             /\ \/ pending' = [pending EXCEPT ![i] = None]
                \/ UNCHANGED pending
    <3>1. registry'[i] = Restored(record) /\ pending'[i] \in {None, pending[i]}
      BY <1>1, <2>5 DEF LeafTypes
    <3> QED
      BY <2>1, <2>3, <2>4, <2>5, <3>1 DEF MaterialFits
  <2> QED
    BY <1>3, <1>8, <2>5 DEF LoadMaterial, record
<1>9. CASE StartCas(i)
  <2>1. pending[i] # None /\ reply[i] = None
    BY <1>1, <1>9 DEF StartCas, ControlSound, ReplySound
  <2> QED
    BY <1>3, <1>4, <1>9, <2>1 DEF StartCas
<1>10. CASE PersistPut(i) \/ ReconcilePut(i)
  <2>1. UNCHANGED leaf /\ reply'[i] = None
    BY <1>1, <1>10 DEF PersistPut, ReconcilePut, ReplySound
  <2> QED
    BY <1>5, <2>1
<1>11. CASE PersistCas(i) \/ ReconcileCas(i)
  <2>1. pending[i] # None /\ reply'[i] = None
    BY <1>1, <1>11 DEF PersistCas, ReconcileCas, ControlSound, ReplySound, LeafTypes
  <2> QED
    BY <1>4, <1>5, <1>11, <2>1 DEF PersistCas, ReconcileCas
<1>12. CASE ReconcileRead(i)
  <2>1. pending[i] # None /\ reply'[i] = None
    BY <1>1, <1>12 DEF ReconcileRead, ReplySound
  <2>2. CASE Invalidate(i)
    <3>1. registry'[i] = None
      BY <1>1, <2>2 DEF Invalidate, LeafTypes
    <3> QED
      BY <2>1, <3>1 DEF MaterialFits
  <2> QED
    BY <1>4, <1>5, <1>12, <2>1, <2>2 DEF ReconcileRead
<1> QED
  BY <1>3, <1>6, <1>7, <1>8, <1>9, <1>10, <1>11, <1>12 DEF Stop

LEMMA NextMInv == IInv /\ IInv' /\ MInv /\ [Next]_vars => MInv'
<1> SUFFICES ASSUME IInv, IInv', MInv, [Next]_vars PROVE MInv'
  OBVIOUS
<1>1. ASSUME UNCHANGED <<leaf, reply>> PROVE MInv'
  BY <1>1 DEF leaf, MInv, MaterialFits
<1>2. ASSUME NEW i \in Instances, Step(i)
      PROVE  MInv'
  <2>1. MaterialFits(i)
    BY DEF MInv
  <2>2. MaterialFits(i)'
    <3>1. CASE \/ ReserveOp(i) \/ CommitOp(i) \/ RevealOp(i) \/ FixOp(i)
               \/ CloseOp(i) \/ ReceiveAbortOp(i) \/ CloseExpiredOp(i)
      <4>1. Ready(i) /\ UNCHANGED reply
        BY <3>1, OperationShape
      <4>2. PICK result : /\ Transition(i, result)
                          /\ result.reg.material = registry[i].material
        BY <3>1, OperationShape
      <4>3. reply'[i] = None
        BY <4>1, ReadyFacts
      <4> QED
        BY <2>1, <4>1, <4>2, <4>3, TransitionFits
    <3>2. CASE RespondOp(i)
      BY <2>1, <3>2, RespondFits
    <3>3. CASE AddVaultOp(i) \/ ActivateInnerOp(i) \/ ActivateOuterOp(i)
      <4>1. Ready(i)
        BY <3>3, MaterialShape
      <4>2. PICK result : /\ MaterialTransition(i, result)
                          /\ result.out # "Ok" =>
                               result.reg.material = registry[i].material
        BY <3>3, MaterialShape
      <4> QED
        BY <2>1, <4>1, <4>2, MaterialTransitionFits
    <3> QED
      BY <1>2, <2>1, <3>1, <3>2, <3>3, StoreCallFits DEF Step
  <2>3. ASSUME NEW j \in Instances, j # i
        PROVE  MaterialFits(j)'
    <3>1. OnlyMoves(i) /\ MaterialFits(j)
      BY <1>2, StepMoves DEF MInv
    <3> QED
      BY <2>3, <3>1 DEF OnlyMoves, MaterialFits
  <2> QED
    BY <2>2, <2>3 DEF MInv
<1> QED
  BY <1>1, <1>2 DEF Next, Land, vars

\* Every registry runs over its record's material (persistent.rs).
LEMMA MaterialInvariance == Spec => [](IInv /\ MInv)
<1>1. Init => MInv
  BY DEF Init, MInv, MaterialFits
<1> QED
  BY <1>1, NextMInv, Invariance, PTL DEF Spec

\* An instance at the stored revision holds the stored record and runs over
\* the material it names, so a write that is applied replaces exactly the
\* record it was computed from, and a leaf in service is never ahead of the
\* journal (persistent.rs: persist, material_transition).
THEOREM CurrentAgrees == Spec => []CurrentInstanceAgrees
<1>1. ASSUME IInv, MInv, NEW i \in Instances
      PROVE  /\ Agrees(i)
             /\ revision[i] = rev /\ pending[i] = None /\ registry[i] # None =>
                     registry[i].material = journal.material
  <2>1. Agrees(i)
    BY <1>1 DEF IInv, LeafSound
  <2>2. pending[i] = None /\ registry[i] # None => registry[i].material = material[i]
    BY <1>1 DEF MInv, MaterialFits
  <2>3. JournalOf(material[i], registry[i]).material = material[i]
    BY DEF JournalOf
  <2> QED
    BY <2>1, <2>2, <2>3 DEF Agrees
<1>2. IInv /\ MInv => CurrentInstanceAgrees
  BY <1>1 DEF CurrentInstanceAgrees
<1> QED
  BY <1>2, MaterialInvariance, PTL

\* persist() releases a response only with the write that leaves the journal
\* at the material whose epoch the response was computed under, however the
\* calls of the instances interleave and whatever write lands in between.
THEOREM AnswersUnderActiveMaterial == Spec => AnswerUnderActiveMaterial
<1>1. Spec => [](IInv /\ MInv)
  BY MaterialInvariance
<1>2. ASSUME IInv, MInv, [Next]_vars
      PROVE  \A i \in Instances :
               (reply[i] # None /\ answers' # answers /\ reply'[i] = None) =>
                  reply[i].bytes.epoch = EpochOf(journal'.material, reply[i].vault)
  <2> SUFFICES ASSUME NEW i \in Instances, reply[i] # None,
                      answers' # answers, reply'[i] = None
               PROVE  reply[i].bytes.epoch
                        = EpochOf(journal'.material, reply[i].vault)
    OBVIOUS
  <2>1. PICK j \in Instances : Step(j)
    BY <1>2 DEF Next, Land, vars
  <2>2. PersistCas(j)
    BY <2>1 DEF Step, Stop, Forget, Create, LoadJournal, LoadMaterial,
         StartCas, ReserveOp, CommitOp, RevealOp, FixOp, RespondOp, CloseOp,
         ReceiveAbortOp, CloseExpiredOp, AddVaultOp, ActivateInnerOp,
         ActivateOuterOp, PersistPut, ReconcileRead, ReconcilePut,
         ReconcileCas, Transition, MaterialTransition
  <2>3. j = i
    BY <1>2, <2>1, StepMoves DEF OnlyMoves
  <2>4. PICK result \in {"Applied", "Conflict", "Error"} :
          /\ CallCas(revision[i], pending[i].next, result)
          /\ answers' = AnswersAfter(i, result)
    BY <2>2, <2>3 DEF PersistCas
  <2>5. result = "Applied"
    BY <2>4 DEF AnswersAfter
  <2>6. pending[i] # None
    BY <1>2, <2>2, <2>3, BeforeStep DEF PersistCas, LeafSound, ControlSound
  <2>7. journal' = pending[i].next
    BY <1>2, <2>4, <2>5, <2>6, PendingCas
  <2>8. MaterialFits(i)
    BY <1>2 DEF MInv
  <2> QED
    BY <2>7, <2>8 DEF MaterialFits
<1> QED
  BY <1>1, <1>2, PTL DEF Spec, AnswerUnderActiveMaterial

-----------------------------------------------------------------------------
(* The material that the journal names *)

Between == {"down", "up"}
CasCalls == {"createCas", "loadCas", "cas", "reconcileCas"}

\* A write that is about to be made names material that is staged, or the
\* material of the record it replaces, which exists once create() is over.
WriteFits(i) ==
    /\ pc[i] \notin {"down", "createCas"} => revision[i] # 0
    /\ pc[i] = "createCas" => pending[i].changed
    /\ pending[i] # None /\ ~pending[i].changed =>
         pending[i].next.material = pending[i].previous.material
    /\ pc[i] \in CasCalls /\ pending[i].changed =>
         pending[i].next.material \in materials

OneAtATime ==
    \A i, j \in Instances : i # j => pc[i] \in Between \/ pc[j] \in Between

\* The state that steps of instances that do not interleave preserve.
EInv ==
    /\ inflight = {}
    /\ JournalMaterialHeld
    /\ \A i \in Instances : WriteFits(i)
    /\ OneAtATime

\* A store call keeps the journal's material, when no write is late and the
\* one that is made names material of the store or of the journal.
LEMMA CasHeld ==
    ASSUME Exclusive, inflight = {}, JournalMaterialHeld,
           NEW expected, NEW next, NEW result,
           CallCas(expected, next, result),
           expected = rev => \/ next.material \in materials
                             \/ rev # 0 /\ next.material = journal.material
    PROVE  inflight' = {} /\ JournalMaterialHeld'
<1>1. CASE CompareExchange(expected, next) /\ UNCHANGED inflight
  <2>1. CASE expected = rev /\ rev < MaxRevision
    <3>1. /\ journal' = next
          /\ materials' = Collect(materials, next, journal.material)
      BY <1>1, <2>1 DEF CompareExchange
    <3>2. next.material \in materials
      BY <2>1 DEF JournalMaterialHeld
    <3>3. next.material \in materials'
      BY <3>1, <3>2 DEF Collect
    <3> QED
      BY <1>1, <3>1, <3>3 DEF JournalMaterialHeld
  <2>2. CASE ~(expected = rev /\ rev < MaxRevision)
    <3>1. /\ journal' = journal /\ rev' = rev
          /\ materials' = Collect(materials, journal, next.material)
      BY <1>1, <2>2 DEF CompareExchange
    <3> QED
      BY <1>1, <3>1 DEF Collect, JournalMaterialHeld
  <2> QED
    BY <2>1, <2>2
<1>2. CASE UNCHANGED store
  BY <1>2 DEF store, JournalMaterialHeld
<1> QED
  BY <1>1, <1>2 DEF CallCas

\* The write of an instance at the end of its operation names such material.
LEMMA PendingHeld ==
    ASSUME IInv, EInv, NEW i \in Instances, pc[i] \in CasCalls,
           revision[i] = rev
    PROVE  \/ pending[i].next.material \in materials
           \/ rev # 0 /\ pending[i].next.material = journal.material
<1>1. WriteFits(i) /\ Agrees(i) /\ ControlSound(i)
  BY DEF EInv, IInv, LeafSound
<1>2. pending[i] # None
  BY <1>1 DEF ControlSound, CasCalls
<1>3. pending[i].previous = journal
  BY <1>1, <1>2 DEF Agrees
<1>4. CASE pending[i].changed
  BY <1>1, <1>4 DEF WriteFits
<1>5. CASE ~pending[i].changed
  <2>1. pc[i] # "createCas" /\ pc[i] # "down"
    BY <1>1, <1>5 DEF WriteFits, CasCalls
  <2>2. revision[i] # 0
    BY <1>1, <2>1 DEF WriteFits
  <2> QED
    BY <1>1, <1>2, <1>3, <1>5, <2>2 DEF WriteFits
<1> QED
  BY <1>4, <1>5

\* It is enough to look at the store and the instance that moves, when the
\* others are between operations or the materials stay.
LEMMA AfterExclusiveStep ==
    ASSUME EInv, NEW i \in Instances, OnlyMoves(i),
           inflight' = {}, JournalMaterialHeld', WriteFits(i)',
           \/ \A j \in Instances \ {i} : pc[j] \in Between
           \/ materials' = materials /\ pc'[i] \in Between
    PROVE  EInv'
<1>1. \A j \in Instances : WriteFits(j)
  BY DEF EInv
<1>2. ASSUME NEW j \in Instances, j # i
      PROVE  WriteFits(j)'
  <2>1. /\ pc'[j] = pc[j] /\ revision'[j] = revision[j] /\ pending'[j] = pending[j]
    BY <1>2 DEF OnlyMoves
  <2> QED
    BY <1>1, <1>2, <2>1 DEF WriteFits, Between, CasCalls
<1>3. OneAtATime'
  BY DEF OneAtATime, EInv, OnlyMoves
<1> QED
  BY <1>2, <1>3 DEF EInv

\* put_material() loses nothing.
LEMMA PutHeld ==
    ASSUME EInv, NEW m, NEW result, CallPut(m, result)
    PROVE  /\ inflight' = {} /\ JournalMaterialHeld'
           /\ result # "Error" => m \in materials'
BY DEF EInv, CallPut, JournalMaterialHeld

\* A step without a store call loses nothing either.
LEMMA StoreHeld ==
    ASSUME EInv, UNCHANGED store
    PROVE  inflight' = {} /\ JournalMaterialHeld' /\ materials' = materials
BY DEF EInv, store, JournalMaterialHeld

\* Nor does the write of an instance, and an applied one counts a revision.
LEMMA WriteHeld ==
    ASSUME Exclusive, IInv, EInv, NEW i \in Instances, pc[i] \in CasCalls,
           NEW result, CallCas(revision[i], pending[i].next, result)
    PROVE  /\ inflight' = {} /\ JournalMaterialHeld'
           /\ result = "Applied" => rev' # 0
<1>1. inflight = {} /\ JournalMaterialHeld
  BY DEF EInv
<1>2. inflight' = {} /\ JournalMaterialHeld'
  BY <1>1, PendingHeld, CasHeld
<1>3. result = "Applied" => rev' = rev + 1
  BY DEF CallCas, CasResult, CompareExchange
<1>4. rev \in Nat
  BY BeforeStep DEF StoreBefore
<1> QED
  BY <1>2, <1>3, <1>4

\* The instance that moves: starting and loading.
LEMMA StartWrites ==
    ASSUME Exclusive, IInv, EInv, NEW i \in Instances,
           \/ Stop(i) \/ Create(i) \/ LoadJournal(i) \/ LoadMaterial(i)
           \/ StartCas(i)
    PROVE  inflight' = {} /\ JournalMaterialHeld' /\ WriteFits(i)'
<1>1. LeafTypes /\ StoreBefore /\ WriteFits(i) /\ ControlSound(i)
  BY BeforeStep DEF EInv, LeafSound
<1>2. ASSUME Forget(i) PROVE WriteFits(i)'
  <2>1. pc'[i] = "down" /\ pending'[i] = None
    BY <1>1, <1>2 DEF Forget, LeafTypes
  <2> QED
    BY <2>1 DEF WriteFits, CasCalls
<1>3. CASE Stop(i)
  BY <1>2, <1>3, StoreHeld DEF Stop
<1>4. CASE Create(i)
  <2>1. PICK result \in {"Ok", "Error"} :
          /\ CallPut(Genesis0, result)
          /\ IF result = "Error" THEN UNCHANGED <<pc, leaf>>
             ELSE /\ BeginWrite(i, NoJournal,
                          JournalOf(Genesis0, NewRegistry(Genesis0)),
                          TRUE, "createCas")
                  /\ UNCHANGED revision
    BY <1>4 DEF Create
  <2>2. /\ inflight' = {} /\ JournalMaterialHeld'
        /\ result # "Error" => Genesis0 \in materials'
    BY <2>1, PutHeld
  <2>3. CASE result = "Error"
    <3>1. pc'[i] = "down" /\ pending'[i] = pending[i]
      BY <1>4, <2>1, <2>3 DEF Create, leaf
    <3> QED
      BY <1>1, <2>2, <3>1 DEF WriteFits, CasCalls
  <2>4. CASE result # "Error"
    <3> DEFINE next == JournalOf(Genesis0, NewRegistry(Genesis0))
               write == [previous |-> NoJournal, next |-> next, changed |-> TRUE]
    <3>1. next.material = Genesis0
      BY DEF JournalOf
    <3>2. write.next = next /\ write.changed
      OBVIOUS
    <3>3. pending' = [pending EXCEPT ![i] = write] /\ pc' = [pc EXCEPT ![i] = "createCas"]
      BY <2>1, <2>4 DEF BeginWrite
    <3> HIDE DEF write, next
    <3>4. pc'[i] = "createCas" /\ pending'[i].next = next /\ pending'[i].changed
      BY <1>1, <3>2, <3>3 DEF LeafTypes
    <3> QED
      BY <2>2, <2>4, <3>1, <3>4 DEF WriteFits
  <2> QED
    BY <2>3, <2>4
<1>5. CASE LoadJournal(i)
  <2> DEFINE next == [journal EXCEPT !.live = None]
             write == [previous |-> journal, next |-> next, changed |-> FALSE]
  <2>1. next.material = journal.material
    BY <1>1 DEF StoreBefore, Journal
  <2>2. write.next = next /\ write.previous = journal
    OBVIOUS
  <2>3. /\ pending' = [pending EXCEPT ![i] = write]
        /\ pc' = [pc EXCEPT ![i] = "loadMaterial"]
        /\ revision' = [revision EXCEPT ![i] = rev]
        /\ rev # 0 /\ UNCHANGED store
    BY <1>5 DEF LoadJournal, BeginWrite
  <2> HIDE DEF write, next
  <2>4. /\ pc'[i] = "loadMaterial" /\ revision'[i] = rev
        /\ pending'[i].next = next /\ pending'[i].previous = journal
    BY <1>1, <2>2, <2>3 DEF LeafTypes
  <2>5. WriteFits(i)'
    BY <2>1, <2>3, <2>4 DEF WriteFits, CasCalls
  <2> QED
    BY <2>3, <2>5, StoreHeld
<1>6. CASE LoadMaterial(i)
  <2>1. pc[i] = "loadMaterial" /\ UNCHANGED store
    BY <1>6 DEF LoadMaterial
  <2>2. inflight' = {} /\ JournalMaterialHeld' /\ materials' = materials
    BY <2>1, StoreHeld
  <2>3. CASE /\ pending[i].previous.material \in materials
             /\ UNCHANGED revision
             /\ \/ /\ pc' = [pc EXCEPT ![i] = "up"]
                   /\ pending' = [pending EXCEPT ![i] = None]
                \/ /\ pc' = [pc EXCEPT ![i] = "loadCas"]
                   /\ UNCHANGED pending
    <3>1. revision'[i] # 0
      BY <1>1, <2>1, <2>3 DEF WriteFits
    <3>2. \/ pc'[i] = "up" /\ pending'[i] = None
          \/ pc'[i] = "loadCas" /\ pending'[i] = pending[i]
      BY <1>1, <2>3 DEF LeafTypes
    <3>3. pending[i].next.material = pending[i].previous.material
      <4>1. /\ pending[i] # None
            /\ pending[i].next = [pending[i].previous EXCEPT !.live = None]
        BY <1>1, <2>1 DEF ControlSound
      <4>2. pending[i].previous \in Journal
        BY <1>1, <4>1 DEF LeafTypes, PendingWrite
      <4> QED
        BY <4>1, <4>2 DEF Journal
    <3>4. WriteFits(i)'
      BY <2>2, <2>3, <3>1, <3>2, <3>3 DEF WriteFits, CasCalls
    <3> QED
      BY <2>2, <3>4
  <2> QED
    BY <1>2, <1>6, <2>2, <2>3 DEF LoadMaterial
<1>7. CASE StartCas(i)
  <2>1. pc[i] \in CasCalls
    BY <1>7 DEF StartCas, CasCalls
  <2>2. PICK result \in {"Applied", "Conflict", "Error"} :
          /\ CallCas(revision[i], pending[i].next, result)
          /\ IF result = "Applied"
             THEN /\ FinishWrite(i, rev')
                  /\ pc' = [pc EXCEPT ![i] = "up"]
             ELSE Forget(i)
    BY <1>7 DEF StartCas
  <2>3. /\ inflight' = {} /\ JournalMaterialHeld'
        /\ result = "Applied" => rev' # 0
    BY <2>1, <2>2, WriteHeld
  <2>4. CASE result = "Applied"
    <3>1. pc'[i] = "up" /\ revision'[i] = rev' /\ pending'[i] = None
      BY <1>1, <2>2, <2>4 DEF FinishWrite, LeafTypes
    <3> QED
      BY <2>3, <2>4, <3>1 DEF WriteFits, CasCalls
  <2> QED
    BY <1>2, <2>2, <2>3, <2>4
<1> QED
  BY <1>3, <1>4, <1>5, <1>6, <1>7

\* The instance that moves: an operation of its caller.
LEMMA OperationWrites ==
    ASSUME IInv, EInv, NEW i \in Instances, Ready(i), NEW result,
           Transition(i, result) \/ MaterialTransition(i, result)
    PROVE  inflight' = {} /\ JournalMaterialHeld' /\ WriteFits(i)'
<1>1. /\ LeafTypes /\ WriteFits(i)
      /\ pc[i] = "up" /\ pending[i] = None
  BY BeforeStep DEF EInv, Ready
<1>2. UNCHANGED <<store, revision>>
  BY DEF Transition, MaterialTransition
<1>3. inflight' = {} /\ JournalMaterialHeld'
  BY <1>2, StoreHeld
<1>4. revision'[i] # 0
  BY <1>1, <1>2 DEF WriteFits
<1>5. ASSUME NEW r, Transition(i, r) PROVE WriteFits(i)'
  <2> DEFINE previous == JournalOf(material[i], registry[i])
             next == JournalOf(material[i], r.reg)
             write == [previous |-> previous, next |-> next, changed |-> FALSE]
  <2>1. next.material = previous.material
    BY DEF JournalOf
  <2>2. write.next = next /\ write.previous = previous /\ ~write.changed
    OBVIOUS
  <2>3. \/ /\ pending' = [pending EXCEPT ![i] = write]
           /\ pc' = [pc EXCEPT ![i] = "cas"]
        \/ UNCHANGED <<pc, pending>>
    BY <1>5 DEF Transition, BeginWrite
  <2> HIDE DEF write, next, previous
  <2>4. CASE UNCHANGED <<pc, pending>>
    BY <1>1, <1>4, <2>4 DEF WriteFits, CasCalls
  <2>5. CASE /\ pending' = [pending EXCEPT ![i] = write]
             /\ pc' = [pc EXCEPT ![i] = "cas"]
    <3>1. pending'[i] = write /\ pc'[i] = "cas"
      BY <1>1, <2>5 DEF LeafTypes
    <3> QED
      BY <1>4, <2>1, <2>2, <3>1 DEF WriteFits
  <2> QED
    BY <2>3, <2>4, <2>5
<1>6. ASSUME NEW previous, NEW next, BeginWrite(i, previous, next, TRUE, "put")
      PROVE  WriteFits(i)'
  <2> DEFINE write == [previous |-> previous, next |-> next, changed |-> TRUE]
  <2>1. write.changed
    OBVIOUS
  <2>2. /\ pending' = [pending EXCEPT ![i] = write]
        /\ pc' = [pc EXCEPT ![i] = "put"]
    BY <1>6 DEF BeginWrite
  <2> HIDE DEF write
  <2>3. pending'[i] = write /\ pc'[i] = "put"
    BY <1>1, <2>2 DEF LeafTypes
  <2> QED
    BY <1>4, <2>1, <2>3 DEF WriteFits, CasCalls
<1>7. ASSUME UNCHANGED <<pc, pending>> PROVE WriteFits(i)'
  BY <1>1, <1>4, <1>7 DEF WriteFits, CasCalls
<1>8. WriteFits(i)'
  BY <1>5, <1>6, <1>7 DEF MaterialTransition
<1> QED
  BY <1>3, <1>8

\* The instance that moves: persisting and reconciling.
LEMMA PersistWrites ==
    ASSUME Exclusive, IInv, EInv, NEW i \in Instances,
           \/ PersistPut(i) \/ PersistCas(i)
           \/ ReconcileRead(i) \/ ReconcilePut(i) \/ ReconcileCas(i)
    PROVE  inflight' = {} /\ JournalMaterialHeld' /\ WriteFits(i)'
<1>1. LeafTypes /\ WriteFits(i) /\ ControlSound(i)
  BY BeforeStep DEF EInv, LeafSound
<1>2. CASE PersistPut(i) \/ ReconcilePut(i)
  <2>1. PICK result \in {"Ok", "Error"}, call \in {"cas", "reconcileCas"} :
          /\ CallPut(pending[i].next.material, result)
          /\ pc' = [pc EXCEPT ![i] = IF result = "Ok" THEN call ELSE "up"]
    <3>1. CASE PersistPut(i)
      BY <3>1 DEF PersistPut
    <3>2. CASE ReconcilePut(i)
      BY <3>2 DEF ReconcilePut
    <3> QED
      BY <1>2, <3>1, <3>2
  <2>2. /\ pc[i] \notin {"down", "createCas"}
        /\ revision'[i] = revision[i] /\ pending'[i] = pending[i]
    BY <1>2 DEF PersistPut, ReconcilePut, leaf
  <2>3. /\ inflight' = {} /\ JournalMaterialHeld'
        /\ result # "Error" => pending[i].next.material \in materials'
    BY <2>1, PutHeld
  <2>4. \/ pc'[i] \in {"cas", "reconcileCas"} /\ result = "Ok"
        \/ pc'[i] = "up"
    BY <1>1, <2>1 DEF LeafTypes
  <2>5. WriteFits(i)'
    BY <1>1, <2>2, <2>3, <2>4 DEF WriteFits, CasCalls
  <2> QED
    BY <2>3, <2>5
<1>3. CASE PersistCas(i) \/ ReconcileCas(i)
  <2>1. pc[i] \in CasCalls /\ pc[i] \notin {"down", "createCas"}
    BY <1>3 DEF PersistCas, ReconcileCas, CasCalls
  <2>2. PICK result \in {"Applied", "Conflict", "Error"} :
          /\ CallCas(revision[i], pending[i].next, result)
          /\ IF result = "Applied" THEN FinishWrite(i, rev')
             ELSE UNCHANGED leaf
    BY <1>3 DEF PersistCas, ReconcileCas
  <2>3. /\ inflight' = {} /\ JournalMaterialHeld'
        /\ result = "Applied" => rev' # 0
    BY <2>1, <2>2, WriteHeld
  <2>4. pc'[i] = "up"
    BY <1>1, <1>3 DEF PersistCas, ReconcileCas, LeafTypes
  <2>5. CASE result = "Applied"
    <3>1. revision'[i] = rev' /\ pending'[i] = None
      BY <1>1, <2>2, <2>5 DEF FinishWrite, LeafTypes
    <3> QED
      BY <2>3, <2>4, <2>5, <3>1 DEF WriteFits, CasCalls
  <2>6. CASE result # "Applied"
    <3>1. revision'[i] = revision[i] /\ pending'[i] = pending[i]
      BY <2>2, <2>6 DEF leaf
    <3> QED
      BY <1>1, <2>1, <2>3, <2>4, <3>1 DEF WriteFits, CasCalls
  <2> QED
    BY <2>5, <2>6
<1>4. CASE ReconcileRead(i)
  <2>1. pc[i] = "up" /\ pending[i] # None /\ UNCHANGED store
    BY <1>4 DEF ReconcileRead
  <2>2. inflight' = {} /\ JournalMaterialHeld'
    BY <2>1, StoreHeld
  <2>3. \/ rev # 0 /\ FinishWrite(i, rev) /\ UNCHANGED pc
        \/ Invalidate(i) /\ UNCHANGED pc
        \/ /\ pc' = [pc EXCEPT ![i] = IF pending[i].changed
                                      THEN "reconcilePut"
                                      ELSE "reconcileCas"]
           /\ UNCHANGED leaf
    BY <1>4 DEF ReconcileRead
  <2>4. CASE rev # 0 /\ FinishWrite(i, rev) /\ UNCHANGED pc
    <3>1. revision'[i] = rev /\ pending'[i] = None /\ pc'[i] = "up"
      BY <1>1, <2>1, <2>4 DEF FinishWrite, LeafTypes
    <3> QED
      BY <2>2, <2>4, <3>1 DEF WriteFits, CasCalls
  <2>5. CASE Invalidate(i) /\ UNCHANGED pc
    <3>1. revision'[i] = revision[i] /\ pending'[i] = None /\ pc'[i] = "up"
      BY <1>1, <2>1, <2>5 DEF Invalidate, LeafTypes
    <3> QED
      BY <1>1, <2>1, <2>2, <3>1 DEF WriteFits, CasCalls
  <2>6. CASE /\ pc' = [pc EXCEPT ![i] = IF pending[i].changed
                                        THEN "reconcilePut"
                                        ELSE "reconcileCas"]
             /\ UNCHANGED leaf
    <3>1. /\ revision'[i] = revision[i] /\ pending'[i] = pending[i]
          /\ pc'[i] = IF pending[i].changed THEN "reconcilePut"
                      ELSE "reconcileCas"
      BY <1>1, <2>6 DEF leaf, LeafTypes
    <3> QED
      BY <1>1, <2>1, <2>2, <3>1 DEF WriteFits, CasCalls
  <2> QED
    BY <2>3, <2>4, <2>5, <2>6
<1> QED
  BY <1>2, <1>3, <1>4

LEMMA NextEInv == ASSUME Exclusive, IInv, EInv, [Next]_vars PROVE EInv'
<1>1. CASE UNCHANGED vars
  BY <1>1 DEF vars, store, leaf, EInv, JournalMaterialHeld, WriteFits, OneAtATime
<1>2. CASE Land
  BY <1>2 DEF Land, EInv
<1>3. ASSUME NEW i \in Instances, Step(i)
      PROVE  EInv'
  <2>1. OnlyMoves(i)
    BY <1>3, StepMoves
  <2>2. CASE Stop(i)
    <3>1. inflight' = {} /\ JournalMaterialHeld' /\ WriteFits(i)'
      BY <2>2, StartWrites
    <3>2. materials' = materials /\ pc'[i] \in Between
      BY <2>2, BeforeStep DEF Stop, Forget, store, Between, LeafTypes
    <3> QED
      BY <2>1, <3>1, <3>2, AfterExclusiveStep
  <2>3. CASE ~Stop(i)
    <3>1. \A j \in Instances \ {i} : pc[j] \in Between
      <4>1. Turn(i)
        BY <1>3, <2>3
           DEF Step, Create, LoadJournal, LoadMaterial, StartCas, ReserveOp,
               CommitOp, RevealOp, FixOp, RespondOp, CloseOp, ReceiveAbortOp,
               CloseExpiredOp, AddVaultOp, ActivateInnerOp, ActivateOuterOp,
               PersistPut, PersistCas, ReconcileRead, ReconcilePut,
               ReconcileCas, Ready
      <4> QED
        BY <4>1 DEF Turn, Between
    <3>2. inflight' = {} /\ JournalMaterialHeld' /\ WriteFits(i)'
      <4>1. CASE \/ ReserveOp(i) \/ CommitOp(i) \/ RevealOp(i) \/ FixOp(i)
                 \/ CloseOp(i) \/ ReceiveAbortOp(i) \/ CloseExpiredOp(i)
        <5>1. Ready(i) /\ \E result : Transition(i, result)
          BY <4>1, OperationShape
        <5> QED
          BY <5>1, OperationWrites
      <4>2. CASE RespondOp(i)
        <5>1. Ready(i) /\ \E result : Transition(i, result)
          BY <4>2 DEF RespondOp
        <5> QED
          BY <5>1, OperationWrites
      <4>3. CASE AddVaultOp(i) \/ ActivateInnerOp(i) \/ ActivateOuterOp(i)
        <5>1. Ready(i) /\ \E result : MaterialTransition(i, result)
          BY <4>3, MaterialShape
        <5> QED
          BY <5>1, OperationWrites
      <4> QED
        BY <1>3, <4>1, <4>2, <4>3, StartWrites, PersistWrites DEF Step
    <3> QED
      BY <2>1, <3>1, <3>2, AfterExclusiveStep
  <2> QED
    BY <2>2, <2>3
<1> QED
  BY <1>1, <1>2, <1>3 DEF Next

\* While the instances take turns, as the &mut borrow of PersistentLeaf makes
\* them, put_material() before compare_exchange_journal() and the collection
\* after it never leave the journal without its material, whatever call
\* fails and wherever an instance stops: load() finds what it needs.
THEOREM MaterialHeld ==
    ASSUME Exclusive
    PROVE  Spec => []JournalMaterialHeld
<1>1. Init => EInv
  BY DEF Init, EInv, JournalMaterialHeld, WriteFits, OneAtATime, CasCalls, Between
<1>2. IInv /\ EInv /\ [Next]_vars => EInv'
  BY NextEInv
<1>3. EInv => JournalMaterialHeld
  BY DEF EInv
<1> QED
  BY <1>1, <1>2, <1>3, Invariance, PTL DEF Spec

=============================================================================
