--------------------------- MODULE PersistentLeaf ---------------------------
(***************************************************************************)
(* Process instances of one device above one LeafStore                     *)
(* (src/src/leaf/store/persistent.rs over MemoryLeafStore of               *)
(* src/src/leaf/store.rs). Each instance keeps a volatile registry; the    *)
(* journal, one compare-and-set record, decides between them. Every store  *)
(* call is a step of its own, instances stop at any point, and a store     *)
(* call may fail before it acts, after it has acted, or while its write is *)
(* still on the way.                                                       *)
(***************************************************************************)
EXTENDS Leaf

CONSTANTS
    Instances,      \* process instances that may hold a PersistentLeaf
    Exclusive,      \* TRUE: an operation holds the store for all its calls,
                    \* as the &mut borrow does within one process; FALSE:
                    \* calls of different instances interleave, and a write
                    \* that failed may take effect later
    MaxRevision,    \* the largest journal revision, u64::MAX
    Genesis0,       \* the key material the device is created with
    Reservations,   \* the reservations a caller may present
    Times,          \* the clock readings a caller may pass
    Geneses,        \* vaults a caller may try to add
    Bundles,        \* inner bundles a caller may try to activate
    OuterBlocks     \* outer blocks a caller may try to activate

VARIABLES
    journal,    \* the stored journal record of the device
    rev,        \* its revision; 0 when the device has no journal
    materials,  \* the material records the store holds
    inflight,   \* failed journal writes that may still take effect
    pc,         \* where each instance is within an operation
    registry,   \* the in-memory registry of an instance, or None
    material,   \* the material an instance last saw in the journal
    revision,   \* the revision an instance last saw
    pending,    \* the journal write an instance has begun, or None
    reply,      \* the closed attempt whose response awaits the write, or None
    answers     \* the number of responses released for each attempt

store == <<journal, rev, materials, inflight>>
leaf == <<registry, material, revision, pending>>
vars == <<store, pc, leaf, reply, answers>>

Attempts == 0 .. MaxSequence

\* LeafJournal. Material is addressed by its hash, so its content is its name.
Journal == [material : Material \cup {None}, next : Nat,
            live : Nat \cup {None}]

NoJournal == [material |-> None, next |-> 0, live |-> None]

\* from_registry(): the journal record of a registry over a material.
JournalOf(m, reg) ==
    [material |-> m, next |-> reg.next, live |-> LiveAttempt(reg)]

PendingWrite == [previous : Journal, next : Journal, changed : BOOLEAN]

ASSUME PersistentLeafAssumption ==
    /\ Exclusive \in BOOLEAN
    /\ MaxRevision \in Nat
    /\ None \notin PendingWrite
    /\ Genesis0 \in Material
    /\ Reservations \subseteq Reservation
    /\ Geneses \subseteq Genesis
    /\ \A bundle \in Bundles : IsInnerBundle(bundle)
    /\ OuterBlocks \subseteq OuterBlock
    /\ Times \subseteq Nat

\* down: not running. up: between operations. The others name the store
\* call that create, load, a transition or reconcile makes next.
Control == {"down", "createCas", "loadMaterial", "loadCas", "up",
            "put", "cas", "reconcilePut", "reconcileCas"}

TypeOK ==
    /\ journal \in Journal
    /\ rev \in Nat
    /\ materials \subseteq Material
    /\ inflight \subseteq [expected : Nat, next : Journal]
    /\ pc \in [Instances -> Control]
    /\ registry \in [Instances -> Registry \cup {None}]
    /\ material \in [Instances -> Material \cup {None}]
    /\ revision \in [Instances -> Nat]
    /\ pending \in [Instances -> PendingWrite \cup {None}]
    /\ reply \in [Instances -> Live \cup {None}]
    /\ answers \in [Attempts -> Nat]

Init ==
    /\ journal = NoJournal
    /\ rev = 0
    /\ materials = {}
    /\ inflight = {}
    /\ pc = [i \in Instances |-> "down"]
    /\ registry = [i \in Instances |-> None]
    /\ material = [i \in Instances |-> None]
    /\ revision = [i \in Instances |-> 0]
    /\ pending = [i \in Instances |-> None]
    /\ reply = [i \in Instances |-> None]
    /\ answers = [a \in Attempts |-> 0]

-----------------------------------------------------------------------------
(* The store *)

\* Slip: collection does not look at the journal.
Collect_Always(held, current, m) == held \ {m}

\* collect_material(): drops a material the journal does not name.
Collect(held, current, m) ==
    IF current.material = m THEN held ELSE held \ {m}

\* Slip: the write does not compare revisions.
CompareExchange_Blind(expected, next) ==
    /\ rev < MaxRevision
    /\ journal' = next
    /\ rev' = rev + 1
    /\ materials' = Collect(materials, next, journal.material)

\* compare_exchange_journal() of MemoryLeafStore: an applied write collects
\* the material it replaces, a refused one the material it would have named.
CompareExchange(expected, next) ==
    IF expected = rev /\ rev < MaxRevision
    THEN /\ journal' = next
         /\ rev' = rev + 1
         /\ materials' = Collect(materials, next, journal.material)
    ELSE /\ materials' = Collect(materials, journal, next.material)
         /\ UNCHANGED <<journal, rev>>

\* Slip: a refused write is reported as applied.
CasResult_NeverConflict(expected) ==
    IF rev < MaxRevision THEN "Applied" ELSE "Error"

\* The answer compare_exchange_journal() gives when it gives one.
CasResult(expected) ==
    IF expected # rev THEN "Conflict"
    ELSE IF rev < MaxRevision THEN "Applied" ELSE "Error"

\* A journal write as its caller sees it: an error says nothing about it.
CallCas(expected, next, result) ==
    \/ /\ CompareExchange(expected, next)
       /\ result \in {CasResult(expected), "Error"}
       /\ UNCHANGED inflight
    \/ /\ result = "Error"
       /\ UNCHANGED store
    \/ /\ ~Exclusive
       /\ result = "Error"
       /\ inflight' = inflight \cup {[expected |-> expected, next |-> next]}
       /\ UNCHANGED <<journal, rev, materials>>

\* A failed write takes effect after all.
Land ==
    \E w \in inflight :
        /\ CompareExchange(w.expected, w.next)
        /\ inflight' = inflight \ {w}
        /\ UNCHANGED <<pc, leaf, reply, answers>>

\* put_material(): idempotent, and an error says nothing about it either.
CallPut(m, result) ==
    /\ \/ materials' = materials \cup {m}
       \/ result = "Error" /\ UNCHANGED materials
    /\ UNCHANGED <<journal, rev, inflight>>

\* The instance may make its next store call.
Turn(i) ==
    Exclusive => \A j \in Instances \ {i} : pc[j] \in {"down", "up"}

-----------------------------------------------------------------------------
(* Starting and stopping *)

\* The leaf an instance holds when it holds none.
Forget(i) ==
    /\ pc' = [pc EXCEPT ![i] = "down"]
    /\ registry' = [registry EXCEPT ![i] = None]
    /\ material' = [material EXCEPT ![i] = None]
    /\ revision' = [revision EXCEPT ![i] = 0]
    /\ pending' = [pending EXCEPT ![i] = None]
    /\ reply' = [reply EXCEPT ![i] = None]
    /\ UNCHANGED answers

\* The process stops, or its caller drops the leaf.
Stop(i) ==
    /\ pc[i] # "down"
    /\ Forget(i)
    /\ UNCHANGED store

\* finish_write(): the journal holds the pending record at revision r.
FinishWrite(i, r) ==
    /\ material' = [material EXCEPT ![i] = pending[i].next.material]
    /\ revision' = [revision EXCEPT ![i] = r]
    /\ pending' = [pending EXCEPT ![i] = None]
    /\ UNCHANGED registry

\* The write that an operation has computed and its first store call.
BeginWrite(i, previous, next, changed, call) ==
    /\ pending' = [pending EXCEPT ![i] =
            [previous |-> previous, next |-> next, changed |-> changed]]
    /\ pc' = [pc EXCEPT ![i] = call]

\* create(), up to the first put_material().
Create(i) ==
    /\ pc[i] = "down"
    /\ Turn(i)
    /\ \E result \in {"Ok", "Error"} :
        /\ CallPut(Genesis0, result)
        /\ IF result = "Error" THEN UNCHANGED <<pc, leaf>>
           ELSE /\ registry' = [registry EXCEPT ![i] = NewRegistry(Genesis0)]
                /\ material' = [material EXCEPT ![i] = Genesis0]
                /\ BeginWrite(i, NoJournal,
                        JournalOf(Genesis0, NewRegistry(Genesis0)),
                        TRUE, "createCas")
                /\ UNCHANGED revision
    /\ UNCHANGED <<reply, answers>>

\* load(), up to get_journal(). The record read stays in pending, where the
\* recovery write will need it.
LoadJournal(i) ==
    /\ pc[i] = "down"
    /\ Turn(i)
    /\ rev # 0
    /\ material' = [material EXCEPT ![i] = journal.material]
    /\ revision' = [revision EXCEPT ![i] = rev]
    /\ BeginWrite(i, journal, [journal EXCEPT !.live = None], FALSE,
                  "loadMaterial")
    /\ UNCHANGED <<store, registry, reply, answers>>

\* Slip: the attempt counter is not restored.
Restored_FromZero(record) == NewRegistry(record.material)

\* The registry restarts idle from a record's material and counter.
Restored(record) ==
    [material |-> record.material, live |-> None, next |-> record.next]

\* load(), get_material() and the registry built from it. A record without a live attempt needs no recovery.
LoadMaterial(i) ==
    LET record == pending[i].previous IN
    /\ pc[i] = "loadMaterial"
    /\ Turn(i)
    /\ \/ /\ record.material \in materials
          /\ registry' = [registry EXCEPT ![i] = Restored(record)]
          /\ IF record.live = None
             THEN /\ pc' = [pc EXCEPT ![i] = "up"]
                  /\ pending' = [pending EXCEPT ![i] = None]
             ELSE /\ pc' = [pc EXCEPT ![i] = "loadCas"]
                  /\ UNCHANGED pending
          /\ UNCHANGED <<material, revision, reply, answers>>
       \/ Forget(i)     \* MissingMaterial, or a store error
    /\ UNCHANGED store

\* create() and load(): the journal write that completes them.
StartCas(i) ==
    /\ pc[i] \in {"createCas", "loadCas"}
    /\ Turn(i)
    /\ \E result \in {"Applied", "Conflict", "Error"} :
        /\ CallCas(revision[i], pending[i].next, result)
        /\ IF result = "Applied"
           THEN /\ FinishWrite(i, rev')
                /\ pc' = [pc EXCEPT ![i] = "up"]
                /\ UNCHANGED <<reply, answers>>
           ELSE Forget(i)

-----------------------------------------------------------------------------
(* Transitions *)

\* ready_registry(): nothing pending, and the registry not invalidated.
Ready(i) ==
    /\ pc[i] = "up"
    /\ pending[i] = None
    /\ registry[i] # None
    /\ Turn(i)

\* transition(): run the operation; a changed journal must be written
\* before the caller gets the result.
Transition(i, result) ==
    LET previous == JournalOf(material[i], registry[i])
        next == JournalOf(material[i], result.reg)
    IN
    /\ registry' = [registry EXCEPT ![i] = result.reg]
    /\ IF next # previous THEN BeginWrite(i, previous, next, FALSE, "cas")
       ELSE UNCHANGED <<pc, pending>>
    /\ UNCHANGED <<store, material, revision, answers>>

\* encode_material(): a registry with a live attempt has no material record.
Encodable(reg) == reg.live = None

\* Slip: a leaf whose new material cannot be encoded stays in service.
MaterialTransition_StaysUp(i, result) ==
    /\ IF result.out # "Ok" \/ ~Encodable(result.reg) THEN Transition(i, result)
       ELSE /\ registry' = [registry EXCEPT ![i] = result.reg]
            /\ BeginWrite(i, JournalOf(material[i], registry[i]),
                          JournalOf(result.reg.material, result.reg),
                          TRUE, "put")
            /\ UNCHANGED <<store, material, revision, answers>>
    /\ UNCHANGED reply

\* material_transition(): a successful operation also writes new material;
\* if that cannot be encoded, the leaf is invalidated. A refused operation
\* changes nothing.
MaterialTransition(i, result) ==
    /\ IF result.out # "Ok" THEN Transition(i, result)
       ELSE IF ~Encodable(result.reg)
       THEN /\ registry' = [registry EXCEPT ![i] = None]
            /\ UNCHANGED <<store, pc, material, revision, pending, answers>>
       ELSE /\ registry' = [registry EXCEPT ![i] = result.reg]
            /\ BeginWrite(i, JournalOf(material[i], registry[i]),
                          JournalOf(result.reg.material, result.reg),
                          TRUE, "put")
            /\ UNCHANGED <<store, material, revision, answers>>
    /\ UNCHANGED reply

Views ==
    [receiver : Attempts, session : Sessions, bytes : Reservations,
     own : Nonces, siblings : Siblings] \cup {None}

Packages ==
    [binding : Binding, bytes : Reservations,
     own : Nonces, siblings : Siblings]

Aborts ==
    [receiver : Attempts \cup {Foreign}, session : Sessions,
     bytes : Reservations, member : BOOLEAN]

ReserveOp(i) ==
    /\ Ready(i)
    /\ \E s \in Sessions, now \in Times, bytes \in Reservations, b \in Binding :
        Transition(i, Reserve(registry[i], s, now, bytes, b))
    /\ UNCHANGED reply

CommitOp(i) ==
    /\ Ready(i)
    /\ \E a \in Attempts, bytes \in Reservations, n \in Nonces :
        Transition(i, Commit(registry[i], a, bytes, n))
    /\ UNCHANGED reply

RevealOp(i) ==
    /\ Ready(i)
    /\ \E a \in Attempts, view \in Views :
        Transition(i, Reveal(registry[i], a, view))
    /\ UNCHANGED reply

FixOp(i) ==
    /\ Ready(i)
    /\ \E a \in Attempts, view \in Views :
        Transition(i, Fix(registry[i], a, view))
    /\ UNCHANGED reply

\* respond() and respond_taproot(): the response is computed, the nonce gone,
\* and the journal still says live.
RespondOp(i) ==
    /\ Ready(i)
    /\ \E a \in Attempts, package \in Packages :
        LET result == Respond(registry[i], a, package) IN
        /\ Transition(i, result)
        /\ reply' = IF result.out = "Ok"
                    THEN [reply EXCEPT ![i] = registry[i].live] ELSE reply

CloseOp(i) ==
    /\ Ready(i)
    /\ \E a \in Attempts : Transition(i, Close(registry[i], a))
    /\ UNCHANGED reply

ReceiveAbortOp(i) ==
    /\ Ready(i)
    /\ \E abort \in Aborts : Transition(i, ReceiveAbort(registry[i], abort))
    /\ UNCHANGED reply

CloseExpiredOp(i) ==
    /\ Ready(i)
    /\ \E now \in Times : Transition(i, CloseExpired(registry[i], now))
    /\ UNCHANGED reply

AddVaultOp(i) ==
    /\ Ready(i)
    /\ \E genesis \in Geneses :
        MaterialTransition(i, AddVault(registry[i], genesis))

ActivateInnerOp(i) ==
    /\ Ready(i)
    /\ \E bundle \in Bundles :
        MaterialTransition(i, ActivateInnerBundle(registry[i], bundle))

ActivateOuterOp(i) ==
    /\ Ready(i)
    /\ \E block \in OuterBlocks :
        MaterialTransition(i, ActivateOuter(registry[i], block))

\* persist(), put_material(): an error leaves the write pending.
PersistPut(i) ==
    /\ pc[i] = "put"
    /\ Turn(i)
    /\ \E result \in {"Ok", "Error"} :
        /\ CallPut(pending[i].next.material, result)
        /\ pc' = [pc EXCEPT ![i] = IF result = "Ok" THEN "cas" ELSE "up"]
    /\ UNCHANGED <<leaf, reply, answers>>

\* Slip: the response is released although the write may be lost.
AnswersAfter_AnyError(i, result) ==
    IF result # "Conflict" /\ reply[i] # None
    THEN [answers EXCEPT ![reply[i].attempt] = @ + 1] ELSE answers

\* Only an applied write releases the response.
AnswersAfter(i, result) ==
    IF result = "Applied" /\ reply[i] # None
    THEN [answers EXCEPT ![reply[i].attempt] = @ + 1] ELSE answers

\* persist(), compare_exchange_journal(): any answer but Applied leaves the
\* write pending, and the response is gone.
PersistCas(i) ==
    /\ pc[i] = "cas"
    /\ Turn(i)
    /\ \E result \in {"Applied", "Conflict", "Error"} :
        /\ CallCas(revision[i], pending[i].next, result)
        /\ IF result = "Applied" THEN FinishWrite(i, rev')
           ELSE UNCHANGED leaf
        /\ answers' = AnswersAfter(i, result)
    /\ pc' = [pc EXCEPT ![i] = "up"]
    /\ reply' = [reply EXCEPT ![i] = None]

-----------------------------------------------------------------------------
(* Reconciliation *)

\* Slip: the pending write is left behind.
Invalidate_KeepsPending(i) ==
    /\ registry' = [registry EXCEPT ![i] = None]
    /\ UNCHANGED <<material, revision, pending>>

\* invalidate(): the leaf can only be dropped.
Invalidate(i) ==
    /\ registry' = [registry EXCEPT ![i] = None]
    /\ pending' = [pending EXCEPT ![i] = None]
    /\ UNCHANGED <<material, revision>>

\* reconcile(), get_journal(): the write is found done, found overtaken, or
\* found undone and made again. A store error changes nothing.
ReconcileRead(i) ==
    /\ pc[i] = "up"
    /\ pending[i] # None
    /\ Turn(i)
    /\ IF rev # 0 /\ journal = pending[i].next
       THEN FinishWrite(i, rev) /\ UNCHANGED pc
       ELSE IF \/ rev = 0
               \/ rev # revision[i]
               \/ journal # pending[i].previous
       THEN Invalidate(i) /\ UNCHANGED pc
       ELSE IF pending[i].changed /\ registry[i].material
                                        # pending[i].next.material
       THEN Invalidate(i) /\ UNCHANGED pc
       ELSE /\ pc' = [pc EXCEPT ![i] = IF pending[i].changed
                                       THEN "reconcilePut"
                                       ELSE "reconcileCas"]
            /\ UNCHANGED leaf
    /\ UNCHANGED <<store, reply, answers>>

ReconcilePut(i) ==
    /\ pc[i] = "reconcilePut"
    /\ Turn(i)
    /\ \E result \in {"Ok", "Error"} :
        /\ CallPut(pending[i].next.material, result)
        /\ pc' = [pc EXCEPT ![i] =
                    IF result = "Ok" THEN "reconcileCas" ELSE "up"]
    /\ UNCHANGED <<leaf, reply, answers>>

\* reconcile(), compare_exchange_journal(): a conflict stays pending.
ReconcileCas(i) ==
    /\ pc[i] = "reconcileCas"
    /\ Turn(i)
    /\ \E result \in {"Applied", "Conflict", "Error"} :
        /\ CallCas(revision[i], pending[i].next, result)
        /\ IF result = "Applied" THEN FinishWrite(i, rev')
           ELSE UNCHANGED leaf
    /\ pc' = [pc EXCEPT ![i] = "up"]
    /\ UNCHANGED <<reply, answers>>

-----------------------------------------------------------------------------
Step(i) ==
    \/ Stop(i)
    \/ Create(i)
    \/ LoadJournal(i)
    \/ LoadMaterial(i)
    \/ StartCas(i)
    \/ ReserveOp(i)
    \/ CommitOp(i)
    \/ RevealOp(i)
    \/ FixOp(i)
    \/ RespondOp(i)
    \/ CloseOp(i)
    \/ ReceiveAbortOp(i)
    \/ CloseExpiredOp(i)
    \/ AddVaultOp(i)
    \/ ActivateInnerOp(i)
    \/ ActivateOuterOp(i)
    \/ PersistPut(i)
    \/ PersistCas(i)
    \/ ReconcileRead(i)
    \/ ReconcilePut(i)
    \/ ReconcileCas(i)

Next == Land \/ \E i \in Instances : Step(i)

Spec == Init /\ [][Next]_vars

-----------------------------------------------------------------------------
(* Properties *)

\* The caller of instance i can use its leaf (state() is not None).
Usable(i) == pc[i] = "up" /\ pending[i] = None /\ registry[i] # None

\* Over all instances, restarts, failed and late writes, the device releases
\* at most one response for an attempt.
OneResponsePerAttempt == \A a \in Attempts : answers[a] <= 1

\* An attempt that was answered is closed in the journal, and stays closed:
\* no instance that reads the journal can find it live again.
AnsweredIsClosed ==
    \A a \in Attempts :
        answers[a] > 0 => a < journal.next /\ journal.live # a

\* An instance that believes it is at the stored revision has exactly the
\* stored record: as its registry's journal, or as the base of its write.
Agrees(i) ==
    revision[i] = rev =>
        IF pending[i] # None THEN pending[i].previous = journal
        ELSE registry[i] # None =>
                JournalOf(material[i], registry[i]) = journal

\* An instance at the stored revision agrees with the stored record, and one
\* that takes operations computes from the very material that the record
\* names: no activation is in force in memory but not in the journal, where a
\* restart would undo it (persistent.rs: material_transition, finish_write).
CurrentInstanceAgrees ==
    \A i \in Instances :
        /\ Agrees(i)
        /\ revision[i] = rev /\ pending[i] = None /\ registry[i] # None =>
                registry[i].material = journal.material

\* The material the journal names is in the store, so a restart can load it:
\* staging, collection and failed writes never leave a dangling journal.
JournalMaterialHeld == rev # 0 => journal.material \in materials

\* The stored revision and attempt counter never fall, and a closed attempt
\* is never made live again, by whatever write and in whatever order.
JournalOnlyAdvances ==
    [][/\ rev' >= rev
       /\ journal'.next >= journal.next
       /\ \A a \in Attempts :
            a < journal.next /\ journal.live # a => journal'.live # a]_vars

\* A response leaves the device only under the key epoch that the journal's
\* material gives the session's vault at that very moment.
AnswerUnderActiveMaterial ==
    [][\A i \in Instances :
         (reply[i] # None /\ answers' # answers /\ reply'[i] = None) =>
            reply[i].bytes.epoch
                = EpochOf(journal'.material, reply[i].vault)]_vars

\* The instances together keep the promise of AttemptAuthority: the journal
\* is the one authority over attempts.
Authority ==
    INSTANCE AttemptAuthority WITH
        issued <- journal.next, open <- journal.live

ImplementsAuthority == Authority!Spec

\* persistent.rs says of reconcile() that it returns an error for a
\* concurrent journal change. When it returns Ok because the pending record
\* is already stored, no other instance is live at that revision.
ReconcileReportsConcurrentChange ==
    [][\A i, j \in Instances :
         (i # j /\ pc[i] = "up" /\ pending[i] # None /\ pending'[i] = None
            /\ registry'[i] # None /\ registry[i].live # None)
         => ~(Usable(j) /\ revision[j] = rev /\ registry[j].live # None)]_vars

-----------------------------------------------------------------------------
(* The inductive invariant behind the safety properties *)

\* LeafJournal::new() requires the live attempt to be the last one issued.
JournalSound(j) ==
    /\ j.next <= MaxSequence
    /\ j.live # None => j.live + 1 = j.next

\* What one write may do to the attempts: issue the next one when none is
\* live, close the live one, or leave them alone.
AttemptStep(old, new) ==
    \/ new.next = old.next /\ new.live \in {old.live, None}
    \/ old.live = None /\ new.live = old.next /\ new.next = old.next + 1

\* Where an instance is within an operation fits what it holds.
ControlSound(i) ==
    /\ pc[i] = "down" => registry[i] = None /\ revision[i] = 0
    /\ pc[i] \notin {"down", "up"} => pending[i] # None
    /\ pc[i] \in {"put", "reconcilePut"} => pending[i].changed
    /\ pc[i] = "loadMaterial" =>
        /\ registry[i] = None
        /\ material[i] = pending[i].previous.material
        /\ pending[i].next = [pending[i].previous EXCEPT !.live = None]
    /\ registry[i] # None => JournalSound(JournalOf(material[i], registry[i]))

\* A pending write is one attempt step from its base to the record of the
\* registry, which exists except while load() still reads the material.
PendingSound(i) ==
    pending[i] # None =>
        /\ JournalSound(pending[i].next)
        /\ AttemptStep(pending[i].previous, pending[i].next)
        /\ pending[i].changed => pending[i].next.material \in Material
        /\ pc[i] # "loadMaterial" =>
            /\ registry[i] # None
            /\ JournalOf(pending[i].next.material, registry[i])
                    = pending[i].next

\* A held response belongs to the attempt that the write under way closes.
ReplySound(i) ==
    reply[i] # None =>
        /\ pc[i] = "cas"
        /\ pending[i].previous.live = reply[i].attempt
        /\ pending[i].next.live = None

LeafSound(i) ==
    /\ revision[i] <= rev
    /\ ControlSound(i)
    /\ PendingSound(i)
    /\ ReplySound(i)
    /\ Agrees(i)

\* A write on its way is one attempt step from the record it would replace.
InflightSound ==
    \A w \in inflight :
        /\ w.expected <= rev
        /\ JournalSound(w.next)
        /\ w.expected = rev => AttemptStep(journal, w.next)

StoreSound ==
    /\ rev = 0 => journal = NoJournal
    /\ JournalSound(journal)
    /\ InflightSound

\* The state that every step of every instance preserves.
IInv ==
    /\ TypeOK
    /\ StoreSound
    /\ \A i \in Instances : LeafSound(i)
    /\ AnsweredIsClosed
    /\ OneResponsePerAttempt

-----------------------------------------------------------------------------
(* Progress *)

\* The caller keeps calling reconcile(), as every other operation refuses,
\* and a store that is asked again and again answers in the end.
Fairness ==
    \A i \in Instances :
        /\ WF_vars(ReconcileRead(i))
        /\ SF_vars(ReconcilePut(i) /\ pc'[i] = "reconcileCas")
        /\ WF_vars(ReconcilePut(i))
        /\ SF_vars(ReconcileCas(i) /\ (rev' # rev \/ pending'[i] = None
                                      \/ revision[i] # rev))
        /\ WF_vars(ReconcileCas(i))

FairSpec == Spec /\ Fairness

\* A leaf that needs reconciliation gets out of it: it becomes usable again,
\* is given up, or the journal has run out of revisions.
ReconcileTerminates ==
    \A i \in Instances :
        (pc[i] = "up" /\ pending[i] # None)
            ~> (pending[i] = None \/ rev = MaxRevision)

=============================================================================
