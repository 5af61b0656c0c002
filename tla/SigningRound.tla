---------------------------- MODULE SigningRound ----------------------------
(***************************************************************************)
(* Signing ceremonies across devices: every device runs the registry of     *)
(* Leaf.tla, the devices of one person exchange authenticated commitments   *)
(* and openings (src/src/auth.rs), a coordinator, who is not trusted, joins *)
(* nonces to a root package (transcript.rs) and aggregates the responses    *)
(* (signing.rs). Deliveries are delayed, reordered, duplicated, lost and    *)
(* handed over in incomplete or mixed sets; devices close, expire, retry    *)
(* and change key epochs on their own.                                      *)
(*                                                                          *)
(* A device draws one nonce per attempt, so <<d, a>> names the nonce that   *)
(* device d draws for attempt a. Nonce commitments bind. A sum of nonce     *)
(* pairs is named by its summands, since no two sums of drawn pairs are     *)
(* equal; a pair that is no such sum has none.                              *)
(***************************************************************************)
EXTENDS Leaf, FiniteSetsExt

CONSTANTS
    Devices, Persons,
    Owner,          \* the person of each device
    Support,        \* the inner support of each session and person
    Reserved,       \* the reservation of each session and person
    Material0,      \* the key material each device starts with
    BundleOf,       \* the inner bundle activated for each person, or None
    Pairs,          \* nonce pairs that a coordinator may put into a person's
                    \* slot although no fix() has returned them
    MaxAttempts,    \* bounds on the attempts of the devices, one of them kept
    MaxTime         \* bound on the clock

VARIABLES
    registry,       \* the LeafRegistry of each device
    now,            \* the clock of the application
    committed,      \* nonce commitments published so far
    opened,         \* nonce pairs published so far, with the commitments
                    \* that siblings had published before each
    fixed,          \* the member nonces that fix() has returned
    answers         \* the device responses returned so far

vars == <<registry, now, committed, opened, fixed, answers>>

\* The nonces that the devices can draw.
Drawn == Devices \X (0..MaxSequence)

ASSUME SigningRoundAssumption ==
    /\ Owner \in [Devices -> Persons]
    /\ Support \in [Sessions -> [Persons -> SUBSET Devices]]
    /\ Reserved \in [Sessions -> [Persons -> Reservation]]
    /\ \A s \in Sessions : \A p \in Persons : Reserved[s][p].session = s
    /\ Material0 \in [Devices -> Material]
    /\ \A p \in Persons : BundleOf[p] # None => IsInnerBundle(BundleOf[p])
    /\ Drawn \subseteq Nonces
    /\ SUBSET Drawn \subseteq Siblings
    /\ None \notin Drawn
    /\ Pairs \in [Persons -> SUBSET SUBSET Drawn]
    /\ MaxAttempts \subseteq [Devices -> Nat]
    /\ MaxTime \in Nat

LiveOf(d) == registry[d].live
Mine(d) == <<d, LiveOf(d).attempt>>

Init ==
    /\ registry = [d \in Devices |-> NewRegistry(Material0[d])]
    /\ now = 0
    /\ committed = {}
    /\ opened = {}
    /\ fixed = {}
    /\ answers = {}

-----------------------------------------------------------------------------
(* Views *)

\* Slip: the senders need only belong to the support.
ViewOf_Partial(d, receiver, deliveries) ==
    LET any == CHOOSE m \in deliveries : TRUE
        nonces == {m.nonce : m \in deliveries}
    IN  IF /\ deliveries # {}
           /\ \A m, n \in deliveries : m.session = n.session /\ m.bytes = n.bytes
           /\ \E n \in nonces : n[1] = d
        THEN [receiver |-> receiver, session |-> any.session,
              bytes |-> any.bytes, own |-> CHOOSE n \in nonces : n[1] = d,
              siblings |-> {n \in nonces : n[1] # d}]
        ELSE None

\* CommitmentView::new() and OpeningView::new(): one delivery from each device
\* of the live attempt's support, all for one session and reservation.
\* receiver is the attempt they are addressed to.
ViewOf(d, receiver, deliveries) ==
    LET support == Support[LiveOf(d).session][Owner[d]] IN
    IF /\ {m.nonce[1] : m \in deliveries} = support
       /\ Cardinality(deliveries) = Cardinality(support)
       /\ \A m, n \in deliveries : m.session = n.session /\ m.bytes = n.bytes
    THEN LET any == CHOOSE m \in deliveries : TRUE
             nonces == {m.nonce : m \in deliveries}
         IN  [receiver |-> receiver, session |-> any.session,
              bytes |-> any.bytes, own |-> CHOOSE n \in nonces : n[1] = d,
              siblings |-> {n \in nonces : n[1] # d}]
    ELSE None

\* A message of the live attempt of device d.
Message(d) == [nonce |-> Mine(d), session |-> LiveOf(d).session,
               bytes |-> LiveOf(d).bytes]

\* The views a transport can bring about: from any of the messages sent by
\* the person's devices, addressed to the live attempt or to the first.
Views(d, sent) ==
    {ViewOf(d, a, D) :
        a \in {0, LiveOf(d).attempt},
        D \in UNION {kSubset(k, {m \in sent : Owner[m.nonce[1]] = Owner[d]}) :
                 k \in 0..Cardinality(Support[LiveOf(d).session][Owner[d]])}}

Openings == {[nonce |-> o.nonce, session |-> o.session, bytes |-> o.bytes] :
                o \in opened}

-----------------------------------------------------------------------------
(* Devices *)

Becomes(d, r) == registry' = [registry EXCEPT ![d] = r.reg]

DoReserve(d, s) ==
    /\ d \in Support[s][Owner[d]]
    /\ \/ LiveOf(d) # None
       \/ \E most \in MaxAttempts : \A e \in Devices :
             registry[e].next + (IF e = d THEN 1 ELSE 0) <= most[e]
    /\ LET bytes == Reserved[s][Owner[d]]
       IN  Becomes(d, Reserve(registry[d], s, now, bytes, bytes.binding))
    /\ UNCHANGED <<now, committed, opened, fixed, answers>>

DoCommit(d) ==
    /\ LiveOf(d) # None
    /\ Becomes(d, Commit(registry[d], LiveOf(d).attempt, LiveOf(d).bytes, Mine(d)))
    /\ committed' = committed \cup {Message(d)}
    /\ UNCHANGED <<now, opened, fixed, answers>>

DoReveal(d) ==
    /\ LiveOf(d) # None
    /\ \E view \in Views(d, committed) :
         LET r == Reveal(registry[d], LiveOf(d).attempt, view) IN
         /\ Becomes(d, r)
         /\ opened' = IF r.out = "Ok" /\ Message(d) \notin Openings
                      THEN opened \cup
                            {[nonce |-> Mine(d), session |-> LiveOf(d).session,
                              bytes |-> LiveOf(d).bytes,
                              after |-> {n \in {m.nonce : m \in committed} :
                                            Owner[n[1]] = Owner[d]}]}
                      ELSE opened
    /\ UNCHANGED <<now, committed, fixed, answers>>

\* The caller learns the member nonce: the sum over the view.
DoFix(d) ==
    /\ LiveOf(d) # None
    /\ \E view \in Views(d, Openings) :
         LET r == Fix(registry[d], LiveOf(d).attempt, view) IN
         /\ Becomes(d, r)
         /\ fixed' = IF r.out = "Ok"
                     THEN fixed \cup {view.siblings \cup {view.own}}
                     ELSE fixed
    /\ UNCHANGED <<now, committed, opened, answers>>

\* RootPackage::finalize(): the prepackage of a session and, for each slot,
\* any nonce pair: one that a device has reported, for whatever slot, session
\* or round, or another one.
Roots ==
    {root \in [session : Sessions,
               nonces : [Persons -> fixed \cup UNION {Pairs[p] : p \in Persons}]] :
        \A p \in Persons : root.nonces[p] \in fixed \cup Pairs[p]}

\* The root as device d sees it: MemberTranscript::finalize() compares the
\* prepackage, and validate_member_inputs() the member nonce of the slot.
PackageFor(d, root) ==
    LET bytes == Reserved[root.session][Owner[d]]
        nonces == root.nonces[Owner[d]]
    IN  [binding |-> bytes.binding, bytes |-> bytes,
         own |-> IF Mine(d) \in nonces THEN Mine(d) ELSE None,
         siblings |-> nonces \ {Mine(d)}]

DoRespond(d) ==
    /\ LiveOf(d) # None
    /\ \E root \in Roots :
         LET r == Respond(registry[d], LiveOf(d).attempt, PackageFor(d, root)) IN
         /\ Becomes(d, r)
         /\ answers' = IF r.out = "Ok"
                       THEN answers \cup {[nonce |-> Mine(d), root |-> root]}
                       ELSE answers
    /\ UNCHANGED <<now, committed, opened, fixed>>

\* The caller gives the attempt up, or the device restarts.
DoClose(d) ==
    /\ LiveOf(d) # None
    /\ Becomes(d, Close(registry[d], LiveOf(d).attempt))
    /\ UNCHANGED <<now, committed, opened, fixed, answers>>

\* A sibling's abort, for the live attempt or for an earlier one.
DoReceiveAbort(d, s, a) ==
    /\ Becomes(d, ReceiveAbort(registry[d],
                    [receiver |-> a, session |-> s,
                     bytes |-> Reserved[s][Owner[d]], member |-> TRUE]))
    /\ UNCHANGED <<now, committed, opened, fixed, answers>>

DoCloseExpired(d) ==
    /\ Becomes(d, CloseExpired(registry[d], now))
    /\ UNCHANGED <<now, committed, opened, fixed, answers>>

DoActivateInner(d) ==
    /\ BundleOf[Owner[d]] # None
    /\ Becomes(d, ActivateInnerBundle(registry[d], BundleOf[Owner[d]]))
    /\ UNCHANGED <<now, committed, opened, fixed, answers>>

Tick ==
    /\ now < MaxTime
    /\ now' = now + 1
    /\ UNCHANGED <<registry, committed, opened, fixed, answers>>

Next ==
    \/ \E d \in Devices :
         \/ \E s \in Sessions : DoReserve(d, s)
         \/ DoCommit(d)
         \/ DoReveal(d)
         \/ DoFix(d)
         \/ DoRespond(d)
         \/ DoClose(d)
         \/ \E s \in Sessions, a \in 0..(registry[d].next - 1) :
               DoReceiveAbort(d, s, a)
         \/ DoCloseExpired(d)
         \/ DoActivateInner(d)
    \/ Tick

\* The application's clock advances and it polls close_expired().
Fairness ==
    /\ WF_vars(Tick)
    /\ \A d \in Devices : WF_vars(DoCloseExpired(d))

Spec == Init /\ [][Next]_vars /\ Fairness

-----------------------------------------------------------------------------
(* Signatures *)

\* aggregate_member() for every slot and aggregate_signature(): each device
\* of each support has answered this very root with its nonce in it.
Signed(root) ==
    \A p \in Persons :
        /\ {n[1] : n \in root.nonces[p]} = Support[root.session][p]
        /\ \A n \in root.nonces[p] : [nonce |-> n, root |-> root] \in answers

-----------------------------------------------------------------------------
(* Properties *)

\* A device answers only when the nonces in its own slot are those of its
\* person's whole support, whatever the coordinator has put into the root and
\* however incomplete or mixed the sets of deliveries were that the device
\* was handed on the way (auth.rs: CommitmentView::new, OpeningView::new;
\* signing.rs: validate_member_inputs). What is in the slots of other people
\* is for their devices to check.
AnswersForWholeSupport ==
    \A x \in answers :
        LET p == Owner[x.nonce[1]] IN
        {n[1] : n \in x.root.nonces[p]} = Support[x.root.session][p]

\* No device can choose its nonce after seeing another's: a device answers only
\* with a nonce that it has disclosed, and every nonce it answers together with
\* was committed before that, across retries of either device (leaf.rs: reveal, fix;
\* auth.rs: OpeningView::verify).
CommittedBeforeDisclosure ==
    \A x \in answers : \E o \in opened :
        /\ o.nonce = x.nonce
        /\ x.root.nonces[Owner[x.nonce[1]]] \subseteq o.after

\* Two signatures never share a nonce, although every device of a support, or
\* the coordinator, may retry with the same session, reservation and siblings
\* (leaf.rs: respond_with).
SignaturesShareNoNonce ==
    \A x, y \in answers :
        Signed(x.root) /\ Signed(y.root) /\ x.root # y.root =>
            \A p \in Persons : x.root.nonces[p] \cap y.root.nonces[p] = {}

\* Ceremonies that hold one another's devices do not hold them for ever: a
\* device that is reserved is free again once its reservation has expired
\* (leaf.rs: reserve_with, close_expired).
EventuallyFree ==
    \A d \in Devices : LiveOf(d) # None ~> LiveOf(d) = None

=============================================================================
