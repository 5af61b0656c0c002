--------------------------- MODULE Redistribution ---------------------------
(***************************************************************************)
(* Redistribution over one common log: several drivers, each with a        *)
(* Candidate or an InnerBundle of its own (src/src/dealing/candidate.rs)   *)
(* for the same or for rival commands, and the targets that collect the    *)
(* private shares (src/src/dealing/target.rs). The application supplies    *)
(* the log behind LogAct, so a driver's step is one call of the log: the   *)
(* calls of a method that makes several interleave with other drivers, and *)
(* a driver may stop between two of them and start again from nothing.     *)
(***************************************************************************)
EXTENDS Candidate

CONSTANTS
    Drivers,        \* processes that hold a Candidate or an InnerBundle
    Plans,          \* sorted lists of commands a driver may run
    CommandOf,      \* scope and predecessor of a command
    Genesis,        \* the handle every scope is founded on
    MaxStops        \* bound: how often drivers may stop

VARIABLES
    log,        \* the common log
    driver,     \* driver -> its plan, candidates and calls still to make
    released,   \* contributions whose private shares may be delivered
    target,     \* command and target -> the target's accumulator
    receipts,   \* receipts that targets have made
    stops       \* how often a driver has stopped

vars == <<log, driver, released, target, receipts, stops>>

\* Command::new and InnerBundle::new: a list of one command is a Candidate,
\* a longer one an InnerBundle, whose scopes differ.
ASSUME RedistributionAssumption ==
    /\ Commands \subseteq Parameters
    /\ CommandOf \in [Commands -> [scope : Scopes, predecessor : Handles]]
    /\ Genesis \in Handles
    /\ MaxStops \in Nat
    /\ \A plan \in Plans :
        /\ plan \in Seq(Commands) \ {<<>>}
        /\ \A i, j \in DOMAIN plan : i # j =>
            CommandOf[plan[i]].scope # CommandOf[plan[j]].scope

-----------------------------------------------------------------------------
(* Calls *)

\* A call of the log that a method makes on behalf of command c; arg is a
\* role and a value, a receipt, or nothing.
Do(op, c) == [op |-> op, c |-> c, arg |-> None]

Each(op, plan) == [i \in DOMAIN plan |-> Do(op, plan[i])]

IsBundle(w) == Len(w.plan) > 1

\* The result of one call for the candidate it concerns.
Result(l, cand, k) ==
    CASE k.op = "begin" ->
            LET spec == CommandOf[k.c] IN
            Then(Begin(l, spec.scope, k.c, spec.predecessor, k.c), cand,
                 NewCandidate)
      [] k.op = "commit" -> CommitCall(l, cand, k.c, k.arg.role, k.arg.value)
      [] k.op = "close_commitments" -> CloseCommitmentsCall(l, cand, k.c)
      [] k.op = "open" -> OpenCall(l, cand, k.c, k.arg.role, k.arg.value)
      [] k.op = "close_openings" -> CloseOpeningsCall(l, cand, k.c)
      [] k.op = "receipt" -> ReceiptCall(l, cand, k.c, k.arg)
      [] k.op = "prepare" -> PrepareCall(l, cand, k.c)
      [] k.op = "abort" -> AbortCall(l, cand, k.c)
      [] k.op = "abort_with" -> AbortWithCall(l, cand, k.c)

\* Slip: a failed component leaves the others of its bundle alone.
AbortAll_One(w) == <<>>

\* The components begun so far: InnerBundle::new() begins them in order, and
\* every other method has them all.
BegunSoFar(w) ==
    IF Head(w.todo).op = "begin"
    THEN SubSeq(w.plan, 1, Len(w.plan) - Len(w.todo))
    ELSE w.plan

\* fail(), and the loops of InnerBundle::new() and activate_candidates():
\* every component that was begun. A lone Candidate has no such loop.
AbortAll(w) ==
    IF IsBundle(w) THEN Each("abort", BegunSoFar(w)) ELSE <<>>

\* What a method does when its call k failed.
Recovery(w, k, out) ==
    IF k.op = "abort" THEN Tail(w.todo)
    ELSE IF \/ k.op = "begin"
            \/ k.op = "activate" /\ IsBundle(w)
            \/ out = "Ended"
    THEN AbortAll(w)
    ELSE <<Do("abort_with", k.c)>> \o AbortAll(w)

\* The driver w makes its next call, other than an activation. A successful
\* open_contribution() hands out the ReleasedContribution.
Perform(d, w) ==
    LET k == Head(w.todo)
        r == Result(log, w.cand[k.c], k) IN
    /\ k.op # "activate"
    /\ log' = r.log
    /\ driver' = [driver EXCEPT ![d] =
                    [w EXCEPT !.cand[k.c] = r.cand,
                              !.todo = IF r.out = "Ok" THEN Tail(w.todo)
                                       ELSE Recovery(w, k, r.out)]]
    /\ released' =
        IF k.op = "open" /\ k.arg.release /\ r.out = "Ok"
        THEN released \cup
                {[command |-> k.c, role |-> k.arg.role, value |-> k.arg.value]}
        ELSE released
    /\ UNCHANGED <<target, receipts, stops>>

\* No method of the driver is running, and its start succeeded.
Idle(d) ==
    /\ driver[d] # None
    /\ driver[d].todo = <<>>
    /\ \A c \in Members(driver[d].plan) : driver[d].cand[c] # None

\* The caller invokes a method that makes the calls todo.
Invoke(d, todo) ==
    /\ Idle(d)
    /\ Perform(d, [driver[d] EXCEPT !.todo = todo])

-----------------------------------------------------------------------------
(* Drivers *)

\* Candidate::new() or InnerBundle::new().
Start(d) ==
    /\ driver[d] = None
    /\ \E plan \in Plans :
        Perform(d, [plan |-> plan, cand |-> [c \in Commands |-> None],
                    todo |-> Each("begin", plan)])

Commits(d) ==
    \E c \in Commands, role \in Roles, v \in Values :
        /\ Idle(d) /\ c \in Members(driver[d].plan)
        /\ Invoke(d, <<[op |-> "commit", c |-> c,
                         arg |-> [role |-> role, value |-> v]]>>)

\* Slip: only the first component is closed.
CloseCommitments_First(d) ==
    Idle(d) /\ Invoke(d, <<Do("close_commitments", driver[d].plan[1])>>)

CloseCommitments(d) ==
    Idle(d) /\ Invoke(d, Each("close_commitments", driver[d].plan))

OpenOne(c, role, v, release) ==
    [op |-> "open", c |-> c, arg |-> [role |-> role, value |-> v,
                                      release |-> release]]

\* open_contribution() takes a sampled Contribution, which is sound, and
\* releases it. Only then can anybody have its Opening: open() takes those,
\* and openings that are altered or of no role.
Opens(d) ==
    \E c \in Commands, role \in Roles, v \in Values, release \in BOOLEAN :
        /\ Idle(d) /\ c \in Members(driver[d].plan)
        /\ \/ /\ release
              /\ role \in Contributors /\ v \in Sound
           \/ /\ ~release
              /\ \/ [command |-> c, role |-> role, value |-> v] \in released
                 \/ role \notin Contributors \/ v \notin Sound
        /\ Invoke(d, <<OpenOne(c, role, v, release)>>)

CloseOpenings(d) ==
    Idle(d) /\ Invoke(d, Each("close_openings", driver[d].plan))

\* A Candidate may be shown the receipt of another command; a bundle
\* chooses the component by the receipt.
PostReceipt(d) ==
    \E c \in Commands, receipt \in receipts :
        /\ Idle(d) /\ c \in Members(driver[d].plan)
        /\ IsBundle(driver[d]) => receipt.command = c
        /\ Invoke(d, <<[op |-> "receipt", c |-> c, arg |-> receipt]>>)

\* activate(), unless a component is known to have ended.
Activate(d) ==
    /\ Idle(d)
    /\ \A c \in Members(driver[d].plan) : driver[d].cand[c].terminal = None
    /\ Invoke(d, Each("prepare", driver[d].plan)
                    \o <<Do("activate", driver[d].plan[1])>>)

\* abort(). A bundle that is asked about a command it does not have makes
\* the same calls.
AbortDriver(d) == Idle(d) /\ Invoke(d, Each("abort", driver[d].plan))

\* The next call of a method under way.
Continue(d) ==
    /\ driver[d] # None
    /\ driver[d].todo # <<>>
    /\ Perform(d, driver[d])

\* Slip: the log is asked to activate one component.
Together_One(w) == <<w.plan[1]>>

\* The commands that activate() hands to the log.
Together(w) == w.plan

\* The last call of activate(): Ok ends every component, an error starts
\* the recovery.
Decide(d) ==
    /\ driver[d] # None
    /\ driver[d].todo # <<>>
    /\ Head(driver[d].todo).op = "activate"
    /\ \E h \in CounterHandles :
        LET w == driver[d]
            k == Head(w.todo)
            r == ActivateBundle(log, Together(w), h)
            won == r.out = "Ok" IN
        /\ BundleVerdict(log, Together(w)) = "Fresh" => IsFresh(log, h)
        /\ log' = r.log
        /\ driver' = [driver EXCEPT ![d] =
            [w EXCEPT
                !.cand = [c \in Commands |->
                    IF won /\ c \in Members(Together(w))
                    THEN [w.cand[c] EXCEPT
                            !.stage = "Terminal",
                            !.terminal = r.log.transcripts[c].terminal]
                    ELSE w.cand[c]],
                !.todo = IF won THEN Tail(w.todo)
                         ELSE Recovery(w, k, r.out)]]
    /\ UNCHANGED <<released, target, receipts, stops>>

\* The process ends or drops its candidates, between any two calls.
Stop(d) ==
    /\ driver[d] # None
    /\ stops < MaxStops
    /\ driver' = [driver EXCEPT ![d] = None]
    /\ stops' = stops + 1
    /\ UNCHANGED <<log, released, target, receipts>>

-----------------------------------------------------------------------------
(* Targets *)

\* TargetAccumulator::new() with the view a driver's close_openings() gave.
TargetStart(c, t) ==
    /\ target[<<c, t>>] = None
    /\ \E d \in Drivers :
        /\ driver[d] # None
        /\ driver[d].cand[c] # None
        /\ driver[d].cand[c].view # None
        /\ target' = [target EXCEPT ![<<c, t>>] =
                        NewAccumulator(driver[d].cand[c].view)]
    /\ UNCHANGED <<log, driver, released, receipts, stops>>

\* receive() of a released share, or of one that a faulty sender garbled.
Deliver(c, t) ==
    /\ target[<<c, t>>] # None
    /\ ~target[<<c, t>>].done
    /\ \E role \in Contributors, v \in Values :
        /\ \/ [command |-> c, role |-> role, value |-> v] \in released
           \/ v \notin Sound
        /\ target' = [target EXCEPT ![<<c, t>>] = Receive(@, role, v)]
    /\ UNCHANGED <<log, driver, released, receipts, stops>>

\* finish(): the receipt, and the summed share for after the activation.
Finish(c, t) ==
    /\ target[<<c, t>>] # None
    /\ CanFinish(target[<<c, t>>])
    /\ target' = [target EXCEPT ![<<c, t>>].done = TRUE]
    /\ receipts' = receipts \cup
        {[command |-> c, target |-> t, view |-> target[<<c, t>>].view]}
    /\ UNCHANGED <<log, driver, released, stops>>

\* PendingShare::resolve() with the decision that a driver reports: the
\* share is installed under the handle or dropped.
Resolve(c, t) ==
    /\ target[<<c, t>>] # None
    /\ target[<<c, t>>].done
    /\ target[<<c, t>>].outcome = None
    /\ \E d \in Drivers :
        /\ driver[d] # None
        /\ driver[d].cand[c] # None
        /\ driver[d].cand[c].terminal # None
        /\ target' = [target EXCEPT ![<<c, t>>].outcome =
                        driver[d].cand[c].terminal]
    /\ UNCHANGED <<log, driver, released, receipts, stops>>

-----------------------------------------------------------------------------
Init ==
    /\ log = [EmptyLog EXCEPT !.current = [s \in Scopes |-> Genesis],
                              !.handles = {Genesis}]
    /\ driver = [d \in Drivers |-> None]
    /\ released = {}
    /\ target = [q \in Commands \X Targets |-> None]
    /\ receipts = {}
    /\ stops = 0

DriverNext(d) ==
    \/ Start(d)
    \/ Commits(d)
    \/ CloseCommitments(d)
    \/ Opens(d)
    \/ CloseOpenings(d)
    \/ PostReceipt(d)
    \/ Activate(d)
    \/ AbortDriver(d)
    \/ Continue(d)
    \/ Decide(d)
    \/ Stop(d)

TargetNext(c, t) ==
    \/ TargetStart(c, t)
    \/ Deliver(c, t)
    \/ Finish(c, t)
    \/ Resolve(c, t)

Next ==
    \/ \E d \in Drivers : DriverNext(d)
    \/ \E c \in Commands, t \in Targets : TargetNext(c, t)

Spec == Init /\ [][Next]_vars

\* A method that was invoked returns: the caller drives it to its end.
FairSpec ==
    /\ Spec
    /\ \A d \in Drivers : WF_vars(Continue(d)) /\ WF_vars(Decide(d))

-----------------------------------------------------------------------------
(* Properties *)

Posted(c, phase, role) == log.transcripts[c].posts[<<phase, role>>]

Begun(c) == log.transcripts[c] # None

Ended(c) == Begun(c) /\ log.transcripts[c].terminal = Aborted

\* The openings in the log, as a view.
LogView(c) == [r \in Contributors |-> Posted(c, Open, r)]

\* No contribution of a bundle is opened before every role of every
\* component has committed (close_commitments() of InnerBundle): nobody can
\* choose a contribution after seeing another, whatever drivers race, fail
\* or stop halfway through the closes.
OpeningsAfterAllCommits ==
    \A plan \in Plans : \A c \in Members(plan) :
        Begun(c) /\ (\E r \in Contributors : Posted(c, Open, r) # None) =>
            \A b \in Members(plan) :
                Begun(b) /\ \A r \in Contributors : Posted(b, Commit, r) # None

\* Where every driver runs it as a bundle, a bundle is decided as a whole:
\* an activated component has all others beside it under one handle.
BundleDecidedTogether ==
    \A plan \in Plans : \A c, b \in Members(plan) :
        Activated(log, c) =>
            /\ Activated(log, b)
            /\ log.transcripts[b].terminal = log.transcripts[c].terminal

\* An activated command has the opening that each role committed to, sound,
\* and every target holds the share of exactly these openings: activation
\* never installs a key whose shares nobody has.
ActivatedIsShared ==
    \A c \in Commands : Activated(log, c) =>
        /\ LogView(c) \in Views
        /\ \A r \in Contributors : Posted(c, Commit, r) = Posted(c, Open, r)
        /\ \A t \in Targets :
            /\ target[<<c, t>>] # None
            /\ target[<<c, t>>].done
            /\ target[<<c, t>>].shares = LogView(c)

\* Every view that a driver or a target works with is the one view in the
\* log, also after restarts and for rivals of one command.
OneViewPerCommand ==
    \A c \in Commands :
        /\ \A d \in Drivers :
            driver[d] # None /\ driver[d].cand[c] # None =>
                driver[d].cand[c].view \in {None, LogView(c)}
        /\ \A t \in Targets :
            target[<<c, t>>] # None => target[<<c, t>>].view = LogView(c)

\* A decision that a driver remembers, and one that a target acted on, is
\* the log's: a driver whose abort lost against another's activation does
\* not take itself for aborted, and no target drops the share of an
\* activated command or installs another one.
DecisionsAgree ==
    /\ \A d \in Drivers : driver[d] # None =>
        \A c \in Commands :
            driver[d].cand[c] # None /\ driver[d].cand[c].terminal # None =>
                driver[d].cand[c].terminal = log.transcripts[c].terminal
    /\ \A c \in Commands, t \in Targets :
        target[<<c, t>>] # None /\ target[<<c, t>>].outcome # None =>
            target[<<c, t>>].outcome = log.transcripts[c].terminal

\* Of two plans that want to succeed one head, at most one installs
\* anything: a bundle that lost one of its scopes moves none of them.
LoserInstallsNothing ==
    \A p, q \in Plans : \A c \in Members(p), b \in Members(q) :
        /\ p # q
        /\ CommandOf[c] = CommandOf[b]
        => \/ \A a \in Members(p) : ~Activated(log, a)
           \/ \A a \in Members(q) : ~Activated(log, a)

\* "Any failure aborts every component": without stops, once a component
\* of a bundle is aborted, all that were begun come to be aborted.
FailureSpreads ==
    \A plan \in Plans :
        (\E c \in Members(plan) : Ended(c))
            ~> (\A c \in Members(plan) : Begun(c) => Ended(c))

\* "Returns an error and aborts for a stale predecessor" (the comment on
\* open_contribution(), candidate.rs): once a rival has moved the scope, no
\* driver of the command gets a ReleasedContribution from that method.
StaleOpeningRefused ==
    \A d \in Drivers : Idle(d) =>
        \A c \in Members(driver[d].plan) :
            Stale(log, c) /\ ~Activated(log, c) =>
                \A role \in Contributors, v \in Sound :
                    Result(log, driver[d].cand[c],
                           OpenOne(c, role, v, TRUE)).out # "Ok"

=============================================================================
