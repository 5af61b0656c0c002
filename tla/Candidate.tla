------------------------------ MODULE Candidate -----------------------------
(***************************************************************************)
(* One redistribution candidate (src/src/dealing/candidate.rs, Candidate)  *)
(* and one target's accumulator (src/src/dealing/target.rs) as data types. *)
(* A candidate mirrors one command of the log. Each operator is one call   *)
(* of the candidate up to and including its log call, and returns the log, *)
(* the candidate and the result; what the code does on "Err" (abort_with)  *)
(* is a log call of its own and follows in Redistribution.tla.             *)
(*                                                                         *)
(* A contribution is a value; its commitment binds, so commitment, opening *)
(* and private shares of a contribution are recognised by the value. A     *)
(* value outside Sound has points that fail validate(). A view is the      *)
(* openings by role; build_view() cannot fail on sound ones, because       *)
(* Command::new makes the roles' constants sum to the anchor.              *)
(***************************************************************************)
EXTENDS Log

CONSTANTS
    Contributors,   \* the mandatory roles of a command
    Targets,        \* the targets of its shape
    Values,         \* contributions
    Sound           \* contributions that fit the shape and the role

ASSUME CandidateAssumption ==
    /\ Roles = Contributors \cup Targets
    /\ Contributors \cap Targets = {}
    /\ Sound \subseteq Values
    /\ Payloads = Values \cup [Contributors -> Sound]
    /\ None \notin [Contributors -> Sound]

Views == [Contributors -> Sound]

Receipts == [command : Commands, target : Targets, view : Views]

Stages == {"Commit", "Open", "Receipt", "Ready", "Terminal"}

\* receipts holds the targets whose receipt of view was posted.
CandidateState ==
    [stage : Stages,
     commitments : [Contributors -> Values \cup {None}],
     closed : BOOLEAN,
     openings : [Contributors -> Sound \cup {None}],
     view : Views \cup {None},
     receipts : SUBSET Targets,
     terminal : Terminal]

\* new(), once begin() has succeeded.
NewCandidate ==
    [stage |-> "Commit",
     commitments |-> [r \in Contributors |-> None],
     closed |-> FALSE,
     openings |-> [r \in Contributors |-> None],
     view |-> None,
     receipts |-> {},
     terminal |-> None]

Complete(f) == \A r \in Contributors : f[r] # None

Same(log, cand, out) == [log |-> log, cand |-> cand, out |-> out]

\* The log call r succeeded and the candidate becomes cand, or it failed.
Then(r, old, cand) ==
    Same(r.log, IF r.out = "Ok" THEN cand ELSE old,
         IF r.out = "Ok" THEN "Ok" ELSE "Err")

\* validate(): degree, constant and outer linkage of the points.
Validates(v) == v \in Sound

\* build_view()
BuildView(cand) == cand.openings

\* commit(): posts the first commitment of a role.
CommitCall(log, cand, c, role, v) ==
    IF role \in Contributors /\ cand.commitments[role] # None
    THEN Same(log, cand, IF cand.commitments[role] = v THEN "Ok" ELSE "Err")
    ELSE IF cand.stage # "Commit" \/ role \notin Contributors
    THEN Same(log, cand, "Err")
    ELSE Then(Post(log, c, Commit, role, v), cand,
              [cand EXCEPT !.commitments[role] = v])

\* close_commitments(): "Ended" is the error that aborts nothing.
CloseCommitmentsCall(log, cand, c) ==
    IF cand.closed THEN Same(log, cand, "Ok")
    ELSE IF cand.terminal # None THEN Same(log, cand, "Ended")
    ELSE IF cand.stage # "Commit" \/ ~Complete(cand.commitments)
    THEN Same(log, cand, "Err")
    ELSE Then(ClosePhase(log, c, Commit), cand,
              [cand EXCEPT !.closed = TRUE, !.stage = "Open"])

\* open(): validates an opening against its commitment and posts it.
OpenCall(log, cand, c, role, v) ==
    IF role \in Contributors /\ cand.openings[role] # None
    THEN Same(log, cand, IF cand.openings[role] = v THEN "Ok" ELSE "Err")
    ELSE IF \/ cand.stage # "Open"
            \/ role \notin Contributors
            \/ ~Validates(v)
            \/ cand.commitments[role] # v
    THEN Same(log, cand, "Err")
    ELSE Then(Post(log, c, Open, role, v), cand,
              [cand EXCEPT !.openings[role] = v])

\* close_openings(): fixes the view.
CloseOpeningsCall(log, cand, c) ==
    IF cand.view # None THEN Same(log, cand, "Ok")
    ELSE IF cand.stage # "Open" \/ ~Complete(cand.openings)
    THEN Same(log, cand, "Err")
    ELSE Then(ClosePhase(log, c, Open), cand,
              [cand EXCEPT !.stage = "Receipt", !.view = BuildView(cand)])

\* receipt(): posts a target's receipt of the view.
ReceiptCall(log, cand, c, receipt) ==
    LET known == receipt.command = c /\ receipt.view = cand.view IN
    IF receipt.target \in cand.receipts
    THEN Same(log, cand, IF known THEN "Ok" ELSE "Err")
    ELSE IF cand.stage # "Receipt" \/ ~known THEN Same(log, cand, "Err")
    ELSE Then(Post(log, c, Receipt, receipt.target, receipt.view), cand,
              [cand EXCEPT !.receipts = @ \cup {receipt.target}])

\* Slip: one receipt is enough.
PrepareCall_Any(log, cand, c) ==
    IF cand.stage = "Ready" THEN Same(log, cand, "Ok")
    ELSE IF cand.stage # "Receipt" THEN Same(log, cand, "Err")
    ELSE Then(ClosePhase(log, c, Receipt), cand,
              [cand EXCEPT !.stage = "Ready"])

\* prepare(): every target has its share.
PrepareCall(log, cand, c) ==
    IF cand.stage = "Ready" THEN Same(log, cand, "Ok")
    ELSE IF cand.stage # "Receipt" \/ cand.receipts # Targets
    THEN Same(log, cand, "Err")
    ELSE Then(ClosePhase(log, c, Receipt), cand,
              [cand EXCEPT !.stage = "Ready"])

\* abort(): keeps a decision it knows; an activated command stays.
AbortCall(log, cand, c) ==
    IF cand.terminal # None THEN Same(log, cand, "Ok")
    ELSE Then(Abort(log, c), cand,
              [cand EXCEPT !.stage = "Terminal", !.terminal = Aborted])

\* Slip: the candidate takes itself for aborted whatever the log says.
AbortWithCall_Claims(log, cand, c) ==
    Same(Abort(log, c).log,
         [cand EXCEPT !.stage = "Terminal", !.terminal = Aborted], "Ok")

\* abort_with(): gives the candidate up even when the log refuses.
AbortWithCall(log, cand, c) ==
    LET r == Abort(log, c) IN
    Same(r.log,
         [cand EXCEPT !.stage = "Terminal",
                      !.terminal = IF r.out = "Ok" THEN Aborted ELSE @],
         "Ok")

-----------------------------------------------------------------------------
(* A target's accumulator *)

\* done: finish() has summed the shares; outcome: what resolve() was told.
Accumulator ==
    [view : Views, shares : [Contributors -> Values \cup {None}],
     done : BOOLEAN, outcome : Terminal]

\* An absent candidate or accumulator is none of these.
ASSUME AbsentAssumption == None \notin CandidateState \cup Accumulator

\* TargetAccumulator::new()
NewAccumulator(view) ==
    [view |-> view, shares |-> [r \in Contributors |-> None],
     done |-> FALSE, outcome |-> None]

\* receive(): a share counts when it lies on the opened points of its role.
Receive(acc, role, v) ==
    IF acc.view[role] = v THEN [acc EXCEPT !.shares[role] = v] ELSE acc

\* finish(): possible once every role's share has arrived.
CanFinish(acc) == ~acc.done /\ Complete(acc.shares)

=============================================================================
