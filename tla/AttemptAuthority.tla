-------------------------- MODULE AttemptAuthority --------------------------
(***************************************************************************)
(* What a signing device promises about its attempts, whatever threads,    *)
(* processes and stores it is made of: attempts are issued in order, one   *)
(* at a time, and each is answered at most once, in the step that closes   *)
(* it. LeafRegistry and PersistentLeaf implement this specification.       *)
(***************************************************************************)
EXTENDS Naturals

CONSTANTS Attempts, None

VARIABLES
    issued,     \* the number of attempts issued so far
    open,       \* the attempt that may still be answered, or None
    answers     \* the number of responses given to each attempt

vars == <<issued, open, answers>>

Init ==
    /\ issued = 0
    /\ open = None
    /\ answers = [a \in Attempts |-> 0]

Issue ==
    /\ open = None
    /\ open' = issued
    /\ issued' = issued + 1
    /\ UNCHANGED answers

Close ==
    /\ open # None
    /\ open' = None
    /\ UNCHANGED <<issued, answers>>

Answer ==
    /\ open # None
    /\ answers' = [answers EXCEPT ![open] = @ + 1]
    /\ open' = None
    /\ UNCHANGED issued

Next == Issue \/ Close \/ Answer

Spec == Init /\ [][Next]_vars

=============================================================================
