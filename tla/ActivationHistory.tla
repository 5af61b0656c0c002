-------------------------- MODULE ActivationHistory -------------------------
(***************************************************************************)
(* What an activation log promises to its readers, whatever it stores:     *)
(* every scope has a history of handles that only grows at its end; a      *)
(* proposal made against the end of a history is installed only directly   *)
(* after the handle it was made against, together with the whole bundle it *)
(* is part of, under a handle that no history has held; and a proposal is  *)
(* decided once. MemoryLog implements this specification.                  *)
(***************************************************************************)
EXTENDS Naturals, Sequences

CONSTANTS Scopes, Commands, Handles, Aborted, None

VARIABLES
    history,    \* the handles of each scope, oldest first
    proposal,   \* scope and predecessor of each command, or None
    decision    \* None, Aborted, or the handle a command installed under

vars == <<history, proposal, decision>>

\* h is the last handle of the scope.
Ends(s, h) == history[s] # <<>> /\ history[s][Len(history[s])] = h

\* h is in no history.
Unused(h) == \A s \in Scopes : \A i \in 1 .. Len(history[s]) : history[s][i] # h

Init ==
    /\ history = [s \in Scopes |-> <<>>]
    /\ proposal = [c \in Commands |-> None]
    /\ decision = [c \in Commands |-> None]

Found(s, h) ==
    /\ history[s] = <<>>
    /\ history' = [history EXCEPT ![s] = <<h>>]
    /\ UNCHANGED <<proposal, decision>>

Propose(c, s, h) ==
    /\ proposal[c] = None
    /\ Ends(s, h)
    /\ proposal' = [proposal EXCEPT ![c] = [scope |-> s, predecessor |-> h]]
    /\ UNCHANGED <<history, decision>>

Reject(c) ==
    /\ proposal[c] # None
    /\ decision[c] = None
    /\ decision' = [decision EXCEPT ![c] = Aborted]
    /\ UNCHANGED <<history, proposal>>

Accept(C, h) ==
    /\ \A c \in C :
        /\ proposal[c] # None
        /\ decision[c] = None
        /\ Ends(proposal[c].scope, proposal[c].predecessor)
    /\ \A c, d \in C : c # d => proposal[c].scope # proposal[d].scope
    /\ Unused(h)
    /\ history' = [s \in Scopes |->
                    IF \E c \in C : proposal[c].scope = s
                    THEN Append(history[s], h) ELSE history[s]]
    /\ decision' = [c \in Commands |-> IF c \in C THEN h ELSE decision[c]]
    /\ UNCHANGED proposal

Next ==
    \/ \E s \in Scopes, h \in Handles : Found(s, h)
    \/ \E c \in Commands, s \in Scopes, h \in Handles : Propose(c, s, h)
    \/ \E c \in Commands : Reject(c)
    \/ \E C \in (SUBSET Commands) \ {{}}, h \in Handles : Accept(C, h)

Spec == Init /\ [][Next]_vars

=============================================================================
