-------------------------------- MODULE Log ---------------------------------
(***************************************************************************)
(* The activation log (src/src/log_act.rs, MemoryLog) as a data type: its  *)
(* states, and every operation as an operator that takes the log and the   *)
(* caller's input and returns the log left behind (log) and the result     *)
(* (out: "Ok" or the name of an error). MemoryLog.tla runs the operations  *)
(* under arbitrary callers, Redistribution.tla under the drivers of        *)
(* src/src/dealing/candidate.rs.                                           *)
(*                                                                         *)
(* Roles, payloads and parameters are byte strings that the code compares  *)
(* for equality only. A sorted list of different commands is a set.        *)
(***************************************************************************)
EXTENDS Naturals, Sequences

CONSTANTS
    Scopes,         \* activation scopes
    Commands,       \* command identifiers
    Roles,          \* posting roles: contributors and targets
    Payloads,       \* contents of a post
    Parameters,     \* command bytes
    HandleSpace,    \* the number of handles the counter can name, 2^64
    Imported,       \* handles that come from outside the log
    Aborted,        \* Terminal::Aborted
    None            \* an absent Option

-----------------------------------------------------------------------------
(* States *)

\* LogPhase in its order.
Commit == 1
Open == 2
Receipt == 3
Phases == Commit .. Receipt

\* next_phase after the receipts are closed.
Done == Receipt + 1

CounterHandles == 0 .. HandleSpace - 1

Handles == CounterHandles \cup Imported

Terminal == {None, Aborted} \cup Handles

Transcript ==
    [scope : Scopes, predecessor : Handles, parameters : Parameters,
     posts : [Phases \X Roles -> Payloads \cup {None}],
     next : Commit .. Done, terminal : Terminal]

LogState ==
    [current : [Scopes -> Handles \cup {None}],
     transcripts : [Commands -> Transcript \cup {None}],
     handles : SUBSET Handles,
     activations : [Handles -> SUBSET Commands],
     next : CounterHandles]

\* The absent values are none of the values they stand in for.
ASSUME LogAssumption ==
    /\ HandleSpace \in Nat \ {0}
    /\ None \notin Handles \cup Payloads \cup Transcript \cup {Aborted}
    /\ Aborted \notin Handles

EmptyLog ==
    [current |-> [s \in Scopes |-> None],
     transcripts |-> [c \in Commands |-> None],
     handles |-> {},
     activations |-> [h \in Handles |-> {}],
     next |-> 0]

\* The command's predecessor is no longer the head of its scope.
Stale(log, c) ==
    log.current[log.transcripts[c].scope] # log.transcripts[c].predecessor

Activated(log, c) ==
    /\ log.transcripts[c] # None
    /\ log.transcripts[c].terminal \in Handles

Kept(log, out) == [log |-> log, out |-> out]

-----------------------------------------------------------------------------
(* Operations *)

\* install_genesis(): the first head of a scope, a handle of any origin.
InstallGenesis(log, s, h) ==
    IF log.current[s] # None THEN Kept(log, "CommandMismatch")
    ELSE [log |-> [log EXCEPT !.current[s] = h, !.handles = @ \cup {h}],
          out |-> "Ok"]

\* begin(): a command starts against the current head of its scope.
Begin(log, s, c, predecessor, parameters) ==
    LET t == log.transcripts[c] IN
    IF t # None
    THEN IF /\ t.scope = s
            /\ t.predecessor = predecessor
            /\ t.parameters = parameters
         THEN Kept(log, "Ok") ELSE Kept(log, "CommandMismatch")
    ELSE IF log.current[s] # predecessor THEN Kept(log, "StalePredecessor")
    ELSE [log |-> [log EXCEPT !.transcripts[c] =
                    [scope |-> s, predecessor |-> predecessor,
                     parameters |-> parameters,
                     posts |-> [k \in Phases \X Roles |-> None],
                     next |-> Commit, terminal |-> None]],
          out |-> "Ok"]

\* Slip: a later post replaces the first one.
Post_Overwrites(log, c, phase, role, payload) ==
    LET t == log.transcripts[c] IN
    IF t = None THEN Kept(log, "ParticipantNotFound")
    ELSE IF t.terminal # None THEN Kept(log, "AlreadyTerminal")
    ELSE IF t.next # phase THEN Kept(log, "PhaseClosed")
    ELSE IF Stale(log, c) THEN Kept(log, "StalePredecessor")
    ELSE [log |-> [log EXCEPT !.transcripts[c].posts[<<phase, role>>] =
                                payload],
          out |-> "Ok"]

\* post(): the first post of a role in a phase.
Post(log, c, phase, role, payload) ==
    LET t == log.transcripts[c] IN
    IF t = None THEN Kept(log, "ParticipantNotFound")
    ELSE IF t.posts[<<phase, role>>] # None
         THEN Kept(log, IF t.posts[<<phase, role>>] = payload
                        THEN "Ok" ELSE "ReplayMismatch")
    ELSE IF t.terminal # None THEN Kept(log, "AlreadyTerminal")
    ELSE IF t.next # phase THEN Kept(log, "PhaseClosed")
    ELSE IF Stale(log, c) THEN Kept(log, "StalePredecessor")
    ELSE [log |-> [log EXCEPT !.transcripts[c].posts[<<phase, role>>] =
                                payload],
          out |-> "Ok"]

\* Slip: the predecessor is checked on posts only.
ClosePhase_Unchecked(log, c, phase) ==
    LET t == log.transcripts[c] IN
    IF t = None THEN Kept(log, "ParticipantNotFound")
    ELSE IF t.next > phase THEN Kept(log, "Ok")
    ELSE IF t.terminal # None THEN Kept(log, "AlreadyTerminal")
    ELSE IF t.next # phase THEN Kept(log, "PhaseClosed")
    ELSE [log |-> [log EXCEPT !.transcripts[c].next = phase + 1],
          out |-> "Ok"]

\* close_phase(): phases close in order; a closed one stays closed.
ClosePhase(log, c, phase) ==
    LET t == log.transcripts[c] IN
    IF t = None THEN Kept(log, "ParticipantNotFound")
    ELSE IF t.next > phase THEN Kept(log, "Ok")
    ELSE IF t.terminal # None THEN Kept(log, "AlreadyTerminal")
    ELSE IF Stale(log, c) THEN Kept(log, "StalePredecessor")
    ELSE IF t.next # phase THEN Kept(log, "PhaseClosed")
    ELSE [log |-> [log EXCEPT !.transcripts[c].next = phase + 1],
          out |-> "Ok"]

\* Slip: an activated command can still be aborted.
Abort_Always(log, c) ==
    IF log.transcripts[c] = None THEN Kept(log, "ParticipantNotFound")
    ELSE [log |-> [log EXCEPT !.transcripts[c].terminal = Aborted],
          out |-> "Ok"]

\* abort(): the command ends without installation.
Abort(log, c) ==
    IF log.transcripts[c] = None THEN Kept(log, "ParticipantNotFound")
    ELSE IF Activated(log, c) THEN Kept(log, "AlreadyTerminal")
    ELSE [log |-> [log EXCEPT !.transcripts[c].terminal = Aborted],
          out |-> "Ok"]

\* Slip: the counter does not look at the handles already known.
IsFresh_Counter(log, h) == h = (log.next + 1) % HandleSpace

\* fresh_handle(): h is the first counter value from next on that no scope
\* and no activation has used. Without one the call does not return.
IsFresh(log, h) ==
    \E d \in 1 .. HandleSpace :
        /\ h = (log.next + d) % HandleSpace
        /\ h \notin log.handles
        /\ \A e \in 1 .. d - 1 : (log.next + e) % HandleSpace \in log.handles

Members(commands) == {commands[i] : i \in DOMAIN commands}

\* Slip: two commands of one scope may share a bundle.
WellFormed_AnyScope(log, commands) ==
    /\ \A i, j \in DOMAIN commands : i # j => commands[i] # commands[j]
    /\ \A c \in Members(commands) : log.transcripts[c] # None

\* The commands are known, distinct, and of distinct scopes.
WellFormed(log, commands) ==
    /\ \A i, j \in DOMAIN commands : i # j => commands[i] # commands[j]
    /\ \A c \in Members(commands) : log.transcripts[c] # None
    /\ \A c, d \in Members(commands) :
        c # d => log.transcripts[c].scope # log.transcripts[d].scope

\* Slip: only the first command's predecessor is compared.
BundleVerdict_First(log, commands) ==
    LET S == Members(commands) IN
    IF commands = <<>> THEN "EmptyInput"
    ELSE IF ~WellFormed(log, commands) THEN "CommandMismatch"
    ELSE IF \A c \in S : Activated(log, c)
         THEN IF \E h \in Handles :
                    /\ \A c \in S : log.transcripts[c].terminal = h
                    /\ log.activations[h] = S
              THEN "Replay" ELSE "CommandMismatch"
    ELSE IF \E c \in S : log.transcripts[c].terminal # None
         THEN "AlreadyTerminal"
    ELSE IF \E c \in S : log.transcripts[c].next # Done THEN "PhaseClosed"
    ELSE IF Stale(log, commands[1]) THEN "StalePredecessor"
    ELSE "Fresh"

\* The checks of activate_bundle(): an error, "Replay" for the exact bundle
\* activated before, "Fresh" for one to install. The code runs them command
\* by command; where several fail it may report another of the errors.
BundleVerdict(log, commands) ==
    LET S == Members(commands) IN
    IF commands = <<>> THEN "EmptyInput"
    ELSE IF ~WellFormed(log, commands) THEN "CommandMismatch"
    ELSE IF \A c \in S : Activated(log, c)
         THEN IF \E h \in Handles :
                    /\ \A c \in S : log.transcripts[c].terminal = h
                    /\ log.activations[h] = S
              THEN "Replay" ELSE "CommandMismatch"
    ELSE IF \E c \in S : log.transcripts[c].terminal # None
         THEN "AlreadyTerminal"
    ELSE IF \E c \in S : log.transcripts[c].next # Done THEN "PhaseClosed"
    ELSE IF \E c \in S : Stale(log, c) THEN "StalePredecessor"
    ELSE "Fresh"

\* Every scope of the bundle moves to h, or none does.
Install(log, commands, h) ==
    LET S == Members(commands) IN
    [current |-> [s \in Scopes |->
        IF \E c \in S : log.transcripts[c].scope = s THEN h
        ELSE log.current[s]],
     transcripts |-> [c \in Commands |->
        IF c \in S THEN [log.transcripts[c] EXCEPT !.terminal = h]
        ELSE log.transcripts[c]],
     handles |-> log.handles \cup {h},
     activations |-> [log.activations EXCEPT ![h] = S],
     next |-> h]

\* activate_bundle(), with h the handle that fresh_handle() would return.
ActivateBundle(log, commands, h) ==
    IF BundleVerdict(log, commands) = "Fresh"
    THEN [log |-> Install(log, commands, h), out |-> "Ok"]
    ELSE Kept(log, IF BundleVerdict(log, commands) = "Replay" THEN "Ok"
                   ELSE BundleVerdict(log, commands))

=============================================================================
