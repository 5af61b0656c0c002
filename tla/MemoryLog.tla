------------------------------ MODULE MemoryLog -----------------------------
(***************************************************************************)
(* One MemoryLog (src/src/log_act.rs) under callers who may make any call  *)
(* at any time: rivals for one predecessor, replays, altered and late      *)
(* posts, bundles in any order, scopes founded on any handle.              *)
(***************************************************************************)
EXTENDS Log, FiniteSets

CONSTANTS
    Founders,       \* handles a caller may found a scope on
    Bundles,        \* lists of commands a caller may activate together
    MaxPosts        \* bound: the posts a log may retain

VARIABLES
    log,        \* the MemoryLog
    history     \* every value current() has had, per scope, oldest first

ASSUME MemoryLogAssumption ==
    /\ Founders \subseteq Handles
    /\ \A commands \in Bundles : commands \in Seq(Commands)
    /\ None \notin [scope : Scopes, predecessor : Handles]

vars == <<log, history>>

Begun(c) == log.transcripts[c] # None

\* The posts that a log retains.
Posts(l) == {q \in Commands \X (Phases \X Roles) :
                /\ l.transcripts[q[1]] # None
                /\ l.transcripts[q[1]].posts[q[2]] # None}

TypeOK ==
    /\ log \in LogState
    /\ history \in [Scopes -> Seq(Handles)]

Init ==
    /\ log = EmptyLog
    /\ history = [s \in Scopes |-> <<>>]

\* The call leaves the log l; readers of current() may see new heads.
Returns(l) ==
    /\ log' = l
    /\ history' = [s \in Scopes |->
                    IF l.current[s] = log.current[s] THEN history[s]
                    ELSE Append(history[s], l.current[s])]

DoInstallGenesis ==
    \E s \in Scopes, h \in Founders : Returns(InstallGenesis(log, s, h).log)

DoBegin ==
    \E s \in Scopes, c \in Commands, h \in Handles, p \in Parameters :
        Returns(Begin(log, s, c, h, p).log)

\* MaxPosts bounds what is retained, not replays.
DoPost ==
    \E c \in Commands, phase \in Phases, role \in Roles, p \in Payloads :
        LET l == Post(log, c, phase, role, p).log IN
        /\ Cardinality(Posts(l)) <= MaxPosts
        /\ Returns(l)

DoClosePhase ==
    \E c \in Commands, phase \in Phases : Returns(ClosePhase(log, c, phase).log)

DoAbort ==
    \E c \in Commands : Returns(Abort(log, c).log)

\* An error or a replay needs no handle.
DoActivateKept ==
    \E commands \in Bundles :
        /\ BundleVerdict(log, commands) # "Fresh"
        /\ Returns(ActivateBundle(log, commands, None).log)

DoActivate ==
    \E commands \in Bundles, h \in CounterHandles :
        /\ BundleVerdict(log, commands) = "Fresh"
        /\ IsFresh(log, h)
        /\ Returns(ActivateBundle(log, commands, h).log)

Next ==
    \/ DoInstallGenesis
    \/ DoBegin
    \/ DoPost
    \/ DoClosePhase
    \/ DoAbort
    \/ DoActivateKept
    \/ DoActivate

Spec == Init /\ [][Next]_vars

-----------------------------------------------------------------------------
(* Properties *)

\* Two activated commands never share scope and predecessor: however rivals
\* interleave their posts, closes and bundles, activate_bundle() installs at
\* most one successor of a head.
OneSuccessor ==
    \A c, d \in Commands :
        /\ Activated(log, c)
        /\ Activated(log, d)
        /\ c # d
        => \/ log.transcripts[c].scope # log.transcripts[d].scope
           \/ log.transcripts[c].predecessor # log.transcripts[d].predecessor

\* A handle names one history: the bundle retained for it is the set of all
\* commands that ended under it, of different scopes, even when the counter
\* wraps or meets a handle that install_genesis() brought in.
HandleNamesOneBundle ==
    /\ \A h \in Handles :
        log.activations[h] = {c \in Commands :
                                /\ Activated(log, c)
                                /\ log.transcripts[c].terminal = h}
    /\ \A c, d \in Commands :
        /\ Activated(log, c)
        /\ Activated(log, d)
        /\ c # d
        /\ log.transcripts[c].terminal = log.transcripts[d].terminal
        => log.transcripts[c].scope # log.transcripts[d].scope

\* current() returns the end of a scope's history, no handle occurs in a
\* history twice, and every handle of a history is known to fresh_handle().
HeadsEndHistory ==
    /\ \A s \in Scopes :
        IF history[s] = <<>> THEN log.current[s] = None
        ELSE log.current[s] = history[s][Len(history[s])]
    /\ \A s \in Scopes : \A i, j \in 1 .. Len(history[s]) :
        i # j => history[s][i] # history[s][j]
    /\ \A s \in Scopes : \A i \in 1 .. Len(history[s]) :
        history[s][i] \in log.handles

\* The command was begun against a head of its scope, and an activated one
\* ended under the head that followed.
Follows(c) ==
    LET t == log.transcripts[c] IN
    \E i \in 1 .. Len(history[t.scope]) :
        /\ history[t.scope][i] = t.predecessor
        /\ Activated(log, c) =>
            /\ i < Len(history[t.scope])
            /\ history[t.scope][i + 1] = t.terminal

\* The inductive invariant of the proofs: every command that begin() let in
\* has its place in the history of its scope.
LInv ==
    /\ TypeOK
    /\ HeadsEndHistory
    /\ \A c \in Commands : Begun(c) => Follows(c)
    /\ HandleNamesOneBundle

\* A transcript is append-only: parameters stay, posts are never replaced,
\* phases never reopen, and a terminal decision is final.
PrefixRetained ==
    [][\A c \in Commands : Begun(c) =>
        LET t == log.transcripts[c]
            u == log'.transcripts[c] IN
        /\ u # None
        /\ u.scope = t.scope
        /\ u.predecessor = t.predecessor
        /\ u.parameters = t.parameters
        /\ \A k \in Phases \X Roles :
            t.posts[k] # None => u.posts[k] = t.posts[k]
        /\ u.next >= t.next
        /\ t.terminal # None => u.terminal = t.terminal]_vars

\* A command whose predecessor has been succeeded, or that has ended, gains
\* no post and closes no phase: a losing candidate releases no more data.
LosersFrozen ==
    [][\A c \in Commands :
        /\ Begun(c)
        /\ Stale(log, c) \/ log.transcripts[c].terminal # None
        => /\ log'.transcripts[c].posts = log.transcripts[c].posts
           /\ log'.transcripts[c].next = log.transcripts[c].next]_vars

\* The log implements ActivationHistory: heads only move by whole bundles
\* from the predecessor each command was begun against, to unused handles.
History == INSTANCE ActivationHistory WITH
    proposal <- [c \in Commands |->
        IF log.transcripts[c] = None THEN None
        ELSE [scope |-> log.transcripts[c].scope,
              predecessor |-> log.transcripts[c].predecessor]],
    decision <- [c \in Commands |->
        IF log.transcripts[c] = None THEN None
        ELSE log.transcripts[c].terminal]

ImplementsHistory == History!Spec

=============================================================================
