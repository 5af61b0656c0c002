--------------------------- MODULE MemoryLogProofs --------------------------
(***************************************************************************)
(* Safety of MemoryLog for any scopes, commands, roles, bundles and size   *)
(* of the handle counter: LInv is inductive, and from it one successor per *)
(* head, append-only transcripts, frozen losers and the implementation of  *)
(* ActivationHistory.                                                      *)
(*                                                                         *)
(* The argument: a call leaves the log as it was, founds a scope, begins a *)
(* command, changes one transcript without activating it, or installs a    *)
(* bundle. Only the last moves a head, to a handle that is not in handles; *)
(* since handles holds every history, a head never returns, and a command  *)
(* whose predecessor was left behind stays stale for ever.                 *)
(***************************************************************************)
EXTENDS MemoryLog, TLAPS

-----------------------------------------------------------------------------
(* What a call does *)

\* u extends the transcript t: nothing is taken back.
Extends(t, u) ==
    /\ u \in Transcript
    /\ u.scope = t.scope
    /\ u.predecessor = t.predecessor
    /\ u.parameters = t.parameters
    /\ \A k \in Phases \X Roles : t.posts[k] # None => u.posts[k] = t.posts[k]
    /\ u.next >= t.next

\* One transcript grows by a post or a phase, or is aborted.
Grows(l, m, c, u) ==
    /\ l.transcripts[c] # None
    /\ l.transcripts[c].terminal = None
    /\ ~Stale(l, c)
    /\ Extends(l.transcripts[c], u)
    /\ u.terminal = None
    /\ m = [l EXCEPT !.transcripts[c] = u]

Ends(l, m, c, u) ==
    /\ l.transcripts[c] # None
    /\ l.transcripts[c].terminal \in {None, Aborted}
    /\ u = [l.transcripts[c] EXCEPT !.terminal = Aborted]
    /\ m = [l EXCEPT !.transcripts[c] = u]

\* post() adds one post to a current, open transcript, or does nothing.
LEMMA PostEffect ==
    ASSUME NEW l \in LogState, NEW c \in Commands, NEW phase \in Phases,
           NEW role \in Roles, NEW p \in Payloads
    PROVE  LET m == Post(l, c, phase, role, p).log IN
           m = l \/ \E u \in Transcript : Grows(l, m, c, u)
<1> DEFINE m == Post(l, c, phase, role, p).log
           t == l.transcripts[c]
           u == [t EXCEPT !.posts[<<phase, role>>] = p]
<1>1. CASE m # l
  <2>1. /\ t # None
        /\ t.posts[<<phase, role>>] = None
        /\ t.terminal = None
        /\ ~Stale(l, c)
        /\ m = [l EXCEPT !.transcripts[c].posts[<<phase, role>>] = p]
    BY <1>1 DEF Post, Kept
  <2>2. t \in Transcript
    BY <2>1 DEF LogState
  <2>a. /\ t.posts \in [Phases \X Roles -> Payloads \cup {None}]
        /\ t.next \in Commit .. Done
    BY <2>2 DEF Transcript
  <2>b. /\ u.scope = t.scope
        /\ u.predecessor = t.predecessor
        /\ u.parameters = t.parameters
        /\ u.posts = [t.posts EXCEPT ![<<phase, role>>] = p]
        /\ u.next = t.next
        /\ u.terminal = t.terminal
    BY <2>2 DEF Transcript
  <2>c. u.posts \in [Phases \X Roles -> Payloads \cup {None}]
    BY <2>a, <2>b
  <2>d. [t EXCEPT !.posts = u.posts] \in Transcript
    BY <2>2, <2>c DEF Transcript
  <2>e. u = [t EXCEPT !.posts = u.posts]
    BY <2>2, <2>b DEF Transcript
  <2>f. \A k \in Phases \X Roles : t.posts[k] # None => u.posts[k] = t.posts[k]
    BY <2>1, <2>a, <2>b
  <2>g. u.next >= t.next
    BY <2>a, <2>b DEF Commit, Done
  <2>3. u \in Transcript /\ Extends(t, u) /\ u.terminal = None
    <3> HIDE DEF u, t
    <3> QED
      BY <2>1, <2>b, <2>d, <2>e, <2>f, <2>g DEF Extends
  <2>4. m = [l EXCEPT !.transcripts[c] = u]
    BY <2>1 DEF LogState
  <2> QED
    BY <2>1, <2>3, <2>4 DEF Grows
<1> QED
  BY <1>1

\* close_phase() advances a current, open transcript, or does nothing.
LEMMA ClosePhaseEffect ==
    ASSUME NEW l \in LogState, NEW c \in Commands, NEW phase \in Phases
    PROVE  LET m == ClosePhase(l, c, phase).log IN
           m = l \/ \E u \in Transcript : Grows(l, m, c, u)
<1> DEFINE m == ClosePhase(l, c, phase).log
           t == l.transcripts[c]
           u == [t EXCEPT !.next = phase + 1]
<1>1. CASE m # l
  <2>1. /\ t # None
        /\ t.next = phase
        /\ t.terminal = None
        /\ ~Stale(l, c)
        /\ m = [l EXCEPT !.transcripts[c].next = phase + 1]
    BY <1>1 DEF ClosePhase, Kept
  <2>2. t \in Transcript
    BY <2>1 DEF LogState
  <2>3. u \in Transcript /\ Extends(t, u) /\ u.terminal = None
    BY <2>1, <2>2 DEF Transcript, Extends, Phases, Commit, Receipt, Done
  <2>4. m = [l EXCEPT !.transcripts[c] = u]
    BY <2>1 DEF LogState
  <2> QED
    BY <2>1, <2>3, <2>4 DEF Grows
<1> QED
  BY <1>1

\* abort() ends a transcript that is not activated, or does nothing.
LEMMA AbortEffect ==
    ASSUME NEW l \in LogState, NEW c \in Commands
    PROVE  LET m == Abort(l, c).log IN
           m = l \/ \E u \in Transcript : Ends(l, m, c, u)
<1> DEFINE m == Abort(l, c).log
           t == l.transcripts[c]
           u == [t EXCEPT !.terminal = Aborted]
<1>1. CASE m # l
  <2>1. /\ t # None
        /\ ~Activated(l, c)
        /\ m = [l EXCEPT !.transcripts[c].terminal = Aborted]
    BY <1>1 DEF Abort, Kept
  <2>2. t \in Transcript
    BY <2>1 DEF LogState
  <2>3. u \in Transcript /\ t.terminal \in {None, Aborted}
    BY <2>1, <2>2 DEF Transcript, Activated, Terminal
  <2>4. m = [l EXCEPT !.transcripts[c] = u]
    BY <2>1 DEF LogState
  <2> QED
    BY <2>1, <2>3, <2>4 DEF Ends
<1> QED
  BY <1>1

-----------------------------------------------------------------------------
(* Calls that move no head *)

\* Putting a transcript in place gives a log again.
LEMMA PutTranscript ==
    ASSUME NEW l \in LogState, NEW c \in Commands, NEW u \in Transcript
    PROVE  [l EXCEPT !.transcripts[c] = u] \in LogState
BY DEF LogState

\* A call that leaves current as it was adds nothing to a history.
LEMMA SameHeads ==
    ASSUME TypeOK, NEW l, Returns(l), l.current = log.current
    PROVE  log' = l /\ history' = history
BY DEF Returns, TypeOK

\* A changed transcript that keeps its scope and predecessor, and is as
\* little activated as before, keeps the invariant.
LEMMA TranscriptStep ==
    ASSUME LInv, NEW c \in Commands, NEW u \in Transcript,
           log.transcripts[c] # None,
           u.scope = log.transcripts[c].scope,
           u.predecessor = log.transcripts[c].predecessor,
           log.transcripts[c].terminal \notin Handles,
           u.terminal \notin Handles,
           log' = [log EXCEPT !.transcripts[c] = u],
           history' = history
    PROVE  LInv'
<1> USE LogAssumption
<1>1. TypeOK'
  BY DEF LInv, TypeOK, LogState
<1>2. /\ log'.current = log.current
      /\ log'.handles = log.handles
      /\ log'.activations = log.activations
      /\ log'.transcripts = [log.transcripts EXCEPT ![c] = u]
  BY DEF LInv, TypeOK, LogState
<1>3. \A d \in Commands : d # c => log'.transcripts[d] = log.transcripts[d]
  BY <1>2 DEF LInv, TypeOK, LogState
<1>4. log'.transcripts[c] = u /\ u # None
  BY <1>2 DEF LInv, TypeOK, LogState
<1>5. \A d \in Commands : Activated(log', d) <=> Activated(log, d)
  BY <1>3, <1>4 DEF Activated
<1>6. HeadsEndHistory'
  BY <1>2 DEF LInv, HeadsEndHistory
<1>7. \A d \in Commands : Begun(d)' => Follows(d)'
  <2> SUFFICES ASSUME NEW d \in Commands, Begun(d)'
               PROVE  Follows(d)'
    OBVIOUS
  <2>1. Begun(d)
    BY <1>3 DEF Begun
  <2>2. Follows(d)
    BY <2>1 DEF LInv
  <2>3. CASE d = c
    BY <2>2, <2>3, <1>4, <1>5 DEF Follows, Activated
  <2>4. CASE d # c
    BY <2>2, <2>4, <1>3, <1>5 DEF Follows, Activated
  <2> QED
    BY <2>3, <2>4
<1>8. HandleNamesOneBundle'
  <2>1. \A d \in Commands : Activated(log, d) => d # c
    BY DEF Activated
  <2>2. \A d \in Commands :
            Activated(log, d) => log'.transcripts[d] = log.transcripts[d]
    BY <2>1, <1>3
  <2>3. \A h \in Handles :
            {d \in Commands : Activated(log', d)
                                /\ log'.transcripts[d].terminal = h}
            = {d \in Commands : Activated(log, d)
                                /\ log.transcripts[d].terminal = h}
    BY <2>2, <1>5
  <2> QED
    BY <2>2, <2>3, <1>2, <1>5 DEF LInv, HandleNamesOneBundle
<1> QED
  BY <1>1, <1>6, <1>7, <1>8 DEF LInv

\* A new transcript u, made against the head of its scope.
Begins(c, u) ==
    /\ log.transcripts[c] = None
    /\ u \in Transcript
    /\ u.terminal = None
    /\ log.current[u.scope] = u.predecessor
    /\ log' = [log EXCEPT !.transcripts[c] = u]
    /\ history' = history

\* begin() starts a command against the head of its scope, or does nothing.
LEMMA BeginEffect ==
    ASSUME LInv, NEW s \in Scopes, NEW c \in Commands, NEW h \in Handles,
           NEW p \in Parameters, Returns(Begin(log, s, c, h, p).log)
    PROVE  \/ log' = log /\ history' = history
           \/ \E u \in Transcript : Begins(c, u)
<1> USE LogAssumption
<1> DEFINE m == Begin(log, s, c, h, p).log
           u == [scope |-> s, predecessor |-> h, parameters |-> p,
                 posts |-> [k \in Phases \X Roles |-> None],
                 next |-> Commit, terminal |-> None]
<1>1. CASE m = log
  BY <1>1, SameHeads DEF LInv
<1>2. CASE m # log
  <2>1. /\ log.transcripts[c] = None
        /\ log.current[s] = h
        /\ m = [log EXCEPT !.transcripts[c] = u]
    BY <1>2 DEF Begin, Kept
  <2>2. u \in Transcript
    BY DEF Transcript, Phases, Commit, Receipt, Done, Terminal
  <2>3. m.current = log.current
    BY <2>1 DEF LInv, TypeOK, LogState
  <2>4. log' = m /\ history' = history
    BY <2>3, SameHeads DEF LInv
  <2> QED
    BY <2>1, <2>2, <2>4 DEF Begins
<1> QED
  BY <1>1, <1>2

\* Beginning a command keeps the invariant: it names the end of a history.
LEMMA BeginStep ==
    ASSUME LInv, NEW c \in Commands, NEW u, Begins(c, u)
    PROVE  LInv'
<1> USE LogAssumption
<1>1. /\ log.transcripts[c] = None
      /\ log.current[u.scope] = u.predecessor
      /\ log' = [log EXCEPT !.transcripts[c] = u]
  BY DEF Begins
<1>2. u \in Transcript /\ u.terminal = None
  BY DEF Begins
<1>3. u.scope \in Scopes /\ u.predecessor \in Handles
  BY <1>2 DEF Transcript
<1>4. history' = history
  BY DEF Begins
<1>5. TypeOK'
  BY <1>1, <1>2, <1>4, PutTranscript DEF LInv, TypeOK
<1>6. /\ log'.current = log.current
      /\ log'.handles = log.handles
      /\ log'.activations = log.activations
      /\ \A d \in Commands :
          d # c => log'.transcripts[d] = log.transcripts[d]
      /\ log'.transcripts[c] = u
  BY <1>1, <1>4 DEF LInv, TypeOK, LogState
<1>7. \A d \in Commands : Activated(log', d) <=> Activated(log, d)
  BY <1>1, <1>2, <1>6 DEF Activated
<1>8. HeadsEndHistory'
  BY <1>4, <1>6 DEF LInv, HeadsEndHistory
<1>9. \A d \in Commands : Begun(d)' => Follows(d)'
  <2> SUFFICES ASSUME NEW d \in Commands, Begun(d)'
               PROVE  Follows(d)'
    OBVIOUS
  <2>1. CASE d = c
    <3>1. /\ history[u.scope] # <<>>
          /\ history[u.scope][Len(history[u.scope])] = u.predecessor
      BY <1>1, <1>3 DEF LInv, HeadsEndHistory
    <3>2. Len(history[u.scope]) \in 1 .. Len(history[u.scope])
      BY <3>1, <1>3 DEF LInv, TypeOK
    <3> QED
      BY <2>1, <3>1, <3>2, <1>1, <1>2, <1>4, <1>6, <1>7 DEF Follows, Activated
  <2>2. CASE d # c
    <3>1. Follows(d)
      BY <2>2, <1>6 DEF LInv, Begun
    <3> QED
      BY <2>2, <3>1, <1>4, <1>6, <1>7 DEF Follows, Activated
  <2> QED
    BY <2>1, <2>2
<1>10. HandleNamesOneBundle'
  <2>1. \A d \in Commands :
            Activated(log, d) => log'.transcripts[d] = log.transcripts[d]
    BY <1>1, <1>6 DEF Activated
  <2>2. \A g \in Handles :
            {d \in Commands : Activated(log', d)
                                /\ log'.transcripts[d].terminal = g}
            = {d \in Commands : Activated(log, d)
                                /\ log.transcripts[d].terminal = g}
    BY <2>1, <1>7
  <2> QED
    BY <2>1, <2>2, <1>6, <1>7 DEF LInv, HandleNamesOneBundle
<1> QED
  BY <1>5, <1>8, <1>9, <1>10 DEF LInv

-----------------------------------------------------------------------------
(* Calls that move a head *)

\* A founded scope: it had no history, and its first handle is h.
Founds(s, h) ==
    /\ history[s] = <<>>
    /\ history' = [history EXCEPT ![s] = <<h>>]
    /\ log' \in LogState
    /\ log'.current = [log.current EXCEPT ![s] = h]
    /\ log'.transcripts = log.transcripts
    /\ log'.handles = log.handles \cup {h}
    /\ log'.activations = log.activations

\* install_genesis() founds the scope, or does nothing.
LEMMA GenesisEffect ==
    ASSUME LInv, NEW s \in Scopes, NEW h \in Handles,
           Returns(InstallGenesis(log, s, h).log)
    PROVE  (log' = log /\ history' = history) \/ Founds(s, h)
<1> USE LogAssumption
<1> DEFINE m == InstallGenesis(log, s, h).log
<1>1. CASE m = log
  BY <1>1, SameHeads DEF LInv
<1>2. CASE m # log
  <2>1. /\ log.current[s] = None
        /\ m = [log EXCEPT !.current[s] = h, !.handles = @ \cup {h}]
    BY <1>2 DEF InstallGenesis, Kept
  <2>2. /\ m \in LogState
        /\ m.current = [log.current EXCEPT ![s] = h]
        /\ m.transcripts = log.transcripts
        /\ m.handles = log.handles \cup {h}
        /\ m.activations = log.activations
    <3> HIDE DEF m
    <3>1. log \in LogState
      BY DEF LInv, TypeOK
    <3>2. /\ m.current = [log.current EXCEPT ![s] = h]
          /\ m.transcripts = log.transcripts
          /\ m.handles = log.handles \cup {h}
          /\ m.activations = log.activations
          /\ m.next = log.next
          /\ m = [current |-> m.current, transcripts |-> m.transcripts,
                  handles |-> m.handles, activations |-> m.activations,
                  next |-> m.next]
      BY <2>1, <3>1 DEF LogState
    <3>3. m.current \in [Scopes -> Handles \cup {None}]
      BY <3>1, <3>2 DEF LogState
    <3>4. m.handles \in SUBSET Handles
      BY <3>1, <3>2 DEF LogState
    <3> QED
      BY <3>1, <3>2, <3>3, <3>4 DEF LogState
  <2>3. history[s] = <<>>
    <3>1. SUFFICES ASSUME history[s] # <<>> PROVE FALSE
      OBVIOUS
    <3>2. Len(history[s]) \in 1 .. Len(history[s]) /\ history[s] \in Seq(Handles)
      BY <3>1 DEF LInv, TypeOK
    <3>3. history[s][Len(history[s])] \in Handles
      BY <3>2
    <3> QED
      BY <3>1, <3>3, <2>1 DEF LInv, HeadsEndHistory
  <2>4. log' = m /\ history' = [history EXCEPT ![s] = <<h>>]
    <3>1. log' = m
      BY DEF Returns
    <3>2. m.current[s] # log.current[s]
      BY <2>1, <2>2 DEF LInv, TypeOK, LogState
    <3>3. Append(history[s], h) = <<h>>
      BY <2>3
    <3>4. history' = [r \in Scopes |-> IF r = s THEN <<h>> ELSE history[r]]
      BY <2>2, <3>2, <3>3 DEF Returns, LInv, TypeOK, LogState
    <3> QED
      BY <3>1, <3>4 DEF LInv, TypeOK
  <2> QED
    BY <2>2, <2>3, <2>4 DEF Founds
<1> QED
  BY <1>1, <1>2

\* Founding a scope keeps the invariant: no command knows the scope yet.
LEMMA GenesisStep ==
    ASSUME LInv, NEW s \in Scopes, NEW h \in Handles, Founds(s, h)
    PROVE  LInv'
<1> USE LogAssumption
<1>2. /\ log' \in LogState
      /\ log'.current = [log.current EXCEPT ![s] = h]
      /\ log'.transcripts = log.transcripts
      /\ log'.handles = log.handles \cup {h}
      /\ log'.activations = log.activations
  BY DEF Founds
<1>3. history[s] = <<>>
  BY DEF Founds
<1>4. history' = [history EXCEPT ![s] = <<h>>]
  BY DEF Founds
<1>5. TypeOK'
  <2>1. <<h>> \in Seq(Handles)
    OBVIOUS
  <2> QED
    BY <1>2, <1>4, <2>1 DEF LInv, TypeOK
<1>6. \A r \in Scopes : r # s => history'[r] = history[r]
  BY <1>4 DEF LInv, TypeOK
<1>7. history'[s] = <<h>> /\ Len(<<h>>) = 1 /\ <<h>>[1] = h /\ <<h>> # <<>>
  BY <1>4 DEF LInv, TypeOK
<1>8. HeadsEndHistory'
  <2>1. \A r \in Scopes : IF history'[r] = <<>> THEN log'.current[r] = None
                          ELSE log'.current[r] = history'[r][Len(history'[r])]
    BY <1>2, <1>4, <1>6, <1>7 DEF LInv, HeadsEndHistory, TypeOK, LogState
  <2>2. \A r \in Scopes : \A i, j \in 1 .. Len(history'[r]) :
          i # j => history'[r][i] # history'[r][j]
    BY <1>6, <1>7 DEF LInv, HeadsEndHistory
  <2>3. \A r \in Scopes : \A i \in 1 .. Len(history'[r]) :
          history'[r][i] \in log'.handles
    BY <1>2, <1>4, <1>6, <1>7 DEF LInv, HeadsEndHistory
  <2> QED
    BY <2>1, <2>2, <2>3 DEF HeadsEndHistory
<1>9. ASSUME NEW c \in Commands, Begun(c)'
      PROVE  Follows(c)'
  <2>1. Begun(c) /\ Follows(c)
    BY <1>2, <1>4, <1>9 DEF LInv, Begun
  <2>2. log.transcripts[c].scope \in Scopes
    BY <2>1 DEF LInv, TypeOK, LogState, Begun, Transcript
  <2>3. Len(<<>>) = 0
    OBVIOUS
  <2>4. log.transcripts[c].scope # s
    BY <2>1, <2>3, <1>3 DEF Follows
  <2>5. history'[log.transcripts[c].scope] = history[log.transcripts[c].scope]
    BY <2>2, <2>4, <1>6
  <2> QED
    BY SMTT(30), <2>1, <2>5, <1>2, <1>4 DEF Follows, Activated
<1>10. HandleNamesOneBundle'
  BY <1>2, <1>4 DEF LInv, HandleNamesOneBundle, Activated
<1> QED
  BY <1>5, <1>8, <1>9, <1>10 DEF LInv

\* A fresh bundle: its commands are undecided, current and of different
\* scopes; each of these scopes moves to h, which no scope has had.
Installs(S, h) ==
    /\ S \subseteq Commands
    /\ S # {}
    /\ \A c \in S : /\ log.transcripts[c] \in Transcript
                    /\ log.transcripts[c] # None
                    /\ log.transcripts[c].terminal = None
                    /\ log.transcripts[c].next = Done
                    /\ ~Stale(log, c)
    /\ \A c, d \in S :
        c # d => log.transcripts[c].scope # log.transcripts[d].scope
    /\ h \in Handles \ log.handles
    /\ log' \in LogState
    /\ log'.current = [s \in Scopes |->
        IF \E c \in S : log.transcripts[c].scope = s THEN h
        ELSE log.current[s]]
    /\ log'.transcripts = [c \in Commands |->
        IF c \in S THEN [log.transcripts[c] EXCEPT !.terminal = h]
        ELSE log.transcripts[c]]
    /\ log'.handles = log.handles \cup {h}
    /\ log'.activations = [log.activations EXCEPT ![h] = S]
    /\ history' = [s \in Scopes |->
        IF \E c \in S : log.transcripts[c].scope = s
        THEN Append(history[s], h) ELSE history[s]]

\* activate_bundle() with a fresh bundle installs it.
LEMMA InstallEffect ==
    ASSUME LInv, NEW commands \in Bundles, NEW h \in CounterHandles,
           BundleVerdict(log, commands) = "Fresh", IsFresh(log, h),
           Returns(ActivateBundle(log, commands, h).log)
    PROVE  Installs(Members(commands), h)
<1> USE LogAssumption
<1> DEFINE S == Members(commands)
<1>1. S \subseteq Commands /\ S # {}
  <2>1. commands \in Seq(Commands)
    BY MemoryLogAssumption
  <2>2. commands # <<>>
    BY DEF BundleVerdict
  <2>3. 1 \in DOMAIN commands /\ \A i \in DOMAIN commands : commands[i] \in Commands
    BY <2>1, <2>2
  <2> QED
    BY <2>3 DEF Members
<1>2. /\ \A c \in S : log.transcripts[c] # None
      /\ \A c, d \in S :
          c # d => log.transcripts[c].scope # log.transcripts[d].scope
  BY DEF BundleVerdict, WellFormed
<1>3. \A c \in S : /\ log.transcripts[c].terminal = None
                   /\ log.transcripts[c].next = Done
                   /\ ~Stale(log, c)
  BY DEF BundleVerdict
<1>4. \A c \in S : log.transcripts[c] \in Transcript
  BY <1>1, <1>2 DEF LInv, TypeOK, LogState
<1>5. h \in Handles \ log.handles
  BY DEF IsFresh, Handles
<1>6. log' = Install(log, commands, h)
  BY DEF ActivateBundle, Returns
<1>7. /\ log'.current = [s \in Scopes |->
            IF \E c \in S : log.transcripts[c].scope = s THEN h
            ELSE log.current[s]]
      /\ log'.transcripts = [c \in Commands |->
            IF c \in S THEN [log.transcripts[c] EXCEPT !.terminal = h]
            ELSE log.transcripts[c]]
      /\ log'.handles = log.handles \cup {h}
      /\ log'.activations = [log.activations EXCEPT ![h] = S]
      /\ log'.next = h
      /\ log' = [current |-> log'.current, transcripts |-> log'.transcripts,
                 handles |-> log'.handles, activations |-> log'.activations,
                 next |-> log'.next]
  BY <1>6 DEF Install
<1>8. log' \in LogState
  <2>1. \A c \in S : [log.transcripts[c] EXCEPT !.terminal = h] \in Transcript
    BY <1>4, <1>5 DEF Transcript, Terminal
  <2>2. log'.transcripts \in [Commands -> Transcript \cup {None}]
    BY <1>7, <2>1 DEF LInv, TypeOK, LogState
  <2>3. log'.current \in [Scopes -> Handles \cup {None}]
    BY <1>7, <1>5 DEF LInv, TypeOK, LogState
  <2>4. log'.handles \in SUBSET Handles
    BY <1>7, <1>5 DEF LInv, TypeOK, LogState
  <2>5. log'.activations \in [Handles -> SUBSET Commands]
    <3>1. log.activations \in [Handles -> SUBSET Commands]
      BY DEF LInv, TypeOK, LogState
    <3>2. S \in SUBSET Commands
      BY <1>1
    <3> QED
      BY <1>7, <3>1, <3>2
  <2>6. log'.next \in CounterHandles
    BY <1>7
  <2> QED
    BY <1>7, <2>2, <2>3, <2>4, <2>5, <2>6 DEF LogState
<1>9. history' = [s \in Scopes |->
        IF \E c \in S : log.transcripts[c].scope = s
        THEN Append(history[s], h) ELSE history[s]]
  <2>1. history' = [s \in Scopes |->
                      IF log'.current[s] = log.current[s] THEN history[s]
                      ELSE Append(history[s], log'.current[s])]
    BY DEF Returns
  <2>2. ASSUME NEW c \in S
        PROVE  log.current[log.transcripts[c].scope] # h
    <3>1. Begun(c) /\ Follows(c)
      BY <1>1, <1>2 DEF LInv, Begun
    <3>2. log.transcripts[c].predecessor \in log.handles
      BY <3>1, <1>4 DEF LInv, HeadsEndHistory, Follows, Transcript
    <3> QED
      BY <3>2, <1>3, <1>5 DEF Stale
  <2>3. ASSUME NEW s \in Scopes
        PROVE  /\ (\E c \in S : log.transcripts[c].scope = s) =>
                    log'.current[s] = h /\ log.current[s] # h
               /\ ~(\E c \in S : log.transcripts[c].scope = s) =>
                    log'.current[s] = log.current[s]
    BY <1>7, <2>2
  <2> QED
    BY <2>1, <2>3
<1> QED
  BY <1>1, <1>2, <1>3, <1>4, <1>5, <1>7, <1>8, <1>9 DEF Installs

\* An activated command ended under a handle of its scope's history.
LEMMA TerminalKnown ==
    ASSUME LInv, NEW c \in Commands, Activated(log, c)
    PROVE  log.transcripts[c].terminal \in log.handles
<1> DEFINE t == log.transcripts[c]
<1>1. Begun(c) /\ Follows(c)
  BY DEF LInv, Begun, Activated
<1>2. t \in Transcript
  BY <1>1 DEF LInv, TypeOK, LogState, Begun
<1>3. t.scope \in Scopes
  BY <1>2 DEF Transcript
<1>4. PICK i \in 1 .. Len(history[t.scope]) :
        i < Len(history[t.scope]) /\ history[t.scope][i + 1] = t.terminal
  BY <1>1 DEF Follows
<1>5. history[t.scope] \in Seq(Handles)
  BY <1>3 DEF LInv, TypeOK
<1>6. i + 1 \in 1 .. Len(history[t.scope])
  BY <1>4, <1>5
<1> QED
  BY <1>3, <1>4, <1>6 DEF LInv, HeadsEndHistory

\* Installing a fresh bundle keeps the invariant.
LEMMA InstallStep ==
    ASSUME LInv, NEW S, NEW h, Installs(S, h)
    PROVE  LInv'
<1> USE LogAssumption
<1> DEFINE Hit(s) == \E c \in S : log.transcripts[c].scope = s
<1>1. \A s \in Scopes : history[s] \in Seq(Handles)
  BY DEF LInv, TypeOK
<1>2. h \in Handles /\ h \notin log.handles
  BY DEF Installs
<1>3. ASSUME NEW s \in Scopes
      PROVE  /\ Hit(s) => /\ history'[s] = Append(history[s], h)
                          /\ log'.current[s] = h
             /\ ~Hit(s) => /\ history'[s] = history[s]
                           /\ log'.current[s] = log.current[s]
  BY DEF Installs
<1>4. TypeOK'
  <2>1. ASSUME NEW s \in Scopes
        PROVE  Append(history[s], h) \in Seq(Handles)
    <3>1. history[s] \in Seq(Handles)
      BY <1>1
    <3> QED
      BY <3>1, <1>2
  <2> QED
    BY <1>1, <2>1 DEF Installs, TypeOK
<1>5. ASSUME NEW s \in Scopes
      PROVE  /\ Len(history[s]) \in Nat
             /\ Len(Append(history[s], h)) = Len(history[s]) + 1
             /\ Append(history[s], h)[Len(history[s]) + 1] = h
             /\ \A i \in 1 .. Len(history[s]) :
                  Append(history[s], h)[i] = history[s][i]
             /\ Append(history[s], h) # <<>>
  <2>1. history[s] \in Seq(Handles)
    BY <1>1
  <2> QED
    BY <1>2, <2>1
<1>6. HeadsEndHistory'
  <2>1. ASSUME NEW s \in Scopes
        PROVE  IF history'[s] = <<>> THEN log'.current[s] = None
               ELSE log'.current[s] = history'[s][Len(history'[s])]
    BY <1>3, <1>5 DEF LInv, HeadsEndHistory
  <2>2. ASSUME NEW s \in Scopes, NEW i \in 1 .. Len(history'[s]),
               NEW j \in 1 .. Len(history'[s]), i # j
        PROVE  history'[s][i] # history'[s][j]
    <3>1. CASE ~Hit(s)
      BY <2>2, <3>1, <1>3 DEF LInv, HeadsEndHistory
    <3>2. CASE Hit(s)
      <4>1. \A k \in 1 .. Len(history[s]) : history[s][k] # h
        BY <1>2 DEF LInv, HeadsEndHistory
      <4>0. history'[s] = Append(history[s], h)
        BY <3>2, <1>3
      <4>2. \A k \in 1 .. Len(history'[s]) :
                k \in 1 .. Len(history[s]) \/ k = Len(history[s]) + 1
        BY <4>0, <1>5
      <4>3. \A k \in 1 .. Len(history[s]) : history'[s][k] = history[s][k]
        BY <4>0, <1>5
      <4>4. history'[s][Len(history[s]) + 1] = h
        BY <4>0, <1>5
      <4>5. \A a, b \in 1 .. Len(history[s]) :
                a # b => history[s][a] # history[s][b]
        BY DEF LInv, HeadsEndHistory
      <4> QED
        BY <2>2, <4>1, <4>2, <4>3, <4>4, <4>5
    <3> QED
      BY <3>1, <3>2
  <2>3. ASSUME NEW s \in Scopes, NEW i \in 1 .. Len(history'[s])
        PROVE  history'[s][i] \in log'.handles
    <3>1. log'.handles = log.handles \cup {h}
      BY DEF Installs
    <3>2. \A k \in 1 .. Len(history[s]) : history[s][k] \in log.handles
      BY DEF LInv, HeadsEndHistory
    <3>3. CASE ~Hit(s)
      BY <3>1, <3>2, <3>3, <1>3
    <3>4. CASE Hit(s)
      <4>1. i \in 1 .. Len(history[s]) \/ i = Len(history[s]) + 1
        BY <3>4, <1>3, <1>5
      <4> QED
        BY <3>1, <3>2, <3>4, <4>1, <1>3, <1>5
    <3> QED
      BY <3>3, <3>4
  <2> QED
    BY <2>1, <2>2, <2>3 DEF HeadsEndHistory
<1>7. \A c \in Commands : c \in S =>
        /\ log.transcripts[c] \in Transcript
        /\ log'.transcripts[c] = [log.transcripts[c] EXCEPT !.terminal = h]
        /\ log'.transcripts[c].scope = log.transcripts[c].scope
        /\ log'.transcripts[c].predecessor = log.transcripts[c].predecessor
        /\ log'.transcripts[c].terminal = h
        /\ log'.transcripts[c] # None
        /\ Activated(log', c)
        /\ ~Activated(log, c)
  <2> SUFFICES ASSUME NEW c \in Commands, c \in S
               PROVE  /\ log.transcripts[c] \in Transcript
                      /\ log'.transcripts[c] =
                            [log.transcripts[c] EXCEPT !.terminal = h]
                      /\ log'.transcripts[c].scope = log.transcripts[c].scope
                      /\ log'.transcripts[c].predecessor =
                            log.transcripts[c].predecessor
                      /\ log'.transcripts[c].terminal = h
                      /\ log'.transcripts[c] # None
                      /\ Activated(log', c)
                      /\ ~Activated(log, c)
    OBVIOUS
  <2>1. /\ log.transcripts[c] \in Transcript
        /\ log.transcripts[c].terminal = None
        /\ log'.transcripts[c] = [log.transcripts[c] EXCEPT !.terminal = h]
    BY DEF Installs
  <2>2. /\ log'.transcripts[c] \in Transcript
        /\ log'.transcripts[c].scope = log.transcripts[c].scope
        /\ log'.transcripts[c].predecessor = log.transcripts[c].predecessor
        /\ log'.transcripts[c].terminal = h
    BY <2>1, <1>2 DEF Transcript, Terminal
  <2>3. log'.transcripts[c] # None /\ None \notin Handles
    BY <2>2
  <2> QED
    BY <2>1, <2>2, <2>3, <1>2 DEF Activated
<1>8. \A c \in Commands : c \notin S =>
        /\ log'.transcripts[c] = log.transcripts[c]
        /\ Activated(log', c) <=> Activated(log, c)
  BY DEF Installs, Activated
<1>9. ASSUME NEW c \in Commands, Begun(c)'
      PROVE  Follows(c)'
  <2>0. ASSUME NEW s \in Scopes
        PROVE  /\ Len(history[s]) \in Nat
               /\ Len(history'[s]) >= Len(history[s])
               /\ Len(history'[s]) \in Nat
               /\ \A k \in 1 .. Len(history[s]) :
                    history'[s][k] = history[s][k]
    <3>1. CASE Hit(s)
      <4>1. history'[s] = Append(history[s], h)
        BY <3>1, <1>3
      <4> QED
        BY <4>1, <1>5
    <3>2. CASE ~Hit(s)
      <4>1. history'[s] = history[s]
        BY <3>2, <1>3
      <4> QED
        BY <4>1, <1>5
    <3> QED
      BY <3>1, <3>2
  <2> DEFINE t == log.transcripts[c]
  <2>1. Begun(c) /\ t.scope \in Scopes
    BY ZenonT(60), <1>7, <1>8, <1>9 DEF Begun, LInv, TypeOK, LogState, Transcript
  <2>2. CASE c \in S
    <3>1. Hit(t.scope) /\ t.predecessor = log.current[t.scope]
      BY <2>2 DEF Installs, Stale
    <3>2. t.predecessor \in Handles
      BY <2>2, <1>7 DEF Transcript
    <3>3. /\ history[t.scope] # <<>>
          /\ history[t.scope][Len(history[t.scope])] = t.predecessor
      BY <2>1, <3>1, <3>2 DEF LInv, HeadsEndHistory
    <3>4. Len(history[t.scope]) \in 1 .. Len(history[t.scope])
      BY <2>1, <3>3, <1>1
    <3>5. history'[t.scope] = Append(history[t.scope], h)
      BY <2>1, <3>1, <1>3
    <3>6. /\ history'[t.scope][Len(history[t.scope])] = t.predecessor
          /\ history'[t.scope][Len(history[t.scope]) + 1] = h
          /\ Len(history[t.scope]) < Len(history'[t.scope])
          /\ Len(history[t.scope]) \in 1 .. Len(history'[t.scope])
      BY <2>1, <3>3, <3>4, <3>5, <1>5
    <3> QED
      BY <2>2, <3>6, <1>7 DEF Follows
  <2>3. CASE c \notin S
    <3>1. PICK i \in 1 .. Len(history[t.scope]) :
            /\ history[t.scope][i] = t.predecessor
            /\ Activated(log, c) =>
                /\ i < Len(history[t.scope])
                /\ history[t.scope][i + 1] = t.terminal
      BY <2>1 DEF LInv, Follows
    <3>2. /\ Len(history[t.scope]) \in Nat
          /\ Len(history'[t.scope]) >= Len(history[t.scope])
          /\ Len(history'[t.scope]) \in Nat
          /\ \A k \in 1 .. Len(history[t.scope]) :
                history'[t.scope][k] = history[t.scope][k]
      BY <2>1, <2>0
    <3>3. /\ i \in 1 .. Len(history'[t.scope])
          /\ history'[t.scope][i] = t.predecessor
          /\ Activated(log, c) =>
                /\ i < Len(history'[t.scope])
                /\ history'[t.scope][i + 1] = t.terminal
      <4> HIDE DEF t
      <4>1. i \in 1 .. Len(history'[t.scope])
        BY <3>1, <3>2
      <4>2. Activated(log, c) => i + 1 \in 1 .. Len(history[t.scope])
        BY <3>1, <3>2
      <4> QED
        BY <3>1, <3>2, <4>1, <4>2
    <3> QED
      BY <2>3, <3>3, <1>8 DEF Follows
  <2> QED
    BY <2>2, <2>3
<1>10. HandleNamesOneBundle'
  <2>1. ASSUME NEW g \in Handles
        PROVE  log'.activations[g] = {c \in Commands :
                    Activated(log', c) /\ log'.transcripts[c].terminal = g}
    <3>1. log.activations[g] = {c \in Commands :
                Activated(log, c) /\ log.transcripts[c].terminal = g}
      BY DEF LInv, HandleNamesOneBundle
    <3>2. \A c \in Commands :
            Activated(log, c) => log.transcripts[c].terminal # h
      BY TerminalKnown, <1>2
    <3>3. CASE g = h
      <4>1. log'.activations[g] = S /\ S \subseteq Commands
        BY <3>3, <1>2 DEF Installs, LInv, TypeOK, LogState
      <4> QED
        BY <3>2, <3>3, <4>1, <1>7, <1>8
    <3>4. CASE g # h
      <4>1. log'.activations[g] = log.activations[g]
        BY <3>4, <1>2 DEF Installs, LInv, TypeOK, LogState
      <4> QED
        BY ZenonT(60), <3>1, <3>4, <4>1, <1>7, <1>8
    <3> QED
      BY <3>3, <3>4
  <2>2. ASSUME NEW c \in Commands, NEW d \in Commands,
               Activated(log', c), Activated(log', d), c # d,
               log'.transcripts[c].terminal = log'.transcripts[d].terminal
        PROVE  log'.transcripts[c].scope # log'.transcripts[d].scope
    <3>1. CASE c \in S /\ d \in S
      BY <2>2, <3>1, <1>7 DEF Installs
    <3>2. CASE c \notin S /\ d \notin S
      BY <2>2, <3>2, <1>8 DEF LInv, HandleNamesOneBundle
    <3>3. \A e \in Commands :
            e \notin S /\ Activated(log', e) => log'.transcripts[e].terminal # h
      BY TerminalKnown, <1>2, <1>8
    <3> QED
      BY <2>2, <3>1, <3>2, <3>3, <1>7
  <2> QED
    BY <2>1, <2>2 DEF HandleNamesOneBundle
<1> QED
  BY <1>4, <1>6, <1>9, <1>10 DEF LInv

-----------------------------------------------------------------------------
(* Every step *)

\* A step of the log is one of six kinds.
StepKind ==
    \/ log' = log /\ history' = history
    \/ \E s \in Scopes, h \in Handles : Founds(s, h)
    \/ \E c \in Commands, u \in Transcript : Begins(c, u)
    \/ /\ history' = history
       /\ \E c \in Commands, u \in Transcript : Grows(log, log', c, u)
    \/ /\ history' = history
       /\ \E c \in Commands, u \in Transcript : Ends(log, log', c, u)
    \/ \E S, h : Installs(S, h)

\* A call that changes one transcript leaves every head.
LEMMA TranscriptHeads ==
    ASSUME TypeOK, NEW m, NEW c \in Commands, NEW u \in Transcript,
           m = [log EXCEPT !.transcripts[c] = u], Returns(m)
    PROVE  log' = m /\ history' = history
<1>1. m.current = log.current
  BY DEF TypeOK, LogState
<1> QED
  BY <1>1, SameHeads

\* Next makes steps of these kinds only.
LEMMA NextKind ==
    ASSUME LInv, [Next]_vars
    PROVE  StepKind
<1>1. TypeOK /\ log \in LogState
  BY DEF LInv, TypeOK
<1>2. CASE DoInstallGenesis
  BY <1>2, GenesisEffect, MemoryLogAssumption
     DEF DoInstallGenesis, StepKind
<1>3. CASE DoBegin
  BY <1>3, BeginEffect DEF DoBegin, StepKind
<1>4. CASE DoPost
  <2>1. PICK c \in Commands, phase \in Phases, role \in Roles, p \in Payloads :
            Returns(Post(log, c, phase, role, p).log)
    BY <1>4 DEF DoPost
  <2> DEFINE m == Post(log, c, phase, role, p).log
  <2>2. m = log \/ \E u \in Transcript : Grows(log, m, c, u)
    BY <1>1, PostEffect
  <2> HIDE DEF m
  <2>3. CASE m = log
    BY <1>1, <2>1, <2>3, SameHeads DEF StepKind, m
  <2>4. ASSUME NEW u \in Transcript, Grows(log, m, c, u)
        PROVE  log' = m /\ history' = history
    BY <1>1, <2>1, <2>4, TranscriptHeads DEF Grows, m
  <2> QED
    BY <2>2, <2>3, <2>4 DEF StepKind
<1>5. CASE DoClosePhase
  <2>1. PICK c \in Commands, phase \in Phases :
            Returns(ClosePhase(log, c, phase).log)
    BY <1>5 DEF DoClosePhase
  <2> DEFINE m == ClosePhase(log, c, phase).log
  <2>2. m = log \/ \E u \in Transcript : Grows(log, m, c, u)
    BY <1>1, ClosePhaseEffect
  <2> HIDE DEF m
  <2>3. CASE m = log
    BY <1>1, <2>1, <2>3, SameHeads DEF StepKind, m
  <2>4. ASSUME NEW u \in Transcript, Grows(log, m, c, u)
        PROVE  log' = m /\ history' = history
    BY <1>1, <2>1, <2>4, TranscriptHeads DEF Grows, m
  <2> QED
    BY <2>2, <2>3, <2>4 DEF StepKind
<1>6. CASE DoAbort
  <2>1. PICK c \in Commands : Returns(Abort(log, c).log)
    BY <1>6 DEF DoAbort
  <2> DEFINE m == Abort(log, c).log
  <2>2. m = log \/ \E u \in Transcript : Ends(log, m, c, u)
    BY <1>1, AbortEffect
  <2> HIDE DEF m
  <2>3. CASE m = log
    BY <1>1, <2>1, <2>3, SameHeads DEF StepKind, m
  <2>4. ASSUME NEW u \in Transcript, Ends(log, m, c, u)
        PROVE  log' = m /\ history' = history
    BY <1>1, <2>1, <2>4, TranscriptHeads DEF Ends, m
  <2> QED
    BY <2>2, <2>3, <2>4 DEF StepKind
<1>7. CASE DoActivateKept
  <2>1. PICK commands \in Bundles :
            /\ BundleVerdict(log, commands) # "Fresh"
            /\ Returns(ActivateBundle(log, commands, None).log)
    BY <1>7 DEF DoActivateKept
  <2>2. ActivateBundle(log, commands, None).log = log
    BY <2>1 DEF ActivateBundle, Kept
  <2> QED
    BY <1>1, <2>1, <2>2, SameHeads DEF StepKind
<1>8. CASE DoActivate
  BY <1>8, InstallEffect DEF DoActivate, StepKind
<1>9. CASE UNCHANGED vars
  BY <1>9 DEF vars, StepKind
<1> QED
  BY <1>2, <1>3, <1>4, <1>5, <1>6, <1>7, <1>8, <1>9 DEF Next

\* The empty log satisfies the invariant.
LEMMA InitLInv == Init => LInv
<1> SUFFICES ASSUME Init PROVE LInv
  OBVIOUS
<1> USE LogAssumption
<1>1. EmptyLog \in LogState
  BY DEF EmptyLog, LogState, CounterHandles
<1>2. /\ log = EmptyLog
      /\ history = [s \in Scopes |-> <<>>]
  BY DEF Init
<1>3. TypeOK
  <2>1. <<>> \in Seq(Handles)
    OBVIOUS
  <2> QED
    BY <1>1, <1>2, <2>1 DEF TypeOK
<1>4. \A s \in Scopes : history[s] = <<>> /\ log.current[s] = None
  BY <1>2 DEF EmptyLog
<1>5. \A c \in Commands : ~Begun(c) /\ ~Activated(log, c)
  BY <1>2 DEF EmptyLog, Begun, Activated
<1>6. HeadsEndHistory
  <2>1. Len(<<>>) = 0
    OBVIOUS
  <2> QED
    BY <1>4, <2>1 DEF HeadsEndHistory
<1>7. HandleNamesOneBundle
  <2>1. \A h \in Handles : log.activations[h] = {}
    BY <1>2 DEF EmptyLog
  <2> QED
    BY <1>5, <2>1 DEF HandleNamesOneBundle
<1> QED
  BY <1>3, <1>5, <1>6, <1>7 DEF LInv

\* The invariant is kept by every step.
LEMMA NextLInv == LInv /\ [Next]_vars => LInv'
<1> SUFFICES ASSUME LInv, [Next]_vars PROVE LInv'
  OBVIOUS
<1> USE LogAssumption
<1>1. CASE log' = log /\ history' = history
  BY <1>1 DEF LInv, TypeOK, HeadsEndHistory, Begun, Follows, Activated,
              HandleNamesOneBundle
<1>2. ASSUME NEW c \in Commands, NEW u \in Transcript,
             Grows(log, log', c, u), history' = history
      PROVE  LInv'
  BY <1>2, TranscriptStep DEF Grows, Extends
<1>3. ASSUME NEW c \in Commands, NEW u \in Transcript,
             Ends(log, log', c, u), history' = history
      PROVE  LInv'
  <2>1. log.transcripts[c] \in Transcript
    BY <1>3 DEF LInv, TypeOK, LogState, Ends
  <2>2. /\ u.scope = log.transcripts[c].scope
        /\ u.predecessor = log.transcripts[c].predecessor
        /\ u.terminal = Aborted
    BY <1>3, <2>1 DEF Ends, Transcript
  <2>3. None \notin Handles
    OBVIOUS
  <2> QED
    BY <1>3, <2>2, <2>3, TranscriptStep DEF Ends
<1> QED
  BY <1>1, <1>2, <1>3, NextKind, GenesisStep, BeginStep, InstallStep
     DEF StepKind

-----------------------------------------------------------------------------
(* Theorems *)

\* Heads, histories, transcripts and retained bundles agree, for any number
\* of scopes, commands and handles and whatever callers do.
THEOREM LogInvariance == Spec => []LInv
  BY InitLInv, NextLInv, PTL DEF Spec

\* activate_bundle(): no two activated commands succeed the same head.
THEOREM SingleSuccessor == Spec => []OneSuccessor
<1>1. LInv => OneSuccessor
  <2> SUFFICES ASSUME LInv, NEW c \in Commands, NEW d \in Commands,
                      Activated(log, c), Activated(log, d), c # d,
                      log.transcripts[c].scope = log.transcripts[d].scope,
                      log.transcripts[c].predecessor =
                        log.transcripts[d].predecessor
               PROVE  FALSE
    BY DEF OneSuccessor
  <2> DEFINE s == log.transcripts[c].scope
  <2>1. Follows(c) /\ Follows(d)
    BY DEF LInv, Begun, Activated
  <2>2. s \in Scopes
    BY DEF LInv, TypeOK, LogState, Activated, Transcript
  <2>3. PICK i \in 1 .. Len(history[s]) :
            /\ history[s][i] = log.transcripts[c].predecessor
            /\ history[s][i + 1] = log.transcripts[c].terminal
    BY <2>1 DEF Follows
  <2>4. PICK j \in 1 .. Len(history[s]) :
            /\ history[s][j] = log.transcripts[c].predecessor
            /\ history[s][j + 1] = log.transcripts[d].terminal
    BY <2>1 DEF Follows
  <2>5. i = j
    BY <2>2, <2>3, <2>4 DEF LInv, HeadsEndHistory
  <2>6. log.transcripts[c].terminal = log.transcripts[d].terminal
    BY <2>3, <2>4, <2>5
  <2> QED
    BY <2>6 DEF LInv, HandleNamesOneBundle
<1> QED
  BY <1>1, LogInvariance, PTL

\* fresh_handle(), activations: a handle names exactly one bundle for ever.
THEOREM OneBundlePerHandle == Spec => []HandleNamesOneBundle
<1>1. LInv => HandleNamesOneBundle
  BY DEF LInv
<1> QED
  BY <1>1, LogInvariance, PTL

\* What a step does to a transcript: nothing is taken back, and a stale or
\* ended one keeps its posts and its phase.
LEMMA TranscriptChange ==
    ASSUME LInv, StepKind, NEW c \in Commands, Begun(c)
    PROVE  LET t == log.transcripts[c]
               u == log'.transcripts[c] IN
           /\ Extends(t, u)
           /\ u # None
           /\ t.terminal # None => u.terminal = t.terminal
           /\ Stale(log, c) \/ t.terminal # None =>
                u.posts = t.posts /\ u.next = t.next
<1> USE LogAssumption
<1> DEFINE t == log.transcripts[c]
           u == log'.transcripts[c]
           Goal == /\ Extends(t, u)
                   /\ u # None
                   /\ t.terminal # None => u.terminal = t.terminal
                   /\ Stale(log, c) \/ t.terminal # None =>
                        u.posts = t.posts /\ u.next = t.next
<1>1. t \in Transcript /\ t # None
  BY DEF LInv, TypeOK, LogState, Begun
<1>2. t.next \in Nat
  BY <1>1 DEF Transcript, Commit, Done, Receipt
<1>3. CASE u = t
  BY <1>1, <1>2, <1>3 DEF Extends
<1>4. ASSUME NEW d \in Commands, NEW v \in Transcript,
             log' = [log EXCEPT !.transcripts[d] = v]
      PROVE  /\ d = c => u = v
             /\ d # c => u = t
  BY <1>4 DEF LInv, TypeOK, LogState
<1>5. CASE \E s \in Scopes, h \in Handles : Founds(s, h)
  BY <1>3, <1>5 DEF Founds
<1>6. ASSUME NEW d \in Commands, NEW v \in Transcript, Begins(d, v)
      PROVE  Goal
  <2>1. d # c
    BY <1>1, <1>6 DEF Begins
  <2> QED
    BY <1>3, <1>4, <1>6, <2>1 DEF Begins
<1>7. ASSUME NEW d \in Commands, NEW v \in Transcript, Grows(log, log', d, v)
      PROVE  Goal
  <2>1. CASE d = c
    <3>1. u = v
      BY <1>4, <1>7, <2>1 DEF Grows
    <3> QED
      BY <1>7, <2>1, <3>1 DEF Grows
  <2>2. CASE d # c
    BY <1>3, <1>4, <1>7, <2>2 DEF Grows
  <2> QED
    BY <2>1, <2>2
<1>8. ASSUME NEW d \in Commands, NEW v \in Transcript, Ends(log, log', d, v)
      PROVE  Goal
  <2>1. CASE d = c
    <3>1. u = v /\ u \in Transcript /\ u = [t EXCEPT !.terminal = Aborted]
      BY <1>4, <1>8, <2>1 DEF Ends
    <3>2. t.terminal \in {None, Aborted}
      BY <1>8, <2>1 DEF Ends
    <3>3. /\ u.scope = t.scope /\ u.predecessor = t.predecessor
          /\ u.parameters = t.parameters /\ u.posts = t.posts
          /\ u.next = t.next /\ u.terminal = Aborted
      BY <1>1, <3>1 DEF Transcript
    <3>4. u # None
      BY <3>1
    <3> QED
      BY <1>2, <3>1, <3>2, <3>3, <3>4 DEF Extends
  <2>2. CASE d # c
    BY <1>3, <1>4, <1>8, <2>2 DEF Ends
  <2> QED
    BY <2>1, <2>2
<1>9. ASSUME NEW S, NEW h, Installs(S, h)
      PROVE  Goal
  <2>1. CASE c \in S
    <3>1. /\ t.terminal = None
          /\ ~Stale(log, c)
          /\ u = [t EXCEPT !.terminal = h]
          /\ h \in Handles
      BY <1>9, <2>1 DEF Installs
    <3>2. /\ u.scope = t.scope /\ u.predecessor = t.predecessor
          /\ u.parameters = t.parameters /\ u.posts = t.posts
          /\ u.next = t.next
          /\ u \in Transcript
      BY <1>1, <3>1 DEF Transcript, Terminal
    <3>3. u # None
      BY <3>2
    <3> QED
      BY <1>2, <3>1, <3>2, <3>3 DEF Extends
  <2>2. CASE c \notin S
    BY <1>3, <1>9, <2>2 DEF Installs
  <2> QED
    BY <2>1, <2>2
<1> QED
  BY <1>3, <1>5, <1>6, <1>7, <1>8, <1>9 DEF StepKind

\* Transcripts are append-only and decisions final.
THEOREM AppendOnly == Spec => PrefixRetained
<1>1. LInv /\ [Next]_vars =>
        \A c \in Commands : Begun(c) =>
            LET t == log.transcripts[c]
                u == log'.transcripts[c] IN
            /\ u # None
            /\ u.scope = t.scope
            /\ u.predecessor = t.predecessor
            /\ u.parameters = t.parameters
            /\ \A k \in Phases \X Roles :
                t.posts[k] # None => u.posts[k] = t.posts[k]
            /\ u.next >= t.next
            /\ t.terminal # None => u.terminal = t.terminal
  BY NextKind, TranscriptChange DEF Extends
<1> QED
  BY <1>1, LogInvariance, PTL DEF Spec, PrefixRetained

\* post(), close_phase(): a stale or ended command makes no progress.
THEOREM LosersStop == Spec => LosersFrozen
<1>1. LInv /\ [Next]_vars =>
        \A c \in Commands :
            /\ Begun(c)
            /\ Stale(log, c) \/ log.transcripts[c].terminal # None
            => /\ log'.transcripts[c].posts = log.transcripts[c].posts
               /\ log'.transcripts[c].next = log.transcripts[c].next
  BY NextKind, TranscriptChange
<1> QED
  BY <1>1, LogInvariance, PTL DEF Spec, LosersFrozen

\* The log implements ActivationHistory: every step is one of its steps, or
\* changes nothing that ActivationHistory shows.
THEOREM HistoryRefinement == Spec => ImplementsHistory
<1> USE LogAssumption
<1> DEFINE P == [c \in Commands |->
                    IF log.transcripts[c] = None THEN None
                    ELSE [scope |-> log.transcripts[c].scope,
                          predecessor |-> log.transcripts[c].predecessor]]
           D == [c \in Commands |->
                    IF log.transcripts[c] = None THEN None
                    ELSE log.transcripts[c].terminal]
<1>1. Init => History!Init
  BY DEF Init, History!Init, EmptyLog
<1>2. LInv /\ [Next]_vars => [History!Next]_(History!vars)
  <2> SUFFICES ASSUME LInv, StepKind
               PROVE  History!Next \/ UNCHANGED History!vars
    BY NextKind DEF History!vars
  <2>1. ASSUME NEW c \in Commands, NEW u \in Transcript,
               log' = [log EXCEPT !.transcripts[c] = u]
        PROVE  /\ u # None
               /\ P' = [P EXCEPT ![c] = [scope |-> u.scope,
                                         predecessor |-> u.predecessor]]
               /\ D' = [D EXCEPT ![c] = u.terminal]
    <3>1. u # None
      OBVIOUS
    <3>2. log'.transcripts = [log.transcripts EXCEPT ![c] = u]
      BY <2>1 DEF LInv, TypeOK, LogState
    <3>3. /\ log'.transcripts[c] = u
          /\ \A d \in Commands : d # c => log'.transcripts[d] = log.transcripts[d]
      BY <3>2 DEF LInv, TypeOK, LogState
    <3> QED
      BY <3>1, <3>3
  <2>2. ASSUME NEW c \in Commands, NEW u \in Transcript,
               log' = [log EXCEPT !.transcripts[c] = u],
               log.transcripts[c] # None,
               u.scope = log.transcripts[c].scope,
               u.predecessor = log.transcripts[c].predecessor
        PROVE  P' = P
    <3>1. P[c] = [scope |-> u.scope, predecessor |-> u.predecessor]
      BY <2>2
    <3>2. P' = [P EXCEPT ![c] = P[c]]
      <4> HIDE DEF P, D
      <4> QED
        BY <2>1, <2>2, <3>1
    <3> QED
      BY <3>2
  <2>3. CASE log' = log /\ history' = history
    BY <2>3 DEF History!vars
  <2>4. ASSUME NEW s \in Scopes, NEW h \in Handles, Founds(s, h)
        PROVE  History!Next
    <3>1. History!Found(s, h)
      BY <2>4 DEF Founds, History!Found
    <3> QED
      BY <3>1 DEF History!Next
  <2>5. ASSUME NEW c \in Commands, NEW u \in Transcript, Begins(c, u)
        PROVE  History!Next
    <3>1. u.scope \in Scopes /\ u.predecessor \in Handles /\ u.terminal = None
      BY <2>5 DEF Begins, Transcript
    <3>2. /\ history[u.scope] # <<>>
          /\ history[u.scope][Len(history[u.scope])] = u.predecessor
      BY <2>5, <3>1 DEF LInv, HeadsEndHistory, Begins
    <3>3. P[c] = None /\ D[c] = None
      BY <2>5 DEF Begins
    <3>4. /\ P' = [P EXCEPT ![c] = [scope |-> u.scope,
                                    predecessor |-> u.predecessor]]
          /\ D' = [D EXCEPT ![c] = None]
      <4> HIDE DEF P, D
      <4> QED
        BY <2>1, <2>5, <3>1 DEF Begins
    <3>5. D' = D
      BY <3>3, <3>4
    <3>6. history' = history
      BY <2>5 DEF Begins
    <3>7. History!Propose(c, u.scope, u.predecessor)
      BY <3>2, <3>3, <3>4, <3>5, <3>6 DEF History!Propose, History!Ends
    <3> QED
      BY <3>1, <3>7 DEF History!Next
  <2>6. ASSUME NEW c \in Commands, NEW u \in Transcript,
               Grows(log, log', c, u), history' = history
        PROVE  UNCHANGED History!vars
    <3>1. P' = P
      BY <2>2, <2>6 DEF Grows, Extends
    <3>2. D[c] = None /\ D' = [D EXCEPT ![c] = None]
      <4>1. D[c] = None
        BY <2>6 DEF Grows
      <4> HIDE DEF P, D
      <4> QED
        BY <2>1, <2>6, <4>1 DEF Grows
    <3>3. D' = D
      BY <3>2
    <3> QED
      BY <2>6, <3>1, <3>3 DEF History!vars
  <2>7. ASSUME NEW c \in Commands, NEW u \in Transcript,
               Ends(log, log', c, u), history' = history
        PROVE  History!Next \/ UNCHANGED History!vars
    <3>1. log.transcripts[c] \in Transcript
      BY <2>7 DEF LInv, TypeOK, LogState, Ends
    <3>2. /\ u.scope = log.transcripts[c].scope
          /\ u.predecessor = log.transcripts[c].predecessor
          /\ u.terminal = Aborted
      BY <2>7, <3>1 DEF Ends, Transcript
    <3>3. P' = P /\ P[c] # None
      <4>1. P' = P
        BY <2>2, <2>7, <3>2 DEF Ends
      <4>2. P[c] = [scope |-> u.scope, predecessor |-> u.predecessor]
        BY <2>7, <3>2 DEF Ends
      <4>3. P[c] \in [scope : Scopes, predecessor : Handles]
        BY <3>1, <3>2, <4>2 DEF Transcript
      <4> QED
        BY <4>1, <4>3, MemoryLogAssumption
    <3>4. D[c] \in {None, Aborted} /\ D' = [D EXCEPT ![c] = Aborted]
      <4>1. D[c] \in {None, Aborted}
        BY <2>7 DEF Ends
      <4>2. log' = [log EXCEPT !.transcripts[c] = u]
        BY <2>7 DEF Ends
      <4> HIDE DEF P, D
      <4>3. D' = [D EXCEPT ![c] = u.terminal]
        BY <2>1, <4>2
      <4> QED
        BY <3>2, <4>1, <4>3
    <3>5. CASE D[c] = Aborted
      <4>1. D' = D
        BY <3>4, <3>5
      <4> QED
        BY <2>7, <3>3, <4>1 DEF History!vars
    <3>6. CASE D[c] = None
      <4>1. History!Reject(c)
        BY <2>7, <3>3, <3>4, <3>6 DEF History!Reject
      <4> QED
        BY <4>1 DEF History!Next
    <3> QED
      BY <3>4, <3>5, <3>6
  <2>8. ASSUME NEW S, NEW h, Installs(S, h)
        PROVE  History!Next
    <3>1. S \in (SUBSET Commands) \ {{}} /\ h \in Handles
      BY <2>8 DEF Installs
    <3>2. ASSUME NEW c \in S
          PROVE  /\ P[c] = [scope |-> log.transcripts[c].scope,
                            predecessor |-> log.transcripts[c].predecessor]
                 /\ P[c] # None
                 /\ D[c] = None
                 /\ P[c].scope = log.transcripts[c].scope
                 /\ history[P[c].scope] # <<>>
                 /\ history[P[c].scope][Len(history[P[c].scope])] =
                        P[c].predecessor
      <4>1. /\ c \in Commands
            /\ log.transcripts[c] \in Transcript
            /\ log.transcripts[c] # None
            /\ log.transcripts[c].terminal = None
            /\ log.current[log.transcripts[c].scope] =
                    log.transcripts[c].predecessor
        BY <2>8 DEF Installs, Stale
      <4>2. /\ log.transcripts[c].scope \in Scopes
            /\ log.transcripts[c].predecessor \in Handles
        BY <4>1 DEF Transcript
      <4>3. /\ P[c] = [scope |-> log.transcripts[c].scope,
                       predecessor |-> log.transcripts[c].predecessor]
            /\ D[c] = None
        BY <4>1
      <4>4. P[c] # None
        BY <4>2, <4>3, MemoryLogAssumption
      <4>5. LET s == log.transcripts[c].scope IN
            /\ history[s] # <<>>
            /\ history[s][Len(history[s])] = log.transcripts[c].predecessor
        BY <4>1, <4>2 DEF LInv, HeadsEndHistory
      <4> HIDE DEF P, D
      <4>6. /\ P[c].scope = log.transcripts[c].scope
            /\ P[c].predecessor = log.transcripts[c].predecessor
        BY <4>3
      <4>7. /\ history[P[c].scope] # <<>>
            /\ history[P[c].scope][Len(history[P[c].scope])] =
                    P[c].predecessor
        BY <4>5, <4>6, Zenon
      <4> QED
        BY <4>3, <4>4, <4>6, <4>7, Zenon
    <3>3. \A c, d \in S : c # d => P[c].scope # P[d].scope
      <4>1. \A c \in S : P[c].scope = log.transcripts[c].scope
        BY <3>2
      <4>2. \A c, d \in S : c # d =>
                log.transcripts[c].scope # log.transcripts[d].scope
        BY <2>8 DEF Installs
      <4> HIDE DEF P, D
      <4> QED
        BY <4>1, <4>2
    <3>4. \A s \in Scopes : \A i \in 1 .. Len(history[s]) : history[s][i] # h
      BY <2>8 DEF Installs, LInv, HeadsEndHistory
    <3>5. history' = [s \in Scopes |->
                        IF \E c \in S : P[c].scope = s
                        THEN Append(history[s], h) ELSE history[s]]
      <4>1. \A s \in Scopes : (\E c \in S : P[c].scope = s) <=>
                                (\E c \in S : log.transcripts[c].scope = s)
        BY <3>2
      <4> HIDE DEF P, D
      <4>2. history' = [s \in Scopes |->
                          IF \E c \in S : log.transcripts[c].scope = s
                          THEN Append(history[s], h) ELSE history[s]]
        BY <2>8 DEF Installs
      <4> QED
        BY <4>1, <4>2
    <3>6. ASSUME NEW c \in Commands
          PROVE  /\ P'[c] = P[c]
                 /\ D'[c] = IF c \in S THEN h ELSE D[c]
      <4>1. CASE c \in S
        <5>1. /\ log.transcripts[c] \in Transcript
              /\ log.transcripts[c] # None
              /\ log'.transcripts[c] =
                    [log.transcripts[c] EXCEPT !.terminal = h]
          BY <2>8, <4>1 DEF Installs
        <5>2. /\ log'.transcripts[c] \in Transcript
              /\ log'.transcripts[c].scope = log.transcripts[c].scope
              /\ log'.transcripts[c].predecessor =
                    log.transcripts[c].predecessor
              /\ log'.transcripts[c].terminal = h
          BY <5>1, <3>1 DEF Transcript, Terminal
        <5>3. log'.transcripts[c] # None
          BY <5>2
        <5> QED
          BY <4>1, <5>1, <5>2, <5>3
      <4>2. CASE c \notin S
        <5>1. log'.transcripts[c] = log.transcripts[c]
          BY <2>8, <4>2 DEF Installs
        <5> QED
          BY <4>2, <5>1
      <4> QED
        BY <4>1, <4>2
    <3>7. P' = P /\ D' = [c \in Commands |-> IF c \in S THEN h ELSE D[c]]
      BY <3>6
    <3> HIDE DEF P, D
    <3>8. History!Accept(S, h)
      BY <3>2, <3>3, <3>4, <3>5, <3>7
         DEF History!Accept, History!Ends, History!Unused, P, D
    <3> QED
      BY <3>1, <3>8 DEF History!Next
  <2> QED
    BY <2>3, <2>4, <2>5, <2>6, <2>7, <2>8 DEF StepKind
<1> QED
  BY <1>1, <1>2, LogInvariance, PTL DEF Spec, ImplementsHistory, History!Spec

=============================================================================
