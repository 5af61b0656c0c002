------------------------ MODULE RedistributionProofs ------------------------
(***************************************************************************)
(* Safety of redistribution for any drivers, plans, commands, roles and    *)
(* targets, any number of stops and any interleaving of the drivers' calls *)
(* of the log.                                                             *)
(*                                                                         *)
(* The argument: the log only ever prolongs a transcript (Prolongs), so    *)
(* what a candidate, a target or a receipt has seen in it stays true. Each *)
(* call of a candidate is checked against that memory before it posts or   *)
(* closes, which carries the memory into the transcript                    *)
(* (TranscriptSound): openings repeat commitments, a closed phase is       *)
(* complete, a posted receipt is backed by a target that holds its share.  *)
(* A bundle's closes run in order, and a close that fails leaves an abort  *)
(* pending for every component it let proceed (BundleSound).               *)
(***************************************************************************)
EXTENDS Redistribution, SequenceTheorems, TLAPS

-----------------------------------------------------------------------------
(* Transcripts *)

PostIn(l, c, phase, role) == l.transcripts[c].posts[<<phase, role>>]

ViewIn(l, c) == [r \in Contributors |-> PostIn(l, c, Open, r)]

BegunIn(l, c) == l.transcripts[c] # None

CommitsIn(l, c) ==
    BegunIn(l, c) /\ \A r \in Contributors : PostIn(l, c, Commit, r) # None

\* What the posts and the phase of a transcript say of each other. F is the
\* set of commands and targets whose accumulator is done.
TranscriptSound(l, c, F) ==
    BegunIn(l, c) =>
        LET t == l.transcripts[c] IN
        /\ t.scope = CommandOf[c].scope
        /\ t.predecessor = CommandOf[c].predecessor
        /\ t.predecessor \in l.handles
        /\ \A r \in Contributors : PostIn(l, c, Open, r) # None =>
             /\ PostIn(l, c, Open, r) \in Sound
             /\ PostIn(l, c, Commit, r) = PostIn(l, c, Open, r)
        /\ t.next > Commit =>
             \A r \in Contributors : PostIn(l, c, Commit, r) # None
        /\ t.next > Open =>
             \A r \in Contributors : PostIn(l, c, Open, r) # None
        /\ t.next > Receipt =>
             \A g \in Targets : PostIn(l, c, Receipt, g) # None
        /\ \A g \in Targets :
             PostIn(l, c, Receipt, g) # None => <<c, g>> \in F
        /\ Activated(l, c) => t.next = Done /\ Stale(l, c)

\* Heads are known handles, and of two commands for one head at most one is
\* activated.
LogSound(l, F) ==
    /\ l \in LogState
    /\ \A s \in Scopes : l.current[s] \in l.handles
    /\ \A c \in Commands : TranscriptSound(l, c, F)
    /\ \A c, d \in Commands :
        c # d /\ Activated(l, c) /\ Activated(l, d) =>
            CommandOf[c] # CommandOf[d]

\* m has every transcript of l, or a longer one.
Prolongs(l, m) ==
    \A c \in Commands : BegunIn(l, c) =>
        /\ BegunIn(m, c)
        /\ m.transcripts[c].next >= l.transcripts[c].next
        /\ \A phase \in Phases, role \in Roles :
             PostIn(l, c, phase, role) # None =>
                PostIn(m, c, phase, role) = PostIn(l, c, phase, role)
        /\ l.transcripts[c].terminal # None =>
             m.transcripts[c].terminal = l.transcripts[c].terminal
        /\ Activated(l, c) => Activated(m, c)

-----------------------------------------------------------------------------
(* Candidates and drivers *)

\* A candidate's memory agrees with the transcript it mirrors.
CandSound(l, c, x) ==
    /\ x \in CandidateState
    /\ BegunIn(l, c)
    /\ \A r \in Contributors : x.commitments[r] # None =>
         PostIn(l, c, Commit, r) = x.commitments[r]
    /\ \A r \in Contributors : x.openings[r] # None =>
         PostIn(l, c, Open, r) = x.openings[r]
    /\ x.closed => l.transcripts[c].next > Commit
    /\ x.stage \in {"Open", "Receipt", "Ready"} => x.closed
    /\ x.view # None => x.view = ViewIn(l, c)
    /\ \A g \in x.receipts : PostIn(l, c, Receipt, g) # None
    /\ x.terminal # None =>
         x.stage = "Terminal" /\ x.terminal = l.transcripts[c].terminal

CandsSound(l, w) ==
    \A c \in Commands : w.cand[c] # None => CandSound(l, c, w.cand[c])

\* The calls a method leaves for later; the others are made at once.
StoredCall ==
    [op : {"begin", "close_commitments", "close_openings", "prepare",
           "activate", "abort", "abort_with"},
     c : Commands, arg : {None}]

DriverState ==
    [plan : Plans, cand : [Commands -> CandidateState \cup {None}],
     todo : Seq(StoredCall)]

AllBegun(w) == \A c \in Members(w.plan) : w.cand[c] # None

\* new() begins in the order of the plan; what it has not reached is todo.
Starting(w) ==
    /\ Len(w.todo) <= Len(w.plan)
    /\ \A j \in DOMAIN w.todo :
        w.todo[j] = Do("begin", w.plan[Len(w.plan) - Len(w.todo) + j])
    /\ \A j \in 1 .. Len(w.plan) - Len(w.todo) : w.cand[w.plan[j]] # None

\* A call is for a component of the plan, and only begin is for one that
\* the driver does not have yet.
CallFits(w, k) ==
    /\ k.c \in Members(w.plan)
    /\ k.op = "abort" => w.cand[k.c] # None
    /\ k.op \notin {"begin", "abort"} => AllBegun(w)
    /\ k.op = "begin" => Starting(w)

TodoSound(w) == \A i \in DOMAIN w.todo : CallFits(w, w.todo[i])

Pending(todo, op, c) ==
    \E i \in DOMAIN todo : todo[i].op = op /\ todo[i].c = c

\* Every component has its commitments, but for those still to be closed.
AllCommitted(l, w) ==
    \A b \in Members(w.plan) :
        CommitsIn(l, b) \/ Pending(w.todo, "close_commitments", b)

\* A component may be opened only when every component is committed, or if
\* its own abort is still to come, or if the bundle was activated.
BundleSound(l, w) ==
    /\ (\E c \in Commands : Pending(w.todo, "close_commitments", c)) =>
         AllCommitted(l, w)
    /\ \A c \in Members(w.plan) :
        w.cand[c] # None /\ w.cand[c].stage = "Open" =>
            \/ AllCommitted(l, w)
            \/ Pending(w.todo, "abort", c)
            \/ Activated(l, c)

DriverSound(l, w) ==
    /\ w \in DriverState
    /\ CandsSound(l, w)
    /\ TodoSound(w)
    /\ BundleSound(l, w)

-----------------------------------------------------------------------------
(* Targets *)

Finished ==
    {q \in Commands \X Targets : target[q] # None /\ target[q].done}

\* A target works on the view in the log, its shares are those of the view,
\* and what it was told is what the log decided.
TargetSound(l, c, a) ==
    /\ a \in Accumulator
    /\ BegunIn(l, c)
    /\ a.view = ViewIn(l, c)
    /\ \A r \in Contributors : a.shares[r] # None => a.shares[r] = a.view[r]
    /\ a.done => Complete(a.shares)
    /\ a.outcome # None => a.outcome = l.transcripts[c].terminal

TargetsSound(l) ==
    /\ target \in [Commands \X Targets -> Accumulator \cup {None}]
    /\ \A c \in Commands, g \in Targets :
        target[<<c, g>>] # None => TargetSound(l, c, target[<<c, g>>])

ReceiptsSound ==
    \A x \in receipts :
        /\ x \in Receipts
        /\ <<x.command, x.target>> \in Finished
        /\ target[<<x.command, x.target>>].view = x.view

-----------------------------------------------------------------------------
(* The inductive invariant *)

RdInv ==
    /\ LogSound(log, Finished)
    /\ DOMAIN driver = Drivers
    /\ driver = [d \in Drivers |-> driver[d]]
    /\ \A d \in Drivers : driver[d] # None => DriverSound(log, driver[d])
    /\ TargetsSound(log)
    /\ ReceiptsSound

\* No command is run as part of two different plans.
EachInOnePlan ==
    \A p, q \in Plans : Members(p) \cap Members(q) # {} => p = q

-----------------------------------------------------------------------------
(* Constants *)

LEMMA RoleFacts ==
    /\ Contributors \subseteq Roles
    /\ Targets \subseteq Roles
    /\ None \notin Values
    /\ None \notin Sound
    /\ Values \subseteq Payloads
    /\ Views \subseteq Payloads
    /\ None \notin Views
BY LogAssumption, CandidateAssumption DEF Views

LEMMA PhaseFacts ==
    /\ Commit \in Phases /\ Open \in Phases /\ Receipt \in Phases
    /\ Commit # Open /\ Commit # Receipt /\ Open # Receipt
    /\ Commit = 1 /\ Open = 2 /\ Receipt = 3 /\ Done = 4
BY DEF Phases, Commit, Open, Receipt, Done

LEMMA PlanFacts ==
    ASSUME NEW plan \in Plans
    PROVE  /\ plan \in Seq(Commands)
           /\ plan # <<>>
           /\ Members(plan) \subseteq Commands
           /\ \A i \in DOMAIN plan : plan[i] \in Members(plan)
           /\ \A c \in Members(plan) : \E i \in DOMAIN plan : c = plan[i]
<1>1. plan \in Seq(Commands) /\ plan # <<>>
  BY RedistributionAssumption
<1>2. \A i \in DOMAIN plan : plan[i] \in Commands
  BY <1>1
<1> QED
  BY <1>1, <1>2 DEF Members

LEMMA TranscriptFacts ==
    ASSUME NEW l \in LogState, NEW c \in Commands, BegunIn(l, c)
    PROVE  /\ l.transcripts[c] \in Transcript
           /\ l.transcripts[c].scope \in Scopes
           /\ l.transcripts[c].predecessor \in Handles
           /\ l.transcripts[c].posts \in
                [Phases \X Roles -> Payloads \cup {None}]
           /\ l.transcripts[c].next \in 1 .. 4
           /\ l.transcripts[c].terminal \in Terminal
<1>1. l.transcripts[c] \in Transcript
  BY DEF LogState, BegunIn
<1> QED
  BY <1>1, PhaseFacts DEF Transcript

-----------------------------------------------------------------------------
(* What was seen in a log stays true *)

LEMMA ProlongsSelf ==
    ASSUME NEW l \in LogState
    PROVE  Prolongs(l, l)
<1>1. \A c \in Commands : BegunIn(l, c) => l.transcripts[c].next \in Nat
  BY TranscriptFacts
<1> QED
  BY <1>1 DEF Prolongs

\* A complete view cannot change: its openings are never replaced.
LEMMA ViewKept ==
    ASSUME NEW l \in LogState, NEW m \in LogState, Prolongs(l, m),
           NEW c \in Commands, BegunIn(l, c), ViewIn(l, c) \in Views
    PROVE  ViewIn(m, c) = ViewIn(l, c)
<1>1. ASSUME NEW r \in Contributors
      PROVE  PostIn(m, c, Open, r) = PostIn(l, c, Open, r)
  <2>1. ViewIn(l, c)[r] = PostIn(l, c, Open, r)
    BY DEF ViewIn
  <2>2. ViewIn(l, c)[r] \in Sound
    BY DEF Views
  <2>3. PostIn(l, c, Open, r) # None
    BY <2>1, <2>2, RoleFacts
  <2> QED
    BY <2>3, RoleFacts, PhaseFacts DEF Prolongs
<1> QED
  BY <1>1 DEF ViewIn

LEMMA CandKept ==
    ASSUME NEW l \in LogState, NEW m \in LogState, Prolongs(l, m),
           NEW c \in Commands, NEW x, CandSound(l, c, x)
    PROVE  CandSound(m, c, x)
<1>1. x \in CandidateState /\ BegunIn(l, c) /\ BegunIn(m, c)
  BY DEF CandSound, Prolongs
<1>2. ASSUME NEW r \in Contributors
      PROVE  /\ x.commitments[r] # None =>
                  PostIn(m, c, Commit, r) = x.commitments[r]
             /\ x.openings[r] # None =>
                  PostIn(m, c, Open, r) = x.openings[r]
  BY <1>1, RoleFacts, PhaseFacts DEF CandSound, Prolongs
<1>3. x.closed => m.transcripts[c].next > Commit
  <2>1. /\ l.transcripts[c].next \in 1 .. 4
        /\ m.transcripts[c].next \in 1 .. 4
        /\ m.transcripts[c].next >= l.transcripts[c].next
    BY <1>1, TranscriptFacts DEF Prolongs
  <2>2. x.closed => l.transcripts[c].next > Commit
    BY DEF CandSound
  <2> QED
    BY <2>1, <2>2, PhaseFacts
<1>4. x.view # None => x.view = ViewIn(m, c)
  <2>1. x.view \in Views \cup {None}
    BY <1>1 DEF CandidateState
  <2> QED
    BY <1>1, <2>1, ViewKept DEF CandSound
<1>5. \A g \in x.receipts : PostIn(m, c, Receipt, g) # None
  <2>1. x.receipts \subseteq Targets
    BY <1>1 DEF CandidateState
  <2> QED
    BY <1>1, <2>1, RoleFacts, PhaseFacts DEF CandSound, Prolongs
<1>6. x.terminal # None => x.terminal = m.transcripts[c].terminal
  BY <1>1 DEF CandSound, Prolongs
<1> QED
  BY <1>1, <1>2, <1>3, <1>4, <1>5, <1>6 DEF CandSound

LEMMA TargetKept ==
    ASSUME NEW l \in LogState, NEW m \in LogState, Prolongs(l, m),
           NEW c \in Commands, NEW a, TargetSound(l, c, a)
    PROVE  TargetSound(m, c, a)
<1>1. a \in Accumulator /\ BegunIn(l, c) /\ BegunIn(m, c)
  BY DEF TargetSound, Prolongs
<1>2. a.view = ViewIn(m, c)
  <2>1. a.view \in Views
    BY <1>1 DEF Accumulator
  <2> QED
    BY <1>1, <2>1, ViewKept DEF TargetSound
<1>3. a.outcome # None => a.outcome = m.transcripts[c].terminal
  BY <1>1 DEF TargetSound, Prolongs
<1> QED
  BY <1>1, <1>2, <1>3 DEF TargetSound

LEMMA CommitsKept ==
    ASSUME NEW l \in LogState, NEW m \in LogState, Prolongs(l, m),
           NEW c \in Commands, CommitsIn(l, c)
    PROVE  CommitsIn(m, c)
BY RoleFacts, PhaseFacts DEF CommitsIn, Prolongs

LEMMA BundleKept ==
    ASSUME NEW l \in LogState, NEW m \in LogState, Prolongs(l, m),
           NEW w, w.plan \in Plans, BundleSound(l, w)
    PROVE  BundleSound(m, w)
<1>1. Members(w.plan) \subseteq Commands
  BY PlanFacts
<1>2. AllCommitted(l, w) => AllCommitted(m, w)
  BY <1>1, CommitsKept DEF AllCommitted
<1>3. \A c \in Commands : Activated(l, c) => Activated(m, c)
  BY DEF Prolongs, Activated, BegunIn
<1> QED
  BY <1>1, <1>2, <1>3 DEF BundleSound

\* A driver that does not move stays sound.
LEMMA DriverKept ==
    ASSUME NEW l \in LogState, NEW m \in LogState, Prolongs(l, m),
           NEW w, DriverSound(l, w)
    PROVE  DriverSound(m, w)
<1>1. w \in DriverState /\ w.plan \in Plans
  BY DEF DriverSound, DriverState
<1>2. CandsSound(m, w)
  BY CandKept DEF DriverSound, CandsSound
<1>3. BundleSound(m, w)
  BY <1>1, BundleKept DEF DriverSound
<1> QED
  BY <1>1, <1>2, <1>3 DEF DriverSound

-----------------------------------------------------------------------------
(* What a call of the log does to it *)

\* The transcript of c becomes u, which is not activated.
Changes(l, m, c, u) ==
    /\ u \in Transcript
    /\ u.terminal \notin Handles
    /\ ~Activated(l, c)
    /\ m = [l EXCEPT !.transcripts[c] = u]

LEMMA ChangesFacts ==
    ASSUME NEW l \in LogState, NEW m, NEW c \in Commands, NEW u,
           Changes(l, m, c, u)
    PROVE  /\ m \in LogState
           /\ m.current = l.current
           /\ m.handles = l.handles
           /\ m.transcripts[c] = u
           /\ BegunIn(m, c)
           /\ \A b \in Commands : b # c => m.transcripts[b] = l.transcripts[b]
           /\ \A b \in Commands : Activated(m, b) <=> Activated(l, b)
<1>1. /\ u \in Transcript /\ u.terminal \notin Handles /\ ~Activated(l, c)
      /\ m = [l EXCEPT !.transcripts[c] = u]
  BY DEF Changes
<1>2. /\ m \in LogState
      /\ m.current = l.current
      /\ m.handles = l.handles
      /\ m.transcripts[c] = u
      /\ \A b \in Commands : b # c => m.transcripts[b] = l.transcripts[b]
  BY <1>1 DEF LogState
<1>3. BegunIn(m, c)
  BY <1>1, <1>2, LogAssumption DEF BegunIn
<1>4. \A b \in Commands : Activated(m, b) <=> Activated(l, b)
  BY <1>1, <1>2 DEF Activated
<1> QED
  BY <1>2, <1>3, <1>4

\* A changed transcript keeps the log sound when it is sound itself.
LEMMA ChangesSound ==
    ASSUME NEW F, NEW l \in LogState, LogSound(l, F), NEW m,
           NEW c \in Commands, NEW u,
           Changes(l, m, c, u), TranscriptSound(m, c, F)
    PROVE  LogSound(m, F)
<1>1. m \in LogState
  BY ChangesFacts
<1>2. m.current = l.current /\ m.handles = l.handles
  BY ChangesFacts
<1>3. \A b \in Commands : b # c => m.transcripts[b] = l.transcripts[b]
  BY ChangesFacts
<1>4. \A b \in Commands : Activated(m, b) <=> Activated(l, b)
  BY ChangesFacts
<1>5. ASSUME NEW b \in Commands, b # c
      PROVE  TranscriptSound(m, b, F)
  <2>1. m.transcripts[b] = l.transcripts[b] /\ TranscriptSound(l, b, F)
    BY <1>3, <1>5 DEF LogSound
  <2>2. Activated(m, b) <=> Activated(l, b)
    BY <1>4
  <2> QED
    BY <1>2, <2>1, <2>2 DEF TranscriptSound, BegunIn, PostIn, Stale
<1>6. \A b \in Commands : TranscriptSound(m, b, F)
  BY <1>5
<1>7. \A s \in Scopes : m.current[s] \in m.handles
  BY <1>2 DEF LogSound
<1>8. \A b, d \in Commands :
        b # d /\ Activated(m, b) /\ Activated(m, d) =>
            CommandOf[b] # CommandOf[d]
  BY <1>4 DEF LogSound
<1> QED
  BY <1>1, <1>6, <1>7, <1>8 DEF LogSound

\* A transcript that grows prolongs the log.
LEMMA ChangesProlong ==
    ASSUME NEW l \in LogState, NEW m, NEW c \in Commands, NEW u,
           Changes(l, m, c, u),
           BegunIn(l, c) =>
             /\ u.next >= l.transcripts[c].next
             /\ \A phase \in Phases, role \in Roles :
                  PostIn(l, c, phase, role) # None =>
                     u.posts[<<phase, role>>] = PostIn(l, c, phase, role)
             /\ l.transcripts[c].terminal # None =>
                  u.terminal = l.transcripts[c].terminal
    PROVE  Prolongs(l, m)
<1>1. /\ m.transcripts[c] = u
      /\ BegunIn(m, c)
      /\ \A b \in Commands : b # c => m.transcripts[b] = l.transcripts[b]
      /\ \A b \in Commands : Activated(m, b) <=> Activated(l, b)
  BY ChangesFacts
<1>2. ASSUME NEW b \in Commands, BegunIn(l, b), b # c
      PROVE  /\ m.transcripts[b] = l.transcripts[b]
             /\ l.transcripts[b].next \in Nat
  BY <1>1, <1>2, TranscriptFacts
<1>3. \A b \in Commands : Activated(l, b) => Activated(m, b)
  BY <1>1
<1> QED
  BY <1>1, <1>2, <1>3 DEF Prolongs, BegunIn, PostIn

\* The first post of a role in a phase.
Posts(l, m, c, phase, role, p) ==
    /\ BegunIn(l, c)
    /\ PostIn(l, c, phase, role) = None
    /\ l.transcripts[c].next = phase
    /\ l.transcripts[c].terminal = None
    /\ \E u : Changes(l, m, c, u)
    /\ Prolongs(l, m)
    /\ m.transcripts[c].scope = l.transcripts[c].scope
    /\ m.transcripts[c].predecessor = l.transcripts[c].predecessor
    /\ m.transcripts[c].next = phase
    /\ PostIn(m, c, phase, role) = p
    /\ \A h \in Phases, r \in Roles :
         h # phase \/ r # role => PostIn(m, c, h, r) = PostIn(l, c, h, r)

\* post(): an error, a replay, or the first post.
LEMMA PostFacts ==
    ASSUME NEW l \in LogState, NEW c \in Commands, NEW phase \in Phases,
           NEW role \in Roles, NEW p \in Payloads
    PROVE  LET r == Post(l, c, phase, role, p) IN
           \/ r.out # "Ok" /\ r.log = l
           \/ /\ r.out = "Ok" /\ r.log = l
              /\ BegunIn(l, c) /\ PostIn(l, c, phase, role) = p
           \/ r.out = "Ok" /\ Posts(l, r.log, c, phase, role, p)
<1> DEFINE r == Post(l, c, phase, role, p)
           t == l.transcripts[c]
           k == <<phase, role>>
           u == [t EXCEPT !.posts = [t.posts EXCEPT ![k] = p]]
<1>1. \/ r.out # "Ok" /\ r.log = l
      \/ r.out = "Ok" /\ r.log = l /\ t # None /\ t.posts[k] = p
      \/ /\ r.out = "Ok" /\ t # None /\ t.posts[k] = None
         /\ t.next = phase /\ t.terminal = None
         /\ r.log = [l EXCEPT !.transcripts[c].posts[k] = p]
  BY DEF Post, Kept
<1>2. ASSUME t # None, t.posts[k] = None, t.next = phase, t.terminal = None,
             r.log = [l EXCEPT !.transcripts[c].posts[k] = p]
      PROVE  Posts(l, r.log, c, phase, role, p)
  <2>1. BegunIn(l, c) /\ t \in Transcript /\ t.next \in 1 .. 4
    BY <1>2, TranscriptFacts DEF BegunIn
  <2>2. t.posts \in [Phases \X Roles -> Payloads \cup {None}]
    BY <2>1 DEF Transcript
  <2>3. [t.posts EXCEPT ![k] = p] \in [Phases \X Roles -> Payloads \cup {None}]
    BY <2>2
  <2>4. /\ u \in Transcript
        /\ u.scope = t.scope /\ u.predecessor = t.predecessor
        /\ u.next = phase /\ u.terminal = None
        /\ u.posts = [t.posts EXCEPT ![k] = p]
    BY <1>2, <2>1, <2>3 DEF Transcript
  <2>5. /\ u.posts[k] = p
        /\ \A h \in Phases, o \in Roles :
             h # phase \/ o # role => u.posts[<<h, o>>] = t.posts[<<h, o>>]
    BY <2>2, <2>4
  <2>6. r.log = [l EXCEPT !.transcripts[c] = u]
    BY <1>2, <2>1 DEF LogState, Transcript
  <2> HIDE DEF u, r, k
  <2>7. Changes(l, r.log, c, u)
    BY <1>2, <2>4, <2>6, LogAssumption DEF Changes, Activated
  <2>8. r.log.transcripts[c] = u
    BY <2>7, ChangesFacts
  <2>9. \A h \in Phases, o \in Roles : t.posts[<<h, o>>] # None =>
            u.posts[<<h, o>>] = t.posts[<<h, o>>]
    BY <1>2, <2>5 DEF k
  <2>10. u.next >= t.next
    BY <1>2, <2>1, <2>4
  <2>11. \A h \in Phases, o \in Roles : PostIn(l, c, h, o) # None =>
            u.posts[<<h, o>>] = PostIn(l, c, h, o)
    BY <2>9 DEF PostIn
  <2>12. Prolongs(l, r.log)
    BY <1>2, <2>7, <2>10, <2>11, ChangesProlong
  <2> QED
    BY <1>2, <2>1, <2>4, <2>5, <2>7, <2>8, <2>12 DEF Posts, PostIn, k
<1> QED
  BY <1>1, <1>2 DEF BegunIn, PostIn

\* A phase that closes.
Closes(l, m, c, phase) ==
    /\ BegunIn(l, c)
    /\ l.transcripts[c].next = phase
    /\ l.transcripts[c].terminal = None
    /\ \E u : Changes(l, m, c, u)
    /\ Prolongs(l, m)
    /\ m.transcripts[c].scope = l.transcripts[c].scope
    /\ m.transcripts[c].predecessor = l.transcripts[c].predecessor
    /\ m.transcripts[c].next = phase + 1
    /\ \A h \in Phases, r \in Roles : PostIn(m, c, h, r) = PostIn(l, c, h, r)

\* close_phase(): an error, a phase closed before, or the next one.
LEMMA ClosePhaseFacts ==
    ASSUME NEW l \in LogState, NEW c \in Commands, NEW phase \in Phases
    PROVE  LET r == ClosePhase(l, c, phase) IN
           \/ r.out # "Ok" /\ r.log = l
           \/ /\ r.out = "Ok" /\ r.log = l
              /\ BegunIn(l, c) /\ l.transcripts[c].next > phase
           \/ r.out = "Ok" /\ Closes(l, r.log, c, phase)
<1> DEFINE r == ClosePhase(l, c, phase)
           t == l.transcripts[c]
           u == [t EXCEPT !.next = phase + 1]
<1>1. \/ r.out # "Ok" /\ r.log = l
      \/ r.out = "Ok" /\ r.log = l /\ t # None /\ t.next > phase
      \/ /\ r.out = "Ok" /\ t # None
         /\ t.next = phase /\ t.terminal = None
         /\ r.log = [l EXCEPT !.transcripts[c].next = phase + 1]
  BY DEF ClosePhase, Kept
<1>2. ASSUME t # None, t.next = phase, t.terminal = None,
             r.log = [l EXCEPT !.transcripts[c].next = phase + 1]
      PROVE  Closes(l, r.log, c, phase)
  <2>1. BegunIn(l, c) /\ t \in Transcript /\ phase + 1 \in 1 .. 4
    BY <1>2, TranscriptFacts DEF BegunIn, Phases, Commit, Receipt
  <2>2. /\ u \in Transcript
        /\ u.scope = t.scope /\ u.predecessor = t.predecessor
        /\ u.next = phase + 1 /\ u.terminal = None
        /\ u.posts = t.posts
    BY <1>2, <2>1, PhaseFacts DEF Transcript
  <2>3. r.log = [l EXCEPT !.transcripts[c] = u]
    BY <1>2, <2>1 DEF LogState, Transcript
  <2> HIDE DEF u, r
  <2>4. u.next >= t.next
    BY <1>2, <2>2 DEF Phases, Commit, Receipt
  <2>5. Changes(l, r.log, c, u)
    BY <1>2, <2>2, <2>3, LogAssumption DEF Changes, Activated
  <2>6. r.log.transcripts[c] = u
    BY <2>5, ChangesFacts
  <2>7. Prolongs(l, r.log)
    BY <1>2, <2>1, <2>2, <2>4, <2>5, ChangesProlong DEF PostIn
  <2> QED
    BY <1>2, <2>1, <2>2, <2>5, <2>6, <2>7 DEF Closes, PostIn
<1> QED
  BY <1>1, <1>2 DEF BegunIn

\* A transcript that ends without installation.
Ends(l, m, c) ==
    /\ BegunIn(l, c)
    /\ \E u : Changes(l, m, c, u)
    /\ Prolongs(l, m)
    /\ m.transcripts[c].scope = l.transcripts[c].scope
    /\ m.transcripts[c].predecessor = l.transcripts[c].predecessor
    /\ m.transcripts[c].next = l.transcripts[c].next
    /\ m.transcripts[c].terminal = Aborted
    /\ \A h \in Phases, r \in Roles : PostIn(m, c, h, r) = PostIn(l, c, h, r)

\* abort(): refused for an activated command, otherwise the end.
LEMMA AbortFacts ==
    ASSUME NEW l \in LogState, NEW c \in Commands, BegunIn(l, c)
    PROVE  LET r == Abort(l, c) IN
           \/ r.out # "Ok" /\ r.log = l /\ Activated(l, c)
           \/ r.out = "Ok" /\ Ends(l, r.log, c)
<1> DEFINE r == Abort(l, c)
           t == l.transcripts[c]
           u == [t EXCEPT !.terminal = Aborted]
<1>1. \/ r.out # "Ok" /\ r.log = l /\ Activated(l, c)
      \/ /\ r.out = "Ok" /\ ~Activated(l, c)
         /\ r.log = [l EXCEPT !.transcripts[c].terminal = Aborted]
  BY DEF Abort, Kept, BegunIn
<1>2. ASSUME ~Activated(l, c),
             r.log = [l EXCEPT !.transcripts[c].terminal = Aborted]
      PROVE  Ends(l, r.log, c)
  <2>1. t \in Transcript /\ t.next \in 1 .. 4 /\ t.terminal \in {None, Aborted}
    BY <1>2, TranscriptFacts DEF BegunIn, Activated, Terminal
  <2>2. /\ u \in Transcript
        /\ u.scope = t.scope /\ u.predecessor = t.predecessor
        /\ u.next = t.next /\ u.terminal = Aborted
        /\ u.posts = t.posts
    BY <2>1 DEF Transcript, Terminal
  <2>3. r.log = [l EXCEPT !.transcripts[c] = u]
    BY <1>2, <2>1 DEF LogState, Transcript
  <2>4. u.next >= t.next
    BY <2>1, <2>2
  <2> HIDE DEF u, r
  <2>5. Changes(l, r.log, c, u)
    BY <1>2, <2>2, <2>3, LogAssumption DEF Changes
  <2>6. r.log.transcripts[c] = u
    BY <2>5, ChangesFacts
  <2>7. Prolongs(l, r.log)
    BY <2>1, <2>2, <2>4, <2>5, ChangesProlong DEF PostIn
  <2> QED
    BY <2>2, <2>5, <2>6, <2>7 DEF Ends, PostIn
<1> QED
  BY <1>1, <1>2

\* A command that begins against the head of its scope.
Begins(l, m, c) ==
    /\ ~BegunIn(l, c)
    /\ \E u : Changes(l, m, c, u)
    /\ Prolongs(l, m)
    /\ m.transcripts[c].scope = CommandOf[c].scope
    /\ m.transcripts[c].predecessor = CommandOf[c].predecessor
    /\ l.current[CommandOf[c].scope] = CommandOf[c].predecessor
    /\ m.transcripts[c].next = Commit
    /\ m.transcripts[c].terminal = None
    /\ \A h \in Phases, r \in Roles : PostIn(m, c, h, r) = None

\* begin(): an error, a replay, or a new transcript.
LEMMA BeginFacts ==
    ASSUME NEW l \in LogState, NEW c \in Commands
    PROVE  LET r == Begin(l, CommandOf[c].scope, c,
                          CommandOf[c].predecessor, c) IN
           \/ r.out # "Ok" /\ r.log = l
           \/ r.out = "Ok" /\ r.log = l /\ BegunIn(l, c)
           \/ r.out = "Ok" /\ Begins(l, r.log, c)
<1> DEFINE s == CommandOf[c].scope
           p == CommandOf[c].predecessor
           r == Begin(l, s, c, p, c)
           u == [scope |-> s, predecessor |-> p, parameters |-> c,
                 posts |-> [k \in Phases \X Roles |-> None],
                 next |-> Commit, terminal |-> None]
<1>1. \/ r.out # "Ok" /\ r.log = l
      \/ r.out = "Ok" /\ r.log = l /\ BegunIn(l, c)
      \/ /\ r.out = "Ok" /\ ~BegunIn(l, c) /\ l.current[s] = p
         /\ r.log = [l EXCEPT !.transcripts[c] = u]
  BY DEF Begin, Kept, BegunIn
<1>2. s \in Scopes /\ p \in Handles /\ c \in Parameters
  BY RedistributionAssumption
<1>3. ASSUME ~BegunIn(l, c), l.current[s] = p,
             r.log = [l EXCEPT !.transcripts[c] = u]
      PROVE  Begins(l, r.log, c)
  <2>1. u \in Transcript
    BY <1>2, PhaseFacts DEF Transcript, Terminal
  <2>2. /\ u.scope = s /\ u.predecessor = p /\ u.next = Commit
        /\ u.terminal = None
        /\ \A h \in Phases, o \in Roles : u.posts[<<h, o>>] = None
    OBVIOUS
  <2> HIDE DEF u, r
  <2>3. Changes(l, r.log, c, u)
    BY <1>3, <2>1, <2>2, LogAssumption DEF Changes, Activated, BegunIn
  <2>4. r.log.transcripts[c] = u
    BY <2>3, ChangesFacts
  <2>5. Prolongs(l, r.log)
    BY <1>3, <2>3, ChangesProlong
  <2> QED
    BY <1>3, <2>2, <2>3, <2>4, <2>5 DEF Begins, PostIn
<1> QED
  BY <1>1, <1>3

-----------------------------------------------------------------------------
(* A call keeps the log sound *)

\* No opening is added.
NoNewOpenings(l, m) ==
    \A b \in Commands, r \in Contributors :
        BegunIn(m, b) /\ PostIn(m, b, Open, r) # None =>
            BegunIn(l, b) /\ PostIn(l, b, Open, r) # None

\* The log moved from l to m and activated nothing.
LogStep(F, l, m) ==
    /\ LogSound(m, F)
    /\ Prolongs(l, m)
    /\ \A b \in Commands : Activated(m, b) <=> Activated(l, b)

LEMMA StayStep ==
    ASSUME NEW F, NEW l \in LogState, LogSound(l, F)
    PROVE  LogStep(F, l, l) /\ NoNewOpenings(l, l)
BY ProlongsSelf DEF LogStep, NoNewOpenings

LEMMA ChangesStep ==
    ASSUME NEW F, NEW l \in LogState, LogSound(l, F), NEW m,
           NEW c \in Commands, \E u : Changes(l, m, c, u), Prolongs(l, m),
           TranscriptSound(m, c, F)
    PROVE  LogStep(F, l, m)
<1>1. PICK u : Changes(l, m, c, u)
  OBVIOUS
<1>2. LogSound(m, F)
  BY <1>1, ChangesSound
<1>3. \A b \in Commands : Activated(m, b) <=> Activated(l, b)
  BY <1>1, ChangesFacts
<1> QED
  BY <1>2, <1>3 DEF LogStep

\* Only the transcript of c can have new openings.
LEMMA ChangesOpenings ==
    ASSUME NEW l \in LogState, NEW m, NEW c \in Commands,
           \E u : Changes(l, m, c, u),
           \A r \in Contributors : PostIn(m, c, Open, r) # None =>
              BegunIn(l, c) /\ PostIn(l, c, Open, r) # None
    PROVE  NoNewOpenings(l, m)
<1>1. PICK u : Changes(l, m, c, u)
  OBVIOUS
<1>2. \A b \in Commands : b # c => m.transcripts[b] = l.transcripts[b]
  BY <1>1, ChangesFacts
<1> QED
  BY <1>2 DEF NoNewOpenings, BegunIn, PostIn

LEMMA BeginStep ==
    ASSUME NEW F, NEW l \in LogState, LogSound(l, F), NEW m,
           NEW c \in Commands, Begins(l, m, c)
    PROVE  /\ LogStep(F, l, m)
           /\ NoNewOpenings(l, m)
           /\ BegunIn(m, c)
<1>1. PICK u : Changes(l, m, c, u)
  BY DEF Begins
<1>2. m.handles = l.handles /\ BegunIn(m, c) /\ (Activated(m, c) => FALSE)
  BY <1>1, ChangesFacts DEF Changes
<1>3. CommandOf[c].predecessor \in l.handles
  BY RedistributionAssumption DEF Begins, LogSound
<1>4. \A h \in Phases, r \in Roles : PostIn(m, c, h, r) = None
  BY DEF Begins
<1>5. TranscriptSound(m, c, F)
  <2>1. \A r \in Contributors : PostIn(m, c, Open, r) = None
    BY <1>4, PhaseFacts, RoleFacts
  <2>2. \A g \in Targets : PostIn(m, c, Receipt, g) = None
    BY <1>4, PhaseFacts, RoleFacts
  <2>3. /\ m.transcripts[c].scope = CommandOf[c].scope
        /\ m.transcripts[c].predecessor = CommandOf[c].predecessor
        /\ m.transcripts[c].next = 1
    BY PhaseFacts DEF Begins
  <2> QED
    BY <1>2, <1>3, <2>1, <2>2, <2>3, PhaseFacts DEF TranscriptSound
<1>6. LogStep(F, l, m)
  BY <1>1, <1>5, ChangesStep DEF Begins
<1>7. NoNewOpenings(l, m)
  BY <1>1, <1>4, PhaseFacts, RoleFacts, ChangesOpenings
<1> QED
  BY <1>2, <1>6, <1>7

LEMMA EndStep ==
    ASSUME NEW F, NEW l \in LogState, LogSound(l, F), NEW m,
           NEW c \in Commands, Ends(l, m, c)
    PROVE  /\ LogStep(F, l, m)
           /\ NoNewOpenings(l, m)
<1>1. PICK u : Changes(l, m, c, u)
  BY DEF Ends
<1>2. m.handles = l.handles /\ BegunIn(m, c) /\ (Activated(m, c) => FALSE)
  BY <1>1, ChangesFacts DEF Changes
<1>3. \A h \in Phases, r \in Roles : PostIn(m, c, h, r) = PostIn(l, c, h, r)
  BY DEF Ends
<1>4. /\ \A r \in Contributors :
            /\ PostIn(m, c, Commit, r) = PostIn(l, c, Commit, r)
            /\ PostIn(m, c, Open, r) = PostIn(l, c, Open, r)
      /\ \A g \in Targets :
            PostIn(m, c, Receipt, g) = PostIn(l, c, Receipt, g)
  BY <1>3, PhaseFacts, RoleFacts
<1>5. /\ BegunIn(l, c)
      /\ m.transcripts[c].scope = l.transcripts[c].scope
      /\ m.transcripts[c].predecessor = l.transcripts[c].predecessor
      /\ m.transcripts[c].next = l.transcripts[c].next
  BY DEF Ends
<1>6. TranscriptSound(l, c, F)
  BY DEF LogSound
<1>7. TranscriptSound(m, c, F)
  BY <1>2, <1>4, <1>5, <1>6 DEF TranscriptSound
<1>8. LogStep(F, l, m)
  BY <1>1, <1>7, ChangesStep DEF Ends
<1>9. NoNewOpenings(l, m)
  BY <1>1, <1>4, <1>5, ChangesOpenings
<1> QED
  BY <1>8, <1>9

\* A phase may be closed when each of its roles has posted.
PhaseFull(l, c, phase) ==
    \A r \in IF phase = Receipt THEN Targets ELSE Contributors :
        PostIn(l, c, phase, r) # None

LEMMA CloseStep ==
    ASSUME NEW F, NEW l \in LogState, LogSound(l, F), NEW m,
           NEW c \in Commands, NEW phase \in Phases, Closes(l, m, c, phase),
           PhaseFull(l, c, phase)
    PROVE  /\ LogStep(F, l, m)
           /\ NoNewOpenings(l, m)
           /\ m.transcripts[c].next > phase
<1>1. PICK u : Changes(l, m, c, u)
  BY DEF Closes
<1>2. m.handles = l.handles /\ BegunIn(m, c) /\ (Activated(m, c) => FALSE)
  BY <1>1, ChangesFacts DEF Changes
<1>3. \A h \in Phases, r \in Roles : PostIn(m, c, h, r) = PostIn(l, c, h, r)
  BY DEF Closes
<1>4. /\ \A r \in Contributors :
            /\ PostIn(m, c, Commit, r) = PostIn(l, c, Commit, r)
            /\ PostIn(m, c, Open, r) = PostIn(l, c, Open, r)
      /\ \A g \in Targets :
            PostIn(m, c, Receipt, g) = PostIn(l, c, Receipt, g)
  BY <1>3, PhaseFacts, RoleFacts
<1>5. /\ BegunIn(l, c)
      /\ m.transcripts[c].scope = l.transcripts[c].scope
      /\ m.transcripts[c].predecessor = l.transcripts[c].predecessor
      /\ l.transcripts[c].next = phase
      /\ m.transcripts[c].next = phase + 1
      /\ phase \in 1 .. 3
  BY PhaseFacts DEF Closes, Phases
<1>6. TranscriptSound(l, c, F)
  BY DEF LogSound
<1>7. /\ m.transcripts[c].next > Commit =>
             \A r \in Contributors : PostIn(m, c, Commit, r) # None
      /\ m.transcripts[c].next > Open =>
             \A r \in Contributors : PostIn(m, c, Open, r) # None
      /\ m.transcripts[c].next > Receipt =>
             \A g \in Targets : PostIn(m, c, Receipt, g) # None
  <2>1. CASE phase = Commit
    <3>1. \A r \in Contributors : PostIn(l, c, Commit, r) # None
      BY <2>1, PhaseFacts DEF PhaseFull
    <3>2. m.transcripts[c].next = 2
      BY <2>1, <1>5, PhaseFacts
    <3> QED
      BY <3>1, <3>2, <1>4, PhaseFacts
  <2>2. CASE phase = Open
    <3>1. \A r \in Contributors : PostIn(l, c, Open, r) # None
      BY <2>2, PhaseFacts DEF PhaseFull
    <3>2. m.transcripts[c].next = 3 /\ l.transcripts[c].next = 2
      BY <2>2, <1>5, PhaseFacts
    <3>3. \A r \in Contributors : PostIn(l, c, Commit, r) # None
      BY <3>2, <1>5, <1>6, PhaseFacts DEF TranscriptSound
    <3> QED
      BY <3>1, <3>2, <3>3, <1>4, PhaseFacts
  <2>3. CASE phase = Receipt
    <3>1. \A r \in Targets : PostIn(l, c, Receipt, r) # None
      BY <2>3, PhaseFacts DEF PhaseFull
    <3>2. m.transcripts[c].next = 4 /\ l.transcripts[c].next = 3
      BY <2>3, <1>5, PhaseFacts
    <3>3. /\ \A r \in Contributors : PostIn(l, c, Commit, r) # None
          /\ \A r \in Contributors : PostIn(l, c, Open, r) # None
      BY <3>2, <1>5, <1>6, PhaseFacts DEF TranscriptSound
    <3> QED
      BY <3>1, <3>2, <3>3, <1>4, PhaseFacts
  <2> QED
    BY <1>5, <2>1, <2>2, <2>3, PhaseFacts
<1>8. TranscriptSound(m, c, F)
  BY <1>2, <1>4, <1>5, <1>6, <1>7 DEF TranscriptSound
<1>9. LogStep(F, l, m)
  BY <1>1, <1>8, ChangesStep DEF Closes
<1>10. NoNewOpenings(l, m)
  BY <1>1, <1>4, <1>5, ChangesOpenings
<1> QED
  BY <1>5, <1>9, <1>10

\* What must hold of the first post of a role.
MayPost(F, l, c, phase, role, p) ==
    /\ phase \in {Commit, Open} => role \in Contributors
    /\ phase = Open => p \in Sound /\ PostIn(l, c, Commit, role) = p
    /\ phase = Receipt => role \in Targets /\ <<c, role>> \in F

LEMMA PostStep ==
    ASSUME NEW F, NEW l \in LogState, LogSound(l, F), NEW m,
           NEW c \in Commands, NEW phase \in Phases, NEW role \in Roles,
           NEW p \in Payloads, Posts(l, m, c, phase, role, p),
           MayPost(F, l, c, phase, role, p)
    PROVE  /\ LogStep(F, l, m)
           /\ phase # Open => NoNewOpenings(l, m)
           /\ ~Activated(l, c)
<1>1. PICK u : Changes(l, m, c, u)
  BY DEF Posts
<1>2. m.handles = l.handles /\ BegunIn(m, c) /\ (Activated(m, c) => FALSE)
  BY <1>1, ChangesFacts DEF Changes
<1>3. /\ \A h \in Phases, r \in Roles : h # phase \/ r # role =>
           PostIn(m, c, h, r) = PostIn(l, c, h, r)
      /\ PostIn(m, c, phase, role) = p
      /\ PostIn(l, c, phase, role) = None
      /\ p # None
  BY LogAssumption DEF Posts
<1>4. /\ BegunIn(l, c)
      /\ m.transcripts[c].scope = l.transcripts[c].scope
      /\ m.transcripts[c].predecessor = l.transcripts[c].predecessor
      /\ m.transcripts[c].next = phase
      /\ l.transcripts[c].next = phase
  BY PhaseFacts DEF Posts
<1>5. TranscriptSound(l, c, F)
  BY DEF LogSound
<1>6. \A h \in Phases, r \in Roles :
         PostIn(l, c, h, r) # None => PostIn(m, c, h, r) = PostIn(l, c, h, r)
  BY <1>3
<1>7. ASSUME NEW r \in Contributors, PostIn(m, c, Open, r) # None
      PROVE  /\ PostIn(m, c, Open, r) \in Sound
             /\ PostIn(m, c, Commit, r) = PostIn(m, c, Open, r)
  <2>1. r \in Roles
    BY RoleFacts
  <2>2. CASE phase = Open /\ r = role
    <3>1. PostIn(m, c, Commit, r) = PostIn(l, c, Commit, r)
      BY <1>3, <2>1, <2>2, PhaseFacts
    <3> QED
      BY <1>3, <2>2, <3>1 DEF MayPost
  <2>3. CASE ~(phase = Open /\ r = role)
    <3>1. PostIn(m, c, Open, r) = PostIn(l, c, Open, r)
      BY <1>3, <2>1, <2>3, PhaseFacts
    <3>2. /\ PostIn(l, c, Open, r) \in Sound
          /\ PostIn(l, c, Commit, r) = PostIn(l, c, Open, r)
      BY <1>4, <1>5, <1>7, <3>1 DEF TranscriptSound
    <3>3. PostIn(m, c, Commit, r) = PostIn(l, c, Commit, r)
      BY <1>6, <1>7, <2>1, <3>1, <3>2, PhaseFacts
    <3> QED
      BY <3>1, <3>2, <3>3
  <2> QED
    BY <2>2, <2>3
<1>8. ASSUME NEW g \in Targets, PostIn(m, c, Receipt, g) # None
      PROVE  <<c, g>> \in F
  <2>1. g \in Roles
    BY RoleFacts
  <2>2. CASE phase = Receipt /\ g = role
    BY <2>2 DEF MayPost
  <2>3. CASE ~(phase = Receipt /\ g = role)
    <3>1. PostIn(m, c, Receipt, g) = PostIn(l, c, Receipt, g)
      BY <1>3, <2>1, <2>3, PhaseFacts
    <3> QED
      BY <1>4, <1>5, <1>8, <3>1 DEF TranscriptSound
  <2> QED
    BY <2>2, <2>3
<1>9. /\ m.transcripts[c].next > Commit =>
             \A r \in Contributors : PostIn(m, c, Commit, r) # None
      /\ m.transcripts[c].next > Open =>
             \A r \in Contributors : PostIn(m, c, Open, r) # None
      /\ m.transcripts[c].next > Receipt =>
             \A g \in Targets : PostIn(m, c, Receipt, g) # None
  <2>1. /\ phase > Commit =>
             \A r \in Contributors : PostIn(l, c, Commit, r) # None
        /\ phase > Open =>
             \A r \in Contributors : PostIn(l, c, Open, r) # None
        /\ phase > Receipt =>
             \A g \in Targets : PostIn(l, c, Receipt, g) # None
    BY <1>4, <1>5 DEF TranscriptSound
  <2> QED
    BY <1>4, <1>6, <2>1, RoleFacts, PhaseFacts
<1>10. TranscriptSound(m, c, F)
  <2>1. /\ m.transcripts[c].scope = CommandOf[c].scope
        /\ m.transcripts[c].predecessor = CommandOf[c].predecessor
        /\ m.transcripts[c].predecessor \in m.handles
    BY <1>2, <1>4, <1>5 DEF TranscriptSound
  <2> QED
    BY <1>2, <1>7, <1>8, <1>9, <2>1 DEF TranscriptSound
<1>11. LogStep(F, l, m)
  BY <1>1, <1>10, ChangesStep DEF Posts
<1>12. ASSUME phase # Open
       PROVE  NoNewOpenings(l, m)
  <2>1. \A r \in Contributors : PostIn(m, c, Open, r) = PostIn(l, c, Open, r)
    BY <1>3, <1>12, RoleFacts, PhaseFacts
  <2> QED
    BY <1>1, <1>4, <2>1, ChangesOpenings
<1>13. ~Activated(l, c)
  BY LogAssumption DEF Posts, Activated
<1> QED
  BY <1>11, <1>12, <1>13

-----------------------------------------------------------------------------
(* The calls of a candidate *)

\* A call of candidate x that returned r.
CallSound(F, l, c, x, r) ==
    /\ LogStep(F, l, r.log)
    /\ CandSound(r.log, c, r.cand)

LEMMA CallStays ==
    ASSUME NEW F, NEW l \in LogState, LogSound(l, F), NEW c \in Commands,
           NEW x, CandSound(l, c, x), NEW r, r.log = l, r.cand = x
    PROVE  CallSound(F, l, c, x, r) /\ NoNewOpenings(l, r.log)
BY StayStep DEF CallSound

LEMMA StepKeepsCand ==
    ASSUME NEW F, NEW l \in LogState, NEW m, LogStep(F, l, m),
           NEW c \in Commands, NEW x, CandSound(l, c, x)
    PROVE  CandSound(m, c, x)
<1>1. m \in LogState /\ Prolongs(l, m)
  BY DEF LogStep, LogSound
<1> QED
  BY <1>1, CandKept

\* commit()
LEMMA CommitCallSound ==
    ASSUME NEW F, NEW l \in LogState, LogSound(l, F), NEW c \in Commands,
           NEW x, CandSound(l, c, x), NEW role \in Roles, NEW v \in Values
    PROVE  LET r == CommitCall(l, x, c, role, v) IN
           /\ CallSound(F, l, c, x, r)
           /\ NoNewOpenings(l, r.log)
           /\ r.cand.stage = x.stage
<1> DEFINE r == CommitCall(l, x, c, role, v)
           p == Post(l, c, Commit, role, v)
           y == [x EXCEPT !.commitments[role] = v]
<1> SUFFICES /\ CallSound(F, l, c, x, r)
             /\ NoNewOpenings(l, r.log)
             /\ r.cand.stage = x.stage
  OBVIOUS
<1>1. \/ r.log = l /\ r.cand = x
      \/ /\ role \in Contributors
         /\ r.log = p.log
         /\ r.cand = IF p.out = "Ok" THEN y ELSE x
  BY DEF CommitCall, Same, Then
<1>2. x \in CandidateState
  BY DEF CandSound
<1>3. CASE r.log = l /\ r.cand = x
  BY <1>3, CallStays
<1>4. ASSUME role \in Contributors
      PROVE  /\ y \in CandidateState
             /\ y.stage = x.stage /\ y.closed = x.closed
             /\ y.openings = x.openings /\ y.view = x.view
             /\ y.receipts = x.receipts /\ y.terminal = x.terminal
             /\ y.commitments[role] = v
             /\ \A o \in Contributors : o # role =>
                   y.commitments[o] = x.commitments[o]
  BY <1>2, <1>4 DEF CandidateState
<1>5. CASE /\ role \in Contributors
           /\ r.log = p.log
           /\ r.cand = IF p.out = "Ok" THEN y ELSE x
  <2> HIDE DEF r, p, y
  <2>1. /\ v \in Payloads
        /\ \/ p.out # "Ok" /\ p.log = l
           \/ /\ p.out = "Ok" /\ p.log = l
              /\ BegunIn(l, c) /\ PostIn(l, c, Commit, role) = v
           \/ p.out = "Ok" /\ Posts(l, p.log, c, Commit, role, v)
    BY RoleFacts, PhaseFacts, PostFacts DEF p
  <2>2. CASE p.out # "Ok" /\ p.log = l
    BY <1>5, <2>2, CallStays
  <2>3. ASSUME p.out = "Ok", LogStep(F, l, p.log), NoNewOpenings(l, p.log),
               PostIn(p.log, c, Commit, role) = v
        PROVE  /\ CallSound(F, l, c, x, r)
               /\ NoNewOpenings(l, r.log)
               /\ r.cand.stage = x.stage
    <3>1. CandSound(p.log, c, x)
      BY <2>3, StepKeepsCand
    <3>2. CandSound(p.log, c, y)
      BY <1>4, <1>5, <2>3, <3>1 DEF CandSound
    <3> QED
      BY <1>4, <1>5, <2>3, <3>2 DEF CallSound
  <2>4. CASE p.out = "Ok" /\ p.log = l /\ PostIn(l, c, Commit, role) = v
    BY <2>3, <2>4, StayStep
  <2>5. CASE p.out = "Ok" /\ Posts(l, p.log, c, Commit, role, v)
    <3>1. MayPost(F, l, c, Commit, role, v)
      BY <1>5, PhaseFacts DEF MayPost
    <3>2. LogStep(F, l, p.log) /\ NoNewOpenings(l, p.log)
      BY <2>1, <2>5, <3>1, PhaseFacts, PostStep
    <3> QED
      BY <2>3, <2>5, <3>2 DEF Posts
  <2> QED
    BY <2>1, <2>2, <2>4, <2>5
<1> QED
  BY <1>1, <1>3, <1>5

\* open(): a contribution is opened only in stage Open, and never in a
\* command that was activated.
LEMMA OpenCallSound ==
    ASSUME NEW F, NEW l \in LogState, LogSound(l, F), NEW c \in Commands,
           NEW x, CandSound(l, c, x), NEW role \in Roles, NEW v \in Values
    PROVE  LET r == OpenCall(l, x, c, role, v) IN
           /\ CallSound(F, l, c, x, r)
           /\ r.cand.stage = x.stage
           /\ \/ NoNewOpenings(l, r.log)
              \/ /\ x.stage = "Open" /\ ~Activated(l, c)
                 /\ \A b \in Commands : b # c =>
                      r.log.transcripts[b] = l.transcripts[b]
<1> DEFINE r == OpenCall(l, x, c, role, v)
           p == Post(l, c, Open, role, v)
           y == [x EXCEPT !.openings[role] = v]
<1> SUFFICES /\ CallSound(F, l, c, x, r)
             /\ r.cand.stage = x.stage
             /\ \/ NoNewOpenings(l, r.log)
                \/ /\ x.stage = "Open" /\ ~Activated(l, c)
                   /\ \A b \in Commands : b # c =>
                        r.log.transcripts[b] = l.transcripts[b]
  OBVIOUS
<1>1. \/ r.log = l /\ r.cand = x
      \/ /\ role \in Contributors /\ x.stage = "Open"
         /\ v \in Sound /\ x.commitments[role] = v
         /\ r.log = p.log
         /\ r.cand = IF p.out = "Ok" THEN y ELSE x
  BY DEF OpenCall, Same, Then, Validates
<1>2. x \in CandidateState
  BY DEF CandSound
<1>3. CASE r.log = l /\ r.cand = x
  BY <1>3, CallStays
<1>4. ASSUME role \in Contributors, v \in Sound
      PROVE  /\ y \in CandidateState
             /\ y.stage = x.stage /\ y.closed = x.closed
             /\ y.commitments = x.commitments /\ y.view = x.view
             /\ y.receipts = x.receipts /\ y.terminal = x.terminal
             /\ y.openings[role] = v
             /\ \A o \in Contributors : o # role =>
                   y.openings[o] = x.openings[o]
  BY <1>2, <1>4 DEF CandidateState
<1>5. CASE /\ role \in Contributors /\ x.stage = "Open"
           /\ v \in Sound /\ x.commitments[role] = v
           /\ r.log = p.log
           /\ r.cand = IF p.out = "Ok" THEN y ELSE x
  <2> HIDE DEF r, p, y
  <2>1. /\ v \in Payloads
        /\ \/ p.out # "Ok" /\ p.log = l
           \/ /\ p.out = "Ok" /\ p.log = l
              /\ BegunIn(l, c) /\ PostIn(l, c, Open, role) = v
           \/ p.out = "Ok" /\ Posts(l, p.log, c, Open, role, v)
    BY RoleFacts, PhaseFacts, PostFacts DEF p
  <2>2. CASE p.out # "Ok" /\ p.log = l
    BY <1>5, <2>2, CallStays
  <2>3. ASSUME p.out = "Ok", LogStep(F, l, p.log),
               PostIn(p.log, c, Open, role) = v
        PROVE  /\ CallSound(F, l, c, x, r)
               /\ r.cand.stage = x.stage
    <3>1. CandSound(p.log, c, x)
      BY <2>3, StepKeepsCand
    <3>2. CandSound(p.log, c, y)
      BY <1>4, <1>5, <2>3, <3>1 DEF CandSound
    <3> QED
      BY <1>4, <1>5, <2>3, <3>2 DEF CallSound
  <2>4. CASE p.out = "Ok" /\ p.log = l /\ PostIn(l, c, Open, role) = v
    BY <1>5, <2>3, <2>4, StayStep
  <2>5. CASE p.out = "Ok" /\ Posts(l, p.log, c, Open, role, v)
    <3>1. MayPost(F, l, c, Open, role, v)
      BY <1>2, <1>5, RoleFacts, PhaseFacts DEF MayPost, CandSound
    <3>2. LogStep(F, l, p.log) /\ ~Activated(l, c)
      BY <2>1, <2>5, <3>1, PhaseFacts, PostStep
    <3>3. PICK u : Changes(l, p.log, c, u)
      BY <2>5 DEF Posts
    <3>4. \A b \in Commands : b # c => p.log.transcripts[b] = l.transcripts[b]
      BY <3>3, ChangesFacts
    <3> QED
      BY <1>5, <2>3, <2>5, <3>2, <3>4 DEF Posts
  <2> QED
    BY <2>1, <2>2, <2>4, <2>5
<1> QED
  BY <1>1, <1>3, <1>5

\* receipt()
LEMMA ReceiptCallSound ==
    ASSUME NEW F, NEW l \in LogState, LogSound(l, F), NEW c \in Commands,
           NEW x, CandSound(l, c, x), NEW q \in Receipts,
           <<q.command, q.target>> \in F
    PROVE  LET r == ReceiptCall(l, x, c, q) IN
           /\ CallSound(F, l, c, x, r)
           /\ NoNewOpenings(l, r.log)
           /\ r.cand.stage = x.stage
<1> DEFINE r == ReceiptCall(l, x, c, q)
           p == Post(l, c, Receipt, q.target, q.view)
           y == [x EXCEPT !.receipts = @ \cup {q.target}]
<1> SUFFICES /\ CallSound(F, l, c, x, r)
             /\ NoNewOpenings(l, r.log)
             /\ r.cand.stage = x.stage
  OBVIOUS
<1>1. \/ r.log = l /\ r.cand = x
      \/ /\ q.command = c
         /\ r.log = p.log
         /\ r.cand = IF p.out = "Ok" THEN y ELSE x
  BY DEF ReceiptCall, Same, Then
<1>2. x \in CandidateState
  BY DEF CandSound
<1>3. CASE r.log = l /\ r.cand = x
  BY <1>3, CallStays
<1>4. q.target \in Targets /\ q.view \in Views
  BY DEF Receipts
<1>5. /\ y \in CandidateState
      /\ y.stage = x.stage /\ y.closed = x.closed
      /\ y.openings = x.openings /\ y.view = x.view
      /\ y.commitments = x.commitments /\ y.terminal = x.terminal
      /\ y.receipts = x.receipts \cup {q.target}
  BY <1>2, <1>4 DEF CandidateState
<1>6. CASE /\ q.command = c
           /\ r.log = p.log
           /\ r.cand = IF p.out = "Ok" THEN y ELSE x
  <2> HIDE DEF r, p, y
  <2>0. q.target \in Roles /\ q.view \in Payloads /\ q.view # None
    BY <1>4, RoleFacts
  <2>1. \/ p.out # "Ok" /\ p.log = l
        \/ /\ p.out = "Ok" /\ p.log = l
           /\ BegunIn(l, c) /\ PostIn(l, c, Receipt, q.target) = q.view
        \/ p.out = "Ok" /\ Posts(l, p.log, c, Receipt, q.target, q.view)
    BY <2>0, PhaseFacts, PostFacts DEF p
  <2>2. CASE p.out # "Ok" /\ p.log = l
    BY <1>6, <2>2, CallStays
  <2>3. ASSUME p.out = "Ok", LogStep(F, l, p.log), NoNewOpenings(l, p.log),
               PostIn(p.log, c, Receipt, q.target) = q.view
        PROVE  /\ CallSound(F, l, c, x, r)
               /\ NoNewOpenings(l, r.log)
               /\ r.cand.stage = x.stage
    <3>1. CandSound(p.log, c, x)
      BY <2>3, StepKeepsCand
    <3>2. \A g \in y.receipts : PostIn(p.log, c, Receipt, g) # None
      BY <1>5, <2>0, <2>3, <3>1 DEF CandSound
    <3>3. CandSound(p.log, c, y)
      BY <1>5, <3>1, <3>2 DEF CandSound
    <3> QED
      BY <1>5, <1>6, <2>3, <3>3 DEF CallSound
  <2>4. CASE /\ p.out = "Ok" /\ p.log = l
             /\ PostIn(l, c, Receipt, q.target) = q.view
    BY <2>3, <2>4, StayStep
  <2>5. CASE /\ p.out = "Ok"
             /\ Posts(l, p.log, c, Receipt, q.target, q.view)
    <3>1. MayPost(F, l, c, Receipt, q.target, q.view)
      BY <1>4, <1>6, PhaseFacts DEF MayPost
    <3>2. LogStep(F, l, p.log) /\ NoNewOpenings(l, p.log)
      BY <2>0, <2>5, <3>1, PhaseFacts, PostStep
    <3> QED
      BY <2>3, <2>5, <3>2 DEF Posts
  <2> QED
    BY <2>1, <2>2, <2>4, <2>5
<1> QED
  BY <1>1, <1>3, <1>6

\* close_commitments(): success means that the commitments are closed.
LEMMA CloseCommitmentsCallSound ==
    ASSUME NEW F, NEW l \in LogState, LogSound(l, F), NEW c \in Commands,
           NEW x, CandSound(l, c, x)
    PROVE  LET r == CloseCommitmentsCall(l, x, c) IN
           /\ CallSound(F, l, c, x, r)
           /\ NoNewOpenings(l, r.log)
           /\ r.out = "Ok" => r.cand.closed
           /\ r.out # "Ok" => r.cand = x
<1> DEFINE r == CloseCommitmentsCall(l, x, c)
           p == ClosePhase(l, c, Commit)
           y == [x EXCEPT !.closed = TRUE, !.stage = "Open"]
<1> SUFFICES /\ CallSound(F, l, c, x, r)
             /\ NoNewOpenings(l, r.log)
             /\ r.out = "Ok" => r.cand.closed
             /\ r.out # "Ok" => r.cand = x
  OBVIOUS
<1>1. \/ r.log = l /\ r.cand = x /\ (r.out = "Ok" => x.closed)
      \/ /\ x.stage = "Commit" /\ Complete(x.commitments)
         /\ r.log = p.log
         /\ r.cand = IF p.out = "Ok" THEN y ELSE x
         /\ r.out = IF p.out = "Ok" THEN "Ok" ELSE "Err"
  BY DEF CloseCommitmentsCall, Same, Then
<1>2. x \in CandidateState
  BY DEF CandSound
<1>3. CASE r.log = l /\ r.cand = x /\ (r.out = "Ok" => x.closed)
  BY <1>3, CallStays
<1>4. /\ y \in CandidateState
      /\ y.stage = "Open" /\ y.closed = TRUE
      /\ y.commitments = x.commitments
      /\ y.openings = x.openings /\ y.view = x.view
      /\ y.receipts = x.receipts /\ y.terminal = x.terminal
  BY <1>2 DEF CandidateState, Stages
<1>5. CASE /\ x.stage = "Commit" /\ Complete(x.commitments)
           /\ r.log = p.log
           /\ r.cand = IF p.out = "Ok" THEN y ELSE x
           /\ r.out = IF p.out = "Ok" THEN "Ok" ELSE "Err"
  <2> HIDE DEF r, p, y
  <2>1. \/ p.out # "Ok" /\ p.log = l
        \/ /\ p.out = "Ok" /\ p.log = l
           /\ BegunIn(l, c) /\ l.transcripts[c].next > Commit
        \/ p.out = "Ok" /\ Closes(l, p.log, c, Commit)
    BY PhaseFacts, ClosePhaseFacts DEF p
  <2>2. CASE p.out # "Ok" /\ p.log = l
    BY <1>5, <2>2, CallStays
  <2>3. ASSUME p.out = "Ok", LogStep(F, l, p.log), NoNewOpenings(l, p.log),
               p.log.transcripts[c].next > Commit
        PROVE  /\ CallSound(F, l, c, x, r)
               /\ NoNewOpenings(l, r.log)
               /\ r.out = "Ok" => r.cand.closed
               /\ r.out # "Ok" => r.cand = x
    <3>1. CandSound(p.log, c, x)
      BY <2>3, StepKeepsCand
    <3>2. x.terminal = None
      BY <1>5 DEF CandSound
    <3>3. CandSound(p.log, c, y)
      BY <1>4, <2>3, <3>1, <3>2 DEF CandSound
    <3> QED
      BY <1>4, <1>5, <2>3, <3>3 DEF CallSound
  <2>4. CASE p.out = "Ok" /\ p.log = l /\ l.transcripts[c].next > Commit
    BY <2>3, <2>4, StayStep
  <2>5. CASE p.out = "Ok" /\ Closes(l, p.log, c, Commit)
    <3>1. PhaseFull(l, c, Commit)
      BY <1>5, PhaseFacts DEF PhaseFull, CandSound, Complete
    <3>2. /\ LogStep(F, l, p.log) /\ NoNewOpenings(l, p.log)
          /\ p.log.transcripts[c].next > Commit
      BY <2>5, <3>1, PhaseFacts, CloseStep
    <3> QED
      BY <2>3, <2>5, <3>2
  <2> QED
    BY <2>1, <2>2, <2>4, <2>5
<1> QED
  BY <1>1, <1>3, <1>5

\* close_openings(): the view is the one in the log.
LEMMA CloseOpeningsCallSound ==
    ASSUME NEW F, NEW l \in LogState, LogSound(l, F), NEW c \in Commands,
           NEW x, CandSound(l, c, x)
    PROVE  LET r == CloseOpeningsCall(l, x, c) IN
           /\ CallSound(F, l, c, x, r)
           /\ NoNewOpenings(l, r.log)
           /\ r.cand.stage = "Open" => x.stage = "Open"
<1> DEFINE r == CloseOpeningsCall(l, x, c)
           p == ClosePhase(l, c, Open)
           y == [x EXCEPT !.stage = "Receipt", !.view = BuildView(x)]
<1> SUFFICES /\ CallSound(F, l, c, x, r)
             /\ NoNewOpenings(l, r.log)
             /\ r.cand.stage = "Open" => x.stage = "Open"
  OBVIOUS
<1>1. \/ r.log = l /\ r.cand = x
      \/ /\ x.stage = "Open" /\ Complete(x.openings)
         /\ r.log = p.log
         /\ r.cand = IF p.out = "Ok" THEN y ELSE x
  BY DEF CloseOpeningsCall, Same, Then
<1>2. x \in CandidateState
  BY DEF CandSound
<1>3. CASE r.log = l /\ r.cand = x
  BY <1>3, CallStays
<1>4. ASSUME Complete(x.openings)
      PROVE  /\ x.openings \in Views
             /\ y \in CandidateState
             /\ y.stage = "Receipt" /\ y.closed = x.closed
             /\ y.commitments = x.commitments
             /\ y.openings = x.openings /\ y.view = x.openings
             /\ y.receipts = x.receipts /\ y.terminal = x.terminal
  <2>1. x.openings \in [Contributors -> Sound \cup {None}]
    BY <1>2 DEF CandidateState
  <2>2. x.openings \in Views
    BY <1>4, <2>1 DEF Views, Complete
  <2> QED
    BY <1>2, <2>2 DEF CandidateState, Stages, BuildView
<1>5. CASE /\ x.stage = "Open" /\ Complete(x.openings)
           /\ r.log = p.log
           /\ r.cand = IF p.out = "Ok" THEN y ELSE x
  <2> HIDE DEF r, p, y
  <2>1. \/ p.out # "Ok" /\ p.log = l
        \/ /\ p.out = "Ok" /\ p.log = l
           /\ BegunIn(l, c) /\ l.transcripts[c].next > Open
        \/ p.out = "Ok" /\ Closes(l, p.log, c, Open)
    BY PhaseFacts, ClosePhaseFacts DEF p
  <2>2. CASE p.out # "Ok" /\ p.log = l
    BY <1>5, <2>2, CallStays
  <2>3. ASSUME p.out = "Ok", LogStep(F, l, p.log), NoNewOpenings(l, p.log)
        PROVE  /\ CallSound(F, l, c, x, r)
               /\ NoNewOpenings(l, r.log)
               /\ r.cand.stage = "Open" => x.stage = "Open"
    <3>1. CandSound(p.log, c, x)
      BY <2>3, StepKeepsCand
    <3>2. x.terminal = None /\ x.closed
      BY <1>5 DEF CandSound
    <3>3. \A o \in Contributors : x.openings[o] = PostIn(p.log, c, Open, o)
      BY <1>5, <3>1 DEF CandSound, Complete
    <3>4. x.openings = [o \in Contributors |-> x.openings[o]]
      BY <1>4, <1>5 DEF Views
    <3>5. x.openings = ViewIn(p.log, c)
      BY <3>3, <3>4 DEF ViewIn
    <3>6. /\ y \in CandidateState /\ BegunIn(p.log, c)
          /\ y.view = ViewIn(p.log, c) /\ y.terminal = None /\ y.closed
      BY <1>4, <1>5, <3>1, <3>2, <3>5 DEF CandSound
    <3>7. /\ y.commitments = x.commitments /\ y.openings = x.openings
          /\ y.receipts = x.receipts /\ y.closed = x.closed
      BY <1>4, <1>5
    <3>8. CandSound(p.log, c, y)
      BY <3>1, <3>6, <3>7 DEF CandSound
    <3> QED
      BY <1>4, <1>5, <2>3, <3>8 DEF CallSound
  <2>4. CASE p.out = "Ok" /\ p.log = l
    BY <2>3, <2>4, StayStep
  <2>5. CASE p.out = "Ok" /\ Closes(l, p.log, c, Open)
    <3>1. PhaseFull(l, c, Open)
      BY <1>5, PhaseFacts DEF PhaseFull, CandSound, Complete
    <3>2. LogStep(F, l, p.log) /\ NoNewOpenings(l, p.log)
      BY <2>5, <3>1, PhaseFacts, CloseStep
    <3> QED
      BY <2>3, <2>5, <3>2
  <2> QED
    BY <2>1, <2>2, <2>4, <2>5
<1> QED
  BY <1>1, <1>3, <1>5

\* prepare()
LEMMA PrepareCallSound ==
    ASSUME NEW F, NEW l \in LogState, LogSound(l, F), NEW c \in Commands,
           NEW x, CandSound(l, c, x)
    PROVE  LET r == PrepareCall(l, x, c) IN
           /\ CallSound(F, l, c, x, r)
           /\ NoNewOpenings(l, r.log)
           /\ r.cand.stage = "Open" => x.stage = "Open"
<1> DEFINE r == PrepareCall(l, x, c)
           p == ClosePhase(l, c, Receipt)
           y == [x EXCEPT !.stage = "Ready"]
<1> SUFFICES /\ CallSound(F, l, c, x, r)
             /\ NoNewOpenings(l, r.log)
             /\ r.cand.stage = "Open" => x.stage = "Open"
  OBVIOUS
<1>1. \/ r.log = l /\ r.cand = x
      \/ /\ x.stage = "Receipt" /\ x.receipts = Targets
         /\ r.log = p.log
         /\ r.cand = IF p.out = "Ok" THEN y ELSE x
  BY DEF PrepareCall, Same, Then
<1>2. x \in CandidateState
  BY DEF CandSound
<1>3. CASE r.log = l /\ r.cand = x
  BY <1>3, CallStays
<1>4. /\ y \in CandidateState
      /\ y.stage = "Ready" /\ y.closed = x.closed
      /\ y.commitments = x.commitments
      /\ y.openings = x.openings /\ y.view = x.view
      /\ y.receipts = x.receipts /\ y.terminal = x.terminal
  BY <1>2 DEF CandidateState, Stages
<1>5. CASE /\ x.stage = "Receipt" /\ x.receipts = Targets
           /\ r.log = p.log
           /\ r.cand = IF p.out = "Ok" THEN y ELSE x
  <2> HIDE DEF r, p, y
  <2>1. \/ p.out # "Ok" /\ p.log = l
        \/ /\ p.out = "Ok" /\ p.log = l
           /\ BegunIn(l, c) /\ l.transcripts[c].next > Receipt
        \/ p.out = "Ok" /\ Closes(l, p.log, c, Receipt)
    BY PhaseFacts, ClosePhaseFacts DEF p
  <2>2. CASE p.out # "Ok" /\ p.log = l
    BY <1>5, <2>2, CallStays
  <2>3. ASSUME p.out = "Ok", LogStep(F, l, p.log), NoNewOpenings(l, p.log)
        PROVE  /\ CallSound(F, l, c, x, r)
               /\ NoNewOpenings(l, r.log)
               /\ r.cand.stage = "Open" => x.stage = "Open"
    <3>1. CandSound(p.log, c, x)
      BY <2>3, StepKeepsCand
    <3>2. x.terminal = None /\ x.closed
      BY <1>5 DEF CandSound
    <3>3. CandSound(p.log, c, y)
      BY <1>4, <3>1, <3>2 DEF CandSound
    <3> QED
      BY <1>4, <1>5, <2>3, <3>3 DEF CallSound
  <2>4. CASE p.out = "Ok" /\ p.log = l
    BY <2>3, <2>4, StayStep
  <2>5. CASE p.out = "Ok" /\ Closes(l, p.log, c, Receipt)
    <3>1. PhaseFull(l, c, Receipt)
      BY <1>5, PhaseFacts DEF PhaseFull, CandSound
    <3>2. LogStep(F, l, p.log) /\ NoNewOpenings(l, p.log)
      BY <2>5, <3>1, PhaseFacts, CloseStep
    <3> QED
      BY <2>3, <2>5, <3>2
  <2> QED
    BY <2>1, <2>2, <2>4, <2>5
<1> QED
  BY <1>1, <1>3, <1>5

\* x ends as y, which knows t.
EndsAs(x, y, t) == y = [x EXCEPT !.stage = "Terminal", !.terminal = t]

\* A candidate that takes the log's decision, or is given up without one.
LEMMA EndedCand ==
    ASSUME NEW m, NEW c \in Commands, NEW x, CandSound(m, c, x),
           NEW t \in Terminal, t # None => t = m.transcripts[c].terminal,
           NEW y, EndsAs(x, y, t)
    PROVE  CandSound(m, c, y) /\ y.stage = "Terminal"
<1>1. x \in CandidateState
  BY DEF CandSound
<1>2. /\ y \in CandidateState
      /\ y.stage = "Terminal" /\ y.closed = x.closed
      /\ y.commitments = x.commitments
      /\ y.openings = x.openings /\ y.view = x.view
      /\ y.receipts = x.receipts /\ y.terminal = t
  BY <1>1 DEF EndsAs, CandidateState, Stages
<1>3. CandSound(m, c, y)
  BY <1>2 DEF CandSound
<1> QED
  BY <1>2, <1>3

\* abort(): the candidate ends, unless the command was activated.
LEMMA AbortCallSound ==
    ASSUME NEW F, NEW l \in LogState, LogSound(l, F), NEW c \in Commands,
           NEW x, CandSound(l, c, x)
    PROVE  LET r == AbortCall(l, x, c) IN
           /\ CallSound(F, l, c, x, r)
           /\ NoNewOpenings(l, r.log)
           /\ r.cand.stage = "Open" => x.stage = "Open" /\ Activated(l, c)
<1> DEFINE r == AbortCall(l, x, c)
           p == Abort(l, c)
           y == [x EXCEPT !.stage = "Terminal", !.terminal = Aborted]
<1> SUFFICES /\ CallSound(F, l, c, x, r)
             /\ NoNewOpenings(l, r.log)
             /\ r.cand.stage = "Open" => x.stage = "Open" /\ Activated(l, c)
  OBVIOUS
<1>1. \/ x.terminal # None /\ r.log = l /\ r.cand = x
      \/ r.log = p.log /\ r.cand = IF p.out = "Ok" THEN y ELSE x
  BY DEF AbortCall, Same, Then
<1>2. CASE x.terminal # None /\ r.log = l /\ r.cand = x
  <2>1. x.stage = "Terminal"
    BY <1>2 DEF CandSound
  <2> QED
    BY <1>2, <2>1, CallStays
<1>3. CASE r.log = p.log /\ r.cand = IF p.out = "Ok" THEN y ELSE x
  <2>1. BegunIn(l, c)
    BY DEF CandSound
  <2> HIDE DEF r, p
  <2>2. \/ p.out # "Ok" /\ p.log = l /\ Activated(l, c)
        \/ p.out = "Ok" /\ Ends(l, p.log, c)
    BY <2>1, AbortFacts DEF p
  <2>3. CASE p.out # "Ok" /\ p.log = l /\ Activated(l, c)
    BY <1>3, <2>3, CallStays
  <2>4. CASE p.out = "Ok" /\ Ends(l, p.log, c)
    <3>1. LogStep(F, l, p.log) /\ NoNewOpenings(l, p.log)
      BY <2>4, EndStep
    <3>2. CandSound(p.log, c, x)
      BY <3>1, StepKeepsCand
    <3>3. p.log.transcripts[c].terminal = Aborted
      BY <2>4 DEF Ends
    <3>4. Aborted \in Terminal
      BY DEF Terminal
    <3>5. EndsAs(x, y, Aborted)
      BY DEF EndsAs
    <3> HIDE DEF y
    <3>6. CandSound(p.log, c, y) /\ y.stage = "Terminal"
      BY <3>2, <3>3, <3>4, <3>5, EndedCand
    <3> QED
      BY <1>3, <2>4, <3>1, <3>6 DEF CallSound
  <2> QED
    BY <2>2, <2>3, <2>4
<1> QED
  BY <1>1, <1>2, <1>3

\* abort_with()
LEMMA AbortWithCallSound ==
    ASSUME NEW F, NEW l \in LogState, LogSound(l, F), NEW c \in Commands,
           NEW x, CandSound(l, c, x)
    PROVE  LET r == AbortWithCall(l, x, c) IN
           /\ CallSound(F, l, c, x, r)
           /\ NoNewOpenings(l, r.log)
           /\ r.cand.stage = "Terminal"
<1> DEFINE r == AbortWithCall(l, x, c)
           p == Abort(l, c)
           t == IF p.out = "Ok" THEN Aborted ELSE x.terminal
           y == [x EXCEPT !.stage = "Terminal", !.terminal = t]
<1> SUFFICES /\ CallSound(F, l, c, x, r)
             /\ NoNewOpenings(l, r.log)
             /\ r.cand.stage = "Terminal"
  OBVIOUS
<1>1. BegunIn(l, c) /\ x \in CandidateState
  BY DEF CandSound
<1>2. x.terminal \in Terminal
  BY <1>1 DEF CandidateState
<1>3. r.log = p.log /\ r.cand = y
  BY <1>1 DEF AbortWithCall, Same, CandidateState
<1>4. \/ p.out # "Ok" /\ p.log = l /\ Activated(l, c)
      \/ p.out = "Ok" /\ Ends(l, p.log, c)
  BY <1>1, AbortFacts
<1>5. t \in Terminal
  BY <1>2 DEF Terminal
<1> HIDE DEF r, p
<1>6. LogStep(F, l, p.log) /\ NoNewOpenings(l, p.log)
  <2>1. CASE p.log = l
    BY <2>1, StayStep
  <2>2. CASE Ends(l, p.log, c)
    BY <2>2, EndStep
  <2> QED
    BY <1>4, <2>1, <2>2
<1>7. CandSound(p.log, c, x)
  BY <1>6, StepKeepsCand
<1>8. t # None => t = p.log.transcripts[c].terminal
  BY <1>4, <1>7 DEF Ends, CandSound
<1>9. EndsAs(x, y, t)
  BY DEF EndsAs
<1> HIDE DEF t, y
<1>10. CandSound(p.log, c, y) /\ y.stage = "Terminal"
  BY <1>5, <1>7, <1>8, <1>9, EndedCand
<1> QED
  BY <1>3, <1>6, <1>10 DEF CallSound

\* new(): a candidate starts with nothing but a transcript in the log.
LEMMA BeginCallSound ==
    ASSUME NEW F, NEW l \in LogState, LogSound(l, F), NEW c \in Commands,
           NEW x
    PROVE  LET r == Then(Begin(l, CommandOf[c].scope, c,
                               CommandOf[c].predecessor, c), x,
                         NewCandidate) IN
           /\ LogStep(F, l, r.log)
           /\ NoNewOpenings(l, r.log)
           /\ \/ r.out # "Ok" /\ r.cand = x
              \/ /\ r.out = "Ok" /\ CandSound(r.log, c, r.cand)
                 /\ r.cand.stage = "Commit"
<1> DEFINE p == Begin(l, CommandOf[c].scope, c, CommandOf[c].predecessor, c)
           r == Then(p, x, NewCandidate)
<1> SUFFICES /\ LogStep(F, l, r.log)
             /\ NoNewOpenings(l, r.log)
             /\ \/ r.out # "Ok" /\ r.cand = x
                \/ /\ r.out = "Ok" /\ CandSound(r.log, c, r.cand)
                   /\ r.cand.stage = "Commit"
  OBVIOUS
<1>1. /\ r.log = p.log
      /\ r.cand = IF p.out = "Ok" THEN NewCandidate ELSE x
      /\ r.out = IF p.out = "Ok" THEN "Ok" ELSE "Err"
  BY DEF Then, Same
<1>2. \/ p.out # "Ok" /\ p.log = l
      \/ p.out = "Ok" /\ p.log = l /\ BegunIn(l, c)
      \/ p.out = "Ok" /\ Begins(l, p.log, c)
  BY BeginFacts
<1> HIDE DEF r, p
<1>3. /\ LogStep(F, l, p.log) /\ NoNewOpenings(l, p.log)
      /\ p.out = "Ok" => BegunIn(p.log, c)
  <2>1. CASE p.log = l /\ (p.out = "Ok" => BegunIn(l, c))
    BY <2>1, StayStep
  <2>2. CASE Begins(l, p.log, c)
    BY <2>2, BeginStep
  <2> QED
    BY <1>2, <2>1, <2>2
<1>4. ASSUME BegunIn(p.log, c)
      PROVE  CandSound(p.log, c, NewCandidate)
  <2>1. NewCandidate \in CandidateState
    BY DEF NewCandidate, CandidateState, Stages, Terminal
  <2>2. /\ \A o \in Contributors : NewCandidate.commitments[o] = None
        /\ \A o \in Contributors : NewCandidate.openings[o] = None
        /\ NewCandidate.closed = FALSE /\ NewCandidate.stage = "Commit"
        /\ NewCandidate.view = None /\ NewCandidate.receipts = {}
        /\ NewCandidate.terminal = None
    BY DEF NewCandidate
  <2> QED
    BY <1>4, <2>1, <2>2 DEF CandSound
<1>5. NewCandidate.stage = "Commit"
  BY DEF NewCandidate
<1> QED
  BY <1>1, <1>3, <1>4, <1>5

-----------------------------------------------------------------------------
(* One call of a driver *)

\* The calls other than activate, with the arguments a caller can give.
CallTyped(F, k) ==
    /\ k.c \in Commands
    /\ k.op \in {"begin", "commit", "close_commitments", "open",
                 "close_openings", "receipt", "prepare", "abort",
                 "abort_with"}
    /\ k.op \in {"commit", "open"} =>
         k.arg.role \in Roles /\ k.arg.value \in Values
    /\ k.op = "receipt" =>
         k.arg \in Receipts /\ <<k.arg.command, k.arg.target>> \in F

\* What call k returns for candidate x (None before begin).
Stepped(F, l, x, k, r) ==
    /\ LogStep(F, l, r.log)
    /\ r.cand # None => CandSound(r.log, k.c, r.cand)
    /\ r.cand = None => x = None /\ k.op = "begin" /\ r.out # "Ok"
    /\ r.cand # None /\ r.cand.stage = "Open" =>
         \/ x # None /\ x.stage = "Open"
         \/ k.op = "close_commitments" /\ r.out = "Ok"
    /\ k.op = "close_commitments" /\ r.out = "Ok" => r.cand.closed
    /\ k.op = "abort" /\ r.cand.stage = "Open" => Activated(l, k.c)
    /\ \/ NoNewOpenings(l, r.log)
       \/ /\ k.op = "open" /\ x.stage = "Open" /\ ~Activated(l, k.c)
          /\ \A b \in Commands : b # k.c =>
               r.log.transcripts[b] = l.transcripts[b]

LEMMA ResultFacts ==
    ASSUME NEW F, NEW l \in LogState, LogSound(l, F), NEW k, CallTyped(F, k),
           NEW x, x = None \/ CandSound(l, k.c, x),
           x = None => k.op = "begin"
    PROVE  Stepped(F, l, x, k, Result(l, x, k))
<1> DEFINE r == Result(l, x, k)
<1> SUFFICES Stepped(F, l, x, k, r)
  OBVIOUS
<1>1. k.c \in Commands
  BY DEF CallTyped
<1>2. \A y, m : CandSound(m, k.c, y) => y # None
  BY AbsentAssumption DEF CandSound
<1>3. CASE k.op = "begin"
  <2>1. r = Then(Begin(l, CommandOf[k.c].scope, k.c,
                       CommandOf[k.c].predecessor, k.c), x, NewCandidate)
    BY <1>3 DEF Result
  <2> HIDE DEF r
  <2>2. /\ LogStep(F, l, r.log)
        /\ NoNewOpenings(l, r.log)
        /\ \/ r.out # "Ok" /\ r.cand = x
           \/ /\ r.out = "Ok" /\ CandSound(r.log, k.c, r.cand)
              /\ r.cand.stage = "Commit"
    BY <1>1, <2>1, BeginCallSound
  <2>3. CandSound(l, k.c, x) => CandSound(r.log, k.c, x)
    BY <1>1, <2>2, StepKeepsCand
  <2> QED
    BY <1>2, <1>3, <2>2, <2>3 DEF Stepped
<1>4. CASE k.op = "commit"
  <2>1. r = CommitCall(l, x, k.c, k.arg.role, k.arg.value)
    BY <1>4 DEF Result
  <2>2. /\ k.arg.role \in Roles /\ k.arg.value \in Values
        /\ CandSound(l, k.c, x)
    BY <1>4 DEF CallTyped
  <2> HIDE DEF r
  <2>3. /\ CallSound(F, l, k.c, x, r)
        /\ NoNewOpenings(l, r.log)
        /\ r.cand.stage = x.stage
    BY <1>1, <2>1, <2>2, CommitCallSound
  <2> QED
    BY <1>2, <1>4, <2>2, <2>3 DEF Stepped, CallSound
<1>5. CASE k.op = "close_commitments"
  <2>1. r = CloseCommitmentsCall(l, x, k.c)
    BY <1>5 DEF Result
  <2>2. CandSound(l, k.c, x)
    BY <1>5
  <2> HIDE DEF r
  <2>3. /\ CallSound(F, l, k.c, x, r)
        /\ NoNewOpenings(l, r.log)
        /\ r.out = "Ok" => r.cand.closed
        /\ r.out # "Ok" => r.cand = x
    BY <1>1, <2>1, <2>2, CloseCommitmentsCallSound
  <2> QED
    BY <1>2, <1>5, <2>2, <2>3 DEF Stepped, CallSound
<1>6. CASE k.op = "open"
  <2>1. r = OpenCall(l, x, k.c, k.arg.role, k.arg.value)
    BY <1>6 DEF Result
  <2>2. /\ k.arg.role \in Roles /\ k.arg.value \in Values
        /\ CandSound(l, k.c, x)
    BY <1>6 DEF CallTyped
  <2> HIDE DEF r
  <2>3. /\ CallSound(F, l, k.c, x, r)
        /\ r.cand.stage = x.stage
        /\ \/ NoNewOpenings(l, r.log)
           \/ /\ x.stage = "Open" /\ ~Activated(l, k.c)
              /\ \A b \in Commands : b # k.c =>
                   r.log.transcripts[b] = l.transcripts[b]
    BY <1>1, <2>1, <2>2, OpenCallSound
  <2> QED
    BY <1>2, <1>6, <2>2, <2>3 DEF Stepped, CallSound
<1>7. CASE k.op = "close_openings"
  <2>1. r = CloseOpeningsCall(l, x, k.c)
    BY <1>7 DEF Result
  <2>2. CandSound(l, k.c, x)
    BY <1>7
  <2> HIDE DEF r
  <2>3. /\ CallSound(F, l, k.c, x, r)
        /\ NoNewOpenings(l, r.log)
        /\ r.cand.stage = "Open" => x.stage = "Open"
    BY <1>1, <2>1, <2>2, CloseOpeningsCallSound
  <2> QED
    BY <1>2, <1>7, <2>2, <2>3 DEF Stepped, CallSound
<1>8. CASE k.op = "receipt"
  <2>1. r = ReceiptCall(l, x, k.c, k.arg)
    BY <1>8 DEF Result
  <2>2. /\ k.arg \in Receipts /\ <<k.arg.command, k.arg.target>> \in F
        /\ CandSound(l, k.c, x)
    BY <1>8 DEF CallTyped
  <2> HIDE DEF r
  <2>3. /\ CallSound(F, l, k.c, x, r)
        /\ NoNewOpenings(l, r.log)
        /\ r.cand.stage = x.stage
    BY <1>1, <2>1, <2>2, ReceiptCallSound
  <2> QED
    BY <1>2, <1>8, <2>2, <2>3 DEF Stepped, CallSound
<1>9. CASE k.op = "prepare"
  <2>1. r = PrepareCall(l, x, k.c)
    BY <1>9 DEF Result
  <2>2. CandSound(l, k.c, x)
    BY <1>9
  <2> HIDE DEF r
  <2>3. /\ CallSound(F, l, k.c, x, r)
        /\ NoNewOpenings(l, r.log)
        /\ r.cand.stage = "Open" => x.stage = "Open"
    BY <1>1, <2>1, <2>2, PrepareCallSound
  <2> QED
    BY <1>2, <1>9, <2>2, <2>3 DEF Stepped, CallSound
<1>10. CASE k.op = "abort"
  <2>1. r = AbortCall(l, x, k.c)
    BY <1>10 DEF Result
  <2>2. CandSound(l, k.c, x)
    BY <1>10
  <2> HIDE DEF r
  <2>3. /\ CallSound(F, l, k.c, x, r)
        /\ NoNewOpenings(l, r.log)
        /\ r.cand.stage = "Open" => x.stage = "Open" /\ Activated(l, k.c)
    BY <1>1, <2>1, <2>2, AbortCallSound
  <2> QED
    BY <1>2, <1>10, <2>2, <2>3 DEF Stepped, CallSound
<1>11. CASE k.op = "abort_with"
  <2>1. r = AbortWithCall(l, x, k.c)
    BY <1>11 DEF Result
  <2>2. CandSound(l, k.c, x)
    BY <1>11
  <2> HIDE DEF r
  <2>3. /\ CallSound(F, l, k.c, x, r)
        /\ NoNewOpenings(l, r.log)
        /\ r.cand.stage = "Terminal"
    BY <1>1, <2>1, <2>2, AbortWithCallSound
  <2> QED
    BY <1>2, <1>11, <2>2, <2>3 DEF Stepped, CallSound
<1> QED
  BY <1>3, <1>4, <1>5, <1>6, <1>7, <1>8, <1>9, <1>10, <1>11 DEF CallTyped

-----------------------------------------------------------------------------
(* The calls that remain *)

\* Every call a method can make.
AnyCall ==
    StoredCall
        \cup [op : {"commit"}, c : Commands,
              arg : [role : Roles, value : Values]]
        \cup [op : {"open"}, c : Commands,
              arg : [role : Roles, value : Values, release : BOOLEAN]]
        \cup [op : {"receipt"}, c : Commands, arg : Receipts]

\* A driver about to make the call at the head of its list.
Working ==
    [plan : Plans, cand : [Commands -> CandidateState \cup {None}],
     todo : {s \in Seq(AnyCall) : s # <<>> /\ Tail(s) \in Seq(StoredCall)}]

LEMMA TailFacts ==
    ASSUME NEW S, NEW s \in Seq(S), s # <<>>
    PROVE  /\ Len(s) \in Nat /\ Len(s) >= 1
           /\ DOMAIN s = 1 .. Len(s) /\ 1 \in DOMAIN s
           /\ Head(s) = s[1] /\ s[1] \in S
           /\ Len(Tail(s)) = Len(s) - 1
           /\ DOMAIN Tail(s) = 1 .. Len(s) - 1
           /\ \A i \in DOMAIN Tail(s) :
                i + 1 \in DOMAIN s /\ Tail(s)[i] = s[i + 1]
<1>1. /\ Tail(s) \in Seq(S)
      /\ Len(Tail(s)) = Len(s) - 1
      /\ \A i \in 1 .. Len(Tail(s)) : Tail(s)[i] = s[i + 1]
  BY HeadTailProperties
<1>2. /\ Len(s) \in Nat /\ DOMAIN s = 1 .. Len(s)
      /\ DOMAIN Tail(s) = 1 .. Len(Tail(s))
      /\ Len(s) >= 1
  BY <1>1, LenProperties, EmptySeq
<1>3. 1 \in DOMAIN s /\ Head(s) = s[1] /\ s[1] \in S
  BY <1>2
<1> QED
  BY <1>1, <1>2, <1>3

LEMMA EachFacts ==
    ASSUME NEW plan \in Seq(Commands),
           NEW op \in {"begin", "close_commitments", "close_openings",
                       "prepare", "activate", "abort", "abort_with"}
    PROVE  /\ Each(op, plan) \in Seq(StoredCall)
           /\ Len(Each(op, plan)) = Len(plan)
           /\ DOMAIN Each(op, plan) = DOMAIN plan
           /\ \A i \in DOMAIN plan : Each(op, plan)[i] = Do(op, plan[i])
<1>1. DOMAIN plan = 1 .. Len(plan) /\ Len(plan) \in Nat
  BY LenProperties
<1>2. \A i \in 1 .. Len(plan) : Do(op, plan[i]) \in StoredCall
  BY ElementOfSeq DEF Do, StoredCall
<1>3. Each(op, plan) = [i \in 1 .. Len(plan) |-> Do(op, plan[i])]
  BY <1>1 DEF Each
<1>4. Each(op, plan) \in [1 .. Len(plan) -> StoredCall]
  BY <1>2, <1>3
<1>5. Each(op, plan) \in Seq(StoredCall)
  BY <1>1, <1>4, SeqDef
<1>6. DOMAIN Each(op, plan) = 1 .. Len(plan)
  BY <1>3
<1>7. Len(Each(op, plan)) = Len(plan)
  BY <1>1, <1>5, <1>6, LenProperties
<1> QED
  BY <1>1, <1>3, <1>5, <1>6, <1>7

\* What is left after a call fits what the driver has.
LEMMA TailTodo ==
    ASSUME NEW w \in Working, TodoSound(w), NEW w2,
           w2.plan = w.plan, w2.todo = Tail(w.todo),
           \A b \in Commands : w.cand[b] # None => w2.cand[b] # None,
           w.todo[1].op = "begin" => w2.cand[w.todo[1].c] # None
    PROVE  TodoSound(w2)
<1> DEFINE plan == w.plan
           s == w.todo
           k == w.todo[1]
           n == Len(plan)
           L == Len(s)
<1>1. /\ plan \in Plans /\ s \in Seq(AnyCall) /\ s # <<>>
  BY DEF Working
<1>2. /\ Len(s) \in Nat /\ Len(s) >= 1
      /\ DOMAIN s = 1 .. Len(s) /\ 1 \in DOMAIN s
      /\ Len(Tail(s)) = Len(s) - 1
      /\ DOMAIN Tail(s) = 1 .. Len(s) - 1
      /\ \A i \in DOMAIN Tail(s) :
           i + 1 \in DOMAIN s /\ Tail(s)[i] = s[i + 1]
  BY <1>1, TailFacts
<1>3. /\ plan \in Seq(Commands) /\ n \in Nat /\ DOMAIN plan = 1 .. n
      /\ Members(plan) \subseteq Commands
      /\ \A j \in 1 .. n : plan[j] \in Commands
  BY <1>1, PlanFacts, LenProperties, ElementOfSeq
<1>4. ASSUME Starting(w)
      PROVE  Starting(w2)
  <2>1. /\ L <= n
        /\ \A j \in 1 .. L : s[j] = Do("begin", plan[n - L + j])
        /\ \A j \in 1 .. n - L : w.cand[plan[j]] # None
    BY <1>2, <1>4 DEF Starting
  <2>2. Len(w2.todo) = L - 1 /\ DOMAIN w2.todo = 1 .. L - 1
    BY <1>2
  <2>3. k = Do("begin", plan[n - L + 1])
    BY <1>2, <2>1
  <2>4. k.op = "begin" /\ k.c = plan[n - L + 1]
    BY <2>3 DEF Do
  <2>5. w2.cand[plan[n - L + 1]] # None
    BY <2>4
  <2>6. L \in Nat /\ L >= 1 /\ n \in Nat
    BY <1>2, <1>3
  <2>7. ASSUME NEW j \in 1 .. n - (L - 1)
        PROVE  w2.cand[w2.plan[j]] # None
    <3>1. CASE j = n - L + 1
      BY <2>5, <3>1
    <3>2. CASE j # n - L + 1
      <4> HIDE DEF n, L
      <4>1. j \in 1 .. n - L /\ j \in 1 .. n
        BY <2>6, <3>2
      <4> QED
        BY <1>3, <2>1, <4>1
    <3> QED
      BY <3>1, <3>2
  <2>8. ASSUME NEW j \in 1 .. L - 1
        PROVE  w2.todo[j] = Do("begin", w2.plan[n - (L - 1) + j])
    <3>1. w2.todo[j] = s[j + 1] /\ j + 1 \in 1 .. L
      BY <1>2
    <3> HIDE DEF n, L
    <3>2. n - L + (j + 1) = n - (L - 1) + j
      BY <2>6
    <3> QED
      BY <2>1, <3>1, <3>2
  <2>9. Len(w2.todo) <= Len(w2.plan)
    BY <1>2, <1>3, <2>1, <2>2
  <2> QED
    BY <2>2, <2>7, <2>8, <2>9 DEF Starting
<1>5. AllBegun(w) => AllBegun(w2)
  BY <1>3 DEF AllBegun
<1>6. ASSUME NEW i \in DOMAIN w2.todo
      PROVE  CallFits(w2, w2.todo[i])
  <2>1. i + 1 \in DOMAIN s /\ w2.todo[i] = s[i + 1]
    BY <1>2
  <2>2. CallFits(w, s[i + 1])
    BY <2>1 DEF TodoSound
  <2> QED
    BY <1>3, <1>4, <1>5, <2>1, <2>2 DEF CallFits
<1> QED
  BY <1>6 DEF TodoSound

\* A candidate that has its commitments closed has them all in the log.
LEMMA ClosedCommits ==
    ASSUME NEW F, NEW m, LogSound(m, F), NEW c \in Commands, NEW x,
           CandSound(m, c, x), x.closed
    PROVE  CommitsIn(m, c)
<1>1. BegunIn(m, c) /\ m.transcripts[c].next > Commit
  BY DEF CandSound
<1>2. TranscriptSound(m, c, F)
  BY DEF LogSound
<1> QED
  BY <1>1, <1>2 DEF TranscriptSound, CommitsIn

\* The driver w2 has dropped the call of w that led to the log m, and opened
\* no other candidate.
MovedOn(l, m, w, w2) ==
    /\ w2.plan = w.plan
    /\ w2.todo = Tail(w.todo)
    /\ \A b \in Commands : b # w.todo[1].c =>
         (w2.cand[b] # None /\ w2.cand[b].stage = "Open" =>
            w.cand[b] # None /\ w.cand[b].stage = "Open")
    /\ w.todo[1].op = "close_commitments" => CommitsIn(m, w.todo[1].c)
    /\ LET k == w.todo[1]
           x == w.cand[k.c]
           y == w2.cand[k.c] IN
       y # None /\ y.stage = "Open" =>
          /\ (x # None /\ x.stage = "Open") \/ k.op = "close_commitments"
          /\ k.op = "abort" => Activated(l, k.c)

\* The bundle stays sound when its next call succeeds, and when an abort
\* fails.
LEMMA TailBundle ==
    ASSUME NEW l \in LogState, NEW m \in LogState, Prolongs(l, m),
           NEW w \in Working, BundleSound(l, w), NEW w2,
           MovedOn(l, m, w, w2)
    PROVE  BundleSound(m, w2)
<1> SUFFICES
      ASSUME w2.plan = w.plan, w2.todo = Tail(w.todo),
             \A b \in Commands : b # w.todo[1].c =>
                (w2.cand[b] # None /\ w2.cand[b].stage = "Open" =>
                   w.cand[b] # None /\ w.cand[b].stage = "Open"),
             w.todo[1].op = "close_commitments" => CommitsIn(m, w.todo[1].c),
             LET k == w.todo[1]
                 x == w.cand[k.c]
                 y == w2.cand[k.c] IN
             y # None /\ y.stage = "Open" =>
                /\ (x # None /\ x.stage = "Open") \/ k.op = "close_commitments"
                /\ k.op = "abort" => Activated(l, k.c)
      PROVE  BundleSound(m, w2)
  BY DEF MovedOn
<1> DEFINE s == w.todo
           k == w.todo[1]
<1>1. /\ w.plan \in Plans /\ s \in Seq(AnyCall) /\ s # <<>>
  BY DEF Working
<1>2. /\ DOMAIN s = 1 .. Len(s) /\ 1 \in DOMAIN s /\ Len(s) \in Nat
      /\ DOMAIN Tail(s) = 1 .. Len(s) - 1
      /\ \A i \in DOMAIN Tail(s) :
           i + 1 \in DOMAIN s /\ Tail(s)[i] = s[i + 1]
  BY <1>1, TailFacts
<1>3. Members(w.plan) \subseteq Commands
  BY <1>1, PlanFacts
<1>4. ASSUME NEW op, NEW c, Pending(Tail(s), op, c)
      PROVE  Pending(s, op, c)
  BY <1>2, <1>4 DEF Pending
<1>5. ASSUME NEW op, NEW c, Pending(s, op, c), ~(k.op = op /\ k.c = c)
      PROVE  Pending(Tail(s), op, c)
  <2>1. PICK i \in DOMAIN s : s[i].op = op /\ s[i].c = c
    BY <1>5 DEF Pending
  <2>2. i # 1
    BY <1>5, <2>1
  <2>3. i - 1 \in DOMAIN Tail(s) /\ (i - 1) + 1 = i
    BY <1>2, <2>2
  <2>4. Tail(s)[i - 1] = s[i]
    BY <1>2, <2>3
  <2> QED
    BY <2>1, <2>3, <2>4 DEF Pending
<1>6. \A b \in Commands : Activated(l, b) => Activated(m, b)
  BY DEF Prolongs, Activated, BegunIn
<1>7. ASSUME AllCommitted(l, w)
      PROVE  AllCommitted(m, w2)
  <2>1. ASSUME NEW b \in Members(w.plan)
        PROVE  CommitsIn(m, b) \/ Pending(Tail(s), "close_commitments", b)
    <3>1. b \in Commands
      BY <1>3
    <3>2. CommitsIn(l, b) \/ Pending(s, "close_commitments", b)
      BY <1>7 DEF AllCommitted
    <3>3. CASE CommitsIn(l, b)
      BY <3>1, <3>3, CommitsKept
    <3>4. CASE Pending(s, "close_commitments", b)
      BY <1>5, <3>4
    <3> QED
      BY <3>2, <3>3, <3>4
  <2> QED
    BY <2>1 DEF AllCommitted
<1>8. ASSUME NEW c \in Commands, Pending(w2.todo, "close_commitments", c)
      PROVE  AllCommitted(m, w2)
  <2>1. Pending(s, "close_commitments", c)
    BY <1>4, <1>8
  <2> QED
    BY <1>7, <2>1 DEF BundleSound
<1>9. ASSUME NEW c \in Members(w2.plan),
             w2.cand[c] # None, w2.cand[c].stage = "Open"
      PROVE  \/ AllCommitted(m, w2)
             \/ Pending(w2.todo, "abort", c)
             \/ Activated(m, c)
  <2>1. c \in Commands /\ c \in Members(w.plan)
    BY <1>3
  <2>2. ASSUME w.cand[c] # None, w.cand[c].stage = "Open",
               ~(k.op = "abort" /\ k.c = c)
        PROVE  \/ AllCommitted(m, w2)
               \/ Pending(w2.todo, "abort", c)
               \/ Activated(m, c)
    <3>1. \/ AllCommitted(l, w)
          \/ Pending(s, "abort", c)
          \/ Activated(l, c)
      BY <2>1, <2>2 DEF BundleSound
    <3> QED
      BY <1>5, <1>6, <1>7, <2>1, <2>2, <3>1
  <2>3. CASE c # k.c
    BY <1>9, <2>1, <2>2, <2>3
  <2>4. CASE c = k.c /\ k.op = "abort"
    BY <1>6, <1>9, <2>1, <2>4
  <2>5. CASE c = k.c /\ k.op = "close_commitments"
    <3>1. Pending(s, "close_commitments", c)
      BY <1>2, <2>5 DEF Pending
    <3> QED
      BY <1>7, <2>1, <3>1 DEF BundleSound
  <2>6. CASE c = k.c /\ k.op # "abort" /\ k.op # "close_commitments"
    BY <1>9, <2>2, <2>6
  <2> QED
    BY <2>3, <2>4, <2>5, <2>6
<1> QED
  BY <1>8, <1>9 DEF BundleSound

\* A recovery aborts. Of a bundle that was begun it leaves no component out.
LEMMA RecoveryFacts ==
    ASSUME NEW w \in Working, TodoSound(w), NEW out,
           w.todo[1].op # "abort"
    PROVE  LET k == w.todo[1]
               s == Recovery(w, k, out) IN
           /\ s \in Seq(StoredCall)
           /\ \A i \in DOMAIN s : s[i].op \in {"abort", "abort_with"}
           /\ \A i \in DOMAIN s : s[i].op = "abort" =>
                s[i].c \in Members(w.plan) /\ w.cand[s[i].c] # None
           /\ \A i \in DOMAIN s : s[i].op = "abort_with" =>
                s[i].c = k.c /\ k.op # "begin"
           /\ IsBundle(w) /\ k.op # "begin" =>
                \A c \in Members(w.plan) : Pending(s, "abort", c)
<1> DEFINE k == w.todo[1]
           n == Len(w.plan) - Len(w.todo)
           B == BegunSoFar(w)
           a == AbortAll(w)
           s == Recovery(w, k, out)
<1>1. /\ w.plan \in Plans /\ w.todo \in Seq(AnyCall) /\ w.todo # <<>>
  BY DEF Working
<1>2. /\ w.plan \in Seq(Commands) /\ Members(w.plan) \subseteq Commands
      /\ \A i \in DOMAIN w.plan : w.plan[i] \in Members(w.plan)
      /\ \A c \in Members(w.plan) : \E i \in DOMAIN w.plan : c = w.plan[i]
      /\ DOMAIN w.plan = 1 .. Len(w.plan) /\ Len(w.plan) \in Nat
  BY <1>1, PlanFacts, LenProperties
<1>3. /\ 1 \in DOMAIN w.todo /\ Head(w.todo) = k /\ k \in AnyCall
      /\ Len(w.todo) \in Nat
  BY <1>1, TailFacts
<1>4. CallFits(w, k)
  BY <1>3 DEF TodoSound
<1>5. k.c \in Commands
  BY <1>2, <1>4 DEF CallFits
<1>6. /\ B \in Seq(Commands)
      /\ \A i \in DOMAIN B : B[i] \in Members(w.plan) /\ w.cand[B[i]] # None
      /\ k.op # "begin" => B = w.plan
  <2>1. CASE k.op = "begin"
    <3>1. B = SubSeq(w.plan, 1, n)
      BY <1>3, <2>1 DEF BegunSoFar
    <3>2. /\ Len(w.todo) <= Len(w.plan)
          /\ \A j \in 1 .. n : w.cand[w.plan[j]] # None
      BY <1>4, <2>1 DEF CallFits, Starting
    <3>3. n \in Nat /\ n <= Len(w.plan)
      <4>1. Len(w.plan) \in Nat /\ Len(w.todo) \in Nat
        BY <1>2, <1>3
      <4>2. Len(w.todo) <= Len(w.plan)
        BY <3>2
      <4>3. \A p, t \in Nat : t <= p => p - t \in Nat /\ p - t <= p
        OBVIOUS
      <4> QED
        BY <4>1, <4>2, <4>3
    <3>4. \A j \in 1 .. n : w.plan[j] \in Members(w.plan)
      BY <1>2, <3>3
    <3> HIDE DEF n, B
    <3>5. n \in Int /\ \A j \in 1 .. n : w.plan[j] \in Commands
      BY <1>2, <3>3, <3>4
    <3>6. /\ SubSeq(w.plan, 1, n) \in Seq(Commands)
          /\ Len(SubSeq(w.plan, 1, n)) = IF 1 <= n THEN n - 1 + 1 ELSE 0
          /\ \A i \in 1 .. n - 1 + 1 :
               SubSeq(w.plan, 1, n)[i] = w.plan[1 + i - 1]
      BY <3>5, SubSeqProperties
    <3>7. DOMAIN B = 1 .. n /\ \A i \in 1 .. n : B[i] = w.plan[i]
      BY <3>1, <3>3, <3>6, LenProperties
    <3> QED
      BY <2>1, <3>1, <3>2, <3>4, <3>6, <3>7
  <2>2. CASE k.op # "begin"
    <3>1. B = w.plan
      BY <1>3, <2>2 DEF BegunSoFar
    <3>2. AllBegun(w)
      BY <1>4, <2>2 DEF CallFits
    <3> QED
      BY <1>2, <2>2, <3>1, <3>2 DEF AllBegun
  <2> QED
    BY <2>1, <2>2
<1> HIDE DEF B
<1>7. /\ a \in Seq(StoredCall)
      /\ \A i \in DOMAIN a : a[i].op = "abort"
           /\ a[i].c \in Members(w.plan) /\ w.cand[a[i].c] # None
      /\ IsBundle(w) /\ k.op # "begin" =>
           \A c \in Members(w.plan) : Pending(a, "abort", c)
  <2>1. CASE ~IsBundle(w)
    BY <2>1 DEF AbortAll
  <2>2. CASE IsBundle(w)
    <3>1. a = Each("abort", B)
      BY <2>2 DEF AbortAll, B
    <3> HIDE DEF a
    <3>2. /\ a \in Seq(StoredCall) /\ DOMAIN a = DOMAIN B
          /\ \A i \in DOMAIN B : a[i] = Do("abort", B[i])
      BY <1>6, <3>1, EachFacts
    <3>3. \A i \in DOMAIN a : a[i].op = "abort" /\ a[i].c = B[i]
      BY <3>2 DEF Do
    <3>4. ASSUME k.op # "begin", NEW c \in Members(w.plan)
          PROVE  Pending(a, "abort", c)
      <4>1. B = w.plan
        BY <1>6, <3>4
      <4>2. PICK i \in DOMAIN w.plan : c = w.plan[i]
        BY <1>2
      <4> QED
        BY <3>2, <3>3, <4>1, <4>2 DEF Pending
    <3> QED
      BY <1>6, <3>2, <3>3, <3>4
  <2> QED
    BY <2>1, <2>2
<1>8. \/ s = a
      \/ s = <<Do("abort_with", k.c)>> \o a /\ k.op # "begin"
  BY DEF Recovery
<1> HIDE DEF a, s
<1>9. ASSUME s = <<Do("abort_with", k.c)>> \o a, k.op # "begin"
      PROVE  /\ s \in Seq(StoredCall)
             /\ \A i \in DOMAIN s : s[i].op \in {"abort", "abort_with"}
             /\ \A i \in DOMAIN s : s[i].op = "abort" =>
                  s[i].c \in Members(w.plan) /\ w.cand[s[i].c] # None
             /\ \A i \in DOMAIN s : s[i].op = "abort_with" =>
                  s[i].c = k.c /\ k.op # "begin"
             /\ IsBundle(w) /\ k.op # "begin" =>
                  \A c \in Members(w.plan) : Pending(s, "abort", c)
  <2> DEFINE b == <<Do("abort_with", k.c)>>
  <2>1. Do("abort_with", k.c) \in StoredCall
    BY <1>5 DEF Do, StoredCall
  <2>2. b \in Seq(StoredCall) /\ Len(b) = 1 /\ b[1] = Do("abort_with", k.c)
    BY <2>1
  <2>3. b[1].op = "abort_with" /\ b[1].c = k.c
    BY <2>2 DEF Do
  <2> HIDE DEF b
  <2>4. /\ s \in Seq(StoredCall)
        /\ Len(s) = 1 + Len(a)
        /\ \A i \in 1 .. 1 + Len(a) :
              s[i] = IF i <= 1 THEN b[i] ELSE a[i - 1]
    <3>1. s = b \o a
      BY <1>9 DEF b
    <3>2. /\ b \o a \in Seq(StoredCall)
          /\ Len(b \o a) = Len(b) + Len(a)
          /\ \A i \in 1 .. Len(b) + Len(a) :
                (b \o a)[i] = IF i <= Len(b) THEN b[i] ELSE a[i - Len(b)]
      BY <1>7, <2>2, ConcatProperties
    <3> QED
      BY <2>2, <3>1, <3>2
  <2>5. /\ DOMAIN s = 1 .. 1 + Len(a) /\ DOMAIN a = 1 .. Len(a)
        /\ Len(a) \in Nat
    BY <1>7, <2>4, LenProperties
  <2>6. ASSUME NEW i \in DOMAIN s
        PROVE  \/ s[i].op = "abort_with" /\ s[i].c = k.c
               \/ i - 1 \in DOMAIN a /\ s[i] = a[i - 1]
    <3>1. CASE i = 1
      BY <2>3, <2>4, <2>5, <3>1
    <3>2. CASE i # 1
      BY <2>4, <2>5, <3>2
    <3> QED
      BY <3>1, <3>2
  <2>7. ASSUME NEW c, Pending(a, "abort", c)
        PROVE  Pending(s, "abort", c)
    <3>1. PICK i \in DOMAIN a : a[i].op = "abort" /\ a[i].c = c
      BY <2>7 DEF Pending
    <3>2. i + 1 \in DOMAIN s /\ s[i + 1] = a[i]
      BY <2>4, <2>5
    <3> QED
      BY <3>1, <3>2 DEF Pending
  <2>8. ASSUME NEW i \in DOMAIN s
        PROVE  /\ s[i].op \in {"abort", "abort_with"}
               /\ s[i].op = "abort" =>
                    s[i].c \in Members(w.plan) /\ w.cand[s[i].c] # None
               /\ s[i].op = "abort_with" => s[i].c = k.c
    <3>1. CASE s[i].op = "abort_with" /\ s[i].c = k.c
      BY <3>1
    <3>2. CASE i - 1 \in DOMAIN a /\ s[i] = a[i - 1]
      BY <1>7, <3>2
    <3> QED
      BY <2>6, <3>1, <3>2
  <2> QED
    BY <1>7, <1>9, <2>4, <2>7, <2>8
<1>10. ASSUME s = a
       PROVE  /\ s \in Seq(StoredCall)
              /\ \A i \in DOMAIN s : s[i].op \in {"abort", "abort_with"}
              /\ \A i \in DOMAIN s : s[i].op = "abort" =>
                   s[i].c \in Members(w.plan) /\ w.cand[s[i].c] # None
              /\ \A i \in DOMAIN s : s[i].op = "abort_with" =>
                   s[i].c = k.c /\ k.op # "begin"
              /\ IsBundle(w) /\ k.op # "begin" =>
                   \A c \in Members(w.plan) : Pending(s, "abort", c)
  BY <1>7, <1>10
<1> QED
  BY <1>8, <1>9, <1>10 DEF s

-----------------------------------------------------------------------------
(* A driver after its call *)

\* The driver that call r leaves.
After(w, c, r) ==
    [w EXCEPT !.cand[c] = r.cand,
              !.todo = IF r.out = "Ok" THEN Tail(w.todo)
                       ELSE Recovery(w, w.todo[1], r.out)]

\* A driver that recovers: every component of a bundle is to be aborted.
LEMMA RecoverDriver ==
    ASSUME NEW F, NEW l \in LogState, NEW m, LogStep(F, l, m),
           NEW w \in Working, TodoSound(w), BundleSound(l, w),
           NEW w2, CandsSound(m, w2), NEW out, w.todo[1].op # "abort",
           w2.plan = w.plan, w2.todo = Recovery(w, w.todo[1], out),
           \A b \in Commands : w.cand[b] # None => w2.cand[b] # None,
           \A b \in Commands : w2.cand[b] # None /\ w2.cand[b].stage = "Open"
              => w.cand[b] # None /\ w.cand[b].stage = "Open"
    PROVE  TodoSound(w2) /\ BundleSound(m, w2)
<1> DEFINE k == w.todo[1]
           s == w2.todo
<1>1. /\ w.plan \in Plans /\ w.todo \in Seq(AnyCall) /\ w.todo # <<>>
  BY DEF Working
<1>2. /\ w.plan \in Seq(Commands) /\ Members(w.plan) \subseteq Commands
      /\ w.plan # <<>>
  BY <1>1, PlanFacts
<1>3. /\ \A i \in DOMAIN s : s[i].op \in {"abort", "abort_with"}
      /\ \A i \in DOMAIN s : s[i].op = "abort" =>
           s[i].c \in Members(w.plan) /\ w.cand[s[i].c] # None
      /\ \A i \in DOMAIN s : s[i].op = "abort_with" =>
           s[i].c = k.c /\ k.op # "begin"
      /\ IsBundle(w) /\ k.op # "begin" =>
           \A c \in Members(w.plan) : Pending(s, "abort", c)
  <2> DEFINE R == Recovery(w, k, out)
  <2>1. /\ \A i \in DOMAIN R : R[i].op \in {"abort", "abort_with"}
        /\ \A i \in DOMAIN R : R[i].op = "abort" =>
             R[i].c \in Members(w.plan) /\ w.cand[R[i].c] # None
        /\ \A i \in DOMAIN R : R[i].op = "abort_with" =>
             R[i].c = k.c /\ k.op # "begin"
        /\ IsBundle(w) /\ k.op # "begin" =>
             \A c \in Members(w.plan) : Pending(R, "abort", c)
    BY RecoveryFacts
  <2>2. s = R
    OBVIOUS
  <2> HIDE DEF R, s
  <2> QED
    BY <2>1, <2>2
<1>4. 1 \in DOMAIN w.todo
  BY <1>1, TailFacts
<1>5. CallFits(w, k)
  BY <1>4 DEF TodoSound
<1>6. k.op # "begin" => AllBegun(w2)
  BY <1>2, <1>5 DEF CallFits, AllBegun
<1>7. TodoSound(w2)
  <2>1. ASSUME NEW i \in DOMAIN s
        PROVE  CallFits(w2, s[i])
    <3>1. CASE s[i].op = "abort"
      BY <1>2, <1>3, <3>1 DEF CallFits
    <3>2. CASE s[i].op = "abort_with"
      BY <1>3, <1>5, <1>6, <3>2 DEF CallFits
    <3> QED
      BY <1>3, <3>1, <3>2
  <2> QED
    BY <2>1 DEF TodoSound
<1>8. \A c : ~Pending(s, "close_commitments", c)
  BY <1>3 DEF Pending
<1>9. /\ m \in LogState /\ Prolongs(l, m) /\ LogSound(m, F)
      /\ \A b \in Commands : Activated(m, b) <=> Activated(l, b)
  BY DEF LogStep, LogSound
<1>10. ASSUME NEW c \in Members(w2.plan),
              w2.cand[c] # None, w2.cand[c].stage = "Open"
       PROVE  \/ AllCommitted(m, w2)
              \/ Pending(s, "abort", c)
              \/ Activated(m, c)
  <2>1. c \in Commands /\ c \in Members(w.plan)
    BY <1>2
  <2>2. CASE IsBundle(w) /\ k.op # "begin"
    BY <1>3, <2>1, <2>2
  <2>3. CASE ~IsBundle(w)
    <3>1. Len(w.plan) = 1 /\ DOMAIN w.plan = 1 .. 1
      <4>1. Len(w.plan) \in Nat \ {0} /\ DOMAIN w.plan = 1 .. Len(w.plan)
        BY <1>2, LenProperties, EmptySeq
      <4>2. ~(Len(w.plan) > 1)
        BY <2>3 DEF IsBundle
      <4>3. \A n \in Nat \ {0} : ~(n > 1) => n = 1
        OBVIOUS
      <4> QED
        BY <4>1, <4>2, <4>3
    <3>2. \A b \in Members(w.plan) : b = c
      BY <2>1, <3>1 DEF Members
    <3>3. CandSound(m, c, w2.cand[c])
      BY <1>10, <2>1 DEF CandsSound
    <3>4. w2.cand[c].closed
      BY <1>10, <3>3 DEF CandSound
    <3>5. CommitsIn(m, c)
      BY <1>9, <2>1, <3>3, <3>4, ClosedCommits
    <3> QED
      BY <3>2, <3>5 DEF AllCommitted
  <2>4. CASE k.op = "begin"
    <3>1. \A i \in DOMAIN w.todo : w.todo[i].op = "begin"
      <4>1. Starting(w)
        BY <1>5, <2>4 DEF CallFits
      <4>2. \A j \in DOMAIN w.todo :
              \E b : w.todo[j] = Do("begin", b)
        BY <4>1 DEF Starting
      <4>3. \A b : Do("begin", b).op = "begin"
        BY DEF Do
      <4> QED
        BY <4>2, <4>3
    <3>2. /\ ~Pending(w.todo, "abort", c)
          /\ \A b : ~Pending(w.todo, "close_commitments", b)
      BY <3>1 DEF Pending
    <3>3. AllCommitted(l, w) \/ Activated(l, c)
      BY <1>10, <2>1, <3>2 DEF BundleSound
    <3>4. ASSUME AllCommitted(l, w), NEW b \in Members(w.plan)
          PROVE  CommitsIn(m, b)
      <4>1. CommitsIn(l, b) /\ b \in Commands
        BY <1>2, <3>2, <3>4 DEF AllCommitted
      <4> QED
        BY <1>9, <4>1, CommitsKept
    <3> QED
      BY <1>9, <2>1, <3>3, <3>4 DEF AllCommitted
  <2> QED
    BY <2>2, <2>3, <2>4
<1>11. BundleSound(m, w2)
  BY <1>8, <1>10 DEF BundleSound
<1> QED
  BY <1>7, <1>11

\* A driver that made its call is sound in the log it leaves.
LEMMA AfterSound ==
    ASSUME NEW F, NEW l \in LogState, LogSound(l, F),
           NEW w \in Working, CandsSound(l, w), TodoSound(w),
           BundleSound(l, w), NEW r,
           Stepped(F, l, w.cand[w.todo[1].c], w.todo[1], r)
    PROVE  DriverSound(r.log, After(w, w.todo[1].c, r))
<1> DEFINE k == w.todo[1]
           c == k.c
           m == r.log
           w2 == After(w, c, r)
           s == IF r.out = "Ok" THEN Tail(w.todo) ELSE Recovery(w, k, r.out)
<1>1. /\ w.plan \in Plans /\ w.todo \in Seq(AnyCall) /\ w.todo # <<>>
      /\ Tail(w.todo) \in Seq(StoredCall)
      /\ w.cand \in [Commands -> CandidateState \cup {None}]
  BY DEF Working
<1>2. 1 \in DOMAIN w.todo /\ CallFits(w, k) /\ Head(w.todo) = k
  BY <1>1, TailFacts DEF TodoSound
<1>3. c \in Commands
  BY <1>1, <1>2, PlanFacts DEF CallFits
<1>4. /\ LogStep(F, l, m)
      /\ r.cand # None => CandSound(m, c, r.cand)
      /\ r.cand = None => w.cand[c] = None /\ k.op = "begin" /\ r.out # "Ok"
      /\ r.cand # None /\ r.cand.stage = "Open" =>
           \/ w.cand[c] # None /\ w.cand[c].stage = "Open"
           \/ k.op = "close_commitments" /\ r.out = "Ok"
      /\ k.op = "close_commitments" /\ r.out = "Ok" => r.cand.closed
      /\ k.op = "abort" /\ r.cand.stage = "Open" => Activated(l, c)
  BY DEF Stepped
<1>5. r.cand \in CandidateState \cup {None}
  BY <1>4 DEF CandSound
<1>6. s \in Seq(StoredCall) /\ (k.op = "abort" => s = Tail(w.todo))
  <2>1. CASE r.out = "Ok"
    BY <1>1, <2>1
  <2>2. CASE r.out # "Ok" /\ k.op = "abort"
    <3>1. Recovery(w, k, r.out) = Tail(w.todo)
      BY <2>2 DEF Recovery
    <3> QED
      BY <1>1, <2>2, <3>1
  <2>3. CASE r.out # "Ok" /\ k.op # "abort"
    <3>1. Recovery(w, k, r.out) \in Seq(StoredCall)
      BY <2>3, RecoveryFacts
    <3> QED
      BY <2>3, <3>1
  <2> QED
    BY <2>1, <2>2, <2>3
<1> HIDE DEF s
<1>7. /\ w2 \in DriverState
      /\ w2.plan = w.plan /\ w2.todo = s /\ w2.cand[c] = r.cand
      /\ \A b \in Commands : b # c => w2.cand[b] = w.cand[b]
  <2>1. w2 = [w EXCEPT !.cand[c] = r.cand, !.todo = s]
    BY DEF After, s
  <2> HIDE DEF w2
  <2> QED
    BY <1>1, <1>3, <1>5, <1>6, <2>1 DEF Working, DriverState
<1> HIDE DEF w2, m
<1>8. CandsSound(m, w2)
  <2>1. ASSUME NEW b \in Commands, w2.cand[b] # None
        PROVE  CandSound(m, b, w2.cand[b])
    <3>1. CASE b = c
      BY <1>4, <1>7, <2>1, <3>1
    <3>2. CASE b # c
      <4>1. CandSound(l, b, w2.cand[b])
        BY <1>7, <2>1, <3>2 DEF CandsSound
      <4> QED
        BY <1>4, <4>1, StepKeepsCand
    <3> QED
      BY <3>1, <3>2
  <2> QED
    BY <2>1 DEF CandsSound
<1>9. \A b \in Commands : w.cand[b] # None => w2.cand[b] # None
  BY <1>4, <1>7
<1>10. CASE r.out = "Ok" \/ k.op = "abort"
  <2>1. w2.todo = Tail(w.todo)
    BY <1>6, <1>7, <1>10 DEF s
  <2>2. k.op = "begin" => w2.cand[c] # None
    BY <1>4, <1>7, <1>10
  <2>3. TodoSound(w2)
    BY <1>7, <1>9, <2>1, <2>2, TailTodo
  <2>4. k.op = "close_commitments" => CommitsIn(m, c)
    <3>1. ASSUME k.op = "close_commitments"
          PROVE  CommitsIn(m, c)
      <4>1. r.out = "Ok" /\ r.cand # None /\ r.cand.closed
        BY <1>4, <1>10, <3>1
      <4>2. LogSound(m, F) /\ CandSound(m, c, r.cand)
        BY <1>4, <4>1 DEF LogStep
      <4> QED
        BY <1>3, <4>1, <4>2, ClosedCommits
    <3> QED
      BY <3>1
  <2>5. w2.cand[c] # None /\ w2.cand[c].stage = "Open" =>
           /\ \/ w.cand[c] # None /\ w.cand[c].stage = "Open"
              \/ k.op = "close_commitments"
           /\ k.op = "abort" => Activated(l, c)
    BY <1>4, <1>7
  <2>6. m \in LogState /\ Prolongs(l, m)
    BY <1>4 DEF LogStep, LogSound
  <2>7. BundleSound(m, w2)
    <3>1. MovedOn(l, m, w, w2)
      BY <1>7, <2>1, <2>4, <2>5 DEF MovedOn
    <3> QED
      BY <2>6, <3>1, TailBundle
  <2> QED
    BY <1>7, <1>8, <2>3, <2>7 DEF DriverSound, w2, m
<1>11. CASE r.out # "Ok" /\ k.op # "abort"
  <2>1. w2.todo = Recovery(w, k, r.out)
    BY <1>7, <1>11 DEF s
  <2>2. \A b \in Commands : w2.cand[b] # None /\ w2.cand[b].stage = "Open"
           => w.cand[b] # None /\ w.cand[b].stage = "Open"
    BY <1>4, <1>7, <1>11
  <2>3. TodoSound(w2) /\ BundleSound(m, w2)
    BY <1>4, <1>7, <1>8, <1>9, <1>11, <2>1, <2>2, RecoverDriver
  <2> QED
    BY <1>7, <1>8, <2>3 DEF DriverSound, w2, m
<1> QED
  BY <1>10, <1>11

-----------------------------------------------------------------------------
(* Steps of a driver *)

\* Driver d moved, and with it the log.
LEMMA DriverMoves ==
    ASSUME RdInv, NEW d \in Drivers, NEW w2, DriverSound(log', w2),
           driver' = [driver EXCEPT ![d] = w2],
           LogSound(log', Finished), Prolongs(log, log'),
           target' = target, receipts' = receipts
    PROVE  RdInv'
<1>1. log \in LogState /\ log' \in LogState
  BY DEF RdInv, LogSound
<1>2. Finished' = Finished
  BY DEF Finished
<1>3. LogSound(log', Finished')
  BY <1>2
<1>4. DOMAIN driver = Drivers /\ driver'[d] = w2
  BY DEF RdInv
<1>5. \A e \in Drivers : e # d => driver'[e] = driver[e]
  BY <1>4
<1>6. ASSUME NEW e \in Drivers, driver'[e] # None
      PROVE  DriverSound(log', driver'[e])
  <2>1. CASE e = d
    BY <1>4, <2>1
  <2>2. CASE e # d
    <3>1. DriverSound(log, driver'[e])
      BY <1>5, <1>6, <2>2 DEF RdInv
    <3> QED
      BY <1>1, <3>1, DriverKept
  <2> QED
    BY <2>1, <2>2
<1>7. /\ DOMAIN driver' = Drivers
      /\ driver' = [e \in Drivers |-> driver'[e]]
  BY <1>4
<1>8. TargetsSound(log)'
  <2>1. /\ target \in [Commands \X Targets -> Accumulator \cup {None}]
        /\ \A c \in Commands, g \in Targets :
             target[<<c, g>>] # None => TargetSound(log, c, target[<<c, g>>])
    BY DEF RdInv, TargetsSound
  <2>2. ASSUME NEW c \in Commands, NEW g \in Targets,
               target[<<c, g>>] # None
        PROVE  TargetSound(log', c, target[<<c, g>>])
    <3>1. TargetSound(log, c, target[<<c, g>>])
      BY <2>1, <2>2
    <3> QED
      BY <1>1, <3>1, TargetKept
  <2> QED
    BY <2>1, <2>2 DEF TargetsSound
<1>9. ReceiptsSound'
  BY <1>2 DEF RdInv, ReceiptsSound
<1> QED
  BY <1>3, <1>6, <1>7, <1>8, <1>9 DEF RdInv

\* A driver's call: what Perform does.
LEMMA PerformStep ==
    ASSUME RdInv, NEW d \in Drivers, NEW w \in Working,
           CandsSound(log, w), TodoSound(w), BundleSound(log, w),
           w.todo[1].op = "receipt" =>
              LET q == w.todo[1].arg IN
              q \in Receipts /\ <<q.command, q.target>> \in Finished,
           Perform(d, w)
    PROVE  /\ RdInv'
           /\ \E r : /\ log' = r.log
                     /\ Stepped(Finished, log, w.cand[w.todo[1].c],
                                w.todo[1], r)
<1> DEFINE k == w.todo[1]
           x == w.cand[k.c]
           r == Result(log, x, k)
<1>1. /\ w.plan \in Plans /\ w.todo \in Seq(AnyCall) /\ w.todo # <<>>
      /\ w.cand \in [Commands -> CandidateState \cup {None}]
  BY DEF Working
<1>2. 1 \in DOMAIN w.todo /\ CallFits(w, k) /\ Head(w.todo) = k /\ k \in AnyCall
  BY <1>1, TailFacts DEF TodoSound
<1>3. k.c \in Commands /\ k.c \in Members(w.plan)
  BY <1>1, <1>2, PlanFacts DEF CallFits
<1>4. /\ k.op # "activate"
      /\ log' = r.log
      /\ driver' = [driver EXCEPT ![d] = After(w, k.c, r)]
      /\ target' = target /\ receipts' = receipts
  BY <1>2 DEF Perform, After
<1>5. CallTyped(Finished, k)
  <2>1. /\ k.op \in {"begin", "commit", "close_commitments", "open",
                     "close_openings", "receipt", "prepare", "abort",
                     "abort_with"}
        /\ k.op \in {"commit", "open"} =>
             k.arg.role \in Roles /\ k.arg.value \in Values
    BY <1>2, <1>4 DEF AnyCall, StoredCall
  <2> QED
    BY <1>3, <2>1 DEF CallTyped
<1>6. log \in LogState /\ LogSound(log, Finished)
  BY DEF RdInv, LogSound
<1>7. /\ x = None \/ CandSound(log, k.c, x)
      /\ x = None => k.op = "begin"
  BY <1>2, <1>3 DEF CandsSound, CallFits, AllBegun
<1> HIDE DEF r
<1>8. Stepped(Finished, log, x, k, r)
  BY <1>5, <1>6, <1>7, ResultFacts DEF r
<1>9. DriverSound(r.log, After(w, k.c, r))
  BY <1>6, <1>8, AfterSound
<1>10. LogSound(log', Finished) /\ Prolongs(log, log')
  BY <1>4, <1>8 DEF Stepped, LogStep
<1>11. RdInv'
  BY <1>4, <1>9, <1>10, DriverMoves
<1> QED
  BY <1>4, <1>8, <1>11

\* A step of the log that activates nothing, and opens a contribution only
\* of a plan whose components are all committed.
Quiet(l, m) ==
    /\ Prolongs(l, m)
    /\ \A b \in Commands : Activated(m, b) <=> Activated(l, b)
    /\ \/ NoNewOpenings(l, m)
       \/ \E plan \in Plans : \E c \in Members(plan) :
            /\ \A b \in Members(plan) : CommitsIn(l, b)
            /\ \A b \in Commands : b # c => m.transcripts[b] = l.transcripts[b]

LEMMA StoredIsCall ==
    ASSUME NEW s \in Seq(StoredCall), s # <<>>
    PROVE  s \in {t \in Seq(AnyCall) : t # <<>> /\ Tail(t) \in Seq(StoredCall)}
<1>1. StoredCall \subseteq AnyCall
  BY DEF AnyCall
<1>2. s \in Seq(AnyCall)
  BY <1>1, SeqMonotonic
<1>3. Tail(s) \in Seq(StoredCall)
  BY HeadTailProperties
<1> QED
  BY <1>2, <1>3

\* A call other than open() adds no opening.
LEMMA PerformQuiet ==
    ASSUME NEW F, NEW l, NEW x, NEW k, NEW r, Stepped(F, l, x, k, r),
           k.op # "open"
    PROVE  Quiet(l, r.log)
BY DEF Stepped, Quiet, LogStep

LEMMA StartStep ==
    ASSUME RdInv, NEW d \in Drivers, Start(d)
    PROVE  RdInv' /\ Quiet(log, log')
<1>1. PICK plan \in Plans :
        Perform(d, [plan |-> plan, cand |-> [c \in Commands |-> None],
                    todo |-> Each("begin", plan)])
  BY DEF Start
<1> DEFINE s == Each("begin", plan)
           w == [plan |-> plan, cand |-> [c \in Commands |-> None],
                 todo |-> s]
<1>2. /\ plan \in Seq(Commands) /\ plan # <<>> /\ Len(plan) \in Nat
      /\ DOMAIN plan = 1 .. Len(plan) /\ Len(plan) >= 1
      /\ \A i \in DOMAIN plan : plan[i] \in Members(plan)
  BY PlanFacts, LenProperties, EmptySeq
<1>3. /\ s \in Seq(StoredCall) /\ Len(s) = Len(plan)
      /\ DOMAIN s = DOMAIN plan
      /\ \A i \in DOMAIN plan : s[i] = Do("begin", plan[i])
  BY <1>2, EachFacts
<1> HIDE DEF s
<1>4. s # <<>>
  BY <1>2, <1>3, EmptySeq
<1>5. w \in Working
  BY <1>3, <1>4, StoredIsCall DEF Working
<1>6. /\ w.plan = plan /\ w.todo = s /\ \A c \in Commands : w.cand[c] = None
  OBVIOUS
<1>7. Perform(d, w)
  BY <1>1 DEF s
<1> HIDE DEF w
<1>8. \A i \in DOMAIN s : s[i].op = "begin" /\ s[i].c = plan[i]
  BY <1>3 DEF Do
<1>9. Starting(w)
  <2>1. \A j \in DOMAIN s : Len(plan) - Len(s) + j = j
    BY <1>2, <1>3
  <2>2. 1 .. Len(plan) - Len(s) = {}
    BY <1>2, <1>3
  <2>3. Len(s) <= Len(plan)
    BY <1>2, <1>3
  <2> QED
    BY <1>3, <1>6, <2>1, <2>2, <2>3 DEF Starting
<1>10. TodoSound(w)
  BY <1>2, <1>3, <1>6, <1>8, <1>9 DEF TodoSound, CallFits
<1>11. CandsSound(log, w)
  BY <1>6 DEF CandsSound
<1>12. BundleSound(log, w)
  <2>1. \A c : ~Pending(s, "close_commitments", c)
    BY <1>8 DEF Pending
  <2> QED
    BY <1>6, <2>1, PlanFacts DEF BundleSound
<1>13. w.todo[1].op = "begin"
  BY <1>2, <1>3, <1>6, <1>8
<1>14. /\ RdInv'
       /\ \E r : /\ log' = r.log
                 /\ Stepped(Finished, log, w.cand[w.todo[1].c], w.todo[1], r)
  BY <1>5, <1>7, <1>10, <1>11, <1>12, <1>13, PerformStep
<1> QED
  BY <1>13, <1>14, PerformQuiet

LEMMA ContinueStep ==
    ASSUME RdInv, NEW d \in Drivers, Continue(d)
    PROVE  RdInv' /\ Quiet(log, log')
<1> DEFINE w == driver[d]
<1>1. w # None /\ w.todo # <<>> /\ Perform(d, w)
  BY DEF Continue
<1>2. DriverSound(log, w)
  BY <1>1 DEF RdInv
<1> HIDE DEF w
<1>3. w \in DriverState
  BY <1>2 DEF DriverSound
<1>4. w.todo \in Seq(StoredCall)
  BY <1>3 DEF DriverState
<1>5. w.todo \in {t \in Seq(AnyCall) : t # <<>> /\ Tail(t) \in Seq(StoredCall)}
  BY <1>1, <1>4, StoredIsCall
<1>6. w \in Working
  BY <1>3, <1>5 DEF Working, DriverState
<1>7. w.todo[1] \in StoredCall
  BY <1>1, <1>4, TailFacts
<1>8. w.todo[1].op # "receipt" /\ w.todo[1].op # "open"
  BY <1>7 DEF StoredCall
<1>9. CandsSound(log, w) /\ TodoSound(w) /\ BundleSound(log, w)
  BY <1>2 DEF DriverSound
<1>10. /\ RdInv'
       /\ \E r : /\ log' = r.log
                 /\ Stepped(Finished, log, w.cand[w.todo[1].c], w.todo[1], r)
  BY <1>1, <1>6, <1>8, <1>9, PerformStep
<1> QED
  BY <1>8, <1>10, PerformQuiet

\* A method that an idle driver is asked to run.
LEMMA InvokeStep ==
    ASSUME RdInv, NEW d \in Drivers, Idle(d),
           NEW s \in Seq(AnyCall), s # <<>>, Tail(s) \in Seq(StoredCall),
           \A i \in DOMAIN s :
              s[i].op # "begin" /\ s[i].c \in Members(driver[d].plan),
           (\E i \in DOMAIN s : s[i].op = "close_commitments") =>
              \A b \in Members(driver[d].plan) :
                 Pending(s, "close_commitments", b),
           s[1].op = "receipt" =>
              LET q == s[1].arg IN
              q \in Receipts /\ <<q.command, q.target>> \in Finished,
           Invoke(d, s)
    PROVE  RdInv' /\ Quiet(log, log')
<1> DEFINE v == driver[d]
           w == [v EXCEPT !.todo = s]
<1>1. v # None /\ v.todo = <<>> /\ AllBegun(v) /\ DriverSound(log, v)
  BY DEF Idle, RdInv, AllBegun
<1>2. Perform(d, w)
  BY DEF Invoke
<1>3. v \in DriverState
  BY <1>1 DEF DriverSound
<1> HIDE DEF v
<1>4. /\ w \in Working
      /\ w.plan = v.plan /\ w.cand = v.cand /\ w.todo = s
  BY <1>3 DEF DriverState, Working
<1> HIDE DEF w
<1>5. w.plan \in Plans /\ Members(w.plan) \subseteq Commands
  BY <1>4, PlanFacts DEF Working
<1>6. AllBegun(w)
  BY <1>1, <1>4 DEF AllBegun
<1>7. CandsSound(log, w)
  BY <1>1, <1>4 DEF DriverSound, CandsSound
<1>8. TodoSound(w)
  <2>1. \A i \in DOMAIN s : s[i].op # "begin" /\ s[i].c \in Members(w.plan)
    BY <1>4 DEF v
  <2> QED
    BY <1>4, <1>6, <2>1 DEF TodoSound, CallFits, AllBegun
<1>9. ASSUME NEW c \in Members(w.plan),
             w.cand[c] # None, w.cand[c].stage = "Open"
      PROVE  \/ \A b \in Members(w.plan) : CommitsIn(log, b)
             \/ Activated(log, c)
  <2>1. BundleSound(log, v) /\ c \in Members(v.plan)
    BY <1>1, <1>4 DEF DriverSound
  <2>2. \A op, b : ~Pending(v.todo, op, b)
    BY <1>1 DEF Pending
  <2>3. AllCommitted(log, v) \/ Activated(log, c)
    BY <1>4, <1>9, <2>1, <2>2 DEF BundleSound
  <2> QED
    BY <1>4, <2>2, <2>3 DEF AllCommitted
<1>10. BundleSound(log, w)
  <2>1. ASSUME NEW c \in Commands, Pending(s, "close_commitments", c)
        PROVE  AllCommitted(log, w)
    <3>1. \E i \in DOMAIN s : s[i].op = "close_commitments"
      BY <2>1 DEF Pending
    <3>2. \A b \in Members(w.plan) : Pending(s, "close_commitments", b)
      BY <1>4, <3>1 DEF v
    <3> QED
      BY <1>4, <3>2 DEF AllCommitted
  <2> QED
    BY <1>4, <1>9, <2>1 DEF BundleSound, AllCommitted
<1>11. /\ RdInv'
       /\ \E r : /\ log' = r.log
                 /\ Stepped(Finished, log, w.cand[w.todo[1].c], w.todo[1], r)
  BY <1>2, <1>4, <1>7, <1>8, <1>10, PerformStep
<1>12. PICK r : /\ log' = r.log
                /\ Stepped(Finished, log, w.cand[w.todo[1].c], w.todo[1], r)
  BY <1>11
<1>13. CASE NoNewOpenings(log, log')
  BY <1>11, <1>12, <1>13 DEF Stepped, LogStep, Quiet
<1>14. CASE ~NoNewOpenings(log, log')
  <2> DEFINE k == w.todo[1]
  <2>1. /\ w.cand[k.c].stage = "Open" /\ ~Activated(log, k.c)
        /\ \A b \in Commands : b # k.c =>
             log'.transcripts[b] = log.transcripts[b]
    BY <1>12, <1>14 DEF Stepped
  <2>2. 1 \in DOMAIN w.todo
    BY <1>4, TailFacts
  <2>3. k.c \in Members(w.plan) /\ w.cand[k.c] # None
    BY <1>4, <1>6, <2>2 DEF AllBegun, v
  <2>4. \A b \in Members(w.plan) : CommitsIn(log, b)
    BY <1>9, <2>1, <2>3
  <2>5. Prolongs(log, log')
        /\ \A b \in Commands : Activated(log', b) <=> Activated(log, b)
    BY <1>12 DEF Stepped, LogStep
  <2> HIDE DEF k
  <2> QED
    BY <1>5, <2>1, <2>3, <2>4, <2>5, <1>11 DEF Quiet
<1> QED
  BY <1>11, <1>13, <1>14

\* A method that makes one call.
LEMMA OneCallStep ==
    ASSUME RdInv, NEW d \in Drivers, Idle(d),
           NEW k \in AnyCall, k.op \in {"commit", "open", "receipt"},
           k.c \in Members(driver[d].plan),
           k.op = "receipt" =>
              k.arg \in Receipts /\ <<k.arg.command, k.arg.target>> \in Finished,
           Invoke(d, <<k>>)
    PROVE  RdInv' /\ Quiet(log, log')
<1> DEFINE s == <<k>>
<1>1. s \in Seq(AnyCall) /\ s # <<>> /\ DOMAIN s = {1} /\ s[1] = k
  OBVIOUS
<1>2. Tail(s) = <<>> /\ Tail(s) \in Seq(StoredCall)
  OBVIOUS
<1>3. Invoke(d, s)
  OBVIOUS
<1> HIDE DEF s
<1>4. \A i \in DOMAIN s :
        /\ s[i].op # "begin" /\ s[i].op # "close_commitments"
        /\ s[i].c \in Members(driver[d].plan)
  BY <1>1
<1> QED
  BY <1>1, <1>2, <1>3, <1>4, InvokeStep

\* A method that makes one call for each component.
LEMMA EachCallStep ==
    ASSUME RdInv, NEW d \in Drivers, Idle(d),
           NEW op \in {"close_commitments", "close_openings", "abort"},
           Invoke(d, Each(op, driver[d].plan))
    PROVE  RdInv' /\ Quiet(log, log')
<1> DEFINE plan == driver[d].plan
           s == Each(op, plan)
<1>1. driver[d] \in DriverState
  BY DEF Idle, RdInv, DriverSound
<1>2. plan \in Plans
  BY <1>1 DEF DriverState
<1> HIDE DEF plan
<1>3. /\ plan \in Seq(Commands) /\ plan # <<>> /\ Len(plan) \in Nat
      /\ Len(plan) >= 1
      /\ \A i \in DOMAIN plan : plan[i] \in Members(plan)
      /\ \A c \in Members(plan) : \E i \in DOMAIN plan : c = plan[i]
  BY <1>2, PlanFacts, LenProperties, EmptySeq
<1>4. /\ s \in Seq(StoredCall) /\ Len(s) = Len(plan)
      /\ DOMAIN s = DOMAIN plan
      /\ \A i \in DOMAIN plan : s[i] = Do(op, plan[i])
  BY <1>3, EachFacts
<1>5. Invoke(d, s)
  BY DEF plan
<1> HIDE DEF s
<1>6. s # <<>>
  BY <1>3, <1>4, EmptySeq
<1>7. s \in Seq(AnyCall) /\ Tail(s) \in Seq(StoredCall)
  BY <1>4, <1>6, StoredIsCall
<1>8. \A i \in DOMAIN s : s[i].op = op /\ s[i].c = plan[i]
  BY <1>4 DEF Do
<1>9. \A i \in DOMAIN s : s[i].op # "begin" /\ s[i].c \in Members(plan)
  BY <1>3, <1>4, <1>8
<1>10. (\E i \in DOMAIN s : s[i].op = "close_commitments") =>
          \A b \in Members(plan) : Pending(s, "close_commitments", b)
  BY <1>3, <1>4, <1>8 DEF Pending
<1>11. s[1].op # "receipt"
  <2>1. 1 \in DOMAIN s
    BY <1>4, <1>6, TailFacts
  <2> QED
    BY <1>8, <2>1
<1> QED
  BY <1>5, <1>6, <1>7, <1>9, <1>10, <1>11, InvokeStep DEF plan

LEMMA ActivateStep ==
    ASSUME RdInv, NEW d \in Drivers, Activate(d)
    PROVE  RdInv' /\ Quiet(log, log')
<1> DEFINE plan == driver[d].plan
           a == Each("prepare", plan)
           b == <<Do("activate", plan[1])>>
           s == a \o b
<1>1. Idle(d) /\ Invoke(d, s)
  BY DEF Activate
<1>2. driver[d] \in DriverState
  BY <1>1 DEF Idle, RdInv, DriverSound
<1>3. plan \in Plans
  BY <1>2 DEF DriverState
<1> HIDE DEF plan
<1>4. /\ plan \in Seq(Commands) /\ plan # <<>> /\ Len(plan) \in Nat
      /\ Len(plan) >= 1 /\ DOMAIN plan = 1 .. Len(plan)
      /\ \A i \in DOMAIN plan : plan[i] \in Members(plan)
      /\ Members(plan) \subseteq Commands
  BY <1>3, PlanFacts, LenProperties, EmptySeq
<1>5. /\ a \in Seq(StoredCall) /\ Len(a) = Len(plan)
      /\ DOMAIN a = DOMAIN plan
      /\ \A i \in DOMAIN plan : a[i] = Do("prepare", plan[i])
  BY <1>4, EachFacts
<1>6. plan[1] \in Members(plan) /\ plan[1] \in Commands
  BY <1>4
<1>7. Do("activate", plan[1]) \in StoredCall
  BY <1>6 DEF Do, StoredCall
<1>8. b \in Seq(StoredCall) /\ Len(b) = 1 /\ b[1] = Do("activate", plan[1])
  BY <1>7
<1> HIDE DEF a, b
<1>9. /\ s \in Seq(StoredCall) /\ Len(s) = Len(plan) + 1
      /\ \A i \in 1 .. Len(plan) + 1 :
           s[i] = IF i <= Len(plan) THEN a[i] ELSE b[i - Len(plan)]
  <2>1. s = a \o b
    BY DEF s
  <2>2. /\ a \o b \in Seq(StoredCall)
        /\ Len(a \o b) = Len(a) + Len(b)
        /\ \A i \in 1 .. Len(a) + Len(b) :
             (a \o b)[i] = IF i <= Len(a) THEN a[i] ELSE b[i - Len(a)]
    BY <1>5, <1>8, ConcatProperties
  <2> HIDE DEF s
  <2> QED
    BY <1>5, <1>8, <2>1, <2>2
<1> HIDE DEF s
<1>10. DOMAIN s = 1 .. Len(plan) + 1
  BY <1>9, LenProperties
<1>11. ASSUME NEW i \in DOMAIN s
       PROVE  /\ s[i].op \in {"prepare", "activate"}
              /\ s[i].c \in Members(plan)
  <2>1. CASE i <= Len(plan)
    <3>1. i \in DOMAIN plan /\ s[i] = Do("prepare", plan[i])
      BY <1>4, <1>5, <1>9, <1>10, <2>1
    <3> QED
      BY <1>4, <3>1 DEF Do
  <2>2. CASE ~(i <= Len(plan))
    <3>1. i = Len(plan) + 1 /\ i - Len(plan) = 1
      BY <1>4, <1>10, <2>2
    <3>2. s[i] = Do("activate", plan[1])
      BY <1>8, <1>9, <1>10, <2>2, <3>1
    <3> QED
      BY <1>6, <3>2 DEF Do
  <2> QED
    BY <2>1, <2>2
<1>12. s # <<>>
  BY <1>4, <1>9, EmptySeq
<1>13. s \in Seq(AnyCall) /\ Tail(s) \in Seq(StoredCall)
  BY <1>9, <1>12, StoredIsCall
<1>14. 1 \in DOMAIN s
  BY <1>4, <1>10
<1>15. /\ \A i \in DOMAIN s : s[i].op # "begin" /\ s[i].c \in Members(plan)
       /\ ~\E i \in DOMAIN s : s[i].op = "close_commitments"
       /\ s[1].op # "receipt"
  BY <1>11, <1>14
<1> QED
  BY <1>1, <1>12, <1>13, <1>15, InvokeStep DEF plan

\* Every method of a driver, up to its next call of the log.
LEMMA MethodStep ==
    ASSUME RdInv, NEW d \in Drivers,
           \/ Start(d) \/ Commits(d) \/ CloseCommitments(d) \/ Opens(d)
           \/ CloseOpenings(d) \/ PostReceipt(d) \/ Activate(d)
           \/ AbortDriver(d) \/ Continue(d)
    PROVE  RdInv' /\ Quiet(log, log')
<1>1. CASE Commits(d)
  <2>1. PICK c \in Commands, role \in Roles, v \in Values :
          /\ Idle(d) /\ c \in Members(driver[d].plan)
          /\ Invoke(d, <<[op |-> "commit", c |-> c,
                           arg |-> [role |-> role, value |-> v]]>>)
    BY <1>1 DEF Commits
  <2> DEFINE k == [op |-> "commit", c |-> c,
                   arg |-> [role |-> role, value |-> v]]
  <2>2. k \in AnyCall /\ k.op = "commit" /\ k.c = c
    BY DEF AnyCall
  <2>3. Invoke(d, <<k>>)
    BY <2>1
  <2> HIDE DEF k
  <2> QED
    BY <2>1, <2>2, <2>3, OneCallStep
<1>2. CASE Opens(d)
  <2>1. PICK c \in Commands, role \in Roles, v \in Values, release \in BOOLEAN :
          /\ Idle(d) /\ c \in Members(driver[d].plan)
          /\ Invoke(d, <<OpenOne(c, role, v, release)>>)
    BY <1>2 DEF Opens
  <2> DEFINE k == OpenOne(c, role, v, release)
  <2>2. k \in AnyCall /\ k.op = "open" /\ k.c = c
    BY DEF OpenOne, AnyCall
  <2>3. Invoke(d, <<k>>)
    BY <2>1
  <2> HIDE DEF k
  <2> QED
    BY <2>1, <2>2, <2>3, OneCallStep
<1>3. CASE PostReceipt(d)
  <2>1. PICK c \in Commands, receipt \in receipts :
          /\ Idle(d) /\ c \in Members(driver[d].plan)
          /\ Invoke(d, <<[op |-> "receipt", c |-> c, arg |-> receipt]>>)
    BY <1>3 DEF PostReceipt
  <2> DEFINE k == [op |-> "receipt", c |-> c, arg |-> receipt]
  <2>2. /\ receipt \in Receipts
        /\ <<receipt.command, receipt.target>> \in Finished
    BY DEF RdInv, ReceiptsSound
  <2>3. k \in AnyCall /\ k.op = "receipt" /\ k.c = c /\ k.arg = receipt
    BY <2>2 DEF AnyCall
  <2>4. Invoke(d, <<k>>)
    BY <2>1
  <2> HIDE DEF k
  <2> QED
    BY <2>1, <2>2, <2>3, <2>4, OneCallStep
<1>4. CASE CloseCommitments(d)
  BY <1>4, EachCallStep DEF CloseCommitments
<1>5. CASE CloseOpenings(d)
  BY <1>5, EachCallStep DEF CloseOpenings
<1>6. CASE AbortDriver(d)
  BY <1>6, EachCallStep DEF AbortDriver
<1> QED
  BY <1>1, <1>2, <1>3, <1>4, <1>5, <1>6, StartStep, ActivateStep, ContinueStep

-----------------------------------------------------------------------------
(* Activation *)

\* The commands of a plan are activated together, under h.
Installs(l, m, plan, h) ==
    /\ Prolongs(l, m)
    /\ NoNewOpenings(l, m)
    /\ h \in Handles
    /\ \A c \in Members(plan) : BegunIn(m, c) /\ m.transcripts[c].terminal = h
    /\ \A b \in Commands \ Members(plan) :
         m.transcripts[b] = l.transcripts[b]

\* What "Fresh" stands for.
LEMMA FreshFacts ==
    ASSUME NEW l, NEW plan, BundleVerdict(l, plan) = "Fresh"
    PROVE  /\ \A c \in Members(plan) :
                /\ BegunIn(l, c)
                /\ l.transcripts[c].terminal = None
                /\ l.transcripts[c].next = Done
                /\ ~Stale(l, c)
           /\ \A c, d \in Members(plan) : c # d =>
                l.transcripts[c].scope # l.transcripts[d].scope
BY DEF BundleVerdict, WellFormed, BegunIn

LEMMA InstallStep ==
    ASSUME NEW F, NEW l \in LogState, LogSound(l, F), NEW plan \in Plans,
           BundleVerdict(l, plan) = "Fresh",
           NEW h \in Handles, h \notin l.handles, h \in CounterHandles
    PROVE  LET m == Install(l, plan, h) IN
           LogSound(m, F) /\ Installs(l, m, plan, h)
<1> DEFINE m == Install(l, plan, h)
           S == Members(plan)
<1>1. S \subseteq Commands
  BY PlanFacts
<1>2. /\ \A c \in S :
           /\ BegunIn(l, c)
           /\ l.transcripts[c].terminal = None
           /\ l.transcripts[c].next = Done
           /\ ~Stale(l, c)
      /\ \A c, d \in S : c # d =>
           l.transcripts[c].scope # l.transcripts[d].scope
  BY FreshFacts
<1>3. ASSUME NEW c \in S
      PROVE  /\ l.transcripts[c] \in Transcript
             /\ [l.transcripts[c] EXCEPT !.terminal = h] \in Transcript
  <2>1. l.transcripts[c] \in Transcript
    BY <1>1, <1>2, TranscriptFacts
  <2> QED
    BY <2>1 DEF Transcript, Terminal
<1>4. m \in LogState
  <2>1. \A c \in Commands : l.transcripts[c] \in Transcript \cup {None}
    BY DEF LogState
  <2>2. [c \in Commands |->
           IF c \in S THEN [l.transcripts[c] EXCEPT !.terminal = h]
           ELSE l.transcripts[c]] \in [Commands -> Transcript \cup {None}]
    BY <1>3, <2>1
  <2>3. [s \in Scopes |-> IF \E c \in S : l.transcripts[c].scope = s THEN h
                          ELSE l.current[s]] \in [Scopes -> Handles \cup {None}]
    BY DEF LogState
  <2>4. [l.activations EXCEPT ![h] = S] \in [Handles -> SUBSET Commands]
    BY <1>1 DEF LogState
  <2>5. l.handles \cup {h} \in SUBSET Handles
    BY DEF LogState
  <2> QED
    BY <2>2, <2>3, <2>4, <2>5 DEF Install, LogState
<1>5. /\ m.handles = l.handles \cup {h}
      /\ \A s \in Scopes : m.current[s] \in {h, l.current[s]}
      /\ \A c \in S : m.current[l.transcripts[c].scope] = h
  <2>1. \A c \in S : l.transcripts[c].scope \in Scopes
    BY <1>1, <1>2, TranscriptFacts
  <2> QED
    BY <2>1 DEF Install
<1>6. /\ \A c \in S :
           m.transcripts[c] = [l.transcripts[c] EXCEPT !.terminal = h]
      /\ \A b \in Commands \ S : m.transcripts[b] = l.transcripts[b]
  BY <1>1 DEF Install
<1> HIDE DEF m
<1>7. ASSUME NEW c \in S
      PROVE  /\ BegunIn(m, c)
             /\ m.transcripts[c].terminal = h
             /\ m.transcripts[c].next = Done /\ l.transcripts[c].next = Done
             /\ m.transcripts[c].scope = l.transcripts[c].scope
             /\ m.transcripts[c].predecessor = l.transcripts[c].predecessor
             /\ m.transcripts[c].posts = l.transcripts[c].posts
  <2>1. BegunIn(m, c)
    BY <1>3, <1>6, LogAssumption DEF BegunIn
  <2> QED
    <3>1. l.transcripts[c] \in Transcript /\ l.transcripts[c].next = Done
      BY <1>2, <1>3
    <3>2. m.transcripts[c] = [l.transcripts[c] EXCEPT !.terminal = h]
      BY <1>6
    <3> QED
      BY <2>1, <3>1, <3>2 DEF Transcript
<1>8. Prolongs(l, m)
  <2>1. ASSUME NEW c \in Commands, BegunIn(l, c), c \notin S
        PROVE  m.transcripts[c] = l.transcripts[c] /\ l.transcripts[c].next \in Nat
    BY <1>6, <2>1, TranscriptFacts
  <2>2. Done >= Done
    BY PhaseFacts
  <2>3. \A c \in S : Activated(m, c)
    BY <1>7 DEF Activated, BegunIn
  <2>4. \A c \in Commands \ S : Activated(l, c) => Activated(m, c)
    BY <1>6 DEF Activated
  <2> QED
    BY <1>2, <1>7, <2>1, <2>2, <2>3, <2>4 DEF Prolongs, BegunIn, PostIn
<1>9. NoNewOpenings(l, m)
  BY <1>2, <1>6, <1>7 DEF NoNewOpenings, PostIn, BegunIn
<1>10. Installs(l, m, plan, h)
  BY <1>6, <1>7, <1>8, <1>9 DEF Installs
<1>11. \A s \in Scopes : m.current[s] \in m.handles
  BY <1>5 DEF LogSound
<1>12. ASSUME NEW c \in Commands
       PROVE  TranscriptSound(m, c, F)
  <2>1. TranscriptSound(l, c, F)
    BY DEF LogSound
  <2>2. CASE c \in S
    <3>1. BegunIn(l, c)
      BY <1>2, <2>2
    <3>2. \A phase, role : PostIn(m, c, phase, role) = PostIn(l, c, phase, role)
      BY <1>7, <2>2 DEF PostIn
    <3>3. m.transcripts[c].predecessor \in m.handles
          /\ m.transcripts[c].predecessor # h
      BY <1>5, <1>7, <2>1, <2>2, <3>1 DEF TranscriptSound
    <3>4. Stale(m, c)
      BY <1>5, <1>7, <2>2, <3>3 DEF Stale
    <3>5. m.transcripts[c].next = Done
      BY <1>7, <2>2
    <3>6. l.transcripts[c].next = Done
      BY <1>7, <2>2
    <3>7. m.transcripts[c].scope = CommandOf[c].scope
          /\ m.transcripts[c].predecessor = CommandOf[c].predecessor
      BY <1>7, <2>1, <2>2, <3>1 DEF TranscriptSound
    <3> QED
      BY <2>1, <3>1, <3>2, <3>3, <3>4, <3>5, <3>6, <3>7 DEF TranscriptSound
  <2>3. CASE c \notin S
    <3>1. m.transcripts[c] = l.transcripts[c]
      BY <1>6, <2>3
    <3>2. Activated(m, c) <=> Activated(l, c)
      BY <3>1 DEF Activated
    <3>3. \A phase, role : PostIn(m, c, phase, role) = PostIn(l, c, phase, role)
      BY <3>1 DEF PostIn
    <3>4. ASSUME BegunIn(l, c), Stale(l, c)
          PROVE  Stale(m, c)
      <4>1. l.transcripts[c].predecessor \in l.handles
        BY <2>1, <3>4 DEF TranscriptSound
      <4>2. l.transcripts[c].scope \in Scopes
        BY <3>4, TranscriptFacts
      <4>3. \/ m.current[l.transcripts[c].scope] = h
            \/ m.current[l.transcripts[c].scope]
                 = l.current[l.transcripts[c].scope]
        BY <1>5, <4>2
      <4> QED
        BY <3>1, <3>4, <4>1, <4>3 DEF Stale
    <3>5. BegunIn(m, c) <=> BegunIn(l, c)
      BY <3>1 DEF BegunIn
    <3>6. l.transcripts[c].predecessor \in l.handles =>
            m.transcripts[c].predecessor \in m.handles
      BY <1>5, <3>1
    <3> QED
      BY <2>1, <3>1, <3>2, <3>3, <3>4, <3>5, <3>6 DEF TranscriptSound
  <2> QED
    BY <2>2, <2>3
<1>13. ASSUME NEW c \in Commands, NEW d \in Commands, c # d,
              Activated(m, c), Activated(m, d)
       PROVE  CommandOf[c] # CommandOf[d]
  <2>1. ASSUME NEW a \in S, NEW b \in Commands \ S, Activated(m, b)
        PROVE  CommandOf[a] # CommandOf[b]
    <3>1. Activated(l, b) /\ BegunIn(l, b) /\ BegunIn(l, a)
      BY <1>2, <1>6, <2>1 DEF Activated, BegunIn
    <3>2. Stale(l, b) /\ ~Stale(l, a)
      BY <1>2, <3>1 DEF LogSound, TranscriptSound
    <3>3. /\ l.transcripts[b].scope = CommandOf[b].scope
          /\ l.transcripts[b].predecessor = CommandOf[b].predecessor
          /\ l.transcripts[a].scope = CommandOf[a].scope
          /\ l.transcripts[a].predecessor = CommandOf[a].predecessor
      BY <1>1, <3>1 DEF LogSound, TranscriptSound
    <3> QED
      BY <3>2, <3>3 DEF Stale
  <2>2. CASE c \in S /\ d \in S
    <3>1. BegunIn(l, c) /\ BegunIn(l, d)
      BY <1>2, <2>2
    <3>2. /\ l.transcripts[c].scope = CommandOf[c].scope
          /\ l.transcripts[d].scope = CommandOf[d].scope
      BY <3>1 DEF LogSound, TranscriptSound
    <3> QED
      BY <1>2, <1>13, <2>2, <3>2
  <2>3. CASE c \notin S /\ d \notin S
    <3>1. Activated(l, c) /\ Activated(l, d)
      BY <1>6, <1>13, <2>3 DEF Activated
    <3> QED
      BY <1>13, <3>1 DEF LogSound
  <2>4. CASE c \in S /\ d \notin S
    BY <1>13, <2>1, <2>4
  <2>5. CASE c \notin S /\ d \in S
    BY <1>13, <2>1, <2>5
  <2> QED
    BY <2>2, <2>3, <2>4, <2>5
<1>14. LogSound(m, F)
  BY <1>4, <1>11, <1>12, <1>13 DEF LogSound
<1> QED
  BY <1>10, <1>14 DEF m

\* activate_bundle(): an error, a replay, or an installation.
LEMMA ActivateBundleFacts ==
    ASSUME NEW F, NEW l \in LogState, LogSound(l, F), NEW plan \in Plans,
           NEW h \in CounterHandles,
           BundleVerdict(l, plan) = "Fresh" => IsFresh(l, h)
    PROVE  LET r == ActivateBundle(l, plan, h) IN
           \/ r.out # "Ok" /\ r.log = l
           \/ r.out = "Ok" /\ r.log = l /\ \A c \in Members(plan) : Activated(l, c)
           \/ r.out = "Ok" /\ LogSound(r.log, F) /\ Installs(l, r.log, plan, h)
<1>1. h \in Handles
  BY DEF Handles
<1>2. CASE BundleVerdict(l, plan) = "Fresh"
  <2>1. ActivateBundle(l, plan, h) = [log |-> Install(l, plan, h), out |-> "Ok"]
    BY <1>2 DEF ActivateBundle
  <2>2. h \notin l.handles
    BY <1>2 DEF IsFresh
  <2>3. LogSound(Install(l, plan, h), F)
        /\ Installs(l, Install(l, plan, h), plan, h)
    BY <1>1, <1>2, <2>2, InstallStep
  <2> QED
    BY <2>1, <2>3
<1>3. CASE BundleVerdict(l, plan) = "Replay"
  <2>1. ActivateBundle(l, plan, h) = Kept(l, "Ok")
    BY <1>3 DEF ActivateBundle
  <2>2. \A c \in Members(plan) : Activated(l, c)
    BY <1>3 DEF BundleVerdict
  <2> QED
    BY <2>1, <2>2 DEF Kept
<1>4. CASE BundleVerdict(l, plan) \notin {"Fresh", "Replay"}
  <2>1. ActivateBundle(l, plan, h) = Kept(l, BundleVerdict(l, plan))
    BY <1>4 DEF ActivateBundle
  <2>2. BundleVerdict(l, plan) # "Ok"
    BY DEF BundleVerdict
  <2> QED
    BY <2>1, <2>2 DEF Kept
<1> QED
  BY <1>2, <1>3, <1>4

\* The components of a driver whose activation was granted.
Won(w, m) ==
    [c \in Commands |->
        IF c \in Members(w.plan)
        THEN [w.cand[c] EXCEPT !.stage = "Terminal",
                               !.terminal = m.transcripts[c].terminal]
        ELSE w.cand[c]]

WonAs(w, w2, m) == w2 = [w EXCEPT !.cand = Won(w, m), !.todo = Tail(w.todo)]

\* A driver whose activation was granted.
LEMMA WonSound ==
    ASSUME NEW F, NEW l \in LogState, NEW m, LogSound(m, F), Prolongs(l, m),
           NEW w \in Working, CandsSound(l, w), TodoSound(w),
           BundleSound(l, w), w.todo[1].op = "activate",
           \A c \in Members(w.plan) : Activated(m, c),
           NEW w2, WonAs(w, w2, m)
    PROVE  DriverSound(m, w2)
<1> DEFINE k == w.todo[1]
<1>1. /\ w.plan \in Plans /\ w.todo \in Seq(AnyCall) /\ w.todo # <<>>
      /\ Tail(w.todo) \in Seq(StoredCall)
      /\ w.cand \in [Commands -> CandidateState \cup {None}]
  BY DEF Working
<1>2. 1 \in DOMAIN w.todo /\ CallFits(w, k)
  BY <1>1, TailFacts DEF TodoSound
<1>3. AllBegun(w) /\ k.c \in Members(w.plan)
  BY <1>2 DEF CallFits
<1>4. Members(w.plan) \subseteq Commands
  BY <1>1, PlanFacts
<1>5. m \in LogState
  BY DEF LogSound
<1>6. ASSUME NEW c \in Commands, w.cand[c] # None
      PROVE  CandSound(m, c, w.cand[c])
  <2>1. CandSound(l, c, w.cand[c])
    BY <1>6 DEF CandsSound
  <2> QED
    BY <1>5, <2>1, CandKept
<1>7. ASSUME NEW c \in Members(w.plan)
      PROVE  CandSound(m, c, Won(w, m)[c]) /\ Won(w, m)[c].stage = "Terminal"
  <2> DEFINE y == Won(w, m)[c]
             t == m.transcripts[c].terminal
  <2>1. c \in Commands /\ w.cand[c] # None /\ BegunIn(m, c)
    BY <1>3, <1>4 DEF AllBegun, Activated, BegunIn
  <2>2. CandSound(m, c, w.cand[c])
    BY <1>6, <2>1
  <2>3. t \in Terminal
    BY <1>5, <2>1, TranscriptFacts
  <2>4. EndsAs(w.cand[c], y, t)
    BY <2>1 DEF Won, EndsAs
  <2> HIDE DEF y, t
  <2>5. t # None => t = m.transcripts[c].terminal
    BY DEF t
  <2>6. CandSound(m, c, y) /\ y.stage = "Terminal"
    BY <2>1, <2>2, <2>3, <2>4, <2>5, EndedCand
  <2> QED
    BY <2>6 DEF y
<1>8. \A c \in Commands : c \notin Members(w.plan) => Won(w, m)[c] = w.cand[c]
  BY DEF Won
<1>9. Won(w, m) \in [Commands -> CandidateState \cup {None}]
  <2>1. ASSUME NEW c \in Commands
        PROVE  Won(w, m)[c] \in CandidateState \cup {None}
    <3>1. CASE c \in Members(w.plan)
      BY <1>7, <3>1 DEF CandSound
    <3>2. CASE c \notin Members(w.plan)
      BY <1>1, <1>8, <3>2
    <3> QED
      BY <3>1, <3>2
  <2>2. Won(w, m) = [c \in Commands |-> Won(w, m)[c]]
    BY DEF Won
  <2> QED
    BY <2>1, <2>2
<1>10. /\ w2 \in DriverState
       /\ w2.plan = w.plan /\ w2.cand = Won(w, m) /\ w2.todo = Tail(w.todo)
  BY <1>1, <1>9 DEF Working, DriverState, WonAs
<1>11. CandsSound(m, w2)
  BY <1>6, <1>7, <1>8, <1>10 DEF CandsSound
<1>12. \A b \in Commands : w.cand[b] # None => w2.cand[b] # None
  <2>1. \A c \in Members(w.plan) : Won(w, m)[c] # None
    BY <1>7, AbsentAssumption DEF CandSound
  <2> QED
    BY <1>8, <1>10, <2>1
<1>13. TodoSound(w2)
  BY <1>10, <1>12, TailTodo
<1>14. \A b \in Commands : w2.cand[b] # None /\ w2.cand[b].stage = "Open" =>
          w.cand[b] # None /\ w.cand[b].stage = "Open"
  <2>1. \A c \in Members(w.plan) : w2.cand[c].stage = "Terminal"
    BY <1>7, <1>10
  <2> QED
    BY <1>8, <1>10, <2>1
<1>15. BundleSound(m, w2)
  <2>1. w2.cand[k.c].stage = "Terminal"
    BY <1>3, <1>7, <1>10
  <2>2. w.todo[1].op # "close_commitments" /\ w.todo[1].op # "abort"
    OBVIOUS
  <2>3. ~(w2.cand[w.todo[1].c] # None /\ w2.cand[w.todo[1].c].stage = "Open")
    BY <2>1
  <2>4. \A b \in Commands : b # w.todo[1].c =>
           (w2.cand[b] # None /\ w2.cand[b].stage = "Open" =>
              w.cand[b] # None /\ w.cand[b].stage = "Open")
    BY <1>14
  <2>5. w2.plan = w.plan /\ w2.todo = Tail(w.todo)
    BY <1>10
  <2>6. MovedOn(l, m, w, w2)
    BY <2>2, <2>3, <2>4, <2>5 DEF MovedOn
  <2> QED
    BY <1>5, <2>6, TailBundle
<1> QED
  BY <1>10, <1>11, <1>13, <1>15 DEF DriverSound

LEMMA DecideStep ==
    ASSUME RdInv, NEW d \in Drivers, Decide(d)
    PROVE  /\ RdInv'
           /\ \/ Quiet(log, log')
              \/ \E plan \in Plans, h \in Handles :
                    Installs(log, log', plan, h)
<1> DEFINE w == driver[d]
           k == Head(w.todo)
<1>1. w # None /\ w.todo # <<>> /\ k.op = "activate"
  BY DEF Decide
<1>2. DriverSound(log, w)
  BY <1>1 DEF RdInv
<1>3. PICK h \in CounterHandles :
        LET r == ActivateBundle(log, Together(w), h)
            won == r.out = "Ok" IN
        /\ BundleVerdict(log, Together(w)) = "Fresh" => IsFresh(log, h)
        /\ log' = r.log
        /\ driver' = [driver EXCEPT ![d] =
            [w EXCEPT
                !.cand = [c \in Commands |->
                    IF won /\ c \in Members(Together(w))
                    THEN [w.cand[c] EXCEPT
                            !.stage = "Terminal",
                            !.terminal = r.log.transcripts[c].terminal]
                    ELSE w.cand[c]],
                !.todo = IF won THEN Tail(w.todo)
                         ELSE Recovery(w, k, r.out)]]
  BY DEF Decide
<1>4. target' = target /\ receipts' = receipts
  BY DEF Decide
<1> DEFINE r == ActivateBundle(log, w.plan, h)
<1> HIDE DEF w
<1>5. /\ w \in DriverState /\ CandsSound(log, w) /\ TodoSound(w)
      /\ BundleSound(log, w)
  BY <1>2 DEF DriverSound
<1>6. /\ w.plan \in Plans /\ w.todo \in Seq(StoredCall)
      /\ w.cand \in [Commands -> CandidateState \cup {None}]
  BY <1>5 DEF DriverState
<1>7. w.todo \in {t \in Seq(AnyCall) : t # <<>> /\ Tail(t) \in Seq(StoredCall)}
  BY <1>1, <1>6, StoredIsCall
<1>8. w \in Working
  BY <1>5, <1>7 DEF Working, DriverState
<1>9. k = w.todo[1]
  BY <1>1, <1>6, TailFacts
<1>10. log \in LogState /\ LogSound(log, Finished)
  BY DEF RdInv, LogSound
<1>11. /\ BundleVerdict(log, w.plan) = "Fresh" => IsFresh(log, h)
       /\ log' = r.log
  BY <1>3 DEF Together
<1> HIDE DEF r
<1>12. \/ r.out # "Ok" /\ r.log = log
       \/ /\ r.out = "Ok" /\ r.log = log
          /\ \A c \in Members(w.plan) : Activated(log, c)
       \/ /\ r.out = "Ok" /\ LogSound(r.log, Finished)
          /\ Installs(log, r.log, w.plan, h)
  BY <1>6, <1>10, <1>11, ActivateBundleFacts DEF r
<1>13. Prolongs(log, log) /\ Quiet(log, log)
  BY <1>10, ProlongsSelf DEF Quiet, NoNewOpenings
<1>14. CASE r.out # "Ok" /\ r.log = log
  <2> DEFINE w2 == [w EXCEPT !.todo = Recovery(w, w.todo[1], r.out)]
  <2>1. driver' = [driver EXCEPT ![d] = w2]
    <3>1. [c \in Commands |-> w.cand[c]] = w.cand
      BY <1>6
    <3>2. driver' = [driver EXCEPT ![d] =
             [w EXCEPT !.cand = [c \in Commands |-> w.cand[c]],
                       !.todo = Recovery(w, k, r.out)]]
      BY <1>3, <1>14 DEF Together, r
    <3>3. [w EXCEPT !.cand = [c \in Commands |-> w.cand[c]],
                    !.todo = Recovery(w, k, r.out)] = w2
      BY <1>5, <1>9, <3>1 DEF DriverState
    <3> HIDE DEF w2
    <3> QED
      BY <3>2, <3>3
  <2>2. Recovery(w, w.todo[1], r.out) \in Seq(StoredCall)
    BY <1>1, <1>5, <1>8, <1>9, RecoveryFacts
  <2>3. /\ w2 \in DriverState /\ w2.plan = w.plan /\ w2.cand = w.cand
        /\ w2.todo = Recovery(w, w.todo[1], r.out)
    BY <1>5, <2>2 DEF DriverState
  <2> HIDE DEF w2
  <2>4. CandsSound(log, w2)
    BY <1>5, <2>3 DEF CandsSound
  <2>5. LogStep(Finished, log, log)
    BY <1>10, StayStep
  <2>6. TodoSound(w2) /\ BundleSound(log, w2)
    BY <1>1, <1>5, <1>8, <1>9, <1>10, <2>3, <2>4, <2>5, RecoverDriver
  <2>7. DriverSound(log', w2)
    BY <1>11, <1>14, <2>3, <2>4, <2>6 DEF DriverSound
  <2>8. RdInv'
    BY <1>4, <1>10, <1>11, <1>13, <1>14, <2>1, <2>7, DriverMoves
  <2> QED
    BY <1>11, <1>13, <1>14, <2>8
<1>15. ASSUME r.out = "Ok", LogSound(r.log, Finished), Prolongs(log, r.log),
              \A c \in Members(w.plan) : Activated(r.log, c)
       PROVE  RdInv'
  <2> DEFINE w2 == [w EXCEPT !.cand = Won(w, r.log), !.todo = Tail(w.todo)]
  <2>1. driver' = [driver EXCEPT ![d] = w2]
    <3>1. driver' = [driver EXCEPT ![d] =
            [w EXCEPT
                !.cand = [c \in Commands |->
                    IF c \in Members(w.plan)
                    THEN [w.cand[c] EXCEPT
                            !.stage = "Terminal",
                            !.terminal = r.log.transcripts[c].terminal]
                    ELSE w.cand[c]],
                !.todo = Tail(w.todo)]]
      BY <1>3, <1>15 DEF Together, r
    <3> QED
      BY <3>1 DEF Won
  <2>2. WonAs(w, w2, r.log)
    BY DEF WonAs
  <2> HIDE DEF w2
  <2>3. DriverSound(r.log, w2)
    BY <1>1, <1>5, <1>8, <1>9, <1>10, <1>15, <2>2, WonSound
  <2> QED
    BY <1>4, <1>11, <1>15, <2>1, <2>3, DriverMoves
<1>16. CASE /\ r.out = "Ok" /\ r.log = log
            /\ \A c \in Members(w.plan) : Activated(log, c)
  BY <1>10, <1>11, <1>13, <1>15, <1>16
<1>17. CASE /\ r.out = "Ok" /\ LogSound(r.log, Finished)
            /\ Installs(log, r.log, w.plan, h)
  <2>1. \A c \in Members(w.plan) : Activated(r.log, c)
    BY <1>17 DEF Installs, Activated, BegunIn
  <2>2. Prolongs(log, r.log) /\ h \in Handles
    BY <1>17 DEF Installs
  <2> QED
    BY <1>6, <1>11, <1>15, <1>17, <2>1, <2>2
<1> QED
  BY <1>12, <1>14, <1>16, <1>17

-----------------------------------------------------------------------------
(* Steps of a target, and the end of a driver *)

LEMMA MoreFinished ==
    ASSUME NEW l, NEW F, LogSound(l, F), NEW G, F \subseteq G
    PROVE  LogSound(l, G)
<1>1. \A c \in Commands : TranscriptSound(l, c, F) => TranscriptSound(l, c, G)
  BY DEF TranscriptSound
<1> QED
  BY <1>1 DEF LogSound

\* The receipts that are new are of accumulator a, which is done.
NewReceipts(c, g, a) ==
    \A x \in receipts' \ receipts :
        /\ x \in Receipts /\ x.command = c /\ x.target = g
        /\ a.done /\ x.view = a.view

\* The accumulator of target g becomes a.
LEMMA TargetMoves ==
    ASSUME RdInv, NEW c \in Commands, NEW g \in Targets, NEW a,
           UNCHANGED <<log, driver>>,
           target' = [target EXCEPT ![<<c, g>>] = a],
           TargetSound(log, c, a),
           target[<<c, g>>] # None =>
              /\ a.view = target[<<c, g>>].view
              /\ target[<<c, g>>].done => a.done,
           NewReceipts(c, g, a)
    PROVE  RdInv'
<1> DEFINE q == <<c, g>>
<1>1. q \in Commands \X Targets /\ a \in Accumulator /\ a # None
  BY AbsentAssumption DEF TargetSound
<1>2. target \in [Commands \X Targets -> Accumulator \cup {None}]
  BY DEF RdInv, TargetsSound
<1>3. /\ target' \in [Commands \X Targets -> Accumulator \cup {None}]
      /\ target'[q] = a
      /\ \A p \in Commands \X Targets : p # q => target'[p] = target[p]
  BY <1>1, <1>2
<1>4. target[q] # None => a.view = target[q].view /\ (target[q].done => a.done)
  OBVIOUS
<1>5. \A p \in Commands \X Targets : p \in Finished => p \in Finished'
  <2>1. ASSUME NEW p \in Commands \X Targets, p \in Finished
        PROVE  p \in Finished'
    <3>1. target[p] # None /\ target[p].done
      BY <2>1 DEF Finished
    <3>2. target'[p] # None /\ target'[p].done
      BY <1>1, <1>3, <1>4, <3>1
    <3> QED
      BY <3>2 DEF Finished
  <2> QED
    BY <2>1
<1>6. Finished \subseteq Finished'
  BY <1>5 DEF Finished
<1>7. LogSound(log, Finished)'
  <2>1. LogSound(log, Finished)
    BY DEF RdInv
  <2>2. LogSound(log, Finished')
    BY <1>6, <2>1, MoreFinished
  <2> QED
    BY <2>2
<1>8. TargetsSound(log)'
  <2>1. ASSUME NEW b \in Commands, NEW o \in Targets, target'[<<b, o>>] # None
        PROVE  TargetSound(log, b, target'[<<b, o>>])
    <3>1. CASE <<b, o>> = q
      BY <1>3, <3>1
    <3>2. CASE <<b, o>> # q
      <4>1. target'[<<b, o>>] = target[<<b, o>>]
        BY <1>3, <3>2
      <4> QED
        BY <2>1, <4>1 DEF RdInv, TargetsSound
    <3> QED
      BY <3>1, <3>2
  <2> QED
    BY <1>3, <2>1 DEF TargetsSound
<1>9. ReceiptsSound'
  <2>1. ASSUME NEW x \in receipts'
        PROVE  /\ x \in Receipts
               /\ <<x.command, x.target>> \in Finished'
               /\ target'[<<x.command, x.target>>].view = x.view
    <3>1. CASE x \in receipts
      <4>1. /\ x \in Receipts /\ <<x.command, x.target>> \in Finished
            /\ target[<<x.command, x.target>>].view = x.view
        BY <3>1 DEF RdInv, ReceiptsSound
      <4>2. /\ <<x.command, x.target>> \in Commands \X Targets
            /\ target[<<x.command, x.target>>] # None
        BY <4>1 DEF Finished
      <4>3. target'[<<x.command, x.target>>].view
              = target[<<x.command, x.target>>].view
        BY <1>3, <1>4, <4>2
      <4> QED
        BY <1>6, <4>1, <4>3
    <3>2. CASE /\ x \in Receipts /\ x.command = c /\ x.target = g
               /\ a.done /\ x.view = a.view
      <4>1. q \in Finished'
        BY <1>1, <1>3, <3>2 DEF Finished
      <4> QED
        BY <1>3, <3>2, <4>1
    <3> QED
      BY <3>1, <3>2 DEF NewReceipts
  <2> QED
    BY <2>1 DEF ReceiptsSound
<1>10. /\ (DOMAIN driver = Drivers)'
       /\ (driver = [d \in Drivers |-> driver[d]])'
       /\ (\A d \in Drivers : driver[d] # None => DriverSound(log, driver[d]))'
  BY DEF RdInv
<1> QED
  BY <1>7, <1>8, <1>9, <1>10 DEF RdInv

LEMMA TargetStartStep ==
    ASSUME RdInv, NEW c \in Commands, NEW g \in Targets, TargetStart(c, g)
    PROVE  RdInv'
<1>1. PICK d \in Drivers :
        /\ driver[d] # None
        /\ driver[d].cand[c] # None
        /\ driver[d].cand[c].view # None
        /\ target' = [target EXCEPT ![<<c, g>>] =
                        NewAccumulator(driver[d].cand[c].view)]
  BY DEF TargetStart
<1> DEFINE x == driver[d].cand[c]
           a == NewAccumulator(x.view)
<1>2. CandSound(log, c, x)
  BY <1>1 DEF RdInv, DriverSound, CandsSound
<1>3. x.view = ViewIn(log, c) /\ BegunIn(log, c) /\ x.view \in Views
  BY <1>1, <1>2 DEF CandSound, CandidateState
<1>4. /\ a.view = x.view /\ a.done = FALSE /\ a.outcome = None
      /\ \A r \in Contributors : a.shares[r] = None
      /\ a \in Accumulator
  BY <1>3 DEF NewAccumulator, Accumulator, Terminal
<1>5. target' = [target EXCEPT ![<<c, g>>] = a]
  BY <1>1
<1> HIDE DEF x, a
<1>6. TargetSound(log, c, a)
  BY <1>3, <1>4 DEF TargetSound
<1>7. target[<<c, g>>] = None /\ receipts' = receipts /\ log' = log
      /\ driver' = driver
  BY DEF TargetStart
<1>8. NewReceipts(c, g, a)
  BY <1>7 DEF NewReceipts
<1> QED
  BY <1>5, <1>6, <1>7, <1>8, TargetMoves

LEMMA DeliverStep ==
    ASSUME RdInv, NEW c \in Commands, NEW g \in Targets, Deliver(c, g)
    PROVE  RdInv'
<1>1. PICK role \in Contributors, v \in Values :
        target' = [target EXCEPT ![<<c, g>>] = Receive(@, role, v)]
  BY DEF Deliver
<1> DEFINE o == target[<<c, g>>]
           a == Receive(o, role, v)
<1>2. target \in [Commands \X Targets -> Accumulator \cup {None}]
  BY DEF RdInv, TargetsSound
<1>3. o # None /\ TargetSound(log, c, o) /\ ~o.done
  BY DEF Deliver, RdInv, TargetsSound
<1>4. target' = [target EXCEPT ![<<c, g>>] = a]
  BY <1>1, <1>2
<1> HIDE DEF o
<1>5. o \in Accumulator
  BY <1>3 DEF TargetSound
<1>6. /\ a \in Accumulator
      /\ a.view = o.view /\ a.done = o.done /\ a.outcome = o.outcome
      /\ \A r \in Contributors : a.shares[r] = o.shares[r]
            \/ a.shares[r] = o.view[r]
  <2>1. CASE o.view[role] = v
    <3>1. a = [o EXCEPT !.shares[role] = v]
      BY <2>1 DEF Receive
    <3> HIDE DEF a
    <3> QED
      BY <1>5, <2>1, <3>1 DEF Accumulator
  <2>2. CASE o.view[role] # v
    <3>1. a = o
      BY <2>2 DEF Receive
    <3> QED
      BY <1>5, <3>1
  <2> QED
    BY <2>1, <2>2
<1> HIDE DEF a
<1>7. TargetSound(log, c, a)
  BY <1>3, <1>6 DEF TargetSound
<1>8. receipts' = receipts /\ log' = log /\ driver' = driver
  BY DEF Deliver
<1>9. target[<<c, g>>] # None =>
        /\ a.view = target[<<c, g>>].view
        /\ target[<<c, g>>].done => a.done
  BY <1>6 DEF o
<1>10. NewReceipts(c, g, a)
  BY <1>8 DEF NewReceipts
<1> QED
  BY <1>4, <1>7, <1>8, <1>9, <1>10, TargetMoves

LEMMA FinishStep ==
    ASSUME RdInv, NEW c \in Commands, NEW g \in Targets, Finish(c, g)
    PROVE  RdInv'
<1> DEFINE o == target[<<c, g>>]
           a == [o EXCEPT !.done = TRUE]
           x == [command |-> c, target |-> g, view |-> o.view]
<1>1. target \in [Commands \X Targets -> Accumulator \cup {None}]
  BY DEF RdInv, TargetsSound
<1>2. o # None /\ TargetSound(log, c, o) /\ Complete(o.shares)
  BY DEF Finish, RdInv, TargetsSound, CanFinish
<1>3. /\ target' = [target EXCEPT ![<<c, g>>] = a]
      /\ receipts' = receipts \cup {x}
      /\ log' = log /\ driver' = driver
  BY <1>1 DEF Finish
<1> HIDE DEF o
<1>4. o \in Accumulator
  BY <1>2 DEF TargetSound
<1>5. /\ a \in Accumulator /\ a.done = TRUE
      /\ a.view = o.view /\ a.shares = o.shares /\ a.outcome = o.outcome
  BY <1>4 DEF Accumulator
<1>6. /\ x \in Receipts /\ x.command = c /\ x.target = g /\ x.view = o.view
  BY <1>4 DEF Accumulator, Receipts
<1> HIDE DEF a, x
<1>7. TargetSound(log, c, a)
  BY <1>2, <1>5 DEF TargetSound
<1>8. target[<<c, g>>] # None =>
        /\ a.view = target[<<c, g>>].view
        /\ target[<<c, g>>].done => a.done
  BY <1>5 DEF o
<1>9. NewReceipts(c, g, a)
  BY <1>3, <1>5, <1>6 DEF NewReceipts
<1> QED
  BY <1>3, <1>7, <1>8, <1>9, TargetMoves

LEMMA ResolveStep ==
    ASSUME RdInv, NEW c \in Commands, NEW g \in Targets, Resolve(c, g)
    PROVE  RdInv'
<1>1. PICK d \in Drivers :
        /\ driver[d] # None
        /\ driver[d].cand[c] # None
        /\ driver[d].cand[c].terminal # None
        /\ target' = [target EXCEPT ![<<c, g>>].outcome =
                        driver[d].cand[c].terminal]
  BY DEF Resolve
<1> DEFINE x == driver[d].cand[c]
           o == target[<<c, g>>]
           t == x.terminal
           a == [o EXCEPT !.outcome = t]
<1>2. target \in [Commands \X Targets -> Accumulator \cup {None}]
  BY DEF RdInv, TargetsSound
<1>3. o # None /\ TargetSound(log, c, o)
  BY DEF Resolve, RdInv, TargetsSound
<1>4. CandSound(log, c, x)
  BY <1>1 DEF RdInv, DriverSound, CandsSound
<1>5. t = log.transcripts[c].terminal /\ t \in Terminal
  BY <1>1, <1>4 DEF CandSound, CandidateState
<1>6. target' = [target EXCEPT ![<<c, g>>] = a]
  BY <1>1, <1>2
<1> HIDE DEF x, o, t
<1>7. o \in Accumulator
  BY <1>3 DEF TargetSound
<1>8. /\ a \in Accumulator /\ a.outcome = t
      /\ a.view = o.view /\ a.shares = o.shares /\ a.done = o.done
  BY <1>5, <1>7 DEF Accumulator
<1> HIDE DEF a
<1>9. TargetSound(log, c, a)
  BY <1>3, <1>5, <1>8 DEF TargetSound
<1>10. receipts' = receipts /\ log' = log /\ driver' = driver
  BY DEF Resolve
<1>11. target[<<c, g>>] # None =>
         /\ a.view = target[<<c, g>>].view
         /\ target[<<c, g>>].done => a.done
  BY <1>8 DEF o
<1>12. NewReceipts(c, g, a)
  BY <1>10 DEF NewReceipts
<1> QED
  BY <1>6, <1>9, <1>10, <1>11, <1>12, TargetMoves

LEMMA StopStep ==
    ASSUME RdInv, NEW d \in Drivers, Stop(d)
    PROVE  RdInv'
<1>1. driver' = [driver EXCEPT ![d] = None]
      /\ log' = log /\ target' = target /\ receipts' = receipts
  BY DEF Stop
<1>2. DOMAIN driver = Drivers
  BY DEF RdInv
<1>3. /\ DOMAIN driver' = Drivers
      /\ driver' = [e \in Drivers |-> driver'[e]]
      /\ \A e \in Drivers : driver'[e] \in {None, driver[e]}
  BY <1>1, <1>2
<1>4. \A e \in Drivers : driver'[e] # None => DriverSound(log, driver'[e])
  BY <1>3 DEF RdInv
<1>5. Finished' = Finished
  BY <1>1 DEF Finished
<1>6. LogSound(log', Finished')
  BY <1>1, <1>5 DEF RdInv
<1>7. TargetsSound(log)' /\ ReceiptsSound'
  BY <1>1, <1>5 DEF RdInv, TargetsSound, ReceiptsSound
<1> QED
  BY <1>1, <1>3, <1>4, <1>6, <1>7 DEF RdInv

-----------------------------------------------------------------------------
(* Invariance *)

LEMMA InitSound ==
    ASSUME Init
    PROVE  RdInv
<1>1. /\ log.current = [s \in Scopes |-> Genesis]
      /\ log.transcripts = [c \in Commands |-> None]
      /\ log.handles = {Genesis}
      /\ log.activations = [h \in Handles |-> {}]
      /\ log.next = 0
      /\ log = [current |-> [s \in Scopes |-> Genesis],
                transcripts |-> [c \in Commands |-> None],
                handles |-> {Genesis},
                activations |-> [h \in Handles |-> {}],
                next |-> 0]
  BY DEF Init, EmptyLog
<1>2. Genesis \in Handles /\ 0 \in CounterHandles
  BY RedistributionAssumption, LogAssumption DEF CounterHandles
<1>3. log \in LogState
  BY <1>1, <1>2 DEF LogState
<1>4. \A c \in Commands : log.transcripts[c] = None
  BY <1>1
<1>5. LogSound(log, Finished)
  <2>1. \A s \in Scopes : log.current[s] \in log.handles
    BY <1>1
  <2>2. \A c \in Commands : TranscriptSound(log, c, Finished)
    BY <1>4 DEF TranscriptSound, BegunIn
  <2>3. \A c \in Commands : ~Activated(log, c)
    BY <1>4 DEF Activated
  <2> QED
    BY <1>3, <2>1, <2>2, <2>3 DEF LogSound
<1>6. /\ DOMAIN driver = Drivers /\ driver = [d \in Drivers |-> driver[d]]
      /\ \A d \in Drivers : driver[d] = None
  BY DEF Init
<1>7. TargetsSound(log) /\ ReceiptsSound
  BY DEF Init, TargetsSound, ReceiptsSound
<1> QED
  BY <1>5, <1>6, <1>7 DEF RdInv

\* Every step keeps the invariant, and is quiet or an installation.
LEMMA NextSound ==
    ASSUME RdInv, [Next]_vars
    PROVE  /\ RdInv'
           /\ \/ Quiet(log, log')
              \/ \E plan \in Plans, h \in Handles :
                    Installs(log, log', plan, h)
<1>1. log \in LogState
  BY DEF RdInv, LogSound
<1>2. log' = log => Quiet(log, log')
  BY <1>1, ProlongsSelf DEF Quiet, NoNewOpenings
<1>3. CASE UNCHANGED vars
  <2>1. /\ log' = log /\ driver' = driver /\ target' = target
        /\ receipts' = receipts
    BY <1>3 DEF vars
  <2>2. Finished' = Finished
    BY <2>1 DEF Finished
  <2>3. RdInv'
    BY <2>1, <2>2 DEF RdInv, TargetsSound, ReceiptsSound
  <2> QED
    BY <1>2, <2>1, <2>3
<1>4. ASSUME NEW d \in Drivers, DriverNext(d)
      PROVE  /\ RdInv'
             /\ \/ Quiet(log, log')
                \/ \E plan \in Plans, h \in Handles :
                      Installs(log, log', plan, h)
  <2>1. CASE Decide(d)
    BY <2>1, DecideStep
  <2>2. CASE Stop(d)
    <3>1. log' = log
      BY <2>2 DEF Stop
    <3> QED
      BY <1>2, <2>2, <3>1, StopStep
  <2>3. CASE \/ Start(d) \/ Commits(d) \/ CloseCommitments(d) \/ Opens(d)
             \/ CloseOpenings(d) \/ PostReceipt(d) \/ Activate(d)
             \/ AbortDriver(d) \/ Continue(d)
    BY <2>3, MethodStep
  <2> QED
    BY <1>4, <2>1, <2>2, <2>3 DEF DriverNext
<1>5. ASSUME NEW c \in Commands, NEW g \in Targets, TargetNext(c, g)
      PROVE  RdInv' /\ log' = log
  <2>1. CASE TargetStart(c, g)
    BY <2>1, TargetStartStep DEF TargetStart
  <2>2. CASE Deliver(c, g)
    BY <2>2, DeliverStep DEF Deliver
  <2>3. CASE Finish(c, g)
    BY <2>3, FinishStep DEF Finish
  <2>4. CASE Resolve(c, g)
    BY <2>4, ResolveStep DEF Resolve
  <2> QED
    BY <1>5, <2>1, <2>2, <2>3, <2>4 DEF TargetNext
<1> QED
  BY <1>2, <1>3, <1>4, <1>5 DEF Next

\* The inductive invariant: whatever the drivers, their calls of the log and
\* the targets do in whatever order, and however often a driver stops, the
\* memories of candidates and targets agree with the log
\* (src/src/dealing/candidate.rs over src/src/log_act.rs).
THEOREM RedistributionInvariance == Spec => []RdInv
<1>1. Init => RdInv
  BY InitSound
<1>2. RdInv /\ [Next]_vars => RdInv'
  BY NextSound
<1> QED
  BY <1>1, <1>2, PTL DEF Spec

-----------------------------------------------------------------------------
(* What the invariant says *)

LEMMA LogViewIn ==
    ASSUME NEW c \in Commands
    PROVE  LogView(c) = ViewIn(log, c)
BY DEF LogView, ViewIn, Posted, PostIn

\* A command has one view: what close_openings() of any driver fixed, and
\* what any target works with, are the openings in the log.
THEOREM OneView == Spec => []OneViewPerCommand
<1>1. ASSUME RdInv
      PROVE  OneViewPerCommand
  <2>1. ASSUME NEW c \in Commands, NEW d \in Drivers,
               driver[d] # None, driver[d].cand[c] # None
        PROVE  driver[d].cand[c].view \in {None, LogView(c)}
    <3>1. CandSound(log, c, driver[d].cand[c])
      BY <1>1, <2>1 DEF RdInv, DriverSound, CandsSound
    <3> QED
      BY <3>1, LogViewIn DEF CandSound
  <2>2. ASSUME NEW c \in Commands, NEW t \in Targets, target[<<c, t>>] # None
        PROVE  target[<<c, t>>].view = LogView(c)
    <3>1. TargetSound(log, c, target[<<c, t>>])
      BY <1>1, <2>2 DEF RdInv, TargetsSound
    <3> QED
      BY <3>1, LogViewIn DEF TargetSound
  <2> QED
    BY <2>1, <2>2 DEF OneViewPerCommand
<1> QED
  BY <1>1, RedistributionInvariance, PTL

\* The decision that a driver remembers or a target acted on is the log's:
\* an abort that lost against an activation is never taken for one that
\* succeeded (abort(), abort_with(), PendingShare::resolve()).
THEOREM DecisionsFollowLog == Spec => []DecisionsAgree
<1>1. ASSUME RdInv
      PROVE  DecisionsAgree
  <2>1. ASSUME NEW d \in Drivers, driver[d] # None, NEW c \in Commands,
               driver[d].cand[c] # None, driver[d].cand[c].terminal # None
        PROVE  driver[d].cand[c].terminal = log.transcripts[c].terminal
    <3>1. CandSound(log, c, driver[d].cand[c])
      BY <1>1, <2>1 DEF RdInv, DriverSound, CandsSound
    <3> QED
      BY <2>1, <3>1 DEF CandSound
  <2>2. ASSUME NEW c \in Commands, NEW t \in Targets,
               target[<<c, t>>] # None, target[<<c, t>>].outcome # None
        PROVE  target[<<c, t>>].outcome = log.transcripts[c].terminal
    <3>1. TargetSound(log, c, target[<<c, t>>])
      BY <1>1, <2>2 DEF RdInv, TargetsSound
    <3> QED
      BY <2>2, <3>1 DEF TargetSound
  <2> QED
    BY <2>1, <2>2 DEF DecisionsAgree
<1> QED
  BY <1>1, RedistributionInvariance, PTL

\* Activation installs no key whose shares are missing: each role opened,
\* soundly, what it had committed to, and every target holds the share of
\* these openings (prepare() before activate()).
THEOREM ActivatedHasShares == Spec => []ActivatedIsShared
<1>1. ASSUME RdInv, NEW c \in Commands, Activated(log, c)
      PROVE  /\ LogView(c) \in Views
             /\ \A r \in Contributors : Posted(c, Commit, r) = Posted(c, Open, r)
             /\ \A t \in Targets :
                  /\ target[<<c, t>>] # None
                  /\ target[<<c, t>>].done
                  /\ target[<<c, t>>].shares = LogView(c)
  <2>1. TranscriptSound(log, c, Finished) /\ BegunIn(log, c)
    BY <1>1 DEF RdInv, LogSound, Activated, BegunIn
  <2>2. log.transcripts[c].next = 4
    BY <1>1, <2>1, PhaseFacts DEF TranscriptSound
  <2>3. ASSUME NEW r \in Contributors
        PROVE  /\ PostIn(log, c, Open, r) \in Sound
               /\ PostIn(log, c, Commit, r) = PostIn(log, c, Open, r)
    <3>1. PostIn(log, c, Open, r) # None
      BY <2>1, <2>2, PhaseFacts DEF TranscriptSound
    <3> QED
      BY <2>1, <3>1 DEF TranscriptSound
  <2>4. ViewIn(log, c) \in Views
    BY <2>3 DEF ViewIn, Views
  <2>5. ASSUME NEW t \in Targets
        PROVE  /\ target[<<c, t>>] # None
               /\ target[<<c, t>>].done
               /\ target[<<c, t>>].shares = ViewIn(log, c)
    <3> DEFINE a == target[<<c, t>>]
    <3>1. PostIn(log, c, Receipt, t) # None
      BY <2>1, <2>2, PhaseFacts DEF TranscriptSound
    <3>2. <<c, t>> \in Finished
      BY <2>1, <3>1 DEF TranscriptSound
    <3>3. a # None /\ a.done
      BY <3>2 DEF Finished
    <3>4. TargetSound(log, c, a)
      BY <1>1, <3>3 DEF RdInv, TargetsSound
    <3> HIDE DEF a
    <3>5. \A r \in Contributors : a.shares[r] = ViewIn(log, c)[r]
      BY <3>3, <3>4 DEF TargetSound, Complete
    <3>6. a.shares \in [Contributors -> Values \cup {None}]
      BY <3>4 DEF TargetSound, Accumulator
    <3>7. a.shares = [r \in Contributors |-> a.shares[r]]
      BY <3>6
    <3>8. ViewIn(log, c) = [r \in Contributors |-> ViewIn(log, c)[r]]
      BY DEF ViewIn
    <3>9. a.shares = ViewIn(log, c)
      BY <3>5, <3>7, <3>8
    <3> QED
      BY <3>3, <3>9 DEF a
  <2>6. \A r \in Contributors : Posted(c, Commit, r) = Posted(c, Open, r)
    BY <2>3 DEF Posted, PostIn
  <2> QED
    BY <2>4, <2>5, <2>6, LogViewIn
<1>2. RdInv => ActivatedIsShared
  BY <1>1 DEF ActivatedIsShared
<1> QED
  BY <1>2, RedistributionInvariance, PTL

-----------------------------------------------------------------------------
(* Bundles *)

\* Of a plan all components are activated together, under one handle.
LEMMA TogetherKept ==
    ASSUME EachInOnePlan, RdInv, RdInv', BundleDecidedTogether,
           \/ Quiet(log, log')
           \/ \E plan \in Plans, h \in Handles : Installs(log, log', plan, h)
    PROVE  BundleDecidedTogether'
<1> SUFFICES ASSUME NEW q \in Plans, NEW c \in Members(q), NEW b \in Members(q),
                    Activated(log', c)
             PROVE  /\ Activated(log', b)
                    /\ log'.transcripts[b].terminal
                         = log'.transcripts[c].terminal
  BY DEF BundleDecidedTogether
<1>1. c \in Commands /\ b \in Commands
  BY PlanFacts
<1>2. ASSUME Activated(log, c), Prolongs(log, log')
      PROVE  /\ Activated(log', b)
             /\ log'.transcripts[b].terminal = log'.transcripts[c].terminal
  <2>1. Activated(log, b)
        /\ log.transcripts[b].terminal = log.transcripts[c].terminal
    BY <1>2 DEF BundleDecidedTogether
  <2>2. /\ log.transcripts[b].terminal # None /\ BegunIn(log, b)
        /\ log.transcripts[c].terminal # None /\ BegunIn(log, c)
    BY <1>2, <2>1, LogAssumption DEF Activated, BegunIn
  <2> QED
    BY <1>1, <1>2, <2>1, <2>2 DEF Prolongs
<1>3. CASE Quiet(log, log')
  BY <1>1, <1>2, <1>3 DEF Quiet
<1>4. ASSUME NEW plan \in Plans, NEW h \in Handles,
             Installs(log, log', plan, h)
      PROVE  /\ Activated(log', b)
             /\ log'.transcripts[b].terminal = log'.transcripts[c].terminal
  <2>1. CASE c \in Members(plan)
    <3>1. q = plan
      BY <2>1 DEF EachInOnePlan
    <3> QED
      BY <1>4, <2>1, <3>1 DEF Installs, Activated, BegunIn
  <2>2. CASE c \notin Members(plan)
    <3>1. log'.transcripts[c] = log.transcripts[c] /\ Prolongs(log, log')
      BY <1>1, <1>4, <2>2 DEF Installs
    <3>2. Activated(log, c)
      BY <3>1 DEF Activated
    <3> QED
      BY <1>2, <3>1, <3>2
  <2> QED
    BY <2>1, <2>2
<1> QED
  BY <1>3, <1>4

\* A contribution is opened only after all components have committed.
LEMMA OpeningsKept ==
    ASSUME EachInOnePlan, RdInv, RdInv', OpeningsAfterAllCommits,
           \/ Quiet(log, log')
           \/ \E plan \in Plans, h \in Handles : Installs(log, log', plan, h)
    PROVE  OpeningsAfterAllCommits'
<1>1. log \in LogState /\ log' \in LogState
  BY DEF RdInv, LogSound
<1>2. Prolongs(log, log')
  BY DEF Quiet, Installs
<1>3. \A q \in Plans : \A c \in Members(q) :
        (BegunIn(log, c) /\ \E r \in Contributors :
            PostIn(log, c, Open, r) # None) =>
        \A b \in Members(q) : CommitsIn(log, b)
  BY DEF OpeningsAfterAllCommits, Begun, Posted, BegunIn, PostIn, CommitsIn
<1>4. ASSUME NEW q \in Plans, NEW c \in Members(q), BegunIn(log', c),
             NEW r \in Contributors, PostIn(log', c, Open, r) # None,
             NEW b \in Members(q)
      PROVE  CommitsIn(log', b)
  <2>1. c \in Commands /\ b \in Commands
    BY PlanFacts
  <2>2. ASSUME CommitsIn(log, b)
        PROVE  CommitsIn(log', b)
    BY <1>1, <1>2, <2>1, <2>2, CommitsKept
  <2>3. CASE NoNewOpenings(log, log')
    <3>1. BegunIn(log, c) /\ PostIn(log, c, Open, r) # None
      BY <1>4, <2>1, <2>3 DEF NoNewOpenings
    <3> QED
      BY <1>3, <2>2, <3>1
  <2>4. ASSUME NEW plan \in Plans, NEW a \in Members(plan),
               \A e \in Members(plan) : CommitsIn(log, e),
               \A e \in Commands : e # a =>
                  log'.transcripts[e] = log.transcripts[e]
        PROVE  CommitsIn(log', b)
    <3>1. CASE c = a
      <4>1. q = plan
        BY <3>1 DEF EachInOnePlan
      <4> QED
        BY <2>2, <2>4, <4>1
    <3>2. CASE c # a
      <4>1. log'.transcripts[c] = log.transcripts[c]
        BY <2>1, <2>4, <3>2
      <4>2. BegunIn(log, c) /\ PostIn(log, c, Open, r) # None
        BY <1>4, <4>1 DEF BegunIn, PostIn
      <4> QED
        BY <1>3, <2>2, <4>2
    <3> QED
      BY <3>1, <3>2
  <2>5. CASE Quiet(log, log')
    BY <2>3, <2>4, <2>5 DEF Quiet
  <2>6. CASE \E plan \in Plans, h \in Handles : Installs(log, log', plan, h)
    BY <2>3, <2>6 DEF Installs
  <2> QED
    BY <2>5, <2>6
<1> QED
  BY <1>4
     DEF OpeningsAfterAllCommits, Begun, Posted, BegunIn, PostIn, CommitsIn

\* "All or nothing": when no command belongs to two plans, a bundle is
\* activated as a whole, under one handle, whatever drivers race for its
\* components or stop halfway (InnerBundle::activate()).
THEOREM BundlesDecidedTogether ==
    ASSUME EachInOnePlan
    PROVE  Spec => []BundleDecidedTogether
<1>1. Init => BundleDecidedTogether
  <2>1. ASSUME Init
        PROVE  \A c \in Commands : ~Activated(log, c)
    BY <2>1 DEF Init, EmptyLog, Activated
  <2> QED
    BY <2>1, PlanFacts DEF BundleDecidedTogether
<1>2. RdInv /\ RdInv' /\ BundleDecidedTogether /\ [Next]_vars
        => BundleDecidedTogether'
  BY NextSound, TogetherKept
<1> QED
  BY <1>1, <1>2, RedistributionInvariance, PTL DEF Spec

\* When no command belongs to two plans, nobody can choose a contribution
\* after another one of the bundle was opened: every role of every component
\* has committed by then (InnerBundle::close_commitments(), whose failure
\* halfway aborts every component).
THEOREM OpeningsFollowCommits ==
    ASSUME EachInOnePlan
    PROVE  Spec => []OpeningsAfterAllCommits
<1>1. Init => OpeningsAfterAllCommits
  <2>1. ASSUME Init
        PROVE  \A c \in Commands : ~Begun(c)
    BY <2>1 DEF Init, EmptyLog, Begun
  <2> QED
    BY <2>1, PlanFacts DEF OpeningsAfterAllCommits
<1>2. RdInv /\ RdInv' /\ OpeningsAfterAllCommits /\ [Next]_vars
        => OpeningsAfterAllCommits'
  BY NextSound, OpeningsKept
<1> QED
  BY <1>1, <1>2, RedistributionInvariance, PTL DEF Spec

\* When no command belongs to two plans, a plan that lost one scope to a
\* rival installs nothing in its other scopes either: StalePredecessor for
\* one command of activate_bundle() refuses the whole bundle.
THEOREM LosersInstallNothing ==
    ASSUME EachInOnePlan
    PROVE  Spec => []LoserInstallsNothing
<1>1. ASSUME RdInv, BundleDecidedTogether
      PROVE  LoserInstallsNothing
  <2> SUFFICES ASSUME NEW p \in Plans, NEW q \in Plans,
                      NEW c \in Members(p), NEW b \in Members(q),
                      p # q, CommandOf[c] = CommandOf[b],
                      NEW a \in Members(p), Activated(log, a),
                      NEW e \in Members(q), Activated(log, e)
               PROVE  FALSE
    BY DEF LoserInstallsNothing
  <2>1. Activated(log, c) /\ Activated(log, b)
    BY <1>1 DEF BundleDecidedTogether
  <2>2. c \in Commands /\ b \in Commands
    BY PlanFacts
  <2>3. c # b
    BY DEF EachInOnePlan
  <2> QED
    BY <1>1, <2>1, <2>2, <2>3 DEF RdInv, LogSound
<1> QED
  BY <1>1, RedistributionInvariance, BundlesDecidedTogether, PTL

=============================================================================
