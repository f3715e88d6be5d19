------------------------ MODULE RewriteHooks_proofs ------------------------
(***************************************************************************)
(* Proofs about the rewrite hooks, for any repository and any sequence of  *)
(* commands: only HEAD has a working log; every line of the agent is named *)
(* by a note, by HEAD's log or by the stash, unless its attribution is one *)
(* that a command is known to drop; and no line of the user is, unless line*)
(* numbers were read against another content.                              *)
(***************************************************************************)
EXTENDS RewriteHooks, TLAPS, FiniteSetTheorems, WellFoundedInduction

\* A log that is there, or none at all.
Sound(l) == "dir" \in DOMAIN l /\ (l.dir = TRUE \/ l = NoLog)
\* The only log is that of h.
Only(logs, h) ==
  /\ logs = [c \in Commits |-> logs[c]]
  /\ \A c \in Commits \ {h} : logs[c] = NoLog
  /\ Sound(logs[h])

\* OnlyHeadLog is not inductive: a log is moved to where HEAD goes only if it is
\* there, so that what is not there must be empty.
IInv == newest \in Commits /\ head \in Commits /\ Only(log, head)

(***************************************************************************)
(* Logs                                                                    *)
(***************************************************************************)
LEMMA NoLogSound == Sound(NoLog) /\ NoLog.dir = FALSE
BY DEF Sound, NoLog

LEMMA CheckpointedDir ==
  ASSUME NEW l, Sound(l), NEW S, NEW byAI, NEW now
  PROVE  Sound(Checkpointed(l, S, byAI, now)) /\ Checkpointed(l, S, byAI, now).dir = TRUE
BY DEF Sound, Checkpointed

\* Every checkpoint makes the log, also if it has nothing to add.
LEMMA HumanCheckpointDir ==
  ASSUME NEW l, Sound(l), NEW now
  PROVE  Sound(HumanCheckpoint(l, now)) /\ HumanCheckpoint(l, now).dir = TRUE
<1>1. CASE Skipped(l)
  BY <1>1 DEF HumanCheckpoint, Sound
<1>2. CASE ~Skipped(l)
  BY <1>2, CheckpointedDir DEF HumanCheckpoint
<1>3. QED
  BY <1>1, <1>2

LEMMA WithInitialDir ==
  ASSUME NEW l, Sound(l), NEW initial, NEW content
  PROVE  Sound(WithInitial(l, initial, content)) /\ WithInitial(l, initial, content).dir = TRUE
BY DEF Sound, WithInitial

LEMMA PushDir ==
  ASSUME NEW bare \in BOOLEAN, Sound(log[head]), NEW S
  PROVE  Sound(BeforePush(bare)) /\ Sound(Forgotten(BeforePush(bare), S))
<1>1. Sound(BeforePush(bare)) /\ BeforePush(bare).dir = TRUE
  <2>1. CASE bare
    BY <2>1 DEF BeforePush, Sound
  <2>2. CASE ~bare
    BY <2>2, HumanCheckpointDir DEF BeforePush
  <2>3. QED
    BY <2>1, <2>2
<1>2. QED
  BY <1>1 DEF Forgotten, Sound

\* HEAD's log is replaced; HEAD moves with its log, or without.
LEMMA Put ==
  ASSUME NEW logs, NEW h \in Commits, Only(logs, h), NEW l, Sound(l)
  PROVE  Only([logs EXCEPT ![h] = l], h)
BY DEF Only

LEMMA Moved ==
  ASSUME NEW logs, NEW h \in Commits, Only(logs, h), NEW t \in Commits, NEW l, Sound(l)
  PROVE  Only([logs EXCEPT ![h] = NoLog, ![t] = l], t)
BY DEF Only

LEMMA Dropped ==
  ASSUME NEW logs, NEW h \in Commits, Only(logs, h), NEW t \in Commits
  PROVE  Only([logs EXCEPT ![h] = NoLog], t)
BY NoLogSound DEF Only

LEMMA RenamedMoves ==
  ASSUME NEW logs, NEW h \in Commits, Only(logs, h), NEW t \in Commits
  PROVE  Only(Renamed(logs, h, t), t)
<1>1. CASE t = h
  BY <1>1 DEF Renamed
<1>2. CASE t # h
  <2>1. logs[t] = NoLog
    BY <1>2 DEF Only
  <2>2. CASE logs[h].dir = TRUE
    <3>1. Renamed(logs, h, t) = [logs EXCEPT ![t] = logs[h], ![h] = NoLog]
      BY <2>1, <2>2, NoLogSound DEF Renamed
    <3>2. QED
      BY <1>2, <3>1 DEF Only
  <2>3. CASE logs[h] = NoLog
    <3>1. Renamed(logs, h, t) = logs
      BY <2>3, NoLogSound DEF Renamed
    <3>2. QED
      BY <1>2, <2>1, <2>3, <3>1, NoLogSound DEF Only
  <2>4. QED
    BY <2>2, <2>3 DEF Only, Sound
<1>3. QED
  BY <1>1, <1>2

LEMMA ReconstructedMoves ==
  ASSUME IInv, NEW l, NEW t \in Commits, NEW paths
  PROVE  Only(Reconstructed(l, t, paths), t)
<1>1. CASE paths = {}
  BY <1>1, Dropped DEF Reconstructed, IInv
<1>2. CASE paths # {}
  <2>1. PICK i : Reconstructed(l, t, paths) = [log EXCEPT ![head] = NoLog, ![t] = WithInitial(NoLog, i, disk)]
    BY <1>2 DEF Reconstructed
  <2>2. Sound(WithInitial(NoLog, i, disk))
    BY NoLogSound, WithInitialDir
  <2>3. Only([log EXCEPT ![head] = NoLog, ![t] = WithInitial(NoLog, i, disk)], t)
    BY <2>2, Moved DEF IInv
  <2>4. QED
    BY <2>1, <2>3
<1>3. QED
  BY <1>1, <1>2

(***************************************************************************)
(* Only HEAD has a log: the steps                                          *)
(***************************************************************************)
LEMMA InitInv == Init => IInv
<1> SUFFICES ASSUME Init PROVE IInv
  OBVIOUS
<1>1. newest \in Commits /\ head \in Commits
  BY RewriteHooksAssumption DEF Init, Commits
<1>2. Only(log, head)
  BY <1>1, NoLogSound DEF Init, Only
<1>3. QED
  BY <1>1, <1>2 DEF IInv

\* A new commit: HEAD's log gives way to one of the commit.
LEMMA SplitsInv ==
  ASSUME IInv, NEW va, NEW content, NEW p, NEW F, NewCommit(F, p),
         Splits(va, content, head', p, head)
  PROVE  IInv'
<1>1. newest' \in Commits /\ head' \in Commits
  BY RewriteHooksAssumption DEF IInv, NewCommit, Commits
<1>2. PICK rest : log' = [log EXCEPT ![head] = NoLog,
                            ![head'] = IF rest = None THEN NoLog ELSE WithInitial(NoLog, rest, content)]
  BY DEF Splits
<1>3. Sound(IF rest = None THEN NoLog ELSE WithInitial(NoLog, rest, content))
  BY NoLogSound, WithInitialDir
<1>4. Only([log EXCEPT ![head] = NoLog,
              ![head'] = IF rest = None THEN NoLog ELSE WithInitial(NoLog, rest, content)], head')
  BY <1>1, <1>3, Moved DEF IInv
<1>5. Only(log', head')
  BY <1>2, <1>4
<1>6. QED
  BY <1>1, <1>5 DEF IInv

\* HEAD stays, and so do the other logs.
LEMMA StaysInv ==
  ASSUME IInv, newest' = newest, head' = head, NEW l, Sound(l), log' = [log EXCEPT ![head] = l]
  PROVE  IInv'
<1>1. Only([log EXCEPT ![head] = l], head)
  BY Put DEF IInv
<1>2. QED
  BY <1>1 DEF IInv

\* HEAD moves, and the log of its new commit is the only one.
LEMMA MovesInv ==
  ASSUME IInv, newest' = newest, NEW t \in 0..newest, head' = t, Only(log', t)
  PROVE  IInv'
BY RewriteHooksAssumption DEF IInv, Commits

LEMMA NextInv == IInv /\ [Next]_vars => IInv'
<1> SUFFICES ASSUME IInv, [Next]_vars PROVE IInv'
  OBVIOUS
<1>1. Sound(log[head]) /\ newest \in Commits /\ head \in Commits /\ Only(log, head)
  BY DEF IInv, Only
<1>2. Sound(HumanCheckpoint(log[head], disk)) /\ HumanCheckpoint(log[head], disk).dir = TRUE
  BY <1>1, HumanCheckpointDir
<1>3. \A t \in 0..newest : t \in Commits
  BY <1>1, RewriteHooksAssumption DEF Commits
<1>a. ASSUME NEW f \in Files, AgentEdit(f) PROVE IInv'
  <2>1. PICK before, l : /\ before = log[head] \/ before = Checkpointed(log[head], {f}, FALSE, disk)
                         /\ l = Checkpointed(before, {f}, TRUE, disk')
                         /\ log' = [log EXCEPT ![head] = l]
    BY <1>a DEF AgentEdit
  <2>2. Sound(l)
    BY <1>1, <2>1, CheckpointedDir
  <2>3. newest' = newest /\ head' = head
    BY <1>a DEF AgentEdit
  <2>4. QED
    BY <2>1, <2>2, <2>3, StaysInv
<1>b. ASSUME NEW f \in Files, HumanEdit(f) PROVE IInv'
  BY <1>b DEF HumanEdit, IInv
<1>c. ASSUME NEW F \in SUBSET Files, Commit(F) PROVE IInv'
  <2>1. PICK va : NewCommit(F, head) /\ Splits(va, disk, head', head, head)
    BY <1>c DEF Commit
  <2>2. QED
    BY <2>1, SplitsInv
<1>d. ASSUME NEW F \in SUBSET Files, Amend(F) PROVE IInv'
  <2>1. PICK va, content : NewCommit(F, parent[head]) /\ Splits(va, content, head', parent[head], head)
    BY <1>d DEF Amend
  <2>2. QED
    BY <2>1, SplitsInv
<1>e. ASSUME NEW t \in 0..newest, ResetHard(t) PROVE IInv'
  <2>1. newest' = newest /\ head' = t /\ log' = [log EXCEPT ![head] = NoLog]
    BY <1>e DEF ResetHard
  <2>2. Only(log', t)
    BY <1>1, <1>3, <2>1, Dropped
  <2>3. QED
    BY <2>1, <2>2, MovesInv
<1>f. ASSUME NEW t \in 0..newest, ResetBack(t) PROVE IInv'
  <2>1. PICK l, paths : log' = Reconstructed(l, t, paths)
    BY <1>f DEF ResetBack
  <2>2. Only(log', t)
    BY <1>3, <2>1, ReconstructedMoves
  <2>3. newest' = newest /\ head' = t
    BY <1>f DEF ResetBack
  <2>4. QED
    BY <2>2, <2>3, MovesInv
<1>g. ASSUME NEW t \in 0..newest, ResetForward(t) PROVE IInv'
  <2>1. log' = Renamed([log EXCEPT ![head] = HumanCheckpoint(log[head], disk)], head, t)
    BY <1>g DEF ResetForward
  <2>2. Only([log EXCEPT ![head] = HumanCheckpoint(log[head], disk)], head)
    BY <1>1, <1>2, Put
  <2>3. Only(log', t)
    BY <1>1, <1>3, <2>1, <2>2, RenamedMoves
  <2>4. newest' = newest /\ head' = t
    BY <1>g DEF ResetForward
  <2>5. QED
    BY <2>3, <2>4, MovesInv
<1>h. ASSUME NEW t \in 0..newest, ResetPathspecElsewhere(t) PROVE IInv'
  <2>1. /\ log' = [log EXCEPT ![head] = HumanCheckpoint(log[head], disk)]
        /\ newest' = newest /\ head' = head
    BY <1>h DEF ResetPathspecElsewhere, userVars
  <2>2. QED
    BY <1>2, <2>1, StaysInv
<1>i. ASSUME NEW P \in SUBSET Files \ {{}}, NEW t \in 0..newest, ResetPathspec(t, P) PROVE IInv'
  <2> DEFINE l == HumanCheckpoint(log[head], disk)
             paths == ResetPaths(t, P)
             kept == [NoLog EXCEPT !.dir = TRUE, !.seen = l.seen \ P, !.sure = l.sure \ P,
                                   !.byAI = l.byAI \ P, !.touched = l.touched \ P,
                                   !.content = [f \in Files |-> IF f \in P THEN {} ELSE l.content[f]],
                                   !.attr = [f \in Files |-> IF f \in P THEN {} ELSE l.attr[f]]]
  <2>1. log' = [Reconstructed(l, t, paths) EXCEPT ![t] = NoLog, ![head] = kept] /\ Sound(kept)
    <3>1. Sound(kept)
      BY DEF Sound, NoLog
    <3>2. log' = [Reconstructed(l, t, paths) EXCEPT ![t] = NoLog, ![head] = kept]
      BY <1>i, Zenon DEF ResetPathspec
    <3>3. QED
      BY <3>1, <3>2
  <2> HIDE DEF l, paths, kept
  <2>2. Only(Reconstructed(l, t, paths), t)
    BY <1>3, ReconstructedMoves
  <2>3. Only(log', head)
    BY <1>1, <1>3, <2>1, <2>2, Moved
  <2>4. newest' = newest /\ head' = head
    BY <1>i DEF ResetPathspec, userVars
  <2>5. QED
    BY <2>3, <2>4 DEF IInv
<1>j. ASSUME NEW P \in SUBSET Files \ {{}}, NEW bare \in BOOLEAN, StashPush(bare, P) PROVE IInv'
  <2>1. PICK S : log' = [log EXCEPT ![head] = Forgotten(BeforePush(bare), S)]
    BY <1>j DEF StashPush
  <2>2. newest' = newest /\ head' = head
    BY <1>j DEF StashPush
  <2>3. QED
    BY <1>1, <2>1, <2>2, PushDir, StaysInv
<1>r. ASSUME NEW P \in SUBSET Files \ {{}}, NEW bare \in BOOLEAN, StashNothing(bare, P) PROVE IInv'
  <2>1. PICK S : \/ log' = [log EXCEPT ![head] = Forgotten(BeforePush(bare), S)]
                 \/ log' = [log EXCEPT ![head] = BeforePush(bare)]
    BY <1>r DEF StashNothing
  <2>2. newest' = newest /\ head' = head
    BY <1>r DEF StashNothing
  <2>3. QED
    BY <1>1, <2>1, <2>2, PushDir, StaysInv
<1>k. ASSUME NEW P \in SUBSET Files \ {{}}, CheckoutPathspec(P) PROVE IInv'
  <2> DEFINE Without(r) == [f \in Files |-> IF f \in P THEN {} ELSE r[f]]
             l == [dir |-> TRUE, initial |-> Without(log[head].initial),
                   snap |-> Without(log[head].snap), content |-> Without(log[head].content),
                   attr |-> Without(log[head].attr), seen |-> log[head].seen \ P,
                   sure |-> log[head].sure \ P, byAI |-> log[head].byAI \ P,
                   touched |-> log[head].touched \ P]
  <2>1. log' = [log EXCEPT ![head] = l] /\ Sound(l)
    <3>1. Sound(l)
      BY DEF Sound
    <3>2. log' = [log EXCEPT ![head] = l]
      BY <1>k, Zenon DEF CheckoutPathspec
    <3>3. QED
      BY <3>1, <3>2
  <2> HIDE DEF l
  <2>2. newest' = newest /\ head' = head
    BY <1>k DEF CheckoutPathspec
  <2>3. QED
    BY <2>1, <2>2, StaysInv
<1>l. ASSUME NEW pop \in BOOLEAN, StashRestore(pop) PROVE IInv'
  <2>1. PICK l : /\ l = log[head] \/ l = WithInitial(log[head], stash.note, stash.content)
                 /\ log' = [log EXCEPT ![head] = l]
    BY <1>l DEF StashRestore
  <2>2. Sound(l)
    BY <1>1, <2>1, WithInitialDir
  <2>3. newest' = newest /\ head' = head
    BY <1>l DEF StashRestore
  <2>4. QED
    BY <2>1, <2>2, <2>3, StaysInv
<1>m. ASSUME NEW t \in 0..newest, Switch(t) PROVE IInv'
  <2>1. newest' = newest /\ head' = t /\ log' = Renamed(log, head, t)
    BY <1>m DEF Switch
  <2>2. Only(log', t)
    BY <1>1, <1>3, <2>1, RenamedMoves
  <2>3. QED
    BY <2>1, <2>2, MovesInv
<1>n. ASSUME NEW t \in 0..newest, SwitchForce(t) PROVE IInv'
  <2>1. newest' = newest /\ head' = t /\ log' = IF t = head THEN log ELSE [log EXCEPT ![head] = NoLog]
    BY <1>n DEF SwitchForce
  <2>2. Only(log', t)
    BY <1>1, <1>3, <2>1, Dropped
  <2>3. QED
    BY <2>1, <2>2, MovesInv
<1>o. ASSUME NEW t \in 0..newest, SwitchMerge(t) PROVE IInv'
  <2>1. newest' = newest /\ head' = t /\ t # head
    BY <1>o DEF SwitchMerge
  <2>2. \/ log' = Renamed(log, head, t)
        \/ \E l : Sound(l) /\ log' = [log EXCEPT ![head] = NoLog, ![t] = l]
    <3>1. log[t] = NoLog
      BY <1>1, <1>3, <2>1 DEF Only
    <3>2. Sound([NoLog EXCEPT !.dir = TRUE]) /\ \A x, y : Sound(WithInitial(NoLog, x, y))
      BY NoLogSound, WithInitialDir DEF Sound
    <3>3. PICK va, now, files :
            log' = IF files = {} THEN Renamed(log, head, t)
                   ELSE [log EXCEPT ![head] = NoLog,
                           ![t] = IF va = None THEN [@ EXCEPT !.dir = TRUE] ELSE WithInitial(@, va, now)]
      BY <1>o DEF SwitchMerge
    <3>4. QED
      BY <1>1, <1>3, <2>1, <3>1, <3>2, <3>3 DEF Only
  <2>3. Only(log', t)
    BY <1>1, <1>3, <2>2, RenamedMoves, Moved
  <2>4. QED
    BY <2>1, <2>3, MovesInv
<1>p. ASSUME UNCHANGED vars PROVE IInv'
  BY <1>p DEF vars, userVars, IInv
<1>q. QED
  BY <1>a, <1>b, <1>c, <1>d, <1>e, <1>f, <1>g, <1>h, <1>i, <1>j, <1>k, <1>l, <1>m, <1>n, <1>o, <1>p, <1>r
     DEF Next

\* Whatever commands the user runs, in whatever order: none leaves a working log
\* at a commit that HEAD is not at, which a later command would find there.
THEOREM OnlyHeadLogHolds == Spec => []OnlyHeadLog
<1>1. IInv => OnlyHeadLog
  BY DEF IInv, Only, OnlyHeadLog
<1>2. QED
  BY InitInv, NextInv, <1>1, PTL DEF Spec

(***************************************************************************)
(* Lines and their rows                                                    *)
(***************************************************************************)
LEMMA FiniteLines == IsFiniteSet(Lines)
<1> DEFINE T == {"ai", "human"} \X (0..(MaxAI + MaxHuman))
           m == [l \in Lines |-> <<l.by, l.n>>]
<1>1. IsFiniteSet({"ai", "human"}) /\ IsFiniteSet(0..(MaxAI + MaxHuman))
  <2>1. IsFiniteSet({"ai"} \cup {"human"})
    BY FS_AddElement, FS_Singleton
  <2>2. {"ai"} \cup {"human"} = {"ai", "human"}
    OBVIOUS
  <2>3. MaxAI + MaxHuman \in Nat
    BY RewriteHooksAssumption
  <2>4. IsFiniteSet(0..(MaxAI + MaxHuman))
    BY <2>3, FS_Interval
  <2>5. QED
    BY <2>1, <2>2, <2>4
<1>2. IsFiniteSet(T)
  BY <1>1, FS_Product
<1>3. m \in Injection(Lines, T)
  <2>1. m \in [Lines -> T]
    BY DEF Lines
  <2>2. \A k, l \in Lines : m[k] = m[l] => k = l
    BY DEF Lines
  <2>3. QED
    BY <2>1, <2>2 DEF Injection, IsInjective
<1>4. QED
  BY <1>2, <1>3, FS_Injection

\* No two lines of a file stand in one row.
LEMMA RowSame ==
  ASSUME NEW S \in SUBSET Lines, NEW l \in S, NEW m \in S, Row(S, l) = Row(S, m) PROVE l = m
<1> DEFINE U(k) == {x \in S : Place[x] <= Place[k]}
<1>0. \A k \in S : Place[k] \in Nat
  BY RewriteHooksAssumption
<1>1. ASSUME NEW k \in S PROVE U(k) \in SUBSET S /\ IsFiniteSet(U(k)) /\ k \in U(k)
  <2>1. U(k) \in SUBSET S /\ k \in U(k)
    BY <1>0
  <2> HIDE DEF U
  <2>2. U(k) \in SUBSET Lines
    BY <2>1
  <2>3. QED
    BY <2>1, <2>2, FiniteLines, FS_Subset
<1>2. Cardinality(U(l)) = Cardinality(U(m))
  BY DEF Row
<1>3. ASSUME NEW j \in S, NEW k \in S, Cardinality(U(j)) = Cardinality(U(k)), Place[j] <= Place[k]
      PROVE  Place[k] <= Place[j]
  <2>1. U(j) \in SUBSET U(k)
    BY <1>0, <1>3
  <2>2. U(j) = U(k)
    BY <1>1, <1>3, <2>1, FS_Subset
  <2>3. k \in U(j)
    BY <1>1, <2>2
  <2>4. QED
    BY <2>3
<1>4. Place[l] = Place[m]
  <2>1. Place[l] <= Place[m] \/ Place[m] <= Place[l]
    BY <1>0
  <2> HIDE DEF U
  <2>2. QED
    BY <1>0, <1>2, <1>3, <2>1
<1>5. QED
  BY <1>4, RewriteHooksAssumption

\* Attributions read against the content that they were made for stay as they are.
LEMMA ShownSame ==
  ASSUME NEW S \in SUBSET Lines, NEW attr
  PROVE  Shown(attr, S, S) = attr \cap S
<1>1. ASSUME NEW l \in S PROVE (\E m \in attr \cap S : Row(S, m) = Row(S, l)) <=> l \in attr
  BY RowSame
<1>2. QED
  BY <1>1 DEF Shown

LEMMA ShownNone == ASSUME NEW old, NEW new PROVE Shown({}, old, new) = {}
BY DEF Shown

(***************************************************************************)
(* History                                                                 *)
(***************************************************************************)
\* A commit is younger than its parent.
Repo ==
  /\ newest \in Commits /\ head \in 0..newest
  /\ parent = [c \in Commits |-> parent[c]] /\ parent[0] = 0
  /\ \A c \in 1..newest : parent[c] \in 0..(c - 1)
  /\ tree = [c \in Commits |-> tree[c]] /\ \A c \in Commits : tree[c] \in [Files -> SUBSET Lines]
  /\ \A f \in Files : AILines(tree[0][f]) = {}
  /\ disk \in [Files -> SUBSET Lines]

LEMMA ParentIs ==
  ASSUME Repo, NEW c \in 0..newest, c # 0
  PROVE  c \in 1..newest /\ parent[c] \in 0..newest /\ parent[c] < c
<1>1. newest \in Nat
  BY RewriteHooksAssumption DEF Repo, Commits
<1>2. c \in 1..newest
  BY <1>1
<1>3. parent[c] \in 0..(c - 1)
  BY <1>2 DEF Repo
<1>4. QED
  BY <1>1, <1>2, <1>3

\* The commits that parents lead to, as the least closed set.
Closed(S) == \A q \in S \ {0} : parent[q] \in S
Ancestors(c) == {p \in 0..newest : \A S \in SUBSET (0..newest) : c \in S /\ Closed(S) => p \in S}

LEMMA AncestorsStep ==
  ASSUME Repo, NEW c \in 0..newest
  PROVE  Ancestors(c) = IF c = 0 THEN {0} ELSE {c} \cup Ancestors(parent[c])
<1>0. newest \in Nat
  BY RewriteHooksAssumption DEF Repo, Commits
<1>1. CASE c = 0
  <2>1. Closed({0}) /\ {0} \in SUBSET (0..newest)
    BY <1>0 DEF Closed
  <2>2. Ancestors(c) \subseteq {0}
    BY <1>1, <2>1 DEF Ancestors
  <2>3. 0 \in Ancestors(c)
    BY <1>0, <1>1 DEF Ancestors
  <2>4. QED
    BY <1>1, <2>2, <2>3
<1>2. CASE c # 0
  <2>0. parent[c] \in 0..newest
    BY <1>2, ParentIs
  <2>1. c \in Ancestors(c)
    BY DEF Ancestors
  <2>2. Ancestors(parent[c]) \subseteq Ancestors(c)
    BY <1>2 DEF Ancestors, Closed
  <2>3. ASSUME NEW p \in Ancestors(c), p # c PROVE p \in Ancestors(parent[c])
    <3> SUFFICES ASSUME NEW S \in SUBSET (0..newest), parent[c] \in S, Closed(S), p \notin S PROVE FALSE
      BY DEF Ancestors
    <3>1. Closed(S \cup {c}) /\ S \cup {c} \in SUBSET (0..newest)
      BY DEF Closed
    <3>2. QED
      BY <2>3, <3>1 DEF Ancestors
  <2>4. QED
    BY <1>2, <2>1, <2>2, <2>3
<1>3. QED
  BY <1>1, <1>2

LEMMA HistoryIs ==
  ASSUME Repo
  PROVE  \A c \in 0..newest : History[c] = IF c = 0 THEN {0} ELSE {c} \cup History[parent[c]]
<1> DEFINE Is(H) == H = [c \in 0..newest |-> IF c = 0 THEN {0} ELSE {c} \cup H[parent[c]]]
           G == [c \in 0..newest |-> Ancestors(c)]
<1>0. newest \in Nat
  BY RewriteHooksAssumption DEF Repo, Commits
<1>1. Is(G)
  <2>1. ASSUME NEW c \in 0..newest PROVE G[c] = IF c = 0 THEN {0} ELSE {c} \cup G[parent[c]]
    <3>1. c # 0 => parent[c] \in 0..newest
      BY ParentIs
    <3>2. QED
      BY <3>1, AncestorsStep
  <2>2. QED
    BY <2>1
<1>2. History = CHOOSE H : Is(H)
  BY DEF History
<1>3. Is(History)
  <2> HIDE DEF Is
  <2>1. QED
    BY <1>1, <1>2
<1>4. QED
  BY <1>3

\* A set of numbers has a least one (by the well-founded order of the library).
LEMMA LeastNatural ==
  ASSUME NEW S \in SUBSET Nat, S # {}
  PROVE  \E n \in S : \A m \in S : n <= m
<1> DEFINE T == {1..n : n \in S}
<1>1. T \subseteq FiniteSubsetsOf(Nat) /\ T # {}
  <2>1. \A n \in S : IsFiniteSet(1..n) /\ 1..n \in SUBSET Nat
    BY FS_Interval
  <2>2. QED
    BY <2>1 DEF FiniteSubsetsOf
<1>2. PICK x \in T : \A y \in T : <<y, x>> \notin StrictSubsetOrdering(Nat)
  <2> HIDE DEF T
  <2>1. QED
    BY <1>1, FS_StrictSubsetOrderingWellFounded, WFMin
<1>3. PICK n \in S : x = 1..n
  OBVIOUS
<1>4. ASSUME NEW m \in S, m < n PROVE FALSE
  <2>1. 1..m \in T /\ 1..m \subseteq 1..n /\ n \in 1..n /\ n \notin 1..m
    BY <1>4
  <2>2. <<1..m, x>> \in StrictSubsetOrdering(Nat)
    BY <2>1, <1>3 DEF StrictSubsetOrdering
  <2>3. QED
    BY <2>1, <2>2, <1>2
<1>5. QED
  BY <1>4

LEMMA GreatestNatural ==
  ASSUME NEW n \in Nat, NEW S \in SUBSET (0..n), S # {}
  PROVE  \E m \in S : \A k \in S : k <= m
<1> DEFINE T == {n - k : k \in S}
<1>1. T \in SUBSET Nat /\ T # {}
  <2>1. \A k \in S : n - k \in Nat
    OBVIOUS
  <2>2. QED
    BY <2>1
<1>2. PICK t \in T : \A u \in T : t <= u
  <2> HIDE DEF T
  <2>1. QED
    BY <1>1, LeastNatural
<1>3. PICK m \in S : t = n - m
  OBVIOUS
<1>4. \A k \in S : n - m <= n - k
  BY <1>2, <1>3
<1>5. QED
  BY <1>4

\* Histories are of older commits, and closed.
LEMMA HistoryHas ==
  ASSUME Repo
  PROVE  \A c \in 0..newest :
           /\ c \in History[c]
           /\ \A p \in History[c] : p \in 0..newest /\ p <= c /\ (p # 0 => parent[p] \in History[c])
<1> DEFINE Good(c) == c \in History[c] /\ \A p \in History[c] : p \in 0..newest /\ p <= c /\ (p # 0 => parent[p] \in History[c])
           S == {c \in 0..newest : ~Good(c)}
<1> SUFFICES ASSUME S # {} PROVE FALSE
  OBVIOUS
<1>0. newest \in Nat
  BY RewriteHooksAssumption DEF Repo, Commits
<1>1. PICK c \in S : \A m \in S : c <= m
  <2>1. S \in SUBSET Nat
    BY <1>0
  <2> HIDE DEF S
  <2>2. QED
    BY <2>1, LeastNatural
<1>2. c # 0
  <2>1. 0 \in 0..newest => History[0] = {0}
    BY HistoryIs
  <2>2. QED
    BY <1>0, <2>1
<1>3. parent[c] \in 0..newest /\ parent[c] < c
  BY <1>2, ParentIs
<1>4. Good(parent[c])
  <2>1. parent[c] \notin S
    BY <1>0, <1>1, <1>3
  <2>2. QED
    BY <1>3, <2>1
<1>5. History[c] = {c} \cup History[parent[c]]
  BY <1>2, HistoryIs
<1>6. Good(c)
  BY <1>0, <1>3, <1>4, <1>5
<1>7. QED
  BY <1>6

(***************************************************************************)
(* Blame                                                                   *)
(***************************************************************************)
Brought(x, f, p) == x \in tree[p][f] /\ (p = 0 \/ x \notin tree[parent[p]][f])

\* What commit c has and its ancestor t has not, a younger one brought.
LEMMA Younger ==
  ASSUME Repo, NEW c \in 0..newest, NEW t \in History[c], NEW f \in Files, NEW x \in tree[c][f],
         x \notin tree[t][f]
  PROVE  \E q \in History[c] : Brought(x, f, q) /\ t < q
<1> DEFINE S == {q \in History[c] : t \in History[q] /\ x \in tree[q][f]}
<1>0. newest \in Nat
  BY RewriteHooksAssumption DEF Repo, Commits
<1>1. \A q \in History[c] : q \in 0..newest
  BY HistoryHas
<1>2. S \in SUBSET Nat /\ c \in S
  BY <1>0, <1>1, HistoryHas
<1>3. PICK q \in S : \A m \in S : q <= m
  <2> HIDE DEF S
  <2>1. QED
    BY <1>2, LeastNatural
<1>4. q \in 0..newest /\ t \in History[q] /\ q # t
  BY <1>1, <1>3
<1>5. t <= q /\ t \in 0..newest
  BY <1>4, HistoryHas
<1>6. q # 0
  BY <1>0, <1>4, <1>5
<1>7. parent[q] \in 0..newest /\ parent[q] < q /\ parent[q] \in History[c]
  BY <1>3, <1>4, <1>6, ParentIs, HistoryHas
<1>8. t \in History[parent[q]]
  BY <1>4, <1>6, HistoryIs
<1>9. x \notin tree[parent[q]][f]
  <2>1. parent[q] \notin S
    BY <1>0, <1>3, <1>4, <1>7
  <2>2. QED
    BY <1>7, <1>8, <2>1
<1>10. QED
  BY <1>0, <1>3, <1>4, <1>5, <1>9 DEF Brought

LEMMA OriginIs ==
  ASSUME Repo, NEW c \in 0..newest, NEW f \in Files, NEW x \in tree[c][f]
  PROVE  /\ Origin(x, f, c) \in History[c] /\ Brought(x, f, Origin(x, f, c))
         /\ \A p \in History[c] : Brought(x, f, p) => p <= Origin(x, f, c)
<1> DEFINE S == {p \in History[c] : Brought(x, f, p)}
           Last(o) == Brought(x, f, o) /\ \A p \in History[c] : Brought(x, f, p) => p <= o
<1>0. newest \in Nat
  BY RewriteHooksAssumption DEF Repo, Commits
<1>1. S \in SUBSET (0..newest)
  BY HistoryHas
<1>2. S # {}
  <2>1. 0 \in History[c]
    <3>1. \A q \in History[c] : q \in Nat
      BY <1>0, HistoryHas
    <3>2. PICK q \in History[c] : \A m \in History[c] : q <= m
      BY <3>1, HistoryHas, LeastNatural
    <3>3. q # 0 => parent[q] \in History[c] /\ parent[q] < q /\ parent[q] \in Nat
      BY <3>1, HistoryHas, ParentIs
    <3>4. QED
      BY <3>1, <3>2, <3>3
  <2>2. CASE x \in tree[0][f]
    BY <2>1, <2>2 DEF Brought
  <2>3. CASE x \notin tree[0][f]
    BY <2>1, <2>3, Younger
  <2>4. QED
    BY <2>2, <2>3
<1>3. PICK o \in S : \A p \in S : p <= o
  <2> HIDE DEF S
  <2>1. QED
    BY <1>0, <1>1, <1>2, GreatestNatural
<1>4. o \in History[c] /\ Last(o)
  BY <1>3
<1>5. Origin(x, f, c) = CHOOSE p \in History[c] : Last(p)
  BY DEF Origin, Brought
<1>6. QED
  <2> HIDE DEF Last
  <2>1. Origin(x, f, c) \in History[c] /\ Last(Origin(x, f, c))
    BY <1>4, <1>5
  <2>2. QED
    BY <2>1 DEF Last

(***************************************************************************)
(* What neither a log nor a commit knows                                   *)
(***************************************************************************)
OfAI(S) == \A x \in S : x.by = "ai"

LEMMA UnrecordedIs ==
  ASSUME NEW l, NEW now, NEW base, NEW S, NEW f \in S, NEW x \in now[f], x.by = "ai", x \notin base[f]
  PROVE  x \in Recorded(l, f) \/ x \in Unrecorded(l, now, base, S)
<1> DEFINE T == {AILines(now[g] \ base[g]) \ Recorded(l, g) : g \in S}
           U == AILines(now[f] \ base[f]) \ Recorded(l, f)
<1>1. U \in T
  BY Zenon
<1>2. x \in AILines(now[f] \ base[f])
  BY DEF AILines
<1>3. Unrecorded(l, now, base, S) = UNION T
  BY DEF Unrecorded
<1> HIDE DEF T
<1>4. QED
  BY <1>1, <1>2, <1>3

LEMMA UnrecordedOnly ==
  ASSUME NEW l, NEW now, NEW base, NEW S, NEW x \in Unrecorded(l, now, base, S)
  PROVE  \E f \in S : x \in now[f] /\ x.by = "ai" /\ x \notin base[f] /\ x \notin Recorded(l, f)
<1> DEFINE T == {AILines(now[g] \ base[g]) \ Recorded(l, g) : g \in S}
<1>1. x \in UNION T
  BY DEF Unrecorded
<1>2. PICK U \in T : x \in U
  BY <1>1
<1>3. PICK f \in S : U = AILines(now[f] \ base[f]) \ Recorded(l, f)
  BY <1>2, Zenon
<1>4. QED
  BY <1>2, <1>3 DEF AILines

(***************************************************************************)
(* What blame says                                                         *)
(***************************************************************************)
LEMMA BlameHas ==
  ASSUME Repo, NoteComplete, NEW c \in 0..newest, NEW f \in Files, NEW x \in tree[c][f],
         x.by = "ai", x \notin lost, NEW from, Origin(x, f, c) \notin History[from] \ {from}
  PROVE  x \in Blame(c, f, from)
<1> DEFINE o == Origin(x, f, c)
<1>1. o \in 0..newest /\ Brought(x, f, o)
  BY OriginIs, HistoryHas
<1> HIDE DEF o
<1>2. x \in tree[o][f]
  BY <1>1 DEF Brought
<1>3. o # 0
  BY <1>2 DEF Repo, AILines
<1>4. o \in 1..newest
  BY <1>1, <1>3, ParentIs
<1>5. x \in AILines(tree[o][f] \ tree[parent[o]][f])
  BY <1>1, <1>2, <1>3 DEF Brought, AILines
<1>6. x \in notes[o][f]
  BY <1>4, <1>5 DEF NoteComplete
<1>7. QED
  BY <1>6 DEF Blame, o

\* Of the whole history, all that is not lost.
LEMMA BlameAll ==
  ASSUME Repo, NoteComplete, NEW c \in 0..newest, NEW f \in Files, NEW x \in tree[c][f],
         x.by = "ai", x \notin lost
  PROVE  x \in Blame(c, f, 0)
<1>1. History[0] \ {0} = {}
  <2>1. 0 \in 0..newest
    BY RewriteHooksAssumption DEF Repo, Commits
  <2>2. QED
    BY <2>1, HistoryIs
<1>2. QED
  BY <1>1, BlameHas

\* Of the commits after an ancestor, what the ancestor does not have.
LEMMA BlameSince ==
  ASSUME Repo, NoteComplete, NEW c \in 0..newest, NEW t \in History[c], NEW f \in Files,
         NEW x \in tree[c][f], x \notin tree[t][f], x.by = "ai", x \notin lost
  PROVE  x \in Blame(c, f, t)
<1>1. PICK q \in History[c] : Brought(x, f, q) /\ t < q
  BY Younger
<1>2. newest \in Nat
  BY RewriteHooksAssumption DEF Repo, Commits
<1>3. q <= Origin(x, f, c) /\ Origin(x, f, c) \in 0..newest /\ t \in 0..newest /\ q \in 0..newest
  BY <1>1, OriginIs, HistoryHas
<1>4. Origin(x, f, c) \notin History[t]
  BY <1>1, <1>2, <1>3, HistoryHas
<1>5. QED
  BY <1>4, BlameHas

LEMMA BlameNames ==
  ASSUME Repo, NEW c \in 0..newest, NEW f \in Files, \A o \in Commits : OfAI(notes[o][f]), NEW from
  PROVE  OfAI(Blame(c, f, from)) /\ Blame(c, f, from) \subseteq tree[c][f]
<1>1. ASSUME NEW x \in Blame(c, f, from) PROVE x.by = "ai" /\ x \in tree[c][f]
  <2>1. x \in tree[c][f] /\ x \in notes[Origin(x, f, c)][f]
    BY DEF Blame
  <2>2. Origin(x, f, c) \in 0..newest
    BY <2>1, OriginIs, HistoryHas
  <2>3. Origin(x, f, c) \in Commits
    BY <2>2, RewriteHooksAssumption DEF Repo, Commits
  <2>4. QED
    BY <2>1, <2>3 DEF OfAI
<1>2. QED
  BY <1>1 DEF OfAI

(***************************************************************************)
(* What is in a log                                                        *)
(***************************************************************************)
Fields == {"dir", "initial", "snap", "content", "attr", "seen", "sure", "byAI", "touched"}
\* Every entry says who wrote its lines; a file with attributions counts as touched.
Shape(l) ==
  /\ Fields \subseteq DOMAIN l
  /\ l.seen = l.sure
  /\ \A f \in Files : l.attr[f] # {} => f \in l.touched
\* What is recorded is the agent's.
LogNames(l, f) == OfAI(l.attr[f]) /\ OfAI(l.initial[f])

LEMMA NoLogIs ==
  /\ Shape(NoLog) /\ NoLog.seen = {} /\ NoLog.sure = {} /\ NoLog.byAI = {} /\ NoLog.touched = {}
  /\ \A f \in Files : NoLog.attr[f] = {} /\ NoLog.initial[f] = {} /\ Recorded(NoLog, f) = {} /\ LogNames(NoLog, f)
<1> DEFINE no == FALSE
           l == [dir |-> no, initial |-> None, snap |-> None, content |-> None, attr |-> None,
                 seen |-> {}, sure |-> {}, byAI |-> {}, touched |-> {}]
<1>1. NoLog = l
  BY DEF NoLog
<1>2. \A f \in Files : None[f] = {}
  BY DEF None
<1> HIDE DEF no
<1>3. Fields \subseteq DOMAIN l
  BY DEF Fields
<1>4. QED
  BY <1>1, <1>2, <1>3 DEF Shape, Recorded, LogNames, OfAI

LEMMA WithInitialIs ==
  ASSUME NEW l, Shape(l), NEW i, NEW c
  PROVE  /\ Shape(WithInitial(l, i, c)) /\ WithInitial(l, i, c).initial = i
         /\ WithInitial(l, i, c).sure = l.sure /\ WithInitial(l, i, c).attr = l.attr
         /\ WithInitial(l, i, c).seen = l.seen /\ WithInitial(l, i, c).byAI = l.byAI
BY DEF Shape, Fields, WithInitial

\* What is in the log after a checkpoint.
After(l, S, byAI, now, c) ==
  /\ Fields \subseteq DOMAIN c /\ c.initial = l.initial /\ c.snap = l.snap
  /\ c.seen = l.seen \cup S /\ c.byAI = l.byAI \cup (IF byAI THEN S ELSE {})
  /\ \A f : f \in c.sure <=> f \in l.sure \/ (f \in S /\ (byAI \/ Touched(l, f)))
  /\ \A f \in Files \ S : c.attr[f] = l.attr[f] /\ c.content[f] = l.content[f]
  /\ \A f \in S : /\ c.content[f] = now[f]
                  /\ c.attr[f] = (Previous(l, f).attr \cap now[f])
                       \cup (IF byAI THEN now[f] \ Previous(l, f).content ELSE {})
  /\ \A f \in Files : f \in c.touched <=> f \in l.touched \/ (f \in S /\ (byAI \/ c.attr[f] # {}))

LEMMA CheckpointedIs ==
  ASSUME NEW l, Fields \subseteq DOMAIN l, NEW S \in SUBSET Files, NEW byAI, byAI \in BOOLEAN, NEW now
  PROVE  After(l, S, byAI, now, Checkpointed(l, S, byAI, now))
<1> DEFINE attr == [f \in Files |->
             IF f \notin S THEN l.attr[f]
             ELSE (Previous(l, f).attr \cap now[f])
                    \cup (IF byAI THEN now[f] \ Previous(l, f).content ELSE {})]
           says == {f \in S : byAI \/ Touched(l, f)}
           content == [f \in Files |-> IF f \in S THEN now[f] ELSE l.content[f]]
           more == IF byAI THEN S ELSE {}
           new == {f \in S : byAI \/ attr[f] # {}}
           c == Checkpointed(l, S, byAI, now)
<1>1. c = [l EXCEPT !.dir = TRUE, !.seen = @ \cup S, !.sure = @ \cup says, !.attr = attr,
                    !.content = content, !.byAI = @ \cup more, !.touched = @ \cup new]
  <2>1. [f \in Files |-> IF f \in S THEN now[f] ELSE l.content[f]] = content
    OBVIOUS
  <2>2. QED
    BY <2>1, Zenon DEF Checkpointed
<1>2. \A f \in Files : attr[f] = IF f \notin S THEN l.attr[f]
             ELSE (Previous(l, f).attr \cap now[f])
                    \cup (IF byAI THEN now[f] \ Previous(l, f).content ELSE {})
  OBVIOUS
<1>3. \A f \in Files : content[f] = IF f \in S THEN now[f] ELSE l.content[f]
  OBVIOUS
<1>4. \A f \in Files : f \in new <=> f \in S /\ (byAI \/ attr[f] # {})
  OBVIOUS
<1> HIDE DEF attr, content, says, more, new, c
<1>5. /\ Fields \subseteq DOMAIN c /\ c.initial = l.initial /\ c.snap = l.snap
      /\ c.seen = l.seen \cup S /\ c.byAI = l.byAI \cup more /\ c.sure = l.sure \cup says
      /\ c.attr = attr /\ c.content = content /\ c.touched = l.touched \cup new
  BY <1>1 DEF Fields
<1>6. QED
  BY <1>2, <1>3, <1>4, <1>5 DEF says, more, c, After

\* What the last word on a file is.
LEMMA PreviousIs ==
  ASSUME NEW l, Shape(l), NEW f \in Files
  PROVE  Previous(l, f).attr = Recorded(l, f) /\ (Recorded(l, f) # {} => Touched(l, f))
BY DEF Shape, Previous, Recorded, Touched

(***************************************************************************)
(* The human checkpoint with which commands begin                          *)
(***************************************************************************)
\* What a command reads of a file, if not shifted, is what is recorded of it.
Reads(l, f) == Attributed(l, f, disk) = Recorded(l, f) \cap disk[f]

LEMMA ReadsWhereMade ==
  ASSUME Repo, NEW l, NEW f \in Files, Recorded(l, f) = {} \/ MadeFor(l, f) = disk[f]
  PROVE  Reads(l, f)
<1>1. CASE Recorded(l, f) = {}
  BY <1>1, ShownNone DEF Reads, Attributed
<1>2. CASE MadeFor(l, f) = disk[f]
  <2>1. disk[f] \in SUBSET Lines
    BY DEF Repo
  <2>2. QED
    BY <1>2, <2>1, ShownSame DEF Reads, Attributed
<1>3. QED
  BY <1>1, <1>2

\* A human checkpoint forgets no line that is there, and makes what is recorded of every
\* file that it does not pass over fit the file.
LEMMA HumanCheckpointIs ==
  ASSUME Repo, NEW l, Shape(l), NEW h, h = HumanCheckpoint(l, disk)
  PROVE  /\ Shape(h) /\ h.initial = l.initial /\ l.sure \subseteq h.sure
         /\ \A f \in Files : /\ Recorded(h, f) \cap disk[f] = Recorded(l, f) \cap disk[f]
                             /\ Recorded(h, f) \subseteq Recorded(l, f)
                             /\ h.attr[f] \subseteq l.attr[f] \cup l.initial[f]
                             /\ Recorded(h, f) # {} => Touched(h, f)
                             /\ f \in PassedOver(h) \/ Reads(h, f)
<1>1. CASE Skipped(l)
  <2>1. h = [l EXCEPT !.dir = TRUE]
    BY <1>1 DEF HumanCheckpoint
  <2>2. /\ Fields \subseteq DOMAIN h /\ h.initial = l.initial /\ h.sure = l.sure /\ h.seen = l.seen
        /\ h.attr = l.attr /\ h.touched = l.touched /\ h.byAI = l.byAI
    BY <2>1 DEF Shape, Fields
  <2>3. Shape(h)
    BY <2>2 DEF Shape
  <2>4. Skipped(h)
    BY <1>1, <2>2 DEF Skipped
  <2>5. \A f \in Files : f \in PassedOver(h)
    BY <2>4 DEF PassedOver
  <2>6. \A f \in Files : Recorded(h, f) = Recorded(l, f)
    BY <2>2 DEF Recorded
  <2>7. QED
    BY <2>2, <2>3, <2>5, <2>6, PreviousIs
<1>2. CASE ~Skipped(l)
  <2> DEFINE S == {f \in Files : Touched(l, f) /\ disk[f] # tree[head][f] /\ HasNews(l, f, disk)}
  <2>0. \A f \in Files : f \in S <=> Touched(l, f) /\ disk[f] # tree[head][f] /\ HasNews(l, f, disk)
    OBVIOUS
  <2>a. S \in SUBSET Files
    OBVIOUS
  <2>b. h = Checkpointed(l, S, FALSE, disk)
    BY <1>2 DEF HumanCheckpoint
  <2> HIDE DEF S
  <2> DEFINE no == FALSE
  <2>c. Fields \subseteq DOMAIN l
    BY DEF Shape
  <2>d. h = Checkpointed(l, S, no, disk) /\ no \in BOOLEAN /\ ~no
    BY <2>b
  <2> HIDE DEF no
  <2>1. /\ Fields \subseteq DOMAIN h /\ h.initial = l.initial /\ h.snap = l.snap
        /\ h.seen = l.seen \cup S /\ h.byAI = l.byAI
        /\ h.sure = l.sure \cup S
        /\ \A f \in Files \ S : h.attr[f] = l.attr[f] /\ h.content[f] = l.content[f]
        /\ \A f \in S : h.content[f] = disk[f] /\ h.attr[f] = Previous(l, f).attr \cap disk[f]
        /\ \A f \in Files : f \in h.touched <=> f \in l.touched \/ (f \in S /\ h.attr[f] # {})
    <3>0. After(l, S, no, disk, h)
      BY <2>a, <2>c, <2>d, CheckpointedIs
    <3>1. /\ Fields \subseteq DOMAIN h /\ h.initial = l.initial /\ h.snap = l.snap
          /\ h.seen = l.seen \cup S /\ h.byAI = l.byAI
          /\ \A f : f \in h.sure <=> f \in l.sure \/ (f \in S /\ Touched(l, f))
          /\ \A f \in Files \ S : h.attr[f] = l.attr[f] /\ h.content[f] = l.content[f]
          /\ \A f \in S : h.content[f] = disk[f] /\ h.attr[f] = Previous(l, f).attr \cap disk[f]
          /\ \A f \in Files : f \in h.touched <=> f \in l.touched \/ (f \in S /\ h.attr[f] # {})
      BY <2>d, <3>0 DEF After
    <3>2. QED
      <4>1. \A f : f \in h.sure <=> f \in l.sure \/ f \in S
        BY <2>0, <2>a, <2>d, <3>1
      <4>2. h.sure = l.sure \cup S
        BY <4>1
      <4>3. QED
        BY <2>d, <3>1, <4>2
  <2>3. Shape(h)
    BY <2>1 DEF Shape
  <2>4. h.sure = l.sure \cup S /\ h.seen = h.sure /\ l.seen = l.sure
    BY <2>1 DEF Shape
  <2>5. ASSUME NEW f \in Files PROVE
          /\ Recorded(h, f) \cap disk[f] = Recorded(l, f) \cap disk[f]
          /\ Recorded(h, f) \subseteq Recorded(l, f)
          /\ h.attr[f] \subseteq l.attr[f] \cup l.initial[f]
    <3>1. Recorded(l, f) = l.attr[f] \/ Recorded(l, f) = l.initial[f]
      BY DEF Recorded
    <3>2. CASE f \in S
      <4>1. Recorded(h, f) = h.attr[f] /\ h.attr[f] = Recorded(l, f) \cap disk[f]
        BY <2>1, <2>4, <3>2, PreviousIs DEF Recorded
      <4>2. QED
        BY <3>1, <4>1
    <3>3. CASE f \notin S
      <4>1. Recorded(h, f) = Recorded(l, f) /\ h.attr[f] = l.attr[f]
        BY <2>1, <2>4, <3>3 DEF Recorded
      <4>2. QED
        BY <4>1
    <3>4. QED
      BY <3>2, <3>3
  <2>6. ~Skipped(h)
    BY <1>2, <2>1 DEF Skipped
  <2>7. ASSUME NEW f \in Files, disk[f] # tree[head][f] PROVE Recorded(h, f) = {} \/ MadeFor(h, f) = disk[f]
    <3>1. CASE f \in S
      BY <2>1, <2>4, <3>1 DEF MadeFor
    <3>2. CASE f \notin S /\ Touched(l, f)
      <4>1. ~HasNews(l, f, disk)
        BY <2>0, <2>7, <3>2
      <4>2. CASE f \in l.seen
        <5>1. Previous(l, f).content = l.content[f]
          BY <4>2 DEF Previous
        <5>2. QED
          BY <2>1, <2>4, <3>2, <4>1, <4>2, <5>1 DEF HasNews, MadeFor
      <4>3. CASE f \notin l.seen
        BY <2>1, <2>4, <3>2, <4>1, <4>3 DEF HasNews, Recorded
      <4>4. QED
        BY <4>2, <4>3
    <3>3. CASE ~Touched(l, f)
      <4>1. Recorded(l, f) = {}
        BY <3>3, PreviousIs
      <4>2. QED
        BY <2>5, <4>1
    <3>4. QED
      BY <3>1, <3>2, <3>3
  <2>8. \A f \in Files : f \in PassedOver(h) \/ Reads(h, f)
    BY <2>6, <2>7, ReadsWhereMade DEF PassedOver
  <2>9. \A f \in Files : Recorded(h, f) # {} => Touched(h, f)
    BY <2>3, PreviousIs
  <2>10. QED
    BY <2>1, <2>3, <2>4, <2>5, <2>8, <2>9
<1>3. QED
  BY <1>1, <1>2

\* Of the files that are marked, what is not read as it is recorded is misread and lost.
LEMMA MarksSay ==
  ASSUME NEW l, NEW S, NEW base, NEW dropped, Marks(l, S, disk, base, dropped)
  PROVE  /\ misread \subseteq misread' /\ lost \subseteq lost' /\ dropped \subseteq lost'
         /\ \A f \in Files : f \in S \/ Reads(l, f) =>
              /\ f \in misread' \/ Reads(l, f)
              /\ \A x \in Recorded(l, f) : x \in disk[f] /\ x.by = "ai" /\ x \notin base[f] /\ x \notin lost'
                   => x \in Attributed(l, f, disk)
<1> DEFINE shifted == {f \in S : Shifts(l, f, disk)}
           T == {AILines(disk[f] \ base[f]) \ Attributed(l, f, disk) : f \in shifted}
<1>1. misread' = misread \cup shifted /\ lost' = lost \cup dropped \cup UNION T
  BY Zenon DEF Marks
<1>2. ASSUME NEW f \in Files, f \in S \/ Reads(l, f)
      PROVE  /\ f \in misread' \/ Reads(l, f)
             /\ \A x \in Recorded(l, f) : x \in disk[f] /\ x.by = "ai" /\ x \notin base[f] /\ x \notin lost'
                  => x \in Attributed(l, f, disk)
  <2>1. CASE Reads(l, f)
    BY <2>1 DEF Reads
  <2>2. CASE ~Reads(l, f)
    <3>1. f \in shifted
      BY <1>2, <2>2 DEF Reads, Shifts
    <3>2. AILines(disk[f] \ base[f]) \ Attributed(l, f, disk) \in T
      BY <3>1, Zenon
    <3> HIDE DEF T, shifted
    <3>3. \A x \in disk[f] : x.by = "ai" /\ x \notin base[f] => x \in AILines(disk[f] \ base[f])
      BY DEF AILines
    <3>4. QED
      BY <1>1, <3>1, <3>2, <3>3
  <2>3. QED
    BY <2>1, <2>2
<1>3. QED
  BY <1>1, <1>2

(***************************************************************************)
(* The invariant: who is told of a line, and who is named                  *)
(***************************************************************************)
StashOK == /\ {"on", "base", "content", "note"} \subseteq DOMAIN stash
           /\ stash.base \in 0..newest /\ stash.content \in [Files -> SUBSET Lines]

\* Where nothing was misread, nobody records a line of the user.
Named == \A f \in Files \ misread :
  LogNames(log[head], f) /\ OfAI(stash.note[f]) /\ \A c \in Commits : OfAI(notes[c][f])

Content ==
  /\ Repo /\ StashOK /\ Shape(log[head]) /\ notes = [c \in Commits |-> notes[c]]
  /\ Named /\ NoteComplete /\ UncommittedKnown /\ StashKnown

\* UncommittedKnown, line by line.
Told(l, now, base, gone) ==
  \A f \in Files : \A x \in now[f] :
    x.by = "ai" /\ x \notin base[f] /\ x \notin gone => x \in Recorded(l, f)

LEMMA ToldIs ==
  ASSUME NEW l, NEW now, NEW base, NEW gone
  PROVE  Told(l, now, base, gone) <=> Unrecorded(l, now, base, Files) \subseteq gone
<1>1. ASSUME Told(l, now, base, gone) PROVE Unrecorded(l, now, base, Files) \subseteq gone
  BY <1>1, UnrecordedOnly DEF Told
<1>2. ASSUME Unrecorded(l, now, base, Files) \subseteq gone PROVE Told(l, now, base, gone)
  BY <1>2, UnrecordedIs DEF Told
<1>3. QED
  BY <1>1, <1>2

LEMMA Settle ==
  ASSUME Repo', StashOK', StashKnown', NoteComplete', notes' = [c \in Commits |-> notes'[c]],
         NEW l, log'[head'] = l, Shape(l),
         \A f \in Files \ misread' : LogNames(l, f),
         \A f \in Files \ misread' : OfAI(stash'.note[f]),
         \A f \in Files \ misread' : \A c \in Commits : OfAI(notes'[c][f]),
         Told(l, disk', tree'[head'], lost')
  PROVE  Content'
<1>1. Unrecorded(l, disk', tree'[head'], Files) \subseteq lost'
  BY ToldIs
<1>2. UncommittedKnown'
  BY <1>1 DEF UncommittedKnown
<1>3. Named'
  BY DEF Named
<1>4. Shape(log[head])'
  BY DEF Shape
<1>5. QED
  BY <1>2, <1>3, <1>4 DEF Content

LEMMA RepoSame ==
  ASSUME Repo, UNCHANGED <<newest, parent, tree>>, head' \in 0..newest, disk' \in [Files -> SUBSET Lines]
  PROVE  Repo'
BY DEF Repo

LEMMA NotesSame ==
  ASSUME Content, UNCHANGED <<newest, parent, tree, notes>>, misread \subseteq misread', lost \subseteq lost'
  PROVE  /\ NoteComplete' /\ notes' = [c \in Commits |-> notes'[c]]
         /\ \A f \in Files \ misread' : \A c \in Commits : OfAI(notes'[c][f])
<1>1. NoteComplete'
  BY DEF Content, NoteComplete
<1>2. QED
  BY <1>1 DEF Content, Named

LEMMA StashSame ==
  ASSUME Content, stash' = stash, newest' \in Nat, newest <= newest', \A c \in 0..newest : tree'[c] = tree[c],
         misread \subseteq misread', lost \subseteq lost'
  PROVE  StashOK' /\ StashKnown' /\ \A f \in Files \ misread' : OfAI(stash'.note[f])
<1>0. newest \in Nat
  BY RewriteHooksAssumption DEF Content, Repo, Commits
<1>1. StashOK'
  BY <1>0 DEF Content, StashOK
<1>2. StashKnown'
  BY DEF Content, StashKnown, StashOK
<1>3. QED
  BY <1>1, <1>2 DEF Content, Named

LEMMA LogStep ==
  ASSUME Content, UNCHANGED <<newest, parent, tree, notes, stash>>, head' \in 0..newest,
         disk' \in [Files -> SUBSET Lines], misread \subseteq misread', lost \subseteq lost',
         NEW l, log'[head'] = l, Shape(l), \A f \in Files \ misread' : LogNames(l, f),
         Told(l, disk', tree[head'], lost')
  PROVE  Content'
<1>1. Repo'
  BY RepoSame DEF Content
<1>2. newest' \in Nat /\ newest <= newest'
  BY RewriteHooksAssumption DEF Content, Repo, Commits
<1>3. StashOK' /\ StashKnown' /\ \A f \in Files \ misread' : OfAI(stash'.note[f])
  BY <1>2, StashSame
<1>4. QED
  BY <1>1, <1>3, NotesSame, Settle

\* What the invariant says of HEAD's log, line by line.
LEMMA LogIs ==
  ASSUME Content, IInv
  PROVE  /\ Repo /\ Shape(log[head]) /\ head \in Commits /\ newest \in Commits /\ newest \in Nat /\ head \in 0..newest
         /\ 0..newest \subseteq Commits
         /\ Told(log[head], disk, tree[head], lost)
         /\ \A f \in Files \ misread : LogNames(log[head], f) /\ OfAI(Recorded(log[head], f))
         /\ disk \in [Files -> SUBSET Lines] /\ \A c \in Commits : tree[c] \in [Files -> SUBSET Lines]
<1>1. newest \in Commits /\ newest \in Nat /\ head \in 0..newest /\ 0..newest \subseteq Commits
  BY RewriteHooksAssumption DEF Content, Repo, Commits
<1>2. Told(log[head], disk, tree[head], lost)
  BY ToldIs DEF Content, UncommittedKnown
<1>3. \A f \in Files \ misread : LogNames(log[head], f) /\ OfAI(Recorded(log[head], f))
  BY DEF Content, Named, LogNames, Recorded
<1>4. QED
  BY <1>1, <1>2, <1>3 DEF Content, Repo

\* The human checkpoint with which a command begins.
LEMMA Begins ==
  ASSUME Content, IInv, NEW h, h = HumanCheckpoint(log[head], disk)
  PROVE  /\ Shape(h) /\ h.initial = log[head].initial /\ log[head].sure \subseteq h.sure
         /\ Told(h, disk, tree[head], lost)
         /\ \A f \in Files \ misread : LogNames(h, f) /\ OfAI(Recorded(h, f))
         /\ \A f \in Files : Recorded(h, f) # {} => Touched(h, f)
         /\ \A f \in Files : f \in PassedOver(h) \/ Reads(h, f)
<1> DEFINE l == log[head]
<1>1. /\ Repo /\ Shape(l) /\ Told(l, disk, tree[head], lost)
      /\ \A f \in Files \ misread : LogNames(l, f) /\ OfAI(Recorded(l, f))
  BY LogIs
<1>2. /\ Shape(h) /\ h.initial = l.initial /\ l.sure \subseteq h.sure
      /\ \A f \in Files : /\ Recorded(h, f) \cap disk[f] = Recorded(l, f) \cap disk[f]
                          /\ Recorded(h, f) \subseteq Recorded(l, f)
                          /\ h.attr[f] \subseteq l.attr[f] \cup l.initial[f]
                          /\ Recorded(h, f) # {} => Touched(h, f)
                          /\ f \in PassedOver(h) \/ Reads(h, f)
  BY <1>1, HumanCheckpointIs
<1> HIDE DEF l
<1>3. Told(h, disk, tree[head], lost)
  <2> SUFFICES ASSUME NEW f \in Files, NEW x \in disk[f], x.by = "ai", x \notin tree[head][f], x \notin lost
               PROVE  x \in Recorded(h, f)
    BY DEF Told
  <2>1. x \in Recorded(l, f)
    BY <1>1 DEF Told
  <2>2. QED
    BY <1>2, <2>1
<1>4. \A f \in Files \ misread : LogNames(h, f) /\ OfAI(Recorded(h, f))
  BY <1>1, <1>2 DEF LogNames, OfAI
<1>5. QED
  BY <1>2, <1>3, <1>4 DEF l

(***************************************************************************)
(* The steps keep it: the user and the agent, reset --hard, switch -f      *)
(***************************************************************************)
LEMMA AgentEditKeeps == ASSUME Content, IInv, IInv', NEW f \in Files, AgentEdit(f) PROVE Content'
<1> DEFINE l == log[head]
           no == FALSE
           yes == TRUE
           b == IF HasNews(l, f, disk) THEN Checkpointed(l, {f}, no, disk) ELSE l
<1>0. no \in BOOLEAN /\ ~no /\ yes \in BOOLEAN /\ yes
  OBVIOUS
<1>1. PICK x \in Fresh("ai") :
        /\ disk' = [disk EXCEPT ![f] = @ \cup {x}]
        /\ log' = [log EXCEPT ![head] = Checkpointed(b, {f}, yes, disk')]
        /\ UNCHANGED <<newest, parent, tree, head, notes, stash, misread, lost>>
  BY Zenon DEF AgentEdit
<1>2. x \in Lines /\ x.by = "ai"
  BY DEF Fresh
<1> DEFINE c == Checkpointed(b, {f}, yes, disk')
<1>3. /\ Shape(l) /\ head \in Commits /\ head \in 0..newest /\ disk \in [Files -> SUBSET Lines]
      /\ Told(l, disk, tree[head], lost)
      /\ \A g \in Files \ misread : LogNames(l, g) /\ OfAI(Recorded(l, g))
  BY LogIs
<1>4. log'[head'] = c
  BY <1>1, <1>3 DEF IInv, Only
<1>5. /\ disk' \in [Files -> SUBSET Lines] /\ disk'[f] = disk[f] \cup {x}
      /\ \A g \in Files \ {f} : disk'[g] = disk[g]
  BY <1>1, <1>2, <1>3
<1>6. Fields \subseteq DOMAIN l
  BY <1>3 DEF Shape
<1>7. b = IF HasNews(l, f, disk) THEN Checkpointed(l, {f}, no, disk) ELSE l
  OBVIOUS
<1> HIDE DEF no, yes, l, b
<1>8. HasNews(l, f, disk) => After(l, {f}, no, disk, b)
  BY <1>0, <1>6, <1>7, CheckpointedIs
<1>9. ~HasNews(l, f, disk) => b = l
  BY <1>7
<1>10. /\ Fields \subseteq DOMAIN b /\ b.initial = l.initial /\ b.seen \cup {f} = l.seen \cup {f}
       /\ \A g \in Files \ {f} : b.attr[g] = l.attr[g]
       /\ \A g \in Files \ {f} : g \in b.sure <=> g \in l.sure
       /\ \A g : g \in l.sure => g \in b.sure
       /\ \A g : g \in b.sure => g \in l.sure \/ g = f
       /\ \A g \in Files : g \in l.touched => g \in b.touched
  <2>1. CASE HasNews(l, f, disk)
    BY <1>8, <2>1 DEF After
  <2>2. CASE ~HasNews(l, f, disk)
    BY <1>6, <1>9, <2>2
  <2>3. QED
    BY <2>1, <2>2
<1>11. /\ Previous(b, f).content = disk[f]
       /\ Previous(b, f).attr \subseteq Recorded(l, f)
       /\ Recorded(l, f) \cap disk[f] \subseteq Previous(b, f).attr
  <2>0. Previous(l, f).attr = Recorded(l, f)
    BY <1>3, PreviousIs
  <2>1. CASE HasNews(l, f, disk)
    <3>1. f \in b.seen /\ b.content[f] = disk[f] /\ b.attr[f] = Previous(l, f).attr \cap disk[f]
      BY <1>0, <1>8, <2>1 DEF After
    <3>2. Previous(b, f) = [content |-> b.content[f], attr |-> b.attr[f]]
      BY <3>1 DEF Previous
    <3>3. QED
      BY <2>0, <3>1, <3>2
  <2>2. CASE ~HasNews(l, f, disk)
    BY <1>9, <2>0, <2>2 DEF HasNews
  <2>3. QED
    BY <2>1, <2>2
<1>12. After(b, {f}, yes, disk', c)
  BY <1>0, <1>10, CheckpointedIs
<1> HIDE DEF c
<1>13. /\ Fields \subseteq DOMAIN c /\ c.initial = l.initial /\ c.seen = l.seen \cup {f}
       /\ \A g : g \in c.sure <=> g \in l.sure \/ g = f
       /\ \A g \in Files \ {f} : c.attr[g] = l.attr[g]
       /\ c.attr[f] = (Previous(b, f).attr \cap disk'[f]) \cup (disk'[f] \ Previous(b, f).content)
       /\ \A g \in Files : g \in c.touched <=> g \in b.touched \/ g = f
  BY <1>0, <1>10, <1>12 DEF After
<1>14. /\ c.attr[f] \subseteq Recorded(l, f) \cup {x} /\ Recorded(l, f) \cap disk[f] \subseteq c.attr[f]
       /\ (x \in disk[f] \/ x \in c.attr[f])
  BY <1>5, <1>11, <1>13
<1>15. Shape(c)
  <2>1. c.seen = c.sure
    BY <1>3, <1>13 DEF Shape
  <2>2. \A g \in Files : c.attr[g] # {} => g \in c.touched
    BY <1>3, <1>10, <1>13 DEF Shape
  <2>3. QED
    BY <1>13, <2>1, <2>2 DEF Shape
<1>16. \A g \in Files \ misread : LogNames(c, g)
  BY <1>2, <1>3, <1>13, <1>14 DEF LogNames, OfAI
<1>17. Told(c, disk', tree[head], lost)
  <2> SUFFICES ASSUME NEW g \in Files, NEW y \in disk'[g], y.by = "ai", y \notin tree[head][g], y \notin lost
               PROVE  y \in Recorded(c, g)
    BY DEF Told
  <2>1. CASE g # f
    <3>1. y \in Recorded(l, g)
      BY <1>3, <1>5, <2>1 DEF Told
    <3>2. Recorded(c, g) = Recorded(l, g)
      BY <1>13, <2>1 DEF Recorded
    <3>3. QED
      BY <3>1, <3>2
  <2>2. CASE g = f
    <3>1. Recorded(c, g) = c.attr[f]
      BY <1>13, <2>2 DEF Recorded
    <3>2. CASE y \in disk[f]
      <4>1. y \in Recorded(l, f)
        BY <1>3, <2>2, <3>2 DEF Told
      <4>2. QED
        BY <1>14, <3>1, <3>2, <4>1
    <3>3. CASE y \notin disk[f]
      BY <1>5, <1>14, <2>2, <3>1, <3>3
    <3>4. QED
      BY <3>2, <3>3
  <2>3. QED
    BY <2>1, <2>2
<1>18. QED
  BY <1>1, <1>3, <1>4, <1>5, <1>15, <1>16, <1>17, LogStep

LEMMA HumanEditKeeps == ASSUME Content, IInv, IInv', NEW f \in Files, HumanEdit(f) PROVE Content'
<1>0. /\ Shape(log[head]) /\ head \in Commits /\ head \in 0..newest /\ disk \in [Files -> SUBSET Lines]
      /\ Told(log[head], disk, tree[head], lost)
      /\ \A g \in Files \ misread : LogNames(log[head], g)
  BY LogIs
<1>1. UNCHANGED <<newest, parent, tree, head, log, notes, stash, misread, lost>>
  BY DEF HumanEdit
<1>2. /\ disk' \in [Files -> SUBSET Lines]
      /\ \A g \in Files : \A y \in disk'[g] : y.by = "ai" => y \in disk[g]
  <2>1. CASE \E x \in Fresh("human") : disk' = [disk EXCEPT ![f] = @ \cup {x}]
    <3>1. PICK x \in Fresh("human") : disk' = [disk EXCEPT ![f] = @ \cup {x}]
      BY <2>1
    <3>2. x \in Lines /\ x.by = "human"
      BY DEF Fresh
    <3>3. QED
      BY <1>0, <3>1, <3>2
  <2>2. CASE \E x \in disk[f] \ {Root} : disk' = [disk EXCEPT ![f] = @ \ {x}]
    BY <1>0, <2>2
  <2>3. QED
    BY <2>1, <2>2 DEF HumanEdit
<1>3. Told(log[head], disk', tree[head], lost)
  BY <1>0, <1>2 DEF Told
<1>4. QED
  BY <1>0, <1>1, <1>2, <1>3, LogStep

\* A command that leaves no uncommitted line, and of the log all or nothing.
LEMMA CleanKeeps ==
  ASSUME Content, IInv, IInv', UNCHANGED <<newest, parent, tree, notes, stash, misread, lost>>,
         NEW t \in 0..newest, head' = t, disk' = tree[t],
         log'[t] = NoLog \/ (t = head /\ log' = log)
  PROVE  Content'
<1>0. /\ Shape(log[head]) /\ head \in Commits /\ 0..newest \subseteq Commits
      /\ \A g \in Files \ misread : LogNames(log[head], g)
      /\ \A c \in Commits : tree[c] \in [Files -> SUBSET Lines]
  BY LogIs
<1>1. \A l : Told(l, disk', tree[head'], lost')
  BY DEF Told
<1>2. disk' \in [Files -> SUBSET Lines]
  BY <1>0
<1>3. CASE log'[t] = NoLog
  BY <1>1, <1>2, <1>3, NoLogIs, LogStep
<1>4. CASE t = head /\ log' = log
  BY <1>0, <1>1, <1>2, <1>4, LogStep
<1>5. QED
  BY <1>3, <1>4

LEMMA ResetHardKeeps == ASSUME Content, IInv, IInv', NEW t \in 0..newest, ResetHard(t) PROVE Content'
<1>1. head \in Commits /\ t \in Commits
  BY LogIs
<1>2. log'[t] = NoLog
  BY <1>1 DEF ResetHard, IInv, Only
<1>3. QED
  BY <1>2, CleanKeeps DEF ResetHard

LEMMA SwitchForceKeeps == ASSUME Content, IInv, IInv', NEW t \in 0..newest, SwitchForce(t) PROVE Content'
<1>1. head \in Commits /\ t \in Commits
  BY LogIs
<1>2. log'[t] = NoLog \/ (t = head /\ log' = log)
  BY <1>1 DEF SwitchForce, IInv, Only
<1>3. QED
  BY <1>2, CleanKeeps DEF SwitchForce

(***************************************************************************)
(* checkout, switch, reset forward                                         *)
(***************************************************************************)
\* HEAD moves to t with its log.
LEMMA RenamedPuts ==
  ASSUME NEW logs, NEW h \in Commits, Only(logs, h), NEW t \in Commits
  PROVE  Renamed(logs, h, t)[t] = logs[h]
<1>1. CASE t = h
  BY <1>1 DEF Renamed
<1>2. CASE t # h
  <2>1. logs[t] = NoLog
    BY <1>2 DEF Only
  <2>2. CASE logs[h].dir = TRUE
    <3>1. Renamed(logs, h, t) = [logs EXCEPT ![t] = logs[h], ![h] = NoLog]
      BY <2>1, <2>2, NoLogSound DEF Renamed
    <3>2. QED
      BY <1>2, <3>1 DEF Only
  <2>3. CASE logs[h] = NoLog
    <3>1. Renamed(logs, h, t) = logs
      BY <2>3, NoLogSound DEF Renamed
    <3>2. QED
      BY <2>1, <2>3, <3>1
  <2>4. QED
    BY <2>2, <2>3 DEF Only, Sound
<1>3. QED
  BY <1>1, <1>2

LEMMA SwitchKeeps == ASSUME Content, IInv, IInv', NEW t \in 0..newest, Switch(t) PROVE Content'
<1> DEFINE l == log[head]
<1>0. /\ Shape(l) /\ head \in Commits /\ 0..newest \subseteq Commits /\ disk \in [Files -> SUBSET Lines]
      /\ \A c \in Commits : tree[c] \in [Files -> SUBSET Lines]
      /\ Told(l, disk, tree[head], lost)
      /\ \A g \in Files \ misread : LogNames(l, g)
  BY LogIs
<1>1. /\ head' = t /\ log' = Renamed(log, head, t)
      /\ disk' = [f \in Files |-> IF tree[t][f] = tree[head][f] THEN disk[f] ELSE tree[t][f]]
      /\ UNCHANGED <<newest, parent, tree, notes, stash, misread, lost>>
  BY DEF Switch
<1>2. log'[t] = l
  BY <1>0, <1>1, RenamedPuts DEF IInv
<1> HIDE DEF l
<1>3. disk' \in [Files -> SUBSET Lines]
  BY <1>0, <1>1
<1>4. Told(l, disk', tree[t], lost)
  <2> SUFFICES ASSUME NEW f \in Files, NEW x \in disk'[f], x.by = "ai", x \notin tree[t][f], x \notin lost
               PROVE  x \in Recorded(l, f)
    BY DEF Told
  <2>1. tree[t][f] = tree[head][f] /\ disk'[f] = disk[f]
    BY <1>1
  <2>2. QED
    BY <1>0, <2>1 DEF Told
<1>5. QED
  BY <1>0, <1>1, <1>2, <1>3, <1>4, LogStep

LEMMA ResetForwardKeeps == ASSUME Content, IInv, IInv', NEW t \in 0..newest, ResetForward(t) PROVE Content'
<1> DEFINE h == HumanCheckpoint(log[head], disk)
           T == {AILines(tree[head][f] \cap disk[f]) \ tree[t][f] : f \in Files}
<1>0. /\ head \in Commits /\ 0..newest \subseteq Commits /\ disk \in [Files -> SUBSET Lines]
      /\ Sound(log[head])
  BY LogIs DEF IInv, Only
<1>1. /\ head' = t /\ log' = Renamed([log EXCEPT ![head] = h], head, t)
      /\ lost' = lost \cup UNION T
      /\ UNCHANGED <<newest, parent, tree, disk, notes, stash, misread>>
  BY Zenon DEF ResetForward
<1>2. Shape(h) /\ Told(h, disk, tree[head], lost) /\ \A f \in Files \ misread : LogNames(h, f)
  BY Begins
<1>3. Sound(h)
  BY <1>0, HumanCheckpointDir
<1>a. \A f \in Files : AILines(tree[head][f] \cap disk[f]) \ tree[t][f] \in T
  BY Zenon
<1> HIDE DEF h, T
<1>4. Only([log EXCEPT ![head] = h], head) /\ [log EXCEPT ![head] = h][head] = h
  BY <1>0, <1>3, Put DEF IInv, Only
<1>5. log'[t] = h
  BY <1>0, <1>1, <1>4, RenamedPuts
<1>6. Told(h, disk', tree[t], lost')
  <2> SUFFICES ASSUME NEW f \in Files, NEW x \in disk[f], x.by = "ai", x \notin tree[t][f], x \notin lost'
               PROVE  x \in Recorded(h, f)
    BY <1>1 DEF Told
  <2>1. x \notin tree[head][f]
    <3>1. x \in tree[head][f] => x \in AILines(tree[head][f] \cap disk[f]) \ tree[t][f]
      BY DEF AILines
    <3>2. QED
      BY <1>1, <1>a, <3>1
  <2>2. QED
    BY <1>1, <1>2, <2>1 DEF Told
<1>7. QED
  BY <1>0, <1>1, <1>2, <1>5, <1>6, LogStep

LEMMA ResetPathspecElsewhereKeeps ==
  ASSUME Content, IInv, IInv', NEW t \in 0..newest, ResetPathspecElsewhere(t) PROVE Content'
<1> DEFINE h == HumanCheckpoint(log[head], disk)
<1>0. head \in Commits /\ head \in 0..newest /\ disk \in [Files -> SUBSET Lines]
  BY LogIs
<1>1. log' = [log EXCEPT ![head] = h] /\ UNCHANGED <<newest, parent, tree, head, disk, notes, stash, misread, lost>>
  BY DEF ResetPathspecElsewhere, userVars
<1>2. Shape(h) /\ Told(h, disk, tree[head], lost) /\ \A f \in Files \ misread : LogNames(h, f)
  BY Begins
<1> HIDE DEF h
<1>3. log'[head'] = h
  BY <1>0, <1>1 DEF IInv, Only
<1>4. QED
  BY <1>0, <1>1, <1>2, <1>3, LogStep

LEMMA CheckoutPathspecKeeps ==
  ASSUME Content, IInv, IInv', NEW P \in SUBSET Files, CheckoutPathspec(P) PROVE Content'
<1> DEFINE l == log[head]
           yes == TRUE
           Without(r) == [f \in Files |-> IF f \in P THEN {} ELSE r[f]]
           c == [dir |-> yes, initial |-> Without(l.initial), snap |-> Without(l.snap),
                 content |-> Without(l.content), attr |-> Without(l.attr), seen |-> l.seen \ P,
                 sure |-> l.sure \ P, byAI |-> l.byAI \ P, touched |-> l.touched \ P]
<1>0. /\ Shape(l) /\ head \in Commits /\ head \in 0..newest /\ disk \in [Files -> SUBSET Lines]
      /\ tree[head] \in [Files -> SUBSET Lines]
      /\ Told(l, disk, tree[head], lost)
      /\ \A g \in Files \ misread : LogNames(l, g)
  BY LogIs
<1>1. /\ disk' = [f \in Files |-> IF f \in P THEN tree[head][f] ELSE disk[f]]
      /\ log' = [log EXCEPT ![head] = c]
      /\ UNCHANGED <<newest, parent, tree, head, notes, stash, misread, lost>>
  BY Zenon DEF CheckoutPathspec
<1>2. log'[head'] = c
  BY <1>0, <1>1 DEF IInv, Only
<1>3. /\ Fields \subseteq DOMAIN c /\ c.seen = l.seen \ P /\ c.sure = l.sure \ P /\ c.touched = l.touched \ P
      /\ \A f \in Files : /\ c.attr[f] = IF f \in P THEN {} ELSE l.attr[f]
                          /\ c.initial[f] = IF f \in P THEN {} ELSE l.initial[f]
  <2> HIDE DEF l, yes
  <2>1. QED
    BY DEF Fields
<1> HIDE DEF c, l
<1>4. Shape(c)
  BY <1>0, <1>3 DEF Shape
<1>5. \A f \in Files \ misread' : LogNames(c, f)
  BY <1>0, <1>1, <1>3 DEF LogNames, OfAI
<1>6. disk' \in [Files -> SUBSET Lines]
  BY <1>0, <1>1
<1>7. Told(c, disk', tree[head], lost)
  <2> SUFFICES ASSUME NEW f \in Files, NEW x \in disk'[f], x.by = "ai", x \notin tree[head][f], x \notin lost
               PROVE  x \in Recorded(c, f)
    BY DEF Told
  <2>1. f \notin P /\ disk'[f] = disk[f]
    BY <1>1
  <2>2. Recorded(c, f) = Recorded(l, f)
    BY <1>3, <2>1 DEF Recorded
  <2>3. QED
    BY <1>0, <2>1, <2>2 DEF Told
<1>8. QED
  BY <1>0, <1>1, <1>2, <1>4, <1>5, <1>6, <1>7, LogStep

\* What is read of a file that names no line is nothing.
LEMMA ReadsNothing ==
  ASSUME NEW l, NEW f, Recorded(l, f) = {} PROVE Attributed(l, f, disk) = {} /\ Reads(l, f)
BY ShownNone DEF Attributed, Reads

LEMMA SwitchMergeKeeps == ASSUME Content, IInv, IInv', NEW t \in 0..newest, SwitchMerge(t) PROVE Content'
<1> DEFINE l == log[head]
           now == Merged(disk, tree[head], tree[t])
           files == {f \in Files : Recorded(l, f) # {}}
           va == [f \in Files |-> (Attributed(l, f, disk) \cap now[f]) \ tree[t][f]]
<1>0. /\ Shape(l) /\ head \in Commits /\ 0..newest \subseteq Commits /\ disk \in [Files -> SUBSET Lines]
      /\ \A c \in Commits : tree[c] \in [Files -> SUBSET Lines]
      /\ Told(l, disk, tree[head], lost)
      /\ \A g \in Files \ misread : LogNames(l, g) /\ OfAI(Recorded(l, g))
  BY LogIs
<1>1. /\ t # head /\ head' = t /\ disk' = now
      /\ log' = IF files = {} THEN Renamed(log, head, t)
                ELSE [log EXCEPT ![head] = NoLog,
                        ![t] = IF va = None THEN [@ EXCEPT !.dir = TRUE] ELSE WithInitial(@, va, now)]
      /\ Marks(l, files, disk, tree[t], {})
      /\ UNCHANGED <<newest, parent, tree, notes, stash>>
  BY Zenon DEF SwitchMerge
<1>2. /\ misread \subseteq misread' /\ lost \subseteq lost'
      /\ \A f \in Files : f \in files \/ Reads(l, f) =>
           /\ f \in misread' \/ Reads(l, f)
           /\ \A x \in Recorded(l, f) : x \in disk[f] /\ x.by = "ai" /\ x \notin tree[t][f] /\ x \notin lost'
                => x \in Attributed(l, f, disk)
  BY <1>1, MarksSay
<1>3. \A f \in Files : now[f] = (disk[f] \cap tree[t][f]) \cup (disk[f] \ tree[head][f]) \cup (tree[t][f] \ tree[head][f])
  BY DEF Merged
<1>4. \A f \in Files : va[f] = (Attributed(l, f, disk) \cap now[f]) \ tree[t][f]
  OBVIOUS
<1>5. \A f \in Files : f \in files <=> Recorded(l, f) # {}
  OBVIOUS
<1>6. disk' \in [Files -> SUBSET Lines]
  <2>1. now = [f \in Files |-> now[f]]
    BY DEF Merged
  <2> HIDE DEF now
  <2>2. \A f \in Files : now[f] \in SUBSET Lines
    BY <1>0, <1>3
  <2>3. QED
    BY <1>1, <2>1, <2>2
<1>7. log[t] = NoLog
  BY <1>0, <1>1 DEF IInv, Only
<1> HIDE DEF now, va, files, l
<1>8. \A f \in Files : \A x \in now[f] : x \notin tree[t][f] => x \in disk[f] /\ x \notin tree[head][f]
  BY <1>3
<1>9. CASE files = {}
  <2>1. log'[t] = l
    BY <1>0, <1>1, <1>9, RenamedPuts DEF IInv, l
  <2>2. Told(l, disk', tree[t], lost')
    BY <1>0, <1>1, <1>2, <1>8 DEF Told
  <2>3. \A f \in Files \ misread' : LogNames(l, f)
    BY <1>0, <1>2
  <2>4. QED
    BY <1>0, <1>1, <1>2, <1>6, <2>1, <2>2, <2>3, LogStep
<1>10. CASE files # {}
  <2> DEFINE c == IF va = None THEN [NoLog EXCEPT !.dir = TRUE] ELSE WithInitial(NoLog, va, now)
  <2>1. log'[t] = c
    BY <1>0, <1>1, <1>7, <1>10 DEF IInv, Only
  <2>2. /\ Shape(c) /\ c.sure = {}
        /\ \A f \in Files : c.attr[f] = {} /\ c.initial[f] = va[f]
    <3>1. CASE va = None
      <4>1. c = [NoLog EXCEPT !.dir = TRUE]
        BY <3>1
      <4>2. /\ Fields \subseteq DOMAIN c /\ c.initial = NoLog.initial /\ c.sure = NoLog.sure
            /\ c.seen = NoLog.seen /\ c.attr = NoLog.attr /\ c.touched = NoLog.touched
        BY <4>1, NoLogIs DEF Shape, Fields
      <4>3. \A f \in Files : va[f] = {}
        BY <3>1 DEF None
      <4>4. QED
        BY <4>2, <4>3, NoLogIs DEF Shape
    <3>2. CASE va # None
      <4>1. c = WithInitial(NoLog, va, now)
        BY <3>2
      <4> DEFINE w == WithInitial(NoLog, va, now)
      <4>2. Shape(w) /\ w.initial = va /\ w.sure = NoLog.sure /\ w.attr = NoLog.attr
        BY NoLogIs, WithInitialIs
      <4> HIDE DEF c, w
      <4>3. c = w
        BY <4>1 DEF w
      <4>4. QED
        BY <4>2, <4>3, NoLogIs
    <3>3. QED
      BY <3>1, <3>2
  <2> HIDE DEF c
  <2>3. \A f \in Files : f \in files \/ Reads(l, f)
    BY <1>5, ReadsNothing
  <2>4. \A f \in Files \ misread' : LogNames(c, f)
    <3> SUFFICES ASSUME NEW f \in Files \ misread' PROVE OfAI(va[f])
      BY <2>2 DEF LogNames, OfAI
    <3>1. Reads(l, f) /\ OfAI(Recorded(l, f))
      BY <1>0, <1>2, <2>3
    <3>2. QED
      BY <1>4, <3>1 DEF Reads, OfAI
  <2>5. Told(c, disk', tree[t], lost')
    <3> SUFFICES ASSUME NEW f \in Files, NEW x \in now[f], x.by = "ai", x \notin tree[t][f], x \notin lost'
                 PROVE  x \in va[f]
      BY <1>1, <2>2 DEF Told, Recorded
    <3>1. x \in disk[f] /\ x \in Recorded(l, f)
      BY <1>0, <1>2, <1>8 DEF Told
    <3>2. x \in Attributed(l, f, disk)
      BY <1>2, <2>3, <3>1
    <3>3. QED
      BY <1>4, <3>2
  <2>6. QED
    BY <1>0, <1>1, <1>2, <1>6, <2>1, <2>2, <2>4, <2>5, LogStep
<1>11. QED
  BY <1>9, <1>10

(***************************************************************************)
(* reset back and of paths                                                 *)
(***************************************************************************)
LEMMA ResetBackKeeps == ASSUME Content, IInv, IInv', NEW t \in 0..newest, ResetBack(t) PROVE Content'
<1> DEFINE h == HumanCheckpoint(log[head], disk)
           paths == ResetPaths(t, Files)
           given == [f \in Files |-> IF f \notin paths THEN {}
                      ELSE (Attributed(h, f, disk) \cup Blame(head, f, t) \cup Blame(t, f, t)) \cap disk[f]]
           gone == Unrecorded(NoLog, disk, tree[t], Files \ paths)
<1>0. /\ Repo /\ head \in Commits /\ head \in 0..newest /\ 0..newest \subseteq Commits
      /\ disk \in [Files -> SUBSET Lines]
  BY LogIs
<1>1. /\ t \in History[head] /\ t # head /\ head' = t
      /\ log' = Reconstructed(h, t, paths)
      /\ Marks(h, PassedOver(h) \cap paths, disk, tree[t], gone)
      /\ UNCHANGED <<newest, parent, tree, disk, notes, stash>>
  BY DEF ResetBack
<1>2. /\ Told(h, disk, tree[head], lost)
      /\ \A f \in Files \ misread : OfAI(Recorded(h, f))
      /\ \A f \in Files : f \in PassedOver(h) \/ Reads(h, f)
  BY Begins
<1>3. /\ misread \subseteq misread' /\ lost \subseteq lost' /\ gone \subseteq lost'
      /\ \A f \in paths : f \in Files =>
           /\ f \in misread' \/ Reads(h, f)
           /\ \A x \in Recorded(h, f) : x \in disk[f] /\ x.by = "ai" /\ x \notin tree[t][f] /\ x \notin lost'
                => x \in Attributed(h, f, disk)
  <2> HIDE DEF gone, paths, h
  <2>1. QED
    BY <1>1, <1>2, MarksSay
<1>4. \A f \in Files : given[f] = IF f \notin paths THEN {}
         ELSE (Attributed(h, f, disk) \cup Blame(head, f, t) \cup Blame(t, f, t)) \cap disk[f]
  OBVIOUS
<1>5. \E c : /\ log'[t] = c /\ Shape(c) /\ c.sure = {}
             /\ \A f \in Files : c.attr[f] = {} /\ c.initial[f] = given[f]
  <2>1. CASE paths = {}
    <3>1. log'[t] = NoLog
      BY <1>0, <1>1, <2>1 DEF Reconstructed, IInv, Only
    <3>2. \A f \in Files : given[f] = {}
      BY <2>1
    <3> HIDE DEF given
    <3>3. QED
      BY <3>1, <3>2, NoLogIs
  <2>2. CASE paths # {}
    <3>1. log' = [log EXCEPT ![head] = NoLog, ![t] = WithInitial(NoLog, given, disk)]
      BY <1>1, <2>2, Zenon DEF Reconstructed
    <3> HIDE DEF given, paths
    <3>2. log'[t] = WithInitial(NoLog, given, disk)
      BY <1>0, <3>1 DEF IInv, Only
    <3> DEFINE c == WithInitial(NoLog, given, disk)
    <3>3. Shape(c) /\ c.initial = given /\ c.sure = NoLog.sure /\ c.attr = NoLog.attr
      BY NoLogIs, WithInitialIs
    <3> HIDE DEF c
    <3>4. /\ Shape(c) /\ c.sure = {}
          /\ \A f \in Files : c.attr[f] = {} /\ c.initial[f] = given[f]
      BY <3>3, NoLogIs
    <3>5. log'[t] = c
      BY <3>2 DEF c
    <3>6. QED
      BY <3>4, <3>5
  <2>3. QED
    BY <2>1, <2>2
<1>6. PICK c : /\ log'[t] = c /\ Shape(c) /\ c.sure = {}
               /\ \A f \in Files : c.attr[f] = {} /\ c.initial[f] = given[f]
  BY <1>5
<1> HIDE DEF given, h
<1>7. \A f \in Files \ misread' : LogNames(c, f)
  <2> SUFFICES ASSUME NEW f \in Files \ misread' PROVE OfAI(given[f])
    BY <1>6 DEF LogNames, OfAI
  <2>1. CASE f \notin paths
    BY <1>4, <2>1 DEF OfAI
  <2>2. CASE f \in paths
    <3>1. Reads(h, f) /\ f \notin misread
      BY <1>3, <2>2
    <3>2. OfAI(Blame(head, f, t)) /\ OfAI(Blame(t, f, t))
      <4>1. \A o \in Commits : OfAI(notes[o][f])
        BY <3>1 DEF Content, Named
      <4>2. QED
        BY <1>0, <4>1, BlameNames
    <3>3. OfAI(Attributed(h, f, disk))
      BY <1>2, <3>1 DEF Reads, OfAI
    <3>4. QED
      BY <1>4, <2>2, <3>2, <3>3 DEF OfAI
  <2>3. QED
    BY <2>1, <2>2
<1>8. Told(c, disk', tree[t], lost')
  <2> SUFFICES ASSUME NEW f \in Files, NEW x \in disk[f], x.by = "ai", x \notin tree[t][f], x \notin lost'
               PROVE  x \in given[f]
    BY <1>1, <1>6 DEF Told, Recorded
  <2>1. f \in paths
    <3>1. CASE f \notin paths
      <4>1. x \in Recorded(NoLog, f) \/ x \in gone
        BY <3>1, UnrecordedIs
      <4>2. QED
        BY <1>3, <4>1, NoLogIs
    <3>2. QED
      BY <3>1
  <2>2. CASE x \in tree[head][f]
    <3>1. NoteComplete /\ x \notin lost
      BY <1>3 DEF Content
    <3>2. x \in Blame(head, f, t)
      BY <1>0, <1>1, <2>2, <3>1, BlameSince
    <3>3. QED
      BY <1>4, <2>1, <3>2
  <2>3. CASE x \notin tree[head][f]
    <3>1. x \in Recorded(h, f)
      BY <1>2, <1>3, <2>3 DEF Told
    <3>2. x \in Attributed(h, f, disk)
      BY <1>3, <2>1, <3>1
    <3>3. QED
      BY <1>4, <2>1, <3>2
  <2>4. QED
    BY <2>2, <2>3
<1>9. QED
  BY <1>0, <1>1, <1>3, <1>6, <1>7, <1>8, LogStep

LEMMA ResetPathspecKeeps ==
  ASSUME Content, IInv, IInv', NEW P \in SUBSET Files, NEW t \in 0..newest, ResetPathspec(t, P) PROVE Content'
<1> DEFINE h == HumanCheckpoint(log[head], disk)
           yes == TRUE
           kept == [NoLog EXCEPT !.dir = yes, !.seen = h.seen \ P, !.sure = h.sure \ P,
                                 !.byAI = h.byAI \ P, !.touched = h.touched \ P,
                                 !.content = [f \in Files |-> IF f \in P THEN {} ELSE h.content[f]],
                                 !.attr = [f \in Files |-> IF f \in P THEN {} ELSE h.attr[f]]]
           S == P \cup (Files \ h.sure)
<1>0. head \in Commits /\ head \in 0..newest /\ 0..newest \subseteq Commits /\ disk \in [Files -> SUBSET Lines]
  BY LogIs
<1>1. /\ log' = [Reconstructed(h, t, ResetPaths(t, P)) EXCEPT ![t] = NoLog, ![head] = kept]
      /\ lost' = lost \cup Unrecorded(kept, disk, tree[head], S)
      /\ UNCHANGED <<newest, parent, tree, head, disk, notes, stash, misread>>
  BY Zenon DEF ResetPathspec, userVars
<1>2. /\ Shape(h) /\ Told(h, disk, tree[head], lost) /\ \A f \in Files \ misread : LogNames(h, f)
  BY Begins
<1>3. log'[head] = kept
  <2> HIDE DEF h, kept
  <2>1. Only(Reconstructed(h, t, ResetPaths(t, P)), t)
    BY <1>0, ReconstructedMoves
  <2>2. QED
    BY <1>0, <1>1, <2>1 DEF Only
<1>4. /\ Fields \subseteq DOMAIN kept /\ kept.seen = h.seen \ P /\ kept.sure = h.sure \ P
      /\ kept.touched = h.touched \ P /\ kept.initial = NoLog.initial
      /\ \A f \in Files : kept.attr[f] = IF f \in P THEN {} ELSE h.attr[f]
  <2> HIDE DEF h, yes
  <2>1. Fields \subseteq DOMAIN NoLog
    BY NoLogIs DEF Shape
  <2>2. QED
    BY <2>1 DEF Fields
<1> HIDE DEF kept, h
<1>5. Shape(kept)
  BY <1>2, <1>4 DEF Shape
<1>6. \A f \in Files \ misread' : LogNames(kept, f)
  BY <1>1, <1>2, <1>4, NoLogIs DEF LogNames, OfAI
<1>7. Told(kept, disk', tree[head], lost')
  <2> SUFFICES ASSUME NEW f \in Files, NEW x \in disk[f], x.by = "ai", x \notin tree[head][f], x \notin lost'
               PROVE  x \in Recorded(kept, f)
    BY <1>1 DEF Told
  <2>1. CASE f \in S
    BY <1>1, <2>1, UnrecordedIs
  <2>2. CASE f \notin S
    <3>1. f \notin P /\ f \in h.sure
      BY <2>2
    <3>2. x \in Recorded(h, f)
      BY <1>1, <1>2 DEF Told
    <3>3. QED
      BY <1>4, <3>1, <3>2 DEF Recorded
  <2>3. QED
    BY <2>1, <2>2
<1>8. QED
  BY <1>0, <1>1, <1>3, <1>5, <1>6, <1>7, LogStep

(***************************************************************************)
(* stash                                                                   *)
(***************************************************************************)
\* The log before a push; what a bare one has not checked, the push marks.
LEMMA BeforePushIs ==
  ASSUME Content, IInv, NEW bare \in BOOLEAN, NEW h, h = BeforePush(bare)
  PROVE  /\ Shape(h) /\ Told(h, disk, tree[head], lost)
         /\ \A f \in Files \ misread : LogNames(h, f) /\ OfAI(Recorded(h, f))
         /\ bare \/ \A f \in Files : f \in PassedOver(h) \/ Reads(h, f)
<1>0. /\ Shape(log[head]) /\ Told(log[head], disk, tree[head], lost)
      /\ \A f \in Files \ misread : LogNames(log[head], f) /\ OfAI(Recorded(log[head], f))
  BY LogIs
<1>1. CASE bare
  <2> DEFINE yes == TRUE
  <2>1. h = [log[head] EXCEPT !.dir = yes]
    BY <1>1 DEF BeforePush
  <2> HIDE DEF yes
  <2>2. /\ Fields \subseteq DOMAIN h /\ h.initial = log[head].initial /\ h.seen = log[head].seen
        /\ h.sure = log[head].sure /\ h.attr = log[head].attr /\ h.touched = log[head].touched
    BY <1>0, <2>1 DEF Shape, Fields
  <2>3. Shape(h)
    BY <1>0, <2>2 DEF Shape
  <2>4. \A f \in Files : Recorded(h, f) = Recorded(log[head], f)
    BY <2>2 DEF Recorded
  <2>5. Told(h, disk, tree[head], lost)
    BY <1>0, <2>4 DEF Told
  <2>6. \A f \in Files \ misread : LogNames(h, f) /\ OfAI(Recorded(h, f))
    BY <1>0, <2>2, <2>4 DEF LogNames
  <2>7. QED
    BY <1>1, <2>3, <2>5, <2>6
<1>2. CASE ~bare
  <2>1. h = HumanCheckpoint(log[head], disk)
    BY <1>2 DEF BeforePush
  <2>2. QED
    BY <2>1, Begins
<1>3. QED
  BY <1>1, <1>2

LEMMA ForgottenIs ==
  ASSUME NEW h, Shape(h), NEW S, NEW c, c = Forgotten(h, S)
  PROVE  /\ Shape(c) /\ c.seen = h.seen /\ c.sure = h.sure /\ c.attr = h.attr /\ c.touched = h.touched
         /\ \A f \in Files : c.initial[f] = IF f \in S THEN {} ELSE h.initial[f]
<1> DEFINE i == [f \in Files |-> IF f \in S THEN {} ELSE h.initial[f]]
           s == [f \in Files |-> IF f \in S THEN {} ELSE h.snap[f]]
<1>1. c = [h EXCEPT !.initial = i, !.snap = s]
  BY Zenon DEF Forgotten
<1>2. \A f \in Files : i[f] = IF f \in S THEN {} ELSE h.initial[f]
  OBVIOUS
<1>3. Fields \subseteq DOMAIN h
  BY DEF Shape
<1> HIDE DEF i, s
<1>4. /\ Fields \subseteq DOMAIN c /\ c.seen = h.seen /\ c.sure = h.sure /\ c.attr = h.attr
      /\ c.touched = h.touched /\ c.initial = i
  BY <1>1, <1>3 DEF Fields
<1>5. Shape(c)
  BY <1>4 DEF Shape
<1>6. QED
  BY <1>2, <1>4, <1>5

LEMMA StashPushKeeps ==
  ASSUME Content, IInv, IInv', NEW P \in SUBSET Files, NEW bare \in BOOLEAN, StashPush(bare, P) PROVE Content'
<1> DEFINE yes == TRUE
           h == BeforePush(bare)
           noted == {f \in P : Recorded(h, f) # {}}
           content == [f \in Files |-> IF f \in P THEN disk[f] ELSE tree[head][f]]
           note == [f \in Files |-> IF f \in noted THEN Attributed(h, f, disk) ELSE {}]
           c == Forgotten(h, noted)
           S == IF bare THEN noted ELSE noted \cap PassedOver(h)
<1>0. /\ Repo /\ head \in Commits /\ head \in 0..newest /\ 0..newest \subseteq Commits
      /\ disk \in [Files -> SUBSET Lines] /\ tree[head] \in [Files -> SUBSET Lines]
  BY LogIs
<1>1. /\ stash' = [on |-> yes, base |-> head, content |-> content, note |-> note]
      /\ disk' = [f \in Files |-> IF f \in P THEN tree[head][f] ELSE disk[f]]
      /\ log' = [log EXCEPT ![head] = c]
      /\ Marks(h, S, disk, tree[head], {})
      /\ UNCHANGED <<newest, parent, tree, head, notes>>
  BY Zenon DEF StashPush
<1>2. /\ Shape(h) /\ Told(h, disk, tree[head], lost)
      /\ \A f \in Files \ misread : LogNames(h, f) /\ OfAI(Recorded(h, f))
      /\ \A f \in Files : f \in noted => f \in S \/ Reads(h, f)
  <2>1. /\ Shape(h) /\ Told(h, disk, tree[head], lost)
        /\ \A f \in Files \ misread : LogNames(h, f) /\ OfAI(Recorded(h, f))
        /\ bare \/ \A f \in Files : f \in PassedOver(h) \/ Reads(h, f)
    <3> HIDE DEF noted, S
    <3>1. QED
      BY BeforePushIs
  <2>2. S = IF bare THEN noted ELSE noted \cap PassedOver(h)
    OBVIOUS
  <2>3. \A f \in Files : f \in noted => f \in S \/ Reads(h, f)
    <3> HIDE DEF h, noted, S
    <3>1. QED
      BY <2>1, <2>2
  <2>4. QED
    BY <2>1, <2>3
<1>3. /\ \A f \in Files : f \in noted <=> f \in P /\ Recorded(h, f) # {}
      /\ \A f \in Files : note[f] = IF f \in noted THEN Attributed(h, f, disk) ELSE {}
      /\ \A f \in Files : content[f] = IF f \in P THEN disk[f] ELSE tree[head][f]
      /\ content \in [Files -> SUBSET Lines]
  BY <1>0
<1>4. /\ Shape(c) /\ c.seen = h.seen /\ c.sure = h.sure /\ c.attr = h.attr /\ c.touched = h.touched
      /\ \A f \in Files : c.initial[f] = IF f \in noted THEN {} ELSE h.initial[f]
  <2> HIDE DEF h, noted
  <2>1. QED
    BY <1>2, ForgottenIs
<1>5. log'[head'] = c
  <2> HIDE DEF c
  <2>1. QED
    BY <1>0, <1>1 DEF IInv, Only
<1> HIDE DEF c, h, noted, content, note, S
<1>6. /\ misread \subseteq misread' /\ lost \subseteq lost'
      /\ \A f \in Files : f \in S \/ Reads(h, f) =>
           /\ f \in misread' \/ Reads(h, f)
           /\ \A x \in Recorded(h, f) : x \in disk[f] /\ x.by = "ai" /\ x \notin tree[head][f] /\ x \notin lost'
                => x \in Attributed(h, f, disk)
  BY <1>1, MarksSay
<1>7. disk' \in [Files -> SUBSET Lines] /\ \A f \in Files : disk'[f] = IF f \in P THEN tree[head][f] ELSE disk[f]
  BY <1>0, <1>1
<1>8. Repo'
  BY <1>0, <1>1, <1>7, RepoSame DEF Content
<1>9. StashOK' /\ stash'.note = note /\ stash'.content = content /\ stash'.base = head
  BY <1>0, <1>1, <1>3 DEF StashOK
<1>10. StashKnown'
  <2> SUFFICES ASSUME NEW f \in Files, NEW x \in content[f], x.by = "ai", x \notin tree[head][f], x \notin lost'
               PROVE  x \in note[f]
    BY <1>1, <1>9 DEF StashKnown, AILines
  <2>1. f \in P /\ x \in disk[f]
    BY <1>3
  <2>2. x \in Recorded(h, f)
    BY <1>2, <1>6, <2>1 DEF Told
  <2>3. f \in noted
    BY <1>3, <2>1, <2>2
  <2>4. x \in Attributed(h, f, disk)
    BY <1>2, <1>6, <2>1, <2>2, <2>3
  <2>5. QED
    BY <1>3, <2>3, <2>4
<1>11. \A f \in Files \ misread' : OfAI(stash'.note[f])
  <2> SUFFICES ASSUME NEW f \in Files \ misread' PROVE OfAI(note[f])
    BY <1>9
  <2>1. CASE f \in noted
    <3>1. Reads(h, f) /\ OfAI(Recorded(h, f))
      BY <1>2, <1>6, <2>1
    <3>2. QED
      BY <1>3, <2>1, <3>1 DEF Reads, OfAI
  <2>2. CASE f \notin noted
    BY <1>3, <2>2 DEF OfAI
  <2>3. QED
    BY <2>1, <2>2
<1>12. Shape(c)
  BY <1>4
<1>13. \A f \in Files \ misread' : LogNames(c, f)
  BY <1>2, <1>4, <1>6 DEF LogNames, OfAI
<1>14. Told(c, disk', tree'[head'], lost')
  <2> SUFFICES ASSUME NEW f \in Files, NEW x \in disk'[f], x.by = "ai", x \notin tree[head][f], x \notin lost'
               PROVE  x \in Recorded(c, f)
    BY <1>1 DEF Told
  <2>1. f \notin P /\ x \in disk[f]
    BY <1>7
  <2>2. x \in Recorded(h, f)
    BY <1>2, <1>6, <2>1 DEF Told
  <2>3. f \notin noted
    BY <1>3, <2>1
  <2>4. QED
    BY <1>4, <2>2, <2>3 DEF Recorded
<1>15. /\ NoteComplete' /\ notes' = [d \in Commits |-> notes'[d]]
       /\ \A f \in Files \ misread' : \A d \in Commits : OfAI(notes'[d][f])
  BY <1>1, <1>6, NotesSame
<1>16. QED
  BY <1>5, <1>8, <1>9, <1>10, <1>11, <1>12, <1>13, <1>14, <1>15, Settle

\* Nothing is saved: what the stash's note had and has no more is lost, and what was
\* not read where it was made is misread.
LEMMA StashNothingKeeps ==
  ASSUME Content, IInv, IInv', NEW P \in SUBSET Files, NEW bare \in BOOLEAN, StashNothing(bare, P) PROVE Content'
<1> DEFINE h == BeforePush(bare)
           noted == {f \in P : Recorded(h, f) # {}}
           note == [f \in Files |-> IF f \in noted
                      THEN Shown(Recorded(h, f), MadeFor(h, f), stash.content[f]) ELSE {}]
           c == Forgotten(h, noted)
           shifted == {f \in noted : note[f] # Recorded(h, f) \cap stash.content[f]}
           T == {AILines(stash.note[f]) \ note[f] : f \in Files}
<1>0. /\ Repo /\ head \in Commits /\ head \in 0..newest /\ 0..newest \subseteq Commits
      /\ newest \in Nat /\ disk \in [Files -> SUBSET Lines]
  BY LogIs
<1>1. /\ \A f \in P : disk[f] = tree[head][f]
      /\ \/ /\ stash.on /\ stash' = [stash EXCEPT !.note = note] /\ log' = [log EXCEPT ![head] = c]
            /\ misread' = misread \cup shifted /\ lost' = lost \cup UNION T
         \/ log' = [log EXCEPT ![head] = h] /\ UNCHANGED <<stash, misread, lost>>
      /\ UNCHANGED <<newest, parent, tree, head, disk, notes>>
  BY Zenon DEF StashNothing
<1>2. /\ Shape(h) /\ Told(h, disk, tree[head], lost)
      /\ \A f \in Files \ misread : LogNames(h, f) /\ OfAI(Recorded(h, f))
  <2> HIDE DEF noted, note, c, shifted, T
  <2>1. QED
    BY BeforePushIs
<1>3. /\ \A f \in Files : f \in noted => f \in P
      /\ \A f \in Files \ noted : note[f] = {}
      /\ \A f \in noted : f \in shifted \/ note[f] = Recorded(h, f) \cap stash.content[f]
  OBVIOUS
<1>4. /\ Shape(c) /\ c.sure = h.sure /\ c.attr = h.attr
      /\ \A f \in Files : c.initial[f] = IF f \in noted THEN {} ELSE h.initial[f]
  <2> HIDE DEF h, noted
  <2>1. QED
    BY <1>2, ForgottenIs
<1>5. \A f \in Files : AILines(stash.note[f]) \ note[f] \subseteq UNION T
  <2> SUFFICES ASSUME NEW f \in Files PROVE AILines(stash.note[f]) \ note[f] \in T
    OBVIOUS
  <2> HIDE DEF note
  <2>1. QED
    BY Zenon
<1>6. CASE UNCHANGED stash /\ UNCHANGED <<misread, lost>> /\ log' = [log EXCEPT ![head] = h]
  <2>1. log'[head'] = h
    <3> HIDE DEF h
    <3>1. QED
      BY <1>0, <1>1, <1>6 DEF IInv, Only
  <2> HIDE DEF h, noted, note, c, shifted, T
  <2>2. QED
    BY <1>0, <1>1, <1>2, <1>6, <2>1, LogStep
<1>7. CASE /\ stash.on /\ stash' = [stash EXCEPT !.note = note] /\ log' = [log EXCEPT ![head] = c]
           /\ misread' = misread \cup shifted /\ lost' = lost \cup UNION T
  <2>1. log'[head'] = c
    <3> HIDE DEF c
    <3>1. QED
      BY <1>0, <1>1, <1>7 DEF IInv, Only
  <2> HIDE DEF h, noted, note, c, shifted, T
  <2>2. misread \subseteq misread' /\ lost \subseteq lost'
    BY <1>7
  <2>3. Repo'
    BY <1>0, <1>1, RepoSame DEF Content
  <2>4. /\ StashOK' /\ stash'.note = note /\ stash'.content = stash.content /\ stash'.base = stash.base
        /\ stash'.on = stash.on
    BY <1>1, <1>7 DEF Content, StashOK
  <2>5. StashKnown'
    <3> SUFFICES ASSUME NEW f \in Files, NEW x \in stash.content[f], x.by = "ai", x \notin tree[stash.base][f],
                        x \notin lost'
                 PROVE  x \in note[f]
      BY <1>1, <2>4 DEF StashKnown, AILines
    <3>1. x \in stash.note[f]
      BY <1>7, <2>2 DEF Content, StashKnown, AILines
    <3>2. x \in AILines(stash.note[f])
      BY <3>1 DEF AILines
    <3>3. QED
      BY <1>5, <1>7, <3>2
  <2>6. \A f \in Files \ misread' : OfAI(stash'.note[f])
    <3> SUFFICES ASSUME NEW f \in Files \ misread' PROVE OfAI(note[f])
      BY <2>4
    <3>1. CASE f \in noted
      <4>1. note[f] \subseteq Recorded(h, f)
        BY <1>3, <1>7, <3>1
      <4>2. QED
        BY <1>2, <2>2, <4>1 DEF OfAI
    <3>2. CASE f \notin noted
      BY <1>3, <3>2 DEF OfAI
    <3>3. QED
      BY <3>1, <3>2
  <2>7. \A f \in Files \ misread' : LogNames(c, f)
    BY <1>2, <1>4, <2>2 DEF LogNames, OfAI
  <2>8. Told(c, disk', tree'[head'], lost')
    <3> SUFFICES ASSUME NEW f \in Files, NEW x \in disk[f], x.by = "ai", x \notin tree[head][f], x \notin lost'
                 PROVE  x \in Recorded(c, f)
      BY <1>1 DEF Told
    <3>1. f \notin noted
      BY <1>1, <1>3
    <3>2. x \in Recorded(h, f)
      BY <1>2, <2>2 DEF Told
    <3>3. QED
      BY <1>4, <3>1, <3>2 DEF Recorded
  <2>9. /\ NoteComplete' /\ notes' = [d \in Commits |-> notes'[d]]
        /\ \A f \in Files \ misread' : \A d \in Commits : OfAI(notes'[d][f])
    BY <1>1, <2>2, NotesSame
  <2>10. QED
    BY <1>4, <2>1, <2>3, <2>4, <2>5, <2>6, <2>7, <2>8, <2>9, Settle
<1>8. QED
  BY <1>1, <1>6, <1>7

LEMMA NoStashIs ==
  /\ {"on", "base", "content", "note"} \subseteq DOMAIN NoStash /\ ~NoStash.on /\ NoStash.base = 0
  /\ NoStash.content \in [Files -> SUBSET Lines] /\ \A f \in Files : NoStash.note[f] = {}
<1> DEFINE no == FALSE
           s == [on |-> no, base |-> 0, content |-> None, note |-> None]
<1>1. NoStash = s
  BY DEF NoStash
<1>2. /\ {"on", "base", "content", "note"} \subseteq DOMAIN s /\ s.on = no /\ s.base = 0
      /\ s.content = None /\ s.note = None
  <2> HIDE DEF no
  <2>1. QED
    OBVIOUS
<1> HIDE DEF s
<1>3. None \in [Files -> SUBSET Lines] /\ \A f \in Files : None[f] = {}
  BY DEF None
<1>4. ~no
  OBVIOUS
<1> HIDE DEF no
<1>5. QED
  BY <1>1, <1>2, <1>3, <1>4

LEMMA StashRestoreKeeps ==
  ASSUME Content, IInv, IInv', NEW pop \in BOOLEAN, StashRestore(pop) PROVE Content'
<1> DEFINE l == log[head]
           stashed == {f \in Files : stash.content[f] # tree[stash.base][f]}
           now == Merged(stash.content, tree[stash.base], tree[head])
           c == IF stash.note = None THEN l ELSE WithInitial(l, stash.note, stash.content)
           hidden == {f \in Files : IF f \in c.sure THEN f \in stashed ELSE l.initial[f] # {}}
<1>0. /\ Repo /\ Shape(l) /\ head \in Commits /\ head \in 0..newest /\ 0..newest \subseteq Commits
      /\ Told(l, disk, tree[head], lost)
      /\ \A f \in Files \ misread : LogNames(l, f)
      /\ disk \in [Files -> SUBSET Lines] /\ \A d \in Commits : tree[d] \in [Files -> SUBSET Lines]
  BY LogIs
<1>1. /\ stash.on
      /\ disk' = [f \in Files |-> IF f \in stashed THEN now[f] ELSE disk[f]]
      /\ log' = [log EXCEPT ![head] = c]
      /\ stash' = IF pop THEN NoStash ELSE stash
      /\ lost' = lost \cup Unrecorded(c, disk', tree[head], hidden)
      /\ UNCHANGED <<newest, parent, tree, head, notes, misread>>
  BY Zenon DEF StashRestore
<1>2. \A f \in Files : now[f] = (stash.content[f] \cap tree[head][f]) \cup (stash.content[f] \ tree[stash.base][f])
                                \cup (tree[head][f] \ tree[stash.base][f])
  BY DEF Merged
<1>3. \A f \in Files : f \in hidden <=> IF f \in c.sure THEN f \in stashed ELSE l.initial[f] # {}
  OBVIOUS
<1>4. /\ stash.content \in [Files -> SUBSET Lines] /\ stash.base \in Commits
      /\ \A f \in Files : \A x \in stash.content[f] :
           x.by = "ai" /\ x \notin tree[stash.base][f] /\ x \notin lost => x \in stash.note[f]
      /\ \A f \in Files \ misread : OfAI(stash.note[f])
  BY <1>0, <1>1 DEF Content, StashOK, StashKnown, AILines, Named
<1>5. /\ Shape(c) /\ c.sure = l.sure /\ c.attr = l.attr
      /\ \A f \in Files : c.initial[f] = stash.note[f] \/ (stash.note[f] = {} /\ c.initial[f] = l.initial[f])
  <2>1. CASE stash.note = None
    <3>1. c = l /\ \A f \in Files : stash.note[f] = {}
      BY <2>1 DEF None
    <3> HIDE DEF c
    <3>2. QED
      BY <1>0, <3>1
  <2>2. CASE stash.note # None
    <3> DEFINE w == WithInitial(l, stash.note, stash.content)
    <3>1. Shape(w) /\ w.sure = l.sure /\ w.attr = l.attr /\ w.initial = stash.note
      BY <1>0, WithInitialIs
    <3>2. c = w
      BY <2>2
    <3> HIDE DEF c, w
    <3>3. QED
      BY <3>1, <3>2
  <2>3. QED
    BY <2>1, <2>2
<1>6. disk' \in [Files -> SUBSET Lines] /\ \A f \in Files : disk'[f] = IF f \in stashed THEN now[f] ELSE disk[f]
  <2> HIDE DEF now, stashed
  <2>1. \A f \in Files : now[f] \in SUBSET Lines
    BY <1>0, <1>2, <1>4
  <2>2. QED
    BY <1>0, <1>1, <2>1
<1> HIDE DEF l, c, stashed, now, hidden
<1>7. log'[head'] = c
  BY <1>0, <1>1 DEF IInv, Only
<1>8. Repo'
  BY <1>0, <1>1, <1>6, RepoSame
<1>9. lost \subseteq lost'
  BY <1>1
<1>10. StashOK' /\ StashKnown' /\ \A f \in Files \ misread' : OfAI(stash'.note[f])
  <2>1. CASE pop
    <3>1. stash' = NoStash
      BY <1>1, <2>1
    <3>2. 0 \in 0..newest'
      BY <1>1, RewriteHooksAssumption DEF IInv, Commits
    <3>3. QED
      BY <3>1, <3>2, NoStashIs DEF StashOK, StashKnown, OfAI
  <2>2. CASE ~pop
    <3>1. stash' = stash /\ newest' \in Nat /\ newest <= newest'
      BY <1>1, <2>2, RewriteHooksAssumption DEF IInv, Commits
    <3>2. QED
      BY <1>1, <1>9, <3>1, StashSame
  <2>3. QED
    BY <2>1, <2>2
<1>11. \A f \in Files \ misread' : LogNames(c, f)
  <2> SUFFICES ASSUME NEW f \in Files \ misread' PROVE OfAI(c.attr[f]) /\ OfAI(c.initial[f])
    BY DEF LogNames
  <2>1. OfAI(l.attr[f]) /\ OfAI(l.initial[f]) /\ OfAI(stash.note[f])
    BY <1>0, <1>1, <1>4 DEF LogNames
  <2>2. QED
    BY <1>5, <2>1
<1>12. Told(c, disk', tree'[head'], lost')
  <2> SUFFICES ASSUME NEW f \in Files, NEW x \in disk'[f], x.by = "ai", x \notin tree[head][f], x \notin lost'
               PROVE  x \in Recorded(c, f)
    BY <1>1 DEF Told
  <2>1. CASE f \in hidden
    BY <1>1, <2>1, UnrecordedIs
  <2>2. CASE f \notin hidden /\ f \in c.sure
    <3>1. x \in disk[f]
      BY <1>3, <1>6, <2>2
    <3>2. x \in Recorded(l, f)
      BY <1>0, <1>9, <3>1 DEF Told
    <3>3. QED
      BY <1>5, <2>2, <3>2 DEF Recorded
  <2>3. CASE f \notin hidden /\ f \notin c.sure
    <3>1. l.initial[f] = {} /\ f \notin l.sure
      BY <1>3, <1>5, <2>3
    <3>2. CASE f \in stashed
      <4>1. x \in stash.content[f] /\ x \notin tree[stash.base][f]
        BY <1>2, <1>6, <3>2
      <4>2. x \in stash.note[f]
        BY <1>4, <1>9, <4>1
      <4>3. QED
        BY <1>5, <2>3, <4>2 DEF Recorded
    <3>3. CASE f \notin stashed
      <4>1. x \in Recorded(l, f)
        BY <1>0, <1>6, <1>9, <3>3 DEF Told
      <4>2. QED
        BY <3>1, <4>1 DEF Recorded
    <3>4. QED
      BY <3>2, <3>3
  <2>4. QED
    BY <2>1, <2>2, <2>3
<1>13. /\ NoteComplete' /\ notes' = [d \in Commits |-> notes'[d]]
       /\ \A f \in Files \ misread' : \A d \in Commits : OfAI(notes'[d][f])
  BY <1>1, <1>9, NotesSame
<1>14. QED
  BY <1>5, <1>7, <1>8, <1>10, <1>11, <1>12, <1>13, Settle

(***************************************************************************)
(* commit and amend                                                        *)
(***************************************************************************)
LEMMA NewCommitIs ==
  ASSUME Content, IInv, NEW F \in SUBSET Files, NEW p \in 0..newest, NewCommit(F, p)
  PROVE  /\ newest \in Nat /\ newest' = newest + 1 /\ head' = newest + 1 /\ head' \in Commits /\ head # head'
         /\ \A c \in 0..newest : c \in Commits /\ tree'[c] = tree[c] /\ parent'[c] = parent[c]
         /\ parent'[head'] = p /\ disk' = disk /\ stash' = stash
         /\ \A f \in Files : tree'[head'][f] = IF f \in F THEN disk[f] ELSE tree[head][f]
         /\ Repo'
<1>0. /\ Repo /\ head \in 0..newest /\ 0..newest \subseteq Commits
      /\ disk \in [Files -> SUBSET Lines] /\ \A c \in Commits : tree[c] \in [Files -> SUBSET Lines]
  BY LogIs
<1>1. /\ newest \in Nat /\ newest' = newest + 1 /\ head' = newest + 1
      /\ newest' \in Commits /\ head' \in Commits /\ head' # head
      /\ \A c \in 0..newest : c \in Commits /\ c # head'
  BY <1>0, RewriteHooksAssumption DEF NewCommit, IInv, Commits
<1>2. /\ parent' = [parent EXCEPT ![head'] = p] /\ tree' = [tree EXCEPT ![head'] = Snapshot(F, head)]
      /\ disk' = disk /\ stash' = stash
  BY <1>1 DEF NewCommit
<1>3. /\ Snapshot(F, head) \in [Files -> SUBSET Lines]
      /\ \A f \in Files : Snapshot(F, head)[f] = IF f \in F THEN disk[f] ELSE tree[head][f]
  BY <1>0, <1>1 DEF Snapshot
<1>4. /\ tree'[head'] = Snapshot(F, head) /\ parent'[head'] = p
      /\ \A c \in Commits \ {head'} : tree'[c] = tree[c] /\ parent'[c] = parent[c]
      /\ tree' = [c \in Commits |-> tree'[c]] /\ parent' = [c \in Commits |-> parent'[c]]
  BY <1>0, <1>1, <1>2 DEF Repo
<1>5. Repo'
  <2>1. 0 \in 0..newest
    BY <1>1
  <2>2. parent'[0] = 0 /\ \A f \in Files : AILines(tree'[0][f]) = {}
    BY <1>0, <1>1, <1>4, <2>1 DEF Repo
  <2>3. \A c \in 1..newest' : parent'[c] \in 0..(c - 1)
    <3> SUFFICES ASSUME NEW c \in 1..newest' PROVE parent'[c] \in 0..(c - 1)
      OBVIOUS
    <3>1. CASE c = head'
      BY <1>1, <1>4, <3>1
    <3>2. CASE c # head'
      <4>1. c \in 1..newest
        BY <1>1, <3>2
      <4>2. parent[c] \in 0..(c - 1)
        BY <1>0, <4>1 DEF Repo
      <4>3. c \in Commits \ {head'}
        BY <1>1, <4>1
      <4>4. QED
        BY <1>4, <4>2, <4>3
    <3>3. QED
      BY <3>1, <3>2
  <2>4. \A c \in Commits : tree'[c] \in [Files -> SUBSET Lines]
    BY <1>0, <1>3, <1>4
  <2>5. head' \in 0..newest'
    BY <1>1
  <2>6. QED
    BY <1>0, <1>1, <1>2, <1>4, <2>2, <2>3, <2>4, <2>5 DEF Repo
<1>6. QED
  BY <1>1, <1>2, <1>3, <1>4, <1>5

\* The lines of va that commit reads back as uncommitted ones.
Rest(va, content) == [f \in Files |-> Shown(va[f] \cap (disk[f] \ tree'[head'][f]), disk[f], content[f])]

LEMMA SplitsKeeps ==
  ASSUME Content, IInv, NEW F \in SUBSET Files, NEW p \in 0..newest, NewCommit(F, p), NEW va, NEW content,
         Splits(va, content, head', p, head), misread \subseteq misread', lost \subseteq lost',
         \A f \in Files \ misread' : OfAI(va[f]) /\ OfAI(Rest(va, content)[f]),
         \A f \in Files : \A x \in tree'[head'][f] :
           x.by = "ai" /\ x \notin tree[p][f] /\ x \notin lost' => x \in va[f],
         \A f \in Files : \A x \in disk[f] :
           x.by = "ai" /\ x \notin tree'[head'][f] /\ x \notin lost' => x \in Rest(va, content)[f]
  PROVE  Content'
<1> DEFINE rest == Rest(va, content)
           c == IF rest = None THEN NoLog ELSE WithInitial(NoLog, rest, content)
           note == [f \in Files |-> va[f] \cap (tree'[head'][f] \ tree'[p][f])]
<1>1. notes' = [notes EXCEPT ![head'] = note] /\ log' = [log EXCEPT ![head] = NoLog, ![head'] = c]
  BY Zenon DEF Splits, Rest
<1>2. /\ newest \in Nat /\ newest' = newest + 1 /\ head' = newest + 1 /\ head' \in Commits /\ head # head'
      /\ \A d \in 0..newest : d \in Commits /\ tree'[d] = tree[d] /\ parent'[d] = parent[d]
      /\ parent'[head'] = p /\ disk' = disk /\ stash' = stash /\ Repo'
  BY NewCommitIs
<1>3. /\ Shape(c) /\ c.sure = {} /\ \A f \in Files : c.attr[f] = {} /\ c.initial[f] = rest[f]
  <2>1. CASE rest = None
    <3>1. c = NoLog /\ \A f \in Files : rest[f] = {}
      BY <2>1 DEF None
    <3> HIDE DEF c, rest
    <3>2. QED
      BY <3>1, NoLogIs
  <2>2. CASE rest # None
    <3> DEFINE w == WithInitial(NoLog, rest, content)
    <3>1. c = w
      BY <2>2
    <3>2. Shape(w) /\ w.sure = NoLog.sure /\ w.attr = NoLog.attr /\ w.initial = rest
      BY NoLogIs, WithInitialIs
    <3> HIDE DEF c, w, rest
    <3>3. QED
      BY <3>1, <3>2, NoLogIs
  <2>3. QED
    BY <2>1, <2>2
<1>4. \A f \in Files : note[f] = va[f] \cap (tree'[head'][f] \ tree[p][f])
  BY <1>2
<1> HIDE DEF c, rest, note
<1>5. log'[head'] = c
  BY <1>1, <1>2 DEF IInv, Only
<1>6. /\ notes' = [d \in Commits |-> notes'[d]] /\ notes'[head'] = note
      /\ \A d \in Commits \ {head'} : notes'[d] = notes[d]
  BY <1>1, <1>2 DEF Content
<1>7. NoteComplete'
  <2> SUFFICES ASSUME NEW d \in 1..newest', NEW f \in Files,
                      NEW x \in tree'[d][f], x.by = "ai", x \notin tree'[parent'[d]][f], x \notin lost'
               PROVE  x \in notes'[d][f]
    BY DEF NoteComplete, AILines
  <2>1. CASE d = head'
    <3>1. x \notin tree[p][f]
      BY <1>2, <2>1
    <3>2. x \in va[f]
      BY <2>1, <3>1
    <3>3. QED
      BY <1>4, <1>6, <2>1, <3>1, <3>2
  <2>2. CASE d # head'
    <3>1. d \in 1..newest /\ d \in 0..newest /\ d \in Commits
      BY <1>2, <2>2
    <3>2. parent[d] \in 0..newest
      BY <3>1, ParentIs DEF Content
    <3>3. x \in tree[d][f] /\ x \notin tree[parent[d]][f]
      BY <1>2, <3>1, <3>2
    <3>4. x \in notes[d][f]
      BY <3>1, <3>3 DEF Content, NoteComplete, AILines
    <3>5. QED
      BY <1>6, <2>2, <3>1, <3>4
  <2>3. QED
    BY <2>1, <2>2
<1>8. \A f \in Files \ misread' : \A d \in Commits : OfAI(notes'[d][f])
  BY <1>4, <1>6 DEF Content, Named, OfAI
<1>9. StashOK' /\ StashKnown' /\ \A f \in Files \ misread' : OfAI(stash'.note[f])
  <2>1. newest' \in Nat /\ newest <= newest'
    BY <1>2
  <2>2. QED
    BY <1>2, <2>1, StashSame
<1>10. \A f \in Files \ misread' : LogNames(c, f)
  BY <1>3 DEF rest, LogNames, OfAI
<1>11. Told(c, disk', tree'[head'], lost')
  BY <1>2, <1>3 DEF rest, Told, Recorded
<1>12. QED
  BY <1>2, <1>3, <1>5, <1>6, <1>7, <1>8, <1>9, <1>10, <1>11, Settle

LEMMA CommitKeeps ==
  ASSUME Content, IInv, IInv', NEW F \in SUBSET Files, Commit(F) PROVE Content'
<1> DEFINE h == HumanCheckpoint(log[head], disk)
           va == [f \in Files |-> IF Touched(h, f) THEN Attributed(h, f, disk) ELSE {}]
<1>0. head \in 0..newest /\ disk \in [Files -> SUBSET Lines]
  BY LogIs
<1>1. /\ NewCommit(F, head) /\ Splits(va, disk, head', head, head)
      /\ Marks(h, PassedOver(h), disk, tree[head], {})
  BY Zenon DEF Commit
<1>2. /\ Told(h, disk, tree[head], lost)
      /\ \A f \in Files \ misread : OfAI(Recorded(h, f))
      /\ \A f \in Files : Recorded(h, f) # {} => Touched(h, f)
      /\ \A f \in Files : f \in PassedOver(h) \/ Reads(h, f)
  BY Begins
<1>3. \A f \in Files : va[f] = IF Touched(h, f) THEN Attributed(h, f, disk) ELSE {}
  OBVIOUS
<1> HIDE DEF h, va
<1>4. /\ misread \subseteq misread' /\ lost \subseteq lost'
      /\ \A f \in Files :
           /\ f \in misread' \/ Reads(h, f)
           /\ \A x \in Recorded(h, f) : x \in disk[f] /\ x.by = "ai" /\ x \notin tree[head][f] /\ x \notin lost'
                => x \in Attributed(h, f, disk)
  BY <1>1, <1>2, MarksSay
<1>5. \A f \in Files : tree'[head'][f] = IF f \in F THEN disk[f] ELSE tree[head][f]
  BY <1>0, <1>1, NewCommitIs
<1>6. \A f \in Files : Rest(va, disk)[f] = va[f] \cap (disk[f] \ tree'[head'][f])
  <2> TAKE f \in Files
  <2>1. disk[f] \in SUBSET Lines
    BY <1>0
  <2>2. Shown(va[f] \cap (disk[f] \ tree'[head'][f]), disk[f], disk[f])
          = (va[f] \cap (disk[f] \ tree'[head'][f])) \cap disk[f]
    BY <2>1, ShownSame
  <2>3. QED
    BY <2>2 DEF Rest
\* Every line of the agent that HEAD has not is attributed.
<1>7. \A f \in Files : \A x \in disk[f] : x.by = "ai" /\ x \notin tree[head][f] /\ x \notin lost' => x \in va[f]
  <2> SUFFICES ASSUME NEW f \in Files, NEW x \in disk[f], x.by = "ai", x \notin tree[head][f], x \notin lost'
               PROVE  x \in va[f]
    OBVIOUS
  <2>1. x \in Recorded(h, f)
    BY <1>2, <1>4 DEF Told
  <2>2. QED
    BY <1>2, <1>3, <1>4, <2>1
<1>8. \A f \in Files \ misread' : OfAI(va[f]) /\ OfAI(Rest(va, disk)[f])
  <2> SUFFICES ASSUME NEW f \in Files \ misread' PROVE OfAI(va[f])
    BY <1>6 DEF OfAI
  <2>1. Reads(h, f) /\ OfAI(Recorded(h, f))
    BY <1>2, <1>4
  <2>2. QED
    BY <1>3, <2>1 DEF Reads, OfAI
<1>9. \A f \in Files : \A x \in tree'[head'][f] :
        x.by = "ai" /\ x \notin tree[head][f] /\ x \notin lost' => x \in va[f]
  BY <1>5, <1>7
<1>10. \A f \in Files : \A x \in disk[f] :
         x.by = "ai" /\ x \notin tree'[head'][f] /\ x \notin lost' => x \in Rest(va, disk)[f]
  BY <1>5, <1>6, <1>7
<1>11. QED
  BY <1>0, <1>1, <1>4, <1>8, <1>9, <1>10, SplitsKeeps

\* Line numbers of a file that are read back against it name the same lines.
LEMMA ShownBack ==
  ASSUME NEW S \in SUBSET Lines, NEW attr, NEW now, NEW kept, kept \subseteq Shown(attr, S, now)
  PROVE  Shown(kept, now, S) \subseteq attr
<1> SUFFICES ASSUME NEW z \in Shown(kept, now, S) PROVE z \in attr
  OBVIOUS
<1>1. PICK y \in kept \cap now : z \in S /\ Row(now, y) = Row(S, z)
  BY DEF Shown
<1>2. PICK m \in attr \cap S : Row(S, m) = Row(now, y)
  BY <1>1 DEF Shown
<1>3. m = z
  BY <1>1, <1>2, RowSame
<1>4. QED
  BY <1>2, <1>3

LEMMA AmendKeeps ==
  ASSUME Content, IInv, IInv', NEW F \in SUBSET Files, Amend(F) PROVE Content'
<1> DEFINE h == HumanCheckpoint(log[head], disk)
           p == parent[head]
           bare == \A f \in Files : Recorded(h, f) = {}
           ByBlame(f) == bare \/ f \notin Known(h)
           content == [f \in Files |-> IF ByBlame(f) THEN tree[head][f] ELSE disk[f]]
           paths == AmendPaths(p, h)
           blame == [f \in Files |-> IF f \in paths THEN Blame(head, f, 0) ELSE {}]
           va == [f \in Files |-> IF ByBlame(f) THEN Shown(blame[f], tree[head][f], disk[f])
                                  ELSE Attributed(h, f, disk) \cup (blame[f] \cap disk[f])]
           wrong == {f \in PassedOver(h) \cup {g \in Files : ByBlame(g)} :
                       va[f] # (Recorded(h, f) \cup blame[f]) \cap disk[f]}
           drop == UNION {AILines(disk[f] \ (tree[p][f] \cap tree'[head'][f])) \ va[f] : f \in wrong}
<1>0. /\ Repo /\ head \in 0..newest /\ disk \in [Files -> SUBSET Lines]
      /\ tree[head] \in [Files -> SUBSET Lines]
  BY LogIs
<1>1. /\ head # 0
      /\ \A f \in Files \ F : tree[head][f] \subseteq disk[f]
      /\ NewCommit(F, p) /\ Splits(va, content, head', p, head)
      /\ misread' = misread \cup wrong /\ lost' = lost \cup drop
  BY Zenon DEF Amend
<1>2. p \in 0..newest
  BY <1>0, <1>1, ParentIs
<1>3. /\ Told(h, disk, tree[head], lost)
      /\ \A f \in Files \ misread : OfAI(Recorded(h, f))
      /\ \A f \in Files : f \in PassedOver(h) \/ Reads(h, f)
  BY Begins
<1>4. \A f \in Files : tree'[head'][f] = IF f \in F THEN disk[f] ELSE tree[head][f]
  BY <1>1, <1>2, NewCommitIs
<1>5. tree'[p] = tree[p]
  BY <1>1, <1>2, NewCommitIs
<1>6. /\ \A f \in Files : ByBlame(f) => Recorded(h, f) = {}
      /\ \A f \in Files : content[f] = IF ByBlame(f) THEN tree[head][f] ELSE disk[f]
      /\ \A f \in Files : va[f] = IF ByBlame(f) THEN Shown(blame[f], tree[head][f], disk[f])
                                  ELSE Attributed(h, f, disk) \cup (blame[f] \cap disk[f])
      /\ \A f \in Files : f \in wrong <=> /\ f \in PassedOver(h) \/ ByBlame(f)
                                          /\ va[f] # (Recorded(h, f) \cup blame[f]) \cap disk[f]
  <2>1. \A f \in Files : ByBlame(f) => Recorded(h, f) = {}
    BY DEF Known, Recorded
  <2>2. \A f \in Files : f \in wrong <=> /\ f \in PassedOver(h) \/ ByBlame(f)
                                         /\ va[f] # (Recorded(h, f) \cup blame[f]) \cap disk[f]
    <3> HIDE DEF va, blame, ByBlame, h
    <3>1. QED
      OBVIOUS
  <2>3. QED
    BY <2>1, <2>2
<1>7. /\ \A f \in Files : blame[f] = IF f \in paths THEN Blame(head, f, 0) ELSE {}
      /\ \A f \in Files : tree'[head'][f] # tree[p][f] => f \in paths
  BY <1>5 DEF AmendPaths
<1>8. \A f \in wrong : \A x \in disk[f] :
        x.by = "ai" /\ x \notin tree[p][f] \cap tree'[head'][f] /\ x \notin lost' => x \in va[f]
  <2> HIDE DEF wrong, va, p
  <2> SUFFICES ASSUME NEW f \in wrong, NEW x \in disk[f], x.by = "ai",
                      x \notin tree[p][f] \cap tree'[head'][f], x \notin va[f]
               PROVE  x \in drop
    BY <1>1
  <2>1. x \in AILines(disk[f] \ (tree[p][f] \cap tree'[head'][f])) \ va[f]
    BY DEF AILines
  <2>2. QED
    BY <2>1, Zenon
<1> HIDE DEF h, p, ByBlame, content, paths, blame, va, wrong, drop
\* What is not read wrong is what is recorded and what blame gives.
<1>9. \A f \in Files \ wrong : va[f] = (Recorded(h, f) \cup blame[f]) \cap disk[f]
  BY <1>3, <1>6 DEF Reads
<1>10. \A f \in Files \ misread' : OfAI(blame[f]) /\ OfAI(va[f])
  <2> SUFFICES ASSUME NEW f \in Files \ misread' PROVE OfAI(blame[f]) /\ OfAI(va[f])
    OBVIOUS
  <2>1. f \notin misread /\ f \notin wrong
    BY <1>1
  <2>2. \A d \in Commits : OfAI(notes[d][f])
    BY <2>1 DEF Content, Named
  <2>3. OfAI(blame[f])
    BY <1>0, <1>7, <2>2, BlameNames DEF OfAI
  <2>4. QED
    BY <1>3, <1>9, <2>1, <2>3 DEF OfAI
<1>11. \A f \in Files : IF ByBlame(f) THEN Rest(va, content)[f] \subseteq blame[f]
                        ELSE Rest(va, content)[f] = va[f] \cap (disk[f] \ tree'[head'][f])
  <2> TAKE f \in Files
  <2>1. CASE ByBlame(f)
    <3>1. Rest(va, content)[f] = Shown(va[f] \cap (disk[f] \ tree'[head'][f]), disk[f], tree[head][f])
      BY <1>6, <2>1 DEF Rest
    <3>2. va[f] \cap (disk[f] \ tree'[head'][f]) \subseteq Shown(blame[f], tree[head][f], disk[f])
      BY <1>6, <2>1
    <3>3. tree[head][f] \in SUBSET Lines
      BY <1>0
    <3>4. QED
      BY <2>1, <3>1, <3>2, <3>3, ShownBack
  <2>2. CASE ~ByBlame(f)
    <3>1. Rest(va, content)[f] = Shown(va[f] \cap (disk[f] \ tree'[head'][f]), disk[f], disk[f])
      BY <1>6, <2>2 DEF Rest
    <3>2. disk[f] \in SUBSET Lines
      BY <1>0
    <3>3. Rest(va, content)[f] = (va[f] \cap (disk[f] \ tree'[head'][f])) \cap disk[f]
      BY <3>1, <3>2, ShownSame
    <3>4. QED
      BY <2>2, <3>3
  <2>3. QED
    BY <2>1, <2>2
<1>12. \A f \in Files \ misread' : OfAI(va[f]) /\ OfAI(Rest(va, content)[f])
  BY <1>10, <1>11 DEF OfAI
<1>13. \A f \in Files : \A x \in tree'[head'][f] :
         x.by = "ai" /\ x \notin tree[p][f] /\ x \notin lost' => x \in va[f]
  <2> SUFFICES ASSUME NEW f \in Files, NEW x \in tree'[head'][f], x.by = "ai", x \notin tree[p][f], x \notin lost'
               PROVE  x \in va[f]
    OBVIOUS
  <2>1. x \in disk[f] /\ x \notin lost
    BY <1>1, <1>4
  <2>2. CASE f \in wrong
    BY <1>8, <2>1, <2>2
  <2>3. CASE f \notin wrong
    <3>1. CASE x \in tree[head][f]
      <4>1. x \in Blame(head, f, 0)
        BY <1>0, <2>1, <3>1, BlameAll DEF Content
      <4>2. x \in blame[f]
        BY <1>7, <4>1
      <4>3. QED
        BY <1>9, <2>1, <2>3, <4>2
    <3>2. CASE x \notin tree[head][f]
      <4>1. x \in Recorded(h, f)
        BY <1>3, <2>1, <3>2 DEF Told
      <4>2. QED
        BY <1>9, <2>1, <2>3, <4>1
    <3>3. QED
      BY <3>1, <3>2
  <2>4. QED
    BY <2>2, <2>3
<1>14. \A f \in Files : \A x \in disk[f] :
         x.by = "ai" /\ x \notin tree'[head'][f] /\ x \notin lost' => x \in Rest(va, content)[f]
  <2> SUFFICES ASSUME NEW f \in Files, NEW x \in disk[f], x.by = "ai", x \notin tree'[head'][f], x \notin lost'
               PROVE  x \in Rest(va, content)[f]
    OBVIOUS
  <2>1. x \notin tree[head][f] /\ x \notin lost
    BY <1>1, <1>4
  <2>2. x \in Recorded(h, f)
    BY <1>3, <2>1 DEF Told
  <2>3. ~ByBlame(f)
    BY <1>6, <2>2
  <2>4. x \in va[f]
    BY <1>8, <1>9, <2>2
  <2>5. QED
    BY <1>11, <2>3, <2>4
<1>15. misread \subseteq misread' /\ lost \subseteq lost'
  BY <1>1
<1>16. QED
  BY <1>1, <1>2, <1>12, <1>13, <1>14, <1>15, SplitsKeeps

(***************************************************************************)
(* What the lines are: the theorems                                        *)
(***************************************************************************)
LEMMA ContentInit == Init => Content
<1> SUFFICES ASSUME Init PROVE Content
  OBVIOUS
<1>1. /\ newest = 0 /\ head = 0 /\ 0 \in Commits /\ parent = [c \in Commits |-> 0]
      /\ tree = [c \in Commits |-> [f \in Files |-> IF c = 0 THEN {Root} ELSE {}]]
      /\ disk = tree[0] /\ log = [c \in Commits |-> NoLog] /\ notes = [c \in Commits |-> None]
      /\ stash = NoStash /\ misread = {} /\ lost = {}
  BY RewriteHooksAssumption DEF Init, Commits
<1>2. Root \in Lines /\ Root.by # "ai"
  BY RewriteHooksAssumption DEF Root, Lines
<1>3. /\ \A c \in Commits : tree[c] \in [Files -> SUBSET Lines]
      /\ \A f \in Files : tree[0][f] = {Root}
  BY <1>1, <1>2
<1>4. \A f \in Files : AILines(tree[0][f]) = {}
  BY <1>2, <1>3 DEF AILines
<1>5. Repo
  <2>1. parent = [c \in Commits |-> parent[c]] /\ parent[0] = 0
    BY <1>1
  <2>2. tree = [c \in Commits |-> tree[c]]
    BY <1>1
  <2>3. newest \in Commits /\ head \in 0..newest /\ \A c \in 1..newest : parent[c] \in 0..(c - 1)
    BY <1>1
  <2>4. disk \in [Files -> SUBSET Lines]
    BY <1>1, <1>3
  <2>5. QED
    BY <1>3, <1>4, <2>1, <2>2, <2>3, <2>4 DEF Repo
<1>6. log[head] = NoLog /\ \A c \in Commits : \A f \in Files : notes[c][f] = {}
  BY <1>1 DEF None
<1>7. StashOK
  BY <1>1, NoStashIs DEF StashOK
<1>8. Named
  BY <1>1, <1>6, NoStashIs, NoLogIs DEF Named, OfAI
<1>9. NoteComplete
  BY <1>1 DEF NoteComplete
<1>10. UncommittedKnown
  <2>1. Told(log[head], disk, tree[head], lost)
    BY <1>1 DEF Told
  <2>2. QED
    BY <2>1, ToldIs DEF UncommittedKnown
<1>11. StashKnown
  BY <1>1, NoStashIs DEF StashKnown
<1>12. QED
  BY <1>1, <1>5, <1>6, <1>7, <1>8, <1>9, <1>10, <1>11, NoLogIs DEF Content

LEMMA ContentNext == IInv /\ Content /\ [Next]_vars => Content'
<1> SUFFICES ASSUME IInv, Content, [Next]_vars PROVE Content'
  OBVIOUS
<1>1. IInv'
  BY NextInv
<1>a. ASSUME NEW f \in Files, AgentEdit(f) PROVE Content'
  BY <1>1, <1>a, AgentEditKeeps
<1>b. ASSUME NEW f \in Files, HumanEdit(f) PROVE Content'
  BY <1>1, <1>b, HumanEditKeeps
<1>c. ASSUME NEW F \in SUBSET Files, Commit(F) PROVE Content'
  BY <1>1, <1>c, CommitKeeps
<1>d. ASSUME NEW F \in SUBSET Files, Amend(F) PROVE Content'
  BY <1>1, <1>d, AmendKeeps
<1>e. ASSUME NEW t \in 0..newest, ResetHard(t) PROVE Content'
  BY <1>1, <1>e, ResetHardKeeps
<1>f. ASSUME NEW t \in 0..newest, ResetBack(t) PROVE Content'
  BY <1>1, <1>f, ResetBackKeeps
<1>g. ASSUME NEW t \in 0..newest, ResetForward(t) PROVE Content'
  BY <1>1, <1>g, ResetForwardKeeps
<1>h. ASSUME NEW t \in 0..newest, ResetPathspecElsewhere(t) PROVE Content'
  BY <1>1, <1>h, ResetPathspecElsewhereKeeps
<1>i. ASSUME NEW P \in SUBSET Files \ {{}}, NEW t \in 0..newest, ResetPathspec(t, P) PROVE Content'
  <2>1. P \in SUBSET Files
    OBVIOUS
  <2>2. QED
    BY <1>1, <1>i, <2>1, ResetPathspecKeeps
<1>j. ASSUME NEW P \in SUBSET Files \ {{}}, NEW bare \in BOOLEAN, StashPush(bare, P) PROVE Content'
  <2>1. P \in SUBSET Files
    OBVIOUS
  <2>2. QED
    BY <1>1, <1>j, <2>1, StashPushKeeps
<1>r. ASSUME NEW P \in SUBSET Files \ {{}}, NEW bare \in BOOLEAN, StashNothing(bare, P) PROVE Content'
  <2>1. P \in SUBSET Files
    OBVIOUS
  <2>2. QED
    BY <1>1, <1>r, <2>1, StashNothingKeeps
<1>k. ASSUME NEW P \in SUBSET Files \ {{}}, CheckoutPathspec(P) PROVE Content'
  <2>1. P \in SUBSET Files
    OBVIOUS
  <2>2. QED
    BY <1>1, <1>k, <2>1, CheckoutPathspecKeeps
<1>l. ASSUME NEW pop \in BOOLEAN, StashRestore(pop) PROVE Content'
  BY <1>1, <1>l, StashRestoreKeeps
<1>m. ASSUME NEW t \in 0..newest, Switch(t) PROVE Content'
  BY <1>1, <1>m, SwitchKeeps
<1>n. ASSUME NEW t \in 0..newest, SwitchForce(t) PROVE Content'
  BY <1>1, <1>n, SwitchForceKeeps
<1>o. ASSUME NEW t \in 0..newest, SwitchMerge(t) PROVE Content'
  BY <1>1, <1>o, SwitchMergeKeeps
<1>p. ASSUME UNCHANGED vars PROVE Content'
  <2>1. UNCHANGED <<newest, parent, tree, head, disk, log, notes, stash, misread, lost>>
    BY <1>p DEF vars, userVars
  <2>2. /\ Repo /\ head \in 0..newest /\ disk \in [Files -> SUBSET Lines] /\ Shape(log[head])
        /\ Told(log[head], disk, tree[head], lost) /\ \A f \in Files \ misread : LogNames(log[head], f)
    BY LogIs
  <2>3. QED
    BY <2>1, <2>2, LogStep
<1>q. QED
  BY <1>a, <1>b, <1>c, <1>d, <1>e, <1>f, <1>g, <1>h, <1>i, <1>j, <1>k, <1>l, <1>m, <1>n, <1>o, <1>p, <1>r
     DEF Next

LEMMA ContentHolds == Spec => [](IInv /\ Content)
<1>1. IInv /\ Content /\ [Next]_vars => (IInv /\ Content)'
  BY NextInv, ContentNext
<1>2. QED
  BY InitInv, ContentInit, <1>1, PTL DEF Spec

THEOREM NoteNamesWriterHolds == Spec => []NoteNamesWriter
<1>1. Content => NoteNamesWriter
  BY DEF Content, Named, OfAI, NoteNamesWriter, AILines
<1>2. QED
  BY ContentHolds, <1>1, PTL

THEOREM NoteCompleteHolds == Spec => []NoteComplete
<1>1. Content => NoteComplete
  BY DEF Content
<1>2. QED
  BY ContentHolds, <1>1, PTL

THEOREM UncommittedKnownHolds == Spec => []UncommittedKnown
<1>1. Content => UncommittedKnown
  BY DEF Content
<1>2. QED
  BY ContentHolds, <1>1, PTL

THEOREM StashKnownHolds == Spec => []StashKnown
<1>1. Content => StashKnown
  BY DEF Content
<1>2. QED
  BY ContentHolds, <1>1, PTL
=============================================================================
