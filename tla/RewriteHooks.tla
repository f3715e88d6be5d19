---------------------------- MODULE RewriteHooks ----------------------------
(***************************************************************************)
(* The hooks that git-ai's wrapper runs around git commands which move HEAD *)
(* or rewrite the work tree (commands/git_handlers.rs, commands/hooks/):    *)
(* commit, commit --amend, reset, stash, checkout and switch.  They carry   *)
(* the attributions of uncommitted lines from one working log to another,   *)
(* and those of commits from one note to another.                           *)
(*                                                                          *)
(* One user and one agent work in turns, so a command with its two hooks is *)
(* one step; WorkingLog has the races.  A line is an identity, a file a set *)
(* of lines in the order of Place, and attributions are a set of lines, the *)
(* agent's.  Where git-ai reads recorded line numbers against a content     *)
(* they were not made for, they land on other lines, see Shown.             *)
(***************************************************************************)
EXTENDS Naturals, FiniteSets

CONSTANTS
  Files,      \* files of the repository; each keeps one line of its first commit
  Place,      \* where a line stands: files list their lines by it
  MaxAI,      \* bound: lines the agent may ever write
  MaxHuman,   \* bound: lines the user may ever write
  MaxCommits, \* bound: commits after the first
  MaxSteps    \* bound: edits and commands of the user

Lines == [by : {"ai", "human"}, n : 0..(MaxAI + MaxHuman)]
Root == [by |-> "human", n |-> 0]
ASSUME RewriteHooksAssumption ==
  /\ {MaxAI, MaxHuman, MaxCommits, MaxSteps} \subseteq Nat
  /\ Place \in [Lines -> Nat] /\ \A l, m \in Lines : Place[l] = Place[m] => l = m

Commits == 0..MaxCommits

VARIABLES
  newest,   \* the youngest commit
  parent,   \* parent[c] : its parent
  tree,     \* tree[c][f] : the lines of file f in commit c
  head,     \* HEAD
  disk,     \* disk[f] : the lines of file f in the work tree
  written,  \* every line ever written
  steps,    \* how many edits and commands of the user there have been
  log,      \* log[c] : the working log of base commit c
  notes,    \* notes[c][f] : the lines that c's note gives to the agent
  stash,    \* stash@{0}, with its note
  \* Observation only, see the properties:
  misread,  \* files whose line numbers were read against another content
  lost      \* lines whose attribution a command is known to drop

userVars == <<newest, parent, tree, head, disk, written>>
vars == <<userVars, steps, log, notes, stash, misread, lost>>

None == [f \in Files |-> {}]
\* Entries of a file: the last one's content and attributions; whether one says
\* who wrote its lines (sure), is of an AI checkpoint (byAI) or names AI lines
\* (touched).
NoLog == [dir |-> FALSE, initial |-> None, snap |-> None, content |-> None, attr |-> None,
          seen |-> {}, sure |-> {}, byAI |-> {}, touched |-> {}]
NoStash == [on |-> FALSE, base |-> 0, content |-> None, note |-> None]
AILines(S) == {l \in S : l.by = "ai"}

(***************************************************************************)
(* Attribution                                                              *)
(***************************************************************************)
\* The lines of new that have the numbers of the lines attr of old.
Row(S, l) == Cardinality({m \in S : Place[m] <= Place[l]})
Shown(attr, old, new) == {l \in new : \E m \in attr \cap old : Row(old, m) = Row(new, l)}

\* Broken variant: INITIAL wins over the entries.
RecordedInitialFirst(l, f) == IF l.initial[f] # {} THEN l.initial[f] ELSE l.attr[f]

\* from_just_working_log: the last entry that says who wrote its lines, or else
\* INITIAL, with the content that the numbers were made for.
Recorded(l, f) == IF f \in l.sure THEN l.attr[f] ELSE l.initial[f]
MadeFor(l, f) == IF f \in l.sure THEN l.content[f] ELSE l.snap[f]
Known(l) == l.sure \cup {f \in Files : l.initial[f] # {}}
\* It reads them against the file that it finds.
Attributed(l, f, now) == Shown(Recorded(l, f), MadeFor(l, f), now[f])
Shifts(l, f, now) == Attributed(l, f, now) # Recorded(l, f) \cap now[f]

\* Commits of the history of c, and the one that brought line x into file f.
History == LET H[c \in 0..newest] == IF c = 0 THEN {0} ELSE {c} \cup H[parent[c]] IN H
Origin(x, f, c) == CHOOSE o \in History[c] :
  LET Brought(p) == x \in tree[p][f] /\ (p = 0 \/ x \notin tree[parent[p]][f])
  IN  Brought(o) /\ \A p \in History[c] : Brought(p) => p <= o
\* Broken variant: only the lines of c itself.
BlameTip(c, f, from) == {x \in tree[c][f] : Origin(x, f, c) = c /\ x \in notes[c][f]}

\* new_for_base_commit: lines of f in c that the note of their commit gives to
\* the agent, where history ends at from.
Blame(c, f, from) == {x \in tree[c][f] :
  LET o == Origin(x, f, c) IN o \notin History[from] \ {from} /\ x \in notes[o][f]}

(***************************************************************************)
(* Checkpoints (commands/checkpoint.rs)                                     *)
(***************************************************************************)
\* What a checkpoint compares the file with.
Previous(l, f) ==
  IF f \in l.seen THEN [content |-> l.content[f], attr |-> l.attr[f]]
  ELSE IF l.initial[f] # {} THEN [content |-> l.snap[f], attr |-> l.initial[f]]
  ELSE [content |-> tree[head][f], attr |-> {}]
Touched(l, f) == f \in l.touched \/ l.initial[f] # {}
HasNews(l, f, now) ==
  now[f] # Previous(l, f).content \/ (f \notin l.seen /\ l.initial[f] # {})

\* The log after a checkpoint of the files S: old lines keep their author.
Checkpointed(l, S, byAI, now) ==
  LET attr == [f \in Files |->
        IF f \notin S THEN l.attr[f]
        ELSE (Previous(l, f).attr \cap now[f])
               \cup (IF byAI THEN now[f] \ Previous(l, f).content ELSE {})]
      says == {f \in S : byAI \/ Touched(l, f)}
  IN  [l EXCEPT !.dir = TRUE, !.seen = @ \cup S, !.sure = @ \cup says, !.attr = attr,
                !.content = [f \in Files |-> IF f \in S THEN now[f] ELSE @[f]],
                !.byAI = @ \cup (IF byAI THEN S ELSE {}),
                !.touched = @ \cup {f \in S : byAI \/ attr[f] # {}}]

\* It is left out where no AI checkpoint and no INITIAL is in the log, though
\* human checkpoints may have taken attributions over from an INITIAL.
Skipped(l) == l.byAI = {} /\ l.initial = None

\* Broken variant: an INITIAL alone is no reason for a checkpoint.
HumanCheckpointByAIOnly(l, now) ==
  LET S == {f \in Files : Touched(l, f) /\ now[f] # tree[head][f] /\ HasNews(l, f, now)}
  IN  IF l.byAI = {} THEN [l EXCEPT !.dir = TRUE] ELSE Checkpointed(l, S, FALSE, now)

\* Broken variant: files with an entry need no further one.
HumanCheckpointOnce(l, now) ==
  LET S == {f \in Files \ l.seen : Touched(l, f) /\ now[f] # tree[head][f] /\ HasNews(l, f, now)}
  IN  IF Skipped(l) THEN [l EXCEPT !.dir = TRUE] ELSE Checkpointed(l, S, FALSE, now)

\* The human checkpoint with which the hooks of commit, reset and stash begin:
\* of changed files that AI has touched, if there are any.
HumanCheckpoint(l, now) ==
  LET S == {f \in Files : Touched(l, f) /\ now[f] # tree[head][f] /\ HasNews(l, f, now)}
  IN  IF Skipped(l) THEN [l EXCEPT !.dir = TRUE] ELSE Checkpointed(l, S, FALSE, now)

(***************************************************************************)
(* Working logs (git/repo_storage.rs)                                       *)
(***************************************************************************)
\* write_initial_attributions_with_contents keeps files with attributions.
WithInitial(l, initial, content) ==
  [l EXCEPT !.dir = TRUE, !.initial = initial,
            !.snap = [f \in Files |-> IF initial[f] = {} THEN {} ELSE content[f]]]
\* rename_working_log: not over a log that is there.
Renamed(logs, a, b) ==
  IF logs[a].dir /\ ~logs[b].dir THEN [logs EXCEPT ![b] = logs[a], ![a] = NoLog] ELSE logs

\* Lines of the agent on disk that neither the commit has nor the log knows.
Unrecorded(l, now, base, S) ==
  UNION {AILines(now[f] \ base[f]) \ Recorded(l, f) : f \in S}

\* Of the files S, those that are read against another content are marked, and
\* so are the lines that this, or the command otherwise, is known to drop.
Marks(l, S, now, base, dropped) ==
  LET shifted == {f \in S : Shifts(l, f, now)}
  IN  /\ misread' = misread \cup shifted
      /\ lost' = lost \cup dropped \cup
           UNION {AILines(now[f] \ base[f]) \ Attributed(l, f, now) : f \in shifted}
\* The checkpoint passes over files that are as HEAD has them.
PassedOver(l) == {f \in Files : Skipped(l) \/ disk[f] = tree[head][f]}

\* A merge of what now has on top of old into new, line by line.
Merged(now, old, new) ==
  [f \in Files |-> (now[f] \cap new[f]) \cup (now[f] \ old[f]) \cup (new[f] \ old[f])]

(***************************************************************************)
(* The user and the agent                                                   *)
(***************************************************************************)
\* A step of the user: bounded.
Counts == steps < MaxSteps /\ steps' = steps + 1

Bound(by) == IF by = "ai" THEN MaxAI ELSE MaxHuman
Fresh(by) == {l \in Lines : l.by = by /\ l.n = 1 + Cardinality({k \in written : k.by = by /\ k # Root})
                            /\ l.n <= Bound(by)}

\* The user writes or deletes a line, which git-ai does not see.
HumanEdit(f) ==
  /\ Counts
  /\ \/ \E x \in Fresh("human") :
          disk' = [disk EXCEPT ![f] = @ \cup {x}] /\ written' = written \cup {x}
     \/ \E x \in disk[f] \ {Root} :
          disk' = [disk EXCEPT ![f] = @ \ {x}] /\ UNCHANGED written
  /\ UNCHANGED <<newest, parent, tree, head, log, notes, stash, misread, lost>>

\* The agent writes a line, between a human checkpoint of the file and its own.
AgentEdit(f) ==
  \E x \in Fresh("ai") :
    LET before == IF HasNews(log[head], f, disk)
                  THEN Checkpointed(log[head], {f}, FALSE, disk) ELSE log[head]
    IN  /\ disk' = [disk EXCEPT ![f] = @ \cup {x}]
        /\ written' = written \cup {x}
        /\ log' = [log EXCEPT ![head] = Checkpointed(before, {f}, TRUE, disk')]
        /\ UNCHANGED <<steps, newest, parent, tree, head, notes, stash, misread, lost>>

(***************************************************************************)
(* git commit (authorship/post_commit.rs, rebase_authorship.rs)             *)
(***************************************************************************)
\* A commit of the whole files F, and of the others as base has them.
Snapshot(F, base) == [f \in Files |-> IF f \in F THEN disk[f] ELSE tree[base][f]]
\* The note takes the attributed lines that commit c brings to p, INITIAL of c
\* those that are still uncommitted; the log of the commit before is deleted.
Splits(va, content, c, p, from) ==
  /\ notes' = [notes EXCEPT ![c] = [f \in Files |-> va[f] \cap (tree'[c][f] \ tree'[p][f])]]
  /\ LET rest == [f \in Files |->
                   Shown(va[f] \cap (disk[f] \ tree'[c][f]), disk[f], content[f])]
     IN  log' = [log EXCEPT ![from] = NoLog,
                            ![c] = IF rest = None THEN NoLog ELSE WithInitial(NoLog, rest, content)]
NewCommit(F, p) ==
  /\ newest < MaxCommits
  /\ newest' = newest + 1 /\ head' = newest + 1
  /\ parent' = [parent EXCEPT ![newest + 1] = p]
  /\ tree' = [tree EXCEPT ![newest + 1] = Snapshot(F, head)]
  /\ UNCHANGED <<disk, written, stash>>

Commit(F) ==
  LET l == HumanCheckpoint(log[head], disk)
  IN  /\ Counts
      /\ Snapshot(F, head) # tree[head]
      /\ NewCommit(F, head)
      /\ Splits([f \in Files |-> IF Touched(l, f) THEN Attributed(l, f, disk) ELSE {}],
                disk, head', head, head)
      /\ Marks(l, PassedOver(l), disk, tree[head], {})

\* The files of the amended commit and of the log's entries.
AmendPaths(p, l) == {f \in Files : tree'[head'][f] # tree'[p][f]} \cup l.seen

\* from_working_log_for_commit: attributions of the log, and those of the
\* commit's blame where the log knows the file.  For other files, and where the
\* log has none at all, blame's line numbers are those of the old commit, while
\* they are then read as if they were the work tree's.
Amend(F) ==
  LET l == HumanCheckpoint(log[head], disk)
      p == parent[head]
      bare == \A f \in Files : Recorded(l, f) = {}
      ByBlame(f) == bare \/ f \notin Known(l)
      content == [f \in Files |-> IF ByBlame(f) THEN tree[head][f] ELSE disk[f]]
  IN  /\ Counts
      /\ head # 0 /\ Snapshot(F, head) # tree[p]
      /\ \A f \in Files \ F : tree[head][f] \subseteq disk[f]
      /\ NewCommit(F, p)
      /\ LET paths == AmendPaths(p, l)
             blame == [f \in Files |-> IF f \in paths THEN Blame(head, f, 0) ELSE {}]
             va == [f \in Files |-> IF ByBlame(f) THEN Shown(blame[f], tree[head][f], disk[f])
                                    ELSE Attributed(l, f, disk) \cup (blame[f] \cap disk[f])]
             wrong == {f \in PassedOver(l) \cup {g \in Files : ByBlame(g)} :
                         va[f] # (Recorded(l, f) \cup blame[f]) \cap disk[f]}
         IN  /\ Splits(va, content, head', p, head)
             /\ misread' = misread \cup wrong
             /\ lost' = lost \cup UNION {AILines(disk[f] \ (tree[p][f] \cap tree'[head'][f])) \ va[f] :
                                         f \in wrong}

(***************************************************************************)
(* git reset (commands/hooks/reset_hooks.rs)                                *)
(***************************************************************************)
\* reconstruct_working_log_after_reset: INITIAL of the target from the log and
\* from the notes of the commits that are undone, for the files of the paths P
\* that such a note names.
Undone(t) == History[head] \ History[t]
ResetPaths(t, P) ==
  {f \in P : tree[t][f] # tree[head][f] /\ \E c \in Undone(t) : notes[c][f] # {}}
\* Broken variant: with no such file, HEAD's log stays.
ReconstructedIfAny(l, t, paths) ==
  IF paths = {} THEN log
  ELSE [log EXCEPT ![head] = NoLog,
          ![t] = WithInitial(NoLog,
             [f \in Files |-> IF f \notin paths THEN {}
                ELSE (Attributed(l, f, disk) \cup Blame(head, f, t) \cup Blame(t, f, t)) \cap disk[f]],
             disk)]

Reconstructed(l, t, paths) ==
  IF paths = {} THEN [log EXCEPT ![head] = NoLog]
  ELSE [log EXCEPT ![head] = NoLog,
          ![t] = WithInitial(NoLog,
             [f \in Files |-> IF f \notin paths THEN {}
                ELSE (Attributed(l, f, disk) \cup Blame(head, f, t) \cup Blame(t, f, t)) \cap disk[f]],
             disk)]

\* --hard discards the work tree, and HEAD's log with it.
ResetHard(t) ==
  /\ Counts
  /\ t \in History[head] \/ head \in History[t]
  /\ head' = t /\ disk' = tree[t]
  /\ log' = [log EXCEPT ![head] = NoLog]
  /\ UNCHANGED <<newest, parent, tree, written, notes, stash, misread, lost>>

\* --soft and --mixed back to an ancestor.
ResetBack(t) ==
  LET l == HumanCheckpoint(log[head], disk)
      paths == ResetPaths(t, Files)
  IN  /\ Counts
      /\ t \in History[head] \ {head}
      /\ head' = t
      /\ log' = Reconstructed(l, t, paths)
      /\ Marks(l, PassedOver(l) \cap paths, disk, tree[t], Unrecorded(NoLog, disk, tree[t], Files \ paths))
      /\ UNCHANGED <<newest, parent, tree, disk, written, notes, stash>>

\* Forward, or to where HEAD is: the log moves along.
ResetForward(t) ==
  LET l == HumanCheckpoint(log[head], disk)
  IN  /\ Counts
      /\ head \in History[t]
      /\ head' = t
      /\ log' = Renamed([log EXCEPT ![head] = l], head, t)
      /\ lost' = lost \cup UNION {AILines(tree[head][f] \cap disk[f]) \ tree[t][f] : f \in Files}
      /\ UNCHANGED <<newest, parent, tree, disk, written, notes, stash, misread>>

\* git reset [t] -- P changes the index only, but the log is rebuilt: what is
\* left is the entries of other files.
ResetPathspec(t, P) ==
  LET l == HumanCheckpoint(log[head], disk)
      Kept(S) == S \ P
      kept == [NoLog EXCEPT !.dir = TRUE, !.seen = Kept(l.seen), !.sure = Kept(l.sure),
                            !.byAI = Kept(l.byAI), !.touched = Kept(l.touched),
                            !.content = [f \in Files |-> IF f \in P THEN {} ELSE l.content[f]],
                            !.attr = [f \in Files |-> IF f \in P THEN {} ELSE l.attr[f]]]
  IN  /\ Counts
      /\ t \in History[head]
      /\ log' = [Reconstructed(l, t, ResetPaths(t, P)) EXCEPT ![t] = NoLog, ![head] = kept]
      /\ lost' = lost \cup Unrecorded(kept, disk, tree[head], P \cup (Files \ l.sure))
      /\ UNCHANGED <<userVars, notes, stash, misread>>

\* To a commit that is no ancestor: nothing but the checkpoint.
ResetPathspecElsewhere(t) ==
  /\ Counts
  /\ t \notin History[head]
  /\ log' = [log EXCEPT ![head] = HumanCheckpoint(@, disk)]
  /\ UNCHANGED <<userVars, notes, stash, misread, lost>>

(***************************************************************************)
(* git stash (commands/hooks/stash_hooks.rs)                                *)
(***************************************************************************)
\* What the hook before a push leaves; a bare git stash takes no checkpoint.
BeforePush(bare) ==
  IF bare THEN [log[head] EXCEPT !.dir = TRUE] ELSE HumanCheckpoint(log[head], disk)
\* delete_working_log_for_files: INITIAL of the files is dropped, their entries
\* stay.
Forgotten(l, S) ==
  [l EXCEPT !.initial = [f \in Files |-> IF f \in S THEN {} ELSE @[f]],
            !.snap = [f \in Files |-> IF f \in S THEN {} ELSE @[f]]]

\* The line numbers of the log become the stash's note.
StashPush(bare, P) ==
  LET l == BeforePush(bare)
      noted == {f \in P : Recorded(l, f) # {}}
  IN  /\ Counts
      /\ ~stash.on /\ (bare => P = Files)
      /\ \E f \in P : disk[f] # tree[head][f]
      /\ stash' = [on |-> TRUE, base |-> head,
                   content |-> [f \in Files |-> IF f \in P THEN disk[f] ELSE tree[head][f]],
                   note |-> [f \in Files |-> IF f \in noted THEN Attributed(l, f, disk) ELSE {}]]
      /\ disk' = [f \in Files |-> IF f \in P THEN tree[head][f] ELSE disk[f]]
      /\ log' = [log EXCEPT ![head] = Forgotten(l, noted)]
      /\ Marks(l, IF bare THEN noted ELSE noted \cap PassedOver(l), disk, tree[head], {})
      /\ UNCHANGED <<newest, parent, tree, head, written, notes>>

\* A push that finds nothing to save succeeds as well.  The hook takes the stash
\* that is there for the one it made: the log's line numbers replace its note.
StashNothing(bare, P) ==
  LET l == BeforePush(bare)
      noted == {f \in P : Recorded(l, f) # {}}
      note == [f \in Files |-> IF f \in noted
                                 THEN Shown(Recorded(l, f), MadeFor(l, f), stash.content[f]) ELSE {}]
  IN  /\ Counts
      /\ bare => P = Files
      /\ \A f \in P : disk[f] = tree[head][f]
      /\ IF stash.on /\ noted # {}
           THEN /\ stash' = [stash EXCEPT !.note = note]
                /\ log' = [log EXCEPT ![head] = Forgotten(l, noted)]
                /\ misread' = misread \cup
                     {f \in noted : note[f] # Recorded(l, f) \cap stash.content[f]}
                /\ lost' = lost \cup UNION {AILines(stash.note[f]) \ note[f] : f \in Files}
           ELSE /\ log' = [log EXCEPT ![head] = l]
                /\ UNCHANGED <<stash, misread, lost>>
      /\ UNCHANGED <<newest, parent, tree, head, disk, written, notes>>

\* pop or apply where the files are clean: the note becomes HEAD's INITIAL, in
\* the place of the INITIAL that is there.
StashRestore(pop) ==
  LET stashed == {f \in Files : stash.content[f] # tree[stash.base][f]}
      now == Merged(stash.content, tree[stash.base], tree[head])
      l == IF stash.note = None THEN log[head]
           ELSE WithInitial(log[head], stash.note, stash.content)
      hidden == {f \in Files : IF f \in l.sure THEN f \in stashed ELSE log[head].initial[f] # {}}
  IN  /\ Counts
      /\ stash.on
      /\ \A f \in stashed : disk[f] = tree[head][f]
      /\ disk' = [f \in Files |-> IF f \in stashed THEN now[f] ELSE disk[f]]
      /\ log' = [log EXCEPT ![head] = l]
      /\ stash' = IF pop THEN NoStash ELSE stash
      /\ lost' = lost \cup Unrecorded(l, disk', tree[head], hidden)
      /\ UNCHANGED <<newest, parent, tree, head, written, notes, misread>>

(***************************************************************************)
(* git checkout and git switch (checkout_hooks.rs, switch_hooks.rs)         *)
(***************************************************************************)
\* git checkout -- P: the log forgets the files.
CheckoutPathspec(P) ==
  LET l == log[head]
      Without(r) == [f \in Files |-> IF f \in P THEN {} ELSE r[f]]
  IN  /\ Counts
      /\ disk' = [f \in Files |-> IF f \in P THEN tree[head][f] ELSE disk[f]]
      /\ log' = [log EXCEPT ![head] =
                   [dir |-> TRUE, initial |-> Without(l.initial), snap |-> Without(l.snap),
                    content |-> Without(l.content), attr |-> Without(l.attr),
                    seen |-> l.seen \ P, sure |-> l.sure \ P, byAI |-> l.byAI \ P,
                    touched |-> l.touched \ P]]
      /\ UNCHANGED <<newest, parent, tree, head, written, notes, stash, misread, lost>>

\* To another commit, with the changes that git can leave as they are.
Switch(t) ==
  /\ Counts
  /\ t \in 0..newest \ {head}
  /\ \A f \in Files : tree[t][f] # tree[head][f] => disk[f] = tree[head][f]
  /\ head' = t
  /\ disk' = [f \in Files |-> IF tree[t][f] = tree[head][f] THEN disk[f] ELSE tree[t][f]]
  /\ log' = Renamed(log, head, t)
  /\ UNCHANGED <<newest, parent, tree, written, notes, stash, misread, lost>>

\* -f discards the changes; the log only if HEAD moves.
SwitchForce(t) ==
  /\ Counts
  /\ t \in 0..newest
  /\ head' = t /\ disk' = tree[t]
  /\ log' = IF t = head THEN log ELSE [log EXCEPT ![head] = NoLog]
  /\ UNCHANGED <<newest, parent, tree, written, notes, stash, misread, lost>>

\* --merge: attributions are read before and restored after it, without a
\* checkpoint; restore_stashed_va leaves uncommitted lines only.
SwitchMerge(t) ==
  LET l == log[head]
      now == Merged(disk, tree[head], tree[t])
      files == {f \in Files : Recorded(l, f) # {}}
      va == [f \in Files |-> (Attributed(l, f, disk) \cap now[f]) \ tree[t][f]]
  IN  /\ Counts
      /\ t \in 0..newest \ {head} /\ disk # tree[head]
      /\ head' = t /\ disk' = now
      /\ log' = IF files = {} THEN Renamed(log, head, t)
                ELSE [log EXCEPT ![head] = NoLog,
                        ![t] = IF va = None THEN [@ EXCEPT !.dir = TRUE] ELSE WithInitial(@, va, now)]
      /\ Marks(l, files, disk, tree[t], {})
      /\ UNCHANGED <<newest, parent, tree, written, notes, stash>>

Init ==
  /\ newest = 0 /\ head = 0 /\ parent = [c \in Commits |-> 0]
  /\ tree = [c \in Commits |-> [f \in Files |-> IF c = 0 THEN {Root} ELSE {}]]
  /\ disk = tree[0] /\ written = {Root} /\ steps = 0
  /\ log = [c \in Commits |-> NoLog] /\ notes = [c \in Commits |-> None] /\ stash = NoStash
  /\ misread = {} /\ lost = {}

Next ==
  \/ \E f \in Files : AgentEdit(f) \/ HumanEdit(f)
  \/ \E F \in SUBSET Files : Commit(F) \/ Amend(F)
  \/ \E t \in 0..newest : \/ ResetHard(t) \/ ResetBack(t) \/ ResetForward(t)
                          \/ ResetPathspecElsewhere(t)
                          \/ Switch(t) \/ SwitchForce(t) \/ SwitchMerge(t)
  \/ \E P \in SUBSET Files \ {{}} : \/ \E t \in 0..newest : ResetPathspec(t, P)
                                    \/ \E bare \in BOOLEAN : StashPush(bare, P) \/ StashNothing(bare, P)
                                    \/ CheckoutPathspec(P)
  \/ \E pop \in BOOLEAN : StashRestore(pop)

Spec == Init /\ [][Next]_vars

(***************************************************************************)
(* Properties                                                               *)
(***************************************************************************)
\* Whatever sequence of rewriting commands it went through, a commit's note
\* gives no line that the user wrote to the agent.  The exceptions are files of
\* which some command read line numbers against another content: amend, of a
\* file that its log does not know, see Amend; stash without push and checkout
\* --merge, which take no checkpoint; and any command, where the checkpoint
\* passes over a file although the log has old entries of it: stash leaves
\* them, and so does a user who undoes the changes by hand.
NoteNamesWriter ==
  \A c \in Commits : \A f \in Files \ misread : notes[c][f] \subseteq AILines(notes[c][f])

\* A commit's note has every line of the agent that the commit brought, also
\* if it came by way of resets, stashes, amends and other branches, unless one
\* of them dropped its attribution where the code is known to, see Marks.
NoteComplete ==
  \A c \in 1..newest : \A f \in Files :
    AILines(tree[c][f] \ tree[parent[c]][f]) \ notes[c][f] \subseteq lost

\* The working log of HEAD knows every line of the agent in the work tree that
\* HEAD has not.  git-ai's standard (specs/git_ai_standard_v3.0.0.md, 2.3) asks
\* it of resets without exception; lost has what the code leaves out: a reset
\* keeps only files that an undone commit's note names, one of paths also
\* forgets INITIAL and the paths, one forward the lines its target lacks, and a
\* popped stash replaces INITIAL and yields to entries.
UncommittedKnown == Unrecorded(log[head], disk, tree[head], Files) \subseteq lost

\* The note of a stash has every line of the agent that was stashed, unless a
\* push that saved nothing replaced the note by one without it.
StashKnown ==
  stash.on => \A f \in Files :
    AILines(stash.content[f] \ tree[stash.base][f]) \ stash.note[f] \subseteq lost

\* No command leaves a working log behind, where a later one that comes to its
\* commit would find it and take its attributions, or not move its own there.
OnlyHeadLog == \A c \in Commits \ {head} : log[c] = NoLog
=============================================================================
