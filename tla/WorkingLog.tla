----------------------------- MODULE WorkingLog -----------------------------
(***************************************************************************)
(* The working logs of git-ai, .git/ai/working_logs/<base commit>/, and the *)
(* processes that share them: the checkpoints that agents' hooks start      *)
(* (commands/checkpoint.rs) and post-commit (authorship/post_commit.rs).    *)
(* They read checkpoints.jsonl, append in memory and write the whole file   *)
(* back (git/repo_storage.rs); no lock holds the three together.            *)
(*                                                                          *)
(* A line is an identity, [by, n]: who really wrote it.  A file is a set of *)
(* lines, in the order of Place.  Attributions are sets of <<line, agent>>; *)
(* a line in none is taken for human.  git-ai records them by line number,  *)
(* so what is read against another content lands on other lines, see Shown. *)
(***************************************************************************)
EXTENDS Naturals, Sequences, FiniteSets

CONSTANTS
  Agents,     \* AI agents, each with one session
  Human,      \* everyone else
  Files,      \* files of the repository
  Place,      \* where a line stands: files list their lines by it
  MaxLines,   \* bound: the lines that may ever be written by one writer
  MaxCommits, \* bound: commits
  Budgets     \* bounds: what one run may hold, see budget

Git == "git"  \* the process of git-ai post-commit

ASSUME WorkingLogAssumption ==
  /\ IsFiniteSet(Agents) /\ Human \notin Agents /\ {MaxLines, MaxCommits} \subseteq Nat
  /\ Git \notin Agents /\ Files # {} /\ \A x \in Budgets : x.commits \in 0..MaxCommits
  /\ Place \in [[by : Agents \cup {Human}, n : 1..MaxLines] -> Nat]
  /\ \A l, m \in DOMAIN Place : Place[l] = Place[m] => l = m

Procs == Agents \cup {Git}
Commits == 0..MaxCommits
Lines == [by : Agents \cup {Human}, n : 1..MaxLines]
Attr == SUBSET (Lines \X Agents)

VARIABLES
  budget,    \* lines each agent writes, lines people write or delete, commits
  head,      \* HEAD; commit c's parent is c - 1
  tree,      \* tree[c][f] : the lines of file f in commit c
  disk,      \* disk[f] : the lines of file f in the work tree
  written,   \* every line ever written
  log,       \* log[b] : the working log of base commit b
  session,   \* session[g] : where agent g is between its two hooks
  proc,      \* proc[p] : the git-ai process that p waits for
  notes,     \* notes[c] : attributions of commit c's note
  \* Observation only:
  appended,  \* appended[b] : checkpoints whose append to b's log succeeded
  settled,   \* settled[b] : those of them in the log when nobody used it
  credited,  \* lines whose agent's checkpoint succeeded
  halfRead,  \* base commits whose checkpoints.jsonl was read half written
  contended, \* base commits that two processes were busy with at once
  mixed,     \* lines written to a file that an agent was just editing
  astray,    \* commits whose post-commit failed, or saw files change
  unseen     \* <<commit, file>> whose last edit post-commit passed over

userVars == <<budget, head, tree, disk, written, session>>
ghosts == <<appended, settled, credited, halfRead, contended, mixed, astray, unseen>>
vars == <<userVars, log, proc, notes, ghosts>>

Empty == [f \in Files |-> {}]
NoLog == [dir |-> FALSE, file |-> "whole", open |-> {}, cps |-> <<>>,
          initial |-> Empty, snap |-> Empty]
Idle == [pc |-> "off", kind |-> "human", files |-> {}, base |-> 0, n |-> 0,
         cps |-> <<>>, entries |-> <<>>, next |-> "off", carry |-> Empty, snap |-> Empty]

At(p, pc) == proc[p].pc = pc
Running(p) == ~At(p, "off")
Ids(cps) == {cps[i].id : i \in DOMAIN cps}
\* The logs that a process reads and writes: post-commit also those of the
\* commit it is about.
Busy(p) == IF ~Running(p) THEN {}
           ELSE {proc[p].base} \cup (IF p = Git THEN {proc[p].base + 1} ELSE {})
Crowd(p, bases) == {b \in bases : \E q \in Procs \ {p} : b \in Busy(q)}

(***************************************************************************)
(* Attribution (checkpoint.rs, virtual_attribution.rs)                      *)
(***************************************************************************)
With(cps, f) == {i \in DOMAIN cps : f \in DOMAIN cps[i].entries}
LastOf(S) == CHOOSE i \in S : \A j \in S : j <= i
AttrLines(A) == {x[1] : x \in A}

\* Attributions of the lines of old, by line number, read against new.
Row(S, l) == Cardinality({m \in S : Place[m] <= Place[l]})
Shown(attr, old, new) ==
  {x \in new \X Agents : \E l \in old : <<l, x[2]>> \in attr /\ Row(old, l) = Row(new, x[1])}

\* build_previous_file_state_maps: files that AI has touched.
AITouched(cps, initial, f) ==
  \/ initial[f] # {}
  \/ \E i \in With(cps, f) : cps[i].kind # "human" \/ cps[i].entries[f].attr # {}

\* What a checkpoint of file f compares with: the last recorded state, or else
\* INITIAL's snapshot, or else the base commit.  Where INITIAL is used, an AI
\* checkpoint also claims the lines that neither it nor the commit knows.
Previous(p, l, cps, f) ==
  LET S == With(cps, f)
      base == tree[proc[p].base][f]
      rest == l.snap[f] \ (base \cup AttrLines(l.initial[f]))
  IN  IF S # {} THEN cps[LastOf(S)].entries[f]
      ELSE IF l.initial[f] = {} THEN [content |-> base, attr |-> {}, blank |-> TRUE]
      ELSE [content |-> l.snap[f], blank |-> FALSE,
            attr |-> l.initial[f] \cup (IF proc[p].kind = "human" THEN {} ELSE rest \X {p})]

\* get_status_of_files, where no paths are given: against HEAD, which has moved
\* when post-commit looks; without AI checkpoints untracked files are skipped.
InStatus(cps, f) ==
  /\ disk[f] # tree[head][f]
  /\ tree[head][f] # {} \/ \E i \in DOMAIN cps : cps[i].kind # "human"

\* get_checkpoint_entry_for_file returns an entry for f.
HasEntry(p, l, cps, f) ==
  LET prev == Previous(p, l, cps, f)
  IN  /\ p = Git => AITouched(cps, l.initial, f) /\ InStatus(cps, f)
      /\ \/ disk[f] # prev.content
         \/ With(cps, f) = {} /\ l.initial[f] # {}

\* A file that changed since its last checkpoint, which post-commit does not see.
PassedOver(p, l, cps, f) ==
  /\ p = Git /\ AITouched(cps, l.initial, f) /\ ~InStatus(cps, f)
  /\ disk[f] # Previous(p, l, cps, f).content

\* Broken variant: an AI checkpoint claims every line that has no author yet.
EntryClaimingAll(p, l, cps, f) ==
  LET prev == Previous(p, l, cps, f)
      new == IF proc[p].kind = "human" THEN {} ELSE (disk[f] \ AttrLines(prev.attr)) \X {p}
  IN  [content |-> disk[f],
       attr |-> {x \in prev.attr : x[1] \in disk[f]} \cup new,
       blank |-> proc[p].kind = "human" /\ ~AITouched(cps, l.initial, f)]

\* The entry: old lines keep their author, new ones get the checkpoint's; a
\* file no AI has touched gets no attributions at all.
Entry(p, l, cps, f) ==
  LET prev == Previous(p, l, cps, f)
      new == IF proc[p].kind = "human" THEN {} ELSE (disk[f] \ prev.content) \X {p}
  IN  [content |-> disk[f],
       attr |-> {x \in prev.attr : x[1] \in disk[f]} \cup new,
       blank |-> proc[p].kind = "human" /\ ~AITouched(cps, l.initial, f)]

Entries(p, l, cps) ==
  [f \in {h \in proc[p].files : HasEntry(p, l, cps, h)} |-> Entry(p, l, cps, f)]

\* Broken variant: the first checkpoint of a file wins.
RecordedFirst(l, cps, content, f) ==
  LET S == {i \in With(cps, f) : cps[i].entries[f].attr # {}}
  IN  IF S = {} THEN [attr |-> l.initial[f], content |-> l.snap[f]]
      ELSE [attr |-> cps[CHOOSE i \in S : \A j \in S : i <= j].entries[f].attr,
            content |-> cps[CHOOSE i \in S : \A j \in S : i <= j].entries[f].content]

\* from_just_working_log: INITIAL, overridden by the last checkpoint that
\* carries attributions, or that says there are none left; with the content
\* they were made for.
Recorded(l, cps, content, f) ==
  LET S == {i \in With(cps, f) :
              ~cps[i].entries[f].blank /\ (cps[i].entries[f].attr # {} \/ content # {})}
  IN  IF S = {} THEN [attr |-> l.initial[f], content |-> l.snap[f]]
      ELSE [attr |-> cps[LastOf(S)].entries[f].attr, content |-> cps[LastOf(S)].entries[f].content]
\* It reads them against the file as it is now.
Attributed(l, cps, f) ==
  LET r == Recorded(l, cps, disk[f], f) IN Shown(r.attr, r.content, disk[f])

(***************************************************************************)
(* The user, the agents and git                                             *)
(***************************************************************************)
InTool(g) == session[g].phase = "pre" \/ Running(g)
Editing(f) == {g \in Agents : InTool(g) /\ session[g].file = f}
Fresh(w) == {l \in Lines \ written : l.by = w /\ \A k \in Lines \ written : k.by = w => l.n <= k.n}

\* Someone writes a line, or deletes one, without git-ai's knowledge.
HumanEdit(f) ==
  /\ Cardinality({l \in written : l.by = Human \/ \A h \in Files : l \notin disk[h]}) < budget.human
  /\ \/ \E l \in Fresh(Human) :
          /\ disk' = [disk EXCEPT ![f] = @ \cup {l}]
          /\ written' = written \cup {l}
          /\ mixed' = IF Editing(f) = {} THEN mixed ELSE mixed \cup {l}
     \/ \E l \in disk[f] :
          /\ disk' = [disk EXCEPT ![f] = @ \ {l}]
          /\ UNCHANGED <<written, mixed>>
  /\ astray' = IF Running(Git) THEN astray \cup {proc[Git].base + 1} ELSE astray
  /\ UNCHANGED <<budget, head, tree, session, log, proc, notes, appended, settled, credited,
                 halfRead, contended, unseen>>

\* A checkpoint starts: resolve_base_commit and working_log_for_base_commit,
\* which creates the directory.  It counts its checkpoints.
Starts(p, kind, files, base) ==
  /\ proc' = [proc EXCEPT ![p] = [Idle EXCEPT !.pc = "compute", !.kind = kind, !.files = files,
                                              !.base = base, !.n = proc[p].n]]
  /\ log' = [log EXCEPT ![base].dir = TRUE]

\* The agent is about to edit f: its hook runs git-ai checkpoint human.
PreTool(g, f) ==
  /\ ~InTool(g) /\ Fresh(g) # {} /\ Cardinality({l \in written : l.by = g}) < budget.agents[g]
  /\ session' = [session EXCEPT ![g] = [phase |-> "pre", file |-> f]]
  /\ Starts(g, "human", {f}, head)
  /\ contended' = contended \cup Crowd(g, {head})
  /\ UNCHANGED <<budget, head, tree, disk, written, notes, appended, settled, credited,
                 halfRead, mixed, astray, unseen>>

\* It edits f, and its second hook runs git-ai checkpoint with its name.
EditAndPostTool(g) ==
  LET f == session[g].file
  IN  /\ session[g].phase = "pre" /\ ~Running(g)
      /\ \E l \in Fresh(g) :
           /\ disk' = [disk EXCEPT ![f] = @ \cup {l}]
           /\ written' = written \cup {l}
           /\ mixed' = IF Editing(f) = {g} THEN mixed ELSE mixed \cup {l}
      /\ session' = [session EXCEPT ![g].phase = "out"]
      /\ Starts(g, "ai", {f}, head)
      /\ contended' = contended \cup Crowd(g, {head})
      /\ UNCHANGED <<budget, head, tree, notes, appended, settled, credited, halfRead, astray, unseen>>

\* git commit of what is staged: any part of the new lines, but no file is
\* untracked that is still there.  The post-commit hook starts git-ai
\* post-commit in the background.
Staged ==
  {t \in [Files -> SUBSET written] :
     /\ \A f \in Files : \/ t[f] = tree[head][f]
                         \/ /\ disk[f] \cap tree[head][f] \subseteq t[f] /\ t[f] \subseteq disk[f]
                            /\ t[f] = {} => disk[f] = {}
     /\ t # tree[head]}
Commit ==
  /\ head < budget.commits /\ ~Running(Git)
  /\ \E t \in Staged : tree' = [tree EXCEPT ![head + 1] = t]
  /\ head' = head + 1
  /\ Starts(Git, "human", Files, head)
  /\ contended' = contended \cup Crowd(Git, {head})
       \cup (IF \E g \in Agents : InTool(g) THEN {head, head + 1} ELSE {})
  /\ UNCHANGED <<budget, disk, written, session, notes, appended, settled, credited,
                 halfRead, mixed, astray, unseen>>

(***************************************************************************)
(* A process of git-ai                                                      *)
(***************************************************************************)
\* Broken variant: an API version bump makes it skip the human checkpoints.
ContentsSkipping(b) ==
  LET IsAI(cp) == cp.kind # "human"
  IN  IF log[b].file = "whole" THEN SelectSeq(log[b].cps, IsAI) ELSE <<>>

\* Reading checkpoints.jsonl of b: fs::write truncates it before it writes, and
\* two writers can leave garbage behind, which does not parse.
Contents(b) == IF log[b].file = "whole" THEN log[b].cps ELSE <<>>
Garbled(b) == log[b].file = "spoilt"
NoteRead(b) == halfRead' = IF log[b].file = "whole" THEN halfRead ELSE halfRead \cup {b}

\* Every checkpoint of b is in the log while no process uses b.
Settle(q, newLog) ==
  settled' = [b \in Commits |->
    IF Crowd(q, {b}) = {} /\ newLog[b].file = "whole" THEN Ids(newLog[b].cps) ELSE settled[b]]

\* The process ends: with an error, where post-commit is left undone.
Ends(p, newLog) == proc' = [proc EXCEPT ![p] = [Idle EXCEPT !.n = proc[p].n]] /\ Settle(p, newLog)
Aborts ==
  /\ Ends(Git, log)
  /\ astray' = astray \cup {proc[Git].base + 1}
  /\ UNCHANGED <<userVars, log, notes, appended, credited, contended, mixed, unseen>>
\* The checkpoint is over; post-commit goes on, also if it failed.
Over(p, newLog) ==
  IF p = Git THEN proc' = [proc EXCEPT ![p].pc = "mutate", ![p].cps = <<>>] /\ UNCHANGED settled
             ELSE Ends(p, newLog)

\* execute_resolved_checkpoint up to the new entries.  It opens the log again,
\* which creates the directory if post-commit has deleted it meanwhile.
Compute(p) ==
  LET b == proc[p].base
      entries == Entries(p, log[b], Contents(b))
  IN  /\ At(p, "compute")
      /\ NoteRead(b)
      /\ IF Garbled(b) \/ entries = <<>>
           THEN Over(p, log)
           ELSE proc' = [proc EXCEPT ![p].pc = "append", ![p].entries = entries] /\ UNCHANGED settled
      /\ unseen' = unseen \cup
           {b + 1} \X {f \in Files : PassedOver(p, log[b], Contents(b), f)}
      /\ log' = [log EXCEPT ![b].dir = TRUE]
      /\ UNCHANGED <<userVars, notes, appended, credited, contended, mixed, astray>>

\* append_checkpoint: read the file again; what does not parse counts as empty.
AppendRead(p) ==
  LET b == proc[p].base
      cp == [id |-> <<p, proc[p].n + 1>>, kind |-> proc[p].kind, entries |-> proc[p].entries]
  IN  /\ At(p, "append")
      /\ NoteRead(b)
      /\ proc' = [proc EXCEPT ![p].pc = "tear", ![p].n = @ + 1, ![p].entries = <<>>,
                    ![p].cps = Append(Contents(b), cp),
                    ![p].next = IF p = Git THEN "mutate" ELSE "off"]
      /\ UNCHANGED <<userVars, log, notes, appended, settled, credited, contended, mixed, astray, unseen>>

\* write_all_checkpoints opens and truncates the file, or fails: no directory.
Tear(p) ==
  LET b == proc[p].base
  IN  /\ At(p, "tear") /\ log[b].dir
      /\ log' = [log EXCEPT ![b].file = "cut", ![b].cps = <<>>, ![b].open = @ \cup {p}]
      /\ proc' = [proc EXCEPT ![p].pc = "fill"]
      /\ UNCHANGED <<userVars, notes, ghosts>>
TearFails(p) ==
  /\ At(p, "tear") /\ ~log[proc[p].base].dir
  /\ Over(p, log)
  /\ UNCHANGED <<userVars, log, notes, appended, credited, halfRead, contended, mixed, astray, unseen>>

\* Broken variant: the file is not closed.
WrittenOpen(l, p, cps, file) == [l EXCEPT !.file = file, !.cps = cps]

\* What fs::write leaves in a log that it found empty, or not.
Written(l, p, cps, file) == [l EXCEPT !.file = file, !.cps = cps, !.open = @ \ {p}]
\* It writes, into a file that may be deleted by now, or not empty any more.
Fill(p) ==
  LET b == proc[p].base
      mine == p \in log[b].open
      cp == proc[p].cps[Len(proc[p].cps)]
  IN  /\ At(p, "fill")
      /\ \E file \in {"whole"} \cup (IF log[b].file = "cut" THEN {} ELSE {"spoilt"}) :
           log' = IF mine THEN [log EXCEPT ![b] = Written(@, p, proc[p].cps, file)] ELSE log
      /\ IF proc[p].next = "collect"
           THEN /\ proc' = [proc EXCEPT ![p].pc = "collect"]
                /\ UNCHANGED <<appended, settled, credited>>
           ELSE /\ appended' = [appended EXCEPT ![b] = @ \cup {cp.id}]
                /\ credited' = credited \cup UNION {
                     {x[1] : x \in {y \in cp.entries[f].attr : y[2] = p}} : f \in DOMAIN cp.entries}
                /\ Over(p, log')
      /\ UNCHANGED <<userVars, notes, halfRead, contended, mixed, astray, unseen>>

(***************************************************************************)
(* Post-commit                                                              *)
(***************************************************************************)
\* mutate_all_checkpoints: read, refresh the transcripts; the file is then
\* written back by Tear and Fill.
Mutate ==
  LET b == proc[Git].base
  IN  /\ At(Git, "mutate") /\ ~Garbled(b)
      /\ NoteRead(b)
      /\ proc' = [proc EXCEPT ![Git].pc = "tear", ![Git].cps = Contents(b), ![Git].next = "collect"]
      /\ UNCHANGED <<userVars, log, notes, appended, settled, credited, contended, mixed, astray, unseen>>
MutateFails ==
  /\ At(Git, "mutate") /\ Garbled(proc[Git].base)
  /\ NoteRead(proc[Git].base)
  /\ Aborts

\* Files with a checkpoint that is AI's or holds attributions, or in INITIAL.
Pathspecs(cps, initial) ==
  {f \in Files : \/ initial[f] # {}
                 \/ \E i \in With(cps, f) : cps[i].kind # "human" \/ cps[i].entries[f].attr # {}}

\* Read the log once more, split its attributions into the commit's note and
\* what is to be carried over; save the note.
Collect ==
  LET b == proc[Git].base
      c == b + 1
      paths == Pathspecs(proc[Git].cps, log[b].initial)
      va == [f \in Files |-> Attributed(log[b], Contents(b), f)]
      Part(f, lines) == IF f \in paths THEN {x \in va[f] : x[1] \in lines} ELSE {}
  IN  /\ At(Git, "collect")
      /\ NoteRead(b)
      /\ notes' = [notes EXCEPT ![c] = {UNION {Part(f, tree[c][f] \ tree[b][f]) : f \in Files}}]
      /\ proc' = [proc EXCEPT ![Git].pc = "carry",
                    ![Git].cps = <<>>, ![Git].carry = [f \in Files |-> Part(f, disk[f] \ tree[c][f])],
                    ![Git].snap = disk]
      /\ UNCHANGED <<userVars, log, appended, settled, credited, contended, mixed, astray, unseen>>

\* Computing the stats fails, after the note and before the rest.
StatsFail ==
  /\ At(Git, "carry")
  /\ UNCHANGED halfRead
  /\ Aborts

\* Broken variant: INITIAL is written only where the commit has a log already.
CarryIntoExisting ==
  LET c == proc[Git].base + 1
  IN  /\ At(Git, "carry")
      /\ log' = IF ~log[c].dir THEN log
                ELSE [log EXCEPT ![c].initial = proc[Git].carry, ![c].snap = proc[Git].snap]
      /\ proc' = [proc EXCEPT ![Git].pc = "delete"]
      /\ UNCHANGED <<userVars, notes, ghosts>>

\* INITIAL of the new commit, if there is anything for it.
Carry ==
  LET c == proc[Git].base + 1
  IN  /\ At(Git, "carry")
      /\ log' = IF proc[Git].carry = Empty THEN log
                ELSE [log EXCEPT ![c].dir = TRUE, ![c].initial = proc[Git].carry,
                                 ![c].snap = proc[Git].snap]
      /\ proc' = [proc EXCEPT ![Git].pc = "delete"]
      /\ UNCHANGED <<userVars, notes, ghosts>>

\* Broken variant: the old log stays.
DeleteNothing ==
  /\ At(Git, "delete")
  /\ proc' = [proc EXCEPT ![Git] = [Idle EXCEPT !.n = proc[Git].n]]
  /\ UNCHANGED <<userVars, log, notes, ghosts>>

Delete ==
  LET b == proc[Git].base
  IN  /\ At(Git, "delete")
      /\ log' = [log EXCEPT ![b] = NoLog]
      /\ appended' = [appended EXCEPT ![b] = {}] /\ settled' = [settled EXCEPT ![b] = {}]
      /\ proc' = [proc EXCEPT ![Git] = [Idle EXCEPT !.n = proc[Git].n]]
      /\ UNCHANGED <<userVars, notes, credited, halfRead, contended, mixed, astray, unseen>>

Init ==
  /\ budget \in Budgets
  /\ head = 0 /\ written = {} /\ disk = Empty
  /\ tree = [c \in Commits |-> Empty]
  /\ log = [b \in Commits |-> NoLog]
  /\ session = [g \in Agents |-> [phase |-> "out", file |-> CHOOSE f \in Files : TRUE]]
  /\ proc = [p \in Procs |-> Idle]
  /\ notes = [c \in Commits |-> {}]
  /\ appended = [b \in Commits |-> {}] /\ settled = [b \in Commits |-> {}]
  /\ credited = {} /\ halfRead = {} /\ contended = {} /\ mixed = {} /\ astray = {} /\ unseen = {}

Next ==
  \/ \E f \in Files : HumanEdit(f) \/ \E g \in Agents : PreTool(g, f)
  \/ \E g \in Agents : EditAndPostTool(g)
  \/ Commit
  \/ \E p \in Procs : \/ Compute(p) \/ AppendRead(p)
                      \/ Tear(p) \/ TearFails(p) \/ Fill(p)
  \/ Mutate \/ MutateFails \/ Collect \/ StatsFail \/ Carry \/ Delete

Spec == Init /\ [][Next]_vars

(***************************************************************************)
(* Properties                                                               *)
(***************************************************************************)
\* Every variable holds what it can hold; writers' open files belong to
\* running processes of that log.
TypeOK ==
  /\ budget \in Budgets
  /\ head \in Commits /\ written \subseteq Lines
  /\ disk \in [Files -> SUBSET written] /\ tree \in [Commits -> [Files -> SUBSET written]]
  /\ \A b \in Commits :
       /\ log[b].dir \in BOOLEAN /\ log[b].file \in {"whole", "cut", "spoilt"}
       /\ log[b].initial \in [Files -> Attr] /\ log[b].snap \in [Files -> SUBSET written]
       /\ \A p \in log[b].open : At(p, "fill") /\ proc[p].base = b
  /\ \A g \in Agents : session[g].phase \in {"out", "pre"} /\ session[g].file \in Files
  /\ \A p \in Procs : proc[p].pc \in
       {"off", "compute", "append", "tear", "fill", "mutate", "collect", "carry", "delete"}
  /\ notes \in [Commits -> SUBSET Attr]
  /\ credited \cup mixed \subseteq written
  /\ halfRead \cup contended \cup astray \subseteq Commits /\ unseen \subseteq Commits \X Files

\* Comment in post_commit_with_final_state: appends "cannot be lost between a
\* read and rewrite".  With no lock around the two, that holds of the logs that
\* one process at a time was busy with: what was appended stays in the log
\* until post-commit deletes it.
AppendKeptIfAlone ==
  \A b \in Commits \ contended :
    log[b].file = "whole" => appended[b] \subseteq Ids(log[b].cps)

\* Whatever races come later: a checkpoint that was in the log when nobody was
\* using it is lost only if somebody reads the file half written or spoilt.
SettledStays ==
  \A b \in Commits \ halfRead :
    log[b].file = "whole" => settled[b] \subseteq Ids(log[b].cps)

\* Comment in handle_post_commit: a checkpoint captures "any human edits made
\* after the last AI checkpoint", so a note names the writer of a line, unless
\* another writer wrote it while the agent was editing that file, or a log was
\* contended.  Files that were committed as they are get no such checkpoint.
Quiet(c) == \A b \in 0..c : b \notin contended \cup astray
NamesWriter(c) == \A A \in notes[c] : \A x \in A : x[1].by = x[2] \/ x[1] \in mixed
LateEditsCaptured == \A c \in Commits : Quiet(c) => NamesWriter(c)

\* It holds of commits whose files had a checkpoint after their last edit, and
\* were not passed over before while they were untracked: what an earlier
\* post-commit carried over is then read against other lines.
Followed(c, f) == \A b \in 1..c : <<b, f>> \in unseen => tree[b][f] # {}
AllSeen(c) == \A f \in Files : <<c, f>> \notin unseen /\ Followed(c, f)
NoteNamesWriter == \A c \in Commits : Quiet(c) /\ AllSeen(c) => NamesWriter(c)

\* The note has every line of the commit that an agent wrote and checkpointed,
\* however many partial commits the line had to wait for.
NoteComplete ==
  \A c \in Commits \ {0} : Quiet(c) /\ AllSeen(c) =>
    \A A \in notes[c] : \A f \in Files : \A l \in tree[c][f] \ tree[c - 1][f] :
      l \in credited /\ l \notin mixed => l \in AttrLines(A)

\* Between commits, HEAD's working log knows every such line not committed yet,
\* except in a new file that post-commit passed over because it was untracked.
UncommittedKnown ==
  Quiet(head) /\ (\A p \in Procs : ~Running(p)) =>
    \A f \in {g \in Files : Followed(head, g)} :
    \A l \in disk[f] \ tree[head][f] :
      l \in credited /\ l \notin mixed =>
        <<l, l.by>> \in Recorded(log[head], log[head].cps, disk[f], f).attr

\* A log of an older commit, which nobody will read, is left only by a failed
\* post-commit or by a checkpoint that the commit overtook.
StrayOnlyIfOvertaken ==
  \A b \in 0..head : log[b].dir /\ b # head /\ ~Running(Git) => b \in contended \/ b + 1 \in astray
=============================================================================
