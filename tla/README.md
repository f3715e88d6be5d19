# Formal models of the Kiro coding-metrics collector

TLA+ models of the parts of this repository that decide whether a line written
by the AI is attributed to it, counted, once, and shown on the dashboard. TLC
checks the models on small instances; TLAPS proves theorems about nine of them
for every instance. Paths below are relative to `src/`; `kiro-plugin/src/` and
`kiro-dashboard/src/` are shortened to `plugin:` and `dashboard:`,
`git-ai-src/src/` to `git-ai:`.

## 1. The system

```
 Kiro IDE --writes--> execution logs (Format A/B), messages.jsonl (Format C)
                            |
   extension:  SessionLogWatcher --git-ai checkpoint--+      git commands
                                                      |      |        |
   agents' hooks ------------git-ai checkpoint--------+   trace2   wrapper
                                                      v      v     (hooks)
   git-ai:         working logs <--- effects --- daemon      |
                   .git/ai/working_logs/<base commit>  <-----+ rewrite hooks
                            |
 git commit --HEAD--> CommitWatcher --git-ai post-commit--> authorship note
     |                      |                                  ^
     +--> post-commit hook (background shell) --git-ai---------+
                            |  git-ai stats, POST
                            v
   dashboard:  ingest.js --> store.js (SQLite: commits, idempotency_keys,
                                       ai_ratio_history) --> pages
```

| Component (code) | State | Operations | Interacts with | What is hard | What makes it correct |
|---|---|---|---|---|---|
| Ingest server (`dashboard:ingest.js`, `store.js`, `main.js`) | tables, requests being read | key check, body, save, key insert, start-up backfill | uploaders by HTTP | check and insert are separated by an await; crashes; failing database calls | an acknowledgement or key means a row; a commit is stored once; history equals the rows |
| Ratio (`git-ai:authorship/stats.rs`, `plugin:gitUtils.ts`, `store.js`) | sums per repository | counts of git-ai, adjustment of the hook, formula of the dashboard | all three | three programs agree on which lines are subtracted where | the ratio is a proportion, and is stored when there are lines |
| Stats uploader (`plugin:statsUploader.ts`) | one call per commit and window | query with note retries, POST with retries, debug log | git-ai, server, note writers | a late request behind a time-out; which ends count as success | every upload ends; what is confirmed is stored |
| Format C reader (`plugin:sessionLogWatcher.ts`, second half) | byte offset, debounce timer, runs, keys | event, stat, read, parse, checkpoint, dispose | Kiro's file, git-ai | overlapping runs share the offset; half-flushed lines; calls and results apart | no complete line is skipped, none read twice, none forgotten |
| Execution log watcher (first half of the same class) | sizes, timers, runs, sessions, keys, net deletions | snapshot, cold scan, event, parse, human and AI checkpoints | Kiro's logs, git-ai, hook (net deletions) | start-up order, overlapping runs, cap, key collisions | every action is sent, once |
| CommitWatcher (`plugin:commitWatcher.ts`) | last HEAD, handled commits | HEAD event, post-commit, upload | VS Code's git API, git-ai, hook | the event and the reflog are read at different times | each local commit gets a note and an upload |
| Post-commit hook (`plugin:gitUtils.ts`, `buildHookSectionUnix`) | lock file, shell variables | lock, reflog, amend, git-ai, stats, POST, pkill | git, git-ai, server | it runs in the background while HEAD moves on | one at a time; right `--amend-from`; nothing lost |
| `git-ai post-commit` (`git-ai:commands/git_ai_handlers.rs`, `git/refs.rs`) | notes | check, write | both callers | check-then-write in two processes | one note per commit |
| Checkpoints and working logs (`git-ai:commands/checkpoint.rs`, `git/repo_storage.rs`, `authorship/post_commit.rs`, `virtual_attribution.rs`) | per base commit: `checkpoints.jsonl`, `INITIAL` | human and AI checkpoint; post-commit's checkpoint, note, split, deletion | agents, git, each other | read, append and rewrite without a lock; line numbers read against a later content; partial commits | what is appended stays; a note names the writer; uncommitted lines stay known |
| Rewrite hooks (`git-ai:commands/hooks/`, `authorship/rebase_authorship.rs`) | working logs, notes, the stash's note | commit, amend, reset, stash, checkout, switch | git, checkpoints | attributions travel between logs and notes while lines move | the same, after any sequence of commands |
| Daemon (`git-ai:daemon.rs`, `daemon/trace_normalizer.rs`) | trace connections, ingest queue, slots and entries of a family, execution locks | trace events, drain, checkpoint requests, collection, shutdown | git's trace2 events, agents | many connections, one order; killed commands; locks collected | one effect at a time, once, in order; every request is answered |

Not modelled: see section 7.

## 2. The modules

| Module | What it is |
|---|---|
| `StatsIngest`, `StatsIngest_proofs` | the ingest server over its store; its invariants, proved |
| `CommitStats` | the line counts of a commit and the ratio, as operators |
| `RatioLedger` | the sums of a repository fed by extension and hook |
| `StatsUploader` | the client: query, POST, retries, debug log |
| `StatsPipeline` | `StatsUploader` and `StatsIngest` composed by a network that loses and delays |
| `StatsLedger` | abstract: commits are counted and never forgotten; a client is told so only when it is true |
| `StatsPipeline_proofs` | the pipeline is a server, has its invariants, implements `StatsLedger`; and the properties of `RatioLedger`, the ratio at its end |
| `FormatCReader`, `FormatCReader_proofs` | the incremental reader of one `messages.jsonl`; all five of its properties, proved |
| `SessionLogWatcher`, `SessionLogWatcher_proofs` | the watcher of one `414d*` directory; both of its safety properties, proved |
| `CommitCapture`, `CommitCapture_proofs` | hook, CommitWatcher and `git-ai post-commit` around one repository; all four of its properties, proved |
| `WorkingLog`, `WorkingLog_proofs` | checkpoints and post-commit as processes over the working logs; what survives their races, which logs are left, and what logs and notes say of the lines, proved |
| `RewriteHooks`, `RewriteHooks_proofs` | the hooks of history-rewriting commands, one after the other; no log left behind, and what notes, logs and stashes say of the lines, proved |
| `DaemonSequencer`, `DaemonSequencer_proofs` | the daemon's order of effects; exclusion and every order property, proved |
| `MC...` | values of the constants for TLC |

Definitions marked "Broken variant" are never used by a specification: each is
a plausible mistake in the definition of the same name, with which TLC has been seen
to violate a property, so that the property is known to say something about
that code. Variables marked "observation" are read by properties only.

The three git-ai modules divide one subject. `WorkingLog` has processes that
interleave, but only plain commits; `RewriteHooks` has every command that moves
attributions, but one actor at a time; `DaemonSequencer` is about when an effect
of either kind runs and abstracts what it does.

### StatsIngest

`conn[c]` is how far request c is: `idle`, `reading` (its key was checked and the
body is awaited), `saved` (between `saveStats` and `setIdempotencyKey`), answered
or `gone`. Node runs one callback at a time, so while a request is `saved` only
its own next step or a crash can follow (`Running`). `saveStats` is one SQLite
transaction and so one action: row and snapshot, or nothing. A database error
is `AcceptUnchecked` (the lookup fails and answers "not seen"), `Reject` (the
transaction throws), `SetKeyFails` or `StartWithoutBackfill`. `Crash` keeps
the tables and drops requests. A payload is its key, repository, time and the
number it adds to the ratio's total; validation, e-mail resolution, and
the other columns are left out. The initial database is empty or holds
migrated commits, without a history, in any order. `RepoTotal` sums by counting the
lines of the rows. The backfill replays the rows by time; SQLite leaves the order of equal
times open, so `Backfill` is the set of the histories of all such orders.

### CommitStats and RatioLedger

`GitAiStats` is `stats_from_authorship_log`: of `added` lines the note attests
`accepted`, and `overridden` sums the prompts' overridden lines. `HookAdjust` is
what the shell script does with the result before it posts, `RatioTotal` and
`TwiceNumerator` the terms of `recordAiRatioSnapshot` (doubled, so that one half
stays an integer). In `RatioLedger` commits with any counts arrive on
either path. The `accepted > added` case is included because the two diffs of
`stats.rs` treat renames differently.

### StatsUploader, StatsPipeline, StatsLedger

`upl[u].pc` follows `uploadCommitStats`: `query` (with the note retries),
`post`, `posting`, `backoff`, and an end. Attempt n of upload u is request
`<<u, n>>` of the server; a request stays alive after its client has given up, and
may be read, stored, answered or aborted at any later time. `GatewayError` stands
for any 5xx, which the server itself never sends, and for 3xx, which the client treats alike. The refinement maps
`counted` to the keys of the stored rows and `confirmed` to the uploads whose
last answer was 2xx.

### FormatCReader

Kiro appends a `tool_call` line and later a `tool_result` line per edit. A line
is flushed as text and newline, so line ends are the even offsets and edit e
fills units 4e-3..4e; this is enough to have half lines, complete lines, and
a read that ends between the two lines of an edit. `run[r]` is one
call of `processMessagesJsonlIncremental`, which awaits the stat, the read,
and each checkpoint; any number of bound runs interleave at these points. The
offset is read in the turn after the stat and written in the turn after the read,
as in the code. `initOffset` may set the offset at any time before it is over,
also while the first run reads. `repos` is shared with the execution log watcher:
`Refill` is a Format A or B run that `dispose` found in flight and that adds a
repository again (`plugin:sessionLogWatcher.ts:833`, 885).

### SessionLogWatcher

A log is rewritten by Kiro in passes, each of which may add several actions; `size[f]`
grows by two per pass and is odd while the JSON is half flushed. `phase` is the start-up
sequence: session ids, `fs.watch`, snapshot (one stat per await), cold scan (one log after
the other). The scan takes the ten newest logs of the last seven days; as the model has no
times, it takes any choice of at most `ScanLimit`. `run[r]` is
one call of `checkAndProcess` or of the scan; the block from the session filter to
the first awaited checkpoint runs in one turn and is the operator `Process`. Keys
are constants of the action: `RawKey` as parsed, `MarkKey` after
`groupActionsByRepo` made the path relative to the repository. Actions may share them:
Format B has no times (`plugin:sessionLogParser.ts:262-266`), so all edits of a file have
the key `path:none`. `left` are the logs that the code has given up until they change:
the scan or the session filter passed over them, or a call failed. `AtStart` says
whether the directory exists at activation or is found later by
`watchParentDir`, which takes a snapshot but starts no scan.

### CommitCapture

Commit n is made by the n-th move of HEAD (commit, amend, cherry-pick, pull).
git starts the hook's background section, which reads HEAD, takes the lock, reads
the reflog, calls git-ai and posts; each is an action, because HEAD may move in
between. The CommitWatcher observes HEAD with delay and may skip values;
`isLocalCommit` reads the reflog of the moment, and says yes if that fails. The check and the write of
`git-ai post-commit` are two actions for both callers. `effective` is whether
git runs the repository's hook (the extension then leaves the upload to it).
`Kill` is the `pkill -x git-ai` at the end of the hook.

### WorkingLog

A line is an identity that carries who really wrote it, a file a set of lines in
the order of the constant `Place`, and attributions are pairs of line and agent.
What git-ai records is line numbers: `Shown` reads the numbers of one content
against another, and this is where attributions go wrong.

`proc[p]` is one process of git-ai: an agent's checkpoint, or post-commit. Its
steps are the file system calls between which another process can run: `Compute`
(read the log, whose directory it makes anew if it is gone, `INITIAL`, git status and the
files; the new entries), `AppendRead`
(`append_checkpoint` reads the log again), `Tear` and `Fill` (`fs::write` truncates
and then writes), and for post-commit `Mutate` (refresh the transcripts, write the
log back), `Collect` (attributions, split, note), `Carry` (`INITIAL` of the new
commit) and `Delete` (the old log). A log is `whole`, `cut` or `spoilt`; what does not
parse counts as empty. Agents call `PreTool`
before and `EditAndPostTool` with an edit, as their hooks do. A commit takes any
part of the lines that are new in each file (`git add -p`), and
`git-ai post-commit` runs after it in the background.

`Quiet(c)` in a property excludes commits with a contended log or a failed
post-commit; `contended` is set when two processes are in one log, or when a commit
falls between the two hooks of an agent.

### RewriteHooks

One user and one agent take turns; a git command with its pre- and post-hook is
one step. `log[c]` is the working log of base commit c: `INITIAL` with the content
it was made for, and of the entries what later readers look at (the last one per
file, whether one carries attributions, is of an AI checkpoint, and so on). Notes
are sets of lines per commit and file. `Blame` follows the history of a line
to the commit that brought it and looks into that note, as
`new_for_base_commit` does through `git-ai blame`. A `git stash push` with nothing to
save succeeds, too, and its hook takes the stash that is there for the one it made
(`StashNothing`).

Simplifications: the feature flag `rewrite_stash` is on
(`git-ai:feature_flags.rs:55`, off in release builds) and `inter_commit_move` is off;
every file keeps one original line; a commit takes whole files from disk;
amend leaves other files' changes unstaged only where they insert lines; nothing
conflicts; resets go to ancestors or descendants; there is one stash;
`checkout -- paths` restores from HEAD; blame's `--since` date, whitespace, rename
mapping and gap filling are left out.

Where the code does not keep an attribution, two ghost variables say so, and the
properties except exactly what they name: `misread` are files whose line numbers
some command read against another content, `lost` are lines that a command
drops. Both are set only in the cases of section 3.

### DaemonSequencer

One family of worktrees. A command writes `start`, `exit`, `atexit` to its
trace connection; a thread per connection (`Read`, `Enqueue`, `Close`) takes a sequence
number, completes the payload and puts it into a bounded channel; the ingest
worker puts payloads back into order (`Receive`, `Takes`), appends a slot when a
command starts, fills or cancels it when it ends, and drains the family under its
lock. A checkpoint request waits until everything read before it has been
processed, then appends its own entry and drains. `Collect` is the
garbage collection of the maps, of which only the lock map can lose something in
use: by the worker every 500 payloads, or at any moment by the thread of the hourly update
check (`Sweep`). The daemon may be shut down or die. `tracked` are the roots of
which the closing of a connection makes up an end; the worker clears a root when it
has applied its end (`clear_trace_root_tracking`).
`Kill` ends a command before its `exit` or between `exit` and `atexit`. `task[a]` is
where the worker or a request is: waiting for the lock, at `pop` (it takes the ready
entries in front of the first pending one), or at `run`, while one of their effects lasts.

## 3. The runs

Runs that must pass:

| Run | Instance | What it shows |
|---|---|---|
| `ingest` | 3 keyed requests (2 of one commit), 1 unkeyed, 2 repositories, 2 migrated rows stored out of order; all faults and crashes | a key or 200 answer implies a row; duplicates need an overlap or fault at the key; the history is current or its backfill failed |
| `ratio` | 3 commits of at most 4 lines, every combination of counts | ratio in [0, 1] with the extension alone; at most 1 always |
| `pipeline` | 1 upload with all its 4 attempts, crashes, database faults, 5xx answers | refinement of `StatsLedger`; every upload ends |
| `formatc` | 2 edits in 2 repositories, 2 runs, cap 1, faults, disposal, one repository found again after it | no complete line is skipped, chunks tile unless reads crossed, nothing is left unread when all is at rest, edits are accounted for, a disposed watcher takes on checkpoints only in a repository that was found again |
| `session` | 2 sessions, one with a Format B log that Kiro writes in 2 passes: 2 edits of one file with one key, and a deletion in a second repository; 2 runs, cap 1, scan limit 1, its session listed before activation or later, faults, disposal; 798,832 states | an action that is skipped was sent, or has the key of another that was; what is sent twice has one of three reasons; every action is sent or so hidden, unless its log was given up after its last change |
| `commit` | 2 moves of any kind, faults, hook in force or not, HEAD known at start-up or not | one hook at a time; no upload without a note unless git-ai failed; commits that are spaced out are captured; with flock only the extension can overwrite a note |
| `worklog` | 1 file; either 2 agents with a line each and 1 commit, or 1 agent with 2 lines, 1 human edit and 2 partial commits; 1.4 million states | an append is lost only where two processes met, and what had settled only by a torn read; notes name the writer and are complete; uncommitted lines stay known through two commits; an old log stays only if it was overtaken |
| `rewrite` | 2 files, 2 AI lines, 1 human line, 3 commits, 6 commands or edits, files symmetric; 470,944 states | the same promises after any sequence of commit, amend, reset, stash, checkout and switch, with the exceptions below; only HEAD has a log |
| `daemon` | up to 2 commands, up to 2 requests, a kill (of a mutating command, of one without slot, of a slotted one that moves nothing), the collection, shutdown, queue of 1, in five combinations (`MCBudgets`); 936,767 states | one effect at a time unless a lock in use was collected; effects in start order, once, checkpoints after what they must see; no slot but that of a killed mutating command stays without an end to come; everything else is served |

Runs in which TLC finds the violation of something a comment or a document
says; each is a disagreement between code and documentation, quoted in
`PROJECT.json`:

| Run | Documented | What the code does |
|---|---|---|
| `duplicate` | an upload and its retries are stored once | an attempt and its retry can both pass the key check (1 upload, 2 attempts) |
| `late_edits` | the checkpoint of post-commit captures human edits made after the last AI checkpoint (`git-ai:commands/git_ai_handlers.rs:2001`) | it asks git status, against a HEAD that has moved: a committed file is clean and gets no checkpoint, and the agent's line numbers are read against the edited file |
| `daemon_lock` | idle entries of the per-family maps are collected (`git-ai:daemon.rs:3560`) | the test of the lock map is the wrong way round (3578): exactly the locks in use are dropped, and two actors run effects together |

### Where a property has an exception

Many passing properties hold only with an exception. The exception is part
of the formula because the code needs it, and each is worth a look by whoever
changes that code:

* `ExtensionRatioInUnit` is about the extension alone. The hook subtracts
  `mixed_additions` from `ai_additions` before it posts (`plugin:gitUtils.ts:689`), and
  `store.js:459-462` subtracts them again, so a commit of the hook with one mixed
  line and no other gives a total of zero, and no snapshot, or a negative ratio.
* `ResentOnlyIfExposed` excepts actions whose key changes in routing: the key is
  looked up before (`plugin:sessionLogWatcher.ts:733`) and remembered after
  `groupActionsByRepo` (1057), so below the workspace root it never matches.
* `FilteredWasSent` excepts an action whose key another one has that was sent. In
  Format B, which has no times, that is every later edit of a file: it is
  dropped unsent (733) as long as the key of the first is remembered.
* `EveryActionSent` excepts a log that was given up (`left`) until it changes again: a
  failed read or checkpoint leaves its size recorded (531); a session that is
  listed after the last refresh waits for the cooldown of 10 s (571); the snapshot takes every
  log for processed (375-394) and the scan comes back to the ten newest of
  seven days only (442-451), and to none in a directory that appears after
  activation (313).
* `NoCheckpointAfterDispose` excepts repositories that a Format A or B run in flight has
  added again after `dispose` emptied the list (833, 885; 1482 and 1534 then send).
* `SpacedCommitsCaptured` excepts commits that come while another is being
  handled: the second hook may find the lock taken (`plugin:gitUtils.ts:561`), both may
  read the same HEAD (535), and `HEAD@{1}` (586) may be another move's. For an
  amended commit it accepts the plain note of the extension, which runs
  `git-ai post-commit` without `--amend-from` (`plugin:commitWatcher.ts:47`) and may win.
  Like `PostedSawNote` it excepts commits for which a child failed or was killed
  (`trouble`): they were marked as handled before (180), and nothing tries again.
* `OverwrittenOnlyBesideExtension`: hook and extension can both find no note and
  both write it (`git-ai:commands/git_ai_handlers.rs:1968`, `notes add -f` in `git/refs.rs:22`).
* `EditsAccounted` excepts an edit whose two lines a read separates
  (`plugin:sessionLogWatcher.ts:1410`), and counts a failed checkpoint as handled.
* `AppendKeptIfAlone` and `SettledStays`: no lock holds read and rewrite
  together (`git-ai:git/repo_storage.rs:348`), although
  `authorship/post_commit.rs:82` says that an append cannot be lost in between.
* `WorkingLog`'s note properties except lines written while an agent edits the same
  file (`mixed`), contended logs, files that post-commit passed over (`unseen`),
  and commits whose post-commit failed or during which someone edited (`astray`).
  A file passed over while it was untracked keeps its exception in all later commits
  (`Followed`): what was carried over is read against other lines. An instance of 2
  files and 3 commits, checked before the proof, showed that excepting the
  commit alone is not enough.
  An AI checkpoint that starts from `INITIAL` claims every line that neither it nor
  the commit knows (`commands/checkpoint.rs:1655-1668`); the agents' human checkpoint
  before each edit makes that harmless.
* `RewriteHooks`, `misread`: amend takes the lines of a file that the log does not
  know from a blame of the old commit and reads those numbers in the work tree
  (`authorship/rebase_authorship.rs:2500-2617`); a stash leaves checkpoint entries of the
  files it cleans (`commands/hooks/stash_hooks.rs:468-495`, where
  `specs/git_ai_standard_v3.0.0.md` 2.5 wants them removed), which are read again
  if no new checkpoint comes before; a stash push that saves nothing writes what the log
  has of its paths over the note of the stash that is there
  (72-94), against another content, and its lines are `lost`; the checkpoint is skipped when only human
  entries carry attributions, or the file is as in HEAD; a bare `git stash` and
  `checkout --merge` take none.
* `RewriteHooks`, `lost`: a reset of paths forgets `INITIAL` of all files and the
  attributions of the paths (`reset_hooks.rs:249-385`; the standard wants other files
  unchanged); an amend drops what it misreads, also of a line that an applied stash
  has brought back to the work tree while the amended commit lacks it, which takes more
  commands than the runs have and was found by the proof of `UncommittedKnown`; a reset backwards keeps only files that the undone commits' notes
  name (`rebase_authorship.rs:2735-2745`; standard 2.3); a popped stash replaces
  HEAD's `INITIAL` and yields to entries (`stash_hooks.rs:200-284`); a reset forward leaves
  unattributed what the target lacks.
* `AllServed` and `NoOrphanSlot` except a mutating command that was killed (of any other
  the closing connection makes up the end): its slot
  stays pending and blocks the family; and a daemon that stops, which waits for
  nothing. `AllServed` counts a request that timed out as answered.

### Bounds, and why they are enough

* Two actors everywhere two can interfere (requests with one key, attempts of one
  upload, runs of one reader, hooks of one repository, agents on one file,
  commands and requests of one family), because each hazard of
  the code is between a check and an act of one and a step of another. The
  violations found need no more. The proved properties hold for any number.
* `MaxKeys` is 1 (3000 in the code) so that eviction happens: every second key
  evicts one. `Capacity` of the daemon is 1
  (in `daemon_lock` 2), so that queue and reorder buffer fill up.
* `MaxRetries` and `NoteRetries` are the code's 3.
* `MaxMoves` is 2: two consecutive commits give every overlap of two hooks and
  two handlers.
* Two edits in two repositories: a run has two batches, and one key
  survives routing while the other does not. Of the three actions of `session` two share
  a key: a run finds the second beside the first, or after its key was remembered. A `ScanLimit` of 1 lets the
  scan take the log or pass over it. One repository that is found again (`Again`) and one
  that is not show both cases of the exception. The file of an action may be gone (`Gone`)
  for the one in the second repository.
* `WorkingLog` and `RewriteHooks` put human lines above the agents' (`MCPlace`), where
  a missed edit moves every recorded number. Two partial commits are needed for a
  line to travel through `INITIAL` twice. Six commands are enough for: edit, commit,
  edit, stash or reset, switch, commit, pop, with agent edits for free in between.
* The budgets of `MCWorkingLog` and `MCDaemonSequencer` replace one instance that
  would be too large by several, each about one kind of interference.

`CHECK_DEADLOCK FALSE` is set where the environment's bound ends every
behaviour (all edits flushed, all moves made, all commits stored, all commands ended).

## 4. Fairness

* `StatsPipeline`: the client's own steps and its 10 s request time-out
  (`WF` of `Local(u)` and `GiveUp(u)`). Node fires timers, and `git-ai stats`
  answers or fails. Nothing is assumed of the server, the network or the note.
* `SessionLogWatcher`: the event loop keeps turning, as one weak fairness
  condition over all its steps, and Kiro completes a pass it has begun.
  `CoolDown`, `Register` and whole new passes are not fair. One condition is
  enough because an input causes finitely many steps.
* `DaemonSequencer`: one weak fairness condition over `Scheduled`: commands that run
  end, and threads, the worker and tasks go on, including a request's time-out.
  Kills, new commands, requests, the collection and shutdown are not fair. Again each
  input causes finitely many steps.
* The other modules state no liveness. For the Format C reader the property of a
  lost wake-up is a safety property instead: `AllReadAtRest` says what holds when no
  event, timer or run is left.

## 5. What is proved

From the assumptions named in the modules (`PayloadAssumption`,
`BoundsAssumption`, `UploadAssumption`, `PipelineAssumption`,
`CaptureAssumption`, `ReaderAssumption`, `WorkingLogAssumption`,
`RewriteHooksAssumption`, `DaemonSequencerAssumption`), for every value of the
constants (finitely many commands and requests, agents and commits, and at least one
file, wherever a cardinality or an initial value needs it):

* **StatsIngest** (`KeyHasRow`, `AckIsDurable`, `DuplicatesNeedExposure`,
  `HistoryCurrentHolds`). The first three
  properties are not inductive: a key insert keeps "a key has a row" only if the
  request between its two writes has stored its row, and a second row of a key is
  excluded only if no other request with that key is past its check. `IInv` adds
  `SavedOK` (the event loop: one saved request, whose row is stored) and
  `UnexposedOK` (for a key without overlap or fault: one active request; a
  recorded key has none; a row without its key belongs to the saved request).
  `HistoryOK` strengthens `HistoryCurrent`: a history that is not empty is right while
  the server is down too, since no later start makes it again. `HistoryGrows` (a row and
  its snapshot keep a history right) serves `saveStats` and the replay of the
  backfill alike, and `TotalByTime` shows by a bijection between counted lines that the order
  of the replay does not matter. The replay is a recursive function: that it exists
  and that all its values are right follows from a least counterexample (`LeastNatural`),
  because the library's induction theorems cannot be used.
* **RatioLedger** (`StatsAlwaysLookComplete`, `SumsCorrect`, `ExtensionRatio`,
  `RatioBound`). `Row` (mixed lines are at most the human lines) is closed under addition
  and survives the hook's adjustment; `FullRow` (and at most the AI lines) holds
  of git-ai's output only. `StatsAlwaysLookComplete` shows for all counts that the uploader's
  test for a missing note succeeds on every output of `git-ai stats`, so that its
  note retries never happen.
* **StatsPipeline** (`PipelineIsServer`, `PipelineDuplicates`, `PipelineLedger`).
  Every step of the pipeline is a server step or leaves the server alone, so the server's
  theorems hold of it; `ClientInv` relates a 2xx the client saw to the answer of its
  current attempt; with `AckImpliesRow` each step then maps to `Count`, `Confirm` or a
  stutter of `StatsLedger`.
* **FormatCReader** (`NothingSkipped`, `NothingReadTwice`, `EditsAccountedOrTwin`,
  `EditsAccountedHolds`, `NoCheckpointAfterDisposeHolds`, `AllReadAtRestHolds`). A run sets
  the offset to the end of a read that began at an earlier offset, possibly behind another
  run's back, so `SkipInv` says of every running read, too, that the lines before its
  start were consumed. For `ReadsTile`, `TileInv` adds that while nothing crossed at
  most one run reads, from the offset, and none before `initOffset` is over. An edit
  behind the offset was checkpointed or is in the hands of a run; where its key is
  remembered, some edit with that key is. So `EditsAccounted` is proved for keys that tell
  the edits apart (the constant-level hypothesis `KeysApart`). In the code a key is
  `path:emittedAt`, and two edits of one file in one millisecond, two without a
  time, or two with equal paths in two places share one: without the hypothesis the theorem
  is `EditsAccountedOrTwin`. After `dispose` a run finds actions new only in repositories that
  were found again (`OnlyRefilled`). For `AllReadAtRest` the invariant names what still
  is to come for every unread line: an event, a timer, or a run that has not yet
  looked at the size.
* **SessionLogWatcher** (`FilteredWasSentHolds`, `ResentOnlyIfExposedHolds`), for any logs,
  actions, keys and overlapping runs. `KeysSent`: every
  remembered key is that of an action that was sent, so that an action
  skipped without having been sent has a twin; nothing is assumed of the keys. That an action is
  sent once is not inductive: it depends on what runs have in hand.
  `Once` says of an action that nothing exposed that one run at most has it, none once
  it was sent, and that its key is then remembered; this holds also where keys are shared.
* **CommitCapture** (`LockWorks`, `HooksWriteOnce`, `PostedSawNoteHolds`,
  `SpacedCommitsCapturedHolds`), for any number of commits. That no note is overwritten
  by a hook alone is not inductive: it rests on what a hook found before it writes.
  `IInv` adds `LockOK` (one holder, also over `pkill`) and `WriteOK` (who is about to
  write found no note, and there is none still, or the extension handles the
  commit); only the holder of the lock can disturb that. `Places` says where hook
  and handler of each commit can be, `SightedInv` what an upload that is under way knows of
  the note. `Story` follows a commit that is handled before HEAD moves on through
  the hook or the extension, step by step, to its note and upload.
* **WorkingLog** (`TypeOKHolds`, `AppendKept`, `SettledStaysForGood`,
  `StrayOnlyIfOvertakenHolds`, `NoteNamesWriterHolds`, `NoteCompleteHolds`,
  `UncommittedKnownHolds`: all its safety properties), for any agents, files and budgets. What a process will
  write was read some steps before, so the invariants are about both the log and
  every process between its read and its write: `AloneInv` adds that a process in an
  uncontended log is the only one (`Exclusive`), and has the log's checkpoints in hand
  (`Kept`); `SettledInv` that settled checkpoints are in every process' hands
  (`Stays`) unless a log was read half written. `StrayInv` adds that post-commit is about HEAD's
  parent, and that a checkpoint of an older base was overtaken. Each action is one of
  six kinds of step on logs and processes (starting, going, reading, tearing,
  filling, deleting; lemma `Kinds`), and the invariants are proved for the kinds.
  What notes and logs contain takes two layers more. `LandInv`, in any world: whatever is
  recorded of a file, in a log, in the hands of a process or to be carried over, has
  lines of that file only, and claims no line of the commit it is based on, so that
  what lists say of one file is never about another (`Fits`). `CalmInv`, as long as no log
  was contended and no post-commit went astray (`Undisturbed`): then one process runs at a time
  (`Solo`), and at each of its steps the list that it is about to leave behind names the
  writers and knows the credited lines (`Sound`), and has what an agent needs to
  claim just its own lines with its next checkpoint (`Prepared`): all that people wrote
  before. Post-commit moves this over: what it read, what it split, what it carries and the new
  log's INITIAL are sound for the new commit, for the files that were followed
  (`Trail`). `NotesInv` is about the notes of all commits, which later credits
  cannot make incomplete (`CreditedLater`). The candidates were run with TLC as invariants
  before they were proved. Line numbers are no obstacle to it: lines are
  read against the content they were recorded for (`ShownSame`), wherever `AllSeen` holds.
* **RewriteHooks** (`OnlyHeadLogHolds`, `NoteNamesWriterHolds`, `NoteCompleteHolds`,
  `UncommittedKnownHolds`, `StashKnownHolds`: all its properties), for any files, line order,
  commits and sequence of commands. By itself `OnlyHeadLog` is not inductive: a log is
  moved only if its directory is there, so HEAD's log without a directory must be
  empty (`Only`), and HEAD must be a commit. The four others are proved together, as
  attributions go round: from log to note, from notes by blame back to a log, from log to
  stash and back. `Content` is their conjunction with the shape of the repository (`Repo`: a commit
  is younger than its parent), of logs (`Shape`: every entry says who wrote its
  lines, and a file with attributions counts as touched) and with `Named`, which extends
  `NoteNamesWriter` to HEAD's log and the stash. One lemma per command
  (`...Keeps`) shows that it keeps `Content`. They rest on lemmas about the operators:
  `History` is the set that a commit's ancestors form (`HistoryIs`, by closed sets,
  as `History` is recursive); of a line that an ancestor has not, blame finds a younger
  origin (`Younger`, `OriginIs`), so that a complete set of notes gives a reset all lines that it undoes
  (`BlameSince`) and an amend all lines of HEAD (`BlameAll`); two lines of a file
  have two numbers (`RowSame`), so that numbers read against their own content are harmless
  (`ShownSame`, `ShownBack`); and after a human checkpoint the commands read every file
  rightly that the checkpoint did not pass over (`HumanCheckpointIs`).
* **DaemonSequencer** (`OneAtATimeHolds`, `TypeOKHolds`, `RunsOnceHolds`,
  `NoOrphanSlotHolds`, `CheckpointAfterEarlierHolds`, `CommandsInStartOrderHolds`: all its
  safety properties), for any commands, requests and queue capacity. The invariant is built in
  layers, each proved from those before it. `LockInv`: nobody holds a lock that another one
  holds, and all who hold or wait for one mean the lock in the map, which only the collection
  of a lock in use (`misgc`) breaks. `Dialogue`: what a connection may still
  say; one grammar for threads, queue and reorder buffer. `Distinct`, `Numbered`: a sequence
  number is in one place. `Known` and `PlaceInv`: an entry is pending, ready or taken, once, in
  the place that its command's state allows. `Complete`: every pending slot has an
  end to come; `Listening`: a root whose end was not read is tracked and its connection
  open, so that the worker clears ended ones only. `Times` and `Ordered`: entries lie in the order of their starts, and who holds the
  lock has the earliest. `Counted`: queue, buffer and threads hold together no more than
  the sequence numbers given out, which bounds the buffer by the capacity; this
  counts finite sets, hence the assumption that commands and requests are finitely many.

## 6. What is only model-checked

Liveness (`EveryUploadEnds`, `EveryActionSent`, `AllServed`): TLAPS does not
handle fairness. Every other property of a passing run is proved.

## 7. What is not modelled

* User sync (`plugin:userSync.ts`, `qClientWatcher.ts`), and the user-sync route. A
  reader should know that its debug log, which later suppresses a report for four
  hours, is written before the POST (`userSync.ts:123`).
* Credit and session synchronisation of the dashboard, which are S3 and Identity
  Center; a failed listing of users is cached as an empty map (`dashboard:ingest.js:38`).
* Dashboard pages, authentication, migration script, request log, configuration:
  no interacting state.
* The hook's audit log, its Windows variant and the variant without flock, in which
  two hooks write files of fixed names; installation of hooks; curl that
  never answers (a post ends in the model); the life of `kiro_net_deletions` across
  commits and logs (`plugin:gitUtils.ts:659`).
* The timer of `watchParentDir` that `dispose` leaves running, and that may open a watch in a
  closed window (`plugin:sessionLogWatcher.ts:298`).
* Discovery of Format C session directories, which looks once, after a fixed delay
  (`plugin:sessionLogWatcher.ts:1259`); routing and parsing as such.
* git-ai's diff and attribution over text (`attribution_tracker.rs`, `diff.rs`,
  `stats.rs` beyond the counts): functions of file contents without state; the
  models have lines as identities instead.
* Rebase, cherry-pick, `merge --squash`, pull, `update-ref`, stash drop, merge conflicts, and
  checkpoints captured asynchronously with snapshots of dirty files.
* Of the daemon: connections of child processes, exits that arrive before their start,
  the wrapper's states, ordinals of commands, the retention of completed roots,
  telemetry, self-update and installation.
* Agent presets, metrics, authentication, upgrade, `git-ai` subcommands that only
  show data: parsing, formatting and I/O, which is most of the
  repository's lines.

## 8. What could come next

1. Rebase and cherry-pick in `RewriteHooks`: many commits' notes rewritten at once,
   interrupted by conflicts and continued by another process.
2. `RewriteHooks` under `DaemonSequencer`: hooks that run late, as effects of the daemon,
   when the work tree has moved on.
3. `UserSync`, and net deletions through several commits.
