--------------------------- MODULE CommitCapture ---------------------------
(***************************************************************************)
(* How the commits of one repository become authorship notes and uploads.   *)
(* git starts a background post-commit hook per commit (the shell script of *)
(* kiro-plugin/src/gitUtils.ts, buildHookSectionUnix) and the extension's   *)
(* CommitWatcher (commitWatcher.ts) sees HEAD move in VS Code's git API.    *)
(* Both run `git-ai post-commit`; the hook uploads, or the extension when   *)
(* git does not run the hook.                                               *)
(***************************************************************************)
EXTENDS Naturals, Sequences, FiniteSets

CONSTANTS
  MaxMoves,   \* bound: how often HEAD moves
  Kinds,      \* what may move it, of "commit", "amend", "cherry-pick", "pull"
  HasFlock,   \* the shell has flock
  Faults      \* child processes and uploads may fail

ASSUME CaptureAssumption ==
  /\ MaxMoves \in Nat /\ Kinds \subseteq {"commit", "amend", "cherry-pick", "pull"}
  /\ {HasFlock, Faults} \subseteq BOOLEAN

(* Commit n is what the n-th move of HEAD made; 0 is where HEAD was.        *)
VARIABLES
  reflog,     \* reflog[n] : the kind of move n
  notes,      \* notes[n] : authorship note of n: "none", "plain", or "amend" of .from
  effective,  \* git runs the repository's hook (core.hooksPath permitting)
  hook,       \* hook[n] : the hook process that move n started
  known,      \* lastKnownHead
  marked,     \* uploadedCommits
  skipFirst,  \* HEAD was not available when the repository was opened
  ext,        \* ext[n] : the CommitWatcher's handling of commit n
  posted,     \* uploads, with the note that their stats saw
  \* Observation only:
  crowded,    \* commits that came, or were followed, while others were handled
  trouble,    \* commits for which a child process or an upload failed
  rewritten   \* commits whose note was written over a note

watcherVars == <<known, marked, skipFirst>>
vars == <<reflog, notes, effective, hook, watcherVars, ext, posted, crowded, trouble, rewritten>>

Commits == 0..MaxMoves
HEAD == Len(reflog)
NoNote == [kind |-> "none", from |-> 0]
Plain == [kind |-> "plain", from |-> 0]
Amended(f) == [kind |-> "amend", from |-> f]

HookAt(n, pc) == hook[n].pc = pc
ExtAt(n, pc) == ext[n] = pc
HookOver(n) == hook[n].pc \in {"none", "done", "locked", "cherry-pick"}
ExtOver(n) == ext[n] \in {"none", "done"}

\* Broken variant: the lock is never given back.
HoldingLeaked(n) == hook[n].pc \notin {"none", "begin", "lock", "locked"}

\* The hook has the flock: from taking it to its end.
Holding(n) == hook[n].pc \notin {"none", "begin", "lock", "locked", "done", "cherry-pick"}

SetNote(n, note) ==
  /\ notes' = [notes EXCEPT ![n] = note]
  /\ rewritten' = IF notes[n] = NoNote THEN rewritten ELSE rewritten \cup {n}

(***************************************************************************)
(* git                                                                      *)
(***************************************************************************)
Busy(n) == ~HookOver(n) \/ ~ExtOver(n) \/ n > known

\* HEAD moves; git runs the hook for everything but a pull.
Move(kind) ==
  LET n == HEAD + 1
      late == {m \in 1..HEAD : Busy(m)}
  IN  /\ HEAD < MaxMoves
      /\ reflog' = Append(reflog, kind)
      /\ hook' = IF effective /\ kind # "pull" THEN [hook EXCEPT ![n].pc = "begin"] ELSE hook
      /\ crowded' = IF late # {} \/ skipFirst THEN crowded \cup late \cup {n} ELSE crowded
      /\ UNCHANGED <<notes, effective, watcherVars, ext, posted, trouble, rewritten>>

(***************************************************************************)
(* The post-commit hook.  It runs in the background, so git has returned.   *)
(***************************************************************************)
Goto(n, pc) == hook' = [hook EXCEPT ![n].pc = pc]

\* COMMIT_SHA=$(git rev-parse HEAD)
Begin(n) ==
  /\ HookAt(n, "begin")
  /\ hook' = [hook EXCEPT ![n].pc = "lock", ![n].sha = HEAD]
  /\ UNCHANGED <<reflog, notes, effective, watcherVars, ext, posted, crowded, trouble, rewritten>>

\* Broken variant: a busy lock is ignored.
LockIgnored(n) ==
  /\ HookAt(n, "lock")
  /\ Goto(n, "reflog")
  /\ UNCHANGED <<reflog, notes, effective, watcherVars, ext, posted, crowded, trouble, rewritten>>

\* flock -n, where there is one: exit if another hook has it; then sleep 2.
Lock(n) ==
  /\ HookAt(n, "lock")
  /\ Goto(n, IF HasFlock /\ \E m \in Commits : Holding(m) THEN "locked" ELSE "reflog")
  /\ UNCHANGED <<reflog, notes, effective, watcherVars, ext, posted, crowded, trouble, rewritten>>

\* The newest reflog message decides: a cherry-pick ends the hook.
ReadReflog(n) ==
  /\ HookAt(n, "reflog")
  /\ Goto(n, CASE reflog[HEAD] = "cherry-pick" -> "cherry-pick"
               [] reflog[HEAD] = "amend" -> "amend"
               [] OTHER -> "check")
  /\ UNCHANGED <<reflog, notes, effective, watcherVars, ext, posted, crowded, trouble, rewritten>>

\* OLD_SHA is HEAD@{1}; unless it is COMMIT_SHA, remove the note of COMMIT_SHA
\* and pass --amend-from.
AmendArgs(n) ==
  LET old == HEAD - 1
  IN  /\ HookAt(n, "amend")
      /\ IF old = hook[n].sha
           THEN Goto(n, "check") /\ UNCHANGED notes
           ELSE /\ hook' = [hook EXCEPT ![n].pc = "check", ![n].from = {old}]
                /\ notes' = [notes EXCEPT ![hook[n].sha] = NoNote]
      /\ UNCHANGED <<reflog, effective, watcherVars, ext, posted, crowded, trouble, rewritten>>

\* Broken variant: the hook does not run git-ai post-commit.
CheckSkips(n) ==
  /\ HookAt(n, "check")
  /\ Goto(n, "stats")
  /\ UNCHANGED <<reflog, notes, effective, watcherVars, ext, posted, crowded, trouble, rewritten>>

\* Broken variant: git-ai post-commit does not look for a note.
CheckIgnoresNote(n) ==
  /\ HookAt(n, "check")
  /\ Goto(n, "write")
  /\ UNCHANGED <<reflog, notes, effective, watcherVars, ext, posted, crowded, trouble, rewritten>>

\* git-ai post-commit skips a commit that has a note ...
Check(n) ==
  /\ HookAt(n, "check")
  /\ Goto(n, IF notes[hook[n].sha] = NoNote THEN "write" ELSE "stats")
  /\ UNCHANGED <<reflog, notes, effective, watcherVars, ext, posted, crowded, trouble, rewritten>>

\* ... and ends by writing the note of another.
Write(n) ==
  /\ HookAt(n, "write")
  /\ SetNote(hook[n].sha, IF hook[n].from = {} THEN Plain
                          ELSE Amended(CHOOSE f \in hook[n].from : TRUE))
  /\ Goto(n, "stats")
  /\ UNCHANGED <<reflog, effective, watcherVars, ext, posted, crowded, trouble>>

\* It fails; the hook goes on.
WriteFails(n) ==
  /\ Faults /\ HookAt(n, "write")
  /\ Goto(n, "stats")
  /\ trouble' = trouble \cup {hook[n].sha}
  /\ UNCHANGED <<reflog, notes, effective, watcherVars, ext, posted, crowded, rewritten>>

\* git-ai stats, adjusted (CommitStats) and wrapped into the payload.
Stats(n) ==
  /\ HookAt(n, "stats")
  /\ hook' = [hook EXCEPT ![n].pc = "post", ![n].saw = notes[hook[n].sha]]
  /\ UNCHANGED <<reflog, notes, effective, watcherVars, ext, posted, crowded, trouble, rewritten>>

\* git-ai stats prints nothing: the hook ends.
StatsEmpty(n) ==
  /\ Faults /\ HookAt(n, "stats")
  /\ Goto(n, "done")
  /\ trouble' = trouble \cup {hook[n].sha}
  /\ UNCHANGED <<reflog, notes, effective, watcherVars, ext, posted, crowded, rewritten>>

\* curl, without a timeout of its own.
Post(n) ==
  /\ HookAt(n, "post")
  /\ posted' = posted \cup {[sha |-> hook[n].sha, saw |-> hook[n].saw]}
  /\ Goto(n, "kill")
  /\ UNCHANGED <<reflog, notes, effective, watcherVars, ext, crowded, trouble, rewritten>>

\* curl fails: || true, no retry.
PostFails(n) ==
  /\ Faults /\ HookAt(n, "post")
  /\ Goto(n, "kill")
  /\ trouble' = trouble \cup {hook[n].sha}
  /\ UNCHANGED <<reflog, notes, effective, watcherVars, ext, posted, crowded, rewritten>>

\* pkill -x git-ai: whatever git-ai runs on the machine dies with it; whoever
\* waits for it goes on.
KilledHook(h) ==
  CASE h.pc \in {"check", "write"} -> [h EXCEPT !.pc = "stats"]
    [] h.pc = "stats" -> [h EXCEPT !.pc = "done"]
    [] OTHER -> h
Kill(n) ==
  /\ HookAt(n, "kill")
  /\ hook' = [m \in Commits |-> IF m = n THEN [hook[n] EXCEPT !.pc = "done"]
                                         ELSE KilledHook(hook[m])]
  /\ ext' = [m \in Commits |-> IF ext[m] \in {"check", "write"} THEN "login" ELSE ext[m]]
  /\ trouble' = trouble \cup {m \in Commits : ext[m] \in {"check", "write"}}
                        \cup {hook[m].sha : m \in {k \in Commits : hook[k].pc \in {"check", "write", "stats"}}}
  /\ UNCHANGED <<reflog, notes, effective, watcherVars, posted, crowded, rewritten>>

HookStep(n) ==
  \/ Begin(n) \/ Lock(n) \/ ReadReflog(n) \/ AmendArgs(n)
  \/ Check(n) \/ Write(n) \/ WriteFails(n)
  \/ Stats(n) \/ StatsEmpty(n) \/ Post(n) \/ PostFails(n) \/ Kill(n)

(***************************************************************************)
(* CommitWatcher                                                            *)
(***************************************************************************)
\* isLocalCommit: what the newest reflog message says by now, or true where git
\* does not tell.
LocalCommit == reflog[HEAD] \in {"commit", "amend"}
IsLocalAnswers == IF Faults THEN {LocalCommit, TRUE} ELSE {LocalCommit}

\* onDidChange, with the HEAD that VS Code last read.
Observe ==
  \E h \in known..HEAD :
    /\ skipFirst \/ h # known
    /\ known' = h /\ skipFirst' = FALSE /\ marked' = marked \cup {h}
    /\ ext' \in IF skipFirst \/ h \in marked THEN {ext}
                ELSE {IF isLocal THEN [ext EXCEPT ![h] = "check"] ELSE ext : isLocal \in IsLocalAnswers}
    /\ UNCHANGED <<reflog, notes, effective, hook, posted, crowded, trouble, rewritten>>

\* runPostCommit, the same git-ai post-commit without --amend-from.
ExtCheck(n) ==
  /\ ExtAt(n, "check")
  /\ ext' = [ext EXCEPT ![n] = IF notes[n] = NoNote THEN "write" ELSE "login"]
  /\ UNCHANGED <<reflog, notes, effective, hook, watcherVars, posted, crowded, trouble, rewritten>>

ExtWrite(n) ==
  /\ ExtAt(n, "write")
  /\ SetNote(n, Plain)
  /\ ext' = [ext EXCEPT ![n] = "login"]
  /\ UNCHANGED <<reflog, effective, hook, watcherVars, posted, crowded, trouble>>

\* No binary, a failing exit or the 30 s timeout: the handler goes on.
ExtFails(n) ==
  /\ Faults /\ ext[n] \in {"check", "write"}
  /\ ext' = [ext EXCEPT ![n] = "login"]
  /\ trouble' = trouble \cup {n}
  /\ UNCHANGED <<reflog, notes, effective, hook, watcherVars, posted, crowded, rewritten>>

\* reportUserLogin is over; is the hook effective?
ExtLogin(n) ==
  /\ ExtAt(n, "login")
  /\ ext' = [ext EXCEPT ![n] = IF effective THEN "done" ELSE "upload"]
  /\ UNCHANGED <<reflog, notes, effective, hook, watcherVars, posted, crowded, trouble, rewritten>>

\* uploadCommitStats (StatsUploader has its retries).
ExtUpload(n) ==
  /\ ExtAt(n, "upload")
  /\ posted' = posted \cup {[sha |-> n, saw |-> notes[n]]}
  /\ ext' = [ext EXCEPT ![n] = "done"]
  /\ UNCHANGED <<reflog, notes, effective, hook, watcherVars, crowded, trouble, rewritten>>

ExtUploadFails(n) ==
  /\ Faults /\ ExtAt(n, "upload")
  /\ ext' = [ext EXCEPT ![n] = "done"]
  /\ trouble' = trouble \cup {n}
  /\ UNCHANGED <<reflog, notes, effective, hook, watcherVars, posted, crowded, rewritten>>

ExtStep(n) ==
  \/ ExtCheck(n) \/ ExtWrite(n) \/ ExtFails(n)
  \/ ExtLogin(n) \/ ExtUpload(n) \/ ExtUploadFails(n)

Init ==
  /\ reflog = <<>> /\ notes = [n \in Commits |-> NoNote]
  /\ effective \in BOOLEAN
  /\ hook = [n \in Commits |-> [pc |-> "none", sha |-> 0, from |-> {}, saw |-> NoNote]]
  /\ skipFirst \in BOOLEAN
  /\ known = 0 /\ marked = IF skipFirst THEN {} ELSE {0}
  /\ ext = [n \in Commits |-> "none"]
  /\ posted = {} /\ crowded = {} /\ trouble = {} /\ rewritten = {}

Next ==
  \/ \E k \in Kinds : Move(k)
  \/ Observe
  \/ \E n \in Commits : HookStep(n) \/ ExtStep(n)

Spec == Init /\ [][Next]_vars

(***************************************************************************)
(* Properties                                                               *)
(***************************************************************************)
NoteState == [kind : {"none", "plain", "amend"}, from : Commits]
HookState ==
  [pc : {"none", "begin", "lock", "reflog", "amend", "check", "write", "stats",
         "post", "kill", "done", "locked", "cherry-pick"},
   sha : Commits, from : SUBSET Commits, saw : NoteState]

\* With flock no two hooks of a repository are between taking the lock and
\* their end: notes are removed, written and read by one hook at a time.
OneHookAtATime ==
  HasFlock => \A m, n \in Commits :
    {hook[m].pc, hook[n].pc} \cap {"none", "begin", "lock", "locked", "done", "cherry-pick"} = {}
      => m = n

\* Stats are never uploaded for a commit without a note (which counts all its
\* lines as human) unless git-ai failed on it: neither the other writer, nor
\* the removal of a stale note, nor a killed process can bring that about.
PostedSawNote ==
  HasFlock => \A p \in posted : p.saw = NoNote => p.sha \in trouble

Quiescent == known = HEAD /\ ~skipFirst /\ \A n \in Commits : HookOver(n) /\ ExtOver(n)
\* What git-ai may have written for commit n: for an amended one also the plain
\* note of the extension, which passes no --amend-from.
RightNotes(n) == {Plain} \cup IF reflog[n] = "amend" THEN {Amended(n - 1)} ELSE {}

\* A commit that comes when nothing is being handled, and is handled before
\* HEAD moves again, gets its note and its upload, which saw a note of it,
\* whichever path is in force.
SpacedCommitsCaptured ==
  Quiescent => \A n \in 1..HEAD :
    reflog[n] \in {"commit", "amend"} /\ n \notin crowded \cup trouble =>
      /\ notes[n] \in RightNotes(n)
      /\ \E p \in posted : p.sha = n /\ p.saw \in RightNotes(n)

\* Comment on runPostCommit: as post-commit skips a commit that has a note,
\* hook and extension write nothing twice.  Where the two overlap they can;
\* with flock the hooks alone cannot.
OverwrittenOnlyBesideExtension ==
  HasFlock => \A n \in rewritten : ext[n] # "none"
=============================================================================
