--------------------------- MODULE FormatCReader ---------------------------
(***************************************************************************)
(* The incremental reader of one messages.jsonl file                        *)
(* (kiro-plugin/src/sessionLogWatcher.ts, Format C).  Kiro appends lines;   *)
(* fs.watch events restart a debounce timer; each expiry starts a run of    *)
(* processMessagesJsonlIncremental, which awaits a stat, a read and one     *)
(* checkpoint per repository.  Nothing keeps two runs apart, and all share  *)
(* the byte offset and the set of checkpointed actions.                     *)
(***************************************************************************)
EXTENDS Naturals, Sequences, FiniteSets, SequencesExt

CONSTANTS
  MaxEdits,  \* bound: tool calls Kiro ever logs
  Runs,      \* bound: runs in flight at once
  Succeeds,  \* the edits whose tool_result says success
  RepoOf,    \* RepoOf[e] : repository of edit e
  RawKey,    \* RawKey[e] : its key as parsed, which the filter looks up
  RepoKey,   \* RepoKey[e] : its key after routing, which is remembered
  MaxKeys,   \* MAX_CHECKPOINTED_ACTIONS, 3000 in the code
  Faults,    \* whether file system calls and checkpoints may fail
  Again      \* bound: repositories that may be found again after dispose

Edits == 1..MaxEdits
Repos == {RepoOf[e] : e \in Edits}

ASSUME ReaderAssumption ==
  /\ MaxEdits \in Nat /\ MaxKeys \in Nat \ {0} /\ Faults \in BOOLEAN /\ Succeeds \subseteq Edits
  /\ Again \subseteq Repos
  /\ DOMAIN RepoOf = Edits /\ DOMAIN RawKey = Edits /\ DOMAIN RepoKey = Edits

(* An edit is a tool_call line and, once the tool has run, a tool_result    *)
(* line.  A line is flushed in two units, its text and then its newline, so *)
(* line ends are the even positions and edit e fills units 4e-3 .. 4e.      *)
VARIABLES
  size,      \* units of the file
  watch,     \* "no", "on" (watchMessagesJsonl was called), "off" (disposed)
  init,      \* initOffset: "no", "stat", "done"
  old,       \* the file was last modified before the cold-start window
  base,      \* its size when it was watched, if old
  offset,    \* formatCBytesRead, 0 when absent
  event,     \* an fs.watch event is on its way
  timer,     \* formatCPending holds a debounce timer
  run,       \* run[r].pc; .from, .to : the bytes it reads; .todo : its edits
  repos,     \* this.repos
  keys,      \* checkpointedActions, oldest first
  \* Observation only:
  chunks,    \* byte ranges consumed, in order
  crossed,   \* two runs, or a run and initOffset, were reading at once
  handled,   \* edits whose checkpoint was tried
  failed,    \* a call of the file system failed
  refilled   \* repositories found again after dispose

ghosts == <<chunks, crossed, handled, failed, refilled>>
vars == <<size, watch, init, old, base, offset, event, timer, run, repos,
          keys, ghosts>>

At(r, pc) == run[r].pc = pc
Free == {r \in Runs : At(r, "idle")}
Idle == [pc |-> "idle", from |-> 0, to |-> 0, todo |-> {}]
Reading(r) == run[r].pc \in {"stat", "read"}

LineEnd(n) == n % 2 = 0
\* The end of the last complete line at or before n (lastIndexOf 0x0a).
LastNewline(n) == IF LineEnd(n) THEN n ELSE n - 1

\* extractFormatCWriteActions on a chunk: calls whose successful result is in
\* the same chunk.
Parsed(from, to) == {e \in Succeeds : from <= 4 * e - 4 /\ 4 * e <= to}

\* Set insertion, evicting the oldest key over the cap.
Remember(ks, k) ==
  IF k \in ToSet(ks) THEN ks
  ELSE LET more == Append(ks, k)
       IN  IF Len(more) > MaxKeys THEN Tail(more) ELSE more

\* The keys of the edits B, remembered in the order of the file.
RememberAll(ks, B) ==
  LET upto[e \in 0..MaxEdits] ==
        IF e = 0 THEN ks
        ELSE IF e \in B THEN Remember(upto[e - 1], RepoKey[e]) ELSE upto[e - 1]
  IN  upto[MaxEdits]

(***************************************************************************)
(* Kiro and the file system                                                 *)
(***************************************************************************)
\* One more unit reaches the disk.
Flush ==
  /\ size < 4 * MaxEdits
  /\ size' = size + 1
  /\ event' = (event \/ watch = "on")
  /\ UNCHANGED <<watch, init, old, base, offset, timer, run, repos, keys, ghosts>>

\* watchMessagesJsonl: start initOffset, open the fs.watch.  An old file ends
\* with a complete line.
Watch ==
  /\ watch = "no"
  /\ watch' = "on"
  /\ init' = "stat"
  /\ \E o \in BOOLEAN :
       /\ o => size > 0 /\ LineEnd(size)
       /\ old' = o
       /\ base' = IF o THEN size ELSE 0
  /\ UNCHANGED <<size, offset, event, timer, run, repos, keys, ghosts>>

\* Broken variant: an event that arrives during a run is ignored.
DeliverUnlessBusy ==
  /\ event /\ watch = "on"
  /\ event' = FALSE
  /\ timer' = (timer \/ Free = Runs)
  /\ UNCHANGED <<size, watch, init, old, base, offset, run, repos, keys, ghosts>>

\* The event arrives: debounceFormatC restarts the timer.
Deliver ==
  /\ event /\ watch = "on"
  /\ event' = FALSE
  /\ timer' = TRUE
  /\ UNCHANGED <<size, watch, init, old, base, offset, run, repos, keys, ghosts>>

(***************************************************************************)
(* initOffset                                                               *)
(***************************************************************************)
StartRun(r) ==
  /\ At(r, "idle")
  /\ run' = [run EXCEPT ![r] = [Idle EXCEPT !.pc = "stat"]]

\* Modified within the window: read it from the beginning.
InitRecent(r) ==
  /\ init = "stat" /\ (old => size > base)
  /\ init' = "done"
  /\ offset' = 0
  /\ StartRun(r)
  /\ crossed' = (crossed \/ \E s \in Runs : Reading(s) \/ offset # 0)
  /\ UNCHANGED <<size, watch, old, base, event, timer, repos, keys, chunks, handled, failed, refilled>>

\* Old: skip to the end the stat reported.
InitOld ==
  /\ init = "stat" /\ old
  /\ init' = "done"
  /\ offset' = base
  /\ crossed' = (crossed \/ \E s \in Runs : Reading(s) \/ offset # 0)
  /\ UNCHANGED <<size, watch, old, base, event, timer, run, repos, keys, chunks, handled, failed, refilled>>

\* The stat fails.
InitFails ==
  /\ Faults /\ init = "stat"
  /\ init' = "done"
  /\ offset' = 0 /\ failed' = TRUE
  /\ crossed' = (crossed \/ \E s \in Runs : Reading(s) \/ offset # 0)
  /\ UNCHANGED <<size, watch, old, base, event, timer, run, repos, keys, chunks, handled, refilled>>

(***************************************************************************)
(* processMessagesJsonlIncremental                                          *)
(***************************************************************************)
Fire(r) ==
  /\ timer
  /\ timer' = FALSE
  /\ StartRun(r)
  /\ crossed' = (crossed \/ init = "stat" \/ \E s \in Runs : Reading(s))
  /\ UNCHANGED <<size, watch, init, old, base, offset, event, repos, keys, chunks, handled, failed, refilled>>

\* Broken variant: the read starts at the beginning of the file.
StatFromStart(r) ==
  /\ At(r, "stat")
  /\ run' = [run EXCEPT ![r] =
       IF size <= offset THEN Idle
       ELSE [Idle EXCEPT !.pc = "read", !.from = 0, !.to = size]]
  /\ UNCHANGED <<size, watch, init, old, base, offset, event, timer, repos, keys, ghosts>>

\* The stat answers: stop, or read up to the size it reports from the offset
\* of now.
Stat(r) ==
  /\ At(r, "stat")
  /\ run' = [run EXCEPT ![r] =
       IF size <= offset THEN Idle
       ELSE [Idle EXCEPT !.pc = "read", !.from = offset, !.to = size]]
  /\ UNCHANGED <<size, watch, init, old, base, offset, event, timer, repos, keys, ghosts>>

\* The read answers without a newline: leave the offset alone.
ReadNoLine(r) ==
  /\ At(r, "read")
  /\ LastNewline(run[r].to) <= run[r].from
  /\ run' = [run EXCEPT ![r] = Idle]
  /\ UNCHANGED <<size, watch, init, old, base, offset, event, timer, repos, keys, ghosts>>

\* The edits of a chunk that the run will checkpoint.
New(from, to) ==
  {e \in Parsed(from, to) : RepoOf[e] \in repos /\ RawKey[e] \notin ToSet(keys)}

\* Broken variant: the offset goes straight to the size of the stat.
ReadToSize(r) ==
  LET from == run[r].from
      end == run[r].to
  IN  /\ At(r, "read") /\ LastNewline(end) > from
      /\ offset' = end
      /\ chunks' = Append(chunks, <<from, end>>)
      /\ run' = [run EXCEPT ![r] = IF New(from, end) = {} THEN Idle
                   ELSE [Idle EXCEPT !.pc = "send", !.todo = New(from, end)]]
      /\ UNCHANGED <<size, watch, init, old, base, event, timer, repos, keys, crossed, handled, failed, refilled>>

\* The read answers: consume the complete lines, advance the offset to their
\* end, parse, drop the known actions and those of no repository.
Read(r) ==
  LET from == run[r].from
      end == LastNewline(run[r].to)
  IN  /\ At(r, "read") /\ end > from
      /\ offset' = end
      /\ chunks' = Append(chunks, <<from, end>>)
      /\ run' = [run EXCEPT ![r] = IF New(from, end) = {} THEN Idle
                   ELSE [Idle EXCEPT !.pc = "send", !.todo = New(from, end)]]
      /\ UNCHANGED <<size, watch, init, old, base, event, timer, repos, keys, crossed, handled, failed, refilled>>

\* A file system call throws; the catch logs it.
ReadError(r) ==
  /\ Faults /\ Reading(r)
  /\ run' = [run EXCEPT ![r] = Idle]
  /\ failed' = TRUE
  /\ UNCHANGED <<size, watch, init, old, base, offset, event, timer, repos, keys, chunks, crossed, handled, refilled>>

\* The next repository's edits, and the run without them.
Batch(r, p) == {e \in run[r].todo : RepoOf[e] = p}
Without(r, B) ==
  LET left == run[r].todo \ B
  IN  [run EXCEPT ![r] = IF left = {} THEN Idle ELSE [run[r] EXCEPT !.todo = left]]

\* callCheckpointAgentV1 answers true: remember the actions.
CheckpointOk(r, p) ==
  LET B == Batch(r, p)
  IN  /\ At(r, "send") /\ B # {}
      /\ run' = Without(r, B)
      /\ keys' = RememberAll(keys, B)
      /\ handled' = handled \cup B
      /\ UNCHANGED <<size, watch, init, old, base, offset, event, timer, repos, chunks, crossed, failed, refilled>>

\* It answers false: the actions are neither remembered nor read again.
CheckpointFails(r, p) ==
  LET B == Batch(r, p)
  IN  /\ Faults /\ At(r, "send") /\ B # {}
      /\ run' = Without(r, B)
      /\ handled' = handled \cup B
      /\ UNCHANGED <<size, watch, init, old, base, offset, event, timer, repos, keys, chunks, crossed, failed, refilled>>

\* Building a payload throws: the catch ends the run, whatever groups remain.
RunThrows(r) ==
  /\ Faults /\ At(r, "send")
  /\ run' = [run EXCEPT ![r] = Idle]
  /\ handled' = handled \cup run[r].todo
  /\ UNCHANGED <<size, watch, init, old, base, offset, event, timer, repos, keys, chunks, crossed, failed, refilled>>

\* Broken variant: dispose keeps the repositories.
DisposeKeepsRepos ==
  /\ watch = "on"
  /\ watch' = "off"
  /\ event' = FALSE /\ timer' = FALSE
  /\ offset' = 0 /\ keys' = <<>>
  /\ UNCHANGED <<size, init, old, base, run, repos, ghosts>>

\* dispose: timers, offsets, keys and repositories go; runs in flight stay.
Dispose ==
  /\ watch = "on"
  /\ watch' = "off"
  /\ event' = FALSE /\ timer' = FALSE
  /\ offset' = 0 /\ keys' = <<>> /\ repos' = {}
  /\ UNCHANGED <<size, init, old, base, run, ghosts>>

\* The repositories are shared with the Format A and B reader: a run of it that
\* dispose found in flight adds those of its orphan files again.
Refill(p) ==
  /\ watch = "off" /\ p \in Again \ repos
  /\ repos' = repos \cup {p} /\ refilled' = refilled \cup {p}
  /\ UNCHANGED <<size, watch, init, old, base, offset, event, timer, run, keys, chunks, crossed,
                 handled, failed>>

Init ==
  /\ size = 0
  /\ watch = "no" /\ init = "no" /\ old = FALSE /\ base = 0
  /\ offset = 0 /\ event = FALSE /\ timer = FALSE
  /\ run = [r \in Runs |-> Idle]
  /\ repos = Repos /\ keys = <<>>
  /\ chunks = <<>> /\ crossed = FALSE /\ handled = {} /\ failed = FALSE /\ refilled = {}

RunStep(r) ==
  \/ Stat(r) \/ ReadNoLine(r) \/ Read(r)
  \/ \E p \in Repos : CheckpointOk(r, p) \/ CheckpointFails(r, p)

Next ==
  \/ Flush \/ Watch \/ Deliver \/ Dispose
  \/ InitOld \/ InitFails
  \/ \E p \in Repos : Refill(p)
  \/ \E r \in Runs : InitRecent(r) \/ Fire(r) \/ RunStep(r) \/ ReadError(r) \/ RunThrows(r)

Spec == Init /\ [][Next]_vars

(***************************************************************************)
(* Properties                                                               *)
(***************************************************************************)
\* The line ending at n lies whole in a consumed chunk.
Consumed(n) == \E i \in DOMAIN chunks : chunks[i][1] + 2 <= n /\ n <= chunks[i][2]

\* However runs overlap and whichever of them moves the offset last, every
\* complete line behind it was read whole, except what an old file held when
\* it was first watched.
NoLineSkipped ==
  \A n \in 1..offset : LineEnd(n) /\ n > base => Consumed(n)

\* While reads do not cross, the chunks tile the file: each starts where the
\* one before ended, so no line is read twice.
ReadsTile ==
  ~crossed /\ watch = "on" =>
    /\ \A i \in 2..Len(chunks) : chunks[i][1] = chunks[i - 1][2]
    /\ chunks # <<>> => offset = Last(chunks)[2]

Due(e) == e \in Succeeds /\ base <= 4 * e - 4 /\ 4 * e <= offset
Handled(e) == e \in handled \/ \E r \in Runs : e \in run[r].todo
Split(e) == \E i \in DOMAIN chunks : chunks[i][2] = 4 * e - 2

\* A successful edit behind the offset is checkpointed, failed or on its way,
\* unless a read ended between its two lines.
EditsAccounted == watch = "on" => \A e \in Edits : Due(e) => Handled(e) \/ Split(e)

\* A run that was awaiting its read when the watcher was disposed of takes on no
\* checkpoint, except in repositories that a Format A or B run in flight has
\* added again since.
NoCheckpointAfterDispose ==
  [][watch = "off" => \A r \in Runs : \A e \in run'[r].todo \ run[r].todo :
       RepoOf[e] \in refilled]_vars

\* No wake-up is lost: when nothing is on its way any more, no event, timer or
\* run, every complete line has been read, unless the file system failed.
AtRest == ~event /\ ~timer /\ init = "done" /\ Free = Runs
AllReadAtRest ==
  watch = "on" /\ AtRest /\ ~failed =>
    \A n \in 1..size : LineEnd(n) /\ base < n => Consumed(n)
=============================================================================
