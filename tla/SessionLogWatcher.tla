------------------------- MODULE SessionLogWatcher -------------------------
(***************************************************************************)
(* The execution-log half of kiro-plugin/src/sessionLogWatcher.ts (Formats  *)
(* A and B): one 414d* directory whose log files Kiro rewrites as an        *)
(* execution proceeds.  fs.watch events start debounce timers, an expired   *)
(* timer starts a run, a run parses a whole log again, and the set of       *)
(* checkpointed actions decides what of it is new.  Runs interleave at each *)
(* await; the cold-start scan runs beside them.                             *)
(***************************************************************************)
EXTENDS Naturals, Sequences, FiniteSets, SequencesExt, FiniteSetsExt

CONSTANTS
  Sessions,   \* chat sessions of the workspace
  Logs,       \* those with a log file in the directory, which stands for the log
  Passes,     \* bound: Passes[f][n] write actions are in log f after Kiro's n-th pass
  Runs,       \* bound: runs of processExecutionLog at once
  RepoOf,     \* RepoOf[a] : repository of action a = <<log, index>>
  RawKey,     \* RawKey[a] : `filePath:emittedAt` as parsed, which is looked up
  MarkKey,    \* MarkKey[a] : the key after routing, which is remembered
  Known,      \* sessions listed in sessions.json from the beginning
  Found,      \* repositories that initRepoDiscovery finds
  Deletes,    \* actions that delete lines
  MaxKeys,    \* MAX_CHECKPOINTED_ACTIONS, 3000 in the code
  ScanLimit,  \* COLD_START_SCAN_LIMIT, 10 in the code
  AtStart,    \* the directory exists when the extension activates
  Faults,     \* reads and checkpoints may fail
  Gone,       \* bound: actions whose file may be gone when a run looks
  Disposal    \* the window may close

Written(f, n) == IF n = 0 THEN {} ELSE {<<f, i>> : i \in 1..Passes[f][n]}
ActionsOf(f) == UNION {Written(f, n) : n \in DOMAIN Passes[f]}
Actions == UNION {ActionsOf(f) : f \in Logs}
Repos == {RepoOf[a] : a \in Actions}

ASSUME WatcherAssumption ==
  /\ Passes \in [Logs -> Seq(Nat)] /\ MaxKeys \in Nat \ {0} /\ ScanLimit \in Nat
  /\ DOMAIN RepoOf = Actions /\ DOMAIN RawKey = Actions /\ DOMAIN MarkKey = Actions
  /\ Logs \subseteq Sessions /\ Known \subseteq Sessions /\ Found \subseteq Repos /\ Deletes \cup Gone \subseteq Actions
  /\ {AtStart, Faults, Disposal} \subseteq BOOLEAN

VARIABLES
  size,        \* size[f] : two per pass over log f; odd while half flushed
  registered,  \* sessions listed in sessions.json
  ids,         \* sessionIds
  cool,        \* the refresh cooldown has passed
  phase,       \* start(): "off", "ids", "list", "snapshot", "scan", "done"
  watch,       \* the directory's fs.watch is open
  todo,        \* logs that snapshotExistingFiles or the cold scan has left
  seen,        \* lastProcessedSize, 0 when absent
  timer,       \* logs with a debounce timer in pendingChanges
  run,         \* run[r] : pc, log, passes it has read, new actions, repository
  repos,       \* this.repos
  keys,        \* checkpointedActions, oldest first
  netdel,      \* netdel[p] : the actions kiro_net_deletions of p was computed from
  \* Observation only:
  sent,        \* actions whose AI checkpoint succeeded
  resent,      \* ... more than once
  exposed,     \* actions held by two runs at once, or whose key was evicted
  dropped,     \* actions taken for known that no checkpoint had carried
  left         \* logs given up until they change: passed over, or something failed

logVars == <<size, registered>>
sessionVars == <<ids, cool>>
startVars == <<phase, watch, todo>>
ghosts == <<sent, resent, exposed, dropped, left>>
vars == <<logVars, sessionVars, startVars, seen, timer, run, repos, keys, netdel, ghosts>>

Idle == [pc |-> "idle", log |-> "", cold |-> FALSE, len |-> 0, acts |-> {}, repo |-> ""]
At(r, pc) == run[r].pc = pc
Torn(f) == size[f] % 2 = 1
Existing == {f \in Logs : size[f] > 0}
Complete(f) == Written(f, size[f] \div 2)

(***************************************************************************)
(* Kiro                                                                     *)
(***************************************************************************)
\* Half a pass over a log reaches the disk; the fs.watch event restarts the
\* debounce timer (an event that comes later finds the size it will have).
Write(f) ==
  /\ size[f] < 2 * Len(Passes[f])
  /\ size' = [size EXCEPT ![f] = @ + 1]
  /\ IF watch THEN timer' = timer \cup {f} /\ left' = left \ {f} ELSE UNCHANGED <<timer, left>>
  /\ UNCHANGED <<registered, sessionVars, startVars, seen, run, repos, keys, netdel,
                 sent, resent, exposed, dropped>>

\* sessions.json gains a session.
Register(f) ==
  /\ f \notin registered
  /\ registered' = registered \cup {f}
  /\ UNCHANGED <<size, sessionVars, startVars, seen, timer, run, repos, keys, netdel, ghosts>>

\* SESSION_ID_REFRESH_COOLDOWN_MS pass.
CoolDown ==
  /\ ~cool
  /\ cool' = TRUE
  /\ UNCHANGED <<logVars, ids, startVars, seen, timer, run, repos, keys, netdel, ghosts>>

(***************************************************************************)
(* start(), watchParentDir, snapshotExistingFiles, runColdStartScan         *)
(***************************************************************************)
\* getWorkspaceSessionIds when the extension activates.
ReadIds ==
  /\ phase = "off"
  /\ phase' = "ids"
  /\ ids' = registered
  /\ UNCHANGED <<logVars, cool, watch, todo, seen, timer, run, repos, keys, netdel, ghosts>>

\* watchExecLogDir.
Watch ==
  /\ phase = "ids"
  /\ phase' = "list" /\ watch' = TRUE
  /\ UNCHANGED <<logVars, sessionVars, todo, seen, timer, run, repos, keys, netdel, ghosts>>

\* readdir for the snapshot.
List ==
  /\ phase = "list"
  /\ phase' = "snapshot" /\ todo' = Existing
  /\ UNCHANGED <<logVars, sessionVars, watch, seen, timer, run, repos, keys, netdel, ghosts>>

\* stat of one file: its size counts as processed.
Snapshot(f) ==
  /\ phase = "snapshot" /\ f \in todo
  /\ todo' = todo \ {f}
  /\ seen' = [seen EXCEPT ![f] = size[f]]
  /\ UNCHANGED <<logVars, sessionVars, phase, watch, timer, run, repos, keys, netdel, ghosts>>

\* Broken variant: no cold-start scan.
BeginScanNever ==
  /\ phase = "snapshot" /\ todo = {}
  /\ phase' = "done"
  /\ UNCHANGED <<logVars, sessionVars, watch, todo, seen, timer, run, repos, keys, netdel, ghosts>>

\* A directory found by start() is scanned once, unless dispose has come: at most
\* ScanLimit logs, the newest of those changed in the last 7 days.  Times are not
\* kept here, so these may be any.  A directory that watchParentDir found later is
\* not scanned.  What the snapshot took for processed and the scan passes over is
\* left until it changes.
BeginScan ==
  /\ phase = "snapshot" /\ todo = {}
  /\ IF AtStart /\ watch
       THEN /\ phase' = "scan"
            /\ \E S \in SUBSET Existing : Cardinality(S) <= ScanLimit /\ todo' = S
       ELSE phase' = "done" /\ todo' = {}
  /\ left' = left \cup {f \in Existing \ todo' : seen[f] = size[f]}
  /\ UNCHANGED <<logVars, sessionVars, watch, seen, timer, run, repos, keys, netdel,
                 sent, resent, exposed, dropped>>

\* The scan awaits one log after the other.
ScanNext(r, f) ==
  /\ phase = "scan" /\ f \in todo
  /\ At(r, "idle") /\ \A s \in Runs : ~run[s].cold
  /\ todo' = todo \ {f}
  /\ run' = [run EXCEPT ![r] = [Idle EXCEPT !.pc = "parse", !.log = f, !.cold = TRUE]]
  /\ UNCHANGED <<logVars, sessionVars, phase, watch, seen, timer, repos, keys, netdel, ghosts>>

(***************************************************************************)
(* checkAndProcess                                                          *)
(***************************************************************************)
\* The timer fires and the stat is on its way.
Fire(r, f) ==
  /\ f \in timer /\ At(r, "idle")
  /\ timer' = timer \ {f}
  /\ run' = [run EXCEPT ![r] = [Idle EXCEPT !.pc = "check", !.log = f]]
  /\ UNCHANGED <<logVars, sessionVars, startVars, seen, repos, keys, netdel, ghosts>>

\* The stat answers: a size already seen ends the run, another is recorded
\* before the log is processed.
Check(r) ==
  LET f == run[r].log
  IN  /\ At(r, "check")
      /\ IF seen[f] = size[f]
           THEN run' = [run EXCEPT ![r] = Idle] /\ UNCHANGED seen
           ELSE /\ seen' = [seen EXCEPT ![f] = size[f]]
                /\ run' = [run EXCEPT ![r].pc = "parse"]
      /\ UNCHANGED <<logVars, sessionVars, startVars, timer, repos, keys, netdel, ghosts>>

(***************************************************************************)
(* processExecutionLog                                                      *)
(***************************************************************************)
\* Broken variant: the set of checkpointed actions is not consulted.
FreshAll(A) == A

\* The actions that are not known as checkpointed.
Fresh(A) == {a \in A : RawKey[a] \notin ToSet(keys)}
HeldByOther(r, a) == \E s \in Runs \ {r} : a \in run[s].acts

\* From the session filter to the first checkpoint, in one turn: overwrite
\* kiro_net_deletions of every known repository, drop the known actions and
\* those whose file is gone, route the rest, adding repositories as needed.
Process(r, len) ==
  LET f == run[r].log
      A == Written(f, len)
      Of(p) == {a \in A : RepoOf[a] = p}
      counted == {p \in repos : Of(p) \cap Deletes # {}}
  IN  /\ netdel' = [p \in Repos |-> IF p \in counted THEN Of(p) ELSE netdel[p]]
      /\ dropped' = dropped \cup ((A \ Fresh(A)) \ sent)
      /\ \E gone \in SUBSET (Fresh(A) \cap Gone) :
           LET new == Fresh(A) \ gone
           IN  /\ repos' = repos \cup {RepoOf[a] : a \in Fresh(A)}
               /\ exposed' = exposed \cup {a \in new : HeldByOther(r, a)}
               /\ left' = IF gone = {} THEN left ELSE left \cup {f}
               /\ run' = [run EXCEPT ![r] = IF new = {} THEN Idle
                    ELSE [@ EXCEPT !.pc = "human", !.acts = new, !.len = 0]]

\* The log is read and parsed.  One that is half flushed is no JSON; one of
\* another session is skipped, after a refresh if the cooldown has passed.
Parse(r) ==
  LET f == run[r].log
  IN  /\ At(r, "parse")
      /\ IF Torn(f)
           THEN /\ run' = [run EXCEPT ![r] = Idle]
                /\ UNCHANGED <<cool, repos, netdel, exposed, dropped, left>>
         ELSE IF ids = {} \/ f \in ids
           THEN Process(r, size[f] \div 2) /\ UNCHANGED cool
         ELSE /\ run' = [run EXCEPT ![r] = IF cool
                           THEN [@ EXCEPT !.pc = "refresh", !.len = size[f] \div 2]
                           ELSE Idle]
              /\ cool' = FALSE
              /\ left' = IF cool THEN left ELSE left \cup {f}
              /\ UNCHANGED <<repos, netdel, exposed, dropped>>
      /\ UNCHANGED <<logVars, ids, startVars, seen, timer, keys, sent, resent>>

\* sessions.json has been read again.
Refresh(r) ==
  LET known == IF Cardinality(registered) > Cardinality(ids) THEN registered ELSE ids
  IN  /\ At(r, "refresh")
      /\ ids' = known
      /\ IF run[r].log \in known
           THEN Process(r, run[r].len)
           ELSE /\ run' = [run EXCEPT ![r] = Idle]
                /\ left' = left \cup {run[r].log}
                /\ UNCHANGED <<repos, netdel, exposed, dropped>>
      /\ UNCHANGED <<logVars, cool, startVars, seen, timer, keys, sent, resent>>

\* The read fails: nothing is parsed, and the size stays recorded.
ParseFails(r) ==
  /\ Faults /\ At(r, "parse")
  /\ run' = [run EXCEPT ![r] = Idle]
  /\ left' = left \cup {run[r].log}
  /\ UNCHANGED <<logVars, sessionVars, startVars, seen, timer, repos, keys, netdel, sent, resent, exposed, dropped>>

\* The human checkpoint of the next repository answers, well or not.
Human(r, p) ==
  /\ At(r, "human") /\ \E a \in run[r].acts : RepoOf[a] = p
  /\ run' = [run EXCEPT ![r].pc = "ai", ![r].repo = p]
  /\ UNCHANGED <<logVars, sessionVars, startVars, seen, timer, repos, keys, netdel, ghosts>>

Batch(r) == {a \in run[r].acts : RepoOf[a] = run[r].repo}
Remember(ks, K) ==
  ks \o SetToSeq(K \ ToSet(ks))
\* What the cap at the end of a run leaves.
Capped(ks) == IF Len(ks) > MaxKeys THEN SubSeq(ks, Len(ks) - MaxKeys + 1, Len(ks)) ELSE ks

\* The run goes on to its next repository, or caps the keys and ends.
Proceed(r, ks) ==
  LET rest == run[r].acts \ Batch(r)
  IN  IF rest # {}
        THEN /\ run' = [run EXCEPT ![r].pc = "human", ![r].acts = rest, ![r].repo = ""]
             /\ keys' = ks
             /\ UNCHANGED exposed
        ELSE /\ run' = [run EXCEPT ![r] = Idle]
             /\ keys' = Capped(ks)
             /\ exposed' = exposed \cup
                  {a \in Actions : MarkKey[a] \in ToSet(ks) \ ToSet(Capped(ks))}

\* The AI checkpoint answers true: remember its actions.
AiOk(r) ==
  /\ At(r, "ai")
  /\ Proceed(r, Remember(keys, {MarkKey[a] : a \in Batch(r)}))
  /\ sent' = sent \cup Batch(r)
  /\ resent' = resent \cup (Batch(r) \cap sent)
  /\ UNCHANGED <<logVars, sessionVars, startVars, seen, timer, repos, netdel, dropped, left>>

\* Broken variant: the actions are remembered whatever the answer.
AiFailsMarked(r) ==
  /\ Faults /\ At(r, "ai")
  /\ Proceed(r, Remember(keys, {MarkKey[a] : a \in Batch(r)}))
  /\ left' = left \cup {run[r].log}
  /\ UNCHANGED <<logVars, sessionVars, startVars, seen, timer, repos, netdel, sent, resent, dropped>>

\* It answers false, or a payload cannot be built: go on without remembering.
AiFails(r) ==
  /\ Faults /\ At(r, "ai")
  /\ Proceed(r, keys)
  /\ left' = left \cup {run[r].log}
  /\ UNCHANGED <<logVars, sessionVars, startVars, seen, timer, repos, netdel, sent, resent, dropped>>

\* dispose: runs in flight, the snapshot and the scan go on without the state.
Dispose ==
  /\ Disposal /\ watch
  /\ watch' = FALSE
  /\ timer' = {} /\ seen' = [f \in Logs |-> 0]
  /\ ids' = {} /\ repos' = {} /\ keys' = <<>>
  /\ exposed' = Actions
  /\ UNCHANGED <<logVars, cool, phase, todo, run, netdel, sent, resent, dropped, left>>

Init ==
  /\ size = [f \in Logs |-> 0]
  /\ registered = Known
  /\ ids = {} /\ cool = TRUE
  /\ phase = "off" /\ watch = FALSE /\ todo = {}
  /\ seen = [f \in Logs |-> 0] /\ timer = {}
  /\ run = [r \in Runs |-> Idle]
  /\ repos = Found
  /\ keys = <<>> /\ netdel = [p \in Repos |-> {}]
  /\ sent = {} /\ resent = {} /\ exposed = {} /\ dropped = {} /\ left = {}

RunStep(r) ==
  \/ Check(r) \/ Parse(r) \/ Refresh(r)
  \/ \E p \in Repos : Human(r, p)
  \/ AiOk(r) \/ AiFails(r)

Startup == ReadIds \/ Watch \/ List \/ (\E f \in Logs : Snapshot(f)) \/ BeginScan

Next ==
  \/ \E f \in Logs : Write(f) \/ Register(f)
  \/ CoolDown \/ Startup \/ Dispose
  \/ \E r \in Runs : RunStep(r) \/ ParseFails(r) \/ \E f \in Logs : ScanNext(r, f) \/ Fire(r, f)

\* The event loop keeps turning (startup proceeds, timers fire, awaited calls
\* answer) and Kiro finishes a pass over a log that it has begun.
Progress ==
  \/ Startup
  \/ \E r \in Runs : RunStep(r) \/ \E f \in Logs : Fire(r, f) \/ ScanNext(r, f)
  \/ \E f \in Logs : Torn(f) /\ Write(f)

Fairness == WF_vars(Progress)

Spec == Init /\ [][Next]_vars
FairSpec == Spec /\ Fairness

(***************************************************************************)
(* Properties                                                               *)
(***************************************************************************)
\* Whatever fails, is evicted or is parsed by two runs, an action that is skipped
\* as already checkpointed was in a successful AI checkpoint, or it has the key of
\* another one that was: edits of one file in a Format B log all have the key
\* `path:none`, so the later ones are hidden by the first.
FilteredWasSent == \A a \in dropped : \E b \in sent \ {a} : MarkKey[b] = RawKey[a]

\* An action is checkpointed twice only if two runs held it at once, its key
\* was evicted or cleared, or routing changed its path (so that the key that
\* is remembered is not the one that is looked up).
ResentOnlyIfExposed ==
  \A a \in resent : a \in exposed \/ RawKey[a] # MarkKey[a]

Disposed == ~watch /\ phase \notin {"off", "ids"}

\* Whatever the interleaving of writes, snapshot, scan, refreshes of the session list
\* and runs, every action of a log is in the end checkpointed or hidden as above,
\* or the log was given up after its last change: the scan or the session filter
\* passed over it, or something failed; or the window was closed.
EveryActionSent ==
  \A f \in Logs : <>[](Complete(f) \subseteq sent \cup dropped \/ f \in left \/ Disposed)
=============================================================================
