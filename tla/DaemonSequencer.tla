--------------------------- MODULE DaemonSequencer ---------------------------
(***************************************************************************)
(* The daemon of git-ai (daemon.rs, daemon/trace_normalizer.rs) for one     *)
(* family of worktrees: git's trace2 events become, in order, the effects   *)
(* of commands; agents' checkpoints are put between them.                   *)
(*                                                                          *)
(* Actors that run effects: the worker of the ingest queue, and a task per  *)
(* checkpoint request.  Times of starts and requests are a logical clock.   *)
(***************************************************************************)
EXTENDS Naturals, Sequences, FiniteSets

CONSTANTS
  Commands,    \* git commands, one trace connection each
  Checkpoints, \* checkpoint requests
  Slotted,     \* commands whose start event names the worktree: they get a slot
  Mutating,    \* commands that may move refs: they need reflog offsets to end
  Worker,      \* the worker of the ingest queue
  Capacity,    \* bound: TRACE_INGEST_QUEUE_CAPACITY, of the queue and the buffer
  Budgets      \* bounds: what one run may hold, see budget

ASSUME DaemonSequencerAssumption ==
  /\ Slotted \cup Mutating \subseteq Commands
  /\ IsFiniteSet(Commands) /\ IsFiniteSet(Checkpoints)
  /\ Capacity \in Nat \ {0}
  /\ Commands \cap Checkpoints = {} /\ Worker \notin Commands \cup Checkpoints

Actors == Checkpoints \cup {Worker}

VARIABLES
  budget,  \* the commands and requests of the run, how many commands may be killed,
           \* whether the maps may be collected and the daemon stopped
  clock,   \* counts starts of commands and appends of checkpoints
  git,     \* git[c] : the process: when it started, whether it is gone, or killed
  wire,    \* wire[c] : events written to the trace socket, not yet read
  conn,    \* conn[c] : its connection's thread, and the payload that it will send
  tracked, \* commands known to trace_ingress_state
  nextSeq, \* next_trace_ingest_seq: the last sequence number given out
  queue,   \* the ingest channel
  buffer,  \* pending_by_seq of the worker
  due,     \* next_seq of the worker; processed_trace_ingest_seq is due - 1
  norm,    \* norm[c] : what the normalizer knows of c
  slots,   \* pending_root_slots_by_root
  entries, \* entries of the family's sequencer
  lock,    \* side_effect_exec_locks: the family's lock, 0 for none; locks ever made
  gcLeft,  \* the maps may still be collected: every 500 payloads, and every hour
  task,    \* task[a] : where actor a is
  daemon,  \* "up", "stopping" or "gone"
  \* Observation only:
  ran,     \* commands and checkpoints in the order their effects began
  seqOf,   \* seqOf[c] : sequence numbers of c's start and of its end
  mark,    \* mark[h] : the watermark that request h waits for
  misgc    \* a lock was collected that somebody held or waited for

gitVars == <<budget, git, wire>>
inVars == <<conn, tracked, nextSeq, seqOf>>
ingestVars == <<queue, buffer, due, norm>>
lockVars == <<lock, gcLeft, misgc>>
vars == <<gitVars, inVars, ingestVars, lockVars, clock, slots, entries, task, daemon, ran, mark>>

NoPayload == [cmd |-> Worker, ev |-> "none", seq |-> 0, ends |-> FALSE]
Off == [pc |-> "off", lock |-> 0, put |-> "none", cmd |-> Worker, todo |-> {}]
Slot(c) == [at |-> git[c].at, item |-> c, is |-> "pending"]
First(S) == CHOOSE e \in S : \A o \in S : e.at <= o.at
Alive == daemon # "gone"
At(a, pc) == task[a].pc = pc

(***************************************************************************)
(* git, and the thread of its trace connection                              *)
(***************************************************************************)
Start(c) ==
  /\ c \in budget.commands /\ git[c].phase = "new"
  /\ clock' = clock + 1
  /\ git' = [git EXCEPT ![c].phase = "live", ![c].at = clock + 1]
  /\ wire' = [wire EXCEPT ![c] = <<"start">>]
  /\ conn' = [conn EXCEPT ![c].open = TRUE]
  /\ UNCHANGED <<budget, tracked, nextSeq, seqOf, ingestVars, lockVars, slots, entries, task,
                 daemon, ran, mark>>

\* git writes exit and atexit.  It may be killed before, or between the two.
Leave(c, events, killed) ==
  /\ git[c].phase = "live"
  /\ git' = [git EXCEPT ![c].phase = "gone", ![c].killed = killed]
  /\ wire' = [wire EXCEPT ![c] = @ \o events]
  /\ UNCHANGED <<budget, inVars, ingestVars, lockVars, clock, slots, entries, task, daemon, ran, mark>>
Exit(c) == Leave(c, <<"exit", "atexit">>, FALSE)
Kill(c) ==
  /\ Cardinality({d \in Commands : git[d].killed}) < budget.kills
  /\ \E events \in {<<>>, <<"exit">>} : Leave(c, events, TRUE)

\* The sequence number is taken first, then reflog offsets are read and the
\* payload is completed: an end has its offsets while the root is tracked, and
\* if they can be read.
Read(c) ==
  LET ev == Head(wire[c])
  IN  /\ Alive /\ conn[c].open /\ conn[c].load = NoPayload /\ wire[c] # <<>>
      /\ nextSeq' = nextSeq + 1
      /\ wire' = [wire EXCEPT ![c] = Tail(@)]
      /\ \E ends \in IF ev = "exit" /\ c \in Mutating THEN BOOLEAN ELSE {FALSE} :
           conn' = [conn EXCEPT ![c].load =
                      [cmd |-> c, ev |-> ev, seq |-> nextSeq + 1, ends |-> ends]]
      /\ tracked' = IF ev = "start" THEN tracked \cup {c} ELSE tracked \ {c}
      /\ seqOf' = CASE ev = "start" -> [seqOf EXCEPT ![c].start = nextSeq + 1]
                    [] ev = "exit"  -> [seqOf EXCEPT ![c].end = nextSeq + 1]
                    [] OTHER -> seqOf
      /\ UNCHANGED <<budget, git, ingestVars, lockVars, clock, slots, entries, task, daemon, ran, mark>>

\* enqueue_trace_payload blocks while the channel is full.  When it is closed,
\* the connection is given up.
Enqueue(c) ==
  /\ Alive /\ conn[c].load # NoPayload
  /\ IF daemon = "up"
       THEN /\ Len(queue) < Capacity
            /\ queue' = Append(queue, conn[c].load)
            /\ conn' = [conn EXCEPT ![c].load = NoPayload]
       ELSE /\ conn' = [conn EXCEPT ![c] = [open |-> FALSE, load |-> NoPayload]]
            /\ UNCHANGED queue
  /\ UNCHANGED <<gitVars, tracked, nextSeq, seqOf, buffer, due, norm, lockVars, clock, slots,
                 entries, task, daemon, ran, mark>>

\* Broken variant: the made-up atexit gets the last number again.
CloseReusing(c) ==
  /\ Alive /\ conn[c].open /\ conn[c].load = NoPayload
  /\ git[c].phase = "gone" /\ wire[c] = <<>>
  /\ conn' = [conn EXCEPT ![c] = [open |-> FALSE, load |->
       IF c \in tracked THEN [cmd |-> c, ev |-> "atexit", seq |-> nextSeq, ends |-> FALSE]
                        ELSE NoPayload]]
  /\ UNCHANGED <<gitVars, tracked, nextSeq, seqOf, ingestVars, lockVars, clock, slots, entries,
                 task, daemon, ran, mark>>

\* The connection closes.  For a root still tracked an atexit is made up, which
\* does not pass through the completion above.
Close(c) ==
  /\ Alive /\ conn[c].open /\ conn[c].load = NoPayload
  /\ git[c].phase = "gone" /\ wire[c] = <<>>
  /\ IF c \in tracked
       THEN /\ nextSeq' = nextSeq + 1
            /\ conn' = [conn EXCEPT ![c] = [open |-> FALSE, load |->
                          [cmd |-> c, ev |-> "atexit", seq |-> nextSeq + 1, ends |-> FALSE]]]
            /\ seqOf' = [seqOf EXCEPT ![c].end = nextSeq + 1]
       ELSE /\ conn' = [conn EXCEPT ![c].open = FALSE]
            /\ UNCHANGED <<nextSeq, seqOf>>
  /\ UNCHANGED <<gitVars, tracked, ingestVars, lockVars, clock, slots, entries, task, daemon, ran, mark>>

(***************************************************************************)
(* The lock of the family and the execution of ready entries                *)
(***************************************************************************)
\* side_effect_exec_lock: clone the lock in the map, or put a new one there.
Clone(a, cmd, put) ==
  LET id == IF lock.id = 0 THEN lock.made + 1 ELSE lock.id
  IN  /\ lock' = [id |-> id, made |-> IF lock.id = 0 THEN id ELSE lock.made]
      /\ task' = [task EXCEPT ![a] = [Off EXCEPT !.pc = "lock", !.lock = id, !.cmd = cmd, !.put = put]]
      /\ UNCHANGED <<gcLeft, misgc>>

Holds(a) == task[a].pc \in {"pop", "run"}

\* Broken variant: the worker does not wait for the lock.
LockedFreely(a) ==
  LET slot == Slot(task[a].cmd)
  IN  /\ Alive /\ At(a, "lock")
      /\ entries' = IF a = Worker THEN (entries \ {slot}) \cup {[slot EXCEPT !.is = task[a].put]}
                    ELSE entries \cup {[at |-> clock + 1, item |-> a, is |-> "ready"]}
      /\ clock' = IF a = Worker THEN clock ELSE clock + 1
      /\ task' = [task EXCEPT ![a].pc = "pop"]
      /\ UNCHANGED <<gitVars, inVars, ingestVars, lockVars, slots, daemon, ran, mark>>

\* Under the lock: a checkpoint is appended with the time it is now; a command's
\* slot becomes ready or cancelled.
Locked(a) ==
  /\ Alive /\ At(a, "lock")
  /\ \A b \in Actors : Holds(b) => task[b].lock # task[a].lock
  /\ IF a = Worker
       THEN LET slot == Slot(task[a].cmd)
            IN  entries' = (entries \ {slot}) \cup {[slot EXCEPT !.is = task[a].put]}
                /\ UNCHANGED clock
       ELSE /\ clock' = clock + 1
            /\ entries' = entries \cup {[at |-> clock + 1, item |-> a, is |-> "ready"]}
  /\ task' = [task EXCEPT ![a].pc = "pop"]
  /\ UNCHANGED <<gitVars, inVars, ingestVars, lockVars, slots, daemon, ran, mark>>

\* Broken variant: the first error ends the drain.
BeginOne(a, todo) ==
  IF At(a, "pop") /\ todo # {}
    THEN /\ task' = [task EXCEPT ![a].pc = "run", ![a].todo = todo]
         /\ ran' = Append(ran, First(todo).item)
    ELSE /\ \E pc \in IF a = Worker THEN {"finish"} ELSE {"respond", "done"} :
              task' = [task EXCEPT ![a] = [Off EXCEPT !.pc = pc, !.cmd = task[a].cmd]]
         /\ UNCHANGED ran

\* The next effect begins.  After the last, the worker is done with its payload;
\* a request that waits is answered by whoever runs its entry.
Begin(a, todo) ==
  IF todo # {}
    THEN /\ task' = [task EXCEPT ![a].pc = "run", ![a].todo = todo]
         /\ ran' = Append(ran, First(todo).item)
    ELSE /\ \E pc \in IF a = Worker THEN {"finish"} ELSE {"respond", "done"} :
              task' = [task EXCEPT ![a] = [Off EXCEPT !.pc = pc, !.cmd = task[a].cmd]]
         /\ UNCHANGED ran

\* Broken variant: entries behind a pending one are taken as well.
PopPastPending(a) ==
  LET ready == {e \in entries : e.is # "pending"}
  IN  /\ Alive /\ At(a, "pop")
      /\ entries' = entries \ ready
      /\ Begin(a, {e \in ready : e.is = "ready"})
      /\ UNCHANGED <<gitVars, inVars, ingestVars, lockVars, clock, slots, daemon, mark>>

\* Broken variant: what is run stays in the sequencer.
PopKeeping(a) ==
  LET ready == {e \in entries : \A o \in entries : o.is = "pending" => e.at < o.at}
  IN  /\ Alive /\ At(a, "pop")
      /\ Begin(a, {e \in ready : e.is = "ready"})
      /\ UNCHANGED <<gitVars, inVars, ingestVars, lockVars, clock, slots, entries, daemon, mark>>

\* drain_ready_family_sequencer_entries_locked: take the entries up to the first
\* that is still pending, and run them in order.
Pop(a) ==
  LET ready == {e \in entries : \A o \in entries : o.is = "pending" => e.at < o.at}
  IN  /\ Alive /\ At(a, "pop")
      /\ entries' = entries \ ready
      /\ Begin(a, {e \in ready : e.is = "ready"})
      /\ UNCHANGED <<gitVars, inVars, ingestVars, lockVars, clock, slots, daemon, mark>>

\* An effect ends; an error is recorded and the next one begins.
RunEnds(a) ==
  /\ Alive /\ At(a, "run")
  /\ Begin(a, task[a].todo \ {First(task[a].todo)})
  /\ UNCHANGED <<gitVars, inVars, ingestVars, lockVars, clock, slots, entries, daemon, mark>>

(***************************************************************************)
(* The ingest worker                                                        *)
(***************************************************************************)
\* gc_stale_family_state keeps the locks that nobody holds (strong_count <= 1).
Used(id) == \E a \in Actors : task[a].pc \in {"lock", "pop", "run"} /\ task[a].lock = id
Collect ==
  /\ gcLeft /\ gcLeft' = FALSE
  /\ lock' = IF Used(lock.id) THEN [lock EXCEPT !.id = 0] ELSE lock
  /\ misgc' = (misgc \/ Used(lock.id))

\* The hourly update check collects the maps from a thread of its own.
Sweep ==
  /\ daemon = "up" /\ Collect
  /\ UNCHANGED <<gitVars, inVars, ingestVars, clock, slots, entries, task, daemon, ran, mark>>

\* The worker is done with a payload; now and then the maps are collected.
Done ==
  /\ due' = due + 1
  /\ task' = [task EXCEPT ![Worker] = Off]
  /\ UNCHANGED lockVars \/ Collect

Receive ==
  /\ Alive /\ At(Worker, "off") /\ queue # <<>> /\ \A p \in buffer : p.seq # due
  /\ queue' = Tail(queue)
  /\ IF Cardinality(buffer) >= Capacity
       THEN /\ task' = [task EXCEPT ![Worker].pc = "dead"]
            /\ daemon' = "stopping"
            /\ UNCHANGED buffer
       ELSE /\ buffer' = buffer \cup {Head(queue)}
            /\ UNCHANGED <<task, daemon>>
  /\ UNCHANGED <<gitVars, inVars, due, norm, lockVars, clock, slots, entries, ran, mark>>

Takes(p) == Alive /\ At(Worker, "off") /\ p.seq = due /\ buffer' = buffer \ {p}

\* The slot's entry is added without the lock.
TakeStart(p) ==
  /\ Takes(p) /\ p.ev = "start"
  /\ IF p.cmd \in Slotted
       THEN slots' = slots \cup {p.cmd} /\ entries' = entries \cup {Slot(p.cmd)}
       ELSE UNCHANGED <<slots, entries>>
  /\ norm' = [norm EXCEPT ![p.cmd] = "pending"]
  /\ Done
  /\ UNCHANGED <<gitVars, inVars, queue, clock, daemon, ran, mark>>

\* finalize_root_exit needs the offsets of a mutating command.  Its slot becomes
\* ready; without one it is applied at once, without the lock, and its root is
\* not tracked any more (clear_trace_root_tracking).
Finalizes(p) == norm[p.cmd] = "pending" /\ (p.cmd \in Mutating => p.ends)
TakeEnd(p) ==
  LET c == p.cmd
  IN  /\ Takes(p) /\ p.ev # "start" /\ Finalizes(p)
      /\ norm' = [norm EXCEPT ![c] = "completed"]
      /\ slots' = slots \ {c}
      /\ IF c \in slots
           THEN Clone(Worker, c, "ready") /\ UNCHANGED ran
           ELSE /\ task' = [task EXCEPT ![Worker].pc = "finish", ![Worker].cmd = c]
                /\ ran' = Append(ran, c)
                /\ UNCHANGED lockVars
      /\ tracked' = IF c \in slots THEN tracked ELSE tracked \ {c}
      /\ UNCHANGED <<gitVars, conn, nextSeq, seqOf, queue, due, clock, entries, daemon, mark>>

\* Without them it is an error, and the command is forgotten.
TakeEndFails(p) ==
  /\ Takes(p) /\ p.ev # "start" /\ norm[p.cmd] = "pending" /\ ~Finalizes(p)
  /\ norm' = [norm EXCEPT ![p.cmd] = "failed"]
  /\ Done
  /\ UNCHANGED <<gitVars, inVars, queue, clock, slots, entries, daemon, ran, mark>>

\* Broken variant: only what the normalizer emits gives a slot back.
TakeLateEndIdly(p) ==
  /\ Takes(p) /\ p.ev # "start" /\ norm[p.cmd] # "pending"
  /\ Done
  /\ UNCHANGED <<gitVars, inVars, queue, norm, clock, slots, entries, daemon, ran, mark>>

\* A later end of a completed command is ignored; one of a forgotten command is
\* deferred.  Either cancels a slot that is left.
TakeLateEnd(p) ==
  LET c == p.cmd
  IN  /\ Takes(p) /\ p.ev # "start" /\ norm[c] # "pending"
      /\ slots' = slots \ {c}
      /\ IF c \in slots THEN Clone(Worker, c, "canceled") /\ UNCHANGED due ELSE Done
      /\ UNCHANGED <<gitVars, inVars, queue, norm, clock, entries, daemon, ran, mark>>

\* The drain, or the effect of a command without slot, is over; a root that had a
\* slot is not tracked any more.
Finish ==
  /\ Alive /\ At(Worker, "finish")
  /\ tracked' = tracked \ {task[Worker].cmd}
  /\ Done
  /\ UNCHANGED <<gitVars, conn, nextSeq, seqOf, queue, buffer, norm, clock, slots, entries,
                 daemon, ran, mark>>

(***************************************************************************)
(* Checkpoint requests                                                      *)
(***************************************************************************)
\* ingest_checkpoint_payload: the watermark is what has been read so far.
Request(h) ==
  /\ h \in budget.checkpoints /\ Alive /\ At(h, "off")
  /\ task' = [task EXCEPT ![h].pc = "wait"]
  /\ mark' = [mark EXCEPT ![h] = nextSeq]
  /\ UNCHANGED <<gitVars, inVars, ingestVars, lockVars, clock, slots, entries, daemon, ran>>

\* Broken variant: a request does not wait for the queue.
PassedAtOnce(h) ==
  /\ Alive /\ At(h, "wait")
  /\ Clone(h, Worker, "none")
  /\ UNCHANGED <<gitVars, inVars, ingestVars, clock, slots, entries, daemon, ran, mark>>

Passed(h) ==
  /\ Alive /\ At(h, "wait") /\ due > mark[h]
  /\ Clone(h, Worker, "none")
  /\ UNCHANGED <<gitVars, inVars, ingestVars, clock, slots, entries, daemon, ran, mark>>
\* After five seconds the request fails.
TimesOut(h) ==
  /\ Alive /\ At(h, "wait") /\ due <= mark[h]
  /\ task' = [task EXCEPT ![h].pc = "failed"]
  /\ UNCHANGED <<gitVars, inVars, ingestVars, lockVars, clock, slots, entries, daemon, ran, mark>>

RanItems == {ran[i] : i \in DOMAIN ran}
Runs(a, i) == At(a, "run") /\ First(task[a].todo).item = i
Respond(h) ==
  /\ Alive /\ At(h, "respond") /\ h \in RanItems /\ \A a \in Actors : ~Runs(a, h)
  /\ task' = [task EXCEPT ![h].pc = "done"]
  /\ UNCHANGED <<gitVars, inVars, ingestVars, lockVars, clock, slots, entries, daemon, ran, mark>>

(***************************************************************************)
(* Shutdown: the channel is closed; nobody waits for what runs              *)
(***************************************************************************)
Shutdown ==
  /\ budget.stop /\ daemon = "up" /\ daemon' = "stopping"
  /\ UNCHANGED <<gitVars, inVars, ingestVars, lockVars, clock, slots, entries, task, ran, mark>>
ProcessExit ==
  /\ daemon = "stopping" /\ daemon' = "gone"
  /\ UNCHANGED <<gitVars, inVars, ingestVars, lockVars, clock, slots, entries, task, ran, mark>>

Init ==
  /\ budget \in Budgets
  /\ clock = 0 /\ tracked = {} /\ nextSeq = 0 /\ queue = <<>> /\ buffer = {} /\ due = 1
  /\ git = [c \in Commands |-> [phase |-> "new", at |-> 0, killed |-> FALSE]]
  /\ wire = [c \in Commands |-> <<>>]
  /\ conn = [c \in Commands |-> [open |-> FALSE, load |-> NoPayload]]
  /\ norm = [c \in Commands |-> "none"]
  /\ slots = {} /\ entries = {} /\ lock = [id |-> 0, made |-> 0] /\ gcLeft = budget.gc
  /\ task = [a \in Actors |-> Off]
  /\ daemon = "up"
  /\ ran = <<>> /\ misgc = FALSE
  /\ seqOf = [c \in Commands |-> [start |-> 0, end |-> 0]]
  /\ mark = [h \in Checkpoints |-> 0]

ConnStep(c) == Read(c) \/ Enqueue(c) \/ Close(c)
ActorStep(a) == Locked(a) \/ Pop(a) \/ RunEnds(a)
WorkerStep ==
  \/ Receive \/ Finish
  \/ \E p \in buffer : TakeStart(p) \/ TakeEnd(p) \/ TakeEndFails(p) \/ TakeLateEnd(p)
RequestStep(h) == Passed(h) \/ TimesOut(h) \/ Respond(h)

Next ==
  \/ \E c \in Commands : Start(c) \/ Exit(c) \/ Kill(c) \/ ConnStep(c)
  \/ \E a \in Actors : ActorStep(a)
  \/ WorkerStep
  \/ \E h \in Checkpoints : Request(h) \/ RequestStep(h)
  \/ Sweep \/ Shutdown \/ ProcessExit

\* Threads and tasks are scheduled, and a git command that was started ends.  A
\* run is finite, so that one fairness condition is as good as one for each.
Scheduled ==
  \/ \E c \in Commands : Exit(c) \/ ConnStep(c)
  \/ \E a \in Actors : ActorStep(a)
  \/ WorkerStep
  \/ \E h \in Checkpoints : RequestStep(h)

Spec == Init /\ [][Next]_vars /\ WF_vars(Scheduled)

(***************************************************************************)
(* Properties                                                               *)
(***************************************************************************)
\* Every variable holds what it can hold, and sequence numbers are used once.
InQueue == buffer \cup {queue[i] : i \in DOMAIN queue}
TypeOK ==
  /\ clock <= Cardinality(Commands) + Cardinality(Checkpoints)
  /\ tracked \subseteq Commands /\ slots \subseteq Slotted
  /\ \A e \in entries : /\ e.item \in Slotted \cup Checkpoints /\ e.at \in 1..clock
                        /\ e.is \in {"pending", "ready", "canceled"}
  /\ \A p, q \in InQueue : /\ p.seq = q.seq => p = q
                           /\ p.seq \in due..nextSeq
  /\ Len(queue) <= Capacity /\ Cardinality(buffer) <= Capacity
  /\ lock.id \in 0..lock.made
  /\ \A a \in Actors : task[a].pc \in
       {"off", "wait", "lock", "pop", "run", "finish", "respond", "done", "failed", "dead"}

\* The lock is there so that a family has one sequenced effect at a time: two
\* actors never run entries together.
OneAtATime == \A a, b \in Actors : At(a, "run") /\ At(b, "run") => a = b
\* That holds unless the collection dropped a lock that was in use.
OneAtATimeUnlessCollected == misgc \/ OneAtATime

Before(x, y) == \E i, j \in DOMAIN ran : i < j /\ ran[i] = x /\ ran[j] = y
Dropped(c) == norm[c] = "failed"

\* The watermark of ingest_checkpoint_payload: a checkpoint is run after the
\* effects of all commands whose end the daemon had read when it was requested,
\* and of those with a slot that had only started by then.
CheckpointAfterEarlier ==
  \A h \in Checkpoints \cap RanItems : \A c \in Commands :
    LET read == IF c \in Slotted THEN seqOf[c].start ELSE seqOf[c].end
    IN  ~misgc /\ read \in 1..mark[h] => Before(c, h) \/ Dropped(c)

\* The slots: effects come in the order the commands started, not ended, if the
\* start of the one was read before the end of the other.
CommandsInStartOrder ==
  \A c, d \in Slotted :
    ~misgc /\ d \in RanItems /\ git[c].at < git[d].at /\ seqOf[c].start \in 1..seqOf[d].end
      => Before(c, d) \/ Dropped(c)

\* Nothing is run twice, whatever is sent twice (exit, atexit, a made-up atexit),
\* and whoever drains at the same time.
RunsOnce == \A i, j \in DOMAIN ran : ran[i] = ran[j] => i = j

\* A slot that blocks the family is one of a command that runs, or whose end is on
\* its way to the worker: in the socket, to be made up when the connection closes,
\* queued, or being applied.  Only a mutating command that was killed keeps its slot.
EndComes(c) ==
  \/ git[c].phase = "live" \/ wire[c] # <<>> \/ (c \in tracked /\ conn[c].open)
  \/ \E p \in InQueue \cup {conn[c].load} : p.cmd = c /\ p.ev # "start"
  \/ task[Worker].cmd = c
KilledMutating(c) == c \in Mutating /\ git[c].killed
NoOrphanSlot ==
  daemon = "up" => \A c \in Slotted : Slot(c) \in entries => EndComes(c) \/ KilledMutating(c)

\* In the end every request is answered and every command that ended by itself
\* has had its effect, or the daemon could not read its reflogs; unless a killed
\* command blocks the family, or the daemon stops.
Stuck == daemon # "up" \/ \E c \in Slotted : KilledMutating(c) /\ Slot(c) \in entries
AllServed ==
  <>[]\/ Stuck
      \/ /\ \A h \in Checkpoints : task[h].pc \in {"off", "done", "failed"}
         /\ \A c \in Commands :
              git[c].phase = "gone" /\ ~git[c].killed => c \in RanItems \/ Dropped(c)
=============================================================================
