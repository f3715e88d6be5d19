----------------------- MODULE DaemonSequencer_proofs -----------------------
(***************************************************************************)
(* Proofs about the daemon's sequencer, for any finite sets of commands and *)
(* requests and any capacity.  The inductive invariant is built in layers,  *)
(* each of which uses the ones before it:                                   *)
(*   TypeInv   the shape of the variables                                   *)
(*   LockInv   who holds the family's lock                                  *)
(*   Dialogue  what git wrote, and what of it was read under which number   *)
(*   Distinct, Numbered  payloads on their way, and the numbers they carry  *)
(*   Known     what the normalizer knows follows from the numbers taken     *)
(*   PlaceInv  an effect is in one entry, with one actor, or was begun      *)
(*   Complete  nothing on its way is lost while the daemon is up            *)
(*   Times, Ordered  entries are in time order, and effects are as well     *)
(*   Listening  the connection of a command without an end is open          *)
(***************************************************************************)
EXTENDS DaemonSequencer, FiniteSetTheorems, SequenceTheorems, TLAPS

(***************************************************************************)
(* The shape of the variables                                               *)
(***************************************************************************)
\* The values that the variables can have.
Pcs == {"off", "wait", "lock", "pop", "run", "finish", "respond", "done", "failed", "dead"}
Events == {"start", "exit", "atexit"}
Payloads == [cmd : Commands, ev : Events, seq : Nat \ {0}, ends : BOOLEAN]
Entries == [at : Nat, item : Slotted \cup Checkpoints, is : {"pending", "ready", "canceled"}]
Gits == [phase : {"new", "live", "gone"}, at : Nat, killed : BOOLEAN]
Conns == [open : BOOLEAN, load : Payloads \cup {NoPayload}]
Seqs == [start : Nat, end : Nat]
Tasks == [pc : Pcs, lock : Nat, put : {"none", "ready", "canceled"},
          cmd : Commands \cup {Worker}, todo : SUBSET Entries]

\* Every variable has the shape of what it models; the worker waits for the lock only with
\* a command's slot.
TypeInv ==
  /\ clock \in Nat /\ nextSeq \in Nat /\ due \in Nat \ {0}
  /\ git \in [Commands -> Gits]
  /\ wire \in [Commands -> Seq(Events)]
  /\ conn \in [Commands -> Conns]
  /\ tracked \in SUBSET Commands
  /\ queue \in Seq(Payloads) /\ buffer \in SUBSET Payloads
  /\ norm \in [Commands -> {"none", "pending", "completed", "failed"}]
  /\ slots \in SUBSET Slotted /\ entries \in SUBSET Entries
  /\ lock \in [id : Nat, made : Nat]
  /\ task \in [Actors -> Tasks]
  /\ At(Worker, "lock") => task[Worker].cmd \in Slotted /\ task[Worker].put # "none"
  /\ ran \in Seq(Commands \cup Checkpoints)
  /\ seqOf \in [Commands -> Seqs]
  /\ mark \in [Checkpoints -> Nat]

\* A set of numbers has a least one (by the well-founded order of the library).
LEMMA LeastNatural ==
  ASSUME NEW S \in SUBSET Nat, S # {}
  PROVE  \E n \in S : \A m \in S : n <= m
<1> DEFINE T == {1..n : n \in S}
<1>1. T \subseteq FiniteSubsetsOf(Nat) /\ T # {}
  <2>1. \A n \in S : IsFiniteSet(1..n) /\ 1..n \in SUBSET Nat
    BY FS_Interval
  <2> QED BY <2>1 DEF FiniteSubsetsOf
<1>2. PICK x \in T : \A y \in T : <<y, x>> \notin StrictSubsetOrdering(Nat)
  <2> HIDE DEF T
  <2> QED BY <1>1, FS_StrictSubsetOrderingWellFounded, WFMin
<1>3. PICK n \in S : x = 1..n
  OBVIOUS
<1>4. ASSUME NEW m \in S, m < n PROVE FALSE
  <2>1. 1..m \in T /\ 1..m \subseteq 1..n /\ n \in 1..n /\ n \notin 1..m
    BY <1>4
  <2>2. <<1..m, x>> \in StrictSubsetOrdering(Nat)
    BY <2>1, <1>3 DEF StrictSubsetOrdering
  <2> QED BY <2>1, <2>2, <1>2
<1>5. QED
  BY <1>4

\* First gives the entry that execute_ready_family_sequencer_entries runs next.
LEMMA FirstIsLeast ==
  ASSUME NEW T \in SUBSET Entries, T # {}
  PROVE  First(T) \in T /\ \A e \in T : First(T).at <= e.at
<1>1. {e.at : e \in T} \in SUBSET Nat /\ {e.at : e \in T} # {}
  BY DEF Entries
<1>2. PICK n \in {e.at : e \in T} : \A m \in {e.at : e \in T} : n <= m
  BY <1>1, LeastNatural
<1>3. \E e \in T : \A o \in T : e.at <= o.at
  BY <1>2
<1>4. QED
  BY <1>3 DEF First

USE DaemonSequencerAssumption

\* The worker is no request.
LEMMA ActorKinds == Worker \in Actors /\ Worker \notin Checkpoints /\ Checkpoints \subseteq Actors
  BY DEF Actors

\* The initial state is of the shape above.
LEMMA InitTyped == Init => TypeInv
<1> SUFFICES ASSUME Init PROVE TypeInv
  OBVIOUS
<1>1. Off \in Tasks
  BY DEF Off, Tasks, Pcs
<1>2. task \in [Actors -> Tasks] /\ ~At(Worker, "lock")
  BY <1>1, ActorKinds DEF Init, At, Off
<1>3. QED
  BY <1>2 DEF Init, TypeInv, Gits, Conns, Seqs

\* What the actions write, as whole records.

\* git starts and connects.
LEMMA StartWrites ==
  ASSUME TypeInv, NEW c \in Commands, Start(c)
  PROVE  /\ git' \in [Commands -> Gits] /\ conn' \in [Commands -> Conns]
         /\ git'[c].phase = "live" /\ git'[c].at = clock + 1 /\ git'[c].killed = git[c].killed
         /\ conn'[c].open = TRUE /\ conn'[c].load = conn[c].load
         /\ wire'[c] = <<"start">>
         /\ \A d \in Commands \ {c} : git'[d] = git[d] /\ conn'[d] = conn[d] /\ wire'[d] = wire[d]
<1>1. git' = [git EXCEPT ![c] = [git[c] EXCEPT !.phase = "live", !.at = clock + 1]]
  BY DEF Start
<1>2. conn' = [conn EXCEPT ![c] = [conn[c] EXCEPT !.open = TRUE]]
  BY DEF Start
<1>3. git \in [Commands -> Gits] /\ conn \in [Commands -> Conns] /\ clock + 1 \in Nat
  BY DEF TypeInv
<1>4. [git[c] EXCEPT !.phase = "live", !.at = clock + 1] \in Gits
  BY <1>3 DEF Gits
<1>5. [conn[c] EXCEPT !.open = TRUE] \in Conns
  BY <1>3 DEF Conns
<1>6. git' \in [Commands -> Gits] /\ conn' \in [Commands -> Conns]
  BY <1>1, <1>2, <1>3, <1>4, <1>5
<1>7. wire' = [wire EXCEPT ![c] = <<"start">>] /\ wire \in [Commands -> Seq(Events)]
  BY DEF Start, TypeInv
<1>8. /\ git'[c].phase = "live" /\ git'[c].at = clock + 1 /\ git'[c].killed = git[c].killed
      /\ \A d \in Commands \ {c} : git'[d] = git[d]
  BY <1>1, <1>3 DEF Gits
<1>9. /\ conn'[c].open = TRUE /\ conn'[c].load = conn[c].load
      /\ \A d \in Commands \ {c} : conn'[d] = conn[d]
  BY <1>2, <1>3 DEF Conns
<1>10. wire'[c] = <<"start">> /\ \A d \in Commands \ {c} : wire'[d] = wire[d]
  BY <1>7
<1> QED BY <1>6, <1>8, <1>9, <1>10

\* git goes, and its last events are written.
LEMMA LeaveWrites ==
  ASSUME TypeInv, NEW c \in Commands, NEW events \in Seq(Events), NEW k \in BOOLEAN,
         Leave(c, events, k)
  PROVE  /\ git' \in [Commands -> Gits] /\ wire' \in [Commands -> Seq(Events)]
         /\ git'[c].phase = "gone" /\ git'[c].at = git[c].at /\ git'[c].killed = k
         /\ wire'[c] = wire[c] \o events
         /\ \A d \in Commands \ {c} : git'[d] = git[d] /\ wire'[d] = wire[d]
<1>1. git' = [git EXCEPT ![c] = [git[c] EXCEPT !.phase = "gone", !.killed = k]]
  BY DEF Leave
<1>2. git \in [Commands -> Gits] /\ wire \in [Commands -> Seq(Events)]
  BY DEF TypeInv
<1>3. [git[c] EXCEPT !.phase = "gone", !.killed = k] \in Gits
  BY <1>2 DEF Gits
<1>4. wire' = [wire EXCEPT ![c] = wire[c] \o events] /\ wire[c] \o events \in Seq(Events)
  BY <1>2, ConcatProperties DEF Leave
<1>5. /\ git'[c].phase = "gone" /\ git'[c].at = git[c].at /\ git'[c].killed = k
      /\ \A d \in Commands \ {c} : git'[d] = git[d]
  BY <1>1, <1>2 DEF Gits
<1>6. wire'[c] = wire[c] \o events /\ \A d \in Commands \ {c} : wire'[d] = wire[d]
  BY <1>2, <1>4
<1> QED BY <1>1, <1>2, <1>3, <1>4, <1>5, <1>6

\* A connection reads the next event and gives it a number.
LEMMA ReadWrites ==
  ASSUME TypeInv, NEW c \in Commands, Read(c)
  PROVE  /\ conn' \in [Commands -> Conns] /\ wire' \in [Commands -> Seq(Events)]
         /\ seqOf' \in [Commands -> Seqs] /\ tracked' \in SUBSET Commands
         /\ nextSeq' = nextSeq + 1
         /\ Head(wire[c]) \in Events /\ wire'[c] = Tail(wire[c])
         /\ conn'[c].open = conn[c].open /\ conn'[c].load \in Payloads
         /\ conn'[c].load.cmd = c /\ conn'[c].load.ev = Head(wire[c])
         /\ conn'[c].load.seq = nextSeq + 1
         /\ seqOf'[c].start = IF Head(wire[c]) = "start" THEN nextSeq + 1 ELSE seqOf[c].start
         /\ seqOf'[c].end = IF Head(wire[c]) = "exit" THEN nextSeq + 1 ELSE seqOf[c].end
         /\ \A d \in Commands \ {c} : conn'[d] = conn[d] /\ wire'[d] = wire[d] /\ seqOf'[d] = seqOf[d]
<1> DEFINE ev == Head(wire[c])
<1>1. ev \in Events /\ Tail(wire[c]) \in Seq(Events)
  BY HeadTailProperties DEF Read, TypeInv
<1>2. PICK ends \in BOOLEAN : conn' = [conn EXCEPT ![c] = [conn[c] EXCEPT !.load =
                      [cmd |-> c, ev |-> ev, seq |-> nextSeq + 1, ends |-> ends]]]
  BY DEF Read
<1> DEFINE load == [cmd |-> c, ev |-> ev, seq |-> nextSeq + 1, ends |-> ends]
<1>3. load \in Payloads /\ load.cmd = c /\ load.ev = ev /\ load.seq = nextSeq + 1
  BY <1>1 DEF Payloads, TypeInv
<1>4. conn \in [Commands -> Conns] /\ wire \in [Commands -> Seq(Events)]
      /\ seqOf \in [Commands -> Seqs] /\ nextSeq \in Nat
  BY DEF TypeInv
<1>5. /\ conn' \in [Commands -> Conns] /\ conn'[c].open = conn[c].open /\ conn'[c].load = load
      /\ \A d \in Commands \ {c} : conn'[d] = conn[d]
  <2> HIDE DEF load
  <2>1. conn' = [conn EXCEPT ![c] = [conn[c] EXCEPT !.load = load]]
    BY <1>2 DEF load
  <2>2. [conn[c] EXCEPT !.load = load] \in Conns
    BY <1>3, <1>4 DEF Conns
  <2> QED BY <2>1, <2>2, <1>4 DEF Conns
<1>6. wire' \in [Commands -> Seq(Events)] /\ wire'[c] = Tail(wire[c])
      /\ \A d \in Commands \ {c} : wire'[d] = wire[d]
  BY <1>1, <1>4 DEF Read
<1>7. /\ seqOf' \in [Commands -> Seqs]
      /\ seqOf'[c].start = IF ev = "start" THEN nextSeq + 1 ELSE seqOf[c].start
      /\ seqOf'[c].end = IF ev = "exit" THEN nextSeq + 1 ELSE seqOf[c].end
      /\ \A d \in Commands \ {c} : seqOf'[d] = seqOf[d]
  <2>0. seqOf' = CASE ev = "start" -> [seqOf EXCEPT ![c] = [seqOf[c] EXCEPT !.start = nextSeq + 1]]
                   [] ev = "exit"  -> [seqOf EXCEPT ![c] = [seqOf[c] EXCEPT !.end = nextSeq + 1]]
                   [] OTHER -> seqOf
    BY DEF Read
  <2>1. CASE ev = "start"
    <3>1. seqOf' = [seqOf EXCEPT ![c] = [seqOf[c] EXCEPT !.start = nextSeq + 1]]
      BY <2>0, <2>1
    <3> QED BY <3>1, <2>1, <1>4 DEF Seqs
  <2>2. CASE ev = "exit"
    <3>1. seqOf' = [seqOf EXCEPT ![c] = [seqOf[c] EXCEPT !.end = nextSeq + 1]]
      BY <2>0, <2>2
    <3> QED BY <3>1, <2>2, <1>4 DEF Seqs
  <2>3. CASE ev \notin {"start", "exit"}
    BY <2>0, <2>3, <1>4
  <2> QED BY <2>1, <2>2, <2>3
<1>8. tracked' \in SUBSET Commands /\ nextSeq' = nextSeq + 1
  BY DEF Read, TypeInv
<1> QED BY <1>1, <1>3, <1>5, <1>6, <1>7, <1>8

\* The payload goes to the channel, or the connection is given up.
LEMMA EnqueueWrites ==
  ASSUME TypeInv, NEW c \in Commands, Enqueue(c)
  PROVE  /\ conn' \in [Commands -> Conns] /\ queue' \in Seq(Payloads)
         /\ conn[c].load \in Payloads /\ conn'[c].load = NoPayload
         /\ \/ daemon = "up" /\ queue' = Append(queue, conn[c].load) /\ conn'[c].open = conn[c].open
            \/ daemon # "up" /\ queue' = queue /\ conn'[c].open = FALSE
         /\ \A d \in Commands \ {c} : conn'[d] = conn[d]
<1>1. conn \in [Commands -> Conns] /\ queue \in Seq(Payloads) /\ conn[c].load # NoPayload
  BY DEF TypeInv, Enqueue
<1>2. conn[c].load \in Payloads
  BY <1>1 DEF Conns
<1>3. Append(queue, conn[c].load) \in Seq(Payloads)
  BY <1>1, <1>2, AppendProperties
<1>4. CASE daemon = "up"
  <2>1. conn' = [conn EXCEPT ![c] = [conn[c] EXCEPT !.load = NoPayload]]
    BY <1>4 DEF Enqueue
  <2>2. [conn[c] EXCEPT !.load = NoPayload] \in Conns
    BY <1>1 DEF Conns
  <2>3. queue' = Append(queue, conn[c].load)
    BY <1>4 DEF Enqueue
  <2>4. /\ conn'[c].load = NoPayload /\ conn'[c].open = conn[c].open
        /\ \A d \in Commands \ {c} : conn'[d] = conn[d]
    BY <2>1, <1>1 DEF Conns
  <2> QED BY <1>1, <1>2, <1>3, <1>4, <2>1, <2>2, <2>3, <2>4
<1>5. CASE daemon # "up"
  <2>1. conn' = [conn EXCEPT ![c] = [open |-> FALSE, load |-> NoPayload]] /\ queue' = queue
    BY <1>5 DEF Enqueue
  <2> QED BY <2>1, <1>1, <1>2, <1>5 DEF Conns
<1> QED BY <1>4, <1>5

\* A connection ends; for a tracked root an atexit is made up.
LEMMA CloseWrites ==
  ASSUME TypeInv, NEW c \in Commands, Close(c)
  PROVE  /\ conn' \in [Commands -> Conns] /\ seqOf' \in [Commands -> Seqs]
         /\ conn'[c].open = FALSE /\ seqOf'[c].start = seqOf[c].start
         /\ IF c \in tracked
              THEN /\ nextSeq' = nextSeq + 1 /\ seqOf'[c].end = nextSeq + 1
                   /\ conn'[c].load \in Payloads /\ conn'[c].load.cmd = c
                   /\ conn'[c].load.ev = "atexit" /\ conn'[c].load.seq = nextSeq + 1
              ELSE nextSeq' = nextSeq /\ seqOf' = seqOf /\ conn'[c].load = conn[c].load
         /\ \A d \in Commands \ {c} : conn'[d] = conn[d] /\ seqOf'[d] = seqOf[d]
<1>1. conn \in [Commands -> Conns] /\ seqOf \in [Commands -> Seqs] /\ nextSeq \in Nat
  BY DEF TypeInv
<1>2. CASE c \in tracked
  <2> DEFINE load == [cmd |-> c, ev |-> "atexit", seq |-> nextSeq + 1, ends |-> FALSE]
  <2>1. load \in Payloads /\ load.cmd = c /\ load.ev = "atexit" /\ load.seq = nextSeq + 1
    BY <1>1 DEF Payloads, Events
  <2>2. conn' = [conn EXCEPT ![c] = [open |-> FALSE, load |-> load]]
    BY <1>2 DEF Close
  <2>3. seqOf' = [seqOf EXCEPT ![c] = [seqOf[c] EXCEPT !.end = nextSeq + 1]] /\ nextSeq' = nextSeq + 1
    BY <1>2 DEF Close
  <2> HIDE DEF load
  <2>4. /\ conn' \in [Commands -> Conns] /\ conn'[c].open = FALSE /\ conn'[c].load = load
        /\ \A d \in Commands \ {c} : conn'[d] = conn[d]
    BY <2>1, <2>2, <1>1 DEF Conns
  <2>5. /\ seqOf' \in [Commands -> Seqs] /\ seqOf'[c].start = seqOf[c].start
        /\ seqOf'[c].end = nextSeq + 1 /\ \A d \in Commands \ {c} : seqOf'[d] = seqOf[d]
    BY <2>3, <1>1 DEF Seqs
  <2> QED BY <1>2, <2>1, <2>3, <2>4, <2>5
<1>3. CASE c \notin tracked
  <2>1. conn' = [conn EXCEPT ![c] = [conn[c] EXCEPT !.open = FALSE]]
    BY <1>3 DEF Close
  <2>2. /\ conn' \in [Commands -> Conns] /\ conn'[c].open = FALSE /\ conn'[c].load = conn[c].load
        /\ \A d \in Commands \ {c} : conn'[d] = conn[d]
    BY <2>1, <1>1 DEF Conns
  <2>3. nextSeq' = nextSeq /\ seqOf' = seqOf
    BY <1>3 DEF Close
  <2> QED BY <1>1, <1>3, <2>2, <2>3
<1> QED BY <1>2, <1>3

\* How one actor's task changes.
LEMMA PcWrites ==
  ASSUME TypeInv, NEW a \in Actors, NEW pc \in Pcs, task' = [task EXCEPT ![a].pc = pc]
  PROVE  /\ task' \in [Actors -> Tasks]
         /\ task'[a].pc = pc /\ task'[a].lock = task[a].lock /\ task'[a].put = task[a].put
         /\ task'[a].cmd = task[a].cmd /\ task'[a].todo = task[a].todo
         /\ \A b \in Actors \ {a} : task'[b] = task[b]
<1>1. task \in [Actors -> Tasks]
  BY DEF TypeInv
<1>2. task' = [task EXCEPT ![a] = [task[a] EXCEPT !.pc = pc]]
  OBVIOUS
<1>3. [task[a] EXCEPT !.pc = pc] \in Tasks
  BY <1>1 DEF Tasks
<1> QED BY <1>1, <1>2, <1>3 DEF Tasks

\* An actor gets a clone of the family's lock.
LEMMA CloneWrites ==
  ASSUME TypeInv, NEW a \in Actors, NEW cmd \in Commands \cup {Worker},
         NEW put \in {"none", "ready", "canceled"}, Clone(a, cmd, put)
  PROVE  /\ task' \in [Actors -> Tasks] /\ lock' \in [id : Nat, made : Nat]
         /\ task'[a].pc = "lock" /\ task'[a].lock = lock'.id /\ task'[a].put = put
         /\ task'[a].cmd = cmd /\ task'[a].todo = {}
         /\ lock'.id # 0 /\ (lock.id # 0 => lock'.id = lock.id)
         /\ misgc' = misgc
         /\ \A b \in Actors \ {a} : task'[b] = task[b]
<1> DEFINE id == IF lock.id = 0 THEN lock.made + 1 ELSE lock.id
           t == [Off EXCEPT !.pc = "lock", !.lock = id, !.cmd = cmd, !.put = put]
<1>1. task \in [Actors -> Tasks] /\ lock \in [id : Nat, made : Nat]
  BY DEF TypeInv
<1>2. id \in Nat /\ id # 0 /\ lock' \in [id : Nat, made : Nat] /\ lock'.id = id
  BY <1>1 DEF Clone
<1>3. t \in Tasks /\ t.pc = "lock" /\ t.lock = id /\ t.put = put /\ t.cmd = cmd /\ t.todo = {}
  BY <1>2 DEF Off, Tasks, Pcs
<1>4. task' = [task EXCEPT ![a] = t] /\ misgc' = misgc
  BY DEF Clone
<1>5. lock.id # 0 => id = lock.id
  OBVIOUS
<1> HIDE DEF t, id
<1> QED BY <1>1, <1>2, <1>3, <1>4, <1>5

\* The worker is done with its payload.
LEMMA DoneWrites ==
  ASSUME TypeInv, Done
  PROVE  /\ task' \in [Actors -> Tasks] /\ lock' \in [id : Nat, made : Nat]
         /\ due' = due + 1 /\ task'[Worker].pc = "off" /\ task'[Worker].todo = {}
         /\ \A b \in Actors \ {Worker} : task'[b] = task[b]
<1>1. task \in [Actors -> Tasks] /\ lock \in [id : Nat, made : Nat] /\ Worker \in Actors
  BY ActorKinds DEF TypeInv
<1>2. Off \in Tasks /\ Off.pc = "off" /\ Off.todo = {}
  BY DEF Off, Tasks, Pcs
<1>3. task' = [task EXCEPT ![Worker] = Off] /\ due' = due + 1
  BY DEF Done
<1>4. lock' \in [id : Nat, made : Nat]
  <2>1. CASE UNCHANGED lockVars
    BY <1>1, <2>1 DEF lockVars
  <2>2. CASE Collect
    BY <1>1, <2>2 DEF Collect
  <2> QED BY <2>1, <2>2 DEF Done
<1> QED BY <1>1, <1>2, <1>3, <1>4

\* The next effect begins, or the actor is done.
LEMMA BeginWrites ==
  ASSUME TypeInv, NEW a \in Actors, NEW todo \in SUBSET Entries, Begin(a, todo)
  PROVE  /\ task' \in [Actors -> Tasks] /\ ran' \in Seq(Commands \cup Checkpoints)
         /\ task'[a].todo = todo
         /\ \/ /\ todo # {} /\ task'[a].pc = "run" /\ ran' = Append(ran, First(todo).item)
               /\ task'[a].lock = task[a].lock
               /\ First(todo) \in todo /\ \A e \in todo : First(todo).at <= e.at
            \/ /\ todo = {} /\ ran' = ran
               /\ task'[a].pc \in IF a = Worker THEN {"finish"} ELSE {"respond", "done"}
         /\ task'[a].cmd = task[a].cmd
         /\ \A b \in Actors \ {a} : task'[b] = task[b]
<1>0. task \in [Actors -> Tasks] /\ task[a] \in Tasks /\ ran \in Seq(Commands \cup Checkpoints)
  BY DEF TypeInv
<1>1. CASE todo # {}
  <2>1. First(todo) \in todo /\ \A e \in todo : First(todo).at <= e.at
    BY <1>1, FirstIsLeast
  <2>2. First(todo).item \in Commands \cup Checkpoints
    BY <2>1 DEF Entries
  <2>3. ran' = Append(ran, First(todo).item)
    BY <1>1 DEF Begin
  <2>4. ran' \in Seq(Commands \cup Checkpoints)
    BY <1>0, <2>2, <2>3, AppendProperties
  <2>5. task' = [task EXCEPT ![a] = [task[a] EXCEPT !.pc = "run", !.todo = todo]]
    BY <1>1 DEF Begin
  <2>6. [task[a] EXCEPT !.pc = "run", !.todo = todo] \in Tasks
    BY <1>0 DEF Tasks, Pcs
  <2>7. /\ task' \in [Actors -> Tasks] /\ task'[a].pc = "run" /\ task'[a].todo = todo
        /\ task'[a].cmd = task[a].cmd /\ task'[a].lock = task[a].lock
        /\ \A b \in Actors \ {a} : task'[b] = task[b]
    BY <1>0, <2>5, <2>6 DEF Tasks
  <2> QED BY <1>1, <2>1, <2>3, <2>4, <2>7
<1>2. CASE todo = {}
  <2>1. PICK pc \in IF a = Worker THEN {"finish"} ELSE {"respond", "done"} :
          task' = [task EXCEPT ![a] = [Off EXCEPT !.pc = pc, !.cmd = task[a].cmd]]
    BY <1>2 DEF Begin
  <2> DEFINE t == [Off EXCEPT !.pc = pc, !.cmd = task[a].cmd]
  <2>2. t \in Tasks /\ t.pc = pc /\ t.cmd = task[a].cmd /\ t.todo = {}
    BY <1>0 DEF Tasks, Off, Pcs
  <2>4. ran' = ran
    BY <1>2 DEF Begin
  <2> HIDE DEF t
  <2>5. task' = [task EXCEPT ![a] = t]
    BY <2>1 DEF t
  <2>6. /\ task' \in [Actors -> Tasks] /\ task'[a].pc = pc /\ task'[a].todo = {}
        /\ task'[a].cmd = task[a].cmd
        /\ \A b \in Actors \ {a} : task'[b] = task[b]
    BY <1>0, <2>5, <2>2
  <2> QED BY <1>0, <1>2, <2>4, <2>6
<1> QED BY <1>1, <1>2

\* Steps of git and of its connections keep the shape.
LEMMA GitTyped ==
  ASSUME TypeInv, NEW c \in Commands, Start(c) \/ Exit(c) \/ Kill(c) \/ ConnStep(c)
  PROVE  TypeInv'
<1>1. CASE Start(c)
  <2>1. wire' \in [Commands -> Seq(Events)]
    <3>1. <<"start">> \in Seq(Events)
      BY DEF Events
    <3> QED BY <3>1, <1>1 DEF Start, TypeInv
  <2>2. UNCHANGED <<tracked, nextSeq, seqOf, queue, buffer, due, norm, lock, slots, entries, task, ran, mark>>
        /\ clock' = clock + 1
    BY <1>1 DEF Start, ingestVars, lockVars
  <2>3. clock' \in Nat /\ git' \in [Commands -> Gits] /\ conn' \in [Commands -> Conns]
    <3>1. clock' \in Nat
      BY <2>2 DEF TypeInv
    <3> QED BY <3>1, <1>1, StartWrites
  <2> QED BY <2>1, <2>2, <2>3 DEF TypeInv, At
<1>2. ASSUME NEW events \in {<<>>, <<"exit">>, <<"exit", "atexit">>}, NEW k \in BOOLEAN,
             Leave(c, events, k)
      PROVE  TypeInv'
  <2>1. events \in Seq(Events)
    <3>1. <<>> \in Seq(Events) /\ <<"exit">> \in Seq(Events) /\ <<"exit", "atexit">> \in Seq(Events)
      BY DEF Events
    <3> QED BY <3>1
  <2>2. UNCHANGED <<conn, tracked, nextSeq, seqOf, queue, buffer, due, norm, lock, clock, slots, entries,
                    task, ran, mark>>
    BY <1>2 DEF Leave, inVars, ingestVars, lockVars
  <2> QED BY <1>2, <2>1, <2>2, LeaveWrites DEF TypeInv, At
<1>3. CASE Read(c)
  <2>1. UNCHANGED <<git, queue, buffer, due, norm, lock, clock, slots, entries, task, ran, mark>>
    BY <1>3 DEF Read, ingestVars, lockVars
  <2> QED BY <1>3, <2>1, ReadWrites DEF TypeInv, At
<1>4. CASE Enqueue(c)
  <2>1. UNCHANGED <<git, wire, tracked, nextSeq, seqOf, buffer, due, norm, lock, clock, slots, entries,
                    task, ran, mark>>
    BY <1>4 DEF Enqueue, gitVars, lockVars
  <2> QED BY <1>4, <2>1, EnqueueWrites DEF TypeInv, At
<1>5. CASE Close(c)
  <2>1. UNCHANGED <<git, wire, tracked, queue, buffer, due, norm, lock, clock, slots, entries,
                    task, ran, mark>>
    BY <1>5 DEF Close, gitVars, ingestVars, lockVars
  <2>2. nextSeq' \in Nat
    BY <1>5 DEF TypeInv, Close
  <2> QED BY <1>5, <2>1, <2>2, CloseWrites DEF TypeInv, At
<1> QED BY <1>1, <1>2, <1>3, <1>4, <1>5 DEF Exit, Kill, ConnStep

\* So do the steps under the lock,
LEMMA ActorTyped ==
  ASSUME TypeInv, NEW a \in Actors, ActorStep(a)
  PROVE  TypeInv'
<1>0. UNCHANGED <<git, wire, conn, tracked, nextSeq, seqOf, queue, buffer, due, norm, lock, slots, mark>>
  BY DEF ActorStep, Locked, Pop, RunEnds, gitVars, inVars, ingestVars, lockVars
<1>1. CASE Locked(a)
  <2>1. task' = [task EXCEPT ![a].pc = "pop"] /\ "pop" \in Pcs /\ ran' = ran
    BY <1>1 DEF Locked, Pcs
  <2>2. clock' \in Nat /\ entries' \in SUBSET Entries
    <3>1. CASE a = Worker
      <4> DEFINE slot == Slot(task[a].cmd)
                 e == [slot EXCEPT !.is = task[a].put]
      <4>1. slot \in Entries /\ task[a].put \in {"ready", "canceled"}
        BY <3>1, <1>1, DaemonSequencerAssumption DEF TypeInv, Locked, At, Tasks, Entries, Slot, Gits
      <4>2. e \in Entries
        BY <4>1 DEF Entries
      <4>3. entries' = (entries \ {slot}) \cup {e} /\ clock' = clock
        BY <1>1, <3>1 DEF Locked
      <4> QED BY <4>2, <4>3 DEF TypeInv
    <3>2. CASE a # Worker
      <4>1. entries' = entries \cup {[at |-> clock + 1, item |-> a, is |-> "ready"]} /\ clock' = clock + 1
        BY <1>1, <3>2 DEF Locked
      <4>2. a \in Checkpoints
        BY <3>2 DEF Actors
      <4> QED BY <4>1, <4>2 DEF TypeInv, Entries
    <3> QED BY <3>1, <3>2
  <2>3. ~At(Worker, "lock")' \/ task'[Worker] = task[Worker]
    BY <2>1, PcWrites, ActorKinds DEF At
  <2>4. task' \in [Actors -> Tasks]
    BY <2>1, PcWrites
  <2> QED BY <1>0, <2>1, <2>2, <2>3, <2>4 DEF TypeInv, At
<1>2. ASSUME NEW todo \in SUBSET Entries, Begin(a, todo), clock' = clock, entries' \in SUBSET Entries,
             At(a, "pop") \/ At(a, "run")
      PROVE  TypeInv'
  <2>1. ~At(Worker, "lock")' \/ (task'[Worker] = task[Worker] /\ At(Worker, "lock"))
    BY <1>2, BeginWrites, ActorKinds DEF At
  <2> QED BY <1>0, <1>2, <2>1, BeginWrites DEF TypeInv, At
<1>3. CASE Pop(a)
  <2>1. PICK todo \in SUBSET entries : Begin(a, todo)
    BY <1>3 DEF Pop
  <2> QED BY <1>3, <2>1, <1>2 DEF Pop, TypeInv
<1>4. CASE RunEnds(a)
  <2>1. task[a].todo \in SUBSET Entries
    BY DEF TypeInv, Tasks
  <2> QED BY <1>4, <2>1, <1>2 DEF RunEnds, TypeInv
<1> QED BY <1>1, <1>3, <1>4 DEF ActorStep

\* The entry of a command with a slot.
LEMMA SlotTyped == ASSUME TypeInv, NEW c \in Slotted PROVE Slot(c) \in Entries
  BY DaemonSequencerAssumption DEF TypeInv, Slot, Entries, Gits

\* the steps of the worker,
LEMMA WorkerTyped ==
  ASSUME TypeInv, WorkerStep
  PROVE  TypeInv'
<1>0. UNCHANGED <<git, wire, conn, nextSeq, seqOf, clock, mark>> /\ tracked' \in SUBSET Commands
  <2>1. UNCHANGED <<git, wire, conn, nextSeq, seqOf, clock, mark>>
    BY DEF WorkerStep, Receive, Finish, TakeStart, TakeEnd, TakeEndFails, TakeLateEnd, gitVars, inVars
  <2>2. tracked' \subseteq tracked
    BY DEF WorkerStep, Receive, Finish, TakeStart, TakeEnd, TakeEndFails, TakeLateEnd, inVars
  <2> QED BY <2>1, <2>2 DEF TypeInv
<1>1. CASE Receive
  <2>1. Head(queue) \in Payloads /\ Tail(queue) \in Seq(Payloads)
    BY <1>1, HeadTailProperties DEF Receive, TypeInv
  <2>2. buffer' \in SUBSET Payloads /\ queue' \in Seq(Payloads)
    BY <1>1, <2>1 DEF Receive, TypeInv
  <2>3. UNCHANGED <<due, norm, lock, slots, entries, ran>>
    BY <1>1 DEF Receive, lockVars
  <2>4. task' = task \/ (task' = [task EXCEPT ![Worker].pc = "dead"] /\ "dead" \in Pcs)
    BY <1>1 DEF Receive, Pcs
  <2>5. task' \in [Actors -> Tasks] /\ task'[Worker].pc # "lock"
    <3>1. task'[Worker].pc \in {"off", "dead"} /\ task' \in [Actors -> Tasks]
      BY <1>1, <2>4, PcWrites, ActorKinds DEF Receive, At, TypeInv
    <3> QED BY <3>1
  <2> QED BY <1>0, <2>2, <2>3, <2>5 DEF TypeInv, At
<1>2. ASSUME Done, buffer' \in SUBSET buffer, queue' = queue,
             norm' \in [Commands -> {"none", "pending", "completed", "failed"}],
             slots' \in SUBSET Slotted, entries' \in SUBSET Entries, ran' = ran
      PROVE  TypeInv'
  <2>1. due' \in Nat \ {0} /\ task' \in [Actors -> Tasks] /\ lock' \in [id : Nat, made : Nat]
        /\ task'[Worker].pc = "off"
    BY <1>2, DoneWrites DEF TypeInv
  <2> QED BY <1>0, <1>2, <2>1 DEF TypeInv, At
<1>3. CASE Finish
  BY <1>2, <1>3 DEF Finish, TypeInv
<1>4. ASSUME NEW p \in buffer, TakeStart(p) PROVE TypeInv'
  <2>1. /\ norm' \in [Commands -> {"none", "pending", "completed", "failed"}]
    BY <1>4 DEF TakeStart, TypeInv
  <2>2. slots' \in SUBSET Slotted /\ entries' \in SUBSET Entries
    <3>1. CASE p.cmd \in Slotted
      <4>1. slots' = slots \cup {p.cmd} /\ entries' = entries \cup {Slot(p.cmd)}
        BY <1>4, <3>1 DEF TakeStart
      <4> QED BY <3>1, <4>1, SlotTyped DEF TypeInv
    <3>2. CASE p.cmd \notin Slotted
      BY <1>4, <3>2 DEF TakeStart, TypeInv
    <3> QED BY <3>1, <3>2
  <2> QED BY <1>2, <1>4, <2>1, <2>2 DEF TakeStart, Takes
<1>5. ASSUME NEW p \in buffer, TakeEndFails(p) PROVE TypeInv'
  <2>1. norm' \in [Commands -> {"none", "pending", "completed", "failed"}]
    BY <1>5 DEF TakeEndFails, TypeInv
  <2> QED BY <1>2, <1>5, <2>1 DEF TakeEndFails, Takes, TypeInv
<1>6. ASSUME NEW c \in slots, NEW put \in {"ready", "canceled"}, Clone(Worker, c, put),
             buffer' \in SUBSET buffer, UNCHANGED <<queue, due, entries, ran>>, slots' = slots \ {c},
             norm' \in [Commands -> {"none", "pending", "completed", "failed"}]
      PROVE  TypeInv'
  <2>1. c \in Commands /\ c \in Slotted /\ Worker \in Actors
    BY DaemonSequencerAssumption, ActorKinds DEF TypeInv
  <2>2. /\ task' \in [Actors -> Tasks] /\ lock' \in [id : Nat, made : Nat]
        /\ task'[Worker].put = put /\ task'[Worker].cmd = c
    BY <1>6, <2>1, CloneWrites
  <2> QED BY <1>0, <1>6, <2>1, <2>2 DEF TypeInv, At
<1>7. ASSUME NEW p \in buffer, TakeLateEnd(p) PROVE TypeInv'
  <2>1. CASE p.cmd \in slots
    BY <1>6, <1>7, <2>1 DEF TakeLateEnd, Takes, TypeInv
  <2>2. CASE p.cmd \notin slots
    BY <1>2, <1>7, <2>2 DEF TakeLateEnd, Takes, TypeInv
  <2> QED BY <2>1, <2>2
<1>8. ASSUME NEW p \in buffer, TakeEnd(p) PROVE TypeInv'
  <2>0. p.cmd \in Commands /\ norm' \in [Commands -> {"none", "pending", "completed", "failed"}]
    BY <1>8 DEF TakeEnd, TypeInv, Payloads
  <2>1. CASE p.cmd \in slots
    BY <1>6, <1>8, <2>0, <2>1 DEF TakeEnd, Takes
  <2>2. CASE p.cmd \notin slots
    <3>1. task' = [task EXCEPT ![Worker] = [task[Worker] EXCEPT !.pc = "finish", !.cmd = p.cmd]]
      BY <1>8, <2>2 DEF TakeEnd
    <3>2. [task[Worker] EXCEPT !.pc = "finish", !.cmd = p.cmd] \in Tasks
      <4>1. task[Worker] \in Tasks
        BY ActorKinds DEF TypeInv
      <4> QED BY <4>1, <2>0 DEF Tasks, Pcs
    <3>3. task' \in [Actors -> Tasks] /\ task'[Worker].pc = "finish"
      BY <3>1, <3>2, ActorKinds DEF TypeInv, Tasks
    <3>4. ran' \in Seq(Commands \cup Checkpoints)
      <4>1. ran' = Append(ran, p.cmd) /\ p.cmd \in Commands \cup Checkpoints
        BY <1>8, <2>0, <2>2 DEF TakeEnd
      <4> QED BY <4>1, AppendProperties DEF TypeInv
    <3>5. UNCHANGED <<queue, due, lock, entries>> /\ buffer' \subseteq buffer /\ slots' \subseteq slots
      BY <1>8, <2>2 DEF TakeEnd, Takes, lockVars
    <3> QED BY <1>0, <2>0, <3>3, <3>4, <3>5 DEF TypeInv, At
  <2> QED BY <2>1, <2>2
<1> QED BY <1>1, <1>3, <1>4, <1>5, <1>7, <1>8 DEF WorkerStep

\* and those of requests.
LEMMA RequestTyped ==
  ASSUME TypeInv, NEW h \in Checkpoints, Request(h) \/ RequestStep(h)
  PROVE  TypeInv'
<1>0. UNCHANGED <<git, wire, conn, tracked, nextSeq, seqOf, queue, buffer, due, norm, clock, slots, entries, ran>>
  BY DEF RequestStep, Request, Passed, TimesOut, Respond, gitVars, inVars, ingestVars
<1>1. h \in Actors /\ h # Worker
  BY ActorKinds
<1>2. ASSUME NEW pc \in Pcs, task' = [task EXCEPT ![h].pc = pc], lock' = lock,
             mark' \in [Checkpoints -> Nat]
      PROVE  TypeInv'
  BY <1>0, <1>1, <1>2, PcWrites, ActorKinds DEF TypeInv, At
<1>3. CASE Request(h)
  BY <1>2, <1>3 DEF Request, TypeInv, lockVars, Pcs
<1>4. CASE TimesOut(h) \/ Respond(h)
  BY <1>2, <1>4 DEF TimesOut, Respond, TypeInv, lockVars, Pcs
<1>5. CASE Passed(h)
  <2>1. Clone(h, Worker, "none") /\ mark' = mark
    BY <1>5 DEF Passed
  <2> QED BY <1>0, <1>1, <2>1, CloneWrites, ActorKinds DEF TypeInv, At
<1> QED BY <1>3, <1>4, <1>5 DEF RequestStep

\* Every step keeps the shape.
LEMMA NextTyped == TypeInv /\ [Next]_vars => TypeInv'
<1>1. ASSUME TypeInv, Sweep \/ Shutdown \/ ProcessExit \/ UNCHANGED vars PROVE TypeInv'
  <2>1. lock' \in [id : Nat, made : Nat]
    BY <1>1 DEF TypeInv, Sweep, Collect, Shutdown, ProcessExit, vars, lockVars
  <2> QED BY <1>1, <2>1 DEF TypeInv, Sweep, Shutdown, ProcessExit, vars, gitVars, inVars, ingestVars, At
<1> QED BY <1>1, GitTyped, ActorTyped, WorkerTyped, RequestTyped DEF Next

(***************************************************************************)
(* The lock of the family                                                   *)
(***************************************************************************)
HasLock(a) == task[a].pc \in {"lock", "pop", "run"}

\* Two actors never hold the same lock, and while no lock in use was collected,
\* all who hold or wait for one mean the lock in the map.
Exclusive == \A a, b \in Actors : Holds(a) /\ Holds(b) /\ task[a].lock = task[b].lock => a = b
Shared == \A a \in Actors : HasLock(a) => task[a].lock = lock.id /\ lock.id # 0
LockInv == Exclusive /\ (misgc \/ Shared)

\* At first nobody has the lock.
LEMMA InitLock == Init => LockInv
<1> SUFFICES ASSUME Init PROVE LockInv
  OBVIOUS
<1>1. \A a \in Actors : task[a].pc = "off"
  BY DEF Init, Off
<1> QED BY <1>1 DEF LockInv, Exclusive, Shared, Holds, HasLock

\* Steps that change neither tasks nor the map keep the lock's invariant.
LEMMA StaysPut == ASSUME LockInv, task' = task, lock' = lock, misgc' = misgc PROVE LockInv'
  BY DEF LockInv, Exclusive, Shared, Holds, HasLock

\* One actor goes on without a lock, or with the one that it holds or that is free.
LEMMA OneGoes ==
  ASSUME LockInv, NEW a \in Actors, \A b \in Actors \ {a} : task'[b] = task[b],
         lock' = lock, misgc' = misgc,
         \/ ~HasLock(a)'
         \/ /\ HasLock(a) /\ task'[a].lock = task[a].lock
            /\ Holds(a) \/ \A b \in Actors : Holds(b) => task[b].lock # task[a].lock
  PROVE  LockInv'
<1>1. Exclusive'
  BY DEF LockInv, Exclusive, Holds, HasLock
<1>2. Shared => Shared'
  BY DEF Shared, HasLock
<1> QED BY <1>1, <1>2 DEF LockInv

\* An actor that clones the lock in the map, or makes one, does not hold it yet.
LEMMA OneClones ==
  ASSUME TypeInv, LockInv, NEW a \in Actors, NEW cmd \in Commands \cup {Worker},
         NEW put \in {"none", "ready", "canceled"}, Clone(a, cmd, put)
  PROVE  LockInv'
<1>1. /\ task'[a].pc = "lock" /\ task'[a].lock = lock'.id /\ lock'.id # 0 /\ misgc' = misgc
      /\ lock.id # 0 => lock'.id = lock.id
      /\ \A b \in Actors \ {a} : task'[b] = task[b]
  BY CloneWrites
<1>2. Exclusive'
  BY <1>1 DEF LockInv, Exclusive, Holds
<1>3. Shared => Shared'
  BY <1>1 DEF Shared, HasLock
<1> QED BY <1>1, <1>2, <1>3 DEF LockInv

\* The maps are collected, by the worker when it has no lock or by the update check.
LEMMA CollectKeepsLock ==
  ASSUME LockInv, Collect, \A b \in Actors \ {Worker} : task'[b] = task[b],
         task'[Worker] = task[Worker] \/ ~HasLock(Worker)'
  PROVE  LockInv'
<1>1. Exclusive'
  BY DEF LockInv, Exclusive, Holds, HasLock
<1>2. ASSUME Shared, ~Used(lock.id) PROVE Shared'
  <2>1. lock' = lock
    BY <1>2 DEF Collect
  <2> QED BY <1>2, <2>1 DEF Shared, HasLock
<1>3. (Used(lock.id) => misgc') /\ (misgc => misgc')
  BY DEF Collect
<1> QED BY <1>1, <1>2, <1>3 DEF LockInv

\* The worker, which has no lock, is done; the maps may be collected.
LEMMA DoneKeepsLock ==
  ASSUME TypeInv, LockInv, Done, ~HasLock(Worker)
  PROVE  LockInv'
<1>1. Worker \in Actors /\ task'[Worker].pc = "off" /\ \A b \in Actors \ {Worker} : task'[b] = task[b]
  BY DoneWrites, ActorKinds
<1>2. CASE UNCHANGED lockVars
  BY <1>1, <1>2, OneGoes DEF lockVars, HasLock
<1>3. CASE Collect
  BY <1>1, <1>3, CollectKeepsLock DEF HasLock
<1> QED BY <1>2, <1>3 DEF Done

\* Every step keeps the lock's invariant.
LEMMA NextLock == TypeInv /\ LockInv /\ [Next]_vars => LockInv'
<1> SUFFICES ASSUME TypeInv, LockInv, [Next]_vars PROVE LockInv'
  OBVIOUS
<1>1. ASSUME NEW c \in Commands, Start(c) \/ Exit(c) \/ Kill(c) \/ ConnStep(c) PROVE LockInv'
  BY <1>1, StaysPut DEF Start, Exit, Kill, Leave, ConnStep, Read, Enqueue, Close, lockVars
<1>2. ASSUME NEW a \in Actors, Locked(a) PROVE LockInv'
  <2>1. task' = [task EXCEPT ![a].pc = "pop"] /\ "pop" \in Pcs /\ lock' = lock /\ misgc' = misgc
    BY <1>2 DEF Locked, Pcs, lockVars
  <2>2. HasLock(a) /\ \A b \in Actors : Holds(b) => task[b].lock # task[a].lock
    BY <1>2 DEF Locked, At, HasLock
  <2> QED BY <2>1, <2>2, PcWrites, OneGoes
<1>3. ASSUME NEW a \in Actors, NEW todo \in SUBSET Entries, Begin(a, todo), Holds(a), lock' = lock, misgc' = misgc
      PROVE  LockInv'
  <2>1. /\ ~HasLock(a)' \/ task'[a].lock = task[a].lock
        /\ \A b \in Actors \ {a} : task'[b] = task[b]
    BY <1>3, BeginWrites DEF HasLock
  <2> QED BY <1>3, <2>1, OneGoes DEF Holds, HasLock
<1>4. ASSUME NEW a \in Actors, Pop(a) PROVE LockInv'
  <2>1. PICK todo \in SUBSET entries : Begin(a, todo)
    BY <1>4 DEF Pop
  <2> QED BY <1>3, <1>4, <2>1 DEF Pop, lockVars, At, Holds, TypeInv
<1>5. ASSUME NEW a \in Actors, RunEnds(a) PROVE LockInv'
  <2>1. task[a].todo \in SUBSET Entries
    BY DEF TypeInv, Tasks
  <2> QED BY <1>3, <1>5, <2>1 DEF RunEnds, lockVars, At, Holds
<1>6. ASSUME NEW a \in Actors, NEW pc \in Pcs \ {"lock", "pop", "run"},
             task' = [task EXCEPT ![a].pc = pc], lock' = lock, misgc' = misgc
      PROVE  LockInv'
  BY <1>6, PcWrites, OneGoes DEF HasLock
<1>7. ASSUME Receive PROVE LockInv'
  <2>1. lock' = lock /\ misgc' = misgc
    BY <1>7 DEF Receive, lockVars
  <2>2. task' = task \/ (task' = [task EXCEPT ![Worker].pc = "dead"] /\ "dead" \in Pcs \ {"lock", "pop", "run"})
    BY <1>7 DEF Receive, Pcs
  <2> QED BY <2>1, <2>2, <1>6, StaysPut, ActorKinds
<1>8. ASSUME NEW p \in buffer, TakeEnd(p) \/ TakeLateEnd(p), p.cmd \in slots PROVE LockInv'
  <2>1. PICK put \in {"ready", "canceled"} : Clone(Worker, p.cmd, put)
    BY <1>8 DEF TakeEnd, TakeLateEnd
  <2>2. p.cmd \in Commands
    BY DEF TypeInv, Payloads
  <2> QED BY <2>1, <2>2, OneClones, ActorKinds
<1>9. ASSUME NEW p \in buffer, TakeEnd(p), p.cmd \notin slots PROVE LockInv'
  <2>1. task' = [task EXCEPT ![Worker] = [task[Worker] EXCEPT !.pc = "finish", !.cmd = p.cmd]]
    BY <1>9 DEF TakeEnd
  <2>2. lock' = lock /\ misgc' = misgc
    BY <1>9 DEF TakeEnd, lockVars
  <2>3. task \in [Actors -> Tasks]
    BY DEF TypeInv
  <2>4. task'[Worker].pc = "finish" /\ \A b \in Actors \ {Worker} : task'[b] = task[b]
    BY <2>1, <2>3, ActorKinds DEF Tasks
  <2> QED BY <2>2, <2>4, OneGoes, ActorKinds DEF HasLock
<1>10. ASSUME Finish \/ \E p \in buffer : TakeStart(p) \/ TakeEndFails(p)
                                         \/ (TakeLateEnd(p) /\ p.cmd \notin slots)
       PROVE LockInv'
  BY <1>10, DoneKeepsLock DEF Finish, TakeStart, TakeEndFails, TakeLateEnd, Takes, At, HasLock
<1>11. ASSUME NEW h \in Checkpoints, Request(h) \/ TimesOut(h) \/ Respond(h) PROVE LockInv'
  <2>1. lock' = lock /\ misgc' = misgc /\ h \in Actors
    BY <1>11, ActorKinds DEF Request, TimesOut, Respond, lockVars
  <2>2. PICK pc \in {"wait", "failed", "done"} : task' = [task EXCEPT ![h].pc = pc]
    BY <1>11 DEF Request, TimesOut, Respond
  <2> QED BY <2>1, <2>2, <1>6 DEF Pcs
<1>12. ASSUME NEW h \in Checkpoints, Passed(h) PROVE LockInv'
  BY <1>12, ActorKinds, OneClones DEF Passed
<1>13. ASSUME Shutdown \/ ProcessExit \/ UNCHANGED vars PROVE LockInv'
  BY <1>13, StaysPut DEF Shutdown, ProcessExit, vars, lockVars
<1>14. ASSUME Sweep PROVE LockInv'
  <2>1. task' = task /\ Collect
    BY <1>14 DEF Sweep
  <2> QED BY <2>1, CollectKeepsLock, ActorKinds
<1> QED
  BY <1>1, <1>2, <1>4, <1>5, <1>7, <1>8, <1>9, <1>10, <1>11, <1>12, <1>13, <1>14
  DEF Next, ActorStep, WorkerStep, RequestStep

\* side_effect_exec_lock serves its purpose: entries of one family are never run
\* by two actors at once, until gc_stale_family_state drops a lock in use.
THEOREM OneAtATimeHolds == Spec => []OneAtATimeUnlessCollected
<1>1. LockInv => OneAtATimeUnlessCollected
  BY DEF LockInv, Exclusive, Shared, OneAtATimeUnlessCollected, OneAtATime, At, Holds, HasLock
<1>2. QED
  BY InitTyped, NextTyped, InitLock, NextLock, <1>1, PTL DEF Spec

(***************************************************************************)
(* What git has written and what of it was read                             *)
(***************************************************************************)
\* Contents of a wire with the start unread, with the exit unread, and with both ends unread.
StartUnread == {<<"start">>, <<"start", "exit">>, <<"start", "exit", "atexit">>}
ExitUnread == {<<"start", "exit">>, <<"start", "exit", "atexit">>, <<"exit">>, <<"exit", "atexit">>}
BothUnread == {<<"start", "exit", "atexit">>, <<"exit", "atexit">>}
\* How far git is, what is on the wire, and which numbers were noted for its events.
Talk(c) ==
  /\ wire[c] \in StartUnread \cup ExitUnread \cup {<<"atexit">>, <<>>}
  /\ git[c].phase = "new" => wire[c] = <<>> /\ ~conn[c].open /\ conn[c].load = NoPayload
                             /\ seqOf[c].start = 0 /\ ~git[c].killed
  /\ git[c].phase # "new" => (wire[c] \in StartUnread <=> seqOf[c].start = 0)
  /\ git[c].phase = "live" => wire[c] \in {<<>>, <<"start">>} /\ seqOf[c].end = 0 /\ ~git[c].killed
  /\ wire[c] \in ExitUnread => seqOf[c].end = 0
  /\ wire[c] = <<"atexit">> => seqOf[c].end # 0
  /\ seqOf[c].start = 0 => seqOf[c].end = 0 /\ c \notin tracked
  /\ seqOf[c].end # 0 => seqOf[c].start < seqOf[c].end
  /\ seqOf[c].start <= nextSeq /\ seqOf[c].end <= nextSeq
  /\ c \in tracked /\ conn[c].open => seqOf[c].end = 0
  /\ git[c].phase = "gone" /\ ~git[c].killed =>
       /\ wire[c] \in BothUnread \cup {<<"atexit">>, <<>>}
       /\ seqOf[c].end = 0 => wire[c] \in BothUnread
Dialogue == \A c \in Commands : Talk(c)

\* What is left of the wire after a read.
LEMMA WireTails ==
  /\ Head(<<"start">>) = "start" /\ Tail(<<"start">>) = <<>>
  /\ Head(<<"start", "exit">>) = "start" /\ Tail(<<"start", "exit">>) = <<"exit">>
  /\ Head(<<"start", "exit", "atexit">>) = "start"
  /\ Tail(<<"start", "exit", "atexit">>) = <<"exit", "atexit">>
  /\ Head(<<"exit">>) = "exit" /\ Tail(<<"exit">>) = <<>>
  /\ Head(<<"exit", "atexit">>) = "exit" /\ Tail(<<"exit", "atexit">>) = <<"atexit">>
  /\ Head(<<"atexit">>) = "atexit" /\ Tail(<<"atexit">>) = <<>>
  OBVIOUS

\* The contents of the wire are told apart.
LEMMA WiresDiffer ==
  /\ <<>> \notin {<<"start">>, <<"start", "exit">>, <<"start", "exit", "atexit">>,
                  <<"exit">>, <<"exit", "atexit">>, <<"atexit">>}
  /\ <<"start">> \notin {<<"start", "exit">>, <<"start", "exit", "atexit">>,
                  <<"exit">>, <<"exit", "atexit">>, <<"atexit">>}
  /\ <<"start", "exit">> \notin {<<"start", "exit", "atexit">>,
                  <<"exit">>, <<"exit", "atexit">>, <<"atexit">>}
  /\ <<"start", "exit", "atexit">> \notin {<<"exit">>, <<"exit", "atexit">>, <<"atexit">>}
  /\ <<"exit">> \notin {<<"exit", "atexit">>, <<"atexit">>}
  /\ <<"exit", "atexit">> # <<"atexit">>
  OBVIOUS

\* What is on the wire after git left.
LEMMA WireEnds ==
  /\ <<>> \o <<>> = <<>> /\ <<"start">> \o <<>> = <<"start">>
  /\ <<>> \o <<"exit">> = <<"exit">> /\ <<"start">> \o <<"exit">> = <<"start", "exit">>
  /\ <<>> \o <<"exit", "atexit">> = <<"exit", "atexit">>
  /\ <<"start">> \o <<"exit", "atexit">> = <<"start", "exit", "atexit">>
<1>1. /\ <<>> \in Seq(Events) /\ <<"start">> \in Seq(Events) /\ <<"exit">> \in Seq(Events)
      /\ <<"exit", "atexit">> \in Seq(Events)
  BY DEF Events
<1>2. /\ <<>> \o <<>> = <<>> /\ <<"start">> \o <<>> = <<"start">>
      /\ <<>> \o <<"exit">> = <<"exit">> /\ <<>> \o <<"exit", "atexit">> = <<"exit", "atexit">>
  BY <1>1, ConcatEmptySeq
<1>3. ASSUME NEW s \in {<<"exit">>, <<"exit", "atexit">>}, NEW t \in Seq(Events),
             Len(t) = 1 + Len(s), t[1] = "start", \A i \in 1..Len(s) : t[1 + i] = s[i]
      PROVE  <<"start">> \o s = t
  <2>1. s \in Seq(Events) /\ Len(<<"start">>) = 1 /\ <<"start">>[1] = "start" /\ Len(s) \in Nat
    BY <1>1
  <2> DEFINE u == <<"start">> \o s
  <2>2. /\ u \in Seq(Events) /\ Len(u) = 1 + Len(s)
        /\ \A i \in 1..1 + Len(s) : u[i] = IF i <= 1 THEN "start" ELSE s[i - 1]
    BY <1>1, <2>1, ConcatProperties
  <2> HIDE DEF u
  <2>3. \A i \in 1..Len(u) : u[i] = t[i]
    <3>1. SUFFICES ASSUME NEW i \in 1..Len(u) PROVE u[i] = t[i]
      OBVIOUS
    <3>2. CASE i = 1
      BY <3>2, <2>1, <2>2, <1>3
    <3>3. CASE i # 1
      <4>1. i - 1 \in 1..Len(s) /\ 1 + (i - 1) = i /\ i \in 1..1 + Len(s) /\ ~(i <= 1)
        BY <3>3, <2>1, <2>2
      <4> QED BY <4>1, <2>2, <1>3
    <3> QED BY <3>2, <3>3
  <2>4. u = t
    BY <2>2, <2>3, <1>3, SeqEqual
  <2> QED BY <2>4 DEF u
<1>4. <<"start">> \o <<"exit">> = <<"start", "exit">>
  <2>1. <<"start", "exit">> \in Seq(Events) /\ Len(<<"start", "exit">>) = 1 + Len(<<"exit">>)
    BY DEF Events
  <2>2. \A i \in 1..Len(<<"exit">>) : <<"start", "exit">>[1 + i] = <<"exit">>[i]
    OBVIOUS
  <2> QED BY <2>1, <2>2, <1>3
<1>5. <<"start">> \o <<"exit", "atexit">> = <<"start", "exit", "atexit">>
  <2>1. <<"start", "exit", "atexit">> \in Seq(Events)
        /\ Len(<<"start", "exit", "atexit">>) = 1 + Len(<<"exit", "atexit">>)
    BY DEF Events
  <2>2. \A i \in 1..Len(<<"exit", "atexit">>) : <<"start", "exit", "atexit">>[1 + i] = <<"exit", "atexit">>[i]
    OBVIOUS
  <2> QED BY <2>1, <2>2, <1>3
<1> QED BY <1>2, <1>4, <1>5

\* A step that leaves c's conversation alone, and takes at most new numbers.
LEMMA TalkStays ==
  ASSUME TypeInv, TypeInv', NEW c \in Commands, Talk(c), nextSeq <= nextSeq',
         git'[c] = git[c], wire'[c] = wire[c], conn'[c] = conn[c], seqOf'[c] = seqOf[c],
         c \in tracked' => c \in tracked
  PROVE  Talk(c)'
<1>1. /\ seqOf[c].start \in Nat /\ seqOf[c].end \in Nat /\ nextSeq \in Nat /\ nextSeq' \in Nat
  BY DEF TypeInv, Seqs
<1> QED BY <1>1 DEF Talk

\* Every step keeps the conversation in order.
LEMMA NextDialogue == TypeInv /\ TypeInv' /\ Dialogue /\ [Next]_vars => Dialogue'
<1> SUFFICES ASSUME TypeInv, TypeInv', Dialogue, [Next]_vars PROVE Dialogue'
  OBVIOUS
<1>0. /\ nextSeq \in Nat
      /\ \A c \in Commands : /\ seqOf[c].start \in Nat /\ seqOf[c].end \in Nat
                             /\ git[c].phase \in {"new", "live", "gone"}
  BY DEF TypeInv, Seqs, Gits
<1>1. ASSUME NEW c \in Commands, Start(c) PROVE Dialogue'
  <2>1. git[c].phase = "new" /\ UNCHANGED <<tracked, nextSeq, seqOf>>
    BY <1>1 DEF Start
  <2>0. /\ git'[c].phase = "live" /\ git'[c].killed = git[c].killed /\ conn'[c].open = TRUE
        /\ wire'[c] = <<"start">>
        /\ \A d \in Commands \ {c} : git'[d] = git[d] /\ conn'[d] = conn[d] /\ wire'[d] = wire[d]
    BY <1>1, StartWrites
  <2>2. Talk(c)'
    <3>0. Talk(c)
      BY DEF Dialogue
    <3>1. <<>> \notin StartUnread /\ <<"start">> \in StartUnread /\ <<"start">> \notin ExitUnread
          /\ <<"start">> # <<"atexit">> /\ <<"start">> # <<>>
      BY WiresDiffer DEF StartUnread, ExitUnread
    <3>2. seqOf[c].start = 0 /\ seqOf[c].end = 0 /\ c \notin tracked
      BY <2>1, <3>0 DEF Talk
    <3> QED BY <1>0, <2>0, <2>1, <3>0, <3>1, <3>2 DEF Talk
  <2>3. \A d \in Commands \ {c} : Talk(d)'
    BY <1>0, <2>0, <2>1, TalkStays DEF Dialogue
  <2> QED BY <2>2, <2>3 DEF Dialogue
<1>2. ASSUME NEW c \in Commands, NEW events \in {<<>>, <<"exit">>, <<"exit", "atexit">>},
             NEW k \in BOOLEAN, k \/ events = <<"exit", "atexit">>, Leave(c, events, k)
      PROVE  Dialogue'
  <2>1. git[c].phase = "live" /\ UNCHANGED <<conn, tracked, nextSeq, seqOf>>
    BY <1>2 DEF Leave, inVars
  <2>2. events \in Seq(Events)
    <3>1. <<>> \in Seq(Events) /\ <<"exit">> \in Seq(Events) /\ <<"exit", "atexit">> \in Seq(Events)
      BY DEF Events
    <3> QED BY <3>1
  <2>3. /\ git'[c].phase = "gone" /\ git'[c].killed = k /\ wire'[c] = wire[c] \o events
        /\ \A d \in Commands \ {c} : git'[d] = git[d] /\ wire'[d] = wire[d]
    BY <1>2, <2>2, LeaveWrites
  <2>4. /\ wire'[c] \in StartUnread \cup ExitUnread \cup {<<"atexit">>, <<>>}
        /\ wire'[c] \in StartUnread <=> wire[c] \in StartUnread
        /\ wire'[c] # <<"atexit">>
        /\ events = <<"exit", "atexit">> => wire'[c] \in BothUnread
    <3>1. wire[c] \in {<<>>, <<"start">>}
      BY <2>1 DEF Dialogue, Talk
    <3> QED BY <2>3, <3>1, WireEnds, WiresDiffer DEF StartUnread, ExitUnread, BothUnread
  <2>5. Talk(c)'
    BY <1>0, <1>2, <2>1, <2>3, <2>4 DEF Dialogue, Talk
  <2>6. \A d \in Commands \ {c} : Talk(d)'
    BY <1>0, <2>1, <2>3, TalkStays DEF Dialogue
  <2> QED BY <2>5, <2>6 DEF Dialogue
<1>3. ASSUME NEW c \in Commands, Read(c) PROVE Dialogue'
  <2> DEFINE ev == Head(wire[c])
  <2>1. /\ conn[c].open /\ wire[c] # <<>> /\ git' = git /\ nextSeq' = nextSeq + 1
        /\ tracked' = IF ev = "start" THEN tracked \cup {c} ELSE tracked \ {c}
    BY <1>3 DEF Read
  <2>2. /\ wire'[c] = Tail(wire[c]) /\ conn'[c].open = conn[c].open
        /\ seqOf'[c].start = IF ev = "start" THEN nextSeq + 1 ELSE seqOf[c].start
        /\ seqOf'[c].end = IF ev = "exit" THEN nextSeq + 1 ELSE seqOf[c].end
        /\ \A d \in Commands \ {c} : conn'[d] = conn[d] /\ wire'[d] = wire[d] /\ seqOf'[d] = seqOf[d]
    BY <1>3, ReadWrites
  <2>3. \A d \in Commands \ {c} : Talk(d)'
    BY <1>0, <2>1, <2>2, TalkStays DEF Dialogue
  <2>4. git[c].phase # "new"
    BY <2>1 DEF Dialogue, Talk
  <2>5. CASE wire[c] \in StartUnread
    <3>1. ev = "start" /\ wire'[c] \in {<<>>, <<"exit">>, <<"exit", "atexit">>}
          /\ (wire[c] = <<"start">> <=> wire'[c] = <<>>)
          /\ (wire[c] \in BothUnread <=> wire'[c] \in BothUnread)
          /\ (wire[c] \in ExitUnread <=> wire'[c] \in ExitUnread)
      BY <2>2, <2>5, WireTails, WiresDiffer DEF StartUnread, BothUnread, ExitUnread
    <3>2. wire'[c] \notin StartUnread /\ wire'[c] # <<"atexit">>
          /\ wire'[c] \in StartUnread \cup ExitUnread \cup {<<"atexit">>, <<>>}
          /\ wire[c] \notin {<<>>, <<"atexit">>}
      BY <3>1, <2>5, WiresDiffer DEF StartUnread, ExitUnread
    <3>3. Talk(c)
      BY DEF Dialogue
    <3>4. seqOf[c].start = 0 /\ seqOf[c].end = 0
      BY <2>4, <2>5, <3>3 DEF Talk
    <3>5. Talk(c)'
      BY <1>0, <2>1, <2>2, <2>4, <2>5, <3>1, <3>2, <3>3, <3>4 DEF Talk
    <3> QED BY <2>3, <3>5 DEF Dialogue
  <2>6. CASE wire[c] \in {<<"exit">>, <<"exit", "atexit">>}
    <3>1. ev = "exit" /\ wire'[c] \in {<<>>, <<"atexit">>}
          /\ (wire[c] = <<"exit", "atexit">> <=> wire'[c] = <<"atexit">>)
      BY <2>2, <2>6, WireTails, WiresDiffer
    <3>2. wire[c] \in ExitUnread \ StartUnread /\ wire[c] \notin {<<>>, <<"start">>}
          /\ wire'[c] \notin StartUnread \cup ExitUnread
          /\ (wire[c] \in BothUnread <=> wire'[c] = <<"atexit">>)
      BY <3>1, <2>6, WiresDiffer DEF StartUnread, ExitUnread, BothUnread
    <3>3. seqOf[c].start # 0 /\ seqOf[c].start <= nextSeq /\ git[c].phase = "gone"
      BY <1>0, <2>4, <3>2 DEF Dialogue, Talk
    <3>4. Talk(c) /\ <<>> # <<"atexit">>
      BY WiresDiffer DEF Dialogue
    <3>5. Talk(c)'
      BY <1>0, <2>1, <2>2, <3>1, <3>2, <3>3, <3>4 DEF Talk
    <3> QED BY <2>3, <3>5 DEF Dialogue
  <2>7. CASE wire[c] = <<"atexit">>
    <3>1. ev = "atexit" /\ wire'[c] = <<>> /\ <<>> \notin StartUnread \cup ExitUnread
          /\ wire[c] \notin StartUnread /\ <<>> # <<"atexit">> /\ <<"atexit">> # <<"start">>
      BY <2>2, <2>7, WireTails, WiresDiffer DEF StartUnread, ExitUnread
    <3>2. seqOf[c].start # 0 /\ seqOf[c].end # 0 /\ git[c].phase = "gone"
      BY <1>0, <2>4, <2>7, <3>1 DEF Dialogue, Talk
    <3> QED BY <1>0, <2>1, <2>2, <2>3, <2>4, <2>7, <3>1, <3>2 DEF Dialogue, Talk
  <2>8. wire[c] \in StartUnread \cup {<<"exit">>, <<"exit", "atexit">>, <<"atexit">>}
    BY <2>1 DEF Dialogue, Talk, StartUnread, ExitUnread
  <2> QED BY <2>5, <2>6, <2>7, <2>8
<1>4. ASSUME NEW c \in Commands, Enqueue(c) PROVE Dialogue'
  <2>1. UNCHANGED <<git, wire, tracked, nextSeq, seqOf>> /\ conn[c].load # NoPayload
    BY <1>4 DEF Enqueue, gitVars
  <2>2. (conn'[c].open => conn[c].open) /\ \A d \in Commands \ {c} : conn'[d] = conn[d]
    BY <1>4, EnqueueWrites
  <2>3. \A d \in Commands \ {c} : Talk(d)'
    BY <1>0, <2>1, <2>2, TalkStays DEF Dialogue
  <2> QED BY <1>0, <2>1, <2>2, <2>3 DEF Dialogue, Talk
<1>5. ASSUME NEW c \in Commands, Close(c) PROVE Dialogue'
  <2>1. /\ UNCHANGED <<git, wire, tracked>> /\ git[c].phase = "gone" /\ wire[c] = <<>> /\ conn[c].open
    BY <1>5 DEF Close, gitVars
  <2>2. /\ ~conn'[c].open /\ seqOf'[c].start = seqOf[c].start
        /\ IF c \in tracked THEN nextSeq' = nextSeq + 1 /\ seqOf'[c].end = nextSeq + 1
                           ELSE nextSeq' = nextSeq /\ seqOf'[c].end = seqOf[c].end
        /\ \A d \in Commands \ {c} : conn'[d] = conn[d] /\ seqOf'[d] = seqOf[d]
    BY <1>5, CloseWrites
  <2>3. \A d \in Commands \ {c} : Talk(d)'
    BY <1>0, <2>1, <2>2, TalkStays DEF Dialogue
  <2>4. <<>> \notin StartUnread \cup ExitUnread /\ <<>> # <<"atexit">> /\ <<>> \notin BothUnread
    BY WiresDiffer DEF StartUnread, ExitUnread, BothUnread
  <2> QED BY <1>0, <2>1, <2>2, <2>3, <2>4 DEF Dialogue, Talk
<1>6. ASSUME UNCHANGED <<git, wire, conn, nextSeq, seqOf>>, tracked' \subseteq tracked PROVE Dialogue'
  BY <1>6 DEF Dialogue, Talk
<1>7. ASSUME NEW a \in Actors, ActorStep(a) PROVE Dialogue'
  BY <1>6, <1>7 DEF ActorStep, Locked, Pop, RunEnds, gitVars, inVars
<1>8. ASSUME WorkerStep PROVE Dialogue'
  BY <1>6, <1>8 DEF WorkerStep, Receive, Finish, TakeStart, TakeEnd, TakeEndFails, TakeLateEnd, gitVars, inVars
<1>9. ASSUME NEW h \in Checkpoints, Request(h) \/ RequestStep(h) PROVE Dialogue'
  BY <1>6, <1>9 DEF Request, RequestStep, Passed, TimesOut, Respond, gitVars, inVars
<1>10. ASSUME Sweep \/ Shutdown \/ ProcessExit \/ UNCHANGED vars PROVE Dialogue'
  BY <1>6, <1>10 DEF Sweep, Shutdown, ProcessExit, vars, gitVars, inVars
<1>11. ASSUME NEW c \in Commands, Exit(c) \/ Kill(c) PROVE Dialogue'
  BY <1>2, <1>11 DEF Exit, Kill
<1> QED BY <1>1, <1>3, <1>4, <1>5, <1>7, <1>8, <1>9, <1>10, <1>11 DEF Next, ConnStep

(***************************************************************************)
(* The payloads on their way to the worker                                  *)
(***************************************************************************)
\* No number is given out twice: the places where a payload can be hold distinct ones.
Distinct ==
  /\ \A i, j \in DOMAIN queue : queue[i].seq = queue[j].seq => i = j
  /\ \A i \in DOMAIN queue : \A p \in buffer : queue[i].seq # p.seq
  /\ \A p, q \in buffer : p.seq = q.seq => p = q
  /\ \A c \in Commands : conn[c].load # NoPayload =>
       /\ conn[c].load.cmd = c
       /\ \A i \in DOMAIN queue : queue[i].seq # conn[c].load.seq
       /\ \A p \in buffer : p.seq # conn[c].load.seq
       /\ \A d \in Commands : conn[d].load # NoPayload /\ conn[d].load.seq = conn[c].load.seq => c = d

\* All payloads on their way: in a connection, in the channel, in the worker's buffer.
Flight == InQueue \cup ({conn[c].load : c \in Commands} \ {NoPayload})

\* The numbers from here on have not been taken by the worker.
Busy == task[Worker].pc \in {"lock", "pop", "run", "finish"}
NextTaken == IF Busy THEN due + 1 ELSE due

\* A payload carries the number that was noted for its event.
Carries(p) ==
  /\ p.ev = "start" => seqOf[p.cmd].start = p.seq
  /\ p.ev # "start" => seqOf[p.cmd].end # 0 /\ seqOf[p.cmd].end <= p.seq
  /\ p.ev = "atexit" => git[p.cmd].killed \/ seqOf[p.cmd].end < p.seq
  /\ \A c \in Commands : p.seq = seqOf[c].start => p.cmd = c /\ p.ev = "start"
  /\ \A c \in Commands : p.seq = seqOf[c].end => p.cmd = c /\ p.ev # "start"
Numbered ==
  /\ NextTaken <= nextSeq + 1
  /\ \A p \in Flight : NextTaken <= p.seq /\ p.seq <= nextSeq /\ Carries(p)

\* Append and Tail of a sequence, index by index.
LEMMA QueueShape ==
  ASSUME NEW S, NEW q \in Seq(S)
  PROVE  /\ DOMAIN q = 1..Len(q) /\ Len(q) \in Nat /\ \A i \in DOMAIN q : q[i] \in S
         /\ \A x \in S : /\ DOMAIN Append(q, x) = 1..Len(q) + 1
                         /\ \A i \in DOMAIN q : Append(q, x)[i] = q[i]
                         /\ Append(q, x)[Len(q) + 1] = x
         /\ q # <<>> => /\ 1 \in DOMAIN q /\ Head(q) = q[1]
                        /\ DOMAIN Tail(q) = 1..Len(q) - 1
                        /\ \A i \in DOMAIN Tail(q) : i + 1 \in DOMAIN q /\ Tail(q)[i] = q[i + 1]
<1>1. DOMAIN q = 1..Len(q) /\ Len(q) \in Nat /\ \A i \in DOMAIN q : q[i] \in S
  BY LenProperties
<1>2. ASSUME NEW x \in S
      PROVE  /\ DOMAIN Append(q, x) = 1..Len(q) + 1
             /\ \A i \in DOMAIN q : Append(q, x)[i] = q[i]
             /\ Append(q, x)[Len(q) + 1] = x
  <2>1. /\ Append(q, x) \in Seq(S) /\ Len(Append(q, x)) = Len(q) + 1
        /\ \A i \in 1..Len(q) : Append(q, x)[i] = q[i]
        /\ Append(q, x)[Len(q) + 1] = x
    BY AppendProperties
  <2> QED BY <1>1, <2>1, LenProperties
<1>3. ASSUME q # <<>>
      PROVE  /\ 1 \in DOMAIN q /\ Head(q) = q[1]
             /\ DOMAIN Tail(q) = 1..Len(q) - 1
             /\ \A i \in DOMAIN Tail(q) : i + 1 \in DOMAIN q /\ Tail(q)[i] = q[i + 1]
  <2>1. /\ Tail(q) \in Seq(S) /\ Len(Tail(q)) = Len(q) - 1
        /\ \A i \in 1..Len(Tail(q)) : Tail(q)[i] = q[i + 1]
    BY <1>3, HeadTailProperties
  <2>2. DOMAIN Tail(q) = 1..Len(q) - 1
    BY <2>1, LenProperties
  <2>3. Len(q) # 0
    BY <1>3, EmptySeq
  <2>4. Head(q) = q[1]
    OBVIOUS
  <2> QED BY <1>1, <2>1, <2>2, <2>3, <2>4
<1> QED BY <1>1, <1>2, <1>3

\* Every step keeps the numbers apart.
LEMMA NextDistinct ==
  TypeInv /\ Distinct /\ Numbered /\ [Next]_vars => Distinct'
<1> SUFFICES ASSUME TypeInv, Distinct, Numbered, [Next]_vars PROVE Distinct'
  OBVIOUS
<1>0. /\ nextSeq \in Nat /\ queue \in Seq(Payloads) /\ buffer \in SUBSET Payloads
      /\ \A i \in DOMAIN queue : queue[i] \in Payloads /\ queue[i].seq <= nextSeq
      /\ \A p \in buffer : p.seq <= nextSeq
      /\ \A c \in Commands : conn[c].load # NoPayload =>
           conn[c].load \in Payloads /\ conn[c].load.seq <= nextSeq
  BY QueueShape DEF TypeInv, Conns, Numbered, Flight, InQueue
<1>1. ASSUME UNCHANGED <<queue, buffer>>, \A c \in Commands : conn'[c].load = conn[c].load PROVE Distinct'
  BY <1>1 DEF Distinct
\* A connection has read an event, or made one up.
<1>2. ASSUME NEW c \in Commands, UNCHANGED <<queue, buffer>>,
             \A d \in Commands \ {c} : conn'[d] = conn[d],
             conn'[c].load.cmd = c, conn'[c].load.seq = nextSeq + 1
      PROVE  Distinct'
  <2>1. /\ \A i \in DOMAIN queue : queue[i].seq # nextSeq + 1
        /\ \A p \in buffer : p.seq # nextSeq + 1
        /\ \A d \in Commands : conn[d].load # NoPayload => conn[d].load.seq # nextSeq + 1
    BY <1>0 DEF Payloads
  <2> QED BY <1>2, <2>1 DEF Distinct
<1>3. ASSUME NEW c \in Commands, Enqueue(c) PROVE Distinct'
  <2>1. buffer' = buffer /\ conn[c].load # NoPayload
    BY <1>3 DEF Enqueue
  <2>2. /\ conn[c].load \in Payloads /\ conn'[c].load = NoPayload
        /\ queue' = Append(queue, conn[c].load) \/ queue' = queue
        /\ \A d \in Commands \ {c} : conn'[d] = conn[d]
    BY <1>3, EnqueueWrites
  <2>3. CASE queue' = queue
    BY <2>1, <2>2, <2>3 DEF Distinct
  <2>4. CASE queue' = Append(queue, conn[c].load)
    <3>1. /\ DOMAIN queue' = DOMAIN queue \cup {Len(queue) + 1} /\ Len(queue) + 1 \notin DOMAIN queue
          /\ \A i \in DOMAIN queue : queue'[i] = queue[i]
          /\ queue'[Len(queue) + 1] = conn[c].load
      BY <1>0, <2>2, <2>4, QueueShape
    <3> QED BY <2>1, <2>2, <3>1 DEF Distinct
  <2> QED BY <2>2, <2>3, <2>4
<1>4. ASSUME Receive PROVE Distinct'
  <2>1. conn' = conn /\ queue # <<>> /\ queue' = Tail(queue)
        /\ (buffer' = buffer \cup {Head(queue)} \/ buffer' = buffer)
    BY <1>4 DEF Receive, inVars
  <2>2. /\ 1 \in DOMAIN queue /\ Head(queue) = queue[1]
        /\ \A i \in DOMAIN queue' : i + 1 \in DOMAIN queue /\ queue'[i] = queue[i + 1] /\ i \in 1..Len(queue)
    BY <1>0, <2>1, QueueShape
  <2>3. \A i \in DOMAIN queue' : i + 1 # 1 /\ \A j \in DOMAIN queue' : i + 1 = j + 1 => i = j
    BY <1>0, <2>2
  <2> QED BY <2>1, <2>2, <2>3 DEF Distinct
<1>5. ASSUME conn' = conn, queue' = queue, buffer' \subseteq buffer PROVE Distinct'
  BY <1>5 DEF Distinct
<1>6. ASSUME NEW c \in Commands, Start(c) \/ Exit(c) \/ Kill(c) PROVE Distinct'
  <2>1. UNCHANGED <<queue, buffer>>
    BY <1>6 DEF Start, Exit, Kill, Leave, ingestVars
  <2>2. CASE Start(c)
    BY <1>1, <2>1, <2>2, StartWrites
  <2>3. CASE conn' = conn
    BY <1>1, <2>1, <2>3
  <2> QED BY <1>6, <2>2, <2>3 DEF Exit, Kill, Leave, inVars
<1>7. ASSUME NEW c \in Commands, Read(c) PROVE Distinct'
  <2>1. UNCHANGED <<queue, buffer>>
    BY <1>7 DEF Read, ingestVars
  <2> QED BY <1>2, <1>7, <2>1, ReadWrites
<1>8. ASSUME NEW c \in Commands, Close(c) PROVE Distinct'
  <2>1. UNCHANGED <<queue, buffer>>
    BY <1>8 DEF Close, ingestVars
  <2>2. CASE c \in tracked
    BY <1>2, <1>8, <2>1, <2>2, CloseWrites
  <2>3. CASE c \notin tracked
    <3>1. conn'[c].load = conn[c].load /\ \A d \in Commands \ {c} : conn'[d] = conn[d]
      BY <1>8, <2>3, CloseWrites
    <3> QED BY <1>1, <2>1, <3>1
  <2> QED BY <2>2, <2>3
<1>9. ASSUME NEW a \in Actors, ActorStep(a) PROVE Distinct'
  BY <1>5, <1>9 DEF ActorStep, Locked, Pop, RunEnds, inVars, ingestVars
<1>10. ASSUME Finish \/ \E p \in buffer : TakeStart(p) \/ TakeEnd(p) \/ TakeEndFails(p) \/ TakeLateEnd(p)
       PROVE Distinct'
  BY <1>5, <1>10 DEF Finish, TakeStart, TakeEnd, TakeEndFails, TakeLateEnd, Takes, inVars
<1>11. ASSUME NEW h \in Checkpoints, Request(h) \/ RequestStep(h) PROVE Distinct'
  BY <1>5, <1>11 DEF Request, RequestStep, Passed, TimesOut, Respond, inVars, ingestVars
<1>12. ASSUME Sweep \/ Shutdown \/ ProcessExit \/ UNCHANGED vars PROVE Distinct'
  BY <1>5, <1>12 DEF Sweep, Shutdown, ProcessExit, vars, inVars, ingestVars
<1> QED BY <1>3, <1>4, <1>6, <1>7, <1>8, <1>9, <1>10, <1>11, <1>12 DEF Next, ConnStep, WorkerStep

Take(p) == TakeStart(p) \/ TakeEnd(p) \/ TakeEndFails(p) \/ TakeLateEnd(p)

\* The worker takes the payload with the number that is due, and nothing else moves.
LEMMA TakeMoves ==
  ASSUME TypeInv, NEW p \in buffer, Take(p)
  PROVE  /\ ~Busy /\ NextTaken = due /\ p.seq = due /\ NextTaken' = due + 1
         /\ buffer' = buffer \ {p} /\ UNCHANGED <<git, wire, conn, nextSeq, seqOf, queue>>
<1>1. /\ p.seq = due /\ buffer' = buffer \ {p} /\ At(Worker, "off")
      /\ UNCHANGED <<git, wire, conn, nextSeq, seqOf, queue>>
  BY DEF Take, TakeStart, TakeEnd, TakeEndFails, TakeLateEnd, Takes, gitVars, inVars
<1>2. ~Busy /\ NextTaken = due
  BY <1>1 DEF Busy, At, NextTaken
<1>3. ASSUME Done PROVE NextTaken' = due + 1
  BY <1>3, DoneWrites DEF NextTaken, Busy
<1>4. ASSUME NEW put \in {"ready", "canceled"}, Clone(Worker, p.cmd, put), due' = due
      PROVE  NextTaken' = due + 1
  <2>1. p.cmd \in Commands
    BY DEF TypeInv, Payloads
  <2>2. task'[Worker].pc = "lock"
    BY <2>1, <1>4, CloneWrites, ActorKinds
  <2> QED BY <1>4, <2>2 DEF NextTaken, Busy
<1>5. ASSUME TakeEnd(p), p.cmd \notin slots PROVE NextTaken' = due + 1
  <2>1. task' = [task EXCEPT ![Worker] = [task[Worker] EXCEPT !.pc = "finish", !.cmd = p.cmd]] /\ due' = due
    BY <1>5 DEF TakeEnd
  <2>2. task'[Worker].pc = "finish"
    BY <2>1, ActorKinds DEF TypeInv, Tasks
  <2> QED BY <2>1, <2>2 DEF NextTaken, Busy
<1>6. NextTaken' = due + 1
  BY <1>3, <1>4, <1>5 DEF Take, TakeStart, TakeEnd, TakeEndFails, TakeLateEnd
<1> QED BY <1>1, <1>2, <1>6

\* Without that, no number is taken.
LEMMA TakenStays ==
  ASSUME TypeInv, [Next]_vars, ~\E p \in buffer : Take(p)
  PROVE  NextTaken' = NextTaken
<1>1. ASSUME due' = due, task'[Worker] = task[Worker] PROVE NextTaken' = NextTaken
  BY <1>1 DEF NextTaken, Busy
<1>2. ASSUME NEW c \in Commands, Start(c) \/ Exit(c) \/ Kill(c) \/ ConnStep(c) PROVE NextTaken' = NextTaken
  BY <1>1, <1>2 DEF Start, Exit, Kill, Leave, ConnStep, Read, Enqueue, Close, ingestVars
<1>3. ASSUME NEW a \in Actors, ActorStep(a) PROVE NextTaken' = NextTaken
  <2>1. due' = due
    BY <1>3 DEF ActorStep, Locked, Pop, RunEnds, ingestVars
  <2>2. ASSUME NEW b \in Actors, NEW todo \in SUBSET Entries, Begin(b, todo), Holds(b)
        PROVE  NextTaken' = NextTaken
    <3>1. CASE b = Worker
      <4>1. task'[Worker].pc \in {"run", "finish"}
        BY <2>2, <3>1, BeginWrites
      <4> QED BY <2>1, <2>2, <3>1, <4>1 DEF NextTaken, Busy, Holds
    <3>2. CASE b # Worker
      BY <1>1, <2>1, <2>2, <3>2, BeginWrites, ActorKinds
    <3> QED BY <3>1, <3>2
  <2>3. CASE Locked(a)
    <3>1. task' = [task EXCEPT ![a].pc = "pop"] /\ "pop" \in Pcs /\ task[a].pc = "lock"
      BY <2>3 DEF Locked, Pcs, At
    <3>2. CASE a = Worker
      <4>1. task'[Worker].pc = "pop"
        BY <3>1, <3>2, PcWrites
      <4> QED BY <2>1, <3>1, <3>2, <4>1 DEF NextTaken, Busy
    <3>3. CASE a # Worker
      <4>1. task'[Worker] = task[Worker]
        BY <3>1, <3>3, PcWrites, ActorKinds
      <4> QED BY <1>1, <2>1, <4>1
    <3> QED BY <3>2, <3>3
  <2>4. CASE Pop(a)
    <3>1. PICK todo \in SUBSET entries : Begin(a, todo)
      BY <2>4 DEF Pop
    <3> QED BY <2>2, <2>4, <3>1 DEF Pop, At, Holds, TypeInv
  <2>5. CASE RunEnds(a)
    <3>1. task[a].todo \in SUBSET Entries
      BY DEF TypeInv, Tasks
    <3> QED BY <2>2, <2>5, <3>1 DEF RunEnds, At, Holds
  <2> QED BY <1>3, <2>3, <2>4, <2>5 DEF ActorStep
<1>4. ASSUME Receive PROVE NextTaken' = NextTaken
  <2>1. due' = due /\ task[Worker].pc = "off"
        /\ (task' = task \/ (task' = [task EXCEPT ![Worker].pc = "dead"] /\ "dead" \in Pcs))
    BY <1>4 DEF Receive, At, Pcs
  <2>2. task'[Worker].pc \in {"off", "dead"}
    BY <2>1, PcWrites, ActorKinds
  <2> QED BY <2>1, <2>2 DEF NextTaken, Busy
<1>5. ASSUME Finish PROVE NextTaken' = NextTaken
  <2>1. due' = due + 1 /\ task'[Worker].pc = "off" /\ task[Worker].pc = "finish"
    BY <1>5, DoneWrites DEF Finish, At
  <2> QED BY <2>1 DEF NextTaken, Busy
<1>6. ASSUME NEW h \in Checkpoints, Request(h) \/ RequestStep(h) PROVE NextTaken' = NextTaken
  <2>1. due' = due /\ h \in Actors /\ h # Worker /\ Worker \in Actors
    BY <1>6, ActorKinds DEF Request, RequestStep, Passed, TimesOut, Respond, ingestVars
  <2>2. task'[Worker] = task[Worker]
    <3>1. CASE Passed(h)
      <4>1. Clone(h, Worker, "none")
        BY <3>1 DEF Passed
      <4> QED BY <2>1, <4>1, CloneWrites
    <3>2. CASE Request(h) \/ TimesOut(h) \/ Respond(h)
      BY <2>1, <3>2 DEF Request, TimesOut, Respond, TypeInv
    <3> QED BY <1>6, <3>1, <3>2 DEF RequestStep
  <2> QED BY <1>1, <2>1, <2>2
<1>7. ASSUME Sweep \/ Shutdown \/ ProcessExit \/ UNCHANGED vars PROVE NextTaken' = NextTaken
  BY <1>1, <1>7 DEF Sweep, Shutdown, ProcessExit, vars, ingestVars
<1> QED BY <1>2, <1>3, <1>4, <1>5, <1>6, <1>7 DEF Next, WorkerStep, Take

\* Where payloads come from: one that a connection has just read or made up.
LEMMA FlightGrows ==
  ASSUME TypeInv, [Next]_vars, NEW p \in Flight', p \notin Flight
  PROVE  \E c \in Commands : (Read(c) \/ (Close(c) /\ c \in tracked)) /\ p = conn'[c].load
<1>0. /\ queue \in Seq(Payloads)
      /\ \A i \in DOMAIN queue : queue[i] \in Flight
      /\ \A q \in buffer : q \in Flight
      /\ \A c \in Commands : conn[c].load # NoPayload => conn[c].load \in Flight
  BY DEF Flight, InQueue, TypeInv
<1>1. \/ \E i \in DOMAIN queue' : p = queue'[i]
      \/ p \in buffer'
      \/ \E c \in Commands : p = conn'[c].load /\ p # NoPayload
  BY DEF Flight, InQueue
<1>2. ASSUME UNCHANGED <<queue, buffer>>, \A c \in Commands : conn'[c].load = conn[c].load PROVE FALSE
  BY <1>0, <1>1, <1>2
<1>3. ASSUME NEW c \in Commands, UNCHANGED <<queue, buffer>>, \A d \in Commands \ {c} : conn'[d] = conn[d]
      PROVE  p = conn'[c].load
  BY <1>0, <1>1, <1>3
<1>4. ASSUME NEW c \in Commands, Enqueue(c) PROVE FALSE
  <2>1. buffer' = buffer /\ conn[c].load # NoPayload
    BY <1>4 DEF Enqueue
  <2>2. /\ conn[c].load \in Payloads /\ conn'[c].load = NoPayload
        /\ queue' = Append(queue, conn[c].load) \/ queue' = queue
        /\ \A d \in Commands \ {c} : conn'[d] = conn[d]
    BY <1>4, EnqueueWrites
  <2>3. \A i \in DOMAIN queue' : queue'[i] \in Flight
    <3>1. CASE queue' = queue
      BY <1>0, <3>1
    <3>2. CASE queue' = Append(queue, conn[c].load)
      <4>1. /\ DOMAIN queue' = DOMAIN queue \cup {Len(queue) + 1}
            /\ \A i \in DOMAIN queue : queue'[i] = queue[i]
            /\ queue'[Len(queue) + 1] = conn[c].load
        BY <1>0, <2>2, <3>2, QueueShape
      <4> QED BY <1>0, <2>1, <4>1
    <3> QED BY <2>2, <3>1, <3>2
  <2> QED BY <1>0, <1>1, <2>1, <2>2, <2>3
<1>5. ASSUME Receive PROVE FALSE
  <2>1. conn' = conn /\ queue # <<>> /\ queue' = Tail(queue)
        /\ (buffer' = buffer \cup {Head(queue)} \/ buffer' = buffer)
    BY <1>5 DEF Receive, inVars
  <2>2. /\ 1 \in DOMAIN queue /\ Head(queue) = queue[1]
        /\ \A i \in DOMAIN queue' : i + 1 \in DOMAIN queue /\ queue'[i] = queue[i + 1]
    BY <1>0, <2>1, QueueShape
  <2> QED BY <1>0, <1>1, <2>1, <2>2
<1>6. ASSUME conn' = conn, queue' = queue, buffer' \subseteq buffer PROVE FALSE
  BY <1>0, <1>1, <1>6
<1>7. ASSUME NEW c \in Commands, Start(c) \/ Exit(c) \/ Kill(c) PROVE FALSE
  <2>1. UNCHANGED <<queue, buffer>>
    BY <1>7 DEF Start, Exit, Kill, Leave, ingestVars
  <2>2. CASE Start(c)
    BY <1>2, <2>1, <2>2, StartWrites
  <2>3. CASE conn' = conn
    BY <1>6, <2>1, <2>3
  <2> QED BY <1>7, <2>2, <2>3 DEF Exit, Kill, Leave, inVars
<1>8. ASSUME NEW c \in Commands, Read(c) PROVE p = conn'[c].load
  <2>1. UNCHANGED <<queue, buffer>>
    BY <1>8 DEF Read, ingestVars
  <2> QED BY <1>3, <1>8, <2>1, ReadWrites
<1>9. ASSUME NEW c \in Commands, Close(c) PROVE c \in tracked /\ p = conn'[c].load
  <2>1. UNCHANGED <<queue, buffer>>
    BY <1>9 DEF Close, ingestVars
  <2>2. p = conn'[c].load
    BY <1>3, <1>9, <2>1, CloseWrites
  <2>3. CASE c \notin tracked
    <3>1. conn'[c].load = conn[c].load /\ \A d \in Commands \ {c} : conn'[d] = conn[d]
      BY <1>9, <2>3, CloseWrites
    <3> QED BY <1>2, <2>1, <3>1
  <2> QED BY <2>2, <2>3
<1>10. ASSUME NEW a \in Actors, ActorStep(a) PROVE FALSE
  BY <1>6, <1>10 DEF ActorStep, Locked, Pop, RunEnds, inVars, ingestVars
<1>11. ASSUME Finish \/ \E q \in buffer : Take(q) PROVE FALSE
  BY <1>6, <1>11, TakeMoves DEF Finish, inVars
<1>12. ASSUME NEW h \in Checkpoints, Request(h) \/ RequestStep(h) PROVE FALSE
  BY <1>6, <1>12 DEF Request, RequestStep, Passed, TimesOut, Respond, inVars, ingestVars
<1>13. ASSUME Sweep \/ Shutdown \/ ProcessExit \/ UNCHANGED vars PROVE FALSE
  BY <1>6, <1>13 DEF Sweep, Shutdown, ProcessExit, vars, inVars, ingestVars
<1> QED BY <1>4, <1>5, <1>7, <1>8, <1>9, <1>10, <1>11, <1>12, <1>13 DEF Next, ConnStep, WorkerStep, Take

\* What is on its way is a payload.
LEMMA FlightTyped ==
  ASSUME TypeInv, NEW p \in Flight
  PROVE  p \in Payloads /\ p.cmd \in Commands /\ p.seq \in Nat \ {0} /\ p.ev \in Events
<1>1. p \in Payloads
  BY QueueShape DEF TypeInv, Flight, InQueue, Conns
<1> QED BY <1>1 DEF Payloads

\* Which actions touch git, and the notes of numbers.
LEMMA Untouched ==
  ASSUME [Next]_vars
  PROVE  /\ (nextSeq' = nextSeq /\ seqOf' = seqOf) \/ \E c \in Commands : Read(c) \/ Close(c)
         /\ git' = git \/ \E c \in Commands : Start(c) \/ Exit(c) \/ Kill(c)
<1>1. CASE \E c \in Commands : Start(c) \/ Exit(c) \/ Kill(c) \/ ConnStep(c)
  BY <1>1 DEF Start, Exit, Kill, Leave, ConnStep, Enqueue, Read, Close, gitVars, inVars
<1>2. CASE \E a \in Actors : ActorStep(a)
  BY <1>2 DEF ActorStep, Locked, Pop, RunEnds, gitVars, inVars
<1>3. CASE WorkerStep
  BY <1>3 DEF WorkerStep, Receive, Finish, TakeStart, TakeEnd, TakeEndFails, TakeLateEnd, gitVars, inVars
<1>4. CASE \E h \in Checkpoints : Request(h) \/ RequestStep(h)
  BY <1>4 DEF Request, RequestStep, Passed, TimesOut, Respond, gitVars, inVars
<1>5. CASE Sweep \/ Shutdown \/ ProcessExit \/ UNCHANGED vars
  BY <1>5 DEF Sweep, Shutdown, ProcessExit, vars, gitVars, inVars
<1> QED BY <1>1, <1>2, <1>3, <1>4, <1>5 DEF Next

\* An event is noted once, with the next number.
LEMMA NotesMove ==
  ASSUME TypeInv, Dialogue, [Next]_vars
  PROVE  /\ (nextSeq' = nextSeq \/ nextSeq' = nextSeq + 1)
         /\ \A c \in Commands :
              /\ \/ seqOf'[c].start = seqOf[c].start
                 \/ seqOf[c].start = 0 /\ seqOf'[c].start = nextSeq + 1 /\ nextSeq' = nextSeq + 1
              /\ \/ seqOf'[c].end = seqOf[c].end
                 \/ seqOf[c].end = 0 /\ seqOf'[c].end = nextSeq + 1 /\ nextSeq' = nextSeq + 1
<1>1. CASE nextSeq' = nextSeq /\ seqOf' = seqOf
  BY <1>1
<1>2. ASSUME NEW c \in Commands, Read(c)
      PROVE  /\ nextSeq' = nextSeq + 1 /\ \A d \in Commands \ {c} : seqOf'[d] = seqOf[d]
             /\ seqOf'[c].start = seqOf[c].start \/ (seqOf[c].start = 0 /\ seqOf'[c].start = nextSeq + 1)
             /\ seqOf'[c].end = seqOf[c].end \/ (seqOf[c].end = 0 /\ seqOf'[c].end = nextSeq + 1)
  <2>1. /\ nextSeq' = nextSeq + 1 /\ \A d \in Commands \ {c} : seqOf'[d] = seqOf[d]
        /\ seqOf'[c].start = IF Head(wire[c]) = "start" THEN nextSeq + 1 ELSE seqOf[c].start
        /\ seqOf'[c].end = IF Head(wire[c]) = "exit" THEN nextSeq + 1 ELSE seqOf[c].end
    BY <1>2, ReadWrites
  <2>2. Talk(c) /\ wire[c] # <<>> /\ conn[c].open
    BY <1>2 DEF Read, Dialogue
  <2>3. /\ Head(wire[c]) = "start" => wire[c] \in StartUnread
        /\ Head(wire[c]) = "exit" => wire[c] \in ExitUnread
    BY <2>2, WireTails DEF Talk, StartUnread, ExitUnread
  <2>4. git[c].phase # "new"
    BY <2>2 DEF Talk
  <2> QED BY <2>1, <2>2, <2>3, <2>4 DEF Talk
<1>3. ASSUME NEW c \in Commands, Close(c)
      PROVE  /\ (nextSeq' = nextSeq \/ nextSeq' = nextSeq + 1) /\ \A d \in Commands \ {c} : seqOf'[d] = seqOf[d]
             /\ seqOf'[c].start = seqOf[c].start
             /\ \/ seqOf'[c].end = seqOf[c].end
                \/ seqOf[c].end = 0 /\ seqOf'[c].end = nextSeq + 1 /\ nextSeq' = nextSeq + 1
  <2>1. conn[c].open /\ Talk(c)
    BY <1>3 DEF Close, Dialogue
  <2>2. c \in tracked => seqOf[c].end = 0
    BY <2>1 DEF Talk
  <2> QED BY <1>3, <2>2, CloseWrites
<1> QED BY <1>1, <1>2, <1>3, Untouched

\* A command is started once; it is not killed before.
LEMMA GitMoves ==
  ASSUME TypeInv, Dialogue, [Next]_vars, NEW c \in Commands
  PROVE  /\ git[c].phase # "new" => git'[c].phase # "new" /\ git'[c].at = git[c].at
         /\ git[c].phase = "new" /\ git'[c].phase # "new" => git'[c].at = clock + 1 /\ clock' = clock + 1
         /\ git[c].phase = "new" /\ git'[c].phase = "new" => git'[c].at = git[c].at
         /\ git[c].phase = "gone" => git'[c] = git[c]
         /\ git[c].killed => git'[c].killed
<1>0. Talk(c) /\ git[c].phase \in {"new", "live", "gone"}
  BY DEF Dialogue, TypeInv, Gits
<1>1. CASE git' = git
  BY <1>1
<1>2. ASSUME NEW d \in Commands, Start(d)
      PROVE  /\ git[d].phase = "new" /\ clock' = clock + 1 /\ \A e \in Commands \ {d} : git'[e] = git[e]
             /\ git'[d].phase = "live" /\ git'[d].at = clock + 1 /\ git'[d].killed = git[d].killed
  BY <1>2, StartWrites DEF Start
<1>3. ASSUME NEW d \in Commands, Exit(d) \/ Kill(d)
      PROVE  /\ git[d].phase = "live" /\ \A e \in Commands \ {d} : git'[e] = git[e]
             /\ git'[d].phase = "gone" /\ git'[d].at = git[d].at
  <2>1. PICK events \in {<<>>, <<"exit">>, <<"exit", "atexit">>}, k \in BOOLEAN : Leave(d, events, k)
    BY <1>3 DEF Exit, Kill
  <2>2. events \in Seq(Events)
    <3>1. <<>> \in Seq(Events) /\ <<"exit">> \in Seq(Events) /\ <<"exit", "atexit">> \in Seq(Events)
      BY DEF Events
    <3> QED BY <3>1
  <2> QED BY <2>1, <2>2, LeaveWrites DEF Leave
<1>4. CASE \E d \in Commands : Start(d)
  BY <1>0, <1>2, <1>4
<1>5. CASE \E d \in Commands : Exit(d) \/ Kill(d)
  BY <1>0, <1>3, <1>5 DEF Talk
<1> QED BY <1>1, <1>4, <1>5, Untouched

\* A payload stays true to the notes,
LEMMA OldCarries ==
  ASSUME TypeInv, Dialogue, [Next]_vars, NEW p \in Flight, p.seq <= nextSeq, Carries(p)
  PROVE  Carries(p)'
<1>1. p.cmd \in Commands /\ p.seq \in Nat \ {0} /\ nextSeq \in Nat
  BY FlightTyped DEF TypeInv
<1>2. git[p.cmd].killed => git'[p.cmd].killed
  BY <1>1, GitMoves
<1> QED BY <1>1, <1>2, NotesMove DEF Carries

\* and a new one is.
LEMMA NewCarries ==
  ASSUME TypeInv, TypeInv', Dialogue, [Next]_vars, NEW c \in Commands,
         NEW p, p = conn'[c].load, Read(c) \/ (Close(c) /\ c \in tracked)
  PROVE  p.seq = nextSeq + 1 /\ nextSeq' = nextSeq + 1 /\ Carries(p)'
<1>0. /\ nextSeq \in Nat /\ Talk(c)
      /\ \A d \in Commands : Talk(d) /\ seqOf[d].start \in Nat /\ seqOf[d].end \in Nat
  BY DEF Dialogue, TypeInv, Seqs
<1>1. /\ p.cmd = c /\ p.seq = nextSeq + 1 /\ nextSeq' = nextSeq + 1
      /\ \A d \in Commands \ {c} : seqOf'[d] = seqOf[d]
  <2>1. CASE Read(c)
    BY <2>1, ReadWrites
  <2>2. CASE Close(c) /\ c \in tracked
    BY <2>2, CloseWrites
  <2> QED BY <2>1, <2>2
<1>2. \A d \in Commands : seqOf[d].start # nextSeq + 1 /\ seqOf[d].end # nextSeq + 1
  BY <1>0 DEF Talk
<1>3. CASE Read(c)
  <2>1. /\ seqOf'[c].start = IF p.ev = "start" THEN nextSeq + 1 ELSE seqOf[c].start
        /\ seqOf'[c].end = IF p.ev = "exit" THEN nextSeq + 1 ELSE seqOf[c].end
        /\ p.ev = Head(wire[c]) /\ p.ev \in Events
    BY <1>3, ReadWrites
  <2>2. p.ev = "atexit" => seqOf[c].end # 0
    <3>1. wire[c] # <<>>
      BY <1>3 DEF Read
    <3> QED BY <1>0, <2>1, <3>1, WireTails DEF Talk, StartUnread, ExitUnread
  <2>3. seqOf[c].end <= nextSeq /\ seqOf[c].end \in Nat
    BY <1>0 DEF Talk
  <2> QED BY <1>0, <1>1, <1>2, <2>1, <2>2, <2>3 DEF Carries, Events
<1>4. CASE Close(c) /\ c \in tracked
  <2>1. /\ p.ev = "atexit" /\ seqOf'[c].start = seqOf[c].start /\ seqOf'[c].end = nextSeq + 1
    BY <1>4, CloseWrites
  <2>2. git[c].phase = "gone" /\ wire[c] = <<>> /\ conn[c].open /\ git' = git
    BY <1>4 DEF Close, gitVars
  <2>3. git[c].killed
    BY <1>0, <1>4, <2>2, WiresDiffer DEF Talk, BothUnread
  <2> QED BY <1>0, <1>1, <1>2, <2>1, <2>2, <2>3 DEF Carries
<1> QED BY <1>3, <1>4

\* What the worker takes is on its way no more.
LEMMA FlightShrinks ==
  ASSUME TypeInv, Distinct, NEW p \in buffer, buffer' = buffer \ {p}, conn' = conn, queue' = queue
  PROVE  /\ Flight' = Flight \ {p} /\ p \in Flight
         /\ \A q \in Flight' : q.seq # p.seq
<1>1. /\ \A i \in DOMAIN queue : queue[i].seq # p.seq
      /\ \A q \in buffer : q.seq = p.seq => p = q
      /\ \A c \in Commands : conn[c].load # NoPayload => conn[c].load.seq # p.seq
  BY DEF Distinct
<1> QED BY <1>1 DEF Flight, InQueue

\* Every step keeps payloads true to the notes.
LEMMA NextNumbered ==
  TypeInv /\ TypeInv' /\ Dialogue /\ Distinct /\ Numbered /\ [Next]_vars => Numbered'
<1> SUFFICES ASSUME TypeInv, TypeInv', Dialogue, Distinct, Numbered, [Next]_vars PROVE Numbered'
  OBVIOUS
<1>0. nextSeq \in Nat /\ (nextSeq' = nextSeq \/ nextSeq' = nextSeq + 1) /\ due \in Nat /\ NextTaken \in Nat
  BY NotesMove DEF TypeInv, NextTaken
<1>1. \A p \in Flight : /\ p.seq \in Nat /\ p.seq <= nextSeq /\ p.seq <= nextSeq'
                       /\ NextTaken <= p.seq /\ Carries(p)'
  BY <1>0, FlightTyped, OldCarries DEF Numbered
<1>2. CASE \E p \in buffer : Take(p)
  <2>1. PICK p \in buffer : Take(p)
    BY <1>2
  <2>2. /\ p.seq = due /\ NextTaken = due /\ NextTaken' = due + 1
        /\ buffer' = buffer \ {p} /\ conn' = conn /\ queue' = queue /\ nextSeq' = nextSeq
    BY <2>1, TakeMoves
  <2>3. Flight' = Flight \ {p} /\ p \in Flight /\ \A q \in Flight' : q.seq # p.seq
    BY <2>2, FlightShrinks
  <2> QED BY <1>0, <1>1, <2>2, <2>3 DEF Numbered
<1>3. CASE ~\E p \in buffer : Take(p)
  <2>1. NextTaken' = NextTaken
    BY <1>3, TakenStays
  <2>2. ASSUME NEW p \in Flight', p \notin Flight
        PROVE  p.seq = nextSeq + 1 /\ nextSeq' = nextSeq + 1 /\ Carries(p)'
    <3>1. PICK c \in Commands : (Read(c) \/ (Close(c) /\ c \in tracked)) /\ p = conn'[c].load
      BY <2>2, FlightGrows
    <3> QED BY <3>1, NewCarries
  <2>3. NextTaken <= nextSeq' + 1 /\ NextTaken <= nextSeq + 1
    <3>1. NextTaken <= nextSeq + 1
      BY DEF Numbered
    <3>2. CASE nextSeq' = nextSeq
      BY <3>1, <3>2
    <3>3. CASE nextSeq' = nextSeq + 1
      BY <1>0, <3>1, <3>3
    <3> QED BY <1>0, <3>2, <3>3
  <2>4. ASSUME NEW p \in Flight' PROVE NextTaken <= p.seq /\ p.seq <= nextSeq' /\ Carries(p)'
    <3>1. CASE p \in Flight
      BY <1>1, <3>1
    <3>2. CASE p \notin Flight
      <4>1. p.seq = nextSeq + 1 /\ nextSeq' = nextSeq + 1 /\ Carries(p)'
        BY <2>2, <3>2
      <4> QED BY <1>0, <2>3, <4>1
    <3> QED BY <3>1, <3>2
  <2> QED BY <2>1, <2>3, <2>4 DEF Numbered
<1> QED BY <1>2, <1>3

(***************************************************************************)
(* What the normalizer knows: which numbers of a command were taken         *)
(***************************************************************************)
\* The normalizer knows a command whose start was taken; it is done with one whose end was.
Known == \A c \in Commands :
  /\ norm[c] = "none" <=> seqOf[c].start = 0 \/ NextTaken <= seqOf[c].start
  /\ norm[c] = "pending" => seqOf[c].end = 0 \/ NextTaken <= seqOf[c].end
  /\ norm[c] \in {"completed", "failed"} => seqOf[c].end # 0 /\ seqOf[c].end < NextTaken
  /\ norm[c] = "failed" => c \in Mutating

\* What the worker takes: a start that is new, or an end whose start was taken.
LEMMA TakeKnows ==
  ASSUME TypeInv, Dialogue, Distinct, Numbered, Known, NEW p \in buffer, Take(p)
  PROVE  /\ p \in Flight /\ p.cmd \in Commands
         /\ p.ev = "start" => norm[p.cmd] = "none" /\ seqOf[p.cmd].start = due
         /\ p.ev # "start" => /\ norm[p.cmd] # "none" /\ seqOf[p.cmd].start < due
                              /\ seqOf[p.cmd].end # 0 /\ seqOf[p.cmd].end <= due
         /\ \A d \in Commands : seqOf[d].start = due => d = p.cmd /\ p.ev = "start"
         /\ \A d \in Commands : seqOf[d].end = due => d = p.cmd /\ p.ev # "start"
<1>1. p \in Flight /\ p.cmd \in Commands /\ p.seq = due /\ NextTaken = due /\ due \in Nat \ {0}
  BY TakeMoves, FlightTyped DEF Flight, InQueue, TypeInv
<1>2. Carries(p) /\ Talk(p.cmd) /\ seqOf[p.cmd].start \in Nat /\ seqOf[p.cmd].end \in Nat
  BY <1>1 DEF Numbered, Dialogue, TypeInv, Seqs
<1>3. CASE p.ev = "start"
  <2>1. seqOf[p.cmd].start = due
    BY <1>1, <1>2, <1>3 DEF Carries
  <2>2. norm[p.cmd] = "none"
    BY <1>1, <2>1 DEF Known
  <2> QED BY <1>1, <1>2, <1>3, <2>1, <2>2 DEF Carries
<1>4. CASE p.ev # "start"
  <2>1. seqOf[p.cmd].end # 0 /\ seqOf[p.cmd].end <= due
    BY <1>1, <1>2, <1>4 DEF Carries
  <2>2. seqOf[p.cmd].start < seqOf[p.cmd].end /\ seqOf[p.cmd].start # 0
    BY <1>2, <2>1 DEF Talk
  <2>3. seqOf[p.cmd].start < due
    BY <1>1, <1>2, <2>1, <2>2
  <2>4. norm[p.cmd] # "none"
    BY <1>1, <1>2, <2>2, <2>3 DEF Known
  <2> QED BY <1>1, <1>2, <1>4, <2>1, <2>3, <2>4 DEF Carries
<1> QED BY <1>3, <1>4

\* The normalizer learns only from what the worker takes.
LEMMA NormStays ==
  ASSUME [Next]_vars, ~\E p \in buffer : Take(p)
  PROVE  norm' = norm
<1>1. CASE \E c \in Commands : Start(c) \/ Exit(c) \/ Kill(c) \/ ConnStep(c)
  BY <1>1 DEF Start, Exit, Kill, Leave, ConnStep, Enqueue, Read, Close, ingestVars
<1>2. CASE \E a \in Actors : ActorStep(a)
  BY <1>2 DEF ActorStep, Locked, Pop, RunEnds, ingestVars
<1>3. CASE Receive \/ Finish
  BY <1>3 DEF Receive, Finish
<1>4. CASE \E h \in Checkpoints : Request(h) \/ RequestStep(h)
  BY <1>4 DEF Request, RequestStep, Passed, TimesOut, Respond, ingestVars
<1>5. CASE Sweep \/ Shutdown \/ ProcessExit \/ UNCHANGED vars
  BY <1>5 DEF Sweep, Shutdown, ProcessExit, vars, ingestVars
<1> QED BY <1>1, <1>2, <1>3, <1>4, <1>5 DEF Next, WorkerStep, Take

\* norm of the command of a payload that is taken.
LEMMA TakeNorm ==
  ASSUME TypeInv, NEW p \in buffer, Take(p), p.cmd \in Commands
  PROVE  /\ \A d \in Commands \ {p.cmd} : norm'[d] = norm[d]
         /\ p.ev = "start" => norm'[p.cmd] = "pending"
         /\ p.ev # "start" /\ norm[p.cmd] = "pending" =>
              \/ norm'[p.cmd] = "completed" /\ TakeEnd(p)
              \/ norm'[p.cmd] = "failed" /\ p.cmd \in Mutating /\ TakeEndFails(p)
         /\ p.ev # "start" /\ norm[p.cmd] # "pending" => norm' = norm /\ TakeLateEnd(p)
<1>1. norm \in [Commands -> {"none", "pending", "completed", "failed"}]
  BY DEF TypeInv
<1>2. CASE TakeStart(p)
  <2>1. norm' = [norm EXCEPT ![p.cmd] = "pending"] /\ p.ev = "start"
    BY <1>2 DEF TakeStart
  <2> QED BY <1>1, <2>1
<1>3. CASE TakeEnd(p)
  <2>1. norm' = [norm EXCEPT ![p.cmd] = "completed"] /\ p.ev # "start" /\ norm[p.cmd] = "pending"
    BY <1>3 DEF TakeEnd, Finalizes
  <2> QED BY <1>1, <1>3, <2>1
<1>4. CASE TakeEndFails(p)
  <2>1. norm' = [norm EXCEPT ![p.cmd] = "failed"] /\ p.ev # "start" /\ norm[p.cmd] = "pending"
        /\ p.cmd \in Mutating
    BY <1>4 DEF TakeEndFails, Finalizes
  <2> QED BY <1>1, <1>4, <2>1
<1>5. CASE TakeLateEnd(p)
  BY <1>5 DEF TakeLateEnd
<1> QED BY <1>2, <1>3, <1>4, <1>5 DEF Take

\* Every step keeps the normalizer's knowledge in line with the numbers taken.
LEMMA NextKnown ==
  TypeInv /\ TypeInv' /\ Dialogue /\ Distinct /\ Numbered /\ Known /\ [Next]_vars => Known'
<1> SUFFICES ASSUME TypeInv, TypeInv', Dialogue, Distinct, Numbered, Known, [Next]_vars PROVE Known'
  OBVIOUS
<1>0. /\ nextSeq \in Nat /\ due \in Nat /\ NextTaken \in Nat
      /\ \A c \in Commands : seqOf[c].start \in Nat /\ seqOf[c].end \in Nat
  BY DEF TypeInv, Seqs, NextTaken
<1>1. CASE ~\E p \in buffer : Take(p)
  <2>1. NextTaken' = NextTaken /\ norm' = norm /\ NextTaken <= nextSeq + 1
    BY <1>1, TakenStays, NormStays DEF Numbered
  <2>2. \A c \in Commands :
          /\ seqOf'[c].start = seqOf[c].start \/ (seqOf[c].start = 0 /\ NextTaken <= seqOf'[c].start)
          /\ seqOf'[c].end = seqOf[c].end \/ (seqOf[c].end = 0 /\ NextTaken <= seqOf'[c].end)
    BY <1>0, <2>1, NotesMove
  <2> QED BY <1>0, <2>1, <2>2 DEF Known
<1>2. ASSUME NEW p \in buffer, Take(p) PROVE Known'
  <2> DEFINE c == p.cmd
  <2>1. NextTaken = due /\ NextTaken' = due + 1 /\ seqOf' = seqOf
    BY <1>2, TakeMoves
  <2>2. /\ c \in Commands
        /\ p.ev = "start" => seqOf[c].start = due
        /\ p.ev # "start" => /\ norm[c] # "none" /\ seqOf[c].start < due
                             /\ seqOf[c].end # 0 /\ seqOf[c].end <= due
        /\ \A d \in Commands : seqOf[d].start = due => d = c /\ p.ev = "start"
        /\ \A d \in Commands : seqOf[d].end = due => d = c /\ p.ev # "start"
    BY <1>2, TakeKnows
  <2>3. ASSUME NEW d \in Commands \ {c}
        PROVE  /\ norm'[d] = norm[d]
               /\ seqOf[d].start # 0 => (NextTaken <= seqOf[d].start <=> NextTaken' <= seqOf[d].start)
               /\ seqOf[d].end # 0 => (NextTaken <= seqOf[d].end <=> NextTaken' <= seqOf[d].end)
    <3>1. norm'[d] = norm[d]
      BY <1>2, <2>2, TakeNorm
    <3>2. seqOf[d].start # due /\ seqOf[d].end # due
      BY <2>2
    <3> QED BY <1>0, <2>1, <3>1, <3>2
  <2>4. CASE p.ev = "start"
    <3>1. norm'[c] = "pending"
      BY <1>2, <2>2, <2>4, TakeNorm
    <3>2. seqOf[c].start = due /\ (seqOf[c].end # 0 => due < seqOf[c].end) /\ seqOf[c].start # 0
      <4>1. due # 0 /\ Talk(c)
        BY <2>2 DEF TypeInv, Dialogue
      <4> QED BY <2>2, <2>4, <4>1 DEF Talk
    <3>3. /\ ~(NextTaken' <= seqOf[c].start)
          /\ seqOf[c].end = 0 \/ NextTaken' <= seqOf[c].end
      BY <1>0, <2>1, <2>2, <3>2
    <3> HIDE DEF c
    <3>4. ASSUME NEW d \in Commands, d # c
          PROVE /\ norm'[d] = "none" <=> seqOf'[d].start = 0 \/ NextTaken' <= seqOf'[d].start
                /\ norm'[d] = "pending" => seqOf'[d].end = 0 \/ NextTaken' <= seqOf'[d].end
                /\ norm'[d] \in {"completed", "failed"} => seqOf'[d].end # 0 /\ seqOf'[d].end < NextTaken'
                /\ norm'[d] = "failed" => d \in Mutating
      BY <1>0, <2>1, <2>3, <3>4 DEF Known
    <3> QED BY <1>0, <2>1, <3>1, <3>2, <3>3, <3>4 DEF Known
  <2>5. CASE p.ev # "start"
    <3>1. /\ norm[c] = "pending" => norm'[c] = "completed" \/ (norm'[c] = "failed" /\ c \in Mutating)
          /\ norm[c] # "pending" => norm'[c] = norm[c]
      BY <1>2, <2>2, <2>5, TakeNorm
    <3>2. seqOf[c].start # 0
      BY <1>0, <2>2, <2>5 DEF Dialogue, Talk
    <3> HIDE DEF c
    <3>3. /\ norm'[c] # "none" /\ norm'[c] # "pending"
          /\ norm'[c] = "failed" => c \in Mutating
      BY <2>2, <2>5, <3>1 DEF Known
    <3>4. seqOf[c].start < NextTaken' /\ seqOf[c].end # 0 /\ seqOf[c].end < NextTaken'
      BY <1>0, <2>1, <2>2, <2>5
    <3>5. ASSUME NEW d \in Commands, d # c
          PROVE /\ norm'[d] = "none" <=> seqOf'[d].start = 0 \/ NextTaken' <= seqOf'[d].start
                /\ norm'[d] = "pending" => seqOf'[d].end = 0 \/ NextTaken' <= seqOf'[d].end
                /\ norm'[d] \in {"completed", "failed"} => seqOf'[d].end # 0 /\ seqOf'[d].end < NextTaken'
                /\ norm'[d] = "failed" => d \in Mutating
      BY <1>0, <2>1, <2>3, <3>5 DEF Known
    <3> QED BY <1>0, <2>1, <3>2, <3>3, <3>4, <3>5 DEF Known
  <2> QED BY <2>4, <2>5
<1> QED BY <1>1, <1>2

(***************************************************************************)
(* Where an effect that has not been run is kept                            *)
(***************************************************************************)
\* What an actor has taken and not finished; that the worker is about to use c's slot.
Todo(a) == task[a].todo
AtLock(c) == At(Worker, "lock") /\ task[Worker].cmd = c
Appended == {"pop", "run", "respond", "done"}

\* Only an actor that runs has something left to do.
TodoWhileRunning == \A a \in Actors : Todo(a) # {} <=> At(a, "run")
\* A slot is held from the start of a command until its end was put in its entry.
SlotsHeld ==
  /\ At(Worker, "lock") => /\ task[Worker].cmd \notin slots
                           /\ norm[task[Worker].cmd] = IF task[Worker].put = "ready" THEN "completed" ELSE "failed"
  /\ \A c \in Slotted : /\ Slot(c) \in entries <=> c \in slots \/ AtLock(c)
                        /\ norm[c] = "pending" => c \in slots
                        /\ c \in slots => norm[c] \in {"pending", "failed"}
\* An item has one entry, which says what the normalizer knows, and was not run.
EntriesFresh ==
  \A e \in entries :
    /\ \A f \in entries : e.item = f.item => e = f
    /\ e.is = "pending" => e.item \in Slotted /\ e = Slot(e.item)
    /\ e.item \in Slotted => /\ e.at = git[e.item].at /\ norm[e.item] # "none"
                             /\ e.is = "ready" => norm[e.item] = "completed"
                             /\ e.is = "canceled" => norm[e.item] = "failed"
    /\ e.item \in Checkpoints => e.is = "ready"
    /\ e.item \notin RanItems
    /\ \A a \in Actors : \A f \in Todo(a) : f.item # e.item
\* Of what an actor has taken, only the first has begun.
TodoFresh ==
  \A a \in Actors : \A e \in Todo(a) :
    /\ e.is = "ready"
    /\ e.item \in Slotted => norm[e.item] = "completed" /\ e.at = git[e.item].at
    /\ e.item \in RanItems <=> e = First(Todo(a))
    /\ \A b \in Actors : \A f \in Todo(b) : e.item = f.item => a = b /\ e = f
RanKnown == \A x \in RanItems \cap Commands : norm[x] = "completed"
\* A request is in the sequencer, or was, once it has passed the lock.
RequestsAppended ==
  \A h \in Checkpoints :
    \/ h \in RanItems
    \/ \E e \in entries : e.item = h
    \/ \E a \in Actors : \E e \in Todo(a) : e.item = h
    => task[h].pc \in Appended
\* Every effect has one place, and one only.
PlaceInv ==
  TodoWhileRunning /\ SlotsHeld /\ EntriesFresh /\ TodoFresh /\ RanKnown /\ RequestsAppended /\ RunsOnce

\* Basis for the steps below.
Base == TypeInv /\ Dialogue /\ Distinct /\ Numbered /\ Known

\* The slot of a started command keeps its time.
LEMMA StartedStays ==
  ASSUME Base, [Next]_vars, NEW c \in Slotted, norm[c] # "none"
  PROVE  git'[c].at = git[c].at /\ Slot(c)' = Slot(c)
<1>1. c \in Commands
  BY DaemonSequencerAssumption
<1>2. seqOf[c].start # 0 /\ Talk(c)
  BY <1>1 DEF Base, Known, Dialogue
<1>3. git[c].phase # "new"
  BY <1>2 DEF Talk
<1> QED BY <1>1, <1>3, GitMoves DEF Base, Slot

\* Steps that leave entries, slots, what was taken and what was run alone.
LEMMA QuietPlaces ==
  ASSUME Base, PlaceInv, [Next]_vars, UNCHANGED <<entries, slots, norm, ran>>,
         \A a \in Actors : task'[a].todo = task[a].todo /\ (At(a, "run")' <=> At(a, "run")),
         At(Worker, "lock")' <=> At(Worker, "lock"),
         At(Worker, "lock") => task'[Worker].cmd = task[Worker].cmd /\ task'[Worker].put = task[Worker].put,
         \A h \in Checkpoints : task[h].pc \in Appended => task'[h].pc \in Appended
  PROVE  PlaceInv'
<1>0. \A c \in Slotted : norm[c] # "none" => git'[c].at = git[c].at /\ Slot(c)' = Slot(c)
  BY StartedStays
<1>1. TodoWhileRunning' /\ RanKnown' /\ RunsOnce'
  BY DEF PlaceInv, TodoWhileRunning, Todo, RanKnown, RunsOnce, RanItems
<1>2. SlotsHeld'
  <2>1. ASSUME NEW c \in Slotted PROVE Slot(c)' \in entries <=> c \in slots \/ AtLock(c)
    <3>1. CASE norm[c] # "none"
      BY <1>0, <3>1 DEF PlaceInv, SlotsHeld
    <3>2. CASE norm[c] = "none"
      <4>1. ~(c \in slots \/ AtLock(c))
        BY <3>2 DEF PlaceInv, SlotsHeld, AtLock
      <4>2. Slot(c)'.item = c
        BY DEF Slot
      <4> QED BY <3>2, <4>1, <4>2 DEF PlaceInv, EntriesFresh
    <3> QED BY <3>1, <3>2
  <2>2. \A c : AtLock(c)' <=> AtLock(c)
    BY DEF AtLock
  <2> QED BY <2>1, <2>2 DEF PlaceInv, SlotsHeld
<1>3. EntriesFresh'
  BY <1>0 DEF PlaceInv, EntriesFresh, RanItems, Todo
<1>4. TodoFresh'
  BY <1>0 DEF PlaceInv, TodoFresh, RanItems, Todo
<1>5. RequestsAppended'
  BY DEF PlaceInv, RequestsAppended, RanItems, Todo
<1> QED BY <1>1, <1>2, <1>3, <1>4, <1>5 DEF PlaceInv

\* The actors' effects so far, after one more.
LEMMA RanGrows ==
  ASSUME TypeInv, NEW x \in Commands \cup Checkpoints, ran' = Append(ran, x)
  PROVE  /\ RanItems' = RanItems \cup {x}
         /\ RunsOnce /\ x \notin RanItems => RunsOnce'
         /\ \A y, z : Before(y, z) => Before(y, z)'
         /\ \A y \in RanItems : Before(y, x)'
<1>1. /\ DOMAIN ran = 1..Len(ran) /\ Len(ran) \in Nat
      /\ DOMAIN ran' = 1..Len(ran) + 1
      /\ \A i \in DOMAIN ran : ran'[i] = ran[i]
      /\ ran'[Len(ran) + 1] = x
  BY QueueShape DEF TypeInv
<1>2. \A i \in DOMAIN ran' : i \in DOMAIN ran \/ i = Len(ran) + 1
  BY <1>1
<1>3. DOMAIN ran \subseteq DOMAIN ran' /\ Len(ran) + 1 \in DOMAIN ran' /\ \A i \in DOMAIN ran : i < Len(ran) + 1
  BY <1>1
<1>4. RanItems' = RanItems \cup {x}
  BY <1>1, <1>2, <1>3 DEF RanItems
<1>5. RunsOnce /\ x \notin RanItems => RunsOnce'
  BY <1>1, <1>2, <1>3 DEF RunsOnce, RanItems
<1>6. \A y, z : Before(y, z) => Before(y, z)'
  BY <1>1, <1>3 DEF Before
<1>7. \A y \in RanItems : Before(y, x)'
  BY <1>1, <1>3 DEF Before, RanItems
<1> QED BY <1>4, <1>5, <1>6, <1>7

\* The steps that neither take a number nor run or move entries.
LEMMA QuietKeeps ==
  ASSUME TypeInv, TodoWhileRunning, [Next]_vars,
         ~\E a \in Actors : ActorStep(a), ~\E p \in buffer : Take(p)
  PROVE  /\ UNCHANGED <<entries, slots, norm, ran>>
         /\ \A a \in Actors : task'[a].todo = task[a].todo /\ (At(a, "run")' <=> At(a, "run"))
         /\ At(Worker, "lock")' <=> At(Worker, "lock")
         /\ At(Worker, "lock") => task'[Worker].cmd = task[Worker].cmd /\ task'[Worker].put = task[Worker].put
         /\ \A h \in Checkpoints : task[h].pc \in Appended => task'[h].pc \in Appended
<1>b. \A a \in Actors : task[a] \in Tasks /\ (~At(a, "run") => task[a].todo = {})
  BY DEF TypeInv, TodoWhileRunning, Todo
<1>1. CASE UNCHANGED <<task, entries, slots, norm, ran>>
  BY <1>1 DEF At
<1>2. CASE Receive
  <2>1. task' = task \/ task' = [task EXCEPT ![Worker].pc = "dead"]
    BY <1>2 DEF Receive
  <2>2. At(Worker, "off") /\ UNCHANGED <<entries, slots, norm, ran>>
    BY <1>2 DEF Receive, ingestVars
  <2>3. CASE task' = [task EXCEPT ![Worker].pc = "dead"]
    <3>1. /\ task'[Worker].pc = "dead" /\ task'[Worker].todo = task[Worker].todo
          /\ \A b \in Actors \ {Worker} : task'[b] = task[b]
      BY <2>3, PcWrites, ActorKinds DEF Pcs
    <3> QED BY <3>1, <2>2, ActorKinds DEF At, Appended
  <2> QED BY <2>1, <2>2, <2>3, <1>1
<1>3. CASE Finish
  <2>1. At(Worker, "finish") /\ UNCHANGED <<entries, slots, norm, ran>> /\ Done
    BY <1>3 DEF Finish
  <2>2. /\ task'[Worker].pc = "off" /\ task'[Worker].todo = {}
        /\ \A b \in Actors \ {Worker} : task'[b] = task[b]
    BY <2>1, DoneWrites
  <2> QED BY <2>1, <2>2, <1>b, ActorKinds DEF At, Appended
<1>4. CASE \E h \in Checkpoints : Request(h) \/ TimesOut(h) \/ Respond(h)
  <2>1. PICK h \in Checkpoints, pc \in {"wait", "failed", "done"} :
          /\ task' = [task EXCEPT ![h].pc = pc] /\ UNCHANGED <<entries, slots, norm, ran>>
          /\ \/ At(h, "off") \/ At(h, "wait")
             \/ At(h, "respond") /\ pc = "done"
    BY <1>4 DEF Request, TimesOut, Respond, ingestVars
  <2>2. /\ h \in Actors /\ h # Worker /\ pc \in Pcs
    BY ActorKinds DEF Pcs
  <2>3. /\ task'[h].pc = pc /\ task'[h].todo = task[h].todo
        /\ \A b \in Actors \ {h} : task'[b] = task[b]
    BY <2>1, <2>2, PcWrites
  <2> QED BY <2>1, <2>2, <2>3, ActorKinds DEF At, Appended
<1>5. CASE \E h \in Checkpoints : Passed(h)
  <2>1. PICK h \in Checkpoints : At(h, "wait") /\ UNCHANGED <<entries, slots, norm, ran>> /\ Clone(h, Worker, "none")
    BY <1>5 DEF Passed, ingestVars
  <2>2. /\ h \in Actors /\ h # Worker
    BY ActorKinds
  <2>3. /\ task'[h].pc = "lock" /\ task'[h].todo = {}
        /\ \A b \in Actors \ {h} : task'[b] = task[b]
    BY <2>1, <2>2, CloneWrites
  <2> QED BY <2>1, <2>2, <2>3, <1>b, ActorKinds DEF At, Appended
<1>6. CASE \E c \in Commands : Start(c) \/ Exit(c) \/ Kill(c) \/ ConnStep(c)
  BY <1>6, <1>1 DEF Start, Exit, Kill, Leave, ConnStep, Read, Enqueue, Close, ingestVars, inVars
<1>7. CASE Sweep \/ Shutdown \/ ProcessExit \/ UNCHANGED vars
  BY <1>7, <1>1 DEF Sweep, Shutdown, ProcessExit, vars, ingestVars
<1> QED BY <1>1, <1>2, <1>3, <1>4, <1>5, <1>6, <1>7 DEF Next, WorkerStep, RequestStep, Take

\* They keep the places.
LEMMA QuietStep ==
  ASSUME Base, PlaceInv, [Next]_vars,
         ~\E a \in Actors : ActorStep(a), ~\E p \in buffer : Take(p)
  PROVE  PlaceInv'
<1>1. TypeInv /\ TodoWhileRunning
  BY DEF Base, PlaceInv
<1> QED BY <1>1, QuietKeeps, QuietPlaces

\* The lock is given: to the worker for a command's slot, to a request for its entry.
LEMMA LockedPlaces ==
  ASSUME Base, PlaceInv, NEW a \in Actors, Locked(a)
  PROVE  PlaceInv'
<1>a. TypeInv /\ task[a] \in Tasks /\ a \in Actors
  BY DEF Base, TypeInv
<1>b. /\ UNCHANGED <<git, slots, norm, ran>> /\ At(a, "lock")
  BY DEF Locked, gitVars, ingestVars
<1>c. /\ task'[a].pc = "pop" /\ task'[a].todo = task[a].todo /\ task[a].todo = {}
      /\ \A b \in Actors \ {a} : task'[b] = task[b]
  BY <1>a, <1>b, PcWrites DEF Locked, Pcs, PlaceInv, TodoWhileRunning, Todo, At
<1>1. \A b \in Actors : task'[b].todo = task[b].todo
  BY <1>c
<1>2. TodoWhileRunning' /\ TodoFresh' /\ RanKnown' /\ RunsOnce'
  <2>1. TodoWhileRunning'
    BY <1>1, <1>c DEF PlaceInv, TodoWhileRunning, Todo, At
  <2>2. TodoFresh'
    BY <1>1, <1>b DEF PlaceInv, TodoFresh, Todo, RanItems
  <2> QED BY <2>1, <2>2, <1>b DEF PlaceInv, RanKnown, RunsOnce, RanItems
<1>3. \A c : Slot(c)' = Slot(c)
  BY <1>b DEF Slot
<1>4. CASE a = Worker
  <2> DEFINE c == task[Worker].cmd
             new == [Slot(c) EXCEPT !.is = task[Worker].put]
  <2>1. /\ c \in Slotted /\ task[Worker].put \in {"ready", "canceled"} /\ Slot(c) \in entries
        /\ norm[c] = IF task[Worker].put = "ready" THEN "completed" ELSE "failed"
    BY <1>4, <1>a, <1>b DEF PlaceInv, SlotsHeld, AtLock, TypeInv, Tasks
  <2>2. entries' = (entries \ {Slot(c)}) \cup {new}
    BY <1>4 DEF Locked
  <2>3. new.item = c /\ new.at = git[c].at /\ new.is = task[Worker].put /\ Slot(c).item = c
    BY DEF Slot
  <2>4. /\ \A e \in entries \ {Slot(c)} : e.item # c
        /\ c \notin RanItems /\ \A b \in Actors : \A f \in Todo(b) : f.item # c
    BY <2>1, <2>3 DEF PlaceInv, EntriesFresh
  <2>5. SlotsHeld'
    <3>1. ~At(Worker, "lock")' /\ c \notin slots
      BY <1>4, <1>b, <1>c DEF At, PlaceInv, SlotsHeld
    <3>2. \A d \in Slotted : Slot(d)' \in entries' <=> d \in slots'
      <4>1. Slot(c) \notin entries'
        BY <2>1, <2>2, <2>3 DEF Slot
      <4>2. ASSUME NEW d \in Slotted, d # c PROVE Slot(d) \in entries' <=> d \in slots
        BY <4>2, <2>2, <2>3 DEF Slot, PlaceInv, SlotsHeld, AtLock
      <4> QED BY <4>1, <4>2, <3>1, <1>3, <1>b
    <3> QED BY <3>1, <3>2, <1>b DEF SlotsHeld, PlaceInv, AtLock
  <2>6. EntriesFresh'
    <3>1. ASSUME NEW e \in entries', NEW f \in entries', e.item = f.item PROVE e = f
      BY <3>1, <2>2, <2>3, <2>4 DEF PlaceInv, EntriesFresh
    <3>2. ASSUME NEW e \in entries', e # new
          PROVE  /\ e \in entries
      BY <3>2, <2>2
    <3>3. c \notin Checkpoints
      BY <2>1
    <3> DEFINE Fresh(e) ==
           /\ e.is = "pending" => e.item \in Slotted /\ e = Slot(e.item)
           /\ e.item \in Slotted => /\ e.at = git[e.item].at /\ norm[e.item] # "none"
                                    /\ e.is = "ready" => norm[e.item] = "completed"
                                    /\ e.is = "canceled" => norm[e.item] = "failed"
           /\ e.item \in Checkpoints => e.is = "ready"
           /\ e.item \notin RanItems
           /\ \A b \in Actors : \A f \in Todo(b) : f.item # e.item
    <3>4. Fresh(new)
      BY <2>1, <2>3, <2>4, <3>3
    <3>5. \A e \in entries : Fresh(e)
      BY DEF PlaceInv, EntriesFresh
    <3>6. \A e \in entries' : Fresh(e)
      BY <3>2, <3>4, <3>5
    <3>7. /\ RanItems' = RanItems /\ \A b \in Actors : Todo(b)' = Todo(b)
      BY <1>1, <1>b DEF RanItems, Todo
    <3> QED BY <3>1, <3>6, <3>7, <1>3, <1>b DEF EntriesFresh
  <2>7. RequestsAppended'
    <3>1. \A h \in Checkpoints : h # a /\ h # c
      BY <1>4, <2>1, ActorKinds
    <3>2. \A h \in Checkpoints : (\E e \in entries' : e.item = h) => \E e \in entries : e.item = h
      BY <2>2, <2>3, <3>1
    <3> QED BY <3>1, <3>2, <1>1, <1>b, <1>c, ActorKinds DEF PlaceInv, RequestsAppended, RanItems, Todo, Appended
  <2> QED BY <1>2, <2>5, <2>6, <2>7 DEF PlaceInv
<1>5. CASE a # Worker
  <2> DEFINE new == [at |-> clock + 1, item |-> a, is |-> "ready"]
  <2>1. a \in Checkpoints /\ a \notin Slotted /\ entries' = entries \cup {new}
    BY <1>5, <1>a DEF Locked, Actors
  <2>3. new.item = a /\ new.at = clock + 1 /\ new.is = "ready"
    OBVIOUS
  <2>4. /\ \A e \in entries : e.item # a
        /\ a \notin RanItems /\ \A b \in Actors : \A f \in Todo(b) : f.item # a
    BY <2>1, <1>b DEF PlaceInv, RequestsAppended, Appended, At
  <2>5. SlotsHeld'
    <3>1. task'[Worker] = task[Worker]
      BY <1>5, <1>c, ActorKinds
    <3>2. \A d \in Slotted : Slot(d)' \in entries' <=> Slot(d) \in entries
      BY <2>1, <2>3, <1>3 DEF Slot
    <3> QED BY <3>1, <3>2, <1>b DEF SlotsHeld, PlaceInv, AtLock, At
  <2>6. EntriesFresh'
    <3>1. ASSUME NEW e \in entries', NEW f \in entries', e.item = f.item PROVE e = f
      BY <3>1, <2>1, <2>3, <2>4 DEF PlaceInv, EntriesFresh
    <3>2. ASSUME NEW e \in entries', e # new
          PROVE  /\ e \in entries
      BY <3>2, <2>1
    <3> QED BY <3>1, <3>2, <2>1, <2>3, <2>4, <1>1, <1>3, <1>b DEF PlaceInv, EntriesFresh, RanItems, Todo
  <2>7. RequestsAppended'
    <3>2. \A h \in Checkpoints : (\E e \in entries' : e.item = h) => h = a \/ \E e \in entries : e.item = h
      BY <2>1, <2>3
    <3> QED BY <3>2, <1>1, <1>b, <1>c, ActorKinds DEF PlaceInv, RequestsAppended, RanItems, Todo, Appended
  <2> QED BY <1>2, <2>5, <2>6, <2>7 DEF PlaceInv
<1> QED BY <1>4, <1>5

\* What is taken from the sequencer: everything up to the first pending entry.
LEMMA PopPlaces ==
  ASSUME Base, PlaceInv, NEW a \in Actors, Pop(a)
  PROVE  PlaceInv'
<1> DEFINE ready == {e \in entries : \A o \in entries : o.is = "pending" => e.at < o.at}
           T == {e \in ready : e.is = "ready"}
<1>a. TypeInv /\ task[a] \in Tasks /\ At(a, "pop") /\ UNCHANGED <<git, slots, norm>>
  BY DEF Base, TypeInv, Pop, gitVars, ingestVars
<1>b. entries' = entries \ ready /\ Begin(a, T) /\ T \in SUBSET Entries
  BY <1>a DEF Pop, TypeInv
<1>c. /\ task'[a].todo = T /\ \A b \in Actors \ {a} : task'[b] = task[b]
      /\ task'[a].pc \in {"run", "finish", "respond", "done"} /\ (task'[a].pc = "run" <=> T # {})
      /\ a # Worker => task'[a].pc \in Appended
  BY <1>a, <1>b, BeginWrites DEF Appended
<1>d. \/ T = {} /\ ran' = ran
      \/ T # {} /\ First(T) \in T /\ ran' = Append(ran, First(T).item)
  BY <1>a, <1>b, BeginWrites
<1>e. \A e \in T : e \in entries /\ e.is = "ready" /\ e \notin entries' /\ e.item \in Commands \cup Checkpoints
                   /\ e.item \notin RanItems
                   /\ (e.item \in Commands => e.item \in Slotted /\ norm[e.item] = "completed")
  BY <1>a, <1>b DEF TypeInv, Entries, PlaceInv, EntriesFresh
<1>f. /\ T = {} => RanItems' = RanItems
      /\ T # {} => RanItems' = RanItems \cup {First(T).item} /\ First(T) \in T
      /\ RunsOnce'
  <2>1. CASE T = {}
    BY <1>d, <2>1 DEF RanItems, RunsOnce, PlaceInv
  <2>2. CASE T # {}
    <3>1. /\ ran' = Append(ran, First(T).item) /\ First(T).item \notin RanItems
          /\ First(T).item \in Commands \cup Checkpoints /\ First(T) \in T
      BY <1>d, <1>e, <2>2
    <3> QED BY <3>1, <1>a, <2>2, RanGrows DEF PlaceInv
  <2> QED BY <2>1, <2>2
<1>g. \A c : Slot(c)' = Slot(c)
  BY <1>a DEF Slot
<1>h. \A e \in entries, f \in entries : e.item = f.item => e = f
  BY DEF PlaceInv, EntriesFresh
<1>1. TodoWhileRunning'
  BY <1>c DEF TodoWhileRunning, PlaceInv, Todo, At
<1>2. SlotsHeld'
  <2>1. \A d \in Slotted : Slot(d) \in entries' <=> Slot(d) \in entries
    <3>1. ASSUME NEW d \in Slotted, Slot(d) \in entries PROVE Slot(d) \notin ready
      <4>1. Slot(d) \in Entries /\ Slot(d).is = "pending" /\ Slot(d).at \in Nat
        BY <3>1, <1>a, SlotTyped DEF Slot, Entries
      <4> QED BY <4>1, <3>1
    <3> QED BY <3>1, <1>b
  <2>2. \A d : AtLock(d)' <=> AtLock(d)
    BY <1>a, <1>c, ActorKinds DEF AtLock, At
  <2>3. At(Worker, "lock")' <=> At(Worker, "lock")
    BY <1>a, <1>c, ActorKinds DEF At
  <2>4. At(Worker, "lock") => task'[Worker] = task[Worker]
    BY <1>a, <1>c, ActorKinds DEF At
  <2> QED BY <2>1, <2>2, <2>3, <2>4, <1>a, <1>g DEF PlaceInv, SlotsHeld
<1> HIDE DEF T
<1>3. EntriesFresh'
  <2> SUFFICES ASSUME NEW e \in entries' PROVE
        /\ \A f \in entries' : e.item = f.item => e = f
        /\ e.is = "pending" => e.item \in Slotted /\ e = Slot(e.item)
        /\ e.item \in Slotted => /\ e.at = git[e.item].at /\ norm[e.item] # "none"
                                 /\ e.is = "ready" => norm[e.item] = "completed"
                                 /\ e.is = "canceled" => norm[e.item] = "failed"
        /\ e.item \in Checkpoints => e.is = "ready"
        /\ e.item \notin RanItems'
        /\ \A b \in Actors : \A f \in Todo(b)' : f.item # e.item
    BY <1>a, <1>g DEF EntriesFresh, Slot
  <2>1. e \in entries /\ e \notin ready
    BY <1>b
  <2>2. \A f \in T : f.item # e.item
    BY <2>1, <1>e, <1>h
  <2>3. e.item \notin RanItems'
    BY <2>1, <2>2, <1>d, <1>f DEF PlaceInv, EntriesFresh
  <2>4. \A b \in Actors : \A f \in Todo(b)' : f.item # e.item
    BY <2>1, <2>2, <1>c DEF PlaceInv, EntriesFresh, Todo
  <2> QED BY <2>1, <2>3, <2>4, <1>b DEF PlaceInv, EntriesFresh
<1>4. TodoFresh'
  <2> SUFFICES ASSUME NEW b \in Actors, NEW e \in Todo(b)' PROVE
        /\ e.is = "ready"
        /\ e.item \in Slotted => norm[e.item] = "completed" /\ e.at = git[e.item].at
        /\ e.item \in RanItems' <=> e = First(Todo(b)')
        /\ \A d \in Actors : \A f \in Todo(d)' : e.item = f.item => b = d /\ e = f
    BY <1>a DEF TodoFresh, Todo, First
  <2>1. CASE b = a
    <3>1. e \in T /\ Todo(b)' = T
      BY <2>1, <1>c DEF Todo
    <3>2. e.item \in RanItems' <=> e = First(T)
      BY <3>1, <1>d, <1>e, <1>f, <1>h
    <3>3. \A d \in Actors : \A f \in Todo(d)' : e.item = f.item => b = d /\ e = f
      BY <3>1, <2>1, <1>c, <1>e, <1>h DEF PlaceInv, EntriesFresh, Todo
    <3> QED BY <3>1, <3>2, <3>3, <1>e DEF PlaceInv, EntriesFresh
  <2>2. CASE b # a
    <3>1. e \in Todo(b) /\ Todo(b)' = Todo(b)
      BY <2>2, <1>c DEF Todo
    <3>2. \A f \in T : f.item # e.item
      BY <3>1, <1>e DEF PlaceInv, EntriesFresh
    <3>3. e.item \in RanItems' <=> e = First(Todo(b))
      BY <3>1, <3>2, <1>d, <1>f DEF PlaceInv, TodoFresh
    <3>4. \A d \in Actors : \A f \in Todo(d)' : e.item = f.item => b = d /\ e = f
      BY <3>1, <3>2, <2>2, <1>c DEF PlaceInv, TodoFresh, Todo
    <3> QED BY <3>1, <3>3, <3>4 DEF PlaceInv, TodoFresh
  <2> QED BY <2>1, <2>2
<1>5. RanKnown'
  <2>1. \A x \in RanItems' : x \in RanItems \/ (T # {} /\ First(T) \in T /\ x = First(T).item)
    BY <1>f
  <2> QED BY <2>1, <1>a, <1>e DEF PlaceInv, RanKnown
<1>6. RequestsAppended'
  <2> SUFFICES ASSUME NEW h \in Checkpoints,
               \/ h \in RanItems' \/ (\E e \in entries' : e.item = h)
               \/ \E b \in Actors : \E e \in Todo(b)' : e.item = h
               PROVE task'[h].pc \in Appended
    BY DEF RequestsAppended
  <2>1. \/ h \in RanItems \/ (\E e \in entries : e.item = h)
        \/ \E b \in Actors : \E e \in Todo(b) : e.item = h
    BY <1>b, <1>c, <1>d, <1>e, <1>f DEF Todo
  <2>2. task[h].pc \in Appended
    BY <2>1 DEF PlaceInv, RequestsAppended
  <2> QED BY <2>2, <1>c, ActorKinds
<1> QED BY <1>1, <1>2, <1>3, <1>4, <1>5, <1>6, <1>f DEF PlaceInv

\* An effect is over; the next one that was taken begins.
LEMMA RunEndsPlaces ==
  ASSUME Base, PlaceInv, NEW a \in Actors, RunEnds(a)
  PROVE  PlaceInv'
<1> DEFINE old == task[a].todo
           T == old \ {First(old)}
<1>a. TypeInv /\ task[a] \in Tasks /\ At(a, "run") /\ UNCHANGED <<git, slots, norm, entries>>
  BY DEF Base, TypeInv, RunEnds, gitVars, ingestVars
<1>b. Begin(a, T) /\ T \in SUBSET Entries /\ old \in SUBSET Entries
  BY <1>a DEF RunEnds, TypeInv, Tasks
<1>c. /\ task'[a].todo = T /\ \A b \in Actors \ {a} : task'[b] = task[b]
      /\ task'[a].pc \in {"run", "finish", "respond", "done"} /\ (task'[a].pc = "run" <=> T # {})
      /\ a # Worker => task'[a].pc \in Appended
  BY <1>a, <1>b, BeginWrites DEF Appended
<1>d. \/ T = {} /\ ran' = ran
      \/ T # {} /\ First(T) \in T /\ ran' = Append(ran, First(T).item)
  BY <1>a, <1>b, BeginWrites
<1>e. \A e \in T : e \in Todo(a) /\ e.is = "ready" /\ e.item \in Commands \cup Checkpoints
                   /\ e.item \notin RanItems
                   /\ (e.item \in Commands => e.item \in Slotted /\ norm[e.item] = "completed")
  BY <1>a, <1>b DEF TypeInv, Entries, PlaceInv, TodoFresh, Todo
<1>f. /\ T = {} => RanItems' = RanItems
      /\ T # {} => RanItems' = RanItems \cup {First(T).item} /\ First(T) \in T
      /\ RunsOnce'
  <2>1. CASE T = {}
    BY <1>d, <2>1 DEF RanItems, RunsOnce, PlaceInv
  <2>2. CASE T # {}
    <3>1. /\ ran' = Append(ran, First(T).item) /\ First(T).item \notin RanItems
          /\ First(T).item \in Commands \cup Checkpoints /\ First(T) \in T
      BY <1>d, <1>e, <2>2
    <3> QED BY <3>1, <1>a, <2>2, RanGrows DEF PlaceInv
  <2> QED BY <2>1, <2>2
<1>g. \A c : Slot(c)' = Slot(c)
  BY <1>a DEF Slot
<1>h. \A b, d \in Actors : \A e \in Todo(b), f \in Todo(d) : e.item = f.item => b = d /\ e = f
  BY DEF PlaceInv, TodoFresh
<1>i. \A b \in Actors : Todo(b)' \subseteq Todo(b)
  BY <1>c DEF Todo
<1> HIDE DEF T
<1>1. TodoWhileRunning'
  BY <1>c DEF TodoWhileRunning, PlaceInv, Todo, At
<1>2. SlotsHeld'
  <2>2. \A d : AtLock(d)' <=> AtLock(d)
    BY <1>a, <1>c, ActorKinds DEF AtLock, At
  <2>3. At(Worker, "lock")' <=> At(Worker, "lock")
    BY <1>a, <1>c, ActorKinds DEF At
  <2>4. At(Worker, "lock") => task'[Worker] = task[Worker]
    BY <1>a, <1>c, ActorKinds DEF At
  <2> QED BY <2>2, <2>3, <2>4, <1>a, <1>g DEF PlaceInv, SlotsHeld
<1>3. EntriesFresh'
  <2>1. \A e \in entries : e.item \notin RanItems'
    <3>1. \A e \in entries, f \in T : e.item # f.item
      BY <1>e DEF PlaceInv, EntriesFresh
    <3> QED BY <3>1, <1>f DEF PlaceInv, EntriesFresh
  <2> QED BY <2>1, <1>a, <1>g, <1>i DEF PlaceInv, EntriesFresh
<1>4. TodoFresh'
  <2> SUFFICES ASSUME NEW b \in Actors, NEW e \in Todo(b)' PROVE
        /\ e.is = "ready"
        /\ e.item \in Slotted => norm[e.item] = "completed" /\ e.at = git[e.item].at
        /\ e.item \in RanItems' <=> e = First(Todo(b)')
        /\ \A d \in Actors : \A f \in Todo(d)' : e.item = f.item => b = d /\ e = f
    BY <1>a DEF TodoFresh, Todo, First
  <2>0. e \in Todo(b)
    BY <1>i
  <2>1. CASE b = a
    <3>1. e \in T /\ Todo(b)' = T
      BY <2>1, <1>c DEF Todo
    <3>2. e.item \in RanItems' <=> e = First(T)
      <4>1. e \in Todo(a) /\ e.item \notin RanItems /\ T # {} /\ First(T) \in Todo(a)
        BY <3>1, <1>e, <1>f
      <4>2. e.item \in RanItems' <=> e.item = First(T).item
        BY <4>1, <1>f
      <4> QED BY <4>1, <4>2, <1>h
    <3> QED BY <2>0, <3>1, <3>2, <1>h, <1>i DEF PlaceInv, TodoFresh
  <2>2. CASE b # a
    <3>1. Todo(b)' = Todo(b)
      BY <2>2, <1>c DEF Todo
    <3>2. \A f \in T : f.item # e.item
      BY <2>0, <2>2, <1>e, <1>h
    <3>3. e.item \in RanItems' <=> e = First(Todo(b))
      BY <2>0, <3>2, <1>d, <1>f DEF PlaceInv, TodoFresh
    <3> QED BY <2>0, <3>1, <3>3, <1>h, <1>i DEF PlaceInv, TodoFresh
  <2> QED BY <2>1, <2>2
<1>5. RanKnown'
  <2>1. \A x \in RanItems' : x \in RanItems \/ (T # {} /\ First(T) \in T /\ x = First(T).item)
    BY <1>f
  <2> QED BY <2>1, <1>a, <1>e DEF PlaceInv, RanKnown
<1>6. RequestsAppended'
  <2> SUFFICES ASSUME NEW h \in Checkpoints,
               \/ h \in RanItems' \/ (\E e \in entries' : e.item = h)
               \/ \E b \in Actors : \E e \in Todo(b)' : e.item = h
               PROVE task'[h].pc \in Appended
    BY DEF RequestsAppended
  <2>1. \/ h \in RanItems \/ (\E e \in entries : e.item = h)
        \/ \E b \in Actors : \E e \in Todo(b) : e.item = h
    BY <1>a, <1>i, <1>d, <1>e, <1>f
  <2>2. task[h].pc \in Appended
    BY <2>1 DEF PlaceInv, RequestsAppended
  <2> QED BY <2>2, <1>c, ActorKinds
<1> QED BY <1>1, <1>2, <1>3, <1>4, <1>5, <1>6, <1>f DEF PlaceInv

\* Entries, what was taken, and effects are those of other commands than the one
\* whose number the worker takes, if only that command's knowledge changes.
LEMMA TakenPlaces ==
  ASSUME Base, PlaceInv, NEW p \in buffer, Take(p)
  PROVE  /\ p.cmd \in Commands /\ git' = git /\ At(Worker, "off")
         /\ TodoWhileRunning' /\ RunsOnce' /\ RequestsAppended' /\ ~At(Worker, "run")'
         /\ \A a \in Actors : Todo(a)' = Todo(a)
         /\ ran' = ran \/ (norm[p.cmd] = "pending" /\ norm'[p.cmd] = "completed" /\ p.cmd \notin Slotted
                           /\ RanItems' = RanItems \cup {p.cmd})
<1> DEFINE c == p.cmd
<1>a. TypeInv /\ p \in Flight /\ c \in Commands /\ c \notin Checkpoints
  BY TakeKnows DEF Base
<1>b. At(Worker, "off") /\ git' = git
  BY DEF Take, TakeStart, TakeEnd, TakeEndFails, TakeLateEnd, Takes, gitVars
<1>c. /\ \A b \in Actors \ {Worker} : task'[b] = task[b]
      /\ task'[Worker].todo = {} /\ task[Worker].todo = {} /\ task'[Worker].pc \in {"off", "lock", "finish"}
  <2>0. task[Worker].todo = {}
    BY <1>b, ActorKinds DEF PlaceInv, TodoWhileRunning, Todo, At
  <2>1. CASE Done
    BY <2>0, <2>1, <1>a, DoneWrites
  <2>2. CASE Clone(Worker, c, "ready") \/ Clone(Worker, c, "canceled")
    BY <2>0, <2>2, <1>a, CloneWrites, ActorKinds
  <2>3. CASE task' = [task EXCEPT ![Worker].pc = "finish", ![Worker].cmd = c]
    BY <2>0, <2>3, <1>a, ActorKinds DEF TypeInv, Tasks
  <2> QED BY <2>1, <2>2, <2>3 DEF Take, TakeStart, TakeEnd, TakeEndFails, TakeLateEnd
<1>d. \/ ran' = ran
      \/ ran' = Append(ran, c) /\ norm[c] = "pending" /\ norm'[c] = "completed" /\ c \notin slots
    BY <1>a DEF Take, TakeStart, TakeEnd, TakeEndFails, TakeLateEnd, Finalizes, TypeInv
<1>e. \A a \in Actors : Todo(a)' = Todo(a) /\ (At(a, "run")' <=> At(a, "run"))
  BY <1>b, <1>c DEF Todo, At
<1>1. RunsOnce' /\ (ran' = ran \/ (norm[c] = "pending" /\ norm'[c] = "completed" /\ c \notin Slotted
                                    /\ RanItems' = RanItems \cup {c}))
  <2>1. CASE ran' = ran
    BY <2>1 DEF PlaceInv, RunsOnce
  <2>2. CASE ran' = Append(ran, c) /\ norm[c] = "pending" /\ norm'[c] = "completed" /\ c \notin slots
    <3>1. c \notin RanItems /\ c \notin Slotted
      BY <2>2, <1>a DEF PlaceInv, RanKnown, SlotsHeld
    <3> QED BY <3>1, <2>2, <1>a, RanGrows DEF PlaceInv
  <2> QED BY <2>1, <2>2, <1>d
<1>2. TodoWhileRunning'
  BY <1>e DEF PlaceInv, TodoWhileRunning
<1>3. RequestsAppended'
  <2>1. \A h \in Checkpoints : h \in RanItems' => h \in RanItems
    BY <1>1, <1>a DEF RanItems
  <2>2. \A h \in Checkpoints : (\E e \in entries' : e.item = h) => \E e \in entries : e.item = h
    BY <1>a DEF Take, TakeStart, TakeEnd, TakeEndFails, TakeLateEnd, Slot
  <2>3. \A h \in Checkpoints : task'[h] = task[h]
    BY <1>c, ActorKinds
  <2> QED BY <2>1, <2>2, <2>3, <1>e DEF PlaceInv, RequestsAppended
<1> QED BY <1>1, <1>2, <1>3, <1>a, <1>b, <1>c, <1>e DEF At

\* A payload that is taken opens a slot, gives it back, or has its effect at once.
LEMMA TakePlaces ==
  ASSUME Base, PlaceInv, NEW p \in buffer, Take(p)
  PROVE  PlaceInv'
<1> DEFINE c == p.cmd
<1>a. TypeInv /\ p \in Flight /\ c \in Commands
  BY TakeKnows DEF Base
<1>b. /\ git' = git /\ At(Worker, "off")
      /\ TodoWhileRunning' /\ RunsOnce' /\ RequestsAppended' /\ ~At(Worker, "run")'
      /\ \A a \in Actors : Todo(a)' = Todo(a)
  BY TakenPlaces
<1>c. \/ ran' = ran
      \/ norm[c] = "pending" /\ norm'[c] = "completed" /\ c \notin Slotted /\ RanItems' = RanItems \cup {c}
  BY TakenPlaces
<1>d. /\ \A d \in Commands \ {c} : norm'[d] = norm[d]
      /\ p.ev = "start" => norm'[c] = "pending" /\ norm[c] = "none"
      /\ p.ev # "start" /\ norm[c] = "pending" =>
           \/ norm'[c] = "completed" /\ TakeEnd(p)
           \/ norm'[c] = "failed" /\ TakeEndFails(p)
      /\ p.ev # "start" /\ norm[c] # "pending" => norm[c] # "none" /\ norm' = norm /\ TakeLateEnd(p)
  BY <1>a, TakeNorm, TakeKnows DEF Base
<1>e. \A d : Slot(d)' = Slot(d) /\ Slot(d).item = d /\ Slot(d).is = "pending" /\ Slot(d).at = git[d].at
  BY <1>b DEF Slot
\* Entries: the ones before, and a slot for a start.
<1>f. /\ entries' = entries \/ (entries' = entries \cup {Slot(c)} /\ p.ev = "start" /\ c \in Slotted)
      /\ p.ev = "start" => IF c \in Slotted THEN slots' = slots \cup {c} /\ entries' = entries \cup {Slot(c)}
                                            ELSE slots' = slots /\ entries' = entries
      /\ p.ev # "start" => slots' = slots \ {c} \/ slots' = slots
      /\ p.ev # "start" => entries' = entries
  BY DEF Take, TakeStart, TakeEnd, TakeEndFails, TakeLateEnd
<1>g. /\ p.ev # "start" /\ c \in slots => Slot(c) \in entries /\ c \in Slotted
      /\ c \in RanItems => norm[c] = "completed"
      /\ \A e \in entries : e.item = c => norm[c] # "none" /\ (c \in slots => e = Slot(c))
      /\ \A a \in Actors : \A f \in Todo(a) : f.item = c => norm[c] = "completed"
  <2>1. c \in slots => Slot(c) \in entries /\ c \in Slotted
    BY <1>a DEF TypeInv, PlaceInv, SlotsHeld
  <2>2. c \in RanItems => norm[c] = "completed"
    BY <1>a DEF PlaceInv, RanKnown
  <2>3. ASSUME NEW e \in entries, e.item = c PROVE norm[c] # "none" /\ (c \in slots => e = Slot(c))
    <3>1. c \in Slotted
      BY <2>3, <1>a DEF TypeInv, Entries
    <3> QED BY <3>1, <2>1, <2>3, <1>e DEF PlaceInv, EntriesFresh
  <2>4. ASSUME NEW a \in Actors, NEW f \in Todo(a), f.item = c PROVE norm[c] = "completed"
    <3>1. c \in Slotted
      BY <2>4, <1>a DEF TypeInv, Entries, Tasks, Todo
    <3> QED BY <3>1, <2>4 DEF PlaceInv, TodoFresh
  <2> QED BY <2>1, <2>2, <2>3, <2>4
<1>h. /\ At(Worker, "lock")' => /\ task'[Worker].cmd = c /\ c \in slots /\ slots' = slots \ {c} /\ p.ev # "start"
                                /\ norm'[c] = IF task'[Worker].put = "ready" THEN "completed" ELSE "failed"
      /\ p.ev # "start" /\ slots' # slots => AtLock(c)'
      /\ ~At(Worker, "lock")
  <2>0. ~At(Worker, "lock")
    BY <1>b DEF At
  <2>1. CASE Done /\ slots' = slots
    BY <2>0, <2>1, <1>a, DoneWrites DEF At
  <2>2. CASE TakeStart(p)
    BY <2>0, <2>2, <1>a, DoneWrites DEF At, TakeStart
  <2>3. CASE TakeEnd(p)
    <3>1. CASE c \in slots
      <4>1. Clone(Worker, c, "ready") /\ slots' = slots \ {c} /\ norm'[c] = "completed" /\ p.ev # "start"
        BY <3>1, <2>3, <1>a DEF TakeEnd, TypeInv
      <4> QED BY <4>1, <2>0, <3>1, <1>a, CloneWrites, ActorKinds DEF At, AtLock
    <3>2. CASE c \notin slots
      <4>1. task'[Worker].pc = "finish" /\ slots' = slots
        BY <3>2, <2>3, <1>a, ActorKinds DEF TakeEnd, TypeInv, Tasks
      <4> QED BY <4>1, <2>0 DEF At
    <3> QED BY <3>1, <3>2
  <2>4. CASE TakeEndFails(p)
    BY <2>1, <2>4 DEF TakeEndFails
  <2>5. CASE TakeLateEnd(p)
    <3>1. CASE c \in slots
      <4>1. /\ Clone(Worker, c, "canceled") /\ slots' = slots \ {c} /\ p.ev # "start"
            /\ norm'[c] = norm[c] /\ norm[c] # "pending"
        BY <3>1, <2>5 DEF TakeLateEnd
      <4>2. norm'[c] = "failed"
        BY <4>1, <3>1, <1>a DEF PlaceInv, SlotsHeld, TypeInv
      <4> QED BY <4>1, <4>2, <2>0, <3>1, <1>a, CloneWrites, ActorKinds DEF At, AtLock
    <3>2. CASE c \notin slots
      <4>1. Done /\ slots' = slots
        BY <3>2, <2>5 DEF TakeLateEnd
      <4> QED BY <4>1, <2>1
    <3> QED BY <3>1, <3>2
  <2> QED BY <2>2, <2>3, <2>4, <2>5 DEF Take
<1>1. SlotsHeld'
  <2>1. ASSUME NEW d \in Slotted
        PROVE  /\ Slot(d) \in entries' <=> d \in slots' \/ AtLock(d)'
               /\ norm'[d] = "pending" => d \in slots'
               /\ d \in slots' => norm'[d] \in {"pending", "failed"}
    <3>0. d \in Commands
      OBVIOUS
    <3>1. CASE d # c
      <4>1. norm'[d] = norm[d] /\ (d \in slots' <=> d \in slots) /\ ~AtLock(d)' /\ ~AtLock(d)
        BY <3>0, <3>1, <1>d, <1>f, <1>h DEF AtLock
      <4>2. Slot(d) \in entries' <=> Slot(d) \in entries
        BY <3>1, <1>e, <1>f
      <4> QED BY <4>1, <4>2 DEF PlaceInv, SlotsHeld
    <3>2. CASE d = c /\ p.ev = "start"
      BY <3>2, <1>d, <1>f
    <3>3. CASE d = c /\ p.ev # "start"
      <4>1. Slot(d) \in entries' <=> d \in slots
        BY <3>3, <1>f, <1>h DEF PlaceInv, SlotsHeld, AtLock
      <4>2. d \in slots <=> d \in slots' \/ AtLock(d)'
        BY <3>3, <1>f, <1>h DEF AtLock
      <4>3. norm'[d] = "pending" => d \in slots'
        BY <3>3, <1>d, <1>f, <1>h DEF PlaceInv, SlotsHeld, AtLock
      <4>4. d \in slots' => norm'[d] \in {"pending", "failed"}
        <5>1. ASSUME d \in slots' PROVE norm'[d] # "completed"
          <6>1. d \in slots /\ norm[d] \in {"pending", "failed"}
            BY <5>1, <3>3, <1>f DEF PlaceInv, SlotsHeld
          <6>2. ~TakeEnd(p)
            BY <6>1, <5>1, <3>3 DEF TakeEnd
          <6> QED BY <6>1, <6>2, <3>3, <1>d
        <5> QED BY <5>1, <3>3, <3>0, <1>a, <1>d, <1>f DEF PlaceInv, SlotsHeld, TypeInv
      <4> QED BY <4>1, <4>2, <4>3, <4>4
    <3> QED BY <3>1, <3>2, <3>3
  <2>2. At(Worker, "lock")' => /\ task'[Worker].cmd \notin slots'
                               /\ norm'[task'[Worker].cmd] = IF task'[Worker].put = "ready" THEN "completed" ELSE "failed"
    BY <1>h
  <2> QED BY <2>1, <2>2, <1>e DEF SlotsHeld
<1>2. EntriesFresh'
  <2> SUFFICES ASSUME NEW e \in entries' PROVE
        /\ \A f \in entries' : e.item = f.item => e = f
        /\ e.is = "pending" => e.item \in Slotted /\ e = Slot(e.item)
        /\ e.item \in Slotted => /\ e.at = git[e.item].at /\ norm'[e.item] # "none"
                                 /\ e.is = "ready" => norm'[e.item] = "completed"
                                 /\ e.is = "canceled" => norm'[e.item] = "failed"
        /\ e.item \in Checkpoints => e.is = "ready"
        /\ e.item \notin RanItems'
        /\ \A b \in Actors : \A f \in Todo(b)' : f.item # e.item
    BY <1>b, <1>e DEF EntriesFresh
  <2>0. e \in entries \/ (e = Slot(c) /\ p.ev = "start" /\ c \in Slotted)
    BY <1>f
  <2>1. \A f \in entries' : e.item = f.item => e = f
    BY <2>0, <1>d, <1>e, <1>f, <1>g DEF PlaceInv, EntriesFresh
  <2>2. e.item \notin RanItems'
    <3>1. e.item \notin RanItems
      BY <2>0, <1>d, <1>e, <1>g DEF PlaceInv, EntriesFresh
    <3>2. c \notin Slotted => e.item # c
      BY <2>0, <1>a DEF TypeInv, Entries
    <3> QED BY <3>1, <3>2, <1>c DEF RanItems
  <2>3. \A b \in Actors : \A f \in Todo(b)' : f.item # e.item
    BY <2>0, <1>b, <1>d, <1>e, <1>g DEF PlaceInv, EntriesFresh
  <2>4. CASE e.item # c
    <3>1. e.item \in Slotted => e.item \in Commands /\ norm'[e.item] = norm[e.item]
      BY <2>4, <1>d
    <3> QED BY <3>1, <2>0, <2>1, <2>2, <2>3, <2>4, <1>e DEF PlaceInv, EntriesFresh
  <2>5. CASE e.item = c /\ p.ev = "start"
    <3>1. e = Slot(c) /\ c \in Slotted
      BY <2>5, <2>0, <1>d, <1>g
    <3> QED BY <3>1, <2>1, <2>2, <2>3, <2>5, <1>d, <1>e
  <2>6. CASE e.item = c /\ p.ev # "start"
    <3>1. e \in entries /\ c \in Slotted
      BY <2>6, <2>0, <1>a DEF TypeInv, Entries
    <3>2. /\ norm'[c] # "none" /\ (norm'[c] # norm[c] => e.is = "pending")
      BY <3>1, <2>6, <1>d, <1>e, <1>g DEF PlaceInv, SlotsHeld
    <3> QED BY <3>1, <3>2, <2>1, <2>2, <2>3, <2>6 DEF PlaceInv, EntriesFresh
  <2> QED BY <2>4, <2>5, <2>6
<1>3. TodoFresh'
  <2> SUFFICES ASSUME NEW b \in Actors, NEW e \in Todo(b) PROVE
        /\ e.is = "ready"
        /\ e.item \in Slotted => norm'[e.item] = "completed" /\ e.at = git[e.item].at
        /\ e.item \in RanItems' <=> e = First(Todo(b))
        /\ \A d \in Actors : \A f \in Todo(d) : e.item = f.item => b = d /\ e = f
    BY <1>b DEF TodoFresh
  <2>1. e.item \in Slotted => norm'[e.item] = "completed"
    BY <1>c, <1>d DEF PlaceInv, TodoFresh
  <2>2. e.item \in RanItems' <=> e.item \in RanItems
    BY <1>c, <1>g DEF RanItems
  <2> QED BY <2>1, <2>2 DEF PlaceInv, TodoFresh
<1>4. RanKnown'
  BY <1>a, <1>c, <1>d DEF PlaceInv, RanKnown, RanItems
<1> QED BY <1>1, <1>2, <1>3, <1>4, <1>b DEF PlaceInv

\* Every step keeps every effect in one place.
LEMMA NextPlaces == Base /\ PlaceInv /\ [Next]_vars => PlaceInv'
<1> SUFFICES ASSUME Base, PlaceInv, [Next]_vars PROVE PlaceInv'
  OBVIOUS
<1>1. ASSUME NEW a \in Actors, ActorStep(a) PROVE PlaceInv'
  BY <1>1, LockedPlaces, PopPlaces, RunEndsPlaces DEF ActorStep
<1>2. ASSUME NEW p \in buffer, Take(p) PROVE PlaceInv'
  BY <1>2, TakePlaces
<1> QED BY <1>1, <1>2, QuietStep

\* At first nothing was written, read or taken.
LEMMA InitBase == Init => Base
<1> SUFFICES ASSUME Init PROVE Base
  OBVIOUS
<1>1. TypeInv
  BY InitTyped
<1>2. Flight = {}
  BY DEF Init, Flight, InQueue
<1>3. ~Busy /\ NextTaken = 1
  BY ActorKinds DEF Init, Busy, NextTaken, Off
<1>4. Dialogue
  <2> SUFFICES ASSUME NEW c \in Commands PROVE Talk(c)
    BY DEF Dialogue
  <2>1. wire[c] = <<>> /\ git[c].phase = "new" /\ ~git[c].killed /\ ~conn[c].open /\ conn[c].load = NoPayload
        /\ seqOf[c].start = 0 /\ seqOf[c].end = 0 /\ c \notin tracked /\ nextSeq = 0
    BY DEF Init
  <2>2. wire[c] \notin ExitUnread /\ wire[c] # <<"atexit">>
    BY <2>1, WiresDiffer DEF ExitUnread
  <2> QED BY <2>1, <2>2 DEF Talk
<1>5. Distinct
  BY DEF Init, Distinct
<1>6. Numbered
  BY <1>2, <1>3 DEF Init, Numbered
<1>7. Known
  BY <1>3 DEF Init, Known
<1> QED BY <1>1, <1>4, <1>5, <1>6, <1>7 DEF Base

\* Every step keeps the basis.
LEMMA NextBase == Base /\ [Next]_vars => Base'
<1> SUFFICES ASSUME Base, [Next]_vars PROVE Base'
  OBVIOUS
<1>1. TypeInv' BY NextTyped DEF Base
<1>2. Dialogue' BY <1>1, NextDialogue DEF Base
<1>3. Distinct' BY NextDistinct DEF Base
<1>4. Numbered' BY <1>1, NextNumbered DEF Base
<1>5. Known' BY <1>1, NextKnown DEF Base
<1> QED BY <1>1, <1>2, <1>3, <1>4, <1>5 DEF Base

\* At first there are no entries.
LEMMA InitPlaces == Init => PlaceInv
<1> SUFFICES ASSUME Init PROVE PlaceInv
  OBVIOUS
<1>1. /\ \A a \in Actors : task[a] = Off
      /\ entries = {} /\ slots = {} /\ ran = <<>> /\ \A c \in Commands : norm[c] = "none"
  BY DEF Init
<1>2. RanItems = {} /\ \A a \in Actors : Todo(a) = {} /\ task[a].pc = "off"
  BY <1>1 DEF RanItems, Todo, Off
<1>3. TodoWhileRunning /\ RanKnown /\ TodoFresh /\ EntriesFresh
  BY <1>1, <1>2 DEF TodoWhileRunning, RanKnown, TodoFresh, EntriesFresh, At
<1>4. SlotsHeld
  BY <1>1, <1>2, ActorKinds DEF SlotsHeld, AtLock, At
<1>5. RequestsAppended /\ RunsOnce
  BY <1>1, <1>2 DEF RequestsAppended, RunsOnce
<1> QED BY <1>3, <1>4, <1>5 DEF PlaceInv

\* The basis and the places are invariants.
THEOREM SpecPlaces == Spec => [](Base /\ PlaceInv)
<1>1. Init => Base /\ PlaceInv
  BY InitBase, InitPlaces
<1>2. Base /\ PlaceInv /\ [Next]_vars => (Base /\ PlaceInv)'
  BY NextBase, NextPlaces
<1> QED BY <1>1, <1>2, PTL DEF Spec

\* Nothing is run twice: an exit, an atexit and the atexit that a closing connection makes
\* up lead to one effect of the command, and two drains never take the same entry.
THEOREM RunsOnceHolds == Spec => []RunsOnce
<1>1. PlaceInv => RunsOnce
  BY DEF PlaceInv
<1> QED BY <1>1, SpecPlaces, PTL

(***************************************************************************)
(* No payload is lost while the daemon is up                                *)
(***************************************************************************)
\* The atexit of an ended command is unread or on its way, as long as the worker waits for it.
Sent(c) == wire[c] # <<>> \/ \E p \in Flight : p.cmd = c /\ p.ev = "atexit"
Ended(c) == git[c].phase = "gone" /\ ~git[c].killed
Awaited(c) == norm[c] = "none" \/ c \in slots
\* While the daemon is up, every number that was given out and not taken is on its way.
Complete ==
  daemon = "up" =>
    /\ \A s \in Nat : NextTaken <= s /\ s <= nextSeq => \E p \in Flight : p.seq = s
    /\ \A c \in Commands : Ended(c) /\ Awaited(c) => Sent(c)

\* A daemon that is stopping does not come back.
LEMMA UpStays == ASSUME [Next]_vars, daemon' = "up" PROVE daemon = "up"
BY DEF Next, vars, ConnStep, ActorStep, WorkerStep, RequestStep, Start, Exit, Kill, Leave, Read, Enqueue, Close,
       Locked, Pop, RunEnds, Receive, Finish, TakeStart, TakeEnd, TakeEndFails, TakeLateEnd, Takes, Passed,
       TimesOut, Respond, Request, Sweep, Shutdown, ProcessExit

\* What is on its way stays so until the worker takes it.
LEMMA FlightKept ==
  ASSUME TypeInv, [Next]_vars, daemon' = "up", ~\E p \in buffer : Take(p), NEW p \in Flight
  PROVE  p \in Flight'
<1>a. p \in buffer \/ (\E i \in DOMAIN queue : p = queue[i])
      \/ (\E c \in Commands : p = conn[c].load /\ p # NoPayload)
  BY DEF Flight, InQueue
<1>b. daemon = "up"
  BY UpStays
<1>1. CASE UNCHANGED <<conn, queue, buffer>>
  BY <1>1 DEF Flight, InQueue
<1>2. ASSUME NEW c \in Commands, Read(c) \/ Close(c) PROVE p \in Flight'
  <2>1. /\ UNCHANGED <<queue, buffer>> /\ conn[c].load = NoPayload
        /\ \A d \in Commands \ {c} : conn'[d] = conn[d]
    <3>1. CASE Read(c)
      BY <3>1, ReadWrites DEF Read, ingestVars
    <3>2. CASE Close(c)
      BY <3>2, CloseWrites DEF Close, ingestVars
    <3> QED BY <3>1, <3>2, <1>2
  <2>2. \A d \in Commands : p = conn[d].load /\ p # NoPayload => conn'[d].load = p
    BY <2>1
  <2> QED BY <1>a, <2>1, <2>2 DEF Flight, InQueue
<1>3. ASSUME NEW c \in Commands, Enqueue(c) PROVE p \in Flight'
  <2>1. /\ UNCHANGED buffer /\ conn[c].load \in Payloads /\ queue' = Append(queue, conn[c].load)
        /\ \A d \in Commands \ {c} : conn'[d] = conn[d]
    BY <1>3, <1>b, EnqueueWrites DEF Enqueue
  <2>2. /\ \A i \in DOMAIN queue : i \in DOMAIN queue' /\ queue'[i] = queue[i]
        /\ \E i \in DOMAIN queue' : queue'[i] = conn[c].load
    <3>1. queue \in Seq(Payloads)
      BY DEF TypeInv
    <3>2. /\ DOMAIN queue = 1..Len(queue) /\ Len(queue) \in Nat
          /\ DOMAIN queue' = 1..Len(queue) + 1
          /\ \A i \in DOMAIN queue : queue'[i] = queue[i]
          /\ queue'[Len(queue) + 1] = conn[c].load
      BY <2>1, <3>1, QueueShape
    <3> QED BY <3>2
  <2>3. CASE \E d \in Commands \ {c} : p = conn[d].load /\ p # NoPayload
    BY <2>1, <2>3 DEF Flight, InQueue
  <2>4. CASE p = conn[c].load
    BY <2>2, <2>4 DEF Flight, InQueue
  <2> QED BY <1>a, <2>1, <2>2, <2>3, <2>4 DEF Flight, InQueue
<1>4. CASE Receive
  <2>1. /\ UNCHANGED conn /\ queue # <<>> /\ queue' = Tail(queue) /\ buffer' = buffer \cup {Head(queue)}
    BY <1>4 DEF Receive, inVars
  <2>2. \A i \in DOMAIN queue : queue[i] = Head(queue) \/ \E j \in DOMAIN queue' : queue'[j] = queue[i]
    <3>1. queue \in Seq(Payloads)
      BY DEF TypeInv
    <3>2. /\ DOMAIN queue = 1..Len(queue) /\ Len(queue) \in Nat
          /\ Head(queue) = queue[1] /\ DOMAIN queue' = 1..Len(queue) - 1
          /\ \A i \in DOMAIN queue' : queue'[i] = queue[i + 1]
      BY <2>1, <3>1, QueueShape
    <3>3. ASSUME NEW i \in DOMAIN queue, i # 1 PROVE i - 1 \in DOMAIN queue' /\ queue'[i - 1] = queue[i]
      <4>1. i - 1 \in DOMAIN queue' /\ (i - 1) + 1 = i
        BY <3>2, <3>3
      <4> QED BY <4>1, <3>2
    <3> QED BY <3>2, <3>3
  <2> QED BY <1>a, <2>1, <2>2 DEF Flight, InQueue
<1>5. CASE \E c \in Commands : Start(c)
  <2>1. PICK c \in Commands : Start(c)
    BY <1>5
  <2>2. UNCHANGED <<queue, buffer>> /\ \A d \in Commands : conn'[d].load = conn[d].load
    BY <2>1, StartWrites DEF Start, ingestVars
  <2> QED BY <1>a, <2>2 DEF Flight, InQueue
<1> QED BY <1>1, <1>2, <1>3, <1>4, <1>5
        DEF Next, vars, ingestVars, inVars, ConnStep, ActorStep, WorkerStep, RequestStep, Exit, Kill, Leave,
            Locked, Pop, RunEnds, Finish, Take, Passed, TimesOut, Respond, Request, Sweep, Shutdown, ProcessExit

\* What git may write when it goes.
LEMMA LeaveEvents == {<<>>, <<"exit">>, <<"exit", "atexit">>} \subseteq Seq(Events)
<1>1. "exit" \in Events /\ "atexit" \in Events
  BY DEF Events
<1> QED BY <1>1

\* A slot is given to a command whose start was not known.
LEMMA AwaitedBefore ==
  ASSUME Base, [Next]_vars, NEW c \in Commands, Awaited(c)'
  PROVE  Awaited(c)
<1>1. CASE ~\E p \in buffer : Take(p)
  <2>1. norm' = norm
    BY <1>1, NormStays
  <2>2. slots' = slots
    BY <1>1 DEF Next, vars, ConnStep, ActorStep, WorkerStep, RequestStep, Start, Exit, Kill, Leave, Read, Enqueue,
       Close, Locked, Pop, RunEnds, Receive, Finish, Take, Passed,
       TimesOut, Respond, Request, Sweep, Shutdown, ProcessExit
  <2> QED BY <2>1, <2>2 DEF Awaited
<1>2. ASSUME NEW p \in buffer, Take(p) PROVE Awaited(c)
  <2>1. p.cmd \in Commands /\ (p.ev = "start" => norm[p.cmd] = "none")
    BY <1>2, TakeKnows DEF Base
  <2>2. \/ slots' \subseteq slots
        \/ p.ev = "start" /\ slots' = slots \cup {p.cmd}
    BY <1>2 DEF Take, TakeStart, TakeEnd, TakeEndFails, TakeLateEnd
  <2>3. norm'[c] = "none" => norm[c] = "none"
    <3>1. CASE c # p.cmd
      BY <3>1, <2>1, <1>2, TakeNorm DEF Base
    <3>2. CASE c = p.cmd
      BY <3>2, <2>1, <1>2, TakeNorm DEF Base
    <3> QED BY <3>1, <3>2
  <2> QED BY <2>1, <2>2, <2>3 DEF Awaited
<1> QED BY <1>1, <1>2

\* Every step keeps all payloads on their way.
LEMMA NextComplete == Base /\ PlaceInv /\ Complete /\ [Next]_vars => Complete'
<1> SUFFICES ASSUME Base, PlaceInv, Complete, [Next]_vars, daemon' = "up"
             PROVE  /\ \A s \in Nat : NextTaken' <= s /\ s <= nextSeq' => \E p \in Flight' : p.seq = s
                    /\ \A c \in Commands : Ended(c)' /\ Awaited(c)' => Sent(c)'
  BY DEF Complete
<1>a. /\ \A s \in Nat : NextTaken <= s /\ s <= nextSeq => \E p \in Flight : p.seq = s
      /\ \A c \in Commands : Ended(c) /\ Awaited(c) => Sent(c)
  BY UpStays DEF Complete
<1>b. TypeInv /\ TypeInv' /\ Dialogue /\ Distinct /\ Numbered
  BY NextTyped DEF Base
<1>c. nextSeq \in Nat /\ nextSeq' \in Nat /\ due \in Nat /\ NextTaken \in Nat
  BY <1>b DEF TypeInv, NextTaken
<1>1. ASSUME NEW q \in buffer, Take(q)
      PROVE  /\ \A s \in Nat : NextTaken' <= s /\ s <= nextSeq' => \E p \in Flight' : p.seq = s
             /\ \A c \in Commands : Ended(c)' /\ Awaited(c)' => Sent(c)'
  <2>1. /\ NextTaken = due /\ q.seq = due /\ NextTaken' = due + 1
        /\ buffer' = buffer \ {q} /\ UNCHANGED <<git, wire, conn, nextSeq, queue>>
    BY <1>1, <1>b, TakeMoves
  <2>2. Flight' = Flight \ {q} /\ q \in Flight
    BY <2>1, <1>b, FlightShrinks
  <2>3. \A s \in Nat : NextTaken' <= s /\ s <= nextSeq' => \E p \in Flight' : p.seq = s
    <3> SUFFICES ASSUME NEW s \in Nat, NextTaken' <= s, s <= nextSeq' PROVE \E p \in Flight' : p.seq = s
      OBVIOUS
    <3>1. NextTaken <= s /\ s <= nextSeq /\ s # due
      BY <2>1, <1>c
    <3>2. PICK p \in Flight : p.seq = s
      BY <3>1, <1>a
    <3> QED BY <3>1, <3>2, <2>1, <2>2
  <2>4. ASSUME NEW c \in Commands, Ended(c)', Awaited(c)' PROVE Sent(c)'
    <3>1. Ended(c) /\ Awaited(c)
      BY <2>4, <2>1, AwaitedBefore DEF Ended
    <3>2. Sent(c)
      BY <3>1, <1>a
    <3>3. ~(q.cmd = c /\ q.ev = "atexit")
      <4> SUFFICES ASSUME q.cmd = c, q.ev = "atexit" PROVE FALSE
        OBVIOUS
      <4>1. Carries(q) /\ q \in Payloads
        BY <2>2, <1>b, FlightTyped DEF Numbered
      <4>2. seqOf[c].end # 0 /\ seqOf[c].end < due /\ seqOf[c].end \in Nat
        BY <4>1, <3>1, <2>1, <1>b DEF Carries, Ended, TypeInv, Seqs
      <4>3. norm[c] # "pending" /\ norm[c] # "none"
        <5>1. norm[c] = "pending" => seqOf[c].end = 0 \/ due <= seqOf[c].end
          BY <2>1 DEF Base, Known
        <5>2. norm[c] # "none"
          BY <1>1, TakeKnows DEF Base
        <5> QED BY <4>2, <5>1, <5>2, <1>c
      <4>4. norm' = norm /\ slots' = slots \ {c}
        BY <4>3, <1>1, <1>b, TakeNorm DEF TakeLateEnd
      <4> QED BY <4>3, <4>4, <2>4 DEF Awaited
    <3> QED BY <3>2, <3>3, <2>1, <2>2 DEF Sent
  <2> QED BY <2>3, <2>4
<1>2. CASE ~\E q \in buffer : Take(q)
  <2>1. NextTaken' = NextTaken
    BY <1>2, <1>b, TakenStays
  <2>2. \A p \in Flight : p \in Flight'
    BY <1>2, <1>b, FlightKept
  <2>3. \/ nextSeq' = nextSeq
        \/ nextSeq' = nextSeq + 1 /\ \E p \in Flight' : p.seq = nextSeq + 1
    <3>1. ASSUME NEW c \in Commands, Read(c) \/ (Close(c) /\ c \in tracked)
          PROVE  nextSeq' = nextSeq + 1 /\ conn'[c].load.seq = nextSeq + 1 /\ conn'[c].load \in Payloads
      BY <3>1, <1>b, ReadWrites, CloseWrites
    <3>2. ASSUME NEW c \in Commands, Close(c), c \notin tracked PROVE nextSeq' = nextSeq
      BY <3>2 DEF Close
    <3>3. \A c \in Commands : conn'[c].load \in Payloads => conn'[c].load \in Flight'
      BY DEF Flight, Payloads, Events, NoPayload
    <3> QED BY <3>1, <3>2, <3>3, Untouched
  <2>4. \A s \in Nat : NextTaken' <= s /\ s <= nextSeq' => \E p \in Flight' : p.seq = s
    <3> SUFFICES ASSUME NEW s \in Nat, NextTaken' <= s, s <= nextSeq' PROVE \E p \in Flight' : p.seq = s
      OBVIOUS
    <3>1. s <= nextSeq \/ (nextSeq' = nextSeq + 1 /\ s = nextSeq + 1)
      BY <2>3, <1>c
    <3>2. CASE s <= nextSeq
      BY <3>2, <2>1, <2>2, <1>a
    <3>3. CASE nextSeq' = nextSeq + 1 /\ s = nextSeq + 1
      BY <3>3, <2>3, <1>c
    <3> QED BY <3>1, <3>2, <3>3
  <2>5. ASSUME NEW c \in Commands, Ended(c)', Awaited(c)' PROVE Sent(c)'
    <3>0. Awaited(c)
      BY <2>5, AwaitedBefore
    <3>1. ASSUME Ended(c), wire'[c] = wire[c] PROVE Sent(c)'
      <4>1. Sent(c)
        BY <3>1, <3>0, <1>a
      <4> QED BY <4>1, <3>1, <2>2 DEF Sent
    <3>2. ASSUME Read(c), Ended(c) PROVE Sent(c)'
      <4>1. wire[c] \in BothUnread \cup {<<"atexit">>} /\ wire'[c] = Tail(wire[c])
            /\ conn'[c].load.cmd = c /\ conn'[c].load.ev = Head(wire[c]) /\ conn'[c].load \in Payloads
        BY <3>2, <1>b, ReadWrites DEF Dialogue, Talk, Ended, Read
      <4>2. CASE wire[c] = <<"atexit">>
        <5>1. conn'[c].load.ev = "atexit"
          BY <4>1, <4>2, WireTails
        <5>2. conn'[c].load \in Flight'
          BY <4>1 DEF Flight, Payloads, Events, NoPayload
        <5> QED BY <4>1, <5>1, <5>2 DEF Sent
      <4>3. CASE wire[c] \in BothUnread
        <5>1. wire'[c] \in {<<"exit", "atexit">>, <<"atexit">>}
          BY <4>1, <4>3, WireTails DEF BothUnread
        <5> QED BY <5>1, WiresDiffer DEF Sent
      <4> QED BY <4>1, <4>2, <4>3
    <3>3. ASSUME Exit(c) PROVE Sent(c)'
      <4>1. /\ wire[c] \in {<<>>, <<"start">>}
            /\ wire'[c] = wire[c] \o <<"exit", "atexit">>
        <5>1. git[c].phase = "live" /\ wire' = [wire EXCEPT ![c] = @ \o <<"exit", "atexit">>]
          BY <3>3 DEF Exit, Leave
        <5> QED BY <5>1, <1>b DEF Dialogue, Talk, TypeInv
      <4>2. wire'[c] \in BothUnread
        BY <4>1, WireEnds DEF BothUnread
      <4> QED BY <4>2, WiresDiffer DEF Sent, BothUnread
    <3>4. ASSUME NEW d \in Commands, d # c, Start(d) \/ Exit(d) \/ Kill(d) \/ ConnStep(d)
          PROVE  wire'[c] = wire[c] /\ git'[c] = git[c]
      <4>1. ASSUME NEW events \in {<<>>, <<"exit">>, <<"exit", "atexit">>}, NEW k \in BOOLEAN, Leave(d, events, k)
            PROVE  wire'[c] = wire[c] /\ git'[c] = git[c]
        <5>1. events \in Seq(Events)
          BY LeaveEvents
        <5>2. \A e \in Commands \ {d} : git'[e] = git[e] /\ wire'[e] = wire[e]
          BY <4>1, <5>1, <1>b, LeaveWrites
        <5> QED BY <5>2, <3>4
      <4>2. Exit(d) \/ Kill(d) => wire'[c] = wire[c] /\ git'[c] = git[c]
        BY <4>1 DEF Exit, Kill
      <4>3. Start(d) => wire'[c] = wire[c] /\ git'[c] = git[c]
        BY <3>4, <1>b, StartWrites
      <4>4. Read(d) => wire'[c] = wire[c] /\ git'[c] = git[c]
        BY <3>4, <1>b, ReadWrites DEF Read
      <4>5. Enqueue(d) \/ Close(d) => wire'[c] = wire[c] /\ git'[c] = git[c]
        BY DEF Enqueue, Close, gitVars
      <4> QED BY <3>4, <4>2, <4>3, <4>4, <4>5 DEF ConnStep
    <3>5. ASSUME Start(c) PROVE FALSE
      BY <3>5, <2>5, <1>b, StartWrites DEF Ended
    <3>6. ASSUME Kill(c) PROVE FALSE
      <4>1. git' = [git EXCEPT ![c].phase = "gone", ![c].killed = TRUE]
        BY <3>6 DEF Kill, Leave
      <4> QED BY <4>1, <2>5, <1>b DEF Ended, TypeInv
    <3>7. ASSUME Read(c) \/ Enqueue(c) \/ Close(c) PROVE git' = git /\ (wire' = wire \/ Read(c))
      BY <3>7 DEF Read, Enqueue, Close, gitVars
    <3>8. ASSUME ~\E d \in Commands : Start(d) \/ Exit(d) \/ Kill(d) \/ ConnStep(d) PROVE git' = git /\ wire' = wire
      BY <3>8, <1>2 DEF Next, vars, gitVars, ActorStep, WorkerStep, RequestStep, Take, Locked, Pop, RunEnds, Receive, Finish,
            Passed, TimesOut, Respond, Request, Sweep, Shutdown, ProcessExit
    <3>9. (Ended(c) /\ wire'[c] = wire[c]) \/ (Ended(c) /\ Read(c)) \/ Exit(c)
      <4>1. CASE \E d \in Commands : d # c /\ (Start(d) \/ Exit(d) \/ Kill(d) \/ ConnStep(d))
        BY <4>1, <3>4, <2>5 DEF Ended
      <4>2. CASE Start(c) \/ Exit(c) \/ Kill(c) \/ ConnStep(c)
        BY <4>2, <3>5, <3>6, <3>7, <2>5 DEF Ended, ConnStep
      <4>3. CASE ~\E d \in Commands : Start(d) \/ Exit(d) \/ Kill(d) \/ ConnStep(d)
        BY <4>3, <3>8, <2>5 DEF Ended
      <4> QED BY <4>1, <4>2, <4>3
    <3> QED BY <3>1, <3>2, <3>3, <3>9
  <2> QED BY <2>4, <2>5
<1> QED BY <1>1, <1>2

\* The worker leaves the requests' tasks alone.
LEMMA WorkerAlone ==
  ASSUME TypeInv, NEW h \in Checkpoints, WorkerStep
  PROVE  task'[h] = task[h]
<1>0. h \in Actors /\ h # Worker
  BY ActorKinds
<1>1. CASE Receive
  <2>1. task' = task \/ task' = [task EXCEPT ![Worker].pc = "dead"]
    BY <1>1 DEF Receive
  <2> QED BY <2>1, <1>0, PcWrites, ActorKinds DEF Pcs
<1>2. CASE Done
  BY <1>2, <1>0, DoneWrites
<1>3. ASSUME NEW p \in buffer, TakeEnd(p) \/ TakeLateEnd(p) PROVE task'[h] = task[h]
  <2>1. p.cmd \in Commands
    BY DEF TypeInv, Payloads
  <2>2. \/ Done \/ Clone(Worker, p.cmd, "ready") \/ Clone(Worker, p.cmd, "canceled")
        \/ task' = [task EXCEPT ![Worker].pc = "finish", ![Worker].cmd = p.cmd]
    BY <1>3 DEF TakeEnd, TakeLateEnd
  <2>3. Clone(Worker, p.cmd, "ready") \/ Clone(Worker, p.cmd, "canceled") => task'[h] = task[h]
    BY <2>1, <1>0, CloneWrites, ActorKinds
  <2>4. task' = [task EXCEPT ![Worker].pc = "finish", ![Worker].cmd = p.cmd] => task'[h] = task[h]
    BY <1>0 DEF TypeInv
  <2> QED BY <2>2, <2>3, <2>4, <1>2
<1> QED BY <1>1, <1>2, <1>3 DEF WorkerStep, Finish, TakeStart, TakeEndFails

\* What an actor's step under the lock leaves.
LEMMA ActorMoves ==
  ASSUME TypeInv, NEW a \in Actors, ActorStep(a)
  PROVE  /\ At(a, "lock") \/ At(a, "pop") \/ At(a, "run")
         /\ \A b \in Actors \ {a} : task'[b] = task[b]
         /\ ~Locked(a) => /\ At(a, "pop") \/ At(a, "run")
                          /\ task'[a].pc \in {"run", "respond", "done", "finish"}
                          /\ a # Worker => task'[a].pc # "finish"
<1>1. CASE Locked(a)
  BY <1>1, PcWrites DEF Locked, Pcs
<1>2. CASE Pop(a)
  <2> DEFINE T == {e \in {f \in entries : \A o \in entries : o.is = "pending" => f.at < o.at} : e.is = "ready"}
  <2>1. Begin(a, T) /\ T \in SUBSET Entries /\ At(a, "pop")
    BY <1>2 DEF Pop, TypeInv
  <2> HIDE DEF T
  <2> QED BY <2>1, BeginWrites
<1>3. CASE RunEnds(a)
  <2> DEFINE T == task[a].todo \ {First(task[a].todo)}
  <2>1. Begin(a, T) /\ T \in SUBSET Entries /\ At(a, "run")
    BY <1>3 DEF RunEnds, TypeInv, Tasks
  <2> HIDE DEF T
  <2> QED BY <2>1, BeginWrites
<1> QED BY <1>1, <1>2, <1>3 DEF ActorStep

\* The connection of a command whose end was not read is open, and made up an end for it
\* when it closes; the worker clears only a root whose end was read.
Unended(c) == seqOf[c].start # 0 /\ seqOf[c].end = 0
Listening ==
  /\ daemon = "up" => \A c \in Commands : Unended(c) => c \in tracked /\ conn[c].open
  /\ \A c \in Commands : task[Worker].cmd = c => seqOf[c].end # 0

\* What the worker works for was ended.
LEMMA WorksForEnded ==
  ASSUME Base, [Next]_vars, NEW c \in Commands, task'[Worker].cmd = c
  PROVE  task[Worker].cmd = c \/ seqOf[c].end # 0
<1>0. TypeInv /\ Worker \in Actors /\ Worker \notin Checkpoints /\ Worker # c
  BY ActorKinds, DaemonSequencerAssumption DEF Base
<1>1. CASE task'[Worker] = task[Worker]
  BY <1>1
<1>2. ASSUME NEW a \in Actors, ActorStep(a) PROVE task'[Worker].cmd = task[Worker].cmd
  <2>1. CASE a # Worker
    BY <2>1, <1>0, <1>2, ActorMoves
  <2>2. CASE a = Worker
    <3>1. CASE Locked(Worker)
      BY <3>1, <1>0, PcWrites DEF Locked, Pcs
    <3>2. ASSUME NEW T \in SUBSET Entries, Begin(Worker, T) PROVE task'[Worker].cmd = task[Worker].cmd
      BY <3>2, <1>0, BeginWrites
    <3>3. CASE Pop(Worker)
      <4>1. PICK T \in SUBSET entries : Begin(Worker, T)
        BY <3>3 DEF Pop
      <4> QED BY <4>1, <3>2, <1>0 DEF TypeInv
    <3>4. CASE RunEnds(Worker)
      <4>1. PICK T \in SUBSET task[Worker].todo : Begin(Worker, T)
        BY <3>4 DEF RunEnds
      <4> QED BY <4>1, <3>2, <1>0 DEF TypeInv, Tasks
    <3> QED BY <1>2, <2>2, <3>1, <3>3, <3>4 DEF ActorStep
  <2> QED BY <2>1, <2>2
<1>3. CASE Done
  <2>1. task'[Worker] = Off
    BY <1>0, <1>3 DEF Done, TypeInv
  <2> QED BY <2>1, <1>0 DEF Off
<1>4. CASE Receive
  <2>1. task' = task \/ task' = [task EXCEPT ![Worker].pc = "dead"]
    BY <1>4 DEF Receive
  <2> QED BY <2>1, <1>0, PcWrites DEF Pcs
<1>5. ASSUME NEW p \in buffer, TakeEnd(p) \/ TakeLateEnd(p), ~Done PROVE task'[Worker].cmd = p.cmd /\ seqOf[p.cmd].end # 0
  <2>1. p.cmd \in Commands /\ seqOf[p.cmd].end # 0
    BY <1>5, TakeKnows DEF Base, Take, TakeEnd, TakeLateEnd
  <2>2. \/ Clone(Worker, p.cmd, "ready") \/ Clone(Worker, p.cmd, "canceled")
        \/ task' = [task EXCEPT ![Worker].pc = "finish", ![Worker].cmd = p.cmd]
    BY <1>5 DEF TakeEnd, TakeLateEnd
  <2>3. Clone(Worker, p.cmd, "ready") \/ Clone(Worker, p.cmd, "canceled") => task'[Worker].cmd = p.cmd
    BY <2>1, <1>0, CloneWrites
  <2>4. task' = [task EXCEPT ![Worker].pc = "finish", ![Worker].cmd = p.cmd] => task'[Worker].cmd = p.cmd
    <3>1. task \in [Actors -> Tasks]
      BY <1>0 DEF TypeInv
    <3> QED BY <3>1, <1>0 DEF Tasks
  <2> QED BY <2>1, <2>2, <2>3, <2>4
<1>6. CASE WorkerStep
  BY <1>3, <1>4, <1>5, <1>6 DEF WorkerStep, Finish, TakeStart, TakeEndFails
<1>7. ASSUME NEW h \in Checkpoints, Request(h) \/ RequestStep(h) PROVE task'[Worker] = task[Worker]
  <2>1. h \in Actors /\ h # Worker
    BY ActorKinds
  <2>2. CASE Passed(h)
    BY <2>1, <2>2, <1>0, CloneWrites DEF Passed
  <2>3. CASE Request(h) \/ TimesOut(h) \/ Respond(h)
    <3>1. PICK pc \in {"wait", "failed", "done"} : task' = [task EXCEPT ![h].pc = pc]
      BY <2>3 DEF Request, TimesOut, Respond
    <3> QED BY <3>1, <2>1, <1>0, PcWrites DEF Pcs
  <2> QED BY <1>7, <2>2, <2>3 DEF RequestStep
<1>8. CASE \E d \in Commands : Start(d) \/ Exit(d) \/ Kill(d) \/ ConnStep(d)
  BY <1>8, <1>1 DEF Start, Exit, Kill, Leave, ConnStep, Read, Enqueue, Close
<1>9. CASE Sweep \/ Shutdown \/ ProcessExit \/ UNCHANGED vars
  BY <1>9, <1>1 DEF Sweep, Shutdown, ProcessExit, vars
<1> QED BY <1>1, <1>2, <1>6, <1>7, <1>8, <1>9 DEF Next

\* The worker clears a root only after its end.
LEMMA ClearsEnded ==
  ASSUME Base, Listening, WorkerStep, NEW c \in Commands, c \in tracked
  PROVE  c \in tracked' \/ seqOf[c].end # 0
<1>1. ASSUME NEW p \in buffer, TakeEnd(p) PROVE c \in tracked' \/ seqOf[c].end # 0
  <2>1. seqOf[p.cmd].end # 0
    BY <1>1, TakeKnows DEF Base, Take, TakeEnd
  <2>2. tracked' = tracked \/ tracked' = tracked \ {p.cmd}
    BY <1>1 DEF TakeEnd
  <2> QED BY <2>1, <2>2
<1>2. CASE Finish
  BY <1>2 DEF Finish, Listening
<1>3. CASE tracked' = tracked
  BY <1>3
<1> QED BY <1>1, <1>2, <1>3 DEF WorkerStep, Receive, TakeStart, TakeEndFails, TakeLateEnd, inVars

\* Every step keeps listening.
LEMMA NextListening == Base /\ Listening /\ [Next]_vars => Listening'
<1> SUFFICES ASSUME Base, Listening, [Next]_vars PROVE Listening'
  OBVIOUS
<1>0. TypeInv /\ Dialogue /\ nextSeq \in Nat /\ \A c \in Commands : seqOf[c].end \in Nat
  BY DEF Base, TypeInv, Seqs
<1>1. \A c \in Commands : seqOf'[c].end = 0 => seqOf[c].end = 0
  BY <1>0, NotesMove
<1>2. \A c \in Commands : seqOf[c].end # 0 => seqOf'[c].end # 0
  BY <1>0, NotesMove
<1>3. \A c \in Commands : task'[Worker].cmd = c => seqOf'[c].end # 0
  BY <1>2, WorksForEnded DEF Listening
<1>4. ASSUME daemon' = "up", NEW c \in Commands, Unended(c)' PROVE c \in tracked' /\ conn'[c].open
  <2>0. daemon = "up" /\ seqOf[c].end = 0 /\ Talk(c)
        /\ (seqOf[c].start # 0 => c \in tracked /\ conn[c].open)
    BY <1>0, <1>1, <1>4, UpStays DEF Unended, Listening, Dialogue
  <2>1. CASE UNCHANGED <<conn, tracked, seqOf>>
    BY <2>0, <2>1, <1>4 DEF Unended
  <2>2. ASSUME NEW d \in Commands, Read(d) PROVE c \in tracked' /\ conn'[c].open
    <3>1. /\ wire[d] # <<>> /\ conn[d].open
          /\ tracked' = IF Head(wire[d]) = "start" THEN tracked \cup {d} ELSE tracked \ {d}
      BY <2>2 DEF Read
    <3>2. /\ conn'[d].open = conn[d].open
          /\ seqOf'[d].start = IF Head(wire[d]) = "start" THEN nextSeq + 1 ELSE seqOf[d].start
          /\ seqOf'[d].end = IF Head(wire[d]) = "exit" THEN nextSeq + 1 ELSE seqOf[d].end
          /\ \A e \in Commands \ {d} : conn'[e] = conn[e] /\ seqOf'[e] = seqOf[e]
      BY <2>2, <1>0, ReadWrites
    <3>3. CASE d # c
      BY <3>1, <3>2, <3>3, <2>0, <1>4 DEF Unended
    <3>4. CASE d = c
      <4>1. Head(wire[c]) # "exit"
        BY <3>2, <3>4, <1>0, <1>4 DEF Unended
      <4>2. wire[c] # <<"atexit">>
        BY <2>0 DEF Talk
      <4>3. wire[c] \in StartUnread
        BY <4>1, <4>2, <3>1, <3>4, <2>0, WireTails DEF Talk, ExitUnread, StartUnread
      <4>4. Head(wire[c]) = "start"
        BY <4>3, WireTails DEF StartUnread
      <4> QED BY <4>4, <3>1, <3>2, <3>4
    <3> QED BY <3>3, <3>4
  <2>3. ASSUME NEW d \in Commands, Close(d) PROVE c \in tracked' /\ conn'[c].open
    <3>1. tracked' = tracked /\ \A e \in Commands \ {d} : conn'[e] = conn[e] /\ seqOf'[e] = seqOf[e]
      BY <2>3, <1>0, CloseWrites DEF Close
    <3>2. seqOf'[d].start = seqOf[d].start /\ (d \in tracked => seqOf'[d].end = nextSeq + 1)
      BY <2>3, <1>0, CloseWrites
    <3>3. d # c
      BY <3>2, <2>0, <1>0, <1>4 DEF Unended
    <3> QED BY <3>1, <3>3, <2>0, <1>4 DEF Unended
  <2>4. ASSUME NEW d \in Commands, Enqueue(d) PROVE c \in tracked' /\ conn'[c].open
    <3>1. tracked' = tracked /\ seqOf' = seqOf /\ conn' = [conn EXCEPT ![d].load = NoPayload]
      BY <2>4, <2>0 DEF Enqueue
    <3>2. conn'[c].open = conn[c].open
      BY <3>1, <1>0 DEF TypeInv, Conns
    <3> QED BY <3>1, <3>2, <2>0, <1>4 DEF Unended
  <2>5. ASSUME NEW d \in Commands, Start(d) PROVE c \in tracked' /\ conn'[c].open
    <3>1. tracked' = tracked /\ seqOf' = seqOf
      BY <2>5 DEF Start
    <3>2. conn'[d].open = TRUE /\ \A e \in Commands \ {d} : conn'[e] = conn[e]
      BY <2>5, <1>0, StartWrites
    <3> QED BY <3>1, <3>2, <2>0, <1>4 DEF Unended
  <2>6. ASSUME WorkerStep PROVE c \in tracked' /\ conn'[c].open
    <3>1. seqOf' = seqOf /\ conn' = conn
      BY <2>6 DEF WorkerStep, Receive, Finish, TakeStart, TakeEnd, TakeEndFails, TakeLateEnd, inVars
    <3> QED BY <3>1, <2>0, <2>6, <1>4, ClearsEnded DEF Unended
  <2> QED BY <2>1, <2>2, <2>3, <2>4, <2>5, <2>6
          DEF Next, vars, inVars, ConnStep, ActorStep, RequestStep, Exit, Kill, Leave, Locked, Pop, RunEnds, Passed,
              TimesOut, Respond, Request, Sweep, Shutdown, ProcessExit
<1> QED BY <1>3, <1>4 DEF Listening

\* No slot is orphaned: while the daemon is up, a pending entry that blocks the family is
\* one of a command that runs, whose end is on its way, or that was killed while mutating.
THEOREM NoOrphanSlotHolds == Spec => []NoOrphanSlot
<1>1. Init => Complete
  <2> SUFFICES ASSUME Init PROVE Complete
    OBVIOUS
  <2>1. NextTaken = 1 /\ nextSeq = 0 /\ \A c \in Commands : git[c].phase = "new"
    BY ActorKinds DEF Init, Busy, NextTaken, Off
  <2> QED BY <2>1 DEF Complete, Ended
<1>2. Base /\ PlaceInv /\ Complete /\ Listening => NoOrphanSlot
  <2> SUFFICES ASSUME Base, PlaceInv, Complete, Listening, daemon = "up", NEW c \in Slotted, Slot(c) \in entries
               PROVE  EndComes(c) \/ KilledMutating(c)
    BY DEF NoOrphanSlot
  <2>a. c \in Commands /\ TypeInv /\ Distinct
    BY DEF Base
  <2>1. CASE AtLock(c)
    BY <2>1 DEF AtLock, EndComes
  <2>2. CASE c \in slots
    <3>1. norm[c] \in {"pending", "failed"}
      BY <2>2 DEF PlaceInv, SlotsHeld
    <3>2. seqOf[c].start # 0 /\ Talk(c) /\ (norm[c] = "failed" => c \in Mutating)
          /\ (norm[c] = "pending" => seqOf[c].end = 0 \/ NextTaken <= seqOf[c].end)
      BY <3>1, <2>a DEF Base, Known, Dialogue
    <3>3. git[c].phase \in {"live", "gone"}
      BY <3>2, <2>a DEF Talk, TypeInv, Gits
    <3>4. \A p \in Flight : p.cmd = c => p \in InQueue \cup {conn[c].load}
      BY <2>a DEF Flight, Distinct
    <3>5. CASE Ended(c)
      <4>1. Sent(c)
        BY <3>5, <2>2, <2>a DEF Complete, Awaited
      <4> QED BY <4>1, <3>4 DEF Sent, EndComes
    <3>6. CASE git[c].killed /\ c \notin Mutating
      <4>1. seqOf[c].end = 0 \/ NextTaken <= seqOf[c].end
        BY <3>1, <3>2, <3>6
      <4>2. CASE seqOf[c].end = 0
        BY <4>2, <3>2, <2>a DEF Listening, Unended, EndComes
      <4>3. CASE seqOf[c].end # 0 /\ NextTaken <= seqOf[c].end
        <5>1. seqOf[c].end \in Nat /\ seqOf[c].end <= nextSeq
          BY <3>2, <2>a DEF Talk, TypeInv, Seqs
        <5>2. PICK p \in Flight : p.seq = seqOf[c].end
          BY <5>1, <4>3 DEF Complete
        <5>3. p.cmd = c /\ p.ev # "start"
          BY <5>2, <2>a DEF Base, Numbered, Carries
        <5> QED BY <5>3, <3>4 DEF EndComes
      <4> QED BY <4>1, <4>2, <4>3
    <3> QED BY <3>3, <3>5, <3>6 DEF Ended, EndComes, KilledMutating
  <2> QED BY <2>1, <2>2 DEF PlaceInv, SlotsHeld
<1>3. Complete /\ Base /\ PlaceInv /\ [Next]_vars => Complete'
  BY NextComplete
<1>4. Init => Listening
  <2> SUFFICES ASSUME Init PROVE Listening
    OBVIOUS
  <2>1. task[Worker].cmd = Worker /\ Worker \notin Commands /\ \A c \in Commands : seqOf[c].start = 0
    BY ActorKinds, DaemonSequencerAssumption DEF Init, Off
  <2> QED BY <2>1 DEF Listening, Unended
<1>5. Listening /\ Base /\ [Next]_vars => Listening'
  BY NextListening
<1> QED BY <1>1, <1>2, <1>3, <1>4, <1>5, SpecPlaces, PTL DEF Spec

(***************************************************************************)
(* The order of effects                                                     *)
(***************************************************************************)
\* The event of c after which a checkpoint waits for c's effect.
ReadOf(c) == IF c \in Slotted THEN seqOf[c].start ELSE seqOf[c].end
\* The effect of c has to come before that of y.
Due(c, y) ==
  \/ /\ c \in Slotted /\ y \in Slotted
     /\ git[c].at < git[y].at /\ seqOf[c].start # 0 /\ seqOf[c].start <= seqOf[y].end
  \/ y \in Checkpoints /\ ReadOf(c) # 0 /\ ReadOf(c) <= mark[y]

\* An entry, and an effect, that is in the sequencer or was taken from it to be run.
Placed(e) == e \in entries \/ \E a \in Actors : e \in Todo(a)
ItemPlaced(c) == \/ \E e \in entries : e.item = c
                 \/ \E a \in Actors : \E e \in Todo(a) : e.item = c

\* The clock is ahead of what started.
StartTimes == \A c \in Commands : git[c].at <= clock /\ (git[c].phase # "new" => git[c].at # 0)
\* A command whose start was taken keeps its place until its effect.
EffectKept ==
  \A c \in Commands :
    /\ c \in Slotted /\ norm[c] \in {"pending", "completed"} => c \in RanItems \/ ItemPlaced(c)
    /\ c \notin Slotted /\ norm[c] = "completed" => c \in RanItems
\* A request goes on when its watermark was taken.
MarksPassed ==
  \A h \in Checkpoints : /\ mark[h] <= nextSeq
                         /\ task[h].pc \notin {"off", "wait", "failed"} => mark[h] < due
\* A checkpoint's entry comes after those of the commands its watermark covers.
Timed(e) ==
  /\ e.at # 0 /\ e.at <= clock
  /\ e.item \in Checkpoints =>
       \A c \in Slotted : seqOf[c].start # 0 /\ seqOf[c].start <= mark[e.item] => git[c].at < e.at
EntryTimes == \A e \in Entries : Placed(e) => Timed(e)
\* The times are as the order of effects needs them.
Times == StartTimes /\ EffectKept /\ MarksPassed /\ EntryTimes

\* What has to come before an effect is run before it, or is taken with it.
InOrder(c, e, T) == Dropped(c) \/ c \in RanItems \/ \E f \in T : f.item = c /\ f.at < e.at
\* It is so for all that an actor has taken, and was so for all that was run.
TodoOrdered ==
  \A a \in Actors : \A e \in Todo(a) : \A c \in Commands : Due(c, e.item) => InOrder(c, e, Todo(a))
RanOrdered == \A y \in RanItems : \A c \in Commands : Due(c, y) => Dropped(c) \/ Before(c, y)
\* The order is kept until a lock in use was collected.
Ordered == misgc \/ (TodoOrdered /\ RanOrdered)

\* The clock and the watermark only grow; a wrong collection is not forgotten.
LEMMA ClockMoves ==
  ASSUME [Next]_vars
  PROVE  (clock' = clock \/ clock' = clock + 1) /\ (due' = due \/ due' = due + 1) /\ (misgc => misgc')
<1>1. clock' = clock \/ clock' = clock + 1
  BY DEF Next, vars, ConnStep, ActorStep, WorkerStep, RequestStep, Start, Exit, Kill, Leave, Read, Enqueue,
       Close, Locked, Pop, RunEnds, Receive, Finish, TakeStart, TakeEnd, TakeEndFails, TakeLateEnd, Passed,
       TimesOut, Respond, Request, Sweep, Shutdown, ProcessExit
<1>2. due' = due \/ due' = due + 1
  BY DEF Next, vars, ingestVars, Done, ConnStep, ActorStep, WorkerStep, RequestStep, Start, Exit, Kill, Leave, Read, Enqueue,
       Close, Locked, Pop, RunEnds, Receive, Finish, TakeStart, TakeEnd, TakeEndFails, TakeLateEnd, Passed,
       TimesOut, Respond, Request, Sweep, Shutdown, ProcessExit
<1>3. misgc => misgc'
  BY DEF Next, vars, lockVars, Done, Collect, Clone, ConnStep, ActorStep, WorkerStep, RequestStep, Start, Exit, Kill, Leave,
       Read, Enqueue, Close, Locked, Pop, RunEnds, Receive, Finish, TakeStart, TakeEnd, TakeEndFails, TakeLateEnd,
       Passed, TimesOut, Respond, Request, Sweep, Shutdown, ProcessExit
<1> QED BY <1>1, <1>2, <1>3

\* A request sets its watermark first, and goes on only when that was taken.
LEMMA RequestMoves ==
  ASSUME TypeInv, [Next]_vars, NEW h \in Checkpoints
  PROVE  /\ \/ mark'[h] = mark[h]
            \/ At(h, "off") /\ At(h, "wait")' /\ mark'[h] = nextSeq
         /\ task'[h].pc \notin {"off", "wait", "failed"} =>
              /\ mark'[h] = mark[h]
              /\ task[h].pc \notin {"off", "wait", "failed"} \/ mark[h] < due
<1>0. h \in Actors /\ h # Worker
  BY ActorKinds
<1>1. CASE UNCHANGED <<mark, task>>
  BY <1>1
<1>2. ASSUME NEW g \in Checkpoints, Request(g) PROVE
         /\ \/ mark'[h] = mark[h]
            \/ At(h, "off") /\ At(h, "wait")' /\ mark'[h] = nextSeq
         /\ task'[h].pc \notin {"off", "wait", "failed"} =>
              /\ mark'[h] = mark[h] /\ task[h].pc \notin {"off", "wait", "failed"}
  <2>1. /\ g \in Actors /\ At(g, "off") /\ task' = [task EXCEPT ![g].pc = "wait"]
        /\ mark' = [mark EXCEPT ![g] = nextSeq]
    BY <1>2, ActorKinds DEF Request
  <2>2. task'[g].pc = "wait" /\ \A b \in Actors \ {g} : task'[b] = task[b]
    BY <2>1, PcWrites DEF Pcs
  <2>3. mark'[g] = nextSeq /\ \A b \in Checkpoints \ {g} : mark'[b] = mark[b]
    BY <2>1 DEF TypeInv
  <2> QED BY <2>1, <2>2, <2>3, <1>0 DEF At
<1>3. ASSUME NEW g \in Checkpoints, RequestStep(g) PROVE
         /\ mark'[h] = mark[h]
         /\ task'[h].pc \notin {"off", "wait", "failed"} => task[h].pc \notin {"off", "wait", "failed"} \/ mark[h] < due
  <2>0. g \in Actors /\ mark' = mark
    BY <1>3, ActorKinds DEF RequestStep, Passed, TimesOut, Respond
  <2>1. CASE Passed(g)
    <3>1. Clone(g, Worker, "none") /\ due > mark[g]
      BY <2>1 DEF Passed
    <3>2. \A b \in Actors \ {g} : task'[b] = task[b]
      BY <3>1, <2>0, CloneWrites
    <3>3. mark[g] \in Nat /\ due \in Nat
      BY DEF TypeInv
    <3> QED BY <2>0, <3>1, <3>2, <3>3, <1>0
  <2>2. ASSUME NEW pc \in {"failed", "done"}, task' = [task EXCEPT ![g].pc = pc], pc = "failed" \/ At(g, "respond")
        PROVE  task'[h].pc \notin {"off", "wait", "failed"} => task[h].pc \notin {"off", "wait", "failed"}
    <3>1. task'[g].pc = pc /\ \A b \in Actors \ {g} : task'[b] = task[b]
      BY <2>0, <2>2, PcWrites DEF Pcs
    <3> QED BY <3>1, <2>2, <1>0 DEF At
  <2> QED BY <1>3, <2>0, <2>1, <2>2 DEF RequestStep, TimesOut, Respond
<1>4. ASSUME NEW a \in Actors, ActorStep(a)
      PROVE  mark' = mark /\ (task'[h] = task[h] \/ task[h].pc \notin {"off", "wait", "failed"})
  <2>1. mark' = mark
    BY <1>4 DEF ActorStep, Locked, Pop, RunEnds
  <2> QED BY <1>4, <2>1, <1>0, ActorMoves DEF At
<1>5. ASSUME WorkerStep PROVE mark' = mark /\ task'[h] = task[h]
  <2>1. mark' = mark
    BY <1>5 DEF WorkerStep, Receive, Finish, TakeStart, TakeEnd, TakeEndFails, TakeLateEnd
  <2> QED BY <1>5, <2>1, WorkerAlone
<1>6. ASSUME NEW c \in Commands, Start(c) \/ Exit(c) \/ Kill(c) \/ ConnStep(c) PROVE UNCHANGED <<mark, task>>
  BY <1>6 DEF Start, Exit, Kill, Leave, ConnStep, Read, Enqueue, Close
<1>7. CASE Sweep \/ Shutdown \/ ProcessExit \/ UNCHANGED vars
  BY <1>1, <1>7 DEF Sweep, Shutdown, ProcessExit, vars
<1> QED BY <1>1, <1>2, <1>3, <1>4, <1>5, <1>6, <1>7 DEF Next

\* What is known of a command is not taken back.
LEMMA StatusStays ==
  ASSUME Base, [Next]_vars, NEW c \in Commands
  PROVE  /\ norm[c] \in {"completed", "failed"} => norm'[c] = norm[c]
         /\ norm[c] # "none" => norm'[c] # "none"
<1>1. CASE ~\E p \in buffer : Take(p)
  BY <1>1, NormStays
<1>2. ASSUME NEW p \in buffer, Take(p)
      PROVE  /\ norm[c] \in {"completed", "failed"} => norm'[c] = norm[c]
             /\ norm[c] # "none" => norm'[c] # "none"
  <2>1. TypeInv /\ p.cmd \in Commands /\ (p.ev = "start" => norm[p.cmd] = "none")
    BY <1>2, TakeKnows DEF Base
  <2>2. CASE c # p.cmd
    BY <2>1, <2>2, <1>2, TakeNorm
  <2>3. CASE c = p.cmd
    BY <2>1, <2>3, <1>2, TakeNorm
  <2> QED BY <2>2, <2>3
<1> QED BY <1>1, <1>2

\* An event that was noted keeps its number; a later one gets a higher number.
LEMMA NotesStay ==
  ASSUME Base, [Next]_vars, NEW c \in Commands, NEW n \in Nat, n <= nextSeq
  PROVE  /\ seqOf'[c].start # 0 /\ seqOf'[c].start <= n => seqOf'[c].start = seqOf[c].start
         /\ seqOf'[c].end # 0 /\ seqOf'[c].end <= n => seqOf'[c].end = seqOf[c].end
<1>1. TypeInv /\ Dialogue /\ nextSeq \in Nat
  BY DEF Base, TypeInv
<1>2. /\ seqOf'[c].start = seqOf[c].start \/ seqOf'[c].start = nextSeq + 1
      /\ seqOf'[c].end = seqOf[c].end \/ seqOf'[c].end = nextSeq + 1
  BY <1>1, NotesMove
<1> QED BY <1>1, <1>2

\* A command that has started keeps its time.
LEMMA StartedTime ==
  ASSUME Base, [Next]_vars, NEW c \in Commands, seqOf[c].start # 0
  PROVE  git'[c].at = git[c].at /\ git[c].phase # "new"
BY GitMoves DEF Base, Dialogue, Talk

\* What has to precede an effect that has begun, or may, is settled.
LEMMA DueStays ==
  ASSUME Base, MarksPassed, [Next]_vars, NEW c \in Commands, NEW y, Due(c, y)',
         \/ y \in Slotted /\ norm[y] = "completed"
         \/ y \in Commands \ Slotted
         \/ y \in Checkpoints /\ task[y].pc \notin {"off", "wait", "failed"}
  PROVE  Due(c, y)
<1>a. TypeInv /\ nextSeq \in Nat
  BY DEF Base, TypeInv
<1>1. CASE y \in Slotted /\ norm[y] = "completed"
  <2>1. y \in Commands /\ seqOf[y].end # 0 /\ seqOf[y].start # 0 /\ seqOf[y].end \in Nat /\ seqOf[y].end <= nextSeq
    BY <1>1, <1>a DEF Base, Known, Dialogue, Talk, TypeInv, Seqs
  <2>2. seqOf'[y].end = seqOf[y].end /\ git'[y].at = git[y].at
    BY <2>1, <1>a, NotesMove, StartedTime DEF Base
  <2>3. /\ c \in Slotted /\ git'[c].at < git'[y].at
        /\ seqOf'[c].start # 0 /\ seqOf'[c].start <= seqOf[y].end
    BY <1>1, <2>2 DEF Due
  <2>4. seqOf'[c].start = seqOf[c].start
    BY <2>1, <2>3, NotesStay
  <2>5. git'[c].at = git[c].at
    BY <2>3, <2>4, StartedTime
  <2> QED BY <1>1, <2>2, <2>3, <2>4, <2>5 DEF Due
<1>2. CASE y \in Checkpoints /\ task[y].pc \notin {"off", "wait", "failed"}
  <2>1. mark'[y] = mark[y] /\ mark[y] \in Nat /\ mark[y] <= nextSeq
    BY <1>2, <1>a, RequestMoves DEF At, MarksPassed, TypeInv
  <2>2. ReadOf(c)' # 0 /\ ReadOf(c)' <= mark[y]
    BY <1>2, <2>1 DEF Due
  <2>3. ReadOf(c)' = ReadOf(c)
    BY <2>1, <2>2, NotesStay DEF ReadOf
  <2> QED BY <1>2, <2>1, <2>2, <2>3 DEF Due
<1>3. CASE y \in Commands \ Slotted
  BY <1>3 DEF Due
<1> QED BY <1>1, <1>2, <1>3

\* An entry that comes late enough does so forever.
LEMMA TimedStays ==
  ASSUME Base, PlaceInv, StartTimes, MarksPassed, [Next]_vars, NEW e \in Entries, Placed(e), Timed(e)
  PROVE  Timed(e)'
<1>a. TypeInv /\ nextSeq \in Nat /\ clock \in Nat /\ e.at \in Nat
  BY DEF Base, TypeInv, Entries
<1>1. e.at # 0 /\ e.at <= clock'
  BY <1>a, ClockMoves DEF Timed
<1>2. ASSUME e.item \in Checkpoints, NEW c \in Slotted, seqOf'[c].start # 0, seqOf'[c].start <= mark'[e.item]
      PROVE  git'[c].at < e.at
  <2>1. task[e.item].pc \in Appended
    BY <1>2 DEF Placed, PlaceInv, RequestsAppended
  <2>2. mark'[e.item] = mark[e.item] /\ mark[e.item] \in Nat /\ mark[e.item] <= nextSeq
    BY <1>2, <2>1, <1>a, RequestMoves DEF At, MarksPassed, TypeInv, Appended
  <2>3. seqOf'[c].start = seqOf[c].start
    BY <1>2, <2>2, NotesStay
  <2>4. git'[c].at = git[c].at
    BY <1>2, <2>3, StartedTime
  <2> QED BY <1>2, <2>2, <2>3, <2>4 DEF Timed
<1> QED BY <1>1, <1>2 DEF Timed

\* Every step keeps the clock ahead of starts,
LEMMA NextStartTimes == ASSUME Base, StartTimes, [Next]_vars PROVE StartTimes'
<1> SUFFICES ASSUME NEW c \in Commands PROVE git'[c].at <= clock' /\ (git'[c].phase # "new" => git'[c].at # 0)
  BY DEF StartTimes
<1>1. TypeInv /\ clock \in Nat /\ git[c].at \in Nat
  BY DEF Base, TypeInv, Gits
<1>2. git[c].at <= clock /\ (git[c].phase # "new" => git[c].at # 0)
  BY DEF StartTimes
<1> QED BY <1>1, <1>2, ClockMoves, GitMoves DEF Base

\* and watermarks behind what was taken.
LEMMA NextMarks == ASSUME Base, MarksPassed, [Next]_vars PROVE MarksPassed'
<1> SUFFICES ASSUME NEW h \in Checkpoints
             PROVE  /\ mark'[h] <= nextSeq'
                    /\ task'[h].pc \notin {"off", "wait", "failed"} => mark'[h] < due'
  BY DEF MarksPassed
<1>1. TypeInv /\ Dialogue /\ mark[h] \in Nat /\ nextSeq \in Nat /\ due \in Nat
  BY DEF Base, TypeInv
<1>2. mark[h] <= nextSeq /\ (task[h].pc \notin {"off", "wait", "failed"} => mark[h] < due)
  BY DEF MarksPassed
<1>3. (due' = due \/ due' = due + 1) /\ (nextSeq' = nextSeq \/ nextSeq' = nextSeq + 1)
  BY <1>1, ClockMoves, NotesMove
<1> QED BY <1>1, <1>2, <1>3, RequestMoves

\* Where entries come from, and where an item that was not run goes.
LEMMA PlacesMove ==
  ASSUME Base, PlaceInv, [Next]_vars
  PROVE  /\ RanItems \subseteq RanItems'
         /\ \A c \in Commands : ItemPlaced(c) => c \in RanItems \/ ItemPlaced(c)' \/ norm[c] = "failed"
         /\ \A e \in Entries : Placed(e)' =>
              \/ Placed(e)
              \/ e.item \in Checkpoints /\ e.at = clock + 1 /\ clock' = clock + 1 /\ git' = git /\ seqOf' = seqOf
              \/ e.item \in Slotted /\ e.at = git[e.item].at /\ git[e.item].phase # "new" /\ git' = git
<1> DEFINE Moved(e) ==
       \/ Placed(e)
       \/ e.item \in Checkpoints /\ e.at = clock + 1 /\ clock' = clock + 1 /\ git' = git /\ seqOf' = seqOf
       \/ e.item \in Slotted /\ e.at = git[e.item].at /\ git[e.item].phase # "new" /\ git' = git
    Kept == /\ RanItems \subseteq RanItems'
            /\ \A c \in Commands : ItemPlaced(c) => c \in RanItems \/ ItemPlaced(c)' \/ norm[c] = "failed"
            /\ \A e \in Entries : Placed(e)' => Moved(e)
<1>a. TypeInv /\ Known /\ Dialogue /\ TodoWhileRunning
  BY DEF Base, PlaceInv
<1>b. \A c \in Slotted : norm[c] # "none" => git[c].phase # "new"
  <2>1. \A c \in Slotted : norm[c] # "none" => seqOf[c].start # 0
    BY <1>a DEF Known
  <2> QED BY <1>a, <2>1 DEF Dialogue, Talk
<1>1. CASE (~\E a \in Actors : ActorStep(a)) /\ ~\E p \in buffer : Take(p)
  <2>1. /\ UNCHANGED <<entries, ran>> /\ \A a \in Actors : Todo(a)' = Todo(a)
    BY <1>1, <1>a, QuietKeeps DEF Todo
  <2> QED BY <2>1 DEF RanItems, ItemPlaced, Placed
<1>2. ASSUME NEW p \in buffer, Take(p) PROVE Kept
  <2>1. /\ p.cmd \in Commands /\ git' = git /\ \A a \in Actors : Todo(a)' = Todo(a)
        /\ ran' = ran \/ RanItems' = RanItems \cup {p.cmd}
    BY <1>2, TakenPlaces
  <2>2. entries' = entries \/ (entries' = entries \cup {Slot(p.cmd)} /\ p.ev = "start" /\ p.cmd \in Slotted)
    BY <1>2 DEF Take, TakeStart, TakeEnd, TakeEndFails, TakeLateEnd
  <2>3. Slot(p.cmd).item = p.cmd /\ Slot(p.cmd).at = git[p.cmd].at
    BY DEF Slot
  <2>4. p.ev = "start" => git[p.cmd].phase # "new"
    <3>1. p.ev = "start" => seqOf[p.cmd].start = due
      BY <1>2, TakeKnows DEF Base
    <3> QED BY <3>1, <2>1, <1>a DEF Dialogue, Talk, TypeInv
  <2>5. RanItems \subseteq RanItems'
    BY <2>1 DEF RanItems
  <2>6. \A c \in Commands : ItemPlaced(c) => ItemPlaced(c)'
    BY <2>1, <2>2 DEF ItemPlaced
  <2>7. \A e \in Entries : Placed(e)' => Moved(e)
    BY <2>1, <2>2, <2>3, <2>4 DEF Placed
  <2> QED BY <2>5, <2>6, <2>7
<1>3. ASSUME NEW a \in Actors, Locked(a) PROVE Kept
  <2>1. UNCHANGED <<git, seqOf, ran>> /\ At(a, "lock")
    BY <1>3 DEF Locked, gitVars, inVars
  <2>2. \A b \in Actors : Todo(b)' = Todo(b)
    BY <1>3, <1>a, PcWrites DEF Locked, Pcs, Todo
  <2>3. CASE a = Worker
    <3> DEFINE c == task[Worker].cmd
               new == [Slot(c) EXCEPT !.is = task[Worker].put]
    <3>1. entries' = (entries \ {Slot(c)}) \cup {new} /\ c \in Slotted /\ norm[c] # "none"
      BY <2>1, <2>3, <1>3, <1>a DEF Locked, TypeInv, PlaceInv, SlotsHeld
    <3>2. new.item = c /\ new.at = git[c].at /\ Slot(c).item = c
      BY DEF Slot
    <3>3. \A d \in Commands : ItemPlaced(d) => ItemPlaced(d)'
      BY <3>1, <3>2, <2>2 DEF ItemPlaced
    <3>4. \A e \in Entries : Placed(e)' => Moved(e)
      BY <3>1, <3>2, <2>1, <2>2, <1>b DEF Placed
    <3> QED BY <3>3, <3>4, <2>1 DEF RanItems
  <2>4. CASE a # Worker
    <3> DEFINE new == [at |-> clock + 1, item |-> a, is |-> "ready"]
    <3>1. entries' = entries \cup {new} /\ a \in Checkpoints /\ clock' = clock + 1
      BY <2>4, <1>3 DEF Locked, Actors
    <3>2. new.item = a /\ new.at = clock + 1
      OBVIOUS
    <3>3. \A d \in Commands : ItemPlaced(d) => ItemPlaced(d)'
      BY <3>1, <3>2, <2>2 DEF ItemPlaced
    <3>4. \A e \in Entries : Placed(e)' => Moved(e)
      BY <3>1, <3>2, <2>1, <2>2, <1>b DEF Placed
    <3> QED BY <3>3, <3>4, <2>1 DEF RanItems
  <2> QED BY <2>3, <2>4
<1>4. ASSUME NEW a \in Actors, Pop(a) PROVE Kept
  <2> DEFINE ready == {e \in entries : \A o \in entries : o.is = "pending" => e.at < o.at}
             T == {e \in ready : e.is = "ready"}
  <2>1. entries' = entries \ ready /\ Begin(a, T) /\ T \in SUBSET Entries /\ At(a, "pop")
    BY <1>4, <1>a DEF Pop, TypeInv
  <2>2. /\ task'[a].todo = T /\ \A b \in Actors \ {a} : task'[b] = task[b]
        /\ ran' = ran \/ (T # {} /\ First(T) \in T /\ ran' = Append(ran, First(T).item))
    BY <2>1, <1>a, BeginWrites
  <2>3. RanItems \subseteq RanItems'
    <3>1. T # {} /\ First(T) \in T => First(T).item \in Commands \cup Checkpoints
      BY <2>1 DEF Entries
    <3>2. ASSUME T # {}, First(T) \in T, ran' = Append(ran, First(T).item)
          PROVE RanItems' = RanItems \cup {First(T).item}
      BY <3>1, <3>2, <1>a, RanGrows
    <3>3. ran' = ran => RanItems' = RanItems
      BY DEF RanItems
    <3> QED BY <2>2, <3>2, <3>3
  <2>4. Todo(a) = {}
    BY <2>1, <1>a DEF TodoWhileRunning, At
  <2>5. ASSUME NEW c \in Commands, ItemPlaced(c), norm[c] # "failed" PROVE ItemPlaced(c)'
    <3>1. CASE \E e \in entries : e.item = c
      <4>1. PICK e \in entries : e.item = c
        BY <3>1
      <4>2. CASE e \notin ready
        BY <4>1, <4>2, <2>1 DEF ItemPlaced
      <4>3. CASE e \in ready
        <5>1. e \in Entries /\ c \in Slotted
          BY <4>1, <1>a DEF TypeInv, Entries
        <5>2. e.is # "pending"
          BY <4>3, <5>1 DEF Entries
        <5>3. e.is # "canceled"
          BY <4>1, <5>1, <2>5 DEF PlaceInv, EntriesFresh
        <5>4. e \in T
          BY <4>3, <5>1, <5>2, <5>3 DEF Entries
        <5> QED BY <4>1, <5>4, <2>2 DEF ItemPlaced, Todo
      <4> QED BY <4>2, <4>3
    <3>2. CASE \E b \in Actors : \E e \in Todo(b) : e.item = c
      BY <3>2, <2>2, <2>4 DEF ItemPlaced, Todo
    <3> QED BY <3>1, <3>2, <2>5 DEF ItemPlaced
  <2>6. \A e \in Entries : Placed(e)' => Placed(e)
    BY <2>1, <2>2 DEF Placed, Todo
  <2> QED BY <2>3, <2>5, <2>6
<1>5. ASSUME NEW a \in Actors, RunEnds(a) PROVE Kept
  <2> DEFINE old == task[a].todo
             T == old \ {First(old)}
  <2>1. UNCHANGED entries /\ Begin(a, T) /\ T \in SUBSET Entries /\ old \in SUBSET Entries /\ At(a, "run")
    BY <1>5, <1>a DEF RunEnds, TypeInv, Tasks
  <2>2. /\ task'[a].todo = T /\ \A b \in Actors \ {a} : task'[b] = task[b]
        /\ ran' = ran \/ (T # {} /\ First(T) \in T /\ ran' = Append(ran, First(T).item))
    BY <2>1, <1>a, BeginWrites
  <2>3. RanItems \subseteq RanItems'
    <3>1. T # {} /\ First(T) \in T => First(T).item \in Commands \cup Checkpoints
      BY <2>1 DEF Entries
    <3>2. ASSUME T # {}, First(T) \in T, ran' = Append(ran, First(T).item)
          PROVE RanItems' = RanItems \cup {First(T).item}
      BY <3>1, <3>2, <1>a, RanGrows
    <3>3. ran' = ran => RanItems' = RanItems
      BY DEF RanItems
    <3> QED BY <2>2, <3>2, <3>3
  <2>4. old # {} => First(old).item \in RanItems
    <3>1. old # {} => First(old) \in old
      BY <2>1, FirstIsLeast
    <3> QED BY <3>1 DEF PlaceInv, TodoFresh, Todo
  <2>5. ASSUME NEW c \in Commands, ItemPlaced(c) PROVE c \in RanItems \/ ItemPlaced(c)'
    <3>1. CASE \E e \in entries : e.item = c
      BY <3>1, <2>1 DEF ItemPlaced
    <3>2. CASE \E b \in Actors : \E e \in Todo(b) : e.item = c
      <4>0. PICK b \in Actors : \E e \in Todo(b) : e.item = c
        BY <3>2
      <4>1. PICK e \in Todo(b) : e.item = c
        BY <4>0
      <4>2. CASE b # a
        BY <4>1, <4>2, <2>2 DEF ItemPlaced, Todo
      <4>3. CASE b = a
        BY <4>1, <4>3, <2>2, <2>4 DEF ItemPlaced, Todo
      <4> QED BY <4>2, <4>3
    <3> QED BY <3>1, <3>2, <2>5 DEF ItemPlaced
  <2>6. \A e \in Entries : Placed(e)' => Placed(e)
    BY <2>1, <2>2 DEF Placed, Todo
  <2> QED BY <2>3, <2>5, <2>6
<1> QED BY <1>1, <1>2, <1>3, <1>4, <1>5 DEF ActorStep

\* Every step keeps entries of checkpoints late enough.
LEMMA NextEntryTimes == ASSUME Base, PlaceInv, StartTimes, MarksPassed, EntryTimes, [Next]_vars PROVE EntryTimes'
<1> SUFFICES ASSUME NEW e \in Entries, Placed(e)' PROVE Timed(e)'
  BY DEF EntryTimes
<1>a. TypeInv /\ clock \in Nat /\ \A c \in Commands : git[c].at \in Nat
  BY DEF Base, TypeInv, Gits
<1>1. CASE Placed(e)
  BY <1>1, TimedStays DEF EntryTimes
<1>2. CASE e.item \in Checkpoints /\ e.at = clock + 1 /\ clock' = clock + 1 /\ git' = git /\ seqOf' = seqOf
  <2>1. \A c \in Slotted : git'[c].at < e.at
    BY <1>2, <1>a DEF StartTimes
  <2> QED BY <1>2, <2>1, <1>a DEF Timed
<1>3. CASE e.item \in Slotted /\ e.at = git[e.item].at /\ git[e.item].phase # "new" /\ git' = git
  <2>1. e.item \in Commands /\ e.item \notin Checkpoints
    BY <1>3
  <2>2. e.at # 0 /\ e.at <= clock
    BY <1>3, <2>1 DEF StartTimes
  <2> QED BY <2>1, <2>2, <1>3, <1>a, ClockMoves DEF Timed
<1> QED BY <1>1, <1>2, <1>3, PlacesMove

\* Every step keeps the place of an effect that is to come.
LEMMA NextEffectKept == ASSUME Base, PlaceInv, EffectKept, [Next]_vars PROVE EffectKept'
<1> SUFFICES ASSUME NEW c \in Commands
             PROVE  /\ c \in Slotted /\ norm'[c] \in {"pending", "completed"} => c \in RanItems' \/ ItemPlaced(c)'
                    /\ c \notin Slotted /\ norm'[c] = "completed" => c \in RanItems'
  BY DEF EffectKept
<1>0. RanItems \subseteq RanItems' /\ (ItemPlaced(c) => c \in RanItems \/ ItemPlaced(c)' \/ norm[c] = "failed")
  BY PlacesMove
<1>1. CASE norm'[c] = norm[c]
  BY <1>0, <1>1 DEF EffectKept
<1>2. CASE norm'[c] # norm[c]
  <2>1. PICK p \in buffer : Take(p)
    BY <1>2, NormStays
  <2>2. TypeInv /\ p.cmd \in Commands
    BY <2>1, TakeKnows DEF Base
  <2>3. c = p.cmd
    BY <1>2, <2>1, <2>2, TakeNorm
  <2>4. CASE p.ev = "start"
    <3>1. norm'[c] = "pending" /\ (c \in Slotted => Slot(c) \in entries')
      BY <2>1, <2>2, <2>3, <2>4, TakeNorm DEF Take, TakeStart, TakeEnd, TakeEndFails, TakeLateEnd
    <3>2. Slot(c).item = c
      BY DEF Slot
    <3> QED BY <3>1, <3>2 DEF ItemPlaced
  <2>5. CASE p.ev # "start"
    <3>1. norm[c] = "pending" /\ (norm'[c] = "failed" \/ (norm'[c] = "completed" /\ TakeEnd(p)))
      BY <1>2, <2>1, <2>2, <2>3, <2>5, TakeNorm
    <3>2. CASE c \in Slotted
      BY <1>0, <3>1, <3>2 DEF EffectKept
    <3>3. CASE c \notin Slotted /\ TakeEnd(p)
      <4>1. c \notin slots /\ ran' = Append(ran, c)
        BY <3>3, <2>2, <2>3 DEF TakeEnd, TypeInv
      <4> QED BY <4>1, <2>2, <2>3, RanGrows, <3>3
    <3> QED BY <3>1, <3>2, <3>3
  <2> QED BY <2>4, <2>5
<1> QED BY <1>1, <1>2

\* The four together.
LEMMA NextTimes == Base /\ PlaceInv /\ Times /\ [Next]_vars => Times'
BY NextStartTimes, NextMarks, NextEntryTimes, NextEffectKept DEF Times

\* What is due, but was not run, when an entry is reached.
LEMMA DueIsNear ==
  ASSUME Base, PlaceInv, Times, NEW c \in Commands, NEW e \in entries, e.is = "ready", Due(c, e.item),
         ~Dropped(c), c \notin RanItems
  PROVE  /\ norm[c] \in {"pending", "completed"} /\ c \in Slotted /\ git[c].at < e.at
<1>a. TypeInv /\ e \in Entries /\ Known /\ Talk(c) /\ due \in Nat /\ NextTaken \in Nat /\ due <= NextTaken
      /\ seqOf[c].start \in Nat /\ seqOf[c].end \in Nat /\ norm[c] \in {"none", "pending", "completed", "failed"}
  BY DEF Base, TypeInv, Dialogue, NextTaken, Seqs
<1>1. ReadOf(c) # 0 /\ ReadOf(c) < NextTaken /\ (c \in Slotted => git[c].at < e.at)
  <2>1. CASE e.item \in Slotted
    <3>1. norm[e.item] = "completed" /\ e.at = git[e.item].at
      BY <2>1 DEF PlaceInv, EntriesFresh
    <3>2. seqOf[e.item].end < NextTaken /\ seqOf[e.item].end \in Nat
      BY <2>1, <3>1, <1>a DEF Known, TypeInv, Seqs
    <3>3. c \in Slotted /\ git[c].at < e.at /\ seqOf[c].start # 0 /\ seqOf[c].start <= seqOf[e.item].end
      BY <2>1, <3>1 DEF Due
    <3> QED BY <3>2, <3>3, <1>a DEF ReadOf
  <2>2. CASE e.item \in Checkpoints
    <3>1. task[e.item].pc \in Appended
      BY <2>2 DEF PlaceInv, RequestsAppended
    <3>2. mark[e.item] < due /\ mark[e.item] \in Nat
      BY <2>2, <3>1, <1>a DEF Times, MarksPassed, Appended, TypeInv
    <3>3. ReadOf(c) # 0 /\ ReadOf(c) <= mark[e.item]
      BY <2>2 DEF Due
    <3>4. c \in Slotted => git[c].at < e.at
      BY <2>2, <3>3, <1>a DEF Times, EntryTimes, Timed, Placed, ReadOf
    <3>5. ReadOf(c) \in Nat
      BY <1>a DEF ReadOf
    <3> QED BY <3>2, <3>3, <3>4, <3>5, <1>a
  <2> QED BY <2>1, <2>2, <1>a DEF Entries
<1>2. CASE c \in Slotted
  <2>1. norm[c] # "none"
    BY <1>1, <1>2, <1>a DEF Known, ReadOf
  <2> QED BY <2>1, <1>1, <1>2, <1>a DEF Dropped
<1>3. CASE c \notin Slotted
  <2>1. seqOf[c].end # 0 /\ seqOf[c].end < NextTaken /\ seqOf[c].start < seqOf[c].end /\ seqOf[c].start # 0
    BY <1>1, <1>3, <1>a DEF ReadOf, Talk
  <2>2. norm[c] # "none" /\ norm[c] # "pending"
    BY <2>1, <1>a DEF Known
  <2> QED BY <2>2, <1>3, <1>a DEF Dropped, Times, EffectKept
<1> QED BY <1>2, <1>3

\* An actor takes T, in which everything is that has to come first.
LEMMA BeginOrder ==
  ASSUME Base, PlaceInv, Times, Ordered, [Next]_vars, NEW a \in Actors, NEW T \in SUBSET Entries, Begin(a, T),
         misgc \/ \A e \in T : \A c \in Commands : Due(c, e.item) => InOrder(c, e, T),
         misgc \/ \A b \in Actors \ {a} : Todo(b) = {},
         \A e \in T : \/ e.item \in Slotted /\ norm[e.item] = "completed"
                      \/ e.item \in Checkpoints /\ task[e.item].pc \in Appended
  PROVE  Ordered'
<1> SUFFICES ASSUME ~misgc' PROVE TodoOrdered' /\ RanOrdered'
  BY DEF Ordered
<1>a. TypeInv /\ ~misgc /\ TodoOrdered /\ RanOrdered /\ MarksPassed
  BY ClockMoves DEF Base, Ordered, Times
<1>b. \A e \in T : \A c \in Commands : Due(c, e.item) => InOrder(c, e, T)
  BY <1>a
<1>c. /\ task'[a].todo = T /\ \A b \in Actors \ {a} : task'[b] = task[b]
      /\ \/ T = {} /\ ran' = ran
         \/ /\ T # {} /\ ran' = Append(ran, First(T).item)
            /\ First(T) \in T /\ \A e \in T : First(T).at <= e.at
  BY <1>a, BeginWrites
<1>d. \A c \in Commands : Dropped(c) => Dropped(c)'
  BY StatusStays DEF Dropped
<1>e. \A e \in T, c \in Commands : Due(c, e.item)' => Due(c, e.item)
  BY <1>a, DueStays DEF Appended
<1>f. /\ RanItems \subseteq RanItems'
      /\ \A y, z : Before(y, z) => Before(y, z)'
      /\ T # {} => RanItems' = RanItems \cup {First(T).item} /\ \A y \in RanItems : Before(y, First(T).item)'
      /\ T = {} => RanItems' = RanItems
  <2>1. CASE T = {}
    BY <2>1, <1>c DEF RanItems, Before
  <2>2. CASE T # {}
    <3>1. ran' = Append(ran, First(T).item) /\ First(T).item \in Commands \cup Checkpoints
      BY <2>2, <1>c DEF Entries
    <3> QED BY <3>1, <2>2, <1>a, RanGrows
  <2> QED BY <2>1, <2>2
<1>1. TodoOrdered'
  <2> SUFFICES ASSUME NEW b \in Actors, NEW e \in Todo(b)', NEW c \in Commands, Due(c, e.item)'
               PROVE  Dropped(c)' \/ c \in RanItems' \/ \E f \in Todo(b)' : f.item = c /\ f.at < e.at
    BY DEF TodoOrdered, InOrder
  <2>1. b = a /\ e \in T /\ Todo(b)' = T
    BY <1>a, <1>c DEF Todo
  <2>2. InOrder(c, e, T)
    BY <2>1, <1>b, <1>e
  <2> QED BY <2>1, <2>2, <1>d, <1>f DEF InOrder
<1>2. RanOrdered'
  <2> SUFFICES ASSUME NEW y \in RanItems', NEW c \in Commands, Due(c, y)'
               PROVE  Dropped(c)' \/ Before(c, y)'
    BY DEF RanOrdered
  <2>1. CASE y \in RanItems
    <3>1. \/ y \in Slotted /\ norm[y] = "completed"
          \/ y \in Commands \ Slotted
          \/ y \in Checkpoints /\ task[y].pc \notin {"off", "wait", "failed"}
      <4>1. y \in Commands \cup Checkpoints
        BY <2>1, <1>a DEF RanItems, TypeInv
      <4> QED BY <4>1, <2>1 DEF PlaceInv, RanKnown, RequestsAppended, Appended
    <3>2. Due(c, y)
      BY <3>1, <1>a, DueStays
    <3> QED BY <3>2, <2>1, <1>a, <1>d, <1>f DEF RanOrdered
  <2>2. CASE T # {} /\ y = First(T).item
    <3>1. First(T) \in T /\ InOrder(c, First(T), T) /\ \A f \in T : First(T).at <= f.at
      BY <2>2, <1>b, <1>c, <1>e
    <3>2. ~\E f \in T : f.item = c /\ f.at < First(T).at
      <4>1. \A f \in T : f.at \in Nat
        BY DEF Entries
      <4> QED BY <3>1, <4>1
    <3>3. Dropped(c) \/ c \in RanItems
      BY <3>1, <3>2 DEF InOrder
    <3> QED BY <2>2, <3>3, <1>d, <1>f
  <2> QED BY <2>1, <2>2, <1>f
<1> QED BY <1>1, <1>2

\* drain_ready_family_sequencer_entries_locked stops at the first pending entry: what has
\* to come before something that it takes was run, dropped, or is taken with it.
LEMMA PopOrder ==
  ASSUME Base, PlaceInv, Times, LockInv, Ordered, [Next]_vars, NEW a \in Actors, Pop(a)
  PROVE  Ordered'
<1> DEFINE ready == {e \in entries : \A o \in entries : o.is = "pending" => e.at < o.at}
           T == {e \in ready : e.is = "ready"}
<1>a. TypeInv /\ At(a, "pop")
  BY DEF Base, Pop
<1>b. Begin(a, T) /\ T \in SUBSET Entries /\ entries \in SUBSET Entries
  BY <1>a DEF Pop, TypeInv
<1>1. \A e \in T : \/ e.item \in Slotted /\ norm[e.item] = "completed"
                   \/ e.item \in Checkpoints /\ task[e.item].pc \in Appended
  <2> SUFFICES ASSUME NEW e \in T PROVE \/ e.item \in Slotted /\ norm[e.item] = "completed"
                                        \/ e.item \in Checkpoints /\ task[e.item].pc \in Appended
    OBVIOUS
  <2>1. e \in entries /\ e.is = "ready" /\ e.item \in Slotted \cup Checkpoints
    BY <1>b DEF Entries
  <2>2. e.item \in Slotted => norm[e.item] = "completed"
    BY <2>1 DEF PlaceInv, EntriesFresh
  <2>3. e.item \in Checkpoints => task[e.item].pc \in Appended
    BY <2>1 DEF PlaceInv, RequestsAppended
  <2> QED BY <2>1, <2>2, <2>3
<1>2. ASSUME ~misgc, NEW b \in Actors PROVE Todo(b) = {}
  <2>1. CASE At(b, "run")
    <3>1. a = b
      BY <2>1, <1>2, <1>a DEF LockInv, Exclusive, Shared, Holds, HasLock, At
    <3> QED BY <3>1, <2>1, <1>a DEF At
  <2>2. CASE ~At(b, "run")
    BY <2>2 DEF PlaceInv, TodoWhileRunning
  <2> QED BY <2>1, <2>2
<1>3. ASSUME ~misgc, NEW e \in T, NEW c \in Commands, Due(c, e.item), ~Dropped(c), c \notin RanItems
      PROVE  \E f \in T : f.item = c /\ f.at < e.at
  <2>0. e \in entries /\ e.is = "ready"
    OBVIOUS
  <2>1. norm[c] \in {"pending", "completed"} /\ c \in Slotted /\ git[c].at < e.at
    BY <2>0, <1>3, DueIsNear
  <2>2. PICK f \in entries : f.item = c
    BY <2>1, <1>2, <1>3 DEF Times, EffectKept, ItemPlaced
  <2>3. f.at = git[c].at /\ (f.is = "canceled" => norm[c] = "failed") /\ f \in Entries
    BY <2>1, <2>2, <1>b DEF PlaceInv, EntriesFresh
  <2>4. \A o \in entries : o.is = "pending" => f.at < o.at
    <3> SUFFICES ASSUME NEW o \in entries, o.is = "pending" PROVE f.at < o.at
      OBVIOUS
    <3>1. e.at < o.at /\ e.at \in Nat /\ o.at \in Nat /\ f.at \in Nat /\ f.at < e.at
      BY <2>0, <2>1, <2>3, <1>b DEF Entries
    <3> QED BY <3>1
  <2>5. f.is # "pending" /\ f.is # "canceled"
    <3>1. f.at \in Nat
      BY <2>3 DEF Entries
    <3> QED BY <3>1, <2>1, <2>2, <2>3, <2>4
  <2>6. f.is = "ready"
    BY <2>3, <2>5 DEF Entries
  <2> QED BY <2>1, <2>2, <2>3, <2>4, <2>6
<1>4. misgc \/ \A e \in T : \A c \in Commands : Due(c, e.item) => InOrder(c, e, T)
  BY <1>3 DEF InOrder
<1> HIDE DEF T
<1> QED BY <1>b, <1>1, <1>2, <1>4, BeginOrder

\* What is left of that after one more effect.
LEMMA RunEndsOrder ==
  ASSUME Base, PlaceInv, Times, LockInv, Ordered, [Next]_vars, NEW a \in Actors, RunEnds(a)
  PROVE  Ordered'
<1> DEFINE old == task[a].todo
           T == old \ {First(old)}
<1>a. TypeInv /\ At(a, "run")
  BY DEF Base, RunEnds
<1>b. Begin(a, T) /\ T \in SUBSET Entries /\ old \in SUBSET Entries /\ old = Todo(a)
  BY <1>a DEF RunEnds, TypeInv, Tasks, Todo
<1>1. \A e \in T : \/ e.item \in Slotted /\ norm[e.item] = "completed"
                   \/ e.item \in Checkpoints /\ task[e.item].pc \in Appended
  BY <1>b DEF PlaceInv, TodoFresh, RequestsAppended, Entries
<1>2. ASSUME ~misgc, NEW b \in Actors \ {a} PROVE Todo(b) = {}
  <2>1. CASE At(b, "run")
    BY <2>1, <1>2, <1>a DEF LockInv, Exclusive, Shared, Holds, HasLock, At
  <2>2. CASE ~At(b, "run")
    BY <2>2 DEF PlaceInv, TodoWhileRunning
  <2> QED BY <2>1, <2>2
<1>3. ASSUME ~misgc, NEW e \in T, NEW c \in Commands, Due(c, e.item), ~Dropped(c), c \notin RanItems
      PROVE  \E f \in T : f.item = c /\ f.at < e.at
  <2>1. PICK f \in old : f.item = c /\ f.at < e.at
    BY <1>3, <1>b DEF Ordered, TodoOrdered, InOrder
  <2>2. f # First(old)
    BY <2>1, <1>3, <1>b DEF PlaceInv, TodoFresh
  <2> QED BY <2>1, <2>2
<1>4. misgc \/ \A e \in T : \A c \in Commands : Due(c, e.item) => InOrder(c, e, T)
  BY <1>3 DEF InOrder
<1> HIDE DEF T
<1> QED BY <1>b, <1>1, <1>2, <1>4, BeginOrder

\* Every step keeps effects in order.
LEMMA NextOrdered == Base /\ PlaceInv /\ Times /\ LockInv /\ Ordered /\ [Next]_vars => Ordered'
<1> SUFFICES ASSUME Base, PlaceInv, Times, LockInv, Ordered, [Next]_vars PROVE Ordered'
  OBVIOUS
<1>a. TypeInv /\ MarksPassed
  BY DEF Base, Times
<1>1. CASE \E a \in Actors : Pop(a) \/ RunEnds(a)
  BY <1>1, PopOrder, RunEndsOrder
<1>2. CASE ~\E a \in Actors : Pop(a) \/ RunEnds(a)
  <2>1. /\ \A a \in Actors : Todo(a)' = Todo(a)
        /\ \/ ran' = ran
           \/ \E d \in Commands \ Slotted : ran' = Append(ran, d)
    <3>1. ASSUME NEW p \in buffer, Take(p)
          PROVE  /\ \A a \in Actors : Todo(a)' = Todo(a)
                 /\ \/ ran' = ran
                    \/ \E d \in Commands \ Slotted : ran' = Append(ran, d)
      <4>1. /\ \A a \in Actors : Todo(a)' = Todo(a)
            /\ ran' = ran \/ p.cmd \notin Slotted
        BY <3>1, TakenPlaces
      <4>2. ran' = ran \/ ran' = Append(ran, p.cmd)
        BY <3>1 DEF Take, TakeStart, TakeEnd, TakeEndFails, TakeLateEnd
      <4>3. p.cmd \in Commands
        BY <1>a DEF TypeInv, Payloads
      <4> QED BY <4>1, <4>2, <4>3
    <3>2. ASSUME NEW a \in Actors, Locked(a)
          PROVE  ran' = ran /\ \A b \in Actors : Todo(b)' = Todo(b)
      BY <3>2, <1>a, PcWrites DEF Locked, Pcs, Todo
    <3>3. CASE (~\E a \in Actors : ActorStep(a)) /\ ~\E p \in buffer : Take(p)
      BY <3>3, <1>a, QuietKeeps DEF Todo, PlaceInv
    <3> QED BY <3>1, <3>2, <3>3, <1>2 DEF ActorStep
  <2> SUFFICES ASSUME ~misgc' PROVE TodoOrdered' /\ RanOrdered'
    BY DEF Ordered
  <2>2. TodoOrdered /\ RanOrdered
    BY ClockMoves DEF Ordered
  <2>3. \A c \in Commands : Dropped(c) => Dropped(c)'
    BY StatusStays DEF Dropped
  <2>4. /\ RanItems \subseteq RanItems' /\ RanItems' \subseteq RanItems \cup (Commands \ Slotted)
        /\ \A y, z : Before(y, z) => Before(y, z)'
    <3>1. CASE ran' = ran
      BY <3>1 DEF RanItems, Before
    <3>2. ASSUME NEW d \in Commands \ Slotted, ran' = Append(ran, d)
          PROVE  /\ RanItems \subseteq RanItems' /\ RanItems' \subseteq RanItems \cup (Commands \ Slotted)
                 /\ \A y, z : Before(y, z) => Before(y, z)'
      BY <3>2, <1>a, RanGrows
    <3> QED BY <3>1, <3>2, <2>1
  <2>5. TodoOrdered'
    <3> SUFFICES ASSUME NEW b \in Actors, NEW e \in Todo(b), NEW c \in Commands, Due(c, e.item)'
                 PROVE  Dropped(c)' \/ c \in RanItems' \/ \E f \in Todo(b) : f.item = c /\ f.at < e.at
      BY <2>1 DEF TodoOrdered, InOrder
    <3>1. \/ e.item \in Slotted /\ norm[e.item] = "completed"
          \/ e.item \in Checkpoints /\ task[e.item].pc \notin {"off", "wait", "failed"}
      <4>1. e \in Entries
        BY <1>a DEF TypeInv, Tasks, Todo
      <4> QED BY <4>1 DEF Entries, PlaceInv, TodoFresh, RequestsAppended, Appended
    <3>2. InOrder(c, e, Todo(b))
      BY <3>1, <1>a, <2>2, DueStays DEF TodoOrdered
    <3> QED BY <3>2, <2>3, <2>4 DEF InOrder
  <2>6. RanOrdered'
    <3> SUFFICES ASSUME NEW y \in RanItems', NEW c \in Commands, Due(c, y)'
                 PROVE  Dropped(c)' \/ Before(c, y)'
      BY DEF RanOrdered
    <3>1. CASE y \in RanItems
      <4>1. y \in Commands \cup Checkpoints
        BY <3>1, <1>a DEF RanItems, TypeInv
      <4>2. \/ y \in Slotted /\ norm[y] = "completed"
            \/ y \in Commands \ Slotted
            \/ y \in Checkpoints /\ task[y].pc \notin {"off", "wait", "failed"}
        BY <4>1, <3>1 DEF PlaceInv, RanKnown, RequestsAppended, Appended
      <4>3. Due(c, y)
        BY <4>2, <1>a, DueStays
      <4> QED BY <4>3, <3>1, <2>2, <2>3, <2>4 DEF RanOrdered
    <3>2. CASE y \in Commands \ Slotted
      BY <3>2 DEF Due
    <3> QED BY <3>1, <3>2, <2>4
  <2> QED BY <2>5, <2>6
<1> QED BY <1>1, <1>2

\* At first nothing is to be ordered.
LEMMA InitOrdered == Init => Times /\ Ordered
<1> SUFFICES ASSUME Init PROVE Times /\ Ordered
  OBVIOUS
<1>1. /\ \A c \in Commands : git[c].phase = "new" /\ git[c].at = 0 /\ norm[c] = "none"
      /\ \A a \in Actors : task[a].pc = "off" /\ task[a].todo = {}
      /\ entries = {} /\ ran = <<>> /\ clock = 0 /\ nextSeq = 0 /\ due = 1
      /\ \A h \in Checkpoints : mark[h] = 0
  BY DEF Init, Off
<1>2. Times
  BY <1>1, ActorKinds DEF Times, StartTimes, EffectKept, MarksPassed, EntryTimes, Placed, Todo
<1>3. Ordered
  BY <1>1 DEF Ordered, TodoOrdered, RanOrdered, Todo, RanItems
<1> QED BY <1>2, <1>3

\* All the parts together are an invariant.
THEOREM SpecOrdered == Spec => [](Base /\ PlaceInv /\ LockInv /\ Times /\ Ordered)
<1>1. Init => Times /\ Ordered /\ LockInv
  BY InitOrdered, InitLock
<1>2. Base /\ PlaceInv /\ LockInv /\ Times /\ Ordered /\ [Next]_vars => (LockInv /\ Times /\ Ordered)'
  <2>1. Base => TypeInv
    BY DEF Base
  <2> QED BY <2>1, NextLock, NextTimes, NextOrdered
<1> QED BY <1>1, <1>2, SpecPlaces, PTL DEF Spec

\* The watermark of ingest_checkpoint_payload does what it is for: an effect whose event was
\* read before a request comes before the checkpoint, until a lock in use is collected.
THEOREM CheckpointAfterEarlierHolds == Spec => []CheckpointAfterEarlier
<1>1. TypeInv /\ Ordered => CheckpointAfterEarlier
  <2> SUFFICES ASSUME TypeInv, Ordered, NEW h \in Checkpoints \cap RanItems, NEW c \in Commands, ~misgc,
                      ReadOf(c) \in 1..mark[h]
               PROVE  Before(c, h) \/ Dropped(c)
    BY DEF CheckpointAfterEarlier, ReadOf
  <2>1. Due(c, h)
    BY DEF Due, TypeInv
  <2> QED BY <2>1 DEF Ordered, RanOrdered
<1>2. Base => TypeInv
  BY DEF Base
<1> QED BY <1>1, <1>2, SpecOrdered, PTL

\* The slots do what they are for: effects of commands come in the order of their starts,
\* until a lock in use is collected.
THEOREM CommandsInStartOrderHolds == Spec => []CommandsInStartOrder
<1>1. TypeInv /\ Ordered => CommandsInStartOrder
  <2> SUFFICES ASSUME TypeInv, Ordered, NEW c \in Slotted, NEW d \in Slotted, ~misgc, d \in RanItems,
                      git[c].at < git[d].at, seqOf[c].start \in 1..seqOf[d].end
               PROVE  Before(c, d) \/ Dropped(c)
    BY DEF CommandsInStartOrder
  <2>1. seqOf[d].end \in Nat /\ c \in Commands
    BY DEF TypeInv, Seqs
  <2>2. Due(c, d)
    BY <2>1 DEF Due
  <2> QED BY <2>1, <2>2 DEF Ordered, RanOrdered
<1>2. Base => TypeInv
  BY DEF Base
<1> QED BY <1>1, <1>2, SpecOrdered, PTL

(***************************************************************************)
(* Counters and bounds                                                      *)
(***************************************************************************)
\* The clock counts starts and appended requests; the channel and the buffer keep their
\* capacity; locks are numbered.
Started == {c \in Commands : git[c].phase # "new"}
Requests == {h \in Checkpoints : task[h].pc \in Appended}
Counted == clock = Cardinality(Started) + Cardinality(Requests)
Sizes == /\ Len(queue) <= Capacity
         /\ IsFiniteSet(buffer) /\ Cardinality(buffer) <= Capacity
LockCounted == lock.id <= lock.made

\* Counting one more member.
LEMMA OneMore ==
  ASSUME NEW S, IsFiniteSet(S), NEW x, x \notin S
  PROVE  IsFiniteSet(S \cup {x}) /\ Cardinality(S \cup {x}) = Cardinality(S) + 1 /\ Cardinality(S) \in Nat
BY FS_AddElement, FS_CardinalityType

\* Both counts are those of finite sets.
LEMMA CountsFinite ==
  /\ IsFiniteSet(Started) /\ IsFiniteSet(Requests)
  /\ Cardinality(Started) \in Nat /\ Cardinality(Requests) \in Nat
  /\ Cardinality(Started) <= Cardinality(Commands) /\ Cardinality(Requests) <= Cardinality(Checkpoints)
<1>1. Started \in SUBSET Commands /\ Requests \in SUBSET Checkpoints
  BY DEF Started, Requests
<1> QED BY <1>1, FS_Subset, FS_CardinalityType

\* A request is appended under the lock, and stays so.
LEMMA RequestsMove ==
  ASSUME TypeInv, [Next]_vars, NEW h \in Checkpoints
  PROVE  Locked(h) \/ (task'[h].pc \in Appended <=> task[h].pc \in Appended)
<1>0. h \in Actors /\ h # Worker
  BY ActorKinds
<1>1. CASE UNCHANGED task
  BY <1>1
<1>2. ASSUME NEW g \in Checkpoints, Request(g) \/ RequestStep(g)
      PROVE  task'[h].pc \in Appended <=> task[h].pc \in Appended
  <2>0. g \in Actors
    BY ActorKinds
  <2>1. CASE Passed(g)
    <3>1. Clone(g, Worker, "none") /\ At(g, "wait")
      BY <2>1 DEF Passed
    <3>2. task'[g].pc = "lock" /\ \A b \in Actors \ {g} : task'[b] = task[b]
      BY <3>1, <2>0, CloneWrites
    <3> QED BY <3>1, <3>2, <1>0 DEF Appended, At
  <2>2. ASSUME NEW pc \in {"wait", "failed", "done"}, task' = [task EXCEPT ![g].pc = pc],
               IF pc = "done" THEN At(g, "respond") ELSE At(g, "off") \/ At(g, "wait")
        PROVE task'[h].pc \in Appended <=> task[h].pc \in Appended
    <3>1. task'[g].pc = pc /\ \A b \in Actors \ {g} : task'[b] = task[b]
      BY <2>0, <2>2, PcWrites DEF Pcs
    <3> QED BY <3>1, <2>2, <1>0 DEF Appended, At
  <2> QED BY <1>2, <2>1, <2>2 DEF Request, RequestStep, TimesOut, Respond
<1>3. ASSUME NEW a \in Actors, ActorStep(a)
      PROVE  Locked(h) \/ (task'[h].pc \in Appended <=> task[h].pc \in Appended)
  BY <1>3, <1>0, ActorMoves DEF Appended, At
<1>4. ASSUME WorkerStep PROVE task'[h] = task[h]
  BY <1>4, WorkerAlone
<1>5. ASSUME NEW c \in Commands, Start(c) \/ Exit(c) \/ Kill(c) \/ ConnStep(c) PROVE UNCHANGED task
  BY <1>5 DEF Start, Exit, Kill, Leave, ConnStep, Read, Enqueue, Close
<1>6. CASE Sweep \/ Shutdown \/ ProcessExit \/ UNCHANGED vars
  BY <1>1, <1>6 DEF Sweep, Shutdown, ProcessExit, vars
<1> QED BY <1>1, <1>2, <1>3, <1>4, <1>5, <1>6 DEF Next

\* Every step counts what it should.
LEMMA NextCounted == TypeInv /\ TypeInv' /\ Dialogue /\ Counted /\ [Next]_vars => Counted'
<1> SUFFICES ASSUME TypeInv, TypeInv', Dialogue, Counted, [Next]_vars PROVE Counted'
  OBVIOUS
<1>a. clock \in Nat
  BY DEF TypeInv
<1>1. ASSUME NEW c \in Commands, Start(c) PROVE Counted'
  <2>1. c \notin Started /\ Started' = Started \cup {c}
    <3>1. git[c].phase = "new"
      BY <1>1 DEF Start
    <3>2. git'[c].phase = "live" /\ \A d \in Commands \ {c} : git'[d] = git[d]
      BY <1>1, StartWrites
    <3> QED BY <3>1, <3>2 DEF Started
  <2>2. Requests' = Requests /\ clock' = clock + 1
    BY <1>1 DEF Start, Requests
  <2>3. /\ Cardinality(Started') = Cardinality(Started) + 1
        /\ Cardinality(Started) \in Nat /\ Cardinality(Requests) \in Nat
    BY <2>1, CountsFinite, OneMore
  <2> QED BY <2>2, <2>3, <1>a DEF Counted
<1>2. ASSUME NEW h \in Checkpoints, Locked(h) PROVE Counted'
  <2>1. h \in Actors /\ h # Worker
    BY ActorKinds
  <2>2. h \notin Requests /\ Requests' = Requests \cup {h}
    <3>1. At(h, "lock") /\ task'[h].pc = "pop" /\ \A b \in Actors \ {h} : task'[b] = task[b]
      BY <1>2, <2>1, PcWrites DEF Locked, Pcs
    <3> QED BY <3>1, ActorKinds DEF Requests, At, Appended
  <2>3. Started' = Started /\ clock' = clock + 1
    BY <1>2, <2>1 DEF Locked, Started, gitVars
  <2>4. /\ Cardinality(Requests') = Cardinality(Requests) + 1
        /\ Cardinality(Started) \in Nat /\ Cardinality(Requests) \in Nat
    BY <2>2, CountsFinite, OneMore
  <2> QED BY <2>3, <2>4, <1>a DEF Counted
<1>3. CASE ~(\E c \in Commands : Start(c)) /\ ~(\E h \in Checkpoints : Locked(h))
  <2>1. Requests' = Requests
    BY <1>3, RequestsMove DEF Requests
  <2>2. \A c \in Commands : git'[c].phase # "new" <=> git[c].phase # "new"
    <3>1. CASE git' = git
      BY <3>1
    <3>2. ASSUME NEW c \in Commands, Exit(c) \/ Kill(c)
          PROVE  \A d \in Commands : git'[d].phase # "new" <=> git[d].phase # "new"
      <4>1. ASSUME NEW events \in {<<>>, <<"exit">>, <<"exit", "atexit">>}, NEW k \in BOOLEAN, Leave(c, events, k)
            PROVE  \A d \in Commands : git'[d].phase # "new" <=> git[d].phase # "new"
        <5>1. events \in Seq(Events) /\ git[c].phase = "live"
          BY <4>1, LeaveEvents DEF Leave
        <5>2. git'[c].phase = "gone" /\ \A d \in Commands \ {c} : git'[d] = git[d]
          BY <4>1, <5>1, LeaveWrites
        <5> QED BY <5>1, <5>2
      <4> QED BY <4>1, <3>2 DEF Exit, Kill
    <3> QED BY <3>1, <3>2, <1>3, Untouched
  <2>3. clock' = clock
    <3>1. \A a \in Actors : Locked(a) => a = Worker /\ clock' = clock
      BY <1>3 DEF Actors, Locked
    <3> QED BY <3>1, <1>3 DEF Next, vars, ConnStep, ActorStep, WorkerStep, RequestStep, Exit, Kill, Leave, Read, Enqueue,
       Close, Pop, RunEnds, Receive, Finish, TakeStart, TakeEnd, TakeEndFails, TakeLateEnd, Passed,
       TimesOut, Respond, Request, Sweep, Shutdown, ProcessExit
  <2>4. Started' = Started
    BY <2>2 DEF Started
  <2> QED BY <2>1, <2>3, <2>4 DEF Counted
<1> QED BY <1>1, <1>2, <1>3

\* Every step respects the capacities, and new locks get new numbers.
LEMMA NextSizes == TypeInv /\ Sizes /\ LockCounted /\ [Next]_vars => Sizes' /\ LockCounted'
<1> SUFFICES ASSUME TypeInv, Sizes, LockCounted, [Next]_vars PROVE Sizes' /\ LockCounted'
  OBVIOUS
<1>a. queue \in Seq(Payloads) /\ Cardinality(buffer) \in Nat
  BY FS_CardinalityType DEF TypeInv, Sizes
<1>1. Sizes'
  <2>1. CASE UNCHANGED <<queue, buffer>>
    BY <2>1 DEF Sizes
  <2>2. ASSUME NEW c \in Commands, Enqueue(c) PROVE Sizes'
    <3>1. /\ buffer' = buffer /\ conn[c].load \in Payloads
          /\ queue' = queue \/ (Len(queue) < Capacity /\ queue' = Append(queue, conn[c].load))
      BY <2>2, EnqueueWrites DEF Enqueue
    <3> QED BY <3>1, <1>a DEF Sizes
  <2>3. CASE Receive
    <3>1. queue # <<>> /\ queue' = Tail(queue)
      BY <2>3 DEF Receive
    <3>2. Len(queue') <= Capacity
      BY <3>1, <1>a DEF Sizes
    <3>3. buffer' = buffer \/ (Cardinality(buffer) < Capacity /\ buffer' = buffer \cup {Head(queue)})
      BY <2>3, <1>a DEF Receive
    <3>4. IsFiniteSet(buffer') /\ Cardinality(buffer') <= Capacity
      <4>1. CASE buffer' = buffer \/ Head(queue) \in buffer
        <5>1. buffer' = buffer
          BY <4>1, <3>3
        <5> QED BY <5>1 DEF Sizes
      <4>2. CASE Cardinality(buffer) < Capacity /\ buffer' = buffer \cup {Head(queue)} /\ Head(queue) \notin buffer
        <5>1. IsFiniteSet(buffer') /\ Cardinality(buffer') = Cardinality(buffer) + 1
          BY <4>2, OneMore DEF Sizes
        <5> QED BY <5>1, <4>2, <1>a
      <4> QED BY <4>1, <4>2, <3>3
    <3> QED BY <3>2, <3>4 DEF Sizes
  <2>4. ASSUME NEW p \in buffer, Take(p) PROVE Sizes'
    <3>1. queue' = queue /\ buffer' = buffer \ {p} /\ buffer' \in SUBSET buffer
      BY <2>4, TakeMoves
    <3>2. IsFiniteSet(buffer') /\ Cardinality(buffer') <= Cardinality(buffer) /\ Cardinality(buffer') \in Nat
      BY <3>1, FS_Subset, FS_CardinalityType DEF Sizes
    <3> QED BY <3>1, <3>2, <1>a DEF Sizes
  <2> QED BY <2>1, <2>2, <2>3, <2>4
          DEF Next, vars, ingestVars, inVars, ConnStep, ActorStep, WorkerStep, RequestStep, Start, Exit, Kill, Leave,
              Read, Close, Locked, Pop, RunEnds, Finish, Take, Passed, TimesOut, Respond, Request, Sweep, Shutdown, ProcessExit
<1>2. LockCounted'
  <2>1. CASE UNCHANGED lock
    BY <2>1 DEF LockCounted
  <2>2. ASSUME NEW a, NEW cmd, NEW put, Clone(a, cmd, put) PROVE LockCounted'
    BY <2>2 DEF Clone, LockCounted, TypeInv
  <2>3. CASE Collect
    BY <2>3 DEF Collect, LockCounted, TypeInv
  <2> QED BY <2>1, <2>2, <2>3
          DEF Next, vars, lockVars, Done, ConnStep, ActorStep, WorkerStep, RequestStep, Start, Exit, Kill, Leave,
              Read, Enqueue, Close, Locked, Pop, RunEnds, Receive, Finish, TakeStart, TakeEnd, TakeEndFails, TakeLateEnd,
              Passed, TimesOut, Respond, Request, Sweep, Shutdown, ProcessExit
<1> QED BY <1>1, <1>2

\* Sequence numbers are used once and the bounds of queue, buffer and clock are kept.
THEOREM TypeOKHolds == Spec => []TypeOK
<1>1. Init => Counted /\ Sizes /\ LockCounted
  <2> SUFFICES ASSUME Init PROVE Counted /\ Sizes /\ LockCounted
    OBVIOUS
  <2>1. Started = {} /\ Requests = {}
    BY ActorKinds DEF Init, Started, Requests, Off, Appended
  <2> QED BY <2>1, FS_EmptySet DEF Init, Counted, Sizes, LockCounted
<1>2. (Base /\ Counted /\ Sizes /\ LockCounted) /\ [Next]_vars => (Counted /\ Sizes /\ LockCounted)'
  BY NextTyped, NextCounted, NextSizes DEF Base
<1>3. Base /\ Times /\ Counted /\ Sizes /\ LockCounted => TypeOK
  <2> SUFFICES ASSUME Base, Times, Counted, Sizes, LockCounted PROVE TypeOK
    OBVIOUS
  <2>a. TypeInv /\ Distinct /\ Numbered /\ due \in Nat /\ NextTaken \in Nat /\ due <= NextTaken /\ nextSeq \in Nat
        /\ clock \in Nat
    BY DEF Base, TypeInv, NextTaken
  <2>1. clock <= Cardinality(Commands) + Cardinality(Checkpoints)
    BY CountsFinite, FS_CardinalityType DEF Counted
  <2>2. \A e \in entries : /\ e.item \in Slotted \cup Checkpoints /\ e.at \in 1..clock
                           /\ e.is \in {"pending", "ready", "canceled"}
    <3> SUFFICES ASSUME NEW e \in entries PROVE
                 e.item \in Slotted \cup Checkpoints /\ e.at \in 1..clock /\ e.is \in {"pending", "ready", "canceled"}
      OBVIOUS
    <3>1. e \in Entries
      BY <2>a DEF TypeInv
    <3>2. e.at # 0 /\ e.at <= clock
      BY <3>1 DEF Times, EntryTimes, Timed, Placed
    <3> QED BY <3>1, <3>2, <2>a DEF Entries
  <2>3. \A p, q \in InQueue : p.seq = q.seq => p = q
    BY <2>a DEF Distinct, InQueue
  <2>4. \A p \in InQueue : p.seq \in due..nextSeq
    <3> SUFFICES ASSUME NEW p \in InQueue PROVE p.seq \in due..nextSeq
      OBVIOUS
    <3>1. p \in Flight
      BY DEF Flight
    <3>2. NextTaken <= p.seq /\ p.seq <= nextSeq /\ p.seq \in Nat
      BY <3>1, <2>a, FlightTyped DEF Numbered
    <3> QED BY <3>2, <2>a
  <2>5. lock.id \in 0..lock.made
    BY <2>a DEF TypeInv, LockCounted
  <2>6. \A a \in Actors : task[a].pc \in Pcs
    BY <2>a DEF TypeInv, Tasks
  <2> QED BY <2>1, <2>2, <2>3, <2>4, <2>5, <2>6, <2>a DEF TypeOK, TypeInv, Sizes, Pcs
<1> QED BY <1>1, <1>2, <1>3, SpecOrdered, PTL DEF Spec
=============================================================================
