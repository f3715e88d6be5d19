------------------------ MODULE FormatCReader_proofs ------------------------
(***************************************************************************)
(* Proofs about the incremental reader, for any number of edits and of      *)
(* overlapping runs: it skips no line, and reads that do not cross read none *)
(* twice.                                                                   *)
(***************************************************************************)
EXTENDS FormatCReader, TLAPS, FiniteSetTheorems, WellFoundedInduction

Ranges == Nat \X Nat
RunOver(U) == [pc : {"idle", "stat", "read", "send"}, from : Nat, to : Nat, todo : U]

\* Offsets and the bounds of chunks are line ends.
Shape ==
  /\ size \in Nat /\ offset \in Nat /\ base \in Nat
  /\ LineEnd(offset) /\ LineEnd(base)
  /\ \E U : {} \in U /\ run \in [Runs -> RunOver(U)]
  /\ \A r \in Runs : LineEnd(run[r].from)
  /\ chunks \in Seq(Ranges)
  /\ crossed \in BOOLEAN

\* The lines up to m were read whole, but for those an old file held.
Covered(m) == \A n \in 1..m : LineEnd(n) /\ n > base => Consumed(n)
\* NoLineSkipped is not inductive: a run sets the offset to the end of a read
\* that began at the offset of an earlier moment.
SkipInv == Covered(offset) /\ \A r \in Runs : At(r, "read") => Covered(run[r].from)

\* Nor is ReadsTile: while nothing crosses, one run reads, from the offset, and
\* none before the offset is set.
Tiled ==
  /\ \A i \in 2..Len(chunks) : chunks[i][1] = chunks[i - 1][2]
  /\ chunks # <<>> => offset = chunks[Len(chunks)][2]
  /\ \A r, s \in Runs : Reading(r) /\ Reading(s) => r = s
  /\ \A r \in Runs : (Reading(r) => init = "done") /\ (At(r, "read") => run[r].from = offset)
  /\ init # "done" => chunks = <<>>
TileInv == ~crossed /\ watch = "on" => Tiled

Fresh ==
  /\ watch = "no" => /\ base = 0 /\ ~timer /\ init = "no" /\ chunks = <<>>
                     /\ \A r \in Runs : ~Reading(r)
  /\ watch = "on" => init \in {"stat", "done"}

IInv == Shape /\ Fresh /\ SkipInv /\ TileInv

(***************************************************************************)
(* Lines and chunks                                                         *)
(***************************************************************************)
LEMMA Even ==
  /\ LineEnd(0)
  /\ \A n \in Nat : LastNewline(n) <= n /\ (n > 0 => LastNewline(n) \in Nat)
  /\ LastNewline(0) = 0
  /\ \A n \in Nat : LineEnd(LastNewline(n))
  /\ \A m, n \in Nat : LineEnd(m) /\ LineEnd(n) /\ m < n => m + 2 <= n
BY DEF LineEnd, LastNewline

LEMMA Longer ==
  ASSUME chunks \in Seq(Ranges), NEW c \in Ranges, chunks' = Append(chunks, c)
  PROVE  /\ chunks' \in Seq(Ranges) /\ Len(chunks') = Len(chunks) + 1 /\ Len(chunks) \in Nat
         /\ DOMAIN chunks' = 1..(Len(chunks) + 1) /\ DOMAIN chunks = 1..Len(chunks)
         /\ chunks'[Len(chunks) + 1] = c
         /\ \A i \in 1..Len(chunks) : chunks'[i] = chunks[i]
OBVIOUS

LEMMA StaysConsumed ==
  ASSUME chunks \in Seq(Ranges), NEW c \in Ranges, chunks' = Append(chunks, c)
  PROVE  \A n : Consumed(n) \/ (c[1] + 2 <= n /\ n <= c[2]) => Consumed(n)'
<1>1. \A i \in DOMAIN chunks : i \in DOMAIN chunks' /\ chunks'[i] = chunks[i]
  BY Longer
<1>2. Len(chunks) + 1 \in DOMAIN chunks' /\ chunks'[Len(chunks) + 1] = c
  BY Longer
<1>3. QED
  BY <1>1, <1>2 DEF Consumed

(***************************************************************************)
(* The steps of a run                                                       *)
(***************************************************************************)
\* A run changes to x.
LEMMA RunShape ==
  ASSUME Shape, NEW r \in Runs, NEW x, run' = [run EXCEPT ![r] = x],
         NEW V, x \in RunOver(V), LineEnd(x.from),
         size' \in Nat, offset' \in Nat, LineEnd(offset'), base' = base,
         chunks' \in Seq(Ranges), crossed' \in BOOLEAN
  PROVE  /\ Shape'
         /\ \A s \in Runs : run'[s] = IF s = r THEN x ELSE run[s]
<1>1. PICK U : {} \in U /\ run \in [Runs -> RunOver(U)]
  BY DEF Shape
<1>2. x \in RunOver(U \cup V) /\ run \in [Runs -> RunOver(U \cup V)]
  BY <1>1 DEF RunOver
<1>3. run' \in [Runs -> RunOver(U \cup V)] /\ {} \in U \cup V
  BY <1>1, <1>2
<1>4. \A s \in Runs : run'[s] = IF s = r THEN x ELSE run[s]
  BY <1>1
<1>5. \A s \in Runs : LineEnd(run'[s].from)
  BY <1>4 DEF Shape
<1>6. QED
  BY <1>3, <1>4, <1>5 DEF Shape

LEMMA IdleRun == Idle \in RunOver({{}}) /\ LineEnd(Idle.from) /\ Idle.pc = "idle"
BY Even DEF Idle, RunOver

\* What does not change the runs, the chunks or where the lines are.
LEMMA StillStep ==
  ASSUME IInv, UNCHANGED <<watch, init, base, offset, run, chunks, crossed>>, size' \in Nat,
         watch = "no" => ~timer'
  PROVE  IInv'
<1>1. Shape'
  BY DEF IInv, Shape
<1>2. SkipInv'
  BY DEF IInv, SkipInv, Covered, Consumed, At
<1>3. Fresh' /\ TileInv'
  BY DEF IInv, Fresh, TileInv, Tiled, Reading, At
<1>4. QED
  BY <1>1, <1>2, <1>3 DEF IInv

\* A run that is not, and does not come to be, reading the file.
LEMMA AsideStep ==
  ASSUME IInv, NEW r \in Runs, NEW x, run' = [run EXCEPT ![r] = x], NEW V, x \in RunOver(V),
         LineEnd(x.from), x.pc \notin {"stat", "read"},
         UNCHANGED <<size, watch, init, base, offset, timer, chunks, crossed>>
  PROVE  IInv'
<1>1. Shape' /\ \A s \in Runs : run'[s] = IF s = r THEN x ELSE run[s]
  BY RunShape DEF IInv, Shape
<1>2. SkipInv'
  BY <1>1 DEF IInv, SkipInv, Covered, Consumed, At
<1>3. \A s \in Runs : (Reading(s)' => Reading(s)) /\ (At(s, "read")' => At(s, "read") /\ run'[s] = run[s])
  BY <1>1 DEF Reading, At
<1>4. Fresh'
  BY <1>3 DEF IInv, Fresh
<1>5. TileInv'
  BY <1>3 DEF IInv, TileInv, Tiled
<1>6. QED
  BY <1>1, <1>2, <1>4, <1>5 DEF IInv

LEMMA FieldsOf ==
  ASSUME Shape, NEW r \in Runs, NEW todo
  PROVE  /\ run[r].from \in Nat /\ run[r].to \in Nat /\ LineEnd(run[r].from)
         /\ \E V : [run[r] EXCEPT !.todo = todo] \in RunOver(V)
         /\ [run[r] EXCEPT !.todo = todo].pc = run[r].pc
         /\ [run[r] EXCEPT !.todo = todo].from = run[r].from
<1>1. PICK U : run \in [Runs -> RunOver(U)]
  BY DEF Shape
<1>2. run[r] \in RunOver(U)
  BY <1>1
<1>3. [run[r] EXCEPT !.todo = todo] \in RunOver({todo})
  BY <1>2 DEF RunOver
<1>4. QED
  BY <1>2, <1>3 DEF RunOver, Shape

LEMMA FlushInv == IInv /\ Flush => IInv'
<1> SUFFICES ASSUME IInv, Flush PROVE IInv'
  OBVIOUS
<1>1. size' \in Nat /\ timer' = timer
  BY DEF Flush, IInv, Shape
<1>2. watch = "no" => ~timer'
  BY <1>1 DEF IInv, Fresh
<1>3. UNCHANGED <<watch, init, base, offset, run, chunks, crossed>>
  BY DEF Flush, ghosts
<1>4. QED
  BY <1>1, <1>2, <1>3, StillStep

LEMMA DeliverInv == IInv /\ Deliver => IInv'
<1> SUFFICES ASSUME IInv, Deliver PROVE IInv'
  OBVIOUS
<1>1. UNCHANGED <<watch, init, base, offset, run, chunks, crossed>> /\ size' \in Nat
  BY DEF Deliver, ghosts, IInv, Shape
<1>2. watch = "on"
  BY DEF Deliver
<1>3. QED
  BY <1>1, <1>2, StillStep

LEMMA WatchInv == IInv /\ Watch => IInv'
<1> SUFFICES ASSUME IInv, Watch PROVE IInv'
  OBVIOUS
<1>1. /\ watch = "no" /\ watch' = "on" /\ init' = "stat"
      /\ UNCHANGED <<size, offset, timer, run, chunks, crossed>>
  BY DEF Watch, ghosts
<1>2. base' \in Nat /\ LineEnd(base') /\ base = 0
  BY <1>1, Even DEF Watch, IInv, Shape, Fresh
<1>3. chunks = <<>> /\ \A r \in Runs : ~Reading(r)
  BY <1>1 DEF IInv, Fresh
<1>4. Shape'
  BY <1>1, <1>2 DEF IInv, Shape
<1>5. Fresh'
  BY <1>1 DEF Fresh
<1>6. SkipInv'
  BY <1>1, <1>2 DEF IInv, Shape, SkipInv, Covered, Consumed, At
<1>7. TileInv'
  BY <1>1, <1>3 DEF TileInv, Tiled, Reading, At
<1>8. QED
  BY <1>4, <1>5, <1>6, <1>7 DEF IInv

\* dispose clears the offset; the chunks stay where they were read.
LEMMA DisposeInv == IInv /\ Dispose => IInv'
<1> SUFFICES ASSUME IInv, Dispose PROVE IInv'
  OBVIOUS
<1>1. /\ watch' = "off" /\ offset' = 0
      /\ UNCHANGED <<size, init, base, run, chunks, crossed>>
  BY DEF Dispose, ghosts
<1>2. Shape'
  BY <1>1, Even DEF IInv, Shape
<1>3. Fresh' /\ TileInv'
  BY <1>1 DEF Fresh, TileInv
<1>4. SkipInv'
  BY <1>1 DEF IInv, SkipInv, Covered, Consumed, At
<1>5. QED
  BY <1>2, <1>3, <1>4 DEF IInv

(***************************************************************************)
(* initOffset                                                               *)
(***************************************************************************)
\* The offset is set, to 0 or to what an old file held.
LEMMA InitStep ==
  ASSUME IInv, init = "stat", init' = "done", offset' \in {0, base},
         crossed' = (crossed \/ \E s \in Runs : Reading(s) \/ offset # 0),
         UNCHANGED <<size, watch, base, timer, chunks>>,
         Shape', \A r \in Runs : At(r, "read")' => At(r, "read") /\ run'[r] = run[r],
         \A r, s \in Runs : Reading(r)' /\ Reading(s)' => r = s \/ Reading(r) \/ Reading(s)
  PROVE  IInv'
<1>1. Fresh'
  BY DEF IInv, Fresh
<1>2. Covered(offset)'
  BY DEF IInv, Shape, Covered, Consumed
<1>3. SkipInv'
  BY <1>2 DEF IInv, SkipInv, Covered, Consumed, At
<1>4. ASSUME ~crossed', watch' = "on" PROVE Tiled'
  <2>1. ~crossed /\ Tiled /\ chunks = <<>>
    BY <1>4 DEF IInv, TileInv, Tiled
  <2>2. \A s \in Runs : ~Reading(s)
    BY <1>4
  <2>3. \A s \in Runs : ~At(s, "read")'
    BY <2>2 DEF Reading, At
  <2>4. QED
    BY <2>1, <2>2, <2>3 DEF Tiled
<1>5. QED
  BY <1>1, <1>3, <1>4 DEF IInv, TileInv

\* A run that starts.
LEMMA Started ==
  ASSUME Shape, NEW r \in Runs, StartRun(r), UNCHANGED size, offset' \in Nat, LineEnd(offset'),
         base' = base, chunks' \in Seq(Ranges), crossed' \in BOOLEAN
  PROVE  /\ Shape'
         /\ \A s \in Runs : s # r => run'[s] = run[s]
         /\ Reading(r)' /\ ~At(r, "read")' /\ ~Reading(r)
<1> DEFINE x == [Idle EXCEPT !.pc = "stat"]
<1>1. run' = [run EXCEPT ![r] = x] /\ ~Reading(r)
  BY DEF StartRun, At, Reading
<1>2. x \in RunOver({{}}) /\ LineEnd(x.from) /\ x.pc = "stat"
  BY Even DEF Idle, RunOver
<1> HIDE DEF x
<1>3. Shape' /\ \A s \in Runs : run'[s] = IF s = r THEN x ELSE run[s]
  BY <1>1, <1>2, RunShape DEF Shape
<1>4. QED
  BY <1>1, <1>2, <1>3 DEF Reading, At

LEMMA InitRecentInv == ASSUME NEW r \in Runs PROVE IInv /\ InitRecent(r) => IInv'
<1> SUFFICES ASSUME IInv, InitRecent(r) PROVE IInv'
  OBVIOUS
<1>1. /\ init = "stat" /\ init' = "done" /\ offset' = 0 /\ StartRun(r)
      /\ crossed' = (crossed \/ \E s \in Runs : Reading(s) \/ offset # 0)
      /\ UNCHANGED <<size, watch, base, timer, chunks>>
  BY DEF InitRecent
<1>2. crossed' \in BOOLEAN /\ chunks' \in Seq(Ranges) /\ Shape
  BY <1>1 DEF IInv, Shape
<1>3. Shape' /\ (\A s \in Runs : s # r => run'[s] = run[s]) /\ ~At(r, "read")'
  BY <1>1, <1>2, Even, Started
<1>4. \A s \in Runs : At(s, "read")' => At(s, "read") /\ run'[s] = run[s]
  BY <1>3 DEF At
<1>5. \A s, t \in Runs : Reading(s)' /\ Reading(t)' => s = t \/ Reading(s) \/ Reading(t)
  BY <1>3 DEF Reading
<1>6. QED
  BY <1>1, <1>3, <1>4, <1>5, InitStep

LEMMA InitOldInv == IInv /\ (InitOld \/ InitFails) => IInv'
<1> SUFFICES ASSUME IInv, InitOld \/ InitFails PROVE IInv'
  OBVIOUS
<1>1. /\ init = "stat" /\ init' = "done" /\ offset' \in {0, base}
      /\ crossed' = (crossed \/ \E s \in Runs : Reading(s) \/ offset # 0)
      /\ UNCHANGED <<size, watch, base, timer, chunks, run>>
  BY DEF InitOld, InitFails
<1>2. Shape'
  BY <1>1, Even DEF IInv, Shape
<1>3. \A r \in Runs : At(r, "read")' => At(r, "read") /\ run'[r] = run[r]
  BY <1>1 DEF At
<1>4. \A r, s \in Runs : Reading(r)' /\ Reading(s)' => r = s \/ Reading(r) \/ Reading(s)
  BY <1>1 DEF Reading
<1>5. QED
  BY <1>1, <1>2, <1>3, <1>4, InitStep

(***************************************************************************)
(* processMessagesJsonlIncremental                                          *)
(***************************************************************************)
LEMMA FireInv == ASSUME NEW r \in Runs PROVE IInv /\ Fire(r) => IInv'
<1> SUFFICES ASSUME IInv, Fire(r) PROVE IInv'
  OBVIOUS
<1>1. /\ timer /\ StartRun(r)
      /\ crossed' = (crossed \/ init = "stat" \/ \E s \in Runs : Reading(s))
      /\ UNCHANGED <<size, watch, init, base, offset, chunks>>
  BY DEF Fire
<1>2. crossed' \in BOOLEAN /\ chunks' \in Seq(Ranges) /\ Shape /\ offset' \in Nat /\ LineEnd(offset')
  BY <1>1 DEF IInv, Shape
<1>3. Shape' /\ (\A s \in Runs : s # r => run'[s] = run[s]) /\ ~At(r, "read")'
  BY <1>1, <1>2, Started
<1>4. Fresh'
  BY <1>1 DEF IInv, Fresh
<1>5. SkipInv'
  BY <1>1, <1>3 DEF IInv, SkipInv, Covered, Consumed, At
<1>6. ASSUME ~crossed', watch' = "on" PROVE Tiled'
  <2>1. Tiled /\ init = "done" /\ \A s \in Runs : ~Reading(s)
    BY <1>1, <1>6 DEF IInv, TileInv, Fresh
  <2>2. \A s \in Runs : (Reading(s)' => s = r) /\ ~At(s, "read")'
    BY <2>1, <1>3 DEF Reading, At
  <2>3. QED
    BY <1>1, <2>1, <2>2 DEF Tiled
<1>7. QED
  BY <1>3, <1>4, <1>5, <1>6 DEF IInv, TileInv

LEMMA StatInv == ASSUME NEW r \in Runs PROVE IInv /\ Stat(r) => IInv'
<1> SUFFICES ASSUME IInv, Stat(r) PROVE IInv'
  OBVIOUS
<1> DEFINE y == [Idle EXCEPT !.pc = "read", !.from = offset, !.to = size]
           x == IF size <= offset THEN Idle ELSE y
<1>1. /\ run' = [run EXCEPT ![r] = x] /\ At(r, "stat")
      /\ UNCHANGED <<size, watch, init, base, offset, timer, chunks, crossed>>
  BY DEF Stat, ghosts
<1>2. Shape
  BY DEF IInv
<1>3. y \in RunOver({{}}) /\ y.from = offset /\ y.pc = "read"
  BY <1>2 DEF Idle, RunOver, Shape
<1>4. x \in RunOver({{}}) /\ LineEnd(x.from) /\ (x.pc = "read" => x.from = offset) /\ x.pc # "stat"
  BY <1>2, <1>3, IdleRun DEF Shape
<1> HIDE DEF x
<1>5. Shape' /\ \A s \in Runs : run'[s] = IF s = r THEN x ELSE run[s]
  BY <1>1, <1>2, <1>4, RunShape DEF Shape
<1>6. \A s \in Runs : /\ Reading(s)' => Reading(s)
                      /\ At(s, "read")' => run'[s].from = offset \/ (At(s, "read") /\ run'[s] = run[s])
  BY <1>1, <1>4, <1>5 DEF Reading, At
<1>7. Fresh'
  BY <1>1, <1>6 DEF IInv, Fresh
<1>8. SkipInv'
  BY <1>1, <1>6 DEF IInv, SkipInv, Covered, Consumed
<1>9. TileInv'
  BY <1>1, <1>6 DEF IInv, TileInv, Tiled
<1>10. QED
  BY <1>5, <1>7, <1>8, <1>9 DEF IInv

\* The offset moves to the last line end of what was read, and the chunk
\* begins where the offset was when the stat answered.
LEMMA ReadInv == ASSUME NEW r \in Runs PROVE IInv /\ Read(r) => IInv'
<1> SUFFICES ASSUME IInv, Read(r) PROVE IInv'
  OBVIOUS
<1> DEFINE from == run[r].from
           end == LastNewline(run[r].to)
           todo == New(from, end)
           y == [Idle EXCEPT !.pc = "send", !.todo = todo]
           x == IF todo = {} THEN Idle ELSE y
<1>1. /\ At(r, "read") /\ end > from /\ offset' = end
      /\ chunks' = Append(chunks, <<from, end>>)
      /\ run' = [run EXCEPT ![r] = x]
      /\ UNCHANGED <<size, watch, init, base, timer, crossed>>
  BY DEF Read
<1>2. Shape
  BY DEF IInv
<1>3. from \in Nat /\ LineEnd(from) /\ run[r].to \in Nat
  BY <1>2, FieldsOf
<1>4. end \in Nat /\ LineEnd(end)
  <2>1. run[r].to # 0
    BY <1>1, <1>3, Even
  <2>2. QED
    BY <1>3, <2>1, Even
<1>5. y \in RunOver({todo}) /\ y.from = 0 /\ y.pc = "send"
  BY DEF Idle, RunOver
<1>6. x \in RunOver({{}, todo}) /\ LineEnd(x.from) /\ x.pc \notin {"stat", "read"}
  <2>1. Idle \in RunOver({{}, todo}) /\ y \in RunOver({{}, todo})
    BY <1>5, IdleRun DEF RunOver
  <2>2. QED
    BY <1>5, <2>1, IdleRun, Even
<1> HIDE DEF from, end, x
<1> DEFINE c == <<from, end>>
<1>7. c \in Ranges /\ c[1] = from /\ c[2] = end
  BY <1>3, <1>4 DEF Ranges
<1>8. chunks \in Seq(Ranges) /\ chunks' = Append(chunks, c)
  BY <1>1, <1>2 DEF Shape
<1> HIDE DEF c
<1>9. \A n : Consumed(n) \/ (from + 2 <= n /\ n <= end) => Consumed(n)'
  BY <1>7, <1>8, StaysConsumed
<1>10. /\ chunks' \in Seq(Ranges) /\ Len(chunks') = Len(chunks) + 1 /\ Len(chunks) \in Nat
       /\ chunks'[Len(chunks) + 1] = c /\ \A i \in 1..Len(chunks) : chunks'[i] = chunks[i]
  BY <1>7, <1>8, Longer
<1>11. Shape' /\ \A s \in Runs : run'[s] = IF s = r THEN x ELSE run[s]
  BY <1>1, <1>2, <1>4, <1>6, <1>10, RunShape DEF Shape
<1>12. \A s \in Runs : /\ Reading(s)' => Reading(s) /\ s # r
                       /\ At(s, "read")' => At(s, "read") /\ run'[s] = run[s]
  BY <1>6, <1>11 DEF Reading, At
<1>13. Covered(from)
  BY <1>1 DEF IInv, SkipInv, from
<1>14. Covered(offset)'
  <2> SUFFICES ASSUME NEW n \in 1..end, LineEnd(n), n > base PROVE Consumed(n)'
    BY <1>1 DEF Covered
  <2>1. CASE n <= from
    BY <2>1, <1>3, <1>9, <1>13 DEF Covered
  <2>2. CASE n > from
    BY <2>2, <1>3, <1>4, <1>9, Even
  <2>3. QED
    BY <2>1, <2>2, <1>3
<1>15. SkipInv'
  BY <1>1, <1>9, <1>12, <1>14 DEF IInv, SkipInv, Covered
<1>16. Fresh'
  BY <1>1, <1>12 DEF IInv, Fresh, Reading, At
<1>17. ASSUME ~crossed', watch' = "on" PROVE Tiled'
  <2>1. Tiled /\ init = "done" /\ from = offset
    BY <1>1, <1>17 DEF IInv, TileInv, Tiled, Reading, At, from
  <2>2. \A s \in Runs : ~Reading(s)'
    BY <1>1, <1>12, <2>1 DEF Tiled, Reading, At
  <2>3. \A i \in 2..Len(chunks') : chunks'[i][1] = chunks'[i - 1][2]
    <3> SUFFICES ASSUME NEW i \in 2..Len(chunks') PROVE chunks'[i][1] = chunks'[i - 1][2]
      OBVIOUS
    <3>1. CASE i \in 2..Len(chunks)
      <4>1. i \in 1..Len(chunks) /\ i - 1 \in 1..Len(chunks)
        BY <3>1, <1>10
      <4>2. chunks'[i] = chunks[i] /\ chunks'[i - 1] = chunks[i - 1]
        BY <4>1, <1>10
      <4>3. QED
        BY <3>1, <4>2, <2>1 DEF Tiled
    <3>2. CASE i = Len(chunks) + 1
      <4>1. Len(chunks) >= 1 /\ i - 1 = Len(chunks)
        BY <3>2, <1>10
      <4>2. chunks # <<>>
        BY <4>1
      <4>3. chunks'[i - 1] = chunks[Len(chunks)] /\ chunks'[i] = c
        BY <3>2, <4>1, <1>10
      <4>4. QED
        BY <4>2, <4>3, <1>7, <2>1 DEF Tiled
    <3>3. QED
      BY <3>1, <3>2, <1>10
  <2>4. offset' = chunks'[Len(chunks')][2]
    BY <1>1, <1>7, <1>10
  <2>5. QED
    BY <1>1, <2>1, <2>2, <2>3, <2>4 DEF Tiled, Reading, At
<1>18. QED
  BY <1>11, <1>15, <1>16, <1>17 DEF IInv, TileInv

\* The steps that end a run or leave it something to send.
LEMMA EndingInv ==
  ASSUME NEW r \in Runs, IInv, ReadNoLine(r) \/ ReadError(r) \/ RunThrows(r)
  PROVE  IInv'
<1>1. /\ run' = [run EXCEPT ![r] = Idle]
      /\ UNCHANGED <<size, watch, init, base, offset, timer, chunks, crossed>>
  BY DEF ReadNoLine, ReadError, RunThrows, ghosts
<1>2. QED
  BY <1>1, IdleRun, AsideStep

LEMMA SendingInv ==
  ASSUME NEW r \in Runs, NEW p, IInv, CheckpointOk(r, p) \/ CheckpointFails(r, p)
  PROVE  IInv'
<1> DEFINE B == Batch(r, p)
           left == run[r].todo \ B
           y == [run[r] EXCEPT !.todo = left]
           x == IF left = {} THEN Idle ELSE y
<1>1. /\ run' = Without(r, B) /\ At(r, "send")
      /\ UNCHANGED <<size, watch, init, base, offset, timer, chunks, crossed>>
  BY DEF CheckpointOk, CheckpointFails
<1> HIDE DEF B
<1>2. PICK U : run \in [Runs -> RunOver(U)]
  BY DEF IInv, Shape
<1>3. run' = [run EXCEPT ![r] = x]
  BY <1>1, Zenon DEF Without
<1>4. PICK V : y \in RunOver(V)
  BY FieldsOf DEF IInv
<1>5. y.pc = "send" /\ LineEnd(y.from)
  BY <1>1, FieldsOf DEF IInv, At
<1>6. x \in RunOver(V \cup {{}}) /\ LineEnd(x.from) /\ x.pc \notin {"stat", "read"}
  <2>1. Idle \in RunOver(V \cup {{}}) /\ y \in RunOver(V \cup {{}})
    BY <1>4, IdleRun DEF RunOver
  <2>2. QED
    BY <1>5, <2>1, IdleRun
<1> HIDE DEF x
<1>7. QED
  BY <1>1, <1>3, <1>6, AsideStep

(***************************************************************************)
(* The theorems                                                             *)
(***************************************************************************)
LEMMA InitIInv == Init => IInv
<1> SUFFICES ASSUME Init PROVE IInv
  OBVIOUS
<1>1. \A r \in Runs : run[r] = Idle /\ ~Reading(r) /\ ~At(r, "read")
  BY IdleRun DEF Init, Reading, At
<1>2. run \in [Runs -> RunOver({{}})]
  BY IdleRun DEF Init
<1>3. Shape
  <2>1. \E U : {} \in U /\ run \in [Runs -> RunOver(U)]
    BY <1>2
  <2>2. chunks \in Seq(Ranges)
    BY DEF Init
  <2>3. \A r \in Runs : LineEnd(run[r].from)
    BY <1>1, IdleRun
  <2>4. QED
    BY <2>1, <2>2, <2>3, Even DEF Init, Shape
<1>4. Fresh /\ TileInv
  BY <1>1 DEF Init, Fresh, TileInv
<1>5. SkipInv
  BY <1>1 DEF Init, SkipInv, Covered
<1>6. QED
  BY <1>3, <1>4, <1>5 DEF IInv

LEMMA Step == IInv /\ [Next]_vars => IInv'
<1> SUFFICES ASSUME IInv, [Next]_vars PROVE IInv'
  OBVIOUS
<1>1. CASE Flush
  BY <1>1, FlushInv
<1>2. CASE Watch
  BY <1>2, WatchInv
<1>3. CASE Deliver
  BY <1>3, DeliverInv
<1>4. CASE Dispose
  BY <1>4, DisposeInv
<1>5. CASE InitOld \/ InitFails
  BY <1>5, InitOldInv
<1>6. ASSUME NEW r \in Runs, InitRecent(r) PROVE IInv'
  BY <1>6, InitRecentInv
<1>7. ASSUME NEW r \in Runs, Fire(r) PROVE IInv'
  BY <1>7, FireInv
<1>8. ASSUME NEW r \in Runs, RunStep(r) PROVE IInv'
  <2>1. CASE Stat(r)
    BY <2>1, StatInv
  <2>2. CASE ReadNoLine(r)
    BY <2>2, EndingInv
  <2>3. CASE Read(r)
    BY <2>3, ReadInv
  <2>4. ASSUME NEW p, CheckpointOk(r, p) \/ CheckpointFails(r, p) PROVE IInv'
    BY <2>4, SendingInv
  <2>5. QED
    BY <1>8, <2>1, <2>2, <2>3, <2>4 DEF RunStep
<1>9. ASSUME NEW r \in Runs, ReadError(r) \/ RunThrows(r) PROVE IInv'
  BY <1>9, EndingInv
<1>10. CASE UNCHANGED vars \/ \E p \in Repos : Refill(p)
  <2>1. UNCHANGED <<size, watch, init, base, offset, timer, run, chunks, crossed>>
    BY <1>10 DEF vars, ghosts, Refill
  <2>2. size' \in Nat /\ (watch = "no" => ~timer')
    BY <2>1 DEF IInv, Shape, Fresh
  <2>3. QED
    BY <2>1, <2>2, StillStep
<1>11. QED
  BY <1>1, <1>2, <1>3, <1>4, <1>5, <1>6, <1>7, <1>8, <1>9, <1>10 DEF Next

\* For any number of overlapping runs of the reader, however their stats and
\* reads interleave with initOffset, with appends and with dispose, no complete
\* line behind the offset was left unread (processMessagesJsonlIncremental).
THEOREM NothingSkipped == Spec => []NoLineSkipped
<1>1. IInv => NoLineSkipped
  BY DEF IInv, SkipInv, Covered, NoLineSkipped
<1>2. QED
  BY InitIInv, Step, <1>1, PTL DEF Spec

\* While no two of them read at once, what the runs read tiles the file: no
\* line is read, and so no edit reported, twice.
THEOREM NothingReadTwice == Spec => []ReadsTile
<1>1. IInv => ReadsTile
  BY DEF IInv, TileInv, Tiled, ReadsTile, Last
<1>2. QED
  BY InitIInv, Step, <1>1, PTL DEF Spec

(***************************************************************************)
(* Remembering keys                                                         *)
(***************************************************************************)
\* A set of numbers has a least one (by the well-founded order of the library).
LEMMA LeastNatural ==
  ASSUME NEW S \in SUBSET Nat, S # {}
  PROVE  \E n \in S : \A m \in S : n <= m
<1> DEFINE T == {1..n : n \in S}
<1>1. T \subseteq FiniteSubsetsOf(Nat) /\ T # {}
  <2>1. \A n \in S : IsFiniteSet(1..n) /\ 1..n \in SUBSET Nat
    BY FS_Interval
  <2> QED BY <2>1 DEF FiniteSubsetsOf
<1>2. PICK x \in T : \A y \in T : <<y, x>> \notin StrictSubsetOrdering(Nat)
  <2> HIDE DEF T
  <2> QED BY <1>1, FS_StrictSubsetOrderingWellFounded, WFMin
<1>3. PICK n \in S : x = 1..n
  OBVIOUS
<1>4. ASSUME NEW m \in S, m < n PROVE FALSE
  <2>1. 1..m \in T /\ 1..m \subseteq 1..n /\ n \in 1..n /\ n \notin 1..m
    BY <1>4
  <2>2. <<1..m, x>> \in StrictSubsetOrdering(Nat)
    BY <2>1, <1>3 DEF StrictSubsetOrdering
  <2> QED BY <2>1, <2>2, <1>2
<1>5. QED
  BY <1>4

\* The set of checkpointed actions only ever takes in the key it is given.
LEMMA RememberKeys ==
  ASSUME NEW K, NEW ks \in Seq(K), NEW k \in K
  PROVE  Remember(ks, k) \in Seq(K)
<1> DEFINE more == Append(ks, k)
<1>1. more \in Seq(K) /\ Len(more) = Len(ks) + 1 /\ Len(ks) \in Nat
  OBVIOUS
<1>2. Tail(more) \in Seq(K)
  <2> HIDE DEF more
  <2>1. more # <<>>
    BY <1>1
  <2> QED BY <1>1, <2>1
<1>3. QED
  BY <1>1, <1>2 DEF Remember

\* The same for the keys of a batch: the loop over it exists, and by its number of
\* rounds it holds keys of K.
LEMMA RememberAllKeys ==
  ASSUME NEW K, NEW ks \in Seq(K), NEW B, \A e \in Edits : e \in B => RepoKey[e] \in K
  PROVE  RememberAll(ks, B) \in Seq(K)
<1> DEFINE Round(g, e) == IF e = 0 THEN ks
                          ELSE IF e \in B THEN Remember(g[e - 1], RepoKey[e]) ELSE g[e - 1]
           Upto(g, n) == \A e \in 0..n : g[e] = Round(g, e) /\ g[e] \in Seq(K)
           Bad == {n \in 0..MaxEdits : ~\E g \in [0..MaxEdits -> Seq(K)] : Upto(g, n)}
<1>1. MaxEdits \in Nat
  BY ReaderAssumption
<1>2. Bad = {}
  <2> SUFFICES ASSUME Bad # {} PROVE FALSE
    OBVIOUS
  <2>1. Bad \in SUBSET Nat
    BY <1>1
  <2>2. PICK n \in Bad : \A m \in Bad : n <= m
    <3> HIDE DEF Bad
    <3> QED BY <2>1, LeastNatural
  <2>3. n # 0
    <3>1. Upto([e \in 0..MaxEdits |-> ks], 0)
      BY <1>1
    <3>2. [e \in 0..MaxEdits |-> ks] \in [0..MaxEdits -> Seq(K)]
      OBVIOUS
    <3> QED BY <3>1, <3>2
  <2>4. n - 1 \in 0..MaxEdits /\ n - 1 \notin Bad /\ n \in 1..MaxEdits
    <3>1. n \in 0..MaxEdits
      OBVIOUS
    <3> HIDE DEF Bad
    <3> QED BY <2>2, <2>3, <1>1, <3>1
  <2>5. PICK g \in [0..MaxEdits -> Seq(K)] : Upto(g, n - 1)
    BY <2>4
  <2> DEFINE v == Round(g, n)
             h == [g EXCEPT ![n] = v]
  <2>6. v \in Seq(K)
    <3>1. g[n - 1] \in Seq(K) /\ n \in Edits
      BY <2>4 DEF Edits
    <3>2. n \in B => Remember(g[n - 1], RepoKey[n]) \in Seq(K)
      BY <3>1, RememberKeys
    <3> QED BY <3>1, <3>2, <2>3
  <2>7. h \in [0..MaxEdits -> Seq(K)] /\ h[n] = v /\ \A e \in 0..(n - 1) : h[e] = g[e]
    <3> HIDE DEF v
    <3> QED BY <2>4, <2>6
  <2>8. Upto(h, n)
    <3> SUFFICES ASSUME NEW e \in 0..n PROVE h[e] = Round(h, e) /\ h[e] \in Seq(K)
      OBVIOUS
    <3> HIDE DEF h
    <3>1. CASE e = 0
      BY <3>1, <2>3, <2>4, <2>5, <2>7
    <3>2. CASE e \in 1..(n - 1)
      <4>1. e \in 0..(n - 1) /\ e - 1 \in 0..(n - 1)
        BY <3>2, <2>4
      <4>2. g[e] = Round(g, e) /\ g[e] \in Seq(K)
        BY <4>1, <2>5
      <4>3. Round(g, e) = Round(h, e)
        BY <4>1, <2>7
      <4> QED BY <4>1, <4>2, <4>3, <2>7
    <3>3. CASE e = n
      <4>1. n - 1 \in 0..(n - 1)
        BY <2>4
      <4>2. Round(h, n) = Round(g, n)
        BY <4>1, <2>7
      <4> QED BY <3>3, <4>2, <2>6, <2>7
    <3> QED BY <3>1, <3>2, <3>3, <2>4
  <2>9. \E u \in [0..MaxEdits -> Seq(K)] : Upto(u, n)
    <3> HIDE DEF h, Upto
    <3> QED BY <2>7, <2>8
  <2> QED
    <3> HIDE DEF Upto
    <3> QED BY <2>9
<1>3. PICK g \in [0..MaxEdits -> Seq(K)] : Upto(g, MaxEdits)
  <2> HIDE DEF Upto
  <2>1. MaxEdits \in 0..MaxEdits
    BY <1>1
  <2> QED BY <1>2, <2>1
<1> DEFINE F(u) == [e \in 0..MaxEdits |-> Round(u, e)]
           upto == CHOOSE u : u = F(u)
<1>4. g = F(g)
  <2>1. \A e \in 0..MaxEdits : g[e] = F(g)[e]
    BY <1>3
  <2> HIDE DEF Round
  <2> QED BY <2>1
<1>5. upto = F(upto)
  <2> HIDE DEF F
  <2> QED BY <1>4
<1>6. \A n \in 0..MaxEdits : upto[n] \in Seq(K)
  <2> DEFINE Odd == {n \in 0..MaxEdits : upto[n] \notin Seq(K)}
  <2> HIDE DEF upto
  <2> SUFFICES ASSUME Odd # {} PROVE FALSE
    OBVIOUS
  <2>1. Odd \in SUBSET Nat
    BY <1>1
  <2>2. PICK n \in Odd : \A m \in Odd : n <= m
    <3> HIDE DEF Odd
    <3> QED BY <2>1, LeastNatural
  <2>3. upto[n] = Round(upto, n)
    <3> HIDE DEF Round
    <3> QED BY <1>5
  <2>4. n # 0
    BY <2>3
  <2>5. n - 1 \in 0..MaxEdits /\ n - 1 \notin Odd /\ n \in Edits
    BY <2>2, <2>4, <1>1 DEF Edits
  <2>6. upto[n - 1] \in Seq(K)
    BY <2>5
  <2>7. n \in B => Remember(upto[n - 1], RepoKey[n]) \in Seq(K)
    BY <2>5, <2>6, RememberKeys
  <2> QED BY <2>3, <2>4, <2>6, <2>7
<1>7. RememberAll(ks, B) = upto[MaxEdits]
  BY DEF RememberAll
<1>8. QED
  BY <1>1, <1>6, <1>7

(***************************************************************************)
(* What becomes of the edits of a chunk                                     *)
(***************************************************************************)
\* Another edit was handled under the key that e is looked up by: the same file,
\* or one that routing gives the same name, at the same time.
Twin(e) == \E f \in handled : f # e /\ RepoKey[f] = RawKey[e]
Noted(e) == Handled(e) \/ Twin(e)
Chunk(c) == \A e \in Parsed(c[1], c[2]) : Noted(e)

\* Until dispose every repository is known, and after it none but those found again.
Routed ==
  /\ watch \in {"no", "on", "off"}
  /\ watch # "off" => repos = Repos
  /\ watch = "off" => repos \subseteq refilled

\* The keys are those of handled edits; a run has edits only while it sends them.
Kept ==
  /\ keys \in Seq({RepoKey[e] : e \in handled})
  /\ Routed
  /\ handled \subseteq Edits
  /\ \A r \in Runs : run[r].todo \subseteq Edits /\ (At(r, "send") \/ run[r].todo = {})
\* Every edit of a chunk was noted, and chunks begin and end with lines.
Accounted ==
  /\ watch = "on" => \A i \in DOMAIN chunks : Chunk(chunks[i])
  /\ \A i \in DOMAIN chunks : LineEnd(chunks[i][1]) /\ LineEnd(chunks[i][2])
AInv == Kept /\ Accounted

\* Nothing that is noted is forgotten when a run passes its edits on.
LEMMA StaysNoted ==
  ASSUME handled \subseteq handled', \A s \in Runs : run[s].todo \subseteq run'[s].todo \cup handled'
  PROVE  /\ \A e : Noted(e) => Noted(e)'
         /\ \A c : Chunk(c) => Chunk(c)'
<1>1. \A e : Noted(e) => Noted(e)'
  BY DEF Noted, Handled, Twin
<1>2. QED
  BY <1>1 DEF Chunk, Parsed

LEMMA SetOfKeys ==
  ASSUME NEW S, NEW T, S \subseteq T, NEW s \in Seq({RepoKey[e] : e \in S})
  PROVE  s \in Seq({RepoKey[e] : e \in T})
<1>1. {RepoKey[e] : e \in S} \subseteq {RepoKey[e] : e \in T}
  OBVIOUS
<1>2. QED
  BY <1>1

\* The runs of IInv, one of them changed to x.
LEMMA Changed ==
  ASSUME Shape, NEW r \in Runs, NEW x, run' = [run EXCEPT ![r] = x]
  PROVE  run'[r] = x /\ \A s \in Runs : s # r => run'[s] = run[s]
  BY DEF Shape

\* A step that reads nothing.
LEMMA QuietStep ==
  ASSUME AInv, UNCHANGED chunks, handled \subseteq handled', handled' \subseteq Edits,
         keys' \in Seq({RepoKey[e] : e \in handled'}),
         Routed',
         watch = "off" => watch' = "off", watch = "no" => chunks = <<>>,
         \A s \in Runs : run[s].todo \subseteq run'[s].todo \cup handled',
         \A s \in Runs : run'[s].todo \subseteq Edits /\ (At(s, "send")' \/ run'[s].todo = {})
  PROVE  AInv'
<1>1. Kept'
  BY DEF Kept, At
<1>2. \A c : Chunk(c) => Chunk(c)'
  BY StaysNoted
<1>3. watch' = "on" => \A i \in DOMAIN chunks : Chunk(chunks[i])
  BY DEF AInv, Accounted, Kept, Routed
<1>4. QED
  BY <1>1, <1>2, <1>3 DEF AInv, Accounted

\* The steps around the runs.
LEMMA OutsideStep ==
  ASSUME IInv, AInv, Flush \/ Watch \/ Deliver \/ Dispose \/ InitOld \/ InitFails \/ (\E p \in Repos : Refill(p))
  PROVE  AInv' /\ UNCHANGED run
<1>1. UNCHANGED <<run, handled, chunks>> /\ (UNCHANGED keys \/ keys' = <<>>)
  BY DEF Flush, Watch, Deliver, Dispose, InitOld, InitFails, Refill, ghosts
<1>2. keys' \in Seq({RepoKey[e] : e \in handled'})
  <2>1. CASE UNCHANGED keys
    BY <1>1, <2>1 DEF AInv, Kept
  <2>2. CASE keys' = <<>>
    BY <2>2
  <2>3. QED
    BY <1>1, <2>1, <2>2
<1>3. Routed' /\ (watch = "off" => watch' = "off")
  <2>1. CASE Dispose
    BY <2>1 DEF Dispose, Routed
  <2>2. CASE Watch
    BY <2>2 DEF Watch, AInv, Kept, Routed, ghosts
  <2>3. CASE Flush \/ Deliver \/ InitOld \/ InitFails
    BY <2>3 DEF Flush, Deliver, InitOld, InitFails, AInv, Kept, Routed, ghosts
  <2>4. ASSUME NEW p \in Repos, Refill(p) PROVE Routed' /\ (watch = "off" => watch' = "off")
    BY <2>4 DEF Refill, AInv, Kept, Routed
  <2>5. QED
    BY <2>1, <2>2, <2>3, <2>4
<1>4. watch = "no" => chunks = <<>>
  BY DEF IInv, Fresh
<1>5. \A s \in Runs : run'[s].todo \subseteq Edits /\ (At(s, "send")' \/ run'[s].todo = {})
  BY <1>1 DEF AInv, Kept, At
<1>6. QED
  BY <1>1, <1>2, <1>3, <1>4, <1>5, QuietStep DEF AInv, Kept

\* A run starts, stats, or ends without having read: it has no edits before or after.
LEMMA EmptyStep ==
  ASSUME IInv, AInv, NEW r \in Runs,
         InitRecent(r) \/ Fire(r) \/ Stat(r) \/ ReadNoLine(r) \/ ReadError(r)
  PROVE  /\ AInv'
         /\ \A s \in Runs : run'[s].todo \subseteq run[s].todo
<1> DEFINE y == [Idle EXCEPT !.pc = "stat"]
           z == [Idle EXCEPT !.pc = "read", !.from = offset, !.to = size]
<1>1. y.todo = {} /\ z.todo = {} /\ Idle.todo = {}
  BY DEF Idle
<1>2. \E x \in {y, z, Idle} : run' = [run EXCEPT ![r] = x]
  <2>1. CASE InitRecent(r) \/ Fire(r)
    BY <2>1 DEF InitRecent, Fire, StartRun
  <2>2. CASE Stat(r)
    BY <2>2 DEF Stat
  <2>3. CASE ReadNoLine(r) \/ ReadError(r)
    BY <2>3 DEF ReadNoLine, ReadError
  <2>4. QED
    BY <2>1, <2>2, <2>3
<1>3. PICK x \in {y, z, Idle} : run' = [run EXCEPT ![r] = x]
  BY <1>2
<1>4. x.todo = {}
  BY <1>1
<1> HIDE DEF y, z
<1>5. ~At(r, "send")
  BY DEF InitRecent, Fire, StartRun, Stat, ReadNoLine, ReadError, Reading, At
<1>6. UNCHANGED <<handled, chunks, keys, watch, repos, refilled>>
  BY DEF InitRecent, Fire, StartRun, Stat, ReadNoLine, ReadError, ghosts
<1>7. run'[r] = x /\ \A s \in Runs : s # r => run'[s] = run[s]
  BY <1>3, Changed DEF IInv
<1>8. run[r].todo = {} /\ \A s \in Runs : s = r \/ At(s, "send") \/ run[s].todo = {}
  BY <1>5 DEF AInv, Kept
<1>9. \A s \in Runs : run'[s].todo = run[s].todo /\ (At(s, "send")' \/ run'[s].todo = {})
  BY <1>4, <1>7, <1>8 DEF At
<1>10. watch = "no" => chunks = <<>>
  BY DEF IInv, Fresh
<1>11. AInv'
  BY <1>6, <1>9, <1>10, QuietStep DEF AInv, Kept, Routed
<1>12. QED
  BY <1>9, <1>11

\* A run passes on some of its edits, or gives them all up.
LEMMA PassStep ==
  ASSUME IInv, AInv, NEW r \in Runs, NEW B, NEW x, run' = [run EXCEPT ![r] = x],
         x.todo = run[r].todo \ B, x.pc = "send" \/ x.todo = {}, B \subseteq run[r].todo,
         handled' = handled \cup B, keys' \in Seq({RepoKey[e] : e \in handled'}),
         UNCHANGED <<chunks, watch, repos, refilled>>
  PROVE  /\ AInv'
         /\ \A s \in Runs : run'[s].todo \subseteq run[s].todo
<1>1. run'[r] = x /\ \A s \in Runs : s # r => run'[s] = run[s]
  BY Changed DEF IInv
<1>2. \A s \in Runs : run'[s].todo \subseteq run[s].todo
  BY <1>1
<1>3. \A s \in Runs : run[s].todo \subseteq run'[s].todo \cup handled'
  BY <1>1
<1>4. \A s \in Runs : run'[s].todo \subseteq Edits /\ (At(s, "send")' \/ run'[s].todo = {})
  BY <1>1 DEF AInv, Kept, At
<1>5. watch = "no" => chunks = <<>>
  BY DEF IInv, Fresh
<1>6. AInv'
  BY <1>3, <1>4, <1>5, QuietStep DEF AInv, Kept, Routed
<1>7. QED
  BY <1>2, <1>6

LEMMA SendStep ==
  ASSUME IInv, AInv, NEW r \in Runs, NEW p, CheckpointOk(r, p) \/ CheckpointFails(r, p)
  PROVE  /\ AInv'
         /\ \A s \in Runs : run'[s].todo \subseteq run[s].todo
<1> DEFINE B == Batch(r, p)
           left == run[r].todo \ B
           y == [run[r] EXCEPT !.todo = left]
           x == IF left = {} THEN Idle ELSE y
<1>1. /\ run' = Without(r, B) /\ At(r, "send") /\ handled' = handled \cup B
      /\ keys' = keys \/ keys' = RememberAll(keys, B)
      /\ UNCHANGED <<watch, repos, refilled, chunks>>
  BY DEF CheckpointOk, CheckpointFails
<1>2. B \subseteq run[r].todo
  BY DEF Batch
<1> HIDE DEF B
<1>3. run' = [run EXCEPT ![r] = x]
  BY <1>1, Zenon DEF Without
<1>4. y.todo = left /\ y.pc = "send"
  <2>1. PICK U : run[r] \in RunOver(U)
    BY DEF IInv, Shape
  <2>2. QED
    BY <2>1, <1>1 DEF RunOver, At
<1>5. x.todo = left /\ (x.pc = "send" \/ x.todo = {})
  BY <1>4 DEF Idle
<1>6. keys' \in Seq({RepoKey[e] : e \in handled'})
  <2>1. keys \in Seq({RepoKey[e] : e \in handled'})
    BY <1>1, SetOfKeys DEF AInv, Kept
  <2>2. \A e \in Edits : e \in B => RepoKey[e] \in {RepoKey[f] : f \in handled'}
    BY <1>1
  <2>3. QED
    BY <1>1, <2>1, <2>2, RememberAllKeys
<1> HIDE DEF x
<1>7. QED
  BY <1>1, <1>2, <1>3, <1>5, <1>6, PassStep

LEMMA ThrowStep ==
  ASSUME IInv, AInv, NEW r \in Runs, RunThrows(r)
  PROVE  /\ AInv'
         /\ \A s \in Runs : run'[s].todo \subseteq run[s].todo
<1>1. /\ run' = [run EXCEPT ![r] = Idle] /\ handled' = handled \cup run[r].todo
      /\ UNCHANGED <<keys, watch, repos, refilled, chunks>>
  BY DEF RunThrows
<1>2. keys' \in Seq({RepoKey[e] : e \in handled'})
  BY <1>1, SetOfKeys DEF AInv, Kept
<1>3. Idle.todo = run[r].todo \ run[r].todo /\ Idle.todo = {}
  BY DEF Idle
<1>4. QED
  BY <1>1, <1>2, <1>3, PassStep

\* Edits that a run takes on are in repositories that were found again.
OnlyRefilled ==
  \A s \in Runs : \A e \in run'[s].todo \ run[s].todo : RepoOf[e] \in refilled

\* What the run takes from the chunk is on its way, what it drops has a handled key.
LEMMA ReadStep ==
  ASSUME IInv, AInv, NEW r \in Runs, Read(r)
  PROVE  /\ AInv'
         /\ watch = "off" => OnlyRefilled
<1> DEFINE from == run[r].from
           end == LastNewline(run[r].to)
           todo == New(from, end)
           y == [Idle EXCEPT !.pc = "send", !.todo = todo]
           x == IF todo = {} THEN Idle ELSE y
           c == <<from, end>>
<1>1. /\ At(r, "read") /\ end > from
      /\ chunks' = Append(chunks, c)
      /\ run' = [run EXCEPT ![r] = x]
      /\ UNCHANGED <<watch, repos, refilled, keys, handled>>
  BY DEF Read
<1>2. x.todo = todo /\ (x.pc = "send" \/ x.todo = {})
  BY DEF Idle
<1>3. from \in Nat /\ LineEnd(from) /\ run[r].to \in Nat
  BY FieldsOf DEF IInv
<1>4. end \in Nat /\ LineEnd(end)
  <2>1. run[r].to # 0
    BY <1>1, <1>3, Even
  <2>2. QED
    BY <1>3, <2>1, Even
<1>5. run'[r] = x /\ \A s \in Runs : s # r => run'[s] = run[s]
  <2> HIDE DEF x
  <2> QED BY <1>1, Changed DEF IInv
<1>6. run[r].todo = {}
  BY <1>1 DEF AInv, Kept, At
<1>7. watch = "on" => \A e \in Parsed(from, end) : Noted(e)'
  <2> SUFFICES ASSUME watch = "on", NEW e \in Parsed(from, end) PROVE Noted(e)'
    OBVIOUS
  <2>1. RepoOf[e] \in repos
    BY ReaderAssumption DEF AInv, Kept, Routed, Parsed, Repos
  <2>2. CASE RawKey[e] \notin ToSet(keys)
    <3>1. e \in run'[r].todo
      BY <2>1, <2>2, <1>2, <1>5 DEF New
    <3>2. QED
      BY <3>1 DEF Noted, Handled
  <2>3. CASE RawKey[e] \in ToSet(keys)
    <3>1. PICK i \in DOMAIN keys : RawKey[e] = keys[i]
      BY <2>3 DEF ToSet
    <3>2. keys[i] \in {RepoKey[f] : f \in handled}
      BY <3>1 DEF AInv, Kept
    <3>3. \E f \in handled : RepoKey[f] = RawKey[e]
      BY <3>1, <3>2
    <3>4. QED
      BY <3>3, <1>1 DEF Noted, Handled, Twin
  <2>4. QED
    BY <2>2, <2>3
<1>8. \A s \in Runs : run[s].todo \subseteq run'[s].todo \cup handled'
  BY <1>5, <1>6
<1>9. \A d : Chunk(d) => Chunk(d)'
  BY <1>1, <1>8, StaysNoted
<1>10. \A s \in Runs : run'[s].todo \subseteq Edits /\ (At(s, "send")' \/ run'[s].todo = {})
  <2>1. todo \subseteq Edits
    BY ReaderAssumption DEF New, Parsed
  <2> HIDE DEF todo, x
  <2>2. QED
    BY <1>2, <1>5, <2>1 DEF AInv, Kept, At
<1>11. Kept'
  BY <1>1, <1>10 DEF AInv, Kept, Routed
<1>12. PICK d \in Ranges : d = c /\ d[1] = from /\ d[2] = end
  <2>1. c \in Ranges /\ c[1] = from /\ c[2] = end
    BY <1>3, <1>4 DEF Ranges
  <2> HIDE DEF c
  <2>2. QED
    BY <2>1
<1> HIDE DEF c, x, todo, from, end
<1>13. /\ DOMAIN chunks' = 1..(Len(chunks) + 1) /\ DOMAIN chunks = 1..Len(chunks)
       /\ Len(chunks) \in Nat /\ chunks'[Len(chunks) + 1] = d
       /\ \A i \in 1..Len(chunks) : chunks'[i] = chunks[i]
  BY <1>1, <1>12, Longer DEF IInv, Shape
<1>14. \A i \in DOMAIN chunks' : (i \in DOMAIN chunks /\ chunks'[i] = chunks[i]) \/ chunks'[i] = d
  BY <1>13
<1>15. watch = "on" => Chunk(d)'
  BY <1>7, <1>12 DEF Chunk, Parsed
<1>16. Accounted'
  BY <1>1, <1>3, <1>4, <1>9, <1>12, <1>14, <1>15 DEF AInv, Accounted
<1>17. watch = "off" => OnlyRefilled
  <2>1. watch = "off" => \A e \in todo : RepoOf[e] \in refilled
    BY DEF AInv, Kept, Routed, New, todo
  <2>2. QED
    BY <2>1, <1>2, <1>5 DEF OnlyRefilled
<1>18. QED
  BY <1>11, <1>16, <1>17 DEF AInv

LEMMA InitAccounted == Init => AInv
<1> SUFFICES ASSUME Init PROVE AInv
  OBVIOUS
<1>1. \A r \in Runs : run[r].todo = {}
  BY DEF Init, Idle
<1>2. QED
  BY <1>1 DEF Init, AInv, Kept, Accounted, Routed

LEMMA StepAccounted ==
  ASSUME IInv, AInv, [Next]_vars
  PROVE  /\ AInv'
         /\ watch = "off" => OnlyRefilled
<1>1. CASE Flush \/ Watch \/ Deliver \/ Dispose \/ InitOld \/ InitFails \/ (\E p \in Repos : Refill(p))
  BY <1>1, OutsideStep DEF OnlyRefilled
<1>2. ASSUME NEW r \in Runs, InitRecent(r) \/ Fire(r) \/ Stat(r) \/ ReadNoLine(r) \/ ReadError(r)
      PROVE  AInv' /\ \A s \in Runs : run'[s].todo \subseteq run[s].todo
  BY <1>2, EmptyStep
<1>3. ASSUME NEW r \in Runs, Read(r)
      PROVE  AInv' /\ (watch = "off" => OnlyRefilled)
  BY <1>3, ReadStep
<1>4. ASSUME NEW r \in Runs, NEW p, CheckpointOk(r, p) \/ CheckpointFails(r, p)
      PROVE  AInv' /\ \A s \in Runs : run'[s].todo \subseteq run[s].todo
  BY <1>4, SendStep
<1>5. ASSUME NEW r \in Runs, RunThrows(r)
      PROVE  AInv' /\ \A s \in Runs : run'[s].todo \subseteq run[s].todo
  BY <1>5, ThrowStep
<1>6. CASE UNCHANGED vars
  <2>1. UNCHANGED <<run, keys, handled, chunks, watch, repos, refilled>>
    BY <1>6 DEF vars, ghosts
  <2>2. QED
    BY <2>1 DEF AInv, Kept, Accounted, Chunk, Parsed, Noted, Handled, Twin, At, Routed, OnlyRefilled
<1>7. QED
  BY <1>1, <1>2, <1>3, <1>4, <1>5, <1>6 DEF Next, RunStep, OnlyRefilled

\* An edit behind the offset lies in a chunk, or its two lines in two.
LEMMA DueNoted ==
  ASSUME IInv, AInv, watch = "on", NEW e \in Edits, Due(e)
  PROVE  Noted(e) \/ Split(e)
<1>1. e \in Nat /\ e >= 1 /\ base <= 4 * e - 4 /\ 4 * e <= offset /\ e \in Succeeds
  BY ReaderAssumption DEF Due, Edits
<1>2. base \in Nat /\ offset \in Nat
  BY DEF IInv, Shape
<1>3. LineEnd(4 * e - 2) /\ LineEnd(4 * e)
  <2>1. 4 * e - 2 = 2 * (2 * e - 1) /\ 4 * e = 2 * (2 * e)
    BY <1>1
  <2>2. \A k \in Nat : (2 * k) % 2 = 0
    OBVIOUS
  <2>3. 2 * e - 1 \in Nat /\ 2 * e \in Nat
    BY <1>1
  <2>4. QED
    BY <2>1, <2>2, <2>3 DEF LineEnd
<1>4. Consumed(4 * e - 2) /\ Consumed(4 * e)
  <2>1. 4 * e - 2 \in 1..offset /\ 4 * e \in 1..offset /\ 4 * e - 2 > base /\ 4 * e > base
    BY <1>1, <1>2
  <2>2. QED
    BY <2>1, <1>3 DEF IInv, SkipInv, Covered
<1>5. \A i \in DOMAIN chunks :
        /\ chunks[i][1] \in Nat /\ chunks[i][2] \in Nat
        /\ LineEnd(chunks[i][1]) /\ LineEnd(chunks[i][2])
        /\ chunks[i][1] <= 4 * e - 4 /\ 4 * e <= chunks[i][2] => Noted(e)
  <2> SUFFICES ASSUME NEW i \in DOMAIN chunks
      PROVE  /\ chunks[i][1] \in Nat /\ chunks[i][2] \in Nat
             /\ LineEnd(chunks[i][1]) /\ LineEnd(chunks[i][2])
             /\ chunks[i][1] <= 4 * e - 4 /\ 4 * e <= chunks[i][2] => Noted(e)
    OBVIOUS
  <2>1. chunks[i] \in Ranges
    BY DEF IInv, Shape
  <2>2. LineEnd(chunks[i][1]) /\ LineEnd(chunks[i][2]) /\ Chunk(chunks[i])
    BY DEF AInv, Accounted
  <2>3. QED
    BY <1>1, <2>1, <2>2 DEF Ranges, Chunk, Parsed
<1>6. PICK i \in DOMAIN chunks : chunks[i][1] + 2 <= 4 * e /\ 4 * e <= chunks[i][2]
  BY <1>4 DEF Consumed
<1>7. PICK j \in DOMAIN chunks : chunks[j][1] + 2 <= 4 * e - 2 /\ 4 * e - 2 <= chunks[j][2]
  BY <1>4 DEF Consumed
<1>8. CASE 4 * e <= chunks[j][2]
  BY <1>1, <1>5, <1>7, <1>8
<1>9. CASE chunks[j][2] = 4 * e - 2
  BY <1>9 DEF Split
<1>10. chunks[j][2] <= 4 * e - 2 \/ 4 * e <= chunks[j][2]
  <2>1. 4 * e - 2 \in Nat /\ chunks[j][2] \in Nat /\ LineEnd(chunks[j][2])
    BY <1>1, <1>5
  <2>2. 4 * e - 2 < chunks[j][2] => 4 * e - 2 + 2 <= chunks[j][2]
    BY <2>1, <1>3, Even
  <2>3. QED
    BY <1>1, <2>1, <2>2
<1>11. QED
  BY <1>1, <1>5, <1>7, <1>8, <1>9, <1>10

(***************************************************************************)
(* No wake-up is lost                                                       *)
(***************************************************************************)
\* Something is on its way that reads the file as it is now: an event, a timer,
\* initOffset of a recent file, a run before its stat or with a stat of this size.
Awake ==
  \/ event \/ timer \/ (init = "stat" /\ ~old)
  \/ \E r \in Runs : At(r, "stat") \/ (At(r, "read") /\ run[r].to = size)
Wakes == watch = "on" /\ ~failed => Awake \/ Covered(size)

LEMMA StillCovered ==
  ASSUME Shape, UNCHANGED base,
         UNCHANGED chunks \/ \E c \in Ranges : chunks' = Append(chunks, c)
  PROVE  \A m : Covered(m) => Covered(m)'
<1>1. CASE UNCHANGED chunks
  BY <1>1 DEF Covered, Consumed
<1>2. ASSUME NEW c \in Ranges, chunks' = Append(chunks, c)
      PROVE  \A m : Covered(m) => Covered(m)'
  <2>1. \A n : Consumed(n) => Consumed(n)'
    BY <1>2, StaysConsumed DEF Shape
  <2>2. QED
    BY <2>1 DEF Covered
<1>3. QED
  BY <1>1, <1>2

LEMMA LastLine ==
  ASSUME NEW m \in Nat, NEW n \in 1..m, LineEnd(n)
  PROVE  n \in 1..LastNewline(m)
BY DEF LastNewline, LineEnd

\* What is covered up to the last newline is covered.
LEMMA CoveredToSize ==
  ASSUME NEW m \in Nat, Covered(LastNewline(m))
  PROVE  Covered(m)
<1> SUFFICES ASSUME NEW n \in 1..m, LineEnd(n), n > base PROVE Consumed(n)
  BY DEF Covered
<1>1. n \in 1..LastNewline(m)
  BY LastLine
<1>2. QED
  BY <1>1 DEF Covered

LEMMA CoveredBelow ==
  ASSUME NEW m \in Nat, NEW k \in Nat, k <= m, Covered(m)
  PROVE  Covered(k)
BY DEF Covered

\* The steps around the runs.
LEMMA OutsideWakes ==
  ASSUME IInv, Wakes, Flush \/ Watch \/ Deliver \/ Dispose \/ InitOld \/ InitFails
  PROVE  Wakes'
<1>1. CASE Flush
  <2>1. watch' = "on" => event'
    BY <1>1 DEF Flush
  <2>2. QED
    BY <2>1 DEF Wakes, Awake
<1>2. CASE Watch
  <2>1. (init' = "stat" /\ ~old') \/ (base' = size /\ size' = size)
    BY <1>2 DEF Watch
  <2>2. size \in Nat
    BY DEF IInv, Shape
  <2>3. base' = size /\ size' = size => Covered(size)'
    BY <2>2 DEF Covered
  <2>4. QED
    BY <2>1, <2>3 DEF Wakes, Awake
<1>3. CASE Deliver
  BY <1>3 DEF Deliver, Wakes, Awake
<1>4. CASE Dispose
  BY <1>4 DEF Dispose, Wakes
<1>5. CASE InitOld
  <2>1. UNCHANGED <<size, watch, old, base, event, timer, run, chunks, failed>> /\ old
    BY <1>5 DEF InitOld
  <2>2. Awake => Awake'
    BY <2>1 DEF Awake, At
  <2>3. Covered(size) => Covered(size)'
    BY <2>1 DEF Covered, Consumed
  <2>4. QED
    BY <2>1, <2>2, <2>3 DEF Wakes
<1>6. CASE InitFails
  BY <1>6 DEF InitFails, Wakes
<1>7. QED
  BY <1>1, <1>2, <1>3, <1>4, <1>5, <1>6

\* A run starts.
LEMMA StartWakes ==
  ASSUME IInv, Wakes, NEW r \in Runs, InitRecent(r) \/ Fire(r)
  PROVE  Wakes'
<1>1. StartRun(r)
  BY DEF InitRecent, Fire
<1>2. run'[r] = [Idle EXCEPT !.pc = "stat"]
  BY <1>1 DEF StartRun, IInv, Shape
<1>3. At(r, "stat")'
  BY <1>2 DEF Idle, At
<1>4. QED
  BY <1>3 DEF Wakes, Awake

\* Run r changes to x: unless it was the one that was to read, another or x is.
LEMMA RunWakes ==
  ASSUME IInv, Wakes, NEW r \in Runs, NEW x, run' = [run EXCEPT ![r] = x],
         UNCHANGED <<size, watch, init, old, base, event, timer, failed>>,
         UNCHANGED chunks \/ \E c \in Ranges : chunks' = Append(chunks, c),
         At(r, "stat") \/ (At(r, "read") /\ run[r].to = size)
           => Covered(size)' \/ (x.pc = "read" /\ x.to = size)
  PROVE  Wakes'
<1>1. run'[r] = x /\ \A s \in Runs : s # r => run'[s] = run[s]
  BY Changed DEF IInv
<1>2. Covered(size) => Covered(size)'
  <2>1. \A m : Covered(m) => Covered(m)'
    BY StillCovered DEF IInv
  <2>2. PICK m : m = size
    OBVIOUS
  <2>3. Covered(m)' => Covered(size)'
    BY <2>2 DEF Covered
  <2>4. Covered(size) => Covered(m)
    BY <2>2
  <2>5. QED
    BY <2>1, <2>3, <2>4
<1>3. ASSUME NEW s \in Runs, s # r, At(s, "stat") \/ (At(s, "read") /\ run[s].to = size)
      PROVE  Awake'
  BY <1>1, <1>3 DEF Awake, At
<1>4. CASE x.pc = "read" /\ x.to = size
  BY <1>1, <1>4 DEF Wakes, Awake, At
<1>5. event \/ timer \/ (init = "stat" /\ ~old) => Awake'
  BY DEF Awake
<1>6. QED
  BY <1>2, <1>3, <1>4, <1>5 DEF Wakes, Awake

LEMMA StepWakes ==
  ASSUME IInv, Wakes, [Next]_vars
  PROVE  Wakes'
<1> USE DEF IInv
<1>1. CASE Flush \/ Watch \/ Deliver \/ Dispose \/ InitOld \/ InitFails
  BY <1>1, OutsideWakes
<1>2. ASSUME NEW r \in Runs, InitRecent(r) \/ Fire(r) PROVE Wakes'
  BY <1>2, StartWakes
<1>3. size \in Nat /\ offset \in Nat
  BY DEF Shape
<1>4. ASSUME NEW r \in Runs, Stat(r) PROVE Wakes'
  <2> DEFINE y == [Idle EXCEPT !.pc = "read", !.from = offset, !.to = size]
             x == IF size <= offset THEN Idle ELSE y
  <2>1. run' = [run EXCEPT ![r] = x]
        /\ UNCHANGED <<size, watch, init, old, base, event, timer, failed, chunks>>
    BY <1>4 DEF Stat, ghosts
  <2>2. y.pc = "read" /\ y.to = size
    BY DEF Idle
  <2>3. Covered(size)' \/ (x.pc = "read" /\ x.to = size)
    <3>1. CASE size <= offset
      <4>1. Covered(size)
        BY <3>1, <1>3, CoveredBelow DEF SkipInv
      <4>2. QED
        BY <4>1, <2>1 DEF Covered, Consumed
    <3>2. CASE ~(size <= offset)
      BY <3>2, <2>2
    <3>3. QED
      BY <3>1, <3>2
  <2> HIDE DEF x
  <2>4. QED
    BY <2>1, <2>3, RunWakes
<1>5. ASSUME NEW r \in Runs, ReadNoLine(r) PROVE Wakes'
  <2>1. run' = [run EXCEPT ![r] = Idle] /\ At(r, "read") /\ LastNewline(run[r].to) <= run[r].from
        /\ UNCHANGED <<size, watch, init, old, base, event, timer, failed, chunks>>
    BY <1>5 DEF ReadNoLine, ghosts
  <2>2. run[r].to = size => Covered(size)'
    <3> SUFFICES ASSUME run[r].to = size PROVE Covered(size)'
      OBVIOUS
    <3>1. Covered(run[r].from) /\ run[r].from \in Nat
      BY <2>1, FieldsOf DEF SkipInv
    <3>2. LastNewline(size) \in Nat
      BY <1>3, Even
    <3>3. Covered(LastNewline(size))
      BY <2>1, <3>1, <3>2, CoveredBelow
    <3>4. Covered(size)
      BY <1>3, <3>3, CoveredToSize
    <3>5. QED
      BY <2>1, <3>4 DEF Covered, Consumed
  <2>3. ~At(r, "stat")
    BY <2>1 DEF At
  <2>4. QED
    BY <2>1, <2>2, <2>3, RunWakes
<1>6. ASSUME NEW r \in Runs, Read(r) PROVE Wakes'
  <2> DEFINE from == run[r].from
             end == LastNewline(run[r].to)
             y == [Idle EXCEPT !.pc = "send", !.todo = New(from, end)]
             x == IF New(from, end) = {} THEN Idle ELSE y
             c == <<from, end>>
  <2>1. /\ At(r, "read") /\ offset' = end /\ chunks' = Append(chunks, c)
        /\ run' = [run EXCEPT ![r] = x]
        /\ UNCHANGED <<size, watch, init, old, base, event, timer, failed>>
    BY <1>6 DEF Read
  <2>2. c \in Ranges
    <3>1. from \in Nat /\ run[r].to \in Nat /\ end > from
      BY <1>6, FieldsOf DEF Read
    <3>2. end \in Nat
      BY <3>1, Even
    <3>3. QED
      BY <3>1, <3>2 DEF Ranges
  <2>3. Covered(offset)'
    BY <1>6, ReadInv DEF SkipInv
  <2>4. run[r].to = size => Covered(size)'
    <3> SUFFICES ASSUME run[r].to = size PROVE Covered(size)'
      OBVIOUS
    <3>1. offset' = LastNewline(size') /\ size' \in Nat
      BY <2>1, <1>3
    <3>2. \A n \in 1..size' : LineEnd(n) => n \in 1..offset'
      BY <3>1, LastLine
    <3>3. QED
      BY <2>3, <3>2 DEF Covered
  <2>5. ~At(r, "stat")
    BY <2>1 DEF At
  <2> HIDE DEF x, c
  <2>6. QED
    BY <2>1, <2>2, <2>4, <2>5, RunWakes
<1>7. ASSUME NEW r \in Runs, ReadError(r) PROVE Wakes'
  BY <1>7 DEF ReadError, Wakes
<1>8. ASSUME NEW r \in Runs, NEW p, CheckpointOk(r, p) \/ CheckpointFails(r, p) \/ RunThrows(r)
      PROVE  Wakes'
  <2>1. At(r, "send") /\ UNCHANGED <<size, watch, init, old, base, event, timer, failed, chunks>>
    BY <1>8 DEF CheckpointOk, CheckpointFails, RunThrows
  <2>2. \E x : run' = [run EXCEPT ![r] = x]
    <3> DEFINE B == Batch(r, p)
               left == run[r].todo \ B
    <3>1. run' = Without(r, B) \/ run' = [run EXCEPT ![r] = Idle]
      BY <1>8 DEF CheckpointOk, CheckpointFails, RunThrows
    <3> HIDE DEF B
    <3>2. run' = [run EXCEPT ![r] = IF left = {} THEN Idle ELSE [run[r] EXCEPT !.todo = left]]
          \/ run' = [run EXCEPT ![r] = Idle]
      BY <3>1, Zenon DEF Without
    <3>3. QED
      BY <3>2
  <2>3. PICK x : run' = [run EXCEPT ![r] = x]
    BY <2>2
  <2>4. ~At(r, "stat") /\ ~At(r, "read")
    BY <2>1 DEF At
  <2>5. QED
    BY <2>1, <2>3, <2>4, RunWakes
<1>9. CASE UNCHANGED vars \/ \E p \in Repos : Refill(p)
  <2>1. UNCHANGED <<size, watch, init, old, base, event, timer, run, failed, chunks>>
    BY <1>9 DEF vars, ghosts, Refill
  <2>2. (Awake => Awake') /\ (Covered(size) => Covered(size)')
    BY <2>1 DEF Awake, At, Covered, Consumed
  <2>3. QED
    BY <2>1, <2>2 DEF Wakes
<1>10. QED
  BY <1>1, <1>2, <1>4, <1>5, <1>6, <1>7, <1>8, <1>9 DEF Next, RunStep

LEMMA RestRead == IInv /\ Wakes => AllReadAtRest
<1> SUFFICES ASSUME IInv, Wakes, watch = "on", AtRest, ~failed,
                    NEW n \in 1..size, LineEnd(n), base < n
             PROVE  Consumed(n)
  BY DEF AllReadAtRest
<1>1. \A r \in Runs : run[r].pc = "idle"
  BY DEF AtRest, Free, At
<1>2. ~Awake
  BY <1>1 DEF AtRest, Awake, At
<1>3. base \in Nat /\ size \in Nat
  BY DEF IInv, Shape
<1>4. QED
  BY <1>2, <1>3 DEF Wakes, Covered

\* When keys tell the edits apart: no key as parsed is the key, after routing, of
\* another edit.  (A key is the path and the time; edits of one file without a time,
\* or in the same millisecond, share it, and so do equal paths of a repository and of
\* the workspace.)
KeysApart == \A e, f \in Edits : RepoKey[f] = RawKey[e] => e = f

\* A successful edit behind the offset was checkpointed, failed or is on its way, unless
\* a read ended between its two lines, or another edit went by its key
\* (extractFormatCWriteActions, processFormatCActions).
THEOREM EditsAccountedOrTwin ==
  Spec => [](watch = "on" => \A e \in Edits : Due(e) => Handled(e) \/ Split(e) \/ Twin(e))
<1>1. IInv /\ AInv => (watch = "on" => \A e \in Edits : Due(e) => Handled(e) \/ Split(e) \/ Twin(e))
  BY DueNoted DEF Noted
<1>2. IInv /\ AInv /\ [Next]_vars => (IInv /\ AInv)'
  BY Step, StepAccounted
<1>3. Init => IInv /\ AInv
  BY InitIInv, InitAccounted
<1>4. QED
  BY <1>1, <1>2, <1>3, PTL DEF Spec

\* With keys that tell the edits apart, only the read that ends between the lines.
THEOREM EditsAccountedHolds ==
  ASSUME KeysApart PROVE Spec => []EditsAccounted
<1>1. IInv /\ AInv => EditsAccounted
  <2> SUFFICES ASSUME IInv, AInv, watch = "on", NEW e \in Edits, Due(e)
               PROVE  Handled(e) \/ Split(e)
    BY DEF EditsAccounted
  <2>1. Noted(e) \/ Split(e)
    BY DueNoted
  <2>2. ~Twin(e)
    BY DEF Twin, KeysApart, AInv, Kept
  <2>3. QED
    BY <2>1, <2>2 DEF Noted
<1>2. IInv /\ AInv /\ [Next]_vars => (IInv /\ AInv)'
  BY Step, StepAccounted
<1>3. Init => IInv /\ AInv
  BY InitIInv, InitAccounted
<1>4. QED
  BY <1>1, <1>2, <1>3, PTL DEF Spec

\* After dispose, runs that were waiting for their stat or read go on, and take on no
\* checkpoint but in repositories that a Format A or B run in flight has added again
\* (dispose, processFormatCActions, processExecutionLog).
THEOREM NoCheckpointAfterDisposeHolds == Spec => NoCheckpointAfterDispose
<1>1. IInv /\ AInv /\ [Next]_vars => (IInv /\ AInv)'
  BY Step, StepAccounted
<1>2. Init => IInv /\ AInv
  BY InitIInv, InitAccounted
<1>3. IInv /\ AInv /\ [Next]_vars
        => [watch = "off" => \A r \in Runs : \A e \in run'[r].todo \ run[r].todo :
              RepoOf[e] \in refilled]_vars
  BY StepAccounted DEF OnlyRefilled
<1>4. QED
  BY <1>1, <1>2, <1>3, PTL DEF Spec, NoCheckpointAfterDispose

\* When no event, timer or run is left and no call of the file system failed, every
\* complete line was read: no append falls between a stat and the end of its run.
THEOREM AllReadAtRestHolds == Spec => []AllReadAtRest
<1>1. Init => Wakes
  BY DEF Init, Wakes
<1>2. IInv /\ Wakes /\ [Next]_vars => (IInv /\ Wakes)'
  BY Step, StepWakes
<1>3. QED
  BY InitIInv, <1>1, <1>2, RestRead, PTL DEF Spec
=============================================================================
