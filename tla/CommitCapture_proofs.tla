----------------------- MODULE CommitCapture_proofs -----------------------
(***************************************************************************)
(* Proofs about CommitCapture, for any number of moves of HEAD.             *)
(***************************************************************************)
EXTENDS CommitCapture, TLAPS

\* What every step has to know of the variables.
Typed ==
  /\ reflog \in Seq(Kinds) /\ HEAD <= MaxMoves
  /\ notes \in [Commits -> NoteState]
  /\ hook \in [Commits -> HookState]
  /\ known \in 0..HEAD
  /\ ext \in [Commits -> {"none", "check", "write", "login", "upload", "done"}]
  /\ rewritten \subseteq Commits
  /\ HEAD = 0 => \A n \in Commits : HookAt(n, "none")

\* The lock is held by one hook at a time.
LockOK == HasFlock => \A m, n \in Commits : Holding(m) /\ Holding(n) => m = n

\* A hook that is about to write has found no note, and since it holds the
\* lock nobody but the extension can have written one.
WriteOK ==
  HasFlock => \A n \in Commits :
    HookAt(n, "write") => notes[hook[n].sha] = NoNote \/ ext[hook[n].sha] # "none"

IInv ==
  /\ Typed
  /\ LockOK
  /\ WriteOK
  /\ OverwrittenOnlyBesideExtension

LEMMA InitInv == Init => IInv
<1> SUFFICES ASSUME Init PROVE IInv
  OBVIOUS
<1>1. MaxMoves \in Nat
  BY CaptureAssumption
<1>2. Typed
  BY <1>1 DEF Init, Typed, HEAD, Commits, NoNote, NoteState, HookState, HookAt
<1>3. LockOK /\ WriteOK /\ OverwrittenOnlyBesideExtension
  BY DEF Init, LockOK, WriteOK, OverwrittenOnlyBesideExtension, Holding, HookAt
<1>4. QED
  BY <1>2, <1>3 DEF IInv

\* Steps that leave the hooks alone.  A note may be written for a commit that
\* the extension handles, and the extension never takes a commit back.
LEMMA QuietStep ==
  ASSUME IInv, Typed', hook' = hook,
         \A n \in Commits : notes'[n] = notes[n] \/ ext'[n] # "none",
         \A n \in Commits : ext[n] # "none" => ext'[n] # "none",
         \A n \in rewritten' : n \in rewritten \/ ext'[n] # "none"
  PROVE  IInv'
<1>1. LockOK'
  BY DEF IInv, LockOK, Holding
<1>2. WriteOK'
  BY DEF IInv, Typed, WriteOK, HookAt, HookState
<1>3. OverwrittenOnlyBesideExtension'
  BY DEF IInv, Typed, OverwrittenOnlyBesideExtension
<1>4. QED
  BY <1>1, <1>2, <1>3 DEF IInv

Free == {"none", "begin", "lock", "locked", "done", "cherry-pick"}

\* A step of one hook, which becomes h: it takes the lock only when nobody has
\* it, touches notes only under the lock, and is about to write only what has
\* no note.
LEMMA HookMoves ==
  ASSUME IInv, Typed', NEW n \in Commits, NEW h \in HookState,
         hook' = [hook EXCEPT ![n] = h], ext' = ext,
         HasFlock /\ h.pc \notin Free => Holding(n) \/ \A m \in Commits : ~Holding(m),
         notes' = notes \/ Holding(n),
         HasFlock /\ h.pc = "write" => notes'[h.sha] = NoNote,
         HasFlock => \A c \in rewritten' : c \in rewritten \/ ext[c] # "none"
  PROVE  IInv'
<1>1. \A m \in Commits : hook'[m] = IF m = n THEN h ELSE hook[m]
  BY DEF IInv, Typed
<1>2. LockOK'
  BY <1>1 DEF IInv, LockOK, Holding, Free
<1>3. WriteOK'
  <2> SUFFICES ASSUME HasFlock, NEW m \in Commits, hook'[m].pc = "write"
               PROVE  notes'[hook'[m].sha] = NoNote \/ ext'[hook'[m].sha] # "none"
    BY DEF WriteOK, HookAt
  <2>1. CASE m = n
    BY <1>1, <2>1
  <2>2. CASE m # n
    <3>1. hook'[m] = hook[m] /\ Holding(m)
      BY <1>1, <2>2 DEF Holding
    <3>2. notes' = notes
      BY <3>1, <2>2 DEF IInv, LockOK
    <3>3. QED
      BY <3>1, <3>2 DEF IInv, WriteOK, HookAt
  <2>3. QED
    BY <2>1, <2>2
<1>4. OverwrittenOnlyBesideExtension'
  BY DEF IInv, OverwrittenOnlyBesideExtension
<1>5. QED
  BY <1>2, <1>3, <1>4 DEF IInv

\* Every step keeps the variables within their types.
LEMMA TypedNext == Typed /\ [Next]_vars => Typed'
<1> SUFFICES ASSUME Typed, [Next]_vars PROVE Typed'
  OBVIOUS
<1> USE CaptureAssumption
<1>1. NoNote \in NoteState /\ Plain \in NoteState /\ \A f \in Commits : Amended(f) \in NoteState
  BY DEF NoNote, Plain, Amended, NoteState, Commits
<1>2. HEAD \in Commits
  BY DEF Typed, HEAD, Commits
<1>3. CASE \E k \in Kinds : Move(k)
  <2> PICK k \in Kinds : Move(k)
    BY <1>3
  <2>1. reflog' \in Seq(Kinds) /\ HEAD' = HEAD + 1 /\ HEAD' <= MaxMoves
    BY DEF Typed, Move, HEAD
  <2>2. HEAD + 1 \in Commits
    BY <2>1 DEF Typed, HEAD, Commits
  <2>3. hook' \in [Commits -> HookState]
    BY <2>2 DEF Typed, Move, HookState
  <2>4. HEAD' # 0
    BY <2>1 DEF Typed, HEAD
  <2>5. QED
    BY <2>1, <2>3, <2>4 DEF Typed, Move, watcherVars, HEAD
<1>4. CASE Observe
  BY <1>2, <1>4 DEF Typed, Observe, HEAD, Commits, HookAt
<1>5. ASSUME NEW n \in Commits, HookStep(n) PROVE Typed'
  <2>1. hook[n] \in HookState /\ hook[n].sha \in Commits /\ hook[n].from \subseteq Commits
    BY DEF Typed, HookState
  <2>0. HEAD # 0
    BY <1>5 DEF Typed, HookStep, HookAt, Begin, Lock, ReadReflog, AmendArgs, Check, Write,
       WriteFails, Stats, StatsEmpty, Post, PostFails, Kill
  <2> DEFINE Put(h) == hook' = [hook EXCEPT ![n] = h]
  <2>2. ASSUME NEW h \in HookState, Put(h), notes' \in [Commits -> NoteState],
               reflog' = reflog, known' = known, ext' = ext, rewritten' \subseteq Commits
        PROVE  Typed'
    BY <2>0, <2>2 DEF Typed, HEAD
  <2> DEFINE pcs == {"none", "begin", "lock", "reflog", "amend", "check", "write", "stats",
                     "post", "kill", "done", "locked", "cherry-pick"}
  <2>3. \A pc \in pcs : [hook[n] EXCEPT !.pc = pc] \in HookState
    BY <2>1 DEF HookState
  <2>4. ASSUME NEW pc \in pcs, Goto(n, pc), notes' \in [Commits -> NoteState],
               reflog' = reflog, known' = known, ext' = ext, rewritten' \subseteq Commits
        PROVE  Typed'
    <3>1. Put([hook[n] EXCEPT !.pc = pc])
      BY <2>4 DEF Goto, Typed
    <3>2. QED
      BY <2>2, <2>3, <2>4, <3>1
  <2>5. notes \in [Commits -> NoteState] /\ rewritten \subseteq Commits
    BY DEF Typed
  <2>6. CASE Begin(n)
    <3>1. Put([hook[n] EXCEPT !.pc = "lock", !.sha = HEAD])
      BY <2>6 DEF Begin, Typed
    <3>2. [hook[n] EXCEPT !.pc = "lock", !.sha = HEAD] \in HookState
      BY <1>2, <2>1 DEF HookState
    <3>3. QED
      BY <2>2, <2>5, <2>6, <3>1, <3>2 DEF Begin, watcherVars
  <2>7. CASE Lock(n)
    BY <2>4, <2>5, <2>7 DEF Lock, watcherVars
  <2>8. CASE ReadReflog(n)
    <3>1. \E pc \in pcs : Goto(n, pc)
      BY <2>8 DEF ReadReflog
    <3>2. QED
      BY <2>4, <2>5, <2>8, <3>1 DEF ReadReflog, watcherVars
  <2>9. CASE AmendArgs(n)
    <3>1. CASE HEAD - 1 = hook[n].sha
      BY <2>4, <2>5, <2>9, <3>1 DEF AmendArgs, watcherVars
    <3>2. CASE HEAD - 1 # hook[n].sha
      <4>1. HEAD - 1 \in Commits
        BY <1>2, <2>0 DEF Commits
      <4>2. Put([hook[n] EXCEPT !.pc = "check", !.from = {HEAD - 1}])
        BY <2>9, <3>2 DEF AmendArgs, Typed
      <4>3. [hook[n] EXCEPT !.pc = "check", !.from = {HEAD - 1}] \in HookState
        BY <2>1, <4>1 DEF HookState
      <4>4. notes' = [notes EXCEPT ![hook[n].sha] = NoNote]
        BY <2>9, <3>2 DEF AmendArgs
      <4>5. notes' \in [Commits -> NoteState]
        BY <1>1, <2>5, <4>4
      <4>6. QED
        BY <2>2, <2>5, <2>9, <4>2, <4>3, <4>5 DEF AmendArgs, watcherVars
    <3>3. QED
      BY <3>1, <3>2
  <2>10. CASE Check(n)
    BY <2>4, <2>5, <2>10 DEF Check, watcherVars
  <2>11. CASE Write(n)
    <3> DEFINE note == IF hook[n].from = {} THEN Plain
                       ELSE Amended(CHOOSE f \in hook[n].from : TRUE)
    <3>1. note \in NoteState
      BY <1>1, <2>1
    <3>2. notes' = [notes EXCEPT ![hook[n].sha] = note]
      BY <2>11 DEF Write, SetNote
    <3>3. notes' \in [Commits -> NoteState]
      BY <2>5, <3>1, <3>2
    <3>4. rewritten' \subseteq Commits
      BY <2>1, <2>5, <2>11 DEF Write, SetNote
    <3>5. QED
      BY <2>4, <2>11, <3>3, <3>4 DEF Write, watcherVars
  <2>12. CASE WriteFails(n) \/ StatsEmpty(n) \/ Post(n) \/ PostFails(n)
    BY <2>4, <2>5, <2>12 DEF WriteFails, StatsEmpty, Post, PostFails, watcherVars
  <2>13. CASE Stats(n)
    <3>1. Put([hook[n] EXCEPT !.pc = "post", !.saw = notes[hook[n].sha]])
      BY <2>13 DEF Stats, Typed
    <3>2. [hook[n] EXCEPT !.pc = "post", !.saw = notes[hook[n].sha]] \in HookState
      BY <2>1, <2>5 DEF HookState
    <3>3. QED
      BY <2>2, <2>5, <2>13, <3>1, <3>2 DEF Stats, watcherVars
  <2>14. CASE Kill(n)
    <3>1. hook' \in [Commits -> HookState]
      <4>1. ASSUME NEW h \in HookState PROVE KilledHook(h) \in HookState /\ [h EXCEPT !.pc = "done"] \in HookState
        BY <4>1 DEF KilledHook, HookState
      <4>2. QED
        BY <2>14, <4>1 DEF Kill, Typed
    <3>2. ext' \in [Commits -> {"none", "check", "write", "login", "upload", "done"}]
      BY <2>14 DEF Kill, Typed
    <3>3. QED
      BY <2>0, <3>1, <3>2, <2>14 DEF Kill, Typed, watcherVars, HEAD
  <2>15. QED
    BY <1>5, <2>6, <2>7, <2>8, <2>9, <2>10, <2>11, <2>12, <2>13, <2>14 DEF HookStep
<1>6. ASSUME NEW n \in Commits, ExtStep(n) PROVE Typed'
  BY <1>1, <1>6 DEF ExtStep, ExtCheck, ExtWrite, ExtFails, ExtLogin, ExtUpload,
     ExtUploadFails, SetNote, Typed, watcherVars, HEAD, HookAt
<1>7. CASE UNCHANGED vars
  BY <1>7 DEF vars, watcherVars, Typed, HEAD, HookAt
<1>8. QED
  BY <1>3, <1>4, <1>5, <1>6, <1>7 DEF Next

\* Every step keeps the invariant: one case per action, each an instance of
\* one of the two kinds of step, but for pkill.
LEMMA NextInv == IInv /\ [Next]_vars => IInv'
<1> SUFFICES ASSUME IInv, [Next]_vars PROVE IInv'
  OBVIOUS
<1>1. Typed /\ Typed'
  BY TypedNext DEF IInv
<1>2. CASE \E k \in Kinds : Move(k)
  <2> PICK k \in Kinds : Move(k)
    BY <1>2
  <2>1. HEAD + 1 \in Commits
    BY CaptureAssumption DEF Typed, Move, HEAD, Commits, IInv
  <2>2. CASE hook' = hook
    BY <1>1, <2>2, QuietStep DEF Move
  <2>3. CASE hook' # hook
    <3> DEFINE h == [hook[HEAD + 1] EXCEPT !.pc = "begin"]
    <3>1. hook' = [hook EXCEPT ![HEAD + 1] = h]
      BY <2>1, <2>3 DEF Move, IInv, Typed
    <3>2. h \in HookState /\ h.pc = "begin"
      BY <2>1 DEF IInv, Typed, HookState
    <3>3. h.pc \in Free /\ h.pc # "write"
      BY <3>2 DEF Free
    <3>4. ext' = ext /\ notes' = notes /\ rewritten' = rewritten
      BY DEF Move
    <3> HIDE DEF h
    <3>5. QED
      BY <1>1, <2>1, <3>1, <3>2, <3>3, <3>4, HookMoves
  <2>4. QED
    BY <2>2, <2>3
<1>3. CASE Observe
  BY <1>1, <1>3, QuietStep DEF Observe, IInv, Typed
<1>4. ASSUME NEW n \in Commits, HookStep(n) PROVE IInv'
  <2>1. hook[n] \in HookState /\ hook'[n] \in HookState /\ hook[n].sha \in Commits
    BY <1>1 DEF Typed, HookState
  <2>2. CASE Begin(n) \/ Lock(n) \/ ReadReflog(n) \/ Check(n) \/ WriteFails(n)
             \/ Stats(n) \/ StatsEmpty(n) \/ Post(n) \/ PostFails(n)
    <3>1. ext' = ext /\ notes' = notes /\ rewritten' = rewritten
      BY <2>2 DEF Begin, Lock, ReadReflog, Check, WriteFails, Stats, StatsEmpty, Post, PostFails
    <3>2. hook' = [hook EXCEPT ![n] = hook'[n]]
      BY <1>1, <2>2 DEF Typed, Goto, Begin, Lock, ReadReflog, Check, WriteFails, Stats,
         StatsEmpty, Post, PostFails
    <3> DEFINE took == HasFlock /\ hook'[n].pc \notin Free => Holding(n) \/ \A m \in Commits : ~Holding(m)
               clear == hook'[n].pc = "write" => notes[hook'[n].sha] = NoNote
    <3>3. \A pc : Goto(n, pc) => hook'[n].pc = pc /\ hook'[n].sha = hook[n].sha
      BY <1>1, <2>1 DEF Typed, Goto, HookState
    <3>4. took /\ clear
      <4>1. CASE Begin(n)
        BY <1>1, <2>1, <4>1 DEF Begin, Typed, HookState, Free
      <4>2. CASE Lock(n)
        BY <3>3, <4>2 DEF Lock, Free
      <4>3. CASE ReadReflog(n)
        <5>1. \E pc \in {"cherry-pick", "amend", "check"} : Goto(n, pc)
          BY <4>3 DEF ReadReflog
        <5>2. Holding(n)
          BY <4>3 DEF ReadReflog, HookAt, Holding
        <5>3. QED
          BY <3>3, <5>1, <5>2
      <4>4. CASE Check(n)
        BY <3>3, <4>4 DEF Check, HookAt, Holding
      <4>5. CASE WriteFails(n) \/ StatsEmpty(n) \/ Post(n) \/ PostFails(n)
        BY <3>3, <4>5 DEF WriteFails, StatsEmpty, Post, PostFails, HookAt, Holding
      <4>6. CASE Stats(n)
        BY <1>1, <2>1, <4>6 DEF Stats, Typed, HookState, HookAt, Holding
      <4>7. QED
        BY <2>2, <4>1, <4>2, <4>3, <4>4, <4>5, <4>6
    <3>5. QED
      BY <1>1, <2>1, <3>1, <3>2, <3>4, HookMoves
  <2>3. CASE AmendArgs(n)
    <3>1. ext' = ext /\ rewritten' = rewritten /\ Holding(n)
      BY <2>3 DEF AmendArgs, HookAt, Holding
    <3>2. hook' = [hook EXCEPT ![n] = hook'[n]] /\ hook'[n].pc = "check"
      BY <1>1, <2>1, <2>3 DEF Typed, AmendArgs, Goto, HookState
    <3>3. QED
      BY <1>1, <2>1, <3>1, <3>2, HookMoves
  <2>4. CASE Write(n)
    <3>1. ext' = ext /\ Holding(n) /\ HookAt(n, "write")
      BY <2>4 DEF Write, HookAt, Holding
    <3>2. hook' = [hook EXCEPT ![n] = hook'[n]] /\ hook'[n].pc = "stats"
      BY <1>1, <2>1, <2>4 DEF Typed, Write, Goto, HookState
    <3>3. HasFlock => \A c \in rewritten' : c \in rewritten \/ ext[c] # "none"
      BY <2>4, <3>1 DEF Write, SetNote, IInv, WriteOK
    <3>4. QED
      BY <1>1, <2>1, <3>1, <3>2, <3>3, HookMoves
  <2>5. CASE Kill(n)
    <3>1. \A m \in Commits : Holding(m)' => Holding(m)
      BY <1>1, <2>1, <2>5 DEF Kill, KilledHook, Holding, HookAt, Typed, HookState
    <3>2. \A m \in Commits : hook'[m].pc # "write"
      BY <1>1, <2>1, <2>5 DEF Kill, KilledHook, Typed, HookState
    <3>3. LockOK'
      BY <3>1 DEF IInv, LockOK
    <3>4. WriteOK'
      BY <3>2 DEF WriteOK, HookAt
    <3>5. OverwrittenOnlyBesideExtension'
      BY <1>1, <2>5 DEF Kill, IInv, Typed, OverwrittenOnlyBesideExtension
    <3>6. QED
      BY <1>1, <3>3, <3>4, <3>5 DEF IInv
  <2>6. QED
    BY <1>4, <2>2, <2>3, <2>4, <2>5 DEF HookStep
<1>5. ASSUME NEW n \in Commits, ExtStep(n) PROVE IInv'
  <2>1. hook' = hook
    BY <1>5 DEF ExtStep, ExtCheck, ExtWrite, ExtFails, ExtLogin, ExtUpload, ExtUploadFails
  <2>2. \A m \in Commits : ext[m] # "none" => ext'[m] # "none"
    BY <1>1, <1>5 DEF Typed, ExtStep, ExtCheck, ExtWrite, ExtFails, ExtLogin, ExtUpload, ExtUploadFails
  <2>3. \A m \in Commits : notes'[m] = notes[m] \/ ext'[m] # "none"
    BY <1>1, <1>5 DEF Typed, SetNote, ExtStep, ExtCheck, ExtWrite, ExtFails, ExtLogin, ExtUpload, ExtUploadFails
  <2>4. \A m \in rewritten' : m \in rewritten \/ ext'[m] # "none"
    BY <1>1, <1>5 DEF Typed, SetNote, ExtStep, ExtCheck, ExtWrite, ExtFails, ExtLogin, ExtUpload, ExtUploadFails
  <2>5. QED
    BY <1>1, <2>1, <2>2, <2>3, <2>4, QuietStep
<1>6. CASE UNCHANGED vars
  BY <1>1, <1>6, QuietStep DEF vars
<1>7. QED
  BY <1>2, <1>3, <1>4, <1>5, <1>6 DEF Next

THEOREM Invariance == Spec => []IInv
<1>1. QED
  BY InitInv, NextInv, PTL DEF Spec

\* With flock, whatever moves HEAD and whoever is killed, one hook at a time is
\* past the lock.
THEOREM LockWorks == Spec => []OneHookAtATime
<1>1. IInv => OneHookAtATime
  <2> SUFFICES ASSUME IInv, HasFlock, NEW m \in Commits, NEW n \in Commits,
                      {hook[m].pc, hook[n].pc} \cap Free = {}
               PROVE  m = n
    BY DEF OneHookAtATime, Free
  <2>1. Holding(m) /\ Holding(n)
    BY DEF Holding, Free
  <2>2. QED
    BY <2>1 DEF IInv, LockOK
<1>2. QED
  BY <1>1, Invariance, PTL

\* With flock a note is only overwritten for a commit that the extension
\* handles too: the hooks alone never write a note twice.
THEOREM HooksWriteOnce == Spec => []OverwrittenOnlyBesideExtension
<1>1. IInv => OverwrittenOnlyBesideExtension
  BY DEF IInv
<1>2. QED
  BY <1>1, Invariance, PTL

(***************************************************************************)
(* What the steps of a hook write                                           *)
(***************************************************************************)
Same(n) == hook'[n].sha = hook[n].sha /\ hook'[n].from = hook[n].from /\ hook'[n].saw = hook[n].saw
Others(n) == ext' = ext /\ \A m \in Commits : m # n => hook'[m] = hook[m]
Frame == UNCHANGED <<reflog, effective, known, marked, skipFirst, crowded>>
Quiet == UNCHANGED <<notes, posted, trouble>>
\* Hook n goes from one place to another.
Goes(n, from, to) == hook[n].pc = from /\ hook'[n].pc = to /\ Others(n) /\ Frame

LEMMA GotoGoes ==
  ASSUME Typed, NEW n \in Commits, NEW pc, Goto(n, pc)
  PROVE  hook'[n].pc = pc /\ Same(n) /\ \A m \in Commits : m # n => hook'[m] = hook[m]
<1>1. hook[n] \in HookState
  BY DEF Typed
<1>2. hook'[n] = [hook[n] EXCEPT !.pc = pc]
  BY DEF Goto, Typed
<1>3. QED
  BY <1>1, <1>2 DEF HookState, Same, Goto, Typed

LEMMA BeginGoes ==
  ASSUME Typed, NEW n \in Commits, Begin(n)
  PROVE  Goes(n, "begin", "lock") /\ Quiet /\ hook'[n].sha = HEAD /\ hook'[n].from = hook[n].from
<1>1. hook[n] \in HookState
  BY DEF Typed
<1>2. hook'[n] = [hook[n] EXCEPT !.pc = "lock", !.sha = HEAD]
  BY DEF Begin, Typed
<1>3. QED
  BY <1>1, <1>2 DEF HookState, Begin, Typed, Goes, Others, Frame, Quiet, HookAt, watcherVars

LEMMA LockGoes ==
  ASSUME Typed, NEW n \in Commits, Lock(n)
  PROVE  /\ Goes(n, "lock", "reflog") \/ (Goes(n, "lock", "locked") /\ \E m \in Commits : Holding(m))
         /\ Same(n) /\ Quiet
BY GotoGoes DEF Lock, Goes, Others, Frame, Quiet, HookAt, watcherVars

LEMMA ReflogGoes ==
  ASSUME Typed, NEW n \in Commits, ReadReflog(n)
  PROVE  /\ \/ Goes(n, "reflog", "check")
            \/ Goes(n, "reflog", "amend") /\ reflog[HEAD] = "amend"
            \/ Goes(n, "reflog", "cherry-pick") /\ reflog[HEAD] = "cherry-pick"
         /\ Same(n) /\ Quiet
<1> DEFINE pc == CASE reflog[HEAD] = "cherry-pick" -> "cherry-pick"
                   [] reflog[HEAD] = "amend" -> "amend"
                   [] OTHER -> "check"
<1>1. Goto(n, pc)
  BY Zenon DEF ReadReflog
<1>2. \/ pc = "check"
      \/ pc = "amend" /\ reflog[HEAD] = "amend"
      \/ pc = "cherry-pick" /\ reflog[HEAD] = "cherry-pick"
  OBVIOUS
<1> HIDE DEF pc
<1>3. QED
  BY <1>1, <1>2, GotoGoes DEF ReadReflog, Goes, Others, Frame, Quiet, HookAt, watcherVars

LEMMA AmendGoes ==
  ASSUME Typed, NEW n \in Commits, AmendArgs(n)
  PROVE  /\ Goes(n, "amend", "check") /\ UNCHANGED <<posted, trouble>> /\ hook'[n].sha = hook[n].sha
         /\ \/ hook[n].sha = HEAD - 1 /\ hook'[n].from = hook[n].from /\ UNCHANGED notes
            \/ hook'[n].from = {HEAD - 1} /\ notes' = [notes EXCEPT ![hook[n].sha] = NoNote]
<1>1. hook[n] \in HookState
  BY DEF Typed
<1>2. CASE HEAD - 1 = hook[n].sha
  BY <1>2, GotoGoes DEF AmendArgs, Goes, Others, Frame, Same, HookAt, watcherVars
<1>3. CASE HEAD - 1 # hook[n].sha
  <2>1. hook'[n] = [hook[n] EXCEPT !.pc = "check", !.from = {HEAD - 1}]
    BY <1>3 DEF AmendArgs, Typed
  <2>2. hook'[n].pc = "check" /\ hook'[n].sha = hook[n].sha /\ hook'[n].from = {HEAD - 1}
    BY <1>1, <2>1 DEF HookState
  <2>3. \A m \in Commits : m # n => hook'[m] = hook[m]
    BY <1>3 DEF AmendArgs, Typed
  <2>4. QED
    BY <1>3, <2>2, <2>3 DEF AmendArgs, Goes, Others, Frame, HookAt, watcherVars
<1>4. QED
  BY <1>2, <1>3

LEMMA CheckGoes ==
  ASSUME Typed, NEW n \in Commits, Check(n)
  PROVE  /\ Goes(n, "check", "write") \/ (Goes(n, "check", "stats") /\ notes[hook[n].sha] # NoNote)
         /\ Same(n) /\ Quiet
BY GotoGoes DEF Check, Goes, Others, Frame, Quiet, HookAt, watcherVars

LEMMA WriteGoes ==
  ASSUME Typed, NEW n \in Commits, Write(n)
  PROVE  /\ Goes(n, "write", "stats") /\ Same(n) /\ UNCHANGED <<posted, trouble>>
         /\ \/ hook[n].from = {} /\ notes' = [notes EXCEPT ![hook[n].sha] = Plain]
            \/ \E f \in hook[n].from : notes' = [notes EXCEPT ![hook[n].sha] = Amended(f)]
BY GotoGoes DEF Write, SetNote, Goes, Others, Frame, HookAt, watcherVars

LEMMA StatsGoes ==
  ASSUME Typed, NEW n \in Commits, Stats(n)
  PROVE  /\ Goes(n, "stats", "post") /\ Quiet
         /\ hook'[n].sha = hook[n].sha /\ hook'[n].from = hook[n].from
         /\ hook'[n].saw = notes[hook[n].sha]
<1>1. hook[n] \in HookState
  BY DEF Typed
<1>2. hook'[n] = [hook[n] EXCEPT !.pc = "post", !.saw = notes[hook[n].sha]]
  BY DEF Stats, Typed
<1>3. QED
  BY <1>1, <1>2 DEF HookState, Stats, Typed, Goes, Others, Frame, Quiet, HookAt, watcherVars

LEMMA PostGoes ==
  ASSUME Typed, NEW n \in Commits, Post(n)
  PROVE  /\ Goes(n, "post", "kill") /\ Same(n) /\ UNCHANGED <<notes, trouble>>
         /\ posted' = posted \cup {[sha |-> hook[n].sha, saw |-> hook[n].saw]}
BY GotoGoes DEF Post, Goes, Others, Frame, HookAt, watcherVars

\* What fails ends up in trouble.
LEMMA FailGoes ==
  ASSUME Typed, NEW n \in Commits, WriteFails(n) \/ StatsEmpty(n) \/ PostFails(n)
  PROVE  /\ Goes(n, "write", "stats") \/ Goes(n, "stats", "done") \/ Goes(n, "post", "kill")
         /\ Same(n) /\ UNCHANGED <<notes, posted>> /\ trouble' = trouble \cup {hook[n].sha}
BY GotoGoes DEF WriteFails, StatsEmpty, PostFails, Goes, Others, Frame, HookAt, watcherVars

\* pkill: whoever it moves is in trouble.
LEMMA KillGoes ==
  ASSUME Typed, NEW n \in Commits, Kill(n)
  PROVE  /\ Frame /\ UNCHANGED <<notes, posted>> /\ trouble \subseteq trouble'
         /\ HookAt(n, "kill") /\ HookAt(n, "done")' /\ Same(n)
         /\ \A m \in Commits : m # n =>
              /\ Same(m)
              /\ \/ hook'[m].pc = hook[m].pc
                 \/ /\ hook'[m].pc \in {"stats", "done"} /\ hook[m].pc \in {"check", "write", "stats"}
                    /\ hook[m].sha \in trouble'
         /\ \A m \in Commits :
              \/ ext'[m] = ext[m]
              \/ ext'[m] = "login" /\ ext[m] \in {"check", "write"} /\ m \in trouble'
<1>1. \A m \in Commits : hook[m] \in HookState
  BY DEF Typed
<1>2. \A m \in Commits : hook'[m] = IF m = n THEN [hook[n] EXCEPT !.pc = "done"] ELSE KilledHook(hook[m])
  BY DEF Kill
<1>3. \A h \in HookState : LET k == [h EXCEPT !.pc = "done"] IN
        k.pc = "done" /\ k.sha = h.sha /\ k.from = h.from /\ k.saw = h.saw
  BY DEF HookState
<1>4. ASSUME NEW h \in HookState
      PROVE  /\ KilledHook(h).sha = h.sha /\ KilledHook(h).from = h.from /\ KilledHook(h).saw = h.saw
             /\ \/ KilledHook(h).pc = h.pc
                \/ KilledHook(h).pc \in {"stats", "done"} /\ h.pc \in {"check", "write", "stats"}
  BY DEF HookState, KilledHook
<1>5. ASSUME NEW m \in Commits, m # n
      PROVE  /\ Same(m)
             /\ \/ hook'[m].pc = hook[m].pc
                \/ /\ hook'[m].pc \in {"stats", "done"} /\ hook[m].pc \in {"check", "write", "stats"}
                   /\ hook[m].sha \in trouble'
  <2>1. hook'[m] = KilledHook(hook[m])
    BY <1>2, <1>5
  <2>2. hook[m].pc \in {"check", "write", "stats"} => hook[m].sha \in trouble'
    BY <1>5 DEF Kill
  <2>3. QED
    BY <1>1, <1>4, <2>1, <2>2 DEF Same
<1>6. HookAt(n, "kill") /\ HookAt(n, "done")' /\ Same(n)
  BY <1>1, <1>2, <1>3 DEF HookAt, Same, Kill
<1>7. Frame /\ UNCHANGED <<notes, posted>> /\ trouble \subseteq trouble'
  BY DEF Kill, Frame, watcherVars
<1>8. ASSUME NEW m \in Commits
      PROVE  \/ ext'[m] = ext[m]
             \/ ext'[m] = "login" /\ ext[m] \in {"check", "write"} /\ m \in trouble'
  <2>1. ext[m] \in {"check", "write"} => m \in trouble'
    BY DEF Kill
  <2>2. ext'[m] = IF ext[m] \in {"check", "write"} THEN "login" ELSE ext[m]
    BY DEF Kill
  <2>3. QED
    BY <2>1, <2>2
<1>9. QED
  BY <1>5, <1>6, <1>7, <1>8

\* git and the extension.
LEMMA MoveGoes ==
  ASSUME Typed, NEW k \in Kinds, Move(k)
  PROVE  /\ HEAD + 1 \in Commits /\ HEAD' = HEAD + 1 /\ HEAD \in Nat /\ reflog' \in Seq(Kinds)
         /\ \A i \in 1..HEAD : reflog'[i] = reflog[i]
         /\ reflog'[HEAD + 1] = k
         /\ UNCHANGED <<notes, effective, known, marked, skipFirst, ext, posted, trouble>>
         /\ \A m \in Commits : m # HEAD + 1 => hook'[m] = hook[m]
         /\ \/ hook' = hook /\ (effective => k = "pull")
            \/ effective /\ hook'[HEAD + 1].pc = "begin" /\ hook'[HEAD + 1].from = hook[HEAD + 1].from
         /\ crowded \subseteq crowded'
         /\ \A n \in 1..HEAD + 1 : n \notin crowded' =>
              /\ n # HEAD + 1 => ~Busy(n)
              /\ n = HEAD + 1 => ~skipFirst /\ \A m \in 1..HEAD : ~Busy(m)
<1>1. HEAD + 1 \in Commits /\ HEAD \in Nat /\ reflog \in Seq(Kinds)
  BY CaptureAssumption DEF Typed, Move, HEAD, Commits
<1>2. reflog' = Append(reflog, k)
  BY DEF Move
<1>3. HEAD' = HEAD + 1 /\ reflog' \in Seq(Kinds) /\ reflog'[HEAD + 1] = k
      /\ \A i \in 1..HEAD : reflog'[i] = reflog[i]
  BY <1>1, <1>2 DEF HEAD
<1>4. hook[HEAD + 1] \in HookState
  BY <1>1 DEF Typed
<1>5. /\ \A m \in Commits : m # HEAD + 1 => hook'[m] = hook[m]
      /\ \/ hook' = hook /\ (effective => k = "pull")
         \/ effective /\ hook'[HEAD + 1].pc = "begin" /\ hook'[HEAD + 1].from = hook[HEAD + 1].from
  BY <1>1, <1>4 DEF Move, Typed, HookState
<1>6. UNCHANGED <<notes, effective, known, marked, skipFirst, ext, posted, trouble>>
  BY DEF Move, watcherVars
<1> DEFINE late == {m \in 1..HEAD : Busy(m)}
<1>7. crowded' = IF late # {} \/ skipFirst THEN crowded \cup late \cup {HEAD + 1} ELSE crowded
  BY DEF Move
<1>8. crowded \subseteq crowded'
  BY <1>7
<1>9. \A n \in 1..HEAD + 1 : n \notin crowded' =>
        (n # HEAD + 1 => ~Busy(n)) /\ (n = HEAD + 1 => late = {} /\ ~skipFirst)
  BY <1>1, <1>7
<1>10. QED
  BY <1>1, <1>3, <1>5, <1>6, <1>8, <1>9

\* The step of a hook, as seen by the others: no hook starts or starts again, only its own
\* start tells it its commit, and it changes the extension only by pkill.
LEMMA HookSummary ==
  ASSUME Typed, NEW n \in Commits, HookStep(n)
  PROVE  /\ Frame /\ trouble \subseteq trouble' /\ posted \subseteq posted' /\ ~HookOver(n)
         /\ \A c \in Commits : notes'[c] = notes[c] \/ (hook[n].pc # "begin" /\ c = hook[n].sha)
         /\ \A m \in Commits : m # n => Same(m)
         /\ \A m \in Commits :
              /\ hook[m].pc = "none" => Same(m)
              /\ hook'[m].pc = "none" <=> hook[m].pc = "none"
              /\ hook'[m].pc = "begin" => hook[m].pc = "begin"
              /\ HookOver(m) => HookOver(m)'
              /\ \/ hook'[m].sha = hook[m].sha /\ (hook[m].pc = "begin" => hook'[m].pc = "begin")
                 \/ hook[m].pc = "begin" /\ hook'[m].sha = HEAD
              /\ \/ ext'[m] = ext[m]
                 \/ ext'[m] = "login" /\ ext[m] \in {"check", "write"} /\ m \in trouble'
<1> USE DEF Goes, Same, Others, Quiet, Frame, HookOver
<1>1. CASE Begin(n)
  BY <1>1, BeginGoes
<1>2. CASE Lock(n)
  BY <1>2, LockGoes
<1>3. CASE ReadReflog(n)
  BY <1>3, ReflogGoes
<1>0. notes \in [Commits -> NoteState] /\ hook[n].sha \in Commits
  BY DEF Typed, HookState
<1>4. CASE AmendArgs(n)
  BY <1>0, <1>4, AmendGoes
<1>5. CASE Check(n)
  BY <1>5, CheckGoes
<1>6. CASE Write(n)
  BY <1>0, <1>6, WriteGoes
<1>7. CASE WriteFails(n) \/ StatsEmpty(n) \/ PostFails(n)
  BY <1>7, FailGoes
<1>8. CASE Stats(n)
  BY <1>8, StatsGoes
<1>9. CASE Post(n)
  BY <1>9, PostGoes
<1>10. CASE Kill(n)
  BY <1>10, KillGoes DEF HookAt
<1>11. QED
  BY <1>1, <1>2, <1>3, <1>4, <1>5, <1>6, <1>7, <1>8, <1>9, <1>10 DEF HookStep

ExtGoesTo(n, from, to) == ext[n] = from /\ ext'[n] = to /\ \A m \in Commits : m # n => ext'[m] = ext[m]

LEMMA ExtGoes ==
  ASSUME Typed, NEW n \in Commits, ExtStep(n)
  PROVE  /\ Frame /\ UNCHANGED hook
         /\ \/ ExtGoesTo(n, "check", "write") /\ Quiet
            \/ ExtGoesTo(n, "check", "login") /\ notes[n] # NoNote /\ Quiet
            \/ /\ ExtGoesTo(n, "write", "login") /\ UNCHANGED <<posted, trouble>>
               /\ notes' = [notes EXCEPT ![n] = Plain]
            \/ /\ ExtGoesTo(n, "check", "login") \/ ExtGoesTo(n, "write", "login") \/ ExtGoesTo(n, "upload", "done")
               /\ UNCHANGED <<notes, posted>> /\ trouble' = trouble \cup {n}
            \/ ExtGoesTo(n, "login", "done") /\ effective /\ Quiet
            \/ ExtGoesTo(n, "login", "upload") /\ ~effective /\ Quiet
            \/ /\ ExtGoesTo(n, "upload", "done") /\ UNCHANGED <<notes, trouble>>
               /\ posted' = posted \cup {[sha |-> n, saw |-> notes[n]]}
<1>1. ext \in [Commits -> {"none", "check", "write", "login", "upload", "done"}]
  BY DEF Typed
<1> USE DEF Frame, Quiet, watcherVars, ExtGoesTo
<1>2. CASE ExtCheck(n)
  BY <1>1, <1>2 DEF ExtCheck, ExtAt
<1>3. CASE ExtWrite(n)
  BY <1>1, <1>3 DEF ExtWrite, ExtAt, SetNote
<1>4. CASE ExtFails(n)
  BY <1>1, <1>4 DEF ExtFails
<1>5. CASE ExtLogin(n)
  BY <1>1, <1>5 DEF ExtLogin, ExtAt
<1>6. CASE ExtUpload(n)
  BY <1>1, <1>6 DEF ExtUpload, ExtAt
<1>7. CASE ExtUploadFails(n)
  BY <1>1, <1>7 DEF ExtUploadFails, ExtAt
<1>8. QED
  BY <1>2, <1>3, <1>4, <1>5, <1>6, <1>7 DEF ExtStep

LEMMA ObserveGoes ==
  ASSUME Typed, Observe
  PROVE  /\ UNCHANGED <<reflog, effective, hook, crowded>> /\ Quiet /\ skipFirst' = FALSE
         /\ known' \in known..HEAD /\ known' \in Commits /\ marked' = marked \cup {known'}
         /\ skipFirst \/ known' > known
         /\ \/ /\ ~skipFirst /\ ext'[known'] = "check"
               /\ \A m \in Commits : m # known' => ext'[m] = ext[m]
            \/ (skipFirst \/ known' \in marked \/ ~LocalCommit) /\ UNCHANGED ext
<1>1. PICK h \in known..HEAD :
        /\ skipFirst \/ h # known
        /\ known' = h /\ skipFirst' = FALSE /\ marked' = marked \cup {h}
        /\ ext' \in IF skipFirst \/ h \in marked THEN {ext}
                    ELSE {IF isLocal THEN [ext EXCEPT ![h] = "check"] ELSE ext : isLocal \in IsLocalAnswers}
        /\ UNCHANGED <<reflog, notes, effective, hook, posted, crowded, trouble, rewritten>>
  BY Zenon DEF Observe
<1>2. h \in Commits /\ h \in Nat /\ known \in Nat
  BY CaptureAssumption DEF Typed, HEAD, Commits
<1>3. \/ ~skipFirst /\ ext' = [ext EXCEPT ![h] = "check"]
      \/ (skipFirst \/ h \in marked \/ ~LocalCommit) /\ ext' = ext
  <2>1. CASE skipFirst \/ h \in marked
    BY <1>1, <2>1
  <2>2. CASE ~(skipFirst \/ h \in marked)
    <3>1. PICK isLocal \in IsLocalAnswers : ext' = IF isLocal THEN [ext EXCEPT ![h] = "check"] ELSE ext
      BY <1>1, <2>2
    <3>2. isLocal = LocalCommit \/ isLocal = TRUE
      BY <3>1 DEF IsLocalAnswers
    <3>3. CASE isLocal
      BY <2>2, <3>1, <3>3
    <3>4. CASE ~isLocal
      BY <3>1, <3>2, <3>4
    <3>5. QED
      BY <3>3, <3>4
  <2>3. QED
    BY <2>1, <2>2
<1>4. QED
  BY <1>1, <1>2, <1>3 DEF Typed, Quiet

(***************************************************************************)
(* Where hooks and commits are                                              *)
(***************************************************************************)
\* Hooks run where git runs them and know a commit at or after the one that started them;
\* the extension has seen what it handles, and uploads only where git runs no hook.
Places ==
  /\ \A m \in Commits : hook[m].pc # "none" => effective /\ m \in 1..HEAD
  /\ \A m \in Commits : hook[m].pc \notin {"none", "begin"} => hook[m].sha \in m..HEAD
  /\ \A m \in Commits : ext[m] # "none" => m \in 1..known
  /\ marked \subseteq 0..known
  /\ \A m \in Commits : effective => ext[m] # "upload"
  /\ \A m \in Commits : m > HEAD => notes[m] = NoNote
  /\ \A m \in Commits : hook[m].pc = "none" => hook[m].from = {}

LEMMA PlacesNext ==
  ASSUME Typed, Places, [Next]_vars
  PROVE  Places'
<1>1. MaxMoves \in Nat /\ HEAD \in Nat /\ known \in 0..HEAD
  BY CaptureAssumption DEF Typed, HEAD
<1>2. CASE \E k \in Kinds : Move(k)
  <2>1. PICK k \in Kinds : Move(k)
    BY <1>2
  <2>2. /\ HEAD' = HEAD + 1 /\ UNCHANGED <<effective, known, marked, ext, notes>>
        /\ \A m \in Commits : m # HEAD + 1 => hook'[m] = hook[m]
        /\ \/ hook' = hook
           \/ effective /\ hook'[HEAD + 1].pc = "begin"
    BY <2>1, MoveGoes
  <2>3. \A m \in Commits : m > HEAD' => notes'[m] = NoNote
    BY <1>1, <2>2 DEF Places, Commits
  <2>4. \A m \in Commits : hook'[m] = hook[m] \/ (m = HEAD + 1 /\ hook'[m].pc = "begin" /\ effective)
    BY <1>1, <2>2
  <2>5. \A m \in Commits : hook'[m].pc = "none" => hook'[m].from = {}
    BY <2>4 DEF Places
  <2>6. \A m \in Commits :
          /\ hook'[m].pc # "none" => effective /\ m \in 1..HEAD'
          /\ hook'[m].pc \notin {"none", "begin"} => hook'[m].sha \in m..HEAD'
    BY <1>1, <2>2, <2>4 DEF Places
  <2>7. QED
    BY <2>2, <2>3, <2>5, <2>6 DEF Places
<1>3. CASE Observe
  <2>1. /\ UNCHANGED <<effective, hook, reflog, notes>> /\ known' \in known..HEAD /\ marked' = marked \cup {known'}
        /\ skipFirst \/ known' > known
        /\ \A m \in Commits : ext'[m] = ext[m] \/ (m = known' /\ ext'[m] = "check" /\ ~skipFirst)
    BY <1>3, ObserveGoes DEF Quiet
  <2>2. HEAD' = HEAD
    BY <2>1 DEF HEAD
  <2>3. \A m \in Commits : ext'[m] # "none" => m \in 1..known'
    BY <1>1, <2>1 DEF Places
  <2>4. marked' \subseteq 0..known'
    BY <1>1, <2>1 DEF Places
  <2>5. QED
    BY <1>1, <2>1, <2>2, <2>3, <2>4 DEF Places
<1>4. ASSUME NEW n \in Commits, HookStep(n) PROVE Places'
  <2>1. Frame /\ HEAD' = HEAD
    BY <1>4, HookSummary DEF Frame, HEAD
  <2>2. \A m \in Commits :
          /\ hook'[m].pc = "none" <=> hook[m].pc = "none"
          /\ hook'[m].pc = "begin" => hook[m].pc = "begin"
          /\ \/ hook'[m].sha = hook[m].sha /\ (hook[m].pc = "begin" => hook'[m].pc = "begin")
             \/ hook[m].pc = "begin" /\ hook'[m].sha = HEAD
          /\ \/ ext'[m] = ext[m]
             \/ ext'[m] = "login" /\ ext[m] \in {"check", "write"}
    BY <1>4, HookSummary
  <2>3. \A m \in Commits : m > HEAD => notes'[m] = NoNote
    <3>1. hook[n].pc # "begin" => hook[n].sha \in n..HEAD
      BY <1>4, HookSummary DEF Places, HookOver
    <3>2. QED
      BY <1>1, <1>4, <3>1, HookSummary DEF Places, Commits
  <2>4. \A m \in Commits : hook'[m].pc = "none" => hook'[m].from = {}
    BY <1>4, HookSummary DEF Places, Same
  <2>5. QED
    BY <1>1, <2>1, <2>2, <2>3, <2>4 DEF Places, Frame
<1>5. ASSUME NEW n \in Commits, ExtStep(n) PROVE Places'
  <2>1. Frame /\ HEAD' = HEAD /\ UNCHANGED hook
    BY <1>5, ExtGoes DEF Frame, HEAD
  <2>2. /\ \A m \in Commits : m # n => ext'[m] = ext[m]
        /\ ext[n] # "none" /\ (ext'[n] = "upload" => ~effective)
    BY <1>5, ExtGoes DEF ExtGoesTo
  <2>3. \A m \in Commits : m > HEAD => notes'[m] = NoNote
    <3>1. n \in 1..known /\ notes \in [Commits -> NoteState]
      BY <2>2 DEF Places, Typed
    <3>2. \A m \in Commits : m # n => notes'[m] = notes[m]
      BY <1>5, <3>1, ExtGoes DEF Quiet
    <3>3. QED
      BY <1>1, <3>1, <3>2 DEF Places, Commits
  <2>4. QED
    BY <2>1, <2>2, <2>3 DEF Places, Frame
<1>6. CASE UNCHANGED vars
  BY <1>6 DEF vars, watcherVars, Places, HEAD
<1>7. QED
  BY <1>2, <1>3, <1>4, <1>5, <1>6 DEF Next

LEMMA PlacesInit == Init => Places
  BY DEF Init, Places

(***************************************************************************)
(* What uploads saw                                                         *)
(***************************************************************************)
\* A hook between writing the note and its upload finds it, for it has the lock; the
\* extension uploads only where no hook runs to remove it.
Sighted ==
  /\ \A n \in Commits :
       /\ HookAt(n, "stats") => notes[hook[n].sha] # NoNote \/ hook[n].sha \in trouble
       /\ HookAt(n, "post") => hook[n].saw # NoNote \/ hook[n].sha \in trouble
       /\ ~effective /\ ext[n] \in {"login", "upload"} => notes[n] # NoNote \/ n \in trouble
  /\ \A p \in posted : p.saw = NoNote => p.sha \in trouble
SightedInv == HasFlock => Sighted

\* A step that takes no note away.
LEMMA NotesKept ==
  ASSUME SightedInv, trouble \subseteq trouble', UNCHANGED effective,
         \A c \in Commits : notes'[c] = notes[c] \/ notes'[c] # NoNote,
         \A m \in Commits : hook[m].sha \in Commits,
         \A p \in posted' : p \in posted \/ (HasFlock /\ p.saw = NoNote => p.sha \in trouble'),
         HasFlock => \A m \in Commits :
           /\ HookAt(m, "stats")' => \/ HookAt(m, "stats") /\ hook'[m].sha = hook[m].sha
                                     \/ notes'[hook'[m].sha] # NoNote \/ hook'[m].sha \in trouble'
           /\ HookAt(m, "post")' => \/ HookAt(m, "post") /\ hook'[m].sha = hook[m].sha /\ hook'[m].saw = hook[m].saw
                                    \/ hook'[m].saw # NoNote \/ hook'[m].sha \in trouble'
           /\ ~effective /\ ext'[m] \in {"login", "upload"} =>
                 ext[m] \in {"login", "upload"} \/ notes'[m] # NoNote \/ m \in trouble'
  PROVE  SightedInv'
BY DEF SightedInv, Sighted, HookAt

LEMMA NotesOf ==
  /\ NoNote # Plain /\ \A f : Amended(f) # NoNote
  /\ \A n : NoNote \notin RightNotes(n) /\ Plain \in RightNotes(n)
  /\ \A n : reflog[n] = "amend" => Amended(n - 1) \in RightNotes(n)
BY DEF NoNote, Plain, Amended, RightNotes

LEMMA SightedHook ==
  ASSUME Typed, LockOK, Places, SightedInv, NEW n \in Commits, HookStep(n)
  PROVE  SightedInv'
<1>1. /\ notes \in [Commits -> NoteState] /\ \A m \in Commits : hook[m].sha \in Commits
  BY DEF Typed, HookState
<1>2. hook[n].from \subseteq Commits
  BY DEF Typed, HookState
<1> USE DEF Goes, Same, Others, Quiet, Frame, HookAt
<1>3. CASE Begin(n)
  BY <1>1, <1>3, BeginGoes, NotesKept
<1>4. CASE Lock(n)
  BY <1>1, <1>4, LockGoes, NotesKept
<1>5. CASE ReadReflog(n)
  BY <1>1, <1>5, ReflogGoes, NotesKept
<1>6. CASE AmendArgs(n)
  <2>1. /\ hook[n].pc = "amend" /\ hook'[n].pc = "check" /\ Others(n) /\ Frame
        /\ UNCHANGED <<posted, trouble>>
        /\ \A c \in Commits : notes'[c] = notes[c] \/ c = hook[n].sha
    BY <1>1, <1>6, AmendGoes
  <2>2. HasFlock => \A m \in Commits : hook[m].pc \notin {"stats", "post"}
    BY <2>1 DEF LockOK, Holding
  <2>3. effective
    BY <2>1 DEF Places
  <2>4. QED
    BY <2>1, <2>2, <2>3 DEF SightedInv, Sighted
<1>7. CASE Check(n)
  BY <1>1, <1>7, CheckGoes, NotesKept
<1>8. CASE Write(n)
  <2>1. /\ hook[n].pc = "write" /\ hook'[n].pc = "stats" /\ hook'[n].sha = hook[n].sha /\ Others(n) /\ Frame
        /\ UNCHANGED <<posted, trouble>>
        /\ \/ notes' = [notes EXCEPT ![hook[n].sha] = Plain]
           \/ \E f \in hook[n].from : notes' = [notes EXCEPT ![hook[n].sha] = Amended(f)]
    BY <1>8, WriteGoes
  <2>2. notes'[hook[n].sha] # NoNote /\ \A c \in Commits : notes'[c] = notes[c] \/ notes'[c] # NoNote
    BY <1>1, <2>1, NotesOf
  <2>3. QED
    BY <1>1, <2>1, <2>2, NotesKept
<1>9. CASE WriteFails(n) \/ StatsEmpty(n) \/ PostFails(n)
  BY <1>1, <1>9, FailGoes, NotesKept
<1>10. CASE Stats(n)
  <2>1. hook[n].pc = "stats" /\ hook'[n].pc = "post" /\ Others(n) /\ Frame /\ Quiet
        /\ hook'[n].sha = hook[n].sha /\ hook'[n].saw = notes[hook[n].sha]
    BY <1>10, StatsGoes
  <2>2. HasFlock => hook'[n].saw # NoNote \/ hook'[n].sha \in trouble'
    BY <2>1 DEF SightedInv, Sighted
  <2>3. QED
    BY <1>1, <2>1, <2>2, NotesKept
<1>11. CASE Post(n)
  <2>1. hook[n].pc = "post" /\ hook'[n].pc = "kill" /\ Others(n) /\ Frame /\ UNCHANGED <<notes, trouble>>
        /\ posted' = posted \cup {[sha |-> hook[n].sha, saw |-> hook[n].saw]}
    BY <1>11, PostGoes
  <2>2. HasFlock => hook[n].saw # NoNote \/ hook[n].sha \in trouble
    BY <2>1 DEF SightedInv, Sighted
  <2>3. \A p \in posted' : p \in posted \/ (HasFlock /\ p.saw = NoNote => p.sha \in trouble')
    BY <2>1, <2>2
  <2>4. QED
    BY <1>1, <2>1, <2>3, NotesKept
<1>12. CASE Kill(n)
  <2>1. effective
    BY <1>12 DEF Kill, Places
  <2>2. /\ UNCHANGED <<effective, notes, posted>> /\ trouble \subseteq trouble'
        /\ hook'[n].pc = "done"
        /\ \A m \in Commits : m # n =>
              /\ Same(m)
              /\ \/ hook'[m].pc = hook[m].pc
                 \/ hook'[m].pc \in {"stats", "done"} /\ hook[m].sha \in trouble'
    BY <1>12, KillGoes
  <2>3. QED
    BY <1>1, <2>1, <2>2, NotesKept
<1>13. QED
  BY <1>3, <1>4, <1>5, <1>6, <1>7, <1>8, <1>9, <1>10, <1>11, <1>12 DEF HookStep

LEMMA SightedExt ==
  ASSUME Typed, Places, SightedInv, NEW n \in Commits, ExtStep(n)
  PROVE  SightedInv'
<1>1. /\ notes \in [Commits -> NoteState] /\ \A m \in Commits : hook[m].sha \in Commits
  BY DEF Typed, HookState
<1> USE DEF Quiet, Frame, ExtGoesTo, HookAt
<1>2. Frame /\ UNCHANGED hook /\ \A m \in Commits : m # n => ext'[m] = ext[m]
  BY ExtGoes
<1>3. CASE Quiet
  <2>1. ~effective /\ ext'[n] \in {"login", "upload"} =>
          ext[n] \in {"login", "upload"} \/ notes'[n] # NoNote \/ n \in trouble'
    BY <1>1, <1>3, ExtGoes, NotesOf
  <2>2. QED
    BY <1>1, <1>2, <1>3, <2>1, NotesKept
<1>4. CASE UNCHANGED <<posted, trouble>> /\ notes' = [notes EXCEPT ![n] = Plain]
  <2>1. notes'[n] # NoNote /\ \A c \in Commits : notes'[c] = notes[c] \/ notes'[c] # NoNote
    BY <1>1, <1>4, NotesOf
  <2>2. QED
    BY <1>1, <1>2, <1>4, <2>1, NotesKept
<1>5. CASE UNCHANGED <<notes, posted>> /\ trouble' = trouble \cup {n}
  BY <1>1, <1>2, <1>5, NotesKept
<1>6. CASE ext[n] = "upload" /\ ext'[n] = "done" /\ UNCHANGED <<notes, trouble>>
           /\ posted' = posted \cup {[sha |-> n, saw |-> notes[n]]}
  <2>0. ~effective
    BY <1>6 DEF Places
  <2>1. \A p \in posted' : p \in posted \/ (HasFlock /\ p.saw = NoNote => p.sha \in trouble')
    BY <1>6, <2>0 DEF SightedInv, Sighted
  <2>2. QED
    BY <1>1, <1>2, <1>6, <2>1, NotesKept
<1>7. QED
  BY <1>3, <1>4, <1>5, <1>6, ExtGoes

LEMMA SightedNext ==
  ASSUME Typed, LockOK, Places, SightedInv, [Next]_vars
  PROVE  SightedInv'
<1>1. /\ \A m \in Commits : hook[m].sha \in Commits
  BY DEF Typed, HookState
<1>2. CASE \E k \in Kinds : Move(k)
  <2>1. PICK k \in Kinds : Move(k)
    BY <1>2
  <2>2. /\ UNCHANGED <<notes, effective, ext, posted, trouble>>
        /\ \A m \in Commits : hook'[m] = hook[m] \/ hook'[m].pc = "begin"
    BY <2>1, MoveGoes
  <2>3. QED
    BY <1>1, <2>2, NotesKept DEF HookAt
<1>3. CASE Observe
  <2>1. /\ UNCHANGED <<notes, effective, hook, posted, trouble>>
        /\ \A m \in Commits : ext'[m] = ext[m] \/ ext'[m] = "check"
    BY <1>3, ObserveGoes DEF Quiet
  <2>2. QED
    BY <1>1, <2>1, NotesKept DEF HookAt
<1>4. ASSUME NEW n \in Commits, HookStep(n) \/ ExtStep(n) PROVE SightedInv'
  BY <1>4, SightedHook, SightedExt
<1>5. CASE UNCHANGED vars
  BY <1>5 DEF vars, SightedInv, Sighted, HookAt
<1>6. QED
  BY <1>2, <1>3, <1>4, <1>5 DEF Next

(***************************************************************************)
(* Commits that are spaced out                                              *)
(***************************************************************************)
Captured(n) == notes[n] # NoNote /\ \E p \in posted : p.sha = n /\ p.saw \in RightNotes(n)
\* While it is handled it is HEAD, and what came before it is over for good.
Alone(n) ==
  /\ known >= n - 1 /\ ~skipFirst
  /\ \A m \in Commits : m < n => HookOver(m) /\ ExtOver(m)
  /\ Busy(n) => HEAD = n
\* Its hook knows it and its parent, and gets to its end.
Own(n) ==
  /\ notes[n] \in {NoNote} \cup RightNotes(n)
  /\ hook[n].pc \notin {"locked", "cherry-pick"} /\ (effective => hook[n].pc # "none")
  /\ hook[n].pc \notin {"none", "begin"} => hook[n].sha = n
  /\ hook[n].from \subseteq {n - 1} /\ (hook[n].from # {} => reflog[n] = "amend")
  /\ HookAt(n, "amend") => reflog[n] = "amend"
  /\ HookAt(n, "stats") => notes[n] # NoNote
  /\ HookAt(n, "post") => notes[n] # NoNote /\ hook[n].saw \in RightNotes(n)
  /\ hook[n].pc \in {"kill", "done"} => Captured(n)
\* Without a hook the extension does.
Extn(n) ==
  ~effective =>
    /\ ext[n] = "none" => n > known
    /\ ext[n] \in {"login", "upload"} => notes[n] # NoNote
    /\ ext[n] = "done" => Captured(n)
Spaced(n) == n \in 1..HEAD /\ reflog[n] \in {"commit", "amend"} /\ n \notin crowded \cup trouble
Story == \A n \in Commits : Spaced(n) => Alone(n) /\ Own(n) /\ Extn(n)

\* Nothing that concerns n changes.
LEMMA Untouched ==
  ASSUME NEW n \in Commits, Own(n), Extn(n), notes'[n] = notes[n], Same(n),
         hook'[n].pc = hook[n].pc, ext'[n] = ext[n], posted \subseteq posted',
         reflog'[n] = reflog[n], effective' = effective, known' >= known, known \in Nat, known' \in Nat,
         n > known' <=> n > known
  PROVE  Own(n)' /\ Extn(n)'
<1>1. RightNotes(n)' = RightNotes(n)
  BY DEF RightNotes
<1>2. Captured(n) => Captured(n)'
  BY <1>1 DEF Captured
<1>3. QED
  BY <1>1, <1>2 DEF Own, Extn, Same, HookAt

\* HEAD moves.
LEMMA StoryMove ==
  ASSUME Typed, Places, Story, NEW k \in Kinds, Move(k), NEW n \in Commits, Spaced(n)'
  PROVE  Alone(n)' /\ Own(n)' /\ Extn(n)'
<1>1. MaxMoves \in Nat /\ HEAD \in Nat /\ known \in 0..HEAD /\ known \in Nat
  BY CaptureAssumption DEF Typed, HEAD
<1>2. /\ HEAD + 1 \in Commits /\ HEAD' = HEAD + 1
      /\ \A i \in 1..HEAD : reflog'[i] = reflog[i]
      /\ reflog'[HEAD + 1] = k
      /\ UNCHANGED <<notes, effective, known, marked, skipFirst, ext, posted, trouble>>
      /\ \A m \in Commits : m # HEAD + 1 => hook'[m] = hook[m]
      /\ \/ hook' = hook /\ (effective => k = "pull")
         \/ effective /\ hook'[HEAD + 1].pc = "begin" /\ hook'[HEAD + 1].from = hook[HEAD + 1].from
      /\ crowded \subseteq crowded'
  BY MoveGoes
<1>3. /\ n # HEAD + 1 => ~Busy(n)
      /\ n = HEAD + 1 => ~skipFirst /\ \A m \in 1..HEAD : ~Busy(m)
  BY <1>2, MoveGoes DEF Spaced
<1>4. n \in 1..HEAD + 1 /\ n \in Nat
  BY <1>1, <1>2 DEF Spaced
<1>5. CASE n # HEAD + 1
  <2>1. n \in 1..HEAD /\ hook'[n] = hook[n]
    BY <1>1, <1>2, <1>4, <1>5
  <2>2. Spaced(n)
    BY <1>2, <2>1 DEF Spaced
  <2>3. Own(n)' /\ Extn(n)'
    BY <1>1, <1>2, <2>1, <2>2, Untouched DEF Story, Same
  <2>4. ~Busy(n)'
    BY <1>2, <1>3, <1>5, <2>1 DEF Busy, HookOver, ExtOver
  <2>5. \A m \in Commits : m < n => (HookOver(m) /\ ExtOver(m))'
    BY <1>2, <1>1, <2>1, <2>2 DEF Story, Alone, HookOver, ExtOver
  <2>6. QED
    BY <1>2, <2>2, <2>3, <2>4, <2>5 DEF Story, Alone
<1>6. CASE n = HEAD + 1
  <2>1. hook[n].pc = "none" /\ ext[n] = "none" /\ notes[n] = NoNote /\ hook[n].from = {}
    BY <1>1, <1>2, <1>6 DEF Places
  <2>2. known >= n - 1
    <3>1. CASE HEAD = 0
      BY <1>1, <1>6, <3>1
    <3>2. CASE HEAD # 0
      <4>1. ~Busy(HEAD)
        BY <1>1, <1>3, <1>6, <3>2
      <4>2. QED
        BY <4>1, <1>1, <1>6 DEF Busy
    <3>3. QED
      BY <3>1, <3>2
  <2>3. \A m \in Commits : m < n => (HookOver(m) /\ ExtOver(m))'
    <3> SUFFICES ASSUME NEW m \in Commits, m < n PROVE HookOver(m)' /\ ExtOver(m)'
      OBVIOUS
    <3>1. m \in Nat
      BY DEF Commits
    <3>2. hook'[m] = hook[m] /\ ext'[m] = ext[m]
      BY <1>2, <1>6, <3>1, <1>1
    <3>3. CASE m = 0
      BY <3>2, <3>3, <1>1 DEF Places, HookOver, ExtOver
    <3>4. CASE m # 0
      <4>1. m \in 1..HEAD
        BY <1>1, <1>6, <3>1, <3>4
      <4>2. ~Busy(m)
        BY <1>3, <1>6, <4>1
      <4>3. QED
        BY <3>2, <4>2 DEF Busy, HookOver, ExtOver
    <3>5. QED
      BY <3>3, <3>4
  <2>4. Alone(n)'
    BY <1>2, <1>3, <1>6, <2>2, <2>3 DEF Alone
  <2>5. hook'[n].pc \in {"none", "begin"} /\ hook'[n].from = {} /\ (effective' => hook'[n].pc = "begin")
    BY <1>2, <1>6, <2>1 DEF Spaced
  <2>6. Own(n)'
    BY <1>2, <2>1, <2>5 DEF Own, HookAt
  <2>7. Extn(n)'
    BY <1>1, <1>2, <1>6, <2>1 DEF Extn
  <2>8. QED
    BY <2>4, <2>6, <2>7
<1>7. QED
  BY <1>5, <1>6

\* The extension hears of it: while it is being handled, of nothing else.
LEMMA StoryObserve ==
  ASSUME Typed, Places, Story, Observe, NEW n \in Commits, Spaced(n)'
  PROVE  Alone(n)' /\ Own(n)' /\ Extn(n)'
<1>1. MaxMoves \in Nat /\ HEAD \in Nat /\ known \in 0..HEAD /\ known \in Nat
  BY CaptureAssumption DEF Typed, HEAD
<1>2. /\ UNCHANGED <<reflog, effective, hook, crowded>> /\ Quiet /\ skipFirst' = FALSE
      /\ known' \in known..HEAD /\ known' \in Commits /\ marked' = marked \cup {known'}
      /\ skipFirst \/ known' > known
      /\ \/ /\ ~skipFirst /\ ext'[known'] = "check"
            /\ \A m \in Commits : m # known' => ext'[m] = ext[m]
         \/ (skipFirst \/ known' \in marked \/ ~LocalCommit) /\ UNCHANGED ext
  BY ObserveGoes
<1>3. Spaced(n) /\ HEAD' = HEAD
  BY <1>2 DEF Spaced, HEAD, Quiet
<1>4. Alone(n) /\ Own(n) /\ Extn(n)
  BY <1>3 DEF Story
<1>5. n \in 1..HEAD /\ n \in Nat /\ known' > known /\ known' \in Nat /\ ~skipFirst
  BY <1>1, <1>2, <1>3, <1>4 DEF Spaced, Alone
<1>6. \A m \in Commits : m < n => ext'[m] = ext[m]
  <2>1. \A m \in Commits : m < n => m # known'
    BY <1>1, <1>4, <1>5 DEF Alone, Commits
  <2>2. QED
    BY <1>2, <2>1
<1>7. \A m \in Commits : m < n => (HookOver(m) /\ ExtOver(m))'
  BY <1>2, <1>4, <1>6 DEF Alone, HookOver, ExtOver
<1>8. CASE n <= known
  <2>1. ext'[n] = ext[n]
    BY <1>1, <1>2, <1>5, <1>8
  <2>2. Busy(n)' => Busy(n)
    BY <1>1, <1>2, <1>5, <1>8, <2>1 DEF Busy, HookOver, ExtOver
  <2>3. Own(n)' /\ Extn(n)'
    BY <1>1, <1>2, <1>4, <1>5, <1>8, <2>1, Untouched DEF Quiet, Same
  <2>4. QED
    BY <1>1, <1>2, <1>3, <1>4, <1>5, <1>7, <2>2, <2>3 DEF Alone
<1>9. CASE n > known
  <2>1. HEAD = n /\ known' = n
    BY <1>1, <1>2, <1>4, <1>5, <1>9 DEF Alone, Busy
  <2>2. LocalCommit /\ n \notin marked
    BY <1>1, <1>3, <1>9, <2>1 DEF LocalCommit, Spaced, Places
  <2>3. ext'[n] = "check"
    BY <1>2, <1>5, <2>1, <2>2
  <2>4. Extn(n)'
    BY <2>3 DEF Extn
  <2>5. RightNotes(n)' = RightNotes(n) /\ (Captured(n) => Captured(n)')
    BY <1>2 DEF RightNotes, Captured, Quiet
  <2>6. Own(n)'
    BY <1>2, <1>4, <2>5 DEF Own, HookAt, Quiet
  <2>7. Alone(n)'
    BY <1>1, <1>2, <1>3, <1>5, <1>7, <2>1 DEF Alone
  <2>8. QED
    BY <2>4, <2>6, <2>7
<1>10. QED
  BY <1>1, <1>5, <1>8, <1>9

\* Another hook or handler is one of a later commit: it does not touch this one.
LEMMA StoryOtherHook ==
  ASSUME Typed, Places, Story, NEW k \in Commits, HookStep(k), NEW n \in Commits, Spaced(n)', n # k
  PROVE  Alone(n)' /\ Own(n)' /\ Extn(n)'
<1>1. /\ Frame /\ trouble \subseteq trouble' /\ posted \subseteq posted' /\ ~HookOver(k) /\ Same(n)
      /\ \A c \in Commits : notes'[c] = notes[c] \/ (hook[k].pc # "begin" /\ c = hook[k].sha)
      /\ \A m \in Commits :
           /\ HookOver(m) => HookOver(m)'
           /\ \/ ext'[m] = ext[m]
              \/ ext'[m] = "login" /\ ext[m] \in {"check", "write"} /\ m \in trouble'
  BY HookSummary
<1>2. Spaced(n) /\ HEAD' = HEAD /\ n \notin trouble'
  BY <1>1 DEF Spaced, HEAD, Frame
<1>3. Alone(n) /\ Own(n) /\ Extn(n)
  BY <1>2 DEF Story
<1>4. n \in Nat /\ k \in Nat /\ known \in Nat /\ HEAD \in Nat
  BY CaptureAssumption DEF Commits, Typed, HEAD
<1>5. k > n
  BY <1>1, <1>3, <1>4 DEF Alone
<1>6. k \in 1..HEAD
  BY <1>1 DEF Places, HookOver
<1>7. ~Busy(n)
  BY <1>3, <1>4, <1>5, <1>6 DEF Alone
<1>8. notes'[n] = notes[n]
  <2>1. hook[k].pc # "begin" => hook[k].sha \in k..HEAD
    BY <1>1 DEF Places, HookOver
  <2>2. QED
    BY <1>1, <1>4, <1>5, <2>1
<1>9. ext'[n] = ext[n] /\ hook'[n].pc = hook[n].pc
  <2>1. ext'[n] = ext[n]
    BY <1>1, <1>2
  <2>2. CASE Kill(k)
    <3>1. hook[n].pc \notin {"check", "write", "stats"}
      BY <1>7 DEF Busy, HookOver
    <3>2. QED
      BY <2>1, <2>2, <3>1, KillGoes
  <2>3. CASE ~Kill(k)
    <3>1. Others(k)
      <4> USE DEF Goes
      <4>1. CASE Begin(k) \/ Lock(k) \/ ReadReflog(k) \/ AmendArgs(k) \/ Check(k)
        BY <4>1, BeginGoes, LockGoes, ReflogGoes, AmendGoes, CheckGoes
      <4>2. CASE Write(k) \/ Stats(k) \/ Post(k) \/ WriteFails(k) \/ StatsEmpty(k) \/ PostFails(k)
        BY <4>2, WriteGoes, StatsGoes, PostGoes, FailGoes
      <4>3. QED
        BY <2>3, <4>1, <4>2 DEF HookStep
    <3>2. QED
      BY <2>1, <3>1 DEF Others
  <2>4. QED
    BY <2>2, <2>3
<1>10. Own(n)' /\ Extn(n)'
  BY <1>1, <1>3, <1>4, <1>8, <1>9, Untouched DEF Frame
<1>11. ~Busy(n)'
  BY <1>1, <1>7, <1>9 DEF Busy, HookOver, ExtOver, Frame
<1>12. \A m \in Commits : m < n => (HookOver(m) /\ ExtOver(m))'
  BY <1>1, <1>3 DEF Alone, ExtOver
<1>13. QED
  BY <1>1, <1>3, <1>10, <1>11, <1>12 DEF Alone, Frame

LEMMA StoryOtherExt ==
  ASSUME Typed, Places, Story, NEW k \in Commits, ExtStep(k), NEW n \in Commits, Spaced(n)', n # k
  PROVE  Alone(n)' /\ Own(n)' /\ Extn(n)'
<1>1. /\ Frame /\ UNCHANGED hook /\ trouble \subseteq trouble' /\ posted \subseteq posted'
      /\ \A m \in Commits : m # k => ext'[m] = ext[m]
      /\ ~ExtOver(k)
  BY ExtGoes DEF ExtGoesTo, Quiet, ExtOver
<1>2. notes'[n] = notes[n]
  <2>1. notes \in [Commits -> NoteState]
    BY DEF Typed
  <2>2. QED
    BY <2>1, ExtGoes DEF Quiet
<1>3. Spaced(n) /\ HEAD' = HEAD
  BY <1>1 DEF Spaced, HEAD, Frame
<1>4. Alone(n) /\ Own(n) /\ Extn(n)
  BY <1>3 DEF Story
<1>5. n \in Nat /\ k \in Nat /\ known \in Nat
  BY CaptureAssumption DEF Commits, Typed, HEAD
<1>6. Own(n)' /\ Extn(n)'
  BY <1>1, <1>2, <1>4, <1>5, Untouched DEF Frame, Same
<1>7. Busy(n)' => Busy(n)
  BY <1>1 DEF Busy, HookOver, ExtOver, Frame
<1>8. \A m \in Commits : m < n => (HookOver(m) /\ ExtOver(m))'
  BY <1>1, <1>4 DEF Alone, ExtOver, HookOver
<1>9. QED
  BY <1>1, <1>3, <1>4, <1>6, <1>7, <1>8 DEF Alone, Frame

\* Its own handler.
LEMMA StoryOwnExt ==
  ASSUME Typed, Places, Story, NEW n \in Commits, ExtStep(n), Spaced(n)'
  PROVE  Alone(n)' /\ Own(n)' /\ Extn(n)'
<1>1. /\ Frame /\ UNCHANGED hook /\ trouble \subseteq trouble' /\ posted \subseteq posted'
      /\ \A m \in Commits : m # n => ext'[m] = ext[m]
      /\ ~ExtOver(n)
  BY ExtGoes DEF ExtGoesTo, Quiet, ExtOver
<1>2. Spaced(n) /\ HEAD' = HEAD /\ n \notin trouble'
  BY <1>1 DEF Spaced, HEAD, Frame
<1>3. Alone(n) /\ Own(n) /\ Extn(n) /\ Busy(n)
  BY <1>1, <1>2 DEF Story, Busy
<1>4. RightNotes(n)' = RightNotes(n)
  BY <1>1 DEF RightNotes, Frame
<1>5. notes \in [Commits -> NoteState]
  BY DEF Typed
<1>6. \A m \in Commits : m < n => (HookOver(m) /\ ExtOver(m))'
  <2>1. \A m \in Commits : m < n => m # n
    BY DEF Commits
  <2>2. QED
    BY <1>1, <1>3, <2>1 DEF Alone, ExtOver, HookOver
<1>7. Alone(n)'
  BY <1>1, <1>2, <1>3, <1>6 DEF Alone, Frame
<1>8. notes'[n] = notes[n] \/ notes'[n] = Plain
  BY <1>5, ExtGoes DEF Quiet
<1>9. Captured(n) => Captured(n)'
  BY <1>1, <1>4, <1>8, NotesOf DEF Captured
<1>10. Own(n)'
  BY <1>1, <1>3, <1>4, <1>8, <1>9, NotesOf DEF Own, Frame, HookAt
<1>11. Extn(n)'
  <2> SUFFICES ASSUME ~effective PROVE Extn(n)'
    BY <1>1 DEF Extn, Frame
  <2>1. notes[n] # NoNote => notes'[n] # NoNote
    BY <1>8, NotesOf
  <2>2. ext'[n] # "none"
    BY ExtGoes DEF ExtGoesTo
  <2>3. ext'[n] \in {"login", "upload"} => notes'[n] # NoNote
    BY <1>2, <1>3, <1>5, <2>1, ExtGoes, NotesOf DEF ExtGoesTo, Quiet, Extn
  <2>4. ext'[n] = "done" => Captured(n)'
    <3> SUFFICES ASSUME ext'[n] = "done" PROVE Captured(n)'
      OBVIOUS
    <3>1. ext[n] = "upload" /\ UNCHANGED <<notes, trouble>>
          /\ posted' = posted \cup {[sha |-> n, saw |-> notes[n]]}
      BY <1>2, ExtGoes DEF ExtGoesTo, Quiet
    <3>2. notes[n] \in RightNotes(n) /\ notes[n] # NoNote
      BY <1>3, <3>1 DEF Own, Extn
    <3> DEFINE p == [sha |-> n, saw |-> notes[n]]
    <3>3. p \in posted' /\ p.sha = n /\ p.saw \in RightNotes(n)'
      BY <1>4, <3>1, <3>2
    <3> HIDE DEF p
    <3>4. QED
      BY <3>1, <3>2, <3>3 DEF Captured
  <2>5. QED
    BY <1>1, <2>2, <2>3, <2>4 DEF Extn, Frame
<1>12. QED
  BY <1>7, <1>10, <1>11

\* Its own hook: it alone can hold the lock, and HEAD is its commit.
LEMMA StoryOwnHook ==
  ASSUME Typed, Places, Story, NEW n \in Commits, HookStep(n), Spaced(n)'
  PROVE  Alone(n)' /\ Own(n)' /\ Extn(n)'
<1>1. /\ Frame /\ trouble \subseteq trouble' /\ posted \subseteq posted' /\ ~HookOver(n)
      /\ \A m \in Commits :
           /\ HookOver(m) => HookOver(m)'
           /\ \/ ext'[m] = ext[m]
              \/ ext'[m] = "login" /\ ext[m] \in {"check", "write"}
  BY HookSummary
<1>2. Spaced(n) /\ HEAD' = HEAD /\ n \notin trouble'
  BY <1>1 DEF Spaced, HEAD, Frame
<1>3. Alone(n) /\ Own(n) /\ HEAD = n /\ effective
  BY <1>1, <1>2 DEF Story, Alone, Busy, Places, HookOver
<1>4. n \in Nat /\ n \in 1..n /\ n - 1 # n /\ reflog[HEAD] = reflog[n] /\ reflog[n] # "cherry-pick"
  BY <1>2, <1>3 DEF Spaced
<1>5. \A m \in Commits : m < n => (HookOver(m) /\ ExtOver(m))'
  BY <1>1, <1>3 DEF Alone, ExtOver
<1>6. Alone(n)' /\ Extn(n)'
  BY <1>1, <1>2, <1>3, <1>5 DEF Alone, Extn, Frame
<1>7. RightNotes(n)' = RightNotes(n) /\ reflog'[n] = reflog[n] /\ effective'
  BY <1>1, <1>3 DEF RightNotes, Frame
<1>8. hook[n].pc # "begin" => hook[n].sha = n
  BY <1>1, <1>3 DEF Own, HookOver
<1>9. notes \in [Commits -> NoteState]
  BY DEF Typed
<1> SUFFICES Own(n)'
  BY <1>6
<1> USE DEF Goes, Same, HookAt, Own
<1>10. CASE Begin(n)
  BY <1>3, <1>7, <1>10, BeginGoes DEF Quiet
<1>11. CASE Lock(n)
  <2>1. ~\E m \in Commits : Holding(m)
    <3> SUFFICES ASSUME NEW m \in Commits PROVE ~Holding(m)
      OBVIOUS
    <3>1. CASE m < n
      BY <1>3, <3>1 DEF Alone, Holding, HookOver
    <3>2. CASE m = n
      BY <1>11, <3>2 DEF Lock, Holding
    <3>3. CASE m > n
      BY <1>3, <3>3 DEF Places, Holding
    <3>4. QED
      BY <1>4, <3>1, <3>2, <3>3 DEF Commits
  <2>2. hook'[n].pc = "reflog" /\ Same(n) /\ Quiet
    BY <1>11, <2>1, LockGoes
  <2>3. QED
    BY <1>3, <1>7, <1>8, <1>11, <2>2 DEF Quiet, Lock
<1>12. CASE ReadReflog(n)
  <2>1. /\ hook[n].pc = "reflog" /\ Same(n) /\ Quiet
        /\ hook'[n].pc = "check" \/ (hook'[n].pc = "amend" /\ reflog[n] = "amend")
    BY <1>4, <1>12, ReflogGoes
  <2>2. QED
    BY <1>3, <1>7, <1>8, <2>1 DEF Quiet
<1>13. CASE AmendArgs(n)
  <2>1. /\ hook[n].pc = "amend" /\ hook'[n].pc = "check" /\ hook'[n].sha = n
        /\ hook'[n].from = {n - 1} /\ notes' = [notes EXCEPT ![n] = NoNote]
    BY <1>3, <1>4, <1>8, <1>13, AmendGoes
  <2>2. notes'[n] = NoNote /\ reflog[n] = "amend"
    BY <1>3, <1>9, <2>1
  <2>3. QED
    BY <1>7, <2>1, <2>2
<1>14. CASE Check(n)
  <2>1. /\ hook[n].pc = "check" /\ Same(n) /\ Quiet
        /\ hook'[n].pc = "write" \/ (hook'[n].pc = "stats" /\ notes[n] # NoNote)
    BY <1>8, <1>14, CheckGoes
  <2>2. QED
    BY <1>3, <1>7, <1>8, <2>1 DEF Quiet
<1>15. CASE Write(n)
  <2>1. /\ hook[n].pc = "write" /\ hook'[n].pc = "stats" /\ Same(n)
        /\ \/ notes' = [notes EXCEPT ![n] = Plain]
           \/ \E f \in hook[n].from : notes' = [notes EXCEPT ![n] = Amended(f)]
    BY <1>8, <1>15, WriteGoes
  <2>2. notes'[n] = Plain \/ (notes'[n] = Amended(n - 1) /\ reflog[n] = "amend")
    BY <1>3, <1>9, <2>1
  <2>3. notes'[n] \in RightNotes(n) /\ notes'[n] # NoNote
    BY <2>2, NotesOf
  <2>4. QED
    BY <1>3, <1>7, <1>8, <2>1, <2>3
<1>16. CASE WriteFails(n) \/ StatsEmpty(n) \/ PostFails(n)
  BY <1>2, <1>8, <1>16, FailGoes
<1>17. CASE Stats(n)
  <2>1. /\ hook[n].pc = "stats" /\ hook'[n].pc = "post" /\ Quiet
        /\ hook'[n].sha = n /\ hook'[n].from = hook[n].from /\ hook'[n].saw = notes[n]
    BY <1>8, <1>17, StatsGoes
  <2>2. notes[n] # NoNote /\ notes[n] \in RightNotes(n)
    BY <1>3, <2>1
  <2>3. QED
    BY <1>3, <1>7, <2>1, <2>2 DEF Quiet
<1>18. CASE Post(n)
  <2>1. /\ hook[n].pc = "post" /\ hook'[n].pc = "kill" /\ Same(n) /\ notes' = notes
        /\ posted' = posted \cup {[sha |-> n, saw |-> hook[n].saw]}
    BY <1>8, <1>18, PostGoes
  <2> DEFINE p == [sha |-> n, saw |-> hook[n].saw]
  <2>2. p \in posted' /\ p.sha = n /\ p.saw \in RightNotes(n)'
    BY <1>3, <1>7, <2>1
  <2> HIDE DEF p
  <2>3. Captured(n)'
    BY <1>3, <2>1, <2>2 DEF Captured
  <2>4. QED
    BY <1>3, <1>7, <1>8, <2>1, <2>3
<1>19. CASE Kill(n)
  <2>1. hook[n].pc = "kill" /\ hook'[n].pc = "done" /\ Same(n) /\ UNCHANGED <<notes, posted>>
    BY <1>19, KillGoes
  <2>2. Captured(n)'
    BY <1>3, <1>7, <2>1 DEF Captured
  <2>3. QED
    BY <1>3, <1>7, <1>8, <2>1, <2>2
<1>20. QED
  BY <1>10, <1>11, <1>12, <1>13, <1>14, <1>15, <1>16, <1>17, <1>18, <1>19 DEF HookStep

LEMMA StoryNext ==
  ASSUME Typed, Places, Story, [Next]_vars
  PROVE  Story'
<1>1. ASSUME NEW n \in Commits, Spaced(n)' PROVE Alone(n)' /\ Own(n)' /\ Extn(n)'
  <2>1. CASE \E k \in Kinds : Move(k)
    BY <1>1, <2>1, StoryMove
  <2>2. CASE Observe
    BY <1>1, <2>2, StoryObserve
  <2>3. ASSUME NEW k \in Commits, HookStep(k) PROVE Alone(n)' /\ Own(n)' /\ Extn(n)'
    BY <1>1, <2>3, StoryOtherHook, StoryOwnHook
  <2>4. ASSUME NEW k \in Commits, ExtStep(k) PROVE Alone(n)' /\ Own(n)' /\ Extn(n)'
    BY <1>1, <2>4, StoryOtherExt, StoryOwnExt
  <2>5. CASE UNCHANGED vars
    <3>1. Spaced(n)
      BY <1>1, <2>5 DEF vars, watcherVars, Spaced, HEAD
    <3>2. Alone(n) /\ Own(n) /\ Extn(n)
      BY <3>1 DEF Story
    <3>3. QED
      BY <2>5, <3>2 DEF vars, watcherVars, Alone, Own, Extn, Busy, HEAD, HookOver, ExtOver, HookAt,
                        RightNotes, Captured
  <2>6. QED
    BY <2>1, <2>2, <2>3, <2>4, <2>5 DEF Next
<1>2. Commits' = Commits
  OBVIOUS
<1>3. QED
  BY <1>1 DEF Story

LEMMA StoryInit == Init => Story
  BY DEF Init, Story, Spaced, HEAD

\* The four layers together.
Captures == IInv /\ Places /\ SightedInv /\ Story

\* Every reachable state has all four.
THEOREM CapturesHolds == Spec => []Captures
<1>1. Init => Captures
  <2>1. Init => SightedInv
    BY DEF Init, SightedInv, Sighted, HookAt
  <2>2. QED
    BY <2>1, InitInv, PlacesInit, StoryInit DEF Captures
<1>2. Captures /\ [Next]_vars => Captures'
  <2> SUFFICES ASSUME Captures, [Next]_vars PROVE Captures'
    OBVIOUS
  <2>1. Typed /\ LockOK
    BY DEF Captures, IInv
  <2>2. QED
    BY <2>1, NextInv, PlacesNext, SightedNext, StoryNext DEF Captures
<1>3. QED
  BY <1>1, <1>2, PTL DEF Spec

\* With flock no stats are uploaded that saw no note, unless git-ai failed on
\* the commit: neither the removal of a stale note, nor the other writer, nor
\* pkill in the middle of another hook can bring that about.
THEOREM PostedSawNoteHolds == Spec => []PostedSawNote
<1>1. Captures => PostedSawNote
  BY DEF Captures, SightedInv, Sighted, PostedSawNote
<1>2. QED
  BY <1>1, CapturesHolds, PTL

\* A commit that is handled before HEAD moves again has its note and an upload
\* that saw one, by the hook or by the extension, whichever is in force.
THEOREM SpacedCommitsCapturedHolds == Spec => []SpacedCommitsCaptured
<1>1. Captures => SpacedCommitsCaptured
  <2> SUFFICES ASSUME Captures, Quiescent, NEW n \in 1..HEAD,
                      reflog[n] \in {"commit", "amend"}, n \notin crowded \cup trouble
               PROVE  notes[n] \in RightNotes(n) /\ \E p \in posted : p.sha = n /\ p.saw \in RightNotes(n)
    BY DEF SpacedCommitsCaptured
  <2>1. n \in Commits /\ n \in Nat /\ HEAD \in Nat
    BY CaptureAssumption DEF Captures, IInv, Typed, HEAD, Commits
  <2>2. Own(n) /\ Extn(n)
    BY <2>1 DEF Captures, Story, Spaced
  <2>3. Captured(n)
    <3>1. CASE effective
      <4>1. hook[n].pc = "done"
        BY <2>1, <2>2, <3>1 DEF Quiescent, HookOver, Own
      <4>2. QED
        BY <2>2, <4>1 DEF Own
    <3>2. CASE ~effective
      <4>1. ext[n] = "done"
        BY <2>1, <2>2, <3>2 DEF Quiescent, ExtOver, Extn
      <4>2. QED
        BY <2>2, <3>2, <4>1 DEF Extn
    <3>3. QED
      BY <3>1, <3>2
  <2>4. QED
    BY <2>2, <2>3 DEF Own, Captured
<1>2. QED
  BY <1>1, CapturesHolds, PTL
=============================================================================
