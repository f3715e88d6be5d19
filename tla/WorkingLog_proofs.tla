-------------------------- MODULE WorkingLog_proofs --------------------------
(***************************************************************************)
(* Proofs about the working logs, for any number of agents, files, lines    *)
(* and commits: what becomes of an appended checkpoint, though no lock      *)
(* keeps two processes apart; which logs are left; and, where no log was    *)
(* contended, what logs and notes say of the lines and their writers.       *)
(***************************************************************************)
EXTENDS WorkingLog, TLAPS, FiniteSetTheorems, WellFoundedInduction

(***************************************************************************)
(* The shape of the state                                                   *)
(***************************************************************************)
IsSeq(s) == \E U : s \in Seq(U)
IsLog(l) == {"dir", "file", "open", "cps"} \subseteq DOMAIN l /\ IsSeq(l.cps)
IsProc(r, h) ==
  /\ {"pc", "base", "cps", "next"} \subseteq DOMAIN r
  /\ r.base \in 0..h /\ IsSeq(r.cps)
  /\ r.pc \in {"tear", "fill"} /\ r.next # "collect" => r.cps # <<>>

Shape ==
  /\ head \in Commits
  /\ log = [b \in Commits |-> log[b]] /\ \A b \in Commits : IsLog(log[b])
  /\ proc = [p \in Procs |-> proc[p]] /\ \A p \in Procs : IsProc(proc[p], head)
  /\ Running(Git) => proc[Git].base + 1 \in Commits
  /\ appended = [b \in Commits |-> appended[b]] /\ settled = [b \in Commits |-> settled[b]]

Writing(p) == proc[p].pc \in {"tear", "fill"}
Whole(b) == log[b].file = "whole"

(***************************************************************************)
(* AppendKeptIfAlone is not inductive: between the read and the write the   *)
(* checkpoints are in the process, and the file is cut while it is written. *)
(***************************************************************************)
\* A log that is not contended has one process at a time.
Exclusive ==
  \A b \in Commits \ contended : \A p, q \in Procs : b \in Busy(p) /\ b \in Busy(q) => p = q
Kept(b) ==
  /\ Whole(b) => appended[b] \subseteq Ids(log[b].cps)
  /\ \A p \in Procs : proc[p].base = b /\ Writing(p) => appended[b] \subseteq Ids(proc[p].cps)
  /\ \A p \in Procs : proc[p].base = b /\ At(p, "fill") => p \in log[b].open /\ log[b].file = "cut"
  /\ ~Whole(b) => \E p \in Procs : proc[p].base = b /\ At(p, "fill")
AloneInv == Shape /\ budget \in Budgets /\ Exclusive /\ \A b \in Commits \ contended : Kept(b)

\* The same of the checkpoints that have settled, where no read met a log that
\* was not whole.
Stays(b) ==
  /\ Whole(b) => settled[b] \subseteq Ids(log[b].cps)
  /\ \A p \in Procs : proc[p].base = b /\ Writing(p) => settled[b] \subseteq Ids(proc[p].cps)
SettledInv == Shape /\ budget \in Budgets /\ \A b \in Commits \ halfRead : Stays(b)

(***************************************************************************)
(* Lists of checkpoints                                                     *)
(***************************************************************************)
LEMMA EmptySeq == IsSeq(<<>>) /\ Ids(<<>>) = {}
<1>1. <<>> \in Seq({})
  OBVIOUS
<1>2. DOMAIN <<>> = {}
  OBVIOUS
<1>3. QED
  BY <1>1, <1>2 DEF IsSeq, Ids

LEMMA AppendSeq ==
  ASSUME NEW s, IsSeq(s), NEW e
  PROVE  /\ IsSeq(Append(s, e)) /\ Append(s, e) # <<>>
         /\ Ids(Append(s, e)) = Ids(s) \cup {e.id}
<1>1. PICK U : s \in Seq(U)
  BY DEF IsSeq
<1>2. s \in Seq(U \cup {e})
  BY <1>1
<1>3. Append(s, e) \in Seq(U \cup {e}) /\ Len(Append(s, e)) = Len(s) + 1 /\ Len(s) \in Nat
  BY <1>2
<1>4. /\ DOMAIN Append(s, e) = 1..(Len(s) + 1) /\ DOMAIN s = 1..Len(s)
      /\ Append(s, e)[Len(s) + 1] = e /\ \A i \in 1..Len(s) : Append(s, e)[i] = s[i]
  BY <1>2, <1>3
<1>5. \A i \in 1..(Len(s) + 1) : i \in 1..Len(s) \/ i = Len(s) + 1
  BY <1>3
<1>6. Ids(Append(s, e)) = Ids(s) \cup {e.id}
  BY <1>3, <1>4, <1>5 DEF Ids
<1>7. QED
  BY <1>3, <1>6 DEF IsSeq

LEMMA LastId == ASSUME NEW s, IsSeq(s), s # <<>> PROVE s[Len(s)].id \in Ids(s)
<1>1. PICK U : s \in Seq(U)
  BY DEF IsSeq
<1>2. Len(s) \in DOMAIN s
  BY <1>1
<1>3. QED
  BY <1>2 DEF Ids

LEMMA ContentsSeq == ASSUME Shape, NEW b \in Commits PROVE IsSeq(Contents(b))
BY EmptySeq DEF Shape, IsLog, Contents

(***************************************************************************)
(* The shape is kept                                                        *)
(***************************************************************************)
\* A process changes, and the logs keep their shape.
LEMMA NewShape ==
  ASSUME Shape, NEW p \in Procs, NEW r, proc' = [proc EXCEPT ![p] = r], IsProc(r, head'),
         p = Git /\ r.pc # "off" => r.base + 1 \in Commits,
         head' \in {head, head + 1} \cap Commits,
         log' = [b \in Commits |-> log'[b]], \A b \in Commits : IsLog(log'[b]),
         appended' = [b \in Commits |-> appended'[b]], settled' = [b \in Commits |-> settled'[b]]
  PROVE  Shape'
<1>1. \A q \in Procs : IsProc(proc[q], head')
  BY DEF Shape, IsProc, Commits
<1>2. proc' = [q \in Procs |-> proc'[q]] /\ \A q \in Procs : proc'[q] = IF q = p THEN r ELSE proc[q]
  BY DEF Shape
<1>3. Running(Git)' => proc'[Git].base + 1 \in Commits
  BY <1>2 DEF Shape, Running, At, Procs
<1>4. QED
  BY <1>1, <1>2, <1>3 DEF Shape

LEMMA PutLog ==
  ASSUME Shape, NEW b \in Commits, NEW l, IsLog(l), log' = [log EXCEPT ![b] = l]
  PROVE  log' = [c \in Commits |-> log'[c]] /\ \A c \in Commits : IsLog(log'[c])
BY DEF Shape

(***************************************************************************)
(* The kinds of steps: process p becomes r                                  *)
(***************************************************************************)
Becomes(p, r) == proc' = [proc EXCEPT ![p] = r] /\ IsProc(r, head')
SameFile(c) ==
  log'[c].file = log[c].file /\ log'[c].cps = log[c].cps /\ log'[c].open = log[c].open
Settles(p, r) == settled' = settled \/ (r.pc = "off" /\ Settle(p, log'))

\* Nothing changes that matters here.
Still == /\ UNCHANGED <<proc, log, appended, settled, contended, halfRead>>
\* It starts, in the log of HEAD.
Starting(p, r) ==
  /\ ~Running(p) /\ r.pc = "compute" /\ r.base = head
  /\ \A c \in Commits : SameFile(c)
  /\ UNCHANGED <<appended, settled, halfRead>>
  /\ contended \cup Crowd(p, {head}) \subseteq contended'
\* It goes on or ends, without reading or writing checkpoints.
Going(p, r) ==
  /\ Running(p) /\ ~At(p, "fill")
  /\ r.pc \notin {"tear", "fill"} /\ (r.pc = "off" \/ r.base = proc[p].base)
  /\ \A c \in Commits : SameFile(c)
  /\ appended' = appended /\ Settles(p, r)
  /\ halfRead \subseteq halfRead' /\ contended' = contended
\* It reads the checkpoints, to write them back.
Reading(p, r) ==
  /\ Running(p) /\ ~Writing(p)
  /\ r.pc = "tear" /\ r.base = proc[p].base
  /\ Ids(Contents(proc[p].base)) \subseteq Ids(r.cps) /\ NoteRead(proc[p].base)
  /\ UNCHANGED <<log, appended, settled, contended>>
\* It truncates the file.
Tearing(p, r) ==
  /\ At(p, "tear") /\ r.pc = "fill" /\ r.base = proc[p].base /\ r.cps = proc[p].cps
  /\ \A c \in Commits \ {proc[p].base} : SameFile(c)
  /\ log'[proc[p].base].file = "cut"
  /\ log'[proc[p].base].open = log[proc[p].base].open \cup {p}
  /\ UNCHANGED <<appended, settled, contended, halfRead>>
\* It writes the file, if this is still its file.
Filling(p, r) ==
  LET b == proc[p].base
  IN  /\ At(p, "fill") /\ r.pc \in {"off", "mutate", "collect"} /\ (r.pc = "off" \/ r.base = b)
      /\ \A c \in Commits \ {b} : SameFile(c)
      /\ \/ /\ p \in log[b].open /\ log'[b].cps = proc[p].cps
            /\ log'[b].file = "whole" \/ log[b].file # "cut"
         \/ p \notin log[b].open /\ SameFile(b)
      /\ \A c \in Commits \ {b} : appended'[c] = appended[c]
      /\ appended'[b] \subseteq appended[b] \cup Ids(proc[p].cps)
      /\ Settles(p, r)
      /\ UNCHANGED <<contended, halfRead>>
\* Post-commit deletes the log.
Deleting(p, r) ==
  LET b == proc[p].base
  IN  /\ Running(p) /\ ~Writing(p) /\ r.pc = "off"
      /\ log'[b] = NoLog /\ appended'[b] = {} /\ settled'[b] = {}
      /\ \A c \in Commits \ {b} :
           SameFile(c) /\ appended'[c] = appended[c] /\ settled'[c] = settled[c]
      /\ UNCHANGED <<contended, halfRead>>

StepOf(p, r) ==
  /\ Becomes(p, r)
  /\ \/ Starting(p, r) \/ Going(p, r) \/ Reading(p, r)
     \/ Tearing(p, r) \/ Filling(p, r) \/ Deleting(p, r)

(***************************************************************************)
(* The invariants under each kind of step                                   *)
(***************************************************************************)
\* Only p's log of business changes, and that only when it starts.
LEMMA Others ==
  ASSUME Shape, NEW p \in Procs, NEW r, Becomes(p, r)
  PROVE  /\ proc'[p] = r
         /\ \A q \in Procs \ {p} : proc'[q] = proc[q] /\ Busy(q)' = Busy(q)
         /\ (r.pc = "off" \/ (Running(p) /\ r.base = proc[p].base)) => Busy(p)' \subseteq Busy(p)
<1>1. proc'[p] = r /\ \A q \in Procs \ {p} : proc'[q] = proc[q]
  BY DEF Shape, Becomes
<1>2. \A q \in Procs \ {p} : Busy(q)' = Busy(q)
  BY <1>1 DEF Busy, Running, At
<1>3. ASSUME r.pc = "off" PROVE Busy(p)' \subseteq Busy(p)
  BY <1>1, <1>3 DEF Busy, Running, At
<1>4. ASSUME Running(p), r.base = proc[p].base PROVE Busy(p)' \subseteq Busy(p)
  BY <1>1, <1>4 DEF Busy
<1>5. QED
  BY <1>1, <1>2, <1>3, <1>4

LEMMA BusyWithBase ==
  ASSUME NEW p \in Procs, Running(p) PROVE proc[p].base \in Busy(p)
BY DEF Busy

LEMMA ExclusiveKept ==
  ASSUME Shape, Exclusive, NEW p \in Procs, NEW r, Becomes(p, r), contended \subseteq contended',
         r.pc = "off" \/ (Running(p) /\ r.base = proc[p].base)
  PROVE  Exclusive'
BY Others DEF Exclusive

LEMMA ExclusiveStarts ==
  ASSUME Shape, Exclusive, NEW p \in Procs, NEW r, Becomes(p, r), Starting(p, r)
  PROVE  Exclusive'
<1>1. head \in Nat
  BY WorkingLogAssumption DEF Shape, Commits
<1>2. Busy(p)' \subseteq IF p = Git THEN {head, head + 1} ELSE {head}
  BY Others DEF Busy, Running, At, Starting
<1>3. \A q \in Procs \ {p} : p = Git => head + 1 \notin Busy(q)
  BY <1>1 DEF Shape, IsProc, Busy
<1>4. \A q \in Procs \ {p} : head \in Busy(q) => head \in contended'
  BY DEF Starting, Crowd
<1>5. \A b \in Commits \ contended' : \A q \in Procs \ {p} : b \in Busy(p)' => b \notin Busy(q)'
  BY <1>2, <1>3, <1>4, Others
<1>6. contended \subseteq contended'
  BY DEF Starting
<1>7. QED
  BY <1>5, <1>6, Others DEF Exclusive

LEMMA KeptStep ==
  ASSUME Shape, Exclusive, NEW p \in Procs, NEW r, StepOf(p, r),
         NEW b \in Commits \ contended, Kept(b)
  PROVE  Kept(b)'
<1>1. proc'[p] = r /\ \A q \in Procs \ {p} : proc'[q] = proc[q]
  BY Others DEF StepOf
<1>2. \A q \in Procs \ {p} : Running(p) /\ proc[p].base = b /\ proc[q].base = b => ~Running(q)
  BY BusyWithBase DEF Exclusive
<1>3. \A q \in Procs : /\ Writing(q) \/ At(q, "fill") => Running(q)
                       /\ At(q, "fill") => Writing(q)
  BY DEF Writing, Running, At
<1>a. CASE Starting(p, r)
  <2>1. SameFile(b) /\ appended'[b] = appended[b] /\ ~Writing(p)' /\ ~At(p, "fill")' /\ ~At(p, "fill")
    BY <1>1, <1>a DEF Starting, Writing, At, Running
  <2>2. QED
    BY <1>1, <2>1 DEF Kept, SameFile, Whole, Writing, At
<1>b. CASE Going(p, r)
  <2>1. SameFile(b) /\ appended'[b] = appended[b] /\ ~Writing(p)' /\ ~At(p, "fill")' /\ ~At(p, "fill")
    BY <1>1, <1>b DEF Going, Writing, At
  <2>2. QED
    BY <1>1, <2>1 DEF Kept, SameFile, Whole, Writing, At
<1>c. CASE Reading(p, r)
  <2>1. log' = log /\ appended' = appended /\ Running(p) /\ ~Writing(p) /\ ~At(p, "fill") /\ ~At(p, "fill")'
    BY <1>1, <1>c DEF Reading, Writing, At
  <2>2. proc[p].base = b => Whole(b)
    BY <1>2, <1>3, <2>1 DEF Kept
  <2>3. proc'[p].base = b => appended[b] \subseteq Ids(proc'[p].cps)
    BY <1>1, <1>c, <2>2 DEF Reading, Kept, Contents, Whole
  <2>4. QED
    BY <1>1, <2>1, <2>3 DEF Kept, Whole, Writing, At
<1>d. CASE Tearing(p, r)
  <2>1. /\ Running(p) /\ Writing(p) /\ ~At(p, "fill") /\ appended'[b] = appended[b]
        /\ proc'[p].base = proc[p].base /\ proc'[p].cps = proc[p].cps /\ At(p, "fill")'
    BY <1>1, <1>d DEF Tearing, Writing, At, Running
  <2>2. CASE proc[p].base = b
    <3>1. log'[b].file = "cut" /\ p \in log'[b].open
      BY <1>d, <2>2 DEF Tearing
    <3>2. \A q \in Procs \ {p} : proc[q].base = b => ~Writing(q)' /\ ~At(q, "fill")'
      BY <1>1, <1>2, <1>3, <2>1, <2>2 DEF Writing, At
    <3>3. QED
      BY <1>1, <2>1, <2>2, <3>1, <3>2 DEF Kept, Whole
  <2>3. CASE proc[p].base # b
    <3>1. SameFile(b)
      BY <1>d, <2>3 DEF Tearing
    <3>2. QED
      BY <1>1, <2>1, <2>3, <3>1 DEF Kept, SameFile, Whole, Writing, At
  <2>4. QED
    BY <2>2, <2>3
<1>e. CASE Filling(p, r)
  <2>1. Running(p) /\ Writing(p) /\ At(p, "fill") /\ ~Writing(p)' /\ ~At(p, "fill")'
    BY <1>1, <1>e DEF Filling, Writing, At, Running
  <2>2. CASE proc[p].base = b
    <3>1. p \in log[b].open /\ log[b].file = "cut" /\ appended[b] \subseteq Ids(proc[p].cps)
      BY <2>1, <2>2 DEF Kept
    <3>2. /\ log'[b].file = "whole" /\ log'[b].cps = proc[p].cps
          /\ appended'[b] \subseteq Ids(proc[p].cps)
      BY <1>e, <2>2, <3>1 DEF Filling
    <3>3. \A q \in Procs : proc'[q].base = b => ~Writing(q)' /\ ~At(q, "fill")'
      BY <1>1, <1>2, <1>3, <2>1, <2>2 DEF Writing, At
    <3>4. QED
      BY <3>2, <3>3 DEF Kept, Whole
  <2>3. CASE proc[p].base # b
    <3>1. SameFile(b) /\ appended'[b] = appended[b]
      BY <1>e, <2>3 DEF Filling
    <3>2. QED
      BY <1>1, <2>1, <2>3, <3>1 DEF Kept, SameFile, Whole, Writing, At
  <2>4. QED
    BY <2>2, <2>3
<1>f. CASE Deleting(p, r)
  <2>1. Running(p) /\ ~Writing(p) /\ ~At(p, "fill") /\ ~Writing(p)' /\ ~At(p, "fill")'
    BY <1>1, <1>f DEF Deleting, Writing, At
  <2>2. CASE proc[p].base = b
    <3>1. log'[b].file = "whole" /\ appended'[b] = {}
      BY <1>f, <2>2 DEF Deleting, NoLog
    <3>2. \A q \in Procs : proc'[q].base = b => ~Writing(q)' /\ ~At(q, "fill")'
      BY <1>1, <1>2, <1>3, <2>1, <2>2 DEF Writing, At
    <3>3. QED
      BY <3>1, <3>2 DEF Kept, Whole
  <2>3. CASE proc[p].base # b
    <3>1. SameFile(b) /\ appended'[b] = appended[b]
      BY <1>f, <2>3 DEF Deleting
    <3>2. QED
      BY <1>1, <2>1, <2>3, <3>1 DEF Kept, SameFile, Whole, Writing, At
  <2>4. QED
    BY <2>2, <2>3
<1>g. QED
  BY <1>a, <1>b, <1>c, <1>d, <1>e, <1>f DEF StepOf

\* Checkpoints settle only where nobody is about to write.
LEMMA SettlesQuietly ==
  ASSUME Shape, NEW p \in Procs, NEW r, Becomes(p, r), Settles(p, r), NEW b \in Commits
  PROVE  \/ settled'[b] = settled[b]
         \/ /\ settled'[b] = Ids(log'[b].cps)
            /\ \A q \in Procs : proc'[q].base = b => ~Writing(q)'
<1>1. CASE settled' = settled
  BY <1>1
<1>2. CASE r.pc = "off" /\ Settle(p, log')
  <2>1. /\ proc'[p] = r /\ \A q \in Procs \ {p} : proc'[q] = proc[q]
    BY Others
  <2>2. settled'[b] = IF Crowd(p, {b}) = {} /\ log'[b].file = "whole" THEN Ids(log'[b].cps) ELSE settled[b]
    BY <1>2 DEF Settle
  <2>3. ASSUME Crowd(p, {b}) = {}, NEW q \in Procs, proc'[q].base = b PROVE ~Writing(q)'
    <3>1. CASE q = p
      BY <1>2, <2>1, <3>1 DEF Writing
    <3>2. CASE q # p
      <4>1. ~Running(q)
        BY <2>1, <2>3, <3>2, BusyWithBase DEF Crowd
      <4>2. QED
        BY <2>1, <3>2, <4>1 DEF Writing, Running, At
    <3>3. QED
      BY <3>1, <3>2
  <2>4. QED
    BY <2>2, <2>3
<1>3. QED
  BY <1>1, <1>2 DEF Settles

LEMMA StaysStep ==
  ASSUME Shape, NEW p \in Procs, NEW r, StepOf(p, r),
         NEW b \in Commits \ halfRead', Stays(b)
  PROVE  Stays(b)'
<1>1. proc'[p] = r /\ \A q \in Procs \ {p} : proc'[q] = proc[q]
  BY Others DEF StepOf
<1>2. Settles(p, r) => \/ settled'[b] = settled[b]
                      \/ Stays(b)'
  BY SettlesQuietly DEF StepOf, Stays
<1>a. CASE Starting(p, r)
  <2>1. SameFile(b) /\ settled'[b] = settled[b] /\ ~Writing(p)'
    BY <1>1, <1>a DEF Starting, Writing
  <2>2. QED
    BY <1>1, <2>1 DEF Stays, SameFile, Whole, Writing
<1>b. CASE Going(p, r)
  <2>1. SameFile(b) /\ ~Writing(p)'
    BY <1>1, <1>b DEF Going, Writing
  <2>2. settled'[b] = settled[b] => Stays(b)'
    BY <1>1, <2>1 DEF Stays, SameFile, Whole, Writing
  <2>3. QED
    BY <1>2, <1>b, <2>2 DEF Going
<1>c. CASE Reading(p, r)
  <2>1. log' = log /\ settled' = settled /\ proc'[p].base = proc[p].base
    BY <1>1, <1>c DEF Reading
  <2>2. proc[p].base = b => Whole(b)
    BY <1>c DEF Reading, NoteRead, Whole
  <2>3. proc'[p].base = b => settled[b] \subseteq Ids(proc'[p].cps)
    BY <1>1, <1>c, <2>1, <2>2 DEF Reading, Stays, Contents, Whole
  <2>4. QED
    BY <1>1, <2>1, <2>3 DEF Stays, Whole, Writing
<1>d. CASE Tearing(p, r)
  <2>1. /\ Writing(p) /\ settled' = settled /\ proc'[p].base = proc[p].base
        /\ proc'[p].cps = proc[p].cps
    BY <1>1, <1>d DEF Tearing, Writing, At
  <2>2. Whole(b)' => SameFile(b)
    BY <1>d DEF Tearing, Whole
  <2>3. QED
    BY <1>1, <2>1, <2>2 DEF Stays, SameFile, Whole, Writing
<1>e. CASE Filling(p, r)
  <2>1. Writing(p) /\ ~Writing(p)'
    BY <1>1, <1>e DEF Filling, Writing, At
  <2>2. SameFile(b) \/ (proc[p].base = b /\ log'[b].cps = proc[p].cps)
    BY <1>e DEF Filling
  <2>3. settled'[b] = settled[b] => Stays(b)'
    BY <1>1, <2>1, <2>2 DEF Stays, SameFile, Whole, Writing
  <2>4. QED
    BY <1>2, <1>e, <2>3 DEF Filling
<1>f. CASE Deleting(p, r)
  <2>1. ~Writing(p)'
    BY <1>1, <1>f DEF Deleting, Writing
  <2>2. CASE proc[p].base = b
    BY <1>f, <2>2 DEF Deleting, Stays
  <2>3. CASE proc[p].base # b
    <3>1. SameFile(b) /\ settled'[b] = settled[b]
      BY <1>f, <2>3 DEF Deleting
    <3>2. QED
      BY <1>1, <2>1, <3>1 DEF Stays, SameFile, Whole, Writing
  <2>4. QED
    BY <2>2, <2>3
<1>g. QED
  BY <1>a, <1>b, <1>c, <1>d, <1>e, <1>f DEF StepOf

LEMMA HalfReadGrows ==
  ASSUME NEW p, NEW r, StepOf(p, r) PROVE halfRead \subseteq halfRead' /\ contended \subseteq contended'
BY DEF StepOf, Starting, Going, Reading, Tearing, Filling, Deleting, NoteRead

LEMMA ExclusiveStep ==
  ASSUME Shape, Exclusive, NEW p \in Procs, NEW r, StepOf(p, r) PROVE Exclusive'
<1>1. CASE Starting(p, r)
  BY <1>1, ExclusiveStarts DEF StepOf
<1>2. CASE ~Starting(p, r)
  <2>1. r.pc = "off" \/ (Running(p) /\ r.base = proc[p].base)
    BY <1>2 DEF StepOf, Going, Reading, Tearing, Filling, Deleting, Running, At
  <2>2. QED
    BY <2>1, HalfReadGrows, ExclusiveKept DEF StepOf
<1>3. QED
  BY <1>1, <1>2

(***************************************************************************)
(* Each action is of one of these kinds                                     *)
(***************************************************************************)
LogsOK == log' = [b \in Commits |-> log'[b]] /\ \A b \in Commits : IsLog(log'[b])
ListsOK ==
  appended' = [b \in Commits |-> appended'[b]] /\ settled' = [b \in Commits |-> settled'[b]]

LEMMA SameHead ==
  ASSUME Shape, NEW p \in Procs, NEW r, proc' = [proc EXCEPT ![p] = r], IsProc(r, head), head' = head,
         r.pc = "off" \/ (Running(p) /\ r.base = proc[p].base), LogsOK, ListsOK
  PROVE  Shape' /\ Becomes(p, r)
<1>1. p = Git /\ r.pc # "off" => r.base + 1 \in Commits
  BY DEF Shape
<1>2. head' \in {head, head + 1} \cap Commits /\ IsProc(r, head')
  BY DEF Shape
<1>3. QED
  BY <1>1, <1>2, NewShape DEF LogsOK, ListsOK, Becomes

LEMMA StartsStep ==
  ASSUME Shape, NEW p \in Procs, NEW kind, NEW files, Starts(p, kind, files, head), ~Running(p),
         contended \cup Crowd(p, {head}) \subseteq contended',
         UNCHANGED <<appended, settled, halfRead>>,
         head' \in {head, head + 1} \cap Commits, p = Git => head + 1 \in Commits
  PROVE  Shape' /\ \E r : StepOf(p, r)
<1> DEFINE r == [Idle EXCEPT !.pc = "compute", !.kind = kind, !.files = files,
                             !.base = head, !.n = proc[p].n]
<1>1. proc' = [proc EXCEPT ![p] = r] /\ log' = [log EXCEPT ![head].dir = TRUE]
  BY DEF Starts
<1>2. /\ {"pc", "base", "cps", "next"} \subseteq DOMAIN r
      /\ r.pc = "compute" /\ r.base = head /\ r.cps = <<>>
  BY DEF Idle
<1> HIDE DEF r
<1>3. IsProc(r, head')
  BY <1>2, EmptySeq, WorkingLogAssumption DEF IsProc, Shape, Commits
<1>4. LogsOK /\ \A c \in Commits : SameFile(c)
  BY <1>1 DEF Shape, LogsOK, IsLog, SameFile
<1>5. Shape'
  BY <1>1, <1>2, <1>3, <1>4, NewShape DEF LogsOK, Shape
<1>6. Becomes(p, r) /\ Starting(p, r)
  BY <1>1, <1>2, <1>3, <1>4 DEF Becomes, Starting
<1>7. QED
  BY <1>5, <1>6 DEF StepOf

\* A process ends, and what is in the logs may settle.
LEMMA EndsTo ==
  ASSUME Shape, NEW p \in Procs, Ends(p, log'), head' = head
  PROVE  /\ settled' = [b \in Commits |-> settled'[b]]
         /\ \E r : /\ proc' = [proc EXCEPT ![p] = r] /\ IsProc(r, head)
                   /\ r.pc = "off" /\ Settles(p, r)
<1> DEFINE r == [Idle EXCEPT !.n = proc[p].n]
<1>1. proc' = [proc EXCEPT ![p] = r] /\ Settle(p, log')
  BY DEF Ends
<1>2. /\ {"pc", "base", "cps", "next"} \subseteq DOMAIN r
      /\ r.pc = "off" /\ r.base = 0 /\ r.cps = <<>>
  BY DEF Idle
<1> HIDE DEF r
<1>3. IsProc(r, head)
  BY <1>2, EmptySeq, WorkingLogAssumption DEF IsProc, Shape, Commits
<1>4. QED
  BY <1>1, <1>2, <1>3 DEF Settles, Settle

LEMMA OverTo ==
  ASSUME Shape, NEW p \in Procs, Running(p), Over(p, log'), head' = head
  PROVE  /\ settled' = [b \in Commits |-> settled'[b]]
         /\ \E r : /\ proc' = [proc EXCEPT ![p] = r] /\ IsProc(r, head)
                   /\ r.pc = "off" \/ (r.pc = "mutate" /\ r.base = proc[p].base)
                   /\ Settles(p, r)
<1>1. CASE p # Git
  BY <1>1, EndsTo DEF Over
<1>2. CASE p = Git
  <2> DEFINE r == [proc[p] EXCEPT !.pc = "mutate", !.cps = <<>>]
  <2>1. proc' = [proc EXCEPT ![p] = r] /\ settled' = settled
    BY <1>2 DEF Over
  <2>2. /\ {"pc", "base", "cps", "next"} \subseteq DOMAIN r
        /\ r.pc = "mutate" /\ r.base = proc[p].base /\ r.cps = <<>>
    BY DEF Shape, IsProc
  <2> HIDE DEF r
  <2>3. IsProc(r, head)
    BY <2>2, EmptySeq DEF IsProc, Shape
  <2>4. QED
    BY <2>1, <2>2, <2>3 DEF Settles, Shape
<1>3. QED
  BY <1>1, <1>2

LEMMA GoingStep ==
  ASSUME Shape, NEW p \in Procs, NEW r, proc' = [proc EXCEPT ![p] = r], IsProc(r, head), head' = head,
         Running(p), ~At(p, "fill"), r.pc \notin {"tear", "fill"},
         r.pc = "off" \/ r.base = proc[p].base,
         LogsOK, \A c \in Commits : SameFile(c), appended' = appended, Settles(p, r),
         settled' = [b \in Commits |-> settled'[b]],
         halfRead \subseteq halfRead', contended' = contended
  PROVE  Shape' /\ \E q \in Procs : \E x : StepOf(q, x)
<1>1. ListsOK
  BY DEF ListsOK, Shape
<1>2. Shape' /\ Becomes(p, r)
  BY <1>1, SameHead
<1>3. Going(p, r)
  BY DEF Going
<1>4. QED
  BY <1>2, <1>3 DEF StepOf

LEMMA SameLogs == ASSUME Shape, log' = log PROVE LogsOK /\ \A c \in Commits : SameFile(c)
BY DEF Shape, LogsOK, SameFile

LEMMA NoteReadGrows == ASSUME NEW b, NoteRead(b) PROVE halfRead \subseteq halfRead'
BY DEF NoteRead

\* A directory is created; the files stay.
LEMMA MakeDir ==
  ASSUME Shape, NEW b \in Commits, log' = [log EXCEPT ![b].dir = TRUE]
  PROVE  LogsOK /\ \A c \in Commits : SameFile(c)
BY DEF Shape, LogsOK, IsLog, SameFile

LEMMA ComputeStep ==
  ASSUME Shape, NEW p \in Procs, Compute(p) PROVE Shape' /\ \E q \in Procs : \E x : StepOf(q, x)
<1>0. proc[p].base \in Commits
  BY WorkingLogAssumption DEF Shape, IsProc, Commits
<1>1. /\ At(p, "compute") /\ appended' = appended /\ contended' = contended
      /\ head' = head /\ halfRead \subseteq halfRead'
      /\ LogsOK /\ \A c \in Commits : SameFile(c)
  BY <1>0, NoteReadGrows, MakeDir DEF Compute, userVars
<1>2. Running(p) /\ ~At(p, "fill")
  BY <1>1 DEF Running, At
<1>3. CASE Over(p, log)
  <2>1. Over(p, log')
    BY <1>1, <1>3 DEF Over, Ends, Settle, SameFile
  <2>2. PICK r : /\ proc' = [proc EXCEPT ![p] = r] /\ IsProc(r, head)
                 /\ r.pc = "off" \/ (r.pc = "mutate" /\ r.base = proc[p].base)
                 /\ Settles(p, r)
    BY <1>1, <1>2, <2>1, OverTo
  <2>3. settled' = [b \in Commits |-> settled'[b]]
    BY <1>1, <1>2, <2>1, OverTo
  <2>4. QED
    BY <1>1, <1>2, <2>2, <2>3, GoingStep
<1>4. ASSUME NEW entries, UNCHANGED settled,
             proc' = [proc EXCEPT ![p].pc = "append", ![p].entries = entries]
      PROVE  Shape' /\ \E q \in Procs : \E x : StepOf(q, x)
  <2> DEFINE r == [proc[p] EXCEPT !.pc = "append", !.entries = entries]
  <2>1. proc' = [proc EXCEPT ![p] = r]
    BY <1>4 DEF Shape
  <2>2. /\ {"pc", "base", "cps", "next"} \subseteq DOMAIN r
        /\ r.pc = "append" /\ r.base = proc[p].base /\ r.cps = proc[p].cps
    BY DEF Shape, IsProc
  <2> HIDE DEF r
  <2>3. IsProc(r, head) /\ Settles(p, r) /\ settled' = [b \in Commits |-> settled'[b]]
    BY <1>4, <2>2 DEF IsProc, Shape, Settles
  <2>4. QED
    BY <1>1, <1>2, <2>1, <2>2, <2>3, GoingStep
<1>5. QED
  BY <1>3, <1>4 DEF Compute

LEMMA TearFailsStep ==
  ASSUME Shape, NEW p \in Procs, TearFails(p) PROVE Shape' /\ \E q \in Procs : \E x : StepOf(q, x)
<1>1. /\ At(p, "tear") /\ log' = log /\ appended' = appended /\ contended' = contended
      /\ head' = head /\ halfRead' = halfRead
  BY DEF TearFails, userVars
<1>2. Running(p) /\ ~At(p, "fill")
  BY <1>1 DEF Running, At
<1>3. Over(p, log')
  BY <1>1 DEF TearFails
<1>4. PICK r : /\ proc' = [proc EXCEPT ![p] = r] /\ IsProc(r, head)
               /\ r.pc = "off" \/ (r.pc = "mutate" /\ r.base = proc[p].base)
               /\ Settles(p, r)
  BY <1>1, <1>2, <1>3, OverTo
<1>5. settled' = [b \in Commits |-> settled'[b]]
  BY <1>1, <1>2, <1>3, OverTo
<1>6. QED
  BY <1>1, <1>2, <1>4, <1>5, SameLogs, GoingStep

LEMMA AbortsStep ==
  ASSUME Shape, Running(Git), ~At(Git, "fill"), Aborts, halfRead \subseteq halfRead'
  PROVE  Shape' /\ \E q \in Procs : \E x : StepOf(q, x)
<1>1. /\ log' = log /\ appended' = appended /\ contended' = contended /\ head' = head
      /\ Git \in Procs
  BY DEF Aborts, userVars, Procs
<1>2. Ends(Git, log')
  BY <1>1 DEF Aborts
<1>3. PICK r : /\ proc' = [proc EXCEPT ![Git] = r] /\ IsProc(r, head)
               /\ r.pc = "off" /\ Settles(Git, r)
  BY <1>1, <1>2, EndsTo
<1>4. settled' = [b \in Commits |-> settled'[b]]
  BY <1>1, <1>2, EndsTo
<1>5. QED
  BY <1>1, <1>3, <1>4, SameLogs, GoingStep

LEMMA CollectStep == ASSUME Shape, Collect PROVE Shape' /\ \E q \in Procs : \E x : StepOf(q, x)
<1>1. /\ At(Git, "collect") /\ log' = log /\ appended' = appended /\ contended' = contended
      /\ head' = head /\ halfRead \subseteq halfRead' /\ settled' = settled /\ Git \in Procs
  BY NoteReadGrows DEF Collect, userVars, Procs
<1>2. Running(Git) /\ ~At(Git, "fill")
  BY <1>1 DEF Running, At
<1>3. PICK carry, snap : proc' = [proc EXCEPT ![Git].pc = "carry", ![Git].cps = <<>>,
                                              ![Git].carry = carry, ![Git].snap = snap]
  BY DEF Collect
<1> DEFINE r == [proc[Git] EXCEPT !.pc = "carry", !.cps = <<>>, !.carry = carry, !.snap = snap]
<1>4. proc' = [proc EXCEPT ![Git] = r]
  BY <1>1, <1>3 DEF Shape
<1>5. /\ {"pc", "base", "cps", "next"} \subseteq DOMAIN r
      /\ r.pc = "carry" /\ r.base = proc[Git].base /\ r.cps = <<>>
  BY <1>1 DEF Shape, IsProc
<1> HIDE DEF r
<1>6. IsProc(r, head) /\ Settles(Git, r) /\ settled' = [b \in Commits |-> settled'[b]]
  BY <1>1, <1>5, EmptySeq DEF IsProc, Shape, Settles
<1>7. QED
  BY <1>1, <1>2, <1>4, <1>5, <1>6, SameLogs, GoingStep

LEMMA CarryStep == ASSUME Shape, Carry PROVE Shape' /\ \E q \in Procs : \E x : StepOf(q, x)
<1> DEFINE c == proc[Git].base + 1
           r == [proc[Git] EXCEPT !.pc = "delete"]
<1>1. /\ At(Git, "carry") /\ appended' = appended /\ contended' = contended
      /\ head' = head /\ halfRead \subseteq halfRead' /\ settled' = settled /\ Git \in Procs
      /\ proc' = [proc EXCEPT ![Git].pc = "delete"]
  BY DEF Carry, userVars, ghosts, Procs
<1>2. Running(Git) /\ ~At(Git, "fill")
  BY <1>1 DEF Running, At
<1>3. proc' = [proc EXCEPT ![Git] = r]
  BY <1>1 DEF Shape
<1>4. /\ {"pc", "base", "cps", "next"} \subseteq DOMAIN r
      /\ r.pc = "delete" /\ r.base = proc[Git].base /\ r.cps = proc[Git].cps
  BY <1>1 DEF Shape, IsProc
<1>5. LogsOK /\ \A b \in Commits : SameFile(b)
  <2>1. CASE log' = log
    BY <2>1, SameLogs
  <2>2. ASSUME NEW carry, NEW snap,
               log' = [log EXCEPT ![c].dir = TRUE, ![c].initial = carry, ![c].snap = snap]
        PROVE  LogsOK /\ \A b \in Commits : SameFile(b)
    BY <1>2, <2>2 DEF Shape, IsLog, LogsOK, SameFile
  <2>3. QED
    BY <2>1, <2>2 DEF Carry
<1> HIDE DEF r, c
<1>6. IsProc(r, head) /\ Settles(Git, r) /\ settled' = [b \in Commits |-> settled'[b]]
  BY <1>1, <1>4 DEF IsProc, Shape, Settles
<1>7. QED
  BY <1>1, <1>2, <1>3, <1>4, <1>5, <1>6, GoingStep

LEMMA ReadingStep ==
  ASSUME Shape, NEW p \in Procs, NEW r, proc' = [proc EXCEPT ![p] = r], IsProc(r, head), head' = head,
         Reading(p, r)
  PROVE  Shape' /\ \E q \in Procs : \E x : StepOf(q, x)
<1>1. LogsOK /\ ListsOK
  BY SameLogs DEF Reading, ListsOK, Shape
<1>2. Shape' /\ Becomes(p, r)
  BY <1>1, SameHead DEF Reading
<1>3. QED
  BY <1>2 DEF StepOf

LEMMA AppendReadStep ==
  ASSUME Shape, NEW p \in Procs, AppendRead(p) PROVE Shape' /\ \E q \in Procs : \E x : StepOf(q, x)
<1> DEFINE b == proc[p].base
           cp == [id |-> <<p, proc[p].n + 1>>, kind |-> proc[p].kind, entries |-> proc[p].entries]
           r == [proc[p] EXCEPT !.pc = "tear", !.n = @ + 1, !.entries = <<>>,
                   !.cps = Append(Contents(b), cp), !.next = IF p = Git THEN "mutate" ELSE "off"]
<1>1. /\ At(p, "append") /\ NoteRead(b) /\ head' = head
      /\ UNCHANGED <<log, appended, settled, contended>>
  BY DEF AppendRead, userVars
<1>2. proc' = [proc EXCEPT ![p] = r]
  BY DEF AppendRead, Shape
<1>3. b \in Commits /\ b \in 0..head
  BY WorkingLogAssumption DEF Shape, IsProc, Commits
<1> HIDE DEF cp
<1>4. /\ IsSeq(Append(Contents(b), cp)) /\ Append(Contents(b), cp) # <<>>
      /\ Ids(Contents(b)) \subseteq Ids(Append(Contents(b), cp))
  BY <1>3, ContentsSeq, AppendSeq
<1>5. /\ {"pc", "base", "cps", "next"} \subseteq DOMAIN r
      /\ r.pc = "tear" /\ r.base = b /\ r.cps = Append(Contents(b), cp)
  BY DEF Shape, IsProc
<1> HIDE DEF r
<1>6. IsProc(r, head)
  BY <1>3, <1>4, <1>5 DEF IsProc
<1>7. Reading(p, r)
  BY <1>1, <1>4, <1>5 DEF Reading, Running, Writing, At
<1>8. QED
  BY <1>1, <1>2, <1>6, <1>7, ReadingStep

LEMMA MutateStep == ASSUME Shape, Mutate PROVE Shape' /\ \E q \in Procs : \E x : StepOf(q, x)
<1> DEFINE b == proc[Git].base
           r == [proc[Git] EXCEPT !.pc = "tear", !.cps = Contents(b), !.next = "collect"]
<1>1. /\ At(Git, "mutate") /\ NoteRead(b) /\ head' = head /\ Git \in Procs
      /\ UNCHANGED <<log, appended, settled, contended>>
  BY DEF Mutate, userVars, Procs
<1>2. proc' = [proc EXCEPT ![Git] = r]
  BY <1>1 DEF Mutate, Shape
<1>3. b \in Commits /\ b \in 0..head
  BY <1>1, WorkingLogAssumption DEF Shape, IsProc, Commits
<1>4. /\ {"pc", "base", "cps", "next"} \subseteq DOMAIN r
      /\ r.pc = "tear" /\ r.base = b /\ r.cps = Contents(b) /\ r.next = "collect"
  BY <1>1 DEF Shape, IsProc
<1> HIDE DEF r
<1>5. IsProc(r, head)
  BY <1>3, <1>4, ContentsSeq DEF IsProc
<1>6. Reading(Git, r)
  BY <1>1, <1>4 DEF Reading, Running, Writing, At
<1>7. QED
  BY <1>1, <1>2, <1>5, <1>6, ReadingStep

LEMMA TearStep ==
  ASSUME Shape, NEW p \in Procs, Tear(p) PROVE Shape' /\ \E q \in Procs : \E x : StepOf(q, x)
<1> DEFINE b == proc[p].base
           r == [proc[p] EXCEPT !.pc = "fill"]
           l == [log[b] EXCEPT !.file = "cut", !.cps = <<>>, !.open = @ \cup {p}]
<1>1. /\ At(p, "tear") /\ head' = head /\ UNCHANGED <<appended, settled, contended, halfRead>>
  BY DEF Tear, userVars, ghosts
<1>2. b \in Commits
  BY WorkingLogAssumption DEF Shape, IsProc, Commits
<1>3. proc' = [proc EXCEPT ![p] = r] /\ log' = [log EXCEPT ![b] = l]
  BY <1>2 DEF Tear, Shape
<1>4. /\ {"pc", "base", "cps", "next"} \subseteq DOMAIN r
      /\ r.pc = "fill" /\ r.base = b /\ r.cps = proc[p].cps /\ r.next = proc[p].next
  BY DEF Shape, IsProc
<1>5. IsLog(l) /\ l.file = "cut" /\ l.open = log[b].open \cup {p}
  BY <1>2, EmptySeq DEF Shape, IsLog
<1> HIDE DEF r, l
<1>6. IsProc(r, head)
  BY <1>1, <1>4 DEF IsProc, Shape, At
<1>7. LogsOK /\ ListsOK
  BY <1>1, <1>2, <1>3, <1>5, PutLog DEF LogsOK, ListsOK, Shape
<1>8. Shape' /\ Becomes(p, r)
  BY <1>1, <1>3, <1>4, <1>6, <1>7, SameHead DEF Running, At
<1>9. Tearing(p, r)
  BY <1>1, <1>2, <1>3, <1>4, <1>5 DEF Tearing, SameFile, Shape
<1>10. QED
  BY <1>8, <1>9 DEF StepOf

LEMMA FillStep ==
  ASSUME Shape, NEW p \in Procs, Fill(p) PROVE Shape' /\ \E q \in Procs : \E x : StepOf(q, x)
<1> DEFINE b == proc[p].base
           cp == proc[p].cps[Len(proc[p].cps)]
<1>1. At(p, "fill") /\ Running(p) /\ head' = head /\ UNCHANGED <<contended, halfRead>>
  BY DEF Fill, userVars, Running, At
<1>2. b \in Commits /\ b \in 0..head /\ IsSeq(proc[p].cps)
  BY WorkingLogAssumption DEF Shape, IsProc, Commits
<1>3. /\ LogsOK /\ \A c \in Commits \ {b} : SameFile(c)
      /\ \/ /\ p \in log[b].open /\ log'[b].cps = proc[p].cps
            /\ log'[b].file = "whole" \/ log[b].file # "cut"
         \/ p \notin log[b].open /\ SameFile(b)
  <2>1. CASE p \in log[b].open
    <3>1. PICK file \in {"whole"} \cup (IF log[b].file = "cut" THEN {} ELSE {"spoilt"}) :
            log' = [log EXCEPT ![b] = Written(log[b], p, proc[p].cps, file)]
      BY <1>2, <2>1 DEF Fill, Shape
    <3>2. /\ IsLog(Written(log[b], p, proc[p].cps, file))
          /\ Written(log[b], p, proc[p].cps, file).file = file
          /\ Written(log[b], p, proc[p].cps, file).cps = proc[p].cps
      BY <1>2 DEF Written, IsLog, Shape
    <3>3. LogsOK
      BY <1>2, <3>1, <3>2, PutLog DEF LogsOK
    <3>4. QED
      BY <1>2, <2>1, <3>1, <3>2, <3>3 DEF Shape, SameFile
  <2>2. CASE p \notin log[b].open
    <3>1. log' = log
      BY <2>2 DEF Fill
    <3>2. QED
      BY <1>2, <2>2, <3>1, SameLogs
  <2>3. QED
    BY <2>1, <2>2
<1>4. CASE proc[p].next = "collect"
  <2> DEFINE r == [proc[p] EXCEPT !.pc = "collect"]
  <2>1. proc' = [proc EXCEPT ![p] = r] /\ UNCHANGED <<appended, settled>>
    BY <1>4 DEF Fill, Shape
  <2>2. /\ {"pc", "base", "cps", "next"} \subseteq DOMAIN r
        /\ r.pc = "collect" /\ r.base = b /\ r.cps = proc[p].cps
    BY DEF Shape, IsProc
  <2> HIDE DEF r
  <2>3. IsProc(r, head)
    BY <1>2, <2>2 DEF IsProc
  <2>4. Shape' /\ Becomes(p, r)
    BY <1>1, <1>3, <2>1, <2>2, <2>3, SameHead DEF ListsOK, Shape
  <2>5. Filling(p, r)
    BY <1>1, <1>3, <2>1, <2>2 DEF Filling, Settles
  <2>6. QED
    BY <2>4, <2>5 DEF StepOf
<1>5. CASE proc[p].next # "collect"
  <2>1. appended' = [appended EXCEPT ![b] = @ \cup {cp.id}] /\ Over(p, log')
    BY <1>5 DEF Fill
  <2>2. cp.id \in Ids(proc[p].cps)
    BY <1>1, <1>2, <1>5, LastId DEF Shape, IsProc, At
  <2> HIDE DEF cp
  <2>3. PICK r : /\ proc' = [proc EXCEPT ![p] = r] /\ IsProc(r, head)
                 /\ r.pc = "off" \/ (r.pc = "mutate" /\ r.base = proc[p].base)
                 /\ Settles(p, r)
    BY <1>1, <2>1, OverTo
  <2>4. settled' = [c \in Commits |-> settled'[c]]
    BY <1>1, <2>1, OverTo
  <2>5. /\ appended' = [c \in Commits |-> appended'[c]]
        /\ \A c \in Commits \ {b} : appended'[c] = appended[c]
        /\ appended'[b] \subseteq appended[b] \cup Ids(proc[p].cps)
    BY <1>2, <2>1, <2>2 DEF Shape
  <2>6. Shape' /\ Becomes(p, r)
    BY <1>1, <1>3, <2>3, <2>4, <2>5, SameHead DEF ListsOK
  <2>7. Filling(p, r)
    BY <1>1, <1>3, <2>3, <2>5 DEF Filling
  <2>8. QED
    BY <2>6, <2>7 DEF StepOf
<1>6. QED
  BY <1>4, <1>5

LEMMA DeleteStep == ASSUME Shape, Delete PROVE Shape' /\ \E q \in Procs : \E x : StepOf(q, x)
<1> DEFINE b == proc[Git].base
           r == [Idle EXCEPT !.n = proc[Git].n]
<1>1. /\ At(Git, "delete") /\ head' = head /\ UNCHANGED <<contended, halfRead>> /\ Git \in Procs
      /\ proc' = [proc EXCEPT ![Git] = r] /\ log' = [log EXCEPT ![b] = NoLog]
      /\ appended' = [appended EXCEPT ![b] = {}] /\ settled' = [settled EXCEPT ![b] = {}]
  BY DEF Delete, userVars, Procs
<1>2. b \in Commits /\ 0 \in 0..head
  BY <1>1, WorkingLogAssumption DEF Shape, IsProc, Commits
<1>3. /\ {"pc", "base", "cps", "next"} \subseteq DOMAIN r
      /\ r.pc = "off" /\ r.base = 0 /\ r.cps = <<>>
  BY DEF Idle
<1> HIDE DEF r
<1>4. IsProc(r, head)
  BY <1>2, <1>3, EmptySeq DEF IsProc
<1>5. IsLog(NoLog)
  BY EmptySeq DEF IsLog, NoLog
<1>6. LogsOK /\ ListsOK
  BY <1>1, <1>2, <1>5, PutLog DEF LogsOK, ListsOK, Shape
<1>7. Shape' /\ Becomes(Git, r)
  BY <1>1, <1>3, <1>4, <1>6, SameHead
<1>8. Deleting(Git, r)
  BY <1>1, <1>2, <1>3 DEF Deleting, Running, Writing, At, SameFile, Shape
<1>9. QED
  BY <1>1, <1>7, <1>8 DEF StepOf

LEMMA CommitStep ==
  ASSUME Shape, budget \in Budgets, Commit PROVE Shape' /\ \E q \in Procs : \E x : StepOf(q, x)
<1>1. /\ ~Running(Git) /\ head' = head + 1 /\ Git \in Procs /\ Starts(Git, "human", Files, head)
      /\ contended \cup Crowd(Git, {head}) \subseteq contended'
      /\ UNCHANGED <<appended, settled, halfRead>>
  BY DEF Commit, Procs
<1>2. head + 1 \in Commits
  BY WorkingLogAssumption DEF Commit, Shape, Commits
<1>3. QED
  BY <1>1, <1>2, StartsStep

\* A hook of an agent starts a checkpoint.
LEMMA HookStep ==
  ASSUME Shape, NEW g \in Agents, NEW kind, NEW files, ~Running(g), Starts(g, kind, files, head),
         contended' = contended \cup Crowd(g, {head}), head' = head,
         UNCHANGED <<appended, settled, halfRead>>
  PROVE  Shape' /\ \E q \in Procs : \E x : StepOf(q, x)
<1>1. g \in Procs /\ g # Git
  BY WorkingLogAssumption DEF Procs
<1>2. head' \in {head, head + 1} \cap Commits
  BY DEF Shape
<1>3. contended \cup Crowd(g, {head}) \subseteq contended'
  OBVIOUS
<1>4. QED
  BY <1>1, <1>2, <1>3, StartsStep

LEMMA Kinds ==
  ASSUME Shape, budget \in Budgets, [Next]_vars
  PROVE  /\ Shape' /\ budget' \in Budgets
         /\ Still \/ \E p \in Procs : \E r : StepOf(p, r)
<1>1. budget' = budget
  <2>1. [Next]_vars => UNCHANGED userVars \/ budget' = budget
    BY DEF Next, vars, HumanEdit, PreTool, EditAndPostTool, Commit, Compute, AppendRead, Tear,
           TearFails, Fill, Mutate, MutateFails, Collect, StatsFail, Carry, Delete, Aborts
  <2>2. QED
    BY <2>1 DEF userVars
<1>2. CASE UNCHANGED vars \/ \E f \in Files : HumanEdit(f)
  <2>1. Still /\ head' = head
    BY <1>2 DEF vars, userVars, ghosts, HumanEdit, Still
  <2>2. Shape'
    BY <2>1 DEF Still, Shape, Running, At
  <2>3. QED
    BY <1>1, <2>1, <2>2
<1>3. ASSUME NEW f \in Files, NEW g \in Agents, PreTool(g, f)
      PROVE  Shape' /\ \E q \in Procs : \E x : StepOf(q, x)
  <2>1. /\ ~Running(g) /\ Starts(g, "human", {f}, head) /\ head' = head
        /\ contended' = contended \cup Crowd(g, {head})
        /\ UNCHANGED <<appended, settled, halfRead>>
    BY <1>3 DEF PreTool, InTool
  <2>2. QED
    BY <2>1, HookStep
<1>4. ASSUME NEW g \in Agents, EditAndPostTool(g)
      PROVE  Shape' /\ \E q \in Procs : \E x : StepOf(q, x)
  <2>1. /\ ~Running(g) /\ Starts(g, "ai", {session[g].file}, head) /\ head' = head
        /\ contended' = contended \cup Crowd(g, {head})
        /\ UNCHANGED <<appended, settled, halfRead>>
    BY <1>4 DEF EditAndPostTool
  <2>2. QED
    BY <2>1, HookStep
<1>5. CASE MutateFails \/ StatsFail
  <2>1. Running(Git) /\ ~At(Git, "fill") /\ Aborts /\ halfRead \subseteq halfRead'
    BY <1>5, NoteReadGrows DEF MutateFails, StatsFail, Running, At
  <2>2. QED
    BY <1>1, <2>1, AbortsStep
<1>6. QED
  BY <1>1, <1>2, <1>3, <1>4, <1>5, CommitStep, ComputeStep, AppendReadStep, TearStep, TearFailsStep,
     FillStep, MutateStep, CollectStep, CarryStep, DeleteStep DEF Next

(***************************************************************************)
(* The theorems                                                             *)
(***************************************************************************)
LEMMA ShapeAtFirst == Init => Shape /\ budget \in Budgets
<1> SUFFICES ASSUME Init PROVE Shape
  BY DEF Init
<1>1. head = 0 /\ 0 \in Commits /\ 0 \in 0..head
  BY WorkingLogAssumption DEF Init, Commits
<1>2. IsLog(NoLog) /\ IsProc(Idle, head) /\ Idle.pc = "off"
  BY <1>1, EmptySeq DEF IsLog, NoLog, IsProc, Idle
<1>3. ~Running(Git)
  BY <1>2 DEF Init, Running, At, Procs
<1>4. QED
  BY <1>1, <1>2, <1>3 DEF Init, Shape

LEMMA AloneAtFirst == Init => AloneInv
<1> SUFFICES ASSUME Init PROVE AloneInv
  OBVIOUS
<1>1. \A p \in Procs : proc[p].pc = "off"
  BY DEF Init, Idle
<1>2. Exclusive
  BY <1>1 DEF Exclusive, Busy, Running, At
<1>3. \A b \in Commits : appended[b] = {} /\ log[b].file = "whole"
  BY DEF Init, NoLog
<1>4. \A b \in Commits : Kept(b)
  BY <1>1, <1>3 DEF Kept, Whole, Writing, At
<1>5. QED
  BY <1>2, <1>4, ShapeAtFirst DEF AloneInv

LEMMA AloneNext == AloneInv /\ [Next]_vars => AloneInv'
<1> SUFFICES ASSUME AloneInv, [Next]_vars PROVE AloneInv'
  OBVIOUS
<1>1. Shape /\ budget \in Budgets /\ Exclusive /\ Shape' /\ budget' \in Budgets
  BY Kinds DEF AloneInv
<1>2. CASE Still
  <2>1. Exclusive'
    BY <1>1, <1>2 DEF Still, Exclusive, Busy, Running, At
  <2>2. \A b \in Commits : Kept(b) => Kept(b)'
    BY <1>2 DEF Still, Kept, Whole, Writing, At
  <2>3. QED
    BY <1>1, <1>2, <2>1, <2>2 DEF AloneInv, Still
<1>3. ASSUME NEW p \in Procs, NEW r, StepOf(p, r) PROVE AloneInv'
  <2>1. Exclusive' /\ contended \subseteq contended'
    BY <1>1, <1>3, ExclusiveStep, HalfReadGrows
  <2>2. \A b \in Commits \ contended : Kept(b) => Kept(b)'
    BY <1>1, <1>3, KeptStep
  <2>3. QED
    BY <1>1, <2>1, <2>2 DEF AloneInv
<1>4. QED
  BY <1>1, <1>2, <1>3, Kinds

\* However many agents run checkpoints beside post-commit: where one process at a
\* time used a log, every checkpoint whose append succeeded is in it.
THEOREM AppendKept == Spec => []AppendKeptIfAlone
<1>1. AloneInv => AppendKeptIfAlone
  BY DEF AloneInv, Kept, Whole, AppendKeptIfAlone
<1>2. QED
  BY AloneAtFirst, AloneNext, <1>1, PTL DEF Spec

LEMMA SettledAtFirst == Init => SettledInv
<1> SUFFICES ASSUME Init PROVE SettledInv
  OBVIOUS
<1>1. \A b \in Commits : settled[b] = {}
  BY DEF Init
<1>2. QED
  BY <1>1, ShapeAtFirst DEF SettledInv, Stays

LEMMA SettledNext == SettledInv /\ [Next]_vars => SettledInv'
<1> SUFFICES ASSUME SettledInv, [Next]_vars PROVE SettledInv'
  OBVIOUS
<1>1. Shape /\ budget \in Budgets /\ Shape' /\ budget' \in Budgets
  BY Kinds DEF SettledInv
<1>2. CASE Still
  <2>1. \A b \in Commits : Stays(b) => Stays(b)'
    BY <1>2 DEF Still, Stays, Whole, Writing
  <2>2. QED
    BY <1>1, <1>2, <2>1 DEF SettledInv, Still
<1>3. ASSUME NEW p \in Procs, NEW r, StepOf(p, r) PROVE SettledInv'
  <2>1. halfRead \subseteq halfRead'
    BY <1>3, HalfReadGrows
  <2>2. \A b \in Commits \ halfRead' : Stays(b) => Stays(b)'
    BY <1>1, <1>3, StaysStep
  <2>3. QED
    BY <1>1, <2>1, <2>2 DEF SettledInv
<1>4. QED
  BY <1>1, <1>2, <1>3, Kinds

\* Whatever races there are: a checkpoint that was in a log while nobody used it
\* is not lost, unless somebody read the log cut or spoilt.
THEOREM SettledStaysForGood == Spec => []SettledStays
<1>1. SettledInv => SettledStays
  BY DEF SettledInv, Stays, Whole, SettledStays
<1>2. QED
  BY SettledAtFirst, SettledNext, <1>1, PTL DEF Spec

(***************************************************************************)
(* Types, relative to the lines w that were written so far                  *)
(***************************************************************************)
FilesIn(w) == [Files -> SUBSET w]
AttrsIn(w) == [Files -> SUBSET (w \X Agents)]
EntryIn(w) == [content : SUBSET w, attr : SUBSET (w \X Agents), blank : BOOLEAN]
EntriesIn(w) == UNION {[S -> EntryIn(w)] : S \in SUBSET Files}
CheckpointIn(w) == [id : Procs \X Nat, kind : {"human", "ai"}, entries : EntriesIn(w)]
LogIn(w) ==
  [dir : BOOLEAN, file : {"whole", "cut", "spoilt"}, open : SUBSET Procs,
   cps : Seq(CheckpointIn(w)), initial : AttrsIn(w), snap : FilesIn(w)]
Places == {"off", "compute", "append", "tear", "fill", "mutate", "collect", "carry", "delete"}
ProcIn(w) ==
  [pc : Places, kind : {"human", "ai"}, files : SUBSET Files, base : Commits, n : Nat,
   cps : Seq(CheckpointIn(w)), entries : EntriesIn(w), next : {"off", "mutate", "collect"},
   carry : AttrsIn(w), snap : FilesIn(w)]

LEMMA EntriesAre ==
  ASSUME NEW w, NEW e
  PROVE  e \in EntriesIn(w) <=> \E S \in SUBSET Files : e \in [S -> EntryIn(w)]
BY DEF EntriesIn

LEMMA NoEntries == ASSUME NEW w PROVE <<>> \in EntriesIn(w)
<1>1. <<>> \in [{} -> EntryIn(w)]
  OBVIOUS
<1>2. {} \in SUBSET Files
  OBVIOUS
<1>3. QED
  BY <1>1, <1>2, EntriesAre

LEMMA Wider ==
  ASSUME NEW w, NEW v, w \subseteq v
  PROVE  /\ FilesIn(w) \subseteq FilesIn(v) /\ AttrsIn(w) \subseteq AttrsIn(v)
         /\ EntriesIn(w) \subseteq EntriesIn(v)
         /\ LogIn(w) \subseteq LogIn(v) /\ ProcIn(w) \subseteq ProcIn(v)
<1>1. FilesIn(w) \subseteq FilesIn(v) /\ AttrsIn(w) \subseteq AttrsIn(v)
  BY DEF FilesIn, AttrsIn
<1>2. EntryIn(w) \subseteq EntryIn(v)
  BY DEF EntryIn
<1>3. EntriesIn(w) \subseteq EntriesIn(v)
  <2> SUFFICES ASSUME NEW e \in EntriesIn(w) PROVE e \in EntriesIn(v)
    OBVIOUS
  <2>1. PICK S \in SUBSET Files : e \in [S -> EntryIn(w)]
    BY EntriesAre
  <2>2. e \in [S -> EntryIn(v)]
    BY <1>2, <2>1
  <2>3. QED
    BY <2>2, EntriesAre
<1>4. CheckpointIn(w) \subseteq CheckpointIn(v)
  BY <1>3 DEF CheckpointIn
<1>5. Seq(CheckpointIn(w)) \subseteq Seq(CheckpointIn(v))
  BY <1>4
<1>6. LogIn(w) \subseteq LogIn(v)
  BY <1>1, <1>5 DEF LogIn
<1>7. ProcIn(w) \subseteq ProcIn(v)
  BY <1>1, <1>3, <1>5 DEF ProcIn
<1>8. QED
  BY <1>1, <1>3, <1>6, <1>7

(***************************************************************************)
(* The last of a list                                                       *)
(***************************************************************************)
\* A set of numbers has a least one (by the well-founded order of the library).
LEMMA LeastNatural ==
  ASSUME NEW S \in SUBSET Nat, S # {}
  PROVE  \E n \in S : \A m \in S : n <= m
<1> DEFINE T == {1..n : n \in S}
<1>1. T \subseteq FiniteSubsetsOf(Nat) /\ T # {}
  <2>1. \A n \in S : IsFiniteSet(1..n) /\ 1..n \in SUBSET Nat
    BY FS_Interval
  <2> QED BY <2>1 DEF FiniteSubsetsOf
<1>2. PICK x \in T : \A y \in T : <<y, x>> \notin StrictSubsetOrdering(Nat)
  <2> HIDE DEF T
  <2> QED BY <1>1, FS_StrictSubsetOrderingWellFounded, WFMin
<1>3. PICK n \in S : x = 1..n
  OBVIOUS
<1>4. ASSUME NEW m \in S, m < n PROVE FALSE
  <2>1. 1..m \in T /\ 1..m \subseteq 1..n /\ n \in 1..n /\ n \notin 1..m
    BY <1>4
  <2>2. <<1..m, x>> \in StrictSubsetOrdering(Nat)
    BY <2>1, <1>3 DEF StrictSubsetOrdering
  <2> QED BY <2>1, <2>2, <1>2
<1>5. QED
  BY <1>4

LEMMA LastIsIn ==
  ASSUME NEW n \in Nat, NEW S \in SUBSET (1..n), S # {}
  PROVE  LastOf(S) \in S /\ \A j \in S : j <= LastOf(S)
<1> DEFINE T == {n - i : i \in S}
<1>1. T \in SUBSET Nat /\ T # {}
  <2>1. \A i \in S : n - i \in Nat
    OBVIOUS
  <2>2. QED
    BY <2>1
<1>2. PICK t \in T : \A u \in T : t <= u
  <2> HIDE DEF T
  <2> QED BY <1>1, LeastNatural
<1>3. PICK i \in S : t = n - i
  OBVIOUS
<1>4. \A j \in S : j <= i
  <2> SUFFICES ASSUME NEW j \in S PROVE j <= i
    OBVIOUS
  <2>1. n - j \in T
    OBVIOUS
  <2>2. t <= n - j
    BY <1>2, <2>1
  <2>3. QED
    BY <1>3, <2>2
<1>5. QED
  BY <1>4 DEF LastOf

(***************************************************************************)
(* Checkpoints and what they say of a file                                  *)
(***************************************************************************)
LEMMA WithEntries ==
  ASSUME NEW w, NEW cps \in Seq(CheckpointIn(w)), NEW f \in Files
  PROVE  /\ With(cps, f) \subseteq 1..Len(cps) /\ Len(cps) \in Nat /\ DOMAIN cps = 1..Len(cps)
         /\ \A i \in With(cps, f) : cps[i] \in CheckpointIn(w) /\ cps[i].entries[f] \in EntryIn(w)
         /\ With(cps, f) # {} => /\ LastOf(With(cps, f)) \in With(cps, f)
                                 /\ \A j \in With(cps, f) : j <= LastOf(With(cps, f))
<1>1. With(cps, f) \subseteq 1..Len(cps) /\ Len(cps) \in Nat /\ DOMAIN cps = 1..Len(cps)
  BY DEF With
<1>2. ASSUME NEW i \in With(cps, f) PROVE cps[i] \in CheckpointIn(w) /\ cps[i].entries[f] \in EntryIn(w)
  <2>1. cps[i] \in CheckpointIn(w) /\ f \in DOMAIN cps[i].entries
    BY <1>1 DEF With
  <2>2. PICK S \in SUBSET Files : cps[i].entries \in [S -> EntryIn(w)]
    BY <2>1, EntriesAre DEF CheckpointIn
  <2>3. QED
    BY <2>1, <2>2
<1>3. QED
  BY <1>1, <1>2, LastIsIn

LEMMA PreviousType ==
  ASSUME NEW w, NEW p \in Procs, proc[p].base \in Commits, tree \in [Commits -> FilesIn(w)],
         proc[p].kind # "human" => p \in Agents,
         NEW l \in LogIn(w), NEW cps \in Seq(CheckpointIn(w)), NEW f \in Files
  PROVE  Previous(p, l, cps, f) \in EntryIn(w)
<1> DEFINE S == With(cps, f)
           base == tree[proc[p].base][f]
           rest == l.snap[f] \ (base \cup AttrLines(l.initial[f]))
<1>1. base \in SUBSET w /\ l.initial[f] \in SUBSET (w \X Agents) /\ l.snap[f] \in SUBSET w
  BY DEF LogIn, FilesIn, AttrsIn
<1>2. Previous(p, l, cps, f) =
        IF S # {} THEN cps[LastOf(S)].entries[f]
        ELSE IF l.initial[f] = {} THEN [content |-> base, attr |-> {}, blank |-> TRUE]
        ELSE [content |-> l.snap[f], blank |-> FALSE,
              attr |-> l.initial[f] \cup (IF proc[p].kind = "human" THEN {} ELSE rest \X {p})]
  BY Zenon DEF Previous
<1>3. CASE S # {}
  BY <1>2, <1>3, WithEntries
<1>4. CASE S = {} /\ l.initial[f] = {}
  BY <1>1, <1>2, <1>4 DEF EntryIn
<1>5. CASE S = {} /\ l.initial[f] # {}
  <2>1. rest \in SUBSET w
    BY <1>1
  <2> HIDE DEF rest
  <2>2. l.initial[f] \cup (IF proc[p].kind = "human" THEN {} ELSE rest \X {p}) \in SUBSET (w \X Agents)
    BY <1>1, <2>1
  <2>3. QED
    BY <1>1, <1>2, <1>5, <2>2 DEF EntryIn
<1>6. QED
  BY <1>3, <1>4, <1>5

LEMMA EntryType ==
  ASSUME NEW w, NEW p \in Procs, proc[p].base \in Commits, tree \in [Commits -> FilesIn(w)],
         proc[p].kind # "human" => p \in Agents, disk \in FilesIn(w),
         NEW l \in LogIn(w), NEW cps \in Seq(CheckpointIn(w)), NEW f \in Files
  PROVE  Entry(p, l, cps, f) \in EntryIn(w)
<1> DEFINE prev == Previous(p, l, cps, f)
           new == IF proc[p].kind = "human" THEN {} ELSE (disk[f] \ prev.content) \X {p}
           kept == {x \in prev.attr : x[1] \in disk[f]}
<1>1. prev \in EntryIn(w)
  BY PreviousType
<1>2. disk[f] \in SUBSET w
  BY DEF FilesIn
<1>3. Entry(p, l, cps, f) = [content |-> disk[f], attr |-> kept \cup new,
                             blank |-> proc[p].kind = "human" /\ ~AITouched(cps, l.initial, f)]
  BY Zenon DEF Entry
<1> HIDE DEF prev
<1>4. kept \cup new \in SUBSET (w \X Agents)
  BY <1>1, <1>2 DEF EntryIn
<1> HIDE DEF kept, new
<1>5. QED
  BY <1>2, <1>3, <1>4 DEF EntryIn

LEMMA EntriesType ==
  ASSUME NEW w, NEW p \in Procs, proc[p].base \in Commits, tree \in [Commits -> FilesIn(w)],
         proc[p].kind # "human" => p \in Agents, disk \in FilesIn(w), proc[p].files \in SUBSET Files,
         NEW l \in LogIn(w), NEW cps \in Seq(CheckpointIn(w))
  PROVE  /\ Entries(p, l, cps) \in EntriesIn(w)
         /\ DOMAIN Entries(p, l, cps) = {f \in proc[p].files : HasEntry(p, l, cps, f)}
         /\ \A f \in proc[p].files : HasEntry(p, l, cps, f) => Entries(p, l, cps)[f] = Entry(p, l, cps, f)
<1> DEFINE S == {f \in proc[p].files : HasEntry(p, l, cps, f)}
<1>1. Entries(p, l, cps) = [f \in S |-> Entry(p, l, cps, f)]
  BY DEF Entries
<1>2. S \in SUBSET Files
  OBVIOUS
<1>3. \A f \in S : Entry(p, l, cps, f) \in EntryIn(w)
  BY <1>2, EntryType
<1>4. \A f \in proc[p].files : HasEntry(p, l, cps, f) <=> f \in S
  OBVIOUS
<1> HIDE DEF S
<1>5. Entries(p, l, cps) \in [S -> EntryIn(w)]
  BY <1>1, <1>3
<1>6. QED
  BY <1>1, <1>2, <1>4, <1>5, EntriesAre DEF S

(***************************************************************************)
(* What the variables hold                                                  *)
(***************************************************************************)
Opened == \A b \in Commits : \A p \in log[b].open : At(p, "fill") /\ proc[p].base = b
Worded == \A p \in Procs : proc[p].kind # "human" => p \in Agents
UserTypes ==
  /\ written \subseteq Lines
  /\ disk \in FilesIn(written) /\ tree \in [Commits -> FilesIn(written)]
  /\ session \in [Agents -> [phase : {"out", "pre"}, file : Files]]
GhostTypes ==
  /\ notes \in [Commits -> SUBSET SUBSET (written \X Agents)]
  /\ credited \subseteq written /\ mixed \subseteq written
  /\ halfRead \subseteq Commits /\ contended \subseteq Commits /\ astray \subseteq Commits
  /\ unseen \subseteq Commits \X Files
Types ==
  /\ UserTypes /\ GhostTypes /\ Opened /\ Worded
  /\ log \in [Commits -> LogIn(written)] /\ proc \in [Procs -> ProcIn(written)]

\* The process p becomes r; it was not writing a file, and opens none.
LEMMA OpenKept ==
  ASSUME Types, NEW p \in Procs, NEW r, proc' = [proc EXCEPT ![p] = r], ~At(p, "fill"),
         \A b \in Commits : log'[b].open \subseteq log[b].open
  PROVE  Opened'
<1>1. \A q \in Procs \ {p} : proc'[q] = proc[q]
  BY DEF Types
<1>2. \A b \in Commits : log[b].open \subseteq Procs
  BY DEF Types, LogIn
<1>3. \A b \in Commits : \A q \in log'[b].open : q \in Procs \ {p} /\ At(q, "fill") /\ proc[q].base = b
  BY <1>2 DEF Types, Opened
<1>4. QED
  BY <1>1, <1>3 DEF Opened, At

LEMMA ProcKept ==
  ASSUME Types, NEW p \in Procs, NEW r \in ProcIn(written), proc' = [proc EXCEPT ![p] = r],
         r.kind = proc[p].kind \/ r.kind = "human" \/ p \in Agents
  PROVE  proc' \in [Procs -> ProcIn(written)] /\ Worded'
BY DEF Types, Worded

LEMMA UserKept == ASSUME Types, UNCHANGED userVars PROVE UserTypes' /\ written' = written
BY DEF Types, UserTypes, userVars

LEMMA GhostKept ==
  ASSUME Types, written' = written, notes' = notes, mixed' = mixed, credited' \subseteq written,
         halfRead' \subseteq Commits, contended' = contended, astray' \subseteq Commits,
         unseen' \subseteq Commits \X Files
  PROVE  GhostTypes'
BY DEF Types, GhostTypes

LEMMA GhostsKept ==
  ASSUME Types, written' = written, UNCHANGED <<notes, mixed, credited, contended, astray, unseen>>,
         halfRead' \subseteq Commits
  PROVE  GhostTypes'
BY DEF Types, GhostTypes

LEMMA ReadType == ASSUME Types, NEW b \in Commits, NoteRead(b) PROVE halfRead' \subseteq Commits
BY DEF NoteRead, Types, GhostTypes

LEMMA ProcIs ==
  ASSUME Types, NEW p \in Procs
  PROVE  proc[p] \in ProcIn(written) /\ proc[p].base \in Commits /\ log[proc[p].base] \in LogIn(written)
BY DEF Types, ProcIn

LEMMA ContentsType ==
  ASSUME Types, NEW b \in Commits PROVE Contents(b) \in Seq(CheckpointIn(written))
BY DEF Types, LogIn, Contents

\* What an ended process is.
LEMMA IdleType ==
  ASSUME NEW n \in Nat, NEW w PROVE [Idle EXCEPT !.n = n] \in ProcIn(w) /\ [Idle EXCEPT !.n = n].kind = "human"
                                    /\ [Idle EXCEPT !.n = n].pc = "off"
<1>1. Empty \in AttrsIn(w) /\ Empty \in FilesIn(w)
  BY DEF Empty, AttrsIn, FilesIn
<1>2. 0 \in Commits
  BY WorkingLogAssumption DEF Commits
<1>3. <<>> \in Seq(CheckpointIn(w)) /\ <<>> \in EntriesIn(w)
  BY NoEntries
<1>4. QED
  BY <1>1, <1>2, <1>3 DEF Idle, ProcIn, Places

\* The checkpoint is over: the process ends, or post-commit goes on.
LEMMA OverType ==
  ASSUME Types, NEW p \in Procs, NEW l, Over(p, l)
  PROVE  \E r \in ProcIn(written) :
           /\ proc' = [proc EXCEPT ![p] = r] /\ (r.kind = proc[p].kind \/ r.kind = "human")
<1>1. proc[p] \in ProcIn(written)
  BY ProcIs
<1>2. CASE p = Git
  <2> DEFINE r == [proc[p] EXCEPT !.pc = "mutate", !.cps = <<>>]
  <2>1. proc' = [proc EXCEPT ![p] = r]
    BY <1>2 DEF Over, Types
  <2>2. <<>> \in Seq(CheckpointIn(written))
    OBVIOUS
  <2>3. r \in ProcIn(written) /\ r.kind = proc[p].kind
    BY <1>1, <2>2 DEF ProcIn, Places
  <2>4. QED
    BY <2>1, <2>3
<1>3. CASE p # Git
  <2> DEFINE r == [Idle EXCEPT !.n = proc[p].n]
  <2>1. proc' = [proc EXCEPT ![p] = r]
    BY <1>3 DEF Over, Ends
  <2>2. proc[p].n \in Nat
    BY <1>1 DEF ProcIn
  <2>3. r \in ProcIn(written) /\ r.kind = "human"
    BY <2>2, IdleType
  <2>4. QED
    BY <2>1, <2>3
<1>4. QED
  BY <1>2, <1>3

\* A process of git-ai takes a step: p becomes r, and the logs keep their types.
LEMMA ProcessTypes ==
  ASSUME Types, UNCHANGED userVars, GhostTypes', NEW p \in Procs, ~At(p, "fill"),
         NEW r \in ProcIn(written), proc' = [proc EXCEPT ![p] = r],
         r.kind = proc[p].kind \/ r.kind = "human",
         log' \in [Commits -> LogIn(written)], \A b \in Commits : log'[b].open \subseteq log[b].open
  PROVE  Types'
<1>1. UserTypes' /\ written' = written
  BY UserKept
<1>2. proc' \in [Procs -> ProcIn(written)] /\ Worded'
  BY ProcKept
<1>3. Opened'
  BY OpenKept
<1>4. QED
  BY <1>1, <1>2, <1>3 DEF Types

(***************************************************************************)
(* The user, the agents and git                                             *)
(***************************************************************************)
\* Lines are written.
LEMMA WrittenMore ==
  ASSUME Types, written \subseteq written', written' \subseteq Lines
  PROVE  /\ disk \in FilesIn(written') /\ tree \in [Commits -> FilesIn(written')]
         /\ log \in [Commits -> LogIn(written')] /\ proc \in [Procs -> ProcIn(written')]
         /\ notes \in [Commits -> SUBSET SUBSET (written' \X Agents)]
         /\ credited \subseteq written' /\ mixed \subseteq written'
BY Wider DEF Types, UserTypes, GhostTypes

LEMMA HumanEditTypes == ASSUME Shape, Types, NEW f \in Files, HumanEdit(f) PROVE Types'
<1>1. /\ UNCHANGED <<tree, session, log, proc, notes, credited, halfRead, contended, unseen>>
      /\ astray' = astray \/ (Running(Git) /\ astray' = astray \cup {proc[Git].base + 1})
  BY DEF HumanEdit
<1>2. astray' \subseteq Commits
  BY <1>1 DEF Shape, Types, GhostTypes
<1>3. /\ written \subseteq written' /\ written' \subseteq Lines /\ disk' \in FilesIn(written')
      /\ mixed' \subseteq written'
  <2>1. CASE \E l \in Fresh(Human) :
               /\ disk' = [disk EXCEPT ![f] = @ \cup {l}]
               /\ written' = written \cup {l}
               /\ mixed' = IF Editing(f) = {} THEN mixed ELSE mixed \cup {l}
    BY <2>1 DEF Fresh, Types, UserTypes, GhostTypes, FilesIn
  <2>2. CASE UNCHANGED <<written, mixed>> /\ \E l \in disk[f] : disk' = [disk EXCEPT ![f] = @ \ {l}]
    BY <2>2 DEF Types, UserTypes, GhostTypes, FilesIn
  <2>3. QED
    BY <2>1, <2>2 DEF HumanEdit
<1>4. /\ tree \in [Commits -> FilesIn(written')]
      /\ log \in [Commits -> LogIn(written')] /\ proc \in [Procs -> ProcIn(written')]
      /\ notes \in [Commits -> SUBSET SUBSET (written' \X Agents)] /\ credited \subseteq written'
  BY <1>3, WrittenMore
<1>5. UserTypes'
  BY <1>1, <1>3, <1>4 DEF Types, UserTypes
<1>6. GhostTypes'
  BY <1>1, <1>2, <1>3, <1>4 DEF Types, GhostTypes
<1>7. Opened' /\ Worded'
  BY <1>1 DEF Types, Opened, Worded, At
<1>8. QED
  BY <1>1, <1>4, <1>5, <1>6, <1>7 DEF Types

\* A checkpoint starts.
LEMMA StartsTypes ==
  ASSUME Shape, Types, NEW p \in Procs, ~Running(p), NEW kind \in {"human", "ai"},
         NEW files \in SUBSET Files, kind = "human" \/ p \in Agents, Starts(p, kind, files, head)
  PROVE  Opened' /\ Worded' /\ log' \in [Commits -> LogIn(written)] /\ proc' \in [Procs -> ProcIn(written)]
<1> DEFINE i == [Idle EXCEPT !.n = proc[p].n]
           r == [i EXCEPT !.pc = "compute", !.kind = kind, !.files = files, !.base = head]
<1>1. proc[p].n \in Nat /\ head \in Commits
  BY ProcIs DEF ProcIn, Shape
<1>2. proc' = [proc EXCEPT ![p] = r]
  BY DEF Starts, Idle
<1>3. i \in ProcIn(written)
  BY <1>1, IdleType
<1> HIDE DEF i
<1>4. r \in ProcIn(written) /\ r.kind = kind
  BY <1>1, <1>3 DEF ProcIn, Places
<1> HIDE DEF r
<1>5. log' \in [Commits -> LogIn(written)] /\ \A b \in Commits : log'[b].open = log[b].open
  BY <1>1 DEF Starts, Types, LogIn
<1>6. ~At(p, "fill")
  BY DEF Running, At
<1>7. QED
  BY <1>2, <1>4, <1>5, <1>6, ProcKept, OpenKept

LEMMA PreToolTypes ==
  ASSUME Shape, Types, NEW g \in Agents, NEW f \in Files, PreTool(g, f) PROVE Types'
<1>1. /\ ~Running(g) /\ Starts(g, "human", {f}, head) /\ g \in Procs
      /\ session' = [session EXCEPT ![g] = [phase |-> "pre", file |-> f]]
      /\ contended' = contended \cup Crowd(g, {head})
      /\ UNCHANGED <<disk, written, tree, notes, credited, halfRead, mixed, astray, unseen>>
  BY DEF PreTool, InTool, Procs
<1>2. contended' \subseteq Commits
  BY <1>1 DEF Crowd, Types, GhostTypes, Shape
<1>3. UserTypes'
  BY <1>1 DEF Types, UserTypes
<1>4. GhostTypes'
  BY <1>1, <1>2 DEF Types, GhostTypes
<1>5. QED
  BY <1>1, <1>3, <1>4, StartsTypes DEF Types

LEMMA EditTypes ==
  ASSUME Shape, Types, NEW g \in Agents, EditAndPostTool(g) PROVE Types'
<1> DEFINE f == session[g].file
<1>1. /\ ~Running(g) /\ Starts(g, "ai", {f}, head) /\ g \in Procs
      /\ session' = [session EXCEPT ![g].phase = "out"]
      /\ contended' = contended \cup Crowd(g, {head})
      /\ UNCHANGED <<tree, notes, credited, halfRead, astray, unseen>>
  BY DEF EditAndPostTool, Procs
<1>2. PICK l \in Fresh(g) :
        /\ disk' = [disk EXCEPT ![f] = @ \cup {l}]
        /\ written' = written \cup {l}
        /\ mixed' = IF Editing(f) = {g} THEN mixed ELSE mixed \cup {l}
  BY DEF EditAndPostTool
<1>3. f \in Files /\ {f} \in SUBSET Files
  BY DEF Types, UserTypes
<1>4. contended' \subseteq Commits
  BY <1>1 DEF Crowd, Types, GhostTypes, Shape
<1>5. /\ written \subseteq written' /\ written' \subseteq Lines /\ disk' \in FilesIn(written')
      /\ mixed' \subseteq written'
  BY <1>2, <1>3 DEF Fresh, Types, UserTypes, GhostTypes, FilesIn
<1>6. /\ tree \in [Commits -> FilesIn(written')] /\ LogIn(written) \subseteq LogIn(written')
      /\ ProcIn(written) \subseteq ProcIn(written')
      /\ notes \in [Commits -> SUBSET SUBSET (written' \X Agents)] /\ credited \subseteq written'
  BY <1>5, WrittenMore, Wider
<1> HIDE DEF f
<1>7. UserTypes'
  BY <1>1, <1>5, <1>6 DEF Types, UserTypes
<1>8. GhostTypes'
  BY <1>1, <1>4, <1>5, <1>6 DEF Types, GhostTypes
<1>9. Opened' /\ Worded' /\ log' \in [Commits -> LogIn(written)] /\ proc' \in [Procs -> ProcIn(written)]
  BY <1>1, <1>3, StartsTypes
<1>10. QED
  BY <1>6, <1>7, <1>8, <1>9 DEF Types

LEMMA CommitTypes ==
  ASSUME Shape, Types, budget \in Budgets, Commit PROVE Types'
<1>1. /\ ~Running(Git) /\ Starts(Git, "human", Files, head) /\ Git \in Procs
      /\ contended' \subseteq contended \cup {head, head + 1}
      /\ UNCHANGED <<session, disk, written, notes, credited, halfRead, mixed, astray, unseen>>
  BY DEF Commit, Procs, Crowd
<1>2. head + 1 \in Commits /\ head \in Commits
  BY WorkingLogAssumption DEF Commit, Shape, Commits
<1>3. PICK t \in [Files -> SUBSET written] : tree' = [tree EXCEPT ![head + 1] = t]
  BY DEF Commit, Staged
<1>4. UserTypes'
  BY <1>1, <1>2, <1>3 DEF Types, UserTypes, FilesIn
<1>5. GhostTypes'
  BY <1>1, <1>2 DEF Types, GhostTypes
<1>6. QED
  BY <1>1, <1>4, <1>5, StartsTypes DEF Types

(***************************************************************************)
(* The processes of git-ai                                                  *)
(***************************************************************************)
LEMMA ComputeTypes == ASSUME Shape, Types, NEW p \in Procs, Compute(p) PROVE Types'
<1> DEFINE b == proc[p].base
           entries == Entries(p, log[b], Contents(b))
<1>1. b \in Commits /\ proc[p] \in ProcIn(written) /\ log[b] \in LogIn(written)
  BY ProcIs
<1>2. Contents(b) \in Seq(CheckpointIn(written))
  BY <1>1, ContentsType
<1>3. entries \in EntriesIn(written)
  <2>1. proc[p].files \in SUBSET Files /\ (proc[p].kind # "human" => p \in Agents)
    BY <1>1 DEF ProcIn, Types, Worded
  <2>2. tree \in [Commits -> FilesIn(written)] /\ disk \in FilesIn(written)
    BY DEF Types, UserTypes
  <2>3. QED
    BY <1>1, <1>2, <2>1, <2>2, EntriesType
<1>4. /\ At(p, "compute") /\ NoteRead(b) /\ UNCHANGED userVars /\ written' = written
      /\ UNCHANGED <<notes, credited, contended, mixed, astray>>
      /\ log' = [log EXCEPT ![b].dir = TRUE]
  BY DEF Compute, userVars
<1>5. unseen' \subseteq Commits \X Files
  <2>1. p = Git => b + 1 \in Commits
    BY <1>4 DEF Shape, Running, At
  <2>2. unseen' = unseen \cup {b + 1} \X {f \in Files : PassedOver(p, log[b], Contents(b), f)}
    BY DEF Compute
  <2>3. QED
    BY <2>1, <2>2 DEF PassedOver, Types, GhostTypes
<1>6. log' \in [Commits -> LogIn(written)] /\ \A c \in Commits : log'[c].open = log[c].open
  BY <1>1, <1>4 DEF Types, LogIn
<1>7. GhostTypes'
  BY <1>1, <1>4, <1>5, ReadType, GhostKept DEF Types, GhostTypes
<1>8. \E r \in ProcIn(written) : proc' = [proc EXCEPT ![p] = r] /\ (r.kind = proc[p].kind \/ r.kind = "human")
  <2>1. CASE Over(p, log)
    BY <2>1, OverType
  <2>2. CASE proc' = [proc EXCEPT ![p].pc = "append", ![p].entries = entries]
    <3> HIDE DEF entries, b
    <3> DEFINE r == [proc[p] EXCEPT !.pc = "append", !.entries = entries]
    <3>1. proc' = [proc EXCEPT ![p] = r]
      BY <2>2 DEF Types
    <3>2. r \in ProcIn(written) /\ r.kind = proc[p].kind
      BY <1>1, <1>3 DEF ProcIn, Places
    <3>3. QED
      BY <3>1, <3>2
  <2>3. QED
    BY <2>1, <2>2 DEF Compute
<1>9. ~At(p, "fill")
  BY <1>4 DEF At
<1>10. QED
  BY <1>4, <1>6, <1>7, <1>8, <1>9, ProcessTypes

LEMMA AppendReadTypes == ASSUME Shape, Types, NEW p \in Procs, AppendRead(p) PROVE Types'
<1> DEFINE b == proc[p].base
           cp == [id |-> <<p, proc[p].n + 1>>, kind |-> proc[p].kind, entries |-> proc[p].entries]
           r == [proc[p] EXCEPT !.pc = "tear", !.n = @ + 1, !.entries = <<>>,
                   !.cps = Append(Contents(b), cp), !.next = IF p = Git THEN "mutate" ELSE "off"]
<1>1. b \in Commits /\ proc[p] \in ProcIn(written)
  BY ProcIs
<1>2. /\ At(p, "append") /\ NoteRead(b) /\ UNCHANGED userVars /\ written' = written
      /\ UNCHANGED <<notes, credited, contended, mixed, astray, unseen, log>>
  BY DEF AppendRead, userVars
<1>3. proc' = [proc EXCEPT ![p] = r]
  BY DEF AppendRead, Types
<1>4. cp \in CheckpointIn(written)
  BY <1>1 DEF ProcIn, CheckpointIn
<1> HIDE DEF cp
<1>5. Append(Contents(b), cp) \in Seq(CheckpointIn(written)) /\ <<>> \in EntriesIn(written)
  BY <1>1, <1>4, ContentsType, NoEntries
<1> DEFINE next == IF p = Git THEN "mutate" ELSE "off"
           cps == Append(Contents(b), cp)
           n == proc[p].n + 1
<1>6. n \in Nat /\ next \in {"off", "mutate", "collect"}
  BY <1>1 DEF ProcIn
<1>7. r = [proc[p] EXCEPT !.pc = "tear", !.n = n, !.entries = <<>>, !.cps = cps, !.next = next]
  BY <1>1 DEF ProcIn
<1> HIDE DEF r, n, next, cps
<1>8. r \in ProcIn(written) /\ r.kind = proc[p].kind
  <2>1. cps \in Seq(CheckpointIn(written))
    BY <1>5 DEF cps
  <2>2. "tear" \in Places
    BY DEF Places
  <2> HIDE DEF Places
  <2>3. QED
    BY <1>1, <1>5, <1>6, <1>7, <2>1, <2>2 DEF ProcIn
<1>9. GhostTypes' /\ ~At(p, "fill")
  BY <1>1, <1>2, ReadType, GhostsKept DEF At
<1>10. QED
  BY <1>2, <1>3, <1>8, <1>9, ProcessTypes DEF Types

LEMMA TearTypes == ASSUME Shape, Types, NEW p \in Procs, Tear(p) PROVE Types'
<1> DEFINE b == proc[p].base
           r == [proc[p] EXCEPT !.pc = "fill"]
           l == [log[b] EXCEPT !.file = "cut", !.cps = <<>>, !.open = @ \cup {p}]
<1>1. b \in Commits /\ proc[p] \in ProcIn(written) /\ log[b] \in LogIn(written)
  BY ProcIs
<1>2. At(p, "tear") /\ UNCHANGED userVars /\ UNCHANGED <<notes, ghosts>> /\ written' = written
  BY DEF Tear, userVars
<1>3. proc' = [proc EXCEPT ![p] = r] /\ log' = [log EXCEPT ![b] = l]
  BY <1>1 DEF Tear, Types
<1>4. r \in ProcIn(written) /\ r.kind = proc[p].kind /\ r.pc = "fill" /\ r.base = b
  BY <1>1 DEF ProcIn, Places
<1>5. l \in LogIn(written) /\ l.open = log[b].open \cup {p}
  <2>1. <<>> \in Seq(CheckpointIn(written))
    OBVIOUS
  <2>2. QED
    BY <1>1, <2>1 DEF LogIn
<1> HIDE DEF r, l
<1>6. log' \in [Commits -> LogIn(written)]
  BY <1>1, <1>3, <1>5 DEF Types
<1>7. UserTypes'
  BY <1>2, UserKept
<1>8. GhostTypes'
  BY <1>2, GhostsKept DEF ghosts, Types, GhostTypes
<1>9. proc' \in [Procs -> ProcIn(written)] /\ Worded'
  BY <1>3, <1>4, ProcKept
<1>10. Opened'
  <2>1. proc'[p] = r /\ \A q \in Procs \ {p} : proc'[q] = proc[q]
    BY <1>3 DEF Types
  <2>2. ASSUME NEW c \in Commits, NEW q \in log'[c].open PROVE At(q, "fill")' /\ proc'[q].base = c
    <3>1. CASE q = p
      <4>1. c = b
        <5>1. p \notin log[c].open
          BY <1>2 DEF At, Types, Opened
        <5>2. QED
          BY <1>1, <1>3, <2>2, <3>1, <5>1 DEF Types
      <4>2. QED
        BY <1>4, <2>1, <3>1, <4>1 DEF At
    <3>2. CASE q # p
      <4>1. q \in log[c].open
        BY <1>1, <1>3, <1>5, <2>2, <3>2 DEF Types
      <4>2. q \in Procs /\ At(q, "fill") /\ proc[q].base = c
        BY <4>1 DEF Types, Opened, LogIn
      <4>3. QED
        BY <2>1, <3>2, <4>2 DEF At
    <3>3. QED
      BY <3>1, <3>2
  <2>3. QED
    BY <2>2 DEF Opened
<1>11. QED
  BY <1>2, <1>6, <1>7, <1>8, <1>9, <1>10 DEF Types

LEMMA TearFailsTypes == ASSUME Shape, Types, NEW p \in Procs, TearFails(p) PROVE Types'
<1>1. /\ At(p, "tear") /\ UNCHANGED userVars /\ written' = written /\ log' = log /\ Over(p, log)
      /\ UNCHANGED <<notes, appended, credited, halfRead, contended, mixed, astray, unseen>>
  BY DEF TearFails, userVars
<1>2. PICK r \in ProcIn(written) :
        proc' = [proc EXCEPT ![p] = r] /\ (r.kind = proc[p].kind \/ r.kind = "human")
  BY <1>1, OverType
<1>3. GhostTypes'
  BY <1>1, GhostsKept DEF Types, GhostTypes
<1>4. ~At(p, "fill")
  BY <1>1 DEF At
<1>5. QED
  BY <1>1, <1>2, <1>3, <1>4, ProcessTypes DEF Types

LEMMA FillTypes == ASSUME Shape, Types, NEW p \in Procs, Fill(p) PROVE Types'
<1> DEFINE b == proc[p].base
           cps == proc[p].cps
           cp == cps[Len(cps)]
           claims == UNION {{x[1] : x \in {y \in cp.entries[f].attr : y[2] = p}} : f \in DOMAIN cp.entries}
<1>1. /\ b \in Commits /\ proc[p] \in ProcIn(written) /\ log[b] \in LogIn(written)
      /\ cps \in Seq(CheckpointIn(written))
  BY ProcIs DEF ProcIn
<1>2. /\ At(p, "fill") /\ UNCHANGED userVars /\ written' = written
      /\ UNCHANGED <<notes, halfRead, contended, mixed, astray, unseen>>
  BY DEF Fill, userVars
<1>3. /\ log' \in [Commits -> LogIn(written)]
      /\ \A c \in Commits : log'[c].open \subseteq log[c].open \ {p}
  <2>1. CASE p \in log[b].open
    <3>1. PICK file \in {"whole"} \cup (IF log[b].file = "cut" THEN {} ELSE {"spoilt"}) :
            log' = [log EXCEPT ![b] = Written(log[b], p, cps, file)]
      BY <1>1, <2>1 DEF Fill, Types
    <3>2. /\ Written(log[b], p, cps, file) \in LogIn(written)
          /\ Written(log[b], p, cps, file).open = log[b].open \ {p}
      BY <1>1 DEF Written, LogIn
    <3>3. \A c \in Commits \ {b} : p \notin log[c].open
      BY DEF Types, Opened
    <3>4. QED
      BY <1>1, <3>1, <3>2, <3>3 DEF Types
  <2>2. CASE p \notin log[b].open
    <3>1. log' = log
      BY <2>2 DEF Fill
    <3>2. \A c \in Commits : p \notin log[c].open
      BY <2>2 DEF Types, Opened
    <3>3. QED
      BY <3>1, <3>2 DEF Types
  <2>3. QED
    BY <2>1, <2>2
<1>4. \E r \in ProcIn(written) : proc' = [proc EXCEPT ![p] = r] /\ (r.kind = proc[p].kind \/ r.kind = "human")
  <2>1. CASE Over(p, log')
    BY <2>1, OverType
  <2>2. CASE proc' = [proc EXCEPT ![p].pc = "collect"]
    <3> DEFINE r == [proc[p] EXCEPT !.pc = "collect"]
    <3>1. proc' = [proc EXCEPT ![p] = r]
      BY <2>2 DEF Types
    <3>2. r \in ProcIn(written) /\ r.kind = proc[p].kind
      BY <1>1 DEF ProcIn, Places
    <3>3. QED
      BY <3>1, <3>2
  <2>3. QED
    BY <2>1, <2>2 DEF Fill
<1>5. credited' \subseteq written
  <2>1. CASE credited' = credited
    BY <2>1 DEF Types, GhostTypes
  <2>2. CASE proc[p].next # "collect" /\ credited' = credited \cup claims
    <3>1. cps # <<>>
      BY <1>2, <2>2 DEF Shape, IsProc, At
    <3>2. Len(cps) \in 1..Len(cps)
      BY <1>1, <3>1
    <3>3. cp \in CheckpointIn(written)
      BY <1>1, <3>2
    <3>4. PICK S \in SUBSET Files : cp.entries \in [S -> EntryIn(written)]
      BY <3>3, EntriesAre DEF CheckpointIn
    <3>5. \A f \in DOMAIN cp.entries : cp.entries[f].attr \in SUBSET (written \X Agents)
      BY <3>4 DEF EntryIn
    <3> HIDE DEF cp
    <3>6. claims \subseteq written
      BY <3>5
    <3>7. QED
      BY <2>2, <3>6 DEF Types, GhostTypes
  <2>3. QED
    BY <2>1, <2>2 DEF Fill
<1>6. GhostTypes'
  BY <1>2, <1>5, GhostKept DEF Types, GhostTypes
<1>7. PICK r \in ProcIn(written) :
        proc' = [proc EXCEPT ![p] = r] /\ (r.kind = proc[p].kind \/ r.kind = "human")
  BY <1>4
<1>8. proc' \in [Procs -> ProcIn(written)] /\ Worded'
  BY <1>7, ProcKept
<1>9. Opened'
  <2>1. \A q \in Procs \ {p} : proc'[q] = proc[q]
    BY <1>7 DEF Types
  <2>2. \A c \in Commits : \A q \in log'[c].open : q \in Procs \ {p} /\ At(q, "fill") /\ proc[q].base = c
    BY <1>3 DEF Types, Opened, LogIn
  <2>3. QED
    BY <2>1, <2>2 DEF Opened, At
<1>10. QED
  BY <1>2, <1>3, <1>6, <1>8, <1>9, UserKept DEF Types

LEMMA AbortsTypes ==
  ASSUME Shape, Types, Running(Git), ~At(Git, "fill"), halfRead' \subseteq Commits, Aborts PROVE Types'
<1>1. /\ UNCHANGED userVars /\ written' = written /\ log' = log /\ Git \in Procs
      /\ astray' = astray \cup {proc[Git].base + 1} /\ proc[Git].base + 1 \in Commits
      /\ UNCHANGED <<notes, credited, contended, mixed, unseen>>
  BY DEF Aborts, userVars, Shape, Procs
<1>2. GhostTypes'
  BY <1>1, GhostKept DEF Types, GhostTypes
<1> DEFINE r == [Idle EXCEPT !.n = proc[Git].n]
<1>3. proc' = [proc EXCEPT ![Git] = r]
  BY DEF Aborts, Ends
<1>4. r \in ProcIn(written) /\ r.kind = "human"
  BY <1>1, ProcIs, IdleType DEF ProcIn
<1> HIDE DEF r
<1>5. QED
  BY <1>1, <1>2, <1>3, <1>4, ProcessTypes DEF Types

LEMMA MutateTypes == ASSUME Shape, Types, Mutate PROVE Types'
<1> DEFINE b == proc[Git].base
           r == [proc[Git] EXCEPT !.pc = "tear", !.cps = Contents(b), !.next = "collect"]
<1>1. Git \in Procs /\ b \in Commits /\ proc[Git] \in ProcIn(written)
  BY ProcIs DEF Procs
<1>2. /\ At(Git, "mutate") /\ NoteRead(b) /\ UNCHANGED userVars /\ written' = written
      /\ UNCHANGED <<notes, credited, contended, mixed, astray, unseen, log>>
  BY DEF Mutate, userVars
<1>3. proc' = [proc EXCEPT ![Git] = r]
  BY <1>1 DEF Mutate, Types
<1>4. Contents(b) \in Seq(CheckpointIn(written))
  BY <1>1, ContentsType
<1>5. r \in ProcIn(written) /\ r.kind = proc[Git].kind
  BY <1>1, <1>4 DEF ProcIn, Places
<1>6. GhostTypes' /\ ~At(Git, "fill")
  BY <1>1, <1>2, ReadType, GhostsKept DEF At
<1> HIDE DEF r
<1>7. QED
  BY <1>1, <1>2, <1>3, <1>5, <1>6, ProcessTypes DEF Types

\* What is collected names lines of the work tree.
LEMMA AttributedIn ==
  ASSUME NEW l, NEW cps, NEW f \in Files PROVE Attributed(l, cps, f) \subseteq disk[f] \X Agents
BY DEF Attributed, Shown

LEMMA CollectTypes == ASSUME Shape, Types, Collect PROVE Types'
<1> DEFINE b == proc[Git].base
           c == b + 1
           paths == Pathspecs(proc[Git].cps, log[b].initial)
           va == [f \in Files |-> Attributed(log[b], Contents(b), f)]
           Part(f, lines) == IF f \in paths THEN {x \in va[f] : x[1] \in lines} ELSE {}
           note == UNION {Part(f, tree[c][f] \ tree[b][f]) : f \in Files}
           carry == [f \in Files |-> Part(f, disk[f] \ tree[c][f])]
           r == [proc[Git] EXCEPT !.pc = "carry", !.cps = <<>>, !.carry = carry, !.snap = disk]
<1>1. Git \in Procs /\ b \in Commits /\ proc[Git] \in ProcIn(written) /\ disk \in FilesIn(written)
  BY ProcIs DEF Procs, Types, UserTypes
<1>2. /\ At(Git, "collect") /\ NoteRead(b) /\ UNCHANGED userVars /\ written' = written
      /\ UNCHANGED <<credited, contended, mixed, astray, unseen, log>>
      /\ notes' = [notes EXCEPT ![c] = {note}]
      /\ proc' = [proc EXCEPT ![Git].pc = "carry", ![Git].cps = <<>>, ![Git].carry = carry,
                              ![Git].snap = disk]
  BY DEF Collect, userVars
<1>3. c \in Commits
  BY <1>2 DEF Shape, Running, At
<1>4. \A f \in Files : va[f] \in SUBSET (written \X Agents)
  <2>1. \A f \in Files : disk[f] \in SUBSET written
    BY <1>1 DEF FilesIn
  <2>2. QED
    BY <2>1, AttributedIn
<1> HIDE DEF va, paths
<1>5. \A f \in Files : \A s : Part(f, s) \in SUBSET (written \X Agents)
  BY <1>4
<1> HIDE DEF Part
<1>6. note \in SUBSET (written \X Agents) /\ carry \in AttrsIn(written)
  <2>1. ASSUME NEW x \in note PROVE x \in written \X Agents
    <3>1. PICK f \in Files : x \in Part(f, tree[c][f] \ tree[b][f])
      BY <2>1, Zenon
    <3>2. QED
      BY <1>5, <3>1
  <2>2. carry \in AttrsIn(written)
    BY <1>5 DEF AttrsIn
  <2>3. QED
    BY <2>1, <2>2
<1> HIDE DEF note, carry
<1>7. proc' = [proc EXCEPT ![Git] = r]
  BY <1>1, <1>2 DEF Types
<1>8. r \in ProcIn(written) /\ r.kind = proc[Git].kind
  <2>1. <<>> \in Seq(CheckpointIn(written))
    OBVIOUS
  <2>2. QED
    BY <1>1, <1>6, <2>1 DEF ProcIn, Places
<1> HIDE DEF r
<1>9. ~At(Git, "fill") /\ halfRead' \subseteq Commits
  BY <1>1, <1>2, ReadType DEF At
<1>10. GhostTypes'
  <2>1. {note} \in SUBSET SUBSET (written \X Agents)
    BY <1>6
  <2>2. notes' \in [Commits -> SUBSET SUBSET (written \X Agents)]
    BY <1>2, <1>3, <2>1 DEF Types, GhostTypes
  <2>3. QED
    BY <1>2, <1>9, <2>2 DEF Types, GhostTypes
<1>11. QED
  BY <1>1, <1>2, <1>7, <1>8, <1>9, <1>10, ProcessTypes DEF Types

LEMMA CarryTypes == ASSUME Shape, Types, Carry PROVE Types'
<1> DEFINE c == proc[Git].base + 1
           r == [proc[Git] EXCEPT !.pc = "delete"]
<1>1. Git \in Procs /\ proc[Git] \in ProcIn(written)
  BY ProcIs DEF Procs
<1>2. /\ At(Git, "carry") /\ UNCHANGED userVars /\ written' = written /\ UNCHANGED <<notes, ghosts>>
      /\ proc' = [proc EXCEPT ![Git].pc = "delete"]
  BY DEF Carry, userVars
<1>3. c \in Commits
  BY <1>2 DEF Shape, Running, At
<1>4. log' \in [Commits -> LogIn(written)] /\ \A b \in Commits : log'[b].open = log[b].open
  <2>1. CASE log' = log
    BY <2>1 DEF Types
  <2>2. CASE log' = [log EXCEPT ![c].dir = TRUE, ![c].initial = proc[Git].carry, ![c].snap = proc[Git].snap]
    <3> DEFINE l == [log[c] EXCEPT !.dir = TRUE, !.initial = proc[Git].carry, !.snap = proc[Git].snap]
    <3>1. log' = [log EXCEPT ![c] = l]
      BY <1>3, <2>2 DEF Types
    <3>2. l \in LogIn(written) /\ l.open = log[c].open
      <4>1. log[c] \in LogIn(written)
        BY <1>3 DEF Types
      <4>2. proc[Git].carry \in AttrsIn(written) /\ proc[Git].snap \in FilesIn(written)
        BY <1>1 DEF ProcIn
      <4>3. QED
        BY <4>1, <4>2 DEF LogIn
    <3> HIDE DEF l
    <3>3. QED
      BY <1>3, <3>1, <3>2 DEF Types
  <2>3. QED
    BY <2>1, <2>2 DEF Carry
<1>5. proc' = [proc EXCEPT ![Git] = r]
  BY <1>1, <1>2 DEF Types
<1>6. r \in ProcIn(written) /\ r.kind = proc[Git].kind
  BY <1>1 DEF ProcIn, Places
<1> HIDE DEF r
<1>7. GhostTypes' /\ ~At(Git, "fill")
  BY <1>2, GhostsKept DEF ghosts, At, Types, GhostTypes
<1>8. QED
  BY <1>1, <1>2, <1>4, <1>5, <1>6, <1>7, ProcessTypes

LEMMA DeleteTypes == ASSUME Shape, Types, Delete PROVE Types'
<1> DEFINE b == proc[Git].base
           r == [Idle EXCEPT !.n = proc[Git].n]
<1>1. Git \in Procs /\ b \in Commits /\ proc[Git].n \in Nat
  BY ProcIs DEF Procs, ProcIn
<1>2. /\ At(Git, "delete") /\ UNCHANGED userVars /\ written' = written
      /\ UNCHANGED <<notes, credited, halfRead, contended, mixed, astray, unseen>>
      /\ proc' = [proc EXCEPT ![Git] = r] /\ log' = [log EXCEPT ![b] = NoLog]
  BY DEF Delete, userVars
<1>3. NoLog \in LogIn(written) /\ NoLog.open = {}
  <2>1. Empty \in AttrsIn(written) /\ Empty \in FilesIn(written) /\ <<>> \in Seq(CheckpointIn(written))
    BY DEF Empty, AttrsIn, FilesIn
  <2>2. QED
    BY <2>1 DEF NoLog, LogIn
<1>4. log' \in [Commits -> LogIn(written)] /\ \A c \in Commits : log'[c].open \subseteq log[c].open
  BY <1>1, <1>2, <1>3 DEF Types
<1>5. r \in ProcIn(written) /\ r.kind = "human"
  BY <1>1, IdleType
<1> HIDE DEF r
<1>6. GhostTypes' /\ ~At(Git, "fill")
  BY <1>2, GhostsKept DEF At, Types, GhostTypes
<1>7. QED
  BY <1>1, <1>2, <1>4, <1>5, <1>6, ProcessTypes

LEMMA TypesNext ==
  ASSUME Shape, Types, budget \in Budgets, [Next]_vars
  PROVE  Types'
<1>1. CASE UNCHANGED vars
  BY <1>1 DEF vars, userVars, ghosts, Types, UserTypes, GhostTypes, Opened, Worded, At
<1>2. CASE MutateFails \/ StatsFail
  <2>1. Running(Git) /\ ~At(Git, "fill") /\ Aborts /\ Git \in Procs
    BY <1>2 DEF MutateFails, StatsFail, Running, At, Procs
  <2>2. halfRead' \subseteq Commits
    BY <1>2, <2>1, ReadType, ProcIs DEF MutateFails, StatsFail, Types, GhostTypes
  <2>3. QED
    BY <2>1, <2>2, AbortsTypes
<1>3. QED
  BY <1>1, <1>2, HumanEditTypes, PreToolTypes, EditTypes, CommitTypes, ComputeTypes, AppendReadTypes,
     TearTypes, TearFailsTypes, FillTypes, MutateTypes, CollectTypes, CarryTypes, DeleteTypes DEF Next

LEMMA TypesInit == Init => Types
<1> SUFFICES ASSUME Init PROVE Types
  OBVIOUS
<1>1. Empty \in AttrsIn({}) /\ Empty \in FilesIn({}) /\ <<>> \in Seq(CheckpointIn({})) /\ 0 \in Commits
  BY WorkingLogAssumption DEF Empty, AttrsIn, FilesIn, Commits
<1>2. NoLog \in LogIn({}) /\ NoLog.open = {}
  BY <1>1 DEF NoLog, LogIn
<1>3. Idle \in ProcIn({}) /\ Idle.kind = "human"
  BY <1>1, NoEntries DEF Idle, ProcIn, Places
<1>4. (CHOOSE f \in Files : TRUE) \in Files
  BY WorkingLogAssumption
<1>5. log \in [Commits -> LogIn(written)] /\ proc \in [Procs -> ProcIn(written)] /\ Opened /\ Worded
  BY <1>2, <1>3 DEF Init, Opened, Worded
<1>6. UserTypes /\ GhostTypes
  BY <1>1, <1>4 DEF Init, UserTypes, GhostTypes
<1>7. QED
  BY <1>5, <1>6 DEF Types

\* Every variable holds what it can hold, and only a process that is writing to a
\* log has its file open.
THEOREM TypeOKHolds == Spec => []TypeOK
<1> DEFINE Inv == SettledInv /\ Types
<1>1. Init => Inv
  BY SettledAtFirst, TypesInit
<1>2. Inv /\ [Next]_vars => Inv'
  BY SettledNext, TypesNext DEF SettledInv
<1>3. Inv => TypeOK
  <2> SUFFICES ASSUME Inv PROVE TypeOK
    OBVIOUS
  <2>1. budget \in Budgets /\ head \in Commits
    BY DEF SettledInv, Shape
  <2>2. written \subseteq Lines /\ disk \in [Files -> SUBSET written] /\ tree \in [Commits -> [Files -> SUBSET written]]
    BY DEF Types, UserTypes, FilesIn
  <2>3. ASSUME NEW b \in Commits
        PROVE  /\ log[b].dir \in BOOLEAN /\ log[b].file \in {"whole", "cut", "spoilt"}
               /\ log[b].initial \in [Files -> Attr] /\ log[b].snap \in [Files -> SUBSET written]
               /\ \A p \in log[b].open : At(p, "fill") /\ proc[p].base = b
    <3>1. log[b] \in LogIn(written) /\ Opened
      BY DEF Types
    <3>2. SUBSET (written \X Agents) \subseteq Attr
      BY <2>2 DEF Attr
    <3>3. QED
      BY <3>1, <3>2 DEF LogIn, AttrsIn, FilesIn, Opened
  <2>4. \A g \in Agents : session[g].phase \in {"out", "pre"} /\ session[g].file \in Files
    BY DEF Types, UserTypes
  <2>5. \A p \in Procs : proc[p].pc \in Places
    BY DEF Types, ProcIn
  <2>6. notes \in [Commits -> SUBSET Attr]
    BY <2>2 DEF Types, GhostTypes, Attr
  <2>7. QED
    BY <2>1, <2>2, <2>3, <2>4, <2>5, <2>6 DEF TypeOK, Types, GhostTypes, Places
<1>4. QED
  BY <1>1, <1>2, <1>3, PTL DEF Spec

(***************************************************************************)
(* StrayOnlyIfOvertaken needs to know who may still be at work in an old    *)
(* log: post-commit, which is about HEAD, and a checkpoint that a commit    *)
(* overtook.                                                                *)
(***************************************************************************)
AboutHead == Running(Git) => proc[Git].base + 1 = head
Overtaken == \A g \in Agents : Running(g) /\ proc[g].base # head => proc[g].base \in contended
OldLogs ==
  \A b \in 0..head : log[b].dir /\ b # head =>
    b \in contended \/ b + 1 \in astray \/ (Running(Git) /\ proc[Git].base = b)
StrayInv == AboutHead /\ Overtaken /\ OldLogs

\* Process p goes on or ends; of the old logs it opens its own at most, and
\* post-commit ends with its log deleted or the commit astray.
GoesOn(p, r) ==
  /\ proc' = [proc EXCEPT ![p] = r] /\ head' = head /\ Running(p)
  /\ contended' = contended /\ astray \subseteq astray'
  /\ r.pc = "off" \/ r.base = proc[p].base
  /\ \A b \in Commits : log'[b].dir => b = head \/ log[b].dir \/ proc[p].base = b
  /\ p = Git /\ r.pc = "off" => proc[p].base + 1 \in astray' \/ ~log'[proc[p].base].dir

LEMMA GoesOnStray ==
  ASSUME Shape, StrayInv, NEW p \in Procs, NEW r, GoesOn(p, r) PROVE StrayInv'
<1>1. proc'[p] = r /\ \A q \in Procs \ {p} : proc'[q] = proc[q]
  BY DEF GoesOn, Shape
<1>2. /\ head' = head /\ head \in Nat /\ 0..head \subseteq Commits /\ Git \in Procs
      /\ contended' = contended /\ astray \subseteq astray' /\ Running(p)
  BY WorkingLogAssumption DEF GoesOn, Shape, Commits, Procs
<1>3. AboutHead'
  BY <1>1, <1>2 DEF StrayInv, AboutHead, Running, At, GoesOn
<1>4. Overtaken'
  BY <1>1, <1>2, WorkingLogAssumption DEF StrayInv, Overtaken, Running, At, GoesOn, Procs
<1>5. OldLogs'
  <2> SUFFICES ASSUME NEW b \in 0..head, log'[b].dir, b # head
               PROVE  b \in contended \/ b + 1 \in astray' \/ (Running(Git)' /\ proc'[Git].base = b)
    BY <1>2 DEF OldLogs
  <2>1. CASE p = Git
    <3>1. CASE proc[Git].base = b
      BY <1>1, <1>2, <2>1, <3>1 DEF GoesOn, Running, At
    <3>2. CASE proc[Git].base # b
      BY <1>2, <2>1, <3>2 DEF GoesOn, StrayInv, OldLogs
    <3>3. QED
      BY <3>1, <3>2
  <2>2. CASE p # Git
    <3>1. p \in Agents /\ proc'[Git] = proc[Git]
      BY <1>1, <1>2, <2>2 DEF Procs
    <3>2. CASE log[b].dir
      BY <1>2, <3>1, <3>2 DEF StrayInv, OldLogs, Running, At
    <3>3. CASE ~log[b].dir
      <4>1. proc[p].base = b
        BY <1>2, <3>3 DEF GoesOn
      <4>2. QED
        BY <1>2, <3>1, <4>1 DEF StrayInv, Overtaken
    <3>4. QED
      BY <3>2, <3>3
  <2>3. QED
    BY <2>1, <2>2
<1>6. QED
  BY <1>3, <1>4, <1>5 DEF StrayInv

\* Where its checkpoint is over, a process has not changed which logs there are.
LEMMA OverGoesOn ==
  ASSUME Shape, NEW p \in Procs, NEW l, Over(p, l), Running(p), head' = head, contended' = contended,
         astray \subseteq astray',
         \A b \in Commits : log'[b].dir => b = head \/ log[b].dir \/ proc[p].base = b
  PROVE  \E r : GoesOn(p, r)
<1>1. CASE p = Git
  <2> DEFINE r == [proc[p] EXCEPT !.pc = "mutate", !.cps = <<>>]
  <2>1. proc' = [proc EXCEPT ![p] = r]
    BY <1>1 DEF Over, Shape
  <2>2. r.pc = "mutate" /\ r.base = proc[p].base
    BY DEF Shape, IsProc
  <2> HIDE DEF r
  <2>3. QED
    BY <2>1, <2>2 DEF GoesOn
<1>2. CASE p # Git
  <2> DEFINE r == [Idle EXCEPT !.n = proc[p].n]
  <2>1. proc' = [proc EXCEPT ![p] = r]
    BY <1>2 DEF Over, Ends
  <2>2. r.pc = "off"
    BY DEF Idle
  <2> HIDE DEF r
  <2>3. QED
    BY <1>2, <2>1, <2>2 DEF GoesOn
<1>3. QED
  BY <1>1, <1>2

LEMMA StrayStarts ==
  ASSUME Shape, StrayInv, NEW p \in Procs, ~Running(p), NEW kind, NEW files, Starts(p, kind, files, head),
         head' \in {head, head + 1}, contended \subseteq contended', astray' = astray,
         p = Git => head' = head + 1 /\ (\A g \in Agents : Running(g) => head \in contended'),
         p # Git => head' = head
  PROVE  StrayInv'
<1>1. /\ \A q \in Procs \ {p} : proc'[q] = proc[q]
      /\ proc'[p].base = head /\ proc'[p].pc = "compute"
  BY DEF Shape, Starts, Idle
<1>2. head \in Nat /\ head \in Commits /\ 0..head \subseteq Commits /\ Git \in Procs
  BY WorkingLogAssumption DEF Shape, Commits, Procs
<1>3. \A b \in Commits : log'[b].dir => b = head \/ log[b].dir
  BY <1>2 DEF Shape, Starts
<1>4. CASE p = Git
  <2>1. AboutHead'
    BY <1>1, <1>4 DEF AboutHead
  <2>2. Overtaken'
    <3> SUFFICES ASSUME NEW g \in Agents, Running(g)', proc'[g].base # head' PROVE proc'[g].base \in contended'
      BY DEF Overtaken
    <3>1. g \in Procs /\ g # p
      BY <1>4, WorkingLogAssumption DEF Procs
    <3>2. proc'[g] = proc[g] /\ Running(g)
      BY <1>1, <3>1 DEF Running, At
    <3>3. QED
      BY <1>4, <3>2 DEF StrayInv, Overtaken
  <2>3. OldLogs'
    <3> SUFFICES ASSUME NEW b \in 0..(head + 1), log'[b].dir, b # head + 1
                 PROVE  b \in contended' \/ b + 1 \in astray' \/ (Running(Git)' /\ proc'[Git].base = b)
      BY <1>4 DEF OldLogs
    <3>1. b \in 0..head
      BY <1>2
    <3>2. CASE b = head
      BY <1>1, <1>4, <3>2 DEF Running, At
    <3>3. CASE b # head
      BY <1>2, <1>3, <1>4, <3>1, <3>3 DEF StrayInv, OldLogs
    <3>4. QED
      BY <3>2, <3>3
  <2>4. QED
    BY <2>1, <2>2, <2>3 DEF StrayInv
<1>5. CASE p # Git
  <2>1. AboutHead' /\ Overtaken'
    <3>1. proc'[Git] = proc[Git] /\ head' = head
      BY <1>1, <1>2, <1>5
    <3>2. AboutHead'
      BY <3>1 DEF StrayInv, AboutHead, Running, At
    <3>3. Overtaken'
      BY <1>1, <3>1 DEF StrayInv, Overtaken, Running, At, Procs
    <3>4. QED
      BY <3>2, <3>3
  <2>2. OldLogs'
    BY <1>1, <1>2, <1>3, <1>5 DEF StrayInv, OldLogs, Running, At
  <2>3. QED
    BY <2>1, <2>2 DEF StrayInv
<1>6. QED
  BY <1>4, <1>5

\* The log of process p's commit, and what it holds, but not which logs there are.
LEMMA SameDirs ==
  ASSUME Shape, NEW b \in Commits, NEW l, log' = [log EXCEPT ![b] = l], l.dir = log[b].dir
  PROVE  \A c \in Commits : log'[c].dir = log[c].dir
BY DEF Shape

LEMMA StrayProcess ==
  ASSUME Shape, StrayInv, NEW p \in Procs,
         Compute(p) \/ AppendRead(p) \/ Tear(p) \/ TearFails(p) \/ Fill(p)
  PROVE  StrayInv'
<1> DEFINE b == proc[p].base
<1>1. b \in Commits /\ head' = head /\ contended' = contended /\ astray' = astray /\ Running(p)
  <2>1. b \in Commits
    BY WorkingLogAssumption DEF Shape, IsProc, Commits
  <2>2. head' = head /\ contended' = contended /\ astray' = astray
    BY DEF Compute, AppendRead, Tear, TearFails, Fill, userVars, ghosts
  <2>3. Running(p)
    BY DEF Compute, AppendRead, Tear, TearFails, Fill, Running, At
  <2>4. QED
    BY <2>1, <2>2, <2>3
<1>2. CASE Compute(p)
  <2>1. \A c \in Commits : log'[c].dir => log[c].dir \/ c = b
    BY <1>1, <1>2 DEF Compute, Shape
  <2>2. CASE Over(p, log)
    BY <1>1, <2>1, <2>2, OverGoesOn, GoesOnStray
  <2>3. CASE \E e : proc' = [proc EXCEPT ![p].pc = "append", ![p].entries = e]
    <3>1. PICK e : proc' = [proc EXCEPT ![p].pc = "append", ![p].entries = e]
      BY <2>3
    <3> DEFINE r == [proc[p] EXCEPT !.pc = "append", !.entries = e]
    <3>2. proc' = [proc EXCEPT ![p] = r] /\ r.pc = "append" /\ r.base = b
      BY <3>1 DEF Shape, IsProc
    <3> HIDE DEF r
    <3>3. GoesOn(p, r)
      BY <1>1, <2>1, <3>2 DEF GoesOn
    <3>4. QED
      BY <3>3, GoesOnStray
  <2>4. QED
    BY <1>2, <2>2, <2>3 DEF Compute
<1>3. CASE AppendRead(p)
  <2> DEFINE cp == [id |-> <<p, proc[p].n + 1>>, kind |-> proc[p].kind, entries |-> proc[p].entries]
             r == [proc[p] EXCEPT !.pc = "tear", !.n = @ + 1, !.entries = <<>>,
                     !.cps = Append(Contents(b), cp), !.next = IF p = Git THEN "mutate" ELSE "off"]
  <2>1. log' = log
    BY <1>3 DEF AppendRead
  <2>2. proc' = [proc EXCEPT ![p] = r]
    BY <1>3 DEF AppendRead, Shape
  <2>3. r.pc = "tear" /\ r.base = b
    BY DEF Shape, IsProc
  <2> HIDE DEF r
  <2>4. GoesOn(p, r)
    BY <1>1, <2>1, <2>2, <2>3 DEF GoesOn
  <2>5. QED
    BY <2>4, GoesOnStray
<1>4. CASE Tear(p)
  <2>1. proc' = [proc EXCEPT ![p] = proc'[p]] /\ proc'[p].pc = "fill" /\ proc'[p].base = b
    BY <1>4 DEF Tear, Shape, IsProc
  <2>2. \A c \in Commits : log'[c].dir = log[c].dir
    BY <1>1, <1>4 DEF Tear, Shape, IsLog
  <2>3. GoesOn(p, proc'[p])
    BY <1>1, <2>1, <2>2 DEF GoesOn
  <2>4. QED
    BY <2>3, GoesOnStray
<1>5. CASE TearFails(p)
  <2>1. Over(p, log) /\ log' = log
    BY <1>5 DEF TearFails
  <2>2. QED
    BY <1>1, <2>1, OverGoesOn, GoesOnStray
<1>6. CASE Fill(p)
  <2>1. \A c \in Commits : log'[c].dir = log[c].dir
    <3>1. CASE log' = log
      BY <3>1
    <3>2. CASE \E file : log' = [log EXCEPT ![b] = Written(@, p, proc[p].cps, file)]
      <4>1. PICK file : log' = [log EXCEPT ![b] = Written(log[b], p, proc[p].cps, file)]
        BY <1>1, <3>2 DEF Shape
      <4>2. Written(log[b], p, proc[p].cps, file).dir = log[b].dir
        BY <1>1 DEF Written, Shape, IsLog
      <4>3. QED
        BY <1>1, <4>1, <4>2, SameDirs
    <3>3. QED
      BY <1>6, <3>1, <3>2 DEF Fill
  <2>2. CASE Over(p, log')
    BY <1>1, <2>1, <2>2, OverGoesOn, GoesOnStray
  <2>3. CASE proc' = [proc EXCEPT ![p].pc = "collect"]
    <3>1. proc' = [proc EXCEPT ![p] = proc'[p]] /\ proc'[p].pc = "collect" /\ proc'[p].base = b
      BY <2>3 DEF Shape, IsProc
    <3>2. GoesOn(p, proc'[p])
      BY <1>1, <2>1, <3>1 DEF GoesOn
    <3>3. QED
      BY <3>2, GoesOnStray
  <2>4. QED
    BY <1>6, <2>2, <2>3 DEF Fill
<1>7. QED
  BY <1>2, <1>3, <1>4, <1>5, <1>6

LEMMA StrayPostCommit ==
  ASSUME Shape, StrayInv, Mutate \/ MutateFails \/ Collect \/ StatsFail \/ Carry \/ Delete
  PROVE  StrayInv'
<1> DEFINE b == proc[Git].base
<1>1. /\ Git \in Procs /\ b \in Commits /\ head' = head /\ Running(Git) /\ b + 1 = head /\ head \in Commits
      /\ contended' = contended /\ astray \subseteq astray'
  <2>1. Git \in Procs
    BY DEF Procs
  <2>2. head' = head /\ Running(Git) /\ contended' = contended /\ astray \subseteq astray'
    BY DEF Mutate, MutateFails, Collect, StatsFail, Carry, Delete, Aborts, userVars, ghosts, Running, At
  <2>3. b \in Commits /\ head \in Commits
    BY <2>1, WorkingLogAssumption DEF Shape, IsProc, Commits
  <2>4. QED
    BY <2>1, <2>2, <2>3 DEF StrayInv, AboutHead
<1>2. CASE Mutate \/ Collect \/ Carry
  <2>1. PICK r : proc' = [proc EXCEPT ![Git] = r] /\ r.pc # "off" /\ r.base = b
    <3>1. ASSUME Mutate PROVE \E r : proc' = [proc EXCEPT ![Git] = r] /\ r.pc # "off" /\ r.base = b
      <4> DEFINE r == [proc[Git] EXCEPT !.pc = "tear", !.cps = Contents(b), !.next = "collect"]
      <4>1. proc' = [proc EXCEPT ![Git] = r]
        BY <1>1, <3>1 DEF Mutate, Shape
      <4>2. r.pc # "off" /\ r.base = b
        BY <1>1 DEF Shape, IsProc
      <4>3. QED
        BY <4>1, <4>2
    <3>2. ASSUME Collect PROVE \E r : proc' = [proc EXCEPT ![Git] = r] /\ r.pc # "off" /\ r.base = b
      <4>1. PICK carry : proc' = [proc EXCEPT ![Git].pc = "carry", ![Git].cps = <<>>, ![Git].carry = carry,
                                              ![Git].snap = disk]
        BY <3>2 DEF Collect
      <4> DEFINE r == [proc[Git] EXCEPT !.pc = "carry", !.cps = <<>>, !.carry = carry, !.snap = disk]
      <4>2. proc' = [proc EXCEPT ![Git] = r]
        BY <1>1, <4>1 DEF Shape
      <4>3. r.pc # "off" /\ r.base = b
        BY <1>1 DEF Shape, IsProc
      <4>4. QED
        BY <4>2, <4>3
    <3>3. ASSUME Carry PROVE \E r : proc' = [proc EXCEPT ![Git] = r] /\ r.pc # "off" /\ r.base = b
      <4> DEFINE r == [proc[Git] EXCEPT !.pc = "delete"]
      <4>1. proc' = [proc EXCEPT ![Git] = r]
        BY <1>1, <3>3 DEF Carry, Shape
      <4>2. r.pc # "off" /\ r.base = b
        BY <1>1 DEF Shape, IsProc
      <4>3. QED
        BY <4>1, <4>2
    <3>4. QED
      BY <1>2, <3>1, <3>2, <3>3
  <2>2. \A c \in Commits : log'[c].dir => log[c].dir \/ c = head
    BY <1>1, <1>2 DEF Mutate, Collect, Carry, Shape, IsLog
  <2>3. GoesOn(Git, r)
    BY <1>1, <2>1, <2>2 DEF GoesOn
  <2>4. QED
    BY <1>1, <2>3, GoesOnStray
<1>3. CASE MutateFails \/ StatsFail
  <2>1. /\ proc' = [proc EXCEPT ![Git] = [Idle EXCEPT !.n = proc[Git].n]]
        /\ log' = log /\ b + 1 \in astray'
    BY <1>3 DEF MutateFails, StatsFail, Aborts, Ends
  <2>2. [Idle EXCEPT !.n = proc[Git].n].pc = "off"
    BY DEF Idle
  <2>3. GoesOn(Git, [Idle EXCEPT !.n = proc[Git].n])
    BY <1>1, <2>1, <2>2 DEF GoesOn
  <2>4. QED
    BY <1>1, <2>3, GoesOnStray
<1>4. CASE Delete
  <2>1. /\ proc' = [proc EXCEPT ![Git] = [Idle EXCEPT !.n = proc[Git].n]]
        /\ log' = [log EXCEPT ![b] = NoLog]
    BY <1>4 DEF Delete
  <2>2. [Idle EXCEPT !.n = proc[Git].n].pc = "off" /\ ~NoLog.dir
    BY DEF Idle, NoLog
  <2>3. ~log'[b].dir /\ \A c \in Commits : log'[c].dir => log[c].dir
    BY <1>1, <2>1, <2>2 DEF Shape
  <2>4. GoesOn(Git, [Idle EXCEPT !.n = proc[Git].n])
    BY <1>1, <2>1, <2>2, <2>3 DEF GoesOn
  <2>5. QED
    BY <1>1, <2>4, GoesOnStray
<1>5. QED
  BY <1>2, <1>3, <1>4

LEMMA StrayNext == ASSUME Shape, StrayInv, [Next]_vars PROVE StrayInv'
<1>1. CASE UNCHANGED vars
  BY <1>1 DEF vars, userVars, ghosts, StrayInv, AboutHead, Overtaken, OldLogs, Running, At
<1>2. ASSUME NEW f \in Files, HumanEdit(f) PROVE StrayInv'
  <2>1. UNCHANGED <<head, log, proc, contended>> /\ astray \subseteq astray'
    BY <1>2 DEF HumanEdit
  <2>2. QED
    BY <2>1 DEF StrayInv, AboutHead, Overtaken, OldLogs, Running, At
<1>3. ASSUME NEW g \in Agents, NEW f \in Files, PreTool(g, f) PROVE StrayInv'
  <2>1. /\ g \in Procs /\ g # Git /\ ~Running(g) /\ Starts(g, "human", {f}, head) /\ head' = head
        /\ contended \subseteq contended' /\ astray' = astray
    BY <1>3, WorkingLogAssumption DEF PreTool, InTool, Procs
  <2>2. QED
    BY <2>1, StrayStarts
<1>4. ASSUME NEW g \in Agents, EditAndPostTool(g) PROVE StrayInv'
  <2>1. /\ g \in Procs /\ g # Git /\ ~Running(g) /\ Starts(g, "ai", {session[g].file}, head) /\ head' = head
        /\ contended \subseteq contended' /\ astray' = astray
    BY <1>4, WorkingLogAssumption DEF EditAndPostTool, Procs
  <2>2. QED
    BY <2>1, StrayStarts
<1>5. CASE Commit
  <2>1. /\ Git \in Procs /\ ~Running(Git) /\ Starts(Git, "human", Files, head) /\ head' = head + 1
        /\ contended \subseteq contended' /\ astray' = astray
        /\ \A g \in Agents : Running(g) => head \in contended'
    BY <1>5 DEF Commit, Procs, InTool
  <2>2. QED
    BY <2>1, StrayStarts
<1>6. QED
  BY <1>1, <1>2, <1>3, <1>4, <1>5, StrayProcess, StrayPostCommit DEF Next

LEMMA StrayAtFirst == Init => StrayInv
<1> SUFFICES ASSUME Init PROVE StrayInv
  OBVIOUS
<1>1. (\A p \in Procs : ~Running(p)) /\ \A b \in Commits : ~log[b].dir
  BY DEF Init, Running, At, Idle, NoLog
<1>2. head = 0 /\ Git \in Procs /\ Agents \subseteq Procs /\ 0..head \subseteq Commits
  BY WorkingLogAssumption DEF Init, Commits, Procs
<1>3. QED
  BY <1>1, <1>2 DEF StrayInv, AboutHead, Overtaken, OldLogs

\* The log of an older commit is left only by a failed post-commit, or where a
\* commit overtook a checkpoint of an agent.
THEOREM StrayOnlyIfOvertakenHolds == Spec => []StrayOnlyIfOvertaken
<1> DEFINE Inv == SettledInv /\ StrayInv
<1>1. Init => Inv
  BY SettledAtFirst, StrayAtFirst
<1>2. Inv /\ [Next]_vars => Inv'
  BY SettledNext, StrayNext DEF SettledInv
<1>3. Inv => StrayOnlyIfOvertaken
  BY DEF StrayInv, OldLogs, StrayOnlyIfOvertaken
<1>4. QED
  BY <1>1, <1>2, <1>3, PTL DEF Spec

(***************************************************************************)
(* Lines and their rows                                                     *)
(***************************************************************************)
LEMMA FiniteLines == IsFiniteSet(Lines)
<1> DEFINE T == (Agents \cup {Human}) \X (1..MaxLines)
           m == [l \in Lines |-> <<l.by, l.n>>]
<1>1. IsFiniteSet(Agents \cup {Human}) /\ IsFiniteSet(1..MaxLines)
  BY WorkingLogAssumption, FS_AddElement, FS_Interval
<1>2. IsFiniteSet(T)
  BY <1>1, FS_Product
<1>3. m \in Injection(Lines, T)
  <2>1. m \in [Lines -> T]
    BY DEF Lines
  <2>2. \A k, l \in Lines : m[k] = m[l] => k = l
    BY DEF Lines
  <2>3. QED
    BY <2>1, <2>2 DEF Injection, IsInjective
<1>4. QED
  BY <1>2, <1>3, FS_Injection

\* No two lines of a file stand in one row.
LEMMA RowSame ==
  ASSUME NEW S \in SUBSET Lines, NEW l \in S, NEW m \in S, Row(S, l) = Row(S, m) PROVE l = m
<1> DEFINE U(k) == {x \in S : Place[x] <= Place[k]}
<1>0. \A k \in S : Place[k] \in Nat
  BY WorkingLogAssumption DEF Lines
<1>1. ASSUME NEW k \in S PROVE U(k) \in SUBSET S /\ IsFiniteSet(U(k)) /\ k \in U(k)
  <2>1. U(k) \in SUBSET S /\ k \in U(k)
    BY <1>0
  <2> HIDE DEF U
  <2>2. U(k) \in SUBSET Lines
    BY <2>1
  <2>3. QED
    BY <2>1, <2>2, FiniteLines, FS_Subset
<1>2. Cardinality(U(l)) = Cardinality(U(m))
  BY DEF Row
<1>3. ASSUME NEW j \in S, NEW k \in S, Cardinality(U(j)) = Cardinality(U(k)), Place[j] <= Place[k]
      PROVE  Place[k] <= Place[j]
  <2>1. U(j) \in SUBSET U(k)
    BY <1>0, <1>3
  <2>2. U(j) = U(k)
    BY <1>1, <1>3, <2>1, FS_Subset
  <2>3. k \in U(j)
    BY <1>1, <2>2
  <2>4. QED
    BY <2>3
<1>4. Place[l] = Place[m]
  <2>1. Place[l] <= Place[m] \/ Place[m] <= Place[l]
    BY <1>0
  <2> HIDE DEF U
  <2>2. QED
    BY <1>0, <1>2, <1>3, <2>1
<1>5. QED
  BY <1>4, WorkingLogAssumption DEF Lines

\* Attributions read against the content that they were made for stay as they are.
LEMMA ShownSame ==
  ASSUME NEW S \in SUBSET Lines, NEW attr
  PROVE  \A x : x \in Shown(attr, S, S) <=> x \in attr /\ x \in S \X Agents
<1> SUFFICES ASSUME NEW x \in S \X Agents
             PROVE  (\E l \in S : <<l, x[2]>> \in attr /\ Row(S, l) = Row(S, x[1])) <=> x \in attr
  BY DEF Shown
<1>1. x[1] \in S /\ x = <<x[1], x[2]>>
  OBVIOUS
<1>2. \A l \in S : Row(S, l) = Row(S, x[1]) => l = x[1]
  BY <1>1, RowSame
<1>3. QED
  BY <1>1, <1>2

(***************************************************************************)
(* What a list of checkpoints says of a file                                *)
(***************************************************************************)
\* List t is s with one more checkpoint.
Longer(t, s, c) ==
  Len(t) = Len(s) + 1 /\ t[Len(s) + 1] = c /\ \A i \in 1..Len(s) : t[i] = s[i]

LEMMA AppendLonger ==
  ASSUME NEW w, NEW s \in Seq(CheckpointIn(w)), NEW c \in CheckpointIn(w)
  PROVE  Append(s, c) \in Seq(CheckpointIn(w)) /\ Longer(Append(s, c), s, c)
BY DEF Longer

LEMMA LongerWith ==
  ASSUME NEW w, NEW s \in Seq(CheckpointIn(w)), NEW c, NEW t \in Seq(CheckpointIn(w)), Longer(t, s, c),
         NEW f \in Files
  PROVE  /\ \A i \in With(s, f) : i \in With(t, f) /\ t[i] = s[i]
         /\ \A i \in With(t, f) : i \in With(s, f) \/ (i = Len(s) + 1 /\ f \in DOMAIN c.entries)
         /\ f \in DOMAIN c.entries => Len(s) + 1 \in With(t, f) /\ LastOf(With(t, f)) = Len(s) + 1
         /\ f \notin DOMAIN c.entries => With(t, f) = With(s, f)
<1>1. /\ DOMAIN t = 1..(Len(s) + 1) /\ DOMAIN s = 1..Len(s) /\ t[Len(s) + 1] = c /\ Len(s) \in Nat
      /\ \A i \in 1..Len(s) : t[i] = s[i]
  BY DEF Longer
<1>2. \A i \in 1..(Len(s) + 1) : i \in 1..Len(s) \/ i = Len(s) + 1
  BY <1>1
<1>3. \A i \in With(s, f) : i \in With(t, f) /\ t[i] = s[i]
  BY <1>1 DEF With
<1>4. \A i \in With(t, f) : i \in With(s, f) \/ (i = Len(s) + 1 /\ f \in DOMAIN c.entries)
  BY <1>1, <1>2 DEF With
<1>5. ASSUME f \in DOMAIN c.entries
      PROVE  Len(s) + 1 \in With(t, f) /\ LastOf(With(t, f)) = Len(s) + 1
  <2>1. Len(s) + 1 \in With(t, f)
    BY <1>1, <1>5 DEF With
  <2>2. /\ LastOf(With(t, f)) \in With(t, f) /\ With(t, f) \subseteq 1..Len(t)
        /\ \A j \in With(t, f) : j <= LastOf(With(t, f))
    BY <2>1, WithEntries
  <2>3. Len(t) = Len(s) + 1
    BY DEF Longer
  <2>4. QED
    BY <1>1, <2>1, <2>2, <2>3
<1>6. f \notin DOMAIN c.entries => With(t, f) = With(s, f)
  BY <1>3, <1>4
<1>7. QED
  BY <1>3, <1>4, <1>5, <1>6

\* The blank entries, of the time before AI touched the file, come first.
Tidy(s, initial, f) ==
  /\ \A i \in With(s, f) : /\ s[i].entries[f].blank => s[i].entries[f].attr = {}
                           /\ ~s[i].entries[f].blank => AITouched(s, initial, f)
  /\ With(s, f) # {} /\ AITouched(s, initial, f) => ~s[LastOf(With(s, f))].entries[f].blank

LEMMA TouchedMore ==
  ASSUME NEW w, NEW s \in Seq(CheckpointIn(w)), NEW c, NEW t \in Seq(CheckpointIn(w)), Longer(t, s, c),
         NEW f \in Files, NEW initial
  PROVE  /\ AITouched(s, initial, f) => AITouched(t, initial, f)
         /\ AITouched(t, initial, f) =>
              \/ AITouched(s, initial, f)
              \/ f \in DOMAIN c.entries /\ (c.kind # "human" \/ c.entries[f].attr # {})
<1>1. \A i \in With(s, f) : i \in With(t, f) /\ t[i] = s[i]
  BY LongerWith
<1>2. \A i \in With(t, f) : i \in With(s, f) \/ (f \in DOMAIN c.entries /\ t[i] = c)
  BY LongerWith DEF Longer
<1>3. QED
  BY <1>1, <1>2 DEF AITouched

LEMMA TidyMore ==
  ASSUME NEW w, NEW s \in Seq(CheckpointIn(w)), NEW c, NEW t \in Seq(CheckpointIn(w)), Longer(t, s, c),
         NEW f \in Files, NEW initial, Tidy(s, initial, f),
         f \in DOMAIN c.entries =>
           /\ c.entries[f].blank <=> c.kind = "human" /\ ~AITouched(s, initial, f)
           /\ c.kind = "human" /\ c.entries[f].attr # {} => AITouched(s, initial, f)
  PROVE  Tidy(t, initial, f)
<1>1. /\ \A i \in With(s, f) : i \in With(t, f) /\ t[i] = s[i]
      /\ \A i \in With(t, f) : i \in With(s, f) \/ (i = Len(s) + 1 /\ f \in DOMAIN c.entries)
      /\ f \in DOMAIN c.entries => Len(s) + 1 \in With(t, f) /\ LastOf(With(t, f)) = Len(s) + 1
      /\ f \notin DOMAIN c.entries => With(t, f) = With(s, f)
  BY LongerWith
<1>2. t[Len(s) + 1] = c
  BY DEF Longer
<1>3. AITouched(s, initial, f) => AITouched(t, initial, f)
  BY TouchedMore
<1>4. AITouched(t, initial, f) =>
        \/ AITouched(s, initial, f)
        \/ f \in DOMAIN c.entries /\ (c.kind # "human" \/ c.entries[f].attr # {})
  BY TouchedMore
<1>5. CASE f \in DOMAIN c.entries
  <2>1. AITouched(t, initial, f) <=> ~c.entries[f].blank
    <3>1. c.kind # "human" => AITouched(t, initial, f)
      BY <1>1, <1>2, <1>5 DEF AITouched
    <3>2. QED
      BY <1>3, <1>4, <1>5, <3>1
  <2>2. c.entries[f].blank => c.entries[f].attr = {}
    BY <1>5
  <2>3. \A i \in With(t, f) : /\ t[i].entries[f].blank => t[i].entries[f].attr = {}
                              /\ ~t[i].entries[f].blank => AITouched(t, initial, f)
    BY <1>1, <1>2, <1>3, <1>5, <2>1, <2>2 DEF Tidy
  <2>4. t[LastOf(With(t, f))] = c
    BY <1>1, <1>2, <1>5
  <2>5. QED
    BY <2>1, <2>3, <2>4 DEF Tidy
<1>6. CASE f \notin DOMAIN c.entries
  <2>1. With(t, f) = With(s, f) /\ \A i \in With(s, f) : t[i] = s[i]
    BY <1>1, <1>6
  <2>2. AITouched(t, initial, f) <=> AITouched(s, initial, f)
    BY <1>3, <1>4, <1>6
  <2>3. With(s, f) # {} => LastOf(With(s, f)) \in With(s, f)
    BY WithEntries
  <2>4. QED
    BY <2>1, <2>2, <2>3 DEF Tidy
<1>7. QED
  BY <1>5, <1>6

\* The state of file f by log l with list s, as a human checkpoint reads it; t is
\* the file in the base commit.
StateBy(s, l, t, f) ==
  IF With(s, f) # {} THEN [content |-> s[LastOf(With(s, f))].entries[f].content,
                           attr |-> s[LastOf(With(s, f))].entries[f].attr]
  ELSE IF l.initial[f] = {} THEN [content |-> t, attr |-> {}]
  ELSE [content |-> l.snap[f], attr |-> l.initial[f]]
BasedBy(s, l, f) == With(s, f) # {} \/ l.initial[f] = {}

\* Every checkpoint compares with it, and agents' too, if there is one before.
LEMMA PreviousIs ==
  ASSUME NEW p, NEW f, NEW l, NEW t, t = tree[proc[p].base][f], NEW s,
         proc[p].kind = "human" \/ BasedBy(s, l, f)
  PROVE  /\ Previous(p, l, s, f).content = StateBy(s, l, t, f).content
         /\ Previous(p, l, s, f).attr = StateBy(s, l, t, f).attr
<1> DEFINE rest == l.snap[f] \ (t \cup AttrLines(l.initial[f]))
<1>1. Previous(p, l, s, f) =
        IF With(s, f) # {} THEN s[LastOf(With(s, f))].entries[f]
        ELSE IF l.initial[f] = {} THEN [content |-> t, attr |-> {}, blank |-> TRUE]
        ELSE [content |-> l.snap[f], blank |-> FALSE,
              attr |-> l.initial[f] \cup (IF proc[p].kind = "human" THEN {} ELSE rest \X {p})]
  BY Zenon DEF Previous
<1> HIDE DEF rest
<1>2. CASE With(s, f) # {}
  BY <1>1, <1>2 DEF StateBy
<1>3. CASE With(s, f) = {} /\ l.initial[f] = {}
  BY <1>1, <1>3 DEF StateBy
<1>4. CASE With(s, f) = {} /\ l.initial[f] # {}
  <2>1. proc[p].kind = "human"
    BY <1>4 DEF BasedBy
  <2>2. Previous(p, l, s, f) = [content |-> l.snap[f], blank |-> FALSE,
                                     attr |-> l.initial[f] \cup {}]
    BY <1>1, <1>4, <2>1
  <2>3. StateBy(s, l, t, f) = [content |-> l.snap[f], attr |-> l.initial[f]]
    BY <1>4 DEF StateBy
  <2>4. QED
    BY <2>2, <2>3
<1>5. QED
  BY <1>2, <1>3, <1>4

\* Post-commit reads the same: the last state, once AI has touched the file.
LEMMA RecordedIs ==
  ASSUME NEW w, NEW s \in Seq(CheckpointIn(w)), NEW f \in Files, NEW l, NEW t,
         Tidy(s, l.initial, f), NEW content, content # {}
  PROVE  /\ ~AITouched(s, l.initial, f) => Recorded(l, s, content, f).attr = {}
         /\ AITouched(s, l.initial, f) =>
              /\ Recorded(l, s, content, f).attr = StateBy(s, l, t, f).attr
              /\ Recorded(l, s, content, f).content = StateBy(s, l, t, f).content
<1> DEFINE S == {i \in With(s, f) : ~s[i].entries[f].blank /\ (s[i].entries[f].attr # {} \/ content # {})}
           S0 == {i \in With(s, f) : ~s[i].entries[f].blank}
<1>1. Recorded(l, s, content, f) =
        IF S = {} THEN [attr |-> l.initial[f], content |-> l.snap[f]]
        ELSE [attr |-> s[LastOf(S)].entries[f].attr, content |-> s[LastOf(S)].entries[f].content]
  BY Zenon DEF Recorded
<1>2. S = S0
  OBVIOUS
<1> HIDE DEF S
<1>3. CASE ~AITouched(s, l.initial, f)
  <2>1. S0 = {}
    BY <1>3 DEF Tidy
  <2>2. l.initial[f] = {}
    BY <1>3 DEF AITouched
  <2>3. QED
    BY <1>1, <1>2, <1>3, <2>1, <2>2
<1>4. CASE AITouched(s, l.initial, f) /\ With(s, f) = {}
  <2>1. S0 = {} /\ l.initial[f] # {}
    BY <1>4 DEF AITouched
  <2>2. QED
    BY <1>1, <1>2, <1>4, <2>1 DEF StateBy
<1>5. CASE AITouched(s, l.initial, f) /\ With(s, f) # {}
  <2>1. /\ With(s, f) \subseteq 1..Len(s) /\ Len(s) \in Nat
        /\ LastOf(With(s, f)) \in With(s, f) /\ \A j \in With(s, f) : j <= LastOf(With(s, f))
    BY <1>5, WithEntries
  <2>2. LastOf(With(s, f)) \in S0
    BY <1>5, <2>1 DEF Tidy
  <2>3. LastOf(S0) \in S0 /\ \A j \in S0 : j <= LastOf(S0)
    <3>1. S0 \in SUBSET (1..Len(s)) /\ S0 # {}
      BY <2>1, <2>2
    <3> HIDE DEF S0
    <3>2. QED
      BY <2>1, <3>1, LastIsIn
  <2>4. LastOf(S0) = LastOf(With(s, f))
    <3>1. LastOf(S0) \in Nat /\ LastOf(With(s, f)) \in Nat /\ S0 \subseteq With(s, f)
      BY <2>1, <2>3
    <3> HIDE DEF S0
    <3>2. QED
      BY <2>1, <2>2, <2>3, <3>1
  <2>5. S # {} /\ LastOf(S) = LastOf(With(s, f))
    BY <1>2, <2>2, <2>4
  <2>6. QED
    BY <1>1, <1>5, <2>5 DEF StateBy
<1>6. QED
  BY <1>3, <1>4, <1>5

(***************************************************************************)
(* What holds of the files, whatever the processes do                       *)
(***************************************************************************)
\* The commits T up to h, the work tree D: a line belongs to one file, and one that
\* is in a commit and in the work tree is in every commit since.
Homes(T, D, h) ==
  \A f \in Files : \A k \in Files \ {f} :
    D[f] \cap D[k] = {} /\ \A c \in 0..h : D[f] \cap T[c][k] = {}
Lasting(T, D, h) ==
  \A b \in 0..h : \A c \in 0..b : \A f \in Files : T[c][f] \cap D[f] \subseteq T[b][f]

\* What is recorded of file f against base commit b: attributions are of recorded
\* lines that are not in b.  Lines of b are recorded, or are gone for good, and so
\* are recorded lines of older commits.  It records no line of another file.
Fits(b, f, content, attr, T, D, h) ==
  /\ AttrLines(attr) \subseteq content \ T[b][f]
  /\ T[b][f] \cap D[f] \subseteq content
  /\ \A c \in 0..b : content \cap T[c][f] \subseteq T[b][f]
  /\ \A k \in Files \ {f} : content \cap D[k] = {} /\ \A c \in 0..h : content \cap T[c][k] = {}
ListFits(b, s, T, D, h) ==
  \A f \in Files : \A i \in With(s, f) :
    Fits(b, f, s[i].entries[f].content, s[i].entries[f].attr, T, D, h)
LogFits(b, l, T, D, h) ==
  /\ ListFits(b, l.cps, T, D, h)
  /\ \A f \in Files : l.initial[f] # {} => Fits(b, f, l.snap[f], l.initial[f], T, D, h)
ProcFits(r, T, D, h) ==
  /\ ListFits(r.base, r.cps, T, D, h)
  /\ \A f \in DOMAIN r.entries : Fits(r.base, f, r.entries[f].content, r.entries[f].attr, T, D, h)

\* Lines are written to one file and removed, or a commit is made; W are the lines
\* written before.
Moved(T, D, h, W, T2, D2, h2) ==
  /\ \/ h2 = h
     \/ /\ h2 = h + 1 /\ D2 = D
        /\ \A f \in Files : T2[h2][f] \subseteq D[f] \cup T[h][f] /\ D[f] \cap T[h][f] \subseteq T2[h2][f]
  /\ \A c \in 0..h : T2[c] = T[c]
  /\ \A f \in Files : D2[f] \cap W \subseteq D[f]
  /\ \A f \in Files : \A k \in Files \ {f} : D2[f] \cap D2[k] \subseteq W

LEMMA FitsKept ==
  ASSUME NEW T, NEW D, NEW h \in Nat, NEW W, NEW T2, NEW D2, NEW h2, Moved(T, D, h, W, T2, D2, h2),
         \A c \in 0..h : \A f \in Files : T[c][f] \subseteq W,
         NEW b \in 0..h, NEW f \in Files, NEW content, content \subseteq W, NEW attr,
         Fits(b, f, content, attr, T, D, h)
  PROVE  Fits(b, f, content, attr, T2, D2, h2)
<1>1. T2[b] = T[b] /\ T[b][f] \subseteq W /\ D2[f] \cap W \subseteq D[f]
  BY DEF Moved
<1>2. AttrLines(attr) \subseteq content \ T2[b][f] /\ T2[b][f] \cap D2[f] \subseteq content
  BY <1>1 DEF Fits
<1>3. \A c \in 0..b : content \cap T2[c][f] \subseteq T2[b][f]
  BY <1>1 DEF Fits, Moved
<1>4. ASSUME NEW k \in Files \ {f} PROVE content \cap D2[k] = {}
  BY DEF Fits, Moved
<1>5. ASSUME NEW k \in Files \ {f}, NEW c \in 0..h2 PROVE content \cap T2[c][k] = {}
  <2>1. CASE c \in 0..h
    BY <2>1 DEF Fits, Moved
  <2>2. CASE c \notin 0..h
    <3>1. c = h2 /\ T2[c][k] \subseteq D[k] \cup T[h][k] /\ h \in 0..h
      BY <2>2 DEF Moved
    <3>2. content \cap D[k] = {} /\ content \cap T[h][k] = {}
      BY <3>1 DEF Fits
    <3>3. QED
      BY <3>1, <3>2
  <2>3. QED
    BY <2>1, <2>2
<1>6. QED
  BY <1>2, <1>3, <1>4, <1>5 DEF Fits

LEMMA LandKept ==
  ASSUME NEW T, NEW D, NEW h \in Nat, NEW W, NEW T2, NEW D2, NEW h2, Moved(T, D, h, W, T2, D2, h2),
         \A c \in 0..h : \A f \in Files : T[c][f] \subseteq W, Homes(T, D, h), Lasting(T, D, h)
  PROVE  Homes(T2, D2, h2) /\ Lasting(T2, D2, h2)
<1>1. ASSUME NEW f \in Files, NEW k \in Files \ {f}
      PROVE  D2[f] \cap D2[k] = {} /\ \A c \in 0..h2 : D2[f] \cap T2[c][k] = {}
  <2>1. D2[f] \cap D2[k] = {}
    BY DEF Moved, Homes
  <2>2. ASSUME NEW c \in 0..h2 PROVE D2[f] \cap T2[c][k] = {}
    <3>1. CASE c \in 0..h
      <4>1. T2[c] = T[c] /\ T[c][k] \subseteq W /\ D2[f] \cap W \subseteq D[f] /\ D[f] \cap T[c][k] = {}
        BY <3>1 DEF Moved, Homes
      <4>2. QED
        BY <4>1
    <3>2. CASE c \notin 0..h
      <4>1. c = h2 /\ T2[c][k] \subseteq D[k] \cup T[h][k] /\ h \in 0..h /\ D2 = D
        BY <3>2 DEF Moved
      <4>2. QED
        BY <4>1 DEF Homes
    <3>3. QED
      BY <3>1, <3>2
  <2>3. QED
    BY <2>1, <2>2
<1>2. ASSUME NEW b \in 0..h2, NEW c \in 0..b, NEW f \in Files PROVE T2[c][f] \cap D2[f] \subseteq T2[b][f]
  <2>1. ASSUME NEW a \in 0..h PROVE T2[a] = T[a] /\ T[a][f] \cap D2[f] \subseteq D[f]
    BY DEF Moved
  <2>2. CASE b \in 0..h
    <3>1. c \in 0..h /\ T[c][f] \cap D[f] \subseteq T[b][f]
      BY <2>2 DEF Lasting
    <3>2. QED
      BY <2>1, <2>2, <3>1
  <2>3. CASE b \notin 0..h
    <3>1. b = h + 1 /\ D2 = D /\ D[f] \cap T[h][f] \subseteq T2[b][f] /\ h \in 0..h
      BY <2>3 DEF Moved
    <3>2. CASE c = b
      BY <3>2
    <3>3. CASE c # b
      <4>1. c \in 0..h
        BY <3>1, <3>3
      <4>2. T[c][f] \cap D[f] \subseteq T[h][f]
        BY <3>1, <4>1 DEF Lasting
      <4>3. QED
        BY <2>1, <3>1, <4>1, <4>2
    <3>4. QED
      BY <3>2, <3>3
  <2>4. QED
    BY <2>2, <2>3
<1>3. QED
  BY <1>1, <1>2 DEF Homes, Lasting

LEMMA ListsKept ==
  ASSUME NEW T, NEW D, NEW h \in Nat, NEW W, NEW T2, NEW D2, NEW h2, Moved(T, D, h, W, T2, D2, h2),
         \A c \in 0..h : \A f \in Files : T[c][f] \subseteq W, NEW b \in 0..h
  PROVE  /\ \A s \in Seq(CheckpointIn(W)) : ListFits(b, s, T, D, h) => ListFits(b, s, T2, D2, h2)
         /\ \A l \in LogIn(W) : LogFits(b, l, T, D, h) => LogFits(b, l, T2, D2, h2)
         /\ \A r \in ProcIn(W) : r.base = b /\ ProcFits(r, T, D, h) => ProcFits(r, T2, D2, h2)
<1>1. ASSUME NEW s \in Seq(CheckpointIn(W)), ListFits(b, s, T, D, h) PROVE ListFits(b, s, T2, D2, h2)
  <2> SUFFICES ASSUME NEW f \in Files, NEW i \in With(s, f)
               PROVE  Fits(b, f, s[i].entries[f].content, s[i].entries[f].attr, T2, D2, h2)
    BY DEF ListFits
  <2>1. s[i].entries[f] \in EntryIn(W)
    BY WithEntries
  <2>2. s[i].entries[f].content \subseteq W
    BY <2>1 DEF EntryIn
  <2>3. Fits(b, f, s[i].entries[f].content, s[i].entries[f].attr, T, D, h)
    BY <1>1 DEF ListFits
  <2>4. QED
    BY <2>2, <2>3, FitsKept
<1>2. ASSUME NEW l \in LogIn(W), LogFits(b, l, T, D, h) PROVE LogFits(b, l, T2, D2, h2)
  <2>1. l.cps \in Seq(CheckpointIn(W)) /\ \A f \in Files : l.snap[f] \subseteq W
    BY DEF LogIn, FilesIn
  <2>2. QED
    BY <1>1, <1>2, <2>1, FitsKept DEF LogFits
<1>3. ASSUME NEW r \in ProcIn(W), r.base = b, ProcFits(r, T, D, h) PROVE ProcFits(r, T2, D2, h2)
  <2>1. r.cps \in Seq(CheckpointIn(W)) /\ r.entries \in EntriesIn(W)
    BY DEF ProcIn
  <2>2. PICK S \in SUBSET Files : r.entries \in [S -> EntryIn(W)]
    BY <2>1, EntriesAre
  <2>3. \A f \in DOMAIN r.entries : f \in Files /\ r.entries[f].content \subseteq W
    BY <2>2 DEF EntryIn
  <2>4. QED
    BY <1>1, <1>3, <2>1, <2>3, FitsKept DEF ProcFits
<1>4. QED
  BY <1>1, <1>2, <1>3

(***************************************************************************)
(* Every step moves the files so                                            *)
(***************************************************************************)
LEMMA Moves ==
  ASSUME Shape, Types, budget \in Budgets, [Next]_vars
  PROVE  /\ Moved(tree, disk, head, written, tree', disk', head') /\ head \in Nat
         /\ \A c \in 0..head : \A f \in Files : tree[c][f] \subseteq written
<1>1. head \in Nat /\ 0..head \subseteq Commits
  BY WorkingLogAssumption DEF Shape, Commits
<1>2. /\ \A c \in Commits : \A f \in Files : tree[c][f] \subseteq written
      /\ \A f \in Files : disk[f] \subseteq written
  BY DEF Types, UserTypes, FilesIn
<1>3. CASE UNCHANGED <<tree, disk, head>>
  BY <1>1, <1>2, <1>3 DEF Moved
<1>4. ASSUME NEW f \in Files, NEW l, l \notin written, disk' = [disk EXCEPT ![f] = disk[f] \cup {l}],
             UNCHANGED <<tree, head>>
      PROVE  Moved(tree, disk, head, written, tree', disk', head')
  <2>1. disk'[f] = disk[f] \cup {l} /\ \A k \in Files \ {f} : disk'[k] = disk[k]
    BY <1>4 DEF Types, UserTypes, FilesIn
  <2>2. \A k \in Files : disk'[k] \cap written \subseteq disk[k]
    BY <1>4, <2>1
  <2>3. \A k \in Files : \A j \in Files \ {k} : disk'[k] \cap disk'[j] \subseteq written
    BY <1>2, <2>1
  <2>4. QED
    BY <1>4, <2>2, <2>3 DEF Moved
<1>5. ASSUME NEW f \in Files, NEW l, disk' = [disk EXCEPT ![f] = disk[f] \ {l}], UNCHANGED <<tree, head>>
      PROVE  Moved(tree, disk, head, written, tree', disk', head')
  <2>1. \A k \in Files : disk'[k] \subseteq disk[k]
    BY <1>5 DEF Types, UserTypes, FilesIn
  <2>2. QED
    BY <1>2, <1>5, <2>1 DEF Moved
<1>6. ASSUME NEW f \in Files, HumanEdit(f) PROVE Moved(tree, disk, head, written, tree', disk', head')
  <2>1. UNCHANGED <<tree, head>>
    BY <1>6 DEF HumanEdit
  <2>2. \/ \E l \in Fresh(Human) : disk' = [disk EXCEPT ![f] = disk[f] \cup {l}]
        \/ \E l \in disk[f] : disk' = [disk EXCEPT ![f] = disk[f] \ {l}]
    BY <1>6 DEF HumanEdit, Types, UserTypes, FilesIn
  <2>3. \A l \in Fresh(Human) : l \notin written
    BY DEF Fresh
  <2>4. QED
    BY <1>4, <1>5, <2>1, <2>2, <2>3
<1>7. ASSUME NEW g \in Agents, EditAndPostTool(g) PROVE Moved(tree, disk, head, written, tree', disk', head')
  <2>1. UNCHANGED <<tree, head>> /\ session[g].file \in Files
    BY <1>7 DEF EditAndPostTool, Types, UserTypes
  <2>2. PICK l \in Fresh(g) : disk' = [disk EXCEPT ![session[g].file] = disk[session[g].file] \cup {l}]
    BY <1>7, <2>1 DEF EditAndPostTool, Types, UserTypes, FilesIn
  <2>3. l \notin written
    BY DEF Fresh
  <2>4. QED
    BY <1>4, <2>1, <2>2, <2>3
<1>8. ASSUME Commit PROVE Moved(tree, disk, head, written, tree', disk', head')
  <2>1. /\ head' = head + 1 /\ disk' = disk /\ head + 1 \in Commits
    BY <1>8, WorkingLogAssumption DEF Commit, Shape, Commits
  <2>2. PICK t \in Staged : tree' = [tree EXCEPT ![head + 1] = t]
    BY <1>8 DEF Commit
  <2>3. tree'[head + 1] = t /\ \A c \in 0..head : tree'[c] = tree[c]
    BY <1>1, <2>1, <2>2 DEF Types, UserTypes
  <2>4. \A f \in Files : t[f] \subseteq disk[f] \cup tree[head][f] /\ disk[f] \cap tree[head][f] \subseteq t[f]
    BY DEF Staged
  <2>5. QED
    BY <1>1, <1>2, <2>1, <2>3, <2>4 DEF Moved
<1>9. ASSUME ~(UNCHANGED vars), \A f \in Files : ~HumanEdit(f), \A g \in Agents : ~EditAndPostTool(g), ~Commit
      PROVE  UNCHANGED <<tree, disk, head>>
  <2>1. \/ \E g \in Agents, f \in Files : PreTool(g, f)
        \/ \E p \in Procs : Compute(p) \/ AppendRead(p) \/ Tear(p) \/ TearFails(p) \/ Fill(p)
        \/ Mutate \/ MutateFails \/ Collect \/ StatsFail \/ Carry \/ Delete
    BY <1>9 DEF Next
  <2>2. QED
    BY <2>1 DEF PreTool, Compute, AppendRead, Tear, TearFails, Fill, Mutate, MutateFails, Collect, StatsFail,
       Carry, Delete, Aborts, userVars
<1>10. UNCHANGED vars => UNCHANGED <<tree, disk, head>>
  BY DEF vars, userVars
<1>11. QED
  BY <1>1, <1>2, <1>3, <1>6, <1>7, <1>8, <1>9, <1>10

(***************************************************************************)
(* What each step of a process does, field by field                         *)
(***************************************************************************)
Rest(p) == \A q \in Procs \ {p} : proc'[q] = proc[q]
\* The log of b keeps what it says.
SameWords(b) ==
  /\ log'[b].cps = log[b].cps /\ log'[b].file = log[b].file
  /\ log'[b].initial = log[b].initial /\ log'[b].snap = log[b].snap
RestOfLogs(b) == \A c \in Commits \ {b} : log'[c] = log[c]
\* Process p keeps what it is about.
SameTask(p) == proc'[p].base = proc[p].base /\ proc'[p].kind = proc[p].kind /\ proc'[p].files = proc[p].files
OverDoes(p) ==
  /\ proc'[p].cps = <<>>
  /\ p = Git => proc'[p].pc = "mutate" /\ SameTask(p) /\ proc'[p].entries = proc[p].entries
  /\ p # Git => proc'[p].pc = "off" /\ proc'[p].entries = <<>> /\ proc'[p].base = 0

LEMMA OverIs == ASSUME Types, NEW p \in Procs, NEW l, Over(p, l) PROVE Rest(p) /\ OverDoes(p)
<1>1. proc[p] \in ProcIn(written)
  BY ProcIs
<1>2. CASE p = Git
  BY <1>1, <1>2 DEF Over, Types, ProcIn, Rest, OverDoes, SameTask
<1>3. CASE p # Git
  BY <1>1, <1>3 DEF Over, Ends, Types, Idle, Rest, OverDoes
<1>4. QED
  BY <1>2, <1>3

LEMMA StartsIs ==
  ASSUME Shape, Types, NEW p \in Procs, NEW kind, NEW files, Starts(p, kind, files, head)
  PROVE  /\ Rest(p) /\ \A b \in Commits : SameWords(b)
         /\ \A b \in Commits : log'[b].dir = (log[b].dir \/ b = head)
         /\ proc'[p].pc = "compute" /\ proc'[p].kind = kind /\ proc'[p].files = files
         /\ proc'[p].base = head /\ proc'[p].cps = <<>> /\ proc'[p].entries = <<>>
         /\ RestOfLogs(head)
<1>1. head \in Commits
  BY DEF Shape
<1>2. Rest(p) /\ proc'[p].pc = "compute" /\ proc'[p].kind = kind /\ proc'[p].files = files
      /\ proc'[p].base = head /\ proc'[p].cps = <<>> /\ proc'[p].entries = <<>>
  BY DEF Starts, Idle, Types, Rest
<1>3. ASSUME NEW b \in Commits PROVE SameWords(b) /\ log'[b].dir = (log[b].dir \/ b = head)
  <2>1. log[b] \in LogIn(written)
    BY DEF Types
  <2>2. QED
    BY <1>1, <2>1 DEF Starts, Types, LogIn, SameWords
<1>4. RestOfLogs(head)
  BY DEF Starts, Types, RestOfLogs
<1>5. QED
  BY <1>2, <1>3, <1>4

LEMMA ComputeDoes ==
  ASSUME Shape, Types, NEW p \in Procs, Compute(p)
  PROVE  LET b == proc[p].base
             entries == Entries(p, log[b], Contents(b))
         IN  /\ At(p, "compute") /\ UNCHANGED userVars /\ Rest(p) /\ RestOfLogs(b) /\ SameWords(b)
             /\ log'[b].dir
             /\ \/ (Garbled(b) \/ entries = <<>>) /\ OverDoes(p)
                \/ /\ ~Garbled(b) /\ entries # <<>>
                   /\ proc'[p].pc = "append" /\ proc'[p].entries = entries /\ SameTask(p)
                   /\ proc'[p].cps = proc[p].cps
             /\ unseen' = unseen \cup {b + 1} \X {f \in Files : PassedOver(p, log[b], Contents(b), f)}
             /\ UNCHANGED <<notes, credited, contended, mixed, astray>>
<1> DEFINE b == proc[p].base
           entries == Entries(p, log[b], Contents(b))
<1>1. b \in Commits /\ proc[p] \in ProcIn(written) /\ log[b] \in LogIn(written)
  BY ProcIs
<1> HIDE DEF entries
<1>2. /\ At(p, "compute") /\ UNCHANGED userVars /\ log' = [log EXCEPT ![b].dir = TRUE]
      /\ UNCHANGED <<notes, credited, contended, mixed, astray>>
      /\ unseen' = unseen \cup {b + 1} \X {f \in Files : PassedOver(p, log[b], Contents(b), f)}
      /\ IF Garbled(b) \/ entries = <<>>
           THEN Over(p, log)
           ELSE proc' = [proc EXCEPT ![p].pc = "append", ![p].entries = entries]
  BY DEF Compute, entries
<1>3. RestOfLogs(b) /\ SameWords(b) /\ log'[b].dir
  BY <1>1, <1>2 DEF Types, LogIn, RestOfLogs, SameWords
<1>4. CASE Garbled(b) \/ entries = <<>>
  BY <1>2, <1>3, <1>4, OverIs DEF entries
<1>5. CASE ~(Garbled(b) \/ entries = <<>>)
  <2>1. proc' = [proc EXCEPT ![p].pc = "append", ![p].entries = entries]
    BY <1>2, <1>5
  <2>2. /\ Rest(p) /\ proc'[p].pc = "append" /\ proc'[p].entries = entries /\ SameTask(p)
        /\ proc'[p].cps = proc[p].cps
    BY <1>1, <2>1 DEF Types, ProcIn, Rest, SameTask
  <2>3. QED
    BY <1>2, <1>3, <1>5, <2>2 DEF entries
<1>6. QED
  BY <1>4, <1>5

LEMMA AppendReadDoes ==
  ASSUME Shape, Types, NEW p \in Procs, AppendRead(p)
  PROVE  /\ At(p, "append") /\ UNCHANGED userVars /\ Rest(p) /\ log' = log
         /\ proc'[p].pc = "tear" /\ SameTask(p) /\ proc'[p].entries = <<>>
         /\ proc'[p].next = IF p = Git THEN "mutate" ELSE "off"
         /\ proc'[p].cps = Append(Contents(proc[p].base),
              [id |-> <<p, proc[p].n + 1>>, kind |-> proc[p].kind, entries |-> proc[p].entries])
         /\ UNCHANGED <<notes, credited, contended, mixed, astray, unseen>>
<1> DEFINE cps == Append(Contents(proc[p].base),
              [id |-> <<p, proc[p].n + 1>>, kind |-> proc[p].kind, entries |-> proc[p].entries])
           next == IF p = Git THEN "mutate" ELSE "off"
<1>1. proc[p] \in ProcIn(written)
  BY ProcIs
<1>2. /\ At(p, "append") /\ UNCHANGED userVars /\ log' = log
      /\ UNCHANGED <<notes, credited, contended, mixed, astray, unseen>>
      /\ proc' = [proc EXCEPT ![p].pc = "tear", ![p].n = @ + 1, ![p].entries = <<>>,
                    ![p].cps = cps, ![p].next = next]
  BY DEF AppendRead
<1> HIDE DEF cps, next
<1>3. /\ Rest(p) /\ proc'[p].pc = "tear" /\ SameTask(p) /\ proc'[p].entries = <<>>
      /\ proc'[p].next = next /\ proc'[p].cps = cps
  BY <1>1, <1>2 DEF Types, ProcIn, Rest, SameTask
<1>4. QED
  BY <1>2, <1>3 DEF cps, next

LEMMA TearDoes ==
  ASSUME Shape, Types, NEW p \in Procs, Tear(p)
  PROVE  LET b == proc[p].base
         IN  /\ At(p, "tear") /\ UNCHANGED userVars /\ UNCHANGED <<notes, ghosts>> /\ Rest(p) /\ RestOfLogs(b)
             /\ log'[b].cps = <<>> /\ log'[b].initial = log[b].initial /\ log'[b].snap = log[b].snap
             /\ log'[b].dir = log[b].dir
             /\ proc'[p].pc = "fill" /\ SameTask(p)
             /\ proc'[p].cps = proc[p].cps /\ proc'[p].entries = proc[p].entries /\ proc'[p].next = proc[p].next
<1> DEFINE b == proc[p].base
<1>1. b \in Commits /\ proc[p] \in ProcIn(written) /\ log[b] \in LogIn(written)
  BY ProcIs
<1>2. /\ At(p, "tear") /\ UNCHANGED userVars /\ UNCHANGED <<notes, ghosts>>
      /\ log' = [log EXCEPT ![b].file = "cut", ![b].cps = <<>>, ![b].open = @ \cup {p}]
      /\ proc' = [proc EXCEPT ![p].pc = "fill"]
  BY DEF Tear
<1>3. /\ Rest(p) /\ proc'[p].pc = "fill" /\ SameTask(p)
      /\ proc'[p].cps = proc[p].cps /\ proc'[p].entries = proc[p].entries /\ proc'[p].next = proc[p].next
  BY <1>1, <1>2 DEF Types, ProcIn, Rest, SameTask
<1>4. /\ RestOfLogs(b) /\ log'[b].cps = <<>> /\ log'[b].initial = log[b].initial
      /\ log'[b].snap = log[b].snap /\ log'[b].dir = log[b].dir
  BY <1>1, <1>2 DEF Types, LogIn, RestOfLogs
<1>5. QED
  BY <1>2, <1>3, <1>4

LEMMA FillDoes ==
  ASSUME Shape, Types, NEW p \in Procs, Fill(p)
  PROVE  LET b == proc[p].base
             cp == proc[p].cps[Len(proc[p].cps)]
             claims == UNION {{x[1] : x \in {y \in cp.entries[f].attr : y[2] = p}} : f \in DOMAIN cp.entries}
         IN  /\ At(p, "fill") /\ UNCHANGED userVars /\ Rest(p) /\ RestOfLogs(b)
             /\ log'[b].initial = log[b].initial /\ log'[b].snap = log[b].snap /\ log'[b].dir = log[b].dir
             /\ \/ p \in log[b].open /\ log'[b].cps = proc[p].cps
                \/ p \notin log[b].open /\ log'[b] = log[b]
             /\ \/ /\ proc[p].next = "collect" /\ proc'[p].pc = "collect" /\ credited' = credited
                   /\ SameTask(p) /\ proc'[p].cps = proc[p].cps /\ proc'[p].entries = proc[p].entries
                \/ proc[p].next # "collect" /\ OverDoes(p) /\ credited' = credited \cup claims
             /\ UNCHANGED <<notes, halfRead, contended, mixed, astray, unseen>>
<1> DEFINE b == proc[p].base
           cp == proc[p].cps[Len(proc[p].cps)]
           claims == UNION {{x[1] : x \in {y \in cp.entries[f].attr : y[2] = p}} : f \in DOMAIN cp.entries}
<1>1. b \in Commits /\ proc[p] \in ProcIn(written) /\ log[b] \in LogIn(written)
  BY ProcIs
<1> HIDE DEF claims
<1>2. /\ At(p, "fill") /\ UNCHANGED userVars
      /\ UNCHANGED <<notes, halfRead, contended, mixed, astray, unseen>>
      /\ \E file \in {"whole"} \cup (IF log[b].file = "cut" THEN {} ELSE {"spoilt"}) :
           log' = IF p \in log[b].open THEN [log EXCEPT ![b] = Written(@, p, proc[p].cps, file)] ELSE log
      /\ IF proc[p].next = "collect"
           THEN proc' = [proc EXCEPT ![p].pc = "collect"] /\ credited' = credited
           ELSE credited' = credited \cup claims /\ Over(p, log')
  BY DEF Fill, claims
<1>3. /\ RestOfLogs(b)
      /\ log'[b].initial = log[b].initial /\ log'[b].snap = log[b].snap /\ log'[b].dir = log[b].dir
      /\ \/ p \in log[b].open /\ log'[b].cps = proc[p].cps
         \/ p \notin log[b].open /\ log'[b] = log[b]
  BY <1>1, <1>2 DEF Types, LogIn, RestOfLogs, Written
<1>4. CASE proc[p].next = "collect"
  <2>1. /\ Rest(p) /\ proc'[p].pc = "collect" /\ SameTask(p) /\ proc'[p].cps = proc[p].cps
        /\ proc'[p].entries = proc[p].entries
    BY <1>1, <1>2, <1>4 DEF Types, ProcIn, Rest, SameTask
  <2>2. QED
    BY <1>2, <1>3, <1>4, <2>1
<1>5. CASE proc[p].next # "collect"
  BY <1>2, <1>3, <1>5, OverIs DEF claims
<1>6. QED
  BY <1>4, <1>5

LEMMA MutateDoes ==
  ASSUME Shape, Types, Mutate
  PROVE  /\ At(Git, "mutate") /\ ~Garbled(proc[Git].base) /\ UNCHANGED userVars /\ Rest(Git) /\ log' = log
         /\ proc'[Git].pc = "tear" /\ SameTask(Git) /\ proc'[Git].entries = proc[Git].entries
         /\ proc'[Git].cps = Contents(proc[Git].base) /\ proc'[Git].next = "collect"
         /\ UNCHANGED <<notes, credited, contended, mixed, astray, unseen>>
<1>1. Git \in Procs /\ proc[Git] \in ProcIn(written)
  BY ProcIs DEF Procs
<1>2. /\ At(Git, "mutate") /\ ~Garbled(proc[Git].base) /\ UNCHANGED userVars /\ log' = log
      /\ proc' = [proc EXCEPT ![Git].pc = "tear", ![Git].cps = Contents(proc[Git].base), ![Git].next = "collect"]
      /\ UNCHANGED <<notes, credited, contended, mixed, astray, unseen>>
  BY DEF Mutate
<1>3. QED
  BY <1>1, <1>2 DEF Types, ProcIn, Rest, SameTask

LEMMA AbortsDoes ==
  ASSUME Shape, Types, MutateFails \/ StatsFail
  PROVE  /\ UNCHANGED userVars /\ Rest(Git) /\ log' = log /\ Running(Git)
         /\ proc'[Git].pc = "off" /\ proc'[Git].entries = <<>> /\ proc'[Git].cps = <<>> /\ proc'[Git].base = 0
         /\ astray' = astray \cup {proc[Git].base + 1}
         /\ UNCHANGED <<notes, credited, contended, mixed, unseen>>
<1>1. Aborts /\ Running(Git) /\ Git \in Procs
  BY DEF MutateFails, StatsFail, Running, At, Procs
<1>2. proc' = [proc EXCEPT ![Git] = [Idle EXCEPT !.n = proc[Git].n]]
  BY <1>1 DEF Aborts, Ends
<1>3. QED
  BY <1>1, <1>2 DEF Aborts, Types, Idle, Rest

\* Of the collected, what post-commit carries over, and what it notes.
Found(f) == Attributed(log[proc[Git].base], Contents(proc[Git].base), f)
Named == Pathspecs(proc[Git].cps, log[proc[Git].base].initial)
Split(f, lines) == IF f \in Named THEN {x \in Found(f) : x[1] \in lines} ELSE {}
Noted ==
  UNION {Split(f, tree[proc[Git].base + 1][f] \ tree[proc[Git].base][f]) : f \in Files}

LEMMA CollectDoes ==
  ASSUME Shape, Types, Collect
  PROVE  LET c == proc[Git].base + 1
         IN  /\ At(Git, "collect") /\ UNCHANGED userVars /\ Rest(Git) /\ log' = log
             /\ proc'[Git].pc = "carry" /\ SameTask(Git) /\ proc'[Git].entries = proc[Git].entries
             /\ proc'[Git].cps = <<>> /\ proc'[Git].snap = disk
             /\ \A f \in Files : proc'[Git].carry[f] = Split(f, disk[f] \ tree[c][f])
             /\ \A b \in Commits \ {c} : notes'[b] = notes[b]
             /\ c \in Commits /\ notes'[c] = {Noted}
             /\ UNCHANGED <<credited, contended, mixed, astray, unseen>>
<1> DEFINE b == proc[Git].base
           c == b + 1
           carry == [f \in Files |-> Split(f, disk[f] \ tree[c][f])]
<1>1. Git \in Procs /\ proc[Git] \in ProcIn(written)
  BY ProcIs DEF Procs
<1>2. /\ At(Git, "collect") /\ UNCHANGED userVars /\ log' = log
      /\ UNCHANGED <<credited, contended, mixed, astray, unseen>>
      /\ notes' = [notes EXCEPT ![c] = {Noted}]
      /\ proc' = [proc EXCEPT ![Git].pc = "carry", ![Git].cps = <<>>, ![Git].carry = carry,
                              ![Git].snap = disk]
  <2> DEFINE paths == Pathspecs(proc[Git].cps, log[b].initial)
             va == [f \in Files |-> Attributed(log[b], Contents(b), f)]
             Part(f, lines) == IF f \in paths THEN {x \in va[f] : x[1] \in lines} ELSE {}
  <2>1. /\ At(Git, "collect") /\ UNCHANGED userVars /\ log' = log
        /\ UNCHANGED <<credited, contended, mixed, astray, unseen>>
        /\ notes' = [notes EXCEPT ![c] = {UNION {Part(f, tree[c][f] \ tree[b][f]) : f \in Files}}]
        /\ proc' = [proc EXCEPT ![Git].pc = "carry", ![Git].cps = <<>>,
             ![Git].carry = [f \in Files |-> Part(f, disk[f] \ tree[c][f])], ![Git].snap = disk]
    BY DEF Collect
  <2>2. \A f \in Files : \A s : Part(f, s) = Split(f, s)
    BY Zenon DEF Split, Named, Found
  <2> HIDE DEF Part
  <2>3. [f \in Files |-> Part(f, disk[f] \ tree[c][f])] = carry
    BY <2>2
  <2>4. UNION {Part(f, tree[c][f] \ tree[b][f]) : f \in Files} = Noted
    BY <2>2 DEF Noted
  <2> HIDE DEF carry
  <2>5. QED
    BY <2>1, <2>3, <2>4
<1>3. c \in Commits
  BY <1>2 DEF Shape, Running, At
<1> HIDE DEF carry
<1>4. /\ Rest(Git) /\ proc'[Git].pc = "carry" /\ SameTask(Git) /\ proc'[Git].entries = proc[Git].entries
      /\ proc'[Git].cps = <<>> /\ proc'[Git].snap = disk /\ proc'[Git].carry = carry
  BY <1>1, <1>2 DEF Types, ProcIn, Rest, SameTask
<1>5. \A f \in Files : carry[f] = Split(f, disk[f] \ tree[c][f])
  BY DEF carry
<1>6. notes'[c] = {Noted} /\ \A d \in Commits \ {c} : notes'[d] = notes[d]
  BY <1>2, <1>3 DEF Types, GhostTypes
<1>7. QED
  BY <1>2, <1>3, <1>4, <1>5, <1>6

LEMMA CarryDoes ==
  ASSUME Shape, Types, Carry
  PROVE  LET c == proc[Git].base + 1
         IN  /\ At(Git, "carry") /\ UNCHANGED userVars /\ UNCHANGED <<notes, ghosts>> /\ Rest(Git) /\ RestOfLogs(c)
             /\ proc'[Git].pc = "delete" /\ SameTask(Git) /\ proc'[Git].entries = proc[Git].entries
             /\ proc'[Git].cps = proc[Git].cps
             /\ proc'[Git].carry = proc[Git].carry /\ proc'[Git].snap = proc[Git].snap
             /\ c \in Commits /\ log'[c].cps = log[c].cps /\ log'[c].file = log[c].file
             /\ \/ proc[Git].carry = Empty /\ log'[c] = log[c]
                \/ log'[c].initial = proc[Git].carry /\ log'[c].snap = proc[Git].snap
<1> DEFINE c == proc[Git].base + 1
<1>1. Git \in Procs /\ proc[Git] \in ProcIn(written)
  BY ProcIs DEF Procs
<1>2. /\ At(Git, "carry") /\ UNCHANGED userVars /\ UNCHANGED <<notes, ghosts>>
      /\ proc' = [proc EXCEPT ![Git].pc = "delete"]
      /\ log' = IF proc[Git].carry = Empty THEN log
                ELSE [log EXCEPT ![c].dir = TRUE, ![c].initial = proc[Git].carry, ![c].snap = proc[Git].snap]
  BY DEF Carry
<1>3. c \in Commits
  BY <1>2 DEF Shape, Running, At
<1>4. log[c] \in LogIn(written)
  BY <1>3 DEF Types
<1>5. /\ Rest(Git) /\ proc'[Git].pc = "delete" /\ SameTask(Git) /\ proc'[Git].entries = proc[Git].entries
      /\ proc'[Git].cps = proc[Git].cps
      /\ proc'[Git].carry = proc[Git].carry /\ proc'[Git].snap = proc[Git].snap
  BY <1>1, <1>2 DEF Types, ProcIn, Rest, SameTask
<1>6. CASE proc[Git].carry = Empty
  BY <1>2, <1>3, <1>5, <1>6 DEF RestOfLogs
<1>7. CASE proc[Git].carry # Empty
  <2>1. log' = [log EXCEPT ![c].dir = TRUE, ![c].initial = proc[Git].carry, ![c].snap = proc[Git].snap]
    BY <1>2, <1>7
  <2>2. /\ RestOfLogs(c) /\ log'[c].cps = log[c].cps /\ log'[c].file = log[c].file
        /\ log'[c].initial = proc[Git].carry /\ log'[c].snap = proc[Git].snap
    BY <1>3, <1>4, <2>1 DEF Types, LogIn, RestOfLogs
  <2>3. QED
    BY <1>2, <1>3, <1>5, <2>2
<1>8. QED
  BY <1>6, <1>7

LEMMA DeleteDoes ==
  ASSUME Shape, Types, Delete
  PROVE  LET b == proc[Git].base
         IN  /\ At(Git, "delete") /\ UNCHANGED userVars /\ Rest(Git) /\ RestOfLogs(b) /\ log'[b] = NoLog
             /\ proc'[Git].pc = "off" /\ proc'[Git].entries = <<>> /\ proc'[Git].cps = <<>> /\ proc'[Git].base = 0
             /\ UNCHANGED <<notes, credited, contended, mixed, astray, unseen>>
<1>1. Git \in Procs /\ proc[Git].base \in Commits
  BY ProcIs DEF Procs
<1>2. QED
  BY <1>1 DEF Delete, Types, Idle, Rest, RestOfLogs

(***************************************************************************)
(* What is recorded fits the files, in every state                          *)
(***************************************************************************)
CarryFits(r, T, D, h) == \A f \in Files : Fits(h, f, r.snap[f], r.carry[f], T, D, h)
Land ==
  /\ Homes(tree, disk, head) /\ Lasting(tree, disk, head)
  /\ \A b \in 0..head : LogFits(b, log[b], tree, disk, head)
  /\ \A p \in Procs : ProcFits(proc[p], tree, disk, head)
  /\ At(Git, "carry") => CarryFits(proc[Git], tree, disk, head)

LEMMA NoneFit == ASSUME NEW b, NEW T, NEW D, NEW h PROVE ListFits(b, <<>>, T, D, h)
BY DEF ListFits, With

LEMMA ContentsFit ==
  ASSUME Land, NEW b \in 0..head PROVE ListFits(b, Contents(b), tree, disk, head)
BY NoneFit DEF Land, LogFits, Contents

\* What the new entry is compared with fits the base commit.
LEMMA PreviousFits ==
  ASSUME NEW p \in Procs, NEW l, NEW s, LogFits(proc[p].base, l, tree, disk, head),
         ListFits(proc[p].base, s, tree, disk, head),
         NEW w, s \in Seq(CheckpointIn(w)), NEW f \in Files
  PROVE  LET prev == Previous(p, l, s, f)
             t == tree[proc[p].base][f]
         IN  AttrLines(prev.attr) \subseteq prev.content \ t /\ t \cap disk[f] \subseteq prev.content
<1> DEFINE t == tree[proc[p].base][f]
           rest == l.snap[f] \ (t \cup AttrLines(l.initial[f]))
           more == IF proc[p].kind = "human" THEN {} ELSE rest \X {p}
<1>1. Previous(p, l, s, f) =
        IF With(s, f) # {} THEN s[LastOf(With(s, f))].entries[f]
        ELSE IF l.initial[f] = {} THEN [content |-> t, attr |-> {}, blank |-> TRUE]
        ELSE [content |-> l.snap[f], blank |-> FALSE, attr |-> l.initial[f] \cup more]
  BY Zenon DEF Previous
<1>2. AttrLines(more) \subseteq l.snap[f] \ t
  BY DEF AttrLines
<1> HIDE DEF more
<1>3. CASE With(s, f) # {}
  <2>1. LastOf(With(s, f)) \in With(s, f)
    BY <1>3, WithEntries
  <2>2. QED
    BY <1>1, <1>3, <2>1 DEF ListFits, Fits
<1>4. CASE With(s, f) = {} /\ l.initial[f] = {}
  BY <1>1, <1>4 DEF AttrLines
<1>5. CASE With(s, f) = {} /\ l.initial[f] # {}
  <2>1. Fits(proc[p].base, f, l.snap[f], l.initial[f], tree, disk, head)
    BY <1>5 DEF LogFits
  <2>2. AttrLines(l.initial[f] \cup more) \subseteq l.snap[f] \ t
    BY <1>2, <2>1 DEF Fits, AttrLines
  <2>3. Previous(p, l, s, f) = [content |-> l.snap[f], blank |-> FALSE, attr |-> l.initial[f] \cup more]
    BY <1>1, <1>5
  <2>4. t \cap disk[f] \subseteq l.snap[f]
    BY <2>1 DEF Fits
  <2>5. Previous(p, l, s, f).content = l.snap[f] /\ Previous(p, l, s, f).attr = l.initial[f] \cup more
    BY <2>3
  <2>6. QED
    BY <2>2, <2>4, <2>5
<1>6. QED
  BY <1>3, <1>4, <1>5

LEMMA EntryFits ==
  ASSUME NEW p \in Procs, proc[p].base \in 0..head, Homes(tree, disk, head), Lasting(tree, disk, head),
         NEW l, NEW s, LogFits(proc[p].base, l, tree, disk, head),
         ListFits(proc[p].base, s, tree, disk, head),
         NEW w, s \in Seq(CheckpointIn(w)), NEW f \in Files
  PROVE  LET e == Entry(p, l, s, f) IN Fits(proc[p].base, f, e.content, e.attr, tree, disk, head)
<1> DEFINE prev == Previous(p, l, s, f)
           t == tree[proc[p].base][f]
           new == IF proc[p].kind = "human" THEN {} ELSE (disk[f] \ prev.content) \X {p}
           kept == {x \in prev.attr : x[1] \in disk[f]}
<1>1. AttrLines(prev.attr) \subseteq prev.content \ t /\ t \cap disk[f] \subseteq prev.content
  BY PreviousFits
<1> HIDE DEF prev
<1>2. AttrLines(kept \cup new) \subseteq disk[f] \ t
  BY <1>1 DEF AttrLines
<1> HIDE DEF new, kept
<1>3. \A c \in 0..proc[p].base : disk[f] \cap tree[c][f] \subseteq t
  BY DEF Lasting
<1>4. \A k \in Files \ {f} : disk[f] \cap disk[k] = {} /\ \A c \in 0..head : disk[f] \cap tree[c][k] = {}
  BY DEF Homes
<1>5. Fits(proc[p].base, f, disk[f], kept \cup new, tree, disk, head)
  BY <1>2, <1>3, <1>4 DEF Fits
<1>6. Entry(p, l, s, f) = [content |-> disk[f], attr |-> kept \cup new,
                           blank |-> proc[p].kind = "human" /\ ~AITouched(s, l.initial, f)]
  BY Zenon DEF Entry, new, kept, prev
<1>7. QED
  BY <1>5, <1>6

\* A longer list.
LEMMA ListFitsMore ==
  ASSUME NEW b, NEW T, NEW D, NEW h, NEW w, NEW s \in Seq(CheckpointIn(w)), NEW c \in CheckpointIn(w),
         ListFits(b, s, T, D, h),
         \A f \in DOMAIN c.entries : Fits(b, f, c.entries[f].content, c.entries[f].attr, T, D, h)
  PROVE  ListFits(b, Append(s, c), T, D, h)
<1> DEFINE t == Append(s, c)
<1>1. t \in Seq(CheckpointIn(w)) /\ Longer(t, s, c)
  BY AppendLonger
<1> HIDE DEF t
<1>2. t[Len(s) + 1] = c
  BY <1>1 DEF Longer
<1>3. ASSUME NEW f \in Files, NEW i \in With(t, f)
      PROVE  Fits(b, f, t[i].entries[f].content, t[i].entries[f].attr, T, D, h)
  <2>1. \/ i \in With(s, f) /\ t[i] = s[i]
        \/ t[i] = c /\ f \in DOMAIN c.entries
    BY <1>1, <1>2, LongerWith
  <2>2. QED
    BY <2>1 DEF ListFits
<1>4. ListFits(b, t, T, D, h)
  BY <1>3 DEF ListFits
<1>5. QED
  BY <1>4 DEF t

\* A process goes on, and the files stay.
LEMMA LandProcess ==
  ASSUME Land, UNCHANGED userVars, NEW p \in Procs, Rest(p), ProcFits(proc'[p], tree, disk, head),
         \A b \in 0..head : LogFits(b, log'[b], tree, disk, head),
         proc'[p].pc = "carry" => p = Git /\ CarryFits(proc'[Git], tree, disk, head)
  PROVE  Land'
<1>1. tree' = tree /\ disk' = disk /\ head' = head /\ Git \in Procs
  BY DEF userVars, Procs
<1>2. \A q \in Procs : ProcFits(proc'[q], tree, disk, head)
  BY DEF Land, Rest
<1>3. At(Git, "carry")' => CarryFits(proc'[Git], tree, disk, head)
  BY <1>1 DEF Land, Rest, At
<1>4. QED
  BY <1>1, <1>2, <1>3 DEF Land

LEMMA LandProcs ==
  ASSUME Shape, Types, StrayInv, Land, NEW p \in Procs,
         Compute(p) \/ AppendRead(p) \/ Tear(p) \/ TearFails(p) \/ Fill(p)
  PROVE  Land'
<1> DEFINE b == proc[p].base
<1>1. /\ b \in 0..head /\ b \in Commits /\ proc[p] \in ProcIn(written) /\ 0..head \subseteq Commits
      /\ Contents(b) \in Seq(CheckpointIn(written)) /\ ProcFits(proc[p], tree, disk, head)
  BY ProcIs, ContentsType, WorkingLogAssumption DEF Shape, IsProc, Commits, Land
<1>2. ListFits(b, Contents(b), tree, disk, head) /\ LogFits(b, log[b], tree, disk, head)
  BY <1>1, ContentsFit DEF Land
<1>3. ASSUME NEW c \in 0..head, SameWords(c) PROVE LogFits(c, log'[c], tree, disk, head)
  BY <1>3 DEF SameWords, LogFits, Land
<1>4. ASSUME OverDoes(p) PROVE ProcFits(proc'[p], tree, disk, head) /\ proc'[p].pc # "carry"
  <2>1. ListFits(proc'[p].base, proc'[p].cps, tree, disk, head)
    BY <1>4, NoneFit DEF OverDoes
  <2>2. \A f \in DOMAIN proc'[p].entries :
          Fits(proc'[p].base, f, proc'[p].entries[f].content, proc'[p].entries[f].attr, tree, disk, head)
    <3>1. DOMAIN <<>> = {}
      OBVIOUS
    <3>2. CASE p = Git
      BY <1>1, <1>4, <3>2 DEF OverDoes, SameTask, ProcFits
    <3>3. CASE p # Git
      BY <1>4, <3>1, <3>3 DEF OverDoes
    <3>4. QED
      BY <3>2, <3>3
  <2>3. QED
    BY <1>4, <2>1, <2>2 DEF ProcFits, OverDoes
<1>5. CASE Compute(p)
  <2> DEFINE entries == Entries(p, log[b], Contents(b))
  <2>1. /\ UNCHANGED userVars /\ Rest(p) /\ RestOfLogs(b) /\ SameWords(b)
        /\ \/ OverDoes(p)
           \/ /\ proc'[p].pc = "append" /\ proc'[p].entries = entries /\ SameTask(p)
              /\ proc'[p].cps = proc[p].cps
    BY <1>5, ComputeDoes
  <2>2. \A c \in 0..head : LogFits(c, log'[c], tree, disk, head)
    BY <1>1, <1>3, <2>1 DEF RestOfLogs, SameWords
  <2>3. ASSUME proc'[p].entries = entries, SameTask(p), proc'[p].cps = proc[p].cps
        PROVE  ProcFits(proc'[p], tree, disk, head)
    <3>1. \A f \in DOMAIN entries :
            f \in proc[p].files /\ entries[f] = Entry(p, log[b], Contents(b), f)
      <4> DEFINE S == {f \in proc[p].files : HasEntry(p, log[b], Contents(b), f)}
      <4>1. entries = [f \in S |-> Entry(p, log[b], Contents(b), f)]
        BY DEF Entries
      <4>2. S \subseteq proc[p].files
        OBVIOUS
      <4> HIDE DEF S, entries
      <4>3. QED
        BY <4>1, <4>2
    <3>2. ASSUME NEW f \in Files
          PROVE  LET e == Entry(p, log[b], Contents(b), f) IN Fits(b, f, e.content, e.attr, tree, disk, head)
      BY <1>1, <1>2, EntryFits DEF Land
    <3>3. proc[p].files \subseteq Files
      BY <1>1 DEF ProcIn
    <3> HIDE DEF entries
    <3>4. \A f \in DOMAIN entries : Fits(b, f, entries[f].content, entries[f].attr, tree, disk, head)
      BY <3>1, <3>2, <3>3
    <3>5. QED
      BY <1>1, <2>3, <3>4 DEF ProcFits, SameTask
  <2> HIDE DEF entries
  <2>4. ProcFits(proc'[p], tree, disk, head) /\ proc'[p].pc # "carry"
    BY <1>4, <2>1, <2>3
  <2>5. QED
    BY <2>1, <2>2, <2>4, LandProcess
<1>6. CASE AppendRead(p)
  <2> DEFINE cp == [id |-> <<p, proc[p].n + 1>>, kind |-> proc[p].kind, entries |-> proc[p].entries]
  <2>1. /\ UNCHANGED userVars /\ Rest(p) /\ log' = log
        /\ proc'[p].pc = "tear" /\ SameTask(p) /\ proc'[p].entries = <<>>
        /\ proc'[p].cps = Append(Contents(b), cp)
    BY <1>6, AppendReadDoes
  <2>2. cp \in CheckpointIn(written) /\ cp.entries = proc[p].entries
    BY <1>1 DEF ProcIn, CheckpointIn
  <2> HIDE DEF cp
  <2>3. ListFits(b, Append(Contents(b), cp), tree, disk, head)
    BY <1>1, <1>2, <2>2, ListFitsMore DEF ProcFits
  <2>4. DOMAIN <<>> = {}
    OBVIOUS
  <2>5. ProcFits(proc'[p], tree, disk, head)
    BY <2>1, <2>3, <2>4 DEF ProcFits, SameTask
  <2>6. QED
    BY <2>1, <2>5, LandProcess DEF Land
<1>7. CASE Tear(p)
  <2>1. /\ UNCHANGED userVars /\ Rest(p) /\ RestOfLogs(b)
        /\ log'[b].cps = <<>> /\ log'[b].initial = log[b].initial /\ log'[b].snap = log[b].snap
        /\ proc'[p].pc = "fill" /\ SameTask(p)
        /\ proc'[p].cps = proc[p].cps /\ proc'[p].entries = proc[p].entries
    BY <1>7, TearDoes
  <2>2. LogFits(b, log'[b], tree, disk, head)
    BY <1>2, <2>1, NoneFit DEF LogFits
  <2>3. \A c \in 0..head : LogFits(c, log'[c], tree, disk, head)
    BY <1>1, <2>1, <2>2 DEF RestOfLogs, Land
  <2>4. ProcFits(proc'[p], tree, disk, head)
    BY <1>1, <2>1 DEF ProcFits, SameTask
  <2>5. QED
    BY <2>1, <2>3, <2>4, LandProcess
<1>8. CASE TearFails(p)
  <2>1. UNCHANGED userVars /\ log' = log /\ Rest(p) /\ OverDoes(p)
    BY <1>8, OverIs DEF TearFails
  <2>2. QED
    BY <1>4, <2>1, LandProcess DEF Land
<1>9. CASE Fill(p)
  <2>1. /\ UNCHANGED userVars /\ Rest(p) /\ RestOfLogs(b)
        /\ log'[b].initial = log[b].initial /\ log'[b].snap = log[b].snap
        /\ log'[b].cps = proc[p].cps \/ log'[b] = log[b]
        /\ \/ /\ proc'[p].pc = "collect" /\ SameTask(p)
              /\ proc'[p].cps = proc[p].cps /\ proc'[p].entries = proc[p].entries
           \/ OverDoes(p)
    BY <1>9, FillDoes
  <2>2. LogFits(b, log'[b], tree, disk, head)
    BY <1>1, <1>2, <2>1 DEF LogFits, ProcFits
  <2>3. \A c \in 0..head : LogFits(c, log'[c], tree, disk, head)
    BY <1>1, <2>1, <2>2 DEF RestOfLogs, Land
  <2>4. ProcFits(proc'[p], tree, disk, head) /\ proc'[p].pc # "carry"
    BY <1>1, <1>4, <2>1 DEF ProcFits, SameTask
  <2>5. QED
    BY <2>1, <2>3, <2>4, LandProcess
<1>10. QED
  BY <1>5, <1>6, <1>7, <1>8, <1>9

LEMMA LandPostCommit ==
  ASSUME Shape, Types, StrayInv, Land, Mutate \/ MutateFails \/ Collect \/ StatsFail \/ Carry \/ Delete
  PROVE  Land'
<1> DEFINE b == proc[Git].base
           c == b + 1
<1>0. Git \in Procs
  BY DEF Procs
<1>1. /\ Git \in Procs /\ b \in 0..head /\ b \in Commits /\ 0..head \subseteq Commits
      /\ proc[Git] \in ProcIn(written) /\ ProcFits(proc[Git], tree, disk, head)
  BY <1>0, ProcIs, WorkingLogAssumption DEF Shape, IsProc, Commits, Land
<1>2. Running(Git) => c = head
  BY DEF StrayInv, AboutHead
<1>3. ListFits(b, Contents(b), tree, disk, head)
  BY <1>1, ContentsFit
<1>4. DOMAIN <<>> = {}
  OBVIOUS
<1>5. ASSUME Mutate PROVE Land'
  <2>1. /\ UNCHANGED userVars /\ Rest(Git) /\ log' = log
        /\ proc'[Git].pc = "tear" /\ SameTask(Git) /\ proc'[Git].entries = proc[Git].entries
        /\ proc'[Git].cps = Contents(b)
    BY <1>5, MutateDoes
  <2>2. ProcFits(proc'[Git], tree, disk, head)
    BY <1>1, <1>3, <2>1 DEF ProcFits, SameTask
  <2>3. QED
    BY <1>1, <2>1, <2>2, LandProcess DEF Land
<1>6. ASSUME MutateFails \/ StatsFail PROVE Land'
  <2>1. /\ UNCHANGED userVars /\ Rest(Git) /\ log' = log
        /\ proc'[Git].pc = "off" /\ proc'[Git].entries = <<>> /\ proc'[Git].cps = <<>>
    BY <1>6, AbortsDoes
  <2>2. ProcFits(proc'[Git], tree, disk, head)
    BY <1>4, <2>1, NoneFit DEF ProcFits
  <2>3. QED
    BY <1>1, <2>1, <2>2, LandProcess DEF Land
<1>7. ASSUME Collect PROVE Land'
  <2>1. /\ UNCHANGED userVars /\ Rest(Git) /\ log' = log /\ At(Git, "collect")
        /\ proc'[Git].pc = "carry" /\ SameTask(Git) /\ proc'[Git].entries = proc[Git].entries
        /\ proc'[Git].cps = <<>> /\ proc'[Git].snap = disk
        /\ \A f \in Files : proc'[Git].carry[f] = Split(f, disk[f] \ tree[c][f])
    BY <1>7, CollectDoes
  <2>2. ProcFits(proc'[Git], tree, disk, head)
    BY <1>1, <2>1, NoneFit DEF ProcFits, SameTask
  <2>3. c = head /\ head \in Nat
    BY <1>2, <2>1, WorkingLogAssumption DEF Running, At, Shape, Commits
  <2>4. ASSUME NEW f \in Files PROVE Fits(head, f, disk[f], proc'[Git].carry[f], tree, disk, head)
    <3>1. AttrLines(Split(f, disk[f] \ tree[c][f])) \subseteq disk[f] \ tree[c][f]
      BY DEF Split, AttrLines
    <3>2. \A d \in 0..head : disk[f] \cap tree[d][f] \subseteq tree[head][f]
      BY <2>3 DEF Land, Lasting
    <3>3. \A k \in Files \ {f} : disk[f] \cap disk[k] = {} /\ \A d \in 0..head : disk[f] \cap tree[d][k] = {}
      BY DEF Land, Homes
    <3>4. QED
      BY <2>1, <2>3, <3>1, <3>2, <3>3 DEF Fits
  <2>5. CarryFits(proc'[Git], tree, disk, head)
    BY <2>1, <2>4 DEF CarryFits
  <2>6. QED
    BY <1>1, <2>1, <2>2, <2>5, LandProcess DEF Land
<1>8. ASSUME Carry PROVE Land'
  <2>1. /\ UNCHANGED userVars /\ Rest(Git) /\ RestOfLogs(c) /\ At(Git, "carry")
        /\ proc'[Git].pc = "delete" /\ SameTask(Git) /\ proc'[Git].entries = proc[Git].entries
        /\ proc'[Git].cps = proc[Git].cps
        /\ log'[c].cps = log[c].cps
        /\ \/ log'[c] = log[c]
           \/ log'[c].initial = proc[Git].carry /\ log'[c].snap = proc[Git].snap
    BY <1>8, CarryDoes
  <2>2. ProcFits(proc'[Git], tree, disk, head)
    BY <1>1, <2>1 DEF ProcFits, SameTask
  <2>3. c = head /\ head \in 0..head
    BY <1>2, <2>1, WorkingLogAssumption DEF Running, At, Shape, Commits
  <2>4. LogFits(head, log[head], tree, disk, head) /\ CarryFits(proc[Git], tree, disk, head)
    BY <2>1, <2>3 DEF Land
  <2>5. LogFits(head, log'[head], tree, disk, head)
    BY <2>1, <2>3, <2>4 DEF LogFits, CarryFits
  <2>6. \A d \in 0..head : LogFits(d, log'[d], tree, disk, head)
    BY <1>1, <2>1, <2>3, <2>5 DEF RestOfLogs, Land
  <2>7. QED
    BY <1>1, <2>1, <2>2, <2>6, LandProcess
<1>9. ASSUME Delete PROVE Land'
  <2>1. /\ UNCHANGED userVars /\ Rest(Git) /\ RestOfLogs(b) /\ log'[b] = NoLog
        /\ proc'[Git].pc = "off" /\ proc'[Git].entries = <<>> /\ proc'[Git].cps = <<>>
    BY <1>9, DeleteDoes
  <2>2. ProcFits(proc'[Git], tree, disk, head)
    BY <1>4, <2>1, NoneFit DEF ProcFits
  <2>3. LogFits(b, NoLog, tree, disk, head)
    BY NoneFit DEF LogFits, NoLog, Empty
  <2>4. \A d \in 0..head : LogFits(d, log'[d], tree, disk, head)
    BY <1>1, <2>1, <2>3 DEF RestOfLogs, Land
  <2>5. QED
    BY <1>1, <2>1, <2>2, <2>4, LandProcess
<1>10. QED
  BY <1>5, <1>6, <1>7, <1>8, <1>9

(***************************************************************************)
(* The logs by date: later commits have none, an agent that is overtaken     *)
(* marks the commits, and post-commit looks at its commit's files once.      *)
(***************************************************************************)
NothingYet == \A b \in Commits : b > head => log[b] = NoLog
Late ==
  \A g \in Agents : Running(g) =>
    \A c \in Commits : proc[g].base < c /\ c <= head => c \in contended
UnseenOnce ==
  \A c \in Commits : \A f \in Files : <<c, f>> \in unseen => c <= head /\ (At(Git, "compute") => c # head)
Calendar == NothingYet /\ Late /\ UnseenOnce
LandInv == Land /\ Calendar

\* A user's step: what is recorded stays, a checkpoint may start in HEAD's log.
UserStep ==
  /\ log' \in [Commits -> LogIn(written)] /\ proc' \in [Procs -> ProcIn(written)]
  /\ \A b \in Commits : SameWords(b) /\ RestOfLogs(head)
  /\ \A p \in Procs : \/ proc'[p] = proc[p]
                      \/ /\ ~Running(p) /\ proc'[p].pc = "compute" /\ proc'[p].base = head
                         /\ proc'[p].cps = <<>> /\ proc'[p].entries = <<>>
  /\ head' = head \/ (head' = head + 1 /\ head + 1 \in Commits /\ proc'[Git].pc = "compute")

LEMMA StartsStepOf ==
  ASSUME Shape, Types, NEW p \in Procs, ~Running(p), NEW kind \in {"human", "ai"},
         NEW files \in SUBSET Files, kind = "human" \/ p \in Agents, Starts(p, kind, files, head),
         head' = head \/ (head' = head + 1 /\ head + 1 \in Commits /\ p = Git)
  PROVE  UserStep
<1>1. log' \in [Commits -> LogIn(written)] /\ proc' \in [Procs -> ProcIn(written)]
  BY StartsTypes
<1>2. /\ Rest(p) /\ \A b \in Commits : SameWords(b)
      /\ proc'[p].pc = "compute" /\ proc'[p].base = head /\ proc'[p].cps = <<>> /\ proc'[p].entries = <<>>
      /\ RestOfLogs(head)
  BY StartsIs
<1>3. QED
  BY <1>1, <1>2 DEF UserStep, Rest

LEMMA UserSteps ==
  ASSUME Shape, Types, budget \in Budgets,
         \/ \E f \in Files : HumanEdit(f) \/ \E g \in Agents : PreTool(g, f)
         \/ \E g \in Agents : EditAndPostTool(g)
         \/ Commit
  PROVE  UserStep
<1>1. ASSUME NEW f \in Files, HumanEdit(f) PROVE UserStep
  <2>1. UNCHANGED <<log, proc, head>>
    BY <1>1 DEF HumanEdit
  <2>2. log \in [Commits -> LogIn(written)] /\ proc \in [Procs -> ProcIn(written)]
    BY DEF Types
  <2>3. \A b \in Commits : SameWords(b) /\ RestOfLogs(head)
    BY <2>1 DEF SameWords, RestOfLogs
  <2>4. QED
    BY <2>1, <2>2, <2>3 DEF UserStep
<1>2. ASSUME NEW f \in Files, NEW g \in Agents, PreTool(g, f) PROVE UserStep
  <2>1. g \in Procs /\ ~Running(g) /\ Starts(g, "human", {f}, head) /\ head' = head
    BY <1>2 DEF PreTool, InTool, Procs
  <2>2. QED
    BY <2>1, StartsStepOf
<1>3. ASSUME NEW g \in Agents, EditAndPostTool(g) PROVE UserStep
  <2>1. g \in Procs /\ ~Running(g) /\ Starts(g, "ai", {session[g].file}, head) /\ head' = head
    BY <1>3 DEF EditAndPostTool, Procs
  <2>2. session[g].file \in Files
    BY DEF Types, UserTypes
  <2>3. QED
    BY <2>1, <2>2, StartsStepOf
<1>4. ASSUME Commit PROVE UserStep
  <2>1. Git \in Procs /\ ~Running(Git) /\ Starts(Git, "human", Files, head) /\ head' = head + 1
    BY <1>4 DEF Commit, Procs
  <2>2. head + 1 \in Commits
    BY <1>4, WorkingLogAssumption DEF Commit, Shape, Commits
  <2>3. QED
    BY <2>1, <2>2, StartsStepOf
<1>5. QED
  BY <1>1, <1>2, <1>3, <1>4

LEMMA LandUser ==
  ASSUME Shape, Types, Land, NothingYet, budget \in Budgets, UserStep, [Next]_vars
  PROVE  Land'
<1>1. /\ Moved(tree, disk, head, written, tree', disk', head') /\ head \in Nat
      /\ \A c \in 0..head : \A f \in Files : tree[c][f] \subseteq written
  BY Moves
<1>2. 0..head \subseteq Commits /\ head \in Commits
  BY WorkingLogAssumption DEF Shape, Commits
<1>3. Homes(tree', disk', head') /\ Lasting(tree', disk', head')
  BY <1>1, LandKept DEF Land
<1>4. ASSUME NEW b \in 0..head PROVE LogFits(b, log'[b], tree', disk', head')
  <2>1. log'[b] \in LogIn(written) /\ SameWords(b)
    BY <1>2 DEF UserStep
  <2>2. LogFits(b, log'[b], tree, disk, head)
    BY <2>1 DEF SameWords, LogFits, Land
  <2>3. QED
    BY <1>1, <2>1, <2>2, ListsKept
<1>5. ASSUME NEW p \in Procs PROVE ProcFits(proc'[p], tree', disk', head')
  <2>1. proc'[p] \in ProcIn(written)
    BY DEF UserStep
  <2>2. proc'[p].base \in 0..head
    BY <1>1 DEF UserStep, Shape, IsProc
  <2>3. DOMAIN <<>> = {}
    OBVIOUS
  <2>4. ProcFits(proc'[p], tree, disk, head)
    BY <2>3, NoneFit DEF UserStep, ProcFits, Land
  <2> DEFINE r == proc'[p]
             b == r.base
  <2>5. b \in 0..head /\ r \in ProcIn(written) /\ r.base = b /\ ProcFits(r, tree, disk, head)
    BY <2>1, <2>2, <2>4
  <2> HIDE DEF r, b
  <2>6. \A q \in ProcIn(written) : q.base = b /\ ProcFits(q, tree, disk, head) => ProcFits(q, tree', disk', head')
    BY <1>1, <2>5, ListsKept
  <2>7. ProcFits(r, tree', disk', head')
    BY <2>5, <2>6
  <2>8. QED
    BY <2>7 DEF r
<1>6. \A b \in 0..head' : LogFits(b, log'[b], tree', disk', head')
  <2>1. CASE head' = head
    BY <1>4, <2>1
  <2>2. CASE head' = head + 1 /\ head + 1 \in Commits
    <3>1. log'[head + 1] = NoLog
      <4>1. head + 1 > head /\ head + 1 # head
        BY <1>1
      <4>2. QED
        BY <2>2, <4>1 DEF NothingYet, UserStep, RestOfLogs
    <3>2. LogFits(head + 1, NoLog, tree', disk', head')
      BY NoneFit DEF LogFits, NoLog, Empty
    <3>3. \A b \in 0..(head + 1) : b \in 0..head \/ b = head + 1
      BY <1>1
    <3>4. QED
      BY <1>4, <2>2, <3>1, <3>2, <3>3
  <2>3. QED
    BY <2>1, <2>2 DEF UserStep
<1>7. At(Git, "carry")' => CarryFits(proc'[Git], tree', disk', head')
  <2> SUFFICES ASSUME At(Git, "carry")' PROVE CarryFits(proc'[Git], tree', disk', head')
    OBVIOUS
  <2>0. Git \in Procs
    BY DEF Procs
  <2>1. head' = head /\ proc'[Git] = proc[Git]
    BY <2>0 DEF UserStep, At
  <2>2. CarryFits(proc[Git], tree, disk, head)
    BY <2>1 DEF Land, At
  <2>3. proc[Git] \in ProcIn(written) /\ \A f \in Files : proc[Git].snap[f] \subseteq written
    BY <2>0, ProcIs DEF ProcIn, FilesIn
  <2>4. head \in 0..head
    BY <1>1
  <2>5. QED
    BY <1>1, <2>1, <2>2, <2>3, <2>4, FitsKept DEF CarryFits
<1>8. QED
  BY <1>3, <1>5, <1>6, <1>7 DEF Land

LEMMA LandNext ==
  ASSUME Shape, Types, StrayInv, Land, NothingYet, budget \in Budgets, [Next]_vars
  PROVE  Land'
<1>1. CASE UNCHANGED vars
  BY <1>1 DEF vars, userVars, Land, At
<1>2. CASE Next
  BY <1>2, UserSteps, LandUser, LandProcs, LandPostCommit DEF Next
<1>3. QED
  BY <1>1, <1>2

(***************************************************************************)
(* The dates                                                                *)
(***************************************************************************)
\* A process goes on: its log, or post-commit its commit's, changes.
ProcStep(p) ==
  /\ UNCHANGED userVars /\ UNCHANGED contended /\ Rest(p) /\ Running(p)
  /\ proc'[p].pc # "compute" /\ (proc'[p].pc = "off" \/ proc'[p].base = proc[p].base)
  /\ \A b \in Commits : b > head => log'[b] = log[b]
  /\ \/ unseen' = unseen
     \/ p = Git /\ \A x \in unseen' \ unseen : x[1] = head

LEMMA ProcSteps ==
  ASSUME Shape, Types, StrayInv, NEW p \in Procs,
         Compute(p) \/ AppendRead(p) \/ Tear(p) \/ TearFails(p) \/ Fill(p)
  PROVE  ProcStep(p)
<1> DEFINE b == proc[p].base
<1>1. b \in 0..head /\ head \in Nat /\ b \in Commits
  BY WorkingLogAssumption DEF Shape, IsProc, Commits
<1>2. \A c \in Commits : c > head => c # b
  BY <1>1
<1>3. RestOfLogs(b) => \A c \in Commits : c > head => log'[c] = log[c]
  BY <1>2 DEF RestOfLogs
<1>4. OverDoes(p) => proc'[p].pc # "compute" /\ (proc'[p].pc = "off" \/ proc'[p].base = b)
  BY DEF OverDoes, SameTask
<1>5. CASE Compute(p)
  <2>1. /\ At(p, "compute") /\ UNCHANGED userVars /\ Rest(p) /\ RestOfLogs(b)
        /\ OverDoes(p) \/ (proc'[p].pc = "append" /\ SameTask(p))
        /\ unseen' = unseen \cup {b + 1} \X {f \in Files : PassedOver(p, log[b], Contents(b), f)}
        /\ contended' = contended
    BY <1>5, ComputeDoes
  <2>2. Running(p)
    BY <2>1 DEF Running, At
  <2>3. unseen' = unseen \/ (p = Git /\ \A x \in unseen' \ unseen : x[1] = head)
    <3>1. CASE p = Git
      <4>1. b + 1 = head
        BY <2>2, <3>1 DEF StrayInv, AboutHead
      <4>2. QED
        BY <2>1, <3>1, <4>1
    <3>2. CASE p # Git
      <4>1. \A f \in Files : ~PassedOver(p, log[b], Contents(b), f)
        BY <3>2 DEF PassedOver
      <4>2. QED
        BY <2>1, <4>1
    <3>3. QED
      BY <3>1, <3>2
  <2>4. QED
    BY <1>3, <1>4, <2>1, <2>2, <2>3 DEF ProcStep, SameTask
<1>6. CASE AppendRead(p)
  BY <1>6, AppendReadDoes DEF ProcStep, SameTask, Running, At
<1>7. CASE Tear(p)
  <2>1. /\ At(p, "tear") /\ UNCHANGED userVars /\ UNCHANGED <<notes, ghosts>> /\ Rest(p) /\ RestOfLogs(b)
        /\ proc'[p].pc = "fill" /\ SameTask(p)
    BY <1>7, TearDoes
  <2>2. QED
    BY <1>3, <2>1 DEF ProcStep, SameTask, Running, At, ghosts
<1>8. CASE TearFails(p)
  <2>1. /\ At(p, "tear") /\ UNCHANGED userVars /\ log' = log /\ Rest(p) /\ OverDoes(p)
        /\ UNCHANGED <<contended, unseen>>
    BY <1>8, OverIs DEF TearFails
  <2>2. QED
    BY <1>4, <2>1 DEF ProcStep, Running, At
<1>9. CASE Fill(p)
  <2>1. /\ At(p, "fill") /\ UNCHANGED userVars /\ Rest(p) /\ RestOfLogs(b)
        /\ (proc'[p].pc = "collect" /\ SameTask(p)) \/ OverDoes(p)
        /\ UNCHANGED <<contended, unseen>>
    BY <1>9, FillDoes
  <2>2. QED
    BY <1>3, <1>4, <2>1 DEF ProcStep, SameTask, Running, At
<1>10. QED
  BY <1>5, <1>6, <1>7, <1>8, <1>9

LEMMA PostCommitSteps ==
  ASSUME Shape, Types, StrayInv, Mutate \/ MutateFails \/ Collect \/ StatsFail \/ Carry \/ Delete
  PROVE  ProcStep(Git)
<1> DEFINE b == proc[Git].base
<1>0. Git \in Procs
  BY DEF Procs
<1>1. b \in 0..head /\ head \in Nat /\ b \in Commits
  BY <1>0, WorkingLogAssumption DEF Shape, IsProc, Commits
<1>2. Running(Git) => \A c \in Commits : c > head => c # b /\ c # b + 1
  BY <1>1 DEF StrayInv, AboutHead
<1>5. CASE Mutate
  BY <1>5, MutateDoes DEF ProcStep, SameTask, Running, At
<1>6. CASE MutateFails \/ StatsFail
  BY <1>6, AbortsDoes DEF ProcStep
<1>7. CASE Collect
  BY <1>7, CollectDoes DEF ProcStep, SameTask, Running, At
<1>8. CASE Carry
  <2>1. /\ At(Git, "carry") /\ UNCHANGED userVars /\ UNCHANGED <<notes, ghosts>> /\ Rest(Git)
        /\ RestOfLogs(b + 1) /\ proc'[Git].pc = "delete" /\ SameTask(Git)
    BY <1>8, CarryDoes
  <2>2. Running(Git) /\ \A c \in Commits : c > head => log'[c] = log[c]
    BY <1>2, <2>1 DEF Running, At, RestOfLogs
  <2>3. QED
    BY <2>1, <2>2 DEF ProcStep, SameTask, ghosts
<1>9. CASE Delete
  <2>1. /\ At(Git, "delete") /\ UNCHANGED userVars /\ Rest(Git) /\ RestOfLogs(b) /\ proc'[Git].pc = "off"
        /\ UNCHANGED <<contended, unseen>>
    BY <1>9, DeleteDoes
  <2>2. Running(Git) /\ \A c \in Commits : c > head => log'[c] = log[c]
    BY <1>2, <2>1 DEF Running, At, RestOfLogs
  <2>3. QED
    BY <2>1, <2>2 DEF ProcStep
<1>10. QED
  BY <1>5, <1>6, <1>7, <1>8, <1>9

LEMMA CalendarProcess ==
  ASSUME Shape, Types, Calendar, NEW p \in Procs, ProcStep(p) PROVE Calendar'
<1>1. head' = head /\ head \in Nat /\ contended' = contended
  BY WorkingLogAssumption DEF ProcStep, userVars, Shape, Commits
<1>2. NothingYet'
  BY <1>1 DEF Calendar, NothingYet, ProcStep
<1>3. Late'
  <2> SUFFICES ASSUME NEW g \in Agents, Running(g)', NEW c \in Commits, proc'[g].base < c, c <= head
               PROVE  c \in contended
    BY <1>1 DEF Late
  <2>1. g \in Procs
    BY DEF Procs
  <2>2. Running(g) /\ proc'[g].base = proc[g].base
    BY <2>1 DEF ProcStep, Rest, Running, At
  <2>3. QED
    BY <2>2 DEF Calendar, Late
<1>4. UnseenOnce'
  <2> SUFFICES ASSUME NEW c \in Commits, NEW f \in Files, <<c, f>> \in unseen'
               PROVE  c <= head /\ (At(Git, "compute")' => c # head)
    BY <1>1 DEF UnseenOnce
  <2>0. Git \in Procs
    BY DEF Procs
  <2>1. At(Git, "compute")' => At(Git, "compute") /\ p # Git
    BY <2>0 DEF ProcStep, Rest, At
  <2>2. CASE <<c, f>> \in unseen
    BY <2>1, <2>2 DEF Calendar, UnseenOnce
  <2>3. CASE <<c, f>> \notin unseen
    <3>1. p = Git /\ c = head
      BY <2>3 DEF ProcStep
    <3>2. QED
      BY <1>1, <2>1, <3>1
  <2>4. QED
    BY <2>2, <2>3
<1>5. QED
  BY <1>2, <1>3, <1>4 DEF Calendar

LEMMA CalendarUser ==
  ASSUME Shape, Types, Calendar, budget \in Budgets,
         \/ \E f \in Files : HumanEdit(f) \/ \E g \in Agents : PreTool(g, f)
         \/ \E g \in Agents : EditAndPostTool(g)
         \/ Commit
  PROVE  Calendar'
<1>1. UserStep
  BY UserSteps
<1>2. head \in Nat /\ head \in Commits /\ Git \in Procs
  BY WorkingLogAssumption DEF Shape, Commits, Procs
<1>3. /\ contended \subseteq contended' /\ unseen' = unseen
      /\ \/ head' = head /\ (At(Git, "compute")' => At(Git, "compute"))
         \/ head' = head + 1 /\ \A g \in Agents : Running(g) => head + 1 \in contended'
  <2>1. ASSUME NEW f \in Files, HumanEdit(f) PROVE <1>3!:
    BY <2>1 DEF HumanEdit, At
  <2>2. ASSUME NEW f \in Files, NEW g \in Agents, PreTool(g, f) PROVE <1>3!:
    <3>1. g \in Procs /\ g # Git /\ Rest(g)
      BY <2>2, WorkingLogAssumption, StartsIs DEF PreTool, Procs
    <3>2. QED
      BY <1>2, <2>2, <3>1 DEF PreTool, Rest, At
  <2>3. ASSUME NEW g \in Agents, EditAndPostTool(g) PROVE <1>3!:
    <3>1. g \in Procs /\ g # Git /\ Rest(g)
      BY <2>3, WorkingLogAssumption, StartsIs DEF EditAndPostTool, Procs
    <3>2. QED
      BY <1>2, <2>3, <3>1 DEF EditAndPostTool, Rest, At
  <2>4. ASSUME Commit PROVE <1>3!:
    <3>1. \A g \in Agents : Running(g) => InTool(g)
      BY DEF InTool
    <3>2. QED
      BY <2>4, <3>1 DEF Commit
  <2>5. QED
    BY <2>1, <2>2, <2>3, <2>4
<1>4. NothingYet'
  <2> SUFFICES ASSUME NEW b \in Commits, b > head' PROVE log'[b] = NoLog
    BY DEF NothingYet
  <2>1. b > head /\ b # head /\ b \in Nat
    BY <1>2, <1>3 DEF Commits
  <2>2. QED
    BY <1>1, <2>1 DEF UserStep, RestOfLogs, Calendar, NothingYet
<1>5. Late'
  <2> SUFFICES ASSUME NEW g \in Agents, Running(g)', NEW c \in Commits, proc'[g].base < c, c <= head'
               PROVE  c \in contended'
    BY DEF Late
  <2>1. g \in Procs /\ c \in Nat
    BY DEF Procs, Commits
  <2>2. CASE proc'[g] = proc[g]
    <3>1. Running(g)
      BY <2>2 DEF Running, At
    <3>2. c <= head \/ (c = head + 1 /\ head' = head + 1)
      BY <1>2, <1>3, <2>1
    <3>3. QED
      BY <1>3, <2>2, <3>1, <3>2 DEF Calendar, Late
  <2>3. CASE ~Running(g) /\ proc'[g].base = head /\ proc'[g] # proc[g]
    <3>1. head' = head
      <4>1. CASE Commit
        <5>1. Rest(Git)
          BY <4>1, <1>2, StartsIs DEF Commit
        <5>2. QED
          BY <2>1, <2>3, <5>1, WorkingLogAssumption DEF Rest
      <4>2. CASE ~Commit
        BY <4>2 DEF HumanEdit, PreTool, EditAndPostTool
      <4>3. QED
        BY <4>1, <4>2
    <3>2. QED
      BY <1>2, <2>1, <2>3, <3>1
  <2>4. QED
    BY <1>1, <2>1, <2>2, <2>3 DEF UserStep
<1>6. UnseenOnce'
  <2> SUFFICES ASSUME NEW c \in Commits, NEW f \in Files, <<c, f>> \in unseen
               PROVE  c <= head' /\ (At(Git, "compute")' => c # head')
    BY <1>3 DEF UnseenOnce
  <2>1. c \in Nat /\ c <= head /\ (At(Git, "compute") => c # head)
    BY DEF Calendar, UnseenOnce, Commits
  <2>2. QED
    BY <1>2, <1>3, <2>1
<1>7. QED
  BY <1>4, <1>5, <1>6 DEF Calendar

LEMMA LandInvNext ==
  ASSUME Shape, Types, StrayInv, LandInv, budget \in Budgets, [Next]_vars PROVE LandInv'
<1>1. Land'
  BY LandNext DEF LandInv, Calendar
<1>2. CASE UNCHANGED vars
  BY <1>1, <1>2 DEF vars, userVars, ghosts, LandInv, Calendar, NothingYet, Late, UnseenOnce, Running, At
<1>3. CASE Next
  <2>1. Git \in Procs
    BY DEF Procs
  <2>2. Calendar'
    BY <1>3, <2>1, CalendarUser, CalendarProcess, ProcSteps, PostCommitSteps DEF Next, LandInv
  <2>3. QED
    BY <1>1, <2>2 DEF LandInv
<1>4. QED
  BY <1>2, <1>3

LEMMA LandInit == Init => LandInv
<1> SUFFICES ASSUME Init PROVE LandInv
  OBVIOUS
<1>1. head = 0 /\ 0 \in Commits /\ Git \in Procs /\ \A b \in 0..head : b = 0
  BY WorkingLogAssumption DEF Init, Commits, Procs
<1>2. /\ \A b \in Commits : log[b] = NoLog /\ \A f \in Files : tree[b][f] = {}
      /\ \A f \in Files : disk[f] = {}
      /\ \A p \in Procs : proc[p].pc = "off" /\ proc[p].cps = <<>> /\ proc[p].entries = <<>>
  BY DEF Init, Idle, Empty
<1>3. Homes(tree, disk, head) /\ Lasting(tree, disk, head)
  BY <1>1, <1>2 DEF Homes, Lasting
<1>4. \A b \in 0..head : LogFits(b, log[b], tree, disk, head)
  <2>1. LogFits(0, NoLog, tree, disk, head)
    BY NoneFit DEF LogFits, NoLog, Empty
  <2>2. QED
    BY <1>1, <1>2, <2>1
<1>5. \A p \in Procs : ProcFits(proc[p], tree, disk, head)
  <2>1. DOMAIN <<>> = {}
    OBVIOUS
  <2>2. QED
    BY <1>2, <2>1, NoneFit DEF ProcFits
<1>6. Calendar
  <2>1. \A g \in Agents : g \in Procs
    BY DEF Procs
  <2>2. QED
    BY <1>2, <2>1 DEF Calendar, NothingYet, Late, UnseenOnce, Running, At, Init
<1>7. QED
  BY <1>1, <1>2, <1>3, <1>4, <1>5, <1>6 DEF LandInv, Land, At

(***************************************************************************)
(* What a list of checkpoints must say, besides fitting the files           *)
(***************************************************************************)
\* The attributions A name the writers, but for the mixed lines M; of the lines L,
\* they have those of C, the credited.
Right(A, M) == \A x \in A : x[1].by = x[2] \/ x[1] \in M
Knows(A, L, C, M) == \A l \in L : l \in C /\ l \notin M => <<l, l.by>> \in A

\* List s over INITIAL of log l and the base commit t, in the work tree D; F are the
\* files that were followed.
Sound(s, l, t, D, C, M, F) ==
  \A f \in Files :
    /\ Tidy(s, l.initial, f)
    /\ f \in F => /\ Right(StateBy(s, l, t[f], f).attr, M)
                  /\ Knows(StateBy(s, l, t[f], f).attr, D[f] \ t[f], C, M)

LEMMA SoundKept ==
  ASSUME NEW s, NEW l, NEW k, k.initial = l.initial, k.snap = l.snap, NEW t, NEW D, NEW E,
         NEW C, NEW B, NEW M, NEW N, M \subseteq N, NEW F, NEW G, G \subseteq F,
         Sound(s, l, t, D, C, M, F),
         \A f \in Files : \A x \in E[f] \ t[f] : x \in B /\ x \notin N => x \in D[f] /\ x \in C
  PROVE  Sound(s, k, t, E, B, N, G)
<1>1. \A f \in Files : StateBy(s, k, t[f], f) = StateBy(s, l, t[f], f)
  BY DEF StateBy
<1> SUFFICES ASSUME NEW f \in Files
             PROVE  /\ Tidy(s, k.initial, f)
                    /\ f \in G => /\ Right(StateBy(s, l, t[f], f).attr, N)
                                  /\ Knows(StateBy(s, l, t[f], f).attr, E[f] \ t[f], B, N)
  BY <1>1 DEF Sound
<1>2. Tidy(s, k.initial, f)
  BY DEF Sound
<1>3. ASSUME f \in G PROVE Right(StateBy(s, l, t[f], f).attr, N)
  BY <1>3 DEF Sound, Right
<1>4. ASSUME f \in G PROVE Knows(StateBy(s, l, t[f], f).attr, E[f] \ t[f], B, N)
  <2>1. Knows(StateBy(s, l, t[f], f).attr, D[f] \ t[f], C, M)
    BY <1>4 DEF Sound
  <2>2. QED
    BY <2>1 DEF Knows
<1>5. QED
  BY <1>2, <1>3, <1>4

\* The last checkpoint of a list tells the state of its files.
LEMMA LastTells ==
  ASSUME NEW w, NEW s \in Seq(CheckpointIn(w)), s # <<>>, NEW f \in Files, f \in DOMAIN s[Len(s)].entries,
         NEW l, NEW t
  PROVE  StateBy(s, l, t, f).attr = s[Len(s)].entries[f].attr /\ Len(s) \in With(s, f)
<1>1. Len(s) \in Nat /\ DOMAIN s = 1..Len(s) /\ Len(s) # 0
  OBVIOUS
<1>2. Len(s) \in With(s, f)
  BY <1>1 DEF With
<1>3. LastOf(With(s, f)) = Len(s)
  <2>1. /\ LastOf(With(s, f)) \in With(s, f) /\ With(s, f) \subseteq 1..Len(s)
        /\ \A j \in With(s, f) : j <= LastOf(With(s, f))
    BY <1>2, WithEntries
  <2>2. QED
    BY <1>1, <1>2, <2>1
<1>4. QED
  BY <1>2, <1>3 DEF StateBy

\* What the last checkpoint claims may be credited.
LEMMA SoundCredits ==
  ASSUME NEW w, NEW s \in Seq(CheckpointIn(w)), s # <<>>, NEW b, NEW T, NEW h, NEW D, ListFits(b, s, T, D, h),
         NEW l, NEW t, NEW C, NEW M, NEW F \in SUBSET Files, Sound(s, l, t, D, C, M, F),
         NEW p, NEW K,
         \A x \in K : \E f \in DOMAIN s[Len(s)].entries \cap Files : <<x, p>> \in s[Len(s)].entries[f].attr
  PROVE  Sound(s, l, t, D, C \cup K, M, F)
<1>1. ASSUME NEW f \in F, NEW x \in D[f] \ t[f], x \in K, x \notin M
      PROVE  <<x, x.by>> \in StateBy(s, l, t[f], f).attr
  <2>1. PICK k \in DOMAIN s[Len(s)].entries \cap Files : <<x, p>> \in s[Len(s)].entries[k].attr
    BY <1>1
  <2>2. StateBy(s, l, t[k], k).attr = s[Len(s)].entries[k].attr /\ Len(s) \in With(s, k)
    BY <2>1, LastTells
  <2>3. k = f
    <3>1. Fits(b, k, s[Len(s)].entries[k].content, s[Len(s)].entries[k].attr, T, D, h)
      BY <2>1, <2>2 DEF ListFits
    <3>2. x \in s[Len(s)].entries[k].content
      BY <2>1, <3>1 DEF Fits, AttrLines
    <3>3. QED
      BY <1>1, <3>1, <3>2 DEF Fits
  <2>4. Right(StateBy(s, l, t[f], f).attr, M)
    BY DEF Sound
  <2>5. <<x, p>> \in StateBy(s, l, t[f], f).attr
    BY <2>1, <2>2, <2>3
  <2>6. x.by = p
    BY <1>1, <2>4, <2>5 DEF Right
  <2>7. QED
    BY <2>5, <2>6
<1>2. ASSUME NEW f \in F PROVE Knows(StateBy(s, l, t[f], f).attr, D[f] \ t[f], C \cup K, M)
  <2>1. Knows(StateBy(s, l, t[f], f).attr, D[f] \ t[f], C, M)
    BY DEF Sound
  <2>2. QED
    BY <1>1, <2>1 DEF Knows
<1>3. QED
  BY <1>2 DEF Sound

\* A new commit's log, which has INITIAL only.
LEMMA SoundAtFirst ==
  ASSUME NEW l, NEW t, NEW D, NEW C, NEW M, NEW F,
         \A f \in F : Right(l.initial[f], M) /\ Knows(l.initial[f], D[f] \ t[f], C, M)
  PROVE  Sound(<<>>, l, t, D, C, M, F)
<1>1. \A f \in Files : With(<<>>, f) = {}
  BY DEF With
<1>2. \A f \in Files : Tidy(<<>>, l.initial, f)
  BY <1>1 DEF Tidy
<1>3. \A f \in Files : StateBy(<<>>, l, t[f], f).attr = l.initial[f]
  BY <1>1 DEF StateBy
<1>4. QED
  BY <1>2, <1>3 DEF Sound

(***************************************************************************)
(* The quiet world: no commit so far had a contended log, nor went astray   *)
(***************************************************************************)
Free == \A p \in Procs : ~Running(p)
Undisturbed == Quiet(head)
\* Then one process runs at a time, and it finds the log whole.
Solo ==
  /\ \A p, q \in Procs : Running(p) /\ Running(q) => p = q
  /\ \A g \in Agents : Running(g) => proc[g].base = head
  /\ Running(Git) => proc[Git].base + 1 = head
  /\ \A p \in Procs : Running(p) /\ ~At(p, "fill") => Whole(proc[p].base)
  /\ \A p \in Procs : At(p, "fill") => p \in log[proc[p].base].open
  /\ Free => Whole(head)

LEMMA SoloHolds == ASSUME AloneInv, StrayInv, Undisturbed PROVE Solo
<1>1. head \in Nat /\ 0..head \subseteq Commits /\ head \in 0..head /\ Git \in Procs /\ Agents \subseteq Procs
  BY WorkingLogAssumption DEF AloneInv, Shape, Commits, Procs
<1>2. \A b \in 0..head : b \notin contended /\ Kept(b)
  BY <1>1 DEF Undisturbed, Quiet, AloneInv
<1>3. \A g \in Agents : Running(g) => proc[g].base = head
  BY <1>1, <1>2 DEF StrayInv, Overtaken, AloneInv, Shape, IsProc
<1>4. Running(Git) => proc[Git].base + 1 = head
  BY DEF StrayInv, AboutHead
<1>5. ASSUME NEW p \in Procs, Running(p) PROVE head \in Busy(p)
  <2>1. CASE p = Git
    BY <1>4, <1>5, <2>1 DEF Busy
  <2>2. CASE p # Git
    BY <1>3, <1>5, <2>2 DEF Busy, Procs
  <2>3. QED
    BY <2>1, <2>2
<1>6. ASSUME NEW p \in Procs, NEW q \in Procs, Running(p), Running(q) PROVE p = q
  BY <1>1, <1>2, <1>5, <1>6 DEF AloneInv, Exclusive
<1>7. \A p \in Procs : proc[p].base \in 0..head
  BY DEF AloneInv, Shape, IsProc
<1>8. ASSUME NEW p \in Procs, Running(p), ~At(p, "fill") PROVE Whole(proc[p].base)
  <2>1. \A q \in Procs : ~At(q, "fill")
    BY <1>6, <1>8 DEF Running, At
  <2>2. QED
    BY <1>2, <1>7, <2>1 DEF Kept
<1>9. ASSUME NEW p \in Procs, At(p, "fill") PROVE p \in log[proc[p].base].open
  BY <1>2, <1>7, <1>9 DEF Kept
<1>10. Free => Whole(head)
  BY <1>1, <1>2 DEF Kept, Free, Running, At
<1>11. QED
  BY <1>3, <1>4, <1>6, <1>8, <1>9, <1>10 DEF Solo

\* The list that process p is about to leave behind.
Pending(p) == [id |-> <<p, proc[p].n + 1>>, kind |-> proc[p].kind, entries |-> proc[p].entries]
Now(p) ==
  IF At(p, "append") THEN Append(log[proc[p].base].cps, Pending(p))
  ELSE IF Writing(p) THEN proc[p].cps
  ELSE log[proc[p].base].cps

\* The files that no post-commit passed over while they were untracked.
Trail == {f \in Files : Followed(head, f)}

\* What an agent must have recorded of its file: before it edits, all that people
\* wrote; after that, all but what it wrote itself.  Agents P are computing.
PreparedFor(s, l, t, D, M, file, mine) ==
  /\ BasedBy(s, l, file)
  /\ \A x \in D[file] \ StateBy(s, l, t[file], file).content : x \in M \/ x.by \in mine
Prepared(s, l, t, D, M, ses, P) ==
  \A g \in Agents :
    /\ ses[g].phase = "pre" /\ g \notin P => PreparedFor(s, l, t, D, M, ses[g].file, {})
    /\ ses[g].phase = "out" /\ g \in P => PreparedFor(s, l, t, D, M, ses[g].file, {g})
Computing == {g \in Agents : At(g, "compute")}

Ready(s) ==
  /\ Sound(s, log[head], tree[head], disk, credited, mixed, Trail)
  /\ Prepared(s, log[head], tree[head], disk, mixed, session, Computing)

\* Post-commit's checkpoint saw the files that AI touched, or passed over files that
\* are as they were committed, or untracked.
Seen(s, l, b, T, D, U) ==
  \A f \in Files :
    /\ <<b + 1, f>> \notin U /\ AITouched(s, l.initial, f) => StateBy(s, l, T[b][f], f).content = D[f]
    /\ <<b + 1, f>> \in U /\ T[b + 1][f] # {} => D[f] = T[b + 1][f]

Hooks ==
  /\ Running(Git) => \A g \in Agents : session[g].phase = "out"
  /\ \A g \in Agents : At(g, "compute") =>
       proc[g].files = {session[g].file} /\ (proc[g].kind = "human" <=> session[g].phase = "pre")
  /\ At(Git, "compute") => proc[Git].files = Files /\ proc[Git].kind = "human"
Dirs == \A p \in Procs : Running(p) => log[proc[p].base].dir
NewLog ==
  Running(Git) =>
    /\ log[head].cps = <<>>
    /\ ~At(Git, "delete") => log[head].initial = Empty
    /\ At(Git, "delete") => log[head].initial = proc[Git].carry
    /\ \A f \in Files : tree[head][f] \ tree[head - 1][f] \subseteq disk[f]
Listed == At(Git, "collect") => proc[Git].cps = log[proc[Git].base].cps
Collecting == Running(Git) /\ proc[Git].pc \notin {"carry", "delete"}
GitReady ==
  Collecting =>
    LET b == proc[Git].base
    IN  /\ Sound(Now(Git), log[b], tree[b], disk, credited, mixed, Trail)
        /\ ~At(Git, "compute") => Seen(Now(Git), log[b], b, tree, disk, unseen)
Carried ==
  At(Git, "carry") \/ At(Git, "delete") =>
    \A f \in Trail : Right(proc[Git].carry[f], mixed)
                     /\ Knows(proc[Git].carry[f], disk[f] \ tree[head][f], credited, mixed)
Calm ==
  /\ Hooks /\ Dirs /\ NewLog /\ Listed /\ GitReady /\ Carried
  /\ Free => Ready(log[head].cps)
  /\ \A g \in Agents : Running(g) => Ready(Now(g))
CalmInv == Undisturbed => Calm

(***************************************************************************)
(* A new checkpoint                                                         *)
(***************************************************************************)
LEMMA NowType == ASSUME Types, NEW p \in Procs PROVE Now(p) \in Seq(CheckpointIn(written))
<1>1. proc[p] \in ProcIn(written) /\ log[proc[p].base] \in LogIn(written)
  BY ProcIs
<1>2. Pending(p) \in CheckpointIn(written)
  BY <1>1 DEF Pending, ProcIn, CheckpointIn
<1>3. log[proc[p].base].cps \in Seq(CheckpointIn(written)) /\ proc[p].cps \in Seq(CheckpointIn(written))
  BY <1>1 DEF LogIn, ProcIn
<1> HIDE DEF Pending
<1>4. Append(log[proc[p].base].cps, Pending(p)) \in Seq(CheckpointIn(written))
  BY <1>2, <1>3
<1>5. QED
  BY <1>3, <1>4 DEF Now

\* The entry of a checkpoint that compares with the recorded state.
LEMMA EntryIs ==
  ASSUME NEW p, NEW f, NEW l, NEW s, NEW t, t = tree[proc[p].base][f],
         proc[p].kind = "human" \/ BasedBy(s, l, f)
  PROVE  LET S == StateBy(s, l, t, f)
             e == Entry(p, l, s, f)
         IN  /\ e.content = disk[f]
             /\ e.blank <=> proc[p].kind = "human" /\ ~AITouched(s, l.initial, f)
             /\ \A x : x \in e.attr <=>
                  \/ x \in S.attr /\ x[1] \in disk[f]
                  \/ proc[p].kind # "human" /\ x \in (disk[f] \ S.content) \X {p}
             /\ HasEntry(p, l, s, f) <=>
                  /\ p = Git => AITouched(s, l.initial, f) /\ InStatus(s, f)
                  /\ disk[f] # S.content \/ (With(s, f) = {} /\ l.initial[f] # {})
<1> DEFINE prev == Previous(p, l, s, f)
           new == IF proc[p].kind = "human" THEN {} ELSE (disk[f] \ prev.content) \X {p}
           kept == {x \in prev.attr : x[1] \in disk[f]}
           S == StateBy(s, l, t, f)
<1>1. prev.content = S.content /\ prev.attr = S.attr
  BY PreviousIs
<1>2. Entry(p, l, s, f) = [content |-> disk[f], attr |-> kept \cup new,
                           blank |-> proc[p].kind = "human" /\ ~AITouched(s, l.initial, f)]
  BY Zenon DEF Entry
<1>3. HasEntry(p, l, s, f) <=>
        /\ p = Git => AITouched(s, l.initial, f) /\ InStatus(s, f)
        /\ disk[f] # prev.content \/ (With(s, f) = {} /\ l.initial[f] # {})
  BY Zenon DEF HasEntry
<1> HIDE DEF prev, S
<1>4. \A x : x \in kept \cup new <=>
               \/ x \in S.attr /\ x[1] \in disk[f]
               \/ proc[p].kind # "human" /\ x \in (disk[f] \ S.content) \X {p}
  BY <1>1
<1> HIDE DEF kept, new
<1>5. /\ Entry(p, l, s, f).content = disk[f] /\ Entry(p, l, s, f).attr = kept \cup new
      /\ Entry(p, l, s, f).blank = (proc[p].kind = "human" /\ ~AITouched(s, l.initial, f))
  <2> DEFINE bl == proc[p].kind = "human" /\ ~AITouched(s, l.initial, f)
  <2>1. Entry(p, l, s, f) = [content |-> disk[f], attr |-> kept \cup new, blank |-> bl]
    BY <1>2
  <2> HIDE DEF bl
  <2>2. /\ Entry(p, l, s, f).content = disk[f] /\ Entry(p, l, s, f).attr = kept \cup new
        /\ Entry(p, l, s, f).blank = bl
    BY <2>1
  <2>3. QED
    BY <2>2 DEF bl
<1>6. QED
  BY <1>1, <1>3, <1>4, <1>5 DEF S

LEMMA StateMore ==
  ASSUME NEW w, NEW s \in Seq(CheckpointIn(w)), NEW c, NEW t \in Seq(CheckpointIn(w)), Longer(t, s, c),
         NEW f \in Files, NEW l, NEW x
  PROVE  /\ f \in DOMAIN c.entries => /\ StateBy(t, l, x, f).content = c.entries[f].content
                                      /\ StateBy(t, l, x, f).attr = c.entries[f].attr
                                      /\ BasedBy(t, l, f)
         /\ f \notin DOMAIN c.entries => /\ StateBy(t, l, x, f) = StateBy(s, l, x, f)
                                         /\ BasedBy(t, l, f) <=> BasedBy(s, l, f)
<1>1. CASE f \in DOMAIN c.entries
  <2>1. LastOf(With(t, f)) = Len(s) + 1 /\ With(t, f) # {} /\ t[Len(s) + 1] = c
    BY <1>1, LongerWith DEF Longer
  <2>2. QED
    BY <1>1, <2>1 DEF StateBy, BasedBy
<1>2. CASE f \notin DOMAIN c.entries
  <2>1. With(t, f) = With(s, f) /\ \A i \in With(s, f) : t[i] = s[i]
    BY <1>2, LongerWith
  <2>2. With(s, f) # {} => LastOf(With(s, f)) \in With(s, f)
    BY WithEntries
  <2>3. QED
    BY <1>2, <2>1, <2>2 DEF StateBy, BasedBy
<1>3. QED
  BY <1>1, <1>2

(***************************************************************************)
(* What was prepared stays so, and a new checkpoint is sound                *)
(***************************************************************************)
LEMMA PreparedKept ==
  ASSUME NEW s, NEW l, NEW k, k.initial = l.initial, k.snap = l.snap, NEW t, NEW D, NEW E, NEW M, NEW N,
         M \subseteq N, NEW ses, NEW new, NEW P, NEW Q, Prepared(s, l, t, D, M, ses, P),
         \A g \in Agents :
           /\ new[g].phase = "pre" /\ g \notin Q =>
                /\ ses[g].phase = "pre" /\ g \notin P /\ ses[g].file = new[g].file
                /\ \A x \in E[new[g].file] : x \in D[new[g].file] \/ x \in N
           /\ new[g].phase = "out" /\ g \in Q =>
                /\ (ses[g].phase = "pre" /\ g \notin P) \/ (ses[g].phase = "out" /\ g \in P)
                /\ ses[g].file = new[g].file
                /\ \A x \in E[new[g].file] : x \in D[new[g].file] \/ x \in N \/ x.by = g
  PROVE  Prepared(s, k, t, E, N, new, Q)
<1>1. \A f, x : StateBy(s, k, x, f) = StateBy(s, l, x, f) /\ (BasedBy(s, k, f) <=> BasedBy(s, l, f))
  BY DEF StateBy, BasedBy
<1> SUFFICES ASSUME NEW g \in Agents
             PROVE  /\ new[g].phase = "pre" /\ g \notin Q => PreparedFor(s, l, t, E, N, new[g].file, {})
                    /\ new[g].phase = "out" /\ g \in Q => PreparedFor(s, l, t, E, N, new[g].file, {g})
  BY <1>1 DEF Prepared, PreparedFor
<1>2. ASSUME new[g].phase = "pre", g \notin Q PROVE PreparedFor(s, l, t, E, N, new[g].file, {})
  <2>1. PreparedFor(s, l, t, D, M, new[g].file, {})
    BY <1>2 DEF Prepared
  <2>2. QED
    BY <1>2, <2>1 DEF PreparedFor
<1>3. ASSUME new[g].phase = "out", g \in Q PROVE PreparedFor(s, l, t, E, N, new[g].file, {g})
  <2>1. PreparedFor(s, l, t, D, M, new[g].file, {}) \/ PreparedFor(s, l, t, D, M, new[g].file, {g})
    BY <1>3 DEF Prepared
  <2>2. QED
    BY <1>3, <2>1 DEF PreparedFor
<1>4. QED
  BY <1>2, <1>3

\* A file whose recorded state has attributions was touched by AI.
LEMMA AttrTouched ==
  ASSUME NEW w, NEW s \in Seq(CheckpointIn(w)), NEW l, NEW t, NEW f \in Files, StateBy(s, l, t, f).attr # {}
  PROVE  AITouched(s, l.initial, f)
<1>1. With(s, f) # {} => LastOf(With(s, f)) \in With(s, f)
  BY WithEntries
<1>2. QED
  BY <1>1 DEF StateBy, AITouched

\* The list after process p has looked at its files: s, or s and a checkpoint of
\* what it found.
Looked(n, s, p, l) ==
  \/ n = s /\ Entries(p, l, s) = <<>>
  \/ \E c : Longer(n, s, c) /\ c.kind = proc[p].kind /\ c.entries = Entries(p, l, s)

\* What it says of each file then.
LEMMA LookedIs ==
  ASSUME Types, NEW p \in Procs, NEW l \in LogIn(written), NEW s \in Seq(CheckpointIn(written)),
         NEW n \in Seq(CheckpointIn(written)), Looked(n, s, p, l),
         NEW f \in Files, NEW t, t = tree[proc[p].base][f],
         f \in proc[p].files => (proc[p].kind = "human" \/ BasedBy(s, l, f)),
         Tidy(s, l.initial, f)
  PROVE  /\ Tidy(n, l.initial, f)
         /\ \/ /\ f \in proc[p].files /\ HasEntry(p, l, s, f)
               /\ StateBy(n, l, t, f).content = disk[f] /\ BasedBy(n, l, f)
               /\ \A x : x \in StateBy(n, l, t, f).attr <=>
                    \/ x \in StateBy(s, l, t, f).attr /\ x[1] \in disk[f]
                    \/ proc[p].kind # "human" /\ x \in (disk[f] \ StateBy(s, l, t, f).content) \X {p}
            \/ /\ ~(f \in proc[p].files /\ HasEntry(p, l, s, f))
               /\ StateBy(n, l, t, f) = StateBy(s, l, t, f)
               /\ BasedBy(n, l, f) <=> BasedBy(s, l, f)
               /\ AITouched(n, l.initial, f) => AITouched(s, l.initial, f)
<1> DEFINE entries == Entries(p, l, s)
<1>1. /\ \A h : h \in DOMAIN entries <=> h \in proc[p].files /\ HasEntry(p, l, s, h)
      /\ \A h \in proc[p].files : HasEntry(p, l, s, h) => entries[h] = Entry(p, l, s, h)
  <2> DEFINE S == {h \in proc[p].files : HasEntry(p, l, s, h)}
  <2>1. entries = [h \in S |-> Entry(p, l, s, h)]
    BY DEF Entries
  <2>2. \A h : h \in S <=> h \in proc[p].files /\ HasEntry(p, l, s, h)
    OBVIOUS
  <2> HIDE DEF S, entries
  <2>3. DOMAIN entries = S /\ \A h \in S : entries[h] = Entry(p, l, s, h)
    BY <2>1
  <2>4. QED
    BY <2>2, <2>3
<1> HIDE DEF entries
<1>2. CASE n = s /\ entries = <<>>
  <2>1. DOMAIN entries = {}
    <3>1. DOMAIN <<>> = {}
      OBVIOUS
    <3>2. QED
      BY <1>2, <3>1
  <2>2. ~(f \in proc[p].files /\ HasEntry(p, l, s, f))
    BY <1>1, <2>1
  <2>3. QED
    BY <1>2, <2>2
<1>3. CASE \E c : Longer(n, s, c) /\ c.kind = proc[p].kind /\ c.entries = entries
  <2>1. PICK c : Longer(n, s, c) /\ c.kind = proc[p].kind /\ c.entries = entries
    BY <1>3
  <2>2. f \in DOMAIN c.entries <=> f \in proc[p].files /\ HasEntry(p, l, s, f)
    BY <1>1, <2>1
  <2>3. /\ f \in DOMAIN c.entries => /\ StateBy(n, l, t, f).content = c.entries[f].content
                                     /\ StateBy(n, l, t, f).attr = c.entries[f].attr
                                     /\ BasedBy(n, l, f)
        /\ f \notin DOMAIN c.entries => /\ StateBy(n, l, t, f) = StateBy(s, l, t, f)
                                        /\ BasedBy(n, l, f) <=> BasedBy(s, l, f)
    BY <2>1, StateMore
  <2>4. AITouched(n, l.initial, f) =>
          AITouched(s, l.initial, f) \/ f \in DOMAIN c.entries
    BY <2>1, TouchedMore
  <2>5. CASE f \in DOMAIN c.entries
    <3> DEFINE e == Entry(p, l, s, f)
    <3>1. c.entries[f] = e /\ f \in proc[p].files /\ HasEntry(p, l, s, f)
      BY <1>1, <2>1, <2>2, <2>5
    <3>2. /\ e.content = disk[f]
          /\ e.blank <=> proc[p].kind = "human" /\ ~AITouched(s, l.initial, f)
          /\ \A x : x \in e.attr <=>
               \/ x \in StateBy(s, l, t, f).attr /\ x[1] \in disk[f]
               \/ proc[p].kind # "human" /\ x \in (disk[f] \ StateBy(s, l, t, f).content) \X {p}
      <4>1. proc[p].kind = "human" \/ BasedBy(s, l, f)
        BY <3>1
      <4>2. QED
        BY <4>1, EntryIs
    <3> HIDE DEF e
    <3>3. proc[p].kind = "human" /\ e.attr # {} => AITouched(s, l.initial, f)
      <4>1. proc[p].kind = "human" /\ e.attr # {} => StateBy(s, l, t, f).attr # {}
        BY <3>2
      <4>2. QED
        BY <4>1, AttrTouched
    <3>4. Tidy(n, l.initial, f)
      <4>1. /\ c.entries[f].blank <=> c.kind = "human" /\ ~AITouched(s, l.initial, f)
            /\ c.kind = "human" /\ c.entries[f].attr # {} => AITouched(s, l.initial, f)
        BY <2>1, <3>1, <3>2, <3>3
      <4>2. QED
        BY <2>1, <4>1, TidyMore
    <3>5. /\ StateBy(n, l, t, f).content = disk[f] /\ BasedBy(n, l, f)
          /\ \A x : x \in StateBy(n, l, t, f).attr <=>
               \/ x \in StateBy(s, l, t, f).attr /\ x[1] \in disk[f]
               \/ proc[p].kind # "human" /\ x \in (disk[f] \ StateBy(s, l, t, f).content) \X {p}
      BY <2>3, <2>5, <3>1, <3>2
    <3>6. QED
      BY <3>1, <3>4, <3>5
  <2>6. CASE f \notin DOMAIN c.entries
    <3>1. Tidy(n, l.initial, f)
      BY <2>1, <2>6, TidyMore
    <3>2. /\ ~(f \in proc[p].files /\ HasEntry(p, l, s, f))
          /\ StateBy(n, l, t, f) = StateBy(s, l, t, f)
          /\ BasedBy(n, l, f) <=> BasedBy(s, l, f)
          /\ AITouched(n, l.initial, f) => AITouched(s, l.initial, f)
      BY <2>2, <2>3, <2>4, <2>6
    <3>3. QED
      BY <3>1, <3>2
  <2>7. QED
    BY <2>5, <2>6
<1>4. QED
  BY <1>2, <1>3 DEF Looked, entries

\* The list is as sound as it was, where agents' files were prepared.
LEMMA LookedSound ==
  ASSUME Types, NEW p \in Procs, NEW l \in LogIn(written), NEW s \in Seq(CheckpointIn(written)),
         NEW n \in Seq(CheckpointIn(written)), Looked(n, s, p, l),
         NEW t, t = tree[proc[p].base], NEW C, NEW M, NEW F, Sound(s, l, t, disk, C, M, F),
         \A f \in proc[p].files : proc[p].kind = "human" \/ PreparedFor(s, l, t, disk, M, f, {p})
  PROVE  Sound(n, l, t, disk, C, M, F)
<1> SUFFICES ASSUME NEW f \in Files
             PROVE  /\ Tidy(n, l.initial, f)
                    /\ f \in F => /\ Right(StateBy(n, l, t[f], f).attr, M)
                                  /\ Knows(StateBy(n, l, t[f], f).attr, disk[f] \ t[f], C, M)
  BY DEF Sound
<1> DEFINE A == StateBy(s, l, t[f], f).attr
           K == StateBy(s, l, t[f], f).content
           B == StateBy(n, l, t[f], f).attr
<1>1. Tidy(s, l.initial, f) /\ (f \in F => Right(A, M) /\ Knows(A, disk[f] \ t[f], C, M))
  BY DEF Sound
<1>2. f \in proc[p].files => proc[p].kind = "human"
        \/ (BasedBy(s, l, f) /\ \A x \in disk[f] \ K : x \in M \/ x.by = p)
  BY DEF PreparedFor
<1>3. t[f] = tree[proc[p].base][f]
  OBVIOUS
<1>4. /\ Tidy(n, l.initial, f)
      /\ \/ /\ f \in proc[p].files
            /\ \A x : x \in B <=>
                 \/ x \in A /\ x[1] \in disk[f]
                 \/ proc[p].kind # "human" /\ x \in (disk[f] \ K) \X {p}
         \/ B = A
  <2>1. f \in proc[p].files => (proc[p].kind = "human" \/ BasedBy(s, l, f))
    BY <1>2
  <2>2. QED
    BY <1>1, <1>3, <2>1, LookedIs
<1> HIDE DEF A, B, K
<1>5. ASSUME f \in F PROVE Right(B, M) /\ Knows(B, disk[f] \ t[f], C, M)
  <2>1. CASE B = A
    BY <1>1, <1>5, <2>1
  <2>2. CASE /\ f \in proc[p].files
             /\ \A x : x \in B <=>
                  \/ x \in A /\ x[1] \in disk[f]
                  \/ proc[p].kind # "human" /\ x \in (disk[f] \ K) \X {p}
    <3>1. Right(B, M)
      <4> SUFFICES ASSUME NEW x \in B PROVE x[1].by = x[2] \/ x[1] \in M
        BY DEF Right
      <4>1. CASE x \in A
        BY <1>1, <1>5, <4>1 DEF Right
      <4>2. CASE proc[p].kind # "human" /\ x \in (disk[f] \ K) \X {p}
        BY <1>2, <2>2, <4>2
      <4>3. QED
        BY <2>2, <4>1, <4>2
    <3>2. Knows(B, disk[f] \ t[f], C, M)
      <4> SUFFICES ASSUME NEW x \in disk[f] \ t[f], x \in C, x \notin M PROVE <<x, x.by>> \in B
        BY DEF Knows
      <4>1. <<x, x.by>> \in A
        BY <1>1, <1>5 DEF Knows
      <4>2. <<x, x.by>>[1] = x
        OBVIOUS
      <4>3. QED
        BY <2>2, <4>1, <4>2
    <3>3. QED
      BY <3>1, <3>2
  <2>3. QED
    BY <1>4, <2>1, <2>2
<1>6. QED
  BY <1>4, <1>5 DEF B

\* An agent's process has looked at its file, and others do not compute.
LEMMA LookedPrepared ==
  ASSUME Types, NEW p \in Agents, NEW l \in LogIn(written), NEW s \in Seq(CheckpointIn(written)),
         NEW n \in Seq(CheckpointIn(written)), Looked(n, s, p, l),
         NEW t, t = tree[proc[p].base], NEW M, NEW C, NEW F, Sound(s, l, t, disk, C, M, F),
         NEW P, p \in P, \A g \in Agents : g \in P => g = p,
         Prepared(s, l, t, disk, M, session, P),
         proc[p].files = {session[p].file}, proc[p].kind = "human" <=> session[p].phase = "pre"
  PROVE  Prepared(n, l, t, disk, M, session, {})
<1>0. p \in Procs /\ p # Git /\ \A g \in Agents : session[g].phase \in {"out", "pre"} /\ session[g].file \in Files
  BY WorkingLogAssumption DEF Procs, Types, UserTypes
<1>1. proc[p].kind = "human" \/ BasedBy(s, l, session[p].file)
  BY <1>0 DEF Prepared, PreparedFor
<1> SUFFICES ASSUME NEW g \in Agents, session[g].phase = "pre"
             PROVE  PreparedFor(n, l, t, disk, M, session[g].file, {})
  BY DEF Prepared
<1> DEFINE f == session[g].file
<1>2. f \in Files /\ Tidy(s, l.initial, f) /\ t[f] = tree[proc[p].base][f]
  BY <1>0 DEF Sound
<1>3. f \in proc[p].files => (proc[p].kind = "human" \/ BasedBy(s, l, f))
  BY <1>1
<1>4. \/ StateBy(n, l, t[f], f).content = disk[f] /\ BasedBy(n, l, f)
      \/ /\ ~(f \in proc[p].files /\ HasEntry(p, l, s, f))
         /\ StateBy(n, l, t[f], f) = StateBy(s, l, t[f], f)
         /\ BasedBy(n, l, f) <=> BasedBy(s, l, f)
  BY <1>0, <1>2, <1>3, LookedIs
<1>5. CASE StateBy(n, l, t[f], f).content = disk[f] /\ BasedBy(n, l, f)
  BY <1>5 DEF PreparedFor
<1>6. CASE /\ ~(f \in proc[p].files /\ HasEntry(p, l, s, f))
           /\ StateBy(n, l, t[f], f) = StateBy(s, l, t[f], f)
           /\ BasedBy(n, l, f) <=> BasedBy(s, l, f)
  <2>1. CASE g = p
    <3>1. ~HasEntry(p, l, s, f)
      BY <1>6, <2>1
    <3>2. HasEntry(p, l, s, f) <=>
            /\ p = Git => AITouched(s, l.initial, f) /\ InStatus(s, f)
            /\ disk[f] # StateBy(s, l, t[f], f).content \/ (With(s, f) = {} /\ l.initial[f] # {})
      BY <1>2, <2>1, EntryIs
    <3>3. disk[f] = StateBy(s, l, t[f], f).content /\ BasedBy(s, l, f)
      BY <1>0, <3>1, <3>2 DEF BasedBy
    <3>4. QED
      BY <1>6, <3>3 DEF PreparedFor
  <2>2. CASE g # p
    <3>1. PreparedFor(s, l, t, disk, M, f, {})
      BY <2>2 DEF Prepared
    <3>2. QED
      BY <1>6, <3>1 DEF PreparedFor
  <2>3. QED
    BY <2>1, <2>2
<1>7. QED
  BY <1>4, <1>5, <1>6

(***************************************************************************)
(* A process rewrites its log                                               *)
(***************************************************************************)
Rewrites(p) == AppendRead(p) \/ Tear(p) \/ Fill(p) \/ (p = Git /\ Mutate)

\* The log has, or will have, the list that it had.
LEMMA ListStays ==
  ASSUME Shape, Types, Solo, NEW p \in Procs, Rewrites(p)
  PROVE  LET b == proc[p].base
         IN  /\ Running(p) /\ ~At(p, "compute") /\ Rest(p) /\ RestOfLogs(b)
             /\ UNCHANGED userVars /\ UNCHANGED <<notes, contended, mixed, astray, unseen>>
             /\ log'[b].initial = log[b].initial /\ log'[b].snap = log[b].snap /\ log'[b].dir = log[b].dir
             /\ \/ /\ proc'[p].pc \in {"tear", "fill", "mutate", "collect"} /\ proc'[p].base = b
                   /\ Now(p)' = Now(p)
                   /\ proc'[p].pc = "collect" => proc'[p].cps = log'[b].cps
                \/ p # Git /\ proc'[p].pc = "off" /\ log'[b].cps = Now(p)
<1> DEFINE b == proc[p].base
<1>1. b \in Commits
  BY ProcIs
<1>2. CASE AppendRead(p)
  <2>1. /\ At(p, "append") /\ UNCHANGED userVars /\ Rest(p) /\ log' = log
        /\ proc'[p].pc = "tear" /\ SameTask(p) /\ proc'[p].cps = Append(Contents(b), Pending(p))
        /\ UNCHANGED <<notes, contended, mixed, astray, unseen>>
    BY <1>2, AppendReadDoes DEF Pending
  <2>2. Contents(b) = log[b].cps
    BY <2>1 DEF Solo, Whole, Contents, Running, At
  <2>3. Now(p)' = proc'[p].cps /\ Now(p) = Append(log[b].cps, Pending(p))
    BY <2>1 DEF Now, At, Writing
  <2>4. QED
    BY <2>1, <2>2, <2>3 DEF Running, At, SameTask, RestOfLogs
<1>3. CASE Tear(p)
  <2>1. /\ At(p, "tear") /\ UNCHANGED userVars /\ UNCHANGED <<notes, ghosts>> /\ Rest(p) /\ RestOfLogs(b)
        /\ log'[b].initial = log[b].initial /\ log'[b].snap = log[b].snap
        /\ log'[b].dir = log[b].dir
        /\ proc'[p].pc = "fill" /\ SameTask(p) /\ proc'[p].cps = proc[p].cps
    BY <1>3, TearDoes
  <2>2. Now(p)' = proc'[p].cps /\ Now(p) = proc[p].cps
    BY <2>1 DEF Now, At, Writing
  <2>3. QED
    BY <2>1, <2>2 DEF Running, At, SameTask, ghosts
<1>4. CASE Fill(p)
  <2>1. /\ At(p, "fill") /\ UNCHANGED userVars /\ Rest(p) /\ RestOfLogs(b)
        /\ log'[b].initial = log[b].initial /\ log'[b].snap = log[b].snap /\ log'[b].dir = log[b].dir
        /\ \/ p \in log[b].open /\ log'[b].cps = proc[p].cps
           \/ p \notin log[b].open /\ log'[b] = log[b]
        /\ \/ proc'[p].pc = "collect" /\ SameTask(p) /\ proc'[p].cps = proc[p].cps
           \/ OverDoes(p)
        /\ UNCHANGED <<notes, contended, mixed, astray, unseen>>
    BY <1>4, FillDoes
  <2>2. log'[b].cps = proc[p].cps /\ Now(p) = proc[p].cps
    BY <2>1 DEF Solo, Now, At, Writing
  <2>3. proc'[p].pc \in {"collect", "mutate"} /\ proc'[p].base = b => Now(p)' = log'[b].cps
    BY DEF Now, At, Writing
  <2>4. \/ proc'[p].pc = "collect" /\ proc'[p].base = b /\ proc'[p].cps = proc[p].cps
        \/ proc'[p].pc = "mutate" /\ proc'[p].base = b
        \/ p # Git /\ proc'[p].pc = "off"
    BY <2>1 DEF OverDoes, SameTask
  <2>5. QED
    BY <2>1, <2>2, <2>3, <2>4 DEF Running, At
<1>5. CASE p = Git /\ Mutate
  <2>1. /\ At(p, "mutate") /\ UNCHANGED userVars /\ Rest(p) /\ log' = log
        /\ proc'[p].pc = "tear" /\ SameTask(p) /\ proc'[p].cps = Contents(b)
        /\ UNCHANGED <<notes, contended, mixed, astray, unseen>>
    BY <1>5, MutateDoes
  <2>2. Contents(b) = log[b].cps
    BY <2>1 DEF Solo, Whole, Contents, Running, At
  <2>3. Now(p)' = proc'[p].cps /\ Now(p) = log[b].cps
    BY <2>1 DEF Now, At, Writing
  <2>4. QED
    BY <2>1, <2>2, <2>3 DEF Running, At, SameTask, RestOfLogs
<1>6. QED
  BY <1>2, <1>3, <1>4, <1>5 DEF Rewrites

\* What is credited then, its last checkpoint claims.
LEMMA Credits ==
  ASSUME Shape, Types, NEW p \in Procs, Rewrites(p)
  PROVE  \/ credited' = credited
         \/ /\ At(p, "fill") /\ Now(p) # <<>>
            /\ \E K : /\ credited' = credited \cup K
                      /\ \A x \in K : \E f \in DOMAIN Now(p)[Len(Now(p))].entries \cap Files :
                                        <<x, p>> \in Now(p)[Len(Now(p))].entries[f].attr
<1>1. CASE ~Fill(p)
  BY <1>1, AppendReadDoes, TearDoes, MutateDoes DEF Rewrites, ghosts
<1>2. CASE Fill(p)
  <2> DEFINE s == proc[p].cps
             cp == s[Len(s)]
             claims == UNION {{x[1] : x \in {y \in cp.entries[f].attr : y[2] = p}} : f \in DOMAIN cp.entries}
  <2>1. /\ At(p, "fill")
        /\ credited' = credited \/ (proc[p].next # "collect" /\ credited' = credited \cup claims)
    BY <1>2, FillDoes
  <2>2. Now(p) = s
    BY <2>1 DEF Now, At, Writing
  <2>3. proc[p].next # "collect" => s # <<>>
    BY <2>1 DEF Shape, IsProc, At
  <2>4. ASSUME s # <<>>, NEW x \in claims PROVE \E f \in DOMAIN cp.entries \cap Files : <<x, p>> \in cp.entries[f].attr
    <3>1. s \in Seq(CheckpointIn(written))
      BY ProcIs DEF ProcIn
    <3>2. Len(s) \in 1..Len(s) /\ cp \in CheckpointIn(written)
      BY <2>4, <3>1
    <3>3. cp.entries \in EntriesIn(written)
      BY <3>2 DEF CheckpointIn
    <3> HIDE DEF cp, s
    <3>4. PICK f \in DOMAIN cp.entries : x \in {y[1] : y \in {y \in cp.entries[f].attr : y[2] = p}}
      BY <2>4, Zenon
    <3>5. PICK y \in cp.entries[f].attr : y[2] = p /\ x = y[1]
      BY <3>4
    <3>6. f \in Files /\ cp.entries[f] \in EntryIn(written)
      <4>1. PICK S \in SUBSET Files : cp.entries \in [S -> EntryIn(written)]
        BY <3>3, EntriesAre
      <4>2. QED
        BY <4>1
    <3>7. y = <<x, p>>
      BY <3>5, <3>6 DEF EntryIn
    <3>8. QED
      BY <3>5, <3>6, <3>7
  <2> HIDE DEF claims, s
  <2>5. QED
    BY <2>1, <2>2, <2>3, <2>4
<1>3. QED
  BY <1>1, <1>2

LEMMA SoundStays ==
  ASSUME Shape, Types, Land, Solo, NEW p \in Procs, Rewrites(p), NEW F \in SUBSET Files, NEW t,
         Sound(Now(p), log[proc[p].base], t, disk, credited, mixed, F)
  PROVE  Sound(Now(p), log'[proc[p].base], t, disk, credited', mixed, F)
<1> DEFINE b == proc[p].base
           s == Now(p)
<1>1. s \in Seq(CheckpointIn(written))
  BY NowType
<1>2. log'[b].initial = log[b].initial /\ log'[b].snap = log[b].snap
  BY ListStays
<1>3. Sound(s, log[b], t, disk, credited', mixed, F)
  <2>1. CASE credited' = credited
    BY <2>1
  <2>2. CASE /\ At(p, "fill") /\ s # <<>>
             /\ \E K : /\ credited' = credited \cup K
                       /\ \A x \in K : \E f \in DOMAIN s[Len(s)].entries \cap Files :
                                         <<x, p>> \in s[Len(s)].entries[f].attr
    <3>1. PICK K : /\ credited' = credited \cup K
                   /\ \A x \in K : \E f \in DOMAIN s[Len(s)].entries \cap Files :
                                     <<x, p>> \in s[Len(s)].entries[f].attr
      BY <2>2
    <3>2. ListFits(b, s, tree, disk, head)
      BY <2>2 DEF Land, ProcFits, Now, At, Writing
    <3> HIDE DEF s
    <3>3. Sound(s, log[b], t, disk, credited \cup K, mixed, F)
      BY <1>1, <2>2, <3>1, <3>2, SoundCredits DEF s
    <3>4. QED
      BY <3>1, <3>3
  <2>3. QED
    BY <2>1, <2>2, Credits
<1> HIDE DEF s, b
<1>4. \A f \in Files : \A x \in disk[f] \ t[f] : x \in credited' /\ x \notin mixed => x \in disk[f] /\ x \in credited'
  OBVIOUS
<1>5. Sound(s, log'[b], t, disk, credited', mixed, F)
  BY <1>2, <1>3, <1>4, SoundKept
<1>6. QED
  BY <1>5 DEF s, b

(***************************************************************************)
(* The steps of an agent's process, and of post-commit's up to the note      *)
(***************************************************************************)
\* An agent's process was the only one, and leaves list n, or is about to.
LEMMA CalmAfterAgent ==
  ASSUME Shape, Solo, NEW p \in Agents, Running(p), Rest(p), UNCHANGED userVars, UNCHANGED <<mixed, unseen>>,
         proc'[p].pc # "compute", log'[head].dir, NEW n,
         \/ proc'[p].pc = "off" /\ log'[head].cps = n
         \/ proc'[p].pc # "off" /\ proc'[p].base = head /\ Now(p)' = n,
         Sound(n, log'[head], tree[head], disk, credited', mixed, Trail),
         Prepared(n, log'[head], tree[head], disk, mixed, session, {})
  PROVE  Calm'
<1>1. p \in Procs /\ p # Git /\ Git \in Procs /\ Agents \subseteq Procs
  BY WorkingLogAssumption DEF Procs
<1>2. \A q \in Procs \ {p} : ~Running(q) /\ ~Running(q)' /\ ~At(q, "compute")'
  BY <1>1 DEF Solo, Rest, Running, At
<1>3. /\ head' = head /\ tree' = tree /\ disk' = disk /\ session' = session /\ mixed' = mixed
      /\ Trail' = Trail
  BY DEF userVars, Trail, Followed
<1>4. ~Running(Git)' /\ \A g \in Agents : ~At(g, "compute")'
  BY <1>1, <1>2 DEF At
<1>5. Computing' = {}
  BY <1>4 DEF Computing
<1>6. Ready(n)'
  <2>1. Sound(n, log'[head'], tree'[head'], disk', credited', mixed', Trail')
    BY <1>3
  <2>2. Prepared(n, log'[head'], tree'[head'], disk', mixed', session', Computing')
    BY <1>3, <1>5
  <2>3. QED
    BY <2>1, <2>2 DEF Ready
<1>7. Hooks'
  <2>1. ~At(Git, "compute")'
    BY <1>4 DEF Running, At
  <2>2. QED
    BY <1>4, <2>1 DEF Hooks
<1>8. Dirs'
  <2>1. Running(p)' => log'[proc'[p].base].dir
    BY DEF Running, At
  <2>2. QED
    BY <1>1, <1>2, <2>1 DEF Dirs
<1>9. NewLog' /\ Listed' /\ GitReady' /\ Carried'
  BY <1>4 DEF NewLog, Listed, GitReady, Collecting, Carried, Running, At
<1>10. Free' => Ready(log[head].cps)'
  <2>1. Free' => proc'[p].pc = "off"
    BY <1>1 DEF Free, Running, At
  <2>2. Free' => log'[head'].cps = n
    BY <1>3, <2>1
  <2>3. QED
    BY <1>6, <2>2 DEF Ready
<1>11. ASSUME NEW g \in Agents, Running(g)' PROVE Ready(Now(g))'
  <2>1. g = p
    BY <1>1, <1>2, <1>11
  <2>2. Now(g)' = n
    BY <1>11, <2>1 DEF Running, At
  <2>3. QED
    BY <1>6, <2>2 DEF Ready
<1>12. QED
  BY <1>7, <1>8, <1>9, <1>10, <1>11 DEF Calm

\* Post-commit has not collected the attributions yet; it leaves HEAD's log alone.
LEMMA CalmAfterGit ==
  ASSUME Shape, Types, Solo, Calm, Running(Git), Rest(Git), UNCHANGED userVars, UNCHANGED mixed,
         NEW b, b = proc[Git].base, proc'[Git].base = b,
         proc'[Git].pc \in {"append", "tear", "fill", "mutate", "collect"},
         log'[b].dir, RestOfLogs(b),
         proc'[Git].pc = "collect" => proc'[Git].cps = log'[b].cps,
         Sound(Now(Git)', log'[b], tree[b], disk, credited', mixed, Trail'),
         Seen(Now(Git)', log'[b], b, tree, disk, unseen'),
         ~At(Git, "delete")
  PROVE  Calm'
<1>1. Git \in Procs /\ Git \notin Agents /\ Agents \subseteq Procs
  BY WorkingLogAssumption DEF Procs
<1>2. \A q \in Agents : ~Running(q) /\ ~Running(q)' /\ ~At(q, "compute")'
  BY <1>1 DEF Solo, Rest, Running, At
<1>3. /\ head' = head /\ tree' = tree /\ disk' = disk /\ session' = session /\ mixed' = mixed
  BY DEF userVars
<1>4. b + 1 = head /\ head # b /\ head \in Commits
  <2>1. b \in Nat
    BY <1>1, ProcIs DEF Commits
  <2>2. QED
    BY <2>1 DEF Solo, Shape
<1>5. log'[head] = log[head]
  BY <1>4 DEF RestOfLogs
<1>6. Running(Git)' /\ ~At(Git, "compute")' /\ ~At(Git, "carry")' /\ ~At(Git, "delete")'
  BY DEF Running, At
<1>7. Hooks'
  BY <1>2, <1>3, <1>6 DEF Calm, Hooks
<1>8. Dirs'
  <2>1. \A q \in Procs : Running(q)' => q = Git
    BY <1>2 DEF Procs
  <2>2. QED
    BY <2>1 DEF Dirs
<1>9. NewLog'
  BY <1>3, <1>5, <1>6 DEF Calm, NewLog
<1>10. Listed'
  BY DEF Listed, At
<1>11. GitReady'
  BY <1>3 DEF GitReady
<1>12. Carried'
  BY <1>6 DEF Carried
<1>13. ~Free'
  BY <1>1, <1>6 DEF Free
<1>14. QED
  BY <1>2, <1>7, <1>8, <1>9, <1>10, <1>11, <1>12, <1>13 DEF Calm

\* The context of a step in the quiet world.
CalmState == Shape /\ Types /\ LandInv /\ Undisturbed /\ Solo /\ Calm

LEMMA CalmRewrites ==
  ASSUME CalmState, NEW p \in Procs, Rewrites(p) PROVE Calm'
<1> DEFINE b == proc[p].base
<1>0. Shape /\ Types /\ Land /\ Solo /\ Calm
  BY DEF CalmState, LandInv
<1>1. /\ Running(p) /\ ~At(p, "compute") /\ Rest(p) /\ RestOfLogs(b)
      /\ UNCHANGED userVars /\ UNCHANGED <<notes, contended, mixed, astray, unseen>>
      /\ log'[b].initial = log[b].initial /\ log'[b].snap = log[b].snap /\ log'[b].dir = log[b].dir
      /\ \/ /\ proc'[p].pc \in {"tear", "fill", "mutate", "collect"} /\ proc'[p].base = b
            /\ Now(p)' = Now(p)
            /\ proc'[p].pc = "collect" => proc'[p].cps = log'[b].cps
         \/ p # Git /\ proc'[p].pc = "off" /\ log'[b].cps = Now(p)
  BY <1>0, ListStays
<1>2. log'[b].dir
  BY <1>0, <1>1 DEF Calm, Dirs
<1>3. Trail \in SUBSET Files /\ Trail' = Trail
  BY <1>1 DEF Trail, Followed, userVars
<1>4. CASE p = Git
  <2>1. Collecting
    <3>1. proc[p].pc \notin {"carry", "delete"}
      BY <1>4 DEF Rewrites, AppendRead, Tear, Fill, Mutate, At
    <3>2. QED
      BY <1>1, <1>4, <3>1 DEF Collecting
  <2>2. /\ Sound(Now(Git), log[b], tree[b], disk, credited, mixed, Trail)
        /\ Seen(Now(Git), log[b], b, tree, disk, unseen)
    BY <1>0, <1>1, <1>4, <2>1 DEF Calm, GitReady
  <2>3. Sound(Now(Git), log'[b], tree[b], disk, credited', mixed, Trail)
    BY <1>0, <1>3, <1>4, <2>2, SoundStays
  <2>4. Seen(Now(Git), log'[b], b, tree, disk, unseen')
    BY <1>1, <2>2 DEF Seen, StateBy
  <2>5. Now(Git)' = Now(Git)
    BY <1>1, <1>4
  <2>6. ~At(Git, "delete")
    BY <2>1 DEF Collecting, At
  <2>7. Sound(Now(Git)', log'[b], tree[b], disk, credited', mixed, Trail') /\ Seen(Now(Git)', log'[b], b, tree, disk, unseen')
    BY <1>3, <2>3, <2>4, <2>5
  <2>8. b = proc[Git].base /\ Running(Git) /\ Rest(Git) /\ proc'[Git].base = b
        /\ proc'[Git].pc \in {"append", "tear", "fill", "mutate", "collect"}
        /\ (proc'[Git].pc = "collect" => proc'[Git].cps = log'[b].cps)
    BY <1>1, <1>4
  <2> HIDE DEF b
  <2>9. QED
    BY <1>0, <1>1, <1>2, <2>6, <2>7, <2>8, CalmAfterGit
<1>5. CASE p # Git
  <2>1. p \in Agents /\ b = head
    BY <1>0, <1>1, <1>5 DEF Procs, Solo
  <2>2. Ready(Now(p))
    BY <1>0, <1>1, <2>1 DEF Calm
  <2>3. Sound(Now(p), log'[head], tree[head], disk, credited', mixed, Trail)
    BY <1>0, <1>3, <2>1, <2>2, SoundStays DEF Ready
  <2>4. Computing = {}
    <3>1. \A g \in Agents : g \in Procs
      BY DEF Procs
    <3>2. \A g \in Agents : At(g, "compute") => g = p
      BY <1>0, <1>1, <3>1 DEF Solo, Running, At
    <3>3. QED
      BY <1>1, <3>2 DEF Computing
  <2>5. Prepared(Now(p), log[head], tree[head], disk, mixed, session, {})
    BY <2>2, <2>4 DEF Ready
  <2>6. Prepared(Now(p), log'[head], tree[head], disk, mixed, session, {})
    BY <1>1, <2>1, <2>5, PreparedKept
  <2>7. QED
    BY <1>0, <1>1, <1>2, <2>1, <2>3, <2>6, CalmAfterAgent
<1>6. QED
  BY <1>4, <1>5

(***************************************************************************)
(* The new checkpoint                                                       *)
(***************************************************************************)
LEMMA LookedCompute ==
  ASSUME Shape, Types, Solo, NEW p \in Procs, Compute(p)
  PROVE  LET b == proc[p].base
             s == log[b].cps
         IN  /\ Contents(b) = s
             /\ \E n \in Seq(CheckpointIn(written)) :
                  /\ Looked(n, s, p, log[b])
                  /\ \/ p # Git /\ proc'[p].pc = "off" /\ log'[b].cps = n
                     \/ /\ proc'[p].pc = "append" \/ (p = Git /\ proc'[p].pc = "mutate")
                        /\ proc'[p].base = b /\ Now(p)' = n
<1> DEFINE b == proc[p].base
           s == log[b].cps
           entries == Entries(p, log[b], s)
<1>1. At(p, "compute") /\ b \in Commits /\ log[b] \in LogIn(written)
  BY ProcIs DEF Compute
<1>2. Contents(b) = s /\ ~Garbled(b) /\ s \in Seq(CheckpointIn(written))
  BY <1>1 DEF Solo, Whole, Contents, Garbled, Running, At, LogIn
<1> HIDE DEF entries
<1>3. /\ log'[b].cps = s
      /\ \/ entries = <<>> /\ OverDoes(p)
         \/ /\ proc'[p].pc = "append" /\ proc'[p].entries = entries /\ SameTask(p)
  BY <1>2, ComputeDoes DEF SameWords, entries
<1>4. CASE entries = <<>> /\ OverDoes(p)
  <2>1. Looked(s, s, p, log[b])
    BY <1>4 DEF Looked, entries
  <2>2. \/ p # Git /\ proc'[p].pc = "off" /\ log'[b].cps = s
        \/ p = Git /\ proc'[p].pc = "mutate" /\ proc'[p].base = b
    BY <1>3, <1>4 DEF OverDoes, SameTask
  <2>3. proc'[p].pc = "mutate" /\ proc'[p].base = b => Now(p)' = s
    BY <1>3 DEF Now, At, Writing
  <2> HIDE DEF s, b
  <2>4. QED
    BY <1>2, <2>1, <2>2, <2>3 DEF s, b
<1>5. CASE proc'[p].pc = "append" /\ proc'[p].entries = entries /\ SameTask(p)
  <2> DEFINE c == Pending(p)'
             n == Append(s, c)
  <2>1. Types' /\ written' = written
    BY ComputeTypes DEF Compute, userVars
  <2>2. proc'[p] \in ProcIn(written)
    BY <2>1 DEF Types
  <2>3. c \in CheckpointIn(written) /\ c.kind = proc[p].kind /\ c.entries = entries
    <3>1. proc'[p].n + 1 \in Nat /\ proc'[p].kind \in {"human", "ai"} /\ proc'[p].entries \in EntriesIn(written)
      BY <2>2 DEF ProcIn
    <3>2. <<p, proc'[p].n + 1>> \in Procs \X Nat
      BY <3>1
    <3> DEFINE i == <<p, proc'[p].n + 1>>
    <3>3. c = [id |-> i, kind |-> proc'[p].kind, entries |-> proc'[p].entries]
      BY DEF Pending
    <3> HIDE DEF i, c
    <3>4. i \in Procs \X Nat
      BY <3>2 DEF i
    <3>5. QED
      BY <1>5, <3>1, <3>3, <3>4 DEF CheckpointIn, SameTask
  <2>4. Now(p)' = n /\ proc'[p].base = b
    BY <1>3, <1>5 DEF Now, At, SameTask
  <2> HIDE DEF c, s
  <2>5. n \in Seq(CheckpointIn(written)) /\ Longer(n, s, c)
    BY <1>2, <2>3, AppendLonger
  <2>6. Looked(n, s, p, log[b])
    BY <2>3, <2>5 DEF Looked, entries
  <2> HIDE DEF n
  <2>7. QED
    BY <1>2, <1>5, <2>4, <2>5, <2>6 DEF s
<1>6. QED
  BY <1>3, <1>4, <1>5

LEMMA CalmAgentComputes == ASSUME CalmState, NEW p \in Agents, Compute(p) PROVE Calm'
<1>0. Shape /\ Types /\ Land /\ Solo /\ Calm /\ p \in Procs /\ p # Git /\ At(p, "compute") /\ Running(p)
  BY WorkingLogAssumption DEF CalmState, LandInv, Procs, Compute, Running, At
<1>1. proc[p].base = head
  BY <1>0 DEF Solo
<1> DEFINE s == log[head].cps
           l == log[head]
<1>2. PICK n \in Seq(CheckpointIn(written)) :
        /\ Looked(n, s, p, l)
        /\ \/ proc'[p].pc = "off" /\ log'[head].cps = n
           \/ proc'[p].pc # "off" /\ proc'[p].base = head /\ Now(p)' = n
  BY <1>0, <1>1, LookedCompute
<1>3. /\ Rest(p) /\ UNCHANGED userVars /\ UNCHANGED <<mixed, credited>>
      /\ log'[head].initial = l.initial /\ log'[head].snap = l.snap /\ log'[head].dir
      /\ unseen' = unseen \cup {head + 1} \X {f \in Files : PassedOver(p, l, Contents(head), f)}
      /\ proc'[p].pc # "compute"
  BY <1>0, <1>1, ComputeDoes DEF SameWords, OverDoes
<1>4. unseen' = unseen
  <2>1. \A f \in Files : ~PassedOver(p, l, Contents(head), f)
    BY <1>0 DEF PassedOver
  <2>2. QED
    BY <1>3, <2>1
<1>5. l \in LogIn(written) /\ s \in Seq(CheckpointIn(written))
  BY <1>0, <1>1, ProcIs DEF LogIn
<1>6. Now(p) = s
  BY <1>0, <1>1 DEF Now, At, Writing
<1>7. Sound(s, l, tree[head], disk, credited, mixed, Trail)
      /\ Prepared(s, l, tree[head], disk, mixed, session, Computing)
  BY <1>0, <1>6 DEF Calm, Ready
<1>8. proc[p].files = {session[p].file} /\ (proc[p].kind = "human" <=> session[p].phase = "pre")
  BY <1>0 DEF Calm, Hooks
<1>9. p \in Computing /\ \A g \in Agents : g \in Computing => g = p
  <2>1. \A g \in Agents : g \in Procs
    BY DEF Procs
  <2>2. QED
    BY <1>0, <2>1 DEF Computing, Solo, Running, At
<1>10. \A f \in proc[p].files : proc[p].kind = "human" \/ PreparedFor(s, l, tree[head], disk, mixed, f, {p})
  <2>1. session[p].phase \in {"out", "pre"}
    BY <1>0 DEF Types, UserTypes
  <2>2. QED
    BY <1>7, <1>8, <1>9, <2>1 DEF Prepared
<1> HIDE DEF s, l
<1>11. Sound(n, l, tree[head], disk, credited, mixed, Trail)
  BY <1>0, <1>1, <1>2, <1>5, <1>7, <1>10, LookedSound
<1>12. Prepared(n, l, tree[head], disk, mixed, session, {})
  BY <1>0, <1>1, <1>2, <1>5, <1>7, <1>8, <1>9, LookedPrepared
<1>13. Sound(n, log'[head], tree[head], disk, credited', mixed, Trail)
  <2>1. \A f \in Files : \A x \in disk[f] \ tree[head][f] :
          x \in credited' /\ x \notin mixed => x \in disk[f] /\ x \in credited
    BY <1>3
  <2>2. QED
    BY <1>3, <1>11, <2>1, SoundKept
<1>14. Prepared(n, log'[head], tree[head], disk, mixed, session, {})
  BY <1>3, <1>12, PreparedKept
<1>15. QED
  BY <1>0, <1>2, <1>3, <1>4, <1>13, <1>14, CalmAfterAgent

LEMMA CalmGitComputes == ASSUME CalmState, Compute(Git) PROVE Calm'
<1>0. Shape /\ Types /\ Land /\ Solo /\ Calm /\ Git \in Procs /\ At(Git, "compute") /\ Running(Git)
  BY DEF CalmState, LandInv, Procs, Compute, Running, At
<1> DEFINE b == proc[Git].base
           s == log[b].cps
           l == log[b]
           t == tree[b]
<1>1. b + 1 = head
  BY <1>0 DEF Solo
<1>2. PICK n \in Seq(CheckpointIn(written)) :
        /\ Looked(n, s, Git, l)
        /\ proc'[Git].pc \in {"append", "mutate"} /\ proc'[Git].base = b /\ Now(Git)' = n
  BY <1>0, LookedCompute
<1>3. /\ Rest(Git) /\ UNCHANGED userVars /\ UNCHANGED <<mixed, credited>> /\ RestOfLogs(b)
      /\ log'[b].initial = l.initial /\ log'[b].snap = l.snap /\ log'[b].dir
      /\ unseen' = unseen \cup {b + 1} \X {f \in Files : PassedOver(Git, l, s, f)}
  BY <1>0, ComputeDoes, LookedCompute DEF SameWords
<1>4. l \in LogIn(written) /\ s \in Seq(CheckpointIn(written))
  BY <1>0, ProcIs DEF LogIn
<1>5. Now(Git) = s /\ Collecting
  BY <1>0 DEF Now, At, Writing, Collecting
<1>6. Sound(s, l, t, disk, credited, mixed, Trail)
  BY <1>0, <1>5 DEF Calm, GitReady
<1>7. proc[Git].files = Files /\ proc[Git].kind = "human"
  BY <1>0 DEF Calm, Hooks
<1>8. Sound(n, l, t, disk, credited, mixed, Trail)
  <2>1. t = tree[proc[Git].base] /\ \A f \in proc[Git].files : proc[Git].kind = "human"
    BY <1>7
  <2> HIDE DEF s, l, t
  <2>2. QED
    BY <1>0, <1>2, <1>4, <1>6, <2>1, LookedSound
<1>9. Trail' \subseteq Trail
  BY <1>3 DEF Trail, Followed, userVars
<1>10. Sound(n, log'[b], t, disk, credited', mixed, Trail')
  <2>1. \A f \in Files : \A x \in disk[f] \ t[f] :
          x \in credited' /\ x \notin mixed => x \in disk[f] /\ x \in credited
    BY <1>3
  <2> HIDE DEF s, l, b, t
  <2>2. QED
    BY <1>3, <1>8, <1>9, <2>1, SoundKept
<1>11. ASSUME NEW f \in Files
       PROVE  /\ <<b + 1, f>> \notin unseen' /\ AITouched(n, l.initial, f) => StateBy(n, l, t[f], f).content = disk[f]
              /\ <<b + 1, f>> \in unseen' /\ tree[b + 1][f] # {} => disk[f] = tree[b + 1][f]
  <2>1. <<b + 1, f>> \in unseen' <=> PassedOver(Git, l, s, f)
    <3>1. <<b + 1, f>> \notin unseen
      <4>1. head \in Commits
        BY <1>0 DEF Shape
      <4>2. QED
        BY <1>0, <1>1, <4>1 DEF CalmState, LandInv, Calendar, UnseenOnce
    <3>2. QED
      BY <1>3, <3>1
  <2>2. /\ Previous(Git, l, s, f).content = StateBy(s, l, t[f], f).content
    BY <1>7, PreviousIs
  <2>3. PassedOver(Git, l, s, f) <=>
          AITouched(s, l.initial, f) /\ ~InStatus(s, f) /\ disk[f] # StateBy(s, l, t[f], f).content
    BY <2>2, Zenon DEF PassedOver
  <2>4. InStatus(s, f) <=> disk[f] # tree[b + 1][f]
                            /\ (tree[b + 1][f] # {} \/ \E i \in DOMAIN s : s[i].kind # "human")
    BY <1>1 DEF InStatus
  <2>5. HasEntry(Git, l, s, f) <=>
          /\ AITouched(s, l.initial, f) /\ InStatus(s, f)
          /\ disk[f] # StateBy(s, l, t[f], f).content \/ (With(s, f) = {} /\ l.initial[f] # {})
    BY <1>7, EntryIs
  <2>6. \/ StateBy(n, l, t[f], f).content = disk[f]
        \/ /\ ~HasEntry(Git, l, s, f)
           /\ StateBy(n, l, t[f], f) = StateBy(s, l, t[f], f)
           /\ AITouched(n, l.initial, f) => AITouched(s, l.initial, f)
    <3>1. Tidy(s, l.initial, f)
      BY <1>6 DEF Sound
    <3>2. t[f] = tree[proc[Git].base][f]
      OBVIOUS
    <3> HIDE DEF s, l, t
    <3>3. QED
      BY <1>0, <1>2, <1>4, <1>7, <3>1, <3>2, LookedIs
  <2> HIDE DEF s, l, t, b
  <2>7. QED
    BY <2>1, <2>3, <2>4, <2>5, <2>6
<1>12. Seen(n, log'[b], b, tree, disk, unseen')
  <2>1. \A f \in Files : StateBy(n, log'[b], tree[b][f], f) = StateBy(n, l, t[f], f)
    BY <1>3 DEF StateBy
  <2>2. QED
    BY <1>3, <1>11, <2>1 DEF Seen
<1>13. ~At(Git, "delete") /\ b = proc[Git].base
  BY <1>0 DEF At
<1>14. Sound(Now(Git)', log'[b], tree[b], disk, credited', mixed, Trail') /\ Seen(Now(Git)', log'[b], b, tree, disk, unseen')
  BY <1>2, <1>10, <1>12
<1> HIDE DEF s, l, t, b
<1>15. QED
  BY <1>0, <1>2, <1>3, <1>13, <1>14, CalmAfterGit

(***************************************************************************)
(* The note, what is carried over, and the end of post-commit               *)
(***************************************************************************)
\* A file that AI never touched has no attributions.
LEMMA UntouchedIs ==
  ASSUME NEW w, NEW s \in Seq(CheckpointIn(w)), NEW l, NEW t, NEW f \in Files, ~AITouched(s, l.initial, f)
  PROVE  StateBy(s, l, t, f).attr = {}
BY AttrTouched

\* What post-commit makes of a file that it saw, for some of its lines.
LEMMA SplitIs ==
  ASSUME CalmState, At(Git, "collect"), NEW f \in Trail, NEW L,
         L \subseteq disk[f] \ tree[proc[Git].base][f], <<head, f>> \notin unseen \/ L = {}
  PROVE  Right(Split(f, L), mixed) /\ Knows(Split(f, L), L, credited, mixed)
<1> DEFINE b == proc[Git].base
           s == log[b].cps
           l == log[b]
           t == tree[b]
           A == StateBy(s, l, t[f], f).attr
<1>0. Shape /\ Types /\ Solo /\ Calm /\ Git \in Procs /\ Running(Git) /\ f \in Files
  BY DEF CalmState, Procs, Running, At, Trail
<1>1. b + 1 = head /\ Contents(b) = s /\ proc[Git].cps = s
  BY <1>0 DEF Solo, Whole, Contents, Calm, Listed, At
<1>2. l \in LogIn(written) /\ s \in Seq(CheckpointIn(written)) /\ t[f] \subseteq written /\ disk[f] \subseteq written
  BY <1>0, ProcIs DEF LogIn, Types, UserTypes, FilesIn
<1>3. Now(Git) = s /\ Collecting /\ ~At(Git, "compute")
  BY <1>0 DEF Now, At, Writing, Collecting
<1>4. Sound(s, l, t, disk, credited, mixed, Trail) /\ Seen(s, l, b, tree, disk, unseen)
  BY <1>0, <1>3 DEF Calm, GitReady
<1>5. Tidy(s, l.initial, f) /\ Right(A, mixed) /\ Knows(A, disk[f] \ t[f], credited, mixed)
  BY <1>0, <1>4 DEF Sound
<1>6. f \in Named <=> AITouched(s, l.initial, f)
  BY <1>0, <1>1 DEF Named, Pathspecs, AITouched
<1>7. A \subseteq Lines \X Agents /\ disk[f] \subseteq Lines
  <2>1. written \subseteq Lines
    BY <1>0 DEF Types, UserTypes
  <2>2. A \subseteq written \X Agents
    <3>1. With(s, f) # {} => s[LastOf(With(s, f))].entries[f] \in EntryIn(written)
      BY <1>0, <1>2, WithEntries
    <3>2. l.initial[f] \subseteq written \X Agents
      BY <1>0, <1>2 DEF LogIn, AttrsIn
    <3> HIDE DEF s, l, t, b
    <3>3. QED
      BY <3>1, <3>2 DEF StateBy, EntryIn
  <2>3. QED
    BY <1>2, <2>1, <2>2
<1>8. Split(f, L) = IF f \in Named THEN {x \in Shown(Recorded(l, s, disk[f], f).attr,
                                             Recorded(l, s, disk[f], f).content, disk[f]) : x[1] \in L} ELSE {}
  <2>1. Found(f) = Attributed(l, s, f)
    BY <1>1, Zenon DEF Found
  <2>2. Attributed(l, s, f) = Shown(Recorded(l, s, disk[f], f).attr, Recorded(l, s, disk[f], f).content, disk[f])
    BY Zenon DEF Attributed
  <2>3. QED
    BY <2>1, <2>2 DEF Split
<1>9. CASE L = {}
  <2>1. Split(f, L) = {}
    BY <1>8, <1>9
  <2>2. QED
    BY <1>9, <2>1 DEF Right, Knows
<1>10. CASE L # {} /\ ~AITouched(s, l.initial, f)
  <2>1. Split(f, L) = {}
    BY <1>6, <1>8, <1>10
  <2>2. A = {}
    BY <1>0, <1>2, <1>10, UntouchedIs
  <2> HIDE DEF A
  <2>3. QED
    BY <1>5, <2>1, <2>2 DEF Right, Knows
<1>11. CASE L # {} /\ AITouched(s, l.initial, f)
  <2>1. disk[f] # {}
    BY <1>11
  <2>2. /\ Recorded(l, s, disk[f], f).attr = A
        /\ Recorded(l, s, disk[f], f).content = StateBy(s, l, t[f], f).content
    <3> HIDE DEF s, l, t, b
    <3>1. QED
      BY <1>0, <1>2, <1>5, <1>11, <2>1, RecordedIs DEF A
  <2>3. StateBy(s, l, t[f], f).content = disk[f]
    <3>1. <<b + 1, f>> \notin unseen
      BY <1>1, <1>11
    <3>2. QED
      BY <1>0, <1>4, <1>11, <3>1 DEF Seen
  <2> HIDE DEF A
  <2>4. \A x : x \in Shown(A, disk[f], disk[f]) <=> x \in A /\ x \in disk[f] \X Agents
    BY <1>7, ShownSame
  <2>5. \A x : x \in Split(f, L) <=> x \in Shown(A, disk[f], disk[f]) /\ x[1] \in L
    BY <1>6, <1>8, <1>11, <2>2, <2>3
  <2>6. Right(Split(f, L), mixed)
    BY <1>5, <2>4, <2>5 DEF Right
  <2>7. Knows(Split(f, L), L, credited, mixed)
    <3> SUFFICES ASSUME NEW x \in L, x \in credited, x \notin mixed PROVE <<x, x.by>> \in Split(f, L)
      BY DEF Knows
    <3>1. <<x, x.by>> \in A
      BY <1>5 DEF Knows
    <3>2. <<x, x.by>> \in disk[f] \X Agents /\ <<x, x.by>>[1] = x
      BY <1>7, <3>1
    <3>3. QED
      BY <2>4, <2>5, <3>1, <3>2
  <2>8. QED
    BY <2>6, <2>7
<1>12. QED
  BY <1>9, <1>10, <1>11

\* A step of post-commit, by which HEAD and the files stay.
LEMMA CalmAfterNote ==
  ASSUME Shape, Types, Solo, Calm, Running(Git), Rest(Git), UNCHANGED userVars, UNCHANGED <<mixed, credited, unseen>>,
         proc'[Git].base = proc[Git].base, proc'[Git].pc \in {"carry", "delete"},
         log'[proc[Git].base].dir, log'[head].cps = log[head].cps,
         proc'[Git].pc = "carry" => log'[head].initial = Empty,
         proc'[Git].pc = "delete" => log'[head].initial = proc'[Git].carry,
         \A f \in Trail : Right(proc'[Git].carry[f], mixed)
                          /\ Knows(proc'[Git].carry[f], disk[f] \ tree[head][f], credited, mixed)
  PROVE  Calm'
<1>1. Git \in Procs /\ Git \notin Agents /\ Agents \subseteq Procs
  BY WorkingLogAssumption DEF Procs
<1>2. \A q \in Agents : ~Running(q)' /\ ~At(q, "compute")'
  BY <1>1 DEF Solo, Rest, Running, At
<1>3. /\ head' = head /\ tree' = tree /\ disk' = disk /\ session' = session /\ mixed' = mixed
      /\ credited' = credited /\ Trail' = Trail
  BY DEF userVars, Trail, Followed
<1>4. Running(Git)' /\ ~At(Git, "compute")' /\ ~Collecting' /\ ~At(Git, "collect")'
  BY DEF Running, At, Collecting
<1>5. Hooks'
  BY <1>2, <1>3, <1>4 DEF Calm, Hooks
<1>6. Dirs'
  <2>1. \A q \in Procs : Running(q)' => q = Git
    BY <1>2 DEF Procs
  <2>2. QED
    BY <2>1 DEF Dirs
<1>7. NewLog'
  BY <1>3, <1>4 DEF Calm, NewLog, At
<1>8. Listed' /\ GitReady'
  BY <1>4 DEF Listed, GitReady
<1>9. Carried'
  BY <1>3 DEF Carried
<1>10. ~Free'
  BY <1>1, <1>4 DEF Free
<1>11. QED
  BY <1>2, <1>5, <1>6, <1>7, <1>8, <1>9, <1>10 DEF Calm

LEMMA CalmCollect == ASSUME CalmState, Collect PROVE Calm'
<1> DEFINE b == proc[Git].base
<1>0. Shape /\ Types /\ Land /\ Solo /\ Calm /\ Git \in Procs /\ At(Git, "collect") /\ Running(Git)
  BY DEF CalmState, LandInv, Procs, Collect, Running, At
<1>1. b + 1 = head /\ head \in Nat /\ b \in 0..head /\ head \in 0..head
  <2>1. b \in Nat
    BY <1>0, ProcIs DEF Commits
  <2>2. QED
    BY <1>0, <2>1 DEF Solo
<1>2. /\ UNCHANGED userVars /\ Rest(Git) /\ log' = log
      /\ proc'[Git].pc = "carry" /\ proc'[Git].base = b
      /\ \A f \in Files : proc'[Git].carry[f] = Split(f, disk[f] \ tree[head][f])
      /\ UNCHANGED <<credited, mixed, unseen>>
  BY <1>0, <1>1, CollectDoes DEF SameTask
<1>3. ASSUME NEW f \in Trail
      PROVE  Right(proc'[Git].carry[f], mixed)
             /\ Knows(proc'[Git].carry[f], disk[f] \ tree[head][f], credited, mixed)
  <2> DEFINE L == disk[f] \ tree[head][f]
  <2>1. f \in Files
    BY DEF Trail
  <2>2. L \subseteq disk[f] \ tree[b][f]
    BY <1>0, <1>1, <2>1 DEF Land, Lasting
  <2>3. <<head, f>> \notin unseen \/ L = {}
    <3> SUFFICES ASSUME <<head, f>> \in unseen PROVE L = {}
      OBVIOUS
    <3>1. tree[head][f] # {}
      <4>1. head \in 1..head
        BY <1>0, <1>1, ProcIs DEF Commits
      <4>2. QED
        BY <4>1 DEF Trail, Followed
    <3>2. Seen(log[b].cps, log[b], b, tree, disk, unseen)
      <4>1. Now(Git) = log[b].cps /\ Collecting /\ ~At(Git, "compute")
        BY <1>0 DEF Now, At, Writing, Collecting
      <4>2. QED
        BY <1>0, <4>1 DEF Calm, GitReady
    <3>3. QED
      BY <1>1, <2>1, <3>1, <3>2 DEF Seen
  <2> HIDE DEF L
  <2>4. Right(Split(f, L), mixed) /\ Knows(Split(f, L), L, credited, mixed)
    BY <1>0, <2>2, <2>3, SplitIs
  <2>5. QED
    BY <1>2, <2>1, <2>4 DEF L
<1>4. log[b].dir /\ log[head].initial = Empty
  BY <1>0 DEF Calm, Dirs, NewLog, At
<1>5. QED
  BY <1>0, <1>2, <1>3, <1>4, CalmAfterNote

LEMMA CalmCarry == ASSUME CalmState, Carry PROVE Calm'
<1> DEFINE b == proc[Git].base
<1>0. Shape /\ Types /\ Solo /\ Calm /\ Git \in Procs /\ At(Git, "carry") /\ Running(Git)
  BY DEF CalmState, Procs, Carry, Running, At
<1>1. b + 1 = head /\ b # head /\ b \in Commits
  <2>1. b \in Nat /\ b \in Commits
    BY <1>0, ProcIs DEF Commits
  <2>2. QED
    BY <1>0, <2>1 DEF Solo
<1>2. /\ UNCHANGED userVars /\ UNCHANGED ghosts /\ Rest(Git) /\ RestOfLogs(head)
      /\ proc'[Git].pc = "delete" /\ proc'[Git].base = b
      /\ proc'[Git].carry = proc[Git].carry /\ log'[head].cps = log[head].cps
      /\ \/ proc[Git].carry = Empty /\ log'[head] = log[head]
         \/ log'[head].initial = proc[Git].carry
  BY <1>0, <1>1, CarryDoes DEF SameTask
<1>3. log[b].dir /\ log[head].initial = Empty
  BY <1>0 DEF Calm, Dirs, NewLog, At
<1>4. log'[b].dir /\ log'[head].initial = proc'[Git].carry
  BY <1>1, <1>2, <1>3 DEF RestOfLogs
<1>5. \A f \in Trail : Right(proc[Git].carry[f], mixed)
                       /\ Knows(proc[Git].carry[f], disk[f] \ tree[head][f], credited, mixed)
  BY <1>0 DEF Calm, Carried
<1>6. UNCHANGED <<mixed, credited, unseen>>
  BY <1>2 DEF ghosts
<1>7. QED
  BY <1>0, <1>2, <1>4, <1>5, <1>6, CalmAfterNote

LEMMA CalmDelete == ASSUME CalmState, Delete PROVE Calm'
<1> DEFINE b == proc[Git].base
<1>0. Shape /\ Types /\ Solo /\ Calm /\ Git \in Procs /\ Git \notin Agents /\ At(Git, "delete") /\ Running(Git)
  BY WorkingLogAssumption DEF CalmState, Procs, Delete, Running, At
<1>1. b + 1 = head /\ b # head /\ head \in Commits
  <2>1. b \in Nat
    BY <1>0, ProcIs DEF Commits
  <2>2. QED
    BY <1>0, <2>1 DEF Solo, Shape
<1>2. /\ UNCHANGED userVars /\ Rest(Git) /\ RestOfLogs(b) /\ proc'[Git].pc = "off"
      /\ UNCHANGED <<credited, mixed, unseen>>
  BY <1>0, DeleteDoes
<1>3. \A q \in Procs : ~Running(q)' /\ ~At(q, "compute")' /\ ~At(q, "collect")'
  BY <1>0, <1>2 DEF Solo, Rest, Running, At
<1>4. /\ head' = head /\ tree' = tree /\ disk' = disk /\ session' = session /\ mixed' = mixed
      /\ credited' = credited /\ Trail' = Trail /\ log'[head] = log[head]
  BY <1>1, <1>2 DEF userVars, Trail, Followed, RestOfLogs
<1>5. log[head].cps = <<>> /\ log[head].initial = proc[Git].carry
  BY <1>0 DEF Calm, NewLog
<1>6. Sound(<<>>, log[head], tree[head], disk, credited, mixed, Trail)
  <2>1. \A f \in Trail : Right(log[head].initial[f], mixed)
                         /\ Knows(log[head].initial[f], disk[f] \ tree[head][f], credited, mixed)
    BY <1>0, <1>5 DEF Calm, Carried
  <2>2. QED
    BY <2>1, SoundAtFirst
<1>7. \A g \in Agents : g \in Procs /\ session[g].phase = "out"
  BY <1>0 DEF Calm, Hooks, Procs
<1>8. Ready(log[head].cps)'
  <2>1. Computing' = {}
    BY <1>3, <1>7 DEF Computing
  <2>2. Prepared(<<>>, log[head], tree[head], disk, mixed, session, {})
    BY <1>7 DEF Prepared
  <2>3. QED
    BY <1>4, <1>5, <1>6, <2>1, <2>2 DEF Ready
<1>9. Hooks' /\ Dirs' /\ NewLog' /\ Listed' /\ GitReady' /\ Carried'
  <2>1. ~Running(Git)' /\ \A g \in Agents : ~At(g, "compute")'
    BY <1>0, <1>3, <1>7
  <2>2. Hooks' /\ Dirs'
    BY <1>3, <1>7, <2>1 DEF Hooks, Dirs, Running, At
  <2>3. QED
    BY <2>1, <2>2 DEF NewLog, Listed, GitReady, Collecting, Carried, Running, At
<1>10. QED
  BY <1>3, <1>7, <1>8, <1>9 DEF Calm

(***************************************************************************)
(* The user, the agents and git in the quiet world                          *)
(***************************************************************************)
LEMMA BusyHead == ASSUME Solo, NEW q \in Procs, Running(q) PROVE head \in Busy(q)
<1>1. CASE q = Git
  BY <1>1 DEF Solo, Busy
<1>2. CASE q # Git
  BY <1>2 DEF Solo, Busy, Procs
<1>3. QED
  BY <1>1, <1>2

\* Nobody else is busy where a step leaves HEAD's log uncontended.
LEMMA AloneBefore ==
  ASSUME Shape, Solo, NEW p \in Procs, ~Running(p), Crowd(p, {head}) \subseteq contended', head \notin contended'
  PROVE  Free /\ Computing = {}
<1>1. \A q \in Procs \ {p} : head \notin Busy(q)
  BY DEF Crowd
<1>2. Free
  BY <1>1, BusyHead DEF Free
<1>3. \A g \in Agents : g \in Procs
  BY DEF Procs
<1>4. QED
  BY <1>2, <1>3 DEF Free, Computing, Running, At

LEMMA CalmHumanEdit == ASSUME CalmState, NEW f \in Files, HumanEdit(f), Undisturbed' PROVE Calm'
<1>0. Shape /\ Types /\ Solo /\ Calm /\ head \in Nat
  BY WorkingLogAssumption DEF CalmState, Shape, Commits
<1>1. /\ UNCHANGED <<head, tree, session, log, proc, credited, unseen>> /\ mixed \subseteq mixed'
      /\ astray' = IF Running(Git) THEN astray \cup {proc[Git].base + 1} ELSE astray
  BY DEF HumanEdit
<1>2. ~Running(Git)
  <2>1. head \notin astray'
    BY <1>0, <1>1 DEF Undisturbed, Quiet
  <2>2. QED
    BY <1>0, <1>1, <2>1 DEF Solo
<1>3. \A k \in Files : \A x \in disk'[k] : x \in disk[k] \/ (x \notin written /\ (Editing(k) = {} \/ x \in mixed'))
  <2>1. disk \in FilesIn(written)
    BY <1>0 DEF Types, UserTypes
  <2>2. CASE \E l \in disk[f] : disk' = [disk EXCEPT ![f] = @ \ {l}]
    BY <2>1, <2>2 DEF FilesIn
  <2>3. CASE \E l \in Fresh(Human) : /\ disk' = [disk EXCEPT ![f] = @ \cup {l}]
                                     /\ mixed' = IF Editing(f) = {} THEN mixed ELSE mixed \cup {l}
    <3>1. PICK l \in Fresh(Human) : /\ disk' = [disk EXCEPT ![f] = @ \cup {l}]
                                    /\ mixed' = IF Editing(f) = {} THEN mixed ELSE mixed \cup {l}
      BY <2>3
    <3>2. l \notin written
      BY DEF Fresh
    <3>3. QED
      BY <2>1, <3>1, <3>2 DEF FilesIn
  <2>4. QED
    BY <2>2, <2>3 DEF HumanEdit
<1>4. ASSUME NEW s, Ready(s)
      PROVE  /\ Sound(s, log'[head'], tree'[head'], disk', credited', mixed', Trail')
             /\ Prepared(s, log'[head'], tree'[head'], disk', mixed', session', Computing')
  <2>1. Trail' = Trail /\ Computing' = Computing
    BY <1>1 DEF Trail, Followed, Computing, At
  <2>2. Sound(s, log[head], tree[head], disk', credited, mixed', Trail)
    <3>1. \A k \in Files : \A x \in disk'[k] \ tree[head][k] :
            x \in credited /\ x \notin mixed' => x \in disk[k] /\ x \in credited
      BY <1>0, <1>3 DEF Types, GhostTypes
    <3>2. QED
      BY <1>1, <1>4, <3>1, SoundKept DEF Ready
  <2>3. Prepared(s, log[head], tree[head], disk', mixed', session, Computing)
    <3>1. ASSUME NEW g \in Agents, session[g].phase = "pre" \/ g \in Computing
          PROVE  \A x \in disk'[session[g].file] : x \in disk[session[g].file] \/ x \in mixed'
      <4>1. g \in Editing(session[g].file)
        BY <3>1 DEF Editing, InTool, Computing, Running, At
      <4>2. session[g].file \in Files
        BY <1>0 DEF Types, UserTypes
      <4>3. QED
        BY <1>3, <4>1, <4>2
    <3>2. QED
      BY <1>1, <1>4, <3>1, PreparedKept DEF Ready
  <2>4. QED
    BY <1>1, <2>1, <2>2, <2>3
<1>5. Free' => Ready(log[head].cps)'
  <2>1. Free' => Free
    BY <1>1 DEF Free, Running, At
  <2>2. Free => Ready(log[head].cps)
    BY <1>0 DEF Calm
  <2> DEFINE s == log[head].cps
  <2>3. log'[head'].cps = s
    BY <1>1
  <2> HIDE DEF s
  <2>4. Free' => /\ Sound(s, log'[head'], tree'[head'], disk', credited', mixed', Trail')
                 /\ Prepared(s, log'[head'], tree'[head'], disk', mixed', session', Computing')
    BY <1>4, <2>1, <2>2 DEF s
  <2>5. QED
    BY <2>3, <2>4 DEF Ready
<1>6. ASSUME NEW g \in Agents, Running(g)' PROVE Ready(Now(g))'
  <2>1. Running(g)
    BY <1>1, <1>6 DEF Running, At
  <2> DEFINE s == Now(g)
  <2>2. Ready(s)
    BY <1>0, <2>1 DEF Calm
  <2>3. Now(g)' = s
    BY <1>1 DEF Now, Pending, At, Writing
  <2> HIDE DEF s
  <2>4. /\ Sound(s, log'[head'], tree'[head'], disk', credited', mixed', Trail')
        /\ Prepared(s, log'[head'], tree'[head'], disk', mixed', session', Computing')
    BY <1>4, <2>2
  <2>5. QED
    BY <2>3, <2>4 DEF Ready
<1>7. ~Running(Git)'
  BY <1>1, <1>2 DEF Running, At
<1>8. Hooks' /\ Dirs'
  BY <1>0, <1>1 DEF Calm, Hooks, Dirs, Running, At
<1>9. NewLog' /\ Listed' /\ GitReady' /\ Carried'
  BY <1>7 DEF NewLog, Listed, GitReady, Collecting, Carried, Running, At
<1>10. QED
  BY <1>5, <1>6, <1>8, <1>9 DEF Calm

\* An agent's checkpoint starts.
LEMMA CalmStarts ==
  ASSUME CalmState, NEW g \in Agents, NEW kind, NEW f \in Files, Starts(g, kind, {f}, head), ~Running(g), Free,
         UNCHANGED <<head, tree, credited, unseen>>, mixed \subseteq mixed',
         session'[g].file = f, kind = "human" <=> session'[g].phase = "pre",
         \A k \in Files : \A x \in disk'[k] : x \in disk[k] \/ x \notin credited,
         Prepared(log[head].cps, log[head], tree[head], disk', mixed', session', {g})
  PROVE  Calm'
<1> DEFINE s == log[head].cps
<1>0. Shape /\ Types /\ Solo /\ Calm /\ g \in Procs /\ Git \in Procs /\ g # Git /\ Agents \subseteq Procs /\ head \in Commits
  BY WorkingLogAssumption DEF CalmState, Procs, Shape
<1>1. /\ Rest(g) /\ SameWords(head) /\ log'[head].dir
      /\ proc'[g].pc = "compute" /\ proc'[g].kind = kind /\ proc'[g].files = {f} /\ proc'[g].base = head
  <2>1. /\ Rest(g) /\ SameWords(head)
        /\ proc'[g].pc = "compute" /\ proc'[g].kind = kind /\ proc'[g].files = {f} /\ proc'[g].base = head
    BY <1>0, StartsIs
  <2>2. log'[head].dir
    BY <1>0 DEF Starts, Types, LogIn
  <2>3. QED
    BY <2>1, <2>2
<1>2. Running(g)' /\ \A q \in Procs \ {g} : ~Running(q)' /\ ~At(q, "compute")'
  BY <1>1 DEF Free, Rest, Running, At
<1>3. Computing' = {g} /\ Trail' = Trail
  BY <1>0, <1>1, <1>2 DEF Computing, Trail, Followed, At
<1>4. log'[head].initial = log[head].initial /\ log'[head].snap = log[head].snap /\ log'[head].cps = s
  BY <1>1 DEF SameWords
<1>5. Sound(s, log'[head], tree[head], disk', credited, mixed', Trail)
  <2>1. Sound(s, log[head], tree[head], disk, credited, mixed, Trail)
    BY <1>0 DEF Calm, Ready
  <2>2. \A k \in Files : \A x \in disk'[k] \ tree[head][k] :
          x \in credited /\ x \notin mixed' => x \in disk[k] /\ x \in credited
    OBVIOUS
  <2> HIDE DEF s
  <2>3. QED
    BY <1>4, <2>1, <2>2, SoundKept
<1>6. Prepared(s, log'[head], tree[head], disk', mixed', session', {g})
  BY <1>4, PreparedKept
<1>7. Now(g)' = s
  BY <1>1, <1>4 DEF Now, At, Writing
<1> HIDE DEF s
<1>8. head' = head /\ tree' = tree /\ credited' = credited
  OBVIOUS
<1>9. Ready(Now(g))'
  BY <1>3, <1>5, <1>6, <1>7, <1>8 DEF Ready
<1>10. ~Running(Git)' /\ ~Free'
  BY <1>0, <1>2 DEF Free
<1>11. Hooks'
  <2>1. \A h \in Agents : At(h, "compute")' => h = g
    BY <1>0, <1>2
  <2>2. ~At(Git, "compute")'
    BY <1>0, <1>2
  <2>3. QED
    BY <1>1, <1>10, <2>1, <2>2 DEF Hooks
<1>12. Dirs'
  BY <1>1, <1>2 DEF Dirs
<1>13. NewLog' /\ Listed' /\ GitReady' /\ Carried'
  BY <1>10 DEF NewLog, Listed, GitReady, Collecting, Carried, Running, At
<1>14. \A h \in Agents : Running(h)' => h = g
  BY <1>0, <1>2
<1>15. QED
  BY <1>9, <1>10, <1>11, <1>12, <1>13, <1>14 DEF Calm

LEMMA CalmPreTool ==
  ASSUME CalmState, NEW g \in Agents, NEW f \in Files, PreTool(g, f), Undisturbed' PROVE Calm'
<1>0. Shape /\ Types /\ Solo /\ Calm /\ g \in Procs /\ head \in Nat
  <2>1. Shape /\ Types /\ Solo /\ Calm /\ g \in Procs
    BY DEF CalmState, Procs
  <2>2. head \in Nat
    BY <2>1, WorkingLogAssumption DEF Shape, Commits
  <2>3. QED
    BY <2>1, <2>2
<1>1. /\ ~Running(g) /\ Starts(g, "human", {f}, head)
      /\ session' = [session EXCEPT ![g] = [phase |-> "pre", file |-> f]]
      /\ contended' = contended \cup Crowd(g, {head})
      /\ UNCHANGED <<head, tree, disk, credited, unseen, mixed>>
  BY DEF PreTool, InTool
<1>2. Free /\ Computing = {}
  BY <1>0, <1>1, AloneBefore DEF Undisturbed, Quiet
<1>3. session'[g] = [phase |-> "pre", file |-> f] /\ \A h \in Agents \ {g} : session'[h] = session[h]
  BY <1>0, <1>1 DEF Types, UserTypes
<1> DEFINE s == log[head].cps
<1>4. Prepared(s, log[head], tree[head], disk, mixed, session, {})
  BY <1>0, <1>2 DEF Calm, Ready
<1> HIDE DEF s
<1>5. Prepared(s, log[head], tree[head], disk, mixed, session', {g})
  <2>1. \A h \in Agents :
          /\ session'[h].phase = "pre" /\ h \notin {g} =>
               /\ session[h].phase = "pre" /\ h \notin {} /\ session[h].file = session'[h].file
               /\ \A x \in disk[session'[h].file] : x \in disk[session'[h].file] \/ x \in mixed
          /\ ~(session'[h].phase = "out" /\ h \in {g})
    BY <1>3
  <2>2. QED
    BY <1>4, <2>1, PreparedKept
<1>6. /\ session'[g].file = f /\ ("human" = "human" <=> session'[g].phase = "pre")
      /\ \A k \in Files : \A x \in disk'[k] : x \in disk[k] \/ x \notin credited
      /\ Prepared(s, log[head], tree[head], disk', mixed', session', {g})
      /\ mixed \subseteq mixed'
  BY <1>1, <1>3, <1>5
<1>7. QED
  BY <1>1, <1>2, <1>6, CalmStarts DEF s

LEMMA CalmPostTool ==
  ASSUME CalmState, NEW g \in Agents, EditAndPostTool(g), Undisturbed' PROVE Calm'
<1> DEFINE f == session[g].file
<1>0. Shape /\ Types /\ Solo /\ Calm /\ g \in Procs /\ head \in Nat /\ f \in Files /\ disk \in FilesIn(written)
  <2>1. Shape /\ Types /\ Solo /\ Calm /\ g \in Procs
    BY DEF CalmState, Procs
  <2>2. head \in Nat
    BY <2>1, WorkingLogAssumption DEF Shape, Commits
  <2>3. QED
    BY <2>1, <2>2 DEF Types, UserTypes
<1>1. /\ ~Running(g) /\ Starts(g, "ai", {f}, head) /\ session[g].phase = "pre"
      /\ session' = [session EXCEPT ![g].phase = "out"]
      /\ contended' = contended \cup Crowd(g, {head})
      /\ UNCHANGED <<head, tree, credited, unseen>>
  BY DEF EditAndPostTool
<1>2. PICK l \in Fresh(g) : /\ disk' = [disk EXCEPT ![f] = @ \cup {l}]
                            /\ mixed' = IF Editing(f) = {g} THEN mixed ELSE mixed \cup {l}
  BY DEF EditAndPostTool
<1>3. Free /\ Computing = {}
  BY <1>0, <1>1, AloneBefore DEF Undisturbed, Quiet
<1>4. /\ session'[g].phase = "out" /\ session'[g].file = f
      /\ \A h \in Agents \ {g} : session'[h] = session[h]
  BY <1>0, <1>1 DEF Types, UserTypes
<1>5. l \notin written /\ l.by = g
  BY DEF Fresh
<1>6. /\ disk'[f] = disk[f] \cup {l} /\ \A k \in Files \ {f} : disk'[k] = disk[k]
      /\ mixed \subseteq mixed' /\ (Editing(f) = {g} \/ l \in mixed')
  BY <1>0, <1>2 DEF FilesIn
<1> DEFINE s == log[head].cps
<1>7. Prepared(s, log[head], tree[head], disk, mixed, session, {})
  BY <1>0, <1>3 DEF Calm, Ready
<1> HIDE DEF s
<1>8. Prepared(s, log[head], tree[head], disk', mixed', session', {g})
  <2>1. ASSUME NEW h \in Agents, session'[h].phase = "pre", h # g
        PROVE  /\ session[h].phase = "pre" /\ session[h].file = session'[h].file
               /\ \A x \in disk'[session'[h].file] : x \in disk[session'[h].file] \/ x \in mixed'
    <3>1. session[h].phase = "pre" /\ session[h].file = session'[h].file /\ session[h].file \in Files
      BY <1>0, <1>4, <2>1 DEF Types, UserTypes
    <3>2. session[h].file = f => h \in Editing(f)
      BY <3>1 DEF Editing, InTool
    <3>3. QED
      BY <1>6, <2>1, <3>1, <3>2
  <2>2. \A x \in disk'[f] : x \in disk[f] \/ x \in mixed' \/ x.by = g
    BY <1>5, <1>6
  <2>3. \A h \in Agents :
          /\ session'[h].phase = "pre" /\ h \notin {g} =>
               /\ session[h].phase = "pre" /\ h \notin {} /\ session[h].file = session'[h].file
               /\ \A x \in disk'[session'[h].file] : x \in disk[session'[h].file] \/ x \in mixed'
          /\ session'[h].phase = "out" /\ h \in {g} =>
               /\ (session[h].phase = "pre" /\ h \notin {}) \/ (session[h].phase = "out" /\ h \in {})
               /\ session[h].file = session'[h].file
               /\ \A x \in disk'[session'[h].file] : x \in disk[session'[h].file] \/ x \in mixed' \/ x.by = h
    BY <1>1, <1>4, <2>1, <2>2
  <2>4. QED
    BY <1>6, <1>7, <2>3, PreparedKept
<1>9. \A k \in Files : \A x \in disk'[k] : x \in disk[k] \/ x \notin credited
  BY <1>0, <1>5, <1>6 DEF Types, GhostTypes
<1>10. "ai" = "human" <=> session'[g].phase = "pre"
  BY <1>4
<1> HIDE DEF f
<1>11. QED
  BY <1>0, <1>1, <1>3, <1>4, <1>6, <1>8, <1>9, <1>10, CalmStarts DEF s

LEMMA CalmCommit == ASSUME CalmState, budget \in Budgets, Commit, Undisturbed' PROVE Calm'
<1>0. Shape /\ Types /\ Solo /\ Calm /\ Calendar /\ Git \in Procs
  BY DEF CalmState, LandInv, Procs
<1>1. head \in Nat /\ head \in Commits /\ head + 1 \in Commits /\ head # head + 1 /\ head + 1 > head
  <2>1. budget.commits \in 0..MaxCommits /\ head < budget.commits
    BY WorkingLogAssumption DEF Commit
  <2>2. QED
    BY <1>0, <2>1, WorkingLogAssumption DEF Shape, Commits
<1>2. /\ ~Running(Git) /\ head' = head + 1 /\ Starts(Git, "human", Files, head)
      /\ contended' = contended \cup Crowd(Git, {head})
           \cup (IF \E g \in Agents : InTool(g) THEN {head, head + 1} ELSE {})
      /\ UNCHANGED <<disk, session, credited, mixed, unseen>>
  BY DEF Commit
<1>3. PICK t \in Staged : tree' = [tree EXCEPT ![head + 1] = t]
  BY DEF Commit
<1>4. tree'[head + 1] = t /\ \A c \in 0..head : tree'[c] = tree[c]
  <2>1. \A c \in 0..head : c \in Commits /\ c # head + 1
    BY <1>0, <1>1, WorkingLogAssumption DEF Commits, Shape
  <2>2. QED
    BY <1>0, <1>1, <1>3, <2>1 DEF Types, UserTypes
<1>5. \A g \in Agents : ~InTool(g) /\ ~Running(g) /\ session[g].phase = "out"
  <2>1. head \notin contended'
    <3>1. head \in 0..(head + 1) /\ head' = head + 1
      BY <1>1, <1>2
    <3>2. QED
      BY <3>1 DEF Undisturbed, Quiet
  <2>2. \A g \in Agents : ~InTool(g)
    BY <1>2, <2>1
  <2>3. QED
    BY <1>0, <2>2 DEF InTool, Types, UserTypes
<1>6. Free
  BY <1>2, <1>5 DEF Free, Procs
<1> DEFINE s == log[head].cps
<1>7. Sound(s, log[head], tree[head], disk, credited, mixed, Trail)
  BY <1>0, <1>6 DEF Calm, Ready
<1>8. /\ Rest(Git) /\ SameWords(head) /\ RestOfLogs(head)
      /\ proc'[Git].pc = "compute" /\ proc'[Git].kind = "human" /\ proc'[Git].files = Files /\ proc'[Git].base = head
  BY <1>0, <1>2, StartsIs, <1>1
<1>9. log'[head].dir
  BY <1>0, <1>1, <1>2 DEF Starts, Types, LogIn
<1>10. log'[head + 1] = NoLog
  BY <1>0, <1>1, <1>8 DEF RestOfLogs, Calendar, NothingYet
<1>11. Running(Git)' /\ \A g \in Agents : ~Running(g)' /\ ~At(g, "compute")'
  BY <1>5, <1>8, WorkingLogAssumption DEF Rest, Running, At, Procs
<1>12. Trail' \subseteq Trail
  <2>1. \A b \in 1..head : b \in 1..(head + 1) /\ b \in 0..head
    BY <1>1
  <2>2. QED
    BY <1>2, <1>4, <2>1 DEF Trail, Followed
<1>13. Hooks'
  BY <1>2, <1>5, <1>8, <1>11 DEF Hooks
<1>14. Dirs'
  BY <1>8, <1>9, <1>11 DEF Dirs, Procs
<1>15. NewLog'
  <2>1. \A f \in Files : tree'[head'][f] \ tree'[head' - 1][f] \subseteq disk'[f]
    <3>1. head' - 1 = head /\ head \in 0..head
      BY <1>1, <1>2
    <3>2. \A f \in Files : t[f] = tree[head][f] \/ t[f] \subseteq disk[f]
      BY DEF Staged
    <3>3. QED
      BY <1>2, <1>4, <3>1, <3>2
  <2>2. log'[head'].cps = <<>> /\ log'[head'].initial = Empty
    BY <1>2, <1>10 DEF NoLog
  <2>3. ~At(Git, "delete")'
    BY <1>8 DEF At
  <2>4. QED
    BY <2>1, <2>2, <2>3 DEF NewLog
<1>16. Listed' /\ Carried' /\ ~Free'
  BY <1>0, <1>8, <1>11 DEF Listed, Carried, Free, At
<1>17. GitReady'
  <2>1. Now(Git)' = s
    BY <1>8 DEF Now, At, Writing, SameWords
  <2>2. log'[head].initial = log[head].initial /\ log'[head].snap = log[head].snap
    BY <1>8 DEF SameWords
  <2>3. tree'[head] = tree[head]
    BY <1>1, <1>4
  <2> HIDE DEF s
  <2>4. \A f \in Files : \A x \in disk[f] \ tree[head][f] :
          x \in credited /\ x \notin mixed => x \in disk[f] /\ x \in credited
    OBVIOUS
  <2>5. Sound(s, log'[head], tree[head], disk, credited, mixed, Trail')
    BY <1>7, <1>12, <2>2, <2>4, SoundKept
  <2>6. At(Git, "compute")'
    BY <1>8 DEF At
  <2>7. QED
    BY <1>2, <1>8, <2>1, <2>3, <2>5, <2>6 DEF GitReady
<1>18. QED
  BY <1>11, <1>13, <1>14, <1>15, <1>16, <1>17 DEF Calm

(***************************************************************************)
(* The quiet world stays calm                                               *)
(***************************************************************************)
\* What only grows.
Grows ==
  /\ contended \subseteq contended' /\ astray \subseteq astray'
  /\ mixed \subseteq mixed' /\ unseen \subseteq unseen'

LEMMA AllGrow == [Next]_vars => Grows
<1>1. ASSUME UNCHANGED vars PROVE Grows
  BY <1>1 DEF vars, ghosts, Grows
<1>2. ASSUME NEW f \in Files, HumanEdit(f) PROVE Grows
  BY <1>2 DEF HumanEdit, Grows
<1>3. ASSUME NEW f \in Files, NEW g \in Agents, PreTool(g, f) PROVE Grows
  BY <1>3 DEF PreTool, Grows
<1>4. ASSUME NEW g \in Agents, EditAndPostTool(g) PROVE Grows
  <2>1. /\ UNCHANGED <<astray, unseen>> /\ contended' = contended \cup Crowd(g, {head})
        /\ mixed \subseteq mixed'
    BY <1>4 DEF EditAndPostTool
  <2>2. QED
    BY <2>1 DEF Grows
<1>5. ASSUME Commit PROVE Grows
  BY <1>5 DEF Commit, Grows
<1>6. ASSUME NEW p \in Procs, Compute(p) \/ AppendRead(p) \/ Tear(p) \/ TearFails(p) \/ Fill(p) PROVE Grows
  BY <1>6 DEF Compute, AppendRead, Tear, TearFails, Fill, ghosts, Grows
<1>7. ASSUME Mutate \/ MutateFails \/ Collect \/ StatsFail \/ Carry \/ Delete PROVE Grows
  BY <1>7 DEF Mutate, MutateFails, Collect, StatsFail, Carry, Delete, Aborts, ghosts, Grows
<1>8. QED
  BY <1>1, <1>2, <1>3, <1>4, <1>5, <1>6, <1>7 DEF Next

LEMMA QuietBefore ==
  ASSUME Shape, Types, budget \in Budgets, [Next]_vars, Undisturbed' PROVE Undisturbed
<1>1. head \in Nat /\ head' \in Nat /\ head <= head'
  BY Moves DEF Moved
<1>2. \A b \in 0..head : b \in 0..head'
  BY <1>1
<1>3. QED
  BY <1>2, AllGrow DEF Grows, Undisturbed, Quiet

LEMMA CalmNext ==
  ASSUME AloneInv, StrayInv, Types, LandInv, CalmInv, [Next]_vars PROVE CalmInv'
<1> SUFFICES ASSUME Undisturbed' PROVE Calm'
  BY DEF CalmInv
<1>0. Shape /\ budget \in Budgets /\ Git \in Procs
  BY DEF AloneInv, Procs
<1>1. Undisturbed
  BY <1>0, QuietBefore
<1>2. CalmState
  BY <1>0, <1>1, SoloHolds DEF CalmState, CalmInv
<1>3. Solo /\ Calm
  BY <1>2 DEF CalmState
<1>4. CASE UNCHANGED vars
  <2>1. UNCHANGED <<head, tree, disk, session, log, proc, credited, mixed, unseen>>
    BY <1>4 DEF vars, userVars, ghosts
  <2>2. Trail' = Trail /\ Computing' = Computing /\ (Free' <=> Free)
    BY <2>1 DEF Trail, Followed, Computing, Free, Running, At
  <2>3. \A p \in Procs : Now(p)' = Now(p) /\ (Running(p)' <=> Running(p))
    BY <2>1 DEF Now, Pending, Running, Writing, At
  <2>4. Hooks' /\ Dirs' /\ NewLog' /\ Listed'
    BY <1>3, <2>1 DEF Calm, Hooks, Dirs, NewLog, Listed, Running, At
  <2>5. GitReady' /\ Carried'
    BY <1>0, <1>3, <2>1, <2>2, <2>3 DEF Calm, GitReady, Carried, Collecting, At
  <2>6. Free' => Ready(log[head].cps)'
    BY <1>3, <2>1, <2>2 DEF Calm, Ready
  <2>7. \A g \in Agents : Running(g)' => Ready(Now(g))'
    <3>1. \A g \in Agents : Running(g) => Ready(Now(g))
      BY <1>3 DEF Calm
    <3>2. \A g \in Agents : g \in Procs
      BY DEF Procs
    <3>3. QED
      BY <2>1, <2>2, <2>3, <3>1, <3>2 DEF Ready
  <2>8. QED
    BY <2>4, <2>5, <2>6, <2>7 DEF Calm
<1>5. ASSUME NEW f \in Files, HumanEdit(f) PROVE Calm'
  BY <1>2, <1>5, CalmHumanEdit
<1>6. ASSUME NEW f \in Files, NEW g \in Agents, PreTool(g, f) PROVE Calm'
  BY <1>2, <1>6, CalmPreTool
<1>7. ASSUME NEW g \in Agents, EditAndPostTool(g) PROVE Calm'
  BY <1>2, <1>7, CalmPostTool
<1>8. ASSUME Commit PROVE Calm'
  BY <1>0, <1>2, <1>8, CalmCommit
<1>9. ASSUME NEW p \in Procs, Compute(p) PROVE Calm'
  BY <1>2, <1>9, CalmAgentComputes, CalmGitComputes DEF Procs
<1>10. ASSUME NEW p \in Procs, AppendRead(p) \/ Tear(p) \/ Fill(p) PROVE Calm'
  BY <1>2, <1>10, CalmRewrites DEF Rewrites
<1>11. ASSUME NEW p \in Procs, TearFails(p) PROVE FALSE
  BY <1>3, <1>11 DEF TearFails, Calm, Dirs, Running, At
<1>12. ASSUME Mutate PROVE Calm'
  BY <1>0, <1>2, <1>12, CalmRewrites DEF Rewrites
<1>13. ASSUME MutateFails PROVE FALSE
  BY <1>0, <1>3, <1>13 DEF MutateFails, Solo, Whole, Garbled, Running, At
<1>14. ASSUME StatsFail PROVE FALSE
  <2>1. Running(Git) /\ astray' = astray \cup {proc[Git].base + 1} /\ head' = head
    BY <1>0, <1>14, AbortsDoes DEF userVars
  <2>2. head \in astray'
    BY <1>3, <2>1 DEF Solo
  <2>3. head \in Nat
    BY <1>0, WorkingLogAssumption DEF Shape, Commits
  <2>4. QED
    BY <2>1, <2>2, <2>3 DEF Undisturbed, Quiet
<1>15. QED
  BY <1>2, <1>4, <1>5, <1>6, <1>7, <1>8, <1>9, <1>10, <1>11, <1>12, <1>13, <1>14,
     CalmCollect, CalmCarry, CalmDelete DEF Next

LEMMA CalmInit == Init => CalmInv
<1> SUFFICES ASSUME Init PROVE Calm
  BY DEF CalmInv
<1>1. /\ \A p \in Procs : proc[p] = Idle
      /\ head = 0 /\ 0 \in Commits /\ log[0] = NoLog /\ \A f \in Files : tree[0][f] = {} /\ disk[f] = {}
      /\ \A g \in Agents : session[g].phase = "out"
  BY WorkingLogAssumption DEF Init, Commits, Empty
<1>2. \A p \in Procs : proc[p].pc = "off"
  BY <1>1 DEF Idle
<1>3. Git \in Procs /\ Agents \subseteq Procs
  BY DEF Procs
<1>4. Hooks /\ Dirs /\ NewLog /\ Listed /\ GitReady /\ Carried
  BY <1>2, <1>3 DEF Hooks, Dirs, NewLog, Listed, GitReady, Collecting, Carried, Running, At
<1>5. Ready(log[head].cps)
  <2>1. log[head].cps = <<>> /\ \A f \in Files : log[head].initial[f] = {}
    BY <1>1 DEF NoLog, Empty
  <2>2. Sound(<<>>, log[head], tree[head], disk, credited, mixed, Trail)
    <3>1. \A f \in Trail : Right(log[head].initial[f], mixed)
                           /\ Knows(log[head].initial[f], disk[f] \ tree[head][f], credited, mixed)
      BY <1>1, <2>1 DEF Trail, Right, Knows
    <3>2. QED
      BY <3>1, SoundAtFirst
  <2>3. Prepared(<<>>, log[head], tree[head], disk, mixed, session, Computing)
    BY <1>1, <1>2, <1>3 DEF Prepared, Computing, At
  <2>4. QED
    BY <2>1, <2>2, <2>3 DEF Ready
<1>6. QED
  BY <1>2, <1>3, <1>4, <1>5 DEF Calm, Running, At

(***************************************************************************)
(* The notes                                                                *)
(***************************************************************************)
NoteOK(A, c) ==
  /\ Right(A, mixed)
  /\ \A f \in Files : Knows(A, tree[c][f] \ tree[c - 1][f], credited, mixed)
NotesInv ==
  /\ \A c \in Commits : notes[c] # {} => 0 < c /\ c <= head
  /\ \A c \in Commits : Quiet(c) /\ AllSeen(c) => \A A \in notes[c] : NoteOK(A, c)

\* What is credited now is not in a commit that was made undisturbed: its claims
\* are of lines that were not in the base commit, and no agent works on an older one.
LEMMA CreditedLater ==
  ASSUME Shape, Types, LandInv, [Next]_vars, NEW x \in credited' \ credited,
         NEW c \in Commits, c <= head, c \notin contended, NEW f \in Files
  PROVE  x \notin tree[c][f]
<1>1. PICK p \in Procs : Fill(p)
  <2>1. ASSUME NEW g \in Agents, EditAndPostTool(g) PROVE credited' = credited
    BY <2>1 DEF EditAndPostTool
  <2>2. (\E h \in Files : HumanEdit(h) \/ \E g \in Agents : PreTool(g, h)) => credited' = credited
    BY DEF HumanEdit, PreTool
  <2>3. Commit \/ UNCHANGED vars => credited' = credited
    BY DEF Commit, vars, ghosts
  <2>4. (\E p \in Procs : Compute(p) \/ AppendRead(p) \/ Tear(p) \/ TearFails(p)) => credited' = credited
    BY DEF Compute, AppendRead, Tear, TearFails, ghosts
  <2>5. Mutate \/ MutateFails \/ Collect \/ StatsFail \/ Carry \/ Delete => credited' = credited
    BY DEF Mutate, MutateFails, Collect, StatsFail, Carry, Delete, Aborts, ghosts
  <2>6. QED
    BY <2>1, <2>2, <2>3, <2>4, <2>5 DEF Next
<1> DEFINE s == Now(p)
           b == proc[p].base
<1>2. /\ At(p, "fill") /\ s # <<>>
      /\ \E K : /\ credited' = credited \cup K
                /\ \A y \in K : \E h \in DOMAIN s[Len(s)].entries \cap Files : <<y, p>> \in s[Len(s)].entries[h].attr
  BY <1>1, Credits DEF Rewrites
<1>3. PICK h \in DOMAIN s[Len(s)].entries \cap Files : <<x, p>> \in s[Len(s)].entries[h].attr
  BY <1>2
<1>4. s \in Seq(CheckpointIn(written))
  BY NowType
<1>5. Len(s) \in With(s, h)
  <2> HIDE DEF s
  <2>1. Len(s) \in DOMAIN s
    BY <1>2, <1>4
  <2>2. QED
    BY <1>3, <2>1 DEF With
<1>6. ListFits(b, s, tree, disk, head)
  BY <1>2 DEF LandInv, Land, ProcFits, Now, At, Writing
<1>7. p \in Agents
  <2> HIDE DEF s
  <2>1. s[Len(s)].entries[h] \in EntryIn(written)
    BY <1>4, <1>5, WithEntries
  <2>2. <<x, p>> \in written \X Agents
    BY <1>3, <2>1 DEF EntryIn
  <2>3. QED
    BY <2>2
<1>8. c \in 0..b /\ c \in 0..head
  <2>1. Running(p)
    BY <1>2 DEF Running, At
  <2>2. ~(b < c)
    BY <1>7, <2>1 DEF LandInv, Calendar, Late
  <2>3. b \in Nat /\ c \in Nat /\ head \in Nat
    BY ProcIs DEF Commits, Shape
  <2>4. QED
    BY <2>2, <2>3
<1>9. Fits(b, h, s[Len(s)].entries[h].content, s[Len(s)].entries[h].attr, tree, disk, head)
  BY <1>3, <1>5, <1>6 DEF ListFits
<1>10. x \in s[Len(s)].entries[h].content \ tree[b][h]
  BY <1>3, <1>9 DEF Fits, AttrLines
<1>11. CASE f = h
  BY <1>8, <1>9, <1>10, <1>11 DEF Fits
<1>12. CASE f # h
  BY <1>3, <1>8, <1>9, <1>10, <1>12 DEF Fits
<1>13. QED
  BY <1>11, <1>12

\* A note stays right, and complete.
LEMMA NoteStays ==
  ASSUME Shape, Types, LandInv, budget \in Budgets, [Next]_vars, NEW c \in Commits, 0 < c, c <= head,
         c \notin contended, NEW A, NoteOK(A, c)
  PROVE  NoteOK(A, c)'
<1>1. mixed \subseteq mixed'
  BY AllGrow DEF Grows
<1>2. tree'[c] = tree[c] /\ tree'[c - 1] = tree[c - 1]
  <2>1. \A b \in 0..head : tree'[b] = tree[b]
    BY Moves DEF Moved
  <2>2. head \in Nat /\ c \in 0..head /\ c - 1 \in 0..head
    BY WorkingLogAssumption DEF Shape, Commits
  <2>3. QED
    BY <2>1, <2>2
<1>3. Right(A, mixed')
  BY <1>1 DEF NoteOK, Right
<1>4. ASSUME NEW f \in Files PROVE Knows(A, tree[c][f] \ tree[c - 1][f], credited', mixed')
  <2>1. Knows(A, tree[c][f] \ tree[c - 1][f], credited, mixed)
    BY DEF NoteOK
  <2>2. \A x \in tree[c][f] : x \in credited' => x \in credited
    BY CreditedLater
  <2>3. QED
    BY <1>1, <2>1, <2>2 DEF Knows
<1>5. QED
  BY <1>2, <1>3, <1>4 DEF NoteOK

\* The new note.
LEMMA NewNote ==
  ASSUME CalmState, Collect, AllSeen(head) PROVE NoteOK(Noted, head)
<1> DEFINE b == proc[Git].base
<1>0. Shape /\ Types /\ Solo /\ Calm /\ Running(Git) /\ At(Git, "collect") /\ Git \in Procs
  BY DEF CalmState, Collect, Running, At, Procs
<1>1. b + 1 = head /\ head - 1 = b
  <2>1. b \in Nat
    BY <1>0, ProcIs DEF Commits
  <2>2. QED
    BY <1>0, <2>1 DEF Solo
<1> DEFINE L(f) == tree[head][f] \ tree[b][f]
<1>2. ASSUME NEW f \in Files
      PROVE  Right(Split(f, L(f)), mixed) /\ Knows(Split(f, L(f)), L(f), credited, mixed)
  <2>1. f \in Trail /\ <<head, f>> \notin unseen
    BY DEF AllSeen, Trail
  <2>2. L(f) \subseteq disk[f] \ tree[b][f]
    BY <1>0, <1>1 DEF Calm, NewLog
  <2> HIDE DEF L
  <2>3. QED
    BY <1>0, <2>1, <2>2, SplitIs
<1>3. Noted = UNION {Split(f, L(f)) : f \in Files}
  BY <1>1, Zenon DEF Noted
<1> HIDE DEF L
<1>4. \A f \in Files : Split(f, L(f)) \subseteq Noted
  BY <1>3
<1>5. \A x \in Noted : \E f \in Files : x \in Split(f, L(f))
  BY <1>3
<1>6. Right(Noted, mixed)
  BY <1>2, <1>5 DEF Right
<1>7. \A f \in Files : Knows(Noted, L(f), credited, mixed)
  BY <1>2, <1>4 DEF Knows
<1>8. \A f \in Files : L(f) = tree[head][f] \ tree[head - 1][f]
  BY <1>1 DEF L
<1>9. QED
  BY <1>6, <1>7, <1>8 DEF NoteOK

LEMMA NotesNext ==
  ASSUME AloneInv, StrayInv, Types, LandInv, CalmInv, NotesInv, [Next]_vars PROVE NotesInv'
<1>0. Shape /\ budget \in Budgets /\ head \in Nat /\ head' \in Nat /\ head <= head'
  BY Moves DEF AloneInv, Moved
<1>1. \/ notes' = notes
      \/ Collect
  <2>1. ASSUME NEW g \in Agents, EditAndPostTool(g) PROVE notes' = notes
    BY <2>1 DEF EditAndPostTool
  <2>2. (\E h \in Files : HumanEdit(h) \/ \E g \in Agents : PreTool(g, h)) => notes' = notes
    BY DEF HumanEdit, PreTool
  <2>3. Commit \/ UNCHANGED vars => notes' = notes
    BY DEF Commit, vars
  <2>4. (\E p \in Procs : Compute(p) \/ AppendRead(p) \/ Tear(p) \/ TearFails(p) \/ Fill(p)) => notes' = notes
    BY DEF Compute, AppendRead, Tear, TearFails, Fill
  <2>5. Mutate \/ MutateFails \/ StatsFail \/ Carry \/ Delete => notes' = notes
    BY DEF Mutate, MutateFails, StatsFail, Carry, Delete, Aborts
  <2>6. QED
    BY <2>1, <2>2, <2>3, <2>4, <2>5 DEF Next
<1>2. Collect => /\ UNCHANGED userVars /\ UNCHANGED <<credited, contended, mixed, astray, unseen>>
                 /\ \A c \in Commits \ {head} : notes'[c] = notes[c]
                 /\ head \in Commits /\ notes'[head] = {Noted} /\ 0 < head
  <2> SUFFICES ASSUME Collect PROVE <1>2!2
    OBVIOUS
  <2>1. Running(Git) /\ Git \in Procs
    BY DEF Collect, Running, At, Procs
  <2>2. proc[Git].base + 1 = head /\ proc[Git].base \in Nat
    BY <2>1, ProcIs DEF StrayInv, AboutHead, Commits
  <2>3. QED
    BY <1>0, <2>2, CollectDoes
<1>3. ASSUME NEW c \in Commits, notes'[c] # {} PROVE 0 < c /\ c <= head
  <2>1. c \in Nat
    BY DEF Commits
  <2>2. QED
    BY <1>0, <1>1, <1>2, <1>3, <2>1 DEF NotesInv
<1>4. ASSUME NEW c \in Commits, Quiet(c)', AllSeen(c)', NEW A \in notes'[c] PROVE NoteOK(A, c)'
  <2>1. 0 < c /\ c <= head /\ c \in Nat
    BY <1>3, <1>4 DEF Commits
  <2>2. Quiet(c) /\ AllSeen(c)
    <3>1. Grows
      BY AllGrow
    <3>2. \A b \in 1..c : tree'[b] = tree[b]
      <4>1. \A b \in 0..head : tree'[b] = tree[b]
        BY <1>0, Moves DEF Moved
      <4>2. \A b \in 1..c : b \in 0..head
        BY <1>0, <2>1
      <4>3. QED
        BY <4>1, <4>2
    <3>3. Quiet(c)
      BY <1>4, <3>1 DEF Quiet, Grows
    <3>4. AllSeen(c)
      BY <1>4, <3>1, <3>2 DEF AllSeen, Followed, Grows
    <3>5. QED
      BY <3>3, <3>4
  <2>3. CASE A \in notes[c]
    <3>1. c \notin contended
      BY <2>1, <2>2 DEF Quiet
    <3>2. NoteOK(A, c)
      BY <2>2, <2>3 DEF NotesInv
    <3>3. QED
      BY <1>0, <2>1, <3>1, <3>2, NoteStays
  <2>4. CASE A \notin notes[c]
    <3>1. Collect /\ c = head /\ A = Noted
      BY <1>1, <1>2, <1>4, <2>4
    <3>2. CalmState
      BY <1>0, <2>2, <3>1, SoloHolds DEF CalmState, CalmInv, Undisturbed
    <3>3. NoteOK(A, c)
      BY <2>2, <3>1, <3>2, NewNote
    <3>4. QED
      BY <1>2, <3>1, <3>3 DEF userVars, NoteOK
  <2>5. QED
    BY <2>3, <2>4
<1>5. QED
  <2>1. \A c \in Commits : notes'[c] # {} => 0 < c /\ c <= head'
    BY <1>0, <1>3 DEF Commits
  <2>2. QED
    BY <1>4, <2>1 DEF NotesInv

(***************************************************************************)
(* Notes and logs say who wrote what                                        *)
(***************************************************************************)
ContentInv == AloneInv /\ StrayInv /\ Types /\ LandInv /\ CalmInv /\ NotesInv

LEMMA ContentInit == Init => ContentInv
<1> SUFFICES ASSUME Init PROVE ContentInv
  OBVIOUS
<1>1. AloneInv /\ StrayInv /\ Types /\ LandInv /\ CalmInv
  BY AloneAtFirst, StrayAtFirst, TypesInit, LandInit, CalmInit
<1>2. NotesInv
  <2>1. \A c \in Commits : notes[c] = {}
    BY DEF Init
  <2>2. QED
    BY <2>1 DEF NotesInv
<1>3. QED
  BY <1>1, <1>2 DEF ContentInv

LEMMA ContentNext == ContentInv /\ [Next]_vars => ContentInv'
<1> SUFFICES ASSUME ContentInv, [Next]_vars PROVE ContentInv'
  OBVIOUS
<1>1. AloneInv /\ StrayInv /\ Types /\ LandInv /\ CalmInv /\ NotesInv /\ Shape /\ budget \in Budgets
  BY DEF ContentInv, AloneInv
<1>2. AloneInv' /\ StrayInv' /\ Types' /\ LandInv'
  BY <1>1, AloneNext, StrayNext, TypesNext, LandInvNext
<1>3. CalmInv' /\ NotesInv'
  BY <1>1, CalmNext, NotesNext
<1>4. QED
  BY <1>2, <1>3 DEF ContentInv

\* A note names the writer of every line it attributes, where the commits so far were
\* made undisturbed and their files had been seen: an agent is never given a line of
\* someone else's, whatever was committed in parts and carried over.
THEOREM NoteNamesWriterHolds == Spec => []NoteNamesWriter
<1>1. ContentInv => NoteNamesWriter
  BY DEF ContentInv, NotesInv, NoteOK, Right, NoteNamesWriter, NamesWriter
<1>2. QED
  BY ContentInit, ContentNext, <1>1, PTL DEF Spec

\* Such a note also has every line of the commit that an agent wrote and checkpointed.
THEOREM NoteCompleteHolds == Spec => []NoteComplete
<1>1. ContentInv => NoteComplete
  <2> SUFFICES ASSUME ContentInv, NEW c \in Commits, Quiet(c), AllSeen(c), NEW A \in notes[c], NEW f \in Files,
                      NEW l \in tree[c][f] \ tree[c - 1][f], l \in credited, l \notin mixed
               PROVE  l \in AttrLines(A)
    BY DEF NoteComplete
  <2>1. Knows(A, tree[c][f] \ tree[c - 1][f], credited, mixed)
    BY DEF ContentInv, NotesInv, NoteOK
  <2>2. <<l, l.by>> \in A /\ <<l, l.by>>[1] = l
    BY <2>1 DEF Knows
  <2>3. QED
    BY <2>2 DEF AttrLines
<1>2. QED
  BY ContentInit, ContentNext, <1>1, PTL DEF Spec

\* Between commits the working log of HEAD knows every line of the work tree that an
\* agent wrote and checkpointed and that is not committed yet.
THEOREM UncommittedKnownHolds == Spec => []UncommittedKnown
<1>1. ContentInv => UncommittedKnown
  <2> SUFFICES ASSUME ContentInv, Quiet(head), \A p \in Procs : ~Running(p),
                      NEW f \in Files, Followed(head, f), NEW l \in disk[f] \ tree[head][f],
                      l \in credited, l \notin mixed
               PROVE  <<l, l.by>> \in Recorded(log[head], log[head].cps, disk[f], f).attr
    BY DEF UncommittedKnown
  <2> DEFINE k == log[head]
             s == k.cps
             t == tree[head]
             A == StateBy(s, k, t[f], f).attr
  <2>1. k \in LogIn(written) /\ s \in Seq(CheckpointIn(written))
    <3>1. head \in Commits
      BY DEF ContentInv, AloneInv, Shape
    <3>2. QED
      BY <3>1 DEF ContentInv, Types, LogIn
  <2>2. Sound(s, k, t, disk, credited, mixed, Trail) /\ f \in Trail
    BY DEF ContentInv, CalmInv, Undisturbed, Calm, Free, Ready, Trail
  <2>3. Tidy(s, k.initial, f) /\ Knows(A, disk[f] \ t[f], credited, mixed)
    BY <2>2 DEF Sound
  <2>4. <<l, l.by>> \in A
    BY <2>3 DEF Knows
  <2>5. disk[f] # {}
    OBVIOUS
  <2>6. AITouched(s, k.initial, f)
    <3> HIDE DEF s, k, t
    <3>1. A # {}
      BY <2>4
    <3>2. QED
      BY <2>1, <3>1, UntouchedIs
  <2>7. Recorded(k, s, disk[f], f).attr = A
    <3> HIDE DEF s, k, t
    <3>1. QED
      BY <2>1, <2>3, <2>5, <2>6, RecordedIs DEF A
  <2>8. QED
    BY <2>4, <2>7
<1>2. QED
  BY ContentInit, ContentNext, <1>1, PTL DEF Spec
=============================================================================
