---------------------------- MODULE StatsIngest ----------------------------
(***************************************************************************)
(* The ingest server of the dashboard (kiro-dashboard/src/ingest.js) over   *)
(* its SQLite store (kiro-dashboard/src/store.js): the POST /api/v1/stats   *)
(* route.  A request checks its idempotency key when its headers arrive,    *)
(* reads its body asynchronously, and only then inserts the commit row and  *)
(* records the key: three moments between which other requests, database    *)
(* errors and a crash of the process can fall.                              *)
(***************************************************************************)
EXTENDS Naturals, Sequences, FiniteSets, SequencesExt

CONSTANTS
  Conns,    \* the HTTP requests that ever reach the route, each used once
  Payload,  \* Payload[c] : what request c carries
  NoKey,    \* the key of a request that sends no X-Idempotency-Key header
  Repos,    \* repo_name values
  Legacy    \* commits stored before ai_ratio_history existed (migrated rows)

Keys == {Payload[c].key : c \in Conns} \ {NoKey}

(* A payload is its key, its repository, the line total it adds to the      *)
(* ratio (ai + human - mixed, see CommitStats) and its reported_at.         *)
ASSUME PayloadAssumption ==
  /\ Payload \in [Conns \cup Legacy ->
       [key : Keys \cup {NoKey}, repo : Repos, lines : Nat, at : Nat]]
  /\ Legacy \cap Conns = {} /\ IsFiniteSet(Legacy)
  /\ \A c \in Legacy : Payload[c].key = NoKey

VARIABLES
  up,       \* the process is running
  conn,     \* conn[c] : how far request c is
  rows,     \* table commits, in id order; a row is the request that wrote it
  keys,     \* table idempotency_keys
  history,  \* table ai_ratio_history, in id order
  \* Observation only, never read by an action:
  exposed,  \* keys whose check and insert met an overlap, a fault or a crash
  lost      \* a backfill failed

vars == <<up, conn, rows, keys, history, exposed, lost>>

Replies == {"ok", "bad"}
ConnState == {"idle", "reading", "saved", "gone"} \cup Replies

Key(c) == Payload[c].key

(***************************************************************************)
(* The ratio history                                                        *)
(***************************************************************************)
\* SUM over the rows of one repository: how many lines they have together.
CountedLines(rs, p) ==
  UNION {{i} \X (1..Payload[rs[i]].lines) : i \in {j \in DOMAIN rs : Payload[rs[j]].repo = p}}
RepoTotal(rs, p) == Cardinality(CountedLines(rs, p))

\* recordAiRatioSnapshot: the cumulative total, unless it is still zero.
Recorded(h, rs, c) ==
  LET p == Payload[c].repo
      t == RepoTotal(rs, p)
  IN  IF t = 0 THEN h ELSE Append(h, [repo |-> p, total |-> t])

\* ORDER BY reported_at, which leaves the order of equal times open.
ByTime(rs) ==
  {s \in {[i \in DOMAIN rs |-> rs[perm[i]]] : perm \in Bijection(DOMAIN rs, DOMAIN rs)} :
     \A i, j \in DOMAIN s : i < j => Payload[s[i]].at <= Payload[s[j]].at}

\* backfillAiRatioHistory: replay the rows one by one, in such an order.
Replayed(s) ==
  LET H[i \in 0..Len(s)] ==
        IF i = 0 THEN <<>> ELSE Recorded(H[i - 1], SubSeq(s, 1, i), s[i])
  IN  H[Len(s)]
Backfill(rs) == {Replayed(s) : s \in ByTime(rs)}

(***************************************************************************)
(* The handlers.  Node runs one callback at a time: while a request is      *)
(* between its two writes nothing but a crash or its own next write runs.   *)
(***************************************************************************)
Running == up /\ \A c \in Conns : conn[c] # "saved"

Overlapped(c) ==
  Key(c) \in Keys /\ \E d \in Conns \ {c} : conn[d] = "reading" /\ Key(d) = Key(c)

Expose(S) == exposed' = exposed \cup (S \cap Keys)

\* Headers arrive and the key is already recorded: 200 at once.
Duplicate(c) ==
  /\ Running /\ conn[c] = "idle"
  /\ Key(c) \in keys
  /\ conn' = [conn EXCEPT ![c] = "ok"]
  /\ UNCHANGED <<up, rows, keys, history, exposed, lost>>

\* Broken variant: the key is recorded when it is checked, before the save.
AcceptMarksKey(c) ==
  /\ Running /\ conn[c] = "idle"
  /\ Key(c) \notin keys
  /\ conn' = [conn EXCEPT ![c] = "reading"]
  /\ keys' = keys \cup ({Key(c)} \ {NoKey})
  /\ Expose(IF Overlapped(c) THEN {Key(c)} ELSE {})
  /\ UNCHANGED <<up, rows, history, lost>>

\* Headers arrive, the key is not recorded: start reading the body.
Accept(c) ==
  /\ Running /\ conn[c] = "idle"
  /\ Key(c) \notin keys
  /\ conn' = [conn EXCEPT ![c] = "reading"]
  /\ Expose(IF Overlapped(c) THEN {Key(c)} ELSE {})
  /\ UNCHANGED <<up, rows, keys, history, lost>>

\* hasIdempotencyKey catches a query error and answers "not seen".
AcceptUnchecked(c) ==
  /\ Running /\ conn[c] = "idle" /\ Key(c) # NoKey
  /\ conn' = [conn EXCEPT ![c] = "reading"]
  /\ Expose({Key(c)})
  /\ UNCHANGED <<up, rows, keys, history, lost>>

\* Broken variant: an error while saving is answered like a success.
RejectAsOk(c) ==
  /\ Running /\ conn[c] = "reading"
  /\ conn' = [conn EXCEPT ![c] = "ok"]
  /\ UNCHANGED <<up, rows, keys, history, exposed, lost>>

\* 413 for a body over 10 MB, 400 for bad JSON, for a missing repo_name or
\* commit_sha, and for an exception of saveStats, whose transaction rolls back.
Reject(c) ==
  /\ Running /\ conn[c] = "reading"
  /\ conn' = [conn EXCEPT ![c] = "bad"]
  /\ UNCHANGED <<up, rows, keys, history, exposed, lost>>

\* The client goes away before its body is complete: "end" never fires.
Abort(c) ==
  /\ Running /\ conn[c] = "reading"
  /\ conn' = [conn EXCEPT ![c] = "gone"]
  /\ UNCHANGED <<up, rows, keys, history, exposed, lost>>

\* Broken variant: the snapshot is taken before the row is inserted.
SaveStatsLateRow(c) ==
  /\ Running /\ conn[c] = "reading"
  /\ conn' = [conn EXCEPT ![c] = "saved"]
  /\ rows' = Append(rows, c)
  /\ history' = Recorded(history, rows, c)
  /\ UNCHANGED <<up, keys, exposed, lost>>

\* "end": saveStats commits the row and its snapshot in one transaction.
SaveStats(c) ==
  /\ Running /\ conn[c] = "reading"
  /\ conn' = [conn EXCEPT ![c] = "saved"]
  /\ rows' = Append(rows, c)
  /\ history' = Recorded(history, rows', c)
  /\ UNCHANGED <<up, keys, exposed, lost>>

\* Broken variant: setIdempotencyKey is never called.
SetKeyForgotten(c) ==
  /\ up /\ conn[c] = "saved"
  /\ conn' = [conn EXCEPT ![c] = "ok"]
  /\ UNCHANGED <<up, rows, keys, history, exposed, lost>>

\* setIdempotencyKey (INSERT OR IGNORE), then 200.
SetKey(c) ==
  /\ up /\ conn[c] = "saved"
  /\ keys' = keys \cup ({Key(c)} \ {NoKey})
  /\ conn' = [conn EXCEPT ![c] = "ok"]
  /\ UNCHANGED <<up, rows, history, exposed, lost>>

\* setIdempotencyKey throws: the handler's catch answers 400, the row stays.
SetKeyFails(c) ==
  /\ up /\ conn[c] = "saved" /\ Key(c) # NoKey
  /\ conn' = [conn EXCEPT ![c] = "bad"]
  /\ Expose({Key(c)})
  /\ UNCHANGED <<up, rows, keys, history, lost>>

\* The process dies; what was committed stays.
Crash ==
  /\ up
  /\ up' = FALSE
  /\ conn' = [c \in Conns |-> IF conn[c] \in {"reading", "saved"} THEN "gone" ELSE conn[c]]
  /\ Expose({Key(c) : c \in {d \in Conns : conn[d] = "saved"}})
  /\ UNCHANGED <<rows, keys, history, lost>>

\* The process starts: store.js backfills an empty history table.
Start ==
  /\ ~up
  /\ up' = TRUE
  /\ history' \in IF history = <<>> THEN Backfill(rows) ELSE {history}
  /\ UNCHANGED <<conn, rows, keys, exposed, lost>>

\* The backfill throws; the error is logged and the server starts anyway.
StartWithoutBackfill ==
  /\ ~up /\ history = <<>> /\ rows # <<>>
  /\ up' = TRUE
  /\ lost' = TRUE
  /\ UNCHANGED <<conn, rows, keys, history, exposed>>

ServerInit ==
  /\ up = FALSE
  /\ conn = [c \in Conns |-> "idle"]
  /\ rows \in {<<>>} \cup SetToSeqs(Legacy)
  /\ keys = {}
  /\ history = <<>>
  /\ exposed = {}
  /\ lost = FALSE

Handle(c) ==
  \/ Duplicate(c)
  \/ Accept(c)
  \/ AcceptUnchecked(c)
  \/ Reject(c)
  \/ Abort(c)
  \/ SaveStats(c)
  \/ SetKey(c)
  \/ SetKeyFails(c)

ServerStep == Crash \/ Start \/ StartWithoutBackfill

ServerNext == ServerStep \/ \E c \in Conns : Handle(c)

ServerSpec == ServerInit /\ [][ServerNext]_vars

(***************************************************************************)
(* Properties                                                               *)
(***************************************************************************)

\* What the tables and connections can hold.
TablesOK ==
  /\ up \in BOOLEAN
  /\ conn \in [Conns -> ConnState]
  /\ rows \in Seq(Conns \cup Legacy)
  /\ keys \subseteq Keys
  /\ exposed \subseteq Keys
  /\ lost \in BOOLEAN

Stored(k) == {i \in DOMAIN rows : Key(rows[i]) = k}

\* A recorded key always has its commit row: the duplicate answer of ingest.js
\* can never swallow a commit that was not stored, whatever crashed in between.
KeyImpliesRow == \A k \in keys : Stored(k) # {}

\* A 200 answer means the commit is stored, whether the request wrote the row
\* itself or was answered as a duplicate.
AckImpliesRow ==
  \A c \in Conns : conn[c] = "ok" =>
    \E i \in DOMAIN rows : rows[i] = c \/ (Key(c) # NoKey /\ Key(rows[i]) = Key(c))

\* A commit is stored at most once per key as long as no two of its requests
\* are read at the same time and no fault falls between the key check and the
\* key insert: exactly the windows where the code's check-then-act can fail.
DuplicateOnlyIfExposed ==
  \A k \in Keys \ exposed : \A i, j \in Stored(k) : i = j

\* What the upload documentation promises without that condition.
StoredAtMostOnce == \A k \in Keys : \A i, j \in Stored(k) : i = j

\* h is the history of the rows rs.  The newest snapshot of a repository has the
\* total of all its rows; one without a snapshot has none, or its were not made.
IsHistory(h, rs, unmade) ==
  \A p \in Repos :
    /\ \A i \in DOMAIN h :
         h[i].repo = p /\ (\A j \in DOMAIN h : i < j => h[j].repo # p)
           => h[i].total = RepoTotal(rs, p)
    /\ (\A i \in DOMAIN h : h[i].repo # p) => RepoTotal(rs, p) = 0 \/ unmade

\* The newest snapshot of a repository is the total of all its stored commits,
\* whether the snapshots came from the backfill or from live inserts; only a
\* failed backfill leaves a repository with commits and no snapshot.
HistoryCurrent == up => IsHistory(history, rows, lost)
=============================================================================
