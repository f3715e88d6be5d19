--------------------------- MODULE StatsUploader ---------------------------
(***************************************************************************)
(* The extension's upload of one commit's statistics                        *)
(* (kiro-plugin/src/statsUploader.ts): query `git-ai stats`, retrying while *)
(* the authorship note seems missing, then POST with retries, then append   *)
(* the payload to the local debug log.  The server and the process that     *)
(* writes the note are this module's environment.                           *)
(***************************************************************************)
EXTENDS CommitStats

CONSTANTS
  Uploads,      \* calls of uploadCommitStats, over all windows of the machine
  CommitOf,     \* CommitOf[u] : the commit u uploads
  LinesAdded,   \* LinesAdded[k], LinesByAI[k] : added lines, AI lines of commit k
  LinesByAI,
  MaxRetries,   \* MAX_RETRIES, 3 in the code
  NoteRetries   \* NOTE_RETRY_COUNT, 3 in the code

Commits == {CommitOf[u] : u \in Uploads}

ASSUME UploadAssumption ==
  /\ LinesAdded \in [Commits -> Nat] /\ LinesByAI \in [Commits -> Nat]
  /\ MaxRetries \in Nat /\ NoteRetries \in Nat

VARIABLES
  note,    \* commits whose authorship note is written
  upl,     \* upl[u].pc : where the call is; .query, .try : its attempts
  debug    \* uploads appended to ai/last_upload_payload.json

clientVars == <<note, upl, debug>>

Terminal == {"finished", "failed", "skipped"}
Outcomes == {"none", "2xx", "4xx", "5xx", "error"}
UplState ==
  [pc : {"idle", "query", "post", "posting", "backoff"} \cup Terminal,
   query : 0..NoteRetries + 1, try : 0..MaxRetries, last : Outcomes]

At(u, pc) == upl[u].pc = pc

\* git-ai stats: the note's attribution, or none of it.
Stats(k) ==
  GitAiStats(LinesAdded[k], IF k \in note THEN LinesByAI[k] ELSE 0, 0)

\* git-ai post-commit writes the note (by the hook or by runPostCommit).
WriteNote(k) ==
  /\ k \notin note
  /\ note' = note \cup {k}
  /\ UNCHANGED <<upl, debug>>

Begin(u) ==
  /\ At(u, "idle")
  /\ upl' = [upl EXCEPT ![u].pc = "query"]
  /\ UNCHANGED <<note, debug>>

\* git-ai stats fails or prints no JSON: nothing to upload.
QueryNull(u) ==
  /\ At(u, "query")
  /\ upl' = [upl EXCEPT ![u].pc = "skipped"]
  /\ UNCHANGED <<note, debug>>

\* Stats that look complete are uploaded; others are queried again, after 2 s
\* each time, and once more after the last wait, when anything is taken.
Query(u) ==
  /\ At(u, "query")
  /\ upl' = IF LooksComplete(Stats(CommitOf[u])) \/ upl[u].query = NoteRetries + 1
              THEN [upl EXCEPT ![u].pc = "post"]
              ELSE [upl EXCEPT ![u].query = @ + 1]
  /\ UNCHANGED <<note, debug>>

\* doPost: the request leaves.
Send(u) ==
  /\ At(u, "post")
  /\ upl' = [upl EXCEPT ![u].pc = "posting", ![u].last = "none"]
  /\ UNCHANGED <<note, debug>>

\* postWithRetry returns for every 2xx and 4xx, and falls out of its loop after
\* the last 5xx; in each case uploadCommitStats logs the upload.
Finish(u, class) ==
  /\ upl' = [upl EXCEPT ![u].pc = "finished", ![u].last = class]
  /\ debug' = debug \cup {u}

GotStatus(u, class) ==
  /\ At(u, "posting")
  /\ IF class \in {"2xx", "4xx"} \/ upl[u].try = MaxRetries
       THEN Finish(u, class)
       ELSE /\ upl' = [upl EXCEPT ![u].pc = "backoff", ![u].last = class]
            /\ UNCHANGED debug
  /\ UNCHANGED note

\* A network error or the 10 s timeout: retried, and thrown after the last.
NetworkError(u) ==
  /\ At(u, "posting")
  /\ upl' = [upl EXCEPT
       ![u].pc = IF upl[u].try = MaxRetries THEN "failed" ELSE "backoff",
       ![u].last = "error"]
  /\ UNCHANGED <<note, debug>>

\* 2, 4 or 8 seconds later.
Retry(u) ==
  /\ At(u, "backoff")
  /\ upl' = [upl EXCEPT ![u].pc = "post", ![u].try = @ + 1]
  /\ UNCHANGED <<note, debug>>

UploaderInit ==
  /\ note = {}
  /\ upl = [u \in Uploads |->
              [pc |-> "idle", query |-> 0, try |-> 0, last |-> "none"]]
  /\ debug = {}

Local(u) ==
  \/ Begin(u)
  \/ QueryNull(u) \/ Query(u)
  \/ Send(u) \/ Retry(u)

=============================================================================
