--------------------------- MODULE StatsPipeline ---------------------------
(***************************************************************************)
(* Uploads and the ingest server together.  Attempt n of upload u is the    *)
(* request <<u, n>>; a request the client has given up on may still be on   *)
(* its way or being read, so a retry can overtake it.                       *)
(***************************************************************************)
EXTENDS StatsUploader, StatsIngest

CONSTANTS
  DbFaults,   \* whether SQLite may fail (locked, full) under a handler
  Gateway     \* whether something in front of the server may answer 5xx

vars_p == <<vars, clientVars>>

Attempts == Uploads \X (0..MaxRetries)

\* Requests are the attempts, keyed by commit: sha256(commit_sha:machine_id)
\* of one machine.
ASSUME PipelineAssumption ==
  /\ Conns = Attempts /\ Legacy = {}
  /\ \A c \in Attempts : Payload[c].key = CommitOf[c[1]]

Current(u) == <<u, upl[u].try>>

\* The request has left the client, whatever the client thinks of it now.
Sent(c) ==
  LET u == c[1] IN
    \/ c[2] < upl[u].try
    \/ c[2] = upl[u].try /\ upl[u].pc \in {"posting", "backoff", "finished", "failed"}

\* The server's side of a request that is on its way.
Serve(c) ==
  /\ Sent(c)
  /\ \/ Duplicate(c) \/ Accept(c) \/ SaveStats(c) \/ SetKey(c) \/ Abort(c)
     \/ DbFaults /\ (AcceptUnchecked(c) \/ Reject(c) \/ SetKeyFails(c))
  /\ UNCHANGED clientVars

\* The process dies or starts.
Restart == (Crash \/ Start) /\ UNCHANGED clientVars

\* The answer of the current attempt arrives.
Receive(u) ==
  /\ conn[Current(u)] \in Replies
  /\ GotStatus(u, IF conn[Current(u)] = "ok" THEN "2xx" ELSE "4xx")
  /\ UNCHANGED vars

\* A proxy answers 5xx, whether or not the server ever sees the request.
GatewayError(u) ==
  /\ Gateway
  /\ GotStatus(u, "5xx")
  /\ UNCHANGED vars

\* Broken variant: no client timeout, only a reset of the connection is seen.
GiveUpOnReset(u) ==
  /\ conn[Current(u)] = "gone"
  /\ NetworkError(u) /\ UNCHANGED vars

\* Refused, reset or timed out; the request itself may live on.
GiveUp(u) == NetworkError(u) /\ UNCHANGED vars

Client(u) == (Local(u) /\ UNCHANGED vars) \/ Receive(u) \/ GatewayError(u) \/ GiveUp(u)

Init == ServerInit /\ UploaderInit

Next ==
  \/ \E k \in Commits : WriteNote(k) /\ UNCHANGED vars
  \/ \E u \in Uploads : Client(u)
  \/ \E c \in Conns : Serve(c)
  \/ Restart

\* The client's own steps and its 10 s timer run; nothing is assumed of the
\* server, of the network or of the note.
Fairness ==
  \A u \in Uploads :
    /\ WF_vars_p(Local(u) /\ UNCHANGED vars)
    /\ WF_vars_p(GiveUp(u))

Spec == Init /\ [][Next]_vars_p
FairSpec == Spec /\ Fairness

(***************************************************************************)
(* Properties                                                               *)
(***************************************************************************)
\* The pipeline implements the ledger: counted commits stay counted and every
\* client that saw a 2xx answer saw it after its commit was stored.
Ledger == INSTANCE StatsLedger WITH
  Clients <- Uploads,
  counted <- {Payload[rows[i]].key : i \in DOMAIN rows},
  confirmed <- {u \in Uploads : upl[u].last = "2xx"}
ImplementsLedger == Ledger!Spec

\* Once the last retry is spent every upload has ended, however the server,
\* the network and the note behave: no upload hangs.
EveryUploadEnds == \A u \in Uploads : <>(upl[u].pc \in Terminal)
=============================================================================
