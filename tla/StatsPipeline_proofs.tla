----------------------- MODULE StatsPipeline_proofs -----------------------
(***************************************************************************)
(* The pipeline keeps every promise of the ingest server, and implements    *)
(* the ledger, for every number of uploads, commits and retries.  At its    *)
(* end, the ratio made from the counts that went through it, for all counts *)
(* and any number of commits.                                               *)
(***************************************************************************)
EXTENDS StatsPipeline, StatsIngest_proofs, RatioLedger

\* What a client believes is true of the server: a 2xx answer ended the upload
\* and was read from a request the server answered 200.
ClientInv ==
  /\ upl \in [Uploads -> UplState]
  /\ \A u \in Uploads :
       /\ At(u, "backoff") => upl[u].try < MaxRetries
       /\ upl[u].last = "2xx" => At(u, "finished") /\ conn[Current(u)] = "ok"

\* A step of the pipeline is a step of the server or leaves it alone.
LEMMA StepIsServerStep == Next => [ServerNext]_vars
<1> USE DEF ServerNext, Handle, ServerStep
<1>1. ASSUME NEW u \in Uploads, Client(u) PROVE UNCHANGED vars
  BY <1>1 DEF Client, Receive, GatewayError, GiveUp
<1>2. ASSUME NEW c \in Conns, Serve(c) PROVE ServerNext
  BY <1>2 DEF Serve
<1>3. CASE Restart
  BY <1>3 DEF Restart
<1>4. QED
  BY <1>1, <1>2, <1>3 DEF Next

\* Hence the pipeline's behaviours are behaviours of the server.
THEOREM PipelineIsServer == Spec => ServerSpec
<1>1. Init => ServerInit
  BY DEF Init
<1>2. [Next]_vars_p => [ServerNext]_vars
  BY StepIsServerStep DEF vars_p
<1>3. QED
  BY <1>1, <1>2, PTL DEF Spec, ServerSpec

\* The client's bookkeeping is sound at the start and after every step.
LEMMA ClientInit == Init => ClientInv
  BY UploadAssumption DEF Init, UploaderInit, ClientInv, UplState, Outcomes, Terminal, At

\* The server never takes back an answer.
LEMMA AnswersStay ==
  ASSUME IInv, [ServerNext]_vars, NEW c \in Conns, conn[c] = "ok"
  PROVE  conn'[c] = "ok"
  BY DEF IInv, TablesOK, ServerNext, Handle, ServerStep, Duplicate, Accept,
     AcceptUnchecked, Reject, Abort, SaveStats, SetKey, SetKeyFails, Crash, Start,
     StartWithoutBackfill, vars

LEMMA ClientNext == IInv /\ ClientInv /\ [Next]_vars_p => ClientInv'
<1> SUFFICES ASSUME IInv, ClientInv, [Next]_vars_p PROVE ClientInv'
  OBVIOUS
<1> USE DEF ClientInv
<1>1. [ServerNext]_vars
  BY StepIsServerStep DEF vars_p
<1>2. \A u \in Uploads : Current(u) \in Conns
  BY PipelineAssumption DEF Current, Attempts, UplState
<1>3. CASE UNCHANGED upl
  BY <1>1, <1>2, <1>3, AnswersStay DEF Current, At
<1>4. ASSUME NEW u \in Uploads, Client(u) PROVE ClientInv'
  <2> DEFINE Ok(r) == /\ r \in UplState
                      /\ r.pc = "backoff" => r.try < MaxRetries
                      /\ r.last = "2xx" => r.pc = "finished" /\ conn[<<u, r.try>>] = "ok"
  <2>1. conn' = conn
    BY <1>4 DEF Client, Receive, GatewayError, GiveUp, vars
  <2>2. ASSUME NEW r, Ok(r), upl' = [upl EXCEPT ![u] = r] PROVE ClientInv'
    BY <2>1, <2>2 DEF At, Current
  <2>3. Ok(upl[u]) /\ NoteRetries \in Nat /\ MaxRetries \in Nat
    BY UploadAssumption DEF At, Current
  <2> DEFINE Moved(r) == upl' = [upl EXCEPT ![u] = r]
  <2>4. CASE Begin(u)
    <3>1. Moved([upl[u] EXCEPT !.pc = "query"])
      BY <2>4 DEF Begin
    <3>2. Ok([upl[u] EXCEPT !.pc = "query"])
      BY <2>3, <2>4 DEF Begin, At, UplState
    <3>3. QED
      BY <3>1, <3>2, <2>2
  <2>5. CASE QueryNull(u)
    <3>1. Moved([upl[u] EXCEPT !.pc = "skipped"])
      BY <2>5 DEF QueryNull
    <3>2. Ok([upl[u] EXCEPT !.pc = "skipped"])
      BY <2>3, <2>5 DEF QueryNull, At, UplState, Terminal
    <3>3. QED
      BY <3>1, <3>2, <2>2
  <2>6. CASE Query(u)
    <3> DEFINE taken == [upl[u] EXCEPT !.pc = "post"]
               again == [upl[u] EXCEPT !.query = @ + 1]
    <3>1. At(u, "query")
      BY <2>6 DEF Query
    <3>2. CASE Moved(taken)
      <4>1. Ok(taken)
        BY <3>1, <2>3 DEF At, UplState, Terminal
      <4>2. QED
        BY <3>2, <4>1, <2>2
    <3>3. CASE Moved(again) /\ upl[u].query # NoteRetries + 1
      <4> DEFINE q == upl[u].query
      <4>0. q \in 0..NoteRetries + 1
        BY <2>3 DEF UplState
      <4>1. q + 1 \in 0..NoteRetries + 1
        <5>1. q # NoteRetries + 1
          BY <3>3
        <5> HIDE DEF q
        <5>2. QED
          BY <5>1, <4>0, <2>3
      <4>2. again \in UplState
        BY <4>1, <2>3 DEF UplState
      <4>3. Ok(again)
        BY <3>1, <4>2, <2>3 DEF At
      <4>4. QED
        BY <3>3, <4>3, <2>2
    <3>4. QED
      BY <2>6, <3>2, <3>3 DEF Query
  <2>7. CASE Send(u)
    <3> DEFINE r == [upl[u] EXCEPT !.pc = "posting", !.last = "none"]
    <3>1. Moved(r)
      BY <2>7 DEF Send
    <3>2. Ok(r)
      BY <2>3, <2>7 DEF Send, At, UplState, Outcomes
    <3>3. QED
      BY <3>1, <3>2, <2>2
  <2>8. CASE Retry(u)
    <3> DEFINE r == [upl[u] EXCEPT !.pc = "post", !.try = @ + 1]
    <3>1. Moved(r)
      BY <2>8 DEF Retry
    <3>2. Ok(r)
      BY <2>3, <2>8 DEF Retry, At, UplState
    <3>3. QED
      BY <3>1, <3>2, <2>2
  <2>9. ASSUME NEW class \in {"2xx", "4xx", "5xx"}, GotStatus(u, class),
               class = "2xx" => conn[Current(u)] = "ok"
        PROVE  ClientInv'
    <3> DEFINE end  == [upl[u] EXCEPT !.pc = "finished", !.last = class]
               wait == [upl[u] EXCEPT !.pc = "backoff", !.last = class]
    <3>1. CASE Moved(end)
      <4>1. Ok(end)
        BY <2>3, <2>9 DEF GotStatus, At, UplState, Outcomes, Terminal, Current
      <4>2. QED
        BY <3>1, <4>1, <2>2
    <3>2. CASE Moved(wait) /\ class = "5xx" /\ upl[u].try # MaxRetries
      <4>1. upl[u].try \in 0..MaxRetries /\ wait.try = upl[u].try
        BY <2>3 DEF UplState
      <4>2. wait.try < MaxRetries
        BY <4>1, <3>2, <2>3
      <4>3. wait \in UplState /\ wait.last = "5xx"
        BY <3>2, <2>3 DEF UplState, Outcomes
      <4>4. Ok(wait)
        BY <4>2, <4>3
      <4>5. QED
        BY <3>2, <4>4, <2>2
    <3>3. QED
      BY <2>9, <3>1, <3>2 DEF GotStatus, Finish
  <2>10. CASE NetworkError(u)
    <3> DEFINE r == [upl[u] EXCEPT
                      !.pc = IF upl[u].try = MaxRetries THEN "failed" ELSE "backoff",
                      !.last = "error"]
    <3>1. Moved(r)
      BY <2>10 DEF NetworkError
    <3>2. upl[u].try \in 0..MaxRetries /\ r.try = upl[u].try
      BY <2>3 DEF UplState
    <3>3. r.pc = "backoff" => r.try < MaxRetries
      BY <3>2, <2>3 DEF UplState
    <3>4. r \in UplState /\ r.last = "error"
      BY <2>3 DEF UplState, Outcomes, Terminal
    <3>5. Ok(r)
      BY <3>3, <3>4
    <3>6. QED
      BY <3>1, <3>5, <2>2
  <2>11. QED
    BY <1>4, <2>4, <2>5, <2>6, <2>7, <2>8, <2>9, <2>10
       DEF Client, Local, Receive, GatewayError, GiveUp, Replies
<1>5. QED
  BY <1>3, <1>4 DEF Next, WriteNote, Serve, Restart, clientVars, vars_p

THEOREM ClientInvariance == Spec => [](IInv /\ ClientInv)
<1>1. Init => IInv /\ ClientInv
  BY InitInv, ClientInit DEF Init
<1>2. IInv /\ ClientInv /\ [Next]_vars_p => (IInv /\ ClientInv)'
  BY StepIsServerStep, NextInv, ClientNext DEF vars_p
<1>3. QED
  BY <1>1, <1>2, PTL DEF Spec

\* Over any number of windows, retries, crashes and lost answers, a commit is
\* stored twice only through an overlap or a fault at the key.
THEOREM PipelineDuplicates == Spec => []DuplicateOnlyIfExposed
<1>1. IInv => DuplicateOnlyIfExposed
  BY DEF IInv
<1>2. QED
  BY <1>1, ClientInvariance, PTL

\* A step of one client's code touches that client only, and none follows a
\* 2xx answer.
LEMMA ClientStep ==
  ASSUME ClientInv, NEW u \in Uploads, Client(u)
  PROVE  /\ ~At(u, "finished")
         /\ \A v \in Uploads : v # u => upl'[v] = upl[v]
         /\ rows' = rows
<1>1. rows' = rows
  BY DEF Client, Receive, GatewayError, GiveUp, vars
<1>2. CASE Local(u)
  BY <1>1, <1>2 DEF ClientInv, Local, Begin, QueryNull, Query, Send, Retry, At
<1>3. CASE ~Local(u)
  BY <1>1, <1>3 DEF ClientInv, Client, Receive, GatewayError, GiveUp, GotStatus, Finish,
     NetworkError, At
<1>4. QED
  BY <1>2, <1>3

\* The pipeline implements the ledger: a step stores one commit, or confirms
\* to one client a commit that is stored, or changes neither.
THEOREM PipelineLedger == Spec => ImplementsLedger
<1> DEFINE counted == {Payload[rows[i]].key : i \in DOMAIN rows}
           confirmed == {u \in Uploads : upl[u].last = "2xx"}
           Inv == IInv /\ ClientInv
<1>1. Init => Ledger!Init
  <2> SUFFICES ASSUME Init PROVE Ledger!Init
    OBVIOUS
  <2>1. \A f \in SetToSeqs(Legacy) : DOMAIN f = {}
    BY FS_EmptySet, PipelineAssumption DEF SetToSeqs
  <2>2. DOMAIN rows = {}
    BY <2>1 DEF Init, ServerInit
  <2>3. confirmed = {}
    BY DEF Init, UploaderInit
  <2>4. QED
    BY <2>2, <2>3 DEF Ledger!Init
<1>2. Inv /\ Inv' /\ [Next]_vars_p => [Ledger!Next]_<<counted, confirmed>>
  <2> SUFFICES ASSUME Inv, Inv', [Next]_vars_p
               PROVE  Ledger!Next \/ (counted' = counted /\ confirmed' = confirmed)
    OBVIOUS
  <2>1. \A u \in confirmed' : CommitOf[u] \in counted'
    <3> SUFFICES ASSUME NEW u \in Uploads, upl'[u].last = "2xx"
                 PROVE  CommitOf[u] \in counted'
      OBVIOUS
    <3> DEFINE c == Current(u)'
    <3>1. c \in Attempts /\ c[1] = u /\ conn'[c] = "ok"
      BY DEF ClientInv, Current, Attempts, UplState
    <3>2. c \in Conns /\ Key(c) = CommitOf[u]
      BY <3>1, PipelineAssumption DEF Key
    <3>3. PICK i \in DOMAIN rows' : rows'[i] = c \/ Key(rows'[i]) = Key(c)
      BY <3>1, <3>2 DEF IInv, AckImpliesRow, Key
    <3>4. QED
      BY <3>2, <3>3 DEF Key
  <2>2. ASSUME NEW c \in Conns, Serve(c)
        PROVE  Ledger!Next \/ (counted' = counted /\ confirmed' = confirmed)
    <3>1. confirmed' = confirmed
      BY <2>2 DEF Serve, clientVars
    <3>2. CASE rows' = rows
      BY <3>1, <3>2
    <3>3. CASE SaveStats(c)
      <4>1. counted' = counted \cup {Payload[c].key}
        BY <3>3, AppendRow DEF SaveStats, IInv, TablesOK
      <4>2. Payload[c].key \in Commits
        BY PipelineAssumption DEF Attempts, Commits
      <4>3. QED
        BY <3>1, <4>1, <4>2 DEF Ledger!Next, Ledger!Count
    <3>4. QED
      BY <2>2, <3>2, <3>3 DEF Serve, Duplicate, Accept, SetKey, Abort, AcceptUnchecked,
         Reject, SetKeyFails
  <2>3. ASSUME NEW u \in Uploads, Client(u)
        PROVE  Ledger!Next \/ (counted' = counted /\ confirmed' = confirmed)
    <3>1. u \notin confirmed /\ rows' = rows /\ counted' = counted
      BY <2>3, ClientStep DEF ClientInv
    <3>2. confirmed' = confirmed \/ (confirmed' = confirmed \cup {u} /\ u \in confirmed')
      BY <2>3, <3>1, ClientStep DEF ClientInv
    <3>3. QED
      BY <3>1, <3>2, <2>1 DEF Ledger!Next, Ledger!Confirm
  <2>4. CASE UNCHANGED <<rows, upl>>
    BY <2>4
  <2>5. QED
    BY <2>2, <2>3, <2>4 DEF Next, WriteNote, Restart, Crash, Start, vars, clientVars, vars_p
<1>3. QED
  BY <1>1, <1>2, ClientInvariance, PTL DEF Spec, ImplementsLedger, Ledger!Spec

(***************************************************************************)
(* The line counts and the cumulative ratio                                 *)
(***************************************************************************)
\* What every row sent by either path satisfies; sums preserve it.
Row(s) ==
  /\ s.ai \in Nat /\ s.human \in Nat /\ s.mixed \in Nat
  /\ s.mixed <= s.human

\* What the rows of the extension satisfy in addition.
FullRow(s) == s.mixed <= s.ai

\* git-ai stats: the mixed lines are among the human lines and the AI lines.
LEMMA GitAiRow ==
  ASSUME NEW added \in Nat, NEW accepted \in Nat, NEW overridden \in Nat
  PROVE  /\ Row(GitAiStats(added, accepted, overridden))
         /\ FullRow(GitAiStats(added, accepted, overridden))
         /\ GitAiStats(added, accepted, overridden).human <= added
  BY DEF GitAiStats, Row, FullRow, AtMost, Monus

\* The hook takes lines from ai_additions only; the human lines stay, since
\* git-ai never reports more of them than were added.
LEMMA HookRow ==
  ASSUME NEW added \in Nat, NEW accepted \in Nat, NEW overridden \in Nat
  PROVE  Row(HookAdjust(GitAiStats(added, accepted, overridden)))
  BY DEF HookAdjust, GitAiStats, Row, AtMost, Monus

\* The test with which queryCommitStatsWithRetry recognises a missing note
\* never fires: git-ai stats counts the lines of a commit without a note as
\* human lines, so every result looks complete and is uploaded at once.
THEOREM StatsAlwaysLookComplete ==
  ASSUME NEW added \in Nat, NEW accepted \in Nat, NEW overridden \in Nat
  PROVE  LooksComplete(GitAiStats(added, accepted, overridden))
  BY DEF LooksComplete, GitAiStats, AtMost, Monus

RatioInv ==
  /\ SumsOK
  /\ Row(sum)
  /\ ~viaHook => FullRow(sum)

LEMMA RatioInitInv == RatioInit => RatioInv
<1> SUFFICES ASSUME RatioInit PROVE RatioInv
  OBVIOUS
<1>1. SumsOK
  <2>1. sum \in [ai : Nat, human : Nat, mixed : Nat] /\ stored \in 0..MaxCommits
    BY BoundsAssumption DEF RatioInit
  <2>2. viaHook \in BOOLEAN
    BY Zenon DEF RatioInit
  <2>3. QED
    BY <2>1, <2>2 DEF SumsOK
<1>2. Row(sum) /\ FullRow(sum)
  BY DEF RatioInit, Row, FullRow
<1>3. QED
  BY <1>1, <1>2 DEF RatioInv

LEMMA RatioNextInv == RatioInv /\ [RatioNext]_ratioVars => RatioInv'
<1> SUFFICES ASSUME RatioInv, [RatioNext]_ratioVars PROVE RatioInv'
  OBVIOUS
<1>1. ASSUME NEW s, Row(s), Store(s), viaHook' \in BOOLEAN,
             ~viaHook' => ~viaHook /\ FullRow(s)
      PROVE  RatioInv'
  BY <1>1, BoundsAssumption DEF RatioInv, SumsOK, Row, FullRow, Store
<1>2. ASSUME NEW added \in 0..MaxLines, NEW accepted \in 0..MaxLines,
             NEW overridden \in 0..MaxLines,
             UploadFromExtension(added, accepted, overridden)
      PROVE  RatioInv'
  <2> DEFINE s == GitAiStats(added, accepted, overridden)
  <2>1. added \in Nat /\ accepted \in Nat /\ overridden \in Nat
    BY BoundsAssumption
  <2>2. Row(s) /\ FullRow(s)
    BY <2>1, GitAiRow
  <2>3. Store(s) /\ viaHook' = viaHook
    BY <1>2 DEF UploadFromExtension
  <2> HIDE DEF s
  <2>4. QED
    BY <1>1, <2>2, <2>3 DEF RatioInv, SumsOK
<1>3. ASSUME NEW added \in 0..MaxLines, NEW accepted \in 0..MaxLines,
             NEW overridden \in 0..MaxLines,
             UploadFromHook(added, accepted, overridden)
      PROVE  RatioInv'
  <2> DEFINE s == HookAdjust(GitAiStats(added, accepted, overridden))
  <2>1. added \in Nat /\ accepted \in Nat /\ overridden \in Nat
    BY BoundsAssumption
  <2>2. Row(s)
    BY <2>1, HookRow
  <2>3. Store(s) /\ viaHook' = TRUE
    BY <1>3 DEF UploadFromHook
  <2> HIDE DEF s
  <2>4. QED
    BY <1>1, <2>2, <2>3
<1>4. CASE UNCHANGED ratioVars
  BY <1>4 DEF ratioVars, RatioInv, SumsOK, Row, FullRow
<1>5. QED
  BY <1>2, <1>3, <1>4 DEF RatioNext

THEOREM RatioInvariance == RatioSpec => []RatioInv
<1>1. QED
  BY RatioInitInv, RatioNextInv, PTL DEF RatioSpec

\* The sums stay line counts.
THEOREM SumsCorrect == RatioSpec => []SumsOK
<1>1. RatioInv => SumsOK
  BY DEF RatioInv
<1>2. QED
  BY <1>1, RatioInvariance, PTL

\* With uploads of the extension alone the stored ratio is a proportion.
THEOREM ExtensionRatio == RatioSpec => []ExtensionRatioInUnit
<1>1. RatioInv => ExtensionRatioInUnit
  BY DEF RatioInv, SumsOK, Row, FullRow, ExtensionRatioInUnit, TwiceNumerator, RatioTotal
<1>2. QED
  BY <1>1, RatioInvariance, PTL

\* Whichever path uploads, the ratio does not exceed one.
THEOREM RatioBound == RatioSpec => []RatioAtMostOne
<1>1. RatioInv => RatioAtMostOne
  BY DEF RatioInv, SumsOK, Row, RatioAtMostOne, TwiceNumerator, RatioTotal
<1>2. QED
  BY <1>1, RatioInvariance, PTL
=============================================================================
