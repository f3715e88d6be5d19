---------------------- MODULE SessionLogWatcher_proofs ----------------------
(***************************************************************************)
(* Proofs about the execution-log watcher, for any number of logs, actions  *)
(* and overlapping runs, with faults, eviction and disposal: what the set   *)
(* of checkpointed actions hides, and what it lets through again.           *)
(***************************************************************************)
EXTENDS SessionLogWatcher, FiniteSetTheorems, TLAPS

Pcs == {"idle", "check", "parse", "refresh", "human", "ai"}
\* A run holds actions of its log only.
RunOf(f) == [pc : Pcs, log : {f}, cold : BOOLEAN, len : 0..Len(Passes[f]),
             acts : SUBSET ActionsOf(f), repo : Repos \cup {""}]

Shape ==
  /\ size \in [Logs -> Nat] /\ \A f \in Logs : size[f] <= 2 * Len(Passes[f])
  /\ timer \subseteq Logs /\ todo \subseteq Logs
  /\ run = [r \in Runs |-> run[r]] /\ \A r \in Runs : run[r] = Idle \/ \E f \in Logs : run[r] \in RunOf(f)
  /\ sent \subseteq Actions /\ resent \subseteq sent /\ dropped \subseteq Actions
  /\ keys \in Seq({MarkKey[a] : a \in Actions})

\* What is remembered was sent.
KeysSent == \A k \in ToSet(keys) : \E a \in sent : MarkKey[a] = k

\* An action that nothing exposed: it is not sent twice because it is remembered
\* once it was sent, and no run has it in hand then; before, one run at most.
Once(a) ==
  /\ a \notin resent
  /\ a \in sent => MarkKey[a] \in ToSet(keys)
  /\ \A r \in Runs : a \in run[r].acts => a \notin sent
  /\ \A r, s \in Runs : a \in run[r].acts /\ a \in run[s].acts => r = s
Unexposed == {a \in Actions \ exposed : RawKey[a] = MarkKey[a]}
IInv == Shape /\ KeysSent /\ FilteredWasSent /\ \A a \in Unexposed : Once(a)

(***************************************************************************)
(* The remembered keys                                                      *)
(***************************************************************************)
LEMMA SetToSeqIs ==
  ASSUME NEW K, IsFiniteSet(K)
  PROVE  SetToSeq(K) \in Seq(K) /\ ToSet(SetToSeq(K)) = K
<1> DEFINE n == Cardinality(K)
           q == SetToSeq(K)
<1>1. n \in Nat /\ ExistsBijection(1..n, K)
  BY FS_CardinalityType
<1>2. PICK b \in Bijection(1..n, K) : TRUE
  BY <1>1 DEF ExistsBijection
<1>3. b \in [1..n -> K] /\ IsInjective(b)
  BY <1>2 DEF Bijection, Injection
<1>4. q \in [1..n -> K] /\ IsInjective(q)
  BY <1>3 DEF SetToSeq
<1>5. \A x \in K : \E i \in 1..n : q[i] = x
  <2>1. IsFiniteSet(1..n) /\ Cardinality(1..n) = n
    BY <1>1, FS_Interval
  <2>2. q \in Injection(1..n, K)
    BY <1>4 DEF Injection
  <2> HIDE DEF q
  <2>3. q \in Surjection(1..n, K)
    BY <2>1, <2>2, FS_Injection
  <2>4. QED
    BY <2>3 DEF Surjection
<1>6. QED
  BY <1>1, <1>4, <1>5 DEF ToSet

LEMMA RememberIs ==
  ASSUME NEW S, NEW ks \in Seq(S), NEW K \in SUBSET S, IsFiniteSet(K)
  PROVE  Remember(ks, K) \in Seq(S) /\ ToSet(Remember(ks, K)) = ToSet(ks) \cup K
<1> DEFINE q == SetToSeq(K \ ToSet(ks))
<1>1. q \in Seq(K \ ToSet(ks)) /\ ToSet(q) = K \ ToSet(ks)
  BY FS_Difference, SetToSeqIs
<1>2. q \in Seq(S)
  BY <1>1
<1> HIDE DEF q
<1>3. ks \o q \in Seq(S)
  BY <1>2
<1>4. DOMAIN (ks \o q) = 1..(Len(ks) + Len(q)) /\ DOMAIN ks = 1..Len(ks) /\ DOMAIN q = 1..Len(q)
      /\ Len(ks) \in Nat /\ Len(q) \in Nat
      /\ \A i \in 1..(Len(ks) + Len(q)) : (ks \o q)[i] = IF i <= Len(ks) THEN ks[i] ELSE q[i - Len(ks)]
  BY <1>2
<1>5. ToSet(ks \o q) = ToSet(ks) \cup ToSet(q)
  <2>1. ASSUME NEW x \in ToSet(ks \o q) PROVE x \in ToSet(ks) \cup ToSet(q)
    <3>1. PICK i \in 1..(Len(ks) + Len(q)) : x = (ks \o q)[i]
      BY <1>4 DEF ToSet
    <3>2. i <= Len(ks) => i \in DOMAIN ks /\ x = ks[i]
      BY <1>4, <3>1
    <3>3. ~(i <= Len(ks)) => i - Len(ks) \in DOMAIN q /\ x = q[i - Len(ks)]
      BY <1>4, <3>1
    <3>4. QED
      BY <3>2, <3>3 DEF ToSet
  <2>2. ASSUME NEW i \in DOMAIN ks PROVE ks[i] \in ToSet(ks \o q)
    <3>1. i \in DOMAIN (ks \o q) /\ (ks \o q)[i] = ks[i]
      BY <1>4
    <3>2. QED
      BY <3>1 DEF ToSet
  <2>3. ASSUME NEW i \in DOMAIN q PROVE q[i] \in ToSet(ks \o q)
    <3>1. i + Len(ks) \in DOMAIN (ks \o q) /\ (ks \o q)[i + Len(ks)] = q[i]
      BY <1>4
    <3>2. QED
      BY <3>1 DEF ToSet
  <2>4. QED
    BY <2>1, <2>2, <2>3 DEF ToSet
<1>6. Remember(ks, K) = ks \o q
  BY DEF Remember, q
<1>7. QED
  BY <1>1, <1>3, <1>5, <1>6

LEMMA CappedIs ==
  ASSUME NEW S, NEW ks \in Seq(S)
  PROVE  Capped(ks) \in Seq(S) /\ ToSet(Capped(ks)) \subseteq ToSet(ks)
<1>1. CASE Len(ks) > MaxKeys
  <2> DEFINE m == Len(ks) - MaxKeys + 1
  <2>1. m \in 1..(Len(ks) + 1) /\ Len(ks) \in Nat /\ DOMAIN ks = 1..Len(ks)
    BY <1>1, WatcherAssumption
  <2>2. Capped(ks) = SubSeq(ks, m, Len(ks))
    BY <1>1 DEF Capped
  <2> HIDE DEF m
  <2>3. /\ SubSeq(ks, m, Len(ks)) \in Seq(S)
        /\ DOMAIN SubSeq(ks, m, Len(ks)) = 1..(Len(ks) - m + 1)
        /\ \A i \in 1..(Len(ks) - m + 1) : SubSeq(ks, m, Len(ks))[i] = ks[m + i - 1]
    BY <2>1
  <2>4. \A i \in 1..(Len(ks) - m + 1) : m + i - 1 \in DOMAIN ks
    BY <2>1
  <2>5. QED
    BY <2>2, <2>3, <2>4 DEF ToSet
<1>2. CASE ~(Len(ks) > MaxKeys)
  BY <1>2 DEF Capped
<1>3. QED
  BY <1>1, <1>2

LEMMA LogActions ==
  ASSUME NEW f \in Logs
  PROVE  /\ Passes[f] \in Seq(Nat) /\ Len(Passes[f]) \in Nat /\ ActionsOf(f) \subseteq Actions
         /\ \A n \in 0..Len(Passes[f]) : Written(f, n) \subseteq ActionsOf(f)
         /\ IsFiniteSet(ActionsOf(f))
<1> DEFINE W == {Written(f, n) : n \in DOMAIN Passes[f]}
           A == {ActionsOf(g) : g \in Logs}
<1>1. Passes[f] \in Seq(Nat)
  BY WatcherAssumption
<1>2. Len(Passes[f]) \in Nat /\ DOMAIN Passes[f] = 1..Len(Passes[f]) /\ \A n \in DOMAIN Passes[f] : Passes[f][n] \in Nat
  BY <1>1
<1>3. ActionsOf(f) \subseteq Actions
  <2>1. ActionsOf(f) \in A
    BY Zenon
  <2>2. Actions = UNION A
    BY DEF Actions
  <2> HIDE DEF A
  <2>3. QED
    BY <2>1, <2>2
<1>4. ASSUME NEW n \in 0..Len(Passes[f]) PROVE Written(f, n) \subseteq ActionsOf(f)
  <2>1. CASE n = 0
    BY <2>1 DEF Written
  <2>2. CASE n # 0
    <3>1. n \in DOMAIN Passes[f]
      BY <1>2, <2>2
    <3>2. Written(f, n) \in W
      BY <3>1, Zenon
    <3>3. ActionsOf(f) = UNION W
      BY DEF ActionsOf
    <3> HIDE DEF W
    <3>4. QED
      BY <3>2, <3>3
  <2>3. QED
    BY <2>1, <2>2
<1>5. ASSUME NEW n \in DOMAIN Passes[f] PROVE IsFiniteSet(Written(f, n))
  <2> DEFINE m == Passes[f][n]
             pair == [i \in 1..m |-> <<f, i>>]
             T == {<<f, i>> : i \in 1..m}
  <2>0. m \in Nat
    BY <1>2
  <2>1. IsFiniteSet(1..m)
    <3> HIDE DEF m
    <3>1. QED
      BY <2>0, FS_Interval
  <2>2. pair \in Surjection(1..m, T)
    BY DEF Surjection
  <2>3. IsFiniteSet(T)
    BY <2>1, <2>2, FS_Surjection
  <2>4. n # 0
    BY <1>2
  <2>5. QED
    BY <2>3, <2>4 DEF Written
<1>6. IsFiniteSet(W)
  <2> DEFINE w == [n \in DOMAIN Passes[f] |-> Written(f, n)]
  <2>1. IsFiniteSet(DOMAIN Passes[f])
    BY <1>2, FS_Interval
  <2>2. w \in Surjection(DOMAIN Passes[f], W)
    BY DEF Surjection
  <2>3. QED
    BY <2>1, <2>2, FS_Surjection
<1>7. IsFiniteSet(ActionsOf(f))
  <2>1. \A w \in W : IsFiniteSet(w)
    BY <1>5
  <2>2. ActionsOf(f) = UNION W
    BY DEF ActionsOf
  <2> HIDE DEF W
  <2>3. QED
    BY <1>6, <2>1, <2>2, FS_UNION
<1>8. QED
  BY <1>1, <1>2, <1>3, <1>4, <1>7

LEMMA IdleIs ==
  /\ Idle.pc = "idle" /\ Idle.acts = {}
  /\ \A f \in Logs : [Idle EXCEPT !.pc = "parse", !.log = f, !.cold = TRUE] \in RunOf(f)
  /\ \A f \in Logs : [Idle EXCEPT !.pc = "check", !.log = f] \in RunOf(f)
  /\ \A f \in Logs : [Idle EXCEPT !.pc = "parse", !.log = f, !.cold = TRUE].acts = {}
  /\ \A f \in Logs : [Idle EXCEPT !.pc = "check", !.log = f].acts = {}
<1> DEFINE no == FALSE
           yes == TRUE
           r == [pc |-> "idle", log |-> "", cold |-> no, len |-> 0, acts |-> {}, repo |-> ""]
<1>1. Idle = r /\ no \in BOOLEAN /\ yes \in BOOLEAN
  BY DEF Idle
<1>2. \A f \in Logs : 0 \in 0..Len(Passes[f])
  BY WatcherAssumption
<1> HIDE DEF no
<1>3. r.pc = "idle" /\ r.acts = {}
  OBVIOUS
<1>4. ASSUME NEW f \in Logs
      PROVE  /\ [r EXCEPT !.pc = "check", !.log = f] \in RunOf(f)
             /\ [r EXCEPT !.pc = "check", !.log = f].acts = {}
  BY <1>1, <1>2 DEF RunOf, Pcs
<1> HIDE DEF yes
<1>5. ASSUME NEW f \in Logs
      PROVE  /\ [r EXCEPT !.pc = "parse", !.log = f, !.cold = yes] \in RunOf(f)
             /\ [r EXCEPT !.pc = "parse", !.log = f, !.cold = yes].acts = {}
  BY <1>1, <1>2 DEF RunOf, Pcs
<1> HIDE DEF r
<1>6. QED
  BY <1>1, <1>3, <1>4, <1>5 DEF yes

\* A run holds finitely many actions, hence remembers finitely many keys.
LEMMA HeldIs ==
  ASSUME Shape, NEW r \in Runs
  PROVE  run[r].acts \subseteq Actions /\ IsFiniteSet(run[r].acts)
<1>1. CASE run[r] = Idle
  <2>1. run[r].acts = {}
    BY <1>1, IdleIs
  <2>2. QED
    BY <2>1, FS_EmptySet
<1>2. ASSUME NEW f \in Logs, run[r] \in RunOf(f) PROVE run[r].acts \subseteq Actions /\ IsFiniteSet(run[r].acts)
  <2>1. run[r].acts \subseteq ActionsOf(f)
    BY <1>2 DEF RunOf
  <2>2. QED
    BY <2>1, LogActions, FS_Subset
<1>3. QED
  BY <1>1, <1>2 DEF Shape

LEMMA BatchKeys ==
  ASSUME NEW B \in SUBSET Actions, IsFiniteSet(B)
  PROVE  /\ IsFiniteSet({MarkKey[a] : a \in B})
         /\ {MarkKey[a] : a \in B} \subseteq {MarkKey[a] : a \in Actions}
<1> DEFINE key == [a \in B |-> MarkKey[a]]
<1>1. key \in Surjection(B, {MarkKey[a] : a \in B})
  BY DEF Surjection
<1>2. QED
  BY <1>1, FS_Surjection

(***************************************************************************)
(* What the steps do to the runs                                            *)
(***************************************************************************)
Typed(x) == x = Idle \/ \E f \in Logs : x \in RunOf(f)

LEMMA NewRun ==
  ASSUME Shape, NEW r \in Runs, NEW x, Typed(x), run' = [run EXCEPT ![r] = x]
  PROVE  /\ run' = [q \in Runs |-> run'[q]] /\ \A q \in Runs : Typed(run'[q])
         /\ run'[r] = x /\ \A q \in Runs \ {r} : run'[q] = run[q]
<1>1. run = [q \in Runs |-> run[q]] /\ \A q \in Runs : Typed(run[q])
  BY DEF Shape, Typed
<1>2. run'[r] = x /\ \A q \in Runs \ {r} : run'[q] = run[q]
  BY <1>1
<1>3. \A q \in Runs : Typed(run'[q])
  BY <1>1, <1>2
<1>4. QED
  BY <1>1, <1>2, <1>3

\* A run that is not idle has its log.
LEMMA AtLog ==
  ASSUME Shape, NEW r \in Runs, run[r].pc # "idle"
  PROVE  run[r].log \in Logs /\ run[r] \in RunOf(run[r].log)
<1>1. run[r] # Idle
  BY IdleIs
<1>2. PICK f \in Logs : run[r] \in RunOf(f)
  BY <1>1 DEF Shape
<1>3. run[r].log = f
  BY <1>2 DEF RunOf
<1>4. QED
  BY <1>2, <1>3

\* Nothing is sent or remembered, and no run takes on an action.
LEMMA Quiet ==
  ASSUME IInv, Shape', UNCHANGED <<keys, sent, resent, dropped>>, exposed \subseteq exposed',
         \A q \in Runs : run'[q].acts \subseteq run[q].acts
  PROVE  IInv'
<1>1. KeysSent' /\ FilteredWasSent'
  BY DEF IInv, KeysSent, FilteredWasSent
<1>2. ASSUME NEW a \in Actions, a \notin exposed', RawKey[a] = MarkKey[a] PROVE Once(a)'
  <2>1. Once(a)
    BY <1>2 DEF IInv, Unexposed
  <2>2. QED
    BY <2>1 DEF Once
<1>3. QED
  BY <1>1, <1>2 DEF IInv, Unexposed

LEMMA QuietRun ==
  ASSUME IInv, NEW r \in Runs, NEW x, Typed(x), x.acts \subseteq run[r].acts, run' = [run EXCEPT ![r] = x],
         UNCHANGED <<keys, sent, resent, dropped, exposed, size>>, timer' \subseteq Logs, todo' \subseteq Logs
  PROVE  IInv'
<1>1. /\ run' = [q \in Runs |-> run'[q]] /\ \A q \in Runs : Typed(run'[q])
      /\ run'[r] = x /\ \A q \in Runs \ {r} : run'[q] = run[q]
  BY NewRun DEF IInv
<1>2. Shape'
  BY <1>1 DEF IInv, Shape, Typed
<1>3. QED
  BY <1>1, <1>2, Quiet

\* processExecutionLog takes on what is not remembered.
LEMMA ProcessStep ==
  ASSUME IInv, NEW r \in Runs, NEW f \in Logs, f = run[r].log, run[r] \in RunOf(f),
         NEW len \in 0..Len(Passes[f]), Process(r, len), UNCHANGED <<keys, sent, resent, size, timer, todo>>
  PROVE  IInv'
<1> DEFINE A == Written(run[r].log, len)
<1>0. Shape
  BY DEF IInv
<1>1. A \subseteq ActionsOf(f) /\ A \subseteq Actions
  BY LogActions
<1>2. PICK new \in SUBSET Fresh(A) :
        /\ exposed' = exposed \cup {a \in new : HeldByOther(r, a)}
        /\ run' = [run EXCEPT ![r] = IF new = {} THEN Idle
                                     ELSE [run[r] EXCEPT !.pc = "human", !.acts = new, !.len = 0]]
  <2>1. PICK gone \in SUBSET (Fresh(A) \cap Gone) :
          LET new == Fresh(A) \ gone
          IN  /\ exposed' = exposed \cup {a \in new : HeldByOther(r, a)}
              /\ run' = [run EXCEPT ![r] = IF new = {} THEN Idle
                                           ELSE [@ EXCEPT !.pc = "human", !.acts = new, !.len = 0]]
    BY Zenon DEF Process
  <2> HIDE DEF A
  <2> DEFINE new == Fresh(A) \ gone
  <2>2. new \in SUBSET Fresh(A)
    OBVIOUS
  <2>3. run' = [run EXCEPT ![r] = IF new = {} THEN Idle
                                  ELSE [run[r] EXCEPT !.pc = "human", !.acts = new, !.len = 0]]
    BY <1>0, <2>1 DEF Shape
  <2> HIDE DEF new
  <2>4. exposed' = exposed \cup {a \in new : HeldByOther(r, a)}
    BY <2>1 DEF new
  <2>5. QED
    BY <2>2, <2>3, <2>4
<1>3. dropped' = dropped \cup ((A \ Fresh(A)) \ sent)
  BY DEF Process
<1> HIDE DEF A
<1>4. Fresh(A) \subseteq A /\ new \subseteq A
  BY DEF Fresh
<1> DEFINE x == IF new = {} THEN Idle ELSE [run[r] EXCEPT !.pc = "human", !.acts = new, !.len = 0]
<1>5. Typed(x) /\ x.acts = new
  <2>1. CASE new = {}
    BY <2>1, IdleIs DEF Typed
  <2>2. CASE new # {}
    <3>1. 0 \in 0..Len(Passes[f]) /\ new \in SUBSET ActionsOf(f)
      BY <1>1, <1>4, LogActions
    <3>2. [run[r] EXCEPT !.pc = "human", !.acts = new, !.len = 0] \in RunOf(f)
      BY <3>1 DEF RunOf, Pcs
    <3>3. [run[r] EXCEPT !.pc = "human", !.acts = new, !.len = 0].acts = new
      BY DEF RunOf
    <3>4. QED
      BY <2>2, <3>2, <3>3 DEF Typed
  <2>3. QED
    BY <2>1, <2>2
<1> HIDE DEF x
<1>6. /\ run' = [q \in Runs |-> run'[q]] /\ \A q \in Runs : Typed(run'[q])
      /\ run'[r] = x /\ \A q \in Runs \ {r} : run'[q] = run[q]
  <2>1. run' = [run EXCEPT ![r] = x]
    BY <1>2 DEF x
  <2>2. QED
    BY <1>0, <1>5, <2>1, NewRun
<1>7. Shape'
  BY <1>0, <1>1, <1>3, <1>6 DEF Shape, Typed
<1>8. KeysSent'
  BY DEF IInv, KeysSent
<1>9. FilteredWasSent'
  <2>1. \A a \in A \ Fresh(A) : RawKey[a] \in ToSet(keys)
    BY DEF Fresh
  <2>2. QED
    BY <1>3, <2>1 DEF IInv, KeysSent, FilteredWasSent
<1>10. ASSUME NEW a \in Actions, a \notin exposed', RawKey[a] = MarkKey[a] PROVE Once(a)'
  <2>1. Once(a)
    BY <1>2, <1>10 DEF IInv, Unexposed
  <2>2. a \in new => a \notin sent /\ \A q \in Runs \ {r} : a \notin run[q].acts
    <3>1. a \in new => RawKey[a] \notin ToSet(keys)
      BY DEF Fresh
    <3>2. a \in new => ~HeldByOther(r, a)
      BY <1>2, <1>10
    <3>3. QED
      BY <1>10, <2>1, <3>1, <3>2 DEF Once, HeldByOther
  <2>3. QED
    BY <1>5, <1>6, <2>1, <2>2 DEF Once
<1>11. QED
  BY <1>7, <1>8, <1>9, <1>10 DEF IInv, Unexposed

\* A run goes on to its next repository or ends; the cap exposes what it evicts.
LEMMA ProceedDoes ==
  ASSUME Shape, NEW r \in Runs, At(r, "ai"), NEW S, NEW ks \in Seq(S), Proceed(r, ks)
  PROVE  /\ run' = [q \in Runs |-> run'[q]] /\ \A q \in Runs : Typed(run'[q])
         /\ run'[r].acts = run[r].acts \ Batch(r) /\ \A q \in Runs \ {r} : run'[q] = run[q]
         /\ keys' \in Seq(S) /\ ToSet(keys') \subseteq ToSet(ks)
         /\ exposed \subseteq exposed'
         /\ \A a \in Actions \ exposed' : MarkKey[a] \in ToSet(ks) => MarkKey[a] \in ToSet(keys')
<1> DEFINE rest == run[r].acts \ Batch(r)
           x == IF rest # {} THEN [run[r] EXCEPT !.pc = "human", !.acts = rest, !.repo = ""] ELSE Idle
<1>1. run' = [run EXCEPT ![r] = x]
  BY DEF Proceed, Shape
<1>2. Typed(x) /\ x.acts = rest
  <2>1. CASE rest = {}
    BY <2>1, IdleIs DEF Typed
  <2>2. CASE rest # {}
    <3>1. run[r].log \in Logs /\ run[r] \in RunOf(run[r].log)
      BY AtLog DEF At
    <3>2. rest \subseteq run[r].acts
      OBVIOUS
    <3> HIDE DEF rest
    <3>3. /\ [run[r] EXCEPT !.pc = "human", !.acts = rest, !.repo = ""] \in RunOf(run[r].log)
          /\ [run[r] EXCEPT !.pc = "human", !.acts = rest, !.repo = ""].acts = rest
      BY <3>1, <3>2 DEF RunOf, Pcs
    <3>4. QED
      BY <2>2, <3>1, <3>3 DEF Typed
  <2>3. QED
    BY <2>1, <2>2
<1>3. /\ run' = [q \in Runs |-> run'[q]] /\ \A q \in Runs : Typed(run'[q])
      /\ run'[r] = x /\ \A q \in Runs \ {r} : run'[q] = run[q]
  <2> HIDE DEF x
  <2>1. QED
    BY <1>1, <1>2, NewRun
<1>4. Capped(ks) \in Seq(S) /\ ToSet(Capped(ks)) \subseteq ToSet(ks)
  BY CappedIs
<1>5. \/ keys' = ks /\ exposed' = exposed
      \/ /\ keys' = Capped(ks)
         /\ exposed' = exposed \cup {a \in Actions : MarkKey[a] \in ToSet(ks) \ ToSet(Capped(ks))}
  BY DEF Proceed
<1>6. QED
  BY <1>2, <1>3, <1>4, <1>5

LEMMA AiOkStep == ASSUME IInv, NEW r \in Runs, AiOk(r) PROVE IInv'
<1> DEFINE B == Batch(r)
           K == {MarkKey[a] : a \in B}
           ks == Remember(keys, K)
           S == {MarkKey[a] : a \in Actions}
<1>1. Shape /\ At(r, "ai") /\ Proceed(r, ks) /\ sent' = sent \cup B /\ resent' = resent \cup (B \cap sent)
      /\ UNCHANGED <<size, timer, todo, dropped>>
  BY DEF IInv, AiOk, logVars, startVars
<1>2. B \subseteq run[r].acts /\ B \subseteq Actions /\ IsFiniteSet(B)
  BY <1>1, HeldIs, FS_Subset DEF Batch
<1>3. K \subseteq S /\ IsFiniteSet(K)
  BY <1>2, BatchKeys
<1>4. ks \in Seq(S) /\ ToSet(ks) = ToSet(keys) \cup K
  <2>1. keys \in Seq(S)
    BY <1>1 DEF Shape
  <2> HIDE DEF S, K
  <2>2. QED
    BY <1>3, <2>1, RememberIs
<1>a. \A a \in B : MarkKey[a] \in K
  OBVIOUS
<1>b. \A k \in K : \E a \in B : MarkKey[a] = k
  OBVIOUS
<1> HIDE DEF ks, K
<1>5. /\ run' = [q \in Runs |-> run'[q]] /\ \A q \in Runs : Typed(run'[q])
      /\ run'[r].acts = run[r].acts \ B /\ \A q \in Runs \ {r} : run'[q] = run[q]
      /\ keys' \in Seq(S) /\ ToSet(keys') \subseteq ToSet(ks)
      /\ exposed \subseteq exposed'
      /\ \A a \in Actions \ exposed' : MarkKey[a] \in ToSet(ks) => MarkKey[a] \in ToSet(keys')
  <2> HIDE DEF S
  <2>1. QED
    BY <1>1, <1>4, ProceedDoes
<1>6. Shape'
  BY <1>1, <1>2, <1>5 DEF Shape, Typed
<1> HIDE DEF B, S
<1>7. KeysSent' /\ FilteredWasSent'
  BY <1>1, <1>4, <1>5, <1>b DEF IInv, KeysSent, FilteredWasSent
<1>8. ASSUME NEW a \in Actions, a \notin exposed', RawKey[a] = MarkKey[a] PROVE Once(a)'
  <2>1. Once(a)
    BY <1>5, <1>8 DEF IInv, Unexposed
  <2>2. a \notin resent' /\ (a \in sent' => MarkKey[a] \in ToSet(keys'))
    BY <1>1, <1>2, <1>4, <1>5, <1>8, <1>a, <2>1 DEF Once
  <2>3. \A q \in Runs : a \in run'[q].acts => a \in run[q].acts /\ a \notin sent'
    BY <1>1, <1>2, <1>5, <2>1 DEF Once
  <2>4. QED
    BY <2>1, <2>2, <2>3 DEF Once
<1>9. QED
  BY <1>6, <1>7, <1>8 DEF IInv, Unexposed

LEMMA AiFailsStep == ASSUME IInv, NEW r \in Runs, AiFails(r) PROVE IInv'
<1> DEFINE S == {MarkKey[a] : a \in Actions}
<1>1. Shape /\ At(r, "ai") /\ Proceed(r, keys) /\ UNCHANGED <<size, timer, todo, sent, resent, dropped>>
      /\ keys \in Seq(S)
  BY DEF IInv, AiFails, logVars, startVars, Shape
<1>2. /\ run' = [q \in Runs |-> run'[q]] /\ \A q \in Runs : Typed(run'[q])
      /\ run'[r].acts = run[r].acts \ Batch(r) /\ \A q \in Runs \ {r} : run'[q] = run[q]
      /\ keys' \in Seq(S) /\ ToSet(keys') \subseteq ToSet(keys)
      /\ exposed \subseteq exposed'
      /\ \A a \in Actions \ exposed' : MarkKey[a] \in ToSet(keys) => MarkKey[a] \in ToSet(keys')
  <2> HIDE DEF S
  <2>1. QED
    BY <1>1, ProceedDoes
<1>3. Shape'
  BY <1>1, <1>2 DEF Shape, Typed
<1>4. KeysSent' /\ FilteredWasSent'
  BY <1>1, <1>2 DEF IInv, KeysSent, FilteredWasSent
<1>5. ASSUME NEW a \in Actions, a \notin exposed', RawKey[a] = MarkKey[a] PROVE Once(a)'
  <2>1. Once(a)
    BY <1>2, <1>5 DEF IInv, Unexposed
  <2>2. \A q \in Runs : a \in run'[q].acts => a \in run[q].acts
    BY <1>2
  <2>3. QED
    BY <1>1, <1>2, <1>5, <2>1, <2>2 DEF Once
<1>6. QED
  BY <1>3, <1>4, <1>5 DEF IInv, Unexposed

(***************************************************************************)
(* The steps                                                                *)
(***************************************************************************)
LEMMA InitInv == Init => IInv
<1> SUFFICES ASSUME Init PROVE IInv
  OBVIOUS
<1>1. \A r \in Runs : run[r] = Idle /\ run[r].acts = {}
  BY IdleIs DEF Init
<1>2. keys = <<>> /\ ToSet(keys) = {} /\ sent = {} /\ resent = {} /\ dropped = {}
  BY DEF Init, ToSet
<1>3. Shape
  <2>1. size \in [Logs -> Nat] /\ \A f \in Logs : size[f] <= 2 * Len(Passes[f])
    BY WatcherAssumption DEF Init
  <2>2. QED
    BY <1>1, <1>2, <2>1 DEF Init, Shape
<1>4. QED
  BY <1>1, <1>2, <1>3 DEF IInv, KeysSent, FilteredWasSent, Once

LEMMA NextInv == IInv /\ [Next]_vars => IInv'
<1> SUFFICES ASSUME IInv, [Next]_vars PROVE IInv'
  OBVIOUS
<1>0. Shape
  BY DEF IInv
<1>a. ASSUME UNCHANGED <<run, keys, sent, resent, dropped, exposed, size>>, timer' \subseteq Logs, todo' \subseteq Logs
      PROVE  IInv'
  <2>1. Shape'
    BY <1>0, <1>a DEF Shape
  <2>2. QED
    BY <1>a, <2>1, Quiet
<1>1. ASSUME NEW f \in Logs, Write(f) PROVE IInv'
  <2>1. size' = [size EXCEPT ![f] = @ + 1] /\ size[f] < 2 * Len(Passes[f]) /\ timer' \subseteq Logs
        /\ UNCHANGED <<run, todo, keys, sent, resent, dropped, exposed>>
    BY <1>0, <1>1 DEF Write, startVars, ghosts, Shape
  <2>2. size' \in [Logs -> Nat] /\ \A g \in Logs : size'[g] <= 2 * Len(Passes[g])
    <3>1. size \in [Logs -> Nat] /\ size[f] \in Nat /\ Len(Passes[f]) \in Nat /\ \A g \in Logs : size[g] <= 2 * Len(Passes[g])
      BY <1>0, WatcherAssumption DEF Shape
    <3>2. size' \in [Logs -> Nat] /\ \A g \in Logs : size'[g] = IF g = f THEN size[f] + 1 ELSE size[g]
      BY <2>1, <3>1
    <3>3. size[f] + 1 <= 2 * Len(Passes[f])
      BY <2>1, <3>1
    <3>4. QED
      BY <3>1, <3>2, <3>3
  <2>3. Shape'
    BY <1>0, <2>1, <2>2 DEF Shape
  <2>4. QED
    BY <2>1, <2>3, Quiet
<1>2. ASSUME NEW f \in Logs, Register(f) \/ Snapshot(f) PROVE IInv'
  BY <1>0, <1>2, <1>a DEF Register, Snapshot, logVars, startVars, sessionVars, ghosts, Shape
<1>3. ASSUME CoolDown \/ ReadIds \/ Watch \/ List \/ BeginScan PROVE IInv'
  BY <1>0, <1>3, <1>a DEF CoolDown, ReadIds, Watch, List, BeginScan, Existing, logVars, startVars, sessionVars, ghosts, Shape
<1>4. ASSUME Dispose PROVE IInv'
  <2>1. /\ keys' = <<>> /\ exposed' = Actions /\ timer' = {}
        /\ UNCHANGED <<run, todo, size, sent, resent, dropped>>
    BY <1>4 DEF Dispose, logVars
  <2>2. ToSet(keys') = {} /\ keys' \in Seq({MarkKey[a] : a \in Actions})
    BY <2>1 DEF ToSet
  <2>3. Shape'
    BY <1>0, <2>1, <2>2 DEF Shape
  <2>4. QED
    BY <2>1, <2>2, <2>3 DEF IInv, KeysSent, FilteredWasSent, Unexposed
<1>5. ASSUME NEW r \in Runs, NEW f \in Logs, ScanNext(r, f) \/ Fire(r, f) PROVE IInv'
  <2>1. PICK x : /\ run' = [run EXCEPT ![r] = x] /\ Typed(x) /\ x.acts = {}
    BY <1>5, IdleIs DEF ScanNext, Fire, Typed
  <2>2. UNCHANGED <<keys, sent, resent, dropped, exposed, size>> /\ timer' \subseteq Logs /\ todo' \subseteq Logs
    BY <1>0, <1>5 DEF ScanNext, Fire, logVars, startVars, ghosts, Shape
  <2>3. x.acts \subseteq run[r].acts
    BY <2>1
  <2>4. QED
    BY <2>1, <2>2, <2>3, QuietRun
<1>6. ASSUME NEW r \in Runs, Check(r) \/ ParseFails(r) PROVE IInv'
  <2>1. run[r].log \in Logs /\ run[r] \in RunOf(run[r].log)
    BY <1>0, <1>6, AtLog DEF Check, ParseFails, At
  <2>2. [run[r] EXCEPT !.pc = "parse"] \in RunOf(run[r].log) /\ [run[r] EXCEPT !.pc = "parse"].acts = run[r].acts
    BY <2>1 DEF RunOf, Pcs
  <2>3. PICK x : /\ run' = [run EXCEPT ![r] = x] /\ Typed(x) /\ x.acts \subseteq run[r].acts
    <3>1. \/ run' = [run EXCEPT ![r] = Idle]
          \/ run' = [run EXCEPT ![r] = [run[r] EXCEPT !.pc = "parse"]]
      BY <1>0, <1>6 DEF Check, ParseFails, Shape
    <3>2. QED
      BY <2>1, <2>2, <3>1, IdleIs DEF Typed
  <2>4. UNCHANGED <<keys, sent, resent, dropped, exposed, size>> /\ timer' \subseteq Logs /\ todo' \subseteq Logs
    BY <1>0, <1>6 DEF Check, ParseFails, logVars, startVars, ghosts, Shape
  <2>5. QED
    BY <2>3, <2>4, QuietRun
<1>7. ASSUME NEW r \in Runs, NEW p \in Repos, Human(r, p) PROVE IInv'
  <2>1. run[r].log \in Logs /\ run[r] \in RunOf(run[r].log)
    BY <1>0, <1>7, AtLog DEF Human, At
  <2> DEFINE x == [run[r] EXCEPT !.pc = "ai", !.repo = p]
  <2>2. x \in RunOf(run[r].log) /\ x.acts = run[r].acts
    BY <2>1 DEF RunOf, Pcs
  <2>3. run' = [run EXCEPT ![r] = x]
    BY <1>0, <1>7 DEF Human, Shape
  <2> HIDE DEF x
  <2>4. UNCHANGED <<keys, sent, resent, dropped, exposed, size, timer, todo>> /\ timer \subseteq Logs /\ todo \subseteq Logs
    BY <1>0, <1>7 DEF Human, logVars, startVars, ghosts, Shape
  <2>5. QED
    BY <2>1, <2>2, <2>3, <2>4, QuietRun DEF Typed
<1>8. ASSUME NEW r \in Runs, Parse(r) PROVE IInv'
  <2> DEFINE f == run[r].log
             len == size[f] \div 2
             x == [run[r] EXCEPT !.pc = "refresh", !.len = len]
  <2>1. f \in Logs /\ run[r] \in RunOf(f)
    BY <1>0, <1>8, AtLog DEF Parse, At
  <2>2. len \in 0..Len(Passes[f])
    <3>1. size[f] \in Nat /\ size[f] <= 2 * Len(Passes[f]) /\ Len(Passes[f]) \in Nat
      BY <1>0, <2>1, WatcherAssumption DEF Shape
    <3> HIDE DEF f
    <3>2. QED
      BY <3>1
  <2>3. UNCHANGED <<keys, sent, resent, size, timer, todo>> /\ timer \subseteq Logs /\ todo \subseteq Logs
    BY <1>0, <1>8 DEF Parse, logVars, startVars, Shape
  <2>4. CASE Process(r, len)
    <3> HIDE DEF len, f
    <3>1. f = run[r].log
      BY DEF f
    <3>2. QED
      BY <2>1, <2>2, <2>3, <2>4, <3>1, ProcessStep
  <2>5. CASE ~Process(r, len)
    <3>1. (run' = [run EXCEPT ![r] = Idle] \/ run' = [run EXCEPT ![r] = x]) /\ UNCHANGED <<exposed, dropped>>
      BY <1>0, <1>8, <2>5 DEF Parse, Shape
    <3> HIDE DEF len, f
    <3>2. x \in RunOf(f) /\ x.acts = run[r].acts
      BY <2>1, <2>2 DEF RunOf, Pcs
    <3> HIDE DEF x
    <3>3. PICK y : run' = [run EXCEPT ![r] = y] /\ Typed(y) /\ y.acts \subseteq run[r].acts
      BY <2>1, <3>1, <3>2, IdleIs DEF Typed
    <3>4. QED
      BY <2>3, <3>1, <3>3, QuietRun
  <2>6. QED
    BY <2>4, <2>5
<1>9. ASSUME NEW r \in Runs, Refresh(r) PROVE IInv'
  <2> DEFINE f == run[r].log
             len == run[r].len
  <2>1. f \in Logs /\ run[r] \in RunOf(f)
    BY <1>0, <1>9, AtLog DEF Refresh, At
  <2>2. len \in 0..Len(Passes[f])
    BY <2>1 DEF RunOf
  <2>3. UNCHANGED <<keys, sent, resent, size, timer, todo>> /\ timer \subseteq Logs /\ todo \subseteq Logs
    BY <1>0, <1>9 DEF Refresh, logVars, startVars, Shape
  <2>4. CASE Process(r, len)
    <3> HIDE DEF len, f
    <3>1. f = run[r].log
      BY DEF f
    <3>2. QED
      BY <2>1, <2>2, <2>3, <2>4, <3>1, ProcessStep
  <2>5. CASE ~Process(r, len)
    <3>1. run' = [run EXCEPT ![r] = Idle] /\ UNCHANGED <<exposed, dropped>>
      BY <1>9, <2>5 DEF Refresh
    <3>2. Typed(Idle) /\ Idle.acts \subseteq run[r].acts
      BY IdleIs DEF Typed
    <3>3. QED
      BY <2>3, <3>1, <3>2, QuietRun
  <2>6. QED
    BY <2>4, <2>5
<1>10. ASSUME UNCHANGED vars PROVE IInv'
  BY <1>0, <1>10, <1>a DEF vars, logVars, startVars, ghosts, Shape
<1>11. QED
  BY <1>1, <1>2, <1>3, <1>4, <1>5, <1>6, <1>7, <1>8, <1>9, <1>10, AiOkStep, AiFailsStep
     DEF Next, Startup, RunStep

(***************************************************************************)
(* The set of checkpointed actions                                          *)
(***************************************************************************)
\* Whatever fails, is evicted or runs at once: what was skipped as already checkpointed
\* was in a successful AI checkpoint, or has the key of another action that was, like a
\* second edit of a file in a Format B log (the test of checkpointedActions in
\* processExecutionLog).
THEOREM FilteredWasSentHolds == Spec => []FilteredWasSent
<1>1. IInv => FilteredWasSent
  BY DEF IInv
<1>2. QED
  BY InitInv, NextInv, <1>1, PTL DEF Spec

\* An action is checkpointed a second time only if two runs held it at once, its key
\* was evicted or cleared, or it is remembered under another key than the one that is
\* looked up; keys that are shared make no action be sent twice.
THEOREM ResentOnlyIfExposedHolds == Spec => []ResentOnlyIfExposed
<1>1. IInv => ResentOnlyIfExposed
  <2> SUFFICES ASSUME IInv, NEW a \in resent, a \notin exposed, RawKey[a] = MarkKey[a] PROVE FALSE
    BY DEF ResentOnlyIfExposed
  <2>1. a \in Unexposed
    BY DEF IInv, Shape, Unexposed
  <2>2. QED
    BY <2>1 DEF IInv, Once
<1>2. QED
  BY InitInv, NextInv, <1>1, PTL DEF Spec
=============================================================================
