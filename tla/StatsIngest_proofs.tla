------------------------ MODULE StatsIngest_proofs ------------------------
(***************************************************************************)
(* Proofs about StatsIngest, for every set of requests and every payload.   *)
(***************************************************************************)
EXTENDS StatsIngest, FiniteSetTheorems, SequenceTheorems, WellFoundedInduction, TLAPS

Active(c) == conn[c] \in {"reading", "saved"}

\* Node's event loop: one request at a time is between its two writes, and
\* its row is in the table.
SavedOK ==
  \A c \in Conns : conn[c] = "saved" =>
    /\ \E i \in DOMAIN rows : rows[i] = c
    /\ \A d \in Conns : conn[d] = "saved" => d = c

\* For a key that met no overlap and no fault: one request at a time is past
\* the check, a recorded key has none, and a stored row without its key
\* belongs to a request about to record it.
UnexposedOK ==
  \A k \in Keys \ exposed :
    /\ \A c, d \in Conns : Active(c) /\ Active(d) /\ Key(c) = k /\ Key(d) = k => c = d
    /\ k \in keys => \A c \in Conns : Active(c) => Key(c) # k
    /\ Stored(k) # {} => k \in keys \/ \E c \in Conns : conn[c] = "saved" /\ Key(c) = k

IInv ==
  /\ TablesOK
  /\ SavedOK
  /\ KeyImpliesRow
  /\ AckImpliesRow
  /\ UnexposedOK
  /\ DuplicateOnlyIfExposed

\* Every row of the table, before or after an insert, stays at its index.
LEMMA AppendRow ==
  ASSUME NEW S, NEW r \in Seq(S), NEW x \in S
  PROVE  /\ Append(r, x) \in Seq(S)
         /\ DOMAIN Append(r, x) = DOMAIN r \cup {Len(r) + 1}
         /\ Len(r) + 1 \notin DOMAIN r
         /\ Append(r, x)[Len(r) + 1] = x
         /\ \A i \in DOMAIN r : Append(r, x)[i] = r[i]
  OBVIOUS

\* The initial states satisfy the invariant: no request, no key, and only
\* migrated rows, which carry no key.
LEMMA InitInv == ServerInit => IInv
<1> SUFFICES ASSUME ServerInit PROVE IInv
  OBVIOUS
<1>1. Cardinality(Legacy) \in Nat
  BY PayloadAssumption, FS_CardinalityType
<1>2. rows \in Seq(Legacy)
  <2>1. ASSUME NEW n \in Nat, NEW f \in [1..n -> Legacy] PROVE f \in Seq(Legacy)
    OBVIOUS
  <2>2. CASE rows = <<>>
    BY <2>2
  <2>3. CASE rows \in SetToSeqs(Legacy)
    <3>1. rows \in [1..Cardinality(Legacy) -> Legacy]
      BY <2>3 DEF SetToSeqs
    <3>2. QED
      BY <3>1, <1>1, <2>1
  <2>4. QED
    BY <2>2, <2>3 DEF ServerInit
<1>3. TablesOK
  <2>1. rows \in Seq(Conns \cup Legacy)
    BY <1>2
  <2>2. QED
    BY <2>1 DEF ServerInit, TablesOK, ConnState
<1>4. \A k \in Keys : Stored(k) = {}
  BY <1>2, PayloadAssumption DEF Stored, Key, Keys
<1>5. QED
  BY <1>3, <1>4 DEF ServerInit, IInv, SavedOK, KeyImpliesRow, AckImpliesRow,
     UnexposedOK, DuplicateOnlyIfExposed, Active

\* A step that starts no save, stores no row and records no key keeps the
\* invariant when it lets a request past the check only as UnexposedOK allows.
LEMMA QuietStep ==
  ASSUME IInv, TablesOK',
         rows' = rows, keys' = keys, exposed \subseteq exposed',
         \A c \in Conns : conn'[c] = "saved" => conn[c] = "saved",
         \A c \in Conns : conn[c] = "saved" /\ conn'[c] # "saved" => Key(c) \notin Keys \ exposed',
         \A c \in Conns : conn'[c] = "ok" => conn[c] = "ok" \/ (Key(c) \in keys /\ Key(c) # NoKey),
         \A c \in Conns : Active(c)' /\ ~Active(c) =>
           \/ Key(c) \notin Keys \ exposed'
           \/ /\ Key(c) \notin keys
              /\ \A d \in Conns : Active(d)' /\ Key(d) = Key(c) => d = c
  PROVE  IInv'
<1>1. SavedOK'
  BY DEF IInv, SavedOK
<1>2. KeyImpliesRow'
  BY DEF IInv, KeyImpliesRow, Stored, Key
<1>3. AckImpliesRow'
  BY DEF IInv, KeyImpliesRow, AckImpliesRow, Stored, Key
<1>4. DuplicateOnlyIfExposed'
  BY DEF IInv, DuplicateOnlyIfExposed, Stored, Key
<1>5. UnexposedOK'
  <2> SUFFICES ASSUME NEW k \in Keys \ exposed'
               PROVE  /\ \A c, d \in Conns :
                           Active(c)' /\ Active(d)' /\ Key(c) = k /\ Key(d) = k => c = d
                      /\ k \in keys => \A c \in Conns : Active(c)' => Key(c) # k
                      /\ Stored(k) # {} =>
                           k \in keys \/ \E c \in Conns : conn'[c] = "saved" /\ Key(c) = k
    BY DEF UnexposedOK, Stored, Key
  <2>1. k \in Keys \ exposed
    OBVIOUS
  <2>2. \A c, d \in Conns : Active(c)' /\ Active(d)' /\ Key(c) = k /\ Key(d) = k => c = d
    BY <2>1 DEF IInv, UnexposedOK
  <2>3. k \in keys => \A c \in Conns : Active(c)' => Key(c) # k
    BY <2>1 DEF IInv, UnexposedOK
  <2>4. Stored(k) # {} => k \in keys \/ \E c \in Conns : conn'[c] = "saved" /\ Key(c) = k
    BY <2>1 DEF IInv, UnexposedOK
  <2>5. QED
    BY <2>2, <2>3, <2>4
<1>6. QED
  BY <1>1, <1>2, <1>3, <1>4, <1>5 DEF IInv

\* saveStats: the request was the only one of its key past the check, so with
\* an unexposed key no row of that key is in the table yet.
LEMMA SaveStep ==
  ASSUME IInv, NEW c \in Conns, SaveStats(c)
  PROVE  IInv'
<1> USE DEF SaveStats
<1> DEFINE n == Len(rows) + 1
<1>0. /\ rows' \in Seq(Conns \cup Legacy)
      /\ DOMAIN rows' = DOMAIN rows \cup {n}
      /\ n \notin DOMAIN rows
      /\ rows'[n] = c
      /\ \A i \in DOMAIN rows : rows'[i] = rows[i]
  BY AppendRow DEF IInv, TablesOK
<1>1. TablesOK'
  BY <1>0 DEF IInv, TablesOK, ConnState
<1>2. /\ conn'[c] = "saved" /\ conn[c] = "reading"
      /\ \A d \in Conns : d # c => conn'[d] = conn[d] /\ conn[d] # "saved"
  BY DEF IInv, TablesOK, Running
<1>3. \A k : Stored(k)' = IF k = Key(c) THEN Stored(k) \cup {n} ELSE Stored(k)
  BY <1>0 DEF Stored, Key
<1>4. SavedOK'
  <2>1. \E i \in DOMAIN rows' : rows'[i] = c
    BY <1>0
  <2>2. QED
    BY <1>2, <2>1 DEF SavedOK
<1>5. KeyImpliesRow'
  BY <1>3 DEF IInv, KeyImpliesRow
<1>6. AckImpliesRow'
  <2> SUFFICES ASSUME NEW d \in Conns, conn'[d] = "ok"
               PROVE  \E i \in DOMAIN rows' :
                        rows'[i] = d \/ (Key(d) # NoKey /\ Key(rows'[i]) = Key(d))
    BY DEF AckImpliesRow, Key
  <2>1. conn[d] = "ok"
    BY <1>2
  <2>2. PICK i \in DOMAIN rows : rows[i] = d \/ (Key(d) # NoKey /\ Key(rows[i]) = Key(d))
    BY <2>1 DEF IInv, AckImpliesRow
  <2>3. QED
    BY <2>2, <1>0
<1>7. \A k \in Keys \ exposed : k = Key(c) => k \notin keys /\ Stored(k) = {}
  BY <1>2 DEF IInv, UnexposedOK, Active
<1>8. UnexposedOK'
  <2> SUFFICES ASSUME NEW k \in Keys \ exposed
               PROVE  /\ \A d, e \in Conns :
                           Active(d)' /\ Active(e)' /\ Key(d) = k /\ Key(e) = k => d = e
                      /\ k \in keys => \A d \in Conns : Active(d)' => Key(d) # k
                      /\ Stored(k)' # {} =>
                           k \in keys \/ \E d \in Conns : conn'[d] = "saved" /\ Key(d) = k
    BY DEF UnexposedOK, Key
  <2>1. \A d \in Conns : Active(d)' <=> Active(d)
    BY <1>2 DEF Active
  <2>2. \A d, e \in Conns : Active(d)' /\ Active(e)' /\ Key(d) = k /\ Key(e) = k => d = e
    BY <2>1 DEF IInv, UnexposedOK
  <2>3. k \in keys => \A d \in Conns : Active(d)' => Key(d) # k
    BY <2>1 DEF IInv, UnexposedOK
  <2>4. Stored(k)' # {} => k \in keys \/ \E d \in Conns : conn'[d] = "saved" /\ Key(d) = k
    <3>1. CASE k = Key(c)
      BY <3>1, <1>2
    <3>2. CASE k # Key(c)
      BY <3>2, <1>2, <1>3 DEF IInv, UnexposedOK
    <3>3. QED
      BY <3>1, <3>2
  <2>5. QED
    BY <2>2, <2>3, <2>4
<1>9. DuplicateOnlyIfExposed'
  BY <1>3, <1>7 DEF IInv, DuplicateOnlyIfExposed
<1>10. QED
  BY <1>1, <1>4, <1>5, <1>6, <1>8, <1>9 DEF IInv

\* setIdempotencyKey: the key recorded is the key of a stored row, and with an
\* unexposed key no other request of it is past the check.
LEMMA SetKeyStep ==
  ASSUME IInv, NEW c \in Conns, SetKey(c)
  PROVE  IInv'
<1> USE DEF SetKey
<1>1. TablesOK'
  BY PayloadAssumption DEF IInv, TablesOK, ConnState, Replies, Keys, Key
<1>2. /\ conn'[c] = "ok" /\ conn[c] = "saved"
      /\ \A d \in Conns : d # c => conn'[d] = conn[d] /\ conn[d] # "saved"
  BY DEF IInv, TablesOK, SavedOK
<1>3. PICK i \in DOMAIN rows : rows[i] = c
  BY DEF IInv, SavedOK
<1>4. SavedOK'
  BY <1>2 DEF SavedOK
<1>5. KeyImpliesRow'
  <2>1. Key(c) \in Keys => Stored(Key(c)) # {}
    BY <1>3 DEF Stored
  <2>2. \A k \in keys' : Stored(k) # {}
    BY <2>1, <1>3 DEF IInv, KeyImpliesRow, Stored
  <2>3. QED
    BY <2>2 DEF KeyImpliesRow, Stored, Key
<1>6. AckImpliesRow'
  BY <1>2, <1>3 DEF IInv, AckImpliesRow, Key
<1>7. DuplicateOnlyIfExposed'
  BY DEF IInv, DuplicateOnlyIfExposed, Stored, Key
<1>8. UnexposedOK'
  <2> SUFFICES ASSUME NEW k \in Keys \ exposed
               PROVE  /\ \A d, e \in Conns :
                           Active(d)' /\ Active(e)' /\ Key(d) = k /\ Key(e) = k => d = e
                      /\ k \in keys' => \A d \in Conns : Active(d)' => Key(d) # k
                      /\ Stored(k) # {} =>
                           k \in keys' \/ \E d \in Conns : conn'[d] = "saved" /\ Key(d) = k
    BY DEF UnexposedOK, Stored, Key
  <2>1. ~Active(c)' /\ Active(c) /\ \A d \in Conns : d # c => (Active(d)' <=> Active(d))
    BY <1>2 DEF Active
  <2>2. \A d, e \in Conns : Active(d)' /\ Active(e)' /\ Key(d) = k /\ Key(e) = k => d = e
    BY <2>1 DEF IInv, UnexposedOK
  <2>3. k \in keys' => \A d \in Conns : Active(d)' => Key(d) # k
    BY <2>1 DEF IInv, UnexposedOK
  <2>4. Stored(k) # {} => k \in keys' \/ \E d \in Conns : conn'[d] = "saved" /\ Key(d) = k
    <3>1. k # NoKey
      BY DEF Keys
    <3>2. QED
      BY <3>1, <1>2 DEF IInv, UnexposedOK
  <2>5. QED
    BY <2>2, <2>3, <2>4
<1>9. QED
  BY <1>1, <1>4, <1>5, <1>6, <1>7, <1>8 DEF IInv

\* Every step of the server keeps the invariant.
LEMMA NextInv == IInv /\ [ServerNext]_vars => IInv'
<1> SUFFICES ASSUME IInv, [ServerNext]_vars PROVE IInv'
  OBVIOUS
<1> USE DEF Expose
<1>1. ASSUME NEW c \in Conns, Duplicate(c) PROVE IInv'
  <2>1. TablesOK'
    BY <1>1 DEF Duplicate, IInv, TablesOK, ConnState, Replies
  <2>2. Key(c) # NoKey
    BY <1>1 DEF Duplicate, IInv, TablesOK, Keys
  <2>3. \A d \in Conns : Active(d)' => Active(d)
    BY <1>1 DEF Duplicate, IInv, TablesOK, Active
  <2>4. QED
    BY <1>1, <2>1, <2>2, <2>3, QuietStep DEF Duplicate, IInv, TablesOK
<1>2. ASSUME NEW c \in Conns, Accept(c) PROVE IInv'
  <2>1. TablesOK'
    BY <1>2 DEF Accept, IInv, TablesOK, ConnState
  <2>2. /\ conn'[c] = "reading"
        /\ \A d \in Conns : d # c => conn'[d] = conn[d]
        /\ \A d \in Conns : conn[d] # "saved"
    BY <1>2 DEF Accept, Running, IInv, TablesOK
  <2>3. Key(c) \in Keys \ exposed' => \A d \in Conns \ {c} : conn[d] # "reading" \/ Key(d) # Key(c)
    BY <1>2 DEF Accept, Overlapped
  <2>4. \A d \in Conns : Active(d)' /\ ~Active(d) =>
          \/ Key(d) \notin Keys \ exposed'
          \/ /\ Key(d) \notin keys
             /\ \A e \in Conns : Active(e)' /\ Key(e) = Key(d) => e = d
    BY <1>2, <2>2, <2>3 DEF Accept, Active
  <2>5. QED
    BY <1>2, <2>1, <2>2, <2>4, QuietStep DEF Accept
<1>3. ASSUME NEW c \in Conns, AcceptUnchecked(c) PROVE IInv'
  <2>1. TablesOK'
    BY <1>3 DEF AcceptUnchecked, IInv, TablesOK, ConnState
  <2>2. /\ conn'[c] = "reading"
        /\ \A d \in Conns : d # c => conn'[d] = conn[d]
        /\ \A d \in Conns : conn[d] # "saved"
    BY <1>3 DEF AcceptUnchecked, Running, IInv, TablesOK
  <2>3. \A d \in Conns : Active(d)' /\ ~Active(d) => Key(d) \notin Keys \ exposed'
    BY <1>3, <2>2 DEF AcceptUnchecked, Active
  <2>4. QED
    BY <1>3, <2>1, <2>2, <2>3, QuietStep DEF AcceptUnchecked
<1>4. ASSUME NEW c \in Conns, Reject(c) \/ Abort(c) PROVE IInv'
  <2>1. TablesOK'
    BY <1>4 DEF Reject, Abort, IInv, TablesOK, ConnState, Replies
  <2>2. /\ conn'[c] \in {"bad", "gone"} /\ conn[c] = "reading"
        /\ \A d \in Conns : d # c => conn'[d] = conn[d]
    BY <1>4 DEF Reject, Abort, IInv, TablesOK
  <2>3. \A d \in Conns : Active(d)' => Active(d)
    BY <2>2 DEF Active
  <2>4. QED
    BY <1>4, <2>1, <2>2, <2>3, QuietStep DEF Reject, Abort
<1>5. ASSUME NEW c \in Conns, SetKeyFails(c) PROVE IInv'
  <2>1. TablesOK'
    BY <1>5 DEF SetKeyFails, IInv, TablesOK, ConnState, Replies
  <2>2. /\ conn'[c] = "bad" /\ conn[c] = "saved"
        /\ \A d \in Conns : d # c => conn'[d] = conn[d]
    BY <1>5 DEF SetKeyFails, IInv, TablesOK
  <2>3. \A d \in Conns : Active(d)' => Active(d)
    BY <2>2 DEF Active
  <2>4. QED
    BY <1>5, <2>1, <2>2, <2>3, QuietStep DEF SetKeyFails
<1>6. CASE Crash
  <2>1. TablesOK'
    BY <1>6 DEF Crash, IInv, TablesOK, ConnState
  <2>2. \A d \in Conns : /\ conn[d] \in {"reading", "saved"} => conn'[d] = "gone"
                        /\ conn[d] \notin {"reading", "saved"} => conn'[d] = conn[d]
    BY <1>6 DEF Crash
  <2>3. \A d \in Conns : Active(d)' => Active(d)
    BY <2>2 DEF Active
  <2>4. \A d \in Conns : conn[d] = "saved" => Key(d) \notin Keys \ exposed'
    BY <1>6 DEF Crash
  <2>5. QED
    BY <1>6, <2>1, <2>2, <2>3, <2>4, QuietStep DEF Crash
<1>7. CASE Start \/ StartWithoutBackfill
  <2>1. TablesOK'
    BY <1>7 DEF Start, StartWithoutBackfill, IInv, TablesOK
  <2>2. \A d \in Conns : Active(d)' <=> Active(d)
    BY <1>7 DEF Start, StartWithoutBackfill, Active
  <2>3. QED
    BY <1>7, <2>1, <2>2, QuietStep DEF Start, StartWithoutBackfill
<1>8. CASE UNCHANGED vars
  <2>1. TablesOK'
    BY <1>8 DEF vars, IInv, TablesOK
  <2>2. \A d \in Conns : Active(d)' <=> Active(d)
    BY <1>8 DEF vars, Active
  <2>3. QED
    BY <1>8, <2>1, <2>2, QuietStep DEF vars
<1>9. QED
  BY <1>1, <1>2, <1>3, <1>4, <1>5, <1>6, <1>7, <1>8, SaveStep, SetKeyStep
     DEF ServerNext, ServerStep, Handle

THEOREM Invariance == ServerSpec => []IInv
<1>1. QED
  BY InitInv, NextInv, PTL DEF ServerSpec

\* A duplicate answer never swallows a commit that was not stored.
THEOREM KeyHasRow == ServerSpec => []KeyImpliesRow
<1>1. IInv => KeyImpliesRow
  BY DEF IInv
<1>2. QED
  BY <1>1, Invariance, PTL

\* A 200 answer of the stats route is durable.
THEOREM AckIsDurable == ServerSpec => []AckImpliesRow
<1>1. IInv => AckImpliesRow
  BY DEF IInv
<1>2. QED
  BY <1>1, Invariance, PTL

\* A commit is stored twice only through an overlap or a fault between the
\* key check and the key insert.
THEOREM DuplicatesNeedExposure == ServerSpec => []DuplicateOnlyIfExposed
<1>1. IInv => DuplicateOnlyIfExposed
  BY DEF IInv
<1>2. QED
  BY <1>1, Invariance, PTL

(***************************************************************************)
(* The ratio history.  A total is the number of counted lines, so it does   *)
(* not depend on the order of the rows; a history grows with its rows, in   *)
(* saveStats and in the replay of the backfill alike.                       *)
(***************************************************************************)
Rows == Conns \cup Legacy
Snapshots == [repo : Repos, total : Nat]

\* What a stored row adds, and to which repository.
LEMMA PayloadIs ==
  ASSUME NEW c \in Rows
  PROVE  Payload[c].repo \in Repos /\ Payload[c].lines \in Nat
BY PayloadAssumption DEF Rows

\* A counted line is a row of the repository and one of its lines.
LEMMA LinesIn ==
  ASSUME NEW rs, NEW p, NEW x
  PROVE  x \in CountedLines(rs, p) <=>
           \E i \in DOMAIN rs : Payload[rs[i]].repo = p /\ \E k \in 1..Payload[rs[i]].lines : x = <<i, k>>
<1> DEFINE D == {j \in DOMAIN rs : Payload[rs[j]].repo = p}
           T == {{i} \X (1..Payload[rs[i]].lines) : i \in D}
<1>1. CountedLines(rs, p) = UNION T
  BY DEF CountedLines
<1>2. ASSUME x \in UNION T
      PROVE  \E i \in DOMAIN rs : Payload[rs[i]].repo = p /\ \E k \in 1..Payload[rs[i]].lines : x = <<i, k>>
  <2>1. PICK i \in D : x \in {i} \X (1..Payload[rs[i]].lines)
    BY <1>2
  <2>2. QED
    BY <2>1
<1>3. ASSUME NEW i \in DOMAIN rs, Payload[rs[i]].repo = p, NEW k \in 1..Payload[rs[i]].lines, x = <<i, k>>
      PROVE  x \in UNION T
  <2> DEFINE U == {i} \X (1..Payload[rs[i]].lines)
  <2>1. i \in D /\ x \in U
    BY <1>3
  <2>2. U \in T
    BY <2>1, Zenon
  <2>3. QED
    BY <2>1, <2>2
<1>4. QED
  BY <1>1, <1>2, <1>3

\* A total is a number.
LEMMA LinesFinite ==
  ASSUME NEW rs \in Seq(Rows), NEW p
  PROVE  IsFiniteSet(CountedLines(rs, p)) /\ RepoTotal(rs, p) \in Nat
<1> DEFINE D == {j \in DOMAIN rs : Payload[rs[j]].repo = p}
           row == [i \in D |-> {i} \X (1..Payload[rs[i]].lines)]
           T == {row[i] : i \in D}
<1>1. IsFiniteSet(D)
  <2>1. IsFiniteSet(1..Len(rs)) /\ D \in SUBSET (1..Len(rs))
    BY FS_Interval
  <2>2. QED
    BY <2>1, FS_Subset
<1>2. \A i \in D : IsFiniteSet(row[i])
  <2> TAKE i \in D
  <2>1. PICK n \in Nat : n = Payload[rs[i]].lines
    BY PayloadIs
  <2>2. IsFiniteSet({i})
    BY FS_Singleton
  <2>3. IsFiniteSet(1..n)
    BY FS_Interval
  <2>4. IsFiniteSet({i} \X (1..n))
    BY <2>2, <2>3, FS_Product
  <2>5. QED
    BY <2>1, <2>4
<1>3. CountedLines(rs, p) = UNION T
  <2>1. T = {{i} \X (1..Payload[rs[i]].lines) : i \in D}
    OBVIOUS
  <2>2. QED
    BY <2>1 DEF CountedLines
<1>4. IsFiniteSet(T)
  <2>1. row \in Surjection(D, T)
    BY DEF Surjection
  <2> HIDE DEF row, T, D
  <2>2. QED
    BY <1>1, <2>1, FS_Surjection
<1>5. \A U \in T : IsFiniteSet(U)
  BY <1>2
<1> HIDE DEF T
<1>6. IsFiniteSet(UNION T)
  BY <1>4, <1>5, FS_UNION
<1>7. QED
  BY <1>3, <1>6, FS_CardinalityType DEF RepoTotal

\* A row adds nothing to other repositories, and takes nothing from its own.
LEMMA TotalAppend ==
  ASSUME NEW rs \in Seq(Rows), NEW c \in Rows, NEW p
  PROVE  /\ Payload[c].repo # p => RepoTotal(Append(rs, c), p) = RepoTotal(rs, p)
         /\ RepoTotal(Append(rs, c), p) = 0 => RepoTotal(rs, p) = 0
<1> DEFINE a == Append(rs, c)
           L == CountedLines(rs, p)
           M == CountedLines(a, p)
<1>1. /\ a \in Seq(Rows)
      /\ DOMAIN a = DOMAIN rs \cup {Len(rs) + 1}
      /\ a[Len(rs) + 1] = c
      /\ \A i \in DOMAIN rs : a[i] = rs[i]
  BY AppendRow
<1> HIDE DEF a
<1>2. L \subseteq M
  <2> SUFFICES ASSUME NEW x \in L PROVE x \in M
    OBVIOUS
  <2>1. PICK i \in DOMAIN rs : Payload[rs[i]].repo = p /\ \E k \in 1..Payload[rs[i]].lines : x = <<i, k>>
    BY LinesIn
  <2>2. i \in DOMAIN a /\ a[i] = rs[i]
    BY <1>1
  <2>3. QED
    BY <2>1, <2>2, LinesIn
<1>3. ASSUME Payload[c].repo # p PROVE M \subseteq L
  <2> SUFFICES ASSUME NEW x \in M PROVE x \in L
    OBVIOUS
  <2>1. PICK i \in DOMAIN a : Payload[a[i]].repo = p /\ \E k \in 1..Payload[a[i]].lines : x = <<i, k>>
    BY LinesIn
  <2>2. i \in DOMAIN rs /\ a[i] = rs[i]
    BY <1>1, <1>3, <2>1
  <2>3. QED
    BY <2>1, <2>2, LinesIn
<1>4. IsFiniteSet(M) /\ IsFiniteSet(L)
  BY <1>1, LinesFinite
<1> HIDE DEF L, M
<1>5. Cardinality(M) = 0 => Cardinality(L) = 0
  BY <1>2, <1>4, FS_EmptySet
<1>6. QED
  BY <1>2, <1>3, <1>5 DEF RepoTotal, L, M, a

\* A sum does not depend on the order of the rows.
LEMMA TotalByTime ==
  ASSUME NEW rs \in Seq(Rows), NEW s \in ByTime(rs), NEW p
  PROVE  s \in Seq(Rows) /\ Len(s) = Len(rs) /\ RepoTotal(s, p) = RepoTotal(rs, p)
<1> DEFINE D == DOMAIN rs
<1>1. PICK perm \in Bijection(D, D) : s = [i \in D |-> rs[perm[i]]]
  BY DEF ByTime
<1>2. /\ perm \in [D -> D] /\ \A w \in D : \E v \in D : perm[v] = w
      /\ \A v, w \in D : perm[v] = perm[w] => v = w
  BY DEF Bijection, Injection, Surjection, IsInjective
<1>3. D = 1..Len(rs) /\ Len(rs) \in Nat
  OBVIOUS
<1>4. s \in Seq(Rows) /\ Len(s) = Len(rs) /\ DOMAIN s = D /\ \A i \in D : s[i] = rs[perm[i]]
  <2>1. s \in [1..Len(rs) -> Rows]
    BY <1>1, <1>2, <1>3
  <2>2. QED
    BY <1>1, <1>3, <2>1
<1> HIDE DEF D
<1> DEFINE L == CountedLines(s, p)
           M == CountedLines(rs, p)
           g == [x \in L |-> <<perm[x[1]], x[2]>>]
<1>6. \A x \in L : /\ x[1] \in D /\ Payload[rs[perm[x[1]]]].repo = p
                   /\ x[2] \in 1..Payload[rs[perm[x[1]]]].lines /\ x = <<x[1], x[2]>>
  BY <1>4, LinesIn
<1>7. g \in [L -> M]
  <2> SUFFICES ASSUME NEW x \in L PROVE <<perm[x[1]], x[2]>> \in M
    OBVIOUS
  <2>1. perm[x[1]] \in DOMAIN rs
    BY <1>2, <1>6 DEF D
  <2>2. QED
    BY <1>6, <2>1, LinesIn
<1>8. \A x, y \in L : g[x] = g[y] => x = y
  BY <1>2, <1>6
<1>9. \A y \in M : \E x \in L : g[x] = y
  <2> SUFFICES ASSUME NEW y \in M PROVE \E x \in L : g[x] = y
    OBVIOUS
  <2>1. PICK i \in DOMAIN rs : Payload[rs[i]].repo = p /\ \E k \in 1..Payload[rs[i]].lines : y = <<i, k>>
    BY LinesIn
  <2>2. PICK k \in 1..Payload[rs[i]].lines : y = <<i, k>>
    BY <2>1
  <2>3. PICK v \in D : perm[v] = i
    BY <1>2 DEF D
  <2>4. <<v, k>> \in L
    BY <1>4, <2>1, <2>2, <2>3, LinesIn
  <2>5. g[<<v, k>>] = <<i, k>>
    BY <2>3, <2>4
  <2>6. QED
    BY <2>2, <2>4, <2>5
<1>10. IsFiniteSet(L)
  BY <1>4, LinesFinite
<1> HIDE DEF L, M, g
<1>11. g \in Bijection(L, M)
  BY <1>7, <1>8, <1>9 DEF Bijection, Injection, Surjection, IsInjective
<1>12. Cardinality(M) = Cardinality(L)
  BY <1>10, <1>11, FS_Bijection DEF ExistsBijection
<1>13. QED
  BY <1>4, <1>12 DEF RepoTotal, L, M

\* No rows, no snapshots.
LEMMA NoHistory == ASSUME NEW unmade PROVE IsHistory(<<>>, <<>>, unmade)
<1>1. \A p : RepoTotal(<<>>, p) = 0
  <2> TAKE p
  <2>1. CountedLines(<<>>, p) = {}
    BY LinesIn
  <2>2. QED
    BY <2>1, FS_EmptySet DEF RepoTotal
<1>2. QED
  BY <1>1 DEF IsHistory

\* With each row its snapshot: a history stays one.
LEMMA HistoryGrows ==
  ASSUME NEW h \in Seq(Snapshots), NEW rs \in Seq(Rows), NEW c \in Rows, NEW unmade,
         IsHistory(h, rs, unmade)
  PROVE  /\ Recorded(h, Append(rs, c), c) \in Seq(Snapshots)
         /\ IsHistory(Recorded(h, Append(rs, c), c), Append(rs, c), unmade)
<1> DEFINE a == Append(rs, c)
           r == Payload[c].repo
           t == RepoTotal(a, r)
           new == [repo |-> r, total |-> t]
<1>1. a \in Seq(Rows)
  BY AppendRow
<1>2. t \in Nat /\ r \in Repos
  BY <1>1, LinesFinite, PayloadIs
<1>3. /\ \A p : r # p => RepoTotal(a, p) = RepoTotal(rs, p)
      /\ t = 0 => RepoTotal(rs, r) = 0
  BY TotalAppend
<1>4. Recorded(h, a, c) = IF t = 0 THEN h ELSE Append(h, new)
  BY DEF Recorded
<1>5. /\ new \in Snapshots /\ new.repo = r /\ new.total = t
  BY <1>2 DEF Snapshots
<1> HIDE DEF a, r, t, new
<1>6. CASE t = 0
  <2>1. Recorded(h, a, c) = h
    BY <1>4, <1>6
  <2>2. \A p \in Repos : RepoTotal(a, p) = RepoTotal(rs, p)
    BY <1>3, <1>6 DEF t
  <2>3. QED
    BY <2>1, <2>2 DEF IsHistory, a
<1>7. CASE t # 0
  <2> DEFINE g == Append(h, new)
  <2>1. /\ g \in Seq(Snapshots) /\ DOMAIN g = DOMAIN h \cup {Len(h) + 1} /\ Len(h) + 1 \notin DOMAIN h
        /\ g[Len(h) + 1] = new /\ \A i \in DOMAIN h : g[i] = h[i] /\ i < Len(h) + 1
    BY <1>5
  <2> HIDE DEF g
  <2>2. ASSUME NEW p \in Repos, NEW i \in DOMAIN g,
               g[i].repo = p, \A j \in DOMAIN g : i < j => g[j].repo # p
        PROVE  g[i].total = RepoTotal(a, p)
    <3>1. CASE p = r
      <4>1. i = Len(h) + 1
        BY <1>5, <2>1, <2>2, <3>1
      <4>2. QED
        BY <1>5, <2>1, <3>1, <4>1 DEF t
    <3>2. CASE p # r
      <4>1. i \in DOMAIN h /\ h[i].repo = p /\ \A j \in DOMAIN h : i < j => h[j].repo # p
        BY <1>5, <2>1, <2>2, <3>2
      <4>2. QED
        BY <1>3, <2>1, <3>2, <4>1 DEF IsHistory
    <3>3. QED
      BY <3>1, <3>2
  <2>3. ASSUME NEW p \in Repos, \A i \in DOMAIN g : g[i].repo # p
        PROVE  RepoTotal(a, p) = 0 \/ unmade
    <3>1. p # r
      BY <1>5, <2>1, <2>3
    <3>2. \A i \in DOMAIN h : h[i].repo # p
      BY <2>1, <2>3
    <3>3. QED
      BY <1>3, <3>1, <3>2 DEF IsHistory
  <2>4. Recorded(h, a, c) = g
    BY <1>4, <1>7 DEF g
  <2>5. IsHistory(g, a, unmade)
    BY <2>2, <2>3 DEF IsHistory
  <2>6. QED
    BY <2>1, <2>4, <2>5 DEF a
<1>8. QED
  BY <1>6, <1>7

\* A set of numbers has a least one (by the well-founded order of the library).
LEMMA LeastNatural ==
  ASSUME NEW S \in SUBSET Nat, S # {}
  PROVE  \E n \in S : \A m \in S : n <= m
<1> DEFINE T == {1..n : n \in S}
<1>1. T \subseteq FiniteSubsetsOf(Nat) /\ T # {}
  <2>1. \A n \in S : IsFiniteSet(1..n) /\ 1..n \in SUBSET Nat
    BY FS_Interval
  <2>2. QED
    BY <2>1 DEF FiniteSubsetsOf
<1>2. PICK x \in T : \A y \in T : <<y, x>> \notin StrictSubsetOrdering(Nat)
  <2> HIDE DEF T
  <2>1. QED
    BY <1>1, FS_StrictSubsetOrderingWellFounded, WFMin
<1>3. PICK n \in S : x = 1..n
  OBVIOUS
<1>4. ASSUME NEW m \in S, m < n PROVE FALSE
  <2>1. 1..m \in T /\ 1..m \subseteq 1..n /\ n \in 1..n /\ n \notin 1..m
    BY <1>4
  <2>2. <<1..m, x>> \in StrictSubsetOrdering(Nat)
    BY <2>1, <1>3 DEF StrictSubsetOrdering
  <2>3. QED
    BY <2>1, <2>2, <1>2
<1>5. QED
  BY <1>4

\* The histories of the first rows of s, up to n of them.
Replays(H, s, n) ==
  H = [i \in 0..n |-> IF i = 0 THEN <<>> ELSE Recorded(H[i - 1], SubSeq(s, 1, i), s[i])]

\* The recursive function that Replayed chooses exists: a least n without one
\* would have a predecessor to extend.
LEMMA ReplayExists ==
  ASSUME NEW s
  PROVE  \A n \in Nat : \E H : Replays(H, s, n)
<1> DEFINE Step(h, i) == Recorded(h, SubSeq(s, 1, i), s[i])
           S == {n \in Nat : ~\E H : Replays(H, s, n)}
<1> SUFFICES ASSUME S # {} PROVE FALSE
  OBVIOUS
<1>1. PICK n \in S : \A m \in S : n <= m
  <2>1. S \in SUBSET Nat
    OBVIOUS
  <2> HIDE DEF S
  <2>2. QED
    BY <2>1, LeastNatural
<1>2. n # 0
  <2>1. ASSUME n = 0 PROVE FALSE
    <3> DEFINE G == [i \in 0..0 |-> <<>>]
    <3>1. Replays(G, s, 0)
      BY DEF Replays
    <3>2. QED
      BY <2>1, <3>1
  <2>2. QED
    BY <2>1
<1>3. n - 1 \in Nat /\ n - 1 \notin S
  BY <1>1, <1>2
<1>4. PICK H : Replays(H, s, n - 1)
  BY <1>3
<1>5. H = [i \in 0..(n - 1) |-> IF i = 0 THEN <<>> ELSE Step(H[i - 1], i)]
  BY <1>4 DEF Replays
<1> DEFINE G == [i \in 0..n |-> IF i = n THEN Step(H[n - 1], n) ELSE H[i]]
<1> HIDE DEF Step
<1>6. G = [i \in 0..n |-> IF i = 0 THEN <<>> ELSE Step(G[i - 1], i)]
  <2> SUFFICES ASSUME NEW i \in 0..n PROVE G[i] = IF i = 0 THEN <<>> ELSE Step(G[i - 1], i)
    OBVIOUS
  <2>1. CASE i = n
    <3>1. G[i - 1] = H[n - 1]
      BY <1>2, <1>3, <2>1
    <3>2. QED
      BY <1>2, <2>1, <3>1
  <2>2. CASE i = 0
    BY <1>2, <1>3, <1>5, <2>2
  <2>3. CASE i # 0 /\ i # n
    <3>1. i \in 0..(n - 1) /\ i - 1 \in 0..n /\ i - 1 # n
      BY <1>3, <2>3
    <3>2. G[i] = H[i] /\ G[i - 1] = H[i - 1]
      BY <2>3, <3>1
    <3>3. H[i] = Step(H[i - 1], i)
      BY <1>5, <2>3, <3>1
    <3>4. QED
      BY <2>3, <3>2, <3>3
  <2>4. QED
    BY <2>1, <2>2, <2>3
<1> HIDE DEF G
<1>7. Replays(G, s, n)
  BY <1>6 DEF Replays, Step
<1>8. QED
  BY <1>7

\* The backfill makes the history of all rows.
LEMMA ReplayedIs ==
  ASSUME NEW s \in Seq(Rows), NEW unmade
  PROVE  Replayed(s) \in Seq(Snapshots) /\ IsHistory(Replayed(s), s, unmade)
<1> DEFINE H == CHOOSE G : Replays(G, s, Len(s))
           Good(i) == H[i] \in Seq(Snapshots) /\ IsHistory(H[i], SubSeq(s, 1, i), unmade)
           S == {i \in 0..Len(s) : ~Good(i)}
<1>0. Len(s) \in Nat
  OBVIOUS
<1>1. Replayed(s) = H[Len(s)]
  BY DEF Replayed, Replays
<1>2. Replays(H, s, Len(s))
  <2>1. \E G : Replays(G, s, Len(s))
    BY <1>0, ReplayExists
  <2>2. QED
    BY <2>1
<1> HIDE DEF H
<1>3. \A i \in 0..Len(s) : H[i] = IF i = 0 THEN <<>> ELSE Recorded(H[i - 1], SubSeq(s, 1, i), s[i])
  BY <1>2 DEF Replays
<1>4. Good(0)
  <2>1. H[0] = <<>> /\ SubSeq(s, 1, 0) = <<>>
    BY <1>0, <1>3, SubSeqEmpty
  <2>2. <<>> \in Seq(Snapshots) /\ IsHistory(<<>>, <<>>, unmade)
    BY NoHistory
  <2> DEFINE first == SubSeq(s, 1, 0)
             h0 == H[0]
  <2>3. h0 = <<>> /\ first = <<>>
    BY <2>1
  <2> HIDE DEF first, h0
  <2>4. h0 \in Seq(Snapshots) /\ IsHistory(h0, first, unmade)
    BY <2>2, <2>3, Zenon
  <2>5. QED
    BY <2>4, Zenon DEF first, h0
<1>5. ASSUME NEW i \in 1..Len(s), Good(i - 1) PROVE Good(i)
  <2> DEFINE before == SubSeq(s, 1, i - 1)
  <2>1. before \in Seq(Rows) /\ s[i] \in Rows
    OBVIOUS
  <2>2. SubSeq(s, 1, i) = Append(before, s[i])
    OBVIOUS
  <2>3. H[i] = Recorded(H[i - 1], SubSeq(s, 1, i), s[i])
    BY <1>3
  <2> HIDE DEF before
  <2>4. IsHistory(H[i - 1], before, unmade)
    BY <1>5 DEF before
  <2>5. QED
    BY <1>5, <2>1, <2>2, <2>3, <2>4, HistoryGrows
<1>6. S = {}
  <2> SUFFICES ASSUME S # {} PROVE FALSE
    OBVIOUS
  <2> HIDE DEF Good
  <2>1. PICK i \in S : \A j \in S : i <= j
    <3>1. S \in SUBSET Nat
      BY <1>0
    <3> HIDE DEF S
    <3>2. QED
      BY <3>1, LeastNatural
  <2>2. i # 0 /\ i \in 1..Len(s) /\ i - 1 \in 0..Len(s)
    BY <1>4, <2>1
  <2>3. Good(i - 1)
    BY <2>1, <2>2
  <2>4. QED
    BY <1>5, <2>1, <2>2, <2>3
<1>7. Good(Len(s))
  <2> HIDE DEF Good
  <2>1. QED
    BY <1>0, <1>6
<1>8. SubSeq(s, 1, Len(s)) = s
  BY SubSeqFull
<1>9. QED
  BY <1>1, <1>7, <1>8

\* In whatever order of equal times.
LEMMA BackfillIs ==
  ASSUME NEW rs \in Seq(Rows), NEW h \in Backfill(rs), NEW unmade
  PROVE  h \in Seq(Snapshots) /\ IsHistory(h, rs, unmade)
<1>1. PICK s \in ByTime(rs) : h = Replayed(s)
  BY DEF Backfill
<1>2. s \in Seq(Rows) /\ \A p : RepoTotal(s, p) = RepoTotal(rs, p)
  BY TotalByTime
<1>3. h \in Seq(Snapshots) /\ IsHistory(h, s, unmade)
  BY <1>1, <1>2, ReplayedIs
<1>4. QED
  BY <1>2, <1>3 DEF IsHistory

(***************************************************************************)
(* What the table holds while the server is up, or once it has snapshots.   *)
(***************************************************************************)
HistoryOK ==
  /\ history \in Seq(Snapshots)
  /\ up \/ history # <<>> => IsHistory(history, rows, lost)

\* Every step of the server keeps the history current.
LEMMA HistoryNext ==
  ASSUME IInv, HistoryOK, [ServerNext]_vars
  PROVE  HistoryOK'
<1>0. rows \in Seq(Rows) /\ up \in BOOLEAN /\ lost \in BOOLEAN
  BY DEF IInv, TablesOK, Rows
<1>1. ASSUME NEW c \in Conns, SaveStats(c) PROVE HistoryOK'
  <2>1. /\ rows' = Append(rows, c) /\ history' = Recorded(history, Append(rows, c), c)
        /\ up /\ lost' = lost
    BY <1>1 DEF SaveStats, Running
  <2>2. c \in Rows
    BY DEF Rows
  <2>3. history' \in Seq(Snapshots) /\ IsHistory(history', rows', lost')
    BY <1>0, <2>1, <2>2, HistoryGrows DEF HistoryOK
  <2>4. QED
    BY <2>3 DEF HistoryOK, IsHistory
<1>2. CASE Start
  <2>1. CASE history = <<>>
    <3>1. history' \in Backfill(rows) /\ rows' = rows
      BY <1>2, <2>1 DEF Start
    <3>2. history' \in Seq(Snapshots) /\ IsHistory(history', rows', lost')
      BY <1>0, <3>1, BackfillIs
    <3>3. QED
      BY <3>2 DEF HistoryOK, IsHistory
  <2>2. CASE history # <<>>
    <3>1. UNCHANGED <<history, rows, lost>>
      BY <1>2, <2>2 DEF Start
    <3>2. QED
      BY <2>2, <3>1 DEF HistoryOK, IsHistory
  <2>3. QED
    BY <2>1, <2>2
<1>3. CASE StartWithoutBackfill
  <2>1. history = <<>> /\ history' = history /\ lost'
    BY <1>3 DEF StartWithoutBackfill
  <2>2. QED
    BY <2>1 DEF HistoryOK, IsHistory
<1>4. CASE UNCHANGED <<history, rows, lost>> /\ (up' => up)
  BY <1>4 DEF HistoryOK, IsHistory
<1>5. ASSUME NEW c \in Conns, Handle(c), ~SaveStats(c)
      PROVE  UNCHANGED <<history, rows, lost>> /\ (up' => up)
  BY <1>5 DEF Handle, Duplicate, Accept, AcceptUnchecked, Reject, Abort, SetKey, SetKeyFails
<1>6. CASE Crash \/ UNCHANGED vars
  BY <1>4, <1>6 DEF Crash, vars
<1>7. QED
  BY <1>1, <1>2, <1>3, <1>4, <1>5, <1>6 DEF ServerNext, ServerStep

\* The newest snapshot of a repository is the sum of all its stored commits,
\* whatever crashed or failed, unless a backfill failed.
THEOREM HistoryCurrentHolds == ServerSpec => []HistoryCurrent
<1>1. ServerInit => HistoryOK
  BY DEF ServerInit, HistoryOK
<1>2. HistoryOK => HistoryCurrent
  BY DEF HistoryOK, HistoryCurrent
<1>3. IInv /\ HistoryOK /\ [ServerNext]_vars => HistoryOK'
  BY HistoryNext
<1>4. QED
  BY Invariance, <1>1, <1>2, <1>3, PTL DEF ServerSpec
=============================================================================
