--------------------------- MODULE MCStatsIngest ---------------------------
(* Three keyed requests (two of one commit), one without a key, two         *)
(* repositories, two migrated commits stored out of reported_at order.      *)
EXTENDS StatsIngest

CONSTANTS c1, c2, c3, c4, k1, k2, r1, r2, old1, old2

MCConns == {c1, c2, c3, c4}
MCLegacy == {old1, old2}
MCRepos == {r1, r2}

Pay(k, p, n, t) == [key |-> k, repo |-> p, lines |-> n, at |-> t]

MCPayload ==
  [c \in MCConns \cup MCLegacy |->
     CASE c = c1 -> Pay(k1, r1, 2, 5)
       [] c = c2 -> Pay(k1, r1, 2, 5)
       [] c = c3 -> Pay(k2, r2, 0, 4)
       [] c = c4 -> Pay(NoKey, r2, 1, 6)
       [] c = old1 -> Pay(NoKey, r1, 3, 2)
       [] c = old2 -> Pay(NoKey, r2, 0, 1)]
=============================================================================
