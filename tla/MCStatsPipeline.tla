-------------------------- MODULE MCStatsPipeline --------------------------
(* One window uploads a commit.                                             *)
EXTENDS StatsPipeline

CONSTANTS u1, k1, r1

MCCommitOf1 == (u1 :> k1)
MCConns == Uploads \X (0..MaxRetries)
MCRepos == {r1}
MCLinesAdded == [k \in Commits |-> 2]
MCLinesByAI == [k \in Commits |-> 2]
MCPayload ==
  [c \in MCConns |-> [key |-> CommitOf[c[1]], repo |-> r1, lines |-> 2, at |-> 0]]
=============================================================================
