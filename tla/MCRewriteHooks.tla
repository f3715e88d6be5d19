--------------------------- MODULE MCRewriteHooks ---------------------------
(* RewriteHooks on two files: the user writes at the top, where it moves    *)
(* the agent's lines.                                                       *)
EXTENDS RewriteHooks, TLC

CONSTANTS f1, f2

MCPlace == [l \in Lines |-> IF l.by = "human" /\ l # Root THEN l.n
                            ELSE IF l = Root THEN 100 ELSE 10 + l.n]
FileSymmetry == Permutations(Files)
=============================================================================
