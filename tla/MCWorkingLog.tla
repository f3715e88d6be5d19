---------------------------- MODULE MCWorkingLog ----------------------------
(* WorkingLog on two agents at once with a commit, and on one agent that    *)
(* works on through two partial commits.                                    *)
EXTENDS WorkingLog, TLC

CONSTANTS a1, a2, h, f1

Together == [agents |-> (a1 :> 1 @@ a2 :> 1), human |-> 0, commits |-> 1]
Alone == [agents |-> (a1 :> 2 @@ a2 :> 0), human |-> 1, commits |-> 2]
\* People write at the top of a file, where it moves the agents' lines.
MCPlace == [l \in [by : {a1, a2, h}, n : 1..2] |->
              l.n + (IF l.by = h THEN 0 ELSE IF l.by = a1 THEN 2 ELSE 4)]
MCBudgets == {Together, Alone}
=============================================================================
