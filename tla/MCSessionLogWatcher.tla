------------------------ MODULE MCSessionLogWatcher ------------------------
(***************************************************************************)
(* A Format B log: its first two actions edit one file at the workspace     *)
(* root, so that they have one key; the third is in a repository below the  *)
(* root, where routing changes its path.  Kiro's second pass adds both the  *)
(* second and the third.                                                    *)
(***************************************************************************)
EXTENDS SessionLogWatcher, TLC

MCPasses == [f \in Logs |-> <<1, 3>>]
MCThird == {a \in Actions : a[2] = 3}

MCRepoOf == [a \in Actions |-> IF a[2] = 3 THEN "sub" ELSE "root"]
MCRawKey == [a \in Actions |-> IF a[2] = 3 THEN "sub/b.ts:none" ELSE "a.ts:none"]
MCMarkKey == [a \in Actions |-> IF a[2] = 3 THEN "b.ts:none" ELSE "a.ts:none"]
=============================================================================
