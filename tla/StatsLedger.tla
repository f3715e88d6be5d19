---------------------------- MODULE StatsLedger ----------------------------
(***************************************************************************)
(* What the upload of commit statistics promises, seen from outside: the    *)
(* dashboard counts commits and never forgets one, and a client that was    *)
(* told its commit is counted was told the truth.                           *)
(***************************************************************************)
CONSTANTS Commits, Clients, CommitOf

VARIABLES
  counted,    \* commits the dashboard has stored
  confirmed   \* clients that received a success answer

Count(k) ==
  /\ counted' = counted \cup {k}
  /\ UNCHANGED confirmed

Confirm(u) ==
  /\ CommitOf[u] \in counted
  /\ confirmed' = confirmed \cup {u}
  /\ UNCHANGED counted

Init == counted = {} /\ confirmed = {}

Next == (\E k \in Commits : Count(k)) \/ (\E u \in Clients : Confirm(u))

Spec == Init /\ [][Next]_<<counted, confirmed>>
=============================================================================
