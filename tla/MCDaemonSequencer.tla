------------------------- MODULE MCDaemonSequencer -------------------------
(* A small instance of DaemonSequencer. *)
EXTENDS DaemonSequencer

CONSTANTS push, tag, diff, h1, h2
Load(commands, checkpoints, kills, gc, stop) ==
  [commands |-> commands, checkpoints |-> checkpoints, kills |-> kills, gc |-> gc, stop |-> stop]
Two == Load({push, tag}, {h1}, 0, FALSE, FALSE)
Crowd == Load({push}, {h1, h2}, 1, TRUE, FALSE)
Direct == Load({diff}, {h1, h2}, 0, TRUE, FALSE)
Stopped == Load({push}, {h1}, 0, FALSE, TRUE)
Killed == Load({tag}, {h1}, 1, FALSE, FALSE)
MCBudgets == {Two, Crowd, Direct, Stopped, Killed}
=============================================================================
