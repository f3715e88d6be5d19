---------------------------- MODULE CommitStats ----------------------------
(***************************************************************************)
(* The line counts of one commit on their way to the dashboard: what        *)
(* `git-ai stats --json` computes from the authorship note                  *)
(* (authorship/stats.rs), what the post-commit hook rewrites before it      *)
(* sends them (gitUtils.ts), and the two terms of the ratio that store.js   *)
(* computes from what it is sent.                                           *)
(***************************************************************************)
EXTENDS Integers

AtMost(a, b) == IF a < b THEN a ELSE b

\* Broken variant: a difference that does not saturate.
MonusSigned(a, b) == a - b

Monus(a, b) == IF a < b THEN 0 ELSE a - b    \* u32::saturating_sub

\* Broken variant: mixed lines are not capped to the lines left over.
GitAiStatsUncapped(added, accepted, overridden) ==
  [ai |-> overridden + accepted, human |-> Monus(added, accepted), mixed |-> overridden,
   accepted |-> accepted, added |-> added]

(***************************************************************************)
(* stats_from_authorship_log.  accepted counts the added lines that the     *)
(* note attests (its diff follows no renames, that of `added` does, so it   *)
(* may exceed added); overridden sums overriden_lines over the prompts.     *)
(* Without a note both are zero.                                            *)
(***************************************************************************)
GitAiStats(added, accepted, overridden) ==
  LET mixed == AtMost(overridden, Monus(added, accepted))
  IN  [ai |-> mixed + accepted, human |-> Monus(added, accepted), mixed |-> mixed,
       accepted |-> accepted, added |-> added]

\* queryCommitStatsWithRetry: are these the stats of a commit with a note?
LooksComplete(s) == s.added = 0 \/ s.human + s.ai > 0

\* Broken variant: human_additions reduced by the mixed lines as well.
HookAdjustTwice(s) ==
  LET cap(n) == IF s.added > 0 THEN AtMost(n, s.added) ELSE n
  IN  [s EXCEPT !.ai = cap(Monus(s.ai, s.mixed)), !.human = Monus(cap(s.human), s.mixed)]

\* The hook: ai_additions without the mixed lines, every count capped to the
\* added lines (when there are any).
HookAdjust(s) ==
  LET pure == Monus(s.ai, s.mixed)
      cap(n) == IF s.added > 0 THEN AtMost(n, s.added) ELSE n
  IN  [s EXCEPT !.ai = cap(pure), !.human = cap(s.human), !.accepted = cap(s.accepted)]

(***************************************************************************)
(* recordAiRatioSnapshot: ratio = (ai - mixed * 0.5) / (ai + human - mixed) *)
(* over the sums of a repository; both terms are kept, doubled.             *)
(***************************************************************************)
RatioTotal(s) == s.ai + s.human - s.mixed
TwiceNumerator(s) == 2 * s.ai - s.mixed
=============================================================================
