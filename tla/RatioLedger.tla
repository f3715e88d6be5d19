---------------------------- MODULE RatioLedger ----------------------------
(***************************************************************************)
(* The cumulative AI ratio of one repository.  Commits reach it from the    *)
(* extension, which sends the output of git-ai stats, or from the hook,     *)
(* which sends the adjusted counts; the dashboard applies one formula to    *)
(* the sums of both (store.js, recordAiRatioSnapshot).                      *)
(***************************************************************************)
EXTENDS CommitStats

CONSTANTS
  MaxLines,    \* bound on the line counts of one commit
  MaxCommits   \* bound on the commits stored

ASSUME BoundsAssumption == MaxLines \in Nat /\ MaxCommits \in Nat

VARIABLES
  sum,      \* [ai, human, mixed] summed over the stored commits
  stored,   \* how many commits are stored
  viaHook   \* observation: some stored commit came from the hook

ratioVars == <<sum, stored, viaHook>>

Store(s) ==
  /\ stored < MaxCommits
  /\ stored' = stored + 1
  /\ sum' = [ai |-> sum.ai + s.ai, human |-> sum.human + s.human,
             mixed |-> sum.mixed + s.mixed]

\* statsUploader.ts sends the output of git-ai stats as it is.
UploadFromExtension(added, accepted, overridden) ==
  /\ Store(GitAiStats(added, accepted, overridden))
  /\ UNCHANGED viaHook

\* The post-commit hook sends the adjusted counts.
UploadFromHook(added, accepted, overridden) ==
  /\ Store(HookAdjust(GitAiStats(added, accepted, overridden)))
  /\ viaHook' = TRUE

RatioInit ==
  /\ sum = [ai |-> 0, human |-> 0, mixed |-> 0]
  /\ stored = 0
  /\ viaHook = FALSE

RatioNext ==
  \E added, accepted, overridden \in 0..MaxLines :
    \/ UploadFromExtension(added, accepted, overridden)
    \/ UploadFromHook(added, accepted, overridden)

RatioSpec == RatioInit /\ [][RatioNext]_ratioVars

(***************************************************************************)
(* Properties                                                               *)
(***************************************************************************)
\* The sums are line counts.
SumsOK ==
  /\ sum \in [ai : Nat, human : Nat, mixed : Nat]
  /\ stored \in 0..MaxCommits
  /\ viaHook \in BOOLEAN

\* As long as only the extension uploads, the dashboard's ratio is a
\* proportion, and a snapshot is skipped only when no line was added at all.
ExtensionRatioInUnit ==
  ~viaHook =>
    /\ 0 <= TwiceNumerator(sum) /\ TwiceNumerator(sum) <= 2 * RatioTotal(sum)
    /\ RatioTotal(sum) = 0 => sum.ai = 0 /\ sum.human = 0

\* Whoever uploads, the ratio never exceeds one and its total never turns
\* negative: mixed lines are human lines and are capped to them at the source.
RatioAtMostOne ==
  0 <= RatioTotal(sum) /\ TwiceNumerator(sum) <= 2 * RatioTotal(sum)
=============================================================================
