-------------------------- MODULE MCFormatCReader --------------------------
(***************************************************************************)
(* Two edits in two repositories.  Edit 1 sits in the repository at the     *)
(* workspace root, so its key survives routing; edit 2 does not.            *)
(***************************************************************************)
EXTENDS FormatCReader, TLC

MCSucceeds == Edits
MCRepoOf == <<"root", "sub">>
MCRawKey == <<"a.ts", "sub/b.ts">>
MCRepoKey == <<"a.ts", "b.ts">>

RunSymmetry == Permutations(Runs)
=============================================================================
