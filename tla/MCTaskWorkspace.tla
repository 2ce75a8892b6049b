--------------------------- MODULE MCTaskWorkspace ---------------------------
(***************************************************************************)
(* Two attempts, a repository of two files and one file that is not in it. *)
(* The diffs: one that changes a line, one with two hunks, and one for a   *)
(* file that is not there; each may be sent for any file.                  *)
(***************************************************************************)
EXTENDS TaskWorkspace, TLC

CONSTANTS a1, a2, f1, f2, g

MCAttempt == {a1, a2}
MCFile == {f1, f2, g}
MCLine == {"x", "y", "z"}
MCText == {<<"z">>}
Symmetry == Permutations(MCAttempt)

MCSource == (f1 :> <<"x", "y">>) @@ (f2 :> <<"z">>) @@ (g :> Absent)

Keep(t) == [mark |-> "=", text |-> t]
Del(t)  == [mark |-> "-", text |-> t]
Add(t)  == [mark |-> "+", text |-> t]

MCDiff == {
  <<[start |-> 1, body |-> <<Keep("x"), Del("y"), Add("z")>>]>>,
  <<[start |-> 1, body |-> <<Del("x"), Add("z"), Add("x")>>],
    [start |-> 2, body |-> <<Keep("y"), Add("z")>>]>>,
  <<[start |-> 0, body |-> <<Add("y")>>]>>}
=============================================================================
