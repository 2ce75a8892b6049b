-------------------------- MODULE MCSkillProposals --------------------------
(* Small instances of SkillProposals for TLC.                               *)
EXTENDS SkillProposals, TLC

\* Three versions, the second of which exists with two contents.
Versions == {[version |-> 1, hash |-> "a"], [version |-> 2, hash |-> "a"],
             [version |-> 2, hash |-> "b"], [version |-> 3, hash |-> "a"]}

Symmetry == Permutations(Session)
=============================================================================
