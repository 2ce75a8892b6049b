----------------------------- MODULE MCAgentRun -----------------------------
EXTENDS TaskAttempts, SequencesExt

\* Every plan of at most one step, each kind of step before and behind others,
\* and a longer plan.
ShortPlans ==
  SeqOf(StepKind, 1) \cup {<<"tool", kind>> : kind \in StepKind}
  \cup {<<"note", "tool">>, <<"shell", "note">>, <<"skip", "shell">>, <<"tool", "shell", "note">>}
=============================================================================
