---------------------------- MODULE MCHarnessLoop ----------------------------
(* Small instances of HarnessLoop for TLC.                                   *)
EXTENDS HarnessLoop

\* One run does everything, the others ask for approvals meanwhile.
BusyRun == CHOOSE r \in Run : TRUE
OneBusy == [r \in Run |-> IF r = BusyRun THEN Action ELSE {"guarded"}]
=============================================================================
