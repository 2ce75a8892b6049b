-------------------------- MODULE MCShellApproval --------------------------
(* Small instances of ShellApproval for TLC.                                *)
EXTENDS ShellApproval
=============================================================================
