----------------------------- MODULE MCTaskQueue -----------------------------
(* Small instances of TaskQueue for TLC.                                    *)
EXTENDS TaskQueue, TLC

Symmetry == Permutations(Task) \cup Permutations(Worker \ OnceWorker) \cup Permutations(OnceWorker) \cup Permutations(Chat)
=============================================================================
