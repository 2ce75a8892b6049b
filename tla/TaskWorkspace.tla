--------------------------- MODULE TaskWorkspace ---------------------------
(***************************************************************************)
(* The directory tree of a task: harness/workspace.py lays it out, seeds   *)
(* its repo, snapshots, restores and removes it; harness/file_editor.py    *)
(* edits its files, with a backup and a record per edit that a rollback    *)
(* goes by.  Attempts at the task are processes of their own (a task that  *)
(* was paused and resumed can have two of them), and each may die at any   *)
(* step.  The manager's commands (snapshot, restore, clean-up, rollback)   *)
(* have no caller in the program; they are given while no attempt runs.    *)
(*                                                                         *)
(* A text is a sequence of lines; the newline at its end is left out.      *)
(***************************************************************************)
EXTENDS Integers, Sequences, FiniteSets

CONSTANTS Attempt,      \* the attempts at the task
          File,         \* the names of files in repo
          Line,         \* the lines of texts
          Text,         \* the texts a write may bring
          Diff,         \* the unified diffs a patch may bring
          Source,       \* the repository that seeds the tree: a text per
                        \* file, or Absent
          Absent,       \* no file, no text, no snapshot
          MaxEdits,     \* bound on the number of edits
          MaxCommands   \* bound on the manager's commands

\* What a unified diff consists of: the hunks as _apply_unified_diff reads them.
Hunk == [start : Nat, body : Seq([mark : {"=", "-", "+"}, text : Line])]

ASSUME SourceAssumption == DOMAIN Source = File
ASSUME TextsAssumption ==
  /\ Text \subseteq Seq(Line)
  /\ \A f \in File : Source[f] # Absent => Source[f] \in Seq(Line)
  /\ \A diff \in Diff : diff \in Seq(Hunk)
  /\ Absent \notin Seq(Line) /\ Absent \notin Diff
ASSUME BoundsAssumption == MaxEdits \in Nat /\ MaxCommands \in Nat

VARIABLES
  inside,   \* the workspaces lie below the repository that is copied
  tree,     \* the task's directory
  row,      \* the status in workspaces_runtime
  snapshot, \* .snapshots: a copy of the tree, or Absent
  att,      \* the attempts
  op,       \* the command in progress: what it still has to do
  commands  \* how many commands there were

workspaceVars == <<inside, tree, row, snapshot, att, op, commands>>

\* The directories, the files in repo, the saved texts in patches/backups and
\* the records in patches.  The last two are history: the edits in the order
\* of writing, and whether a copy was cut off or two of them overlapped.
NoTree == [root |-> FALSE, repo |-> FALSE, file |-> [f \in File |-> Absent],
           backups |-> <<>>, records |-> <<>>, edits |-> <<>>,
           broken |-> FALSE]

New == [pc |-> "new", todo |-> {}, f |-> Absent, old |-> Absent,
        new |-> Absent, diff |-> Absent, backup |-> 0, edit |-> 0,
        disturbed |-> FALSE]

(***************************************************************************)
(* _apply_unified_diff.  A diff is a sequence of hunks; a hunk has the     *)
(* number of its first old line and a body of lines marked "=" (kept, a    *)
(* blank in the diff), "-" and "+".  The cursor is the index of the first  *)
(* source line that is not yet dealt with.                                 *)
(***************************************************************************)

ApplyLineStuck(old, acc, line) ==   \* mutant: "-" leaves the cursor alone
  IF ~acc.ok \/ line.mark = "-" THEN acc
  ELSE IF line.mark = "+" THEN [acc EXCEPT !.out = Append(@, line.text)]
  ELSE IF acc.cursor > Len(old) THEN [acc EXCEPT !.ok = FALSE]
  ELSE [acc EXCEPT !.out = Append(@, old[acc.cursor]), !.cursor = @ + 1]

\* A removed line moves the cursor on whatever the source holds there, and a
\* kept one is copied from the source, not from the diff.
ApplyLine(old, acc, line) ==
  IF ~acc.ok THEN acc
  ELSE IF line.mark = "+" THEN [acc EXCEPT !.out = Append(@, line.text)]
  ELSE IF line.mark = "-" THEN [acc EXCEPT !.cursor = @ + 1]
  ELSE IF acc.cursor > Len(old) THEN [acc EXCEPT !.ok = FALSE]
  ELSE [acc EXCEPT !.out = Append(@, old[acc.cursor]), !.cursor = @ + 1]

\* Lines up to the hunk are copied; past the end of the source that raises.
Fill(old, acc, start) ==
  IF ~acc.ok \/ acc.cursor >= start THEN acc
  ELSE IF start > Len(old) + 1 THEN [acc EXCEPT !.ok = FALSE]
  ELSE [acc EXCEPT !.out = @ \o SubSeq(old, acc.cursor, start - 1), !.cursor = start]

ApplyHunk(old, acc, hunk) ==
  LET after[n \in 0 .. Len(hunk.body)] ==
        IF n = 0 THEN Fill(old, acc, hunk.start)
        ELSE ApplyLine(old, after[n - 1], hunk.body[n])
  IN  after[Len(hunk.body)]

Apply(old, diff) ==
  LET after[n \in 0 .. Len(diff)] ==
        IF n = 0 THEN [ok |-> TRUE, out |-> <<>>, cursor |-> 1]
        ELSE ApplyHunk(old, after[n - 1], diff[n])
      end == after[Len(diff)]
  IN  [ok |-> end.ok, text |-> end.out \o SubSeq(old, end.cursor, Len(old))]

(***************************************************************************)
(* What a unified diff means: its hunks follow one another, name the lines *)
(* they keep and remove, and everything between them stays.                *)
(***************************************************************************)
AddLine(text, line, mark) ==
  IF line.mark = mark THEN text ELSE Append(text, line.text)

\* The lines of a hunk that do not bear the mark.
Without(hunk, mark) ==
  LET upTo[n \in 0 .. Len(hunk.body)] ==
        IF n = 0 THEN <<>> ELSE AddLine(upTo[n - 1], hunk.body[n], mark)
  IN  upTo[Len(hunk.body)]

OldText(hunk) == Without(hunk, "+")
NewText(hunk) == Without(hunk, "-")
First(hunk) == IF hunk.start = 0 THEN 1 ELSE hunk.start  \* 0: of an empty file
End(hunk) == First(hunk) + Len(OldText(hunk))

MadeFor(diff, old) ==
  /\ \A i \in DOMAIN diff :
       /\ Len(OldText(diff[i])) > 0 \/ old = <<>>
       /\ End(diff[i]) <= Len(old) + 1
       /\ OldText(diff[i]) = SubSeq(old, First(diff[i]), End(diff[i]) - 1)
  /\ \A i, j \in DOMAIN diff : i < j => End(diff[i]) <= First(diff[j])

Replace(text, hunk) ==
  SubSeq(text, 1, First(hunk) - 1) \o NewText(hunk) \o SubSeq(text, End(hunk), Len(text))

\* The text after the diff, computed from its last hunk to its first.
Meant(diff, old) ==
  LET text[n \in 0 .. Len(diff)] ==
        IF n = 0 THEN old ELSE Replace(text[n - 1], diff[Len(diff) + 1 - n])
  IN  text[Len(diff)]

-----------------------------------------------------------------------------
WorkspaceInit ==
  /\ inside \in BOOLEAN
  /\ tree = NoTree
  /\ row = "none"
  /\ snapshot = Absent
  /\ att = [a \in Attempt |-> New]
  /\ op = "none" /\ commands = 0

Seeding == {a \in Attempt : att[a].pc \in {"clear", "mkdir", "copy"}}
Editing == {a \in Attempt : att[a].pc \in {"save", "write", "record"}}
Running == Seeding \cup Editing \cup {a \in Attempt : att[a].pc = "work"}

\* What an attempt remembers ends with the operation.
To(a, pc) == att' = [att EXCEPT ![a] = [New EXCEPT !.pc = pc]]

(***************************************************************************)
(* Seeding: _run_harness_task and copy_repo_to_workspace.                  *)
(***************************************************************************)
\* create_task_workspace: directories that exist stay as they are.
Made == [tree EXCEPT !.root = TRUE, !.repo = TRUE]

Unseeded == \A f \in File : tree.file[f] = Absent

OpenUnmarked(a) ==   \* mutant: a repo directory is enough to count as seeded
  /\ att[a].pc = "new" /\ op = "none"
  /\ row' = "active"
  /\ tree' = [Made EXCEPT !.broken = @ \/ Seeding # {}]
  /\ To(a, IF tree.repo THEN "work" ELSE "clear")
  /\ UNCHANGED <<inside, snapshot, op, commands>>

\* Only an empty repo is seeded: a partial copy counts as a repository.
Open(a) ==
  /\ att[a].pc = "new" /\ op = "none"
  /\ row' = "active"
  /\ tree' = [Made EXCEPT !.broken = \/ @
                                     \/ Seeding # {}
                                     \/ Unseeded /\ Running # {}]
  /\ To(a, IF Unseeded THEN "clear" ELSE "work")
  /\ UNCHANGED <<inside, snapshot, op, commands>>

\* rmtree(repo), whatever is in it by now.
ClearRepo(a) ==
  /\ att[a].pc = "clear"
  /\ tree' = [tree EXCEPT !.repo = FALSE, !.file = NoTree.file]
  /\ To(a, "mkdir")
  /\ UNCHANGED <<inside, row, snapshot, op, commands>>

\* copytree makes the directory itself and raises if there is one.
MakeRepo(a) ==
  /\ att[a].pc = "mkdir"
  /\ IF tree.repo
     THEN To(a, "dead") /\ UNCHANGED tree
     ELSE /\ tree' = [tree EXCEPT !.repo = TRUE]
          /\ att' = [att EXCEPT ![a].pc = "copy",
                                ![a].todo = {f \in File : Source[f] # Absent}]
  /\ UNCHANGED <<inside, row, snapshot, op, commands>>

\* A file whose directory is gone cannot be written; copytree goes on and
\* raises in the end.
CopyFile(a) ==
  /\ att[a].pc = "copy"
  /\ \E f \in att[a].todo :
       /\ tree' = IF tree.repo
                  THEN [tree EXCEPT !.file[f] = Source[f]]
                  ELSE [tree EXCEPT !.broken = TRUE]
       /\ att' = [att EXCEPT ![a].todo = @ \ {f}]
  /\ UNCHANGED <<inside, row, snapshot, op, commands>>

\* With the workspaces inside the source, copytree descends into its own copy
\* until the paths are too long, and raises once the files are there.
EndCopy(a) ==
  /\ att[a].pc = "copy" /\ att[a].todo = {}
  /\ To(a, IF inside \/ ~tree.repo THEN "dead" ELSE "work")
  /\ UNCHANGED <<inside, tree, row, snapshot, op, commands>>

(***************************************************************************)
(* Edits: write_file and apply_patch.                                      *)
(***************************************************************************)
Current(f) == IF tree.file[f] = Absent THEN <<>> ELSE tree.file[f]

MayEdit == Len(tree.edits) + Cardinality(Editing) < MaxEdits

Edit(a, f, new, diff) ==
  att' = [att EXCEPT ![a] = [@ EXCEPT !.pc = "save", !.f = f, !.diff = diff,
            !.old = Current(f), !.new = new, !.disturbed = FALSE]]

\* write_file makes the directory first.
BeginWrite(a) ==
  /\ att[a].pc = "work" /\ MayEdit
  /\ \E f \in File, new \in Text : Edit(a, f, new, Absent)
  /\ tree' = [tree EXCEPT !.repo = TRUE]
  /\ UNCHANGED <<inside, row, snapshot, op, commands>>

\* A diff that cannot be applied raises before anything is written.
BeginPatch(a) ==
  /\ att[a].pc = "work" /\ MayEdit
  /\ \E f \in File, diff \in Diff :
       LET result == Apply(Current(f), diff) IN
       IF result.ok
       THEN Edit(a, f, result.text, diff)
       ELSE att' = [att EXCEPT ![a] = [@ EXCEPT !.f = f, !.diff = diff,
                      !.old = Current(f), !.new = Absent]]
  /\ UNCHANGED <<inside, tree, row, snapshot, op, commands>>

SaveOldLate(a) ==   \* mutant: the backup is taken after the file was written
  /\ att[a].pc = "save"
  /\ tree' = [tree EXCEPT !.backups = Append(@, att[a].new)]
  /\ att' = [att EXCEPT ![a] = [@ EXCEPT !.pc = "write",
               !.backup = Len(tree.backups) + 1]]
  /\ UNCHANGED <<inside, row, snapshot, op, commands>>

\* create_backup copies what the file holds now, if it is there.
SaveOld(a) ==
  /\ att[a].pc = "save"
  /\ LET now   == tree.file[att[a].f]
         saved == IF now = Absent THEN tree.backups ELSE Append(tree.backups, now)
     IN  /\ tree' = [tree EXCEPT !.backups = saved]
         /\ att' = [att EXCEPT ![a] = [@ EXCEPT !.pc = "write",
                      !.backup = IF now = Absent THEN 0 ELSE Len(saved),
                      !.disturbed = FALSE]]
  /\ UNCHANGED <<inside, row, snapshot, op, commands>>

\* The file gets a text; another attempt's backup of it may now be stale.
Put(a, text, next) ==
  LET t == att[a] IN
  /\ tree' = [tree EXCEPT !.repo = TRUE, !.file[t.f] = text,
       !.edits = Append(@, [f |-> t.f, before |-> tree.file[t.f],
                            backup |-> t.backup, disturbed |-> t.disturbed])]
  /\ att' = [b \in Attempt |->
       IF b = a THEN next
       ELSE [att[b] EXCEPT !.disturbed =
               @ \/ (att[b].pc = "write" /\ att[b].f = t.f)]]

\* apply_patch makes the directory only now; write_file raises without one.
Write(a) ==
  /\ att[a].pc = "write"
  /\ IF tree.repo \/ att[a].diff # Absent
     THEN Put(a, att[a].new, [New EXCEPT !.pc = "record", !.f = att[a].f,
                !.backup = att[a].backup, !.edit = Len(tree.edits) + 1])
     ELSE To(a, "work") /\ UNCHANGED tree
  /\ UNCHANGED <<inside, row, snapshot, op, commands>>

StoreNewest(a) ==   \* mutant: the record names the newest backup
  /\ att[a].pc = "record"
  /\ tree' = [tree EXCEPT !.records = Append(@,
       [edit |-> att[a].edit, f |-> att[a].f, backup |-> Len(tree.backups)])]
  /\ To(a, "work")
  /\ UNCHANGED <<inside, row, snapshot, op, commands>>

\* _store_patch_record: what rollback_patch will go by.
StoreRecord(a) ==
  /\ att[a].pc = "record"
  /\ tree' = [tree EXCEPT !.records =
       Append(@, [edit |-> att[a].edit, f |-> att[a].f, backup |-> att[a].backup])]
  /\ To(a, "work")
  /\ UNCHANGED <<inside, row, snapshot, op, commands>>

Stop(a) ==
  /\ att[a].pc = "work"
  /\ To(a, "dead")
  /\ UNCHANGED <<inside, tree, row, snapshot, op, commands>>

Crash(a) ==
  /\ a \in Running
  /\ tree' = [tree EXCEPT !.broken = @ \/ att[a].todo # {}]
  /\ To(a, "dead")
  /\ UNCHANGED <<inside, row, snapshot, op, commands>>

\* write_text empties the file before it writes it.
CrashWriting(a) ==
  /\ att[a].pc = "write" /\ tree.repo
  /\ att[a].new # <<>>
  /\ Put(a, <<>>, [New EXCEPT !.pc = "dead"])
  /\ UNCHANGED <<inside, row, snapshot, op, commands>>

(***************************************************************************)
(* The manager's commands.                                                 *)
(***************************************************************************)
Command == /\ op = "none" /\ Running = {}
           /\ commands < MaxCommands
           /\ commands' = commands + 1
           /\ UNCHANGED <<inside, att>>

\* get_task_workspace makes a tree if there is none; /workspace is that alone.
Look ==
  /\ Command
  /\ IF tree.root
     THEN UNCHANGED <<tree, row>>
     ELSE tree' = Made /\ row' = "active"
  /\ UNCHANGED <<snapshot, op>>

Snapshot ==
  /\ Command
  /\ IF tree.root
     THEN UNCHANGED <<tree, row>>
     ELSE tree' = Made /\ row' = "active"
  /\ snapshot' = tree'
  /\ UNCHANGED op

\* Both commands remove the tree first.
Wipe(next) ==
  /\ Command
  /\ tree' = NoTree
  /\ op' = next
  /\ UNCHANGED <<row, snapshot>>
Restore == snapshot # Absent /\ Wipe("restore")
Cleanup == Wipe("cleanup")

EndRestore ==
  /\ op = "restore"
  /\ tree' = snapshot
  /\ row' = "restored" /\ op' = "none"
  /\ UNCHANGED <<inside, snapshot, att, commands>>

EndCleanup ==
  /\ op = "cleanup"
  /\ row' = "deleted" /\ op' = "none"
  /\ UNCHANGED <<inside, tree, snapshot, att, commands>>

\* A restore that dies has copied some of the files.
CommandDies ==
  /\ op # "none"
  /\ op' = "none"
  /\ \/ UNCHANGED tree
     \/ /\ op = "restore"
        /\ \E copied \in SUBSET File :
             tree' = [snapshot EXCEPT !.broken = TRUE,
                        !.file = [f \in File |->
                          IF f \in copied THEN snapshot.file[f] ELSE Absent]]
  /\ UNCHANGED <<inside, row, snapshot, att, commands>>

\* rollback_patch: without a backup the edit had made the file.
Rollback(i) ==
  /\ Command /\ tree.repo
  /\ LET r == tree.records[i] IN
     tree' = [tree EXCEPT !.file[r.f] =
                IF r.backup = 0 THEN Absent ELSE tree.backups[r.backup]]
  /\ UNCHANGED <<row, snapshot, op>>

-----------------------------------------------------------------------------
AttemptStep(a) ==
  \/ Open(a) \/ ClearRepo(a) \/ MakeRepo(a) \/ CopyFile(a) \/ EndCopy(a)
  \/ BeginWrite(a) \/ BeginPatch(a) \/ SaveOld(a) \/ Write(a)
  \/ StoreRecord(a) \/ Stop(a) \/ Crash(a) \/ CrashWriting(a)

WorkspaceNext ==
  \/ \E a \in Attempt : AttemptStep(a)
  \/ Look \/ Snapshot \/ Restore \/ Cleanup
  \/ EndRestore \/ EndCleanup \/ CommandDies
  \/ \E i \in DOMAIN tree.records : Rollback(i)

WorkspaceSpec == WorkspaceInit /\ [][WorkspaceNext]_workspaceVars

(***************************************************************************)
(* Properties.                                                             *)
(***************************************************************************)
\* Whatever an edit wrote over is kept: what the file held is in the edit's
\* backup, and an edit without a backup made the file, even if the attempt
\* died before the record.  (Two attempts that edit one file at once, and a
\* tree that was not copied whole, can void that.)
EditsAreReversible ==
  ~tree.broken =>
    \A n \in DOMAIN tree.edits :
      LET e == tree.edits[n] IN
      ~e.disturbed => IF e.before = Absent THEN e.backup = 0
                      ELSE /\ e.backup \in DOMAIN tree.backups
                           /\ tree.backups[e.backup] = e.before

\* Rolling a recorded edit back, after further edits, crashes, a snapshot and
\* a restore too, gives the file the text the edit found.
RollbackUndoes ==
  [][\A i \in DOMAIN tree.records : Rollback(i) =>
       LET e == tree.edits[tree.records[i].edit] IN
       ~tree.broken /\ ~e.disturbed => tree'.file[e.f] = e.before]_workspaceVars

\* A diff made for the text it is applied to is applied, and as it was meant, but
\* for a hunk without old lines in a text that has some: the code inserts its
\* lines one line too early (_apply_unified_diff), and MadeFor leaves it out.
PatchIsExact ==
  \A a \in Attempt :
    LET t == att[a] IN
    t.diff # Absent /\ MadeFor(t.diff, t.old) => t.new = Meant(t.diff, t.old)

\* An attempt goes to work on a whole copy of the repository, unless a copy
\* was cut off before or two attempts were seeding at once.
SeededIsWhole ==
  [][\A a \in Attempt :
       /\ att[a].pc \in {"new", "copy"} /\ att'[a].pc = "work"
       /\ ~tree'.broken
       => \A f \in File : Source[f] # Absent => tree'.file[f] # Absent]_workspaceVars
=============================================================================
